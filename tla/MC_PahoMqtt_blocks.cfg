SPECIFICATION Spec
CONSTANTS
    Command <- MC_Poll
    Reply <- MC_PollReply
    NoReply = "NONE"
    Online = "DEVICE_ONLINE"
    PayloadLen <- MC_PollLen
    PIPE_BUFSZ = 512
    MaxCommands = 9
    MaxFaults = 0
CHECK_DEADLOCK FALSE
INVARIANTS PublishNeverBlocks
