SPECIFICATION FairSpec
CONSTANTS
    Command <- MC_Command
    Reply <- MC_Reply
    NoReply = "NONE"
    Online = "DEVICE_ONLINE"
    PayloadLen <- MC_PayloadLen
    PIPE_BUFSZ = 92
    MaxCommands = 2
    MaxFaults = 2
CHECK_DEADLOCK FALSE
INVARIANTS ExecutedInOrder AckAfterExecute SentInOrder
PROPERTIES EventuallyOnline PipeDrains
