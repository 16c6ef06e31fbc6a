SPECIFICATION FairSpec
CONSTANTS
    MaxCommands = 3
INVARIANTS CommandsKept SnapshotCurrent AlarmJustified
PROPERTIES FailedInitIsFinal AlarmFollowsGas
