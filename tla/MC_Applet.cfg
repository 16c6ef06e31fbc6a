CONSTANTS
    MaxId = 4
    MaxPublish = 5
    MaxFault = 2
SPECIFICATION Spec
INVARIANTS
    TypeOK
    KeptUntilReceived
    InOrderOnce
    SettledOnLast
PROPERTIES
    Recovers
CHECK_DEADLOCK FALSE
