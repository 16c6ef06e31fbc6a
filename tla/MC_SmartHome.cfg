CONSTANTS
    Operated = {"beep"}
    Reading <- MCReading
    Junk <- MCJunk
    Measured <- MCMeasured
    PollsPerAll = 2
    Size = 96
    MaxRequests = 2
    MaxChange = 1
    MaxFault = 2
SPECIFICATION Spec
INVARIANTS
    TypeOK
    WarningMatchesDisplay
    DamageIsContained
    TextStandsForNumber
PROPERTIES
    DecodesSnapshot
    Converges
    LeakIsReported
