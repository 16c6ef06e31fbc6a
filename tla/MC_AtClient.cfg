CONSTANTS
    Caller = {worker, workq}
    Worker = worker
    NoCaller = none
    MaxCmd = 2
    MaxGlitch = 1
    MaxLines = 2
SPECIFICATION Spec
INVARIANTS
    NoDanglingResponse
    OneStaleNotice
    OwnAnswer
    DataAfterPrompt
    FullIsNotReported
PROPERTIES
    DeletedIsLeftAlone
    OwnSendResult
CHECK_DEADLOCK FALSE
