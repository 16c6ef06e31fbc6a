SPECIFICATION FairTimingSpec
CONSTANTS
    keepAliveInterval = 60
    Slow = 6
    Latency = 5
    MaxTime = 70
INVARIANTS DetectedInTime SendsInTime
PROPERTIES TimedWaitLeads
