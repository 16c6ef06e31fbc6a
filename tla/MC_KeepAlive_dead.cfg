SPECIFICATION FairTimingSpec
CONSTANTS
    keepAliveInterval = 60
    Slow = 0
    Latency = 5
    MaxTime = 70
PROPERTIES DeadLinkIsNoticed
