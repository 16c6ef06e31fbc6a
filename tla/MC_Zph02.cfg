SPECIFICATION FairSpec
CONSTANTS
    Frames <- MC_Frames
    Noise = {255}
    RT_SERIAL_RB_BUFSZ = 3
    SemMax = 2
    MaxFaults = 1
INVARIANTS NoLostWakeup GenuineMeasurement StallsOnlyOnZeroSum
PROPERTIES ReadBlendsAdjacent RejectionIsFinal HeaderNeverResyncs SteadyValueIsReported
