SPECIFICATION Spec
CONSTANTS
    N = 4
    Batch = 2
    SignalBatch = 2
    MaxDma = 5
    MaxList = 3
    MaxPosts = 10
CHECK_DEADLOCK FALSE
PROPERTIES DmaInsideRing
