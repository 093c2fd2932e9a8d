SPECIFICATION Spec
CONSTANTS
    N = 4
    Batch = 1
    SignalBatch = 2
    MaxDma = 3
    MaxList = 3
    MaxPosts = 10
CHECK_DEADLOCK FALSE
INVARIANTS TypeOK RingInv
PROPERTIES QueueSpec EveryWqeTaken
