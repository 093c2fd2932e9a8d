SPECIFICATION Spec
CONSTANTS
    NumWqs = 2
    MaxContexts = 1
    MaxMade <- TwoCqs
    MaxOutstanding = 2
    ArenaSize = 9
    Page = 2
    RingSize = 2
    PeersStop = TRUE
    NoOp = NoOp
CHECK_DEADLOCK FALSE
INVARIANTS TypeOK OnlySendersUseFreed DpuAlive HostViewLive RingsOwned CleanClose
