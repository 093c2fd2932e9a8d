SPECIFICATION Spec
CONSTANTS
    N = 4
    W = 8
    MaxInFlight = 4
    Previous <- FreshMemory
    MaxEntries = 2
    MaxCqes = 11
INVARIANTS TypeOK CqInv
PROPERTIES QueueSpec EveryCqePolled
