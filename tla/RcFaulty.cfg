SPECIFICATION Spec
CONSTANTS
    a = a
    b = b
    Endpoint <- MCEndpoint
    Peer <- MCPeer
    Workload <- FaultyWorkload
    WqeCnt = 3
    MaxOutstanding = 2
    PsnMod = 8
    MaxUnacked = 2
    MaxPktPerAck = 1
    RxDepth = 1
    MaxFaults = 2
INVARIANTS InOrderDelivery CompletionSound CompletionOrder SequenceOrder
PROPERTIES DuplicateIsKnown
