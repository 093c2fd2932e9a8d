SPECIFICATION Spec
CONSTANTS
    a = a
    b = b
    Endpoint <- MCEndpoint
    Peer <- MCPeer
    Workload <- BothWaysWorkload
    WqeCnt = 3
    MaxOutstanding = 2
    PsnMod = 8
    MaxUnacked = 2
    MaxPktPerAck = 1
    RxDepth = 4
    MaxFaults = 0
PROPERTIES DuplicateIsKnown
