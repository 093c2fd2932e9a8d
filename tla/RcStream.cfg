SPECIFICATION Spec
CONSTANTS
    a = a
    b = b
    Endpoint <- MCEndpoint
    Peer <- MCPeer
    Workload <- StreamWorkload
    WqeCnt = 3
    MaxOutstanding = 2
    PsnMod = 8
    MaxUnacked = 2
    MaxPktPerAck = 1
    RxDepth = 2
    MaxFaults = 0
INVARIANTS TypeOK RecvCqePerSend NoAbort
PROPERTIES EveryWqeCompletes
