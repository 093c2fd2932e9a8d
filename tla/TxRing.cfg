SPECIFICATION TxSpec
CONSTANTS
    TxDepth = 5
    TxBatch = 3
    SqDepth = 5
    PollMax = 1
    MaxPackets = 14
CHECK_DEADLOCK FALSE
INVARIANTS TxTypeOK HeaderIntact CompCounts
PROPERTIES EveryPacketSent
