SPECIFICATION Spec
CONSTANTS
    t1 = t1
    t2 = t2
    t3 = t3
    f1 = f1
    f2 = f2
    p1 = p1
    p2 = p2
    Threads = {t1, t2, t3}
    Files = {f1, f2}
    Processes = {p1, p2}
    FileOf <- TwoFiles
    Tgid <- ParentAndChild
    Sizes = {16}
    TxDepth = 2
    RxDepth = 2
    NoThread = NoThread
    NoProcess = NoProcess
    MaxCalls = 3
CHECK_DEADLOCK FALSE
INVARIANTS TypeOK ReplyMatches RecvSlotsKept UnharmedByChild
PROPERTIES EveryCallReturns
