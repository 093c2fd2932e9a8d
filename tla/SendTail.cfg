SPECIFICATION Spec
CONSTANTS
    QPs = {q1}
    CQs = {c1}
    SendCq <- OneCq
    N = 4
    W = 8
    MaxPosts = 11
CHECK_DEADLOCK FALSE
INVARIANTS TypeOK SlotsKept TailExact
