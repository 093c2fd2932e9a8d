SPECIFICATION Spec
CONSTANTS
    N = 2
    HostMaxSge = 3
    MaxSge = 4
    Mtu = 2
    Lists <- SomeLists
    Lengths = {1, 3, 4}
    MaxPosts = 4
    MaxMessages = 4
CHECK_DEADLOCK FALSE
INVARIANTS TypeOK PlacedExactly RecvWcExact EndsJustified
