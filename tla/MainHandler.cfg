SPECIFICATION FairSpec
CONSTANTS
    None = None
    Ports = {a, b, c}
    Mains = {m1, m2}
    Fds = {1, 2}
    Kinds = {"listener", "conn"}
    Modes = {TRUE, FALSE}
    Busy = FALSE
CHECK_DEADLOCK FALSE
INVARIANTS
    ServerIsMain
    SelectedIsHeard
    MapInv
    NoDescriptorLost
PROPERTIES
    ClosedWhenDone
    
