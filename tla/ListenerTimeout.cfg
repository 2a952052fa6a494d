SPECIFICATION FairSpec
CONSTANTS
    p1 = p1
    p2 = p2
    l1 = l1
    l2 = l2
    Procs = {p1, p2}
    Lsns = {l1}
    SMP = FALSE
    Calls = {"accept", "exit", "close"}
    Tmout = TRUE
    Packets = {"syn", "connerr"}
    MaxCalls = 2
    MaxPackets = 3
CHECK_DEADLOCK FALSE
INVARIANT
    NoFault
PROPERTY
    AcceptReturns
