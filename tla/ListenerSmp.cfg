\* One listener, its port thread and the main thread concurrent.
SPECIFICATION Spec
CONSTANTS
    p1 = p1
    p2 = p2
    l1 = l1
    l2 = l2
    Procs = {p1, p2}
    Lsns = {l1}
    SMP = TRUE
    Calls = {"accept", "async", "exit", "close"}
    Tmout = TRUE
    Packets = {"syn", "other", "junk"}
    MaxCalls = 2
    MaxPackets = 3
CHECK_DEADLOCK FALSE
INVARIANTS
    AcceptorNotStranded
    OneAnswer
    QueuedIsMonitored
    MonitorsInv
