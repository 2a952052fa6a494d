SPECIFICATION Spec
CONSTANTS
    p1 = p1
    p2 = p2
    Procs <- One
    Owner = p1
    SMP = FALSE
    Calls <- Stays
    MaxCalls = 4
    SendSizes = {0, 2}
    RecvLens = {0, 2}
    MaxEvents = 3
    SendTmouts = {"infinity"}
    RecvTmout = TRUE
    Opts = {"active_false", "active_once", "active_true"}
    Actives = {"false", "true"}
    Peer = {"incoming", "fin", "rst", "timeout", "senderr"}
CHECK_DEADLOCK FALSE
INVARIANTS
    ReceiverNotStranded
    SenderNotStranded
    DataReachesReader
    ClosedIsLast
    SendResultDocumented
PROPERTY
    ClosingIsFinal
