SPECIFICATION FairSpec
CONSTANTS
    p1 = p1
    p2 = p2
    Procs <- One
    Owner = p1
    SMP = FALSE
    Calls <- Plain
    MaxCalls = 2
    SendSizes = {2}
    RecvLens = {0}
    MaxEvents = 1
    SendTmouts = {"infinity"}
    RecvTmout = FALSE
    Opts = {}
    Actives = {"false"}
    Peer = {"incoming", "timeout"}
CHECK_DEADLOCK FALSE
PROPERTY CloseReturns
