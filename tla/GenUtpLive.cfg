\* One process that may exit, one scheduler, a peer that may stay silent or close.
SPECIFICATION FairSpec
CONSTANTS
    p1 = p1
    p2 = p2
    Procs <- One
    Owner = p1
    SMP = FALSE
    Calls <- Exits
    MaxCalls = 4
    SendSizes = {0, 2}
    RecvLens = {0, 2}
    MaxEvents = 2
    SendTmouts = {"finite", "infinity"}
    RecvTmout = TRUE
    Opts = {}
    Actives = {"false"}
    Peer = {"incoming", "fin", "no_answer", "senderr"}
CHECK_DEADLOCK FALSE
PROPERTIES
    ConnectReturns
    SendReturns
    CloseReturns
    HandlerReclaimed
