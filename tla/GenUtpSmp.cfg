\* One process, every call, every event, port thread and main thread concurrent.
SPECIFICATION Spec
CONSTANTS
    p1 = p1
    p2 = p2
    Procs <- One
    Owner = p1
    SMP = TRUE
    Calls <- OneUser
    MaxCalls = 3
    SendSizes = {0, 2}
    RecvLens = {0, 2}
    MaxEvents = 2
    SendTmouts = {"zero", "finite"}
    RecvTmout = TRUE
    Opts = {"active_once", "active_true", "bufsize"}
    Actives = {"false", "true"}
    Peer = {"incoming", "fin", "rst", "timeout", "senderr"}
CHECK_DEADLOCK FALSE
INVARIANTS
    HandleMatchesSocket
    WritableMeansDrained
    CloserRegistered
    ConnInv
PROPERTY
    NoWriteAfterDelete
