SPECIFICATION Spec
CONSTANTS
    Options <- Small
    MaxList = 2
    Half = 4
    DefaultBuf = 3
    AskNames = {"active", "mode", "send_timeout", "packet", "sndbuf", "recbuf"}
    SMP = FALSE
CHECK_DEADLOCK FALSE
INVARIANTS
    OptsAsAsked
    GetReturnsSet
    StoredOptsInv
