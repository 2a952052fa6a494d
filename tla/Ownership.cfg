SPECIFICATION FairSpec
CONSTANTS
    Procs = {p, q, r}
    None = None
    MaxCalls = 3
    Eager = FALSE
CHECK_DEADLOCK FALSE
INVARIANTS
    OwnerLinked
    OwnershipInv
PROPERTIES
    PortClosedAfterOwner
