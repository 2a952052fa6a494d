SPECIFICATION Spec
CONSTANTS
    Sizes = {0, 1, 3}
    MaxPushed = 7
    MaxLen = 4
INVARIANTS
    QueueInv
PROPERTY
    ImplementsFifo
