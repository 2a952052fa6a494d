SPECIFICATION Spec
CONSTANTS
    Base = 3
    Payloads <- Data
    MaxSends = 3
    MaxPiece = 5
    Packets = {0, 1, 2}
    Headers = {0, 1}
    Actives <- Sparing
    RecvLens = {0, 2}
    Splits = FALSE
    Agree = TRUE
    Shared = FALSE
CHECK_DEADLOCK FALSE
INVARIANTS
    NoFault
    BufferInv
    ReceiverServed
    ActiveServed
PROPERTY
    ImplementsStream
