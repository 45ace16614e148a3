SPECIFICATION CheckedSpec
CONSTANTS
    Addr = {0, 1}
    Data = {0, 1, X}
    X = X
INVARIANTS
    CheckedTypeOK
    AssertionHolds
    ReadyTwoCyclesLater
PROPERTY ImplementsReference
