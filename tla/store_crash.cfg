SPECIFICATION Spec
CONSTANTS
    a = a
    b = b
    c = c
    Tests = {a, b}
    Initial = _init
    None = none
    Cksums = {k1, k2}
    Parents <- AnyPair
    IsMachine = TRUE
    TornWrites = FALSE
    CrashPoints <- Anywhere
    EditPhases = {"plan"}
    MaxLinks = 2
INVARIANTS
    TypeOK
    NoDanglingChild
    DeleteFindsChildren
    StoreInv
