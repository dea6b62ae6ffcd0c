SPECIFICATION Spec
CONSTANTS
    a = a
    b = b
    c = c
    Tests = {a, b, c}
    Initial = _init
    None = none
    Cksums = {k1, k2}
    Parents <- FixedChain
    IsMachine = TRUE
    TornWrites = FALSE
    CrashPoints <- OutsideWindows
    EditPhases = {"plan"}
    MaxLinks = 1
INVARIANTS
    AncestorsPresent
    NoReentry
    ForestInv
PROPERTIES
    ImplementsForest
