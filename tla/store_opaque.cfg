SPECIFICATION Spec
CONSTANTS
    a = a
    b = b
    c = c
    Tests = {a, b}
    Initial = _init
    None = none
    Cksums = {k1}
    Parents <- FixedPair
    IsMachine = TRUE
    TornWrites = FALSE
    CrashPoints <- Nowhere
    EditPhases = {"plan"}
    MaxLinks = 1
INVARIANTS
    KeptSnapshotRestorable
