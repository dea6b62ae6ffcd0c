SPECIFICATION Spec
CONSTANTS
    a = a
    b = b
    c = c
    Tests = {a, b}
    Initial = _init
    None = none
    Cksums = {k1}
    Parents <- AnyPair
    IsMachine = FALSE
    TornWrites = TRUE
    CrashPoints <- Anywhere
    EditPhases = {"plan"}
    MaxLinks = 2
INVARIANTS
    NoReentry
    MainReadable
