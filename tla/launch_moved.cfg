SPECIFICATION Spec
CONSTANTS
    Projects <- Moving
    Machines = {"m", "m2"}
    Controllers = {"m", "m2"}
    Networks = {}
    Uncleaned = {}
    Invalidated = {{}}
    MaxLaunches <- Thrice
    Kills = {}
    Failing = {"B"}
    PoweredOff = {}
    Holders = {}
    Forgetful = {}
INVARIANTS
    CacheSound
CHECK_DEADLOCK FALSE
