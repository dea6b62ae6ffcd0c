SPECIFICATION Spec
CONSTANTS
    Projects <- Edited
    Machines = {"m", "m2"}
    Controllers = {"m", "m2"}
    Networks = {"n"}
    Uncleaned = {{}, {"n"}}
    Invalidated = {{}, {"B"}, {"C"}}
    MaxLaunches <- EditedLaunches
    Kills <- Everything
    Failing = {"B", "C"}
    PoweredOff = {"A"}
    Holders <- HoldingBodies
    Forgetful <- ForgetfulBodies
INVARIANTS
    TypeOK
    CacheSound
    EnvironmentIsRight
    KeysUp
    CacheUpdated
    MachinesStopped
CHECK_DEADLOCK FALSE
