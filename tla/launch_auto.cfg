SPECIFICATION Spec
CONSTANTS
    Projects <- AutoAndWaiting
    Machines = {}
    Controllers = {"f"}
    Networks = {}
    Uncleaned = {}
    Invalidated = {{}, {"C", "D", "P"}}
    MaxLaunches <- Thrice
    Kills = {}
    Failing = {"P", "R"}
    PoweredOff = {}
    Holders = {}
    Forgetful = {}
INVARIANTS
    EnvironmentIsRight
    RestoreSucceeds
    NoTemporaryLeft
PROPERTIES
    LaunchEnds
CHECK_DEADLOCK FALSE
