SPECIFICATION Spec
CONSTANTS
    Projects <- Siblings
    Machines = {}
    Controllers = {"f"}
    Networks = {}
    Uncleaned = {}
    Invalidated = {{}}
    MaxLaunches <- Once
    Kills = {}
    Failing = {"B"}
    PoweredOff = {}
    Holders = {}
    Forgetful = {}
INVARIANTS
    EnvironmentIsRight
CHECK_DEADLOCK FALSE
