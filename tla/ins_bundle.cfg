SPECIFICATION Spec
CONSTANTS
    Rates = {10, 50}
    Offsets = {0, 1}
    MaxEpoch = 6
    PerWeek = 4
    MaxDamaged = 2
    MaxTime = 3
    MaxObs = 6
    Pause = 2
    Boots <- Midweek
    MaxUptime = 7
    Rovers <- TwoRovers
    Output <- BaseOutput
    MaxConnections = 2
    MaxBehind = 1
INVARIANT OneTimePerBundle
CHECK_DEADLOCK FALSE
