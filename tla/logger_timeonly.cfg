SPECIFICATION Spec
CONSTANTS
    None = None
    Mountpoint = {rtcm, eph}
    MaxDrops = 2
    Place = {0, 3}
    MaxWaypoints = 2
    CalibSamples = 2
    MaxDt = 2
    Slow = 1
    Rates <- Tilting
    Pushes = {0, 1}
    Skews <- Jumps
    MaxTilt = 3
    MaxTicks = 5
    MaxFailures = 1
    BiasSamples = 3
    Drifts = {0, 1}
    Turns <- Turning
    Circle = 4
    Places <- Corners
    Fixes = {512, 768, 1280}
    DatumSamples = 2
    SmoothWindow = 3
    DistanceThreshold = 2
    OdomZero = 2
    MaxStep = 1
    MaxPlace = 3
    MaxMessages = 6
PROPERTY HomeHas3DFix
CHECK_DEADLOCK FALSE
