SPECIFICATION FairSpec
CONSTANTS
    start = start  onway = onway  first = first  second = second  both = both
    Pose <- MCPose
    StartPose = start
    N = 2
    Distance <- DistanceOf
    RawError <- RawErrorOf
    Apart <- MCApart
    BRAKE_CYCLES = 3
    StuckTimeout = 4
    Delays <- OneOrTwo
    StillBound = 15
INVARIANTS BrakesSafely PidFresh FrozenMeansStopped
PROPERTIES ImplementsMission EndsOrMoves
CHECK_DEADLOCK FALSE
