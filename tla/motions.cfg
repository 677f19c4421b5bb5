SPECIFICATION Spec
CONSTANTS
    Waypoints <- Route
    GoalTolerance = 2
    HeadingTolerance = 4
    BangHalf = 12
    BangCone = 4
    BangLag = 2
    BangDrifts = 3
    BangSpeed = 1
    BangTurn = 2
    SimpleHalf = 16
    SimpleCone = 6
    SimpleLag = 1
    SimpleDrifts = 4
    SimpleSpeed = 1
    SimpleKP = 65
    SimpleKD = 70
    MinTurn = 1
    MaxTurn = 2
    Setbacks = 1
    MotionHalf = 8
    MotionCone = 3
    MotionLag = 2
    MotionDrifts = 3
    TargetDistance = 7
    MoveSpeed = 2
    SpinTarget <- OneTurnAndAQuarterRight
    SpinRate = 2
    TimerPeriod = 4
    MaxLate = 3
    MaxSetup = 1
    Duration = 40
    KP = 1200
    KI = 20
    KD = 600
    MinOut <- Lowest
    MaxOut = 500000
    Errors <- Turns
    Dts <- Late
    LeastError = 100
INVARIANTS HeadingHeld MotionAsAsked
PROPERTIES ErrorAnswered StopsAndCredits MotionEnds ImplementsMission
CHECK_DEADLOCK FALSE
