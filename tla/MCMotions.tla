----------------------------- MODULE MCMotions -----------------------------
(***************************************************************************)
(* Small instances, for TLC, of the programs that move the rover, other    *)
(* than waypoint_follower: two followers and three single motions, in      *)
(* closed loop with the rover, and the PID controller that                 *)
(* waypoint_follower steers with.  A behaviour is that of one of them.     *)
(* The route is out, back past the start, and twice to the same place.     *)
(***************************************************************************)
EXTENDS PIDController, Sequences

CONSTANTS Waypoints, GoalTolerance, HeadingTolerance,   \* either follower
          BangHalf, BangCone, BangLag, BangDrifts, BangSpeed, BangTurn,
          SimpleHalf, SimpleCone, SimpleLag, SimpleDrifts, SimpleSpeed,
          SimpleKP, SimpleKD, MinTurn, MaxTurn, Setbacks,
          MotionHalf, MotionCone, MotionLag, MotionDrifts,   \* move_5_feet, spin_360
          TargetDistance, MoveSpeed, SpinTarget, SpinRate,
          TimerPeriod, MaxLate, MaxSetup, Duration           \* move_forward

Route == <<6, -3, -3>>
OneTurnAndAQuarterRight == -20   \* of 16

\* Of the PID controller: errors of 1 and 3 rad either way, control periods of
\* one second and of ten.
Lowest == -MaxOut
Turns == {-300, -100, 100, 300}
Late == {0, 10, 100}

VARIABLES part, up,
          lag, x, h, seenX, seenH, age, due, drifts, cmd,   \* the rover
          active, loop, ready, state, wp,                   \* either follower
          origin, goals,                                    \* bang only
          seenError, setbacks,                              \* simple only
          started, isMoving,                                \* move_5_feet
          last, accumulated, turned,                        \* spin_360
          now, nextRun, cancelled, moving, driven           \* move_forward

rover == <<lag, x, h, seenX, seenH, age, due, drifts, cmd>>
common == <<active, loop, ready, state, wp>>
bangVars == <<origin, goals>>
simpleVars == <<seenError, setbacks>>
moveVars == <<started, isMoving>>
spinVars == <<last, accumulated, turned>>
forwardVars == <<now, nextRun, cancelled, moving, driven>>
followerVars == <<common, bangVars, simpleVars>>
motionVars == <<moveVars, spinVars, forwardVars>>
vars == <<part, up, rover, followerVars, pidvars, motionVars>>

Bang == INSTANCE BangFollower WITH
    Half <- BangHalf, Cone <- BangCone, MaxLag <- BangLag, Drifts <- BangDrifts,
    LinearSpeed <- BangSpeed, AngularSpeed <- BangTurn
Simple == INSTANCE SimpleFollower WITH
    Half <- SimpleHalf, Cone <- SimpleCone, MaxLag <- SimpleLag, Drifts <- SimpleDrifts,
    LinearSpeed <- SimpleSpeed, KP <- SimpleKP, KD <- SimpleKD, prev <- seenError
Move == INSTANCE MoveFiveFeet WITH
    Half <- MotionHalf, Cone <- MotionCone, MaxLag <- MotionLag, Drifts <- MotionDrifts,
    LinearSpeed <- MoveSpeed
Spin == INSTANCE Spin360 WITH
    Half <- MotionHalf, Cone <- MotionCone, MaxLag <- MotionLag, Drifts <- MotionDrifts,
    Target <- SpinTarget, Speed0 <- SpinRate
Forward == INSTANCE MoveForward WITH due <- nextRun, Period <- TimerPeriod

ASSUME MotionsAssumption ==
    /\ Bang!BangAssumption /\ Simple!SimpleAssumption /\ PIDAssumption
    /\ Move!MoveAssumption /\ Spin!SpinAssumption /\ Forward!MoveForwardAssumption

NoRover ==
    /\ lag = 0 /\ x = 0 /\ h = 0 /\ seenX = 0 /\ seenH = 0
    /\ age = 0 /\ due = FALSE /\ drifts = 0 /\ cmd = Bang!Still
NoCommon == active = TRUE /\ loop = FALSE /\ ready = FALSE /\ state = "TURN" /\ wp = 0
NoBang == origin = FALSE /\ goals = Waypoints
NoSimple == seenError = 0 /\ setbacks = 0
NoFollower == NoCommon /\ NoBang /\ NoSimple
NoMove == started = FALSE /\ isMoving = TRUE
NoSpin == last = Spin!None /\ accumulated = 0 /\ turned = 0
NoForward ==
    now = 0 /\ nextRun = TimerPeriod /\ cancelled = FALSE /\ moving = FALSE /\ driven = 0
NoMotion == NoMove /\ NoSpin /\ NoForward

Init ==
    /\ up = TRUE
    /\ PIDInit
    /\ \/ part = "bang" /\ Bang!Init /\ NoSimple /\ NoMotion
       \/ part = "simple" /\ Simple!Init /\ NoBang /\ NoMotion
       \/ part = "pid" /\ NoRover /\ NoFollower /\ NoMotion
       \/ part = "move" /\ Move!Init /\ NoFollower /\ NoSpin /\ NoForward
       \/ part = "spin" /\ Spin!Init /\ NoFollower /\ NoMove /\ NoForward
       \/ part = "forward" /\ Forward!Init /\ NoRover /\ NoFollower /\ NoMove /\ NoSpin

\* A step of the program that was started; up may become FALSE in it.
Step(name) == part = name /\ part' = part /\ up' \in {up, FALSE}

BangFrame == Step("bang") /\ UNCHANGED <<simpleVars, pidvars, motionVars>>
SimpleFrame == Step("simple") /\ UNCHANGED <<bangVars, pidvars, motionVars>>
PIDFrame == Step("pid") /\ up' = up /\ UNCHANGED <<rover, followerVars, motionVars>>
MoveFrame == Step("move") /\ UNCHANGED <<followerVars, pidvars, spinVars, forwardVars>>
SpinFrame == Step("spin") /\ UNCHANGED <<followerVars, pidvars, moveVars, forwardVars>>
ForwardFrame ==
    Step("forward") /\ UNCHANGED <<rover, followerVars, pidvars, moveVars, spinVars>>

Next ==
    \/ BangFrame /\ Bang!Next
    \/ SimpleFrame /\ Simple!Next
    \/ PIDFrame /\ PIDNext
    \/ MoveFrame /\ Move!Next
    \/ SpinFrame /\ Spin!Next
    \/ ForwardFrame /\ Forward!Next

\* The fairness of the program that was started: since the others never move,
\* one condition stands for the like ones of all programs.
FairOdom ==
    \/ BangFrame /\ Bang!Odom
    \/ SimpleFrame /\ Simple!Odom
    \/ MoveFrame /\ Move!Odom
    \/ SpinFrame /\ Spin!Turn
FairPeriod ==
    \/ BangFrame /\ Bang!Period
    \/ SimpleFrame /\ Simple!Period
    \/ MoveFrame /\ Move!Period
    \/ SpinFrame /\ up /\ Spin!Period
    \/ ForwardFrame /\ Forward!Tick
FairTimer ==
    \/ BangFrame /\ Bang!ControlLoop
    \/ SimpleFrame /\ Simple!ControlLoop
    \/ MoveFrame /\ Move!MoveRobot
    \/ SpinFrame /\ up /\ Spin!Clock
    \/ ForwardFrame /\ Forward!TimerCallback
FairFirst == (BangFrame /\ Bang!WheelsOrigin) \/ (SpinFrame /\ Spin!FirstYaw)

Spec ==
    /\ Init /\ [][Next]_vars
    /\ WF_vars(FairOdom) /\ WF_vars(FairPeriod) /\ WF_vars(FairTimer) /\ WF_vars(FairFirst)

----------------------------------------------------------------------------
\* Every program keeps its types; those of one not started are not looked at.
TypeOK ==
    /\ part = "bang" => Bang!TypeOK
    /\ part = "simple" => Simple!TypeOK
    /\ part = "move" => Move!TypeOK
    /\ part = "spin" => Spin!TypeOK
    /\ part = "forward" => Forward!TypeOK

\* Turning and driving are separated by stops, with odometry that is old a
\* waypoint is still credited near it, and a spin ends on its target.
StopsAndCredits ==
    [][/\ part = "bang" => Bang!StopsBetween /\ Bang!CreditsNearby
       /\ part = "simple" => Simple!StopsBetween
       /\ part = "spin" => Spin!SpinsOnTarget]_vars

\* The simple follower holds the heading while driving: its steering is all
\* there is to keep it on the way to the waypoint.
HeadingHeld == part = "simple" => Simple!HoldsHeading

\* move_5_feet stops on target, spin_360 counts what the rover turned, and
\* move_forward drives for no longer than the distance takes; and all five keep
\* their types.
MotionAsAsked ==
    /\ TypeOK
    /\ part = "move" => Move!StopsOnTarget
    /\ part = "spin" => Spin!TotalIsTrue
    /\ part = "forward" => Forward!NeverTooFar

\* Missions and laps complete, and every other program ends its motion, unless
\* it is interrupted.
MustEnd ==
    \/ part = "bang" /\ Bang!MustEnd
    \/ part = "simple" /\ Simple!MustEnd
    \/ part = "move" /\ Move!MustEnd
    \/ part = "spin" /\ Spin!MustEnd
    \/ part = "forward"
Ended ==
    \/ part = "bang" /\ Bang!Ended
    \/ part = "simple" /\ Simple!Ended
    \/ part = "move" /\ Move!Ended
    \/ part = "spin" /\ Spin!Ended
    \/ part = "forward" /\ Forward!Ended
MotionEnds == MustEnd ~> Ended

\* Both followers are missions.
Follows == part \in {"bang", "simple"}
Phase ==
    IF ~Follows THEN "waiting"
    ELSE IF ~active THEN "completed"
    ELSE IF ~up THEN "aborted"
    ELSE IF ready THEN "under_way" ELSE "waiting"
Abstract == INSTANCE Mission WITH
    Legs <- Len(Waypoints), phase <- Phase, leg <- wp, moving <- Follows /\ cmd # Bang!Still
ImplementsMission == Abstract!MissionSpec
=============================================================================
