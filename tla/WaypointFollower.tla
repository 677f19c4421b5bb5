-------------------------- MODULE WaypointFollower --------------------------
(***************************************************************************)
(* The node waypoint_follower: an odometry callback and a 20 Hz control    *)
(* timer on one executor thread.  The control timer turns in place, brakes *)
(* and drives towards each waypoint in turn, and gives up when odometry    *)
(* shows no progress for stuck_timeout.                                    *)
(*                                                                         *)
(* Geometry is abstracted to what the control flow tells apart: a finite   *)
(* set of poses (place and smoothed yaw), for each pose and waypoint a     *)
(* class of distance and of heading error, and the pairs of poses at least *)
(* stuck_distance_threshold apart.  Time is counted in ticks; a late       *)
(* executor makes one control period last several of them.                 *)
(***************************************************************************)
EXTENDS Integers, FiniteSets

CONSTANTS Pose, StartPose,
          N,              \* len(self.waypoints)
          Distance,       \* Distance[p][w]: "reached", "near" or "far"
          RawError,       \* RawError[p][w]: class of |raw_heading_error|
          Apart,          \* pairs of poses >= stuck_distance_threshold apart
          BRAKE_CYCLES,
          StuckTimeout,   \* stuck_timeout, in ticks
          Delays,         \* how many ticks a control period may last
          StillBound      \* where the history variable still saturates

\* Classes of |heading_error|: below heading_exit_threshold, between the two
\* thresholds, above heading_threshold.
ErrorClass == 0..2
Aligned == 0
Misaligned == 2

\* self.smooth_heading_error = None
None == -1

ASSUME FollowerAssumption ==
    /\ StartPose \in Pose
    /\ N \in Nat
    /\ Distance \in [Pose -> [0..(N-1) -> {"reached", "near", "far"}]]
    /\ RawError \in [Pose -> [0..(N-1) -> ErrorClass]]
    /\ Apart \subseteq Pose \X Pose
    /\ \A p \in Pose : <<p, p>> \notin Apart
    /\ BRAKE_CYCLES \in Nat \ {0}
    /\ StuckTimeout \in Nat \ {0}
    /\ Delays \subseteq Nat \ {0}
    /\ StillBound \in Nat

VARIABLES
    up,          \* the process runs
    loop,        \* parameter loop
    active,      \* self.active
    odom,        \* self.odom_received
    pose,        \* current_x, current_y, current_yaw
    idx,         \* self.current_wp_idx
    turning, braking, brakeLeft,
    smooth,      \* class of self.smooth_heading_error
    anchor,      \* last_progress_x, last_progress_y
    elapsed,     \* now - last_progress_time, saturating
    headingAcc,  \* what heading_pid has accumulated since its reset
    distAcc,     \* what distance_pid has accumulated since its reset
    cmd,         \* class of the last message on /cmd_vel
    sinceDrive,  \* history: stop commands since the last drive command
    still        \* history: ticks since odometry last changed the pose

pids == <<headingAcc, distAcc>>
history == <<sinceDrive, still>>
vars == <<up, loop, active, odom, pose, idx, turning, braking, brakeLeft,
          smooth, anchor, elapsed, headingAcc, distAcc, cmd, sinceDrive, still>>

Least(a, b) == IF a <= b THEN a ELSE b
Most(a, b) == IF a >= b THEN a ELSE b

Motion == {"turn", "drive"}
Command == {"none", "stop"} \cup Motion
Error == [wp : 0..(N-1), mode : Motion]

----------------------------------------------------------------------------
Init ==
    /\ up = TRUE /\ loop \in BOOLEAN /\ active = TRUE /\ odom = FALSE
    /\ pose = StartPose /\ idx = 0
    /\ turning = FALSE /\ braking = FALSE /\ brakeLeft = 0
    /\ smooth = None
    /\ anchor = StartPose /\ elapsed = 0
    /\ headingAcc = {} /\ distAcc = {}
    /\ cmd = "none" /\ sinceDrive = 0 /\ still = 0

\* The first message fixes the origin, so the rover is at its start pose.
FirstOdom ==
    /\ up /\ ~odom
    /\ odom' = TRUE /\ still' = 0
    /\ UNCHANGED <<up, loop, active, pose, idx, turning, braking, brakeLeft,
                   smooth, anchor, elapsed, pids, cmd, sinceDrive>>

Odom(p) ==
    /\ up /\ odom /\ p # pose
    /\ pose' = p /\ still' = 0
    /\ UNCHANGED <<up, loop, active, odom, idx, turning, braking, brakeLeft,
                   smooth, anchor, elapsed, pids, cmd, sinceDrive>>

----------------------------------------------------------------------------
(* One run of the control timer, d ticks after the previous one.           *)

Clock(d) == Least(elapsed + d, StuckTimeout + 1)
Age(d) == still' = Least(still + d, StillBound)

Ready == active /\ N > 0 /\ odom

\* Looping back to the first waypoint falls through to the rest of the run.
\* Mutant of Wrapping: the last waypoint of a lap is skipped.
WrappingEarly == loop /\ idx >= N - 1
Wrapping == loop /\ idx = N
Target == IF Wrapping THEN 0 ELSE idx
WasTurning == turning /\ ~Wrapping
Fresh(acc) == IF Wrapping THEN {} ELSE acc
Anchor == IF Wrapping THEN pose ELSE anchor
SinceProgress(d) == IF Wrapping THEN 0 ELSE Clock(d)

Near == Distance[pose][Target] = "reached"
\* Mutant of Moved: the comparison with the threshold is the wrong way round.
MovedLittle == <<Anchor, pose>> \notin Apart
Moved == <<Anchor, pose>> \in Apart
\* Mutant of Stuck: the time since the last run, not since the last progress.
StuckSinceRun(d) == ~Moved /\ d > StuckTimeout
Stuck(d) == ~Moved /\ SinceProgress(d) > StuckTimeout

\* The moving average lies between its old value and the raw error.
Smoothed ==
    LET raw == RawError[pose][Target]
    IN  IF smooth = None THEN {raw} ELSE {s \in ErrorClass : s <= Most(smooth, raw)}

\* A large raw error is used as it is, a small one smoothed.
HeadingError(s) ==
    IF RawError[pose][Target] = Misaligned THEN Misaligned ELSE s

Turning(e) == e = Misaligned \/ (e # Aligned /\ WasTurning)

\* _stop_robot, and the zero command of a brake cycle.
Hold == cmd' = "stop" /\ sinceDrive' = Least(sinceDrive + 1, BRAKE_CYCLES)

Idle(d) ==
    /\ ~Ready
    /\ elapsed' = Clock(d)
    /\ UNCHANGED <<active, idx, turning, braking, brakeLeft, smooth, anchor,
                   pids, cmd, sinceDrive>>

Finish(d) ==
    /\ Ready /\ idx = N /\ ~loop
    /\ active' = FALSE /\ Hold
    /\ elapsed' = Clock(d)
    /\ UNCHANGED <<idx, turning, braking, brakeLeft, smooth, anchor, pids>>

\* Mutant of ResetPids: only the heading controller is reset.
ResetHeadingOnly == headingAcc' = {} /\ UNCHANGED distAcc
ResetPids == headingAcc' = {} /\ distAcc' = {}

\* A waypoint is reached: brake next, publish nothing now.
Reach ==
    /\ Ready /\ (idx < N \/ loop) /\ Near
    /\ idx' = Target + 1
    /\ ResetPids /\ smooth' = None
    /\ turning' = TRUE /\ braking' = TRUE /\ brakeLeft' = BRAKE_CYCLES
    /\ anchor' = pose /\ elapsed' = 0
    /\ UNCHANGED <<active, cmd, sinceDrive>>

GiveUp(d) ==
    /\ Ready /\ idx < N /\ ~Near /\ Stuck(d)
    /\ active' = FALSE /\ Hold
    /\ smooth' \in Smoothed
    /\ elapsed' = Clock(d)
    /\ UNCHANGED <<idx, turning, braking, brakeLeft, anchor, pids>>

\* What all commands of the control law share, for heading error e.
Control(d, e) ==
    /\ Ready /\ (idx < N \/ loop) /\ ~Near /\ ~Stuck(d)
    /\ idx' = Target
    /\ e \in {HeadingError(s) : s \in Smoothed}
    /\ smooth' \in {s \in Smoothed : HeadingError(s) = e}
    /\ anchor' = IF Moved THEN pose ELSE Anchor
    /\ elapsed' = IF Moved THEN 0 ELSE SinceProgress(d)
    /\ turning' = Turning(e)
    /\ UNCHANGED active

\* Mutant of Entering: a turn that hysteresis starts is not prepared for.
EnteringNever(e) == FALSE
\* Turning is entered: braking starts over and the heading PID is reset.
Entering(e) == Turning(e) /\ ~WasTurning

\* Mutant of StillBraking: one brake cycle too many.
StillBrakingLate(left) == left >= 0
StillBraking(left) == left > 0

Brake(d, e) ==
    /\ Control(d, e)
    /\ Entering(e) \/ braking
    /\ LET left == (IF Entering(e) THEN BRAKE_CYCLES ELSE brakeLeft) - 1
       IN  brakeLeft' = left /\ braking' = StillBraking(left)
    /\ headingAcc' = IF Entering(e) THEN {} ELSE Fresh(headingAcc)
    /\ distAcc' = Fresh(distAcc)
    /\ Hold

Turn(d, e) ==
    /\ Control(d, e)
    /\ ~Entering(e) /\ ~braking /\ Turning(e)
    /\ headingAcc' = Fresh(headingAcc) \cup {[wp |-> Target, mode |-> "turn"]}
    /\ distAcc' = Fresh(distAcc)
    /\ cmd' = "turn"
    /\ UNCHANGED <<braking, brakeLeft, sinceDrive>>

\* Heading is corrected only beyond 1.5 times the goal tolerance.
Drive(d, e) ==
    /\ Control(d, e)
    /\ ~braking /\ ~Turning(e)
    /\ LET tag == {[wp |-> Target, mode |-> "drive"]}
       IN  /\ distAcc' = Fresh(distAcc) \cup tag
           /\ headingAcc' = Fresh(headingAcc)
                  \cup (IF Distance[pose][Target] = "far" THEN tag ELSE {})
    /\ cmd' = "drive" /\ sinceDrive' = 0
    /\ UNCHANGED <<braking, brakeLeft>>

ControlLoop(d) ==
    /\ up /\ Age(d)
    /\ \/ Idle(d) \/ Finish(d) \/ Reach \/ GiveUp(d)
       \/ \E e \in ErrorClass : Brake(d, e) \/ Turn(d, e) \/ Drive(d, e)
    /\ UNCHANGED <<up, loop, odom, pose>>

\* Ctrl-C: main's finally clause sends a last stop.
Interrupt ==
    /\ up
    /\ up' = FALSE /\ Hold
    /\ UNCHANGED <<loop, active, odom, pose, idx, turning, braking, brakeLeft,
                   smooth, anchor, elapsed, pids, still>>

Next ==
    \/ FirstOdom
    \/ \E p \in Pose : Odom(p)
    \/ \E d \in Delays : ControlLoop(d)
    \/ Interrupt

\* rclpy keeps firing a repeating timer for as long as the process spins.
Fairness == WF_vars(\E d \in Delays : ControlLoop(d))

Spec == Init /\ [][Next]_vars
FairSpec == Spec /\ Fairness

----------------------------------------------------------------------------
(* Properties                                                              *)

TypeOK ==
    /\ up \in BOOLEAN /\ loop \in BOOLEAN
    /\ active \in BOOLEAN /\ odom \in BOOLEAN
    /\ pose \in Pose /\ anchor \in Pose
    /\ idx \in 0..N
    /\ turning \in BOOLEAN /\ braking \in BOOLEAN
    /\ brakeLeft \in 0..BRAKE_CYCLES
    /\ smooth \in ErrorClass \cup {None}
    /\ elapsed \in 0..(StuckTimeout + 1)
    /\ headingAcc \subseteq Error /\ distAcc \subseteq Error
    /\ cmd \in Command
    /\ sinceDrive \in 0..BRAKE_CYCLES
    /\ still \in 0..StillBound

\* "The motor driver does not stop on lin.x=0 alone": between any drive
\* command and the next turn in place there are BRAKE_CYCLES explicit zeros,
\* whichever way the node got from the one to the other (hysteresis, a
\* reached waypoint, a new lap, a flickering heading error while braking).
BrakedBeforeTurn == cmd = "turn" => sinceDrive = BRAKE_CYCLES

\* The strengthening of BrakedBeforeTurn that every step preserves.
BrakeInv ==
    /\ BrakedBeforeTurn
    /\ braking => brakeLeft > 0 /\ sinceDrive + brakeLeft >= BRAKE_CYCLES
    /\ turning /\ ~braking => sinceDrive = BRAKE_CYCLES

\* Both, which no step breaks: neither is inductive without the other.
BrakesSafely == TypeOK /\ BrakeInv

\* A PID controller holds nothing of an earlier waypoint, and a turn in place
\* is steered by a heading integral that holds nothing of a drive.
PidFresh ==
    /\ \A e \in headingAcc \cup distAcc : e.wp = idx
    /\ turning => \A e \in headingAcc : e.mode = "turn"

\* With odometry frozen, a motion command is withdrawn in bounded time: each
\* waypoint may be credited once at the frozen pose, progress counted once,
\* and then the stuck detector fires one period after its timeout.
FrozenLimit(most) == StuckTimeout + (N + 3) * most
Withdrawn ==
    \A most \in Delays :
        (\A d \in Delays : d <= most) /\ still > FrozenLimit(most)
            => cmd \notin Motion
FrozenMeansStopped == ~loop => Withdrawn

\* The how-to, of any route: "If the rover moves less than
\* stuck_distance_threshold for more than stuck_timeout, the node [...]
\* publishes zero velocity, and shuts down navigation."
StuckMeansStopped == Withdrawn

\* A mission under way ends, or odometry keeps moving the rover.  (On a closed
\* route laps at a frozen pose may go on.)
EndsOrMoves == (odom /\ N > 0 /\ ~loop) ~> (~active \/ ~up \/ still = 0)

\* The node keeps the promise of Mission.
Phase ==
    IF ~up /\ active THEN "aborted"
    ELSE IF ~active THEN (IF idx = N THEN "completed" ELSE "aborted")
    ELSE IF odom THEN "under_way" ELSE "waiting"

Abstract == INSTANCE Mission WITH
    Legs <- N, phase <- Phase, leg <- idx, moving <- cmd \in Motion
ImplementsMission == Abstract!MissionSpec
=============================================================================
