---------------------------- MODULE BangFollower ----------------------------
(***************************************************************************)
(* The node bang_waypoint_follower in closed loop with the rover: full     *)
(* speed turns and full speed drives, nothing between.                     *)
(***************************************************************************)
EXTENDS Rover, Sequences

CONSTANTS Waypoints,   \* the x of each waypoint, in the rover's body frame
          LinearSpeed, AngularSpeed,       \* per timer period
          GoalTolerance, HeadingTolerance

N == Len(Waypoints)

BangAssumption ==
    /\ RoverAssumption
    /\ Waypoints \in Seq(Int)
    /\ {LinearSpeed, AngularSpeed, GoalTolerance, HeadingTolerance} \subseteq Nat \ {0}
    /\ AngularSpeed < Half    \* else Wrap needs more than one iteration

VARIABLES up, active,
          loop,      \* parameter loop
          origin,    \* self.wheels_origin is set
          ready,     \* self.odom_ready
          goals,     \* self.waypoints
          state,     \* "TURN" or "DRIVE"
          wp,        \* self.wp_idx
          cmd        \* the last Twist on /cmd_vel

vars == <<plant, loop, up, active, origin, ready, goals, state, wp, cmd>>

Init ==
    /\ \E h0 \in {0, Half} : RoverInit(h0)
    /\ loop \in BOOLEAN /\ up = TRUE /\ active = TRUE /\ origin = FALSE /\ ready = FALSE
    /\ goals = Waypoints /\ state = "TURN" /\ wp = 0
    /\ cmd = Still

\* The first wheel message pins the origin and turns the waypoints from the
\* body frame into the odometry frame; on a line, a factor cos(yaw).
WheelsOrigin ==
    /\ up /\ ~origin
    /\ origin' = TRUE
    /\ goals' = [i \in 1..N |-> goals[i] * Facing(h)]
    /\ UNCHANGED <<plant, loop, up, active, ready, state, wp, cmd>>

\* Navigation odometry is dropped until the origin is known.
Odom ==
    /\ up /\ origin
    /\ Report
    /\ ready' = TRUE
    /\ UNCHANGED <<loop, up, active, origin, goals, state, wp, cmd>>

----------------------------------------------------------------------------
(* The 20 Hz control loop                                                  *)

Ready == active /\ ready /\ N > 0
Target == IF wp = N /\ loop THEN 0 ELSE wp
ToGoal == goals[Target + 1] - seenX
\* Mutant of Arrived: the sign of the offset is forgotten.
ArrivedBeyond == ToGoal < GoalTolerance
Arrived == Abs(ToGoal) < GoalTolerance
HeadingError == Wrap(Bearing(ToGoal) - seenH)

Navigating == Ready /\ (wp < N \/ loop)
Send(c) == cmd' = c

Idle == ~Ready /\ UNCHANGED <<active, state, wp, cmd>>

Finish ==
    /\ Ready /\ wp = N /\ ~loop
    /\ Send(Still) /\ active' = FALSE
    /\ UNCHANGED <<state, wp>>

\* In either state; in TURN because atan2 is undefined on the waypoint.
Arrive ==
    /\ Navigating /\ Arrived
    /\ Send(Still) /\ wp' = Target + 1 /\ state' = "TURN"
    /\ UNCHANGED active

Aligned ==
    /\ Navigating /\ ~Arrived /\ state = "TURN"
    /\ Abs(HeadingError) < HeadingTolerance
    /\ Send(Still) /\ state' = "DRIVE" /\ wp' = Target
    /\ UNCHANGED active

\* Mutants of SpinSpeed: a proportional law; the wrong way round.
SpinProportional == AngularSpeed * HeadingError
SpinAway == IF HeadingError > 0 THEN -AngularSpeed ELSE AngularSpeed
SpinSpeed == IF HeadingError > 0 THEN AngularSpeed ELSE -AngularSpeed

Spin ==
    /\ Navigating /\ ~Arrived /\ state = "TURN"
    /\ Abs(HeadingError) >= HeadingTolerance
    /\ Send([lin |-> 0, ang |-> SpinSpeed])
    /\ wp' = Target
    /\ UNCHANGED <<active, state>>

\* Mutant of Drifted: the drive command stands while TURN begins.
DriftedWithoutStop ==
    /\ Navigating /\ ~Arrived /\ state = "DRIVE"
    /\ Abs(HeadingError) > HeadingTolerance
    /\ state' = "TURN" /\ wp' = Target
    /\ UNCHANGED <<active, cmd>>

Drifted ==
    /\ Navigating /\ ~Arrived /\ state = "DRIVE"
    /\ Abs(HeadingError) > HeadingTolerance
    /\ Send(Still) /\ state' = "TURN" /\ wp' = Target
    /\ UNCHANGED active

Drive ==
    /\ Navigating /\ ~Arrived /\ state = "DRIVE"
    /\ Abs(HeadingError) <= HeadingTolerance
    /\ Send([lin |-> LinearSpeed, ang |-> 0]) /\ wp' = Target
    /\ UNCHANGED <<active, state>>

Period ==
    /\ up
    /\ Advance(cmd)
    /\ UNCHANGED <<loop, up, active, origin, ready, goals, state, wp, cmd>>

ControlLoop ==
    /\ up
    /\ Expire
    /\ Idle \/ Finish \/ Arrive \/ Aligned \/ Spin \/ Drifted \/ Drive
    /\ UNCHANGED <<loop, up, origin, ready, goals>>

\* Mutant of Interrupt: main has no finally clause.
InterruptWithoutStop ==
    up /\ up' = FALSE /\ UNCHANGED <<plant, loop, active, origin, ready, goals, state, wp, cmd>>

\* Ctrl-C: main's finally clause sends a last stop.
Interrupt ==
    /\ up
    /\ up' = FALSE /\ Send(Still)
    /\ UNCHANGED <<plant, loop, active, origin, ready, goals, state, wp>>

Next == WheelsOrigin \/ Odom \/ Period \/ ControlLoop \/ Interrupt

\* The executor runs the timer and delivers what odometry publishes.
Fairness ==
    /\ WF_vars(WheelsOrigin) /\ WF_vars(Odom)
    /\ WF_vars(Period) /\ WF_vars(ControlLoop)

Spec == Init /\ [][Next]_vars
FairSpec == Spec /\ Fairness

----------------------------------------------------------------------------
TypeOK ==
    /\ x \in Int /\ h \in Heading /\ seenX \in Int /\ seenH \in Heading
    /\ lag \in 0..MaxLag /\ age \in 0..(lag + 1) /\ due \in BOOLEAN /\ drifts \in 0..Drifts
    /\ {loop, up, active, origin, ready} \subseteq BOOLEAN
    /\ goals \in Seq(Int) /\ Len(goals) = N
    /\ state \in {"TURN", "DRIVE"} /\ wp \in 0..N
    /\ cmd.lin \in {0, LinearSpeed}
    /\ cmd.ang \in {0, AngularSpeed, -AngularSpeed}

\* A spin and a drive are never adjacent on /cmd_vel: whichever way the node
\* leaves one for the other, a stop is sent between them.
StopsBetween ==
    /\ cmd.ang # 0 => cmd'.lin = 0
    /\ cmd.lin # 0 => cmd'.ang = 0
StopBetween == [][StopsBetween]_vars

\* A waypoint is credited on stale odometry only by as much as the rover can
\* travel while odometry lags.
CreditsNearby ==
    wp' = Target + 1 =>
        Abs(goals[Target + 1] - x) < GoalTolerance + lag * LinearSpeed
CreditedNearby == [][CreditsNearby]_vars

\* With odometry fresh at every run the bang-bang law does not oscillate for
\* ever about a heading or a waypoint: every mission completes,
\* or every lap of a closed route.
MustEnd == ready /\ lag = 0
Ended == (IF loop THEN wp = N ELSE ~active) \/ ~up
Completes == MustEnd ~> Ended

Phase ==
    IF ~active THEN "completed"
    ELSE IF ~up THEN "aborted"
    ELSE IF ready THEN "under_way" ELSE "waiting"

Abstract == INSTANCE Mission WITH
    Legs <- N, phase <- Phase, leg <- wp, moving <- cmd # Still
ImplementsMission == Abstract!MissionSpec
=============================================================================
