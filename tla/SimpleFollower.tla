--------------------------- MODULE SimpleFollower ---------------------------
(***************************************************************************)
(* The node simple_waypoint_follower in closed loop with the rover: turn   *)
(* in place until aligned, then drive and steer with a PD law, with no way *)
(* back to the turn until the waypoint is reached.                         *)
(*                                                                         *)
(* One heading unit is 0.05 rad and one period 0.05 s, so an angular speed *)
(* of 1 rad/s is one unit per period, and the gains become integers:       *)
(* 1000 * (kp * e + kd * (e - p) / dt) = 65 * e + 70 * (e - p).            *)
(***************************************************************************)
EXTENDS Rover, Sequences

CONSTANTS Waypoints,
          KP, KD,              \* 1000 times the angular gains, per unit
          MinTurn, MaxTurn,    \* min_angular_vel, max_angular_vel
          LinearSpeed,         \* max_linear_vel, per period
          GoalTolerance, HeadingTolerance,
          Setbacks             \* bound on how often the clock is set back

N == Len(Waypoints)

SimpleAssumption ==
    /\ RoverAssumption
    /\ Waypoints \in Seq(Int)
    /\ {KP, KD, MinTurn, MaxTurn, LinearSpeed, GoalTolerance, HeadingTolerance}
          \subseteq Nat \ {0}
    /\ MinTurn <= MaxTurn /\ Setbacks \in Nat
    /\ MaxTurn < Half    \* else Wrap needs more than one iteration

VARIABLES up, active,
          loop,      \* parameter loop
          ready,     \* self.odom_received
          state,     \* "TURN" or "DRIVE"
          wp,        \* self.current_wp_idx
          prev,      \* self.prev_heading_error
          cmd,       \* the last Twist on /cmd_vel
          setbacks   \* setbacks of the clock still to come

vars == <<plant, loop, up, active, ready, state, wp, prev, cmd, setbacks>>

Init ==
    /\ \E h0 \in {0, Half} : RoverInit(h0)
    /\ loop \in BOOLEAN /\ up = TRUE /\ active = TRUE /\ ready = FALSE
    /\ state = "TURN" /\ wp = 0 /\ prev = 0
    /\ cmd = Still /\ setbacks = Setbacks

\* The first message sets the origin; x is already relative to it.
Odom ==
    /\ up
    /\ Report
    /\ ready' = TRUE
    /\ UNCHANGED <<loop, up, active, state, wp, prev, cmd, setbacks>>

----------------------------------------------------------------------------
(* The 20 Hz control loop                                                  *)

Ready == active /\ ready /\ N > 0
Navigating == Ready /\ (wp < N \/ loop)
Target == IF wp = N /\ loop THEN 0 ELSE wp
ToGoal == Waypoints[Target + 1] - seenX
Arrived == Abs(ToGoal) < GoalTolerance
HeadingError == Wrap(Bearing(ToGoal) - seenH)

\* Mutants of AngularSpeed: no upper limit; no floor.
AngularUnclamped ==
    Sign(HeadingError) * ((KP * Abs(HeadingError)) \div 1000 + MaxTurn)
AngularWithoutFloor ==
    Sign(HeadingError) * ((KP * Abs(HeadingError)) \div 1000)

\* The PD law, clamped to MaxTurn and raised to MinTurn; 1000 is one unit.
AngularSpeed ==
    LET pd == KP * HeadingError + KD * (HeadingError - prev)
        size == IF Abs(pd) >= 1000 * MaxTurn THEN MaxTurn
                ELSE IF Abs(pd) <= 1000 * MinTurn THEN MinTurn
                ELSE Abs(pd) \div 1000
    IN  Sign(pd) * size

Send(c) == cmd' = c

\* dt <= 0: the run ends before it commands anything, a lap may begin.
ClockBack ==
    /\ Navigating /\ setbacks > 0
    /\ setbacks' = setbacks - 1 /\ wp' = Target
    /\ UNCHANGED <<active, state, prev, cmd>>

Idle == ~Ready /\ UNCHANGED <<active, state, wp, prev, cmd>>

Finish ==
    /\ Ready /\ wp = N /\ ~loop
    /\ Send(Still) /\ active' = FALSE
    /\ UNCHANGED <<state, wp, prev>>

\* Mutant of Align: the turn command stands while DRIVE begins.
AlignWithoutStop ==
    /\ Navigating /\ state = "TURN"
    /\ Abs(HeadingError) < HeadingTolerance
    /\ state' = "DRIVE" /\ prev' = 0 /\ wp' = Target
    /\ UNCHANGED <<active, cmd>>

Align ==
    /\ Navigating /\ state = "TURN"
    /\ Abs(HeadingError) < HeadingTolerance
    /\ state' = "DRIVE" /\ prev' = 0
    /\ Send(Still) /\ wp' = Target
    /\ UNCHANGED active

Turn ==
    /\ Navigating /\ state = "TURN"
    /\ Abs(HeadingError) >= HeadingTolerance
    /\ Send([lin |-> 0, ang |-> AngularSpeed])
    /\ prev' = HeadingError /\ wp' = Target
    /\ UNCHANGED <<active, state>>

Arrive ==
    /\ Navigating /\ state = "DRIVE" /\ Arrived
    /\ wp' = Target + 1 /\ state' = "TURN" /\ prev' = 0
    /\ Send(Still)
    /\ UNCHANGED active

\* Mutant of Drive: nothing steers while driving.
DriveUnsteered ==
    /\ Navigating /\ state = "DRIVE" /\ ~Arrived
    /\ Send([lin |-> LinearSpeed, ang |-> 0])
    /\ prev' = HeadingError /\ wp' = Target
    /\ UNCHANGED <<active, state>>

\* Outside GoalTolerance the default linear gains ask for more than max_linear,
\* so the speed is max_linear.
Drive ==
    /\ Navigating /\ state = "DRIVE" /\ ~Arrived
    /\ Send([lin |-> LinearSpeed, ang |-> AngularSpeed])
    /\ prev' = HeadingError /\ wp' = Target
    /\ UNCHANGED <<active, state>>

Period ==
    /\ up
    /\ Advance(cmd)
    /\ UNCHANGED <<loop, up, active, ready, state, wp, prev, cmd, setbacks>>

ControlLoop ==
    /\ up
    /\ Expire
    /\ \/ ClockBack
       \/ /\ Idle \/ Finish \/ Align \/ Turn \/ Arrive \/ Drive
          /\ UNCHANGED setbacks
    /\ UNCHANGED <<loop, up, ready>>

\* Mutant of Interrupt: main has no finally clause.
InterruptWithoutStop ==
    up /\ up' = FALSE /\ UNCHANGED <<plant, loop, active, ready, state, wp, prev, cmd, setbacks>>

\* Ctrl-C: main's finally clause sends a last stop.
Interrupt ==
    /\ up
    /\ up' = FALSE /\ Send(Still)
    /\ UNCHANGED <<plant, loop, active, ready, state, wp, prev, setbacks>>

Next == Odom \/ Period \/ ControlLoop \/ Interrupt

\* The executor runs the timer and delivers what odometry publishes.
Fairness == WF_vars(Odom) /\ WF_vars(Period) /\ WF_vars(ControlLoop)

Spec == Init /\ [][Next]_vars
FairSpec == Spec /\ Fairness

----------------------------------------------------------------------------
TypeOK ==
    /\ x \in Int /\ h \in Heading /\ seenX \in Int /\ seenH \in Heading
    /\ lag \in 0..MaxLag /\ age \in 0..(lag + 1) /\ due \in BOOLEAN /\ drifts \in 0..Drifts
    /\ {loop, up, active, ready} \subseteq BOOLEAN
    /\ state \in {"TURN", "DRIVE"} /\ wp \in 0..N
    /\ prev \in -Half..Half /\ setbacks \in 0..Setbacks
    /\ cmd.lin \in {0, LinearSpeed} /\ cmd.ang \in -MaxTurn..MaxTurn

\* "TURN - stop and turn in place": every change between the two modes passes
\* through a stop on /cmd_vel.
StopsBetween ==
    /\ cmd # Still /\ cmd.lin = 0 => cmd'.lin = 0
    /\ cmd.lin # 0 => cmd'.lin # 0 \/ cmd' = Still
StopBetween == [][StopsBetween]_vars

\* While it drives the rover never turns its back to the waypoint, although
\* DRIVE does not look at the size of the heading error: steering holds it.
HoldsHeading ==
    LET togo == Waypoints[Target + 1] - x
    IN  active /\ cmd.lin # 0 /\ Abs(togo) >= GoalTolerance
            => Abs(Wrap(Bearing(togo) - h)) <= Cone

\* With odometry no older than MaxLag every mission completes,
\* or every lap of a closed route.
MustEnd == ready
Ended == (IF loop THEN wp = N ELSE ~active) \/ ~up
Completes == MustEnd ~> Ended

Phase ==
    IF ~active THEN "completed"
    ELSE IF ~up THEN "aborted"
    ELSE IF ready THEN "under_way" ELSE "waiting"

Abstract == INSTANCE Mission WITH
    Legs <- N, phase <- Phase, leg <- wp, moving <- cmd # Still
ImplementsMission == Abstract!MissionSpec
=============================================================================
