---------------------------- MODULE MoveFiveFeet ----------------------------
(***************************************************************************)
(* The node move_5_feet: a 10 Hz timer drives straight until odometry says *)
(* that the rover is target_distance away from where it started.           *)
(***************************************************************************)
EXTENDS Rover

CONSTANTS TargetDistance, LinearSpeed   \* LinearSpeed per timer period

MoveAssumption ==
    /\ RoverAssumption
    /\ {TargetDistance, LinearSpeed} \subseteq Nat \ {0}
    /\ Drifts <= Cone    \* nothing steers: the rover is assumed to keep its line

VARIABLES up,
          started,   \* self.start_x is set
          isMoving,  \* self.is_moving
          cmd        \* the last Twist on /cmd_vel

vars == <<plant, up, started, isMoving, cmd>>

Init ==
    /\ \E h0 \in {0, Half} : RoverInit(h0)
    /\ up = TRUE /\ started = FALSE /\ isMoving = TRUE /\ cmd = Still

\* The rover has not moved before the first message, so start_x is 0.
Odom ==
    /\ up
    /\ Report
    /\ started' = TRUE
    /\ UNCHANGED <<up, isMoving, cmd>>

DistanceMoved == Abs(seenX)

\* Mutant of Reached: it stops one period short of the distance.
ReachedSoon == DistanceMoved + LinearSpeed >= TargetDistance
Reached == DistanceMoved >= TargetDistance

Forward == [lin |-> LinearSpeed, ang |-> 0]

Period == up /\ Advance(cmd) /\ UNCHANGED <<up, started, isMoving, cmd>>

MoveRobot ==
    /\ up
    /\ Expire
    /\ \/ /\ ~started \/ ~isMoving
          /\ UNCHANGED <<isMoving, cmd>>
       \/ /\ started /\ isMoving /\ ~Reached
          /\ cmd' = Forward
          /\ UNCHANGED isMoving
       \/ /\ started /\ isMoving /\ Reached
          /\ cmd' = Still /\ isMoving' = FALSE
    /\ UNCHANGED <<up, started>>

\* Ctrl-C: main destroys the node and publishes nothing.
Interrupt == up /\ up' = FALSE /\ UNCHANGED <<plant, started, isMoving, cmd>>

Next == Odom \/ Period \/ MoveRobot \/ Interrupt

Fairness == WF_vars(Odom) /\ WF_vars(Period) /\ WF_vars(MoveRobot)

Spec == Init /\ [][Next]_vars /\ Fairness

----------------------------------------------------------------------------
TypeOK ==
    /\ x \in Int /\ h \in Heading /\ seenX \in Int /\ seenH \in Heading
    /\ lag \in 0..MaxLag /\ age \in 0..(lag + 1) /\ due \in BOOLEAN /\ drifts \in 0..Drifts
    /\ {up, started, isMoving} \subseteq BOOLEAN
    /\ cmd.lin \in {0, LinearSpeed} /\ cmd.ang = 0

\* When the node stops, the rover has truly gone the distance, and overshot
\* it by less than what it travels while odometry lags and the timer waits.
StopsOnTarget ==
    ~isMoving => /\ Abs(x) >= TargetDistance
                 /\ Abs(x) < TargetDistance + (lag + 1) * LinearSpeed

\* The distance is reached and the node stops, unless it is interrupted.
MustEnd == started
Ended == ~isMoving \/ ~up
Arrives == MustEnd ~> Ended
=============================================================================
