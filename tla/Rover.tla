------------------------------- MODULE Rover -------------------------------
(***************************************************************************)
(* The rover as its control nodes see it, reduced to a line: a position,   *)
(* a heading, and the last odometry message received.  Between two runs of *)
(* a control timer the rover executes the last command on /cmd_vel; it     *)
(* advances only when it faces along the line.  When the timer runs, the   *)
(* last odometry message is at most lag timer periods old, where lag is    *)
(* what this rover has of at most MaxLag.  Driving may turn the rover a    *)
(* little, at most Drifts times.  Headings are integers in -Half+1..Half;  *)
(* Half is pi.                                                             *)
(***************************************************************************)
EXTENDS Integers

CONSTANTS Half,      \* half a revolution
          Cone,      \* within Cone of an axis the rover moves along it
          MaxLag,    \* bound on lag
          Drifts     \* bound on the number of disturbances

RoverAssumption ==
    /\ Half \in Nat \ {0}
    /\ Cone \in Nat /\ 2 * Cone < Half    \* ahead and astern are told apart
    /\ MaxLag \in Nat /\ Drifts \in Nat

VARIABLES lag,         \* bound on the age of odometry
          x, h,        \* true position and heading
          seenX, seenH, \* those of the last odometry message
          age,         \* timer periods since that message
          due,         \* a period is over, the control timer is due
          drifts       \* disturbances still to come

plant == <<lag, x, h, seenX, seenH, age, due, drifts>>

Heading == (1 - Half)..Half
Abs(n) == IF n < 0 THEN -n ELSE n
Sign(n) == IF n < 0 THEN -1 ELSE IF n > 0 THEN 1 ELSE 0

\* The two while loops of angle_diff and normalize_angle: two headings differ
\* by less than two half turns each, so one iteration is enough.
Wrap(d) == IF d > Half THEN d - 2 * Half ELSE IF d < -Half THEN d + 2 * Half ELSE d

\* atan2 returns pi rather than -pi.
Norm(d) == IF Wrap(d) = -Half THEN Half ELSE Wrap(d)

\* atan2(0, dx)
Bearing(dx) == IF dx >= 0 THEN 0 ELSE Half

Facing(d) == IF Abs(d) <= Cone THEN 1 ELSE IF Abs(d) >= Half - Cone THEN -1 ELSE 0

Still == [lin |-> 0, ang |-> 0]

RoverInit(h0) ==
    /\ lag \in 0..MaxLag
    /\ x = 0 /\ h = h0 /\ seenX = 0 /\ seenH = h0
    /\ age = 0 /\ due = FALSE /\ drifts = Drifts

\* One timer period under command cmd.
Advance(cmd) ==
    /\ ~due
    /\ due' = TRUE /\ age' = age + 1
    /\ x' = x + cmd.lin * Facing(h)
    /\ \E d \in {-1, 0, 1} :
          /\ d # 0 => cmd.lin # 0 /\ drifts > 0
          /\ h' = Norm(h + cmd.ang + d)
          /\ drifts' = drifts - Abs(d)
    /\ UNCHANGED <<lag, seenX, seenH>>

\* A fresh odometry message reaches the node.
Report ==
    /\ seenX' = x /\ seenH' = h /\ age' = 0
    /\ UNCHANGED <<lag, x, h, due, drifts>>

\* The control timer runs.
Expire ==
    /\ due /\ age <= lag
    /\ due' = FALSE
    /\ UNCHANGED <<lag, x, h, seenX, seenH, age, drifts>>
=============================================================================
