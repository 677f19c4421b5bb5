------------------------------ MODULE Spin360 ------------------------------
(***************************************************************************)
(* The script spin_360: every odometry message adds the shortest angle     *)
(* from the previous yaw to a running total; the rover spins until the     *)
(* total reaches the target.  Messages may be up to MaxLag periods apart.  *)
(***************************************************************************)
EXTENDS Rover

CONSTANTS Target,    \* target_radians
          Speed0     \* --angular-speed, per period

SpinAssumption ==
    /\ RoverAssumption
    /\ Target \in Int /\ Speed0 \in Nat \ {0}
    /\ (MaxLag + 1) * Speed0 < Half    \* less than half a turn between messages

VARIABLES up,
          last,         \* self.last_yaw, or None
          accumulated,
          cmd,          \* the last Twist on /cmd_vel
          turned        \* history: how far the rover has really turned

vars == <<plant, up, last, accumulated, cmd, turned>>

None == Half + 1
\* Mutants of Speed: the whole angle in one period; only to the left.
SpeedLeftOnly == IF Target >= 0 THEN Speed0 ELSE 0
SpeedOfTarget == Target
Speed == IF Target >= 0 THEN Speed0 ELSE -Abs(Speed0)

Init ==
    /\ RoverInit(0)
    /\ up = TRUE /\ last = None /\ accumulated = 0 /\ cmd = Still
    /\ turned = 0

Period ==
    /\ Advance(cmd)
    /\ turned' = turned + cmd.ang
    /\ UNCHANGED <<up, last, accumulated, cmd>>

Clock == Expire /\ UNCHANGED <<up, last, accumulated, cmd, turned>>

FirstYaw ==
    /\ up /\ last = None
    /\ Report
    /\ last' = h
    /\ UNCHANGED <<up, accumulated, cmd, turned>>

\* Mutant of Delta: the yaw is not unwrapped.
DeltaUnwrapped == h - last
\* normalize_angle(yaw - last_yaw)
Delta == Wrap(h - last)

\* Mutant of Done: a turn to the right has a negative total.
DoneLeftOnly(total) == total >= Target \/ Abs(total) > 2 * Half
Done(total) == Abs(total) >= Abs(Target)

\* The script shuts down as soon as the total reaches the target.
Turn ==
    /\ up /\ last # None
    /\ Report
    /\ last' = h
    /\ accumulated' = accumulated + Delta
    /\ IF Done(accumulated')
       THEN up' = FALSE /\ cmd' = Still
       ELSE up' = up /\ cmd' = [lin |-> 0, ang |-> Speed]
    /\ UNCHANGED turned

\* Ctrl-C: main has no handler, nothing is published.
Interrupt ==
    /\ up
    /\ up' = FALSE
    /\ UNCHANGED <<plant, last, accumulated, cmd, turned>>

\* After Interrupt the rover keeps its last command; the model ends there.
Next == FirstYaw \/ Turn \/ Interrupt \/ (up /\ (Period \/ Clock))

Fairness ==
    /\ WF_vars(FirstYaw) /\ WF_vars(Turn)
    /\ WF_vars(up /\ Period) /\ WF_vars(up /\ Clock)

Spec == Init /\ [][Next]_vars /\ Fairness

----------------------------------------------------------------------------
TypeOK ==
    /\ h \in Heading /\ seenH \in Heading
    /\ lag \in 0..MaxLag /\ age \in 0..(lag + 1) /\ due \in BOOLEAN
    /\ up \in BOOLEAN /\ last \in Heading \cup {None}
    /\ accumulated \in Int /\ turned \in Int
    /\ cmd.lin = 0 /\ cmd.ang \in {0, Speed0, -Speed0}

\* The running total never lies about the real rotation by more than what the
\* rover turned since the last message: no revolution is lost or invented at
\* the wrap of the yaw, in either direction.
TotalIsTrue == last # None => Abs(turned - accumulated) <= age * Speed0

\* The script ends by itself only after the whole rotation, and overshoots
\* less than the rover turns between two messages.
SpinsOnTarget ==
    Turn /\ ~up' => /\ Abs(turned) >= Abs(Target)
                    /\ Abs(turned) < Abs(Target) + (lag + 1) * Speed0

\* The spin ends, unless it is interrupted before.
MustEnd == last # None
Ended == ~up
Ends == MustEnd ~> Ended
=============================================================================
