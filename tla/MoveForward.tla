---------------------------- MODULE MoveForward ----------------------------
(***************************************************************************)
(* The node move_forward: drives open loop for the time that its distance  *)
(* takes at its speed, then stops and cancels its 10 Hz timer.             *)
(*                                                                         *)
(* Time is counted in ticks of Period per timer period; a run of the timer *)
(* may be up to MaxLate ticks late, the next is due on the original grid.  *)
(***************************************************************************)
EXTENDS Naturals

CONSTANTS Period, MaxLate,
          MaxSetup,  \* at most so long after the timer start_time is read
          Duration   \* self.duration, in ticks

MoveForwardAssumption ==
    /\ Period \in Nat \ {0}
    /\ MaxLate \in 0..(Period - 1) /\ MaxSetup \in 0..(Period - 1)
    /\ Duration \in Nat \ {0}

VARIABLES up,
          now,        \* ticks since start_time
          due,        \* when the timer is due next
          cancelled,  \* self.timer.cancel()
          moving,     \* class of the last message on /cmd_vel
          driven      \* history: ticks during which the rover has driven

vars == <<up, now, due, cancelled, moving, driven>>

Init ==
    /\ up = TRUE /\ now = 0 /\ cancelled = FALSE
    /\ due \in (Period - MaxSetup)..Period
    /\ moving = FALSE /\ driven = 0

TypeOK ==
    /\ up \in BOOLEAN /\ cancelled \in BOOLEAN /\ moving \in BOOLEAN
    /\ now \in 0..(due + MaxLate) /\ driven \in 0..now
    /\ due \in 1..(Duration + 2 * Period - 1)

\* Time passes, but not beyond the lateness of a timer that is due.
Tick ==
    /\ up /\ ~cancelled
    /\ now < due + MaxLate
    /\ now' = now + 1
    /\ driven' = driven + (IF moving THEN 1 ELSE 0)
    /\ UNCHANGED <<up, due, cancelled, moving>>

\* Mutant of Expired: the comparison counts one period more.
ExpiredLate == now > Duration + Period
Expired == now >= Duration

TimerCallback ==
    /\ up /\ ~cancelled /\ now >= due
    /\ due' = due + Period
    /\ moving' = ~Expired /\ cancelled' = Expired
    /\ UNCHANGED <<up, now, driven>>

\* Ctrl-C: main does not catch it and publishes nothing.
Interrupt == up /\ up' = FALSE /\ UNCHANGED <<now, due, cancelled, moving, driven>>

Next == Tick \/ TimerCallback \/ Interrupt

Fairness == WF_vars(Tick) /\ WF_vars(TimerCallback)

Spec == Init /\ [][Next]_vars /\ Fairness

----------------------------------------------------------------------------
\* The rover drives for no longer than the distance takes, but for the delay
\* of the run that stops it: the period before the first run is never driven,
\* and pays for the period that passes before the stop.
NeverTooFar == driven <= Duration + MaxLate + MaxSetup

\* The rover stops: in the end the timer is cancelled and the last command,
\* after which there is no other, was a stop, or Ctrl-C came first.
Ended == (cancelled /\ ~moving) \/ ~up
Stops == <>Ended
=============================================================================
