------------------------------ MODULE Mission ------------------------------
(***************************************************************************)
(* What every waypoint node of the rover promises, whatever its control    *)
(* law: legs are driven in order and only while a mission is under way,    *)
(* the mission completes only after the last leg, and once it is over the  *)
(* last command sent to the wheels is a stop and stays one.                *)
(***************************************************************************)
EXTENDS Naturals

CONSTANT Legs   \* number of waypoints in the file

VARIABLES loop,    \* start again from the first waypoint
          phase,   \* "waiting", "under_way", "completed" or "aborted"
          leg,     \* how many waypoints have been reached on this lap
          moving   \* the last command on /cmd_vel was a motion command

mvars == <<loop, phase, leg, moving>>

MissionInit ==
    loop \in BOOLEAN /\ phase = "waiting" /\ leg = 0 /\ moving = FALSE

Begin == phase = "waiting" /\ phase' = "under_way" /\ UNCHANGED <<loop, leg, moving>>

\* Any command, towards the waypoint of the current leg.
Order ==
    /\ phase = "under_way" /\ leg < Legs
    /\ moving' \in BOOLEAN
    /\ UNCHANGED <<loop, phase, leg>>

\* A waypoint reached: the node either stops or lets the last command stand.
Reach ==
    /\ phase = "under_way" /\ leg < Legs
    /\ leg' = leg + 1
    /\ moving' \in {moving, FALSE}
    /\ UNCHANGED <<loop, phase>>

\* A new lap; its first order, or its first waypoint, may be in the same step.
Restart ==
    /\ loop /\ phase = "under_way" /\ leg = Legs /\ Legs > 0
    /\ \/ leg' = 0 /\ moving' \in BOOLEAN
       \/ leg' = 1 /\ moving' \in {moving, FALSE}
    /\ UNCHANGED <<loop, phase>>

Complete ==
    /\ ~loop /\ phase = "under_way" /\ leg = Legs
    /\ phase' = "completed" /\ moving' = FALSE
    /\ UNCHANGED <<loop, leg>>

Abort ==
    /\ phase \in {"waiting", "under_way"}
    /\ phase' = "aborted" /\ moving' = FALSE
    /\ UNCHANGED <<loop, leg>>

MissionNext == Begin \/ Order \/ Reach \/ Restart \/ Complete \/ Abort

MissionSpec == MissionInit /\ [][MissionNext]_mvars
=============================================================================
