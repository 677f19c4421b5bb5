-------------------------- MODULE WaypointExtractor --------------------------
(***************************************************************************)
(* extract_waypoints: a recording of odometry, of GPS fixes or of both     *)
(* becomes a list of waypoints.  Positions are smoothed by the mean of the *)
(* last SmoothWindow of them, and a waypoint is emitted when that mean is  *)
(* DistanceThreshold away from the last.                                   *)
(*                                                                         *)
(* The rover moves on a line, which leaves out the yaw.  Odometry counts   *)
(* from where the EKF started, OdomZero away from where the recording did. *)
(* Means, and the waypoints, are in units of 1 / SmoothWindow.             *)
(***************************************************************************)
EXTENDS Integers, Sequences, SequencesExt

CONSTANTS SmoothWindow, DistanceThreshold,
          OdomZero,
          MaxStep,                    \* what the rover moves between two that are read
          MaxPlace, MaxMessages,      \* bounds
          None

ExtractorAssumption ==
    /\ SmoothWindow \in Nat \ {0} /\ DistanceThreshold \in Nat \ {0}
    /\ OdomZero \in Int /\ MaxStep \in Nat /\ MaxPlace \in Nat /\ MaxMessages \in Nat
    /\ None \notin Int

VARIABLES used,                       \* the sources: use_ins, use_gps
          at, route,                  \* where the rover is, and was at the messages
          gps_origin, ins_origin,
          position_buffer, last,      \* last_x
          waypoints

origins == <<gps_origin, ins_origin>>
output == <<position_buffer, last, waypoints>>
vars == <<used, at, route, origins, output>>

Init ==
    /\ used \in (SUBSET {"ins", "gps"}) \ {{}}
    /\ at = 0 /\ route = <<>>
    /\ gps_origin = None /\ ins_origin = None
    /\ position_buffer = <<>> /\ last = None /\ waypoints = <<>>

Or(origin, x) == IF origin = None THEN x ELSE origin
Distance(a, b) == IF a < b THEN b - a ELSE a - b
Sum(s) ==
    LET f[i \in 0..Len(s)] == IF i = 0 THEN 0 ELSE f[i - 1] + s[i]
    IN  f[Len(s)]

\* Mutant of Smoothed: the oldest leaves only when the buffer was over-full.
SmoothedLate(buf, x) == Append(IF Len(buf) > SmoothWindow THEN Tail(buf) ELSE buf, x)

\* The position joins the buffer, and pops the oldest.
Smoothed(buf, x) ==
    LET longer == Append(buf, x)
    IN  IF Len(longer) > SmoothWindow THEN Tail(longer) ELSE longer

Mean(buf) == (SmoothWindow * Sum(buf)) \div Len(buf)

\* Mutant of Emits: the newest position instead of the mean.
EmitsNewest(buf) ==
    last = None
        \/ /\ Len(buf) = SmoothWindow
           /\ Distance(SmoothWindow * Last(buf), last) >= SmoothWindow * DistanceThreshold

\* The first position is a waypoint; after it a full buffer whose mean is away.
Emits(buf) ==
    last = None
        \/ /\ Len(buf) = SmoothWindow
           /\ Distance(Mean(buf), last) >= SmoothWindow * DistanceThreshold

\* _add_waypoint
add_waypoint(x) ==
    /\ ins_origin' = Or(ins_origin, x)
    /\ position_buffer' = Smoothed(position_buffer, x - ins_origin')
    /\ IF Emits(position_buffer')
       THEN /\ last' = Mean(position_buffer')
            /\ waypoints' = Append(waypoints, last')
       ELSE UNCHANGED <<last, waypoints>>

\* _process_ins_rosbags, _process_ins_sqlite
ProcessIns == add_waypoint(at + OdomZero) /\ UNCHANGED gps_origin

\* _process_gps_rosbags, _process_gps_sqlite, _process_gps_coords
ProcessGps ==
    /\ gps_origin' = Or(gps_origin, at)
    /\ add_waypoint(at - gps_origin')

\* A message of a source that is used.  One that is malformed, and a GPS message
\* without a fix, changes nothing.
Message ==
    /\ Len(route) < MaxMessages
    /\ at' \in {p \in -MaxPlace..MaxPlace : Distance(p, at) <= MaxStep}
    /\ \/ "ins" \in used /\ ProcessIns
       \/ "gps" \in used /\ ProcessGps
    /\ route' = Append(route, at) /\ UNCHANGED used

Next == Message

Spec == Init /\ [][Next]_vars

----------------------------------------------------------------------------
TypeOK ==
    /\ at \in -MaxPlace..MaxPlace /\ Len(route) \in 0..MaxMessages
    /\ Len(position_buffer) \in 0..SmoothWindow
    /\ waypoints \in Seq(Int) /\ (waypoints # <<>> => last = Last(waypoints))

\* Two waypoints in a row are at least the threshold apart.
Spaced ==
    \A i \in 2..Len(waypoints) :
        Distance(waypoints[i - 1], waypoints[i]) >= SmoothWindow * DistanceThreshold

\* No part of the route is left out: with one source some waypoint is less than
\* the threshold, and what smoothing lags behind, from every place at which a
\* message was taken.
Covered ==
    used # {"ins", "gps"} =>
        \A i \in DOMAIN route : \E k \in DOMAIN waypoints :
            Distance(SmoothWindow * (route[i] - route[1]), waypoints[k])
                < SmoothWindow * (DistanceThreshold + (SmoothWindow - 1) * MaxStep)
=============================================================================
