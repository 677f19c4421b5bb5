--------------------------- MODULE WaypointLogger ---------------------------
(***************************************************************************)
(* The script log_waypoints.  The ROS executor thread keeps the latest INS *)
(* and GPS message and pins the two home points; the keyboard thread takes *)
(* a snapshot under the lock, works outside it, and at the end writes the  *)
(* file, home points first, without the lock.                              *)
(*                                                                         *)
(* A position is an integer; so is a difference of positions.  What a GPS  *)
(* message says of the position is the truth if it has a 3D fix, anything  *)
(* if it has not.                                                          *)
(***************************************************************************)
EXTENDS Integers, Sequences

CONSTANTS Place,         \* where the rover may be
          MaxWaypoints,  \* bound on the waypoints logged
          None           \* Python's None; in a waypoint, a field left out

LoggerAssumption == Place \subseteq Int /\ MaxWaypoints \in Nat

\* Fix types by value: none, 2D, 3D, GPS and dead reckoning, time only.
Fix == {0, 512, 768, 1024, 1280}
GPS_FIX_3D == 768
HasPosition == {768, 1024}

VARIABLES
    place,                 \* where the rover is
    latest_ins,            \* the last INS position
    latest_gps,            \* the last GPS message
    home_ins, home_gps,
    keyboard,              \* "loop", "logging", "saving", "writing" or "ended"
    snapshot,              \* what log_waypoint copied under the lock
    waypoints,
    header,                \* home_block while it is built
    file                   \* the file on disk

ros == <<latest_ins, latest_gps, home_ins, home_gps>>
main == <<keyboard, snapshot, waypoints, header, file>>
lvars == <<place, ros, main>>

GpsMessage == [at : Place, fix : Fix]

LInit ==
    /\ place \in Place
    /\ latest_ins = None /\ latest_gps = None
    /\ home_ins = None /\ home_gps = None
    /\ keyboard = "loop" /\ snapshot = None /\ waypoints = <<>>
    /\ header = None /\ file = None

Drive(p) == p # place /\ place' = p /\ UNCHANGED <<ros, main>>

----------------------------------------------------------------------------
(* The executor thread                                                     *)

\* Mutant of InsCallback: every message moves the home point.
InsCallbackRehoming ==
    /\ latest_ins' = place /\ home_ins' = place
    /\ UNCHANGED <<place, latest_gps, home_gps, main>>

InsCallback ==
    /\ latest_ins' = place
    /\ home_ins' = IF home_ins = None THEN place ELSE home_ins
    /\ UNCHANGED <<place, latest_gps, home_gps, main>>

\* Mutant of GpsCallback: every 3D fix becomes home.
GpsCallbackRehoming(msg) ==
    /\ msg.fix \in HasPosition => msg.at = place
    /\ latest_gps' = msg
    /\ home_gps' = IF msg.fix >= GPS_FIX_3D THEN msg.at ELSE home_gps
    /\ UNCHANGED <<place, latest_ins, home_ins, main>>

GpsCallback(msg) ==
    /\ msg.fix \in HasPosition => msg.at = place
    /\ latest_gps' = msg
    /\ home_gps' = IF home_gps = None /\ msg.fix >= GPS_FIX_3D
                   THEN msg.at ELSE home_gps
    /\ UNCHANGED <<place, latest_ins, home_ins, main>>

----------------------------------------------------------------------------
(* The keyboard thread                                                     *)

Space ==
    /\ keyboard = "loop" /\ Len(waypoints) < MaxWaypoints
    /\ latest_ins # None \/ latest_gps # None
    /\ snapshot' = [ins |-> latest_ins, gps |-> latest_gps,
                    home_ins |-> home_ins, home_gps |-> home_gps]
    /\ keyboard' = "logging"
    /\ UNCHANGED <<place, ros, waypoints, header, file>>

Localized(s) ==
    [x |-> IF s.ins = None THEN None
           ELSE IF s.home_ins = None THEN s.ins ELSE s.ins - s.home_ins,
     lat |-> IF s.gps = None THEN None ELSE s.gps.at,
     east |-> IF s.gps # None /\ s.home_gps # None /\ s.gps.fix >= GPS_FIX_3D
              THEN s.gps.at - s.home_gps ELSE None,
     was |-> s.ins]     \* history: the raw INS position

LogWaypoint ==
    /\ keyboard = "logging"
    /\ waypoints' = Append(waypoints, Localized(snapshot))
    /\ snapshot' = None /\ keyboard' = "loop"
    /\ UNCHANGED <<place, ros, header, file>>

Quit ==
    /\ keyboard = "loop"
    /\ keyboard' = IF waypoints = <<>> THEN "ended" ELSE "saving"
    /\ UNCHANGED <<place, ros, snapshot, waypoints, header, file>>

SaveInsHome ==
    /\ keyboard = "saving"
    /\ header' = [ins |-> home_ins, gps |-> None]
    /\ keyboard' = "writing"
    /\ UNCHANGED <<place, ros, snapshot, waypoints, file>>

SaveGpsHome ==
    /\ keyboard = "writing"
    /\ header' = [header EXCEPT !.gps = home_gps]
    /\ file' = [home |-> header', waypoints |-> waypoints]
    /\ keyboard' = "ended"
    /\ UNCHANGED <<place, ros, snapshot, waypoints>>

----------------------------------------------------------------------------
LNext ==
    /\ keyboard # "ended"
    /\ \/ \E p \in Place : Drive(p)
       \/ InsCallback
       \/ \E msg \in GpsMessage : GpsCallback(msg)
       \/ Space \/ LogWaypoint \/ Quit \/ SaveInsHome \/ SaveGpsHome

LSpec == LInit /\ [][LNext]_lvars

----------------------------------------------------------------------------
Maybe(S) == S \cup {None}
Waypoint == [x : Maybe(Int), lat : Maybe(Int), east : Maybe(Int), was : Maybe(Int)]

LTypeOK ==
    /\ place \in Place
    /\ latest_ins \in Maybe(Place) /\ home_ins \in Maybe(Place)
    /\ latest_gps \in Maybe(GpsMessage) /\ home_gps \in Maybe(Place)
    /\ keyboard \in {"loop", "logging", "saving", "writing", "ended"}
    /\ keyboard = "logging" =>
          snapshot \in [ins : Maybe(Place), gps : Maybe(GpsMessage),
                        home_ins : Maybe(Place), home_gps : Maybe(Place)]
    /\ waypoints \in Seq(Waypoint)
    /\ keyboard = "writing" => header \in [ins : Maybe(Place), gps : Maybe(Place)]

\* Whatever the executor thread does between the snapshot, the append and the
\* save, the file gives back where the rover was: its home point plus a
\* waypoint's offset is the INS position the waypoint was logged at.
FileGivesBackPosition ==
    file # None =>
        \A i \in DOMAIN file.waypoints :
            LET w == file.waypoints[i]
            IN  w.x # None => /\ file.home.ins # None
                              /\ w.x + file.home.ins = w.was

\* The same for GPS offsets, and no offset without its home point.
FileGivesBackGps ==
    file # None =>
        \A i \in DOMAIN file.waypoints :
            LET w == file.waypoints[i]
            IN  w.east # None => /\ file.home.gps # None
                                 /\ w.lat = w.east + file.home.gps

FileGivesBack == FileGivesBackPosition /\ FileGivesBackGps

\* "Lock in the GPS home point on the first valid 3D fix."
HomeHas3DFix == [][home_gps' # home_gps => latest_gps'.fix \in HasPosition]_lvars
=============================================================================
