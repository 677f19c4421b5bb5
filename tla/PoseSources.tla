---------------------------- MODULE PoseSources ----------------------------
(***************************************************************************)
(* The nodes that turn what the InertialSense driver publishes into poses  *)
(* in the rover's own frame, east, north and counter-clockwise:            *)
(*                                                                         *)
(*   ins_localizer      /ins -> /ins/local, from its first message         *)
(*   ned_to_enu         /ins -> /ins_enu, from its first message           *)
(*   imu_enu_republisher  /imu -> /imu/enu                                 *)
(*   gps_datum_odom, simple_gps_odom   /gps -> /gps_odom, from the mean of *)
(*                      its first Samples fixes                            *)
(*                                                                         *)
(* The sensor works in north, east, down and clockwise angles, and is      *)
(* mounted backward.  Angles are in units of 2 pi / Circle.  The rover     *)
(* moves on a grid; any message may miss any node, which may also start    *)
(* late: it pins its origin where the rover is by then.                    *)
(***************************************************************************)
EXTENDS Integers

CONSTANTS Circle,      \* a full turn, a multiple of four
          Places,      \* [e, n], where the rover may be
          Fixes,       \* fix types
          Samples      \* calib_samples

PoseAssumption ==
    /\ Circle \in Nat \ {0} /\ Circle % 4 = 0
    /\ Places \subseteq [e : Int, n : Int] /\ Fixes \subseteq Nat
    /\ Samples \in Nat \ {0}

VARIABLES place, heading, turn,     \* the rover, and how it turned last
          origin_localizer, origin_enu,
          buf, datum,               \* samples and their sum, then the datum
          local, enu, imu, gps      \* what was published last, relative to the rover

rover == <<place, heading, turn>>
nodes == <<origin_localizer, origin_enu, buf, datum>>
published == <<local, enu, imu, gps>>
vars == <<rover, nodes, published>>

Absent == [none |-> TRUE]            \* Python's None: not set or not published yet
FIX_3D == 768
TimeOnly == 1280

Minus(p, q) == [e |-> p.e - q.e, n |-> p.n - q.n]
Plus(p, q) == [e |-> p.e + q.e, n |-> p.n + q.n]
Times(k, p) == [e |-> k * p.e, n |-> k * p.n]
Here == [e |-> 0, n |-> 0]

Init ==
    /\ place \in Places /\ heading = 0 /\ turn = 0
    /\ origin_localizer = Absent /\ origin_enu = Absent
    /\ buf = [n |-> 0, sum |-> Here] /\ datum = Absent
    /\ local = Absent /\ enu = Absent /\ imu = Absent /\ gps = Absent

----------------------------------------------------------------------------
\* What the sensor says: x is north and y is east of its reference, its yaw is
\* clockwise from north and turned by half a circle, its z axis points down.
Ins == [x |-> place.n, y |-> place.e,
        yaw |-> (Circle \div 4 - heading + Circle \div 2) % Circle, wz |-> -turn]
Imu == [wz |-> -turn]

\* ins_localizer._cb
ins_localizer_cb(msg) ==
    LET o == IF origin_localizer = Absent THEN [x |-> msg.x, y |-> msg.y] ELSE origin_localizer
    IN  /\ origin_localizer' = o
        /\ local' = Minus([e |-> msg.y - o.y, n |-> msg.x - o.x], place)

\* Mutant of ned_to_enu_cb: the sensor looks ahead.
ned_to_enu_cb_ahead(msg) ==
    LET p == [e |-> msg.y, n |-> msg.x]
        o == IF origin_enu = Absent THEN p ELSE origin_enu
    IN  /\ origin_enu' = o
        /\ enu' = [pos |-> Minus(Minus(p, o), place),
                   yaw |-> ((Circle \div 4 - msg.yaw) - heading) % Circle,
                   wz |-> -msg.wz - turn]

\* ned_to_enu._callback
ned_to_enu_cb(msg) ==
    LET p == [e |-> msg.y, n |-> msg.x]
        o == IF origin_enu = Absent THEN p ELSE origin_enu
        yaw_ned == msg.yaw + Circle \div 2
    IN  /\ origin_enu' = o
        /\ enu' = [pos |-> Minus(Minus(p, o), place),
                   yaw |-> ((Circle \div 4 - yaw_ned) - heading) % Circle,
                   wz |-> -msg.wz - turn]

\* imu_enu_republisher._cb
imu_enu_cb(msg) == imu' = [wz |-> -msg.wz - turn]

\* A fix: one of the time only has no position.
Fix(type) == [fix_type |-> type, pos |-> IF type = TimeOnly THEN Here ELSE place]

\* Mutant of gps_odom_cb: the datum follows the last fix.
gps_odom_cb_moving(msg) ==
    /\ msg.fix_type >= FIX_3D
    /\ LET b == [n |-> buf.n + 1, sum |-> Plus(buf.sum, msg.pos)] IN
       \/ datum = Absent /\ b.n < Samples /\ buf' = b /\ UNCHANGED <<datum, gps>>
       \/ /\ datum = Absent /\ b.n = Samples
          /\ datum' = b.sum /\ buf' = [n |-> 0, sum |-> Here] /\ gps' = gps
       \/ /\ datum # Absent
          /\ gps' = [pos |-> Minus(Minus(Times(Samples, msg.pos), datum), Times(Samples, place)),
                     timed |-> msg.fix_type = TimeOnly]
          /\ datum' = Times(Samples, msg.pos) /\ UNCHANGED buf

\* gps_datum_odom._cb and simple_gps_odom._cb: positions, and the datum, are in
\* units of 1 / Samples.
gps_odom_cb(msg) ==
    /\ msg.fix_type >= FIX_3D
    /\ LET b == [n |-> buf.n + 1, sum |-> Plus(buf.sum, msg.pos)] IN
       \/ datum = Absent /\ b.n < Samples /\ buf' = b /\ UNCHANGED <<datum, gps>>
       \/ /\ datum = Absent /\ b.n = Samples
          /\ datum' = b.sum /\ buf' = [n |-> 0, sum |-> Here] /\ gps' = gps
       \/ /\ datum # Absent
          /\ gps' = [pos |-> Minus(Minus(Times(Samples, msg.pos), datum), Times(Samples, place)),
                     timed |-> msg.fix_type = TimeOnly]
          /\ UNCHANGED <<buf, datum>>

----------------------------------------------------------------------------
\* The rover goes to a place, and turns.
Move ==
    /\ place' \in Places
    /\ turn' \in {-1, 0, 1} /\ heading' = (heading + turn') % Circle
    /\ UNCHANGED <<nodes, published>>

InsToLocal ==
    /\ ins_localizer_cb(Ins)
    /\ UNCHANGED <<rover, origin_enu, buf, datum, enu, imu, gps>>

InsToEnu ==
    /\ ned_to_enu_cb(Ins)
    /\ UNCHANGED <<rover, origin_localizer, buf, datum, local, imu, gps>>

ImuToEnu ==
    /\ imu_enu_cb(Imu)
    /\ UNCHANGED <<rover, nodes, local, enu, gps>>

GpsToOdom ==
    /\ \E type \in Fixes : gps_odom_cb(Fix(type))
    /\ UNCHANGED <<rover, origin_localizer, origin_enu, local, enu, imu>>

Next == Move \/ InsToLocal \/ InsToEnu \/ ImuToEnu \/ GpsToOdom

Spec == Init /\ [][Next]_vars

----------------------------------------------------------------------------
TypeOK ==
    /\ place \in Places /\ heading \in 0..Circle - 1 /\ turn \in {-1, 0, 1}
    /\ origin_localizer = Absent \/ origin_localizer \in [x : Int, y : Int]
    /\ origin_enu = Absent \/ origin_enu \in [e : Int, n : Int]
    /\ buf.n \in 0..Samples - 1 /\ (datum # Absent => buf.n = 0)

\* Heading and rate are the rover's, although the sensor is upside down and
\* looks back: ned_to_enu's yaw is where the rover faces, and both nodes turn
\* the way it turns.
FacesAhead ==
    /\ enu # Absent => enu.yaw = 0 /\ enu.wz = 0
    /\ imu # Absent => imu.wz = 0

\* The nodes start at different times and places, but between them they see the
\* same way: from one pose that a node publishes to its next, the rover has gone
\* where the two poses say, unless a fix was of the time only.
SameWay ==
    [][/\ local # Absent => local' = local
       /\ enu # Absent => enu'.pos = enu.pos
       /\ gps # Absent /\ ~gps.timed /\ ~gps'.timed => gps'.pos = gps.pos]_vars
=============================================================================
