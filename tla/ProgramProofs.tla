---------------------------- MODULE ProgramProofs ----------------------------
(***************************************************************************)
(* Proofs about the programs around the driver that do not move the rover: *)
(* the NTRIP proxy, the waypoint logger, the nodes that calibrate, the     *)
(* sources of poses, and the extraction of waypoints.                      *)
(***************************************************************************)
EXTENDS MCPrograms, FiniteSetTheorems, WellFoundedInduction, TLAPS

----------------------------------------------------------------------------
(* NtripProxy, for any set of mountpoints.  The lock decides who may be in *)
(* the middle of a chunk; the place of a thread decides which connections  *)
(* exist; the handler decides which threads do.                            *)

\* Exactly the thread between acquire and release holds the lock.
Locking ==
    /\ \A m \in Mountpoint : m \in lock <=> pc[m] \in {"send", "sending"}
    /\ \A m, n \in lock : m = n

\* While the client is there, half a chunk on the wire has its thread at work.
HalfSent == client = "here" => \A m \in partial : pc[m] = "sending"

\* Threads run only while the handler waits to join them, and outside the
\* body of their connection's try statement they own none.
Owning ==
    /\ handler # "joining" => \A m \in Mountpoint : pc[m] = "off"
    /\ \A m \in Mountpoint :
          pc[m] \in {"off", "check", "connect", "done"}
              => conn[m] = "none" /\ ~gga[m]

ProxyInv == PTypeOK /\ Locking /\ HalfSent /\ Owning /\ KeptAlive

\* A step of the thread of m that takes nobody into or out of the locked region.
LEMMA LockUntouched ==
    ASSUME PTypeOK, Locking, lock' = lock, NEW m \in Mountpoint, NEW to,
           pc' = [pc EXCEPT ![m] = to],
           pc[m] \in {"send", "sending"} <=> to \in {"send", "sending"}
    PROVE  Locking'
BY DEF PTypeOK, Locking

\* Releasing the lock: its holder leaves the region, and nobody else is in it.
LEMMA Released ==
    ASSUME PTypeOK, Locking, lock' = {}, NEW m \in Mountpoint,
           NEW to \in {"test", "done"}, pc[m] \in {"send", "sending"},
           pc' = [pc EXCEPT ![m] = to]
    PROVE  Locking'
<1>1. m \in lock /\ \A n \in Mountpoint : pc[n] \in {"send", "sending"} => n = m
  BY DEF Locking
<1> QED BY <1>1 DEF PTypeOK, Locking

\* A step that touches neither the lock, nor the chunks, nor the handler, and
\* leaves every thread where it is.
LEMMA ThreadsStay ==
    ASSUME Locking, HalfSent, client' = "here" => client = "here",
           UNCHANGED <<lock, pc, partial>>
    PROVE  Locking' /\ HalfSent'
BY DEF Locking, HalfSent

LEMMA ProxyInit ==
    ASSUME ProxyAssumption PROVE PInit => ProxyInv
<1> SUFFICES ASSUME PInit PROVE ProxyInv
  OBVIOUS
<1>1. drops \in [Mountpoint -> 0..MaxDrops] /\ stale \in [Mountpoint -> Nat]
  BY DEF ProxyAssumption, PInit
<1> QED BY <1>1 DEF PInit, ProxyInv, PTypeOK, Positions, Locking, HalfSent,
                    Owning, KeptAlive

\* The handler's steps: the session begins and ends with every thread off.
LEMMA HandlerKeeps ==
    ASSUME ProxyAssumption, ProxyInv,
           Accept \/ Handshake \/ Join \/ ClientLeaves
    PROVE  ProxyInv'
<1> USE DEF ProxyInv
<1>1. CASE Accept
  <2>1. drops' \in [Mountpoint -> 0..MaxDrops]
    BY <1>1 DEF ProxyAssumption, Accept
  <2> QED BY <1>1, <2>1 DEF Accept, PTypeOK, Locking, HalfSent, Owning, KeptAlive
<1>2. CASE Handshake
  <2>1. \A m \in Mountpoint : pc[m] = "off" /\ m \notin lock
    BY <1>2 DEF Handshake, Owning, Locking
  <2>2. lock = {} /\ (client = "here" => partial = {})
    BY <2>1 DEF PTypeOK, HalfSent
  <2>3. CASE handler' = "joining"
    <3>1. pc' = [m \in Mountpoint |-> "check"] /\ client' = client
      BY <1>2, <2>3 DEF Handshake
    <3>2. PTypeOK'
      BY <1>2, <2>3, <3>1 DEF Handshake, PTypeOK, Positions
    <3> QED BY <1>2, <2>1, <2>2, <2>3, <3>1, <3>2
            DEF Handshake, Locking, HalfSent, Owning, KeptAlive
  <2>4. CASE handler' # "joining"
    BY <1>2, <2>1, <2>4
       DEF Handshake, PTypeOK, Locking, HalfSent, Owning, KeptAlive
  <2> QED BY <2>3, <2>4
<1>3. CASE Join
  BY <1>3 DEF Join, PTypeOK, Positions, Locking, HalfSent, Owning, KeptAlive
<1>4. CASE ClientLeaves
  BY <1>4 DEF ClientLeaves, PTypeOK, Locking, HalfSent, Owning, KeptAlive
<1> QED BY <1>1, <1>2, <1>3, <1>4

\* The types, for the step of one thread.
LEMMA ThreadType ==
    ASSUME ProxyInv, NEW m \in Mountpoint,
           ForwardStream(m) \/ Connect(m) \/ Receive(m)
    PROVE  PTypeOK'
<1> USE DEF ProxyInv, PTypeOK, Positions, shared, Goto
<1>1. CASE Check(m) \/ Test(m) \/ EndOfStream(m) \/ Receive(m) \/ Connect(m)
  BY <1>1 DEF Check, Test, EndOfStream, Receive, Connect
<1>2. CASE Acquire(m) \/ SendStart(m) \/ SendRest(m)
  BY <1>2 DEF Acquire, SendStart, SendRest
<1>3. CASE SendFails(m) \/ Close(m)
  <2>1. (IF gga[m] THEN 1 ELSE 0) \in Nat
    OBVIOUS
  <2>2. stale' \in [Mountpoint -> Nat]
    BY <1>3, <2>1 DEF SendFails, Close
  <2> QED BY <1>3, <2>2 DEF SendFails, Close
<1> QED BY <1>1, <1>2, <1>3 DEF ForwardStream

LEMMA ThreadKeeps ==
    ASSUME ProxyInv, NEW m \in Mountpoint,
           ForwardStream(m) \/ Connect(m) \/ Receive(m)
    PROVE  ProxyInv'
<1> USE DEF ProxyInv
<1>1. PTypeOK'
  BY ThreadType
<1>2. handler = "joining" /\ handler' = handler /\ client' = client
  <2>1. pc[m] # "off" /\ UNCHANGED shared
    BY DEF ForwardStream, Check, Test, EndOfStream, Acquire, SendStart, SendRest,
           SendFails, Close, Connect, Receive, Goto
  <2> QED BY <2>1 DEF Owning, shared
<1>3. Locking'
  <2>1. CASE Check(m) \/ Test(m) \/ EndOfStream(m) \/ Close(m)
                \/ Connect(m) \/ Receive(m)
    BY <2>1, LockUntouched DEF Check, Test, EndOfStream, Close, Connect, Receive, Goto
  <2>2. CASE Acquire(m)
    BY <2>2 DEF Acquire, Goto, PTypeOK, Locking
  <2>3. CASE SendStart(m)
    BY <2>3, LockUntouched DEF SendStart, Goto
  <2>4. CASE SendRest(m)
    <3>1. /\ pc[m] \in {"send", "sending"}
          /\ lock' = {} /\ pc' = [pc EXCEPT ![m] = "test"]
      BY <2>4 DEF SendRest, Goto
    <3> QED BY <3>1, Released
  <2>5. CASE SendFails(m)
    <3>1. /\ pc[m] \in {"send", "sending"}
          /\ lock' = {} /\ pc' = [pc EXCEPT ![m] = "done"]
      BY <2>5 DEF SendFails
    <3> QED BY <3>1, Released
  <2> QED BY <2>1, <2>2, <2>3, <2>4, <2>5 DEF ForwardStream
<1>4. HalfSent'
  <2>1. CASE Check(m) \/ Test(m) \/ EndOfStream(m) \/ Close(m) \/ Acquire(m)
                \/ Connect(m) \/ Receive(m)
    BY <1>2, <2>1 DEF Check, Test, EndOfStream, Close, Acquire, Connect, Receive,
                      Goto, PTypeOK, HalfSent
  <2>2. CASE SendStart(m) \/ SendRest(m)
    BY <1>2, <2>2 DEF SendStart, SendRest, Goto, PTypeOK, HalfSent
  <2>3. CASE SendFails(m)
    BY <1>2, <2>3 DEF SendFails, HalfSent
  <2> QED BY <2>1, <2>2, <2>3 DEF ForwardStream
<1>5. Owning' /\ KeptAlive'
  <2>1. CASE Check(m) \/ Test(m) \/ EndOfStream(m) \/ Receive(m)
    BY <1>2, <2>1 DEF Check, Test, EndOfStream, Receive, Goto, PTypeOK, Owning, KeptAlive
  <2>2. CASE Acquire(m) \/ SendStart(m) \/ SendRest(m)
    BY <1>2, <2>2 DEF Acquire, SendStart, SendRest, Goto, PTypeOK, Owning, KeptAlive
  <2>3. CASE SendFails(m) \/ Close(m) \/ Connect(m)
    BY <1>2, <2>3 DEF SendFails, Close, Connect, Goto, PTypeOK, Owning, KeptAlive
  <2> QED BY <2>1, <2>2, <2>3 DEF ForwardStream
<1> QED BY <1>1, <1>3, <1>4, <1>5

\* Steps outside the forwarding threads.
LEMMA OthersKeep ==
    ASSUME ProxyAssumption, ProxyInv, NEW m \in Mountpoint,
           GgaEnds(m) \/ StaleGgaEnds(m) \/ CasterDrops(m)
    PROVE  ProxyInv'
<1> USE DEF ProxyInv, shared
<1>1. PTypeOK'
  <2>1. CASE GgaEnds(m)
    BY <2>1 DEF GgaEnds, PTypeOK
  <2>2. CASE StaleGgaEnds(m)
    BY <2>2 DEF StaleGgaEnds, PTypeOK
  <2>3. CASE CasterDrops(m)
    <3>1. drops[m] - 1 \in 0..MaxDrops
      BY <2>3 DEF ProxyAssumption, CasterDrops, PTypeOK
    <3> QED BY <2>3, <3>1 DEF CasterDrops, PTypeOK
  <2> QED BY <2>1, <2>2, <2>3
<1>2. Locking' /\ HalfSent'
  BY ThreadsStay DEF GgaEnds, StaleGgaEnds, CasterDrops
<1>3. Owning' /\ KeptAlive'
  BY DEF GgaEnds, StaleGgaEnds, CasterDrops, PTypeOK, Owning, KeptAlive
<1> QED BY <1>1, <1>2, <1>3

LEMMA ProxyStep ==
    ASSUME ProxyAssumption PROVE ProxyInv /\ [PNext]_pvars => ProxyInv'
<1> SUFFICES ASSUME ProxyInv, [PNext]_pvars PROVE ProxyInv'
  OBVIOUS
<1>1. CASE UNCHANGED pvars
  BY <1>1 DEF pvars, ProxyInv, PTypeOK, Locking, HalfSent, Owning, KeptAlive
<1> QED BY <1>1, HandlerKeeps, ThreadKeeps, OthersKeep DEF PNext

\* What the lock, the threads and the connections have to do with each other
\* in every state of every session.
THEOREM ProxyInvariant == ASSUME ProxyAssumption PROVE PSpec => []ProxyInv
<1>1. PInit => ProxyInv
  BY ProxyInit
<1>2. ProxyInv /\ [PNext]_pvars => ProxyInv'
  BY ProxyStep
<1> QED BY <1>1, <1>2, PTL DEF PSpec

\* For any number of mountpoints, the client receives whole chunks: two
\* threads are never between the halves of a chunk.
THEOREM ChunksWhole == ASSUME ProxyAssumption PROVE PSpec => []WholeChunks
<1>1. ProxyInv => WholeChunks
  <2> SUFFICES ASSUME ProxyInv, client = "here" 
               PROVE  partial \subseteq lock /\ Cardinality(lock) <= 1
    BY DEF WholeChunks
  <2>1. partial \subseteq lock
    BY DEF ProxyInv, PTypeOK, HalfSent, Locking
  <2>2. CASE lock = {}
    <3>1. Cardinality(lock) = 0
      BY <2>2, FS_EmptySet
    <3> QED BY <2>1, <3>1
  <2>3. CASE lock # {}
    <3>1. PICK m \in lock : lock = {m}
      BY <2>3 DEF ProxyInv, Locking
    <3>2. Cardinality(lock) = 1
      BY <3>1, FS_Singleton
    <3> QED BY <2>1, <3>2
  <2> QED BY <2>1, <2>2, <2>3
<1> QED BY <1>1, ProxyInvariant, PTL

\* Every connection to the caster has its GGA thread for as long as it needs
\* one, and none is left when the handler has joined its threads.
THEOREM ConnectionsSafe == ASSUME ProxyAssumption PROVE PSpec => []ConnectionsKept
<1>1. ProxyInv => ConnectionsKept
  BY DEF ProxyInv, Owning, NoLeakedConnection, ConnectionsKept
<1> QED BY <1>1, ProxyInvariant, PTL
----------------------------------------------------------------------------
(* WaypointLogger, for any places, fixes and number of waypoints.  What    *)
(* ties the three copies of a home point together (in the node, in the     *)
(* snapshot, in the header) is that the executor sets it once.             *)

\* The offsets of these waypoints are relative to this home point.
InsOffsets(logged, home) ==
    \A i \in DOMAIN logged :
        logged[i].x # None => home # None /\ logged[i].x + home = logged[i].was
GpsOffsets(logged, home) ==
    \A i \in DOMAIN logged :
        logged[i].east # None => home # None /\ logged[i].lat = logged[i].east + home

\* A snapshot with a position has the home point, and the one still in force.
SnapshotAtHome ==
    /\ latest_ins # None => home_ins # None
    /\ keyboard = "logging" =>
          /\ snapshot.ins # None =>
                snapshot.home_ins # None /\ snapshot.home_ins = home_ins
          /\ snapshot.home_gps # None => snapshot.home_gps = home_gps

\* A home point the header lacks was set after the last waypoint.
HeaderAtHome ==
    keyboard = "writing" => InsOffsets(waypoints, header.ins)

LoggerInv ==
    /\ LTypeOK /\ SnapshotAtHome /\ HeaderAtHome
    /\ InsOffsets(waypoints, home_ins) /\ GpsOffsets(waypoints, home_gps)
    /\ FileGivesBack

\* A home point that was set stays.
LEMMA HomeStays ==
    ASSUME [LNext]_lvars
    PROVE  /\ home_ins # None => home_ins' = home_ins
           /\ home_gps # None => home_gps' = home_gps
BY DEF LNext, lvars, ros, main, Drive, InsCallback, GpsCallback, Space, LogWaypoint,
       Quit, SaveInsHome, SaveGpsHome

LEMMA OffsetsStay ==
    ASSUME LoggerInv, [LNext]_lvars, waypoints' = waypoints
    PROVE  /\ InsOffsets(waypoints, home_ins)' /\ GpsOffsets(waypoints, home_gps)'
BY HomeStays DEF LoggerInv, InsOffsets, GpsOffsets

\* What log_waypoint computes from a snapshot gives the position back.
LEMMA LocalizedGivesBack ==
    ASSUME LoggerAssumption, LTypeOK, SnapshotAtHome, keyboard = "logging",
           NEW w, w = Localized(snapshot)
    PROVE  /\ w \in Waypoint
           /\ w.x # None => home_ins # None /\ w.x + home_ins = w.was
           /\ w.east # None => home_gps # None /\ w.lat = w.east + home_gps
<1> USE DEF LoggerAssumption, LTypeOK, SnapshotAtHome, Localized, Maybe
<1>1. snapshot.ins \in Maybe(Int) /\ snapshot.home_ins \in Maybe(Int)
  OBVIOUS
<1>2. w.x \in Maybe(Int) /\ w.was \in Maybe(Int)
  BY <1>1
<1>3. ASSUME snapshot.gps # None
      PROVE  snapshot.gps.at \in Int
  BY <1>3 DEF GpsMessage
<1>4. snapshot.home_gps \in Maybe(Int)
  OBVIOUS
<1>5. w.lat \in Maybe(Int) /\ w.east \in Maybe(Int)
  BY <1>3, <1>4
<1>6. w \in Waypoint
  BY <1>2, <1>5 DEF Waypoint
<1>7. w.x # None => home_ins # None /\ w.x + home_ins = w.was
  BY <1>1
<1>8. w.east # None => home_gps # None /\ w.lat = w.east + home_gps
  BY <1>3, <1>4
<1> QED BY <1>6, <1>7, <1>8

LEMMA LoggerInit == ASSUME LoggerAssumption PROVE LInit => LoggerInv
BY DEF LoggerAssumption, LInit, LoggerInv, LTypeOK, Maybe, SnapshotAtHome,
       HeaderAtHome, InsOffsets, GpsOffsets, FileGivesBack, FileGivesBackPosition,
       FileGivesBackGps

\* The executor thread, and the rover.
LEMMA ExecutorKeeps ==
    ASSUME LoggerAssumption, LoggerInv, [LNext]_lvars,
           \/ \E p \in Place : Drive(p)
           \/ InsCallback
           \/ \E msg \in GpsMessage : GpsCallback(msg)
    PROVE  LoggerInv'
<1>1. UNCHANGED main
  BY DEF Drive, InsCallback, GpsCallback
<1>2. LTypeOK'
  BY DEF LoggerInv, LTypeOK, Drive, InsCallback, GpsCallback, Maybe, ros, main, GpsMessage
<1>3. SnapshotAtHome'
  <2>1. latest_ins' # None => home_ins' # None
    BY DEF LoggerInv, SnapshotAtHome, Drive, InsCallback, GpsCallback, ros
  <2> QED BY <1>1, <2>1, HomeStays DEF LoggerInv, SnapshotAtHome, main
<1>4. HeaderAtHome' /\ FileGivesBack'
  BY <1>1 DEF LoggerInv, HeaderAtHome, main, InsOffsets,
              FileGivesBack, FileGivesBackPosition, FileGivesBackGps
<1>5. InsOffsets(waypoints, home_ins)' /\ GpsOffsets(waypoints, home_gps)'
  BY <1>1, OffsetsStay DEF main
<1> QED BY <1>2, <1>3, <1>4, <1>5 DEF LoggerInv

\* The keyboard thread.
LEMMA KeyboardKeeps ==
    ASSUME LoggerAssumption, LoggerInv, [LNext]_lvars,
           Space \/ LogWaypoint \/ Quit \/ SaveInsHome \/ SaveGpsHome
    PROVE  LoggerInv'
<1> USE DEF LoggerInv
<1>1. UNCHANGED <<place, ros>>
  BY DEF Space, LogWaypoint, Quit, SaveInsHome, SaveGpsHome
<1>2. CASE Space
  <2>1. LTypeOK' /\ SnapshotAtHome' /\ HeaderAtHome'
    BY <1>1, <1>2 DEF Space, LTypeOK, Maybe, SnapshotAtHome, HeaderAtHome, ros
  <2> QED BY <1>1, <1>2, <2>1, OffsetsStay
          DEF Space, FileGivesBack, FileGivesBackPosition, FileGivesBackGps
<1>3. CASE LogWaypoint
  <2> DEFINE w == Localized(snapshot)
  <2>1. /\ w \in Waypoint
        /\ w.x # None => home_ins # None /\ w.x + home_ins = w.was
        /\ w.east # None => home_gps # None /\ w.lat = w.east + home_gps
    BY <1>3, LocalizedGivesBack DEF LogWaypoint
  <2>2. waypoints' = Append(waypoints, w) /\ UNCHANGED <<header, file>>
        /\ keyboard' = "loop"
    BY <1>3 DEF LogWaypoint
  <2> HIDE DEF w
  <2>3. /\ waypoints' \in Seq(Waypoint)
        /\ DOMAIN waypoints' = DOMAIN waypoints \cup {Len(waypoints) + 1}
        /\ \A i \in DOMAIN waypoints : waypoints'[i] = waypoints[i]
        /\ waypoints'[Len(waypoints) + 1] = w
    BY <2>1, <2>2 DEF LTypeOK
  <2>4. LTypeOK' /\ SnapshotAtHome' /\ HeaderAtHome'
    BY <1>1, <2>2, <2>3 DEF LTypeOK, SnapshotAtHome, HeaderAtHome, ros
  <2>5. InsOffsets(waypoints, home_ins)' /\ GpsOffsets(waypoints, home_gps)'
    BY <1>1, <2>1, <2>3 DEF InsOffsets, GpsOffsets, ros
  <2> QED BY <2>2, <2>4, <2>5
          DEF FileGivesBack, FileGivesBackPosition, FileGivesBackGps
<1>4. CASE Quit
  <2>1. LTypeOK' /\ SnapshotAtHome' /\ HeaderAtHome'
    BY <1>1, <1>4 DEF Quit, LTypeOK, SnapshotAtHome, HeaderAtHome, ros
  <2> QED BY <1>1, <1>4, <2>1, OffsetsStay
          DEF Quit, FileGivesBack, FileGivesBackPosition, FileGivesBackGps
<1>5. CASE SaveInsHome
  <2>1. header' = [ins |-> home_ins, gps |-> None] /\ keyboard' = "writing"
        /\ UNCHANGED <<snapshot, waypoints, file>>
    BY <1>5 DEF SaveInsHome
  <2>2. LTypeOK' /\ SnapshotAtHome'
    BY <1>1, <2>1 DEF LTypeOK, Maybe, SnapshotAtHome, ros
  <2>3. HeaderAtHome'
    BY <2>1 DEF HeaderAtHome, InsOffsets
  <2> QED BY <2>1, <2>2, <2>3, OffsetsStay
          DEF FileGivesBack, FileGivesBackPosition, FileGivesBackGps
<1>6. CASE SaveGpsHome
  <2>1. /\ keyboard = "writing" /\ keyboard' = "ended"
        /\ UNCHANGED <<snapshot, waypoints>>
        /\ header' = [header EXCEPT !.gps = home_gps]
        /\ file' = [home |-> header', waypoints |-> waypoints]
    BY <1>6 DEF SaveGpsHome
  <2>2. LTypeOK' /\ SnapshotAtHome' /\ HeaderAtHome'
    BY <1>1, <2>1 DEF LTypeOK, SnapshotAtHome, HeaderAtHome, ros
  <2>3. /\ file'.home.ins = header.ins /\ file'.home.gps = home_gps
        /\ file'.waypoints = waypoints
    BY <2>1 DEF LTypeOK
  <2>4. FileGivesBack'
    BY <2>1, <2>3 DEF FileGivesBack, FileGivesBackPosition, FileGivesBackGps,
                      HeaderAtHome, InsOffsets, GpsOffsets
  <2> QED BY <2>1, <2>2, <2>4, OffsetsStay
<1> QED BY <1>2, <1>3, <1>4, <1>5, <1>6

LEMMA LoggerStep ==
    ASSUME LoggerAssumption PROVE LoggerInv /\ [LNext]_lvars => LoggerInv'
<1> SUFFICES ASSUME LoggerInv, [LNext]_lvars PROVE LoggerInv'
  OBVIOUS
<1>1. CASE UNCHANGED lvars
  BY <1>1 DEF lvars, ros, main, LoggerInv, LTypeOK, SnapshotAtHome, HeaderAtHome,
              InsOffsets, GpsOffsets, FileGivesBack, FileGivesBackPosition,
              FileGivesBackGps
<1> QED BY <1>1, ExecutorKeeps, KeyboardKeeps DEF LNext

\* Wherever the rover drives while the keyboard thread logs and saves, and
\* whichever messages come in between: every waypoint of the file gives back,
\* with the home point written above it, the position it was logged at.
THEOREM FileIsRight == ASSUME LoggerAssumption PROVE LSpec => []FileGivesBack
<1>1. LInit => LoggerInv
  BY LoggerInit
<1>2. LoggerInv /\ [LNext]_lvars => LoggerInv'
  BY LoggerStep
<1>3. LoggerInv => FileGivesBack
  BY DEF LoggerInv
<1> QED BY <1>1, <1>2, <1>3, PTL DEF LSpec

\* The executor pins each home point once: no later message moves it.
THEOREM HomePinned ==
    LSpec => [][/\ home_ins # None => home_ins' = home_ins
               /\ home_gps # None => home_gps' = home_gps]_lvars
<1>1. [LNext]_lvars => [/\ home_ins # None => home_ins' = home_ins
                      /\ home_gps # None => home_gps' = home_gps]_lvars
  BY HomeStays
<1> QED BY <1>1, PTL DEF LSpec

----------------------------------------------------------------------------
(* ImuNodes: imu_odometry, for any rates, pushes and stamps.  As long as   *)
(* every sample was of a rover at rest, their sum is the tilt times their  *)
(* number, so that the direction of their mean is the tilt.                *)

ImuInv ==
    /\ Imu!TypeOK
    /\ calib_buf \in [n : Int, good : Int, sum : Int]
    /\ ~calibrated =>
          /\ calib_buf.n < CalibSamples /\ imu_vel = Imu!Zero /\ ~moved
          /\ seen => calib_buf.sum = calib_buf.n * tilt /\ calib_buf.good = calib_buf.n
    /\ Imu!Tracked /\ Imu!StaysPut

LEMMA ProductIsInt == ASSUME NEW a \in Int, NEW b \in Int PROVE a * b \in Int
OBVIOUS

LEMMA ZeroTimes == ASSUME NEW a \in Int PROVE 0 * a = 0
OBVIOUS

LEMMA ImuInits == ASSUME Imu!ImuAssumption, Imu!Init PROVE ImuInv
<1> USE DEF Imu!ImuAssumption, Imu!Init
<1>1. calib_buf = [n |-> 0, good |-> 0, sum |-> 0] /\ imu_vel = [x |-> 0, z |-> 0]
      /\ calibrated = FALSE /\ moved = FALSE /\ seen = FALSE /\ pushed = FALSE
      /\ last_t \in Int
  BY DEF Imu!NoSamples, Imu!Zero, Imu!NoStamp
<1>2. calib_buf \in [n : Int, good : Int, sum : Int] /\ imu_vel \in Imu!Vectors
  BY <1>1 DEF Imu!Vectors
<1>3. tilt \in -MaxTilt..MaxTilt /\ now \in 0..MaxTicks /\ failures \in 0..MaxFailures
      /\ gravity \in 1..CalibSamples /\ 0 \in 0..CalibSamples /\ 0 < CalibSamples
  OBVIOUS
<1>4. calib_buf.n \in 0..CalibSamples /\ calib_buf.good \in 0..calib_buf.n /\ skew \in Skews
  BY <1>1, <1>3
<1>5. calibrated \in BOOLEAN /\ moved \in BOOLEAN /\ seen \in BOOLEAN /\ pushed \in BOOLEAN
      /\ attitude \in Int
  BY <1>1
<1>6. Imu!TypeOK
  BY <1>1, <1>2, <1>3, <1>4, <1>5 DEF Imu!TypeOK
<1> QED BY <1>1, <1>2, <1>3, <1>6 DEF ImuInv, Imu!Tracked, Imu!StaysPut, Imu!Zero

\* The types of a tick, and of what the sensor reads at it.
LEMMA TickTypes ==
    ASSUME Imu!ImuAssumption, ImuInv, NEW rate \in Rates, Imu!Tick(rate)
    PROVE  /\ now' \in 0..MaxTicks /\ tilt' \in -MaxTilt..MaxTilt
           /\ rate \in Int /\ now' \in Int /\ tilt' \in Int
           /\ tilt' = tilt + rate /\ tilt \in Int
<1>1. rate \in Int /\ now \in Int /\ tilt \in Int /\ now >= 0
  BY DEF Imu!ImuAssumption, ImuInv, Imu!TypeOK
<1> QED BY <1>1 DEF Imu!Tick, Imu!ImuAssumption, Imu!Magnitude

LEMMA ReadingTypes ==
    ASSUME Imu!ImuAssumption, NEW rate \in Rates, tilt' \in Int,
           NEW r \in Imu!Readings(rate)
    PROVE  r.rate = rate /\ r.rate \in Int /\ r.x \in Int /\ r.good \in BOOLEAN
<1> DEFINE fine == [rate : {rate}, x : {tilt' + push : push \in Pushes}, good : {TRUE}]
           failed == [rate : {rate}, x : {0}, good : {FALSE}]
<1>1. r \in fine \/ r \in failed
  BY DEF Imu!Readings
<1>2. rate \in Int /\ \A push \in Pushes : tilt' + push \in Int
  BY DEF Imu!ImuAssumption
<1>3. CASE r \in fine
  <2>1. r.rate = rate /\ r.good = TRUE /\ r.x \in {tilt' + push : push \in Pushes}
    BY <1>3
  <2>2. r.good \in BOOLEAN
    BY <2>1, Zenon
  <2> QED BY <1>2, <2>1, <2>2
<1>4. CASE r \in failed
  <2>1. r.rate = rate /\ r.good = FALSE /\ r.x = 0
    BY <1>4
  <2>2. r.good \in BOOLEAN
    BY <2>1, Zenon
  <2> QED BY <1>2, <2>1, <2>2
<1> QED BY <1>1, <1>3, <1>4

\* One more sample.
LEMMA SampleJoins ==
    ASSUME Imu!ImuAssumption, ImuInv, NEW rate \in Rates, tilt' \in Int,
           NEW r \in Imu!Readings(rate)
    PROVE  LET more == Imu!Sampled(r) IN
           /\ more \in [n : Int, good : Int, sum : Int]
           /\ more.n = calib_buf.n + 1 /\ more.n >= 1
           /\ more.good \in 0..more.n
           /\ more.sum = calib_buf.sum + r.x
           /\ r.good => more.good = calib_buf.good + 1
<1>1. r.x \in Int
  BY ReadingTypes
<1>2. (IF r.good THEN 1 ELSE 0) \in {0, 1}
  OBVIOUS
<1>3. /\ calib_buf.n \in Int /\ calib_buf.good \in Int /\ calib_buf.sum \in Int
      /\ calib_buf.n >= 0 /\ calib_buf.good \in 0..calib_buf.n
  BY DEF ImuInv, Imu!TypeOK, Imu!ImuAssumption
<1> QED BY <1>1, <1>2, <1>3 DEF Imu!Sampled

\* Integrating a reading: what it makes of the attitude, and that there is
\* nothing left of the acceleration of a rover whose attitude is known.
LEMMA Integrates ==
    ASSUME Imu!ImuAssumption, ImuInv, NEW rate \in Rates, tilt' \in Int,
           NEW r \in Imu!Readings(rate), NEW att \in Int, NEW g \in 1..CalibSamples,
           NEW dt \in Int, Imu!Integrate(att, g, r, dt)
    PROVE  /\ attitude' = att + (CalibSamples * r.rate) * dt /\ attitude' \in Int
           /\ gravity' = g
           /\ imu_vel' \in Imu!Vectors /\ moved' \in BOOLEAN
           /\ (/\ attitude' = CalibSamples * tilt' /\ gravity' = CalibSamples
               /\ r.good /\ r.x = tilt' /\ imu_vel = Imu!Zero /\ ~moved)
                 => imu_vel' = Imu!Zero /\ ~moved'
<1> DEFINE att2 == att + (CalibSamples * r.rate) * dt
           ax == (CalibSamples * r.x) - (IF r.good THEN att2 ELSE 0)
           az == (IF r.good THEN CalibSamples ELSE 0) - g
           acc == [x |-> ax, z |-> az]
           static == r.rate = 0 /\ acc = Imu!Zero
           vx == ax * dt
           vz == az * dt
           v == IF static THEN Imu!Zero ELSE [x |-> imu_vel.x + vx, z |-> imu_vel.z + vz]
<1>1. /\ attitude' = att2 /\ gravity' = g
      /\ imu_vel' = v /\ moved' = (moved \/ v # Imu!Zero)
  BY DEF Imu!Integrate
<1>2. CalibSamples \in Int /\ r.rate \in Int /\ r.x \in Int /\ r.good \in BOOLEAN /\ g \in Int
  BY ReadingTypes DEF Imu!ImuAssumption
<1>3. att2 \in Int
  BY <1>2, ProductIsInt
<1>4. ax \in Int /\ az \in Int
  <2> HIDE DEF att2
  <2> QED BY <1>2, <1>3, ProductIsInt
<1>5. (r.good /\ g = CalibSamples => az = 0)
      /\ (r.good /\ r.x = tilt' /\ att2 = CalibSamples * tilt' => ax = 0)
  <2> HIDE DEF att2
  <2> DEFINE known == CalibSamples * tilt'
  <2>1. known \in Int
    BY <1>2, ProductIsInt
  <2>2. r.x = tilt' => CalibSamples * r.x = known
    OBVIOUS
  <2> HIDE DEF known
  <2>3. ASSUME r.good, r.x = tilt', att2 = known PROVE ax = 0
    <3>1. CalibSamples * r.x = att2
      BY <2>2, <2>3
    <3> QED BY <1>3, <2>3, <3>1
  <2>4. ASSUME r.good, g = CalibSamples PROVE az = 0
    BY <1>2, <2>4
  <2> QED BY <2>3, <2>4 DEF known
<1> HIDE DEF att2, ax, az
<1>6. vx \in Int /\ vz \in Int /\ (ax = 0 => vx = 0) /\ (az = 0 => vz = 0)
  BY <1>4, ProductIsInt
<1> HIDE DEF vx, vz
<1>7. v \in Imu!Vectors
  BY <1>6 DEF Imu!Vectors, Imu!Zero, ImuInv, Imu!TypeOK
<1>8. (ax = 0 /\ az = 0 /\ imu_vel = Imu!Zero) => v = Imu!Zero
  BY <1>6 DEF Imu!Zero
<1> HIDE DEF v
<1>9. moved' \in BOOLEAN
  BY <1>1 DEF ImuInv, Imu!TypeOK
<1>10. attitude' = att + (CalibSamples * r.rate) * dt
  BY <1>1 DEF att2
<1> QED BY <1>1, <1>3, <1>5, <1>7, <1>8, <1>9, <1>10

\* A sample was of a rover at rest, or it does not count as seen.
LEMMA SeenAtRest ==
    ASSUME Imu!ImuAssumption, ImuInv, NEW rate \in Rates, Imu!Tick(rate),
           NEW r \in Imu!Readings(rate), ~calibrated,
           calib_buf = Imu!NoSamples \/ seen, Imu!AtRest(r)
    PROVE  /\ tilt' = tilt /\ ~Imu!Moving(r)
           /\ LET more == Imu!Sampled(r) IN
                more.sum = more.n * tilt' /\ more.good = more.n
<1>1. r.rate = 0 /\ rate = 0 /\ r.good /\ r.x = tilt'
  BY TickTypes, ReadingTypes DEF Imu!AtRest
<1>2. tilt' = tilt /\ tilt \in Int
  BY <1>1, TickTypes
<1>3. ~Imu!Moving(r)
  BY <1>1 DEF Imu!Moving, Imu!Magnitude, Imu!ImuAssumption
<1>4. calib_buf.sum = calib_buf.n * tilt /\ calib_buf.good = calib_buf.n
  BY <1>2 DEF Imu!NoSamples, ImuInv
<1>5. calib_buf.n * tilt + tilt = (calib_buf.n + 1) * tilt
  BY <1>2 DEF ImuInv
<1> QED BY <1>1, <1>2, <1>3, <1>4, <1>5, SampleJoins

\* The four ways of imu_cb, each with what seen and pushed become.
LEMMA ImuDrops ==
    ASSUME Imu!ImuAssumption, ImuInv, NEW rate \in Rates, Imu!Tick(rate),
           UNCHANGED <<calib_buf, calibrated, attitude, gravity, imu_vel, moved>>,
           seen' = (seen /\ rate = 0),
           pushed' \in BOOLEAN, calibrated /\ ~pushed' => ~pushed,
           last_t' \in Int, skew' \in Skews, failures' \in 0..MaxFailures
    PROVE  ImuInv'
<1>1. /\ now' \in 0..MaxTicks /\ tilt' \in -MaxTilt..MaxTilt
      /\ rate = 0 => tilt' = tilt
  BY TickTypes
<1>2. Imu!TypeOK'
  BY <1>1 DEF ImuInv, Imu!TypeOK
<1> QED BY <1>1, <1>2 DEF ImuInv, Imu!Tracked, Imu!StaysPut

LEMMA ImuCollects ==
    ASSUME Imu!ImuAssumption, ImuInv, NEW rate \in Rates, Imu!Tick(rate),
           NEW r \in Imu!Readings(rate), ~calibrated, ~Imu!Completes(r), Imu!Collect(r),
           UNCHANGED <<calibrated, attitude, gravity, imu_vel, moved>>,
           seen' = ((calib_buf = Imu!NoSamples \/ seen) /\ Imu!AtRest(r)),
           pushed' = FALSE,
           last_t' \in Int, skew' \in Skews, failures' \in 0..MaxFailures
    PROVE  ImuInv'
<1> DEFINE more == Imu!Sampled(r)
<1>1. /\ now' \in 0..MaxTicks /\ tilt' \in -MaxTilt..MaxTilt /\ tilt' \in Int
  BY TickTypes
<1>2. /\ more \in [n : Int, good : Int, sum : Int]
      /\ more.n >= 1 /\ more.good \in 0..more.n
  BY <1>1, SampleJoins
<1>3. seen' => more.sum = more.n * tilt' /\ more.good = more.n
  BY SeenAtRest
<1>4. calib_buf' = Imu!NoSamples \/ (calib_buf' = more /\ more.n < CalibSamples)
  BY <1>2 DEF Imu!Collect, Imu!ImuAssumption
<1> HIDE DEF more
<1>5. /\ calib_buf' \in [n : Int, good : Int, sum : Int]
      /\ calib_buf'.n \in 0..CalibSamples /\ calib_buf'.good \in 0..calib_buf'.n
      /\ calib_buf'.n < CalibSamples
      /\ seen' => calib_buf'.sum = calib_buf'.n * tilt' /\ calib_buf'.good = calib_buf'.n
  <2>1. CASE calib_buf' = Imu!NoSamples
    <3>1. calib_buf'.n = 0 /\ calib_buf'.good = 0 /\ calib_buf'.sum = 0
          /\ calib_buf' \in [n : Int, good : Int, sum : Int]
      BY <2>1 DEF Imu!NoSamples
    <3>2. CalibSamples \in Int /\ 0 < CalibSamples
      BY DEF Imu!ImuAssumption
    <3>3. 0 * tilt' = 0
      BY <1>1, ZeroTimes
    <3> QED BY <3>1, <3>2, <3>3
  <2>2. CASE calib_buf' = more /\ more.n < CalibSamples
    <3>1. CalibSamples \in Int
      BY DEF Imu!ImuAssumption
    <3> QED BY <1>2, <1>3, <2>2, <3>1
  <2> QED BY <1>4, <2>1, <2>2
<1>6. seen' \in BOOLEAN
  BY Zenon
<1>7. Imu!TypeOK'
  BY <1>1, <1>5, <1>6 DEF ImuInv, Imu!TypeOK
<1> QED BY <1>5, <1>7 DEF ImuInv, Imu!Tracked, Imu!StaysPut

\* The sample that completes the calibration.
LEMMA ImuCalibrates ==
    ASSUME Imu!ImuAssumption, ImuInv, NEW rate \in Rates, Imu!Tick(rate),
           NEW r \in Imu!Readings(rate), ~calibrated, Imu!Completes(r), NEW dt \in Int,
           calibrated' = TRUE, calib_buf' = Imu!Sampled(r),
           Imu!Integrate(Imu!MeanTilt(Imu!Sampled(r)), Imu!Sampled(r).good, r, dt),
           seen' = ((calib_buf = Imu!NoSamples \/ seen) /\ Imu!AtRest(r)),
           pushed' = FALSE,
           last_t' \in Int, skew' \in Skews, failures' \in 0..MaxFailures
    PROVE  ImuInv'
<1> DEFINE more == Imu!Sampled(r)
<1>1. /\ now' \in 0..MaxTicks /\ tilt' \in -MaxTilt..MaxTilt /\ tilt' \in Int
      /\ CalibSamples \in Int /\ CalibSamples > 0
  BY TickTypes DEF Imu!ImuAssumption
<1>2. /\ more \in [n : Int, good : Int, sum : Int]
      /\ more.n = calib_buf.n + 1 /\ more.n >= 1 /\ more.good \in 0..more.n
  BY <1>1, SampleJoins
<1>3. more.n = CalibSamples /\ 10 * more.good >= more.n
  <2>1. more.n >= CalibSamples /\ ~(10 * more.good < more.n)
    BY DEF Imu!Completes, Imu!TooSmall
  <2>2. calib_buf.n < CalibSamples /\ calib_buf.n \in Int
    BY DEF ImuInv
  <2> HIDE DEF more
  <2> QED BY <1>1, <1>2, <2>1, <2>2
<1>4. Imu!MeanTilt(more) \in Int /\ more.good \in 1..CalibSamples
  <2> HIDE DEF more
  <2>1. more.good \in 1..CalibSamples
    BY <1>1, <1>2, <1>3
  <2>2. CalibSamples * more.sum \in Int
    BY <1>1, <1>2, ProductIsInt
  <2> QED BY <2>1, <2>2 DEF Imu!MeanTilt
<1>5. /\ attitude' = Imu!MeanTilt(more) + (CalibSamples * r.rate) * dt /\ attitude' \in Int
      /\ gravity' = more.good
      /\ imu_vel' \in Imu!Vectors /\ moved' \in BOOLEAN
      /\ (/\ attitude' = CalibSamples * tilt' /\ gravity' = CalibSamples
          /\ r.good /\ r.x = tilt' /\ imu_vel = Imu!Zero /\ ~moved)
            => imu_vel' = Imu!Zero /\ ~moved'
  BY <1>1, <1>4, Integrates
<1>6. ASSUME seen'
      PROVE  attitude' = CalibSamples * tilt' /\ gravity' = CalibSamples
             /\ imu_vel' = Imu!Zero /\ ~moved'
  <2>1. /\ more.sum = more.n * tilt' /\ more.good = more.n
        /\ Imu!AtRest(r)
    BY <1>6, SeenAtRest
  <2>2. r.rate = 0 /\ r.good /\ r.x = tilt'
    BY <2>1 DEF Imu!AtRest
  <2> HIDE DEF more
  <2>3. Imu!MeanTilt(more) = (CalibSamples * (CalibSamples * tilt')) \div CalibSamples
    BY <1>3, <2>1 DEF Imu!MeanTilt
  <2>4. CalibSamples * tilt' \in Int
    BY <1>1, ProductIsInt
  <2>5. \A k \in Int : (CalibSamples * k) \div CalibSamples = k
    BY <1>1
  <2>6. Imu!MeanTilt(more) = CalibSamples * tilt'
    BY <2>3, <2>4, <2>5
  <2>7. attitude' = CalibSamples * tilt'
    <3> DEFINE known == CalibSamples * tilt'
    <3>1. (CalibSamples * 0) * dt = 0
      BY <1>1
    <3>2. attitude' = known + 0
      BY <1>5, <2>2, <2>6, <3>1
    <3> HIDE DEF known
    <3>3. attitude' = known
      BY <2>4, <3>2 DEF known
    <3> QED BY <3>3 DEF known
  <2> QED BY <1>3, <1>5, <2>1, <2>2, <2>7 DEF ImuInv
<1> HIDE DEF more
<1>7. seen' \in BOOLEAN
  BY Zenon
<1>8. calib_buf' = more /\ calib_buf'.n \in 0..CalibSamples /\ calib_buf'.good \in 0..calib_buf'.n
  BY <1>1, <1>2, <1>3 DEF more
<1>9. Imu!TypeOK'
  BY <1>1, <1>4, <1>5, <1>7, <1>8 DEF ImuInv, Imu!TypeOK
<1> QED BY <1>2, <1>6, <1>8, <1>9 DEF ImuInv, Imu!Tracked, Imu!StaysPut

\* A reading of a node that was calibrated.
LEMMA ImuReckons ==
    ASSUME Imu!ImuAssumption, ImuInv, NEW rate \in Rates, Imu!Tick(rate),
           NEW r \in Imu!Readings(rate), calibrated, NEW dt \in Int,
           Imu!Integrate(attitude, gravity, r, dt),
           UNCHANGED <<calib_buf, calibrated>>,
           seen' = (seen /\ (rate = 0 \/ dt = 1)),
           pushed' = (pushed \/ r.x # tilt' \/ ~r.good),
           last_t' \in Int, skew' \in Skews, failures' \in 0..MaxFailures
    PROVE  ImuInv'
<1>1. /\ now' \in 0..MaxTicks /\ tilt' \in -MaxTilt..MaxTilt /\ tilt' \in Int
      /\ rate \in Int /\ tilt \in Int /\ tilt' = tilt + rate /\ r.rate = rate
      /\ CalibSamples \in Int /\ attitude \in Int /\ gravity \in 1..CalibSamples
  BY TickTypes, ReadingTypes DEF Imu!ImuAssumption, ImuInv, Imu!TypeOK
<1>2. /\ attitude' = attitude + (CalibSamples * r.rate) * dt /\ attitude' \in Int
      /\ gravity' = gravity
      /\ imu_vel' \in Imu!Vectors /\ moved' \in BOOLEAN
      /\ (/\ attitude' = CalibSamples * tilt' /\ gravity' = CalibSamples
          /\ r.good /\ r.x = tilt' /\ imu_vel = Imu!Zero /\ ~moved)
            => imu_vel' = Imu!Zero /\ ~moved'
  BY <1>1, Integrates
<1>3. ASSUME seen'
      PROVE  attitude' = CalibSamples * tilt' /\ gravity' = CalibSamples
  <2>1. seen /\ attitude = CalibSamples * tilt /\ gravity = CalibSamples
    BY <1>3 DEF ImuInv, Imu!Tracked
  <2>2. (CalibSamples * rate) * dt = CalibSamples * rate
    <3> DEFINE part1 == CalibSamples * rate
    <3>1. part1 \in Int
      BY <1>1, ProductIsInt
    <3>2. CASE rate = 0
      BY <1>1, <3>2
    <3>3. CASE dt = 1
      <4> HIDE DEF part1
      <4>1. part1 * dt = part1
        BY <3>1, <3>3
      <4> QED BY <4>1 DEF part1
    <3> QED BY <1>3, <3>2, <3>3
  <2>3. CalibSamples * tilt + CalibSamples * rate = CalibSamples * (tilt + rate)
    BY <1>1
  <2> QED BY <1>1, <1>2, <2>1, <2>2, <2>3
<1>4. ASSUME seen', ~pushed'
      PROVE  imu_vel' = Imu!Zero /\ ~moved'
  <2>1. seen /\ ~pushed /\ r.x = tilt' /\ r.good
    BY <1>4
  <2> QED BY <1>2, <1>3, <1>4, <2>1 DEF ImuInv, Imu!StaysPut
<1>5. seen' \in BOOLEAN /\ pushed' \in BOOLEAN
  BY Zenon
<1>6. Imu!TypeOK'
  BY <1>1, <1>2, <1>5 DEF ImuInv, Imu!TypeOK
<1> QED BY <1>3, <1>4, <1>6 DEF ImuInv, Imu!Tracked, Imu!StaysPut

LEMMA ImuKeeps ==
    ASSUME Imu!ImuAssumption, ImuInv, [Imu!Next]_(Imu!vars) PROVE ImuInv'
<1>1. CASE UNCHANGED Imu!vars
  BY <1>1 DEF Imu!vars, Imu!rover, Imu!node, ImuInv, Imu!TypeOK, Imu!Tracked, Imu!StaysPut
<1>2. ASSUME NEW rate \in Rates, Imu!Lost(rate) PROVE ImuInv'
  <2>1. /\ Imu!Tick(rate) /\ seen' = (seen /\ rate = 0)
        /\ UNCHANGED <<skew, failures, last_t, pushed>>
        /\ UNCHANGED <<calib_buf, calibrated, attitude, gravity, imu_vel, moved>>
    BY <1>2 DEF Imu!Lost, Imu!node
  <2> QED BY <2>1, ImuDrops DEF ImuInv, Imu!TypeOK
<1>3. ASSUME NEW rate \in Rates, Imu!Reading(rate) PROVE ImuInv'
  <2>1. PICK r \in Imu!Readings(rate) :
           /\ r.good \/ failures < MaxFailures
           /\ failures' = failures + IF r.good THEN 0 ELSE 1
           /\ Imu!imu_cb(now' + skew', r)
           /\ seen' = IF Imu!Dropped(now' + skew') THEN seen /\ rate = 0
                      ELSE IF calibrated THEN seen /\ (rate = 0 \/ now' + skew' = last_t + 1)
                      ELSE (calib_buf = Imu!NoSamples \/ seen) /\ Imu!AtRest(r)
           /\ pushed' = (calibrated /\ (pushed \/ r.x # tilt' \/ ~r.good))
    BY <1>3 DEF Imu!Reading
  <2> DEFINE stamp == now' + skew'
             dt == stamp - last_t
  <2>2. Imu!Tick(rate) /\ skew' \in Skews
    BY <1>3 DEF Imu!Reading
  <2>3. stamp \in Int /\ last_t \in Int /\ dt \in Int
    <3>1. now' \in Int /\ skew' \in Int /\ last_t \in Int
      BY <2>2, TickTypes DEF Imu!ImuAssumption, ImuInv, Imu!TypeOK
    <3> QED BY <3>1
  <2>4. failures' \in 0..MaxFailures
    BY <2>1 DEF Imu!ImuAssumption, ImuInv, Imu!TypeOK
  <2>5. last_t' = stamp
    BY <2>1 DEF Imu!imu_cb
  <2>6. CASE Imu!Dropped(stamp)
    <3>1. UNCHANGED <<calib_buf, calibrated, attitude, gravity, imu_vel, moved>>
      BY <2>1, <2>6 DEF Imu!imu_cb
    <3>2. pushed' \in BOOLEAN /\ (calibrated /\ ~pushed' => ~pushed)
      BY <2>1, Zenon
    <3> QED BY <2>1, <2>2, <2>3, <2>4, <2>5, <2>6, <3>1, <3>2, ImuDrops
  <2>7. CASE ~Imu!Dropped(stamp) /\ calibrated
    <3>1. Imu!Integrate(attitude, gravity, r, dt) /\ UNCHANGED <<calib_buf, calibrated>>
      BY <2>1, <2>7 DEF Imu!imu_cb
    <3>2. stamp = last_t + 1 <=> dt = 1
      BY <2>3
    <3>3. seen' = (seen /\ (rate = 0 \/ dt = 1))
      <4> HIDE DEF stamp, dt
      <4> QED BY <2>1, <2>7, <3>2 DEF stamp
    <3>4. pushed' = (pushed \/ r.x # tilt' \/ ~r.good)
      BY <2>1, <2>7
    <3> QED BY <2>2, <2>3, <2>4, <2>5, <2>7, <3>1, <3>3, <3>4, ImuReckons
  <2>8. CASE ~Imu!Dropped(stamp) /\ ~calibrated
    <3>1. /\ seen' = ((calib_buf = Imu!NoSamples \/ seen) /\ Imu!AtRest(r))
          /\ pushed' = FALSE
      BY <2>1, <2>8
    <3>2. CASE Imu!Completes(r)
      <4>1. /\ calibrated' = TRUE /\ calib_buf' = Imu!Sampled(r)
            /\ Imu!Integrate(Imu!MeanTilt(Imu!Sampled(r)), Imu!Sampled(r).good, r, dt)
        BY <2>1, <2>8, <3>2 DEF Imu!imu_cb
      <4> QED BY <2>2, <2>3, <2>4, <2>5, <2>8, <3>1, <3>2, <4>1, ImuCalibrates
    <3>3. CASE ~Imu!Completes(r)
      <4>1. /\ Imu!Collect(r)
            /\ UNCHANGED <<calibrated, attitude, gravity, imu_vel, moved>>
        BY <2>1, <2>8, <3>3 DEF Imu!imu_cb
      <4> QED BY <2>2, <2>3, <2>4, <2>5, <2>8, <3>1, <3>3, <4>1, ImuCollects
    <3> QED BY <3>2, <3>3
  <2> QED BY <2>6, <2>7, <2>8
<1> QED BY <1>1, <1>2, <1>3 DEF Imu!Next

----------------------------------------------------------------------------
(* ImuNodes: yaw_bias_corrector, for any drift, turns and number of        *)
(* samples.  What the samples sum up to, less the drift they share, is     *)
(* what the rover turned while they were taken.                            *)

\* No further from zero than the rover turned in the samples.
WithinTurns(i) == -turned <= i /\ i <= turned

YawInv ==
    /\ Imu!YTypeOK
    /\ bias = None => count < BiasSamples /\ WithinTurns(sum - (count * drift))
    /\ bias # None => WithinTurns(bias - (BiasSamples * drift))
    /\ Imu!WrongByTurns

LEMMA Mirrored ==
    ASSUME NEW a \in Int, NEW t \in Nat, -t <= a, a <= t
    PROVE  -a \in Int /\ -a \in -t..t
OBVIOUS

LEMMA Opposite ==
    ASSUME NEW a \in Int, NEW b \in Int, NEW c \in Int, b - a = c
    PROVE  a - b = -c
OBVIOUS

LEMMA YawInits == ASSUME Imu!YawBiasAssumption, Imu!YInit PROVE YawInv
<1>1. drift \in Int /\ 0 * drift = 0 /\ BiasSamples \in Nat \ {0}
  BY ZeroTimes DEF Imu!YawBiasAssumption, Imu!YInit
<1> QED BY <1>1 DEF Imu!YInit, YawInv, Imu!YTypeOK, Imu!WrongByTurns, WithinTurns

LEMMA YawKeeps ==
    ASSUME Imu!YawBiasAssumption, YawInv, [Imu!YNext]_(Imu!yawVars) PROVE YawInv'
<1>1. CASE UNCHANGED Imu!yawVars
  BY <1>1 DEF Imu!yawVars, YawInv, Imu!YTypeOK, Imu!WrongByTurns, WithinTurns
<1>2. ASSUME NEW by \in Turns, Imu!cb(by) PROVE YawInv'
  <2> DEFINE spoiled == sum - (count * drift)
             all == BiasSamples * drift
             mine == BiasSamples * by
  <2>1. /\ drift' = drift /\ drift \in Drifts /\ drift \in Int /\ by \in Int
        /\ sum \in Int /\ count \in 0..BiasSamples /\ count \in Int /\ turned \in Nat
        /\ BiasSamples \in Nat /\ BiasSamples > 0 /\ None \notin Int
    BY <1>2 DEF Imu!YawBiasAssumption, YawInv, Imu!YTypeOK, Imu!cb
  <2>2. all \in Int /\ mine \in Int /\ spoiled \in Int /\ count * drift \in Int
        /\ BiasSamples * (by + drift) = mine + all
    BY <2>1, ProductIsInt
  <2>3. corrected' = BiasSamples * (by + drift) - (IF bias' = None THEN 0 ELSE bias') - mine
    BY <1>2 DEF Imu!cb
  <2>4. CASE bias # None
    <3>1. UNCHANGED <<sum, count, bias, turned>>
      BY <1>2, <2>4 DEF Imu!cb
    <3>2. bias \in Int /\ -turned <= bias - all /\ bias - all <= turned
      BY <2>4 DEF YawInv, Imu!YTypeOK, WithinTurns
    <3> HIDE DEF all, mine, spoiled
    <3>3. corrected' = all - bias
      BY <2>1, <2>2, <2>3, <3>1, <3>2
    <3>4. corrected' \in Int /\ corrected' \in -turned..turned
      BY <2>1, <2>2, <3>2, <3>3
    <3> QED BY <2>1, <2>4, <3>1, <3>2, <3>4
            DEF YawInv, Imu!YTypeOK, Imu!WrongByTurns, WithinTurns, all
  <2>5. CASE bias = None
    <3> DEFINE size == IF by < 0 THEN -by ELSE by
    <3>1. /\ sum' = sum + (by + drift) /\ count' = count + 1
          /\ bias' = IF count' >= BiasSamples THEN sum' ELSE None
          /\ turned' = turned + size
      BY <1>2, <2>5 DEF Imu!cb, Imu!Calibrate
    <3>2. count < BiasSamples /\ -turned <= spoiled /\ spoiled <= turned
      BY <2>5 DEF YawInv, WithinTurns
    <3>3. count' \in 0..BiasSamples /\ sum' \in Int /\ turned' \in Nat
      BY <2>1, <3>1, <3>2
    <3>4. (count + 1) * drift = (count * drift) + drift
      BY <2>1
    <3>5. /\ sum' - (count' * drift) = spoiled + by
      BY <2>1, <2>2, <3>1, <3>4
    <3>6. /\ -turned' <= spoiled + by /\ spoiled + by <= turned'
      <4> HIDE DEF spoiled
      <4> QED BY <2>1, <2>2, <3>1, <3>2
    <3>7. CASE count' >= BiasSamples
      <4>1. count' = BiasSamples /\ bias' = sum' /\ bias' # None
        BY <2>1, <3>1, <3>2, <3>3, <3>7
      <4>2. bias' - all = spoiled + by
        BY <3>5, <4>1
      <4> HIDE DEF spoiled, all, mine, size
      <4>3. corrected' = all - bias'
        BY <2>2, <2>3, <3>3, <4>1
      <4>4. corrected' \in Int /\ corrected' \in -turned'..turned'
        <5>1. corrected' = -(spoiled + by) /\ spoiled + by \in Int
          <6>1. bias' \in Int /\ spoiled + by \in Int
            BY <2>1, <2>2, <3>3, <4>1
          <6> QED BY <2>2, <4>2, <4>3, <6>1, Opposite
        <5> QED BY <3>3, <3>6, <5>1, Mirrored
      <4> QED BY <2>1, <3>3, <3>6, <4>1, <4>2, <4>4
              DEF YawInv, Imu!YTypeOK, Imu!WrongByTurns, WithinTurns, all
    <3>8. CASE ~(count' >= BiasSamples)
      <4>1. bias' = None /\ count' < BiasSamples
        BY <2>1, <3>1, <3>3, <3>8
      <4>2. corrected' \in Int
        <5> HIDE DEF all, mine
        <5> QED BY <2>2, <2>3, <4>1
      <4> QED BY <2>1, <3>3, <3>5, <3>6, <4>1, <4>2
              DEF YawInv, Imu!YTypeOK, Imu!WrongByTurns, WithinTurns
    <3> QED BY <3>7, <3>8
  <2> QED BY <2>4, <2>5
<1> QED BY <1>1, <1>2 DEF Imu!YNext

----------------------------------------------------------------------------
(* PoseSources, for any places, fixes, full turn and number of samples.    *)
(* What a node publishes differs from where the rover is by the origin it  *)
(* has pinned, and by nothing else.                                        *)

Position == [e : Int, n : Int]
Behind(p) == [e |-> -p.e, n |-> -p.n]

PoseInv ==
    /\ Pose!TypeOK /\ Pose!FacesAhead
    /\ buf.sum \in Position /\ (datum = Pose!Absent \/ datum \in Position)
    /\ ins_local # Pose!Absent =>
          /\ origin_localizer # Pose!Absent
          /\ ins_local = [e |-> -origin_localizer.y, n |-> -origin_localizer.x]
    /\ enu # Pose!Absent => origin_enu # Pose!Absent /\ enu.pos = Behind(origin_enu)
    /\ gps # Pose!Absent =>
          datum # Pose!Absent /\ (~gps.timed => gps.pos = Behind(datum))

\* From one pose to the next of the same source.
GoesTheSameWay ==
    /\ ins_local # Pose!Absent => ins_local' = ins_local
    /\ enu # Pose!Absent => enu'.pos = enu.pos
    /\ gps # Pose!Absent /\ ~gps.timed /\ ~gps'.timed => gps'.pos = gps.pos

LEMMA PositionsExist ==
    /\ \A p \in Position : p # Pose!Absent
    /\ \A p \in [x : Int, y : Int] : p # Pose!Absent
<1>1. ASSUME NEW p \in Position PROVE p # Pose!Absent
  <2>1. DOMAIN p = {"e", "n"} /\ DOMAIN Pose!Absent = {"none"}
    BY DEF Position, Pose!Absent
  <2> QED BY <2>1
<1>2. ASSUME NEW p \in [x : Int, y : Int] PROVE p # Pose!Absent
  <2>1. DOMAIN p = {"x", "y"} /\ DOMAIN Pose!Absent = {"none"}
    BY DEF Pose!Absent
  <2> QED BY <2>1
<1> QED BY <1>1, <1>2

LEMMA PoseTypes ==
    ASSUME Pose!PoseAssumption, PoseInv
    PROVE  /\ spot \in Position /\ Places \subseteq Position
           /\ spot.e \in Int /\ spot.n \in Int
           /\ heading \in Int /\ turn \in Int /\ turn \in {-1, 0, 1}
           /\ Circle \in Nat /\ Circle > 0
           /\ DatumSamples \in Nat /\ DatumSamples > 0
BY DEF Pose!PoseAssumption, PoseInv, Pose!TypeOK, Position

LEMMA PoseInits == ASSUME Pose!PoseAssumption, Pose!Init PROVE PoseInv
<1>1. /\ buf = [n |-> 0, sum |-> [e |-> 0, n |-> 0]]
      /\ 0 \in 0..DatumSamples - 1 /\ 0 \in 0..Circle - 1
  BY DEF Pose!PoseAssumption, Pose!Init, Pose!Here
<1>2. buf.n = 0 /\ buf.sum \in Position
  BY <1>1 DEF Position
<1> QED BY <1>1, <1>2 DEF Pose!Init, PoseInv, Pose!TypeOK, Pose!FacesAhead

\* The sensor looks back, and ned_to_enu turns its yaw about: together they
\* make whole turns.
LEMMA WholeTurns ==
    ASSUME NEW c \in Nat, c > 0, c % 4 = 0, NEW h \in 0..c - 1
    PROVE  LET yaw == (((c \div 4) - h) + (c \div 2)) % c
           IN  (((c \div 4) - (yaw + (c \div 2))) - h) % c = 0
<1> DEFINE q == c \div 4
           yaw == (((c \div 4) - h) + (c \div 2)) % c
<1>1. q \in Int /\ c = 4 * q /\ c \div 2 = 2 * q /\ q > 0
  OBVIOUS
<1>2. yaw = ((3 * q) - h) % c
  <2>1. ((c \div 4) - h) + (c \div 2) = (3 * q) - h
    BY <1>1
  <2> QED BY <2>1
<1>3. yaw = (3 * q) - h \/ yaw = ((3 * q) - h) + c
  <2>1. CASE h <= 3 * q
    <3>1. (3 * q) - h \in 0..c - 1
      BY <1>1, <2>1
    <3>2. \A i \in 0..c - 1 : i % c = i
      OBVIOUS
    <3> QED BY <1>2, <3>1, <3>2
  <2>2. CASE h > 3 * q
    <3>1. ((3 * q) - h) + c \in 0..c - 1
      BY <1>1, <2>2
    <3>2. \A i \in Int : i + c \in 0..c - 1 => i % c = i + c
      OBVIOUS
    <3>3. (3 * q) - h \in Int
      BY <1>1
    <3> QED BY <1>2, <3>1, <3>2, <3>3
  <2> QED BY <1>1, <2>1, <2>2
<1> HIDE DEF yaw
<1>4. ((c \div 4) - (yaw + (c \div 2))) - h \in {-c, -(2 * c)}
  <2> HIDE DEF q
  <2>1. c \div 4 = q
    BY DEF q
  <2> QED BY <1>1, <1>3, <2>1
<1>5. (-c) % c = 0 /\ (-(2 * c)) % c = 0
  OBVIOUS
<1> QED BY <1>4, <1>5 DEF yaw

LEMMA InsToLocalKeeps ==
    ASSUME Pose!PoseAssumption, PoseInv, Pose!InsToLocal
    PROVE  PoseInv' /\ GoesTheSameWay
<1> DEFINE o == IF origin_localizer = Pose!Absent THEN [x |-> spot.n, y |-> spot.e]
                ELSE origin_localizer
<1>1. /\ origin_localizer' = o
      /\ ins_local' = [e |-> (spot.e - o.y) - spot.e, n |-> (spot.n - o.x) - spot.n]
      /\ UNCHANGED <<spot, heading, turn, origin_enu, buf, datum, enu, imu, gps>>
  BY DEF Pose!InsToLocal, Pose!ins_localizer_cb, Pose!Ins, Pose!Minus, Pose!rover
<1>2. o \in [x : Int, y : Int] /\ o.x \in Int /\ o.y \in Int
  BY PoseTypes DEF PoseInv, Pose!TypeOK
<1>3. o # Pose!Absent
  BY <1>2, PositionsExist
<1>4. ins_local' = [e |-> -o.y, n |-> -o.x]
  <2>1. (spot.e - o.y) - spot.e = -o.y /\ (spot.n - o.x) - spot.n = -o.x
    BY <1>2, PoseTypes
  <2> QED BY <1>1, <2>1
<1>5. ins_local # Pose!Absent => ins_local' = ins_local
  BY <1>4 DEF PoseInv
<1> HIDE DEF o
<1>6. PoseInv'
  BY <1>1, <1>2, <1>3, <1>4 DEF PoseInv, Pose!TypeOK, Pose!FacesAhead
<1> QED BY <1>1, <1>5, <1>6 DEF GoesTheSameWay

LEMMA InsToEnuKeeps ==
    ASSUME Pose!PoseAssumption, PoseInv, Pose!InsToEnu
    PROVE  PoseInv' /\ GoesTheSameWay
<1> DEFINE p == [e |-> spot.e, n |-> spot.n]
           o == IF origin_enu = Pose!Absent THEN p ELSE origin_enu
           yaw == (((Circle \div 4) - heading) + (Circle \div 2)) % Circle
           faced == (((Circle \div 4) - (yaw + (Circle \div 2))) - heading) % Circle
           pos == [e |-> (spot.e - o.e) - spot.e, n |-> (spot.n - o.n) - spot.n]
           wz == -(-turn) - turn
<1>1. /\ origin_enu' = o
      /\ enu' = [pos |-> pos, yaw |-> faced, wz |-> wz]
      /\ UNCHANGED <<spot, heading, turn, origin_localizer, buf, datum, ins_local, imu, gps>>
  BY DEF Pose!InsToEnu, Pose!ned_to_enu_cb, Pose!Ins, Pose!Minus, Pose!rover
<1>2. o \in Position /\ o.e \in Int /\ o.n \in Int
  BY PoseTypes DEF PoseInv, Pose!TypeOK, Position
<1>3. o # Pose!Absent
  BY <1>2, PositionsExist
<1>4. pos = Behind(o)
  <2>1. (spot.e - o.e) - spot.e = -o.e /\ (spot.n - o.n) - spot.n = -o.n
    BY <1>2, PoseTypes
  <2> QED BY <2>1 DEF Behind
<1>5. faced = 0 /\ wz = 0
  <2>1. heading \in 0..Circle - 1 /\ Circle % 4 = 0
    BY DEF PoseInv, Pose!TypeOK, Pose!PoseAssumption
  <2> QED BY <2>1, PoseTypes, WholeTurns
<1> HIDE DEF faced, wz, pos
<1>6. enu'.pos = Behind(o) /\ enu'.yaw = 0 /\ enu'.wz = 0
  BY <1>1, <1>4, <1>5
<1>7. enu # Pose!Absent => enu'.pos = enu.pos
  BY <1>6 DEF PoseInv
<1> HIDE DEF o
<1>8. PoseInv'
  BY <1>1, <1>2, <1>3, <1>6 DEF PoseInv, Pose!TypeOK, Pose!FacesAhead, Position
<1> QED BY <1>1, <1>7, <1>8 DEF GoesTheSameWay

LEMMA ImuToEnuKeeps ==
    ASSUME Pose!PoseAssumption, PoseInv, Pose!ImuToEnu
    PROVE  PoseInv' /\ GoesTheSameWay
<1>1. /\ imu' = [wz |-> -(-turn) - turn]
      /\ UNCHANGED <<spot, heading, turn, origin_localizer, origin_enu, buf, datum,
                     ins_local, enu, gps>>
  BY DEF Pose!ImuToEnu, Pose!imu_enu_cb, Pose!Imu, Pose!rover, Pose!nodes
<1>2. -(-turn) - turn = 0
  BY PoseTypes
<1>3. imu'.wz = 0
  BY <1>1, <1>2
<1> QED BY <1>1, <1>3 DEF PoseInv, Pose!TypeOK, Pose!FacesAhead, GoesTheSameWay

LEMMA MoveKeeps ==
    ASSUME Pose!PoseAssumption, PoseInv, Pose!Move
    PROVE  PoseInv' /\ GoesTheSameWay
<1>1. /\ spot' \in Places /\ turn' \in {-1, 0, 1} /\ heading' = (heading + turn') % Circle
      /\ UNCHANGED <<origin_localizer, origin_enu, buf, datum, ins_local, enu, imu, gps>>
  BY DEF Pose!Move, Pose!nodes, Pose!published
<1>2. heading' \in 0..Circle - 1
  <2>1. heading + turn' \in Int
    BY <1>1, PoseTypes
  <2> QED BY <1>1, <2>1, PoseTypes
<1> QED BY <1>1, <1>2 DEF PoseInv, Pose!TypeOK, Pose!FacesAhead, GoesTheSameWay

\* What remains of a place when a multiple of it goes.
LEMMA Cancelled ==
    ASSUME NEW k \in Int, NEW a \in Int, NEW b \in Int
    PROVE  ((k * a) - b) - (k * a) = -b
<1> DEFINE c == k * a
<1>1. c \in Int
  BY ProductIsInt
<1> HIDE DEF c
<1>2. (c - b) - c = -b
  BY <1>1
<1> QED BY <1>2 DEF c

LEMMA GpsToOdomKeeps ==
    ASSUME Pose!PoseAssumption, PoseInv, Pose!GpsToOdom
    PROVE  PoseInv' /\ GoesTheSameWay
<1>1. PICK type \in Fixes : Pose!gps_odom_cb(Pose!Fix(type))
  BY DEF Pose!GpsToOdom
<1> DEFINE msg == Pose!Fix(type)
           more == [n |-> buf.n + 1, sum |-> [e |-> buf.sum.e + msg.pos.e,
                                              n |-> buf.sum.n + msg.pos.n]]
<1>2. UNCHANGED <<spot, heading, turn, origin_localizer, origin_enu, ins_local, enu, imu>>
  BY DEF Pose!GpsToOdom, Pose!rover
<1>3. msg.pos \in Position /\ msg.pos.e \in Int /\ msg.pos.n \in Int
      /\ (type # Pose!TimeOnly => msg.pos = spot) /\ msg.fix_type = type
  BY PoseTypes DEF Pose!Fix, Pose!Here, Position
<1>4. \/ datum = Pose!Absent /\ more.n < DatumSamples /\ buf' = more /\ UNCHANGED <<datum, gps>>
      \/ /\ datum = Pose!Absent /\ datum' = more.sum /\ gps' = gps
         /\ buf' = [n |-> 0, sum |-> [e |-> 0, n |-> 0]]
      \/ /\ datum # Pose!Absent /\ UNCHANGED <<buf, datum>>
         /\ gps' = [pos |-> Pose!Minus(Pose!Minus(Pose!Times(DatumSamples, msg.pos), datum),
                                       Pose!Times(DatumSamples, spot)),
                    timed |-> msg.fix_type = Pose!TimeOnly]
  BY <1>1 DEF Pose!gps_odom_cb, Pose!Plus, Pose!Here
<1>5. more.n \in Int /\ more.n = buf.n + 1 /\ buf.n \in 0..DatumSamples - 1 /\ more.sum \in Position
      /\ [e |-> 0, n |-> 0] \in Position
  BY <1>3, PoseTypes DEF PoseInv, Pose!TypeOK, Position
<1>6. gps # Pose!Absent => datum # Pose!Absent
  BY DEF PoseInv
<1> HIDE DEF msg, more
<1>7. CASE datum = Pose!Absent /\ more.n < DatumSamples /\ buf' = more /\ UNCHANGED <<datum, gps>>
  <2>1. buf'.n \in 0..DatumSamples - 1 /\ buf'.sum \in Position
    BY <1>5, <1>7, PoseTypes
  <2> QED BY <1>2, <1>6, <1>7, <2>1
          DEF PoseInv, Pose!TypeOK, Pose!FacesAhead, GoesTheSameWay
<1>8. CASE /\ datum = Pose!Absent /\ datum' = more.sum /\ gps' = gps
           /\ buf' = [n |-> 0, sum |-> [e |-> 0, n |-> 0]]
  <2>1. buf'.n = 0 /\ buf'.n \in 0..DatumSamples - 1 /\ buf'.sum \in Position
    BY <1>5, <1>8, PoseTypes
  <2>2. datum' \in Position /\ gps = Pose!Absent
    BY <1>5, <1>6, <1>8
  <2> QED BY <1>2, <1>6, <1>8, <2>1, <2>2
          DEF PoseInv, Pose!TypeOK, Pose!FacesAhead, GoesTheSameWay
<1>9. CASE /\ datum # Pose!Absent /\ UNCHANGED <<buf, datum>>
           /\ gps' = [pos |-> Pose!Minus(Pose!Minus(Pose!Times(DatumSamples, msg.pos), datum),
                                         Pose!Times(DatumSamples, spot)),
                      timed |-> msg.fix_type = Pose!TimeOnly]
  <2>1. datum \in Position /\ datum.e \in Int /\ datum.n \in Int
    BY <1>9 DEF PoseInv, Position
  <2>2. gps'.timed = (type = Pose!TimeOnly)
    BY <1>3, <1>9
  <2>3. ~gps'.timed => gps'.pos = Behind(datum)
    <3> SUFFICES ASSUME ~gps'.timed PROVE gps'.pos = Behind(datum)
      OBVIOUS
    <3>1. msg.pos = spot
      BY <1>3, <2>2
    <3>2. gps'.pos = [e |-> ((DatumSamples * spot.e) - datum.e) - (DatumSamples * spot.e),
                      n |-> ((DatumSamples * spot.n) - datum.n) - (DatumSamples * spot.n)]
      BY <1>9, <3>1 DEF Pose!Minus, Pose!Times
    <3>3. /\ ((DatumSamples * spot.e) - datum.e) - (DatumSamples * spot.e) = -datum.e
          /\ ((DatumSamples * spot.n) - datum.n) - (DatumSamples * spot.n) = -datum.n
      BY <2>1, PoseTypes, Cancelled
    <3> QED BY <3>2, <3>3 DEF Behind
  <2>4. gps # Pose!Absent /\ ~gps.timed /\ ~gps'.timed => gps'.pos = gps.pos
    BY <2>3 DEF PoseInv
  <2>5. PoseInv'
    BY <1>2, <1>9, <2>1, <2>3 DEF PoseInv, Pose!TypeOK, Pose!FacesAhead
  <2> QED BY <1>2, <2>4, <2>5 DEF GoesTheSameWay
<1> QED BY <1>4, <1>7, <1>8, <1>9

LEMMA PoseKeeps ==
    ASSUME Pose!PoseAssumption, PoseInv, [Pose!Next]_(Pose!vars)
    PROVE  PoseInv' /\ [GoesTheSameWay]_(Pose!vars)
<1>1. CASE UNCHANGED Pose!vars
  BY <1>1 DEF Pose!vars, Pose!rover, Pose!nodes, Pose!published, PoseInv, Pose!TypeOK,
              Pose!FacesAhead
<1>2. CASE Pose!Next
  BY <1>2, MoveKeeps, InsToLocalKeeps, InsToEnuKeeps, ImuToEnuKeeps, GpsToOdomKeeps
     DEF Pose!Next
<1> QED BY <1>1, <1>2

----------------------------------------------------------------------------
(***************************************************************************)
(* WaypointExtractor, for any window, threshold and recording.  With one   *)
(* source the newest position of the buffer is where the rover is, and     *)
(* every other one is as many steps away as it is older: the mean of a     *)
(* full buffer lags behind by less than the steps of a window.             *)
(***************************************************************************)

LEMMA LeastNumber == ASSUME NEW S \in SUBSET Nat, S # {} PROVE \E i \in S : \A j \in S : i <= j
<1>1. IsWellFoundedOn(OpToRel(<, Nat), Nat)
  BY NatLessThanWellFounded
<1>2. PICK i \in S : \A j \in S : <<j, i>> \notin OpToRel(<, Nat)
  BY <1>1, WFMin, Zenon
<1>3. \A j \in S : ~(j < i)
  BY <1>2 DEF OpToRel
<1> QED BY <1>3

\* Induction up to a bound, over a set of numbers.
LEMMA CountUp ==
    ASSUME NEW m \in Nat, NEW S, 0 \in S, \A n \in S : n \in Nat /\ n < m => n + 1 \in S
    PROVE  \A n \in 0..m : n \in S
<1> DEFINE Rest == {n \in 0..m : n \notin S}
<1> SUFFICES ASSUME Rest # {} PROVE FALSE
  OBVIOUS
<1>1. PICK n \in Rest : \A k \in Rest : n <= k
  <2>1. Rest \in SUBSET Nat
    OBVIOUS
  <2> HIDE DEF Rest
  <2> QED BY <2>1, LeastNumber
<1>2. n \in Nat /\ n # 0 /\ n <= m /\ n \notin S
  OBVIOUS
<1>3. n - 1 \in Nat /\ n - 1 < m /\ n - 1 \notin Rest /\ (n - 1) + 1 = n
  BY <1>1, <1>2
<1>4. n - 1 \in S
  BY <1>2, <1>3
<1>5. (n - 1) + 1 \in S
  BY <1>3, <1>4
<1> QED BY <1>2, <1>3, <1>5

\* f sums up the first n numbers of s.
SumsUpTo(f, s, n) == f = [i \in 0..n |-> IF i = 0 THEN 0 ELSE f[i - 1] + s[i]]
SumsUp(f, s) == SumsUpTo(f, s, Len(s))

LEMMA SumsUpNext ==
    ASSUME NEW s \in Seq(Int), NEW f, SumsUp(f, s), NEW i \in Nat, i < Len(s)
    PROVE  f[0] = 0 /\ f[i + 1] = f[i] + s[i + 1]
<1> DEFINE k == i + 1
<1>1. k \in 0..Len(s) /\ 0 \in 0..Len(s) /\ k - 1 = i /\ k # 0
  OBVIOUS
<1> HIDE DEF k
<1>2. f[k] = f[k - 1] + s[k]
  BY <1>1 DEF SumsUp, SumsUpTo
<1>3. f[0] = 0
  BY <1>1 DEF SumsUp, SumsUpTo
<1>4. f[k] = f[i] + s[k]
  BY <1>1, <1>2
<1> QED BY <1>3, <1>4 DEF k

LEMMA SumExists ==
    ASSUME NEW s \in Seq(Int)
    PROVE  \E f : SumsUp(f, s) /\ Extract!Sum(s) = f[Len(s)]
<1>0. Len(s) \in Nat
  OBVIOUS
<1> DEFINE Begun == {n \in 0..Len(s) : \E g : SumsUpTo(g, s, n)}
           f == CHOOSE g : g = [i \in 0..Len(s) |-> IF i = 0 THEN 0 ELSE g[i - 1] + s[i]]
<1>1. ASSUME NEW n \in Nat, NEW g, SumsUpTo(g, s, n), n < Len(s) PROVE \E h : SumsUpTo(h, s, n + 1)
  <2> DEFINE h == [i \in 0..(n + 1) |-> IF i = n + 1 THEN g[n] + s[n + 1] ELSE g[i]]
             Step(k, i) == IF i = 0 THEN 0 ELSE k[i - 1] + s[i]
  <2>1. ASSUME NEW i \in 0..n PROVE h[i] = Step(h, i)
    <3>1. h[i] = g[i] /\ (i # 0 => h[i - 1] = g[i - 1])
      OBVIOUS
    <3>2. g[i] = Step(g, i)
      BY <1>1 DEF SumsUpTo
    <3> QED BY <3>1, <3>2
  <2>2. h[n + 1] = Step(h, n + 1)
    <3>1. h[n + 1] = g[n] + s[n + 1] /\ h[n] = g[n] /\ (n + 1) - 1 = n /\ n + 1 # 0
      OBVIOUS
    <3> QED BY <3>1
  <2>3. h = [i \in 0..(n + 1) |-> h[i]]
    OBVIOUS
  <2>4. \A i \in 0..(n + 1) : i \in 0..n \/ i = n + 1
    OBVIOUS
  <2>5. \A i \in 0..(n + 1) : h[i] = Step(h, i)
    BY <2>1, <2>2, <2>4
  <2> HIDE DEF h
  <2>6. SumsUpTo(h, s, n + 1)
    BY <2>3, <2>5 DEF SumsUpTo
  <2> QED BY <2>6
<1>2. SumsUpTo([i \in 0..0 |-> 0], s, 0)
  BY DEF SumsUpTo
<1>3. \E g : SumsUpTo(g, s, Len(s))
  <2>1. 0 \in Begun
    BY <1>0, <1>2
  <2>2. \A n \in Begun : n \in Nat /\ n < Len(s) => n + 1 \in Begun
    BY <1>0, <1>1
  <2> HIDE DEF Begun
  <2>3. Len(s) \in Begun
    BY <1>0, <2>1, <2>2, CountUp
  <2> QED BY <2>3 DEF Begun
<1>4. SumsUp(f, s)
  BY <1>3 DEF SumsUp, SumsUpTo
<1>5. Extract!Sum(s) = f[Len(s)]
  BY DEF Extract!Sum
<1> QED BY <1>4, <1>5

\* No further than k from each other.
Near(a, b, k) == a - b <= k /\ b - a <= k

LEMMA NearSum ==
    ASSUME NEW a \in Int, NEW b \in Int, NEW c \in Int, NEW d \in Int,
           NEW k \in Int, NEW l \in Int, Near(a, c, k), Near(d, b, l)
    PROVE  c + d \in Int /\ Near(a + b, c + d, k + l)
BY DEF Near

\* A sum of numbers near b is near as many times b.
LEMMA SumNear ==
    ASSUME NEW s \in Seq(Int), NEW b \in Int, NEW k \in Nat,
           \A i \in 1..Len(s) : Near(s[i], b, k)
    PROVE  /\ Extract!Sum(s) \in Int
           /\ Near(Len(s) * b, Extract!Sum(s), Len(s) * k)
<1>1. PICK f : SumsUp(f, s) /\ Extract!Sum(s) = f[Len(s)]
  BY SumExists
<1>2. Len(s) \in Nat
  OBVIOUS
<1> DEFINE Good == {i \in 0..Len(s) : f[i] \in Int /\ Near(i * b, f[i], i * k)}
<1>3. 0 \in Good
  <2>1. f[0] = 0
    BY <1>1, <1>2 DEF SumsUp, SumsUpTo
  <2>2. 0 * b = 0 /\ 0 * k = 0
    BY ZeroTimes
  <2> QED BY <1>2, <2>1, <2>2 DEF Near
<1>4. ASSUME NEW i \in Good, i \in Nat, i < Len(s) PROVE i + 1 \in Good
  <2> DEFINE ib == i * b
             ik == i * k
  <2>1. f[i + 1] = f[i] + s[i + 1]
    BY <1>1, <1>4, SumsUpNext
  <2>2. i + 1 \in 0..Len(s) /\ s[i + 1] \in Int /\ Near(s[i + 1], b, k)
    BY <1>4
  <2>3. ib \in Int /\ ik \in Int /\ (i + 1) * b = ib + b /\ (i + 1) * k = ik + k
    BY <1>4, ProductIsInt
  <2>4. f[i] \in Int /\ Near(ib, f[i], ik)
    OBVIOUS
  <2> HIDE DEF ib, ik
  <2>5. f[i + 1] \in Int /\ Near(ib + b, f[i + 1], ik + k)
    <3>1. k \in Int
      OBVIOUS
    <3>2. f[i] + s[i + 1] \in Int /\ Near(ib + b, f[i] + s[i + 1], ik + k)
      BY <2>2, <2>3, <2>4, <3>1, NearSum
    <3> QED BY <2>1, <3>2
  <2>6. Near((i + 1) * b, f[i + 1], (i + 1) * k)
    BY <2>3, <2>5
  <2> QED BY <2>2, <2>5, <2>6
<1> HIDE DEF Good
<1>5. Len(s) \in Good
  BY <1>2, <1>3, <1>4, CountUp
<1> QED BY <1>1, <1>5 DEF Good

\* How far apart two waypoints are, how far the newest position may be from
\* the rest of a full buffer, and how far from their sum.
Apart == SmoothWindow * DistanceThreshold
Drift == (SmoothWindow - 1) * MaxStep
Lag == SmoothWindow * Drift

Newest == position_buffer[Len(position_buffer)]
LastPlace == route[Len(route)]

ExtractTypes ==
    /\ used \in (SUBSET {"ins", "gps"}) \ {{}}
    /\ at \in -MaxPlace..MaxPlace /\ route \in Seq(Int) /\ Len(route) \in 0..MaxMessages
    /\ gps_origin \in Int \cup {None} /\ ins_origin \in Int \cup {None}
    /\ position_buffer \in Seq(Int) /\ Len(position_buffer) \in 0..SmoothWindow
    /\ last \in Int \cup {None} /\ extracted \in Seq(Int)
    /\ extracted = <<>> <=> last = None
    /\ extracted # <<>> => last = extracted[Len(extracted)]
    /\ route = <<>> <=> last = None
    /\ route = <<>> => /\ position_buffer = <<>>
                       /\ ins_origin = None /\ gps_origin = None

\* With one source, the buffer has the last positions, relative to the first.
OneSource ==
    /\ ins_origin = IF used = {"ins"} THEN route[1] + OdomZero ELSE 0
    /\ used = {"gps"} => gps_origin = route[1]
    /\ Len(position_buffer) = IF Len(route) < SmoothWindow THEN Len(route) ELSE SmoothWindow
    /\ Newest = LastPlace - route[1]
    /\ Len(route) = Len(position_buffer) => position_buffer[1] = 0
    /\ Near(at, LastPlace, MaxStep)
    /\ \A j \in 1..Len(position_buffer) :
          Near(position_buffer[j], Newest, (Len(position_buffer) - j) * MaxStep)
    /\ extracted[1] = 0

ExtractInv ==
    /\ ExtractTypes
    /\ used # {"ins", "gps"} /\ route # <<>> => OneSource
    /\ Extract!Spaced /\ Extract!Covered

LEMMA ExtractParameters ==
    ASSUME Extract!ExtractorAssumption
    PROVE  /\ SmoothWindow \in Nat /\ SmoothWindow > 0 /\ DistanceThreshold \in Nat
           /\ DistanceThreshold > 0 /\ OdomZero \in Int /\ MaxStep \in Nat /\ MaxPlace \in Nat
           /\ MaxMessages \in Nat /\ None \notin Int
           /\ Apart \in Nat /\ Apart > 0 /\ Drift \in Nat /\ Lag \in Nat
           /\ SmoothWindow * (DistanceThreshold + (SmoothWindow - 1) * MaxStep) = Apart + Lag
<1>1. /\ SmoothWindow \in Nat /\ SmoothWindow > 0 /\ DistanceThreshold \in Nat
      /\ DistanceThreshold > 0 /\ OdomZero \in Int /\ MaxStep \in Nat /\ MaxPlace \in Nat
      /\ MaxMessages \in Nat /\ None \notin Int
  BY DEF Extract!ExtractorAssumption
<1>2. \A a, b \in Nat : a * b \in Nat /\ (a > 0 /\ b > 0 => a * b > 0)
  OBVIOUS
<1>3. Apart \in Nat /\ Apart > 0
  BY <1>1, <1>2 DEF Apart
<1>4. SmoothWindow - 1 \in Nat
  BY <1>1
<1>5. Drift \in Nat
  BY <1>1, <1>2, <1>4 DEF Drift
<1>6. Lag \in Nat
  BY <1>1, <1>2, <1>5 DEF Lag
<1>7. \A a, b, c \in Int : a * (b + c) = (a * b) + (a * c)
  OBVIOUS
<1>8. SmoothWindow * (DistanceThreshold + Drift) = Apart + Lag
  BY <1>1, <1>5, <1>7 DEF Apart, Lag
<1> QED BY <1>1, <1>3, <1>5, <1>6, <1>8 DEF Drift

LEMMA DistanceIs ==
    ASSUME NEW a \in Int, NEW b \in Int
    PROVE  /\ Extract!Distance(a, b) \in Nat
           /\ \A k \in Int : Extract!Distance(a, b) <= k <=> Near(a, b, k)
           /\ Extract!Distance(a, b) = Extract!Distance(b, a)
BY DEF Extract!Distance, Near

LEMMA OneSourceIs ==
    ASSUME ExtractTypes, used # {"ins", "gps"}
    PROVE  used = {"ins"} \/ used = {"gps"}
BY DEF ExtractTypes

LEMMA ExtractInits == ASSUME Extract!ExtractorAssumption, Extract!Init PROVE ExtractInv
<1>1. /\ used \in (SUBSET {"ins", "gps"}) \ {{}} /\ at = 0 /\ route = <<>>
      /\ gps_origin = None /\ ins_origin = None
      /\ position_buffer = <<>> /\ last = None /\ extracted = <<>>
  BY DEF Extract!Init
<1>2. 0 \in -MaxPlace..MaxPlace /\ 0 \in 0..MaxMessages /\ 0 \in 0..SmoothWindow
  BY ExtractParameters
<1> QED BY <1>1, <1>2 DEF ExtractInv, ExtractTypes, Extract!Spaced, Extract!Covered

\* A position joins the buffer: it is the newest, and the others move up.
LEMMA SmoothedIs ==
    ASSUME Extract!ExtractorAssumption, ExtractTypes, NEW x \in Int
    PROVE  LET more == Extract!Smoothed(position_buffer, x) IN
           /\ more \in Seq(Int)
           /\ Len(more) = IF Len(position_buffer) = SmoothWindow THEN SmoothWindow
                          ELSE Len(position_buffer) + 1
           /\ more[Len(more)] = x
           /\ \A j \in 1..Len(more) - 1 :
                more[j] = position_buffer[j + IF Len(position_buffer) = SmoothWindow
                                              THEN 1 ELSE 0]
<1> DEFINE longer == Append(position_buffer, x)
           more == Extract!Smoothed(position_buffer, x)
<1>1. /\ position_buffer \in Seq(Int) /\ Len(position_buffer) \in 0..SmoothWindow
      /\ SmoothWindow \in Nat /\ SmoothWindow > 0
  BY ExtractParameters DEF ExtractTypes
<1>2. /\ longer \in Seq(Int) /\ Len(longer) = Len(position_buffer) + 1
      /\ longer[Len(position_buffer) + 1] = x
      /\ \A j \in 1..Len(position_buffer) : longer[j] = position_buffer[j]
  BY <1>1
<1>3. more = IF Len(longer) > SmoothWindow THEN Tail(longer) ELSE longer
  BY DEF Extract!Smoothed
<1> HIDE DEF longer, more
<1>4. CASE Len(position_buffer) = SmoothWindow
  <2>1. more = Tail(longer) /\ longer # <<>>
    BY <1>1, <1>2, <1>3, <1>4
  <2>2. /\ more \in Seq(Int) /\ Len(more) = SmoothWindow
        /\ \A j \in 1..SmoothWindow : more[j] = longer[j + 1]
    BY <1>1, <1>2, <1>4, <2>1
  <2>3. more[SmoothWindow] = x
    BY <1>1, <1>2, <1>4, <2>2
  <2>4. \A j \in 1..SmoothWindow - 1 : more[j] = position_buffer[j + 1]
    BY <1>1, <1>2, <1>4, <2>2
  <2> QED BY <1>4, <2>2, <2>3, <2>4 DEF more
<1>5. CASE Len(position_buffer) # SmoothWindow
  <2>1. more = longer
    BY <1>1, <1>2, <1>3, <1>5
  <2>2. \A j \in 1..Len(more) - 1 : more[j] = position_buffer[j + 0]
    BY <1>1, <1>2, <2>1
  <2> QED BY <1>1, <1>2, <1>5, <2>1, <2>2 DEF more
<1> QED BY <1>4, <1>5

\* The mean of a full buffer is its sum, in units of 1 / SmoothWindow.
LEMMA MeanIs ==
    ASSUME Extract!ExtractorAssumption, NEW s \in Seq(Int), Len(s) > 0
    PROVE  /\ Extract!Mean(s) \in Int
           /\ Len(s) = SmoothWindow => Extract!Mean(s) = Extract!Sum(s)
           /\ Extract!Sum(s) = 0 => Extract!Mean(s) = 0
<1>1. PICK f : SumsUp(f, s) /\ Extract!Sum(s) = f[Len(s)]
  BY SumExists
<1> DEFINE Good == {i \in 0..Len(s) : f[i] \in Int}
<1>2. Len(s) \in Nat
  OBVIOUS
<1>3. 0 \in Good
  <2>1. f[0] = 0
    BY <1>1, <1>2 DEF SumsUp, SumsUpTo
  <2> QED BY <1>2, <2>1
<1>4. ASSUME NEW i \in Good, i \in Nat, i < Len(s) PROVE i + 1 \in Good
  <2>1. f[i + 1] = f[i] + s[i + 1]
    BY <1>1, <1>4, SumsUpNext
  <2>2. i + 1 \in 0..Len(s) /\ s[i + 1] \in Int /\ f[i] \in Int
    BY <1>4
  <2> QED BY <2>1, <2>2
<1> HIDE DEF Good
<1>5. Len(s) \in Good
  BY <1>2, <1>3, <1>4, CountUp
<1>6. Extract!Sum(s) \in Int
  BY <1>1, <1>5 DEF Good
<1> DEFINE total == Extract!Sum(s)
           scaled == SmoothWindow * total
<1>7. scaled \in Int /\ SmoothWindow \in Nat /\ SmoothWindow > 0 /\ (total = 0 => scaled = 0)
  <2>1. SmoothWindow \in Nat /\ SmoothWindow > 0
    BY ExtractParameters
  <2>2. total \in Int
    BY <1>6
  <2> HIDE DEF total
  <2>3. SmoothWindow * total \in Int
    BY <2>1, <2>2, ProductIsInt
  <2>4. total = 0 => SmoothWindow * total = 0
    BY <2>1
  <2> QED BY <2>1, <2>3, <2>4
<1>8. Extract!Mean(s) = scaled \div Len(s)
  BY DEF Extract!Mean
<1>9. \A n \in Nat, t \in Int : n > 0 => (n * t) \div n = t /\ 0 \div n = 0
  OBVIOUS
<1>10. Len(s) = SmoothWindow => Extract!Mean(s) = total
  BY <1>6, <1>7, <1>8, <1>9
<1> HIDE DEF scaled
<1> QED BY <1>2, <1>7, <1>8, <1>9, <1>10

\* What _add_waypoint makes of a position.
LEMMA AddWaypoint ==
    ASSUME Extract!ExtractorAssumption, ExtractTypes, NEW x \in Int, Extract!add_waypoint(x)
    PROVE  /\ ins_origin' = (IF ins_origin = None THEN x ELSE ins_origin) /\ ins_origin' \in Int
           /\ x - ins_origin' \in Int
           /\ position_buffer' = Extract!Smoothed(position_buffer, x - ins_origin')
           /\ position_buffer' \in Seq(Int) /\ Len(position_buffer') \in 1..SmoothWindow
           /\ last' \in Int /\ extracted' \in Seq(Int) /\ extracted' # <<>>
           /\ last' = extracted'[Len(extracted')]
           /\ \/ /\ extracted' = Append(extracted, Extract!Mean(position_buffer'))
                 /\ last' = Extract!Mean(position_buffer')
                 /\ last = None \/ Extract!Distance(last', last) >= Apart
              \/ /\ UNCHANGED <<last, extracted>> /\ last # None
                 /\ \/ Len(position_buffer') # SmoothWindow
                    \/ Extract!Distance(Extract!Mean(position_buffer'), last) < Apart
<1>1. ins_origin' = (IF ins_origin = None THEN x ELSE ins_origin) /\ ins_origin' \in Int
  BY DEF Extract!add_waypoint, Extract!Or, ExtractTypes
<1>2. position_buffer' = Extract!Smoothed(position_buffer, x - ins_origin')
      /\ x - ins_origin' \in Int
  BY <1>1 DEF Extract!add_waypoint
<1>3. position_buffer' \in Seq(Int) /\ Len(position_buffer') \in 1..SmoothWindow
  <2>1. Len(position_buffer) \in 0..SmoothWindow /\ SmoothWindow \in Nat /\ SmoothWindow > 0
    BY ExtractParameters DEF ExtractTypes
  <2> DEFINE more == Extract!Smoothed(position_buffer, x - ins_origin')
  <2>2. /\ more \in Seq(Int)
        /\ Len(more) = IF Len(position_buffer) = SmoothWindow THEN SmoothWindow
                       ELSE Len(position_buffer) + 1
    BY <1>2, SmoothedIs
  <2> HIDE DEF more
  <2>3. Len(more) \in 1..SmoothWindow
    BY <2>1, <2>2
  <2> QED BY <1>2, <2>2, <2>3 DEF more
<1> DEFINE mean == Extract!Mean(position_buffer')
<1>4. mean \in Int
  BY <1>3, MeanIs
<1>5. last \in Int \cup {None} /\ extracted \in Seq(Int) /\ Apart \in Nat /\ None \notin Int
      /\ (extracted = <<>> <=> last = None)
      /\ (extracted # <<>> => last = extracted[Len(extracted)])
  BY ExtractParameters DEF ExtractTypes
<1>6. CASE Extract!Emits(position_buffer')
  <2>1. last' = mean /\ extracted' = Append(extracted, mean)
    BY <1>6 DEF Extract!add_waypoint
  <2>2. last = None \/ Extract!Distance(last', last) >= Apart
    BY <1>6, <2>1 DEF Extract!Emits, Apart
  <2> HIDE DEF mean
  <2>3. extracted' \in Seq(Int) /\ extracted' # <<>> /\ last' = extracted'[Len(extracted')]
    BY <1>4, <1>5, <2>1
  <2> QED BY <1>1, <1>2, <1>3, <1>4, <2>1, <2>2, <2>3 DEF mean
<1>7. CASE ~Extract!Emits(position_buffer')
  <2>1. UNCHANGED <<last, extracted>>
    BY <1>7 DEF Extract!add_waypoint
  <2>2. last # None /\ (Len(position_buffer') # SmoothWindow
                        \/ ~(Extract!Distance(mean, last) >= Apart))
    BY <1>7 DEF Extract!Emits, Apart
  <2>3. last \in Int
    BY <1>5, <2>2
  <2>4. Extract!Distance(mean, last) \in Int
    <3> HIDE DEF mean
    <3> QED BY <1>4, <2>3, DistanceIs
  <2> HIDE DEF mean
  <2>5. ~(Extract!Distance(mean, last) >= Apart) => Extract!Distance(mean, last) < Apart
    BY <1>5, <2>4
  <2> QED BY <1>1, <1>2, <1>3, <1>5, <2>1, <2>2, <2>3, <2>5 DEF mean
<1> QED BY <1>6, <1>7

\* A message adds a position: the place of the rover where its source counts.
LEMMA MessageAdds ==
    ASSUME Extract!ExtractorAssumption, ExtractTypes, Extract!Message
    PROVE  \E x \in Int :
              /\ Extract!add_waypoint(x)
              /\ used' = used /\ route' = Append(route, at) /\ Len(route) < MaxMessages
              /\ at' \in -MaxPlace..MaxPlace /\ Near(at', at, MaxStep)
              /\ gps_origin' \in Int \cup {None}
              /\ \/ "ins" \in used /\ x = at + OdomZero /\ gps_origin' = gps_origin
                 \/ /\ "gps" \in used /\ x = at - gps_origin'
                    /\ gps_origin' = IF gps_origin = None THEN at ELSE gps_origin
<1>1. at \in Int /\ gps_origin \in Int \cup {None} /\ OdomZero \in Int /\ MaxStep \in Int
      /\ -MaxPlace..MaxPlace \subseteq Int
  BY ExtractParameters DEF ExtractTypes
<1>2. /\ used' = used /\ route' = Append(route, at) /\ Len(route) < MaxMessages
      /\ at' \in -MaxPlace..MaxPlace /\ Extract!Distance(at', at) <= MaxStep
      /\ ("ins" \in used /\ Extract!ProcessIns) \/ ("gps" \in used /\ Extract!ProcessGps)
  BY DEF Extract!Message
<1>3. Near(at', at, MaxStep)
  BY <1>1, <1>2, DistanceIs
<1>4. CASE "ins" \in used /\ Extract!ProcessIns
  BY <1>1, <1>2, <1>3, <1>4 DEF Extract!ProcessIns
<1>5. CASE "gps" \in used /\ Extract!ProcessGps
  <2>1. gps_origin' = IF gps_origin = None THEN at ELSE gps_origin
    BY <1>5 DEF Extract!ProcessGps, Extract!Or
  <2>2. gps_origin' \in Int /\ at - gps_origin' \in Int
    BY <1>1, <2>1
  <2>3. Extract!add_waypoint(at - gps_origin')
    BY <1>5 DEF Extract!ProcessGps
  <2> QED BY <1>2, <1>3, <1>5, <2>1, <2>2, <2>3
<1> QED BY <1>2, <1>4, <1>5

LEMMA ExtractTypesKept ==
    ASSUME Extract!ExtractorAssumption, ExtractTypes, Extract!Message PROVE ExtractTypes'
<1>1. PICK x \in Int :
         /\ Extract!add_waypoint(x)
         /\ used' = used /\ route' = Append(route, at) /\ Len(route) < MaxMessages
         /\ at' \in -MaxPlace..MaxPlace /\ gps_origin' \in Int \cup {None}
  BY MessageAdds
<1>2. /\ ins_origin' \in Int
      /\ position_buffer' \in Seq(Int) /\ Len(position_buffer') \in 1..SmoothWindow
      /\ last' \in Int /\ extracted' \in Seq(Int) /\ extracted' # <<>>
      /\ last' = extracted'[Len(extracted')]
  BY <1>1, AddWaypoint
<1>3. /\ route' \in Seq(Int) /\ route' # <<>> /\ Len(route') \in 0..MaxMessages
      /\ SmoothWindow \in Nat /\ None \notin Int
  <2>1. route \in Seq(Int) /\ Len(route) \in 0..MaxMessages /\ at \in Int
        /\ SmoothWindow \in Nat /\ None \notin Int /\ MaxMessages \in Nat
    BY ExtractParameters DEF ExtractTypes
  <2>2. Append(route, at) \in Seq(Int) /\ Append(route, at) # <<>>
        /\ Len(Append(route, at)) = Len(route) + 1
    BY <2>1
  <2> QED BY <1>1, <2>1, <2>2
<1>4. Len(position_buffer') \in 0..SmoothWindow
  BY <1>2, <1>3
<1> QED BY <1>1, <1>2, <1>3, <1>4 DEF ExtractTypes

\* A waypoint is only emitted away from the last.
LEMMA SpacedKept ==
    ASSUME Extract!ExtractorAssumption, ExtractTypes, Extract!Message, Extract!Spaced
    PROVE  Extract!Spaced'
<1>1. PICK x \in Int : Extract!add_waypoint(x)
  BY MessageAdds
<1>2. Apart = SmoothWindow * DistanceThreshold
  BY DEF Apart
<1>3. extracted \in Seq(Int) /\ (extracted = <<>> <=> last = None)
      /\ (extracted # <<>> => last = extracted[Len(extracted)])
  BY DEF ExtractTypes
<1>4. CASE UNCHANGED extracted
  BY <1>4 DEF Extract!Spaced
<1>5. CASE /\ extracted' = Append(extracted, last') /\ last' \in Int
           /\ last = None \/ Extract!Distance(last', last) >= Apart
  <2>1. /\ Len(extracted') = Len(extracted) + 1 /\ Len(extracted) \in Nat
        /\ extracted'[Len(extracted) + 1] = last'
        /\ \A i \in 1..Len(extracted) : extracted'[i] = extracted[i]
    BY <1>3, <1>5
  <2> SUFFICES ASSUME NEW i \in 2..Len(extracted')
               PROVE  Extract!Distance(extracted'[i - 1], extracted'[i]) >= Apart
    BY <1>2 DEF Extract!Spaced
  <2>2. CASE i \in 2..Len(extracted)
    <3>1. i - 1 \in 1..Len(extracted) /\ i \in 1..Len(extracted)
      BY <2>1, <2>2
    <3> QED BY <1>2, <2>1, <2>2, <3>1 DEF Extract!Spaced
  <2>3. CASE i = Len(extracted) + 1
    <3>1. Len(extracted) \in 1..Len(extracted) /\ i - 1 = Len(extracted) /\ extracted # <<>>
      BY <1>3, <2>1, <2>3
    <3>2. extracted'[i - 1] = last /\ extracted'[i] = last' /\ last \in Int
      BY <1>3, <2>1, <2>3, <3>1
    <3>3. Extract!Distance(last', last) >= Apart
      BY <1>3, <1>5, <3>1
    <3> QED BY <1>5, <3>2, <3>3, DistanceIs
  <2> QED BY <2>1, <2>2, <2>3
<1> QED BY <1>1, <1>4, <1>5, AddWaypoint

\* One step further along, one step more.
LEMMA NearStep ==
    ASSUME NEW a \in Int, NEW b \in Int, NEW c \in Int, NEW n \in Int, NEW k \in Int,
           Near(a, b, n * k), Near(b, c, k)
    PROVE  Near(a, c, (n + 1) * k)
<1> DEFINE nk == n * k
<1>1. nk \in Int /\ (n + 1) * k = nk + k
  BY ProductIsInt
<1> HIDE DEF nk
<1>2. Near(a, c, nk + k)
  <2>1. Near(a, b, nk)
    BY DEF nk
  <2> QED BY <1>1, <2>1 DEF Near
<1> QED BY <1>1, <1>2

\* The first message pins the origins: its position is zero.
LEMMA FirstMessage ==
    ASSUME Extract!ExtractorAssumption, ExtractTypes, Extract!Message,
           used # {"ins", "gps"}, route = <<>>
    PROVE  OneSource'
<1>1. PICK x \in Int :
         /\ Extract!add_waypoint(x)
         /\ used' = used /\ route' = Append(route, at)
         /\ Near(at', at, MaxStep)
         /\ \/ "ins" \in used /\ x = at + OdomZero /\ gps_origin' = gps_origin
            \/ /\ "gps" \in used /\ x = at - gps_origin'
               /\ gps_origin' = IF gps_origin = None THEN at ELSE gps_origin
  BY MessageAdds
<1>2. /\ at \in Int /\ position_buffer = <<>> /\ ins_origin = None /\ gps_origin = None
      /\ last = None /\ extracted = <<>>
  BY ExtractParameters DEF ExtractTypes
<1>3. used = {"ins"} \/ used = {"gps"}
  BY OneSourceIs
<1>4. route' = <<at>> /\ Len(route') = 1 /\ route'[1] = at
  BY <1>1, <1>2
<1>5. ins_origin' = x /\ x - ins_origin' = 0
      /\ position_buffer' = Extract!Smoothed(position_buffer, x - ins_origin')
      /\ position_buffer' \in Seq(Int)
      /\ extracted' = Append(extracted, Extract!Mean(position_buffer'))
  BY <1>1, <1>2, AddWaypoint
<1>6. /\ ins_origin' = IF used = {"ins"} THEN at + OdomZero ELSE 0
      /\ used = {"gps"} => gps_origin' = at
  <2>1. CASE used = {"ins"}
    <3>1. x = at + OdomZero
      BY <1>1, <2>1
    <3> QED BY <1>5, <2>1, <3>1
  <2>2. CASE used = {"gps"}
    <3>1. gps_origin' = at /\ x = at - at
      BY <1>1, <1>2, <2>2
    <3>2. x = 0 /\ used # {"ins"}
      BY <1>2, <2>2, <3>1
    <3> QED BY <1>5, <2>2, <3>1, <3>2
  <2> QED BY <1>3, <2>1, <2>2
<1>7. Len(position_buffer') = 1 /\ position_buffer'[1] = 0
  <2> DEFINE more == Extract!Smoothed(position_buffer, 0)
  <2>1. Len(position_buffer) = 0 /\ SmoothWindow \in Nat /\ SmoothWindow > 0
    BY <1>2, ExtractParameters
  <2>2. /\ Len(more) = IF Len(position_buffer) = SmoothWindow THEN SmoothWindow
                       ELSE Len(position_buffer) + 1
        /\ more[Len(more)] = 0
    BY SmoothedIs
  <2>3. position_buffer' = more
    BY <1>5
  <2> HIDE DEF more
  <2> QED BY <2>1, <2>2, <2>3
<1>8. Extract!Mean(position_buffer') = 0
  <2>1. \A i \in 1..Len(position_buffer') : Near(position_buffer'[i], 0, 0)
    BY <1>7 DEF Near
  <2>2. Extract!Sum(position_buffer') \in Int
        /\ Near(Len(position_buffer') * 0, Extract!Sum(position_buffer'), Len(position_buffer') * 0)
    <3> DEFINE s == position_buffer'
    <3>1. s \in Seq(Int) /\ 0 \in Int /\ 0 \in Nat /\ \A i \in 1..Len(s) : Near(s[i], 0, 0)
      BY <1>5, <2>1
    <3> HIDE DEF s
    <3>2. Extract!Sum(s) \in Int /\ Near(Len(s) * 0, Extract!Sum(s), Len(s) * 0)
      BY <3>1, SumNear
    <3> QED BY <3>2 DEF s
  <2>3. Extract!Sum(position_buffer') = 0
    <3>1. 1 * 0 = 0
      OBVIOUS
    <3> QED BY <1>7, <2>2, <3>1 DEF Near
  <2> QED BY <1>5, <1>7, <2>3, MeanIs
<1>9. extracted'[1] = 0
  BY <1>2, <1>5, <1>8
<1>10. /\ Len(position_buffer') = IF Len(route') < SmoothWindow THEN Len(route') ELSE SmoothWindow
       /\ Newest' = LastPlace' - route'[1]
       /\ Near(at', LastPlace', MaxStep)
  <2>1. SmoothWindow \in Nat /\ SmoothWindow > 0
    BY ExtractParameters
  <2>2. Newest' = 0 /\ LastPlace' = at
    BY <1>4, <1>7 DEF Newest, LastPlace
  <2> QED BY <1>1, <1>2, <1>4, <1>7, <2>1, <2>2
<1>11. \A j \in 1..Len(position_buffer') :
          Near(position_buffer'[j], Newest', (Len(position_buffer') - j) * MaxStep)
  <2>1. (1 - 1) * MaxStep = 0
    BY ExtractParameters
  <2> QED BY <1>7, <2>1 DEF Newest, Near
<1> QED BY <1>1, <1>4, <1>6, <1>7, <1>9, <1>10, <1>11 DEF OneSource

LEMMA NearMoved ==
    ASSUME NEW a \in Int, NEW b \in Int, NEW c \in Int, NEW k \in Int, Near(a, b, k)
    PROVE  Near(b - c, a - c, k) /\ b - c \in Int
BY DEF Near

\* A later message, of the only source: the same origins, one more step.
LEMMA LaterMessage ==
    ASSUME Extract!ExtractorAssumption, ExtractTypes, Extract!Message,
           used # {"ins", "gps"}, route # <<>>, OneSource
    PROVE  OneSource'
<1>1. PICK x \in Int :
         /\ Extract!add_waypoint(x)
         /\ used' = used /\ route' = Append(route, at)
         /\ Near(at', at, MaxStep)
         /\ \/ "ins" \in used /\ x = at + OdomZero /\ gps_origin' = gps_origin
            \/ /\ "gps" \in used /\ x = at - gps_origin'
               /\ gps_origin' = IF gps_origin = None THEN at ELSE gps_origin
  BY MessageAdds
<1> DEFINE n == Len(position_buffer)
           up == IF n = SmoothWindow THEN 1 ELSE 0
           x2 == at - route[1]
<1>2. /\ at \in Int /\ route \in Seq(Int) /\ Len(route) \in Nat /\ Len(route) > 0
      /\ route[1] \in Int /\ LastPlace \in Int /\ position_buffer \in Seq(Int)
      /\ n \in 0..SmoothWindow /\ last # None /\ extracted \in Seq(Int) /\ extracted # <<>>
      /\ OdomZero \in Int /\ SmoothWindow \in Nat /\ SmoothWindow > 0 /\ MaxStep \in Nat
      /\ None \notin Int
  <2>1. /\ at \in -MaxPlace..MaxPlace /\ route \in Seq(Int) /\ position_buffer \in Seq(Int)
        /\ n \in 0..SmoothWindow /\ last # None /\ extracted \in Seq(Int) /\ extracted # <<>>
    BY DEF ExtractTypes
  <2>2. Len(route) \in Nat /\ Len(route) > 0
    BY <2>1
  <2>3. route[1] \in Int /\ route[Len(route)] \in Int
    BY <2>1, <2>2
  <2> HIDE DEF n
  <2> QED BY <2>1, <2>2, <2>3, ExtractParameters DEF LastPlace
<1>3. /\ Len(route') = Len(route) + 1 /\ route'[Len(route')] = at /\ route'[1] = route[1]
  BY <1>1, <1>2
<1>4. x2 \in Int /\ x - ins_origin' = x2 /\ ins_origin' = ins_origin
      /\ (used = {"gps"} => gps_origin' = gps_origin)
  <2>1. ins_origin \in Int /\ ins_origin = IF used = {"ins"} THEN route[1] + OdomZero ELSE 0
    <3>1. ins_origin = IF used = {"ins"} THEN route[1] + OdomZero ELSE 0
      BY DEF OneSource
    <3>2. route[1] + OdomZero \in Int
      BY <1>2
    <3> QED BY <3>1, <3>2
  <2>2. ins_origin' = ins_origin
    BY <1>1, <1>2, <2>1, AddWaypoint
  <2>3. CASE used = {"ins"}
    <3>1. x = at + OdomZero /\ used # {"gps"}
      BY <1>1, <2>3
    <3>2. ins_origin' = route[1] + OdomZero
      BY <2>1, <2>2, <2>3
    <3>3. (at + OdomZero) - (route[1] + OdomZero) = at - route[1] /\ at - route[1] \in Int
      BY <1>2
    <3> QED BY <2>2, <3>1, <3>2, <3>3
  <2>4. CASE used = {"gps"}
    <3>1. gps_origin = route[1] /\ used # {"ins"}
      BY <2>4 DEF OneSource
    <3>2. gps_origin' = gps_origin /\ x = at - gps_origin'
      BY <1>1, <1>2, <2>4, <3>1
    <3> QED BY <1>2, <2>1, <2>2, <3>1, <3>2
  <2> QED BY <2>3, <2>4, OneSourceIs
<1>5. /\ position_buffer' \in Seq(Int)
      /\ Len(position_buffer') = (IF n = SmoothWindow THEN SmoothWindow ELSE n + 1)
      /\ position_buffer'[Len(position_buffer')] = x2
      /\ \A j \in 1..Len(position_buffer') - 1 : position_buffer'[j] = position_buffer[j + up]
  <2>1. position_buffer' = Extract!Smoothed(position_buffer, x2)
    BY <1>1, <1>4, AddWaypoint
  <2> DEFINE more == Extract!Smoothed(position_buffer, x2)
  <2> HIDE DEF x2
  <2>2. /\ more \in Seq(Int)
        /\ Len(more) = IF n = SmoothWindow THEN SmoothWindow ELSE n + 1
        /\ more[Len(more)] = x2
        /\ \A j \in 1..Len(more) - 1 : more[j] = position_buffer[j + up]
    BY <1>4, SmoothedIs
  <2>3. position_buffer' = more
    BY <2>1
  <2> HIDE DEF more, up
  <2> QED BY <2>2, <2>3
<1> DEFINE n2 == Len(position_buffer')
<1>6. /\ n2 \in Int /\ n \in Int /\ n2 = n + 1 - up /\ up \in {0, 1} /\ n2 > 0
      /\ (up = 1 => n = SmoothWindow /\ n2 = SmoothWindow)
      /\ (up = 0 => n < SmoothWindow /\ n2 = n + 1)
  <2>1. n2 = IF n = SmoothWindow THEN SmoothWindow ELSE n + 1
    BY <1>5
  <2>2. n \in 0..SmoothWindow /\ SmoothWindow \in Nat /\ SmoothWindow > 0
    BY <1>2
  <2> HIDE DEF n, n2
  <2>3. CASE n = SmoothWindow
    BY <2>1, <2>2, <2>3
  <2>4. CASE n # SmoothWindow
    BY <2>1, <2>2, <2>4
  <2> QED BY <2>3, <2>4
<1>7. n = (IF Len(route) < SmoothWindow THEN Len(route) ELSE SmoothWindow)
      /\ n > 0
  BY <1>2 DEF OneSource
<1>8. Newest' = x2 /\ LastPlace' = at /\ x2 = at - route'[1] /\ Newest = LastPlace - route[1]
  BY <1>3, <1>5 DEF Newest, LastPlace, OneSource
<1>9. Near(Newest, x2, MaxStep) /\ Newest \in Int
  <2>1. Near(at, LastPlace, MaxStep)
    BY DEF OneSource
  <2>2. x2 = at - route[1] /\ Newest = LastPlace - route[1]
    BY <1>8
  <2>3. at \in Int /\ LastPlace \in Int /\ route[1] \in Int /\ MaxStep \in Int
    BY <1>2
  <2>4. Near(LastPlace - route[1], at - route[1], MaxStep) /\ LastPlace - route[1] \in Int
    BY <2>1, <2>3, NearMoved
  <2> QED BY <2>2, <2>4
<1> HIDE DEF n, n2, up, x2
<1>10. n2 = IF Len(route') < SmoothWindow THEN Len(route') ELSE SmoothWindow
  BY <1>2, <1>3, <1>6, <1>7
<1>11. Len(route') = n2 => position_buffer'[1] = 0
  <2> SUFFICES ASSUME Len(route') = n2 PROVE position_buffer'[1] = 0
    OBVIOUS
  <2>1. up = 0 /\ Len(route) = n
    BY <1>2, <1>3, <1>6, <1>7
  <2>2. position_buffer[1] = 0
    BY <2>1 DEF OneSource, n
  <2>3. 1 \in 1..n2 - 1 /\ 1 + up = 1
    BY <1>6, <1>7, <2>1
  <2> QED BY <1>5, <2>2, <2>3 DEF n2
<1>12. ASSUME NEW j \in 1..n2
       PROVE  Near(position_buffer'[j], x2, (n2 - j) * MaxStep)
  <2>1. CASE j = n2
    <3>1. position_buffer'[j] = x2 /\ n2 - j = 0 /\ 0 * MaxStep = 0
      BY <1>2, <1>5, <1>6, <2>1, ZeroTimes DEF n2
    <3> QED BY <1>4, <3>1 DEF Near
  <2>2. CASE j # n2
    <3> DEFINE i == j + up
    <3>1. j \in 1..n2 - 1 /\ i \in 1..n /\ (n - i) + 1 = n2 - j
      BY <1>6, <2>2
    <3>2. position_buffer'[j] = position_buffer[i] /\ position_buffer[i] \in Int
      <4>1. position_buffer'[j] = position_buffer[i]
        BY <1>5, <3>1 DEF n2
      <4>2. i \in 1..Len(position_buffer) /\ position_buffer \in Seq(Int)
        BY <1>2, <3>1 DEF n
      <4> HIDE DEF i
      <4>3. position_buffer[i] \in Int
        BY <4>2
      <4> QED BY <4>1, <4>3
    <3>3. Near(position_buffer[i], Newest, (n - i) * MaxStep)
      BY <3>1 DEF OneSource, n
    <3>4. n - i \in Int /\ MaxStep \in Int
      BY <1>2, <1>6, <3>1
    <3> HIDE DEF i
    <3>5. Near(position_buffer[i], x2, ((n - i) + 1) * MaxStep)
      BY <1>4, <1>9, <3>2, <3>3, <3>4, NearStep
    <3> QED BY <3>1, <3>2, <3>5
  <2> QED BY <2>1, <2>2
<1>13. extracted'[1] = 0
  <2>1. extracted[1] = 0
    BY DEF OneSource
  <2>2. UNCHANGED extracted \/ \E m \in Int : extracted' = Append(extracted, m)
    <3>1. last' \in Int
      BY <1>1, AddWaypoint
    <3> QED BY <1>1, <3>1, AddWaypoint
  <2>3. ASSUME NEW m \in Int, extracted' = Append(extracted, m) PROVE extracted'[1] = extracted[1]
    <3>1. 1 \in 1..Len(extracted)
      BY <1>2
    <3> QED BY <1>2, <2>3, <3>1
  <2> QED BY <2>1, <2>2, <2>3
<1>14. ins_origin' = IF used' = {"ins"} THEN route'[1] + OdomZero ELSE 0
  BY <1>1, <1>3, <1>4 DEF OneSource
<1>15. used' = {"gps"} => gps_origin' = route'[1]
  BY <1>1, <1>3, <1>4 DEF OneSource
<1> QED BY <1>1, <1>8, <1>10, <1>11, <1>12, <1>13, <1>14, <1>15 DEF OneSource, n2

LEMMA MessageOneSource ==
    ASSUME Extract!ExtractorAssumption, ExtractInv, Extract!Message, used # {"ins", "gps"}
    PROVE  OneSource'
BY FirstMessage, LaterMessage DEF ExtractInv

\* A buffer whose positions are steps apart is within the steps of a window.
LEMMA BufferNear ==
    ASSUME Extract!ExtractorAssumption,
           NEW s \in Seq(Int), Len(s) \in 1..SmoothWindow, NEW j \in 1..Len(s),
           Near(s[j], s[Len(s)], (Len(s) - j) * MaxStep)
    PROVE  Near(s[j], s[Len(s)], Drift)
<1> DEFINE k == Len(s) - j
           rest == (SmoothWindow - 1) - k
           some == k * MaxStep
           more == rest * MaxStep
<1>1. SmoothWindow \in Nat /\ MaxStep \in Nat /\ s[j] \in Int /\ s[Len(s)] \in Int
  <2>1. Len(s) \in Nat /\ j \in 1..Len(s) /\ Len(s) \in 1..Len(s)
    OBVIOUS
  <2>2. s[j] \in Int /\ s[Len(s)] \in Int
    BY <2>1
  <2> QED BY <2>2, ExtractParameters
<1>2. k \in Nat /\ rest \in Nat /\ SmoothWindow - 1 = k + rest
  BY <1>1
<1>3. Near(s[j], s[Len(s)], some)
  OBVIOUS
<1> HIDE DEF k, rest
<1>4. some \in Nat /\ more \in Nat /\ (k + rest) * MaxStep = some + more
  BY <1>1, <1>2
<1>5. Drift = some + more
  BY <1>2, <1>4 DEF Drift
<1> HIDE DEF some, more
<1> QED BY <1>1, <1>3, <1>4, <1>5 DEF Near

LEMMA NearScaled ==
    ASSUME NEW a \in Int, NEW d \in Int, NEW k \in Nat, Near(0, a, d)
    PROVE  Near(k * a, 0, k * d)
<1>1. -d <= a /\ a <= d
  BY DEF Near
<1>2. k * (d - a) >= 0 /\ k * (d + a) >= 0
  BY <1>1
<1>3. k * (d - a) = (k * d) - (k * a) /\ k * (d + a) = (k * d) + (k * a)
      /\ k * d \in Int /\ k * a \in Int
  OBVIOUS
<1> QED BY <1>2, <1>3 DEF Near

\* Some waypoint is close to the newest position.
LEMMA NewestCovered ==
    ASSUME Extract!ExtractorAssumption, ExtractTypes, Extract!Message,
           OneSource', ExtractTypes', route' # <<>>
    PROVE  \E k \in DOMAIN extracted' :
              Extract!Distance(SmoothWindow * Newest', extracted'[k]) < Apart + Lag
<1> DEFINE now2 == SmoothWindow * Newest'
           n == Len(position_buffer')
           total == Extract!Sum(position_buffer')
<1>1. /\ Newest' \in Int /\ n \in 1..SmoothWindow
      /\ \A j \in 1..n : Near(position_buffer'[j], Newest', Drift)
      /\ n < SmoothWindow => position_buffer'[1] = 0
  <2> DEFINE s == position_buffer'
  <2>1. /\ s \in Seq(Int) /\ Len(s) \in 0..SmoothWindow /\ Len(route') \in Nat /\ Len(route') > 0
        /\ SmoothWindow \in Nat /\ SmoothWindow > 0
    BY ExtractParameters DEF ExtractTypes
  <2>2. /\ Len(s) = IF Len(route') < SmoothWindow THEN Len(route') ELSE SmoothWindow
        /\ \A j \in 1..Len(s) : Near(s[j], s[Len(s)], (Len(s) - j) * MaxStep)
        /\ Len(route') = Len(s) => s[1] = 0
        /\ Newest' = s[Len(s)]
    BY DEF OneSource, Newest
  <2> HIDE DEF s
  <2>3. Len(s) \in 1..SmoothWindow /\ s[Len(s)] \in Int /\ (Len(s) < SmoothWindow => s[1] = 0)
    BY <2>1, <2>2
  <2>4. \A j \in 1..Len(s) : Near(s[j], s[Len(s)], Drift)
    BY <2>1, <2>2, <2>3, BufferNear
  <2> QED BY <2>2, <2>3, <2>4 DEF s
<1>2. /\ position_buffer' \in Seq(Int) /\ SmoothWindow \in Nat /\ SmoothWindow > 0
      /\ Apart \in Nat /\ Apart > 0 /\ Lag \in Nat /\ Drift \in Nat /\ MaxStep \in Nat
      /\ None \notin Int
  BY ExtractParameters DEF ExtractTypes
<1>3. now2 \in Int
  BY <1>1, <1>2, ProductIsInt
<1>4. PICK x \in Int : Extract!add_waypoint(x)
  BY MessageAdds
<1>5. /\ last' \in Int /\ extracted' \in Seq(Int) /\ extracted' # <<>>
      /\ last' = extracted'[Len(extracted')]
  BY <1>4, AddWaypoint
<1>6. Len(extracted') \in DOMAIN extracted' /\ 1 \in DOMAIN extracted'
  BY <1>5
<1>7. CASE n < SmoothWindow
  <2>1. Near(0, Newest', Drift) /\ extracted'[1] = 0
    BY <1>1, <1>7 DEF OneSource
  <2>2. Near(now2, 0, Lag)
    BY <1>1, <1>2, <2>1, NearScaled DEF Lag
  <2> HIDE DEF now2
  <2>3. Extract!Distance(now2, 0) < Apart + Lag
    <3>1. Extract!Distance(now2, 0) <= Lag /\ Extract!Distance(now2, 0) \in Nat
      <4>1. 0 \in Int /\ Lag \in Int
        BY <1>2
      <4> QED BY <1>3, <2>2, <4>1, DistanceIs
    <3> QED BY <1>2, <3>1
  <2> QED BY <1>6, <2>1, <2>3 DEF now2
<1>8. CASE n = SmoothWindow
  <2>1. total \in Int /\ Near(now2, total, Lag)
    <3> DEFINE s == position_buffer'
    <3>1. s \in Seq(Int) /\ Len(s) = SmoothWindow /\ \A j \in 1..Len(s) : Near(s[j], Newest', Drift)
      BY <1>1, <1>2, <1>8
    <3> HIDE DEF s
    <3>2. Extract!Sum(s) \in Int /\ Near(Len(s) * Newest', Extract!Sum(s), Len(s) * Drift)
      BY <1>1, <1>2, <3>1, SumNear
    <3> QED BY <3>1, <3>2 DEF s, Lag
  <2>2. Extract!Mean(position_buffer') = total
    BY <1>2, <1>8, MeanIs
  <2>3. total = last' \/ Extract!Distance(total, last') < Apart
    BY <1>4, <1>8, <2>2, AddWaypoint
  <2> HIDE DEF now2, total
  <2>4. Extract!Distance(now2, last') < Apart + Lag
    BY <1>2, <1>3, <1>5, <2>1, <2>3 DEF Extract!Distance, Near
  <2> QED BY <1>5, <1>6, <2>4 DEF now2
<1> QED BY <1>1, <1>2, <1>7, <1>8

LEMMA CoveredIs ==
    ASSUME Extract!ExtractorAssumption, Extract!Covered, used # {"ins", "gps"}
    PROVE  \A i \in DOMAIN route : \E k \in DOMAIN extracted :
              Extract!Distance(SmoothWindow * (route[i] - route[1]), extracted[k]) < Apart + Lag
<1> DEFINE bound == SmoothWindow * (DistanceThreshold + (SmoothWindow - 1) * MaxStep)
<1>1. bound = Apart + Lag
  BY ExtractParameters
<1>2. \A i \in DOMAIN route : \E k \in DOMAIN extracted :
         Extract!Distance(SmoothWindow * (route[i] - route[1]), extracted[k]) < bound
  BY DEF Extract!Covered
<1> HIDE DEF bound
<1> QED BY <1>1, <1>2

\* The place of every message stays covered, and the newest one becomes so.
LEMMA CoveredKept ==
    ASSUME Extract!ExtractorAssumption, ExtractInv, Extract!Message, used # {"ins", "gps"}
    PROVE  \A i \in DOMAIN route' : \E k \in DOMAIN extracted' :
              Extract!Distance(SmoothWindow * (route'[i] - route'[1]), extracted'[k]) < Apart + Lag
<1>1. OneSource' /\ ExtractTypes /\ ExtractTypes'
  BY MessageOneSource, ExtractTypesKept DEF ExtractInv
<1>2. /\ route' = Append(route, at) /\ at \in Int /\ route \in Seq(Int) /\ extracted \in Seq(Int)
      /\ \E x \in Int : Extract!add_waypoint(x)
  <2>1. at \in -MaxPlace..MaxPlace /\ route \in Seq(Int) /\ extracted \in Seq(Int)
    BY <1>1 DEF ExtractTypes
  <2>2. PICK x \in Int : Extract!add_waypoint(x) /\ route' = Append(route, at)
    BY <1>1, MessageAdds
  <2> QED BY <2>1, <2>2, ExtractParameters
<1>3. /\ Len(route') = Len(route) + 1 /\ Len(route) \in Nat /\ route' # <<>>
      /\ DOMAIN route' = 1..Len(route) + 1 /\ DOMAIN route = 1..Len(route)
      /\ \A i \in 1..Len(route) : route'[i] = route[i]
  BY <1>2
<1> SUFFICES ASSUME NEW i \in 1..Len(route) + 1
             PROVE  \E k \in DOMAIN extracted' :
                       Extract!Distance(SmoothWindow * (route'[i] - route'[1]), extracted'[k])
                           < Apart + Lag
  BY <1>3
<1>4. CASE i = Len(route) + 1
  <2>1. Newest' = route'[i] - route'[1]
    BY <1>1, <1>3, <1>4 DEF OneSource, LastPlace
  <2> QED BY <1>1, <1>3, <2>1, NewestCovered
<1>5. CASE i \in 1..Len(route)
  <2>1. 1 \in 1..Len(route) /\ route'[i] = route[i] /\ route'[1] = route[1]
    BY <1>3, <1>5
  <2>2. PICK k \in DOMAIN extracted :
           Extract!Distance(SmoothWindow * (route[i] - route[1]), extracted[k]) < Apart + Lag
    BY <1>3, <1>5, CoveredIs DEF ExtractInv
  <2>3. k \in DOMAIN extracted' /\ extracted'[k] = extracted[k]
    <3>1. UNCHANGED extracted \/ \E m \in Int : extracted' = Append(extracted, m)
      <4>1. PICK x \in Int : Extract!add_waypoint(x)
        BY <1>2
      <4>2. last' \in Int
        BY <1>1, <4>1, AddWaypoint
      <4> QED BY <1>1, <4>1, <4>2, AddWaypoint
    <3>2. ASSUME NEW m \in Int, extracted' = Append(extracted, m)
          PROVE  k \in DOMAIN extracted' /\ extracted'[k] = extracted[k]
      BY <1>2, <3>2
    <3> QED BY <3>1, <3>2
  <2> QED BY <2>1, <2>2, <2>3
<1> QED BY <1>3, <1>4, <1>5

LEMMA ExtractKeeps ==
    ASSUME Extract!ExtractorAssumption, ExtractInv, [Extract!Next]_(Extract!vars)
    PROVE  ExtractInv'
<1>1. CASE UNCHANGED Extract!vars
  BY <1>1 DEF Extract!vars, Extract!origins, Extract!output, ExtractInv, ExtractTypes, OneSource,
              Newest, LastPlace, Extract!Spaced, Extract!Covered
<1>2. CASE Extract!Message
  <2>1. ExtractTypes' /\ Extract!Spaced'
    BY <1>2, ExtractTypesKept, SpacedKept DEF ExtractInv
  <2>2. used' = used
    BY <1>2 DEF Extract!Message
  <2>3. used' # {"ins", "gps"} => OneSource'
    BY <1>2, <2>2, MessageOneSource
  <2>4. Extract!Covered'
    <3> DEFINE bound == SmoothWindow * (DistanceThreshold + (SmoothWindow - 1) * MaxStep)
    <3>1. bound = Apart + Lag
      BY ExtractParameters
    <3>2. used # {"ins", "gps"} =>
            \A i \in DOMAIN route' : \E k \in DOMAIN extracted' :
              Extract!Distance(SmoothWindow * (route'[i] - route'[1]), extracted'[k]) < bound
      <4> HIDE DEF bound
      <4> QED BY <1>2, <3>1, CoveredKept
    <3> QED BY <2>2, <3>2 DEF Extract!Covered
  <2> QED BY <2>1, <2>3, <2>4 DEF ExtractInv
<1> QED BY <1>1, <1>2 DEF Extract!Next

LEMMA ExtractTypeOK ==
    ASSUME Extract!ExtractorAssumption, ExtractInv PROVE Extract!TypeOK
<1>1. last # None => extracted # <<>>
  BY DEF ExtractInv, ExtractTypes
<1>2. extracted # <<>> => last = Extract!Last(extracted)
  BY DEF ExtractInv, ExtractTypes, Extract!Last
<1> QED BY <1>1, <1>2 DEF ExtractInv, ExtractTypes, Extract!TypeOK

----------------------------------------------------------------------------
(***************************************************************************)
(* Side by side.  A step of one program leaves the others alone, so that   *)
(* what each keeps by itself they keep together.                           *)
(***************************************************************************)
ProgramInv ==
    /\ ProxyInv /\ LoggerInv /\ ImuInv /\ YawInv /\ PoseInv /\ ExtractInv

LEMMA ProgramInits == Init => ProgramInv
<1> SUFFICES ASSUME Init PROVE ProgramInv
  OBVIOUS
<1>1. PInit /\ LInit /\ Imu!Init /\ Pose!Init /\ Imu!YInit /\ Extract!Init
  BY DEF Init
<1> QED BY <1>1, ProgramsAssumption, ProxyInit, LoggerInit, ImuInits, YawInits, PoseInits,
           ExtractInits DEF ProgramInv

\* One step of all of them is a step of each, or leaves it alone.
LEMMA EachSteps ==
    [Next]_vars => /\ [PNext]_pvars /\ [LNext]_lvars
                   /\ [Imu!Next]_(Imu!vars) /\ [Imu!YNext]_(Imu!yawVars)
                   /\ [Pose!Next]_(Pose!vars) /\ [Extract!Next]_(Extract!vars)
<1> SUFFICES ASSUME [Next]_vars
             PROVE  /\ [PNext]_pvars /\ [LNext]_lvars
                    /\ [Imu!Next]_(Imu!vars) /\ [Imu!YNext]_(Imu!yawVars)
                    /\ [Pose!Next]_(Pose!vars) /\ [Extract!Next]_(Extract!vars)
  OBVIOUS
<1>1. [PNext]_pvars /\ [LNext]_lvars
  BY DEF Next, Only, vars
<1>2. [Imu!YNext]_(Imu!yawVars)
  BY DEF Next, Only, vars, yawVars, Imu!yawVars
<1>3. [Imu!Next]_(Imu!vars)
  BY DEF Next, Only, vars, imuVars, Imu!vars, Imu!rover, Imu!node
<1>4. [Pose!Next]_(Pose!vars)
  BY DEF Next, Only, vars, poseVars, Pose!vars, Pose!rover, Pose!nodes, Pose!published
<1>5. [Extract!Next]_(Extract!vars)
  BY DEF Next, Only, vars, extractVars, Extract!vars, Extract!origins, Extract!output
<1> QED BY <1>1, <1>2, <1>3, <1>4, <1>5

LEMMA ProgramStep == ProgramInv /\ [Next]_vars => ProgramInv'
<1> SUFFICES ASSUME ProgramInv, [Next]_vars PROVE ProgramInv'
  OBVIOUS
<1>1. /\ [PNext]_pvars /\ [LNext]_lvars
      /\ [Imu!Next]_(Imu!vars) /\ [Imu!YNext]_(Imu!yawVars)
      /\ [Pose!Next]_(Pose!vars) /\ [Extract!Next]_(Extract!vars)
  BY EachSteps
<1>2. ProxyInv' /\ LoggerInv'
  BY <1>1, ProgramsAssumption, ProxyStep, LoggerStep DEF ProgramInv, ProgramsAssumption
<1>3. ImuInv' /\ YawInv'
  BY <1>1, ProgramsAssumption, ImuKeeps, YawKeeps DEF ProgramInv, ProgramsAssumption
<1>4. PoseInv' /\ ExtractInv'
  BY <1>1, ProgramsAssumption, PoseKeeps, ExtractKeeps DEF ProgramInv, ProgramsAssumption
<1> QED BY <1>2, <1>3, <1>4 DEF ProgramInv

\* Dead reckoning that was calibrated at rest knows its attitude and does not
\* drift, the yaw rate is wrong by no more than what spoiled its calibration, and
\* the waypoints cover the route: for any rates, pushes and stamps, drift, window
\* and threshold.
THEOREM NodesLocalise == Spec => []Localised
<1>1. Init => ProgramInv
  BY ProgramInits
<1>2. ProgramInv => Localised
  BY ProgramsAssumption, ExtractTypeOK
     DEF ProgramInv, ProgramsAssumption, Localised, ProxyInv, LoggerInv, ImuInv, YawInv,
         PoseInv, ExtractInv
<1> QED BY <1>1, <1>2, ProgramStep, PTL DEF Spec

\* All sources of poses see the rover go and turn the same way, wherever it was
\* when each of them started, and whatever the last fix was.
THEOREM PosesAgree == Spec => SourcesAgree
<1>1. Init => ProgramInv
  BY ProgramInits
<1>2. ProgramInv => Pose!FacesAhead
  BY DEF ProgramInv, PoseInv
<1>3. ProgramInv /\ [Next]_vars => [GoesTheSameWay]_(Pose!vars)
  BY ProgramsAssumption, EachSteps, PoseKeeps DEF ProgramInv, ProgramsAssumption
<1>4. [][GoesTheSameWay]_(Pose!vars) <=> Pose!SameWay
  BY DEF GoesTheSameWay, Pose!SameWay
<1> QED BY <1>1, <1>2, <1>3, <1>4, ProgramStep, PTL DEF Spec, SourcesAgree

=============================================================================
