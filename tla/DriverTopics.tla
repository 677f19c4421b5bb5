----------------------------- MODULE DriverTopics -----------------------------
(***************************************************************************)
(* What inertial_sense_node publishes of the messages of its device, where *)
(* it is not a copy of one message: the gps topic, the gps/obs topic, and  *)
(* the times that all topics are stamped with.                             *)
(***************************************************************************)
EXTENDS Integers, Sequences, SequencesExt, FiniteSets, WellFoundedInduction, TLAPS

CONSTANTS MaxEpoch,     \* epochs of a behaviour
          PerWeek,      \* epochs in a week
          MaxDamaged,   \* messages that do not arrive
          MaxTime,      \* measurement times
          MaxObs,       \* observations that are told apart at a time
          Pause,        \* silence, in ticks, after which a bundle is published
          Boots,        \* times at which the device was started
          MaxUptime     \* bound on the time since then

\* The offset of a device that was started with the week is 0, which the node
\* takes for none; and a velocity that waits for its position is not taken for
\* one of the last week, which was the last to have a position.
TopicsAssumption ==
    /\ {MaxEpoch, MaxDamaged, MaxObs, Pause, MaxUptime} \subseteq Nat
    /\ MaxTime \in Nat \ {0} /\ PerWeek \in Nat /\ MaxDamaged + 1 < PerWeek
    /\ Boots \subseteq Nat /\ \A b \in Boots : b % PerWeek # 0

----------------------------------------------------------------------------
(***************************************************************************)
(* The gps topic: the position and the velocity of an epoch come in        *)
(* messages of their own, in either order, either of which may be damaged  *)
(* on the way; one message is published when the stamps of the latest two  *)
(* agree.                                                                  *)
(*                                                                         *)
(* A velocity message has no week number, and no offset to GPS time: the   *)
(* node uses those of the last position.  Without an offset the stamp is   *)
(* an estimate from the local clock, and two estimates for one epoch may   *)
(* or may not be equal.                                                    *)
(***************************************************************************)
VARIABLES epoch, told, offset, damaged,    \* the receiver
          week, towOffset,                 \* GPS_week_, GPS_towOffset_ # 0
          pos, vel,                        \* gps_msg_, gps_velEcef_
          fixes,                           \* what was published
          got                              \* messages of the epoch that came in
                                           \* with week and offset known

receiver == <<epoch, told, offset, damaged>>
node == <<week, towOffset, pos, vel, fixes>>
fixVars == <<receiver, node, got>>

Kinds == {"pos", "vel"}
WeekOf(e) == e \div PerWeek

TowOf(e) == e % PerWeek

None == [epoch |-> -1, stamp |-> <<"none", 0, 0>>]

\* ros_time_from_week_and_tow; guess tells two readings of the clock apart.
Stamp(w, known, e, guess) ==
    IF known THEN <<"gps", w, TowOf(e)>> ELSE <<"local", e, guess>>

Stamps ==
    {<<"none", 0, 0>>} \cup {<<"local", e, g>> : e \in 0..MaxEpoch, g \in {0, 1}}
        \cup {<<"gps", w, t>> : w \in 0..WeekOf(MaxEpoch), t \in 0..PerWeek - 1}

FInit ==
    /\ epoch = 0 /\ told = {} /\ offset \in BOOLEAN /\ damaged = 0
    /\ week = 0 /\ towOffset = FALSE
    /\ pos = None /\ vel = None
    /\ fixes = <<>> /\ got = {}

\* Mutant of publishGPS: every message publishes what there is.
publishUnpaired(p, v) == fixes' = Append(fixes, <<p.epoch, v.epoch>>)

\* publishGPS, with position p and velocity v.
publishGPS(p, v) ==
    fixes' = IF v.stamp = p.stamp THEN Append(fixes, <<p.epoch, v.epoch>>) ELSE fixes

\* Mutant of PosCallback: only velocities publish.
PosCallbackSilent(guess) ==
    /\ week' = WeekOf(epoch) /\ towOffset' = offset
    /\ pos' = [epoch |-> epoch, stamp |-> Stamp(week', towOffset', epoch, guess)]
    /\ UNCHANGED <<vel, fixes>>

\* GPS_pos_callback
PosCallback(guess) ==
    /\ week' = WeekOf(epoch) /\ towOffset' = offset
    /\ pos' = [epoch |-> epoch, stamp |-> Stamp(week', towOffset', epoch, guess)]
    /\ vel' = vel
    /\ publishGPS(pos', vel)

\* GPS_vel_callback
VelCallback(guess) ==
    /\ vel' = [epoch |-> epoch, stamp |-> Stamp(week, towOffset, epoch, guess)]
    /\ UNCHANGED <<week, towOffset, pos>>
    /\ publishGPS(pos, vel')

Known(kind) == offset /\ (kind = "pos" \/ (towOffset /\ week = WeekOf(epoch)))

Arrives(kind) ==
    /\ kind \notin told /\ told' = told \cup {kind}
    /\ UNCHANGED <<epoch, offset, damaged>>
    /\ \E guess \in {0, 1} :
           \/ kind = "pos" /\ PosCallback(guess)
           \/ kind = "vel" /\ VelCallback(guess)
    /\ got' = IF Known(kind) THEN got \cup {kind} ELSE got

Damage(kind) ==
    /\ kind \notin told /\ told' = told \cup {kind}
    /\ damaged < MaxDamaged /\ damaged' = damaged + 1
    /\ UNCHANGED <<epoch, offset, node, got>>

\* The receiver may learn its offset to GPS time between two epochs.
NextEpoch ==
    /\ told = Kinds /\ epoch < MaxEpoch
    /\ epoch' = epoch + 1 /\ told' = {} /\ got' = {}
    /\ offset' \in {offset, TRUE}
    /\ UNCHANGED <<damaged, node>>

FNext == (\E kind \in Kinds : Arrives(kind) \/ Damage(kind)) \/ NextEpoch

FSpec == FInit /\ [][FNext]_fixVars

Message == [epoch : -1..MaxEpoch, stamp : Stamps]

FTypeOK ==
    /\ epoch \in 0..MaxEpoch /\ told \subseteq Kinds /\ got \subseteq Kinds
    /\ offset \in BOOLEAN /\ damaged \in 0..MaxDamaged
    /\ week \in 0..WeekOf(MaxEpoch) /\ towOffset \in BOOLEAN
    /\ {pos, vel} \subseteq Message
    /\ fixes \in Seq((0..MaxEpoch) \X (0..MaxEpoch))

\* A published message has the position and the velocity of one epoch, and no
\* epoch is published twice.  It is true while no week passes from one position
\* to the velocity that comes before the next.
PairedFix ==
    \A i \in DOMAIN fixes :
        /\ fixes[i][1] = fixes[i][2]
        /\ \A j \in 1..i - 1 : fixes[j][1] < fixes[i][1]

\* An epoch of which both messages came in with week and offset known is
\* published, in whichever order they came.
FixPublished == got = Kinds => Contains(fixes, <<epoch, epoch>>)

----------------------------------------------------------------------------
(***************************************************************************)
(* The gps/obs topic: raw observations come in messages of one measurement *)
(* time each, from several receivers, and are gathered in obs_Vec_; a      *)
(* timer publishes the bundle when nothing came for a while.  A message of *)
(* another time calls the timer's function first, which may still find     *)
(* that too little time has passed.                                        *)
(***************************************************************************)
VARIABLES time,       \* measurement time of the latest message
          idle,       \* now() - last_obs_time_, up to Pause + 1
          obs,        \* obs_Vec_
          bundles,    \* what was published
          received    \* every observation that came in, in order

obsVars == <<time, idle, obs, bundles, received>>

\* near: it came within Pause of the one before.
Observation == [time : 1..MaxTime, near : BOOLEAN]

OInit ==
    /\ time = 1 /\ idle = Pause + 1
    /\ obs = <<>> /\ bundles = <<>> /\ received = <<>>

\* Mutant of Due: whatever waits is published at once.
DueAtOnce(vec) == vec # <<>>

\* Mutant of Left: the vector is not cleared.
LeftAll(vec) == vec

\* GPS_obs_bundle_timer_callback: what it leaves in obs_Vec_, and publishes.
Due(vec) == vec # <<>> /\ idle > Pause
Left(vec) == IF Due(vec) THEN <<>> ELSE vec
Publish(vec) == bundles' = IF Due(vec) THEN Append(bundles, vec) ELSE bundles

\* The observations of one message; only the first has to wait for its turn.
Batch(t, n) ==
    [i \in 1..n |-> [time |-> t, near |-> i > 1 \/ idle <= Pause]]

NewTime(t) == obs # <<>> /\ t # obs[1].time

\* GPS_obs_callback
Observe(t, n) ==
    /\ Len(received) + n <= MaxObs
    /\ time' = t
    /\ IF NewTime(t) THEN Publish(obs) /\ obs' = Left(obs) \o Batch(t, n)
       ELSE bundles' = bundles /\ obs' = obs \o Batch(t, n)
    /\ idle' = 0
    /\ received' = received \o Batch(t, n)

\* Mutant of Timer: a timer that fires once.
TimerOnce ==
    /\ bundles = <<>> /\ Due(obs) /\ Publish(obs) /\ obs' = Left(obs)
    /\ UNCHANGED <<time, idle, received>>

Timer ==
    /\ Due(obs) /\ Publish(obs) /\ obs' = Left(obs)
    /\ UNCHANGED <<time, idle, received>>

\* What comes after MaxObs observations, where it joins those that wait: it is
\* not told apart from them, and keeps the timer from publishing as they do.
ObserveMore(t) ==
    /\ Len(received) >= MaxObs - 1 /\ obs # <<>>
    /\ ~(NewTime(t) /\ Due(obs))
    /\ time' = t /\ idle' = 0
    /\ UNCHANGED <<obs, bundles, received>>

\* Where nothing waits the record of the past may be dropped, so that the
\* stream of observations has no end.
Forget ==
    /\ Len(received) >= MaxObs - 1 /\ obs = <<>>
    /\ bundles' = <<>> /\ received' = <<>>
    /\ UNCHANGED <<time, idle, obs>>

Silence == idle <= Pause /\ idle' = idle + 1 /\ UNCHANGED <<time, obs, bundles, received>>

ONext ==
    \/ \E t \in (time - 1..time + 1) \cap (1..MaxTime) :
           ObserveMore(t) \/ \E n \in 1..2 : Observe(t, n)
    \/ Timer \/ Silence \/ Forget

\* main turns a thousand times a second, and every turn runs the timer, whose
\* period is one turn, before it reads messages: one of the pauses that are
\* longer than Pause is found by the timer, though perhaps not the first.
OFairness == SF_obsVars(Timer) /\ WF_obsVars(Silence)
OSpec == OInit /\ [][ONext]_obsVars /\ OFairness

OTypeOK ==
    /\ time \in 1..MaxTime /\ idle \in 0..Pause + 1
    /\ {obs, received} \subseteq Seq(Observation)
    /\ bundles \in Seq(Seq(Observation))

\* Every observation that came in is published once or still waits, in the
\* order in which they came.
ObsConserved == received = FlattenSeq(Append(bundles, obs))

\* Observations that come together are published together: a bundle begins
\* with one that came after a pause.
PauseBetween == \A i \in DOMAIN bundles : bundles[i] # <<>> /\ ~bundles[i][1].near

\* What waits is published in the end, if the stream has pauses again and
\* again.  It has to: every observation renews last_obs_time_, also one of
\* another time, and a stream whose observations are never more than 10 ms
\* apart is never published.
ObsPublished == []<>(idle > Pause) => []<>(obs = <<>>)

\* "time of all contained observations" (GNSSObsVec.msg): a bundle has one.
OneTimePerBundle ==
    \A i \in DOMAIN bundles : \A j \in DOMAIN bundles[i] :
        bundles[i][j].time = bundles[i][1].time

----------------------------------------------------------------------------
(***************************************************************************)
(* The stamps of all topics.  Messages of the device carry GPS week and    *)
(* time of week, a time of week alone, or the time since the device was    *)
(* started; the node knows the week, and the offset between the last two,  *)
(* from the last position.  Before, it puts the average of (local time -   *)
(* time in the message), over all messages of all kinds, for the offset    *)
(* between device and host.                                                *)
(*                                                                         *)
(* Times are GPS times.  The host's clock is right, and messages take no   *)
(* time, so that an average over equal differences is exact; one over      *)
(* others comes near them but does not get there.                          *)
(***************************************************************************)
VARIABLES boot, uptime,
          locked,           \* the device knows GPS time
          gpsWeek, gpsOffset,  \* GPS_week_, GPS_towOffset_
          averaged,         \* the differences that INS_local_offset_ averages
          located,          \* a position came from a device that knew GPS time
          last              \* what was stamped last

stampVars == <<boot, uptime, locked, gpsWeek, gpsOffset, averaged, located, last>>

Now == boot + uptime
Tow == IF locked THEN Now % PerWeek ELSE uptime
WeekNow == IF locked THEN Now \div PerWeek ELSE 0

Inexact == -1

\* The topics, by the time in their messages.
Dated == {"ins", "strobe_time"}
Bare == {"gps/info", "RTK/info", "RTK/rel"}
Sensors == {"imu", "mag", "baro", "preint_imu"}

Nothing == [topic |-> "none", at |-> 0, stamp |-> 0, week |-> 0, located |-> FALSE]

SInit ==
    /\ boot \in Boots /\ uptime = 0 /\ locked \in BOOLEAN
    /\ gpsWeek = 0 /\ gpsOffset = 0 /\ averaged = {} /\ located = FALSE
    /\ last = Nothing

\* The branches without GPS time, of both functions below.
Estimated(at) ==
    LET all == averaged \cup {Now - at}
    IN  [stamp |-> IF all = {Now - at} THEN Now ELSE Inexact, averaged |-> all]

ros_time_from_week_and_tow(w, tow) ==
    IF gpsOffset # 0 THEN [stamp |-> w * PerWeek + tow, averaged |-> averaged]
    ELSE Estimated(tow)

\* Mutant of ros_time_from_start_time: the time of week is kept in its week.
ros_time_from_start_time_wrapped(at) ==
    IF gpsOffset > 0
    THEN [stamp |-> (gpsWeek * PerWeek) + ((at + gpsOffset) % PerWeek), averaged |-> averaged]
    ELSE Estimated(at)

ros_time_from_start_time(at) ==
    IF gpsOffset > 0
    THEN [stamp |-> gpsWeek * PerWeek + at + gpsOffset, averaged |-> averaged]
    ELSE Estimated(at)

Stamped(topic, s) ==
    /\ last' = [topic |-> topic, at |-> Now, stamp |-> s.stamp, week |-> gpsWeek,
                located |-> located]
    /\ averaged' = s.averaged
    /\ UNCHANGED <<boot, uptime, locked, gpsWeek, gpsOffset, located>>

\* INS2_callback, strobe_in_time_callback
DatedCallback(topic) == Stamped(topic, ros_time_from_week_and_tow(WeekNow, Tow))

\* GPS_info_callback, RTK_Misc_callback, RTK_Rel_callback
BareCallback(topic) == Stamped(topic, ros_time_from_week_and_tow(gpsWeek, Tow))

\* IMU_callback, mag_callback, baro_callback, preint_IMU_callback
SensorCallback(topic) == Stamped(topic, ros_time_from_start_time(uptime))

\* wheel_enc_callback: the time of the joint states is the host's; the device
\* takes the time of week it is sent for one of its own week.
tow_from_ros_time(at) == at - gpsWeek * PerWeek
wheel_enc_callback ==
    Stamped("wheel", [stamp |-> WeekNow * PerWeek + tow_from_ros_time(Now), averaged |-> averaged])

GPS_pos_callback ==
    /\ gpsWeek' = WeekNow /\ gpsOffset' = IF locked THEN Tow - uptime ELSE 0
    /\ located' = locked
    /\ UNCHANGED <<boot, uptime, locked, averaged, last>>

\* Time passes; the device learns GPS time.
Tick == uptime < MaxUptime /\ uptime' = uptime + 1
        /\ UNCHANGED <<boot, locked, gpsWeek, gpsOffset, averaged, located, last>>
Lock == ~locked /\ locked' = TRUE
        /\ UNCHANGED <<boot, uptime, gpsWeek, gpsOffset, averaged, located, last>>

SNext ==
    \/ Tick \/ Lock \/ GPS_pos_callback
    \/ \E topic \in Dated : DatedCallback(topic)
    \/ \E topic \in Bare : BareCallback(topic)
    \/ \E topic \in Sensors : SensorCallback(topic)
    \/ locked /\ wheel_enc_callback
SSpec == SInit /\ [][SNext]_stampVars

\* Once a position with GPS time has come, also over the end of a week: what
\* carries its week is stamped right; what carries a time of week is from the
\* first position of the week on; and so are the sensors, in the week in which
\* the device was started and the time after it until a position comes.  From
\* then on they are estimated again, which is right only if no estimate was
\* ever made from a time of week.
StampsRight ==
    last.located =>
        \/ last.stamp = last.at
        \/ last.topic \in Bare \cup {"wheel"} /\ last.week # last.at \div PerWeek
        \/ last.topic \in Sensors /\ last.week # boot \div PerWeek /\ averaged # {boot}

----------------------------------------------------------------------------
\* gps: position and velocity of one epoch, and no complete epoch left out.
\* gps/obs: nothing lost or repeated, nothing torn apart.
\* All topics: stamped with the time of what they tell.
TopicsPublished ==
    /\ FTypeOK /\ OTypeOK
    /\ PairedFix /\ FixPublished
    /\ ObsConserved /\ PauseBetween
    /\ StampsRight

----------------------------------------------------------------------------
(***************************************************************************)
(* The gps topic.  Two messages of one stamp are of one epoch: with the    *)
(* same time of week they would be weeks apart, and there is a position in *)
(* every week; and an epoch is published when its second message comes.    *)
(***************************************************************************)

\* What a message that came has for its epoch.
Dates(m) ==
    \/ m = None
    \/ /\ m.epoch \in 0..epoch
       /\ \/ m.stamp \in {<<"local", m.epoch, g>> : g \in {0, 1}}
          \/ m.stamp[1] = "gps" /\ m.stamp = <<"gps", m.stamp[2], TowOf(m.epoch)>>

\* A position has its own week, and it is the week the node knows; a velocity
\* has that of a position before it.
Weeks ==
    /\ week = IF pos = None THEN 0 ELSE WeekOf(pos.epoch)
    /\ pos # None /\ pos.stamp[1] = "gps" => pos.stamp[2] = week
    /\ towOffset <=> pos # None /\ pos.stamp[1] = "gps"
    /\ vel # None /\ vel.stamp[1] = "gps" =>
          vel.stamp[2] \in 0..WeekOf(vel.epoch)

\* Messages of the epoch came since it began; and how long positions may have
\* been missing.
Recent ==
    /\ pos.epoch = epoch => "pos" \in told
    /\ vel.epoch = epoch => "vel" \in told
    /\ pos.epoch + damaged + (IF "pos" \in told THEN 0 ELSE 1) >= epoch

\* What is published is over, or complete; what is complete is published.
Published ==
    /\ \A i \in DOMAIN fixes : fixes[i][1] = epoch => told = Kinds
    /\ got \subseteq told
    /\ "pos" \in got => pos.epoch = epoch /\ pos.stamp = <<"gps", WeekOf(epoch), TowOf(epoch)>>
    /\ "vel" \in got => vel.epoch = epoch /\ vel.stamp = <<"gps", WeekOf(epoch), TowOf(epoch)>>

FixTypes ==
    /\ FTypeOK
    /\ pos.epoch \in -1..epoch /\ vel.epoch \in -1..epoch
    /\ \A i \in DOMAIN fixes : fixes[i][1] \in 0..epoch
FixInv ==
    FixTypes /\ Dates(pos) /\ Dates(vel) /\ Weeks /\ Recent /\ Published /\ PairedFix /\ FixPublished

\* Epochs of a week, and weeks.
LEMMA WeekIs ==
    ASSUME TopicsAssumption, NEW e \in Nat
    PROVE  /\ WeekOf(e) \in Nat /\ TowOf(e) \in 0..(PerWeek - 1)
           /\ e = PerWeek * WeekOf(e) + TowOf(e)
           /\ PerWeek \in Nat /\ PerWeek > 1
<1>1. PerWeek \in Nat /\ PerWeek > 1
  BY DEF TopicsAssumption
<1> QED BY <1>1 DEF WeekOf, TowOf

LEMMA Products == ASSUME NEW a \in Nat, NEW b \in Nat, NEW k \in Nat, a < b
                  PROVE  k * a + k <= k * b
<1>1. PICK d \in Nat : b = a + 1 + d
  <2>1. b - (a + 1) \in Nat /\ b = a + 1 + (b - (a + 1))
    OBVIOUS
  <2> QED BY <2>1
<1>2. k * (a + 1 + d) = k * a + k + k * d /\ k * d \in Nat /\ k * a \in Nat
  OBVIOUS
<1> QED BY <1>1, <1>2

LEMMA LaterWeek ==
    ASSUME TopicsAssumption, NEW e \in Nat, NEW f \in Nat, e <= f
    PROVE  WeekOf(e) <= WeekOf(f)
<1> DEFINE a == WeekOf(e)
           b == WeekOf(f)
<1>1. /\ a \in Nat /\ b \in Nat /\ PerWeek \in Nat /\ TowOf(f) < PerWeek /\ TowOf(e) >= 0
      /\ TowOf(e) \in Nat /\ TowOf(f) \in Nat
      /\ e = PerWeek * a + TowOf(e) /\ f = PerWeek * b + TowOf(f)
  BY WeekIs
<1> HIDE DEF a, b
<1>2. ASSUME b < a PROVE FALSE
  <2>1. PerWeek * b + PerWeek <= PerWeek * a
    BY <1>1, <1>2, Products
  <2>2. PerWeek * a \in Nat /\ PerWeek * b \in Nat
    BY <1>1
  <2> QED BY <1>1, <2>1, <2>2
<1>3. a <= b
  BY <1>1, <1>2
<1> QED BY <1>3 DEF a, b

\* Two epochs at one time of the week are the same, or in different weeks.
LEMMA SameTow ==
    ASSUME TopicsAssumption, NEW e \in Nat, NEW f \in Nat, e <= f, TowOf(e) = TowOf(f)
    PROVE  e = f \/ (e + PerWeek <= f /\ WeekOf(e) < WeekOf(f))
<1> DEFINE a == WeekOf(e)
           b == WeekOf(f)
<1>1. /\ a \in Nat /\ b \in Nat /\ PerWeek \in Nat /\ TowOf(e) \in Nat
      /\ e = PerWeek * a + TowOf(e) /\ f = PerWeek * b + TowOf(e)
  BY WeekIs
<1>2. a <= b
  BY LaterWeek
<1> HIDE DEF a, b
<1>3. CASE a = b
  BY <1>1, <1>3
<1>4. CASE a < b
  <2>1. PerWeek * a + PerWeek <= PerWeek * b
    BY <1>1, <1>4, Products
  <2>2. PerWeek * a \in Nat /\ PerWeek * b \in Nat
    BY <1>1
  <2>3. e + PerWeek <= f
    BY <1>1, <2>1, <2>2
  <2> QED BY <1>4, <2>3 DEF a, b
<1> QED BY <1>1, <1>2, <1>3, <1>4

LEMMA StampIs ==
    ASSUME NEW w, NEW known \in BOOLEAN, NEW e, NEW guess \in {0, 1}
    PROVE  \/ known /\ Stamp(w, known, e, guess) = <<"gps", w, TowOf(e)>>
           \/ ~known /\ Stamp(w, known, e, guess) = <<"local", e, guess>>
BY DEF Stamp

LEMMA TriplesEqual ==
    ASSUME NEW a, NEW b, NEW c, NEW x, NEW y, NEW z, <<a, b, c>> = <<x, y, z>>
    PROVE  a = x /\ b = y /\ c = z
OBVIOUS

\* A position is paired with the velocity of its epoch.
LEMMA PosPairs ==
    ASSUME TopicsAssumption, FixInv, NEW guess \in {0, 1}, PosCallback(guess),
           vel.stamp = pos'.stamp
    PROVE  vel.epoch = epoch /\ vel # None
<1>0. epoch \in Nat /\ offset \in BOOLEAN
  BY DEF FixInv, FixTypes, FTypeOK
<1>1. pos'.stamp = Stamp(WeekOf(epoch), offset, epoch, guess)
  BY DEF PosCallback
<1>2. vel # None
  <2>1. pos'.stamp[1] # "none"
    BY <1>0, <1>1, StampIs
  <2> QED BY <2>1 DEF None
<1>3. vel.epoch \in 0..epoch
  BY <1>2 DEF FixInv, Dates
<1>4. CASE offset
  <2>1. pos'.stamp = <<"gps", WeekOf(epoch), TowOf(epoch)>>
    BY <1>1, <1>4, StampIs
  <2>2. vel.stamp[1] = "gps" /\ vel.stamp[2] = WeekOf(epoch)
    BY <2>1
  <2>3. vel.stamp = <<"gps", WeekOf(epoch), TowOf(vel.epoch)>>
    <3>1. vel.stamp \notin {<<"local", vel.epoch, g>> : g \in {0, 1}}
      BY <2>2
    <3> QED BY <1>2, <2>2, <3>1 DEF FixInv, Dates
  <2>4. TowOf(vel.epoch) = TowOf(epoch)
    BY <2>1, <2>3, TriplesEqual
  <2>5. WeekOf(epoch) \in 0..WeekOf(vel.epoch)
    BY <1>2, <2>2 DEF FixInv, Weeks
  <2>6. vel.epoch \in Nat /\ vel.epoch <= epoch
    BY <1>0, <1>3
  <2>7. vel.epoch = epoch \/ WeekOf(vel.epoch) < WeekOf(epoch)
    BY <1>0, <2>4, <2>6, SameTow
  <2>8. WeekOf(vel.epoch) \in Nat /\ WeekOf(epoch) \in Nat
    BY <1>0, <2>6, WeekIs
  <2> QED BY <1>2, <2>5, <2>7, <2>8
<1>5. CASE ~offset
  <2>1. pos'.stamp = <<"local", epoch, guess>>
    BY <1>0, <1>1, <1>5, StampIs
  <2>2. vel.stamp[1] = "local"
    BY <2>1
  <2>3. PICK g \in {0, 1} : vel.stamp = <<"local", vel.epoch, g>>
    BY <1>2, <2>2 DEF FixInv, Dates
  <2>4. <<"local", epoch, guess>> = <<"local", vel.epoch, g>>
    BY <2>1, <2>3
  <2> QED BY <1>2, <2>4, TriplesEqual
<1> QED BY <1>0, <1>4, <1>5

\* And a velocity with the position of its epoch.
LEMMA VelPairs ==
    ASSUME TopicsAssumption, FixInv, "vel" \notin told, NEW guess \in {0, 1}, VelCallback(guess),
           vel'.stamp = pos.stamp
    PROVE  pos.epoch = epoch /\ pos # None
<1>0. epoch \in Nat /\ towOffset \in BOOLEAN
  BY DEF FixInv, FixTypes, FTypeOK
<1>1. vel'.stamp = Stamp(week, towOffset, epoch, guess)
  BY DEF VelCallback
<1>2. pos # None
  <2>1. vel'.stamp[1] # "none"
    BY <1>0, <1>1, StampIs
  <2> QED BY <2>1 DEF None
<1>3. pos.epoch \in 0..epoch
  BY <1>2 DEF FixInv, Dates
<1>4. CASE towOffset
  <2>1. vel'.stamp = <<"gps", week, TowOf(epoch)>>
    BY <1>1, <1>4, StampIs
  <2>2. pos.stamp[1] = "gps"
    BY <2>1
  <2>3. pos.stamp = <<"gps", pos.stamp[2], TowOf(pos.epoch)>>
    <3>1. pos.stamp \notin {<<"local", pos.epoch, g>> : g \in {0, 1}}
      BY <2>2
    <3> QED BY <1>2, <3>1 DEF FixInv, Dates
  <2>4. TowOf(pos.epoch) = TowOf(epoch)
    BY <2>1, <2>3, TriplesEqual
  <2>5. pos.epoch \in Nat /\ pos.epoch <= epoch
    BY <1>0, <1>3
  <2>6. pos.epoch = epoch \/ pos.epoch + PerWeek <= epoch
    BY <1>0, <2>4, <2>5, SameTow
  <2>7. pos.epoch + damaged + 1 >= epoch
    BY <1>0, <2>5 DEF FixInv, Recent, FixTypes, FTypeOK
  <2>8. damaged \in 0..MaxDamaged /\ MaxDamaged \in Nat /\ PerWeek \in Nat /\ MaxDamaged + 1 < PerWeek
    BY DEF FixInv, FixTypes, FTypeOK, TopicsAssumption
  <2> QED BY <1>0, <1>2, <2>5, <2>6, <2>7, <2>8
<1>5. CASE ~towOffset
  <2>1. vel'.stamp = <<"local", epoch, guess>>
    BY <1>0, <1>1, <1>5, StampIs
  <2>2. pos.stamp[1] = "local"
    BY <2>1
  <2>3. PICK g \in {0, 1} : pos.stamp = <<"local", pos.epoch, g>>
    BY <1>2, <2>2 DEF FixInv, Dates
  <2>4. <<"local", epoch, guess>> = <<"local", pos.epoch, g>>
    BY <2>1, <2>3
  <2> QED BY <1>2, <2>4, TriplesEqual
<1> QED BY <1>0, <1>4, <1>5

\* One pair more, which is of the current epoch and was not there.
LEMMA OnePairMore ==
    ASSUME FixInv, NEW more, more = <<epoch, epoch>>, fixes' = Append(fixes, more),
           epoch' = epoch, told # Kinds
    PROVE  /\ PairedFix' /\ fixes' \in Seq((0..MaxEpoch) \X (0..MaxEpoch))
           /\ \A i \in DOMAIN fixes' : fixes'[i][1] \in 0..epoch
           /\ Contains(fixes', <<epoch, epoch>>)
<1>1. /\ fixes \in Seq((0..MaxEpoch) \X (0..MaxEpoch)) /\ epoch \in 0..MaxEpoch
      /\ PairedFix /\ \A i \in DOMAIN fixes : fixes[i][1] \in 0..epoch /\ fixes[i][1] # epoch
  BY DEF FixInv, FixTypes, FTypeOK, Published
<1>2. /\ fixes' \in Seq((0..MaxEpoch) \X (0..MaxEpoch)) /\ Len(fixes') = Len(fixes) + 1
      /\ fixes'[Len(fixes) + 1] = <<epoch, epoch>>
      /\ \A i \in 1..Len(fixes) : fixes'[i] = fixes[i] /\ i \in DOMAIN fixes
      /\ DOMAIN fixes' = 1..(Len(fixes) + 1) /\ Len(fixes) \in Nat
  <2>1. more \in (0..MaxEpoch) \X (0..MaxEpoch)
    BY <1>1
  <2> QED BY <1>1, <2>1
<1>3. ASSUME NEW i \in DOMAIN fixes'
      PROVE  /\ fixes'[i][1] = fixes'[i][2] /\ fixes'[i][1] \in 0..epoch
             /\ \A j \in 1..i - 1 : fixes'[j][1] < fixes'[i][1]
  <2>1. CASE i = Len(fixes) + 1
    <3>1. \A j \in 1..i - 1 : fixes'[j][1] = fixes[j][1] /\ j \in DOMAIN fixes
      BY <1>2, <2>1
    <3>2. fixes'[i][1] = epoch /\ fixes'[i][2] = epoch /\ epoch \in 0..epoch
      BY <1>1, <1>2, <2>1
    <3>3. \A j \in 1..i - 1 : fixes'[j][1] < epoch
      BY <1>1, <3>1
    <3> QED BY <3>2, <3>3
  <2>2. CASE i \in 1..Len(fixes)
    <3>1. fixes'[i] = fixes[i] /\ \A j \in 1..i - 1 : fixes'[j] = fixes[j]
      BY <1>2, <2>2
    <3> QED BY <1>1, <1>2, <2>2, <3>1 DEF PairedFix
  <2> QED BY <1>2, <2>1, <2>2
<1>4. Contains(fixes', <<epoch, epoch>>)
  <2>1. Len(fixes) + 1 \in 1..Len(fixes')
    BY <1>2
  <2> QED BY <1>2, <2>1 DEF Contains
<1>5. PairedFix'
  BY <1>3 DEF PairedFix
<1> QED BY <1>2, <1>3, <1>4, <1>5

\* What a message that came becomes.
LEMMA NewMessage ==
    ASSUME TopicsAssumption, NEW w \in 0..WeekOf(MaxEpoch), NEW known \in BOOLEAN,
           NEW guess \in {0, 1}, epoch \in 0..MaxEpoch,
           NEW m, m = [epoch |-> epoch, stamp |-> Stamp(w, known, epoch, guess)]
    PROVE  /\ m \in Message /\ m # None /\ m.epoch = epoch /\ Dates(m)
           /\ m.stamp[1] = "gps" => known /\ m.stamp[2] = w
           /\ known => m.stamp = <<"gps", w, TowOf(epoch)>> /\ m.stamp[1] = "gps"
<1>1. MaxEpoch \in Nat /\ epoch \in Nat
  BY DEF TopicsAssumption
<1>2. TowOf(epoch) \in 0..PerWeek - 1
  BY <1>1, WeekIs
<1>3. m.epoch = epoch /\ m.epoch # -1 /\ m.stamp = Stamp(w, known, epoch, guess)
  BY <1>1
<1>4. m # None
  BY <1>3 DEF None
<1>5. m.stamp \in Stamps
  <2>1. CASE known
    <3>1. m.stamp = <<"gps", w, TowOf(epoch)>>
      BY <1>3, <2>1, StampIs
    <3> QED BY <1>2, <3>1 DEF Stamps
  <2>2. CASE ~known
    <3>1. m.stamp = <<"local", epoch, guess>>
      BY <1>3, <2>2, StampIs
    <3> QED BY <3>1 DEF Stamps
  <2> QED BY <2>1, <2>2
<1>6. m \in Message
  BY <1>3, <1>5 DEF Message
<1>7. CASE known
  <2>1. m.stamp = <<"gps", w, TowOf(epoch)>>
    BY <1>3, <1>7, StampIs
  <2>2. m.stamp[1] = "gps" /\ m.stamp[2] = w
    BY <2>1
  <2>3. Dates(m)
    BY <1>1, <1>3, <2>1, <2>2 DEF Dates
  <2> HIDE DEF Dates
  <2> QED BY <1>3, <1>4, <1>6, <1>7, <2>1, <2>2, <2>3
<1>8. CASE ~known
  <2>1. m.stamp = <<"local", epoch, guess>>
    BY <1>3, <1>8, StampIs
  <2>2. m.stamp[1] # "gps"
    BY <2>1
  <2>3. Dates(m)
    BY <1>1, <1>3, <2>1 DEF Dates
  <2> QED BY <1>3, <1>4, <1>6, <1>8, <2>2, <2>3
<1> QED BY <1>7, <1>8

LEMMA PosKeeps ==
    ASSUME TopicsAssumption, FixInv, "pos" \notin told, told' = told \cup {"pos"},
           UNCHANGED <<epoch, offset, damaged>>, NEW guess \in {0, 1}, PosCallback(guess),
           got' = IF Known("pos") THEN got \cup {"pos"} ELSE got
    PROVE  FixInv'
<1>1. /\ epoch \in 0..MaxEpoch /\ epoch \in Nat /\ MaxEpoch \in Nat /\ offset \in BOOLEAN
      /\ told \subseteq Kinds /\ got \subseteq told /\ damaged \in 0..MaxDamaged /\ MaxDamaged \in Nat
  BY DEF FixInv, FixTypes, FTypeOK, TopicsAssumption, Published
<1>2. /\ week' = WeekOf(epoch) /\ towOffset' = offset /\ vel' = vel
      /\ pos' = [epoch |-> epoch, stamp |-> Stamp(WeekOf(epoch), offset, epoch, guess)]
      /\ fixes' = IF vel.stamp = pos'.stamp THEN Append(fixes, <<pos'.epoch, vel.epoch>>) ELSE fixes
  BY DEF PosCallback, publishGPS
<1>3. WeekOf(epoch) \in 0..WeekOf(MaxEpoch)
  <2>1. WeekOf(epoch) <= WeekOf(MaxEpoch)
    BY <1>1, LaterWeek
  <2>2. WeekOf(epoch) \in Nat /\ WeekOf(MaxEpoch) \in Nat
    BY <1>1, WeekIs
  <2> QED BY <2>1, <2>2
<1>4. /\ pos' \in Message /\ pos' # None /\ pos'.epoch = epoch /\ Dates(pos')
      /\ pos'.stamp[1] = "gps" => offset /\ pos'.stamp[2] = WeekOf(epoch)
      /\ offset => pos'.stamp = <<"gps", WeekOf(epoch), TowOf(epoch)>> /\ pos'.stamp[1] = "gps"
  <2> DEFINE m == [epoch |-> epoch, stamp |-> Stamp(WeekOf(epoch), offset, epoch, guess)]
  <2>1. /\ m \in Message /\ m # None /\ m.epoch = epoch /\ Dates(m)
        /\ m.stamp[1] = "gps" => offset /\ m.stamp[2] = WeekOf(epoch)
        /\ offset => m.stamp = <<"gps", WeekOf(epoch), TowOf(epoch)>> /\ m.stamp[1] = "gps"
    <3> HIDE DEF m
    <3>1. m = [epoch |-> epoch, stamp |-> Stamp(WeekOf(epoch), offset, epoch, guess)]
      BY DEF m
    <3> QED BY <1>1, <1>3, <3>1, NewMessage
  <2>2. pos' = m
    BY <1>2
  <2> HIDE DEF m
  <2> QED BY <2>1, <2>2
<1>5. Dates(pos)' /\ Dates(vel)'
  <2>1. Dates(pos')
    BY <1>4
  <2>2. Dates(vel)
    BY DEF FixInv
  <2> QED BY <1>2, <2>1, <2>2 DEF Dates
<1>6. Weeks'
  <2>1. vel # None /\ vel.stamp[1] = "gps" => vel.stamp[2] \in 0..WeekOf(vel.epoch)
    BY DEF FixInv, Weeks
  <2>2. towOffset' <=> pos' # None /\ pos'.stamp[1] = "gps"
    BY <1>1, <1>2, <1>4
  <2> QED BY <1>2, <1>4, <2>1, <2>2 DEF Weeks
<1>7. "pos" \in told' /\ ("vel" \in told' <=> "vel" \in told) /\ told' \subseteq Kinds
        /\ (told' = Kinds <=> "vel" \in told)
  <2>1. told' = told \cup {"pos"} /\ told \subseteq {"pos", "vel"}
    BY <1>1 DEF Kinds
  <2>2. "vel" \in told => told' = {"pos", "vel"}
    BY <2>1
  <2>3. "vel" \notin told => "vel" \notin told' /\ told' # {"pos", "vel"}
    BY <2>1
  <2> QED BY <2>1, <2>2, <2>3 DEF Kinds
<1>8. Recent'
  BY <1>1, <1>2, <1>4, <1>7 DEF FixInv, Recent
<1>9. got' \subseteq told' /\ ("vel" \in got' => "vel" \in got)
        /\ ("pos" \in got' => offset)
  BY <1>1, <1>7 DEF Known
<1>10. /\ "pos" \in got' => pos'.epoch = epoch /\ pos'.stamp = <<"gps", WeekOf(epoch), TowOf(epoch)>>
       /\ "vel" \in got' => vel.epoch = epoch /\ vel.stamp = <<"gps", WeekOf(epoch), TowOf(epoch)>>
  BY <1>4, <1>9 DEF FixInv, Published
<1>11. told # Kinds
  BY DEF Kinds
<1>12. CASE vel.stamp = pos'.stamp
  <2>1. vel.epoch = epoch /\ fixes' = Append(fixes, <<epoch, epoch>>)
    BY <1>2, <1>4, <1>12, PosPairs
  <2>2. "vel" \in told
    BY <2>1 DEF FixInv, Recent
  <2>3. /\ PairedFix' /\ fixes' \in Seq((0..MaxEpoch) \X (0..MaxEpoch))
        /\ \A i \in DOMAIN fixes' : fixes'[i][1] \in 0..epoch
        /\ Contains(fixes', <<epoch, epoch>>)
    BY <1>11, <2>1, OnePairMore
  <2>4. Published'
    BY <1>7, <1>9, <1>10, <1>2, <2>2 DEF Published
  <2>5. FixTypes'
    BY <1>1, <1>2, <1>3, <1>4, <1>7, <1>9, <2>3 DEF FixInv, FixTypes, FTypeOK
  <2>6. FixPublished'
    BY <2>3 DEF FixPublished
  <2> QED BY <1>5, <1>6, <1>8, <2>3, <2>4, <2>5, <2>6 DEF FixInv
<1>13. CASE vel.stamp # pos'.stamp
  <2>1. fixes' = fixes
    BY <1>2, <1>13
  <2>2. ~({"pos", "vel"} \subseteq got')
    BY <1>10, <1>13
  <2>3. PairedFix' /\ FixPublished'
    BY <2>1, <2>2 DEF FixInv, PairedFix, FixPublished, Kinds
  <2>4. \A i \in DOMAIN fixes' : fixes'[i][1] # epoch
    BY <1>11, <2>1 DEF FixInv, Published
  <2>5. Published'
    BY <1>9, <1>10, <1>2, <2>4 DEF Published
  <2>6. FixTypes'
    BY <1>1, <1>2, <1>3, <1>4, <1>7, <1>9, <2>1 DEF FixInv, FixTypes, FTypeOK
  <2> QED BY <1>5, <1>6, <1>8, <2>3, <2>5, <2>6 DEF FixInv
<1> QED BY <1>12, <1>13

LEMMA VelKeeps ==
    ASSUME TopicsAssumption, FixInv, "vel" \notin told, told' = told \cup {"vel"},
           UNCHANGED <<epoch, offset, damaged>>, NEW guess \in {0, 1}, VelCallback(guess),
           got' = IF Known("vel") THEN got \cup {"vel"} ELSE got
    PROVE  FixInv'
<1>1. /\ epoch \in 0..MaxEpoch /\ epoch \in Nat /\ MaxEpoch \in Nat /\ offset \in BOOLEAN
      /\ told \subseteq Kinds /\ got \subseteq told /\ damaged \in 0..MaxDamaged /\ MaxDamaged \in Nat
      /\ week \in 0..WeekOf(MaxEpoch) /\ towOffset \in BOOLEAN
  BY DEF FixInv, FixTypes, FTypeOK, TopicsAssumption, Published
<1>2. /\ week' = week /\ towOffset' = towOffset /\ pos' = pos
      /\ vel' = [epoch |-> epoch, stamp |-> Stamp(week, towOffset, epoch, guess)]
      /\ fixes' = IF vel'.stamp = pos.stamp THEN Append(fixes, <<pos.epoch, vel'.epoch>>) ELSE fixes
  BY DEF VelCallback, publishGPS
<1>3. /\ vel' \in Message /\ vel' # None /\ vel'.epoch = epoch /\ Dates(vel')
      /\ vel'.stamp[1] = "gps" => towOffset /\ vel'.stamp[2] = week
      /\ towOffset => vel'.stamp = <<"gps", week, TowOf(epoch)>> /\ vel'.stamp[1] = "gps"
  <2> DEFINE m == [epoch |-> epoch, stamp |-> Stamp(week, towOffset, epoch, guess)]
  <2>1. /\ m \in Message /\ m # None /\ m.epoch = epoch /\ Dates(m)
        /\ m.stamp[1] = "gps" => towOffset /\ m.stamp[2] = week
        /\ towOffset => m.stamp = <<"gps", week, TowOf(epoch)>> /\ m.stamp[1] = "gps"
    <3> HIDE DEF m
    <3>1. m = [epoch |-> epoch, stamp |-> Stamp(week, towOffset, epoch, guess)]
      BY DEF m
    <3> QED BY <1>1, <3>1, NewMessage
  <2>2. vel' = m
    BY <1>2
  <2> HIDE DEF m
  <2> QED BY <2>1, <2>2
<1>4. week \in 0..WeekOf(epoch)
  <2>1. WeekOf(epoch) \in Nat
    BY <1>1, WeekIs
  <2>2. CASE pos = None
    BY <2>1, <2>2 DEF FixInv, Weeks
  <2>3. CASE pos # None
    <3>1. pos.epoch \in Nat /\ pos.epoch <= epoch /\ week = WeekOf(pos.epoch)
      BY <1>1, <2>3 DEF FixInv, Dates, Weeks
    <3>2. WeekOf(pos.epoch) <= WeekOf(epoch) /\ WeekOf(pos.epoch) \in Nat
      BY <1>1, <3>1, LaterWeek, WeekIs
    <3> QED BY <2>1, <3>1, <3>2
  <2> QED BY <2>2, <2>3
<1>5. Dates(pos)' /\ Dates(vel)'
  <2>1. Dates(vel')
    BY <1>3
  <2>2. Dates(pos)
    BY DEF FixInv
  <2> QED BY <1>2, <2>1, <2>2 DEF Dates
<1>6. Weeks'
  BY <1>2, <1>3, <1>4 DEF FixInv, Weeks
<1>7. "vel" \in told' /\ ("pos" \in told' <=> "pos" \in told) /\ told' \subseteq Kinds
        /\ (told' = Kinds <=> "pos" \in told)
  <2>1. told' = told \cup {"vel"} /\ told \subseteq {"pos", "vel"}
    BY <1>1 DEF Kinds
  <2>2. "pos" \in told => told' = {"pos", "vel"}
    BY <2>1
  <2>3. "pos" \notin told => "pos" \notin told' /\ told' # {"pos", "vel"}
    BY <2>1
  <2> QED BY <2>1, <2>2, <2>3 DEF Kinds
<1>8. Recent'
  BY <1>1, <1>2, <1>3, <1>7 DEF FixInv, Recent
<1>9. got' \subseteq told' /\ ("pos" \in got' => "pos" \in got)
        /\ ("vel" \in got' => towOffset /\ week = WeekOf(epoch))
  BY <1>1, <1>7 DEF Known
<1>10. /\ "vel" \in got' => vel'.epoch = epoch /\ vel'.stamp = <<"gps", WeekOf(epoch), TowOf(epoch)>>
       /\ "pos" \in got' => pos.epoch = epoch /\ pos.stamp = <<"gps", WeekOf(epoch), TowOf(epoch)>>
  BY <1>3, <1>9 DEF FixInv, Published
<1>11. told # Kinds
  BY DEF Kinds
<1>12. CASE vel'.stamp = pos.stamp
  <2>1. pos.epoch = epoch /\ fixes' = Append(fixes, <<epoch, epoch>>)
    BY <1>2, <1>3, <1>12, VelPairs
  <2>2. "pos" \in told
    BY <2>1 DEF FixInv, Recent
  <2>3. /\ PairedFix' /\ fixes' \in Seq((0..MaxEpoch) \X (0..MaxEpoch))
        /\ \A i \in DOMAIN fixes' : fixes'[i][1] \in 0..epoch
        /\ Contains(fixes', <<epoch, epoch>>)
    BY <1>11, <2>1, OnePairMore
  <2>4. Published'
    BY <1>7, <1>9, <1>10, <1>2, <2>2 DEF Published
  <2>5. FixTypes'
    BY <1>1, <1>2, <1>3, <1>7, <1>9, <2>3 DEF FixInv, FixTypes, FTypeOK
  <2>6. FixPublished'
    BY <2>3 DEF FixPublished
  <2> QED BY <1>5, <1>6, <1>8, <2>3, <2>4, <2>5, <2>6 DEF FixInv
<1>13. CASE vel'.stamp # pos.stamp
  <2>1. fixes' = fixes
    BY <1>2, <1>13
  <2>2. ~({"pos", "vel"} \subseteq got')
    BY <1>10, <1>13
  <2>3. PairedFix' /\ FixPublished'
    BY <2>1, <2>2 DEF FixInv, PairedFix, FixPublished, Kinds
  <2>4. \A i \in DOMAIN fixes' : fixes'[i][1] # epoch
    BY <1>11, <2>1 DEF FixInv, Published
  <2>5. Published'
    BY <1>9, <1>10, <1>2, <2>4 DEF Published
  <2>6. FixTypes'
    BY <1>1, <1>2, <1>3, <1>7, <1>9, <2>1 DEF FixInv, FixTypes, FTypeOK
  <2> QED BY <1>5, <1>6, <1>8, <2>3, <2>5, <2>6 DEF FixInv
<1> QED BY <1>12, <1>13

LEMMA DamageKeeps ==
    ASSUME TopicsAssumption, FixInv, NEW kind \in Kinds, Damage(kind) PROVE FixInv'
<1>1. /\ kind \notin told /\ told' = told \cup {kind} /\ damaged' = damaged + 1
      /\ damaged < MaxDamaged
      /\ UNCHANGED <<epoch, offset, week, towOffset, pos, vel, fixes, got>>
  BY DEF Damage, node
<1>2. /\ damaged \in 0..MaxDamaged /\ MaxDamaged \in Nat /\ told \subseteq Kinds /\ got \subseteq told
      /\ epoch \in Nat /\ pos.epoch \in -1..epoch
  BY DEF FixInv, FixTypes, FTypeOK, TopicsAssumption, Published
<1>3. FixTypes' /\ Dates(pos)' /\ Dates(vel)' /\ Weeks' /\ PairedFix' /\ FixPublished'
  BY <1>1, <1>2 DEF FixInv, FixTypes, FTypeOK, Dates, Weeks, PairedFix, FixPublished, Contains
<1>4. told # Kinds /\ told \subseteq told'
  BY <1>1
<1>5. Published'
  BY <1>1, <1>2, <1>4 DEF FixInv, Published
<1>6. Recent'
  <2>1. pos.epoch + damaged + (IF "pos" \in told THEN 0 ELSE 1) >= epoch
    BY DEF FixInv, Recent
  <2>2. pos.epoch + (damaged + 1) + (IF "pos" \in told' THEN 0 ELSE 1) >= epoch
    BY <1>2, <1>4, <2>1
  <2> QED BY <1>1, <1>4, <2>2 DEF FixInv, Recent
<1> QED BY <1>3, <1>5, <1>6 DEF FixInv

LEMMA NextEpochKeeps ==
    ASSUME TopicsAssumption, FixInv, NextEpoch PROVE FixInv'
<1>1. /\ told = Kinds /\ epoch < MaxEpoch /\ epoch' = epoch + 1 /\ told' = {} /\ got' = {}
      /\ offset' \in {offset, TRUE}
      /\ UNCHANGED <<damaged, week, towOffset, pos, vel, fixes>>
  BY DEF NextEpoch, node
<1>2. /\ damaged \in 0..MaxDamaged /\ MaxDamaged \in Nat /\ epoch \in Nat /\ MaxEpoch \in Nat
      /\ pos.epoch \in -1..epoch /\ vel.epoch \in -1..epoch /\ offset \in BOOLEAN
  BY DEF FixInv, FixTypes, FTypeOK, TopicsAssumption
<1>3. \A i \in DOMAIN fixes : fixes[i][1] \in 0..epoch
  BY DEF FixInv, FixTypes
<1>4. FixTypes'
  <2>1. epoch' \in 0..MaxEpoch
    BY <1>1, <1>2
  <2>2. offset' \in BOOLEAN /\ told' \subseteq Kinds /\ got' \subseteq Kinds
    BY <1>1, <1>2, Zenon
  <2>3. pos'.epoch \in -1..epoch' /\ vel'.epoch \in -1..epoch'
    BY <1>1, <1>2
  <2>4. \A i \in DOMAIN fixes' : fixes'[i][1] \in 0..epoch'
    BY <1>1, <1>2, <1>3
  <2> QED BY <1>1, <2>1, <2>2, <2>3, <2>4 DEF FixInv, FixTypes, FTypeOK
<1>5. Dates(pos)' /\ Dates(vel)'
  BY <1>1, <1>2 DEF FixInv, Dates
<1>6. Weeks' /\ PairedFix' /\ FixPublished'
  BY <1>1 DEF FixInv, Weeks, PairedFix, FixPublished, Kinds
<1>7. Published'
  BY <1>1, <1>2, <1>3 DEF FixInv, Published
<1>8. Recent'
  <2>1. pos.epoch + damaged >= epoch
    BY <1>1, <1>2 DEF FixInv, Recent, Kinds
  <2> QED BY <1>1, <1>2, <2>1 DEF Recent
<1> QED BY <1>4, <1>5, <1>6, <1>7, <1>8 DEF FixInv

LEMMA FixStarts == ASSUME TopicsAssumption, FInit PROVE FixInv
<1>1. /\ epoch = 0 /\ told = {} /\ offset \in BOOLEAN /\ damaged = 0 /\ week = 0
      /\ towOffset = FALSE /\ pos = None /\ vel = None /\ fixes = <<>> /\ got = {}
  BY DEF FInit
<1>3. 0 \in 0..WeekOf(MaxEpoch) /\ MaxEpoch \in Nat /\ MaxDamaged \in Nat
  BY WeekIs DEF TopicsAssumption
<1>2. None.epoch = -1 /\ None.stamp = <<"none", 0, 0>> /\ None \in Message
  <2>1. <<"none", 0, 0>> \in Stamps
    BY DEF Stamps
  <2>2. -1 \in -1..MaxEpoch
    BY <1>3
  <2> QED BY <2>1, <2>2 DEF None, Message
<1>4. fixes \in Seq((0..MaxEpoch) \X (0..MaxEpoch)) /\ DOMAIN fixes = {}
  BY <1>1
<1>5. FixTypes
  <2>1. epoch \in 0..MaxEpoch /\ damaged \in 0..MaxDamaged /\ week \in 0..WeekOf(MaxEpoch)
    BY <1>1, <1>3
  <2>2. pos.epoch \in -1..epoch /\ vel.epoch \in -1..epoch
    BY <1>1, <1>2
  <2>3. {pos, vel} \subseteq Message
    BY <1>1, <1>2
  <2> QED BY <1>1, <1>4, <2>1, <2>2, <2>3 DEF FixTypes, FTypeOK
<1>6. Weeks /\ Recent
  BY <1>1, <1>2 DEF Weeks, Recent
<1>7. Published /\ PairedFix /\ FixPublished
  BY <1>1, <1>4 DEF Published, PairedFix, FixPublished, Kinds
<1> QED BY <1>1, <1>5, <1>6, <1>7 DEF FixInv, Dates

LEMMA FixInvariant == ASSUME TopicsAssumption PROVE FSpec => []FixInv
<1>1. FInit => FixInv
  BY FixStarts
<1>2. FixInv /\ [FNext]_fixVars => FixInv'
  <2> SUFFICES ASSUME FixInv, [FNext]_fixVars PROVE FixInv'
    OBVIOUS
  <2>1. ASSUME NEW kind \in Kinds, Arrives(kind) PROVE FixInv'
    <3>1. /\ kind \notin told /\ told' = told \cup {kind} /\ UNCHANGED <<epoch, offset, damaged>>
          /\ got' = IF Known(kind) THEN got \cup {kind} ELSE got
      BY <2>1 DEF Arrives
    <3>2. CASE kind = "pos"
      <4>1. PICK guess \in {0, 1} : PosCallback(guess)
        BY <2>1, <3>2 DEF Arrives
      <4> QED BY <3>1, <3>2, <4>1, PosKeeps
    <3>3. CASE kind = "vel"
      <4>1. PICK guess \in {0, 1} : VelCallback(guess)
        BY <2>1, <3>3 DEF Arrives
      <4> QED BY <3>1, <3>3, <4>1, VelKeeps
    <3> QED BY <3>2, <3>3 DEF Kinds
  <2>2. CASE UNCHANGED fixVars
    <3>1. /\ epoch' = epoch /\ told' = told /\ offset' = offset /\ damaged' = damaged
          /\ week' = week /\ towOffset' = towOffset /\ pos' = pos /\ vel' = vel
          /\ fixes' = fixes /\ got' = got
      BY <2>2 DEF fixVars, receiver, node
    <3>2. FixTypes' = FixTypes
      BY <3>1 DEF FixTypes, FTypeOK
    <3>3. Dates(pos)' = Dates(pos) /\ Dates(vel)' = Dates(vel)
      BY <3>1 DEF Dates
    <3>4. Weeks' = Weeks /\ Recent' = Recent /\ Published' = Published
      BY <3>1 DEF Weeks, Recent, Published
    <3>5. PairedFix' = PairedFix /\ FixPublished' = FixPublished
      BY <3>1 DEF PairedFix, FixPublished
    <3> QED BY <3>2, <3>3, <3>4, <3>5 DEF FixInv
  <2>3. ASSUME NEW kind \in Kinds, Damage(kind) PROVE FixInv'
    BY <2>3, DamageKeeps
  <2>4. CASE NextEpoch
    BY <2>4, NextEpochKeeps
  <2> QED BY <2>1, <2>2, <2>3, <2>4 DEF FNext
<1> QED BY <1>1, <1>2, PTL DEF FSpec

----------------------------------------------------------------------------
(***************************************************************************)
(* The gps/obs topic.  What FlattenSeq makes of a sequence that one more   *)
(* was appended to; with it, what came in stays the bundles and what still *)
(* waits.                                                                  *)
(***************************************************************************)

LEMMA LeastNumber == ASSUME NEW S \in SUBSET Nat, S # {} PROVE \E i \in S : \A j \in S : i <= j
<1>1. IsWellFoundedOn(OpToRel(<, Nat), Nat)
  BY NatLessThanWellFounded
<1>2. PICK i \in S : \A j \in S : <<j, i>> \notin OpToRel(<, Nat)
  BY <1>1, WFMin, Zenon
<1>3. \A j \in S : ~(j < i)
  BY <1>2 DEF OpToRel
<1> QED BY <1>3

\* Induction up to a bound, over a set of numbers.
LEMMA CountUp ==
    ASSUME NEW m \in Nat, NEW S, 0 \in S, \A n \in S : n \in Nat /\ n < m => n + 1 \in S
    PROVE  \A n \in 0..m : n \in S
<1> DEFINE Rest == {n \in 0..m : n \notin S}
<1> SUFFICES ASSUME Rest # {} PROVE FALSE
  OBVIOUS
<1>1. PICK n \in Rest : \A k \in Rest : n <= k
  <2>1. Rest \in SUBSET Nat
    OBVIOUS
  <2> HIDE DEF Rest
  <2> QED BY <2>1, LeastNumber
<1>2. n \in Nat /\ n # 0 /\ n <= m /\ n \notin S
  OBVIOUS
<1>3. n - 1 \in Nat /\ n - 1 < m /\ n - 1 \notin Rest /\ (n - 1) + 1 = n
  BY <1>1, <1>2
<1>4. n - 1 \in S
  BY <1>2, <1>3
<1>5. (n - 1) + 1 \in S
  BY <1>3, <1>4
<1> QED BY <1>2, <1>3, <1>5

\* f gathers the first n sequences of ss.
Gathers(f, ss, n) == f = [i \in 1..n |-> IF i = 1 THEN ss[i] ELSE f[i - 1] \o ss[i]]

LEMMA GathersMore ==
    ASSUME NEW f, NEW ss, NEW n \in Nat, Gathers(f, ss, n), NEW i \in Nat, i < n
    PROVE  f[i + 1] = IF i = 0 THEN ss[i + 1] ELSE f[i] \o ss[i + 1]
<1> DEFINE k == i + 1
<1>1. k \in 1..n /\ k - 1 = i /\ (k = 1 <=> i = 0)
  OBVIOUS
<1> HIDE DEF k
<1>2. f[k] = IF k = 1 THEN ss[k] ELSE f[k - 1] \o ss[k]
  BY <1>1 DEF Gathers
<1>3. f[k] = IF i = 0 THEN ss[k] ELSE f[i] \o ss[k]
  BY <1>1, <1>2
<1> QED BY <1>3 DEF k

LEMMA AppendIs ==
    ASSUME NEW T, NEW ss \in Seq(T), NEW s \in T
    PROVE  /\ Append(ss, s) \in Seq(T) /\ Append(ss, s) # <<>>
           /\ Len(Append(ss, s)) = Len(ss) + 1 /\ Len(ss) \in Nat
           /\ Append(ss, s)[Len(ss) + 1] = s /\ \A i \in 1..Len(ss) : Append(ss, s)[i] = ss[i]
OBVIOUS

LEMMA ConcatThree ==
    ASSUME NEW S, NEW a \in Seq(S), NEW b \in Seq(S), NEW c \in Seq(S)
    PROVE  a \o (b \o c) = (a \o b) \o c
<1> DEFINE l == a \o (b \o c)
           r == (a \o b) \o c
<1>1. /\ l \in Seq(S) /\ r \in Seq(S) /\ Len(l) = Len(a) + Len(b) + Len(c) /\ Len(r) = Len(l)
      /\ Len(a) \in Nat /\ Len(b) \in Nat /\ Len(c) \in Nat
  OBVIOUS
<1>2. \A i \in 1..Len(l) : l[i] = r[i]
  OBVIOUS
<1> HIDE DEF l, r
<1>3. l = r
  BY <1>1, <1>2
<1> QED BY <1>3 DEF l, r

LEMMA FlattenGathers ==
    ASSUME NEW S, NEW ss \in Seq(Seq(S)), ss # <<>>
    PROVE  \E f : Gathers(f, ss, Len(ss)) /\ FlattenSeq(ss) = f[Len(ss)]
<1>0. Len(ss) \in Nat /\ Len(ss) # 0
  OBVIOUS
<1> DEFINE Step(g, i) == IF i = 1 THEN ss[i] ELSE g[i - 1] \o ss[i]
           Begun == {n \in 0..Len(ss) : \E g : Gathers(g, ss, n)}
           f == CHOOSE g : Gathers(g, ss, Len(ss))
<1>1. ASSUME NEW n \in Nat, NEW g, Gathers(g, ss, n), n < Len(ss) PROVE \E h : Gathers(h, ss, n + 1)
  <2> DEFINE h == [i \in 1..(n + 1) |-> IF i = n + 1 THEN Step(g, n + 1) ELSE g[i]]
  <2>1. ASSUME NEW i \in 1..n PROVE h[i] = Step(h, i)
    <3>1. h[i] = g[i] /\ (i # 1 => h[i - 1] = g[i - 1])
      OBVIOUS
    <3>2. g[i] = Step(g, i)
      BY <1>1 DEF Gathers
    <3> QED BY <3>1, <3>2
  <2>2. h[n + 1] = Step(h, n + 1)
    <3>1. h[n + 1] = Step(g, n + 1) /\ (n # 0 => h[n] = g[n]) /\ (n + 1) - 1 = n
      OBVIOUS
    <3> QED BY <3>1
  <2>3. h = [i \in 1..(n + 1) |-> h[i]]
    OBVIOUS
  <2>4. \A i \in 1..(n + 1) : i \in 1..n \/ i = n + 1
    OBVIOUS
  <2>5. \A i \in 1..(n + 1) : h[i] = Step(h, i)
    BY <2>1, <2>2, <2>4
  <2> HIDE DEF h
  <2>6. Gathers(h, ss, n + 1)
    BY <2>3, <2>5 DEF Gathers
  <2> QED BY <2>6
<1>2. Gathers([i \in 1..0 |-> <<>>], ss, 0)
  BY DEF Gathers
<1>3. \E g : Gathers(g, ss, Len(ss))
  <2>1. 0 \in Begun
    BY <1>0, <1>2
  <2>2. \A n \in Begun : n \in Nat /\ n < Len(ss) => n + 1 \in Begun
    BY <1>0, <1>1
  <2> HIDE DEF Begun
  <2>3. Len(ss) \in Begun
    BY <1>0, <2>1, <2>2, CountUp
  <2> QED BY <2>3 DEF Begun
<1>4. Gathers(f, ss, Len(ss))
  BY <1>3
<1>5. FlattenSeq(ss) = f[Len(ss)]
  BY <1>0 DEF FlattenSeq, Gathers
<1> QED BY <1>4, <1>5

\* It gathers elements of theirs.
LEMMA FlattenIn ==
    ASSUME NEW S, NEW ss \in Seq(Seq(S)) PROVE FlattenSeq(ss) \in Seq(S)
<1>1. CASE ss = <<>>
  BY <1>1 DEF FlattenSeq
<1>2. CASE ss # <<>>
  <2>1. PICK f : Gathers(f, ss, Len(ss)) /\ FlattenSeq(ss) = f[Len(ss)]
    BY <1>2, FlattenGathers
  <2>2. Len(ss) \in Nat /\ Len(ss) # 0
    BY <1>2
  <2> DEFINE Good == {i \in 0..Len(ss) : i = 0 \/ f[i] \in Seq(S)}
  <2>3. 0 \in Good
    BY <2>2
  <2>4. ASSUME NEW i \in Good, i \in Nat, i < Len(ss) PROVE i + 1 \in Good
    <3>1. i + 1 \in 1..Len(ss) /\ ss[i + 1] \in Seq(S)
      BY <2>2, <2>4
    <3>2. f[i + 1] = IF i = 0 THEN ss[i + 1] ELSE f[i] \o ss[i + 1]
      BY <2>1, <2>2, <2>4, GathersMore
    <3>3. f[i + 1] \in Seq(S)
      BY <2>4, <3>1, <3>2
    <3> QED BY <3>1, <3>3
  <2> HIDE DEF Good
  <2>5. Len(ss) \in Good
    BY <2>2, <2>3, <2>4, CountUp
  <2> QED BY <2>1, <2>2, <2>5 DEF Good
<1> QED BY <1>1, <1>2

\* One more is put behind what was gathered.
LEMMA FlattenAppend ==
    ASSUME NEW S, NEW ss \in Seq(Seq(S)), NEW s \in Seq(S)
    PROVE  FlattenSeq(Append(ss, s)) = FlattenSeq(ss) \o s
<1> DEFINE more == Append(ss, s)
<1>1. /\ more \in Seq(Seq(S)) /\ more # <<>> /\ Len(more) = Len(ss) + 1 /\ Len(ss) \in Nat
      /\ more[Len(ss) + 1] = s /\ \A i \in 1..Len(ss) : more[i] = ss[i]
  BY AppendIs
<1> HIDE DEF more
<1>2. PICK f : Gathers(f, more, Len(more)) /\ FlattenSeq(more) = f[Len(more)]
  BY <1>1, FlattenGathers
<1>3. CASE ss = <<>>
  <2>1. Len(more) = 1 /\ more[1] = s /\ FlattenSeq(ss) = <<>>
    BY <1>1, <1>3 DEF FlattenSeq
  <2>2. f[1] = more[1]
    BY <1>2, <2>1 DEF Gathers
  <2>3. <<>> \o s = s
    OBVIOUS
  <2> QED BY <1>2, <2>1, <2>2, <2>3 DEF more
<1>4. CASE ss # <<>>
  <2>1. PICK g : Gathers(g, ss, Len(ss)) /\ FlattenSeq(ss) = g[Len(ss)]
    BY <1>4, FlattenGathers
  <2> DEFINE Same == {i \in 0..Len(ss) : i = 0 \/ f[i] = g[i]}
  <2>2. 0 \in Same
    BY <1>1
  <2>3. ASSUME NEW i \in Same, i \in Nat, i < Len(ss) PROVE i + 1 \in Same
    <3>1. i + 1 \in 1..Len(ss) /\ i < Len(more) /\ Len(more) \in Nat
      BY <1>1, <2>3
    <3>2. f[i + 1] = IF i = 0 THEN more[i + 1] ELSE f[i] \o more[i + 1]
      BY <1>2, <2>3, <3>1, GathersMore
    <3>3. g[i + 1] = IF i = 0 THEN ss[i + 1] ELSE g[i] \o ss[i + 1]
      BY <1>1, <2>1, <2>3, GathersMore
    <3>4. more[i + 1] = ss[i + 1]
      BY <1>1, <3>1
    <3>5. i = 0 \/ f[i] = g[i]
      BY <2>3
    <3>6. f[i + 1] = g[i + 1]
      BY <3>2, <3>3, <3>4, <3>5
    <3> QED BY <3>1, <3>6
  <2> HIDE DEF Same
  <2>4. Len(ss) \in Same
    BY <1>1, <2>2, <2>3, CountUp
  <2>5. f[Len(ss)] = g[Len(ss)] /\ Len(ss) # 0
    BY <1>1, <1>4, <2>4 DEF Same
  <2>6. f[Len(ss) + 1] = f[Len(ss)] \o more[Len(ss) + 1]
    <3>1. Len(ss) < Len(more) /\ Len(more) \in Nat
      BY <1>1
    <3> QED BY <1>1, <1>2, <2>5, <3>1, GathersMore
  <2> QED BY <1>1, <1>2, <2>1, <2>5, <2>6 DEF more
<1> QED BY <1>3, <1>4

\* Nothing waits without a timer that runs; what waits began after a pause.
Waits == IF obs = <<>> THEN idle > Pause ELSE ~obs[1].near

ObsInv == OTypeOK /\ ObsConserved /\ PauseBetween /\ Waits

LEMMA ObsTypes ==
    ASSUME TopicsAssumption, ObsInv
    PROVE  /\ obs \in Seq(Observation) /\ received \in Seq(Observation)
           /\ bundles \in Seq(Seq(Observation)) /\ time \in 1..MaxTime /\ MaxTime \in Nat
           /\ idle \in Nat /\ idle <= Pause + 1 /\ Pause \in Nat
           /\ received = FlattenSeq(bundles) \o obs /\ FlattenSeq(bundles) \in Seq(Observation)
<1>1. /\ obs \in Seq(Observation) /\ received \in Seq(Observation)
      /\ bundles \in Seq(Seq(Observation)) /\ time \in 1..MaxTime
  BY DEF ObsInv, OTypeOK
<1>2. MaxTime \in Nat /\ Pause \in Nat
  BY DEF TopicsAssumption
<1>3. idle \in Nat /\ idle <= Pause + 1
  BY <1>2 DEF ObsInv, OTypeOK
<1>4. FlattenSeq(Append(bundles, obs)) = FlattenSeq(bundles) \o obs
  BY <1>1, FlattenAppend
<1>5. FlattenSeq(bundles) \in Seq(Observation)
  BY <1>1, FlattenIn
<1> QED BY <1>1, <1>2, <1>3, <1>4, <1>5 DEF ObsInv, ObsConserved

LEMMA BatchIs ==
    ASSUME NEW t \in 1..MaxTime, NEW n \in 1..2, idle \in Nat, Pause \in Nat
    PROVE  /\ Batch(t, n) \in Seq(Observation) /\ Len(Batch(t, n)) = n /\ Batch(t, n) # <<>>
           /\ idle > Pause => ~Batch(t, n)[1].near
<1> DEFINE item(i) == [time |-> t, near |-> i > 1 \/ idle <= Pause]
<1>1. \A i \in 1..n : item(i) \in Observation
  <2> SUFFICES ASSUME NEW i \in 1..n PROVE item(i) \in Observation
    OBVIOUS
  <2>1. (i > 1 \/ idle <= Pause) \in BOOLEAN
    OBVIOUS
  <2> HIDE DEF Observation
  <2>2. \A b \in BOOLEAN : [time |-> t, near |-> b] \in Observation
    BY DEF Observation
  <2> QED BY <2>1, <2>2
<1>2. ASSUME idle > Pause PROVE ~item(1).near
  <2> DEFINE late == 1 > 1 \/ idle <= Pause
  <2>1. late = FALSE
    BY <1>2
  <2> HIDE DEF late
  <2>2. [time |-> t, near |-> late].near = FALSE
    BY <2>1
  <2> QED BY <2>2 DEF late
<1>3. Batch(t, n) = [i \in 1..n |-> item(i)]
  BY DEF Batch
<1> HIDE DEF item
<1>4. Batch(t, n) \in Seq(Observation) /\ Len(Batch(t, n)) = n /\ 1 \in 1..n
  BY <1>1, <1>3
<1>5. Batch(t, n)[1] = item(1) /\ Batch(t, n) # <<>>
  BY <1>3, <1>4
<1> QED BY <1>2, <1>4, <1>5

\* What waits is published, and rest waits in its place.
LEMMA BundleOut ==
    ASSUME TopicsAssumption, ObsInv, obs # <<>>, NEW rest \in Seq(Observation),
           bundles' = Append(bundles, obs), obs' = rest, received' = received \o rest
    PROVE  /\ obs' \in Seq(Observation) /\ received' \in Seq(Observation)
           /\ bundles' \in Seq(Seq(Observation)) /\ ObsConserved' /\ PauseBetween'
<1>1. /\ obs \in Seq(Observation) /\ received \in Seq(Observation)
      /\ bundles \in Seq(Seq(Observation))
  BY ObsTypes
<1>2. /\ bundles' \in Seq(Seq(Observation)) /\ Len(bundles') = Len(bundles) + 1
      /\ bundles'[Len(bundles) + 1] = obs /\ \A i \in 1..Len(bundles) : bundles'[i] = bundles[i]
      /\ Len(bundles) \in Nat
  BY <1>1, AppendIs
<1>3. FlattenSeq(Append(bundles', rest)) = FlattenSeq(bundles') \o rest
  BY <1>2, FlattenAppend
<1>4. ObsConserved'
  BY <1>3 DEF ObsInv, ObsConserved
<1>5. PauseBetween'
  <2> SUFFICES ASSUME NEW i \in DOMAIN bundles' PROVE bundles'[i] # <<>> /\ ~bundles'[i][1].near
    BY DEF PauseBetween
  <2>1. CASE i = Len(bundles) + 1
    BY <1>2, <2>1 DEF ObsInv, Waits
  <2>2. CASE i \in 1..Len(bundles)
    <3>1. bundles'[i] = bundles[i] /\ i \in DOMAIN bundles
      BY <1>1, <1>2, <2>2
    <3> QED BY <3>1 DEF ObsInv, PauseBetween
  <2>3. i \in 1..Len(bundles')
    BY <1>2
  <2> QED BY <1>2, <2>1, <2>2, <2>3
<1>6. received \o rest \in Seq(Observation)
  BY <1>1
<1> QED BY <1>2, <1>4, <1>5, <1>6

\* A message that is put behind what waits.
LEMMA Gathered ==
    ASSUME TopicsAssumption, ObsInv, NEW batch \in Seq(Observation), batch # <<>>,
           idle > Pause => ~batch[1].near,
           bundles' = bundles, obs' = obs \o batch, received' = received \o batch
    PROVE  /\ obs' \in Seq(Observation) /\ received' \in Seq(Observation)
           /\ bundles' \in Seq(Seq(Observation)) /\ ObsConserved' /\ PauseBetween'
           /\ obs' # <<>> /\ ~obs'[1].near
<1>1. /\ obs \in Seq(Observation) /\ received \in Seq(Observation)
      /\ bundles \in Seq(Seq(Observation))
      /\ received = FlattenSeq(bundles) \o obs /\ FlattenSeq(bundles) \in Seq(Observation)
  BY ObsTypes
<1>2. obs \o batch \in Seq(Observation) /\ received \o batch \in Seq(Observation)
  BY <1>1
<1>3. ObsConserved'
  <2>1. FlattenSeq(Append(bundles', obs')) = FlattenSeq(bundles) \o (obs \o batch)
    BY <1>1, <1>2, FlattenAppend
  <2> DEFINE flat == FlattenSeq(bundles)
  <2>2. flat \in Seq(Observation)
    BY <1>1
  <2> HIDE DEF flat
  <2>3. flat \o (obs \o batch) = (flat \o obs) \o batch
    <3>1. obs \in Seq(Observation)
      BY <1>1
    <3> QED BY <2>2, <3>1, ConcatThree
  <2> QED BY <1>1, <2>1, <2>3 DEF ObsConserved, flat
<1>4. PauseBetween'
  BY DEF ObsInv, PauseBetween
<1>5. obs' # <<>> /\ ~obs'[1].near
  <2>1. CASE obs = <<>>
    <3>1. obs \o batch = batch
      BY <2>1
    <3> QED BY <2>1, <3>1 DEF ObsInv, Waits
  <2>2. CASE obs # <<>>
    <3>1. (obs \o batch)[1] = obs[1] /\ obs \o batch # <<>>
      BY <1>1, <2>2
    <3> QED BY <2>2, <3>1 DEF ObsInv, Waits
  <2> QED BY <2>1, <2>2
<1> QED BY <1>1, <1>2, <1>3, <1>4, <1>5

LEMMA ObserveKeeps ==
    ASSUME TopicsAssumption, ObsInv, NEW t \in 1..MaxTime, NEW n \in 1..2, Observe(t, n)
    PROVE  ObsInv'
<1> DEFINE batch == Batch(t, n)
<1>0. idle \in Nat /\ Pause \in Nat
  BY ObsTypes
<1>1. /\ batch \in Seq(Observation) /\ batch # <<>>
      /\ idle > Pause => ~batch[1].near
  BY <1>0, BatchIs
<1>2. /\ time' = t /\ idle' = 0 /\ received' = received \o batch
      /\ IF NewTime(t) THEN Publish(obs) /\ obs' = Left(obs) \o batch
         ELSE bundles' = bundles /\ obs' = obs \o batch
  BY DEF Observe
<1> HIDE DEF batch
<1>3. time' \in 1..MaxTime /\ idle' \in 0..Pause + 1
  BY <1>0, <1>2
<1>5. CASE NewTime(t) /\ Due(obs)
  <2>1. obs # <<>> /\ bundles' = Append(bundles, obs) /\ obs' = <<>> \o batch /\ idle > Pause
    BY <1>2, <1>5 DEF Publish, Left, Due
  <2>2. <<>> \o batch = batch
    BY <1>1
  <2>3. /\ obs' \in Seq(Observation) /\ received' \in Seq(Observation)
        /\ bundles' \in Seq(Seq(Observation)) /\ ObsConserved' /\ PauseBetween'
    BY <1>1, <1>2, <2>1, <2>2, BundleOut
  <2> QED BY <1>1, <1>3, <2>1, <2>2, <2>3 DEF ObsInv, OTypeOK, Waits
<1>6. CASE ~(NewTime(t) /\ Due(obs))
  <2>1. bundles' = bundles /\ obs' = obs \o batch
    BY <1>2, <1>6 DEF Publish, Left
  <2>2. /\ obs' \in Seq(Observation) /\ received' \in Seq(Observation)
        /\ bundles' \in Seq(Seq(Observation)) /\ ObsConserved' /\ PauseBetween'
        /\ obs' # <<>> /\ ~obs'[1].near
    BY <1>1, <1>2, <2>1, Gathered
  <2> QED BY <1>3, <2>2 DEF ObsInv, OTypeOK, Waits
<1> QED BY <1>5, <1>6

LEMMA TimerKeeps == ASSUME TopicsAssumption, ObsInv, Timer PROVE ObsInv'
<1>1. /\ obs # <<>> /\ idle > Pause /\ bundles' = Append(bundles, obs) /\ obs' = <<>>
      /\ time' = time /\ idle' = idle /\ received' = received
  BY DEF Timer, Due, Publish, Left
<1>2. /\ received \in Seq(Observation) /\ time \in 1..MaxTime /\ idle \in 0..Pause + 1
  BY DEF ObsInv, OTypeOK
<1>3. received \o <<>> = received /\ <<>> \in Seq(Observation)
  BY <1>2
<1>4. /\ obs' \in Seq(Observation) /\ received' \in Seq(Observation)
      /\ bundles' \in Seq(Seq(Observation)) /\ ObsConserved' /\ PauseBetween'
  BY <1>1, <1>3, BundleOut
<1> QED BY <1>1, <1>2, <1>4 DEF ObsInv, OTypeOK, Waits

LEMMA ObserveMoreKeeps ==
    ASSUME TopicsAssumption, ObsInv, NEW t \in 1..MaxTime, ObserveMore(t) PROVE ObsInv'
<1>1. obs # <<>> /\ time' = t /\ idle' = 0 /\ UNCHANGED <<obs, bundles, received>>
  BY DEF ObserveMore
<1>2. time' \in 1..MaxTime /\ idle' \in 0..Pause + 1
  BY <1>1, ObsTypes
<1> QED BY <1>1, <1>2 DEF ObsInv, OTypeOK, ObsConserved, PauseBetween, Waits

LEMMA NothingGathered ==
    /\ FlattenSeq(Append(<<>>, <<>>)) = <<>>
    /\ <<>> \in Seq(Observation) /\ <<>> \in Seq(Seq(Observation))
<1> DEFINE none == <<>>
<1>1. none \in Seq(Seq(Observation)) /\ none \in Seq(Observation)
  OBVIOUS
<1>2. FlattenSeq(Append(none, none)) = FlattenSeq(none) \o none
  BY <1>1, FlattenAppend
<1>3. FlattenSeq(none) = <<>>
  BY DEF FlattenSeq
<1>4. <<>> \o none = <<>>
  OBVIOUS
<1> QED BY <1>1, <1>2, <1>3, <1>4

LEMMA ForgetKeeps == ASSUME TopicsAssumption, ObsInv, Forget PROVE ObsInv'
<1>1. /\ obs' = <<>> /\ bundles' = <<>> /\ received' = <<>>
      /\ obs = <<>> /\ time' = time /\ idle' = idle
  BY DEF Forget
<1>2. /\ ObsConserved' /\ PauseBetween'
      /\ {obs', received'} \subseteq Seq(Observation) /\ bundles' \in Seq(Seq(Observation))
  BY <1>1, NothingGathered DEF ObsConserved, PauseBetween
<1> QED BY <1>1, <1>2 DEF ObsInv, OTypeOK, Waits

LEMMA ObsStarts == ASSUME TopicsAssumption, OInit PROVE ObsInv
<1>1. time = 1 /\ idle = Pause + 1 /\ obs = <<>> /\ bundles = <<>> /\ received = <<>>
  BY DEF OInit
<1>2. MaxTime \in Nat /\ MaxTime # 0 /\ Pause \in Nat
  BY DEF TopicsAssumption
<1>3. /\ ObsConserved /\ PauseBetween
      /\ {obs, received} \subseteq Seq(Observation) /\ bundles \in Seq(Seq(Observation))
  BY <1>1, NothingGathered DEF ObsConserved, PauseBetween
<1> QED BY <1>1, <1>2, <1>3 DEF ObsInv, OTypeOK, Waits

LEMMA ObsInvariant == ASSUME TopicsAssumption PROVE OSpec => []ObsInv
<1>1. OInit => ObsInv
  BY ObsStarts
<1>2. ObsInv /\ [ONext]_obsVars => ObsInv'
  <2> SUFFICES ASSUME ObsInv, [ONext]_obsVars PROVE ObsInv'
    OBVIOUS
  <2>1. CASE Silence
    <3>1. idle' = idle + 1 /\ idle <= Pause /\ UNCHANGED <<time, obs, bundles, received>>
      BY <2>1 DEF Silence
    <3>2. idle \in Nat /\ Pause \in Nat
      BY ObsTypes
    <3>3. idle' \in 0..Pause + 1 /\ obs # <<>>
      BY <3>1, <3>2 DEF ObsInv, Waits
    <3> QED BY <3>1, <3>3 DEF ObsInv, OTypeOK, ObsConserved, PauseBetween, Waits
  <2>2. CASE UNCHANGED obsVars
    BY <2>2 DEF obsVars, ObsInv, OTypeOK, ObsConserved, PauseBetween, Waits
  <2> QED BY <2>1, <2>2, ObserveKeeps, ObserveMoreKeeps, TimerKeeps, ForgetKeeps DEF ONext
<1> QED BY <1>1, <1>2, PTL DEF OSpec

----------------------------------------------------------------------------
(***************************************************************************)
(* The stamps.  Once a position with GPS time has come, the node's week    *)
(* and offset together are the time at which the device was started.       *)
(***************************************************************************)

Knows ==
    /\ boot \in Boots /\ uptime \in Nat /\ gpsWeek \in Nat /\ gpsOffset \in Int
    /\ located => locked /\ (gpsWeek * PerWeek) + gpsOffset = boot /\ gpsOffset # 0

StampInv == Knows /\ StampsRight

LEMMA TimesAre ==
    ASSUME TopicsAssumption, Knows
    PROVE  /\ boot \in Nat /\ uptime \in Nat /\ PerWeek \in Nat /\ PerWeek # 0
           /\ gpsWeek \in Nat /\ gpsOffset \in Int
           /\ Now \in Nat /\ Now = boot + uptime
           /\ WeekOf(Now) \in Nat /\ WeekOf(boot) \in Nat
           /\ Now = (WeekOf(Now) * PerWeek) + TowOf(Now) /\ TowOf(Now) \in Nat
           /\ boot = (WeekOf(boot) * PerWeek) + TowOf(boot) /\ TowOf(boot) \in Nat /\ TowOf(boot) # 0
           /\ Now \div PerWeek = WeekOf(Now) /\ Now % PerWeek = TowOf(Now)
           /\ boot \div PerWeek = WeekOf(boot)
<1>1. /\ boot \in Nat /\ uptime \in Nat /\ PerWeek \in Nat /\ boot % PerWeek # 0 /\ PerWeek > 1
      /\ gpsWeek \in Nat /\ gpsOffset \in Int
  <2>1. PerWeek \in Nat /\ PerWeek > 1
    BY DEF TopicsAssumption
  <2> QED BY <2>1 DEF TopicsAssumption, Knows
<1>2. Now = boot + uptime /\ Now \in Nat
  BY <1>1 DEF Now
<1> HIDE DEF Now
<1>3. /\ WeekOf(Now) \in Nat /\ TowOf(Now) \in 0..(PerWeek - 1)
      /\ Now = PerWeek * WeekOf(Now) + TowOf(Now)
  BY <1>2, WeekIs
<1>4. /\ WeekOf(boot) \in Nat /\ TowOf(boot) \in 0..(PerWeek - 1)
      /\ boot = PerWeek * WeekOf(boot) + TowOf(boot)
  BY <1>1, WeekIs
<1>5. Now \div PerWeek = WeekOf(Now) /\ Now % PerWeek = TowOf(Now)
  BY DEF WeekOf, TowOf
<1>6. boot \div PerWeek = WeekOf(boot) /\ TowOf(boot) # 0
  BY <1>1 DEF WeekOf, TowOf
<1>7. \A k \in Nat : PerWeek * k = k * PerWeek
  BY <1>1
<1> QED BY <1>1, <1>2, <1>3, <1>4, <1>5, <1>6, <1>7

\* What a message is stamped with.
LEMMA StampedIs ==
    ASSUME NEW topic, NEW s, Stamped(topic, s)
    PROVE  /\ last'.topic = topic /\ last'.at = Now /\ last'.stamp = s.stamp
           /\ last'.week = gpsWeek /\ last'.located = located /\ averaged' = s.averaged
           /\ UNCHANGED <<boot, uptime, locked, gpsWeek, gpsOffset, located>>
BY DEF Stamped

LEMMA DatedKeeps ==
    ASSUME TopicsAssumption, StampInv, NEW topic, DatedCallback(topic) PROVE StampInv'
<1> DEFINE s == ros_time_from_week_and_tow(WeekNow, Tow)
<1>1. Stamped(topic, s)
  BY DEF DatedCallback
<1>2. ASSUME located PROVE s.stamp = Now
  <2>1. locked /\ gpsOffset # 0
    BY <1>2 DEF StampInv, Knows
  <2>2. s.stamp = (WeekNow * PerWeek) + Tow
    BY <2>1 DEF ros_time_from_week_and_tow
  <2>3. WeekNow = Now \div PerWeek /\ Tow = Now % PerWeek
    BY <2>1 DEF WeekNow, Tow
  <2> HIDE DEF s
  <2> QED BY <2>2, <2>3, TimesAre DEF StampInv
<1> HIDE DEF s
<1> QED BY <1>1, <1>2, StampedIs DEF StampInv, Knows, StampsRight

LEMMA BareKeeps ==
    ASSUME TopicsAssumption, StampInv, NEW topic \in Bare, BareCallback(topic) PROVE StampInv'
<1> DEFINE s == ros_time_from_week_and_tow(gpsWeek, Tow)
<1>1. Stamped(topic, s)
  BY DEF BareCallback
<1>2. ASSUME located, gpsWeek = Now \div PerWeek PROVE s.stamp = Now
  <2>1. locked /\ gpsOffset # 0
    BY <1>2 DEF StampInv, Knows
  <2>2. s.stamp = (gpsWeek * PerWeek) + Tow
    BY <2>1 DEF ros_time_from_week_and_tow
  <2>3. Tow = Now % PerWeek
    BY <2>1 DEF Tow
  <2> HIDE DEF s
  <2> QED BY <1>2, <2>2, <2>3, TimesAre DEF StampInv
<1> HIDE DEF s
<1> QED BY <1>1, <1>2, StampedIs DEF StampInv, Knows, StampsRight

LEMMA SensorKeeps ==
    ASSUME TopicsAssumption, StampInv, NEW topic \in Sensors, SensorCallback(topic) PROVE StampInv'
<1> DEFINE s == ros_time_from_start_time(uptime)
<1>1. Stamped(topic, s)
  BY DEF SensorCallback
<1>2. ASSUME located, s.stamp # Now PROVE gpsWeek # boot \div PerWeek /\ s.averaged # {boot}
  <2>1. (gpsWeek * PerWeek) + gpsOffset = boot
    BY <1>2 DEF StampInv, Knows
  <2>2. CASE gpsOffset > 0
    <3>1. s.stamp = (gpsWeek * PerWeek) + uptime + gpsOffset
      BY <2>2 DEF ros_time_from_start_time
    <3> HIDE DEF s
    <3> QED BY <1>2, <2>1, <3>1, TimesAre DEF StampInv
  <2>3. CASE ~(gpsOffset > 0)
    <3>1. gpsWeek # boot \div PerWeek
      <4> HIDE DEF s
      <4>1. SUFFICES ASSUME gpsWeek = WeekOf(boot) PROVE FALSE
        BY TimesAre DEF StampInv
      <4>2. gpsOffset = TowOf(boot)
        <5> DEFINE p == WeekOf(boot) * PerWeek
        <5>1. p \in Nat /\ boot = p + TowOf(boot) /\ TowOf(boot) \in Nat /\ gpsOffset \in Int
          BY TimesAre DEF StampInv
        <5>2. p + gpsOffset = boot
          BY <2>1, <4>1
        <5> HIDE DEF p
        <5> QED BY <5>1, <5>2
      <4> QED BY <2>3, <4>2, TimesAre DEF StampInv
    <3>2. Now - uptime = boot
      BY TimesAre DEF StampInv
    <3>3. s = [stamp |-> IF averaged \cup {boot} = {boot} THEN Now ELSE Inexact,
               averaged |-> averaged \cup {boot}]
      BY <2>3, <3>2 DEF ros_time_from_start_time, Estimated
    <3> HIDE DEF s
    <3>4. s.averaged # {boot}
      BY <1>2, <3>3
    <3> QED BY <3>1, <3>4
  <2> QED BY <2>2, <2>3
<1> HIDE DEF s
<1> QED BY <1>1, <1>2, StampedIs DEF StampInv, Knows, StampsRight

LEMMA WheelKeeps ==
    ASSUME TopicsAssumption, StampInv, locked, wheel_enc_callback PROVE StampInv'
<1> DEFINE s == [stamp |-> WeekNow * PerWeek + tow_from_ros_time(Now), averaged |-> averaged]
<1>1. Stamped("wheel", s)
  BY DEF wheel_enc_callback
<1>2. ASSUME gpsWeek = Now \div PerWeek PROVE s.stamp = Now
  <2>1. WeekNow = gpsWeek
    BY <1>2 DEF WeekNow
  <2>2. s.stamp = (gpsWeek * PerWeek) + (Now - (gpsWeek * PerWeek))
    BY <2>1 DEF tow_from_ros_time
  <2> HIDE DEF s
  <2>3. (gpsWeek * PerWeek) \in Nat
    BY TimesAre DEF StampInv
  <2> QED BY <2>2, <2>3, TimesAre DEF StampInv
<1> HIDE DEF s
<1> QED BY <1>1, <1>2, StampedIs DEF StampInv, Knows, StampsRight

LEMMA PositionKeeps ==
    ASSUME TopicsAssumption, StampInv, GPS_pos_callback PROVE StampInv'
<1>1. /\ gpsWeek' = WeekNow /\ gpsOffset' = IF locked THEN Tow - uptime ELSE 0
      /\ located' = locked /\ UNCHANGED <<boot, uptime, locked, averaged, last>>
  BY DEF GPS_pos_callback
<1>2. CASE locked
  <2>1. WeekNow = WeekOf(Now) /\ Tow = TowOf(Now)
    BY <1>2, TimesAre DEF WeekNow, Tow, StampInv
  <2>2. gpsWeek' \in Nat /\ gpsOffset' \in Int /\ (gpsWeek' * PerWeek) + gpsOffset' = boot
    <3> DEFINE p == WeekOf(Now) * PerWeek
    <3>1. /\ p \in Nat /\ Now = p + TowOf(Now) /\ TowOf(Now) \in Nat /\ uptime \in Nat
          /\ Now = boot + uptime /\ boot \in Nat /\ WeekOf(Now) \in Nat
      BY TimesAre DEF StampInv
    <3>2. gpsWeek' = WeekOf(Now) /\ gpsOffset' = TowOf(Now) - uptime /\ gpsWeek' * PerWeek = p
      BY <1>1, <1>2, <2>1
    <3> HIDE DEF p
    <3> QED BY <3>1, <3>2
  <2>3. gpsOffset' # 0
    <3> SUFFICES ASSUME gpsOffset' = 0 PROVE FALSE
      OBVIOUS
    <3>1. boot = gpsWeek' * PerWeek
      BY <2>2, TimesAre DEF StampInv
    <3>2. boot % PerWeek = 0
      <4> DEFINE k == gpsWeek'
      <4>1. k \in Nat /\ PerWeek \in Nat /\ PerWeek > 0 /\ boot = k * PerWeek
        BY <2>2, <3>1, TimesAre DEF StampInv
      <4> HIDE DEF k
      <4>2. (k * PerWeek) % PerWeek = 0
        BY <4>1
      <4> QED BY <4>1, <4>2
    <3> QED BY <3>2 DEF StampInv, Knows, TopicsAssumption
  <2> QED BY <1>1, <1>2, <2>2, <2>3 DEF StampInv, Knows, StampsRight
<1>3. CASE ~locked
  <2>1. WeekNow = 0
    BY <1>3 DEF WeekNow
  <2> QED BY <1>1, <1>3, <2>1 DEF StampInv, Knows, StampsRight
<1> QED BY <1>2, <1>3

LEMMA StampInvariant == ASSUME TopicsAssumption PROVE SSpec => []StampInv
<1>1. SInit => StampInv
  BY DEF SInit, StampInv, Knows, StampsRight, Nothing
<1>2. StampInv /\ [SNext]_stampVars => StampInv'
  <2> SUFFICES ASSUME StampInv, [SNext]_stampVars PROVE StampInv'
    OBVIOUS
  <2>1. CASE Tick
    BY <2>1 DEF Tick, StampInv, Knows, StampsRight
  <2>2. CASE Lock
    BY <2>2 DEF Lock, StampInv, Knows, StampsRight
  <2>3. CASE UNCHANGED stampVars
    BY <2>3 DEF stampVars, StampInv, Knows, StampsRight
  <2> QED BY <2>1, <2>2, <2>3, DatedKeeps, BareKeeps, SensorKeeps, WheelKeeps, PositionKeeps DEF SNext
<1> QED BY <1>1, <1>2, PTL DEF SSpec

----------------------------------------------------------------------------
\* What the driver publishes, with any bounds: the position and the velocity
\* of an epoch together, each epoch once, and none that arrived whole is left
\* out; every observation in a bundle or in what waits; and after a position
\* with GPS time the stamps that carry, or can be given, a week are right.
THEOREM TopicsAreRight ==
    ASSUME TopicsAssumption PROVE FSpec /\ OSpec /\ SSpec => []TopicsPublished
<1>1. FixInv /\ ObsInv /\ StampInv => TopicsPublished
  BY DEF FixInv, FixTypes, ObsInv, StampInv, TopicsPublished
<1> QED BY <1>1, FixInvariant, ObsInvariant, StampInvariant, PTL
=============================================================================
