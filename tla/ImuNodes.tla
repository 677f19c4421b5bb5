------------------------------ MODULE ImuNodes ------------------------------
(***************************************************************************)
(* The two nodes that calibrate on the readings of the IMU, each a         *)
(* specification of its own: imu_odometry, and, at the end,                *)
(* yaw_bias_corrector.                                                     *)
(*                                                                         *)
(* imu_odometry is dead reckoning.  The first CalibSamples readings of a   *)
(* rover that does not turn give the direction and the size of gravity;    *)
(* from then on every reading turns the attitude, and what is left of the  *)
(* acceleration without gravity is integrated twice, unless the rover is   *)
(* at rest.                                                                *)
(*                                                                         *)
(* The rover tilts about one axis, by small angles: a tilt of one that the *)
(* node does not know of reads as an acceleration of one.  Estimates are   *)
(* in units of 1 / CalibSamples.  A reading may get lost, its stamp jumps  *)
(* when the driver's clock is set, and a sensor that fails reads zero.     *)
(***************************************************************************)
EXTENDS Integers

CONSTANTS CalibSamples,    \* calib_samples
          MaxDt,           \* 0.5 s, in ticks
          Slow,            \* the fastest turn that passes for standing still
          Rates,           \* of tilting, per tick
          Pushes,          \* horizontal accelerations
          Skews,           \* of the stamps
          MaxTilt, MaxTime, MaxFailures,   \* bounds
          BiasSamples,     \* calib_samples of yaw_bias_corrector
          Drifts, Turns,   \* of its gyroscope, and of its rover
          None             \* Python's None

ImuAssumption ==
    /\ CalibSamples \in Nat \ {0} /\ MaxDt \in Nat \ {0} /\ Slow \in Nat
    /\ Rates \subseteq Int /\ Pushes \subseteq Int /\ 0 \in Skews /\ Skews \subseteq Int
    /\ MaxTilt \in Nat \ {0} /\ MaxTime \in Nat /\ MaxFailures \in Nat

VARIABLES now, tilt, skew, failures,    \* the rover and its sensor
          last_t, calib_buf,            \* stamp of the last reading, samples
          calibrated, attitude, gravity,
          vel, moved,                   \* velocity; pos is not where it was
          seen,     \* every turn since the first sample was seen, in full,
                    \* and every sample was of a rover at rest
          pushed    \* it has been pushed since

rover == <<now, tilt, skew, failures>>
node == <<last_t, calib_buf, calibrated, attitude, gravity, vel, moved>>
vars == <<rover, node, seen, pushed>>

Magnitude(i) == IF i < 0 THEN -i ELSE i
NoStamp == -100
Zero == [x |-> 0, z |-> 0]

\* How many samples, how many of them with gravity, and the sum of these.
NoSamples == [n |-> 0, good |-> 0, sum |-> 0]

Init ==
    /\ now = 0 /\ tilt \in {0, 1} /\ skew = 0 /\ failures = 0
    /\ last_t = NoStamp /\ calib_buf = NoSamples
    /\ calibrated = FALSE /\ attitude = 0 /\ gravity = CalibSamples
    /\ vel = Zero /\ moved = FALSE
    /\ seen = FALSE /\ pushed = FALSE

----------------------------------------------------------------------------
\* A reading: what the accelerometer has of gravity (good) and horizontally.
Readings(rate) ==
    [rate : {rate}, x : {tilt' + push : push \in Pushes}, good : {TRUE}]
        \cup [rate : {rate}, x : {0}, good : {FALSE}]

\* omega_mag > CALIB_OMEGA_THRESH
Moving(r) == Magnitude(r.rate) > Slow

Sampled(r) ==
    [n |-> calib_buf.n + 1,
     good |-> calib_buf.good + IF r.good THEN 1 ELSE 0,
     sum |-> calib_buf.sum + r.x]

\* The mean of readings of 9.8 m/s2 and of zero is below 1 m/s2.
TooSmall(buf) == 10 * buf.good < buf.n

\* _try_calibrate: it is complete with r.
Completes(r) == ~Moving(r) /\ Sampled(r).n >= CalibSamples /\ ~TooSmall(Sampled(r))

\* _try_calibrate, otherwise: a move discards the samples, and so does a mean
\* that cannot be gravity.
Collect(r) ==
    calib_buf' = IF Moving(r) \/ Sampled(r).n >= CalibSamples
                 THEN NoSamples ELSE Sampled(r)

\* The direction of the mean.
MeanTilt(buf) == (CalibSamples * buf.sum) \div buf.good

\* Mutant of Integrate: the attitude that was calibrated stays.
IntegrateLevel(att, g, r, dt) ==
    LET acc == [x |-> CalibSamples * r.x - (IF r.good THEN att ELSE 0),
                z |-> (IF r.good THEN CalibSamples ELSE 0) - g]
        static == r.rate = 0 /\ acc = Zero
        v == IF static THEN Zero
             ELSE [x |-> vel.x + acc.x * dt, z |-> vel.z + acc.z * dt]
    IN  /\ attitude' = att /\ gravity' = g
        /\ vel' = v /\ moved' = (moved \/ v # Zero)

\* _imu_cb from the attitude on, with the attitude and gravity known so far.
Integrate(att, g, r, dt) ==
    LET turned == att + CalibSamples * r.rate * dt
        acc == [x |-> CalibSamples * r.x - (IF r.good THEN turned ELSE 0),
                z |-> (IF r.good THEN CalibSamples ELSE 0) - g]
        static == r.rate = 0 /\ acc = Zero
        v == IF static THEN Zero
             ELSE [x |-> vel.x + acc.x * dt, z |-> vel.z + acc.z * dt]
    IN  /\ attitude' = turned /\ gravity' = g
        /\ vel' = v /\ moved' = (moved \/ v # Zero)

\* Whether a reading is dropped before it is looked at.
Dropped(stamp) == last_t = NoStamp \/ stamp - last_t \notin 1..MaxDt

\* _imu_cb
imu_cb(stamp, r) ==
    /\ last_t' = stamp
    /\ \/ Dropped(stamp) /\ UNCHANGED <<calib_buf, calibrated, attitude, gravity, vel, moved>>
       \/ /\ ~Dropped(stamp) /\ calibrated
          /\ Integrate(attitude, gravity, r, stamp - last_t)
          /\ UNCHANGED <<calib_buf, calibrated>>
       \/ /\ ~Dropped(stamp) /\ ~calibrated /\ ~Completes(r)
          /\ Collect(r)
          /\ UNCHANGED <<calibrated, attitude, gravity, vel, moved>>
       \/ /\ ~Dropped(stamp) /\ ~calibrated /\ Completes(r)
          /\ calibrated' = TRUE /\ calib_buf' = Sampled(r)
          /\ Integrate(MeanTilt(Sampled(r)), Sampled(r).good, r, stamp - last_t)

----------------------------------------------------------------------------
\* A tick of the IMU: the rover turns and is pushed, or not.
Tick(rate) ==
    /\ now < MaxTime /\ now' = now + 1
    /\ tilt' = tilt + rate /\ Magnitude(tilt') <= MaxTilt

\* The sample r was of a rover at rest.
AtRest(r) == r.rate = 0 /\ r.good /\ r.x = tilt'

Reading(rate) ==
    /\ Tick(rate)
    /\ skew' \in Skews
    /\ \E r \in Readings(rate) :
           LET stamp == now' + skew' IN
           /\ r.good \/ failures < MaxFailures
           /\ failures' = failures + IF r.good THEN 0 ELSE 1
           /\ imu_cb(stamp, r)
           /\ seen' = IF Dropped(stamp) THEN seen /\ rate = 0
                      ELSE IF calibrated THEN seen /\ (rate = 0 \/ stamp = last_t + 1)
                      ELSE (calib_buf = NoSamples \/ seen) /\ AtRest(r)
           /\ pushed' = (calibrated /\ (pushed \/ r.x # tilt' \/ ~r.good))

Lost(rate) ==
    /\ Tick(rate)
    /\ seen' = (seen /\ rate = 0)
    /\ UNCHANGED <<skew, failures, node, pushed>>

Next == \E rate \in Rates : Reading(rate) \/ Lost(rate)

Spec == Init /\ [][Next]_vars

----------------------------------------------------------------------------
Vectors == [x : Int, z : Int]

TypeOK ==
    /\ now \in 0..MaxTime /\ tilt \in -MaxTilt..MaxTilt
    /\ skew \in Skews /\ failures \in 0..MaxFailures
    /\ last_t \in Int /\ calibrated \in BOOLEAN
    /\ calib_buf.n \in 0..CalibSamples /\ calib_buf.good \in 0..calib_buf.n
    /\ attitude \in Int /\ gravity \in 1..CalibSamples
    /\ vel \in Vectors /\ moved \in BOOLEAN
    /\ seen \in BOOLEAN /\ pushed \in BOOLEAN

\* A node that was calibrated at rest, and has read in full every turn since,
\* knows the attitude and the size of gravity, although readings in which the
\* rover did not turn were lost, came with a stamp of before, or after a pause.
Tracked ==
    calibrated /\ seen => attitude = CalibSamples * tilt /\ gravity = CalibSamples

\* Nothing drifts that is not pushed: gravity cancels in every attitude, so that
\* the velocity is zero, and the place where it was, whatever the stamps did.
StaysPut == calibrated /\ seen /\ ~pushed => vel = Zero /\ ~moved

----------------------------------------------------------------------------
(***************************************************************************)
(* yaw_bias_corrector: the mean of the first BiasSamples yaw rates is      *)
(* taken from every rate after them.  The gyroscope drifts at a constant   *)
(* rate, and the rover may turn at any time.  Rates are in units of        *)
(* 1 / BiasSamples.                                                        *)
(***************************************************************************)
YawBiasAssumption ==
    /\ BiasSamples \in Nat \ {0} /\ Drifts \subseteq Int /\ Turns \subseteq Int
    /\ None \notin Int

VARIABLES drift,                 \* of the gyroscope
          sum, count, bias,      \* _sum, _count, _bias
          corrected,             \* the last rate published, less the rover's own
          turned                 \* how much the rover turned in the samples

yawVars == <<drift, sum, count, bias, corrected, turned>>

YInit ==
    /\ drift \in Drifts
    /\ sum = 0 /\ count = 0 /\ bias = None
    /\ corrected = 0 /\ turned = 0

\* Mutant of Calibrate: the sample that completes the calibration is left out.
CalibrateEarly(rate) ==
    /\ sum' = sum + rate /\ count' = count + 1
    /\ bias' = IF count' >= BiasSamples THEN sum ELSE None

\* The calibration phase.
Calibrate(rate) ==
    /\ sum' = sum + rate /\ count' = count + 1
    /\ bias' = IF count' >= BiasSamples THEN sum' ELSE None

\* _cb, of a rover that turns at a rate of turn.
cb(turn) ==
    LET rate == turn + drift IN
    /\ \/ bias = None /\ Calibrate(rate)
       \/ bias # None /\ UNCHANGED <<sum, count, bias>>
    /\ corrected' = BiasSamples * rate - (IF bias' = None THEN 0 ELSE bias') - BiasSamples * turn
    /\ turned' = IF bias = None THEN turned + (IF turn < 0 THEN -turn ELSE turn) ELSE turned
    /\ UNCHANGED drift

YNext == \E turn \in Turns : cb(turn)

YSpec == YInit /\ [][YNext]_yawVars

----------------------------------------------------------------------------
YTypeOK ==
    /\ drift \in Drifts /\ sum \in Int /\ count \in 0..BiasSamples
    /\ bias = None \/ bias \in Int
    /\ corrected \in Int /\ turned \in Nat

\* Once calibrated, the rate published is wrong by no more than the rover turned
\* while the samples were taken, and not at all when it stood still.
WrongByTurns == bias # None => corrected \in -turned..turned
=============================================================================
