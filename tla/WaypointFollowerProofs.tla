----------------------- MODULE WaypointFollowerProofs -----------------------
(***************************************************************************)
(* Proofs about WaypointFollower, for any route, any odometry, any number  *)
(* of brake cycles and any lateness of the control timer; and about the    *)
(* PIDController of the same program, for any gains.                       *)
(***************************************************************************)
EXTENDS WaypointFollower, PIDController, TLAPS

(***************************************************************************)
(* What the helpers of the control loop return.                            *)
(***************************************************************************)

\* The target of a run that navigates is a waypoint of the file.
LEMMA TargetType ==
    ASSUME TypeOK, Ready, idx < N \/ loop
    PROVE  Target \in 0..(N-1) /\ Target \in 0..N /\ Target + 1 \in 0..N
<1>1. N \in Nat /\ N > 0 /\ idx \in 0..N
  BY FollowerAssumption DEF TypeOK, Ready
<1>2. CASE Wrapping
  BY <1>1, <1>2 DEF Target
<1>3. CASE ~Wrapping
  BY <1>1, <1>3 DEF Target, Wrapping
<1> QED BY <1>2, <1>3

\* Smoothing yields an error class.
LEMMA SmoothedType ==
    ASSUME TypeOK, Ready, idx < N \/ loop
    PROVE  Smoothed \subseteq ErrorClass
<1>1. Target \in 0..(N-1)
  BY TargetType
<1>2. RawError[pose][Target] \in ErrorClass
  BY <1>1, FollowerAssumption DEF TypeOK
<1> QED BY <1>2 DEF Smoothed

LEMMA ClockType ==
    ASSUME TypeOK, NEW d \in Delays
    PROVE  Clock(d) \in 0..(StuckTimeout + 1)
BY FollowerAssumption DEF TypeOK, Clock, Least

LEMMA SinceProgressType ==
    ASSUME TypeOK, NEW d \in Delays
    PROVE  SinceProgress(d) \in 0..(StuckTimeout + 1)
BY ClockType, FollowerAssumption DEF SinceProgress

LEMMA AgeType ==
    ASSUME TypeOK, NEW d \in Delays, Age(d)
    PROVE  still' \in 0..StillBound
BY FollowerAssumption DEF TypeOK, Age, Least

\* A stop command counts towards braking and never undoes it.
LEMMA HoldCounts ==
    ASSUME TypeOK, Hold
    PROVE  /\ cmd' = "stop" /\ sinceDrive' \in 0..BRAKE_CYCLES
           /\ sinceDrive' >= sinceDrive
           /\ sinceDrive' = sinceDrive + 1 \/ sinceDrive' = BRAKE_CYCLES
BY FollowerAssumption DEF TypeOK, Hold, Least

(***************************************************************************)
(* Type correctness                                                        *)
(***************************************************************************)

LEMMA TypeInit == Init => TypeOK
<1> SUFFICES ASSUME Init PROVE TypeOK
  OBVIOUS
<1>1. smooth \in ErrorClass \cup {None} /\ cmd \in Command
  BY DEF Init, Command
<1>2. headingAcc \subseteq Error /\ distAcc \subseteq Error
  BY DEF Init
<1>3. /\ idx \in 0..N /\ brakeLeft \in 0..BRAKE_CYCLES
      /\ elapsed \in 0..(StuckTimeout + 1)
      /\ sinceDrive \in 0..BRAKE_CYCLES /\ still \in 0..StillBound
  BY FollowerAssumption DEF Init
<1>4. /\ {up, loop, active, odom, turning, braking} \subseteq BOOLEAN
      /\ pose \in Pose /\ anchor \in Pose
  BY FollowerAssumption DEF Init
<1> QED BY <1>1, <1>2, <1>3, <1>4 DEF TypeOK

\* The part of TypeOK that each command of the control law disturbs.
LEMMA ControlType ==
    ASSUME TypeOK, NEW d \in Delays, NEW e \in ErrorClass, Control(d, e)
    PROVE  /\ active' \in BOOLEAN /\ idx' \in 0..N /\ turning' \in BOOLEAN
           /\ smooth' \in ErrorClass \cup {None}
           /\ anchor' \in Pose /\ elapsed' \in 0..(StuckTimeout + 1)
<1>1. Ready /\ (idx < N \/ loop)
  BY DEF Control
<1>2. active' \in BOOLEAN /\ turning' \in BOOLEAN
  BY DEF Control, TypeOK, Turning
<1>3. idx' \in 0..N
  BY <1>1, TargetType DEF Control
<1>4. smooth' \in ErrorClass \cup {None}
  BY <1>1, SmoothedType DEF Control
<1>5. anchor' \in Pose
  BY DEF Control, Anchor, TypeOK
<1>6. elapsed' \in 0..(StuckTimeout + 1)
  BY SinceProgressType, FollowerAssumption DEF Control
<1> QED BY <1>2, <1>3, <1>4, <1>5, <1>6

LEMMA FreshType ==
    ASSUME NEW acc, acc \subseteq Error
    PROVE  Fresh(acc) \subseteq Error
BY DEF Fresh

\* Types alone are not inductive: that the brake counter stays above zero while
\* braking is part of BrakeInv.
LEMMA TypeStep == TypeOK /\ BrakeInv /\ [Next]_vars => TypeOK'
<1> SUFFICES ASSUME TypeOK, BrakeInv, [Next]_vars PROVE TypeOK'
  OBVIOUS
<1>1. CASE FirstOdom
  BY <1>1, FollowerAssumption DEF FirstOdom, TypeOK, pids
<1>2. ASSUME NEW p \in Pose, Odom(p) PROVE TypeOK'
  BY <1>2, FollowerAssumption DEF Odom, TypeOK, pids
<1>3. ASSUME NEW d \in Delays, ControlLoop(d) PROVE TypeOK'
  <2>1. /\ up' = up /\ loop' = loop /\ odom' = odom /\ pose' = pose
        /\ still' \in 0..StillBound
    BY <1>3, AgeType DEF ControlLoop
  <2>2. CASE Idle(d)
    BY <2>1, <2>2, ClockType DEF Idle, TypeOK, pids
  <2>3. CASE Finish(d)
    BY <2>1, <2>3, ClockType, HoldCounts DEF Finish, TypeOK, pids, Command
  <2>4. CASE Reach
    <3>1. Ready /\ (idx < N \/ loop)
      BY <2>4 DEF Reach
    <3>2. idx' \in 0..N
      BY <2>4, <3>1, TargetType DEF Reach
    <3>3. brakeLeft' \in 0..BRAKE_CYCLES /\ elapsed' \in 0..(StuckTimeout + 1)
      BY <2>4, FollowerAssumption DEF Reach
    <3> QED BY <2>1, <2>4, <3>2, <3>3 DEF Reach, ResetPids, TypeOK
  <2>5. CASE GiveUp(d)
    <3>1. smooth' \in ErrorClass
      BY <2>5, SmoothedType DEF GiveUp
    <3> QED BY <2>1, <2>5, <3>1, ClockType, HoldCounts
            DEF GiveUp, TypeOK, pids, Command
  <2>6. ASSUME NEW e \in ErrorClass, Brake(d, e) PROVE TypeOK'
    <3>1. Control(d, e)
      BY <2>6 DEF Brake
    <3>2. brakeLeft' \in 0..BRAKE_CYCLES /\ braking' \in BOOLEAN
      BY <2>6, FollowerAssumption DEF Brake, TypeOK, StillBraking, BrakeInv
    <3>3. headingAcc' \subseteq Error /\ distAcc' \subseteq Error
      BY <2>6, FreshType DEF Brake, TypeOK
    <3>4. cmd' \in Command /\ sinceDrive' \in 0..BRAKE_CYCLES
      BY <2>6, HoldCounts DEF Brake, Command
    <3> QED BY <2>1, <3>1, <3>2, <3>3, <3>4, ControlType DEF TypeOK
  <2>7. ASSUME NEW e \in ErrorClass, Turn(d, e) PROVE TypeOK'
    <3>1. Control(d, e)
      BY <2>7 DEF Turn
    <3>2. Target \in 0..(N-1)
      BY <3>1, TargetType DEF Control
    <3>3. headingAcc' \subseteq Error /\ distAcc' \subseteq Error
      BY <2>7, <3>2, FreshType DEF Turn, TypeOK, Error, Motion
    <3>4. cmd' \in Command /\ UNCHANGED <<braking, brakeLeft, sinceDrive>>
      BY <2>7 DEF Turn, Command, Motion
    <3> QED BY <2>1, <3>1, <3>3, <3>4, ControlType DEF TypeOK
  <2>8. ASSUME NEW e \in ErrorClass, Drive(d, e) PROVE TypeOK'
    <3>1. Control(d, e)
      BY <2>8 DEF Drive
    <3>2. Target \in 0..(N-1)
      BY <3>1, TargetType DEF Control
    <3>3. headingAcc' \subseteq Error /\ distAcc' \subseteq Error
      BY <2>8, <3>2, FreshType DEF Drive, TypeOK, Error, Motion
    <3>4. sinceDrive' \in 0..BRAKE_CYCLES
      BY <2>8, FollowerAssumption DEF Drive
    <3> QED BY <2>1, <2>8, <3>1, <3>3, <3>4, ControlType
            DEF Drive, TypeOK, Command, Motion
  <2> QED BY <1>3, <2>2, <2>3, <2>4, <2>5, <2>6, <2>7, <2>8 DEF ControlLoop
<1>4. CASE Interrupt
  BY <1>4, HoldCounts DEF Interrupt, TypeOK, pids, Command
<1>5. CASE UNCHANGED vars
  BY <1>5 DEF vars, TypeOK
<1> QED BY <1>1, <1>2, <1>3, <1>4, <1>5 DEF Next

(***************************************************************************)
(* Braking.  Between a drive command and a turn in place the node counts   *)
(* its stop commands down in brakeLeft; what has been sent and what is     *)
(* still to be sent never add up to less than BRAKE_CYCLES.                *)
(***************************************************************************)

\* Counting a stop keeps a sum above its bound.
LEMMA SumStays ==
    ASSUME NEW sum \in Nat, NEW s \in Nat, NEW t \in Nat, NEW left \in Nat,
           t >= s, s + left >= sum
    PROVE  t + left >= sum
OBVIOUS

\* Counting a stop makes up for one brake cycle less.
LEMMA CountingStays ==
    ASSUME NEW sum \in Nat, NEW s \in Nat, NEW t \in Nat, NEW left \in Nat,
           t = s + 1 \/ t = sum, s + 1 + left >= sum
    PROVE  t + left >= sum
OBVIOUS

LEMMA BrakeInit == Init => BrakeInv
BY DEF Init, BrakeInv, BrakedBeforeTurn

\* A stop command that leaves the braking state alone.
LEMMA HoldKeepsBrakeInv ==
    ASSUME TypeOK, BrakeInv, Hold, UNCHANGED <<turning, braking, brakeLeft>>
    PROVE  BrakeInv'
<1>1. /\ cmd' = "stop" /\ sinceDrive' \in 0..BRAKE_CYCLES
      /\ sinceDrive' >= sinceDrive
  BY HoldCounts
<1>2. BrakedBeforeTurn'
  BY <1>1 DEF BrakedBeforeTurn
<1>3. /\ BRAKE_CYCLES \in Nat /\ sinceDrive \in Nat /\ brakeLeft \in Nat
      /\ sinceDrive' \in Nat /\ sinceDrive' <= BRAKE_CYCLES
  BY <1>1, FollowerAssumption DEF TypeOK
<1>4. ASSUME braking PROVE brakeLeft > 0 /\ sinceDrive' + brakeLeft >= BRAKE_CYCLES
  BY <1>1, <1>3, <1>4, SumStays DEF BrakeInv
<1>5. ASSUME turning, ~braking PROVE sinceDrive' = BRAKE_CYCLES
  BY <1>1, <1>3, <1>5 DEF BrakeInv
<1> QED BY <1>2, <1>4, <1>5 DEF BrakeInv

\* A step that sends nothing and leaves the braking state alone.
LEMMA SilentKeepsBrakeInv ==
    ASSUME BrakeInv, UNCHANGED <<turning, braking, brakeLeft, cmd, sinceDrive>>
    PROVE  BrakeInv'
BY DEF BrakeInv, BrakedBeforeTurn

LEMMA BrakeStep == TypeOK /\ BrakeInv /\ [Next]_vars => BrakeInv'
<1> SUFFICES ASSUME TypeOK, BrakeInv, [Next]_vars PROVE BrakeInv'
  OBVIOUS
<1>1. CASE FirstOdom
  BY <1>1, SilentKeepsBrakeInv DEF FirstOdom
<1>2. ASSUME NEW p \in Pose, Odom(p) PROVE BrakeInv'
  BY <1>2, SilentKeepsBrakeInv DEF Odom
<1>3. ASSUME NEW d \in Delays, ControlLoop(d) PROVE BrakeInv'
  <2>1. CASE Idle(d)
    BY <2>1, SilentKeepsBrakeInv DEF Idle
  <2>2. CASE Finish(d)
    BY <2>2, HoldKeepsBrakeInv DEF Finish
  <2>3. CASE Reach
    BY <2>3, FollowerAssumption DEF Reach, TypeOK, BrakeInv, BrakedBeforeTurn
  <2>4. CASE GiveUp(d)
    BY <2>4, HoldKeepsBrakeInv DEF GiveUp
  <2>5. ASSUME NEW e \in ErrorClass, Brake(d, e) PROVE BrakeInv'
    <3> DEFINE left == (IF Entering(e) THEN BRAKE_CYCLES ELSE brakeLeft) - 1
    <3>1. /\ cmd' = "stop" /\ sinceDrive' \in 0..BRAKE_CYCLES
          /\ sinceDrive' = sinceDrive + 1 \/ sinceDrive' = BRAKE_CYCLES
      BY <2>5, HoldCounts DEF Brake
    <3>2. brakeLeft' = left /\ (braking' <=> left > 0)
      BY <2>5 DEF Brake, StillBraking
    <3>3. left \in Nat /\ sinceDrive + 1 + left >= BRAKE_CYCLES
      BY <2>5, FollowerAssumption DEF Brake, TypeOK, BrakeInv
    <3> HIDE DEF left
    <3>4. /\ BRAKE_CYCLES \in Nat /\ sinceDrive \in Nat
          /\ sinceDrive' \in Nat /\ sinceDrive' <= BRAKE_CYCLES
      BY <3>1, FollowerAssumption DEF TypeOK
    <3>5. sinceDrive' + left >= BRAKE_CYCLES
      BY <3>1, <3>3, <3>4, CountingStays
    <3>6. ASSUME ~braking' PROVE sinceDrive' = BRAKE_CYCLES
      BY <3>1, <3>2, <3>3, <3>4, <3>5, <3>6
    <3> QED BY <3>1, <3>2, <3>5, <3>6 DEF BrakeInv, BrakedBeforeTurn
  <2>6. ASSUME NEW e \in ErrorClass, Turn(d, e) PROVE BrakeInv'
    <3>1. turning /\ ~braking
      BY <2>6 DEF Turn, Entering, WasTurning
    <3> QED BY <2>6, <3>1 DEF Turn, BrakeInv, BrakedBeforeTurn
  <2>7. ASSUME NEW e \in ErrorClass, Drive(d, e) PROVE BrakeInv'
    <3>1. ~turning' /\ ~braking' /\ cmd' = "drive"
      BY <2>7 DEF Drive, Control
    <3> QED BY <3>1 DEF BrakeInv, BrakedBeforeTurn
  <2> QED BY <1>3, <2>1, <2>2, <2>3, <2>4, <2>5, <2>6, <2>7 DEF ControlLoop
<1>4. CASE Interrupt
  BY <1>4, HoldKeepsBrakeInv DEF Interrupt
<1>5. CASE UNCHANGED vars
  BY <1>5, SilentKeepsBrakeInv DEF vars
<1> QED BY <1>1, <1>2, <1>3, <1>4, <1>5 DEF Next

\* Types and braking hold together: neither is inductive without the other.
THEOREM TypesAndBraking == Spec => []BrakesSafely
<1>1. Init => TypeOK /\ BrakeInv
  BY TypeInit, BrakeInit
<1>2. TypeOK /\ BrakeInv /\ [Next]_vars => (TypeOK /\ BrakeInv)'
  BY TypeStep, BrakeStep
<1> QED BY <1>1, <1>2, PTL DEF Spec, BrakesSafely

\* Every variable of the node keeps its type: no waypoint index beyond the
\* file, no brake counter below zero.
THEOREM TypeCorrect == Spec => []TypeOK
BY TypesAndBraking, PTL DEF BrakesSafely

\* The wheels never get a turn in place, after any drive command, before
\* BRAKE_CYCLES explicit stop commands, whatever odometry says meanwhile.
THEOREM BrakingSafe == Spec => []BrakedBeforeTurn
<1>1. BrakeInv => BrakedBeforeTurn
  BY DEF BrakeInv
<1> QED BY <1>1, TypesAndBraking, PTL DEF BrakesSafely

(***************************************************************************)
(* PID memory                                                              *)
(***************************************************************************)

LEMMA PidInit == Init => PidFresh
BY DEF Init, PidFresh

LEMMA PidUnchanged ==
    ASSUME PidFresh, UNCHANGED <<idx, turning, headingAcc, distAcc>>
    PROVE  PidFresh'
BY DEF PidFresh

\* What survives the start of a control run belongs to the run's target.
LEMMA FreshOfTarget ==
    ASSUME PidFresh
    PROVE  /\ \A m \in Fresh(headingAcc) \cup Fresh(distAcc) : m.wp = Target
           /\ WasTurning => \A m \in Fresh(headingAcc) : m.mode = "turn"
BY DEF PidFresh, Fresh, Target, WasTurning

LEMMA PidStep == PidFresh /\ [Next]_vars => PidFresh'
<1> SUFFICES ASSUME PidFresh, [Next]_vars PROVE PidFresh'
  OBVIOUS
<1>1. CASE FirstOdom
  BY <1>1, PidUnchanged DEF FirstOdom, pids
<1>2. ASSUME NEW p \in Pose, Odom(p) PROVE PidFresh'
  BY <1>2, PidUnchanged DEF Odom, pids
<1>3. ASSUME NEW d \in Delays, ControlLoop(d) PROVE PidFresh'
  <2>1. CASE Idle(d)
    BY <2>1, PidUnchanged DEF Idle, pids
  <2>2. CASE Finish(d)
    BY <2>2, PidUnchanged DEF Finish, pids
  <2>3. CASE Reach
    BY <2>3 DEF Reach, ResetPids, PidFresh
  <2>4. CASE GiveUp(d)
    BY <2>4, PidUnchanged DEF GiveUp, pids
  <2>5. ASSUME NEW e \in ErrorClass, Brake(d, e) PROVE PidFresh'
    <3>1. /\ idx' = Target /\ turning' = Turning(e)
          /\ distAcc' = Fresh(distAcc)
          /\ headingAcc' = IF Entering(e) THEN {} ELSE Fresh(headingAcc)
      BY <2>5 DEF Brake, Control
    <3>2. \A m \in headingAcc' \cup distAcc' : m.wp = idx'
      BY <3>1, FreshOfTarget
    <3>3. turning' => \A m \in headingAcc' : m.mode = "turn"
      BY <3>1, FreshOfTarget DEF Entering
    <3> QED BY <3>2, <3>3 DEF PidFresh
  <2>6. ASSUME NEW e \in ErrorClass, Turn(d, e) PROVE PidFresh'
    <3>1. /\ idx' = Target /\ WasTurning
          /\ distAcc' = Fresh(distAcc)
          /\ headingAcc' = Fresh(headingAcc)
                               \cup {[wp |-> Target, mode |-> "turn"]}
      BY <2>6 DEF Turn, Control, Entering
    <3> QED BY <3>1, FreshOfTarget DEF PidFresh
  <2>7. ASSUME NEW e \in ErrorClass, Drive(d, e) PROVE PidFresh'
    <3> DEFINE tag == {[wp |-> Target, mode |-> "drive"]}
    <3>1. /\ idx' = Target /\ ~turning'
          /\ distAcc' = Fresh(distAcc) \cup tag
          /\ headingAcc' \subseteq Fresh(headingAcc) \cup tag
      BY <2>7 DEF Drive, Control
    <3> QED BY <3>1, FreshOfTarget DEF PidFresh
  <2> QED BY <1>3, <2>1, <2>2, <2>3, <2>4, <2>5, <2>6, <2>7 DEF ControlLoop
<1>4. CASE Interrupt
  BY <1>4, PidUnchanged DEF Interrupt, pids
<1>5. CASE UNCHANGED vars
  BY <1>5, PidUnchanged DEF vars, pids
<1> QED BY <1>1, <1>2, <1>3, <1>4, <1>5 DEF Next

\* No PID controller carries anything over from one waypoint to the next, nor
\* the heading controller from a drive into a turn in place, on any lap.
THEOREM PidsFresh == Spec => []PidFresh
BY PidInit, PidStep, PTL DEF Spec

(***************************************************************************)
(* Frozen odometry.  How long the pose can have been frozen follows from   *)
(* what the node still credits as progress there: a waypoint under the     *)
(* rover, the distance from the anchor, and the time since the last of     *)
(* these.                                                                  *)
(***************************************************************************)

Longest(most) == most \in Delays /\ \A d \in Delays : d <= most

\* While the node navigates a route that does not loop, odometry has been
\* frozen for no more than one period for each waypoint behind the rover, as
\* long as the rover stands on the next one; for no time if the anchor is
\* still behind; and else for at most a period more than the stuck timer shows.
FrozenFor(most) ==
    /\ still <= elapsed + (idx + 1) * most
    /\ (idx < N => Distance[pose][idx] = "reached") => still <= idx * most
    /\ idx < N /\ Distance[pose][idx] # "reached" /\ <<anchor, pose>> \in Apart
          => still = 0

FrozenInv ==
    ~loop => /\ cmd \in Motion => Ready
             /\ Ready => \A most \in Delays : Longest(most) => FrozenFor(most)

\* Counting whole periods.
LEMMA OnePeriodMore ==
    ASSUME NEW n \in Nat, NEW most \in Nat
    PROVE  /\ n * most \in Nat /\ (n + 1) * most \in Nat
           /\ (n + 1) * most = n * most + most
OBVIOUS

LEMMA PeriodsGrow ==
    ASSUME NEW m \in Nat, NEW n \in Nat, NEW most \in Nat, m <= n
    PROVE  m * most <= n * most
<1>1. PICK k \in Nat : n = m + k
  <2>1. n - m \in Nat /\ n = m + (n - m)
    OBVIOUS
  <2> QED BY <2>1
<1>2. n * most = m * most + k * most /\ m * most \in Nat /\ k * most \in Nat
  BY <1>1
<1> QED BY <1>2

LEMMA FrozenInit == Init => FrozenInv
BY DEF Init, FrozenInv, Motion, Ready

\* A step after which the node no longer navigates, and stands still.
LEMMA IdleIsFrozen ==
    ASSUME ~Ready', cmd' \notin Motion
    PROVE  FrozenInv'
BY DEF FrozenInv

\* The pose has just changed.
LEMMA MovingIsFrozen ==
    ASSUME NEW i \in Nat, NEW e \in Nat, idx' = i, elapsed' = e, still' = 0,
           NEW most \in Delays
    PROVE  FrozenFor(most)'
<1>1. most \in Nat
  BY FollowerAssumption
<1>2. i * most \in Nat /\ (i + 1) * most \in Nat
  BY <1>1, OnePeriodMore
<1>3. e + (i + 1) * most >= 0 /\ i * most >= 0
  BY <1>2
<1> QED BY <1>3 DEF FrozenFor

\* A period at a frozen pose: how FrozenFor carries over a control run.
LEMMA ReachKeepsFrozen ==
    ASSUME TypeOK, ~loop, Reach, pose' = pose,
           NEW d \in Delays, Age(d),
           NEW most \in Delays, Longest(most), FrozenFor(most)
    PROVE  FrozenFor(most)'
<1>1. /\ most \in Nat /\ d \in Nat /\ d <= most
      /\ idx \in Nat /\ still \in Nat /\ StillBound \in Nat
  BY FollowerAssumption DEF TypeOK, Longest
<1>2. still' \in Nat /\ still' <= still + d
  BY <1>1 DEF Age, Least
<1>3. /\ idx < N /\ Distance[pose][idx] = "reached"
      /\ idx' = idx + 1 /\ anchor' = pose /\ elapsed' = 0
  BY DEF Reach, Near, Target, Wrapping
<1>4. still <= idx * most
  BY <1>3 DEF FrozenFor
<1>5. idx' * most = idx * most + most /\ idx' * most \in Nat
  BY <1>1, <1>3, OnePeriodMore
<1>6. idx' \in Nat /\ (idx' + 1) * most = idx' * most + most
  BY <1>1, <1>3, OnePeriodMore
<1>7. idx * most \in Nat
  BY <1>1, OnePeriodMore
<1>8. still' <= idx' * most
  BY <1>1, <1>2, <1>4, <1>5, <1>7
<1>9. still' <= elapsed' + (idx' + 1) * most
  BY <1>1, <1>2, <1>3, <1>5, <1>6, <1>8
<1>10. <<anchor', pose'>> \notin Apart
  BY <1>3, FollowerAssumption DEF TypeOK
<1> QED BY <1>8, <1>9, <1>10 DEF FrozenFor

LEMMA ControlKeepsFrozen ==
    ASSUME TypeOK, ~loop, pose' = pose,
           NEW d \in Delays, NEW e \in ErrorClass, Control(d, e), Age(d),
           NEW most \in Delays, Longest(most), FrozenFor(most)
    PROVE  FrozenFor(most)'
<1>1. /\ most \in Nat /\ d \in Nat /\ d <= most
      /\ idx \in Nat /\ still \in Nat /\ StillBound \in Nat
      /\ elapsed \in Nat /\ StuckTimeout \in Nat
  BY FollowerAssumption DEF TypeOK, Longest
<1>2. still' \in Nat /\ still' <= still + d
  BY <1>1 DEF Age, Least
<1>3. ~Wrapping /\ idx < N /\ Target = idx /\ idx' = idx
  BY DEF Control, Target, Wrapping
<1>4. Distance[pose][idx] # "reached"
  BY <1>3 DEF Control, Near
<1>5. Moved <=> <<anchor, pose>> \in Apart
  BY <1>3 DEF Moved, Anchor
<1>6. idx * most \in Nat /\ (idx + 1) * most = idx * most + most
  BY <1>1, OnePeriodMore
<1>7. still' <= elapsed' + (idx' + 1) * most
  <2>1. CASE Moved
    <3>1. still = 0 /\ elapsed' = 0
      BY <2>1, <1>3, <1>4, <1>5 DEF FrozenFor, Control
    <3>2. still' <= most
      BY <3>1, <1>1, <1>2
    <3> QED BY <3>1, <3>2, <1>1, <1>2, <1>3, <1>6
  <2>2. CASE ~Moved
    <3>1. elapsed' = Clock(d) /\ Clock(d) <= StuckTimeout
      BY <2>2, <1>1, <1>3 DEF Control, Stuck, SinceProgress, Clock, Least
    <3>2. elapsed' = elapsed + d
      BY <3>1, <1>1 DEF Clock, Least
    <3>3. still <= elapsed + (idx + 1) * most
      BY DEF FrozenFor
    <3> QED BY <3>2, <3>3, <1>1, <1>2, <1>3, <1>6
  <2> QED BY <2>1, <2>2
<1>8. <<anchor', pose'>> \notin Apart
  <2>1. <<pose, pose>> \notin Apart
    BY FollowerAssumption DEF TypeOK
  <2> QED BY <2>1, <1>3, <1>5 DEF Control, Anchor
<1> QED BY <1>3, <1>4, <1>7, <1>8 DEF FrozenFor

LEMMA FrozenStep == TypeOK /\ TypeOK' /\ FrozenInv /\ [Next]_vars => FrozenInv'
<1> SUFFICES ASSUME TypeOK, TypeOK', FrozenInv, [Next]_vars PROVE FrozenInv'
  OBVIOUS
<1>0. idx' \in Nat /\ elapsed' \in Nat
  BY FollowerAssumption DEF TypeOK
<1>1. CASE FirstOdom
  <2>1. cmd \notin Motion \/ loop
    BY <1>1 DEF FirstOdom, FrozenInv, Ready
  <2>2. cmd' = cmd /\ loop' = loop /\ still' = 0
    BY <1>1 DEF FirstOdom
  <2> QED BY <2>1, <2>2, <1>0, MovingIsFrozen DEF FrozenInv
<1>2. ASSUME NEW p \in Pose, Odom(p) PROVE FrozenInv'
  <2>1. UNCHANGED <<cmd, loop, active, odom>> /\ still' = 0
    BY <1>2 DEF Odom
  <2> QED BY <2>1, <1>0, MovingIsFrozen DEF FrozenInv, Ready
<1>3. ASSUME NEW d \in Delays, ControlLoop(d) PROVE FrozenInv'
  <2>1. Age(d) /\ UNCHANGED <<loop, odom, pose>>
    BY <1>3 DEF ControlLoop
  <2>2. CASE Idle(d)
    <3>1. ~Ready' /\ cmd' = cmd
      BY <2>1, <2>2 DEF Idle, Ready
    <3> QED BY <2>1, <2>2, <3>1 DEF Idle, FrozenInv
  <2>3. CASE Finish(d) \/ GiveUp(d)
    <3>1. ~Ready' /\ cmd' \notin Motion
      BY <2>3 DEF Finish, GiveUp, Hold, Ready, Motion
    <3> QED BY <3>1, IdleIsFrozen
  <2>4. CASE Reach
    <3>1. Ready /\ Ready'
      BY <2>1, <2>4 DEF Reach, Ready
    <3>2. ASSUME ~loop, NEW most \in Delays, Longest(most)
          PROVE  FrozenFor(most)'
      BY <2>1, <2>4, <3>1, <3>2, ReachKeepsFrozen DEF FrozenInv
    <3> QED BY <2>1, <3>1, <3>2 DEF FrozenInv, Longest
  <2>5. ASSUME NEW e \in ErrorClass, Brake(d, e) \/ Turn(d, e) \/ Drive(d, e)
        PROVE  FrozenInv'
    <3>1. Control(d, e)
      BY <2>5 DEF Brake, Turn, Drive
    <3>2. Ready /\ Ready'
      BY <2>1, <3>1 DEF Control, Ready
    <3>3. ASSUME ~loop, NEW most \in Delays, Longest(most)
          PROVE  FrozenFor(most)'
      BY <2>1, <3>1, <3>2, <3>3, ControlKeepsFrozen DEF FrozenInv
    <3> QED BY <2>1, <3>2, <3>3 DEF FrozenInv, Longest
  <2> QED BY <1>3, <2>2, <2>3, <2>4, <2>5 DEF ControlLoop
<1>4. CASE Interrupt
  <2>1. cmd' \notin Motion
    BY <1>4 DEF Interrupt, Hold, Motion
  <2>2. UNCHANGED <<loop, active, odom, pose, idx, anchor, elapsed, still>>
    BY <1>4 DEF Interrupt
  <2> QED BY <2>1, <2>2 DEF FrozenInv, Ready, Longest, FrozenFor
<1>5. CASE UNCHANGED vars
  BY <1>5 DEF vars, FrozenInv, Ready, Longest, FrozenFor
<1> QED BY <1>1, <1>2, <1>3, <1>4, <1>5 DEF Next

\* The bound that follows is within FrozenLimit.
LEMMA FrozenBounds == TypeOK /\ FrozenInv => FrozenMeansStopped
<1> SUFFICES ASSUME TypeOK, FrozenInv, ~loop,
                    NEW most \in Delays, \A d \in Delays : d <= most,
                    still > FrozenLimit(most)
             PROVE  cmd \notin Motion
  BY DEF FrozenMeansStopped, Withdrawn
<1> SUFFICES ASSUME cmd \in Motion PROVE FALSE
  OBVIOUS
<1>1. still <= elapsed + (idx + 1) * most
  BY DEF FrozenInv, Longest, FrozenFor
<1>2. /\ most \in Nat /\ most > 0 /\ N \in Nat /\ still \in Nat
      /\ idx + 1 \in Nat /\ idx + 1 <= N + 1 /\ N + 1 \in Nat /\ N + 2 \in Nat
      /\ elapsed \in Nat /\ StuckTimeout \in Nat /\ elapsed <= StuckTimeout + 1
  BY FollowerAssumption DEF TypeOK
<1>3. (idx + 1) * most <= (N + 1) * most
  BY <1>2, PeriodsGrow
<1>4. (N + 3) * most = (N + 1) * most + most + most
  <2>1. (N + 2) * most = (N + 1) * most + most
    BY <1>2, OnePeriodMore
  <2>2. (N + 3) * most = (N + 2) * most + most
    BY <1>2, OnePeriodMore
  <2> QED BY <2>1, <2>2, <1>2
<1>5. (idx + 1) * most \in Nat /\ (N + 1) * most \in Nat
  BY <1>2
<1> QED BY <1>1, <1>2, <1>3, <1>4, <1>5 DEF FrozenLimit

\* On a route that does not loop, odometry that freezes withdraws any motion
\* command within StuckTimeout and N + 3 of the longest control periods: the
\* stuck detector of the control loop is not put off by braking, by a turn, by
\* waypoints reached on the spot or by a late executor.
THEOREM FrozenSafe == Spec => []FrozenMeansStopped
<1>1. Init => FrozenInv
  BY FrozenInit
<1>2. Spec => []TypeOK
  BY TypeCorrect
<1>3. TypeOK /\ TypeOK' /\ FrozenInv /\ [Next]_vars => FrozenInv'
  BY FrozenStep
<1>4. TypeOK /\ FrozenInv => FrozenMeansStopped
  BY FrozenBounds
<1> QED BY <1>1, <1>2, <1>3, <1>4, PTL DEF Spec

(***************************************************************************)
(* Refinement: the node implements Mission.                                *)
(***************************************************************************)

\* A mission that is over, or interrupted, has been stopped.
Stopped == ~active \/ ~up => cmd = "stop"

LEMMA StoppedInit == Init => Stopped
BY DEF Init, Stopped

LEMMA StoppedStep == TypeOK /\ Stopped /\ [Next]_vars => Stopped'
<1> SUFFICES ASSUME TypeOK, Stopped, [Next]_vars PROVE Stopped'
  OBVIOUS
<1>1. CASE FirstOdom
  BY <1>1 DEF FirstOdom, Stopped
<1>2. ASSUME NEW p \in Pose, Odom(p) PROVE Stopped'
  BY <1>2 DEF Odom, Stopped
<1>3. ASSUME NEW d \in Delays, ControlLoop(d) PROVE Stopped'
  <2>1. up /\ up'
    BY <1>3 DEF ControlLoop
  <2>2. CASE Idle(d)
    BY <2>1, <2>2 DEF Idle, Stopped
  <2>3. CASE Finish(d) \/ GiveUp(d)
    BY <2>1, <2>3 DEF Finish, GiveUp, Hold, Stopped
  <2>4. CASE Reach
    BY <2>1, <2>4 DEF Reach, Ready, Stopped
  <2>5. ASSUME NEW e \in ErrorClass, Brake(d, e) \/ Turn(d, e) \/ Drive(d, e)
        PROVE  Stopped'
    BY <2>1, <2>5 DEF Brake, Turn, Drive, Control, Ready, Stopped
  <2> QED BY <1>3, <2>2, <2>3, <2>4, <2>5 DEF ControlLoop
<1>4. CASE Interrupt
  BY <1>4 DEF Interrupt, Hold, Stopped
<1>5. CASE UNCHANGED vars
  BY <1>5 DEF vars, Stopped
<1> QED BY <1>1, <1>2, <1>3, <1>4, <1>5 DEF Next

LEMMA MissionInits == Init => Abstract!MissionInit
BY DEF Init, Abstract!MissionInit, Phase, Motion

\* A step that changes neither the phase, nor the leg, nor whether it moves.
LEMMA MissionStutters ==
    ASSUME UNCHANGED <<up, loop, active, odom, idx, cmd>>
    PROVE  UNCHANGED Abstract!mvars
BY DEF Abstract!mvars, Phase

\* Every command of the control law is an order of the mission, or the order
\* that starts a new lap.
LEMMA ControlOrders ==
    ASSUME TypeOK, NEW d \in Delays, NEW e \in ErrorClass, Control(d, e),
           up, UNCHANGED <<up, loop, odom>>
    PROVE  Abstract!MissionNext
<1>1. Ready /\ active' = active /\ Phase = "under_way" /\ Phase' = "under_way"
  BY DEF Control, Ready, Phase
<1>2. N \in Nat /\ N > 0 /\ idx \in 0..N /\ (idx < N \/ loop) /\ idx' = Target
  BY <1>1, FollowerAssumption DEF TypeOK, Ready, Control
<1>3. CASE idx < N
  <2>1. idx' = idx
    BY <1>2, <1>3 DEF Target, Wrapping
  <2> QED BY <1>1, <1>3, <2>1 DEF Abstract!MissionNext, Abstract!Order
<1>4. CASE ~(idx < N)
  <2>1. loop /\ idx = N /\ idx' = 0
    BY <1>2, <1>4 DEF Target, Wrapping
  <2> QED BY <1>1, <1>2, <2>1 DEF Abstract!MissionNext, Abstract!Restart
<1> QED BY <1>3, <1>4

LEMMA MissionStep ==
    TypeOK /\ Stopped /\ [Next]_vars => [Abstract!MissionNext]_Abstract!mvars
<1> SUFFICES ASSUME TypeOK, Stopped, [Next]_vars
             PROVE  [Abstract!MissionNext]_Abstract!mvars
  OBVIOUS
<1>1. CASE FirstOdom
  <2>1. CASE active
    <3>1. Phase = "waiting" /\ Phase' = "under_way"
      BY <1>1, <2>1 DEF FirstOdom, Phase
    <3> QED BY <1>1, <3>1
            DEF FirstOdom, Abstract!MissionNext, Abstract!Begin
  <2>2. CASE ~active
    BY <1>1, <2>2 DEF FirstOdom, Phase, Abstract!mvars
  <2> QED BY <2>1, <2>2
<1>2. ASSUME NEW p \in Pose, Odom(p) PROVE UNCHANGED Abstract!mvars
  BY <1>2, MissionStutters DEF Odom
<1>3. ASSUME NEW d \in Delays, ControlLoop(d)
      PROVE  [Abstract!MissionNext]_Abstract!mvars
  <2>1. up /\ UNCHANGED <<up, loop, odom>>
    BY <1>3 DEF ControlLoop
  <2>2. CASE Idle(d)
    BY <2>1, <2>2, MissionStutters DEF Idle
  <2>3. CASE Finish(d)
    <3>1. Phase = "under_way" /\ Phase' = "completed"
      BY <2>1, <2>3 DEF Finish, Ready, Phase
    <3> QED BY <2>1, <2>3, <3>1 DEF Finish, Hold, Motion,
                              Abstract!MissionNext, Abstract!Complete
  <2>4. CASE Reach
    <3>1. /\ Phase = "under_way" /\ Phase' = "under_way"
          /\ N > 0 /\ idx' = Target + 1 /\ cmd' = cmd
      BY <2>1, <2>4 DEF Reach, Ready, Phase
    <3>2. CASE idx < N
      <4>1. idx' = idx + 1
        BY <3>1, <3>2, FollowerAssumption DEF Target, Wrapping, TypeOK
      <4> QED BY <2>1, <3>1, <3>2, <4>1
              DEF Abstract!MissionNext, Abstract!Reach
    <3>3. CASE ~(idx < N)
      <4>1. loop /\ idx = N /\ idx' = 1
        BY <2>4, <3>1, <3>3, FollowerAssumption
           DEF Reach, Target, Wrapping, TypeOK
      <4> QED BY <2>1, <3>1, <4>1 DEF Abstract!MissionNext, Abstract!Restart
    <3> QED BY <3>2, <3>3
  <2>5. CASE GiveUp(d)
    <3>1. Phase = "under_way" /\ Phase' = "aborted"
      BY <2>1, <2>5, FollowerAssumption DEF GiveUp, Ready, Phase, TypeOK
    <3> QED BY <2>1, <2>5, <3>1 DEF GiveUp, Hold, Motion,
                              Abstract!MissionNext, Abstract!Abort
  <2>6. ASSUME NEW e \in ErrorClass, Brake(d, e) \/ Turn(d, e) \/ Drive(d, e)
        PROVE  Abstract!MissionNext
    BY <2>1, <2>6, ControlOrders DEF Brake, Turn, Drive
  <2> QED BY <1>3, <2>2, <2>3, <2>4, <2>5, <2>6 DEF ControlLoop
<1>4. CASE Interrupt
  <2>1. /\ loop' = loop /\ active' = active /\ idx' = idx /\ odom' = odom
        /\ up /\ ~up' /\ cmd' = "stop"
    BY <1>4 DEF Interrupt, Hold
  <2>2. CASE active
    <3>1. Phase \in {"waiting", "under_way"} /\ Phase' = "aborted"
      BY <2>1, <2>2 DEF Phase
    <3> QED BY <2>1, <3>1 DEF Motion, Abstract!MissionNext, Abstract!Abort
  <2>3. CASE ~active
    <3>1. cmd' = cmd /\ Phase' = Phase
      BY <2>1, <2>3 DEF Stopped, Phase
    <3> QED BY <2>1, <3>1 DEF Abstract!mvars
  <2> QED BY <2>2, <2>3
<1>5. CASE UNCHANGED vars
  BY <1>5, MissionStutters DEF vars
<1> QED BY <1>1, <1>2, <1>3, <1>4, <1>5 DEF Next

\* The node keeps the promise of Mission for every route: legs in order, only
\* under way, complete only after the last leg, and stopped for good at the end.
THEOREM Refinement == Spec => ImplementsMission
<1>1. Init => TypeOK /\ Stopped /\ Abstract!MissionInit
  BY TypeInit, StoppedInit, MissionInits
<1>2. Spec => []TypeOK
  BY TypeCorrect
<1>3. TypeOK /\ Stopped /\ [Next]_vars => Stopped'
  BY StoppedStep
<1>4. TypeOK /\ Stopped /\ [Next]_vars => [Abstract!MissionNext]_Abstract!mvars
  BY MissionStep
<1> QED BY <1>1, <1>2, <1>3, <1>4, PTL
        DEF Spec, ImplementsMission, Abstract!MissionSpec

----------------------------------------------------------------------------
(***************************************************************************)
(* PIDController.  The limit of the integral is a quotient rounded down,   *)
(* so multiplied again it never exceeds the swing it was divided from.     *)
(***************************************************************************)
\* The accumulated error is within the limit either way.
WithinLimit == integral \in Int /\ integral <= MaxIntegral /\ -MaxIntegral <= integral

LEMMA Positive ==
    ASSUME PIDAssumption
    PROVE  Gain \in Nat \ {0} /\ Swing \in Nat \ {0}
BY DEF PIDAssumption, Gain, Swing

\* A quotient rounded down, times its divisor.
LEMMA QuotientTimesDivisor ==
    ASSUME NEW d \in Nat, NEW g \in Nat \ {0}
    PROVE  d \div g \in Nat /\ g * (d \div g) <= d
OBVIOUS

LEMMA TimesMonotone ==
    ASSUME NEW g \in Nat, NEW a \in Int, NEW b \in Int, a <= b
    PROVE  g * a <= g * b
<1>1. b - a \in Nat
    OBVIOUS
<1>2. g * (b - a) >= 0
    BY <1>1
<1>3. g * (b - a) = g * b - g * a
    OBVIOUS
<1> QED BY <1>2, <1>3

LEMMA SignOfProduct ==
    ASSUME NEW g \in Nat, NEW a \in Int
    PROVE  (a >= 0 => g * a >= 0) /\ (a <= 0 => g * a <= 0)
OBVIOUS

LEMMA LimitIsNatural ==
    ASSUME PIDAssumption
    PROVE  MaxIntegral \in Nat /\ Gain * MaxIntegral <= Swing
<1>1. MaxIntegral = Swing \div Gain
    BY DEF MaxIntegral
<1> QED BY <1>1, Positive, QuotientTimesDivisor

LEMMA ClampBetween ==
    ASSUME NEW v \in Int, NEW m \in Nat
    PROVE  Clamp(v, -m, m) \in Int /\ Clamp(v, -m, m) <= m /\ -m <= Clamp(v, -m, m)
BY DEF Clamp

\* Whatever errors and periods the loop passes, the integral stays in bounds.
THEOREM IntegralLimited == ASSUME PIDAssumption PROVE PIDSpec => []WithinLimit
<1>1. PIDInit => WithinLimit
    BY LimitIsNatural DEF PIDInit, WithinLimit
<1>2. WithinLimit /\ [PIDNext]_pidvars => WithinLimit'
  <2> SUFFICES ASSUME WithinLimit, [PIDNext]_pidvars PROVE WithinLimit'
    OBVIOUS
  <2> MaxIntegral' = MaxIntegral
    BY DEF MaxIntegral, Swing, Gain
  <2>1. ASSUME NEW dt \in Dts, Skip(dt) PROVE WithinLimit'
    BY <2>1 DEF Skip, WithinLimit
  <2>2. ASSUME NEW dt \in Dts, NEW error \in Errors, Compute(error, dt) PROVE WithinLimit'
    <3>1. integral + error * dt \in Int
        BY DEF PIDAssumption, WithinLimit
    <3> QED BY <2>2, <3>1, LimitIsNatural, ClampBetween DEF Compute, WithinLimit
  <2>3. CASE Reset
    BY <2>3, LimitIsNatural DEF Reset, WithinLimit
  <2>4. CASE UNCHANGED pidvars
    BY <2>4 DEF pidvars, WithinLimit
  <2> QED BY <2>1, <2>2, <2>3, <2>4 DEF PIDNext
<1> QED BY <1>1, <1>2, PTL DEF PIDSpec

\* The history is a time, and the last error one of those that are passed.
PIDTyped == prev \in Errors \cup {0} /\ steady \in 0..Patience

\* What the errors on the side of the last one have paid back, at least.
PaidBack ==
    /\ prev > 0 => integral = MaxIntegral \/ integral + MaxIntegral >= steady * LeastError
    /\ prev < 0 => integral = -MaxIntegral \/ MaxIntegral - integral >= steady * LeastError

PIDInv == WithinLimit /\ PIDTyped /\ PaidBack

\* Patience is long enough to pay back the limit.
LEMMA PatienceIsEnough ==
    ASSUME PIDAssumption
    PROVE  Patience \in Nat \ {0} /\ MaxIntegral <= Patience * LeastError
<1>1. LeastError \in Nat \ {0}
    BY DEF PIDAssumption
<1>2. PICK rate \in Nat \ {0} : rate = Gain * LeastError
    BY <1>1, Positive
<1>3. PICK whole \in Nat : whole = Swing \div rate
    BY <1>2, Positive
<1>4. rate * (whole + 1) > Swing
    BY <1>2, <1>3, Positive
<1>5. Patience = whole + 1
    BY <1>2, <1>3 DEF Patience
<1>6. PICK paid \in Nat : paid = (whole + 1) * LeastError
    BY <1>1, <1>3
<1>7. rate * (whole + 1) = Gain * paid
    BY <1>1, <1>2, <1>3, <1>6, Positive
<1>8. CASE paid < MaxIntegral
  <2>1. Gain * paid <= Gain * MaxIntegral
    BY <1>6, <1>8, LimitIsNatural, Positive, TimesMonotone
  <2>2. Gain * paid \in Int /\ Gain * MaxIntegral \in Int
    BY <1>6, LimitIsNatural, Positive
  <2> QED BY <2>1, <2>2, <1>4, <1>7, LimitIsNatural, Positive
<1> QED BY <1>3, <1>5, <1>6, <1>8, LimitIsNatural

\* One computation pays back its error times its period.
LEMMA Pays ==
    ASSUME PIDAssumption, PIDInv, NEW error \in Errors, NEW dt \in Dts, Compute(error, dt)
    PROVE  PIDTyped' /\ PaidBack'
<1>1. /\ integral \in Int /\ -MaxIntegral <= integral /\ integral <= MaxIntegral
      /\ steady \in Nat /\ prev \in Int /\ error \in Int /\ dt \in Nat \ {0}
      /\ MaxIntegral \in Nat /\ Patience \in Nat /\ LeastError \in Nat \ {0}
    BY LimitIsNatural, PatienceIsEnough DEF PIDInv, WithinLimit, PIDTyped, PIDAssumption, Compute
<1>2. MaxIntegral' = MaxIntegral /\ Patience' = Patience
    BY DEF MaxIntegral, Patience, Swing, Gain
<1>3. PICK before \in Nat :
        /\ before = IF SameSide(error) THEN steady ELSE 0
        /\ steady' = Clamp(before + dt, 0, Patience)
    BY <1>1 DEF Compute
<1>4. steady' \in 0..Patience /\ steady' <= before + dt
    BY <1>1, <1>3 DEF Clamp
<1>5. PIDTyped'
    BY <1>2, <1>4 DEF PIDTyped, Compute
<1>6. steady' * LeastError <= before * LeastError + dt * LeastError
  <2>1. LeastError * steady' <= LeastError * (before + dt)
    BY <1>1, <1>3, <1>4, TimesMonotone
  <2> QED BY <2>1, <1>1, <1>3, <1>4
<1>7. PICK moved \in Int : moved = error * dt
    BY <1>1
<1>8. integral' = Clamp(integral + moved, -MaxIntegral, MaxIntegral) /\ prev' = error
    BY <1>7 DEF Compute
<1>9. ASSUME error > 0 PROVE integral' = MaxIntegral \/ integral' + MaxIntegral >= steady' * LeastError
  <2>1. LeastError <= error
    BY <1>1, <1>9 DEF PIDAssumption, Abs
  <2>2. dt * LeastError <= moved
    <3>1. dt * LeastError <= dt * error
        BY <1>1, <2>1, TimesMonotone
    <3> QED BY <3>1, <1>1, <1>7
  <2>3. integral = MaxIntegral \/ integral + MaxIntegral >= before * LeastError
    <3>1. CASE SameSide(error)
        BY <3>1, <1>1, <1>3, <1>9 DEF SameSide, PIDInv, PaidBack
    <3>2. CASE ~SameSide(error)
        BY <3>2, <1>1, <1>3
    <3> QED BY <3>1, <3>2
  <2>4. PICK paid \in Nat : paid = before * LeastError
    BY <1>1, <1>3
  <2>5. PICK now \in Nat : now = steady' * LeastError
    <3>1. PICK then \in Nat : then = steady'
        BY <1>1, <1>4
    <3>2. then * LeastError \in Nat
        BY <1>1
    <3> QED BY <3>1, <3>2
  <2>6. PICK pays \in Nat : pays = dt * LeastError
    BY <1>1
  <2> QED BY <2>2, <2>3, <2>4, <2>5, <2>6, <1>1, <1>6, <1>7, <1>8 DEF Clamp
<1>10. ASSUME error < 0 PROVE integral' = -MaxIntegral \/ MaxIntegral - integral' >= steady' * LeastError
  <2>1. LeastError <= -error
    BY <1>1, <1>10 DEF PIDAssumption, Abs
  <2>2. dt * LeastError <= -moved
    <3>1. dt * LeastError <= dt * (-error)
        BY <1>1, <2>1, TimesMonotone
    <3> QED BY <3>1, <1>1, <1>7
  <2>3. integral = -MaxIntegral \/ MaxIntegral - integral >= before * LeastError
    <3>1. CASE SameSide(error)
        BY <3>1, <1>1, <1>3, <1>10 DEF SameSide, PIDInv, PaidBack
    <3>2. CASE ~SameSide(error)
        BY <3>2, <1>1, <1>3
    <3> QED BY <3>1, <3>2
  <2>4. PICK paid \in Nat : paid = before * LeastError
    BY <1>1, <1>3
  <2>5. PICK now \in Nat : now = steady' * LeastError
    <3>1. PICK then \in Nat : then = steady'
        BY <1>1, <1>4
    <3>2. then * LeastError \in Nat
        BY <1>1
    <3> QED BY <3>1, <3>2
  <2>6. PICK pays \in Nat : pays = dt * LeastError
    BY <1>1
  <2> QED BY <2>2, <2>3, <2>4, <2>5, <2>6, <1>1, <1>6, <1>7, <1>8 DEF Clamp
<1> QED BY <1>2, <1>5, <1>8, <1>9, <1>10 DEF PaidBack

LEMMA PIDInvStep == ASSUME PIDAssumption, PIDInv, [PIDNext]_pidvars PROVE PIDTyped' /\ PaidBack'
<1>1. MaxIntegral' = MaxIntegral /\ Patience' = Patience
    BY DEF MaxIntegral, Patience, Swing, Gain
<1>2. ASSUME NEW dt \in Dts, Skip(dt) PROVE PIDTyped' /\ PaidBack'
    BY <1>1, <1>2 DEF Skip, PIDInv, PIDTyped, PaidBack
<1>3. ASSUME NEW dt \in Dts, NEW error \in Errors, Compute(error, dt) PROVE PIDTyped' /\ PaidBack'
    BY <1>3, Pays
<1>4. CASE Reset
    BY <1>1, <1>4, PatienceIsEnough DEF Reset, PIDTyped, PaidBack
<1>5. CASE UNCHANGED pidvars
    BY <1>1, <1>5 DEF pidvars, PIDInv, PIDTyped, PaidBack
<1> QED BY <1>2, <1>3, <1>4, <1>5 DEF PIDNext

\* Once the limit is paid back, all three terms have the sign of the error.
LEMMA PaidBackAnswers ==
    ASSUME PIDAssumption, PIDInv, PIDInv', NEW error \in Errors, NEW dt \in Dts, Compute(error, dt),
           steady' = Patience
    PROVE  /\ error > 0 /\ error >= prev => output' > 0
           /\ error < 0 /\ error <= prev /\ MinOut < 0 => output' < 0
<1>1. /\ integral' \in Int /\ prev \in Int /\ error \in Int /\ dt \in Nat \ {0} /\ prev' = error
      /\ MaxIntegral' = MaxIntegral /\ MaxIntegral \in Nat
      /\ KP \in Nat \ {0} /\ KI \in Nat /\ KD \in Nat /\ MinOut \in Int /\ MaxOut \in Int
      /\ MinOut <= 0 /\ MaxOut > 0
    BY LimitIsNatural
    DEF PIDInv, WithinLimit, PIDTyped, PIDAssumption, Compute, MaxIntegral, Swing, Gain
<1>2. PICK paid \in Nat : paid = Patience * LeastError /\ MaxIntegral <= paid
    BY PatienceIsEnough DEF PIDAssumption
<1>3. steady' * LeastError = paid
    BY <1>2
<1>4. PICK rise \in Int : rise = (10 * (error - prev)) \div dt
    BY <1>1
<1>5. PICK p \in Int : p = 10 * KP * error
    BY <1>1
<1>6. PICK next \in Int, i \in Int : next = integral' /\ i = KI * next
    BY <1>1
<1>7. PICK d \in Int : d = 10 * KD * rise
    BY <1>1, <1>4
<1>8. output' = Clamp(p + i + d, MinOut, MaxOut)
    BY <1>4, <1>5, <1>6, <1>7 DEF Compute
<1>9. ASSUME error > 0, error >= prev PROVE output' > 0
  <2>1. integral' >= 0
    <3>1. integral' = MaxIntegral \/ integral' + MaxIntegral >= paid
        BY <1>1, <1>3, <1>9 DEF PIDInv, PaidBack
    <3> QED BY <3>1, <1>1, <1>2
  <2>2. p > 0
    <3>1. KP * error > 0
        BY <1>1, <1>9
    <3> QED BY <3>1, <1>1, <1>5
  <2>3. i >= 0
    <3>1. next >= 0
        BY <2>1, <1>6
    <3> QED BY <3>1, <1>1, <1>6, SignOfProduct
  <2>4. rise >= 0
    BY <1>1, <1>4, <1>9
  <2>5. d >= 0
    <3>1. KD * rise >= 0
        BY <2>4, <1>1
    <3> QED BY <3>1, <1>1, <1>7
  <2> QED BY <2>2, <2>3, <2>5, <1>1, <1>8 DEF Clamp
<1>10. ASSUME error < 0, error <= prev, MinOut < 0 PROVE output' < 0
  <2>1. integral' <= 0
    <3>1. integral' = -MaxIntegral \/ MaxIntegral - integral' >= paid
        BY <1>1, <1>3, <1>10 DEF PIDInv, PaidBack
    <3> QED BY <3>1, <1>1, <1>2
  <2>2. p < 0
    <3>1. KP * error < 0
        BY <1>1, <1>10
    <3> QED BY <3>1, <1>1, <1>5
  <2>3. i <= 0
    <3>1. next <= 0
        BY <2>1, <1>6
    <3> QED BY <3>1, <1>1, <1>6, SignOfProduct
  <2>4. rise <= 0
    BY <1>1, <1>4, <1>10
  <2>5. d <= 0
    <3>1. KD * rise <= 0
        BY <2>4, <1>1
    <3> QED BY <3>1, <1>1, <1>7
  <2> QED BY <2>2, <2>3, <2>5, <1>1, <1>8, <1>10 DEF Clamp
<1> QED BY <1>9, <1>10

\* ErrorAnswered, for all gains, limits, errors and periods of compute: what was
\* accumulated on one side never outweighs for longer than Patience an error
\* that stays on the other.
THEOREM ErrorIsAnswered == ASSUME PIDAssumption PROVE PIDSpec => ErrorAnswered
<1>1. PIDInit => PIDTyped /\ PaidBack
    BY PatienceIsEnough DEF PIDInit, PIDTyped, PaidBack
<1>2. WithinLimit /\ WithinLimit' /\ PIDTyped /\ PaidBack /\ [PIDNext]_pidvars => PIDTyped' /\ PaidBack'
    BY PIDInvStep DEF PIDInv
<1>3. WithinLimit /\ PIDTyped /\ PaidBack => PIDInv
    BY DEF PIDInv
<1>4. PIDInv /\ PIDInv' => Answers
    BY PaidBackAnswers DEF Answers
<1> QED BY <1>1, <1>2, <1>3, <1>4, IntegralLimited, PTL DEF PIDSpec, ErrorAnswered
=============================================================================
