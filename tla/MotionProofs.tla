---------------------------- MODULE MotionProofs ----------------------------
(***************************************************************************)
(* Proofs about the programs that move the rover, other than               *)
(* waypoint_follower: for any route, speeds, gains, limits and tolerances, *)
(* any lag of odometry and any number of disturbances; first of each       *)
(* program, then of MCMotions, whose behaviours are those of one of them.  *)
(***************************************************************************)
EXTENDS MCMotions, TLAPS

(***************************************************************************)
(* bang_waypoint_follower                                                  *)
(***************************************************************************)

\* What the node may have on /cmd_vel.
BangCommand ==
    {Bang!Still, [lin |-> BangSpeed, ang |-> 0]}
        \cup {[lin |-> 0, ang |-> a] : a \in {BangTurn, -BangTurn}}

\* The rover is at most as far from where it was seen as it can travel in the
\* periods since, and the timer runs on odometry that is not older than lag.
BangSeen ==
    /\ Bang!Abs(x - seenX) <= age * BangSpeed
    /\ ~due => age <= lag
    /\ ready => origin
    /\ wp > 0 => ready

\* A spin is a command of TURN, a drive one of DRIVE, and a node that is done
\* has stopped.
BangCommanded ==
    /\ cmd \in BangCommand
    /\ cmd.ang # 0 => state = "TURN"
    /\ cmd.lin # 0 => state = "DRIVE"
    /\ ~active \/ ~up => cmd = Bang!Still

\* Between two laps the rover stands near the last waypoint.
BangCredited ==
    loop /\ wp = Bang!N /\ wp > 0 =>
        /\ cmd = Bang!Still
        /\ Bang!Abs(goals[wp] - x) < GoalTolerance + lag * BangSpeed

BangInv == Bang!TypeOK /\ BangSeen /\ BangCommanded /\ BangCredited

LEMMA BangNormHeading ==
    ASSUME NEW v \in Int, BangHalf \in Nat \ {0}, v <= 2 * BangHalf, v >= 1 - 2 * BangHalf
    PROVE  Bang!Norm(v) \in Bang!Heading
BY  DEF Bang!Norm, Bang!Wrap, Bang!Heading

LEMMA BangTurnedHeading ==
    ASSUME Bang!BangAssumption, Bang!TypeOK, NEW d \in {-1, 0, 1}
    PROVE  Bang!Norm(h + cmd.ang + d) \in Bang!Heading
<1>1. BangHalf \in Nat \ {0} /\ BangTurn \in Nat /\ BangTurn < BangHalf
  BY  DEF Bang!BangAssumption, Bang!RoverAssumption
<1>2. h \in Int /\ 1 - BangHalf <= h /\ h <= BangHalf
  BY <1>1 DEF Bang!TypeOK, Bang!Heading
<1>3. cmd.ang \in Int /\ cmd.ang <= BangTurn /\ -BangTurn <= cmd.ang
  BY <1>1 DEF Bang!TypeOK
<1>4. h + cmd.ang + d \in Int /\ h + cmd.ang + d <= 2 * BangHalf /\ h + cmd.ang + d >= 1 - 2 * BangHalf
  BY <1>1, <1>2, <1>3
<1> QED BY <1>1, <1>4, BangNormHeading

LEMMA BangFacingType ==
    ASSUME NEW a
    PROVE  Bang!Facing(a) \in {-1, 0, 1}
BY  DEF Bang!Facing

LEMMA AnotherPeriod ==
    ASSUME NEW a \in Nat, NEW s \in Nat
    PROVE  (a + 1) * s = a * s + s /\ a * s \in Nat
OBVIOUS

\* Going by at most s moves a distance by at most s.
LEMMA BangAbsShift ==
    ASSUME NEW a \in Int, NEW b \in Int, NEW c \in Int, NEW s \in Nat,
           a - b <= s, b - a <= s
    PROVE  /\ Bang!Abs(a - c) \in Nat /\ Bang!Abs(b - c) \in Nat
           /\ Bang!Abs(b - c) <= Bang!Abs(a - c) + s
BY  DEF Bang!Abs

LEMMA BangAbsType ==
    ASSUME NEW a \in Int
    PROVE  Bang!Abs(a) \in Nat /\ Bang!Abs(-a) = Bang!Abs(a) /\ Bang!Abs(0) = 0
BY  DEF Bang!Abs

LEMMA BangPeriodKeeps ==
    ASSUME Bang!BangAssumption, BangInv, Bang!Period
    PROVE  BangInv'
<1>1. /\ ~due /\ due' = TRUE /\ age' = age + 1
      /\ x' = x + cmd.lin * Bang!Facing(h)
      /\ UNCHANGED <<lag, seenX, seenH, loop, up, active, origin, ready, goals, state, wp, cmd>>
  BY  DEF Bang!Period, Bang!Advance
<1>2. PICK d \in {-1, 0, 1} :
        /\ d # 0 => drifts > 0
        /\ h' = Bang!Norm(h + cmd.ang + d)
        /\ drifts' = drifts - Bang!Abs(d)
  BY  DEF Bang!Period, Bang!Advance
<1>3. BangSpeed \in Nat /\ BangLag \in Nat /\ BangDrifts \in Nat
  BY  DEF Bang!BangAssumption, Bang!RoverAssumption
<1>4. age <= lag /\ age \in Nat /\ lag \in 0..BangLag /\ x \in Int /\ seenX \in Int /\ drifts \in 0..BangDrifts
  BY <1>1, <1>3 DEF BangInv, BangSeen, Bang!TypeOK
<1>5. PICK f \in {-1, 0, 1} : Bang!Facing(h) = f
  BY BangFacingType
<1>6. cmd.lin \in {0, BangSpeed}
  BY  DEF BangInv, Bang!TypeOK
<1>7. x' \in Int /\ x' - x <= BangSpeed /\ x - x' <= BangSpeed /\ (cmd.lin = 0 => x' = x)
  BY <1>1, <1>3, <1>4, <1>5, <1>6
<1>8. Bang!TypeOK'
  <2>1. h' \in Bang!Heading
    BY <1>2, BangTurnedHeading DEF BangInv
  <2>2. drifts' \in 0..BangDrifts
    BY <1>2, <1>3, <1>4 DEF Bang!Abs
  <2>3. age' \in 0..(lag + 1)
    BY <1>1, <1>3, <1>4
  <2>4. UNCHANGED <<Bang!Heading, Bang!N>>
    BY  DEF Bang!Heading, Bang!N
  <2> QED BY <1>1, <1>7, <2>1, <2>2, <2>3, <2>4 DEF BangInv, Bang!TypeOK
<1>9. BangSeen'
  <2>1. /\ Bang!Abs(x' - seenX) <= Bang!Abs(x - seenX) + BangSpeed
        /\ Bang!Abs(x - seenX) \in Nat /\ Bang!Abs(x' - seenX) \in Nat
    BY <1>3, <1>4, <1>7, BangAbsShift
  <2>2. age' * BangSpeed = age * BangSpeed + BangSpeed /\ age * BangSpeed \in Nat
    BY <1>1, <1>3, <1>4, AnotherPeriod
  <2>3. Bang!Abs(x' - seenX') <= age' * BangSpeed
    BY <1>1, <1>3, <2>1, <2>2 DEF BangInv, BangSeen
  <2> QED BY <1>1, <2>3 DEF BangInv, BangSeen
<1>10. BangCommanded'
  BY <1>1 DEF BangInv, BangCommanded, BangCommand, Bang!Still
<1>11. BangCredited'
  BY <1>1, <1>7 DEF BangInv, BangCredited, Bang!Still, Bang!N, Bang!Abs
<1> QED BY <1>8, <1>9, <1>10, <1>11 DEF BangInv

LEMMA BangTriangle ==
    ASSUME NEW g \in Int, NEW a \in Int, NEW s \in Int
    PROVE  /\ Bang!Abs(g - a) \in Nat /\ Bang!Abs(g - s) \in Nat /\ Bang!Abs(a - s) \in Nat
           /\ Bang!Abs(g - a) <= Bang!Abs(g - s) + Bang!Abs(a - s)
BY  DEF Bang!Abs

LEMMA TimesMonotone ==
    ASSUME NEW a \in Nat, NEW b \in Nat, NEW s \in Nat, a <= b
    PROVE  a * s <= b * s /\ a * s \in Nat /\ b * s \in Nat
OBVIOUS

LEMMA NearEnough ==
    ASSUME NEW g \in Nat, NEW a \in Nat, NEW m \in Nat, NEW n \in Nat, NEW t \in Nat,
           NEW b \in Nat, g <= a + b, a < t, b <= m, m <= n
    PROVE  g < t + n
OBVIOUS

LEMMA BangParameters ==
    ASSUME Bang!BangAssumption
    PROVE  /\ Bang!N \in Nat /\ BangSpeed \in Nat \ {0} /\ BangTurn \in Nat \ {0}
           /\ GoalTolerance \in Nat /\ BangLag \in Nat /\ BangDrifts \in Nat
BY  DEF Bang!BangAssumption, Bang!RoverAssumption, Bang!N

\* The target of a run that navigates is a waypoint.
LEMMA BangTargetType ==
    ASSUME Bang!BangAssumption, Bang!TypeOK, Bang!Navigating
    PROVE  /\ Bang!Target \in 0..(Bang!N - 1) /\ Bang!Target \in 0..Bang!N /\ Bang!Target + 1 \in 0..Bang!N
           /\ Bang!Target + 1 \in 1..Bang!N
           /\ goals[Bang!Target + 1] \in Int
           /\ Bang!Target # Bang!N
<1>1. Bang!N \in Nat /\ Bang!N > 0 /\ wp \in 0..Bang!N /\ (wp < Bang!N \/ loop)
  BY BangParameters DEF Bang!TypeOK, Bang!Navigating, Bang!Ready
<1>2. Bang!Target \in 0..(Bang!N - 1)
  BY <1>1 DEF Bang!Target
<1>3. Bang!Target + 1 \in 1..Bang!N
  BY <1>1, <1>2
<1>4. goals \in Seq(Int) /\ Len(goals) = Bang!N
  BY  DEF Bang!TypeOK
<1>5. goals[Bang!Target + 1] \in Int
  BY <1>3, <1>4
<1> QED BY <1>1, <1>2, <1>3, <1>5

LEMMA BangOriginKeeps ==
    ASSUME Bang!BangAssumption, BangInv, Bang!WheelsOrigin
    PROVE  BangInv'
<1>1. /\ origin = FALSE /\ origin' = TRUE /\ ~ready
      /\ goals' = [i \in 1..Bang!N |-> goals[i] * Bang!Facing(h)]
      /\ UNCHANGED <<Bang!plant, loop, up, active, ready, state, wp, cmd>>
  BY  DEF Bang!WheelsOrigin, BangInv, BangSeen, Bang!TypeOK
<1>2. goals' \in Seq(Int) /\ Len(goals') = Bang!N
  <2>1. Bang!N \in Nat /\ goals \in Seq(Int) /\ Len(goals) = Bang!N
    BY BangParameters DEF BangInv, Bang!TypeOK
  <2>2. PICK f \in {-1, 0, 1} : Bang!Facing(h) = f
    BY BangFacingType
  <2>3. ASSUME NEW i \in 1..Bang!N PROVE goals[i] * Bang!Facing(h) \in Int
    BY <2>1, <2>2, <2>3
  <2>4. goals' \in [1..Bang!N -> Int]
    BY <1>1, <2>3
  <2> QED BY <2>1, <2>4
<1>3. UNCHANGED <<Bang!Heading, Bang!N>>
  BY  DEF Bang!Heading, Bang!N
<1>4. Bang!TypeOK'
  BY <1>1, <1>2, <1>3 DEF BangInv, Bang!TypeOK, Bang!plant
<1>5. BangSeen' /\ BangCommanded'
  BY <1>1 DEF BangInv, BangSeen, BangCommanded, BangCommand, Bang!Still, Bang!plant
<1>6. BangCredited'
  BY <1>1 DEF BangInv, BangSeen, BangCredited, Bang!plant
<1> QED BY <1>4, <1>5, <1>6 DEF BangInv

LEMMA BangOdomKeeps ==
    ASSUME Bang!BangAssumption, BangInv, Bang!Odom
    PROVE  BangInv'
<1>1. /\ origin /\ ready' = TRUE /\ seenX' = x /\ seenH' = h /\ age' = 0
      /\ UNCHANGED <<lag, x, h, due, drifts, loop, up, active, origin, goals, state, wp, cmd>>
  BY  DEF Bang!Odom, Bang!Report
<1>2. lag \in Nat /\ x \in Int /\ BangSpeed \in Nat
  BY BangParameters DEF BangInv, Bang!TypeOK
<1>3. UNCHANGED <<Bang!Heading, Bang!N>>
  BY  DEF Bang!Heading, Bang!N
<1>4. age' \in 0..(lag' + 1)
  BY <1>1, <1>2
<1>5. Bang!TypeOK'
  BY <1>1, <1>3, <1>4 DEF BangInv, Bang!TypeOK
<1>6. Bang!Abs(x' - seenX') <= age' * BangSpeed
  <2>1. x' - seenX' = 0 /\ age' * BangSpeed = 0
    BY <1>1, <1>2
  <2> QED BY <2>1 DEF Bang!Abs
<1>7. BangSeen'
  BY <1>1, <1>2, <1>6 DEF BangInv, BangSeen
<1>8. BangCommanded' /\ BangCredited'
  BY <1>1, <1>3 DEF BangInv, BangCommanded, BangCommand, Bang!Still, BangCredited
<1> QED BY <1>5, <1>7, <1>8 DEF BangInv

\* A waypoint that seems near, on odometry that is not older than lag, is no
\* farther than the rover may have gone meanwhile.
LEMMA BangArrivedNear ==
    ASSUME Bang!BangAssumption, BangInv, age <= lag, Bang!Navigating, Bang!Arrived
    PROVE  Bang!Abs(goals[Bang!Target + 1] - x) < GoalTolerance + lag * BangSpeed
<1>1. goals[Bang!Target + 1] \in Int /\ x \in Int /\ seenX \in Int /\ age \in Nat /\ lag \in Nat
  BY BangTargetType, BangParameters DEF BangInv, Bang!TypeOK
<1>2. /\ Bang!Abs(goals[Bang!Target + 1] - x)
             <= Bang!Abs(goals[Bang!Target + 1] - seenX) + Bang!Abs(x - seenX)
      /\ Bang!Abs(goals[Bang!Target + 1] - x) \in Nat
      /\ Bang!Abs(goals[Bang!Target + 1] - seenX) \in Nat /\ Bang!Abs(x - seenX) \in Nat
  BY <1>1, BangTriangle
<1>3. Bang!Abs(goals[Bang!Target + 1] - seenX) < GoalTolerance
  BY  DEF Bang!Arrived, Bang!ToGoal
<1>4. age * BangSpeed <= lag * BangSpeed /\ age * BangSpeed \in Nat
      /\ lag * BangSpeed \in Nat
  BY <1>1, BangParameters, TimesMonotone
<1>5. Bang!Abs(x - seenX) <= age * BangSpeed
  BY  DEF BangInv, BangSeen
<1> QED BY <1>2, <1>3, <1>4, <1>5, BangParameters, NearEnough

LEMMA BangLoopKeeps ==
    ASSUME Bang!BangAssumption, BangInv, Bang!ControlLoop
    PROVE  BangInv'
<1>1. /\ up /\ age <= lag /\ due' = FALSE
      /\ UNCHANGED <<lag, x, h, seenX, seenH, age, drifts, loop, up, origin, ready, goals>>
  BY  DEF Bang!ControlLoop, Bang!Expire
<1>2. UNCHANGED <<Bang!Heading, Bang!N>>
  BY  DEF Bang!Heading, Bang!N
<1>3. /\ wp' \in 0..Bang!N /\ state' \in {"TURN", "DRIVE"} /\ active' \in BOOLEAN
      /\ wp' > 0 => ready
      /\ BangCommanded' /\ BangCredited'
  <2>1. CASE Bang!Idle
    BY <1>1, <1>2, <2>1
    DEF Bang!Idle, BangInv, Bang!TypeOK, BangSeen, BangCommanded, BangCommand, BangCredited,
        Bang!Still
  <2>2. CASE Bang!Finish
    BY <1>1, <1>2, <2>2
    DEF Bang!Finish, Bang!Send, Bang!Ready, BangInv, Bang!TypeOK, BangSeen, BangCommanded,
        BangCommand, BangCredited, Bang!Still
  <2>3. CASE Bang!Arrive
    <3>1. /\ Bang!Navigating /\ cmd' = Bang!Still /\ wp' = Bang!Target + 1 /\ state' = "TURN"
          /\ active' = active /\ Bang!Arrived /\ ready
      BY <2>3 DEF Bang!Arrive, Bang!Send, Bang!Navigating, Bang!Ready
    <3>2. Bang!Target + 1 \in 0..Bang!N /\ Bang!Abs(goals[Bang!Target + 1] - x) < GoalTolerance + lag * BangSpeed
      BY <1>1, <3>1, BangTargetType, BangArrivedNear DEF BangInv
    <3>3. BangCredited'
      BY <1>1, <1>2, <3>1, <3>2 DEF BangCredited, Bang!Still
    <3>4. BangCommanded'
      BY <3>1 DEF BangCommanded, BangCommand, Bang!Still
    <3> QED BY <3>1, <3>2, <3>3, <3>4 DEF BangInv, Bang!TypeOK
  <2>4. CASE Bang!Aligned \/ Bang!Spin \/ Bang!Drifted \/ Bang!Drive
    <3>1. Bang!Navigating /\ wp' = Bang!Target /\ ready /\ active' = active /\ active
      BY <2>4
      DEF Bang!Aligned, Bang!Spin, Bang!Drifted, Bang!Drive, Bang!Navigating, Bang!Ready
    <3>2. Bang!Target \in 0..Bang!N /\ Bang!Target # Bang!N
      BY <3>1, BangTargetType DEF BangInv
    <3>3. state' \in {"TURN", "DRIVE"} /\ BangCommanded'
      BY <1>1, <2>4, <3>1, BangParameters
      DEF Bang!Aligned, Bang!Spin, Bang!Drifted, Bang!Drive, Bang!Send, Bang!SpinSpeed,
          BangInv, Bang!TypeOK, BangCommanded, BangCommand, Bang!Still
    <3>4. BangCredited'
      BY <1>1, <1>2, <3>1, <3>2 DEF BangCredited
    <3> QED BY <3>1, <3>2, <3>3, <3>4 DEF BangInv, Bang!TypeOK
  <2> QED BY <2>1, <2>2, <2>3, <2>4 DEF Bang!ControlLoop
<1>4. cmd'.lin \in {0, BangSpeed} /\ cmd'.ang \in {0, BangTurn, -BangTurn}
  BY <1>3 DEF BangCommanded, BangCommand, Bang!Still
<1>5. Bang!TypeOK'
  BY <1>1, <1>2, <1>3, <1>4 DEF BangInv, Bang!TypeOK
<1>6. BangSeen'
  BY <1>1, <1>3 DEF BangInv, BangSeen
<1> QED BY <1>3, <1>5, <1>6 DEF BangInv

LEMMA BangInterruptKeeps ==
    ASSUME Bang!BangAssumption, BangInv, Bang!Interrupt
    PROVE  BangInv'
<1>1. /\ up' = FALSE /\ cmd' = Bang!Still
      /\ UNCHANGED <<Bang!plant, loop, active, origin, ready, goals, state, wp>>
  BY  DEF Bang!Interrupt, Bang!Send
<1>2. UNCHANGED <<Bang!Heading, Bang!N>>
  BY  DEF Bang!Heading, Bang!N
<1>3. Bang!TypeOK'
  BY <1>1, <1>2 DEF BangInv, Bang!TypeOK, Bang!plant, Bang!Still
<1>4. BangSeen' /\ BangCommanded' /\ BangCredited'
  BY <1>1, <1>2
  DEF BangInv, BangSeen, BangCommanded, BangCommand, BangCredited, Bang!Still, Bang!plant
<1> QED BY <1>3, <1>4 DEF BangInv

LEMMA BangInits ==
    ASSUME Bang!BangAssumption, Bang!Init
    PROVE  BangInv
<1>1. /\ lag \in 0..BangLag /\ x = 0 /\ seenX = 0 /\ h \in {0, BangHalf} /\ seenH = h
      /\ age = 0 /\ due = FALSE /\ drifts = BangDrifts
      /\ loop \in BOOLEAN /\ up = TRUE /\ active = TRUE /\ origin = FALSE /\ ready = FALSE
      /\ goals = Waypoints /\ state = "TURN" /\ wp = 0 /\ cmd = Bang!Still
  BY  DEF Bang!Init, Bang!RoverInit
<1>2. h \in Bang!Heading
  BY <1>1 DEF Bang!BangAssumption, Bang!RoverAssumption, Bang!Heading
<1>3. Bang!TypeOK
  <2>1. x \in Int /\ seenX \in Int /\ age \in 0..(lag + 1) /\ drifts \in 0..BangDrifts
    BY <1>1, BangParameters
  <2>2. goals \in Seq(Int) /\ Len(goals) = Bang!N /\ wp \in 0..Bang!N
    BY <1>1, BangParameters DEF Bang!BangAssumption, Bang!N
  <2> QED BY <1>1, <1>2, <2>1, <2>2 DEF Bang!TypeOK, Bang!Still
<1>4. BangSeen
  <2>1. Bang!Abs(x - seenX) <= age * BangSpeed
    BY <1>1, BangParameters DEF Bang!Abs
  <2> QED BY <1>1, <2>1, BangParameters DEF BangSeen
<1>5. BangCommanded /\ BangCredited
  BY <1>1 DEF BangCommanded, BangCommand, BangCredited, Bang!Still
<1> QED BY <1>3, <1>4, <1>5 DEF BangInv

LEMMA BangStep ==
    ASSUME Bang!BangAssumption, BangInv, [Bang!Next]_(Bang!vars)
    PROVE  BangInv'
<1>1. CASE Bang!Next
  BY <1>1, BangOriginKeeps, BangOdomKeeps, BangPeriodKeeps, BangLoopKeeps,
     BangInterruptKeeps
  DEF Bang!Next
<1>2. CASE UNCHANGED Bang!vars
  <2>1. UNCHANGED <<Bang!Heading, Bang!N>>
    BY  DEF Bang!Heading, Bang!N
  <2> QED BY <1>2, <2>1
          DEF Bang!vars, Bang!plant, BangInv, Bang!TypeOK, BangSeen, BangCommanded,
              BangCommand, BangCredited, Bang!Still
<1> QED BY <1>1, <1>2

\* The types hold, /cmd_vel has a spin only in TURN and a drive only in DRIVE,
\* and between two laps the rover stands near the last waypoint.
THEOREM BangSafe == ASSUME Bang!BangAssumption PROVE Bang!Spec => []BangInv
BY BangInits, BangStep, PTL DEF Bang!Spec

LEMMA BangStopsStep ==
    ASSUME Bang!BangAssumption, BangInv, BangInv', [Bang!Next]_(Bang!vars)
    PROVE  Bang!StopsBetween
<1>1. BangTurn # 0 /\ BangSpeed # 0
  BY BangParameters
<1>2. CASE cmd' = cmd \/ cmd' = Bang!Still
  BY <1>2 DEF Bang!StopsBetween, BangInv, BangCommanded, BangCommand, Bang!Still
<1>3. CASE Bang!Spin
  BY <1>3 DEF Bang!Spin, Bang!Send, Bang!StopsBetween, BangInv, BangCommanded
<1>4. CASE Bang!Drive
  BY <1>4 DEF Bang!Drive, Bang!Send, Bang!StopsBetween, BangInv, BangCommanded
<1> QED BY <1>2, <1>3, <1>4
        DEF Bang!Next, Bang!WheelsOrigin, Bang!Odom, Bang!Period, Bang!ControlLoop,
            Bang!Interrupt, Bang!Idle, Bang!Finish, Bang!Arrive, Bang!Aligned, Bang!Drifted,
            Bang!Send, Bang!vars

\* bang_waypoint_follower never sends a spin right after a drive, nor a drive
\* right after a spin.
THEOREM BangStops == ASSUME Bang!BangAssumption PROVE Bang!Spec => Bang!StopBetween
<1>1. BangInv /\ BangInv' /\ [Bang!Next]_(Bang!vars) => [Bang!StopsBetween]_(Bang!vars)
  BY BangStopsStep
<1> QED BY <1>1, BangSafe, PTL DEF Bang!Spec, Bang!StopBetween

LEMMA BangCreditsStep ==
    ASSUME Bang!BangAssumption, BangInv, [Bang!Next]_(Bang!vars), wp' = Bang!Target + 1
    PROVE  Bang!Abs(goals[Bang!Target + 1] - x) < GoalTolerance + lag * BangSpeed
<1>1. Bang!N \in Nat /\ wp \in 0..Bang!N
  BY BangParameters DEF BangInv, Bang!TypeOK
<1>2. CASE Bang!ControlLoop /\ Bang!Arrive
  BY <1>2, BangArrivedNear DEF Bang!ControlLoop, Bang!Expire, Bang!Arrive
<1>3. CASE wp' = wp
  <2>1. wp = Bang!N /\ loop /\ Bang!Target = 0 /\ wp > 0
    BY <1>1, <1>3 DEF Bang!Target
  <2> QED BY <1>3, <2>1 DEF BangInv, BangCredited
<1>4. CASE wp' = Bang!Target
  BY <1>1, <1>4 DEF Bang!Target
<1> QED BY <1>2, <1>3, <1>4
        DEF Bang!Next, Bang!WheelsOrigin, Bang!Odom, Bang!Period, Bang!ControlLoop,
            Bang!Interrupt, Bang!Idle, Bang!Finish, Bang!Aligned, Bang!Spin, Bang!Drifted,
            Bang!Drive, Bang!vars

\* bang_waypoint_follower credits a waypoint only when the rover is within the
\* tolerance of it, and what the rover can travel while odometry lags.
THEOREM BangCredits == ASSUME Bang!BangAssumption PROVE Bang!Spec => Bang!CreditedNearby
<1>1. BangInv /\ [Bang!Next]_(Bang!vars) => [Bang!CreditsNearby]_(Bang!vars)
  BY BangCreditsStep DEF Bang!CreditsNearby
<1> QED BY <1>1, BangSafe, PTL DEF Bang!Spec, Bang!CreditedNearby

LEMMA BangMissionStep ==
    ASSUME Bang!BangAssumption, BangInv, BangInv', [Bang!Next]_(Bang!vars)
    PROVE  Bang!Abstract!MissionNext \/ UNCHANGED Bang!Abstract!mvars
<1>1. Bang!N \in Nat /\ wp \in 0..Bang!N /\ Bang!N' = Bang!N
  BY BangParameters DEF BangInv, Bang!TypeOK, Bang!N
<1>2. (~active \/ ~up => cmd = Bang!Still) /\ (~active' \/ ~up' => cmd' = Bang!Still)
  BY  DEF BangInv, BangCommanded
<1>3. CASE Bang!WheelsOrigin \/ Bang!Period \/ UNCHANGED Bang!vars
  BY <1>3
  DEF Bang!WheelsOrigin, Bang!Period, Bang!vars, Bang!plant, Bang!Abstract!mvars,
      Bang!Phase, Bang!Still
<1>4. CASE Bang!Odom
  BY <1>2, <1>4
  DEF Bang!Odom, Bang!Abstract!MissionNext, Bang!Abstract!Begin, Bang!Abstract!mvars,
      Bang!Phase, Bang!Still
<1>5. CASE Bang!Interrupt
  BY <1>2, <1>5
  DEF Bang!Interrupt, Bang!Send, Bang!Abstract!MissionNext, Bang!Abstract!Abort,
      Bang!Abstract!mvars, Bang!Phase, Bang!Still
<1>6. CASE Bang!ControlLoop
  <2>1. up /\ UNCHANGED <<up, loop, ready>>
    BY <1>6 DEF Bang!ControlLoop
  <2>2. CASE Bang!Idle
    BY <2>1, <2>2 DEF Bang!Idle, Bang!Abstract!mvars, Bang!Phase, Bang!Still
  <2>3. CASE Bang!Finish
    BY <2>1, <2>3
    DEF Bang!Finish, Bang!Ready, Bang!Send, Bang!Abstract!MissionNext,
        Bang!Abstract!Complete, Bang!Phase, Bang!Still
  <2>4. CASE Bang!Arrive \/ Bang!Aligned \/ Bang!Spin \/ Bang!Drifted \/ Bang!Drive
    <3>1. /\ Bang!Navigating /\ active' = active /\ wp' \in {Bang!Target, Bang!Target + 1}
          /\ wp' = Bang!Target + 1 => cmd' = Bang!Still
      BY <1>1, <2>4, BangTargetType
      DEF Bang!Arrive, Bang!Aligned, Bang!Spin, Bang!Drifted, Bang!Drive, Bang!Send, BangInv
    <3>2. Bang!Phase = "under_way" /\ Bang!Phase' = "under_way" /\ Bang!N > 0
      BY <2>1, <3>1 DEF Bang!Navigating, Bang!Ready, Bang!Phase
    <3>3. CASE wp = Bang!N /\ loop
      <4>1. wp' = 0 \/ (wp' = 1 /\ cmd' = Bang!Still)
        BY <3>1, <3>3 DEF Bang!Target
      <4>2. Bang!Abstract!Restart
        BY <2>1, <3>2, <3>3, <4>1 DEF Bang!Abstract!Restart, Bang!Still
      <4> QED BY <4>2 DEF Bang!Abstract!MissionNext
    <3>4. CASE ~(wp = Bang!N /\ loop)
      <4>1. Bang!Target = wp /\ wp < Bang!N
        BY <3>1, <3>4, <1>1 DEF Bang!Target, Bang!Navigating
      <4> QED BY <2>1, <3>1, <3>2, <4>1, <1>1
              DEF Bang!Abstract!MissionNext, Bang!Abstract!Reach, Bang!Abstract!Order,
                  Bang!Still
    <3> QED BY <3>3, <3>4
  <2> QED BY <1>6, <2>2, <2>3, <2>4 DEF Bang!ControlLoop
<1> QED BY <1>3, <1>4, <1>5, <1>6 DEF Bang!Next

\* The node is a mission: legs in order, commands only while it is under way,
\* and a stop for good once it is over.
THEOREM BangIsMission == ASSUME Bang!BangAssumption PROVE Bang!Spec => Bang!ImplementsMission
<1>1. Bang!Init => Bang!Abstract!MissionInit
  BY  DEF Bang!Init, Bang!Abstract!MissionInit, Bang!Phase, Bang!Still
<1>2. BangInv /\ BangInv' /\ [Bang!Next]_(Bang!vars) => [Bang!Abstract!MissionNext]_(Bang!Abstract!mvars)
  BY BangMissionStep
<1> QED BY <1>1, <1>2, BangSafe, PTL
        DEF Bang!Spec, Bang!ImplementsMission, Bang!Abstract!MissionSpec

(***************************************************************************)
(* simple_waypoint_follower                                                *)
(***************************************************************************)

\* A turn is a command of TURN, a drive one of DRIVE, and a node that is done
\* has stopped.
SimpleCommanded ==
    /\ cmd \in [lin : {0, SimpleSpeed}, ang : -MaxTurn..MaxTurn]
    /\ cmd.lin # 0 => state = "DRIVE"
    /\ cmd # Simple!Still /\ cmd.lin = 0 => state = "TURN"
    /\ ~active \/ ~up => cmd = Simple!Still

\* The timer runs on odometry that is not older than lag.
SimpleSeen == ~due => age <= lag

SimpleInv == Simple!TypeOK /\ SimpleCommanded /\ SimpleSeen

LEMMA SimpleParameters ==
    ASSUME Simple!SimpleAssumption
    PROVE  /\ Simple!N \in Nat /\ SimpleSpeed \in Nat \ {0} /\ SimpleKP \in Nat /\ SimpleKD \in Nat
           /\ MinTurn \in Nat \ {0} /\ MaxTurn \in Nat \ {0} /\ MinTurn <= MaxTurn
           /\ SimpleHalf \in Nat \ {0} /\ MaxTurn < SimpleHalf
           /\ SimpleLag \in Nat /\ SimpleDrifts \in Nat /\ Setbacks \in Nat
BY  DEF Simple!SimpleAssumption, Simple!RoverAssumption, Simple!N

\* One turn from a heading is a heading.
LEMMA SimpleTurnedHeading ==
    ASSUME Simple!SimpleAssumption, NEW a \in Simple!Heading, NEW t \in -MaxTurn..MaxTurn,
           NEW d \in {-1, 0, 1}
    PROVE  Simple!Norm(a + t + d) \in Simple!Heading
<1>1. SimpleHalf \in Nat \ {0} /\ MaxTurn \in Nat /\ MaxTurn < SimpleHalf
  BY SimpleParameters
<1>2. /\ a + t + d \in Int /\ a + t + d <= 2 * SimpleHalf /\ a + t + d >= 1 - 2 * SimpleHalf
  BY <1>1 DEF Simple!Heading
<1> QED BY <1>1, <1>2 DEF Simple!Norm, Simple!Wrap, Simple!Heading

LEMMA SimpleFacingType ==
    ASSUME NEW a
    PROVE  Simple!Facing(a) \in {-1, 0, 1}
BY  DEF Simple!Facing

\* Two headings differ by less than two half turns.
LEMMA SimpleWrappedType ==
    ASSUME Simple!SimpleAssumption, NEW a \in Simple!Heading, NEW b \in {0, SimpleHalf}
    PROVE  Simple!Wrap(b - a) \in -SimpleHalf..SimpleHalf
BY SimpleParameters DEF Simple!Wrap, Simple!Heading

\* The target of a run that navigates is a waypoint, and the error is that of
\* a heading.
LEMMA SimpleTargetType ==
    ASSUME Simple!SimpleAssumption, Simple!TypeOK, Simple!Navigating
    PROVE  /\ Simple!Target \in 0..(Simple!N - 1) /\ Simple!Target \in 0..Simple!N /\ Simple!Target + 1 \in 0..Simple!N /\ Simple!Target # Simple!N
           /\ Simple!HeadingError \in -SimpleHalf..SimpleHalf
<1>1. Simple!N \in Nat /\ Simple!N > 0 /\ wp \in 0..Simple!N /\ (wp < Simple!N \/ loop)
  BY SimpleParameters DEF Simple!TypeOK, Simple!Navigating, Simple!Ready
<1>2. Simple!Target \in 0..(Simple!N - 1)
  BY <1>1 DEF Simple!Target
<1>3. Simple!Bearing(Simple!ToGoal) \in {0, SimpleHalf}
  BY  DEF Simple!Bearing
<1>4. Simple!HeadingError \in -SimpleHalf..SimpleHalf
  BY <1>3, SimpleWrappedType DEF Simple!HeadingError, Simple!TypeOK
<1> QED BY <1>1, <1>2, <1>4

\* The size of a turn is limited.
LEMMA SizeLimited ==
    ASSUME NEW a \in Nat, NEW least \in Nat, NEW most \in Nat, least <= most
    PROVE  (IF a >= 1000 * most THEN most ELSE IF a <= 1000 * least THEN least ELSE a \div 1000)
               \in 0..most
OBVIOUS

LEMMA SimpleSignedSize ==
    ASSUME NEW a \in Int, NEW most \in Nat, NEW size \in 0..most
    PROVE  Simple!Sign(a) * size \in -most..most
<1>1. Simple!Sign(a) \in {-1, 0, 1}
  BY  DEF Simple!Sign
<1> QED BY <1>1

LEMMA SimpleAbsType ==
    ASSUME NEW a \in Int
    PROVE  Simple!Abs(a) \in Nat
BY  DEF Simple!Abs

\* The angular speed is within MaxTurn, whatever the gains and the errors.
LEMMA SimpleAngularLimited ==
    ASSUME Simple!SimpleAssumption, Simple!TypeOK, Simple!Navigating
    PROVE  Simple!AngularSpeed \in -MaxTurn..MaxTurn
<1> DEFINE pd == SimpleKP * Simple!HeadingError + SimpleKD * (Simple!HeadingError - seenError)
           size == IF Simple!Abs(pd) >= 1000 * MaxTurn THEN MaxTurn
                   ELSE IF Simple!Abs(pd) <= 1000 * MinTurn THEN MinTurn
                   ELSE Simple!Abs(pd) \div 1000
<1>1. pd \in Int
  <2>1. Simple!HeadingError \in Int /\ seenError \in Int /\ SimpleKP \in Int /\ SimpleKD \in Int
    BY SimpleTargetType, SimpleParameters DEF Simple!TypeOK
  <2> QED BY <2>1
<1>2. Simple!Abs(pd) \in Nat
  BY <1>1, SimpleAbsType
<1>3. size \in 0..MaxTurn
  BY <1>2, SimpleParameters, SizeLimited
<1>4. Simple!AngularSpeed = Simple!Sign(pd) * size
  BY  DEF Simple!AngularSpeed
<1> HIDE DEF pd, size
<1> QED BY <1>1, <1>3, <1>4, SimpleParameters, SimpleSignedSize

LEMMA SimpleInits ==
    ASSUME Simple!SimpleAssumption, Simple!Init
    PROVE  SimpleInv
<1>1. /\ lag \in 0..SimpleLag /\ x = 0 /\ seenX = 0 /\ h \in {0, SimpleHalf} /\ seenH = h
      /\ age = 0 /\ due = FALSE /\ drifts = SimpleDrifts
      /\ loop \in BOOLEAN /\ up = TRUE /\ active = TRUE /\ ready = FALSE
      /\ state = "TURN" /\ wp = 0 /\ seenError = 0 /\ cmd = Simple!Still /\ setbacks = Setbacks
  BY  DEF Simple!Init, Simple!RoverInit
<1>2. h \in Simple!Heading /\ seenError \in -SimpleHalf..SimpleHalf /\ 0 \in -MaxTurn..MaxTurn
  BY <1>1, SimpleParameters DEF Simple!Heading
<1>3. x \in Int /\ seenX \in Int /\ age \in 0..(lag + 1) /\ drifts \in 0..SimpleDrifts
  BY <1>1, SimpleParameters
<1>4. wp \in 0..Simple!N /\ setbacks \in 0..Setbacks
  BY <1>1, SimpleParameters
<1>5. Simple!TypeOK
  <2>1. cmd.lin \in {0, SimpleSpeed} /\ cmd.ang \in -MaxTurn..MaxTurn
    BY <1>1, <1>2 DEF Simple!Still
  <2> QED BY <1>1, <1>2, <1>3, <1>4, <2>1 DEF Simple!TypeOK
<1>6. SimpleCommanded /\ SimpleSeen
  BY <1>1, <1>2, SimpleParameters DEF SimpleCommanded, SimpleSeen, Simple!Still
<1> QED BY <1>5, <1>6 DEF SimpleInv

LEMMA SimpleOdomKeeps ==
    ASSUME Simple!SimpleAssumption, SimpleInv, Simple!Odom
    PROVE  SimpleInv'
<1>1. /\ ready' = TRUE /\ seenX' = x /\ seenH' = h /\ age' = 0
      /\ UNCHANGED <<lag, x, h, due, drifts, loop, up, active, state, wp, seenError, cmd, setbacks>>
  BY  DEF Simple!Odom, Simple!Report
<1>2. age' \in 0..(lag' + 1)
  BY <1>1, SimpleParameters DEF SimpleInv, Simple!TypeOK
<1>3. UNCHANGED <<Simple!Heading, Simple!N>>
  BY  DEF Simple!Heading, Simple!N
<1> QED BY <1>1, <1>2, <1>3, SimpleParameters
        DEF SimpleInv, Simple!TypeOK, SimpleCommanded, SimpleSeen, Simple!Still

LEMMA SimplePeriodKeeps ==
    ASSUME Simple!SimpleAssumption, SimpleInv, Simple!Period
    PROVE  SimpleInv'
<1>1. /\ due' = TRUE /\ age' = age + 1
      /\ x' = x + cmd.lin * Simple!Facing(h)
      /\ UNCHANGED <<lag, seenX, seenH, loop, up, active, ready, state, wp, seenError, cmd, setbacks>>
  BY  DEF Simple!Period, Simple!Advance
<1>2. PICK d \in {-1, 0, 1} :
        /\ d # 0 => drifts > 0
        /\ h' = Simple!Norm(h + cmd.ang + d)
        /\ drifts' = drifts - Simple!Abs(d)
  BY  DEF Simple!Period, Simple!Advance
<1>3. drifts' \in 0..SimpleDrifts
  BY <1>2, SimpleParameters DEF SimpleInv, Simple!TypeOK, Simple!Abs
<1>4. PICK f \in {-1, 0, 1} : Simple!Facing(h) = f
  BY SimpleFacingType
<1>5. x' \in Int
  BY <1>1, <1>4, SimpleParameters DEF SimpleInv, Simple!TypeOK
<1>6. h' \in Simple!Heading
  BY <1>2, SimpleTurnedHeading DEF SimpleInv, Simple!TypeOK
<1>7. age' \in 0..(lag + 1)
  <2>1. ~due
    BY  DEF Simple!Period, Simple!Advance
  <2> QED BY <1>1, <2>1, SimpleParameters DEF SimpleInv, Simple!TypeOK, SimpleSeen
<1>8. UNCHANGED <<Simple!Heading, Simple!N>>
  BY  DEF Simple!Heading, Simple!N
<1> QED BY <1>1, <1>3, <1>5, <1>6, <1>7, <1>8
        DEF SimpleInv, Simple!TypeOK, SimpleCommanded, SimpleSeen, Simple!Still

LEMMA SimpleLoopKeeps ==
    ASSUME Simple!SimpleAssumption, SimpleInv, Simple!ControlLoop
    PROVE  SimpleInv'
<1>1. /\ up /\ age <= lag /\ due' = FALSE
      /\ UNCHANGED <<lag, x, h, seenX, seenH, age, drifts, loop, up, ready>>
  BY  DEF Simple!ControlLoop, Simple!Expire
<1>2. UNCHANGED <<Simple!Heading, Simple!N>>
  BY  DEF Simple!Heading, Simple!N
<1>3. /\ wp' \in 0..Simple!N /\ state' \in {"TURN", "DRIVE"} /\ active' \in BOOLEAN
      /\ seenError' \in -SimpleHalf..SimpleHalf /\ setbacks' \in 0..Setbacks
      /\ SimpleCommanded'
  <2>1. 0 \in -SimpleHalf..SimpleHalf /\ 0 \in -MaxTurn..MaxTurn
    BY SimpleParameters
  <2>2. CASE Simple!ClockBack
    <3>1. /\ Simple!Navigating /\ setbacks > 0 /\ setbacks' = setbacks - 1 /\ wp' = Simple!Target
          /\ UNCHANGED <<active, state, seenError, cmd>>
      BY <2>2 DEF Simple!ClockBack
    <3>2. wp' \in 0..Simple!N /\ setbacks' \in 0..Setbacks
      BY <3>1, SimpleTargetType, SimpleParameters DEF SimpleInv, Simple!TypeOK
    <3> QED BY <1>1, <3>1, <3>2 DEF SimpleInv, Simple!TypeOK, SimpleCommanded, Simple!Still
  <2>3. CASE (Simple!Idle \/ Simple!Finish) /\ setbacks' = setbacks
    <3>1. /\ UNCHANGED <<state, wp, seenError, setbacks>> /\ active' \in BOOLEAN
          /\ \/ active' = active /\ cmd' = cmd
             \/ cmd' = Simple!Still
      BY <2>3 DEF Simple!Idle, Simple!Finish, Simple!Send, SimpleInv, Simple!TypeOK
    <3>2. SimpleCommanded'
      BY <1>1, <2>1, <3>1, SimpleParameters DEF SimpleInv, SimpleCommanded, Simple!Still
    <3> QED BY <3>1, <3>2 DEF SimpleInv, Simple!TypeOK
  <2>4. CASE (Simple!Align \/ Simple!Turn \/ Simple!Arrive \/ Simple!Drive) /\ setbacks' = setbacks
    <3>1. Simple!Navigating /\ active' = active /\ active /\ wp' \in {Simple!Target, Simple!Target + 1}
      BY <2>4
      DEF Simple!Align, Simple!Turn, Simple!Arrive, Simple!Drive, Simple!Navigating,
          Simple!Ready
    <3>2. /\ wp' \in 0..Simple!N /\ Simple!HeadingError \in -SimpleHalf..SimpleHalf /\ Simple!AngularSpeed \in -MaxTurn..MaxTurn
      BY <3>1, SimpleTargetType, SimpleAngularLimited DEF SimpleInv
    <3>3. CASE Simple!Align \/ Simple!Arrive
      BY <1>1, <2>1, <2>4, <3>1, <3>2, <3>3
      DEF Simple!Align, Simple!Arrive, Simple!Send, SimpleInv, Simple!TypeOK,
          SimpleCommanded, Simple!Still
    <3>4. CASE Simple!Turn
      BY <1>1, <2>1, <2>4, <3>1, <3>2, <3>4
      DEF Simple!Turn, Simple!Send, SimpleInv, Simple!TypeOK, SimpleCommanded, Simple!Still
    <3>5. CASE Simple!Drive
      BY <1>1, <2>1, <2>4, <3>1, <3>2, <3>5, SimpleParameters
      DEF Simple!Drive, Simple!Send, SimpleInv, Simple!TypeOK, SimpleCommanded, Simple!Still
    <3> QED BY <2>4, <3>3, <3>4, <3>5
  <2> QED BY <2>2, <2>3, <2>4 DEF Simple!ControlLoop
<1>4. cmd'.lin \in {0, SimpleSpeed} /\ cmd'.ang \in -MaxTurn..MaxTurn
  BY <1>3 DEF SimpleCommanded
<1> QED BY <1>1, <1>2, <1>3, <1>4 DEF SimpleInv, Simple!TypeOK, SimpleSeen

LEMMA SimpleInterruptKeeps ==
    ASSUME Simple!SimpleAssumption, SimpleInv, Simple!Interrupt
    PROVE  SimpleInv'
<1>1. UNCHANGED <<Simple!Heading, Simple!N>>
  BY  DEF Simple!Heading, Simple!N
<1>2. 0 \in -MaxTurn..MaxTurn
  BY SimpleParameters
<1> QED BY <1>1, <1>2
        DEF Simple!Interrupt, Simple!Send, SimpleInv, Simple!TypeOK, SimpleCommanded,
            SimpleSeen, Simple!Still, Simple!plant

LEMMA SimpleStep ==
    ASSUME Simple!SimpleAssumption, SimpleInv, [Simple!Next]_(Simple!vars)
    PROVE  SimpleInv'
<1>1. CASE Simple!Next
  BY <1>1, SimpleOdomKeeps, SimplePeriodKeeps, SimpleLoopKeeps, SimpleInterruptKeeps
  DEF Simple!Next
<1>2. CASE UNCHANGED Simple!vars
  <2>1. UNCHANGED <<Simple!Heading, Simple!N>>
    BY  DEF Simple!Heading, Simple!N
  <2> QED BY <1>2, <2>1
          DEF Simple!vars, Simple!plant, SimpleInv, Simple!TypeOK, SimpleCommanded,
              SimpleSeen, Simple!Still
<1> QED BY <1>1, <1>2

\* The types hold: no angular speed beyond MaxTurn is ever commanded, whatever
\* the PD gains and however the clock is set back; and /cmd_vel has a turn in
\* place only in TURN and a drive only in DRIVE.
THEOREM SimpleSafe == ASSUME Simple!SimpleAssumption PROVE Simple!Spec => []SimpleInv
BY SimpleInits, SimpleStep, PTL DEF Simple!Spec

LEMMA SimpleStopsStep ==
    ASSUME Simple!SimpleAssumption, SimpleInv, SimpleInv', [Simple!Next]_(Simple!vars)
    PROVE  Simple!StopsBetween
<1>1. CASE cmd' = cmd \/ cmd' = Simple!Still
  BY <1>1 DEF Simple!StopsBetween, SimpleInv, SimpleCommanded, Simple!Still
<1>2. CASE Simple!Turn
  BY <1>2 DEF Simple!Turn, Simple!Send, Simple!StopsBetween, SimpleInv, SimpleCommanded
<1>3. CASE Simple!Drive
  BY <1>3, SimpleParameters
  DEF Simple!Drive, Simple!Send, Simple!StopsBetween, SimpleInv, SimpleCommanded
<1> QED BY <1>1, <1>2, <1>3
        DEF Simple!Next, Simple!Odom, Simple!Period, Simple!ControlLoop, Simple!Interrupt,
            Simple!ClockBack, Simple!Idle, Simple!Finish, Simple!Align, Simple!Arrive,
            Simple!Send, Simple!vars

\* simple_waypoint_follower goes from a turn in place to a drive, and from a
\* drive to anything but a drive, only through a stop.
THEOREM SimpleStops == ASSUME Simple!SimpleAssumption PROVE Simple!Spec => Simple!StopBetween
<1>1. SimpleInv /\ SimpleInv' /\ [Simple!Next]_(Simple!vars) => [Simple!StopsBetween]_(Simple!vars)
  BY SimpleStopsStep
<1> QED BY <1>1, SimpleSafe, PTL DEF Simple!Spec, Simple!StopBetween

LEMMA SimpleMissionStep ==
    ASSUME Simple!SimpleAssumption, SimpleInv, SimpleInv', [Simple!Next]_(Simple!vars)
    PROVE  Simple!Abstract!MissionNext \/ UNCHANGED Simple!Abstract!mvars
<1>1. Simple!N \in Nat /\ wp \in 0..Simple!N /\ Simple!N' = Simple!N
  BY SimpleParameters DEF SimpleInv, Simple!TypeOK, Simple!N
<1>2. (~active \/ ~up => cmd = Simple!Still) /\ (~active' \/ ~up' => cmd' = Simple!Still)
  BY  DEF SimpleInv, SimpleCommanded
<1>3. CASE Simple!Period \/ UNCHANGED Simple!vars
  BY <1>3
  DEF Simple!Period, Simple!vars, Simple!plant, Simple!Abstract!mvars, Simple!Phase,
      Simple!Still
<1>4. CASE Simple!Odom
  BY <1>2, <1>4
  DEF Simple!Odom, Simple!Abstract!MissionNext, Simple!Abstract!Begin,
      Simple!Abstract!mvars, Simple!Phase, Simple!Still
<1>5. CASE Simple!Interrupt
  BY <1>2, <1>5
  DEF Simple!Interrupt, Simple!Send, Simple!Abstract!MissionNext, Simple!Abstract!Abort,
      Simple!Abstract!mvars, Simple!Phase, Simple!Still
<1>6. CASE Simple!ControlLoop
  <2>1. up /\ UNCHANGED <<up, loop, ready>>
    BY <1>6 DEF Simple!ControlLoop
  <2>2. CASE Simple!Idle
    BY <2>1, <2>2 DEF Simple!Idle, Simple!Abstract!mvars, Simple!Phase, Simple!Still
  <2>3. CASE Simple!Finish
    BY <2>1, <2>3
    DEF Simple!Finish, Simple!Ready, Simple!Send, Simple!Abstract!MissionNext,
        Simple!Abstract!Complete, Simple!Phase, Simple!Still
  <2>4. CASE Simple!ClockBack \/ Simple!Align \/ Simple!Turn \/ Simple!Arrive \/ Simple!Drive
    <3>1. /\ Simple!Navigating /\ active' = active /\ wp' \in {Simple!Target, Simple!Target + 1}
          /\ wp' = Simple!Target + 1 => cmd' = Simple!Still
      BY <1>1, <2>4, SimpleTargetType
      DEF Simple!ClockBack, Simple!Align, Simple!Turn, Simple!Arrive, Simple!Drive,
          Simple!Send, SimpleInv
    <3>2. Simple!Phase = "under_way" /\ Simple!Phase' = "under_way" /\ Simple!N > 0
      BY <2>1, <3>1 DEF Simple!Navigating, Simple!Ready, Simple!Phase
    <3>3. CASE wp = Simple!N /\ loop
      <4>1. wp' = 0 \/ (wp' = 1 /\ cmd' = Simple!Still)
        BY <3>1, <3>3 DEF Simple!Target
      <4>2. Simple!Abstract!Restart
        BY <2>1, <3>2, <3>3, <4>1 DEF Simple!Abstract!Restart, Simple!Still
      <4> QED BY <4>2 DEF Simple!Abstract!MissionNext
    <3>4. CASE ~(wp = Simple!N /\ loop)
      <4>1. Simple!Target = wp /\ wp < Simple!N
        BY <3>1, <3>4, <1>1 DEF Simple!Target, Simple!Navigating
      <4> QED BY <2>1, <3>1, <3>2, <4>1, <1>1
              DEF Simple!Abstract!MissionNext, Simple!Abstract!Reach, Simple!Abstract!Order,
                  Simple!Still
    <3> QED BY <3>3, <3>4
  <2> QED BY <1>6, <2>2, <2>3, <2>4 DEF Simple!ControlLoop
<1> QED BY <1>3, <1>4, <1>5, <1>6 DEF Simple!Next

\* The node is a mission: legs in order, commands only while it is under way,
\* and a stop for good once it is over.
THEOREM SimpleIsMission == ASSUME Simple!SimpleAssumption PROVE Simple!Spec => Simple!ImplementsMission
<1>1. Simple!Init => Simple!Abstract!MissionInit
  BY  DEF Simple!Init, Simple!Abstract!MissionInit, Simple!Phase, Simple!Still
<1>2. SimpleInv /\ SimpleInv' /\ [Simple!Next]_(Simple!vars) => [Simple!Abstract!MissionNext]_(Simple!Abstract!mvars)
  BY SimpleMissionStep
<1> QED BY <1>1, <1>2, SimpleSafe, PTL
        DEF Simple!Spec, Simple!ImplementsMission, Simple!Abstract!MissionSpec

(***************************************************************************)
(* move_5_feet                                                             *)
(***************************************************************************)

\* The rover has turned by no more than the disturbances that came, from ahead
\* (s = 1) or from astern (s = -1).
MoveFaces(s) ==
    IF s = 1 THEN Move!Abs(h) <= MotionDrifts - drifts
    ELSE Move!Abs(h) >= MotionHalf - (MotionDrifts - drifts)

\* It is at least as far along the line as odometry says, by at most what it
\* travels in the periods since; and it is never farther beyond the target than
\* what it travels while odometry lags, and one period more before the timer
\* that stops it.
MoveGone(s) ==
    /\ 0 <= s * seenX /\ s * seenX <= s * x
    /\ s * x <= s * seenX + age * MoveSpeed
    /\ ~started => x = 0
    /\ isMoving => s * x < TargetDistance + lag * MoveSpeed + (IF due THEN MoveSpeed ELSE 0)
    /\ ~isMoving => /\ TargetDistance <= s * x
                    /\ s * x < TargetDistance + lag * MoveSpeed + MoveSpeed

MoveLine ==
    /\ \E s \in {1, -1} : MoveFaces(s) /\ MoveGone(s)
    /\ ~due => age <= lag
    /\ ~started \/ ~isMoving => cmd = Move!Still

MoveInv == Move!TypeOK /\ MoveLine

LEMMA MoveParameters ==
    ASSUME Move!MoveAssumption
    PROVE  /\ TargetDistance \in Nat \ {0} /\ MoveSpeed \in Nat \ {0}
           /\ MotionHalf \in Nat \ {0} /\ MotionCone \in Nat /\ 2 * MotionCone < MotionHalf
           /\ MotionLag \in Nat /\ MotionDrifts \in Nat /\ MotionDrifts <= MotionCone
BY  DEF Move!MoveAssumption, Move!RoverAssumption

LEMMA MoveInits ==
    ASSUME Move!MoveAssumption, Move!Init
    PROVE  MoveInv
<1>1. /\ lag \in 0..MotionLag /\ x = 0 /\ seenX = 0 /\ h \in {0, MotionHalf} /\ seenH = h
      /\ age = 0 /\ due = FALSE /\ drifts = MotionDrifts
      /\ up = TRUE /\ started = FALSE /\ isMoving = TRUE /\ cmd = Move!Still
  BY  DEF Move!Init, Move!RoverInit
<1>2. Move!TypeOK
  <2>1. h \in Move!Heading
    BY <1>1, MoveParameters DEF Move!Heading
  <2>2. x \in Int /\ seenX \in Int /\ age \in 0..(lag + 1) /\ drifts \in 0..MotionDrifts
    BY <1>1, MoveParameters
  <2> QED BY <1>1, <2>1, <2>2 DEF Move!TypeOK, Move!Still
<1>3. lag * MoveSpeed \in Nat
  BY <1>1, MoveParameters, TimesMonotone
<1>4. ASSUME NEW s \in {1, -1} PROVE MoveGone(s)
  <2>1. s * x = 0 /\ s * seenX = 0 /\ age * MoveSpeed = 0
    BY <1>1, MoveParameters
  <2> QED BY <1>1, <1>3, <2>1, MoveParameters DEF MoveGone
<1>5. MoveFaces(1) \/ MoveFaces(-1)
  BY <1>1, MoveParameters DEF MoveFaces, Move!Abs
<1>6. MoveLine
  BY <1>1, <1>4, <1>5, MoveParameters DEF MoveLine
<1> QED BY <1>2, <1>6 DEF MoveInv

\* The disturbances leave the rover on its line.
LEMMA MoveFacing ==
    ASSUME Move!MoveAssumption, Move!TypeOK, NEW s \in {1, -1}, MoveFaces(s)
    PROVE  Move!Facing(h) = s
<1>1. h \in Int /\ drifts \in 0..MotionDrifts
  BY MoveParameters DEF Move!TypeOK, Move!Heading
<1> QED BY <1>1, MoveParameters DEF MoveFaces, Move!Facing, Move!Abs

LEMMA MoveDisturbed ==
    ASSUME Move!MoveAssumption, NEW a \in Move!Heading, NEW k \in Nat, NEW d \in {-1, 0, 1},
           k + Move!Abs(d) <= MotionDrifts
    PROVE  /\ Move!Norm(a + d) \in Move!Heading
           /\ Move!Abs(a) <= k => Move!Abs(Move!Norm(a + d)) <= k + Move!Abs(d)
           /\ Move!Abs(a) >= MotionHalf - k
                => Move!Abs(Move!Norm(a + d)) >= MotionHalf - (k + Move!Abs(d))
<1>1. a \in Int /\ 1 - MotionHalf <= a /\ a <= MotionHalf
  BY MoveParameters DEF Move!Heading
<1>2. MotionHalf \in Nat \ {0} /\ MotionDrifts \in Nat /\ 2 * MotionDrifts < MotionHalf
  BY MoveParameters
<1>3. Move!Norm(a + d) = IF a + d > MotionHalf THEN a + d - 2 * MotionHalf
                         ELSE IF a + d = -MotionHalf THEN MotionHalf ELSE a + d
  BY <1>1, <1>2 DEF Move!Norm, Move!Wrap
<1>4. Move!Norm(a + d) \in Move!Heading
  BY <1>1, <1>2, <1>3 DEF Move!Heading
<1>5. Move!Abs(d) = IF d = 0 THEN 0 ELSE 1
  BY  DEF Move!Abs
<1>6. ASSUME Move!Abs(a) <= k PROVE Move!Abs(Move!Norm(a + d)) <= k + Move!Abs(d)
  BY <1>1, <1>2, <1>3, <1>5, <1>6 DEF Move!Abs
<1>7. ASSUME Move!Abs(a) >= MotionHalf - k
      PROVE  Move!Abs(Move!Norm(a + d)) >= MotionHalf - (k + Move!Abs(d))
  BY <1>1, <1>2, <1>3, <1>5, <1>7 DEF Move!Abs
<1> QED BY <1>4, <1>6, <1>7

LEMMA MovePeriodKeeps ==
    ASSUME Move!MoveAssumption, MoveInv, Move!Period
    PROVE  MoveInv'
<1>1. /\ ~due /\ due' = TRUE /\ age' = age + 1
      /\ x' = x + cmd.lin * Move!Facing(h)
      /\ UNCHANGED <<lag, seenX, seenH, up, started, isMoving, cmd>>
  BY  DEF Move!Period, Move!Advance
<1>2. PICK d \in {-1, 0, 1} :
        /\ d # 0 => drifts > 0
        /\ h' = Move!Norm(h + cmd.ang + d)
        /\ drifts' = drifts - Move!Abs(d)
  BY  DEF Move!Period, Move!Advance
<1>3. PICK s \in {1, -1} : MoveFaces(s) /\ MoveGone(s)
  BY  DEF MoveInv, MoveLine
<1>4. /\ x \in Int /\ seenX \in Int /\ age \in Nat /\ age <= lag /\ lag \in 0..MotionLag
      /\ drifts \in 0..MotionDrifts /\ h \in Move!Heading /\ h \in Int
      /\ cmd.lin \in {0, MoveSpeed} /\ cmd.ang = 0
  BY <1>1, MoveParameters DEF MoveInv, MoveLine, Move!TypeOK, Move!Heading
<1>5. Move!Abs(d) = (IF d = 0 THEN 0 ELSE 1) /\ drifts' \in 0..MotionDrifts
  BY <1>2, <1>4, MoveParameters DEF Move!Abs
<1>6. h' \in Move!Heading /\ MoveFaces(s)'
  <2> DEFINE k == MotionDrifts - drifts
  <2>1. k \in Nat /\ k + Move!Abs(d) <= MotionDrifts /\ k + Move!Abs(d) = MotionDrifts - drifts'
    BY <1>2, <1>4, <1>5, MoveParameters
  <2>2. h + cmd.ang + d = h + d
    BY <1>4
  <2>3. /\ Move!Norm(h + d) \in Move!Heading
        /\ Move!Abs(h) <= k => Move!Abs(Move!Norm(h + d)) <= k + Move!Abs(d)
        /\ Move!Abs(h) >= MotionHalf - k
             => Move!Abs(Move!Norm(h + d)) >= MotionHalf - (k + Move!Abs(d))
    BY <1>4, <2>1, MoveDisturbed
  <2>4. h' = Move!Norm(h + d)
    BY <1>2, <2>2
  <2>5. Move!Abs(h)' = Move!Abs(Move!Norm(h + d))
    BY <2>4 DEF Move!Abs
  <2> QED BY <1>3, <2>1, <2>3, <2>4, <2>5 DEF MoveFaces
<1>7. x' \in Int /\ s * x' = s * x + cmd.lin /\ (cmd.lin = 0 => x' = x)
  <2>1. Move!Facing(h) = s
    BY <1>3, MoveFacing DEF MoveInv
  <2> QED BY <1>1, <1>4, <2>1, MoveParameters
<1>8. MoveGone(s)'
  <2>1. age' * MoveSpeed = age * MoveSpeed + MoveSpeed /\ age * MoveSpeed \in Nat
        /\ lag * MoveSpeed \in Nat
    BY <1>1, <1>4, MoveParameters, AnotherPeriod, TimesMonotone
  <2>2. ~started \/ ~isMoving => cmd.lin = 0
    BY  DEF MoveInv, MoveLine, Move!Still
  <2>3. s * x \in Int /\ s * seenX \in Int
    BY <1>4
  <2>4. /\ 0 <= s * seenX' /\ s * seenX' <= s * x'
        /\ s * x' <= s * seenX' + age' * MoveSpeed
    BY <1>1, <1>3, <1>4, <1>7, <2>1, <2>3, MoveParameters DEF MoveGone
  <2>5. ~started' => x' = 0
    BY <1>1, <1>3, <1>7, <2>2 DEF MoveGone
  <2>6. isMoving' => s * x' < TargetDistance + lag' * MoveSpeed + MoveSpeed
    BY <1>1, <1>3, <1>4, <1>7, <2>1, <2>3, MoveParameters DEF MoveGone
  <2>7. ~isMoving' => s * x' = s * x
    BY <1>1, <1>4, <1>7, <2>2
  <2> QED BY <1>1, <1>3, <2>4, <2>5, <2>6, <2>7 DEF MoveGone
<1>9. Move!TypeOK'
  <2>1. age' \in 0..(lag' + 1) /\ Move!Heading' = Move!Heading
    BY <1>1, <1>4, MoveParameters DEF Move!Heading
  <2> QED BY <1>1, <1>5, <1>6, <1>7, <2>1 DEF MoveInv, Move!TypeOK
<1>10. MoveLine'
  BY <1>1, <1>6, <1>8 DEF MoveInv, MoveLine, Move!Still
<1> QED BY <1>9, <1>10 DEF MoveInv

LEMMA MoveOdomKeeps ==
    ASSUME Move!MoveAssumption, MoveInv, Move!Odom
    PROVE  MoveInv'
<1>1. /\ started' = TRUE /\ seenX' = x /\ seenH' = h /\ age' = 0
      /\ UNCHANGED <<lag, x, h, due, drifts, up, isMoving, cmd>>
  BY  DEF Move!Odom, Move!Report
<1>2. PICK s \in {1, -1} : MoveFaces(s) /\ MoveGone(s)
  BY  DEF MoveInv, MoveLine
<1>3. x \in Int /\ seenX \in Int /\ lag \in Nat /\ s * x \in Int /\ s * seenX \in Int
  BY MoveParameters DEF MoveInv, Move!TypeOK
<1>4. age' * MoveSpeed = 0 /\ age' \in 0..(lag' + 1)
  BY <1>1, <1>3, MoveParameters
<1>5. MoveFaces(s)'
  BY <1>1, <1>2 DEF MoveFaces, Move!Abs
<1>6. MoveGone(s)'
  BY <1>1, <1>2, <1>3, <1>4 DEF MoveGone
<1>7. MoveLine'
  BY <1>1, <1>3, <1>5, <1>6 DEF MoveInv, MoveLine, Move!Still
<1>8. Move!Heading' = Move!Heading
  BY  DEF Move!Heading
<1> QED BY <1>1, <1>4, <1>7, <1>8 DEF MoveInv, Move!TypeOK

LEMMA MoveRobotKeeps ==
    ASSUME Move!MoveAssumption, MoveInv, Move!MoveRobot
    PROVE  MoveInv'
<1>1. /\ due /\ due' = FALSE /\ age <= lag
      /\ UNCHANGED <<lag, x, h, seenX, seenH, age, drifts, up, started>>
  BY  DEF Move!MoveRobot, Move!Expire
<1>2. PICK s \in {1, -1} : MoveFaces(s) /\ MoveGone(s)
  BY  DEF MoveInv, MoveLine
<1>3. /\ x \in Int /\ seenX \in Int /\ lag \in Nat /\ age \in Nat
      /\ s * x \in Int /\ s * seenX \in Int
  BY MoveParameters DEF MoveInv, Move!TypeOK
<1>4. /\ age * MoveSpeed <= lag * MoveSpeed /\ age * MoveSpeed \in Nat /\ lag * MoveSpeed \in Nat
  BY <1>1, <1>3, MoveParameters, TimesMonotone
<1>5. Move!DistanceMoved = s * seenX
  BY <1>2, <1>3 DEF Move!DistanceMoved, Move!Abs, MoveGone
<1>6. MoveFaces(s)'
  BY <1>1, <1>2 DEF MoveFaces, Move!Abs
<1>7. MoveGone(s)' /\ isMoving' \in BOOLEAN /\ (cmd' = cmd \/ cmd' = Move!Still \/ cmd' = Move!Forward)
      /\ (~started \/ ~isMoving' => cmd' = Move!Still)
  <2>1. CASE (~started \/ ~isMoving) /\ UNCHANGED <<isMoving, cmd>>
    <3>1. ~started => s * x = 0
      BY <1>2, <1>3 DEF MoveGone
    <3> QED BY <1>1, <1>2, <1>3, <1>4, <2>1, <3>1, MoveParameters
            DEF MoveGone, MoveInv, MoveLine, Move!TypeOK
  <2>2. CASE started /\ isMoving /\ ~Move!Reached /\ cmd' = Move!Forward /\ UNCHANGED isMoving
    <3>1. s * seenX < TargetDistance
      BY <1>3, <1>5, <2>2, MoveParameters DEF Move!Reached
    <3>2. s * x < TargetDistance + lag * MoveSpeed
      BY <1>2, <1>3, <1>4, <3>1, MoveParameters DEF MoveGone
    <3> QED BY <1>1, <1>2, <1>3, <1>4, <2>2, <3>2, MoveParameters DEF MoveGone
  <2>3. CASE started /\ isMoving /\ Move!Reached /\ cmd' = Move!Still /\ isMoving' = FALSE
    <3>1. TargetDistance <= s * seenX
      BY <1>5, <2>3 DEF Move!Reached
    <3>2. TargetDistance <= s * x
      BY <1>2, <1>3, <3>1, MoveParameters DEF MoveGone
    <3> QED BY <1>1, <1>2, <2>3, <3>2 DEF MoveGone
  <2> QED BY <2>1, <2>2, <2>3 DEF Move!MoveRobot
<1>8. Move!Heading' = Move!Heading
  BY  DEF Move!Heading
<1>9. Move!TypeOK'
  <2>1. cmd'.lin \in {0, MoveSpeed} /\ cmd'.ang = 0
    BY <1>7 DEF MoveInv, Move!TypeOK, Move!Still, Move!Forward
  <2>2. UNCHANGED <<Move!Heading, lag, age>> /\ due' \in BOOLEAN /\ isMoving' \in BOOLEAN
    BY <1>1, <1>7, <1>8
  <2> QED BY <1>1, <2>1, <2>2 DEF MoveInv, Move!TypeOK
<1>10. MoveLine'
  BY <1>1, <1>6, <1>7 DEF MoveLine, Move!Still
<1> QED BY <1>9, <1>10 DEF MoveInv

LEMMA MoveStep ==
    ASSUME Move!MoveAssumption, MoveInv, [Move!Next]_(Move!vars)
    PROVE  MoveInv'
<1>1. CASE Move!Interrupt \/ UNCHANGED Move!vars
  <2>1. /\ UNCHANGED <<lag, x, h, seenX, seenH, age, due, drifts, started, isMoving, cmd>>
        /\ up' \in BOOLEAN
    BY <1>1 DEF Move!Interrupt, Move!vars, Move!plant, MoveInv, Move!TypeOK
  <2>2. Move!Heading' = Move!Heading
    BY  DEF Move!Heading
  <2>3. Move!TypeOK'
    BY <2>1, <2>2 DEF MoveInv, Move!TypeOK
  <2>4. \A s \in {1, -1} : MoveFaces(s) /\ MoveGone(s) => MoveFaces(s)' /\ MoveGone(s)'
    BY <2>1 DEF MoveFaces, MoveGone, Move!Abs
  <2> QED BY <2>1, <2>3, <2>4 DEF MoveInv, MoveLine, Move!Still
<1> QED BY <1>1, MovePeriodKeeps, MoveOdomKeeps, MoveRobotKeeps DEF Move!Next

LEMMA MoveStopsOnTarget ==
    ASSUME Move!MoveAssumption, MoveInv
    PROVE  Move!StopsOnTarget
<1>1. PICK s \in {1, -1} : MoveGone(s)
  BY  DEF MoveInv, MoveLine
<1>2. x \in Int /\ lag \in Nat /\ seenX \in Int
  BY MoveParameters DEF MoveInv, Move!TypeOK
<1>3. (lag + 1) * MoveSpeed = lag * MoveSpeed + MoveSpeed /\ lag * MoveSpeed \in Nat
  BY <1>2, MoveParameters, AnotherPeriod
<1>4. Move!Abs(x) = s * x
  BY <1>1, <1>2 DEF MoveGone, Move!Abs
<1> QED BY <1>1, <1>2, <1>3, <1>4, MoveParameters DEF MoveGone, Move!StopsOnTarget

\* move_5_feet stops only when the rover has truly gone its distance, and has
\* overshot it by less than what it travels while odometry lags and the timer
\* waits.
THEOREM MoveIsMeasured == ASSUME Move!MoveAssumption PROVE Move!Spec => []Move!StopsOnTarget
<1>1. Move!Spec => []MoveInv
  BY MoveInits, MoveStep, PTL DEF Move!Spec
<1> QED BY <1>1, MoveStopsOnTarget, PTL

(***************************************************************************)
(* spin_360                                                                *)
(***************************************************************************)

\* The yaw is the last one read, turned by what the rover turned since and is
\* not yet counted, up to a revolution; and a total that has not reached the
\* target has not, unless nothing was ever turned.
SpinUncounted == turned - accumulated

SpinCounted ==
    /\ last = Spin!None => turned = 0 /\ accumulated = 0 /\ cmd.ang = 0
    /\ last # Spin!None =>
          /\ h - last - SpinUncounted \in {0, 2 * MotionHalf, -2 * MotionHalf}
          /\ Spin!Abs(SpinUncounted) <= age * SpinRate
    /\ up /\ last # Spin!None =>
          \/ Spin!Abs(accumulated) < Spin!Abs(SpinTarget)
          \/ turned = 0 /\ accumulated = 0 /\ cmd.ang = 0
    /\ ~due => age <= lag

SpinInv == Spin!TypeOK /\ SpinCounted

LEMMA SpinParameters ==
    ASSUME Spin!SpinAssumption
    PROVE  /\ SpinTarget \in Int /\ SpinRate \in Nat \ {0}
           /\ MotionHalf \in Nat \ {0} /\ MotionLag \in Nat /\ MotionDrifts \in Nat
           /\ (MotionLag + 1) * SpinRate < MotionHalf
BY  DEF Spin!SpinAssumption, Spin!RoverAssumption

\* Between two messages the rover turns by less than half a turn.
LEMMA SpinUncountedSmall ==
    ASSUME Spin!SpinAssumption, SpinInv, last # Spin!None
    PROVE  /\ SpinUncounted \in Int /\ Spin!Abs(SpinUncounted) \in Nat
           /\ Spin!Abs(SpinUncounted) <= age * SpinRate
           /\ age * SpinRate <= (lag + 1) * SpinRate
           /\ (lag + 1) * SpinRate <= (MotionLag + 1) * SpinRate
           /\ Spin!Abs(SpinUncounted) < MotionHalf
           /\ age * SpinRate \in Nat /\ (lag + 1) * SpinRate \in Nat
<1>1. /\ turned \in Int /\ accumulated \in Int /\ lag \in Nat /\ lag + 1 <= MotionLag + 1
      /\ age \in Nat /\ age <= lag + 1
  BY SpinParameters DEF SpinInv, Spin!TypeOK
<1>2. SpinUncounted \in Int
  BY <1>1 DEF SpinUncounted
<1>3. Spin!Abs(SpinUncounted) \in Nat
  BY <1>2 DEF Spin!Abs
<1>4. Spin!Abs(SpinUncounted) <= age * SpinRate
  BY  DEF SpinInv, SpinCounted
<1>5. age * SpinRate <= (lag + 1) * SpinRate /\ age * SpinRate \in Nat
      /\ (lag + 1) * SpinRate \in Nat
  BY <1>1, SpinParameters, TimesMonotone
<1>6. (lag + 1) * SpinRate <= (MotionLag + 1) * SpinRate
      /\ (MotionLag + 1) * SpinRate \in Nat
  BY <1>1, SpinParameters, TimesMonotone
<1>7. Spin!Abs(SpinUncounted) < MotionHalf
  BY <1>3, <1>4, <1>5, <1>6, SpinParameters
<1> QED BY <1>2, <1>3, <1>4, <1>5, <1>6, <1>7

\* The shortest angle from the last yaw is what the rover turned since.
LEMMA SpinUnwrapped ==
    ASSUME NEW half \in Nat \ {0}, NEW d \in Int, NEW b \in Int, NEW a \in Int,
           a - b - d \in {0, 2 * half, -2 * half}, -half < d, d < half
    PROVE  (IF a - b > half THEN a - b - 2 * half
            ELSE IF a - b < -half THEN a - b + 2 * half ELSE a - b) = d
OBVIOUS

LEMMA SpinTurned ==
    ASSUME MotionHalf \in Nat \ {0},
           NEW a \in (1 - MotionHalf)..MotionHalf, NEW b \in (1 - MotionHalf)..MotionHalf,
           NEW d \in Int, NEW t \in Int,
           a - b - d \in {0, 2 * MotionHalf, -2 * MotionHalf},
           -MotionHalf < d + t, d + t < MotionHalf, -MotionHalf < t, t < MotionHalf
    PROVE  /\ Spin!Norm(a + t) \in (1 - MotionHalf)..MotionHalf
           /\ Spin!Norm(a + t) - b - (d + t) \in {0, 2 * MotionHalf, -2 * MotionHalf}
<1> DEFINE c == Spin!Norm(a + t)
<1>1. c \in Int /\ 1 - MotionHalf <= c /\ c <= MotionHalf
  BY  DEF Spin!Norm, Spin!Wrap
<1>2. \/ c = a + t \/ c = a + t - 2 * MotionHalf \/ c = a + t + 2 * MotionHalf
  BY  DEF Spin!Norm, Spin!Wrap
<1> HIDE DEF c
<1>3. c - b - (d + t) \in {0, 2 * MotionHalf, -2 * MotionHalf}
  BY <1>1, <1>2
<1> QED BY <1>1, <1>3 DEF c

LEMMA SpinAbsBounds ==
    ASSUME NEW n \in Int, NEW m \in Int, Spin!Abs(n) < m
    PROVE  -m < n /\ n < m
BY  DEF Spin!Abs

LEMMA SpinAbsSum ==
    ASSUME NEW n \in Int, NEW t \in Int, NEW a \in Nat, NEW s \in Nat,
           Spin!Abs(n) <= a, t \in {0, s, -s}
    PROVE  Spin!Abs(n + t) <= a + s
BY  DEF Spin!Abs

LEMMA SpinInits ==
    ASSUME Spin!SpinAssumption, Spin!Init
    PROVE  SpinInv
<1>1. /\ lag \in 0..MotionLag /\ h = 0 /\ seenH = 0 /\ age = 0 /\ due = FALSE
      /\ up = TRUE /\ last = Spin!None /\ accumulated = 0 /\ cmd = Spin!Still /\ turned = 0
  BY  DEF Spin!Init, Spin!RoverInit
<1>2. h \in Spin!Heading /\ age \in 0..(lag + 1)
  BY <1>1, SpinParameters DEF Spin!Heading
<1>3. Spin!TypeOK
  <2>1. lag \in 0..MotionLag /\ turned \in Int /\ accumulated \in Int
    BY <1>1, SpinParameters
  <2>2. cmd.lin = 0 /\ cmd.ang = 0
    BY <1>1 DEF Spin!Still
  <2> QED BY <1>1, <1>2, <2>1, <2>2 DEF Spin!TypeOK
<1>4. SpinCounted
  BY <1>1, SpinParameters DEF SpinCounted, Spin!Still
<1> QED BY <1>3, <1>4 DEF SpinInv

LEMMA SpinPeriodKeeps ==
    ASSUME Spin!SpinAssumption, SpinInv, Spin!Period
    PROVE  SpinInv'
<1>1. /\ ~due /\ due' = TRUE /\ age' = age + 1 /\ age <= lag
      /\ turned' = turned + cmd.ang
      /\ UNCHANGED <<lag, seenX, seenH, up, last, accumulated, cmd>>
  BY  DEF Spin!Period, Spin!Advance, SpinInv, SpinCounted
<1>2. h' = Spin!Norm(h + cmd.ang + 0)
  BY  DEF Spin!Period, Spin!Advance, SpinInv, Spin!TypeOK
<1>3. /\ h \in (1 - MotionHalf)..MotionHalf /\ lag \in Nat /\ lag <= MotionLag /\ age \in Nat
      /\ cmd.ang \in {0, SpinRate, -SpinRate} /\ cmd.ang \in Int
      /\ turned \in Int /\ accumulated \in Int
      /\ last \in (1 - MotionHalf)..MotionHalf \/ last = Spin!None
      /\ MotionHalf \in Nat \ {0}
  BY SpinParameters DEF SpinInv, Spin!TypeOK, Spin!Heading
<1>4. /\ age' * SpinRate = age * SpinRate + SpinRate /\ age * SpinRate \in Nat
      /\ age' * SpinRate <= (MotionLag + 1) * SpinRate
      /\ SpinRate < MotionHalf
  <2>1. age + 1 \in Nat /\ age + 1 <= MotionLag + 1
    BY <1>1, <1>3, SpinParameters
  <2>2. (age + 1) * SpinRate = age * SpinRate + SpinRate /\ age * SpinRate \in Nat
    BY <1>3, SpinParameters, AnotherPeriod
  <2>3. (age + 1) * SpinRate <= (MotionLag + 1) * SpinRate
    BY <2>1, SpinParameters, TimesMonotone
  <2>4. 1 * SpinRate <= (MotionLag + 1) * SpinRate /\ 1 * SpinRate = SpinRate
        /\ (MotionLag + 1) * SpinRate \in Nat
    BY SpinParameters, TimesMonotone
  <2> QED BY <1>1, <2>2, <2>3, <2>4, SpinParameters
<1>5. SpinUncounted' = SpinUncounted + cmd.ang /\ SpinUncounted \in Int
  BY <1>1, <1>3 DEF SpinUncounted
<1>6. CASE last = Spin!None
  <2>1. cmd.ang = 0 /\ turned' = 0
    BY <1>1, <1>6 DEF SpinInv, SpinCounted
  <2>2. h' = h
    <3>1. h + cmd.ang + 0 = h
      BY <1>3, <2>1
    <3> QED BY <1>2, <1>3, <3>1 DEF Spin!Norm, Spin!Wrap
  <2>3. age' \in 0..(lag' + 1) /\ Spin!Heading' = Spin!Heading /\ Spin!None' = Spin!None
    BY <1>1, <1>3 DEF Spin!Heading, Spin!None
  <2> QED BY <1>1, <1>3, <1>6, <2>1, <2>2, <2>3 DEF SpinInv, SpinCounted, Spin!TypeOK
<1>7. CASE last # Spin!None
  <2>1. /\ Spin!Abs(SpinUncounted) <= age * SpinRate
        /\ h - last - SpinUncounted \in {0, 2 * MotionHalf, -2 * MotionHalf}
    BY <1>7 DEF SpinInv, SpinCounted
  <2>2. Spin!Abs(SpinUncounted + cmd.ang) <= age' * SpinRate
    BY <1>3, <1>4, <1>5, <2>1, SpinParameters, SpinAbsSum
  <2>3. Spin!Abs(SpinUncounted + cmd.ang) < MotionHalf
    <3>1. Spin!Abs(SpinUncounted + cmd.ang) \in Nat
      BY <1>3, <1>5 DEF Spin!Abs
    <3> QED BY <1>3, <1>4, <2>2, <3>1, SpinParameters
  <2>4. -MotionHalf < SpinUncounted + cmd.ang /\ SpinUncounted + cmd.ang < MotionHalf
    BY <1>3, <1>5, <2>3, SpinAbsBounds
  <2>5. -MotionHalf < cmd.ang /\ cmd.ang < MotionHalf
    BY <1>3, <1>4, SpinParameters
  <2>6. h' = Spin!Norm(h + cmd.ang)
    <3>1. h + cmd.ang + 0 = h + cmd.ang
      BY <1>3
    <3> QED BY <1>2, <3>1
  <2>8. last \in (1 - MotionHalf)..MotionHalf
    BY <1>3, <1>7
  <2>9. /\ h' \in (1 - MotionHalf)..MotionHalf
        /\ h' - last - (SpinUncounted + cmd.ang) \in {0, 2 * MotionHalf, -2 * MotionHalf}
    BY <1>3, <1>5, <2>1, <2>4, <2>5, <2>6, <2>8, SpinTurned
  <2>10. age' \in 0..(lag' + 1) /\ Spin!Heading' = Spin!Heading /\ Spin!None' = Spin!None
         /\ turned' \in Int
    BY <1>1, <1>3 DEF Spin!Heading, Spin!None
  <2>11. SpinUncounted' = SpinUncounted + cmd.ang
    BY <1>5
  <2>12. Spin!Abs(SpinUncounted)' = Spin!Abs(SpinUncounted + cmd.ang)
    BY <2>11 DEF Spin!Abs
  <2>13. cmd.ang = 0 => turned' = turned
    BY <1>1, <1>3
  <2>14. SpinCounted'
    BY <1>1, <1>7, <2>2, <2>9, <2>10, <2>11, <2>12, <2>13 DEF SpinInv, SpinCounted, Spin!Abs
  <2> QED BY <1>1, <2>9, <2>10, <2>14 DEF SpinInv, Spin!TypeOK, Spin!Heading
<1> QED BY <1>6, <1>7

LEMMA SpinReadKeeps ==
    ASSUME Spin!SpinAssumption, SpinInv, Spin!FirstYaw \/ Spin!Turn
    PROVE  /\ SpinInv'
           /\ last # Spin!None => accumulated' = turned
<1>1. /\ up /\ last' = h /\ seenH' = h /\ age' = 0 /\ turned' = turned
      /\ UNCHANGED <<lag, h, due>>
  BY  DEF Spin!FirstYaw, Spin!Turn, Spin!Report
<1>2. /\ h \in (1 - MotionHalf)..MotionHalf /\ h \in Int /\ h # Spin!None /\ lag \in Nat
      /\ turned \in Int /\ accumulated \in Int /\ MotionHalf \in Nat \ {0}
      /\ last \in (1 - MotionHalf)..MotionHalf \/ last = Spin!None
  BY SpinParameters DEF SpinInv, Spin!TypeOK, Spin!Heading, Spin!None
<1>3. UNCHANGED <<Spin!Heading, Spin!None>>
  BY  DEF Spin!Heading, Spin!None
<1>4. age' \in 0..(lag' + 1) /\ age' * SpinRate = 0
  BY <1>1, <1>2, SpinParameters
<1>5. /\ accumulated' = turned
      /\ last # Spin!None => accumulated' = turned
      /\ cmd'.lin = 0 /\ cmd'.ang \in {0, SpinRate, -SpinRate} /\ up' \in BOOLEAN
      /\ up' => \/ Spin!Abs(accumulated') < Spin!Abs(SpinTarget)
                \/ turned' = 0 /\ accumulated' = 0 /\ cmd'.ang = 0
  <2>1. CASE Spin!FirstYaw
    <3>1. last = Spin!None /\ UNCHANGED <<up, accumulated, cmd>>
      BY <2>1 DEF Spin!FirstYaw
    <3>2. turned = 0 /\ accumulated = 0 /\ cmd.ang = 0 /\ cmd.lin = 0
      BY <3>1 DEF SpinInv, SpinCounted, Spin!TypeOK
    <3> QED BY <1>1, <3>1, <3>2
  <2>2. CASE Spin!Turn
    <3>1. last # Spin!None /\ accumulated' = accumulated + Spin!Delta
      BY <2>2 DEF Spin!Turn
    <3>2. SpinUncounted \in Int /\ -MotionHalf < SpinUncounted /\ SpinUncounted < MotionHalf
      BY <1>2, <3>1, SpinUncountedSmall, SpinAbsBounds
    <3>3. h - last - SpinUncounted \in {0, 2 * MotionHalf, -2 * MotionHalf}
          /\ last \in Int
      BY <1>2, <3>1 DEF SpinInv, SpinCounted
    <3>4. Spin!Delta = SpinUncounted
      BY <1>2, <3>2, <3>3, SpinUnwrapped DEF Spin!Delta, Spin!Wrap
    <3>5. accumulated' = turned
      BY <1>2, <3>1, <3>4 DEF SpinUncounted
    <3>6. Spin!Speed \in {SpinRate, -SpinRate}
      BY SpinParameters DEF Spin!Speed, Spin!Abs
    <3>7. Spin!Abs(accumulated') \in Nat /\ Spin!Abs(SpinTarget) \in Nat
      BY <1>2, <3>5, SpinParameters DEF Spin!Abs
    <3>8. \/ Spin!Done(accumulated') /\ up' = FALSE /\ cmd' = Spin!Still
          \/ ~Spin!Done(accumulated') /\ up' = up /\ cmd' = [lin |-> 0, ang |-> Spin!Speed]
      BY <2>2 DEF Spin!Turn
    <3>9. ~Spin!Done(accumulated') => Spin!Abs(accumulated') < Spin!Abs(SpinTarget)
      BY <3>7 DEF Spin!Done
    <3>10. /\ cmd'.lin = 0 /\ cmd'.ang \in {0, SpinRate, -SpinRate} /\ up' \in BOOLEAN
           /\ up' => ~Spin!Done(accumulated')
      <4>1. up = TRUE
        BY <1>1 DEF SpinInv, Spin!TypeOK
      <4>2. CASE Spin!Done(accumulated') /\ up' = FALSE /\ cmd' = Spin!Still
        BY <4>2 DEF Spin!Still
      <4>3. CASE ~Spin!Done(accumulated') /\ up' = up /\ cmd' = [lin |-> 0, ang |-> Spin!Speed]
        BY <3>6, <4>1, <4>3
      <4> QED BY <3>8, <4>2, <4>3
    <3> QED BY <3>5, <3>9, <3>10
  <2> QED BY <2>1, <2>2
<1>6. SpinUncounted' = 0
  BY <1>1, <1>2, <1>5 DEF SpinUncounted
<1>7. Spin!Abs(SpinUncounted)' = 0 /\ h' - last' - SpinUncounted' = 0
  BY <1>1, <1>2, <1>6 DEF Spin!Abs
<1>8. SpinCounted'
  BY <1>1, <1>2, <1>3, <1>4, <1>5, <1>7 DEF SpinInv, SpinCounted, Spin!Abs
<1>9. Spin!TypeOK'
  BY <1>1, <1>2, <1>3, <1>4, <1>5 DEF SpinInv, Spin!TypeOK, Spin!Heading
<1> QED BY <1>5, <1>8, <1>9 DEF SpinInv

LEMMA SpinStep ==
    ASSUME Spin!SpinAssumption, SpinInv, [Spin!Next]_(Spin!vars)
    PROVE  SpinInv'
<1>1. CASE Spin!Clock \/ Spin!Interrupt \/ UNCHANGED Spin!vars
  <2>1. /\ UNCHANGED <<lag, h, seenH, age, last, accumulated, cmd, turned>>
        /\ up' \in BOOLEAN /\ (up' => up) /\ due' \in BOOLEAN
        /\ ~due' => age <= lag
    <3>1. CASE Spin!Clock
      BY <3>1 DEF Spin!Clock, Spin!Expire, SpinInv, Spin!TypeOK
    <3>2. CASE Spin!Interrupt
      BY <3>2 DEF Spin!Interrupt, Spin!plant, SpinInv, SpinCounted, Spin!TypeOK
    <3>3. CASE UNCHANGED Spin!vars
      BY <3>3 DEF Spin!vars, Spin!plant, SpinInv, SpinCounted, Spin!TypeOK
    <3> QED BY <1>1, <3>1, <3>2, <3>3
  <2>2. UNCHANGED <<Spin!Heading, Spin!None, SpinUncounted>>
    BY <2>1 DEF Spin!Heading, Spin!None, SpinUncounted
  <2>3. Spin!TypeOK'
    BY <2>1, <2>2 DEF SpinInv, Spin!TypeOK
  <2>4. SpinCounted'
    BY <2>1, <2>2 DEF SpinInv, SpinCounted, Spin!Abs
  <2> QED BY <2>3, <2>4 DEF SpinInv
<1> QED BY <1>1, SpinPeriodKeeps, SpinReadKeeps DEF Spin!Next

LEMMA SpinTotalIsTrue ==
    ASSUME Spin!SpinAssumption, SpinInv
    PROVE  Spin!TotalIsTrue
BY  DEF Spin!TotalIsTrue, SpinInv, SpinCounted, SpinUncounted

\* The last message shows all that was turned.
LEMMA SpinEndsOnTarget ==
    ASSUME Spin!SpinAssumption, SpinInv
    PROVE  Spin!SpinsOnTarget
<1> SUFFICES ASSUME Spin!Turn, ~up'
             PROVE  /\ Spin!Abs(turned) >= Spin!Abs(SpinTarget)
                    /\ Spin!Abs(turned) < Spin!Abs(SpinTarget) + (lag + 1) * SpinRate
  BY  DEF Spin!SpinsOnTarget
<1>1. last # Spin!None /\ up /\ accumulated' = turned
  BY SpinReadKeeps DEF Spin!Turn
<1>2. Spin!Done(accumulated')
  BY <1>1 DEF Spin!Turn
<1>3. /\ SpinUncounted \in Int /\ Spin!Abs(SpinUncounted) \in Nat
      /\ Spin!Abs(SpinUncounted) <= age * SpinRate
      /\ age * SpinRate <= (lag + 1) * SpinRate
      /\ (lag + 1) * SpinRate \in Nat /\ age * SpinRate \in Nat
  BY <1>1, SpinUncountedSmall
<1>4. turned \in Int /\ accumulated \in Int /\ lag \in Nat
  BY SpinParameters DEF SpinInv, Spin!TypeOK
<1>5. /\ Spin!Abs(turned) \in Nat /\ Spin!Abs(accumulated) \in Nat /\ Spin!Abs(SpinTarget) \in Nat
      /\ Spin!Abs(turned) <= Spin!Abs(accumulated) + Spin!Abs(SpinUncounted)
  BY <1>4, SpinParameters DEF Spin!Abs, SpinUncounted
<1>6. Spin!Abs(turned) >= Spin!Abs(SpinTarget)
  BY <1>1, <1>2 DEF Spin!Done
<1>7. CASE Spin!Abs(accumulated) < Spin!Abs(SpinTarget)
  BY <1>3, <1>5, <1>6, <1>7
<1>8. CASE turned = 0
  <2>1. 1 * SpinRate <= (lag + 1) * SpinRate /\ 1 * SpinRate = SpinRate
    BY <1>4, SpinParameters, TimesMonotone
  <2>2. Spin!Abs(turned) = 0
    BY <1>8 DEF Spin!Abs
  <2> QED BY <1>3, <1>5, <1>6, <2>1, <2>2, SpinParameters
<1> QED BY <1>1, <1>7, <1>8 DEF SpinInv, SpinCounted

\* spin_360 counts what the rover really turned, in either direction and over
\* any number of revolutions, to what it turned since the last message.
THEOREM SpinIsCounted == ASSUME Spin!SpinAssumption PROVE Spin!Spec => []Spin!TotalIsTrue
<1>1. Spin!Spec => []SpinInv
  BY SpinInits, SpinStep, PTL DEF Spin!Spec
<1> QED BY <1>1, SpinTotalIsTrue, PTL

(***************************************************************************)
(* move_forward                                                            *)
(***************************************************************************)

\* Nothing is driven before the first run of the timer, which comes at most
\* MaxSetup before a period is over; while the rover drives, the next run is due
\* less than a period after the duration.
ForwardDriven ==
    /\ TimerPeriod - MaxSetup <= nextRun
    /\ ~moving /\ ~cancelled => driven = 0 /\ nextRun <= TimerPeriod
    /\ moving => /\ ~cancelled
                 /\ driven + (TimerPeriod - MaxSetup) <= now
                 /\ nextRun < Duration + TimerPeriod
    /\ cancelled => driven <= Duration + MaxLate + MaxSetup

ForwardInv == Forward!TypeOK /\ ForwardDriven

LEMMA ForwardParameters ==
    ASSUME Forward!MoveForwardAssumption
    PROVE  /\ TimerPeriod \in Nat \ {0} /\ Duration \in Nat \ {0}
           /\ MaxLate \in Nat /\ MaxSetup \in Nat
           /\ MaxLate < TimerPeriod /\ MaxSetup < TimerPeriod
BY  DEF Forward!MoveForwardAssumption

LEMMA ForwardNumbers ==
    ASSUME Forward!MoveForwardAssumption, ForwardInv
    PROVE  /\ nextRun \in Nat \ {0} /\ now \in Nat /\ driven \in Nat
           /\ now <= nextRun + MaxLate /\ driven <= now
           /\ nextRun < Duration + 2 * TimerPeriod
BY ForwardParameters DEF ForwardInv, Forward!TypeOK

LEMMA ForwardRange ==
    ASSUME Forward!MoveForwardAssumption, NEW n \in Nat, NEW d \in Nat \ {0}, NEW g \in Nat
    PROVE  /\ n <= d + MaxLate => n \in 0..(d + MaxLate)
           /\ d < Duration + 2 * TimerPeriod => d \in 1..(Duration + 2 * TimerPeriod - 1)
           /\ g <= n => g \in 0..n
BY ForwardParameters

LEMMA ForwardInits ==
    ASSUME Forward!MoveForwardAssumption, Forward!Init
    PROVE  ForwardInv
<1>1. /\ up = TRUE /\ now = 0 /\ cancelled = FALSE /\ moving = FALSE /\ driven = 0
      /\ nextRun \in Nat \ {0} /\ TimerPeriod - MaxSetup <= nextRun /\ nextRun <= TimerPeriod
  BY ForwardParameters DEF Forward!Init
<1>2. /\ now \in 0..(nextRun + MaxLate) /\ driven \in 0..now
      /\ nextRun \in 1..(Duration + 2 * TimerPeriod - 1)
  BY <1>1, ForwardParameters, ForwardRange
<1> QED BY <1>1, <1>2 DEF ForwardInv, Forward!TypeOK, ForwardDriven

LEMMA ForwardTickKeeps ==
    ASSUME Forward!MoveForwardAssumption, ForwardInv, Forward!Tick
    PROVE  ForwardInv'
<1>1. /\ now < nextRun + MaxLate /\ now' = now + 1 /\ ~cancelled
      /\ driven' = driven + (IF moving THEN 1 ELSE 0)
      /\ UNCHANGED <<up, nextRun, cancelled, moving>>
  BY  DEF Forward!Tick
<1>2. /\ now' \in Nat /\ driven' \in Nat /\ now' <= nextRun' + MaxLate /\ driven' <= now'
      /\ nextRun' \in Nat \ {0} /\ nextRun' < Duration + 2 * TimerPeriod
  BY <1>1, ForwardParameters, ForwardNumbers
<1>3. Forward!TypeOK'
  BY <1>1, <1>2, ForwardRange DEF ForwardInv, Forward!TypeOK
<1>4. ForwardDriven'
  BY <1>1, ForwardParameters, ForwardNumbers DEF ForwardInv, ForwardDriven
<1> QED BY <1>3, <1>4 DEF ForwardInv

LEMMA ForwardTimerKeeps ==
    ASSUME Forward!MoveForwardAssumption, ForwardInv, Forward!TimerCallback
    PROVE  ForwardInv'
<1>1. /\ now >= nextRun /\ nextRun' = nextRun + TimerPeriod /\ ~cancelled
      /\ moving' = ~Forward!Expired /\ cancelled' = Forward!Expired
      /\ UNCHANGED <<up, now, driven>>
  BY  DEF Forward!TimerCallback
<1>2. /\ TimerPeriod - MaxSetup <= nextRun /\ nextRun < Duration + TimerPeriod
      /\ moving => driven + (TimerPeriod - MaxSetup) <= now
      /\ ~moving => driven = 0
  BY <1>1, ForwardParameters, ForwardNumbers DEF ForwardInv, ForwardDriven
<1>3. driven + (TimerPeriod - MaxSetup) <= now
  BY <1>1, <1>2, ForwardParameters, ForwardNumbers DEF ForwardInv, Forward!TypeOK
<1>4. driven <= Duration + MaxLate + MaxSetup
  BY <1>2, <1>3, ForwardParameters, ForwardNumbers
<1>5. ~Forward!Expired => nextRun' < Duration + TimerPeriod
  BY <1>1, ForwardParameters, ForwardNumbers DEF Forward!Expired
<1>6. /\ now' \in Nat /\ driven' \in Nat /\ now' <= nextRun' + MaxLate /\ driven' <= now'
      /\ nextRun' \in Nat \ {0} /\ nextRun' < Duration + 2 * TimerPeriod
      /\ TimerPeriod - MaxSetup <= nextRun'
  BY <1>1, <1>2, ForwardParameters, ForwardNumbers
<1>7. up' \in BOOLEAN
  BY <1>1 DEF ForwardInv, Forward!TypeOK
<1>8. CASE Forward!Expired
  <2>1. moving' = FALSE /\ cancelled' = TRUE
    BY <1>1, <1>8
  <2> QED BY <1>1, <1>4, <1>6, <1>7, <2>1, ForwardRange
          DEF ForwardInv, Forward!TypeOK, ForwardDriven
<1>9. CASE ~Forward!Expired
  <2>1. moving' = TRUE /\ cancelled' = FALSE
    <3>1. Forward!Expired = FALSE
      BY <1>9 DEF Forward!Expired
    <3> QED BY <1>1, <3>1
  <2> QED BY <1>1, <1>3, <1>5, <1>6, <1>7, <1>9, <2>1, ForwardRange
          DEF ForwardInv, Forward!TypeOK, ForwardDriven
<1> QED BY <1>8, <1>9

LEMMA ForwardStep ==
    ASSUME Forward!MoveForwardAssumption, ForwardInv, [Forward!Next]_(Forward!vars)
    PROVE  ForwardInv'
<1>1. CASE Forward!Interrupt \/ UNCHANGED Forward!vars
  <2>1. UNCHANGED <<now, nextRun, cancelled, moving, driven>> /\ up' \in BOOLEAN
    <3>1. CASE Forward!Interrupt
      BY <3>1 DEF Forward!Interrupt
    <3>2. CASE UNCHANGED Forward!vars
      BY <3>2 DEF Forward!vars, ForwardInv, Forward!TypeOK
    <3> QED BY <1>1, <3>1, <3>2
  <2>2. Forward!TypeOK'
    BY <2>1 DEF ForwardInv, Forward!TypeOK
  <2>3. ForwardDriven'
    BY <2>1 DEF ForwardInv, ForwardDriven
  <2> QED BY <2>2, <2>3 DEF ForwardInv
<1> QED BY <1>1, ForwardTickKeeps, ForwardTimerKeeps DEF Forward!Next

LEMMA ForwardNeverTooFar ==
    ASSUME Forward!MoveForwardAssumption, ForwardInv
    PROVE  Forward!NeverTooFar
BY ForwardParameters, ForwardNumbers
DEF Forward!NeverTooFar, ForwardInv, Forward!TypeOK, ForwardDriven

\* move_forward drives for no longer than its distance takes, but for the delay
\* of the run that stops it.
THEOREM ForwardIsTimed ==
    ASSUME Forward!MoveForwardAssumption PROVE Forward!Spec => []Forward!NeverTooFar
<1>1. Forward!Spec => []ForwardInv
  BY ForwardInits, ForwardStep, PTL DEF Forward!Spec
<1> QED BY <1>1, ForwardNeverTooFar, PTL

(***************************************************************************)
(* MCMotions: a behaviour is that of one of the programs.                  *)
(***************************************************************************)

MotionsInv ==
    /\ part \in {"bang", "simple", "pid", "move", "spin", "forward"}
    /\ part = "bang" => BangInv
    /\ part = "simple" => SimpleInv
    /\ part = "move" => MoveInv
    /\ part = "spin" => SpinInv
    /\ part = "forward" => ForwardInv

\* A step is one of the program that was started, or none.
LEMMA OneProgram ==
    ASSUME MotionsInv, [Next]_vars
    PROVE  /\ part' = part
           /\ part = "bang" => [Bang!Next]_(Bang!vars)
           /\ part = "simple" => [Simple!Next]_(Simple!vars)
           /\ part = "move" => [Move!Next]_(Move!vars)
           /\ part = "spin" => [Spin!Next]_(Spin!vars)
           /\ part = "forward" => [Forward!Next]_(Forward!vars)
           /\ part = "pid" => UNCHANGED <<up, rover, followerVars>>
           /\ part \in {"move", "spin", "forward"} => UNCHANGED followerVars
<1>1. CASE Next
  BY <1>1 DEF Next, BangFrame, SimpleFrame, PIDFrame, MoveFrame, SpinFrame, ForwardFrame, Step
<1>2. CASE UNCHANGED vars
  <2>1. UNCHANGED <<part, up, rover, followerVars, motionVars>>
    BY <1>2 DEF vars
  <2>2. UNCHANGED <<lag, x, h, seenX, seenH, age, due, drifts, cmd, up,
                    active, loop, ready, state, wp, origin, goals, seenError, setbacks,
                    started, isMoving, last, accumulated, turned,
                    now, nextRun, cancelled, moving, driven>>
    BY <2>1 DEF rover, followerVars, common, bangVars, simpleVars, motionVars, moveVars,
                spinVars, forwardVars
  <2> QED BY <2>1, <2>2 DEF Bang!vars, Bang!plant, Simple!vars, Simple!plant,
                            Move!vars, Move!plant, Spin!vars, Spin!plant, Forward!vars
<1> QED BY <1>1, <1>2

LEMMA MotionsInits ==
    ASSUME Init
    PROVE  MotionsInv
<1> USE MotionsAssumption
<1> QED BY BangInits, SimpleInits, MoveInits, SpinInits, ForwardInits DEF Init, MotionsInv

LEMMA MotionsStep ==
    ASSUME MotionsInv, [Next]_vars
    PROVE  MotionsInv'
<1>1. part' = part
  BY OneProgram
<1>2. CASE part = "bang"
  BY <1>1, <1>2, OneProgram, BangStep, MotionsAssumption DEF MotionsInv
<1>3. CASE part = "simple"
  BY <1>1, <1>3, OneProgram, SimpleStep, MotionsAssumption DEF MotionsInv
<1>4. CASE part = "move"
  BY <1>1, <1>4, OneProgram, MoveStep, MotionsAssumption DEF MotionsInv
<1>5. CASE part = "spin"
  BY <1>1, <1>5, OneProgram, SpinStep, MotionsAssumption DEF MotionsInv
<1>6. CASE part = "forward"
  BY <1>1, <1>6, OneProgram, ForwardStep, MotionsAssumption DEF MotionsInv
<1>7. CASE part = "pid"
  BY <1>1, <1>7 DEF MotionsInv
<1> QED BY <1>2, <1>3, <1>4, <1>5, <1>6, <1>7 DEF MotionsInv

LEMMA MotionsSafe == Spec => []MotionsInv
BY MotionsInits, MotionsStep, PTL DEF Spec

\* Every program keeps its types; move_5_feet stops on target, spin_360 counts
\* what the rover turned, and move_forward drives for no longer than the
\* distance takes.
THEOREM MotionsMeasured == Spec => []MotionAsAsked
<1>1. MotionsInv => TypeOK
  BY DEF MotionsInv, TypeOK, BangInv, SimpleInv, MoveInv, SpinInv, ForwardInv
<1>2. MotionsInv => MotionAsAsked
  BY <1>1, MotionsAssumption, MoveStopsOnTarget, SpinTotalIsTrue, ForwardNeverTooFar
     DEF MotionsInv, MotionAsAsked
<1> QED BY <1>2, MotionsSafe, PTL

\* Turning and driving are separated by stops, a waypoint is credited near it,
\* and a spin ends on its target.
THEOREM StopsAndCreditsHold == Spec => StopsAndCredits
<1> DEFINE A == /\ part = "bang" => Bang!StopsBetween /\ Bang!CreditsNearby
                /\ part = "simple" => Simple!StopsBetween
                /\ part = "spin" => Spin!SpinsOnTarget
<1>1. MotionsInv /\ MotionsInv' /\ [Next]_vars => A
  <2> SUFFICES ASSUME MotionsInv, MotionsInv', [Next]_vars PROVE A
    OBVIOUS
  <2>1. ASSUME part = "bang" PROVE Bang!StopsBetween /\ Bang!CreditsNearby
    BY <2>1, OneProgram, BangStopsStep, BangCreditsStep, MotionsAssumption
       DEF MotionsInv, Bang!CreditsNearby
  <2>2. ASSUME part = "simple" PROVE Simple!StopsBetween
    BY <2>2, OneProgram, SimpleStopsStep, MotionsAssumption DEF MotionsInv
  <2>3. ASSUME part = "spin" PROVE Spin!SpinsOnTarget
    BY <2>3, SpinEndsOnTarget, MotionsAssumption DEF MotionsInv
  <2> QED BY <2>1, <2>2, <2>3
<1>2. MotionsInv /\ MotionsInv' /\ [Next]_vars => [A]_vars
  BY <1>1
<1> QED BY <1>2, MotionsSafe, PTL DEF Spec, StopsAndCredits

\* Both followers are missions.
THEOREM MotionsAreMissions == Spec => ImplementsMission
<1>1. Init => Abstract!MissionInit
  <2> SUFFICES ASSUME Init PROVE Abstract!MissionInit
    OBVIOUS
  <2>1. loop \in BOOLEAN /\ wp = 0 /\ active = TRUE /\ up = TRUE /\ ready = FALSE
        /\ (part = "bang" \/ part = "simple" => cmd = Bang!Still)
    BY DEF Init, Bang!Init, Simple!Init, NoFollower, NoCommon, Bang!Still, Simple!Still
  <2>2. Phase = "waiting"
    BY <2>1 DEF Phase
  <2>3. (Follows /\ cmd # Bang!Still) = FALSE
    BY <2>1 DEF Follows
  <2> QED BY <2>1, <2>2, <2>3 DEF Abstract!MissionInit
<1>2. MotionsInv /\ MotionsInv' /\ [Next]_vars => [Abstract!MissionNext]_(Abstract!mvars)
  <2> SUFFICES ASSUME MotionsInv, MotionsInv', [Next]_vars
               PROVE  Abstract!MissionNext \/ UNCHANGED Abstract!mvars
    OBVIOUS
  <2>1. part' = part
    BY OneProgram
  <2>2. CASE part = "bang"
    <3>1. Bang!Abstract!MissionNext \/ UNCHANGED Bang!Abstract!mvars
      BY <2>1, <2>2, OneProgram, BangMissionStep, MotionsAssumption DEF MotionsInv
    <3>2. /\ Phase = Bang!Phase /\ Phase' = Bang!Phase' /\ Bang!N = Len(Waypoints)
          /\ (Follows /\ cmd # Bang!Still) = (cmd # Bang!Still)
          /\ (Follows /\ cmd # Bang!Still)' = (cmd # Bang!Still)'
      BY <2>1, <2>2 DEF Phase, Bang!Phase, Follows, Bang!N
    <3>3. CASE UNCHANGED Bang!Abstract!mvars
      BY <3>2, <3>3 DEF Bang!Abstract!mvars, Abstract!mvars
    <3>4. CASE Bang!Abstract!MissionNext
      BY <3>2, <3>4
         DEF Bang!Abstract!MissionNext, Bang!Abstract!Begin, Bang!Abstract!Order,
             Bang!Abstract!Reach, Bang!Abstract!Restart, Bang!Abstract!Complete,
             Bang!Abstract!Abort, Abstract!MissionNext, Abstract!Begin, Abstract!Order,
             Abstract!Reach, Abstract!Restart, Abstract!Complete, Abstract!Abort
    <3> QED BY <3>1, <3>3, <3>4
  <2>3. CASE part = "simple"
    <3>1. Simple!Abstract!MissionNext \/ UNCHANGED Simple!Abstract!mvars
      BY <2>1, <2>3, OneProgram, SimpleMissionStep, MotionsAssumption DEF MotionsInv
    <3>2. /\ Phase = Simple!Phase /\ Phase' = Simple!Phase' /\ Simple!N = Len(Waypoints)
          /\ (Follows /\ cmd # Bang!Still) = (cmd # Simple!Still)
          /\ (Follows /\ cmd # Bang!Still)' = (cmd # Simple!Still)'
      BY <2>1, <2>3 DEF Phase, Simple!Phase, Follows, Simple!N, Bang!Still, Simple!Still
    <3>3. CASE UNCHANGED Simple!Abstract!mvars
      BY <3>2, <3>3 DEF Simple!Abstract!mvars, Abstract!mvars
    <3>4. CASE Simple!Abstract!MissionNext
      BY <3>2, <3>4
         DEF Simple!Abstract!MissionNext, Simple!Abstract!Begin, Simple!Abstract!Order,
             Simple!Abstract!Reach, Simple!Abstract!Restart, Simple!Abstract!Complete,
             Simple!Abstract!Abort, Abstract!MissionNext, Abstract!Begin, Abstract!Order,
             Abstract!Reach, Abstract!Restart, Abstract!Complete, Abstract!Abort
    <3> QED BY <3>1, <3>3, <3>4
  <2>4. CASE part \in {"pid", "move", "spin", "forward"}
    <3>1. UNCHANGED <<loop, wp, part>>
      BY <2>1, <2>4, OneProgram DEF followerVars, common
    <3>2. /\ Phase = "waiting" /\ Phase' = "waiting"
          /\ (Follows /\ cmd # Bang!Still) = FALSE
          /\ (Follows /\ cmd # Bang!Still)' = FALSE
      BY <2>4, <3>1 DEF Phase, Follows
    <3> QED BY <3>1, <3>2 DEF Abstract!mvars
  <2> QED BY <2>2, <2>3, <2>4 DEF MotionsInv
<1> QED BY <1>1, <1>2, MotionsSafe, PTL DEF Spec, ImplementsMission, Abstract!MissionSpec
=============================================================================
