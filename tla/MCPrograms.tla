----------------------------- MODULE MCPrograms -----------------------------
(***************************************************************************)
(* Small instances, for TLC, of the programs around the driver that do not *)
(* move the rover: the NTRIP proxy, the waypoint logger, and the nodes     *)
(* that make poses and waypoints of what the driver publishes.             *)
(* They share no state; a behaviour is that of one of them.                *)
(***************************************************************************)
EXTENDS NtripProxy, WaypointLogger

CONSTANTS CalibSamples, MaxDt, Slow, Rates, Pushes, Skews,           \* imu_odometry
          MaxTilt, MaxTicks, MaxFailures,
          BiasSamples, Drifts, Turns,                                \* yaw_bias_corrector
          Circle, Places, Fixes, DatumSamples,                       \* sources of poses
          SmoothWindow, DistanceThreshold, OdomZero, MaxStep,        \* extract_waypoints
          MaxPlace, MaxMessages

Tilting == {-2, 0, 1}
Jumps == {-1, 0, 2}
Corners == {[e |-> 0, n |-> 0], [e |-> 3, n |-> -2]}
Turning == {-2, 0, 1}

VARIABLES part,
          now, tilt, skew, failures, last_t, calib_buf, calibrated, attitude, gravity,
          imu_vel, moved, seen, pushed,
          spot, heading, turn, origin_localizer, origin_enu, buf, datum,
          ins_local, enu, imu, gps,
          drift, sum, count, bias, corrected, turned,
          used, at, route, gps_origin, ins_origin, position_buffer, last, extracted

imuVars == <<now, tilt, skew, failures, last_t, calib_buf, calibrated, attitude, gravity,
             imu_vel, moved, seen, pushed>>
poseVars == <<spot, heading, turn, origin_localizer, origin_enu, buf, datum,
              ins_local, enu, imu, gps>>
yawVars == <<drift, sum, count, bias, corrected, turned>>
extractVars == <<used, at, route, gps_origin, ins_origin, position_buffer, last, extracted>>
vars == <<part, pvars, lvars, imuVars, poseVars, yawVars, extractVars>>

Imu == INSTANCE ImuNodes WITH vel <- imu_vel, MaxTime <- MaxTicks
Pose == INSTANCE PoseSources WITH
    place <- spot, local <- ins_local, Samples <- DatumSamples
Extract == INSTANCE WaypointExtractor WITH waypoints <- extracted

ASSUME ProgramsAssumption ==
    /\ ProxyAssumption /\ LoggerAssumption /\ Imu!ImuAssumption /\ Imu!YawBiasAssumption
    /\ Pose!PoseAssumption /\ Extract!ExtractorAssumption

Parts == {"proxy", "log", "imu", "pose", "yaw", "extract"}

\* What is not started has one initial state.
Init ==
    /\ part \in Parts
    /\ PInit
    /\ LInit /\ (part = "log" \/ place = 0)
    /\ Imu!Init /\ (part = "imu" \/ tilt = 0)
    /\ Pose!Init /\ (part = "pose" \/ spot = [e |-> 0, n |-> 0])
    /\ Imu!YInit /\ (part = "yaw" \/ drift = 0)
    /\ Extract!Init /\ (part = "extract" \/ used = {"ins"})

\* Only the program that was started moves.
Only(name) ==
    /\ part = name /\ part' = part
    /\ IF name = "proxy" THEN TRUE ELSE UNCHANGED pvars
    /\ IF name = "log" THEN TRUE ELSE UNCHANGED lvars
    /\ IF name = "imu" THEN TRUE ELSE UNCHANGED imuVars
    /\ IF name = "pose" THEN TRUE ELSE UNCHANGED poseVars
    /\ IF name = "yaw" THEN TRUE ELSE UNCHANGED yawVars
    /\ IF name = "extract" THEN TRUE ELSE UNCHANGED extractVars

Next ==
    \/ Only("proxy") /\ PNext
    \/ Only("log") /\ LNext
    \/ Only("imu") /\ Imu!Next
    \/ Only("pose") /\ Pose!Next
    \/ Only("yaw") /\ Imu!YNext
    \/ Only("extract") /\ Extract!Next

Spec ==
    /\ Init /\ [][Next]_vars
    /\ WF_vars(Only("proxy") /\ Handshake) /\ WF_vars(Only("proxy") /\ Join)
    /\ \A m \in Mountpoint :
          /\ WF_vars(Only("proxy") /\ ForwardStream(m))
          /\ WF_vars(Only("proxy") /\ Connect(m))
          /\ WF_vars(Only("proxy") /\ Receive(m))
          /\ WF_vars(Only("proxy") /\ GgaEnds(m))
          /\ WF_vars(Only("proxy") /\ StaleGgaEnds(m))

----------------------------------------------------------------------------
\* Streams that were dropped open again, and sessions end.
SessionsGoOn == Reconnects /\ SessionEnds

\* Dead reckoning knows the attitude and does not drift; the yaw rate is wrong
\* by no more than what spoiled its calibration; the waypoints cover the route.
\* The types of all programs of the run are here too.
Localised ==
    /\ PTypeOK /\ LTypeOK
    /\ Imu!TypeOK /\ Imu!YTypeOK /\ Pose!TypeOK /\ Extract!TypeOK
    /\ Imu!Tracked /\ Imu!StaysPut
    /\ Imu!WrongByTurns
    /\ Extract!Spaced /\ Extract!Covered

\* All sources of poses see the rover go and turn the same way.
SourcesAgree == []Pose!FacesAhead /\ Pose!SameWay
=============================================================================
