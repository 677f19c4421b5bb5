# A TLA+ verification of the rover workspace

This directory holds TLA+ models of the control and data nodes of the rover
workspace, TLC configurations that check them on small instances, and proofs
checked by TLAPS.  Paths are relative to the repository (`src/` stands for its
root); `waypoint_reader/` below is `src/src/waypoint_reader/waypoint_reader/`,
and `SDK/` is `src/src/inertial_sense_ros2_V2/lib/InertialSenseSDK/src/`.

## 1. Inventory

### Nodes that drive the rover

All of them publish `/cmd_vel` and run on one rclpy executor thread, so their
callbacks are atomic with respect to each other; what interleaves is callbacks,
the motion of the rover, and time.

| component | state | operations | what makes it correct |
|---|---|---|---|
| `waypoint_reader/waypoint_follower.py` | waypoint index, active, turning/braking, smoothed heading error, stuck anchor and timer, two PIDs | `_odom_callback`, `_control_loop` (20 Hz), `_stop_robot` on exit | brake cycles before every turn; PIDs forget the last waypoint; the stuck detector ends a blocked mission; legs in order; a stop at the end |
| `PIDController` (same file) | integral, previous error | `compute`, `reset` | what was accumulated is paid back, after which the output follows the error |
| `waypoint_reader/bang_waypoint_follower.py` | origin, waypoints, TURN/DRIVE, index | two odometry callbacks, `_control_loop` | full speed in one mode is never followed directly by full speed in the other; a waypoint is credited near it; missions complete |
| `waypoint_reader/simple_waypoint_follower.py` | TURN/DRIVE, index, previous error | odometry callback, `_control_loop` | the same; the heading is held while driving |
| `src/src/move_5_feet/.../move_5_feet.py` | start position, is_moving | odometry callback, 10 Hz timer | stops on target |
| `src/src/move_forward/.../move_forward.py` | start time, timer | 10 Hz timer | stops, in time |
| `src/spin_360.py` | last yaw, accumulated yaw | odometry callback | counts revolutions through the wrap of the yaw |

### Nodes that produce or record data

| component | state | hard behaviour |
|---|---|---|
| `src/ntrip_proxy.py` | per session: client socket, lock, stop event, one forwarding thread per mountpoint, a GGA thread per caster connection | threads sharing a socket, reconnection, shutdown |
| `src/log_waypoints.py` | latest and home positions, waypoints | ROS thread against keyboard thread |
| `waypoint_reader/imu_odometry.py` | last stamp, calibration buffer, gravity, attitude, velocity, position | calibration is repeated until still; lost messages, stamps that jump, a sensor that fails |
| `waypoint_reader/yaw_bias_corrector.py` | running sum, bias | the samples it takes for stationary |
| `waypoint_reader/gps_datum_odom.py`, `simple_gps_odom.py`, `gps_to_navsat.py` | datum buffer, datum | fix types; a datum of fixes of a moving rover |
| `waypoint_reader/ins_localizer.py`, `ned_to_enu.py`, `imu_enu_republisher.py` | a pinned origin | origins pinned at different times; axes, signs and the backward mounting |
| `waypoint_reader/extract_waypoints.py` | origins, smoothing buffer, last waypoint | nothing until the buffer is full; gaps |
| `odom_to_path.py`, `pose_monitor.py`, `src/gps_to_rviz.py`, `src/plot_*`, `src/record_imu_drift.py`, `src/calibrate_wheelbase.py` | display buffers | none |

### The InertialSense driver and SDK

| component | state | hard behaviour |
|---|---|---|
| `src/src/inertial_sense_ros2_V2/src/inertial_sense_node.cpp` | connection, flash configuration, last GPS position and velocity, observation bundle, time offset | failed connection, flash write, reset and respawn; pairing of GPS messages; services before the first message |
| `SDK/InertialSense.cpp` | list of devices, flash configuration and upload per device, log queue and thread, client stream, server | devices removed while others are opened, an upload racing the checksums of before it, packets shared with the logger thread |
| `SDK/com_manager.c` | broadcast slots of all ports, ensured packets | period multiples, slots shared by ports, retries over lossy links |
| `SDK/ISComm.c` | parser buffer with head and scan positions, state per protocol | resynchronisation after damage, a buffer that fills, bytes that are escaped |
| `SDK/ring_buffer.c`, `linked_list.c` | read and write pointers | full, empty, overflow round the end |
| `SDK/ISLogger.cpp`, `DeviceLog*.cpp`, `DataChunk*.cpp` | a chunk (sorted log: one per data set) and an open file per device, files on disk | rotation, space limits, crashes; searching all files for what is next |
| `SDK/ISBootloaderThread.cpp`, `ISBootloaderBase.cpp` | serial and USB threads, a context per device | the device leaves its port and appears under another; threads at work when time is over |
| `SDK/ISBootloaderISB.cpp`, `ISBootloaderDFU.cpp`, `ihex.c` | page and offset; sections and a command | records that skip bytes, go past a page or are written again |
| `SDK/protocol_nmea.cpp`, `time_conversion.c` | protocol version, speed printed last, rates of the sentences asked for, port and period of each | the ends of days, weeks, months and years; fields that one sentence has and the next lacks; a lost line of several; names and ids of sentences |
| `SDK/ISTcpServer.cpp`, `ISTcpClient.cpp`, `ISClient.cpp` | the server's list of clients, a client's connection | a list that changes while it is iterated, short writes, connections that replace each other while the parser is in a packet |
| `serialPort*.c` | file handles | none |

What makes the SDK's parts correct: every port's subscription is served at its
period and no other port's changes; what is parsed was sent, in order, and
the parser comes back into step behind damage; a request is sent until it is answered;
the devices of the client, of the manager and of the operating system are the
same ones; client and device agree on the configuration after the last upload;
what is logged is read back in order; a base's corrections come to every rover once
and in order; no thread works on what is deleted, no
device is left erased, and what is reported as written is written.

### Interaction

`ntrip_proxy` serves corrections to the driver over TCP; the driver opens its device
through the SDK's client, which drives the communication manager, the parser, the
logger thread and (from the command line tool only) firmware updates; the driver publishes
INS, IMU and GPS topics; odometry nodes turn them (or the wheels) into
odometry; a waypoint node follows odometry and commands the wheels;
`log_waypoints` writes the files the waypoint nodes read.  The followers never
talk to the driver directly, so each model has odometry as its environment.

## 2. Modules

| module | models | state and actions |
|---|---|---|
| `Mission` | what every waypoint node promises | phase, leg, moving; Begin, Order, Reach, Restart, Complete, Abort |
| `WaypointFollower` | `waypoint_follower` | one variable per attribute; `FirstOdom`/`Odom` are the two halves of `_odom_callback`; `ControlLoop` is one run of `_control_loop`, a disjunct per way through it: `Idle`, `Finish`, `Reach`, `GiveUp`, `Brake`, `Turn`, `Drive` |
| `PIDController` | class `PIDController` | `Compute`, `Skip` (dt <= 0), `Reset` |
| `Rover` | the rover on a line, its odometry and a timer | `Advance`, `Report`, `Expire` |
| `BangFollower` | `bang_waypoint_follower` on a `Rover` | `WheelsOrigin`, `Odom`, `ControlLoop` |
| `SimpleFollower` | `simple_waypoint_follower` on a `Rover` | `Odom`, `ControlLoop`; one heading unit is 0.05 rad, so the default gains are integers |
| `MoveFiveFeet`, `Spin360` | the two scripts on a `Rover` | `Odom`, `MoveRobot`; `FirstYaw`, `Turn` |
| `MoveForward` | `move_forward` against a clock | `Tick`, `TimerCallback` |
| `NtripProxy` | one session of `ntrip_proxy` | program counter per forwarding thread; one action per step between two points where another thread may run |
| `WaypointLogger` | `log_waypoints` | snapshot under the lock, append outside it, save in two steps |
| `InsDriver` | the constructor of `inertial_sense_node`, on a device it may reset, killed and started again | one action per command or sleep: `Connect`, `SetNavigation`, `NavigationReset`, `ConfigureParameters`, `ConfigureRtk`, `RtkReset`; `Kill`, `Boot` |
| `DriverTopics` | three things about that node's topics, each a specification of its own: the `gps` topic (`FNext`), the `gps/obs` topic (`ONext`), the times all are stamped with, over the ends of weeks (`SNext`) | `PosCallback`, `VelCallback`, `publishGPS`; `Observe` is `GPS_obs_callback`, `Timer` the bundle timer; `GPS_pos_callback`, and one action per kind of message: `DatedCallback`, `BareCallback`, `SensorCallback`, `wheel_enc_callback` |
| `Corrections` | a base that is a TCP server and rovers that are its clients (`UpdateServer`, `UpdateClient`), over TCP that takes part of a write | `UpdateServer` with `Write` and `Update` of the server; `CreateHost`, `OpenConnectionToServer`, `UpdateClient`, `UpdateClientFails` |
| `MCInertialSense` | the driver, its topics and the corrections side by side, one of them running | |
| `ComManager` | the broadcast table of `com_manager.c` on a clock, with buffers that fill; its list of requests that are sent until answered, over links that lose | table: `GetDataRequest`, `DisableDidBroadcast`, the two `StopBroadcasts`, `StepTx`, which serves slots in order; list: `comManagerSendEnsured`, `stepPacketRetry`, `comManagerStepRx`, the device's `Answer`.  The two share no state, and each has a specification of its own (`BSpec`, `ESpec`) |
| `Subscriptions` | what the table promises: subscriptions by port and data | Subscribe, Unsubscribe and their combinations |
| `IsComm` | `is_comm_parse_timeout` and its buffer, for four protocols (`CSpec`); the encoding and decoding of a binary packet (`PSpec`) | `Read` (bytes that arrive, in any pieces), `Parse`, byte by byte through `PacketByte`, `StrayByte`, `Abandon`, `Continue`; the codec: `SendPacket`, `ReceivePacket` |
| `RingBuffer` | `ring_buffer.c` | the five operations that change it |
| `MCSdkComm` | the two parts of `ComManager`, the two of `IsComm` and the ring buffer side by side | |
| `InertialSenseClient` | `OpenSerialPorts`, `Update` and `Close` of the client (`DSpec`); `LoggerThread` and those who enable, disable and feed it (`LSpec`) | `Query`, `QueryEnds`, `Prune`, `Trim`, `PortLost`; `TakePackets` and `StepLogger` under the lock, `LogPacket`, `UpdateLogger` between |
| `FlashSync` | `SetFlashConfig`, `GetFlashConfig`, `SyncFlashConfig`, files, and a device over a lossy link | one action per call and per message |
| `DeviceLog` | files of one device in the serial format | `SaveData`, `OpenNewSaveFile`, `CloseAllFiles`, `Crash`, `ReadData` |
| `SortedLog` | files of one device in the sorted format, and their reading | `SaveData`, `DiskFills`, `CloseAllFiles`, `Crash`, `ReadData` |
| `NmeaFix` | a fix printed as GGA, GLL, GSA, ZDA, RMC and VTG and read back, with the calendar | `NextFix`, `NextVelocity`; `PrintPosition` and `PrintVelocity`, one sentence each; `Read`, a disjunct per reader |
| `NmeaSentences` | the satellites and signals in view as GSV sentences of versions 2.3 and 4.11 (`GSpec`); the commands ASCB and ASCE that ask a device for sentences (`MSpec`) | `Receive` and `Lose`, a line at a time; `Command`, one of the commands, written by the host and read by the device |
| `MCSdkHost` | the parts of these six side by side | |
| `FirmwareUpdate` | the main, serial and USB threads of an update | a program counter per thread; phases of `update` and `set_mode_and_check_devices` |
| `HexProgram` | `process_hex_file`: records to pages | a record at a time: `DataLine`, `PageLine`, `EndLine`, `Eof` |
| `DfuProgram` | `ihex_load_sections` and the DFU `download_image` | a command at a time, each of which may fail; `Retry` |
| `DeviceImages` | one device over many updates: matching of files in `mode_device_app`, `mode_device_isb` and `update_device`; `cISBootloaderSAMBA` | `ModeApp`, `ModeIsb`, `WriteApp`; `SambaErase`, `Page`, `Verify`; `Again` is the next update, of a program that may have been killed |
| `MCFirmware` | the four side by side | |
| `MCMotions` | the closed-loop followers, the PID controller and the three motions, side by side | |
| `ImuNodes` | `imu_odometry` on a rover that tilts and is pushed (`Spec`); `yaw_bias_corrector` (`YSpec`) | `imu_cb` with `Dropped`, `Collect`, `Completes` and `Integrate`; `Reading`, `Lost`; `Calibrate`, `cb` |
| `PoseSources` | `ins_localizer`, `ned_to_enu`, `imu_enu_republisher`, `gps_datum_odom`, `simple_gps_odom` on one rover | one action per node and message |
| `WaypointExtractor` | `extract_waypoints` on a recording along a line | `Message` by `ProcessIns` or `ProcessGps`, both through `add_waypoint` |
| `MCPrograms` | these three modules, the proxy and the logger side by side | |
| `WaypointFollowerProofs`, `MotionProofs`, `SdkProofs`, `FirmwareProofs`, `ProgramProofs` | theorems about `WaypointFollower` with its `PIDController`; about the five programs of `MCMotions`, each by itself and side by side; about `ComManager`, the parser of `IsComm`, `RingBuffer`, `InertialSenseClient`, `FlashSync` and `NmeaFix`; about the four modules of `MCFirmware`; about the five of `MCPrograms` | |

Theorems about `InsDriver`, `DriverTopics` and `Corrections` stand at the end of these modules.

The MC modules that put modules side by side run one of them in a behaviour:
the modules share no state, so this is the same as a run for each, and a
property of one is a conjunct of a property of the run.  An MC module extends some of
its components, whose properties its run checks by their own names; the others are instances.

`InsDriver` has the device as its environment: it keeps what is written to its
flash while it listens, and applies navigation rate and RTK bits when it is
reset.  While it boots, and on a USB port that went away with the reset, what is
sent is lost, and `SendData` does not say so; the variable `lost` records it for
the properties.  The SDK's copy of the flash is taken when the port is opened
and nothing is received before the constructor ends, so `GetFlashConfig` reports
it in sync throughout.  After a failed connect the constructor goes on with no
device (and reads past an empty vector): it sends nothing and the process ends,
whichever way that read goes, and `ConnectFails` is just that.

In the fixes of `DriverTopics` a stamp is week and time of week once the offset to GPS time is
known.  Before that it is an estimate from the local clock that moves by a
fraction of a percent of the time between two calls, less than a double of that
size can tell: two stamps of one epoch may be equal or not.

Geometry.  `WaypointFollower` is open loop: odometry may report any pose of a
finite set at any time, and what matters of a pose is its class of distance
(reached, near, far) and of heading error (aligned, between, misaligned) for
each waypoint.  This contains every trajectory of a real rover, so the safety
properties hold whatever the plant does.  The exponential smoothing of the heading error is
kept as a choice of any class up to the larger of the old smoothed and the raw
one, as the average moves along the shorter arc.  The other programs that
move the rover instead have the rover move on a line in integer steps, because
completion and overshoot depend on the plant.

Operators whose comment begins with "Mutant of" are not part of the model: they
are plausible wrong versions of the operator below them, kept to show that the
properties notice.

## 3. Runs

The passing runs:

| run | shows | bounds, and why they suffice |
|---|---|---|
| `follower` | types, the braking invariant, fresh PIDs, bounded reaction to frozen odometry, the refinement of `Mission`, that a mission ends or the rover moves | 5 poses that realise: far, on the way, each waypoint, and both waypoints at once; two waypoints (one change of waypoint and the end); 3 brake cycles; a stuck timeout of 4 ticks with periods of 1 or 2, so that a late executor matters |
| `motions` | both closed-loop nodes: stops between modes, completion, refinement; waypoints credited nearby (bang), heading held (PD); `move_5_feet` stops on target, `spin_360` counts the true rotation and ends on its target, `move_forward` drives for a bounded time; all motions end; the PID controller answers an error that stays on one side, whatever it accumulated before | a route out, back past the start and twice the same waypoint, once or in laps; odometry up to two (PD: one) periods old, three or four disturbances of one heading unit, the clock set back once; completion of the bang-bang node only where `lag` is 0, because with older odometry its law overshoots the tolerance for ever; a target beyond one revolution, to the right; ten timer periods of four ticks, the timer up to three late; PID: default heading gains, limits of 0.5 rad/s, errors that change sides, periods up to ten seconds and dt <= 0 |
| `programs` | the proxy's chunks, keep-alive, reconnection and end of session; the logger's offsets match its home points; dead reckoning knows the attitude and a rover that is not pushed stays where it is; all sources of poses see it go and turn the same way; the yaw rate is wrong by no more than what spoiled the calibration; waypoints are spaced and cover the route | the two mountpoints of the code, two drops each per session, sessions without end; two places, two waypoints, every fix type; two samples, five ticks, stamps that jump back or past the longest dt, one failure; a circle of four headings, two places, the last of two fixes sets the datum; three samples of a gyroscope that drifts; six messages of a recording smoothed over three |
| `ins` | the constructor leaves the device as configured (a base whose server starts: but for the RTK bits), what is in flash is in effect, no reset loop; one epoch per fix and no complete epoch left out; observations neither lost, repeated nor torn, and published if the stream has pauses again and again; stamps are the times of what they stamp; corrections come to every rover that is connected, once and in order | two rates and offsets, every combination of roles, server string and port, every initial flash, kills without bound; seven epochs over a week's end, two damaged messages (fewer than the epochs of a week, without which stamps alias); raw observations of three times without end, six of them told apart at a time, and a pause of two ticks that comes or does not; seven time units of a device started near a week's middle, in weeks of four, so that two end; two rovers with two connections between them, so that one may replace another or both be in the list, and the packets ISB, UBX, RTCM3 of two units each, so that a write may be short |
| `sdk_comm` | the broadcast table implements `Subscriptions`; no slot twice; subscribers served; requests sent until answered and not forgotten; what is parsed was sent, a packet that the parser meets in step is handed on and leaves it in step, a buffer's length of whole binary packets brings it back into step, every byte is consumed; packets arrive as sent; the ring buffer is a bounded queue | two slots for two ports and three data sets, so that slots run out; buffers that hold two or three units of data of one, two or three; two ensured packets (an end marker that moves both ways), two retries; three packets a stream, one of them whole or damaged at either end, and streams of seven of which four are binary packets behind two pieces of any kind, so that more than the buffer comes behind the damage, in reads of 1, 4 and 12 bytes into a buffer of 12, so that it fills; headers and bodies with bytes that are escaped in each lane of the checksum; a ring of four with writes of up to five |
| `sdk_host` | no port is lost or held by a removed device; client and device agree after the last upload; packets are logged in order, files read back as written within the space limit; an NMEA sentence gives back the place, time, velocity, satellites or rates it was printed from; opening and disabling return, queued packets are written | three ports, at most two devices kept; two uploads of two values on a link that loses, with checksums of before; four packets in two sessions; files of one or two chunks, space for two, six data written, opens that fail and crashes (files are deleted for space in this log only; the sorted one does not reach its limit); for the sorted log four data of two data sets, one of which changes its size, chunks of 4, files of 6 and space for 12, a full disk and a crash; four fixes at the ends of a month, a leap February, a year and a week, two in a behaviour, at two velocities; skies of five and eight satellites where there is room for seven, with nine signals, in sentences that are lost; seven commands, two in a behaviour, on every port and one that does not exist |
| `firmware` | no context deleted under a thread at work, no device that answers left erased by an update that ends by itself, only finished devices are restarted, the call returns; files are in memory as reported; a device starts only bootloaders that are whole, and one that tells what it is has no application of another | one serial port and a USB device, five threads (a device that passes through every mode), time-outs, missing answers and cancellation at every point; every sequence of records over two pages of seven bytes that skip, overlap, cross and end early; files of one section of any shape in six bytes, and of two; three tries; bootloaders of two pages (one before and one after any loss), versions 5 and 6 on the device and 6 and 7 in the files, which fit, do not fit or have no bootloader |

Five runs end in a counterexample: a sentence of the repository against its code.

* `follower_frozen`: a rover that does not move is stopped after `stuck_timeout`
  (`waypoint_follower_how_to_use.txt:149`).  Reaching a waypoint publishes nothing
  and resets the stuck timer; with `loop` and every waypoint within tolerance of
  the pose this goes on for ever while the last motion command stands.  Without
  `loop` the promise is kept, as `FrozenMeansStopped` of run `follower` shows.
* `logger_timeonly`: "first valid 3D fix" (`log_waypoints.py:156`).  Fix types are
  compared by size, and time-only (1280) is the largest.
* `ins_parameters`: `has_parameter` is meant to see what the launch file sets
  (`ROS1_TO_ROS2_MIGRATION.txt:211-213`), but a parameter is declared by nobody
  before the node does it, and what `declare_parameter` returns is dropped
  (`inertial_sense_node.cpp:141-144`).  The antenna offsets of the launch files
  never reach the device; zeros do.
* `ins_bundle`: "time of all contained observations" (`msg/GNSSObsVec.msg:3`).  A new
  time asks the timer's function to publish, which refuses within 10 ms of the
  last observation, and the new ones join the old bundle.
* `sdk_open`: "remove each failed device where communications were not received"
  (`SDK/InertialSense.cpp:1140`).  The loop counts down a second time after a removal
  (l. 1146), so of two neighbours that do not answer one stays.

Smaller disagreements met on the way, which no run checks: "Navigation begins
immediately" on the first odometry message (`waypoint_follower_how_to_use.txt:130`),
but the stuck timer starts in the constructor, so after a wait longer than
`stuck_timeout` the first control run gives the mission up before any command;
an RTK base is never served, as `CreateHost` wants a type before the address
(`InertialSense.cpp` in the SDK, `CreateHost`) and the driver gives none; a new lap leaves the
turning state whatever the heading error (`waypoint_follower.py:250` against
`waypoint_follower_how_to_use.txt:135`); the bang-bang node does rotate the
waypoints by the starting yaw (`bang_waypoint_follower.py:158-165` against
`bang_waypoint_follower_how_to_use.txt:117`); the integral "can never grow large enough to
saturate the output on its own" (`waypoint_follower_explained.txt:44`), but its limit is what
the whole swing of the output takes (`waypoint_follower.py:34`), so that alone it reaches twice the node's
symmetric limits (`NeverSaturatesAlone`); `move_forward` drives one timer period less
than its log says; waypoints logged before the first INS message have no x and
y, which the followers read (`log_waypoints.py:202` against line 12);
`yaw_bias_corrector` takes the first thousand samples, of a rover that moves too,
where its header has the first 2000 "when the rover is stationary"
(`yaw_bias_corrector.py:8-12`; so `WrongByTurns` has the turns of the samples in it);
GPS odometry takes a time-only fix for a 3D fix, as the logger does, so `SameWay`
leaves such fixes out, and its datum may be a mean of them; with INS and GPS both used
`extract_waypoints` subtracts the origin of one from positions of the other, so
`Covered` is about one source.

The same in the SDK (lines are of files in `SDK/`).

*Communication manager.*  "use the first available (period=0)"
(`com_manager.c:964`), but the comparison also takes a slot whose message waits to be
sent once (l. 979); `MAX_NUM_BCAST_MSGS` is "per port" (`com_manager.h:110`) but one
table serves all ports; a full retry list is to "take the oldest" (l. 1470), which
is not what is taken; acknowledgements are parsed and dropped, so a packet that
sets data is sent until its retries run out (`com_manager.h:134`, l. 427; definition
`AckStopsRetry`); the handlers refuse `handle > size` where `handle == size` is out of
range (`InertialSense.cpp:65` and 105); setting the manager up again after a
removal drops the NMEA callback (`NmeaHandled`).

*Ring buffer.*  A write that passes the end stores its first bytes again there, as the
source pointer is not moved on (`ring_buffer.c:93-103`; `WritesData`).  The model does
so too, and `HoldsFifo` (in `BytesKept`) looks at the contents until the first such write, and at the
counts always.

*Flash configuration.*  `GetFlashConfig` reports a configuration that is still
being uploaded as synchronised, and a lost upload reverts without a word;
`LoadFlashConfig` reads one field from the key of another and always for device 0
(`LoadsWhatWasSaved`).

*Corrections.*  `ISSocketWrite` starts every send with the first byte of its data, so after
a short send a packet goes out damaged and is reported as sent
(`ISTcpClient.cpp:103-120`; `cut`).  "Any clients that are disconnected will be closed and
removed" (`ISTcpServer.h:113`), but an orderly end reads 0 and the client stays until a
write fails; closing the server leaves its clients in the count (`abandoned`); a failed
`accept` is put in the list.  On the rover a read of -1 is added to the buffer's tail
(`InertialSense.cpp:520-523`; `behind`), so that the next bytes are not looked at; the
client does "confirm socket is actually connected" (`ISTcpClient.cpp:290`) before a
non-blocking connect has been answered, and so opens where no server is; it never
connects again by itself; and a stream whose open failed is leaked.

*Driver's stamps.*  "Add this to IMU and sensor time to get GPS time of week"
(`data_sets.h:851`), but the driver does so only where it is more than 0.001
(`inertial_sense_node.cpp:885`), and after a week's end it is negative: sensors are stamped by
the average again, into which differences to the time of week and to the uptime go
alike.  A time of week that comes alone is stamped with the week of the last position,
the old one until the first of the new week.  `StampsRight` names these cases.

*Log.*  Packets queued when the log is disabled are dropped although the caller
waits to "shutdown logger gracefully" (`InertialSense.cpp:184`; `GracefulShutdown`).  A
stream error is sticky: a device that met one writes no more to that file; a
failed open is not tried again; cleaning for one device may delete the file
another has open; names wrap after 10000 files of a date (`NeverOverwrites`); "ensure
there are between min and max file count" (`ISLogger.cpp:139`) is undone a few lines
later when the size is raised.  In the sorted log data set 0 is never written, and a
refused datum is lost; a file read to its end is meant to be removed from the list, but `eof` is
not seen before a read past the end, so it stays (`DataChunkSorted.cpp:129`).

*NMEA.*  In the first leap seconds of a GPS week the time of day printed is wrong, since
the difference is unsigned (`time_conversion.c:31`) where a fix is "taken at 12:35:19
UTC" (`protocol_nmea.cpp:659`; `TimeArrives` leaves out `WeekBegins`).  A latitude or
longitude between -1 and 0 degrees loses its sign on reading (`Near`); reading GGA adds
status bits to those there are; a time-only fix is read as none; the time of week of
RMC lacks the leap seconds; and PGPSP sets a velocity without the flag of its frame.
`getNmeaMsgId` does not know every name that is printed (`Recognised`), so the commands
of the model have names and ids it knows.  Signals that share a letter of GSV come back
as one of them (`Told`).  The loops of `nmea_gsv_group` go one entry past both of its lists
(`protocol_nmea.cpp:1295`, 1300), as `Group` does: where an earlier, larger sky left a signal of the
kind, a line has one satellite more than it announces, and `nmea_parse_gsv` takes the number
of that one for the signal of all of them (l. 2606; `SignalsNamed`).

*Firmware update.*  The manager thread is started while the main thread may not
have set `m_continue_update` yet, in which case it ends at once and
the loop runs to its limit of minutes instead of "3 seconds of no threads active"
(`ISBootloaderThread.cpp:906`); time-outs leave threads running on contexts that are
deleted; a thread whose open failed never leaves its port;
`mgmt_thread_libusb` leaves a loop with `m_ctx_mutex` locked (l. 77-82, not reached
through `BootloadFile`); the padding at a record's gap compares bytes with
characters (`ISBootloaderISB.cpp:826`), and a remainder longer than a message at a
page's end refuses a valid file; a file without an end record, or
with an empty line, is reported as written; the DFU writer drops the last byte of
a section of 2048 n + 1 bytes, and records with a wrong checksum are skipped
(`ihex.c`).  A bootloader before version 6 does not say whether it is that of an EVB-2 or
of a uINS-3, and either takes the other's application (`ISBootloaderISB.cpp:146`); one from
version 6 has none, because a bootloader that replaces an older one erases the place where
the application began.  An answer that cannot be read makes `get_device_info` return 0, which
is `IS_OP_OK` (`ISBootloaderISB.cpp:262`), and the application is written at an offset that was
never set: `"misplaced"` in `DeviceImages`.  `mode_device_isb` says "Firmware for a device must
be specified to update its bootloader" (`ISBootloaderBase.cpp:367`) over conditions of which that
half is commented out: the bootloader is replaced, and its application erased, with a file that
has none for the device.  `ContextsUnused` and `NothingErased` therefore speak of updates that end by
themselves, and `ImagesWritten` of files outside these cases; the modules state each
exclusion where the property is defined.  An update thread that ends with
`IS_OP_ERROR` is taken to have met an "Other device" (`ISBootloaderThread.cpp:288`) and gives up its port for
good, but the result is the same for a device that was erased, whose write failed and which does not
answer the next thread (`ISBootloaderBase.cpp:596-603`; `OtherDevice`): it stays erased, and the update
ends as if nothing was left to do.

*Driver's observations.*  Every observation renews `last_obs_time_`
(`inertial_sense_node.cpp:563`), so a stream whose observations are never more than 10 ms apart is
gathered and never published; `ObsPublished` says of the others, in which longer pauses
come again and again, that what waits is published.

*Base.*  A base whose server starts returns from `configure_rtk` (l. 323-328) before the RTK bits are
compared, so the device serves with those that it had.  `Configured` says so.

*Parser.*  Behind the first byte of a broken binary packet everything is taken for its
contents until an end byte comes or the buffer is full (`ISComm.c:522-528`, 607-614), packets of the
other protocols as well; so no number of bytes of these brings the parser back into step, and
`Resynchronised` speaks of binary packets.  A packet longer than two thirds of the buffer may be
thrown away with it; `KeepsStep` is about shorter ones.

Deadlock is not checked: a node may
end (Ctrl-C, a finished mission, `q`), and the bounds on messages, packets and
threads of the SDK's runs are reached.

## 4. Fairness

* Timers: rclpy fires a repeating timer for as long as the process spins, so the
  control timers are weakly fair.  The clock of a closed-loop model is too.
* Odometry in the closed-loop models: publishers publish periodically, and a
  message is delivered in the end.  `WaypointFollower` assumes nothing of
  odometry.
* `NtripProxy`: threads are scheduled (weak fairness of each thread's steps);
  the client reads what it is sent; the caster accepts a connection in the end
  and goes on sending on a connection it does not drop.  The last assumption is
  about the caster, not the code: `recv` has no timeout (`ntrip_proxy.py:99`),
  and on a silent connection the session would not end.  The lock is not
  assumed fair between the threads.
* `InsDriver`: a process that sleeps between a write and a reset goes on, unless it
  is killed.  `DriverTopics`: time passes, and the timer of the bundles is strongly fair.  It has
  to be, as an observation ends the pause in which it would publish: `main` turns a
  thousand times a second, and every turn runs the 1 ms wall timer before it reads
  messages (`inertial_sense_node.cpp:217-219`, 936-942), so of pauses that come again and again it
  finds one.  That they come is no fairness but the condition of `ObsPublished`.
* SDK communication: `comManagerStep` is called for ever, as `Update` of the client does;
  ports transmit what is in their buffers; a link that loses lets some of what is
  sent again and again pass (strong fairness per packet); bytes that arrived are read.
* SDK client: the same of its links and its device; the logger thread is
  scheduled, and the query of opened ports runs out of time.
* Firmware: the main thread's timers run out and the manager thread is scheduled.
  Nothing is assumed of the serial and USB threads, which may hang in a read.
* Ctrl-C, lost clients, dropped streams, crashes and cancellation are never assumed
  to happen.

## 5. Proofs

Every theorem holds for all values of the constants that satisfy the assumption
named with it; TLC evaluates each assumption on the instance of its run.  But for
those of the closed loops, which are about the speed and the sensing of a rover that
such programs can steer at all, the assumptions bound nothing: they give the
constants their types and say what the
code does of them (a table with at least one slot, a port 0, data sets with
sizes).  A theorem about a specification with fairness makes no use of it.

**`WaypointFollower`** (`WaypointFollowerProofs`, `FollowerAssumption`: any poses,
number of waypoints, geometry, brake length, timeout and delays).

* `TypeCorrect`: `Spec => []TypeOK`.
* `BrakingSafe`: `Spec => []BrakedBeforeTurn`.  The property is not inductive:
  it says nothing of states in which the node is about to turn.  `BrakeInv` adds
  that while braking the stops sent and the cycles left make up
  BRAKE_CYCLES, and that a node that turns without braking has sent them all.
  `TypesAndBraking` proves `BrakesSafely`, their conjunction with the types, inductive, action by action.
* `PidsFresh`: `Spec => []PidFresh`, from the type invariant.
* `FrozenSafe`: `Spec => []FrozenMeansStopped`.  `FrozenInv` relates how long odometry
  has been frozen to what the node can still credit as progress: one period for each
  waypoint behind the rover, none while the anchor is apart from the pose, and else
  a period more than the stuck timer shows.  Each way through the control loop gives
  up one of these or stops; only `loop` gives waypoints back, which is why the
  promise fails with it (run `follower_frozen`).
* `Refinement`: `Spec => Abstract!MissionSpec`, step by step: each way through the
  control loop is an Order, Reach, Restart, Complete, Abort or stutter of
  `Mission`.

**`PIDController`** (in `WaypointFollowerProofs`; `PIDAssumption`: any gains, limits around 0, errors and periods).
The clamp bounds what an error accumulates, and so the time it takes the opposite error to pay it
back: `PIDInv` says that while errors stay on one side the integral has left the far
limit by at least the least error for as long as they have been there (`PaidBack`), or has come to
the near one.  After `Patience`, the limit over the least error, it has their sign (`PatienceIsEnough`), and with an
error that does not get smaller so have all three terms of the output (`PaidBackAnswers`).
`ErrorIsAnswered` is `ErrorAnswered`.

**The other programs that move the rover** (`MotionProofs`).  Each is a rover with its
sensing and the program in a closed loop, so each invariant says where the rover is
relative to what was last seen of it: what is seen is at most `age` steps of the
commanded speed behind.  Headings are on a circle, and the lemmas about it
(`BangNormHeading`, `SpinUnwrapped`, `SpinTurned`) want every turn between two looks to be less
than half of it.  This is what the assumptions ask of the constants beyond
types: a cone of disturbances narrower than a quarter of the circle
(`RoverAssumption`), turns of less than half the circle between two periods (`BangAssumption`,
`SimpleAssumption`; by default the nodes turn by 5.2 and at most 5.7 degrees in theirs) or between two
messages (`SpinAssumption`), and no more disturbances than the cone holds where nothing
steers (`MoveAssumption`).

* `BangSafe`, `SimpleSafe`: `BangInv` and `SimpleInv` are inductive.  Both say what a command
  that still moves the rover implies of the mode of the node that sent it, so
  that the next command, whichever it is, has a stop before it; `BangInv`
  relates in addition the place that is seen to the place that is, as far as odometry
  lags, and has the rover near the last waypoint between two laps.
* `BangStops`, `SimpleStops`, `BangCredits`: turning and driving are separated by
  stops; a waypoint is credited within its tolerance and what the rover went since.
* `BangIsMission`, `SimpleIsMission`: both nodes refine `Mission`.
* `MoveIsMeasured`: `StopsOnTarget`, since no message is further from the one before than
  the rover goes in the time between, and the first at or past the target stops it.
* `SpinIsCounted`: `TotalIsTrue`, as the difference of two yaws taken on the circle is
  the turn between them; no revolution is lost or invented.
* `ForwardIsTimed`: `NeverTooFar`, from what the timer that is due and the start
  time have to do with how long the rover drives.

`MotionsMeasured`, `StopsAndCreditsHold` and `MotionsAreMissions` state these of
`MCMotions`, whose behaviours are those of one of the programs.

**`NtripProxy`** (in `ProgramProofs`; `ProxyAssumption`: a finite set of mountpoints, any number of drops).
`ProxyInv` says that exactly the thread between acquire and release is in the lock,
that half a chunk on the wire has its thread at `"sending"` while the client is there,
and that threads run and own connections only while the handler waits to join them.
`ChunksWhole` and `ConnectionsSafe` (`WholeChunks` and `ConnectionsKept`) follow.

**`WaypointLogger`** (in `ProgramProofs`; `LoggerAssumption`: any places, any number of waypoints).  `LoggerInv` adds to
the file property that a snapshot with a position has the home point that is still in
force, and that a header without a home point was written over waypoints without
positions.  `FileIsRight` is `FileGivesBack`; `HomePinned` is that a home point once set
never moves, which the invariant needs between the two threads.

**`ImuNodes`** (in `ProgramProofs`; `ImuAssumption`, `YawBiasAssumption`: any rates, pushes, skews of the clock,
drifts and turns, any number of samples).  `ImuInv` says that as long as every sample was
taken at rest the samples add up to their number times the tilt, so that the
attitude that a complete buffer gives is the rover's; from then on every turn that is seen in
full adds the same to both (`Tracked`), and with the attitude right nothing is left of
the readings of a rover that is not pushed (`StaysPut`).  `YawInv` says the same of the yaw rates: their sum less the drift of as many
samples lies between the turns that were made while they were taken.

**`PoseSources`** (in `ProgramProofs`; `PoseAssumption`: any places, any fix types, a full turn of any multiple
of four).  `PoseInv`: what a node publishes differs from where the rover is by the origin it pinned and
by nothing else, and that `FacesAhead` holds: the two half circles of the sensor and of
the node cancel modulo the circle (`WholeTurns`).  Two messages of one node then differ as the rover's places do, whatever the origins.

**`WaypointExtractor`** (in `ProgramProofs`; `ExtractorAssumption`: any window, threshold and route).
`ExtractInv` says of a recording with positions of one source (`OneSource`) that the last position is
where the rover is and each one before it as many steps away as it is older, so that
the mean of a full buffer lags behind the rover by no more than the steps within a window
(`SumNear`).  A message that adds no waypoint then has the last waypoint less than the threshold from that
mean (`Covered`), and one that adds a waypoint is at least the threshold from it (`Spaced`).

`NodesLocalise` and `PosesAgree` state these of `MCPrograms`: `Localised` and `SourcesAgree`.

**`InsDriver`** (`OffsetsAssumption`: 0 is among the offsets, what `declare_parameter` gives).
`DriverInv` says for each place in the constructor which fields of the local copy, the
flash and the parameters agree when no command was lost (`Progress`), and that a device
that cannot hear a reset did not hear the write before it (`ResetDue`).  `DriverConfigures`
is `RunsConfigured`, which is `Configured` and `InEffect`: of a base whose server started
`Configured` claims the navigation rate, and of the RTK bits that they are left as they were found.

**`DriverTopics`** (`TopicsAssumption`).  The three specifications have an invariant each, and
`TopicsAreRight` is `TopicsPublished` of all three, for any number of epochs, messages,
observations and starting times.

* The `gps` topic.  `FixInv` says what week and offset the node knows (those of the last
  position, `Weeks`), that a stamp tells the epoch of its message but for whole weeks
  (`Dates`), and that as many positions can be missing as were damaged (`Recent`).  A
  velocity and a position of one stamp are then of one epoch (`PosPairs`, `VelPairs`): with
  the same time of week they would be a week apart (`SameTow`).  The second of these
  is why the assumption asks for weeks that are longer than the damage: a velocity that
  comes before its position is stamped with the week of the last one, which after a week without
  positions is the wrong one.  TLC shows the pair of two epochs as soon as the damage reaches
  `PerWeek - 1`.
* The `gps/obs` topic.  `ObsInv`: an empty vector means that the timer's time is over, and what
  waits began after a pause, so that what is published does.  That nothing is lost, repeated
  or put in another order is the lemma `FlattenAppend`: the flattening of a list with one
  more is that of the list with the one behind it.
* The stamps.  `Knows`: once a position with GPS time came, the node's week and offset add up to
  the time at which the device was started, and the offset is not 0, which the node
  takes for none.  For the latter the assumption has no device start with a week: there
  the code goes on estimating.

**`Corrections`** (`CorrectionsAssumption`: any rovers, any packets of the base's device, any number of
connections).  `CorrectionsInv` says of a connection that its wire, as it is yet to be read,
is of blocks of two units (`Blocks`): a packet, or twice the first unit of one that was cut,
and between blocks only what is left of cut ones.  A parser is between two
blocks, within one, or astray, if tail fell back or it did not start afresh (`Found`).  `G` are
the packets lost while it was astray: they are the first ones that are owed, and each takes two units of
the gap behind tail, which is where the bound `MaxBehind \div Units` of `NothingMissing` comes
from.  With the units in order (`InOrder`) a unit that is read keeps all this (`FoundKept`,
`ReadsKept`), and so do what a write brings (`FitsWrite`), what is taken off the wire (`FitsRead`) and a
new connection (`FitsNew`).  What a write can bring is `WrittenIs`: all of a packet, or first units and
stray seconds of one that is cut.  No connection is listed twice or has two rovers (`Apart`), so that
removing clients while the list is gone through changes the count by as many
(`SelectedIs`, `RemovedLen`).  `CorrectionsComeInOrder` is `CorrectionsArrive`.

**`InertialSenseClient`, the devices** (in `SdkProofs`; `DevicesAssumption`: any list of ports, any number of devices asked
for).  `DevInv`: the ports of the list of devices are those that are open, and the
manager counts the list unless a device was removed since it was told (`HandlesFollow`);
and when the query of ports is over it is told if one was.  Devices are
thinned out three times, each by its own condition, and `SelectedFrom` is what they have in common: a
selection is a sequence of elements of the list and no longer than it.
`DevicesStayTogether` is `DevicesAgree`.

`FlattenSeq`, `Selected`, `Parsed` and the `Sum` of a buffer are recursive functions, and the library's induction is out of
reach (below).  `UpTo`, `CountUp` and `CountTo` stand in for it: a set of numbers that has 0 and with each
number below a bound the next has all up to the bound, because the least number that is not in it would
follow one that is.  With the set `{n : f has n values}` this gives that the function exists,
and with another what its values are.

**`InertialSenseClient`, the log's thread** (in `SdkProofs`; no assumption: any handles, packets and sessions).  `LogInv` says that the thread
lives from the moment logging is enabled until it has read that it is not (`Lifetime`); that
the batch is used up before the thread sleeps, so that a queue may replace it, and
that a thread which leaves has taken the queue (`BatchUsedUp`); and that log, batch and
queue are together what was received.  Each step moves a packet from one of these to the next in its
place, by three lemmas on sequences (`AppendToLast`, `FirstToLog`, `BeginsWith`).
`LogInOrder` is `PacketsInOrder` (`LoggedInOrder`, `NothingLeft`).

**`DeviceImages`** (in `FirmwareProofs`; `ImagesAssumption`: any number of pages, versions, and files whose
version is at least 6 where they bring a bootloader).  `ImagesInv` adds that a pass over the
bootloader's file has summed up the pages below its offset with files that match the device,
and that old bootloaders go with old applications.  `ImagesAreSafe` is `ImagesSafe`
(`BootloaderWhole`, `ApplicationFits` and the types).

**`HexProgram`** (in `FirmwareProofs`; `HexAssumption`: any number and size of pages, any size of
messages, buffer and lines).  `HexInv` says that while lines are read the memory below the
next byte that is sent is what the file has for it and the memory from there on is
erased, that the buffer has what comes between that byte and the file's next, filled up
where the file skipped (`HexGathered`), and that the file had nothing beyond it yet.  A
data line that crosses a page's end flushes what fits, turns the page and begins again with
what is left, which `HexDataLineKeeps` follows step by step.  `HexFileWritten` is that
`ImageProgrammed` holds.

**`DfuProgram`** (in `FirmwareProofs`; `DfuAssumption`: files of one or two sections of any bytes, pages of
any size of which a section's span is a multiple, any number of attempts).  All pages are
erased before any is written, so `DfuInv` says of each page up to the command that is next
that it is erased if it is not written yet, and else has its bytes of the section: an
attempt begins from whatever the last one left (`DfuProgress`).  It needs that the
pages of the list are disjoint and cover the sections (`DfuRegions`, `DfuPages`); pages are
counted by the least number that reaches the end of a section (`DfuEnds`).
`DfuFileWritten` is that `DfuWritten` holds.

`FilesAreWritten` states both of `MCFirmware`: `ImagesWritten`.

**`ComManager`** (in `SdkProofs`).

* `SlotPerKey` (`BroadcastAssumption`): `TableSound`, that is `OneSlotPerKey` and the types.  A disabled slot
  keeps its port and data set, so `TableInv` is about enabled and disabled slots alike:
  a port and data set that was requested is in one slot.
* `TableIsSubscriptions`: `BSpec => SubscriptionsKept`, the refinement of `Subscriptions`.  A
  request takes or renews a subscription, and displaces another only where every
  slot holds one; a stop removes those it names; a step of the clock removes those that
  were to be sent once.  `TableInv` makes the slot that was found the only one.
* `ListIsClosed` (`EnsuredAssumption`): `ListSound`, no packet behind the end of the retry list and none
  in it twice, whether or not acknowledgements are dispatched.
* `RetryIsKept`: `RetryKept`, where acknowledgements are not dispatched, as is the case in
  `comManagerStepRx`.  `NeverZero` is what makes it inductive: a countdown is wound up in the
  step that ends it, so a packet never leaves the list by running out.

**`IsComm`** (in `SdkProofs`; `CommAssumption`: a buffer and reads of any size, any streams of bytes).
`CommInv` says that the buffer and the wire are runs of the stream, one before the other
(`InStream`), which holds although a full buffer is emptied or shifted under the search
(`FreedIs`, `ReadKeeps`); that a header is not counted beyond its length byte (`Counts`), without
which a length could be read as something else; and that what was handed on are pieces
of the stream that end before the head (`Handed`).  The head only goes forward in the stream, whereas the
search is set back to it (`ParseKeeps`).  `ParserHandsOnPieces` is `PiecesApart`: the pieces have
places in the stream, one behind the other, so that no byte is handed on twice and nothing is put
together from bytes that were apart; with `CTypeOK`, by which each of them passes its checks and
no byte outside the buffer is looked at.  That a piece is where a packet was
sent, that the parser stays in step on whole packets and what brings it back into step, is
`BytesKept` and stays with TLC.

**`FlashSync`** (in `SdkProofs`; `FlashAssumption`: any devices, 0 among them, any values and number of
uploads).  That client and devices come to agree is `FlashAgrees`, which is liveness and stays with
TLC.  `AgreementLasts` is its other half: once no upload is to come, client and devices agree and
nothing older is on either wire (`Settled`), no loss, delay, repetition, check of checksums or broadcast
ends that, since all that is put on a wire from then on is what the devices have.

**`RingBuffer`** (in `SdkProofs`; `RingAssumption`: any memory of two bytes or more, any lengths of
writes, reads and removals).  `RingInv` says where the queue is: its byte `k` is `k - 1` places
after the read pointer, round the end, as long as no write was split, and the pointers count it
whether one was or not.  A write is what takes the work (`WriteKeeps`): its bytes follow the last one
of the queue (`QueueGrows`), a place that is written twice keeps the later (`LatestWrite`),
and when the read pointer is moved the queue has lost as many as it has too many.
`RingHoldsQueue` is `RingKept` (`RTypeOK`, `CountsRight`, `HoldsFifo`).

**`NmeaFix`** (in `SdkProofs`; `FixAssumption`: fixes at any place, of any time in any week from the second
of GPS time to the end of 2099, any speeds, and one number of leap seconds, less than a day's).
The end is the calendar's: `epochToTime` takes every fourth year for a leap year, and 2100 is none.
The date goes two ways, through the Julian day and the calendar when it is printed and by counting the days of years
and months when it is read; that they agree (`DatePrinted`) comes from both being the one day that a year, month and
day stand for (`CalendarYears`, `DatesCount`).  The time of day and the day of the week give back the time
of week (`TimeOfDay`, `TimeOnDay`), degrees and minutes the place (`PlaceRead`), and so
every sentence its part of the fix (`FixRead`).  `FixInv` says that the line is a
sentence of the current fix (`LineKnown`), that the date is this fix's once its ZDA was
read, without which the time is not taken as known (`DateKnown`), and that the velocity that is told is the
one kept for the time of week (`ToldKept`).  `FixesComeBack` is `FixGivenBack`.

**`FirmwareUpdate`** (in `FirmwareProofs`; `UpdateAssumption`: any ports, any number of threads).  `UpdateInv` says that
of two update threads at a port one has left it to the other (`OneKeeps`); that what stays
in the list is what the update loop waits for (`ListsKept`); that a port with a finished
device has a thread that keeps it, and that a thread which keeps a port leaves it with
an application unless the port did not open or the device did not answer (`WrittenInv`); and what holds
after an update that ended by itself (`EndedIdle`).  `UpdatesAreSafe` is `UpdateSafe` (`UTypeOK`,
`ContextsUnused`, `NothingErased`); `RestartsOnlyFinished` is `RestartsFinished`.  The bound of five
threads and one port of the run is thereby no bound of the result.

Only model-checked:

* every liveness property: fairness and ENABLED are out of the prover's reach;
* what rests on induction over data that the lemmas above do not reach: folds and
  `SelectSeq`, of which the prover has no definition, over lists of any length
  (`DeviceLog`, `SortedLog`), the packets that a stream was put together from and what damage
  costs of them (`InOrder`, `KeepsStep` and `Resynchronised` of `IsComm`), the codec's sequences, the
  satellites and streams that are printed (`NmeaSentences`);
* what is true of the constants of the instance and not of all: `HeadingHeld`, whose
  gains and disturbances have to fit each other;
* and, not for a reason of principle, the modules of section 7, item 3.

## 6. Not modelled

`ImuNodes` turns about one axis by small angles, where a rotation adds its angle
and gravity shows on the other axis in proportion; the position is only known to be
or not to be where it was.  `PoseSources` has places for coordinates: the two
geodetic conversions, which differ in accuracy, are both a difference of places.

Floating-point values beyond their classes or integer units; log messages;
`_log_status` (it changes nothing); parameter parsing and YAML.  In the NMEA
modules the decimals of minutes and their rounding are left out, with the list of
satellites in GSA, the sentences GNS, PASHR, and the device's own (PIMU, PINS, PGPSP,
INFO).  In `NmeaFix` no leap second comes, and no fix is followed by one of the same time of
another week.  A satellite is listed for every signal and SBAS has L1CA only, as the receiver's
tables have it.  In `Corrections` the path back is left out (GGA sentences for a caster), as
are the contents of the driver's topics.  In `DeviceImages` a `.bin` bootloader has version 6 or
later (where an older one keeps its version is read from a file that was closed), images
that differ add up to different sums, and the module behind an EVB-2 is not there.  `SortedLog` assumes that a disk that is full stays
so, and that names sort in the order of writing.  The components
with status `not_modelled` in PROJECT.json are listed there with the reason.

## 7. Plan

1. (done) `Mission`, `WaypointFollower` and its proofs, the closed-loop followers,
   the motion scripts, the proxy, the logger, the driver's constructor and GPS
   topics; of the SDK communication, devices, configuration, logging, NMEA and firmware
   update, corrections.
2. (done) Dead reckoning, yaw bias, poses and extraction.  Left: the driver's
   services, the raw logs.
3. Proofs.  Done: section 5.  Left: the log files of `DeviceLog` and `SortedLog`, the
   satellites and streams of NMEA, and that the pieces which the parser hands on are
   packets in the places where they were sent.
