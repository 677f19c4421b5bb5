------------------------ MODULE InertialSenseClient ------------------------
(***************************************************************************)
(* Two parts of the SDK's client (class InertialSense).  The list of       *)
(* devices: serial ports are opened, queried until each device has         *)
(* answered, and dropped by their index when it has not; the communication *)
(* manager, its handles and its callbacks are set up for what is left.     *)
(* And the logger thread: the thread that reads the devices queues packets *)
(* under a lock, the logger thread takes what is queued and writes it      *)
(* outside the lock, and logging is switched off with a flag that no lock  *)
(* guards.                                                                 *)
(***************************************************************************)
EXTENDS Naturals, Sequences, SequencesExt

CONSTANTS SerialPorts, \* the ports asked for, in order
          MaxCount,    \* at most this many devices ("*4")
          MaxQueries   \* rounds of queries within the ten seconds

DevicesAssumption ==
    /\ SerialPorts \in Seq(Range(SerialPorts))
    /\ MaxCount \in Nat \ {0} /\ MaxQueries \in Nat

VARIABLES phase,       \* "closed", "query", "prune", "trim", "open"
          devices,     \* per device: its port, and what was received from it
          opened,      \* ports open in the operating system
          handles,     \* number of ports the communication manager serves
          nmea,        \* the manager hands NMEA messages to the client
          removed,     \* removedSerials
          queries      \* rounds of queries so far

dvars == <<phase, devices, opened, handles, nmea, removed, queries>>

Answers == {"info", "flash"}     \* devInfo and flashCfg
Indices == 1..Len(devices)
Responded(dev) == dev.has = Answers
AllResponded == devices # <<>> /\ \A i \in Indices : Responded(devices[i])
PortsOf(list) == {list[i].port : i \in 1..Len(list)}

\* What is left of a list when only these of its elements stay.
Selected(list, stay) ==
    LET f[i \in 0..Len(list)] ==
            IF i = 0 THEN <<>>
            ELSE IF list[i] \in stay THEN Append(f[i - 1], list[i]) ELSE f[i - 1]
    IN  f[Len(list)]

DInit ==
    /\ phase = "closed" /\ devices = <<>> /\ opened = {}
    /\ handles = 0 /\ nmea = FALSE /\ removed = FALSE /\ queries = 0

----------------------------------------------------------------------------
\* Mutant of Keep: the port of a device taken out stays open.
KeepOpen(list) == devices' = list /\ UNCHANGED opened
\* RemoveDevice closes the port and takes the device out of the list.
Keep(list) ==
    devices' = list /\ opened' = opened \ (PortsOf(devices) \ PortsOf(list))

CloseSerialPorts == Keep(<<>>) /\ phase' = "closed"

\* comManagerInit forgets the callbacks set before it.
ComManagerInit(n) == handles' = n /\ nmea' = FALSE

NewDevice(p) == [port |-> p, has |-> {}]

\* OpenSerialPorts up to the queries: what can be opened, is.
OpenSerialPorts(bad) ==
    /\ phase \in {"closed", "open"}
    /\ LET good == Selected(SerialPorts, Range(SerialPorts) \ bad)
       IN  /\ devices' = [i \in 1..Len(good) |-> NewDevice(good[i])]
           /\ opened' = (opened \ PortsOf(devices)) \cup Range(good)
           /\ handles' = Len(good)
    /\ nmea' = TRUE
    /\ removed' = FALSE /\ queries' = 0 /\ phase' = "query"

\* The manager reads the port of the i-th device through handle i, and what
\* it finds there is stored with the i-th device.
Store(list, heard) ==
    [i \in 1..Len(list) |->
        [list[i] EXCEPT !.has = @ \cup {a \in Answers :
                                i <= handles /\ <<list[i].port, a>> \in heard}]]

\* One round: ports in a bad state are dropped, the others are asked, and
\* some of them answer.
Query(bad, heard) ==
    /\ phase = "query" /\ ~AllResponded /\ queries < MaxQueries
    /\ LET left == Selected(devices, {dev \in Range(devices) : dev.port \notin bad})
       IN  /\ devices' = Store(left, heard)
           /\ opened' = opened \ (PortsOf(devices) \ PortsOf(left))
           /\ removed' = (removed \/ left # devices)
    /\ queries' = queries + 1
    /\ UNCHANGED <<phase, handles, nmea>>

\* Mutant of QueryEnds: without a limit of time.
QueryEndsAnswered ==
    /\ phase = "query" /\ AllResponded /\ phase' = "prune"
    /\ UNCHANGED <<devices, opened, handles, nmea, removed, queries>>

QueryEnds ==
    /\ phase = "query"
    /\ AllResponded \/ queries = MaxQueries
    /\ phase' = "prune"
    /\ UNCHANGED <<devices, opened, handles, nmea, removed, queries>>

\* The indices removed from the end: after a removal the next one is skipped.
Pruned ==
    LET f[i \in 0..Len(devices)] ==
            IF i = 0 THEN {}
            ELSE IF Responded(devices[i]) THEN f[i - 1]
            ELSE {i} \cup (IF i = 1 THEN {} ELSE f[i - 2])
    IN  f[Len(devices)]

Prune ==
    /\ phase = "prune"
    /\ LET left == Selected(devices, Range(devices) \ {devices[i] : i \in Pruned})
       IN  /\ Keep(left)
           /\ removed' = (removed \/ left # devices)
           /\ phase' = IF left = <<>> THEN "closed" ELSE "trim"
    /\ UNCHANGED <<handles, nmea, queries>>

\* Mutant of Trim: the manager keeps the handles it had.
TrimWithoutInit ==
    /\ phase = "trim"
    /\ Keep(SubSeq(devices, 1, IF Len(devices) < MaxCount THEN Len(devices) ELSE MaxCount))
    /\ phase' = "open"
    /\ UNCHANGED <<removed, queries, handles, nmea>>

\* Down to maxCount, and the manager is set up again if a device was removed.
Trim ==
    /\ phase = "trim"
    /\ LET left == SubSeq(devices, 1, IF Len(devices) < MaxCount THEN Len(devices) ELSE MaxCount)
       IN  /\ Keep(left)
           /\ IF removed \/ left # devices THEN ComManagerInit(Len(left))
              ELSE UNCHANGED <<handles, nmea>>
    /\ phase' = "open"
    /\ UNCHANGED <<removed, queries>>

----------------------------------------------------------------------------
\* In use: data of some devices arrives, or a port is found closed (its cable
\* was pulled), on which Update closes all of them.
Update(heard) ==
    /\ phase = "open"
    /\ devices' = Store(devices, heard)
    /\ UNCHANGED <<phase, opened, handles, nmea, removed, queries>>

PortLost(p) ==
    /\ phase = "open" /\ p \in opened
    /\ devices' = <<>> /\ opened' = opened \ PortsOf(devices)
    /\ phase' = "closed"
    /\ UNCHANGED <<handles, nmea, removed, queries>>

Close ==
    /\ phase = "open"
    /\ CloseSerialPorts
    /\ UNCHANGED <<handles, nmea, removed, queries>>

Heard == SUBSET (Range(SerialPorts) \X Answers)

DNext ==
    \/ \E bad \in SUBSET Range(SerialPorts) : OpenSerialPorts(bad)
    \/ \E bad \in SUBSET Range(SerialPorts), heard \in Heard : Query(bad, heard)
    \/ QueryEnds \/ Prune \/ Trim \/ Close
    \/ \E heard \in Heard : Update(heard)
    \/ \E p \in Range(SerialPorts) : PortLost(p)

DFairness == WF_dvars(QueryEnds) /\ WF_dvars(Prune) /\ WF_dvars(Trim)
                /\ WF_dvars(\E heard \in Heard : Query({}, heard))
DSpec == DInit /\ [][DNext]_dvars /\ DFairness

----------------------------------------------------------------------------
DTypeOK ==
    /\ phase \in {"closed", "query", "prune", "trim", "open"}
    /\ \A i \in Indices : devices[i].port \in Range(SerialPorts) /\ devices[i].has \subseteq Answers
    /\ opened \subseteq Range(SerialPorts) /\ handles \in 0..Len(SerialPorts)
    /\ queries \in 0..MaxQueries

\* Through removals, failed opens and lost ports, the ports held open are those
\* of the devices in the list, so that none is lost to other programs.
NoLostPort == opened = PortsOf(devices)

\* An index means the same device to the manager and to the client: one that
\* is open serves every device in the list, and no more than were asked for.
HandlesAgree == phase = "open" => handles = Len(devices) /\ Len(devices) \in 1..MaxCount

\* The manager, the client and the operating system have the same devices.
DevicesAgree == DTypeOK /\ NoLostPort /\ HandlesAgree

\* Opening ends: with a device, or closed.
OpenEnds == phase = "query" ~> phase \in {"open", "closed"}

\* What the comments say and the code does not do: "remove each failed device
\* where communications were not received".
AllAnswered == phase = "open" => AllResponded

\* NMEA messages reach the client for as long as it is open.
NmeaHandled == phase = "open" => nmea

----------------------------------------------------------------------------
(* The logger thread                                                       *)

CONSTANTS Handles,     \* handles of the devices
          MaxPackets,  \* bound on the packets received, which it numbers
          MaxSessions  \* bound on the times logging is enabled

VARIABLES enabled,     \* m_logger.Enabled()
          caller,      \* SetLoggerEnabled: "idle" or "joining" the thread
          thread,      \* "none", "sleep", "log", "update", "ended"
          running,     \* the thread's own copy of enabled
          logPackets,  \* m_logPackets: queued, per handle
          packets,     \* the thread's batch, per handle
          logged,      \* what LogData was given and took, per handle
          received,    \* packets since logging was enabled, per handle
          count, sessions

lvars == <<enabled, caller, thread, running, logPackets, packets, logged,
           received, count, sessions>>

Nothing == [h \in Handles |-> <<>>]

LInit ==
    /\ enabled = FALSE /\ caller = "idle" /\ thread = "none" /\ running = FALSE
    /\ logPackets = Nothing /\ packets = Nothing
    /\ logged = Nothing /\ received = Nothing
    /\ count = 0 /\ sessions = 0

----------------------------------------------------------------------------
(* The thread that uses the client                                         *)

EnableLogging ==
    /\ caller = "idle" /\ thread = "none" /\ sessions < MaxSessions
    /\ sessions' = sessions + 1
    /\ enabled' = TRUE
    /\ thread' = "sleep" /\ running' = TRUE /\ packets' = Nothing
    /\ logged' = Nothing /\ received' = Nothing      \* a new log
    /\ UNCHANGED <<caller, logPackets, count>>

\* A packet of one device arrives.
StepLogger(h) ==
    /\ caller = "idle" /\ count < MaxPackets
    /\ count' = count + 1
    /\ IF enabled
       THEN /\ logPackets' = [logPackets EXCEPT ![h] = Append(@, count')]
            /\ received' = [received EXCEPT ![h] = Append(@, count')]
       ELSE UNCHANGED <<logPackets, received>>
    /\ UNCHANGED <<enabled, caller, thread, running, packets, logged, sessions>>

\* The flag is cleared without the lock; the files are closed after the join.
DisableLogging ==
    /\ caller = "idle" /\ enabled
    /\ enabled' = FALSE /\ caller' = "joining"
    /\ UNCHANGED <<thread, running, logPackets, packets, logged, received, count, sessions>>

Joined ==
    /\ caller = "joining" /\ thread = "ended"
    /\ caller' = "idle" /\ thread' = "none"
    /\ UNCHANGED <<enabled, running, logPackets, packets, logged, received, count, sessions>>

----------------------------------------------------------------------------
(* LoggerThread                                                            *)

\* Mutant of TakePackets: the queue is not cleared.
TakeAndKeep ==
    /\ thread = "sleep"
    /\ packets' = [h \in Handles |-> IF logPackets[h] # <<>> THEN logPackets[h] ELSE packets[h]]
    /\ running' = enabled
    /\ thread' = IF enabled THEN "log" ELSE "update"
    /\ UNCHANGED <<enabled, caller, logPackets, logged, received, count, sessions>>

\* After its sleep, under the lock: a queue that holds packets replaces the
\* batch of its handle, and the flag is read.
TakePackets ==
    /\ thread = "sleep"
    /\ packets' = [h \in Handles |-> IF logPackets[h] # <<>> THEN logPackets[h] ELSE packets[h]]
    /\ logPackets' = Nothing
    /\ running' = enabled
    /\ thread' = IF enabled THEN "log" ELSE "update"
    /\ UNCHANGED <<enabled, caller, logged, received, count, sessions>>

\* One packet, of the lowest handle that has any.  LogData refuses it once
\* logging is disabled, and the thread goes on to the next.
LogPacket ==
    /\ thread = "log"
    /\ \E h \in Handles :
        /\ packets[h] # <<>> /\ \A g \in Handles : g < h => packets[g] = <<>>
        /\ logged' = IF enabled THEN [logged EXCEPT ![h] = Append(@, Head(packets[h]))]
                     ELSE logged
        /\ packets' = [packets EXCEPT ![h] = Tail(@)]
    /\ UNCHANGED <<enabled, caller, thread, running, logPackets, received, count, sessions>>

BatchLogged ==
    /\ thread = "log" /\ packets = Nothing
    /\ thread' = "update"
    /\ UNCHANGED <<enabled, caller, running, logPackets, packets, logged, received, count, sessions>>

\* Mutant of UpdateLogger: the thread is left running once it is started.
UpdateForever ==
    /\ thread = "update"
    /\ thread' = "sleep"
    /\ UNCHANGED <<enabled, caller, running, logPackets, packets, logged, received, count, sessions>>

\* m_logger.Update(), and the loop's condition.
UpdateLogger ==
    /\ thread = "update"
    /\ thread' = IF running THEN "sleep" ELSE "ended"
    /\ UNCHANGED <<enabled, caller, running, logPackets, packets, logged, received, count, sessions>>

LoggerThread == TakePackets \/ LogPacket \/ BatchLogged \/ UpdateLogger

LNext == EnableLogging \/ DisableLogging \/ Joined \/ LoggerThread
            \/ \E h \in Handles : StepLogger(h)

\* The operating system runs the thread, and ends a join whose thread ended.
LFairness == WF_lvars(LoggerThread) /\ WF_lvars(Joined)
LSpec == LInit /\ [][LNext]_lvars /\ LFairness

----------------------------------------------------------------------------
\* A handle's packets reach the log once each and in the order they came in,
\* across the queue, the batch and the log; as long as logging is enabled
\* none is missing, and after that what is missing is the end.
LoggedInOrder ==
    \A h \in Handles :
        /\ enabled => received[h] = logged[h] \o packets[h] \o logPackets[h]
        /\ \E n \in 0..Len(received[h]) : logged[h] = SubSeq(received[h], 1, n)

\* Between sessions nothing is left over for the next log to begin with.
NothingLeft == thread \in {"none", "ended"} => logPackets = Nothing

PacketsInOrder == LoggedInOrder /\ NothingLeft

\* A packet is written to the log, unless logging is disabled first.
WrittenUnlessDisabled ==
    \A h \in Handles, p \in 1..MaxPackets :
        (\E i \in 1..Len(logPackets[h]) : logPackets[h][i] = p)
            ~> (~enabled \/ \E i \in 1..Len(logged[h]) : logged[h][i] = p)

\* DisableLogging returns: the thread it joins ends.
DisableReturns == caller = "joining" ~> caller = "idle"

\* What the code does not do: "shutdown logger gracefully", with the packets
\* that were queued when logging was disabled in the log.
GracefulShutdown == caller = "idle" /\ thread = "none" => logged = received
=============================================================================
