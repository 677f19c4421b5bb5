--------------------------- MODULE FirmwareUpdate ---------------------------
(***************************************************************************)
(* The threads of a firmware update (InertialSense::BootloadFile,          *)
(* ISBootloaderThread.cpp): the main thread starts a thread per serial     *)
(* port to put devices in the bootloader, to look at the bootloader, to    *)
(* put devices in the ROM where the bootloader is old, and to write, waits *)
(* for each kind with a limit of time, and restarts what it has updated.   *)
(* A manager thread does the same for a device on USB.  m_serial_threads   *)
(* and m_libusb_threads are read and written under their mutexes.          *)
(***************************************************************************)
EXTENDS Naturals, Sequences

CONSTANTS Ports,       \* the serial ports selected
          MaxThreads   \* bound on the serial threads started

UpdateAssumption == MaxThreads \in Nat

VARIABLES phase,       \* of the main thread
          threads,     \* the serial threads: m_serial_threads, and those that
                       \* are no longer listed but still run
          mode,        \* what the device at a port runs: "APP", "ISB", "ROM"
          app,         \* its application: "old", "none" (erased), "new"
          outdated,    \* ports whose device gets a new bootloader
          finished,    \* ctx with m_finished_flash, by port
          mgmt,        \* mgmt_thread_libusb: "none", "start", "loop", "ended"
          usb,         \* the USB device: "absent", "present", "running", "done"
          usbActive,   \* m_libusb_devicesActive
          continue,    \* m_continue_update
          cancelled,   \* the progress callback returns IS_OP_CANCELLED
          ending,      \* why the update loop ended: "", "idle", "timeout", "cancel"
          missed,      \* ports away at the end, on which an open failed, or
                       \* whose device did not answer an update thread
          started      \* serial threads started

uvars == <<phase, threads, mode, app, outdated, finished, mgmt, usb, usbActive,
           continue, cancelled, ending, missed, started>>

Spawning == {"app", "version", "isb", "update"}
JoinOf == [app |-> "joinApp", version |-> "joinVersion", isb |-> "joinIsb"]
Listed == {i \in 1..Len(threads) : threads[i].listed}
Holds(p) == \E i \in 1..Len(threads) :
                threads[i].port = p /\ threads[i].pc \in {"using", "writing", "closing"}
Done(i) == threads[i].pc = "done"
AllDone == \A i \in Listed : Done(i)

UInit ==
    /\ phase = "idle" /\ threads = <<>> /\ started = 0
    /\ mode \in [Ports -> {"APP", "ISB", "ROM"}] /\ app = [p \in Ports |-> "old"]
    /\ outdated \in SUBSET Ports
    /\ finished = {} /\ mgmt = "none" /\ usb \in {"absent", "present"} /\ usbActive = 0
    /\ continue = FALSE /\ cancelled = FALSE /\ ending = "" /\ missed = {}

----------------------------------------------------------------------------
(* The main thread                                                         *)

\* m_serial_threads.clear(): those that still run go on, off the list.
ClearThreads == threads' = [i \in 1..Len(threads) |-> [threads[i] EXCEPT !.listed = FALSE]]

BootloadFile ==
    /\ phase = "idle" /\ ending = ""
    /\ phase' = "app" /\ continue' = TRUE /\ finished' = {}
    /\ ClearThreads
    /\ UNCHANGED <<mode, app, outdated, mgmt, usb, usbActive, cancelled, ending, missed, started>>

Cancel ==
    /\ phase # "idle" /\ ~cancelled /\ cancelled' = TRUE
    /\ UNCHANGED <<phase, threads, mode, app, outdated, finished, mgmt, usb, usbActive,
                   continue, ending, missed, started>>

\* A port has a thread that runs or that does not leave the port for another.
Found(p) ==
    \E i \in Listed :
        /\ threads[i].port = p
        /\ phase = "isb" \/ ~Done(i) \/ ~threads[i].reuse

Spawn(p) ==
    /\ phase \in Spawning /\ continue /\ ~Found(p) /\ started < MaxThreads
    /\ threads' = Append(threads, [port |-> p, kind |-> phase, pc |-> "start",
                                   reuse |-> FALSE, listed |-> TRUE])
    /\ started' = started + 1
    /\ UNCHANGED <<phase, mode, app, outdated, finished, mgmt, usb, usbActive,
                   continue, cancelled, ending, missed>>

\* After some seconds, or when cancelled.
SpawningEnds ==
    /\ phase \in {"app", "version", "isb"}
    /\ phase' = JoinOf[phase]
    /\ UNCHANGED <<threads, mode, app, outdated, finished, mgmt, usb, usbActive,
                   continue, cancelled, ending, missed, started>>

\* "Join and free all mode threads", or those that are done in time; when
\* cancelled, each kind of thread is the last.
JoinEnds(join, next) ==
    /\ phase = join
    /\ IF cancelled THEN phase' = "idle" /\ ending' = "cancel" /\ continue' = FALSE
       ELSE phase' = next /\ continue' = (next # "start") /\ UNCHANGED ending
    /\ UNCHANGED <<mode, app, outdated, finished, usb, usbActive, cancelled, missed, started>>

JoinApp ==
    /\ JoinEnds("joinApp", "version") /\ UNCHANGED mgmt
    /\ IF cancelled THEN ClearThreads ELSE UNCHANGED threads

\* update empties the list of threads before it looks.
JoinVersion == JoinEnds("joinVersion", "isb") /\ ClearThreads /\ UNCHANGED mgmt

\* The manager thread is created next.
JoinIsb ==
    /\ JoinEnds("joinIsb", "start") /\ UNCHANGED threads
    /\ mgmt' = IF cancelled THEN mgmt ELSE "start"

\* The manager thread is started before the flag is set that it runs by.
SetContinue ==
    /\ phase = "start" /\ phase' = "update" /\ continue' = TRUE
    /\ UNCHANGED <<threads, mode, app, outdated, finished, mgmt, usb, usbActive,
                   cancelled, ending, missed, started>>

\* Mutant of NoneActive: the threads at serial ports are not counted.
UsbInactive == usbActive = 0
NoneActive == AllDone /\ usbActive = 0

\* The update loop ends with three seconds without activity, in which the
\* manager has come to list its devices; after a limit of minutes; or by
\* cancelling.  Ports that are not taken up are not there.
UpdateEnds(why) ==
    /\ phase = "update"
    /\ CASE why = "idle" -> NoneActive /\ mgmt # "start"
         [] why = "timeout" -> TRUE
         [] why = "cancel" -> cancelled
    /\ phase' = "stop" /\ continue' = FALSE /\ ending' = why
    /\ missed' = missed \cup {p \in Ports : ~Found(p)}
    /\ UNCHANGED <<threads, mode, app, outdated, finished, mgmt, usb, usbActive, cancelled, started>>

\* The manager has been joined.
Reset ==
    /\ phase = "stop" /\ mgmt = "ended" /\ phase' = IF cancelled THEN "idle" ELSE "reset"
    /\ UNCHANGED <<threads, mode, app, outdated, finished, mgmt, usb, usbActive,
                   continue, cancelled, ending, missed, started>>

\* Devices are restarted at the ports that open, and the contexts deleted.
RebootUp(opens) ==
    /\ phase = "reset" /\ phase' = "idle"
    /\ \A p \in opens : ~Holds(p)
    /\ mode' = [p \in Ports |-> IF p \in finished \cap opens THEN "APP" ELSE mode[p]]
    /\ finished' = {}
    /\ UNCHANGED <<threads, app, outdated, mgmt, usb, usbActive, continue, cancelled,
                   ending, missed, started>>

----------------------------------------------------------------------------
(* The threads at serial ports                                             *)

Step(i, pc, reuse) == threads' = [threads EXCEPT ![i].pc = pc, ![i].reuse = reuse]

\* A port is opened by one thread at a time.  Where it does not open the
\* thread is done; only an update thread does not leave its port for another.
OpenPort(i) ==
    /\ threads[i].pc = "start"
    /\ \/ ~Holds(threads[i].port) /\ Step(i, "using", FALSE) /\ UNCHANGED missed
       \/ /\ Step(i, "done", threads[i].kind # "update")
          /\ missed' = IF threads[i].kind = "update" THEN missed \cup {threads[i].port} ELSE missed
    /\ UNCHANGED <<phase, mode, app, outdated, finished, mgmt, usb, usbActive,
                   continue, cancelled, ending, started>>

\* mode_device_app, get_device_isb_version and mode_device_isb, each for a
\* device in the right mode.
SetMode(i) ==
    LET p == threads[i].port
    IN  /\ threads[i].pc = "using" /\ threads[i].kind # "update"
        /\ Step(i, "closing", threads[i].kind # "app")
        /\ mode' = [mode EXCEPT ![p] =
                      IF threads[i].kind = "app" /\ @ = "APP" THEN "ISB"
                      ELSE IF threads[i].kind = "isb" /\ @ = "ISB" /\ p \in outdated THEN "ROM"
                      ELSE @]
        /\ UNCHANGED <<phase, app, outdated, finished, mgmt, usb, usbActive,
                       continue, cancelled, ending, missed, started>>

\* update_device, up to the writing, which begins with the erasing.  In APP
\* mode no answer is as it should be; in ISB and ROM it may be missing or
\* garbled (check_is_compatible), or the port not open again at its baud rate.
\* That is IS_OP_ERROR, and the port is not left to another thread.
Identify(i) ==
    LET p == threads[i].port
    IN  /\ threads[i].pc = "using" /\ threads[i].kind = "update"
        /\ \/ /\ mode[p] # "APP" /\ Step(i, "writing", FALSE)
              /\ app' = [app EXCEPT ![p] = IF mode[p] = "ISB" THEN "none" ELSE @]
              /\ UNCHANGED missed
           \/ /\ Step(i, "closing", FALSE) /\ UNCHANGED app
              /\ missed' = IF mode[p] = "APP" THEN missed ELSE missed \cup {p}
        /\ UNCHANGED <<phase, mode, outdated, finished, mgmt, usb, usbActive,
                       continue, cancelled, ending, started>>

\* Mutant of Write: after a failure the port is not left for another thread.
WriteOnce(i, works) ==
    LET p == threads[i].port
    IN  /\ threads[i].pc = "writing"
        /\ Step(i, "closing", works /\ mode[p] = "ROM")
        /\ mode' = [mode EXCEPT ![p] = IF works THEN "ISB" ELSE @]
        /\ outdated' = IF works /\ mode[p] = "ROM" THEN outdated \ {p} ELSE outdated
        /\ app' = [app EXCEPT ![p] = IF works /\ mode[p] = "ISB" THEN "new" ELSE @]
        /\ finished' = IF works /\ mode[p] = "ISB" THEN finished \cup {p} ELSE finished
        /\ UNCHANGED <<phase, mgmt, usb, usbActive, continue, cancelled, ending, missed, started>>

\* Mutant of Write: a port is left to another thread after every write.
WriteAgain(i, works) ==
    LET p == threads[i].port
    IN  /\ threads[i].pc = "writing"
        /\ Step(i, "closing", TRUE)
        /\ mode' = [mode EXCEPT ![p] = IF works THEN "ISB" ELSE @]
        /\ outdated' = IF works /\ mode[p] = "ROM" THEN outdated \ {p} ELSE outdated
        /\ app' = [app EXCEPT ![p] = IF works /\ mode[p] = "ISB" THEN "new" ELSE @]
        /\ finished' = IF works /\ mode[p] = "ISB" THEN finished \cup {p} ELSE finished
        /\ UNCHANGED <<phase, mgmt, usb, usbActive, continue, cancelled, ending, missed, started>>

\* In the ROM the bootloader is written, after which (IS_OP_CLOSED) the port is
\* left to a thread that writes the application; so it is after a failure.
Write(i, works) ==
    LET p == threads[i].port
    IN  /\ threads[i].pc = "writing"
        /\ Step(i, "closing", ~(works /\ mode[p] = "ISB"))
        /\ mode' = [mode EXCEPT ![p] = IF works THEN "ISB" ELSE @]
        /\ outdated' = IF works /\ mode[p] = "ROM" THEN outdated \ {p} ELSE outdated
        /\ app' = [app EXCEPT ![p] = IF works /\ mode[p] = "ISB" THEN "new" ELSE @]
        /\ finished' = IF works /\ mode[p] = "ISB" THEN finished \cup {p} ELSE finished
        /\ UNCHANGED <<phase, mgmt, usb, usbActive, continue, cancelled, ending, missed, started>>

ClosePort(i) ==
    /\ threads[i].pc = "closing" /\ Step(i, "done", threads[i].reuse)
    /\ UNCHANGED <<phase, mode, app, outdated, finished, mgmt, usb, usbActive,
                   continue, cancelled, ending, missed, started>>

----------------------------------------------------------------------------
(* The manager thread and its device                                       *)

ListDevices ==
    /\ mgmt = "start" /\ mgmt' = "loop"
    /\ usb' = IF usb = "present" THEN "running" ELSE usb
    /\ usbActive' = IF usb = "present" THEN 1 ELSE usbActive
    /\ UNCHANGED <<phase, threads, mode, app, outdated, finished, continue, cancelled,
                   ending, missed, started>>

\* Mutant of Watch: it waits for its devices to be done.
WatchUntilDone ==
    /\ mgmt = "loop"
    /\ IF continue \/ usb = "running"
       THEN usbActive' = (IF usb = "running" THEN 1 ELSE 0) /\ UNCHANGED mgmt
       ELSE mgmt' = "ended" /\ UNCHANGED usbActive
    /\ UNCHANGED <<phase, threads, mode, app, outdated, finished, usb, continue, cancelled,
                   ending, missed, started>>

Watch ==
    /\ mgmt = "loop"
    /\ IF continue THEN usbActive' = (IF usb = "running" THEN 1 ELSE 0) /\ UNCHANGED mgmt
       ELSE mgmt' = "ended" /\ UNCHANGED usbActive
    /\ UNCHANGED <<phase, threads, mode, app, outdated, finished, usb, continue, cancelled,
                   ending, missed, started>>

UpdateUsb ==
    /\ usb = "running" /\ usb' = "done"
    /\ UNCHANGED <<phase, threads, mode, app, outdated, finished, mgmt, usbActive, continue,
                   cancelled, ending, missed, started>>

----------------------------------------------------------------------------
Main == BootloadFile \/ SpawningEnds \/ JoinApp \/ JoinVersion \/ JoinIsb \/ SetContinue \/ Reset
            \/ \E why \in {"idle", "timeout", "cancel"} : UpdateEnds(why)
            \/ \E opens \in SUBSET Ports : RebootUp(opens)
Thread(i) == OpenPort(i) \/ SetMode(i) \/ Identify(i) \/ ClosePort(i)
                \/ \E works \in BOOLEAN : Write(i, works)
UNext ==
    \/ Main \/ Cancel \/ ListDevices \/ Watch \/ UpdateUsb
    \/ \E p \in Ports : Spawn(p)
    \/ \E i \in 1..Len(threads) : Thread(i)

\* The main thread's timers run out, and the manager is scheduled.
UFairness == WF_uvars(Main) /\ WF_uvars(ListDevices) /\ WF_uvars(Watch)
USpec == UInit /\ [][UNext]_uvars /\ UFairness

----------------------------------------------------------------------------
UTypeOK ==
    /\ phase \in Spawning \cup {"idle", "joinApp", "joinVersion", "joinIsb", "start", "stop", "reset"}
    /\ started \in 0..MaxThreads /\ finished \subseteq Ports /\ usbActive \in 0..1

\* Contexts are deleted and devices restarted when no thread of the update
\* is at work, except when the update ran into its limit of time.
ContextsUnused ==
    phase = "reset" /\ ending = "idle" =>
        /\ AllDone /\ usb # "running"
        /\ \A i \in 1..Len(threads) : threads[i].kind = "update" => Done(i)

\* An update that ends by itself leaves no device without an application: what
\* was erased is written, if by another thread, unless its port was away, did
\* not open or did not answer when it was taken up again (OtherDevice).
NothingErased ==
    phase \in {"reset", "idle"} /\ ending = "idle" =>
        \A p \in Ports : app[p] = "none" => p \in missed

\* Only a device whose application was written anew is restarted.
OnlyFinishedRestarted ==
    phase = "reset" /\ phase' = "idle" => \A p \in Ports :
        mode'[p] # mode[p] => app[p] = "new" /\ mode'[p] = "APP"
RestartsFinished == [][OnlyFinishedRestarted]_uvars

UpdateSafe == UTypeOK /\ ContextsUnused /\ NothingErased

\* The call returns.
BootloadReturns == phase # "idle" ~> phase = "idle"

\* What the code does not do: "(IS_OP_ERROR usually) // Other device", that is,
\* where an update thread gives up its port for good without having written,
\* the device is not one that the update has erased.
OtherDevice ==
    \A i \in 1..Len(threads) :
        threads[i].kind = "update" /\ threads[i].pc = "closing" /\ ~threads[i].reuse =>
            app[threads[i].port] # "none"
=============================================================================
