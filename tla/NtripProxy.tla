----------------------------- MODULE NtripProxy -----------------------------
(***************************************************************************)
(* One session of ntrip_proxy: a handler thread for the client (the        *)
(* InertialSense node), one forwarding thread per mountpoint of the NTRIP  *)
(* caster, and for every connection to the caster a GGA thread that keeps  *)
(* it alive.  The threads share the client's socket, a lock and a stop     *)
(* event.  Sessions share nothing but finished threads, so one is enough;  *)
(* it may be followed by another.                                          *)
(*                                                                         *)
(* A chunk leaves sendall in two parts, so that another thread may run     *)
(* between them.  The caster may fail or close a connection at any time.   *)
(***************************************************************************)
EXTENDS Naturals, FiniteSets

CONSTANTS Mountpoint,
          MaxDrops      \* how often the caster drops a stream in a session

ProxyAssumption ==
    /\ IsFiniteSet(Mountpoint) /\ Mountpoint # {}
    /\ MaxDrops \in Nat

VARIABLES
    client,    \* the peer: "absent", "here" or "gone"
    handler,   \* handle_client: "idle", "handshake" or "joining"
    stop,      \* stop_event
    lock,      \* who holds the lock: a subset of Mountpoint
    pc,        \* where each forwarding thread is
    conn,      \* ntrip_sock of each: "none", "ok" or "broken"
    gga,       \* the GGA thread of the current connection runs
    stale,     \* GGA threads of earlier connections still asleep
    drops,     \* drops of each stream still to come
    partial    \* mountpoints of which half a chunk is on the wire

pvars == <<client, handler, stop, lock, pc, conn, gga, stale, drops, partial>>
shared == <<client, handler, drops>>

Positions == {"off", "check", "connect", "test", "recv", "acquire", "send",
          "sending", "close", "done"}

PInit ==
    /\ client = "absent" /\ handler = "idle" /\ stop = FALSE
    /\ lock = {} /\ partial = {}
    /\ pc = [m \in Mountpoint |-> "off"]
    /\ conn = [m \in Mountpoint |-> "none"]
    /\ gga = [m \in Mountpoint |-> FALSE]
    /\ stale = [m \in Mountpoint |-> 0]
    /\ drops = [m \in Mountpoint |-> MaxDrops]

Goto(m, from, to) == pc[m] = from /\ pc' = [pc EXCEPT ![m] = to]

----------------------------------------------------------------------------
(* main and handle_client                                                  *)

\* Bounded: the next session starts when the sleepers of this one are gone.
Accept ==
    /\ client = "absent" /\ handler = "idle"
    /\ \A m \in Mountpoint : stale[m] = 0
    /\ client' = "here" /\ handler' = "handshake"
    /\ stop' = FALSE /\ partial' = {}
    /\ drops' = [m \in Mountpoint |-> MaxDrops]
    /\ UNCHANGED <<lock, pc, conn, gga, stale>>

\* The request is discarded, complete or not; answering a peer that has gone
\* may fail, or may not be noticed yet.
Handshake ==
    /\ handler = "handshake"
    /\ \/ /\ handler' = "joining"
          /\ pc' = [m \in Mountpoint |-> "check"]
          /\ UNCHANGED client
       \/ /\ client = "gone"
          /\ handler' = "idle" /\ client' = "absent"
          /\ UNCHANGED pc
    /\ UNCHANGED <<stop, lock, conn, gga, stale, drops, partial>>

\* The handler joins every forwarding thread before it closes the socket.
Join ==
    /\ handler = "joining" /\ \A m \in Mountpoint : pc[m] = "done"
    /\ handler' = "idle" /\ client' = "absent"
    /\ pc' = [m \in Mountpoint |-> "off"]
    /\ UNCHANGED <<stop, lock, conn, gga, stale, drops, partial>>

----------------------------------------------------------------------------
(* forward_stream                                                          *)

\* while not stop_event.is_set(), outer loop
Check(m) ==
    /\ Goto(m, "check", IF stop THEN "done" ELSE "connect")
    /\ UNCHANGED <<shared, stop, lock, conn, gga, stale, partial>>

\* Mutant of Connect: no GGA thread is started.
ConnectWithoutGga(m) ==
    /\ Goto(m, "connect", "test")
    /\ conn' = [conn EXCEPT ![m] = "ok"]
    /\ UNCHANGED <<shared, stop, lock, gga, stale, partial>>

\* ntrip_connect retries until it succeeds and never looks at the stop event.
Connect(m) ==
    /\ Goto(m, "connect", "test")
    /\ conn' = [conn EXCEPT ![m] = "ok"]
    /\ gga' = [gga EXCEPT ![m] = TRUE]
    /\ UNCHANGED <<shared, stop, lock, stale, partial>>

\* while not stop_event.is_set(), inner loop
Test(m) ==
    /\ Goto(m, "test", IF stop THEN "close" ELSE "recv")
    /\ UNCHANGED <<shared, stop, lock, conn, gga, stale, partial>>

Receive(m) ==
    /\ conn[m] = "ok" /\ Goto(m, "recv", "acquire")
    /\ UNCHANGED <<shared, stop, lock, conn, gga, stale, partial>>

\* Mutant of EndOfStream: the thread returns instead of reconnecting.
EndOfStreamReturns(m) ==
    /\ conn[m] = "broken" /\ Goto(m, "recv", "done")
    /\ UNCHANGED <<shared, stop, lock, conn, gga, stale, partial>>

\* At the end of a dropped connection recv returns nothing, or raises.
EndOfStream(m) ==
    /\ conn[m] = "broken" /\ Goto(m, "recv", "close")
    /\ UNCHANGED <<shared, stop, lock, conn, gga, stale, partial>>

\* Mutant of Acquire: nobody waits for the lock.
AcquireAnyway(m) ==
    /\ Goto(m, "acquire", "send")
    /\ lock' = lock \cup {m}
    /\ UNCHANGED <<shared, stop, conn, gga, stale, partial>>

Acquire(m) ==
    /\ lock = {}
    /\ Goto(m, "acquire", "send")
    /\ lock' = {m}
    /\ UNCHANGED <<shared, stop, conn, gga, stale, partial>>

SendStart(m) ==
    /\ Goto(m, "send", "sending")
    /\ partial' = partial \cup {m}
    /\ UNCHANGED <<shared, stop, lock, conn, gga, stale>>

SendRest(m) ==
    /\ client = "here"
    /\ Goto(m, "sending", "test")
    /\ partial' = partial \ {m}
    /\ lock' = {}
    /\ UNCHANGED <<shared, stop, conn, gga, stale>>

\* Mutants of SendFails: the finally clause is missing; the thread
\* takes it for an error of the caster and connects again.
SendFailsLeaking(m) ==
    /\ client = "gone" /\ pc[m] \in {"send", "sending"}
    /\ pc' = [pc EXCEPT ![m] = "done"]
    /\ stop' = TRUE /\ lock' = {}
    /\ UNCHANGED <<shared, conn, gga, stale, partial>>
SendFailsRetrying(m) ==
    /\ client = "gone" /\ pc[m] \in {"send", "sending"}
    /\ pc' = [pc EXCEPT ![m] = "check"]
    /\ lock' = {}
    /\ conn' = [conn EXCEPT ![m] = "none"]
    /\ gga' = [gga EXCEPT ![m] = FALSE]
    /\ UNCHANGED <<shared, stop, stale, partial>>

\* The peer has gone: stop every thread and return through the finally clause.
SendFails(m) ==
    /\ client = "gone" /\ pc[m] \in {"send", "sending"}
    /\ pc' = [pc EXCEPT ![m] = "done"]
    /\ stop' = TRUE /\ lock' = {}
    /\ conn' = [conn EXCEPT ![m] = "none"]
    /\ gga' = [gga EXCEPT ![m] = FALSE]
    /\ stale' = [stale EXCEPT ![m] = @ + (IF gga[m] THEN 1 ELSE 0)]
    /\ UNCHANGED <<shared, partial>>

\* The finally clause; the GGA thread of this connection sleeps on.
Close(m) ==
    /\ Goto(m, "close", "check")
    /\ conn' = [conn EXCEPT ![m] = "none"]
    /\ gga' = [gga EXCEPT ![m] = FALSE]
    /\ stale' = [stale EXCEPT ![m] = @ + (IF gga[m] THEN 1 ELSE 0)]
    /\ UNCHANGED <<shared, stop, lock, partial>>

ForwardStream(m) ==
    \/ Check(m) \/ Test(m) \/ EndOfStream(m) \/ Acquire(m)
    \/ SendStart(m) \/ SendRest(m) \/ SendFails(m) \/ Close(m)

----------------------------------------------------------------------------
(* gga_sender: wakes up every ten seconds                                  *)

\* A send on a broken connection raises and ends the thread.
GgaEnds(m) ==
    /\ gga[m] /\ (stop \/ conn[m] = "broken")
    /\ gga' = [gga EXCEPT ![m] = FALSE]
    /\ UNCHANGED <<shared, stop, lock, pc, conn, stale, partial>>

\* Mutant of StaleGgaEnds: it does not know which connection it served.
StaleGgaEndsAny(m) ==
    /\ stale[m] > 0 \/ gga[m]
    /\ stale' = [stale EXCEPT ![m] = @ - 1]
    /\ UNCHANGED <<shared, stop, lock, pc, conn, gga, partial>>

\* So does a send on a socket that its forwarding thread has closed.
StaleGgaEnds(m) ==
    /\ stale[m] > 0
    /\ stale' = [stale EXCEPT ![m] = @ - 1]
    /\ UNCHANGED <<shared, stop, lock, pc, conn, gga, partial>>

----------------------------------------------------------------------------
(* The environment                                                         *)

ClientLeaves ==
    /\ client = "here"
    /\ client' = "gone"
    /\ UNCHANGED <<handler, stop, lock, pc, conn, gga, stale, drops, partial>>

CasterDrops(m) ==
    /\ conn[m] = "ok" /\ drops[m] > 0
    /\ drops' = [drops EXCEPT ![m] = @ - 1]
    /\ conn' = [conn EXCEPT ![m] = "broken"]
    /\ UNCHANGED <<client, handler, stop, lock, pc, gga, stale, partial>>

PNext ==
    \/ Accept \/ Handshake \/ Join \/ ClientLeaves
    \/ \E m \in Mountpoint :
          ForwardStream(m) \/ Connect(m) \/ Receive(m) \/ GgaEnds(m)
              \/ StaleGgaEnds(m) \/ CasterDrops(m)

PSpec == PInit /\ [][PNext]_pvars

\* Threads are scheduled; the client reads what it is sent.  Of the caster:
\* it accepts a connection in the end, drops finitely many in a session, and
\* goes on sending corrections on one it does not drop.
PFairness ==
    /\ WF_pvars(Handshake) /\ WF_pvars(Join)
    /\ \A m \in Mountpoint :
          /\ WF_pvars(ForwardStream(m)) /\ WF_pvars(Connect(m)) /\ WF_pvars(Receive(m))
          /\ WF_pvars(GgaEnds(m)) /\ WF_pvars(StaleGgaEnds(m))

PFairSpec == PSpec /\ PFairness

----------------------------------------------------------------------------
PTypeOK ==
    /\ client \in {"absent", "here", "gone"}
    /\ handler \in {"idle", "handshake", "joining"}
    /\ stop \in BOOLEAN
    /\ lock \subseteq Mountpoint /\ partial \subseteq Mountpoint
    /\ pc \in [Mountpoint -> Positions]
    /\ conn \in [Mountpoint -> {"none", "ok", "broken"}]
    /\ gga \in [Mountpoint -> BOOLEAN]
    /\ stale \in [Mountpoint -> Nat] /\ drops \in [Mountpoint -> 0..MaxDrops]

\* The client sees whole chunks: as long as it is there, at most one chunk is
\* half sent, and the thread sending it holds the lock.
WholeChunks == client = "here" => partial \subseteq lock /\ Cardinality(lock) <= 1

\* "Keep VRS alive": a stream being received has its GGA thread, unless the
\* session is stopping or the connection has broken; and no more than one.
KeptAlive ==
    \A m \in Mountpoint :
        /\ conn[m] = "ok" /\ ~stop => gga[m]
        /\ gga[m] => conn[m] # "none"

\* No caster connection outlives the session that opened it.
NoLeakedConnection ==
    handler = "idle" => \A m \in Mountpoint : conn[m] = "none" /\ ~gga[m]

\* Each connection is kept alive while it is used and given up with its session.
ConnectionsKept == KeptAlive /\ NoLeakedConnection

\* "Reconnects on drop": a thread that waits on a dropped connection has a
\* new one in the end.  (A thread that waits for the lock need not: nothing
\* makes the lock fair.)
Reconnects ==
    \A m \in Mountpoint :
        (conn[m] = "broken" /\ pc[m] = "recv") ~> (conn[m] = "ok" \/ stop)

\* When the client has gone its session ends, every thread of it.
SessionEnds ==
    client = "gone" ~> (handler = "idle" /\ client = "absent")
=============================================================================
