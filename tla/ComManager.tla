----------------------------- MODULE ComManager -----------------------------
(***************************************************************************)
(* The communication manager of com_manager.c: two tables that every step  *)
(* of the manager serves, and that share no state.                         *)
(***************************************************************************)
EXTENDS Integers, FiniteSets

(***************************************************************************)
(* The broadcast table: a fixed number of slots, shared by all ports, that *)
(* clients fill with requests (PID_GET_DATA), empty with stop packets, and *)
(* that every step of the manager serves in order.                         *)
(***************************************************************************)
CONSTANTS NSlots,      \* MAX_NUM_BCAST_MSGS
          Ports,       \* port handles 0, 1, ...
          FullSize,    \* registered size of each data set, a function on its ids
          RefImu,      \* DID_REFERENCE_IMU, refused after the slot is claimed
          Asked,       \* requested sizes; 0 asks for the whole data set
          Multiples,   \* requested periods in ms; 0 asks for a single packet
          StepPeriod,  \* ms between two steps of the manager
          Rooms        \* free bytes a port's transmit buffer may have

BroadcastAssumption ==
    /\ NSlots \in Nat \ {0} /\ StepPeriod \in Nat \ {0}
    /\ Multiples \subseteq Nat /\ Rooms \subseteq Nat /\ Asked \subseteq Nat
    /\ 0 \in Ports /\ 0 \notin DOMAIN FullSize
    /\ \A d \in DOMAIN FullSize : FullSize[d] \in Nat

VARIABLES slots,       \* the table
          sent,        \* keys of the packets the last step sent, or that
                       \* the data set's pre-send callback held back
          refused      \* the last request was answered with a NACK

bvars == <<slots, sent, refused>>

Dids == DOMAIN FullSize
Slots == 1..NSlots
Once == -1      \* MSG_PERIOD_SEND_ONCE
Disabled == 0   \* MSG_PERIOD_DISABLED

Key(m) == [port |-> m.port, did |-> m.did, size |-> m.size]
SmallestOf(S) == CHOOSE i \in S : \A j \in S : i <= j

\* All slots are zeroed: port 0, message 0 of size 0, disabled.
BInit ==
    /\ slots = [i \in Slots |-> [port |-> 0, did |-> 0, size |-> 0,
                                 period |-> Disabled, counter |-> 0]]
    /\ sent = {} /\ refused = FALSE

----------------------------------------------------------------------------
\* The size a request gets: all of the data set if it asks for 0 or too much.
Granted(d, n) == IF n = 0 \/ n > FullSize[d] THEN FullSize[d] ELSE n

\* Mutant of SlotFor: without a search for a free slot.
SlotForLast(k) ==
    LET same == {i \in Slots : Key(slots[i]) = k}
    IN  IF same # {} THEN SmallestOf(same) ELSE NSlots
\* Mutant of SlotFor: a free slot is taken first.
SlotForFree(k) ==
    LET same == {i \in Slots : Key(slots[i]) = k}
        available == {i \in Slots : slots[i].period <= Disabled}
    IN  IF available # {} THEN SmallestOf(available)
        ELSE IF same # {} THEN SmallestOf(same) ELSE NSlots

\* The slot with the same key, else the first one that is not broadcasting,
\* else the last one, whatever it holds.
SlotFor(k) ==
    LET same == {i \in Slots : Key(slots[i]) = k}
        available == {i \in Slots : slots[i].period <= Disabled}
    IN  IF same # {} THEN SmallestOf(same)
        ELSE IF available # {} THEN SmallestOf(available) ELSE NSlots

\* Mutant of Fits: a buffer is never filled to its last byte.
FitsWithin(m, room) == m.size < room[m.port]
Fits(m, room) == m.size <= room[m.port]

\* Period and counter of a slot after a request with this multiple.
Scheduled(m, multiple, fits) ==
    IF multiple > 0
    THEN [m EXCEPT !.period = multiple \div StepPeriod, !.counter = -1]
    ELSE IF fits THEN [m EXCEPT !.period = Disabled]
    ELSE [m EXCEPT !.period = Once, !.counter = -1]

\* processBinaryRxPacket, PID_GET_DATA: answered at once if the packet fits,
\* then scheduled.
GetDataRequest(p, d, n, multiple, room) ==
    LET k == [port |-> p, did |-> d, size |-> Granted(d, n)]
        i == SlotFor(k)
        m == [slots[i] EXCEPT !.port = p, !.did = d, !.size = k.size]
        fits == Fits(m, room)
    IN  /\ refused' = (d = RefImu)
        /\ IF d = RefImu
           THEN slots' = [slots EXCEPT ![i] = m] /\ sent' = {}
           ELSE /\ slots' = [slots EXCEPT ![i] = Scheduled(m, multiple, fits)]
                /\ sent' = IF fits THEN {k} ELSE {}

\* PID_STOP_BROADCASTS_ALL_PORTS, _CURRENT_PORT and PID_STOP_DID_BROADCAST.
Disable(chosen) ==
    /\ slots' = [i \in Slots |-> IF i \in chosen
                                 THEN [slots[i] EXCEPT !.period = Disabled]
                                 ELSE slots[i]]
    /\ sent' = {} /\ refused' = FALSE

StopBroadcastsAllPorts == Disable(Slots)
StopBroadcastsCurrentPort(p) == Disable({i \in Slots : slots[i].port = p})
DisableDidBroadcast(p, d) ==
    Disable({i \in Slots : slots[i].port = p /\ slots[i].did = d})

\* The step serves the slots in order up to the first one, enabled or not,
\* whose packet does not fit in its port's buffer.
Serving(i, room) == \A j \in 1..i : Fits(slots[j], room)

Expired(m) == m.period > 0 /\ m.counter + 1 >= m.period

Serve(m) ==
    IF m.period = Once THEN [m EXCEPT !.period = Disabled]
    ELSE IF m.period > 0
         THEN [m EXCEPT !.counter = IF Expired(m) THEN 0 ELSE @ + 1]
         ELSE m

StepTx(room) ==
    /\ slots' = [i \in Slots |-> IF Serving(i, room) THEN Serve(slots[i])
                                 ELSE slots[i]]
    /\ sent' = {Key(slots[i]) : i \in {j \in Slots :
                    Serving(j, room)
                    /\ (slots[j].period = Once \/ Expired(slots[j]))}}
    /\ refused' = FALSE

----------------------------------------------------------------------------
Buffers == [Ports -> Rooms]

BNext ==
    \/ \E p \in Ports, d \in Dids, n \in Asked, x \in Multiples,
          room \in Buffers :
            GetDataRequest(p, d, n, x, room)
    \/ StopBroadcastsAllPorts
    \/ \E p \in Ports : \/ StopBroadcastsCurrentPort(p)
                        \/ \E d \in Dids : DisableDidBroadcast(p, d)
    \/ \E room \in Buffers : StepTx(room)

\* The caller steps the manager for ever, and now and then finds every buffer
\* drained.
Drained == [p \in Ports |-> CHOOSE r \in Rooms : \A q \in Rooms : q <= r]
BFairness == WF_bvars(StepTx(Drained))

BSpec == BInit /\ [][BNext]_bvars /\ BFairness

----------------------------------------------------------------------------
BTypeOK ==
    /\ \A i \in Slots :
        /\ slots[i].port \in Ports /\ slots[i].did \in Dids \cup {0}
        /\ slots[i].size \in Nat /\ slots[i].period \in Nat \cup {Once}
        /\ slots[i].counter \in -1..slots[i].period \cup Nat
    /\ refused \in BOOLEAN

Enabled(i) == slots[i].period # Disabled

\* No message is broadcast twice to a port: requests reuse the slot of their
\* key, however slots are freed and taken in between.
OneSlotPerKey ==
    \A i, j \in Slots :
        Enabled(i) /\ Enabled(j) /\ Key(slots[i]) = Key(slots[j]) => i = j

\* The table never broadcasts a message twice, and its slots are well formed.
TableSound == BTypeOK /\ OneSlotPerKey

\* The table implements the abstract subscriptions.
Subscription(m) == [port |-> m.port, did |-> m.did, size |-> m.size, period |-> m.period]
Subscribed == {Subscription(slots[i]) : i \in {j \in Slots : slots[j].period > 0}}

Granting == {Granted(d, n) : d \in Dids, n \in Asked}
Periods == {x \div StepPeriod : x \in Multiples}
Requestable == [port : Ports, did : Dids, size : Granting, period : Periods]

Abstract == INSTANCE Subscriptions WITH Capacity <- NSlots, subs <- Subscribed
SubscriptionsKept ==
    Abstract!SubscriptionsInit /\ [][Abstract!SubscriptionsNext(Requestable)]_Subscribed

\* A subscriber is served again and again for as long as it is subscribed,
\* whatever the other slots hold, once nobody asks for the same message again
\* (which starts its period anew).
NoNewRequest ==
    \A i \in Slots : slots'[i].counter >= slots[i].counter \/ slots'[i].counter = 0

SubscriberServed ==
    <>[][NoNewRequest]_bvars =>
        \A i \in Slots : []<>(Key(slots[i]) \in sent \/ slots[i].period <= 0)

----------------------------------------------------------------------------
(***************************************************************************)
(* Ensured delivery: packets that are kept in a list and sent again every  *)
(* RetryCount steps until the data they ask for arrives, over a link that  *)
(* loses packets to and from a device that answers them; their order on    *)
(* the link is left open.                                                  *)
(***************************************************************************)
CONSTANTS Requests,     \* packets sent ensured: records [pid, id]
          MaxEnsured,   \* maxEnsuredPackets
          RetryCount,   \* ensureRetryCount, in steps
          Dispatched    \* the kinds of packet comManagerStepRx processes

EnsuredAssumption ==
    /\ MaxEnsured \in Nat \ {0} /\ RetryCount \in Nat \ {0} /\ Requests # {}
    /\ Dispatched \subseteq {"data", "ack"}

VARIABLES ensured,      \* the list: a request and its countdown per slot
          lastIndex,    \* lastEnsuredPacketIndex
          toDevice,     \* requests on the wire
          toHost        \* replies on the wire

evars == <<ensured, lastIndex, toDevice, toHost>>

Entries == 1..MaxEnsured
Ids == {r.id : r \in Requests}    \* the first byte of a packet's body
Packets == [kind : {"data", "ack"}, id : Ids]

NoMore == -2    \* no retries in this slot nor beyond it
Off == -1       \* no retry in this slot

Active(i) == ensured[i].counter >= 0

EInit ==
    /\ ensured \in [Entries -> [counter : {NoMore}, pkt : {CHOOSE r \in Requests : TRUE}]]
    /\ lastIndex = 1
    /\ toDevice = {} /\ toHost = {}

----------------------------------------------------------------------------
\* Where a new packet goes: over an active one of the same kind and first
\* byte, else into the first inactive slot, else one after the last used.
Twins(r) ==
    {i \in Entries : /\ Active(i) /\ ensured[i].pkt = r
                     /\ \A j \in 1..i : ensured[j].counter # NoMore}

First(S) == CHOOSE i \in S : \A j \in S : i <= j

\* Mutant of registerPacketRetry: always one after the last used.
registerPacketRetryNext(r) ==
    LET next == (lastIndex % MaxEnsured) + 1
        slot == IF Twins(r) # {} THEN First(Twins(r)) ELSE next
    IN  /\ ensured' = [ensured EXCEPT ![slot] = [counter |-> RetryCount, pkt |-> r]]
        /\ lastIndex' = IF Twins(r) # {} THEN 1 ELSE slot

registerPacketRetry(r) ==
    LET inactive == {i \in Entries : ~Active(i)}
        next == (lastIndex % MaxEnsured) + 1
        slot == IF Twins(r) # {} THEN First(Twins(r))
                ELSE IF inactive # {} THEN First(inactive) ELSE next
    IN  /\ ensured' = [ensured EXCEPT ![slot] = [counter |-> RetryCount, pkt |-> r]]
        /\ lastIndex' = IF Twins(r) # {} THEN 1 ELSE slot

comManagerSendEnsured(r) ==
    /\ registerPacketRetry(r)
    /\ toDevice' \in {toDevice, toDevice \cup {r}}
    /\ UNCHANGED toHost

\* Counts every active packet before the end of the list down, and sends
\* those that reach 0 again.
Listed(i) == \A j \in 1..i : ensured[j].counter # NoMore
Due(i) == Listed(i) /\ ensured[i].counter = 1

stepPacketRetry ==
    /\ \E i \in Entries : Active(i)
    /\ ensured' = [i \in Entries |->
            IF Due(i) THEN [ensured[i] EXCEPT !.counter = RetryCount]
            ELSE IF Listed(i) /\ Active(i) THEN [ensured[i] EXCEPT !.counter = @ - 1]
            ELSE ensured[i]]
    /\ \E through \in SUBSET {ensured[i].pkt : i \in {j \in Entries : Due(j)}} :
            toDevice' = toDevice \cup through
    /\ UNCHANGED <<lastIndex, toHost>>

\* The list without the packets of the chosen entries, its inactive tail marked as such.
Removed(chosen) ==
    LET off == [i \in Entries |->
            IF Listed(i) /\ Active(i) /\ i \in chosen
            THEN [ensured[i] EXCEPT !.counter = Off] ELSE ensured[i]]
    IN  IF \E i \in Entries : ensured[i].counter = NoMore
        THEN off
        ELSE [i \in Entries |->
                IF \A j \in i..MaxEnsured : off[j].counter < 0
                THEN [off[i] EXCEPT !.counter = NoMore] ELSE off[i]]

\* Any data whose id is the first byte of a packet's body is its answer.
updatePacketRetryData(m) ==
    ensured' = Removed({i \in Entries : ensured[i].pkt.id = m.id})

\* An acknowledgement names the kind and the data of the packet it is for.
updatePacketRetryAck(m) ==
    ensured' = Removed({i \in Entries : ensured[i].pkt.pid = "set" /\ ensured[i].pkt.id = m.id})

\* comManagerStepRx and processBinaryRxPacket: a packet of a kind that is not
\* dispatched is parsed and dropped.
comManagerStepRx(m) ==
    /\ m \in toHost
    /\ toHost' = toHost \ {m}
    /\ IF m.kind \notin Dispatched THEN UNCHANGED ensured
       ELSE IF m.kind = "data" THEN updatePacketRetryData(m)
       ELSE updatePacketRetryAck(m)
    /\ UNCHANGED <<lastIndex, toDevice>>

\* The device answers a request for data with it, and acknowledges new data.
Reply(r) == [kind |-> IF r.pid = "get" THEN "data" ELSE "ack", id |-> r.id]
Answer(r) ==
    /\ r \in toDevice
    /\ toDevice' = toDevice \ {r}
    /\ toHost' \in {toHost, toHost \cup {Reply(r)}}
    /\ UNCHANGED <<ensured, lastIndex>>

ENext ==
    \/ \E r \in Requests : comManagerSendEnsured(r) \/ Answer(r)
    \/ stepPacketRetry
    \/ \E m \in Packets : comManagerStepRx(m)

\* The manager is stepped for ever, reads what arrives, and what is sent
\* again and again gets through.
Resent(r) == stepPacketRetry /\ r \notin toDevice /\ r \in toDevice'
Answered(r) == Answer(r) /\ Reply(r) \in toHost'
EFairness ==
    /\ WF_evars(stepPacketRetry)
    /\ \A r \in Requests : SF_evars(Resent(r)) /\ SF_evars(Answered(r))
    /\ \A m \in Packets : WF_evars(comManagerStepRx(m))

ESpec == EInit /\ [][ENext]_evars /\ EFairness

----------------------------------------------------------------------------
ETypeOK ==
    /\ ensured \in [Entries -> [counter : NoMore..RetryCount, pkt : Requests]]
    /\ lastIndex \in Entries
    /\ toDevice \subseteq Requests /\ toHost \subseteq Packets

\* The end of the list is where it says: a packet behind it would never be
\* sent again, and its twin could be registered a second time.
ListClosed ==
    /\ \A i, j \in Entries :
        i < j /\ ensured[i].counter = NoMore => ensured[j].counter = NoMore
    /\ \A i, j \in Entries :
        Active(i) /\ Active(j) /\ ensured[i].pkt = ensured[j].pkt => i = j

\* Every packet of the list is sent again, and none of them twice.
ListSound == ETypeOK /\ ListClosed

\* A packet that waits for its answer is given up only for data with its id,
\* or for a new packet when every slot waits.
GivenUpForData ==
    \A i \in Entries : Active(i) =>
        \/ Active(i)' /\ ensured'[i].pkt = ensured[i].pkt
        \/ [kind |-> "data", id |-> ensured[i].pkt.id] \in toHost \ toHost'
        \/ \A j \in Entries : Active(j) /\ Active(j)'
RetryKept == [][GivenUpForData]_evars

\* Over a link that loses packets but not all of them, a request for data is
\* answered, or displaced by other requests.
Waiting(r) == \E i \in Entries : Active(i) /\ ensured[i].pkt = r
GetAnswered ==
    \A r \in Requests : r.pid = "get" /\ Waiting(r) ~> ~Waiting(r)

\* What the interface says and the code does not do: comManagerSendEnsured
\* retries a packet if its ACK is not received, so not after it was.
AckStopsRetry ==
    [][\A r \in Requests : r.pid = "set" /\ Reply(r) \in toHost \ toHost'
                            => ~Waiting(r)']_evars
=============================================================================
