------------------------------ MODULE SdkProofs ------------------------------
(***************************************************************************)
(* Proofs about the SDK, for tables of every size.  The communication      *)
(* manager: no message has two slots, and the broadcast table implements   *)
(* the abstract subscriptions; the list of ensured packets has neither     *)
(* gaps nor twins, and a packet that waits for its answer is not           *)
(* forgotten.  The ring buffer holds what a queue of its size would.  The  *)
(* logger thread: packets are logged in order.  The list of devices: it    *)
(* has the ports that are open, and the manager its length.  NMEA          *)
(* sentences: what they say of a fix comes back.  Flash configurations:    *)
(* client and devices agree for good once no upload is left.  The parser:  *)
(* what it hands on are pieces of the stream, one behind the other.        *)
(***************************************************************************)
EXTENDS ComManager, RingBuffer, InertialSenseClient, NmeaFix, FiniteSetTheorems, SequenceTheorems,
        WellFoundedInduction, TLAPS

CONSTANTS FlashDevices, Values, MaxUploads
VARIABLES flashCfg, sysParams, uploading, flash, sentDown, sentUp, cfgFile, uploads

CONSTANTS CommSize, Chunks, Packs, Streams, Headers, Bodies
VARIABLES stream, wire, buf, head, scan, hasStart, parseState, delivered, idleAt,
          header, body, encoded, decoded

Flash == INSTANCE FlashSync WITH Devices <- FlashDevices, file <- cfgFile, toDevice <- sentDown,
                                 toHost <- sentUp
Comm == INSTANCE IsComm WITH Size <- CommSize, Packets <- Packs

\* Both tables are searched for the first slot of a kind, which exists.
Below == {pair \in Nat \X Nat : pair[1] < pair[2]}

LEMMA LeastExists ==
    ASSUME NEW S \in SUBSET Nat, S # {}
    PROVE  \E i \in S : \A j \in S : i <= j
<1>1. IsWellFoundedOn(Below, Nat)
    BY NatLessThanWellFounded DEF OpToRel, Below
<1>2. PICK i \in S : \A j \in S : <<j, i>> \notin Below
    BY <1>1, WFMin, Zenon
<1>3. \A j \in S : ~(j < i)
    BY <1>2 DEF Below
<1> QED BY <1>3

----------------------------------------------------------------------------
(***************************************************************************)
(* The broadcast table.  A key is in no two slots, enabled or not, from    *)
(* the first request on: one that is found stays where it is, one that is  *)
(* not is in no slot yet.  So the smallest slot with a key is the only     *)
(* one, and a full table holds as many subscriptions as it has slots.      *)
(***************************************************************************)
Slot == [port : Ports, did : Dids \cup {0}, size : Nat, period : Nat \cup {Once},
         counter : Nat \cup {-1}]
SlotsTyped == slots \in [Slots -> Slot] /\ refused \in BOOLEAN
\* The slots hold what was requested, or nothing yet.
HoldsRequests ==
    \A i \in Slots : Enabled(i) =>
        /\ slots[i].did \in Dids /\ slots[i].size \in Granting
        /\ slots[i].period \in Periods \cup {Once}
KeysDistinct ==
    \A i, j \in Slots : slots[i].did \in Dids /\ Key(slots[i]) = Key(slots[j]) => i = j
TableInv == SlotsTyped /\ HoldsRequests /\ KeysDistinct

LEMMA SmallestIn ==
    ASSUME NEW S \in SUBSET Slots, S # {}
    PROVE  SmallestOf(S) \in S
<1>1. S \in SUBSET Nat
    BY DEF Slots
<1>2. \E i \in S : \A j \in S : i <= j
    BY <1>1, LeastExists
<1> QED BY <1>2 DEF SmallestOf

LEMMA Constants ==
    ASSUME BroadcastAssumption
    PROVE  /\ NSlots \in Nat /\ NSlots > 0 /\ NSlots \in Slots
           /\ \A d \in Dids, n \in Asked : Granted(d, n) \in Nat
           /\ \A x \in Multiples : x \in Nat /\ x \div StepPeriod \in Nat
BY DEF BroadcastAssumption, Slots, Dids, Granted

\* What a request finds: the slot of its key; else no slot has the key, and
\* it gets one that is not broadcasting, or they all are.
LEMMA SlotForFinds ==
    ASSUME BroadcastAssumption, NEW k
    PROVE  /\ SlotFor(k) \in Slots
           /\ \/ Key(slots[SlotFor(k)]) = k
              \/ /\ \A j \in Slots : Key(slots[j]) # k
                 /\ \/ slots[SlotFor(k)].period <= Disabled
                    \/ \A j \in Slots : ~(slots[j].period <= Disabled)
<1> DEFINE same == {i \in Slots : Key(slots[i]) = k}
           available == {i \in Slots : slots[i].period <= Disabled}
<1>1. SlotFor(k) = IF same # {} THEN SmallestOf(same)
                   ELSE IF available # {} THEN SmallestOf(available) ELSE NSlots
    BY DEF SlotFor
<1>2. same # {} => SmallestOf(same) \in same
    BY SmallestIn
<1>3. available # {} => SmallestOf(available) \in available
    BY SmallestIn
<1>4. NSlots \in Slots
    BY Constants
<1> QED BY <1>1, <1>2, <1>3, <1>4

\* Any step that gives slot i the key k, if no other slot has it, and leaves
\* the other slots their keys.
LEMMA TableKept ==
    ASSUME TableInv, NEW i \in Slots, NEW m \in Slot, refused' \in BOOLEAN,
           slots' = [slots EXCEPT ![i] = m],
           m.did \in Dids, m.size \in Granting,
           m.period \in Periods \cup {Once, Disabled},
           \A j \in Slots : j # i => Key(slots[j]) # Key(m)
    PROVE  TableInv'
<1>1. slots \in [Slots -> Slot]
    BY DEF TableInv, SlotsTyped
<1>2. slots' \in [Slots -> Slot]
    BY <1>1
<1>3. slots'[i] = m /\ \A j \in Slots : j # i => slots'[j] = slots[j]
    BY <1>1
<1>4. HoldsRequests'
    BY <1>3 DEF TableInv, HoldsRequests, Enabled, Slots, Granting, Periods, Dids, Granted, Disabled
<1>5. KeysDistinct'
    BY <1>3 DEF TableInv, KeysDistinct, Slots, Dids, Key
<1> QED BY <1>2, <1>4, <1>5 DEF TableInv, SlotsTyped, Slots, Slot, Dids

\* What a request writes, and where.
Written(i, m, p, d, n, x) ==
    /\ slots' = [slots EXCEPT ![i] = m]
    /\ m \in Slot /\ refused' \in BOOLEAN
    /\ m.port = p /\ m.did = d /\ m.size = Granted(d, n)
    /\ \/ m.period = slots[i].period
       \/ x > 0 /\ m.period = x \div StepPeriod
       \/ x = 0 /\ m.period \in {Disabled, Once}

RequestKey(p, d, n) == [port |-> p, did |-> d, size |-> Granted(d, n)]

LEMMA RequestWrites ==
    ASSUME BroadcastAssumption, TableInv,
           NEW p \in Ports, NEW d \in Dids, NEW n \in Asked, NEW x \in Multiples, NEW room,
           GetDataRequest(p, d, n, x, room)
    PROVE  \E m \in Slot : Written(SlotFor(RequestKey(p, d, n)), m, p, d, n, x)
<1> DEFINE k == RequestKey(p, d, n)
           i == SlotFor(k)
           m == [slots[i] EXCEPT !.port = p, !.did = d, !.size = Granted(d, n)]
           fits == Fits(m, room)
<1>1. i \in Slots
    BY SlotForFinds
<1>2. slots[i] \in Slot
    BY <1>1 DEF TableInv, SlotsTyped
<1>3. /\ refused' = (d = RefImu)
      /\ IF d = RefImu THEN slots' = [slots EXCEPT ![i] = m]
         ELSE slots' = [slots EXCEPT ![i] = Scheduled(m, x, fits)]
    BY DEF GetDataRequest, RequestKey
<1>4. Granted(d, n) \in Nat /\ x \in Nat /\ x \div StepPeriod \in Nat
    BY Constants
<1> HIDE DEF i, k, fits
<1>5. /\ m \in Slot /\ m.port = p /\ m.did = d /\ m.size = Granted(d, n)
      /\ m.period = slots[i].period
    BY <1>2, <1>4 DEF Slot
<1> HIDE DEF m
<1>6. CASE d = RefImu
    BY <1>3, <1>5, <1>6 DEF Written, k, i
<1>7. CASE d # RefImu
  <2> DEFINE w == Scheduled(m, x, fits)
  <2>1. /\ w \in Slot /\ w.port = p /\ w.did = d /\ w.size = Granted(d, n)
        /\ \/ x > 0 /\ w.period = x \div StepPeriod
           \/ x = 0 /\ w.period \in {Disabled, Once}
    <3>1. CASE x > 0
        BY <1>4, <1>5, <3>1 DEF Scheduled, Slot, Disabled, Once
    <3>2. CASE ~(x > 0) /\ fits
        BY <1>4, <1>5, <3>2 DEF Scheduled, Slot, Disabled, Once
    <3>3. CASE ~(x > 0) /\ ~fits
      <4>1. w = [m EXCEPT !.period = Once, !.counter = -1]
        BY <3>3, Zenon DEF Scheduled
      <4>2. x = 0
        BY <1>4, <3>3
      <4> HIDE DEF w
      <4> QED BY <1>5, <4>1, <4>2 DEF Slot, Once
    <3> QED BY <3>1, <3>2, <3>3
  <2> HIDE DEF w
  <2>2. slots' = [slots EXCEPT ![i] = w] /\ refused' \in BOOLEAN
    BY <1>3, <1>7 DEF w
  <2> QED BY <2>1, <2>2 DEF Written, k, i
<1> QED BY <1>6, <1>7

LEMMA RequestKeeps ==
    ASSUME BroadcastAssumption, TableInv,
           NEW p \in Ports, NEW d \in Dids, NEW n \in Asked, NEW x \in Multiples, NEW room,
           GetDataRequest(p, d, n, x, room)
    PROVE  TableInv'
<1> DEFINE k == RequestKey(p, d, n)
           i == SlotFor(k)
<1>1. PICK m \in Slot : Written(i, m, p, d, n, x)
    BY RequestWrites
<1>2. Key(m) = k /\ k.did = d
    BY <1>1 DEF Written, Key, RequestKey
<1>3. i \in Slots /\ (Key(slots[i]) = k \/ \A j \in Slots : Key(slots[j]) # k)
    BY SlotForFinds
<1> HIDE DEF i, k
<1>4. \A j \in Slots : j # i => Key(slots[j]) # Key(m)
  <2> SUFFICES ASSUME NEW j \in Slots, j # i, Key(slots[j]) = k PROVE FALSE
    BY <1>2
  <2>1. Key(slots[i]) = k
    BY <1>3
  <2>2. slots[j].did = Key(slots[j]).did
    BY DEF Key
  <2>3. slots[j].did \in Dids
    BY <1>2, <2>2
  <2> QED BY <1>3, <2>1, <2>3 DEF TableInv, KeysDistinct
<1>5. slots[i].period \in Periods \cup {Once, Disabled}
    BY <1>3 DEF TableInv, HoldsRequests, Enabled
<1>6. m.period \in Periods \cup {Once, Disabled} /\ m.size \in Granting /\ m.did \in Dids
    BY <1>1, <1>5 DEF Written, Periods, Granting
<1> QED BY <1>1, <1>3, <1>4, <1>6, TableKept DEF Written

\* The other steps change no slot's key, and no period but to end it.
LEMMA SameKeysKept ==
    ASSUME TableInv, slots' \in [Slots -> Slot], refused' \in BOOLEAN,
           \A i \in Slots : /\ Key(slots'[i]) = Key(slots[i])
                            /\ slots'[i].period \in {slots[i].period, Disabled}
    PROVE  TableInv'
<1>1. \A i \in Slots : slots'[i].did = slots[i].did /\ slots'[i].size = slots[i].size
  <2> TAKE i \in Slots
  <2>1. Key(slots'[i]).did = Key(slots[i]).did /\ Key(slots'[i]).size = Key(slots[i]).size
    OBVIOUS
  <2> QED BY <2>1 DEF Key
<1>2. HoldsRequests'
    BY <1>1 DEF TableInv, HoldsRequests, Enabled, Slots, Granting, Periods, Dids, Granted
<1>3. KeysDistinct'
  <2>1. \A i, j \in Slots : slots'[i].did \in Dids /\ Key(slots'[i]) = Key(slots'[j]) => i = j
    BY <1>1 DEF TableInv, KeysDistinct
  <2> QED BY <2>1 DEF KeysDistinct, Slots, Dids, Key
<1> QED BY <1>2, <1>3 DEF TableInv, SlotsTyped, Slots, Slot, Dids

LEMMA DisableWrites ==
    ASSUME TableInv, NEW chosen, Disable(chosen)
    PROVE  /\ slots' \in [Slots -> Slot] /\ refused' \in BOOLEAN
           /\ \A i \in Slots :
                /\ Key(slots'[i]) = Key(slots[i])
                /\ i \in chosen => slots'[i].period = Disabled
                /\ i \notin chosen => slots'[i] = slots[i]
<1>1. \A i \in Slots : slots[i] \in Slot
    BY DEF TableInv, SlotsTyped
<1>2. slots' = [i \in Slots |-> IF i \in chosen THEN [slots[i] EXCEPT !.period = Disabled]
                                ELSE slots[i]]
    BY DEF Disable
<1>3. \A i \in Slots : [slots[i] EXCEPT !.period = Disabled] \in Slot
    BY <1>1 DEF Slot, Disabled
<1>4. slots' \in [Slots -> Slot]
    BY <1>1, <1>2, <1>3
<1>5. refused' \in BOOLEAN
    BY DEF Disable
<1> QED BY <1>1, <1>2, <1>4, <1>5 DEF Key, Slot

LEMMA StepWrites ==
    ASSUME TableInv, NEW room, StepTx(room)
    PROVE  /\ slots' \in [Slots -> Slot] /\ refused' \in BOOLEAN
           /\ \A i \in Slots :
                /\ Key(slots'[i]) = Key(slots[i])
                /\ \/ slots'[i].period = slots[i].period
                   \/ slots[i].period = Once /\ slots'[i].period = Disabled
<1>1. \A i \in Slots : slots[i] \in Slot
    BY DEF TableInv, SlotsTyped
<1>2. \A m \in Slot : /\ Serve(m) \in Slot /\ Key(Serve(m)) = Key(m)
                      /\ \/ Serve(m).period = m.period
                         \/ m.period = Once /\ Serve(m).period = Disabled
    BY DEF Serve, Slot, Key, Once, Disabled
<1>3. slots' = [i \in Slots |-> IF Serving(i, room) THEN Serve(slots[i]) ELSE slots[i]]
    BY DEF StepTx
<1>4. slots' \in [Slots -> Slot]
    BY <1>1, <1>2, <1>3
<1>5. refused' \in BOOLEAN
    BY DEF StepTx
<1> QED BY <1>1, <1>2, <1>3, <1>4, <1>5

LEMMA TableInit == ASSUME BroadcastAssumption PROVE BInit => TableInv
<1> SUFFICES ASSUME BInit PROVE TableInv
    OBVIOUS
<1>1. \A i \in Slots : slots[i].did = 0 /\ slots[i].period = Disabled
    BY DEF BInit
<1>2. slots \in [Slots -> Slot]
    BY DEF BInit, Slot, BroadcastAssumption, Disabled
<1>3. 0 \notin Dids
    BY DEF BroadcastAssumption, Dids
<1> QED BY <1>1, <1>2, <1>3 DEF BInit, TableInv, SlotsTyped, HoldsRequests, KeysDistinct, Enabled

LEMMA TableStep == ASSUME BroadcastAssumption, TableInv, [BNext]_bvars PROVE TableInv'
<1>1. ASSUME NEW p \in Ports, NEW d \in Dids, NEW n \in Asked, NEW x \in Multiples,
             NEW room \in Buffers, GetDataRequest(p, d, n, x, room)
      PROVE  TableInv'
    BY <1>1, RequestKeeps
<1>2. ASSUME NEW chosen, Disable(chosen) PROVE TableInv'
  <2>1. \A i \in Slots : slots'[i].period \in {slots[i].period, Disabled}
    BY <1>2, DisableWrites
  <2> QED BY <1>2, <2>1, DisableWrites, SameKeysKept
<1>3. ASSUME NEW room \in Buffers, StepTx(room) PROVE TableInv'
    BY <1>3, StepWrites, SameKeysKept
<1>4. CASE UNCHANGED bvars
    BY <1>4 DEF bvars, TableInv, SlotsTyped, HoldsRequests, KeysDistinct, Enabled, Key, Slot,
                Slots, Dids, Granting, Granted, Periods
<1> QED BY <1>1, <1>2, <1>3, <1>4
        DEF BNext, StopBroadcastsAllPorts, StopBroadcastsCurrentPort, DisableDidBroadcast

\* The slots are typed, those in use hold requests that were made, and no two
\* of them have the same port and data set.
THEOREM TableInvariant == ASSUME BroadcastAssumption PROVE BSpec => []TableInv
<1>1. BInit => TableInv
    BY TableInit
<1>2. TableInv /\ [BNext]_bvars => TableInv'
    BY TableStep
<1> QED BY <1>1, <1>2, PTL DEF BSpec

\* No message is broadcast twice to a port, for any table, ports and data
\* sets, however its slots are taken, displaced and freed.
THEOREM SlotPerKey == ASSUME BroadcastAssumption PROVE BSpec => []TableSound
<1>1. TableInv => TableSound
  <2> SUFFICES ASSUME TableInv PROVE BTypeOK /\ OneSlotPerKey
    BY DEF TableSound
  <2>1. \A i \in Slots : slots[i] \in Slot
    BY DEF TableInv, SlotsTyped
  <2>2. BTypeOK
    BY <2>1 DEF BTypeOK, Slot, Once, TableInv, SlotsTyped
  <2>3. OneSlotPerKey
    BY DEF TableInv, HoldsRequests, KeysDistinct, OneSlotPerKey
  <2> QED BY <2>2, <2>3
<1> QED BY <1>1, TableInvariant, PTL

----------------------------------------------------------------------------
(***************************************************************************)
(* The table implements the subscriptions.  A request is a Take: of the    *)
(* slot with its key or of one that holds no subscription, without a       *)
(* victim; else of the last slot of a table that is full of subscriptions, *)
(* with the one it held as the victim.                                     *)
(***************************************************************************)
\* The subscriptions in the slots other than i.
Rest(i) == {Subscription(slots[j]) : j \in {l \in Slots : l # i /\ slots[l].period > 0}}
Held(m) == IF m.period > 0 THEN {Subscription(m)} ELSE {}

LEMMA SubscribedSplit ==
    ASSUME NEW i \in Slots
    PROVE  Subscribed = Rest(i) \cup Held(slots[i])
BY DEF Subscribed, Rest, Held

LEMMA SubscribedAfter ==
    ASSUME SlotsTyped, NEW i \in Slots, NEW m \in Slot, slots' = [slots EXCEPT ![i] = m]
    PROVE  Subscribed' = Rest(i) \cup Held(m)
<1>1. Subscribed' = {Subscription(slots'[j]) : j \in {l \in Slots : slots'[l].period > 0}}
    BY DEF Subscribed, Slots, Subscription
<1>2. slots'[i] = m /\ \A j \in Slots : j # i => slots'[j] = slots[j]
    BY DEF SlotsTyped
<1> QED BY <1>1, <1>2 DEF Rest, Held

\* No two slots hold the same subscription.
LEMMA SubscriptionsDiffer ==
    ASSUME TableInv, NEW i \in Slots, NEW j \in Slots, Enabled(i),
           Subscription(slots[i]) = Subscription(slots[j])
    PROVE  i = j
<1>1. /\ Subscription(slots[i]).port = Subscription(slots[j]).port
      /\ Subscription(slots[i]).did = Subscription(slots[j]).did
      /\ Subscription(slots[i]).size = Subscription(slots[j]).size
    OBVIOUS
<1>2. Key(slots[i]) = Key(slots[j])
    BY <1>1 DEF Subscription, Key
<1> QED BY <1>2 DEF TableInv, HoldsRequests, KeysDistinct

LEMMA FullTable ==
    ASSUME BroadcastAssumption, TableInv, \A j \in Slots : slots[j].period > 0
    PROVE  Cardinality(Subscribed) = NSlots
<1> DEFINE f == [j \in 1..NSlots |-> Subscription(slots[j])]
<1>1. \A j \in Slots : Enabled(j)
    BY DEF Enabled, Disabled, TableInv, SlotsTyped, Slot
<1>2. \A i, j \in 1..NSlots : f[i] = f[j] => i = j
    BY <1>1, SubscriptionsDiffer DEF Slots
<1>3. Subscribed = {f[j] : j \in 1..NSlots}
    BY DEF Subscribed, Slots
<1> HIDE DEF f
<1>4. f \in [1..NSlots -> Subscribed]
    BY <1>3 DEF f
<1>5. f \in Bijection(1..NSlots, Subscribed)
  <2>1. f \in Injection(1..NSlots, Subscribed)
    BY <1>2, <1>4 DEF Injection, IsInjective
  <2>2. f \in Surjection(1..NSlots, Subscribed)
    BY <1>3, <1>4 DEF Surjection
  <2> QED BY <2>1, <2>2 DEF Bijection
<1>6. ExistsBijection(1..NSlots, Subscribed)
    BY <1>5 DEF ExistsBijection
<1> QED BY <1>6, Constants, FS_CountingElements

\* A subscription with another key than that of s stays.
LEMMA OthersThan ==
    ASSUME NEW s, NEW i \in Slots,
           \A j \in Slots : j # i => ~Abstract!SameKey(s, Subscription(slots[j])),
           slots[i].period > 0 => Abstract!SameKey(s, Subscription(slots[i]))
    PROVE  {t \in Subscribed : ~Abstract!SameKey(s, t)} = Rest(i)
BY SubscribedSplit DEF Rest, Held

\* The instance counts as this module does.
LEMMA SameCount == ASSUME NEW S PROVE Abstract!Cardinality(S) = Cardinality(S)
BY DEF Abstract!Cardinality, Cardinality

LEMMA RequestTakes ==
    ASSUME BroadcastAssumption, TableInv,
           NEW p \in Ports, NEW d \in Dids, NEW n \in Asked, NEW x \in Multiples, NEW room,
           GetDataRequest(p, d, n, x, room)
    PROVE  [Abstract!SubscriptionsNext(Requestable)]_Subscribed
<1> DEFINE k == RequestKey(p, d, n)
           i == SlotFor(k)
           Taken(m) == [port |-> p, did |-> d, size |-> Granted(d, n),
                        period |-> IF m.period > 0 THEN m.period ELSE 0]
<1>1. PICK m \in Slot : Written(i, m, p, d, n, x)
    BY RequestWrites
<1>2. /\ i \in Slots
      /\ \/ Key(slots[i]) = k
         \/ /\ \A j \in Slots : Key(slots[j]) # k
            /\ \/ slots[i].period <= Disabled
               \/ \A j \in Slots : ~(slots[j].period <= Disabled)
    BY SlotForFinds
<1> HIDE DEF i
<1>3. \A j \in Slots : slots[j] \in Slot /\ slots[j].period \in Int
    BY DEF TableInv, SlotsTyped, Slot, Once
<1>4. m \in Slot /\ m.period \in Int
    BY DEF Slot, Once
<1>5. \A j \in Slots : Key(slots[j]) = k <=> Abstract!SameKey(Taken(m), Subscription(slots[j]))
    BY DEF Key, RequestKey, Abstract!SameKey, Subscription
<1>6. Subscribed' = Rest(i) \cup Held(m)
    BY <1>1, <1>2, SubscribedAfter DEF TableInv, Written
<1>7. Held(m) = IF Taken(m).period > 0 THEN {Taken(m)} ELSE {}
    BY <1>1, <1>4 DEF Held, Subscription, Written
<1> DEFINE s == Taken(m)
<1>8. \A j \in Slots : j # i /\ Key(slots[i]) = k => Key(slots[j]) # k
  <2> SUFFICES ASSUME NEW j \in Slots, Key(slots[i]) = k, Key(slots[j]) = k PROVE j = i
    OBVIOUS
  <2>1. slots[i].did = Key(slots[i]).did /\ k.did = d
    BY DEF Key, RequestKey
  <2> QED BY <1>2, <2>1 DEF TableInv, KeysDistinct
<1>9. CASE m.period = slots[i].period /\ ~(m.period > 0)
    BY <1>2, <1>6, <1>9, SubscribedSplit DEF Held
<1>10. CASE m.period # slots[i].period \/ m.period > 0
  <2>1. s \in Requestable
    <3>1. s.period \in Periods
      <4>1. CASE m.period = slots[i].period
        <5>1. m.period > 0 /\ slots[i].period # Disabled /\ slots[i].period # Once
            BY <1>4, <1>10, <4>1 DEF Disabled, Once
        <5>2. slots[i].period \in Periods
            BY <1>2, <5>1 DEF TableInv, HoldsRequests, Enabled
        <5> QED BY <4>1, <5>1, <5>2
      <4>2. CASE x > 0 /\ m.period = x \div StepPeriod
        <5>1. m.period \in Nat /\ m.period \in Periods
            BY <4>2, Constants DEF Periods
        <5> QED BY <5>1
      <4>3. CASE x = 0 /\ m.period \in {Disabled, Once}
        <5>1. 0 = x \div StepPeriod
            BY <4>3 DEF BroadcastAssumption
        <5>2. s.period = 0
            BY <4>3 DEF Disabled, Once
        <5> QED BY <5>1, <5>2 DEF Periods
      <4> QED BY <1>1, <4>1, <4>2, <4>3 DEF Written
    <3> QED BY <3>1 DEF Requestable, Granting
  <2> DEFINE others == {t \in Subscribed : ~Abstract!SameKey(s, t)}
  <2>2. ASSUME NEW victim \in {{}} \cup {{t} : t \in Subscribed},
               victim \subseteq others,
               victim # {} => others = Subscribed /\ Cardinality(Subscribed) = NSlots,
               others \ victim = Rest(i)
        PROVE  Abstract!SubscriptionsNext(Requestable)
    <3>1. Abstract!Take(s, victim)
      <4>1. Subscribed' = (others \ victim) \cup (IF s.period > 0 THEN {s} ELSE {})
        BY <1>6, <1>7, <2>2
      <4> HIDE DEF Taken
      <4> QED BY <2>2, <4>1, SameCount, Zenon DEF Abstract!Take
    <3> HIDE DEF Taken
    <3> QED BY <2>1, <3>1 DEF Abstract!SubscriptionsNext
  <2>3. CASE Key(slots[i]) = k \/ ((\A j \in Slots : Key(slots[j]) # k) /\ slots[i].period <= Disabled)
    <3>1. \A j \in Slots : j # i => ~Abstract!SameKey(s, Subscription(slots[j]))
        BY <1>5, <1>8, <2>3
    <3>2. slots[i].period > 0 => Abstract!SameKey(s, Subscription(slots[i]))
        BY <1>2, <1>3, <1>5, <2>3 DEF Disabled
    <3> HIDE DEF Taken
    <3>3. others = Rest(i)
        BY <1>2, <3>1, <3>2, OthersThan
    <3> QED BY <2>2, <3>3
  <2>4. CASE (\A j \in Slots : Key(slots[j]) # k) /\ \A j \in Slots : ~(slots[j].period <= Disabled)
    <3>1. \A j \in Slots : slots[j].period > 0 /\ Enabled(j)
        BY <1>3, <2>4 DEF Disabled, Enabled
    <3>2. others = Subscribed
        BY <1>5, <2>4 DEF Subscribed
    <3> DEFINE victim == {Subscription(slots[i])}
    <3>3. Subscription(slots[i]) \in Subscribed /\ Subscribed = Rest(i) \cup victim
        BY <1>2, <3>1, SubscribedSplit DEF Held
    <3>4. Subscription(slots[i]) \notin Rest(i)
        BY <1>2, <3>1, SubscriptionsDiffer DEF Rest
    <3>5. Cardinality(Subscribed) = NSlots
        BY <3>1, FullTable
    <3> HIDE DEF others
    <3> QED BY <2>2, <3>2, <3>3, <3>4, <3>5
  <2> QED BY <1>2, <2>3, <2>4
<1> QED BY <1>9, <1>10

\* Stopping the slots in chosen ends their subscriptions and no other.
LEMMA DisabledEnds ==
    ASSUME TableInv, NEW chosen, Disable(chosen)
    PROVE  Subscribed' = {Subscription(slots[j]) : j \in {l \in Slots : l \notin chosen /\ slots[l].period > 0}}
<1>1. Subscribed' = {Subscription(slots'[j]) : j \in {l \in Slots : slots'[l].period > 0}}
    BY DEF Subscribed, Slots, Subscription
<1>2. \A j \in Slots : IF j \in chosen THEN ~(slots'[j].period > 0) ELSE slots'[j] = slots[j]
    BY DisableWrites DEF Disabled
<1> QED BY <1>1, <1>2

LEMMA StopTakes ==
    ASSUME TableInv
    PROVE  /\ StopBroadcastsAllPorts => [Abstract!SubscriptionsNext(Requestable)]_Subscribed
           /\ \A p \in Ports : StopBroadcastsCurrentPort(p) =>
                [Abstract!SubscriptionsNext(Requestable)]_Subscribed
           /\ \A p \in Ports, d \in Dids : DisableDidBroadcast(p, d) =>
                [Abstract!SubscriptionsNext(Requestable)]_Subscribed
<1>1. ASSUME StopBroadcastsAllPorts PROVE Abstract!StopAll
    BY <1>1, DisabledEnds DEF StopBroadcastsAllPorts, Abstract!StopAll
<1>2. ASSUME NEW p \in Ports, StopBroadcastsCurrentPort(p) PROVE Abstract!StopPort(p)
  <2>1. Subscribed' = {Subscription(slots[j]) : j \in {l \in Slots :
            l \notin {i \in Slots : slots[i].port = p} /\ slots[l].period > 0}}
    BY <1>2, DisabledEnds DEF StopBroadcastsCurrentPort
  <2>2. \A j \in Slots : Subscription(slots[j]).port = slots[j].port
    BY DEF Subscription
  <2>3. Subscribed' = {t \in Subscribed : t.port # p}
    BY <2>1, <2>2 DEF Subscribed
  <2> QED BY <2>3 DEF Abstract!StopPort
<1>3. ASSUME NEW p \in Ports, NEW d \in Dids, DisableDidBroadcast(p, d),
             ~(UNCHANGED Subscribed)
      PROVE  \E t \in Subscribed : Abstract!StopDid(p, t.did)
  <2>1. Subscribed' = {Subscription(slots[j]) : j \in {l \in Slots :
            l \notin {i \in Slots : slots[i].port = p /\ slots[i].did = d} /\ slots[l].period > 0}}
    BY <1>3, DisabledEnds DEF DisableDidBroadcast
  <2>2. \A j \in Slots : /\ Subscription(slots[j]).port = slots[j].port
                         /\ Subscription(slots[j]).did = slots[j].did
    BY DEF Subscription
  <2>3. Subscribed' = {t \in Subscribed : t.port # p \/ t.did # d}
    BY <2>1, <2>2 DEF Subscribed
  <2>4. PICK t \in Subscribed : t.did = d
    BY <1>3, <2>3
  <2> QED BY <2>3, <2>4 DEF Abstract!StopDid
<1> QED BY <1>1, <1>2, <1>3 DEF Abstract!SubscriptionsNext

\* A step of the manager ends single packets only.
LEMMA StepTxKeeps ==
    ASSUME TableInv, NEW room, StepTx(room)
    PROVE  Subscribed' = Subscribed
<1>1. \A j \in Slots : slots[j] \in Slot /\ slots'[j] \in Slot
    BY StepWrites DEF TableInv, SlotsTyped
<1>2. \A j \in Slots : (slots'[j].period > 0) <=> (slots[j].period > 0)
    BY StepWrites DEF Once, Disabled
<1>3. \A j \in Slots : slots[j].period > 0 => Subscription(slots'[j]) = Subscription(slots[j])
  <2> SUFFICES ASSUME NEW j \in Slots, slots[j].period > 0
               PROVE  Subscription(slots'[j]) = Subscription(slots[j])
    OBVIOUS
  <2>1. slots'[j].period = slots[j].period
    BY StepWrites DEF Once
  <2>2. Key(slots'[j]) = Key(slots[j])
    BY StepWrites
  <2>3. /\ Key(slots'[j]).port = Key(slots[j]).port /\ Key(slots'[j]).did = Key(slots[j]).did
        /\ Key(slots'[j]).size = Key(slots[j]).size
    BY <2>2
  <2> QED BY <2>1, <2>3 DEF Key, Subscription
<1>4. Subscribed' = {Subscription(slots'[j]) : j \in {l \in Slots : slots'[l].period > 0}}
    BY DEF Subscribed, Slots, Subscription
<1> QED BY <1>2, <1>3, <1>4 DEF Subscribed

\* SubscriptionsKept, for any table, ports, data sets and periods: a client
\* loses its subscription by a request or a stop that names it, or when every
\* slot holds one and another is asked for.
THEOREM TableIsSubscriptions ==
    ASSUME BroadcastAssumption PROVE BSpec => SubscriptionsKept
<1>1. BInit => Abstract!SubscriptionsInit
    BY DEF BInit, Abstract!SubscriptionsInit, Subscribed, Disabled
<1>2. TableInv /\ [BNext]_bvars => [Abstract!SubscriptionsNext(Requestable)]_Subscribed
  <2> SUFFICES ASSUME TableInv, [BNext]_bvars
               PROVE  [Abstract!SubscriptionsNext(Requestable)]_Subscribed
    OBVIOUS
  <2>1. ASSUME NEW p \in Ports, NEW d \in Dids, NEW n \in Asked, NEW x \in Multiples,
               NEW room \in Buffers, GetDataRequest(p, d, n, x, room)
        PROVE  [Abstract!SubscriptionsNext(Requestable)]_Subscribed
    BY <2>1, RequestTakes
  <2>2. CASE StopBroadcastsAllPorts
    BY <2>2, StopTakes
  <2>3. ASSUME NEW p \in Ports, StopBroadcastsCurrentPort(p)
        PROVE  [Abstract!SubscriptionsNext(Requestable)]_Subscribed
    BY <2>3, StopTakes
  <2>4. ASSUME NEW p \in Ports, NEW d \in Dids, DisableDidBroadcast(p, d)
        PROVE  [Abstract!SubscriptionsNext(Requestable)]_Subscribed
    BY <2>4, StopTakes
  <2>5. ASSUME NEW room \in Buffers, StepTx(room)
        PROVE  [Abstract!SubscriptionsNext(Requestable)]_Subscribed
    BY <2>5, StepTxKeeps
  <2>6. CASE UNCHANGED bvars
    BY <2>6 DEF bvars, Subscribed, Slots, Subscription
  <2> QED BY <2>1, <2>2, <2>3, <2>4, <2>5, <2>6 DEF BNext
<1> QED BY <1>1, <1>2, TableInvariant, PTL DEF BSpec, SubscriptionsKept

----------------------------------------------------------------------------
(***************************************************************************)
(* The list of ensured packets.  An entry's countdown is never found at   *)
(* 0: a step that brings it there sends the packet again and winds it up.  *)
(* So a packet leaves the list by an answer or under another packet, never *)
(* by a countdown.                                                         *)
(***************************************************************************)
NeverZero == \A i \in Entries : ensured[i].counter # 0
EnsuredInv == ETypeOK /\ ListClosed /\ NeverZero

\* First finds the first entry of a set of them.
LEMMA FirstIsLeast ==
    ASSUME NEW S \in SUBSET Entries, S # {}
    PROVE  First(S) \in S /\ \A j \in S : First(S) <= j
<1>1. S \in SUBSET Nat
    BY DEF Entries
<1>2. \E i \in S : \A j \in S : i <= j
    BY <1>1, LeastExists
<1> QED BY <1>2 DEF First

LEMMA NextEntry ==
    ASSUME EnsuredAssumption, NEW n \in Entries
    PROVE  (n % MaxEnsured) + 1 \in Entries
<1>1. MaxEnsured \in Nat /\ MaxEnsured > 0 /\ n \in Nat
    BY DEF EnsuredAssumption, Entries
<1>2. n % MaxEnsured \in 0..(MaxEnsured - 1)
    BY <1>1
<1> QED BY <1>1, <1>2 DEF Entries

\* Every entry before an active one is listed.
LEMMA ActiveIsListed ==
    ASSUME EnsuredAssumption, EnsuredInv, NEW i \in Entries, Active(i)
    PROVE  Listed(i)
<1> SUFFICES ASSUME NEW j \in 1..i, ensured[j].counter = NoMore PROVE FALSE
    BY DEF Listed
<1>1. j \in Entries /\ (j < i \/ j = i)
    BY DEF Entries, EnsuredAssumption
<1>2. ensured[i].counter = NoMore
    BY <1>1 DEF EnsuredInv, ListClosed
<1> QED BY <1>2 DEF Active, NoMore

\* The twins of a packet are all the active entries that hold it.
LEMMA TwinsAreActive ==
    ASSUME EnsuredAssumption, EnsuredInv, NEW r
    PROVE  Twins(r) = {i \in Entries : Active(i) /\ ensured[i].pkt = r}
BY ActiveIsListed DEF Twins, Listed

\* The entry a packet is registered in, and what it displaces.
SlotOf(r) ==
    LET inactive == {i \in Entries : ~Active(i)}
    IN  IF Twins(r) # {} THEN First(Twins(r))
        ELSE IF inactive # {} THEN First(inactive) ELSE (lastIndex % MaxEnsured) + 1

LEMMA SlotFound ==
    ASSUME EnsuredAssumption, EnsuredInv, NEW r \in Requests
    PROVE  /\ SlotOf(r) \in Entries
           /\ \A i \in Entries : i < SlotOf(r) => ensured[i].counter # NoMore
           /\ \A i \in Entries : Active(i) /\ ensured[i].pkt = r => i = SlotOf(r)
           /\ Active(SlotOf(r)) /\ ensured[SlotOf(r)].pkt # r => \A i \in Entries : Active(i)
<1> DEFINE inactive == {i \in Entries : ~Active(i)}
<1>1. CASE Twins(r) # {}
  <2>1. SlotOf(r) \in Twins(r)
    <3>1. Twins(r) \in SUBSET Entries
        BY DEF Twins
    <3> QED BY <1>1, <3>1, FirstIsLeast DEF SlotOf
  <2>2. /\ SlotOf(r) \in Entries /\ Active(SlotOf(r)) /\ ensured[SlotOf(r)].pkt = r
    BY <2>1 DEF Twins
  <2>3. \A i \in Entries : i < SlotOf(r) => i \in 1..SlotOf(r)
    BY <2>2 DEF Entries
  <2>4. \A i \in Entries : i < SlotOf(r) => ensured[i].counter # NoMore
    BY <2>2, <2>3, ActiveIsListed DEF Listed
  <2> QED BY <2>2, <2>4 DEF EnsuredInv, ListClosed
<1>2. CASE Twins(r) = {} /\ inactive # {}
  <2>1. SlotOf(r) = First(inactive) /\ inactive \in SUBSET Entries
    BY <1>2 DEF SlotOf
  <2> HIDE DEF inactive
  <2>2. SlotOf(r) \in inactive /\ \A j \in inactive : SlotOf(r) <= j
    BY <1>2, <2>1, FirstIsLeast
  <2> USE DEF inactive
  <2>3. SlotOf(r) \in Entries /\ ~Active(SlotOf(r))
    BY <2>2
  <2>4. \A i \in Entries : i < SlotOf(r) => Active(i)
    BY <2>2, <2>3 DEF Entries
  <2> QED BY <1>2, <2>3, <2>4, TwinsAreActive DEF Active, NoMore
<1>3. CASE Twins(r) = {} /\ inactive = {}
  <2>1. SlotOf(r) = (lastIndex % MaxEnsured) + 1
    BY <1>3 DEF SlotOf
  <2>2. SlotOf(r) \in Entries
    BY <2>1, NextEntry DEF EnsuredInv, ETypeOK
  <2>3. \A i \in Entries : Active(i)
    BY <1>3
  <2> QED BY <1>3, <2>2, <2>3, TwinsAreActive DEF Active, NoMore
<1> QED BY <1>1, <1>2, <1>3

LEMMA RegisterFills ==
    ASSUME EnsuredAssumption, EnsuredInv, NEW r \in Requests, registerPacketRetry(r)
    PROVE  /\ ensured' = [ensured EXCEPT ![SlotOf(r)] = [counter |-> RetryCount, pkt |-> r]]
           /\ lastIndex' \in Entries
<1>1. ensured' = [ensured EXCEPT ![SlotOf(r)] = [counter |-> RetryCount, pkt |-> r]]
    BY Zenon DEF registerPacketRetry, SlotOf
<1>2. lastIndex' \in {1, SlotOf(r)}
    BY Zenon DEF registerPacketRetry, SlotOf
<1> QED BY <1>1, <1>2, SlotFound DEF EnsuredAssumption, Entries

\* Registering a packet keeps the list without gaps and without duplicates.
LEMMA RegisterKeeps ==
    ASSUME EnsuredAssumption, EnsuredInv, NEW r \in Requests, registerPacketRetry(r),
           toDevice' \subseteq Requests, toHost' \subseteq Packets
    PROVE  EnsuredInv'
<1> DEFINE s == SlotOf(r)
<1>1. /\ s \in Entries
      /\ \A i \in Entries : i < s => ensured[i].counter # NoMore
      /\ \A i \in Entries : Active(i) /\ ensured[i].pkt = r => i = s
    BY SlotFound
<1>2. /\ ensured' = [ensured EXCEPT ![s] = [counter |-> RetryCount, pkt |-> r]]
      /\ lastIndex' \in Entries
    BY RegisterFills
<1> HIDE DEF s
<1>3. ensured \in [Entries -> [counter : NoMore..RetryCount, pkt : Requests]]
    BY DEF EnsuredInv, ETypeOK
<1>4. RetryCount \in Nat /\ RetryCount > 0
    BY DEF EnsuredAssumption
<1>5. [counter |-> RetryCount, pkt |-> r] \in [counter : NoMore..RetryCount, pkt : Requests]
    BY <1>4 DEF NoMore
<1>6. ensured' \in [Entries -> [counter : NoMore..RetryCount, pkt : Requests]]
    BY <1>1, <1>2, <1>3, <1>5
<1>7. /\ ensured'[s].counter = RetryCount /\ ensured'[s].pkt = r
      /\ \A i \in Entries : i # s => ensured'[i] = ensured[i]
    BY <1>1, <1>2, <1>3
<1>8. ETypeOK'
    BY <1>2, <1>6 DEF ETypeOK, Entries, Packets
<1>9. \A i, j \in Entries :
        i < j /\ ensured'[i].counter = NoMore => ensured'[j].counter = NoMore
  <2> SUFFICES ASSUME NEW i \in Entries, NEW j \in Entries, i < j, ensured'[i].counter = NoMore
               PROVE  ensured'[j].counter = NoMore
    OBVIOUS
  <2>1. i # s
    BY <1>4, <1>7 DEF NoMore
  <2>2. ensured[i].counter = NoMore /\ ~(i < s)
    BY <1>1, <1>7, <2>1
  <2>3. j # s
    BY <1>1, <2>1, <2>2 DEF Entries
  <2>4. ensured[j].counter = NoMore
    BY <2>2 DEF EnsuredInv, ListClosed
  <2> QED BY <1>7, <2>3, <2>4
<1>10. \A i, j \in Entries :
        ensured'[i].counter >= 0 /\ ensured'[j].counter >= 0 /\ ensured'[i].pkt = ensured'[j].pkt => i = j
    BY <1>1, <1>7 DEF EnsuredInv, ListClosed, Active
<1>11. \A i \in Entries : ensured'[i].counter # 0
    BY <1>4, <1>7 DEF EnsuredInv, NeverZero
<1> QED BY <1>8, <1>9, <1>10, <1>11 DEF EnsuredInv, ListClosed, NeverZero, Active, Entries

\* A step counts down, or winds up, but never gives a packet up.
LEMMA StepCounts ==
    ASSUME EnsuredAssumption, EnsuredInv, stepPacketRetry, NEW i \in Entries
    PROVE  /\ ensured'[i] \in [counter : NoMore..RetryCount, pkt : Requests]
           /\ ensured'[i].pkt = ensured[i].pkt
           /\ Active(i) => ensured'[i].counter > 0
           /\ ~Active(i) => ensured'[i] = ensured[i]
<1> DEFINE e == ensured[i]
<1>1. e \in [counter : NoMore..RetryCount, pkt : Requests] /\ e.counter # 0
    BY DEF EnsuredInv, ETypeOK, NeverZero
<1>2. ensured'[i] = IF Due(i) THEN [e EXCEPT !.counter = RetryCount]
                    ELSE IF Listed(i) /\ Active(i) THEN [e EXCEPT !.counter = @ - 1]
                    ELSE e
    BY DEF stepPacketRetry
<1>3. RetryCount \in Nat /\ RetryCount > 0
    BY DEF EnsuredAssumption
<1>4. CASE Due(i)
    BY <1>1, <1>2, <1>3, <1>4 DEF Due, Active, NoMore
<1>5. CASE ~Due(i) /\ Active(i)
  <2>1. Listed(i)
    BY <1>5, ActiveIsListed
  <2>2. e.counter > 1
    BY <1>1, <1>5, <2>1 DEF Due, Active, NoMore
  <2>3. ensured'[i] = [e EXCEPT !.counter = @ - 1]
    BY <1>2, <1>5, <2>1
  <2> QED BY <1>1, <1>3, <1>5, <2>2, <2>3 DEF NoMore
<1>6. CASE ~Due(i) /\ ~Active(i)
    BY <1>1, <1>2, <1>6
<1> QED BY <1>4, <1>5, <1>6

LEMMA StepKeeps ==
    ASSUME EnsuredAssumption, EnsuredInv, stepPacketRetry
    PROVE  EnsuredInv'
<1> DEFINE Entry == [counter : NoMore..RetryCount, pkt : Requests]
<1>1. \A i \in Entries :
        /\ ensured'[i] \in Entry /\ ensured'[i].pkt = ensured[i].pkt
        /\ Active(i) => ensured'[i].counter > 0
        /\ ~Active(i) => ensured'[i] = ensured[i]
    BY StepCounts
<1>2. \A i \in Entries : (ensured'[i].counter >= 0 => Active(i))
    BY <1>1 DEF Active
<1>3. ensured' \in [Entries -> Entry]
  <2> DEFINE counted == [i \in Entries |->
                    IF Due(i) THEN [ensured[i] EXCEPT !.counter = RetryCount]
                    ELSE IF Listed(i) /\ Active(i) THEN [ensured[i] EXCEPT !.counter = @ - 1]
                    ELSE ensured[i]]
  <2>1. ensured' = counted
    BY DEF stepPacketRetry
  <2>2. \A i \in Entries : counted[i] \in Entry
    BY <1>1, <2>1
  <2>3. counted = [i \in Entries |-> counted[i]]
    OBVIOUS
  <2> HIDE DEF counted
  <2> QED BY <2>1, <2>2, <2>3
<1>4. \A j \in Entries : ensured[j].pkt \in Requests
    BY DEF EnsuredInv, ETypeOK
<1>5. toDevice' \subseteq Requests /\ lastIndex' \in Entries /\ toHost' \subseteq Packets
    BY <1>4 DEF stepPacketRetry, EnsuredInv, ETypeOK, Packets, Entries
<1>6. ETypeOK'
    BY <1>3, <1>5 DEF ETypeOK, Entries, Packets
<1>7. \A i, j \in Entries :
        i < j /\ ensured'[i].counter = NoMore => ensured'[j].counter = NoMore
  <2> SUFFICES ASSUME NEW i \in Entries, NEW j \in Entries, i < j, ensured'[i].counter = NoMore
               PROVE  ensured'[j].counter = NoMore
    OBVIOUS
  <2>1. ensured[i].counter = NoMore
    BY <1>1 DEF NoMore
  <2>2. ensured[j].counter = NoMore
    BY <2>1 DEF EnsuredInv, ListClosed
  <2> QED BY <1>1, <2>2 DEF Active, NoMore
<1>8. \A i, j \in Entries :
        ensured'[i].counter >= 0 /\ ensured'[j].counter >= 0 /\ ensured'[i].pkt = ensured'[j].pkt => i = j
    BY <1>1, <1>2 DEF EnsuredInv, ListClosed
<1>9. \A i \in Entries : ensured'[i].counter # 0
    BY <1>1 DEF EnsuredInv, NeverZero
<1> QED BY <1>6, <1>7, <1>8, <1>9 DEF EnsuredInv, ListClosed, NeverZero, Active, Entries

\* An answer deactivates the entries it is for, and those only.
LEMMA RemovedKeeps ==
    ASSUME EnsuredAssumption, EnsuredInv, NEW chosen \in SUBSET Entries, ensured' = Removed(chosen),
           lastIndex' \in Entries, toDevice' \subseteq Requests, toHost' \subseteq Packets
    PROVE  /\ EnsuredInv'
           /\ \A i \in Entries : Active(i) /\ i \notin chosen => ensured'[i] = ensured[i]
<1> DEFINE Entry == [counter : NoMore..RetryCount, pkt : Requests]
           off == [i \in Entries |->
                    IF Listed(i) /\ Active(i) /\ i \in chosen
                    THEN [ensured[i] EXCEPT !.counter = Off] ELSE ensured[i]]
           Empty(i) == \A j \in i..MaxEnsured : off[j].counter < 0
           full == [i \in Entries |-> IF Empty(i) THEN [off[i] EXCEPT !.counter = NoMore] ELSE off[i]]
           ended == \E i \in Entries : ensured[i].counter = NoMore
<1>1. ensured' = IF ended THEN off ELSE full
    BY DEF Removed
<1>2. RetryCount \in Nat /\ RetryCount > 0 /\ ensured \in [Entries -> Entry]
    BY DEF EnsuredAssumption, EnsuredInv, ETypeOK
<1>3. \A i \in Entries :
        /\ off[i] \in Entry /\ off[i].pkt = ensured[i].pkt
        /\ off[i] = ensured[i] \/ (Active(i) /\ i \in chosen /\ off[i].counter = Off)
    BY <1>2 DEF Off, NoMore, Active
<1>4. off \in [Entries -> Entry]
    BY <1>3
<1> HIDE DEF off
<1>5. \A i \in Entries : off[i].counter >= 0 => off[i] = ensured[i]
    BY <1>3 DEF Off
<1>6. \A i \in Entries : i \in i..MaxEnsured
    BY DEF Entries, EnsuredAssumption
<1>7. \A i \in Entries :
        full[i] = off[i] \/ (full[i] = [off[i] EXCEPT !.counter = NoMore] /\ off[i].counter < 0)
    BY <1>6, Zenon
<1>8. \A i \in Entries :
        /\ full[i] \in Entry /\ full[i].pkt = off[i].pkt
        /\ full[i] = off[i] \/ (full[i].counter = NoMore /\ off[i].counter < 0)
    BY <1>2, <1>3, <1>7 DEF NoMore
<1>9. full \in [Entries -> Entry]
    BY <1>8
<1>10. \A i, j \in Entries :
        i < j /\ ensured'[i].counter = NoMore => ensured'[j].counter = NoMore
  <2> SUFFICES ASSUME NEW i \in Entries, NEW j \in Entries, i < j, ensured'[i].counter = NoMore
               PROVE  ensured'[j].counter = NoMore
    OBVIOUS
  <2>1. CASE ended
    <3>1. ensured[i].counter = NoMore
        BY <1>1, <1>3, <2>1 DEF Off, NoMore
    <3>2. ensured[j].counter = NoMore
        BY <3>1 DEF EnsuredInv, ListClosed
    <3>3. off[j] = ensured[j]
        BY <1>3, <3>2 DEF Active, NoMore
    <3> QED BY <1>1, <2>1, <3>2, <3>3
  <2>2. CASE ~ended
    <3>1. full[i].counter = NoMore /\ ensured' = full
        BY <1>1, <2>2
    <3>2. off[i].counter # NoMore
        BY <1>3, <2>2 DEF Off, NoMore
    <3>3. Empty(i)
        BY <3>1, <3>2, Zenon
    <3>4. \A k \in j..MaxEnsured : k \in i..MaxEnsured
        BY DEF Entries, EnsuredAssumption
    <3>5. Empty(j)
        BY <3>3, <3>4
    <3>6. full[j] = [off[j] EXCEPT !.counter = NoMore]
        BY <3>5, Zenon
    <3> HIDE DEF full
    <3> QED BY <1>3, <3>1, <3>6
  <2> QED BY <2>1, <2>2
<1> HIDE DEF full, ended
<1>11. \A i \in Entries :
        /\ ensured'[i].counter >= 0 => ensured'[i] = ensured[i]
        /\ ensured'[i].counter # 0
        /\ Active(i) /\ i \notin chosen => ensured'[i] = ensured[i]
  <2> TAKE i \in Entries
  <2>1. off[i].counter # 0 /\ (off[i].counter < 0 \/ off[i].counter >= 0)
    BY <1>3 DEF Off, NoMore, EnsuredInv, NeverZero
  <2>2. Active(i) /\ i \notin chosen => off[i] = ensured[i] /\ ~(off[i].counter < 0)
    BY <1>2, <1>3 DEF Active, NoMore
  <2>3. full[i].counter >= 0 => full[i] = off[i]
    BY <1>8 DEF NoMore
  <2>4. full[i].counter # 0
    BY <1>8, <2>1 DEF NoMore
  <2> QED BY <1>1, <1>5, <1>8, <2>1, <2>2, <2>3, <2>4
<1>12. ETypeOK'
    BY <1>1, <1>4, <1>9 DEF ETypeOK, Entries, Packets
<1>13. \A i, j \in Entries :
        ensured'[i].counter >= 0 /\ ensured'[j].counter >= 0 /\ ensured'[i].pkt = ensured'[j].pkt => i = j
    BY <1>11 DEF EnsuredInv, ListClosed, Active
<1> QED BY <1>10, <1>11, <1>12, <1>13 DEF EnsuredInv, ListClosed, NeverZero, Active, Entries

LEMMA EnsuredInit == ASSUME EnsuredAssumption PROVE EInit => EnsuredInv
<1> SUFFICES ASSUME EInit PROVE EnsuredInv
    OBVIOUS
<1>1. (CHOOSE r \in Requests : TRUE) \in Requests
    BY DEF EnsuredAssumption
<1>2. RetryCount \in Nat /\ MaxEnsured \in Nat \ {0}
    BY DEF EnsuredAssumption
<1>3. \A i \in Entries : ensured[i].counter = NoMore
    BY DEF EInit
<1>4. ensured \in [Entries -> [counter : NoMore..RetryCount, pkt : Requests]]
    BY <1>1, <1>2 DEF EInit, NoMore
<1>5. ETypeOK
    BY <1>2, <1>4 DEF EInit, ETypeOK, Entries
<1> QED BY <1>3, <1>5 DEF EnsuredInv, ListClosed, NeverZero, Active, NoMore

\* A reply the manager processes, of either kind.
LEMMA RxKeeps ==
    ASSUME EnsuredAssumption, EnsuredInv, NEW m \in Packets, comManagerStepRx(m)
    PROVE  EnsuredInv'
<1>1. lastIndex' \in Entries /\ toDevice' \subseteq Requests /\ toHost' \subseteq Packets
    BY DEF comManagerStepRx, EnsuredInv, ETypeOK
<1>2. CASE m.kind \notin Dispatched
    BY <1>1, <1>2 DEF comManagerStepRx, EnsuredInv, ETypeOK, ListClosed, NeverZero, Active, Entries, Packets
<1>3. CASE m.kind \in Dispatched /\ m.kind = "data"
    BY <1>1, <1>3, RemovedKeeps DEF comManagerStepRx, updatePacketRetryData
<1>4. CASE m.kind \in Dispatched /\ m.kind # "data"
    BY <1>1, <1>4, RemovedKeeps DEF comManagerStepRx, updatePacketRetryAck
<1> QED BY <1>2, <1>3, <1>4

\* The list is sound after any number of requests, replies and steps, whether
\* or not acknowledgements are processed.
THEOREM EnsuredInvariant == ASSUME EnsuredAssumption PROVE ESpec => []EnsuredInv
<1>1. EInit => EnsuredInv
    BY EnsuredInit
<1>2. EnsuredInv /\ [ENext]_evars => EnsuredInv'
  <2> SUFFICES ASSUME EnsuredInv, [ENext]_evars PROVE EnsuredInv'
    OBVIOUS
  <2>1. ASSUME NEW r \in Requests, comManagerSendEnsured(r) PROVE EnsuredInv'
    <3>1. toDevice' \subseteq Requests /\ toHost' \subseteq Packets
        BY <2>1 DEF comManagerSendEnsured, EnsuredInv, ETypeOK
    <3> QED BY <2>1, <3>1, RegisterKeeps DEF comManagerSendEnsured
  <2>2. ASSUME NEW r \in Requests, Answer(r) PROVE EnsuredInv'
    <3>1. Reply(r) \in Packets
        BY DEF Reply, Packets, Ids
    <3>2. ETypeOK'
        BY <2>2, <3>1 DEF Answer, EnsuredInv, ETypeOK, Entries, Packets
    <3>3. ListClosed' /\ NeverZero'
        BY <2>2 DEF Answer, EnsuredInv, ListClosed, NeverZero, Active, Entries
    <3> QED BY <3>2, <3>3 DEF EnsuredInv
  <2>3. CASE stepPacketRetry
    BY <2>3, StepKeeps
  <2>4. ASSUME NEW m \in Packets, comManagerStepRx(m) PROVE EnsuredInv'
    BY <2>4, RxKeeps
  <2>5. CASE UNCHANGED evars
    BY <2>5 DEF evars, EnsuredInv, ETypeOK, ListClosed, NeverZero, Active, Entries, Packets
  <2> QED BY <2>1, <2>2, <2>3, <2>4, <2>5 DEF ENext
<1> QED BY <1>1, <1>2, PTL DEF ESpec

\* The retry list of com_manager.c is well formed: no packet behind its end,
\* none in it twice.
THEOREM ListIsClosed == ASSUME EnsuredAssumption PROVE ESpec => []ListSound
<1>1. EnsuredInv => ListSound
    BY DEF EnsuredInv, ListSound
<1> QED BY <1>1, EnsuredInvariant, PTL

\* RetryKept, for any list length, retry count and requests, as long as the
\* manager dispatches data only, which is what comManagerStepRx does.
THEOREM RetryIsKept ==
    ASSUME EnsuredAssumption, "ack" \notin Dispatched PROVE ESpec => RetryKept
<1>1. EnsuredInv /\ [ENext]_evars => [GivenUpForData]_evars
  <2> SUFFICES ASSUME EnsuredInv, ENext, NEW i \in Entries, Active(i)
               PROVE \/ Active(i)' /\ ensured'[i].pkt = ensured[i].pkt
                     \/ [kind |-> "data", id |-> ensured[i].pkt.id] \in toHost \ toHost'
                     \/ \A j \in Entries : Active(j) /\ Active(j)'
    BY DEF GivenUpForData
  <2>1. ASSUME NEW r \in Requests, comManagerSendEnsured(r)
        PROVE \/ Active(i)' /\ ensured'[i].pkt = ensured[i].pkt
              \/ \A j \in Entries : Active(j) /\ Active(j)'
    <3> DEFINE s == SlotOf(r)
    <3>1. /\ s \in Entries
          /\ Active(s) /\ ensured[s].pkt # r => \A j \in Entries : Active(j)
        BY SlotFound
    <3>2. ensured' = [ensured EXCEPT ![s] = [counter |-> RetryCount, pkt |-> r]]
        BY <2>1, RegisterFills DEF comManagerSendEnsured
    <3> HIDE DEF s
    <3>3. ensured'[s].counter >= 0 /\ ensured'[s].pkt = r
          /\ \A j \in Entries : j # s => ensured'[j] = ensured[j]
        BY <3>1, <3>2 DEF EnsuredInv, ETypeOK, EnsuredAssumption
    <3>4. CASE i # s
        BY <3>3, <3>4 DEF Active
    <3>5. CASE i = s /\ ensured[s].pkt = r
        BY <3>3, <3>5 DEF Active
    <3>6. CASE i = s /\ ensured[s].pkt # r
        BY <3>1, <3>3, <3>6 DEF Active
    <3> QED BY <3>4, <3>5, <3>6
  <2>2. ASSUME NEW r \in Requests, Answer(r)
        PROVE Active(i)' /\ ensured'[i].pkt = ensured[i].pkt
    BY <2>2 DEF Answer, Active
  <2>3. ASSUME stepPacketRetry PROVE Active(i)' /\ ensured'[i].pkt = ensured[i].pkt
    <3>1. /\ ensured'[i] \in [counter : NoMore..RetryCount, pkt : Requests]
          /\ ensured'[i].pkt = ensured[i].pkt /\ ensured'[i].counter > 0
        BY <2>3, StepCounts
    <3> QED BY <3>1 DEF Active, EnsuredAssumption, NoMore
  <2>4. ASSUME NEW m \in Packets, comManagerStepRx(m)
        PROVE \/ Active(i)' /\ ensured'[i].pkt = ensured[i].pkt
              \/ [kind |-> "data", id |-> ensured[i].pkt.id] \in toHost \ toHost'
    <3>1. lastIndex' \in Entries /\ toDevice' \subseteq Requests /\ toHost' \subseteq Packets
        BY <2>4 DEF comManagerStepRx, EnsuredInv, ETypeOK
    <3>2. CASE m.kind \notin Dispatched
        BY <2>4, <3>2 DEF comManagerStepRx, Active
    <3>3. CASE m.kind \in Dispatched
      <4> DEFINE chosen == {k \in Entries : ensured[k].pkt.id = m.id}
      <4>1. m.kind = "data"
        BY <3>3 DEF EnsuredAssumption
      <4>2. ensured' = Removed(chosen)
        BY <2>4, <3>3, <4>1 DEF comManagerStepRx, updatePacketRetryData
      <4>3. i \notin chosen => ensured'[i] = ensured[i]
        BY <3>1, <4>2, RemovedKeeps
      <4>4. i \in chosen => m = [kind |-> "data", id |-> ensured[i].pkt.id]
        BY <4>1 DEF Packets
      <4>5. m \in toHost /\ m \notin toHost'
        BY <2>4 DEF comManagerStepRx
      <4> QED BY <4>3, <4>4, <4>5 DEF Active
    <3> QED BY <3>2, <3>3
  <2> QED BY <2>1, <2>2, <2>3, <2>4 DEF ENext
<1> QED BY <1>1, EnsuredInvariant, PTL DEF ESpec, RetryKept

----------------------------------------------------------------------------
(***************************************************************************)
(* The ring buffer, for memories of any size and writes of any length.     *)
(* The byte of the queue at k is in the memory k - 1 places after the read *)
(* pointer, round the end; a write goes to the places after the last one,  *)
(* of which those that are left when it overflows are not the queue's.     *)
(***************************************************************************)
RingInv ==
    /\ RTypeOK /\ fifo \in Seq(Int) /\ Used = Len(fifo)
    /\ ~torn => \A k \in 1..Len(fifo) : mem[(rd + (k - 1)) % BufSize] = fifo[k]

\* Round the end of the memory.
LEMMA Around ==
    ASSUME NEW b \in Nat, b > 0
    PROVE  /\ \A x \in Int : x % b \in 0..b - 1
           /\ \A x \in 0..b - 1 : x % b = x
           /\ \A x \in b..(2 * b) - 1 : x % b = x - b
<1>1. \A x \in Int : x % b \in 0..b - 1
  OBVIOUS
<1>2. \A x \in 0..b - 1 : x % b = x
  OBVIOUS
<1>3. \A y \in Int : y - b \in 0..b - 1 => y % b = y - b
  OBVIOUS
<1>4. ASSUME NEW x \in b..(2 * b) - 1 PROVE x % b = x - b
  <2>1. x \in Int /\ x - b \in 0..b - 1
    OBVIOUS
  <2> QED BY <1>3, <2>1
<1> QED BY <1>1, <1>2, <1>4

LEMMA RingUsed ==
    ASSUME RingAssumption, RTypeOK
    PROVE  /\ BufSize \in Nat /\ BufSize > 1 /\ wr \in 0..BufSize - 1 /\ rd \in 0..BufSize - 1
           /\ Used \in 0..BufSize - 1 /\ Free = (BufSize - 1) - Used
           /\ (rd + Used = wr \/ rd + Used = wr + BufSize)
BY DEF RingAssumption, RTypeOK, Offsets, Used, Free

LEMMA RingInit == ASSUME RingAssumption, RInit PROVE RingInv
<1>1. BufSize \in Nat /\ BufSize > 1 /\ MaxBytes \in Nat /\ 0 \in 0..BufSize - 1
  BY DEF RingAssumption
<1>2. mem \in [Offsets -> 0..MaxBytes]
  BY <1>1 DEF RInit
<1>3. RTypeOK
  BY <1>1, <1>2 DEF RInit, RTypeOK, Offsets
<1>4. Used = 0 /\ fifo = <<>> /\ Len(fifo) = 0 /\ fifo \in Seq(Int)
  BY <1>1 DEF RInit, Used
<1> QED BY <1>3, <1>4 DEF RingInv

\* Bytes leave the queue, and the memory stays.
LEMMA DropKeeps ==
    ASSUME RingAssumption, RingInv, NEW n \in 0..Used, Drop(n) PROVE RingInv'
<1>1. /\ BufSize \in Nat /\ BufSize > 1 /\ wr \in 0..BufSize - 1 /\ rd \in 0..BufSize - 1
      /\ Used \in 0..BufSize - 1
  BY RingUsed DEF RingInv
<1>2. /\ rd' = (rd + n) % BufSize /\ fifo' = SubSeq(fifo, n + 1, Len(fifo))
      /\ mem' = mem /\ wr' = wr /\ written' = written /\ torn' = torn
  BY DEF Drop
<1>3. rd' = IF rd + n < BufSize THEN rd + n ELSE (rd + n) - BufSize
  <2>1. rd + n \in 0..(2 * BufSize) - 1 /\ n \in Int
    BY <1>1
  <2>2. \A x \in 0..(2 * BufSize) - 1 : x % BufSize = IF x < BufSize THEN x ELSE x - BufSize
    BY <1>1, Around
  <2> QED BY <1>2, <2>1, <2>2
<1>4. fifo \in Seq(Int) /\ Len(fifo) = Used /\ n \in Int
  BY <1>1 DEF RingInv
<1>5. /\ fifo' \in Seq(Int) /\ Len(fifo') = Used - n
      /\ \A k \in 1..Used - n : fifo'[k] = fifo[n + k]
  <2>1. n + 1 \in 1..Len(fifo) + 1 /\ Len(fifo) \in 0..Len(fifo) /\ Len(fifo) \in Nat
    BY <1>1, <1>4
  <2> QED BY <1>1, <1>2, <1>4, <2>1
<1>6. Used' = Used - n
  BY <1>1, <1>2, <1>3 DEF Used
<1>7. RTypeOK'
  BY <1>1, <1>2, <1>3 DEF RingInv, RTypeOK, Offsets
<1>8. ASSUME ~torn', NEW k \in 1..Len(fifo') PROVE mem'[(rd' + (k - 1)) % BufSize] = fifo'[k]
  <2>1. k \in Int /\ n + k \in 1..Len(fifo) /\ (n + k) - 1 < BufSize
    <3>1. k \in 1..(Used - n) /\ Len(fifo) = Used
      BY <1>4, <1>5, <1>8
    <3>2. Used \in Int /\ n \in Nat /\ n <= Used /\ Used <= BufSize
      BY <1>1
    <3>3. PICK u \in Int : u = Used
      BY <3>2
    <3> QED BY <1>1, <3>1, <3>2, <3>3
  <2>2. mem[(rd + ((n + k) - 1)) % BufSize] = fifo[n + k]
    BY <1>2, <1>8, <2>1 DEF RingInv
  <2>3. (rd' + (k - 1)) % BufSize = (rd + ((n + k) - 1)) % BufSize
    <3> DEFINE x == rd + ((n + k) - 1)
               y == rd' + (k - 1)
    <3>1. x \in 0..(2 * BufSize) - 1 /\ y \in 0..(2 * BufSize) - 1 /\ (y = x \/ y = x - BufSize)
      BY <1>1, <1>3, <1>4, <2>1
    <3> HIDE DEF x, y
    <3>2. x % BufSize = IF x < BufSize THEN x ELSE x - BufSize
      BY <1>1, <3>1, Around
    <3>3. y % BufSize = IF y < BufSize THEN y ELSE y - BufSize
      BY <1>1, <3>1, Around
    <3>4. x % BufSize = y % BufSize
      BY <1>1, <3>1, <3>2, <3>3
    <3> QED BY <3>4 DEF x, y
  <2> QED BY <1>2, <1>5, <1>8, <2>1, <2>2, <2>3
<1> QED BY <1>5, <1>6, <1>7, <1>8 DEF RingInv

LEMMA Joining ==
    ASSUME NEW s \in Seq(Int), NEW t \in Seq(Int)
    PROVE  /\ s \o t \in Seq(Int) /\ Len(s \o t) = Len(s) + Len(t)
           /\ \A j \in 1..Len(s) + Len(t) : (s \o t)[j] = IF j <= Len(s) THEN s[j] ELSE t[j - Len(s)]
OBVIOUS

LEMMA SubSeqIs ==
    ASSUME NEW S, NEW s \in Seq(S), NEW a \in Nat, NEW b \in Nat, a <= b, b <= Len(s)
    PROVE  /\ SubSeq(s, a + 1, b) \in Seq(S) /\ Len(SubSeq(s, a + 1, b)) = b - a
           /\ \A i \in 1..(b - a) : SubSeq(s, a + 1, b)[i] = s[a + i]
OBVIOUS

LEMMA Ending ==
    ASSUME NEW s \in Seq(Int), NEW n \in Nat, NEW m \in Nat, Len(s) = n + m
    PROVE  /\ SubSeq(s, n + 1, Len(s)) \in Seq(Int) /\ Len(SubSeq(s, n + 1, Len(s))) = m
           /\ \A k \in 1..m : SubSeq(s, n + 1, Len(s))[k] = s[n + k]
<1>1. PICK b \in Nat : b = Len(s)
  OBVIOUS
<1>2. n <= b /\ b <= Len(s) /\ b - n = m
  BY <1>1
<1>3. /\ SubSeq(s, n + 1, b) \in Seq(Int) /\ Len(SubSeq(s, n + 1, b)) = b - n
      /\ \A k \in 1..(b - n) : SubSeq(s, n + 1, b)[k] = s[n + k]
  BY <1>1, <1>2, SubSeqIs
<1> QED BY <1>1, <1>2, <1>3

LEMMA QueueGrows ==
    ASSUME RingAssumption, RingInv, NEW n \in Lengths,
           fifo' = Newest(fifo \o [k \in 1..n |-> written + k])
    PROVE  LET kept == IF Used + n < BufSize THEN Used + n ELSE BufSize - 1
               gone == (Used + n) - kept
           IN  /\ fifo' \in Seq(Int) /\ Len(fifo') = kept /\ gone \in Nat /\ kept \in Nat
               /\ \A k \in 1..kept : fifo'[k] = IF gone + k <= Used THEN fifo[gone + k]
                                                ELSE written + ((gone + k) - Used)
<1> DEFINE kept == IF Used + n < BufSize THEN Used + n ELSE BufSize - 1
           gone == (Used + n) - kept
           new == [k \in 1..n |-> written + k]
           both == fifo \o new
<1>1. /\ BufSize \in Nat /\ BufSize > 1 /\ Used \in 0..BufSize - 1
      /\ n \in Nat /\ n > 0 /\ written \in Int /\ fifo \in Seq(Int) /\ Len(fifo) = Used
  BY RingUsed DEF RingInv, RTypeOK, RingAssumption
<1>2. new \in Seq(Int) /\ Len(new) = n /\ \A k \in 1..n : new[k] = written + k
  BY <1>1
<1> HIDE DEF new
<1>3. both \in Seq(Int) /\ Len(both) = Used + n
      /\ \A j \in 1..Used + n : both[j] = IF j <= Used THEN fifo[j] ELSE new[j - Used]
  BY <1>1, <1>2, Joining
<1> HIDE DEF both
<1>4. kept \in Nat /\ gone \in Nat /\ kept = Smaller(Len(both), BufSize - 1) /\ gone + kept = Used + n
  BY <1>1, <1>3, SMTT(30) DEF Smaller
<1>5. fifo' = SubSeq(both, gone + 1, Len(both))
  BY <1>3, <1>4 DEF Newest, both, new
<1> HIDE DEF kept, gone
<1>6. /\ fifo' \in Seq(Int) /\ Len(fifo') = kept
      /\ \A k \in 1..kept : fifo'[k] = both[gone + k]
  <2>1. Len(both) = gone + kept
    BY <1>3, <1>4
  <2>2. /\ SubSeq(both, gone + 1, Len(both)) \in Seq(Int)
        /\ Len(SubSeq(both, gone + 1, Len(both))) = kept
        /\ \A k \in 1..kept : SubSeq(both, gone + 1, Len(both))[k] = both[gone + k]
    BY <1>3, <1>4, <2>1, Ending
  <2> QED BY <1>5, <2>2
<1>7. ASSUME NEW k \in 1..kept
      PROVE  fifo'[k] = IF gone + k <= Used THEN fifo[gone + k] ELSE written + ((gone + k) - Used)
  <2>1. gone + k \in 1..Used + n
    BY <1>1, <1>4
  <2>2. gone + k > Used => (gone + k) - Used \in 1..n
    BY <1>1, <2>1
  <2>3. fifo'[k] = IF gone + k <= Used THEN fifo[gone + k] ELSE new[(gone + k) - Used]
    BY <1>3, <1>6, <1>7, <2>1
  <2>4. CASE gone + k <= Used
    BY <2>3, <2>4
  <2>5. CASE ~(gone + k <= Used)
    <3>1. gone + k > Used
      BY <1>1, <2>1, <2>5
    <3> QED BY <1>2, <2>2, <2>3, <2>5, <3>1
  <2> QED BY <2>4, <2>5
<1> QED BY <1>4, <1>6, <1>7 DEF kept, gone

\* The last of the bytes that are written to a place.
LEMMA LatestWrite ==
    ASSUME NEW n \in Nat, NEW W \in SUBSET (0..n - 1), W # {}
    PROVE  (CHOOSE k \in W : \A j \in W : j <= k) \in W
<1> DEFINE back == {i \in Nat : (n - 1) - i \in W}
<1>1. \A k \in W : k \in Int /\ (n - 1) - k \in Nat /\ (n - 1) - ((n - 1) - k) = k
  OBVIOUS
<1>2. back # {} /\ back \in SUBSET Nat
  BY <1>1
<1>3. PICK i \in back : \A j \in back : i <= j
  <2> HIDE DEF back
  <2> QED BY <1>2, LeastExists
<1>4. (n - 1) - i \in W /\ \A j \in W : j <= (n - 1) - i
  <2>1. \A j \in W : (n - 1) - j \in back
    BY <1>1
  <2> QED BY <1>1, <1>3, <2>1
<1> QED BY <1>4

LEMMA RemainderLess == ASSUME NEW b \in Nat, b > 0, NEW x \in Nat PROVE x % b \in Nat /\ x % b <= x
<1>1. x % b \in 0..b - 1 /\ (x \in 0..b - 1 => x % b = x)
  BY Around
<1> QED BY <1>1

LEMMA WriteKeeps ==
    ASSUME RingAssumption, RingInv, NEW n \in Lengths, ringBufWrite(n) PROVE RingInv'
<1> DEFINE toEnd == BufSize - wr
           Source(k) == IF k < toEnd THEN k ELSE (k - toEnd) % BufSize
           Writes(o) == {k \in 0..(n - 1) : (wr + k) % BufSize = o}
           Latest(o) == CHOOSE k \in Writes(o) : \A j \in Writes(o) : j <= k
           stop == (wr + n) % BufSize
           kept == IF Used + n < BufSize THEN Used + n ELSE BufSize - 1
           gone == (Used + n) - kept
<1>1. /\ BufSize \in Nat /\ BufSize > 1 /\ wr \in 0..BufSize - 1 /\ rd \in 0..BufSize - 1
      /\ Used \in 0..BufSize - 1 /\ Free = (BufSize - 1) - Used
      /\ (rd + Used = wr \/ rd + Used = wr + BufSize)
      /\ n \in Nat /\ n > 0 /\ toEnd \in 1..BufSize
  BY RingUsed DEF RingInv, RingAssumption
<1>2. /\ written + n <= MaxBytes /\ written' = written + n
      /\ mem' = [o \in Offsets |-> IF Writes(o) = {} THEN mem[o]
                                   ELSE written + 1 + Source(Latest(o))]
      /\ wr' = stop
      /\ rd' = IF n > Free THEN (stop + 1) % BufSize ELSE rd
      /\ torn' = (torn \/ n > toEnd)
      /\ fifo' = Newest(fifo \o [k \in 1..n |-> written + k])
  BY DEF ringBufWrite
<1>3. /\ written \in Nat /\ MaxBytes \in Nat /\ written <= MaxBytes /\ mem \in [Offsets -> 0..MaxBytes]
      /\ torn \in BOOLEAN
  BY DEF RingInv, RTypeOK, RingAssumption
<1>4. /\ fifo' \in Seq(Int) /\ Len(fifo') = kept /\ gone \in Nat /\ kept \in Nat
      /\ \A k \in 1..kept : fifo'[k] = IF gone + k <= Used THEN fifo[gone + k]
                                       ELSE written + ((gone + k) - Used)
  BY <1>2, QueueGrows
<1>5. stop \in 0..BufSize - 1 /\ (stop + 1) % BufSize \in 0..BufSize - 1
  BY <1>1, Around
<1>6. /\ \A x \in 0..BufSize - 1 : x % BufSize = x
      /\ \A x \in BufSize..(2 * BufSize) - 1 : x % BufSize = x - BufSize
  BY <1>1, Around
<1>7. ASSUME NEW o \in Offsets, Writes(o) # {} PROVE Latest(o) \in Writes(o)
  BY <1>1, <1>7, LatestWrite
<1> HIDE DEF Latest, Writes
<1>8. RTypeOK'
  <2>1. ASSUME NEW k \in 0..n - 1 PROVE Source(k) \in 0..n - 1
    <3>1. k >= toEnd => (k - toEnd) % BufSize \in Nat /\ (k - toEnd) % BufSize <= k - toEnd
      BY <1>1, RemainderLess
    <3> QED BY <1>1, <3>1
  <2> HIDE DEF Source
  <2>2. ASSUME NEW o \in Offsets, Writes(o) # {} PROVE written + 1 + Source(Latest(o)) \in 0..MaxBytes
    <3>1. Latest(o) \in 0..n - 1
      BY <1>7, <2>2 DEF Writes
    <3>2. Source(Latest(o)) \in 0..n - 1
      BY <2>1, <3>1
    <3> QED BY <1>1, <1>2, <1>3, <3>2
  <2>3. mem' \in [Offsets -> 0..MaxBytes]
    BY <1>2, <1>3, <2>2
  <2>4. wr' \in Offsets /\ rd' \in Offsets /\ written' \in 0..MaxBytes
    BY <1>1, <1>2, <1>3, <1>5 DEF Offsets
  <2> QED BY <1>2, <1>3, <2>3, <2>4 DEF RTypeOK
<1>9. ASSUME n <= toEnd
      PROVE  /\ \A i \in 0..n - 1 : mem'[wr + i] = written + 1 + i
             /\ \A o \in Offsets : o < wr \/ o >= wr + n => mem'[o] = mem[o]
  <2>1. \A k \in 0..n - 1 : (wr + k) % BufSize = wr + k /\ Source(k) = k
    BY <1>1, <1>6, <1>9
  <2>2. ASSUME NEW i \in 0..n - 1 PROVE mem'[wr + i] = written + 1 + i
    <3>1. wr + i \in Offsets
      BY <1>1, <1>9 DEF Offsets
    <3>2. ASSUME NEW k \in 0..n - 1 PROVE (wr + k) % BufSize = wr + i <=> k = i
      <4>1. (wr + k) % BufSize = wr + k
        BY <2>1
      <4> QED BY <1>1, <4>1
    <3>3. Writes(wr + i) = {i}
      BY <3>2 DEF Writes
    <3>4. Latest(wr + i) = i
      BY <1>7, <3>1, <3>3
    <3> QED BY <1>2, <2>1, <3>1, <3>3, <3>4
  <2>3. ASSUME NEW o \in Offsets, o < wr \/ o >= wr + n PROVE mem'[o] = mem[o]
    <3>1. Writes(o) = {}
      BY <1>1, <2>1, <2>3 DEF Writes, Offsets
    <3> QED BY <1>2, <3>1
  <2> QED BY <2>2, <2>3
<1> HIDE DEF Source
<1>10. Used' = kept
  <2>1. CASE n <= Free
    <3>1. wr + n \in 0..(2 * BufSize) - 1
      BY <1>1, <2>1
    <3>2. stop = IF wr + n < BufSize THEN wr + n ELSE (wr + n) - BufSize
      BY <1>1, <1>6, <3>1
    <3> HIDE DEF stop
    <3> QED BY <1>1, <1>2, <2>1, <3>2 DEF Used
  <2>2. CASE n > Free
    <3>1. (stop + 1) % BufSize = IF stop + 1 < BufSize THEN stop + 1 ELSE 0
      <4> HIDE DEF stop
      <4>1. stop + 1 \in 0..BufSize - 1 \/ (stop + 1 \in BufSize..(2 * BufSize) - 1 /\ stop + 1 = BufSize)
        BY <1>1, <1>5
      <4> QED BY <1>1, <1>6, <4>1
    <3> HIDE DEF stop
    <3>2. kept = BufSize - 1
      BY <1>1, <2>2
    <3>3. Used' = BufSize - 1
      BY <1>1, <1>2, <1>5, <2>2, <3>1 DEF Used
    <3> QED BY <3>2, <3>3
  <2> QED BY <1>1, <2>1, <2>2
<1>11. ASSUME ~torn', NEW k \in 1..Len(fifo') PROVE mem'[(rd' + (k - 1)) % BufSize] = fifo'[k]
  <2> DEFINE j == gone + k
             x == rd + (j - 1)
             y == rd' + (k - 1)
             p == y % BufSize
  <2>0. ~torn /\ ~(n > toEnd)
    <3> HIDE DEF toEnd
    <3>1. torn' = (torn \/ n > toEnd) /\ ~torn'
      BY <1>2, <1>11
    <3> QED BY <3>1, Zenon
  <2>1. ~torn /\ n <= toEnd
    BY <1>1, <2>0
  <2>2. k \in 1..kept /\ gone + kept = Used + n /\ (gone = 0 \/ gone = (Used + n) - (BufSize - 1))
    BY <1>1, <1>4, <1>11
  <2>3. rd' = IF rd + gone < BufSize THEN rd + gone ELSE (rd + gone) - BufSize
    <3>1. wr + n \in 0..BufSize
      BY <1>1, <2>1
    <3>2. stop = IF wr + n < BufSize THEN wr + n ELSE 0
      <4>1. wr + n \in 0..BufSize - 1 \/ wr + n = BufSize
        BY <1>1, <3>1
      <4>2. BufSize \in BufSize..(2 * BufSize) - 1
        BY <1>1
      <4> QED BY <1>1, <1>6, <4>1, <4>2
    <3>3. (stop + 1) % BufSize = IF stop + 1 < BufSize THEN stop + 1 ELSE 0
      <4> HIDE DEF stop
      <4>1. stop + 1 \in 0..BufSize - 1 \/ (stop + 1 \in BufSize..(2 * BufSize) - 1 /\ stop + 1 = BufSize)
        BY <1>1, <1>5
      <4> QED BY <1>1, <1>6, <4>1
    <3> HIDE DEF stop
    <3> QED BY <1>1, <1>2, <2>1, <3>1, <3>2, <3>3
  <2> HIDE DEF toEnd
  <2>4. wr + n <= BufSize
    BY <1>1, <2>1 DEF toEnd
  <2> HIDE DEF gone, kept
  <2>5. /\ gone \in Nat /\ kept \in Nat /\ k \in Nat /\ j \in 1..Used + n /\ j > gone
        /\ x \in 0..(2 * BufSize) - 1 /\ (y = x \/ y = x - BufSize) /\ y \in 0..(2 * BufSize) - 1
    BY <1>1, <1>4, <2>2, <2>3, <2>4
  <2> HIDE DEF x, y, j
  <2>6. p = x % BufSize /\ x % BufSize = IF x < BufSize THEN x ELSE x - BufSize
    <3>0. ASSUME NEW i \in 0..(2 * BufSize) - 1
          PROVE  i % BufSize = IF i < BufSize THEN i ELSE i - BufSize
      <4>1. i \in 0..BufSize - 1 \/ (i \in BufSize..(2 * BufSize) - 1 /\ ~(i < BufSize))
        BY <1>1
      <4>2. i \in 0..BufSize - 1 => i < BufSize
        BY <1>1
      <4> QED BY <1>6, <4>1, <4>2
    <3>1. x % BufSize = IF x < BufSize THEN x ELSE x - BufSize
      BY <2>5, <3>0
    <3>2. y % BufSize = IF y < BufSize THEN y ELSE y - BufSize
      BY <2>5, <3>0
    <3> QED BY <1>1, <2>5, <3>1, <3>2
  <2> HIDE DEF p
  <2>7. fifo'[k] = IF j <= Used THEN fifo[j] ELSE written + (j - Used)
    BY <1>4, <2>2 DEF j
  <2>8. p \in Offsets /\ x = rd + (j - 1) /\ j \in Int
    BY <1>1, <2>5, <2>6 DEF Offsets, x
  <2>9. CASE j <= Used
    <3>1. mem[x % BufSize] = fifo[j]
      <4>1. j \in 1..Len(fifo)
        BY <1>1, <2>5, <2>8, <2>9 DEF RingInv
      <4> QED BY <2>1, <4>1 DEF RingInv, x
    <3>2. p < wr \/ p >= wr + n
      <4>1. x < rd + Used /\ x >= rd + gone
        BY <1>1, <2>5, <2>8, <2>9
      <4>2. CASE rd + Used = wr
        BY <1>1, <2>5, <2>6, <4>1, <4>2
      <4>3. CASE rd + Used = wr + BufSize
        <5>1. CASE x < BufSize
          <6>1. p = x
            BY <2>6, <5>1
          <6>2. Used + n <= (BufSize - 1) + gone
            BY <1>1, <1>4, <2>2, <2>5 DEF gone, kept
          <6> QED BY <1>1, <2>4, <2>5, <4>1, <4>3, <6>1, <6>2
        <5>2. CASE ~(x < BufSize)
          BY <1>1, <2>5, <2>6, <4>1, <4>3, <5>2
        <5> QED BY <5>1, <5>2
      <4> QED BY <1>1, <4>2, <4>3
    <3>3. mem'[p] = mem[p]
      BY <1>9, <2>1, <2>8, <3>2
    <3> QED BY <2>6, <2>7, <2>9, <3>1, <3>3 DEF p, y
  <2>10. CASE j > Used
    <3>1. p = wr + ((j - Used) - 1) /\ (j - Used) - 1 \in 0..n - 1
      BY <1>1, <2>2, <2>4, <2>5, <2>6, <2>8, <2>10
    <3>2. mem'[p] = written + 1 + ((j - Used) - 1)
      BY <1>9, <2>1, <3>1
    <3>3. mem'[p] = written + (j - Used)
      BY <1>1, <1>3, <2>5, <3>2
    <3> QED BY <1>1, <2>5, <2>7, <2>10, <3>3 DEF p, y
  <2> QED BY <1>1, <2>5, <2>9, <2>10
<1> QED BY <1>4, <1>8, <1>10, <1>11 DEF RingInv

LEMMA RingStep == ASSUME RingAssumption, RingInv, [RNext]_rvars PROVE RingInv'
<1>1. BufSize \in Nat /\ BufSize > 1 /\ Used \in 0..BufSize - 1 /\ \A n \in Lengths : n \in Nat /\ n > 0
  BY RingUsed DEF RingInv, RingAssumption
<1>2. ASSUME NEW n \in Lengths, ringBufRead(n) \/ ringBufRemove(n) PROVE RingInv'
  <2>1. Smaller(n, Used) \in 0..Used
    BY <1>1, <1>2 DEF Smaller
  <2> QED BY <1>2, <2>1, DropKeeps DEF ringBufRead, ringBufRemove
<1>3. ASSUME NEW n \in Lengths, NEW chars, ringBufReadToChar2(n, chars) PROVE RingInv'
  <2> DEFINE hits == {k \in 1..Smaller(n, Used) : Bytes(k)[k] \in chars}
  <2>1. hits \in SUBSET Nat /\ hits # {} /\ Drop(CHOOSE k \in hits : \A j \in hits : k <= j)
    BY <1>3 DEF ringBufReadToChar2
  <2>2. \A k \in hits : k \in 0..Used
    BY <1>1 DEF Smaller
  <2> HIDE DEF hits
  <2>3. (CHOOSE k \in hits : \A j \in hits : k <= j) \in hits
    <3>1. \E k \in hits : \A j \in hits : k <= j
      BY <2>1, LeastExists
    <3> QED BY <3>1
  <2> QED BY <2>1, <2>2, <2>3, DropKeeps
<1>4. CASE ringBufClear
  BY <1>1, <1>4 DEF ringBufClear, RingInv, RTypeOK, Offsets, Used
<1>5. CASE UNCHANGED rvars
  BY <1>5 DEF rvars, RingInv, RTypeOK, Used
<1> QED BY <1>2, <1>3, <1>4, <1>5, WriteKeeps DEF RNext

LEMMA RingKeeps == ASSUME RingAssumption, RingInv PROVE RingKept
<1>1. /\ BufSize \in Nat /\ BufSize > 1 /\ Used \in 0..BufSize - 1 /\ rd \in Int
  BY RingUsed DEF RingInv, RingAssumption
<1>2. ASSUME ~torn PROVE Bytes(Used) = fifo
  <2>1. Bytes(Used) = [k \in 1..Used |-> mem[(rd + k - 1) % BufSize]]
    BY DEF Bytes
  <2>2. fifo = [k \in 1..Used |-> fifo[k]]
    BY DEF RingInv
  <2>3. \A k \in 1..Used : (rd + k) - 1 = rd + (k - 1)
    BY <1>1
  <2>4. \A k \in 1..Used : mem[(rd + k - 1) % BufSize] = fifo[k]
    BY <1>1, <1>2, <2>3 DEF RingInv
  <2> QED BY <2>1, <2>2, <2>4
<1> QED BY <1>2 DEF RingInv, RingKept, CountsRight, HoldsFifo

\* ring_buffer.c counts its bytes like a queue that keeps the newest, through
\* every wrap and overflow, and holds the queue's bytes until a write is split.
THEOREM RingHoldsQueue == ASSUME RingAssumption PROVE RSpec => []RingKept
<1>1. RInit => RingInv
  BY RingInit
<1>2. RingInv /\ [RNext]_rvars => RingInv'
  BY RingStep
<1>3. RingInv => RingKept
  BY RingKeeps
<1> QED BY <1>1, <1>2, <1>3, PTL DEF RSpec

----------------------------------------------------------------------------
(***************************************************************************)
(* The logger thread, for any handles and any number of packets and        *)
(* sessions: log, batch and queue are together what was received.          *)
(***************************************************************************)
LogTypes ==
    /\ enabled \in BOOLEAN /\ running \in BOOLEAN /\ count \in Nat
    /\ caller \in {"idle", "joining"}
    /\ thread \in {"none", "sleep", "log", "update", "ended"}
    /\ logPackets \in [Handles -> Seq(Nat)] /\ packets \in [Handles -> Seq(Nat)]
    /\ logged \in [Handles -> Seq(Nat)] /\ received \in [Handles -> Seq(Nat)]

\* The thread runs from the moment logging is enabled until it has read that it
\* is not, and is joined before logging is enabled again.
Lifetime ==
    /\ enabled => running /\ caller = "idle" /\ thread \in {"sleep", "log", "update"}
    /\ caller = "idle" /\ ~enabled => thread = "none"
    /\ thread = "log" => running

\* The thread has read that logging is disabled, or is not there.
Leaving == thread \in {"none", "ended"} \/ (thread = "update" /\ ~running)

\* The batch is used up before the thread sleeps, which is why a queue may
\* replace it; and a thread that leaves has taken what was queued.
BatchUsedUp ==
    /\ thread = "sleep" \/ (thread = "update" /\ running) => packets = Nothing
    /\ Leaving => logPackets = Nothing

LogInv == LogTypes /\ Lifetime /\ BatchUsedUp /\ LoggedInOrder

----------------------------------------------------------------------------
(* Queue, batch and log of a handle, one after the other                   *)

\* A packet that arrives at the end of the queue arrives at the end of all.
LEMMA AppendToLast ==
    ASSUME NEW l \in Seq(Nat), NEW p \in Seq(Nat), NEW q \in Seq(Nat), NEW x \in Nat
    PROVE  Append((l \o p) \o q, x) = (l \o p) \o Append(q, x)
<1>1. l \o p \in Seq(Nat) /\ (l \o p) \o q \in Seq(Nat) /\ <<x>> \in Seq(Nat)
  BY ConcatProperties
<1>2. Append((l \o p) \o q, x) = ((l \o p) \o q) \o <<x>>
  BY <1>1, AppendIsConcat
<1>3. Append(q, x) = q \o <<x>>
  BY AppendIsConcat
<1> QED BY <1>1, <1>2, <1>3, ConcatAssociative, SMTT(30)

\* What goes from the front of the batch to the end of the log stays in place.
LEMMA FirstToLog ==
    ASSUME NEW l \in Seq(Nat), NEW p \in Seq(Nat), p # <<>>
    PROVE  Append(l, Head(p)) \o Tail(p) = l \o p
<1>1. Head(p) \in Nat /\ Tail(p) \in Seq(Nat) /\ <<Head(p)>> \in Seq(Nat)
  BY HeadTailProperties
<1>2. Append(l, Head(p)) = l \o <<Head(p)>>
  BY <1>1, AppendIsConcat
<1>3. Len(p) \in Nat /\ Len(p) > 0 /\ Len(Tail(p)) = Len(p) - 1
  BY HeadTailProperties, EmptySeq
<1>4. <<Head(p)>> \o Tail(p) = p
  <2>1. /\ <<Head(p)>> \o Tail(p) \in Seq(Nat)
        /\ Len(<<Head(p)>> \o Tail(p)) = Len(p)
    BY <1>1, <1>3, ConcatProperties
  <2>2. ASSUME NEW i \in 1..Len(p) PROVE (<<Head(p)>> \o Tail(p))[i] = p[i]
    <3>1. CASE i = 1
      BY <1>1, <1>3, <3>1, ConcatProperties
    <3>2. CASE i > 1
      <4>1. i - 1 \in 1..Len(Tail(p)) /\ (i - 1) + 1 = i
        BY <1>3, <3>2
      <4>2. (<<Head(p)>> \o Tail(p))[i] = Tail(p)[i - 1]
        BY <1>1, <1>3, <3>2, ConcatProperties
      <4> QED BY <4>1, <4>2, HeadTailProperties
    <3> QED BY <3>1, <3>2
  <2> QED BY <2>1, <2>2, SeqEqual
<1> QED BY <1>1, <1>2, <1>4, ConcatAssociative

\* What a sequence begins with is one of its prefixes.
LEMMA BeginsWith ==
    ASSUME NEW a \in Seq(Nat), NEW b \in Seq(Nat)
    PROVE  \E n \in 0..Len(a \o b) : a = SubSeq(a \o b, 1, n)
<1>1. /\ a \o b \in Seq(Nat) /\ Len(a) \in Nat /\ Len(b) \in Nat
      /\ Len(a \o b) = Len(a) + Len(b)
  BY ConcatProperties, LenProperties
<1>2. Len(a) \in 0..Len(a \o b)
  BY <1>1
<1>3. a = SubSeq(a \o b, 1, Len(a))
  <2>1. \A i \in 1..Len(a) : (a \o b)[i] \in Nat /\ (a \o b)[i] = a[i]
    BY <1>1, ConcatProperties, ElementOfSeq
  <2>2. /\ SubSeq(a \o b, 1, Len(a)) \in Seq(Nat)
        /\ Len(SubSeq(a \o b, 1, Len(a))) = Len(a)
        /\ \A i \in 1..Len(a) : SubSeq(a \o b, 1, Len(a))[i] = (a \o b)[i]
    BY <1>1, <2>1, SubSeqProperties
  <2> QED BY <2>1, <2>2, SeqEqual
<1> QED BY <1>2, <1>3

\* While logging is enabled it is enough that the three together are what was
\* received: the log is then a prefix of it.
LEMMA TogetherIsEnough ==
    ASSUME NEW l \in Seq(Nat), NEW p \in Seq(Nat), NEW q \in Seq(Nat)
    PROVE  \E n \in 0..Len((l \o p) \o q) : l = SubSeq((l \o p) \o q, 1, n)
<1>1. p \o q \in Seq(Nat)
  BY ConcatProperties
<1>2. (l \o p) \o q = l \o (p \o q)
  <2> HIDE <1>1
  <2> QED BY ConcatAssociative, SMTT(30)
<1>3. \E n \in 0..Len(l \o (p \o q)) : l = SubSeq(l \o (p \o q), 1, n)
  BY <1>1, BeginsWith
<1> QED BY <1>2, <1>3

----------------------------------------------------------------------------
(* The steps                                                               *)

\* Log, batch and queue are together what was received.
Together ==
    \A h \in Handles : received[h] = logged[h] \o packets[h] \o logPackets[h]

\* The log of each handle is a prefix of what was received, if the three are
\* together what was received.
LEMMA OrderFollows ==
    ASSUME LogTypes, Together
    PROVE  LoggedInOrder
<1> USE DEF Together
<1> SUFFICES ASSUME NEW h \in Handles
             PROVE  \E n \in 0..Len(received[h]) : logged[h] = SubSeq(received[h], 1, n)
  BY DEF LoggedInOrder
<1>1. logged[h] \in Seq(Nat) /\ packets[h] \in Seq(Nat) /\ logPackets[h] \in Seq(Nat)
  BY DEF LogTypes
<1>2. received[h] = (logged[h] \o packets[h]) \o logPackets[h]
  OBVIOUS
<1>3. \A l, p, q \in Seq(Nat) : \E n \in 0..Len((l \o p) \o q) : l = SubSeq((l \o p) \o q, 1, n)
  BY TogetherIsEnough
<1>4. \E n \in 0..Len((logged[h] \o packets[h]) \o logPackets[h]) :
            logged[h] = SubSeq((logged[h] \o packets[h]) \o logPackets[h], 1, n)
  BY <1>1, <1>3
<1> QED BY <1>2, <1>4

LEMMA NothingTyped == Nothing \in [Handles -> Seq(Nat)]
BY EmptySeq DEF Nothing

LEMMA EnableKeeps ==
    ASSUME LogInv, EnableLogging
    PROVE  LogInv'
<1>1. LogTypes'
  BY NothingTyped DEF LogInv, LogTypes, EnableLogging
<1>2. Lifetime' /\ BatchUsedUp'
  BY DEF LogInv, LogTypes, Lifetime, BatchUsedUp, Leaving, EnableLogging, Nothing
<1>3. ASSUME NEW h \in Handles
      PROVE  (received[h] = logged[h] \o packets[h] \o logPackets[h])'
  <2>1. logPackets' = Nothing
    BY DEF LogInv, BatchUsedUp, Leaving, EnableLogging
  <2>2. <<>> \o <<>> = <<>>
    BY EmptySeq, ConcatEmptySeq
  <2>3. received'[h] = <<>> /\ logged'[h] = <<>> /\ packets'[h] = <<>> /\ logPackets'[h] = <<>>
    BY <2>1 DEF EnableLogging, Nothing
  <2> QED BY <2>2, <2>3
<1>4. LogTypes' /\ Together' => LoggedInOrder'
  BY OrderFollows, PTL
<1> QED BY <1>1, <1>2, <1>3, <1>4 DEF LogInv, Together

LEMMA StepLoggerKeeps ==
    ASSUME LogInv, NEW h \in Handles, StepLogger(h)
    PROVE  LogInv'
<1>1. CASE ~enabled
  <2>1. UNCHANGED <<enabled, caller, thread, running, logPackets, packets, logged, received>>
        /\ count' \in Nat
    BY <1>1 DEF LogInv, LogTypes, StepLogger
  <2> QED BY <2>1 DEF LogInv, LogTypes, Lifetime, BatchUsedUp, Leaving, LoggedInOrder, Nothing
<1>2. CASE enabled
  <2>1. /\ count' \in Nat
        /\ logPackets' = [logPackets EXCEPT ![h] = Append(logPackets[h], count')]
        /\ received' = [received EXCEPT ![h] = Append(received[h], count')]
        /\ UNCHANGED <<enabled, caller, thread, running, packets, logged>>
    BY <1>2 DEF LogInv, LogTypes, StepLogger
  <2>2. logPackets[h] \in Seq(Nat) /\ received[h] \in Seq(Nat)
    BY DEF LogInv, LogTypes
  <2>3. Append(logPackets[h], count') \in Seq(Nat) /\ Append(received[h], count') \in Seq(Nat)
    BY <2>1, <2>2, AppendProperties
  <2>4. LogTypes'
    BY <2>1, <2>3 DEF LogInv, LogTypes
  <2>5. Lifetime' /\ BatchUsedUp'
    BY <1>2, <2>1 DEF LogInv, Lifetime, BatchUsedUp, Leaving, Nothing
  <2>6. ASSUME NEW g \in Handles
        PROVE  (received[g] = logged[g] \o packets[g] \o logPackets[g])'
    <3>1. received[g] = logged[g] \o packets[g] \o logPackets[g]
      BY <1>2 DEF LogInv, LoggedInOrder
    <3>2. logged[g] \in Seq(Nat) /\ packets[g] \in Seq(Nat) /\ logPackets[g] \in Seq(Nat)
      BY DEF LogInv, LogTypes
    <3>3. CASE g # h
      <4>1. received'[g] = received[g] /\ logPackets'[g] = logPackets[g]
        BY <2>1, <3>3 DEF LogInv, LogTypes
      <4> QED BY <2>1, <3>1, <4>1
    <3>4. CASE g = h
      <4>1. received'[g] = Append(received[g], count')
            /\ logPackets'[g] = Append(logPackets[g], count')
        BY <2>1, <3>4 DEF LogInv, LogTypes
      <4>2. Append((logged[g] \o packets[g]) \o logPackets[g], count')
              = (logged[g] \o packets[g]) \o Append(logPackets[g], count')
        BY <2>1, <3>2, AppendToLast, ZenonT(30)
      <4> QED BY <2>1, <3>1, <4>1, <4>2
    <3> QED BY <3>3, <3>4
  <2>7. LogTypes' /\ Together' => LoggedInOrder'
    BY OrderFollows, PTL
  <2> QED BY <2>4, <2>5, <2>6, <2>7 DEF LogInv, Together
<1> QED BY <1>1, <1>2

LEMMA DisableKeeps ==
    ASSUME LogInv, DisableLogging
    PROVE  LogInv'
BY DEF LogInv, LogTypes, Lifetime, BatchUsedUp, Leaving, LoggedInOrder, Nothing, DisableLogging

LEMMA JoinedKeeps ==
    ASSUME LogInv, Joined
    PROVE  LogInv'
BY DEF LogInv, LogTypes, Lifetime, BatchUsedUp, Leaving, LoggedInOrder, Nothing, Joined

LEMMA BatchLoggedKeeps ==
    ASSUME LogInv, BatchLogged
    PROVE  LogInv'
BY DEF LogInv, LogTypes, Lifetime, BatchUsedUp, Leaving, LoggedInOrder, Nothing, BatchLogged

LEMMA UpdateLoggerKeeps ==
    ASSUME LogInv, UpdateLogger
    PROVE  LogInv'
BY DEF LogInv, LogTypes, Lifetime, BatchUsedUp, Leaving, LoggedInOrder, Nothing, UpdateLogger

\* The batch was empty, so the queue becomes the batch and nothing changes its
\* place.
LEMMA TakePacketsKeeps ==
    ASSUME LogInv, TakePackets
    PROVE  LogInv'
<1>1. packets = Nothing /\ logPackets \in [Handles -> Seq(Nat)]
  BY DEF LogInv, LogTypes, BatchUsedUp, TakePackets
<1>2. ASSUME NEW h \in Handles PROVE packets'[h] = logPackets[h] /\ packets[h] = <<>>
  BY <1>1 DEF TakePackets, Nothing
<1>3. packets' = [h \in Handles |-> logPackets[h]]
  BY <1>1 DEF TakePackets, Nothing
<1>4. packets' = logPackets
  BY <1>1, <1>3
<1>5. LogTypes'
  BY <1>1, <1>4, NothingTyped DEF LogInv, LogTypes, TakePackets
<1>6. Lifetime' /\ BatchUsedUp'
  BY DEF LogInv, Lifetime, BatchUsedUp, Leaving, TakePackets, Nothing
<1>7. ASSUME NEW h \in Handles, enabled
      PROVE  (received[h] = logged[h] \o packets[h] \o logPackets[h])'
  <2>1. received[h] = (logged[h] \o <<>>) \o logPackets[h]
    BY <1>2, <1>7 DEF LogInv, LoggedInOrder
  <2>2. logged[h] \in Seq(Nat) /\ logPackets[h] \in Seq(Nat)
    BY DEF LogInv, LogTypes
  <2>3. logged[h] \o logPackets[h] \in Seq(Nat)
    BY <2>2, ConcatProperties
  <2>4. /\ logged[h] \o <<>> = logged[h]
        /\ (logged[h] \o logPackets[h]) \o <<>> = logged[h] \o logPackets[h]
    BY <2>2, <2>3, ConcatEmptySeq
  <2>5. received'[h] = received[h] /\ logged'[h] = logged[h] /\ logPackets'[h] = <<>>
    BY DEF TakePackets, Nothing
  <2> QED BY <1>2, <2>1, <2>4, <2>5
<1>8. UNCHANGED <<enabled, logged, received>>
  BY DEF TakePackets
<1>9. LoggedInOrder'
  BY <1>7, <1>8 DEF LogInv, LoggedInOrder
<1> QED BY <1>5, <1>6, <1>9 DEF LogInv

\* A packet goes from the batch to the log, or is refused once logging is
\* disabled: then the log stays the prefix that it was.
LEMMA LogPacketKeeps ==
    ASSUME LogInv, LogPacket
    PROVE  LogInv'
<1>1. PICK h \in Handles :
        /\ packets[h] # <<>>
        /\ logged' = IF enabled THEN [logged EXCEPT ![h] = Append(logged[h], Head(packets[h]))]
                     ELSE logged
        /\ packets' = [packets EXCEPT ![h] = Tail(packets[h])]
  BY DEF LogPacket
<1>2. UNCHANGED <<enabled, caller, thread, running, logPackets, received, count>> /\ thread = "log"
  BY DEF LogPacket
<1>3. logged[h] \in Seq(Nat) /\ packets[h] \in Seq(Nat)
  BY DEF LogInv, LogTypes
<1>4. Head(packets[h]) \in Nat /\ Tail(packets[h]) \in Seq(Nat)
  BY <1>1, <1>3, HeadTailProperties
<1>5. Append(logged[h], Head(packets[h])) \in Seq(Nat)
  BY <1>3, <1>4, AppendProperties
<1>6. LogTypes'
  <2>1. logged' \in [Handles -> Seq(Nat)]
    BY <1>1, <1>5 DEF LogInv, LogTypes
  <2>2. packets' \in [Handles -> Seq(Nat)]
    BY <1>1, <1>4 DEF LogInv, LogTypes
  <2> QED BY <1>2, <2>1, <2>2 DEF LogInv, LogTypes
<1>7. Lifetime' /\ BatchUsedUp'
  BY <1>2 DEF LogInv, Lifetime, BatchUsedUp, Leaving, Nothing
<1>8. CASE ~enabled
  <2>1. logged' = logged
    BY <1>1, <1>8
  <2>2. LoggedInOrder'
    BY <1>2, <1>8, <2>1 DEF LogInv, LoggedInOrder
  <2> QED BY <1>6, <1>7, <2>2 DEF LogInv
<1>9. CASE enabled
  <2>1. ASSUME NEW g \in Handles
        PROVE  (received[g] = logged[g] \o packets[g] \o logPackets[g])'
    <3>1. received[g] = logged[g] \o packets[g] \o logPackets[g]
      BY <1>9 DEF LogInv, LoggedInOrder
    <3>2. CASE g # h
      <4>1. logged'[g] = logged[g] /\ packets'[g] = packets[g]
        BY <1>1, <1>9, <3>2 DEF LogInv, LogTypes
      <4> QED BY <1>2, <3>1, <4>1
    <3>3. CASE g = h
      <4>1. /\ logged'[g] = Append(logged[h], Head(packets[h]))
            /\ packets'[g] = Tail(packets[h])
        BY <1>1, <1>9, <3>3 DEF LogInv, LogTypes
      <4>2. Append(logged[h], Head(packets[h])) \o Tail(packets[h]) = logged[h] \o packets[h]
        BY <1>1, <1>3, FirstToLog
      <4> QED BY <1>2, <3>1, <3>3, <4>1, <4>2
    <3> QED BY <3>2, <3>3
  <2>2. LogTypes' /\ Together' => LoggedInOrder'
    BY OrderFollows, PTL
  <2> QED BY <1>6, <1>7, <2>1, <2>2 DEF LogInv, Together
<1> QED BY <1>8, <1>9

\* LogInv is inductive.
THEOREM LogInvariant == LSpec => []LogInv
<1>1. LInit => LogInv
  <2> SUFFICES ASSUME LInit PROVE LogInv
    OBVIOUS
  <2>1. LogTypes
    BY NothingTyped DEF LInit, LogTypes
  <2>2. Lifetime /\ BatchUsedUp
    BY DEF LInit, Lifetime, BatchUsedUp, Leaving
  <2>3. ASSUME NEW h \in Handles
        PROVE  received[h] = logged[h] \o packets[h] \o logPackets[h]
    <3>1. <<>> \o <<>> = <<>>
      BY EmptySeq, ConcatEmptySeq
    <3> QED BY <3>1 DEF LInit, Nothing
  <2> QED BY <2>1, <2>2, <2>3, OrderFollows DEF LogInv, Together
<1>2. LogInv /\ [LNext]_lvars => LogInv'
  <2> SUFFICES ASSUME LogInv, [LNext]_lvars PROVE LogInv'
    OBVIOUS
  <2>1. CASE UNCHANGED lvars
    BY <2>1 DEF lvars, LogInv, LogTypes, Lifetime, BatchUsedUp, Leaving, LoggedInOrder, Nothing
  <2> QED BY <2>1, EnableKeeps, StepLoggerKeeps, DisableKeeps, JoinedKeeps, TakePacketsKeeps,
             LogPacketKeeps, BatchLoggedKeeps, UpdateLoggerKeeps DEF LNext, LoggerThread
<1> QED BY <1>1, <1>2, PTL DEF LSpec

\* PacketsInOrder, for any handles and any number of packets and sessions: the
\* log of InertialSense.cpp gets the packets of a device in order and once
\* each, whenever it is disabled, and the queue is empty between sessions.
THEOREM LogInOrder == LSpec => []PacketsInOrder
<1>1. LogInv => PacketsInOrder
  BY DEF LogInv, BatchUsedUp, Leaving, PacketsInOrder, NothingLeft
<1> QED BY <1>1, LogInvariant, PTL

----------------------------------------------------------------------------
(***************************************************************************)
(* The list of devices, for any ports.  A list that is thinned out is a    *)
(* selection of itself, so that closing the ports of what was taken out    *)
(* leaves open those of what is left; and while nothing was taken out the  *)
(* manager's handles count the list.                                       *)
(***************************************************************************)

\* Induction up to a bound, over a set of numbers.
LEMMA UpTo ==
    ASSUME NEW m \in Nat, NEW S, 0 \in S, \A n \in S : n \in Nat /\ n < m => n + 1 \in S
    PROVE  \A n \in 0..m : n \in S
<1> DEFINE Missing == {n \in 0..m : n \notin S}
<1> SUFFICES ASSUME Missing # {} PROVE FALSE
  OBVIOUS
<1>1. PICK n \in Missing : \A k \in Missing : n <= k
  <2>1. Missing \in SUBSET Nat
    OBVIOUS
  <2> HIDE DEF Missing
  <2> QED BY <2>1, LeastExists
<1>2. n \in Nat /\ n # 0 /\ n <= m /\ n \notin S
  OBVIOUS
<1>3. n - 1 \in Nat /\ n - 1 < m /\ n - 1 \notin Missing /\ (n - 1) + 1 = n
  BY <1>1, <1>2
<1>4. n - 1 \in S
  BY <1>2, <1>3
<1>5. (n - 1) + 1 \in S
  BY <1>3, <1>4
<1> QED BY <1>2, <1>3, <1>5

\* A selection is a sequence of elements of the list, and is no longer than it.
LEMMA SelectedFrom ==
    ASSUME NEW S, NEW list \in Seq(S), NEW stay
    PROVE  Selected(list, stay) \in Seq(S) /\ Len(Selected(list, stay)) <= Len(list)
<1> DEFINE Step(g, i) == IF i = 0 THEN <<>>
                         ELSE IF list[i] \in stay THEN Append(g[i - 1], list[i]) ELSE g[i - 1]
           Is(g, n) == g = [i \in 0..n |-> Step(g, i)]
           Good(s, i) == s \in Seq(S) /\ Len(s) <= i
<1>0. Len(list) \in Nat
  OBVIOUS
<1>1. ASSUME NEW n \in Nat, NEW g, Is(g, n), n < Len(list) PROVE \E h : Is(h, n + 1)
  <2> DEFINE h == [i \in 0..(n + 1) |-> IF i = n + 1 THEN Step(g, n + 1) ELSE g[i]]
  <2>1. ASSUME NEW i \in 0..n PROVE h[i] = Step(h, i)
    <3>1. h[i] = g[i] /\ (i # 0 => h[i - 1] = g[i - 1])
      OBVIOUS
    <3>2. g[i] = Step(g, i)
      BY <1>1
    <3> QED BY <3>1, <3>2
  <2>2. h[n + 1] = Step(h, n + 1)
    <3>1. h[n + 1] = Step(g, n + 1) /\ h[n] = g[n] /\ (n + 1) - 1 = n /\ n + 1 # 0
      OBVIOUS
    <3> QED BY <3>1
  <2>3. h = [i \in 0..(n + 1) |-> h[i]]
    OBVIOUS
  <2>4. \A i \in 0..(n + 1) : i \in 0..n \/ i = n + 1
    OBVIOUS
  <2>5. \A i \in 0..(n + 1) : h[i] = Step(h, i)
    BY <2>1, <2>2, <2>4
  <2> HIDE DEF h
  <2>6. Is(h, n + 1)
    BY <2>3, <2>5
  <2> QED BY <2>6
<1>2. Is([i \in 0..0 |-> <<>>], 0)
  OBVIOUS
<1> DEFINE Begun == {n \in 0..Len(list) : \E g : Is(g, n)}
           f == CHOOSE g : Is(g, Len(list))
<1>3. \E g : Is(g, Len(list))
  <2> HIDE DEF Is
  <2>1. 0 \in Begun
    BY <1>0, <1>2
  <2>2. \A n \in Begun : n \in Nat /\ n < Len(list) => n + 1 \in Begun
    BY <1>0, <1>1
  <2> HIDE DEF Begun
  <2>3. Len(list) \in Begun
    BY <1>0, <2>1, <2>2, UpTo
  <2> QED BY <2>3 DEF Begun
<1>4. Is(f, Len(list))
  <2> HIDE DEF Is
  <2> QED BY <1>3
<1>5. Selected(list, stay) = f[Len(list)]
  BY DEF Selected
<1> HIDE DEF f
<1> DEFINE Fitting == {i \in 0..Len(list) : Good(f[i], i)}
<1>6. 0 \in Fitting
  BY <1>0, <1>4
<1>7. ASSUME NEW i \in Fitting, i \in Nat, i < Len(list) PROVE i + 1 \in Fitting
  <2>1. f[i + 1] = IF list[i + 1] \in stay THEN Append(f[i], list[i + 1]) ELSE f[i]
    <3>1. i + 1 \in 0..Len(list) /\ (i + 1) - 1 = i /\ i + 1 # 0
      BY <1>0, <1>7
    <3> QED BY <1>4, <3>1
  <2>2. list[i + 1] \in S /\ i + 1 \in 0..Len(list)
    BY <1>0, <1>7
  <2>3. f[i] \in Seq(S) /\ Len(f[i]) <= i /\ Len(f[i]) \in Nat
    BY <1>7
  <2>4. f[i + 1] \in Seq(S) /\ Len(f[i + 1]) <= i + 1
    <3>1. CASE list[i + 1] \in stay
      BY <1>7, <2>1, <2>2, <2>3, <3>1
    <3>2. CASE list[i + 1] \notin stay
      BY <1>7, <2>1, <2>3, <3>2
    <3> QED BY <3>1, <3>2
  <2> QED BY <2>2, <2>4
<1> HIDE DEF Fitting
<1>8. Len(list) \in Fitting
  BY <1>0, <1>6, <1>7, UpTo
<1> QED BY <1>0, <1>5, <1>8 DEF Fitting

Device == [port : Range(SerialPorts), has : SUBSET Answers]
DevTypes ==
    /\ phase \in {"closed", "query", "prune", "trim", "open"}
    /\ devices \in Seq(Device) /\ Len(devices) <= Len(SerialPorts)
    /\ handles \in 0..Len(SerialPorts) /\ queries \in 0..MaxQueries /\ removed \in BOOLEAN

\* Handles are those of the list until a device is taken out of it.
HandlesFollow == phase \in {"query", "prune", "trim"} /\ ~removed => handles = Len(devices)

DevInv ==
    /\ DevTypes /\ NoLostPort /\ HandlesFollow /\ HandlesAgree
    /\ phase = "trim" => devices # <<>>

\* The ports of elements of a list are ports of the list.
LEMMA PortsWithin ==
    ASSUME NEW list \in Seq(Device), NEW left \in Seq(Range(list))
    PROVE  PortsOf(left) \subseteq PortsOf(list) /\ left \in Seq(Device)
<1>1. Range(list) \subseteq Device
  BY DEF Range
<1>2. left \in Seq(Device)
  BY <1>1
<1>3. \A i \in 1..Len(left) : \E j \in 1..Len(list) : left[i] = list[j]
  BY DEF Range
<1> QED BY <1>2, <1>3 DEF PortsOf

LEMMA RangeIs == ASSUME NEW S, NEW list \in Seq(S) PROVE list \in Seq(Range(list))
BY DEF Range

\* RemoveDevice: what is left is a selection of the list.
LEMMA KeepKeeps ==
    ASSUME DevInv, NEW left \in Seq(Range(devices)), Len(left) <= Len(devices), Keep(left)
    PROVE  /\ devices' \in Seq(Device) /\ Len(devices') <= Len(SerialPorts) /\ NoLostPort'
           /\ devices' = left
<1>1. PortsOf(left) \subseteq PortsOf(devices) /\ left \in Seq(Device)
  BY PortsWithin DEF DevInv, DevTypes
<1>2. devices' = left /\ opened' = opened \ (PortsOf(devices) \ PortsOf(left))
  BY DEF Keep
<1>3. opened = PortsOf(devices)
  BY DEF DevInv, NoLostPort
<1>4. opened' = PortsOf(left)
  BY <1>1, <1>2, <1>3
<1>5. PortsOf(devices') = PortsOf(left)
  BY <1>2
<1>6. Len(left) \in Nat /\ Len(devices) \in Nat /\ Len(SerialPorts) \in Nat
        /\ Len(devices) <= Len(SerialPorts)
  BY <1>1 DEF DevInv, DevTypes
<1> QED BY <1>1, <1>2, <1>4, <1>5, <1>6 DEF NoLostPort

\* What is received changes no port.
LEMMA StoreKeeps ==
    ASSUME NEW list \in Seq(Device), NEW heard
    PROVE  /\ Store(list, heard) \in Seq(Device) /\ Len(Store(list, heard)) = Len(list)
           /\ PortsOf(Store(list, heard)) = PortsOf(list)
<1> DEFINE Got(i) == {a \in Answers : i <= handles /\ <<list[i].port, a>> \in heard}
<1>1. Store(list, heard) = [i \in 1..Len(list) |-> [list[i] EXCEPT !.has = @ \cup Got(i)]]
  BY DEF Store
<1>2. ASSUME NEW i \in 1..Len(list)
      PROVE  /\ [list[i] EXCEPT !.has = @ \cup Got(i)] \in Device
             /\ [list[i] EXCEPT !.has = @ \cup Got(i)].port = list[i].port
  <2>1. list[i] \in Device /\ Got(i) \subseteq Answers
    OBVIOUS
  <2> HIDE DEF Got
  <2> QED BY <2>1 DEF Device
<1> HIDE DEF Got
<1>3. Len(list) \in Nat
  OBVIOUS
<1>4. Store(list, heard) \in Seq(Device) /\ Len(Store(list, heard)) = Len(list)
  <2> DEFINE Stored(i) == [list[i] EXCEPT !.has = @ \cup Got(i)]
  <2>1. Store(list, heard) = [i \in 1..Len(list) |-> Stored(i)]
    BY <1>1
  <2>2. \A i \in 1..Len(list) : Stored(i) \in Device
    BY <1>2
  <2> HIDE DEF Stored
  <2> QED BY <1>3, <2>1, <2>2
<1>5. \A i \in 1..Len(list) : Store(list, heard)[i].port = list[i].port
  BY <1>1, <1>2
<1> QED BY <1>4, <1>5 DEF PortsOf

LEMMA OpenKeeps ==
    ASSUME DevicesAssumption, DevInv, NEW bad, OpenSerialPorts(bad) PROVE DevInv'
<1> DEFINE good == Selected(SerialPorts, Range(SerialPorts) \ bad)
<1>1. good \in Seq(Range(SerialPorts)) /\ Len(good) <= Len(SerialPorts)
  BY SelectedFrom DEF DevicesAssumption
<1>2. /\ devices' = [i \in 1..Len(good) |-> NewDevice(good[i])]
      /\ opened' = (opened \ PortsOf(devices)) \cup Range(good)
      /\ handles' = Len(good) /\ removed' = FALSE /\ queries' = 0 /\ phase' = "query"
  BY DEF OpenSerialPorts
<1> HIDE DEF good
<1>3. Len(good) \in Nat /\ Len(SerialPorts) \in Nat /\ MaxQueries \in Nat
  BY <1>1 DEF DevicesAssumption
<1>4. \A i \in 1..Len(good) : NewDevice(good[i]) \in Device /\ NewDevice(good[i]).port = good[i]
  BY <1>1 DEF NewDevice, Device
<1>5. devices' \in Seq(Device) /\ Len(devices') = Len(good)
  BY <1>2, <1>3, <1>4
<1>6. PortsOf(devices') = Range(good)
  <2>1. \A i \in 1..Len(good) : devices'[i].port = good[i]
    BY <1>2, <1>4
  <2>2. DOMAIN good = 1..Len(good)
    BY <1>1
  <2> QED BY <1>5, <2>1, <2>2 DEF PortsOf, Range
<1>7. opened \ PortsOf(devices) = {}
  BY DEF DevInv, NoLostPort
<1>8. DevTypes'
  <2>1. handles' \in 0..Len(SerialPorts) /\ queries' \in 0..MaxQueries
    BY <1>1, <1>2, <1>3
  <2>2. Len(devices') <= Len(SerialPorts) /\ removed' \in BOOLEAN /\ phase' = "query"
    BY <1>1, <1>2, <1>5
  <2> QED BY <1>5, <2>1, <2>2 DEF DevTypes
<1>9. NoLostPort'
  BY <1>2, <1>6, <1>7 DEF NoLostPort
<1> QED BY <1>2, <1>5, <1>8, <1>9 DEF DevInv, HandlesFollow, HandlesAgree

LEMMA QueryKeeps ==
    ASSUME DevicesAssumption, DevInv, NEW bad, NEW heard, Query(bad, heard) PROVE DevInv'
<1> DEFINE left == Selected(devices, {dev \in Range(devices) : dev.port \notin bad})
<1>1. /\ phase = "query" /\ phase' = phase /\ handles' = handles /\ queries < MaxQueries
      /\ devices' = Store(left, heard)
      /\ opened' = opened \ (PortsOf(devices) \ PortsOf(left))
      /\ removed' = (removed \/ left # devices) /\ queries' = queries + 1
  BY DEF Query
<1>2. devices \in Seq(Device) /\ devices \in Seq(Range(devices))
  BY RangeIs DEF DevInv, DevTypes
<1>3. left \in Seq(Range(devices)) /\ Len(left) <= Len(devices)
  BY <1>2, SelectedFrom
<1> HIDE DEF left
<1>4. PortsOf(left) \subseteq PortsOf(devices) /\ left \in Seq(Device)
  BY <1>2, <1>3, PortsWithin
<1>5. devices' \in Seq(Device) /\ Len(devices') = Len(left) /\ PortsOf(devices') = PortsOf(left)
  <2>1. Store(left, heard) \in Seq(Device) /\ Len(Store(left, heard)) = Len(left)
          /\ PortsOf(Store(left, heard)) = PortsOf(left)
    BY <1>4, StoreKeeps
  <2> QED BY <1>1, <2>1
<1>6. NoLostPort'
  <2>1. opened' = PortsOf(left)
    BY <1>1, <1>4 DEF DevInv, NoLostPort
  <2>2. PortsOf(devices)' = PortsOf(devices')
    BY DEF PortsOf
  <2> QED BY <1>5, <2>1, <2>2 DEF NoLostPort
<1>7. DevTypes'
  <2>1. queries + 1 \in 0..MaxQueries
    BY <1>1 DEF DevInv, DevTypes, DevicesAssumption
  <2>2. Len(devices') <= Len(SerialPorts)
    BY <1>3, <1>4, <1>5, <1>2 DEF DevInv, DevTypes
  <2>3. removed' \in BOOLEAN
    BY <1>1
  <2> QED BY <1>1, <1>5, <2>1, <2>2, <2>3 DEF DevInv, DevTypes
<1>8. HandlesFollow'
  <2> SUFFICES ASSUME ~removed' PROVE handles' = Len(devices')
    BY DEF HandlesFollow
  <2>1. ~removed /\ left = devices
    BY <1>1
  <2> QED BY <1>1, <1>5, <2>1 DEF DevInv, HandlesFollow
<1> QED BY <1>1, <1>6, <1>7, <1>8 DEF DevInv, HandlesAgree

LEMMA QueryEndsKeeps == ASSUME DevInv, QueryEnds PROVE DevInv'
BY DEF QueryEnds, DevInv, DevTypes, HandlesFollow, HandlesAgree, NoLostPort, PortsOf

LEMMA PruneKeeps == ASSUME DevInv, Prune PROVE DevInv'
<1> DEFINE left == Selected(devices, Range(devices) \ {devices[i] : i \in Pruned})
<1>1. /\ phase = "prune" /\ Keep(left) /\ removed' = (removed \/ left # devices)
      /\ phase' = IF left = <<>> THEN "closed" ELSE "trim"
      /\ handles' = handles /\ queries' = queries
  BY DEF Prune
<1>2. devices \in Seq(Device) /\ devices \in Seq(Range(devices))
  BY RangeIs DEF DevInv, DevTypes
<1>3. left \in Seq(Range(devices)) /\ Len(left) <= Len(devices)
  BY <1>2, SelectedFrom
<1> HIDE DEF left
<1>4. /\ devices' \in Seq(Device) /\ Len(devices') <= Len(SerialPorts) /\ NoLostPort'
      /\ devices' = left
  BY <1>1, <1>3, KeepKeeps
<1>5. DevTypes'
  BY <1>1, <1>4 DEF DevInv, DevTypes
<1>6. HandlesFollow'
  <2> SUFFICES ASSUME ~removed' PROVE handles' = Len(devices')
    BY DEF HandlesFollow
  <2>1. ~removed /\ left = devices
    BY <1>1
  <2> QED BY <1>1, <1>4, <2>1 DEF DevInv, HandlesFollow
<1> QED BY <1>1, <1>4, <1>5, <1>6 DEF DevInv, HandlesAgree

LEMMA FirstOf ==
    ASSUME NEW S, NEW list \in Seq(S), NEW n \in 0..Len(list)
    PROVE  SubSeq(list, 1, n) \in Seq(S) /\ Len(SubSeq(list, 1, n)) = n
OBVIOUS

LEMMA TrimKeeps == ASSUME DevicesAssumption, DevInv, Trim PROVE DevInv'
<1> DEFINE n == IF Len(devices) < MaxCount THEN Len(devices) ELSE MaxCount
           left == SubSeq(devices, 1, n)
<1>1. /\ phase = "trim" /\ Keep(left) /\ phase' = "open"
      /\ removed' = removed /\ queries' = queries
      /\ IF removed \/ left # devices THEN handles' = Len(left) ELSE handles' = handles
  BY DEF Trim, ComManagerInit
<1>2. devices \in Seq(Device) /\ devices \in Seq(Range(devices)) /\ Len(devices) \in Nat
  BY RangeIs DEF DevInv, DevTypes
<1>3. devices # <<>> /\ Len(devices) > 0
  BY <1>1, <1>2 DEF DevInv
<1>4. n \in 1..MaxCount /\ n \in 0..Len(devices)
  BY <1>2, <1>3 DEF DevicesAssumption
<1> HIDE DEF n
<1>5. left \in Seq(Range(devices)) /\ Len(left) = n
  BY <1>2, <1>4, FirstOf
<1> HIDE DEF left
<1>6. Len(left) <= Len(devices)
  BY <1>4, <1>5
<1>7. /\ devices' \in Seq(Device) /\ Len(devices') <= Len(SerialPorts) /\ NoLostPort'
      /\ devices' = left
  BY <1>1, <1>5, <1>6, KeepKeeps
<1>8. handles' = Len(devices')
  BY <1>1, <1>7 DEF DevInv, HandlesFollow
<1>9. Len(devices') \in 1..MaxCount /\ handles' \in 0..Len(SerialPorts)
  BY <1>4, <1>5, <1>7, <1>8 DEF DevInv, DevTypes
<1>10. DevTypes'
  BY <1>1, <1>7, <1>9 DEF DevInv, DevTypes
<1> QED BY <1>1, <1>7, <1>8, <1>9, <1>10 DEF DevInv, HandlesAgree, HandlesFollow

LEMMA UpdateKeeps == ASSUME DevInv, NEW heard, Update(heard) PROVE DevInv'
<1>1. /\ phase = "open" /\ phase' = phase /\ opened' = opened /\ handles' = handles
      /\ removed' = removed /\ queries' = queries /\ devices' = Store(devices, heard)
  BY DEF Update
<1>2. devices \in Seq(Device)
  BY DEF DevInv, DevTypes
<1>3. devices' \in Seq(Device) /\ Len(devices') = Len(devices) /\ PortsOf(devices') = PortsOf(devices)
  <2>1. Store(devices, heard) \in Seq(Device) /\ Len(Store(devices, heard)) = Len(devices)
          /\ PortsOf(Store(devices, heard)) = PortsOf(devices)
    BY <1>2, StoreKeeps
  <2> QED BY <1>1, <2>1
<1>4. PortsOf(devices)' = PortsOf(devices')
  BY DEF PortsOf
<1> QED BY <1>1, <1>3, <1>4 DEF DevInv, DevTypes, NoLostPort, HandlesFollow, HandlesAgree

\* All devices are removed.
LEMMA CloseKeeps ==
    ASSUME DevInv, devices' = <<>>, opened' = opened \ PortsOf(devices), phase' = "closed",
           UNCHANGED <<handles, removed, queries>>
    PROVE  DevInv'
<1>1. devices' \in Seq(Device) /\ Len(devices') = 0 /\ Len(SerialPorts) \in Nat
  BY DEF DevInv, DevTypes
<1>2. opened' = {}
  BY DEF DevInv, NoLostPort
<1>3. PortsOf(devices)' = {}
  BY <1>1 DEF PortsOf
<1> QED BY <1>1, <1>2, <1>3 DEF DevInv, DevTypes, NoLostPort, HandlesFollow, HandlesAgree

\* The list, the manager's handles and the ports that are open agree from any
\* step to the next.
THEOREM DevicesInvariant == ASSUME DevicesAssumption PROVE DSpec => []DevInv
<1>1. DInit => DevInv
  <2> SUFFICES ASSUME DInit PROVE DevInv
    OBVIOUS
  <2>1. devices = <<>> /\ Len(devices) = 0 /\ devices \in Seq(Device) /\ PortsOf(devices) = {}
    BY DEF DInit, PortsOf
  <2>2. Len(SerialPorts) \in Nat /\ MaxQueries \in Nat
    BY DEF DevicesAssumption
  <2>3. DevTypes
    <3>1. 0 \in 0..Len(SerialPorts) /\ 0 \in 0..MaxQueries /\ 0 <= Len(SerialPorts)
      BY <2>2
    <3> QED BY <2>1, <3>1 DEF DInit, DevTypes
  <2>4. NoLostPort
    BY <2>1 DEF DInit, NoLostPort
  <2> QED BY <2>3, <2>4 DEF DInit, DevInv, HandlesFollow, HandlesAgree
<1>2. DevInv /\ [DNext]_dvars => DevInv'
  <2> SUFFICES ASSUME DevInv, [DNext]_dvars PROVE DevInv'
    OBVIOUS
  <2>1. CASE UNCHANGED dvars
    BY <2>1 DEF dvars, DevInv, DevTypes, NoLostPort, HandlesFollow, HandlesAgree, PortsOf
  <2>2. ASSUME Close PROVE DevInv'
    <3>1. /\ devices' = <<>> /\ opened' = opened \ PortsOf(devices) /\ phase' = "closed"
          /\ UNCHANGED <<handles, removed, queries>>
      <4>1. PortsOf(<<>>) = {}
        BY DEF PortsOf
      <4> QED BY <2>2, <4>1 DEF Close, CloseSerialPorts, Keep
    <3> QED BY <3>1, CloseKeeps
  <2>3. ASSUME NEW p, PortLost(p) PROVE DevInv'
    BY <2>3, CloseKeeps DEF PortLost
  <2> QED BY <2>1, <2>2, <2>3, OpenKeeps, QueryKeeps, QueryEndsKeeps, PruneKeeps, TrimKeeps,
             UpdateKeeps DEF DNext
<1> QED BY <1>1, <1>2, PTL DEF DSpec

\* DevicesAgree, for any ports: through removals by index, failed opens and
\* lost ports of InertialSense.cpp, an open port is that of a device in the
\* list, and an index means the same device to the manager and to the client.
THEOREM DevicesStayTogether == ASSUME DevicesAssumption PROVE DSpec => []DevicesAgree
<1>1. DevInv => DevicesAgree
  <2> SUFFICES ASSUME DevInv PROVE DTypeOK
    BY DEF DevInv, DevicesAgree
  <2>1. \A i \in 1..Len(devices) : devices[i] \in Device
    BY DEF DevInv, DevTypes
  <2>2. opened \subseteq Range(SerialPorts)
    BY <2>1 DEF DevInv, NoLostPort, PortsOf, Device
  <2> QED BY <2>1, <2>2 DEF DTypeOK, Indices, DevInv, DevTypes, Device
<1> QED BY <1>1, DevicesInvariant, PTL

(***************************************************************************)
(* NMEA sentences of a fix, for fixes of any place and time of 120 years.  *)
(* A date and time go through the Julian day, the calendar and the days of *)
(* the epoch; that they come back rests on how the calendar counts.        *)
(***************************************************************************)
LEMMA CalendarYears ==
    ASSUME NEW n \in Int, n >= 0, n <= 43825
    PROVE  LET y == ((20 * n) + 115798) \div 7305
               r == (n + 5912) - ((1461 * y) \div 4)
           IN  /\ y \in 15..136 /\ (1461 * y) \div 4 = (365 * y) + (y \div 4) /\ r \in 123..488
               /\ (1461 * (6680 + y)) \div 4 = 2439870 + ((1461 * y) \div 4)
<1> DEFINE y == ((20 * n) + 115798) \div 7305
           s == y \div 4
<1>1. y \in Int /\ 7305 * y <= (20 * n) + 115798 /\ (20 * n) + 115798 < 7305 * (y + 1)
  OBVIOUS
<1> HIDE DEF y
<1>2. s \in Int /\ 4 * s <= y /\ y <= (4 * s) + 3
  BY <1>1
<1>3. (1461 * y) \div 4 = (365 * y) + s
  BY <1>1, <1>2
<1>4. (1461 * (6680 + y)) \div 4 = 2439870 + ((365 * y) + s)
  BY <1>1, <1>2
<1> HIDE DEF s
<1>5. y \in 15..136 /\ (n + 5912) - ((365 * y) + s) \in 123..488
  BY <1>1, <1>2
<1> QED BY <1>3, <1>4, <1>5 DEF y, s

Calendar(y, r, j5) ==
    LET m == IF j5 - 1 > 12 THEN j5 - 13 ELSE j5 - 1
    IN  [year |-> IF m > 2 THEN 1964 + y ELSE 1965 + y,
         month |-> m, day |-> r - (306001 * j5) \div 10000]

Months == <<1, 32, 60, 91, 121, 152, 182, 213, 244, 274, 305, 335>>

LEMMA MonthOfDay ==
    ASSUME NEW r \in Int, r >= 123, r <= 488
    PROVE  (10000 * r) \div 306001 >= 4 /\ (10000 * r) \div 306001 <= 15
OBVIOUS

LEMMA EpochDaysOf ==
    ASSUME NEW y \in Int, y >= 15, y <= 136, NEW r \in Int, r >= 123, r <= 488, NEW j5 \in Int, j5 >= 4, j5 <= 15, j5 = (10000 * r) \div 306001
    PROVE  LET d == Calendar(y, r, j5)
           IN  /\ d.month \in 1..12 /\ d.year \in Int /\ d.day \in Int
               /\ EpochDays(d) = ((r + (365 * y)) + (y \div 4)) + (3657 - 5912)
<1> DEFINE s == y \div 4
           leap == y % 4 = 0
<1>1. s \in Int /\ 4 * s <= y /\ y <= (4 * s) + 3 /\ (leap <=> y = 4 * s)
  OBVIOUS
<1>2. /\ (1964 + y) - 1969 = y - 5 /\ (y - 5) \div 4 = IF y = 4 * s THEN s - 2 ELSE s - 1
      /\ (1965 + y) - 1969 = y - 4 /\ (y - 4) \div 4 = s - 1
      /\ ((1964 + y) % 4 = 0 <=> y = 4 * s)
  BY <1>1
<1>3. ASSUME j5 \in 4..13 PROVE Months[j5 - 1] = ((306001 * j5) \div 10000) - 62
  <2>1. j5 = 4 \/ j5 = 5 \/ j5 = 6 \/ j5 = 7 \/ j5 = 8 \/ j5 = 9 \/ j5 = 10 \/ j5 = 11 \/ j5 = 12 \/ j5 = 13
    BY <1>3
  <2> QED BY <2>1 DEF Months
<1>4. ASSUME j5 \in {14, 15} PROVE Months[j5 - 13] = ((306001 * j5) \div 10000) - 427
  BY <1>4 DEF Months
<1> DEFINE c == (306001 * j5) \div 10000
<1>5. c \in Int
  OBVIOUS
<1> HIDE DEF c, s
<1>6. CASE j5 \in 4..13
  <2> DEFINE d == [year |-> 1964 + y, month |-> j5 - 1, day |-> r - c]
  <2>1. Calendar(y, r, j5) = d
    BY <1>6 DEF Calendar, c
  <2>2. /\ d.year = 1964 + y /\ d.month = j5 - 1 /\ d.day = r - c
        /\ d.month \in 3..12 /\ d.day \in Int
    BY <1>5, <1>6
  <2> HIDE DEF d
  <2>3. EpochDays(d) = (d.year - 1970) * 365 + (d.year - 1969) \div 4 + Months[d.month] + d.day - 2
                        + (IF d.year % 4 = 0 /\ d.month >= 3 THEN 1 ELSE 0)
    BY DEF EpochDays, Months
  <2>4. EpochDays(d) = (y - 6) * 365 + (y - 5) \div 4 + (c - 62) + (r - c) - 2
                        + (IF y = 4 * s THEN 1 ELSE 0)
    BY <1>2, <1>3, <1>6, <2>2, <2>3 DEF c
  <2> QED BY <1>1, <1>2, <1>5, <2>1, <2>2, <2>4 DEF s
<1>7. CASE j5 \in {14, 15}
  <2> DEFINE d == [year |-> 1965 + y, month |-> j5 - 13, day |-> r - c]
  <2>1. Calendar(y, r, j5) = d
    BY <1>7 DEF Calendar, c
  <2>2. /\ d.year = 1965 + y /\ d.month = j5 - 13 /\ d.day = r - c
        /\ d.month \in 1..2 /\ d.day \in Int
    BY <1>5, <1>7
  <2> HIDE DEF d
  <2>3. EpochDays(d) = (d.year - 1970) * 365 + (d.year - 1969) \div 4 + Months[d.month] + d.day - 2
                        + (IF d.year % 4 = 0 /\ d.month >= 3 THEN 1 ELSE 0)
    BY DEF EpochDays, Months
  <2>4. EpochDays(d) = (y - 5) * 365 + (y - 4) \div 4 + (c - 427) + (r - c) - 2
    BY <1>2, <1>4, <1>7, <2>2, <2>3 DEF c
  <2> QED BY <1>1, <1>2, <1>5, <2>1, <2>2, <2>4 DEF s
<1> QED BY <1>6, <1>7

LEMMA JulianDays ==
    ASSUME NEW a \in Int, a >= -1, a <= 43826, NEW b \in Int, b >= 0, b <= 1, NEW n \in Int, n >= 0, n <= 43825, a + b = n + 1
    PROVE  LET intgr == WeekStart + a
               tmp == (4 * (intgr - 1867216) - 1) \div 146097
               j1 == intgr + 1 + tmp - tmp \div 4 + b
               j2 == j1 + 1524
           IN  j2 = 2445782 + n /\ 20 * (j2 - 2439870) - 2442 = (20 * n) + 115798
<1> DEFINE intgr == WeekStart + a
           tmp == (4 * (intgr - 1867216) - 1) \div 146097
           j1 == intgr + 1 + tmp - tmp \div 4 + b
           j2 == j1 + 1524
<1>1. tmp = 15 \/ tmp = 16
  BY DEF WeekStart
<1> HIDE DEF tmp
<1>2. tmp - tmp \div 4 = 12 /\ tmp \in Int /\ tmp \div 4 \in Int
  BY <1>1
<1>3. j2 = 2445782 + n
  BY <1>2 DEF WeekStart
<1> HIDE DEF j2
<1>4. 20 * (j2 - 2439870) - 2442 = (20 * n) + 115798
  BY <1>3
<1> QED BY <1>3, <1>4 DEF tmp, j2

\* What is known of the day n: the half days that are over, and its year.
DayKnown(h, n, y, r, t) ==
    /\ h \div 2 >= -1 /\ h \div 2 <= 43826 /\ h % 2 >= 0 /\ h % 2 <= 1
    /\ (h \div 2) + (h % 2) = n + 1 /\ n >= 0 /\ n <= 43825
    /\ y >= 15 /\ y <= 136 /\ r >= 123 /\ r <= 488
    /\ y = ((20 * n) + 115798) \div 7305 /\ r = (n + 5912) - t /\ t = (1461 * y) \div 4
    /\ (1461 * (6680 + y)) \div 4 = 2439870 + t

LEMMA DateOfDay ==
    ASSUME NEW h \in Int, NEW n \in Int, NEW y \in Int, NEW r \in Int, NEW t \in Int,
           DayKnown(h, n, y, r, t)
    PROVE  JulianDate(h) = Calendar(y, r, (10000 * r) \div 306001)
<1> DEFINE intgr == WeekStart + h \div 2
           tmp == (4 * (intgr - 1867216) - 1) \div 146097
           j1 == intgr + 1 + tmp - tmp \div 4 + (h % 2)
           j2 == j1 + 1524
           j3 == 6680 + (20 * (j2 - 2439870) - 2442) \div 7305
           j4 == (1461 * j3) \div 4
           k5 == (10000 * (j2 - j4)) \div 306001
           m == IF k5 - 1 > 12 THEN k5 - 13 ELSE k5 - 1
<1>1. JulianDate(h) = [year |-> IF m > 2 THEN j3 - 4716 ELSE j3 - 4715, month |-> m,
                       day |-> j2 - j4 - (306001 * k5) \div 10000]
  BY DEF JulianDate
<1>2. j2 = 2445782 + n /\ 20 * (j2 - 2439870) - 2442 = (20 * n) + 115798
  <2> DEFINE a == h \div 2
             b == h % 2
  <2>1. a \in Int /\ a >= -1 /\ a <= 43826 /\ b \in Int /\ b >= 0 /\ b <= 1 /\ a + b = n + 1
        /\ n >= 0 /\ n <= 43825
    BY DEF DayKnown
  <2> HIDE DEF a, b
  <2>2. LET ii == WeekStart + a
            tt == (4 * (ii - 1867216) - 1) \div 146097
            k1 == ii + 1 + tt - tt \div 4 + b
            k2 == k1 + 1524
        IN  k2 = 2445782 + n /\ 20 * (k2 - 2439870) - 2442 = (20 * n) + 115798
    BY <2>1, JulianDays
  <2> QED BY <2>2 DEF a, b
<1> HIDE DEF j2
<1>3. j3 = 6680 + y
  BY <1>2 DEF DayKnown
<1> HIDE DEF j3
<1>4. j4 = 2439870 + t
  BY <1>3 DEF DayKnown
<1> HIDE DEF j4
<1>5. j2 - j4 = r /\ j3 - 4716 = 1964 + y /\ j3 - 4715 = 1965 + y
  BY <1>2, <1>3, <1>4 DEF DayKnown
<1> QED BY <1>1, <1>5 DEF Calendar

\* The day of the calendar that julianToDate gives is the one that epochToTime
\* counts, from 6 Jan 1980 to the end of 2099.
LEMMA DatesCount ==
    ASSUME NEW h \in Int, NEW n \in Int, n >= 0, n <= 43825, n = ((h \div 2) + (h % 2)) - 1
    PROVE  /\ EpochDays(JulianDate(h)) = n + 3657
           /\ JulianDate(h) \in [year : Int, month : 1..12, day : Int]
<1>1. /\ h \div 2 >= -1 /\ h \div 2 <= 43826 /\ h % 2 >= 0 /\ h % 2 <= 1
      /\ (h \div 2) + (h % 2) = n + 1
  OBVIOUS
<1>2. PICK y \in Int, r \in Int, t \in Int :
          /\ y >= 15 /\ y <= 136 /\ r >= 123 /\ r <= 488
          /\ y = ((20 * n) + 115798) \div 7305 /\ r = (n + 5912) - t /\ t = (1461 * y) \div 4
          /\ t = (365 * y) + (y \div 4) /\ (1461 * (6680 + y)) \div 4 = 2439870 + t
  <2> DEFINE y == ((20 * n) + 115798) \div 7305
             t == (1461 * y) \div 4
  <2>1. /\ y \in 15..136 /\ t = (365 * y) + (y \div 4) /\ (n + 5912) - t \in 123..488
        /\ (1461 * (6680 + y)) \div 4 = 2439870 + t
    BY CalendarYears
  <2> HIDE DEF y
  <2>2. t \in Int
    BY <2>1
  <2>3. t = (1461 * y) \div 4 /\ y = ((20 * n) + 115798) \div 7305
    BY DEF y
  <2> HIDE DEF t
  <2> QED BY <2>1, <2>2, <2>3
<1>3. PICK j5 \in Int : j5 >= 4 /\ j5 <= 15 /\ j5 = (10000 * r) \div 306001
  <2>1. (10000 * r) \div 306001 >= 4 /\ (10000 * r) \div 306001 <= 15
        /\ (10000 * r) \div 306001 \in Int
    BY <1>2, MonthOfDay
  <2> QED BY <2>1
<1>4. JulianDate(h) = Calendar(y, r, j5)
  <2>1. JulianDate(h) = Calendar(y, r, (10000 * r) \div 306001)
    <3>1. DayKnown(h, n, y, r, t)
      BY <1>1, <1>2 DEF DayKnown
    <3> QED BY <3>1, DateOfDay
  <2> QED BY <1>3, <2>1
<1>5. /\ Calendar(y, r, j5).month \in 1..12 /\ Calendar(y, r, j5).year \in Int
      /\ Calendar(y, r, j5).day \in Int
      /\ EpochDays(Calendar(y, r, j5)) = ((r + (365 * y)) + (y \div 4)) + (3657 - 5912)
  BY <1>2, <1>3, EpochDaysOf
<1>6. Calendar(y, r, j5) \in [year : Int, month : 1..12, day : Int]
  BY <1>5 DEF Calendar
<1>7. ((r + (365 * y)) + (y \div 4)) + (3657 - 5912) = n + 3657
  BY <1>2
<1> QED BY <1>4, <1>5, <1>6, <1>7

\* A coordinate comes back, but for the sign of one within a degree of zero.
LEMMA PlaceRead == ASSUME NEW v \in Int PROVE Minutes(DegMin(v)) \in Int /\ Near(Minutes(DegMin(v)), v)
<1>1. CASE v >= 0
  <2>1. PICK d \in Nat, m \in Nat : d = v \div 60 /\ v = 60 * d + m
    <3>1. v \div 60 \in Nat /\ v - 60 * (v \div 60) \in Nat
      BY <1>1, SMT
    <3>2. v = 60 * (v \div 60) + (v - 60 * (v \div 60))
      BY <3>1, SMT
    <3> QED BY <3>1, <3>2, Zenon
  <2>2. Trunc(v, 60) = d
    BY <1>1, <2>1, SMT DEF Trunc
  <2>3. Abs(d) = d /\ Abs(v - 60 * d) = m /\ ~(d < 0)
    BY <2>1, SMT DEF Abs
  <2>4. DegMin(v).deg = d /\ DegMin(v).min = m /\ DegMin(v).sign = 1
    BY <2>2, <2>3, SMT DEF DegMin
  <2>5. Minutes(DegMin(v)) = 1 * (60 * d + m)
    BY <2>4, SMT DEF Minutes
  <2>6. Minutes(DegMin(v)) = v
    BY <2>1, <2>5, SMT
  <2> QED BY <2>6, SMT DEF Near
<1>2. CASE v < 0
  <2>1. PICK d \in Nat : d = (-v) \div 60 /\ 60 * d <= -v /\ -v < 60 * d + 60
    <3>1. (-v) \div 60 \in Nat /\ 60 * ((-v) \div 60) <= -v /\ -v < 60 * ((-v) \div 60) + 60
      BY <1>2, SMT
    <3> QED BY <3>1
  <2>2. Trunc(v, 60) = 0 - d
    BY <1>2, <2>1, SMT DEF Trunc
  <2>3. Abs(0 - d) = d /\ Abs(v - 60 * (0 - d)) = (0 - v) - (60 * d)
    BY <2>1, SMT DEF Abs
  <2>4. /\ DegMin(v).deg = d /\ DegMin(v).min = (0 - v) - (60 * d)
        /\ DegMin(v).sign = IF 0 - d < 0 THEN -1 ELSE 1
    BY <2>2, <2>3, SMT DEF DegMin
  <2>5. Minutes(DegMin(v)) = IF d > 0 THEN v ELSE 0 - v
    BY <2>1, <2>4, SMT DEF Minutes
  <2>6. d = 0 => v \in -59..-1
    BY <1>2, <2>1, SMT
  <2> QED BY <2>1, <2>5, <2>6, SMT DEF Near
<1> QED BY <1>1, <1>2, SMT

\* The days since 6 Jan 1980 of a time, in UTC.
DaysIn(p) == (7 * p.week) + ((p.tow - 1000 * p.leapS) \div Day)

LEMMA TimeOfDay ==
    ASSUME NEW tow \in Int, NEW l \in Int, l >= 0, 1000 * l < Day, tow >= 1, tow < 7 * Day
    PROVE  /\ UtcTimeOfDay(tow, l) \in 0..Day - 1
           /\ tow >= 1000 * l => UtcTimeOfDay(tow, l) = (tow - 1000 * l) - Day * ((tow - 1000 * l) \div Day)
           /\ (tow - 1000 * l) \div Day \in -1..6
           /\ tow >= 1000 * l => (tow - 1000 * l) \div Day >= 0
<1> DEFINE t == tow - 1000 * l
<1>1. t \in Int /\ t < 7 * Day /\ -Day < t /\ Day \in Nat /\ Day > 0
  BY SMT DEF Day
<1>2. UtcTimeOfDay(tow, l) = (IF t < 0 THEN Wrapped + t ELSE t) % Day
  BY SMT DEF UtcTimeOfDay
<1>3. tow >= 1000 * l <=> t >= 0
  BY <1>1, SMT DEF Day
<1> HIDE DEF t
<1>4. UtcTimeOfDay(tow, l) \in 0..Day - 1
  <2> DEFINE u == IF t < 0 THEN Wrapped + t ELSE t
  <2>1. u \in Int
    BY <1>1, SMT DEF Wrapped
  <2> HIDE DEF u
  <2>2. \A b \in Nat : b > 0 => u % b \in 0..b - 1
    BY <2>1, SMT
  <2>3. u % Day \in 0..Day - 1
    BY <1>1, <2>2, SMT
  <2> QED BY <1>2, <2>3, SMT DEF u
<1>5. t >= 0 => t % Day = t - Day * (t \div Day) /\ t \div Day >= 0
  BY <1>1, SMT DEF Day
<1>6. t \div Day \in -1..6
  BY <1>1, SMT DEF Day
<1>7. t >= 0 => UtcTimeOfDay(tow, l) = t - Day * (t \div Day)
  BY <1>1, <1>2, <1>5, SMT
<1> QED BY <1>3, <1>4, <1>5, <1>6, <1>7, SMT DEF t

LEMMA HalfDaysCount ==
    ASSUME NEW w \in Int, NEW t \in Int, NEW q \in Int, q = t \div Day, NEW h \in Int, h = 14 * w + 1 + (2 * t) \div Day
    PROVE  ((h \div 2) + (h % 2)) - 1 = (7 * w) + q
<1> DEFINE k == (2 * t) \div Day
<1>1. k \in Int /\ (k = 2 * q \/ k = (2 * q) + 1)
  BY SMT DEF Day
<1> HIDE DEF k
<1>2. CASE k = 2 * q
  <2>1. h = (2 * ((7 * w) + q)) + 1
    BY <1>1, <1>2 DEF k
  <2>2. h \div 2 = (7 * w) + q /\ h % 2 = 1
    BY <2>1
  <2> QED BY <2>2
<1>3. CASE k = (2 * q) + 1
  <2>1. h = 2 * ((7 * w) + q + 1)
    BY <1>1, <1>3 DEF k
  <2>2. h \div 2 = (7 * w) + q + 1 /\ h % 2 = 0
    BY <2>1
  <2> QED BY <2>2
<1> QED BY <1>1, <1>2, <1>3

\* The date that is printed is the day on which the fix was.
LEMMA DatePrinted ==
    ASSUME FixAssumption, NEW p \in Records
    PROVE  /\ EpochDays(DateOf(p)) = DaysIn(p) + 3657 /\ DaysIn(p) \in Nat
           /\ DateOf(p) \in [year : Int, month : 1..12, day : Int]
<1> DEFINE w == p.week
           tow == p.tow
           l == p.leapS
           t == tow - 1000 * l
           q == t \div Day
           h == 14 * w + 1 + (2 * t) \div Day
<1>1. w \in Int /\ tow \in Int /\ l \in Int /\ w >= 1 /\ w <= LastWeek /\ l >= 0 /\ 1000 * l < Day
      /\ tow >= 1 /\ tow < 7 * Day
  <2>1. p.week \in 1..LastWeek /\ p.tow \in 1..(7 * Day - 1) /\ p.leapS \in Nat /\ 1000 * p.leapS < Day
    BY DEF FixAssumption
  <2> HIDE DEF w, tow, l
  <2>2. w \in 1..LastWeek /\ tow \in 1..(7 * Day - 1) /\ l \in Nat /\ 1000 * l < Day
    BY <2>1 DEF w, tow, l
  <2>3. Day \in Int /\ LastWeek \in Int
    BY SMT DEF Day, LastWeek
  <2> QED BY <2>2, <2>3, SMT
<1>2. DaysIn(p) = (7 * w) + q /\ DateOf(p) = JulianDate(h)
  BY DEF DaysIn, DateOf, HalfDays
<1> HIDE DEF w, tow, l
<1>3. t \in Int /\ h \in Int /\ q \in Int /\ q >= -1 /\ q <= 6
  <2>1. t \in Int /\ t < 7 * Day /\ -Day < t
    BY <1>1, SMT DEF Day
  <2> HIDE DEF t
  <2>2. (2 * t) \div Day \in Int /\ t \div Day \in -1..6
    BY <2>1, SMT DEF Day
  <2> QED BY <1>1, <2>1, <2>2, SMT
<1>4. h = 14 * w + 1 + (2 * t) \div Day /\ q = t \div Day
  OBVIOUS
<1> HIDE DEF t, h, q
<1>5. ((h \div 2) + (h % 2)) - 1 = (7 * w) + q
  BY <1>1, <1>3, <1>4, HalfDaysCount
<1>6. (7 * w) + q >= 0 /\ (7 * w) + q <= 43825 /\ (7 * w) + q \in Int
  BY <1>1, <1>3 DEF LastWeek
<1>7. /\ EpochDays(JulianDate(h)) = ((7 * w) + q) + 3657
      /\ JulianDate(h) \in [year : Int, month : 1..12, day : Int]
  BY <1>3, <1>5, <1>6, DatesCount
<1> QED BY <1>2, <1>6, <1>7

LEMMA FirstDay == EpochDays([year |-> 1980, month |-> 1, day |-> 6]) = 3657
BY DEF EpochDays

\* A date is n days after 6 Jan 1980.
Dated(d, n) == EpochDays(d) = n + 3657 /\ n >= 0

\* The time of week that a time of day is on date d, day q of week w.
OnDay(d, w, q, tow, n, time) ==
    /\ Dated(d, n) /\ time >= 0 /\ w >= 0 /\ q >= 0 /\ q <= 6 /\ n = (7 * w) + q
    /\ tow = (Day * q) + time /\ tow < 7 * Day

LEMMA DayCount ==
    ASSUME NEW time \in Int, time >= 0
    PROVE  /\ time \div Day \in Int /\ time \div Day >= 0
           /\ time % Day = time - Day * (time \div Day) /\ time % Day \in Nat /\ time % Day < Day
BY SMT DEF Day

\* A time of day on a date, of which the clock may have gone on to the next.
LEMMA TimeOnDate ==
    ASSUME NEW d, NEW n \in Int, Dated(d, n), NEW time \in Int, time >= 0
    PROVE  /\ Gpst(d, time).week \in Nat /\ Gpst(d, time).tow \in Nat
           /\ Gpst(d, time).week = (n + time \div Day) \div 7
           /\ Gpst(d, time).tow = ((n + time \div Day) % 7) * Day + (time % Day)
<1> DEFINE c == time \div Day
           days == n + c
<1>1. c \in Int /\ c >= 0 /\ time % Day \in Nat
  BY DayCount
<1>2. days \in Int /\ days >= 0 /\ days \div 7 \in Nat /\ days % 7 \in Nat
  BY <1>1 DEF Dated
<1>3. Gpst(d, time) = [week |-> days \div 7, tow |-> (days % 7) * Day + (time % Day)]
  <2>1. EpochDays(d) - EpochDays([year |-> 1980, month |-> 1, day |-> 6]) + time \div Day = days
    BY <1>1, FirstDay DEF Dated
  <2> HIDE DEF days
  <2> QED BY <2>1 DEF Gpst
<1> HIDE DEF c
<1>4. ((days % 7) * Day) + (time % Day) \in Nat
  <2> HIDE DEF days
  <2> QED BY <1>1, <1>2, SMT DEF Day
<1> QED BY <1>2, <1>3, <1>4 DEF c

LEMMA TimeOnDay ==
    ASSUME NEW d, NEW w \in Int, NEW q \in Int, NEW tow \in Int, NEW n \in Int, NEW time \in Int,
           OnDay(d, w, q, tow, n, time)
    PROVE  Gpst(d, time).week = w /\ Gpst(d, time).tow = tow
<1> DEFINE c == time \div Day
           e == q + c
           days == n + c
<1>1. c \in Int /\ c >= 0 /\ time % Day = time - Day * c /\ time % Day \in Nat /\ time % Day < Day
  BY DayCount, SMT DEF OnDay
<1>2. Gpst(d, time).week = days \div 7 /\ Gpst(d, time).tow = (days % 7) * Day + (time % Day)
  BY TimeOnDate, SMT DEF OnDay
<1> HIDE DEF c
<1>3. w >= 0 /\ q >= 0 /\ q <= 6 /\ n = (7 * w) + q /\ tow = (Day * q) + time /\ tow < 7 * Day
  BY Zenon DEF OnDay
<1>4. e \in 0..6 /\ days = (7 * w) + e
  BY <1>1, <1>3, SMT DEF Day
<1>5. e * Day + (time - Day * c) = tow
  BY <1>1, <1>3, SMT DEF Day
<1> HIDE DEF e, days
<1>6. days \div 7 = w /\ days % 7 = e
  BY <1>3, <1>4
<1> QED BY <1>1, <1>2, <1>5, <1>6

LEMMA GpsTime ==
    ASSUME FixAssumption, gps \in Records
    PROVE  /\ gps.week \in Nat /\ gps.tow \in Nat /\ gps.tow >= 1 /\ gps.tow < 7 * Day
           /\ gps.leapS \in Nat /\ 1000 * gps.leapS < Day
           /\ gps.lat \in Int /\ gps.lon \in Int /\ gps.bits \in SUBSET Nat
           /\ Time(gps) \in Nat /\ Time(gps) < Day /\ Weekday \in 0..6 /\ DaysIn(gps) \in Nat
           /\ ~WeekBegins => /\ DaysIn(gps) = (7 * gps.week) + Weekday
                             /\ gps.tow = ((Day * Weekday) + Time(gps)) + (1000 * gps.leapS)
<1> DEFINE tow == gps.tow
           l == gps.leapS
           q == (tow - 1000 * l) \div Day
<1>1. /\ gps.week \in 1..LastWeek /\ gps.tow \in 1..(7 * Day - 1) /\ gps.leapS \in Nat
      /\ 1000 * gps.leapS < Day /\ gps.lat \in Int /\ gps.lon \in Int /\ gps.bits \in SUBSET Nat
  BY DEF FixAssumption
<1>2. Time(gps) = UtcTimeOfDay(tow, l) /\ Weekday = q % 7 /\ DaysIn(gps) = (7 * gps.week) + q
      /\ (WeekBegins <=> tow < 1000 * l) /\ tow = gps.tow /\ l = gps.leapS
  BY Zenon DEF Time, Weekday, DaysIn, WeekBegins
<1> HIDE DEF tow, l
<1>3. Day \in Int /\ LastWeek \in Int
  BY SMT DEF Day, LastWeek
<1>4. tow \in Int /\ tow >= 1 /\ tow < 7 * Day /\ l \in Int /\ l >= 0 /\ 1000 * l < Day
  BY <1>1, <1>2, <1>3, SMT
<1>5. /\ UtcTimeOfDay(tow, l) \in 0..Day - 1
      /\ tow >= 1000 * l => UtcTimeOfDay(tow, l) = (tow - 1000 * l) - Day * q
      /\ q \in -1..6 /\ (tow >= 1000 * l => q >= 0)
  <2>1. tow \in Int /\ l \in Int /\ l >= 0 /\ 1000 * l < Day /\ tow >= 1 /\ tow < 7 * Day
        => /\ UtcTimeOfDay(tow, l) \in 0..Day - 1
           /\ tow >= 1000 * l => UtcTimeOfDay(tow, l) = (tow - 1000 * l) - Day * ((tow - 1000 * l) \div Day)
           /\ (tow - 1000 * l) \div Day \in -1..6
           /\ tow >= 1000 * l => (tow - 1000 * l) \div Day >= 0
    BY TimeOfDay, SMT
  <2> QED BY <1>4, <2>1
<1> HIDE DEF q
<1>6. q % 7 \in 0..6 /\ (q >= 0 => q % 7 = q)
  BY <1>5, SMT
<1>7. DaysIn(gps) \in Nat
  <2>1. gps \in Records
    OBVIOUS
  <2> QED BY <2>1, DatePrinted, FixAssumption
<1>8. gps.week \in Nat /\ gps.week \in Int
  BY <1>1, <1>3, SMT
<1>9. ASSUME ~WeekBegins
      PROVE  /\ DaysIn(gps) = (7 * gps.week) + Weekday
             /\ gps.tow = ((Day * Weekday) + Time(gps)) + (1000 * gps.leapS)
  <2>1. tow >= 1000 * l
    BY <1>2, <1>4, <1>9, SMT
  <2>2. Weekday = q
    BY <1>2, <1>5, <1>6, <2>1, SMT
  <2>3. Time(gps) = (tow - 1000 * l) - Day * q
    BY <1>2, <1>5, <2>1, SMT
  <2>4. tow = ((Day * q) + Time(gps)) + (1000 * l)
    <3> DEFINE a == Day * q
    <3>1. a \in Int /\ Time(gps) = (tow - 1000 * l) - a
      BY <1>3, <1>5, <2>3, SMT
    <3> HIDE DEF a
    <3>2. tow = (a + Time(gps)) + (1000 * l)
      BY <1>4, <3>1, SMT
    <3> QED BY <3>2 DEF a
  <2>5. DaysIn(gps) = (7 * gps.week) + Weekday
    BY <1>2, <2>2
  <2>6. gps.tow = ((Day * Weekday) + Time(gps)) + (1000 * gps.leapS)
    BY <1>2, <2>2, <2>4
  <2> QED BY <2>5, <2>6
<1>10. Time(gps) \in Nat /\ Time(gps) < Day
  BY <1>2, <1>3, <1>5, SMT
<1> QED BY <1>1, <1>2, <1>4, <1>6, <1>7, <1>8, <1>9, <1>10, SMT

FixNames ==
    {"none", "2D", "3D", "dgps", "timeOnly", "rtkFix", "rtkFloat", "gpsDeadReck", "deadReckoning"}
FlagNames == {"nmea", "ok", "dgps", "rtk", "valid", "hold"}

\* A fix is one at the other end, by way of each sentence.
LEMMA FixRead ==
    ASSUME NEW f
    PROVE  /\ Quality(f) \in 0..6
           /\ DidFix(Quality(f)) \in FixNames /\ (DidFix(Quality(f)) \in Fixed <=> f \in Fixed)
           /\ GgaFix(Quality(f)) \in FixNames /\ (GgaFix(Quality(f)) \in Fixed <=> f \in Fixed)
           /\ Flags(Quality(f)) \subseteq FlagNames /\ ("ok" \in Flags(Quality(f)) <=> f \in Fixed)
           /\ GsaMode(f) \in {0, 2, 3} /\ (GsaMode(f) \in {2, 3} <=> f \in Fixed)
<1>1. /\ Quality(f) \in {0, 1, 2, 3, 4, 5, 6} /\ (Quality(f) \in {1, 2, 4, 5} <=> f \in Fixed)
      /\ GsaMode(f) \in {0, 2, 3} /\ (GsaMode(f) \in {2, 3} <=> f \in Fixed)
  BY DEF Quality, GsaMode, Fixed
<1>2. /\ DidFix(0) = "none" /\ DidFix(1) = "3D" /\ DidFix(2) = "dgps" /\ DidFix(3) = "timeOnly"
      /\ DidFix(4) = "rtkFix" /\ DidFix(5) = "rtkFloat" /\ DidFix(6) = "gpsDeadReck"
  BY SMT DEF DidFix
<1>3. /\ GgaFix(0) = "none" /\ GgaFix(1) = "3D" /\ GgaFix(2) = "dgps" /\ GgaFix(3) = "none"
      /\ GgaFix(4) = "rtkFix" /\ GgaFix(5) = "rtkFloat" /\ GgaFix(6) = "deadReckoning"
  BY <1>2, SMT DEF GgaFix
<1>4. /\ {"none", "timeOnly", "gpsDeadReck", "deadReckoning"} \cap Fixed = {}
      /\ {"3D", "dgps", "rtkFix", "rtkFloat"} \subseteq Fixed
  BY SMT DEF Fixed
<1>5. \A n \in {0, 1, 2, 3, 4, 5, 6} :
         /\ DidFix(n) \in FixNames /\ (DidFix(n) \in Fixed <=> n \in {1, 2, 4, 5})
         /\ GgaFix(n) \in FixNames /\ (GgaFix(n) \in Fixed <=> n \in {1, 2, 4, 5})
  BY <1>2, <1>3, <1>4, SMT DEF FixNames
<1>6. ASSUME NEW n \in {0, 1, 2, 3, 4, 5, 6}
      PROVE  Flags(n) \subseteq FlagNames /\ ("ok" \in Flags(n) <=> n \in {1, 2, 4, 5})
  BY SMT DEF Flags, FlagNames
<1> QED BY <1>1, <1>5, <1>6, SMT

HostType ==
    [week : Nat, tow : Nat, leapS : Nat, lat : Int, lon : Int, fix : FixNames,
     flags : SUBSET FlagNames, bits : SUBSET Nat, satsUsed : SUBSET Nat]

LineKnown ==
    \/ line = NoLine
    \/ reader # "velocity" /\ line \in {Gga(gps), Gll(gps), Gsa(gps), Zda(gps)}
    \/ reader = "velocity" /\ line.type \in {"RMC", "VTG"}

\* The date is none before 6 Jan 1980, and that of this fix if its date was
\* read, without which the time is not taken for known.
DateKnown ==
    /\ \E n \in Nat : EpochDays(date) = n + 3657
    /\ "date" \in fresh => EpochDays(date) = DaysIn(gps) + 3657
    /\ reader = "gnss" /\ ("time" \in fresh \/ "week" \in fresh) => "date" \in fresh

\* What was told of this fix is the velocity kept for its time of week.
ToldKept ==
    /\ told # {} => speed.tow = gps.tow /\ told = {speed.v}
    /\ speed.tow = gps.tow => speed.v \in had
    /\ gpsVel.v \in had

FixInv ==
    /\ FixGivenBack /\ LineKnown /\ DateKnown /\ ToldKept
    /\ reader \in Readers /\ (reader = "velocity" => fresh = {})
    /\ host \in HostType /\ host.leapS = gps.leapS
    /\ DOMAIN hostVel = {"tow", "frame", "v", "nmea"} /\ hostVel.nmea \in BOOLEAN

LEMMA FixInits == ASSUME FixAssumption, NInit PROVE FixInv
<1>1. /\ reader \in Readers /\ gps \in Records /\ fixes = 1 /\ line = NoLine /\ had = {gpsVel.v}
      /\ told = {} /\ speed = [tow |-> 0, v |-> 0] /\ date = Yesterday /\ fresh = {}
      /\ host = [week |-> 0, tow |-> 0, leapS |-> gps.leapS, lat |-> 0, lon |-> 0, fix |-> "none",
                 flags |-> {}, bits |-> {}, satsUsed |-> {}]
      /\ hostVel = [tow |-> 0, frame |-> "ecef", v |-> 0, nmea |-> FALSE]
  BY DEF NInit
<1>2. gps.leapS \in Nat /\ gps.tow >= 1 /\ gps.tow \in Nat
  BY <1>1, GpsTime
<1>3. host \in HostType /\ host.leapS = gps.leapS /\ host.tow = 0 /\ host.week = 0
  <2>1. "none" \in FixNames /\ {} \in SUBSET FlagNames /\ {} \in SUBSET Nat /\ 0 \in Nat /\ 0 \in Int
    BY DEF FixNames
  <2> QED BY <1>1, <1>2, <2>1, Zenon DEF HostType
<1>4. DateKnown
  <2>1. EpochDays(Yesterday) = 16064 + 3657
    BY SMT DEF EpochDays, Yesterday
  <2> QED BY <1>1, <2>1, SMT DEF DateKnown
<1>5. ToldKept
  BY <1>1, <1>2 DEF ToldKept
<1>6. MaxFixes \in Nat \ {0}
  BY DEF FixAssumption
<1>7. NTypeOK /\ PlaceArrives /\ TimeArrives /\ FixBelieved /\ OneVelocity
  BY <1>1, <1>3, <1>6 DEF NTypeOK, PlaceArrives, TimeArrives, FixBelieved, OneVelocity
<1>8. DOMAIN hostVel = {"tow", "frame", "v", "nmea"} /\ hostVel.nmea = FALSE /\ hostVel.frame = "ecef"
  BY <1>1
<1>9. FrameKnown /\ hostVel.nmea \in BOOLEAN
  BY <1>8 DEF FrameKnown
<1> QED BY <1>1, <1>3, <1>4, <1>5, <1>7, <1>8, <1>9 DEF FixInv, FixGivenBack, LineKnown

\* A reading of positions leaves the device and the velocities alone.
LEMMA PositionRead ==
    ASSUME FixAssumption, FixInv, reader # "velocity", UNCHANGED <<device, reader, hostVel>>,
           host' \in HostType, host'.leapS = gps.leapS, DateKnown',
           fresh' \subseteq {"place", "time", "week", "date", "fix"},
           "place" \in fresh' => Near(host'.lat, gps.lat) /\ Near(host'.lon, gps.lon),
           ~WeekBegins => /\ "time" \in fresh' => host'.tow = gps.tow
                          /\ "week" \in fresh' => host'.week = gps.week,
           "fix" \in fresh' => /\ host'.fix \in Fixed <=> gps.fix \in Fixed
                               /\ reader = "gnss" => ("ok" \in host'.flags <=> gps.fix \in Fixed)
                                                     /\ host'.bits = gps.bits
    PROVE  FixInv'
<1>1. /\ gps' = gps /\ gpsVel' = gpsVel /\ fixes' = fixes /\ speed' = speed /\ line' = line
      /\ had' = had /\ told' = told /\ reader' = reader /\ hostVel' = hostVel
  BY DEF device
<1>2. host'.tow \in Nat /\ host'.week \in Nat
  BY DEF HostType
<1>3. NTypeOK'
  BY <1>1, <1>2 DEF FixInv, FixGivenBack, NTypeOK
<1>4. PlaceArrives' /\ TimeArrives' /\ FixBelieved'
  <2>1. WeekBegins' <=> WeekBegins
    BY <1>1, SMT DEF WeekBegins
  <2>2. PlaceArrives'
    BY <1>1, Zenon DEF PlaceArrives
  <2>3. TimeArrives'
    BY <1>1, <2>1, Zenon DEF TimeArrives
  <2>4. FixBelieved'
    BY <1>1, Zenon DEF FixBelieved
  <2> QED BY <2>2, <2>3, <2>4
<1>5. OneVelocity' /\ ToldKept' /\ FrameKnown'
  BY <1>1, Zenon DEF FixInv, FixGivenBack, OneVelocity, ToldKept, FrameKnown
<1>6. LineKnown'
  BY <1>1, Zenon DEF FixInv, LineKnown, Gga, Gll, Gsa, Zda, Position, Time, DateOf
<1>7. /\ reader' \in Readers /\ reader' # "velocity" /\ host'.leapS = gps'.leapS
      /\ DOMAIN hostVel' = {"tow", "frame", "v", "nmea"} /\ hostVel'.nmea \in BOOLEAN
  BY <1>1, Zenon DEF FixInv
<1> QED BY <1>3, <1>4, <1>5, <1>6, <1>7 DEF FixInv, FixGivenBack

LEMMA DateStays ==
    ASSUME DateKnown, date' = date, gps' = gps, reader' = "did", "date" \in fresh' => "date" \in fresh
    PROVE  DateKnown'
<1>1. EpochDays(date') = EpochDays(date) /\ DaysIn(gps') = DaysIn(gps)
  OBVIOUS
<1>2. \E n \in Nat : EpochDays(date') = n + 3657
  BY <1>1 DEF DateKnown
<1>3. "date" \in fresh' => EpochDays(date') = DaysIn(gps') + 3657
  BY <1>1 DEF DateKnown
<1> QED BY <1>2, <1>3 DEF DateKnown

\* What was printed of a position.
LEMMA SentenceKnown ==
    ASSUME FixInv, reader # "velocity"
    PROVE  /\ line.type = "GGA" => line = Gga(gps)
           /\ line.type = "GLL" => line = Gll(gps)
           /\ line.type = "GSA" => line = Gsa(gps)
           /\ line.type = "ZDA" => line = Zda(gps)
BY DEF FixInv, LineKnown, NoLine, Gga, Gll, Gsa, Zda

\* The time of day of a sentence on the day of the week that it is.
LEMMA DidTime ==
    ASSUME FixAssumption, FixInv
    PROVE  /\ Weekday * Day + Time(gps) + 1000 * host.leapS \in Nat
           /\ ~WeekBegins => Weekday * Day + Time(gps) + 1000 * host.leapS = gps.tow
<1>1. gps \in Records /\ host.leapS = gps.leapS
  BY DEF FixInv, FixGivenBack, NTypeOK
<1>2. Day \in Nat
  BY SMT DEF Day
<1> DEFINE a == Weekday * Day
<1>3. a \in Nat /\ Day * Weekday = a
  BY <1>1, <1>2, GpsTime
<1> HIDE DEF a
<1>4. Time(gps) \in Nat /\ gps.leapS \in Nat
  BY <1>1, GpsTime
<1>5. ~WeekBegins => gps.tow = ((Day * Weekday) + Time(gps)) + (1000 * gps.leapS)
  BY <1>1, GpsTime
<1>6. a + Time(gps) + 1000 * host.leapS \in Nat
  BY <1>1, <1>3, <1>4
<1>7. ~WeekBegins => a + Time(gps) + 1000 * host.leapS = gps.tow
  BY <1>1, <1>3, <1>4, <1>5
<1> QED BY <1>6, <1>7 DEF a

LEMMA GgaDidKeeps ==
    ASSUME FixAssumption, FixInv, reader = "did", GgaToDidGps(Weekday), UNCHANGED <<device, reader>>
    PROVE  FixInv'
<1>1. gps \in Records /\ host \in HostType /\ host.leapS = gps.leapS /\ reader # "velocity"
  BY DEF FixInv, FixGivenBack, NTypeOK
<1>2. line.time = Time(gps) /\ line.at = Position(gps) /\ line.quality = Quality(gps.fix) /\ line.sats = gps.bits
  BY <1>1, SentenceKnown DEF GgaToDidGps, Gga
<1>3. line.at.lat = DegMin(gps.lat) /\ line.at.lon = DegMin(gps.lon)
  BY <1>2 DEF Position
<1> DEFINE lat == Minutes(DegMin(gps.lat))
           lon == Minutes(DegMin(gps.lon))
           tow == Weekday * Day + Time(gps) + 1000 * host.leapS
           f == DidFix(Quality(gps.fix))
           g == host.flags \cup Flags(Quality(gps.fix))
           b == host.bits \cup gps.bits
<1>4. host' = [host EXCEPT !.tow = tow, !.lat = lat, !.lon = lon, !.fix = f, !.flags = g,
                           !.satsUsed = gps.bits, !.bits = b]
  BY <1>2, <1>3, SMT DEF GgaToDidGps
<1>5. lat \in Int /\ lon \in Int /\ Near(lat, gps.lat) /\ Near(lon, gps.lon)
  BY <1>1, GpsTime, PlaceRead
<1>6. tow \in Nat /\ (~WeekBegins => tow = gps.tow)
  BY DidTime, Zenon
<1>7. f \in FixNames /\ (f \in Fixed <=> gps.fix \in Fixed) /\ g \in SUBSET FlagNames
  BY <1>1, FixRead DEF HostType
<1>8. b \in SUBSET Nat /\ gps.bits \in SUBSET Nat
  BY <1>1, GpsTime DEF HostType
<1> HIDE DEF lat, lon, tow, f, g, b
<1>9. /\ host' \in HostType /\ host'.leapS = host.leapS /\ host'.week = host.week
      /\ host'.tow = tow /\ host'.lat = lat /\ host'.lon = lon /\ host'.fix = f
  BY <1>1, <1>4, <1>5, <1>6, <1>7, <1>8 DEF HostType
<1>10. fresh' = fresh \cup {"place", "time", "fix"} /\ date' = date /\ hostVel' = hostVel
  BY DEF GgaToDidGps
<1>11. DateKnown'
  <2>1. "date" \in fresh' => "date" \in fresh
    BY <1>10
  <2> QED BY <1>10, <2>1, DateStays, Zenon DEF FixInv, device
<1>12. "week" \in fresh' => "week" \in fresh
  BY <1>10
<1>13. ~WeekBegins => ("week" \in fresh' => host'.week = gps.week)
  BY <1>9, <1>12, Zenon DEF FixInv, FixGivenBack, TimeArrives
<1>14. fresh' \subseteq {"place", "time", "week", "date", "fix"}
  BY <1>10 DEF FixInv, FixGivenBack, NTypeOK
<1>15. reader # "gnss"
  OBVIOUS
<1> QED BY <1>1, <1>5, <1>6, <1>7, <1>9, <1>10, <1>11, <1>13, <1>14, <1>15, PositionRead

LEMMA GllDidKeeps ==
    ASSUME FixAssumption, FixInv, reader = "did", GllToDidGps(Weekday), UNCHANGED <<device, reader>>
    PROVE  FixInv'
<1>1. gps \in Records /\ host \in HostType /\ host.leapS = gps.leapS /\ reader # "velocity"
  BY DEF FixInv, FixGivenBack, NTypeOK
<1>2. line.time = Time(gps) /\ line.at = Position(gps)
  BY <1>1, SentenceKnown DEF GllToDidGps, Gll
<1>3. line.at.lat = DegMin(gps.lat) /\ line.at.lon = DegMin(gps.lon)
  BY <1>2 DEF Position
<1> DEFINE lat == Minutes(DegMin(gps.lat))
           lon == Minutes(DegMin(gps.lon))
           tow == Weekday * Day + Time(gps) + 1000 * host.leapS
<1>4. host' = [host EXCEPT !.tow = tow, !.lat = lat, !.lon = lon]
  BY <1>2, <1>3, SMT DEF GllToDidGps
<1>5. lat \in Int /\ lon \in Int /\ Near(lat, gps.lat) /\ Near(lon, gps.lon)
  BY <1>1, GpsTime, PlaceRead
<1>6. tow \in Nat /\ (~WeekBegins => tow = gps.tow)
  BY DidTime, Zenon
<1> HIDE DEF lat, lon, tow
<1>7. /\ host' \in HostType /\ host'.leapS = host.leapS /\ host'.week = host.week
      /\ host'.tow = tow /\ host'.lat = lat /\ host'.lon = lon /\ host'.fix = host.fix
  BY <1>1, <1>4, <1>5, <1>6 DEF HostType
<1>8. fresh' = fresh \cup {"place", "time"} /\ date' = date /\ hostVel' = hostVel
  BY DEF GllToDidGps
<1>9. DateKnown'
  <2>1. "date" \in fresh' => "date" \in fresh
    BY <1>8
  <2> QED BY <1>8, <2>1, DateStays, Zenon DEF FixInv, device
<1>10. ("week" \in fresh' => "week" \in fresh) /\ ("fix" \in fresh' => "fix" \in fresh)
  BY <1>8
<1>11. /\ ~WeekBegins => ("week" \in fresh' => host'.week = gps.week)
       /\ "fix" \in fresh' => (host'.fix \in Fixed <=> gps.fix \in Fixed)
  BY <1>7, <1>10, Zenon DEF FixInv, FixGivenBack, TimeArrives, FixBelieved
<1>12. fresh' \subseteq {"place", "time", "week", "date", "fix"}
  BY <1>8 DEF FixInv, FixGivenBack, NTypeOK
<1>13. reader # "gnss"
  OBVIOUS
<1> QED BY <1>1, <1>5, <1>6, <1>7, <1>8, <1>9, <1>11, <1>12, <1>13, PositionRead

LEMMA GsaDidKeeps ==
    ASSUME FixAssumption, FixInv, reader = "did", GsaToDidGps, UNCHANGED <<device, reader>>
    PROVE  FixInv'
<1>1. gps \in Records /\ host \in HostType /\ host.leapS = gps.leapS /\ reader # "velocity"
  BY DEF FixInv, FixGivenBack, NTypeOK
<1>2. line.mode = GsaMode(gps.fix)
  BY <1>1, SentenceKnown DEF GsaToDidGps, Gsa
<1> DEFINE f == IF line.mode = 2 THEN "2D" ELSE IF line.mode = 3 THEN "3D" ELSE "none"
<1>3. f \in FixNames /\ (f \in Fixed <=> line.mode \in {2, 3})
  BY DEF FixNames, Fixed
<1>4. f \in Fixed <=> gps.fix \in Fixed
  BY <1>2, <1>3, FixRead
<1>5. host' = [host EXCEPT !.fix = f]
  BY DEF GsaToDidGps
<1> HIDE DEF f
<1>6. /\ host' \in HostType /\ host'.leapS = host.leapS /\ host'.week = host.week
      /\ host'.tow = host.tow /\ host'.lat = host.lat /\ host'.lon = host.lon /\ host'.fix = f
  BY <1>1, <1>3, <1>5 DEF HostType
<1>7. fresh' = fresh \cup {"fix"} /\ date' = date /\ hostVel' = hostVel
  BY DEF GsaToDidGps
<1>8. DateKnown'
  <2>1. "date" \in fresh' => "date" \in fresh
    BY <1>7
  <2> QED BY <1>7, <2>1, DateStays, Zenon DEF FixInv, device
<1>9. /\ "place" \in fresh' => "place" \in fresh
      /\ "time" \in fresh' => "time" \in fresh
      /\ "week" \in fresh' => "week" \in fresh
  BY <1>7
<1>10. /\ "place" \in fresh' => Near(host'.lat, gps.lat) /\ Near(host'.lon, gps.lon)
       /\ ~WeekBegins => /\ "time" \in fresh' => host'.tow = gps.tow
                         /\ "week" \in fresh' => host'.week = gps.week
  BY <1>6, <1>9, Zenon DEF FixInv, FixGivenBack, PlaceArrives, TimeArrives
<1>11. fresh' \subseteq {"place", "time", "week", "date", "fix"}
  BY <1>7 DEF FixInv, FixGivenBack, NTypeOK
<1>12. reader # "gnss"
  OBVIOUS
<1> QED BY <1>1, <1>4, <1>6, <1>7, <1>8, <1>10, <1>11, <1>12, PositionRead

LEMMA ZdaDidKeeps ==
    ASSUME FixAssumption, FixInv, reader = "did", ZdaToDidGps(gps.leapS), UNCHANGED <<device, reader>>
    PROVE  FixInv'
<1>1. gps \in Records /\ host \in HostType /\ host.leapS = gps.leapS /\ reader # "velocity"
  BY DEF FixInv, FixGivenBack, NTypeOK
<1>2. line.time = Time(gps) /\ line.date = DateOf(gps)
  BY <1>1, SentenceKnown DEF ZdaToDidGps, Zda
<1> DEFINE t == Gpst(DateOf(gps), Time(gps))
           tow == t.tow + 1000 * gps.leapS
<1>3. host' = [host EXCEPT !.week = t.week, !.tow = tow, !.leapS = gps.leapS]
  BY <1>2, SMT DEF ZdaToDidGps
<1>4. /\ gps.leapS \in Nat /\ Time(gps) \in Nat /\ Time(gps) < Day /\ DaysIn(gps) \in Nat
      /\ EpochDays(DateOf(gps)) = DaysIn(gps) + 3657
      /\ gps.week \in Nat /\ gps.tow \in Nat /\ gps.tow < 7 * Day /\ Weekday \in 0..6
  BY <1>1, GpsTime, DatePrinted
<1>5. t.week \in Nat /\ t.tow \in Nat
  <2> DEFINE n == DaysIn(gps)
             time == Time(gps)
             d == DateOf(gps)
  <2>1. n \in Int /\ n >= 0 /\ time \in Int /\ time >= 0 /\ Dated(d, n)
    BY <1>4 DEF Dated
  <2> HIDE DEF n, time, d
  <2>2. Gpst(d, time).week \in Nat /\ Gpst(d, time).tow \in Nat
    BY <2>1, TimeOnDate
  <2> QED BY <2>2 DEF n, time, d
<1>6. ASSUME ~WeekBegins PROVE t.week = gps.week /\ tow = gps.tow
  <2> DEFINE n == DaysIn(gps)
             time == Time(gps)
             d == DateOf(gps)
             s == gps.tow - 1000 * gps.leapS
  <2>1. DaysIn(gps) = (7 * gps.week) + Weekday
        /\ gps.tow = ((Day * Weekday) + Time(gps)) + (1000 * gps.leapS)
    BY <1>1, <1>6, GpsTime
  <2>2. Day \in Nat
    BY SMT DEF Day
  <2>3. Day * Weekday \in Nat
    BY <1>4, <2>2
  <2>4. s = (Day * Weekday) + time /\ s \in Int /\ s < 7 * Day /\ tow = t.tow + (gps.tow - s)
    BY <1>4, <2>1, <2>2, <2>3
  <2>5. n \in Int /\ n >= 0 /\ time \in Int /\ time >= 0 /\ Dated(d, n)
    BY <1>4 DEF Dated
  <2> HIDE DEF n, time, d, s, tow
  <2>6. Gpst(d, time).week = gps.week /\ Gpst(d, time).tow = s
    <3>1. gps.week \in Int /\ gps.week >= 0 /\ Weekday \in Int /\ Weekday >= 0 /\ Weekday <= 6
          /\ n = (7 * gps.week) + Weekday
      BY <1>4, <2>1 DEF n
    <3>2. OnDay(d, gps.week, Weekday, s, n, time)
      BY <2>4, <2>5, <3>1, SMT DEF OnDay
    <3> DEFINE w == gps.week
               q == Weekday
    <3>3. w \in Int /\ q \in Int /\ s \in Int /\ OnDay(d, w, q, s, n, time)
      BY <2>4, <3>1, <3>2
    <3> HIDE DEF w, q
    <3>4. Gpst(d, time).week = w /\ Gpst(d, time).tow = s
      BY <2>5, <3>3, TimeOnDay
    <3> QED BY <3>4 DEF w
  <2>7. t.week = gps.week /\ t.tow = s
    BY <2>6 DEF time, d
  <2>8. s \in Int /\ gps.tow \in Int
    BY <1>4, <2>4
  <2> QED BY <2>4, <2>7, <2>8
<1>7. tow \in Nat
  BY <1>4, <1>5
<1> DEFINE week == t.week
<1> HIDE DEF week, tow
<1>8. /\ host' \in HostType /\ host'.leapS = gps.leapS /\ host'.week = week
      /\ host'.tow = tow /\ host'.lat = host.lat /\ host'.lon = host.lon /\ host'.fix = host.fix
  <2>1. week \in Nat /\ host' = [host EXCEPT !.week = week, !.tow = tow, !.leapS = gps.leapS]
    BY <1>3, <1>5 DEF week
  <2>2. gps.leapS \in Nat /\ tow \in Nat /\ host \in HostType
    BY <1>1, <1>4, <1>7
  <2> HIDE DEF t
  <2> QED BY <2>1, <2>2 DEF HostType
<1>9. fresh' = fresh \cup {"time", "week"} /\ date' = date /\ hostVel' = hostVel
  BY DEF ZdaToDidGps
<1>10. DateKnown'
  <2>1. "date" \in fresh' => "date" \in fresh
    BY <1>9
  <2> QED BY <1>9, <2>1, DateStays, Zenon DEF FixInv, device
<1>11. /\ "place" \in fresh' => "place" \in fresh
       /\ "fix" \in fresh' => "fix" \in fresh
  BY <1>9
<1>12. /\ "place" \in fresh' => Near(host'.lat, gps.lat) /\ Near(host'.lon, gps.lon)
       /\ "fix" \in fresh' => (host'.fix \in Fixed <=> gps.fix \in Fixed)
  BY <1>8, <1>11, Zenon DEF FixInv, FixGivenBack, PlaceArrives, FixBelieved
<1>13. fresh' \subseteq {"place", "time", "week", "date", "fix"}
  BY <1>9 DEF FixInv, FixGivenBack, NTypeOK
<1>14. reader # "gnss"
  OBVIOUS
<1>15. ~WeekBegins => week = gps.week /\ tow = gps.tow
  BY <1>6 DEF week
<1> QED BY <1>1, <1>15, <1>8, <1>9, <1>10, <1>12, <1>13, <1>14, PositionRead

LEMMA ParseZdaKeeps ==
    ASSUME FixAssumption, FixInv, reader = "gnss", ParseZda, UNCHANGED <<device, reader>>
    PROVE  FixInv'
<1>1. gps \in Records /\ host \in HostType /\ host.leapS = gps.leapS /\ reader # "velocity"
  BY DEF FixInv, FixGivenBack, NTypeOK
<1>2. date' = DateOf(gps) /\ host' = host /\ hostVel' = hostVel /\ fresh' = fresh \cup {"date"}
  BY <1>1, SentenceKnown DEF ParseZda, Zda
<1>3. DateKnown'
  <2>1. EpochDays(date') = DaysIn(gps) + 3657 /\ DaysIn(gps) \in Nat /\ gps' = gps
    BY <1>1, <1>2, DatePrinted DEF device
  <2>2. DaysIn(gps') = DaysIn(gps)
    BY <2>1
  <2>3. "date" \in fresh'
    BY <1>2
  <2> QED BY <2>1, <2>2, <2>3 DEF DateKnown
<1>4. /\ "place" \in fresh' => "place" \in fresh
      /\ "time" \in fresh' => "time" \in fresh
      /\ "week" \in fresh' => "week" \in fresh
      /\ "fix" \in fresh' => "fix" \in fresh
  BY <1>2
<1>5. /\ "place" \in fresh' => Near(host'.lat, gps.lat) /\ Near(host'.lon, gps.lon)
      /\ ~WeekBegins => /\ "time" \in fresh' => host'.tow = gps.tow
                        /\ "week" \in fresh' => host'.week = gps.week
      /\ "fix" \in fresh' => /\ host'.fix \in Fixed <=> gps.fix \in Fixed
                             /\ reader = "gnss" => ("ok" \in host'.flags <=> gps.fix \in Fixed)
                                                   /\ host'.bits = gps.bits
  BY <1>2, <1>4, Zenon DEF FixInv, FixGivenBack, PlaceArrives, TimeArrives, FixBelieved
<1>6. fresh' \subseteq {"place", "time", "week", "date", "fix"}
  BY <1>2 DEF FixInv, FixGivenBack, NTypeOK
<1> QED BY <1>1, <1>2, <1>3, <1>5, <1>6, PositionRead

LEMMA ParseGgaKeeps ==
    ASSUME FixAssumption, FixInv, reader = "gnss", ParseGga, UNCHANGED <<device, reader>>
    PROVE  FixInv'
<1>1. gps \in Records /\ host \in HostType /\ host.leapS = gps.leapS /\ reader # "velocity"
  BY DEF FixInv, FixGivenBack, NTypeOK
<1>2. line.time = Time(gps) /\ line.at = Position(gps) /\ line.quality = Quality(gps.fix) /\ line.sats = gps.bits
  BY <1>1, SentenceKnown DEF ParseGga, Gga
<1>3. line.at.lat = DegMin(gps.lat) /\ line.at.lon = DegMin(gps.lon)
  BY <1>2 DEF Position
<1> DEFINE lat == Minutes(DegMin(gps.lat))
           lon == Minutes(DegMin(gps.lon))
           time == Time(gps) + 1000 * host.leapS
           week == Gpst(date, time).week
           tow == Gpst(date, time).tow
           f == GgaFix(Quality(gps.fix))
           g == Flags(Quality(gps.fix)) \cup (IF Quality(gps.fix) = 4 THEN {"valid", "hold"} ELSE {})
<1>4. host' = [host EXCEPT !.week = week, !.tow = tow, !.lat = lat, !.lon = lon, !.fix = f,
                           !.flags = g, !.bits = gps.bits]
  BY <1>2, <1>3, SMT DEF ParseGga
<1>5. lat \in Int /\ lon \in Int /\ Near(lat, gps.lat) /\ Near(lon, gps.lon) /\ gps.bits \in SUBSET Nat
  BY <1>1, GpsTime, PlaceRead
<1>6. f \in FixNames /\ (f \in Fixed <=> gps.fix \in Fixed) /\ g \in SUBSET FlagNames
      /\ ("ok" \in g <=> gps.fix \in Fixed)
  BY <1>1, FixRead DEF FlagNames
<1>7. /\ gps.leapS \in Nat /\ Time(gps) \in Nat /\ DaysIn(gps) \in Nat
      /\ gps.week \in Nat /\ gps.tow \in Nat /\ gps.tow < 7 * Day /\ Weekday \in 0..6
  BY <1>1, GpsTime
<1>8. time \in Int /\ time >= 0
  BY <1>1, <1>7
<1> DEFINE d == date
<1>9. week \in Nat /\ tow \in Nat
  <2>1. PICK n \in Nat : EpochDays(d) = n + 3657
    BY DEF FixInv, DateKnown
  <2>2. n \in Int /\ Dated(d, n)
    BY <2>1 DEF Dated
  <2> HIDE DEF time, d
  <2>3. Gpst(d, time).week \in Nat /\ Gpst(d, time).tow \in Nat
    BY <1>8, <2>2, TimeOnDate
  <2> QED BY <2>3 DEF d
<1>10. ASSUME ~WeekBegins, "date" \in fresh PROVE week = gps.week /\ tow = gps.tow
  <2> DEFINE w == gps.week
             q == Weekday
             v == gps.tow
             n == DaysIn(gps)
  <2>1. w \in Int /\ q \in Int /\ v \in Int /\ n \in Int
    BY <1>7
  <2>2. Dated(d, n) /\ w >= 0 /\ q >= 0 /\ q <= 6 /\ v < 7 * Day
    BY <1>7, <1>10 DEF FixInv, DateKnown, Dated
  <2>3. n = (7 * w) + q
    BY <1>1, <1>10, GpsTime
  <2>4. v = (Day * q) + time
    <3>1. v = ((Day * q) + Time(gps)) + (1000 * gps.leapS)
      BY <1>1, <1>10, GpsTime
    <3>2. Day \in Nat
      BY SMT DEF Day
    <3> DEFINE a == Day * q
    <3>3. a \in Int
      BY <2>1, <3>2
    <3> HIDE DEF a
    <3>4. v = (a + Time(gps)) + (1000 * gps.leapS)
      BY <3>1 DEF a
    <3>5. v = a + time
      BY <1>1, <1>7, <3>3, <3>4
    <3> QED BY <3>5 DEF a
  <2> HIDE DEF w, q, v, n, time, d
  <2>5. OnDay(d, w, q, v, n, time)
    BY <1>8, <2>2, <2>3, <2>4, SMT DEF OnDay
  <2>6. Gpst(d, time).week = w /\ Gpst(d, time).tow = v
    BY <1>8, <2>1, <2>5, TimeOnDay
  <2> QED BY <2>6 DEF w, v, d
<1> HIDE DEF lat, lon, week, tow, f, g
<1>11. /\ host' \in HostType /\ host'.leapS = host.leapS /\ host'.week = week
       /\ host'.tow = tow /\ host'.lat = lat /\ host'.lon = lon /\ host'.fix = f
       /\ host'.flags = g /\ host'.bits = gps.bits
  <2> HIDE DEF time
  <2> QED BY <1>1, <1>4, <1>5, <1>6, <1>9 DEF HostType
<1>12. /\ fresh' = fresh \cup {"place", "fix"} \cup (IF "date" \in fresh THEN {"time", "week"} ELSE {})
       /\ date' = date /\ hostVel' = hostVel
  BY DEF ParseGga
<1>13. /\ "date" \in fresh' => "date" \in fresh
       /\ "time" \in fresh' \/ "week" \in fresh' => "date" \in fresh
       /\ "date" \in fresh => "date" \in fresh'
  BY <1>1, <1>12 DEF FixInv, DateKnown
<1>14. DateKnown'
  <2>1. gps' = gps /\ date' = date /\ reader' = reader
    BY <1>12 DEF device
  <2>2. EpochDays(date') = EpochDays(date) /\ DaysIn(gps') = DaysIn(gps)
    BY <2>1
  <2>3. \E n \in Nat : EpochDays(date') = n + 3657
    BY <2>2 DEF FixInv, DateKnown
  <2>4. "date" \in fresh' => EpochDays(date') = DaysIn(gps') + 3657
    BY <1>13, <2>2 DEF FixInv, DateKnown
  <2> QED BY <1>13, <2>3, <2>4 DEF DateKnown
<1>15. ~WeekBegins => /\ "time" \in fresh' => host'.tow = gps.tow
                      /\ "week" \in fresh' => host'.week = gps.week
  BY <1>10, <1>11, <1>13
<1>16. fresh' \subseteq {"place", "time", "week", "date", "fix"}
  BY <1>12 DEF FixInv, FixGivenBack, NTypeOK
<1> QED BY <1>1, <1>5, <1>6, <1>11, <1>12, <1>14, <1>15, <1>16, PositionRead

\* A reading of velocities leaves everything else alone.
LEMMA VelocityRead ==
    ASSUME FixAssumption, FixInv, UNCHANGED <<device, reader, date, host, fresh>>,
           hostVel'.nmea \in BOOLEAN, hostVel'.nmea <=> (hostVel'.frame = "ned"),
           DOMAIN hostVel' = {"tow", "frame", "v", "nmea"}
    PROVE  FixInv'
<1>1. /\ gps' = gps /\ gpsVel' = gpsVel /\ fixes' = fixes /\ speed' = speed /\ line' = line
      /\ had' = had /\ told' = told /\ reader' = reader /\ date' = date /\ host' = host /\ fresh' = fresh
  BY DEF device
<1>2. NTypeOK' /\ PlaceArrives' /\ TimeArrives' /\ FixBelieved' /\ OneVelocity'
  <2>1. NTypeOK' /\ PlaceArrives' /\ OneVelocity'
    BY <1>1, Zenon DEF FixInv, FixGivenBack, NTypeOK, PlaceArrives, OneVelocity
  <2>2. TimeArrives'
    <3>1. WeekBegins' <=> WeekBegins
      BY <1>1, SMT DEF WeekBegins
    <3> QED BY <1>1, <3>1, Zenon DEF FixInv, FixGivenBack, TimeArrives
  <2>3. FixBelieved'
    BY <1>1, Zenon DEF FixInv, FixGivenBack, FixBelieved
  <2> QED BY <2>1, <2>2, <2>3
<1>3. FrameKnown'
  BY Zenon DEF FrameKnown
<1>4. LineKnown' /\ ToldKept'
  BY <1>1, Zenon DEF FixInv, LineKnown, ToldKept, Gga, Gll, Gsa, Zda, Position, Time, DateOf
<1>5. DateKnown'
  <2>1. EpochDays(date') = EpochDays(date) /\ DaysIn(gps') = DaysIn(gps)
    BY <1>1
  <2>2. \E n \in Nat : EpochDays(date') = n + 3657
    BY <2>1 DEF FixInv, DateKnown
  <2>3. "date" \in fresh' => EpochDays(date') = DaysIn(gps') + 3657
    BY <1>1, <2>1 DEF FixInv, DateKnown
  <2>4. reader' = "gnss" /\ ("time" \in fresh' \/ "week" \in fresh') => "date" \in fresh'
    BY <1>1 DEF FixInv, DateKnown
  <2> QED BY <2>2, <2>3, <2>4 DEF DateKnown
<1> QED BY <1>1, <1>2, <1>3, <1>4, <1>5, Zenon DEF FixInv, FixGivenBack

LEMMA VelocitiesKeep ==
    ASSUME FixAssumption, FixInv, ParseRmc \/ VtgToDidGps, UNCHANGED <<device, reader>>
    PROVE  FixInv'
<1>1. CASE ParseRmc
  <2>1. /\ hostVel' = [tow |-> Gpst(date, line.time).tow, frame |-> "ned", v |-> line.v, nmea |-> TRUE]
        /\ UNCHANGED <<date, host, fresh>>
    BY <1>1 DEF ParseRmc
  <2>2. hostVel'.nmea = TRUE /\ hostVel'.frame = "ned" /\ DOMAIN hostVel' = {"tow", "frame", "v", "nmea"}
    BY <2>1
  <2> QED BY <2>1, <2>2, VelocityRead
<1>2. CASE VtgToDidGps
  <2> DEFINE new == IF hostVel.nmea THEN "ned" ELSE "ecef"
  <2>1. hostVel' = [hostVel EXCEPT !.v = line.v, !.frame = new] /\ UNCHANGED <<date, host, fresh>>
    BY <1>2, Zenon DEF VtgToDidGps
  <2>2. hostVel.nmea \in BOOLEAN /\ DOMAIN hostVel = {"tow", "frame", "v", "nmea"}
    BY DEF FixInv
  <2>3. hostVel.nmea <=> (new = "ned")
    BY <2>2
  <2> HIDE DEF new
  <2>4. DOMAIN hostVel' = {"tow", "frame", "v", "nmea"} /\ hostVel'.frame = new /\ hostVel'.nmea = hostVel.nmea
    BY <2>1, <2>2
  <2> QED BY <2>1, <2>2, <2>3, <2>4, VelocityRead, Zenon
<1> QED BY <1>1, <1>2

LEMMA NextFixKeeps == ASSUME FixAssumption, FixInv, NextFix PROVE FixInv'
<1>1. /\ fixes < MaxFixes /\ fixes' = fixes + 1 /\ gps' \in Records /\ gps'.tow # speed.tow
      /\ line' = NoLine /\ had' = {gpsVel.v} /\ told' = {} /\ fresh' = {}
      /\ gpsVel' = gpsVel /\ speed' = speed /\ reader' = reader /\ date' = date /\ host' = host
      /\ hostVel' = hostVel
  BY DEF NextFix
<1>2. gps \in Records /\ fixes \in 1..MaxFixes /\ MaxFixes \in Nat /\ host.leapS = gps.leapS
  BY DEF FixInv, FixGivenBack, NTypeOK, FixAssumption
<1>3. host'.leapS = gps'.leapS
  BY <1>1, <1>2 DEF FixAssumption
<1>4. NTypeOK'
  <2>1. fixes' \in 1..MaxFixes
    BY <1>1, <1>2
  <2> QED BY <1>1, <2>1 DEF FixInv, FixGivenBack, NTypeOK
<1>5. PlaceArrives' /\ TimeArrives' /\ FixBelieved' /\ OneVelocity' /\ LineKnown'
  BY <1>1 DEF PlaceArrives, TimeArrives, FixBelieved, OneVelocity, LineKnown
<1>6. FrameKnown' /\ ToldKept'
  BY <1>1, Zenon DEF FixInv, FixGivenBack, FrameKnown, ToldKept
<1>7. DateKnown'
  <2>1. EpochDays(date') = EpochDays(date)
    BY <1>1
  <2>2. \E n \in Nat : EpochDays(date') = n + 3657
    BY <2>1 DEF FixInv, DateKnown
  <2> QED BY <1>1, <2>2 DEF DateKnown
<1>8. /\ reader' \in Readers /\ fresh' = {} /\ host' \in HostType
      /\ DOMAIN hostVel' = {"tow", "frame", "v", "nmea"} /\ hostVel'.nmea \in BOOLEAN
  BY <1>1, Zenon DEF FixInv
<1> QED BY <1>3, <1>4, <1>5, <1>6, <1>7, <1>8, Zenon DEF FixInv, FixGivenBack

\* A step of the device with its fix leaves what the host has alone.
LEMMA DeviceStep ==
    ASSUME FixAssumption, FixInv, UNCHANGED <<gps, fixes, reader, date, host, hostVel, fresh>>,
           LineKnown', ToldKept', OneVelocity'
    PROVE  FixInv'
<1>1. /\ gps' = gps /\ fixes' = fixes /\ reader' = reader /\ date' = date /\ host' = host
      /\ hostVel' = hostVel /\ fresh' = fresh
  OBVIOUS
<1>2. NTypeOK' /\ PlaceArrives' /\ TimeArrives' /\ FixBelieved' /\ FrameKnown'
  <2>1. NTypeOK' /\ PlaceArrives' /\ FrameKnown'
    BY <1>1, Zenon DEF FixInv, FixGivenBack, NTypeOK, PlaceArrives, FrameKnown
  <2>2. TimeArrives'
    <3>1. WeekBegins' <=> WeekBegins
      BY <1>1, SMT DEF WeekBegins
    <3> QED BY <1>1, <3>1, Zenon DEF FixInv, FixGivenBack, TimeArrives
  <2>3. FixBelieved'
    BY <1>1, Zenon DEF FixInv, FixGivenBack, FixBelieved
  <2> QED BY <2>1, <2>2, <2>3
<1>3. DateKnown'
  <2>1. EpochDays(date') = EpochDays(date) /\ DaysIn(gps') = DaysIn(gps)
    BY <1>1
  <2>2. \E n \in Nat : EpochDays(date') = n + 3657
    BY <2>1 DEF FixInv, DateKnown
  <2>3. "date" \in fresh' => EpochDays(date') = DaysIn(gps') + 3657
    BY <1>1, <2>1 DEF FixInv, DateKnown
  <2>4. reader' = "gnss" /\ ("time" \in fresh' \/ "week" \in fresh') => "date" \in fresh'
    BY <1>1 DEF FixInv, DateKnown
  <2> QED BY <2>2, <2>3, <2>4 DEF DateKnown
<1>4. /\ reader' \in Readers /\ (reader' = "velocity" => fresh' = {}) /\ host' \in HostType
      /\ host'.leapS = gps'.leapS
      /\ DOMAIN hostVel' = {"tow", "frame", "v", "nmea"} /\ hostVel'.nmea \in BOOLEAN
  BY <1>1, Zenon DEF FixInv
<1> QED BY <1>2, <1>3, <1>4, Zenon DEF FixInv, FixGivenBack

LEMMA NextVelocityKeeps == ASSUME FixAssumption, FixInv, NextVelocity PROVE FixInv'
<1>1. /\ had' = had \cup {gpsVel'.v} /\ line' = line /\ told' = told /\ speed' = speed /\ gps' = gps
      /\ reader' = reader /\ UNCHANGED <<gps, fixes, reader, date, host, hostVel, fresh>>
  BY DEF NextVelocity
<1>2. LineKnown'
  BY <1>1, Zenon DEF FixInv, LineKnown, Gga, Gll, Gsa, Zda, Position, Time, DateOf
<1>3. ToldKept' /\ OneVelocity'
  BY <1>1 DEF FixInv, FixGivenBack, ToldKept, OneVelocity
<1> QED BY <1>1, <1>2, <1>3, DeviceStep

LEMMA PrintPositionKeeps == ASSUME FixAssumption, FixInv, PrintPosition PROVE FixInv'
<1>1. /\ reader # "velocity" /\ line' \in {Gga(gps), Gll(gps), Gsa(gps), Zda(gps)}
      /\ had' = had /\ told' = told /\ speed' = speed /\ gps' = gps /\ gpsVel' = gpsVel
      /\ reader' = reader /\ UNCHANGED <<gps, fixes, reader, date, host, hostVel, fresh>>
  BY DEF PrintPosition
<1>2. LineKnown'
  <2>1. Gga(gps) = Gga(gps') /\ Gll(gps) = Gll(gps') /\ Gsa(gps) = Gsa(gps') /\ Zda(gps) = Zda(gps')
    BY <1>1
  <2>2. reader' # "velocity" /\ line' \in {Gga(gps'), Gll(gps'), Gsa(gps'), Zda(gps')}
    BY <1>1, <2>1, Zenon
  <2> QED BY <2>2 DEF LineKnown
<1>3. ToldKept' /\ OneVelocity'
  BY <1>1, Zenon DEF FixInv, FixGivenBack, ToldKept, OneVelocity
<1> QED BY <1>1, <1>2, <1>3, DeviceStep

LEMMA PrintVelocityKeeps == ASSUME FixAssumption, FixInv, PrintVelocity PROVE FixInv'
<1>1. /\ reader = "velocity" /\ UpdateSpeed /\ line' \in {Rmc(gps, speed'.v), Vtg(gps, speed'.v)}
      /\ told' = told \cup {line'.v} /\ had' = had /\ gps' = gps /\ gpsVel' = gpsVel
      /\ reader' = reader /\ UNCHANGED <<gps, fixes, reader, date, host, hostVel, fresh>>
  BY DEF PrintVelocity
<1>2. line'.type \in {"RMC", "VTG"} /\ line'.v = speed'.v
  BY <1>1 DEF Rmc, Vtg
<1>3. LineKnown'
  BY <1>1, <1>2 DEF LineKnown
<1>4. speed'.tow = gps.tow /\ speed'.v \in had /\ told \subseteq {speed'.v}
  <2>1. CASE speed.tow # gps.tow
    BY <1>1, <2>1 DEF UpdateSpeed, FixInv, ToldKept
  <2>2. CASE speed.tow = gps.tow
    BY <1>1, <2>2 DEF UpdateSpeed, FixInv, ToldKept
  <2> QED BY <2>1, <2>2
<1>5. told' = {speed'.v}
  BY <1>1, <1>2, <1>4
<1>6. ToldKept' /\ OneVelocity'
  BY <1>1, <1>4, <1>5 DEF FixInv, ToldKept, OneVelocity
<1> QED BY <1>1, <1>3, <1>6, DeviceStep

LEMMA FixKeeps == ASSUME FixAssumption, FixInv, [NNext]_nvars PROVE FixInv'
<1>1. CASE NextFix
  BY <1>1, NextFixKeeps
<1>2. CASE NextVelocity
  BY <1>2, NextVelocityKeeps
<1>3. CASE PrintPosition
  BY <1>3, PrintPositionKeeps
<1>4. CASE PrintVelocity
  BY <1>4, PrintVelocityKeeps
<1>5. CASE Read
  <2>1. CASE reader = "did" /\ ReadDid
    BY <1>5, <2>1, GgaDidKeeps, GllDidKeeps, GsaDidKeeps, ZdaDidKeeps DEF Read, ReadDid
  <2>2. CASE reader = "gnss" /\ ReadGnss
    BY <1>5, <2>2, ParseZdaKeeps, ParseGgaKeeps DEF Read, ReadGnss
  <2>3. CASE reader = "velocity" /\ (ParseRmc \/ VtgToDidGps)
    BY <1>5, <2>3, VelocitiesKeep DEF Read
  <2> QED BY <1>5, <2>1, <2>2, <2>3 DEF Read
<1>6. CASE UNCHANGED nvars
  <2>1. UNCHANGED <<gps, fixes, reader, date, host, hostVel, fresh>> /\ UNCHANGED device
    BY <1>6 DEF nvars, device
  <2>2. LineKnown'
    BY <2>1, Zenon DEF FixInv, LineKnown, device, Gga, Gll, Gsa, Zda, Position, Time, DateOf
  <2>3. ToldKept' /\ OneVelocity'
    BY <2>1, Zenon DEF FixInv, FixGivenBack, ToldKept, OneVelocity, device
  <2> QED BY <2>1, <2>2, <2>3, DeviceStep
<1> QED BY <1>1, <1>2, <1>3, <1>4, <1>5, <1>6 DEF NNext

\* A host that reads the sentences of any fixes between the first week of GPS
\* time and the end of 2099 has their places, times, dates and qualities, and
\* velocities in the frame it takes them for.
THEOREM FixesComeBack == ASSUME FixAssumption PROVE NSpec => []FixGivenBack
<1>1. NInit => FixInv
  BY FixInits
<1>2. FixInv /\ [NNext]_nvars => FixInv'
  BY FixKeeps
<1>3. FixInv => FixGivenBack
  BY DEF FixInv
<1> QED BY <1>1, <1>2, <1>3, PTL DEF NSpec

----------------------------------------------------------------------------
(***************************************************************************)
(* Flash configurations.  That client and device come to agree is a matter *)
(* of fairness; that an agreement lasts is one of what is on the wires:    *)
(* with nothing else on its way than what the device has, no loss and no   *)
(* delay brings an older configuration back.                               *)
(***************************************************************************)
FlashTypes ==
    /\ Flash!FTypeOK
    /\ sentDown \subseteq [to : FlashDevices, ask : BOOLEAN, cfg : Flash!Copies]
    /\ \A m \in sentDown : ~m.ask => m.cfg \in Flash!Config
    /\ sentUp \subseteq [from : FlashDevices, did : {"FLASH_CONFIG", "SYS_PARAMS"}, cfg : Flash!Config]

\* No upload is to come, and an older configuration is nowhere.
Settled ==
    /\ uploads = MaxUploads /\ Flash!Agreed
    /\ \A m \in sentDown : ~m.ask => m.cfg = flash[m.to]
    /\ \A m \in sentUp : m.cfg = flash[m.from]

FlashAssumption == 0 \in FlashDevices /\ MaxUploads \in Nat

LEMMA FlashInits == ASSUME FlashAssumption, Flash!FInit PROVE FlashTypes
<1>1. Flash!Plain \subseteq Flash!Config
  BY DEF Flash!Plain
<1>2. Flash!FTypeOK
  BY <1>1 DEF FlashAssumption, Flash!FInit, Flash!FTypeOK, Flash!Copies
<1> QED BY <1>2 DEF Flash!FInit, FlashTypes

\* What is put on a wire is of its type.
LEMMA GetTyped ==
    ASSUME NEW d \in FlashDevices
    PROVE  Flash!Get(d) \in [to : FlashDevices, ask : BOOLEAN, cfg : Flash!Copies] /\ Flash!Get(d).ask
<1>1. Flash!Unknown \in Flash!Copies
  BY DEF Flash!Copies
<1>2. TRUE \in BOOLEAN
  OBVIOUS
<1>3. Flash!Get(d) \in [to : FlashDevices, ask : BOOLEAN, cfg : Flash!Copies]
  BY <1>1, <1>2 DEF Flash!Get
<1>4. Flash!Get(d).ask = TRUE
  BY DEF Flash!Get
<1> QED BY <1>3, <1>4

LEMMA PacketsTyped ==
    ASSUME NEW d \in FlashDevices, NEW c \in Flash!Config
    PROVE  /\ Flash!Set(d, c) \in [to : FlashDevices, ask : BOOLEAN, cfg : Flash!Copies]
           /\ ~Flash!Set(d, c).ask /\ Flash!Set(d, c).cfg = c
           /\ Flash!IsFlash(d, c) \in [from : FlashDevices, did : {"FLASH_CONFIG", "SYS_PARAMS"}, cfg : Flash!Config]
           /\ Flash!IsSys(d, c) \in [from : FlashDevices, did : {"FLASH_CONFIG", "SYS_PARAMS"}, cfg : Flash!Config]
           /\ Flash!IsFlash(d, c).from = d /\ Flash!IsFlash(d, c).cfg = c
           /\ Flash!IsSys(d, c).from = d /\ Flash!IsSys(d, c).cfg = c
<1>1. c \in Flash!Copies
  BY DEF Flash!Copies
<1>2. FALSE \in BOOLEAN
  OBVIOUS
<1>3. Flash!Set(d, c) \in [to : FlashDevices, ask : BOOLEAN, cfg : Flash!Copies]
  BY <1>1, <1>2 DEF Flash!Set
<1>4. Flash!Set(d, c).ask = FALSE /\ Flash!Set(d, c).cfg = c
  BY DEF Flash!Set
<1>5. /\ Flash!IsFlash(d, c) \in [from : FlashDevices, did : {"FLASH_CONFIG", "SYS_PARAMS"}, cfg : Flash!Config]
      /\ Flash!IsSys(d, c) \in [from : FlashDevices, did : {"FLASH_CONFIG", "SYS_PARAMS"}, cfg : Flash!Config]
  BY DEF Flash!IsFlash, Flash!IsSys
<1>6. /\ Flash!IsFlash(d, c).from = d /\ Flash!IsFlash(d, c).cfg = c
      /\ Flash!IsSys(d, c).from = d /\ Flash!IsSys(d, c).cfg = c
  BY DEF Flash!IsFlash, Flash!IsSys
<1> QED BY <1>3, <1>4, <1>5, <1>6

LEMMA UploadTyped ==
    ASSUME FlashTypes, NEW d \in FlashDevices, NEW c \in Flash!Config, Flash!Upload(d, c),
           MaxUploads \in Nat
    PROVE  FlashTypes'
<1>1. Flash!FTypeOK'
  BY DEF FlashTypes, Flash!FTypeOK, Flash!Upload, Flash!Copies
<1>2. sentDown' \subseteq sentDown \cup {Flash!Set(d, c)} /\ sentUp' = sentUp
  BY DEF Flash!Upload, Flash!Send
<1> QED BY <1>1, <1>2, PacketsTyped DEF FlashTypes

LEMMA FlashTypesKept == ASSUME FlashAssumption, FlashTypes, [Flash!FNext]_(Flash!fvars) PROVE FlashTypes'
<1>0. \A d \in FlashDevices : flash[d] \in Flash!Config
  BY DEF FlashTypes, Flash!FTypeOK
<1>1. CASE \E d \in FlashDevices, c \in Flash!Plain : Flash!Upload(d, c)
  BY <1>1, UploadTyped DEF FlashAssumption, Flash!Plain
<1>2. CASE \E waiting \in SUBSET FlashDevices : Flash!SyncFlashConfig(waiting)
  <2>1. PICK waiting \in SUBSET FlashDevices : Flash!SyncFlashConfig(waiting)
    BY <1>2
  <2>2. sentDown' \subseteq sentDown \cup {Flash!Get(d) : d \in FlashDevices}
    BY <2>1 DEF Flash!SyncFlashConfig
  <2>3. Flash!FTypeOK'
    BY <2>1 DEF FlashTypes, Flash!FTypeOK, Flash!SyncFlashConfig
  <2>4. \A d \in FlashDevices : /\ Flash!Get(d) \in [to : FlashDevices, ask : BOOLEAN, cfg : Flash!Copies]
                                /\ Flash!Get(d).ask
    BY GetTyped
  <2>5. sentUp' = sentUp
    BY <2>1 DEF Flash!SyncFlashConfig
  <2> QED BY <2>2, <2>3, <2>4, <2>5 DEF FlashTypes
<1>3. CASE \E m \in sentUp : Flash!ProcessRxData(m)
  <2>1. PICK m \in sentUp : Flash!ProcessRxData(m)
    BY <1>3
  <2>2. m.from \in FlashDevices /\ m.cfg \in Flash!Config
    BY DEF FlashTypes
  <2>3. Flash!FTypeOK'
    BY <2>1, <2>2 DEF FlashTypes, Flash!FTypeOK, Flash!ProcessRxData, Flash!Copies
  <2> QED BY <2>1, <2>3 DEF FlashTypes, Flash!ProcessRxData
<1>4. CASE \E m \in sentDown : Flash!DeviceReceives(m)
  <2>1. PICK m \in sentDown : Flash!DeviceReceives(m)
    BY <1>4
  <2>2. m.to \in FlashDevices /\ (~m.ask => m.cfg \in Flash!Config)
    BY DEF FlashTypes
  <2>3. Flash!FTypeOK'
    BY <2>1, <2>2 DEF FlashTypes, Flash!FTypeOK, Flash!DeviceReceives
  <2>4. sentUp' \subseteq sentUp \cup {Flash!IsFlash(m.to, flash[m.to])}
    BY <2>1 DEF Flash!DeviceReceives, Flash!Send
  <2>5. sentDown' \subseteq sentDown
    BY <2>1 DEF Flash!DeviceReceives
  <2> QED BY <1>0, <2>2, <2>3, <2>4, <2>5, PacketsTyped DEF FlashTypes
<1>5. CASE \E d \in FlashDevices : Flash!SaveFlashConfigFile(d)
  BY <1>5 DEF FlashTypes, Flash!FTypeOK, Flash!SaveFlashConfigFile, Flash!Copies
<1>6. CASE \E d \in FlashDevices : Flash!LoadFlashConfig(d)
  <2>1. Flash!Loaded \in Flash!Config /\ Flash!Upload(0, Flash!Loaded)
    BY <1>6 DEF Flash!LoadFlashConfig, Flash!Loaded, Flash!Config
  <2> QED BY <2>1, UploadTyped DEF FlashAssumption
<1>7. CASE \E d \in FlashDevices : Flash!Broadcast(d)
  <2>1. PICK d \in FlashDevices : Flash!Broadcast(d)
    BY <1>7
  <2>2. sentUp' \subseteq sentUp \cup {Flash!IsSys(d, flash[d])} /\ sentDown' = sentDown
    BY <2>1 DEF Flash!Broadcast, Flash!Send
  <2>3. Flash!FTypeOK'
    BY <2>1 DEF FlashTypes, Flash!FTypeOK, Flash!Broadcast
  <2> QED BY <1>0, <2>2, <2>3, PacketsTyped DEF FlashTypes
<1>8. CASE UNCHANGED Flash!fvars
  BY <1>8 DEF Flash!fvars, FlashTypes, Flash!FTypeOK
<1> QED BY <1>1, <1>2, <1>3, <1>4, <1>5, <1>6, <1>7, <1>8 DEF Flash!FNext

\* No upload is left, and what else goes over the wires is what the device has.
LEMMA SettledKept ==
    ASSUME FlashAssumption, FlashTypes, Settled, [Flash!FNext]_(Flash!fvars) PROVE Settled'
<1>0. \A d \in FlashDevices : flash[d] \in Flash!Config /\ flashCfg[d] = flash[d] /\ sysParams[d] = flash[d]
  BY DEF Settled, Flash!Agreed, Flash!Synchronized, FlashTypes, Flash!FTypeOK
<1>1. ~\E d, c : Flash!Upload(d, c)
  BY DEF Settled, FlashAssumption, Flash!Upload
<1>2. CASE \E waiting \in SUBSET FlashDevices : Flash!SyncFlashConfig(waiting)
  <2>1. PICK waiting \in SUBSET FlashDevices : Flash!SyncFlashConfig(waiting)
    BY <1>2
  <2>2. sentDown' \subseteq sentDown \cup {Flash!Get(d) : d \in FlashDevices}
    BY <2>1 DEF Flash!SyncFlashConfig
  <2>3. \A d \in FlashDevices : Flash!Get(d).ask
    BY GetTyped
  <2>4. UNCHANGED <<flashCfg, sysParams, flash, sentUp, uploads>>
    BY <2>1 DEF Flash!SyncFlashConfig
  <2> QED BY <2>2, <2>3, <2>4 DEF Settled, Flash!Agreed, Flash!Synchronized
<1>3. CASE \E m \in sentUp : Flash!ProcessRxData(m)
  <2>1. PICK m \in sentUp : Flash!ProcessRxData(m)
    BY <1>3
  <2>2. m.from \in FlashDevices /\ m.cfg = flash[m.from]
    BY DEF FlashTypes, Settled
  <2>3. UNCHANGED <<flash, sentDown, uploads>> /\ sentUp' \subseteq sentUp
    BY <2>1 DEF Flash!ProcessRxData
  <2>4. \A d \in FlashDevices : flashCfg'[d] = flash[d] /\ sysParams'[d] = flash[d]
    BY <1>0, <2>1, <2>2 DEF Flash!ProcessRxData, FlashTypes, Flash!FTypeOK
  <2> QED BY <2>3, <2>4 DEF Settled, Flash!Agreed, Flash!Synchronized
<1>4. CASE \E m \in sentDown : Flash!DeviceReceives(m)
  <2>1. PICK m \in sentDown : Flash!DeviceReceives(m)
    BY <1>4
  <2>2. m.to \in FlashDevices /\ (~m.ask => m.cfg = flash[m.to])
    BY DEF FlashTypes, Settled
  <2>3. flash' = flash
    BY <2>1, <2>2 DEF Flash!DeviceReceives, FlashTypes, Flash!FTypeOK
  <2>4. sentUp' \subseteq sentUp \cup {Flash!IsFlash(m.to, flash[m.to])}
    BY <2>1 DEF Flash!DeviceReceives, Flash!Send
  <2>5. UNCHANGED <<flashCfg, sysParams, uploads>> /\ sentDown' \subseteq sentDown
    BY <2>1 DEF Flash!DeviceReceives
  <2> QED BY <1>0, <2>2, <2>3, <2>4, <2>5, PacketsTyped DEF Settled, Flash!Agreed, Flash!Synchronized
<1>5. CASE \E d \in FlashDevices : Flash!SaveFlashConfigFile(d)
  BY <1>5 DEF Flash!SaveFlashConfigFile, Settled, Flash!Agreed, Flash!Synchronized
<1>6. CASE \E d \in FlashDevices : Flash!LoadFlashConfig(d)
  BY <1>1, <1>6 DEF Flash!LoadFlashConfig
<1>7. CASE \E d \in FlashDevices : Flash!Broadcast(d)
  <2>1. PICK d \in FlashDevices : Flash!Broadcast(d)
    BY <1>7
  <2>2. sentUp' \subseteq sentUp \cup {Flash!IsSys(d, flash[d])}
    BY <2>1 DEF Flash!Broadcast, Flash!Send
  <2>3. UNCHANGED <<flashCfg, sysParams, flash, sentDown, uploads>>
    BY <2>1 DEF Flash!Broadcast
  <2> QED BY <1>0, <2>2, <2>3, PacketsTyped DEF Settled, Flash!Agreed, Flash!Synchronized
<1>8. CASE UNCHANGED Flash!fvars
  BY <1>8 DEF Flash!fvars, Settled, Flash!Agreed, Flash!Synchronized
<1> QED BY <1>1, <1>2, <1>3, <1>4, <1>5, <1>6, <1>7, <1>8 DEF Flash!FNext

\* Once no upload is to come and nothing older is on its way, client and
\* devices agree for good, for any devices and values and whatever is lost,
\* delayed or sent again (SyncFlashConfig and ProcessRxData of InertialSense.cpp).
THEOREM AgreementLasts == ASSUME FlashAssumption PROVE Flash!FSpec => [](Settled => []Settled)
<1>1. Flash!FInit => FlashTypes
  BY FlashInits
<1>2. FlashTypes /\ [Flash!FNext]_(Flash!fvars) => FlashTypes'
  BY FlashTypesKept
<1>3. FlashTypes /\ Settled /\ [Flash!FNext]_(Flash!fvars) => Settled'
  BY SettledKept
<1> QED BY <1>1, <1>2, <1>3, PTL DEF Flash!FSpec

----------------------------------------------------------------------------
(***************************************************************************)
(* The parser.  Whatever the stream, what is in the buffer is a run of its *)
(* bytes, up to those that are not read yet; Base counts the bytes before  *)
(* it.  What is handed on ends before the head, and the head only goes     *)
(* forward in the stream, though the search is set back.                   *)
(***************************************************************************)
Octets == 0..255
CommAssumption ==
    /\ CommSize \in Nat /\ Chunks \subseteq Nat
    /\ \A s \in Streams : Comm!FlattenSeq(s) \in Seq(Octets)

Base == Len(Comm!Carried) - Len(wire) - Len(buf)
Piece(a, b) == SubSeq(Comm!Carried, a + 1, b)

Run(s, base) == \A i \in 1..Len(s) : s[i] = Comm!Carried[base + i]
InStream ==
    /\ Comm!Carried \in Seq(Octets) /\ wire \in Seq(Octets) /\ buf \in Seq(Octets)
    /\ Len(wire) + Len(buf) <= Len(Comm!Carried)
    /\ Run(wire, Len(Comm!Carried) - Len(wire)) /\ Run(buf, Base)

\* A header is not counted beyond its length byte.
Counts ==
    /\ hasStart = Comm!UBLOX_START1 => parseState <= 2
    /\ hasStart = Comm!RTCM3_START => parseState <= 1

\* What is handed on are pieces of the stream, one behind the other.
Apart(from, to, top) ==
    /\ from \in [1..Len(delivered) -> Nat] /\ to \in [1..Len(delivered) -> Nat]
    /\ \A i \in 1..Len(delivered) :
          from[i] < to[i] /\ to[i] <= top /\ delivered[i] = Piece(from[i], to[i])
    /\ \A i, j \in 1..Len(delivered) : i < j => to[i] <= from[j]
HandedOn(top) == \E from, to \in [1..Len(delivered) -> Nat] : Apart(from, to, top)
PiecesApart == HandedOn(Len(Comm!Carried) - Len(wire))

Handed == delivered \in Seq(Seq(Octets)) /\ HandedOn(Base + head)
CommInv == Comm!CTypeOK /\ InStream /\ Counts /\ Handed

LEMMA CommInits == ASSUME CommAssumption, Comm!CInit PROVE CommInv
<1>1. Comm!Carried \in Seq(Octets)
  BY DEF CommAssumption, Comm!CInit, Comm!Carried
<1>2. /\ wire = Comm!Carried /\ buf = <<>> /\ head = 0 /\ scan = 0 /\ hasStart = Comm!None
      /\ parseState = -1 /\ delivered = <<>>
  BY DEF Comm!CInit
<1>3. Comm!CTypeOK
  BY <1>2 DEF Comm!CTypeOK, CommAssumption
<1>4. InStream
  BY <1>1, <1>2 DEF InStream, Run, Base
<1>5. Counts
  BY <1>2 DEF Counts, Comm!None, Comm!UBLOX_START1, Comm!RTCM3_START
<1>6. Handed
  <2>1. delivered \in Seq(Seq(Octets)) /\ Len(delivered) = 0
    BY <1>2
  <2>2. <<>> \in [1..Len(delivered) -> Nat]
    BY <2>1
  <2>3. Apart(<<>>, <<>>, Base + head)
    BY <2>1, <2>2 DEF Apart
  <2> QED BY <2>1, <2>2, <2>3 DEF Handed, HandedOn
<1> QED BY <1>3, <1>4, <1>5, <1>6 DEF CommInv

LEMMA PieceIs ==
    ASSUME Comm!Carried \in Seq(Octets), NEW a \in Nat, NEW b \in Nat, a <= b, b <= Len(Comm!Carried)
    PROVE  /\ Piece(a, b) \in Seq(Octets) /\ Len(Piece(a, b)) = b - a
           /\ \A i \in 1..(b - a) : Piece(a, b)[i] = Comm!Carried[a + i]
<1> DEFINE C == Comm!Carried
<1>1. C \in Seq(Octets) /\ b <= Len(C) /\ Piece(a, b) = SubSeq(C, a + 1, b)
  BY DEF Piece
<1> HIDE DEF C
<1>2. /\ SubSeq(C, a + 1, b) \in Seq(Octets) /\ Len(SubSeq(C, a + 1, b)) = b - a
      /\ \A i \in 1..(b - a) : SubSeq(C, a + 1, b)[i] = C[a + i]
  BY <1>1, SubSeqIs
<1> QED BY <1>1, <1>2 DEF C

LEMMA SameSequence ==
    ASSUME NEW S, NEW s \in Seq(S), NEW t \in Seq(S), Len(s) = Len(t), \A i \in 1..Len(s) : s[i] = t[i]
    PROVE  s = t
OBVIOUS

\* A piece of the buffer is a piece of the stream.
LEMMA PieceOfBuffer ==
    ASSUME InStream, NEW a \in Nat, NEW b \in Nat, a <= b, b <= Len(buf)
    PROVE  /\ Base \in Nat /\ SubSeq(buf, a + 1, b) = Piece(Base + a, Base + b)
           /\ SubSeq(buf, a + 1, b) \in Seq(Octets)
<1> DEFINE p == SubSeq(buf, a + 1, b)
<1>1. PICK x \in Nat : x = Base /\ x + Len(buf) <= Len(Comm!Carried)
  <2>1. /\ Len(wire) \in Nat /\ Len(buf) \in Nat /\ Len(Comm!Carried) \in Nat
        /\ Len(wire) + Len(buf) <= Len(Comm!Carried)
    BY DEF InStream
  <2>2. Base \in Nat /\ Base + Len(buf) <= Len(Comm!Carried)
    BY <2>1 DEF Base
  <2> QED BY <2>2
<1>2. buf \in Seq(Octets) /\ Comm!Carried \in Seq(Octets) /\ \A i \in 1..Len(buf) : buf[i] = Comm!Carried[x + i]
  BY <1>1 DEF InStream, Run
<1>3. Len(buf) \in Nat /\ Len(Comm!Carried) \in Nat
  BY <1>2
<1>4. p \in Seq(Octets) /\ Len(p) = b - a /\ \A i \in 1..(b - a) : p[i] = buf[a + i]
  BY <1>2, SubSeqIs
<1> DEFINE q == Piece(x + a, x + b)
<1>5. PICK y \in Nat, z \in Nat : y = x + a /\ z = x + b /\ y <= z /\ z <= Len(Comm!Carried) /\ z - y = b - a
  BY <1>1, <1>3
<1>6. q \in Seq(Octets) /\ Len(q) = b - a /\ \A i \in 1..(b - a) : q[i] = Comm!Carried[y + i]
  <2>1. q = Piece(y, z)
    BY <1>5
  <2>2. /\ Piece(y, z) \in Seq(Octets) /\ Len(Piece(y, z)) = z - y
        /\ \A i \in 1..(z - y) : Piece(y, z)[i] = Comm!Carried[y + i]
    BY <1>2, <1>5, PieceIs
  <2> QED BY <1>5, <2>1, <2>2
<1> HIDE DEF p, q
<1>7. \A i \in 1..(b - a) : a + i \in 1..Len(buf) /\ x + (a + i) = y + i
  BY <1>3, <1>5
<1>8. \A i \in 1..Len(p) : p[i] = q[i]
  <2>1. ASSUME NEW i \in 1..(b - a) PROVE p[i] = q[i]
    <3>1. p[i] = buf[a + i] /\ q[i] = Comm!Carried[y + i]
      BY <1>4, <1>6
    <3>2. a + i \in 1..Len(buf) /\ x + (a + i) = y + i
      BY <1>7
    <3>3. buf[a + i] = Comm!Carried[x + (a + i)]
      BY <1>2, <3>2
    <3> QED BY <3>1, <3>2, <3>3
  <2>2. Len(p) = b - a
    BY <1>4
  <2> QED BY <2>1, <2>2
<1>9. p = q
  BY <1>4, <1>6, <1>8, SameSequence
<1> QED BY <1>1, <1>4, <1>9 DEF p, q

\* One more is handed on, behind the others.
LEMMA FinishKeeps ==
    ASSUME CommInv, scan < Len(buf), NEW f \in {head, scan}, Comm!Finish(f),
           UNCHANGED <<stream, wire, buf>>
    PROVE  Handed' /\ \A i \in 1..Len(delivered') : delivered'[i] \in Packs
<1> DEFINE p == SubSeq(buf, f + 1, scan + 1)
           n == Len(delivered)
<1>1. /\ scan \in Nat /\ f \in Nat /\ head \in Nat /\ head <= f /\ f <= scan /\ scan + 1 <= Len(buf)
      /\ Len(buf) \in Nat /\ n \in Nat /\ delivered \in Seq(Seq(Octets))
  BY DEF CommInv, Comm!CTypeOK, InStream, Handed
<1>2. Base \in Nat /\ p = Piece(Base + f, Base + (scan + 1)) /\ p \in Seq(Octets)
  <2>1. PICK y \in Nat : y = scan + 1 /\ f <= y /\ y <= Len(buf)
    BY <1>1
  <2>2. InStream
    BY DEF CommInv
  <2> QED BY <1>1, <2>1, <2>2, PieceOfBuffer
<1>3. Base' = Base /\ head' = scan + 1 /\ \A a, b : Piece(a, b)' = Piece(a, b)
  BY DEF Base, Piece, Comm!Finish, Comm!Carried
<1>4. CASE p \notin Packs
  <2>1. delivered' = delivered
    BY <1>4 DEF Comm!Finish
  <2>2. PICK from, to \in [1..n -> Nat] : Apart(from, to, Base + head)
    BY DEF CommInv, Handed, HandedOn
  <2>3. \A i \in 1..n : to[i] <= Base + (scan + 1)
    <3>1. \A i \in 1..n : to[i] \in Nat /\ to[i] <= Base + head
      BY <2>2 DEF Apart
    <3> QED BY <1>1, <1>2, <3>1
  <2>4. Apart(from, to, Base + head)'
    BY <1>3, <2>1, <2>2, <2>3 DEF Apart
  <2> QED BY <1>1, <2>1, <2>4 DEF Handed, HandedOn, CommInv, Comm!CTypeOK
<1>5. CASE p \in Packs
  <2>1. delivered' = Append(delivered, p)
    BY <1>5 DEF Comm!Finish
  <2>2. /\ delivered' \in Seq(Seq(Octets)) /\ Len(delivered') = n + 1 /\ delivered'[n + 1] = p
        /\ \A i \in 1..n : delivered'[i] = delivered[i]
    <3> HIDE DEF p
    <3> QED BY <1>1, <1>2, <2>1
  <2>3. PICK from, to \in [1..n -> Nat] : Apart(from, to, Base + head)
    BY DEF CommInv, Handed, HandedOn
  <2>4. PICK g \in [1..(n + 1) -> Nat], h \in [1..(n + 1) -> Nat] :
           /\ g[n + 1] = Base + f /\ h[n + 1] = Base + (scan + 1)
           /\ \A i \in 1..n : g[i] = from[i] /\ h[i] = to[i]
    <3> DEFINE u == [i \in 1..(n + 1) |-> IF i = n + 1 THEN Base + f ELSE from[i]]
               v == [i \in 1..(n + 1) |-> IF i = n + 1 THEN Base + (scan + 1) ELSE to[i]]
    <3>1. u \in [1..(n + 1) -> Nat] /\ v \in [1..(n + 1) -> Nat]
      <4>1. Base + f \in Nat /\ Base + (scan + 1) \in Nat
        BY <1>1, <1>2
      <4>2. \A i \in 1..(n + 1) : i # n + 1 => i \in 1..n
        BY <1>1
      <4>3. \A i \in 1..n : from[i] \in Nat /\ to[i] \in Nat
        BY <2>3
      <4> QED BY <4>1, <4>2, <4>3
    <3>2. /\ u[n + 1] = Base + f /\ v[n + 1] = Base + (scan + 1)
          /\ \A i \in 1..n : u[i] = from[i] /\ v[i] = to[i]
      BY <1>1
    <3> HIDE DEF u, v
    <3> QED BY <3>1, <3>2
  <2> HIDE DEF p
  <2>5. \A i \in 1..(n + 1) : i = n + 1 \/ i \in 1..n
    BY <1>1
  <2>6. \A i \in 1..n : /\ from[i] \in Nat /\ to[i] \in Nat /\ from[i] < to[i] /\ to[i] <= Base + head
                        /\ delivered[i] = Piece(from[i], to[i])
    BY <2>3 DEF Apart
  <2>7. \A i \in 1..(n + 1) : /\ g[i] < h[i] /\ h[i] <= Base + (scan + 1)
                              /\ delivered'[i] = Piece(g[i], h[i])
    <3>1. ASSUME NEW i \in 1..n
          PROVE  g[i] < h[i] /\ h[i] <= Base + (scan + 1) /\ delivered'[i] = Piece(g[i], h[i])
      <4>1. g[i] = from[i] /\ h[i] = to[i] /\ delivered'[i] = delivered[i]
        BY <2>2, <2>4
      <4>2. to[i] \in Nat /\ from[i] < to[i] /\ to[i] <= Base + head /\ delivered[i] = Piece(from[i], to[i])
        BY <2>6
      <4>3. to[i] <= Base + (scan + 1)
        BY <1>1, <1>2, <4>2
      <4> QED BY <4>1, <4>2, <4>3
    <3>2. /\ g[n + 1] < h[n + 1] /\ h[n + 1] <= Base + (scan + 1)
          /\ delivered'[n + 1] = Piece(g[n + 1], h[n + 1])
      <4>1. g[n + 1] < h[n + 1] /\ h[n + 1] <= Base + (scan + 1)
        BY <1>1, <1>2, <2>4
      <4> QED BY <1>2, <2>2, <2>4, <4>1
    <3> QED BY <2>5, <3>1, <3>2
  <2>8. \A i, j \in 1..(n + 1) : i < j => h[i] <= g[j]
    <3>1. \A i, j \in 1..n : i < j => to[i] <= from[j]
      BY <2>3 DEF Apart
    <3>2. \A i \in 1..n : to[i] <= Base + f
      BY <1>1, <1>2, <2>6
    <3>3. \A i, j \in 1..(n + 1) : i < j => i \in 1..n
      BY <1>1
    <3> QED BY <2>4, <2>5, <3>1, <3>2, <3>3
  <2>9. Apart(g, h, Base + head)'
    <3>1. \A i \in 1..(n + 1) : /\ g[i] < h[i] /\ h[i] <= Base' + head'
                                /\ delivered'[i] = Piece(g[i], h[i])'
      BY <1>3, <2>7
    <3> QED BY <2>2, <2>4, <2>8, <3>1 DEF Apart
  <2>10. HandedOn(Base + head)'
    BY <2>2, <2>4, <2>9 DEF HandedOn
  <2>11. \A i \in 1..(n + 1) : delivered'[i] \in Packs
    BY <1>5, <2>2, <2>5 DEF CommInv, Comm!CTypeOK
  <2> QED BY <2>2, <2>10, <2>11 DEF Handed
<1> QED BY <1>4, <1>5

\* Nothing is handed on, and the head goes forward or stays.
LEMMA HeadMoves ==
    ASSUME CommInv, UNCHANGED <<stream, delivered>>, Base' \in Int, head' \in Nat,
           Base + head <= Base' + head'
    PROVE  Handed'
<1>1. PICK from, to \in [1..Len(delivered) -> Nat] : Apart(from, to, Base + head)
  BY DEF CommInv, Handed, HandedOn
<1>2. Base \in Int /\ head \in Nat
  BY DEF CommInv, InStream, Base, Comm!CTypeOK
<1>3. \A i \in 1..Len(delivered) : to[i] \in Nat /\ to[i] <= Base + head
  BY <1>1 DEF Apart
<1>4. \A i \in 1..Len(delivered) : to[i] <= Base' + head'
  <2>1. PICK x \in Int, y \in Int : x = Base + head /\ y = Base' + head' /\ x <= y
    <3>1. Base + head \in Int /\ Base' + head' \in Int
      BY <1>2
    <3> QED BY <3>1
  <2>2. \A i \in 1..Len(delivered) : to[i] <= y
    BY <1>3, <2>1
  <2> QED BY <2>1, <2>2
<1>5. \A a, b : Piece(a, b)' = Piece(a, b)
  BY DEF Piece, Comm!Carried
<1>6. Apart(from, to, Base + head)'
  BY <1>1, <1>4, <1>5 DEF Apart
<1> QED BY <1>6 DEF Handed, HandedOn, CommInv

LEMMA JoinIs ==
    ASSUME NEW S, NEW s \in Seq(S), NEW t \in Seq(S)
    PROVE  /\ s \o t \in Seq(S) /\ Len(s \o t) = Len(s) + Len(t)
           /\ \A i \in 1..Len(s \o t) : (s \o t)[i] = IF i <= Len(s) THEN s[i] ELSE t[i - Len(s)]
OBVIOUS

\* What is not in the buffer of a byte that is looked at.
Looking == scan < Len(buf) /\ UNCHANGED <<stream, wire, buf>>

LEMMA LookingIs ==
    ASSUME CommInv, Looking
    PROVE  /\ InStream' /\ Base' = Base /\ Base \in Nat /\ Comm!Byte \in Octets
           /\ head \in Nat /\ scan \in Nat /\ head <= scan /\ scan + 1 <= Len(buf) /\ Len(buf) \in Nat
           /\ parseState \in Int
<1>1. InStream /\ Comm!CTypeOK
  BY DEF CommInv
<1>2. /\ head \in Nat /\ scan \in Nat /\ head <= scan /\ scan + 1 <= Len(buf) /\ Len(buf) \in Nat
      /\ parseState \in Int
  BY <1>1 DEF Looking, Comm!CTypeOK, InStream
<1>3. Base' = Base /\ Base \in Nat
  BY <1>1 DEF Looking, Base, Comm!Carried, InStream
<1>4. InStream'
  <2>1. Comm!Carried' = Comm!Carried
    BY DEF Looking, Comm!Carried
  <2> QED BY <1>1, <1>3, <2>1 DEF Looking, InStream, Run
<1>5. Comm!Byte \in Octets
  <2>1. buf \in Seq(Octets) /\ scan + 1 \in 1..Len(buf)
    BY <1>1, <1>2 DEF InStream
  <2> QED BY <2>1 DEF Comm!Byte
<1> QED BY <1>2, <1>3, <1>4, <1>5

\* What becomes of a byte: a packet ends with it, or the search goes on, from
\* where it is or set back to the head.
LEMMA ByteSeen ==
    ASSUME CommInv, Looking, NEW h \in {head, scan}, NEW start \in Comm!StartBytes,
           \/ Comm!Finish(h)
           \/ Comm!Abandon
           \/ Comm!Continue(h, start)
           \/ Comm!Continue(h, Comm!None)
    PROVE  /\ Handed' /\ head' \in Nat /\ head' <= scan' /\ scan' \in 0..Len(buf')
           /\ hasStart' \in {start, Comm!None}
           /\ \A i \in 1..Len(delivered') : delivered'[i] \in Packs
<1>1. /\ InStream' /\ Base' = Base /\ Base \in Nat
      /\ head \in Nat /\ scan \in Nat /\ head <= scan /\ scan + 1 <= Len(buf) /\ Len(buf) \in Nat
  BY LookingIs
<1>2. buf' = buf /\ UNCHANGED stream
  BY DEF Looking
<1>3. h \in Nat /\ head <= h /\ h <= scan
  BY <1>1
<1>4. \A i \in 1..Len(delivered) : delivered[i] \in Packs
  BY DEF CommInv, Comm!CTypeOK
<1>5. CASE Comm!Finish(h)
  <2>1. Handed' /\ \A i \in 1..Len(delivered') : delivered'[i] \in Packs
    BY <1>5, FinishKeeps DEF Looking
  <2> QED BY <1>1, <1>2, <1>5, <2>1 DEF Comm!Finish
<1>6. CASE Comm!Abandon
  <2>1. head' = scan + 1 /\ scan' = scan + 1 /\ hasStart' = Comm!None /\ delivered' = delivered
    BY <1>6 DEF Comm!Abandon
  <2>2. Base + head <= Base' + head' /\ Base' \in Int /\ head' \in Nat
    <3> QED BY <1>1, <2>1
  <2>3. Handed'
    BY <1>2, <2>1, <2>2, HeadMoves
  <2> QED BY <1>1, <1>2, <1>4, <2>1, <2>3
<1>7. CASE Comm!Continue(h, start) \/ Comm!Continue(h, Comm!None)
  <2>1. head' = h /\ scan' = scan + 1 /\ hasStart' \in {start, Comm!None} /\ delivered' = delivered
    BY <1>7 DEF Comm!Continue
  <2>2. Base + head <= Base' + head' /\ Base' \in Int /\ head' \in Nat
    <3> QED BY <1>1, <1>3, <2>1
  <2>3. Handed'
    BY <1>2, <2>1, <2>2, HeadMoves
  <2> QED BY <1>1, <1>2, <1>3, <1>4, <2>1, <2>3
<1> QED BY <1>5, <1>6, <1>7

LEMMA PacketByteKeeps ==
    ASSUME CommAssumption, CommInv, Looking, NEW h \in {head, scan}, NEW start \in Comm!StartBytes,
           NEW state \in -(CommSize + 1)..3,
           start = Comm!UBLOX_START1 => state <= 2, start = Comm!RTCM3_START => state <= 1,
           Comm!PacketByte(h, start, state)
    PROVE  CommInv'
<1>1. /\ InStream' /\ Comm!Byte \in Octets /\ CommSize \in Nat /\ Len(buf') <= CommSize /\ state \in Int
  BY LookingIs DEF Looking, CommInv, Comm!CTypeOK, CommAssumption
<1>2. \/ Comm!Finish(h)
      \/ Comm!Abandon
      \/ Comm!Continue(h, start)
      \/ Comm!Continue(h, Comm!None)
  BY DEF Comm!PacketByte, Comm!IsbByte, Comm!NmeaByte, Comm!CountedByte
<1>3. /\ Handed' /\ head' \in Nat /\ head' <= scan' /\ scan' \in 0..Len(buf')
      /\ hasStart' \in {start, Comm!None}
      /\ \A i \in 1..Len(delivered') : delivered'[i] \in Packs
  BY <1>2, ByteSeen
<1>4. /\ parseState' \in -(CommSize + 1)..3
      /\ start = Comm!UBLOX_START1 => parseState' <= 2
      /\ start = Comm!RTCM3_START => parseState' <= 1
  <2>1. CASE start = Comm!PSC_START /\ parseState' = state
    BY <2>1 DEF Comm!PSC_START, Comm!UBLOX_START1, Comm!RTCM3_START
  <2>2. CASE start = Comm!NMEA_START /\ Comm!NmeaByte(h, state)
    <3>1. parseState' \in {state, -1}
      BY <2>2 DEF Comm!NmeaByte
    <3> QED BY <1>1, <2>2, <3>1 DEF Comm!NMEA_START, Comm!UBLOX_START1, Comm!RTCM3_START
  <2>3. ASSUME NEW at \in {1, 2}, state <= at, Comm!CountedByte(h, start, state, at)
        PROVE  parseState' \in -(CommSize + 1)..3 /\ parseState' <= at
    <3>1. CASE state < 0
      BY <1>1, <2>3, <3>1 DEF Comm!CountedByte
    <3>2. CASE state >= 0 /\ state = at
      <4>1. \/ parseState' = state
            \/ parseState' = -(Comm!Byte + 1) /\ ~(Comm!Byte > CommSize - 6)
        BY <1>1, <2>3, <3>2 DEF Comm!CountedByte
      <4>2. PICK y \in Int : y = Comm!Byte /\ y >= 0
        BY <1>1 DEF Octets
      <4>3. \/ parseState' = state
            \/ parseState' = -(y + 1) /\ ~(y > CommSize - 6)
        BY <4>1, <4>2
      <4> QED BY <1>1, <3>2, <4>2, <4>3
    <3>3. CASE state >= 0 /\ state # at
      <4>1. parseState' \in {state, state + 1}
        BY <1>1, <2>3, <3>3 DEF Comm!CountedByte
      <4> QED BY <1>1, <2>3, <3>3, <4>1
    <3> QED BY <1>1, <3>1, <3>2, <3>3
  <2>4. CASE start = Comm!UBLOX_START1 /\ Comm!CountedByte(h, start, state, 2)
    <3>1. parseState' \in -(CommSize + 1)..3 /\ parseState' <= 2
      BY <2>3, <2>4
    <3> QED BY <2>4, <3>1 DEF Comm!UBLOX_START1, Comm!RTCM3_START
  <2>5. CASE start = Comm!RTCM3_START /\ Comm!CountedByte(h, start, state, 1)
    <3>1. parseState' \in -(CommSize + 1)..3 /\ parseState' <= 1
      BY <2>3, <2>5
    <3> QED BY <2>5, <3>1 DEF Comm!UBLOX_START1, Comm!RTCM3_START
  <2> QED BY <2>1, <2>2, <2>4, <2>5 DEF Comm!PacketByte
<1>5. Counts'
  <2>1. Comm!None # Comm!UBLOX_START1 /\ Comm!None # Comm!RTCM3_START
    BY DEF Comm!None, Comm!UBLOX_START1, Comm!RTCM3_START
  <2> QED BY <1>3, <1>4, <2>1 DEF Counts
<1>6. Comm!CTypeOK'
  BY <1>1, <1>3, <1>4 DEF Comm!CTypeOK
<1> QED BY <1>1, <1>3, <1>5, <1>6 DEF CommInv

LEMMA ParseKeeps == ASSUME CommAssumption, CommInv, Comm!Parse PROVE CommInv'
<1>1. Looking
  BY DEF Comm!Parse, Looking
<1>2. /\ InStream' /\ Base' = Base /\ Base \in Nat /\ head \in Nat /\ scan \in Nat /\ head <= scan
      /\ scan + 1 <= Len(buf) /\ Len(buf) \in Nat /\ buf' = buf /\ UNCHANGED stream
  BY <1>1, LookingIs DEF Looking
<1>3. /\ hasStart \in Comm!StartBytes \cup {Comm!None} /\ parseState \in -(CommSize + 1)..3
      /\ CommSize \in Nat /\ Len(buf) <= CommSize /\ Counts
      /\ \A i \in 1..Len(delivered) : delivered[i] \in Packs
  BY DEF CommInv, Comm!CTypeOK, CommAssumption
<1>4. CASE hasStart # Comm!None
  <2>1. Comm!PacketByte(head, hasStart, parseState) /\ hasStart \in Comm!StartBytes
    BY <1>3, <1>4 DEF Comm!Parse
  <2>2. /\ hasStart = Comm!UBLOX_START1 => parseState <= 2
        /\ hasStart = Comm!RTCM3_START => parseState <= 1
    BY <1>3 DEF Counts
  <2> QED BY <1>1, <1>3, <2>1, <2>2, PacketByteKeeps
<1>5. CASE hasStart = Comm!None /\ Comm!Byte \in Comm!StartBytes
  <2>1. Comm!PacketByte(scan, Comm!Byte, 0)
    BY <1>5 DEF Comm!Parse
  <2>2. 0 \in -(CommSize + 1)..3 /\ 0 <= 2 /\ 0 <= 1
    BY <1>3
  <2> QED BY <1>1, <1>5, <2>1, <2>2, PacketByteKeeps
<1>6. CASE hasStart = Comm!None /\ Comm!Byte \notin Comm!StartBytes
  <2>1. /\ scan' \in {head + 1, scan + 1} /\ parseState' = -1
        /\ UNCHANGED <<head, hasStart, delivered>>
    BY <1>6 DEF Comm!Parse, Comm!StrayByte
  <2>2. head' \in Nat /\ head' <= scan' /\ scan' \in 0..Len(buf')
    BY <1>2, <2>1
  <2>3. Handed'
    <3>1. Base + head <= Base' + head' /\ Base' \in Int
      <4> QED BY <1>2, <2>1
    <3> QED BY <1>2, <2>1, <2>2, <3>1, HeadMoves
  <2>4. Comm!CTypeOK'
    BY <1>2, <1>3, <2>1, <2>2 DEF Comm!CTypeOK
  <2>5. Counts'
    BY <2>1 DEF Counts
  <2> QED BY <1>2, <2>3, <2>4, <2>5 DEF CommInv
<1> QED BY <1>4, <1>5, <1>6

\* The buffer that is_comm_free leaves has the last bytes of what there was,
\* and all of the packet that is parsed unless it was thrown away.
LEMMA FreedIs ==
    ASSUME CommInv, scan = Len(buf)
    PROVE  /\ Comm!Freed.buf \in Seq(Octets) /\ Len(Comm!Freed.buf) <= Len(buf)
           /\ \A i \in 1..Len(Comm!Freed.buf) :
                 Comm!Freed.buf[i] = buf[Len(buf) - Len(Comm!Freed.buf) + i]
           /\ Comm!Freed.head \in Nat /\ Comm!Freed.head <= Comm!Freed.scan
           /\ Comm!Freed.scan = Len(Comm!Freed.buf)
           /\ head <= (Len(buf) - Len(Comm!Freed.buf)) + Comm!Freed.head
<1>1. /\ buf \in Seq(Octets) /\ Len(buf) \in Nat /\ head \in Nat /\ head <= Len(buf) /\ scan = Len(buf)
  BY DEF CommInv, InStream, Comm!CTypeOK
<1>2. CASE Comm!Freed = [buf |-> buf, head |-> head, scan |-> scan]
  BY <1>1, <1>2
<1>3. CASE Comm!Freed = [buf |-> <<>>, head |-> 0, scan |-> 0]
  BY <1>1, <1>3
<1>4. CASE Comm!Freed = [buf |-> SubSeq(buf, head + 1, Len(buf)), head |-> 0, scan |-> scan - head]
  <2> DEFINE b == SubSeq(buf, head + 1, Len(buf))
  <2>1. b \in Seq(Octets) /\ Len(b) = Len(buf) - head /\ \A i \in 1..(Len(buf) - head) : b[i] = buf[head + i]
    <3>1. PICK m \in Nat : m = Len(buf) /\ head <= m
      BY <1>1
    <3> QED BY <1>1, <3>1, SubSeqIs
  <2> HIDE DEF b
  <2>2. Comm!Freed.buf = b /\ Comm!Freed.head = 0 /\ Comm!Freed.scan = Len(buf) - head
    BY <1>1, <1>4 DEF b
  <2>3. PICK m \in Nat : m = Len(b) /\ m = Len(buf) - head
    <3>1. Len(b) \in Nat
      BY <2>1
    <3> QED BY <2>1, <3>1
  <2>4. Len(buf) - m = head
    BY <1>1, <2>3
  <2>5. \A i \in 1..m : b[i] = buf[head + i]
    BY <2>1, <2>3
  <2>6. /\ Len(Comm!Freed.buf) = m /\ m <= Len(buf) /\ Comm!Freed.scan = m
        /\ head <= (Len(buf) - m) + 0 /\ 0 <= m
    BY <1>1, <2>2, <2>3, <2>4
  <2>7. \A i \in 1..Len(Comm!Freed.buf) :
           Comm!Freed.buf[i] = buf[Len(buf) - Len(Comm!Freed.buf) + i]
    BY <2>2, <2>4, <2>5, <2>6
  <2>8. Comm!Freed.head <= Comm!Freed.scan /\ Comm!Freed.scan = Len(Comm!Freed.buf)
    BY <2>2, <2>6
  <2>9. head <= (Len(buf) - Len(Comm!Freed.buf)) + Comm!Freed.head /\ Len(Comm!Freed.buf) <= Len(buf)
    BY <2>2, <2>6
  <2> QED BY <2>1, <2>2, <2>7, <2>8, <2>9
<1> QED BY <1>2, <1>3, <1>4 DEF Comm!Freed

LEMMA Sooner ==
    ASSUME NEW x \in Int, NEW y \in Int, NEW g \in Int, NEW h \in Int, NEW t \in Int,
           x + g = y, t <= g + h
    PROVE  x + t <= y + h
OBVIOUS

LEMMA ReadKeeps == ASSUME CommAssumption, CommInv, NEW n \in Chunks, Comm!Read(n) PROVE CommInv'
<1> DEFINE F == Comm!Freed
           C == Comm!Carried
           got == SubSeq(wire, 1, n)
           gone == Len(buf) - Len(F.buf)
<1>1. /\ scan = Len(buf) /\ n \in Nat /\ n <= Len(wire) /\ n <= CommSize - Len(F.buf)
      /\ buf' = F.buf \o got /\ wire' = SubSeq(wire, n + 1, Len(wire))
      /\ head' = F.head /\ scan' = F.scan
      /\ UNCHANGED <<stream, hasStart, parseState, delivered>>
  BY DEF Comm!Read, CommAssumption
<1>2. /\ F.buf \in Seq(Octets) /\ Len(F.buf) <= Len(buf)
      /\ \A i \in 1..Len(F.buf) : F.buf[i] = buf[gone + i]
      /\ F.head \in Nat /\ F.head <= F.scan /\ F.scan = Len(F.buf) /\ head <= gone + F.head
  BY <1>1, FreedIs
<1>3. /\ C \in Seq(Octets) /\ wire \in Seq(Octets) /\ buf \in Seq(Octets)
      /\ Len(wire) + Len(buf) <= Len(C)
      /\ \A i \in 1..Len(wire) : wire[i] = C[Len(C) - Len(wire) + i]
      /\ \A i \in 1..Len(buf) : buf[i] = C[Len(C) - Len(wire) - Len(buf) + i]
      /\ Comm!Carried' = Comm!Carried
  BY <1>1 DEF CommInv, InStream, Run, Base, Comm!Carried
<1> HIDE DEF F, C
<1>6. Len(C) \in Nat /\ Len(wire) \in Nat /\ Len(buf) \in Nat /\ Len(F.buf) \in Nat
  BY <1>2, <1>3
<1>4. /\ got \in Seq(Octets) /\ Len(got) = n /\ \A i \in 1..n : got[i] = wire[i]
      /\ wire' \in Seq(Octets) /\ Len(wire') = Len(wire) - n
      /\ \A i \in 1..(Len(wire) - n) : wire'[i] = wire[n + i]
  <2>1. got \in Seq(Octets) /\ Len(got) = n /\ \A i \in 1..n : got[i] = wire[i]
    BY <1>1, <1>3, <1>6
  <2>2. PICK m \in Nat : m = Len(wire) /\ n <= m
    BY <1>1, <1>6
  <2>3. /\ SubSeq(wire, n + 1, m) \in Seq(Octets) /\ Len(SubSeq(wire, n + 1, m)) = m - n
        /\ \A i \in 1..(m - n) : SubSeq(wire, n + 1, m)[i] = wire[n + i]
    BY <1>1, <1>3, <2>2, SubSeqIs
  <2> QED BY <1>1, <2>1, <2>2, <2>3
<1> HIDE DEF got
<1>5. /\ buf' \in Seq(Octets) /\ Len(buf') = Len(F.buf) + n
      /\ \A i \in 1..Len(buf') : buf'[i] = IF i <= Len(F.buf) THEN F.buf[i] ELSE got[i - Len(F.buf)]
  <2> DEFINE j == F.buf \o got
  <2>1. /\ j \in Seq(Octets) /\ Len(j) = Len(F.buf) + Len(got)
        /\ \A i \in 1..Len(j) : j[i] = IF i <= Len(F.buf) THEN F.buf[i] ELSE got[i - Len(F.buf)]
    <3>1. PICK s \in Seq(Octets) : s = F.buf
      BY <1>2
    <3>2. PICK t \in Seq(Octets) : t = got
      BY <1>4
    <3>3. /\ s \o t \in Seq(Octets) /\ Len(s \o t) = Len(s) + Len(t)
          /\ \A i \in 1..Len(s \o t) : (s \o t)[i] = IF i <= Len(s) THEN s[i] ELSE t[i - Len(s)]
      BY JoinIs
    <3>4. j = s \o t
      BY <3>1, <3>2
    <3> HIDE DEF j
    <3> QED BY <3>1, <3>2, <3>3, <3>4
  <2>2. buf' = j
    BY <1>1
  <2> HIDE DEF j
  <2> QED BY <1>4, <2>1, <2>2
<1> DEFINE base == Len(C) - Len(wire) - Len(F.buf)
<1>7. Base' = base /\ Base + gone = base /\ Base \in Int
  <2>1. PICK k \in Nat, l \in Nat : k = Len(wire') /\ k = Len(wire) - n /\ l = Len(buf') /\ l = Len(F.buf) + n
    <3>1. PICK a \in Nat, b \in Nat : a = Len(wire) /\ b = Len(F.buf)
      BY <1>6
    <3>2. n \in Nat /\ n <= a
      BY <1>1, <3>1
    <3>3. a - n \in Nat /\ b + n \in Nat
      BY <3>2
    <3>4. Len(wire') = a - n /\ Len(buf') = b + n
      BY <1>4, <1>5, <3>1
    <3> QED BY <3>1, <3>3, <3>4
  <2>2. Base' = Len(C) - k - l /\ Base = Len(C) - Len(wire) - Len(buf)
    BY <1>3, <2>1 DEF Base, C
  <2> QED BY <1>1, <1>6, <2>1, <2>2
<1>8. Run(wire, Len(Comm!Carried) - Len(wire))'
  <2>1. \A i \in 1..(Len(wire) - n) : n + i \in 1..Len(wire)
    BY <1>1, <1>6
  <2>2. \A i \in 1..(Len(wire) - n) : wire'[i] = C[Len(C) - Len(wire) + (n + i)]
    BY <1>3, <1>4, <2>1
  <2>3. \A i \in 1..(Len(wire) - n) : Len(C) - Len(wire) + (n + i) = Len(C) - Len(wire') + i
    <3>1. PICK k \in Nat : k = Len(wire')
      BY <1>4
    <3>2. k = Len(wire) - n
      BY <1>4, <3>1
    <3>3. \A i \in 1..(Len(wire) - n) : Len(C) - Len(wire) + (n + i) = Len(C) - k + i
      BY <1>1, <1>6, <3>2
    <3> QED BY <3>1, <3>3
  <2> QED BY <1>3, <1>4, <2>2, <2>3 DEF Run, C
<1>9. Run(buf, Base)'
  <2>1. ASSUME NEW i \in 1..Len(buf') PROVE buf'[i] = C[base + i]
    <3>1. CASE i <= Len(F.buf)
      <4>1. i \in 1..Len(F.buf) /\ gone + i \in 1..Len(buf)
        BY <1>2, <1>5, <1>6, <2>1, <3>1
      <4>2. buf'[i] = C[Len(C) - Len(wire) - Len(buf) + (gone + i)]
        BY <1>2, <1>3, <1>5, <2>1, <3>1, <4>1
      <4>3. Len(C) - Len(wire) - Len(buf) + (gone + i) = base + i
        BY <1>6
      <4> QED BY <4>2, <4>3
    <3>2. CASE ~(i <= Len(F.buf))
      <4>1. i - Len(F.buf) \in 1..n /\ i - Len(F.buf) \in 1..Len(wire)
        BY <1>1, <1>5, <1>6, <2>1, <3>2
      <4>2. buf'[i] = C[Len(C) - Len(wire) + (i - Len(F.buf))]
        BY <1>3, <1>4, <1>5, <2>1, <3>2, <4>1
      <4>3. Len(C) - Len(wire) + (i - Len(F.buf)) = base + i
        BY <1>6
      <4> QED BY <4>2, <4>3
    <3> QED BY <3>1, <3>2
  <2> QED BY <1>3, <1>7, <2>1 DEF Run, C
<1>10. InStream'
  <2>1. Len(wire') + Len(buf') <= Len(C)
    <3>1. PICK k \in Nat, l \in Nat : k = Len(wire') /\ l = Len(buf')
      BY <1>4, <1>5
    <3>2. k = Len(wire) - n /\ l = Len(F.buf) + n
      BY <1>4, <1>5, <3>1
    <3>3. Len(F.buf) <= Len(buf) /\ Len(wire) + Len(buf) <= Len(C)
      BY <1>2, <1>3
    <3>4. k + l <= Len(C)
      BY <1>1, <1>6, <3>2, <3>3
    <3> QED BY <3>1, <3>4
  <2> QED BY <1>3, <1>4, <1>5, <1>8, <1>9, <2>1 DEF InStream, C
<1>11. Handed'
  <2>1. head \in Nat
    BY DEF CommInv, Comm!CTypeOK
  <2>2. Base + head <= Base' + head' /\ Base' \in Int /\ head' \in Nat
    <3>1. PICK x \in Int, y \in Int : x = Base /\ y = Base' /\ x + gone = y
      <4>1. base \in Int
        BY <1>6
      <4>2. Base' \in Int /\ Base + gone = Base'
        BY <1>7, <4>1
      <4> QED BY <1>7, <4>2
    <3>2. head' \in Nat /\ head <= gone + head'
      BY <1>1, <1>2
    <3>3. PICK h \in Nat : h = head'
      BY <3>2
    <3>4. x + head <= y + h
      <4>1. gone \in Int
        BY <1>6
      <4> HIDE DEF gone
      <4>2. x + gone = y
        BY <3>1
      <4>3. head <= gone + head'
        BY <3>2
      <4>4. head <= gone + h
        BY <3>3, <4>3
      <4> QED BY <2>1, <4>1, <4>2, <4>4
    <3> QED BY <3>1, <3>3, <3>4
  <2> QED BY <1>1, <2>2, HeadMoves
<1>12. Comm!CTypeOK'
  <2>1. /\ Len(buf') <= CommSize /\ head' \in Nat /\ head' <= scan' /\ scan' \in 0..Len(buf')
    BY <1>1, <1>2, <1>5, <1>6 DEF CommAssumption
  <2> QED BY <1>1, <2>1 DEF CommInv, Comm!CTypeOK
<1>13. Counts'
  BY <1>1 DEF CommInv, Counts
<1> QED BY <1>10, <1>11, <1>12, <1>13 DEF CommInv

LEMMA CommKeeps == ASSUME CommAssumption, CommInv, [Comm!CNext]_(Comm!cvars) PROVE CommInv'
<1>1. CASE Comm!Parse
  BY <1>1, ParseKeeps
<1>2. CASE \E n \in Chunks : Comm!Read(n)
  BY <1>2, ReadKeeps
<1>3. CASE UNCHANGED Comm!cvars
  <2>1. UNCHANGED <<stream, wire, buf, head, scan, hasStart, parseState, delivered>>
    BY <1>3 DEF Comm!cvars
  <2>2. Comm!Carried' = Comm!Carried /\ Base' = Base
    BY <2>1 DEF Comm!Carried, Base
  <2>3. Base \in Int /\ head \in Nat
    BY DEF CommInv, InStream, Base, Comm!CTypeOK
  <2>4. Handed'
    <3>1. Base + head <= Base' + head' /\ Base' \in Int /\ head' \in Nat
      <4> QED BY <2>1, <2>2, <2>3
    <3> QED BY <2>1, <3>1, HeadMoves
  <2>5. InStream' /\ Counts' /\ Comm!CTypeOK'
    BY <2>1, <2>2 DEF CommInv, InStream, Run, Counts, Comm!CTypeOK
  <2> QED BY <2>4, <2>5 DEF CommInv
<1> QED BY <1>1, <1>2, <1>3 DEF Comm!CNext

\* Of any stream, however damaged and however the reads split it and the
\* buffer is shifted or emptied, the parser looks at no byte outside of what
\* was read, and what it hands on are pieces of the stream, one behind the
\* other: nothing is handed on twice or put together from what was apart
\* (is_comm_free and is_comm_parse_timeout of ISComm.c).
THEOREM ParserHandsOnPieces ==
    ASSUME CommAssumption PROVE Comm!CSpec => [](Comm!CTypeOK /\ PiecesApart)
<1>1. Comm!CInit => CommInv
  BY CommInits
<1>2. CommInv /\ [Comm!CNext]_(Comm!cvars) => CommInv'
  BY CommKeeps
<1>3. CommInv => Comm!CTypeOK /\ PiecesApart
  <2> SUFFICES ASSUME CommInv PROVE Comm!CTypeOK /\ PiecesApart
    OBVIOUS
  <2>1. PICK from, to \in [1..Len(delivered) -> Nat] : Apart(from, to, Base + head)
    BY DEF CommInv, Handed, HandedOn
  <2>2. Base + head <= Len(Comm!Carried) - Len(wire) /\ Base \in Int /\ head \in Nat
        /\ Len(Comm!Carried) - Len(wire) \in Int
    BY DEF CommInv, InStream, Comm!CTypeOK, Base
  <2>3. \A i \in 1..Len(delivered) : to[i] <= Len(Comm!Carried) - Len(wire)
    <3>1. \A i \in 1..Len(delivered) : to[i] \in Nat /\ to[i] <= Base + head
      BY <2>1 DEF Apart
    <3> QED BY <2>2, <3>1
  <2>4. Apart(from, to, Len(Comm!Carried) - Len(wire))
    BY <2>1, <2>3 DEF Apart
  <2> QED BY <2>4 DEF CommInv, PiecesApart, HandedOn
<1> QED BY <1>1, <1>2, <1>3, PTL DEF Comm!CSpec
=============================================================================
