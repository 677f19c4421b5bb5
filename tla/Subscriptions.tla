--------------------------- MODULE Subscriptions ---------------------------
(***************************************************************************)
(* What a device promises to the clients that subscribe to its messages:   *)
(* one subscription per port and message, changed only by a request for    *)
(* it, ended only by a stop that names it, and given up for another one    *)
(* only when the table is full.                                            *)
(***************************************************************************)
EXTENDS Naturals, FiniteSets

CONSTANTS Ports, Capacity

VARIABLE subs   \* the subscriptions: records [port, did, size, period]

SameKey(s, t) == s.port = t.port /\ s.did = t.did /\ s.size = t.size

SubscriptionsInit == subs = {}

\* s replaces its predecessor, or takes a free place or that of a victim; one
\* with no period, a request for a single packet, leaves none behind.
Take(s, victim) ==
    LET others == {t \in subs : ~SameKey(s, t)}
    IN  /\ victim \subseteq others
        /\ victim # {} => others = subs /\ Cardinality(subs) = Capacity
        /\ subs' = (others \ victim) \cup (IF s.period > 0 THEN {s} ELSE {})

StopPort(p) == subs' = {t \in subs : t.port # p}
StopAll == subs' = {}
StopDid(p, d) == subs' = {t \in subs : t.port # p \/ t.did # d}

SubscriptionsNext(requests) ==
    \/ \E s \in requests :
            \E victim \in {{}} \cup {{t} : t \in subs} : Take(s, victim)
    \/ StopAll
    \/ \E p \in Ports : StopPort(p) \/ \E t \in subs : StopDid(p, t.did)

=============================================================================
