----------------------------- MODULE MCSdkComm -----------------------------
(***************************************************************************)
(* Small instances, for TLC, of the parts of the SDK's communication:      *)
(* the broadcast table, ensured packets, the stream parser, the binary     *)
(* packet and the ring buffer.  They share no state; a behaviour is that   *)
(* of one of them.                                                         *)
(***************************************************************************)
EXTENDS ComManager, RingBuffer

CONSTANTS Size, Chunks                                  \* parser

SizesOfThree == [d \in 1..3 |-> IF d = 2 THEN 3 ELSE IF d = 1 THEN 2 ELSE 1]

TwoGetsAndASet == {[pid |-> "get", id |-> 1], [pid |-> "set", id |-> 1], [pid |-> "get", id |-> 2]}

\* A packet of every protocol, and what may be left of one on a bad line.
Isb == <<255, 1, 254>>
Nmea == <<36, 1, 10>>
Ublox == <<181, 98, 1, 255, 7>>
Rtcm == <<211, 1, 36, 7>>
Whole == {Isb, Nmea, Ublox, Rtcm}
Damaged ==
    {SubSeq(p, 1, n) : p \in Whole, n \in 1..2} \cup {SubSeq(p, n, Len(p)) : p \in Whole, n \in 2..3}
        \cup {SubSeq(Ublox, 1, n) : n \in 3..4} \cup {SubSeq(Rtcm, 1, 3), <<181, 98, 6>>, <<211, 6>>, <<1>>}
Streams ==
    {<<a, b, c>> : a \in Damaged \cup Whole, b \in Whole, c \in Whole}
        \cup {<<a, b, c, Isb>> : a \in {Nmea, Ublox}, b \in Damaged, c \in Whole}
        \cup {<<a, b, Isb, Isb, Isb, Isb, c>> : a \in {Rtcm, Ublox}, b \in Damaged, c \in Whole}

\* Headers and bodies with the bytes that are escaped, in every lane.
Headers == {<<1, 2, 3>>, <<255, 10, 253>>, <<1, 36, 211>>}
Bodies == {<<>>, <<254>>, <<84>>, <<0, 85>>, <<84, 85, 163>>, <<255, 253>>, <<36, 10, 181>>, <<211, 170, 85, 87>>,
           <<0, 1, 169, 254, 253>>}

VARIABLES part,
          stream, wire, buf, head, scan, hasStart, parseState, delivered, idleAt,
          header, body, encoded, decoded

commVars == <<stream, wire, buf, head, scan, hasStart, parseState, delivered, idleAt>>
packetVars == <<header, body, encoded, decoded>>
vars == <<part, bvars, evars, commVars, packetVars, rvars>>

Comm == INSTANCE IsComm WITH Packets <- Whole

ASSUME SdkCommAssumption ==
    BroadcastAssumption /\ EnsuredAssumption /\ RingAssumption

NoEnsured == EInit /\ \A i \in Entries : ensured[i].counter = NoMore
NoComm ==
    /\ stream = <<>> /\ wire = <<>> /\ buf = <<>> /\ head = 0 /\ scan = 0
    /\ hasStart = Comm!None /\ parseState = -1 /\ delivered = <<>> /\ idleAt = {}
NoPacket ==
    /\ header = <<>> /\ body = <<>> /\ encoded = <<>> /\ decoded = Comm!Failure

Init ==
    /\ BInit /\ NoEnsured /\ RInit
    /\ \/ part \in {"bcast", "ensured", "ring"} /\ NoComm /\ NoPacket
       \/ part = "comm" /\ Comm!CInit /\ NoPacket
       \/ part = "packet" /\ NoComm /\ Comm!PInit

BcastStep ==
    part = "bcast" /\ BNext /\ UNCHANGED <<part, evars, commVars, packetVars, rvars>>
EnsuredStep ==
    part = "ensured" /\ ENext /\ UNCHANGED <<part, bvars, commVars, packetVars, rvars>>
CommStep ==
    part = "comm" /\ Comm!CNext /\ UNCHANGED <<part, bvars, evars, packetVars, rvars>>
PacketStep ==
    part = "packet" /\ Comm!PNext /\ UNCHANGED <<part, bvars, evars, commVars, rvars>>
RingStep ==
    part = "ring" /\ RNext /\ UNCHANGED <<part, bvars, evars, commVars, packetVars>>

Next == BcastStep \/ EnsuredStep \/ CommStep \/ PacketStep \/ RingStep

\* Only the part of a behaviour is run.
Fairness ==
    /\ WF_vars(part = "bcast" /\ StepTx(Drained)
                /\ UNCHANGED <<part, evars, commVars, packetVars, rvars>>)
    /\ EFairness
    /\ WF_vars(CommStep) /\ WF_vars(PacketStep)
Spec == Init /\ [][Next]_vars /\ Fairness

----------------------------------------------------------------------------
\* Subscribers are served and requests for data answered; every byte is
\* parsed, and a packet arrives as it was sent.
Served ==
    /\ part = "bcast" => SubscriberServed
    /\ part = "ensured" => GetAnswered
    /\ part = "comm" => Comm!Consumed
    /\ part = "packet" => Comm!PacketArrives

\* What is parsed was sent, and once each; a packet is handed on if no other is
\* parsed where it starts, and one behind it is in turn; after any damage ISB
\* packets of a buffer's length bring the parser back into step; and an encoded
\* packet is in no protocol's way.
BytesKept ==
    /\ part = "comm" => Comm!CTypeOK /\ Comm!InOrder /\ Comm!KeepsStep /\ Comm!Resynchronised
    /\ part = "packet" => Comm!Transparent
=============================================================================
