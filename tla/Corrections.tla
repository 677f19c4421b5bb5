----------------------------- MODULE Corrections -----------------------------
(***************************************************************************)
(* GNSS corrections from a base to rovers: the base's client is a TCP      *)
(* server (InertialSense.cpp, ISTcpServer.cpp) that forwards what its      *)
(* device sends, a rover's client reads it and forwards it to its devices. *)
(* A packet is Units units of bytes.  TCP is external: it takes as much of *)
(* what is written as it has room for and brings that in order.            *)
(***************************************************************************)
EXTENDS Integers, SequencesExt, FiniteSetTheorems, WellFoundedInduction, TLAPS

CONSTANTS Rovers,
          Output,          \* the kinds of the packets that the base's device sends
          MaxConnections,  \* bound on the connections of all rovers
          MaxBehind        \* bound, in units, on how far tail falls back

CorrectionsAssumption == MaxConnections \in Nat /\ MaxBehind \in Nat /\ Output \in Seq(STRING)

Units == 2

VARIABLES sent,        \* the number of packets that the base's device sent
          hosting,     \* m_tcpServer.IsOpen()
          clients,     \* m_clients, of connections
          current,     \* m_clientConnectionsCurrent
          backlog,     \* connections that are not accepted yet
          connections,
          peer,        \* m_clientStream: the rover's connection, or 0
          begun,       \* units of the packet that the rover's parser is in
          behind,      \* units by which buf.tail lies before buf.scan
          applied,     \* the packets that the rover's devices were sent
          abandoned    \* clients that Close left in the count

tvars == <<sent, hosting, clients, current, backlog, connections, peer, begun, behind,
           applied, abandoned>>

TInit ==
    /\ sent = 0 /\ hosting = TRUE /\ clients = <<>> /\ current = 0
    /\ backlog = <<>> /\ connections = <<>> /\ abandoned = 0
    /\ peer = [r \in Rovers |-> 0] /\ begun = [r \in Rovers |-> <<>>]
    /\ behind = [r \in Rovers |-> 0] /\ applied = [r \in Rovers |-> <<>>]

----------------------------------------------------------------------------
(* The base.                                                               *)

Packet(n) == [i \in 1..Units |-> [packet |-> n, at |-> i]]

Sum(counts) ==
    LET upTo[i \in 0..Len(counts)] == IF i = 0 THEN 0 ELSE upTo[i - 1] + counts[i]
    IN  upTo[Len(counts)]

\* ISSocketWrite: every send starts with the first unit of data, and the last
\* one is the one that completes the count, found no room, or failed.
ISSocketWrite(data) ==
    LET Sends == {s \in UNION {[1..m -> 1..Len(data)] : m \in 0..Len(data)} :
                     s # <<>> => Sum(Front(s)) < Len(data)}
    IN  {[count |-> Sum(s), data |-> FlattenSeq([i \in 1..Len(s) |-> SubSeq(data, 1, s[i])])] :
            s \in Sends}

\* cISTcpServer::Write to one client, which is dropped where nothing is written.
WriteTo(data) ==
    UNION {IF first.count \in 1..(Units - 1)
           THEN {[data |-> first.data \o second.data, kept |-> second.count > 0] :
                    second \in ISSocketWrite(SubSeq(data, first.count + 1, Units))}
           ELSE {[data |-> first.data, kept |-> first.count > 0]} :
              first \in ISSocketWrite(data)}

\* What is left of a list when only these of its elements stay.
Selected(list, stay) ==
    LET upTo[i \in 0..Len(list)] ==
            IF i = 0 THEN <<>>
            ELSE IF list[i] \in stay THEN Append(upTo[i - 1], list[i]) ELSE upTo[i - 1]
    IN  upTo[Len(list)]

\* Mutant of Forwarded: whatever passes its checks is forwarded.
ForwardedAll(kind) == kind # "none"

\* UpdateServer and UpdateClient pass these on.
Forwarded(kind) == kind \in {"rtcm3", "ublox"}

\* Mutant of Visited: the loop goes on behind the client after one removed.
VisitedAfter(removed) == {i \in 1..Len(clients) : i - 1 \notin removed}

\* The clients that the loop of Write comes to: the index steps back where it
\* removes one.
Visited(removed) == 1..Len(clients)

\* Write of packet n, where written[i] is what happens to client i: what
\* becomes of the connections, and the clients that remain.
Write(n, written) ==
    LET visited == Visited({i \in DOMAIN written : ~written[i].kept})
        Grown(k) ==
            LET w == written[CHOOSE i \in visited : clients[i] = k]
            IN  [connections[k] EXCEPT !.wire = @ \o w.data,
                                       !.cut = IF w.data = Packet(n) THEN @ ELSE @ \cup {n}]
    IN  [connections |->
            [k \in 1..Len(connections) |->
                IF k \notin ToSet(clients) \/ ~connections[k].here THEN connections[k]
                ELSE [IF \E i \in visited : clients[i] = k THEN Grown(k) ELSE connections[k]
                         EXCEPT !.owed = @ \cup {n}]],
         clients |->
            Selected(clients, {k \in ToSet(clients) :
                                  \A i \in visited : clients[i] = k => written[i].kept})]

\* cISTcpServer::Update: who is waiting is accepted; a client whose connection
\* was reset, and a read tells that, is removed.
Update(s, reset) ==
    /\ clients' = Selected(s \o backlog, ToSet(s \o backlog) \ reset)
    /\ current' = current - (Len(clients) - Len(s)) + Len(backlog)
                     - Cardinality(reset)
    /\ backlog' = <<>>

Resettable(s) == {k \in ToSet(s \o backlog) : ~connections[k].here}

\* UpdateServer, of a packet of the device or of none.
UpdateServer ==
    /\ hosting
    /\ \/ \E reset \in SUBSET Resettable(clients) : Update(clients, reset)
          /\ UNCHANGED <<sent, connections>>
       \/ /\ sent < Len(Output) /\ sent' = sent + 1
          /\ \E written \in [1..Len(clients) -> WriteTo(Packet(sent'))] :
                LET w == IF Forwarded(Output[sent']) THEN Write(sent', written)
                         ELSE [connections |-> connections, clients |-> clients]
                IN  /\ connections' = w.connections
                    /\ \E reset \in SUBSET Resettable(w.clients) : Update(w.clients, reset)
    /\ UNCHANGED <<hosting, peer, begun, behind, applied, abandoned>>

\* CreateHost closes the server it has, and with it all clients, which stay
\* in the count, and opens another or fails to.
CreateHost(opens) ==
    /\ hosting' = opens /\ clients' = <<>> /\ backlog' = <<>>
    /\ abandoned' = abandoned + Len(clients)
    /\ UNCHANGED <<sent, current, connections, peer, begun, behind, applied>>

----------------------------------------------------------------------------
(* A rover.                                                                *)

\* The connection is closed; what is still on its way is of no interest.
Closed == [here |-> FALSE, wire |-> <<>>, owed |-> {}, cut |-> {}, whole |-> TRUE]
Hang(r) == IF peer[r] = 0 THEN connections ELSE [connections EXCEPT ![peer[r]] = Closed]

\* OpenConnectionToServer closes the connection there is; Open returns before
\* the other end has answered, and so succeeds where no server listens.
OpenConnectionToServer(r) ==
    /\ Len(connections) < MaxConnections
    /\ connections' = Append(Hang(r), [here |-> TRUE, wire |-> <<>>, owed |-> {}, cut |-> {},
                                       whole |-> begun[r] = <<>> /\ behind[r] = 0])
    /\ peer' = [peer EXCEPT ![r] = Len(connections')]
    /\ backlog' = IF hosting THEN Append(backlog, Len(connections')) ELSE backlog
    /\ UNCHANGED <<sent, hosting, clients, current, begun, behind, applied, abandoned>>

CloseServerConnection(r) ==
    /\ peer[r] # 0
    /\ connections' = Hang(r) /\ peer' = [peer EXCEPT ![r] = 0]
    /\ UNCHANGED <<sent, hosting, clients, current, backlog, begun, behind, applied, abandoned>>

\* The parser: a packet is as long as its start says; one that fails its
\* checks is dropped with all its bytes, and stray bytes are skipped.  Units
\* that fill the gap behind tail are not looked at.
ParseUnit(s, unit) ==
    LET p == Append(s.begun, unit)
    IN  IF s.behind > 0 THEN [s EXCEPT !.behind = @ - 1]
        ELSE IF s.begun = <<>> /\ unit.at # 1 THEN s
        ELSE IF Len(p) < Units THEN [s EXCEPT !.begun = p]
        ELSE [s EXCEPT !.begun = <<>>,
                       !.applied = IF p = Packet(unit.packet) THEN Append(@, unit.packet) ELSE @]

Parsed(s, units) ==
    LET after[i \in 0..Len(units)] == IF i = 0 THEN s ELSE ParseUnit(after[i - 1], units[i])
    IN  after[Len(units)]

\* UpdateClient reads some of what there is.
UpdateClient(r) ==
    /\ peer[r] # 0
    /\ \E n \in 1..Len(connections[peer[r]].wire) :
       LET wire == connections[peer[r]].wire
           s == Parsed([begun |-> begun[r], behind |-> behind[r], applied |-> applied[r]],
                       SubSeq(wire, 1, n))
       IN  /\ begun' = [begun EXCEPT ![r] = s.begun]
           /\ behind' = [behind EXCEPT ![r] = s.behind]
           /\ applied' = [applied EXCEPT ![r] = s.applied]
           /\ connections' = [connections EXCEPT ![peer[r]].wire = SubSeq(wire, n + 1, Len(wire))]
    /\ UNCHANGED <<sent, hosting, clients, current, backlog, peer, abandoned>>

\* Reads of a connection that was reset return -1, which is added to tail as
\* if it were a count, again and again.
UpdateClientFails(r) ==
    /\ peer[r] # 0 /\ peer[r] \notin ToSet(clients \o backlog)
    /\ \E n \in behind[r]..MaxBehind : behind' = [behind EXCEPT ![r] = n]
    /\ connections' = Hang(r) /\ peer' = [peer EXCEPT ![r] = 0]
    /\ UNCHANGED <<sent, hosting, clients, current, backlog, begun, applied, abandoned>>

TNext ==
    \/ UpdateServer
    \/ \E opens \in BOOLEAN : CreateHost(opens)
    \/ \E r \in Rovers :
          \/ OpenConnectionToServer(r) \/ CloseServerConnection(r)
          \/ UpdateClient(r) \/ UpdateClientFails(r)

TSpec == TInit /\ [][TNext]_tvars

----------------------------------------------------------------------------
\* A rover's devices get packets of the base's device, corrections only, in
\* order and once, over all its connections, whatever becomes of writes.
AppliedInOrder ==
    \A r \in Rovers :
        /\ \A i \in 1..Len(applied[r]) :
              applied[r][i] \in 1..sent /\ Output[applied[r][i]] \in {"rtcm3", "ublox"}
        /\ \A i, j \in 1..Len(applied[r]) : i < j => applied[r][i] < applied[r][j]

\* Of what the base forwards while a rover is its client nothing is missing
\* but what a short write cut: it was applied or is on its way.  Besides, where
\* the rover's parser did not start afresh the first packet is, and more of the
\* first ones if tail is behind by more than one.
OnItsWay(r) == {u.packet : u \in ToSet(begun[r] \o connections[peer[r]].wire)}
NothingMissing ==
    \A r \in Rovers : peer[r] # 0 =>
        LET c == connections[peer[r]]
        IN  \A n \in c.owed \ c.cut :
               \/ n \in ToSet(applied[r]) \cup OnItsWay(r)
               \/ ~c.whole /\ Cardinality({m \in c.owed \ c.cut : m < n}) <= MaxBehind \div Units

\* The clients are connections of their own, and as many as are counted
\* besides those that a server was closed on.
ClientsCounted ==
    /\ current = Len(clients) + abandoned
    /\ \A i, j \in 1..Len(clients) : clients[i] = clients[j] => i = j

\* A base serves every rover that is connected to it, and to the rovers'
\* devices its corrections come once and in order, and none is missing.
CorrectionsArrive == AppliedInOrder /\ NothingMissing /\ ClientsCounted

----------------------------------------------------------------------------
(* Theorems.                                                               *)

Unit == [packet : 1..Len(Output), at : 1..Units]
Connection == [here : BOOLEAN, wire : Seq(Unit), owed : SUBSET (1..Len(Output)),
               cut : SUBSET (1..Len(Output)), whole : BOOLEAN]

CTypes ==
    /\ sent \in 0..Len(Output) /\ hosting \in BOOLEAN /\ current \in Int /\ abandoned \in Nat
    /\ connections \in Seq(Connection)
    /\ clients \in Seq(1..Len(connections)) /\ backlog \in Seq(1..Len(connections))
    /\ peer \in [Rovers -> 0..Len(connections)]
    /\ begun \in [Rovers -> Seq(Unit)] /\ behind \in [Rovers -> 0..MaxBehind]
    /\ applied \in [Rovers -> Seq(1..Len(Output))]

Distinct(list) == \A i, j \in 1..Len(list) : list[i] = list[j] => i = j

\* Every client and everyone who waits is another connection, and so is the
\* peer of every rover, which is there.
Apart ==
    /\ Distinct(clients \o backlog)
    /\ \A r \in Rovers : peer[r] # 0 =>
          /\ connections[peer[r]].here
          /\ \A q \in Rovers : peer[q] = peer[r] => q = r

Parser(r) == [begun |-> begun[r], behind |-> behind[r], applied |-> applied[r]]

\* Behind unit m of c, with top packets sent: units are those of corrections in
\* order, and behind the last of a packet and what was applied come later ones.
InOrder(s, c, m, top) ==
    /\ s.begun = <<>> \/ (Len(s.begun) = 1 /\ s.begun[1].at = 1)
    /\ \A i \in 1..Len(s.applied) : s.applied[i] <= top /\ Forwarded(Output[s.applied[i]])
    /\ \A i, j \in 1..Len(s.applied) : i < j => s.applied[i] < s.applied[j]
    /\ \A i \in (m + 1)..Len(c.wire) :
          /\ c.wire[i].packet <= top /\ Forwarded(Output[c.wire[i].packet])
          /\ \A a \in 1..Len(s.applied) : s.applied[a] < c.wire[i].packet
          /\ \A j \in (i + 1)..Len(c.wire) :
                /\ c.wire[i].packet <= c.wire[j].packet
                /\ c.wire[i].at = 2 => c.wire[i].packet < c.wire[j].packet
    /\ \A n \in c.owed : n <= top

\* The wire of c is of blocks of two units, which begin at S: a packet, or two
\* first units of one that was cut; a unit between them is of one that was
\* cut, too.  Only where nothing follows may a first unit be alone.
Blocks(c, ended, S) ==
    /\ S \subseteq 1..Len(c.wire)
    /\ \A i \in S :
          /\ c.wire[i].at = 1 /\ i + 1 \notin S
          /\ i = Len(c.wire) => ended /\ c.wire[i].packet \in c.cut
          /\ i < Len(c.wire) => c.wire[i + 1].packet = c.wire[i].packet
          /\ i < Len(c.wire) /\ c.wire[i].packet \notin c.cut => c.wire[i + 1].at = 2
    /\ \A i \in 2..Len(c.wire) :
          i \notin S /\ i - 1 \notin S => c.wire[i].at = 2 /\ c.wire[i].packet \in c.cut

\* The parser is between two blocks, in one, or has not found one yet.
Between(s, c, m, S) ==
    /\ s.begun = <<>> /\ s.behind = 0
    /\ m < Len(c.wire) /\ m + 1 \notin S => c.wire[m + 1].at = 2
Within(s, c, m, ended, S) ==
    /\ s.begun # <<>> /\ s.behind = 0 /\ m + 1 \notin S
    /\ m = Len(c.wire) => ended /\ s.begun[1].packet \in c.cut
    /\ s.begun[1].packet \notin c.cut =>
          c.wire[m + 1] = [packet |-> s.begun[1].packet, at |-> 2]
HalfLost(c, m, S) == m < Len(c.wire) /\ m + 1 \notin S /\ c.wire[m + 1].packet \notin c.cut
Astray(s, c, m, S, G) ==
    /\ ~c.whole
    /\ 2 * Cardinality(G) <= MaxBehind - s.behind + (IF HalfLost(c, m, S) THEN 1 ELSE 0)
    /\ HalfLost(c, m, S) => c.wire[m + 1].at = 2

\* What of the owed packets is to come behind unit m, and what came: G, the
\* first ones, got lost before a block was found.
Coming(c, m, S) == {c.wire[i].packet : i \in {k \in S : k > m}}
Found(s, c, m, ended, S, G) ==
    /\ G \in SUBSET (1..Len(Output))
    /\ c.whole => G = {}
    /\ \A g \in G, n \in c.owed \ c.cut : n < g => n \in G
    /\ Cardinality(G) <= MaxBehind \div Units + 1
    /\ \/ Astray(s, c, m, S, G) /\ c.owed \ c.cut \subseteq G \cup Coming(c, m, S)
       \/ /\ Between(s, c, m, S)
          /\ c.owed \ c.cut \subseteq G \cup Coming(c, m, S) \cup ToSet(s.applied)
       \/ /\ Within(s, c, m, ended, S)
          /\ c.owed \ c.cut \subseteq G \cup Coming(c, m, S) \cup ToSet(s.applied)
                                    \cup {s.begun[1].packet}

Ended(k) == k \notin ToSet(clients) \cup ToSet(backlog)
Fits(s, c, top, ended) ==
    /\ InOrder(s, c, 0, top)
    /\ \E S \in SUBSET (1..Len(c.wire)), G \in SUBSET (1..Len(Output)) :
          Blocks(c, ended, S) /\ Found(s, c, 0, ended, S, G)
Follows(r) == Fits(Parser(r), connections[peer[r]], sent, Ended(peer[r]))
\* Without a connection there is what was applied.
Applied(r) ==
    /\ begun[r] = <<>> \/ (Len(begun[r]) = 1 /\ begun[r][1].at = 1)
    /\ \A i \in 1..Len(applied[r]) : applied[r][i] <= sent /\ Forwarded(Output[applied[r][i]])
    /\ \A i, j \in 1..Len(applied[r]) : i < j => applied[r][i] < applied[r][j]

CorrectionsInv ==
    /\ CTypes /\ Apart /\ current = Len(clients) + abandoned
    /\ \A r \in Rovers : Applied(r) /\ (peer[r] # 0 => Follows(r))

----------------------------------------------------------------------------
\* A unit read.

Reads == [begun : Seq(Unit), behind : 0..MaxBehind, applied : Seq(1..Len(Output))]

LEMMA PacketIs ==
    ASSUME NEW n \in 1..Len(Output)
    PROVE  /\ Packet(n) = <<[packet |-> n, at |-> 1], [packet |-> n, at |-> 2]>>
           /\ Packet(n) \in Seq(Unit)
<1>1. Packet(n) = <<[packet |-> n, at |-> 1], [packet |-> n, at |-> 2]>>
  BY DEF Packet, Units
<1>2. [packet |-> n, at |-> 1] \in Unit /\ [packet |-> n, at |-> 2] \in Unit
  BY DEF Unit, Units
<1> QED BY <1>1, <1>2

LEMMA TwoUnits == ASSUME NEW a \in Unit, NEW b \in Unit PROVE Append(<<a>>, b) = <<a, b>> /\ Len(<<a, b>>) = 2
<1> DEFINE q == Append(<<a>>, b)
<1>1. <<a>> \in Seq(Unit) /\ Len(<<a>>) = 1 /\ <<a>>[1] = a
  OBVIOUS
<1>2. q \in Seq(Unit) /\ Len(q) = 2 /\ q[1] = a /\ q[2] = b
  BY <1>1
<1> HIDE DEF q
<1>3. q = <<a, b>>
  BY <1>2
<1> QED BY <1>2, <1>3 DEF q

LEMMA UnitOf ==
    ASSUME NEW c \in Connection, NEW i \in 1..Len(c.wire)
    PROVE  /\ c.wire[i] \in Unit /\ c.wire[i].packet \in 1..Len(Output) /\ c.wire[i].packet \in Nat
           /\ c.wire[i].at \in {1, 2}
           /\ c.wire[i] = [packet |-> c.wire[i].packet, at |-> c.wire[i].at]
<1>1. c.wire \in Seq(Unit)
  BY DEF Connection
<1>2. c.wire[i] \in Unit
  BY <1>1
<1> QED BY <1>2 DEF Unit, Units

\* What becomes of the parser with a unit: it skips it, begins with it, or
\* completes what may be a packet.
LEMMA ParseIs ==
    ASSUME CorrectionsAssumption, NEW s \in Reads, NEW u \in Unit,
           s.begun = <<>> \/ Len(s.begun) = 1
    PROVE  LET t == ParseUnit(s, u)
           IN  /\ t \in Reads
               /\ \/ s.behind > 0 /\ t.behind = s.behind - 1 /\ t.begun = s.begun
                     /\ t.applied = s.applied
                  \/ s.behind = 0 /\ s.begun = <<>> /\ u.at = 2 /\ t = s
                  \/ s.behind = 0 /\ s.begun = <<>> /\ u.at = 1 /\ t.begun = <<u>>
                     /\ t.behind = 0 /\ t.applied = s.applied
                  \/ /\ s.behind = 0 /\ s.begun # <<>> /\ t.begun = <<>> /\ t.behind = 0
                     /\ t.applied = IF /\ u.at = 2 /\ s.begun[1].packet = u.packet
                                       /\ s.begun[1].at = 1
                                    THEN Append(s.applied, u.packet) ELSE s.applied
<1> DEFINE t == ParseUnit(s, u)
           p == Append(s.begun, u)
<1>1. /\ s.begun \in Seq(Unit) /\ s.behind \in Nat /\ s.behind <= MaxBehind /\ MaxBehind \in Nat
      /\ s.applied \in Seq(1..Len(Output)) /\ u.packet \in 1..Len(Output) /\ u.at \in {1, 2}
      /\ s = [begun |-> s.begun, behind |-> s.behind, applied |-> s.applied]
  BY DEF Reads, Unit, Units, CorrectionsAssumption
<1>2. CASE s.behind > 0
  <2>1. t = [s EXCEPT !.behind = @ - 1]
    BY <1>2 DEF ParseUnit
  <2>2. s.behind - 1 \in 0..MaxBehind
    BY <1>1, <1>2
  <2>3. t \in Reads /\ t.behind = s.behind - 1 /\ t.begun = s.begun /\ t.applied = s.applied
    BY <1>1, <2>1, <2>2 DEF Reads
  <2> QED BY <1>2, <2>3
<1>3. CASE s.behind = 0 /\ s.begun = <<>> /\ u.at = 2
  <2>1. t = s
    BY <1>3 DEF ParseUnit
  <2> QED BY <1>3, <2>1
<1>4. CASE s.behind = 0 /\ s.begun = <<>> /\ u.at = 1
  <2>1. p = <<u>> /\ Len(p) = 1
    BY <1>4
  <2>2. t = [s EXCEPT !.begun = <<u>>]
    BY <1>4, <2>1 DEF ParseUnit, Units
  <2>3. <<u>> \in Seq(Unit)
    OBVIOUS
  <2>4. t \in Reads /\ t.behind = 0 /\ t.begun = <<u>> /\ t.applied = s.applied
    BY <1>1, <1>4, <2>2, <2>3 DEF Reads
  <2> QED BY <1>4, <2>4
<1>5. CASE s.behind = 0 /\ s.begun # <<>>
  <2>1. Len(s.begun) = 1 /\ s.begun[1] \in Unit /\ s.begun = <<s.begun[1]>>
    BY <1>1, <1>5
  <2>2. p = <<s.begun[1], u>> /\ Len(p) = 2
    BY <2>1, TwoUnits
  <2>3. t = [s EXCEPT !.begun = <<>>,
                      !.applied = IF p = Packet(u.packet) THEN Append(@, u.packet) ELSE @]
    BY <1>5, <2>2 DEF ParseUnit, Units
  <2>4. p = Packet(u.packet) <=>
          u.at = 2 /\ s.begun[1].packet = u.packet /\ s.begun[1].at = 1
    <3>1. Packet(u.packet) = <<[packet |-> u.packet, at |-> 1], [packet |-> u.packet, at |-> 2]>>
      BY <1>1, PacketIs
    <3>2. u = [packet |-> u.packet, at |-> u.at]
          /\ s.begun[1] = [packet |-> s.begun[1].packet, at |-> s.begun[1].at]
      BY <2>1 DEF Unit
    <3> QED BY <2>2, <3>1, <3>2
  <2>5. t.begun = <<>> /\ t.behind = 0
        /\ t.applied = IF p = Packet(u.packet) THEN Append(s.applied, u.packet) ELSE s.applied
    BY <1>1, <1>5, <2>3
  <2>6. t = [begun |-> t.begun, behind |-> t.behind, applied |-> t.applied]
    BY <1>1, <2>3
  <2>7. t.applied \in Seq(1..Len(Output)) /\ t.begun \in Seq(Unit) /\ t.behind \in 0..MaxBehind
    <3>1. Append(s.applied, u.packet) \in Seq(1..Len(Output)) /\ <<>> \in Seq(Unit)
      BY <1>1
    <3>2. 0 \in 0..MaxBehind
      BY <1>1
    <3> QED BY <1>1, <2>5, <3>1, <3>2
  <2>8. t \in Reads
    BY <2>6, <2>7 DEF Reads
  <2> QED BY <1>5, <2>4, <2>5, <2>8
<1> QED BY <1>1, <1>2, <1>3, <1>4, <1>5

LEMMA OrderKept ==
    ASSUME CorrectionsAssumption, NEW s \in Reads, NEW c \in Connection, NEW m \in Nat, NEW top \in Nat,
           m < Len(c.wire), InOrder(s, c, m, top)
    PROVE  InOrder(ParseUnit(s, c.wire[m + 1]), c, m + 1, top)
<1> DEFINE u == c.wire[m + 1]
           t == ParseUnit(s, u)
<1>1. /\ c.wire \in Seq(Unit) /\ Len(c.wire) \in Nat /\ m + 1 \in (m + 1)..Len(c.wire) /\ u \in Unit
      /\ u.at \in {1, 2} /\ u.packet \in Nat
  <2>1. c.wire \in Seq(Unit)
    BY DEF Connection
  <2>2. Len(c.wire) \in Nat /\ m + 1 \in (m + 1)..Len(c.wire) /\ m + 1 \in 1..Len(c.wire)
    BY <2>1
  <2> QED BY <2>1, <2>2, UnitOf
<1>2. s.begun = <<>> \/ Len(s.begun) = 1
  BY DEF InOrder
<1>3. t \in Reads
  BY <1>1, <1>2, ParseIs
<1>4. t.begun = <<>> \/ (Len(t.begun) = 1 /\ t.begun[1].at = 1)
  <2>1. s.begun = <<>> \/ (Len(s.begun) = 1 /\ s.begun[1].at = 1)
    BY DEF InOrder
  <2>2. t.begun = s.begun \/ t.begun = <<>> \/ (u.at = 1 /\ t.begun = <<u>>)
    BY <1>1, <1>2, ParseIs
  <2>3. Len(<<u>>) = 1 /\ <<u>>[1] = u
    OBVIOUS
  <2> QED BY <2>1, <2>2, <2>3
<1>5. t.applied = s.applied \/ (t.applied = Append(s.applied, u.packet) /\ u.at = 2)
  BY <1>1, <1>2, ParseIs
<1> HIDE DEF t
<1> DEFINE L == Len(s.applied)
<1>6. /\ s.applied \in Seq(1..Len(Output)) /\ t.applied \in Seq(1..Len(Output)) /\ L \in Nat
      /\ \A i \in 1..L : s.applied[i] \in Nat
  BY <1>3 DEF Reads
<1>7. \A i \in (m + 2)..Len(c.wire) : i \in (m + 1)..Len(c.wire) /\ c.wire[i].packet \in Nat
  <2>1. \A i \in (m + 2)..Len(c.wire) : i \in (m + 1)..Len(c.wire) /\ i \in 1..Len(c.wire)
    BY <1>1
  <2> QED BY <2>1, UnitOf
<1>8. /\ u.packet <= top /\ Forwarded(Output[u.packet])
      /\ \A a \in 1..L : s.applied[a] < u.packet
      /\ \A j \in (m + 2)..Len(c.wire) : u.at = 2 => u.packet < c.wire[j].packet
  <2>1. (m + 1) + 1 = m + 2
    OBVIOUS
  <2> QED BY <1>1, <2>1 DEF InOrder
<1>9. \A i \in 1..Len(t.applied) :
         \/ i \in 1..L /\ t.applied[i] = s.applied[i]
         \/ i = L + 1 /\ t.applied[i] = u.packet /\ u.at = 2
  <2>1. CASE t.applied = s.applied
    BY <2>1
  <2>2. CASE t.applied = Append(s.applied, u.packet) /\ u.at = 2
    BY <1>1, <1>6, <2>2
  <2> QED BY <1>5, <2>1, <2>2
<1>10. \A i \in 1..Len(t.applied) : t.applied[i] <= top /\ Forwarded(Output[t.applied[i]])
  BY <1>8, <1>9 DEF InOrder
<1>11. \A i, j \in 1..Len(t.applied) : i < j => t.applied[i] < t.applied[j]
  <2> SUFFICES ASSUME NEW i \in 1..Len(t.applied), NEW j \in 1..Len(t.applied), i < j
               PROVE  t.applied[i] < t.applied[j]
    OBVIOUS
  <2>1. i \in 1..L /\ t.applied[i] = s.applied[i]
    <3>1. i # L + 1
      <4>1. j <= L + 1
        <5>1. j \in 1..L \/ j = L + 1
          BY <1>9
        <5> QED BY <1>6, <5>1
      <4> QED BY <1>6, <4>1
    <3> QED BY <1>9, <3>1
  <2>2. CASE j \in 1..L /\ t.applied[j] = s.applied[j]
    BY <2>1, <2>2 DEF InOrder
  <2>3. CASE t.applied[j] = u.packet
    BY <1>8, <2>1, <2>3
  <2> QED BY <1>9, <2>2, <2>3
<1>12. \A i \in (m + 2)..Len(c.wire), a \in 1..Len(t.applied) : t.applied[a] < c.wire[i].packet
  BY <1>7, <1>8, <1>9 DEF InOrder
<1>13. \A i \in (m + 2)..Len(c.wire) :
          /\ c.wire[i].packet <= top /\ Forwarded(Output[c.wire[i].packet])
          /\ \A j \in (i + 1)..Len(c.wire) :
                /\ c.wire[i].packet <= c.wire[j].packet
                /\ c.wire[i].at = 2 => c.wire[i].packet < c.wire[j].packet
  BY <1>7 DEF InOrder
<1>14. (m + 1) + 1 = m + 2 /\ \A n \in c.owed : n <= top
  BY DEF InOrder
<1>15. InOrder(t, c, m + 1, top)
  BY <1>4, <1>10, <1>11, <1>12, <1>13, <1>14 DEF InOrder
<1> QED BY <1>15 DEF t

\* A block is followed by another one or by a unit of a packet that was cut.
LEMMA NextUnit ==
    ASSUME NEW c \in Connection, NEW m \in Nat, m < Len(c.wire), NEW k, k = m + 1, NEW e \in BOOLEAN, NEW S,
           Blocks(c, e, S)
    PROVE  LET u == c.wire[k]
           IN  /\ k \in 1..Len(c.wire) /\ u \in Unit /\ Len(c.wire) \in Nat
               /\ k \notin S => Coming(c, m, S) \subseteq Coming(c, k, S)
               /\ Coming(c, m, S) \subseteq Coming(c, k, S) \cup {u.packet}
               /\ k \in S => u.at = 1 /\ k + 1 \notin S
               /\ k \in S /\ k = Len(c.wire) => e /\ u.packet \in c.cut
               /\ k \in S /\ k < Len(c.wire) => c.wire[k + 1].packet = u.packet
               /\ k \in S /\ u.packet \notin c.cut =>
                     k < Len(c.wire) /\ c.wire[k + 1] = [packet |-> u.packet, at |-> 2]
               /\ k \notin S /\ k < Len(c.wire) /\ k + 1 \notin S =>
                     c.wire[k + 1].at = 2 /\ c.wire[k + 1].packet \in c.cut
<1>1. k \in 1..Len(c.wire) /\ Len(c.wire) \in Nat /\ k \in Nat
  BY DEF Connection
<1>2. c.wire[k] \in Unit
  BY <1>1, UnitOf
<1>3. \A j \in S : j \in Nat /\ (j > m => j = k \/ j > k)
  BY <1>1 DEF Blocks
<1>4. k \notin S => Coming(c, m, S) \subseteq Coming(c, k, S)
  BY <1>3 DEF Coming
<1>5. Coming(c, m, S) \subseteq Coming(c, k, S) \cup {c.wire[k].packet}
  BY <1>3 DEF Coming
<1>6. /\ k \in S => c.wire[k].at = 1 /\ k + 1 \notin S
      /\ k \in S /\ k = Len(c.wire) => e /\ c.wire[k].packet \in c.cut
      /\ k \in S /\ k < Len(c.wire) => c.wire[k + 1].packet = c.wire[k].packet
  BY DEF Blocks
<1>7. ASSUME k \in S, c.wire[k].packet \notin c.cut
      PROVE  k < Len(c.wire) /\ c.wire[k + 1] = [packet |-> c.wire[k].packet, at |-> 2]
  <2>1. k < Len(c.wire)
    BY <1>1, <1>6, <1>7
  <2>2. k + 1 \in 1..Len(c.wire)
    BY <1>1, <2>1
  <2>3. c.wire[k + 1].packet = c.wire[k].packet /\ c.wire[k + 1].at = 2
    BY <1>7, <2>1 DEF Blocks
  <2> QED BY <2>1, <2>2, <2>3, UnitOf
<1>8. ASSUME k \notin S, k < Len(c.wire), k + 1 \notin S
      PROVE  c.wire[k + 1].at = 2 /\ c.wire[k + 1].packet \in c.cut
  <2>1. k + 1 \in 2..Len(c.wire) /\ (k + 1) - 1 = k
    BY <1>1, <1>8
  <2> QED BY <1>8, <2>1 DEF Blocks
<1> QED BY <1>1, <1>2, <1>4, <1>5, <1>6, <1>7, <1>8

\* The first packets are lost, up to the block that comes.
FirstLost(c, m, S, G) ==
    /\ G \in SUBSET (1..Len(Output))
    /\ \A g \in G, n \in c.owed \ c.cut : n < g => n \in G
    /\ c.owed \ c.cut \subseteq G \cup Coming(c, m, S)

\* One more packet is lost, which is the next.
LEMMA LostOne ==
    ASSUME CorrectionsAssumption, NEW s, NEW c \in Connection, NEW m \in Nat, NEW top,
           m < Len(c.wire), NEW k, k = m + 1, NEW e \in BOOLEAN, NEW S, NEW G,
           InOrder(s, c, m, top), Blocks(c, e, S), k \in S, FirstLost(c, m, S, G)
    PROVE  LET H == G \cup {c.wire[k].packet}
           IN  /\ Cardinality(H) \in Nat /\ Cardinality(G) \in Nat
               /\ Cardinality(H) <= Cardinality(G) + 1
               /\ FirstLost(c, k, S, H)
<1> DEFINE p == c.wire[k].packet
           H == G \cup {p}
<1>1. k \in 1..Len(c.wire) /\ p \in 1..Len(Output) /\ Len(c.wire) \in Nat
      /\ Coming(c, m, S) \subseteq Coming(c, k, S) \cup {p}
  <2>1. k \in 1..Len(c.wire) /\ Len(c.wire) \in Nat
    BY DEF Connection
  <2>2. p \in 1..Len(Output)
    BY <2>1, UnitOf
  <2>3. \A j \in S : j \in Nat /\ (j > m => j = k \/ j > k)
    BY <2>1 DEF Blocks
  <2>4. Coming(c, m, S) \subseteq Coming(c, k, S) \cup {c.wire[k].packet}
    BY <2>3 DEF Coming
  <2> QED BY <2>1, <2>2, <2>4
<1>2. IsFiniteSet(G)
  <2>1. Len(Output) \in Int /\ 1 \in Int
    BY DEF CorrectionsAssumption
  <2>2. IsFiniteSet(1..Len(Output))
    BY <2>1, FS_Interval
  <2> QED BY <2>2, FS_Subset DEF FirstLost
<1>3. Cardinality(H) \in Nat /\ Cardinality(G) \in Nat /\ Cardinality(H) <= Cardinality(G) + 1
  <2>1. /\ IsFiniteSet(G \cup {p})
        /\ Cardinality(G \cup {p}) = IF p \in G THEN Cardinality(G) ELSE Cardinality(G) + 1
    BY <1>2, FS_AddElement
  <2>2. Cardinality(H) \in Nat /\ Cardinality(G) \in Nat
    BY <1>2, <2>1, FS_CardinalityType
  <2> HIDE DEF p
  <2> QED BY <2>1, <2>2
<1>4. \A n \in Coming(c, m, S) : n >= p
  <2> SUFFICES ASSUME NEW i \in S, i > m PROVE c.wire[i].packet >= p
    BY DEF Coming
  <2>1. i \in 1..Len(c.wire) /\ (i = k \/ i \in (k + 1)..Len(c.wire)) /\ k \in (m + 1)..Len(c.wire)
    BY <1>1 DEF Blocks
  <2>2. c.wire[i].packet \in Nat /\ p \in Nat
    BY <1>1, <2>1, UnitOf
  <2>3. CASE i = k
    BY <2>2, <2>3
  <2>4. CASE i \in (k + 1)..Len(c.wire)
    <3>1. p <= c.wire[i].packet
      BY <2>1, <2>4 DEF InOrder
    <3> QED BY <2>2, <3>1
  <2> QED BY <2>1, <2>3, <2>4
<1>5. ASSUME NEW g \in H, NEW n \in c.owed \ c.cut, n < g PROVE n \in H
  <2>1. CASE g \in G
    BY <1>5, <2>1 DEF FirstLost
  <2>2. CASE g = p
    <3>1. n \in Nat /\ p \in Nat
      BY <1>1 DEF Connection
    <3>2. n \notin Coming(c, m, S)
      BY <1>4, <1>5, <2>2, <3>1
    <3> QED BY <3>2 DEF FirstLost
  <2> QED BY <2>1, <2>2
<1>6. H \in SUBSET (1..Len(Output)) /\ c.owed \ c.cut \subseteq H \cup Coming(c, k, S)
  BY <1>1 DEF FirstLost
<1> QED BY <1>3, <1>5, <1>6 DEF FirstLost

LEMMA AstrayKept ==
    ASSUME CorrectionsAssumption, NEW s \in Reads, NEW c \in Connection, NEW m \in Nat, NEW top,
           m < Len(c.wire), NEW k, k = m + 1, NEW e \in BOOLEAN, NEW S, NEW G,
           InOrder(s, c, m, top), Blocks(c, e, S), Found(s, c, m, e, S, G),
           Astray(s, c, m, S, G), c.owed \ c.cut \subseteq G \cup Coming(c, m, S)
    PROVE  \E H : Found(ParseUnit(s, c.wire[k]), c, k, e, S, H)
<1> DEFINE u == c.wire[k]
           p == u.packet
           t == ParseUnit(s, u)
           N == c.owed \ c.cut
<1>1. /\ k \in Nat /\ k \in 1..Len(c.wire) /\ u \in Unit /\ Len(c.wire) \in Nat /\ u.at \in {1, 2}
      /\ s.begun = <<>> \/ Len(s.begun) = 1
      /\ s.behind \in Nat /\ s.behind <= MaxBehind /\ MaxBehind \in Nat
  <2>1. k \in Nat /\ k \in 1..Len(c.wire) /\ Len(c.wire) \in Nat
    BY DEF Connection
  <2>2. u \in Unit /\ u.at \in {1, 2}
    BY <2>1, UnitOf
  <2>3. s.begun = <<>> \/ Len(s.begun) = 1
    BY DEF InOrder
  <2>4. s.behind \in Nat /\ s.behind <= MaxBehind /\ MaxBehind \in Nat
    BY DEF Reads, CorrectionsAssumption
  <2> QED BY <2>1, <2>2, <2>3, <2>4
<1>2. /\ k \notin S => Coming(c, m, S) \subseteq Coming(c, k, S)
      /\ Coming(c, m, S) \subseteq Coming(c, k, S) \cup {p}
      /\ k \in S => u.at = 1 /\ k + 1 \notin S
      /\ k \in S /\ k = Len(c.wire) => e /\ p \in c.cut
      /\ k \in S /\ k < Len(c.wire) => c.wire[k + 1].packet = p
      /\ k \in S /\ p \notin c.cut => k < Len(c.wire) /\ c.wire[k + 1] = [packet |-> p, at |-> 2]
      /\ k \notin S /\ k < Len(c.wire) /\ k + 1 \notin S =>
            c.wire[k + 1].at = 2 /\ c.wire[k + 1].packet \in c.cut
  BY NextUnit
<1>3. /\ G \in SUBSET (1..Len(Output)) /\ ~c.whole
      /\ \A g \in G, n \in N : n < g => n \in G
      /\ Cardinality(G) <= MaxBehind \div 2 + 1 /\ Cardinality(G) \in Nat
      /\ 2 * Cardinality(G) <= MaxBehind - s.behind + (IF HalfLost(c, m, S) THEN 1 ELSE 0)
      /\ HalfLost(c, m, S) => u.at = 2 /\ k \notin S
  <2>1. IsFiniteSet(G)
    <3>1. Len(Output) \in Int /\ 1 \in Int
      BY DEF CorrectionsAssumption
    <3>2. IsFiniteSet(1..Len(Output))
      BY <3>1, FS_Interval
    <3>3. G \in SUBSET (1..Len(Output))
      BY DEF Found
    <3> QED BY <3>2, <3>3, FS_Subset
  <2>2. Cardinality(G) \in Nat
    BY <2>1, FS_CardinalityType
  <2> QED BY <2>2 DEF Found, Astray, HalfLost, Units
<1>4. /\ s.behind > 0 => t.behind = s.behind - 1 /\ t.begun = s.begun /\ t.applied = s.applied
      /\ s.behind = 0 /\ s.begun = <<>> /\ u.at = 2 => t = s
      /\ s.behind = 0 /\ s.begun = <<>> /\ u.at = 1 => t.begun = <<u>> /\ t.behind = 0
      /\ s.behind = 0 /\ s.begun # <<>> => t.begun = <<>> /\ t.behind = 0
  BY <1>1, ParseIs
<1> DEFINE H == G \cup {p}
<1>5. ASSUME k \in S
      PROVE  /\ H \in SUBSET (1..Len(Output)) /\ Cardinality(H) \in Nat
             /\ Cardinality(H) <= Cardinality(G) + 1
             /\ \A g \in H, n \in N : n < g => n \in H
             /\ N \subseteq H \cup Coming(c, k, S)
  <2>1. FirstLost(c, m, S, G)
    BY <1>3 DEF FirstLost
  <2>2. Cardinality(H) \in Nat /\ Cardinality(H) <= Cardinality(G) + 1 /\ FirstLost(c, k, S, H)
    BY <1>5, <2>1, LostOne, ZenonT(60)
  <2> QED BY <2>2 DEF FirstLost
<1>6. N \subseteq G \cup Coming(c, k, S) \cup {p} /\ (k \notin S \/ p \in c.cut => N \subseteq G \cup Coming(c, k, S))
  BY <1>2
<1> HIDE DEF t, H, p
\* A block is within the gap, or what is before it was begun with.
<1>7. CASE s.behind > 0
  <2>1. CASE k \in S /\ p \notin c.cut
    <3>1. HalfLost(c, k, S) /\ c.wire[k + 1].at = 2 /\ ~HalfLost(c, m, S)
      BY <1>1, <1>2, <1>3, <2>1 DEF HalfLost
    <3>2. 2 * Cardinality(H) <= MaxBehind - t.behind + 1 /\ Cardinality(H) <= MaxBehind \div 2 + 1
      <4> DEFINE g == Cardinality(G)
                 h == Cardinality(H)
      <4>1. t.behind = s.behind - 1 /\ g \in Nat /\ h \in Nat /\ h <= g + 1
            /\ 2 * g <= MaxBehind - s.behind
        BY <1>1, <1>3, <1>4, <1>5, <1>7, <2>1, <3>1
      <4> HIDE DEF g, h
      <4>2. 2 * h <= MaxBehind - t.behind + 1
        BY <1>1, <1>7, <4>1
      <4>3. 2 * h <= MaxBehind + 1
        BY <1>1, <1>7, <4>1
      <4>4. h <= MaxBehind \div 2 + 1
        BY <1>1, <4>1, <4>3
      <4> QED BY <4>2, <4>4 DEF g, h
    <3>3. Found(t, c, k, e, S, H)
      BY <1>3, <1>5, <2>1, <3>1, <3>2 DEF Found, Astray, Units
    <3> QED BY <3>3 DEF t
  <2>2. CASE k \notin S \/ p \in c.cut
    <3>1. ~HalfLost(c, k, S)
      BY <1>1, <1>2, <2>2 DEF HalfLost
    <3>2. 2 * Cardinality(G) <= MaxBehind - t.behind /\ t.behind \in Nat
      <4> DEFINE g == Cardinality(G)
                 b == s.behind
                 x == t.behind
                 half == IF HalfLost(c, m, S) THEN 1 ELSE 0
      <4>1. b > 0 => x = b - 1
        BY <1>4
      <4>2. b \in Nat /\ b <= MaxBehind /\ MaxBehind \in Nat /\ g \in Nat /\ (half = 0 \/ half = 1)
            /\ 2 * g <= MaxBehind - b + half
        BY <1>1, <1>3
      <4>3. b > 0
        BY <1>1, <1>7
      <4> HIDE DEF g, b, x, half
      <4>4. 2 * g <= MaxBehind - x /\ x \in Nat
        BY <4>1, <4>2, <4>3
      <4> QED BY <4>4 DEF g, x
    <3>3. Astray(t, c, k, S, G)
      BY <1>1, <1>3, <3>1, <3>2 DEF Astray
    <3>4. Found(t, c, k, e, S, G)
      BY <1>3, <1>6, <2>2, <3>3 DEF Found, Units
    <3> QED BY <3>4 DEF t
  <2> QED BY <2>1, <2>2
<1>8. CASE s.behind = 0 /\ s.begun = <<>> /\ u.at = 2
  <2>1. k \notin S /\ Between(t, c, k, S)
    BY <1>2, <1>4, <1>8 DEF Between
  <2>2. Found(t, c, k, e, S, G)
    BY <1>3, <1>6, <2>1 DEF Found, Units
  <2> QED BY <2>2 DEF t
<1>9. CASE s.behind = 0 /\ s.begun = <<>> /\ u.at = 1
  <2>1. t.begun = <<u>> /\ t.begun # <<>> /\ t.begun[1] = u /\ t.behind = 0
    <3>1. <<u>> # <<>> /\ <<u>>[1] = u
      OBVIOUS
    <3> QED BY <1>4, <1>9, <3>1
  <2>2. CASE k \in S
    <3>1. Within(t, c, k, e, S)
      BY <1>1, <1>2, <2>1, <2>2 DEF Within, p
    <3>2. Found(t, c, k, e, S, G)
      BY <1>3, <1>6, <2>1, <3>1 DEF Found, Units, p
    <3> QED BY <3>2 DEF t
  <2>3. CASE k \notin S
    <3>1. ~HalfLost(c, k, S) /\ ~HalfLost(c, m, S)
      BY <1>2, <1>3, <1>9, <2>3 DEF HalfLost
    <3>2. 2 * Cardinality(G) <= MaxBehind
      BY <1>1, <1>3, <1>9, <3>1
    <3>3. Astray(t, c, k, S, G)
      BY <1>1, <1>3, <2>1, <3>1, <3>2 DEF Astray
    <3>4. Found(t, c, k, e, S, G)
      BY <1>3, <1>6, <2>3, <3>3 DEF Found, Units
    <3> QED BY <3>4 DEF t
  <2> QED BY <2>2, <2>3
<1>10. CASE s.behind = 0 /\ s.begun # <<>>
  <2>1. CASE k \in S /\ p \notin c.cut
    <3>1. Between(t, c, k, S) /\ ~HalfLost(c, m, S)
      BY <1>2, <1>3, <1>4, <1>10, <2>1 DEF Between
    <3>2. Cardinality(H) <= MaxBehind \div 2 + 1
      BY <1>1, <1>3, <1>5, <1>10, <2>1, <3>1
    <3>3. Found(t, c, k, e, S, H)
      BY <1>3, <1>5, <2>1, <3>1, <3>2 DEF Found, Units
    <3> QED BY <3>3 DEF t
  <2>2. CASE k \in S /\ p \in c.cut
    <3>1. ~HalfLost(c, k, S) /\ ~HalfLost(c, m, S)
      BY <1>2, <1>3, <2>2 DEF HalfLost
    <3>2. 2 * Cardinality(G) <= MaxBehind /\ t.behind = 0
      BY <1>1, <1>3, <1>4, <1>10, <3>1
    <3>3. Astray(t, c, k, S, G)
      BY <1>1, <1>3, <3>1, <3>2 DEF Astray
    <3>4. Found(t, c, k, e, S, G)
      BY <1>3, <1>6, <2>2, <3>3 DEF Found, Units
    <3> QED BY <3>4 DEF t
  <2>3. CASE k \notin S
    <3>1. Between(t, c, k, S)
      BY <1>2, <1>4, <1>10, <2>3 DEF Between
    <3>2. Found(t, c, k, e, S, G)
      BY <1>3, <1>6, <2>3, <3>1 DEF Found, Units
    <3> QED BY <3>2 DEF t
  <2> QED BY <2>1, <2>2, <2>3
<1> QED BY <1>1, <1>7, <1>8, <1>9, <1>10

LEMMA FoundKept ==
    ASSUME CorrectionsAssumption, NEW s \in Reads, NEW c \in Connection, NEW m \in Nat, NEW top,
           m < Len(c.wire), NEW k, k = m + 1, NEW e \in BOOLEAN, NEW S, NEW G,
           InOrder(s, c, m, top), Blocks(c, e, S), Found(s, c, m, e, S, G)
    PROVE  \E H : Found(ParseUnit(s, c.wire[k]), c, k, e, S, H)
<1> DEFINE u == c.wire[k]
           p == u.packet
           t == ParseUnit(s, u)
           N == c.owed \ c.cut
<1>1. k \in Nat /\ k \in 1..Len(c.wire) /\ u \in Unit /\ Len(c.wire) \in Nat /\ u.at \in {1, 2}
      /\ (s.begun = <<>> \/ Len(s.begun) = 1)
  <2>1. k \in Nat /\ k \in 1..Len(c.wire) /\ Len(c.wire) \in Nat
    BY DEF Connection
  <2>2. u \in Unit /\ u.at \in {1, 2}
    BY <2>1, UnitOf
  <2>3. s.begun = <<>> \/ Len(s.begun) = 1
    BY DEF InOrder
  <2> QED BY <2>1, <2>2, <2>3
<1>2. /\ k \notin S => Coming(c, m, S) \subseteq Coming(c, k, S)
      /\ Coming(c, m, S) \subseteq Coming(c, k, S) \cup {p}
      /\ k \in S => u.at = 1 /\ k + 1 \notin S
      /\ k \in S /\ k = Len(c.wire) => e /\ p \in c.cut
      /\ k \in S /\ p \notin c.cut => k < Len(c.wire) /\ c.wire[k + 1] = [packet |-> p, at |-> 2]
      /\ k \notin S /\ k < Len(c.wire) /\ k + 1 \notin S =>
            c.wire[k + 1].at = 2 /\ c.wire[k + 1].packet \in c.cut
  BY NextUnit
<1>3. /\ G \in SUBSET (1..Len(Output))
      /\ c.whole => G = {}
      /\ \A g \in G, n \in N : n < g => n \in G
      /\ Cardinality(G) <= MaxBehind \div Units + 1
  BY DEF Found
<1>4. /\ s.behind = 0 /\ s.begun = <<>> /\ u.at = 2 => t = s
      /\ s.behind = 0 /\ s.begun = <<>> /\ u.at = 1 =>
            t.begun = <<u>> /\ t.behind = 0 /\ t.applied = s.applied
      /\ s.behind = 0 /\ s.begun # <<>> =>
            /\ t.begun = <<>> /\ t.behind = 0
            /\ t.applied = IF u.at = 2 /\ s.begun[1].packet = u.packet /\ s.begun[1].at = 1
                           THEN Append(s.applied, u.packet) ELSE s.applied
  BY <1>1, ParseIs
<1> HIDE DEF t
<1>5. CASE Astray(s, c, m, S, G) /\ N \subseteq G \cup Coming(c, m, S)
  BY <1>5, AstrayKept DEF t
<1>6. CASE Between(s, c, m, S) /\ N \subseteq G \cup Coming(c, m, S) \cup ToSet(s.applied)
  <2>1. s.behind = 0 /\ s.begun = <<>> /\ (k \notin S => u.at = 2)
    BY <1>6 DEF Between
  <2>2. CASE k \notin S
    <3>1. t = s
      BY <1>4, <2>1, <2>2
    <3>2. Between(t, c, k, S)
      BY <1>2, <2>1, <2>2, <3>1 DEF Between
    <3>3. N \subseteq G \cup Coming(c, k, S) \cup ToSet(t.applied)
      BY <1>2, <1>6, <2>2, <3>1
    <3>4. Found(t, c, k, e, S, G)
      BY <1>3, <3>2, <3>3 DEF Found
    <3> QED BY <3>4 DEF t
  <2>3. CASE k \in S
    <3>1. t.begun = <<u>> /\ t.behind = 0 /\ t.applied = s.applied /\ <<u>> # <<>> /\ <<u>>[1] = u
      BY <1>2, <1>4, <2>1, <2>3
    <3>2. Within(t, c, k, e, S)
      BY <1>1, <1>2, <2>3, <3>1 DEF Within
    <3>3. N \subseteq G \cup Coming(c, k, S) \cup ToSet(t.applied) \cup {t.begun[1].packet}
      BY <1>2, <1>6, <3>1
    <3>4. Found(t, c, k, e, S, G)
      BY <1>3, <3>2, <3>3 DEF Found
    <3> QED BY <3>4 DEF t
  <2> QED BY <2>2, <2>3
<1>7. CASE /\ Within(s, c, m, e, S)
           /\ N \subseteq G \cup Coming(c, m, S) \cup ToSet(s.applied) \cup {s.begun[1].packet}
  <2> DEFINE x == s.begun[1]
  <2>1. s.behind = 0 /\ s.begun # <<>> /\ k \notin S /\ t.begun = <<>> /\ t.behind = 0
        /\ (x.packet \notin c.cut => u = [packet |-> x.packet, at |-> 2]) /\ x.at = 1
    BY <1>1, <1>4, <1>7 DEF Within, InOrder
  <2>2. Between(t, c, k, S)
    BY <1>2, <2>1 DEF Between
  <2>3. ToSet(s.applied) \subseteq ToSet(t.applied) /\ (x.packet \notin c.cut => x.packet \in ToSet(t.applied))
    <3>1. s.applied \in Seq(1..Len(Output)) /\ p \in 1..Len(Output)
      BY <1>1 DEF Reads, Unit
    <3> DEFINE more == Append(s.applied, p)
    <3>2. ToSet(s.applied) \subseteq ToSet(more) /\ p \in ToSet(more)
      <4>1. Len(s.applied) \in Nat /\ Len(more) = Len(s.applied) + 1 /\ more[Len(s.applied) + 1] = p
            /\ \A i \in 1..Len(s.applied) : more[i] = s.applied[i]
        BY <3>1
      <4>2. DOMAIN more = 1..Len(more) /\ DOMAIN s.applied = 1..Len(s.applied)
        BY <3>1
      <4> HIDE DEF more
      <4>3. Len(s.applied) + 1 \in DOMAIN more /\ \A i \in DOMAIN s.applied : i \in DOMAIN more
        BY <4>1, <4>2
      <4> QED BY <4>1, <4>2, <4>3 DEF ToSet
    <3> HIDE DEF more
    <3>3. t.applied = more \/ t.applied = s.applied
      BY <1>4, <2>1 DEF more
    <3>4. x.packet \notin c.cut => t.applied = more /\ x.packet = p
      <4>1. ASSUME x.packet \notin c.cut PROVE u.at = 2 /\ x.packet = u.packet
        BY <2>1, <4>1
      <4> QED BY <1>4, <2>1, <4>1 DEF more
    <3> QED BY <3>2, <3>3, <3>4
  <2>4. N \subseteq G \cup Coming(c, k, S) \cup ToSet(t.applied)
    BY <1>2, <1>7, <2>1, <2>3
  <2>5. Found(t, c, k, e, S, G)
    BY <1>3, <2>2, <2>4 DEF Found
  <2> QED BY <2>5 DEF t
<1> QED BY <1>5, <1>6, <1>7 DEF Found

LEMMA LeastElement == ASSUME NEW S \in SUBSET Nat, S # {} PROVE \E i \in S : \A j \in S : i <= j
<1>1. IsWellFoundedOn(OpToRel(<, Nat), Nat)
  BY NatLessThanWellFounded
<1>2. PICK i \in S : \A j \in S : <<j, i>> \notin OpToRel(<, Nat)
  BY <1>1, WFMin, Zenon
<1>3. \A j \in S : ~(j < i)
  BY <1>2 DEF OpToRel
<1> QED BY <1>3

LEMMA CountTo ==
    ASSUME NEW m \in Nat, NEW S, 0 \in S, \A n \in S : n \in Nat /\ n < m => n + 1 \in S
    PROVE  m \in S
<1> DEFINE Rest == {n \in 0..m : n \notin S}
<1> SUFFICES ASSUME Rest # {} PROVE FALSE
  OBVIOUS
<1>1. PICK n \in Rest : \A k \in Rest : n <= k
  <2>1. Rest \in SUBSET Nat
    OBVIOUS
  <2> HIDE DEF Rest
  <2> QED BY <2>1, LeastElement
<1>2. n \in Nat /\ n # 0 /\ n <= m /\ n \notin S
  OBVIOUS
<1>3. n - 1 \in Nat /\ n - 1 < m /\ n - 1 \notin Rest /\ (n - 1) + 1 = n
  BY <1>1, <1>2
<1>4. n - 1 \in S
  BY <1>2, <1>3
<1>5. (n - 1) + 1 \in S
  BY <1>3, <1>4
<1> QED BY <1>2, <1>3, <1>5

\* f has the states of the parser in a reading of n units.
Reading(f, s, units, n) ==
    f = [i \in 0..n |-> IF i = 0 THEN s ELSE ParseUnit(f[i - 1], units[i])]

LEMMA ParsedIs ==
    ASSUME NEW s, NEW S, NEW units \in Seq(S)
    PROVE  \E f : /\ f[0] = s /\ Parsed(s, units) = f[Len(units)]
                  /\ \A i \in 1..Len(units) : f[i] = ParseUnit(f[i - 1], units[i])
<1> DEFINE Step(g, i) == IF i = 0 THEN s ELSE ParseUnit(g[i - 1], units[i])
           Begun == {n \in 0..Len(units) : \E g : Reading(g, s, units, n)}
           f == CHOOSE g : Reading(g, s, units, Len(units))
<1>0. Len(units) \in Nat
  OBVIOUS
<1>1. ASSUME NEW n \in Nat, NEW g, Reading(g, s, units, n), n < Len(units)
      PROVE  \E h : Reading(h, s, units, n + 1)
  <2> DEFINE h == [i \in 0..(n + 1) |-> IF i = n + 1 THEN Step(g, n + 1) ELSE g[i]]
  <2>1. ASSUME NEW i \in 0..n PROVE h[i] = Step(h, i)
    <3>1. h[i] = g[i] /\ (i # 0 => h[i - 1] = g[i - 1])
      OBVIOUS
    <3>2. g[i] = Step(g, i)
      BY <1>1 DEF Reading
    <3> QED BY <3>1, <3>2
  <2>2. h[n + 1] = Step(h, n + 1)
    <3>1. h[n + 1] = Step(g, n + 1) /\ h[n] = g[n] /\ (n + 1) - 1 = n /\ n + 1 # 0
      OBVIOUS
    <3> QED BY <3>1
  <2>3. h = [i \in 0..(n + 1) |-> h[i]]
    OBVIOUS
  <2>4. \A i \in 0..(n + 1) : i \in 0..n \/ i = n + 1
    OBVIOUS
  <2>5. \A i \in 0..(n + 1) : h[i] = Step(h, i)
    BY <2>1, <2>2, <2>4
  <2> HIDE DEF h
  <2>6. Reading(h, s, units, n + 1)
    BY <2>3, <2>5 DEF Reading
  <2> QED BY <2>6
<1>2. Reading([i \in 0..0 |-> s], s, units, 0)
  BY DEF Reading
<1>3. \E g : Reading(g, s, units, Len(units))
  <2>1. 0 \in Begun
    BY <1>0, <1>2
  <2>2. \A n \in Begun : n \in Nat /\ n < Len(units) => n + 1 \in Begun
    BY <1>0, <1>1
  <2> HIDE DEF Begun
  <2>3. Len(units) \in Begun
    BY <1>0, <2>1, <2>2, CountTo
  <2> QED BY <2>3 DEF Begun
<1>4. Reading(f, s, units, Len(units))
  BY <1>3
<1>5. Parsed(s, units) = f[Len(units)]
  BY DEF Parsed, Reading
<1> HIDE DEF f
<1>6. f[0] = s /\ \A i \in 1..Len(units) : f[i] = ParseUnit(f[i - 1], units[i])
  BY <1>0, <1>4 DEF Reading
<1> QED BY <1>5, <1>6

\* A reading of n units of the wire.
LEMMA ReadsKept ==
    ASSUME CorrectionsAssumption, NEW s \in Reads, NEW c \in Connection, NEW n \in 1..Len(c.wire),
           NEW top \in Nat, NEW e \in BOOLEAN, NEW S, NEW G,
           InOrder(s, c, 0, top), Blocks(c, e, S), Found(s, c, 0, e, S, G)
    PROVE  LET t == Parsed(s, SubSeq(c.wire, 1, n))
           IN  t \in Reads /\ InOrder(t, c, n, top) /\ \E H : Found(t, c, n, e, S, H)
<1> DEFINE units == SubSeq(c.wire, 1, n)
<1>1. /\ units \in Seq(Unit) /\ Len(units) = n /\ n \in Nat /\ Len(c.wire) \in Nat /\ n <= Len(c.wire)
      /\ \A i \in 1..n : units[i] = c.wire[i]
  BY DEF Connection
<1> HIDE DEF units
<1>2. PICK f : /\ f[0] = s /\ Parsed(s, units) = f[Len(units)]
               /\ \A i \in 1..Len(units) : f[i] = ParseUnit(f[i - 1], units[i])
  BY <1>1, ParsedIs
<1> DEFINE Good == {i \in 0..n : /\ f[i] \in Reads /\ InOrder(f[i], c, i, top)
                                 /\ \E H : Found(f[i], c, i, e, S, H)}
<1>3. 0 \in Good
  BY <1>1, <1>2
<1>4. ASSUME NEW m \in Good, m \in Nat, m < n PROVE m + 1 \in Good
  <2>1. m + 1 \in 1..n /\ m < Len(c.wire) /\ (m + 1) - 1 = m /\ m + 1 \in 1..Len(c.wire) /\ m + 1 \in 0..n
    BY <1>1, <1>4
  <2>2. f[m] \in Reads /\ InOrder(f[m], c, m, top)
    BY <1>4
  <2>3. PICK G1 : Found(f[m], c, m, e, S, G1)
    BY <1>4
  <2>4. f[m + 1] = ParseUnit(f[m], c.wire[m + 1])
    BY <1>1, <1>2, <2>1
  <2>5. f[m + 1] \in Reads
    <3>1. c.wire[m + 1] \in Unit
      BY <2>1, UnitOf
    <3>2. f[m].begun = <<>> \/ Len(f[m].begun) = 1
      BY <2>2 DEF InOrder
    <3> QED BY <2>2, <2>4, <3>1, <3>2, ParseIs
  <2>6. InOrder(f[m + 1], c, m + 1, top)
    BY <1>4, <2>1, <2>2, <2>4, OrderKept
  <2>7. \E H : Found(f[m + 1], c, m + 1, e, S, H)
    BY <1>4, <2>1, <2>2, <2>3, <2>4, FoundKept
  <2> QED BY <2>1, <2>5, <2>6, <2>7
<1> HIDE DEF Good
<1>5. n \in Good
  BY <1>1, <1>3, <1>4, CountTo
<1>6. Parsed(s, units) = f[n]
  BY <1>1, <1>2
<1> QED BY <1>5, <1>6 DEF Good, units

\* What was read is taken off the wire.
Taken(c, n) == [c EXCEPT !.wire = SubSeq(c.wire, n + 1, Len(c.wire))]
LEMMA Shifted ==
    ASSUME CorrectionsAssumption, NEW s \in Reads, NEW c \in Connection, NEW n \in 1..Len(c.wire), NEW top,
           NEW e, NEW S, NEW G, InOrder(s, c, n, top), Blocks(c, e, S), Found(s, c, n, e, S, G)
    PROVE  /\ Taken(c, n) \in Connection /\ InOrder(s, Taken(c, n), 0, top)
           /\ \E R \in SUBSET (1..Len(Taken(c, n).wire)) :
                 Blocks(Taken(c, n), e, R) /\ Found(s, Taken(c, n), 0, e, R, G)
<1> DEFINE d == Taken(c, n)
<1>0. d = [c EXCEPT !.wire = SubSeq(c.wire, n + 1, Len(c.wire))]
  BY DEF Taken
<1> HIDE DEF d
<1> DEFINE R == {i \in 1..Len(d.wire) : i + n \in S}
           N == c.owed \ c.cut
<1>1. c.wire \in Seq(Unit) /\ Len(c.wire) \in Nat /\ n \in Nat /\ n <= Len(c.wire)
  BY DEF Connection
<1>2. /\ d.wire = SubSeq(c.wire, n + 1, Len(c.wire)) /\ d.owed = c.owed /\ d.cut = c.cut
      /\ d.whole = c.whole /\ d.here = c.here
      /\ d = [here |-> d.here, wire |-> d.wire, owed |-> d.owed, cut |-> d.cut, whole |-> d.whole]
  BY <1>0 DEF Connection
<1>3. /\ d.wire \in Seq(Unit) /\ Len(d.wire) = Len(c.wire) - n /\ Len(d.wire) \in Nat
      /\ \A i \in 1..Len(d.wire) : d.wire[i] = c.wire[i + n]
  BY <1>1, <1>2
<1>4. d \in Connection
  BY <1>2, <1>3 DEF Connection
<1>5. InOrder(s, d, 0, top)
  <2>1. \A i \in 1..Len(d.wire) : i + n \in (n + 1)..Len(c.wire)
    BY <1>1, <1>3
  <2>2. \A i \in 1..Len(d.wire) : \A j \in (i + 1)..Len(d.wire) :
           j + n \in ((i + n) + 1)..Len(c.wire) /\ j \in 1..Len(d.wire)
    BY <1>1, <1>3
  <2>3. \A i \in 1..Len(d.wire) :
          /\ d.wire[i].packet <= top /\ Forwarded(Output[d.wire[i].packet])
          /\ \A a \in 1..Len(s.applied) : s.applied[a] < d.wire[i].packet
    BY <1>3, <2>1 DEF InOrder
  <2>4. \A i \in 1..Len(d.wire) : \A j \in (i + 1)..Len(d.wire) :
           /\ d.wire[i].packet <= d.wire[j].packet
           /\ d.wire[i].at = 2 => d.wire[i].packet < d.wire[j].packet
    BY <1>3, <2>1, <2>2 DEF InOrder
  <2>5. 0 + 1 = 1 /\ \A x \in d.owed : x <= top
    BY <1>2 DEF InOrder
  <2> QED BY <2>3, <2>4, <2>5 DEF InOrder
<1>6. R \in SUBSET (1..Len(d.wire))
  OBVIOUS
<1>7. Blocks(d, e, R)
  <2>1. ASSUME NEW i \in R
        PROVE  /\ d.wire[i].at = 1 /\ i + 1 \notin R
               /\ i = Len(d.wire) => e /\ d.wire[i].packet \in d.cut
               /\ i < Len(d.wire) => d.wire[i + 1].packet = d.wire[i].packet
               /\ i < Len(d.wire) /\ d.wire[i].packet \notin d.cut => d.wire[i + 1].at = 2
    <3>1. i \in 1..Len(d.wire) /\ i + n \in S /\ (i + 1) + n = (i + n) + 1
          /\ (i < Len(d.wire) => i + 1 \in 1..Len(d.wire) /\ i + n < Len(c.wire))
          /\ (i = Len(d.wire) => i + n = Len(c.wire))
      <4>1. i \in 1..Len(d.wire) /\ i + n \in S
        OBVIOUS
      <4> DEFINE a == Len(c.wire)
                 b == Len(d.wire)
      <4>2. a \in Nat /\ b \in Nat /\ n \in Nat /\ b = a - n /\ i \in 1..b
        BY <1>1, <1>3, <4>1
      <4> HIDE DEF R, a, b
      <4>3. /\ (i + 1) + n = (i + n) + 1
            /\ (i < b => i + 1 \in 1..b /\ i + n < a)
            /\ (i = b => i + n = a)
        BY <4>2
      <4> QED BY <4>1, <4>3 DEF a, b
    <3>2. d.wire[i] = c.wire[i + n] /\ (i < Len(d.wire) => d.wire[i + 1] = c.wire[(i + n) + 1])
      BY <1>3, <3>1
    <3>3. /\ c.wire[i + n].at = 1 /\ (i + n) + 1 \notin S
          /\ i + n = Len(c.wire) => e /\ c.wire[i + n].packet \in c.cut
          /\ i + n < Len(c.wire) => c.wire[(i + n) + 1].packet = c.wire[i + n].packet
          /\ i + n < Len(c.wire) /\ c.wire[i + n].packet \notin c.cut => c.wire[(i + n) + 1].at = 2
      BY <3>1 DEF Blocks
    <3>4. i + 1 \notin R
      BY <3>1, <3>3
    <3> HIDE DEF R
    <3> QED BY <1>2, <3>1, <3>2, <3>3, <3>4
  <2>2. ASSUME NEW i \in 2..Len(d.wire), i \notin R, i - 1 \notin R
        PROVE  d.wire[i].at = 2 /\ d.wire[i].packet \in d.cut
    <3>1. /\ i \in 1..Len(d.wire) /\ i - 1 \in 1..Len(d.wire) /\ i + n \in 2..Len(c.wire)
          /\ (i - 1) + n = (i + n) - 1
      BY <1>1, <1>3
    <3>2. i + n \notin S /\ (i + n) - 1 \notin S
      BY <2>2, <3>1
    <3> QED BY <1>2, <1>3, <3>1, <3>2 DEF Blocks
  <2> QED BY <1>6, <2>1, <2>2 DEF Blocks
<1>8. Coming(d, 0, R) = Coming(c, n, S)
  <2>1. ASSUME NEW i \in R PROVE d.wire[i].packet \in Coming(c, n, S)
    <3>1. i + n \in S /\ i + n > n /\ d.wire[i] = c.wire[i + n]
      BY <1>1, <1>3
    <3> QED BY <3>1 DEF Coming
  <2>2. ASSUME NEW i \in S, i > n PROVE c.wire[i].packet \in Coming(d, 0, R)
    <3>1. i \in 1..Len(c.wire)
      BY DEF Blocks
    <3>2. i - n \in 1..Len(d.wire) /\ (i - n) + n = i /\ i - n > 0
      BY <1>1, <1>3, <2>2, <3>1
    <3>3. i - n \in R /\ d.wire[i - n] = c.wire[i]
      BY <1>3, <3>2
    <3> QED BY <3>2, <3>3 DEF Coming
  <2>3. Coming(d, 0, R) \subseteq Coming(c, n, S)
    BY <2>1 DEF Coming
  <2> HIDE DEF R
  <2>4. Coming(c, n, S) \subseteq Coming(d, 0, R)
    BY <2>2 DEF Coming
  <2> QED BY <2>3, <2>4
<1>9. /\ n < Len(c.wire) <=> 0 < Len(d.wire)
      /\ n + 1 \in S /\ n < Len(c.wire) <=> 1 \in R
      /\ n < Len(c.wire) => d.wire[1] = c.wire[n + 1]
      /\ n = Len(c.wire) <=> 0 = Len(d.wire)
      /\ 0 + 1 = 1
  BY <1>1, <1>3
<1>10. n + 1 \in S => n < Len(c.wire)
  BY <1>1 DEF Blocks
<1> HIDE DEF R
<1>11. Found(s, d, 0, e, R, G)
  <2>1. HalfLost(d, 0, R) <=> HalfLost(c, n, S)
    BY <1>2, <1>9, <1>10 DEF HalfLost
  <2>2. Astray(s, c, n, S, G) => Astray(s, d, 0, R, G)
    BY <1>2, <1>9, <2>1 DEF Astray, HalfLost
  <2>3. Between(s, c, n, S) => Between(s, d, 0, R)
    BY <1>9, <1>10 DEF Between
  <2>4. Within(s, c, n, e, S) => Within(s, d, 0, e, R)
    BY <1>2, <1>9, <1>10 DEF Within
  <2> QED BY <1>2, <1>8, <2>2, <2>3, <2>4 DEF Found
<1> QED BY <1>4, <1>5, <1>6, <1>7, <1>11 DEF d

----------------------------------------------------------------------------
\* A packet written.

\* The sum of at most two counts.
LEMMA SumIs ==
    ASSUME NEW t \in Seq(Nat), Len(t) <= 2
    PROVE  /\ Len(t) = 0 => Sum(t) = 0
           /\ Len(t) = 1 => Sum(t) = t[1]
           /\ Len(t) = 2 => Sum(t) = t[1] + t[2]
<1> DEFINE Is(f) == f = [i \in 0..Len(t) |-> IF i = 0 THEN 0 ELSE f[i - 1] + t[i]]
           g == [i \in 0..Len(t) |-> IF i = 0 THEN 0 ELSE IF i = 1 THEN t[1] ELSE t[1] + t[2]]
           f == CHOOSE h : Is(h)
<1> DEFINE n == Len(t)
<1>0. n \in Nat /\ n <= 2 /\ (n >= 1 => t[1] \in Nat) /\ (n = 2 => t[2] \in Nat)
  <2>1. n \in Nat /\ n <= 2
    OBVIOUS
  <2>2. \A i \in 1..n : t[i] \in Nat
    OBVIOUS
  <2> HIDE DEF n
  <2>3. (n >= 1 => 1 \in 1..n) /\ (n = 2 => 2 \in 1..n)
    BY <2>1
  <2> QED BY <2>1, <2>2, <2>3
<1>1. /\ (n = 0 \/ n = 1 \/ n = 2) /\ n \in Nat
      /\ (n >= 1 => t[1] \in Nat) /\ (n = 2 => t[2] \in Nat)
      /\ \A i \in 0..n : i = 0 \/ (i = 1 /\ n >= 1) \/ (i = 2 /\ n = 2)
  <2> HIDE DEF n
  <2> QED BY <1>0
<1>2. Is(g)
  <2> DEFINE h == [i \in 0..Len(t) |-> IF i = 0 THEN 0 ELSE g[i - 1] + t[i]]
  <2>1. ASSUME NEW i \in 0..Len(t) PROVE g[i] = h[i]
    <3>1. i = 0 \/ (i = 1 /\ Len(t) >= 1) \/ (i = 2 /\ Len(t) = 2)
      BY <1>1
    <3>2. CASE i = 0
      BY <3>2
    <3>3. CASE i = 1 /\ Len(t) >= 1
      <4>1. g[1] = t[1] /\ g[0] = 0 /\ h[1] = g[0] + t[1]
        BY <1>1, <3>3
      <4> QED BY <1>1, <3>3, <4>1
    <3>4. CASE i = 2 /\ Len(t) = 2
      <4>1. g[2] = t[1] + t[2] /\ g[1] = t[1] /\ h[2] = g[1] + t[2]
        BY <1>1, <3>4
      <4> QED BY <3>4, <4>1
    <3> QED BY <3>1, <3>2, <3>3, <3>4
  <2>2. g = [i \in 0..Len(t) |-> g[i]] /\ h = [i \in 0..Len(t) |-> h[i]]
    OBVIOUS
  <2> HIDE DEF g, h
  <2>3. g = h
    BY <2>1, <2>2
  <2> QED BY <2>3 DEF h
<1>3. Is(f)
  <2> HIDE DEF g
  <2> QED BY <1>2
<1>4. Sum(t) = f[Len(t)]
  BY DEF Sum
<1> HIDE DEF f
<1>5. f[0] = 0 /\ (Len(t) >= 1 => f[1] = f[0] + t[1]) /\ (Len(t) = 2 => f[2] = f[1] + t[2])
  BY <1>1, <1>3
<1> HIDE DEF n
<1>6. (n = 0 => f[n] = 0) /\ (n = 1 => f[n] = t[1]) /\ (n = 2 => f[n] = t[1] + t[2])
  BY <1>1, <1>5 DEF n
<1> QED BY <1>4, <1>6 DEF n

LEMMA FlattenIs ==
    ASSUME NEW S, NEW q \in Seq(Seq(S)), Len(q) <= 2
    PROVE  /\ Len(q) = 0 => FlattenSeq(q) = <<>>
           /\ Len(q) = 1 => FlattenSeq(q) = q[1]
           /\ Len(q) = 2 => FlattenSeq(q) = q[1] \o q[2]
<1> DEFINE Is(f) == f = [i \in 1..Len(q) |-> IF i = 1 THEN q[i] ELSE f[i - 1] \o q[i]]
           g == [i \in 1..Len(q) |-> IF i = 1 THEN q[1] ELSE q[1] \o q[2]]
           f == CHOOSE h : Is(h)
<1> DEFINE n == Len(q)
<1>0. n \in Nat /\ n <= 2
  OBVIOUS
<1>1. /\ (n = 0 \/ n = 1 \/ n = 2) /\ n \in Nat
      /\ \A i \in 1..n : i = 1 \/ (i = 2 /\ n = 2)
  <2> HIDE DEF n
  <2> QED BY <1>0
<1>2. CASE Len(q) = 0
  BY <1>2 DEF FlattenSeq
<1>3. CASE Len(q) # 0
  <2>1. Is(g)
    <3> DEFINE h == [i \in 1..Len(q) |-> IF i = 1 THEN q[i] ELSE g[i - 1] \o q[i]]
    <3>1. ASSUME NEW i \in 1..Len(q) PROVE g[i] = h[i]
      <4>1. i = 1 \/ (i = 2 /\ Len(q) = 2)
        BY <1>1
      <4>2. CASE i = 1
        BY <4>2
      <4>3. CASE i = 2 /\ Len(q) = 2
        <5>1. g[2] = q[1] \o q[2] /\ g[1] = q[1] /\ h[2] = g[1] \o q[2]
          BY <4>3
        <5> QED BY <4>3, <5>1
      <4> QED BY <4>1, <4>2, <4>3
    <3>2. g = [i \in 1..Len(q) |-> g[i]] /\ h = [i \in 1..Len(q) |-> h[i]]
      OBVIOUS
    <3> HIDE DEF g, h
    <3>3. g = h
      BY <3>1, <3>2
    <3> QED BY <3>3 DEF h
  <2>2. Is(f)
    <3> HIDE DEF g
    <3> QED BY <2>1
  <2>3. FlattenSeq(q) = f[Len(q)]
    BY <1>3 DEF FlattenSeq
  <2> HIDE DEF f
  <2>4. f[1] = q[1] /\ (Len(q) = 2 => f[2] = f[1] \o q[2])
    <3>1. 1 \in 1..n /\ (n = 2 => 2 \in 1..n)
      <4>1. n # 0
        BY <1>3
      <4> HIDE DEF n
      <4> QED BY <1>1, <4>1
    <3>2. \A i \in 1..n : f[i] = IF i = 1 THEN q[i] ELSE f[i - 1] \o q[i]
      BY <2>2
    <3>3. f[1] = q[1]
      BY <3>1, <3>2
    <3>4. ASSUME n = 2 PROVE f[2] = f[1] \o q[2]
      <4>1. f[2] = IF 2 = 1 THEN q[2] ELSE f[2 - 1] \o q[2]
        BY <3>1, <3>2, <3>4, Zenon
      <4>2. 2 # 1 /\ 2 - 1 = 1
        OBVIOUS
      <4> QED BY <4>1, <4>2
    <3> QED BY <3>3, <3>4
  <2> QED BY <1>1, <1>3, <2>3, <2>4
<1> QED BY <1>2, <1>3

LEMMA Cells ==
    ASSUME NEW a \in Unit, NEW b \in Unit
    PROVE  /\ <<a>> \in Seq(Unit) /\ Len(<<a>>) = 1 /\ <<a>>[1] = a
           /\ <<a, b>> \in Seq(Unit) /\ Len(<<a, b>>) = 2 /\ <<a, b>>[1] = a /\ <<a, b>>[2] = b
           /\ <<a>> \o <<>> = <<a>> /\ <<a>> \o <<b>> = <<a, b>>
           /\ SubSeq(<<a>>, 1, 1) = <<a>> /\ SubSeq(<<a, b>>, 1, 1) = <<a>>
           /\ SubSeq(<<a, b>>, 1, 2) = <<a, b>> /\ SubSeq(<<a, b>>, 2, 2) = <<b>>
<1>1. <<a>> \in Seq(Unit) /\ Len(<<a>>) = 1 /\ <<a>>[1] = a
  OBVIOUS
<1>2. <<a, b>> \in Seq(Unit) /\ Len(<<a, b>>) = 2 /\ <<a, b>>[1] = a /\ <<a, b>>[2] = b
  OBVIOUS
<1>3. <<a>> \o <<>> = <<a>>
  BY <1>1
<1>4. <<a>> \o <<b>> = <<a, b>>
  <2> DEFINE q == <<a>> \o <<b>>
  <2>1. q \in Seq(Unit) /\ Len(q) = 2 /\ q[1] = a /\ q[2] = b
    BY <1>1
  <2> HIDE DEF q
  <2>2. q = <<a, b>>
    BY <2>1
  <2> QED BY <2>2 DEF q
<1>5. SubSeq(<<a>>, 1, 1) = <<a>>
  <2> DEFINE d == <<a>>
             q == SubSeq(d, 1, 1)
  <2> HIDE DEF d
  <2>1. d \in Seq(Unit) /\ Len(d) = 1 /\ d[1] = a
    BY <1>1 DEF d
  <2>2. q \in Seq(Unit) /\ Len(q) = 1 /\ q[1] = a
    BY <2>1
  <2> HIDE DEF q
  <2>3. q = <<a>>
    BY <2>2
  <2> QED BY <2>3 DEF q, d
<1> DEFINE p == <<a, b>>
<1> HIDE DEF p
<1>6. p \in Seq(Unit) /\ Len(p) = 2 /\ p[1] = a /\ p[2] = b
  BY <1>2 DEF p
<1>7. SubSeq(p, 1, 1) = <<a>>
  <2> DEFINE q == SubSeq(p, 1, 1)
  <2>1. q \in Seq(Unit) /\ Len(q) = 1 /\ q[1] = a
    BY <1>6
  <2> HIDE DEF q
  <2>2. q = <<a>>
    BY <2>1
  <2> QED BY <2>2 DEF q
<1>8. SubSeq(p, 2, 2) = <<b>>
  <2> DEFINE q == SubSeq(p, 2, 2)
  <2>1. q \in Seq(Unit) /\ Len(q) = 1 /\ q[1] = b
    BY <1>6
  <2> HIDE DEF q
  <2>2. q = <<b>>
    BY <2>1
  <2> QED BY <2>2 DEF q
<1>9. SubSeq(p, 1, 2) = p
  BY <1>6
<1> QED BY <1>1, <1>2, <1>3, <1>4, <1>5, <1>7, <1>8, <1>9 DEF p

LEMMA SocketWriteIs ==
    ASSUME NEW data, NEW a \in Unit, NEW b \in Unit, data = <<a, b>> \/ data = <<b>>,
           NEW x \in ISSocketWrite(data)
    PROVE  \/ x.count = 0 /\ x.data = <<>>
           \/ x.count = 1 /\ x.data = <<data[1]>>
           \/ x.count = 2 /\ data = <<a, b>> /\ (x.data = <<a, b>> \/ x.data = <<a>> \o <<a>>)
           \/ x.count = 3 /\ data = <<a, b>> /\ x.data = <<a>> \o <<a, b>>
<1> DEFINE L == Len(data)
<1>0. data \in Seq(Unit)
  BY Cells
<1>1. /\ L = 1 \/ L = 2
      /\ L = 2 => data = <<a, b>> /\ data[1] = a
      /\ data[1] \in Unit
      /\ SubSeq(data, 1, 1) = <<data[1]>>
      /\ L = 2 => SubSeq(data, 1, 2) = <<a, b>>
  <2>1. CASE data = <<a, b>>
    BY <2>1, Cells
  <2>2. CASE data = <<b>>
    <3>1. L = 1 /\ data[1] = b /\ SubSeq(data, 1, 1) = <<b>>
      BY <2>2, Cells
    <3> QED BY <3>1
  <2> QED BY <2>1, <2>2
<1>2. PICK m \in 0..L : \E t \in [1..m -> 1..L] :
         /\ t # <<>> => Sum(Front(t)) < L
         /\ x = [count |-> Sum(t), data |-> FlattenSeq([i \in 1..Len(t) |-> SubSeq(data, 1, t[i])])]
  BY DEF ISSocketWrite
<1>3. PICK t \in [1..m -> 1..L] :
         /\ t # <<>> => Sum(Front(t)) < L
         /\ x = [count |-> Sum(t), data |-> FlattenSeq([i \in 1..Len(t) |-> SubSeq(data, 1, t[i])])]
  BY <1>2
<1> DEFINE q == [i \in 1..Len(t) |-> SubSeq(data, 1, t[i])]
<1>4. x.count = Sum(t) /\ x.data = FlattenSeq(q)
  BY <1>3
<1> HIDE DEF L
<1>5. m \in Nat /\ m <= 2 /\ (m = 0 \/ m = 1 \/ (m = 2 /\ L = 2))
  BY <1>1
<1>6. \A i \in 1..m : t[i] = 1 \/ (t[i] = 2 /\ L = 2)
  BY <1>1
<1>7. t \in Seq(Nat) /\ Len(t) = m
  <2>1. \A i \in 1..m : t[i] \in Nat
    BY <1>6
  <2>2. t \in [1..m -> Nat]
    BY <2>1
  <2> QED BY <1>5, <2>2
<1>8. q \in Seq(Seq(Unit)) /\ Len(q) = m /\ \A i \in 1..m : q[i] = SubSeq(data, 1, t[i])
  <2>1. <<data[1]>> \in Seq(Unit) /\ <<a, b>> \in Seq(Unit)
    BY <1>1, Cells
  <2>2. \A i \in 1..m : SubSeq(data, 1, t[i]) \in Seq(Unit)
    BY <1>1, <1>6, <2>1
  <2>3. q \in [1..m -> Seq(Unit)] /\ \A i \in 1..m : q[i] = SubSeq(data, 1, t[i])
    BY <1>7, <2>2
  <2> HIDE DEF q
  <2>4. q \in Seq(Seq(Unit)) /\ Len(q) = m
    BY <1>5, <2>3
  <2> QED BY <2>3, <2>4
<1> HIDE DEF q
<1>9. CASE m = 0
  <2>1. Sum(t) = 0 /\ FlattenSeq(q) = <<>>
    BY <1>5, <1>7, <1>8, <1>9, SumIs, FlattenIs
  <2> QED BY <1>4, <2>1
<1>10. CASE m = 1
  <2>1. Sum(t) = t[1] /\ FlattenSeq(q) = q[1] /\ q[1] = SubSeq(data, 1, t[1])
    <3>1. Sum(t) = t[1]
      <4>1. Len(t) = 1 /\ Len(t) <= 2
        BY <1>7, <1>10
      <4> QED BY <1>7, <4>1, SumIs
    <3>2. FlattenSeq(q) = q[1]
      <4>1. Len(q) = 1 /\ Len(q) <= 2
        BY <1>8, <1>10
      <4> QED BY <1>8, <4>1, FlattenIs
    <3>3. q[1] = SubSeq(data, 1, t[1])
      BY <1>8, <1>10
    <3> QED BY <3>1, <3>2, <3>3
  <2>2. t[1] = 1 \/ (t[1] = 2 /\ L = 2)
    BY <1>6, <1>10
  <2> QED BY <1>1, <1>4, <2>1, <2>2
<1>11. CASE m = 2 /\ L = 2
  <2>0. 1 \in 1..m /\ 2 \in 1..m
    BY <1>11
  <2>1. Sum(t) = t[1] + t[2]
    BY <1>5, <1>7, <1>11, SumIs
  <2>2. FlattenSeq(q) = q[1] \o q[2]
    BY <1>5, <1>8, <1>11, FlattenIs
  <2>3. q[1] = SubSeq(data, 1, t[1]) /\ q[2] = SubSeq(data, 1, t[2])
    BY <1>8, <2>0
  <2>4. t # <<>>
    <3>1. Len(t) = 2 /\ Len(<<>>) = 0
      BY <1>7, <1>11
    <3> QED BY <3>1
  <2>5. Front(t) \in Seq(Nat) /\ Len(Front(t)) = 1 /\ Front(t)[1] = t[1]
    BY <1>7, <1>11 DEF Front
  <2>6. Sum(Front(t)) = t[1]
    <3> DEFINE r == Front(t)
    <3>1. r \in Seq(Nat) /\ Len(r) = 1 /\ Len(r) <= 2 /\ r[1] = t[1]
      BY <2>5
    <3> HIDE DEF r
    <3>2. Sum(r) = t[1]
      BY <3>1, SumIs
    <3> QED BY <3>2 DEF r
  <2>7. t[1] = 1
    BY <1>3, <1>6, <1>11, <2>0, <2>4, <2>6 DEF L
  <2>8. t[2] = 1 \/ t[2] = 2
    BY <1>6, <2>0
  <2>9. SubSeq(data, 1, 1) = <<a>> /\ SubSeq(data, 1, 2) = <<a, b>>
    BY <1>1, <1>11
  <2>10. x.data = <<a>> \o SubSeq(data, 1, t[2]) /\ x.count = 1 + t[2]
    BY <1>4, <2>1, <2>2, <2>3, <2>7, <2>9
  <2>11. CASE t[2] = 1
    BY <1>1, <1>11, <2>9, <2>10, <2>11
  <2>12. CASE t[2] = 2
    BY <1>1, <1>11, <2>9, <2>10, <2>12
  <2> QED BY <2>8, <2>11, <2>12
<1> QED BY <1>5, <1>9, <1>10, <1>11

\* What becomes of the connection to a client with a packet: nothing is
\* written or a first unit only, and it is dropped, or two first units or
\* those and the second or the packet.
LEMMA WriteIs ==
    ASSUME NEW n \in 1..Len(Output), NEW w \in WriteTo(Packet(n)), NEW a \in Unit, NEW b \in Unit,
           Packet(n) = <<a, b>>
    PROVE  \/ ~w.kept /\ w.data = <<>>
           \/ ~w.kept /\ w.data = <<a>>
           \/ w.kept /\ w.data = Packet(n) /\ Packet(n) = <<a, b>>
           \/ w.kept /\ w.data = <<a>> \o <<a>>
           \/ w.kept /\ w.data = <<a>> \o <<a, b>>
<1>1. Packet(n) = <<a, b>> /\ Packet(n) \in Seq(Unit) /\ a \in Unit /\ b \in Unit
  <2>1. Packet(n) \in Seq(Unit)
    BY PacketIs
  <2> QED BY <2>1
<1>2. PICK first \in ISSocketWrite(Packet(n)) :
         w \in IF first.count \in 1..(Units - 1)
               THEN {[data |-> first.data \o second.data, kept |-> second.count > 0] :
                        second \in ISSocketWrite(SubSeq(Packet(n), first.count + 1, Units))}
               ELSE {[data |-> first.data, kept |-> first.count > 0]}
  BY DEF WriteTo
<1>3. \/ first.count = 0 /\ first.data = <<>>
      \/ first.count = 1 /\ first.data = <<a>>
      \/ first.count = 2 /\ (first.data = <<a, b>> \/ first.data = <<a>> \o <<a>>)
      \/ first.count = 3 /\ first.data = <<a>> \o <<a, b>>
  <2> DEFINE d == <<a, b>>
  <2>1. d[1] = a /\ first \in ISSocketWrite(d)
    BY <1>1, <1>2, Cells
  <2>2. a \in Unit /\ b \in Unit /\ (d = <<a, b>> \/ d = <<b>>)
    BY <1>1
  <2> HIDE DEF d
  <2>3. \/ first.count = 0 /\ first.data = <<>>
        \/ first.count = 1 /\ first.data = <<d[1]>>
        \/ first.count = 2 /\ d = <<a, b>> /\ (first.data = <<a, b>> \/ first.data = <<a>> \o <<a>>)
        \/ first.count = 3 /\ d = <<a, b>> /\ first.data = <<a>> \o <<a, b>>
    <3>1. d = <<a, b>> /\ first \in ISSocketWrite(d)
      BY <2>1 DEF d
    <3> QED BY <2>2, <3>1, SocketWriteIs, ZenonT(40)
  <2> QED BY <2>1, <2>3
<1>4. CASE first.count = 1
  <2>1. SubSeq(Packet(n), 2, 2) = <<b>>
    <3>1. SubSeq(<<a, b>>, 2, 2) = <<b>>
      BY <1>1, Cells, Zenon
    <3> QED BY <1>1, <3>1
  <2>2. first.count \in 1..(Units - 1) /\ first.count + 1 = 2 /\ Units = 2
    BY <1>4 DEF Units
  <2>3. PICK second \in ISSocketWrite(<<b>>) :
           w = [data |-> first.data \o second.data, kept |-> second.count > 0]
    BY <1>2, <2>1, <2>2
  <2>4. <<b>> # <<a, b>> /\ <<b>>[1] = b
    <3>1. Len(<<b>>) = 1 /\ Len(<<a, b>>) = 2 /\ <<b>>[1] = b
      BY <1>1, Cells
    <3> QED BY <3>1
  <2>5. \/ second.count = 0 /\ second.data = <<>>
        \/ second.count = 1 /\ second.data = <<b>>
    <3> DEFINE d == <<b>>
    <3>1. second \in ISSocketWrite(d) /\ d[1] = b /\ d # <<a, b>> /\ d = <<b>>
      BY <2>3, <2>4
    <3>2. a \in Unit /\ b \in Unit /\ (d = <<a, b>> \/ d = <<b>>)
      BY <1>1, <3>1
    <3> HIDE DEF d
    <3>3. \/ second.count = 0 /\ second.data = <<>>
          \/ second.count = 1 /\ second.data = <<d[1]>>
          \/ second.count = 2 /\ d = <<a, b>> /\ (second.data = <<a, b>> \/ second.data = <<a>> \o <<a>>)
          \/ second.count = 3 /\ d = <<a, b>> /\ second.data = <<a>> \o <<a, b>>
      BY <3>1, <3>2, SocketWriteIs, Zenon
    <3> QED BY <3>1, <3>3
  <2>6. <<a>> \o <<>> = <<a>> /\ <<a>> \o <<b>> = <<a, b>>
    BY <1>1, Cells
  <2>7. first.data = <<a>>
    BY <1>3, <1>4
  <2>8. w.data = first.data \o second.data /\ (w.kept <=> second.count > 0)
    BY <2>3
  <2>9. CASE second.count = 0 /\ second.data = <<>>
    BY <2>6, <2>7, <2>8, <2>9
  <2>10. CASE second.count = 1 /\ second.data = <<b>>
    BY <1>1, <2>6, <2>7, <2>8, <2>10
  <2> QED BY <2>5, <2>9, <2>10
<1>5. CASE first.count # 1
  <2>1. first.count \notin 1..(Units - 1)
    BY <1>3, <1>5 DEF Units
  <2>2. w = [data |-> first.data, kept |-> first.count > 0]
    BY <1>2, <2>1
  <2>3. w.data = first.data /\ (w.kept <=> first.count > 0)
    BY <2>2
  <2> QED BY <1>1, <1>3, <1>5, <2>3
<1> QED BY <1>4, <1>5

\* What is written of packet n: first units of it, and the second one at most
\* as the last.
Written(n, data) ==
    /\ data \in Seq(Unit) /\ Len(data) <= 3
    /\ \A i \in 1..Len(data) : data[i].packet = n /\ (data[i].at = 2 => i = Len(data))
    /\ Len(data) >= 1 => data[1].at = 1
    /\ Len(data) = 3 => data[3].at = 2
    /\ data = Packet(n) => Len(data) = 2 /\ data[2].at = 2

LEMMA WrittenIs ==
    ASSUME NEW n \in 1..Len(Output), NEW w \in WriteTo(Packet(n))
    PROVE  Written(n, w.data) /\ (w.kept => Len(w.data) >= 2)
<1> DEFINE a == [packet |-> n, at |-> 1]
           b == [packet |-> n, at |-> 2]
<1>1. a \in Unit /\ b \in Unit /\ a.packet = n /\ a.at = 1 /\ b.packet = n /\ b.at = 2
  BY DEF Unit, Units
<1>2. Packet(n) = <<a, b>>
  BY PacketIs
<1> HIDE DEF a, b
<1>3. Len(<<a, b>>) = 2 /\ <<a, b>>[1] = a /\ <<a, b>>[2] = b /\ Len(<<a>>) = 1 /\ <<a>>[1] = a
      /\ <<a>> \in Seq(Unit) /\ <<a, b>> \in Seq(Unit)
  BY <1>1, Cells
<1>4. CASE ~w.kept /\ w.data = <<>>
  <2>1. <<>> # Packet(n) /\ <<>> \in Seq(Unit) /\ Len(<<>>) = 0
    BY <1>2, <1>3
  <2> QED BY <1>4, <2>1 DEF Written
<1>5. CASE ~w.kept /\ w.data = <<a>>
  <2>1. <<a>> # Packet(n)
    BY <1>2, <1>3
  <2> QED BY <1>1, <1>3, <1>5, <2>1 DEF Written
<1>6. CASE w.kept /\ w.data = <<a, b>>
  <2>1. \A i \in 1..Len(w.data) : i = 1 \/ i = 2
    BY <1>3, <1>6
  <2> QED BY <1>1, <1>3, <1>6, <2>1 DEF Written
<1>7. CASE w.kept /\ w.data = <<a>> \o <<a>>
  <2> DEFINE d == <<a>> \o <<a>>
  <2>1. d \in Seq(Unit) /\ Len(d) = 2 /\ d[1] = a /\ d[2] = a
    BY <1>3
  <2> HIDE DEF d
  <2>2. d # Packet(n)
    BY <1>1, <1>2, <1>3, <2>1
  <2>3. w.data = d
    BY <1>7 DEF d
  <2>4. \A i \in 1..Len(d) : d[i].packet = n /\ (d[i].at = 2 => i = Len(d))
    <3>1. \A i \in 1..Len(d) : i = 1 \/ i = 2
      BY <2>1
    <3> QED BY <1>1, <2>1, <3>1
  <2>5. Written(n, d)
    BY <1>1, <2>1, <2>2, <2>4 DEF Written
  <2>6. Len(d) >= 2
    BY <2>1
  <2> QED BY <2>3, <2>5, <2>6
<1>8. CASE w.kept /\ w.data = <<a>> \o <<a, b>>
  <2> DEFINE d == <<a>> \o <<a, b>>
  <2>1. d \in Seq(Unit) /\ Len(d) = 3 /\ d[1] = a /\ d[2] = a /\ d[3] = b
    BY <1>3
  <2> HIDE DEF d
  <2>2. d # Packet(n)
    BY <1>2, <1>3, <2>1
  <2>3. w.data = d
    BY <1>8 DEF d
  <2>4. \A i \in 1..Len(d) : d[i].packet = n /\ (d[i].at = 2 => i = Len(d))
    <3>1. \A i \in 1..Len(d) : i = 1 \/ i = 2 \/ i = 3
      BY <2>1
    <3> QED BY <1>1, <2>1, <3>1
  <2>5. Written(n, d)
    BY <1>1, <2>1, <2>2, <2>4 DEF Written
  <2>6. Len(d) >= 2
    BY <2>1
  <2> QED BY <2>3, <2>5, <2>6
<1> QED BY <1>1, <1>2, <1>4, <1>5, <1>6, <1>7, <1>8, WriteIs

\* Of the lost packets those count that are owed.
LEMMA OnlyOwed ==
    ASSUME CorrectionsAssumption, NEW s \in Reads, NEW c \in Connection, NEW e, NEW S, NEW G,
           Found(s, c, 0, e, S, G)
    PROVE  Found(s, c, 0, e, S, G \cap c.owed)
<1> DEFINE H == G \cap c.owed
<1>1. /\ G \in SUBSET (1..Len(Output)) /\ H \subseteq G /\ (c.whole => G = {})
      /\ Cardinality(G) <= MaxBehind \div Units + 1
      /\ \A g \in G, n \in c.owed \ c.cut : n < g => n \in G
  BY DEF Found
<1>2. Cardinality(H) \in Nat /\ Cardinality(G) \in Nat /\ Cardinality(H) <= Cardinality(G)
  <2>1. Len(Output) \in Int /\ 1 \in Int
    BY DEF CorrectionsAssumption
  <2>2. IsFiniteSet(1..Len(Output))
    BY <2>1, FS_Interval
  <2>3. IsFiniteSet(G)
    BY <1>1, <2>2, FS_Subset
  <2>4. IsFiniteSet(H) /\ Cardinality(H) <= Cardinality(G)
    BY <1>1, <2>3, FS_Subset
  <2> QED BY <2>3, <2>4, FS_CardinalityType
<1>3. MaxBehind \in Nat /\ s.behind \in Nat /\ MaxBehind \div Units \in Int
  BY DEF CorrectionsAssumption, Reads, Units
<1> HIDE DEF H
<1>4. Astray(s, c, 0, S, G) => Astray(s, c, 0, S, H)
  BY <1>2, <1>3 DEF Astray
<1>5. Cardinality(H) <= MaxBehind \div Units + 1
  BY <1>1, <1>2, <1>3
<1>6. \A X : c.owed \ c.cut \subseteq G \cup X => c.owed \ c.cut \subseteq H \cup X
  BY DEF H
<1>7. \A g \in H, n \in c.owed \ c.cut : n < g => n \in H
  BY <1>1 DEF H
<1>8. H \in SUBSET (1..Len(Output)) /\ (c.whole => H = {})
  BY <1>1 DEF H
<1>9. \/ Astray(s, c, 0, S, H) /\ c.owed \ c.cut \subseteq H \cup Coming(c, 0, S)
      \/ /\ Between(s, c, 0, S)
         /\ c.owed \ c.cut \subseteq H \cup Coming(c, 0, S) \cup ToSet(s.applied)
      \/ /\ Within(s, c, 0, e, S)
         /\ c.owed \ c.cut \subseteq H \cup Coming(c, 0, S) \cup ToSet(s.applied)
                                   \cup {s.begun[1].packet}
  <2>1. CASE Astray(s, c, 0, S, G) /\ c.owed \ c.cut \subseteq G \cup Coming(c, 0, S)
    BY <1>4, <1>6, <2>1
  <2>2. CASE Between(s, c, 0, S) /\ c.owed \ c.cut \subseteq G \cup Coming(c, 0, S) \cup ToSet(s.applied)
    BY <2>2 DEF H
  <2>3. CASE /\ Within(s, c, 0, e, S)
             /\ c.owed \ c.cut \subseteq G \cup Coming(c, 0, S) \cup ToSet(s.applied)
                                       \cup {s.begun[1].packet}
    BY <2>3 DEF H
  <2> QED BY <2>1, <2>2, <2>3 DEF Found
<1>10. Found(s, c, 0, e, S, H)
  BY <1>5, <1>7, <1>8, <1>9 DEF Found
<1> QED BY <1>10 DEF H

LEMMA FitsOn ==
    ASSUME NEW s \in Reads, NEW c \in Connection, NEW top \in Nat, NEW e \in BOOLEAN,
           NEW top2 \in Nat, NEW e2 \in BOOLEAN, top <= top2, e => e2, Fits(s, c, top, e)
    PROVE  Fits(s, c, top2, e2)
<1>1. /\ \A i \in 1..Len(s.applied) : s.applied[i] \in Nat
      /\ \A i \in 1..Len(c.wire) : c.wire[i].packet \in Nat
      /\ \A n \in c.owed : n \in Nat
  <2>1. \A i \in 1..Len(s.applied) : s.applied[i] \in Nat
    BY DEF Reads
  <2>2. \A n \in c.owed : n \in Nat
    BY DEF Connection
  <2> QED BY <2>1, <2>2, UnitOf
<1>2. InOrder(s, c, 0, top2)
  <2>1. \A i \in 1..Len(s.applied) : s.applied[i] <= top2
    <3>1. \A i \in 1..Len(s.applied) : s.applied[i] <= top
      BY DEF Fits, InOrder
    <3> QED BY <1>1, <3>1
  <2>2. \A i \in 1..Len(c.wire) : c.wire[i].packet <= top2
    BY <1>1 DEF Fits, InOrder
  <2>3. \A n \in c.owed : n <= top2
    BY <1>1 DEF Fits, InOrder
  <2>4. 0 + 1 = 1
    OBVIOUS
  <2> QED BY <2>1, <2>2, <2>3, <2>4 DEF Fits, InOrder
<1>3. PICK S \in SUBSET (1..Len(c.wire)), G \in SUBSET (1..Len(Output)) :
         Blocks(c, e, S) /\ Found(s, c, 0, e, S, G)
  BY DEF Fits
<1>4. Blocks(c, e2, S)
  BY <1>3 DEF Blocks
<1>5. Within(s, c, 0, e, S) => Within(s, c, 0, e2, S)
  BY DEF Within
<1>6. Found(s, c, 0, e2, S, G)
  BY <1>3, <1>5 DEF Found
<1> QED BY <1>2, <1>4, <1>6 DEF Fits

\* The connection to a client of the base that a packet is written to.
Extended(c, n, data) ==
    [c EXCEPT !.wire = @ \o data, !.cut = IF data = Packet(n) THEN @ ELSE @ \cup {n},
              !.owed = @ \cup {n}]

LEMMA ExtendedIs ==
    ASSUME NEW c \in Connection, NEW n \in 1..Len(Output), NEW data, Written(n, data)
    PROVE  /\ Extended(c, n, data) \in Connection
           /\ Extended(c, n, data).wire = c.wire \o data
           /\ \A x : x \in Extended(c, n, data).owed <=> (x \in c.owed \/ x = n)
           /\ \A x : x \in Extended(c, n, data).cut <=> (x \in c.cut \/ (x = n /\ data # Packet(n)))
           /\ Extended(c, n, data).whole = c.whole /\ Extended(c, n, data).here = c.here
<1> DEFINE d == Extended(c, n, data)
           wire == c.wire \o data
           cut == IF data = Packet(n) THEN c.cut ELSE c.cut \cup {n}
           owed == c.owed \cup {n}
<1>1. c = [here |-> c.here, wire |-> c.wire, owed |-> c.owed, cut |-> c.cut, whole |-> c.whole]
  BY DEF Connection
<1>2. d = [here |-> c.here, wire |-> wire, owed |-> owed, cut |-> cut, whole |-> c.whole]
  <2>1. d = [[[c EXCEPT !.wire = wire] EXCEPT !.cut = cut] EXCEPT !.owed = owed]
    BY <1>1 DEF Extended
  <2> HIDE DEF d, wire, cut, owed
  <2> QED BY <1>1, <2>1
<1>3. wire \in Seq(Unit) /\ cut \in SUBSET (1..Len(Output)) /\ owed \in SUBSET (1..Len(Output))
      /\ c.here \in BOOLEAN /\ c.whole \in BOOLEAN
  <2>1. c.wire \in Seq(Unit) /\ data \in Seq(Unit)
    BY DEF Connection, Written
  <2>2. c.cut \in SUBSET (1..Len(Output)) /\ c.owed \in SUBSET (1..Len(Output))
        /\ c.here \in BOOLEAN /\ c.whole \in BOOLEAN
    BY DEF Connection
  <2>3. wire \in Seq(Unit)
    BY <2>1
  <2> HIDE DEF wire
  <2> QED BY <2>2, <2>3
<1> HIDE DEF wire, cut, owed, d
<1>4. d \in Connection /\ d.wire = wire /\ d.cut = cut /\ d.owed = owed /\ d.whole = c.whole
      /\ d.here = c.here
  BY <1>2, <1>3 DEF Connection
<1> QED BY <1>4 DEF d, wire, cut, owed

LEMMA FitsWrite ==
    ASSUME CorrectionsAssumption, NEW s \in Reads, NEW c \in Connection, NEW top \in Nat,
           NEW n \in 1..Len(Output), top < n, Forwarded(Output[n]),
           NEW data, Written(n, data), NEW e \in BOOLEAN, e \/ Len(data) >= 2, Fits(s, c, top, FALSE)
    PROVE  Fits(s, Extended(c, n, data), n, e)
<1> DEFINE d == Extended(c, n, data)
<1>2. /\ d \in Connection /\ d.wire = c.wire \o data
      /\ \A x : x \in d.owed <=> (x \in c.owed \/ x = n)
      /\ \A x : x \in d.cut <=> (x \in c.cut \/ (x = n /\ data # Packet(n)))
      /\ d.whole = c.whole /\ d.here = c.here
  BY ExtendedIs
<1> HIDE DEF d
<1> DEFINE L == Len(c.wire)
           D == Len(data)
           M == Len(d.wire)
<1>1. /\ c.wire \in Seq(Unit) /\ data \in Seq(Unit) /\ L \in Nat /\ D \in Nat /\ D <= 3 /\ n \in Nat
      /\ \A i \in 1..D : data[i].packet = n /\ (data[i].at = 2 => i = D)
      /\ D >= 1 => data[1].at = 1
      /\ D = 3 => data[3].at = 2
      /\ data = Packet(n) => D = 2 /\ data[2].at = 2
      /\ e \/ D >= 2
  BY DEF Written, Connection
<1>3. d.wire \in Seq(Unit) /\ M = L + D /\ M \in Nat
  BY <1>1, <1>2
<1>4. \A i \in 1..L : d.wire[i] = c.wire[i]
  BY <1>1, <1>2
<1>5. \A i \in 1..D : d.wire[L + i] = data[i]
  <2> SUFFICES ASSUME NEW i \in 1..D PROVE d.wire[L + i] = data[i]
    OBVIOUS
  <2> DEFINE j == L + i
  <2>1. j \in 1..(L + D) /\ j > L /\ j - L = i
    <3> HIDE DEF L, D
    <3> QED BY <1>1
  <2> HIDE DEF j
  <2>2. (c.wire \o data)[j] = IF j <= L THEN c.wire[j] ELSE data[j - L]
    BY <1>1, <2>1
  <2>3. ~(j <= L)
    <3> HIDE DEF L, D
    <3> QED BY <1>1, <2>1
  <2>4. d.wire[j] = data[i]
    BY <1>2, <2>1, <2>2, <2>3
  <2> QED BY <2>4 DEF j
<1> HIDE DEF L, D, M
<1>7. \A i \in 1..M : i \in 1..L \/ (i - L \in 1..D /\ L + (i - L) = i)
  BY <1>1, <1>3
<1>8. \A i \in 1..M :
         \/ i \in 1..L /\ d.wire[i] = c.wire[i] /\ d.wire[i].packet < n /\ d.wire[i].packet <= n
         \/ i > L /\ i - L \in 1..D /\ d.wire[i] = data[i - L] /\ d.wire[i].packet = n
            /\ (d.wire[i].at = 2 => i = M)
  <2> SUFFICES ASSUME NEW i \in 1..M
               PROVE  \/ i \in 1..L /\ d.wire[i] = c.wire[i] /\ d.wire[i].packet < n
                         /\ d.wire[i].packet <= n
                      \/ i > L /\ i - L \in 1..D /\ d.wire[i] = data[i - L] /\ d.wire[i].packet = n
                         /\ (d.wire[i].at = 2 => i = M)
    OBVIOUS
  <2>1. CASE i \in 1..L
    <3>1. c.wire[i].packet <= top
      BY <2>1 DEF Fits, InOrder, L
    <3>2. c.wire[i].packet \in Nat
      BY <2>1, UnitOf DEF L
    <3>3. c.wire[i].packet < n /\ c.wire[i].packet <= n
      BY <3>1, <3>2
    <3> QED BY <1>4, <2>1, <3>3
  <2>2. CASE i - L \in 1..D /\ L + (i - L) = i
    <3>1. d.wire[i] = data[i - L]
      BY <1>5, <2>2
    <3>2. i > L /\ (i - L = D => i = M)
      BY <1>1, <1>3, <2>2
    <3> QED BY <1>1, <2>2, <3>1, <3>2
  <2> QED BY <1>7, <2>1, <2>2
<1>9. /\ s.applied \in Seq(1..Len(Output))
      /\ \A a \in 1..Len(s.applied) : s.applied[a] \in Nat /\ s.applied[a] <= top
  <2>1. s.applied \in Seq(1..Len(Output)) /\ \A a \in 1..Len(s.applied) : s.applied[a] \in Nat
    BY DEF Reads
  <2>2. \A a \in 1..Len(s.applied) : s.applied[a] <= top
    BY DEF Fits, InOrder
  <2> QED BY <2>1, <2>2
<1>10. InOrder(s, d, 0, n)
  <2>1. \A i \in 1..Len(s.applied) : s.applied[i] <= n
    BY <1>9
  <2>2. \A i \in 1..M :
           /\ d.wire[i].packet <= n /\ Forwarded(Output[d.wire[i].packet])
           /\ \A a \in 1..Len(s.applied) : s.applied[a] < d.wire[i].packet
    <3> SUFFICES ASSUME NEW i \in 1..M
                 PROVE  /\ d.wire[i].packet <= n /\ Forwarded(Output[d.wire[i].packet])
                        /\ \A a \in 1..Len(s.applied) : s.applied[a] < d.wire[i].packet
      OBVIOUS
    <3>1. CASE i \in 1..L /\ d.wire[i] = c.wire[i] /\ d.wire[i].packet < n /\ d.wire[i].packet <= n
      <4>1. Forwarded(Output[c.wire[i].packet])
            /\ \A a \in 1..Len(s.applied) : s.applied[a] < c.wire[i].packet
        BY <3>1 DEF Fits, InOrder, L
      <4> QED BY <3>1, <4>1
    <3>2. CASE d.wire[i].packet = n
      <4>1. n <= n /\ \A a \in 1..Len(s.applied) : s.applied[a] < n
        BY <1>1, <1>9
      <4> QED BY <3>2, <4>1
    <3> QED BY <1>8, <3>1, <3>2
  <2>3. \A i \in 1..M : \A j \in (i + 1)..M :
           /\ d.wire[i].packet <= d.wire[j].packet
           /\ d.wire[i].at = 2 => d.wire[i].packet < d.wire[j].packet
    <3> SUFFICES ASSUME NEW i \in 1..M, NEW j \in (i + 1)..M
                 PROVE  /\ d.wire[i].packet <= d.wire[j].packet
                        /\ d.wire[i].at = 2 => d.wire[i].packet < d.wire[j].packet
      OBVIOUS
    <3>1. j \in 1..M /\ i # M /\ (j \in 1..L => i \in 1..L /\ j \in (i + 1)..L)
      BY <1>1, <1>3
    <3>2. CASE j \in 1..L
      <4>1. d.wire[i] = c.wire[i] /\ d.wire[j] = c.wire[j]
        BY <1>4, <3>1, <3>2
      <4>2. /\ c.wire[i].packet <= c.wire[j].packet
            /\ c.wire[i].at = 2 => c.wire[i].packet < c.wire[j].packet
        <5>1. i \in (0 + 1)..L
          BY <3>1, <3>2
        <5>2. \A x \in (0 + 1)..L : \A y \in (x + 1)..L :
                 /\ c.wire[x].packet <= c.wire[y].packet
                 /\ c.wire[x].at = 2 => c.wire[x].packet < c.wire[y].packet
          BY DEF Fits, InOrder, L
        <5> QED BY <3>1, <3>2, <5>1, <5>2
      <4> QED BY <4>1, <4>2
    <3>3. CASE j \notin 1..L
      <4>1. d.wire[j].packet = n
        BY <1>8, <3>1, <3>3
      <4>2. CASE i \in 1..L
        <5>1. ~(i > L)
          BY <1>1, <4>2
        <5>2. d.wire[i].packet < n /\ d.wire[i].packet <= n
          BY <1>8, <5>1
        <5> QED BY <4>1, <5>2
      <4>3. CASE i \notin 1..L
        <5>1. d.wire[i].packet = n /\ d.wire[i].at # 2
          BY <1>8, <3>1, <4>3
        <5>2. n <= n
          BY <1>1
        <5> QED BY <4>1, <5>1, <5>2
      <4> QED BY <4>2, <4>3
    <3> QED BY <3>2, <3>3
  <2>4. \A x \in d.owed : x <= n
    <3>1. \A x \in c.owed : x <= top /\ x \in Nat
      BY DEF Fits, InOrder, Connection
    <3> QED BY <1>1, <1>2, <3>1
  <2>5. 0 + 1 = 1 /\ M = Len(d.wire)
    BY DEF M
  <2> QED BY <2>1, <2>2, <2>3, <2>4, <2>5 DEF Fits, InOrder
<1>11. PICK S \in SUBSET (1..L), G0 \in SUBSET (1..Len(Output)) :
          Blocks(c, FALSE, S) /\ Found(s, c, 0, FALSE, S, G0)
  BY DEF Fits, L
<1> DEFINE G == G0 \cap c.owed
           T == S \cup {i \in 1..M : i = L + 1}
<1>12. Found(s, c, 0, FALSE, S, G) /\ \A g \in G : g \in Nat /\ g < n
  <2>1. Found(s, c, 0, FALSE, S, G)
    BY <1>11, OnlyOwed, Zenon
  <2>2. \A g \in c.owed : g <= top /\ g \in Nat
    BY DEF Fits, InOrder, Connection
  <2>3. \A g \in c.owed : g \in Nat /\ g < n
    BY <2>2
  <2> QED BY <2>1, <2>3
<1>13. /\ T \subseteq 1..M
       /\ \A i \in T : (i \in S /\ i \in 1..L) \/ (i = L + 1 /\ D >= 1)
       /\ \A i \in 1..L : i \in T <=> i \in S
       /\ D >= 1 => L + 1 \in T
       /\ L + 2 \notin T
  <2>1. \A i \in S : i \in 1..L
    BY <1>11
  <2>2. \A i : i \in T <=> i \in S \/ (i \in 1..M /\ i = L + 1)
    OBVIOUS
  <2> HIDE DEF T
  <2>3. (\A i \in 1..L : i \in 1..M) /\ L + 1 \notin 1..L /\ L + 2 \notin 1..L /\ L + 2 # L + 1
        /\ (L + 1 \in 1..M <=> D >= 1)
    BY <1>1, <1>3
  <2>4. T \subseteq 1..M /\ \A i \in T : (i \in S /\ i \in 1..L) \/ (i = L + 1 /\ D >= 1)
    BY <2>1, <2>2, <2>3
  <2>5. \A i \in 1..L : i \in T <=> i \in S
    BY <2>2, <2>3
  <2>6. (D >= 1 => L + 1 \in T) /\ L + 2 \notin T
    BY <2>1, <2>2, <2>3
  <2> QED BY <2>4, <2>5, <2>6
<1> HIDE DEF T, G
<1>14. c.cut \subseteq d.cut
  BY <1>2
<1>15. Blocks(d, e, T)
  <2>1. ASSUME NEW i \in T
        PROVE  /\ d.wire[i].at = 1 /\ i + 1 \notin T
               /\ i = M => e /\ d.wire[i].packet \in d.cut
               /\ i < M => d.wire[i + 1].packet = d.wire[i].packet
               /\ i < M /\ d.wire[i].packet \notin d.cut => d.wire[i + 1].at = 2
    <3>1. CASE i \in S /\ i \in 1..L
      <4>1. /\ c.wire[i].at = 1 /\ i + 1 \notin S /\ i # L
            /\ i < L => c.wire[i + 1].packet = c.wire[i].packet
            /\ i < L /\ c.wire[i].packet \notin c.cut => c.wire[i + 1].at = 2
        BY <1>11, <3>1 DEF Blocks, L
      <4>2. i < L /\ i + 1 \in 1..L /\ i # M
        BY <1>1, <1>3, <3>1, <4>1
      <4> QED BY <1>4, <1>13, <1>14, <3>1, <4>1, <4>2
    <3>2. CASE i = L + 1 /\ D >= 1
      <4>1. 1 \in 1..D /\ (D >= 2 => 2 \in 1..D) /\ i + 1 = L + 2
        BY <1>1, <3>2
      <4>2. d.wire[i] = data[1] /\ (D >= 2 => d.wire[i + 1] = data[2])
        BY <1>5, <3>2, <4>1
      <4>3. i = M => D = 1
        BY <1>1, <1>3, <3>2
      <4>4. i < M => D >= 2
        BY <1>1, <1>3, <3>2
      <4>5. i = M => e /\ d.wire[i].packet \in d.cut
        <5>1. ASSUME i = M PROVE e /\ data # Packet(n)
          BY <1>1, <4>3, <5>1
        <5>2. d.wire[i].packet = n
          BY <1>1, <4>1, <4>2
        <5>3. data # Packet(n) => n \in d.cut
          BY <1>2
        <5> QED BY <5>1, <5>2, <5>3
      <4>6. i < M /\ d.wire[i].packet \notin d.cut => d.wire[i + 1].at = 2
        <5>1. ASSUME d.wire[i].packet \notin d.cut PROVE data = Packet(n)
          <6>1. d.wire[i].packet = n
            BY <1>1, <4>1, <4>2
          <6>2. data # Packet(n) => n \in d.cut
            BY <1>2
          <6> QED BY <5>1, <6>1, <6>2
        <5> QED BY <1>1, <4>2, <4>4, <5>1
      <4>7. i < M => d.wire[i + 1].packet = d.wire[i].packet
        BY <1>1, <4>1, <4>2, <4>4
      <4>8. d.wire[i].at = 1 /\ i + 1 \notin T
        BY <1>1, <1>13, <3>2, <4>1, <4>2
      <4> QED BY <4>5, <4>6, <4>7, <4>8
    <3> QED BY <1>13, <3>1, <3>2
  <2>2. ASSUME NEW i \in 2..M, i \notin T, i - 1 \notin T
        PROVE  d.wire[i].at = 2 /\ d.wire[i].packet \in d.cut
    <3>1. CASE i \in 1..L
      <4>1. i \in 2..L /\ i - 1 \in 1..L
        BY <1>1, <3>1
      <4>2. c.wire[i].at = 2 /\ c.wire[i].packet \in c.cut
        BY <1>11, <1>13, <2>2, <3>1, <4>1 DEF Blocks, L
      <4> QED BY <1>4, <1>14, <3>1, <4>2
    <3>2. CASE i \notin 1..L
      <4>1. i \in 1..M
        BY <1>1, <1>3
      <4>2. i - L \in 1..D /\ L + (i - L) = i
        BY <1>7, <3>2, <4>1
      <4>3. D >= 1 /\ i # L + 1 /\ i - 1 # L + 1
        BY <1>1, <1>13, <2>2, <4>2
      <4>4. D = 3 /\ i - L = 3
        BY <1>1, <4>2, <4>3
      <4>5. d.wire[i] = data[3] /\ 3 \in 1..D
        BY <1>5, <4>2, <4>4
      <4>6. data # Packet(n)
        BY <1>1, <4>4
      <4> QED BY <1>1, <1>2, <4>4, <4>5, <4>6
    <3> QED BY <3>1, <3>2
  <2> QED BY <1>13, <2>1, <2>2 DEF Blocks, M
<1>16. d.owed \ d.cut \subseteq (c.owed \ c.cut) \cup {n} /\ (D = 0 => d.owed \ d.cut \subseteq c.owed \ c.cut)
  BY <1>1, <1>2
<1>17. Coming(c, 0, S) \subseteq Coming(d, 0, T) /\ (D >= 1 => n \in Coming(d, 0, T))
  <2>1. \A i \in S : i \in T /\ d.wire[i] = c.wire[i]
    BY <1>4, <1>11, <1>13
  <2>2. Coming(c, 0, S) \subseteq Coming(d, 0, T)
    BY <2>1 DEF Coming
  <2>3. ASSUME D >= 1 PROVE n \in Coming(d, 0, T)
    <3>1. L + 1 \in T /\ L + 1 > 0 /\ 1 \in 1..D
      BY <1>1, <1>13, <2>3
    <3>2. d.wire[L + 1].packet = n
      BY <1>1, <1>5, <3>1
    <3> QED BY <3>1, <3>2 DEF Coming
  <2> QED BY <2>2, <2>3
<1>18. d.owed \ d.cut \subseteq (c.owed \ c.cut) \cup Coming(d, 0, T)
  BY <1>1, <1>16, <1>17
<1>19. /\ 0 < L => 0 < M /\ d.wire[1] = c.wire[1] /\ (1 \in T <=> 1 \in S) /\ c.wire[1].packet # n
       /\ ~(0 < L) /\ 0 < M => 1 \in T
       /\ 0 + 1 = 1
  <2>1. ASSUME 0 < L PROVE 0 < M /\ d.wire[1] = c.wire[1] /\ (1 \in T <=> 1 \in S) /\ c.wire[1].packet # n
    <3>1. 1 \in 1..L /\ 1 \in 1..M /\ 0 < M
      BY <1>1, <1>3, <2>1
    <3>2. c.wire[1].packet # n
      <4>1. ~(1 > L)
        BY <1>1, <2>1
      <4>2. d.wire[1] = c.wire[1] /\ d.wire[1].packet < n
        BY <1>8, <3>1, <4>1
      <4>3. ~(n < n)
        BY <1>1
      <4> QED BY <4>2, <4>3
    <3> QED BY <1>4, <1>13, <3>1, <3>2
  <2>2. ASSUME ~(0 < L), 0 < M PROVE 1 \in T
    <3>1. L = 0 /\ D >= 1 /\ L + 1 = 1
      BY <1>1, <1>3, <2>2
    <3> QED BY <1>13, <3>1
  <2>3. 0 + 1 = 1
    OBVIOUS
  <2> QED BY <2>1, <2>2, <2>3
<1>20. HalfLost(d, 0, T) <=> HalfLost(c, 0, S)
  BY <1>2, <1>19 DEF HalfLost, L, M
<1>21. Astray(s, c, 0, S, G) => Astray(s, d, 0, T, G)
  BY <1>2, <1>19, <1>20 DEF Astray, HalfLost, L, M
<1>22. Between(s, c, 0, S) => Between(s, d, 0, T)
  BY <1>19 DEF Between, L, M
<1>23. Within(s, c, 0, FALSE, S) => Within(s, d, 0, e, T)
  <2> SUFFICES ASSUME Within(s, c, 0, FALSE, S) PROVE Within(s, d, 0, e, T)
    OBVIOUS
  <2>1. 0 # L /\ s.begun # <<>> /\ s.behind = 0 /\ 1 \notin S
        /\ (s.begun[1].packet \notin c.cut => c.wire[1] = [packet |-> s.begun[1].packet, at |-> 2])
    BY <1>19 DEF Within, L
  <2>2. 0 < L /\ 0 # M
    BY <1>1, <1>3, <2>1
  <2> QED BY <1>14, <1>19, <2>1, <2>2 DEF Within, M
<1>24. Found(s, d, 0, e, T, G)
  <2>1. /\ G \in SUBSET (1..Len(Output)) /\ (d.whole => G = {})
        /\ Cardinality(G) <= MaxBehind \div Units + 1
    BY <1>2, <1>12 DEF Found
  <2>2. \A g \in G, x \in d.owed \ d.cut : x < g => x \in G
    <3> SUFFICES ASSUME NEW g \in G, NEW x \in d.owed \ d.cut, x < g PROVE x \in G
      OBVIOUS
    <3>1. x # n
      BY <1>1, <1>12
    <3>2. x \in c.owed \ c.cut
      BY <1>16, <3>1
    <3> QED BY <1>12, <3>2 DEF Found
  <2>3. CASE Astray(s, c, 0, S, G) /\ c.owed \ c.cut \subseteq G \cup Coming(c, 0, S)
    <3>1. d.owed \ d.cut \subseteq G \cup Coming(d, 0, T)
      BY <1>17, <1>18, <2>3
    <3> QED BY <1>21, <2>1, <2>2, <2>3, <3>1 DEF Found
  <2>4. CASE /\ Between(s, c, 0, S)
             /\ c.owed \ c.cut \subseteq G \cup Coming(c, 0, S) \cup ToSet(s.applied)
    <3>1. d.owed \ d.cut \subseteq G \cup Coming(d, 0, T) \cup ToSet(s.applied)
      BY <1>17, <1>18, <2>4
    <3> QED BY <1>22, <2>1, <2>2, <2>4, <3>1 DEF Found
  <2>5. CASE /\ Within(s, c, 0, FALSE, S)
             /\ c.owed \ c.cut \subseteq G \cup Coming(c, 0, S) \cup ToSet(s.applied)
                                       \cup {s.begun[1].packet}
    <3>1. d.owed \ d.cut \subseteq G \cup Coming(d, 0, T) \cup ToSet(s.applied) \cup {s.begun[1].packet}
      BY <1>17, <1>18, <2>5
    <3> QED BY <1>23, <2>1, <2>2, <2>5, <3>1 DEF Found
  <2> QED BY <1>12, <2>3, <2>4, <2>5 DEF Found
<1>25. Fits(s, d, n, e)
  <2>1. G \in SUBSET (1..Len(Output)) /\ T \in SUBSET (1..Len(d.wire))
    BY <1>12, <1>13 DEF Found, M
  <2> QED BY <1>10, <1>15, <1>24, <2>1 DEF Fits
<1> QED BY <1>25 DEF d

LEMMA FitsRead ==
    ASSUME CorrectionsAssumption, NEW s \in Reads, NEW c \in Connection, NEW n \in 1..Len(c.wire),
           NEW top \in Nat, NEW e \in BOOLEAN, Fits(s, c, top, e)
    PROVE  LET t == Parsed(s, SubSeq(c.wire, 1, n))
               d == Taken(c, n)
           IN  t \in Reads /\ d \in Connection /\ Fits(t, d, top, e)
<1> DEFINE t == Parsed(s, SubSeq(c.wire, 1, n))
           d == Taken(c, n)
<1>1. PICK S \in SUBSET (1..Len(c.wire)), G \in SUBSET (1..Len(Output)) :
         InOrder(s, c, 0, top) /\ Blocks(c, e, S) /\ Found(s, c, 0, e, S, G)
  BY DEF Fits
<1>2. t \in Reads /\ InOrder(t, c, n, top) /\ \E H : Found(t, c, n, e, S, H)
  BY <1>1, ReadsKept
<1> HIDE DEF t
<1>3. PICK H : Found(t, c, n, e, S, H)
  BY <1>2
<1>4. /\ d \in Connection /\ InOrder(t, d, 0, top)
      /\ \E R \in SUBSET (1..Len(d.wire)) : Blocks(d, e, R) /\ Found(t, d, 0, e, R, H)
  BY <1>1, <1>2, <1>3, Shifted
<1>5. H \in SUBSET (1..Len(Output))
  BY <1>3 DEF Found
<1>6. Fits(t, d, top, e)
  BY <1>4, <1>5 DEF Fits
<1> QED BY <1>2, <1>4, <1>6 DEF t

LEMMA FitsNew ==
    ASSUME CorrectionsAssumption, NEW s \in Reads, NEW top \in Nat, NEW e \in BOOLEAN,
           s.begun = <<>> \/ (Len(s.begun) = 1 /\ s.begun[1].at = 1),
           \A i \in 1..Len(s.applied) : s.applied[i] <= top /\ Forwarded(Output[s.applied[i]]),
           \A i, j \in 1..Len(s.applied) : i < j => s.applied[i] < s.applied[j],
           NEW c, c = [here |-> TRUE, wire |-> <<>>, owed |-> {}, cut |-> {},
                       whole |-> s.begun = <<>> /\ s.behind = 0]
    PROVE  c \in Connection /\ Fits(s, c, top, e)
<1>1. c.wire = <<>> /\ Len(c.wire) = 0 /\ c.owed = {} /\ c.cut = {} /\ c.here = TRUE
      /\ (c.whole <=> s.begun = <<>> /\ s.behind = 0)
  OBVIOUS
<1>2. c \in Connection
  <2>1. (s.begun = <<>> /\ s.behind = 0) \in BOOLEAN
    OBVIOUS
  <2>2. <<>> \in Seq(Unit)
    OBVIOUS
  <2> QED BY <2>1, <2>2 DEF Connection
<1>3. InOrder(s, c, 0, top)
  <2>1. (0 + 1)..0 = {} /\ \A i \in (0 + 1)..0 : FALSE
    OBVIOUS
  <2> QED BY <1>1, <2>1 DEF InOrder
<1>4. Blocks(c, e, {})
  <2>1. \A i \in 2..0 : FALSE
    OBVIOUS
  <2> QED BY <1>1, <2>1 DEF Blocks
<1>5. MaxBehind \in Nat /\ s.behind \in Nat /\ s.behind <= MaxBehind /\ Cardinality({}) = 0
  BY FS_EmptySet DEF CorrectionsAssumption, Reads
<1>6. Cardinality({}) <= MaxBehind \div Units + 1
  BY <1>5 DEF Units
<1>7. Astray(s, c, 0, {}, {}) \/ Between(s, c, 0, {})
  <2>1. ~(0 < Len(c.wire))
    BY <1>1
  <2>2. CASE s.begun = <<>> /\ s.behind = 0
    BY <2>1, <2>2 DEF Between
  <2>3. CASE ~(s.begun = <<>> /\ s.behind = 0)
    <3>1. ~HalfLost(c, 0, {})
      BY <2>1 DEF HalfLost
    <3>2. 2 * Cardinality({}) <= MaxBehind - s.behind + 0
      BY <1>5
    <3> QED BY <1>1, <2>3, <3>1, <3>2 DEF Astray
  <2> QED BY <2>2, <2>3
<1>8. Found(s, c, 0, e, {}, {})
  <2>1. c.owed \ c.cut = {}
    BY <1>1
  <2> QED BY <1>6, <1>7, <2>1 DEF Found
<1> QED BY <1>2, <1>3, <1>4, <1>8 DEF Fits

----------------------------------------------------------------------------
\* The clients.

LEMMA AppendOne ==
    ASSUME NEW S, NEW q \in Seq(S), NEW x \in S
    PROVE  /\ Append(q, x) \in Seq(S) /\ ToSet(Append(q, x)) = ToSet(q) \cup {x}
           /\ Len(Append(q, x)) = Len(q) + 1
           /\ Distinct(q) /\ x \notin ToSet(q) => Distinct(Append(q, x))
<1> DEFINE d == Append(q, x)
           L == Len(q)
<1>1. /\ d \in Seq(S) /\ L \in Nat /\ Len(d) = L + 1 /\ d[L + 1] = x /\ \A i \in 1..L : d[i] = q[i]
      /\ DOMAIN d = 1..(L + 1) /\ DOMAIN q = 1..L
  OBVIOUS
<1> HIDE DEF d, L
<1>2. \A i \in 1..(L + 1) : i \in 1..L \/ i = L + 1
  BY <1>1
<1>3. L + 1 \in 1..(L + 1) /\ \A i \in 1..L : i \in 1..(L + 1)
  BY <1>1
<1>4. ToSet(d) = ToSet(q) \cup {x}
  BY <1>1, <1>2, <1>3 DEF ToSet
<1>5. \A i \in 1..L : q[i] \in ToSet(q)
  BY <1>1 DEF ToSet
<1>6. ASSUME Distinct(q), x \notin ToSet(q), NEW i \in 1..(L + 1), NEW j \in 1..(L + 1), d[i] = d[j]
      PROVE  i = j
  <2>1. CASE i \in 1..L /\ j \in 1..L
    BY <1>1, <1>6, <2>1 DEF Distinct, L
  <2>2. CASE i \in 1..L /\ j = L + 1
    BY <1>1, <1>5, <1>6, <2>2
  <2>3. CASE i = L + 1 /\ j \in 1..L
    BY <1>1, <1>5, <1>6, <2>3
  <2> QED BY <1>2, <2>1, <2>2, <2>3
<1>7. Distinct(q) /\ x \notin ToSet(q) => Distinct(d)
  BY <1>1, <1>6 DEF Distinct
<1> QED BY <1>1, <1>4, <1>7 DEF d, L

LEMMA Elements ==
    ASSUME NEW S, NEW T, NEW q \in Seq(S)
    PROVE  (\A k \in ToSet(q) : k \in S) /\ (S \subseteq T => q \in Seq(T))
<1>1. \A k \in ToSet(q) : k \in S
  BY DEF ToSet
<1>2. ASSUME S \subseteq T PROVE q \in Seq(T)
  <2>1. Len(q) \in Nat /\ q \in [1..Len(q) -> S]
    OBVIOUS
  <2>2. q \in [1..Len(q) -> T]
    BY <1>2, <2>1
  <2> QED BY <2>1, <2>2
<1> QED BY <1>1, <1>2

LEMMA JoinedIs ==
    ASSUME NEW S, NEW p \in Seq(S), NEW q \in Seq(S)
    PROVE  /\ p \o q \in Seq(S) /\ Len(p \o q) = Len(p) + Len(q)
           /\ ToSet(p \o q) = ToSet(p) \cup ToSet(q)
           /\ Distinct(p \o q) <=>
                 Distinct(p) /\ Distinct(q) /\ \A k \in ToSet(p) : k \notin ToSet(q)
<1> DEFINE d == p \o q
           L == Len(p)
           M == Len(q)
<1>1. /\ d \in Seq(S) /\ L \in Nat /\ M \in Nat /\ Len(d) = L + M /\ DOMAIN d = 1..(L + M)
      /\ DOMAIN p = 1..L /\ DOMAIN q = 1..M
  OBVIOUS
<1>2. \A i \in 1..L : d[i] = p[i]
  OBVIOUS
<1>3. \A j : j \in 1..(L + M) => d[j] = IF j <= L THEN p[j] ELSE q[j - L]
  OBVIOUS
<1> HIDE DEF d, L, M
<1>4. \A j \in 1..M : L + j \in 1..(L + M) /\ ~(L + j <= L) /\ (L + j) - L = j
  BY <1>1
<1>5. \A j \in 1..M : d[L + j] = q[j]
  BY <1>3, <1>4
<1>6. \A i \in 1..(L + M) : i \in 1..L \/ (i - L \in 1..M /\ L + (i - L) = i)
  BY <1>1
<1>7. \A i \in 1..L : i \in 1..(L + M)
  BY <1>1
<1>8. ToSet(d) = ToSet(p) \cup ToSet(q)
  <2>1. \A x \in ToSet(d) : x \in ToSet(p) \cup ToSet(q)
    <3>1. ASSUME NEW i \in 1..(L + M) PROVE d[i] \in ToSet(p) \cup ToSet(q)
      <4>1. CASE i \in 1..L
        BY <1>1, <1>2, <4>1 DEF ToSet
      <4>2. CASE i - L \in 1..M /\ L + (i - L) = i
        <5>1. d[i] = q[i - L]
          BY <1>5, <4>2
        <5> QED BY <1>1, <4>2, <5>1 DEF ToSet
      <4> QED BY <1>6, <4>1, <4>2
    <3> QED BY <1>1, <3>1 DEF ToSet
  <2>2. \A x \in ToSet(p) : x \in ToSet(d)
    BY <1>1, <1>2, <1>7 DEF ToSet
  <2>3. \A x \in ToSet(q) : x \in ToSet(d)
    <3>1. ASSUME NEW j \in 1..M PROVE q[j] \in ToSet(d)
      <4>1. L + j \in DOMAIN d /\ d[L + j] = q[j]
        BY <1>1, <1>4, <1>5
      <4> QED BY <4>1 DEF ToSet
    <3> QED BY <1>1, <3>1 DEF ToSet
  <2> QED BY <2>1, <2>2, <2>3
<1>9. (\A i \in 1..L : p[i] \in ToSet(p)) /\ (\A i \in 1..M : q[i] \in ToSet(q))
  BY <1>1 DEF ToSet
<1>10. ASSUME Distinct(d) PROVE Distinct(p) /\ Distinct(q) /\ \A k \in ToSet(p) : k \notin ToSet(q)
  <2>1. Distinct(p)
    BY <1>1, <1>2, <1>7, <1>10 DEF Distinct, L
  <2>2. Distinct(q)
    <3>1. ASSUME NEW i \in 1..M, NEW j \in 1..M, q[i] = q[j] PROVE i = j
      <4>1. d[L + i] = d[L + j] /\ L + i \in 1..(L + M) /\ L + j \in 1..(L + M)
        BY <1>4, <1>5, <3>1
      <4>2. L + i = L + j
        BY <1>1, <1>10, <4>1 DEF Distinct
      <4> QED BY <1>1, <4>2
    <3> QED BY <3>1 DEF Distinct, M
  <2>3. ASSUME NEW i \in 1..L, NEW j \in 1..M PROVE p[i] # q[j]
    <3>1. d[i] # d[L + j]
      <4>1. i # L + j
        BY <1>1
      <4> QED BY <1>1, <1>4, <1>7, <1>10, <4>1 DEF Distinct
    <3> QED BY <1>2, <1>5, <3>1
  <2>4. \A k \in ToSet(p) : k \notin ToSet(q)
    BY <1>1, <2>3 DEF ToSet
  <2> QED BY <2>1, <2>2, <2>4
<1>11. ASSUME Distinct(p), Distinct(q), \A k \in ToSet(p) : k \notin ToSet(q) PROVE Distinct(d)
  <2> SUFFICES ASSUME NEW i \in 1..(L + M), NEW j \in 1..(L + M), d[i] = d[j] PROVE i = j
    BY <1>1 DEF Distinct
  <2>1. CASE i \in 1..L /\ j \in 1..L
    BY <1>2, <1>11, <2>1 DEF Distinct, L
  <2>2. CASE i \in 1..L /\ j - L \in 1..M /\ L + (j - L) = j
    <3>1. d[j] = q[j - L] /\ d[i] = p[i]
      BY <1>2, <1>5, <2>2
    <3> QED BY <1>9, <1>11, <2>2, <3>1
  <2>3. CASE j \in 1..L /\ i - L \in 1..M /\ L + (i - L) = i
    <3>1. d[i] = q[i - L] /\ d[j] = p[j]
      BY <1>2, <1>5, <2>3
    <3> QED BY <1>9, <1>11, <2>3, <3>1
  <2>4. CASE /\ i - L \in 1..M /\ L + (i - L) = i
             /\ j - L \in 1..M /\ L + (j - L) = j
    <3>1. q[i - L] = q[j - L]
      BY <1>5, <2>4
    <3>2. i - L = j - L
      BY <1>11, <2>4, <3>1 DEF Distinct, M
    <3> QED BY <2>4, <3>2
  <2> QED BY <1>6, <2>1, <2>2, <2>3, <2>4
<1> QED BY <1>1, <1>8, <1>10, <1>11 DEF d, L, M

\* f has what remains of the first elements, up to n of them.
Selecting(f, list, stay, n) ==
    f = [i \in 0..n |->
            IF i = 0 THEN <<>>
            ELSE IF list[i] \in stay THEN Append(f[i - 1], list[i]) ELSE f[i - 1]]

LEMMA SelectingIs ==
    ASSUME NEW S, NEW list \in Seq(S), NEW stay
    PROVE  \E f : /\ f[0] = <<>> /\ Selected(list, stay) = f[Len(list)]
                  /\ \A i \in 1..Len(list) :
                        f[i] = IF list[i] \in stay THEN Append(f[i - 1], list[i]) ELSE f[i - 1]
<1> DEFINE Step(g, i) == IF i = 0 THEN <<>>
                         ELSE IF list[i] \in stay THEN Append(g[i - 1], list[i]) ELSE g[i - 1]
           Begun == {n \in 0..Len(list) : \E g : Selecting(g, list, stay, n)}
           f == CHOOSE g : Selecting(g, list, stay, Len(list))
<1>0. Len(list) \in Nat
  OBVIOUS
<1>1. ASSUME NEW n \in Nat, NEW g, Selecting(g, list, stay, n), n < Len(list)
      PROVE  \E h : Selecting(h, list, stay, n + 1)
  <2> DEFINE h == [i \in 0..(n + 1) |-> IF i = n + 1 THEN Step(g, n + 1) ELSE g[i]]
  <2>1. ASSUME NEW i \in 0..n PROVE h[i] = Step(h, i)
    <3>1. h[i] = g[i] /\ (i # 0 => h[i - 1] = g[i - 1])
      OBVIOUS
    <3>2. g[i] = Step(g, i)
      BY <1>1 DEF Selecting
    <3> QED BY <3>1, <3>2
  <2>2. h[n + 1] = Step(h, n + 1)
    <3>1. h[n + 1] = Step(g, n + 1) /\ h[n] = g[n] /\ (n + 1) - 1 = n /\ n + 1 # 0
      OBVIOUS
    <3> QED BY <3>1
  <2>3. h = [i \in 0..(n + 1) |-> h[i]]
    OBVIOUS
  <2>4. \A i \in 0..(n + 1) : i \in 0..n \/ i = n + 1
    OBVIOUS
  <2>5. \A i \in 0..(n + 1) : h[i] = Step(h, i)
    BY <2>1, <2>2, <2>4
  <2> HIDE DEF h
  <2>6. Selecting(h, list, stay, n + 1)
    BY <2>3, <2>5 DEF Selecting
  <2> QED BY <2>6
<1>2. Selecting([i \in 0..0 |-> <<>>], list, stay, 0)
  BY DEF Selecting
<1>3. \E g : Selecting(g, list, stay, Len(list))
  <2>1. 0 \in Begun
    BY <1>0, <1>2
  <2>2. \A n \in Begun : n \in Nat /\ n < Len(list) => n + 1 \in Begun
    BY <1>0, <1>1
  <2> HIDE DEF Begun
  <2>3. Len(list) \in Begun
    BY <1>0, <2>1, <2>2, CountTo
  <2> QED BY <2>3 DEF Begun
<1>4. Selecting(f, list, stay, Len(list))
  BY <1>3
<1>5. Selected(list, stay) = f[Len(list)]
  BY DEF Selected, Selecting
<1> HIDE DEF f
<1>6. f[0] = <<>> /\ \A i \in 1..Len(list) :
          f[i] = IF list[i] \in stay THEN Append(f[i - 1], list[i]) ELSE f[i - 1]
  <2>1. \A i \in 0..Len(list) : f[i] = Step(f, i)
    BY <1>4 DEF Selecting
  <2>2. 0 \in 0..Len(list) /\ \A i \in 1..Len(list) : i \in 0..Len(list) /\ i # 0
    BY <1>0
  <2> QED BY <2>1, <2>2
<1> QED BY <1>5, <1>6

LEMMA SelectedIs ==
    ASSUME NEW S, NEW list \in Seq(S), NEW stay, Distinct(list)
    PROVE  /\ Selected(list, stay) \in Seq(S) /\ Distinct(Selected(list, stay))
           /\ ToSet(Selected(list, stay)) = ToSet(list) \cap stay
<1> DEFINE L == Len(list)
           Upto(i) == {list[j] : j \in 1..i} \cap stay
<1>1. PICK f : /\ f[0] = <<>> /\ Selected(list, stay) = f[Len(list)]
               /\ \A i \in 1..Len(list) :
                     f[i] = IF list[i] \in stay THEN Append(f[i - 1], list[i]) ELSE f[i - 1]
  BY SelectingIs
<1> DEFINE Good == {i \in 0..L : f[i] \in Seq(S) /\ Distinct(f[i]) /\ ToSet(f[i]) = Upto(i)}
<1>2. L \in Nat /\ (\A i \in 1..L : list[i] \in S) /\ DOMAIN list = 1..L
  OBVIOUS
<1>3. 0 \in Good
  <2> DEFINE z == <<>>
  <2>1. z \in Seq(S) /\ Len(z) = 0 /\ DOMAIN z = {} /\ 1..0 = {}
    OBVIOUS
  <2> HIDE DEF z
  <2>2. Distinct(z) /\ ToSet(z) = {}
    BY <2>1 DEF Distinct, ToSet
  <2>3. Upto(0) = {}
    BY <2>1
  <2>4. f[0] = z /\ 0 \in 0..L
    BY <1>1, <1>2 DEF z
  <2> HIDE DEF Upto, L
  <2> QED BY <2>1, <2>2, <2>3, <2>4
<1>4. ASSUME NEW m \in Good, m \in Nat, m < L PROVE m + 1 \in Good
  <2> DEFINE k == m + 1
             x == list[k]
             q == f[m]
  <2>1. k \in 1..L /\ k \in 0..L /\ k - 1 = m /\ k \notin 1..m /\ \A j : j \in 1..k <=> j \in 1..m \/ j = k
    BY <1>2, <1>4
  <2>2. q \in Seq(S) /\ Distinct(q) /\ ToSet(q) = Upto(m) /\ x \in S
    BY <1>2, <1>4, <2>1
  <2>3. f[k] = IF x \in stay THEN Append(q, x) ELSE q
    BY <1>1, <2>1
  <2>4. x \notin Upto(m)
    <3>1. \A j \in 1..m : j \in 1..L /\ j # k
      BY <1>2, <1>4, <2>1
    <3>2. \A j \in 1..m : list[j] # x
      BY <2>1, <3>1 DEF Distinct
    <3> QED BY <3>2
  <2> HIDE DEF k, q
  <2>5. Upto(k) = IF x \in stay THEN Upto(m) \cup {x} ELSE Upto(m)
    <3>1. {list[j] : j \in 1..k} = {list[j] : j \in 1..m} \cup {x}
      BY <2>1
    <3> QED BY <3>1
  <2> HIDE DEF x, Upto
  <2>6. CASE x \in stay
    <3>1. Append(q, x) \in Seq(S) /\ ToSet(Append(q, x)) = ToSet(q) \cup {x} /\ Distinct(Append(q, x))
      BY <2>2, <2>4, AppendOne
    <3> QED BY <2>1, <2>2, <2>3, <2>5, <2>6, <3>1 DEF k
  <2>7. CASE x \notin stay
    BY <2>1, <2>2, <2>3, <2>5, <2>7 DEF k
  <2> QED BY <2>6, <2>7
<1> HIDE DEF Good
<1>5. L \in Good
  BY <1>2, <1>3, <1>4, CountTo
<1>6. Upto(L) = ToSet(list) \cap stay
  BY <1>2 DEF ToSet
<1> QED BY <1>1, <1>5, <1>6 DEF Good

LEMMA DistinctLen ==
    ASSUME NEW S, NEW list \in Seq(S), Distinct(list)
    PROVE  IsFiniteSet(ToSet(list)) /\ Cardinality(ToSet(list)) = Len(list)
<1> DEFINE L == Len(list)
           T == ToSet(list)
           f == [i \in 1..L |-> list[i]]
<1>1. L \in Nat /\ DOMAIN list = 1..L /\ T = {list[i] : i \in 1..L}
  BY DEF ToSet
<1>2. f \in Bijection(1..L, T)
  <2>1. f \in [1..L -> T]
    BY <1>1
  <2>2. \A i, j \in 1..L : f[i] = f[j] => i = j
    BY DEF Distinct
  <2>3. \A t \in T : \E i \in 1..L : f[i] = t
    BY <1>1
  <2> HIDE DEF f, T, L
  <2> QED BY <2>1, <2>2, <2>3 DEF Bijection, Injection, Surjection, IsInjective
<1>3. IsFiniteSet(1..L) /\ Cardinality(1..L) = L
  <2>1. 1 \in Int /\ L \in Int /\ (1 > L <=> L = 0) /\ L - 1 + 1 = L
    BY <1>1
  <2> HIDE DEF L
  <2> QED BY <2>1, FS_Interval
<1>4. ExistsBijection(1..L, T)
  BY <1>2 DEF ExistsBijection
<1> HIDE DEF L, T
<1>5. IsFiniteSet(T) /\ Cardinality(T) = L
  BY <1>3, <1>4, FS_Bijection
<1> QED BY <1>5 DEF L, T

\* A list gets shorter by as many as are removed.
LEMMA RemovedLen ==
    ASSUME NEW S, NEW list \in Seq(S), Distinct(list), NEW gone \in SUBSET ToSet(list)
    PROVE  /\ Len(Selected(list, ToSet(list) \ gone)) = Len(list) - Cardinality(gone)
           /\ Cardinality(gone) \in Nat
<1> DEFINE q == Selected(list, ToSet(list) \ gone)
<1>1. q \in Seq(S) /\ Distinct(q) /\ ToSet(q) = ToSet(list) \ gone
  BY SelectedIs
<1>2. IsFiniteSet(ToSet(list)) /\ Cardinality(ToSet(list)) = Len(list) /\ Len(list) \in Nat
  BY DistinctLen
<1> HIDE DEF q
<1>3. IsFiniteSet(ToSet(q)) /\ Cardinality(ToSet(q)) = Len(q) /\ Len(q) \in Nat
  <2>1. Len(q) \in Nat
    BY <1>1
  <2> QED BY <1>1, <2>1, DistinctLen, Zenon
<1>4. /\ IsFiniteSet(gone) /\ Cardinality(gone) \in Nat
      /\ Cardinality(ToSet(list) \ gone) = Cardinality(ToSet(list)) - Cardinality(ToSet(list) \cap gone)
  BY <1>2, FS_Subset, FS_Difference, FS_CardinalityType
<1>5. ToSet(list) \cap gone = gone
  OBVIOUS
<1>6. Len(q) = Len(list) - Cardinality(gone)
  BY <1>1, <1>2, <1>3, <1>4, <1>5
<1> QED BY <1>4, <1>6 DEF q

----------------------------------------------------------------------------
\* What the steps have in common.

LEMMA ParserIs ==
    ASSUME CTypes, NEW r \in Rovers
    PROVE  /\ Parser(r) \in Reads
           /\ Parser(r).begun = begun[r] /\ Parser(r).behind = behind[r] /\ Parser(r).applied = applied[r]
           /\ peer[r] # 0 => peer[r] \in 1..Len(connections) /\ connections[peer[r]] \in Connection
           /\ sent \in Nat /\ Len(connections) \in Nat
<1>1. begun[r] \in Seq(Unit) /\ behind[r] \in 0..MaxBehind /\ applied[r] \in Seq(1..Len(Output))
  BY DEF CTypes
<1>2. Parser(r) \in Reads
  BY <1>1 DEF Parser, Reads
<1>3. /\ connections \in Seq(Connection) /\ peer[r] \in 0..Len(connections) /\ sent \in Nat
      /\ Len(connections) \in Nat
  BY DEF CTypes
<1>4. ASSUME peer[r] # 0 PROVE peer[r] \in 1..Len(connections) /\ connections[peer[r]] \in Connection
  <2>1. peer[r] \in 1..Len(connections)
    BY <1>3, <1>4
  <2> QED BY <1>3, <2>1
<1> QED BY <1>2, <1>3, <1>4 DEF Parser

\* A rover that nothing happens to.
LEMMA FollowsOn ==
    ASSUME CTypes, NEW r \in Rovers, peer[r] # 0, Follows(r),
           sent' \in Nat, sent <= sent', peer'[r] = peer[r], begun'[r] = begun[r],
           behind'[r] = behind[r], applied'[r] = applied[r],
           connections'[peer[r]] = connections[peer[r]],
           ToSet(clients') \cup ToSet(backlog') \subseteq
              ToSet(clients) \cup ToSet(backlog) \cup {Len(connections) + 1}
    PROVE  Follows(r)'
<1>1. Parser(r) \in Reads /\ connections[peer[r]] \in Connection /\ sent \in Nat
      /\ peer[r] \in 1..Len(connections) /\ Len(connections) \in Nat
  BY ParserIs
<1>2. Ended(peer[r]) => peer[r] \notin ToSet(clients') \cup ToSet(backlog')
  <2>1. peer[r] # Len(connections) + 1
    BY <1>1
  <2> QED BY <2>1 DEF Ended
<1> DEFINE e == Ended(peer[r])
           f == peer[r] \notin ToSet(clients') \cup ToSet(backlog')
<1>3. e \in BOOLEAN /\ f \in BOOLEAN /\ (e => f)
  BY <1>2 DEF Ended
<1>4. Fits(Parser(r), connections[peer[r]], sent, e)
  BY DEF Follows
<1> HIDE DEF e, f
<1>5. Fits(Parser(r), connections[peer[r]], sent', f)
  BY <1>1, <1>3, <1>4, FitsOn
<1>6. Parser(r)' = Parser(r)
  BY DEF Parser
<1>7. Follows(r)' <=> Fits(Parser(r)', connections'[peer'[r]], sent', f)
  BY DEF Follows, Ended, f
<1> QED BY <1>5, <1>6, <1>7

LEMMA AppliedOn ==
    ASSUME CTypes, NEW r \in Rovers, Applied(r), sent' \in Nat, sent <= sent',
           begun'[r] = begun[r], applied'[r] = applied[r]
    PROVE  Applied(r)'
<1>1. sent \in Nat /\ \A i \in 1..Len(applied[r]) : applied[r][i] \in Nat
  BY DEF CTypes
<1>2. \A i \in 1..Len(applied[r]) : applied[r][i] <= sent'
  BY <1>1 DEF Applied
<1> QED BY <1>2 DEF Applied

LEMMA HangIs ==
    ASSUME CTypes, NEW r \in Rovers
    PROVE  /\ Hang(r) \in Seq(Connection) /\ Len(Hang(r)) = Len(connections)
           /\ \A k \in 1..Len(connections) : k # peer[r] => Hang(r)[k] = connections[k]
<1>1. Closed \in Connection
  <2>1. <<>> \in Seq(Unit)
    OBVIOUS
  <2> QED BY <2>1 DEF Closed, Connection
<1>2. connections \in Seq(Connection) /\ Len(connections) \in Nat
  BY DEF CTypes
<1>3. CASE peer[r] = 0
  BY <1>2, <1>3 DEF Hang
<1>4. CASE peer[r] # 0
  <2> DEFINE h == [connections EXCEPT ![peer[r]] = Closed]
  <2> DEFINE L == Len(connections)
  <2>0. connections \in [1..L -> Connection] /\ L \in Nat
    BY <1>2
  <2>1. h \in Seq(Connection) /\ Len(h) = Len(connections)
    <3>1. h \in [1..L -> Connection]
      BY <1>1, <2>0
    <3> HIDE DEF h, L
    <3>2. h \in Seq(Connection) /\ Len(h) = L
      BY <2>0, <3>1
    <3> QED BY <3>2 DEF L
  <2>2. \A k \in 1..Len(connections) : k # peer[r] => h[k] = connections[k]
    BY <1>2
  <2>3. Hang(r) = h
    BY <1>4 DEF Hang
  <2> HIDE DEF h
  <2> QED BY <2>1, <2>2, <2>3
<1> QED BY <1>3, <1>4

LEMMA UpdateIs ==
    ASSUME CTypes, current = Len(clients) + abandoned,
           NEW s \in Seq(1..Len(connections)), Distinct(s \o backlog),
           NEW reset \in SUBSET Resettable(s), Update(s, reset)
    PROVE  /\ clients' \in Seq(1..Len(connections)) /\ backlog' = <<>> /\ Distinct(clients' \o backlog')
           /\ ToSet(clients') \subseteq ToSet(s) \cup ToSet(backlog) /\ ToSet(backlog') = {}
           /\ current' = Len(clients') + abandoned
<1> DEFINE all == s \o backlog
           N == 1..Len(connections)
<1>1. backlog \in Seq(N) /\ clients \in Seq(N) /\ Len(backlog) \in Nat /\ Len(clients) \in Nat
      /\ Len(s) \in Nat /\ abandoned \in Nat /\ current \in Int
  BY DEF CTypes
<1>2. all \in Seq(N) /\ Len(all) = Len(s) + Len(backlog) /\ ToSet(all) = ToSet(s) \cup ToSet(backlog)
  BY <1>1, JoinedIs
<1>3. reset \in SUBSET ToSet(all) /\ Distinct(all)
  BY DEF Resettable
<1>4. clients' = Selected(all, ToSet(all) \ reset) /\ backlog' = <<>>
      /\ current' = current - (Len(clients) - Len(s)) + Len(backlog) - Cardinality(reset)
  BY DEF Update
<1> HIDE DEF all, N
<1>5. clients' \in Seq(N) /\ Distinct(clients') /\ ToSet(clients') \subseteq ToSet(all)
  BY <1>2, <1>3, <1>4, SelectedIs
<1>6. Len(clients') = Len(all) - Cardinality(reset) /\ Cardinality(reset) \in Nat
  BY <1>2, <1>3, <1>4, RemovedLen
<1>7. current' = Len(clients') + abandoned
  <2> DEFINE a == Len(clients)
             b == Len(backlog)
             d == Len(s)
             g == Cardinality(reset)
             x == Len(clients')
  <2>1. /\ a \in Nat /\ b \in Nat /\ d \in Nat /\ g \in Nat /\ abandoned \in Nat
        /\ x = (d + b) - g /\ current = a + abandoned /\ current' = current - (a - d) + b - g
    BY <1>1, <1>2, <1>4, <1>6
  <2> HIDE DEF a, b, d, g, x
  <2>2. current' = x + abandoned
    BY <2>1
  <2> QED BY <2>2 DEF x
<1>8. ToSet(backlog') = {} /\ backlog' \in Seq(N)
  BY <1>4 DEF ToSet
<1>9. Distinct(backlog')
  <2>1. Len(backlog') = 0
    BY <1>4
  <2> QED BY <2>1 DEF Distinct
<1>10. Distinct(clients' \o backlog')
  BY <1>5, <1>8, <1>9, JoinedIs
<1> QED BY <1>2, <1>4, <1>5, <1>7, <1>8, <1>10 DEF N

----------------------------------------------------------------------------
\* The steps.

LEMMA CreateHostKept ==
    ASSUME CorrectionsInv, NEW opens \in BOOLEAN, CreateHost(opens) PROVE CorrectionsInv'
<1>1. CTypes /\ Apart /\ current = Len(clients) + abandoned
  BY DEF CorrectionsInv
<1>2. hosting' = opens /\ clients' = <<>> /\ backlog' = <<>> /\ abandoned' = abandoned + Len(clients)
      /\ UNCHANGED <<sent, current, connections, peer, begun, behind, applied>>
  BY DEF CreateHost
<1>3. CTypes'
  <2>1. abandoned' \in Nat
    BY <1>1, <1>2 DEF CTypes
  <2>2. clients' \in Seq(1..Len(connections')) /\ backlog' \in Seq(1..Len(connections'))
    BY <1>2
  <2> QED BY <1>1, <1>2, <2>1, <2>2 DEF CTypes
<1>4. Apart'
  <2>1. Distinct(clients' \o backlog')
    BY <1>2 DEF Distinct
  <2> QED BY <1>1, <1>2, <2>1 DEF Apart
<1>5. current' = Len(clients') + abandoned'
  <2>1. Len(clients') = 0 /\ Len(clients) \in Nat /\ abandoned \in Nat
    BY <1>1, <1>2 DEF CTypes
  <2> QED BY <1>1, <1>2, <2>1
<1>6. ASSUME NEW r \in Rovers PROVE Applied(r)' /\ (peer'[r] # 0 => Follows(r)')
  <2>1. Applied(r) /\ (peer[r] # 0 => Follows(r))
    BY DEF CorrectionsInv
  <2>2. ToSet(clients') \cup ToSet(backlog') = {}
    BY <1>2 DEF ToSet
  <2>3. sent \in Nat /\ sent' \in Nat /\ sent <= sent'
    BY <1>1, <1>2 DEF CTypes
  <2>4. Applied(r)'
    BY <1>1, <1>2, <2>1, <2>3, AppliedOn
  <2>5. ASSUME peer[r] # 0 PROVE Follows(r)'
    BY <1>1, <1>2, <2>1, <2>2, <2>3, <2>5, FollowsOn
  <2> QED BY <1>2, <2>4, <2>5
<1> QED BY <1>3, <1>4, <1>5, <1>6 DEF CorrectionsInv

LEMMA CloseKept ==
    ASSUME CorrectionsInv, NEW r \in Rovers,
           connections' = Hang(r), peer' = [peer EXCEPT ![r] = 0], behind' \in [Rovers -> 0..MaxBehind],
           \A q \in Rovers : q # r => behind'[q] = behind[q],
           UNCHANGED <<sent, hosting, clients, current, backlog, begun, applied, abandoned>>
    PROVE  CorrectionsInv'
<1>1. CTypes /\ Apart /\ current = Len(clients) + abandoned
  BY DEF CorrectionsInv
<1>2. /\ connections' \in Seq(Connection) /\ Len(connections') = Len(connections)
      /\ \A k \in 1..Len(connections) : k # peer[r] => connections'[k] = connections[k]
      /\ Len(connections) \in Nat
  BY <1>1, HangIs DEF CTypes
<1>3. CTypes'
  <2>1. peer' \in [Rovers -> 0..Len(connections')]
    BY <1>1, <1>2 DEF CTypes
  <2> QED BY <1>1, <1>2, <2>1 DEF CTypes
<1>4. \A q \in Rovers : peer'[q] # 0 =>
         /\ q # r /\ peer'[q] = peer[q] /\ peer[q] # peer[r] /\ peer[q] \in 1..Len(connections)
         /\ connections'[peer[q]] = connections[peer[q]]
  <2> SUFFICES ASSUME NEW q \in Rovers, peer'[q] # 0
               PROVE  /\ q # r /\ peer'[q] = peer[q] /\ peer[q] # peer[r] /\ peer[q] \in 1..Len(connections)
                      /\ connections'[peer[q]] = connections[peer[q]]
    OBVIOUS
  <2>1. q # r /\ peer'[q] = peer[q]
    BY <1>1 DEF CTypes
  <2>2. peer[q] # peer[r]
    BY <1>1, <2>1 DEF Apart
  <2>3. peer[q] \in 1..Len(connections)
    BY <1>1, <2>1, ParserIs
  <2> QED BY <1>2, <2>1, <2>2, <2>3
<1>5. Apart'
  BY <1>1, <1>4 DEF Apart
<1>6. ASSUME NEW q \in Rovers PROVE Applied(q)' /\ (peer'[q] # 0 => Follows(q)')
  <2>1. Applied(q) /\ (peer[q] # 0 => Follows(q))
    BY DEF CorrectionsInv
  <2>2. sent \in Nat /\ sent' \in Nat /\ sent <= sent'
    BY <1>1 DEF CTypes
  <2>3. Applied(q)'
    BY <1>1, <2>1, <2>2, AppliedOn
  <2>4. ASSUME peer'[q] # 0 PROVE Follows(q)'
    <3>1. peer[q] # 0 /\ peer'[q] = peer[q] /\ connections'[peer[q]] = connections[peer[q]]
          /\ behind'[q] = behind[q]
      BY <1>4, <2>4
    <3> QED BY <1>1, <2>1, <2>2, <3>1, FollowsOn
  <2> QED BY <2>3, <2>4
<1> QED BY <1>1, <1>3, <1>5, <1>6 DEF CorrectionsInv

LEMMA UpdateClientKept ==
    ASSUME CorrectionsAssumption, CorrectionsInv, NEW r \in Rovers, UpdateClient(r)
    PROVE  CorrectionsInv'
<1>1. CTypes /\ Apart /\ current = Len(clients) + abandoned /\ peer[r] # 0
      /\ UNCHANGED <<sent, hosting, clients, current, backlog, peer, abandoned>>
  BY DEF CorrectionsInv, UpdateClient
<1> DEFINE c == connections[peer[r]]
<1>2. PICK n \in 1..Len(c.wire) :
         LET t == Parsed(Parser(r), SubSeq(c.wire, 1, n))
         IN  /\ begun' = [begun EXCEPT ![r] = t.begun]
             /\ behind' = [behind EXCEPT ![r] = t.behind]
             /\ applied' = [applied EXCEPT ![r] = t.applied]
             /\ connections' = [connections EXCEPT ![peer[r]].wire = SubSeq(c.wire, n + 1, Len(c.wire))]
  BY DEF UpdateClient, Parser
<1> DEFINE t == Parsed(Parser(r), SubSeq(c.wire, 1, n))
           d == Taken(c, n)
           e == Ended(peer[r])
<1>3. /\ Parser(r) \in Reads /\ c \in Connection /\ peer[r] \in 1..Len(connections) /\ sent \in Nat
      /\ Len(connections) \in Nat /\ e \in BOOLEAN
      /\ connections \in Seq(Connection)
  BY <1>1, ParserIs DEF Ended, CTypes
<1>4. Fits(Parser(r), c, sent, e)
  BY <1>1 DEF CorrectionsInv, Follows
<1> HIDE DEF e
<1>5. t \in Reads /\ d \in Connection /\ Fits(t, d, sent, e)
  BY <1>3, <1>4, FitsRead
<1>6. connections' = [connections EXCEPT ![peer[r]] = d]
  BY <1>2, <1>3 DEF Taken
<1>7. d.here = c.here
  BY <1>3 DEF Taken, Connection
<1> HIDE DEF d, t
<1>8. begun' = [begun EXCEPT ![r] = t.begun] /\ behind' = [behind EXCEPT ![r] = t.behind]
      /\ applied' = [applied EXCEPT ![r] = t.applied]
  BY <1>2 DEF t
<1>9. /\ connections' \in Seq(Connection) /\ Len(connections') = Len(connections)
      /\ connections'[peer[r]] = d
      /\ \A k \in 1..Len(connections) : k # peer[r] => connections'[k] = connections[k]
  <2> DEFINE L == Len(connections)
  <2>1. connections \in [1..L -> Connection] /\ L \in Nat /\ peer[r] \in 1..L
    BY <1>3
  <2>2. connections' \in [1..L -> Connection]
    BY <1>5, <1>6, <2>1
  <2> HIDE DEF L
  <2>3. connections' \in Seq(Connection) /\ Len(connections') = L
    BY <2>1, <2>2
  <2>4. connections'[peer[r]] = d /\ \A k \in 1..L : k # peer[r] => connections'[k] = connections[k]
    BY <1>6, <2>1
  <2> QED BY <2>3, <2>4 DEF L
<1>10. t.begun \in Seq(Unit) /\ t.behind \in 0..MaxBehind /\ t.applied \in Seq(1..Len(Output))
       /\ t = [begun |-> t.begun, behind |-> t.behind, applied |-> t.applied]
  BY <1>5 DEF Reads
<1>11. begun \in [Rovers -> Seq(Unit)] /\ behind \in [Rovers -> 0..MaxBehind]
       /\ applied \in [Rovers -> Seq(1..Len(Output))]
  BY <1>1 DEF CTypes
<1>12. /\ begun' \in [Rovers -> Seq(Unit)] /\ behind' \in [Rovers -> 0..MaxBehind]
       /\ applied' \in [Rovers -> Seq(1..Len(Output))]
       /\ begun'[r] = t.begun /\ behind'[r] = t.behind /\ applied'[r] = t.applied
       /\ \A q \in Rovers : q # r =>
             begun'[q] = begun[q] /\ behind'[q] = behind[q] /\ applied'[q] = applied[q]
  BY <1>8, <1>10, <1>11
<1>13. CTypes'
  BY <1>1, <1>9, <1>12 DEF CTypes
<1>14. \A q \in Rovers : q # r /\ peer[q] # 0 =>
          peer[q] \in 1..Len(connections) /\ connections'[peer[q]] = connections[peer[q]]
  <2> SUFFICES ASSUME NEW q \in Rovers, q # r, peer[q] # 0
               PROVE  peer[q] \in 1..Len(connections) /\ connections'[peer[q]] = connections[peer[q]]
    OBVIOUS
  <2>1. peer[q] # peer[r]
    BY <1>1 DEF Apart
  <2>2. peer[q] \in 1..Len(connections)
    BY <1>1, ParserIs
  <2> QED BY <1>9, <2>1, <2>2
<1>15. Apart'
  <2>1. connections'[peer[r]].here
    BY <1>1, <1>7, <1>9 DEF Apart
  <2> QED BY <1>1, <1>14, <2>1 DEF Apart
<1>16. Follows(r)'
  <2>1. Parser(r)' = t
    BY <1>10, <1>12 DEF Parser
  <2>2. Ended(peer[r])' = e
    BY <1>1 DEF Ended, e
  <2>3. Follows(r)' <=> Fits(Parser(r)', connections'[peer'[r]], sent', Ended(peer[r])')
    BY <1>1 DEF Follows
  <2> QED BY <1>1, <1>5, <1>9, <2>1, <2>2, <2>3
<1>17. Applied(r)'
  <2>1. InOrder(t, d, 0, sent)
    BY <1>5 DEF Fits
  <2> QED BY <1>1, <1>12, <2>1 DEF InOrder, Applied
<1>18. ASSUME NEW q \in Rovers PROVE Applied(q)' /\ (peer'[q] # 0 => Follows(q)')
  <2>1. CASE q = r
    BY <1>16, <1>17, <2>1
  <2>2. CASE q # r
    <3>1. Applied(q) /\ (peer[q] # 0 => Follows(q))
      BY DEF CorrectionsInv
    <3>2. sent \in Nat /\ sent' \in Nat /\ sent <= sent'
      BY <1>1, <1>3
    <3>3. Applied(q)'
      BY <1>1, <1>12, <2>2, <3>1, <3>2, AppliedOn
    <3>4. ASSUME peer'[q] # 0 PROVE Follows(q)'
      <4>1. peer[q] # 0 /\ peer'[q] = peer[q] /\ connections'[peer[q]] = connections[peer[q]]
        BY <1>1, <1>14, <2>2, <3>4
      <4> QED BY <1>1, <1>12, <2>2, <3>1, <3>2, <4>1, FollowsOn
    <3> QED BY <3>3, <3>4
  <2> QED BY <2>1, <2>2
<1> QED BY <1>1, <1>13, <1>15, <1>18 DEF CorrectionsInv

LEMMA OpenKept ==
    ASSUME CorrectionsAssumption, CorrectionsInv, NEW r \in Rovers, OpenConnectionToServer(r)
    PROVE  CorrectionsInv'
<1> DEFINE c == [here |-> TRUE, wire |-> <<>>, owed |-> {}, cut |-> {},
                 whole |-> Parser(r).begun = <<>> /\ Parser(r).behind = 0]
           L == Len(connections)
<1>1. CTypes /\ Apart /\ current = Len(clients) + abandoned
      /\ UNCHANGED <<sent, hosting, clients, current, begun, behind, applied, abandoned>>
  BY DEF CorrectionsInv, OpenConnectionToServer
<1>2. connections' = Append(Hang(r), c) /\ peer' = [peer EXCEPT ![r] = Len(connections')]
      /\ backlog' = IF hosting THEN Append(backlog, Len(connections')) ELSE backlog
  BY DEF OpenConnectionToServer, Parser
<1>3. Parser(r) \in Reads /\ Parser(r).begun = begun[r] /\ Parser(r).applied = applied[r]
      /\ sent \in Nat /\ L \in Nat
  BY <1>1, ParserIs
<1>4. Applied(r)
  BY DEF CorrectionsInv
<1> DEFINE e == Ended(L + 1)'
<1>5. c \in Connection /\ c.here /\ \A x \in BOOLEAN : Fits(Parser(r), c, sent, x)
  <2>1. c.here
    OBVIOUS
  <2>2. ASSUME NEW x \in BOOLEAN PROVE c \in Connection /\ Fits(Parser(r), c, sent, x)
    BY <1>3, <1>4, FitsNew DEF Applied
  <2> HIDE DEF c
  <2> QED BY <2>1, <2>2
<1> HIDE DEF c
<1>6. Hang(r) \in Seq(Connection) /\ Len(Hang(r)) = L
      /\ \A k \in 1..L : k # peer[r] => Hang(r)[k] = connections[k]
  BY <1>1, HangIs
<1> DEFINE h == Hang(r)
<1> HIDE DEF h, L
<1>7. /\ connections' \in Seq(Connection) /\ Len(connections') = L + 1 /\ connections'[L + 1] = c
      /\ \A k \in 1..L : k # peer[r] => connections'[k] = connections[k]
  <2>1. h \in Seq(Connection) /\ Len(h) = L /\ connections' = Append(h, c)
    BY <1>2, <1>6 DEF h
  <2>2. /\ connections' \in Seq(Connection) /\ Len(connections') = L + 1 /\ connections'[L + 1] = c
        /\ \A k \in 1..L : connections'[k] = h[k]
    BY <1>5, <2>1
  <2> QED BY <1>6, <2>2 DEF h
<1>8. peer' = [peer EXCEPT ![r] = L + 1] /\ backlog' = IF hosting THEN Append(backlog, L + 1) ELSE backlog
  BY <1>2, <1>7
<1>9. /\ clients \in Seq(1..L) /\ backlog \in Seq(1..L) /\ peer \in [Rovers -> 0..L]
      /\ \A k \in ToSet(clients) \cup ToSet(backlog) : k \in 1..L
  <2>1. clients \in Seq(1..L) /\ backlog \in Seq(1..L) /\ peer \in [Rovers -> 0..L]
    BY <1>1 DEF CTypes, L
  <2> QED BY <2>1, Elements
<1>10. 1..L \subseteq 1..(L + 1) /\ L + 1 \in 1..(L + 1) /\ L + 1 \notin 1..L /\ L + 1 # 0
  BY <1>3 DEF L
<1>11. clients \in Seq(1..(L + 1)) /\ backlog \in Seq(1..(L + 1)) /\ peer' \in [Rovers -> 0..(L + 1)]
  <2>1. clients \in Seq(1..(L + 1)) /\ backlog \in Seq(1..(L + 1))
    BY <1>9, <1>10, Elements
  <2>2. \A k \in 0..L : k \in 0..(L + 1)
    BY <1>3 DEF L
  <2>3. L + 1 \in 0..(L + 1)
    BY <1>3 DEF L
  <2> QED BY <1>8, <1>9, <2>1, <2>2, <2>3
<1>12. /\ backlog' \in Seq(1..(L + 1))
       /\ ToSet(backlog') \subseteq ToSet(backlog) \cup {L + 1}
       /\ Distinct(clients \o backlog')
  <2>1. Distinct(clients) /\ Distinct(backlog) /\ \A k \in ToSet(clients) : k \notin ToSet(backlog)
    BY <1>1, <1>11, JoinedIs DEF Apart
  <2>2. L + 1 \notin ToSet(clients) /\ L + 1 \notin ToSet(backlog)
    BY <1>9, <1>10
  <2>3. /\ backlog' \in Seq(1..(L + 1)) /\ Distinct(backlog')
        /\ ToSet(backlog') \subseteq ToSet(backlog) \cup {L + 1}
    <3>1. CASE hosting
      <4>1. /\ Append(backlog, L + 1) \in Seq(1..(L + 1)) /\ Distinct(Append(backlog, L + 1))
            /\ ToSet(Append(backlog, L + 1)) = ToSet(backlog) \cup {L + 1}
        BY <1>10, <1>11, <2>1, <2>2, AppendOne
      <4>2. backlog' = Append(backlog, L + 1)
        BY <1>8, <3>1
      <4> QED BY <4>1, <4>2
    <3>2. CASE ~hosting
      BY <1>8, <1>11, <2>1, <3>2
    <3> QED BY <3>1, <3>2
  <2>4. \A k \in ToSet(clients) : k \notin ToSet(backlog')
    BY <2>1, <2>2, <2>3
  <2> QED BY <1>11, <2>1, <2>3, <2>4, JoinedIs
<1>13. CTypes'
  BY <1>1, <1>7, <1>11, <1>12 DEF CTypes
<1>14. peer'[r] = L + 1 /\ \A q \in Rovers : q # r => peer'[q] = peer[q]
  BY <1>8, <1>9
<1>15. \A q \in Rovers : q # r /\ peer[q] # 0 =>
          peer[q] \in 1..L /\ peer[q] # L + 1 /\ connections'[peer[q]] = connections[peer[q]]
  <2> SUFFICES ASSUME NEW q \in Rovers, q # r, peer[q] # 0
               PROVE  /\ peer[q] \in 1..L /\ peer[q] # L + 1
                      /\ connections'[peer[q]] = connections[peer[q]]
    OBVIOUS
  <2>1. peer[q] # peer[r]
    BY <1>1 DEF Apart
  <2>2. peer[q] \in 1..L
    BY <1>1, ParserIs DEF L
  <2> QED BY <1>7, <1>10, <2>1, <2>2
<1>16. Apart'
  <2>1. Distinct(clients' \o backlog')
    BY <1>1, <1>12
  <2>2. ASSUME NEW p \in Rovers, peer'[p] # 0
        PROVE  connections'[peer'[p]].here /\ \A q \in Rovers : peer'[q] = peer'[p] => q = p
    <3>1. CASE p = r
      <4>1. connections'[peer'[p]].here
        BY <1>5, <1>7, <1>14, <3>1
      <4>2. ASSUME NEW q \in Rovers, peer'[q] = peer'[p] PROVE q = p
        BY <1>10, <1>14, <1>15, <3>1, <4>2
      <4> QED BY <4>1, <4>2
    <3>2. CASE p # r
      <4>1. peer'[p] = peer[p] /\ peer[p] # 0 /\ connections'[peer[p]] = connections[peer[p]]
            /\ peer[p] # L + 1
        BY <1>14, <1>15, <2>2, <3>2
      <4>2. ASSUME NEW q \in Rovers, peer'[q] = peer'[p] PROVE q = p
        BY <1>1, <1>14, <4>1, <4>2 DEF Apart
      <4> QED BY <1>1, <4>1, <4>2 DEF Apart
    <3> QED BY <3>1, <3>2
  <2> QED BY <2>1, <2>2 DEF Apart
<1>17. Follows(r)'
  <2>1. Parser(r)' = Parser(r)
    BY <1>1 DEF Parser
  <2>2. Follows(r)' <=> Fits(Parser(r)', connections'[peer'[r]], sent', Ended(peer[r])')
    BY DEF Follows
  <2>3. Ended(peer[r])' \in BOOLEAN
    BY DEF Ended
  <2> QED BY <1>1, <1>5, <1>7, <1>14, <2>1, <2>2, <2>3
<1>18. ASSUME NEW q \in Rovers PROVE Applied(q)' /\ (peer'[q] # 0 => Follows(q)')
  <2>1. Applied(q) /\ (peer[q] # 0 => Follows(q))
    BY DEF CorrectionsInv
  <2>2. sent \in Nat /\ sent' \in Nat /\ sent <= sent'
    BY <1>1, <1>3
  <2>3. Applied(q)'
    BY <1>1, <2>1, <2>2, AppliedOn
  <2>4. ASSUME peer'[q] # 0, q # r PROVE Follows(q)'
    <3>1. peer[q] # 0 /\ peer'[q] = peer[q] /\ connections'[peer[q]] = connections[peer[q]]
      BY <1>14, <1>15, <2>4
    <3>2. ToSet(clients') \cup ToSet(backlog') \subseteq
             ToSet(clients) \cup ToSet(backlog) \cup {Len(connections) + 1}
      BY <1>1, <1>12 DEF L
    <3> QED BY <1>1, <2>1, <2>2, <3>1, <3>2, FollowsOn
  <2> QED BY <1>17, <2>3, <2>4
<1>19. current' = Len(clients') + abandoned'
  BY <1>1
<1> QED BY <1>13, <1>16, <1>18, <1>19 DEF CorrectionsInv

\* What Write does to the connections and the clients.
LEMMA WriteAll ==
    ASSUME CTypes, Distinct(clients), NEW n \in 1..Len(Output),
           NEW written \in [1..Len(clients) -> WriteTo(Packet(n))]
    PROVE  LET w == Write(n, written)
           IN  /\ w.clients \in Seq(1..Len(connections)) /\ Distinct(w.clients)
               /\ ToSet(w.clients) \subseteq ToSet(clients)
               /\ w.connections \in Seq(Connection) /\ Len(w.connections) = Len(connections)
               /\ \A k \in 1..Len(connections) :
                     \/ /\ w.connections[k] = connections[k]
                        /\ k \notin ToSet(clients) \/ ~connections[k].here
                     \/ \E data :
                           /\ Written(n, data) /\ w.connections[k] = Extended(connections[k], n, data)
                           /\ k \in ToSet(clients) /\ (k \notin ToSet(w.clients) \/ Len(data) >= 2)
<1> DEFINE w == Write(n, written)
           L == Len(connections)
           I == 1..Len(clients)
           Kept == {k \in ToSet(clients) : \A i \in I : clients[i] = k => written[i].kept}
           At(k) == CHOOSE i \in I : clients[i] = k
           Grown(k) == [connections[k] EXCEPT !.wire = @ \o written[At(k)].data,
                                              !.cut = IF written[At(k)].data = Packet(n) THEN @
                                                      ELSE @ \cup {n}]
<1>1. clients \in Seq(1..L) /\ connections \in Seq(Connection) /\ L \in Nat
  BY DEF CTypes
<1>2. w.clients = Selected(clients, Kept)
  BY DEF Write, Visited
<1>3. w.connections = [k \in 1..L |->
                          IF k \notin ToSet(clients) \/ ~connections[k].here THEN connections[k]
                          ELSE [IF \E i \in I : clients[i] = k THEN Grown(k) ELSE connections[k]
                                   EXCEPT !.owed = @ \cup {n}]]
  BY DEF Write, Visited
<1>4. w.clients \in Seq(1..L) /\ Distinct(w.clients) /\ ToSet(w.clients) = ToSet(clients) \cap Kept
  BY <1>1, <1>2, SelectedIs
<1> HIDE DEF w
<1>5. ASSUME NEW k \in 1..L, k \in ToSet(clients), connections[k].here
      PROVE  \E data : /\ Written(n, data) /\ w.connections[k] = Extended(connections[k], n, data)
                       /\ k \notin ToSet(w.clients) \/ Len(data) >= 2
  <2>1. \E i \in I : clients[i] = k
    BY <1>1, <1>5 DEF ToSet
  <2>2. At(k) \in I /\ clients[At(k)] = k
    BY <2>1
  <2> DEFINE data == written[At(k)].data
             c == connections[k]
  <2>3. w.connections[k] = [Grown(k) EXCEPT !.owed = @ \cup {n}]
    <3> DEFINE P == \E i \in I : clients[i] = k
               Q == k \notin ToSet(clients) \/ ~connections[k].here
    <3>1. w.connections[k] = IF Q THEN connections[k]
                             ELSE [IF P THEN Grown(k) ELSE connections[k] EXCEPT !.owed = @ \cup {n}]
      BY <1>3
    <3>2. P /\ ~Q
      BY <1>5, <2>1
    <3> HIDE DEF P, Q, Grown
    <3> QED BY <3>1, <3>2
  <2> HIDE DEF At
  <2>4. c = [here |-> c.here, wire |-> c.wire, owed |-> c.owed, cut |-> c.cut, whole |-> c.whole]
    <3>1. c \in Connection
      BY <1>1
    <3> HIDE DEF c
    <3> QED BY <3>1 DEF Connection
  <2>5. w.connections[k] = Extended(c, n, data)
    BY <2>3, <2>4 DEF Extended
  <2>6. Written(n, data) /\ (written[At(k)].kept => Len(data) >= 2)
    <3>1. written[At(k)] \in WriteTo(Packet(n))
      BY <2>2
    <3> QED BY <3>1, WrittenIs
  <2>7. k \in ToSet(w.clients) => written[At(k)].kept
    BY <1>4, <2>2
  <2> HIDE DEF data, c
  <2> QED BY <2>5, <2>6, <2>7 DEF c
<1> HIDE DEF I, Grown, At, Kept
<1>6. ASSUME NEW k \in 1..L, k \notin ToSet(clients) \/ ~connections[k].here
      PROVE  w.connections[k] = connections[k]
  BY <1>3, <1>6
<1>7. w.connections \in Seq(Connection) /\ Len(w.connections) = L
  <2>1. \A k \in 1..L : w.connections[k] \in Connection
    <3> SUFFICES ASSUME NEW k \in 1..L PROVE w.connections[k] \in Connection
      OBVIOUS
    <3>1. connections[k] \in Connection
      BY <1>1
    <3>2. CASE k \in ToSet(clients) /\ connections[k].here
      BY <1>5, <3>1, <3>2, ExtendedIs
    <3>3. CASE ~(k \in ToSet(clients) /\ connections[k].here)
      BY <1>6, <3>1, <3>3
    <3> QED BY <3>2, <3>3
  <2>2. w.connections = [k \in 1..L |-> w.connections[k]]
    BY <1>3
  <2> HIDE DEF L
  <2>3. w.connections \in [1..L -> Connection]
    BY <2>1, <2>2
  <2> QED BY <1>1, <2>3
<1>8. \A k \in 1..L :
         \/ w.connections[k] = connections[k] /\ (k \notin ToSet(clients) \/ ~connections[k].here)
         \/ \E data :
               /\ Written(n, data) /\ w.connections[k] = Extended(connections[k], n, data)
               /\ k \in ToSet(clients) /\ (k \notin ToSet(w.clients) \/ Len(data) >= 2)
  <2> SUFFICES ASSUME NEW k \in 1..L, k \in ToSet(clients), connections[k].here
               PROVE  \E data :
                         /\ Written(n, data) /\ w.connections[k] = Extended(connections[k], n, data)
                         /\ k \in ToSet(clients) /\ (k \notin ToSet(w.clients) \/ Len(data) >= 2)
    BY <1>6
  <2> QED BY <1>5
<1> QED BY <1>4, <1>7, <1>8 DEF w

LEMMA UpdateServerKept ==
    ASSUME CorrectionsAssumption, CorrectionsInv, UpdateServer PROVE CorrectionsInv'
<1>1. CTypes /\ Apart /\ current = Len(clients) + abandoned
      /\ UNCHANGED <<hosting, peer, begun, behind, applied, abandoned>>
  BY DEF CorrectionsInv, UpdateServer
<1> DEFINE L == Len(connections)
           \* What becomes of the connection k.
           Same(k) == connections'[k] = connections[k]
           Grows(k) == \E data :
                          /\ Written(sent', data) /\ connections'[k] = Extended(connections[k], sent', data)
                          /\ k \in ToSet(clients) /\ (k \notin ToSet(clients') \/ Len(data) >= 2)
                          /\ sent < sent' /\ Forwarded(Output[sent']) /\ sent' \in 1..Len(Output)
<1>2. /\ clients \in Seq(1..L) /\ backlog \in Seq(1..L) /\ connections \in Seq(Connection) /\ L \in Nat
      /\ sent \in 0..Len(Output) /\ Len(Output) \in Nat
  BY <1>1 DEF CTypes, CorrectionsAssumption
<1>3. Distinct(clients) /\ Distinct(backlog) /\ \A k \in ToSet(clients) : k \notin ToSet(backlog)
  BY <1>1, <1>2, JoinedIs DEF Apart
\* The packet is forwarded or not, and the clients are updated.
<1>4. \E s \in Seq(1..L) : \E reset \in SUBSET Resettable(s) :
         /\ Update(s, reset) /\ Distinct(s) /\ ToSet(s) \subseteq ToSet(clients)
         /\ connections' \in Seq(Connection) /\ Len(connections') = L
         /\ sent' \in 0..Len(Output) /\ sent <= sent'
         /\ \A k \in 1..L :
               \/ Same(k)
               \/ \E data :
                     /\ Written(sent', data) /\ connections'[k] = Extended(connections[k], sent', data)
                     /\ k \in ToSet(clients) /\ (k \notin ToSet(s) \/ Len(data) >= 2)
                     /\ sent < sent' /\ Forwarded(Output[sent']) /\ sent' \in 1..Len(Output)
  <2>1. CASE \E reset \in SUBSET Resettable(clients) :
                Update(clients, reset) /\ UNCHANGED <<sent, connections>>
    <3>1. PICK reset \in SUBSET Resettable(clients) :
             Update(clients, reset) /\ UNCHANGED <<sent, connections>>
      BY <2>1
    <3>2. sent <= sent'
      BY <1>2, <3>1
    <3> QED BY <1>2, <1>3, <3>1, <3>2
  <2>2. CASE /\ sent < Len(Output) /\ sent' = sent + 1
             /\ \E written \in [1..Len(clients) -> WriteTo(Packet(sent'))] :
                   LET w == IF Forwarded(Output[sent']) THEN Write(sent', written)
                            ELSE [connections |-> connections, clients |-> clients]
                   IN  /\ connections' = w.connections
                       /\ \E reset \in SUBSET Resettable(w.clients) : Update(w.clients, reset)
    <3>1. sent' \in 1..Len(Output) /\ sent' \in 0..Len(Output) /\ sent < sent' /\ sent <= sent'
      BY <1>2, <2>2
    <3>2. PICK written \in [1..Len(clients) -> WriteTo(Packet(sent'))] :
             LET w == IF Forwarded(Output[sent']) THEN Write(sent', written)
                      ELSE [connections |-> connections, clients |-> clients]
             IN  /\ connections' = w.connections
                 /\ \E reset \in SUBSET Resettable(w.clients) : Update(w.clients, reset)
      BY <2>2
    <3>3. CASE ~Forwarded(Output[sent'])
      <4>1. connections' = connections /\ \E reset \in SUBSET Resettable(clients) : Update(clients, reset)
        BY <3>2, <3>3
      <4> QED BY <1>2, <1>3, <3>1, <4>1
    <3>4. CASE Forwarded(Output[sent'])
      <4> DEFINE w == Write(sent', written)
      <4>1. connections' = w.connections
            /\ \E reset \in SUBSET Resettable(w.clients) : Update(w.clients, reset)
        BY <3>2, <3>4
      <4>2. /\ w.clients \in Seq(1..L) /\ Distinct(w.clients) /\ ToSet(w.clients) \subseteq ToSet(clients)
            /\ w.connections \in Seq(Connection) /\ Len(w.connections) = L
            /\ \A k \in 1..L :
                  \/ w.connections[k] = connections[k]
                  \/ \E data :
                        /\ Written(sent', data)
                        /\ w.connections[k] = Extended(connections[k], sent', data)
                        /\ k \in ToSet(clients) /\ (k \notin ToSet(w.clients) \/ Len(data) >= 2)
        BY <1>1, <1>3, <3>1, WriteAll
      <4> HIDE DEF w, L
      <4> QED BY <3>1, <3>4, <4>1, <4>2
    <3> QED BY <3>3, <3>4
  <2> QED BY <2>1, <2>2 DEF UpdateServer
<1>5. PICK s \in Seq(1..L) : \E reset \in SUBSET Resettable(s) :
         /\ Update(s, reset) /\ Distinct(s) /\ ToSet(s) \subseteq ToSet(clients)
         /\ connections' \in Seq(Connection) /\ Len(connections') = L
         /\ sent' \in 0..Len(Output) /\ sent <= sent'
         /\ \A k \in 1..L :
               \/ Same(k)
               \/ \E data :
                     /\ Written(sent', data) /\ connections'[k] = Extended(connections[k], sent', data)
                     /\ k \in ToSet(clients) /\ (k \notin ToSet(s) \/ Len(data) >= 2)
                     /\ sent < sent' /\ Forwarded(Output[sent']) /\ sent' \in 1..Len(Output)
  BY <1>4
<1>6. Distinct(s \o backlog)
  BY <1>2, <1>3, <1>5, JoinedIs
<1>7. /\ clients' \in Seq(1..L) /\ backlog' = <<>> /\ Distinct(clients' \o backlog')
      /\ ToSet(clients') \subseteq ToSet(s) \cup ToSet(backlog) /\ ToSet(backlog') = {}
      /\ current' = Len(clients') + abandoned
  <2>1. PICK reset \in SUBSET Resettable(s) : Update(s, reset)
    BY <1>5
  <2> QED BY <1>1, <1>6, <2>1, UpdateIs
<1>8. \A k \in 1..L : Same(k) \/ Grows(k)
  <2> SUFFICES ASSUME NEW k \in 1..L, ~Same(k) PROVE Grows(k)
    OBVIOUS
  <2>1. k \in ToSet(clients) => k \notin ToSet(backlog)
    BY <1>3
  <2>2. k \in ToSet(clients) /\ k \notin ToSet(s) => k \notin ToSet(clients')
    BY <1>7, <2>1
  <2> QED BY <1>5, <2>2
<1>9. CTypes'
  <2>1. current' \in Int /\ abandoned' \in Nat
    <3>1. Len(clients') \in Nat /\ abandoned \in Nat
      BY <1>1, <1>7 DEF CTypes
    <3> QED BY <1>1, <1>7, <3>1
  <2>2. backlog' \in Seq(1..L)
    BY <1>7
  <2> QED BY <1>1, <1>5, <1>7, <2>1, <2>2 DEF CTypes
<1>10. \A r \in Rovers : peer[r] # 0 => peer[r] \in 1..L /\ connections[peer[r]] \in Connection
  BY <1>1, ParserIs
<1> HIDE DEF L
<1>11. \A k \in 1..L : connections[k].here => connections'[k].here
  <2> SUFFICES ASSUME NEW k \in 1..L, connections[k].here PROVE connections'[k].here
    OBVIOUS
  <2>1. CASE Same(k)
    BY <2>1
  <2>2. CASE Grows(k)
    <3>1. connections[k] \in Connection
      BY <1>2 DEF L
    <3> QED BY <2>2, <3>1, ExtendedIs
  <2> QED BY <1>8, <2>1, <2>2
<1>12. Apart'
  BY <1>1, <1>7, <1>10, <1>11 DEF Apart
<1>13. ASSUME NEW r \in Rovers PROVE Applied(r)' /\ (peer'[r] # 0 => Follows(r)')
  <2>1. Applied(r) /\ (peer[r] # 0 => Follows(r))
    BY DEF CorrectionsInv
  <2>2. sent \in Nat /\ sent' \in Nat /\ sent <= sent'
    BY <1>2, <1>5
  <2>3. Applied(r)'
    BY <1>1, <2>1, <2>2, AppliedOn
  <2>4. ASSUME peer[r] # 0 PROVE Follows(r)'
    <3> DEFINE k == peer[r]
               e == Ended(k)'
    <3>1. k \in 1..L /\ connections[k] \in Connection /\ Parser(r) \in Reads
      BY <1>1, <1>10, <2>4, ParserIs
    <3>2. CASE Same(k)
      <4>1. ToSet(clients') \cup ToSet(backlog') \subseteq
               ToSet(clients) \cup ToSet(backlog) \cup {Len(connections) + 1}
        BY <1>5, <1>7
      <4> QED BY <1>1, <2>1, <2>2, <2>4, <3>2, <4>1, FollowsOn
    <3>3. CASE Grows(k)
      <4>1. PICK data :
               /\ Written(sent', data) /\ connections'[k] = Extended(connections[k], sent', data)
               /\ k \in ToSet(clients) /\ (k \notin ToSet(clients') \/ Len(data) >= 2)
               /\ sent < sent' /\ Forwarded(Output[sent']) /\ sent' \in 1..Len(Output)
        BY <3>3
      <4>2. Fits(Parser(r), connections[k], sent, FALSE)
        <5>1. Ended(k) = FALSE
          BY <4>1 DEF Ended
        <5> QED BY <2>1, <2>4, <5>1 DEF Follows
      <4>3. e \in BOOLEAN /\ (e \/ Len(data) >= 2)
        BY <1>1, <1>7, <4>1 DEF Ended
      <4> HIDE DEF e
      <4> DEFINE top == sent'
                 c == connections[k]
                 x == Parser(r)
      <4>4. c \in Connection /\ x \in Reads /\ top \in 1..Len(Output) /\ sent < top /\ Written(top, data)
            /\ Forwarded(Output[top]) /\ Fits(x, c, sent, FALSE)
        BY <3>1, <4>1, <4>2
      <4> HIDE DEF top, c, x
      <4>5. Fits(x, Extended(c, top, data), top, e)
        BY <2>2, <4>3, <4>4, FitsWrite
      <4>6. Parser(r)' = x /\ connections'[k] = Extended(c, top, data) /\ peer'[r] = k
        BY <1>1, <4>1 DEF Parser, x, c, top
      <4>7. Follows(r)' <=> Fits(Parser(r)', connections'[peer'[r]], sent', Ended(peer[r])')
        BY DEF Follows
      <4>8. Ended(peer[r])' = e
        BY <1>1 DEF Ended, e
      <4> QED BY <4>5, <4>6, <4>7, <4>8 DEF top
    <3> QED BY <1>8, <3>1, <3>2, <3>3
  <2> QED BY <1>1, <2>3, <2>4
<1> QED BY <1>1, <1>7, <1>9, <1>12, <1>13 DEF CorrectionsInv

LEMMA InitHolds == ASSUME CorrectionsAssumption, TInit PROVE CorrectionsInv
<1>1. /\ sent = 0 /\ hosting = TRUE /\ clients = <<>> /\ current = 0 /\ backlog = <<>>
      /\ connections = <<>> /\ abandoned = 0
      /\ peer = [r \in Rovers |-> 0] /\ begun = [r \in Rovers |-> <<>>]
      /\ behind = [r \in Rovers |-> 0] /\ applied = [r \in Rovers |-> <<>>]
      /\ Len(Output) \in Nat /\ MaxBehind \in Nat
  BY DEF TInit, CorrectionsAssumption
<1>2. CTypes
  <2>1. Len(<<>>) = 0 /\ 0 \in 0..MaxBehind /\ 0 \in 0..Len(Output)
    BY <1>1
  <2>2. \A S : <<>> \in Seq(S)
    OBVIOUS
  <2> QED BY <1>1, <2>1, <2>2 DEF CTypes
<1>3. Apart
  <2>1. Distinct(clients \o backlog)
    BY <1>1 DEF Distinct
  <2> QED BY <1>1, <2>1 DEF Apart
<1>4. current = Len(clients) + abandoned
  BY <1>1
<1>5. \A r \in Rovers : Applied(r) /\ peer[r] = 0
  <2>1. \A i \in 1..Len(<<>>) : FALSE
    OBVIOUS
  <2> QED BY <1>1, <2>1 DEF Applied
<1> QED BY <1>2, <1>3, <1>4, <1>5 DEF CorrectionsInv

LEMMA StepKept == ASSUME CorrectionsAssumption, CorrectionsInv, [TNext]_tvars PROVE CorrectionsInv'
<1>1. CASE UpdateServer
  BY <1>1, UpdateServerKept
<1>2. ASSUME NEW opens \in BOOLEAN, CreateHost(opens) PROVE CorrectionsInv'
  BY <1>2, CreateHostKept
<1>3. ASSUME NEW r \in Rovers, OpenConnectionToServer(r) PROVE CorrectionsInv'
  BY <1>3, OpenKept
<1>4. ASSUME NEW r \in Rovers, CloseServerConnection(r) PROVE CorrectionsInv'
  <2>1. behind \in [Rovers -> 0..MaxBehind]
    BY DEF CorrectionsInv, CTypes
  <2> QED BY <1>4, <2>1, CloseKept DEF CloseServerConnection
<1>5. ASSUME NEW r \in Rovers, UpdateClient(r) PROVE CorrectionsInv'
  BY <1>5, UpdateClientKept
<1>6. ASSUME NEW r \in Rovers, UpdateClientFails(r) PROVE CorrectionsInv'
  <2>1. PICK n \in behind[r]..MaxBehind : behind' = [behind EXCEPT ![r] = n]
    BY <1>6 DEF UpdateClientFails
  <2>2. behind \in [Rovers -> 0..MaxBehind] /\ MaxBehind \in Nat
    BY DEF CorrectionsInv, CTypes, CorrectionsAssumption
  <2>3. n \in 0..MaxBehind
    <3>1. behind[r] \in 0..MaxBehind
      BY <2>2
    <3> QED BY <2>2, <3>1
  <2>4. behind' \in [Rovers -> 0..MaxBehind] /\ \A q \in Rovers : q # r => behind'[q] = behind[q]
    BY <2>1, <2>2, <2>3
  <2> QED BY <1>6, <2>4, CloseKept DEF UpdateClientFails
<1>7. CASE UNCHANGED tvars
  <2>1. CTypes' /\ Apart' /\ current' = Len(clients') + abandoned'
    BY <1>7 DEF CorrectionsInv, CTypes, Apart, tvars
  <2>2. ASSUME NEW r \in Rovers PROVE Applied(r)' /\ (peer'[r] # 0 => Follows(r)')
    <3>1. Applied(r) /\ (peer[r] # 0 => Follows(r))
      BY DEF CorrectionsInv
    <3> QED BY <1>7, <3>1 DEF Applied, Follows, Parser, Ended, tvars
  <2> QED BY <2>1, <2>2 DEF CorrectionsInv
<1> QED BY <1>1, <1>2, <1>3, <1>4, <1>5, <1>6, <1>7 DEF TNext

\* What was found, and no more, may be missing at the front.
LEMMA NothingIsMissing ==
    ASSUME CorrectionsAssumption, CorrectionsInv, NEW r \in Rovers, peer[r] # 0,
           NEW n \in connections[peer[r]].owed \ connections[peer[r]].cut
    PROVE  \/ n \in ToSet(applied[r]) \cup OnItsWay(r)
           \/ /\ ~connections[peer[r]].whole
              /\ Cardinality({m \in connections[peer[r]].owed \ connections[peer[r]].cut : m < n})
                    <= MaxBehind \div Units
<1> DEFINE c == connections[peer[r]]
           s == Parser(r)
           N == c.owed \ c.cut
           Before == {m \in N : m < n}
<1>1. CTypes /\ Follows(r)
  BY DEF CorrectionsInv
<1>2. s \in Reads /\ s.begun = begun[r] /\ s.applied = applied[r] /\ c \in Connection
  BY <1>1, ParserIs
<1>3. PICK S \in SUBSET (1..Len(c.wire)), G \in SUBSET (1..Len(Output)) :
         Found(s, c, 0, Ended(peer[r]), S, G)
  BY <1>1 DEF Follows, Fits
<1>4. begun[r] \in Seq(Unit) /\ c.wire \in Seq(Unit)
  BY <1>1, <1>2 DEF CTypes, Connection
<1>5. OnItsWay(r) = {u.packet : u \in ToSet(begun[r]) \cup ToSet(c.wire)}
  <2>1. ToSet(begun[r] \o c.wire) = ToSet(begun[r]) \cup ToSet(c.wire)
    BY <1>4, JoinedIs
  <2> QED BY <2>1 DEF OnItsWay
<1>6. Coming(c, 0, S) \subseteq OnItsWay(r)
  <2>1. \A i \in S : c.wire[i] \in ToSet(c.wire)
    BY <1>4 DEF ToSet
  <2> QED BY <1>5, <2>1 DEF Coming
<1>7. CASE n \in G
  <2>1. ~c.whole /\ Cardinality(G) <= MaxBehind \div Units + 1
    BY <1>3, <1>7 DEF Found
  <2>2. Before \subseteq G \ {n}
    <3>1. \A m \in N : m < n => m \in G
      BY <1>3, <1>7 DEF Found
    <3>2. ~(n < n)
      BY <1>3, <1>7
    <3> QED BY <3>1, <3>2
  <2>3. IsFiniteSet(G)
    <3>1. Len(Output) \in Int /\ 1 \in Int
      BY DEF CorrectionsAssumption
    <3>2. IsFiniteSet(1..Len(Output))
      BY <3>1, FS_Interval
    <3> QED BY <1>3, <3>2, FS_Subset
  <2>4. IsFiniteSet(G \ {n}) /\ Cardinality(G \ {n}) = Cardinality(G) - 1
    BY <1>7, <2>3, FS_RemoveElement
  <2> HIDE DEF Before
  <2>5. IsFiniteSet(Before) /\ Cardinality(Before) <= Cardinality(G \ {n})
    BY <2>2, <2>4, FS_Subset
  <2>6. Cardinality(Before) \in Nat /\ Cardinality(G) \in Nat /\ MaxBehind \div Units \in Int
    <3>1. MaxBehind \div Units \in Int
      BY DEF CorrectionsAssumption, Units
    <3> QED BY <2>3, <2>5, <3>1, FS_CardinalityType
  <2>7. Cardinality(Before) <= MaxBehind \div Units
    BY <2>1, <2>4, <2>5, <2>6
  <2> QED BY <2>1, <2>7 DEF Before
<1>8. CASE n \notin G
  <2>1. CASE N \subseteq G \cup Coming(c, 0, S)
    BY <1>6, <1>8, <2>1
  <2>2. CASE N \subseteq G \cup Coming(c, 0, S) \cup ToSet(s.applied)
    BY <1>2, <1>6, <1>8, <2>2
  <2>3. CASE /\ s.begun # <<>>
             /\ N \subseteq G \cup Coming(c, 0, S) \cup ToSet(s.applied) \cup {s.begun[1].packet}
    <3>1. s.begun[1] \in ToSet(begun[r])
      BY <1>2, <1>4, <2>3 DEF ToSet
    <3>2. s.begun[1].packet \in OnItsWay(r)
      BY <1>5, <3>1
    <3> QED BY <1>2, <1>6, <1>8, <2>3, <3>2
  <2> QED BY <1>3, <2>1, <2>2, <2>3 DEF Found, Within
<1> QED BY <1>7, <1>8

LEMMA InvSuffices == ASSUME CorrectionsAssumption, CorrectionsInv PROVE CorrectionsArrive
<1>1. CTypes /\ Apart /\ current = Len(clients) + abandoned /\ \A r \in Rovers : Applied(r)
  BY DEF CorrectionsInv
<1>2. AppliedInOrder
  <2> SUFFICES ASSUME NEW r \in Rovers
               PROVE  /\ \A i \in 1..Len(applied[r]) :
                            applied[r][i] \in 1..sent /\ Output[applied[r][i]] \in {"rtcm3", "ublox"}
                      /\ \A i, j \in 1..Len(applied[r]) : i < j => applied[r][i] < applied[r][j]
    BY DEF AppliedInOrder
  <2>1. sent \in Nat /\ \A i \in 1..Len(applied[r]) : applied[r][i] \in 1..Len(Output)
    BY <1>1 DEF CTypes
  <2>2. Len(Output) \in Nat
    BY DEF CorrectionsAssumption
  <2>3. \A i \in 1..Len(applied[r]) : applied[r][i] <= sent /\ Forwarded(Output[applied[r][i]])
    BY <1>1 DEF Applied
  <2>4. \A i \in 1..Len(applied[r]) : applied[r][i] \in 1..sent
    BY <2>1, <2>2, <2>3
  <2> QED BY <1>1, <2>3, <2>4 DEF Applied, Forwarded
<1>3. NothingMissing
  BY NothingIsMissing DEF NothingMissing
<1>4. ClientsCounted
  <2>1. Distinct(clients)
    <3>1. clients \in Seq(1..Len(connections)) /\ backlog \in Seq(1..Len(connections))
      BY <1>1 DEF CTypes
    <3> QED BY <1>1, <3>1, JoinedIs DEF Apart
  <2> QED BY <1>1, <2>1 DEF ClientsCounted, Distinct
<1> QED BY <1>2, <1>3, <1>4 DEF CorrectionsArrive

\* Of any number of rovers, however often they connect, close, lose or regain
\* their connection, and however little of a packet the sockets take, all get
\* the corrections of the base in order and once; none is missing but what a
\* short write cut and, where a parser did not start afresh, the first ones;
\* and the base counts its clients (InertialSense.cpp, ISTcpServer.cpp).
THEOREM CorrectionsComeInOrder ==
    ASSUME CorrectionsAssumption PROVE TSpec => []CorrectionsArrive
<1>1. TInit => CorrectionsInv
  BY InitHolds
<1>2. CorrectionsInv /\ [TNext]_tvars => CorrectionsInv'
  BY StepKept
<1>3. CorrectionsInv => CorrectionsArrive
  BY InvSuffices
<1> QED BY <1>1, <1>2, <1>3, PTL DEF TSpec

=============================================================================
