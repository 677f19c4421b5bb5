--------------------------- MODULE NmeaSentences ---------------------------
(***************************************************************************)
(* Two families of NMEA sentences (protocol_nmea.cpp).  Satellites and     *)
(* their signals in GSV sentences, in version 2.3, where the satellite's   *)
(* number tells the band, and in 4.11, where a sentence is of one signal;  *)
(* a line may be lost.  And the commands that choose which sentences a     *)
(* device sends on which port: ASCB, which sets the period of every        *)
(* sentence, and ASCE, which sets those it lists, by number or by name.    *)
(***************************************************************************)
EXTENDS Integers, Sequences, FiniteSets, SequencesExt, Folds

CONSTANTS Skies,        \* [sats, numSats, sigs, numSigs]: the lists of a device and
                        \* how much of them counts, an earlier sky left the rest
          MaxSatellites, MaxSignals,   \* the room of the host's lists
          Commands,     \* [type, options, fields]
          MaxCommands   \* commands of a behaviour

VARIABLES version, sky, lines, sat, sig, lost

gvars == <<version, sky, lines, sat, sig, lost>>

Whatever == "any signal"

----------------------------------------------------------------------------
\* Names of a signal: of its satellite system, in version 4.11 (the characters
\* of sigId_to_nmea4p11_signalId), and the band that is added in version 2.3
\* to the satellite's number (sigId_to_nmea2p3_svId).
Signals ==
    [GPS |-> <<"L1CA", "L2CL", "L2CM", "L5I", "L5Q">>,
     SBS |-> <<>>,
     GAL |-> <<"E1C2", "E1B2", "E5aI", "E5aQ", "E5bI", "E5bQ">>,
     BEI |-> <<"B1D1", "B1D2", "B2D1", "B2D2", "B1C", "B2a">>,
     QZS |-> <<"L1CA", "L1S", "L2CM", "L2CL", "L5I", "L5Q">>,
     GLO |-> <<"L1OF", "L2OF">>,
     IRN |-> <<"L5A">>]
SignalIds ==
    [GPS |-> <<"1", "6", "5", "7", "8">>, SBS |-> <<>>, GAL |-> <<"7", "7", "1", "1", "2", "2">>,
     BEI |-> <<"1", "1", "B", "B", "3", "5">>, QZS |-> <<"1", "4", "5", "6", "7", "8">>,
     GLO |-> <<"1", "3">>, IRN |-> <<"7">>]
Bands ==
    [GPS |-> <<0, 256, 256, 512, 512>>, SBS |-> <<>>, GAL |-> <<0, 0, 256, 256, 512, 512>>,
     BEI |-> <<0, 0, 256, 256, 0, 512>>, QZS |-> <<0, 0, 256, 256, 512, 512>>,
     GLO |-> <<0, 256>>, IRN |-> <<512>>]

SignalId(g, s) == SignalIds[g][CHOOSE i \in DOMAIN Signals[g] : Signals[g][i] = s]
Band(g, s) == Bands[g][CHOOSE i \in DOMAIN Signals[g] : Signals[g][i] = s]

\* nmea4p11_signalId_to_sigId: of signals that share a character the first,
\* but the last of Galileo's E5b; of none that has it, no signal.
Unknown == "no signal"
SignalOf(g, c) ==
    IF g = "SBS" THEN "L1CA"
    ELSE IF g = "GAL" /\ c = "2" THEN "E5bQ"
    ELSE LET i == SelectInSeq(SignalIds[g], LAMBDA id : id = c)
         IN  IF i = 0 THEN Unknown ELSE Signals[g][i]

\* nmea2p3_svid_to_sigId: the most common signal of the band.
SignalOfBand(g, svId) ==
    IF g = "SBS" THEN "L1CA"
    ELSE IF svId < 256 THEN Signals[g][1]
    ELSE IF svId >= 512
    THEN [GPS |-> "L5Q", GAL |-> "E5bQ", BEI |-> "B2a", QZS |-> "L5Q", GLO |-> "L2OF", IRN |-> "L5A"][g]
    ELSE [GPS |-> "L2CL", GAL |-> "E5aQ", BEI |-> "B2D1", QZS |-> "L2CL", GLO |-> "L2OF", IRN |-> "L5A"][g]

\* Mutant: a satellite of SBAS keeps its NMEA number.
SvIdKept(talker, n) == IF talker = "P" /\ n >= 193 THEN n - 192 ELSE n

\* gnssId_to_talkerId and back, with the number of the satellite
\* (talkerId_to_gnssId): what is left of it, and its system.
Talker(g) ==
    [GPS |-> "P", SBS |-> "P", GAL |-> "A", BEI |-> "B", QZS |-> "Q", GLO |-> "L", IRN |-> "I"][g]
Number(svId) ==
    IF version # "2.3" THEN svId
    ELSE IF svId >= 512 THEN svId - 512 ELSE IF svId >= 256 THEN svId - 256 ELSE svId
System(talker, n) ==
    IF talker = "P" THEN IF n >= 193 THEN "QZS" ELSE IF n > 32 THEN "SBS" ELSE "GPS"
    ELSE [A |-> "GAL", B |-> "BEI", L |-> "GLO", I |-> "IRN", Q |-> "QZS"][talker]
SvId(talker, n) ==
    IF talker # "P" THEN n
    ELSE IF n >= 193 THEN n - 192 ELSE IF n > 32 /\ n <= 64 THEN n + 87 ELSE n

\* gsv_sig_match, of signals that are received.
Matches(g, name, s) ==
    /\ s.cno # 0 /\ g # "SBS"
    /\ (s.gnss = g \/ (g = "GPS" /\ s.gnss = "SBS"))
    /\ name \in {Whatever, s.sig}

\* prnToSvId
SvOfPrn(s) == IF s.gnss = "SBS" THEN s.sv - 87 ELSE s.sv

\* Mutant: the band is left out.
EntryPlain(g, s, v) == [n |-> SvOfPrn(s), elev |-> v.elev, azim |-> v.azim, cno |-> s.cno]

\* A satellite of a sentence: number, elevation, azimuth, carrier to noise.
Entry(g, s, v) ==
    [n |-> SvOfPrn(s) + (IF version = "2.3" THEN Band(g, s.sig) ELSE 0),
     elev |-> v.elev, azim |-> v.azim, cno |-> s.cno]

Chunk(s, k) == SubSeq(s, 4 * k - 3, IF 4 * k > Len(s) THEN Len(s) ELSE 4 * k)

Sats == SubSeq(sky.sats, 1, sky.numSats)
Sigs == SubSeq(sky.sigs, 1, sky.numSigs)

\* The loops over the lists go one entry past what counts of them.
LoopedOver(list, n) == SubSeq(list, 1, IF n < Len(list) THEN n + 1 ELSE n)

\* nmea_gsv_group: as many sentences as the signals that count need, of up to
\* four satellites each; the last of them may get one more than it announces.
Group(g, name) ==
    LET numSigs == Len(SelectSeq(Sigs, LAMBDA s : Matches(g, name, s)))
        sats == LoopedOver(sky.sats, sky.numSats)
        SatOf(s) == SelectInSeq(sats, LAMBDA v : v.gnss = s.gnss /\ v.sv = s.sv)
        own == SelectSeq(LoopedOver(sky.sigs, sky.numSigs),
                         LAMBDA s : Matches(g, name, s) /\ SatOf(s) # 0)
        entries == [i \in 1..Len(own) |-> Entry(g, own[i], sats[SatOf(own[i])])]
        numMsgs == (numSigs + 3) \div 4
    IN  [k \in 1..numMsgs |->
            [talker |-> Talker(g), numMsgs |-> numMsgs, msgNum |-> k, numSigs |-> numSigs,
             sats |-> Chunk(entries, k),
             signalId |-> IF version = "2.3" THEN "" ELSE SignalId(g, name)]]

\* nmea_gsv_gnss, nmea_gsv
OfSystem(g) ==
    IF version = "2.3" THEN Group(g, Whatever)
    ELSE FlattenSeq([i \in 1..Len(Signals[g]) |-> Group(g, Signals[g][i])])
Gsv == FlattenSeq([i \in 1..6 |-> OfSystem(<<"GPS", "GAL", "BEI", "QZS", "GLO", "IRN">>[i])])

\* nmea_parse_gsv: the satellites that a line says it has; the signal is the
\* first character of the field behind them, whatever it is.
InLine(l) ==
    LET left == l.numSigs - (l.msgNum - 1) * 4 IN IF left > 4 THEN 4 ELSE left
FirstDigit(n) ==
    <<"0", "1", "2", "3", "4", "5", "6", "7", "8", "9">>[
        1 + (IF n < 10 THEN 0 ELSE IF n < 100 THEN n \div 10 ELSE n \div 100)]
SignalField(l) == IF Len(l.sats) > InLine(l) THEN FirstDigit(l.sats[InLine(l) + 1].n) ELSE l.signalId

\* Mutant: a satellite is added for every signal.
AddSatAlways(list, v) == IF Len(list) = MaxSatellites THEN list ELSE Append(list, v)

\* A satellite is added once, a signal every time.
AddSat(list, v) ==
    IF Len(list) = MaxSatellites \/ \E i \in DOMAIN list : list[i].gnss = v.gnss /\ list[i].sv = v.sv
    THEN list ELSE Append(list, v)
AddSig(list, s) == IF Len(list) = MaxSignals THEN list ELSE Append(list, s)

Read(l, i) ==
    LET e == l.sats[i]
        n == Number(e.n)
        last == l.sats[InLine(l)]
        g == System(l.talker, n)
    IN  [gnss |-> g, sv |-> SvId(l.talker, n), elev |-> e.elev, azim |-> e.azim, cno |-> e.cno,
         sig |-> IF version = "2.3" THEN SignalOfBand(g, e.n)
                 ELSE SignalOf(System(l.talker, Number(last.n)), SignalField(l))]

ParseGsv(l) ==
    LET read == [i \in 1..InLine(l) |-> Read(l, i)]
    IN  /\ sat' = FoldLeft(LAMBDA list, r : AddSat(list, [gnss |-> r.gnss, sv |-> r.sv, elev |-> r.elev, azim |-> r.azim]),
                          sat, read)
        /\ sig' = FoldLeft(LAMBDA list, r : AddSig(list, [gnss |-> r.gnss, sv |-> r.sv, sig |-> r.sig, cno |-> r.cno]),
                          sig, read)

----------------------------------------------------------------------------
GInit ==
    /\ version \in {"2.3", "4.11"} /\ sky \in Skies
    /\ lines = Gsv /\ sat = <<>> /\ sig = <<>> /\ lost = FALSE

Receive ==
    /\ lines # <<>> /\ ParseGsv(Head(lines)) /\ lines' = Tail(lines) /\ UNCHANGED <<version, sky, lost>>
Lose ==
    /\ lines # <<>> /\ lines' = Tail(lines) /\ lost' = TRUE /\ UNCHANGED <<version, sky, sat, sig>>

GNext == Receive \/ Lose

GSpec == GInit /\ [][GNext]_gvars

----------------------------------------------------------------------------
\* A signal as a line can tell it.
Told(s) ==
    [s EXCEPT !.sig =
        IF s.gnss = "SBS" THEN "L1CA"
        ELSE IF version = "2.3" THEN SignalOfBand(s.gnss, Band(s.gnss, s.sig))
        ELSE SignalOf(s.gnss, SignalId(s.gnss, s.sig))]
Received == SelectSeq(Sigs, LAMBDA s : s.cno # 0)

\* A signal of the kind that an earlier sky left right behind the list: its line
\* has one satellite too many, whose number takes the place of the signal.
Blurred(s) ==
    /\ version = "4.11" /\ sky.numSigs < Len(sky.sigs)
    /\ LET left == sky.sigs[sky.numSigs + 1]
       IN  left.cno # 0 /\ left.sig = s.sig /\ Talker(left.gnss) = Talker(s.gnss)
Untold(s) == [s EXCEPT !.sig = ""]

\* What the host has heard of is in the device's sky, every satellite once,
\* with the place and the signals it has there, but for signals that share a
\* name or are blurred; and when no line is lost it is all of it.  Nothing that
\* an earlier sky left behind the lists is taken for a satellite or a signal,
\* although it may be printed.
SkyArrives ==
    /\ \A i \in DOMAIN sig : \E s \in ToSet(Received) :
          sig[i] = Told(s) \/ (Blurred(s) /\ Untold(sig[i]) = Untold(s))
    /\ ToSet(sat) \subseteq ToSet(Sats)
    /\ \A i, j \in DOMAIN sat : i # j => sat[i] # sat[j]
    /\ (lines = <<>> /\ ~lost) =>
          /\ Len(sig) = Min({Len(Received), MaxSignals})
          /\ Len(Received) <= MaxSignals =>
                {Told(s) : s \in {r \in ToSet(Received) : ~Blurred(r)}} \subseteq ToSet(sig)
          /\ \A v \in ToSet(Sats) :
                (\E s \in ToSet(Received) : s.gnss = v.gnss /\ s.sv = v.sv) /\ Len(sat) < MaxSatellites
                    => v \in ToSet(sat)

\* What the code does not do: a sentence ends with the signal of its satellites
\* ("Message fields: $xxGSV,numMsg,msgNum,numSats,{svid,elv,az,cno,}signalId"),
\* which is that of one that was received.  An entry past the list spoils it.
SignalsNamed == \A i \in DOMAIN sig : \E s \in ToSet(Received) : sig[i] = Told(s)

----------------------------------------------------------------------------
VARIABLES rmcNmea,      \* of every port: [bits, period]
          commands      \* the commands that came, each with its port

mvars == <<rmcNmea, commands>>

ComPorts == 0..3
Ids == 0..17                      \* 0 names no sentence

\* nmeaMsgIdToTalker, and getNmeaMsgId of a whole name that it knows.
Talkers ==
    <<"PIMU", "PPIMU", "PRIMU", "PINS1", "PINS2", "PGPSP", "GxGGA", "GxGLL", "GxGSA", "GxRMC",
      "GxZDA", "PASHR", "PSTRB", "INFO", "GxGSV", "GxVTG", "INTEL">>
Recognised == (1..17) \ {13}
MsgId(name) == CHOOSE id \in Recognised : Talkers[id] = name

\* Mutant: the port that the command comes to is always one of them.
PortsAndOwn(port, options) == {port} \cup {p \in ComPorts : (options \div 2^p) % 2 = 1}

\* The ports that a command to a port is for.
PortsOf(port, options) ==
    LET ports == options % 256
    IN  IF ports = 0 THEN {port} ELSE {p \in ComPorts : (ports \div 2^p) % 2 = 1}

\* Mutant: a bit is set before the period is cut to a byte.
EnableStreamWide(s, id, period) ==
    [bits |-> IF period = 0 THEN s.bits \ {id} ELSE s.bits \cup {id},
     period |-> [s.period EXCEPT ![id] = period % 256]]

\* nmea_enable_stream: the period is one byte.
EnableStream(s, id, period) ==
    [bits |-> IF period % 256 = 0 THEN s.bits \ {id} ELSE s.bits \cup {id},
     period |-> [s.period EXCEPT ![id] = period % 256]]

\* nmea_set_rmc_period_multiple
SetRmcPeriod(s, tmp) == FoldLeft(LAMBDA t, id : EnableStream(t, id, tmp[id]), s, [i \in 1..17 |-> i])

\* The fields of ASCB after its options, one each for these sentences: those
\* left out, and the sentences that have none, get no period.
AscbOrder == <<1, 2, 4, 5, 6, 3, 7, 8, 9, 10, 11, 12, 15, 16>>
AscbPeriods(fields) ==
    [id \in 1..17 |->
        IF \E i \in DOMAIN fields : AscbOrder[i] = id
        THEN fields[CHOOSE i \in DOMAIN fields : AscbOrder[i] = id] ELSE 0]

\* ASCE: twenty sentences at most, and of the last one the period may be missing.
Id(field) == IF "name" \in DOMAIN field THEN MsgId(field.name) ELSE field.number
Pairs(fields) == SelectSeq(SubSeq(fields, 1, Min({20, Len(fields)})), LAMBDA f : "period" \in DOMAIN f)

MInit ==
    /\ rmcNmea = [p \in ComPorts |-> [bits |-> {}, period |-> [id \in Ids |-> 0]]] /\ commands = <<>>

\* nmea_parse_ascb
Ascb(port, c) ==
    /\ c.type = "ASCB"
    /\ LET tmp == AscbPeriods(c.fields)
       IN  rmcNmea' = [p \in ComPorts |->
                          IF p \in PortsOf(port, c.options) THEN SetRmcPeriod(rmcNmea[p], tmp) ELSE rmcNmea[p]]

\* nmea_parse_asce
Asce(port, c) ==
    /\ c.type = "ASCE"
    /\ rmcNmea' = [p \in ComPorts |->
                      IF p \in PortsOf(port, c.options)
                      THEN FoldLeft(LAMBDA s, f : EnableStream(s, Id(f), f.period), rmcNmea[p], Pairs(c.fields))
                      ELSE rmcNmea[p]]

\* A command comes to a port; to one that is none of these it does nothing.
Command ==
    /\ Len(commands) < MaxCommands
    /\ \E c \in Commands :
          \/ \E port \in ComPorts : (Ascb(port, c) \/ Asce(port, c)) /\ commands' = Append(commands, [port |-> port, c |-> c])
          \/ rmcNmea' = rmcNmea /\ commands' = Append(commands, [port |-> 4, c |-> c])

MNext == Command

MSpec == MInit /\ [][MNext]_mvars

----------------------------------------------------------------------------
\* The commands that are for a port and name a sentence.
IsFor(e, p) == IF e.c.options % 256 = 0 THEN e.port = p ELSE e.port # 4 /\ (e.c.options \div 2^p) % 2 = 1
Names(e, id) ==
    IF e.c.type = "ASCB" THEN id # 0 ELSE \E i \in DOMAIN Pairs(e.c.fields) : Id(e.c.fields[i]) = id
Asked(c, id) ==
    IF c.type = "ASCB" THEN AscbPeriods(c.fields)[id]
    ELSE c.fields[SelectLastInSeq(Pairs(c.fields), LAMBDA f : Id(f) = id)].period

\* Every port sends exactly the sentences with a period, each with the period,
\* of one byte, that the last command of those for the port and the sentence
\* asked for, whatever other commands came to whatever ports.
StreamsAsAsked ==
    \A p \in ComPorts, id \in Ids :
        LET k == SelectLastInSeq(commands, LAMBDA e : IsFor(e, p) /\ Names(e, id))
        IN  /\ rmcNmea[p].period[id] = (IF k = 0 THEN 0 ELSE Asked(commands[k].c, id)) % 256
            /\ (id \in rmcNmea[p].bits) <=> (rmcNmea[p].period[id] # 0)
=============================================================================
