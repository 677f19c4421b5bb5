------------------------------- MODULE IsComm -------------------------------
(***************************************************************************)
(* The stream parser of ISComm.c: one buffer in which packets of four      *)
(* protocols are found by their start byte, each by rules of its own, and  *)
(* handed on where they lie.  Headers and trailers are shortened: one byte *)
(* of length, one of checksum, and a packet passes its checks exactly if   *)
(* it is one that was sent.  The binary packet, whole, is the second part. *)
(***************************************************************************)
EXTENDS Integers, Sequences, SequencesExt, FiniteSetsExt

CONSTANTS Size,      \* bytes of the receive buffer
          Chunks,    \* how many bytes a read may return
          Packets,   \* the packets that pass their checks
          Streams,   \* what the wire may carry: sequences of byte sequences
          Headers,   \* packet headers: sequences of id, counter and flags
          Bodies     \* packet bodies: sequences of bytes

PSC_START == 255
PSC_END == 254
NMEA_START == 36
NMEA_END == 10
UBLOX_START1 == 181
UBLOX_START2 == 98
RTCM3_START == 211
StartBytes == {PSC_START, NMEA_START, UBLOX_START1, RTCM3_START}
None == 0

VARIABLES stream,      \* the pieces the wire carries in this behaviour
          wire,        \* bytes not read yet
          buf,         \* the bytes between buf.start and buf.tail
          head,        \* offset of the packet being parsed
          scan,        \* offset of the next byte to parse
          hasStart,    \* its start byte, or None
          parseState,  \* -1: searching; counters of the binary protocols
          delivered,   \* the packets handed on
          idleAt       \* the pieces at whose first byte no packet was parsed

cvars == <<stream, wire, buf, head, scan, hasStart, parseState, delivered, idleAt>>

\* All the bytes the wire carries, where a piece of it ends, and how much of it
\* is parsed: only bytes that were parsed are taken out of the buffer.
Carried == FlattenSeq(stream)
EndOf(i) == Len(FlattenSeq(SubSeq(stream, 1, i)))
Parsed == Len(Carried) - Len(wire) - (Len(buf) - scan)

CInit ==
    /\ stream \in Streams /\ wire = Carried
    /\ buf = <<>> /\ head = 0 /\ scan = 0
    /\ hasStart = None /\ parseState = -1
    /\ delivered = <<>> /\ idleAt = {1}

----------------------------------------------------------------------------
\* is_comm_free: a full buffer is emptied if the current packet starts in its
\* first third, and shifted otherwise.
\* Mutant of Freed: the offset of the next byte is not shifted.
FreedUnscanned ==
    IF Len(buf) < Size THEN [buf |-> buf, head |-> head, scan |-> scan]
    ELSE IF head < Size \div 3 THEN [buf |-> <<>>, head |-> 0, scan |-> 0]
    ELSE [buf |-> SubSeq(buf, head + 1, Len(buf)), head |-> 0, scan |-> scan]

Freed ==
    IF Len(buf) < Size THEN [buf |-> buf, head |-> head, scan |-> scan]
    ELSE IF head < Size \div 3 THEN [buf |-> <<>>, head |-> 0, scan |-> 0]
    ELSE [buf |-> SubSeq(buf, head + 1, Len(buf)), head |-> 0, scan |-> scan - head]

\* comManagerStepRx reads what there is once all of it is parsed.  It passes
\* time 0 to the parser, whose timeout therefore never expires.
Read(n) ==
    LET f == Freed
    IN  /\ scan = Len(buf)
        /\ n <= Len(wire) /\ n <= Size - Len(f.buf)
        /\ buf' = f.buf \o SubSeq(wire, 1, n)
        /\ wire' = SubSeq(wire, n + 1, Len(wire))
        /\ head' = f.head /\ scan' = f.scan
        /\ UNCHANGED <<stream, hasStart, parseState, delivered, idleAt>>

----------------------------------------------------------------------------
\* is_comm_parse_timeout, one byte at a time.
Byte == buf[scan + 1]

\* reset_parser after a packet: delivered if it passes its checks.
Finish(from) ==
    LET packet == SubSeq(buf, from + 1, scan + 1)
    IN  /\ delivered' = IF packet \in Packets THEN Append(delivered, packet)
                        ELSE delivered
        /\ head' = scan + 1 /\ scan' = scan + 1 /\ hasStart' = None

\* reset_parser after an error in a header.
Abandon ==
    /\ head' = scan + 1 /\ scan' = scan + 1 /\ hasStart' = None
    /\ UNCHANGED delivered

Continue(h, s) ==
    /\ head' = h /\ hasStart' = s /\ scan' = scan + 1
    /\ UNCHANGED delivered

\* processInertialSensePkt and processAsciiPkt at the end byte; a byte that no
\* NMEA string may hold ends the search at that byte.
IsbByte(h) ==
    /\ IF Byte = PSC_END THEN Finish(h) ELSE Continue(h, PSC_START)
NmeaByte(h, state) ==
    IF Byte = NMEA_END THEN Finish(h) /\ parseState' = state
    ELSE IF Byte \in {PSC_START, PSC_END, 0}
         THEN Continue(h, None) /\ parseState' = -1
         ELSE Continue(h, NMEA_START) /\ parseState' = state

\* The binary protocols count: up through the header, then, from the length
\* byte, down over the body and the checksum.
CountedByte(h, start, state, lengthAt) ==
    IF state < 0
    THEN /\ parseState' = state + 1
         /\ IF state = -1 THEN Finish(h) ELSE Continue(h, start)
    ELSE IF state = lengthAt
    THEN IF Byte > Size - 6
         THEN Abandon /\ parseState' = state
         ELSE Continue(h, start) /\ parseState' = -(Byte + 1)
    ELSE IF start = UBLOX_START1 /\ state = 1 /\ Byte # UBLOX_START2
         THEN Abandon /\ parseState' = state
         ELSE Continue(h, start) /\ parseState' = state + 1

PacketByte(h, start, state) ==
    \/ start = PSC_START /\ IsbByte(h) /\ parseState' = state
    \/ start = NMEA_START /\ NmeaByte(h, state)
    \/ start = UBLOX_START1 /\ CountedByte(h, start, state, 2)
    \/ start = RTCM3_START /\ CountedByte(h, start, state, 1)

\* A byte outside of any packet: the first one after a packet is an error,
\* and the search goes on right behind the head.
StrayByte ==
    /\ scan' = IF parseState # -1 THEN head + 1 ELSE scan + 1
    /\ parseState' = -1
    /\ UNCHANGED <<head, hasStart, delivered>>

Parse ==
    /\ scan < Len(buf)
    /\ IF hasStart # None THEN PacketByte(head, hasStart, parseState)
       ELSE IF Byte \in StartBytes THEN PacketByte(scan, Byte, 0)
       ELSE StrayByte
    /\ UNCHANGED <<stream, wire, buf>>
    /\ idleAt' = idleAt \cup {i \in DOMAIN stream : hasStart' = None /\ EndOf(i - 1) = Parsed'}

CNext == Parse \/ \E n \in Chunks : Read(n)

\* The manager is stepped for as long as bytes arrive.
CSpec == CInit /\ [][CNext]_cvars /\ WF_cvars(CNext)

----------------------------------------------------------------------------
CTypeOK ==
    /\ Len(buf) <= Size /\ head <= scan /\ scan \in 0..Len(buf) /\ head \in Nat
    /\ hasStart \in StartBytes \cup {None} /\ parseState \in -(Size + 1)..3
    /\ \A i \in 1..Len(delivered) : delivered[i] \in Packets

Intact == SelectSeq(stream, LAMBDA piece : piece \in Packets)

\* The longest beginning of s that can be picked out of t is all of s.
IsSubsequence(s, t) ==
    Len(s) = FoldLeft(LAMBDA n, x : IF n < Len(s) /\ s[n + 1] = x THEN n + 1 ELSE n, 0, t)

\* What is handed on was sent, in this order and not twice, however the reads
\* split the stream and the buffer was shifted or emptied.
InOrder == IsSubsequence(delivered, Intact)

AtEnd == wire = <<>> /\ scan = Len(buf)

\* A packet at whose first byte no other was parsed is handed on, and leaves
\* the parser ready for what comes behind it.  It is true of packets that fit
\* into two thirds of the buffer, as longer ones may be thrown away.
Whole(i) == i \in idleAt /\ stream[i] \in Packets /\ EndOf(i) <= Parsed
KeepsStep ==
    LET indices == SelectSeq([i \in DOMAIN stream |-> i], Whole)
    IN  /\ IsSubsequence([k \in DOMAIN indices |-> stream[indices[k]]], delivered)
        /\ \A i \in DOMAIN stream : Whole(i) /\ i < Len(stream) => i + 1 \in idleAt

\* Whatever came before, ISB packets of as many bytes as the buffer has bring
\* the parser back into step: the first of them ends the packet that is parsed
\* if that is ISB or NMEA, and they use up the count of any other.  Packets of
\* the other protocols do not: behind the first byte of a broken ISB packet
\* they are lost until there is a PSC_END, however many they are.
IsIsb(i) == stream[i] \in Packets /\ stream[i][1] = PSC_START
Resynchronised ==
    \A i \in DOMAIN stream, j \in DOMAIN stream :
        /\ i < j /\ \A k \in i + 1..j - 1 : IsIsb(k)
        /\ EndOf(j - 1) - EndOf(i) >= Size /\ EndOf(j - 1) <= Parsed
        => j \in idleAt

\* Every byte is parsed in the end: setting the search back to the head never
\* makes the parser go round in circles, and the buffer never stays full.
Consumed == <>AtEnd
----------------------------------------------------------------------------
(***************************************************************************)
(* The binary packet: header, body and a 24 bit checksum between a start   *)
(* and an end byte, with every byte that means something to one of the     *)
(* stream's protocols escaped.  A behaviour encodes a packet and decodes   *)
(* it again.                                                               *)
(***************************************************************************)
ESCAPE == 253
Special == StartBytes \cup {NMEA_END, PSC_END, ESCAPE}
Corrupt == Special \ {ESCAPE}

VARIABLES header, body, encoded, decoded

pvars == <<header, body, encoded, decoded>>

\* encodeByteAddToBuffer
EncodeByte(b) == IF b \in Special THEN <<ESCAPE, 255 - b>> ELSE <<b>>

Bit(b, k) == (b \div 2^k) % 2
Xor(a, b) == MapThenSumSet(LAMBDA k : IF Bit(a, k) = Bit(b, k) THEN 0 ELSE 2^k, 0..7)

\* One checksum byte per lane: the seed, a header byte and every third byte
\* of the body; the last lane is sent first.
Lane(h, b, k) ==
    FoldSeq(LAMBDA i, acc : Xor(acc, b[i]), Xor(170, h[k]),
            SelectSeq([i \in 1..Len(b) |-> i], LAMBDA i : i % 3 = k % 3))
Checksum(h, b) == <<Lane(h, b, 3), Lane(h, b, 2), Lane(h, b, 1)>>

\* Mutant of Encode: the checksum is not escaped.
EncodeChecksumPlain(h, b) ==
    <<PSC_START>> \o FlattenSeq([i \in 1..(Len(h) + Len(b)) |-> EncodeByte((h \o b)[i])])
    \o Checksum(h, b) \o <<PSC_END>>

\* is_encode_binary_packet
Encode(h, b) ==
    <<PSC_START>> \o FlattenSeq([i \in 1..(Len(h) + Len(b) + 3) |->
                                EncodeByte((h \o b \o Checksum(h, b))[i])])
    \o <<PSC_END>>

\* is_decode_binary_packet_footer: reads a checksum byte backwards from p.
Backwards(s, p) ==
    IF s[p - 1] = ESCAPE THEN [val |-> 255 - s[p], next |-> p - 2]
    ELSE [val |-> s[p], next |-> p - 1]

\* is_decode_binary_packet_byte, from p up to the byte at last: the bytes
\* read, or <<-1>> for a byte that cannot be inside a packet.
Forwards(s, first, last) ==
    LET f[p \in first..(last + 2)] ==
            IF p > last THEN <<>>
            ELSE IF s[p] \in Corrupt THEN <<-1>>
            ELSE IF s[p] = ESCAPE THEN <<255 - s[p + 1]>> \o f[p + 2]
            ELSE <<s[p]>> \o f[p + 1]
    IN  f[first]

Failure == [ok |-> FALSE, header |-> <<>>, body |-> <<>>]

\* is_decode_binary_packet
Decode(s) ==
    LET c1 == Backwards(s, Len(s) - 1)
        c2 == Backwards(s, c1.next)
        c3 == Backwards(s, c2.next)
        bytes == Forwards(s, 2, c3.next)
        h == SubSeq(bytes, 1, 3)
        b == SubSeq(bytes, 4, Len(bytes))
    IN  IF Len(s) < 8 \/ Len(bytes) < 3 \/ Contains(bytes, -1) THEN Failure
        ELSE IF Checksum(h, b) # <<c3.val, c2.val, c1.val>> THEN Failure
        ELSE [ok |-> TRUE, header |-> h, body |-> b]

PInit ==
    /\ header \in Headers /\ body \in Bodies
    /\ encoded = <<>> /\ decoded = Failure

SendPacket ==
    /\ encoded = <<>> /\ encoded' = Encode(header, body)
    /\ UNCHANGED <<header, body, decoded>>

ReceivePacket ==
    /\ encoded # <<>> /\ ~decoded.ok /\ decoded' = Decode(encoded)
    /\ UNCHANGED <<header, body, encoded>>

PNext == SendPacket \/ ReceivePacket

PSpec == PInit /\ [][PNext]_pvars /\ WF_pvars(PNext)

\* What arrives is what was sent, although every field, the checksum too, may
\* hold bytes that must be escaped, and on the wire no byte inside a packet
\* starts or ends a message of any of the protocols.
PacketArrives == <>(decoded = [ok |-> TRUE, header |-> header, body |-> body])
Transparent ==
    \A i \in 2..(Len(encoded) - 1) : encoded[i] \notin Corrupt
======================================================================================================================================
