--------------------------- MODULE FirmwareProofs ---------------------------
(***************************************************************************)
(* What reaches the memory of a device, proved: a file written without an  *)
(* error through either bootloader is in it (HexProgram, DfuProgram), a    *)
(* device stays one that starts over any number of updates (DeviceImages), *)
(* and no update leaves one erased that could be written (FirmwareUpdate). *)
(***************************************************************************)
EXTENDS MCFirmware, WellFoundedInduction, TLAPS

----------------------------------------------------------------------------
(* HexProgram, for any number and size of pages, any buffers and lines.    *)

\* Where the current page begins in memory, and the next byte that is sent.
HexPageStart == page * HexPageSize
HexPut == HexPageStart + hexOffset

\* What the file has for an address: its data, or nothing.
HexDue(a) == IF a \in image THEN a ELSE Hex!FF

HexTypes ==
    /\ page \in 0..LastPage /\ hexOffset \in 0..HexPageSize /\ last \in 0..HexPageSize
    /\ output \in Seq(Int) /\ Len(output) <= Hex!Room
    /\ result \in {"none", "erased", "programming", "ok", "error", "undefined"}
    /\ ended \in BOOLEAN /\ flash \in [Hex!Addresses -> Int] /\ image \subseteq Hex!Addresses

\* Before the first line the page is begun where the application begins.
HexBeginning ==
    /\ ~ended /\ page = 0 /\ hexOffset = AppOffset /\ last = AppOffset
    /\ output = <<>> /\ image = {}

\* While lines are read, memory is right below the next byte sent and erased
\* from there on, the buffer has what comes between it and the next byte of
\* the file, and the file had no data beyond that.
HexGathered ==
    /\ hexOffset + Len(output) = last
    /\ \A a \in Hex!Addresses : flash[a] = IF a < HexPut THEN HexDue(a) ELSE Hex!FF
    /\ \A i \in 1..Len(output) : output[i] = HexDue(HexPut + i - 1)
    /\ \A a \in image : a < HexPageStart + last
    /\ HexPageStart + last - 1 \in image \/ last = IF page = 0 THEN AppOffset ELSE 0

HexInv ==
    /\ HexTypes
    /\ result \in {"none", "erased"} => HexBeginning
    /\ result = "erased" => \A a \in Hex!Addresses : flash[a] = Hex!FF
    /\ result = "programming" /\ ~ended => HexGathered
    /\ result \in {"programming", "ok"} /\ ended => \A a \in Hex!Addresses : flash[a] = HexDue(a)

LEMMA HexParameters ==
    ASSUME Hex!HexAssumption
    PROVE  /\ LastPage \in Nat /\ HexPageSize \in Nat \ {0} /\ AppOffset \in 0..HexPageSize
           /\ MaxSend \in Nat /\ HexBuffer \in Nat /\ Hex!Room \in Nat
BY DEF Hex!HexAssumption, Hex!Room

\* A product grows with its first factor.
LEMMA HexPagesApart ==
    ASSUME NEW p \in Nat, NEW q \in Nat, NEW size \in Nat, p < q
    PROVE  p * size \in Nat /\ q * size \in Nat /\ p * size + size <= q * size
<1>1. (p + 1) * size <= q * size
  <2>1. PICK d \in Nat : q = p + 1 + d
    <3>1. q - (p + 1) \in Nat /\ q = p + 1 + (q - (p + 1))
      OBVIOUS
    <3> QED BY <3>1
  <2>2. (p + 1 + d) * size = (p + 1) * size + d * size
    OBVIOUS
  <2>3. d * size \in Nat
    OBVIOUS
  <2> QED BY <2>1, <2>2, <2>3
<1>2. (p + 1) * size = p * size + size
  OBVIOUS
<1> QED BY <1>1, <1>2

\* The page is within memory.
LEMMA HexPageWithin ==
    ASSUME Hex!HexAssumption, HexTypes
    PROVE  /\ HexPageStart \in Nat /\ page \in Nat
           /\ \A i \in 0..(HexPageSize - 1) : HexPageStart + i \in Hex!Addresses
<1>1. page \in Nat /\ LastPage + 1 \in Nat /\ page < LastPage + 1 /\ HexPageSize \in Nat
  BY HexParameters DEF HexTypes
<1>2. /\ page * HexPageSize \in Nat /\ (LastPage + 1) * HexPageSize \in Nat
      /\ page * HexPageSize + HexPageSize <= (LastPage + 1) * HexPageSize
  BY <1>1, HexPagesApart
<1> QED BY <1>1, <1>2 DEF HexPageStart, Hex!Addresses

\* What upload_hex leaves in memory.
LEMMA HexSent ==
    ASSUME Hex!HexAssumption, HexTypes, NEW bytes \in Seq(Int)
    PROVE  /\ Hex!Written(bytes) \in [Hex!Addresses -> Int]
           /\ \A a \in Hex!Addresses :
                Hex!Written(bytes)[a] = IF HexPut <= a /\ a < HexPut + Len(bytes)
                                        THEN bytes[a - HexPut + 1] ELSE flash[a]
<1>1. HexPageStart \in Nat /\ hexOffset \in Nat
  BY HexPageWithin, HexParameters DEF HexTypes
<1>2. HexPut \in Nat /\ Len(bytes) \in Nat
  BY <1>1 DEF HexPut
<1>3. ASSUME NEW a \in Hex!Addresses
      PROVE  /\ a - page * HexPageSize - hexOffset + 1 = a - HexPut + 1
             /\ (a - HexPut + 1 \in 1..Len(bytes)) <=> (HexPut <= a /\ a < HexPut + Len(bytes))
  <2>1. a \in Int
    BY HexParameters DEF Hex!Addresses
  <2> QED BY <2>1, <1>1, <1>2 DEF HexPut, HexPageStart
<1>4. ASSUME NEW a \in Hex!Addresses
      PROVE  Hex!Written(bytes)[a] = IF HexPut <= a /\ a < HexPut + Len(bytes)
                                        THEN bytes[a - HexPut + 1] ELSE flash[a]
  BY <1>3 DEF Hex!Written
<1>5. \A i \in 1..Len(bytes) : bytes[i] \in Int
  OBVIOUS
<1>6. Hex!Written(bytes) \in [Hex!Addresses -> Int]
  BY <1>3, <1>5 DEF Hex!Written, HexTypes
<1> QED BY <1>4, <1>6

\* Filling: any number of bytes that are not there.
LEMMA HexFill ==
    ASSUME NEW n \in Nat
    PROVE  /\ Hex!Fill(n) \in Seq(Int) /\ Len(Hex!Fill(n)) = n
           /\ \A i \in 1..n : Hex!Fill(n)[i] = Hex!FF
BY DEF Hex!Fill, Hex!FF

LEMMA HexInits == ASSUME Hex!HexAssumption, Hex!HInit PROVE HexInv
<1>1. page = 0 /\ hexOffset = AppOffset /\ last = AppOffset /\ output = <<>>
      /\ result = "none" /\ ended = FALSE /\ image = {}
      /\ flash = [a \in Hex!Addresses |-> a + 1]
  BY DEF Hex!HInit
<1>2. flash \in [Hex!Addresses -> Int]
  <2>1. Hex!Addresses \subseteq Int
    BY HexParameters DEF Hex!Addresses
  <2> QED BY <1>1, <2>1
<1>3. HexTypes
  <2>1. 0 \in 0..LastPage /\ AppOffset \in 0..HexPageSize /\ Len(<<>>) <= Hex!Room
    BY HexParameters
  <2>2. output \in Seq(Int) /\ image \subseteq Hex!Addresses
    BY <1>1
  <2> QED BY <1>1, <1>2, <2>1, <2>2 DEF HexTypes
<1> QED BY <1>1, <1>3 DEF HexInv, HexBeginning

\* The buffer is sent and the page filled up: memory is right throughout.
LEMMA HexFlushed ==
    ASSUME Hex!HexAssumption, HexTypes, HexGathered, flash' = Hex!Flushed
    PROVE  /\ flash' \in [Hex!Addresses -> Int]
           /\ \A a \in Hex!Addresses : flash'[a] = HexDue(a)
<1> DEFINE rest == HexPageSize - hexOffset - Len(output)
           bytes == output \o Hex!Fill(rest)
<1>1. /\ HexPageStart \in Nat /\ hexOffset \in Nat /\ HexPut \in Nat /\ last \in 0..HexPageSize
      /\ Len(output) \in Nat /\ output \in Seq(Int) /\ hexOffset + Len(output) = last
  <2>1. HexPageStart \in Nat /\ HexPageSize \in Nat
    BY HexPageWithin, HexParameters
  <2>2. output \in Seq(Int) /\ last \in 0..HexPageSize /\ hexOffset \in 0..HexPageSize
    BY DEF HexTypes
  <2>3. hexOffset + Len(output) = last
    BY DEF HexGathered
  <2> QED BY <2>1, <2>2, <2>3 DEF HexPut
<1>2. rest \in Nat /\ HexPageSize \in Nat
  BY <1>1, HexParameters
<1>3. Hex!Fill(rest) \in Seq(Int) /\ Len(Hex!Fill(rest)) = rest
      /\ \A i \in 1..rest : Hex!Fill(rest)[i] = Hex!FF
  BY <1>2, HexFill
<1>4. bytes \in Seq(Int) /\ Len(bytes) = Len(output) + rest
      /\ \A i \in 1..Len(bytes) : bytes[i] = IF i <= Len(output) THEN output[i] ELSE Hex!FF
  <2> HIDE DEF rest
  <2> QED BY <1>1, <1>2, <1>3
<1>5. flash' = Hex!Written(bytes)
  BY DEF Hex!Flushed
<1> HIDE DEF bytes
<1>6. /\ flash' \in [Hex!Addresses -> Int]
      /\ \A a \in Hex!Addresses :
            flash'[a] = IF HexPut <= a /\ a < HexPut + Len(bytes)
                        THEN bytes[a - HexPut + 1] ELSE flash[a]
  BY <1>4, <1>5, HexSent
<1>7. ASSUME NEW a \in Hex!Addresses PROVE flash'[a] = HexDue(a)
  <2>1. a \in Int
    BY HexParameters DEF Hex!Addresses
  <2>2. flash[a] = IF a < HexPut THEN HexDue(a) ELSE Hex!FF
    BY DEF HexGathered
  <2>3. a \in image => a < HexPut + Len(output)
    BY <1>1 DEF HexGathered, HexPut
  <2>4. CASE a < HexPut
    BY <2>1, <2>2, <2>4, <1>1, <1>6
  <2>5. CASE HexPut <= a /\ a < HexPut + Len(output)
    <3>1. a - HexPut + 1 \in 1..Len(output) /\ HexPut + (a - HexPut + 1) - 1 = a
      BY <2>1, <2>5, <1>1
    <3>2. output[a - HexPut + 1] = HexDue(a)
      BY <3>1 DEF HexGathered
    <3>3. flash'[a] = bytes[a - HexPut + 1] /\ a - HexPut + 1 \in 1..Len(bytes)
      BY <2>1, <2>5, <1>1, <1>2, <1>4, <1>6, <3>1
    <3> QED BY <3>1, <3>2, <3>3, <1>4
  <2>6. CASE a >= HexPut + Len(output)
    <3>1. HexDue(a) = Hex!FF
      BY <2>1, <2>3, <2>6, <1>1 DEF HexDue
    <3>2. CASE a < HexPut + Len(bytes)
      <4>1. a - HexPut + 1 \in 1..Len(bytes) /\ ~(a - HexPut + 1 <= Len(output))
        BY <2>1, <2>6, <3>2, <1>1, <1>2, <1>4
      <4>2. flash'[a] = bytes[a - HexPut + 1]
        BY <1>1, <1>6, <2>1, <2>6, <3>2
      <4> QED BY <4>1, <4>2, <1>4, <3>1
    <3>3. CASE ~(a < HexPut + Len(bytes))
      <4>1. flash'[a] = flash[a] /\ ~(a < HexPut)
        BY <2>1, <2>6, <3>3, <1>1, <1>6
      <4> QED BY <4>1, <2>2, <3>1
    <3> QED BY <3>2, <3>3
  <2> QED BY <2>1, <2>4, <2>5, <2>6, <1>1
<1> QED BY <1>6, <1>7

\* A step that fails or ends the program leaves everything else.
LEMMA HexStops ==
    ASSUME HexInv, ended' = ended,
           UNCHANGED <<page, hexOffset, last, output, flash, image>>,
           \/ result' \in {"error", "undefined"}
           \/ result = "programming" /\ result' = "ok"
    PROVE  HexInv'
BY DEF HexInv, HexTypes, HexBeginning, HexGathered, HexPut, HexPageStart, HexDue

LEMMA HexErases ==
    ASSUME Hex!HexAssumption, HexInv, NEW answers \in BOOLEAN, Hex!Erase(answers)
    PROVE  HexInv'
<1>1. /\ result = "none" /\ result' \in {"erased", "error"}
      /\ flash' = [a \in Hex!Addresses |-> Hex!FF]
      /\ UNCHANGED <<page, hexOffset, last, output, ended, image>>
  BY DEF Hex!Erase
<1>2. Hex!FF \in Int
  BY DEF Hex!FF
<1>3. HexTypes'
  BY <1>1, <1>2 DEF HexInv, HexTypes
<1>4. HexBeginning'
  BY <1>1 DEF HexInv, HexBeginning
<1> QED BY <1>1, <1>3, <1>4 DEF HexInv

LEMMA HexBegins ==
    ASSUME Hex!HexAssumption, HexInv, NEW answers \in BOOLEAN, Hex!Begin(answers)
    PROVE  HexInv'
<1>1. /\ result = "erased" /\ result' \in {"programming", "error"}
      /\ UNCHANGED <<page, hexOffset, last, output, ended, flash, image>>
  BY DEF Hex!Begin
<1>2. HexTypes' /\ HexBeginning
  BY <1>1 DEF HexInv, HexTypes
<1>3. HexGathered
  <2>1. page = 0 /\ hexOffset = AppOffset /\ last = AppOffset /\ output = <<>> /\ image = {}
    BY <1>2 DEF HexBeginning
  <2>2. hexOffset + Len(output) = last
    BY <2>1, HexParameters
  <2>3. \A a \in Hex!Addresses : flash[a] = Hex!FF /\ HexDue(a) = Hex!FF
    BY <1>1, <2>1 DEF HexInv, HexDue
  <2> QED BY <2>1, <2>2, <2>3 DEF HexGathered
<1>4. HexGathered'
  BY <1>1, <1>3 DEF HexGathered, HexPut, HexPageStart, HexDue
<1>5. ~ended'
  BY <1>1, <1>2 DEF HexBeginning
<1> QED BY <1>1, <1>2, <1>4, <1>5 DEF HexInv

LEMMA HexPageLineKeeps ==
    ASSUME Hex!HexAssumption, HexInv, NEW answers \in BOOLEAN, NEW p \in 1..LastPage,
           Hex!PageLine(p, answers)
    PROVE  HexInv'
<1>1. CASE Hex!Fails
  BY <1>1, HexStops DEF Hex!Fails, Hex!PageLine
<1>2. CASE ~Hex!Fails
  <2>1. /\ result = "programming" /\ ~ended /\ p > page
        /\ flash' = Hex!Flushed /\ page' = p /\ hexOffset' = 0 /\ output' = <<>> /\ last' = 0
        /\ UNCHANGED <<result, ended, image>>
    BY <1>2 DEF Hex!PageLine
  <2>2. HexTypes /\ HexGathered
    BY <2>1 DEF HexInv
  <2>3. flash' \in [Hex!Addresses -> Int] /\ \A a \in Hex!Addresses : flash'[a] = HexDue(a)
    BY <2>1, <2>2, HexFlushed
  <2>4. HexTypes'
    <3>1. p \in 0..LastPage /\ 0 \in 0..HexPageSize /\ <<>> \in Seq(Int) /\ Len(<<>>) <= Hex!Room
      BY HexParameters
    <3> QED BY <2>1, <2>2, <2>3, <3>1 DEF HexTypes
  <2>5. /\ HexPageStart \in Nat /\ HexPageStart' \in Nat /\ HexPageStart + HexPageSize <= HexPageStart'
    <3>1. page \in Nat /\ p \in Nat /\ HexPageSize \in Nat /\ page < p
      BY <2>1, <2>2, HexParameters DEF HexTypes
    <3> QED BY <2>1, <3>1, HexPagesApart DEF HexPageStart
  <2>6. last \in 0..HexPageSize /\ HexPageSize \in Nat /\ Hex!Addresses \subseteq Int
    BY <2>2, HexParameters DEF HexTypes, Hex!Addresses
  <2>7. \A a \in image : a < HexPageStart + last /\ a \in Int
    BY <2>2, <2>6 DEF HexGathered, HexTypes
  <2>8. \A a \in image : a < HexPageStart'
    BY <2>5, <2>6, <2>7
  <2>9. HexPut' = HexPageStart'
    <3>1. HexPut' = (p * HexPageSize) + 0 /\ HexPageStart' = p * HexPageSize
      BY <2>1 DEF HexPut, HexPageStart
    <3>2. p * HexPageSize \in Nat
      BY <2>5, <3>1
    <3> QED BY <3>1, <3>2
  <2>10. HexGathered'
    <3>1. hexOffset' + Len(output') = last' /\ \A i \in 1..Len(output') : FALSE
      BY <2>1
    <3>2. \A a \in Hex!Addresses : HexDue(a)' = HexDue(a)
      BY <2>1 DEF HexDue
    <3>3. \A a \in Hex!Addresses : ~(a < HexPut') => HexDue(a) = Hex!FF
      BY <2>8, <2>9 DEF HexDue
    <3>4. \A a \in image' : a < HexPageStart' + last'
      BY <2>1, <2>5, <2>8
    <3>5. last' = IF page' = 0 THEN AppOffset ELSE 0
      BY <2>1
    <3> QED BY <2>3, <3>1, <3>2, <3>3, <3>4, <3>5 DEF HexGathered
  <2> QED BY <2>1, <2>4, <2>10 DEF HexInv
<1> QED BY <1>1, <1>2

LEMMA HexEndLineKeeps ==
    ASSUME Hex!HexAssumption, HexInv, NEW answers \in BOOLEAN, Hex!EndLine(answers)
    PROVE  HexInv'
<1>1. CASE Hex!Fails
  BY <1>1, HexStops DEF Hex!Fails, Hex!EndLine
<1>2. CASE ~Hex!Fails
  <2>1. /\ result = "programming" /\ ~ended /\ ended' = TRUE /\ output' = <<>>
        /\ flash' = (IF hexOffset + Len(output) = 0 THEN flash ELSE Hex!Flushed)
        /\ hexOffset' = (IF hexOffset + Len(output) = 0 THEN 0 ELSE HexPageSize)
        /\ UNCHANGED <<page, last, result, image>>
    BY <1>2 DEF Hex!EndLine
  <2>2. HexTypes /\ HexGathered
    BY <2>1 DEF HexInv
  <2>3. flash' \in [Hex!Addresses -> Int] /\ \A a \in Hex!Addresses : flash'[a] = HexDue(a)
    <3>1. CASE hexOffset + Len(output) = 0
      <4>1. last = 0 /\ hexOffset = 0 /\ HexPageStart \in Nat /\ Hex!Addresses \subseteq Int
        BY <2>2, <3>1, HexParameters, HexPageWithin DEF HexTypes, HexGathered, Hex!Addresses
      <4>2. \A a \in image : a < HexPut
        BY <2>2, <4>1 DEF HexGathered, HexPut
      <4>3. \A a \in Hex!Addresses : flash[a] = HexDue(a)
        BY <2>2, <4>2 DEF HexGathered, HexDue
      <4> QED BY <2>1, <2>2, <3>1, <4>3 DEF HexTypes
    <3>2. CASE hexOffset + Len(output) # 0
      BY <2>1, <2>2, <3>2, HexFlushed
    <3> QED BY <3>1, <3>2
  <2>4. HexTypes'
    <3>1. {0, HexPageSize} \subseteq 0..HexPageSize /\ <<>> \in Seq(Int) /\ Len(<<>>) <= Hex!Room
      BY HexParameters
    <3> QED BY <2>1, <2>2, <2>3, <3>1 DEF HexTypes
  <2>5. \A a \in Hex!Addresses : flash'[a] = HexDue(a)'
    BY <2>1, <2>3 DEF HexDue
  <2> QED BY <2>1, <2>4, <2>5 DEF HexInv
<1> QED BY <1>1, <1>2

\* What is left of a sequence after its first elements.
LEMMA HexRest ==
    ASSUME NEW s \in Seq(Int), NEW n \in Nat, n <= Len(s)
    PROVE  /\ SubSeq(s, n + 1, Len(s)) \in Seq(Int)
           /\ Len(SubSeq(s, n + 1, Len(s))) = Len(s) - n
           /\ \A i \in 1..(Len(s) - n) : SubSeq(s, n + 1, Len(s))[i] = s[n + i]
<1>1. Len(s) \in Nat
  OBVIOUS
<1>2. /\ Len(SubSeq(s, n + 1, Len(s))) = Len(s) - n
      /\ \A i \in 1..(Len(s) - n) : SubSeq(s, n + 1, Len(s))[i] = s[n + 1 + i - 1]
  <2>1. CASE n = Len(s)
    BY <1>1, <2>1
  <2>2. CASE n < Len(s)
    BY <1>1, <2>2
  <2> QED BY <1>1, <2>1, <2>2
<1>3. \A i \in 1..(Len(s) - n) : n + 1 + i - 1 = n + i /\ n + i \in 1..Len(s)
  BY <1>1
<1>4. SubSeq(s, n + 1, Len(s)) \in Seq(Int)
  BY <1>1
<1> QED BY <1>2, <1>3, <1>4

\* Two sequences, one after the other.
LEMMA Concat ==
    ASSUME NEW S, NEW s \in Seq(S), NEW t \in Seq(S)
    PROVE  /\ s \o t \in Seq(S) /\ Len(s \o t) = Len(s) + Len(t)
           /\ \A i \in 1..Len(s \o t) :
                 (s \o t)[i] = IF i <= Len(s) THEN s[i] ELSE t[i - Len(s)]
OBVIOUS

\* A line is put in the buffer, after what it skips, and the first MaxSend
\* bytes of the buffer are sent when it has as many.
LEMMA HexDataLineKeeps ==
    ASSUME Hex!HexAssumption, HexInv, NEW answers \in BOOLEAN,
           NEW at \in 0..(HexPageSize - 1), NEW n \in 1..LineSize,
           page = 0 => at >= AppOffset, at + n <= HexPageSize,
           \A a \in image : a < page * HexPageSize + at,
           Hex!DataLine(at, n, answers)
    PROVE  HexInv'
<1> DEFINE gap    == Hex!Skipped(at)
           data   == Hex!Data(at, n)
           filled == output \o Hex!Fill(gap) \o data
           Overrun == result' = "undefined"
                      /\ UNCHANGED <<page, hexOffset, last, output, ended, flash, image>>
           lines  == {HexPageStart + at + i : i \in 0..(n - 1)}
           Due(a) == IF a \in image \cup lines THEN a ELSE Hex!FF
<1>1. CASE Hex!Fails
  BY <1>1, HexStops DEF Hex!Fails, Hex!DataLine
<1>2. CASE Overrun
  BY <1>2, HexStops
<1>3. CASE ~Hex!Fails /\ ~Overrun
  <2>1. /\ result = "programming" /\ ~ended /\ ~(Len(filled) >= Hex!Room)
        /\ UNCHANGED <<page, result, ended>> /\ last' = at + n /\ image' = image \cup lines
        /\ \/ Len(filled) < MaxSend /\ output' = filled /\ UNCHANGED <<hexOffset, flash>>
           \/ /\ ~(Len(filled) < MaxSend) /\ ~(Len(filled) - MaxSend > HexBuffer)
              /\ flash' = Hex!Written(SubSeq(filled, 1, MaxSend))
              /\ hexOffset' = hexOffset + MaxSend
              /\ output' = SubSeq(filled, MaxSend + 1, Len(filled))
    <3>1. /\ result = "programming" /\ ~ended
          /\ IF 2 * Len(output) + gap >= 2 * Hex!Room THEN Hex!Fails
             ELSE IF Len(output) + gap > Hex!Room THEN Overrun
             ELSE IF Len(filled) >= Hex!Room THEN Hex!Fails
             ELSE IF Len(filled) < MaxSend
             THEN /\ output' = filled /\ last' = at + n
                  /\ image' = image \cup lines
                  /\ UNCHANGED <<page, hexOffset, result, ended, flash>>
             ELSE IF ~answers \/ Len(filled) - MaxSend > HexBuffer THEN Hex!Fails
             ELSE /\ flash' = Hex!Written(SubSeq(filled, 1, MaxSend))
                  /\ hexOffset' = hexOffset + MaxSend /\ last' = at + n
                  /\ output' = SubSeq(filled, MaxSend + 1, Len(filled))
                  /\ image' = image \cup lines
                  /\ UNCHANGED <<page, result, ended>>
      BY DEF Hex!DataLine, HexPageStart
    <3> HIDE DEF gap, filled, lines
    <3>2. ~(Len(filled) >= Hex!Room)
      BY <3>1, <1>3
    <3> QED BY <1>3, <3>1, <3>2
  <2>2. HexTypes /\ HexGathered
    BY <2>1 DEF HexInv
  <2>3. /\ HexPageSize \in Nat /\ AppOffset \in Nat /\ MaxSend \in Nat /\ HexBuffer \in Nat
        /\ Hex!Room \in Nat /\ LineSize \in Nat /\ at \in Nat /\ n \in Nat \ {0}
        /\ HexPageStart \in Nat /\ hexOffset \in Nat /\ last \in Nat /\ Len(output) \in Nat
        /\ output \in Seq(Int) /\ page \in Nat /\ HexPut \in Nat
        /\ image \subseteq Int /\ Hex!Addresses \subseteq Int
    <3>1. HexPageStart \in Nat /\ page \in Nat /\ hexOffset \in Nat /\ last \in Nat /\ output \in Seq(Int)
      BY <2>2, HexPageWithin, HexParameters DEF HexTypes
    <3>2. LineSize \in Nat
      BY DEF Hex!HexAssumption
    <3>3. n \in Nat \ {0} /\ at \in Nat
      BY <3>2, HexParameters
    <3>4. Hex!Addresses \subseteq Int
      BY HexParameters DEF Hex!Addresses
    <3>5. HexPut \in Nat
      BY <3>1 DEF HexPut
    <3>6. image \subseteq Int
      BY <2>2, <3>4 DEF HexTypes
    <3> QED BY <3>1, <3>2, <3>3, <3>4, <3>5, <3>6, HexParameters
  <2>4. last <= at
    <3>1. CASE HexPageStart + last - 1 \in image
      <4>1. HexPageStart + last - 1 < HexPageStart + at
        BY <3>1 DEF HexPageStart
      <4> QED BY <2>3, <4>1
    <3>2. CASE last = IF page = 0 THEN AppOffset ELSE 0
      BY <2>3, <3>2
    <3> QED BY <2>2, <3>1, <3>2 DEF HexGathered
  <2>5. gap = at - last /\ gap \in Nat
    BY <2>3, <2>4 DEF Hex!Skipped
  <2>6. /\ Hex!Fill(gap) \in Seq(Int) /\ Len(Hex!Fill(gap)) = gap
        /\ \A i \in 1..gap : Hex!Fill(gap)[i] = Hex!FF
    BY <2>5, HexFill
  <2>7. /\ data \in Seq(Int) /\ Len(data) = n
        /\ \A i \in 1..n : data[i] = HexPageStart + at + i - 1
    <3>1. data = [i \in 1..n |-> HexPageStart + at + i - 1]
      BY DEF Hex!Data, HexPageStart
    <3> HIDE DEF data
    <3> QED BY <2>3, <3>1
  <2> HIDE DEF gap, data
  <2>8. /\ filled \in Seq(Int) /\ Len(filled) = Len(output) + gap + n
        /\ \A i \in 1..Len(filled) :
              filled[i] = IF i <= Len(output) THEN output[i]
                          ELSE IF i <= Len(output) + gap THEN Hex!FF
                          ELSE data[i - Len(output) - gap]
    <3> DEFINE pre == output \o Hex!Fill(gap)
    <3>1. /\ pre \in Seq(Int) /\ Len(pre) = Len(output) + gap
          /\ \A i \in 1..Len(pre) : pre[i] = IF i <= Len(output) THEN output[i] ELSE Hex!FF
      <4>1. /\ pre \in Seq(Int) /\ Len(pre) = Len(output) + gap
            /\ \A i \in 1..Len(pre) :
                  pre[i] = IF i <= Len(output) THEN output[i] ELSE Hex!Fill(gap)[i - Len(output)]
        BY <2>3, <2>6, Concat
      <4> HIDE DEF pre
      <4>2. ASSUME NEW i \in 1..Len(pre), ~(i <= Len(output))
            PROVE  i - Len(output) \in 1..gap
        <5>1. PICK k \in Nat : k = Len(output)
          BY <2>3
        <5>2. i \in Int /\ i <= k + gap /\ gap \in Nat /\ ~(i <= k)
          BY <2>5, <4>1, <4>2, <5>1
        <5> QED BY <5>1, <5>2
      <4> QED BY <2>6, <4>1, <4>2
    <3> HIDE DEF pre
    <3>2. filled = pre \o data
      BY <2>3, <2>6, <2>7 DEF pre
    <3> HIDE DEF filled
    <3>3. /\ filled \in Seq(Int) /\ Len(filled) = Len(pre) + n
          /\ \A i \in 1..Len(filled) :
                filled[i] = IF i <= Len(pre) THEN pre[i] ELSE data[i - Len(pre)]
      BY <2>7, <3>1, <3>2, Concat
    <3>4. ASSUME NEW i \in 1..Len(filled)
          PROVE  filled[i] = IF i <= Len(output) THEN output[i]
                             ELSE IF i <= Len(output) + gap THEN Hex!FF
                             ELSE data[i - Len(output) - gap]
      <4>1. i \in Nat \ {0} /\ i - Len(pre) = i - Len(output) - gap
        BY <2>3, <2>5, <3>1, <3>3
      <4>2. CASE i <= Len(pre)
        <5>1. i \in 1..Len(pre)
          BY <2>3, <2>5, <3>1, <4>1, <4>2
        <5>2. filled[i] = IF i <= Len(output) THEN output[i] ELSE Hex!FF
          BY <3>1, <3>3, <4>2, <5>1
        <5> QED BY <3>1, <4>2, <5>2
      <4>3. CASE ~(i <= Len(pre))
        <5>1. filled[i] = data[i - Len(output) - gap]
          BY <3>3, <4>1, <4>3
        <5>2. ~(i <= Len(output)) /\ ~(i <= Len(output) + gap)
          BY <2>3, <2>5, <3>1, <4>1, <4>3
        <5> QED BY <5>1, <5>2
      <4> QED BY <4>2, <4>3
    <3> QED BY <2>3, <2>5, <3>1, <3>3, <3>4
  <2> HIDE DEF filled
  <2>9. hexOffset + Len(output) = last /\ hexOffset + Len(filled) = at + n
    <3>1. hexOffset + Len(output) = last
      BY <2>2 DEF HexGathered
    <3>2. Len(filled) = Len(output) + (at - last) + n
      BY <2>5, <2>8
    <3> QED BY <2>3, <3>1, <3>2
  <2>10. \A i \in 1..Len(filled) : filled[i] = Due(HexPut + i - 1)
    <3> SUFFICES ASSUME NEW i \in 1..Len(filled) PROVE filled[i] = Due(HexPut + i - 1)
      OBVIOUS
    <3>1. i \in Nat \ {0} /\ HexPut = HexPageStart + hexOffset
      BY <2>8 DEF HexPut
    <3>2. \A j \in lines : HexPageStart + at <= j /\ j < HexPageStart + at + n
      BY <2>3
    <3>3. \A j \in image : j < HexPageStart + last
      BY <2>2 DEF HexGathered
    <3>4. CASE i <= Len(output)
      <4>1. filled[i] = HexDue(HexPut + i - 1)
        <5>1. i \in 1..Len(output) /\ filled[i] = output[i]
          BY <2>3, <2>8, <3>1, <3>4
        <5> QED BY <2>2, <5>1 DEF HexGathered
      <4>2. HexPut + i - 1 < HexPageStart + at
        BY <2>3, <2>4, <2>9, <3>1, <3>4
      <4>3. HexPut + i - 1 \notin lines
        BY <2>3, <3>1, <3>2, <4>2
      <4> QED BY <4>1, <4>3 DEF HexDue
    <3>5. CASE ~(i <= Len(output)) /\ i <= Len(output) + gap
      <4>1. filled[i] = Hex!FF
        BY <2>8, <3>5
      <4>2. HexPageStart + last <= HexPut + i - 1 /\ HexPut + i - 1 < HexPageStart + at
        BY <2>3, <2>5, <2>9, <3>1, <3>5
      <4>3. HexPut + i - 1 \notin lines /\ HexPut + i - 1 \notin image
        BY <2>3, <3>1, <3>2, <3>3, <4>2
      <4> QED BY <4>1, <4>3
    <3>6. CASE ~(i <= Len(output) + gap)
      <4>1. i - Len(output) - gap \in 1..n /\ ~(i <= Len(output))
        BY <2>3, <2>5, <2>8, <3>1, <3>6
      <4>2. filled[i] = HexPageStart + at + (i - Len(output) - gap) - 1
        BY <2>7, <2>8, <3>6, <4>1
      <4>3. HexPageStart + at + (i - Len(output) - gap) - 1 = HexPut + i - 1
        BY <2>3, <2>5, <2>9, <3>1
      <4>4. HexPut + i - 1 \in lines
        <5>1. (i - Len(output) - gap) - 1 \in 0..(n - 1)
          BY <2>3, <4>1
        <5>2. HexPut + i - 1 = HexPageStart + at + ((i - Len(output) - gap) - 1)
          BY <2>3, <2>5, <3>1, <4>3
        <5> QED BY <5>1, <5>2
      <4> QED BY <4>2, <4>3, <4>4
    <3> QED BY <3>4, <3>5, <3>6
  <2>11. lines \subseteq Hex!Addresses
    <3>1. \A i \in 0..(n - 1) : at + i \in 0..(HexPageSize - 1)
                                /\ HexPageStart + at + i = HexPageStart + (at + i)
      BY <2>3
    <3> QED BY <2>2, <3>1, HexPageWithin
  <2> DEFINE sent == IF Len(filled) < MaxSend THEN 0 ELSE MaxSend
  <2>12. sent \in Nat /\ sent <= Len(filled) /\ hexOffset' = hexOffset + sent
         /\ Len(filled) \in Nat /\ hexOffset + sent <= HexPageSize
    BY <2>1, <2>3, <2>8, <2>9
  <2>13. /\ output' \in Seq(Int) /\ Len(output') = Len(filled) - sent
         /\ Len(output') <= Hex!Room
         /\ \A i \in 1..Len(output') : output'[i] = filled[sent + i]
    <3>1. CASE Len(filled) < MaxSend
      <4>1. output' = filled /\ sent = 0
        BY <2>1, <3>1
      <4> QED BY <2>1, <2>3, <2>8, <4>1
    <3>2. CASE ~(Len(filled) < MaxSend)
      <4>1. output' = SubSeq(filled, MaxSend + 1, Len(filled)) /\ sent = MaxSend
        BY <2>1, <3>2
      <4>2. Len(filled) < Hex!Room /\ Len(filled) \in Nat /\ MaxSend <= Len(filled)
        BY <2>1, <2>3, <2>12, <4>1
      <4>3. /\ output' \in Seq(Int) /\ Len(output') = Len(filled) - MaxSend
            /\ \A i \in 1..(Len(filled) - MaxSend) : output'[i] = filled[MaxSend + i]
        BY <2>3, <2>8, <4>1, <4>2, HexRest
      <4>4. Len(filled) - MaxSend <= Hex!Room
        BY <2>3, <4>2
      <4> QED BY <4>1, <4>3, <4>4
    <3> QED BY <3>1, <3>2
  <2>14. /\ flash' \in [Hex!Addresses -> Int]
         /\ \A a \in Hex!Addresses : flash'[a] = IF HexPut <= a /\ a < HexPut + sent
                                                 THEN filled[a - HexPut + 1] ELSE flash[a]
    <3>1. CASE Len(filled) < MaxSend
      <4>1. flash' = flash /\ sent = 0
        BY <2>1, <3>1
      <4>2. \A a \in Hex!Addresses : ~(HexPut <= a /\ a < HexPut + sent)
        BY <2>3, <4>1
      <4> QED BY <2>2, <4>1, <4>2 DEF HexTypes
    <3>2. CASE ~(Len(filled) < MaxSend)
      <4> DEFINE bytes == SubSeq(filled, 1, MaxSend)
      <4>1. flash' = Hex!Written(bytes) /\ sent = MaxSend
        BY <2>1, <3>2
      <4>2. bytes \in Seq(Int) /\ Len(bytes) = MaxSend /\ \A i \in 1..MaxSend : bytes[i] = filled[i]
        BY <2>3, <2>8, <3>2
      <4> HIDE DEF bytes
      <4>3. /\ flash' \in [Hex!Addresses -> Int]
            /\ \A a \in Hex!Addresses :
                flash'[a] = IF HexPut <= a /\ a < HexPut + Len(bytes)
                            THEN bytes[a - HexPut + 1] ELSE flash[a]
        BY <2>2, <4>1, <4>2, HexSent
      <4>4. ASSUME NEW a \in Hex!Addresses, HexPut <= a, a < HexPut + MaxSend
            PROVE  bytes[a - HexPut + 1] = filled[a - HexPut + 1]
        <5>1. a - HexPut + 1 \in 1..MaxSend
          BY <2>3, <4>4
        <5> QED BY <4>2, <5>1
      <4> QED BY <4>1, <4>2, <4>3, <4>4
    <3> QED BY <3>1, <3>2
  <2> HIDE DEF sent
  <2>15. HexTypes'
    <3>1. at + n \in 0..HexPageSize /\ hexOffset + sent \in 0..HexPageSize
      BY <2>3, <2>12
    <3>2. image \cup lines \subseteq Hex!Addresses
      BY <2>2, <2>11 DEF HexTypes
    <3> QED BY <2>1, <2>2, <2>12, <2>13, <2>14, <3>1, <3>2 DEF HexTypes
  <2>16. HexPut' = HexPut + sent /\ HexPageStart' = HexPageStart
    <3>1. HexPageStart' = HexPageStart
      BY <2>1 DEF HexPageStart
    <3>2. HexPut' = HexPageStart' + hexOffset' /\ HexPut = HexPageStart + hexOffset
      BY DEF HexPut
    <3> QED BY <2>3, <2>12, <3>1, <3>2
  <2>17. \A a : HexDue(a)' = Due(a)
    BY <2>1 DEF HexDue
  <2> HIDE DEF Due
  <2>18. \A a \in Hex!Addresses : a < HexPut => Due(a) = HexDue(a)
    <3>1. ASSUME NEW a \in Hex!Addresses, a < HexPut PROVE a \notin lines
      BY <2>3, <2>4, <2>9, <3>1 DEF HexPut
    <3> QED BY <3>1 DEF Due, HexDue
  <2>19. HexGathered'
    <3>1. hexOffset' + Len(output') = last'
      <4>1. last' = at + n /\ Len(output') = Len(filled) - sent /\ hexOffset' = hexOffset + sent
        BY <2>1, <2>12, <2>13
      <4>2. hexOffset + sent + (Len(filled) - sent) = at + n
        BY <2>3, <2>9, <2>12
      <4> QED BY <4>1, <4>2
    <3>2. ASSUME NEW a \in Hex!Addresses
          PROVE  flash'[a] = IF a < HexPut + sent THEN Due(a) ELSE Hex!FF
      <4>1. a \in Int /\ flash[a] = IF a < HexPut THEN HexDue(a) ELSE Hex!FF
        BY <2>2, <2>3 DEF HexGathered
      <4>2. CASE a < HexPut
        BY <2>3, <2>12, <2>14, <2>18, <4>1, <4>2
      <4>3. CASE HexPut <= a /\ a < HexPut + sent
        <5>1. a - HexPut + 1 \in 1..Len(filled) /\ HexPut + (a - HexPut + 1) - 1 = a
          BY <2>3, <2>12, <4>1, <4>3
        <5>2. filled[a - HexPut + 1] = Due(a)
          BY <2>10, <5>1
        <5> QED BY <2>14, <4>3, <5>2
      <4>4. CASE ~(a < HexPut + sent)
        BY <2>3, <2>12, <2>14, <4>1, <4>4
      <4> QED BY <2>3, <4>1, <4>2, <4>3, <4>4
    <3>3. ASSUME NEW i \in 1..Len(output') PROVE output'[i] = Due(HexPut + sent + i - 1)
      <4>1. sent + i \in 1..Len(filled) /\ HexPut + (sent + i) - 1 = HexPut + sent + i - 1
        BY <2>3, <2>12, <2>13
      <4> QED BY <2>10, <2>13, <4>1
    <3>4. ASSUME NEW a \in image' PROVE a < HexPageStart + last'
      <4>1. CASE a \in image
        <5>1. a < HexPageStart + last /\ a \in Int
          BY <2>2, <2>3, <4>1 DEF HexGathered
        <5> QED BY <2>1, <2>3, <2>4, <5>1
      <4>2. CASE a \in lines
        BY <2>1, <2>3, <4>2
      <4> QED BY <2>1, <4>1, <4>2
    <3>5. HexPageStart + last' - 1 \in image'
      <4>1. HexPageStart + (at + n) - 1 = HexPageStart + at + (n - 1) /\ n - 1 \in 0..(n - 1)
        BY <2>3
      <4> QED BY <2>1, <4>1
    <3> QED BY <2>16, <2>17, <3>1, <3>2, <3>3, <3>4, <3>5 DEF HexGathered
  <2> QED BY <2>1, <2>15, <2>19 DEF HexInv
<1> QED BY <1>1, <1>2, <1>3

LEMMA HexKeeps ==
    ASSUME Hex!HexAssumption PROVE HexInv /\ [Hex!HNext]_(Hex!hvars) => HexInv'
<1> SUFFICES ASSUME HexInv, [Hex!HNext]_(Hex!hvars) PROVE HexInv'
  OBVIOUS
<1>1. CASE UNCHANGED Hex!hvars
  BY <1>1 DEF Hex!hvars, HexInv, HexTypes, HexBeginning, HexGathered, HexPut, HexPageStart, HexDue
<1>2. CASE Hex!Eof
  <2>1. /\ result = "programming" /\ result' = "ok" /\ ended' = ended
        /\ UNCHANGED <<page, hexOffset, last, output, flash, image>>
    BY <1>2 DEF Hex!Eof
  <2> QED BY <2>1, HexStops
<1>3. CASE Hex!CancelHex
  <2>1. /\ result' = "error" /\ ended' = ended
        /\ UNCHANGED <<page, hexOffset, last, output, flash, image>>
    BY <1>3 DEF Hex!CancelHex, Hex!Fails
  <2> QED BY <2>1, HexStops
<1>4. CASE \E answers \in BOOLEAN :
              Hex!Erase(answers) \/ Hex!Begin(answers) \/ Hex!EndLine(answers)
  BY <1>4, HexErases, HexBegins, HexEndLineKeeps
<1>5. CASE \E answers \in BOOLEAN, p \in 1..LastPage : Hex!PageLine(p, answers)
  BY <1>5, HexPageLineKeeps
<1>6. ASSUME NEW answers \in BOOLEAN, NEW at \in 0..(HexPageSize - 1), NEW n \in 1..LineSize,
             page = 0 => at >= AppOffset, at + n <= HexPageSize,
             \A a \in image : a < page * HexPageSize + at,
             Hex!DataLine(at, n, answers)
      PROVE  HexInv'
  BY <1>6, HexDataLineKeeps
<1> QED BY <1>1, <1>2, <1>3, <1>4, <1>5, <1>6, Zenon DEF Hex!HNext

\* A file that was read to its end of file record without an error is in the
\* memory of the device, for any pages, buffers and lines.
LEMMA HexImageProgrammed ==
    ASSUME HexInv PROVE Hex!HTypeOK /\ Hex!ImageProgrammed
BY DEF HexInv, HexTypes, HexDue, Hex!HTypeOK, Hex!ImageProgrammed

\* process_hex_file: what is reported as written is in the device's memory byte
\* for byte and the rest is erased, for any number and size of pages, any sizes
\* of buffers and messages, and whatever lines the file came in.
THEOREM HexFileWritten ==
    ASSUME Hex!HexAssumption PROVE Hex!HSpec => [](Hex!HTypeOK /\ Hex!ImageProgrammed)
<1>1. Hex!HInit => HexInv
  BY HexInits
<1>2. HexInv => Hex!HTypeOK /\ Hex!ImageProgrammed
  BY HexImageProgrammed
<1> QED BY <1>1, <1>2, HexKeeps, PTL DEF Hex!HSpec

----------------------------------------------------------------------------
(* DfuProgram, for any files of one or two sections, any size of page and  *)
(* any number of attempts.                                                 *)

\* A set of naturals has a least element.
LEMMA Least ==
    ASSUME NEW T \in SUBSET Nat, T # {}
    PROVE  \E m \in T : \A n \in T : m <= n
<1> DEFINE R == OpToRel(<, Nat)
<1>1. IsWellFoundedOn(R, Nat)
  BY NatLessThanWellFounded
<1>2. PICK m \in T : \A n \in T : <<n, m>> \notin R
  BY <1>1, WFMin
<1>3. R = {t \in Nat \X Nat : t[1] < t[2]}
  BY Zenon DEF OpToRel
<1> HIDE DEF R
<1>4. ASSUME NEW n \in T PROVE m <= n
  <2>1. n \in Nat /\ m \in Nat
    OBVIOUS
  <2>2. <<n, m>> \notin {t \in Nat \X Nat : t[1] < t[2]}
    BY <1>2, <1>3
  <2>3. ~(n < m)
    BY <2>1, <2>2
  <2> QED BY <2>1, <2>3
<1> QED BY <1>4

LEMMA DfuParameters ==
    ASSUME Dfu!DfuAssumption
    PROVE  /\ Tries \in Nat \ {0} /\ DfuPageSize \in Nat \ {0} /\ Span \in Nat \ {0}
           /\ \E n \in Nat : Span = n * DfuPageSize
BY DEF Dfu!DfuAssumption

\* The lowest and the highest offset of a section.
LEMMA DfuEnds ==
    ASSUME NEW n \in Nat, NEW data \in SUBSET (0..(n - 1)), data # {}
    PROVE  /\ Dfu!Min(data) \in data /\ \A a \in data : Dfu!Min(data) <= a
           /\ Dfu!Max(data) \in data /\ \A a \in data : Dfu!Max(data) >= a
<1>1. \E m \in data : \A a \in data : m <= a
  <2>1. data \in SUBSET Nat
    OBVIOUS
  <2> QED BY <2>1, Least
<1>2. \E m \in data : \A a \in data : m >= a
  <2> DEFINE down == {n - 1 - a : a \in data}
  <2>1. down \in SUBSET Nat /\ down # {}
    <3>1. \A a \in data : n - 1 - a \in Nat
      OBVIOUS
    <3>2. PICK a \in data : TRUE
      OBVIOUS
    <3>3. n - 1 - a \in down
      OBVIOUS
    <3> QED BY <3>1, <3>3
  <2>2. PICK d \in down : \A e \in down : d <= e
    BY <2>1, Least
  <2>3. PICK m \in data : d = n - 1 - m
    OBVIOUS
  <2>4. ASSUME NEW a \in data PROVE m >= a
    <3>1. d <= n - 1 - a
      BY <2>2
    <3>2. m \in Int /\ a \in Int
      OBVIOUS
    <3> QED BY <2>3, <3>1, <3>2
  <2> QED BY <2>4
<1> QED BY <1>1, <1>2 DEF Dfu!Min, Dfu!Max

\* A number is on one page.
LEMMA OnePage ==
    ASSUME NEW a \in Nat, NEW size \in Nat \ {0}
    PROVE  \E q \in Nat : q * size <= a /\ a < q * size + size
<1> DEFINE T == {q \in Nat : a < q * size + size}
<1>1. a \in T
  <2>1. a * size >= a
    <3>1. PICK d \in Nat : size = 1 + d
      <4>1. size - 1 \in Nat /\ size = 1 + (size - 1)
        OBVIOUS
      <4> QED BY <4>1
    <3>2. a * (1 + d) = a + a * d /\ a * d \in Nat
      OBVIOUS
    <3> QED BY <3>1, <3>2
  <2>2. a * size \in Nat
    OBVIOUS
  <2> QED BY <2>1, <2>2
<1>2. PICK q \in T : \A r \in T : q <= r
  <2>1. T \in SUBSET Nat /\ T # {}
    BY <1>1
  <2> HIDE DEF T
  <2> QED BY <2>1, Least
<1>3. q * size <= a
  <2>1. CASE q = 0
    <3>1. q * size = 0
      BY <2>1
    <3> QED BY <3>1
  <2>2. CASE q # 0
    <3>1. q - 1 \in Nat /\ q - 1 \notin T
      BY <1>2, <2>2
    <3>2. ~(a < (q - 1) * size + size)
      BY <3>1
    <3>3. (q - 1) * size = q * size - size /\ q * size \in Nat
      BY <2>2
    <3> QED BY <3>2, <3>3
  <2> QED BY <2>1, <2>2
<1> QED BY <1>2, <1>3

\* A product is on the page it begins.
LEMMA PageWhole ==
    ASSUME NEW n \in Nat, NEW size \in Nat \ {0} PROVE (n * size) % size = 0
OBVIOUS

\* The pages of a section cover its bytes, but for a last one that would be
\* alone on its page, and lie within its span.
LEMMA DfuPages ==
    ASSUME Dfu!DfuAssumption, NEW len \in 1..Span
    PROVE  /\ Dfu!PagesOf(len) \in Nat \ {0}
           /\ Dfu!PagesOf(len) * DfuPageSize >= len - 1
           /\ Dfu!PagesOf(len) * DfuPageSize <= Span
<1> DEFINE P == DfuPageSize
           Enough(n) == n * P >= len - 1 /\ \A m \in 1..(n - 1) : m * P < len - 1
           T == {n \in Nat \ {0} : n * P >= len - 1}
<1>1. P \in Nat \ {0} /\ Span \in Nat \ {0} /\ len \in Nat \ {0}
  BY DfuParameters
<1>2. len \in T
  <2>1. len * P >= len
    <3>1. P - 1 \in Nat /\ P = 1 + (P - 1) /\ len * (P - 1) \in Nat
      BY <1>1
    <3>2. len * P = len + len * (P - 1)
      BY <1>1
    <3> QED BY <1>1, <3>1, <3>2
  <2> QED BY <1>1, <2>1
<1>3. PICK n \in T : \A m \in T : n <= m
  <2>1. T \in SUBSET Nat /\ T # {}
    BY <1>2
  <2> HIDE DEF T
  <2> QED BY <2>1, Least
<1>4. n \in 1..len /\ Enough(n)
  <2>1. n \in Nat \ {0} /\ n <= len /\ n * P >= len - 1
    BY <1>2, <1>3
  <2>2. ASSUME NEW m \in 1..(n - 1) PROVE m * P < len - 1
    <3>1. m \in Nat \ {0} /\ ~(n <= m) /\ m * P \in Nat
      BY <1>1, <2>1
    <3>2. ~(m * P >= len - 1)
      BY <1>3, <3>1
    <3> QED BY <1>1, <3>1, <3>2
  <2> QED BY <1>1, <2>1, <2>2
<1> HIDE DEF Enough
<1>5. Dfu!PagesOf(len) = CHOOSE k \in 1..len : Enough(k)
  BY DEF Enough, Dfu!PagesOf
<1>6. Dfu!PagesOf(len) \in 1..len /\ Enough(Dfu!PagesOf(len))
  BY <1>4, <1>5
<1> DEFINE k == Dfu!PagesOf(len)
<1>7. k \in Nat \ {0} /\ k * P >= len - 1
  BY <1>1, <1>6 DEF Enough
<1> HIDE DEF k
<1>8. k * P <= Span
  <2>1. PICK s \in Nat : Span = s * P
    BY DfuParameters
  <2>2. k <= s
    <3>1. CASE k = 1
      <4>1. s # 0
        BY <1>1, <2>1
      <4> QED BY <3>1, <4>1
    <3>2. CASE k # 1
      <4>1. k - 1 \in 1..(k - 1) /\ k - 1 \in Nat
        BY <1>7, <3>2
      <4>2. (k - 1) * P < len - 1
        BY <1>6, <4>1 DEF Enough, k
      <4>3. (k - 1) * P < s * P
        BY <1>1, <2>1, <4>1, <4>2
      <4>4. k - 1 < s
        <5>1. ASSUME s < k - 1 PROVE FALSE
          <6>1. s * P + P <= (k - 1) * P
            BY <1>1, <4>1, <5>1, HexPagesApart
          <6>2. s * P \in Nat /\ (k - 1) * P \in Nat
            BY <1>1, <4>1
          <6> QED BY <1>1, <4>3, <6>1, <6>2
        <5>2. s # k - 1
          BY <1>1, <4>1, <4>3
        <5> QED BY <4>1, <5>1, <5>2
      <4> QED BY <1>7, <4>4
    <3> QED BY <3>1, <3>2
  <2>3. CASE k = s
    BY <1>1, <2>1, <2>3
  <2>4. CASE k < s
    <3>1. k * P + P <= s * P /\ k * P \in Nat
      BY <1>1, <1>7, <2>4, HexPagesApart
    <3> QED BY <1>1, <2>1, <3>1
  <2> QED BY <1>7, <2>2, <2>3, <2>4
<1> QED BY <1>7, <1>8 DEF k

LEMMA OneOrTwo == ASSUME NEW n \in {1, 2}, NEW i \in 1..n PROVE i \in {1, 2}
OBVIOUS

LEMMA ElementOf ==
    ASSUME NEW S, NEW s \in Seq(S), NEW i \in 1..Len(s) PROVE s[i] \in S
OBVIOUS

LEMMA ListIsSeq ==
    ASSUME NEW S, NEW n \in Nat, NEW f \in [1..n -> S] PROVE f \in Seq(S) /\ Len(f) = n
OBVIOUS

\* Where the page of a command begins, its addresses, and what the file has
\* for each of them.
DfuBase(c) == sections[c.section].address + c.page * DfuPageSize
DfuRegion(c) == {a \in Dfu!Addresses : DfuBase(c) <= a /\ a < DfuBase(c) + DfuPageSize}
DfuValue(c, a) ==
    LET s == sections[c.section]
        i == a - s.address + 1
    IN  IF i \in 1..Len(s.image) THEN s.image[i] ELSE Dfu!FF
DfuCount == Len(Dfu!ListOf("erase"))

\* The sections of the file are loaded.
DfuLoaded == sections = [s \in 1..Len(file) |-> Dfu!Section(s)]

LEMMA DfuSections ==
    ASSUME Dfu!DfuAssumption, file \in HexFiles, DfuLoaded, NEW s \in 1..Len(file)
    PROVE  /\ Len(file) \in {1, 2} /\ Len(sections) = Len(file)
           /\ file[s] \in SUBSET (0..(Span - 1)) /\ file[s] # {}
           /\ sections[s].address = (s - 1) * Span
           /\ sections[s].image \in Seq(Int)
           /\ Len(sections[s].image) = Dfu!Max(file[s]) - Dfu!Min(file[s]) + 1
           /\ Len(sections[s].image) \in 1..Span
           /\ \A i \in 1..Len(sections[s].image) :
                 sections[s].image[i] = IF Dfu!Min(file[s]) + i - 1 \in file[s]
                                        THEN (s - 1) * Span + (Dfu!Min(file[s]) + i - 1) ELSE Dfu!FF
<1>1. Len(file) \in {1, 2} /\ file \in Seq((SUBSET (0..(Span - 1))) \ {{}})
  BY DEF Dfu!DfuAssumption
<1>2. file[s] \in SUBSET (0..(Span - 1)) /\ file[s] # {} /\ s \in Nat \ {0}
  <2>1. file[s] \in (SUBSET (0..(Span - 1))) \ {{}}
    BY <1>1, ElementOf
  <2>2. s \in Nat \ {0}
    BY <1>1
  <2>3. file[s] # {} /\ file[s] \in SUBSET (0..(Span - 1))
    BY <2>1, Zenon
  <2> QED BY <2>2, <2>3, Zenon
<1>3. Span \in Nat \ {0}
  BY DfuParameters
<1> DEFINE lo  == Dfu!Min(file[s])
           hi  == Dfu!Max(file[s])
           img == [i \in 1..(hi - lo + 1) |->
                     IF lo + i - 1 \in file[s] THEN (s - 1) * Span + (lo + i - 1) ELSE Dfu!FF]
<1>4. lo \in 0..(Span - 1) /\ hi \in 0..(Span - 1) /\ lo <= hi
  <2>1. lo \in file[s] /\ hi \in file[s] /\ \A a \in file[s] : lo <= a
    BY <1>2, <1>3, DfuEnds
  <2> QED BY <1>2, <2>1
<1>5. sections[s] = [address |-> (s - 1) * Span, image |-> img]
  BY DEF DfuLoaded, Dfu!Section
<1> HIDE DEF lo, hi
<1>6. hi - lo + 1 \in 1..Span
  BY <1>3, <1>4
<1>7. \A i \in 1..(hi - lo + 1) : img[i] \in Int
  BY <1>2, <1>3, <1>4 DEF Dfu!FF
<1>8. img \in Seq(Int) /\ Len(img) = hi - lo + 1
  <2>1. img \in [1..(hi - lo + 1) -> Int]
    BY <1>7
  <2> HIDE DEF img
  <2> QED BY <1>6, <2>1
<1>9. Len(sections) = Len(file)
  BY <1>1 DEF DfuLoaded
<1> QED BY <1>1, <1>2, <1>5, <1>6, <1>8, <1>9 DEF lo, hi

\* The pages of a list: one command for each page of each section.
LEMMA DfuPageLists ==
    ASSUME Dfu!DfuAssumption, file \in HexFiles, DfuLoaded,
           NEW s \in 1..Len(file), NEW what
    PROVE  LET n == Dfu!PagesOf(Len(sections[s].image))
           IN  /\ n \in Nat \ {0} /\ Len(Dfu!PageList(what, s)) = n
               /\ \A i \in 1..n : Dfu!PageList(what, s)[i] = [kind |-> what, section |-> s, page |-> i - 1]
               /\ Dfu!PageList(what, s) \in Seq([kind : {what}, section : {1, 2}, page : Nat])
<1> DEFINE n == Dfu!PagesOf(Len(sections[s].image))
<1>1. n \in Nat \ {0}
  BY DfuSections, DfuPages
<1>2. Dfu!PageList(what, s) = [i \in 1..n |-> [kind |-> what, section |-> s, page |-> i - 1]]
  BY DEF Dfu!PageList
<1> HIDE DEF n
<1> DEFINE C == [kind : {what}, section : {1, 2}, page : Nat]
<1>3. s \in {1, 2}
  <2>1. Len(file) \in {1, 2}
    BY DfuSections
  <2> QED BY <2>1, OneOrTwo
<1>4. \A i \in 1..n : [kind |-> what, section |-> s, page |-> i - 1] \in C
  BY <1>1, <1>3
<1> HIDE DEF C
<1>5. Dfu!PageList(what, s) \in Seq(C) /\ Len(Dfu!PageList(what, s)) = n
  <2>1. Dfu!PageList(what, s) \in [1..n -> C]
    BY <1>2, <1>4
  <2> QED BY <1>1, <2>1, ListIsSeq
<1>6. \A i \in 1..n : Dfu!PageList(what, s)[i] = [kind |-> what, section |-> s, page |-> i - 1]
  BY <1>2
<1> QED BY <1>1, <1>5, <1>6 DEF n, C

DfuPageCount(s) == Dfu!PagesOf(Len(sections[s].image))

\* A list of commands goes through the pages of the sections, each once.
LEMMA DfuLists ==
    ASSUME Dfu!DfuAssumption, file \in HexFiles, DfuLoaded, NEW what
    PROVE  LET list == Dfu!ListOf(what)
           IN  /\ list \in Seq([kind : {what}, section : {1, 2}, page : Nat])
               /\ Len(list) = IF Len(file) = 1 THEN DfuPageCount(1)
                              ELSE DfuPageCount(1) + DfuPageCount(2)
               /\ \A i \in 1..Len(list) :
                     list[i] = IF i <= DfuPageCount(1)
                               THEN [kind |-> what, section |-> 1, page |-> i - 1]
                               ELSE [kind |-> what, section |-> 2, page |-> i - 1 - DfuPageCount(1)]
<1>1. 1 \in 1..Len(file) /\ Len(file) \in {1, 2}
  <2>1. Len(file) \in {1, 2}
    BY DEF Dfu!DfuAssumption
  <2> QED BY <2>1
<1>2. Len(sections) = Len(file)
  BY <1>1, DfuSections
<1> DEFINE first == Dfu!PageList(what, 1)
           n1 == DfuPageCount(1)
<1>3. /\ n1 \in Nat \ {0} /\ Len(first) = n1
      /\ \A i \in 1..n1 : first[i] = [kind |-> what, section |-> 1, page |-> i - 1]
      /\ first \in Seq([kind : {what}, section : {1, 2}, page : Nat])
  BY <1>1, DfuPageLists DEF DfuPageCount
<1>4. CASE Len(file) = 1
  <2>1. Dfu!ListOf(what) = first
    BY <1>2, <1>4 DEF Dfu!ListOf
  <2>2. \A i \in 1..n1 : i <= n1
    BY <1>3
  <2> QED BY <1>3, <1>4, <2>1, <2>2
<1>5. CASE Len(file) = 2
  <2> DEFINE second == Dfu!PageList(what, 2)
             n2 == DfuPageCount(2)
  <2>1. Dfu!ListOf(what) = first \o second
    BY <1>2, <1>5 DEF Dfu!ListOf
  <2>2. 2 \in 1..Len(file)
    BY <1>5
  <2>3. /\ n2 \in Nat \ {0} /\ Len(second) = n2
        /\ \A i \in 1..n2 : second[i] = [kind |-> what, section |-> 2, page |-> i - 1]
        /\ second \in Seq([kind : {what}, section : {1, 2}, page : Nat])
    BY <2>2, DfuPageLists DEF DfuPageCount
  <2> HIDE DEF first, second, n1, n2
  <2> DEFINE C == [kind : {what}, section : {1, 2}, page : Nat]
  <2> HIDE DEF C
  <2>4. first \in Seq(C) /\ second \in Seq(C)
    BY <1>3, <2>3 DEF C
  <2>5. /\ first \o second \in Seq(C) /\ Len(first \o second) = n1 + n2
        /\ \A i \in 1..(n1 + n2) :
              (first \o second)[i] = IF i <= n1 THEN first[i] ELSE second[i - n1]
    <3>1. /\ first \o second \in Seq(C) /\ Len(first \o second) = Len(first) + Len(second)
          /\ \A i \in 1..Len(first \o second) :
                (first \o second)[i] = IF i <= Len(first) THEN first[i] ELSE second[i - Len(first)]
      BY <2>4, Concat
    <3> QED BY <1>3, <2>3, <3>1
  <2>6. ASSUME NEW i \in 1..(n1 + n2)
        PROVE  (first \o second)[i] =
                  IF i <= n1 THEN [kind |-> what, section |-> 1, page |-> i - 1]
                  ELSE [kind |-> what, section |-> 2, page |-> i - 1 - n1]
    <3>1. CASE i <= n1
      <4>1. i \in 1..n1
        BY <1>3, <2>3, <3>1
      <4>2. (first \o second)[i] = first[i]
        BY <2>5, <3>1
      <4> QED BY <1>3, <3>1, <4>1, <4>2
    <3>2. CASE ~(i <= n1)
      <4>1. i - n1 \in 1..n2 /\ (i - n1) - 1 = i - 1 - n1
        BY <1>3, <2>3, <3>2
      <4>2. (first \o second)[i] = second[i - n1]
        BY <2>5, <3>2
      <4> QED BY <2>3, <3>2, <4>1, <4>2
    <3> QED BY <3>1, <3>2
  <2> QED BY <1>5, <2>1, <2>5, <2>6 DEF C, n1, n2
<1> QED BY <1>1, <1>4, <1>5

\* All pages are erased, then all are written: the commands that erase and
\* write a page are DfuCount apart.
LEMMA DfuCommands ==
    ASSUME Dfu!DfuAssumption, file \in HexFiles, DfuLoaded
    PROVE  /\ DfuCount \in Nat \ {0} /\ Len(Dfu!Commands) = DfuCount + DfuCount
           /\ \A i \in 1..DfuCount :
                 LET c == Dfu!Commands[i]
                     d == Dfu!Commands[DfuCount + i]
                 IN  /\ c.kind = "erase" /\ d.kind = "write"
                     /\ d.section = c.section /\ d.page = c.page
                     /\ c.section \in 1..Len(file) /\ c.page \in Nat
                     /\ c.page < DfuPageCount(c.section)
           /\ \A i, j \in 1..DfuCount :
                 Dfu!Commands[i].section = Dfu!Commands[j].section
                    /\ Dfu!Commands[i].page = Dfu!Commands[j].page => i = j
           /\ \A s \in 1..Len(file), q \in Nat : q < DfuPageCount(s) =>
                 \E i \in 1..DfuCount : Dfu!Commands[i].section = s /\ Dfu!Commands[i].page = q
<1> DEFINE n1 == DfuPageCount(1)
           n2 == DfuPageCount(2)
           erases == Dfu!ListOf("erase")
           writes == Dfu!ListOf("write")
           At(kd, i) == IF i <= n1 THEN [kind |-> kd, section |-> 1, page |-> i - 1]
                        ELSE [kind |-> kd, section |-> 2, page |-> i - 1 - n1]
<1>1. Len(file) \in {1, 2}
  BY DEF Dfu!DfuAssumption
<1>2. n1 \in Nat \ {0} /\ (Len(file) = 2 => n2 \in Nat \ {0})
  <2>1. ASSUME NEW s \in 1..Len(file) PROVE DfuPageCount(s) \in Nat \ {0}
    BY DfuSections, DfuPages DEF DfuPageCount
  <2>2. 1 \in 1..Len(file) /\ (Len(file) = 2 => 2 \in 1..Len(file))
    BY <1>1
  <2> QED BY <2>1, <2>2
<1>3. Len(erases) = IF Len(file) = 1 THEN n1 ELSE n1 + n2
  BY DfuLists
<1>4. Len(writes) = Len(erases)
  BY <1>3, DfuLists
<1>5. \A i \in 1..Len(erases) : erases[i] = At("erase", i)
  BY DfuLists
<1>6. \A i \in 1..Len(erases) : writes[i] = At("write", i)
  BY <1>4, DfuLists
<1>7. DfuCount = Len(erases)
  BY DEF DfuCount
<1> DEFINE C(kd) == [kind : {kd}, section : {1, 2}, page : Nat]
           D == C("erase") \cup C("write")
<1>8. erases \in Seq(C("erase")) /\ writes \in Seq(C("write"))
  BY DfuLists
<1> HIDE DEF n1, n2, erases, writes, C
<1>9. erases \in Seq(D) /\ writes \in Seq(D)
  BY <1>8
<1> HIDE DEF D
<1>10. /\ Len(Dfu!Commands) = DfuCount + DfuCount
       /\ \A i \in 1..(DfuCount + DfuCount) :
             Dfu!Commands[i] = IF i <= DfuCount THEN erases[i] ELSE writes[i - DfuCount]
  <2>1. Dfu!Commands = erases \o writes
    BY DEF Dfu!Commands, erases, writes
  <2>2. /\ Len(erases \o writes) = Len(erases) + Len(writes)
        /\ \A i \in 1..Len(erases \o writes) :
              (erases \o writes)[i] = IF i <= Len(erases) THEN erases[i]
                                      ELSE writes[i - Len(erases)]
    BY <1>9, Concat
  <2> QED BY <1>4, <1>7, <2>1, <2>2
<1>11. DfuCount \in Nat \ {0} /\ (Len(file) = 1 => DfuCount = n1)
       /\ (Len(file) = 2 => DfuCount = n1 + n2)
  <2>1. CASE Len(file) = 1
    <3>1. DfuCount = n1
      BY <1>3, <1>7, <2>1
    <3> QED BY <1>2, <2>1, <3>1
  <2>2. CASE Len(file) = 2
    <3>1. DfuCount = n1 + n2
      BY <1>3, <1>7, <2>2
    <3> QED BY <1>2, <2>2, <3>1
  <2> QED BY <1>1, <2>1, <2>2
<1>12. ASSUME NEW i \in 1..DfuCount
       PROVE  /\ Dfu!Commands[i] = At("erase", i) /\ Dfu!Commands[DfuCount + i] = At("write", i)
              /\ i \in Nat \ {0}
  <2>1. i \in Nat \ {0} /\ i <= DfuCount /\ i \in 1..(DfuCount + DfuCount)
    BY <1>11
  <2>2. DfuCount + i \in 1..(DfuCount + DfuCount) /\ ~(DfuCount + i <= DfuCount)
        /\ (DfuCount + i) - DfuCount = i
    BY <1>11, <2>1
  <2>3. Dfu!Commands[i] = erases[i] /\ Dfu!Commands[DfuCount + i] = writes[i]
    <3>1. Dfu!Commands[i] = erases[i]
      BY <1>10, <2>1
    <3>2. Dfu!Commands[DfuCount + i] = writes[(DfuCount + i) - DfuCount]
      <4> DEFINE k == DfuCount + i
      <4>1. k \in 1..(DfuCount + DfuCount) /\ ~(k <= DfuCount)
        BY <2>2
      <4> HIDE DEF k
      <4>2. Dfu!Commands[k] = writes[k - DfuCount]
        BY <1>10, <4>1
      <4> QED BY <4>2 DEF k
    <3> QED BY <2>2, <3>1, <3>2
  <2> QED BY <1>5, <1>6, <1>7, <2>1, <2>3
<1>13. ASSUME NEW i \in 1..DfuCount
       PROVE  \/ /\ i <= n1 /\ i - 1 \in Nat /\ i - 1 < n1
                 /\ \A kd : At(kd, i) = [kind |-> kd, section |-> 1, page |-> i - 1]
              \/ /\ ~(i <= n1) /\ Len(file) = 2 /\ i - 1 - n1 \in Nat /\ i - 1 - n1 < n2
                 /\ \A kd : At(kd, i) = [kind |-> kd, section |-> 2, page |-> i - 1 - n1]
  <2>1. i \in Nat \ {0} /\ i <= DfuCount
    BY <1>11
  <2>2. CASE i <= n1
    BY <1>2, <2>1, <2>2
  <2>3. CASE ~(i <= n1)
    <3>1. Len(file) = 2
      BY <1>1, <1>11, <2>1, <2>3
    <3> QED BY <1>2, <1>11, <2>1, <2>3, <3>1
  <2> QED BY <2>2, <2>3
<1> HIDE DEF At
<1>14. ASSUME NEW i \in 1..DfuCount
       PROVE  LET c == Dfu!Commands[i]
                  d == Dfu!Commands[DfuCount + i]
              IN  /\ c.kind = "erase" /\ d.kind = "write"
                  /\ d.section = c.section /\ d.page = c.page
                  /\ c.section \in 1..Len(file) /\ c.page \in Nat
                  /\ c.page < DfuPageCount(c.section)
  <2>1. 1 \in 1..Len(file) /\ (Len(file) = 2 => 2 \in 1..Len(file))
    BY <1>1
  <2>2. Dfu!Commands[i] = At("erase", i) /\ Dfu!Commands[DfuCount + i] = At("write", i)
    BY <1>12
  <2> QED BY <1>13, <2>1, <2>2 DEF n1, n2
<1>15. ASSUME NEW i \in 1..DfuCount, NEW j \in 1..DfuCount,
              Dfu!Commands[i].section = Dfu!Commands[j].section,
              Dfu!Commands[i].page = Dfu!Commands[j].page
       PROVE  i = j
  <2>1. /\ Dfu!Commands[i] = At("erase", i) /\ Dfu!Commands[j] = At("erase", j)
        /\ i \in Nat /\ j \in Nat
    BY <1>12
  <2>2. \/ i <= n1 /\ j <= n1 /\ i - 1 = j - 1
        \/ ~(i <= n1) /\ ~(j <= n1) /\ i - 1 - n1 = j - 1 - n1
    BY <1>13, <1>15, <2>1
  <2> QED BY <1>2, <2>1, <2>2
<1>16. ASSUME NEW s \in 1..Len(file), NEW q \in Nat, q < DfuPageCount(s)
       PROVE  \E i \in 1..DfuCount : Dfu!Commands[i].section = s /\ Dfu!Commands[i].page = q
  <2>1. s = 1 \/ (s = 2 /\ Len(file) = 2)
    <3>1. CASE Len(file) = 1
      BY <3>1
    <3>2. CASE Len(file) = 2
      BY <3>2
    <3> QED BY <1>1, <3>1, <3>2
  <2>2. CASE s = 1
    <3>1. q + 1 \in 1..DfuCount /\ q + 1 <= n1 /\ q + 1 - 1 = q
      BY <1>1, <1>2, <1>11, <1>16, <2>2 DEF n1
    <3>2. Dfu!Commands[q + 1] = At("erase", q + 1)
      BY <1>12, <3>1
    <3>3. At("erase", q + 1) = [kind |-> "erase", section |-> 1, page |-> q + 1 - 1]
      BY <3>1 DEF At
    <3>4. Dfu!Commands[q + 1].section = s /\ Dfu!Commands[q + 1].page = q
      BY <2>2, <3>1, <3>2, <3>3
    <3> QED BY <3>1, <3>4
  <2>3. CASE s = 2 /\ Len(file) = 2
    <3>1. PICK j \in 1..DfuCount : ~(j <= n1) /\ j - 1 - n1 = q
      <4>1. q + 1 + n1 \in 1..DfuCount /\ ~(q + 1 + n1 <= n1) /\ (q + 1 + n1) - 1 - n1 = q
        BY <1>2, <1>11, <1>16, <2>3 DEF n2
      <4> QED BY <4>1
    <3>2. Dfu!Commands[j] = [kind |-> "erase", section |-> 2, page |-> q]
      BY <1>12, <3>1 DEF At
    <3> QED BY <2>3, <3>2
  <2> QED BY <2>1, <2>2, <2>3
<1> QED BY <1>10, <1>11, <1>14, <1>15, <1>16

\* Commands for one page are about one region of memory, for different pages
\* about disjoint ones.
LEMMA DfuRegions ==
    ASSUME Dfu!DfuAssumption, file \in HexFiles, DfuLoaded, NEW i \in 1..DfuCount
    PROVE  /\ DfuBase(Dfu!Commands[i]) \in Nat
           /\ DfuBase(Dfu!Commands[DfuCount + i]) = DfuBase(Dfu!Commands[i])
           /\ \A j \in 1..DfuCount : i # j =>
                 \/ DfuBase(Dfu!Commands[i]) + DfuPageSize <= DfuBase(Dfu!Commands[j])
                 \/ DfuBase(Dfu!Commands[j]) + DfuPageSize <= DfuBase(Dfu!Commands[i])
<1>1. DfuPageSize \in Nat \ {0} /\ Span \in Nat \ {0} /\ Len(file) \in {1, 2}
  BY DfuParameters DEF Dfu!DfuAssumption
<1> DEFINE sec(j) == Dfu!Commands[j].section
           pg(j) == Dfu!Commands[j].page
<1>2. ASSUME NEW j \in 1..DfuCount
      PROVE  /\ DfuBase(Dfu!Commands[j]) = (sec(j) - 1) * Span + pg(j) * DfuPageSize
             /\ sec(j) \in {1, 2} /\ pg(j) \in Nat /\ pg(j) * DfuPageSize \in Nat
             /\ pg(j) * DfuPageSize + DfuPageSize <= Span
             /\ (sec(j) - 1) * Span \in Nat
  <2>1. sec(j) \in 1..Len(file) /\ pg(j) \in Nat /\ pg(j) < DfuPageCount(sec(j))
    BY DfuCommands
  <2>2. sec(j) \in {1, 2}
    BY <1>1, <2>1, OneOrTwo
  <2>3. sections[sec(j)].address = (sec(j) - 1) * Span
    BY <2>1, DfuSections
  <2>4. DfuPageCount(sec(j)) \in Nat /\ DfuPageCount(sec(j)) * DfuPageSize <= Span
    BY <2>1, DfuSections, DfuPages DEF DfuPageCount
  <2>5. pg(j) * DfuPageSize \in Nat
        /\ pg(j) * DfuPageSize + DfuPageSize <= DfuPageCount(sec(j)) * DfuPageSize
        /\ DfuPageCount(sec(j)) * DfuPageSize \in Nat
    BY <1>1, <2>1, <2>4, HexPagesApart
  <2>6. (sec(j) - 1) * Span \in Nat
    BY <1>1, <2>2
  <2>7. pg(j) * DfuPageSize + DfuPageSize <= Span
    BY <1>1, <2>4, <2>5
  <2> QED BY <2>1, <2>2, <2>3, <2>5, <2>6, <2>7 DEF DfuBase
<1>3. DfuBase(Dfu!Commands[DfuCount + i]) = DfuBase(Dfu!Commands[i])
  BY DfuCommands DEF DfuBase
<1>4. ASSUME NEW j \in 1..DfuCount, i # j
      PROVE  \/ DfuBase(Dfu!Commands[i]) + DfuPageSize <= DfuBase(Dfu!Commands[j])
             \/ DfuBase(Dfu!Commands[j]) + DfuPageSize <= DfuBase(Dfu!Commands[i])
  <2>1. sec(i) # sec(j) \/ pg(i) # pg(j)
    BY <1>4, DfuCommands
  <2> DEFINE a == pg(i) * DfuPageSize
             b == pg(j) * DfuPageSize
  <2>2. CASE sec(i) = sec(j)
    <3>1. pg(i) < pg(j) \/ pg(j) < pg(i)
      BY <1>2, <2>1, <2>2
    <3>2. a + DfuPageSize <= b \/ b + DfuPageSize <= a
      BY <1>1, <1>2, <3>1, HexPagesApart
    <3>3. a \in Nat /\ b \in Nat /\ (sec(i) - 1) * Span \in Nat
      BY <1>2
    <3>4. DfuBase(Dfu!Commands[i]) = (sec(i) - 1) * Span + a
          /\ DfuBase(Dfu!Commands[j]) = (sec(i) - 1) * Span + b
      BY <1>2, <2>2
    <3> HIDE DEF a, b
    <3> QED BY <1>1, <3>2, <3>3, <3>4
  <2>3. CASE sec(i) # sec(j)
    <3>1. (sec(i) = 1 /\ sec(j) = 2) \/ (sec(i) = 2 /\ sec(j) = 1)
      BY <1>2, <2>3
    <3>2. (1 - 1) * Span = 0 /\ (2 - 1) * Span = Span
      BY <1>1
    <3>3. /\ DfuBase(Dfu!Commands[i]) = (sec(i) - 1) * Span + a
          /\ DfuBase(Dfu!Commands[j]) = (sec(j) - 1) * Span + b
          /\ a \in Nat /\ b \in Nat /\ a + DfuPageSize <= Span /\ b + DfuPageSize <= Span
      BY <1>2
    <3> HIDE DEF a, b
    <3> QED BY <1>1, <3>1, <3>2, <3>3
  <2> QED BY <2>2, <2>3
<1>5. DfuBase(Dfu!Commands[i]) \in Nat
  BY <1>2
<1> QED BY <1>3, <1>4, <1>5

DfuTypes ==
    /\ file \in HexFiles /\ state \in {"start", "programming", "done", "failed"}
    /\ attempt \in 0..Tries /\ (state # "failed" => attempt < Tries) /\ command \in Nat
    /\ dfuFlash \in [Dfu!Addresses -> Int]
    /\ dfuMode \in {"DFU", "ISB"} /\ (state # "done" => dfuMode = "DFU")

\* What was erased is erased until it is written, and then it is right: the
\* attempt that is under way has nothing left of those before it.
DfuProgress ==
    state \in {"programming", "done"} =>
        /\ DfuLoaded
        /\ \A i \in 1..DfuCount : i <= command =>
              \A a \in DfuRegion(Dfu!Commands[i]) :
                 dfuFlash[a] = IF command < DfuCount + i THEN Dfu!FF
                               ELSE DfuValue(Dfu!Commands[i], a)
        /\ state = "done" => command = Len(Dfu!Commands)

DfuInv == DfuTypes /\ DfuProgress

\* The list of commands and what they are about stay while the sections do.
LEMMA DfuListStays ==
    ASSUME sections' = sections
    PROVE  /\ Dfu!Commands' = Dfu!Commands /\ DfuCount' = DfuCount
           /\ \A c : DfuRegion(c)' = DfuRegion(c)
           /\ \A c, a : DfuValue(c, a)' = DfuValue(c, a)
<1>1. Dfu!Commands' = Dfu!Commands /\ DfuCount' = DfuCount
  BY DEF Dfu!Commands, DfuCount, Dfu!ListOf, Dfu!PageList
<1>2. \A c : DfuRegion(c)' = DfuRegion(c)
  BY DEF DfuRegion, DfuBase
<1>3. \A c, a : DfuValue(c, a)' = DfuValue(c, a)
  BY DEF DfuValue
<1> QED BY <1>1, <1>2, <1>3

LEMMA DfuInits == ASSUME Dfu!DfuAssumption, Dfu!DInit PROVE DfuInv
<1>1. /\ file \in HexFiles /\ command = 0 /\ attempt = 0 /\ state = "start" /\ dfuMode = "DFU"
      /\ dfuFlash = [a \in Dfu!Addresses |-> Dfu!Damaged]
  BY DEF Dfu!DInit
<1>2. Tries \in Nat \ {0} /\ Dfu!Damaged \in Int
  BY DfuParameters DEF Dfu!Damaged
<1>3. DfuTypes
  BY <1>1, <1>2 DEF DfuTypes
<1> QED BY <1>1, <1>3 DEF DfuInv, DfuProgress

\* The next attempt begins from nothing.
LEMMA DfuRetries ==
    ASSUME Dfu!DfuAssumption, DfuInv, state \in {"start", "programming"}, Dfu!Retry,
           dfuFlash' \in [Dfu!Addresses -> Int]
    PROVE  DfuInv'
<1>1. /\ attempt' = attempt + 1 /\ command' = 0
      /\ state' = IF attempt + 1 < Tries THEN "start" ELSE "failed"
      /\ UNCHANGED <<file, dfuMode>>
  BY DEF Dfu!Retry
<1>2. Tries \in Nat /\ attempt \in Nat /\ attempt < Tries
  BY DfuParameters DEF DfuInv, DfuTypes
<1>3. attempt + 1 \in 0..Tries /\ (state' # "failed" => attempt + 1 < Tries)
  BY <1>1, <1>2
<1>4. DfuTypes'
  BY <1>1, <1>3 DEF DfuInv, DfuTypes
<1> QED BY <1>1, <1>4 DEF DfuInv, DfuProgress

\* What a command of the list leaves in memory.
LEMMA DfuAfter ==
    ASSUME Dfu!DfuAssumption, DfuTypes, DfuLoaded,
           NEW i \in 1..DfuCount, NEW c, c \in {Dfu!Commands[i], Dfu!Commands[DfuCount + i]}
    PROVE  /\ DfuRegion(c) = DfuRegion(Dfu!Commands[i])
           /\ Dfu!After(c) \in [Dfu!Addresses -> Int]
           /\ \A a \in Dfu!Addresses \ DfuRegion(c) : Dfu!After(c)[a] = dfuFlash[a]
           /\ \A a \in DfuRegion(c) :
                 /\ DfuValue(c, a) = DfuValue(Dfu!Commands[i], a)
                 /\ c.kind = "erase" => Dfu!After(c)[a] = Dfu!FF
                 /\ c.kind # "erase" /\ dfuFlash[a] = Dfu!FF => Dfu!After(c)[a] = DfuValue(c, a)
<1>1. file \in HexFiles
  BY DEF DfuTypes
<1>2. /\ DfuBase(c) = DfuBase(Dfu!Commands[i]) /\ DfuBase(c) \in Nat
      /\ c.section = Dfu!Commands[i].section /\ c.section \in 1..Len(file)
  <2>1. /\ DfuBase(Dfu!Commands[i]) \in Nat
        /\ DfuBase(Dfu!Commands[DfuCount + i]) = DfuBase(Dfu!Commands[i])
    BY <1>1, DfuRegions
  <2>2. /\ Dfu!Commands[DfuCount + i].section = Dfu!Commands[i].section
        /\ Dfu!Commands[i].section \in 1..Len(file)
    BY <1>1, DfuCommands
  <2> QED BY <2>1, <2>2
<1>3. DfuPageSize \in Nat \ {0} /\ Dfu!Addresses \subseteq Int
  BY DfuParameters DEF Dfu!Addresses
<1>4. ASSUME NEW a \in Dfu!Addresses
      PROVE  a \in DfuBase(c)..(DfuBase(c) + DfuPageSize - 1) <=> a \in DfuRegion(c)
  BY <1>2, <1>3 DEF DfuRegion
<1>5. ASSUME NEW a \in Dfu!Addresses
      PROVE  Dfu!After(c)[a] =
                IF a \notin DfuRegion(c) THEN dfuFlash[a]
                ELSE IF c.kind = "erase" THEN Dfu!FF
                ELSE IF DfuValue(c, a) = Dfu!FF THEN dfuFlash[a]
                ELSE IF dfuFlash[a] = Dfu!FF THEN DfuValue(c, a) ELSE Dfu!Damaged
  BY <1>4 DEF Dfu!After, DfuValue, DfuBase
<1>6. ASSUME NEW a \in Dfu!Addresses PROVE DfuValue(c, a) \in Int
  <2>1. sections[c.section].image \in Seq(Int)
    BY <1>1, <1>2, DfuSections
  <2>2. Dfu!FF \in Int
    BY DEF Dfu!FF
  <2> QED BY <2>1, <2>2 DEF DfuValue
<1>7. Dfu!After(c) \in [Dfu!Addresses -> Int]
  <2>1. \A a \in Dfu!Addresses : Dfu!After(c)[a] \in Int
    <3>1. Dfu!FF \in Int /\ Dfu!Damaged \in Int /\ \A a \in Dfu!Addresses : dfuFlash[a] \in Int
      BY DEF Dfu!FF, Dfu!Damaged, DfuTypes
    <3> QED BY <1>5, <1>6, <3>1
  <2>2. Dfu!After(c) = [a \in Dfu!Addresses |-> Dfu!After(c)[a]]
    BY DEF Dfu!After
  <2> QED BY <2>1, <2>2
<1>8. DfuRegion(c) \subseteq Dfu!Addresses /\ DfuRegion(c) = DfuRegion(Dfu!Commands[i])
      /\ \A a : DfuValue(c, a) = DfuValue(Dfu!Commands[i], a)
  BY <1>2 DEF DfuRegion, DfuValue
<1> QED BY <1>5, <1>7, <1>8

LEMMA DfuCommandKeeps ==
    ASSUME Dfu!DfuAssumption, DfuInv, state = "programming", command < Len(Dfu!Commands),
           dfuFlash' = Dfu!After(Dfu!Commands[command + 1]),
           command' = command + 1, UNCHANGED <<file, sections, attempt, state, dfuMode>>
    PROVE  DfuInv'
<1> DEFINE k == command + 1
           c == Dfu!Commands[k]
           R(i) == DfuRegion(Dfu!Commands[i])
<1>1. file \in HexFiles /\ DfuLoaded /\ DfuTypes /\ command \in Nat
  BY DEF DfuInv, DfuProgress, DfuTypes
<1>2. DfuCount \in Nat \ {0} /\ Len(Dfu!Commands) = DfuCount + DfuCount /\ k \in Nat \ {0}
      /\ k <= DfuCount + DfuCount
  BY <1>1, DfuCommands
<1>3. \A i \in 1..DfuCount : i <= command =>
         \A a \in R(i) : dfuFlash[a] = IF command < DfuCount + i THEN Dfu!FF
                                       ELSE DfuValue(Dfu!Commands[i], a)
  BY DEF DfuInv, DfuProgress
<1>4. \A i, j \in 1..DfuCount : i # j => R(i) \cap R(j) = {}
  <2> SUFFICES ASSUME NEW i \in 1..DfuCount, NEW j \in 1..DfuCount, i # j,
                      NEW a \in R(i), a \in R(j)
               PROVE  FALSE
    OBVIOUS
  <2>1. /\ DfuBase(Dfu!Commands[i]) \in Nat /\ DfuBase(Dfu!Commands[j]) \in Nat
        /\ \/ DfuBase(Dfu!Commands[i]) + DfuPageSize <= DfuBase(Dfu!Commands[j])
           \/ DfuBase(Dfu!Commands[j]) + DfuPageSize <= DfuBase(Dfu!Commands[i])
    BY <1>1, DfuRegions
  <2>2. a \in Int /\ DfuPageSize \in Nat
    BY DfuParameters DEF DfuRegion, Dfu!Addresses
  <2> QED BY <2>1, <2>2 DEF DfuRegion
<1>5. ASSUME NEW i \in 1..DfuCount, i <= k, NEW a \in R(i)
      PROVE  /\ dfuFlash'[a] = IF k < DfuCount + i THEN Dfu!FF ELSE DfuValue(Dfu!Commands[i], a)
             /\ dfuFlash' \in [Dfu!Addresses -> Int]
  <2>1. a \in Dfu!Addresses /\ i \in Nat \ {0} /\ i <= DfuCount
    BY <1>2 DEF DfuRegion
  <2>2. CASE k <= DfuCount
    <3>1. k \in 1..DfuCount /\ k < DfuCount + i
      BY <1>2, <2>1, <2>2
    <3>2. c.kind = "erase"
      BY <1>1, <3>1, DfuCommands
    <3>3. /\ dfuFlash' \in [Dfu!Addresses -> Int]
          /\ a \notin R(k) => dfuFlash'[a] = dfuFlash[a]
          /\ a \in R(k) => dfuFlash'[a] = Dfu!FF
      BY <1>1, <2>1, <3>1, <3>2, DfuAfter
    <3>4. CASE i = k
      BY <1>5, <3>1, <3>3, <3>4
    <3>5. CASE i # k
      <4>1. i <= command /\ command < DfuCount + i
        BY <1>1, <1>2, <1>5, <2>1, <2>2, <3>5
      <4>2. dfuFlash[a] = Dfu!FF
        BY <1>3, <4>1
      <4> QED BY <3>1, <3>3, <4>2
    <3> QED BY <3>4, <3>5
  <2>3. CASE ~(k <= DfuCount)
    <3> DEFINE j == k - DfuCount
    <3>1. j \in 1..DfuCount /\ k = DfuCount + j /\ j <= command /\ command < DfuCount + j
          /\ i <= command
      BY <1>1, <1>2, <2>1, <2>3
    <3> HIDE DEF j, k
    <3>2. c.kind # "erase" /\ c = Dfu!Commands[DfuCount + j]
      BY <1>1, <3>1, DfuCommands
    <3>3. /\ dfuFlash' \in [Dfu!Addresses -> Int]
          /\ a \notin R(j) => dfuFlash'[a] = dfuFlash[a]
          /\ a \in R(j) /\ dfuFlash[a] = Dfu!FF =>
                dfuFlash'[a] = DfuValue(Dfu!Commands[j], a)
      <4>1. dfuFlash' = Dfu!After(c)
        BY DEF k
      <4>2. /\ DfuRegion(c) = R(j)
            /\ Dfu!After(c) \in [Dfu!Addresses -> Int]
            /\ \A b \in Dfu!Addresses \ DfuRegion(c) : Dfu!After(c)[b] = dfuFlash[b]
            /\ \A b \in DfuRegion(c) :
                 /\ DfuValue(c, b) = DfuValue(Dfu!Commands[j], b)
                 /\ c.kind # "erase" /\ dfuFlash[b] = Dfu!FF => Dfu!After(c)[b] = DfuValue(c, b)
        BY <1>1, <3>1, <3>2, DfuAfter
      <4> QED BY <2>1, <3>2, <4>1, <4>2
    <3>4. CASE i = j
      <4>1. dfuFlash[a] = Dfu!FF
        BY <1>3, <3>1, <3>4
      <4>2. ~(k < DfuCount + i)
        BY <1>2, <2>1, <3>1, <3>4
      <4> QED BY <3>3, <3>4, <4>1, <4>2
    <3>5. CASE i # j
      <4>1. a \notin R(j)
        BY <1>4, <3>1, <3>5
      <4>2. dfuFlash[a] = IF command < DfuCount + i THEN Dfu!FF ELSE DfuValue(Dfu!Commands[i], a)
        BY <1>3, <3>1
      <4>3. command < DfuCount + i <=> k < DfuCount + i
        <5>1. k # DfuCount + i
          BY <1>2, <2>1, <3>1, <3>5
        <5> QED BY <1>1, <1>2, <2>1, <5>1 DEF k
      <4> QED BY <3>3, <4>1, <4>2, <4>3
    <3> QED BY <3>4, <3>5
  <2> QED BY <2>2, <2>3
<1>6. dfuFlash' \in [Dfu!Addresses -> Int]
  <2>1. CASE k <= DfuCount
    <3>1. k \in 1..DfuCount
      BY <1>2, <2>1
    <3> QED BY <1>1, <3>1, DfuAfter
  <2>2. CASE ~(k <= DfuCount)
    <3>1. PICK j \in 1..DfuCount : k = DfuCount + j
      <4>1. k - DfuCount \in 1..DfuCount /\ k = DfuCount + (k - DfuCount)
        BY <1>2, <2>2
      <4> QED BY <4>1
    <3>2. Dfu!After(c) \in [Dfu!Addresses -> Int]
      <4> HIDE DEF k
      <4> QED BY <1>1, <3>1, DfuAfter
    <3> QED BY <3>2
  <2> QED BY <2>1, <2>2
<1>7. DfuTypes'
  BY <1>1, <1>2, <1>6 DEF DfuTypes
<1>8. DfuProgress'
  <2>1. DfuLoaded'
    BY <1>1 DEF DfuLoaded, Dfu!Section
  <2>2. /\ Dfu!Commands' = Dfu!Commands /\ DfuCount' = DfuCount
        /\ \A d : DfuRegion(d)' = DfuRegion(d)
        /\ \A d, a : DfuValue(d, a)' = DfuValue(d, a)
    BY DfuListStays
  <2>3. state' # "done" /\ command' = k
    OBVIOUS
  <2>4. \A i \in 1..DfuCount : i <= k => \A a \in R(i) :
           dfuFlash'[a] = IF k < DfuCount + i THEN Dfu!FF ELSE DfuValue(Dfu!Commands[i], a)
    BY <1>5
  <2> HIDE DEF k
  <2> QED BY <2>1, <2>2, <2>3, <2>4 DEF DfuProgress
<1> QED BY <1>7, <1>8 DEF DfuInv

LEMMA DfuKeeps ==
    ASSUME Dfu!DfuAssumption PROVE DfuInv /\ [Dfu!DNext]_(Dfu!dvars) => DfuInv'
<1> SUFFICES ASSUME DfuInv, [Dfu!DNext]_(Dfu!dvars) PROVE DfuInv'
  OBVIOUS
<1>1. CASE UNCHANGED Dfu!dvars
  <2>1. UNCHANGED <<file, sections, command, attempt, state, dfuFlash, dfuMode>>
    BY <1>1 DEF Dfu!dvars
  <2>2. DfuTypes'
    BY <2>1 DEF DfuInv, DfuTypes
  <2>3. DfuLoaded' <=> DfuLoaded
    BY <2>1 DEF DfuLoaded, Dfu!Section
  <2>4. /\ Dfu!Commands' = Dfu!Commands /\ DfuCount' = DfuCount
        /\ \A c : DfuRegion(c)' = DfuRegion(c)
        /\ \A c, a : DfuValue(c, a)' = DfuValue(c, a)
    BY <2>1, DfuListStays
  <2> QED BY <2>1, <2>2, <2>3, <2>4 DEF DfuInv, DfuProgress
<1>2. ASSUME NEW answers \in BOOLEAN, Dfu!Start(answers) PROVE DfuInv'
  <2>1. CASE ~answers
    <3>1. state = "start" /\ Dfu!Retry /\ dfuFlash' = dfuFlash
      BY <1>2, <2>1 DEF Dfu!Start
    <3>2. dfuFlash' \in [Dfu!Addresses -> Int]
      BY <3>1 DEF DfuInv, DfuTypes
    <3> QED BY <3>1, <3>2, DfuRetries
  <2>2. CASE answers
    <3>1. /\ state = "start" /\ sections' = [s \in 1..Len(file) |-> Dfu!Section(s)]
          /\ command' = 0 /\ state' = "programming"
          /\ UNCHANGED <<file, attempt, dfuFlash, dfuMode>>
      BY <1>2, <2>2 DEF Dfu!Start
    <3>2. DfuTypes'
      BY <3>1 DEF DfuInv, DfuTypes
    <3>3. DfuLoaded'
      BY <3>1 DEF DfuLoaded, Dfu!Section
    <3>4. \A i \in 1..DfuCount' : ~(i <= command')
      BY <3>1
    <3> QED BY <3>1, <3>2, <3>3, <3>4 DEF DfuInv, DfuProgress
  <2> QED BY <2>1, <2>2
<1>3. ASSUME NEW answers \in BOOLEAN, NEW performed \in BOOLEAN, Dfu!Command(answers, performed)
      PROVE  DfuInv'
  <2>1. /\ state = "programming" /\ command < Len(Dfu!Commands) /\ (answers => performed)
        /\ dfuFlash' = IF performed THEN Dfu!After(Dfu!Commands[command + 1]) ELSE dfuFlash
    BY <1>3 DEF Dfu!Command
  <2>2. CASE ~answers
    <3>1. Dfu!Retry
      BY <1>3, <2>2 DEF Dfu!Command
    <3>2. dfuFlash' \in [Dfu!Addresses -> Int]
      <4>1. file \in HexFiles /\ DfuLoaded /\ DfuTypes /\ command \in Nat
        BY <2>1 DEF DfuInv, DfuProgress, DfuTypes
      <4>2. DfuCount \in Nat \ {0} /\ Len(Dfu!Commands) = DfuCount + DfuCount
        BY <4>1, DfuCommands
      <4>3. \/ command + 1 \in 1..DfuCount
            \/ \E j \in 1..DfuCount : command + 1 = DfuCount + j
        <5>1. CASE command + 1 <= DfuCount
          BY <4>1, <5>1
        <5>2. CASE ~(command + 1 <= DfuCount)
          <6>1. (command + 1) - DfuCount \in 1..DfuCount
                /\ command + 1 = DfuCount + ((command + 1) - DfuCount)
            BY <2>1, <4>1, <4>2, <5>2
          <6> QED BY <6>1
        <5> QED BY <5>1, <5>2
      <4>4. Dfu!After(Dfu!Commands[command + 1]) \in [Dfu!Addresses -> Int]
        BY <4>1, <4>3, DfuAfter
      <4> QED BY <2>1, <4>1, <4>4 DEF DfuTypes
    <3> QED BY <2>1, <3>1, <3>2, DfuRetries
  <2>3. CASE answers
    <3>1. command' = command + 1 /\ UNCHANGED <<file, sections, attempt, state, dfuMode>>
      BY <1>3, <2>3 DEF Dfu!Command
    <3> QED BY <2>1, <2>3, <3>1, DfuCommandKeeps
  <2> QED BY <2>2, <2>3
<1>4. ASSUME NEW answers \in BOOLEAN, NEW restarts \in BOOLEAN, Dfu!Finish(answers, restarts)
      PROVE  DfuInv'
  <2>1. CASE ~answers
    <3>1. state = "programming" /\ Dfu!Retry /\ dfuFlash' = dfuFlash
      BY <1>4, <2>1 DEF Dfu!Finish
    <3>2. dfuFlash' \in [Dfu!Addresses -> Int]
      BY <3>1 DEF DfuInv, DfuTypes
    <3> QED BY <3>1, <3>2, DfuRetries
  <2>2. CASE answers
    <3>1. /\ state = "programming" /\ command = Len(Dfu!Commands) /\ state' = "done"
          /\ dfuMode' \in {"ISB", "DFU"}
          /\ UNCHANGED <<file, sections, command, attempt, dfuFlash>>
      BY <1>4, <2>2 DEF Dfu!Finish
    <3>2. DfuTypes'
      BY <3>1 DEF DfuInv, DfuTypes
    <3>3. DfuLoaded'
      BY <3>1 DEF DfuInv, DfuProgress, DfuLoaded, Dfu!Section
    <3>4. /\ Dfu!Commands' = Dfu!Commands /\ DfuCount' = DfuCount
          /\ \A c : DfuRegion(c)' = DfuRegion(c)
          /\ \A c, a : DfuValue(c, a)' = DfuValue(c, a)
      BY <3>1, DfuListStays
    <3> QED BY <3>1, <3>2, <3>3, <3>4 DEF DfuInv, DfuProgress
  <2> QED BY <2>1, <2>2
<1>5. CASE Dfu!DNext
  BY <1>2, <1>3, <1>4, <1>5, Zenon DEF Dfu!DNext
<1> QED BY <1>1, <1>5

\* When the last command is done every page holds its part of the file, and
\* the pages of a plain section are all of its bytes.
LEMMA DfuAllWritten ==
    ASSUME Dfu!DfuAssumption, DfuInv PROVE Dfu!DTypeOK /\ Dfu!DfuWritten
<1>1. Dfu!DTypeOK
  BY DEF DfuInv, DfuTypes, Dfu!DTypeOK
<1>2. ASSUME dfuMode = "ISB", NEW s \in 1..Len(file), Dfu!Plain(file[s]), NEW at \in file[s]
      PROVE  dfuFlash[(s - 1) * Span + at] = (s - 1) * Span + at
  <2>1. state = "done" /\ file \in HexFiles /\ DfuLoaded /\ command = Len(Dfu!Commands)
    BY <1>2 DEF DfuInv, DfuTypes, DfuProgress
  <2>2. /\ Len(file) \in {1, 2} /\ file[s] \in SUBSET (0..(Span - 1)) /\ file[s] # {}
        /\ sections[s].address = (s - 1) * Span
        /\ Len(sections[s].image) = Dfu!Max(file[s]) - Dfu!Min(file[s]) + 1
        /\ Len(sections[s].image) \in 1..Span
        /\ \A i \in 1..Len(sections[s].image) :
              sections[s].image[i] = IF Dfu!Min(file[s]) + i - 1 \in file[s]
                                     THEN (s - 1) * Span + (Dfu!Min(file[s]) + i - 1) ELSE Dfu!FF
    BY <2>1, DfuSections
  <2> DEFINE lo  == Dfu!Min(file[s])
             hi  == Dfu!Max(file[s])
             len == Len(sections[s].image)
             img == sections[s].image
             n   == DfuPageCount(s)
  <2>3. Span \in Nat \ {0} /\ DfuPageSize \in Nat \ {0}
    BY DfuParameters
  <2>4. /\ lo \in file[s] /\ \A a \in file[s] : lo <= a
        /\ hi \in file[s] /\ \A a \in file[s] : hi >= a
    BY <2>2, <2>3, DfuEnds
  <2>5. lo = 0 /\ hi \in Nat /\ at \in Nat /\ at <= hi /\ at < Span
    <3>1. 0 \in file[s]
      BY <1>2 DEF Dfu!Plain
    <3>2. lo \in 0..(Span - 1) /\ hi \in 0..(Span - 1) /\ at \in 0..(Span - 1)
      BY <2>2, <2>4
    <3> QED BY <2>3, <2>4, <3>1, <3>2
  <2>6. len = hi + 1
    <3>1. len = hi - lo + 1
      BY <2>2
    <3> QED BY <2>5, <3>1
  <2>7. n \in Nat \ {0} /\ n * DfuPageSize >= len - 1 /\ n * DfuPageSize <= Span
    BY <2>2, DfuPages DEF DfuPageCount
  <2>8. at < n * DfuPageSize
    <3>1. n * DfuPageSize \in Nat
      BY <2>3, <2>7
    <3>2. CASE hi = 0
      <4>1. 0 < n
        BY <2>7
      <4>2. 0 * DfuPageSize + DfuPageSize <= n * DfuPageSize
        BY <2>3, <2>7, <4>1, HexPagesApart
      <4> QED BY <2>3, <2>5, <3>1, <3>2, <4>2
    <3>3. CASE hi # 0
      <4>1. hi % DfuPageSize # 0
        BY <1>2, <3>3 DEF Dfu!Plain
      <4>2. hi # n * DfuPageSize
        BY <2>3, <2>7, <4>1, PageWhole
      <4>3. hi <= n * DfuPageSize
        BY <2>5, <2>6, <2>7, <3>1
      <4> QED BY <2>5, <3>1, <4>2, <4>3
    <3> QED BY <3>2, <3>3
  <2>9. PICK q \in Nat : q * DfuPageSize <= at /\ at < q * DfuPageSize + DfuPageSize
    BY <2>3, <2>5, OnePage
  <2>10. q < n
    <3>1. CASE q = n
      BY <2>3, <2>5, <2>7, <2>8, <2>9, <3>1
    <3>2. CASE n < q
      <4>1. n * DfuPageSize + DfuPageSize <= q * DfuPageSize
            /\ n * DfuPageSize \in Nat /\ q * DfuPageSize \in Nat
        BY <2>3, <2>7, <3>2, HexPagesApart
      <4> QED BY <2>3, <2>5, <2>8, <2>9, <4>1
    <3> QED BY <2>7, <3>1, <3>2
  <2>11. PICK i \in 1..DfuCount : Dfu!Commands[i].section = s /\ Dfu!Commands[i].page = q
    BY <2>1, <2>10, DfuCommands
  <2> DEFINE base == (s - 1) * Span
             a == base + at
  <2>12. base \in Nat /\ base + Span <= 2 * Span
    <3>1. s \in {1, 2}
      BY <2>2, OneOrTwo
    <3>2. CASE s = 1
      <4>1. base = 0
        BY <2>3, <3>2
      <4> QED BY <2>3, <4>1
    <3>3. CASE s = 2
      <4>1. base = Span
        BY <2>3, <3>3
      <4> QED BY <2>3, <4>1
    <3> QED BY <3>1, <3>2, <3>3
  <2>13. a \in Dfu!Addresses
    <3> HIDE DEF base
    <3> QED BY <2>3, <2>5, <2>12 DEF Dfu!Addresses
  <2>14. DfuBase(Dfu!Commands[i]) = base + q * DfuPageSize
    BY <2>2, <2>11 DEF DfuBase
  <2>15. a \in DfuRegion(Dfu!Commands[i])
    <3>1. q * DfuPageSize \in Nat
      BY <2>3
    <3> HIDE DEF base
    <3> QED BY <2>3, <2>5, <2>9, <2>12, <2>13, <2>14, <3>1 DEF DfuRegion
  <2>16. dfuFlash[a] = DfuValue(Dfu!Commands[i], a)
    <3>1. DfuCount \in Nat \ {0} /\ command = DfuCount + DfuCount
      BY <2>1, DfuCommands
    <3>2. i <= command /\ ~(command < DfuCount + i)
      BY <3>1
    <3>3. dfuFlash[a] = IF command < DfuCount + i THEN Dfu!FF ELSE DfuValue(Dfu!Commands[i], a)
      BY <2>1, <2>15, <3>2 DEF DfuInv, DfuProgress
    <3> QED BY <3>2, <3>3
  <2>17. (a - base) + 1 \in 1..len /\ (a - base) + 1 = at + 1
    <3> HIDE DEF base
    <3> QED BY <2>5, <2>6, <2>12
  <2>18. DfuValue(Dfu!Commands[i], a) = img[at + 1]
    BY <2>2, <2>11, <2>17 DEF DfuValue
  <2>19. img[at + 1] = base + at
    <3>1. at + 1 \in 1..len /\ lo + (at + 1) - 1 = at
      BY <2>5, <2>17
    <3>2. img[at + 1] = IF lo + (at + 1) - 1 \in file[s]
                        THEN (s - 1) * Span + (lo + (at + 1) - 1) ELSE Dfu!FF
      BY <2>2, <3>1
    <3> QED BY <3>1, <3>2
  <2> QED BY <2>16, <2>18, <2>19
<1>3. Dfu!DfuWritten
  BY <1>2 DEF Dfu!DfuWritten
<1> QED BY <1>1, <1>3

\* cISBootloaderDFU: a device leaves DFU mode only with every byte of its file
\* in its place, whatever attempts failed before, in which command, and whether
\* that command was done, for any files of one or two sections and any pages.
THEOREM DfuFileWritten ==
    ASSUME Dfu!DfuAssumption PROVE Dfu!DSpec => [](Dfu!DTypeOK /\ Dfu!DfuWritten)
<1>1. Dfu!DInit => DfuInv
  BY DfuInits
<1>2. DfuInv => Dfu!DTypeOK /\ Dfu!DfuWritten
  BY DfuAllWritten
<1> QED BY <1>1, <1>2, DfuKeeps, PTL DEF Dfu!DSpec

----------------------------------------------------------------------------
(* DeviceImages, for any releases, any installed bootloaders and any       *)
(* number of pages.                                                        *)

Kinds == {"uINS3", "EVB2", "IMX5"}

ImageTypes ==
    /\ ITypeOK
    /\ kind \in Kinds /\ rom \in BOOLEAN /\ files \in Files
    /\ version \in Nat /\ memory \in [Pages -> SUBSET (Nat \cup {Damaged})]

\* A pass over the bootloader's file has summed up the pages below its offset;
\* it is made for a device in ROM that was erased, with files that do not
\* change meanwhile.
Passing ==
    pc # "idle" =>
        /\ kind # "IMX5" /\ files.bl = Sams /\ application \notin {"U16", "E16"}
        /\ checksum = 1..offset
        /\ IF pc = "page" THEN offset < LoaderPages ELSE offset = LoaderPages

\* Old bootloaders are those of old devices, and old applications theirs.
OldFits == version < FirstTelling => kind # "IMX5" /\ application \in {"U16", "E16", "misplaced", "none"}

ImagesInv == ImageTypes /\ Passing /\ OldFits /\ BootloaderWhole /\ ApplicationFits

\* The application chosen for a device in its bootloader is one for it.
LEMMA AppChosen ==
    ASSUME ImageTypes, Matching(IsbSignatures, AppRole, {files.fw}) # {}
    PROVE  IF version < FirstTelling THEN files.fw \in {"U16", "E16"}
                                     ELSE files.fw = Large[kind]
<1>1. PICK i \in 1..3 : files.fw \in IsbSignatures \cap AppRole[Roles[i]]
  BY DEF Matching, Roles
<1>2. AppRole[Roles[i]] \subseteq {"E16", "E24", "IMX", "U16", "U24"}
  <2>1. i = 1 \/ i = 2 \/ i = 3
    BY <1>1
  <2> QED BY <2>1 DEF Roles, AppRole
<1>3. files.fw \notin Sams \cup {"STM32"}
  BY <1>1, <1>2 DEF Sams
<1>4. files.fw \in IF version < FirstTelling THEN {"E16", "U16"} ELSE {Large[kind]}
  BY <1>1, <1>3 DEF IsbSignatures
<1> QED BY <1>4

\* A sum that is right is that of every page.
LEMMA VerifiedWhole ==
    ASSUME Passing, pc = "verify", Verified
    PROVE  \A p \in Pages : memory[p] = {files.version}
<1>1. checksum = Pages
  BY DEF Passing, Pages
<1> SUFFICES ASSUME NEW p \in Pages PROVE memory[p] = {files.version}
  OBVIOUS
<1>2. <<p, {files.version}>> \in {<<q, memory[q]>> : q \in {r \in Pages : memory[r] # {}}}
  BY <1>1 DEF Verified
<1>3. PICK q \in Pages : <<p, {files.version}>> = <<q, memory[q]>>
  BY <1>2
<1> QED BY <1>3

\* A file with a bootloader has one that tells what it is.
LEMMA LoaderTells ==
    ASSUME ImagesAssumption, files \in Files, files.bl # {}
    PROVE  files.version \in Nat /\ files.version >= FirstTelling
BY DEF ImagesAssumption, FirstTelling

LEMMA ImagesInit == ASSUME ImagesAssumption PROVE IInit => ImagesInv
<1> SUFFICES ASSUME IInit PROVE ImagesInv
  OBVIOUS
<1>1. ImageTypes
  <2>1. version \in Nat /\ files \in Files /\ kind \in Kinds /\ rom \in BOOLEAN
    BY DEF ImagesAssumption, IInit, Kinds
  <2>2. memory \in [Pages -> SUBSET (Nat \cup {Damaged})]
    BY <2>1 DEF IInit
  <2>3. offset \in 0..LoaderPages
    BY DEF ImagesAssumption, IInit
  <2>4. ITypeOK
    BY <2>3 DEF IInit, ITypeOK
  <2> QED BY <2>1, <2>2, <2>4 DEF ImageTypes
<1>2. OldFits
  <2>1. ASSUME version < FirstTelling
        PROVE  kind \in {"uINS3", "EVB2"} /\ application = Small[kind]
    BY <1>1, <2>1 DEF IInit, Fitting, FirstTelling, ImageTypes
  <2> QED BY <2>1 DEF OldFits, Small
<1>3. Passing /\ BootloaderWhole /\ ApplicationFits
  BY DEF IInit, Passing, BootloaderWhole, ApplicationFits
<1> QED BY <1>1, <1>2, <1>3 DEF ImagesInv

\* Modes change by commands to a device at rest; what is in it stays.
LEMMA ModesKeep ==
    ASSUME ImagesAssumption, ImagesInv, ModeApp \/ ModeIsb \/ Restart \/ Again
    PROVE  ImagesInv'
<1> USE DEF ImagesInv
<1>1. /\ UNCHANGED <<kind, rom, version, application, memory>> /\ pc' = "idle"
      /\ runs # "ROM" \/ runs' = runs
      /\ runs' \in {"APP", "ISB", "ROM"} /\ files' \in Files
      /\ checksum' \subseteq Pages /\ offset' \in 0..LoaderPages
  BY DEF ModeApp, ModeIsb, Restart, Again, device, host, samba, ImageTypes, ITypeOK,
         ImagesAssumption
<1>2. ImageTypes'
  BY <1>1 DEF ImageTypes, ITypeOK
<1> QED BY <1>1, <1>2 DEF Passing, OldFits, BootloaderWhole, ApplicationFits, Fitting

LEMMA WriteDfuKeeps ==
    ASSUME ImagesAssumption, ImagesInv, WriteDfu PROVE ImagesInv'
<1> USE DEF ImagesInv
<1>1. /\ runs' = "ISB" /\ version' = files.version /\ kind = "IMX5"
      /\ memory' = [p \in Pages |-> {files.version}]
      /\ UNCHANGED <<kind, rom, application, files, force, pc, isUSB, offset, checksum>>
  BY DEF WriteDfu, device, host, samba
<1>2. pc = "idle"
  BY <1>1 DEF Passing
<1>3. files.version \in Nat /\ files.version >= FirstTelling
  BY LoaderTells DEF WriteDfu, ImageTypes
<1>4. ImageTypes'
  BY <1>1, <1>2, <1>3 DEF ImageTypes, ITypeOK
<1>5. version >= FirstTelling
  BY <1>1 DEF OldFits, ImageTypes, FirstTelling
<1>6. Fitting' = Fitting
  BY <1>1, <1>3, <1>5 DEF Fitting, FirstTelling, ImageTypes
<1> QED BY <1>1, <1>2, <1>3, <1>4, <1>5, <1>6
        DEF Passing, OldFits, BootloaderWhole, ApplicationFits, FirstTelling

LEMMA WriteAppKeeps ==
    ASSUME ImagesInv, NEW left \in {files.fw, "misplaced", "none"}, WriteApp(left)
    PROVE  ImagesInv'
<1> USE DEF ImagesInv
<1>1. /\ pc = "idle" /\ application' = left
      /\ UNCHANGED <<kind, rom, runs, version, memory, files, force, pc, isUSB, offset, checksum>>
      /\ Matching(IsbSignatures, AppRole, {files.fw}) # {}
  BY DEF WriteApp, device, host, samba
<1>2. IF version < FirstTelling THEN files.fw \in {"U16", "E16"} ELSE files.fw = Large[kind]
  BY <1>1, AppChosen
<1>3. version >= FirstTelling <=> ~(version < FirstTelling)
  BY DEF ImageTypes, FirstTelling
<1>4. OldFits' /\ ApplicationFits'
  BY <1>1, <1>2, <1>3 DEF OldFits, ApplicationFits, Fitting
<1> QED BY <1>1, <1>4 DEF ImageTypes, ITypeOK, Passing, BootloaderWhole

\* The beginning of a pass, or the end of the last one.
LEMMA NextPassPasses ==
    ASSUME ImagesAssumption, ImagesInv, pc # "idle", NextPass \/ Pass(FALSE),
           UNCHANGED <<kind, files, application>>
    PROVE  /\ Passing' /\ pc' \in {"idle", "page", "verify"}
           /\ checksum' \subseteq Pages /\ offset' \in 0..LoaderPages
<1>1. CASE pc' = "page" /\ offset' = 0 /\ checksum' = {}
  <2>1. 1..0 = {}
    OBVIOUS
  <2> QED BY <1>1, <2>1 DEF ImagesAssumption, ImagesInv, Passing
<1>2. CASE pc' = "idle" /\ UNCHANGED <<offset, checksum>>
  BY <1>2 DEF ImagesInv, ImageTypes, ITypeOK, Passing
<1> QED BY <1>1, <1>2 DEF NextPass, Pass

LEMMA SambaEraseKeeps ==
    ASSUME ImagesAssumption, ImagesInv,
           NEW lost \in SUBSET Pages, NEW ready \in BOOLEAN, SambaErase(lost, ready)
    PROVE  ImagesInv'
<1> USE DEF ImagesInv
<1>1. /\ pc = "idle" /\ runs = "ROM" /\ runs' = "ROM" /\ kind # "IMX5" /\ files.bl = Sams
      /\ UNCHANGED <<kind, rom, version, files, force>>
      /\ application' = IF application \in {"U16", "E16"} THEN "none" ELSE application
      /\ memory' = [p \in Pages |-> IF p \in lost THEN memory[p] ELSE {}]
  BY DEF SambaErase, device, host
<1>2. /\ Passing' /\ pc' \in {"idle", "page", "verify"}
      /\ checksum' \subseteq Pages /\ offset' \in 0..LoaderPages
  <2>1. CASE ready
    <3>1. pc' = "page" /\ offset' = 0 /\ checksum' = {}
      BY <2>1 DEF SambaErase, Pass
    <3> QED BY <1>1, <3>1 DEF Passing, ImagesAssumption
  <2>2. CASE ~ready
    BY <1>1, <2>2 DEF SambaErase, samba, Passing, ImageTypes, ITypeOK
  <2> QED BY <2>1, <2>2
<1>3. memory' \in [Pages -> SUBSET (Nat \cup {Damaged})]
  BY <1>1 DEF ImageTypes
<1>4. ImageTypes'
  BY <1>1, <1>2, <1>3 DEF ImageTypes, ITypeOK
<1>5. OldFits' /\ ApplicationFits'
  BY <1>1 DEF OldFits, ApplicationFits, Fitting
<1> QED BY <1>1, <1>2, <1>4, <1>5 DEF BootloaderWhole

LEMMA PageKeeps ==
    ASSUME ImagesAssumption, ImagesInv,
           \/ PageRefused
           \/ \E whole, written, ready \in BOOLEAN : Page(whole, written, ready)
    PROVE  ImagesInv'
<1> USE DEF ImagesInv
<1>1. /\ pc = "page" /\ runs = "ROM"
      /\ UNCHANGED <<kind, rom, runs, version, application, files, force>>
  BY DEF PageRefused, Page, device, host, ImageTypes, ITypeOK
<1>2. memory' \in [Pages -> SUBSET (Nat \cup {Damaged})]
  <2>1. files.version \in Nat
    BY DEF ImageTypes, ImagesAssumption
  <2>2. {IF whole THEN files.version ELSE Damaged : whole \in BOOLEAN} \subseteq Nat \cup {Damaged}
    BY <2>1
  <2> QED BY <2>1 DEF PageRefused, Page, ImageTypes
<1>3. /\ Passing' /\ pc' \in {"idle", "page", "verify"}
      /\ checksum' \subseteq Pages /\ offset' \in 0..LoaderPages
  <2>1. CASE NextPass
    BY <1>1, <2>1, NextPassPasses
  <2>2. CASE /\ checksum' = checksum \cup {offset + 1} /\ offset' = offset + 1
             /\ pc' = IF offset + 1 = LoaderPages THEN "verify" ELSE "page"
    <3>1. offset \in Nat /\ LoaderPages \in Nat /\ offset < LoaderPages
      BY <1>1 DEF ImageTypes, ITypeOK, Passing, ImagesAssumption
    <3>2. 1..(offset + 1) = (1..offset) \cup {offset + 1}
      BY <3>1
    <3>3. checksum' = 1..offset'
      BY <1>1, <2>2, <3>2 DEF Passing
    <3>4. offset + 1 \in 0..LoaderPages /\ 1..(offset + 1) \subseteq Pages
      BY <3>1 DEF Pages
    <3> QED BY <1>1, <2>2, <3>1, <3>3, <3>4 DEF Passing
  <2> QED BY <2>1, <2>2 DEF PageRefused, Page
<1>4. ImageTypes'
  BY <1>1, <1>2, <1>3 DEF ImageTypes, ITypeOK
<1> QED BY <1>1, <1>3, <1>4 DEF OldFits, BootloaderWhole, ApplicationFits, Fitting

LEMMA VerifyKeeps ==
    ASSUME ImagesAssumption, ImagesInv,
           NEW reads \in BOOLEAN, NEW restarts \in BOOLEAN, Verify(reads, restarts)
    PROVE  ImagesInv'
<1> USE DEF ImagesInv
<1>1. /\ pc = "verify" /\ pc' = "idle" /\ runs = "ROM"
      /\ UNCHANGED <<kind, rom, application, memory, files, force, isUSB, offset, checksum>>
  BY DEF Verify, device, host, ImageTypes, ITypeOK
<1>2. CASE reads /\ Verified /\ restarts
  <2>1. runs' = "ISB" /\ version' = files.version
    BY <1>2 DEF Verify
  <2>2. \A p \in Pages : memory[p] = {files.version}
    BY <1>1, <1>2, VerifiedWhole
  <2>3. files.version \in Nat /\ files.version >= FirstTelling
    BY <1>1, LoaderTells DEF Passing, Sams, ImageTypes
  <2>4. ImageTypes' /\ BootloaderWhole' /\ OldFits' /\ Passing'
    BY <1>1, <2>1, <2>2, <2>3
       DEF ImageTypes, ITypeOK, BootloaderWhole, OldFits, Passing, FirstTelling
  <2>5. Fitting' = Large[kind]
    BY <1>1, <2>1, <2>3 DEF Fitting, FirstTelling
  <2>6. application \in {Large[kind], "misplaced", "none"}
    <3>1. CASE version < FirstTelling
      BY <1>1, <3>1 DEF OldFits, Passing
    <3>2. CASE ~(version < FirstTelling)
      BY <3>2 DEF ApplicationFits, Fitting, ImageTypes, FirstTelling
    <3> QED BY <3>1, <3>2
  <2>7. ApplicationFits'
    BY <1>1, <2>5, <2>6 DEF ApplicationFits
  <2> QED BY <2>4, <2>7
<1>3. CASE ~(reads /\ Verified /\ restarts)
  BY <1>1, <1>3 DEF Verify, ImageTypes, ITypeOK, Passing, OldFits, BootloaderWhole,
                    ApplicationFits, Fitting
<1> QED BY <1>2, <1>3

LEMMA ImagesStep ==
    ASSUME ImagesAssumption PROVE ImagesInv /\ [INext]_ivars => ImagesInv'
<1> SUFFICES ASSUME ImagesInv, [INext]_ivars PROVE ImagesInv'
  OBVIOUS
<1>1. CASE UNCHANGED ivars
  BY <1>1 DEF ivars, device, host, samba, ImagesInv, ImageTypes, ITypeOK, Passing,
              OldFits, BootloaderWhole, ApplicationFits, Fitting
<1> QED BY <1>1, ModesKeep, WriteDfuKeeps, WriteAppKeeps, SambaEraseKeeps, PageKeeps,
           VerifyKeeps DEF INext

\* What the device holds, what the host has sent of its image and which page
\* comes next agree in every state, killed updates and lost commands included.
THEOREM ImagesInvariant == ASSUME ImagesAssumption PROVE ISpec => []ImagesInv
<1>1. IInit => ImagesInv
  BY ImagesInit
<1>2. ImagesInv /\ [INext]_ivars => ImagesInv'
  BY ImagesStep
<1> QED BY <1>1, <1>2, PTL DEF ISpec

\* Over any number of updates, each of which may be killed and lose any of its
\* commands, a device that is not in ROM starts a bootloader that is whole, and
\* once its bootloader tells what it is, it has no application that was built
\* for another device.
THEOREM ImagesAreSafe == ASSUME ImagesAssumption PROVE ISpec => []ImagesSafe
<1>1. ImagesInv => ImagesSafe
  BY DEF ImagesInv, ImageTypes, ImagesSafe
<1> QED BY <1>1, ImagesInvariant, PTL

----------------------------------------------------------------------------
(***************************************************************************)
(* FirmwareUpdate, for any number of ports and threads.  All but one of    *)
(* the update threads at a port have left it to another.  The one that has *)
(* not keeps the port once it is done with it, so that nobody erases an    *)
(* application that was written (FinishedWritten) and a thread that keeps  *)
(* a port leaves no device erased (KeptWritten), but for a port that did   *)
(* not open.                                                               *)
(***************************************************************************)
Indices == 1..Len(threads)
Steps == {"start", "using", "writing", "closing", "done"}
ThreadRecord == [port : Ports, kind : Spawning, pc : Steps, reuse : BOOLEAN, listed : BOOLEAN]
EarlyPhases == {"app", "joinApp", "version", "joinVersion", "isb", "joinIsb", "start"}

Updates(i) == threads[i].kind = "update"
Leaves(i) == Done(i) /\ threads[i].reuse
Keeps(i) == threads[i].pc \in {"closing", "done"} /\ ~threads[i].reuse

Typed ==
    /\ UTypeOK
    /\ threads \in Seq(ThreadRecord)
    /\ mode \in [Ports -> {"APP", "ISB", "ROM"}] /\ app \in [Ports -> {"old", "none", "new"}]
    /\ missed \subseteq Ports /\ cancelled \in BOOLEAN
    /\ mgmt \in {"none", "start", "loop", "ended"} /\ usb \in {"absent", "present", "running", "done"}
    /\ ending \in {"", "idle", "timeout", "cancel"}

\* The phases pass once, and update threads start in the last of them.
PhasesPass ==
    /\ ending # "" => phase \in {"stop", "reset", "idle"}
    /\ phase \in {"stop", "reset"} => ending # ""
    /\ phase \in EarlyPhases \/ (phase = "idle" /\ ending = "") => \A i \in Indices : ~Updates(i)

OneKeeps ==
    \A i, j \in Indices :
        i # j /\ Updates(i) /\ Updates(j) /\ threads[i].port = threads[j].port => Leaves(i) \/ Leaves(j)

\* What is listed: every update thread; of the others only those that leave
\* their port, once the version threads are joined.  Only update threads write.
ListsKept ==
    \A i \in Indices :
        /\ Updates(i) => threads[i].listed
        /\ threads[i].listed /\ threads[i].kind \in {"app", "version"} =>
                phase \in {"app", "joinApp", "version", "joinVersion"}
        /\ threads[i].kind = "isb" => ~Keeps(i)
        /\ threads[i].pc = "writing" => Updates(i)

FinishedWritten ==
    \A p \in finished :
        app[p] = "new" /\ \E i \in Indices : Updates(i) /\ threads[i].port = p /\ Keeps(i)
KeptWritten ==
    \A i \in Indices : Updates(i) /\ Keeps(i) =>
        app[threads[i].port] # "none" \/ threads[i].port \in missed
AppRuns == \A p \in Ports : mode[p] = "APP" => app[p] # "none"
UsbCounted == usb = "running" => usbActive = 1

\* After an update that ended by itself nothing goes on.
EndedIdle ==
    ending = "idle" =>
        /\ AllDone /\ \A i \in Indices : Updates(i) => Done(i)
        /\ usb # "running" /\ mgmt # "start"
        /\ \A p \in Ports : app[p] = "none" => p \in missed

WrittenInv == FinishedWritten /\ KeptWritten /\ AppRuns
UpdateInv ==
    Typed /\ PhasesPass /\ OneKeeps /\ ListsKept /\ WrittenInv /\ UsbCounted /\ EndedIdle

\* A step of a thread at a serial port.
Moves(i, target, reuse) ==
    /\ Step(i, target, reuse) /\ threads[i].pc # "done"
    /\ target \in Steps /\ reuse \in BOOLEAN
    /\ UNCHANGED <<phase, mgmt, usb, usbActive, continue, cancelled, ending, started>>

LEMMA ThreadsAreRecords ==
    ASSUME Typed
    PROVE  threads \in Seq(ThreadRecord) /\ \A i \in Indices : threads[i] \in ThreadRecord
<1>1. threads \in Seq(ThreadRecord)
    BY DEF Typed
<1> QED BY <1>1 DEF Indices

Stepped(i, target, reuse) ==
    /\ Len(threads') = Len(threads) /\ \A j \in Indices : j # i => threads'[j] = threads[j]
    /\ threads'[i].port = threads[i].port /\ threads'[i].kind = threads[i].kind
    /\ threads'[i].listed = threads[i].listed
    /\ threads'[i].pc = target /\ threads'[i].reuse = reuse

LEMMA StepWrites ==
    ASSUME Typed, NEW i \in Indices, NEW target \in Steps, NEW reuse \in BOOLEAN, Step(i, target, reuse)
    PROVE  threads' \in Seq(ThreadRecord) /\ Stepped(i, target, reuse)
<1> DEFINE t == [threads[i] EXCEPT !.pc = target, !.reuse = reuse]
<1>1. threads \in Seq(ThreadRecord) /\ threads[i] \in ThreadRecord
    BY ThreadsAreRecords
<1>2. /\ t \in ThreadRecord /\ t.port = threads[i].port /\ t.kind = threads[i].kind
      /\ t.listed = threads[i].listed /\ t.pc = target /\ t.reuse = reuse
    BY <1>1 DEF ThreadRecord
<1>3. threads' = [threads EXCEPT ![i] = t]
    BY <1>1 DEF Step, ThreadRecord
<1> HIDE DEF t
<1>4. threads' \in Seq(ThreadRecord) /\ Len(threads') = Len(threads)
    BY <1>1, <1>2, <1>3 DEF Indices
<1>5. threads'[i] = t /\ \A j \in Indices : j # i => threads'[j] = threads[j]
    BY <1>1, <1>3 DEF Indices
<1> QED BY <1>2, <1>4, <1>5 DEF t, Stepped

\* What each kind of step of a thread changes beside the thread.
LEMMA ThreadMoves ==
    ASSUME UpdateInv, NEW i \in Indices, Thread(i)
    PROVE  \E target \in Steps, reuse \in BOOLEAN :
             /\ Moves(i, target, reuse)
             /\ threads[i].kind = "isb" /\ target \in {"closing", "done"} => reuse
             /\ \/ OpenPort(i) \/ SetMode(i) \/ Identify(i) \/ ClosePort(i)
                \/ \E works \in BOOLEAN : Write(i, works)
<1>1. threads[i] \in ThreadRecord
    BY ThreadsAreRecords DEF UpdateInv
<1>2. CASE OpenPort(i)
  <2>1. CASE Step(i, "using", FALSE)
    BY <1>2, <2>1 DEF OpenPort, Moves, Steps
  <2>2. CASE Step(i, "done", threads[i].kind # "update")
    BY <1>2, <2>2 DEF OpenPort, Moves, Steps
  <2> QED BY <1>2, <2>1, <2>2 DEF OpenPort
<1>3. CASE SetMode(i)
    BY <1>3 DEF SetMode, Moves, Steps
<1>4. CASE Identify(i)
    BY <1>4 DEF Identify, Moves, Steps
<1>5. CASE ClosePort(i)
  <2>1. threads[i].reuse \in BOOLEAN /\ threads[i].pc = "closing"
    BY <1>1, <1>5 DEF ThreadRecord, ClosePort
  <2>2. threads[i].kind = "isb" => threads[i].reuse
    BY <2>1 DEF UpdateInv, ListsKept, Keeps
  <2> QED BY <1>5, <2>1, <2>2 DEF ClosePort, Moves, Steps
<1>6. CASE \E works \in BOOLEAN : Write(i, works)
  <2>1. PICK works \in BOOLEAN : Write(i, works)
    BY <1>6
  <2> DEFINE reuse == ~(works /\ mode[threads[i].port] = "ISB")
  <2>2. Step(i, "closing", reuse) /\ reuse \in BOOLEAN /\ threads[i].pc = "writing"
    BY <2>1 DEF Write
  <2>3. UNCHANGED <<phase, mgmt, usb, usbActive, continue, cancelled, ending, started>>
    BY <2>1 DEF Write
  <2>4. threads[i].kind # "isb"
    BY <2>2 DEF UpdateInv, ListsKept, Updates
  <2> HIDE DEF reuse
  <2>5. Moves(i, "closing", reuse)
    BY <2>2, <2>3 DEF Moves, Steps
  <2> QED BY <1>6, <2>2, <2>4, <2>5 DEF Steps
<1> QED BY <1>2, <1>3, <1>4, <1>5, <1>6 DEF Thread

\* While a thread is at work at a port no other one keeps it.
LEMMA NobodyElseKeeps ==
    ASSUME UpdateInv, NEW i \in Indices, Updates(i), threads[i].pc \in {"start", "using", "writing"},
           NEW j \in Indices, Updates(j), threads[j].port = threads[i].port
    PROVE  ~Keeps(j)
<1>1. CASE j = i
    BY <1>1 DEF Keeps
<1>2. CASE j # i
  <2>1. Leaves(i) \/ Leaves(j)
    BY <1>2 DEF UpdateInv, OneKeeps
  <2> QED BY <2>1 DEF Leaves, Done, Keeps
<1> QED BY <1>1, <1>2

LEMMA ThreadTypes ==
    ASSUME UpdateInv, NEW i \in Indices, Thread(i)
    PROVE  Typed'
<1>1. PICK target \in Steps, reuse \in BOOLEAN : Moves(i, target, reuse)
    BY ThreadMoves
<1>2. threads' \in Seq(ThreadRecord)
    BY <1>1, StepWrites DEF Moves, UpdateInv
<1>3. threads[i].port \in Ports
    BY ThreadsAreRecords DEF UpdateInv, ThreadRecord
<1>4. /\ mode' \in [Ports -> {"APP", "ISB", "ROM"}] /\ app' \in [Ports -> {"old", "none", "new"}]
      /\ finished' \subseteq Ports /\ missed' \subseteq Ports
  <2> USE <1>3 DEF UpdateInv, Typed, UTypeOK
  <2>1. CASE OpenPort(i)
    BY <2>1 DEF OpenPort
  <2>2. CASE SetMode(i)
    BY <2>2 DEF SetMode
  <2>3. CASE Identify(i)
    BY <2>3 DEF Identify
  <2>4. CASE ClosePort(i)
    BY <2>4 DEF ClosePort
  <2>5. ASSUME NEW works \in BOOLEAN, Write(i, works) 
        PROVE  /\ mode' \in [Ports -> {"APP", "ISB", "ROM"}]
               /\ app' \in [Ports -> {"old", "none", "new"}]
               /\ finished' \subseteq Ports /\ missed' \subseteq Ports
    BY <2>5 DEF Write
  <2> QED BY <2>1, <2>2, <2>3, <2>4, <2>5 DEF Thread
<1> QED BY <1>1, <1>2, <1>4 DEF Moves, UpdateInv, Typed, UTypeOK, ThreadRecord, Spawning, Steps

LEMMA ThreadLists ==
    ASSUME UpdateInv, NEW i \in Indices, Thread(i)
    PROVE  PhasesPass' /\ OneKeeps' /\ ListsKept'
<1>1. PICK target \in Steps, reuse \in BOOLEAN :
        /\ Moves(i, target, reuse)
        /\ threads[i].kind = "isb" /\ target \in {"closing", "done"} => reuse
        /\ \/ OpenPort(i) \/ SetMode(i) \/ Identify(i) \/ ClosePort(i)
           \/ \E works \in BOOLEAN : Write(i, works)
    BY ThreadMoves
<1>2. /\ Len(threads') = Len(threads)
      /\ \A j \in Indices : j # i => threads'[j] = threads[j]
      /\ threads'[i].port = threads[i].port /\ threads'[i].kind = threads[i].kind
      /\ threads'[i].listed = threads[i].listed
      /\ threads'[i].pc = target /\ threads'[i].reuse = reuse
  <2>1. Typed /\ Step(i, target, reuse)
    BY <1>1, Zenon DEF Moves, UpdateInv
  <2>2. Stepped(i, target, reuse)
    BY <2>1, StepWrites
  <2> QED BY <2>2 DEF Stepped
<1>3. Indices' = Indices
    BY <1>2 DEF Indices
<1>4. phase' = phase /\ ending' = ending /\ threads[i].pc # "done"
    BY <1>1 DEF Moves
<1>5. \A j \in Indices : /\ threads'[j].kind = threads[j].kind /\ threads'[j].port = threads[j].port
                         /\ threads'[j].listed = threads[j].listed
    BY <1>2
<1>6. PhasesPass'
    BY <1>3, <1>4, <1>5 DEF UpdateInv, PhasesPass, Updates
<1>7. OneKeeps'
  <2>1. \A j \in Indices : Leaves(j) => j # i /\ Leaves(j)'
    BY <1>2, <1>4 DEF Leaves, Done
  <2>2. \A j, k \in Indices : j # k /\ Updates(j)' /\ Updates(k)' /\ threads'[j].port = threads'[k].port
            => Leaves(j)' \/ Leaves(k)'
    BY <1>5, <2>1 DEF UpdateInv, OneKeeps, Updates
  <2> QED BY <1>3, <2>2 DEF OneKeeps
<1>8. ListsKept'
  <2>1. target = "writing" => Updates(i)
    <3>1. CASE Identify(i)
        BY <3>1 DEF Identify, Updates
    <3>2. CASE OpenPort(i) \/ SetMode(i) \/ ClosePort(i) \/ \E works \in BOOLEAN : Write(i, works)
      <4>1. threads'[i].pc \in {"using", "closing", "done"}
        <5> USE DEF UpdateInv
        <5>1. CASE OpenPort(i)
            BY <5>1, StepWrites DEF OpenPort, Steps, Stepped
        <5>2. CASE SetMode(i)
            BY <5>2, StepWrites DEF SetMode, Steps, Stepped
        <5>3. CASE ClosePort(i)
          <6>1. threads[i].reuse \in BOOLEAN
            BY ThreadsAreRecords DEF ThreadRecord
          <6> QED BY <5>3, <6>1, StepWrites DEF ClosePort, Steps, Stepped
        <5>4. CASE \E works \in BOOLEAN : Write(i, works)
            BY <5>4, StepWrites DEF Write, Steps, Stepped
        <5> QED BY <3>2, <5>1, <5>2, <5>3, <5>4
      <4> QED BY <1>2, <4>1
    <3> QED BY <1>1, <3>1, <3>2
  <2>2. \A j \in Indices :
        /\ Updates(j)' => threads'[j].listed
        /\ threads'[j].listed /\ threads'[j].kind \in {"app", "version"} =>
                phase \in {"app", "joinApp", "version", "joinVersion"}
    BY <1>5 DEF UpdateInv, ListsKept, Updates
  <2>3. \A j \in Indices :
        /\ threads'[j].kind = "isb" => ~Keeps(j)'
        /\ threads'[j].pc = "writing" => Updates(j)'
    BY <1>1, <1>2, <2>1 DEF UpdateInv, ListsKept, Updates, Keeps
  <2> QED BY <1>3, <1>4, <2>2, <2>3 DEF ListsKept
<1> QED BY <1>6, <1>7, <1>8

\* The threads keep what they have of a port but for thread i.
LEMMA OthersStay ==
    ASSUME UpdateInv, NEW i \in Indices, NEW target \in Steps, NEW reuse \in BOOLEAN, Step(i, target, reuse)
    PROVE  /\ Indices' = Indices
           /\ \A j \in Indices :
                /\ Updates(j)' = Updates(j) /\ threads'[j].port = threads[j].port
                /\ j # i => Keeps(j)' = Keeps(j) /\ Done(j)' = Done(j)
           /\ Keeps(i)' <=> target \in {"closing", "done"} /\ ~reuse
<1>1. Stepped(i, target, reuse)
    BY StepWrites DEF UpdateInv
<1> QED BY <1>1 DEF Stepped, Indices, Updates, Keeps, Done

\* A thread that erases or writes works at a port that no other one keeps; a
\* thread that keeps a port has found or left an application on its device.
LEMMA ThreadWritten ==
    ASSUME UpdateInv, NEW i \in Indices, Thread(i)
    PROVE  WrittenInv'
<1> DEFINE p == threads[i].port
<1>1. /\ p \in Ports /\ threads[i].reuse \in BOOLEAN
      /\ mode \in [Ports -> {"APP", "ISB", "ROM"}] /\ app \in [Ports -> {"old", "none", "new"}]
      /\ finished \subseteq Ports
    BY ThreadsAreRecords DEF UpdateInv, ThreadRecord, Typed, UTypeOK
<1>2. FinishedWritten /\ KeptWritten /\ AppRuns
    BY DEF UpdateInv, WrittenInv
<1>3. \A j \in Indices : threads[j].port \in Ports
    BY ThreadsAreRecords DEF UpdateInv, ThreadRecord
<1>4. CASE OpenPort(i)
  <2>1. PICK target \in {"using", "done"}, reuse \in BOOLEAN :
            /\ Step(i, target, reuse)
            /\ target = "done" /\ Updates(i) => p \in missed'
            /\ missed \subseteq missed'
    <3>1. CASE Step(i, "using", FALSE) /\ UNCHANGED missed
        BY <3>1
    <3>2. CASE /\ Step(i, "done", threads[i].kind # "update")
               /\ missed' = IF threads[i].kind = "update" THEN missed \cup {p} ELSE missed
        BY <3>2 DEF Updates
    <3> QED BY <1>4, <3>1, <3>2 DEF OpenPort
  <2>2. target \in Steps
    BY <2>1 DEF Steps
  <2>3. /\ Indices' = Indices
        /\ \A j \in Indices :
            /\ Updates(j)' = Updates(j) /\ threads'[j].port = threads[j].port
            /\ j # i => Keeps(j)' = Keeps(j) /\ Done(j)' = Done(j)
        /\ Keeps(i)' <=> target \in {"closing", "done"} /\ ~reuse
    BY <2>1, <2>2, OthersStay
  <2>4. app' = app /\ mode' = mode /\ finished' = finished /\ ~Keeps(i)
    BY <1>4 DEF OpenPort, Keeps
  <2>5. FinishedWritten'
    BY <1>2, <2>3, <2>4 DEF FinishedWritten
  <2>6. KeptWritten'
    BY <1>2, <2>1, <2>3, <2>4 DEF KeptWritten
  <2> QED BY <1>2, <2>4, <2>5, <2>6 DEF WrittenInv, AppRuns
<1>5. CASE SetMode(i)
  <2>1. PICK reuse \in BOOLEAN : Step(i, "closing", reuse)
    BY <1>5 DEF SetMode
  <2>2. /\ Indices' = Indices
        /\ \A j \in Indices :
            /\ Updates(j)' = Updates(j) /\ threads'[j].port = threads[j].port
            /\ j # i => Keeps(j)' = Keeps(j)
    BY <2>1, OthersStay DEF Steps
  <2>3. app' = app /\ finished' = finished /\ missed' = missed /\ ~Updates(i) /\ ~Keeps(i)
    BY <1>5 DEF SetMode, Updates, Keeps
  <2>4. \A q \in Ports : mode'[q] = "APP" => mode[q] = "APP"
    BY <1>1, <1>5 DEF SetMode
  <2>5. FinishedWritten'
    BY <1>2, <2>2, <2>3 DEF FinishedWritten
  <2>6. KeptWritten'
    BY <1>2, <2>2, <2>3 DEF KeptWritten
  <2> QED BY <1>2, <2>3, <2>4, <2>5, <2>6 DEF WrittenInv, AppRuns
<1>6. CASE Identify(i)
  <2>1. Updates(i) /\ threads[i].pc = "using" /\ mode' = mode /\ finished' = finished
    BY <1>6 DEF Identify, Updates
  <2>2. PICK target \in {"closing", "writing"} :
            Step(i, target, FALSE) /\ (target = "closing" => mode[p] = "APP" \/ p \in missed')
    <3>1. CASE Step(i, "writing", FALSE)
        BY <3>1
    <3>2. CASE /\ Step(i, "closing", FALSE)
               /\ missed' = IF mode[p] = "APP" THEN missed ELSE missed \cup {p}
        BY <3>2
    <3> QED BY <1>6, <3>1, <3>2 DEF Identify
  <2>3. /\ Indices' = Indices
        /\ \A j \in Indices :
            /\ Updates(j)' = Updates(j) /\ threads'[j].port = threads[j].port
            /\ j # i => Keeps(j)' = Keeps(j)
        /\ Keeps(i)' <=> target = "closing"
    <3>1. target \in Steps
        BY <2>2 DEF Steps
    <3> QED BY <2>2, <3>1, OthersStay
  <2>4. \A j \in Indices : Updates(j) /\ Keeps(j) => threads[j].port # p
    BY <2>1, NobodyElseKeeps
  <2>5. \A q \in Ports : q # p => app'[q] = app[q]
    BY <1>1, <1>6 DEF Identify
  <2>6. (mode[p] = "APP" => app'[p] = app[p]) /\ missed \subseteq missed'
    BY <1>1, <1>6 DEF Identify
  <2>7. FinishedWritten'
    <3>1. \A q \in finished : q # p
        BY <1>2, <2>4 DEF FinishedWritten
    <3>2. ~Keeps(i)
        BY <2>1 DEF Keeps
    <3> QED BY <1>1, <1>2, <2>1, <2>3, <2>5, <3>1, <3>2 DEF FinishedWritten
  <2>8. KeptWritten'
    <3>1. \A j \in Indices : j # i /\ Updates(j) /\ Keeps(j) =>
            app'[threads[j].port] # "none" \/ threads[j].port \in missed
        BY <1>2, <1>3, <2>4, <2>5 DEF KeptWritten
    <3>2. Keeps(i)' => app'[p] # "none" \/ p \in missed'
        BY <1>1, <1>2, <2>2, <2>3, <2>6 DEF AppRuns
    <3> QED BY <2>1, <2>3, <2>6, <3>1, <3>2 DEF KeptWritten
  <2>9. AppRuns'
    BY <1>2, <2>1, <2>5, <2>6 DEF AppRuns
  <2> QED BY <2>7, <2>8, <2>9 DEF WrittenInv
<1>7. CASE ClosePort(i)
  <2>1. Step(i, "done", threads[i].reuse) /\ threads[i].pc = "closing"
        /\ UNCHANGED <<app, mode, finished, missed>>
    BY <1>7 DEF ClosePort
  <2>2. /\ Indices' = Indices
        /\ \A j \in Indices :
            /\ Updates(j)' = Updates(j) /\ threads'[j].port = threads[j].port
            /\ j # i => Keeps(j)' = Keeps(j)
        /\ Keeps(i)' <=> ~threads[i].reuse
    BY <1>1, <2>1, OthersStay DEF Steps
  <2>3. Keeps(i) <=> ~threads[i].reuse
    BY <2>1 DEF Keeps
  <2>4. FinishedWritten'
    BY <1>2, <2>1, <2>2, <2>3 DEF FinishedWritten
  <2>5. KeptWritten'
    BY <1>2, <2>1, <2>2, <2>3 DEF KeptWritten
  <2> QED BY <1>2, <2>1, <2>4, <2>5 DEF WrittenInv, AppRuns
<1>8. ASSUME NEW works \in BOOLEAN, Write(i, works) PROVE WrittenInv'
  <2> DEFINE written == works /\ mode[p] = "ISB"
  <2>1. /\ Step(i, "closing", ~written) /\ threads[i].pc = "writing" /\ missed' = missed
        /\ app' = [app EXCEPT ![p] = IF written THEN "new" ELSE @]
        /\ finished' = IF written THEN finished \cup {p} ELSE finished
        /\ mode' = [mode EXCEPT ![p] = IF works THEN "ISB" ELSE @]
    BY <1>8, Zenon DEF Write
  <2>2. \A q \in Ports : mode'[q] = "APP" => mode[q] = "APP"
    BY <1>1, <2>1
  <2> HIDE DEF written
  <2>3. written \in BOOLEAN
    BY DEF written
  <2>4. /\ Indices' = Indices
        /\ \A j \in Indices :
            /\ Updates(j)' = Updates(j) /\ threads'[j].port = threads[j].port
            /\ j # i => Keeps(j)' = Keeps(j)
        /\ Keeps(i)' <=> written
    BY <2>1, <2>3, OthersStay DEF Steps
  <2>5. Updates(i) /\ ~Keeps(i)
    BY <2>1 DEF UpdateInv, ListsKept, Keeps
  <2>6. CASE written
    <3>1. app'[p] = "new" /\ \A q \in Ports : q # p => app'[q] = app[q]
        BY <1>1, <2>1, <2>6
    <3>2. finished' = finished \cup {p}
        BY <2>1, <2>6
    <3>3. FinishedWritten'
        BY <1>1, <1>2, <2>4, <2>5, <2>6, <3>1, <3>2 DEF FinishedWritten
    <3>4. KeptWritten'
        BY <1>2, <1>3, <2>1, <2>4, <3>1 DEF KeptWritten
    <3> QED BY <1>2, <2>2, <3>1, <3>3, <3>4 DEF WrittenInv, AppRuns
  <2>7. CASE ~written
    <3>1. app' = app /\ finished' = finished
        BY <1>1, <2>1, <2>7
    <3>2. FinishedWritten'
        BY <1>2, <2>4, <2>5, <3>1 DEF FinishedWritten
    <3>3. KeptWritten'
        BY <1>2, <2>1, <2>4, <2>5, <2>7, <3>1 DEF KeptWritten
    <3> QED BY <1>2, <2>2, <3>1, <3>2, <3>3 DEF WrittenInv, AppRuns
  <2> QED BY <2>6, <2>7
<1> QED BY <1>4, <1>5, <1>6, <1>7, <1>8 DEF Thread

\* After an update that ended by itself only threads that are no longer
\* listed go on, and these write nothing.
LEMMA ThreadEnded ==
    ASSUME UpdateInv, NEW i \in Indices, Thread(i)
    PROVE  EndedIdle'
<1> SUFFICES ASSUME ending' = "idle"
             PROVE  /\ AllDone' /\ \A j \in Indices' : Updates(j)' => Done(j)'
                    /\ usb' # "running" /\ mgmt' # "start"
                    /\ \A p \in Ports : app'[p] = "none" => p \in missed'
    BY DEF EndedIdle
<1>1. PICK target \in Steps, reuse \in BOOLEAN : Moves(i, target, reuse)
    BY ThreadMoves
<1>2. /\ Step(i, target, reuse) /\ ~Done(i) /\ ending = "idle" /\ usb' = usb /\ mgmt' = mgmt
    BY <1>1 DEF Moves, Done
<1>3. /\ AllDone /\ \A j \in Indices : Updates(j) => Done(j)
      /\ usb # "running" /\ mgmt # "start"
      /\ \A p \in Ports : app[p] = "none" => p \in missed
    BY <1>2 DEF UpdateInv, EndedIdle
<1>4. ~Updates(i) /\ ~threads[i].listed /\ threads[i].kind # "update" /\ threads[i].pc # "writing"
  <2>1. ~Updates(i)
    BY <1>2, <1>3
  <2>2. ~threads[i].listed
    BY <1>2, <1>3 DEF AllDone, Listed, Indices
  <2> QED BY <2>1, <2>2 DEF UpdateInv, ListsKept, Updates
<1>5. app' = app /\ missed' = missed
  <2>1. CASE OpenPort(i)
    BY <1>4, <2>1 DEF OpenPort
  <2>2. CASE SetMode(i)
    BY <2>2 DEF SetMode
  <2>3. CASE ClosePort(i)
    BY <2>3 DEF ClosePort
  <2>4. ~Identify(i) /\ \A works \in BOOLEAN : ~Write(i, works)
    BY <1>4 DEF Identify, Write
  <2> QED BY <2>1, <2>2, <2>3, <2>4 DEF Thread
<1>6. /\ Indices' = Indices /\ \A j \in Indices : Updates(j)' = Updates(j)
      /\ \A j \in Indices : j # i => Done(j)' = Done(j)
    BY <1>2, OthersStay
<1>7. Stepped(i, target, reuse)
    BY <1>2, StepWrites DEF UpdateInv
<1>8. \A j \in Indices : threads'[j].listed => j # i /\ threads[j].listed
    BY <1>4, <1>7 DEF Stepped
<1>9. AllDone'
  <2> SUFFICES ASSUME NEW j \in Indices, threads'[j].listed PROVE Done(j)'
    BY <1>6 DEF AllDone, Listed, Indices
  <2>1. j \in Listed
    BY <1>8 DEF Listed, Indices
  <2> QED BY <1>3, <1>6, <1>8, <2>1 DEF AllDone
<1>10. \A j \in Indices' : Updates(j)' => Done(j)'
    BY <1>3, <1>4, <1>6
<1> QED BY <1>2, <1>3, <1>5, <1>9, <1>10

LEMMA ThreadKeeps ==
    ASSUME UpdateInv, NEW i \in Indices, Thread(i)
    PROVE  UpdateInv'
<1>1. UsbCounted'
  <2>1. usb' = usb /\ usbActive' = usbActive
    <3>1. PICK target \in Steps, reuse \in BOOLEAN : Moves(i, target, reuse)
        BY ThreadMoves
    <3> QED BY <3>1 DEF Moves
  <2> QED BY <2>1 DEF UpdateInv, UsbCounted
<1> QED BY <1>1, ThreadTypes, ThreadLists, ThreadWritten, ThreadEnded DEF UpdateInv

LEMMA AppendIs ==
    ASSUME NEW S, NEW s \in Seq(S), NEW e \in S
    PROVE  /\ Append(s, e) \in Seq(S) /\ Len(Append(s, e)) = Len(s) + 1 /\ Len(s) \in Nat
           /\ Append(s, e)[Len(s) + 1] = e /\ \A j \in 1..Len(s) : Append(s, e)[j] = s[j]
OBVIOUS

LEMMA LengthIs ==
    ASSUME NEW S, NEW s \in Seq(S)
    PROVE  Len(s) \in Nat
OBVIOUS

LEMMA OneMore ==
    ASSUME NEW n \in Nat, NEW m \in 0..n, m < n
    PROVE  m + 1 \in 0..n
OBVIOUS

LEMMA MapIs ==
    ASSUME NEW S, NEW n \in Nat, NEW f \in [1..n -> S]
    PROVE  f \in Seq(S) /\ Len(f) = n
OBVIOUS

LEMMA SpawnKeeps ==
    ASSUME UpdateAssumption, UpdateInv, NEW p \in Ports, Spawn(p)
    PROVE  UpdateInv'
<1> DEFINE new == [port |-> p, kind |-> phase, pc |-> "start", reuse |-> FALSE, listed |-> TRUE]
<1>1. /\ threads \in Seq(ThreadRecord) /\ new \in ThreadRecord
      /\ phase \in Spawning /\ ~Found(p) /\ ending = ""
    BY DEF Spawn, UpdateInv, Typed, ThreadRecord, Steps, PhasesPass, Spawning
<1>2. threads' = Append(threads, new)
    BY DEF Spawn
<1>3. new.kind = phase /\ new.port = p /\ new.pc = "start" /\ new.listed
    OBVIOUS
<1> HIDE DEF new
<1>4. PICK newest \in Nat :
        /\ threads' \in Seq(ThreadRecord) /\ Len(threads') = newest /\ Len(threads) \in Nat
        /\ newest = Len(threads) + 1
        /\ threads'[newest] = new /\ \A j \in Indices : threads'[j] = threads[j]
  <2>1. /\ threads' \in Seq(ThreadRecord) /\ Len(threads') = Len(threads) + 1
        /\ Len(threads) \in Nat /\ threads'[Len(threads) + 1] = new
        /\ \A j \in 1..Len(threads) : threads'[j] = threads[j]
    <3>1. PICK s \in Seq(ThreadRecord), e \in ThreadRecord : s = threads /\ e = new
      BY <1>1
    <3> DEFINE longer == Append(s, e)
    <3>2. /\ longer \in Seq(ThreadRecord) /\ Len(longer) = Len(s) + 1 /\ Len(s) \in Nat
          /\ longer[Len(s) + 1] = e /\ \A j \in 1..Len(s) : longer[j] = s[j]
      BY AppendIs
    <3>3. threads' = longer
      BY <1>2, <3>1
    <3> HIDE DEF longer
    <3> QED BY <3>1, <3>2, <3>3
  <2>2. Len(threads) + 1 \in Nat
    BY <2>1
  <2> QED BY <2>1, <2>2 DEF Indices
<1>5. /\ Indices' = Indices \cup {newest} /\ newest \notin Indices
    BY <1>4 DEF Indices
<1>6. UNCHANGED <<phase, mode, app, outdated, finished, mgmt, usb, usbActive, continue,
                  cancelled, ending, missed>> /\ started' = started + 1 /\ started < MaxThreads
    BY DEF Spawn
<1>7. Typed'
  <2>1. started + 1 \in 0..MaxThreads
    <3>1. MaxThreads \in Nat /\ started \in 0..MaxThreads
        BY DEF UpdateAssumption, UpdateInv, Typed, UTypeOK
    <3> QED BY <1>6, <3>1, OneMore
  <2> QED BY <1>4, <1>6, <2>1 DEF UpdateInv, Typed, UTypeOK
<1>8. PhasesPass'
    BY <1>1, <1>3, <1>4, <1>5, <1>6 DEF UpdateInv, PhasesPass, Updates, Spawning, EarlyPhases
<1>9. OneKeeps'
  <2>1. \A k \in Indices : Updates(k) /\ threads[k].port = p /\ phase = "update" => Leaves(k)
    <3> SUFFICES ASSUME NEW k \in Indices, Updates(k), threads[k].port = p, phase = "update"
                 PROVE  Leaves(k)
        OBVIOUS
    <3>1. k \in Listed
        BY DEF UpdateInv, ListsKept, Listed, Indices
    <3> QED BY <1>1, <3>1 DEF Found, Leaves
  <2>2. \A k \in Indices : Updates(k)' = Updates(k) /\ Leaves(k)' = Leaves(k)
    BY <1>4 DEF Updates, Leaves, Done
  <2>3. Updates(newest)' => phase = "update"
    BY <1>3, <1>4 DEF Updates
  <2>4. \A j, k \in Indices \cup {newest} :
        j # k /\ Updates(j)' /\ Updates(k)' /\ threads'[j].port = threads'[k].port
            => Leaves(j)' \/ Leaves(k)'
    <3> SUFFICES ASSUME NEW j \in Indices \cup {newest}, NEW k \in Indices \cup {newest}, j # k,
                        Updates(j)', Updates(k)', threads'[j].port = threads'[k].port
                 PROVE  Leaves(j)' \/ Leaves(k)'
        OBVIOUS
    <3>1. CASE j \in Indices /\ k \in Indices
      <4>1. Updates(j) /\ Updates(k) /\ threads[j].port = threads[k].port
        BY <1>4, <2>2, <3>1
      <4> QED BY <2>2, <3>1, <4>1 DEF UpdateInv, OneKeeps
    <3>2. CASE j = newest /\ k \in Indices
        BY <1>3, <1>4, <2>1, <2>2, <2>3, <3>2
    <3>3. CASE k = newest /\ j \in Indices
        BY <1>3, <1>4, <2>1, <2>2, <2>3, <3>3
    <3> QED BY <3>1, <3>2, <3>3
  <2> QED BY <1>5, <2>4 DEF OneKeeps
<1>10. ListsKept'
  <2>1. \A j \in Indices \cup {newest} :
        /\ threads'[j].kind = "update" => threads'[j].listed
        /\ threads'[j].listed /\ threads'[j].kind \in {"app", "version"} =>
                phase \in {"app", "joinApp", "version", "joinVersion"}
        /\ threads'[j].kind = "isb" =>
                ~(threads'[j].pc \in {"closing", "done"} /\ ~threads'[j].reuse)
        /\ threads'[j].pc = "writing" => threads'[j].kind = "update"
    BY <1>3, <1>4 DEF UpdateInv, ListsKept, Updates, Keeps
  <2> QED BY <1>5, <1>6, <2>1 DEF ListsKept, Updates, Keeps
<1>11. WrittenInv'
  <2>1. \A k \in Indices : /\ Updates(k)' = Updates(k) /\ Keeps(k)' = Keeps(k)
                           /\ threads'[k].port = threads[k].port
    BY <1>4 DEF Updates, Keeps
  <2>2. ~Keeps(newest)'
    BY <1>3, <1>4 DEF Keeps
  <2>3. FinishedWritten'
    BY <1>5, <1>6, <2>1 DEF UpdateInv, WrittenInv, FinishedWritten
  <2>4. KeptWritten'
    BY <1>5, <1>6, <2>1, <2>2 DEF UpdateInv, WrittenInv, KeptWritten
  <2> QED BY <1>6, <2>3, <2>4 DEF UpdateInv, WrittenInv, AppRuns
<1>12. UsbCounted' /\ EndedIdle'
    BY <1>1, <1>6 DEF UpdateInv, UsbCounted, EndedIdle
<1> QED BY <1>7, <1>8, <1>9, <1>10, <1>11, <1>12 DEF UpdateInv

\* Before the update threads start the list may be cleared.
LEMMA ClearKeeps ==
    ASSUME UpdateInv, ClearThreads, \A i \in Indices : ~Updates(i),
           phase' \in EarlyPhases \cup {"idle"}, ending' \in {"", "cancel"},
           ending' # "" => phase' = "idle",
           finished' \in {finished, {}},
           UNCHANGED <<mode, app, outdated, mgmt, usb, usbActive, cancelled, missed, started>>
    PROVE  UpdateInv'
<1>1. threads \in Seq(ThreadRecord) /\ \A i \in Indices : threads[i] \in ThreadRecord
    BY ThreadsAreRecords DEF UpdateInv
<1>2. \A i \in Indices : /\ [threads[i] EXCEPT !.listed = FALSE] \in ThreadRecord
                         /\ [threads[i] EXCEPT !.listed = FALSE].kind = threads[i].kind
                         /\ [threads[i] EXCEPT !.listed = FALSE].pc = threads[i].pc
                         /\ [threads[i] EXCEPT !.listed = FALSE].reuse = threads[i].reuse
                         /\ ~[threads[i] EXCEPT !.listed = FALSE].listed
    BY <1>1 DEF ThreadRecord
<1>3. threads' = [i \in Indices |-> [threads[i] EXCEPT !.listed = FALSE]]
    BY DEF ClearThreads, Indices
<1>4. threads' \in Seq(ThreadRecord) /\ Len(threads') = Len(threads)
  <2>1. threads' \in [1..Len(threads) -> ThreadRecord]
    BY <1>2, <1>3 DEF Indices
  <2>2. threads \in Seq(ThreadRecord)
    BY <1>1
  <2>3. Len(threads) \in Nat
    BY <2>2, LengthIs
  <2> QED BY <2>1, <2>3, MapIs
<1>5. Indices' = Indices
    BY <1>4 DEF Indices
<1>6. \A i \in Indices : /\ threads'[i].kind = threads[i].kind /\ threads'[i].pc = threads[i].pc
                         /\ threads'[i].reuse = threads[i].reuse /\ ~threads'[i].listed
    BY <1>2, <1>3
<1>7. \A i \in Indices : ~Updates(i)' /\ Keeps(i)' = Keeps(i)
    BY <1>6 DEF Updates, Keeps
<1>8. finished' = {}
    BY DEF UpdateInv, WrittenInv, FinishedWritten
<1>9. Typed'
    BY <1>4, <1>8 DEF UpdateInv, Typed, UTypeOK, ThreadRecord, Spawning, Steps, EarlyPhases
<1>10. PhasesPass' /\ OneKeeps'
    BY <1>5, <1>7 DEF PhasesPass, OneKeeps, EarlyPhases
<1>11. ListsKept'
  <2>1. \A i \in Indices : /\ threads[i].kind = "isb" => ~Keeps(i)
                           /\ threads[i].pc = "writing" => Updates(i)
    BY DEF UpdateInv, ListsKept
  <2>2. \A i \in Indices : threads'[i].pc = threads[i].pc /\ ~threads'[i].listed
    BY <1>6
  <2>3. \A i \in Indices : Updates(i)' = FALSE /\ Keeps(i)' = Keeps(i)
    BY <1>7 DEF Updates
  <2>4. \A i \in Indices : threads[i].pc # "writing"
    BY <1>6, <1>7, <2>1 DEF Updates
  <2> QED BY <1>5, <1>6, <2>1, <2>2, <2>3, <2>4 DEF ListsKept
<1>12. WrittenInv' /\ UsbCounted'
    BY <1>5, <1>7, <1>8 DEF UpdateInv, WrittenInv, FinishedWritten, KeptWritten, AppRuns, UsbCounted
<1>13. EndedIdle'
    BY DEF EndedIdle
<1> QED BY <1>9, <1>10, <1>11, <1>12, <1>13 DEF UpdateInv

\* What is left alone while the threads and what they write stay.
LEMMA QuietKeeps ==
    ASSUME UpdateInv, UNCHANGED <<threads, mode, app, finished>>, missed \subseteq missed'
    PROVE  OneKeeps' /\ WrittenInv' /\ Indices' = Indices
<1>1. Indices' = Indices
    BY DEF Indices
<1>2. \A i \in Indices : /\ Updates(i)' = Updates(i) /\ Keeps(i)' = Keeps(i)
                         /\ Leaves(i)' = Leaves(i) /\ Done(i)' = Done(i)
    BY DEF Updates, Keeps, Leaves, Done
<1>3. OneKeeps'
    BY <1>1, <1>2 DEF UpdateInv, OneKeeps
<1>4. WrittenInv'
    BY <1>1, <1>2 DEF UpdateInv, WrittenInv, FinishedWritten, KeptWritten, AppRuns
<1> QED BY <1>1, <1>3, <1>4

\* The list is not cleared: a phase ends before the update loop.
LEMMA EarlyKeeps ==
    ASSUME UpdateInv, phase \in EarlyPhases,
           UNCHANGED <<threads, mode, app, outdated, finished, usb, usbActive, cancelled, missed, started>>,
           \/ phase' \in EarlyPhases \cup {"update"} /\ ending' = ending
           \/ phase' = "idle" /\ ending' = "cancel",
           phase \in {"isb", "joinIsb", "start"} \/ phase' \in {"app", "joinApp", "version", "joinVersion"},
           mgmt' \in {mgmt, "start"}
    PROVE  UpdateInv'
<1>1. ending = "" /\ \A i \in Indices : ~Updates(i)
    BY DEF UpdateInv, PhasesPass, EarlyPhases
<1>2. Typed'
    BY DEF UpdateInv, Typed, UTypeOK, EarlyPhases, Spawning
<1>3. \A i \in Indices : Updates(i)' = Updates(i) /\ Keeps(i)' = Keeps(i)
    BY DEF Updates, Keeps
<1>4. PhasesPass'
    BY <1>1, <1>3, QuietKeeps DEF PhasesPass, EarlyPhases
<1>5. ListsKept'
    BY <1>3, QuietKeeps DEF UpdateInv, ListsKept, EarlyPhases
<1>6. UsbCounted' /\ EndedIdle'
    BY <1>1 DEF UpdateInv, UsbCounted, EndedIdle
<1> QED BY <1>2, <1>4, <1>5, <1>6, QuietKeeps DEF UpdateInv

\* The main thread before the update threads start.
LEMMA EarlyPhasesKeep ==
    ASSUME UpdateInv, \/ BootloadFile \/ SpawningEnds \/ JoinApp \/ JoinVersion
                      \/ JoinIsb \/ SetContinue
    PROVE  UpdateInv'
<1>1. phase \in EarlyPhases \cup {"idle"} /\ ending = "" => \A i \in Indices : ~Updates(i)
    BY DEF UpdateInv, PhasesPass
<1>2. phase \in EarlyPhases => ending = ""
    BY DEF UpdateInv, PhasesPass, EarlyPhases
<1>3. CASE BootloadFile
    BY <1>1, <1>3, ClearKeeps DEF BootloadFile, EarlyPhases
<1>4. CASE SpawningEnds
    BY <1>4, EarlyKeeps DEF SpawningEnds, JoinOf, EarlyPhases
<1>5. CASE JoinApp
  <2>1. CASE cancelled
    BY <1>1, <1>2, <1>5, <2>1, ClearKeeps DEF JoinApp, JoinEnds, EarlyPhases
  <2>2. CASE ~cancelled
    BY <1>5, <2>2, EarlyKeeps DEF JoinApp, JoinEnds, EarlyPhases
  <2> QED BY <2>1, <2>2
<1>6. CASE JoinVersion
    BY <1>1, <1>2, <1>6, ClearKeeps DEF JoinVersion, JoinEnds, EarlyPhases
<1>7. CASE JoinIsb
    BY <1>7, EarlyKeeps DEF JoinIsb, JoinEnds, EarlyPhases
<1>8. CASE SetContinue
    BY <1>8, EarlyKeeps DEF SetContinue, EarlyPhases
<1> QED BY <1>3, <1>4, <1>5, <1>6, <1>7, <1>8

\* The loop ends by itself when what is listed is done, which all update
\* threads are; a port that was taken up has a thread that keeps it, and that
\* one has left an application.
LEMMA UpdateEndsKeeps ==
    ASSUME UpdateInv, NEW why \in {"idle", "timeout", "cancel"}, UpdateEnds(why)
    PROVE  UpdateInv'
<1>1. /\ phase = "update" /\ phase' = "stop" /\ ending' = why
      /\ missed' = missed \cup {p \in Ports : ~Found(p)}
      /\ UNCHANGED <<threads, mode, app, outdated, finished, mgmt, usb, usbActive, cancelled, started>>
    BY DEF UpdateEnds
<1>2. Typed'
    BY <1>1 DEF UpdateInv, Typed, UTypeOK
<1>3. \A i \in Indices : /\ Updates(i)' = Updates(i) /\ Keeps(i)' = Keeps(i) /\ Done(i)' = Done(i)
    BY <1>1 DEF Updates, Keeps, Done
<1>4. OneKeeps' /\ WrittenInv' /\ Indices' = Indices
    BY <1>1, QuietKeeps
<1>5. PhasesPass'
    BY <1>1 DEF PhasesPass, EarlyPhases
<1>6. ListsKept'
    BY <1>1, <1>3, <1>4 DEF UpdateInv, ListsKept
<1>7. UsbCounted'
    BY <1>1 DEF UpdateInv, UsbCounted
<1>8. EndedIdle'
  <2> SUFFICES ASSUME why = "idle" PROVE EndedIdle'
    BY <1>1 DEF EndedIdle
  <2>1. AllDone /\ usbActive = 0 /\ mgmt # "start"
    BY DEF UpdateEnds, NoneActive
  <2>2. usb # "running"
    BY <2>1 DEF UpdateInv, UsbCounted
  <2>3. \A i \in Indices : Updates(i) => Done(i)
    BY <2>1 DEF UpdateInv, ListsKept, AllDone, Listed, Indices
  <2>4. \A p \in Ports : Found(p) /\ app[p] = "none" => p \in missed
    <3> SUFFICES ASSUME NEW p \in Ports, Found(p), app[p] = "none" PROVE p \in missed
        OBVIOUS
    <3>1. PICK i \in Indices : threads[i].listed /\ threads[i].port = p /\ Done(i) /\ ~threads[i].reuse
        BY <1>1, <2>1 DEF Found, AllDone, Listed, Indices
    <3>2. threads[i].kind \in Spawning
        BY ThreadsAreRecords DEF UpdateInv, ThreadRecord
    <3>3. Keeps(i)
        BY <3>1 DEF Keeps, Done
    <3>4. Updates(i)
        BY <1>1, <3>1, <3>2, <3>3 DEF UpdateInv, ListsKept, Updates, Spawning
    <3> QED BY <3>1, <3>3, <3>4 DEF UpdateInv, WrittenInv, KeptWritten
  <2>5. AllDone'
    BY <1>1, <2>1 DEF AllDone, Listed, Done
  <2>6. \A p \in Ports : app'[p] = "none" => p \in missed'
    BY <1>1, <2>4
  <2> QED BY <1>1, <1>3, <1>4, <2>1, <2>2, <2>3, <2>5, <2>6 DEF EndedIdle
<1> QED BY <1>2, <1>4, <1>5, <1>6, <1>7, <1>8 DEF UpdateInv

\* After the loop, and the steps of the manager.
LEMMA LatePhasesKeep ==
    ASSUME UpdateInv, Reset \/ Cancel \/ ListDevices \/ Watch \/ UpdateUsb
    PROVE  UpdateInv'
<1>1. UNCHANGED <<threads, mode, app, outdated, finished, ending, missed, started>>
    BY DEF Reset, Cancel, ListDevices, Watch, UpdateUsb
<1>2. phase' = phase \/ (phase = "stop" /\ phase' \in {"idle", "reset"})
    BY DEF Reset, Cancel, ListDevices, Watch, UpdateUsb
<1>3. Typed'
  <2>1. phase' \in Spawning \cup {"idle", "joinApp", "joinVersion", "joinIsb", "start", "stop", "reset"}
    BY <1>2 DEF UpdateInv, Typed, UTypeOK
  <2>2. cancelled' \in BOOLEAN /\ mgmt' \in {"none", "start", "loop", "ended"}
    BY DEF UpdateInv, Typed, UTypeOK, Reset, Cancel, ListDevices, Watch, UpdateUsb
  <2>3. usb' \in {"absent", "present", "running", "done"}
    BY DEF UpdateInv, Typed, Reset, Cancel, ListDevices, Watch, UpdateUsb
  <2>4. usbActive' = usbActive \/ usbActive' = 0 \/ usbActive' = 1
    BY DEF Reset, Cancel, ListDevices, Watch, UpdateUsb
  <2>5. usbActive' \in 0..1
    <3>1. usbActive \in 0..1
        BY DEF UpdateInv, Typed, UTypeOK
    <3>2. 0 \in 0..1 /\ 1 \in 0..1
        OBVIOUS
    <3> QED BY <2>4, <3>1, <3>2
  <2> QED BY <1>1, <2>1, <2>2, <2>3, <2>5 DEF UpdateInv, Typed, UTypeOK
<1>4. \A i \in Indices : Updates(i)' = Updates(i) /\ Keeps(i)' = Keeps(i) /\ Done(i)' = Done(i)
    BY <1>1 DEF Updates, Keeps, Done
<1>5. OneKeeps' /\ WrittenInv' /\ Indices' = Indices
    BY <1>1, QuietKeeps
<1>6. PhasesPass'
    BY <1>1, <1>2, <1>4, <1>5 DEF UpdateInv, PhasesPass, EarlyPhases
<1>7. ListsKept'
    BY <1>1, <1>2, <1>4, <1>5 DEF UpdateInv, ListsKept
<1>8. UsbCounted'
    BY DEF UpdateInv, UsbCounted, Reset, Cancel, ListDevices, Watch, UpdateUsb
<1>9. EndedIdle'
  <2> SUFFICES ASSUME ending = "idle" PROVE EndedIdle'
    BY <1>1 DEF EndedIdle
  <2>1. /\ AllDone /\ \A i \in Indices : Updates(i) => Done(i)
        /\ usb # "running" /\ mgmt # "start"
        /\ \A p \in Ports : app[p] = "none" => p \in missed
    BY DEF UpdateInv, EndedIdle
  <2>2. usb' # "running" /\ mgmt' # "start"
    BY <2>1 DEF Reset, Cancel, ListDevices, Watch, UpdateUsb
  <2>3. AllDone'
    BY <1>1, <2>1 DEF AllDone, Listed, Done
  <2> QED BY <1>1, <1>4, <1>5, <2>1, <2>2, <2>3 DEF EndedIdle
<1> QED BY <1>3, <1>5, <1>6, <1>7, <1>8, <1>9 DEF UpdateInv

LEMMA RebootKeeps ==
    ASSUME UpdateInv, NEW opens \in SUBSET Ports, RebootUp(opens)
    PROVE  UpdateInv' /\ OnlyFinishedRestarted
<1>1. /\ phase = "reset" /\ phase' = "idle" /\ finished' = {}
      /\ mode' = [p \in Ports |-> IF p \in finished \cap opens THEN "APP" ELSE mode[p]]
      /\ UNCHANGED <<threads, app, outdated, mgmt, usb, usbActive, continue, cancelled,
                     ending, missed, started>>
    BY DEF RebootUp
<1>2. Typed'
    BY <1>1 DEF UpdateInv, Typed, UTypeOK
<1>3. \A i \in Indices : /\ Updates(i)' = Updates(i) /\ Keeps(i)' = Keeps(i)
                         /\ Done(i)' = Done(i) /\ Leaves(i)' = Leaves(i)
    BY <1>1 DEF Updates, Keeps, Done, Leaves
<1>4. Indices' = Indices
    BY <1>1 DEF Indices
<1>5. PhasesPass'
    BY <1>1 DEF UpdateInv, PhasesPass, EarlyPhases
<1>6. OneKeeps'
    BY <1>1, <1>3, <1>4 DEF UpdateInv, OneKeeps
<1>7. ListsKept'
    BY <1>1, <1>3, <1>4 DEF UpdateInv, ListsKept
<1>8. \A p \in Ports : /\ mode'[p] # mode[p] => mode'[p] = "APP" /\ app[p] = "new"
                       /\ mode'[p] = "APP" => app[p] # "none"
    BY <1>1 DEF UpdateInv, WrittenInv, FinishedWritten, AppRuns
<1>9. WrittenInv'
    BY <1>1, <1>3, <1>4, <1>8 DEF UpdateInv, WrittenInv, FinishedWritten, KeptWritten, AppRuns
<1>10. UsbCounted'
    BY <1>1 DEF UpdateInv, UsbCounted
<1>11. EndedIdle'
  <2> SUFFICES ASSUME ending = "idle" PROVE EndedIdle'
    BY <1>1 DEF EndedIdle
  <2>1. /\ AllDone /\ \A i \in Indices : Updates(i) => Done(i)
        /\ usb # "running" /\ mgmt # "start"
        /\ \A p \in Ports : app[p] = "none" => p \in missed
    BY DEF UpdateInv, EndedIdle
  <2>2. AllDone'
    BY <1>1, <2>1 DEF AllDone, Listed, Done
  <2> QED BY <1>1, <1>3, <1>4, <2>1, <2>2 DEF EndedIdle
<1> QED BY <1>2, <1>5, <1>6, <1>7, <1>8, <1>9, <1>10, <1>11 DEF UpdateInv, OnlyFinishedRestarted

LEMMA UpdateStarts ==
    ASSUME UpdateAssumption, UInit
    PROVE  UpdateInv
<1>1. threads = <<>> /\ Len(threads) = 0 /\ threads \in Seq(ThreadRecord)
  <2>1. <<>> \in Seq(ThreadRecord) /\ Len(<<>>) = 0
    OBVIOUS
  <2> QED BY <2>1 DEF UInit
<1>2. Indices = {} /\ Listed = {}
    BY <1>1 DEF Indices, Listed
<1>3. Typed
  <2>1. 0 \in 0..1 /\ \A n \in Nat : 0 \in 0..n
    OBVIOUS
  <2>2. started \in 0..MaxThreads /\ usbActive \in 0..1
    BY <2>1 DEF UInit, UpdateAssumption
  <2> QED BY <1>1, <2>2 DEF UInit, Typed, UTypeOK
<1>4. PhasesPass /\ OneKeeps /\ ListsKept /\ UsbCounted /\ EndedIdle
    BY <1>2 DEF UInit, PhasesPass, OneKeeps, ListsKept, UsbCounted, EndedIdle
<1>5. WrittenInv
    BY <1>2 DEF UInit, WrittenInv, FinishedWritten, KeptWritten, AppRuns
<1> QED BY <1>3, <1>4, <1>5 DEF UpdateInv

LEMMA UpdateStays ==
    ASSUME UpdateInv, UNCHANGED uvars
    PROVE  UpdateInv'
<1> USE DEF uvars
<1>1. UsbCounted' /\ Typed' /\ PhasesPass' /\ ListsKept' /\ EndedIdle'
  <2>1. UsbCounted'
    BY DEF UpdateInv, UsbCounted
  <2>2. Typed'
    BY DEF UpdateInv, Typed, UTypeOK
  <2>3. PhasesPass'
    BY DEF UpdateInv, PhasesPass, Indices, Updates
  <2>4. ListsKept'
    BY DEF UpdateInv, ListsKept, Indices, Updates, Keeps
  <2>5. EndedIdle'
    BY DEF UpdateInv, EndedIdle, Indices, Updates, AllDone, Listed, Done
  <2> QED BY <2>1, <2>2, <2>3, <2>4, <2>5
<1> QED BY <1>1, QuietKeeps DEF UpdateInv

LEMMA UpdateSteps ==
    ASSUME UpdateAssumption, UpdateInv, [UNext]_uvars
    PROVE  UpdateInv' /\ (OnlyFinishedRestarted \/ UNCHANGED uvars)
<1>1. ASSUME NEW opens \in SUBSET Ports, RebootUp(opens)
      PROVE  UpdateInv' /\ OnlyFinishedRestarted
    BY <1>1, RebootKeeps
<1>2. ASSUME NEW why \in {"idle", "timeout", "cancel"}, UpdateEnds(why)
      PROVE  UpdateInv' /\ OnlyFinishedRestarted
  <2>1. phase # "reset"
    BY <1>2 DEF UpdateEnds
  <2> QED BY <1>2, <2>1, UpdateEndsKeeps DEF OnlyFinishedRestarted
<1>3. ASSUME Reset \/ Cancel \/ ListDevices \/ Watch \/ UpdateUsb
      PROVE  UpdateInv' /\ OnlyFinishedRestarted
  <2>1. phase' = phase \/ phase # "reset"
    BY <1>3 DEF Reset, Cancel, ListDevices, Watch, UpdateUsb
  <2> QED BY <1>3, <2>1, LatePhasesKeep DEF OnlyFinishedRestarted
<1>4. ASSUME \/ BootloadFile \/ SpawningEnds \/ JoinApp \/ JoinVersion
             \/ JoinIsb \/ SetContinue
      PROVE  UpdateInv' /\ OnlyFinishedRestarted
  <2>1. phase # "reset"
    BY <1>4 DEF BootloadFile, SpawningEnds, JoinApp, JoinVersion, JoinIsb, SetContinue, JoinEnds
  <2> QED BY <1>4, <2>1, EarlyPhasesKeep DEF OnlyFinishedRestarted
<1>5. ASSUME NEW p \in Ports, Spawn(p)
      PROVE  UpdateInv' /\ OnlyFinishedRestarted
  <2>1. phase # "reset"
    BY <1>5 DEF Spawn, Spawning
  <2> QED BY <1>5, <2>1, SpawnKeeps DEF OnlyFinishedRestarted
<1>6. ASSUME NEW i \in 1..Len(threads), Thread(i)
      PROVE  UpdateInv' /\ OnlyFinishedRestarted
  <2>1. i \in Indices
    BY DEF Indices
  <2>2. phase' = phase
    <3>1. PICK target \in Steps, reuse \in BOOLEAN : Moves(i, target, reuse)
        BY <1>6, <2>1, ThreadMoves
    <3> QED BY <3>1 DEF Moves
  <2> QED BY <1>6, <2>1, <2>2, ThreadKeeps DEF OnlyFinishedRestarted
<1>7. CASE UNCHANGED uvars
    BY <1>7, UpdateStays
<1> QED BY <1>1, <1>2, <1>3, <1>4, <1>5, <1>6, <1>7 DEF UNext, Main

LEMMA UpdateIsSafe ==
    ASSUME UpdateInv
    PROVE  UpdateSafe
<1>1. UTypeOK
    BY DEF UpdateInv, Typed
<1>2. ContextsUnused
    BY DEF UpdateInv, EndedIdle, ContextsUnused, Updates, Indices
<1>3. NothingErased
    BY DEF UpdateInv, EndedIdle, NothingErased
<1> QED BY <1>1, <1>2, <1>3 DEF UpdateSafe

\* For every set of ports and any number of threads, whatever order they run
\* in, a port has one update thread that has not left it to another, and what
\* that thread has written stays written.
THEOREM UpdateInvariant ==
    ASSUME UpdateAssumption
    PROVE  USpec => []UpdateInv
<1>1. UInit => UpdateInv
    BY UpdateStarts
<1>2. UpdateInv /\ [UNext]_uvars => UpdateInv'
    BY UpdateSteps
<1> QED BY <1>1, <1>2, PTL DEF USpec

\* An update that ends by itself has no thread at work when contexts are
\* deleted, and leaves no device erased but at a port that was away, did not
\* open or did not answer.
THEOREM UpdatesAreSafe ==
    ASSUME UpdateAssumption
    PROVE  USpec => []UpdateSafe
<1>1. UpdateInv => UpdateSafe
    BY UpdateIsSafe
<1> QED BY <1>1, UpdateInvariant, PTL

\* Only a device whose application was written again is restarted.
THEOREM RestartsOnlyFinished ==
    ASSUME UpdateAssumption
    PROVE  USpec => RestartsFinished
<1>1. UpdateInv /\ [UNext]_uvars => [OnlyFinishedRestarted]_uvars
    BY UpdateSteps
<1> QED BY <1>1, UpdateInvariant, PTL DEF USpec, RestartsFinished

----------------------------------------------------------------------------
(* Side by side.                                                           *)

\* Both invariants hold of the runs of MCFirmware.
LEMMA FirmwareKeeps == HexInv /\ DfuInv /\ [Next]_vars => HexInv' /\ DfuInv'
<1> SUFFICES ASSUME HexInv, DfuInv, [Next]_vars PROVE HexInv' /\ DfuInv'
  OBVIOUS
<1>1. Hex!HexAssumption /\ Dfu!DfuAssumption
  BY FirmwareAssumption
<1>2. [Hex!HNext]_(Hex!hvars)
  BY DEF Next, UpdateStep, HexStep, DfuStep, ImageStep, vars, hexVars, Hex!hvars
<1>3. [Dfu!DNext]_(Dfu!dvars)
  BY DEF Next, UpdateStep, HexStep, DfuStep, ImageStep, vars, dfuVars, Dfu!dvars
<1> QED BY <1>1, <1>2, <1>3, HexKeeps, DfuKeeps

\* A file that is written without an error is in the memory of the device,
\* through process_hex_file and through the DFU download_image.
THEOREM FilesAreWritten == Spec => []ImagesWritten
<1>1. Init => HexInv /\ DfuInv
  BY FirmwareAssumption, HexInits, DfuInits DEF Init, NoDfu
<1>2. HexInv /\ DfuInv => ImagesWritten
  BY FirmwareAssumption, HexImageProgrammed, DfuAllWritten DEF ImagesWritten
<1> QED BY <1>1, <1>2, FirmwareKeeps, PTL DEF Spec

=============================================================================
