----------------------------- MODULE HexProgram -----------------------------
(***************************************************************************)
(* Writing an Intel hex file to a device in the ISB bootloader             *)
(* (cISBootloaderISB::download_image and process_hex_file): the lines of   *)
(* the file are gathered in a buffer, skipped addresses are filled, and    *)
(* the buffer is sent in pieces of at most MaxSend bytes to the current    *)
(* page.  A byte of the file is named by its address.  The file's records  *)
(* are in ascending order, and its data on page 0 is above AppOffset.      *)
(***************************************************************************)
EXTENDS Integers, Sequences, FiniteSets

CONSTANTS LastPage,     \* pages are 0..LastPage
          PageSize,     \* FLASH_PAGE_SIZE
          AppOffset,    \* m_isb_props.app_offset
          MaxSend,      \* MAX_SEND_COUNT / 2: bytes sent at once
          HexBuffer,    \* HEX_BUFFER_SIZE / 2: bytes left over at most
          LineSize      \* bound on the bytes of a line

HexAssumption ==
    /\ LastPage \in Nat /\ PageSize \in Nat \ {0} /\ AppOffset \in 0..(PageSize - 1)
    /\ {MaxSend, HexBuffer, LineSize} \subseteq Nat

Room == 2 * HexBuffer
FF == -1
Addresses == 0..((LastPage + 1) * PageSize - 1)

VARIABLES
    page,     \* the page programmed, selected on the device
    offset,   \* currentOffset: where the next byte sent is put
    last,     \* lastSubOffset: where the next byte of the file is expected
    output,   \* the buffer, from output to outputPtr
    result,   \* "none", "erased", "programming", "ok", "error" or "undefined"
    ended,    \* the end of file record was read
    flash,    \* external: the device's memory
    image     \* history: the addresses for which the file has data

hvars == <<page, offset, last, output, result, ended, flash, image>>

HInit ==
    /\ page = 0 /\ offset = AppOffset /\ last = AppOffset /\ output = <<>>
    /\ result = "none" /\ ended = FALSE
    /\ flash = [a \in Addresses |-> a + 1] /\ image = {}

Fill(n) == [i \in 1..n |-> FF]
Data(at, n) == [i \in 1..n |-> page * PageSize + at + i - 1]

\* upload_hex: bytes sent are put at the offset of the current page.
Written(bytes) ==
    [a \in Addresses |->
        LET i == a - page * PageSize - offset + 1
        IN  IF i \in 1..Len(bytes) THEN bytes[i] ELSE flash[a]]

\* What was sent before a failure is left out.
Fails == result' = "error" /\ UNCHANGED <<page, offset, last, output, ended, flash, image>>

\* erase_flash, whose answer may not come, or that is cancelled while it lasts.
Erase(answers) ==
    /\ result = "none"
    /\ result' = IF answers THEN "erased" ELSE "error"
    /\ flash' = [a \in Addresses |-> FF]
    /\ UNCHANGED <<page, offset, last, output, ended, image>>

\* Page 0 is selected and begun at the offset of the application.
Begin(answers) ==
    /\ result = "erased"
    /\ result' = IF answers THEN "programming" ELSE "error"
    /\ UNCHANGED <<page, offset, last, output, ended, flash, image>>

\* Mutant of Skipped: nothing is put in for skipped bytes.
SkippedNone(at) == 0
\* The skipped bytes before a line's data.
Skipped(at) == IF at > last THEN at - last ELSE 0

\* A data line.  The check before the fill counts its bytes as characters,
\* of which there are two to a byte: a fill that passes it may overrun.
DataLine(at, n, answers) ==
    LET gap    == Skipped(at)
        filled == output \o Fill(gap) \o Data(at, n)
    IN  /\ result = "programming" /\ ~ended
        /\ IF 2 * Len(output) + gap >= 2 * Room THEN Fails
           ELSE IF Len(output) + gap > Room
           THEN result' = "undefined" /\ UNCHANGED <<page, offset, last, output, ended, flash, image>>
           ELSE IF Len(filled) >= Room THEN Fails
           ELSE IF Len(filled) < MaxSend
           THEN /\ output' = filled /\ last' = at + n
                /\ image' = image \cup {page * PageSize + at + i : i \in 0..(n - 1)}
                /\ UNCHANGED <<page, offset, result, ended, flash>>
           ELSE IF ~answers \/ Len(filled) - MaxSend > HexBuffer THEN Fails
           ELSE /\ flash' = Written(SubSeq(filled, 1, MaxSend))
                /\ offset' = offset + MaxSend /\ last' = at + n
                /\ output' = SubSeq(filled, MaxSend + 1, Len(filled))
                /\ image' = image \cup {page * PageSize + at + i : i \in 0..(n - 1)}
                /\ UNCHANGED <<page, result, ended>>

\* What is left in the buffer is sent, and the page is filled up.
Flushes(answers) == Len(output) <= HexBuffer /\ Len(output) <= MaxSend /\ answers
Flushed == Written(output \o Fill(PageSize - offset - Len(output)))

\* Mutant of PageLine: the next byte is expected where the last page ended.
PageLineGoingOn(p, answers) ==
    /\ result = "programming" /\ ~ended /\ p > page
    /\ IF ~Flushes(answers) THEN Fails
       ELSE /\ flash' = Flushed /\ page' = p /\ offset' = 0 /\ output' = <<>>
            /\ UNCHANGED <<last, result, ended, image>>

\* A record that moves to another page.
PageLine(p, answers) ==
    /\ result = "programming" /\ ~ended /\ p > page
    /\ IF ~Flushes(answers) THEN Fails
       ELSE /\ flash' = Flushed /\ page' = p /\ offset' = 0 /\ last' = 0 /\ output' = <<>>
            /\ UNCHANGED <<result, ended, image>>

\* The end of file record.
EndLine(answers) ==
    /\ result = "programming" /\ ~ended
    /\ IF ~Flushes(answers) THEN Fails
       ELSE /\ flash' = (IF offset + Len(output) = 0 THEN flash ELSE Flushed)
            /\ offset' = (IF offset + Len(output) = 0 THEN 0 ELSE PageSize)
            /\ ended' = TRUE /\ output' = <<>>
            /\ UNCHANGED <<page, last, result, image>>

\* No more lines, or an empty one: with or without an end of file record.
Eof ==
    /\ result = "programming" /\ result' = "ok"
    /\ UNCHANGED <<page, offset, last, output, ended, flash, image>>

\* The progress callback cancels.
CancelHex == result = "programming" /\ Fails

HNext ==
    \/ \E answers \in BOOLEAN :
          \/ Erase(answers) \/ Begin(answers) \/ EndLine(answers)
          \/ \E p \in 1..LastPage : PageLine(p, answers)
          \/ \E at \in 0..(PageSize - 1), n \in 1..LineSize :
                /\ page = 0 => at >= AppOffset
                /\ page * PageSize + at > 0 /\ at + n <= PageSize
                /\ \A a \in image : a < page * PageSize + at
                /\ DataLine(at, n, answers)
    \/ Eof \/ CancelHex

HSpec == HInit /\ [][HNext]_hvars

HTypeOK ==
    /\ page \in 0..LastPage /\ offset \in 0..PageSize /\ Len(output) <= Room
    /\ result \in {"none", "erased", "programming", "ok", "error", "undefined"}

\* A file that was read to its end of file record, without an error, is in the
\* device's memory byte for byte, and the rest is erased, whatever lines it
\* came in, and whatever it skips.
ImageProgrammed ==
    result = "ok" /\ ended =>
        \A a \in Addresses : flash[a] = IF a \in image THEN a ELSE FF
=============================================================================
