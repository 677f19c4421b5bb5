----------------------------- MODULE RingBuffer -----------------------------
(***************************************************************************)
(* The byte ring buffer of ring_buffer.c, which keeps the newest bytes when *)
(* it overflows.  Bytes are numbered in the order they are written; fifo    *)
(* is the queue of bytes a caller expects to read.                          *)
(***************************************************************************)
EXTENDS Integers, Sequences

CONSTANTS BufSize,    \* bytes of the buffer
          Lengths,    \* lengths of writes, reads and removals
          MaxBytes    \* bound: bytes written in a behaviour

RingAssumption ==
    BufSize \in Nat \ {0, 1} /\ Lengths \subseteq Nat \ {0} /\ MaxBytes \in Nat

VARIABLES mem, wr, rd,   \* the memory; offsets of wrPtr and rdPtr
          written,       \* bytes written so far
          fifo,          \* what a queue of BufSize - 1 bytes would hold
          torn,          \* a write had to be split at the end of the memory
          out            \* the bytes the last call read

rvars == <<mem, wr, rd, written, fifo, torn, out>>

Offsets == 0..(BufSize - 1)

RInit ==
    /\ mem = [o \in Offsets |-> 0] /\ wr = 0 /\ rd = 0
    /\ written = 0 /\ fifo = <<>> /\ torn = FALSE /\ out = <<>>

Used == IF wr >= rd THEN wr - rd ELSE wr - rd + BufSize
\* Mutant of Free: the byte between the pointers counts as free.
FreeOfAll == BufSize - Used
Free == BufSize - 1 - Used
Smaller(a, b) == IF a < b THEN a ELSE b
Newest(s) == SubSeq(s, Len(s) - Smaller(Len(s), BufSize - 1) + 1, Len(s))

\* ringBufWrite: a write that reaches the end goes on at the start, but with
\* the first bytes of the data again; on overflow the read pointer is moved
\* to the oldest byte that is left.
ringBufWrite(n) ==
    LET toEnd == BufSize - wr
        Source(k) == IF k < toEnd THEN k ELSE (k - toEnd) % BufSize
        Writes(o) == {k \in 0..(n - 1) : (wr + k) % BufSize = o}
        Latest(o) == CHOOSE k \in Writes(o) : \A j \in Writes(o) : j <= k
        stop == (wr + n) % BufSize
    IN  /\ written + n <= MaxBytes
        /\ mem' = [o \in Offsets |-> IF Writes(o) = {} THEN mem[o]
                                     ELSE written + 1 + Source(Latest(o))]
        /\ wr' = stop
        /\ rd' = IF n > Free THEN (stop + 1) % BufSize ELSE rd
        /\ torn' = (torn \/ n > toEnd)
        /\ written' = written + n
        /\ fifo' = Newest(fifo \o [k \in 1..n |-> written + k])
        /\ out' = <<>>

Bytes(n) == [k \in 1..n |-> mem[(rd + k - 1) % BufSize]]

Drop(n) ==
    /\ rd' = (rd + n) % BufSize
    /\ fifo' = SubSeq(fifo, n + 1, Len(fifo))
    /\ UNCHANGED <<mem, wr, written, torn>>

\* ringBufRead, ringBufRemove: as much as there is.
ringBufRead(n) ==
    LET taken == Smaller(n, Used)
    IN  Used > 0 /\ out' = Bytes(taken) /\ Drop(taken)
ringBufRemove(n) == Used > 0 /\ out' = <<>> /\ Drop(Smaller(n, Used))

\* ringBufReadToChar2: up to and with the first byte with the character, if it
\* is among the first n.
ringBufReadToChar2(n, chars) ==
    LET hits == {k \in 1..Smaller(n, Used) : Bytes(k)[k] \in chars}
        first == CHOOSE k \in hits : \A j \in hits : k <= j
    IN  hits # {} /\ out' = Bytes(first) /\ Drop(first)

ringBufClear ==
    /\ rd' = 0 /\ wr' = 0 /\ fifo' = <<>> /\ out' = <<>>
    /\ UNCHANGED <<mem, written, torn>>

RNext ==
    \/ \E n \in Lengths : ringBufWrite(n) \/ ringBufRead(n) \/ ringBufRemove(n)
                          \/ ringBufReadToChar2(n, {b \in 0..MaxBytes : b % 3 = 0})
    \/ ringBufClear

RSpec == RInit /\ [][RNext]_rvars

----------------------------------------------------------------------------
RTypeOK ==
    /\ mem \in [Offsets -> 0..MaxBytes] /\ wr \in Offsets /\ rd \in Offsets
    /\ written \in 0..MaxBytes /\ torn \in BOOLEAN

\* The pointers count what a queue would hold, through every wrap and
\* overflow; and what they delimit is what was written, in order, as long as
\* no write had to be split.
CountsRight == Used = Len(fifo)
HoldsFifo == torn \/ Bytes(Used) = fifo

\* Both, of the ring buffer as a queue that keeps the newest bytes.
RingKept == RTypeOK /\ CountsRight /\ HoldsFifo

\* What the comments say and the code does not do: a write stores its data.
WritesData == Bytes(Used) = fifo
=============================================================================
