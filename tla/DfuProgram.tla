----------------------------- MODULE DfuProgram -----------------------------
(***************************************************************************)
(* Writing the bootloader to a device in DFU mode: cISBootloaderBase's     *)
(* update_device for a USB device, which tries cISBootloaderDFU's          *)
(* download_image up to Tries times, and the sections of the Intel hex     *)
(* file it writes (ihex.c).  The bytes of a section are named by their     *)
(* address; its base address is a multiple of Span.                        *)
(***************************************************************************)
EXTENDS Integers, Sequences, FiniteSets, FiniteSetsExt

CONSTANTS Tries,        \* attempts at writing
          PageSize,     \* STM32_PAGE_SIZE
          Span,         \* bytes from one base address to the next: whole pages
          Files         \* hex files: sequences of sets of offsets, a section each

DfuAssumption ==
    /\ {Tries, PageSize, Span} \subseteq Nat \ {0}
    /\ \E n \in 1..Span : Span = n * PageSize
    /\ \A f \in Files : /\ f \in Seq((SUBSET (0..(Span - 1))) \ {{}})
                        /\ Len(f) \in {1, 2}

VARIABLES
    file,      \* the hex file
    sections,  \* image: the sections loaded, "none" before
    command,   \* how many commands of the list are done
    attempt,   \* i: attempts before this one
    state,     \* "start", "programming", "done", or "failed"
    flash,     \* external: the device's memory
    mode       \* external: "DFU", and "ISB" once its option bytes are written

dvars == <<file, sections, command, attempt, state, flash, mode>>

FF == -1
Damaged == -2
Addresses == 0..(2 * Span - 1)

DInit ==
    /\ file \in Files /\ sections = <<>> /\ command = 0 /\ attempt = 0
    /\ state = "start" /\ flash = [a \in Addresses |-> Damaged] /\ mode = "DFU"

\* ihex_load_section: from the lowest to the highest offset that has data, what
\* is skipped filled.  The lowest is left out of the section's address.
Section(s) ==
    LET data == file[s] IN
    [address |-> (s - 1) * Span,
     image   |-> [i \in 1..(Max(data) - Min(data) + 1) |->
                    LET at == Min(data) + i - 1
                    IN  IF at \in data THEN (s - 1) * Span + at ELSE FF]]

\* Mutant of PagesOf: the page that is not whole is left out.
PagesWhole(len) == IF len < PageSize THEN 1 ELSE len \div PageSize

\* do .. while (byteInSection < image[i].len - 1): a last byte that would be
\* the only one of its page has no page.
PagesOf(len) == CHOOSE n \in 1..len :
                    n * PageSize >= len - 1 /\ \A m \in 1..(n - 1) : m * PageSize < len - 1

PageList(kind, s) == [n \in 1..PagesOf(Len(sections[s].image)) |->
                        [kind |-> kind, section |-> s, page |-> n - 1]]
ListOf(kind) == IF Len(sections) = 1 THEN PageList(kind, 1)
                ELSE PageList(kind, 1) \o PageList(kind, 2)

\* Mutant of Commands: what an attempt before this one erased is not erased.
CommandsErasingOnce == (IF attempt = 0 THEN ListOf("erase") ELSE <<>>) \o ListOf("write")

\* All the pages are erased, then all are written.
Commands == ListOf("erase") \o ListOf("write")

\* What the device holds after a command: memory that is not erased is damaged.
After(c) ==
    LET s    == sections[c.section]
        base == s.address + c.page * PageSize
    IN  [a \in Addresses |->
            LET i     == a - s.address + 1
                value == IF i \in 1..Len(s.image) THEN s.image[i] ELSE FF
            IN  IF a \notin base..(base + PageSize - 1) THEN flash[a]
                ELSE IF c.kind = "erase" THEN FF
                ELSE IF value = FF THEN flash[a]
                ELSE IF flash[a] = FF THEN value ELSE Damaged]

\* The next attempt, after the device is reset, or none.
Retry ==
    /\ attempt' = attempt + 1 /\ command' = 0
    /\ state' = IF attempt + 1 < Tries THEN "start" ELSE "failed"
    /\ UNCHANGED <<file, sections, mode>>

\* Claims the device, brings it to idle, and loads the file.
Start(answers) ==
    /\ state = "start"
    /\ IF ~answers THEN Retry /\ UNCHANGED flash
       ELSE /\ sections' = [s \in 1..Len(file) |-> Section(s)]
            /\ command' = 0 /\ state' = "programming"
            /\ UNCHANGED <<file, attempt, flash, mode>>

\* A command that is not answered may have been done.
Command(answers, performed) ==
    /\ state = "programming" /\ command < Len(Commands)
    /\ answers => performed
    /\ flash' = IF performed THEN After(Commands[command + 1]) ELSE flash
    /\ IF ~answers THEN Retry
       ELSE command' = command + 1 /\ UNCHANGED <<file, sections, attempt, state, mode>>

\* After the last command the device is brought to idle, and restarted in the
\* bootloader, DFU mode disabled.
Finish(answers, restarts) ==
    /\ state = "programming" /\ command = Len(Commands)
    /\ IF ~answers THEN Retry /\ UNCHANGED flash
       ELSE /\ state' = "done" /\ mode' = IF restarts THEN "ISB" ELSE "DFU"
            /\ UNCHANGED <<file, sections, command, attempt, flash>>

DNext == \E answers, b \in BOOLEAN : Start(answers) \/ Command(answers, b) \/ Finish(answers, b)
DSpec == DInit /\ [][DNext]_dvars

\* The sections the code gets right: data at the base address, and no byte
\* alone on a last page.
Plain(data) == 0 \in data /\ (Max(data) = 0 \/ Max(data) % PageSize # 0)

DTypeOK ==
    /\ state \in {"start", "programming", "done", "failed"} /\ attempt \in 0..Tries
    /\ mode \in {"DFU", "ISB"} /\ (state = "failed" => mode = "DFU")

\* A device leaves DFU mode, from which it can be written again, only with
\* every byte of the file at its address, whatever failed and was tried again.
DfuWritten ==
    mode = "ISB" =>
        \A s \in 1..Len(file) : Plain(file[s]) =>
            \A at \in file[s] : flash[(s - 1) * Span + at] = (s - 1) * Span + at
=============================================================================
