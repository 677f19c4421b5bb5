----------------------------- MODULE DeviceLog -----------------------------
(***************************************************************************)
(* The binary log of the SDK (ISLogger.cpp, DeviceLog.cpp,                 *)
(* DeviceLogSerial.cpp, DataChunk.cpp): the data of a device is collected  *)
(* in a chunk, chunks are written to numbered files of a limited size, and *)
(* old files are deleted to keep to a limit of space.  Data are numbered   *)
(* as they come in, and sizes are counted in data.                         *)
(***************************************************************************)
EXTENDS Integers, SequencesExt, FiniteSetsExt

CONSTANTS Handles,       \* devices
          ChunkSize,     \* DEFAULT_CHUNK_DATA_SIZE
          MaxDiskSpace,  \* m_maxDiskSpace, a share of the space available
          AskedSizes,    \* the maximum file sizes asked for
          MinFileCount, MaxFileCount,   \* 50 and 10000
          MaxData        \* bound on the data received

VARIABLES maxFileSize,   \* m_maxFileSize
          chunk,         \* m_chunk, per device
          file,          \* m_pFile: "none", "open", "error" (ferror),
                         \*   "unopened" (an object without a file), "closed"
          fileSize, fileCount,
          disk,          \* the directory, the file modified last at the end
          saved,         \* the data SaveData took
          phase,         \* "log", "closing" or "crashed"
          failed,        \* devices for which some write failed
          count

gvars == <<maxFileSize, chunk, file, fileSize, fileCount, disk, saved, phase, failed, count>>

\* InitSaveCommon.  Where the size is raised for the sake of the count, the
\* last minimum takes it back.
FileSizeFor(asked) ==
    LET size == IF asked > MaxDiskSpace \div MinFileCount
                  THEN MaxDiskSpace \div MinFileCount
                ELSE IF asked < MaxDiskSpace \div MaxFileCount
                  THEN MaxDiskSpace \div MaxFileCount
                ELSE asked
    IN  Min({size, asked})

InitSave ==
    /\ \E asked \in AskedSizes : maxFileSize = FileSizeFor(asked)
    /\ chunk = [h \in Handles |-> <<>>] /\ file = [h \in Handles |-> "none"]
    /\ fileSize = [h \in Handles |-> 0] /\ fileCount = [h \in Handles |-> 0]
    /\ disk = <<>> /\ saved = [h \in Handles |-> <<>>]
    /\ phase = "log" /\ failed = {} /\ count = 0

----------------------------------------------------------------------------
(* The directory.  A file has what can be read back, and its size: after a *)
(* chunk that is cut off nothing is read.                                  *)

SpaceUsed(files) == FoldLeft(LAMBDA sum, f : sum + f.size, 0, files)

\* Mutant of DropOldest: the directory sorted the other way round.
DropNewest(files) ==
    LET n == Max({k \in 0..Len(files) : SpaceUsed(SubSeq(files, 1, k)) <= MaxDiskSpace})
    IN  SubSeq(files, 1, n)

\* The files modified longest ago are deleted, until the rest is within the limit.
DropOldest(files) ==
    LET n == Min({k \in 0..Len(files) :
                    SpaceUsed(SubSeq(files, k + 1, Len(files))) <= MaxDiskSpace})
    IN  SubSeq(files, n + 1, Len(files))

Number(n) == n % MaxFileCount                          \* in GetNewFileName
IsFile(f, h, n) == f.dev = h /\ f.number = Number(n)
Without(files, h, n) == SelectSeq(files, LAMBDA f : ~IsFile(f, h, n))

\* OpenNewSaveFile: a file of that name is truncated.
OpenNewSaveFile(h, opens) ==
    LET files == DropOldest(disk)
        n == fileCount[h] + 1
    IN  IF opens
        THEN Append(Without(files, h, n),
                    [dev |-> h, number |-> Number(n), data |-> <<>>, size |-> 0, torn |-> FALSE])
        ELSE files

\* A chunk at the end of the file n of h.  One that was deleted while it was
\* open is not in the directory.
Appended(files, h, n, whole) ==
    LET mine == SelectSeq(files, LAMBDA f : IsFile(f, h, n))
    IN  IF mine = <<>> THEN files
        ELSE Append(Without(files, h, n),
                [mine[1] EXCEPT !.size = @ + (IF whole THEN Len(chunk[h]) ELSE 0),
                                !.data = IF whole /\ ~mine[1].torn THEN @ \o chunk[h] ELSE @,
                                !.torn = @ \/ ~whole])

----------------------------------------------------------------------------
\* Mutant of WriteChunk: the number of the file is not counted up.
WriteChunkUncounted(h, opens, whole) ==
    LET fresh == file[h] = "none"
        state == IF ~fresh THEN file[h] ELSE IF opens THEN "open" ELSE "unopened"
        files == IF fresh THEN OpenNewSaveFile(h, opens) ELSE disk
    IN  [disk |-> IF state = "unopened" THEN files
                  ELSE Appended(files, h, fileCount[h] + (IF fresh THEN 1 ELSE 0), whole),
         count |-> fileCount[h],
         size |-> (IF fresh THEN 0 ELSE fileSize[h])
                    + (IF state = "open" /\ whole THEN Len(chunk[h]) ELSE 0),
         state |-> IF state = "open" /\ ~whole THEN "error" ELSE state,
         left |-> IF whole /\ state # "unopened" THEN <<>> ELSE chunk[h],
         good |-> state = "open" /\ whole]

\* WriteChunkToFile: the first chunk opens a file.  An error of the stream is
\* never cleared, and a file that did not open is not opened again; what is
\* written whole is cleared from the chunk in either case.
WriteChunk(h, opens, whole) ==
    LET fresh == file[h] = "none"
        state == IF ~fresh THEN file[h] ELSE IF opens THEN "open" ELSE "unopened"
        files == IF fresh THEN OpenNewSaveFile(h, opens) ELSE disk
        n == fileCount[h] + (IF fresh THEN 1 ELSE 0)
    IN  [disk |-> IF state = "unopened" THEN files ELSE Appended(files, h, n, whole),
         count |-> n,
         size |-> (IF fresh THEN 0 ELSE fileSize[h])
                    + (IF state = "open" /\ whole THEN Len(chunk[h]) ELSE 0),
         state |-> IF state = "open" /\ ~whole THEN "error" ELSE state,
         left |-> IF whole /\ state # "unopened" THEN <<>> ELSE chunk[h],
         good |-> state = "open" /\ whole]

PushBack(h) ==
    /\ phase = "log" /\ count < MaxData /\ Len(chunk[h]) < ChunkSize
    /\ count' = count + 1
    /\ chunk' = [chunk EXCEPT ![h] = Append(@, count')]
    /\ saved' = [saved EXCEPT ![h] = Append(@, count')]
    /\ UNCHANGED <<maxFileSize, file, fileSize, fileCount, disk, phase, failed>>

\* Data that do not fit: the chunk is written first.  When that fails the data
\* are refused; when the file is large enough it is closed.
SaveData(h, opens, whole) ==
    /\ phase = "log" /\ count < MaxData /\ Len(chunk[h]) = ChunkSize
    /\ count' = count + 1
    /\ LET w == WriteChunk(h, opens, whole)
       IN  /\ disk' = w.disk
           /\ fileCount' = [fileCount EXCEPT ![h] = w.count]
           /\ fileSize' = [fileSize EXCEPT ![h] = w.size]
           /\ file' = [file EXCEPT ![h] = IF w.good /\ w.size >= maxFileSize THEN "none"
                                          ELSE w.state]
           /\ chunk' = [chunk EXCEPT ![h] = IF w.good THEN <<count'>> ELSE w.left]
           /\ saved' = IF w.good THEN [saved EXCEPT ![h] = Append(@, count')] ELSE saved
           /\ failed' = IF w.good THEN failed ELSE failed \cup {h}
    /\ UNCHANGED <<maxFileSize, phase>>

\* cISLogger::CloseAllFiles, one device after the other: the rest of the chunk
\* is written, into a new file if need be.
CloseAllFiles(h, opens, whole) ==
    /\ phase \in {"log", "closing"}
    /\ file[h] # "closed" /\ \A g \in Handles : g < h => file[g] = "closed"
    /\ phase' = "closing"
    /\ file' = [file EXCEPT ![h] = "closed"]
    /\ chunk' = [chunk EXCEPT ![h] = <<>>]
    /\ IF chunk[h] = <<>>
       THEN UNCHANGED <<disk, fileCount, failed>>
       ELSE LET w == WriteChunk(h, opens, whole)
            IN  /\ disk' = w.disk
                /\ fileCount' = [fileCount EXCEPT ![h] = w.count]
                /\ failed' = IF w.good THEN failed ELSE failed \cup {h}
    /\ UNCHANGED <<maxFileSize, fileSize, saved, count>>

\* The program ends without closing: of every open file the end, which was
\* still buffered, may be missing.
Crash ==
    /\ phase = "log" /\ phase' = "crashed"
    /\ \E kept \in [1..Len(disk) -> 0..MaxData] :
        /\ \A i \in 1..Len(disk) :
              kept[i] <= Len(disk[i].data)
                /\ (~(file[disk[i].dev] = "open" /\ IsFile(disk[i], disk[i].dev, fileCount[disk[i].dev]))
                        => kept[i] = Len(disk[i].data))
        /\ disk' = [i \in 1..Len(disk) |->
                      [disk[i] EXCEPT !.data = SubSeq(@, 1, kept[i]), !.size = kept[i]]]
    /\ UNCHANGED <<maxFileSize, chunk, file, fileSize, fileCount, saved, failed, count>>

GNext ==
    \/ \E h \in Handles : PushBack(h)
    \/ \E h \in Handles, opens, whole \in BOOLEAN :
          SaveData(h, opens, whole) \/ CloseAllFiles(h, opens, whole)
    \/ Crash
GSpec == InitSave /\ [][GNext]_gvars

----------------------------------------------------------------------------
\* ReadData to the end: the files of a serial number in the order of their
\* names, in each the chunks up to one that is cut off.
ReadData(h) ==
    LET mine == SelectSeq(disk, LAMBDA f : f.dev = h)
        sorted == SortSeq(mine, LAMBDA f, g : f.number < g.number)
    IN  FlattenSeq([i \in 1..Len(sorted) |-> sorted[i].data])

\* Through old files deleted, writes that fail and a crash, what is read back
\* of a device is an unbroken run of what was saved of it, in order: from its
\* beginning as long as all of it fits in the space allowed; once it is closed
\* with no write failed and its last file is in place, to the end.
ReadsBack ==
    \A h \in Handles :
        LET read == ReadData(h)
            n == Len(saved[h])
        IN  \E i \in 0..n :
              /\ i + Len(read) <= n /\ read = SubSeq(saved[h], i + 1, i + Len(read))
              /\ MapThenSumSet(LAMBDA g : Len(saved[g]), Handles) <= MaxDiskSpace => i = 0
              /\ (file[h] = "closed" /\ h \notin failed
                    /\ \E k \in 1..Len(disk) : IsFile(disk[k], h, fileCount[h]))
                      => i + Len(read) = n

\* The space used goes over the limit by no more than what the devices' open
\* files may still grow by.
SpaceBounded ==
    failed = {} => SpaceUsed(disk) <=
        MaxDiskSpace + Cardinality(Handles) * (maxFileSize - 1 + ChunkSize)

\* What the code does not do: "ensure there are between min and max file
\* count", for lack of which numbers come round and files are overwritten.
NeverOverwrites ==
    [][\A h \in Handles : fileCount'[h] > fileCount[h] =>
          Without(DropOldest(disk), h, fileCount'[h]) = DropOldest(disk)]_gvars
=============================================================================
