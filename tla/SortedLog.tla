----------------------------- MODULE SortedLog -----------------------------
(***************************************************************************)
(* The sorted log of the SDK (DeviceLogSorted.cpp, DataChunkSorted.cpp),   *)
(* of one device: data are collected in a chunk for each data set and      *)
(* numbered as they come in; a chunk is written when it is full.  Reading  *)
(* searches all files for the next chunk of each data set and puts the     *)
(* data back in order by their numbers.                                    *)
(***************************************************************************)
EXTENDS Integers, SequencesExt, FiniteSetsExt

CONSTANTS Headers,       \* of data: [id, size], data sets counted from 1
          ChunkRoom,     \* DEFAULT_CHUNK_DATA_SIZE, a number takes 1
          SortedSpace,   \* m_maxDiskSpace
          SortedFile,    \* m_maxFileSize
          MaxSorted      \* bound on the data logged

VARIABLES stage,         \* "write"; "read" and "over", of a log that was closed or not
          chunks,        \* m_chunks: a header and numbers, per data set
          dataSerNum,    \* m_dataSerNum
          files,         \* on the disk, in the order of their names
          writing,       \* m_pFile # NULL
          broken,        \* the disk takes no more
          logged, closed,  \* what SaveData took; that the log was closed
          places,        \* the positions in m_pFiles
          available,     \* m_chunksAvailable
          got            \* what ReadData returned

svars == <<stage, chunks, dataSerNum, files, writing, broken, logged, closed, places, available, got>>

DataSets == 1..Max({h.id : h \in Headers})
NoChunk == [header |-> [id |-> 0, size |-> 0], data |-> <<>>]

SInit ==
    /\ stage = "write" /\ dataSerNum = 0 /\ files = <<>>
    /\ writing = FALSE /\ broken = FALSE /\ closed = FALSE
    /\ chunks = [id \in DataSets |-> NoChunk]
    /\ logged = <<>> /\ places = <<>> /\ available = {} /\ got = <<>>

----------------------------------------------------------------------------
(* Writing.  The state that WriteChunkToFile changes is a record.          *)

Bytes(c) == Len(c.data) * (1 + c.header.size)
Size(f) == FoldLeft(LAMBDA sum, c : sum + 1 + Bytes(c), 0, f)
SpaceUsed(fs) == FoldLeft(LAMBDA sum, f : sum + Size(f), 0, fs)

\* OpenNewSaveFile: the oldest files go until the rest fits.
OpenNewSaveFile(fs) ==
    LET n == Min({k \in 0..Len(fs) : SpaceUsed(SubSeq(fs, k + 1, Len(fs))) <= SortedSpace})
    IN  Append(SubSeq(fs, n + 1, Len(fs)), <<>>)

\* WriteChunkToFile where it succeeds.  A file that is large enough is closed.
WriteChunk(s, id) ==
    IF s.chunks[id].data = <<>> THEN s
    ELSE LET fs == IF s.writing THEN s.files ELSE OpenNewSaveFile(s.files)
             grown == [fs EXCEPT ![Len(fs)] = Append(@, s.chunks[id])]
         IN  [files |-> grown, writing |-> Size(Last(grown)) < SortedFile,
              chunks |-> [s.chunks EXCEPT ![id].data = <<>>]]

Logger == [files |-> files, writing |-> writing, chunks |-> chunks]

\* Mutant of MustWrite: a chunk is written only when it is full.
MustWriteFull(h) == h.size + 1 > ChunkRoom - Bytes(chunks[h.id])

\* The data do not go with what is in the chunk, or into it.
MustWrite(h) ==
    chunks[h.id].header # h \/ h.size + 1 > ChunkRoom - Bytes(chunks[h.id])

\* SaveData: on a disk that takes no more the data are refused.
SaveData(h) ==
    /\ stage = "write" /\ dataSerNum < MaxSorted
    /\ IF MustWrite(h) /\ broken /\ chunks[h.id].data # <<>>
       THEN UNCHANGED svars
       ELSE LET s == IF MustWrite(h) THEN WriteChunk(Logger, h.id) ELSE Logger
                header == IF MustWrite(h) THEN h ELSE s.chunks[h.id].header
            IN  /\ files' = s.files /\ writing' = s.writing
                /\ chunks' = [s.chunks EXCEPT ![h.id] =
                                 [header |-> header, data |-> Append(@.data, dataSerNum)]]
                /\ logged' = Append(logged, [header |-> h, n |-> dataSerNum])
                /\ dataSerNum' = dataSerNum + 1
                /\ UNCHANGED <<stage, broken, closed, places, available, got>>

\* From here on writing fails, or a file that was to be opened was not.
DiskFills == stage = "write" /\ ~broken /\ broken' = TRUE
             /\ UNCHANGED <<stage, chunks, dataSerNum, files, writing, logged, closed, places, available, got>>

\* InitDeviceForReading, of files and whatever became of the log.
InitDeviceForReading(fs) ==
    /\ stage' = "read" /\ files' = fs /\ writing' = FALSE
    /\ chunks' = [id \in DataSets |-> NoChunk] /\ dataSerNum' = 0
    /\ places' = [i \in 1..Len(fs) |-> 1] /\ available' = DataSets
    /\ UNCHANGED <<broken, logged, got>>

\* CloseAllFiles: the rest of every chunk is written.
CloseAllFiles ==
    /\ stage = "write" /\ closed' = TRUE
    /\ InitDeviceForReading(
          IF broken THEN files
          ELSE FoldLeft(WriteChunk, Logger, [id \in DataSets |-> id]).files)

\* The program ends without closing: chunks in memory are gone, and of the
\* open file the end may be.
Crash ==
    /\ stage = "write" /\ UNCHANGED closed
    /\ \E kept \in 0..MaxSorted :
          /\ IF writing THEN kept <= Len(Last(files)) ELSE kept = 0
          /\ InitDeviceForReading(
                IF writing THEN [files EXCEPT ![Len(files)] = SubSeq(@, 1, kept)] ELSE files)

----------------------------------------------------------------------------
(* Reading.                                                                *)

First(c) == c.data[1]

\* The chunks of f from p on that have the data set's next data.
Sought(f, p, id, n) == {k \in p..Len(f) : f[k].header.id = id /\ First(f[k]) >= n}

\* Mutant of Trimmed: the file is read on from behind the chunk found.
TrimmedBehind(f, p, id, n) ==
    IF Sought(f, p, id, n) # {} THEN Min(Sought(f, p, id, n)) + 1 ELSE p

\* ReadFromFiles in one file: its position moves past chunks that are old, and
\* past the one found where none that is still to be read is before it.
Trimmed(f, p, id, n) ==
    LET new == Min({k \in p..Len(f) + 1 : k > Len(f) \/ First(f[k]) >= n})
    IN  IF new \in Sought(f, p, id, n) THEN new + 1 ELSE new

\* ReadNextChunkFromFiles: of the first file that has one.  Where there is
\* none the data set is not looked for again.
ReadNextChunk(s, id) ==
    LET has == {i \in 1..Len(files) : Sought(files[i], s.places[i], id, dataSerNum) # {}}
        last == IF has = {} THEN Len(files) ELSE Min(has)
        moved == [i \in 1..Len(files) |->
                     IF i <= last THEN Trimmed(files[i], s.places[i], id, dataSerNum)
                     ELSE s.places[i]]
    IN  IF has = {} THEN [s EXCEPT !.places = moved, !.available = @ \ {id}]
        ELSE [s EXCEPT !.places = moved,
                       !.chunks[id] = files[last][Min(Sought(files[last], s.places[last], id, dataSerNum))]]

\* One turn of the loop in SerializeDataFromChunks: an empty chunk is filled,
\* and the loop ends at the number that is next.
Look(s, id) ==
    IF s.found \/ id \notin s.available THEN s
    ELSE LET t == IF s.chunks[id].data = <<>> THEN ReadNextChunk(s, id) ELSE s
         IN  IF t.chunks[id].data = <<>> THEN t
             ELSE [t EXCEPT !.found = First(t.chunks[id]) = dataSerNum,
                            !.from = IF @ = 0 \/ First(t.chunks[id]) < First(t.chunks[@]) THEN id ELSE @]

ReadData ==
    /\ stage = "read"
    /\ LET s == FoldLeft(Look,
                         [chunks |-> chunks, places |-> places, available |-> available,
                          found |-> FALSE, from |-> 0],
                         [id \in DataSets |-> id])
       IN  /\ places' = s.places /\ available' = s.available
           /\ IF s.from = 0
              THEN stage' = "over" /\ chunks' = s.chunks /\ UNCHANGED <<dataSerNum, got>>
              ELSE LET c == s.chunks[s.from]
                   IN  /\ got' = Append(got, [header |-> c.header, n |-> First(c)])
                       /\ dataSerNum' = First(c) + 1
                       /\ chunks' = [s.chunks EXCEPT ![s.from].data = Tail(@)]
                       /\ UNCHANGED stage
    /\ UNCHANGED <<files, writing, broken, logged, closed>>

SNext == (\E h \in Headers : SaveData(h)) \/ DiskFills \/ CloseAllFiles \/ Crash \/ ReadData

SSpec == SInit /\ [][SNext]_svars

----------------------------------------------------------------------------
\* The numbers that are in the files.
OnDisk == UNION {UNION {ToSet(files[i][k].data) : k \in 1..Len(files[i])} : i \in 1..Len(files)}

\* The most space that data take, each in a chunk of its own.
Room(data) == FoldLeft(LAMBDA sum, d : sum + 2 + d.header.size, 0, data)

\* What is read is what was logged, with its own header, in the order in which
\* it came in; in the end it is all that is on the disk, and all of a log that
\* was closed on a disk with room.
Reserialized ==
    /\ ToSet(got) \subseteq ToSet(logged)
    /\ \A i, j \in 1..Len(got) : i < j => got[i].n < got[j].n
    /\ stage = "over" =>
          /\ {got[i].n : i \in 1..Len(got)} = OnDisk
          /\ (closed /\ ~broken /\ Room(logged) <= SortedSpace) => got = logged
=============================================================================
