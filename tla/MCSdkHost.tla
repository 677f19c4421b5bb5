----------------------------- MODULE MCSdkHost -----------------------------
(***************************************************************************)
(* Small instances, for TLC, of the parts of the SDK's client on the host: *)
(* the list of devices, their flash configurations, the logger thread, log *)
(* files in two formats, and NMEA sentences.  They share no state; a       *)
(* behaviour is that of one of them.                                       *)
(***************************************************************************)
EXTENDS InertialSenseClient, NmeaFix

CONSTANTS Values, MaxUploads,                           \* flash configuration
          ChunkSize, MaxDiskSpace, AskedSizes, MinFileCount, MaxFileCount, MaxData,  \* log files
          ChunkRoom, SortedSpace, SortedFile, MaxSorted,            \* sorted log files
          MaxSatellites, MaxSignals, MaxCommands   \* NMEA

ThreePorts == <<1, 2, 3>>
FirstDevice == {0}

\* Fixes on 29 Feb and 1 Mar 2024 and as the year before ended, of any quality
\* and in every quarter of the world; one as a week begins.
Fix(week, tow, lat, lon, fix, bits) ==
    [week |-> week, tow |-> tow, leapS |-> 18, lat |-> lat, lon |-> lon, fix |-> fix, bits |-> bits]
Fixes ==
    {Fix(2303, 388818000, -2030, 9075, "rtkFix", {0, 3}), Fix(2295, 86410000, 2400, -7300, "3D", {1, 2}),
     Fix(2303, 432018000, -30, -59, "none", {}), Fix(2295, 5000, 0, -60, "timeOnly", {0})}

\* Satellites of every system, with signals of every band.
Sat(g, sv) == [gnss |-> g, sv |-> sv, elev |-> sv % 90, azim |-> 0]
Sig(g, sv, s, cno) == [gnss |-> g, sv |-> sv, sig |-> s, cno |-> cno]
FewSatellites ==
    [numSats |-> 5, numSigs |-> 9,
     sats |-> <<Sat("GPS", 3), Sat("GPS", 32), Sat("SBS", 133), Sat("GAL", 3), Sat("BEI", 40)>>,
     sigs |-> <<Sig("GPS", 3, "L1CA", 40), Sig("GPS", 3, "L2CM", 35), Sig("GPS", 32, "L1CA", 0),
                Sig("SBS", 133, "L1CA", 38), Sig("GAL", 3, "E1B2", 30), Sig("GAL", 3, "E5bI", 31),
                Sig("BEI", 40, "B2D2", 20), Sig("GPS", 3, "L5I", 25), Sig("GPS", 32, "L2CL", 25)>>]
ManySatellites ==
    [numSats |-> 8, numSigs |-> 9,
     sats |-> <<Sat("GLO", 1), Sat("QZS", 2), Sat("IRN", 5), Sat("GPS", 1), Sat("GPS", 2), Sat("SBS", 120),
                Sat("GPS", 9), Sat("GPS", 10)>>,
     sigs |-> <<Sig("GLO", 1, "L2OF", 40), Sig("QZS", 2, "L1S", 35), Sig("IRN", 5, "L5A", 20), Sig("GPS", 1, "L1CA", 20),
                Sig("GPS", 2, "L1CA", 21), Sig("GPS", 9, "L1CA", 22), Sig("GPS", 10, "L1CA", 23),
                Sig("SBS", 120, "L1CA", 24), Sig("GLO", 1, "L1OF", 41)>>]

\* One satellite and its signals have set since.
FewerSatellites ==
    [numSats |-> 4, numSigs |-> 5,
     sats |-> <<Sat("GPS", 3), Sat("SBS", 133), Sat("GAL", 3), Sat("GPS", 9), Sat("GPS", 32)>>,
     sigs |-> <<Sig("GPS", 3, "L1CA", 40), Sig("SBS", 133, "L1CA", 38), Sig("GAL", 3, "E1B2", 30),
                Sig("GPS", 9, "L2CL", 35), Sig("GPS", 9, "L1CA", 36), Sig("GPS", 32, "L1CA", 21),
                Sig("GPS", 32, "L2CL", 20)>>]

\* Commands to the port they come to, to some, to all and to none, with
\* periods of more than a byte, a sentence twice and a period missing.
Ascb(options, periods) == [type |-> "ASCB", options |-> options, fields |-> periods]
Asce(options, fields) == [type |-> "ASCE", options |-> options, fields |-> fields]
NmeaCommands ==
    {Ascb(0, <<1, 0, 256, 3>>), Ascb(255, <<0, 5, 0, 0, 0, 2>>), Ascb(10, <<>>),
     Asce(0, <<[name |-> "PINS1", period |-> 4], [number |-> 3, period |-> 0]>>),
     Asce(6, <<[name |-> "GxGSV", period |-> 1], [name |-> "GxGSV", period |-> 7], [name |-> "PIMU"]>>),
     Asce(255, <<[number |-> 17, period |-> 512], [number |-> 13, period |-> 9]>>),
     Asce(16, <<[number |-> 1, period |-> 2]>>)}

\* Data of two data sets, one of them with data of two sizes.
LogHeaders == {[id |-> 1, size |-> 1], [id |-> 2, size |-> 1], [id |-> 2, size |-> 2]}

VARIABLES part,
          flashCfg, sysParams, uploading, flash, toDevice, toHost, saved, uploads,
          maxFileSize, chunk, file, fileSize, fileCount, disk, taken, logging, failed, numbered,
          version, sky, lines, sat, sig, lost,
          rmcNmea, commands,
          stage, chunks, dataSerNum, files, writing, broken, sorted, closed, places, available, got

flashVars == <<flashCfg, sysParams, uploading, flash, toDevice, toHost, saved, uploads>>
logVars == <<maxFileSize, chunk, file, fileSize, fileCount, disk, taken, logging, failed, numbered>>
skyVars == <<version, sky, lines, sat, sig, lost>>
streamVars == <<rmcNmea, commands>>
nmeaVars == <<nvars, skyVars, streamVars>>
sortedVars == <<stage, chunks, dataSerNum, files, writing, broken, sorted, closed, places, available, got>>
vars == <<part, dvars, flashVars, lvars, logVars, nmeaVars, sortedVars>>

Flash == INSTANCE FlashSync WITH Devices <- FirstDevice, file <- saved
Log == INSTANCE DeviceLog WITH saved <- taken, count <- numbered, phase <- logging
Nmea == INSTANCE NmeaSentences WITH
    Skies <- {FewSatellites, ManySatellites, FewerSatellites}, Commands <- NmeaCommands
Sorted == INSTANCE SortedLog WITH Headers <- LogHeaders, logged <- sorted

ASSUME SdkHostAssumption ==
    /\ DevicesAssumption /\ FixAssumption /\ MinFileCount \in Nat \ {0}
    /\ MaxFileCount \in Nat \ {0} /\ AskedSizes \subseteq Nat \ {0}

NoFlash == Flash!FInit /\ flash = [d \in FirstDevice |-> CHOOSE c \in Flash!Plain : TRUE]
NoLog == Log!InitSave /\ \A asked \in AskedSizes : maxFileSize <= Log!FileSizeFor(asked)
NoFix == NInit /\ reader = "did" /\ gps = CHOOSE f \in Fixes : TRUE
NoSky == version = "2.3" /\ sky = <<>> /\ lines = <<>> /\ sat = <<>> /\ sig = <<>> /\ lost = FALSE
NoStream == rmcNmea = <<>> /\ commands = <<>>

Init ==
    /\ DInit /\ LInit /\ Sorted!SInit
    /\ \/ part \in {"dev", "thread", "sorted"} /\ NoFlash /\ NoLog /\ NoFix /\ NoSky /\ NoStream
       \/ part = "flash" /\ Flash!FInit /\ NoLog /\ NoFix /\ NoSky /\ NoStream
       \/ part = "log" /\ NoFlash /\ Log!InitSave /\ NoFix /\ NoSky /\ NoStream
       \/ part = "fix" /\ NoFlash /\ NoLog /\ NInit /\ NoSky /\ NoStream
       \/ part = "sky" /\ NoFlash /\ NoLog /\ NoFix /\ Nmea!GInit /\ NoStream
       \/ part = "stream" /\ NoFlash /\ NoLog /\ NoFix /\ NoSky /\ Nmea!MInit

\* Only the part of a behaviour is run.
Others(name) ==
    /\ part = name /\ UNCHANGED part
    /\ name # "dev" => UNCHANGED dvars
    /\ name # "flash" => UNCHANGED flashVars
    /\ name # "thread" => UNCHANGED lvars
    /\ name # "log" => UNCHANGED logVars
    /\ name # "fix" => UNCHANGED nvars
    /\ name # "sky" => UNCHANGED skyVars
    /\ name # "stream" => UNCHANGED streamVars
    /\ name # "sorted" => UNCHANGED sortedVars

DevStep == Others("dev") /\ DNext
FlashStep == Others("flash") /\ Flash!FNext
ThreadStep == Others("thread") /\ LNext
LogStep == Others("log") /\ Log!GNext
FixStep == Others("fix") /\ NNext
SkyStep == Others("sky") /\ Nmea!GNext
StreamStep == Others("stream") /\ Nmea!MNext
SortedStep == Others("sorted") /\ Sorted!SNext

Next ==
    \/ DevStep \/ FlashStep \/ ThreadStep \/ LogStep \/ FixStep \/ SkyStep \/ StreamStep
    \/ SortedStep

Fairness ==
    /\ WF_vars(Others("dev") /\ QueryEnds) /\ WF_vars(Others("dev") /\ Prune)
    /\ WF_vars(Others("dev") /\ Trim)
    /\ WF_vars(Others("dev") /\ \E heard \in Heard : Query({}, heard))
    /\ WF_vars(Others("thread") /\ LoggerThread) /\ WF_vars(Others("thread") /\ Joined)
    /\ \A d \in FirstDevice :
          /\ SF_vars(Others("flash") /\ Flash!Broadcast(d) /\ Flash!Arrives(d))
          /\ SF_vars(Others("flash") /\ Flash!Asked(d)) /\ SF_vars(Others("flash") /\ Flash!Told(d))
    /\ \A d \in FirstDevice, c \in Flash!Config :
          /\ WF_vars(Others("flash") /\ Flash!ProcessRxData(Flash!IsSys(d, c)))
          /\ WF_vars(Others("flash") /\ Flash!ProcessRxData(Flash!IsFlash(d, c)))
          /\ WF_vars(Others("flash") /\ Flash!DeviceReceives(Flash!Set(d, c)))
Spec == Init /\ [][Next]_vars /\ Fairness

----------------------------------------------------------------------------
\* Once there are no more uploads, client and device come to agree.
FlashAgrees == part = "flash" => Flash!FlashAgrees

\* What is read back from files is what was logged, and old files make room.
LogComplete ==
    /\ Flash!FTypeOK
    /\ Log!ReadsBack /\ Log!SpaceBounded
    /\ Sorted!Reserialized

\* What NMEA sentences say of satellites is read as it was meant, and so are
\* the commands for the sentences themselves.
NmeaGivesBack ==
    /\ part = "sky" => Nmea!SkyArrives
    /\ part = "stream" => Nmea!StreamsAsAsked

\* Opening ends, and so does disabling the log; a queued packet is written.
ClientReturns ==
    OpenEnds /\ DisableReturns /\ WrittenUnlessDisabled
=============================================================================
