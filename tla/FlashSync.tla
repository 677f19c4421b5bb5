----------------------------- MODULE FlashSync -----------------------------
(***************************************************************************)
(* The flash configuration of the devices as the SDK's client keeps it     *)
(* (InertialSense.cpp): a copy per device, uploads, a periodic check of    *)
(* checksums, over a link that loses and delays packets, and a file to     *)
(* save it in and load it from.  A configuration is its own checksum.      *)
(***************************************************************************)
EXTENDS Integers, Sequences

CONSTANTS Devices,     \* handles; 0 is the default
          Values,      \* what each group of fields may hold
          MaxUploads   \* bound on SetFlashConfig and LoadFlashConfig

\* Fields in groups: the vector t_b2w, its deviation, and all the others.
Config == [t_b2w : Values, t_b2w_sigma : Values, rest : Values]
Plain == {c \in Config : c.t_b2w = c.rest /\ c.t_b2w_sigma = c.rest}
Unknown == [t_b2w |-> -1, t_b2w_sigma |-> -1, rest |-> -1]   \* zeroed
Invalid == [t_b2w |-> -2, t_b2w_sigma |-> -2, rest |-> -2]   \* 0xFFFFFFFF
Copies == Config \cup {Unknown}

VARIABLES flashCfg,    \* the client's copy, with its checksum
          sysParams,   \* sysParams.flashCfgChecksum
          uploading,   \* flashCfgUploadTimeMs is set
          flash,       \* what the device has
          toDevice, toHost,   \* packets on the wire
          file,        \* the saved file
          uploads      \* uploads so far

fvars == <<flashCfg, sysParams, uploading, flash, toDevice, toHost, file, uploads>>

FInit ==
    /\ flashCfg = [d \in Devices |-> Unknown]
    /\ sysParams = [d \in Devices |-> Invalid]
    /\ uploading = [d \in Devices |-> FALSE]
    /\ flash \in [Devices -> Plain]
    /\ toDevice = {} /\ toHost = {}
    /\ file = Unknown /\ uploads = 0

Get(d) == [to |-> d, ask |-> TRUE, cfg |-> Unknown]
Set(d, c) == [to |-> d, ask |-> FALSE, cfg |-> c]
IsFlash(d, c) == [from |-> d, did |-> "FLASH_CONFIG", cfg |-> c]
IsSys(d, c) == [from |-> d, did |-> "SYS_PARAMS", cfg |-> c]

\* A packet that is sent may be lost.
Send(wire, m) == {wire, wire \cup {m}}

----------------------------------------------------------------------------
\* SetFlashConfig
Upload(d, c) ==
    /\ uploads < MaxUploads /\ uploads' = uploads + 1
    /\ flashCfg' = [flashCfg EXCEPT ![d] = c]
    /\ sysParams' = [sysParams EXCEPT ![d] = c]
    /\ uploading' = [uploading EXCEPT ![d] = TRUE]
    /\ toDevice' \in Send(toDevice, Set(d, c))
    /\ UNCHANGED <<flash, toHost, file>>

\* Mutant of SyncFlashConfig: an upload is never over.
SyncUnlessUploading(waiting) ==
    /\ LET ask == {d \in Devices : ~uploading[d] /\ flashCfg[d] # sysParams[d]}
       IN  \E through \in SUBSET {Get(d) : d \in ask} :
                toDevice' = toDevice \cup through
    /\ UNCHANGED <<flashCfg, sysParams, uploading, flash, toHost, file, uploads>>

\* The periodic check: an upload of the last period is waited for once more.
SyncFlashConfig(waiting) ==
    /\ waiting \subseteq {d \in Devices : uploading[d]}
    /\ uploading' = [d \in Devices |-> d \in waiting]
    /\ LET ask == {d \in Devices \ waiting : flashCfg[d] # sysParams[d]}
       IN  \E through \in SUBSET {Get(d) : d \in ask} :
                toDevice' = toDevice \cup through
    /\ UNCHANGED <<flashCfg, sysParams, flash, toHost, file, uploads>>

\* Mutant of ProcessRxData: a configuration does not bring its checksum along.
ProcessRxDataUnmarked(m) ==
    /\ m \in toHost /\ toHost' = toHost \ {m}
    /\ IF m.did = "FLASH_CONFIG"
       THEN flashCfg' = [flashCfg EXCEPT ![m.from] = m.cfg] /\ UNCHANGED sysParams
       ELSE UNCHANGED <<flashCfg, sysParams>>
    /\ UNCHANGED <<uploading, flash, toDevice, file, uploads>>

ProcessRxData(m) ==
    /\ m \in toHost /\ toHost' = toHost \ {m}
    /\ sysParams' = [sysParams EXCEPT ![m.from] = m.cfg]
    /\ flashCfg' = IF m.did = "FLASH_CONFIG" THEN [flashCfg EXCEPT ![m.from] = m.cfg]
                   ELSE flashCfg
    /\ UNCHANGED <<uploading, flash, toDevice, file, uploads>>

\* What GetFlashConfig returns: the copy, and whether it is synchronized.
Synchronized(d) == sysParams[d] = flashCfg[d]

----------------------------------------------------------------------------
\* The file holds every field under a key of its own.
SaveFlashConfigFile(d) ==
    /\ flashCfg[d] \in Config
    /\ file' = flashCfg[d]
    /\ UNCHANGED <<flashCfg, sysParams, uploading, flash, toDevice, toHost, uploads>>

\* What is read back: t_b2w from the key of its deviation.
Loaded == [file EXCEPT !.t_b2w = file.t_b2w_sigma]

\* The copy read and the configuration written are those of device 0,
\* whichever device is named.
LoadFlashConfig(d) == file \in Config /\ Upload(0, Loaded)

----------------------------------------------------------------------------
(* The devices                                                             *)

DeviceReceives(m) ==
    /\ m \in toDevice /\ toDevice' = toDevice \ {m}
    /\ IF m.ask
       THEN toHost' \in Send(toHost, IsFlash(m.to, flash[m.to])) /\ UNCHANGED flash
       ELSE flash' = [flash EXCEPT ![m.to] = m.cfg] /\ UNCHANGED toHost
    /\ UNCHANGED <<flashCfg, sysParams, uploading, file, uploads>>

Broadcast(d) ==
    /\ toHost' \in Send(toHost, IsSys(d, flash[d]))
    /\ UNCHANGED <<flashCfg, sysParams, uploading, flash, toDevice, file, uploads>>

FNext ==
    \/ \E d \in Devices, c \in Plain : Upload(d, c)
    \/ \E waiting \in SUBSET Devices : SyncFlashConfig(waiting)
    \/ \E m \in toHost : ProcessRxData(m)
    \/ \E m \in toDevice : DeviceReceives(m)
    \/ \E d \in Devices : SaveFlashConfigFile(d) \/ LoadFlashConfig(d) \/ Broadcast(d)

\* The client is updated for ever and an upload does not stay in progress; of
\* the packets sent again and again some get through.
Arrives(d) == IsSys(d, flash[d]) \in toHost'
Asked(d) == SyncFlashConfig({}) /\ (flashCfg[d] # sysParams[d] => Get(d) \in toDevice')
Told(d) == DeviceReceives(Get(d)) /\ IsFlash(d, flash[d]) \in toHost'
FFairness ==
    \A d \in Devices :
        /\ SF_fvars(Broadcast(d) /\ Arrives(d)) /\ SF_fvars(Asked(d)) /\ SF_fvars(Told(d))
        /\ \A c \in Config :
              /\ WF_fvars(ProcessRxData(IsSys(d, c))) /\ WF_fvars(ProcessRxData(IsFlash(d, c)))
              /\ WF_fvars(DeviceReceives(Set(d, c)))

FSpec == FInit /\ [][FNext]_fvars /\ FFairness

----------------------------------------------------------------------------
FTypeOK ==
    /\ flashCfg \in [Devices -> Copies] /\ sysParams \in [Devices -> Config \cup {Invalid}]
    /\ uploading \in [Devices -> BOOLEAN] /\ flash \in [Devices -> Config]
    /\ file \in Copies /\ uploads \in 0..MaxUploads

\* However packets are lost, delayed and overtaken, also by an upload while an
\* older configuration is on its way: once there are no more uploads, the
\* copy of every device is what the device has, and is known to be.
Agreed == \A d \in Devices : flashCfg[d] = flash[d] /\ Synchronized(d)
FlashAgrees == <>[]Agreed

\* What the code does not do: give back from a file what was saved in it, on
\* the device that is named.
LoadsWhatWasSaved ==
    [][\A d \in Devices : LoadFlashConfig(d) => flashCfg'[d] = file]_fvars
=============================================================================
