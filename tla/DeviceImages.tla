---------------------------- MODULE DeviceImages ----------------------------
(***************************************************************************)
(* One device through firmware updates (ISBootloaderBase.cpp): which mode  *)
(* it is put in and which image it is given, decided by the signatures of  *)
(* the two files of BootloadFile and by what the device answers in its     *)
(* application, in its bootloader (ISB) and in ROM; and how                *)
(* cISBootloaderSAMBA writes and verifies a bootloader in ROM, by commands *)
(* that are not acknowledged.  The bootloader of an IMX-5 is written       *)
(* through DFU (DfuProgram).                                               *)
(***************************************************************************)
EXTENDS Naturals, Sequences

CONSTANTS Files,       \* [fw, bl, version]: the signature of the firmware, the
                       \* signatures of the bootloader and its version
          Versions,    \* bootloaders that devices may have
          LoaderPages  \* pages of a bootloader, a sector of the flash memory each

ImagesAssumption ==
    /\ LoaderPages \in Nat \ {0} /\ Versions \subseteq Nat
    /\ \A f \in Files : f.version \in Nat /\ (f.bl # {} => f.version >= 6)

Pages == 1..LoaderPages

FirstTelling == 6      \* version 6 tells what it is; its applications begin higher
Sams == {"SAM16", "SAM24"}
Damaged == 0

VARIABLES
    kind, rom,                  \* the device: "uINS3", "EVB2" or "IMX5"; ROM available
    runs, version, application, memory, \* "APP", "ISB" or "ROM"; its bootloader's version;
                                \* its application; the versions of the bootloader
                                \* programmed over each other in each of its pages
    files, force,               \* what BootloadFile is called with
    pc,                         \* "idle", "page" or "verify"
    isUSB, offset, checksum     \* of download_image: in pages; pages summed up

device == <<kind, rom>>
host == <<files, force>>
samba == <<pc, isUSB, offset, checksum>>
ivars == <<device, runs, version, application, memory, host, samba>>

Small == [uINS3 |-> "U16", EVB2 |-> "E16", IMX5 |-> "IMX"]
Large == [uINS3 |-> "U24", EVB2 |-> "E24", IMX5 |-> "IMX"]
Fitting == IF version < FirstTelling THEN Small[kind] ELSE Large[kind]

IInit ==
    /\ kind \in {"uINS3", "EVB2", "IMX5"} /\ rom \in BOOLEAN
    /\ runs \in {"APP", "ISB"} /\ version \in Versions
    /\ kind = "IMX5" => version >= FirstTelling
    /\ application = Fitting /\ memory = [p \in Pages |-> {version}]
    /\ files \in Files /\ force \in BOOLEAN
    /\ pc = "idle" /\ isUSB = FALSE /\ offset = 0 /\ checksum = {}

----------------------------------------------------------------------------
(* Signatures: those of a file count in the role they are masked for, and  *)
(* those of a device are of what may be written to it.                     *)

Roles == <<"EVB", "IMX", "uINS">>
AppRole == [EVB |-> {"E16", "E24"}, IMX |-> {"IMX"}, uINS |-> {"U16", "U24"}]
LoaderRole == [EVB |-> Sams, IMX |-> {"STM32"}, uINS |-> Sams]

\* cISBootloaderAPP::check_is_compatible: an EVB-2 takes the application of the
\* module behind it as well.
AppSignatures ==
    CASE kind = "IMX5" -> {"IMX", "STM32"}
      [] kind = "uINS3" -> {"U16", "U24"} \cup Sams
      [] kind = "EVB2" -> {"IMX", "U16", "U24", "E16", "E24"} \cup Sams

\* Mutant of IsbSignatures: an EVB-2 is not told from a uINS-3.
IsbSignaturesAlike ==
    (IF kind = "IMX5" THEN {"IMX"} ELSE IF version < FirstTelling THEN {"E16", "U16"} ELSE {"E24", "U24"})
        \cup IF ~rom THEN {} ELSE IF kind = "IMX5" THEN {"STM32"} ELSE Sams

\* cISBootloaderISB::check_is_compatible.
IsbSignatures ==
    (IF version < FirstTelling THEN {"E16", "U16"} ELSE {Large[kind]})
        \cup IF ~rom THEN {} ELSE IF kind = "IMX5" THEN {"STM32"} ELSE Sams

\* The first role in which a file is one for the device.
Matching(signatures, role, file) ==
    {i \in 1..Len(Roles) : signatures \cap role[Roles[i]] \cap file # {}}
Chosen(matching) == Roles[CHOOSE i \in matching : \A j \in matching : i <= j]

----------------------------------------------------------------------------
(* Modes                                                                   *)

\* mode_device_app: a device whose firmware is there is put in its bootloader;
\* the command for an EVB-2 is another, and the other goes to its module.
ModeApp ==
    LET matching == Matching(AppSignatures, AppRole, {files.fw})
    IN  /\ pc = "idle" /\ runs = "APP" /\ matching # {}
        /\ (Chosen(matching) = "EVB") = (kind = "EVB2")
        /\ runs' = "ISB"
        /\ UNCHANGED <<device, version, application, memory, host, samba>>

\* cISBootloaderISB::reboot_down, to ROM, for a newer bootloader or by force.
RebootDown == force \/ (files.version # 0 /\ files.version > version)

\* mode_device_isb
ModeIsb ==
    /\ pc = "idle" /\ runs = "ISB" /\ RebootDown
    /\ Matching(IsbSignatures, LoaderRole, files.bl) # {}
    /\ runs' = "ROM"
    /\ UNCHANGED <<device, version, application, memory, host, samba>>

\* The device is restarted, after the update or by its power.
Restart ==
    /\ pc = "idle" /\ runs = "ISB" /\ application = Fitting /\ runs' = "APP"
    /\ UNCHANGED <<device, version, application, memory, host, samba>>

\* BootloadFile is called again, after it returned or was killed.
Again ==
    /\ files' \in Files /\ force' \in BOOLEAN /\ pc' = "idle"
    /\ isUSB' = FALSE /\ offset' = 0 /\ checksum' = {}
    /\ UNCHANGED <<device, runs, version, application, memory>>

\* A bootloader is written through DFU.
WriteDfu ==
    /\ runs = "ROM" /\ kind = "IMX5" /\ "STM32" \in files.bl
    /\ runs' = "ISB" /\ version' = files.version /\ memory' = [p \in Pages |-> {files.version}]
    /\ UNCHANGED <<device, application, host, samba>>

\* update_device, for a device in its bootloader.  It may fail, after which
\* nothing is there; and it goes on when get_device_info cannot read the answer,
\* with an offset that was never set, so that what is written may be anywhere.
WriteApp(left) ==
    LET matching == Matching(IsbSignatures, AppRole, {files.fw})
    IN  /\ pc = "idle" /\ runs = "ISB" /\ matching # {}
        /\ application' = left
        /\ UNCHANGED <<device, runs, version, memory, host, samba>>

----------------------------------------------------------------------------
(* The bootloader in ROM: update_device, for a device that answers there   *)

\* Beginning of a pass over the file, by XMODEM and then as for USB.
Pass(usb) == pc' = "page" /\ isUSB' = usb /\ offset' = 0 /\ checksum' = {}

\* Mutant of NextPass: the offset stays when a page is not taken.
NextPassEnds ==
    IF ~isUSB /\ offset # 0 THEN pc' = "verify" /\ UNCHANGED <<isUSB, offset, checksum>>
    ELSE IF ~isUSB THEN Pass(TRUE)
    ELSE pc' = "idle" /\ UNCHANGED <<isUSB, offset, checksum>>

\* After a page that was not taken: the second pass, without erasing again, or
\* none.
NextPass ==
    IF ~isUSB THEN Pass(TRUE) ELSE pc' = "idle" /\ UNCHANGED <<isUSB, offset, checksum>>

\* erase_flash: only what comes of the third sector counts.  A bootloader is
\* as large as the place below an application of now.
SambaErase(lost, ready) ==
    /\ pc = "idle" /\ runs = "ROM" /\ kind # "IMX5" /\ files.bl = Sams
    /\ memory' = [p \in Pages |-> IF p \in lost THEN memory[p] ELSE {}]
    /\ application' = IF application \in {"U16", "E16"} THEN "none" ELSE application
    /\ IF ready THEN Pass(FALSE) ELSE UNCHANGED samba
    /\ UNCHANGED <<device, runs, version, host>>

\* flash_erase_write_page, over what is there: whether a page came whole is known
\* of XMODEM, and of neither whether the command to write it came; only that the
\* flash is ready.
Page(whole, written, ready) ==
    LET p == offset + 1
    IN  /\ pc = "page"
        /\ isUSB \/ whole
        /\ memory' = IF ~written THEN memory
                     ELSE [memory EXCEPT ![p] = @ \cup {IF whole THEN files.version ELSE Damaged}]
        /\ IF ~ready THEN NextPass
           ELSE /\ checksum' = checksum \cup {p} /\ offset' = p
                /\ pc' = IF p = LoaderPages THEN "verify" ELSE "page"
                /\ UNCHANGED isUSB
        /\ UNCHANGED <<device, runs, version, application, host>>

\* write_uart_modem fails.
PageRefused ==
    /\ pc = "page" /\ ~isUSB /\ NextPass
    /\ UNCHANGED <<device, runs, version, application, memory, host>>

\* verify_image: the sum, by exclusive or, of the pages that are not erased.
\* Contents that differ are taken to add up to different sums.
Verified ==
    {<<p, memory[p]>> : p \in {q \in Pages : memory[q] # {}}} =
        {<<p, {files.version}>> : p \in checksum}

\* With reboot_up, which is not acknowledged either.
Verify(reads, restarts) ==
    /\ pc = "verify" /\ pc' = "idle"
    /\ IF reads /\ Verified /\ restarts
       THEN runs' = "ISB" /\ version' = files.version
       ELSE UNCHANGED <<runs, version>>
    /\ UNCHANGED <<device, application, memory, host, isUSB, offset, checksum>>

INext ==
    \/ ModeApp \/ ModeIsb \/ Restart \/ Again \/ WriteDfu \/ PageRefused
    \/ \E left \in {files.fw, "misplaced", "none"} : WriteApp(left)
    \/ \E a, b \in BOOLEAN : Verify(a, b) \/ \E c \in BOOLEAN : Page(a, b, c)
    \/ \E lost \in SUBSET Pages, ready \in BOOLEAN : SambaErase(lost, ready)

ISpec == IInit /\ [][INext]_ivars

----------------------------------------------------------------------------
ITypeOK ==
    /\ runs \in {"APP", "ISB", "ROM"} /\ pc \in {"idle", "page", "verify"}
    /\ checksum \subseteq Pages /\ offset \in 0..LoaderPages
    /\ pc # "idle" => runs = "ROM"

\* A device leaves ROM, from which it can always be written again, only with a
\* bootloader that is whole and of one version, whichever commands were lost,
\* whenever the program was killed, and whatever was written before.
BootloaderWhole == runs # "ROM" => \A p \in Pages : memory[p] = {version}

\* A bootloader that tells what it is has no application for another device,
\* nor one that was built for another place: at most one that was written
\* elsewhere, after an answer that could not be read.
ApplicationFits == version >= FirstTelling => application \in {Fitting, "misplaced", "none"}

\* However its updates go, a device starts a whole bootloader and has its own
\* application.
ImagesSafe == ITypeOK /\ BootloaderWhole /\ ApplicationFits

=============================================================================
