----------------------------- MODULE MCFirmware -----------------------------
(***************************************************************************)
(* Small instances, for TLC, of the SDK's firmware update: the threads of  *)
(* an update, the two ways an Intel hex file gets into a device, and what  *)
(* a device has in it over many updates.  They share no state; a behaviour *)
(* is that of one of them.                                                 *)
(***************************************************************************)
EXTENDS FirmwareUpdate, DeviceImages, Integers

CONSTANTS LastPage, HexPageSize, AppOffset, MaxSend, HexBuffer, LineSize, \* ISB
          Tries, DfuPageSize, Span, HexFiles                              \* DFU

\* Files of one section of any shape, and of two.
Shapes == (SUBSET (0..(Span - 1))) \ {{}}
SmallFiles == {<<s>> : s \in Shapes} \cup {<<s, t>> : s \in Shapes, t \in {{0}, {0, 1}, {0, 1, 2, 4, 5}}}

\* What BootloadFile may be called with: the files of a release, of another
\* device, of an older one, and no bootloader.
SamLoader(fw, v) == [fw |-> fw, bl |-> {"SAM16", "SAM24"}, version |-> v]
Releases ==
    {SamLoader("U24", 6), SamLoader("E16", 7),
     [fw |-> "IMX", bl |-> {"STM32"}, version |-> 7], [fw |-> "U24", bl |-> {}, version |-> 0]}

VARIABLES part,
          page, hexOffset, last, output, result, ended, flash, image,
          file, sections, command, attempt, state, dfuFlash, dfuMode

hexVars == <<page, hexOffset, last, output, result, ended, flash, image>>
dfuVars == <<file, sections, command, attempt, state, dfuFlash, dfuMode>>
vars == <<part, uvars, hexVars, dfuVars, ivars>>

Hex == INSTANCE HexProgram WITH PageSize <- HexPageSize, offset <- hexOffset
Dfu == INSTANCE DfuProgram WITH
    PageSize <- DfuPageSize, Files <- HexFiles, flash <- dfuFlash, mode <- dfuMode

ASSUME FirmwareAssumption ==
    UpdateAssumption /\ Hex!HexAssumption /\ Dfu!DfuAssumption /\ ImagesAssumption

NoUpdate ==
    /\ UInit /\ mode = [p \in Ports |-> "APP"] /\ outdated = {} /\ usb = "absent"
NoDfu == Dfu!DInit /\ file = <<{0}>>
NoImage ==
    /\ IInit /\ kind = "uINS3" /\ rom /\ runs = "APP" /\ version = 6
    /\ files = SamLoader("U24", 6) /\ ~force

Init ==
    /\ Hex!HInit
    /\ \/ part = "update" /\ UInit /\ NoDfu /\ NoImage
       \/ part = "hex" /\ NoUpdate /\ NoDfu /\ NoImage
       \/ part = "dfu" /\ NoUpdate /\ Dfu!DInit /\ NoImage
       \/ part = "image" /\ NoUpdate /\ NoDfu /\ IInit

UpdateStep == part = "update" /\ UNext /\ UNCHANGED <<part, hexVars, dfuVars, ivars>>
HexStep == part = "hex" /\ Hex!HNext /\ UNCHANGED <<part, uvars, dfuVars, ivars>>
DfuStep == part = "dfu" /\ Dfu!DNext /\ UNCHANGED <<part, uvars, hexVars, ivars>>
ImageStep == part = "image" /\ INext /\ UNCHANGED <<part, uvars, hexVars, dfuVars>>

Next == UpdateStep \/ HexStep \/ DfuStep \/ ImageStep

\* Only the part of a behaviour is run.
Alone == part = "update" /\ UNCHANGED <<part, hexVars, dfuVars, ivars>>
Fairness ==
    /\ WF_vars(Alone /\ Main)
    /\ WF_vars(Alone /\ ListDevices) /\ WF_vars(Alone /\ Watch)
Spec == Init /\ [][Next]_vars /\ Fairness

----------------------------------------------------------------------------
\* A file that is written without an error is in the device's memory.
ImagesWritten ==
    Hex!HTypeOK /\ Hex!ImageProgrammed /\ Dfu!DTypeOK /\ Dfu!DfuWritten
=============================================================================
