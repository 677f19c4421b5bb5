----------------------------- MODULE InsDriver -----------------------------
(***************************************************************************)
(* The constructor of inertial_sense_node: it connects to the device, and  *)
(* writes the node's parameters to the device's flash, which the device    *)
(* reads when it boots.  The process may be killed between any two         *)
(* commands and started again, on the device as it was left.               *)
(*                                                                         *)
(* The device is external: it stores what is written while it listens, and *)
(* applies navigation rate and RTK bits when it is reset.  Every command   *)
(* goes through SendData, which reports nothing.                           *)
(***************************************************************************)
EXTENDS Integers, TLAPS

CONSTANTS Rates,      \* values of navigation_dt_ms
          Offsets     \* antenna offsets; 0 stands for the zero vector

OffsetsAssumption == 0 \in Offsets

VARIABLES setup,      \* parameters of the node and kind of its port
          pc,         \* where the process is in its constructor
          local,      \* flashCfg, the SDK's copy of the flash
          link,       \* the port that the process opened still works
          lost,       \* a command of this process did not arrive
          flash,      \* configuration in the device's flash
          active,     \* configuration with which the device booted
          booting,    \* the device is starting and does not listen
          spoiled     \* a process was killed between a write and its reset

driver == <<setup, pc, local, link, lost>>
device == <<flash, active, booting>>
dvars == <<driver, device, spoiled>>

Bits == {"COMPASSING", "POSITIONING", "BASE"}
Flash == [nav : Rates, rtk : SUBSET Bits, ant : Offsets]
Setup == [nav : Rates, ant : Offsets,
          dual : BOOLEAN, rover : BOOLEAN, base : BOOLEAN,
          typed : BOOLEAN,      \* RTK_server_IP names the server's type too
          usb : BOOLEAN]        \* the port disappears when the device resets

Waiting == {"navReset", "rtkReset"}      \* asleep between a write and its reset

\* configure_rtk: dual_GNSS wins over rover, and rover over base.
Rover == setup.rover /\ ~setup.dual
Base == setup.base /\ ~Rover
RTKCfgBits ==
    {b \in Bits : \/ b = "COMPASSING" /\ setup.dual
                  \/ b = "POSITIONING" /\ Rover
                  \/ b = "BASE" /\ Base}

\* Parameters declared by the time that configure_parameters asks for them:
\* a parameter that the launch file sets is not declared by that.
Declared == {"port", "baudrate", "frame_id", "navigation_dt_ms"}
VectorParameter(name, value) == IF name \in Declared THEN value ELSE 0

----------------------------------------------------------------------------
DInit ==
    /\ setup \in Setup
    /\ flash \in Flash
    /\ active = flash /\ booting = FALSE
    /\ pc = "down" /\ local = flash
    /\ link = FALSE /\ lost = FALSE /\ spoiled = FALSE

Hears == link /\ ~booting

Goto(step) == pc' = step /\ UNCHANGED <<setup, spoiled>>

\* SendData of one field of the flash.
WriteField(field, value) ==
    /\ flash' = IF Hears THEN [flash EXCEPT ![field] = value] ELSE flash
    /\ lost' = (lost \/ ~Hears)
    /\ UNCHANGED <<local, link, active, booting>>

\* reset_device
ResetDevice ==
    /\ active' = IF Hears THEN flash ELSE active
    /\ booting' = (booting \/ Hears)
    /\ link' = (link /\ ~(Hears /\ setup.usb))
    /\ lost' = (lost \/ ~Hears)
    /\ UNCHANGED <<local, flash>>

Start ==
    /\ pc = "down" /\ Goto("connect")
    /\ link' = FALSE /\ lost' = FALSE
    /\ UNCHANGED <<local, device>>

\* A device that answers has sent its flash, checksum included: from then on
\* GetFlashConfig says that the copy is in sync.
Connect ==
    /\ pc = "connect" /\ ~booting /\ Goto("nav")
    /\ link' = TRUE /\ local' = flash
    /\ UNCHANGED <<lost, device>>

\* The port does not open, or nothing answers: rclcpp is shut down, and the
\* constructor goes on until it fails, with no device to send anything to.
ConnectFails ==
    /\ pc = "connect" /\ Goto("down")
    /\ UNCHANGED <<local, link, lost, device>>

SetNavigation ==
    /\ pc = "nav"
    /\ \/ local.nav = setup.nav /\ Goto("params")
          /\ UNCHANGED <<local, link, lost, device>>
       \/ local.nav # setup.nav /\ Goto("navReset")
          /\ WriteField("nav", setup.nav)

NavigationReset == pc = "navReset" /\ Goto("params") /\ ResetDevice

ConfigureParameters ==
    /\ pc = "params" /\ Goto("rtk")
    /\ WriteField("ant", VectorParameter("GPS_ant1_xyz", setup.ant))

\* CreateHost wants type, address and port, and may fail for other reasons.
\* Where it succeeds configure_rtk returns, before it comes to the bits.
Serve ==
    /\ pc = "rtk" /\ Base /\ setup.typed /\ Goto("serving")
    /\ UNCHANGED <<local, link, lost, device>>

\* Mutants of ConfigureRtk: the bits are not written before the reset; they
\* are written and not applied; the device is reset at every start.
ConfigureRtkUnwritten ==
    /\ pc = "rtk" /\ Goto(IF local.rtk # RTKCfgBits THEN "rtkReset" ELSE "run")
    /\ UNCHANGED <<local, link, lost, device>>
ConfigureRtkUnapplied == pc = "rtk" /\ Goto("run") /\ WriteField("rtk", RTKCfgBits)
ConfigureRtkAlways == pc = "rtk" /\ Goto("rtkReset") /\ WriteField("rtk", RTKCfgBits)

ConfigureRtk ==
    /\ pc = "rtk"
    /\ Goto(IF local.rtk # RTKCfgBits THEN "rtkReset" ELSE "run")
    /\ WriteField("rtk", RTKCfgBits)

RtkReset == pc = "rtkReset" /\ Goto("run") /\ ResetDevice

\* Ctrl-C, a crash, or the end of the launch.
Kill ==
    /\ pc # "down" /\ pc' = "down"
    /\ spoiled' = (spoiled \/ pc \in Waiting)
    /\ UNCHANGED <<setup, local, link, lost, device>>

Boot == booting /\ booting' = FALSE /\ UNCHANGED <<driver, flash, active, spoiled>>

DNext ==
    \/ Start \/ Connect \/ ConnectFails
    \/ SetNavigation \/ NavigationReset \/ ConfigureParameters
    \/ Serve \/ ConfigureRtk \/ RtkReset
    \/ Kill \/ Boot

\* A process that sleeps goes on, unless it is killed.
DFairness == WF_dvars(NavigationReset) /\ WF_dvars(RtkReset)
DSpec == DInit /\ [][DNext]_dvars /\ DFairness

----------------------------------------------------------------------------
DTypeOK ==
    /\ setup \in Setup
    /\ pc \in {"down", "connect", "nav", "params", "rtk", "serving", "run"} \cup Waiting
    /\ {local, flash, active} \subseteq Flash
    /\ {link, lost, booting, spoiled} \subseteq BOOLEAN

Configured ==
    /\ pc = "run" /\ ~lost => flash.nav = setup.nav /\ flash.rtk = RTKCfgBits
    /\ pc = "serving" => flash.rtk = local.rtk /\ (~lost => flash.nav = setup.nav)

\* Navigation rate and RTK bits are only compared with the flash, so what is
\* in flash must also be what the device runs with, except while the reset
\* that applies it is due.  A process killed at that point spoils it.
InEffect ==
    pc \notin Waiting /\ ~spoiled => active.nav = flash.nav /\ active.rtk = flash.rtk

\* The constructor ends with the configured navigation rate in the device's
\* flash, whatever was there and however earlier processes ended, unless one
\* of its commands was lost.  So it is with the RTK bits, but for a base whose
\* server starts: it ends before it writes them, and the device keeps those
\* that it connected with, BASE or not.  What is in flash is in effect.
RunsConfigured == DTypeOK /\ Configured /\ InEffect

\* However often the process is started again, it does not reset the device
\* for ever (the comment before the last step of configure_rtk).
NoResetLoop == <>[](pc \notin Waiting)

\* What the launch file sets is what the device gets: the antenna offset in
\* flash is the parameter's value once a process that lost nothing runs.
LaunchParametersReach == pc = "run" /\ ~lost => flash.ant = setup.ant

----------------------------------------------------------------------------
(* Proofs, for any values of the parameters and any device.                *)

\* Where the flash stands at each step of the constructor.  A command that
\* was lost changed nothing, so that what is only compared stays comparable.
Progress ==
    /\ pc = "nav" => local = flash
    /\ pc \in {"nav", "navReset", "params", "rtk", "serving"} => local.rtk = flash.rtk
    /\ pc \in {"navReset", "params", "rtk", "serving", "rtkReset", "run"} /\ ~lost
          => flash.nav = setup.nav
    /\ pc \in {"rtkReset", "run"} /\ ~lost => flash.rtk = RTKCfgBits

\* A device that would not hear the reset did not hear the write before it.
ResetDue ==
    pc \in Waiting /\ ~spoiled /\ ~Hears
        => active.nav = flash.nav /\ active.rtk = flash.rtk

DriverInv == DTypeOK /\ Progress /\ InEffect /\ ResetDue

LEMMA BitsType == RTKCfgBits \in SUBSET Bits
BY DEF RTKCfgBits

LEMMA SetupType == setup \in Setup => setup.nav \in Rates
BY DEF Setup

\* What a command does to the flash: one field of it, if the device hears.
LEMMA WriteNav ==
    ASSUME DTypeOK, NEW r \in Rates, WriteField("nav", r)
    PROVE  /\ flash' \in Flash
           /\ flash'.rtk = flash.rtk
           /\ Hears => flash'.nav = r
           /\ ~Hears => flash' = flash /\ lost'
BY DEF DTypeOK, WriteField, Flash

LEMMA WriteRtk ==
    ASSUME DTypeOK, NEW b \in SUBSET Bits, WriteField("rtk", b)
    PROVE  /\ flash' \in Flash
           /\ flash'.nav = flash.nav
           /\ Hears => flash'.rtk = b
           /\ ~Hears => flash' = flash /\ lost'
BY DEF DTypeOK, WriteField, Flash

LEMMA WriteAnt ==
    ASSUME DTypeOK, NEW o \in Offsets, WriteField("ant", o)
    PROVE  flash' \in Flash /\ flash'.nav = flash.nav /\ flash'.rtk = flash.rtk
BY DEF DTypeOK, WriteField, Flash

\* A write loses what the device does not hear, and touches nothing else.
LEMMA WriteKeeps ==
    ASSUME DTypeOK, NEW field, NEW value, WriteField(field, value)
    PROVE  /\ lost' \in BOOLEAN /\ (~lost' => ~lost /\ Hears)
           /\ UNCHANGED <<local, link, active, booting>>
BY DEF DTypeOK, WriteField

LEMMA ResetApplies ==
    ASSUME DTypeOK, ResetDevice
    PROVE  /\ {lost', link', booting'} \subseteq BOOLEAN /\ active' \in Flash
           /\ ~lost' => ~lost
           /\ Hears => active' = flash
           /\ ~Hears => active' = active
           /\ UNCHANGED <<local, flash>>
BY DEF DTypeOK, ResetDevice, Hears

LEMMA DriverInit == DInit => DriverInv
BY DEF DInit, DriverInv, DTypeOK, Progress, InEffect, ResetDue, Waiting

LEMMA DriverStep ==
    ASSUME OffsetsAssumption PROVE DriverInv /\ [DNext]_dvars => DriverInv'
<1> SUFFICES ASSUME DriverInv, [DNext]_dvars PROVE DriverInv'
  OBVIOUS
<1> USE DEF DriverInv, DTypeOK, Progress, InEffect, ResetDue, Waiting
<1>1. CASE Start \/ ConnectFails
  BY <1>1 DEF Start, ConnectFails, Goto, device
<1>2. CASE Connect
  BY <1>2 DEF Connect, Goto, device
<1>3. CASE SetNavigation
  <2>1. CASE pc' = "params"
    BY <1>3, <2>1 DEF SetNavigation, Goto, device, WriteField
  <2>2. CASE pc' # "params"
    <3>1. pc = "nav" /\ pc' = "navReset" /\ WriteField("nav", setup.nav)
          /\ UNCHANGED <<setup, spoiled>>
      BY <1>3, <2>2 DEF SetNavigation, Goto
    <3>2. setup.nav \in Rates
      BY SetupType
    <3> QED BY <3>1, <3>2, WriteNav, WriteKeeps DEF Hears
  <2> QED BY <2>1, <2>2
<1>4. CASE NavigationReset
  <2>1. pc = "navReset" /\ pc' = "params" /\ UNCHANGED <<setup, spoiled>> /\ ResetDevice
    BY <1>4 DEF NavigationReset, Goto
  <2> QED BY <2>1, ResetApplies
<1>5. CASE ConfigureParameters
  <2>1. VectorParameter("GPS_ant1_xyz", setup.ant) \in Offsets
    BY DEF OffsetsAssumption, VectorParameter, Declared, Setup
  <2>2. pc = "params" /\ pc' = "rtk" /\ UNCHANGED <<setup, spoiled>>
        /\ WriteField("ant", VectorParameter("GPS_ant1_xyz", setup.ant))
    BY <1>5 DEF ConfigureParameters, Goto
  <2> QED BY <2>1, <2>2, WriteAnt, WriteKeeps
<1>6. CASE Serve
  BY <1>6 DEF Serve, Goto, device
<1>7. CASE ConfigureRtk
  <2>1. /\ pc = "rtk" /\ UNCHANGED <<setup, spoiled>> /\ WriteField("rtk", RTKCfgBits)
        /\ pc' = IF local.rtk # RTKCfgBits THEN "rtkReset" ELSE "run"
    BY <1>7 DEF ConfigureRtk, Goto
  <2>2. RTKCfgBits' = RTKCfgBits
    BY <2>1 DEF RTKCfgBits, Rover, Base
  <2>3. /\ flash' \in Flash /\ flash'.nav = flash.nav
        /\ Hears => flash'.rtk = RTKCfgBits
        /\ ~Hears => flash' = flash
        /\ ~lost' => ~lost /\ Hears
        /\ lost' \in BOOLEAN /\ UNCHANGED <<local, link, active, booting>>
    BY <2>1, BitsType, WriteRtk, WriteKeeps
  <2>4. CASE local.rtk # RTKCfgBits
    BY <2>1, <2>2, <2>3, <2>4 DEF Hears
  <2>5. CASE local.rtk = RTKCfgBits
    BY <2>1, <2>2, <2>3, <2>5
  <2> QED BY <2>4, <2>5
<1>8. CASE RtkReset
  <2>1. pc = "rtkReset" /\ pc' = "run" /\ UNCHANGED <<setup, spoiled>> /\ ResetDevice
    BY <1>8 DEF RtkReset, Goto
  <2>2. RTKCfgBits' = RTKCfgBits
    BY <2>1 DEF RTKCfgBits, Rover, Base
  <2> QED BY <2>1, <2>2, ResetApplies
<1>9. CASE Kill
  BY <1>9 DEF Kill, device
<1>10. CASE Boot
  <2>1. RTKCfgBits' = RTKCfgBits
    BY <1>10 DEF Boot, driver, RTKCfgBits, Rover, Base
  <2> QED BY <1>10, <2>1 DEF Boot, driver, Hears
<1>11. CASE UNCHANGED dvars
  <2>1. RTKCfgBits' = RTKCfgBits
    BY <1>11 DEF dvars, driver, RTKCfgBits, Rover, Base
  <2> QED BY <1>11, <2>1 DEF dvars, driver, device, Hears
<1> QED BY <1>1, <1>2, <1>3, <1>4, <1>5, <1>6, <1>7, <1>8, <1>9, <1>10, <1>11
        DEF DNext

\* How far the constructor has come, what it has sent and what the device has
\* of it agree in every state, crashes and lost commands included.
THEOREM DriverInvariant == ASSUME OffsetsAssumption PROVE DSpec => []DriverInv
<1>1. DInit => DriverInv
  BY DriverInit
<1>2. DriverInv /\ [DNext]_dvars => DriverInv'
  BY DriverStep
<1> QED BY <1>1, <1>2, PTL DEF DSpec

\* Whatever was in the flash and however often a process was killed between
\* two commands, a constructor that lost no command ends with its navigation
\* rate in the flash, and with its RTK bits unless it is a base whose server
\* started, which leaves the bits as it found them.  What is in the flash is
\* what the device runs with, lost commands included, unless a process was
\* killed between a write and its reset.
THEOREM DriverConfigures == ASSUME OffsetsAssumption PROVE DSpec => []RunsConfigured
<1>1. DriverInv => RunsConfigured
  BY DEF DriverInv, Progress, RunsConfigured, Configured
<1> QED BY <1>1, DriverInvariant, PTL
=============================================================================
