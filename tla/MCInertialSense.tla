-------------------------- MODULE MCInertialSense --------------------------
(***************************************************************************)
(* A small instance, for TLC, of five parts of inertial_sense_node that    *)
(* share no state: the constructor, the gps topic, the gps/obs topic, the  *)
(* stamps of all topics, and the connection of rovers to a base.  A        *)
(* behaviour is that of one of them.                                       *)
(***************************************************************************)
EXTENDS InsDriver, DriverTopics, Corrections

\* A device that is started in the middle of a week.
Midweek == {5, 6}

\* Two rovers, and what the base's device sends.
TwoRovers == {1, 2}
BaseOutput == <<"isb", "ublox", "rtcm3">>

VARIABLE part

vars == <<part, dvars, fixVars, obsVars, stampVars, tvars>>

ASSUME InsAssumption == OffsetsAssumption /\ TopicsAssumption /\ CorrectionsAssumption

NoDriver ==
    /\ setup = CHOOSE s \in Setup : TRUE
    /\ DInit /\ flash = CHOOSE f \in Flash : TRUE
NoFix == FInit /\ offset = TRUE
NoStamps == SInit /\ boot = 5 /\ locked

Init ==
    /\ TInit
    /\ \/ part = "driver" /\ DInit /\ NoFix /\ OInit /\ NoStamps
       \/ part = "fix" /\ FInit /\ NoDriver /\ OInit /\ NoStamps
       \/ part \in {"obs", "rtk"} /\ OInit /\ NoDriver /\ NoFix /\ NoStamps
       \/ part = "stamps" /\ OInit /\ NoDriver /\ NoFix /\ SInit

ConstructorStep == part = "driver" /\ DNext /\ UNCHANGED <<part, fixVars, obsVars, stampVars, tvars>>
FixStep == part = "fix" /\ FNext /\ UNCHANGED <<part, dvars, obsVars, stampVars, tvars>>
ObsStep == part = "obs" /\ ONext /\ UNCHANGED <<part, dvars, fixVars, stampVars, tvars>>
StampStep == part = "stamps" /\ SNext /\ UNCHANGED <<part, dvars, fixVars, obsVars, tvars>>
RtkStep == part = "rtk" /\ TNext /\ UNCHANGED <<part, dvars, fixVars, obsVars, stampVars>>

Next == ConstructorStep \/ FixStep \/ ObsStep \/ StampStep \/ RtkStep

Spec == Init /\ [][Next]_vars /\ DFairness /\ OFairness

----------------------------------------------------------------------------
\* The device is not reset for ever by a process that is started again; and no
\* observation waits for ever, if observations pause for more than 10 ms again
\* and again (inertial_sense_node.cpp:563 and 571).
DriverSettles == NoResetLoop /\ ObsPublished
=============================================================================
