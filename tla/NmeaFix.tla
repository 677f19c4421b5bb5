------------------------------ MODULE NmeaFix ------------------------------
(***************************************************************************)
(* A GPS fix in NMEA sentences (protocol_nmea.cpp, time_conversion.c): the *)
(* device prints position, time, fix and velocity, the host reads them     *)
(* back into its own records.  Positions are in minutes of arc, times in   *)
(* milliseconds; decimals of a minute and the rounding of a float are left *)
(* out.  A date and time of the calendar is a day and a time of that day.  *)
(***************************************************************************)
EXTENDS Integers, Sequences

CONSTANTS Records,    \* the device's fixes: [week, tow, leapS, lat, lon, fix, bits]
          Speeds,     \* its velocities
          MaxFixes    \* fixes of a behaviour

Day == 86400000
LastWeek == 6259                        \* bound: whose end is in 2099, as 2100 has no 29 Feb
WeekStart == 2444244                    \* the Julian day of 6 Jan 1980, half a day short
Wrapped == 61367296                     \* 2^32 modulo Day

\* Positions of weeks from the first, which begins in January 1980, on; no
\* leap second comes between the fixes of a behaviour.
FixAssumption ==
    /\ MaxFixes \in Nat \ {0}
    /\ \A p \in Records :
          /\ p.week \in 1..LastWeek /\ p.tow \in 1..(7 * Day - 1)
          /\ p.leapS \in Nat /\ 1000 * p.leapS < Day /\ \A other \in Records : other.leapS = p.leapS
          /\ p.lat \in Int /\ p.lon \in Int /\ p.bits \in SUBSET Nat

VARIABLES gps, gpsVel,                  \* the device's position and velocity records
          fixes,                        \* how many fixes there were
          speed,                        \* s_dataSpeed
          line,                         \* the sentence that was printed last
          had, told,                    \* velocities of this fix: the device's, and those printed
          reader,                       \* the functions that the host reads with
          date, host, hostVel,          \* what it read: datetime, gps_pos_t and gps_vel_t
          fresh                         \* what it read of this fix

device == <<gps, gpsVel, fixes, speed, line, had, told>>
nvars == <<device, reader, date, host, hostVel, fresh>>

Abs(x) == IF x < 0 THEN -x ELSE x
Trunc(x, n) == IF x < 0 THEN -((-x) \div n) ELSE x \div n

----------------------------------------------------------------------------
\* Printing a field.

\* Mutant: the degrees of a coordinate are rounded down.
DegMinFloor(v) == [deg |-> Abs(v \div 60), min |-> v % 60, sign |-> IF v < 0 THEN -1 ELSE 1]

\* nmea_latToDegMin, nmea_lonToDegMin: the hemisphere is that of the whole
\* degrees, of which there is none in the first degree.
DegMin(v) ==
    LET degrees == Trunc(v, 60)
    IN  [deg |-> Abs(degrees), min |-> Abs(v - 60 * degrees),
         sign |-> IF degrees < 0 THEN -1 ELSE 1]

\* Mutant: the leap seconds are added.
UtcAhead(tow, leapS) == (tow + 1000 * leapS) % Day

\* gpsTowMsToUtcTime, in unsigned arithmetic.
UtcTimeOfDay(tow, leapS) ==
    LET t == tow - 1000 * leapS IN (IF t < 0 THEN Wrapped + t ELSE t) % Day

\* Mutant: the leap seconds are left out.
HalfDaysGps(week, tow, leapS) == 14 * week + 1 + (2 * tow) \div Day

\* gpsToJulian: half days since WeekStart that are over, in signed arithmetic.
HalfDays(week, tow, leapS) == 14 * week + 1 + (2 * (tow - 1000 * leapS)) \div Day

\* julianToDate
JulianDate(halfDays) ==
    LET intgr == WeekStart + halfDays \div 2
        tmp == (4 * (intgr - 1867216) - 1) \div 146097
        j1 == intgr + 1 + tmp - tmp \div 4 + (halfDays % 2)
        j2 == j1 + 1524
        j3 == 6680 + (20 * (j2 - 2439870) - 2442) \div 7305
        j4 == (1461 * j3) \div 4
        j5 == (10000 * (j2 - j4)) \div 306001
        m == IF j5 - 1 > 12 THEN j5 - 13 ELSE j5 - 1
    IN  [year |-> IF m > 2 THEN j3 - 4716 ELSE j3 - 4715,
         month |-> m, day |-> j2 - j4 - (306001 * j5) \div 10000]

\* Fix quality of a GGA sentence.
Quality(fix) ==
    IF fix \in {"sbas", "2D", "rtkSingle", "3D"} THEN 1
    ELSE IF fix = "dgps" THEN 2
    ELSE IF fix = "timeOnly" THEN 3
    ELSE IF fix = "rtkFix" THEN 4
    ELSE IF fix = "rtkFloat" THEN 5
    ELSE IF fix \in {"deadReckoning", "gpsDeadReck"} THEN 6
    ELSE 0

\* Mutant: only when there is none yet.
UpdateSpeedFirst ==
    speed' = IF speed.tow = 0 THEN [tow |-> gps.tow, v |-> gpsVel.v] ELSE speed

\* Mutant: every time.
UpdateSpeedAlways == speed' = [tow |-> gps.tow, v |-> gpsVel.v]

\* update_nmea_speed: the velocity is turned once for every time of week.
UpdateSpeed ==
    speed' = IF speed.tow # gps.tow THEN [tow |-> gps.tow, v |-> gpsVel.v] ELSE speed

Position(p) == [lat |-> DegMin(p.lat), lon |-> DegMin(p.lon)]
Time(p) == UtcTimeOfDay(p.tow, p.leapS)
DateOf(p) == JulianDate(HalfDays(p.week, p.tow, p.leapS))

\* nmea_gga, nmea_gll, nmea_zda
Gga(p) ==
    [type |-> "GGA", time |-> Time(p), at |-> Position(p), quality |-> Quality(p.fix), sats |-> p.bits]
Gll(p) == [type |-> "GLL", at |-> Position(p), time |-> Time(p)]
Zda(p) == [type |-> "ZDA", time |-> Time(p), date |-> DateOf(p)]

\* nmea_gsa: the mode, without the satellites' names.
GsaMode(fix) ==
    IF fix = "2D" THEN 2
    ELSE IF fix \in {"3D", "sbas", "dgps", "rtkFix", "rtkSingle", "rtkFloat"} THEN 3 ELSE 0
Gsa(p) == [type |-> "GSA", mode |-> GsaMode(p.fix)]

\* nmea_rmc, whose time has no milliseconds, and nmea_vtg.
Rmc(p, v) ==
    [type |-> "RMC", time |-> Time(p) - (Time(p) % 1000), active |-> p.fix # "none",
     at |-> Position(p), v |-> v, date |-> DateOf(p)]
VtgMode(fix) ==
    IF fix \in {"2D", "3D"} THEN "A"
    ELSE IF fix \in {"gpsDeadReck", "deadReckoning"} THEN "E"
    ELSE IF fix \in {"dgps", "rtkSingle", "rtkFloat", "rtkFix"} THEN "D" ELSE "N"
Vtg(p, v) == [type |-> "VTG", v |-> v, mode |-> VtgMode(p.fix)]

----------------------------------------------------------------------------
\* Reading a field.

\* ASCII_DegMin_to_Lat, ASCII_DegMin_to_Lon, ddmm2deg
Minutes(f) == f.sign * (60 * f.deg + f.min)

\* epochToTime: days since 1970 of a date.
EpochDays(d) ==
    (d.year - 1970) * 365 + (d.year - 1969) \div 4
        + <<1, 32, 60, 91, 121, 152, 182, 213, 244, 274, 305, 335>>[d.month] + d.day - 2
        + (IF d.year % 4 = 0 /\ d.month >= 3 THEN 1 ELSE 0)

\* timeToGpst, of a time of day that may go past its end.
Gpst(d, time) ==
    LET days == EpochDays(d) - EpochDays([year |-> 1980, month |-> 1, day |-> 6]) + time \div Day
    IN  [week |-> days \div 7, tow |-> (days % 7) * Day + (time % Day)]

\* Flags that come with a quality, and the fix, of nmea_parse_gga_to_did_gps.
Flags(quality) ==
    {"nmea"} \cup (IF quality \in {1, 2, 4, 5} THEN {"ok"} ELSE {})
        \cup (IF quality \in {2, 4, 5} THEN {"dgps"} ELSE {})
        \cup (IF quality \in {4, 5} THEN {"rtk"} ELSE {})
DidFix(quality) ==
    IF quality \in 1..6
    THEN <<"3D", "dgps", "timeOnly", "rtkFix", "rtkFloat", "gpsDeadReck">>[quality]
    ELSE "none"
GgaFix(quality) ==
    IF quality = 6 THEN "deadReckoning" ELSE IF quality = 3 THEN "none" ELSE DidFix(quality)

\* nmea_parse_gga_to_did_gps, on a day of the week the host knows: flags and
\* bits of the number of satellites are added to what is there.
GgaToDidGps(weekday) ==
    /\ line.type = "GGA"
    /\ host' = [host EXCEPT !.tow = weekday * Day + line.time + 1000 * host.leapS,
                            !.lat = Minutes(line.at.lat), !.lon = Minutes(line.at.lon),
                            !.fix = DidFix(line.quality), !.flags = @ \cup Flags(line.quality),
                            !.satsUsed = line.sats, !.bits = @ \cup line.sats]
    /\ fresh' = fresh \cup {"place", "time", "fix"} /\ UNCHANGED <<date, hostVel>>

\* nmea_parse_gll_to_did_gps
GllToDidGps(weekday) ==
    /\ line.type = "GLL"
    /\ host' = [host EXCEPT !.tow = weekday * Day + line.time + 1000 * host.leapS,
                            !.lat = Minutes(line.at.lat), !.lon = Minutes(line.at.lon)]
    /\ fresh' = fresh \cup {"place", "time"} /\ UNCHANGED <<date, hostVel>>

\* nmea_parse_gsa_to_did_gps
GsaToDidGps ==
    /\ line.type = "GSA"
    /\ host' = [host EXCEPT !.fix = IF line.mode = 2 THEN "2D" ELSE IF line.mode = 3 THEN "3D" ELSE "none"]
    /\ fresh' = fresh \cup {"fix"} /\ UNCHANGED <<date, hostVel>>

\* nmea_parse_zda_to_did_gps, told the leap seconds.
ZdaToDidGps(leapS) ==
    /\ line.type = "ZDA"
    /\ LET t == Gpst(line.date, line.time)
       IN  host' = [host EXCEPT !.week = t.week, !.tow = t.tow + 1000 * leapS, !.leapS = leapS]
    /\ fresh' = fresh \cup {"time", "week"} /\ UNCHANGED <<date, hostVel>>

\* nmea_parse_zda
ParseZda ==
    /\ line.type = "ZDA" /\ date' = line.date /\ fresh' = fresh \cup {"date"}
    /\ UNCHANGED <<host, hostVel>>

\* Mutant: flags of the fix before are kept.
ParseGgaFlagsKept ==
    /\ line.type = "GGA"
    /\ LET t == Gpst(date, line.time + 1000 * host.leapS)
       IN  host' = [host EXCEPT !.week = t.week, !.tow = t.tow,
                                !.lat = Minutes(line.at.lat), !.lon = Minutes(line.at.lon),
                                !.fix = GgaFix(line.quality),
                                !.flags = @ \cup Flags(line.quality),
                                !.bits = line.sats]
    /\ fresh' = fresh \cup {"place", "fix"} \cup (IF "date" \in fresh THEN {"time", "week"} ELSE {})
    /\ UNCHANGED <<date, hostVel>>

\* nmea_parse_gga, with the date of the last ZDA sentence: flags, bits and fix
\* are replaced.
ParseGga ==
    /\ line.type = "GGA"
    /\ LET t == Gpst(date, line.time + 1000 * host.leapS)
       IN  host' = [host EXCEPT !.week = t.week, !.tow = t.tow,
                                !.lat = Minutes(line.at.lat), !.lon = Minutes(line.at.lon),
                                !.fix = GgaFix(line.quality),
                                !.flags = Flags(line.quality) \cup
                                    (IF line.quality = 4 THEN {"valid", "hold"} ELSE {}),
                                !.bits = line.sats]
    /\ fresh' = fresh \cup {"place", "fix"} \cup (IF "date" \in fresh THEN {"time", "week"} ELSE {})
    /\ UNCHANGED <<date, hostVel>>

\* nmea_parse_rmc
ParseRmc ==
    /\ line.type = "RMC"
    /\ hostVel' = [tow |-> Gpst(date, line.time).tow, frame |-> "ned", v |-> line.v, nmea |-> TRUE]
    /\ UNCHANGED <<date, host, fresh>>

\* Mutant: always north, east, down.
VtgNed ==
    /\ line.type = "VTG"
    /\ hostVel' = [hostVel EXCEPT !.v = line.v, !.frame = "ned"]
    /\ UNCHANGED <<date, host, fresh>>

\* nmea_parse_vtg_to_did_gps: in the frame that the record's status names.
VtgToDidGps ==
    /\ line.type = "VTG"
    /\ hostVel' = [hostVel EXCEPT !.v = line.v, !.frame = IF hostVel.nmea THEN "ned" ELSE "ecef"]
    /\ UNCHANGED <<date, host, fresh>>

----------------------------------------------------------------------------
NoLine == [type |-> "none"]

\* A host reads positions with one of two sets of functions, or velocities.
Readers == {"did", "gnss", "velocity"}

\* The date that a host begins with, of a time before.
Yesterday == [year |-> 2023, month |-> 12, day |-> 30]

NInit ==
    /\ reader \in Readers /\ gps \in Records /\ fixes = 1
    /\ gpsVel \in [v : IF reader = "velocity" THEN Speeds ELSE {0}]
    /\ speed = [tow |-> 0, v |-> 0] /\ line = NoLine /\ had = {gpsVel.v} /\ told = {}
    /\ date = Yesterday
    /\ host = [week |-> 0, tow |-> 0, leapS |-> gps.leapS, lat |-> 0, lon |-> 0, fix |-> "none",
               flags |-> {}, bits |-> {}, satsUsed |-> {}]
    /\ hostVel = [tow |-> 0, frame |-> "ecef", v |-> 0, nmea |-> FALSE] /\ fresh = {}

\* The device's next position, and its velocity, which comes by itself.  That
\* nothing is printed until the same time of another week is left out.
NextFix ==
    /\ fixes < MaxFixes /\ fixes' = fixes + 1 /\ gps' \in Records
    /\ gps'.tow \notin {gps.tow, speed.tow}
    /\ line' = NoLine /\ had' = {gpsVel.v} /\ told' = {} /\ fresh' = {}
    /\ UNCHANGED <<gpsVel, speed, reader, date, host, hostVel>>
NextVelocity ==
    /\ reader = "velocity" /\ gpsVel' \in [v : Speeds] /\ had' = had \cup {gpsVel'.v}
    /\ UNCHANGED <<gps, fixes, speed, line, told, reader, date, host, hostVel, fresh>>

PrintPosition ==
    /\ reader # "velocity" /\ line' \in {Gga(gps), Gll(gps), Gsa(gps), Zda(gps)}
    /\ UNCHANGED <<gps, gpsVel, fixes, speed, had, told, reader, date, host, hostVel, fresh>>
PrintVelocity ==
    /\ reader = "velocity" /\ UpdateSpeed /\ line' \in {Rmc(gps, speed'.v), Vtg(gps, speed'.v)}
    /\ told' = told \cup {line'.v} /\ UNCHANGED <<gps, gpsVel, fixes, had, reader, date, host, hostVel, fresh>>

\* The day of the week in UTC.
Weekday == ((gps.tow - 1000 * gps.leapS) \div Day) % 7

ReadDid == GgaToDidGps(Weekday) \/ GllToDidGps(Weekday) \/ GsaToDidGps \/ ZdaToDidGps(gps.leapS)
ReadGnss == ParseZda \/ ParseGga
Read ==
    /\ \/ reader = "did" /\ ReadDid
       \/ reader = "gnss" /\ ReadGnss
       \/ reader = "velocity" /\ (ParseRmc \/ VtgToDidGps)
    /\ UNCHANGED <<device, reader>>

NNext == NextFix \/ NextVelocity \/ PrintPosition \/ PrintVelocity \/ Read

NSpec == NInit /\ [][NNext]_nvars

----------------------------------------------------------------------------
NTypeOK ==
    /\ gps \in Records /\ fixes \in 1..MaxFixes /\ host.tow \in Nat /\ host.week \in Nat
    /\ fresh \subseteq {"place", "time", "week", "date", "fix"}

\* The host has the device's position, but for the sign of a southern or
\* western coordinate within a degree of zero.
Near(there, here) ==
    there = here \/ (there = -here /\ here \in -59..-1)
PlaceArrives ==
    "place" \in fresh => Near(host.lat, gps.lat) /\ Near(host.lon, gps.lon)

\* Before as many seconds of the week have passed as there are leap seconds the
\* printed time of day is wrong.
WeekBegins == gps.tow < 1000 * gps.leapS

\* The host has the device's time: whatever day it is in either time, and
\* across the ends of months and years.
TimeArrives ==
    ~WeekBegins =>
        /\ "time" \in fresh => host.tow = gps.tow
        /\ "week" \in fresh => host.week = gps.week

\* The host takes a fix for one exactly when the device has one, whatever
\* fix there was before.
Fixed == {"2D", "3D", "sbas", "dgps", "rtkSingle", "rtkFloat", "rtkFix"}
FixBelieved ==
    "fix" \in fresh =>
        /\ (host.fix \in Fixed) <=> (gps.fix \in Fixed)
        /\ reader = "gnss" => (("ok" \in host.flags) <=> gps.fix \in Fixed) /\ host.bits = gps.bits

\* The status of the host's velocity names the frame it is in.
FrameKnown == hostVel.nmea <=> (hostVel.frame = "ned")

\* All sentences of one fix tell the same velocity, one that the device had
\* with that fix.
OneVelocity == told \subseteq had /\ \A v, w \in told : v = w

\* What the sentences of a fix say is read as it was meant.
FixGivenBack ==
    NTypeOK /\ PlaceArrives /\ TimeArrives /\ FixBelieved /\ FrameKnown /\ OneVelocity
=============================================================================
