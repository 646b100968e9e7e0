------------------------------- MODULE IsoEpoch -------------------------------
(***************************************************************************)
(* iso_epoch of fleet-run/bin/heartbeat.sh: the time of a lease in seconds *)
(* since 1970, computed without date(1).  A time is the record of what the *)
(* regular expression finds in it; fractions of a second are dropped.      *)
(***************************************************************************)
EXTENDS Integers

\* The shell divides towards zero.
Quot(a, b) == IF a >= 0 THEN a \div b ELSE -((-a) \div b)

Leap(y) == y % 4 = 0 /\ (y % 100 # 0 \/ y % 400 = 0)

DaysIn(y, m) == IF m = 2 THEN IF Leap(y) THEN 29 ELSE 28
                ELSE IF m \in {4, 6, 9, 11} THEN 30 ELSE 31

\* The offset is that of "+hh:mm" or "-hh:mm", and 0 for "Z".
Valid(t) ==
    /\ t.month \in 1 .. 12 /\ t.day \in 1 .. DaysIn(t.year, t.month)
    /\ t.hour < 24 /\ t.minute < 60 /\ t.second <= 60
    /\ t.offHour <= 14 /\ t.offMinute <= 59

\* Days since 1970-01-01: years begin in March, and eras have 400 years.
DaysFromCivil(year, m, d) ==
    LET y   == IF m <= 2 THEN year - 1 ELSE year
        era == Quot(y, 400)
        yoe == y - era * 400
        doy == (153 * (IF m > 2 THEN m - 3 ELSE m + 9) + 2) \div 5 + d - 1
    IN  era * 146097 + yoe * 365 + Quot(yoe, 4) - Quot(yoe, 100) + doy - 719468

Offset(t) == t.sign * (t.offHour * 3600 + t.offMinute * 60)

Epoch(t) ==
    DaysFromCivil(t.year, t.month, t.day) * 86400
        + t.hour * 3600 + t.minute * 60 + t.second - Offset(t)

-----------------------------------------------------------------------------
(* The calendar *)

IsDate(y, m, d) == y \in Nat \ {0} /\ m \in 1 .. 12 /\ d \in 1 .. DaysIn(y, m)

\* The day after a day, as <<year, month, day>>.
NextDay(y, m, d) ==
    IF d < DaysIn(y, m) THEN <<y, m, d + 1>>
    ELSE IF m < 12 THEN <<y, m + 1, 1>>
    ELSE <<y + 1, 1, 1>>
=============================================================================
