---------------------------- MODULE MCHeartbeat ----------------------------
(* An instance of Heartbeat for TLC, and the times of leases against known  *)
(* dates and the lengths of years.                                          *)
EXTENDS Heartbeat, IsoEpoch
CONSTANTS a, b
Two == <<a, b>>

Time(y, m, d, hh, mi, ss, sign, oh, om) ==
    [year |-> y, month |-> m, day |-> d, hour |-> hh, minute |-> mi, second |-> ss,
     sign |-> sign, offHour |-> oh, offMinute |-> om]

ASSUME KnownTimes ==
    /\ Epoch(Time(1970, 1, 1, 0, 0, 0, 1, 0, 0)) = 0
    /\ Epoch(Time(2000, 2, 29, 12, 0, 0, 1, 0, 0)) = 951825600
    /\ Epoch(Time(2026, 1, 1, 1, 30, 0, 1, 2, 0)) = 1767223800
    /\ Epoch(Time(2025, 12, 31, 21, 30, 0, -1, 2, 0)) = 1767223800
    /\ Valid(Time(2024, 2, 29, 23, 59, 60, 1, 14, 59))
    /\ ~Valid(Time(2100, 2, 29, 0, 0, 0, 1, 0, 0))

ASSUME LengthsOfYears ==
    \A y \in 1 .. 2400 :
        DaysFromCivil(y + 1, 1, 1) - DaysFromCivil(y, 1, 1) = IF Leap(y) THEN 366 ELSE 365
=============================================================================
