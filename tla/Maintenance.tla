---------------------------- MODULE Maintenance ----------------------------
(***************************************************************************)
(* Maintenance windows.  Time is counted in units of a calendar whose days *)
(* all have the same length and whose first day begins at 0; time zones    *)
(* shift it, and their changes of offset are left out.                     *)
(***************************************************************************)
EXTENDS Integers

CONSTANTS
    UnitsPerHour,
    HoursPerDay,   \* 24
    DaysPerWeek    \* 7

ASSUME MaintenanceAssumption == {UnitsPerHour, HoursPerDay, DaysPerWeek} \subseteq Nat \ {0}

DayLength == UnitsPerHour * HoursPerDay
Day(time) == time \div DayLength
Hour(time) == (time % DayLength) \div UnitsPerHour
Weekday(day) == day % DaysPerWeek

\* maintenance.Config as the YAML gives it, and whether it was validated
Windows ==
    [enabled : BOOLEAN, start : 0..DayLength - 1, duration : 1..DayLength,
     every : SUBSET (0..DaysPerWeek - 1), validated : BOOLEAN]

\* set by ValidateAndSetDefaults only
DurationToStartFromMidnight(w) == IF w.validated THEN w.start ELSE 0

StartingToday(w, now) == Day(now)

DayWhereMaintenancePeriodWouldStart(w, now) ==
    IF Hour(now) < DurationToStartFromMidnight(w) \div UnitsPerHour THEN Day(now) - 1 ELSE Day(now)

IsUnderMaintenance(w, now) ==
    LET day == DayWhereMaintenancePeriodWouldStart(w, now)
        start == day * DayLength + DurationToStartFromMidnight(w)
    IN  /\ w.enabled
        /\ w.every = {} \/ Weekday(day) \in w.every
        /\ start < now /\ now < start + w.duration
=============================================================================
