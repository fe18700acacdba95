------------------------------ MODULE MCUptime ------------------------------
(***************************************************************************)
(* Days of two hours, kept for three days: the threshold of a merge has    *)
(* the same relation to them as 100 entries have to 24 hours and 30 days.  *)
(***************************************************************************)
EXTENDS UptimeProperties

MCBuffer == 2 * HoursPerDay
MCRetention == 3 * HoursPerDay
MCCleanUpAge == MCRetention + HoursPerDay
MCMergeThreshold == 3 * HoursPerDay + 3 - 2
=============================================================================
