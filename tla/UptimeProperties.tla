-------------------------- MODULE UptimeProperties --------------------------
(***************************************************************************)
(* What the badges show is what happened, as far as the stores promise it. *)
(***************************************************************************)
EXTENDS Uptime

\* Merging never touches the window of a day: whatever the hour at which the
\* entries were merged, each execution of the last day is counted once.  A longer
\* window counts no execution twice, and merging loses it at most the executions
\* of its first day.  The memory store counts the window, and the hour in which
\* it begins.
WindowsExactButFirstDay ==
    /\ SqlUptime(HoursPerDay) = Happened(HoursPerDay)
    /\ \A hours \in HoursPerDay..Retention :
        /\ SqlUptime(hours) <= Happened(hours)
        /\ Happened(hours - HoursPerDay) <= SqlUptime(hours)
        /\ MemoryUptime(hours) = Happened(hours + 1)

\* A merge makes room: no insertion leaves so many entries that the next one
\* merges again in the same hour, which would be a lot of work every time.
MergeMakesRoom == Cardinality(sqlEntries) < MergeThreshold
=============================================================================
