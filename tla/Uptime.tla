------------------------------- MODULE Uptime -------------------------------
(***************************************************************************)
(* The uptime of one endpoint: executions are counted by the hour; the SQL *)
(* store merges the hours of past days into one entry a day when there are *)
(* too many of them, the memory store keeps hours, and both forget what is *)
(* older than the retention.  Time is counted in hours, an execution and a *)
(* request falling within an hour, not at its beginning.  Successful       *)
(* executions and response times are summed as executions are.             *)
(***************************************************************************)
EXTENDS Integers, FiniteSets, FiniteSetsExt

CONSTANTS
    HoursPerDay,      \* 24
    Buffer,           \* uptimeHourlyBuffer: 48
    Retention,        \* uptimeRetention: 30 * 24
    CleanUpAge,       \* uptimeAgeCleanUpThreshold: 32 * 24
    MergeThreshold,   \* uptimeTotalEntriesMergeThreshold: 100
    CleanUpEntries,   \* uptimeCleanUpThreshold of the memory store: 32 * 24
    PerHour,          \* bounds the executions of an hour
    LastHour          \* bounds the clock

ASSUME UptimeAssumption ==
    /\ {HoursPerDay, Buffer, Retention, CleanUpAge, MergeThreshold, CleanUpEntries, PerHour,
        LastHour}
          \subseteq Nat \ {0}
    /\ Buffer = 2 * HoursPerDay
    /\ Buffer < Retention /\ Retention <= CleanUpAge

\* What a merge leaves stays below the threshold: 100 for 72 hours and 30 days.
ASSUME MergeThresholdSuffices ==
    /\ Retention % HoursPerDay = 0
    /\ 3 * HoursPerDay + Retention \div HoursPerDay - 2 <= MergeThreshold

VARIABLES
    now,          \* the hour
    executed,     \* the executions that happened, back to the retention
    sqlEntries,   \* endpoint_uptimes
    hourly        \* Uptime.HourlyStatistics of the memory store

uptimeVars == <<now, executed, sqlEntries, hourly>>

\* each of the three is a set of entries [hour, total]
UptimeInit ==
    /\ now = 0
    /\ executed = {}
    /\ sqlEntries = {}
    /\ hourly = {}

FlooredAtDay(hour) == hour - (hour % HoursPerDay)

Total(entries) == MapThenSumSet(LAMBDA e : e.total, entries)

\* INSERT ... ON CONFLICT DO UPDATE, and the map of the memory store
Counted(entries) ==
    LET same == {e \in entries : e.hour = now}
    IN  (entries \ same) \cup {[hour |-> now, total |-> Total(same) + 1]}

(***************************************************************************)
(* mergeHourlyUptimeEntriesOlderThanMergeThresholdIntoDailyUptimeEntries.  *)
(***************************************************************************)
MinThresholdAtMidnight == FlooredAtDay(now)

MinThreshold == FlooredAtDay(now - Buffer)

\* a time within an hour, Retention before now: entries of that hour are older
OlderThan(age, entries) == {e \in entries : e.hour <= now - age}

Merged(entries) ==
    LET old == {e \in entries : e.hour < MinThreshold}
        kept == old \ OlderThan(Retention, old)
        days == {FlooredAtDay(e.hour) : e \in kept}
    IN  (entries \ old) \cup
        {[hour |-> day, total |-> Total({e \in kept : FlooredAtDay(e.hour) = day})] : day \in days}

MergedIfTooMany(entries) ==
    IF Cardinality(entries) > MergeThreshold THEN Merged(entries) ELSE entries

MergedIfMany(entries) ==
    IF Cardinality(entries) >= MergeThreshold THEN Merged(entries) ELSE entries

\* deleteOldUptimeEntries, for what was left while Gatus did not run
CleanedUp(entries) ==
    IF OlderThan(CleanUpAge, entries) # {}
    THEN entries \ OlderThan(Retention + 1, entries)
    ELSE entries

\* processUptimeAfterResult
CleanedUpInMemory(entries) ==
    IF Cardinality(entries) > CleanUpEntries
    THEN entries \ OlderThan(Retention + 1, entries)
    ELSE entries

\* the result of an execution is inserted
Execute ==
    /\ \A e \in executed : e.hour = now => e.total < PerHour
    /\ executed' = Counted(executed)
    /\ sqlEntries' = CleanedUp(MergedIfMany(Counted(sqlEntries)))
    /\ hourly' = CleanedUpInMemory(Counted(hourly))
    /\ UNCHANGED now

\* the clock, also while Gatus does not run
Tick ==
    /\ now < LastHour
    /\ now' = now + 1
    /\ executed' = {e \in executed : e.hour >= now' - Retention}
    /\ UNCHANGED <<sqlEntries, hourly>>

UptimeNext == Tick \/ Execute

UptimeSpec == UptimeInit /\ [][UptimeNext]_uptimeVars

(***************************************************************************)
(* getEndpointUptime, over the last hours up to now: SQL takes the entries *)
(* that begin in the window; the memory store walks it hour by hour, from  *)
(* the hour in which the window begins.                                    *)
(***************************************************************************)
SqlUptime(hours) == Total(sqlEntries \ OlderThan(hours, sqlEntries))

MemoryUptime(hours) ==
    Total({e \in hourly : \E back \in 0..hours : e.hour = now - back})

Happened(hours) == Total({e \in executed : e.hour > now - hours})
=============================================================================
