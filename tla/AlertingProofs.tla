--------------------------- MODULE AlertingProofs ---------------------------
(***************************************************************************)
(* The safety properties of AlertingProperties and, over reloads, of       *)
(* AlertingReloadProperties, for any number of alerts, any thresholds,     *)
(* intervals, configurations and faults.                                   *)
(*                                                                         *)
(* TypeOK is inductive.  The properties of counters and reminders follow   *)
(* from two inductive invariants that relate what the process counts to    *)
(* what happened; those of incidents follow from a third one, about the    *)
(* endpoint in use and the one it replaced, which needs alerts with        *)
(* different rows (DistinctChecksums).                                     *)
(***************************************************************************)
EXTENDS AlertingReloadProperties, TLAPS

\* What the handler counts is at most what happened, unless it was loaded from the store.
\* While a success is handled, failures still holds the run that the success ended.
CountersInv ==
    /\ pc # "down" => warmS \/ successes <= runS
    /\ pc \in {"idle", "trigger", "persist"} => warmF \/ failures <= runF

NotBefore(age, a) == sinceNotified[a] = Never \/ sinceNotified[a] >= age

\* No alert was notified after LastReminderSent, and none that the loop has yet to reach
\* after the copy of it that the loop works with.
RemindersInv ==
    /\ sinceReminder # Never => \A a \in Alerts : NotBefore(sinceReminder, a)
    /\ pc = "trigger" /\ reference # Never =>
            \A a \in Alerts : a >= i => NotBefore(reference, a)
    /\ pc = "persist" /\ reference # Never =>
            \A a \in Alerts : a > i => NotBefore(reference, a)

DistinctChecksums == \A a, b \in Alerts : Checksum[a] = Checksum[b] => a = b

\* The constants' assumptions, in the form the proofs use.
LEMMA Constants ==
    /\ NAlerts \in Nat /\ MaxRun \in Nat /\ MaxAge \in Nat
    /\ \A a \in Alerts : /\ a \in Int /\ Checksum[a] \in Checksums
                         /\ FailureThreshold[a] \in Runs /\ SuccessThreshold[a] \in Runs
                         /\ MinimumReminderInterval[a] \in Ages
    /\ \A config \in Configs : config \subseteq Alerts
    /\ 1 \in 1 .. NAlerts + 1
    /\ \A a \in Alerts : a + 1 \in 1 .. NAlerts + 1
    /\ Runs \subseteq Int /\ 0 \in Runs /\ Ages \subseteq Int /\ 0 \in Ages
    /\ Never \notin Ages /\ NoRow \notin Runs
  BY AlertsAssumption DEF AlertsAssumption, Alerts, Checksums, Runs, Ages

\* Counting and ageing stay in their ranges and are monotone.
LEMMA Saturation ==
    /\ \A n \in Runs : Bump(n) \in Runs
    /\ \A m, n \in Runs : m <= n => Bump(m) <= Bump(n)
    /\ \A t \in Ages \cup {Never} : Older(t) \in Ages \cup {Never}
    /\ \A t \in Ages : Older(t) \in Ages
    /\ \A s, t \in Ages : s >= t => Older(s) >= Older(t)
    /\ Older(Never) = Never
  BY AlertsAssumption DEF AlertsAssumption, Bump, Older, Runs, Ages

\* Each store operation leaves a table of the right type.
LEMMA Tables ==
    ASSUME rows \in [Checksums -> Runs \cup {NoRow}]
    PROVE  /\ \A config : KeptRows(config) \in [Checksums -> Runs \cup {NoRow}]
           /\ \A a : DeleteRow(a) \in [Checksums -> Runs \cup {NoRow}]
  BY DEF KeptRows, DeleteRow

LEMMA InitTypes == Init => TypeOK
  BY Constants, AlertsAssumption DEF Init, TypeOK, Steps, AlertsAssumption

\* Every action of the endpoint's alerting keeps each variable in its range.
LEMMA TypeStep == TypeOK /\ [Next]_vars => TypeOK'
<1> SUFFICES ASSUME TypeOK, [Next]_vars PROVE TypeOK'
  OBVIOUS
<1> USE Constants, Saturation, Tables DEF TypeOK, Steps
<1>1. CASE InitializeStorage
  <2>1. PICK config \in Configs, cleaned \in Outcomes("delete"), readable \in SUBSET Alerts :
          Load(config, cleaned, readable)
    BY <1>1 DEF InitializeStorage
  <2> DEFINE table == IF cleaned THEN KeptRows(config) ELSE rows
             loaded == {a \in config \cap readable : table[Checksum[a]] # NoRow}
  <2>2. table \in [Checksums -> Runs \cup {NoRow}]
    OBVIOUS
  <2>3. successes' \in Runs /\ failures' \in Runs
    <3>1. LoadCounters(loaded, table)
      BY <2>1 DEF Load
    <3>2. ASSUME NEW a \in loaded
          PROVE  table[Checksum[a]] \in Runs /\ FailureThreshold[a] \in Runs
      BY <2>2
    <3> HIDE DEF table, loaded
    <3> QED
      BY <3>1, <3>2 DEF LoadCounters, FailuresAfterLoad
  <2>4. /\ rows' = table /\ enabled' = config /\ triggered' = loaded
        /\ open' \subseteq Alerts /\ unsaved' \subseteq Alerts /\ leftover' \subseteq Alerts
        /\ warmS' \in BOOLEAN /\ warmF' \in BOOLEAN
    BY <2>1 DEF Load, TriggeredAfterLoad
  <2>5. triggered' \subseteq Alerts
    BY <2>4
  <2> HIDE DEF table, loaded
  <2> QED
    BY <1>1, <2>2, <2>3, <2>4, <2>5 DEF InitializeStorage
<1>2. CASE Stop
  BY <1>2 DEF Stop, Discard
<1>3. CASE Tick
  BY <1>3 DEF Tick
<1>4. CASE BeginTrigger
  BY <1>4 DEF BeginTrigger, SuccessesAfterFailure
<1>5. CASE NotDue
  BY <1>5 DEF NotDue, history
<1>6. CASE SendTriggerFails
  BY <1>6 DEF SendTriggerFails, history
<1>7. CASE SendTrigger
  BY <1>7 DEF SendTrigger
<1>8. CASE PersistTrigger
  BY <1>8 DEF PersistTrigger, Upsert
<1>9. CASE EndTrigger
  BY <1>9 DEF EndTrigger, history
<1>10. CASE BeginResolve
  BY <1>10 DEF BeginResolve
<1>11. CASE NotOngoing
  BY <1>11 DEF NotOngoing, history
<1>12. CASE PersistSuccesses
  <2>1. /\ i \in Alerts /\ i' = i + 1 /\ pc = "resolve" /\ Upsert
        /\ UNCHANGED <<pc, enabled, successes, failures, triggered, sinceReminder, reference,
                       runS, runF, open, warmS, warmF, sinceNotified>>
    BY <1>12 DEF PersistSuccesses
  <2>2. /\ rows' \in [Checksums -> Runs \cup {NoRow}]
        /\ unsaved' \subseteq Alerts /\ leftover' \subseteq Alerts
    <3>1. CASE UNCHANGED <<rows, unsaved, leftover>>
      BY <3>1
    <3>2. CASE /\ rows' = [rows EXCEPT ![Checksum[i]] = successes]
               /\ unsaved' = unsaved \ {i} /\ leftover' = leftover \cup ({i} \ open)
      BY <2>1, <3>2
    <3> QED
      BY <2>1, <3>1, <3>2 DEF Upsert
  <2> QED
    BY <2>1, <2>2
<1>13. CASE MarkResolved
  BY <1>13 DEF MarkResolved
<1>14. CASE SendResolved
  BY <1>14 DEF SendResolved, history
<1>15. CASE EndResolve
  BY <1>15 DEF EndResolve
<1>16. CASE UNCHANGED vars
  BY <1>16 DEF vars, memory, history
<1> QED
  BY <1>1, <1>2, <1>3, <1>4, <1>5, <1>6, <1>7, <1>8, <1>9, <1>10, <1>11, <1>12, <1>13,
     <1>14, <1>15, <1>16
     DEF Next, Handle, HandleFailure, HandleSuccess

\* Type correctness of one endpoint over restarts.
THEOREM TypeCorrect == Spec => []TypeOK
  BY InitTypes, TypeStep, PTL DEF Spec
-----------------------------------------------------------------------------
\* The step relation without its temporal part, for the three inductive invariants.
Step == TypeOK /\ [Next]_vars

\* One configuration load: what the invariants need of it.
LEMMA LoadFacts ==
    ASSUME TypeOK, InitializeStorage
    PROVE  \E config \in Configs, table \in [Checksums -> Runs \cup {NoRow}],
              loaded \in SUBSET Alerts, readable \in SUBSET Alerts :
            /\ \A a \in config : table[Checksum[a]] = rows[Checksum[a]]
            /\ \A c \in Checksums : table[c] = NoRow \/ table[c] = rows[c]
            /\ loaded = {a \in config \cap readable : table[Checksum[a]] # NoRow}
            /\ enabled' = config /\ rows' = table /\ triggered' = loaded
            /\ loaded = {} => successes' = 0 /\ failures' = 0
            /\ warmS' = (loaded # {}) /\ warmF' = (loaded # {})
            /\ open' = open \cap config
            /\ unsaved' = (unsaved \cup (open \ readable)) \cap config
            /\ leftover' = {a \in Alerts : /\ a \in leftover \/ a \notin config
                                           /\ table[Checksum[a]] # NoRow}
<1>1. PICK config \in Configs, cleaned \in Outcomes("delete"), readable \in SUBSET Alerts :
        Load(config, cleaned, readable)
  BY DEF InitializeStorage
<1> DEFINE table == IF cleaned THEN KeptRows(config) ELSE rows
           loaded == {a \in config \cap readable : table[Checksum[a]] # NoRow}
<1>2. table \in [Checksums -> Runs \cup {NoRow}]
  BY Tables DEF TypeOK
<1>3. loaded \in SUBSET Alerts
  OBVIOUS
<1>4. \A a \in config : table[Checksum[a]] = rows[Checksum[a]]
  BY Constants DEF KeptRows
<1>5. \A c \in Checksums : table[c] = NoRow \/ table[c] = rows[c]
  BY DEF KeptRows
<1>6. loaded = {} => successes' = 0 /\ failures' = 0
  <2>1. LoadCounters(loaded, table)
    BY <1>1 DEF Load
  <2> HIDE DEF table, loaded
  <2> QED
    BY <2>1 DEF LoadCounters
<1>7. /\ enabled' = config /\ rows' = table /\ triggered' = loaded
      /\ warmS' = (loaded # {}) /\ warmF' = (loaded # {})
      /\ open' = open \cap config
      /\ unsaved' = (unsaved \cup (open \ readable)) \cap config
      /\ leftover' = {a \in Alerts : /\ a \in leftover \/ a \notin config
                                     /\ table[Checksum[a]] # NoRow}
  BY <1>1 DEF Load, TriggeredAfterLoad
<1>8. loaded = {a \in config \cap readable : table[Checksum[a]] # NoRow}
  OBVIOUS
<1> HIDE DEF table, loaded
<1> QED
  BY <1>2, <1>3, <1>4, <1>5, <1>6, <1>7, <1>8

\* Counters never exceed the runs of results that were handled, unless they were loaded.
LEMMA CountersStep == Step /\ CountersInv => CountersInv'
<1> SUFFICES ASSUME TypeOK, [Next]_vars, CountersInv PROVE CountersInv'
  BY DEF Step
<1> USE Constants, Saturation DEF TypeOK, CountersInv
<1>1. CASE InitializeStorage
  <2>1. /\ warmS' \/ successes' = 0
        /\ warmF' \/ failures' = 0
    BY <1>1, LoadFacts
  <2> QED
    BY <1>1, <2>1, AlertsAssumption DEF InitializeStorage, Runs, AlertsAssumption
<1>2. CASE Stop
  BY <1>2 DEF Stop, Discard
<1>3. CASE Tick
  BY <1>3 DEF Tick
<1>4. CASE BeginTrigger
  BY <1>4 DEF BeginTrigger, SuccessesAfterFailure
<1>5. CASE BeginResolve
  BY <1>5 DEF BeginResolve
<1>6. CASE NotDue \/ SendTriggerFails \/ SendTrigger \/ PersistTrigger \/ EndTrigger
  BY <1>6 DEF NotDue, SendTriggerFails, SendTrigger, PersistTrigger, EndTrigger, history
<1>7. CASE NotOngoing \/ PersistSuccesses \/ MarkResolved \/ SendResolved
  BY <1>7 DEF NotOngoing, PersistSuccesses, MarkResolved, SendResolved, history
<1>8. CASE EndResolve
  BY <1>8, AlertsAssumption DEF EndResolve, Runs, AlertsAssumption
<1>9. CASE UNCHANGED vars
  BY <1>9 DEF vars, memory, history
<1> QED
  BY <1>1, <1>2, <1>3, <1>4, <1>5, <1>6, <1>7, <1>8, <1>9
     DEF Next, Handle, HandleFailure, HandleSuccess

\* An initial notification never goes out before FailureThreshold failures in a row were
\* handled, except while the counter derives from a value loaded at the start.
THEOREM TriggeredAfterThresholdHolds == Spec => TriggeredAfterThreshold
<1>1. Init => CountersInv
  BY DEF Init, CountersInv
<1>2. TypeOK /\ CountersInv /\ [Next]_vars =>
        [\A a \in Alerts : InitialSent(a) => warmF \/ runF >= FailureThreshold[a]]_vars
  <2> SUFFICES ASSUME TypeOK, CountersInv, Next, NEW a \in Alerts, InitialSent(a)
               PROVE  warmF \/ runF >= FailureThreshold[a]
    OBVIOUS
  <2>1. SendTrigger
    BY DEF Next, Handle, HandleFailure, HandleSuccess, InitialSent, InitializeStorage, Stop, Discard,
           Tick, BeginTrigger, BeginResolve, NotDue, SendTriggerFails, PersistTrigger,
           EndTrigger, NotOngoing, PersistSuccesses, MarkResolved, SendResolved, EndResolve
  <2>2. FailureThreshold[a] <= failures
    BY <2>1 DEF SendTrigger, InitialSent, Due, InitialDue, ReminderDue, Reached
  <2>3. warmF \/ failures <= runF
    BY DEF CountersInv, InitialSent
  <2>4. FailureThreshold[a] \in Int /\ failures \in Int /\ runF \in Int
    BY Constants DEF TypeOK
  <2> QED
    BY <2>2, <2>3, <2>4
<1> QED
  BY <1>1, <1>2, TypeCorrect, CountersStep, PTL DEF Spec, Step, TriggeredAfterThreshold

\* An alert is never resolved before SuccessThreshold successes in a row were handled,
\* except while the counter derives from a value loaded at the start.
THEOREM ResolvedAfterThresholdHolds == Spec => ResolvedAfterThreshold
<1>1. Init => CountersInv
  BY DEF Init, CountersInv
<1>2. TypeOK /\ CountersInv /\ [Next]_vars =>
        [\A a \in Alerts : Resolved(a) => warmS \/ runS >= SuccessThreshold[a]]_vars
  <2> SUFFICES ASSUME TypeOK, CountersInv, Next, NEW a \in Alerts, Resolved(a)
               PROVE  warmS \/ runS >= SuccessThreshold[a]
    OBVIOUS
  <2>1. MarkResolved
    BY DEF Next, Handle, HandleFailure, HandleSuccess, Resolved, InitializeStorage, Stop, Discard,
           Tick, BeginTrigger, BeginResolve, NotDue, SendTriggerFails, SendTrigger,
           PersistTrigger, EndTrigger, NotOngoing, PersistSuccesses, SendResolved, EndResolve
  <2>2. a = i /\ SuccessThreshold[a] <= successes
    BY <2>1 DEF MarkResolved, Resolved
  <2>3. warmS \/ successes <= runS
    BY DEF CountersInv, Resolved
  <2>4. SuccessThreshold[a] \in Int /\ successes \in Int /\ runS \in Int
    BY Constants DEF TypeOK
  <2> QED
    BY <2>2, <2>3, <2>4
<1> QED
  BY <1>1, <1>2, TypeCorrect, CountersStep, PTL DEF Spec, Step, ResolvedAfterThreshold
-----------------------------------------------------------------------------
\* Time does not put a notification after the clock it is compared with.
LEMMA NotBeforeOlder ==
    ASSUME TypeOK, Tick, NEW a \in Alerts, NEW age \in Ages, NotBefore(age, a)
    PROVE  sinceNotified'[a] = Never \/ sinceNotified'[a] >= Older(age)
<1>1. sinceNotified[a] \in Ages \cup {Never} /\ sinceNotified'[a] = Older(sinceNotified[a])
  BY DEF TypeOK, Tick
<1> QED
  BY <1>1, Saturation DEF NotBefore

\* No step lets a notification be younger than the clock its reminders are measured by.
LEMMA RemindersStep == Step /\ RemindersInv => RemindersInv'
<1> SUFFICES ASSUME TypeOK, [Next]_vars, RemindersInv PROVE RemindersInv'
  BY DEF Step
<1> USE Constants DEF TypeOK, RemindersInv, NotBefore
<1>1. CASE InitializeStorage
  BY <1>1 DEF InitializeStorage
<1>2. CASE Stop
  BY <1>2 DEF Stop, Discard
<1>3. CASE Tick
  <2>1. \A t \in Ages \cup {Never} : Older(t) # Never => t \in Ages
    BY Saturation
  <2>2. ASSUME sinceReminder' # Never, NEW a \in Alerts
        PROVE  sinceNotified'[a] = Never \/ sinceNotified'[a] >= sinceReminder'
    BY <1>3, <2>1, <2>2, NotBeforeOlder DEF Tick
  <2>3. ASSUME reference' # Never, NEW a \in Alerts, NotBefore(reference, a)
        PROVE  sinceNotified'[a] = Never \/ sinceNotified'[a] >= reference'
    BY <1>3, <2>1, <2>3, NotBeforeOlder DEF Tick
  <2>4. reference' # Never => reference # Never
    BY <1>3, Saturation DEF Tick
  <2>5. pc' = pc /\ i' = i
    BY <1>3 DEF Tick
  <2> QED
    BY <2>2, <2>3, <2>4, <2>5
<1>4. CASE BeginTrigger
  BY <1>4 DEF BeginTrigger
<1>5. CASE SendTrigger
  <2>1. \A a \in Alerts : sinceNotified'[a] = IF a = i THEN 0 ELSE sinceNotified[a]
    BY <1>5 DEF SendTrigger
  <2>2. \A a \in Alerts : sinceNotified'[a] = Never \/ sinceNotified'[a] >= 0
    BY <2>1, AlertsAssumption DEF AlertsAssumption, Ages
  <2>3. \A a \in Alerts : a > i => a >= i /\ a # i
    OBVIOUS
  <2> QED
    BY <1>5, <2>1, <2>2, <2>3 DEF SendTrigger
<1>6. CASE PersistTrigger
  <2>1. \A a \in Alerts : a >= i + 1 => a > i
    OBVIOUS
  <2> QED
    BY <1>6, <2>1 DEF PersistTrigger, Upsert
<1>7. CASE NotDue \/ SendTriggerFails
  <2>1. \A a \in Alerts : a >= i + 1 => a >= i
    OBVIOUS
  <2> QED
    BY <1>7, <2>1 DEF NotDue, SendTriggerFails, history
<1>8. CASE EndTrigger
  BY <1>8 DEF EndTrigger, history
<1>9. CASE BeginResolve \/ NotOngoing \/ PersistSuccesses \/ MarkResolved \/ SendResolved
           \/ EndResolve
  BY <1>9 DEF BeginResolve, NotOngoing, PersistSuccesses, MarkResolved, SendResolved,
              EndResolve, history
<1>10. CASE UNCHANGED vars
  BY <1>10 DEF vars, memory, history
<1> QED
  BY <1>1, <1>2, <1>3, <1>4, <1>5, <1>6, <1>7, <1>8, <1>9, <1>10
     DEF Next, Handle, HandleFailure, HandleSuccess

\* Once LastReminderSent holds a time, a reminder never follows the previous notification of
\* its alert by less than the alert's interval, whatever the other alerts of the endpoint do.
THEOREM ReminderSpacingHolds == Spec => ReminderSpacing
<1>1. Init => RemindersInv
  BY DEF Init, RemindersInv
<1>2. TypeOK /\ RemindersInv /\ [Next]_vars =>
        [\A a \in Alerts : ReminderSent(a) /\ reference # Never =>
            Elapsed(sinceNotified[a], MinimumReminderInterval[a])]_vars
  <2> SUFFICES ASSUME TypeOK, RemindersInv, Next, NEW a \in Alerts,
                      ReminderSent(a), reference # Never
               PROVE  Elapsed(sinceNotified[a], MinimumReminderInterval[a])
    OBVIOUS
  <2>1. SendTrigger
    BY DEF Next, Handle, HandleFailure, HandleSuccess, ReminderSent, InitializeStorage, Stop, Discard,
           Tick, BeginTrigger, BeginResolve, NotDue, SendTriggerFails, PersistTrigger,
           EndTrigger, NotOngoing, PersistSuccesses, MarkResolved, SendResolved, EndResolve
  <2>2. reference >= MinimumReminderInterval[a]
    BY <2>1 DEF SendTrigger, ReminderSent, Due, InitialDue, ReminderDue, Elapsed
  <2>3. sinceNotified[a] = Never \/ sinceNotified[a] >= reference
    BY Constants DEF RemindersInv, ReminderSent, NotBefore
  <2>4. /\ reference \in Int /\ MinimumReminderInterval[a] \in Int
        /\ sinceNotified[a] = Never \/ sinceNotified[a] \in Int
    BY Constants DEF TypeOK
  <2> QED
    BY <2>2, <2>3, <2>4 DEF Elapsed
<1> QED
  BY <1>1, <1>2, TypeCorrect, RemindersStep, PTL DEF Spec, Step, ReminderSpacing
-----------------------------------------------------------------------------
\* Writing or deleting the row of one alert leaves the rows of the others.
LEMMA OtherRows ==
    ASSUME TypeOK, DistinctChecksums
    PROVE  \A a, b \in Alerts : \A n \in Runs \cup {NoRow} :
            [rows EXCEPT ![Checksum[a]] = n][Checksum[b]] =
                IF b = a THEN n ELSE rows[Checksum[b]]
  BY Constants DEF TypeOK, DistinctChecksums

\* What a step of a handler does to the table and to the incidents, by the alert it is at
\* and the alerts that are triggered before and after it.
Notifies(a, tr, after) ==
    /\ after = tr \cup {a} /\ rows' = rows
    /\ open' = open \cup {a}
    /\ unsaved' = IF HasRow(a) THEN unsaved ELSE unsaved \cup {a}
    /\ leftover' = leftover \ {a}
Saves(a, tr, after) ==
    /\ after = tr /\ a \in tr /\ open' = open
    /\ \E n \in Runs : rows' = [rows EXCEPT ![Checksum[a]] = n]
    /\ unsaved' = unsaved \ {a}
    /\ leftover' = leftover \cup ({a} \ open)
Resolves(a, tr, after) ==
    /\ after = tr \ {a}
    /\ open' = open \ {a} /\ unsaved' = unsaved \ {a}
    /\ \/ rows' = [rows EXCEPT ![Checksum[a]] = NoRow] /\ leftover' = leftover \ {a}
       \/ rows' = rows /\ leftover' = IF HasRow(a) THEN leftover \cup {a} ELSE leftover \ {a}
Stutters(tr, after) == after = tr /\ UNCHANGED <<rows, open, unsaved, leftover>>
Effect(a, tr, after) ==
    \/ Stutters(tr, after)
    \/ a \in Alerts /\ (Notifies(a, tr, after) \/ Saves(a, tr, after) \/ Resolves(a, tr, after))

\* What is triggered is open, and what is open and saved is triggered, with exceptions.
TriggeredIsOpen(tr, except) == tr \ except \subseteq open \cup leftover
OpenIsTriggered(config, tr, except) == (open \cap config) \ unsaved \subseteq tr \cup except

\* The steps of the endpoint in use have such effects.
LEMMA HandlerEffect ==
    ASSUME TypeOK, pc = "persist" => i \in triggered,
           BeginTrigger \/ BeginResolve \/ Handle
    PROVE  /\ Effect(i, triggered, triggered')
           /\ pc # "down" /\ pc' # "down" /\ enabled' = enabled
           /\ pc' = "persist" => i' \in triggered'
<1> USE DEF Effect, Stutters
<1>1. CASE BeginTrigger \/ BeginResolve
  BY <1>1 DEF BeginTrigger, BeginResolve
<1>2. CASE NotDue \/ SendTriggerFails \/ EndTrigger \/ NotOngoing \/ SendResolved \/ EndResolve
  BY <1>2 DEF NotDue, SendTriggerFails, EndTrigger, NotOngoing, SendResolved, EndResolve, history
<1>3. CASE SendTrigger
  BY <1>3 DEF SendTrigger, Notifies
<1>4. CASE PersistTrigger \/ PersistSuccesses
  BY <1>4 DEF PersistTrigger, PersistSuccesses, Upsert, Ongoing, Saves, TypeOK
<1>5. CASE MarkResolved
  BY <1>5 DEF MarkResolved, Resolves, DeleteRow
<1> QED
  BY <1>1, <1>2, <1>3, <1>4, <1>5 DEF Handle, HandleFailure, HandleSuccess

\* So have those of the endpoint that was replaced.
LEMMA ReplacedEffect ==
    ASSUME Replaced!TypeOK, latePc = "persist" => lateI \in lateTriggered,
           Replaced!BeginTrigger \/ Replaced!BeginResolve \/ Replaced!Handle
    PROVE  /\ Effect(lateI, lateTriggered, lateTriggered')
           /\ latePc # "down" /\ latePc' # "down" /\ lateEnabled' = lateEnabled
           /\ latePc' = "persist" => lateI' \in lateTriggered'
<1> USE DEF Effect, Stutters, Replaced!Alerts, Alerts, Replaced!Runs, Runs,
            Replaced!HasRow, HasRow
<1>1. CASE Replaced!BeginTrigger \/ Replaced!BeginResolve
  BY <1>1 DEF Replaced!BeginTrigger, Replaced!BeginResolve
<1>2. CASE Replaced!NotDue \/ Replaced!SendTriggerFails \/ Replaced!EndTrigger
           \/ Replaced!NotOngoing \/ Replaced!SendResolved \/ Replaced!EndResolve
  BY <1>2 DEF Replaced!NotDue, Replaced!SendTriggerFails, Replaced!EndTrigger,
              Replaced!NotOngoing, Replaced!SendResolved, Replaced!EndResolve, Replaced!history
<1>3. CASE Replaced!SendTrigger
  BY <1>3 DEF Replaced!SendTrigger, Notifies
<1>4. CASE Replaced!PersistTrigger \/ Replaced!PersistSuccesses
  BY <1>4 DEF Replaced!PersistTrigger, Replaced!PersistSuccesses, Replaced!Upsert,
              Replaced!Ongoing, Saves, Replaced!TypeOK
<1>5. CASE Replaced!MarkResolved
  BY <1>5 DEF Replaced!MarkResolved, Resolves, Replaced!DeleteRow
<1> QED
  BY <1>1, <1>2, <1>3, <1>4, <1>5
     DEF Replaced!Handle, Replaced!HandleFailure, Replaced!HandleSuccess

\* Only at one of its alerts does the replaced endpoint change the table or the incidents.
LEMMA ReplacedMoves ==
    ASSUME Replaced!TypeOK,
           Replaced!BeginTrigger \/ Replaced!BeginResolve \/ Replaced!Handle
    PROVE  UNCHANGED <<rows, open, unsaved, leftover>> \/ lateI \in Alerts
<1> USE DEF Replaced!Alerts, Alerts
<1>1. CASE \/ Replaced!BeginTrigger \/ Replaced!BeginResolve \/ Replaced!EndTrigger
           \/ Replaced!SendResolved \/ Replaced!EndResolve
  BY <1>1 DEF Replaced!BeginTrigger, Replaced!BeginResolve, Replaced!EndTrigger,
              Replaced!SendResolved, Replaced!EndResolve, Replaced!history
<1>2. CASE \/ Replaced!NotDue \/ Replaced!SendTriggerFails \/ Replaced!SendTrigger
           \/ Replaced!PersistTrigger \/ Replaced!NotOngoing \/ Replaced!PersistSuccesses
           \/ Replaced!MarkResolved
  BY <1>2 DEF Replaced!NotDue, Replaced!SendTriggerFails, Replaced!SendTrigger,
              Replaced!PersistTrigger, Replaced!NotOngoing, Replaced!PersistSuccesses,
              Replaced!MarkResolved, Replaced!TypeOK
<1> QED
  BY <1>1, <1>2 DEF Replaced!Handle, Replaced!HandleFailure, Replaced!HandleSuccess

\* An effect keeps table and incidents in agreement, keeps the handler that had it in
\* agreement with both, and is seen at one alert only.
LEMMA EffectKeeps ==
    ASSUME TypeOK, DistinctChecksums, RowsMatchIncidents,
           NEW a, NEW tr, NEW after, Effect(a, tr, after)
    PROVE  /\ RowsMatchIncidents'
           /\ \A except : TriggeredIsOpen(tr, except) =>
                    after \ except \subseteq open' \cup leftover'
           /\ \A config, except : OpenIsTriggered(config, tr, except) =>
                    (open' \cap config) \ unsaved' \subseteq after \cup except
           /\ \A b : b # a => /\ b \in open' <=> b \in open
                              /\ b \in unsaved' <=> b \in unsaved
                              /\ b \in leftover' <=> b \in leftover
<1> USE DEF RowsMatchIncidents, HasRow, TriggeredIsOpen, OpenIsTriggered
<1>1. CASE Stutters(tr, after)
  BY <1>1 DEF Stutters
<1>2. CASE a \in Alerts /\ Notifies(a, tr, after)
  BY <1>2 DEF Notifies
<1>3. CASE a \in Alerts /\ Saves(a, tr, after)
  <2>1. PICK n \in Runs : rows' = [rows EXCEPT ![Checksum[a]] = n]
    BY <1>3 DEF Saves
  <2>2. \A b \in Alerts : rows'[Checksum[b]] = IF b = a THEN n ELSE rows[Checksum[b]]
    BY <1>3, <2>1, OtherRows
  <2>3. /\ after = tr /\ open' = open /\ unsaved' = unsaved \ {a}
        /\ leftover' = leftover \cup ({a} \ open) /\ a \in Alerts /\ a \in tr /\ n # NoRow
    BY <1>3, Constants DEF Saves
  <2>4. RowsMatchIncidents'
    <3>1. \A b \in Alerts : rows'[Checksum[b]] # NoRow => b \in open' \cup leftover'
      BY <2>2, <2>3
    <3>2. \A b \in open' \ unsaved' : rows'[Checksum[b]] # NoRow
      BY <2>2, <2>3 DEF TypeOK
    <3> QED
      BY <3>1, <3>2
  <2>5. \A except : TriggeredIsOpen(tr, except) => after \ except \subseteq open' \cup leftover'
    BY <2>3
  <2>6. ASSUME NEW config, NEW except, OpenIsTriggered(config, tr, except)
        PROVE  (open' \cap config) \ unsaved' \subseteq after \cup except
    BY <2>3, <2>6
  <2> QED
    BY <2>3, <2>4, <2>5, <2>6
<1>4. CASE a \in Alerts /\ Resolves(a, tr, after)
  <2>1. CASE rows' = [rows EXCEPT ![Checksum[a]] = NoRow] /\ leftover' = leftover \ {a}
    <3>1. \A b \in Alerts : rows'[Checksum[b]] = IF b = a THEN NoRow ELSE rows[Checksum[b]]
      BY <1>4, <2>1, OtherRows
    <3>2. /\ after = tr \ {a} /\ open' = open \ {a} /\ unsaved' = unsaved \ {a} /\ a \in Alerts
      BY <1>4 DEF Resolves
    <3>3. RowsMatchIncidents'
      BY <2>1, <3>1, <3>2 DEF TypeOK
    <3> QED
      BY <2>1, <3>2, <3>3
  <2>2. CASE rows' = rows /\ leftover' = IF HasRow(a) THEN leftover \cup {a} ELSE leftover \ {a}
    BY <1>4, <2>2 DEF Resolves
  <2> QED
    BY <1>4, <2>1, <2>2 DEF Resolves
<1> QED
  BY <1>1, <1>2, <1>3, <1>4 DEF Effect

\* The types of the variables of the replaced endpoint.
LateTypeOK ==
    /\ latePc \in Steps
    /\ lateI \in 1 .. NAlerts + 1
    /\ latePc \in {"persist", "notify"} => lateI \in Alerts
    /\ lateEnabled \in Configs
    /\ lateSuccesses \in Runs /\ lateFailures \in Runs
    /\ lateTriggered \subseteq Alerts
    /\ lateReminder \in Ages \cup {Never} /\ lateReference \in Ages \cup {Never}

SharedTypeOK ==
    /\ rows \in [Checksums -> Runs \cup {NoRow}]
    /\ runS \in Runs /\ runF \in Runs
    /\ open \subseteq Alerts /\ unsaved \subseteq Alerts /\ leftover \subseteq Alerts
    /\ warmS \in BOOLEAN /\ warmF \in BOOLEAN
    /\ sinceNotified \in [Alerts -> Ages \cup {Never}]

\* The definitions of Alerting mean the same for both endpoints.
LEMMA ReplacedTypes ==
    /\ Replaced!TypeOK <=> LateTypeOK /\ SharedTypeOK
    /\ \A n : Replaced!Bump(n) = Bump(n)
    /\ \A a : Replaced!DeleteRow(a) = DeleteRow(a)
    /\ \A a : Replaced!HasRow(a) <=> HasRow(a)
    /\ Replaced!Alerts = Alerts
  BY DEF LateTypeOK, SharedTypeOK, Replaced!TypeOK, Replaced!Steps, Steps, Replaced!Alerts,
         Alerts, Replaced!Runs, Runs, Replaced!Ages, Ages, Replaced!Checksums, Checksums,
         Replaced!Bump, Bump, Replaced!DeleteRow, DeleteRow, Replaced!HasRow, HasRow

\* A step of one of the two endpoints keeps the types of its variables and of the shared ones.
LEMMA ReplacedTypeStep ==
    ASSUME Replaced!TypeOK, TypeOK,
           Replaced!BeginTrigger \/ Replaced!BeginResolve \/ Replaced!Handle
    PROVE  LateTypeOK' /\ SharedTypeOK'
<1> USE Constants, Saturation, Tables, ReplacedTypes DEF LateTypeOK, SharedTypeOK, Steps
<1>1. CASE Replaced!BeginTrigger
  BY <1>1 DEF Replaced!BeginTrigger, Replaced!SuccessesAfterFailure
<1>2. CASE Replaced!BeginResolve
  BY <1>2 DEF Replaced!BeginResolve
<1>3. CASE Replaced!NotDue \/ Replaced!SendTriggerFails \/ Replaced!EndTrigger
  BY <1>3 DEF Replaced!NotDue, Replaced!SendTriggerFails, Replaced!EndTrigger, Replaced!history
<1>4. CASE Replaced!SendTrigger
  BY <1>4 DEF Replaced!SendTrigger
<1>5. CASE Replaced!PersistTrigger
  BY <1>5 DEF Replaced!PersistTrigger, Replaced!Upsert
<1>6. CASE Replaced!PersistSuccesses
  BY <1>6 DEF Replaced!PersistSuccesses, Replaced!Upsert
<1>7. CASE Replaced!NotOngoing \/ Replaced!SendResolved \/ Replaced!EndResolve
  BY <1>7 DEF Replaced!NotOngoing, Replaced!SendResolved, Replaced!EndResolve, Replaced!history
<1>8. CASE Replaced!MarkResolved
  BY <1>8 DEF Replaced!MarkResolved
<1> QED
  BY <1>1, <1>2, <1>3, <1>4, <1>5, <1>6, <1>7, <1>8
     DEF Replaced!Handle, Replaced!HandleFailure, Replaced!HandleSuccess

\* Type correctness over reloads: each step keeps the variables of both endpoints in range.
THEOREM ReloadTypeCorrect == ReloadSpec => []ReloadTypeOK
<1>1. ReloadInit => ReloadTypeOK
  <2> SUFFICES ASSUME ReloadInit PROVE ReloadTypeOK
    OBVIOUS
  <2>1. TypeOK
    BY InitTypes DEF ReloadInit
  <2>2. LateTypeOK /\ SharedTypeOK /\ crossed \subseteq Alerts
    BY <2>1, Constants DEF ReloadInit, TypeOK, LateTypeOK, SharedTypeOK, Steps
  <2> QED
    BY <2>1, <2>2, ReplacedTypes DEF ReloadTypeOK
<1>2. ReloadTypeOK /\ [ReloadNext]_reloadVars => ReloadTypeOK'
  <2> SUFFICES ASSUME ReloadTypeOK, [ReloadNext]_reloadVars
               PROVE  TypeOK' /\ LateTypeOK' /\ SharedTypeOK' /\ crossed' \subseteq Alerts
    <3>1. LateTypeOK' /\ SharedTypeOK' => Replaced!TypeOK'
      BY DEF LateTypeOK, SharedTypeOK, Replaced!TypeOK, Replaced!Steps, Steps, Replaced!Alerts,
             Alerts, Replaced!Runs, Runs, Replaced!Ages, Ages, Replaced!Checksums, Checksums
    <3> QED
      BY <3>1 DEF ReloadTypeOK
  <2>1. TypeOK /\ LateTypeOK /\ SharedTypeOK /\ Replaced!TypeOK /\ crossed \subseteq Alerts
    BY ReplacedTypes DEF ReloadTypeOK
  <2>2. TypeOK' => SharedTypeOK'
    BY DEF TypeOK, SharedTypeOK
  <2>3. CASE LoadConfiguration
    <3>1. TypeOK' /\ UNCHANGED <<latePc, lateMemory>> /\ crossed' = {}
      BY <2>1, <2>3, TypeStep DEF LoadConfiguration, Next
    <3> QED
      BY <2>1, <2>2, <3>1 DEF LateTypeOK, lateMemory
  <2>4. CASE Reload
    BY <2>1, <2>2, <2>4, Constants DEF Reload, Discard, TypeOK, LateTypeOK, Steps
  <2>5. CASE StopAll
    <3>1. TypeOK' /\ NoneReplaced /\ crossed' = crossed
      BY <2>1, <2>5, TypeStep DEF StopAll, Next
    <3> QED
      BY <2>1, <2>2, <3>1, Constants DEF LateTypeOK, NoneReplaced, Steps
  <2>6. CASE Leave
    BY <2>1, <2>2, <2>6, TypeStep, Constants DEF Leave, LateTypeOK, NoneReplaced, Steps
  <2>7. CASE Handles
    <3>1. TypeOK' /\ UNCHANGED <<latePc, lateMemory, crossed>>
      BY <2>1, <2>7, TypeStep DEF Handles, Next
    <3> QED
      BY <2>1, <2>2, <3>1 DEF LateTypeOK, lateMemory
  <2>8. CASE ReplacedHandles
    <3>1. LateTypeOK' /\ SharedTypeOK'
      BY <2>1, <2>8, ReplacedTypeStep DEF ReplacedHandles
    <3>2. TypeOK'
      BY <2>1, <2>8, <3>1 DEF ReplacedHandles, memory, TypeOK, SharedTypeOK
    <3>3. crossed' \subseteq Alerts
      <4>1. UNCHANGED <<rows, open, unsaved, leftover>> \/ lateI \in Alerts
        BY <2>1, <2>8, ReplacedMoves DEF ReplacedHandles
      <4> QED
        BY <2>1, <2>8, <4>1 DEF ReplacedHandles
    <3> QED
      BY <3>1, <3>2, <3>3
  <2>9. CASE ReloadTick
    <3>1. TypeOK' /\ UNCHANGED <<latePc, lateI, lateEnabled, lateSuccesses, lateFailures,
                                 lateTriggered, crossed>>
      BY <2>1, <2>9, TypeStep DEF ReloadTick, Next
    <3>2. lateReminder' = Older(lateReminder) /\ lateReference' = Older(lateReference)
      BY <2>9 DEF ReloadTick
    <3> QED
      BY <2>1, <2>2, <3>1, <3>2, Saturation DEF LateTypeOK
  <2>10. CASE UNCHANGED reloadVars
    <3>1. UNCHANGED vars /\ UNCHANGED <<latePc, lateMemory, crossed>>
      BY <2>10 DEF reloadVars
    <3>2. TypeOK'
      BY <2>1, <3>1, TypeStep
    <3> QED
      BY <2>1, <2>2, <3>1, <3>2 DEF LateTypeOK, lateMemory
  <2> QED
    BY <2>3, <2>4, <2>5, <2>6, <2>7, <2>8, <2>9, <2>10 DEF ReloadNext
<1> QED
  BY <1>1, <1>2, PTL DEF ReloadSpec

\* Memory, table and provider agree on the incidents that are open: the memory of the endpoint
\* in use, and until the rows are read for it that of the endpoint it replaces.
ReloadInv ==
    /\ RowsMatchIncidents
    /\ TriggeredIsOpen(triggered, crossed)
    /\ pc = "down" => triggered = {}
    /\ pc # "down" => OpenIsTriggered(enabled, triggered, crossed)
    /\ pc = "down" => TriggeredIsOpen(lateTriggered, crossed)
    /\ pc = "down" /\ latePc # "down" => OpenIsTriggered(lateEnabled, lateTriggered, crossed)
    /\ pc = "persist" => i \in triggered
    /\ latePc = "persist" => lateI \in lateTriggered

ReloadStep == ReloadTypeOK /\ [ReloadNext]_reloadVars

\* Every step keeps memory, table and provider in agreement.
LEMMA IncidentsStep ==
    ASSUME DistinctChecksums
    PROVE  ReloadStep /\ ReloadInv => ReloadInv'
<1> SUFFICES ASSUME TypeOK, Replaced!TypeOK, [ReloadNext]_reloadVars, ReloadInv PROVE ReloadInv'
  BY DEF ReloadStep, ReloadTypeOK
<1> USE DEF ReloadInv, TriggeredIsOpen, OpenIsTriggered
<1>1. CASE LoadConfiguration
  <2> USE DEF RowsMatchIncidents, HasRow
  <2>1. PICK config \in Configs, table \in [Checksums -> Runs \cup {NoRow}],
              loaded \in SUBSET Alerts, readable \in SUBSET Alerts :
            /\ \A a \in config : table[Checksum[a]] = rows[Checksum[a]]
            /\ \A c \in Checksums : table[c] = NoRow \/ table[c] = rows[c]
            /\ loaded = {a \in config \cap readable : table[Checksum[a]] # NoRow}
            /\ enabled' = config /\ rows' = table /\ triggered' = loaded
            /\ loaded = {} => successes' = 0 /\ failures' = 0
            /\ warmS' = (loaded # {}) /\ warmF' = (loaded # {})
            /\ open' = open \cap config
            /\ unsaved' = (unsaved \cup (open \ readable)) \cap config
            /\ leftover' = {a \in Alerts : /\ a \in leftover \/ a \notin config
                                           /\ table[Checksum[a]] # NoRow}
    BY <1>1, LoadFacts DEF LoadConfiguration
  <2>2. \A a \in Alerts : rows'[Checksum[a]] # NoRow => a \in open' \cup leftover'
    BY <2>1, Constants
  <2>3. \A a \in open' \ unsaved' : rows'[Checksum[a]] # NoRow
    BY <2>1
  <2>4. triggered' \subseteq open' \cup leftover'
    BY <2>1, <2>2
  <2>5. (open' \cap enabled') \ unsaved' \subseteq triggered'
    BY <2>1, <2>3
  <2>6. pc' = "idle" /\ crossed' = {} /\ UNCHANGED <<latePc, lateI, lateTriggered>>
    BY <1>1 DEF LoadConfiguration, InitializeStorage, lateMemory
  <2> QED
    BY <2>2, <2>3, <2>4, <2>5, <2>6
<1>2. CASE Reload
  BY <1>2 DEF Reload, Discard, RowsMatchIncidents, HasRow
<1>3. CASE StopAll
  BY <1>3 DEF StopAll, Stop, Discard, NoneReplaced, RowsMatchIncidents, HasRow
<1>4. CASE Leave
  BY <1>4 DEF Leave, NoneReplaced, vars, memory, history, RowsMatchIncidents, HasRow
<1>5. CASE Handles
  <2>1. /\ Effect(i, triggered, triggered')
        /\ pc # "down" /\ pc' # "down" /\ enabled' = enabled
        /\ pc' = "persist" => i' \in triggered'
    BY <1>5, HandlerEffect DEF Handles
  <2>2. UNCHANGED <<latePc, lateI, lateTriggered, crossed>>
    BY <1>5 DEF Handles, lateMemory
  <2>3. /\ RowsMatchIncidents'
        /\ triggered' \ crossed \subseteq open' \cup leftover'
        /\ (open' \cap enabled) \ unsaved' \subseteq triggered' \cup crossed
    BY <2>1, EffectKeeps
  <2> QED
    BY <2>1, <2>2, <2>3
<1>6. CASE ReplacedHandles
  <2>1. /\ Effect(lateI, lateTriggered, lateTriggered')
        /\ latePc # "down" /\ latePc' # "down" /\ lateEnabled' = lateEnabled
        /\ latePc' = "persist" => lateI' \in lateTriggered'
    BY <1>6, ReplacedEffect DEF ReplacedHandles
  <2>2. UNCHANGED <<pc, i, enabled, triggered>>
    BY <1>6 DEF ReplacedHandles, memory
  <2>3. RowsMatchIncidents'
    BY <2>1, EffectKeeps
  <2>4. CASE pc = "down"
    <3>1. crossed' = crossed
      BY <1>6, <2>4 DEF ReplacedHandles
    <3>2. /\ lateTriggered' \ crossed \subseteq open' \cup leftover'
          /\ (open' \cap lateEnabled) \ unsaved' \subseteq lateTriggered' \cup crossed
      BY <2>1, <2>4, EffectKeeps
    <3> QED
      BY <2>1, <2>2, <2>3, <2>4, <3>1, <3>2
  <2>5. CASE pc # "down"
    <3>1. \/ UNCHANGED <<open, unsaved, leftover>> /\ crossed' = crossed
          \/ crossed' = crossed \cup {lateI}
      BY <1>6, <2>5 DEF ReplacedHandles
    <3>2. \A b : b # lateI => /\ b \in open' <=> b \in open
                              /\ b \in unsaved' <=> b \in unsaved
                              /\ b \in leftover' <=> b \in leftover
      BY <2>1, EffectKeeps
    <3>3. triggered \ crossed' \subseteq open' \cup leftover'
      BY <3>1, <3>2
    <3>4. (open' \cap enabled) \ unsaved' \subseteq triggered \cup crossed'
      BY <2>5, <3>1, <3>2
    <3> QED
      BY <2>1, <2>2, <2>3, <2>5, <3>3, <3>4
  <2> QED
    BY <2>4, <2>5
<1>7. CASE ReloadTick
  BY <1>7 DEF ReloadTick, Tick, RowsMatchIncidents, HasRow
<1>8. CASE UNCHANGED reloadVars
  BY <1>8 DEF reloadVars, vars, memory, history, lateMemory, RowsMatchIncidents, HasRow
<1> QED
  BY <1>1, <1>2, <1>3, <1>4, <1>5, <1>6, <1>7, <1>8 DEF ReloadNext

LEMMA IncidentsInit == ReloadInit => ReloadInv
  BY Constants DEF ReloadInit, Init, ReloadInv, TriggeredIsOpen, OpenIsTriggered,
                   RowsMatchIncidents, HasRow

\* The table tells the incidents that are open and no others, in every reachable state,
\* whatever faults happen and whatever a replaced endpoint still does, when no two alerts of
\* the endpoint share a checksum.
THEOREM RowsMatchIncidentsHolds ==
    ASSUME DistinctChecksums
    PROVE  ReloadSpec => []RowsMatchIncidents
<1>1. ReloadStep /\ ReloadInv => ReloadInv'
  BY IncidentsStep
<1>2. ReloadInv => RowsMatchIncidents
  BY DEF ReloadInv
<1> QED
  BY <1>1, <1>2, IncidentsInit, ReloadTypeCorrect, PTL DEF ReloadSpec, ReloadStep

\* An alert is triggered only for an incident its provider was told of and that is not over,
\* because the row of another was left in the table, or because the endpoint that was
\* replaced acted on it after the rows were read.
THEOREM DeliveredHolds ==
    ASSUME DistinctChecksums
    PROVE  ReloadSpec => []Delivered
<1>1. ReloadStep /\ ReloadInv => ReloadInv'
  BY IncidentsStep
<1>2. ReloadInv => Delivered
  BY DEF ReloadInv, TriggeredIsOpen, Delivered
<1> QED
  BY <1>1, <1>2, IncidentsInit, ReloadTypeCorrect, PTL DEF ReloadSpec, ReloadStep

\* The initial notification of an incident goes out once, over any number of restarts and
\* reloads, unless its row was never written or could not be read, or the endpoint that was
\* replaced acted on the alert after the rows were read.
THEOREM InitialOncePerIncidentHolds ==
    ASSUME DistinctChecksums
    PROVE  ReloadSpec => InitialOncePerIncident
<1>1. ReloadStep /\ ReloadInv => ReloadInv'
  BY IncidentsStep
<1>2. ReloadTypeOK /\ ReloadInv /\ [ReloadNext]_reloadVars =>
        [\A a \in Alerts :
            InitialSent(a) \/ (InitialSentLate(a) /\ pc = "down")
                => a \notin open \/ a \in unsaved \cup crossed]_reloadVars
  <2> SUFFICES ASSUME ReloadTypeOK, ReloadInv, ReloadNext, NEW a \in Alerts,
                      InitialSent(a) \/ (InitialSentLate(a) /\ pc = "down")
               PROVE  a \notin open \/ a \in unsaved \cup crossed
    OBVIOUS
  <2>1. CASE InitialSent(a)
    <3>1. SendTrigger
      BY <2>1 DEF ReloadNext, LoadConfiguration, Reload, StopAll, Leave, Handles,
             ReplacedHandles, ReloadTick, memory, vars, InitialSent, InitializeStorage, Stop,
             Discard, Tick, BeginTrigger, BeginResolve, Handle, HandleFailure, HandleSuccess,
             NotDue, SendTriggerFails, PersistTrigger, EndTrigger, NotOngoing,
             PersistSuccesses, MarkResolved, SendResolved, EndResolve
    <3>2. a \in enabled /\ a \notin triggered /\ pc # "down"
      BY <2>1, <3>1 DEF SendTrigger, InitialSent, Due, InitialDue, ReminderDue, Reached
    <3> QED
      BY <3>2 DEF ReloadInv, OpenIsTriggered
  <2>2. CASE InitialSentLate(a) /\ pc = "down"
    <3>1. Replaced!SendTrigger
      BY <2>2 DEF ReloadNext, LoadConfiguration, Reload, StopAll, Leave, NoneReplaced, Handles,
             ReplacedHandles, ReloadTick, lateMemory, InitialSentLate,
             Replaced!BeginTrigger, Replaced!BeginResolve, Replaced!Handle,
             Replaced!HandleFailure, Replaced!HandleSuccess, Replaced!NotDue,
             Replaced!SendTriggerFails, Replaced!PersistTrigger, Replaced!EndTrigger,
             Replaced!NotOngoing, Replaced!PersistSuccesses, Replaced!MarkResolved,
             Replaced!SendResolved, Replaced!EndResolve
    <3>2. a \in lateEnabled /\ a \notin lateTriggered /\ latePc # "down"
      BY <2>2, <3>1 DEF Replaced!SendTrigger, InitialSentLate, Replaced!Due,
             Replaced!InitialDue, Replaced!ReminderDue, Replaced!Reached
    <3> QED
      BY <2>2, <3>2 DEF ReloadInv, OpenIsTriggered
  <2> QED
    BY <2>1, <2>2
<1> QED
  BY <1>1, <1>2, IncidentsInit, ReloadTypeCorrect, PTL
     DEF ReloadSpec, ReloadStep, InitialOncePerIncident
-----------------------------------------------------------------------------
\* Each alert of the endpoint is an Incident, from the start of the process to its end and
\* after a restart once the loaded counters are gone: it is triggered and resolved after the
\* documented numbers of results in a row, whatever the provider, the store and the other
\* alerts do.
THEOREM AlertingImplementsIncident == Spec => ImplementsIncident
<1>1. Init => CountersInv
  BY DEF Init, CountersInv
<1>2. Init => \A a \in Alerts : PerAlert(a)!IncidentInit
  BY DEF Init, PerAlert!IncidentInit
<1>3. Step /\ CountersInv =>
        [\/ pc = "down" \/ pc' = "down" \/ warmS \/ warmF
         \/ \A a \in Alerts : PerAlert(a)!IncidentNext \/ UNCHANGED PerAlert(a)!incident]_vars
  <2> SUFFICES ASSUME TypeOK, CountersInv, Next, NEW a \in Alerts,
                      pc # "down", pc' # "down", ~warmS, ~warmF
               PROVE  PerAlert(a)!IncidentNext \/ UNCHANGED PerAlert(a)!incident
    BY DEF Step
  <2>1. CASE InitializeStorage
    BY <2>1 DEF InitializeStorage
  <2>2. CASE Stop
    BY <2>2 DEF Stop, Discard
  <2>3. CASE BeginTrigger
    BY <2>3 DEF BeginTrigger, Bump, PerAlert!IncidentNext, PerAlert!Fail, PerAlert!Count
  <2>4. CASE BeginResolve
    BY <2>4 DEF BeginResolve, Bump, PerAlert!IncidentNext, PerAlert!Succeed, PerAlert!Count
  <2>5. CASE SendTrigger
    <3>1. UNCHANGED <<runF, runS>> /\ triggered' = triggered \cup {i}
      BY <2>5 DEF SendTrigger
    <3>2. CASE a \in triggered \/ a # i
      BY <3>1, <3>2 DEF PerAlert!incident
    <3>3. CASE a \notin triggered /\ a = i
      <4>1. FailureThreshold[a] <= failures /\ failures <= runF
        BY <2>5, <3>3 DEF SendTrigger, Due, InitialDue, ReminderDue, Reached, CountersInv
      <4>2. FailureThreshold[a] \in Int /\ failures \in Int /\ runF \in Int
        BY Constants DEF TypeOK
      <4>3. runF >= FailureThreshold[a]
        BY <4>1, <4>2
      <4> QED
        BY <3>1, <3>3, <4>3 DEF PerAlert!IncidentNext, PerAlert!Trigger
    <3> QED
      BY <3>2, <3>3
  <2>6. CASE MarkResolved
    <3>1. UNCHANGED <<runF, runS>> /\ triggered' = triggered \ {i} /\ i \in triggered
      BY <2>6 DEF MarkResolved, Ongoing
    <3>2. CASE a # i
      BY <3>1, <3>2 DEF PerAlert!incident
    <3>3. CASE a = i
      <4>1. SuccessThreshold[a] <= successes /\ successes <= runS
        BY <2>6, <3>3 DEF MarkResolved, CountersInv
      <4>2. SuccessThreshold[a] \in Int /\ successes \in Int /\ runS \in Int
        BY Constants DEF TypeOK
      <4>3. runS >= SuccessThreshold[a]
        BY <4>1, <4>2
      <4> QED
        BY <3>1, <3>3, <4>3 DEF PerAlert!IncidentNext, PerAlert!Resolve
    <3> QED
      BY <3>2, <3>3
  <2>7. CASE Tick \/ NotDue \/ SendTriggerFails \/ PersistTrigger \/ EndTrigger
    BY <2>7 DEF Tick, NotDue, SendTriggerFails, PersistTrigger, EndTrigger, history,
                PerAlert!incident
  <2>8. CASE NotOngoing \/ PersistSuccesses \/ SendResolved \/ EndResolve
    BY <2>8 DEF NotOngoing, PersistSuccesses, SendResolved, EndResolve, history,
                PerAlert!incident
  <2> QED
    BY <2>1, <2>2, <2>3, <2>4, <2>5, <2>6, <2>7, <2>8
       DEF Next, Handle, HandleFailure, HandleSuccess
<1> QED
  BY <1>1, <1>2, <1>3, TypeCorrect, CountersStep, PTL DEF Spec, Step, ImplementsIncident
=============================================================================
