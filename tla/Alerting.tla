------------------------------ MODULE Alerting ------------------------------
(***************************************************************************)
(* The alert state machine of one endpoint (gatus/watchdog/alerting.go),   *)
(* with what survives the process: the table of triggered alerts that      *)
(* initializeStorage (gatus/main.go) reads when the process starts.        *)
(*                                                                         *)
(* A result of the endpoint is handled in steps, one per call that leaves  *)
(* the process (a provider's Send, a statement of the store), because each *)
(* call may fail and the process may stop between any two of them.         *)
(*                                                                         *)
(* Results that HandleAlerting never sees (maintenance windows, no         *)
(* alerting section) change nothing here and are not steps of this module. *)
(***************************************************************************)
EXTENDS Integers

CONSTANTS
    NAlerts,                 \* alerts of the endpoint, in configuration order
    FailureThreshold,        \* [Alerts -> Nat \ {0}]
    SuccessThreshold,        \* [Alerts -> Nat \ {0}]
    MinimumReminderInterval, \* [Alerts -> Nat], 0: no reminders
    SendOnResolved,          \* set of alerts
    Checksum,                \* [Alerts -> key of the alert's row in the store]
    Configs,                 \* sets of alerts a configuration may enable
    Faults,                  \* which of "stop", "reload", "send", "upsert", "delete", "read", "slow" may happen
    MaxRun,                  \* counters are compared with thresholds only: they saturate here
    MaxAge,                  \* ages are compared with intervals only: they saturate here
    Never,                   \* the age of the zero time.Time
    NoRow                    \* no row in the table

Alerts == 1 .. NAlerts
Checksums == {Checksum[a] : a \in Alerts}
Runs == 0 .. MaxRun
Ages == 0 .. MaxAge

ASSUME AlertsAssumption ==
    /\ NAlerts \in Nat \ {0}
    /\ MaxRun \in Nat /\ MaxAge \in Nat
    /\ FailureThreshold \in [Alerts -> 1 .. MaxRun]
    /\ SuccessThreshold \in [Alerts -> 1 .. MaxRun]
    /\ MinimumReminderInterval \in [Alerts -> Ages]
    /\ SendOnResolved \subseteq Alerts
    /\ Configs \subseteq SUBSET Alerts /\ Configs # {}
    /\ Never \notin Ages /\ NoRow \notin Runs

VARIABLES
    pc,            \* what the process does for this endpoint, "down" when it does not run
    i,             \* the loop's position in ep.Alerts
    enabled,       \* alerts enabled in the loaded configuration
    successes,     \* ep.NumberOfSuccessesInARow
    failures,      \* ep.NumberOfFailuresInARow
    triggered,     \* alerts whose Triggered field is true
    sinceReminder, \* age of ep.LastReminderSent
    reference,     \* age of the local lastReminderSent of handleAlertsToTrigger
    rows           \* endpoint_alerts_triggered: checksum -> number_of_successes_in_a_row

\* What happened so far; no action's guard reads these.
VARIABLES
    runS, runF,    \* successful, failed results handled in a row, over restarts too
    open,          \* alerts delivered to their provider and not marked resolved since
    unsaved,       \* open alerts whose row was never written or read back
    leftover,      \* alerts that are not open but have a row that was meant to be gone
    warmS, warmF,  \* the counter still derives from the value loaded at the last start
    sinceNotified  \* age of the last notification of each alert that was delivered

memory == <<i, enabled, successes, failures, triggered, sinceReminder, reference>>
history == <<runS, runF, open, unsaved, leftover, warmS, warmF, sinceNotified>>
vars == <<pc, memory, rows, history>>

Steps == {"down", "idle", "trigger", "persist", "resolve", "notify"}

TypeOK ==
    /\ pc \in Steps
    /\ i \in 1 .. NAlerts + 1
    /\ pc \in {"persist", "notify"} => i \in Alerts
    /\ enabled \in Configs
    /\ successes \in Runs /\ failures \in Runs
    /\ triggered \subseteq Alerts
    /\ sinceReminder \in Ages \cup {Never} /\ reference \in Ages \cup {Never}
    /\ rows \in [Checksums -> Runs \cup {NoRow}]
    /\ runS \in Runs /\ runF \in Runs
    /\ open \subseteq Alerts /\ unsaved \subseteq Alerts /\ leftover \subseteq Alerts
    /\ warmS \in BOOLEAN /\ warmF \in BOOLEAN
    /\ sinceNotified \in [Alerts -> Ages \cup {Never}]
-----------------------------------------------------------------------------
Bump(n) == IF n < MaxRun THEN n + 1 ELSE n
Older(age) == IF age = Never \/ age = MaxAge THEN age ELSE age + 1
Elapsed(age, interval) == IF age = Never THEN TRUE ELSE age >= interval

Outcomes(fault) == IF fault \in Faults THEN BOOLEAN ELSE {TRUE}

HasRow(a) == rows[Checksum[a]] # NoRow

Init ==
    /\ pc = "down" /\ i = 1 /\ enabled \in Configs
    /\ successes = 0 /\ failures = 0 /\ triggered = {}
    /\ sinceReminder = Never /\ reference = Never
    /\ rows = [c \in Checksums |-> NoRow]
    /\ runS = 0 /\ runF = 0
    /\ open = {} /\ unsaved = {} /\ leftover = {}
    /\ warmS = FALSE /\ warmF = FALSE
    /\ sinceNotified = [a \in Alerts |-> Never]

\* What DeleteAllTriggeredAlertsNotInChecksumsByEndpoint leaves of the table.
KeptRows(config) == [c \in Checksums |-> IF \E a \in config : Checksum[a] = c THEN rows[c] ELSE NoRow]

ForgetTriggered(loaded) == {}
TriggeredAfterLoad(loaded) == loaded

FailuresAfterLoad(a) == FailureThreshold[a]

\* Each loaded alert sets the counters of the endpoint: the last one wins.
LoadCounters(loaded, table) ==
    \/ loaded = {} /\ successes' = 0 /\ failures' = 0
    \/ \E a \in loaded :
        /\ \A b \in loaded : b <= a
        /\ successes' = table[Checksum[a]] /\ failures' = FailuresAfterLoad(a)

\* The configuration found at the start: rows of alerts that are not enabled any more are
\* deleted (unless that query fails), the other rows that can be read make their alert
\* triggered again.
Load(config, cleaned, readable) ==
    LET table == IF cleaned THEN KeptRows(config) ELSE rows
        loaded == {a \in config \cap readable : table[Checksum[a]] # NoRow}
    IN  /\ readable = Alerts \/ "read" \in Faults
        /\ enabled' = config
        /\ rows' = table
        /\ triggered' = TriggeredAfterLoad(loaded)
        /\ LoadCounters(loaded, table)
        /\ warmS' = (loaded # {}) /\ warmF' = (loaded # {})
        /\ open' = open \cap config
        /\ unsaved' = (unsaved \cup (open \ readable)) \cap config
        /\ leftover' = {a \in Alerts : /\ a \in leftover \/ a \notin config
                                       /\ table[Checksum[a]] # NoRow}

InitializeStorage ==
    /\ pc = "down"
    /\ \E config \in Configs, cleaned \in Outcomes("delete"), readable \in SUBSET Alerts :
        Load(config, cleaned, readable)
    /\ pc' = "idle" /\ i' = 1
    /\ sinceReminder' = Never /\ reference' = Never
    /\ UNCHANGED <<runS, runF, sinceNotified>>

\* The endpoint and its alerts are not in use any more.
Discard ==
    /\ pc' = "down" /\ i' = 1
    /\ successes' = 0 /\ failures' = 0 /\ triggered' = {}
    /\ sinceReminder' = Never /\ reference' = Never
    /\ warmS' = FALSE /\ warmF' = FALSE
    /\ UNCHANGED <<enabled, rows, runS, runF, open, unsaved, leftover, sinceNotified>>

\* The process ends, by a signal or otherwise, whatever it is doing.  A reload does not end
\* what it replaces: AlertingReload.
Stop == "stop" \in Faults /\ pc # "down" /\ Discard

\* Time passes, also while a result is handled if the calls of the handler take long.
Tick ==
    /\ pc \in {"down", "idle"} \/ "slow" \in Faults
    /\ sinceReminder' = Older(sinceReminder)
    /\ reference' = Older(reference)
    /\ sinceNotified' = [a \in Alerts |-> Older(sinceNotified[a])]
    /\ UNCHANGED <<pc, i, enabled, successes, failures, triggered, rows,
                   runS, runF, open, unsaved, leftover, warmS, warmF>>
-----------------------------------------------------------------------------
(* handleAlertsToTrigger *)

ReachedOneEarly(a) == a \in enabled /\ FailureThreshold[a] <= failures + 1
Reached(a) == a \in enabled /\ FailureThreshold[a] <= failures
InitialDue(a) == Reached(a) /\ a \notin triggered
ReminderDueAtOnce(a) == Reached(a) /\ a \in triggered /\ MinimumReminderInterval[a] > 0
ReminderDue(a) ==
    /\ Reached(a) /\ a \in triggered
    /\ MinimumReminderInterval[a] > 0
    /\ Elapsed(reference, MinimumReminderInterval[a])
Due(a) == InitialDue(a) \/ ReminderDue(a)

SuccessesKept == successes
SuccessesAfterFailure == 0

BeginTrigger ==
    /\ pc = "idle"
    /\ pc' = "trigger" /\ i' = 1
    /\ successes' = SuccessesAfterFailure /\ failures' = Bump(failures)
    /\ reference' = sinceReminder
    /\ runS' = 0 /\ runF' = Bump(runF) /\ warmS' = FALSE
    /\ UNCHANGED <<enabled, triggered, sinceReminder, rows,
                   open, unsaved, leftover, warmF, sinceNotified>>

NotDueRefreshing ==
    /\ pc = "trigger" /\ i \in Alerts /\ ~Due(i)
    /\ i' = i + 1 /\ sinceReminder' = 0
    /\ UNCHANGED <<pc, enabled, successes, failures, triggered, reference, rows, history>>

NotDue ==
    /\ pc = "trigger" /\ i \in Alerts /\ ~Due(i)
    /\ i' = i + 1
    /\ UNCHANGED <<pc, enabled, successes, failures, triggered, sinceReminder, reference,
                   rows, history>>

SendTriggerFailsUnnoticed ==
    /\ pc = "trigger" /\ i \in Alerts /\ Due(i) /\ "send" \in Faults
    /\ i' = i + 1 /\ triggered' = triggered \cup {i}
    /\ UNCHANGED <<pc, enabled, successes, failures, sinceReminder, reference, rows, history>>

\* The provider is missing or its Send returns an error: the alert stays as it is.
SendTriggerFails ==
    /\ pc = "trigger" /\ i \in Alerts /\ Due(i) /\ "send" \in Faults
    /\ i' = i + 1
    /\ UNCHANGED <<pc, enabled, successes, failures, triggered, sinceReminder, reference,
                   rows, history>>

SendTrigger ==
    /\ pc = "trigger" /\ i \in Alerts /\ Due(i)
    /\ pc' = "persist"
    /\ triggered' = triggered \cup {i}
    /\ sinceReminder' = 0
    /\ open' = open \cup {i}
    /\ unsaved' = IF HasRow(i) THEN unsaved ELSE unsaved \cup {i}
    /\ leftover' = leftover \ {i}
    /\ sinceNotified' = [sinceNotified EXCEPT ![i] = 0]
    /\ UNCHANGED <<i, enabled, successes, failures, reference, rows, runS, runF, warmS, warmF>>

\* A row that is written when the alert is not open (any more) is one too many.
Upsert ==
    \/ /\ rows' = [rows EXCEPT ![Checksum[i]] = successes]
       /\ unsaved' = unsaved \ {i}
       /\ leftover' = leftover \cup ({i} \ open)
    \/ "upsert" \in Faults /\ UNCHANGED <<rows, unsaved, leftover>>

PersistTrigger ==
    /\ pc = "persist"
    /\ pc' = "trigger" /\ i' = i + 1
    /\ Upsert
    /\ UNCHANGED <<enabled, successes, failures, triggered, sinceReminder, reference,
                   runS, runF, open, warmS, warmF, sinceNotified>>

EndTrigger ==
    /\ pc = "trigger" /\ i = NAlerts + 1
    /\ pc' = "idle" /\ i' = 1 /\ reference' = Never
    /\ UNCHANGED <<enabled, successes, failures, triggered, sinceReminder, rows, history>>
-----------------------------------------------------------------------------
(* handleAlertsToResolve *)

Ongoing(a) == a \in enabled /\ a \in triggered

BeginResolve ==
    /\ pc = "idle"
    /\ pc' = "resolve" /\ i' = 1
    /\ successes' = Bump(successes)
    /\ runS' = Bump(runS) /\ runF' = 0
    /\ UNCHANGED <<enabled, failures, triggered, sinceReminder, reference, rows,
                   open, unsaved, leftover, warmS, warmF, sinceNotified>>

NotOngoing ==
    /\ pc = "resolve" /\ i \in Alerts /\ ~Ongoing(i)
    /\ i' = i + 1
    /\ UNCHANGED <<pc, enabled, successes, failures, triggered, sinceReminder, reference,
                   rows, history>>

PersistSuccesses ==
    /\ pc = "resolve" /\ i \in Alerts /\ Ongoing(i) /\ SuccessThreshold[i] > successes
    /\ i' = i + 1
    /\ Upsert
    /\ UNCHANGED <<pc, enabled, successes, failures, triggered, sinceReminder, reference,
                   runS, runF, open, warmS, warmF, sinceNotified>>

DeleteNoRow(a) == rows
DeleteRow(a) == [rows EXCEPT ![Checksum[a]] = NoRow]

\* Triggered is cleared whether or not the row can be deleted and the provider be told.
MarkResolved ==
    /\ pc = "resolve" /\ i \in Alerts /\ Ongoing(i) /\ SuccessThreshold[i] <= successes
    /\ triggered' = triggered \ {i}
    /\ IF i \in SendOnResolved THEN pc' = "notify" /\ i' = i ELSE pc' = pc /\ i' = i + 1
    /\ open' = open \ {i} /\ unsaved' = unsaved \ {i}
    /\ \E ok \in Outcomes("delete") :
        /\ rows' = IF ok THEN DeleteRow(i) ELSE rows
        /\ leftover' = IF ok \/ ~HasRow(i) THEN leftover \ {i} ELSE leftover \cup {i}
    /\ UNCHANGED <<enabled, successes, failures, sinceReminder, reference,
                   runS, runF, warmS, warmF, sinceNotified>>

SendResolvedOrReopen ==
    /\ pc = "notify"
    /\ pc' = "resolve" /\ i' = i + 1
    /\ \E ok \in Outcomes("send") : triggered' = IF ok THEN triggered ELSE triggered \cup {i}
    /\ UNCHANGED <<enabled, successes, failures, sinceReminder, reference, rows, history>>

\* Whether the provider was told makes no difference to the process.
SendResolved ==
    /\ pc = "notify"
    /\ pc' = "resolve" /\ i' = i + 1
    /\ UNCHANGED <<enabled, successes, failures, triggered, sinceReminder, reference,
                   rows, history>>

EndResolve ==
    /\ pc = "resolve" /\ i = NAlerts + 1
    /\ pc' = "idle" /\ i' = 1 /\ failures' = 0 /\ warmF' = FALSE
    /\ UNCHANGED <<enabled, successes, triggered, sinceReminder, reference, rows,
                   runS, runF, open, unsaved, leftover, warmS, sinceNotified>>
-----------------------------------------------------------------------------
HandleFailure == NotDue \/ SendTriggerFails \/ SendTrigger \/ PersistTrigger \/ EndTrigger
HandleSuccess == NotOngoing \/ PersistSuccesses \/ MarkResolved \/ SendResolved \/ EndResolve
Handle == HandleFailure \/ HandleSuccess

Next == InitializeStorage \/ Stop \/ Tick \/ BeginTrigger \/ BeginResolve \/ Handle

Spec == Init /\ [][Next]_vars

\* The ticker of the endpoint's monitor keeps producing results, the handler's loops run
\* to their end, time passes, and a provider that is tried again and again does not refuse for ever.
Fairness ==
    /\ WF_vars(BeginTrigger \/ BeginResolve)
    /\ WF_vars(Handle)
    /\ WF_vars(Tick)
    /\ \A a \in Alerts : SF_vars(SendTrigger /\ i = a)

FairSpec == Spec /\ Fairness
=============================================================================
