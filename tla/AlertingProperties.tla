------------------------- MODULE AlertingProperties -------------------------
(***************************************************************************)
(* What the alerts of an endpoint promise to the people they wake up, over *)
(* restarts; over reloads see AlertingReloadProperties.                    *)
(***************************************************************************)
EXTENDS Alerting

InitialSent(a) == pc = "trigger" /\ i = a /\ a \notin triggered /\ a \in triggered'
ReminderSent(a) == pc = "trigger" /\ i = a /\ a \in triggered /\ pc' = "persist"
Resolved(a) == pc = "resolve" /\ pc' # "down" /\ a \in triggered /\ a \notin triggered'

\* An initial notification follows at least FailureThreshold failures in a row, unless the
\* counter still derives from the value initializeStorage gave it.
TriggeredAfterThreshold ==
    [][\A a \in Alerts : InitialSent(a) => warmF \/ runF >= FailureThreshold[a]]_vars

\* An alert is resolved after at least SuccessThreshold successes in a row, unless the
\* counter still derives from the value initializeStorage gave it.
ResolvedAfterThreshold ==
    [][\A a \in Alerts : Resolved(a) => warmS \/ runS >= SuccessThreshold[a]]_vars

\* A reminder never follows the previous notification of its alert by less than the
\* alert's MinimumReminderInterval, once LastReminderSent holds a time.
ReminderSpacing ==
    [][\A a \in Alerts : ReminderSent(a) /\ reference # Never =>
            Elapsed(sinceNotified[a], MinimumReminderInterval[a])]_vars

\* Lazy retry: while the endpoint keeps failing, an enabled alert whose provider refuses
\* is tried again at each result until it is delivered, restarts included, unless a row that
\* could not be deleted makes it triggered from the start (Triggered, alert.go).
LazyRetry ==
    \A a \in Alerts :
        <>[](a \in enabled /\ pc \in {"idle", "trigger", "persist"}) => <>[](a \in open \cup leftover)

\* While the endpoint keeps failing and one of its alerts asks for reminders, reminders keep
\* going out: LastReminderSent is only refreshed by a notification that was accepted.
RemindersKeepComing ==
    <>[](/\ \E a \in triggered \cap enabled : MinimumReminderInterval[a] > 0
         /\ pc \in {"idle", "trigger", "persist"})
        => []<>(pc = "persist")

\* While the endpoint keeps succeeding, every alert of it is resolved in the end, whatever
\* the provider and the store answer (handleAlertsToResolve).
ResolvedInTheEnd ==
    <>[](pc \in {"idle", "resolve", "notify"}) => <>[](triggered \cap enabled = {})

\* Each alert of the endpoint behaves as Incident says, whatever the provider, the store and
\* the other alerts do: from the start of the process to its end, and again after a restart
\* once no counter derives from the value initializeStorage gave it.
PerAlert(a) == INSTANCE Incident
    WITH FailureThreshold <- FailureThreshold[a], SuccessThreshold <- SuccessThreshold[a],
         ongoing <- (a \in triggered)

ImplementsIncident ==
    /\ \A a \in Alerts : PerAlert(a)!IncidentInit
    /\ [][\/ pc = "down" \/ pc' = "down" \/ warmS \/ warmF
          \/ \A a \in Alerts : PerAlert(a)!IncidentNext \/ UNCHANGED PerAlert(a)!incident]_vars
=============================================================================
