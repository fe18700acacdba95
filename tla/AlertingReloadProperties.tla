---------------------- MODULE AlertingReloadProperties ----------------------
(***************************************************************************)
(* What the alerts of an endpoint and their rows promise over restarts and *)
(* reloads, while a replaced endpoint still handles its results.           *)
(***************************************************************************)
EXTENDS AlertingReload, AlertingProperties

InitialSentLate(a) ==
    latePc = "trigger" /\ lateI = a /\ a \notin lateTriggered /\ a \in lateTriggered'

\* An alert is marked triggered only when a provider accepted a notification for its
\* incident, which is not over; the exceptions are a row that should have been gone when the
\* endpoint was loaded, and what the replaced endpoint did since (Triggered, alert.go;
\* initializeStorage, main.go).
Delivered == triggered \ crossed \subseteq open \cup leftover

\* The table of triggered alerts tells the incidents that are open: a row stands for an open
\* incident, for a failed deletion or for a replaced endpoint that wrote after its incident
\* was resolved, and an open incident that was saved has its row, whoever saved it
\* (UpsertTriggeredEndpointAlert, DeleteTriggeredEndpointAlert).
RowsMatchIncidents ==
    /\ \A a \in Alerts : HasRow(a) => a \in open \cup leftover
    /\ \A a \in open \ unsaved : HasRow(a)

\* The initial notification of an incident goes out once, restarts and reloads included,
\* unless the row of the alert was never written or could not be read, or the replaced
\* endpoint acted on the alert after the rows were read; nor does the replaced endpoint
\* repeat it before that (handleAlertsToTrigger).
InitialOncePerIncident ==
    [][\A a \in Alerts :
            InitialSent(a) \/ (InitialSentLate(a) /\ pc = "down")
                => a \notin open \/ a \in unsaved \cup crossed]_reloadVars
=============================================================================
