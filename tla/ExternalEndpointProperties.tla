--------------------- MODULE ExternalEndpointProperties ---------------------
(***************************************************************************)
(* What the alert of an external endpoint promises: with results handled   *)
(* by several goroutines, and with one result at a time.                   *)
(***************************************************************************)
EXTENDS ExternalEndpoint

(* What holds whatever the goroutines do. *)

InitialDelivered(t) == At(t, "send") /\ pc'[t] = "mark" /\ initial[t]

\* Concurrent handlers may each send the initial notification of an incident, but none sends
\* it twice before the alert is resolved (handleAlertsToTrigger on a shared alert).
InitialOncePerGoroutine ==
    [][\A t \in Threads : InitialDelivered(t) => t \notin senders]_vars
-----------------------------------------------------------------------------
(* What holds while results are handled one at a time: until two goroutines overlap. *)

VARIABLES
    overlapped, \* whether two goroutines were ever busy at the same time
    rowLost     \* whether the store ever failed to write or to delete the row

Busy == {t \in Threads : ~At(t, "idle")}
RowFails ==
    \E t \in Threads :
        \/ At(t, "persist") /\ pc'[t] # "persist" /\ ~row'
        \/ At(t, "delete") /\ pc'[t] # "delete" /\ row'

HInit == Init /\ overlapped = FALSE /\ rowLost = FALSE

HNext ==
    /\ Next
    /\ overlapped' = (overlapped \/ \E t, u \in Busy' : t # u)
    /\ rowLost' = (rowLost \/ RowFails)

HSpec == HInit /\ [][HNext]_<<vars, overlapped, rowLost>>

Settled == ~overlapped /\ Busy = {}

\* The counters written back are those of the results handled, so no result is counted twice
\* and none is lost (ToEndpoint and the assignments after HandleAlerting).
CountersMatchRuns == Settled => failures = runF /\ successes = runS

\* The row that outlives the process says whether the alert is triggered, unless the store
\* failed (UpsertTriggeredEndpointAlert, DeleteTriggeredEndpointAlert).
RowMatchesTriggered == Settled /\ ~rowLost => (row <=> triggered)

\* The alert is triggered and resolved as Incident says.
OneAtATime == INSTANCE Incident WITH ongoing <- triggered

ImplementsIncident ==
    /\ OneAtATime!IncidentInit
    /\ [][~overlapped' => OneAtATime!IncidentNext \/ UNCHANGED OneAtATime!incident]_<<vars, overlapped>>
=============================================================================
