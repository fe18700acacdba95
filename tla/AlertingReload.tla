--------------------------- MODULE AlertingReload ---------------------------
(***************************************************************************)
(* Alerting over reloads of the configuration (gatus/main.go).  A reload   *)
(* cancels the context and sleeps for a second; it does not wait for what  *)
(* the replaced endpoint is doing.  Its goroutine may be inside a Send or  *)
(* a statement of the store, or about to handle another result, while the  *)
(* rows are read for the new configuration and while that handles results. *)
(*                                                                         *)
(* The replaced endpoint has a memory of its own; the table, and what      *)
(* happened so far, are shared.                                            *)
(***************************************************************************)
EXTENDS Alerting

VARIABLES \* pc, i, enabled, ... of the replaced endpoint, "down" when its goroutine has ended
    latePc, lateI, lateEnabled, lateSuccesses, lateFailures, lateTriggered,
    lateReminder, lateReference

\* Alerts that the replaced endpoint notified, resolved, wrote or deleted after the
\* configuration in use was loaded: the endpoint that took its place does not know of it.
VARIABLE crossed

lateMemory == <<lateI, lateEnabled, lateSuccesses, lateFailures, lateTriggered,
                lateReminder, lateReference>>
reloadVars == <<vars, latePc, lateMemory, crossed>>

Replaced == INSTANCE Alerting WITH
    pc <- latePc, i <- lateI, enabled <- lateEnabled, successes <- lateSuccesses,
    failures <- lateFailures, triggered <- lateTriggered,
    sinceReminder <- lateReminder, reference <- lateReference

ReloadTypeOK == TypeOK /\ Replaced!TypeOK /\ crossed \subseteq Alerts

NoneReplaced ==
    /\ latePc' = "down" /\ lateI' = 1 /\ lateEnabled' = lateEnabled
    /\ lateSuccesses' = 0 /\ lateFailures' = 0 /\ lateTriggered' = {}
    /\ lateReminder' = Never /\ lateReference' = Never

ReloadInit ==
    /\ Init
    /\ latePc = "down" /\ lateI = 1 /\ lateEnabled = enabled
    /\ lateSuccesses = 0 /\ lateFailures = 0 /\ lateTriggered = {}
    /\ lateReminder = Never /\ lateReference = Never
    /\ crossed = {}

LoadConfiguration ==
    /\ InitializeStorage
    /\ crossed' = {}
    /\ UNCHANGED <<latePc, lateMemory>>

\* What the endpoint is doing goes on as it is.  One replaced endpoint at a time: reloads
\* are half a minute apart.
Reload ==
    /\ "reload" \in Faults /\ pc # "down" /\ latePc = "down"
    /\ Discard
    /\ latePc' = pc /\ lateI' = i /\ lateEnabled' = enabled
    /\ lateSuccesses' = successes /\ lateFailures' = failures /\ lateTriggered' = triggered
    /\ lateReminder' = sinceReminder /\ lateReference' = reference
    /\ UNCHANGED crossed

\* The process ends, with what is left of the replaced endpoint.
StopAll == Stop /\ NoneReplaced /\ UNCHANGED crossed

\* The loop of the replaced endpoint finds its context ended.
Leave ==
    /\ latePc = "idle"
    /\ NoneReplaced
    /\ UNCHANGED <<vars, crossed>>

Handles ==
    /\ BeginTrigger \/ BeginResolve \/ Handle
    /\ UNCHANGED <<latePc, lateMemory, crossed>>

\* Its loop may also choose another tick over the end of the context.
ReplacedHandles ==
    /\ latePc # "down"
    /\ Replaced!BeginTrigger \/ Replaced!BeginResolve \/ Replaced!Handle
    /\ crossed' = IF pc # "down" /\ <<rows, open, unsaved, leftover>>' # <<rows, open, unsaved, leftover>>
                  THEN crossed \cup {lateI}
                  ELSE crossed
    /\ UNCHANGED <<pc, memory>>

ReloadTick ==
    /\ latePc \in {"down", "idle"} \/ "slow" \in Faults
    /\ Tick
    /\ lateReminder' = Older(lateReminder)
    /\ lateReference' = Older(lateReference)
    /\ UNCHANGED <<latePc, lateI, lateEnabled, lateSuccesses, lateFailures, lateTriggered, crossed>>

ReloadNext ==
    \/ LoadConfiguration \/ Reload \/ StopAll \/ Leave
    \/ Handles \/ ReplacedHandles \/ ReloadTick

ReloadSpec == ReloadInit /\ [][ReloadNext]_reloadVars
=============================================================================
