-------------------------- MODULE ExternalEndpoint --------------------------
(***************************************************************************)
(* One external endpoint with one alert.  Its results are pushed through   *)
(* the API (gatus/api/external_endpoint.go), each request on a goroutine   *)
(* of its own, and a heartbeat of the watchdog records a failure when no   *)
(* update came (gatus/watchdog/external_endpoint.go).                      *)
(*                                                                         *)
(* Both work on a copy of the endpoint (ToEndpoint) that shares the alert  *)
(* with it, and write the counters of the copy back at the end.  There is  *)
(* no lock: the accesses to the shared counters and to the alert's         *)
(* Triggered field are one step each, in any interleaving.                 *)
(***************************************************************************)
EXTENDS Integers

CONSTANTS
    Requests,         \* goroutines that serve pushes
    Heartbeat,        \* the goroutine of the heartbeat
    HasHeartbeat,     \* whether the endpoint has one
    FailureThreshold, SuccessThreshold,
    Reminders,        \* whether MinimumReminderInterval is set
    Faults,           \* which of "insert", "send", "store", "maintenance" may happen
    MaxRun            \* counters are compared with thresholds only: they saturate here

ASSUME ExternalEndpointAssumption ==
    /\ Heartbeat \notin Requests
    /\ HasHeartbeat \in BOOLEAN /\ Reminders \in BOOLEAN
    /\ MaxRun \in Nat
    /\ FailureThreshold \in 1 .. MaxRun /\ SuccessThreshold \in 1 .. MaxRun

Threads == IF HasHeartbeat THEN Requests \cup {Heartbeat} ELSE Requests
Runs == 0 .. MaxRun

VARIABLES
    failures, successes, \* the endpoint's NumberOfFailuresInARow, NumberOfSuccessesInARow
    triggered,           \* the alert's Triggered
    row,                 \* whether the store holds a row for the alert
    recent,              \* whether the store holds a result newer than the heartbeat's interval
    pc,                  \* per goroutine: the next thing it does
    success,             \* per goroutine: the result it handles
    copyF, copyS,        \* per goroutine: the counters of its copy
    initial              \* per goroutine: the local sendInitialAlert

\* What happened so far; no action's guard reads these.
VARIABLES
    runF, runS,  \* failed, successful results in a row, in the order they were handed to alerting
    senders      \* goroutines whose initial notification was delivered since the last resolution

shared == <<failures, successes, triggered, row, recent>>
locals == <<success, copyF, copyS, initial>>
history == <<runF, runS, senders>>
vars == <<shared, pc, locals, history>>

Steps == {"idle", "copy failures", "copy successes", "check", "insert", "count", "decide",
          "send", "mark", "persist", "clear", "delete", "write successes", "write failures"}

TypeOK ==
    /\ failures \in Runs /\ successes \in Runs
    /\ triggered \in BOOLEAN /\ row \in BOOLEAN /\ recent \in BOOLEAN
    /\ pc \in [Threads -> Steps]
    /\ success \in [Threads -> BOOLEAN] /\ initial \in [Threads -> BOOLEAN]
    /\ copyF \in [Threads -> Runs] /\ copyS \in [Threads -> Runs]
    /\ runF \in Runs /\ runS \in Runs
    /\ senders \subseteq Threads

Bump(n) == IF n < MaxRun THEN n + 1 ELSE n
BelowByTwo(threshold, n) == threshold > n + 1
Below(threshold, n) == threshold > n
Outcomes(fault) == IF fault \in Faults THEN BOOLEAN ELSE {TRUE}
At(t, step) == pc[t] = step
Goto(t, step) == pc' = [pc EXCEPT ![t] = step]

\* The goroutine is done: its copy of the endpoint is dropped.
Done(t) ==
    /\ Goto(t, "idle")
    /\ success' = [success EXCEPT ![t] = FALSE] /\ initial' = [initial EXCEPT ![t] = FALSE]
    /\ copyF' = [copyF EXCEPT ![t] = 0] /\ copyS' = [copyS EXCEPT ![t] = 0]

Init ==
    /\ failures = 0 /\ successes = 0 /\ triggered = FALSE /\ row = FALSE /\ recent = FALSE
    /\ pc = [t \in Threads |-> "idle"]
    /\ success = [t \in Threads |-> FALSE] /\ initial = [t \in Threads |-> FALSE]
    /\ copyF = [t \in Threads |-> 0] /\ copyS = [t \in Threads |-> 0]
    /\ runF = 0 /\ runS = 0 /\ senders = {}
-----------------------------------------------------------------------------
ReceivePush(t) ==
    /\ t \in Requests /\ At(t, "idle") /\ Goto(t, "copy failures")
    /\ \E ok \in BOOLEAN : success' = [success EXCEPT ![t] = ok]
    /\ UNCHANGED <<shared, copyF, copyS, initial, history>>

\* The heartbeat's ticker fires.
StartHeartbeat(t) ==
    /\ t = Heartbeat /\ At(t, "idle") /\ Goto(t, "copy failures")
    /\ success' = [success EXCEPT ![t] = FALSE]
    /\ UNCHANGED <<shared, copyF, copyS, initial, history>>

(* ToEndpoint *)
CopyFailures(t) ==
    /\ At(t, "copy failures") /\ Goto(t, "copy successes")
    /\ copyF' = [copyF EXCEPT ![t] = failures]
    /\ UNCHANGED <<shared, success, copyS, initial, history>>

CopySuccesses(t) ==
    /\ At(t, "copy successes") /\ Goto(t, IF t = Heartbeat THEN "check" ELSE "insert")
    /\ copyS' = [copyS EXCEPT ![t] = successes]
    /\ UNCHANGED <<shared, success, copyF, initial, history>>

\* HasEndpointStatusNewerThan: a recent result, or an error of the store, ends the heartbeat.
HeartbeatPasses(t) ==
    /\ At(t, "check") /\ recent /\ Done(t)
    /\ UNCHANGED <<shared, history>>

HeartbeatUnknown(t) ==
    /\ At(t, "check") /\ "store" \in Faults /\ Done(t)
    /\ UNCHANGED <<shared, history>>

HeartbeatFails(t) ==
    /\ At(t, "check") /\ ~recent /\ Goto(t, "insert")
    /\ UNCHANGED <<shared, locals, history>>

\* InsertEndpointResult.  A push that cannot be stored is answered with an error, a heartbeat
\* goes on; in a maintenance window alerts are not handled.
Insert(t) ==
    /\ At(t, "insert")
    /\ \E stored \in Outcomes("insert"), alerting \in Outcomes("maintenance") :
        /\ recent' = (recent \/ stored)
        /\ IF alerting /\ (stored \/ t = Heartbeat)
           THEN /\ Goto(t, "count") /\ UNCHANGED locals
                /\ runF' = IF success[t] THEN 0 ELSE Bump(runF)
                /\ runS' = IF success[t] THEN Bump(runS) ELSE 0
           ELSE Done(t) /\ UNCHANGED <<runF, runS>>
    /\ UNCHANGED <<failures, successes, triggered, row, senders>>
-----------------------------------------------------------------------------
(* HandleAlerting on the copy *)

CountFailure(t) ==
    /\ At(t, "count") /\ ~success[t]
    /\ copyS' = [copyS EXCEPT ![t] = 0]
    /\ copyF' = [copyF EXCEPT ![t] = Bump(copyF[t])]
    /\ IF Below(FailureThreshold, copyF'[t])
       THEN Goto(t, "write successes") /\ UNCHANGED initial
       ELSE Goto(t, "decide") /\ initial' = [initial EXCEPT ![t] = ~triggered]
    /\ UNCHANGED <<shared, success, history>>

\* Triggered is read again for sendReminder.  The copy's LastReminderSent is the zero time,
\* so every interval has elapsed.
ReminderDue == triggered /\ Reminders

DecideToSend(t) ==
    /\ At(t, "decide")
    /\ Goto(t, IF initial[t] \/ ReminderDue THEN "send" ELSE "write successes")
    /\ UNCHANGED <<shared, locals, history>>

Send(t) ==
    /\ At(t, "send") /\ Goto(t, "mark")
    /\ senders' = IF initial[t] THEN senders \cup {t} ELSE senders
    /\ UNCHANGED <<shared, locals, runF, runS>>

SendFails(t) ==
    /\ At(t, "send") /\ "send" \in Faults /\ Goto(t, "write successes")
    /\ UNCHANGED <<shared, locals, history>>

MarkForgotten(t) ==
    /\ At(t, "mark") /\ Goto(t, "persist")
    /\ UNCHANGED <<shared, locals, history>>

Mark(t) ==
    /\ At(t, "mark") /\ Goto(t, "persist")
    /\ triggered' = (triggered \/ initial[t])
    /\ UNCHANGED <<failures, successes, row, recent, locals, history>>

\* UpsertTriggeredEndpointAlert, after a notification or below the success threshold.
Persist(t) ==
    /\ At(t, "persist") /\ Goto(t, "write successes")
    /\ \E ok \in Outcomes("store") : row' = (row \/ ok)
    /\ UNCHANGED <<failures, successes, triggered, recent, locals, history>>

CountSuccess(t) ==
    /\ At(t, "count") /\ success[t]
    /\ copyS' = [copyS EXCEPT ![t] = Bump(copyS[t])]
    /\ copyF' = [copyF EXCEPT ![t] = 0]
    /\ Goto(t, IF ~triggered THEN "write successes"
               ELSE IF Below(SuccessThreshold, copyS'[t]) THEN "persist" ELSE "clear")
    /\ UNCHANGED <<shared, success, initial, history>>

ClearWithoutDeletion(t) ==
    /\ At(t, "clear") /\ Goto(t, "write successes")
    /\ triggered' = FALSE
    /\ senders' = {}
    /\ UNCHANGED <<failures, successes, row, recent, locals, runF, runS>>

Clear(t) ==
    /\ At(t, "clear") /\ Goto(t, "delete")
    /\ triggered' = FALSE
    /\ senders' = {}
    /\ UNCHANGED <<failures, successes, row, recent, locals, runF, runS>>

\* DeleteTriggeredEndpointAlert; the notification that may follow changes nothing here.
Delete(t) ==
    /\ At(t, "delete") /\ Goto(t, "write successes")
    /\ \E ok \in Outcomes("store") : row' = (row /\ ~ok)
    /\ UNCHANGED <<failures, successes, triggered, recent, locals, history>>
-----------------------------------------------------------------------------
WriteSuccesses(t) ==
    /\ At(t, "write successes") /\ Goto(t, "write failures")
    /\ successes' = copyS[t]
    /\ UNCHANGED <<failures, triggered, row, recent, locals, history>>

WriteFailuresForgotten(t) ==
    /\ At(t, "write failures") /\ Done(t)
    /\ UNCHANGED <<shared, history>>

WriteFailures(t) ==
    /\ At(t, "write failures") /\ Done(t)
    /\ failures' = copyF[t]
    /\ UNCHANGED <<successes, triggered, row, recent, history>>

\* The interval of the heartbeat has passed since the newest result.
Elapse == recent /\ recent' = FALSE
          /\ UNCHANGED <<failures, successes, triggered, row, pc, locals, history>>

Receive(t) == ReceivePush(t) \/ StartHeartbeat(t) \/ CopyFailures(t) \/ CopySuccesses(t)
              \/ HeartbeatPasses(t) \/ HeartbeatUnknown(t) \/ HeartbeatFails(t)
              \/ Insert(t)
HandleAlerting(t) == CountFailure(t) \/ DecideToSend(t) \/ Send(t) \/ SendFails(t) \/ Mark(t)
                     \/ Persist(t) \/ CountSuccess(t) \/ Clear(t) \/ Delete(t)
WriteBack(t) == WriteSuccesses(t) \/ WriteFailures(t)

Next ==
    \/ Elapse
    \/ \E t \in Threads : Receive(t) \/ HandleAlerting(t) \/ WriteBack(t)

Spec == Init /\ [][Next]_vars
=============================================================================
