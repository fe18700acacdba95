-------------------------------- MODULE Suite --------------------------------
(***************************************************************************)
(* One suite: its executions (gatus/config/suite/suite.go), each followed  *)
(* by the storage of its result and the alerting of its endpoints          *)
(* (executeSuite, gatus/watchdog/suite.go).  Executions of a suite do not  *)
(* overlap: one goroutine runs them all.                                   *)
(*                                                                         *)
(* Of HandleAlerting only the endpoint's count of failures in a row is     *)
(* kept; the values endpoints share through the suite's context are not    *)
(* modelled, as no property tells them apart.                              *)
(***************************************************************************)
EXTENDS Integers, Sequences

CONSTANTS
    NEndpoints, \* the suite's endpoints, in order
    AlwaysRun,  \* those that are executed after a failure too
    Faults,     \* which of "timeout", "insert", "maintenance" may happen
    MaxRun,     \* counters are compared with thresholds only: they saturate here
    NoResult    \* nothing is stored yet

Endpoints == 1 .. NEndpoints

ASSUME SuiteAssumption ==
    /\ NEndpoints \in Nat \ {0}
    /\ AlwaysRun \subseteq Endpoints
    /\ MaxRun \in Nat

VARIABLES
    pc,             \* what the suite's goroutine does
    i,              \* the loop's position in s.Endpoints
    timer,          \* timeoutChan: "running", "fired", "drained" once its value was received
    suiteHasFailed,
    results,        \* result.EndpointResults, each with the endpoint it is of
    errors,         \* whether result.Errors is not empty
    stored,         \* the last result of the suite that was stored
    failures        \* NumberOfFailuresInARow of each endpoint

\* What happened so far; no action's guard reads it.
VARIABLE ownRun     \* failed results in a row of each endpoint itself

execution == <<timer, suiteHasFailed, results, errors>>
vars == <<pc, i, execution, stored, failures, ownRun>>

EndpointResult == [endpoint : Endpoints, success : BOOLEAN]
SuiteResult == [success : BOOLEAN, errors : BOOLEAN, results : Seq(EndpointResult)]
SuccessOfLast == ~errors /\ (results = <<>> \/ results[Len(results)].success)
Success == ~errors /\ \A k \in DOMAIN results : results[k].success
Snapshot == [success |-> Success, errors |-> errors, results |-> results]

TypeOK ==
    /\ pc \in {"idle", "loop", "evaluate", "store", "alert"}
    /\ i \in 1 .. NEndpoints + 1
    /\ timer \in {"running", "fired", "drained"}
    /\ suiteHasFailed \in BOOLEAN /\ errors \in BOOLEAN
    /\ results \in Seq(EndpointResult) /\ Len(results) <= NEndpoints
    /\ stored \in SuiteResult \cup {NoResult}
    /\ failures \in [Endpoints -> 0 .. MaxRun] /\ ownRun \in [Endpoints -> 0 .. MaxRun]

Outcomes(fault) == IF fault \in Faults THEN BOOLEAN ELSE {TRUE}
After(run, success) == IF success THEN 0 ELSE IF run < MaxRun THEN run + 1 ELSE run

Init ==
    /\ pc = "idle" /\ i = 1
    /\ timer = "running" /\ suiteHasFailed = FALSE /\ results = <<>> /\ errors = FALSE
    /\ stored = NoResult
    /\ failures = [e \in Endpoints |-> 0] /\ ownRun = [e \in Endpoints |-> 0]
-----------------------------------------------------------------------------
(* Execute *)

Begin ==
    /\ pc = "idle" /\ pc' = "loop" /\ i' = 1
    /\ timer' = "running" /\ suiteHasFailed' = FALSE /\ results' = <<>> /\ errors' = FALSE
    /\ UNCHANGED <<stored, failures, ownRun>>

TimerFires ==
    /\ pc \in {"loop", "evaluate"} /\ timer = "running" /\ "timeout" \in Faults
    /\ timer' = "fired"
    /\ UNCHANGED <<pc, i, suiteHasFailed, results, errors, stored, failures, ownRun>>

SkippedAll(e) == suiteHasFailed
Skipped(e) == suiteHasFailed /\ e \notin AlwaysRun

Skip ==
    /\ pc = "loop" /\ i \in Endpoints /\ Skipped(i)
    /\ i' = i + 1
    /\ UNCHANGED <<pc, execution, stored, failures, ownRun>>

\* select on the timer's channel; its break leaves the select, not the loop.
CheckTimeout ==
    /\ pc = "loop" /\ i \in Endpoints /\ ~Skipped(i)
    /\ pc' = "evaluate"
    /\ errors' = (errors \/ timer = "fired")
    /\ timer' = IF timer = "fired" THEN "drained" ELSE timer
    /\ UNCHANGED <<i, suiteHasFailed, results, stored, failures, ownRun>>

ResultsWith(result) == Append(results, result)

\* EvaluateHealthWithContext; a failure to store values leaves the result's success alone.
Evaluate ==
    /\ pc = "evaluate" /\ pc' = "loop" /\ i' = i + 1
    /\ \E success \in BOOLEAN :
        /\ results' = ResultsWith([endpoint |-> i, success |-> success])
        /\ suiteHasFailed' = (suiteHasFailed \/ ~success)
    /\ UNCHANGED <<timer, errors, stored, failures, ownRun>>

EndExecution ==
    /\ pc = "loop" /\ i = NEndpoints + 1
    /\ pc' = "store"
    /\ UNCHANGED <<i, execution, stored, failures, ownRun>>
-----------------------------------------------------------------------------
(* executeSuite *)

\* UpdateSuiteStatus: an error of the store is logged.
Store ==
    /\ pc = "store" /\ pc' = "alert" /\ i' = 1
    /\ \E ok \in Outcomes("insert") : stored' = IF ok THEN Snapshot ELSE stored
    /\ UNCHANGED <<execution, failures, ownRun>>

HasOwnResult(e) == \E k \in DOMAIN results : results[k].endpoint = e
OwnResult(e) == results[CHOOSE k \in DOMAIN results : results[k].endpoint = e]

ResultForFirst(e) == results[1]
ResultFor(e) == results[e]

\* HandleAlerting of the i-th endpoint with the i-th result, if there is one.
Alert ==
    /\ pc = "alert" /\ i <= Len(results)
    /\ i' = i + 1
    /\ \E handled \in Outcomes("maintenance") :
        /\ failures' = IF handled
                       THEN [failures EXCEPT ![i] = After(@, ResultFor(i).success)]
                       ELSE failures
        /\ ownRun' = IF handled /\ HasOwnResult(i)
                     THEN [ownRun EXCEPT ![i] = After(@, OwnResult(i).success)]
                     ELSE ownRun
    /\ UNCHANGED <<pc, execution, stored>>

EndAlerts ==
    /\ pc = "alert" /\ i > Len(results)
    /\ pc' = "idle" /\ i' = 1
    /\ UNCHANGED <<execution, stored, failures, ownRun>>
-----------------------------------------------------------------------------
Execute == Skip \/ CheckTimeout \/ Evaluate \/ EndExecution
Next == Begin \/ TimerFires \/ Execute \/ Store \/ Alert \/ EndAlerts

Spec == Init /\ [][Next]_vars
=============================================================================
