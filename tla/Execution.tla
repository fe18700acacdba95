----------------------------- MODULE Execution -----------------------------
(***************************************************************************)
(* Executions of endpoints: the connectivity checker that they share, the  *)
(* evaluation, the storage of the result, and the maintenance windows that *)
(* decide whether alerting is handled.  The fields of the checker are read *)
(* and assigned without a lock.  Reading the clock and what follows from   *)
(* it take no time; a check, a call and an insertion do.                   *)
(***************************************************************************)
EXTENDS Evaluation, Maintenance

CONSTANTS
    Threads,        \* the goroutines that execute
    Choices,        \* per goroutine: the endpoints it may be configured with
    Global,         \* cfg.Maintenance
    Interval,       \* connectivity.checker.interval
    CheckTimeout,   \* 5s
    CallTimeout,    \* client.timeout
    LastTime        \* bounds the clock

ASSUME ExecutionAssumption ==
    /\ {Interval, CheckTimeout, CallTimeout, LastTime} \subseteq Nat
    /\ CheckTimeout <= Interval
    /\ Global \in Windows
    /\ \A t \in Threads : \A e \in Choices[t] :
          e.type \in Types /\ e.body \in BOOLEAN /\ e.windows \subseteq Windows

VARIABLES
    now,           \* the clock
    lastCheck,     \* c.lastCheck
    isConnected,   \* c.isConnected
    foundAt,       \* when the check began that isConnected tells of, for the properties
    endpoint,      \* per goroutine: its configuration
    pc,            \* per goroutine: what it does next
    since,         \* per goroutine: when its check or its call began
    outcome        \* per goroutine: [success, answered] of its check or its result

checker == <<lastCheck, isConnected, foundAt>>
vars == <<now, checker, endpoint, pc, since, outcome>>

Never == 0 - Interval - 1   \* the zero time
NoOutcome == [success |-> FALSE, answered |-> FALSE]

Init ==
    /\ now = 0
    /\ lastCheck = Never /\ isConnected = FALSE /\ foundAt = Never
    /\ endpoint \in {f \in [Threads -> UNION {Choices[t] : t \in Threads}] :
                        \A t \in Threads : f[t] \in Choices[t]}
    /\ pc = [t \in Threads |-> "waiting"]
    /\ since = [t \in Threads |-> 0]
    /\ outcome = [t \in Threads |-> NoOutcome]

At(t, step) == pc[t] = step
Goto(t, step) == pc' = [pc EXCEPT ![t] = step]

\* the ticker, and the semaphore
Execute(t) ==
    /\ At(t, "waiting") /\ Goto(t, "connectivity")
    /\ UNCHANGED <<now, checker, endpoint, since, outcome>>

(***************************************************************************)
(* IsConnected                                                             *)
(***************************************************************************)
ReadLastCheckTouched(t) ==
    /\ At(t, "connectivity")
    /\ IF now > lastCheck + Interval
       THEN since' = [since EXCEPT ![t] = now] /\ lastCheck' = now /\ Goto(t, "check")
       ELSE Goto(t, "connected") /\ UNCHANGED <<since, lastCheck>>
    /\ UNCHANGED <<now, isConnected, foundAt, endpoint, outcome>>

ReadLastCheck(t) ==
    /\ At(t, "connectivity")
    /\ IF now > lastCheck + Interval
       THEN since' = [since EXCEPT ![t] = now] /\ Goto(t, "check")
       ELSE Goto(t, "connected") /\ UNCHANGED since
    /\ UNCHANGED <<now, checker, endpoint, outcome>>

Check(t) ==
    /\ At(t, "check")
    /\ \E connected \in BOOLEAN : outcome' = [outcome EXCEPT ![t].success = connected]
    /\ Goto(t, "assign")
    /\ UNCHANGED <<now, checker, endpoint, since>>

AssignLastCheck(t) ==
    /\ At(t, "assign")
    /\ lastCheck' = since[t]
    /\ Goto(t, "assigning")
    /\ UNCHANGED <<now, isConnected, foundAt, endpoint, since, outcome>>

AssignIsConnected(t) ==
    /\ At(t, "assigning")
    /\ isConnected' = outcome[t].success /\ foundAt' = since[t]
    /\ outcome' = [outcome EXCEPT ![t] = NoOutcome]
    /\ Goto(t, "connected")
    /\ UNCHANGED <<now, lastCheck, endpoint, since>>

\* the execution is skipped if there is no connectivity
ReadIsConnected(t) ==
    /\ At(t, "connected")
    /\ Goto(t, IF isConnected THEN "call" ELSE "waiting")
    /\ since' = [since EXCEPT ![t] = IF isConnected THEN now ELSE 0]
    /\ UNCHANGED <<now, checker, endpoint, outcome>>

(***************************************************************************)
(* The rest of executeEndpoint                                             *)
(***************************************************************************)
Evaluate(t) ==
    /\ At(t, "call")
    /\ \/ \E r \in EvaluateHealth(endpoint[t]).answered :
             outcome' = [outcome EXCEPT ![t] = [success |-> r.success, answered |-> TRUE]]
       \/ \E r \in EvaluateHealth(endpoint[t]).unanswered :
             outcome' = [outcome EXCEPT ![t] = [success |-> r.success, answered |-> FALSE]]
    /\ Goto(t, "stored")
    /\ since' = [since EXCEPT ![t] = 0]
    /\ UNCHANGED <<now, checker, endpoint>>

InWindow(t) ==
    \/ \E w \in endpoint[t].windows : IsUnderMaintenance(w, now)
    \/ IsUnderMaintenance(Global, now)

\* the windows are looked at when the result is stored, not when it was measured
ReadWindows(t) ==
    /\ At(t, "stored")
    /\ Goto(t, IF InWindow(t) THEN "waiting" ELSE "alerting")
    /\ outcome' = [outcome EXCEPT ![t] = NoOutcome]
    /\ UNCHANGED <<now, checker, endpoint, since>>

\* HandleAlerting: Alerting
HandleAlerting(t) ==
    /\ At(t, "alerting") /\ Goto(t, "waiting")
    /\ UNCHANGED <<now, checker, endpoint, since, outcome>>

\* the clock, as far as checks and calls have not reached their timeouts
Tick ==
    /\ now < LastTime /\ now' = now + 1
    /\ \A t \in Threads :
          \/ pc[t] \in {"waiting", "stored"}
          \/ At(t, "check") /\ now < since[t] + CheckTimeout
          \/ At(t, "call") /\ now < since[t] + CallTimeout
    /\ UNCHANGED <<checker, endpoint, pc, since, outcome>>

Step(t) ==
    \/ Execute(t) \/ ReadLastCheck(t) \/ Check(t) \/ AssignLastCheck(t) \/ AssignIsConnected(t)
    \/ ReadIsConnected(t) \/ Evaluate(t) \/ ReadWindows(t) \/ HandleAlerting(t)

Next == Tick \/ \E t \in Threads : Step(t)

Spec == Init /\ [][Next]_vars
=============================================================================
