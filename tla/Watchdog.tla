------------------------------ MODULE Watchdog ------------------------------
(***************************************************************************)
(* The goroutines of gatus/watchdog and the life cycle of gatus/main.go    *)
(* around them.  Monitor starts one goroutine per endpoint and suite; each *)
(* executes, then waits for its ticker or for the end of its context.  A   *)
(* weighted semaphore bounds the executions in flight.  A modified         *)
(* configuration file stops the monitoring and starts it again.            *)
(*                                                                         *)
(* The context and the semaphore are package variables: Monitor assigns    *)
(* them without a lock, and the goroutines of the previous configuration,  *)
(* which nobody waits for, read them while it does.  Each read and each    *)
(* assignment of them is a step of its own.                                *)
(***************************************************************************)
EXTENDS Integers, SequencesExt

CONSTANTS
    Monitors,                 \* per configuration: number of enabled endpoints and suites
    Heartbeats,               \* those of a configuration that are heartbeats
    Concurrency,              \* cfg.Concurrency, 0: unlimited
    UnlimitedConcurrencyWeight,
    MaxGenerations,           \* bound: how many times Monitor is called
    SkipInvalidConfigUpdate,
    Events                    \* which of "modified", "invalid", "signal" may happen

Generations == 1 .. MaxGenerations
Threads == UNION {{g} \X (1 .. Monitors[g]) : g \in Generations}
Generation(t) == t[1]
Weight == IF Concurrency = 0 THEN UnlimitedConcurrencyWeight ELSE Concurrency

ASSUME WatchdogAssumption ==
    /\ MaxGenerations \in Nat \ {0} /\ Monitors \in [Generations -> Nat \ {0}]
    /\ Heartbeats \subseteq Nat
    /\ Concurrency \in Nat /\ UnlimitedConcurrencyWeight \in Nat \ {0}
    /\ SkipInvalidConfigUpdate \in BOOLEAN

VARIABLES
    lifecycle,  \* what main and listenToConfigurationFileChanges do
    ctx,        \* the generation whose context is in the package variable ctx
    semaphore,  \* the generation whose semaphore is in monitoringSemaphore
    next,       \* the monitor that Monitor starts next
    cancelled,  \* generations whose context is cancelled
    serving,    \* whether the API is served
    signalled,  \* whether a termination signal was handled
    held,       \* per semaphore: its weight in use, as it counts
    waiting,    \* per semaphore: the goroutines that wait for it, in order
    pc,         \* per goroutine: the next thing it does
    tick,       \* per goroutine: its ticker's channel
    acquired,   \* per goroutine: the semaphore it read to acquire (0: none)
    context,    \* per goroutine: the context it waits with (0: none)
    deferred    \* per goroutine: the semaphore its deferred call releases (0: none)

globals == <<ctx, semaphore>>
main == <<lifecycle, next, cancelled, serving, signalled>>
tokens == <<held, waiting>>
locals == <<acquired, context, deferred>>
vars == <<main, globals, tokens, pc, tick, locals>>

Lifecycles == {"begin", "assign", "start", "listen", "stopped", "exited", "panicked"}
Steps == {"unborn", "execute", "acquire", "queued", "granted", "acquired", "running",
          "select", "ended"}

TypeOK ==
    /\ lifecycle \in Lifecycles
    /\ ctx \in 0 .. MaxGenerations /\ semaphore \in 0 .. MaxGenerations
    /\ next \in Nat \ {0}
    /\ cancelled \subseteq Generations
    /\ serving \in BOOLEAN /\ signalled \in BOOLEAN
    /\ held \in [Generations -> Int] /\ \A g \in Generations : held[g] <= Weight
    /\ waiting \in [Generations -> Seq(Threads)]
    /\ \A g \in Generations : IsInjective(waiting[g])
    /\ pc \in [Threads -> Steps]
    /\ tick \in [Threads -> {"none", "empty", "full"}]
    /\ acquired \in [Threads -> 0 .. MaxGenerations]
    /\ context \in [Threads -> 0 .. MaxGenerations]
    /\ deferred \in [Threads -> 0 .. MaxGenerations]

Alive == lifecycle \notin {"exited", "panicked"}
At(t, step) == Alive /\ pc[t] = step
Goto(t, step) == pc' = [pc EXCEPT ![t] = step]
Cancelled(t) == context[t] \in cancelled

Init ==
    /\ lifecycle = "begin" /\ ctx = 0 /\ semaphore = 0 /\ next = 1
    /\ cancelled = {} /\ serving = FALSE /\ signalled = FALSE
    /\ held = [g \in Generations |-> 0] /\ waiting = [g \in Generations |-> <<>>]
    /\ pc = [t \in Threads |-> "unborn"] /\ tick = [t \in Threads |-> "none"]
    /\ acquired = [t \in Threads |-> 0] /\ context = [t \in Threads |-> 0]
    /\ deferred = [t \in Threads |-> 0]
-----------------------------------------------------------------------------
(* start and watchdog.Monitor *)

AssignContext ==
    /\ lifecycle = "begin" /\ lifecycle' = "assign"
    /\ serving' = TRUE
    /\ ctx' = ctx + 1 /\ next' = 1
    /\ UNCHANGED <<cancelled, signalled, semaphore, tokens, pc, tick, locals>>

AssignSemaphore ==
    /\ lifecycle = "assign" /\ lifecycle' = "start"
    /\ semaphore' = ctx
    /\ UNCHANGED <<next, cancelled, serving, signalled, ctx, tokens, pc, tick, locals>>

StartMonitor ==
    /\ lifecycle = "start" /\ next <= Monitors[ctx]
    /\ next' = next + 1
    /\ IF next \in Heartbeats
       THEN Goto(<<ctx, next>>, "select") /\ tick' = [tick EXCEPT ![<<ctx, next>>] = "empty"]
       ELSE Goto(<<ctx, next>>, "execute") /\ UNCHANGED tick
    /\ UNCHANGED <<lifecycle, cancelled, serving, signalled, globals, tokens, locals>>

EndMonitor ==
    /\ lifecycle = "start" /\ next > Monitors[ctx]
    /\ lifecycle' = "listen"
    /\ UNCHANGED <<next, cancelled, serving, signalled, globals, tokens, pc, tick, locals>>

(* listenToConfigurationFileChanges *)

\* The process ends, and every goroutine with it.
ProcessEnds ==
    /\ serving' = FALSE
    /\ held' = [g \in Generations |-> 0] /\ waiting' = [g \in Generations |-> <<>>]
    /\ pc' = [t \in Threads |-> "ended"] /\ tick' = [t \in Threads |-> "none"]
    /\ acquired' = [t \in Threads |-> 0] /\ context' = [t \in Threads |-> 0]
    /\ deferred' = [t \in Threads |-> 0]
    /\ UNCHANGED <<next, cancelled, signalled, globals>>

\* watchdog.Shutdown cancels the context, controller.Shutdown stops the API.
StopMonitoring == cancelled' = cancelled \cup {ctx} /\ serving' = FALSE

\* The file was modified: stop, and wait a second.
Stop ==
    /\ lifecycle = "listen" /\ "modified" \in Events /\ ctx < MaxGenerations
    /\ lifecycle' = "stopped" /\ StopMonitoring
    /\ UNCHANGED <<next, signalled, globals, tokens, pc, tick, locals>>

\* The store is closed and opened again, and everything is started with the new configuration.
Reload ==
    /\ lifecycle = "stopped" /\ lifecycle' = "begin"
    /\ UNCHANGED <<next, cancelled, serving, signalled, globals, tokens, pc, tick, locals>>

InvalidConfiguration ==
    /\ lifecycle = "stopped" /\ "invalid" \in Events
    /\ \/ /\ SkipInvalidConfigUpdate /\ lifecycle' = "listen"
          /\ UNCHANGED <<next, cancelled, serving, signalled, globals, tokens, pc, tick, locals>>
       \/ ~SkipInvalidConfigUpdate /\ lifecycle' = "panicked" /\ ProcessEnds

(* The signal handler, installed when the first start has returned. *)

Signal ==
    /\ Alive /\ "signal" \in Events /\ ~signalled
    /\ ctx > 1 \/ lifecycle \in {"listen", "stopped"}
    /\ signalled' = TRUE /\ StopMonitoring
    /\ UNCHANGED <<lifecycle, next, globals, tokens, pc, tick, locals>>

Exit == Alive /\ signalled /\ lifecycle' = "exited" /\ ProcessEnds
-----------------------------------------------------------------------------
(* The semaphore: first come, first served; every goroutine asks for a weight of 1. *)

\* One unit of s comes free while t goes to step: the first waiter takes it.
PutBack(s, t, step) ==
    IF waiting[s] = <<>>
    THEN Goto(t, step) /\ held' = [held EXCEPT ![s] = @ - 1] /\ UNCHANGED waiting
    ELSE /\ pc' = [pc EXCEPT ![t] = step, ![Head(waiting[s])] = "granted"]
         /\ waiting' = [waiting EXCEPT ![s] = Tail(@)]
         /\ UNCHANGED held

Free(s) == held[s] < Weight /\ waiting[s] = <<>>

(* executeEndpoint, executeSuite and executeExternalEndpointHeartbeat *)

\* The goroutine's loop continues; its ticker is created after the first execution.
BackToSelect(t) ==
    /\ tick' = [tick EXCEPT ![t] = IF @ = "none" THEN "empty" ELSE @]
    /\ acquired' = [acquired EXCEPT ![t] = 0]
    /\ context' = [context EXCEPT ![t] = 0]
    /\ deferred' = [deferred EXCEPT ![t] = 0]

ReadSemaphore(t) ==
    /\ At(t, "execute") /\ Goto(t, "acquire")
    /\ acquired' = [acquired EXCEPT ![t] = semaphore]
    /\ UNCHANGED <<main, globals, tokens, tick, context, deferred>>

AcquireErrorIgnored(t) ==
    /\ At(t, "acquire") /\ ctx \in cancelled /\ Goto(t, "acquired")
    /\ UNCHANGED <<main, globals, tokens, tick, locals>>

\* Acquire with the current context: it fails, succeeds or waits.
AcquireFails(t) ==
    /\ At(t, "acquire") /\ ctx \in cancelled /\ Goto(t, "select")
    /\ BackToSelect(t)
    /\ UNCHANGED <<main, globals, tokens>>

Acquire(t) ==
    /\ At(t, "acquire") /\ ctx \notin cancelled /\ Free(acquired[t])
    /\ Goto(t, "acquired")
    /\ held' = [held EXCEPT ![acquired[t]] = @ + 1]
    /\ context' = [context EXCEPT ![t] = ctx]
    /\ UNCHANGED <<main, globals, waiting, tick, acquired, deferred>>

AcquireWaits(t) ==
    /\ At(t, "acquire") /\ ctx \notin cancelled /\ ~Free(acquired[t])
    /\ Goto(t, "queued")
    /\ waiting' = [waiting EXCEPT ![acquired[t]] = Append(@, t)]
    /\ context' = [context EXCEPT ![t] = ctx]
    /\ UNCHANGED <<main, globals, held, tick, acquired, deferred>>

\* The context ends while the goroutine waits.
LeaveQueue(t) ==
    /\ At(t, "queued") /\ Cancelled(t) /\ Goto(t, "select")
    /\ \E k \in DOMAIN waiting[acquired[t]] :
        /\ waiting[acquired[t]][k] = t
        /\ waiting' = [waiting EXCEPT ![acquired[t]] = RemoveAt(@, k)]
    /\ BackToSelect(t)
    /\ UNCHANGED <<main, globals, held>>

\* The context has ended too: the weight is put back, by Release or (then without its check)
\* by Acquire itself.
LeaveGrant(t) ==
    /\ At(t, "granted") /\ Cancelled(t)
    /\ PutBack(acquired[t], t, "select")
    /\ BackToSelect(t)
    /\ UNCHANGED <<main, globals>>

TakeGrant(t) ==
    /\ At(t, "granted") /\ ~Cancelled(t) /\ Goto(t, "acquired")
    /\ UNCHANGED <<main, globals, tokens, tick, locals>>

\* The deferred call's receiver is read from the package variable again.
Defer(t) ==
    /\ At(t, "acquired") /\ Goto(t, "running")
    /\ deferred' = [deferred EXCEPT ![t] = semaphore]
    /\ UNCHANGED <<main, globals, tokens, tick, acquired, context>>

FinishWithoutRelease(t) ==
    /\ At(t, "running") /\ Goto(t, "select")
    /\ BackToSelect(t)
    /\ UNCHANGED <<main, globals, tokens>>

\* The execution ends: without connectivity at once, else with its result evaluated, stored
\* and handed to alerting.
Finish(t) ==
    /\ At(t, "running") /\ held[deferred[t]] > 0
    /\ PutBack(deferred[t], t, "select")
    /\ BackToSelect(t)
    /\ UNCHANGED <<main, globals>>

\* Release panics when more is released than is held.
Panic(t) ==
    /\ \/ At(t, "running") /\ held[deferred[t]] <= 0
       \/ At(t, "granted") /\ Cancelled(t) /\ held[acquired[t]] <= 0
    /\ lifecycle' = "panicked" /\ ProcessEnds

(* The loop of a goroutine *)

TickerFires(t) ==
    /\ Alive /\ tick[t] = "empty"
    /\ tick' = [tick EXCEPT ![t] = "full"]
    /\ UNCHANGED <<main, globals, tokens, pc, locals>>

SelectTick(t) ==
    /\ At(t, "select") /\ tick[t] = "full" /\ Goto(t, "execute")
    /\ tick' = [tick EXCEPT ![t] = "empty"]
    /\ UNCHANGED <<main, globals, tokens, locals>>

SelectDoneOfCurrent(t) ==
    /\ At(t, "select") /\ ctx \in cancelled /\ Goto(t, "ended")
    /\ tick' = [tick EXCEPT ![t] = "none"]
    /\ UNCHANGED <<main, globals, tokens, locals>>

SelectDone(t) ==
    /\ At(t, "select") /\ Generation(t) \in cancelled /\ Goto(t, "ended")
    /\ tick' = [tick EXCEPT ![t] = "none"]
    /\ UNCHANGED <<main, globals, tokens, locals>>
-----------------------------------------------------------------------------
Start == AssignContext \/ AssignSemaphore \/ StartMonitor \/ EndMonitor
Listen == Stop \/ Reload \/ InvalidConfiguration
Execute(t) ==
    \/ ReadSemaphore(t) \/ AcquireFails(t) \/ Acquire(t) \/ AcquireWaits(t)
    \/ LeaveQueue(t) \/ LeaveGrant(t) \/ TakeGrant(t) \/ Defer(t)
    \/ Finish(t) \/ Panic(t)
Loop(t) == SelectTick(t) \/ SelectDone(t)

Next ==
    \/ Start \/ Listen \/ Signal \/ Exit
    \/ \E t \in Threads : Execute(t) \/ Loop(t) \/ TickerFires(t)

Spec == Init /\ [][Next]_vars

\* Goroutines run, every execution ends (clients and connectivity checks have timeouts),
\* tickers fire, and select chooses among the ready channels at random.
Fairness ==
    /\ WF_vars(Start) /\ WF_vars(Reload \/ InvalidConfiguration) /\ WF_vars(Exit)
    /\ \A t \in Threads :
        /\ WF_vars(Execute(t)) /\ WF_vars(SelectTick(t)) /\ WF_vars(TickerFires(t))
        /\ SF_vars(SelectDone(t))

FairSpec == Spec /\ Fairness
=============================================================================
