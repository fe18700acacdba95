-------------------------- MODULE WatchdogProperties --------------------------
(***************************************************************************)
(* What the watchdog promises: bounded concurrency, monitors that keep     *)
(* executing, and monitors that end when their configuration is replaced.  *)
(***************************************************************************)
EXTENDS Watchdog, FiniteSetsExt

InFlight == {t \in Threads : pc[t] \in {"granted", "acquired", "running"}}

\* What is in use of all semaphores is what the goroutines in flight hold, even when one of
\* them releases another semaphore than the one it acquired (defer, executeEndpoint).
TokensConserved == MapThenSumSet(LAMBDA g : held[g], Generations) = Cardinality(InFlight)

\* Every configuration loaded adds at most its own limit of executions in flight.
ConcurrencyPerGeneration == Cardinality(InFlight) <= Weight * ctx

\* A goroutine that waits, with the context of the semaphore it waits for and before that
\* context has ended, waits for one that acquired the same semaphore and will release it: the
\* semaphore that the deferred call reads again is another one only after a reload (Acquire,
\* defer).
Releases(u, s) == acquired[u] = s /\ (pc[u] = "running" => deferred[u] = s)
NoneWaitsInVain ==
    \A t \in Threads :
        pc[t] = "queued" /\ acquired[t] = context[t] /\ ~Cancelled(t)
            => \E u \in InFlight : Releases(u, context[t])

\* While a configuration stays in use, each of its monitors executes again and again: none
\* is starved by the others, nor by those of the configuration it replaced, whatever they
\* acquire and release meanwhile (Monitor, monitorEndpoint).
MonitorsKeepExecuting ==
    \A t \in Threads :
        <>[](lifecycle = "listen" /\ ctx = Generation(t) /\ ctx \notin cancelled)
            => []<>(pc[t] = "running")

\* Once a configuration is replaced its monitors end, except one that waits for the old
\* semaphore with the new context, which it read while Monitor assigned them (Shutdown, the
\* loops' ctx.Done()).
MonitorsEnd ==
    \A t \in Threads :
        (Generation(t) \in cancelled /\ pc[t] # "unborn")
            ~> (pc[t] = "ended" \/ ~Alive \/ (pc[t] = "queued" /\ acquired[t] # context[t]))
-----------------------------------------------------------------------------
(* What a log message says. *)

\* main.go: with skip-invalid-config-update the old configuration continues being used.
OldConfigurationContinues == lifecycle = "listen" /\ ~signalled => serving /\ ctx \notin cancelled
=============================================================================
