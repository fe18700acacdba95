---------------------------- MODULE StatusHistory ----------------------------
(***************************************************************************)
(* What a store promises of the history it keeps: for every key the most   *)
(* recent results, and for every endpoint the most recent events, which    *)
(* are the start of the monitoring and then the changes of the outcome.    *)
(***************************************************************************)
EXTENDS Naturals, Sequences

CONSTANTS Keys, Suites, MaxResults, MaxEvents

VARIABLES results, events

Outcome(ok) == IF ok THEN "HEALTHY" ELSE "UNHEALTHY"
LastOf(s, n) == IF Len(s) <= n THEN s ELSE SubSeq(s, Len(s) - n + 1, Len(s))

Init ==
    /\ results = [k \in Keys |-> <<>>]
    /\ events = [k \in Keys |-> <<>>]

Changes(k, ok) ==
    CASE k \in Suites -> <<>>
      [] k \notin Suites /\ results[k] = <<>> -> <<"START", Outcome(ok)>>
      [] OTHER -> IF results[k][Len(results[k])].ok = ok THEN <<>> ELSE <<Outcome(ok)>>

Observe(k, ok) ==
    /\ results' = [results EXCEPT ![k] = LastOf(Append(@, [ok |-> ok, of |-> 0]), MaxResults)]
    /\ events' = [events EXCEPT ![k] = LastOf(@ \o Changes(k, ok), MaxEvents)]

\* a configuration that no longer has a key, or a process that keeps nothing
Forget ==
    \A k \in Keys :
        \/ results'[k] = <<>> /\ events'[k] = <<>>
        \/ results'[k] = results[k] /\ events'[k] = events[k]

Next == (\E k \in Keys, ok \in BOOLEAN : Observe(k, ok)) \/ Forget

Spec == Init /\ [][Next]_<<results, events>>
=============================================================================
