--------------------------- MODULE SuiteProperties ---------------------------
(***************************************************************************)
(* What an execution of a suite reports, and to whom.                      *)
(***************************************************************************)
EXTENDS Suite

Reported(e) == \E k \in DOMAIN stored.results : stored.results[k].endpoint = e
Failed(e) == \E k \in DOMAIN stored.results :
                stored.results[k].endpoint = e /\ ~stored.results[k].success

MayRun(e) == e \in AlwaysRun \/ \A d \in 1 .. e - 1 : ~Failed(d)

\* A stored result that says the suite succeeded has a successful result of every endpoint: no
\* endpoint was skipped, and no failure is hidden by a later success (CalculateSuccess).
SuccessIsComplete ==
    stored # NoResult /\ stored.success => \A e \in Endpoints : Reported(e) /\ ~Failed(e)

\* A stored result has, in the suite's order, only endpoints that always run or that come
\* before or at the first failure; and all of those, unless an error of the suite, its
\* timeout, tells why some are missing (Execute).
ReportedAsExecuted ==
    stored # NoResult =>
        /\ \A e \in Endpoints : Reported(e) => MayRun(e)
        /\ ~stored.errors => \A e \in Endpoints : MayRun(e) => Reported(e)
        /\ \A k, l \in DOMAIN stored.results :
            k < l => stored.results[k].endpoint < stored.results[l].endpoint

\* The alerts of an endpoint count the endpoint's own failures if nothing before it can be
\* skipped and it cannot be skipped itself: its position among the results is then its position
\* in the suite.
AlignedEndpointsCountOwnFailures ==
    \A e \in Endpoints : 2 .. e \subseteq AlwaysRun => failures[e] = ownRun[e]

\* Once the timeout has passed no endpoint is executed any more, at least none that does not
\* always run: "Maximum duration for the entire suite execution" (gatus/README.md:389).
TimeoutEndsExecution ==
    [][pc = "loop" /\ pc' = "evaluate" /\ i \notin AlwaysRun => timer = "running"]_vars
=============================================================================
