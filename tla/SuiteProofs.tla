----------------------------- MODULE SuiteProofs -----------------------------
(***************************************************************************)
(* For every suite: the states are well typed, a stored result that says   *)
(* the suite succeeded has a successful result of every endpoint, every    *)
(* stored result has the endpoints that were to be executed, in order, and *)
(* the alerts of an endpoint that is never displaced count its failures.   *)
(***************************************************************************)
EXTENDS SuiteProperties, TLAPS

\* Within an execution a result is appended for at most each endpoint that was passed.
LoopInv ==
    /\ pc \in {"loop", "evaluate"} => Len(results) <= i - 1
    /\ pc = "evaluate" => i \in Endpoints

TInv == TypeOK /\ LoopInv

LEMMA NoResults == <<>> \in Seq(EndpointResult) /\ Len(<<>>) = 0
OBVIOUS

LEMMA TypeInit == Init => TInv
<1> SUFFICES ASSUME Init PROVE TInv
  OBVIOUS
<1> USE SuiteAssumption DEF Init, Endpoints
<1>1. results \in Seq(EndpointResult) /\ Len(results) <= NEndpoints
  BY NoResults
<1>2. /\ failures \in [Endpoints -> 0 .. MaxRun]
      /\ ownRun \in [Endpoints -> 0 .. MaxRun]
  OBVIOUS
<1>3. i \in 1 .. NEndpoints + 1 /\ pc = "idle"
  OBVIOUS
<1>4. /\ timer = "running" /\ suiteHasFailed = FALSE /\ errors = FALSE
      /\ stored \in SuiteResult \cup {NoResult}
  OBVIOUS
<1> HIDE DEF Init, Endpoints
<1> QED
  BY <1>1, <1>2, <1>3, <1>4 DEF TInv, TypeOK, LoopInv

LEMMA ResultType ==
    ASSUME NEW r \in EndpointResult
    PROVE  r.success \in BOOLEAN
BY DEF EndpointResult

LEMMA SuccessIsBoolean == Success \in BOOLEAN
BY DEF Success

LEMMA AfterType ==
    ASSUME NEW run \in 0 .. MaxRun, NEW success \in BOOLEAN
    PROVE  After(run, success) \in 0 .. MaxRun
BY SuiteAssumption DEF After

\* Every step keeps the states well typed.
LEMMA TypeStep == TInv /\ [Next]_vars => TInv'
<1> SUFFICES ASSUME TInv, [Next]_vars PROVE TInv'
  OBVIOUS
<1> USE SuiteAssumption DEF TInv, TypeOK, LoopInv, Endpoints
<1>1. CASE Begin
  <2>1. results' \in Seq(EndpointResult) /\ Len(results') = 0 /\ i' = 1
    BY <1>1, NoResults DEF Begin
  <2> QED
    <3>1. i' \in 1 .. NEndpoints + 1 /\ Len(results') <= i' - 1 /\ Len(results') <= NEndpoints
      BY <2>1
    <3>2. /\ pc' = "loop" /\ timer' = "running" /\ suiteHasFailed' = FALSE /\ errors' = FALSE
          /\ UNCHANGED <<stored, failures, ownRun>>
      BY <1>1 DEF Begin
    <3> QED
      BY <2>1, <3>1, <3>2
<1>2. CASE TimerFires
  BY <1>2 DEF TimerFires
<1>3. CASE Skip
  BY <1>3 DEF Skip, execution
<1>4. CASE CheckTimeout
  BY <1>4 DEF CheckTimeout
<1>5. CASE Evaluate
  <2>1. PICK success \in BOOLEAN :
          /\ results' = Append(results, [endpoint |-> i, success |-> success])
          /\ suiteHasFailed' = (suiteHasFailed \/ ~success)
    BY <1>5 DEF Evaluate, ResultsWith
  <2>2. [endpoint |-> i, success |-> success] \in EndpointResult
    BY <1>5 DEF Evaluate, EndpointResult
  <2>3. results' \in Seq(EndpointResult) /\ Len(results') = Len(results) + 1
    BY <2>1, <2>2
  <2>4. suiteHasFailed' \in BOOLEAN
    BY <2>1
  <2> QED
    BY <1>5, <2>3, <2>4 DEF Evaluate
<1>6. CASE EndExecution
  BY <1>6 DEF EndExecution, execution
<1>7. CASE Store
  <2>1. stored' = stored \/ stored' = Snapshot
    BY <1>7 DEF Store
  <2>2. Snapshot \in SuiteResult
    BY SuccessIsBoolean DEF Snapshot, SuiteResult
  <2>3. stored' \in SuiteResult \cup {NoResult}
    BY <2>1, <2>2
  <2> QED
    BY <1>7, <2>3 DEF Store, execution
<1>8. CASE Alert
  <2>1. i \in Endpoints
    BY <1>8 DEF Alert
  <2>2. ResultFor(i).success \in BOOLEAN
    <3>1. results[i] \in EndpointResult
      BY <1>8, <2>1 DEF Alert
    <3> QED
      BY <3>1, ResultType DEF ResultFor
  <2>3. HasOwnResult(i) => OwnResult(i).success \in BOOLEAN
    <3>1. HasOwnResult(i) => OwnResult(i) \in EndpointResult
      BY DEF HasOwnResult, OwnResult
    <3> QED
      BY <3>1, ResultType
  <2>4. failures' \in [Endpoints -> 0 .. MaxRun]
    <3>1. After(failures[i], ResultFor(i).success) \in 0 .. MaxRun
      BY <2>1, <2>2, AfterType
    <3> QED
      BY <1>8, <3>1 DEF Alert
  <2>5. ownRun' \in [Endpoints -> 0 .. MaxRun]
    <3>1. HasOwnResult(i) => After(ownRun[i], OwnResult(i).success) \in 0 .. MaxRun
      BY <2>1, <2>3, AfterType
    <3> QED
      BY <1>8, <3>1 DEF Alert
  <2>6. i' \in 1 .. NEndpoints + 1 /\ pc' = "alert"
    <3>1. i' = i + 1 /\ pc' = "alert"
      BY <1>8 DEF Alert
    <3> QED
      BY <2>1, <3>1
  <2>7. UNCHANGED <<timer, suiteHasFailed, results, errors, stored>>
    BY <1>8 DEF Alert, execution
  <2> QED
    BY <2>4, <2>5, <2>6, <2>7
<1>9. CASE EndAlerts
  BY <1>9 DEF EndAlerts, execution
<1>10. CASE UNCHANGED vars
  BY <1>10 DEF vars, execution
<1> QED
  BY <1>1, <1>2, <1>3, <1>4, <1>5, <1>6, <1>7, <1>8, <1>9, <1>10 DEF Next, Execute

\* The states of a suite are well typed, whatever fails and however its executions end.
THEOREM TypeCorrect == Spec => []TypeOK
<1>1. TInv => TypeOK
  BY DEF TInv
<1> QED
  BY <1>1, TypeInit, TypeStep, PTL DEF Spec
-----------------------------------------------------------------------------
\* While no endpoint failed in an execution, the k-th result is the k-th endpoint's.
FailureKnown == suiteHasFailed <=> \E k \in DOMAIN results : ~results[k].success
InStep ==
    ~suiteHasFailed =>
        /\ pc \in {"loop", "evaluate"} => Len(results) = i - 1
        /\ pc = "store" => Len(results) = NEndpoints
        /\ \A k \in DOMAIN results : results[k].endpoint = k

SInv == TInv /\ FailureKnown /\ InStep /\ SuccessIsComplete

LEMMA SuccessInit == Init => SInv
<1> SUFFICES ASSUME Init PROVE SInv
  OBVIOUS
<1>1. TInv
  BY TypeInit
<1> QED
  BY <1>1 DEF Init, SInv, FailureKnown, InStep, SuccessIsComplete

\* The result stored when no failure is known and the timeout was not found is complete.
LEMMA SnapshotComplete ==
    ASSUME SInv, pc = "store", Success, NEW e \in Endpoints
    PROVE  /\ \E k \in DOMAIN results : results[k].endpoint = e
           /\ ~\E k \in DOMAIN results : results[k].endpoint = e /\ ~results[k].success
<1>1. ~suiteHasFailed
  BY DEF SInv, FailureKnown, Success
<1>2. e \in DOMAIN results
  <2>1. Len(results) = NEndpoints /\ results \in Seq(EndpointResult)
    BY <1>1 DEF SInv, InStep, TInv, TypeOK
  <2> QED
    BY <2>1 DEF Endpoints
<1>3. results[e].endpoint = e
  BY <1>1, <1>2 DEF SInv, InStep
<1> QED
  BY <1>2, <1>3 DEF Success

\* Every step that leaves the results and the stored result alone keeps what is known of them.
LEMMA SuccessKept ==
    ASSUME SInv, TInv', UNCHANGED <<results, suiteHasFailed, stored>>,
           ~suiteHasFailed /\ pc' \in {"loop", "evaluate"} => Len(results) = i' - 1,
           ~suiteHasFailed /\ pc' = "store" => Len(results) = NEndpoints
    PROVE  SInv'
BY DEF SInv, FailureKnown, InStep, SuccessIsComplete, Reported, Failed

LEMMA SuccessStep == SInv /\ [Next]_vars => SInv'
<1> SUFFICES ASSUME SInv, [Next]_vars PROVE SInv'
  OBVIOUS
<1>0. TInv'
  BY TypeStep DEF SInv
<1> USE SuiteAssumption
<1>1. CASE Begin
  <2>1. results' = <<>> /\ suiteHasFailed' = FALSE /\ stored' = stored /\ i' = 1 /\ pc' = "loop"
    BY <1>1 DEF Begin
  <2>2. FailureKnown' /\ InStep'
    BY <2>1 DEF FailureKnown, InStep
  <2>3. SuccessIsComplete'
    BY <2>1 DEF SInv, SuccessIsComplete, Reported, Failed
  <2> QED
    BY <1>0, <2>2, <2>3 DEF SInv
<1>2. CASE TimerFires
  <2>1. UNCHANGED <<results, suiteHasFailed, stored, pc, i>>
    BY <1>2 DEF TimerFires
  <2> QED
    BY <1>0, <2>1, SuccessKept DEF SInv, InStep
<1>3. CASE Skip
  <2>1. UNCHANGED <<results, suiteHasFailed, stored>> /\ suiteHasFailed
    BY <1>3 DEF Skip, execution, Skipped
  <2> QED
    BY <1>0, <2>1, SuccessKept
<1>4. CASE CheckTimeout
  <2>1. UNCHANGED <<results, suiteHasFailed, stored, i>> /\ pc = "loop" /\ pc' = "evaluate"
    BY <1>4 DEF CheckTimeout
  <2> QED
    BY <1>0, <2>1, SuccessKept DEF SInv, InStep
<1>5. CASE Evaluate
  <2>1. PICK success \in BOOLEAN :
          /\ results' = Append(results, [endpoint |-> i, success |-> success])
          /\ suiteHasFailed' = (suiteHasFailed \/ ~success)
    BY <1>5 DEF Evaluate, ResultsWith
  <2>2. /\ results \in Seq(EndpointResult) /\ i \in Endpoints
        /\ pc = "evaluate" /\ pc' = "loop" /\ i' = i + 1 /\ stored' = stored
    BY <1>5 DEF Evaluate, SInv, TInv, TypeOK, LoopInv
  <2> DEFINE n == Len(results)
  <2>3. /\ DOMAIN results' = 1 .. n + 1 /\ DOMAIN results = 1 .. n /\ n \in Nat
        /\ results'[n + 1].success = success /\ results'[n + 1].endpoint = i
        /\ \A k \in 1 .. n : results'[k] = results[k]
        /\ Len(results') = n + 1
    BY <2>1, <2>2 DEF Endpoints, EndpointResult
  <2>4. FailureKnown'
    <3>1. \A k \in 1 .. n + 1 : k \in 1 .. n \/ k = n + 1
      BY <2>3
    <3>2. (\E k \in 1 .. n + 1 : ~results'[k].success)
            <=> (~success \/ \E k \in 1 .. n : ~results[k].success)
      BY <2>3, <3>1
    <3> QED
      BY <2>1, <2>3, <3>2 DEF SInv, FailureKnown
  <2>5. InStep'
    <3> SUFFICES ASSUME ~suiteHasFailed' PROVE InStep'
      BY DEF InStep
    <3>1. n = i - 1 /\ \A k \in 1 .. n : results[k].endpoint = k
      BY <2>1, <2>2, <2>3 DEF SInv, InStep
    <3> QED
      BY <2>2, <2>3, <3>1 DEF InStep, Endpoints
  <2>6. SuccessIsComplete'
    BY <2>2 DEF SInv, SuccessIsComplete, Reported, Failed
  <2> QED
    BY <1>0, <2>4, <2>5, <2>6 DEF SInv
<1>6. CASE EndExecution
  <2>1. /\ UNCHANGED <<results, suiteHasFailed, stored, i>>
        /\ pc = "loop" /\ pc' = "store" /\ i = NEndpoints + 1
    BY <1>6 DEF EndExecution, execution
  <2> QED
    BY <1>0, <2>1, SuccessKept DEF SInv, InStep, TInv, TypeOK
<1>7. CASE Store
  <2>1. /\ UNCHANGED <<results, suiteHasFailed>> /\ pc = "store" /\ pc' = "alert"
        /\ stored' = stored \/ stored' = Snapshot
    BY <1>7 DEF Store, execution
  <2>2. FailureKnown' /\ InStep'
    BY <2>1 DEF SInv, FailureKnown, InStep
  <2>3. CASE stored' = stored
    <3>1. SuccessIsComplete'
      BY <2>3 DEF SInv, SuccessIsComplete, Reported, Failed
    <3> QED
      BY <1>0, <2>2, <3>1 DEF SInv
  <2>4. CASE stored' = Snapshot
    <3>1. stored'.success = Success /\ stored'.results = results
      BY <2>4 DEF Snapshot
    <3>2. SuccessIsComplete'
      BY <2>1, <3>1, SnapshotComplete DEF SuccessIsComplete, Reported, Failed
    <3> QED
      BY <1>0, <2>2, <3>2 DEF SInv
  <2> QED
    BY <2>1, <2>3, <2>4
<1>8. CASE Alert
  <2>1. UNCHANGED <<results, suiteHasFailed, stored, pc>> /\ pc = "alert"
    BY <1>8 DEF Alert, execution
  <2> QED
    BY <1>0, <2>1, SuccessKept
<1>9. CASE EndAlerts
  <2>1. UNCHANGED <<results, suiteHasFailed, stored>> /\ pc' = "idle"
    BY <1>9 DEF EndAlerts, execution
  <2> QED
    BY <1>0, <2>1, SuccessKept
<1>10. CASE UNCHANGED vars
  <2>1. UNCHANGED <<results, suiteHasFailed, stored, pc, i>>
    BY <1>10 DEF vars, execution
  <2> QED
    BY <1>0, <2>1, SuccessKept DEF SInv, InStep
<1> QED
  BY <1>1, <1>2, <1>3, <1>4, <1>5, <1>6, <1>7, <1>8, <1>9, <1>10 DEF Next, Execute

\* For every suite and every failure, a stored success means that every endpoint succeeded
\* (CalculateSuccess on results that skip nothing).
THEOREM SuccessIsCompleteHolds == Spec => []SuccessIsComplete
<1>1. SInv => SuccessIsComplete
  BY DEF SInv
<1> QED
  BY <1>1, SuccessInit, SuccessStep, PTL DEF Spec
-----------------------------------------------------------------------------
(* Which results an execution has, and where. *)

HasResultOf(rs, e) == \E k \in DOMAIN rs : rs[k].endpoint = e
HasFailureOf(rs, e) == \E k \in DOMAIN rs : rs[k].endpoint = e /\ ~rs[k].success

\* The results after the loop has passed the first n endpoints.
AsExecuted(rs, n) ==
    /\ \A k \in DOMAIN rs : rs[k].endpoint \in 1 .. n
    /\ \A k, l \in DOMAIN rs : k < l => rs[k].endpoint < rs[l].endpoint
    /\ \A e \in 1 .. n :
        HasResultOf(rs, e) <=> (e \in AlwaysRun \/ \A d \in 1 .. e - 1 : ~HasFailureOf(rs, d))

\* An endpoint that no execution skips, nor any before it, has its result in its own place.
InPlace(rs, n) ==
    \A e \in 1 .. n : 2 .. e \subseteq AlwaysRun => e \in DOMAIN rs /\ rs[e].endpoint = e

Passed == IF pc \in {"loop", "evaluate"} THEN i - 1 ELSE NEndpoints

ExecutionInv ==
    /\ pc # "idle" => AsExecuted(results, Passed) /\ InPlace(results, Passed)
    /\ pc = "evaluate" => ~Skipped(i)

EInv == SInv /\ ExecutionInv /\ ReportedAsExecuted /\ AlignedEndpointsCountOwnFailures

\* An empty list of results is that of an execution that has passed no endpoint.
LEMMA NothingExecuted == AsExecuted(<<>>, 0) /\ InPlace(<<>>, 0)
BY DEF AsExecuted, InPlace

\* A skipped endpoint has no result, and is one that a failure keeps from having one.
LEMMA SkipKeepsExecuted ==
    ASSUME NEW rs \in Seq(EndpointResult), NEW n \in Nat,
           AsExecuted(rs, n), InPlace(rs, n), n + 1 \notin AlwaysRun,
           \E k \in DOMAIN rs : ~rs[k].success
    PROVE  AsExecuted(rs, n + 1) /\ InPlace(rs, n + 1)
<1>1. PICK k \in DOMAIN rs : ~rs[k].success
  OBVIOUS
<1>2. rs[k].endpoint \in 1 .. n /\ HasFailureOf(rs, rs[k].endpoint)
  BY <1>1 DEF AsExecuted, HasFailureOf
<1>3. ~HasResultOf(rs, n + 1)
  BY DEF AsExecuted, HasResultOf
<1>4. AsExecuted(rs, n + 1)
  <2>1. \A e \in 1 .. n + 1 : e \in 1 .. n \/ e = n + 1
    OBVIOUS
  <2> QED
    BY <1>2, <1>3, <2>1 DEF AsExecuted
<1>5. n \in Nat \ {0} /\ n + 1 \in 2 .. n + 1
  BY <1>2
<1> QED
  BY <1>4, <1>5 DEF InPlace

\* The result of an endpoint that was not skipped goes at the end.
LEMMA EvaluateKeepsExecuted ==
    ASSUME NEW rs \in Seq(EndpointResult), NEW n \in Nat, n + 1 \in Endpoints, Len(rs) <= n,
           AsExecuted(rs, n), InPlace(rs, n), NEW success \in BOOLEAN,
           n + 1 \in AlwaysRun \/ \A k \in DOMAIN rs : rs[k].success,
           NEW new, new = Append(rs, [endpoint |-> n + 1, success |-> success])
    PROVE  AsExecuted(new, n + 1) /\ InPlace(new, n + 1)
<1> DEFINE m == Len(rs)
<1>1. /\ m \in Nat /\ m <= n /\ DOMAIN rs = 1 .. m /\ DOMAIN new = 1 .. m + 1
      /\ \A k \in 1 .. m : new[k] = rs[k]
      /\ new[m + 1].endpoint = n + 1 /\ new[m + 1].success = success
      /\ \A k \in 1 .. m + 1 : k \in 1 .. m \/ k = m + 1
  BY DEF EndpointResult
<1>2. \A k \in 1 .. m : rs[k].endpoint \in 1 .. n
  BY <1>1 DEF AsExecuted
<1> HIDE DEF m
<1>3. \A e \in 1 .. n : /\ HasResultOf(new, e) <=> HasResultOf(rs, e)
                        /\ HasFailureOf(new, e) <=> HasFailureOf(rs, e)
  BY <1>1, <1>2 DEF HasResultOf, HasFailureOf
<1>4. HasResultOf(new, n + 1)
  BY <1>1 DEF HasResultOf
<1>5. n + 1 \in AlwaysRun \/ \A d \in 1 .. n : ~HasFailureOf(rs, d)
  BY DEF HasFailureOf
<1>6. \A e \in 1 .. n + 1 :
        HasResultOf(new, e) <=> (e \in AlwaysRun \/ \A d \in 1 .. e - 1 : ~HasFailureOf(new, d))
  <2>1. \A e \in 1 .. n : HasResultOf(rs, e)
           <=> (e \in AlwaysRun \/ \A d \in 1 .. e - 1 : ~HasFailureOf(rs, d))
    BY DEF AsExecuted
  <2>2. ASSUME NEW e \in 1 .. n
        PROVE  HasResultOf(new, e)
                 <=> (e \in AlwaysRun \/ \A d \in 1 .. e - 1 : ~HasFailureOf(new, d))
    <3>1. \A d \in 1 .. e - 1 : d \in 1 .. n
      OBVIOUS
    <3> QED
      BY <1>3, <2>1, <3>1
  <2>3. n + 1 \in AlwaysRun \/ \A d \in 1 .. n + 1 - 1 : ~HasFailureOf(new, d)
    <3>1. 1 .. n + 1 - 1 = 1 .. n
      OBVIOUS
    <3> QED
      BY <1>3, <1>5, <3>1
  <2>4. \A e \in 1 .. n + 1 : e \in 1 .. n \/ e = n + 1
    OBVIOUS
  <2> QED
    BY <1>4, <2>2, <2>3, <2>4
<1>7. \A k \in DOMAIN new : new[k].endpoint \in 1 .. n + 1
  BY <1>1, <1>2
<1>8. \A k, l \in DOMAIN new : k < l => new[k].endpoint < new[l].endpoint
  <2> SUFFICES ASSUME NEW k \in 1 .. m + 1, NEW l \in 1 .. m + 1, k < l
               PROVE  new[k].endpoint < new[l].endpoint
    BY <1>1
  <2>1. k \in 1 .. m
    BY <1>1
  <2>2. CASE l \in 1 .. m
    BY <1>1, <2>1, <2>2 DEF AsExecuted
  <2>3. CASE l = m + 1
    BY <1>1, <1>2, <2>1, <2>3
  <2> QED
    BY <1>1, <2>2, <2>3
<1>9. InPlace(new, n + 1)
  <2> SUFFICES ASSUME NEW e \in 1 .. n + 1, 2 .. e \subseteq AlwaysRun
               PROVE  e \in DOMAIN new /\ new[e].endpoint = e
    BY DEF InPlace
  <2>1. CASE e \in 1 .. n
    <3>1. e \in 1 .. m /\ rs[e].endpoint = e
      BY <1>1, <2>1 DEF InPlace
    <3> QED
      BY <1>1, <3>1
  <2>2. CASE e = n + 1
    <3>1. n = 0 \/ n \in 1 .. m
      <4>1. n # 0 => n \in 1 .. n /\ 2 .. n \subseteq AlwaysRun
        BY <2>2
      <4> QED
        BY <1>1, <4>1 DEF InPlace
    <3>2. m = n
      BY <1>1, <3>1
    <3> QED
      BY <1>1, <2>2, <3>2
  <2> QED
    BY <2>1, <2>2
<1> QED
  BY <1>6, <1>7, <1>8, <1>9 DEF AsExecuted
-----------------------------------------------------------------------------

\* The position of an aligned endpoint is where its own result is found.
LEMMA OwnResultInPlace ==
    ASSUME results \in Seq(EndpointResult), AsExecuted(results, NEndpoints),
           InPlace(results, NEndpoints), NEW e \in Endpoints, 2 .. e \subseteq AlwaysRun
    PROVE  HasOwnResult(e) /\ OwnResult(e) = ResultFor(e)
<1>1. e \in DOMAIN results /\ results[e].endpoint = e
  BY DEF InPlace, Endpoints
<1>2. ASSUME NEW k \in DOMAIN results, results[k].endpoint = e PROVE k = e
  <2>1. k \in Int /\ e \in Int /\ \A l \in DOMAIN results : results[l].endpoint \in Int
    BY <1>1 DEF AsExecuted
  <2>2. ~(k < e) /\ ~(e < k)
    BY <1>1, <1>2, <2>1 DEF AsExecuted
  <2> QED
    BY <2>1, <2>2
<1> QED
  BY <1>1, <1>2 DEF HasOwnResult, OwnResult, ResultFor

\* A step that leaves the results alone, and what the loop has passed, keeps the rest.
LEMMA ExecutionKept ==
    ASSUME EInv, SInv', UNCHANGED <<results, stored, failures, ownRun>>,
           pc' # "idle" => pc # "idle" /\ Passed' = Passed,
           pc' = "evaluate" => ~Skipped(i)'
    PROVE  EInv'
<1>1. ExecutionInv'
  BY DEF EInv, ExecutionInv
<1>2. ReportedAsExecuted'
  BY DEF EInv, ReportedAsExecuted, MayRun, Reported, Failed
<1>3. AlignedEndpointsCountOwnFailures'
  BY DEF EInv, AlignedEndpointsCountOwnFailures
<1> QED
  BY <1>1, <1>2, <1>3 DEF EInv

LEMMA ExecutionInit == Init => EInv
<1> SUFFICES ASSUME Init PROVE EInv
  OBVIOUS
<1>1. SInv
  BY SuccessInit
<1>2. ExecutionInv /\ ReportedAsExecuted
  BY DEF Init, ExecutionInv, ReportedAsExecuted
<1>3. AlignedEndpointsCountOwnFailures
  BY DEF Init, AlignedEndpointsCountOwnFailures
<1> QED
  BY <1>1, <1>2, <1>3 DEF EInv

\* Every step of the loop appends the result of the endpoint it passes, or passes one that
\* may be skipped; what is stored is what the loop collected; and the i-th result is handed
\* to the alerts of the i-th endpoint.
LEMMA ExecutionStep == EInv /\ [Next]_vars => EInv'
<1> SUFFICES ASSUME EInv, [Next]_vars PROVE EInv'
  OBVIOUS
<1>0. SInv'
  BY SuccessStep DEF EInv
<1>t. /\ results \in Seq(EndpointResult) /\ i \in 1 .. NEndpoints + 1 /\ NEndpoints \in Nat \ {0}
      /\ suiteHasFailed \in BOOLEAN
      /\ failures \in [Endpoints -> 0 .. MaxRun] /\ ownRun \in [Endpoints -> 0 .. MaxRun]
  BY SuiteAssumption DEF EInv, SInv, TInv, TypeOK
<1>f. suiteHasFailed <=> \E k \in DOMAIN results : ~results[k].success
  BY DEF EInv, SInv, FailureKnown
<1>k. stored' = stored => ReportedAsExecuted'
  BY DEF EInv, ReportedAsExecuted, MayRun, Reported, Failed
<1>c. UNCHANGED <<failures, ownRun>> => AlignedEndpointsCountOwnFailures'
  BY DEF EInv, AlignedEndpointsCountOwnFailures
<1>1. CASE Begin
  <2>1. results' = <<>> /\ i' = 1 /\ pc' = "loop" /\ UNCHANGED <<stored, failures, ownRun>>
    BY <1>1 DEF Begin
  <2>2. ExecutionInv'
    BY <2>1, NothingExecuted DEF ExecutionInv, Passed
  <2> QED
    BY <1>0, <1>k, <1>c, <2>1, <2>2 DEF EInv
<1>2. CASE TimerFires
  BY <1>0, <1>2, ExecutionKept DEF TimerFires, EInv, ExecutionInv, Passed, Skipped
<1>3. CASE Skip
  <2>1. /\ i \in Endpoints /\ i \notin AlwaysRun /\ i' = i + 1 /\ pc = "loop"
        /\ \E k \in DOMAIN results : ~results[k].success
        /\ UNCHANGED <<pc, results, stored, failures, ownRun>>
    BY <1>f, <1>3 DEF Skip, Skipped, execution
  <2>2. AsExecuted(results, i - 1) /\ InPlace(results, i - 1)
    BY <2>1 DEF EInv, ExecutionInv, Passed
  <2>3. AsExecuted(results, i) /\ InPlace(results, i)
    <3>1. i - 1 \in Nat /\ i - 1 + 1 = i
      BY <1>t
    <3> QED
      BY <1>t, <2>1, <2>2, <3>1, SkipKeepsExecuted
  <2>4. ExecutionInv'
    <3>1. i' - 1 = i
      BY <1>t, <2>1
    <3> QED
      BY <2>1, <2>3, <3>1 DEF ExecutionInv, Passed
  <2> QED
    BY <1>0, <1>k, <1>c, <2>1, <2>4 DEF EInv
<1>4. CASE CheckTimeout
  <2>1. /\ UNCHANGED <<results, stored, failures, ownRun, i, suiteHasFailed>> /\ ~Skipped(i)
        /\ pc = "loop" /\ pc' = "evaluate"
    BY <1>4 DEF CheckTimeout
  <2> QED
    BY <1>0, <2>1, ExecutionKept DEF Passed, Skipped
<1>5. CASE Evaluate
  <2>1. PICK success \in BOOLEAN :
          results' = Append(results, [endpoint |-> i, success |-> success])
    BY <1>5 DEF Evaluate, ResultsWith
  <2>2. /\ pc = "evaluate" /\ pc' = "loop" /\ i' = i + 1
        /\ UNCHANGED <<stored, failures, ownRun>>
    BY <1>5 DEF Evaluate
  <2>3. /\ i \in Endpoints /\ Len(results) <= i - 1
        /\ AsExecuted(results, i - 1) /\ InPlace(results, i - 1) /\ ~Skipped(i)
    BY <2>2 DEF EInv, SInv, TInv, LoopInv, ExecutionInv, Passed
  <2>4. i \in AlwaysRun \/ \A k \in DOMAIN results : results[k].success
    BY <1>f, <2>3 DEF Skipped
  <2>5. AsExecuted(results', i) /\ InPlace(results', i)
    <3>1. i - 1 \in Nat /\ i - 1 + 1 = i
      BY <1>t
    <3> QED
      BY <1>t, <2>1, <2>3, <2>4, <3>1, EvaluateKeepsExecuted
  <2>6. ExecutionInv'
    <3>1. i' - 1 = i
      BY <1>t, <2>2
    <3> QED
      BY <2>2, <2>5, <3>1 DEF ExecutionInv, Passed
  <2> QED
    BY <1>0, <1>k, <1>c, <2>2, <2>6 DEF EInv
<1>6. CASE EndExecution
  <2>1. /\ UNCHANGED <<results, stored, failures, ownRun>>
        /\ pc = "loop" /\ pc' = "store" /\ i = NEndpoints + 1
    BY <1>6 DEF EndExecution, execution
  <2>2. Passed' = Passed
    BY <1>t, <2>1 DEF Passed
  <2> QED
    BY <1>0, <2>1, <2>2, ExecutionKept
<1>7. CASE Store
  <2>1. /\ UNCHANGED <<results, failures, ownRun>> /\ pc = "store" /\ pc' = "alert"
        /\ stored' = stored \/ stored' = Snapshot
    BY <1>7 DEF Store, execution
  <2>2. AsExecuted(results, NEndpoints) /\ ExecutionInv'
    BY <2>1 DEF EInv, ExecutionInv, Passed
  <2>3. ReportedAsExecuted'
    <3>1. CASE stored' = Snapshot
      <4>1. stored'.results = results
        BY <3>1 DEF Snapshot
      <4> QED
        BY <2>2, <4>1 DEF ReportedAsExecuted, MayRun, Reported, Failed, AsExecuted, HasResultOf,
                          HasFailureOf, Endpoints
    <3> QED
      BY <1>k, <2>1, <3>1
  <2> QED
    BY <1>0, <1>c, <2>1, <2>2, <2>3 DEF EInv
<1>8. CASE Alert
  <2>1. UNCHANGED <<pc, results, stored>> /\ pc = "alert" /\ i \in DOMAIN results
    BY <1>t, <1>8 DEF Alert, execution
  <2>2. AsExecuted(results, NEndpoints) /\ InPlace(results, NEndpoints) /\ ExecutionInv'
    BY <2>1 DEF EInv, ExecutionInv, Passed
  <2>3. i \in Endpoints
    BY <1>t, <2>1 DEF EInv, SInv, TInv, TypeOK, Endpoints
  <2>4. AlignedEndpointsCountOwnFailures'
    <3> SUFFICES ASSUME NEW e \in Endpoints, 2 .. e \subseteq AlwaysRun
                 PROVE  failures'[e] = ownRun'[e]
      BY DEF AlignedEndpointsCountOwnFailures
    <3>1. failures[e] = ownRun[e]
      BY DEF EInv, AlignedEndpointsCountOwnFailures
    <3>2. HasOwnResult(e) /\ OwnResult(e) = ResultFor(e)
      BY <1>t, <2>2, OwnResultInPlace
    <3>3. PICK handled \in BOOLEAN :
            /\ failures' = IF handled
                           THEN [failures EXCEPT ![i] = After(failures[i], ResultFor(i).success)]
                           ELSE failures
            /\ ownRun' = IF handled /\ HasOwnResult(i)
                         THEN [ownRun EXCEPT ![i] = After(ownRun[i], OwnResult(i).success)]
                         ELSE ownRun
      BY <1>8 DEF Alert, Outcomes
    <3>4. CASE e = i
      BY <1>t, <3>1, <3>2, <3>3, <3>4
    <3>5. CASE e # i
      BY <1>t, <2>3, <3>1, <3>3, <3>5
    <3> QED
      BY <3>4, <3>5
  <2> QED
    BY <1>0, <1>k, <2>1, <2>2, <2>4 DEF EInv
<1>9. CASE EndAlerts
  BY <1>0, <1>9, ExecutionKept DEF EndAlerts, execution
<1>10. CASE UNCHANGED vars
  BY <1>0, <1>10, ExecutionKept DEF vars, execution, EInv, ExecutionInv, Passed, Skipped
<1> QED
  BY <1>1, <1>2, <1>3, <1>4, <1>5, <1>6, <1>7, <1>8, <1>9, <1>10 DEF Next, Execute

\* For every suite and whatever fails: a stored result has, in order, no endpoint but those
\* that always run and those up to the first failure, and without an error it has them all.
THEOREM ReportedAsExecutedHolds == Spec => []ReportedAsExecuted
<1>1. EInv => ReportedAsExecuted
  BY DEF EInv
<1> QED
  BY <1>1, ExecutionInit, ExecutionStep, PTL DEF Spec

\* For every suite: the alerts of an endpoint that cannot be skipped, nor anything before it,
\* count that endpoint's own failures.
THEOREM AlignedEndpointsCountOwnFailuresHolds == Spec => []AlignedEndpointsCountOwnFailures
<1>1. EInv => AlignedEndpointsCountOwnFailures
  BY DEF EInv
<1> QED
  BY <1>1, ExecutionInit, ExecutionStep, PTL DEF Spec
=============================================================================
