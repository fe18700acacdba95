--------------------------- MODULE ExecutionProofs ---------------------------
(***************************************************************************)
(* For every interval, calendar, set of windows and number of goroutines:  *)
(* executions decide on a recent check, and alerting follows the windows.  *)
(* For every endpoint: a success that a condition on the answer takes part *)
(* in is the success of a target that answered.                            *)
(*                                                                         *)
(* The last part is about the SSH tunnel an execution may dial through,    *)
(* for every set of endpoints that share it: its client is only replaced   *)
(* by who holds the lock and has closed it, so that no connection leaks;   *)
(* and an attempt fails only after a disturbance of its own.               *)
(***************************************************************************)
EXTENDS ExecutionProperties, TunnelProperties, TLAPS

Steps == {"waiting", "connectivity", "check", "assign", "assigning", "connected", "call",
          "stored", "alerting"}

Typed ==
    /\ now \in Nat /\ lastCheck \in Int /\ foundAt \in Int
    /\ pc \in [Threads -> Steps]
    /\ since \in [Threads -> Nat]
    /\ \A t \in Threads : endpoint[t] \in Choices[t]

\* A goroutine that checks began at most a timeout ago.
ChecksAreRecent ==
    \A t \in Threads :
        pc[t] \in {"check", "assign", "assigning"} =>
            since[t] <= now /\ now <= since[t] + CheckTimeout

\* What is read next is not stale: time does not pass before it is read.
Fresh ==
    /\ lastCheck <= now
    /\ \A t \in Threads : pc[t] \in {"assigning", "connected"} => now <= lastCheck + Interval

\* The outcome is at most a timeout older than the time of the last check, unless it
\* has still to be assigned.
Assigned ==
    \/ foundAt >= lastCheck - CheckTimeout
    \/ \E u \in Threads : pc[u] = "assigning"

IInv == Typed /\ ChecksAreRecent /\ Fresh /\ Assigned

LEMMA InitInv == Init => IInv
BY ExecutionAssumption
   DEF Init, IInv, Typed, ChecksAreRecent, Fresh, Assigned, Never, Steps

LEMMA NextInv == IInv /\ [Next]_vars => IInv'
<1> SUFFICES ASSUME IInv, [Next]_vars PROVE IInv'
  OBVIOUS
<1> USE ExecutionAssumption DEF At, Goto, checker
<1> USE DEF IInv, Typed, ChecksAreRecent, Fresh, Assigned, Steps
<1>1. ASSUME NEW t \in Threads, Execute(t) PROVE IInv'
  BY <1>1 DEF Execute
<1>2. ASSUME NEW t \in Threads, ReadLastCheck(t) PROVE IInv'
  BY <1>2 DEF ReadLastCheck
<1>3. ASSUME NEW t \in Threads, Check(t) PROVE IInv'
  BY <1>3 DEF Check
<1>4. ASSUME NEW t \in Threads, AssignLastCheck(t) PROVE IInv'
  BY <1>4 DEF AssignLastCheck
<1>5. ASSUME NEW t \in Threads, AssignIsConnected(t) PROVE IInv'
  BY <1>5 DEF AssignIsConnected
<1>6. ASSUME NEW t \in Threads, ReadIsConnected(t) PROVE IInv'
  BY <1>6 DEF ReadIsConnected
<1>7. ASSUME NEW t \in Threads, Evaluate(t) PROVE IInv'
  BY <1>7 DEF Evaluate
<1>8. ASSUME NEW t \in Threads, ReadWindows(t) PROVE IInv'
  BY <1>8 DEF ReadWindows
<1>9. ASSUME NEW t \in Threads, HandleAlerting(t) PROVE IInv'
  BY <1>9 DEF HandleAlerting
<1>10. ASSUME Tick PROVE IInv'
  BY <1>10 DEF Tick
<1>11. ASSUME UNCHANGED vars PROVE IInv'
  BY <1>11 DEF vars
<1> QED
  BY <1>1, <1>2, <1>3, <1>4, <1>5, <1>6, <1>7, <1>8, <1>9, <1>10, <1>11 DEF Next, Step

LEMMA Invariance == Spec => []IInv
BY InitInv, NextInv, PTL DEF Spec

DecidesOn(t) ==
    At(t, "connected") /\ pc'[t] # pc[t] =>
        \/ foundAt >= now - Interval - CheckTimeout
        \/ \E u \in Threads : At(u, "assigning")

\* Every execution, whatever the interval and the timeout of the checks and however
\* many goroutines share the checker, proceeds or is skipped because of a recent check.
THEOREM RecentChecks == Spec => DecidesOnRecentCheck
<1>1. IInv /\ [Next]_vars => [\A t \in Threads : DecidesOn(t)]_vars
  BY ExecutionAssumption DEF IInv, Typed, Fresh, Assigned, DecidesOn, At
<1> QED
  BY Invariance, <1>1, PTL DEF Spec, DecidesOnRecentCheck, DecidesOn
-----------------------------------------------------------------------------
LEMMA Division ==
    ASSUME NEW n \in Nat, NEW d \in Nat \ {0}
    PROVE  n \div d \in Nat /\ n % d \in 0 .. d - 1 /\ n = (n \div d) * d + (n % d)
<1>1. n % d \in 0 .. d - 1
  OBVIOUS
<1>2. n \div d \in Int /\ n = (n \div d) * d + (n % d)
  OBVIOUS
<1>3. n \div d >= 0
  OBVIOUS
<1> QED
  BY <1>1, <1>2, <1>3

\* What is in an earlier hour is earlier.
LEMMA HoursAreOrdered ==
    ASSUME NEW m \in Nat, NEW n \in Nat, NEW d \in Nat \ {0}, m \div d < n \div d
    PROVE  m < n
<1> DEFINE p == m \div d  q == n \div d
<1>1. p \in Nat /\ q \in Nat /\ p + 1 <= q /\ m < p * d + d /\ q * d <= n
  BY Division
<1>2. (p + 1) * d <= q * d
  <2> HIDE DEF p, q
  <2>1. PICK k \in Nat : q = (p + 1) + k
    <3>1. q - (p + 1) \in Nat
      BY <1>1
    <3> QED
      BY <1>1, <3>1
  <2>2. q * d = (p + 1) * d + k * d
    BY <1>1, <2>1
  <2>3. k * d >= 0
    BY <2>1
  <2> QED
    BY <1>1, <2>2, <2>3
<1>3. (p + 1) * d = p * d + d
  BY <1>1
<1> QED
  BY <1>1, <1>2, <1>3

LEMMA DayLengthType == DayLength \in Nat \ {0}
BY MaintenanceAssumption DEF DayLength

\* The window computed from hours is the window of the calendar, midnight included.
LEMMA WindowIsContained ==
    ASSUME NEW w \in Windows, w.validated, NEW time \in Nat, ~BeforeStartWithinHour(w, time)
    PROVE  IsUnderMaintenance(w, time) <=> Contains(w, time)
<1> DEFINE L == DayLength
           day == Day(time)
           m == time % L
           s == w.start
<1> USE DayLengthType
<1>1. /\ L \in Nat \ {0} /\ day \in Nat /\ m \in 0 .. L - 1 /\ time = day * L + m
      /\ s \in 0 .. L - 1 /\ w.duration \in 1 .. L
  BY Division DEF Windows, Day
<1>2. (day - 1) * L = day * L - L
  BY <1>1
<1>3. Hour(time) = m \div UnitsPerHour /\ DurationToStartFromMidnight(w) = s
  BY DEF Hour, DurationToStartFromMidnight
<1>4. CASE m \div UnitsPerHour < s \div UnitsPerHour
  <2>1. m < s
    BY <1>1, <1>4, HoursAreOrdered, MaintenanceAssumption
  <2>2. DayWhereMaintenancePeriodWouldStart(w, time) = day - 1
    BY <1>3, <1>4 DEF DayWhereMaintenancePeriodWouldStart
  <2> HIDE DEF L, day, m, s
  <2>3. ~(day * L + s < time)
    BY <1>1, <2>1
  <2> QED
    BY <1>3, <2>2, <2>3 DEF IsUnderMaintenance, Contains, L, day, s
<1>5. CASE ~(m \div UnitsPerHour < s \div UnitsPerHour)
  <2>1. s <= m
    <3>1. CASE m \div UnitsPerHour = s \div UnitsPerHour
      BY <1>1, <1>3, <3>1 DEF BeforeStartWithinHour
    <3>2. CASE s \div UnitsPerHour < m \div UnitsPerHour
      BY <1>1, <3>2, HoursAreOrdered, MaintenanceAssumption
    <3>3. m \div UnitsPerHour \in Nat /\ s \div UnitsPerHour \in Nat
      <4>1. m \in Nat /\ s \in Nat /\ UnitsPerHour \in Nat \ {0}
        BY <1>1, MaintenanceAssumption
      <4> HIDE DEF m, s
      <4> QED
        BY <4>1, Division
    <3> QED
      BY <1>5, <3>1, <3>2, <3>3
  <2>2. DayWhereMaintenancePeriodWouldStart(w, time) = day
    BY <1>3, <1>5 DEF DayWhereMaintenancePeriodWouldStart
  <2> HIDE DEF L, day, m, s
  <2>3. ~(time < (day - 1) * L + s + w.duration)
    BY <1>1, <1>2, <2>1
  <2> QED
    BY <1>3, <2>2, <2>3 DEF IsUnderMaintenance, Contains, L, day, s
<1> QED
  BY <1>4, <1>5

AlertsOutside(t) ==
    LET all == endpoint[t].windows \cup {Global}
    IN  /\ At(t, "stored") /\ pc'[t] # pc[t]
        /\ \A w \in all : w.validated /\ ~BeforeStartWithinHour(w, now)
        => (pc'[t] = "alerting" <=> \A w \in all : ~Contains(w, now))

\* Alerting follows the windows of every calendar, for every set of windows: nothing of
\* the example weeks that are model checked matters.
THEOREM AlertingFollowsWindows == Spec => AlertsOutsideWindows
<1>1. ASSUME IInv, [Next]_vars, NEW t \in Threads PROVE AlertsOutside(t)
  <2> SUFFICES ASSUME At(t, "stored"), pc'[t] # pc[t],
                      \A w \in endpoint[t].windows \cup {Global} :
                          w.validated /\ ~BeforeStartWithinHour(w, now)
               PROVE  pc'[t] = "alerting" <=>
                          \A w \in endpoint[t].windows \cup {Global} : ~Contains(w, now)
    BY DEF AlertsOutside
  <2>1. ReadWindows(t)
    <3>1. PICK u \in Threads : Step(u)
      BY <1>1 DEF Next, Tick, vars
    <3>2. u = t
      <4>1. pc' = [pc EXCEPT ![u] = pc'[u]]
        BY <1>1, <3>1 DEF IInv, Typed, Step, Goto, Execute, ReadLastCheck, Check, AssignLastCheck,
                          AssignIsConnected, ReadIsConnected, Evaluate, ReadWindows,
                          HandleAlerting
      <4> QED
        BY <1>1, <4>1 DEF IInv, Typed
    <3> QED
      BY <3>1, <3>2 DEF Step, At, Execute, ReadLastCheck, Check, AssignLastCheck,
                        AssignIsConnected, ReadIsConnected, Evaluate, HandleAlerting
  <2>2. pc'[t] = "alerting" <=> ~InWindow(t)
    BY <1>1, <2>1 DEF ReadWindows, Goto, IInv, Typed
  <2>3. endpoint[t].windows \cup {Global} \subseteq Windows /\ now \in Nat
    BY <1>1, ExecutionAssumption DEF IInv, Typed
  <2>4. \A w \in endpoint[t].windows \cup {Global} :
            IsUnderMaintenance(w, now) <=> Contains(w, now)
    BY <2>3, WindowIsContained
  <2> QED
    BY <2>2, <2>4 DEF InWindow
<1>2. IInv /\ [Next]_vars => [\A t \in Threads : AlertsOutside(t)]_vars
  BY <1>1
<1> QED
  BY Invariance, <1>2, PTL DEF Spec, AlertsOutsideWindows, AlertsOutside
-----------------------------------------------------------------------------
(* What a target that does not answer can make of a result. *)

Results ==
    [success : BOOLEAN, errors : BOOLEAN, connected : {True, False}, status : Nat,
     rcode : {Empty, NoError, NxDomain}, body : Bodies, duration : Nat, certificate : Nat,
     ip : {Empty, Garbage}, domain : Nat]

\* What only an answer assigns has not been assigned.
Unassigned(e, r) ==
    /\ r \in Results
    /\ r.connected = False /\ r.rcode = Empty /\ r.body = Empty /\ r.certificate = 0
    /\ e.type # "SSH" => r.status = 0

\* Looking up assigns nothing of the answer.
LEMMA LookUpsAssignNothing ==
    ASSUME NEW e, NEW r \in LookUps(e, NewResult)
    PROVE  Unassigned(e, r)
<1>1. Unassigned(e, NewResult)
  BY DEF Unassigned, NewResult, Results, Bodies
<1> DEFINE ips == IF Asks(e, {"IP"}) THEN {[NewResult EXCEPT !.ip = Garbage], Error(NewResult)}
                  ELSE {NewResult}
<1>2. \A x \in ips : Unassigned(e, x)
  BY <1>1 DEF Unassigned, Results, Error
<1>3. ASSUME NEW x \in ips PROVE Unassigned(e, [x EXCEPT !.domain = 2]) /\ Unassigned(e, Error(x))
  BY <1>2 DEF Unassigned, Results, Error
<1>4. LookUps(e, NewResult) = IF Asks(e, {"DOMAIN_EXPIRATION"})
                              THEN {[x EXCEPT !.domain = 2] : x \in ips} \cup {Error(x) : x \in ips}
                              ELSE ips
  BY DEF LookUps
<1> HIDE DEF ips
<1> QED
  BY <1>2, <1>3, <1>4

LEMMA ErrorAssignsNothing ==
    ASSUME NEW e, NEW r, Unassigned(e, r)
    PROVE  Unassigned(e, Error(r))
BY DEF Unassigned, Results, Error

\* A call that is not answered assigns nothing of the answer either, for every protocol.
LEMMA UnansweredAssignsNothing ==
    ASSUME NEW e, e.type \in Types, ~(e.type = "UDP" /\ ~e.body),
           NEW r, Unassigned(e, r), NEW x \in Call(e, r).unanswered
    PROVE  Unassigned(e, x)
<1> USE DEF Unassigned, Results
<1>1. CASE e.type \in {"TCP", "UDP", "SCTP"}
  <2>1. Call(e, r).unanswered \subseteq {[r EXCEPT !.duration = 1]}
    BY <1>1 DEF Call, CanCreateNetworkConnection
  <2> QED
    BY <2>1
<1>2. CASE e.type = "ICMP"
  BY <1>2 DEF Call, Ping
<1>3. CASE e.type = "SSH"
  <2>1. Call(e, r).unanswered \subseteq {Error(r), Error([r EXCEPT !.status = 1])}
    BY <1>3 DEF Call, ExecuteSSHCommand, CanCreateSSHConnectionFails, CheckSSHBanner
  <2>2. Unassigned(e, [r EXCEPT !.status = 1])
    BY <1>3
  <2> QED
    BY <2>1, <2>2, ErrorAssignsNothing
<1>4. CASE e.type \in {"TLS", "STARTTLS", "DNS", "WS", "GRPC"}
  <2>1. CASE e.type \in {"TLS", "STARTTLS"}
    <3>1. Call(e, r).unanswered = {Error(r)}
      BY <2>1 DEF Call, CanPerformTLS
    <3> QED
      BY <3>1, ErrorAssignsNothing
  <2>2. CASE e.type = "DNS"
    BY <2>2, ErrorAssignsNothing DEF Call, QueryDNS
  <2>3. CASE e.type = "WS"
    BY <2>3, ErrorAssignsNothing DEF Call, QueryWebSocket
  <2>4. CASE e.type = "GRPC"
    BY <2>4, ErrorAssignsNothing DEF Call, PerformGRPCHealthCheck
  <2> QED
    BY <1>4, <2>1, <2>2, <2>3, <2>4
<1>5. CASE e.type = "HTTP"
  <2>1. Call(e, r).unanswered = {Error([r EXCEPT !.duration = 2])}
    BY <1>5 DEF Call, Do
  <2>2. Unassigned(e, [r EXCEPT !.duration = 2])
    OBVIOUS
  <2> QED
    BY <2>1, <2>2, ErrorAssignsNothing
<1> QED
  BY <1>1, <1>2, <1>3, <1>4, <1>5 DEF Types

\* A condition that needs an answer does not hold of a result without one.
LEMMA NeedsAnswerFails ==
    ASSUME NEW e, NEW c, NeedsAnswer(e, c), NEW r, Unassigned(e, r)
    PROVE  ~Holds(c, r)
<1>1. Value(c.placeholder, r) = Value(c.placeholder, NewResult)
  BY DEF NeedsAnswer, Unassigned, NewResult, Value
<1>2. ResolvePlaceholder(c, r) = ResolvePlaceholder(c, NewResult)
  BY <1>1 DEF ResolvePlaceholder
<1> QED
  BY <1>2 DEF NeedsAnswer, Holds

\* So an evaluation without an answer fails.
LEMMA UnansweredFails ==
    ASSUME NEW e, e.type \in Types, ~(e.type = "UDP" /\ ~e.body),
           NEW c \in e.conditions, NeedsAnswer(e, c),
           NEW r \in EvaluateHealth(e).unanswered
    PROVE  ~r.success
<1> DEFINE looked == LookUps(e, NewResult)
           failed == {[x EXCEPT !.success = FALSE] : x \in {y \in looked : y.errors}}
           calls == {Call(e, x) : x \in {y \in looked : ~y.errors}}
<1>1. PICK x \in failed \cup UNION {call.unanswered : call \in calls} : r = Conditions(e, x)
  BY DEF EvaluateHealth
<1>2. Unassigned(e, x)
  <2>1. CASE x \in failed
    <3>1. PICK y \in looked : x = [y EXCEPT !.success = FALSE]
      BY <2>1
    <3>2. Unassigned(e, y)
      BY LookUpsAssignNothing
    <3> QED
      BY <3>1, <3>2 DEF Unassigned, Results
  <2>2. CASE x \in UNION {call.unanswered : call \in calls}
    <3>1. PICK y \in looked : x \in Call(e, y).unanswered
      BY <2>2
    <3> QED
      BY <3>1, LookUpsAssignNothing, UnansweredAssignsNothing
  <2> QED
    BY <1>1, <2>1, <2>2
<1>3. ~Holds(c, x)
  BY <1>2, NeedsAnswerFails
<1> QED
  BY <1>1, <1>2, <1>3 DEF Conditions, Unassigned, Results
-----------------------------------------------------------------------------
\* What is stored comes from an evaluation.
AnswerInv ==
    /\ endpoint = [t \in Threads |-> endpoint[t]]
    /\ pc = [t \in Threads |-> pc[t]]
    /\ outcome = [t \in Threads |-> outcome[t]]
    /\ \A t \in Threads : endpoint[t] \in Choices[t]
    /\ \A t \in Threads : At(t, "stored") =>
          \/ outcome[t].answered = TRUE
          \/ \E r \in EvaluateHealth(endpoint[t]).unanswered : outcome[t].success = r.success

LEMMA InitAnswerInv == Init => AnswerInv
BY DEF Init, AnswerInv, At

LEMMA NextAnswerInv == AnswerInv /\ [Next]_vars => AnswerInv'
<1> SUFFICES ASSUME AnswerInv, [Next]_vars PROVE AnswerInv'
  OBVIOUS
<1> USE DEF AnswerInv, At, Goto
<1>1. ASSUME NEW t \in Threads, Execute(t) PROVE AnswerInv'
  BY <1>1 DEF Execute
<1>2. ASSUME NEW t \in Threads, ReadLastCheck(t) PROVE AnswerInv'
  BY <1>2 DEF ReadLastCheck
<1>3. ASSUME NEW t \in Threads, Check(t) PROVE AnswerInv'
  <2>1. outcome' = [u \in Threads |-> outcome'[u]]
    BY <1>3 DEF Check
  <2>2. ASSUME NEW u \in Threads, At(u, "stored")'
        PROVE  At(u, "stored") /\ outcome'[u] = outcome[u] /\ endpoint' = endpoint
    BY <1>3, <2>2 DEF Check
  <2>3. endpoint' = endpoint /\ pc' = [u \in Threads |-> pc'[u]]
    BY <1>3 DEF Check
  <2> QED
    BY <2>1, <2>2, <2>3
<1>4. ASSUME NEW t \in Threads, AssignLastCheck(t) PROVE AnswerInv'
  BY <1>4 DEF AssignLastCheck
<1>5. ASSUME NEW t \in Threads, AssignIsConnected(t) PROVE AnswerInv'
  BY <1>5 DEF AssignIsConnected
<1>6. ASSUME NEW t \in Threads, ReadIsConnected(t) PROVE AnswerInv'
  BY <1>6 DEF ReadIsConnected
<1>7. ASSUME NEW t \in Threads, Evaluate(t) PROVE AnswerInv'
  BY <1>7 DEF Evaluate
<1>8. ASSUME NEW t \in Threads, ReadWindows(t) PROVE AnswerInv'
  BY <1>8 DEF ReadWindows
<1>9. ASSUME NEW t \in Threads, HandleAlerting(t) PROVE AnswerInv'
  BY <1>9 DEF HandleAlerting
<1>10. ASSUME Tick PROVE AnswerInv'
  BY <1>10 DEF Tick
<1>11. ASSUME UNCHANGED vars PROVE AnswerInv'
  BY <1>11 DEF vars
<1> QED
  BY <1>1, <1>2, <1>3, <1>4, <1>5, <1>6, <1>7, <1>8, <1>9, <1>10, <1>11 DEF Next, Step

\* For every endpoint with every set of conditions: what an answer is needed for does not
\* succeed without one.
THEOREM SuccessesAreAnswered == Spec => []SuccessMeansAnswered
<1>1. AnswerInv => SuccessMeansAnswered
  BY UnansweredFails, ExecutionAssumption DEF AnswerInv, SuccessMeansAnswered, At
<1> QED
  BY InitAnswerInv, NextAnswerInv, <1>1, PTL DEF Spec
-----------------------------------------------------------------------------
(* The tunnel *)

DialSteps == {"idle", "ensure", "connect", "dial", "retry", "connected", "failed"}

TypeOK ==
    /\ mu \in Dialers \cup {NoOne}
    /\ client \in Clients \cup {NoClient}
    /\ open \in SUBSET Clients
    /\ dialing \in [Dialers -> DialSteps]
    /\ local \in [Dialers -> Clients \cup {NoClient}]
    /\ attempt \in [Dialers -> 0 .. MaxRetries - 1]
    /\ disturbed \in [Dialers -> 0 .. MaxRetries]

\* between closing and connecting, the lock protects that there is no client
Protected == \A d \in Dialers : DialAt(d, "connect") => mu = d /\ client = NoClient

\* the attempts that have ended, and the one that is bound to fail, were disturbed
Counted(d) ==
    /\ DialAt(d, "dial") => disturbed[d] >= attempt[d]
    /\ DialAt(d, "dial") /\ local[d] \notin open => disturbed[d] >= attempt[d] + 1
    /\ DialAt(d, "retry") \/ DialAt(d, "connect") => disturbed[d] >= attempt[d]
    /\ DialAt(d, "ensure") => attempt[d] = 0

Disturbances == \A d \in Dialers \ Down : Counted(d)

TunnelInv == TypeOK /\ Protected /\ NoClientLeaks /\ Disturbances /\ FailsOnlyIfDisturbed
-----------------------------------------------------------------------------
\* A new client is one that nobody holds.
LEMMA UnusedIsUnused ==
    ASSUME TypeOK, NoClientLeaks
    PROVE  Unused \in Clients /\ Unused \notin open \cup {client} \cup {local[d] : d \in Dialers}
<1>1. PICK c \in Clients : c \notin {client} \cup {local[d] : d \in Dialers}
  BY ClientsSuffice DEF TypeOK
<1>2. c \notin open \cup {client} \cup {local[d] : d \in Dialers}
  BY <1>1 DEF NoClientLeaks
<1> QED
  BY <1>2 DEF Unused

LEMMA TunnelInitInv == TunnelInit => TunnelInv
BY TunnelAssumption
   DEF TunnelInit, TunnelInv, TypeOK, DialSteps, Protected, NoClientLeaks, Disturbances, Counted,
       FailsOnlyIfDisturbed, DialAt

\* What closing a client leaves: the invariant, but for who dials through it, whose
\* disturbance is counted.
LEMMA ClosedKeeps ==
    ASSUME TunnelInv, Closed(client), UNCHANGED <<local, attempt>>
    PROVE  /\ open' = {}
           /\ disturbed' \in [Dialers -> 0 .. MaxRetries]
           /\ \A d \in Dialers : disturbed'[d] >= disturbed[d]
           /\ \A d \in Dialers \ Down : dialing'[d] = dialing[d] => Counted(d)'
<1> USE TunnelAssumption
<1>1. open' = {}
  BY DEF Closed, TunnelInv, NoClientLeaks
<1>2. ASSUME NEW d \in Dialers
      PROVE  disturbed'[d] = IF client \in open /\ local[d] = client /\ DialAt(d, "dial")
                             THEN Once(disturbed[d]) ELSE disturbed[d]
  BY DEF Closed
<1>3. ASSUME NEW d \in Dialers
      PROVE  disturbed'[d] \in 0 .. MaxRetries /\ disturbed'[d] >= disturbed[d]
  BY <1>2 DEF TunnelInv, TypeOK, Once
<1>4. disturbed' \in [Dialers -> 0 .. MaxRetries]
  BY <1>3 DEF Closed
<1>5. ASSUME NEW d \in Dialers \ Down, dialing'[d] = dialing[d]
      PROVE  Counted(d)'
  <2>1. attempt[d] \in 0 .. MaxRetries - 1 /\ disturbed[d] \in 0 .. MaxRetries /\ Counted(d)
    BY DEF TunnelInv, TypeOK, Disturbances
  <2>2. ASSUME DialAt(d, "dial") PROVE disturbed'[d] >= attempt[d] + 1
    <3>1. CASE local[d] \in open
      BY <1>2, <2>1, <2>2, <3>1 DEF TunnelInv, NoClientLeaks, Once, Counted
    <3>2. CASE local[d] \notin open
      BY <1>3, <2>1, <2>2, <3>2 DEF Counted, TunnelInv, TypeOK
    <3> QED
      BY <3>1, <3>2
  <2> QED
    BY <1>3, <1>5, <2>1, <2>2 DEF Counted, DialAt, TunnelInv, TypeOK
<1> QED
  BY <1>1, <1>3, <1>4, <1>5

LEMMA TunnelNextInv == TunnelInv /\ [TunnelNext]_tunnelVars => TunnelInv'
<1> SUFFICES ASSUME TunnelInv, [TunnelNext]_tunnelVars PROVE TunnelInv'
  OBVIOUS
<1> USE TunnelAssumption
<1>1. ASSUME NEW d \in Dialers, Dial(d) PROVE TunnelInv'
  BY <1>1 DEF Dial, Take, DialGoto, DialAt, TunnelInv, TypeOK, DialSteps, Protected, NoClientLeaks, Disturbances,
              Counted, FailsOnlyIfDisturbed
<1>2. ASSUME NEW d \in Dialers, Ensure(d) PROVE TunnelInv'
  BY <1>2 DEF Ensure, Take, DialGoto, DialAt, TunnelInv, TypeOK, DialSteps, Protected, NoClientLeaks, Disturbances,
              Counted, FailsOnlyIfDisturbed
<1>3. ASSUME NEW d \in Dialers, Connect(d) PROVE TunnelInv'
  <2>1. Unused \in Clients /\ Unused \notin open \cup {client} \cup {local[e] : e \in Dialers}
    BY UnusedIsUnused DEF TunnelInv
  <2> QED
    BY <1>3, <2>1 DEF Connect, DialGoto, DialAt, TunnelInv, TypeOK, DialSteps, Protected, NoClientLeaks,
                      Disturbances, Counted, FailsOnlyIfDisturbed
<1>4. ASSUME NEW d \in Dialers, ConnectFails(d) PROVE TunnelInv'
  BY <1>4 DEF ConnectFails, Failed, Once, DialGoto, DialAt, TunnelInv, TypeOK, DialSteps, Protected, NoClientLeaks,
              Disturbances, Counted, FailsOnlyIfDisturbed
<1>5. ASSUME NEW d \in Dialers, DialTarget(d) PROVE TunnelInv'
  BY <1>5 DEF DialTarget, Failed, DialGoto, DialAt, TunnelInv, TypeOK, DialSteps, Protected, NoClientLeaks,
              Disturbances, Counted, FailsOnlyIfDisturbed
<1>6. ASSUME NEW d \in Dialers, Retry(d) PROVE TunnelInv'
  <2>1. /\ open' = {} /\ client' = NoClient /\ mu' = d /\ dialing[d] = "retry"
        /\ dialing' = [dialing EXCEPT ![d] = "connect"] /\ UNCHANGED <<local, attempt>>
    BY <1>6 DEF Retry, Closed, DialGoto, DialAt, TunnelInv, NoClientLeaks
  <2>2. /\ disturbed' \in [Dialers -> 0 .. MaxRetries]
        /\ \A e \in Dialers : disturbed'[e] >= disturbed[e]
        /\ \A e \in Dialers \ Down : dialing'[e] = dialing[e] => Counted(e)'
    BY <1>6, <2>1, ClosedKeeps DEF Retry
  <2>3. TypeOK' /\ Protected' /\ NoClientLeaks'
    BY <1>6, <2>1, <2>2 DEF Retry, DialAt, TunnelInv, TypeOK, DialSteps, Protected, NoClientLeaks
  <2>7. ASSUME NEW e \in Dialers
         PROVE  /\ disturbed[e] \in Nat /\ disturbed'[e] \in Nat /\ attempt[e] \in Nat
                /\ disturbed'[e] >= disturbed[e] /\ attempt'[e] = attempt[e]
    <3>1. disturbed[e] \in 0 .. MaxRetries /\ attempt[e] \in 0 .. MaxRetries - 1
      BY DEF TunnelInv, TypeOK
    <3>2. disturbed'[e] \in 0 .. MaxRetries
      BY <2>2
    <3>3. attempt'[e] = attempt[e]
      BY <2>1
    <3> QED
      BY <2>2, <3>1, <3>2, <3>3
  <2>4. ASSUME NEW e \in Dialers \ Down PROVE Counted(e)'
    <3>1. CASE e = d
      <4>1. dialing'[e] = "connect" /\ disturbed[e] >= attempt[e]
        BY <2>1, <3>1 DEF Counted, DialAt, TunnelInv, TypeOK, Disturbances
      <4> QED
        BY <2>7, <4>1 DEF Counted, DialAt
    <3>2. CASE e # d
      BY <2>1, <2>2, <3>2 DEF TunnelInv, TypeOK
    <3> QED
      BY <3>1, <3>2
  <2>5. FailsOnlyIfDisturbed'
    <3> SUFFICES ASSUME NEW e \in Dialers \ Down, dialing'[e] = "failed"
                 PROVE  disturbed'[e] >= IF attempt'[e] = 0 THEN 1 ELSE MaxRetries
      BY DEF FailsOnlyIfDisturbed, DialAt
    <3>1. dialing[e] = "failed"
      BY <2>1 DEF TunnelInv, TypeOK
    <3>2. disturbed[e] >= IF attempt[e] = 0 THEN 1 ELSE MaxRetries
      BY <3>1 DEF TunnelInv, FailsOnlyIfDisturbed, DialAt
    <3> QED
      BY <2>7, <3>2
  <2> QED
    BY <2>3, <2>4, <2>5 DEF TunnelInv, Disturbances
<1>7. ASSUME NEW d \in Dialers, Return(d) PROVE TunnelInv'
  BY <1>7 DEF Return, DialGoto, DialAt, TunnelInv, TypeOK, DialSteps, Protected, NoClientLeaks, Disturbances,
              Counted, FailsOnlyIfDisturbed
<1>8. ASSUME Lose PROVE TunnelInv'
  BY <1>8, ClosedKeeps DEF Lose, DialAt, TunnelInv, TypeOK, Protected, NoClientLeaks, Disturbances,
                           FailsOnlyIfDisturbed
<1>9. ASSUME Close PROVE TunnelInv'
  BY <1>9, ClosedKeeps DEF Close, DialAt, TunnelInv, TypeOK, Protected, NoClientLeaks, Disturbances,
                           FailsOnlyIfDisturbed
<1>10. ASSUME UNCHANGED tunnelVars PROVE TunnelInv'
  BY <1>10 DEF tunnelVars, DialAt, TunnelInv, TypeOK, Protected, NoClientLeaks, Disturbances, Counted,
               FailsOnlyIfDisturbed
<1> QED
  BY <1>1, <1>2, <1>3, <1>4, <1>5, <1>6, <1>7, <1>8, <1>9, <1>10 DEF TunnelNext, DialStep
-----------------------------------------------------------------------------
LEMMA TunnelInvariance == TunnelSpec => []TunnelInv
BY TunnelInitInv, TunnelNextInv, PTL DEF TunnelSpec

\* No connection leaks, with any number of endpoints behind the tunnel: of the SSH
\* connections at most the one in t.client is open.
THEOREM NoLeak == TunnelSpec => []NoClientLeaks
<1>1. TunnelInv => NoClientLeaks
  BY DEF TunnelInv
<1> QED
  BY TunnelInvariance, <1>1, PTL

\* A target that answers is reported as failed only if every attempt to reach it was
\* disturbed, with any number of attempts.
THEOREM FailuresAreDisturbed == TunnelSpec => []FailsOnlyIfDisturbed
<1>1. TunnelInv => FailsOnlyIfDisturbed
  BY DEF TunnelInv
<1> QED
  BY TunnelInvariance, <1>1, PTL
=============================================================================
