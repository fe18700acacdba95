----------------------- MODULE ExternalEndpointProofs -----------------------
(***************************************************************************)
(* For any number of goroutines and any interleaving of them: the type     *)
(* invariant, and that no goroutine sends the initial notification of an   *)
(* incident twice.  Until two goroutines overlap: that counters and row    *)
(* tell the results, and that the alert implements the abstract incident.  *)
(***************************************************************************)
EXTENDS ExternalEndpointProperties, TLAPS

\* A goroutine that sent the initial notification is about to mark the alert triggered, or
\* did; one about to send it decided so when no notification of its own was out.
SendersInv ==
    \A t \in Threads :
        /\ t \in senders => triggered \/ (pc[t] = "mark" /\ initial[t])
        /\ pc[t] \in {"decide", "send"} /\ initial[t] => t \notin senders

\* The range of the counters is closed under counting.
LEMMA Counting == 0 \in Runs /\ \A n \in Runs : Bump(n) \in Runs
  BY ExternalEndpointAssumption DEF ExternalEndpointAssumption, Runs, Bump

\* Dropping the copy leaves the goroutine's variables in their ranges.
LEMMA DoneTypes ==
    ASSUME TypeOK, NEW t \in Threads, Done(t)
    PROVE  /\ pc' \in [Threads -> Steps]
           /\ success' \in [Threads -> BOOLEAN] /\ initial' \in [Threads -> BOOLEAN]
           /\ copyF' \in [Threads -> Runs] /\ copyS' \in [Threads -> Runs]
<1> USE Counting DEF TypeOK, Done, Goto
<1>1. pc' \in [Threads -> Steps]
  BY DEF Steps
<1>2. success' \in [Threads -> BOOLEAN]
  OBVIOUS
<1>3. initial' \in [Threads -> BOOLEAN]
  OBVIOUS
<1>4. copyF' \in [Threads -> Runs]
  OBVIOUS
<1>5. copyS' \in [Threads -> Runs]
  OBVIOUS
<1> QED
  BY <1>1, <1>2, <1>3, <1>4, <1>5

\* Type correctness: each step of a goroutine keeps every variable in its range.
THEOREM TypeCorrect == Spec => []TypeOK
<1> USE Counting DEF TypeOK, Steps
<1>1. Init => TypeOK
  BY DEF Init
<1>2. TypeOK /\ [Next]_vars => TypeOK'
  <2> SUFFICES ASSUME TypeOK, [Next]_vars PROVE TypeOK'
    OBVIOUS
  <2>1. CASE Elapse
    BY <2>1 DEF Elapse, shared, locals, history
  <2>2. ASSUME NEW t \in Threads, Receive(t) PROVE TypeOK'
    <3>1. CASE ReceivePush(t) \/ StartHeartbeat(t)
      BY <3>1 DEF ReceivePush, StartHeartbeat, Goto, shared, history
    <3>2. CASE CopyFailures(t) \/ CopySuccesses(t)
      <4>1. CASE CopyFailures(t)
        BY <4>1 DEF CopyFailures, Goto, shared, history
      <4>2. CASE CopySuccesses(t)
        BY <4>2 DEF CopySuccesses, Goto, shared, history
      <4> QED
        BY <3>2, <4>1, <4>2
    <3>3. CASE HeartbeatPasses(t) \/ HeartbeatUnknown(t)
      BY <3>3, DoneTypes DEF HeartbeatPasses, HeartbeatUnknown, shared, history
    <3>4. CASE HeartbeatFails(t)
      BY <3>4 DEF HeartbeatFails, Goto, shared, locals, history
    <3>5. CASE Insert(t)
      <4>1. /\ recent' \in BOOLEAN
            /\ runF' \in Runs /\ runS' \in Runs
        BY <3>5 DEF Insert, Outcomes
      <4>2. /\ pc' \in [Threads -> Steps]
            /\ success' \in [Threads -> BOOLEAN] /\ initial' \in [Threads -> BOOLEAN]
            /\ copyF' \in [Threads -> Runs] /\ copyS' \in [Threads -> Runs]
        BY <3>5, DoneTypes DEF Insert, Goto, locals
      <4> QED
        BY <3>5, <4>1, <4>2 DEF Insert
    <3> QED
      BY <2>2, <3>1, <3>2, <3>3, <3>4, <3>5 DEF Receive
  <2>3. ASSUME NEW t \in Threads, HandleAlerting(t) PROVE TypeOK'
    <3>1. CASE CountFailure(t)
      BY <3>1 DEF CountFailure, Goto, shared, history
    <3>2. CASE CountSuccess(t)
      BY <3>2 DEF CountSuccess, Goto, shared, history
    <3>3. CASE DecideToSend(t) \/ Send(t) \/ SendFails(t)
      BY <3>3 DEF DecideToSend, Send, SendFails, Goto, shared, locals, history
    <3>4. CASE Mark(t) \/ Clear(t)
      BY <3>4 DEF Mark, Clear, Goto, locals, history
    <3>5. CASE Persist(t) \/ Delete(t)
      BY <3>5 DEF Persist, Delete, Outcomes, Goto, locals, history
    <3> QED
      BY <2>3, <3>1, <3>2, <3>3, <3>4, <3>5 DEF HandleAlerting
  <2>4. ASSUME NEW t \in Threads, WriteBack(t) PROVE TypeOK'
    <3>1. CASE WriteSuccesses(t)
      BY <3>1 DEF WriteSuccesses, Goto, locals, history
    <3>2. CASE WriteFailures(t)
      BY <3>2, DoneTypes DEF WriteFailures, history
    <3> QED
      BY <2>4, <3>1, <3>2 DEF WriteBack
  <2>5. CASE UNCHANGED vars
    BY <2>5 DEF vars, shared, locals, history
  <2> QED
    BY <2>1, <2>2, <2>3, <2>4, <2>5 DEF Next
<1> QED
  BY <1>1, <1>2, PTL DEF Spec

\* However many goroutines handle results at once, each of them delivers the initial
\* notification of an incident at most once before the alert is resolved.
THEOREM InitialOncePerGoroutineHolds == Spec => InitialOncePerGoroutine
<1>1. Init => SendersInv
  BY DEF Init, SendersInv
<1>2. TypeOK /\ SendersInv /\ [Next]_vars => SendersInv'
  <2> SUFFICES ASSUME TypeOK, SendersInv, [Next]_vars PROVE SendersInv'
    OBVIOUS
  <2> USE DEF TypeOK, SendersInv, At, Goto
  <2>1. CASE Elapse
    BY <2>1 DEF Elapse, shared, locals, history
  <2>2. ASSUME NEW t \in Threads, Receive(t) PROVE SendersInv'
    <3>1. CASE ReceivePush(t) \/ StartHeartbeat(t)
      BY <3>1 DEF ReceivePush, StartHeartbeat, shared, history
    <3>2. CASE CopyFailures(t) \/ CopySuccesses(t)
      <4>1. CASE CopyFailures(t)
        BY <4>1 DEF CopyFailures, shared, history
      <4>2. CASE CopySuccesses(t)
        BY <4>2 DEF CopySuccesses, shared, history
      <4> QED
        BY <3>2, <4>1, <4>2
    <3>3. CASE HeartbeatPasses(t) \/ HeartbeatUnknown(t)
      BY <3>3 DEF HeartbeatPasses, HeartbeatUnknown, Done, shared, history
    <3>4. CASE HeartbeatFails(t)
      BY <3>4 DEF HeartbeatFails, shared, locals, history
    <3>5. CASE Insert(t)
      BY <3>5 DEF Insert, Done, locals
    <3> QED
      BY <2>2, <3>1, <3>2, <3>3, <3>4, <3>5 DEF Receive
  <2>3. ASSUME NEW t \in Threads, HandleAlerting(t) PROVE SendersInv'
    <3>1. CASE CountFailure(t)
      BY <3>1 DEF CountFailure, shared, history
    <3>2. CASE CountSuccess(t)
      BY <3>2 DEF CountSuccess, shared, history
    <3>3. CASE DecideToSend(t)
      BY <3>3 DEF DecideToSend, shared, locals, history
    <3>4. CASE Send(t)
      BY <3>4 DEF Send, shared, locals, history
    <3>5. CASE SendFails(t)
      BY <3>5 DEF SendFails, shared, locals, history
    <3>6. CASE Mark(t)
      BY <3>6 DEF Mark, locals, history
    <3>7. CASE Clear(t)
      BY <3>7 DEF Clear, locals
    <3>8. CASE Persist(t) \/ Delete(t)
      BY <3>8 DEF Persist, Delete, locals, history
    <3> QED
      BY <2>3, <3>1, <3>2, <3>3, <3>4, <3>5, <3>6, <3>7, <3>8 DEF HandleAlerting
  <2>4. ASSUME NEW t \in Threads, WriteBack(t) PROVE SendersInv'
    BY <2>4 DEF WriteBack, WriteSuccesses, WriteFailures, Done, locals, history
  <2>5. CASE UNCHANGED vars
    BY <2>5 DEF vars, shared, locals, history
  <2> QED
    BY <2>1, <2>2, <2>3, <2>4, <2>5 DEF Next
<1>3. SendersInv /\ [Next]_vars =>
        [\A t \in Threads : InitialDelivered(t) => t \notin senders]_vars
  BY DEF SendersInv, InitialDelivered, At
<1> QED
  BY <1>1, <1>2, <1>3, TypeCorrect, PTL DEF Spec, InitialOncePerGoroutine
-----------------------------------------------------------------------------
(* One result at a time. *)

Alone == \A t, u \in Busy : t = u

\* Between two results the shared counters are those of the results handled.
CountersSettled ==
    (\A t \in Threads : pc[t] \in {"idle", "copy failures", "copy successes", "check", "insert"})
        => failures = runF /\ successes = runS

\* The row is only behind the alert between a change of the one and of the other.
RowSettled ==
    ~rowLost /\ (\A t \in Threads : pc[t] \notin {"persist", "delete"}) => (row <=> triggered)

\* What the copy of a goroutine has to do with the results, at each of its steps.
CopyMatches(t) ==
    /\ pc[t] \in {"copy successes", "check", "insert"} => copyF[t] = runF
    /\ pc[t] \in {"check", "insert"} => copyS[t] = runS
    /\ pc[t] = "count" => /\ runF = IF success[t] THEN 0 ELSE Bump(copyF[t])
                          /\ runS = IF success[t] THEN Bump(copyS[t]) ELSE 0
    /\ pc[t] \in {"decide", "send", "mark", "persist", "clear", "delete",
                  "write successes", "write failures"} => copyF[t] = runF /\ copyS[t] = runS
    /\ pc[t] = "write failures" => successes = runS

\* What the goroutine decided still holds when it acts.
DecisionHolds(t) ==
    /\ pc[t] \in {"decide", "send", "mark"} =>
          runF >= FailureThreshold /\ (initial[t] <=> ~triggered)
    /\ pc[t] = "persist" => triggered
    /\ pc[t] = "clear" => triggered /\ runS >= SuccessThreshold
    /\ pc[t] = "delete" => ~triggered

Sequential ==
    ~overlapped => /\ Alone /\ CountersSettled /\ RowSettled
                   /\ \A t \in Threads : CopyMatches(t) /\ DecisionHolds(t)

\* Whoever acts while nothing overlaps acts alone: every other goroutine is idle, before
\* and after.
LEMMA OthersIdle ==
    ASSUME TypeOK, Sequential, HNext, ~overlapped',
           NEW t \in Threads, NEW step \in Steps, Goto(t, step), pc[t] # "idle" \/ step # "idle"
    PROVE  \A u \in Threads \ {t} : pc[u] = "idle" /\ pc'[u] = "idle"
<1> SUFFICES ASSUME NEW u \in Threads \ {t} PROVE pc[u] = "idle" /\ pc'[u] = "idle"
  OBVIOUS
<1>1. pc'[t] = step /\ pc'[u] = pc[u]
  BY DEF TypeOK, Goto
<1>2. CASE step # "idle"
  BY <1>1, <1>2 DEF HNext, Busy, At
<1>3. CASE pc[t] # "idle"
  BY <1>1, <1>3 DEF HNext, Sequential, Alone, Busy, At
<1> QED
  BY <1>2, <1>3

\* So only what the invariant says of that goroutine has to be shown again.
LEMMA AloneSuffices ==
    ASSUME NEW t \in Threads, \A u \in Threads \ {t} : pc'[u] = "idle",
           CountersSettled', RowSettled', CopyMatches(t)', DecisionHolds(t)'
    PROVE  Sequential'
BY DEF Sequential, Alone, Busy, At, CopyMatches, DecisionHolds

\* The invariant holds at start.
LEMMA SequentialInit == HInit => Sequential
BY DEF HInit, Init, Sequential, Alone, CountersSettled, RowSettled, CopyMatches, DecisionHolds,
       Busy, At

\* One step, of a goroutine alone: the counters it copied are those of the results, what it
\* writes back are those of the results and its own, and the row follows the alert.
LEMMA SequentialStep ==
    TypeOK /\ Sequential /\ [HNext]_<<vars, overlapped, rowLost>> => Sequential'
<1> SUFFICES ASSUME TypeOK, Sequential, HNext, ~overlapped' PROVE Sequential'
  <2>1. CASE UNCHANGED <<vars, overlapped, rowLost>>
    BY <2>1 DEF vars, shared, locals, history, Sequential, Alone, CountersSettled, RowSettled,
                CopyMatches, DecisionHolds, Busy, At
  <2> QED
    BY <2>1 DEF Sequential
<1>1. Alone /\ CountersSettled /\ RowSettled /\ Next /\ rowLost' = (rowLost \/ RowFails)
  BY DEF Sequential, HNext
<1>2. \A t \in Threads : CopyMatches(t) /\ DecisionHolds(t)
  BY DEF Sequential, HNext
<1>3. CASE Elapse
  BY <1>1, <1>2, <1>3 DEF Elapse, shared, locals, history, Sequential, Alone, CountersSettled,
     RowSettled, CopyMatches, DecisionHolds, Busy, At
<1>4. ASSUME NEW t \in Threads, Receive(t) \/ HandleAlerting(t) \/ WriteBack(t)
      PROVE  Sequential'
  <2> USE DEF TypeOK, CountersSettled, RowSettled, CopyMatches, DecisionHolds, At, Goto
  <2>1. ASSUME NEW step \in Steps, Goto(t, step), pc[t] # "idle" \/ step # "idle"
        PROVE  /\ \A u \in Threads \ {t} : pc[u] = "idle" /\ pc'[u] = "idle"
               /\ pc'[t] = step
    BY <2>1, OthersIdle
  <2>2. ASSUME \A u \in Threads \ {t} : pc'[u] = "idle",
               CountersSettled', RowSettled', CopyMatches(t)', DecisionHolds(t)'
        PROVE  Sequential'
    BY <2>2, AloneSuffices
  <2>3. CASE ReceivePush(t)
    <3>1. /\ \A u \in Threads \ {t} : pc[u] = "idle" /\ pc'[u] = "idle"
          /\ pc'[t] = "copy failures"
      BY <2>1, <2>3 DEF ReceivePush, Steps
    <3> QED
      BY <1>1, <1>2, <2>2, <2>3, <3>1 DEF ReceivePush, RowFails, shared, history
  <2>4. CASE StartHeartbeat(t)
    <3>1. /\ \A u \in Threads \ {t} : pc[u] = "idle" /\ pc'[u] = "idle"
          /\ pc'[t] = "copy failures"
      BY <2>1, <2>4 DEF StartHeartbeat, Steps
    <3> QED
      BY <1>1, <1>2, <2>2, <2>4, <3>1 DEF StartHeartbeat, RowFails, shared, history
  <2>5. CASE CopyFailures(t)
    <3>1. /\ \A u \in Threads \ {t} : pc[u] = "idle" /\ pc'[u] = "idle"
          /\ pc'[t] = "copy successes"
      BY <2>1, <2>5 DEF CopyFailures, Steps
    <3> QED
      BY <1>1, <1>2, <2>2, <2>5, <3>1 DEF CopyFailures, RowFails, shared, history
  <2>6. CASE CopySuccesses(t)
    <3> DEFINE step == IF t = Heartbeat THEN "check" ELSE "insert"
    <3>1. /\ \A u \in Threads \ {t} : pc[u] = "idle" /\ pc'[u] = "idle"
          /\ pc'[t] = step
      BY <2>1, <2>6 DEF CopySuccesses, Steps
    <3> QED
      BY <1>1, <1>2, <2>2, <2>6, <3>1 DEF CopySuccesses, RowFails, shared, history
  <2>7. CASE HeartbeatPasses(t)
    <3>1. /\ \A u \in Threads \ {t} : pc[u] = "idle" /\ pc'[u] = "idle"
          /\ pc'[t] = "idle"
      BY <2>1, <2>7 DEF HeartbeatPasses, Steps, Done
    <3> QED
      BY <1>1, <1>2, <2>2, <2>7, <3>1 DEF HeartbeatPasses, RowFails, Done, shared, history
  <2>8. CASE HeartbeatUnknown(t)
    <3>1. /\ \A u \in Threads \ {t} : pc[u] = "idle" /\ pc'[u] = "idle"
          /\ pc'[t] = "idle"
      BY <2>1, <2>8 DEF HeartbeatUnknown, Steps, Done
    <3> QED
      BY <1>1, <1>2, <2>2, <2>8, <3>1 DEF HeartbeatUnknown, RowFails, Done, shared, history
  <2>9. CASE HeartbeatFails(t)
    <3>1. /\ \A u \in Threads \ {t} : pc[u] = "idle" /\ pc'[u] = "idle"
          /\ pc'[t] = "insert"
      BY <2>1, <2>9 DEF HeartbeatFails, Steps
    <3> QED
      BY <1>1, <1>2, <2>2, <2>9, <3>1 DEF HeartbeatFails, RowFails, shared, locals, history
  <2>10. CASE Insert(t)
    <3>1. CASE Done(t) /\ UNCHANGED <<runF, runS>>
      <4>1. /\ \A u \in Threads \ {t} : pc[u] = "idle" /\ pc'[u] = "idle"
            /\ pc'[t] = "idle"
        BY <2>1, <2>10, <3>1 DEF Insert, Steps, Done
      <4> QED
        BY <1>1, <1>2, <2>2, <2>10, <3>1, <4>1 DEF Insert, RowFails
    <3>2. CASE /\ Goto(t, "count") /\ UNCHANGED locals
               /\ runF' = IF success[t] THEN 0 ELSE Bump(runF)
               /\ runS' = IF success[t] THEN Bump(runS) ELSE 0
      <4>1. /\ \A u \in Threads \ {t} : pc[u] = "idle" /\ pc'[u] = "idle"
            /\ pc'[t] = "count"
        BY <2>1, <2>10, <3>2 DEF Insert, Steps
      <4> QED
        BY <1>1, <1>2, <2>2, <2>10, <3>2, <4>1 DEF Insert, RowFails, locals
    <3> QED
      BY <2>10, <3>1, <3>2 DEF Insert
  <2>11. CASE CountFailure(t)
    <3> DEFINE step == IF Below(FailureThreshold, Bump(copyF[t]))
                       THEN "write successes" ELSE "decide"
    <3>1. copyF'[t] = Bump(copyF[t]) /\ copyF'[t] \in Runs /\ copyS'[t] = 0
      BY <2>11, Counting DEF CountFailure
    <3>2. /\ \A u \in Threads \ {t} : pc[u] = "idle" /\ pc'[u] = "idle"
          /\ pc'[t] = step
      BY <2>1, <2>11, <3>1 DEF CountFailure, Steps
    <3>3. pc'[t] = "decide" => copyF'[t] >= FailureThreshold
      <4>1. pc'[t] = "decide" => ~Below(FailureThreshold, copyF'[t])
        BY <3>1, <3>2
      <4> QED
        BY <3>1, <4>1, ExternalEndpointAssumption DEF Below, Runs, ExternalEndpointAssumption
    <3> QED
      BY <1>1, <1>2, <2>2, <2>11, <3>1, <3>2, <3>3 DEF CountFailure, RowFails, shared, history
  <2>12. CASE DecideToSend(t)
    <3> DEFINE step == IF initial[t] \/ ReminderDue THEN "send" ELSE "write successes"
    <3>1. /\ \A u \in Threads \ {t} : pc[u] = "idle" /\ pc'[u] = "idle"
          /\ pc'[t] = step
      BY <2>1, <2>12 DEF DecideToSend, Steps
    <3> QED
      BY <1>1, <1>2, <2>2, <2>12, <3>1 DEF DecideToSend, RowFails, shared, locals, history
  <2>13. CASE Send(t)
    <3>1. /\ \A u \in Threads \ {t} : pc[u] = "idle" /\ pc'[u] = "idle"
          /\ pc'[t] = "mark"
      BY <2>1, <2>13 DEF Send, Steps
    <3> QED
      BY <1>1, <1>2, <2>2, <2>13, <3>1 DEF Send, RowFails, shared, locals
  <2>14. CASE SendFails(t)
    <3>1. /\ \A u \in Threads \ {t} : pc[u] = "idle" /\ pc'[u] = "idle"
          /\ pc'[t] = "write successes"
      BY <2>1, <2>14 DEF SendFails, Steps
    <3> QED
      BY <1>1, <1>2, <2>2, <2>14, <3>1 DEF SendFails, RowFails, shared, locals, history
  <2>15. CASE Mark(t)
    <3>1. /\ \A u \in Threads \ {t} : pc[u] = "idle" /\ pc'[u] = "idle"
          /\ pc'[t] = "persist"
      BY <2>1, <2>15 DEF Mark, Steps
    <3> QED
      BY <1>1, <1>2, <2>2, <2>15, <3>1 DEF Mark, RowFails, locals, history
  <2>16. CASE Persist(t)
    <3>1. /\ \A u \in Threads \ {t} : pc[u] = "idle" /\ pc'[u] = "idle"
          /\ pc'[t] = "write successes"
      BY <2>1, <2>16 DEF Persist, Steps
    <3> QED
      BY <1>1, <1>2, <2>2, <2>16, <3>1 DEF Persist, RowFails, locals, history
  <2>17. CASE CountSuccess(t)
    <3> DEFINE step == IF ~triggered THEN "write successes"
                       ELSE IF Below(SuccessThreshold, Bump(copyS[t])) THEN "persist" ELSE "clear"
    <3>1. copyS'[t] = Bump(copyS[t]) /\ copyS'[t] \in Runs /\ copyF'[t] = 0
      BY <2>17, Counting DEF CountSuccess
    <3>2. /\ \A u \in Threads \ {t} : pc[u] = "idle" /\ pc'[u] = "idle"
          /\ pc'[t] = step
      <4>1. Goto(t, step) /\ step \in Steps /\ step # "idle"
        BY <2>17, <3>1 DEF CountSuccess, Steps
      <4> HIDE DEF step
      <4> QED
        BY <2>1, <4>1
    <3>3. pc'[t] = "clear" => triggered /\ copyS'[t] >= SuccessThreshold
      <4>1. pc'[t] = "clear" => triggered /\ ~Below(SuccessThreshold, copyS'[t])
        BY <3>1, <3>2
      <4> QED
        BY <3>1, <4>1, ExternalEndpointAssumption DEF Below, Runs, ExternalEndpointAssumption
    <3> QED
      BY <1>1, <1>2, <2>2, <2>17, <3>1, <3>2, <3>3 DEF CountSuccess, RowFails, shared, history
  <2>18. CASE Clear(t)
    <3>1. /\ \A u \in Threads \ {t} : pc[u] = "idle" /\ pc'[u] = "idle"
          /\ pc'[t] = "delete"
      BY <2>1, <2>18 DEF Clear, Steps
    <3> QED
      BY <1>1, <1>2, <2>2, <2>18, <3>1 DEF Clear, RowFails, locals
  <2>19. CASE Delete(t)
    <3>1. /\ \A u \in Threads \ {t} : pc[u] = "idle" /\ pc'[u] = "idle"
          /\ pc'[t] = "write successes"
      BY <2>1, <2>19 DEF Delete, Steps
    <3> QED
      BY <1>1, <1>2, <2>2, <2>19, <3>1 DEF Delete, RowFails, locals, history
  <2>20. CASE WriteSuccesses(t)
    <3>1. /\ \A u \in Threads \ {t} : pc[u] = "idle" /\ pc'[u] = "idle"
          /\ pc'[t] = "write failures"
      BY <2>1, <2>20 DEF WriteSuccesses, Steps
    <3> QED
      BY <1>1, <1>2, <2>2, <2>20, <3>1 DEF WriteSuccesses, RowFails, locals, history
  <2>21. CASE WriteFailures(t)
    <3>1. /\ \A u \in Threads \ {t} : pc[u] = "idle" /\ pc'[u] = "idle"
          /\ pc'[t] = "idle"
      BY <2>1, <2>21 DEF WriteFailures, Steps, Done
    <3> QED
      BY <1>1, <1>2, <2>2, <2>21, <3>1 DEF WriteFailures, RowFails, history, Done
  <2> QED
    BY <1>4, <2>3, <2>4, <2>5, <2>6, <2>7, <2>8, <2>9, <2>10, <2>11, <2>12, <2>13, <2>14, <2>15, <2>16, <2>17, <2>18, <2>19, <2>20, <2>21
     DEF Receive, HandleAlerting, WriteBack
<1> QED
  BY <1>1, <1>3, <1>4 DEF Next

\* The history variables watch the goroutines, they never stop them.
LEMMA HistoryWatches == HSpec => Spec
<1>1. HInit => Init
  BY DEF HInit
<1>2. [HNext]_<<vars, overlapped, rowLost>> => [Next]_vars
  BY DEF HNext
<1> QED
  BY <1>1, <1>2, PTL DEF HSpec, Spec

\* The strengthening in every state, so that the theorems below can cite it.
LEMMA SequentialHolds == HSpec => [](TypeOK /\ Sequential)
BY HistoryWatches, TypeCorrect, SequentialInit, SequentialStep, PTL DEF HSpec

\* Until two goroutines overlap, the counters between two results are those of the results
\* handled: the copy of ToEndpoint loses none and counts none twice.
THEOREM CountersMatchRunsHolds == HSpec => []CountersMatchRuns
<1>1. Sequential => CountersMatchRuns
  BY DEF Sequential, CountersSettled, CountersMatchRuns, Settled, Busy, At
<1> QED
  BY <1>1, SequentialHolds, PTL

\* Until two goroutines overlap, and unless the store failed, the row a restarted process
\* would find says whether the alert is triggered.
THEOREM RowMatchesTriggeredHolds == HSpec => []RowMatchesTriggered
<1>1. Sequential => RowMatchesTriggered
  BY DEF Sequential, RowSettled, RowMatchesTriggered, Settled, Busy, At
<1> QED
  BY <1>1, SequentialHolds, PTL

\* A result handed to alerting is the incident's Fail or Succeed.
LEMMA InsertCounts ==
    ASSUME NEW t \in Threads, Insert(t)
    PROVE  OneAtATime!IncidentNext \/ UNCHANGED OneAtATime!incident
BY DEF Insert, Bump, OneAtATime!IncidentNext, OneAtATime!Fail, OneAtATime!Succeed,
       OneAtATime!Count, OneAtATime!incident

\* The mark after the initial notification is the incident's Trigger.
LEMMA MarkTriggers ==
    ASSUME NEW t \in Threads, Mark(t), TypeOK, DecisionHolds(t)
    PROVE  OneAtATime!IncidentNext \/ UNCHANGED OneAtATime!incident
BY DEF Mark, At, TypeOK, DecisionHolds, history, OneAtATime!IncidentNext, OneAtATime!Trigger,
       OneAtATime!incident

\* Clearing the mark is the incident's Resolve.
LEMMA ClearResolves ==
    ASSUME NEW t \in Threads, Clear(t), TypeOK, DecisionHolds(t)
    PROVE  OneAtATime!IncidentNext \/ UNCHANGED OneAtATime!incident
BY DEF Clear, At, TypeOK, DecisionHolds, OneAtATime!IncidentNext, OneAtATime!Resolve,
       OneAtATime!incident

\* Until two goroutines overlap, pushes and heartbeats through copies of the endpoint trigger
\* and resolve its alert exactly as the abstract incident allows.
THEOREM ImplementsIncidentHolds == HSpec => ImplementsIncident
<1>1. HInit => OneAtATime!IncidentInit
  BY DEF HInit, Init, OneAtATime!IncidentInit
<1>2. TypeOK /\ Sequential /\ Sequential' /\ [HNext]_<<vars, overlapped, rowLost>>
        => [~overlapped' => OneAtATime!IncidentNext \/ UNCHANGED OneAtATime!incident]_<<vars, overlapped>>
  <2> SUFFICES ASSUME TypeOK, Sequential, HNext, ~overlapped'
               PROVE  OneAtATime!IncidentNext \/ UNCHANGED OneAtATime!incident
    BY DEF OneAtATime!incident, vars, shared
  <2>1. Next /\ \A t \in Threads : DecisionHolds(t)
    BY DEF HNext, Sequential
  <2> USE DEF OneAtATime!incident
  <2>2. CASE Elapse
    BY <2>2 DEF Elapse, history
  <2>3. ASSUME NEW t \in Threads, Receive(t)
        PROVE  OneAtATime!IncidentNext \/ UNCHANGED OneAtATime!incident
    BY <2>3, InsertCounts
       DEF Receive, ReceivePush, StartHeartbeat, CopyFailures, CopySuccesses, HeartbeatPasses,
           HeartbeatUnknown, HeartbeatFails, shared, history
  <2>4. ASSUME NEW t \in Threads, HandleAlerting(t)
        PROVE  OneAtATime!IncidentNext \/ UNCHANGED OneAtATime!incident
    BY <2>1, <2>4, MarkTriggers, ClearResolves
       DEF HandleAlerting, CountFailure, DecideToSend, Send, SendFails, Persist, CountSuccess,
           Delete, shared, history
  <2>5. ASSUME NEW t \in Threads, WriteBack(t)
        PROVE  OneAtATime!IncidentNext \/ UNCHANGED OneAtATime!incident
    BY <2>5 DEF WriteBack, WriteSuccesses, WriteFailures, history
  <2> QED
    BY <2>1, <2>2, <2>3, <2>4, <2>5 DEF Next
<1> QED
  BY <1>1, <1>2, SequentialHolds, PTL DEF HSpec, ImplementsIncident
=============================================================================
