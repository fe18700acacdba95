--------------------------- MODULE WatchdogProofs ---------------------------
(***************************************************************************)
(* Proofs about the watchdog: its type invariant, the conservation of the  *)
(* weight that its semaphores count, the bound on the executions in        *)
(* flight, and that no goroutine waits in vain.                            *)
(*                                                                         *)
(* The invariant, Safe, says what a goroutine knows of the package         *)
(* variables: it reads the semaphore to acquire, then the context, then    *)
(* the semaphore to release, so what it releases is what it acquired or    *)
(* newer (SlotsInv).  An execution across a reload therefore leaves an old *)
(* semaphore counting too much and a newer one too little: the newest      *)
(* never counts more than the goroutines that acquired it (HeldInv), and a *)
(* goroutine that waits for it waits for one of them.  The sum over all    *)
(* semaphores stays exact, which Moves follows step by step.               *)
(***************************************************************************)
EXTENDS WatchdogProperties, SumTheorems, SequenceTheorems

(***************************************************************************)
(* Facts about data: queues that lose or get a member.                     *)
(***************************************************************************)
\* Removing the k-th element, elementwise.
Without(q, k) == [j \in 1 .. Len(q) - 1 |-> IF j < k THEN q[j] ELSE q[j + 1]]

\* What remains, as a function.
LEMMA RemoveAtIs ==
    ASSUME NEW S, NEW q \in Seq(S), NEW k \in 1 .. Len(q)
    PROVE  RemoveAt(q, k) = Without(q, k)
<1> DEFINE n == Len(q)
           a == SubSeq(q, 1, k - 1)
           b == SubSeq(q, k + 1, n)
<1>1. n \in Nat /\ k \in 1 .. n /\ \A j \in 1 .. n : q[j] \in S
  OBVIOUS
<1>2. a \in Seq(S) /\ Len(a) = k - 1 /\ \A j \in 1 .. k - 1 : a[j] = q[j]
  BY <1>1, SubSeqProperties
<1>3. b \in Seq(S) /\ Len(b) = n - k /\ \A j \in 1 .. n - k : b[j] = q[k + j]
  BY <1>1, SubSeqProperties
<1>4. RemoveAt(q, k) = a \o b
  BY DEF RemoveAt
<1> HIDE DEF a, b, n
<1>5. /\ a \o b \in Seq(S) /\ Len(a \o b) = Len(a) + Len(b)
      /\ \A j \in 1 .. Len(a) + Len(b) :
            (a \o b)[j] = IF j <= Len(a) THEN a[j] ELSE b[j - Len(a)]
  BY <1>2, <1>3, ConcatProperties, Zenon
<1> DEFINE c == a \o b
<1>6. c \in Seq(S) /\ Len(c) = n - 1
  BY <1>1, <1>2, <1>3, <1>5
<1>7. c = [j \in 1 .. n - 1 |-> c[j]]
  <2> HIDE DEF c
  <2> QED BY <1>1, <1>6
<1>8. ASSUME NEW j \in 1 .. n - 1 PROVE c[j] = IF j < k THEN q[j] ELSE q[j + 1]
  <2>0. c[j] = IF j <= k - 1 THEN a[j] ELSE b[j - (k - 1)]
    BY <1>1, <1>2, <1>3, <1>5
  <2> HIDE DEF c
  <2>1. CASE j < k
    BY <1>1, <1>2, <2>0, <2>1
  <2>2. CASE ~(j < k)
    <3>1. c[j] = b[j - (k - 1)] /\ j - (k - 1) \in 1 .. n - k
      BY <1>1, <2>0, <2>2
    <3>2. b[j - (k - 1)] = q[k + (j - (k - 1))]
      BY <1>3, <3>1
    <3> QED
      BY <1>1, <2>2, <3>1, <3>2
  <2> QED
    BY <2>1, <2>2
<1> HIDE DEF c
<1>9. c = [j \in 1 .. n - 1 |-> IF j < k THEN q[j] ELSE q[j + 1]]
  BY <1>7, <1>8
<1> QED
  BY <1>4, <1>9 DEF Without, c, n

\* A queue without its k-th member has all the others, once.
LEMMA QueueWithout ==
    ASSUME NEW S, NEW q \in Seq(S), IsInjective(q), NEW k \in DOMAIN q
    PROVE  LET r == RemoveAt(q, k) IN
           /\ r \in Seq(S) /\ IsInjective(r)
           /\ \A j \in DOMAIN r : \E l \in DOMAIN q : l # k /\ r[j] = q[l]
           /\ \A l \in DOMAIN q : l # k => \E j \in DOMAIN r : r[j] = q[l]
<1> DEFINE n == Len(q)
           at(j) == IF j < k THEN j ELSE j + 1
           r == [j \in 1 .. n - 1 |-> q[at(j)]]
<1>1. /\ n \in Nat /\ k \in 1 .. n /\ DOMAIN q = 1 .. n /\ \A j \in 1 .. n : q[j] \in S
      /\ n - 1 \in Nat
  OBVIOUS
<1>2. RemoveAt(q, k) = r
  BY <1>1, RemoveAtIs DEF Without
<1> HIDE DEF n
<1>3. \A j \in 1 .. n - 1 : at(j) \in 1 .. n /\ at(j) # k
  BY <1>1
<1>4. \A i, j \in 1 .. n - 1 : at(i) = at(j) => i = j
  BY <1>1
<1>5. \A l \in 1 .. n : l # k => \E j \in 1 .. n - 1 : at(j) = l
  <2> SUFFICES ASSUME NEW l \in 1 .. n, l # k PROVE \E j \in 1 .. n - 1 : at(j) = l
    OBVIOUS
  <2>1. CASE l < k
    <3>1. l \in 1 .. n - 1 /\ at(l) = l
      BY <1>1, <2>1
    <3> QED
      BY <3>1
  <2>2. CASE ~(l < k)
    <3>1. l - 1 \in 1 .. n - 1 /\ at(l - 1) = l
      BY <1>1, <2>2
    <3> QED
      BY <3>1
  <2> QED
    BY <2>1, <2>2
<1> HIDE DEF at
<1>6. r \in Seq(S) /\ DOMAIN r = 1 .. n - 1 /\ \A j \in 1 .. n - 1 : r[j] = q[at(j)]
  BY <1>1, <1>3
<1>7. IsInjective(r)
  <2> SUFFICES ASSUME NEW i \in 1 .. n - 1, NEW j \in 1 .. n - 1, r[i] = r[j] PROVE i = j
    BY <1>6 DEF IsInjective
  <2>1. q[at(i)] = q[at(j)]
    BY <1>6
  <2>2. at(i) = at(j)
    BY <1>1, <1>3, <2>1 DEF IsInjective
  <2> QED
    BY <1>4, <2>2
<1> HIDE DEF r
<1>8. \A j \in DOMAIN r : \E l \in DOMAIN q : l # k /\ r[j] = q[l]
  BY <1>1, <1>3, <1>6
<1>9. \A l \in DOMAIN q : l # k => \E j \in DOMAIN r : r[j] = q[l]
  BY <1>1, <1>5, <1>6
<1> QED
  BY <1>2, <1>6, <1>7, <1>8, <1>9

\* A queue that lost its first member.
LEMMA QueueTail ==
    ASSUME NEW S, NEW q \in Seq(S), q # <<>>, IsInjective(q)
    PROVE  /\ Head(q) \in S /\ Tail(q) \in Seq(S) /\ IsInjective(Tail(q))
           /\ \A j \in DOMAIN Tail(q) : j + 1 \in DOMAIN q /\ Tail(q)[j] = q[j + 1]
           /\ \A l \in DOMAIN q : q[l] # Head(q) => \E j \in DOMAIN Tail(q) : Tail(q)[j] = q[l]
           /\ \A j \in DOMAIN Tail(q) : Tail(q)[j] # Head(q)
<1> DEFINE n == Len(q)
           r == Tail(q)
<1>1. /\ n \in Nat /\ 1 \in 1 .. n /\ DOMAIN q = 1 .. n /\ q[1] = Head(q) /\ q[1] \in S
      /\ r \in Seq(S) /\ DOMAIN r = 1 .. n - 1 /\ \A j \in 1 .. n - 1 : r[j] = q[j + 1]
  OBVIOUS
<1>2. \A i, j \in 1 .. n : q[i] = q[j] => i = j
  BY <1>1 DEF IsInjective
<1> HIDE DEF n, r
<1>3. \A j \in 1 .. n - 1 : j + 1 \in 1 .. n
  BY <1>1
<1>4. \A l \in 1 .. n : q[l] # q[1] => \E j \in 1 .. n - 1 : r[j] = q[l]
  <2> SUFFICES ASSUME NEW l \in 1 .. n, q[l] # q[1] PROVE \E j \in 1 .. n - 1 : r[j] = q[l]
    OBVIOUS
  <2>1. l - 1 \in 1 .. n - 1 /\ (l - 1) + 1 = l
    BY <1>1
  <2> QED
    BY <1>1, <2>1
<1>5. IsInjective(r)
  <2> SUFFICES ASSUME NEW i \in 1 .. n - 1, NEW j \in 1 .. n - 1, r[i] = r[j] PROVE i = j
    BY <1>1 DEF IsInjective
  <2>1. i + 1 = j + 1
    BY <1>1, <1>2, <1>3
  <2> QED
    BY <2>1
<1>6. \A j \in 1 .. n - 1 : r[j] # q[1]
  <2> SUFFICES ASSUME NEW j \in 1 .. n - 1, q[j + 1] = q[1] PROVE FALSE
    BY <1>1
  <2>1. j + 1 = 1
    BY <1>1, <1>2, <1>3
  <2> QED
    BY <2>1
<1> QED
  BY <1>1, <1>3, <1>4, <1>5, <1>6 DEF r

\* A queue that a newcomer joins.
LEMMA QueueJoined ==
    ASSUME NEW S, NEW q \in Seq(S), IsInjective(q), NEW x \in S, \A j \in DOMAIN q : q[j] # x
    PROVE  LET r == Append(q, x) IN
           /\ r \in Seq(S) /\ IsInjective(r) /\ r # <<>>
           /\ \A j \in DOMAIN r : r[j] = x \/ \E l \in DOMAIN q : r[j] = q[l]
           /\ \A l \in DOMAIN q : \E j \in DOMAIN r : r[j] = q[l]
           /\ \E j \in DOMAIN r : r[j] = x
<1> DEFINE n == Len(q)
           r == Append(q, x)
<1>1. /\ n \in Nat /\ DOMAIN q = 1 .. n /\ r \in Seq(S) /\ DOMAIN r = 1 .. n + 1
      /\ \A j \in 1 .. n : r[j] = q[j]
      /\ r[n + 1] = x /\ r # <<>>
  OBVIOUS
<1>2. \A j \in 1 .. n + 1 : j \in 1 .. n \/ j = n + 1
  BY <1>1
<1>3. \A i, j \in 1 .. n : q[i] = q[j] => i = j
  BY <1>1 DEF IsInjective
<1> HIDE DEF n, r
<1>4. IsInjective(r)
  BY <1>1, <1>2, <1>3 DEF IsInjective
<1>5. n + 1 \in 1 .. n + 1 /\ \A j \in 1 .. n : j \in 1 .. n + 1
  BY <1>1
<1>6. \A j \in DOMAIN r : r[j] = x \/ \E l \in DOMAIN q : r[j] = q[l]
  BY <1>1, <1>2
<1>7. \A l \in DOMAIN q : \E j \in DOMAIN r : r[j] = q[l]
  BY <1>1, <1>5
<1>8. \E j \in DOMAIN r : r[j] = x
  BY <1>1, <1>5
<1> QED
  BY <1>1, <1>4, <1>6, <1>7, <1>8 DEF r
-----------------------------------------------------------------------------
(* The life cycle and the goroutines. *)

\* Main assigns the context first and the semaphore next, and replaces a context only when it
\* has ended.
LifeInv ==
    /\ lifecycle \in {"begin", "stopped"} => ctx < MaxGenerations
    /\ semaphore <= ctx
    /\ \A g \in Generations : g < ctx => g \in cancelled
    /\ Alive =>
        /\ lifecycle # "assign" => semaphore = ctx
        /\ lifecycle = "assign" => ctx = semaphore + 1
        /\ lifecycle \in {"start", "listen", "stopped"} => ctx > 0
        /\ lifecycle \in {"begin", "stopped"} => ctx = 0 \/ ctx \in cancelled

\* A goroutine that was not started yet.
Unborn(t) ==
    \/ Generation(t) > ctx
    \/ Generation(t) = ctx /\ (lifecycle = "assign" \/ (lifecycle = "start" /\ t[2] >= next))

BornInv ==
    Alive => /\ \A t \in Threads : Unborn(t) => pc[t] = "unborn"
             /\ \A t \in Threads : pc[t] \notin {"unborn", "ended"} => semaphore > 0

\* A goroutine reads the semaphore, the context and the semaphore again, in this order.
SlotsOf(t) ==
    /\ pc[t] \in {"acquire", "queued", "granted", "acquired", "running"} =>
          acquired[t] \in 1 .. semaphore
    /\ pc[t] \in {"queued", "granted", "acquired", "running"} =>
          context[t] \in acquired[t] .. ctx
    /\ pc[t] = "running" => deferred[t] \in acquired[t] .. semaphore

SlotsInv == \A t \in Threads : SlotsOf(t)

QueueInv ==
    /\ \A g \in Generations : \A k \in DOMAIN waiting[g] :
          pc[waiting[g][k]] = "queued" /\ acquired[waiting[g][k]] = g
    /\ \A t \in Threads : pc[t] = "queued" =>
          \E k \in DOMAIN waiting[acquired[t]] : waiting[acquired[t]][k] = t
    /\ \A g \in Generations : waiting[g] # <<>> => held[g] = Weight

HoldersOf(g) == {t \in InFlight : acquired[t] = g}
HeldInv ==
    /\ \A g \in Generations : g > semaphore => held[g] = 0
    /\ \A g \in Generations : g >= ctx => held[g] <= Cardinality(HoldersOf(g))
-----------------------------------------------------------------------------
(* What the steps do. *)

\* A goroutine is that of a monitor of a configuration.
LEMMA ThreadIs ==
    ASSUME NEW t \in Threads
    PROVE  Generation(t) \in Generations /\ t[2] \in Nat
BY DEF Threads, Generation

\* There are finitely many goroutines.
LEMMA FiniteThreads == IsFiniteSet(Threads) /\ IsFiniteSet(Generations)
<1> DEFINE MonitorsOf(g) == {g} \X (1 .. Monitors[g])
           each == {MonitorsOf(g) : g \in Generations}
<1>1. IsFiniteSet(Generations)
  BY WatchdogAssumption, FS_Interval DEF Generations, WatchdogAssumption
<1>2. IsFiniteSet(each)
  <2>1. [g \in Generations |-> MonitorsOf(g)] \in Surjection(Generations, each)
    BY DEF Surjection
  <2> QED
    BY <1>1, <2>1, FS_Surjection
<1>3. \A s \in each : IsFiniteSet(s)
  <2> SUFFICES ASSUME NEW g \in Generations PROVE IsFiniteSet(MonitorsOf(g))
    OBVIOUS
  <2>1. Monitors[g] \in Int
    BY WatchdogAssumption DEF WatchdogAssumption
  <2>2. IsFiniteSet({g})
    BY FS_Singleton
  <2>3. IsFiniteSet(1 .. Monitors[g])
    BY <2>1, FS_Interval
  <2> QED
    BY <2>2, <2>3, FS_Product
<1>4. Threads = UNION each
  BY DEF Threads
<1> QED
  BY <1>1, <1>2, <1>3, <1>4, FS_UNION

\* The semaphores have a weight.
LEMMA WeightIsPositive == Weight \in Nat \ {0}
BY WatchdogAssumption DEF WatchdogAssumption, Weight

\* The semaphores a goroutine works with are among those there are.
LEMMA SlotTypes ==
    ASSUME TypeOK, SlotsInv, BornInv, LifeInv, NEW t \in Threads
    PROVE  /\ Generation(t) \in Generations
           /\ pc[t] \in {"acquire", "queued", "granted", "acquired", "running"} =>
                acquired[t] \in Generations
           /\ pc[t] = "running" => deferred[t] \in Generations
<1> USE WatchdogAssumption DEF WatchdogAssumption
<1>1. semaphore <= MaxGenerations /\ semaphore \in 0 .. MaxGenerations
  BY DEF TypeOK
<1>2. Generation(t) \in Generations
  BY ThreadIs
<1>3. SlotsOf(t)
  BY DEF SlotsInv
<1>4. pc[t] \in {"acquire", "queued", "granted", "acquired", "running"} =>
        acquired[t] \in Generations
  BY <1>1, <1>3 DEF SlotsOf, Generations
<1>5. pc[t] = "running" => deferred[t] \in Generations
  BY <1>1, <1>3 DEF SlotsOf, Generations
<1> QED
  BY <1>2, <1>4, <1>5

\* What is left when the process has ended.
Ended ==
    /\ lifecycle \in {"exited", "panicked"}
    /\ pc = [t \in Threads |-> "ended"]
    /\ held = [g \in Generations |-> 0] /\ waiting = [g \in Generations |-> <<>>]

\* Every part of the invariant that the end of the process leaves to show.
LEMMA ProcessEndKeeps ==
    ASSUME TypeOK, LifeInv, ProcessEnds, lifecycle' \in {"exited", "panicked"}
    PROVE  /\ TypeOK' /\ LifeInv' /\ BornInv' /\ SlotsInv' /\ QueueInv' /\ HeldInv'
           /\ Ended'
<1> USE WatchdogAssumption DEF ProcessEnds, globals, WatchdogAssumption
<1>1. Ended'
  BY DEF Ended
<1>2. LifeInv' /\ BornInv'
  BY DEF LifeInv, BornInv, Alive
<1>3. SlotsInv'
  BY DEF SlotsInv, SlotsOf
<1>4. QueueInv'
  <2>1. \A g \in Generations : waiting'[g] = <<>>
    OBVIOUS
  <2>2. \A t \in Threads : pc'[t] = "ended"
    OBVIOUS
  <2> QED
    BY <2>1, <2>2 DEF QueueInv
<1>5. HeldInv'
  <2>1. \A t \in Threads : pc'[t] = "ended"
    OBVIOUS
  <2>2. InFlight' = {}
    BY <2>1 DEF InFlight
  <2>3. \A g \in Generations : Cardinality(HoldersOf(g))' = 0
    BY <2>2, FS_EmptySet DEF HoldersOf
  <2>4. \A g \in Generations : held'[g] = 0
    OBVIOUS
  <2> HIDE DEF ProcessEnds
  <2> QED
    BY <2>3, <2>4 DEF HeldInv
<1>6. TypeOK'
  <2>1. /\ held' \in [Generations -> Int] /\ \A g \in Generations : held'[g] <= Weight
    BY WeightIsPositive
  <2>2. /\ waiting' \in [Generations -> Seq(Threads)]
        /\ \A g \in Generations : IsInjective(waiting'[g])
    BY DEF IsInjective
  <2>3. /\ pc' \in [Threads -> Steps] /\ tick' \in [Threads -> {"none", "empty", "full"}]
        /\ acquired' \in [Threads -> 0 .. MaxGenerations]
        /\ context' \in [Threads -> 0 .. MaxGenerations]
        /\ deferred' \in [Threads -> 0 .. MaxGenerations]
    BY DEF Steps
  <2> QED
    BY <2>1, <2>2, <2>3 DEF TypeOK, Lifecycles
<1> QED
  BY <1>1, <1>2, <1>3, <1>4, <1>5, <1>6

Safe == TypeOK /\ LifeInv /\ BornInv /\ SlotsInv /\ QueueInv /\ HeldInv

\* The sets that are counted are finite.
LEMMA FiniteHolders ==
    /\ IsFiniteSet(InFlight) /\ Cardinality(InFlight) \in Nat
    /\ \A g : IsFiniteSet(HoldersOf(g)) /\ Cardinality(HoldersOf(g)) \in Nat
<1>1. IsFiniteSet(InFlight)
  BY FiniteThreads, FS_Subset DEF InFlight
<1>2. \A g : IsFiniteSet(HoldersOf(g))
  <2> SUFFICES ASSUME NEW g PROVE IsFiniteSet(HoldersOf(g))
    OBVIOUS
  <2>1. HoldersOf(g) \in SUBSET InFlight
    BY DEF HoldersOf
  <2> QED
    BY <1>1, <2>1, FS_Subset
<1> QED
  BY <1>1, <1>2, FS_CardinalityType

\* The steps of main, which no goroutine of the watchdog takes part in.
MainStep == AssignContext \/ AssignSemaphore \/ EndMonitor \/ Stop \/ Reload \/ Signal
            \/ (InvalidConfiguration /\ lifecycle' = "listen")

LEMMA MainKeepsSafe ==
    ASSUME Safe, MainStep
    PROVE  Safe' /\ UNCHANGED <<held, pc>> /\ (ctx' = ctx \/ ctx' = ctx + 1)
<1> USE WatchdogAssumption DEF WatchdogAssumption, Safe
<1>1. UNCHANGED <<held, waiting, pc, tick, acquired, context, deferred>>
  BY DEF MainStep, AssignContext, AssignSemaphore, EndMonitor, Stop, Reload, Signal,
         InvalidConfiguration, tokens, locals, ProcessEnds
<1>2. /\ ctx' \in ctx .. MaxGenerations /\ semaphore' \in semaphore .. MaxGenerations
      /\ ctx' = ctx \/ ctx' = ctx + 1
      /\ lifecycle' \in Lifecycles
  BY DEF MainStep, AssignContext, AssignSemaphore, EndMonitor, Stop, Reload, Signal,
         InvalidConfiguration, globals, ProcessEnds, TypeOK, LifeInv, Alive, Lifecycles
<1>3. TypeOK'
  <2>1. next' \in Nat \ {0}
    BY DEF MainStep, AssignContext, AssignSemaphore, EndMonitor, Stop, Reload, Signal,
           InvalidConfiguration, globals, ProcessEnds, TypeOK
  <2>2. cancelled' = cancelled \/ (cancelled' = cancelled \cup {ctx} /\ ctx \in Generations)
    <3>1. CASE Stop \/ Signal
      <4>1. cancelled' = cancelled \cup {ctx}
        BY <3>1 DEF Stop, Signal, StopMonitoring
      <4>2. ctx > 0
        BY <3>1 DEF Stop, Signal, TypeOK, LifeInv, Alive
      <4> QED
        BY <4>1, <4>2 DEF TypeOK, Generations
    <3>2. CASE ~(Stop \/ Signal)
      BY <3>2 DEF MainStep, AssignContext, AssignSemaphore, EndMonitor, Reload,
         InvalidConfiguration, ProcessEnds
    <3> QED
      BY <3>1, <3>2
  <2>3. serving' \in BOOLEAN /\ signalled' \in BOOLEAN
    BY DEF MainStep, AssignContext, AssignSemaphore, EndMonitor, Stop, Reload, Signal,
           InvalidConfiguration, ProcessEnds, StopMonitoring, TypeOK
  <2> QED
    BY <1>1, <1>2, <2>1, <2>2, <2>3 DEF TypeOK
<1>4. LifeInv' /\ BornInv'
  <2> USE DEF TypeOK, LifeInv, BornInv, Unborn, Alive, globals, StopMonitoring
  <2>1. CASE AssignContext
    <3>1. LifeInv'
      BY <2>1 DEF AssignContext, Generations
    <3>2. /\ Alive /\ ctx' = ctx + 1 /\ ctx \in Nat /\ lifecycle' = "assign"
          /\ UNCHANGED <<semaphore, pc>>
      BY <2>1 DEF AssignContext, tokens
    <3>3. \A t \in Threads : Generation(t) \in Int
      BY ThreadIs DEF Generations
    <3>4. \A t \in Threads : Unborn(t)' => Unborn(t)
      BY <3>2, <3>3
    <3>5. BornInv'
      BY <3>2, <3>4
    <3> QED
      BY <3>1, <3>5
  <2>2. CASE AssignSemaphore
    BY <1>1, <2>2, ThreadIs DEF AssignSemaphore, Generations
  <2>3. CASE EndMonitor
    BY <1>1, <2>3, ThreadIs DEF EndMonitor, Generations
  <2>4. CASE Stop
    BY <1>1, <2>4 DEF Stop
  <2>5. CASE Reload
    BY <1>1, <2>5 DEF Reload
  <2>6. CASE Signal
    BY <1>1, <2>6 DEF Signal
  <2>7. CASE InvalidConfiguration /\ lifecycle' = "listen"
    BY <1>1, <2>7 DEF InvalidConfiguration
  <2> QED
    BY <2>1, <2>2, <2>3, <2>4, <2>5, <2>6, <2>7 DEF MainStep
<1>5. SlotsInv'
  BY <1>1, <1>2 DEF SlotsInv, SlotsOf, TypeOK
<1>6. QueueInv'
  BY <1>1 DEF QueueInv
<1>7. HeldInv'
  <2>1. InFlight' = InFlight /\ \A g : HoldersOf(g)' = HoldersOf(g)
    BY <1>1 DEF InFlight, HoldersOf
  <2> QED
    BY <1>1, <1>2, <2>1 DEF HeldInv, TypeOK, Generations
<1> QED
  BY <1>1, <1>2, <1>3, <1>4, <1>5, <1>6, <1>7

\* A goroutine is started.
LEMMA StartKeepsSafe ==
    ASSUME Safe, StartMonitor
    PROVE  Safe' /\ InFlight' = InFlight /\ UNCHANGED <<held, ctx>>
<1> USE WatchdogAssumption DEF WatchdogAssumption, Safe
<1> DEFINE t == <<ctx, next>>
           step == IF next \in Heartbeats THEN "select" ELSE "execute"
<1>1. /\ t \in Threads /\ Generation(t) = ctx /\ t[2] = next /\ pc[t] = "unborn"
      /\ ctx \in Generations /\ semaphore = ctx /\ next \in Nat \ {0}
  <2>1. /\ ctx \in Generations /\ semaphore = ctx
        /\ Alive /\ lifecycle = "start"
    BY DEF StartMonitor, TypeOK, LifeInv, Alive, Generations
  <2>3. next \in Nat \ {0} /\ Monitors[ctx] \in Nat /\ next <= Monitors[ctx]
    BY <2>1 DEF StartMonitor, TypeOK
  <2>2. t \in Threads /\ Generation(t) = ctx /\ t[2] = next
    BY <2>1, <2>3 DEF Threads, Generation
  <2> QED
    BY <2>1, <2>2, <2>3 DEF BornInv, Unborn
<1>2. /\ UNCHANGED <<lifecycle, cancelled, serving, signalled, ctx, semaphore, held, waiting,
                     acquired, context, deferred>>
      /\ next' = next + 1 /\ pc' = [pc EXCEPT ![t] = step]
      /\ tick' \in [Threads -> {"none", "empty", "full"}]
      /\ lifecycle = "start"
  BY <1>1 DEF StartMonitor, globals, tokens, locals, Goto, TypeOK
<1> HIDE DEF t
<1>3. \A u \in Threads : pc'[u] = IF u = t THEN step ELSE pc[u]
  BY <1>1, <1>2 DEF TypeOK
<1>4. TypeOK'
  <2>1. step \in Steps /\ pc' \in [Threads -> Steps]
    BY <1>1, <1>2 DEF TypeOK, Steps
  <2>2. next' \in Nat \ {0}
    BY <1>1, <1>2
  <2> QED
    BY <1>2, <2>1, <2>2 DEF TypeOK
<1>5. LifeInv' /\ SlotsInv'
  BY <1>2, <1>3 DEF LifeInv, Alive, SlotsInv, SlotsOf
<1>6. BornInv'
  <2>1. \A u \in Threads : Unborn(u)' => Unborn(u) /\ u # t
    <3> SUFFICES ASSUME NEW u \in Threads, Unborn(u)' PROVE Unborn(u) /\ u # t
      OBVIOUS
    <3>1. Generation(u) \in Int /\ u[2] \in Int
      BY ThreadIs DEF Generations
    <3>2. /\ ctx \in Int /\ next \in Int
          /\ Generation(u) > ctx \/ (Generation(u) = ctx /\ u[2] >= next + 1)
      BY <1>1, <1>2 DEF Unborn, TypeOK
    <3>3. Unborn(u)
      BY <1>2, <3>1, <3>2 DEF Unborn
    <3>4. u # t
      BY <1>1, <3>1, <3>2
    <3> QED
      BY <3>3, <3>4
  <2>2. semaphore' > 0
    BY <1>1, <1>2 DEF Generations
  <2> QED
    BY <1>2, <1>3, <2>1, <2>2 DEF BornInv, Alive
<1>7. InFlight' = InFlight /\ \A g : HoldersOf(g)' = HoldersOf(g)
  <2>1. InFlight' = InFlight
    BY <1>1, <1>3 DEF InFlight
  <2> QED
    BY <1>2, <2>1 DEF HoldersOf
<1>8. QueueInv'
  BY <1>1, <1>2, <1>3 DEF QueueInv
<1>9. HeldInv'
  BY <1>2, <1>7 DEF HeldInv
<1> QED
  BY <1>2, <1>4, <1>5, <1>6, <1>7, <1>8, <1>9

Flying == {"granted", "acquired", "running"}

\* A goroutine takes a step that neither the semaphores nor their queues take part in.
LEMMA QuietKeepsSafe ==
    ASSUME Safe, Alive, NEW t \in Threads, NEW step \in Steps,
           UNCHANGED <<main, globals, tokens>>,
           Goto(t, step), pc[t] \notin {"queued", "unborn"}, step \notin {"queued", "unborn"},
           pc[t] # "ended",
           pc[t] \in Flying <=> step \in Flying,
           step \in Flying => acquired'[t] = acquired[t],
           tick' \in [Threads -> {"none", "empty", "full"}],
           acquired' \in [Threads -> 0 .. MaxGenerations],
           context' \in [Threads -> 0 .. MaxGenerations],
           deferred' \in [Threads -> 0 .. MaxGenerations],
           \A u \in Threads \ {t} : /\ acquired'[u] = acquired[u] /\ context'[u] = context[u]
                                    /\ deferred'[u] = deferred[u],
           SlotsOf(t)'
    PROVE  Safe' /\ InFlight' = InFlight /\ UNCHANGED <<held, ctx>>
<1> USE DEF Safe
<1>1. /\ UNCHANGED <<lifecycle, next, cancelled, serving, signalled, ctx, semaphore, held,
                     waiting>>
      /\ \A u \in Threads : pc'[u] = IF u = t THEN step ELSE pc[u]
      /\ pc' \in [Threads -> Steps]
  BY DEF main, globals, tokens, Goto, TypeOK
<1>2. TypeOK'
  BY <1>1 DEF TypeOK
<1>3. LifeInv'
  BY <1>1 DEF LifeInv, Alive
<1>4. SlotsInv'
  BY <1>1 DEF SlotsInv, SlotsOf
<1>5. BornInv'
  <2>1. \A u \in Threads : Unborn(u)' <=> Unborn(u)
    BY <1>1 DEF Unborn
  <2> QED
    BY <1>1, <2>1 DEF BornInv, Alive
<1>6. InFlight' = InFlight
  BY <1>1 DEF InFlight, Flying
<1>7. \A g : HoldersOf(g)' = HoldersOf(g)
  <2> SUFFICES ASSUME NEW g, NEW u \in InFlight PROVE acquired'[u] = acquired[u]
    BY <1>6 DEF HoldersOf
  <2> QED
    BY <1>1, <1>6 DEF InFlight, Flying
<1>8. QueueInv'
  <2>1. ASSUME NEW g \in Generations, NEW k \in DOMAIN waiting[g]
        PROVE  pc'[waiting[g][k]] = "queued" /\ acquired'[waiting[g][k]] = g
    <3>1. waiting[g][k] \in Threads
      BY DEF TypeOK
    <3>2. pc[waiting[g][k]] = "queued" /\ acquired[waiting[g][k]] = g
      BY DEF QueueInv
    <3> QED
      BY <1>1, <3>1, <3>2
  <2>2. ASSUME NEW u \in Threads, pc'[u] = "queued" PROVE pc[u] = "queued" /\ acquired'[u] = acquired[u]
    BY <1>1, <2>2
  <2>3. waiting' = waiting /\ held' = held
    BY <1>1
  <2>4. \A g \in Generations : \A k \in DOMAIN waiting'[g] :
            pc'[waiting'[g][k]] = "queued" /\ acquired'[waiting'[g][k]] = g
    BY <2>1, <2>3
  <2>5. \A u \in Threads : pc'[u] = "queued" =>
            \E k \in DOMAIN waiting'[acquired'[u]] : waiting'[acquired'[u]][k] = u
    BY <2>2, <2>3 DEF QueueInv
  <2> QED
    BY <2>3, <2>4, <2>5 DEF QueueInv
<1>9. HeldInv'
  BY <1>1, <1>7 DEF HeldInv
<1> QED
  BY <1>1, <1>2, <1>3, <1>4, <1>5, <1>6, <1>8, <1>9

\* What a step of goroutines has to do with the parts of the invariant that are not about
\* semaphores.
LEMMA PartsKept ==
    ASSUME Safe, Alive, UNCHANGED <<main, globals>>,
           pc' \in [Threads -> Steps],
           \A u \in Threads : pc[u] = "unborn" => pc'[u] = "unborn",
           \A u \in Threads : pc'[u] \notin {"unborn", "ended"} => pc[u] \notin {"unborn", "ended"},
           \A u \in Threads : SlotsOf(u)',
           tick' \in [Threads -> {"none", "empty", "full"}],
           acquired' \in [Threads -> 0 .. MaxGenerations],
           context' \in [Threads -> 0 .. MaxGenerations],
           deferred' \in [Threads -> 0 .. MaxGenerations],
           held' \in [Generations -> Int], \A g \in Generations : held'[g] <= Weight,
           waiting' \in [Generations -> Seq(Threads)],
           \A g \in Generations : IsInjective(waiting'[g])
    PROVE  TypeOK' /\ LifeInv' /\ BornInv' /\ SlotsInv' /\ UNCHANGED <<ctx, semaphore>>
<1> USE DEF Safe
<1>1. UNCHANGED <<lifecycle, next, cancelled, serving, signalled, ctx, semaphore>>
  BY DEF main, globals
<1>2. TypeOK'
  BY <1>1 DEF TypeOK
<1>3. LifeInv'
  BY <1>1 DEF LifeInv, Alive
<1>4. SlotsInv'
  BY DEF SlotsInv
<1>5. \A u \in Threads : Unborn(u)' <=> Unborn(u)
  BY <1>1 DEF Unborn
<1>6. BornInv'
  BY <1>1, <1>5 DEF BornInv, Alive
<1> QED
  BY <1>1, <1>2, <1>3, <1>4, <1>6

\* The semaphore counts one more in use, and one more goroutine is in flight.
LEMMA AcquireKeepsSafe ==
    ASSUME Safe, NEW t \in Threads, Acquire(t)
    PROVE  /\ Safe' /\ InFlight' = InFlight \cup {t} /\ t \notin InFlight
           /\ acquired[t] \in Generations /\ ctx' = ctx
           /\ held' = [held EXCEPT ![acquired[t]] = held[acquired[t]] + 1]
<1> USE DEF Safe
<1>0. PICK s : s = acquired[t]
  OBVIOUS
<1>1. /\ Alive /\ pc[t] = "acquire" /\ pc' = [pc EXCEPT ![t] = "acquired"]
      /\ held[s] < Weight /\ waiting[s] = <<>>
      /\ held' = [held EXCEPT ![s] = held[s] + 1]
      /\ context' = [context EXCEPT ![t] = ctx]
      /\ UNCHANGED <<main, globals, waiting, tick, acquired, deferred>>
  BY <1>0 DEF Acquire, At, Goto, Free
<1>2. /\ s \in Generations /\ s \in 1 .. semaphore /\ semaphore <= ctx /\ semaphore \in Int
      /\ ctx \in 1 .. MaxGenerations
  BY <1>0, <1>1, SlotTypes DEF SlotsInv, SlotsOf, TypeOK, LifeInv, Generations
<1>3. \A u \in Threads : pc'[u] = IF u = t THEN "acquired" ELSE pc[u]
  BY <1>1 DEF TypeOK
<1>4. /\ TypeOK' /\ LifeInv' /\ BornInv' /\ SlotsInv' /\ UNCHANGED <<ctx, semaphore>>
  <2>1. pc' \in [Threads -> Steps] /\ context' \in [Threads -> 0 .. MaxGenerations]
    BY <1>1, <1>2 DEF TypeOK, Steps
  <2>2. held' \in [Generations -> Int] /\ \A g \in Generations : held'[g] <= Weight
    BY <1>1, <1>2, WeightIsPositive DEF TypeOK
  <2>3. \A u \in Threads : SlotsOf(u)'
    <3> SUFFICES ASSUME NEW u \in Threads PROVE SlotsOf(u)'
      OBVIOUS
    <3>1. UNCHANGED <<ctx, semaphore>> /\ acquired'[u] = acquired[u] /\ deferred'[u] = deferred[u]
      BY <1>1 DEF globals
    <3>2. CASE u = t
      <4>1. pc'[u] = "acquired" /\ context'[u] = ctx /\ acquired[u] = s
        BY <1>0, <1>1, <1>3, <3>2 DEF TypeOK
      <4> QED
        BY <1>2, <3>1, <4>1 DEF SlotsOf
    <3>3. CASE u # t
      <4>1. pc'[u] = pc[u] /\ context'[u] = context[u] /\ SlotsOf(u)
        BY <1>1, <1>3, <3>3 DEF TypeOK, SlotsInv
      <4> QED
        BY <3>1, <4>1 DEF SlotsOf
    <3> QED
      BY <3>2, <3>3
  <2> QED
    BY <1>1, <1>3, <2>1, <2>2, <2>3, PartsKept DEF TypeOK
<1>5. InFlight' = InFlight \cup {t} /\ t \notin InFlight
  BY <1>1, <1>3 DEF InFlight
<1>6. QueueInv'
  <2>1. ASSUME NEW g \in Generations, NEW k \in DOMAIN waiting[g]
        PROVE  pc'[waiting[g][k]] = "queued" /\ acquired[waiting[g][k]] = g
    <3>1. waiting[g][k] \in Threads
      BY DEF TypeOK
    <3>2. pc[waiting[g][k]] = "queued" /\ acquired[waiting[g][k]] = g
      BY DEF QueueInv
    <3> QED
      BY <1>1, <1>3, <3>1, <3>2
  <2>2. waiting' = waiting /\ acquired' = acquired
    BY <1>1
  <2>3. \A u \in Threads : pc'[u] = "queued" =>
            \E k \in DOMAIN waiting[acquired[u]] : waiting[acquired[u]][k] = u
    BY <1>3 DEF QueueInv
  <2>4. \A g \in Generations : waiting[g] # <<>> => held'[g] = Weight
    BY <1>1, <1>2 DEF QueueInv, TypeOK
  <2> QED
    BY <2>1, <2>2, <2>3, <2>4 DEF QueueInv
<1>7. HeldInv'
  <2>1. \A g \in Generations \ {s} : held'[g] = held[g] /\ HoldersOf(g)' = HoldersOf(g)
    BY <1>0, <1>1, <1>2, <1>5 DEF HoldersOf, TypeOK
  <2>2. held'[s] = held[s] + 1 /\ HoldersOf(s)' = HoldersOf(s) \cup {t} /\ t \notin HoldersOf(s)
    BY <1>0, <1>1, <1>2, <1>5 DEF HoldersOf, TypeOK
  <2>3. Cardinality(HoldersOf(s)') = Cardinality(HoldersOf(s)) + 1
    BY <2>2, FiniteHolders, FS_AddElement
  <2>4. Cardinality(HoldersOf(s)) \in Nat /\ held[s] \in Int
    BY <1>2, FiniteHolders DEF TypeOK
  <2>5. \A g \in Generations : g > semaphore => held'[g] = 0
    BY <1>2, <2>1 DEF HeldInv, TypeOK, Generations
  <2>6. \A g \in Generations : g >= ctx => held'[g] <= Cardinality(HoldersOf(g)')
    <3> SUFFICES ASSUME NEW g \in Generations, g >= ctx
                 PROVE  held'[g] <= Cardinality(HoldersOf(g)')
      OBVIOUS
    <3>1. held[g] <= Cardinality(HoldersOf(g))
      BY DEF HeldInv
    <3>2. CASE g = s
      <4>1. HoldersOf(g)' = HoldersOf(s)' /\ HoldersOf(g) = HoldersOf(s) /\ held'[g] = held'[s]
        BY <3>2 DEF HoldersOf
      <4> QED
        BY <2>2, <2>3, <2>4, <3>1, <3>2, <4>1
    <3>3. CASE g # s
      BY <2>1, <3>1, <3>3
    <3> QED
      BY <3>2, <3>3
  <2> QED
    BY <1>4, <2>5, <2>6 DEF HeldInv
<1> QED
  BY <1>0, <1>1, <1>2, <1>4, <1>5, <1>6, <1>7

\* Who waits in a queue, and where, stays as it is for the goroutines that a step leaves alone.
LEMMA QueueMembers ==
    ASSUME TypeOK, QueueInv, NEW g \in Generations, NEW k \in DOMAIN waiting[g]
    PROVE  /\ waiting[g][k] \in Threads
           /\ pc[waiting[g][k]] = "queued" /\ acquired[waiting[g][k]] = g
BY DEF TypeOK, QueueInv

\* A goroutine joins the queue of a semaphore that is in use to the full.
LEMMA WaitKeepsSafe ==
    ASSUME Safe, NEW t \in Threads, AcquireWaits(t)
    PROVE  Safe' /\ InFlight' = InFlight /\ UNCHANGED <<held, ctx>>
<1> USE DEF Safe
<1>0. PICK s : s = acquired[t]
  OBVIOUS
<1>1. /\ Alive /\ pc[t] = "acquire" /\ pc' = [pc EXCEPT ![t] = "queued"]
      /\ ~(held[s] < Weight /\ waiting[s] = <<>>)
      /\ waiting' = [waiting EXCEPT ![s] = Append(waiting[s], t)]
      /\ context' = [context EXCEPT ![t] = ctx]
      /\ UNCHANGED <<main, globals, held, tick, acquired, deferred>>
  BY <1>0 DEF AcquireWaits, At, Goto, Free
<1>2. /\ s \in Generations /\ s \in 1 .. semaphore /\ semaphore <= ctx /\ semaphore \in Int
      /\ ctx \in 1 .. MaxGenerations
  BY <1>0, <1>1, SlotTypes DEF SlotsInv, SlotsOf, TypeOK, LifeInv, Generations
<1>3. \A u \in Threads : pc'[u] = IF u = t THEN "queued" ELSE pc[u]
  BY <1>1 DEF TypeOK
<1>q. PICK q : q = waiting[s]
  OBVIOUS
<1>4. q \in Seq(Threads) /\ IsInjective(q) /\ \A j \in DOMAIN q : q[j] # t
  <2>1. q \in Seq(Threads) /\ IsInjective(q)
    BY <1>q, <1>2 DEF TypeOK
  <2>2. ASSUME NEW j \in DOMAIN q PROVE pc[q[j]] = "queued"
    BY <1>q, <1>2, QueueMembers
  <2> QED
    BY <1>1, <2>1, <2>2
<1>5. PICK r : /\ r = Append(q, t) /\ r \in Seq(Threads) /\ IsInjective(r) /\ r # <<>>
               /\ \A j \in DOMAIN r : r[j] = t \/ \E l \in DOMAIN q : r[j] = q[l]
               /\ \A l \in DOMAIN q : \E j \in DOMAIN r : r[j] = q[l]
               /\ \E j \in DOMAIN r : r[j] = t
  <2> DEFINE r == Append(q, t)
  <2>1. /\ r \in Seq(Threads) /\ IsInjective(r) /\ r # <<>>
        /\ \A j \in DOMAIN r : r[j] = t \/ \E l \in DOMAIN q : r[j] = q[l]
        /\ \A l \in DOMAIN q : \E j \in DOMAIN r : r[j] = q[l]
        /\ \E j \in DOMAIN r : r[j] = t
    BY <1>4, QueueJoined
  <2> HIDE DEF r
  <2>2. r = Append(q, t)
    BY DEF r
  <2> QED
    BY <2>1, <2>2
<1>6. \A g \in Generations : waiting'[g] = IF g = s THEN r ELSE waiting[g]
  BY <1>q, <1>1, <1>2, <1>5 DEF TypeOK
<1>7. /\ TypeOK' /\ LifeInv' /\ BornInv' /\ SlotsInv' /\ UNCHANGED <<ctx, semaphore>>
  <2>1. pc' \in [Threads -> Steps] /\ context' \in [Threads -> 0 .. MaxGenerations]
    BY <1>1, <1>2 DEF TypeOK, Steps
  <2>2. /\ waiting' \in [Generations -> Seq(Threads)]
        /\ \A g \in Generations : IsInjective(waiting'[g])
    BY <1>1, <1>5, <1>6 DEF TypeOK
  <2>3. \A u \in Threads : SlotsOf(u)'
    <3> SUFFICES ASSUME NEW u \in Threads PROVE SlotsOf(u)'
      OBVIOUS
    <3>1. UNCHANGED <<ctx, semaphore>> /\ acquired'[u] = acquired[u] /\ deferred'[u] = deferred[u]
      BY <1>1 DEF globals
    <3>2. CASE u = t
      <4>1. pc'[u] = "queued" /\ context'[u] = ctx /\ acquired[u] = s
        BY <1>0, <1>1, <1>3, <3>2 DEF TypeOK
      <4> QED
        BY <1>2, <3>1, <4>1 DEF SlotsOf
    <3>3. CASE u # t
      <4>1. pc'[u] = pc[u] /\ context'[u] = context[u] /\ SlotsOf(u)
        BY <1>1, <1>3, <3>3 DEF TypeOK, SlotsInv
      <4> QED
        BY <3>1, <4>1 DEF SlotsOf
    <3> QED
      BY <3>2, <3>3
  <2> QED
    BY <1>1, <1>3, <2>1, <2>2, <2>3, PartsKept DEF TypeOK
<1>8. InFlight' = InFlight /\ \A g : HoldersOf(g)' = HoldersOf(g)
  <2>1. InFlight' = InFlight
    BY <1>1, <1>3 DEF InFlight
  <2> QED
    BY <1>1, <2>1 DEF HoldersOf
<1>9. QueueInv'
  <2>1. ASSUME NEW g \in Generations, NEW k \in DOMAIN waiting'[g]
        PROVE  pc'[waiting'[g][k]] = "queued" /\ acquired[waiting'[g][k]] = g
    <3>1. (g = s /\ waiting'[g][k] = t)
          \/ \E l \in DOMAIN waiting[g] : waiting'[g][k] = waiting[g][l]
      <4>1. CASE g = s
        <5>1. waiting'[g] = r /\ waiting[g] = q
          BY <1>q, <1>6, <4>1
        <5>2. r[k] = t \/ \E l \in DOMAIN q : r[k] = q[l]
          BY <1>5, <5>1
        <5> QED
          BY <4>1, <5>1, <5>2
      <4>2. CASE g # s
        BY <1>6, <4>2
      <4> QED
        BY <4>1, <4>2
    <3>2. CASE g = s /\ waiting'[g][k] = t
      BY <1>0, <1>3, <3>2
    <3>3. CASE \E l \in DOMAIN waiting[g] : waiting'[g][k] = waiting[g][l]
      BY <1>1, <1>3, <3>3, QueueMembers
    <3> QED
      BY <3>1, <3>2, <3>3
  <2>2. ASSUME NEW u \in Threads, pc'[u] = "queued"
        PROVE  \E k \in DOMAIN waiting'[acquired[u]] : waiting'[acquired[u]][k] = u
    <3>1. CASE u = t
      BY <1>0, <1>2, <1>5, <1>6, <3>1
    <3>2. CASE u # t
      <4>1. pc[u] = "queued" /\ acquired[u] \in Generations
        BY <1>3, <2>2, <3>2, SlotTypes
      <4>2. PICK l \in DOMAIN waiting[acquired[u]] : waiting[acquired[u]][l] = u
        BY <4>1 DEF QueueInv
      <4>3. CASE acquired[u] = s
        <5>1. waiting'[acquired[u]] = r /\ waiting[acquired[u]] = q
          BY <1>q, <1>6, <4>1, <4>3
        <5>2. \E k \in DOMAIN r : r[k] = u
          BY <1>5, <4>2, <5>1
        <5> QED
          BY <5>1, <5>2
      <4>4. CASE acquired[u] # s
        BY <1>6, <4>1, <4>2, <4>4
      <4> QED
        BY <4>3, <4>4
    <3> QED
      BY <3>1, <3>2
  <2>3. \A g \in Generations : waiting'[g] # <<>> => held[g] = Weight
    <3>1. held[s] = Weight
      BY <1>1, <1>2, WeightIsPositive DEF QueueInv, TypeOK
    <3> QED
      BY <1>6, <3>1 DEF QueueInv
  <2>4. acquired' = acquired /\ held' = held
    BY <1>1
  <2> QED
    BY <2>1, <2>2, <2>3, <2>4 DEF QueueInv
<1>10. HeldInv'
  BY <1>1, <1>7, <1>8 DEF HeldInv
<1> QED
  BY <1>1, <1>7, <1>8, <1>9, <1>10

\* Back in its loop a goroutine has dropped what it knew of the semaphores.
LEMMA BackTypes ==
    ASSUME TypeOK, NEW t \in Threads, BackToSelect(t)
    PROVE  /\ tick' \in [Threads -> {"none", "empty", "full"}]
           /\ acquired' \in [Threads -> 0 .. MaxGenerations]
           /\ context' \in [Threads -> 0 .. MaxGenerations]
           /\ deferred' \in [Threads -> 0 .. MaxGenerations]
           /\ \A u \in Threads \ {t} : /\ acquired'[u] = acquired[u] /\ context'[u] = context[u]
                                       /\ deferred'[u] = deferred[u]
<1> USE WatchdogAssumption DEF WatchdogAssumption, TypeOK, BackToSelect
<1>1. tick' \in [Threads -> {"none", "empty", "full"}]
  OBVIOUS
<1>2. acquired' \in [Threads -> 0 .. MaxGenerations]
  OBVIOUS
<1>3. context' \in [Threads -> 0 .. MaxGenerations]
  OBVIOUS
<1>4. deferred' \in [Threads -> 0 .. MaxGenerations]
  OBVIOUS
<1>5. \A u \in Threads \ {t} : /\ acquired'[u] = acquired[u] /\ context'[u] = context[u]
                               /\ deferred'[u] = deferred[u]
  OBVIOUS
<1> QED
  BY <1>1, <1>2, <1>3, <1>4, <1>5

\* What a goroutine knows of the semaphores outlives the steps of others, also when they grant
\* it the weight it waits for.
LEMMA SlotsKept ==
    ASSUME SlotsInv, UNCHANGED <<ctx, semaphore>>, NEW u \in Threads,
           pc'[u] = pc[u] \/ (pc[u] = "queued" /\ pc'[u] = "granted") \/ pc'[u] = "select",
           pc'[u] = "select" \/ UNCHANGED <<acquired[u], context[u], deferred[u]>>
    PROVE  SlotsOf(u)'
BY DEF SlotsInv, SlotsOf

\* A goroutine whose context ended leaves the queue.
LEMMA LeaveKeepsSafe ==
    ASSUME Safe, NEW t \in Threads, LeaveQueue(t)
    PROVE  Safe' /\ InFlight' = InFlight /\ UNCHANGED <<held, ctx>>
<1> USE DEF Safe
<1>0. PICK s : s = acquired[t]
  OBVIOUS
<1>q. PICK q : q = waiting[s]
  OBVIOUS
<1>1. /\ Alive /\ pc[t] = "queued" /\ pc' = [pc EXCEPT ![t] = "select"] /\ BackToSelect(t)
      /\ UNCHANGED <<main, globals, held>> /\ s \in Generations
  BY <1>0, SlotTypes DEF LeaveQueue, At, Goto
<1>2. PICK k \in DOMAIN q : q[k] = t /\ waiting' = [waiting EXCEPT ![s] = RemoveAt(q, k)]
  BY <1>0, <1>q DEF LeaveQueue
<1>3. q \in Seq(Threads) /\ IsInjective(q)
  BY <1>1, <1>q DEF TypeOK
<1>4. PICK r : /\ r = RemoveAt(q, k) /\ r \in Seq(Threads) /\ IsInjective(r)
               /\ \A j \in DOMAIN r : \E l \in DOMAIN q : l # k /\ r[j] = q[l]
               /\ \A l \in DOMAIN q : l # k => \E j \in DOMAIN r : r[j] = q[l]
  BY <1>3, QueueWithout
<1>5. /\ \A j \in DOMAIN r : r[j] # t /\ \E l \in DOMAIN q : r[j] = q[l]
      /\ \A l \in DOMAIN q : q[l] # t => \E j \in DOMAIN r : r[j] = q[l]
  <2>1. \A l \in DOMAIN q : l # k => q[l] # t
    BY <1>2, <1>3 DEF IsInjective
  <2>2. \A j \in DOMAIN r : r[j] # t /\ \E l \in DOMAIN q : r[j] = q[l]
    BY <1>4, <2>1
  <2>3. \A l \in DOMAIN q : q[l] # t => \E j \in DOMAIN r : r[j] = q[l]
    BY <1>2, <1>4
  <2> QED
    BY <2>2, <2>3
<1>6. \A g \in Generations : waiting'[g] = IF g = s THEN r ELSE waiting[g]
  BY <1>1, <1>2, <1>4 DEF TypeOK
<1>7. \A u \in Threads : pc'[u] = IF u = t THEN "select" ELSE pc[u]
  BY <1>1 DEF TypeOK
<1>8. \A u \in Threads \ {t} : /\ acquired'[u] = acquired[u] /\ context'[u] = context[u]
                               /\ deferred'[u] = deferred[u]
  BY <1>1, BackTypes
<1>9. /\ TypeOK' /\ LifeInv' /\ BornInv' /\ SlotsInv' /\ UNCHANGED <<ctx, semaphore>>
  <2>1. pc' \in [Threads -> Steps]
    BY <1>1 DEF TypeOK, Steps
  <2>2. /\ waiting' \in [Generations -> Seq(Threads)]
        /\ \A g \in Generations : IsInjective(waiting'[g])
    BY <1>2, <1>4, <1>6 DEF TypeOK
  <2>3. \A u \in Threads : SlotsOf(u)'
    BY <1>1, <1>7, <1>8, SlotsKept DEF globals
  <2>4. held' \in [Generations -> Int] /\ \A g \in Generations : held'[g] <= Weight
    BY <1>1 DEF TypeOK
  <2>5. /\ \A u \in Threads : pc[u] = "unborn" => pc'[u] = "unborn"
        /\ \A u \in Threads : pc'[u] \notin {"unborn", "ended"} => pc[u] \notin {"unborn", "ended"}
    BY <1>1, <1>7
  <2> QED
    BY <1>1, <2>1, <2>2, <2>3, <2>4, <2>5, BackTypes, PartsKept
<1>10. InFlight' = InFlight /\ \A g : HoldersOf(g)' = HoldersOf(g)
  <2>1. InFlight' = InFlight /\ t \notin InFlight
    BY <1>1, <1>7 DEF InFlight
  <2> QED
    BY <1>8, <2>1 DEF HoldersOf, InFlight
<1>11. QueueInv'
  <2>1. ASSUME NEW g \in Generations, NEW j \in DOMAIN waiting'[g]
        PROVE  pc'[waiting'[g][j]] = "queued" /\ acquired'[waiting'[g][j]] = g
    <3>1. waiting'[g][j] # t /\ \E l \in DOMAIN waiting[g] : waiting'[g][j] = waiting[g][l]
      <4>1. CASE g = s
        <5>1. waiting'[g] = r /\ waiting[g] = q
          BY <1>6, <1>q, <4>1
        <5> QED
          BY <1>5, <5>1
      <4>2. CASE g # s
        BY <1>0, <1>6, <4>2, QueueMembers
      <4> QED
        BY <4>1, <4>2
    <3> QED
      BY <1>7, <1>8, <3>1, QueueMembers
  <2>2. ASSUME NEW u \in Threads, pc'[u] = "queued"
        PROVE  \E j \in DOMAIN waiting'[acquired'[u]] : waiting'[acquired'[u]][j] = u
    <3>1. u # t /\ pc[u] = "queued" /\ acquired'[u] = acquired[u] /\ acquired[u] \in Generations
      BY <1>7, <1>8, <2>2, SlotTypes
    <3>2. PICK l \in DOMAIN waiting[acquired[u]] : waiting[acquired[u]][l] = u
      BY <3>1 DEF QueueInv
    <3>3. CASE acquired[u] = s
      <4>1. waiting'[acquired[u]] = r /\ waiting[acquired[u]] = q
        BY <1>q, <1>6, <3>1, <3>3
      <4>2. \E j \in DOMAIN r : r[j] = u
        BY <1>5, <3>1, <3>2, <4>1
      <4> QED
        BY <3>1, <4>1, <4>2
    <3>4. CASE acquired[u] # s
      BY <1>6, <3>1, <3>2, <3>4
    <3> QED
      BY <3>3, <3>4
  <2>3. \A g \in Generations : waiting'[g] # <<>> => held'[g] = Weight
    <3>1. q # <<>>
      BY <1>2, <1>3
    <3>2. held[s] = Weight
      BY <1>1, <1>q, <3>1 DEF QueueInv
    <3> QED
      BY <1>1, <1>6, <3>2 DEF QueueInv
  <2> QED
    BY <2>1, <2>2, <2>3 DEF QueueInv
<1>12. HeldInv'
  BY <1>1, <1>9, <1>10 DEF HeldInv
<1> QED
  BY <1>1, <1>9, <1>10, <1>11, <1>12

\* A set has at most one member less without an element.
LEMMA OneLess ==
    ASSUME NEW H, IsFiniteSet(H), NEW x
    PROVE  /\ IsFiniteSet(H \ {x}) /\ Cardinality(H) \in Nat /\ Cardinality(H \ {x}) \in Nat
           /\ Cardinality(H \ {x}) >= Cardinality(H) - 1
<1>1. IsFiniteSet(H \ {x}) /\ Cardinality(H \ {x}) \in Nat /\ Cardinality(H) \in Nat
  BY FS_RemoveElement, FS_CardinalityType, Zenon
<1>2. Cardinality(H \ {x}) = IF x \in H THEN Cardinality(H) - 1 ELSE Cardinality(H)
  BY FS_RemoveElement, Zenon
<1> QED
  BY <1>1, <1>2

\* A goroutine in flight goes back to its loop and puts the weight of a semaphore back that is
\* the one it acquired or a newer one: the semaphore counts one less, or the first of its queue
\* flies on.
LEMMA PutBackKeepsSafe ==
    ASSUME Safe, Alive, NEW t \in Threads, NEW s \in Generations, pc[t] \in Flying,
           acquired[t] \in Generations, acquired[t] <= s, s <= semaphore,
           PutBack(s, t, "select"), BackToSelect(t), UNCHANGED <<main, globals>>
    PROVE  /\ Safe' /\ ctx' = ctx /\ t \in InFlight
           /\ \/ held' = [held EXCEPT ![s] = held[s] - 1] /\ InFlight' = InFlight \ {t}
              \/ \E u \in Threads \ InFlight :
                    held' = held /\ InFlight' = (InFlight \ {t}) \cup {u}
<1> USE DEF Safe
<1>1. /\ UNCHANGED <<ctx, semaphore>> /\ semaphore \in Int /\ ctx \in Int
      /\ acquired[t] \in Int /\ s \in Int /\ held[s] \in Int /\ held[s] <= Weight
      /\ t \in InFlight /\ Weight \in Nat
  <2>1. UNCHANGED <<ctx, semaphore>>
    BY DEF globals
  <2>2. t \in InFlight
    BY DEF InFlight, Flying
  <2>3. held[s] \in Int /\ held[s] <= Weight
    BY DEF TypeOK
  <2>4. /\ semaphore \in Int /\ ctx \in Int /\ acquired[t] \in Int /\ s \in Int
    BY DEF TypeOK, Generations
  <2> QED
    BY <2>1, <2>2, <2>3, <2>4, WeightIsPositive
<1>2. \A u \in Threads \ {t} : /\ acquired'[u] = acquired[u] /\ context'[u] = context[u]
                               /\ deferred'[u] = deferred[u]
  BY BackTypes
<1>3. \A g \in Generations : g >= ctx /\ g # s => t \notin HoldersOf(g)
  BY <1>1 DEF HoldersOf, LifeInv, Generations
<1>4. CASE waiting[s] = <<>>
  <2>1. /\ pc' = [pc EXCEPT ![t] = "select"] /\ held' = [held EXCEPT ![s] = held[s] - 1]
        /\ waiting' = waiting
    BY <1>4 DEF PutBack, Goto
  <2>2. \A u \in Threads : pc'[u] = IF u = t THEN "select" ELSE pc[u]
    BY <2>1 DEF TypeOK
  <2>3. \A g \in Generations : held'[g] = IF g = s THEN held[s] - 1 ELSE held[g]
    BY <2>1 DEF TypeOK
  <2>4. TypeOK' /\ LifeInv' /\ BornInv' /\ SlotsInv'
    <3>1. pc' \in [Threads -> Steps]
      BY <2>1 DEF TypeOK, Steps
    <3>2. \A u \in Threads : SlotsOf(u)'
      BY <1>1, <1>2, <2>2, SlotsKept
    <3>3. held' \in [Generations -> Int] /\ \A g \in Generations : held'[g] <= Weight
      BY <1>1, <2>1, <2>3 DEF TypeOK
    <3>4. /\ \A u \in Threads : pc[u] = "unborn" => pc'[u] = "unborn"
          /\ \A u \in Threads : pc'[u] \notin {"unborn", "ended"} => pc[u] \notin {"unborn", "ended"}
      BY <2>2 DEF Flying
    <3>5. /\ waiting' \in [Generations -> Seq(Threads)]
          /\ \A g \in Generations : IsInjective(waiting'[g])
      BY <2>1 DEF TypeOK
    <3> QED
      BY <3>1, <3>2, <3>3, <3>4, <3>5, BackTypes, PartsKept
  <2>5. InFlight' = InFlight \ {t}
    BY <2>2 DEF InFlight
  <2>6. \A g : HoldersOf(g)' = HoldersOf(g) \ {t}
    BY <1>2, <2>5 DEF HoldersOf, InFlight
  <2>7. QueueInv'
    <3>1. ASSUME NEW g \in Generations, NEW k \in DOMAIN waiting[g]
          PROVE  pc'[waiting[g][k]] = "queued" /\ acquired'[waiting[g][k]] = g
      <4>1. waiting[g][k] # t
        BY QueueMembers DEF Flying
      <4> QED
        BY <1>2, <2>2, <4>1, QueueMembers
    <3>2. ASSUME NEW u \in Threads, pc'[u] = "queued"
          PROVE  \E k \in DOMAIN waiting[acquired'[u]] : waiting[acquired'[u]][k] = u
      BY <1>2, <2>2, <3>2 DEF QueueInv
    <3>3. \A g \in Generations : waiting[g] # <<>> => held'[g] = Weight
      BY <1>4, <2>3 DEF QueueInv
    <3> QED
      BY <2>1, <3>1, <3>2, <3>3 DEF QueueInv
  <2>8. HeldInv'
    <3>1. \A g \in Generations : g > semaphore => held'[g] = 0
      BY <1>1, <2>3 DEF HeldInv, Generations
    <3>2. ASSUME NEW g \in Generations, g >= ctx
          PROVE  held'[g] <= Cardinality(HoldersOf(g)')
      <4>1. held[g] <= Cardinality(HoldersOf(g)) /\ held[g] \in Int
        BY <3>2 DEF HeldInv, TypeOK
      <4>2. CASE g = s
        <5>1. held'[g] = held[g] - 1
          BY <2>3, <4>2
        <5>2. Cardinality(HoldersOf(g) \ {t}) >= Cardinality(HoldersOf(g)) - 1
          BY FiniteHolders, OneLess, Zenon
        <5>3. Cardinality(HoldersOf(g) \ {t}) \in Nat /\ Cardinality(HoldersOf(g)) \in Nat
          BY FiniteHolders, OneLess, Zenon
        <5>4. HoldersOf(g)' = HoldersOf(g) \ {t}
          BY <2>6
        <5> QED
          BY <4>1, <5>1, <5>2, <5>3, <5>4
      <4>3. CASE g # s
        <5>1. held'[g] = held[g] /\ HoldersOf(g)' = HoldersOf(g)
          BY <1>3, <2>3, <2>6, <3>2, <4>3
        <5> QED
          BY <4>1, <5>1
      <4> QED
        BY <4>2, <4>3
    <3> QED
      BY <1>1, <3>1, <3>2 DEF HeldInv
  <2> QED
    BY <1>1, <2>1, <2>4, <2>5, <2>7, <2>8
<1>5. CASE waiting[s] # <<>>
  <2>q. PICK q : q = waiting[s]
    OBVIOUS
  <2>w. PICK w : w = Head(q)
    OBVIOUS
  <2>1. /\ pc' = [pc EXCEPT ![t] = "select", ![w] = "granted"] /\ held' = held
        /\ waiting' = [waiting EXCEPT ![s] = Tail(q)]
    BY <1>5, <2>q, <2>w DEF PutBack
  <2>2. q \in Seq(Threads) /\ IsInjective(q) /\ q # <<>>
    BY <1>5, <2>q DEF TypeOK
  <2>3. PICK r : /\ r = Tail(q) /\ w \in Threads /\ r \in Seq(Threads) /\ IsInjective(r)
                 /\ \A j \in DOMAIN r : \E l \in DOMAIN q : r[j] = q[l]
                 /\ \A l \in DOMAIN q : q[l] # w => \E j \in DOMAIN r : r[j] = q[l]
                 /\ \A j \in DOMAIN r : r[j] # w
    BY <2>2, <2>w, QueueTail
  <2>4. pc[w] = "queued" /\ acquired[w] = s /\ w # t
    <3>1. 1 \in DOMAIN q /\ q[1] = w
      BY <2>2, <2>w
    <3>2. pc[w] = "queued" /\ acquired[w] = s
      BY <2>q, <3>1, QueueMembers
    <3> QED
      BY <3>2 DEF Flying
  <2>5. \A g \in Generations : waiting'[g] = IF g = s THEN r ELSE waiting[g]
    BY <2>1, <2>3 DEF TypeOK
  <2>6. \A u \in Threads : pc'[u] = IF u = t THEN "select" ELSE IF u = w THEN "granted" ELSE pc[u]
    BY <2>1, <2>3, <2>4 DEF TypeOK
  <2>7. TypeOK' /\ LifeInv' /\ BornInv' /\ SlotsInv'
    <3>1. pc' \in [Threads -> Steps]
      BY <2>1 DEF TypeOK, Steps
    <3>2. \A u \in Threads : SlotsOf(u)'
      BY <1>1, <1>2, <2>4, <2>6, SlotsKept
    <3>3. held' \in [Generations -> Int] /\ \A g \in Generations : held'[g] <= Weight
      BY <2>1 DEF TypeOK
    <3>4. /\ \A u \in Threads : pc[u] = "unborn" => pc'[u] = "unborn"
          /\ \A u \in Threads : pc'[u] \notin {"unborn", "ended"} => pc[u] \notin {"unborn", "ended"}
      BY <2>4, <2>6 DEF Flying
    <3>5. /\ waiting' \in [Generations -> Seq(Threads)]
          /\ \A g \in Generations : IsInjective(waiting'[g])
      BY <2>1, <2>3, <2>5 DEF TypeOK
    <3> QED
      BY <3>1, <3>2, <3>3, <3>4, <3>5, BackTypes, PartsKept
  <2>8. InFlight' = (InFlight \ {t}) \cup {w} /\ w \in Threads \ InFlight
    BY <2>3, <2>4, <2>6 DEF InFlight
  <2>9. /\ \A g \in Generations \ {s} : HoldersOf(g)' = HoldersOf(g) \ {t}
        /\ HoldersOf(s)' = (HoldersOf(s) \ {t}) \cup {w} /\ w \notin HoldersOf(s)
    BY <1>2, <2>4, <2>8 DEF HoldersOf, InFlight
  <2>10. QueueInv'
    <3>1. ASSUME NEW g \in Generations, NEW k \in DOMAIN waiting'[g]
          PROVE  pc'[waiting'[g][k]] = "queued" /\ acquired'[waiting'[g][k]] = g
      <4>1. /\ waiting'[g][k] # w
            /\ \E l \in DOMAIN waiting[g] : waiting'[g][k] = waiting[g][l]
        <5>1. CASE g = s
          <6>1. waiting'[g] = r /\ waiting[g] = q
            BY <2>q, <2>5, <5>1
          <6> QED
            BY <2>3, <6>1
        <5>2. CASE g # s
          <6>1. waiting'[g] = waiting[g]
            BY <2>5, <5>2
          <6> QED
            BY <2>4, <5>2, <6>1, QueueMembers
        <5> QED
          BY <5>1, <5>2
      <4>2. waiting'[g][k] \in Threads /\ pc[waiting'[g][k]] = "queued" /\ acquired[waiting'[g][k]] = g
        BY <4>1, QueueMembers
      <4>3. waiting'[g][k] # t
        BY <4>2 DEF Flying
      <4> QED
        BY <1>2, <2>6, <4>1, <4>2, <4>3
    <3>2. ASSUME NEW u \in Threads, pc'[u] = "queued"
          PROVE  \E k \in DOMAIN waiting'[acquired'[u]] : waiting'[acquired'[u]][k] = u
      <4>1. /\ u # t /\ u # w /\ pc[u] = "queued" /\ acquired'[u] = acquired[u]
            /\ acquired[u] \in Generations
        BY <1>2, <2>6, <3>2, SlotTypes
      <4>2. PICK l \in DOMAIN waiting[acquired[u]] : waiting[acquired[u]][l] = u
        BY <4>1 DEF QueueInv
      <4>3. CASE acquired[u] = s
        <5>1. waiting'[acquired[u]] = r /\ waiting[acquired[u]] = q
          BY <2>q, <2>5, <4>1, <4>3
        <5>2. \E k \in DOMAIN r : r[k] = u
          BY <2>3, <4>1, <4>2, <5>1
        <5> QED
          BY <4>1, <5>1, <5>2
      <4>4. CASE acquired[u] # s
        BY <2>5, <4>1, <4>2, <4>4
      <4> QED
        BY <4>3, <4>4
    <3>3. \A g \in Generations : waiting'[g] # <<>> => held'[g] = Weight
      <4>1. held[s] = Weight
        BY <1>5 DEF QueueInv
      <4> QED
        BY <2>1, <2>5, <4>1 DEF QueueInv
    <3> QED
      BY <3>1, <3>2, <3>3 DEF QueueInv
  <2>11. HeldInv'
    <3>1. ASSUME NEW g \in Generations, g >= ctx
          PROVE  held'[g] <= Cardinality(HoldersOf(g)')
      <4>1. held[g] <= Cardinality(HoldersOf(g)) /\ held'[g] = held[g] /\ held[g] \in Int
        BY <2>1, <3>1 DEF HeldInv, TypeOK
      <4>2. CASE g = s
        <5>1. HoldersOf(g)' = (HoldersOf(g) \ {t}) \cup {w} /\ w \notin HoldersOf(g) \ {t}
          BY <2>9, <4>2
        <5>2. Cardinality(HoldersOf(g) \ {t}) >= Cardinality(HoldersOf(g)) - 1
          BY FiniteHolders, OneLess, Zenon
        <5>3. /\ IsFiniteSet(HoldersOf(g) \ {t})
              /\ Cardinality(HoldersOf(g) \ {t}) \in Nat /\ Cardinality(HoldersOf(g)) \in Nat
          BY FiniteHolders, OneLess, Zenon
        <5>4. Cardinality(HoldersOf(g)') = Cardinality(HoldersOf(g) \ {t}) + 1
          BY <5>1, <5>3, FS_AddElement
        <5> QED
          BY <4>1, <5>2, <5>3, <5>4
      <4>3. CASE g # s
        <5>1. HoldersOf(g)' = HoldersOf(g) \ {t}
          BY <2>9, <3>1, <4>3
        <5>2. t \notin HoldersOf(g)
          BY <1>3, <3>1, <4>3
        <5>3. HoldersOf(g)' = HoldersOf(g)
          BY <5>1, <5>2
        <5> QED
          BY <4>1, <5>3
      <4> QED
        BY <4>2, <4>3
    <3> QED
      BY <1>1, <2>1, <3>1 DEF HeldInv
  <2> QED
    BY <1>1, <2>1, <2>7, <2>8, <2>10, <2>11
<1> QED
  BY <1>4, <1>5

\* What the semaphores count and who is in flight change together: not at all, by one more, by
\* one less, or one flies on with the weight of another.  Nothing is left when the process ends.
Moves ==
    \/ held' = held /\ InFlight' = InFlight
    \/ \E s \in Generations, t \in Threads \ InFlight :
          held' = [held EXCEPT ![s] = held[s] + 1] /\ InFlight' = InFlight \cup {t}
    \/ \E s \in Generations, t \in InFlight :
          held' = [held EXCEPT ![s] = held[s] - 1] /\ InFlight' = InFlight \ {t}
    \/ \E t \in InFlight, u \in Threads \ InFlight :
          held' = held /\ InFlight' = (InFlight \ {t}) \cup {u}
    \/ Ended'

\* The steps of a goroutine that leave the semaphores and their queues alone.
LEMMA QuietSteps ==
    ASSUME Safe, NEW t \in Threads,
           ReadSemaphore(t) \/ AcquireFails(t) \/ TakeGrant(t) \/ Defer(t) \/ Loop(t) \/ TickerFires(t)
    PROVE  Safe' /\ InFlight' = InFlight /\ UNCHANGED held
<1> USE DEF Safe
<1> Alive
  BY DEF ReadSemaphore, AcquireFails, TakeGrant, Defer, Loop, SelectTick, SelectDone, TickerFires, At
<1>1. CASE ReadSemaphore(t)
  <2>1. /\ pc[t] = "execute" /\ Goto(t, "acquire") /\ UNCHANGED <<main, globals, tokens>>
        /\ acquired' = [acquired EXCEPT ![t] = semaphore]
        /\ UNCHANGED <<tick, context, deferred>>
    BY <1>1 DEF ReadSemaphore, At
  <2>2. acquired' \in [Threads -> 0 .. MaxGenerations]
    BY <2>1 DEF TypeOK
  <2>3. SlotsOf(t)'
    <3>1. pc'[t] = "acquire" /\ acquired'[t] = semaphore /\ semaphore' = semaphore
      BY <2>1 DEF Goto, TypeOK, globals
    <3>2. semaphore > 0
      BY <2>1 DEF BornInv
    <3>3. semaphore \in Int
      BY DEF TypeOK
    <3> QED
      BY <3>1, <3>2, <3>3 DEF SlotsOf
  <2> QED
    BY <2>1, <2>2, <2>3, QuietKeepsSafe DEF Steps, Flying, TypeOK
<1>2. CASE AcquireFails(t)
  <2>1. /\ pc[t] = "acquire" /\ Goto(t, "select") /\ UNCHANGED <<main, globals, tokens>>
        /\ BackToSelect(t)
    BY <1>2 DEF AcquireFails, At
  <2>2. SlotsOf(t)'
    BY <2>1 DEF Goto, TypeOK, SlotsOf
  <2> QED
    BY <2>1, <2>2, BackTypes, QuietKeepsSafe DEF Steps, Flying
<1>3. CASE TakeGrant(t)
  <2>1. /\ pc[t] = "granted" /\ Goto(t, "acquired") /\ UNCHANGED <<main, globals, tokens>>
        /\ UNCHANGED <<tick, acquired, context, deferred>>
    BY <1>3 DEF TakeGrant, At, locals
  <2>2. SlotsOf(t)'
    BY <2>1 DEF Goto, TypeOK, SlotsInv, SlotsOf, globals
  <2> QED
    BY <2>1, <2>2, QuietKeepsSafe DEF Steps, Flying, TypeOK
<1>4. CASE Defer(t)
  <2>1. /\ pc[t] = "acquired" /\ Goto(t, "running") /\ UNCHANGED <<main, globals, tokens>>
        /\ deferred' = [deferred EXCEPT ![t] = semaphore]
        /\ UNCHANGED <<tick, acquired, context>>
    BY <1>4 DEF Defer, At
  <2>2. deferred' \in [Threads -> 0 .. MaxGenerations]
    BY <2>1 DEF TypeOK
  <2>3. SlotsOf(t)'
    <3>1. pc'[t] = "running" /\ deferred'[t] = semaphore /\ UNCHANGED <<ctx, semaphore>>
      BY <2>1 DEF Goto, TypeOK, globals
    <3>2. acquired[t] \in 1 .. semaphore /\ context[t] \in acquired[t] .. ctx /\ semaphore \in Int
      BY <2>1 DEF SlotsInv, SlotsOf, TypeOK
    <3> QED
      BY <2>1, <3>1, <3>2 DEF SlotsOf
  <2> QED
    BY <2>1, <2>2, <2>3, QuietKeepsSafe DEF Steps, Flying, TypeOK
<1>5. CASE Loop(t)
  <2>1. PICK step \in {"execute", "ended"} :
           /\ pc[t] = "select" /\ Goto(t, step) /\ UNCHANGED <<main, globals, tokens>>
           /\ tick' \in [Threads -> {"none", "empty", "full"}]
           /\ UNCHANGED <<acquired, context, deferred>>
    <3>1. CASE SelectTick(t)
      BY <3>1 DEF SelectTick, At, locals, TypeOK
    <3>2. CASE SelectDone(t)
      BY <3>2 DEF SelectDone, At, locals, TypeOK
    <3> QED
      BY <1>5, <3>1, <3>2 DEF Loop
  <2>2. SlotsOf(t)'
    BY <2>1 DEF Goto, TypeOK, SlotsOf
  <2> QED
    BY <2>1, <2>2, QuietKeepsSafe DEF Steps, Flying, TypeOK
<1>6. CASE TickerFires(t)
  <2>1. /\ UNCHANGED <<lifecycle, next, cancelled, serving, signalled, ctx, semaphore, held,
                       waiting, pc, acquired, context, deferred>>
        /\ tick' \in [Threads -> {"none", "empty", "full"}]
    BY <1>6 DEF TickerFires, main, globals, tokens, locals, TypeOK
  <2>2. InFlight' = InFlight /\ \A g : HoldersOf(g)' = HoldersOf(g)
    BY <2>1 DEF InFlight, HoldersOf
  <2>3. TypeOK'
    BY <2>1 DEF TypeOK
  <2>4. LifeInv' /\ QueueInv'
    BY <2>1 DEF LifeInv, Alive, QueueInv
  <2>5. SlotsInv' /\ BornInv'
    BY <2>1 DEF SlotsInv, SlotsOf, BornInv, Unborn, Alive
  <2>6. HeldInv'
    BY <2>1, <2>2 DEF HeldInv
  <2> QED
    BY <2>1, <2>2, <2>3, <2>4, <2>5, <2>6
<1> QED
  BY <1>1, <1>2, <1>3, <1>4, <1>5, <1>6

\* The initial state is safe.
LEMMA InitIsSafe == Init => Safe /\ TokensConserved
<1> SUFFICES ASSUME Init PROVE Safe /\ TokensConserved
  OBVIOUS
<1> USE WatchdogAssumption DEF WatchdogAssumption, Init
<1>1. TypeOK
  <2>1. held \in [Generations -> Int] /\ \A g \in Generations : held[g] <= Weight
    BY WeightIsPositive
  <2>2. waiting \in [Generations -> Seq(Threads)] /\ \A g \in Generations : IsInjective(waiting[g])
    BY DEF IsInjective
  <2>3. /\ pc \in [Threads -> Steps] /\ tick \in [Threads -> {"none", "empty", "full"}]
        /\ acquired \in [Threads -> 0 .. MaxGenerations]
        /\ context \in [Threads -> 0 .. MaxGenerations]
        /\ deferred \in [Threads -> 0 .. MaxGenerations]
    BY DEF Steps
  <2>4. /\ lifecycle \in Lifecycles
        /\ ctx \in 0 .. MaxGenerations /\ semaphore \in 0 .. MaxGenerations
        /\ next \in Nat \ {0} /\ cancelled \subseteq Generations
        /\ serving \in BOOLEAN /\ signalled \in BOOLEAN
    <3>1. /\ lifecycle = "begin" /\ ctx = 0 /\ semaphore = 0 /\ next = 1
          /\ cancelled = {} /\ serving = FALSE /\ signalled = FALSE
      OBVIOUS
    <3>2. MaxGenerations \in Nat
      OBVIOUS
    <3> HIDE DEF Init
    <3>3. ctx \in 0 .. MaxGenerations /\ semaphore \in 0 .. MaxGenerations /\ next \in Nat \ {0}
      BY <3>1, <3>2
    <3>4. /\ lifecycle \in Lifecycles /\ cancelled \subseteq Generations
          /\ serving \in BOOLEAN /\ signalled \in BOOLEAN
      BY <3>1, Zenon DEF Lifecycles
    <3> QED
      BY <3>3, <3>4
  <2> HIDE DEF Init
  <2> QED
    BY <2>1, <2>2, <2>3, <2>4 DEF TypeOK
<1>2. LifeInv /\ BornInv /\ SlotsInv /\ QueueInv
  BY DEF LifeInv, BornInv, SlotsInv, SlotsOf, QueueInv, Alive, Generations
<1>3. InFlight = {} /\ \A g : HoldersOf(g) = {}
  BY DEF InFlight, HoldersOf
<1>4. HeldInv
  <2>1. \A g \in Generations : held[g] = 0
    OBVIOUS
  <2> HIDE DEF Init
  <2>2. \A g \in Generations : Cardinality(HoldersOf(g)) = 0
    BY <1>3, FS_EmptySet
  <2> QED
    BY <2>1, <2>2 DEF HeldInv
<1>5. TokensConserved
  <2>1. SumOver(held, Generations) = 0
    BY FiniteThreads, SumOfZeros
  <2> QED
    BY <1>3, <2>1, FS_EmptySet DEF TokensConserved, SumOver
<1> QED
  BY <1>1, <1>2, <1>4, <1>5 DEF Safe

\* Every step keeps the invariant, and moves weight and goroutines together.
LEMMA NextKeepsSafe == Safe /\ [Next]_vars => Safe' /\ Moves
<1> SUFFICES ASSUME Safe, [Next]_vars PROVE Safe' /\ Moves
  OBVIOUS
<1>1. CASE AssignContext \/ AssignSemaphore \/ EndMonitor \/ Stop \/ Reload \/ Signal
  <2>1. Safe' /\ UNCHANGED <<held, pc>>
    BY <1>1, MainKeepsSafe DEF MainStep
  <2> QED
    BY <2>1 DEF Moves, InFlight
<1>2. CASE StartMonitor
  BY <1>2, StartKeepsSafe DEF Moves
<1>3. CASE InvalidConfiguration
  <2>1. CASE lifecycle' = "listen"
    <3>1. Safe' /\ UNCHANGED <<held, pc>>
      BY <1>3, <2>1, MainKeepsSafe DEF MainStep
    <3> QED
      BY <3>1 DEF Moves, InFlight
  <2>2. CASE lifecycle' = "panicked" /\ ProcessEnds
    BY <2>2, ProcessEndKeeps DEF Moves, Safe
  <2> QED
    BY <1>3, <2>1, <2>2 DEF InvalidConfiguration
<1>4. CASE Exit
  BY <1>4, ProcessEndKeeps DEF Moves, Safe, Exit
<1>5. ASSUME NEW t \in Threads, Execute(t) PROVE Safe' /\ Moves
  <2>1. CASE ReadSemaphore(t) \/ AcquireFails(t) \/ TakeGrant(t) \/ Defer(t)
    BY <2>1, QuietSteps DEF Moves
  <2>2. CASE Acquire(t)
    BY <2>2, AcquireKeepsSafe DEF Moves
  <2>3. CASE AcquireWaits(t)
    BY <2>3, WaitKeepsSafe DEF Moves
  <2>4. CASE LeaveQueue(t)
    BY <2>4, LeaveKeepsSafe DEF Moves
  <2>5. CASE LeaveGrant(t)
    <3>1. pc[t] = "granted" /\ Alive
      BY <2>5 DEF LeaveGrant, At
    <3>2. acquired[t] \in Generations /\ acquired[t] <= semaphore
      BY <3>1, SlotTypes DEF Safe, SlotsInv, SlotsOf
    <3>3. acquired[t] <= acquired[t]
      BY <3>2 DEF Generations
    <3>4. /\ Safe' /\ t \in InFlight
          /\ \/ held' = [held EXCEPT ![acquired[t]] = held[acquired[t]] - 1] /\ InFlight' = InFlight \ {t}
             \/ \E u \in Threads \ InFlight :
                   held' = held /\ InFlight' = (InFlight \ {t}) \cup {u}
      BY <2>5, <3>1, <3>2, <3>3, PutBackKeepsSafe DEF LeaveGrant, Flying
    <3> QED
      BY <3>2, <3>4 DEF Moves
  <2>6. CASE Finish(t)
    <3>1. pc[t] = "running" /\ Alive
      BY <2>6 DEF Finish, At
    <3>2. /\ acquired[t] \in Generations /\ deferred[t] \in Generations
          /\ acquired[t] <= deferred[t] /\ deferred[t] <= semaphore
      BY <3>1, SlotTypes DEF Safe, SlotsInv, SlotsOf
    <3>3. /\ Safe' /\ t \in InFlight
          /\ \/ held' = [held EXCEPT ![deferred[t]] = held[deferred[t]] - 1] /\ InFlight' = InFlight \ {t}
             \/ \E u \in Threads \ InFlight :
                   held' = held /\ InFlight' = (InFlight \ {t}) \cup {u}
      BY <2>6, <3>1, <3>2, PutBackKeepsSafe DEF Finish, Flying
    <3> QED
      BY <3>2, <3>3 DEF Moves
  <2>7. CASE Panic(t)
    BY <2>7, ProcessEndKeeps DEF Moves, Safe, Panic
  <2> QED
    BY <1>5, <2>1, <2>2, <2>3, <2>4, <2>5, <2>6, <2>7 DEF Execute
<1>6. ASSUME NEW t \in Threads, Loop(t) \/ TickerFires(t) PROVE Safe' /\ Moves
  BY <1>6, QuietSteps DEF Moves
<1>7. CASE UNCHANGED vars
  <2>1. UNCHANGED <<lifecycle, next, cancelled, serving, signalled, ctx, semaphore, held,
                    waiting, pc, tick, acquired, context, deferred>>
    BY <1>7 DEF vars, main, globals, tokens, locals
  <2>2. InFlight' = InFlight /\ \A g : HoldersOf(g)' = HoldersOf(g)
    BY <2>1 DEF InFlight, HoldersOf
  <2>3. TypeOK' /\ LifeInv' /\ QueueInv'
    BY <2>1 DEF Safe, TypeOK, LifeInv, Alive, QueueInv
  <2>4. SlotsInv' /\ BornInv'
    BY <2>1 DEF Safe, SlotsInv, SlotsOf, BornInv, Unborn, Alive
  <2>5. HeldInv'
    BY <2>1, <2>2 DEF Safe, HeldInv
  <2> QED
    BY <2>1, <2>2, <2>3, <2>4, <2>5 DEF Safe, Moves
<1> QED
  BY <1>1, <1>2, <1>3, <1>4, <1>5, <1>6, <1>7 DEF Next, Start, Listen

\* So the sum of what the semaphores count stays the number of goroutines in flight.
LEMMA MovesBalance ==
    ASSUME Safe, TokensConserved, Moves PROVE TokensConserved'
<1>0. /\ IsFiniteSet(Generations) /\ \A g \in Generations : held[g] \in Int
      /\ IsFiniteSet(InFlight) /\ Cardinality(InFlight) \in Nat
  BY FiniteThreads, FiniteHolders DEF Safe, TypeOK
<1>1. SumOver(held, Generations) = Cardinality(InFlight)
  BY DEF TokensConserved, SumOver
<1>2. SUFFICES SumOver(held', Generations) = Cardinality(InFlight')
  BY DEF TokensConserved, SumOver, MapThenSumSet, MapThenFoldSet
<1>3. CASE held' = held /\ InFlight' = InFlight
  BY <1>1, <1>3
<1>4. ASSUME NEW s \in Generations, NEW t \in Threads \ InFlight,
             held' = [held EXCEPT ![s] = held[s] + 1], InFlight' = InFlight \cup {t}
      PROVE  SumOver(held', Generations) = Cardinality(InFlight')
  <2>1. held'[s] = held[s] + 1 /\ \A g \in Generations \ {s} : held'[g] = held[g]
    BY <1>4 DEF Safe, TypeOK
  <2>2. SumOver(held', Generations) = SumOver(held, Generations) + held'[s] - held[s]
    BY <1>0, <2>1, SumExcept
  <2>3. Cardinality(InFlight \cup {t}) = Cardinality(InFlight) + 1
    BY <1>0, FS_AddElement
  <2> QED
    BY <1>0, <1>1, <1>4, <2>1, <2>2, <2>3
<1>5. ASSUME NEW s \in Generations, NEW t \in InFlight,
             held' = [held EXCEPT ![s] = held[s] - 1], InFlight' = InFlight \ {t}
      PROVE  SumOver(held', Generations) = Cardinality(InFlight')
  <2>1. held'[s] = held[s] - 1 /\ \A g \in Generations \ {s} : held'[g] = held[g]
    BY <1>5 DEF Safe, TypeOK
  <2>2. SumOver(held', Generations) = SumOver(held, Generations) + held'[s] - held[s]
    BY <1>0, <2>1, SumExcept
  <2>3. Cardinality(InFlight \ {t}) = Cardinality(InFlight) - 1
    BY <1>0, FS_RemoveElement
  <2> QED
    BY <1>0, <1>1, <1>5, <2>1, <2>2, <2>3
<1>6. ASSUME NEW t \in InFlight, NEW u \in Threads \ InFlight,
             held' = held, InFlight' = (InFlight \ {t}) \cup {u}
      PROVE  SumOver(held', Generations) = Cardinality(InFlight')
  <2>1. IsFiniteSet(InFlight \ {t}) /\ Cardinality(InFlight \ {t}) = Cardinality(InFlight) - 1
    BY <1>0, FS_RemoveElement
  <2>2. Cardinality((InFlight \ {t}) \cup {u}) = Cardinality(InFlight \ {t}) + 1
    BY <2>1, FS_AddElement
  <2> QED
    BY <1>0, <1>1, <1>6, <2>1, <2>2
<1>7. CASE Ended'
  <2>1. held' = [g \in Generations |-> 0] /\ pc' = [t \in Threads |-> "ended"]
    BY <1>7 DEF Ended
  <2>2. InFlight' = {}
    BY <2>1 DEF InFlight
  <2>3. SumOver(held', Generations) = 0
    BY <1>0, <2>1, SumOfZeros
  <2> QED
    BY <2>2, <2>3, FS_EmptySet
<1> QED
  BY <1>2, <1>3, <1>4, <1>5, <1>6, <1>7 DEF Moves
-----------------------------------------------------------------------------
(* The theorems. *)

\* The invariant of every state, under which the properties hold.
LEMMA SafeHolds == Spec => [](Safe /\ TokensConserved)
<1>1. Safe /\ TokensConserved /\ [Next]_vars => (Safe /\ TokensConserved)'
  BY NextKeepsSafe, MovesBalance
<1> QED
  BY <1>1, InitIsSafe, PTL DEF Spec

\* Every variable has its type.
THEOREM TypeCorrect == Spec => []TypeOK
BY SafeHolds, PTL DEF Safe

\* What is in use of all semaphores is what the goroutines in flight hold, however many reloads
\* there were and however the goroutines mix the semaphores up.
THEOREM TokensConservedHolds == Spec => []TokensConserved
BY SafeHolds, PTL

\* Each configuration adds at most its own limit of executions in flight.
THEOREM ConcurrencyPerGenerationHolds == Spec => []ConcurrencyPerGeneration
<1>1. Safe /\ TokensConserved => ConcurrencyPerGeneration
  <2> SUFFICES ASSUME Safe, TokensConserved PROVE ConcurrencyPerGeneration
    OBVIOUS
  <2>1. /\ IsFiniteSet(Generations) /\ \A g \in Generations : held[g] \in Int /\ held[g] <= Weight
        /\ ctx \in 0 .. MaxGenerations /\ semaphore \in Int /\ semaphore <= ctx /\ Weight \in Int
    BY FiniteThreads, WeightIsPositive DEF Safe, TypeOK, LifeInv
  <2>2. \A g \in Generations \ (1 .. ctx) : held[g] = 0
    BY <2>1 DEF Safe, HeldInv, Generations
  <2>3. 1 .. ctx \in SUBSET Generations
    BY <2>1, WatchdogAssumption DEF Generations, WatchdogAssumption
  <2>4. SumOver(held, Generations) = SumOver(held, 1 .. ctx)
    BY <2>1, <2>2, <2>3, SumOutside
  <2>5. SumOver(held, 1 .. ctx) <= Weight * Cardinality(1 .. ctx)
    BY <2>1, <2>3, SumBound
  <2>6. Cardinality(1 .. ctx) = ctx
    BY <2>1, FS_Interval
  <2>7. SumOver(held, Generations) = Cardinality(InFlight)
    BY DEF TokensConserved, SumOver
  <2> QED
    BY <2>4, <2>5, <2>6, <2>7 DEF ConcurrencyPerGeneration
<1> QED
  BY <1>1, SafeHolds, PTL

\* With the context of its own semaphore, none waits without another to wait for.
THEOREM NoneWaitsInVainHolds == Spec => []NoneWaitsInVain
<1>1. Safe => NoneWaitsInVain
  <2> SUFFICES ASSUME Safe, NEW t \in Threads, pc[t] = "queued", acquired[t] = context[t],
                      ~Cancelled(t)
               PROVE  \E u \in InFlight : Releases(u, context[t])
    BY DEF NoneWaitsInVain
  <2> PICK g : g = context[t]
    OBVIOUS
  <2>1. acquired[t] = g /\ g \in Generations /\ g <= semaphore /\ g \notin cancelled
    BY SlotTypes DEF Safe, SlotsInv, SlotsOf, Cancelled
  <2>2. g = ctx /\ semaphore = ctx /\ ctx \in Int
    BY <2>1 DEF Safe, LifeInv, TypeOK, Generations
  <2>3. held[g] = Weight
    <3>1. waiting[g] # <<>>
      BY <2>1 DEF Safe, QueueInv
    <3> QED
      BY <2>1, <3>1 DEF Safe, QueueInv
  <2>4. Cardinality(HoldersOf(g)) >= Weight
    BY <2>1, <2>2, <2>3 DEF Safe, HeldInv
  <2>5. PICK u : u \in HoldersOf(g)
    <3>1. HoldersOf(g) # {}
      BY <2>4, WeightIsPositive, FS_EmptySet
    <3> QED
      BY <3>1
  <2>6. u \in InFlight /\ acquired[u] = g /\ (pc[u] = "running" => deferred[u] = g)
    BY <2>2, <2>5 DEF HoldersOf, InFlight, Safe, SlotsInv, SlotsOf
  <2> QED
    BY <2>6 DEF Releases
<1> QED
  BY <1>1, SafeHolds, PTL
=============================================================================
