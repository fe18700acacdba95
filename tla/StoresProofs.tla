---------------------------- MODULE StoresProofs ----------------------------
(***************************************************************************)
(* Proofs about the stores.                                                *)
(*                                                                         *)
(* The first parts are about data: what Newest keeps of a list, that the   *)
(* pages of both stores are windows of one list, that an insertion leaves  *)
(* events that follow the results, and what a clean-up cascades to.        *)
(*                                                                         *)
(* The invariant Inv is about what is stored (Histories) and what an open  *)
(* transaction holds (Sound): no two have the same key, so that the rows   *)
(* a transaction read are still those of its key when it commits, whatever *)
(* others have committed to other keys.  What is stored is then what one   *)
(* insertion after the other would have left.  A suite whose endpoint was  *)
(* skipped, or deleted without it, is in incomplete: what the endpoint has *)
(* left is then still Attached to results of the suite.                    *)
(*                                                                         *)
(* For the cache of SQLite the invariant Cached says who may have written  *)
(* a page: the open transaction, after its refresh, a rollback that was    *)
(* noted in uncertain, or a reader who holds the only connection while it  *)
(* reads.                                                                  *)
(*                                                                         *)
(* The refinement rests on Inv too: the newest rows of a list that was     *)
(* cleaned up and appended to are those of the list that was not           *)
(* (NewestConcat, NewestTwice).                                            *)
(*                                                                         *)
(* The last part is about the hourly entries behind uptimes.  The          *)
(* invariant UptimeInv says what merging and deletion leave of the counts  *)
(* of one entry per hour: the recent hours, which no merge reaches, are    *)
(* exact, so is the sum from any midnight since the retention, and no      *)
(* window counts more than happened.  After a merge there are three days   *)
(* of hours and an entry for each older day that has not expired.          *)
(***************************************************************************)
EXTENDS StoresProperties, UptimeProperties, SumTheorems, SequenceTheorems

(* The newest rows of a list. *)

\* What Newest keeps.
LEMMA NewestIs ==
    ASSUME NEW S, NEW rows \in Seq(S), NEW n \in Nat
    PROVE  /\ Newest(rows, n) \in Seq(S)
           /\ Len(Newest(rows, n)) = IF Len(rows) > n THEN n ELSE Len(rows)
           /\ \A i \in 1 .. Len(Newest(rows, n)) :
                 Newest(rows, n)[i] = rows[Len(rows) - Len(Newest(rows, n)) + i]
<1> DEFINE l == Len(rows)
           d == Excess(rows, n)
<1>1. l \in Nat /\ \A i \in 1 .. l : rows[i] \in S
  OBVIOUS
<1>2. d = IF l > n THEN l - n ELSE 0
  BY DEF Excess
<1>3. d \in Nat /\ d + 1 \in Int /\ \A i \in d + 1 .. l : rows[i] \in S
  BY <1>1, <1>2
<1>4. PICK q : q = SubSeq(rows, d + 1, l)
  OBVIOUS
<1> HIDE DEF d
<1>5. /\ q \in Seq(S)
      /\ Len(q) = IF d + 1 <= l THEN l - (d + 1) + 1 ELSE 0
      /\ \A i \in 1 .. l - (d + 1) + 1 : q[i] = rows[d + 1 + i - 1]
  BY <1>1, <1>3, <1>4, SubSeqProperties
<1>6. Len(q) = IF l > n THEN n ELSE l
  BY <1>1, <1>2, <1>3, <1>5
<1>7. Len(q) = l - d
  BY <1>1, <1>2, <1>6
<1>8. ASSUME NEW i \in 1 .. Len(q) PROVE q[i] = rows[l - Len(q) + i]
  <2>1. i \in 1 .. l - (d + 1) + 1 /\ d + 1 + i - 1 = l - Len(q) + i
    BY <1>1, <1>3, <1>7
  <2> QED
    BY <1>5, <2>1
<1>9. Newest(rows, n) = q
  BY <1>4 DEF Newest, d
<1> QED
  BY <1>5, <1>6, <1>8, <1>9

\* A list that is short enough is kept.
LEMMA NewestWhole ==
    ASSUME NEW S, NEW rows \in Seq(S), NEW n \in Nat, Len(rows) <= n
    PROVE  Newest(rows, n) = rows
<1>1. PICK q : q = Newest(rows, n)
  OBVIOUS
<1>2. q \in Seq(S) /\ Len(q) = Len(rows) /\ \A i \in 1 .. Len(q) : q[i] = rows[i]
  BY <1>1, NewestIs
<1> QED
  BY <1>1, <1>2, SeqEqual

\* Older rows than those that are kept may be gone before.
LEMMA NewestConcat ==
    ASSUME NEW S, NEW rows \in Seq(S), NEW more \in Seq(S), NEW n \in Nat
    PROVE  Newest(Newest(rows, n) \o more, n) = Newest(rows \o more, n)
<1>1. PICK p : p = Newest(rows, n)
  OBVIOUS
<1>2. /\ p \in Seq(S) /\ Len(p) = IF Len(rows) > n THEN n ELSE Len(rows)
      /\ \A i \in 1 .. Len(p) : p[i] = rows[Len(rows) - Len(p) + i]
      /\ Len(rows) \in Nat /\ Len(more) \in Nat
  BY <1>1, NewestIs
<1>3. PICK a : a = p \o more
  OBVIOUS
<1>4. PICK b : b = rows \o more
  OBVIOUS
<1>5. /\ a \in Seq(S) /\ Len(a) = Len(p) + Len(more)
      /\ \A i \in 1 .. Len(p) + Len(more) : a[i] = IF i <= Len(p) THEN p[i] ELSE more[i - Len(p)]
  BY <1>2, <1>3, ConcatProperties
<1>6. /\ b \in Seq(S) /\ Len(b) = Len(rows) + Len(more)
      /\ \A i \in 1 .. Len(rows) + Len(more) :
            b[i] = IF i <= Len(rows) THEN rows[i] ELSE more[i - Len(rows)]
  BY <1>4, ConcatProperties
<1>7. PICK u : u = Newest(a, n)
  OBVIOUS
<1>8. PICK v : v = Newest(b, n)
  OBVIOUS
<1>9. /\ u \in Seq(S) /\ Len(u) = IF Len(a) > n THEN n ELSE Len(a)
      /\ \A i \in 1 .. Len(u) : u[i] = a[Len(a) - Len(u) + i]
  <2>1. a \in Seq(S)
    BY <1>5
  <2> QED
    BY <1>7, <2>1, NewestIs, Zenon
<1>10. /\ v \in Seq(S) /\ Len(v) = IF Len(b) > n THEN n ELSE Len(b)
       /\ \A i \in 1 .. Len(v) : v[i] = b[Len(b) - Len(v) + i]
  <2>1. b \in Seq(S)
    BY <1>6
  <2> QED
    BY <1>8, <2>1, NewestIs, Zenon
<1>r. PICK lr \in Nat : lr = Len(rows)
  BY <1>2
<1>m. PICK lm \in Nat : lm = Len(more)
  BY <1>2
<1>p. PICK lp \in Nat : lp = Len(p)
  BY <1>2, LenProperties
<1>u. PICK lu \in Nat : lu = Len(u)
  BY <1>9, LenProperties
<1>n. /\ lp = IF lr > n THEN n ELSE lr
      /\ lu = IF lp + lm > n THEN n ELSE lp + lm
  BY <1>2, <1>5, <1>9, <1>r, <1>m, <1>p, <1>u
<1>11. Len(v) = lu
  <2>1. Len(v) = IF lr + lm > n THEN n ELSE lr + lm
    BY <1>6, <1>10, <1>r, <1>m
  <2> QED
    BY <2>1, <1>n
<1>12. ASSUME NEW i \in 1 .. lu PROVE u[i] = v[i]
  <2>1. PICK x : x = lp + lm - lu + i
    OBVIOUS
  <2>2. PICK y : y = lr + lm - lu + i
    OBVIOUS
  <2>3. x \in 1 .. lp + lm /\ y \in 1 .. lr + lm /\ x - lp = y - lr
    BY <1>n, <2>1, <2>2
  <2>4. u[i] = a[x]
    <3>1. Len(a) = lp + lm
      BY <1>5, <1>p, <1>m
    <3>2. u[i] = a[Len(a) - lu + i]
      BY <1>9, <1>u
    <3> QED
      BY <2>1, <3>1, <3>2
  <2>5. v[i] = b[y]
    <3>1. Len(b) = lr + lm
      BY <1>6, <1>r, <1>m
    <3>2. v[i] = b[Len(b) - lu + i]
      BY <1>10, <1>11
    <3> QED
      BY <2>2, <3>1, <3>2
  <2>6. a[x] = IF x <= lp THEN p[x] ELSE more[x - lp]
    BY <1>5, <1>p, <1>m, <2>3
  <2>7. b[y] = IF y <= lr THEN rows[y] ELSE more[y - lr]
    BY <1>6, <1>r, <1>m, <2>3
  <2>8. CASE x <= lp
    <3>1. x \in 1 .. lp /\ y <= lr /\ y = lr - lp + x
      BY <2>3, <2>8
    <3>2. p[x] = rows[lr - lp + x]
      BY <1>2, <1>p, <1>r, <3>1
    <3> QED
      BY <2>4, <2>5, <2>6, <2>7, <3>1, <3>2
  <2>9. CASE ~(x <= lp)
    <3>1. ~(y <= lr)
      BY <2>3, <2>9
    <3> QED
      BY <2>3, <2>4, <2>5, <2>6, <2>7, <2>9, <3>1
  <2> QED
    BY <2>8, <2>9
<1>13. u = v
  BY <1>9, <1>10, <1>11, <1>12, <1>u, SeqEqual
<1> QED
  BY <1>1, <1>3, <1>4, <1>7, <1>8, <1>13

\* Keeping the newest twice, and keeping them after one more.
LEMMA NewestTwice ==
    ASSUME NEW S, NEW rows \in Seq(S), NEW n \in Nat, NEW x \in S
    PROVE  /\ Newest(Newest(rows, n), n) = Newest(rows, n)
           /\ Newest(Append(Newest(rows, n), x), n) = Newest(Append(rows, x), n)
<1>1. PICK p : p = Newest(rows, n)
  OBVIOUS
<1>2. p \in Seq(S) /\ Len(p) <= n
  BY <1>1, NewestIs
<1>3. Newest(p, n) = p
  BY <1>2, NewestWhole
<1>4. <<x>> \in Seq(S) /\ Append(p, x) = p \o <<x>> /\ Append(rows, x) = rows \o <<x>>
  BY <1>2, AppendIsConcat
<1>5. Newest(p \o <<x>>, n) = Newest(rows \o <<x>>, n)
  BY <1>1, <1>4, NewestConcat
<1> QED
  BY <1>1, <1>3, <1>4, <1>5

\* The newest of the newest.
LEMMA NewestLess ==
    ASSUME NEW S, NEW rows \in Seq(S), NEW n \in Nat, NEW m \in Nat
    PROVE  Newest(Newest(rows, n), m) = Newest(rows, IF m > n THEN n ELSE m)
<1>1. PICK p : p = Newest(rows, n)
  OBVIOUS
<1>2. PICK k \in Nat : k = IF m > n THEN n ELSE m
  OBVIOUS
<1>3. PICK lr \in Nat : lr = Len(rows)
  OBVIOUS
<1>4. /\ p \in Seq(S) /\ Len(p) = IF lr > n THEN n ELSE lr
      /\ \A i \in 1 .. Len(p) : p[i] = rows[lr - Len(p) + i]
  BY <1>1, <1>3, NewestIs
<1>5. PICK lp \in Nat : lp = Len(p)
  BY <1>4, LenProperties
<1>6. PICK u : u = Newest(p, m)
  OBVIOUS
<1>7. PICK v : v = Newest(rows, k)
  OBVIOUS
<1>8. /\ u \in Seq(S) /\ Len(u) = IF lp > m THEN m ELSE lp
      /\ \A i \in 1 .. Len(u) : u[i] = p[lp - Len(u) + i]
  BY <1>4, <1>5, <1>6, NewestIs
<1>9. /\ v \in Seq(S) /\ Len(v) = IF lr > k THEN k ELSE lr
      /\ \A i \in 1 .. Len(v) : v[i] = rows[lr - Len(v) + i]
  <2>1. /\ v \in Seq(S) /\ Len(v) = IF Len(rows) > k THEN k ELSE Len(rows)
        /\ \A i \in 1 .. Len(v) : v[i] = rows[Len(rows) - Len(v) + i]
    BY <1>7, NewestIs
  <2> QED
    BY <1>3, <2>1
<1>10. PICK lu \in Nat : lu = Len(u)
  BY <1>8, LenProperties
<1>11. /\ Len(v) = lu /\ lp = (IF lr > n THEN n ELSE lr) /\ lu = (IF lp > m THEN m ELSE lp)
  BY <1>2, <1>4, <1>5, <1>8, <1>9, <1>10
<1>12. ASSUME NEW i \in 1 .. lu PROVE u[i] = v[i]
  <2>1. u[i] = p[lp - lu + i] /\ v[i] = rows[lr - lu + i]
    BY <1>8, <1>9, <1>10, <1>11
  <2>2. PICK x : x = lp - lu + i
    OBVIOUS
  <2>3. x \in 1 .. lp /\ lr - lp + x = lr - lu + i
    BY <1>11, <2>2
  <2>4. p[x] = rows[lr - lp + x]
    BY <1>4, <1>5, <2>3
  <2> QED
    BY <2>1, <2>2, <2>3, <2>4
<1>13. u = v
  BY <1>8, <1>9, <1>10, <1>11, <1>12, SeqEqual
<1> QED
  BY <1>1, <1>2, <1>6, <1>7, <1>13

\* q holds the rows after start up to end, and there are size of them, or all up to end.
IsPage(S, rows, size, q, start, end) ==
    /\ q \in Seq(S) /\ start \in Nat /\ end \in Nat
    /\ end - start = IF end > size THEN size ELSE end
    /\ end <= Len(rows)
    /\ Len(q) = end - start
    /\ \A i \in 1 .. end - start : q[i] = rows[start + i]

\* A page of the memory store, by its rows.
LEMMA MemoryPageIs ==
    ASSUME NEW S, NEW rows \in Seq(S), NEW page \in Nat \ {0}, NEW size \in Nat \ {0},
           NEW q, q = MemoryPage(rows, page, size),
           NEW start, start = Excess(rows, page * size),
           NEW end, end = Excess(rows, (page - 1) * size)
    PROVE  IsPage(S, rows, size, q, start, end)
<1>1. PICK l \in Nat : l = Len(rows)
  OBVIOUS
<1>2. PICK b \in Nat : b = (page - 1) * size
  OBVIOUS
<1>3. page * size = b + size
  BY <1>2
<1>4. PICK c \in Nat : c = page * size /\ c = b + size
  BY <1>3
<1>5. start \in Nat /\ start = IF l > c THEN l - c ELSE 0
  <2>1. start = IF l > c THEN l - c ELSE 0
    BY <1>1, <1>4 DEF Excess
  <2> QED
    BY <2>1
<1>6. end \in Nat /\ end = IF l > b THEN l - b ELSE 0
  <2>1. end = IF l > b THEN l - b ELSE 0
    BY <1>1, <1>2 DEF Excess
  <2> QED
    BY <2>1
<1>8. start = (IF l < c THEN 0 ELSE l - c) /\ end = (IF l < b THEN 0 ELSE l - b)
  BY <1>5, <1>6
<1>9. q = SubSeq(rows, start + 1, end)
  BY <1>1, <1>2, <1>4, <1>8 DEF MemoryPage
<1>10. start <= end /\ end <= l /\ end - start = IF end > size THEN size ELSE end
  BY <1>4, <1>5, <1>6
<1>12. \A i \in start + 1 .. end : rows[i] \in S
  BY <1>1, <1>5, <1>6, <1>10
<1>13. /\ q \in Seq(S)
       /\ Len(q) = IF start + 1 <= end THEN end - (start + 1) + 1 ELSE 0
       /\ \A i \in 1 .. end - (start + 1) + 1 : q[i] = rows[start + 1 + i - 1]
  <2>1. start + 1 \in Int /\ end \in Int
    BY <1>5, <1>6
  <2> QED
    BY <1>9, <1>12, <2>1, SubSeqProperties
<1>t. start \in Nat /\ end \in Nat
  BY <1>5, <1>6
<1>14. Len(q) = end - start
  <2>1. CASE start + 1 <= end
    BY <1>t, <1>13, <2>1
  <2>2. CASE ~(start + 1 <= end)
    <3>1. start = end
      BY <1>t, <1>10, <2>2
    <3> QED
      BY <1>t, <1>13, <2>2, <3>1
  <2> QED
    BY <2>1, <2>2
<1>15. ASSUME NEW i \in 1 .. end - start PROVE q[i] = rows[start + i]
  <2>1. i \in 1 .. end - (start + 1) + 1 /\ start + 1 + i - 1 = start + i
    BY <1>t
  <2> QED
    BY <1>13, <2>1
<1> QED
  BY <1>1, <1>5, <1>6, <1>10, <1>13, <1>14, <1>15 DEF IsPage

\* A page of the SQL store has the same rows.
LEMMA SqlPageIs ==
    ASSUME NEW S, NEW rows \in Seq(S), NEW page \in Nat \ {0}, NEW size \in Nat \ {0}
    PROVE  MemoryPage(rows, page, size) = SqlPage(rows, page, size)
<1>1. PICK start : start = Excess(rows, page * size)
  OBVIOUS
<1>2. PICK end : end = Excess(rows, (page - 1) * size)
  OBVIOUS
<1>3. PICK q : q = MemoryPage(rows, page, size)
  OBVIOUS
<1>4. /\ q \in Seq(S) /\ start \in Nat /\ end \in Nat
      /\ end - start = IF end > size THEN size ELSE end
      /\ end <= Len(rows)
      /\ Len(q) = end - start
      /\ \A i \in 1 .. end - start : q[i] = rows[start + i]
  <2>1. IsPage(S, rows, size, q, start, end)
    BY <1>1, <1>2, <1>3, MemoryPageIs
  <2> QED
    BY <2>1 DEF IsPage
<1>5. PICK t : t = SubSeq(rows, 1, end)
  OBVIOUS
<1>6. /\ t \in Seq(S) /\ Len(t) = end /\ \A i \in 1 .. end : t[i] = rows[i]
  <2>1. \A i \in 1 .. end : rows[i] \in S
    BY <1>4
  <2>2. /\ t \in Seq(S) /\ Len(t) = IF 1 <= end THEN end - 1 + 1 ELSE 0
        /\ \A i \in 1 .. end - 1 + 1 : t[i] = rows[1 + i - 1]
    BY <1>4, <1>5, <2>1, SubSeqProperties
  <2>3. Len(t) = end
    BY <1>4, <2>2
  <2>4. ASSUME NEW i \in 1 .. end PROVE t[i] = rows[i]
    <3>1. i \in 1 .. end - 1 + 1 /\ 1 + i - 1 = i
      BY <1>4
    <3> QED
      BY <2>2, <3>1
  <2> QED
    BY <2>2, <2>3, <2>4
<1>7. PICK u : u = Newest(t, size)
  OBVIOUS
<1>8. /\ u \in Seq(S) /\ Len(u) = IF end > size THEN size ELSE end
      /\ \A i \in 1 .. Len(u) : u[i] = t[end - Len(u) + i]
  <2>1. /\ u \in Seq(S) /\ Len(u) = IF Len(t) > size THEN size ELSE Len(t)
        /\ \A i \in 1 .. Len(u) : u[i] = t[Len(t) - Len(u) + i]
    <3>1. /\ Newest(t, size) \in Seq(S)
          /\ Len(Newest(t, size)) = IF Len(t) > size THEN size ELSE Len(t)
          /\ \A i \in 1 .. Len(Newest(t, size)) :
                Newest(t, size)[i] = t[Len(t) - Len(Newest(t, size)) + i]
      <4>1. t \in Seq(S) /\ size \in Nat
        BY <1>6
      <4> QED
        BY <4>1, NewestIs, Zenon
    <3> QED
      BY <1>7, <3>1, Zenon
  <2> QED
    BY <1>6, <2>1
<1>9. Len(u) = end - start
  BY <1>4, <1>8
<1>10. ASSUME NEW i \in 1 .. end - start PROVE u[i] = q[i]
  <2>1. u[i] = t[end - (end - start) + i]
    BY <1>8, <1>9
  <2>2. end - (end - start) + i = start + i /\ start + i \in 1 .. end
    BY <1>4
  <2>3. t[start + i] = rows[start + i]
    BY <1>6, <2>2
  <2> QED
    BY <1>4, <2>1, <2>2, <2>3
<1>11. u = q
  BY <1>4, <1>8, <1>9, <1>10, SeqEqual
<1>12. SqlPage(rows, page, size) = u
  BY <1>2, <1>5, <1>7 DEF SqlPage
<1> QED
  BY <1>3, <1>11, <1>12

\* How many pages of rows are newer than a row.
LEMMA PagesBefore ==
    ASSUME NEW d \in Nat, NEW size \in Nat \ {0}
    PROVE  \E p \in 0 .. d : p * size <= d /\ d < p * size + size
<1> DEFINE p == d \div size
           b == p * size
<1>1. d % size \in 0 .. size - 1 /\ p \in Int /\ d = b + (d % size)
  OBVIOUS
<1>2. p >= 0
  OBVIOUS
<1>3. p <= b
  <2> HIDE DEF p
  <2>1. PICK k \in Nat : size = k + 1
    <3>1. size - 1 \in Nat /\ size = (size - 1) + 1
      OBVIOUS
    <3> QED
      BY <3>1
  <2>2. p * size = p * k + p /\ p * k >= 0
    BY <1>1, <1>2, <2>1
  <2> QED
    BY <1>1, <1>2, <2>1, <2>2
<1>4. p \in Nat /\ b \in Nat /\ b <= d /\ d < b + size
  <2> HIDE DEF p
  <2> QED
    BY <1>1, <1>2
<1> HIDE DEF p
<1>5. p \in 0 .. d
  BY <1>1, <1>2, <1>3, <1>4
<1> QED
  BY <1>4, <1>5

\* Every row is on a page.
LEMMA EveryRowIsOnAPage ==
    ASSUME NEW S, NEW rows \in Seq(S), NEW size \in Nat \ {0}, NEW n \in DOMAIN rows
    PROVE  \E page \in 1 .. Len(rows), m \in 1 .. size :
              /\ m <= Len(MemoryPage(rows, page, size))
              /\ n = Excess(rows, page * size) + m
<1>1. PICK l \in Nat : l = Len(rows)
  OBVIOUS
<1>2. n \in 1 .. l
  BY <1>1
<1>3. PICK d \in Nat : d = l - n
  BY <1>2
<1>4. PICK p \in 0 .. d : p * size <= d /\ d < p * size + size
  BY PagesBefore
<1>5. PICK page \in 1 .. l : page - 1 = p
  <2>1. p + 1 \in 1 .. l /\ (p + 1) - 1 = p
    BY <1>2, <1>3, <1>4
  <2> QED
    BY <2>1
<1>6. PICK b \in Nat : b = (page - 1) * size /\ b = p * size
  BY <1>4, <1>5
<1>7. page * size = b + size
  BY <1>6
<1>8. PICK start : start = Excess(rows, page * size)
  OBVIOUS
<1>9. PICK end : end = Excess(rows, (page - 1) * size)
  OBVIOUS
<1>10. /\ start = IF l > b + size THEN l - (b + size) ELSE 0
       /\ end = IF l > b THEN l - b ELSE 0
  BY <1>1, <1>6, <1>7, <1>8, <1>9 DEF Excess
<1>11. start \in Nat /\ end \in Nat /\ Len(MemoryPage(rows, page, size)) = end - start
  <2>1. PICK q : q = MemoryPage(rows, page, size)
    OBVIOUS
  <2>2. page \in Nat \ {0}
    OBVIOUS
  <2>3. IsPage(S, rows, size, q, start, end)
    BY <1>8, <1>9, <2>1, <2>2, MemoryPageIs
  <2> QED
    BY <2>1, <2>3 DEF IsPage
<1>12. b <= d /\ d < b + size
  BY <1>4, <1>6
<1>13. PICK m : m = n - start
  OBVIOUS
<1>14. start < n /\ n <= end /\ n - start <= size
  <2>1. n + d = l /\ d \in Nat /\ l \in Nat /\ b \in Nat
    BY <1>2, <1>3
  <2>2. CASE l > b + size
    BY <1>10, <1>12, <2>1, <2>2
  <2>3. CASE ~(l > b + size)
    BY <1>10, <1>12, <2>1, <2>3
  <2> QED
    BY <2>2, <2>3
<1>15. m \in 1 .. size /\ m <= end - start /\ n = start + m
  BY <1>2, <1>11, <1>13, <1>14
<1> QED
  BY <1>1, <1>8, <1>11, <1>15

\* What the API shows first are the newest rows of those the memory store would keep.
LEMMA FirstPageIs ==
    ASSUME NEW S, NEW rows \in Seq(S), NEW size \in Nat \ {0}
    PROVE  SqlPage(rows, 1, SizeFor(1, size)) = Newest(Newest(rows, MaxResults), size)
<1> USE StoresAssumption DEF StoresAssumption
<1>1. MaxResults \in Nat \ {0}
  OBVIOUS
<1>2. PICK m \in Nat \ {0} : m = SizeFor(1, size) /\ m = IF size > MaxResults THEN MaxResults ELSE size
  <2>1. SizeFor(1, size) = IF size > MaxResults THEN MaxResults ELSE size
    BY DEF SizeFor
  <2> QED
    BY <1>1, <2>1
<1>3. Excess(rows, (1 - 1) * m) = Len(rows)
  <2>1. (1 - 1) * m = 0 /\ Len(rows) \in Nat
    OBVIOUS
  <2> QED
    BY <2>1 DEF Excess
<1>4. SubSeq(rows, 1, Len(rows)) = rows
  BY SubSeqFull
<1>5. SqlPage(rows, 1, m) = Newest(rows, m)
  BY <1>3, <1>4 DEF SqlPage
<1>6. Newest(Newest(rows, MaxResults), size) = Newest(rows, m)
  BY <1>1, <1>2, NewestLess
<1> QED
  BY <1>2, <1>5, <1>6
-----------------------------------------------------------------------------
(* The events follow the results. *)

Rows == [ok : BOOLEAN, of : Nat]
EventTypes == {"START", "HEALTHY", "UNHEALTHY"}
Alternates(es) == \A n \in 2 .. Len(es) : es[n] # es[n - 1]

\* What the events of an endpoint say of its results.
Follows(rs, es) ==
    /\ rs \in Seq(Rows) /\ es \in Seq(EventTypes) /\ rs # <<>> /\ es # <<>>
    /\ Last(es) = ToEvent(Last(rs).ok) /\ Alternates(es)

\* What an insertion into the SQL store makes of the events and the results.
NewEvents(es, rs, ok) ==
    IF es = <<>> THEN <<"START", ToEvent(ok)>>
    ELSE IF Last(rs).ok = ok THEN <<>> ELSE <<ToEvent(ok)>>

AfterEvents(es, rs, ok) ==
    IF Len(es) > MaxEvents + CleanUp
    THEN Newest(es \o NewEvents(es, rs, ok), MaxEvents) ELSE es \o NewEvents(es, rs, ok)

AfterResults(rs, ok) == ResultsAfter(Append(rs, Row(ok)))

\* The bounds are numbers, the maxima positive.
LEMMA Bounds ==
    /\ MaxResults \in Nat \ {0} /\ MaxEvents \in Nat \ {0} /\ PageSize \in Nat \ {0}
    /\ CleanUp \in Nat /\ MaxInserts \in Nat
BY StoresAssumption DEF StoresAssumption

\* The newest of a list ends as the list does.
LEMMA NewestKeepsLast ==
    ASSUME NEW S, NEW rows \in Seq(S), rows # <<>>, NEW n \in Nat \ {0}
    PROVE  Newest(rows, n) # <<>> /\ Last(Newest(rows, n)) = Last(rows)
<1>1. PICK q : q = Newest(rows, n)
  OBVIOUS
<1>2. PICK l \in Nat : l = Len(rows)
  OBVIOUS
<1>3. /\ q \in Seq(S) /\ Len(q) = IF Len(rows) > n THEN n ELSE Len(rows)
      /\ \A i \in 1 .. Len(q) : q[i] = rows[Len(rows) - Len(q) + i]
  BY <1>1, NewestIs
<1>4. PICK m \in Nat : m = Len(q)
  BY <1>3, LenProperties
<1>5. l > 0 /\ m > 0 /\ l - m + m = l /\ m \in 1 .. m
  BY <1>2, <1>3, <1>4, EmptySeq
<1>6. q[m] = rows[l - m + m]
  BY <1>2, <1>3, <1>4, <1>5
<1>7. q # <<>>
  BY <1>4, <1>5
<1> QED
  BY <1>1, <1>2, <1>4, <1>5, <1>6, <1>7 DEF Last

\* The newest of a list that alternates alternate.
LEMMA NewestAlternates ==
    ASSUME NEW S, NEW es \in Seq(S), Alternates(es), NEW n \in Nat
    PROVE  Alternates(Newest(es, n))
<1>1. PICK q : q = Newest(es, n)
  OBVIOUS
<1>2. PICK l \in Nat : l = Len(es)
  OBVIOUS
<1>3. /\ q \in Seq(S) /\ Len(q) = IF Len(es) > n THEN n ELSE Len(es)
      /\ \A i \in 1 .. Len(q) : q[i] = es[Len(es) - Len(q) + i]
  BY <1>1, NewestIs
<1>4. PICK m \in Nat : m = Len(q)
  BY <1>3, LenProperties
<1>5. m <= l
  BY <1>2, <1>3, <1>4
<1>6. ASSUME NEW i \in 2 .. m PROVE q[i] # q[i - 1]
  <2>1. i \in 1 .. m /\ i - 1 \in 1 .. m
    OBVIOUS
  <2>2. q[i] = es[l - m + i] /\ q[i - 1] = es[l - m + (i - 1)]
    BY <1>2, <1>3, <1>4, <2>1
  <2>3. PICK j : j = l - m + i
    OBVIOUS
  <2>4. j \in 2 .. l /\ l - m + (i - 1) = j - 1
    BY <1>5, <2>3
  <2>5. es[j] # es[j - 1]
    BY <1>2, <2>4 DEF Alternates
  <2> QED
    BY <2>2, <2>3, <2>4, <2>5
<1> QED
  BY <1>1, <1>4, <1>6 DEF Alternates

\* One more result, and the events it makes.
LEMMA InsertionFollows ==
    ASSUME NEW rs \in Seq(Rows), NEW es \in Seq(EventTypes), NEW ok \in BOOLEAN,
           Follows(rs, es) \/ (rs = <<>> /\ es = <<>>)
    PROVE  /\ NewEvents(es, rs, ok) \in Seq(EventTypes)
           /\ Follows(Append(rs, Row(ok)), es \o NewEvents(es, rs, ok))
<1> DEFINE more == NewEvents(es, rs, ok)
           all == es \o more
           rows == Append(rs, Row(ok))
<1>1. Row(ok) \in Rows /\ Row(ok).ok = ok /\ ToEvent(ok) \in EventTypes
      /\ ToEvent(ok) # "START"
  BY DEF Row, Rows, ToEvent, EventTypes
<1>2. rows \in Seq(Rows) /\ rows # <<>> /\ Last(rows) = Row(ok)
  BY <1>1, AppendProperties DEF Last
<1>3. /\ all \in Seq(EventTypes) /\ all # <<>> /\ more \in Seq(EventTypes)
      /\ Last(all) = ToEvent(ok) /\ Alternates(all)
  <2>1. CASE es = <<>>
    <3>1. more = <<"START", ToEvent(ok)>>
      BY <2>1 DEF NewEvents
    <3>2. more \in Seq(EventTypes)
      BY <1>1, <3>1 DEF EventTypes
    <3>3. all = more
      BY <2>1, <3>2, ConcatEmptySeq
    <3> HIDE DEF more, all
    <3>4. /\ Len(all) = 2 /\ all[1] = "START" /\ all[2] = ToEvent(ok) /\ all # <<>>
      BY <3>1, <3>3
    <3>5. Alternates(all)
      BY <1>1, <3>4 DEF Alternates
    <3> QED
      BY <3>2, <3>3, <3>4, <3>5 DEF Last
  <2>2. CASE es # <<>> /\ Last(rs).ok = ok
    <3>1. more = <<>>
      BY <2>2 DEF NewEvents
    <3>2. all = es
      BY <3>1, ConcatEmptySeq
    <3> QED
      BY <2>2, <3>1, <3>2 DEF Follows
  <2>3. CASE es # <<>> /\ Last(rs).ok # ok
    <3>1. more = <<ToEvent(ok)>>
      BY <2>3 DEF NewEvents
    <3>2. Follows(rs, es) /\ Last(es) # ToEvent(ok)
      <4>1. Follows(rs, es)
        BY <2>3
      <4>2. Last(rs).ok \in BOOLEAN
        <5>1. Len(rs) \in Nat /\ Len(rs) # 0 /\ \A i \in 1 .. Len(rs) : rs[i] \in Rows
          BY <4>1, EmptySeq DEF Follows
        <5>2. rs[Len(rs)] \in Rows
          BY <5>1
        <5> QED
          BY <5>2 DEF Last, Rows
      <4> QED
        BY <2>3, <4>1, <4>2 DEF Follows, ToEvent
    <3> HIDE DEF more
    <3>3. all = Append(es, ToEvent(ok))
      BY <1>1, <3>1, AppendIsConcat
    <3> HIDE DEF all
    <3>4. PICK l \in Nat : l = Len(es)
      OBVIOUS
    <3>5. /\ all \in Seq(EventTypes) /\ all # <<>> /\ Len(all) = l + 1
          /\ \A i \in 1 .. l : all[i] = es[i]
          /\ all[l + 1] = ToEvent(ok)
      BY <1>1, <3>3, <3>4, AppendProperties
    <3>6. Alternates(all)
      <4> SUFFICES ASSUME NEW i \in 2 .. l + 1 PROVE all[i] # all[i - 1]
        BY <3>5 DEF Alternates
      <4>1. CASE i <= l
        <5>1. i \in 2 .. l /\ i \in 1 .. l /\ i - 1 \in 1 .. l
          BY <4>1
        <5>2. es[i] # es[i - 1]
          BY <3>2, <3>4, <5>1 DEF Follows, Alternates
        <5> QED
          BY <3>5, <5>1, <5>2
      <4>2. CASE i = l + 1
        <5>1. i - 1 = l /\ l \in 1 .. l
          BY <4>2
        <5>2. all[i - 1] = Last(es)
          BY <3>4, <3>5, <5>1 DEF Last
        <5> QED
          BY <3>2, <3>5, <4>2, <5>2
      <4> QED
        BY <4>1, <4>2
    <3>7. more \in Seq(EventTypes)
      BY <1>1, <3>1
    <3> QED
      BY <3>5, <3>6, <3>7 DEF Last
  <2> QED
    BY <2>1, <2>2, <2>3
<1> QED
  BY <1>1, <1>2, <1>3 DEF Follows

\* So they do when the oldest are cleaned up.
LEMMA NewestFollow ==
    ASSUME NEW rs, NEW es, Follows(rs, es), NEW m \in Nat \ {0}, NEW n \in Nat \ {0}
    PROVE  /\ Follows(Newest(rs, m), es) /\ Follows(rs, Newest(es, n))
           /\ Follows(Newest(rs, m), Newest(es, n))
<1>1. rs \in Seq(Rows) /\ rs # <<>> /\ es \in Seq(EventTypes) /\ es # <<>> /\ Alternates(es)
      /\ Last(es) = ToEvent(Last(rs).ok)
  BY DEF Follows
<1>2. Newest(rs, m) \in Seq(Rows) /\ Newest(rs, m) # <<>> /\ Last(Newest(rs, m)) = Last(rs)
  BY <1>1, NewestIs, NewestKeepsLast
<1>3. Newest(es, n) \in Seq(EventTypes) /\ Newest(es, n) # <<>> /\ Last(Newest(es, n)) = Last(es)
  BY <1>1, NewestIs, NewestKeepsLast
<1>4. Alternates(Newest(es, n))
  BY <1>1, NewestAlternates
<1> QED
  BY <1>1, <1>2, <1>3, <1>4 DEF Follows

\* An insertion into the SQL store.
LEMMA AfterFollows ==
    ASSUME NEW rs \in Seq(Rows), NEW es \in Seq(EventTypes), NEW ok \in BOOLEAN,
           Follows(rs, es) \/ (rs = <<>> /\ es = <<>>)
    PROVE  Follows(AfterResults(rs, ok), AfterEvents(es, rs, ok))
<1>1. PICK rows : rows = Append(rs, Row(ok))
  OBVIOUS
<1>2. PICK all : all = es \o NewEvents(es, rs, ok)
  OBVIOUS
<1>3. Follows(rows, all)
  BY <1>1, <1>2, InsertionFollows
<1>4. AfterResults(rs, ok) \in {rows, Newest(rows, MaxResults)}
  BY <1>1 DEF AfterResults, ResultsAfter
<1>5. AfterEvents(es, rs, ok) \in {all, Newest(all, MaxEvents)}
  BY <1>2 DEF AfterEvents
<1> QED
  BY <1>3, <1>4, <1>5, NewestFollow, Bounds
-----------------------------------------------------------------------------
(* The rows of the endpoint of a suite. *)

\* Row n of ms is the endpoint's row of the result n of its suite.
Complete(rs, ms) ==
    /\ Len(ms) = Len(rs)
    /\ \A n \in 1 .. Len(ms) : ms[n].of = n /\ ms[n].ok = rs[n].ok

\* What an insertion into the SQL store makes of the rows of a suite's endpoint.
AfterMember(ms, rs, ok) ==
    LET rows == Append(rs, Row(ok))
    IN  Cascade(Append(ms, Linked(rows, Len(rows))), Len(rows) - Len(ResultsAfter(rows)))

\* The same when the endpoint's row is skipped.
AfterSkip(ms, rs, ok) ==
    LET rows == Append(rs, Row(ok)) IN Cascade(ms, Len(rows) - Len(ResultsAfter(rows)))

\* Every row of ms is of another result of its suite, in their order.
Ordered(ms) == \A m, n \in 1 .. Len(ms) : m < n => ms[m].of < ms[n].of

Attached(rs, ms) ==
    /\ \A n \in 1 .. Len(ms) : ms[n].of \in 1 .. Len(rs) /\ ms[n].ok = rs[ms[n].of].ok
    /\ Ordered(ms)

\* Complete rows are.
LEMMA CompleteAttached ==
    ASSUME NEW rs \in Seq(Rows), NEW ms \in Seq(Rows), Complete(rs, ms)
    PROVE  Attached(rs, ms)
BY DEF Complete, Attached, Ordered

\* What Cascade leaves of rows in the order of the results: all but the first ones.
LEMMA CascadeIs ==
    ASSUME NEW rows \in Seq(Rows), NEW n \in Nat, Ordered(rows)
    PROVE  \E p \in 0 .. Len(rows) :
              /\ \A i \in 1 .. Len(rows) : rows[i].of > n <=> i > p
              /\ Cascade(rows, n) \in Seq(Rows)
              /\ Len(Cascade(rows, n)) = Len(rows) - p
              /\ \A m \in 1 .. Len(rows) - p :
                    /\ Cascade(rows, n)[m].of = rows[p + m].of - n
                    /\ Cascade(rows, n)[m].ok = rows[p + m].ok
<1>1. PICK l \in Nat : l = Len(rows)
  OBVIOUS
<1>2. DOMAIN rows = 1 .. l /\ \A i \in 1 .. l : rows[i] \in Rows /\ rows[i].of \in Nat
  <2>1. DOMAIN rows = 1 .. l /\ \A i \in 1 .. l : rows[i] \in Rows
    BY <1>1
  <2> QED
    BY <2>1 DEF Rows
<1>3. \A i, j \in 1 .. l : i < j => rows[i].of < rows[j].of
  BY <1>1 DEF Ordered
<1> DEFINE kept == {i \in DOMAIN rows : rows[i].of > n}
           Nth(m) == CHOOSE i \in kept : Cardinality({j \in kept : j <= i}) = m
<1>p. PICK p \in 0 .. l : kept = p + 1 .. l
  <2>1. CASE kept = {}
    BY <2>1
  <2>2. CASE kept # {}
    <3>1. kept \subseteq Nat
      BY <1>2
    <3>2. PICK x \in kept : \A y \in kept : x <= y
      BY <2>2, <3>1, Least
    <3>3. x \in 1 .. l /\ rows[x].of > n
      BY <1>2, <3>2
    <3>4. \A i \in x .. l : i \in kept
      BY <1>2, <1>3, <3>3
    <3>5. x - 1 \in 0 .. l /\ kept = (x - 1) + 1 .. l
      BY <1>2, <3>2, <3>3, <3>4
    <3> QED
      BY <3>5
  <2> QED
    BY <2>1, <2>2
<1>5. PICK c \in Nat : c = l - p
  OBVIOUS
<1>6. Cardinality(kept) = c
  <2>1. p + 1 \in Int /\ l \in Int
    OBVIOUS
  <2>2. Cardinality(p + 1 .. l) = IF p + 1 > l THEN 0 ELSE l - (p + 1) + 1
    BY <2>1, FS_Interval
  <2>3. (IF p + 1 > l THEN 0 ELSE l - (p + 1) + 1) = c
    BY <1>5
  <2> QED
    BY <1>p, <2>2, <2>3
<1>t. \A i \in 1 .. l : rows[i].of > n <=> i > p
  BY <1>2, <1>p
<1> HIDE DEF kept
<1>7. ASSUME NEW i \in kept PROVE Cardinality({j \in kept : j <= i}) = i - p
  <2>1. i \in p + 1 .. l /\ i \in Int
    BY <1>p
  <2>2. {j \in kept : j <= i} = p + 1 .. i
    BY <1>p, <2>1
  <2>3. Cardinality(p + 1 .. i) = IF p + 1 > i THEN 0 ELSE i - (p + 1) + 1
    <3>1. p + 1 \in Int
      OBVIOUS
    <3> QED
      BY <2>1, <3>1, FS_Interval
  <2>4. (IF p + 1 > i THEN 0 ELSE i - (p + 1) + 1) = i - p
    BY <2>1
  <2> QED
    BY <2>2, <2>3, <2>4
<1>8. ASSUME NEW m \in 1 .. c PROVE Nth(m) = p + m
  <2>1. p + m \in kept /\ (p + m) - p = m
    BY <1>p, <1>5
  <2>2. Cardinality({j \in kept : j <= p + m}) = m
    BY <1>7, <2>1
  <2>3. ASSUME NEW i \in kept, Cardinality({j \in kept : j <= i}) = m PROVE i = p + m
    <3>1. i - p = m /\ i \in Int
      BY <1>p, <1>7, <2>3
    <3> QED
      BY <3>1
  <2> QED
    BY <2>1, <2>2, <2>3
<1> HIDE DEF Nth
<1>9. PICK q : q = [m \in 1 .. c |-> [rows[Nth(m)] EXCEPT !.of = @ - n]]
  OBVIOUS
<1>10. q = Cascade(rows, n)
  BY <1>6, <1>9 DEF Cascade, kept, Nth
<1>11. ASSUME NEW m \in 1 .. c
       PROVE  q[m] \in Rows /\ q[m].of = rows[p + m].of - n /\ q[m].ok = rows[p + m].ok
  <2>1. p + m \in 1 .. l /\ p + m > p
    BY <1>5
  <2>2. PICK row : row = rows[p + m]
    OBVIOUS
  <2>3. row \in Rows /\ row.of \in Nat /\ row.of > n
    BY <1>2, <1>t, <2>1, <2>2
  <2>4. q[m] = [row EXCEPT !.of = @ - n]
    BY <1>8, <1>9, <2>2
  <2>5. PICK x \in Nat : x = row.of - n
    BY <2>3
  <2>6. q[m] = [row EXCEPT !.of = x]
    BY <2>4, <2>5
  <2>7. q[m] \in Rows /\ q[m].of = x /\ q[m].ok = row.ok
    BY <2>3, <2>5, <2>6 DEF Rows
  <2> QED
    BY <2>2, <2>5, <2>7
<1>12. q \in [1 .. c -> Rows]
  BY <1>9, <1>11
<1>13. q \in Seq(Rows) /\ Len(q) = c
  BY <1>12
<1>14. /\ Cascade(rows, n) \in Seq(Rows) /\ Len(Cascade(rows, n)) = l - p
       /\ \A m \in 1 .. l - p : /\ Cascade(rows, n)[m].of = rows[p + m].of - n
                                /\ Cascade(rows, n)[m].ok = rows[p + m].ok
  BY <1>5, <1>10, <1>11, <1>13
<1> QED
  BY <1>1, <1>p, <1>t, <1>14

\* What the insertion leaves of the results of a suite.
LEMMA AfterResultsIs ==
    ASSUME NEW rs \in Seq(Rows), NEW ok \in BOOLEAN
    PROVE  /\ AfterResults(rs, ok) \in Seq(Rows)
           /\ Len(AfterResults(rs, ok)) <= Len(rs) + 1
           /\ \A i \in 1 .. Len(AfterResults(rs, ok)) :
                 AfterResults(rs, ok)[i] =
                    Append(rs, Row(ok))[Len(rs) + 1 - Len(AfterResults(rs, ok)) + i]
<1>1. PICK rows : rows = Append(rs, Row(ok))
  OBVIOUS
<1>2. PICK l \in Nat : l = Len(rs)
  OBVIOUS
<1>3. rows \in Seq(Rows) /\ Len(rows) = l + 1
  <2>1. Row(ok) \in Rows
    BY DEF Row, Rows
  <2> QED
    BY <1>1, <1>2, <2>1, AppendProperties
<1>4. PICK q : q = AfterResults(rs, ok)
  OBVIOUS
<1>5. q = rows \/ q = Newest(rows, MaxResults)
  BY <1>1, <1>4 DEF AfterResults, ResultsAfter
<1>6. q \in Seq(Rows) /\ Len(q) <= l + 1 /\ \A i \in 1 .. Len(q) : q[i] = rows[l + 1 - Len(q) + i]
  <2>1. CASE q = rows
    <3>1. \A i \in 1 .. l + 1 : l + 1 - (l + 1) + i = i
      OBVIOUS
    <3> QED
      BY <1>3, <2>1, <3>1
  <2>2. CASE q = Newest(rows, MaxResults)
    <3>1. /\ q \in Seq(Rows)
          /\ Len(q) = IF Len(rows) > MaxResults THEN MaxResults ELSE Len(rows)
          /\ \A i \in 1 .. Len(q) : q[i] = rows[Len(rows) - Len(q) + i]
      <4>1. rows \in Seq(Rows) /\ MaxResults \in Nat
        BY <1>3, Bounds
      <4>2. /\ Newest(rows, MaxResults) \in Seq(Rows)
            /\ Len(Newest(rows, MaxResults)) = IF Len(rows) > MaxResults THEN MaxResults ELSE Len(rows)
            /\ \A i \in 1 .. Len(Newest(rows, MaxResults)) :
                  Newest(rows, MaxResults)[i] = rows[Len(rows) - Len(Newest(rows, MaxResults)) + i]
        BY <4>1, NewestIs, Zenon
      <4> QED
        BY <2>2, <4>2, Zenon
    <3>2. Len(q) <= l + 1
      BY <1>3, <3>1, Bounds
    <3>3. PICK k : k = Len(rows)
      OBVIOUS
    <3>4. k = l + 1
      BY <1>3, <3>3
    <3>5. \A i \in 1 .. Len(q) : q[i] = rows[k - Len(q) + i]
      BY <3>1, <3>3
    <3>6. ASSUME NEW i \in 1 .. Len(q) PROVE q[i] = rows[l + 1 - Len(q) + i]
      <4>1. PICK x : x = k - Len(q) + i
        OBVIOUS
      <4>2. x = l + 1 - Len(q) + i
        BY <3>4, <4>1
      <4>3. q[i] = rows[x]
        BY <3>5, <4>1
      <4> QED
        BY <4>2, <4>3
    <3> QED
      BY <3>1, <3>2, <3>6
  <2> QED
    BY <1>5, <2>1, <2>2
<1> QED
  BY <1>1, <1>2, <1>4, <1>6

\* The rows of the endpoint stay attached to the results that the clean-up leaves.
LEMMA CascadeAttached ==
    ASSUME NEW rs \in Seq(Rows), NEW ok \in BOOLEAN, NEW all \in Seq(Rows),
           Attached(Append(rs, Row(ok)), all),
           NEW p, p = Cascade(all, Len(Append(rs, Row(ok))) - Len(AfterResults(rs, ok)))
    PROVE  /\ p \in Seq(Rows)
           /\ Attached(AfterResults(rs, ok), p)
           /\ Complete(Append(rs, Row(ok)), all) => Complete(AfterResults(rs, ok), p)
           /\ all = <<>> => p = <<>>
<1>1. PICK rows : rows = Append(rs, Row(ok))
  OBVIOUS
<1>2. PICK l \in Nat : l = Len(rs)
  OBVIOUS
<1>3. rows \in Seq(Rows) /\ Len(rows) = l + 1
  <2>1. Row(ok) \in Rows
    BY DEF Row, Rows
  <2> QED
    BY <1>1, <1>2, <2>1, AppendProperties
<1>4. PICK q : q = AfterResults(rs, ok)
  OBVIOUS
<1>5. PICK c : c = Len(q)
  OBVIOUS
<1>6. /\ q \in Seq(Rows) /\ c \in Nat /\ c <= l + 1
      /\ \A i \in 1 .. c : q[i] = rows[l + 1 - c + i]
  BY <1>1, <1>2, <1>4, <1>5, AfterResultsIs, LenProperties
<1>7. PICK n \in Nat : n = l + 1 - c
  BY <1>6
<1>8. p = Cascade(all, n)
  BY <1>1, <1>3, <1>4, <1>5, <1>7
<1>9. PICK la \in Nat : la = Len(all)
  OBVIOUS
<1>10. /\ \A i \in 1 .. la : all[i].of \in 1 .. l + 1 /\ all[i].ok = rows[all[i].of].ok
       /\ \A i, j \in 1 .. la : i < j => all[i].of < all[j].of
       /\ Ordered(all)
  BY <1>1, <1>3, <1>9 DEF Attached, Ordered
<1>11. PICK d \in 0 .. la :
          /\ \A i \in 1 .. la : all[i].of > n <=> i > d
          /\ p \in Seq(Rows) /\ Len(p) = la - d
          /\ \A m \in 1 .. la - d : p[m].of = all[d + m].of - n /\ p[m].ok = all[d + m].ok
  <2>1. \E d \in 0 .. Len(all) :
           /\ \A i \in 1 .. Len(all) : all[i].of > n <=> i > d
           /\ Cascade(all, n) \in Seq(Rows) /\ Len(Cascade(all, n)) = Len(all) - d
           /\ \A m \in 1 .. Len(all) - d : /\ Cascade(all, n)[m].of = all[d + m].of - n
                                           /\ Cascade(all, n)[m].ok = all[d + m].ok
    BY <1>10, CascadeIs, Zenon
  <2>2. PICK d \in 0 .. Len(all) :
           /\ \A i \in 1 .. Len(all) : all[i].of > n <=> i > d
           /\ Cascade(all, n) \in Seq(Rows) /\ Len(Cascade(all, n)) = Len(all) - d
           /\ \A m \in 1 .. Len(all) - d : /\ Cascade(all, n)[m].of = all[d + m].of - n
                                           /\ Cascade(all, n)[m].ok = all[d + m].ok
    BY <2>1
  <2>3. d \in 0 .. la
    BY <1>9
  <2>4. /\ \A i \in 1 .. la : all[i].of > n <=> i > d
        /\ p \in Seq(Rows) /\ Len(p) = la - d
        /\ \A m \in 1 .. la - d : p[m].of = all[d + m].of - n /\ p[m].ok = all[d + m].ok
    BY <1>8, <1>9, <2>2, Zenon
  <2> QED
    BY <2>3, <2>4
<1>12. ASSUME NEW m \in 1 .. la - d
       PROVE  p[m].of \in 1 .. c /\ p[m].ok = q[p[m].of].ok
  <2>1. PICK x : x = all[d + m].of
    OBVIOUS
  <2>2. d + m \in 1 .. la /\ d + m > d
    OBVIOUS
  <2>3. x \in 1 .. l + 1 /\ x > n /\ all[d + m].ok = rows[x].ok
    BY <1>10, <1>11, <2>1, <2>2
  <2>4. p[m].of = x - n /\ p[m].ok = rows[x].ok
    BY <1>11, <2>1, <2>3
  <2>5. x - n \in 1 .. c /\ l + 1 - c + (x - n) = x
    BY <1>6, <1>7, <2>3
  <2>6. q[x - n] = rows[x]
    BY <1>6, <2>5
  <2> QED
    BY <2>4, <2>5, <2>6
<1>13. ASSUME NEW i \in 1 .. la - d, NEW j \in 1 .. la - d, i < j PROVE p[i].of < p[j].of
  <2>1. d + i \in 1 .. la /\ d + j \in 1 .. la /\ d + i < d + j
    BY <1>13
  <2>2. all[d + i].of < all[d + j].of /\ all[d + i].of \in Int /\ all[d + j].of \in Int
    BY <1>10, <2>1
  <2>3. p[i].of = all[d + i].of - n /\ p[j].of = all[d + j].of - n
    BY <1>11
  <2>4. PICK x \in Int : x = all[d + i].of
    BY <2>2
  <2>5. PICK y \in Int : y = all[d + j].of
    BY <2>2
  <2>6. x < y /\ p[i].of = x - n /\ p[j].of = y - n
    BY <2>2, <2>3, <2>4, <2>5
  <2> QED
    BY <2>6
<1>14. Attached(q, p)
  BY <1>5, <1>11, <1>12, <1>13 DEF Attached, Ordered
<1>15. ASSUME Complete(rows, all) PROVE Complete(q, p)
  <2>1. la = l + 1 /\ \A i \in 1 .. la : all[i].of = i
    BY <1>3, <1>9, <1>15 DEF Complete
  <2>2. \A i \in 1 .. la : i > n <=> i > d
    BY <1>11, <2>1
  <2>3. d = n
    <3>1. n \in 0 .. la
      BY <1>6, <1>7, <2>1
    <3>2. CASE n < d
      <4>1. d \in 1 .. la /\ d > n
        BY <3>1, <3>2
      <4> QED
        BY <2>2, <4>1
    <3>3. CASE d < n
      <4>1. n \in 1 .. la /\ n > d
        BY <3>1, <3>3
      <4> QED
        BY <2>2, <4>1
    <3> QED
      BY <3>1, <3>2, <3>3
  <2>4. la - d = c
    BY <1>6, <1>7, <2>1, <2>3
  <2>5. ASSUME NEW m \in 1 .. c PROVE p[m].of = m /\ p[m].ok = q[m].ok
    <3>1. d + m \in 1 .. la /\ (d + m) - n = m /\ m \in 1 .. la - d
      BY <2>1, <2>3, <2>4
    <3>2. p[m].of = m
      BY <1>11, <2>1, <3>1
    <3> QED
      BY <1>12, <3>1, <3>2
  <2> QED
    BY <1>5, <1>11, <2>4, <2>5 DEF Complete
<1>16. ASSUME all = <<>> PROVE p = <<>>
  <2>1. Len(p) = 0
    BY <1>9, <1>11, <1>16
  <2> QED
    BY <1>11, <2>1, EmptySeq
<1> QED
  BY <1>1, <1>4, <1>11, <1>14, <1>15, <1>16

\* The rows of the endpoint after an insertion and its clean-up.
LEMMA AfterMemberIs ==
    ASSUME NEW rs \in Seq(Rows), NEW ms \in Seq(Rows), NEW ok \in BOOLEAN, Attached(rs, ms)
    PROVE  /\ AfterMember(ms, rs, ok) \in Seq(Rows)
           /\ Attached(AfterResults(rs, ok), AfterMember(ms, rs, ok))
           /\ Complete(rs, ms) => Complete(AfterResults(rs, ok), AfterMember(ms, rs, ok))
<1>1. PICK rows : rows = Append(rs, Row(ok))
  OBVIOUS
<1>2. PICK l \in Nat : l = Len(rs)
  OBVIOUS
<1>3. /\ rows \in Seq(Rows) /\ Len(rows) = l + 1 /\ rows[l + 1] = Row(ok)
      /\ \A i \in 1 .. l : rows[i] = rs[i]
  <2>1. Row(ok) \in Rows
    BY DEF Row, Rows
  <2> QED
    BY <1>1, <1>2, <2>1, AppendProperties
<1>4. Linked(rows, l + 1) = [ok |-> ok, of |-> l + 1]
  BY <1>3 DEF Linked, Last, Row
<1>5. PICK all : all = Append(ms, Linked(rows, l + 1))
  OBVIOUS
<1>6. Linked(rows, l + 1) \in Rows /\ Linked(rows, l + 1).of = l + 1 /\ Linked(rows, l + 1).ok = ok
  BY <1>4 DEF Rows
<1>7. PICK lm \in Nat : lm = Len(ms)
  OBVIOUS
<1>8. /\ \A n \in 1 .. lm : ms[n].of \in 1 .. l /\ ms[n].ok = rs[ms[n].of].ok
      /\ \A m, n \in 1 .. lm : m < n => ms[m].of < ms[n].of
  BY <1>2, <1>7 DEF Attached, Ordered
<1>9. /\ all \in Seq(Rows) /\ Len(all) = lm + 1 /\ all[lm + 1] = Linked(rows, l + 1)
      /\ \A i \in 1 .. lm : all[i] = ms[i]
  BY <1>5, <1>6, <1>7, AppendProperties
<1>10. Attached(rows, all)
  <2>1. ASSUME NEW i \in 1 .. lm + 1
        PROVE  all[i].of \in 1 .. l + 1 /\ all[i].ok = rows[all[i].of].ok
    <3>1. CASE i \in 1 .. lm
      <4>1. all[i].of \in 1 .. l /\ all[i].ok = rs[all[i].of].ok
        BY <1>8, <1>9, <3>1
      <4> QED
        BY <1>3, <4>1
    <3>2. CASE i = lm + 1
      BY <1>3, <1>6, <1>9, <3>2 DEF Row
    <3> QED
      BY <3>1, <3>2
  <2>2. ASSUME NEW i \in 1 .. lm + 1, NEW j \in 1 .. lm + 1, i < j PROVE all[i].of < all[j].of
    <3>1. i \in 1 .. lm
      BY <2>2
    <3>2. CASE j \in 1 .. lm
      BY <1>8, <1>9, <2>2, <3>1, <3>2
    <3>3. CASE j = lm + 1
      BY <1>6, <1>8, <1>9, <3>1, <3>3
    <3> QED
      BY <3>2, <3>3
  <2> QED
    BY <1>3, <1>9, <2>1, <2>2 DEF Attached, Ordered
<1>11. Complete(rs, ms) => Complete(rows, all)
  <2> SUFFICES ASSUME Complete(rs, ms) PROVE Complete(rows, all)
    OBVIOUS
  <2>1. lm = l /\ \A i \in 1 .. l : ms[i].of = i /\ ms[i].ok = rs[i].ok
    BY <1>2, <1>7 DEF Complete
  <2>2. \A i \in 1 .. l : all[i].of = i /\ all[i].ok = rows[i].ok
    BY <1>3, <1>9, <2>1
  <2>3. all[l + 1].of = l + 1 /\ all[l + 1].ok = rows[l + 1].ok
    BY <1>3, <1>6, <1>9, <2>1 DEF Row
  <2> QED
    BY <1>3, <1>9, <2>1, <2>2, <2>3 DEF Complete
<1>12. PICK p : p = Cascade(all, Len(rows) - Len(AfterResults(rs, ok)))
  OBVIOUS
<1>13. AfterMember(ms, rs, ok) = p
  BY <1>1, <1>3, <1>5, <1>12 DEF AfterMember, AfterResults
<1>14. /\ p \in Seq(Rows) /\ Attached(AfterResults(rs, ok), p)
       /\ Complete(rows, all) => Complete(AfterResults(rs, ok), p)
  BY <1>1, <1>9, <1>10, <1>12, CascadeAttached
<1> QED
  BY <1>11, <1>13, <1>14

\* The same when it was skipped.
LEMMA AfterSkipIs ==
    ASSUME NEW rs \in Seq(Rows), NEW ms \in Seq(Rows), NEW ok \in BOOLEAN, Attached(rs, ms)
    PROVE  /\ AfterSkip(ms, rs, ok) \in Seq(Rows)
           /\ Attached(AfterResults(rs, ok), AfterSkip(ms, rs, ok))
           /\ ms = <<>> => AfterSkip(ms, rs, ok) = <<>>
<1>1. PICK rows : rows = Append(rs, Row(ok))
  OBVIOUS
<1>2. Row(ok) \in Rows
  BY DEF Row, Rows
<1>3. rows \in Seq(Rows) /\ Len(rows) = Len(rs) + 1 /\ \A i \in 1 .. Len(rs) : rows[i] = rs[i]
  BY <1>1, <1>2, AppendProperties
<1>4. Attached(rows, ms)
  <2>1. ASSUME NEW n \in 1 .. Len(ms) PROVE ms[n].of \in 1 .. Len(rows) /\ ms[n].ok = rows[ms[n].of].ok
    <3>1. ms[n].of \in 1 .. Len(rs) /\ ms[n].ok = rs[ms[n].of].ok
      BY DEF Attached
    <3> QED
      BY <1>3, <3>1
  <2> QED
    BY <2>1 DEF Attached
<1>5. PICK p : p = Cascade(ms, Len(rows) - Len(AfterResults(rs, ok)))
  OBVIOUS
<1>6. AfterSkip(ms, rs, ok) = p
  BY <1>1, <1>5 DEF AfterSkip, AfterResults
<1>7. /\ p \in Seq(Rows) /\ Attached(AfterResults(rs, ok), p)
      /\ ms = <<>> => p = <<>>
  BY <1>1, <1>4, <1>5, CascadeAttached
<1> QED
  BY <1>6, <1>7
-----------------------------------------------------------------------------
(* The inductive invariant. *)

Transactions(k) ==
    [step : {"found", "recorded", "inserted", "refreshed"}, key : {k}, ok : BOOLEAN,
     created : SUBSET Written(k), wrote : BOOLEAN, old : BOOLEAN,
     results : [Written(k) -> Seq(Rows)], events : Seq(EventTypes)]

Typed ==
    /\ kind \in Kinds
    /\ known \subseteq Keys
    /\ results \in [Keys -> Seq(Rows)]
    /\ events \in [Keys -> Seq(EventTypes)]
    /\ txs \in [Writers -> {Idle} \cup UNION {Transactions(k) : k \in Endpoints \cup Suites}]

\* What is stored of an endpoint and of a suite.
HistoryOf(k) ==
    IF k \in known THEN Follows(results[k], events[k]) ELSE results[k] = <<>> /\ events[k] = <<>>

SuiteHistoryOf(s) ==
    /\ events[s] = <<>>
    /\ s \notin known => results[s] = <<>>
    /\ kind # "memory" =>
          /\ Attached(results[s], results[MemberOf[s]])
          /\ s \notin incomplete => Complete(results[s], results[MemberOf[s]])
          /\ MemberOf[s] \notin known => results[MemberOf[s]] = <<>>

Histories ==
    /\ \A k \in Endpoints : HistoryOf(k)
    /\ \A s \in Suites : SuiteHistoryOf(s)

\* What a transaction holds, of an endpoint and of a suite.
EndpointTx(tx) ==
    LET k == tx.key
    IN  k \in SeenKnown(tx) =>
            /\ tx.results[k] = IF tx.step \in {"found", "recorded"} THEN results[k]
                               ELSE AfterResults(results[k], tx.ok)
            /\ tx.events = IF tx.step = "found" THEN events[k]
                           ELSE AfterEvents(events[k], results[k], tx.ok)

SuiteTx(tx) ==
    LET s == tx.key
        e == MemberOf[s]
    IN  /\ tx.step \in {"found", "refreshed"}
        /\ tx.events = <<>>
        /\ tx.step = "refreshed" /\ s \in SeenKnown(tx) =>
              /\ tx.results[s] = AfterResults(results[s], tx.ok)
              /\ \/ /\ e \in tx.created
                    /\ tx.results[e] = AfterMember(results[e], results[s], tx.ok)
                 \/ /\ kind = "sqlite" /\ s \in incomplete
                    /\ tx.results[e] = AfterSkip(results[e], results[s], tx.ok)

TxOk(tx) ==
    /\ kind # "memory"
    /\ tx.key \in tx.created => tx.key \notin known
    /\ tx.wrote => tx.key \in SeenKnown(tx)
    /\ tx.step \in {"inserted", "refreshed"} => tx.wrote
    /\ tx.key \in Endpoints => EndpointTx(tx)
    /\ tx.key \in Suites => SuiteTx(tx)

Sound ==
    /\ \A w \in Writers : Open(w) => TxOk(txs[w])
    /\ \A v, w \in Writers : Open(v) /\ Open(w) /\ txs[v].key = txs[w].key => v = w

Inv == Typed /\ Histories /\ Sound

\* What a transaction consists of.
LEMMA TransactionIs ==
    ASSUME NEW k \in Endpoints \cup Suites, NEW tx \in Transactions(k)
    PROVE  /\ tx.step \in {"found", "recorded", "inserted", "refreshed"}
           /\ tx.key = k /\ tx.ok \in BOOLEAN /\ tx.created \subseteq Written(k)
           /\ tx.wrote \in BOOLEAN /\ tx.old \in BOOLEAN
           /\ tx.results \in [Written(k) -> Seq(Rows)]
           /\ tx.events \in Seq(EventTypes)
           /\ tx.step # "idle"
BY DEF Transactions

\* A writer either has no transaction or one of a key.
LEMMA OpenTx ==
    ASSUME Typed, NEW w \in Writers
    PROVE  /\ Open(w) => /\ txs[w].key \in Endpoints \cup Suites
                         /\ txs[w] \in Transactions(txs[w].key)
           /\ ~Open(w) => txs[w] = Idle
<1>1. txs[w] \in {Idle} \cup UNION {Transactions(k) : k \in Endpoints \cup Suites}
  BY DEF Typed
<1>2. CASE txs[w] = Idle
  BY <1>2 DEF Open, Idle
<1>3. ASSUME NEW k \in Endpoints \cup Suites, txs[w] \in Transactions(k)
      PROVE  txs[w].key = k /\ Open(w)
  BY <1>3, TransactionIs DEF Open
<1> QED
  BY <1>1, <1>2, <1>3

\* The keys that are written with a key are its own.
LEMMA WrittenIs ==
    ASSUME NEW k \in Endpoints \cup Suites
    PROVE  /\ k \in Written(k) /\ Written(k) \subseteq Keys
           /\ k \in Endpoints => Written(k) = {k}
           /\ k \in Suites => /\ k \notin Endpoints
                              /\ Written(k) = {k, MemberOf[k]} /\ MemberOf[k] \in Members
                              /\ MemberOf[k] # k
           /\ \A j \in Endpoints \cup Suites : j # k => Written(k) \cap Written(j) = {}
<1>1. /\ Endpoints \cap Members = {} /\ Suites \cap (Endpoints \cup Members) = {}
      /\ \A s \in Suites : MemberOf[s] \in Members
      /\ \A s, t \in Suites : MemberOf[s] = MemberOf[t] => s = t
  BY StoresAssumption DEF StoresAssumption
<1> QED
  BY <1>1 DEF Written, Keys

\* A transaction whose rows stay as they are, if its key is still there.
LEMMA TxStays ==
    ASSUME NEW k \in Endpoints \cup Suites, NEW tx \in Transactions(k), TxOk(tx), kind' = kind,
           kind = "sqlite" => incomplete \subseteq incomplete',
           k \in SeenKnown(tx)' => /\ k \in SeenKnown(tx)
                                   /\ k \in Endpoints \/ tx.step = "refreshed" =>
                                         /\ \A x \in Written(k) : results'[x] = results[x]
                                         /\ events'[k] = events[k],
           k \in tx.created => k \notin known',
           tx.wrote => k \in SeenKnown(tx)'
    PROVE  TxOk(tx)'
<1>1. tx.key = k
  BY TransactionIs
<1>2. ASSUME k \in Endpoints PROVE EndpointTx(tx)'
  <2>1. k \in Written(k) /\ EndpointTx(tx)
    BY <1>1, <1>2, WrittenIs DEF TxOk
  <2> QED
    BY <1>1, <1>2, <2>1 DEF EndpointTx
<1>3. ASSUME k \in Suites PROVE SuiteTx(tx)'
  <2>1. k \in Written(k) /\ MemberOf[k] \in Written(k) /\ SuiteTx(tx)
    BY <1>1, <1>3, WrittenIs DEF TxOk
  <2> QED
    BY <1>1, <2>1 DEF SuiteTx
<1> QED
  BY <1>1, <1>2, <1>3 DEF TxOk

\* A transaction of which nothing changes.
LEMMA TxSame ==
    ASSUME NEW tx, TxOk(tx), UNCHANGED <<kind, known, results, events, incomplete>>
    PROVE  TxOk(tx)'
BY DEF TxOk, EndpointTx, SuiteTx, SeenKnown

\* The same of a transaction of a closed store.
LEMMA TxOld ==
    ASSUME NEW k \in Endpoints \cup Suites, NEW tx \in Transactions(k)
    PROVE  /\ [tx EXCEPT !.old = TRUE] \in Transactions(k)
           /\ TxOk(tx)' => TxOk([tx EXCEPT !.old = TRUE])'
<1>1. PICK u : u = [tx EXCEPT !.old = TRUE]
  OBVIOUS
<1>2. /\ u \in Transactions(k)
      /\ u.step = tx.step /\ u.key = tx.key /\ u.ok = tx.ok /\ u.created = tx.created
      /\ u.wrote = tx.wrote /\ u.results = tx.results /\ u.events = tx.events
  BY <1>1 DEF Transactions
<1>3. SeenKnown(u)' = SeenKnown(tx)'
  BY <1>2 DEF SeenKnown
<1>4. EndpointTx(tx)' => EndpointTx(u)'
  BY <1>2, <1>3 DEF EndpointTx
<1>5. SuiteTx(tx)' => SuiteTx(u)'
  BY <1>2, <1>3 DEF SuiteTx
<1> QED
  BY <1>1, <1>2, <1>3, <1>4, <1>5 DEF TxOk

\* What is stored of a key stays when its rows do.
LEMMA HistoryStays ==
    ASSUME Histories, kind' = kind, NEW k \in Endpoints \cup Suites,
           k \in Suites => (k \in incomplete => k \in incomplete'),
           \A x \in Written(k) : results'[x] = results[x] /\ (x \in known' <=> x \in known),
           events'[k] = events[k]
    PROVE  /\ k \in Endpoints => HistoryOf(k)'
           /\ k \in Suites => SuiteHistoryOf(k)'
<1>1. k \in Written(k) /\ (k \in Suites => MemberOf[k] \in Written(k))
  BY WrittenIs
<1> QED
  BY <1>1 DEF Histories, HistoryOf, SuiteHistoryOf

\* The invariant at the start.
LEMMA InitInv == Init => Inv
<1> SUFFICES ASSUME Init PROVE Inv
  OBVIOUS
<1> USE DEF Init
<1>1. Typed
  BY DEF Typed
<1>2. ASSUME NEW k \in Keys PROVE results[k] = <<>> /\ events[k] = <<>> /\ k \notin known
  OBVIOUS
<1>3. Complete(<<>>, <<>>) /\ Attached(<<>>, <<>>)
  BY DEF Complete, Attached, Ordered
<1>4. ASSUME NEW s \in Suites PROVE SuiteHistoryOf(s)
  <2>1. s \in Keys /\ MemberOf[s] \in Keys
    BY WrittenIs DEF Keys
  <2> QED
    BY <1>2, <1>3, <2>1 DEF SuiteHistoryOf
<1>5. ASSUME NEW k \in Endpoints PROVE HistoryOf(k)
  BY <1>2 DEF HistoryOf, Keys
<1>6. Sound
  BY DEF Sound, Open, Idle
<1> QED
  BY <1>1, <1>4, <1>5, <1>6 DEF Inv, Histories
-----------------------------------------------------------------------------
(* The steps of a transaction that nobody else sees. *)

\* Such a step leaves a transaction that is sound, or none.
LEMMA PrivateKeeps ==
    ASSUME Inv, NEW w \in Writers, NEW tx,
           UNCHANGED <<kind, known, results, events>>, incomplete \subseteq incomplete',
           txs' = [txs EXCEPT ![w] = tx],
           \/ tx = Idle
           \/ \E k \in Endpoints \cup Suites :
                 /\ tx \in Transactions(k) /\ TxOk(tx)'
                 /\ \A v \in Writers : v # w /\ Open(v) => txs[v].key # k
    PROVE  Inv'
<1>1. Typed /\ Histories /\ Sound
  BY DEF Inv
<1>2. tx \in {Idle} \cup UNION {Transactions(k) : k \in Endpoints \cup Suites}
  OBVIOUS
<1>3. Typed'
  BY <1>1, <1>2 DEF Typed
<1>4. /\ txs'[w] = tx
      /\ \A v \in Writers : v # w => txs'[v] = txs[v] /\ (Open(v)' <=> Open(v))
  BY <1>1 DEF Typed, Open
<1>5. Histories'
  <2>1. ASSUME NEW k \in Endpoints PROVE HistoryOf(k)'
    BY <1>1, <2>1, HistoryStays
  <2>2. ASSUME NEW s \in Suites PROVE SuiteHistoryOf(s)'
    BY <1>1, <2>2, HistoryStays
  <2> QED
    BY <2>1, <2>2 DEF Histories
<1>6. ASSUME NEW v \in Writers, v # w, Open(v)' PROVE TxOk(txs[v])'
  <2>1. PICK u : u = txs[v]
    OBVIOUS
  <2>2. PICK k \in Endpoints \cup Suites : k = u.key /\ u \in Transactions(k)
    BY <1>1, <1>4, <1>6, <2>1, OpenTx
  <2>3. TxOk(u)
    BY <1>1, <1>4, <1>6, <2>1 DEF Sound
  <2>4. TxOk(u)'
    <3>1. SeenKnown(u)' = SeenKnown(u)
      BY DEF SeenKnown
    <3>2. (k \in u.created => k \notin known) /\ (u.wrote => k \in SeenKnown(u))
      BY <2>2, <2>3 DEF TxOk
    <3> QED
      BY <2>2, <2>3, <3>1, <3>2, TxStays
  <2> QED
    BY <1>4, <1>6, <2>1, <2>4
<1>7. ASSUME Open(w)'
      PROVE  TxOk(tx)' /\ \A v \in Writers : v # w /\ Open(v) => txs[v].key # tx.key
  <2>1. tx # Idle
    BY <1>4, <1>7 DEF Open, Idle
  <2>2. PICK k \in Endpoints \cup Suites :
           /\ tx \in Transactions(k) /\ TxOk(tx)'
           /\ \A v \in Writers : v # w /\ Open(v) => txs[v].key # k
    BY <2>1
  <2>3. tx.key = k
    BY <2>2, TransactionIs
  <2> QED
    BY <2>2, <2>3
<1>8. ASSUME NEW v \in Writers, Open(v)' PROVE TxOk(txs[v])'
  BY <1>4, <1>6, <1>7, <1>8
<1>9. ASSUME NEW u \in Writers, NEW v \in Writers, Open(u)', Open(v)', txs'[u].key = txs'[v].key
      PROVE  u = v
  BY <1>1, <1>4, <1>7, <1>9 DEF Sound
<1> QED
  BY <1>3, <1>5, <1>8, <1>9 DEF Inv, Sound

\* A transaction begins.
LEMMA BeginKeeps ==
    ASSUME Inv, NEW w \in Writers, NEW k \in Endpoints \cup Suites, NEW ok \in BOOLEAN,
           Begin(w, k, ok)
    PROVE  Inv'
<1>1. Typed /\ Histories /\ Sound
  BY DEF Inv
<1>2. PICK tx : tx = [step |-> "found", key |-> k, ok |-> ok, created |-> {k} \ known,
                      wrote |-> FALSE, old |-> FALSE,
                      results |-> [x \in Written(k) |-> results[x]], events |-> events[k]]
  OBVIOUS
<1>3. Written(k) \subseteq Keys /\ k \in Written(k) /\ k \in Keys
  BY WrittenIs
<1>4. tx \in Transactions(k)
  <2>1. [x \in Written(k) |-> results[x]] \in [Written(k) -> Seq(Rows)]
    BY <1>1, <1>3 DEF Typed
  <2>2. events[k] \in Seq(EventTypes)
    BY <1>1, <1>3 DEF Typed
  <2>3. {k} \ known \in SUBSET Written(k)
    BY <1>3
  <2> QED
    BY <1>2, <2>1, <2>2, <2>3 DEF Transactions
<1>5. TxOk(tx)
  <2>1. /\ tx.step = "found" /\ tx.key = k /\ tx.created = {k} \ known /\ tx.wrote = FALSE
        /\ tx.events = events[k] /\ \A x \in Written(k) : tx.results[x] = results[x]
    BY <1>2
  <2>2. EndpointTx(tx)
    BY <1>3, <2>1 DEF EndpointTx
  <2>3. ASSUME k \in Suites PROVE SuiteTx(tx)
    <3>1. events[k] = <<>>
      BY <1>1, <2>3 DEF Histories, SuiteHistoryOf
    <3> QED
      BY <2>1, <3>1 DEF SuiteTx
  <2> QED
    BY <2>1, <2>2, <2>3 DEF TxOk, Begin
<1>6. txs' = [txs EXCEPT ![w] = tx] /\ UNCHANGED <<kind, known, results, events, incomplete>>
  BY <1>2 DEF Begin
<1>7. \A v \in Writers : v # w /\ Open(v) => txs[v].key # k
  BY DEF Begin
<1>8. TxOk(tx)'
  BY <1>5, <1>6, TxSame
<1> QED
  BY <1>4, <1>6, <1>7, <1>8, PrivateKeeps

\* A transaction ends without a trace.
LEMMA RollbackKeeps ==
    ASSUME Inv, NEW w \in Writers, Rollback(w), UNCHANGED <<kind, known, results, events, incomplete>>
    PROVE  Inv'
BY PrivateKeeps DEF Rollback

\* A transaction of an endpoint or of a suite takes a step.
LEMMA TxStepKeeps ==
    ASSUME Inv, NEW w \in Writers, Open(w), NEW tx, txs' = [txs EXCEPT ![w] = tx],
           UNCHANGED <<kind, known, results, events>>, incomplete \subseteq incomplete',
           tx \in Transactions(txs[w].key),
           TxOk(tx)' \/ (TxOk(tx) /\ incomplete' = incomplete)
    PROVE  Inv'
<1>1. PICK k : k = txs[w].key
  OBVIOUS
<1>2. k \in Endpoints \cup Suites
  BY <1>1, OpenTx DEF Inv
<1>3. \A v \in Writers : v # w /\ Open(v) => txs[v].key # k
  BY <1>1 DEF Inv, Sound
<1>4. TxOk(tx)'
  BY TxSame
<1> QED
  BY <1>1, <1>2, <1>3, <1>4, PrivateKeeps

\* InsertEvents
LEMMA InsertEventsKeeps ==
    ASSUME Inv, NEW w \in Writers, InsertEvents(w)
    PROVE  Inv'
<1>1. Typed /\ Histories /\ Sound
  BY DEF Inv
<1>2. PICK tx : tx = txs[w]
  OBVIOUS
<1>3. tx.step = "found" /\ tx.key \in Endpoints /\ UNCHANGED <<kind, known, results, events, incomplete>>
  BY <1>2 DEF InsertEvents
<1>4. Open(w)
  BY <1>2, <1>3 DEF Open
<1>5. PICK k \in Endpoints : k = tx.key /\ tx \in Transactions(k)
  BY <1>1, <1>2, <1>3, <1>4, OpenTx
<1>6. CASE k \notin SeenKnown(tx)
  <2>1. Rollback(w)
    BY <1>2, <1>5, <1>6 DEF InsertEvents
  <2> QED
    BY <1>3, <2>1, RollbackKeeps
<1>7. CASE k \in SeenKnown(tx)
  <2>1. PICK u : u = [tx EXCEPT !.step = "recorded", !.events = EventsAfter(tx),
                                !.wrote = Changes(tx) # <<>>]
    OBVIOUS
  <2>2. txs' = [txs EXCEPT ![w] = u]
    <3>1. txs' = [txs EXCEPT ![w].step = "recorded", ![w].events = EventsAfter(tx),
                             ![w].wrote = Changes(tx) # <<>>]
      BY <1>2, <1>5, <1>7 DEF InsertEvents
    <3> QED
      BY <1>1, <1>2, <2>1, <3>1 DEF Typed
  <2>3. TxOk(tx)
    BY <1>1, <1>2, <1>4 DEF Sound
  <2>4. tx.results[k] = results[k] /\ tx.events = events[k]
    BY <1>3, <1>5, <1>7, <2>3 DEF TxOk, EndpointTx
  <2>5. HistoryOf(k)
    BY <1>1 DEF Histories
  <2>6. Changes(tx) = NewEvents(events[k], results[k], tx.ok)
    BY <1>5, <2>4 DEF Changes, NewEvents
  <2>7. EventsAfter(tx) = AfterEvents(events[k], results[k], tx.ok)
    BY <2>4, <2>6 DEF EventsAfter, AfterEvents, TooManyEvents
  <2>8. EventsAfter(tx) \in Seq(EventTypes)
    <3>1. results[k] \in Seq(Rows) /\ events[k] \in Seq(EventTypes) /\ tx.ok \in BOOLEAN
      BY <1>1, <1>5, TransactionIs DEF Typed, Keys
    <3>2. Follows(results[k], events[k]) \/ (results[k] = <<>> /\ events[k] = <<>>)
      BY <2>5 DEF HistoryOf
    <3> QED
      BY <2>7, <3>1, <3>2, AfterFollows DEF Follows
  <2>9. /\ u \in Transactions(k)
        /\ u.step = "recorded" /\ u.key = k /\ u.created = tx.created /\ u.ok = tx.ok
        /\ u.results = tx.results /\ u.events = EventsAfter(tx)
    <3>1. (Changes(tx) # <<>>) \in BOOLEAN
      OBVIOUS
    <3> QED
      BY <1>5, <2>1, <2>8, <3>1 DEF Transactions
  <2>10. SeenKnown(u) = SeenKnown(tx)
    BY <2>9 DEF SeenKnown
  <2>11. TxOk(u)
    <3>1. EndpointTx(u)
      BY <1>5, <2>4, <2>7, <2>9 DEF EndpointTx
    <3>2. k \notin Suites
      BY StoresAssumption DEF StoresAssumption
    <3> QED
      BY <1>5, <1>7, <2>3, <2>9, <2>10, <3>1, <3>2 DEF TxOk
  <2> QED
    BY <1>2, <1>3, <1>4, <1>5, <2>2, <2>9, <2>11, TxStepKeeps
<1> QED
  BY <1>6, <1>7

\* InsertResult
LEMMA InsertResultKeeps ==
    ASSUME Inv, NEW w \in Writers, InsertResult(w)
    PROVE  Inv'
<1>1. Typed /\ Histories /\ Sound
  BY DEF Inv
<1>2. PICK tx : tx = txs[w]
  OBVIOUS
<1>3. tx.step = "recorded" /\ UNCHANGED <<kind, known, results, events, incomplete>>
  BY <1>2 DEF InsertResult
<1>4. Open(w)
  BY <1>2, <1>3 DEF Open
<1>5. PICK k \in Endpoints \cup Suites : k = tx.key /\ tx \in Transactions(k)
  BY <1>1, <1>2, <1>4, OpenTx
<1>6. TxOk(tx)
  BY <1>1, <1>2, <1>4 DEF Sound
<1>7. k \in Endpoints /\ k \notin Suites /\ k \in Written(k) /\ k \in SeenKnown(tx) /\ k \in Keys
  BY <1>2, <1>3, <1>5, <1>6, WrittenIs DEF TxOk, SuiteTx, InsertResult
<1>8. PICK rs : rs = ResultsAfter(Append(tx.results[k], Row(tx.ok)))
  OBVIOUS
<1>9. PICK u : u = [tx EXCEPT !.step = "inserted", !.wrote = TRUE,
                              !.results = [tx.results EXCEPT ![k] = rs]]
  OBVIOUS
<1>10. txs' = [txs EXCEPT ![w] = u]
  <2>1. txs' = [txs EXCEPT ![w].step = "inserted", ![w].wrote = TRUE,
                           ![w].results[k] = ResultsAfter(Append(@, Row(txs[w].ok)))]
    BY <1>2, <1>5 DEF InsertResult
  <2>2. w \in DOMAIN txs
    BY <1>1 DEF Typed
  <2> QED
    BY <1>2, <1>8, <1>9, <2>1, <2>2
<1>11. tx.results[k] = results[k] /\ tx.events = AfterEvents(events[k], results[k], tx.ok)
  BY <1>3, <1>5, <1>6, <1>7 DEF TxOk, EndpointTx
<1>12. rs = AfterResults(results[k], tx.ok)
  BY <1>8, <1>11 DEF AfterResults
<1>13. rs \in Seq(Rows)
  <2>1. results[k] \in Seq(Rows) /\ tx.ok \in BOOLEAN
    BY <1>1, <1>5, <1>7, TransactionIs DEF Typed
  <2> QED
    BY <1>12, <2>1, AfterResultsIs
<1>14. /\ u \in Transactions(k)
       /\ u.step = "inserted" /\ u.key = k /\ u.created = tx.created /\ u.ok = tx.ok
       /\ u.results[k] = rs /\ u.events = tx.events /\ u.wrote = TRUE
  <2>1. tx.results \in [Written(k) -> Seq(Rows)]
    BY <1>5, TransactionIs
  <2>2. [tx.results EXCEPT ![k] = rs] \in [Written(k) -> Seq(Rows)]
    BY <1>13, <2>1
  <2>3. [tx.results EXCEPT ![k] = rs][k] = rs
    BY <1>7, <2>1
  <2>4. PICK f : f = [tx.results EXCEPT ![k] = rs]
    OBVIOUS
  <2> QED
    BY <1>5, <1>9, <2>2, <2>3, <2>4 DEF Transactions
<1>15. SeenKnown(u) = SeenKnown(tx)
  BY <1>14 DEF SeenKnown
<1>16. TxOk(u)
  <2>1. EndpointTx(u)
    BY <1>11, <1>12, <1>14 DEF EndpointTx
  <2> QED
    BY <1>5, <1>6, <1>7, <1>14, <1>15, <2>1 DEF TxOk
<1> QED
  BY <1>2, <1>3, <1>4, <1>5, <1>10, <1>14, <1>16, TxStepKeeps

\* RefreshCache, as far as the transaction is concerned.
LEMMA RefreshKeeps ==
    ASSUME Inv, NEW w \in Writers, RefreshCache(w)
    PROVE  Inv'
<1>1. Typed /\ Histories /\ Sound
  BY DEF Inv
<1>2. PICK tx : tx = txs[w]
  OBVIOUS
<1>3. tx.step = "inserted" /\ UNCHANGED <<kind, known, results, events, incomplete>>
  BY <1>2 DEF RefreshCache
<1>4. Open(w)
  BY <1>2, <1>3 DEF Open
<1>5. PICK k \in Endpoints \cup Suites : k = tx.key /\ tx \in Transactions(k)
  BY <1>1, <1>2, <1>4, OpenTx
<1>6. TxOk(tx)
  BY <1>1, <1>2, <1>4 DEF Sound
<1>7. k \in Endpoints /\ k \notin Suites
  BY <1>3, <1>5, <1>6, WrittenIs DEF TxOk, SuiteTx
<1>8. PICK u : u = [tx EXCEPT !.step = "refreshed"]
  OBVIOUS
<1>9. txs' = [txs EXCEPT ![w] = u]
  BY <1>1, <1>2, <1>8 DEF RefreshCache, Typed
<1>10. /\ u \in Transactions(k)
       /\ u.step = "refreshed" /\ u.key = k /\ u.created = tx.created /\ u.ok = tx.ok
       /\ u.results = tx.results /\ u.events = tx.events /\ u.wrote = tx.wrote
  BY <1>5, <1>8 DEF Transactions
<1>11. SeenKnown(u) = SeenKnown(tx)
  BY <1>10 DEF SeenKnown
<1>12. TxOk(u)
  <2>1. EndpointTx(u)
    BY <1>3, <1>5, <1>6, <1>7, <1>10, <1>11 DEF TxOk, EndpointTx
  <2> QED
    BY <1>3, <1>5, <1>6, <1>7, <1>10, <1>11, <2>1 DEF TxOk
<1> QED
  BY <1>2, <1>3, <1>4, <1>5, <1>9, <1>10, <1>12, TxStepKeeps

\* The rows of a suite's endpoint, members of them, after the suite's result.
CascadedTo(tx, members, ms) ==
    LET rows == Append(results[tx.key], Row(tx.ok))
    IN  /\ ms \in Seq(Rows)
        /\ ms = Cascade(members, Len(rows) - Len(ResultsAfter(rows)))

\* A suite's transaction u after its results are inserted.
SuiteInserted(tx, u, created, ms) ==
    LET k == tx.key
    IN  /\ u \in Transactions(k)
        /\ u.step = "refreshed" /\ u.key = k /\ u.created = tx.created \cup created
        /\ u.ok = tx.ok /\ u.events = <<>> /\ u.wrote = TRUE /\ u.old = tx.old
        /\ u.results[k] = AfterResults(results[k], tx.ok)
        /\ u.results[MemberOf[k]] = ms

LEMMA WithSuiteResultIs ==
    ASSUME Typed, NEW k \in Suites, NEW tx \in Transactions(k), SuiteTx(tx),
           NEW members, NEW created \in SUBSET {MemberOf[k]},
           NEW ms, CascadedTo(tx, members, ms)
    PROVE  SuiteInserted(tx, WithSuiteResult(tx, members, created), created, ms)
<1>e. PICK e : e = MemberOf[k]
  OBVIOUS
<1>r. PICK rows : rows = Append(results[k], Row(tx.ok))
  OBVIOUS
<1>u. PICK u : u = WithSuiteResult(tx, members, created)
  OBVIOUS
<1>1. tx.key = k /\ tx.ok \in BOOLEAN /\ tx.created \subseteq Written(k) /\ tx.events = <<>>
  BY TransactionIs DEF SuiteTx
<1>m. ms \in Seq(Rows) /\ ms = Cascade(members, Len(rows) - Len(ResultsAfter(rows)))
  BY <1>r, <1>1 DEF CascadedTo
<1>2. k \in Written(k) /\ e \in Written(k) /\ e # k /\ Written(k) = {k, e} /\ k \in Keys
  BY <1>e, WrittenIs
<1>3. PICK rs : rs = AfterResults(results[k], tx.ok)
  OBVIOUS
<1>4. rs \in Seq(Rows) /\ rs = ResultsAfter(rows)
  <2>1. results[k] \in Seq(Rows)
    BY <1>2 DEF Typed
  <2> QED
    BY <1>1, <1>3, <1>r, <2>1, AfterResultsIs DEF AfterResults
<1>5. PICK f : f = [x \in Written(k) |-> IF x = k THEN rs ELSE ms]
  OBVIOUS
<1>6. f \in [Written(k) -> Seq(Rows)] /\ f[k] = rs /\ f[e] = ms
  BY <1>m, <1>2, <1>4, <1>5
<1>7. u = [tx EXCEPT !.step = "refreshed", !.wrote = TRUE, !.created = @ \cup created, !.results = f]
  BY <1>m, <1>1, <1>r, <1>u, <1>4, <1>5 DEF WithSuiteResult
<1>8. PICK made : made = tx.created \cup created
  OBVIOUS
<1>9. made \in SUBSET Written(k)
  BY <1>e, <1>1, <1>2, <1>8
<1>10. u = [tx EXCEPT !.step = "refreshed", !.wrote = TRUE, !.created = made, !.results = f]
  BY <1>7, <1>8
<1>11. /\ u \in Transactions(k)
       /\ u.step = "refreshed" /\ u.key = k /\ u.created = made
       /\ u.ok = tx.ok /\ u.events = tx.events /\ u.wrote = TRUE /\ u.old = tx.old /\ u.results = f
  BY <1>1, <1>6, <1>9, <1>10 DEF Transactions
<1> QED
  BY <1>e, <1>u, <1>1, <1>3, <1>6, <1>8, <1>11 DEF SuiteInserted

\* InsertSuiteResult
LEMMA InsertSuiteResultKeeps ==
    ASSUME Inv, NEW w \in Writers, InsertSuiteResult(w)
    PROVE  Inv'
<1>1. Typed /\ Histories /\ Sound
  BY DEF Inv
<1>2. PICK tx : tx = txs[w]
  OBVIOUS
<1>3. tx.step = "found" /\ tx.key \in Suites /\ UNCHANGED <<kind, known, results, events, incomplete>>
  BY <1>2 DEF InsertSuiteResult
<1>4. Open(w)
  BY <1>2, <1>3 DEF Open
<1>5. PICK k \in Suites : k = tx.key /\ tx \in Transactions(k)
  BY <1>1, <1>2, <1>3, <1>4, OpenTx
<1>6. PICK e : e = MemberOf[k]
  OBVIOUS
<1>7. /\ k \in Written(k) /\ e \in Written(k) /\ e # k /\ k \notin Endpoints
      /\ k \in Keys /\ e \in Keys
  BY <1>6, WrittenIs
<1>8. TxOk(tx)
  BY <1>1, <1>2, <1>4 DEF Sound
<1>9. CASE k \notin SeenKnown(tx)
  <2>1. Rollback(w)
    BY <1>2, <1>5, <1>9 DEF InsertSuiteResult
  <2> QED
    BY <1>3, <2>1, RollbackKeeps
<1>10. CASE k \in SeenKnown(tx)
  <2>1. PICK rows : rows = Append(results[k], Row(tx.ok))
    OBVIOUS
  <2>2. PICK members : members = Append(results[e], Linked(rows, Len(rows)))
    OBVIOUS
  <2>3. PICK ms : ms = Cascade(members, Len(rows) - Len(ResultsAfter(rows)))
    OBVIOUS
  <2>4. ms = AfterMember(results[e], results[k], tx.ok)
    BY <2>1, <2>2, <2>3 DEF AfterMember
  <2>5. ms \in Seq(Rows)
    <3>1. results[k] \in Seq(Rows) /\ results[e] \in Seq(Rows) /\ tx.ok \in BOOLEAN
      BY <1>1, <1>5, <1>7, TransactionIs DEF Typed
    <3>2. Attached(results[k], results[e])
      BY <1>1, <1>5, <1>6, <1>8 DEF Histories, SuiteHistoryOf, TxOk
    <3> QED
      BY <2>4, <3>1, <3>2, AfterMemberIs
  <2>6. PICK u : u = WithSuiteResult(tx, members, {e})
    OBVIOUS
  <2>7. txs' = [txs EXCEPT ![w] = u]
    BY <1>2, <1>5, <1>6, <1>10, <2>1, <2>2, <2>6 DEF InsertSuiteResult
  <2>8. /\ u \in Transactions(k)
        /\ u.step = "refreshed" /\ u.key = k /\ u.created = tx.created \cup {e}
        /\ u.ok = tx.ok /\ u.events = <<>> /\ u.wrote = TRUE
        /\ u.results[k] = AfterResults(results[k], tx.ok) /\ u.results[e] = ms
    <3>1. SuiteTx(tx) /\ CascadedTo(tx, members, ms)
      BY <1>3, <1>5, <1>8, <2>1, <2>3, <2>5 DEF TxOk, CascadedTo
    <3>2. {e} \in SUBSET {MemberOf[k]}
      BY <1>6
    <3>3. SuiteInserted(tx, u, {e}, ms)
      BY <1>1, <1>5, <2>6, <3>1, <3>2, WithSuiteResultIs
    <3> QED
      BY <1>5, <1>6, <3>3 DEF SuiteInserted
  <2>9. k \in SeenKnown(u) /\ (k \in u.created => k \notin known)
    BY <1>5, <1>7, <1>8, <1>10, <2>8 DEF SeenKnown, TxOk
  <2>10. SuiteTx(u)
    BY <1>6, <2>4, <2>8 DEF SuiteTx
  <2>11. TxOk(u)
    BY <1>7, <1>8, <2>8, <2>9, <2>10 DEF TxOk
  <2> QED
    BY <1>2, <1>3, <1>4, <1>5, <2>7, <2>8, <2>11, TxStepKeeps
<1> QED
  BY <1>9, <1>10

\* SkipMember
LEMMA SkipMemberKeeps ==
    ASSUME Inv, NEW w \in Writers, SkipMember(w)
    PROVE  Inv'
<1>1. Typed /\ Histories /\ Sound
  BY DEF Inv
<1>2. PICK tx : tx = txs[w]
  OBVIOUS
<1>3. PICK k \in Suites : k = tx.key
  BY <1>2 DEF SkipMember
<1>4. PICK e : e = MemberOf[k]
  OBVIOUS
<1>5. /\ kind = "sqlite" /\ tx.step = "found" /\ k \in incomplete' /\ incomplete \subseteq incomplete'
      /\ UNCHANGED <<kind, known, results, events>>
  BY <1>2, <1>3 DEF SkipMember
<1>6. PICK created \in SUBSET {e} : txs' = [txs EXCEPT ![w] = WithSuiteResult(tx, results[e], created)]
  BY <1>2, <1>3, <1>4 DEF SkipMember
<1>7. Open(w)
  BY <1>2, <1>5 DEF Open
<1>8. /\ k \in Written(k) /\ e \in Written(k) /\ e # k /\ k \notin Endpoints
      /\ k \in Keys /\ e \in Keys
  BY <1>4, WrittenIs
<1>9. TxOk(tx) /\ tx \in Transactions(k)
  BY <1>1, <1>2, <1>3, <1>7, OpenTx DEF Sound
<1>10. PICK rows : rows = Append(results[k], Row(tx.ok))
  OBVIOUS
<1>11. PICK ms : ms = Cascade(results[e], Len(rows) - Len(ResultsAfter(rows)))
  OBVIOUS
<1>12. ms = AfterSkip(results[e], results[k], tx.ok)
  BY <1>10, <1>11 DEF AfterSkip
<1>13. ms \in Seq(Rows)
  <2>1. results[k] \in Seq(Rows) /\ results[e] \in Seq(Rows) /\ tx.ok \in BOOLEAN
    BY <1>1, <1>8, <1>9, TransactionIs DEF Typed
  <2>2. Attached(results[k], results[e])
    BY <1>1, <1>4, <1>5 DEF Histories, SuiteHistoryOf
  <2> QED
    BY <1>12, <2>1, <2>2, AfterSkipIs
<1>14. PICK u : u = WithSuiteResult(tx, results[e], created)
  OBVIOUS
<1>15. /\ u \in Transactions(k)
       /\ u.step = "refreshed" /\ u.key = k /\ u.created = tx.created \cup created
       /\ u.ok = tx.ok /\ u.events = <<>> /\ u.wrote = TRUE
       /\ u.results[k] = AfterResults(results[k], tx.ok) /\ u.results[e] = ms
  <2>1. SuiteTx(tx) /\ CascadedTo(tx, results[e], ms)
    BY <1>3, <1>9, <1>10, <1>11, <1>13 DEF TxOk, CascadedTo
  <2>2. created \in SUBSET {MemberOf[k]}
    BY <1>4
  <2>3. SuiteInserted(tx, u, created, ms)
    BY <1>1, <1>9, <1>14, <2>1, <2>2, WithSuiteResultIs
  <2> QED
    BY <1>3, <1>4, <2>3 DEF SuiteInserted
<1>16. k \in SeenKnown(u) /\ (k \in u.created => k \notin known)
  <2>1. k \in SeenKnown(tx) /\ k \notin created
    BY <1>2, <1>3, <1>6, <1>8 DEF SkipMember
  <2> QED
    BY <1>3, <1>9, <1>15, <2>1 DEF SeenKnown, TxOk
<1>17. SuiteTx(u)'
  BY <1>4, <1>5, <1>12, <1>15 DEF SuiteTx
<1>18. TxOk(u)'
  <2>1. k \in SeenKnown(u)'
    BY <1>5, <1>16 DEF SeenKnown
  <2> QED
    BY <1>5, <1>8, <1>15, <1>16, <1>17, <2>1 DEF TxOk
<1> QED
  BY <1>2, <1>3, <1>5, <1>6, <1>7, <1>14, <1>15, <1>18, TxStepKeeps
-----------------------------------------------------------------------------
(* The steps that change what is stored. *)

\* What a commit stores, by the rows of its transaction.
LEMMA CommitStores ==
    ASSUME Inv, NEW w \in Writers, Commit(w), NEW k, k = txs[w].key, NEW tx, tx = txs[w]
    PROVE  /\ k \in Endpoints \cup Suites /\ tx \in Transactions(k) /\ Open(w) /\ TxOk(tx)
           /\ tx.step = "refreshed" /\ tx.wrote /\ k \in SeenKnown(tx)
           /\ kind' = kind /\ txs' = [txs EXCEPT ![w] = Idle] /\ known' = SeenKnown(tx)
           /\ \A x \in Keys : results'[x] = IF x \in Written(k) THEN tx.results[x] ELSE results[x]
           /\ \A x \in Keys : events'[x] = IF x = k THEN tx.events ELSE events[x]
           /\ results' \in [Keys -> Seq(Rows)] /\ events' \in [Keys -> Seq(EventTypes)]
<1>1. Typed /\ Histories /\ Sound
  BY DEF Inv
<1>2. tx.step = "refreshed" /\ kind' = kind /\ txs' = [txs EXCEPT ![w] = Idle]
      /\ known' = SeenKnown(tx)
      /\ results' = [x \in Keys |-> SeenResults(tx, x)]
      /\ events' = [events EXCEPT ![k] = tx.events]
  BY DEF Commit, Rollback
<1>3. Open(w)
  BY <1>2 DEF Open
<1>4. k \in Endpoints \cup Suites /\ tx \in Transactions(k) /\ TxOk(tx)
  BY <1>1, <1>3, OpenTx DEF Sound
<1>5. tx.wrote /\ k \in SeenKnown(tx)
  BY <1>2, <1>4 DEF TxOk
<1>6. tx.key = k /\ tx.results \in [Written(k) -> Seq(Rows)] /\ tx.events \in Seq(EventTypes)
  BY <1>4, TransactionIs
<1>7. \A x \in Keys : results'[x] = IF x \in Written(k) THEN tx.results[x] ELSE results[x]
  BY <1>2, <1>6 DEF SeenResults
<1>8. results' \in [Keys -> Seq(Rows)]
  <2>1. ASSUME NEW x \in Keys PROVE SeenResults(tx, x) \in Seq(Rows)
    BY <1>1, <1>6 DEF SeenResults, Typed
  <2> QED
    BY <1>2, <2>1
<1>9. /\ \A x \in Keys : events'[x] = IF x = k THEN tx.events ELSE events[x]
      /\ events' \in [Keys -> Seq(EventTypes)]
  BY <1>1, <1>2, <1>6 DEF Typed
<1> QED
  BY <1>2, <1>3, <1>4, <1>5, <1>7, <1>8, <1>9

\* What a commit makes of the history of its own key.
LEMMA CommitIs ==
    ASSUME Inv, NEW w \in Writers, Commit(w), NEW k, k = txs[w].key
    PROVE  /\ k \in Endpoints \cup Suites /\ txs[w].ok \in BOOLEAN
           /\ results'[k] = AfterResults(results[k], txs[w].ok)
           /\ k \in Endpoints => events'[k] = AfterEvents(events[k], results[k], txs[w].ok)
           /\ k \in Suites =>
                 LET e == MemberOf[k]
                 IN  /\ events'[k] = <<>>
                     /\ \/ /\ e \in known'
                           /\ results'[e] = AfterMember(results[e], results[k], txs[w].ok)
                        \/ /\ k \in incomplete
                           /\ results'[e] = AfterSkip(results[e], results[k], txs[w].ok)
<1>1. PICK tx : tx = txs[w]
  OBVIOUS
<1>2. /\ k \in Endpoints \cup Suites /\ tx \in Transactions(k) /\ TxOk(tx)
      /\ tx.step = "refreshed" /\ k \in SeenKnown(tx) /\ known' = SeenKnown(tx)
      /\ \A x \in Keys : results'[x] = IF x \in Written(k) THEN tx.results[x] ELSE results[x]
      /\ \A x \in Keys : events'[x] = IF x = k THEN tx.events ELSE events[x]
  BY <1>1, CommitStores
<1>3. tx.key = k /\ tx.ok \in BOOLEAN
  BY <1>2, TransactionIs
<1>4. k \in Keys /\ k \in Written(k)
  BY <1>2, WrittenIs
<1>5. results'[k] = tx.results[k] /\ events'[k] = tx.events
  BY <1>2, <1>4
<1>6. CASE k \in Endpoints
  <2>1. /\ tx.results[k] = AfterResults(results[k], tx.ok)
        /\ tx.events = AfterEvents(events[k], results[k], tx.ok)
    BY <1>2, <1>3, <1>6 DEF TxOk, EndpointTx
  <2>2. k \notin Suites
    BY <1>6, StoresAssumption DEF StoresAssumption
  <2> QED
    BY <1>1, <1>3, <1>5, <1>6, <2>1, <2>2
<1>7. CASE k \in Suites
  <2>e. PICK e : e = MemberOf[k]
    OBVIOUS
  <2>1. e \in Written(k) /\ e \in Keys /\ k \notin Endpoints
    BY <1>7, <2>e, WrittenIs
  <2>2. /\ tx.results[k] = AfterResults(results[k], tx.ok)
        /\ \/ e \in tx.created /\ tx.results[e] = AfterMember(results[e], results[k], tx.ok)
           \/ k \in incomplete /\ tx.results[e] = AfterSkip(results[e], results[k], tx.ok)
        /\ tx.events = <<>>
    BY <1>2, <1>3, <1>7, <2>e DEF TxOk, SuiteTx
  <2>3. results'[e] = tx.results[e] /\ (e \in tx.created => e \in known')
    BY <1>2, <2>1 DEF SeenKnown
  <2> QED
    BY <1>1, <1>3, <1>5, <1>7, <2>e, <2>1, <2>2, <2>3
<1> QED
  BY <1>2, <1>6, <1>7

\* Commit
LEMMA CommitKeeps ==
    ASSUME Inv, NEW w \in Writers, Commit(w)
    PROVE  Inv'
<1>1. Typed /\ Histories /\ Sound
  BY DEF Inv
<1>2. PICK tx : tx = txs[w]
  OBVIOUS
<1>3. PICK k : k = txs[w].key
  OBVIOUS
<1>4. /\ k \in Endpoints \cup Suites /\ tx \in Transactions(k) /\ Open(w) /\ TxOk(tx)
      /\ tx.step = "refreshed" /\ tx.wrote /\ k \in SeenKnown(tx)
      /\ kind' = kind /\ txs' = [txs EXCEPT ![w] = Idle] /\ known' = SeenKnown(tx)
      /\ \A x \in Keys : results'[x] = IF x \in Written(k) THEN tx.results[x] ELSE results[x]
      /\ \A x \in Keys : events'[x] = IF x = k THEN tx.events ELSE events[x]
      /\ results' \in [Keys -> Seq(Rows)] /\ events' \in [Keys -> Seq(EventTypes)]
  BY <1>2, <1>3, CommitStores
<1>5. k \in Written(k) /\ Written(k) \subseteq Keys /\ tx.created \subseteq Written(k)
  BY <1>4, WrittenIs, TransactionIs
<1>6. ASSUME NEW x, x \notin Written(k) PROVE x \in known' <=> x \in known
  BY <1>4, <1>5, <1>6 DEF SeenKnown
<1>7. Typed'
  <2>1. known' \subseteq Keys
    BY <1>1, <1>4, <1>5 DEF Typed, SeenKnown
  <2>2. txs' \in [Writers -> {Idle} \cup UNION {Transactions(j) : j \in Endpoints \cup Suites}]
    BY <1>1, <1>4 DEF Typed
  <2> QED
    BY <1>1, <1>4, <2>1, <2>2 DEF Typed
<1>8. ASSUME NEW j \in Endpoints \cup Suites, j # k
      PROVE  /\ \A x \in Written(j) : results'[x] = results[x] /\ x \notin Written(k)
                                   /\ (x \in known' <=> x \in known)
             /\ j \in Written(j) /\ events'[j] = events[j]
  <2>1. Written(j) \subseteq Keys /\ Written(j) \cap Written(k) = {} /\ j \in Written(j)
    BY <1>4, <1>8, WrittenIs
  <2> QED
    BY <1>4, <1>6, <1>8, <2>1
<1>9. /\ results'[k] = AfterResults(results[k], tx.ok) /\ tx.ok \in BOOLEAN
      /\ k \in Endpoints => events'[k] = AfterEvents(events[k], results[k], tx.ok)
      /\ k \in Suites =>
            LET e == MemberOf[k]
            IN  /\ events'[k] = <<>>
                /\ \/ e \in known' /\ results'[e] = AfterMember(results[e], results[k], tx.ok)
                   \/ k \in incomplete /\ results'[e] = AfterSkip(results[e], results[k], tx.ok)
  BY <1>2, <1>3, CommitIs
<1>u. incomplete' = incomplete
  BY DEF Commit
<1>10. k \in Keys /\ results[k] \in Seq(Rows) /\ events[k] \in Seq(EventTypes)
  BY <1>1, <1>5 DEF Typed
<1>11. ASSUME NEW j \in Endpoints PROVE HistoryOf(j)'
  <2>1. CASE j # k
    BY <1>1, <1>4, <1>u, <1>8, <2>1, HistoryStays
  <2>2. CASE j = k
    <3>1. Follows(results[k], events[k]) \/ (results[k] = <<>> /\ events[k] = <<>>)
      BY <1>1, <2>2 DEF Histories, HistoryOf
    <3>2. Follows(AfterResults(results[k], tx.ok), AfterEvents(events[k], results[k], tx.ok))
      BY <1>9, <1>10, <3>1, AfterFollows
    <3>3. k \in known'
      BY <1>4
    <3> QED
      BY <1>9, <2>2, <3>2, <3>3 DEF HistoryOf
  <2> QED
    BY <2>1, <2>2
<1>12. ASSUME NEW s \in Suites PROVE SuiteHistoryOf(s)'
  <2>1. CASE s # k
    BY <1>1, <1>4, <1>u, <1>8, <2>1, HistoryStays
  <2>2. CASE s = k
    <3>e. PICK e : e = MemberOf[k]
      OBVIOUS
    <3>r. PICK rs : rs = results[k]
      OBVIOUS
    <3>m. PICK ms : ms = results[e]
      OBVIOUS
    <3>1. e \in Keys /\ e \in Written(k)
      BY <2>2, <3>e, WrittenIs
    <3>2. rs \in Seq(Rows) /\ ms \in Seq(Rows)
      BY <1>1, <1>10, <3>r, <3>m, <3>1 DEF Typed
    <3>3. /\ Attached(rs, ms) /\ (k \notin incomplete => Complete(rs, ms))
          /\ e \notin known => ms = <<>>
      BY <1>1, <1>4, <2>2, <3>e, <3>r, <3>m DEF TxOk, Histories, SuiteHistoryOf
    <3>4. /\ results'[k] = AfterResults(rs, tx.ok)
          /\ \/ e \in known' /\ results'[e] = AfterMember(ms, rs, tx.ok)
             \/ k \in incomplete /\ results'[e] = AfterSkip(ms, rs, tx.ok)
      BY <1>9, <2>2, <3>e, <3>r, <3>m
    <3>5. e \notin known' => e \notin known
      BY <1>4 DEF SeenKnown
    <3>6. /\ Attached(AfterResults(rs, tx.ok), results'[e])
          /\ k \notin incomplete => Complete(AfterResults(rs, tx.ok), results'[e])
          /\ e \notin known' => results'[e] = <<>>
      <4>1. CASE e \in known' /\ results'[e] = AfterMember(ms, rs, tx.ok)
        BY <1>9, <3>2, <3>3, <4>1, AfterMemberIs
      <4>2. CASE k \in incomplete /\ results'[e] = AfterSkip(ms, rs, tx.ok)
        BY <1>9, <3>2, <3>3, <3>5, <4>2, AfterSkipIs
      <4> QED
        BY <3>4, <4>1, <4>2
    <3>7. k \in known' /\ events'[k] = <<>>
      BY <1>4, <1>9, <2>2
    <3> QED
      BY <1>u, <2>2, <3>e, <3>4, <3>6, <3>7 DEF SuiteHistoryOf
  <2> QED
    BY <2>1, <2>2
<1>13. /\ txs'[w] = Idle /\ ~Open(w)'
       /\ \A v \in Writers : v # w => txs'[v] = txs[v] /\ (Open(v)' <=> Open(v))
  BY <1>1, <1>4 DEF Typed, Open, Idle
<1>14. ASSUME NEW v \in Writers, Open(v)' PROVE TxOk(txs[v])'
  <2>1. v # w /\ Open(v)
    BY <1>13, <1>14
  <2>2. PICK u : u = txs[v]
    OBVIOUS
  <2>3. PICK j \in Endpoints \cup Suites : j = u.key /\ u \in Transactions(j)
    BY <1>1, <2>1, <2>2, OpenTx
  <2>4. TxOk(u) /\ j # k
    BY <1>1, <1>3, <1>4, <2>1, <2>2, <2>3 DEF Sound
  <2>5. /\ \A x \in Written(j) : results'[x] = results[x]
        /\ events'[j] = events[j] /\ (j \in known' <=> j \in known)
    BY <1>8, <2>4, WrittenIs
  <2>6. (j \in u.created => j \notin known) /\ (u.wrote => j \in SeenKnown(u))
    BY <2>3, <2>4 DEF TxOk
  <2>7. j \in SeenKnown(u)' <=> j \in SeenKnown(u)
    BY <2>5 DEF SeenKnown
  <2>8. TxOk(u)'
    BY <1>u, <1>4, <2>3, <2>4, <2>5, <2>6, <2>7, TxStays
  <2> QED
    BY <1>13, <2>1, <2>2, <2>8
<1>15. Sound'
  BY <1>1, <1>13, <1>14 DEF Sound
<1> QED
  BY <1>7, <1>11, <1>12, <1>15 DEF Inv, Histories

\* The events that the memory store keeps of a result.
LEMMA EventsInMemoryIs ==
    ASSUME Inv, NEW k \in Endpoints, NEW ok \in BOOLEAN,
           NEW more, more = NewEvents(events[k], results[k], ok)
    PROVE  \/ EventsInMemory(k, ok) = events[k] \o more
           \/ EventsInMemory(k, ok) = Newest(events[k] \o more, MaxEvents)
<1>1. Typed /\ Histories
  BY DEF Inv
<1>2. results[k] \in Seq(Rows) /\ events[k] \in Seq(EventTypes)
  BY <1>1 DEF Typed, Keys
<1>3. more \in Seq(EventTypes)
  BY <1>1, <1>2, InsertionFollows DEF Histories, HistoryOf
<1>4. CASE k \notin known
  <2>1. events[k] = <<>>
    BY <1>1, <1>4 DEF Histories, HistoryOf
  <2>2. more = <<"START", ToEvent(ok)>>
    BY <2>1 DEF NewEvents
  <2>3. EventsInMemory(k, ok) = <<"START", ToEvent(ok)>>
    BY <1>4 DEF EventsInMemory
  <2>4. <<>> \o more = more
    BY <1>3, ConcatEmptySeq
  <2> QED
    BY <2>1, <2>2, <2>3, <2>4
<1>5. CASE k \in known /\ Last(results[k]).ok # ok
  <2>1. events[k] # <<>>
    BY <1>1, <1>5 DEF Histories, HistoryOf, Follows
  <2>2. more = <<ToEvent(ok)>>
    BY <1>5, <2>1 DEF NewEvents
  <2>3. EventsInMemory(k, ok) = Newest(Append(events[k], ToEvent(ok)), MaxEvents)
    BY <1>5 DEF EventsInMemory
  <2>4. Append(events[k], ToEvent(ok)) = events[k] \o <<ToEvent(ok)>>
    <3>1. ToEvent(ok) \in EventTypes
      BY DEF ToEvent, EventTypes
    <3> QED
      BY <1>2, <3>1, AppendIsConcat
  <2> QED
    BY <2>2, <2>3, <2>4
<1>6. CASE k \in known /\ Last(results[k]).ok = ok
  <2>1. events[k] # <<>>
    BY <1>1, <1>6 DEF Histories, HistoryOf, Follows
  <2>2. more = <<>>
    BY <1>6, <2>1 DEF NewEvents
  <2>3. EventsInMemory(k, ok) = events[k]
    BY <1>6 DEF EventsInMemory
  <2>4. events[k] \o <<>> = events[k]
    BY <1>2, ConcatEmptySeq
  <2> QED
    BY <2>2, <2>3, <2>4
<1> QED
  BY <1>4, <1>5, <1>6

\* InsertInMemory
LEMMA InsertInMemoryKeeps ==
    ASSUME Inv, NEW k \in Endpoints \cup Suites, NEW ok \in BOOLEAN, InsertInMemory(k, ok)
    PROVE  Inv'
<1>1. Typed /\ Histories /\ Sound
  BY DEF Inv
<1>2. /\ kind = "memory" /\ kind' = "memory" /\ txs' = txs /\ known' = known \cup {k}
      /\ events' = IF k \in Suites THEN events
                   ELSE [events EXCEPT ![k] = EventsInMemory(k, ok)]
  BY DEF InsertInMemory
<1>3. k \in Written(k) /\ Written(k) \subseteq Keys /\ k \in Keys
  BY WrittenIs
<1>4. PICK rs : rs = Newest(Append(results[k], Row(ok)), MaxResults)
  OBVIOUS
<1>5. results' = [results EXCEPT ![k] = rs]
  BY <1>4 DEF InsertInMemory
<1>6. results[k] \in Seq(Rows) /\ events[k] \in Seq(EventTypes)
  BY <1>1, <1>3 DEF Typed
<1>7. PICK rows : rows = Append(results[k], Row(ok))
  OBVIOUS
<1>8. rows \in Seq(Rows) /\ rs = Newest(rows, MaxResults) /\ rs \in Seq(Rows)
  <2>1. Row(ok) \in Rows
    BY DEF Row, Rows
  <2>2. rows \in Seq(Rows)
    BY <1>6, <1>7, <2>1, AppendProperties
  <2> QED
    BY <1>4, <1>7, <2>2, NewestIs, Bounds
<1>9. k \in Endpoints => Follows(rs, EventsInMemory(k, ok))
  <2> SUFFICES ASSUME k \in Endpoints PROVE Follows(rs, EventsInMemory(k, ok))
    OBVIOUS
  <2>1. Follows(results[k], events[k]) \/ (results[k] = <<>> /\ events[k] = <<>>)
    BY <1>1 DEF Histories, HistoryOf
  <2>2. PICK more : more = NewEvents(events[k], results[k], ok)
    OBVIOUS
  <2>3. more \in Seq(EventTypes) /\ Follows(rows, events[k] \o more)
    BY <1>6, <1>7, <2>1, <2>2, InsertionFollows
  <2>4. \/ EventsInMemory(k, ok) = events[k] \o more
        \/ EventsInMemory(k, ok) = Newest(events[k] \o more, MaxEvents)
    BY <2>2, EventsInMemoryIs
  <2> QED
    BY <1>8, <2>3, <2>4, NewestFollow, Bounds
<1>10. /\ k \in Endpoints => k \notin Suites /\ events' = [events EXCEPT ![k] = EventsInMemory(k, ok)]
       /\ k \in Suites => k \notin Endpoints /\ events' = events
  BY <1>2, WrittenIs
<1>11. Typed'
  <2>1. events' \in [Keys -> Seq(EventTypes)]
    <3>1. CASE k \in Endpoints
      BY <1>1, <1>9, <1>10, <3>1 DEF Typed, Follows
    <3>2. CASE k \in Suites
      BY <1>1, <1>10, <3>2 DEF Typed
    <3> QED
      BY <3>1, <3>2
  <2> QED
    BY <1>1, <1>2, <1>3, <1>5, <1>8, <2>1 DEF Typed
<1>12. \A x \in Keys : x # k => results'[x] = results[x] /\ events'[x] = events[x]
                                  /\ (x \in known' <=> x \in known)
  <2>1. CASE k \in Endpoints
    BY <1>1, <1>2, <1>5, <1>10, <2>1 DEF Typed
  <2>2. CASE k \in Suites
    BY <1>1, <1>2, <1>5, <1>10, <2>2 DEF Typed
  <2> QED
    BY <2>1, <2>2
<1>13. results'[k] = rs /\ k \in known'
  BY <1>1, <1>2, <1>3, <1>5 DEF Typed
<1>14. ASSUME NEW j \in Endpoints PROVE HistoryOf(j)'
  <2>1. CASE j # k
    BY <1>1, <1>12, <2>1 DEF Histories, HistoryOf, Keys
  <2>2. CASE j = k
    <3>1. events'[k] = EventsInMemory(k, ok)
      BY <1>1, <1>3, <1>10, <2>2 DEF Typed
    <3> QED
      BY <1>9, <1>13, <2>2, <3>1 DEF HistoryOf
  <2> QED
    BY <2>1, <2>2
<1>15. ASSUME NEW s \in Suites PROVE SuiteHistoryOf(s)'
  <2>1. events'[s] = events[s]
    BY <1>1, <1>3, <1>10, <1>12 DEF Keys
  <2>2. s \notin known' => results'[s] = results[s] /\ s \notin known
    BY <1>12, <1>13 DEF Keys
  <2> QED
    BY <1>1, <1>2, <2>1, <2>2 DEF Histories, SuiteHistoryOf
<1>16. Sound'
  <2>1. \A w \in Writers : ~Open(w)
    BY <1>1, <1>2 DEF Sound, TxOk
  <2>2. \A w \in Writers : ~Open(w)'
    BY <1>2, <2>1 DEF Open
  <2> QED
    BY <2>2 DEF Sound
<1> QED
  BY <1>11, <1>14, <1>15, <1>16 DEF Inv, Histories

\* What either deletion of a reload deletes: keys, and the rows of emptied.
Deletion(keys, emptied) ==
    \/ /\ keys \subseteq Suites /\ emptied = keys \cup {MemberOf[s] : s \in keys}
       /\ incomplete' = incomplete \ keys
    \/ /\ keys \subseteq Endpoints \cup Members /\ emptied = keys
       /\ incomplete' = incomplete \cup {s \in Suites : MemberOf[s] \in keys /\ results[s] # <<>>}

\* Of endpoints and suites it empties what it deletes, of a suite's endpoint what
\* it deletes or its suite.
LEMMA EmptiedIs ==
    ASSUME NEW keys, NEW emptied, Deletion(keys, emptied)
    PROVE  /\ \A k \in Endpoints \cup Suites : k \in emptied <=> k \in keys
           /\ \A s \in Suites :
                 /\ MemberOf[s] \in emptied <=> s \in keys \/ MemberOf[s] \in keys
                 /\ s \in incomplete' <=> \/ s \in incomplete /\ s \notin keys
                                          \/ MemberOf[s] \in keys /\ results[s] # <<>>
<1>1. /\ Endpoints \cap Members = {} /\ Suites \cap (Endpoints \cup Members) = {}
      /\ \A s \in Suites : MemberOf[s] \in Members
      /\ \A s, t \in Suites : MemberOf[s] = MemberOf[t] => s = t
  BY StoresAssumption DEF StoresAssumption
<1> QED
  BY <1>1 DEF Deletion

\* What is there after it.
LEMMA DeleteIs ==
    ASSUME Inv, NEW keys, NEW emptied, Deletion(keys, emptied), Delete(keys, emptied)
    PROVE  /\ known' = known \ keys /\ known' \subseteq Keys
           /\ results' \in [Keys -> Seq(Rows)] /\ events' \in [Keys -> Seq(EventTypes)]
           /\ \A x \in Keys : /\ results'[x] = IF x \in emptied THEN <<>> ELSE results[x]
                              /\ events'[x] = IF x \in keys THEN <<>> ELSE events[x]
<1>1. /\ known' = known \ keys
      /\ results' = [k \in Keys |-> IF k \in emptied THEN <<>> ELSE results[k]]
      /\ events' = [k \in Keys |-> IF k \in keys THEN <<>> ELSE events[k]]
  BY DEF Delete
<1>2. known \subseteq Keys /\ results \in [Keys -> Seq(Rows)] /\ events \in [Keys -> Seq(EventTypes)]
  BY DEF Inv, Typed
<1>3. ASSUME NEW k \in Keys
      PROVE  /\ (IF k \in emptied THEN <<>> ELSE results[k]) \in Seq(Rows)
             /\ (IF k \in keys THEN <<>> ELSE events[k]) \in Seq(EventTypes)
  BY <1>2
<1> QED
  BY <1>1, <1>2, <1>3

\* Rows of an endpoint whose suite has none are none.
LEMMA AttachedToNone ==
    ASSUME NEW ms \in Seq(Rows), Attached(<<>>, ms)
    PROVE  ms = <<>>
<1>1. Len(ms) = 0
  <2>1. ASSUME NEW n \in 1 .. Len(ms) PROVE FALSE
    <3>1. ms[n].of \in 1 .. 0
      BY DEF Attached
    <3> QED
      BY <3>1
  <2> QED
    BY <2>1
<1> QED
  BY <1>1, EmptySeq

\* The histories after a deletion.
LEMMA DeleteKeepsHistories ==
    ASSUME Inv, NEW keys, NEW emptied, Deletion(keys, emptied), Delete(keys, emptied), kind' = kind
    PROVE  Histories'
<1>1. Histories
  BY DEF Inv
<1>2. /\ known' = known \ keys
      /\ \A x \in Keys : /\ results'[x] = IF x \in emptied THEN <<>> ELSE results[x]
                         /\ events'[x] = IF x \in keys THEN <<>> ELSE events[x]
  BY DeleteIs
<1>3. \A k \in Endpoints \cup Suites : k \in emptied <=> k \in keys
  BY EmptiedIs
<1>4. ASSUME NEW k \in Endpoints PROVE HistoryOf(k)'
  <2>1. k \in Keys /\ HistoryOf(k) /\ (k \in emptied <=> k \in keys)
    BY <1>1, <1>3 DEF Keys, Histories
  <2>2. CASE k \notin keys
    BY <1>2, <2>1, <2>2 DEF HistoryOf
  <2>3. CASE k \in keys
    BY <1>2, <2>1, <2>3 DEF HistoryOf
  <2> QED
    BY <2>2, <2>3
<1>5. ASSUME NEW s \in Suites PROVE SuiteHistoryOf(s)'
  <2>e. PICK e : e = MemberOf[s]
    OBVIOUS
  <2>1. /\ s \in Keys /\ e \in Keys /\ SuiteHistoryOf(s) /\ (s \in emptied <=> s \in keys)
        /\ e \in emptied <=> s \in keys \/ e \in keys
        /\ s \in incomplete' <=> (s \in incomplete /\ s \notin keys) \/ (e \in keys /\ results[s] # <<>>)
    BY <1>1, <1>3, <2>e, WrittenIs, EmptiedIs DEF Keys, Histories
  <2>2. results'[s] = (IF s \in keys THEN <<>> ELSE results[s]) /\ events'[s] = <<>>
    BY <1>2, <2>1 DEF SuiteHistoryOf
  <2>3. results'[e] = IF s \in keys \/ e \in keys THEN <<>> ELSE results[e]
    BY <1>2, <2>1
  <2>4. Attached(results'[s], <<>>) /\ Complete(<<>>, <<>>)
    BY DEF Attached, Complete, Ordered
  <2>5. s \notin known' => results'[s] = <<>>
    BY <1>2, <2>1, <2>2 DEF SuiteHistoryOf
  <2>6. ASSUME kind # "memory"
        PROVE  /\ Attached(results'[s], results'[e])
               /\ s \notin incomplete' => Complete(results'[s], results'[e])
               /\ e \notin known' => results'[e] = <<>>
    <3>1. CASE s \in keys
      BY <2>2, <2>3, <2>4, <3>1
    <3>2. CASE s \notin keys /\ e \in keys
      BY <2>1, <2>2, <2>3, <2>4, <3>2
    <3>3. CASE s \notin keys /\ e \notin keys
      BY <1>2, <2>e, <2>1, <2>2, <2>3, <2>6, <3>3 DEF SuiteHistoryOf
    <3> QED
      BY <3>1, <3>2, <3>3
  <2> QED
    BY <2>e, <2>2, <2>5, <2>6 DEF SuiteHistoryOf
<1> QED
  BY <1>4, <1>5 DEF Histories

\* A transaction that is open meanwhile is as sound as it was: what it has locked is
\* not deleted.
LEMMA DeleteKeepsTx ==
    ASSUME Inv, NEW keys, NEW emptied, Deletion(keys, emptied), Delete(keys, emptied), kind' = kind,
           NEW w \in Writers, Open(w), NEW tx, tx = txs[w]
    PROVE  TxOk(tx)'
<1>1. Typed /\ Histories /\ Sound
  BY DEF Inv
<1>2. PICK k \in Endpoints \cup Suites : k = tx.key /\ tx \in Transactions(k)
  BY <1>1, OpenTx
<1>3. TxOk(tx) /\ kind # "sqlite" /\ kind # "memory"
  BY <1>1 DEF Sound, TxOk, Delete, CanBegin
<1>4. /\ known' = known \ keys
      /\ \A x \in Keys : /\ results'[x] = IF x \in emptied THEN <<>> ELSE results[x]
                         /\ events'[x] = IF x \in keys THEN <<>> ELSE events[x]
  BY DeleteIs
<1>5. k \in Written(k) /\ Written(k) \subseteq Keys /\ k \in Keys /\ (k \in emptied <=> k \in keys)
  BY WrittenIs, EmptiedIs
<1>6. SeenKnown(tx) = known \cup tx.created /\ SeenKnown(tx)' = (known \ keys) \cup tx.created
  BY <1>4 DEF SeenKnown
<1>7. ASSUME tx.wrote, NEW x \in Written(k), x \in known PROVE x \notin keys
  BY <1>2, <1>7 DEF Locked, Delete
<1>8. k \notin known => results[k] = <<>> /\ events[k] = <<>>
  BY <1>1 DEF Histories, HistoryOf, SuiteHistoryOf
<1>9. ASSUME k \in SeenKnown(tx)', k \in Endpoints \/ tx.step = "refreshed"
      PROVE  /\ \A x \in Written(k) : results'[x] = results[x]
             /\ events'[k] = events[k]
  <2>1. k \in keys => k \notin known
    BY <1>2, <1>3, <1>6, <1>9 DEF TxOk
  <2>2. results'[k] = results[k] /\ events'[k] = events[k]
    BY <1>4, <1>5, <1>8, <2>1
  <2>3. ASSUME k \in Suites, tx.step = "refreshed" PROVE results'[MemberOf[k]] = results[MemberOf[k]]
    <3>e. PICK e : e = MemberOf[k]
      OBVIOUS
    <3>1. e \in Written(k) /\ e \in Keys /\ (e \in emptied <=> k \in keys \/ e \in keys)
      BY <2>3, <3>e, WrittenIs, EmptiedIs
    <3>2. results[e] \in Seq(Rows) /\ Attached(results[k], results[e]) /\ (e \notin known => results[e] = <<>>)
      BY <1>1, <1>3, <2>3, <3>e, <3>1 DEF Typed, Histories, SuiteHistoryOf
    <3>3. CASE e \in keys
      <4>1. e \notin known
        BY <1>3, <1>7, <2>3, <3>1, <3>3 DEF TxOk
      <4> QED
        BY <1>4, <3>e, <3>1, <3>2, <4>1
    <3>4. CASE k \in keys
      <4>1. results[e] = <<>>
        BY <1>8, <2>1, <3>2, <3>4, AttachedToNone
      <4> QED
        BY <1>4, <3>e, <3>1, <4>1
    <3>5. CASE e \notin keys /\ k \notin keys
      BY <1>4, <3>e, <3>1, <3>5
    <3> QED
      BY <3>3, <3>4, <3>5
  <2>4. CASE k \in Endpoints
    BY <2>2, <2>4, WrittenIs
  <2>5. CASE k \in Suites
    BY <1>9, <2>2, <2>3, <2>5, WrittenIs
  <2> QED
    BY <2>2, <2>4, <2>5
<1>10. k \in tx.created => k \notin known'
  BY <1>2, <1>3, <1>4 DEF TxOk
<1>11. ASSUME tx.wrote PROVE k \in SeenKnown(tx)'
  <2>1. k \in SeenKnown(tx)
    BY <1>2, <1>3, <1>11 DEF TxOk
  <2> QED
    BY <1>5, <1>6, <1>7, <1>11, <2>1
<1>12. k \in SeenKnown(tx)' => k \in SeenKnown(tx)
  BY <1>6
<1> QED
  BY <1>2, <1>3, <1>9, <1>10, <1>11, <1>12, TxStays

\* DeleteSuites and DeleteEndpoints
LEMMA DeleteKeeps ==
    ASSUME Inv, NEW keys, NEW emptied, Deletion(keys, emptied), Delete(keys, emptied),
           UNCHANGED <<kind, txs>>
    PROVE  Inv'
<1>1. Typed /\ Sound
  BY DEF Inv
<1>2. Histories'
  BY DeleteKeepsHistories
<1>3. Typed'
  BY <1>1, DeleteIs DEF Typed
<1>4. \A w \in Writers : Open(w)' <=> Open(w)
  BY DEF Open
<1>5. ASSUME NEW w \in Writers, Open(w) PROVE TxOk(txs[w])'
  <2>1. PICK tx : tx = txs[w]
    OBVIOUS
  <2>2. TxOk(tx)'
    BY <1>5, <2>1, DeleteKeepsTx
  <2> QED
    BY <2>1, <2>2
<1>6. Sound'
  BY <1>1, <1>4, <1>5 DEF Sound
<1> QED
  BY <1>2, <1>3, <1>6 DEF Inv

\* Reload
LEMMA ReloadKeeps ==
    ASSUME Inv, NEW keep \in Configurations, Reload(keep)
    PROVE  Inv'
<1>1. Typed /\ Histories /\ Sound
  BY DEF Inv
<1>2. /\ kind' = kind /\ incomplete' = incomplete
      /\ txs' = [w \in Writers |-> IF Open(w) THEN [txs[w] EXCEPT !.old = TRUE] ELSE Idle]
      /\ kind = "memory" => /\ known' = {} /\ results' = [k \in Keys |-> <<>>]
                            /\ events' = [k \in Keys |-> <<>>]
      /\ kind # "memory" => UNCHANGED <<known, results, events>>
  BY DEF Reload, Initialize
<1>3. /\ known' \subseteq Keys
      /\ results' \in [Keys -> Seq(Rows)] /\ events' \in [Keys -> Seq(EventTypes)]
  <2>1. [k \in Keys |-> <<>>] \in [Keys -> Seq(Rows)] /\ [k \in Keys |-> <<>>] \in [Keys -> Seq(EventTypes)]
    OBVIOUS
  <2>2. CASE kind = "memory"
    BY <1>2, <2>1, <2>2
  <2>3. CASE kind # "memory"
    BY <1>1, <1>2, <2>3 DEF Typed
  <2> QED
    BY <2>2, <2>3
<1>4. Histories'
  <2>1. CASE kind = "memory"
    <3>1. ASSUME NEW k \in Keys PROVE results'[k] = <<>> /\ events'[k] = <<>> /\ k \notin known'
      BY <1>2, <2>1
    <3>2. Endpoints \subseteq Keys /\ Suites \subseteq Keys
      BY DEF Keys
    <3> QED
      BY <1>2, <2>1, <3>1, <3>2 DEF Histories, HistoryOf, SuiteHistoryOf
  <2>2. CASE kind # "memory"
    BY <1>1, <1>2, <2>2 DEF Histories, HistoryOf, SuiteHistoryOf
  <2> QED
    BY <2>1, <2>2
<1>5. ASSUME NEW w \in Writers, Open(w)
      PROVE  /\ Open(w)' /\ TxOk(txs[w])'
             /\ \E k \in Endpoints \cup Suites :
                   k = txs[w].key /\ txs'[w] \in Transactions(k) /\ txs'[w].key = k
  <2>1. PICK tx : tx = txs[w]
    OBVIOUS
  <2>2. PICK k \in Endpoints \cup Suites : k = tx.key /\ tx \in Transactions(k)
    BY <1>1, <1>5, <2>1, OpenTx
  <2>3. PICK u : u = [tx EXCEPT !.old = TRUE]
    OBVIOUS
  <2>4. txs'[w] = u
    BY <1>2, <1>5, <2>1, <2>3
  <2>5. TxOk(tx)'
    <3>1. TxOk(tx) /\ kind # "memory"
      BY <1>1, <1>5, <2>1 DEF Sound, TxOk
    <3> QED
      BY <1>2, <3>1, TxSame
  <2>6. u \in Transactions(k) /\ (TxOk(tx)' => TxOk(u)')
    BY <2>2, <2>3, TxOld
  <2>7. u.key = k /\ u.step # "idle"
    BY <2>2, <2>6, TransactionIs
  <2>8. TxOk(u)'
    BY <2>5, <2>6
  <2> QED
    BY <2>1, <2>2, <2>4, <2>6, <2>7, <2>8 DEF Open
<1>6. ASSUME NEW w \in Writers, ~Open(w) PROVE ~Open(w)' /\ txs'[w] = Idle
  BY <1>2, <1>6 DEF Open, Idle
<1>7. Typed'
  <2>1. ASSUME NEW w \in Writers
        PROVE  txs'[w] \in {Idle} \cup UNION {Transactions(k) : k \in Endpoints \cup Suites}
    BY <1>5, <1>6
  <2>2. txs' \in [Writers -> {Idle} \cup UNION {Transactions(k) : k \in Endpoints \cup Suites}]
    BY <1>2, <2>1
  <2> QED
    BY <1>1, <1>2, <1>3, <2>2 DEF Typed
<1>8. Sound'
  <2>1. ASSUME NEW v \in Writers, Open(v)' PROVE TxOk(txs[v])'
    BY <1>5, <1>6, <2>1
  <2>2. ASSUME NEW v \in Writers, NEW w \in Writers, Open(v)', Open(w)', txs'[v].key = txs'[w].key
        PROVE  v = w
    BY <1>1, <1>5, <1>6, <2>2 DEF Sound
  <2> QED
    BY <2>1, <2>2 DEF Sound
<1> QED
  BY <1>4, <1>7, <1>8 DEF Inv

\* Restart
LEMMA RestartKeeps ==
    ASSUME Inv, NEW keep \in Configurations, Restart(keep)
    PROVE  Inv'
<1>1. Typed /\ Histories
  BY DEF Inv
<1>2. UNCHANGED <<kind, known, results, events, incomplete>> /\ txs' = [w \in Writers |-> Idle]
  BY DEF Restart, Initialize
<1>3. Histories'
  BY <1>1, <1>2 DEF Histories, HistoryOf, SuiteHistoryOf
<1>4. Typed'
  BY <1>1, <1>2 DEF Typed
<1>5. Sound'
  BY <1>2 DEF Sound, Open, Idle
<1> QED
  BY <1>3, <1>4, <1>5 DEF Inv

\* Reading a page, and what a page becomes, changes nothing that is stored.
LEMMA ReadingKeeps ==
    ASSUME Inv, UNCHANGED <<kind, known, results, events, txs, incomplete>>
    PROVE  Inv'
<1>1. Typed /\ Histories /\ Sound
  BY DEF Inv
<1>2. Typed'
  BY <1>1 DEF Typed
<1>3. Histories'
  BY <1>1 DEF Histories, HistoryOf, SuiteHistoryOf
<1>4. Sound'
  BY <1>1 DEF Sound, Open, TxOk, EndpointTx, SuiteTx, SeenKnown
<1> QED
  BY <1>2, <1>3, <1>4 DEF Inv

\* Every step keeps the invariant.
LEMMA NextInv == Inv /\ [Next]_vars => Inv'
<1> SUFFICES ASSUME Inv, [Next]_vars PROVE Inv'
  OBVIOUS
<1>1. CASE UNCHANGED vars
  BY <1>1, ReadingKeeps DEF vars
<1>2. ASSUME NEW k \in Endpoints \cup Suites, NEW ok \in BOOLEAN, InsertInMemory(k, ok)
      PROVE  Inv'
  BY <1>2, InsertInMemoryKeeps
<1>3. ASSUME NEW w \in Writers, Insert(w) PROVE Inv'
  <2>1. ASSUME NEW k \in Endpoints \cup Suites, NEW ok \in BOOLEAN, Begin(w, k, ok) PROVE Inv'
    BY <2>1, BeginKeeps
  <2>2. ASSUME InsertEvents(w) PROVE Inv'
    BY <2>2, InsertEventsKeeps
  <2>3. ASSUME InsertResult(w) PROVE Inv'
    BY <2>3, InsertResultKeeps
  <2>4. ASSUME InsertResultFails(w) PROVE Inv'
    BY <2>4, RollbackKeeps DEF InsertResultFails
  <2>5. ASSUME RefreshCache(w) PROVE Inv'
    BY <2>5, RefreshKeeps
  <2>6. ASSUME InsertSuiteResult(w) PROVE Inv'
    BY <2>6, InsertSuiteResultKeeps
  <2>7. ASSUME Commit(w) PROVE Inv'
    BY <2>7, CommitKeeps
  <2>8. ASSUME CommitFails(w) PROVE Inv'
    BY <2>8, RollbackKeeps DEF CommitFails
  <2>9. ASSUME SkipMember(w) PROVE Inv'
    BY <2>9, SkipMemberKeeps
  <2> QED
    BY <1>3, <2>1, <2>2, <2>3, <2>4, <2>5, <2>6, <2>7, <2>8, <2>9 DEF Insert
<1>4. ASSUME NEW r \in Readers, NEW k \in Keys, NEW page \in Pages, ReadEvents(r, k, page) PROVE Inv'
  BY <1>4, ReadingKeeps DEF ReadEvents
<1>5. ASSUME NEW r \in Readers, ReadResults(r) PROVE Inv'
  BY <1>5, ReadingKeeps DEF ReadResults
<1>6. ASSUME NEW r \in Readers, CachePage(r) PROVE Inv'
  BY <1>6, ReadingKeeps DEF CachePage
<1>7. ASSUME NEW at \in DOMAIN cache, Expire(at) PROVE Inv'
  BY <1>7, ReadingKeeps DEF Expire
<1>8. ASSUME NEW keep \in Configurations, Reload(keep) PROVE Inv'
  BY <1>8, ReloadKeeps
<1>9. ASSUME NEW keep \in Configurations, Restart(keep) PROVE Inv'
  BY <1>9, RestartKeeps
<1>10. ASSUME DeleteSuites PROVE Inv'
  <2>1. PICK gone : gone = Suites \ starting.keep
    OBVIOUS
  <2>2. PICK emptied : emptied = gone \cup {MemberOf[s] : s \in gone}
    OBVIOUS
  <2>3. Delete(gone, emptied) /\ Deletion(gone, emptied) /\ UNCHANGED <<kind, txs>>
    BY <1>10, <2>1, <2>2 DEF DeleteSuites, Deletion
  <2> QED
    BY <2>3, DeleteKeeps
<1>11. ASSUME DeleteEndpoints PROVE Inv'
  <2>1. PICK gone : gone = (Endpoints \cup Members) \ starting.keep
    OBVIOUS
  <2>2. Delete(gone, gone) /\ Deletion(gone, gone) /\ UNCHANGED <<kind, txs>>
    BY <1>11, <2>1 DEF DeleteEndpoints, Deletion
  <2> QED
    BY <2>2, DeleteKeeps
<1>12. ASSUME DeletionFails PROVE Inv'
  BY <1>12, ReadingKeeps DEF DeletionFails
<1> QED
  BY <1>1, <1>2, <1>3, <1>4, <1>5, <1>6, <1>7, <1>8, <1>9, <1>10, <1>11, <1>12 DEF Next

\* The invariant of the stores.
THEOREM StoresInvariant == Spec => []Inv
<1> QED
  BY InitInv, NextInv, PTL DEF Spec
-----------------------------------------------------------------------------
(* What the stores promise. *)

\* The pages of both stores are the same windows of the same list, and every row
\* is on one of them.
THEOREM PagesAgreeHolds == Spec => []PagesAgree
<1>1. Inv => PagesAgree
  <2> SUFFICES ASSUME Inv, NEW k \in Keys, NEW size \in 1 .. MaxResults + 1
               PROVE  /\ \A page \in 1 .. MaxResults + 2 :
                            MemoryPage(results[k], page, size) = SqlPage(results[k], page, size)
                      /\ \A n \in DOMAIN results[k] :
                            \E page \in 1 .. Len(results[k]), m \in 1 .. size :
                               /\ m <= Len(MemoryPage(results[k], page, size))
                               /\ n = Excess(results[k], page * size) + m
                      /\ SqlPage(results[k], 1, SizeFor(1, size))
                            = Newest(Newest(results[k], MaxResults), size)
    BY DEF PagesAgree
  <2>1. PICK rows \in Seq(Rows) : rows = results[k]
    BY DEF Inv, Typed
  <2>2. size \in Nat \ {0}
    OBVIOUS
  <2>3. ASSUME NEW page \in 1 .. MaxResults + 2
        PROVE  MemoryPage(rows, page, size) = SqlPage(rows, page, size)
    <3>1. page \in Nat \ {0}
      OBVIOUS
    <3> QED
      BY <2>2, <3>1, SqlPageIs
  <2>4. ASSUME NEW n \in DOMAIN rows
        PROVE  \E page \in 1 .. Len(rows), m \in 1 .. size :
                  /\ m <= Len(MemoryPage(rows, page, size))
                  /\ n = Excess(rows, page * size) + m
    BY <2>2, EveryRowIsOnAPage
  <2>5. SqlPage(rows, 1, SizeFor(1, size)) = Newest(Newest(rows, MaxResults), size)
    BY <2>2, FirstPageIs
  <2> QED
    BY <2>1, <2>3, <2>4, <2>5
<1> QED
  BY <1>1, StoresInvariant, PTL

\* The last event of an endpoint tells the outcome of its last result, and no two
\* events in a row are the same.
THEOREM EventsFollowResultsHolds == Spec => []EventsFollowResults
<1>1. Inv => EventsFollowResults
  BY DEF Inv, Histories, HistoryOf, Follows, Alternates, EventsFollowResults
<1> QED
  BY <1>1, StoresInvariant, PTL

\* The endpoint of a suite keeps results of stored results of the suite only, in
\* their order, and all of them unless the suite is incomplete.
THEOREM SuiteResultsCompleteHolds == Spec => []SuiteResultsComplete
<1>1. Inv => SuiteResultsComplete
  <2> SUFFICES ASSUME Inv, kind # "memory", NEW s \in Suites, NEW members, members = results[MemberOf[s]]
               PROVE  /\ \A n \in DOMAIN members :
                            /\ members[n].of \in DOMAIN results[s]
                            /\ members[n].ok = results[s][members[n].of].ok
                      /\ \A m, n \in DOMAIN members : m < n => members[m].of < members[n].of
                      /\ s \notin incomplete => Len(members) = Len(results[s])
    BY DEF SuiteResultsComplete
  <2>1. Attached(results[s], members) /\ (s \notin incomplete => Complete(results[s], members))
    BY DEF Inv, Histories, SuiteHistoryOf
  <2>2. s \in Keys /\ MemberOf[s] \in Keys
    BY WrittenIs DEF Keys
  <2>3. members \in Seq(Rows) /\ results[s] \in Seq(Rows)
    BY <2>2 DEF Inv, Typed
  <2>4. DOMAIN members = 1 .. Len(members) /\ DOMAIN results[s] = 1 .. Len(results[s])
    BY <2>3
  <2> QED
    BY <2>1, <2>4 DEF Attached, Ordered, Complete
<1> QED
  BY <1>1, StoresInvariant, PTL
-----------------------------------------------------------------------------
(* The pages that SQLite's cache holds. *)

\* What a reader of SQLite holds is what the tables hold.
ReadOk(rd) ==
    \/ rd = NoRead
    \/ \E k \in Keys \ Suites, page \in Pages :
          \/ rd = [step |-> "events", at |-> <<k, page>>, status |-> Status(<<>>, events[k], page)]
          \/ rd = [step |-> "results", at |-> <<k, page>>, status |-> Committed(k, page)]

\* The open transaction of w has refreshed the cached pages of endpoint k.
HasRefreshed(w, k) == Open(w) /\ txs[w].step = "refreshed" /\ txs[w].key = k

\* What is cached of an endpoint: what the open transaction that has refreshed
\* it will commit, or what is committed.
PageOk(k, page, status) ==
    /\ \A w \in Writers : HasRefreshed(w, k) => status = Status(txs[w].results[k], txs[w].events, page)
    /\ k \notin uncertain /\ (\A w \in Writers : ~HasRefreshed(w, k)) => status = Committed(k, page)

\* One at a time uses the connection.
OneAtATime ==
    \A w \in Writers : Open(w) =>
        /\ ~txs[w].old
        /\ \A v \in Writers : Open(v) => v = w
        /\ \A r \in Readers : ~Reading(r)

ReadsOk == reads = [r \in Readers |-> reads[r]] /\ \A r \in Readers : ReadOk(reads[r])

PagesOk ==
    /\ DOMAIN cache \subseteq (Keys \ Suites) \X Pages
    /\ \A at \in DOMAIN cache : at[1] \in Endpoints => PageOk(at[1], at[2], cache[at])

Cached == kind = "sqlite" => OneAtATime /\ ReadsOk /\ PagesOk

\* The cache at the start.
LEMMA InitCached == Init => Cached
BY DEF Init, Cached, OneAtATime, ReadsOk, PagesOk, ReadOk, Open, Idle, Nothing

\* A step in a transaction that refreshes no endpoint.
LEMMA QuietKeeps ==
    ASSUME Cached, kind = "sqlite",
           UNCHANGED <<kind, known, results, events, reads, cache, uncertain>>,
           \A v \in Writers, k \in Endpoints : ~HasRefreshed(v, k) /\ ~HasRefreshed(v, k)',
           OneAtATime'
    PROVE  Cached'
<1>1. OneAtATime /\ ReadsOk /\ PagesOk
  BY DEF Cached
<1>2. ReadsOk'
  BY <1>1 DEF ReadsOk, ReadOk, Committed
<1>3. PagesOk'
  <2> SUFFICES ASSUME NEW at \in DOMAIN cache, at[1] \in Endpoints
               PROVE  PageOk(at[1], at[2], cache[at])'
    BY <1>1 DEF PagesOk
  <2>1. PageOk(at[1], at[2], cache[at])
    BY <1>1 DEF PagesOk
  <2> QED
    BY <2>1 DEF PageOk, Committed
<1> QED
  BY <1>2, <1>3 DEF Cached

\* Of SQLite's writers at most one has a transaction, and then nobody reads.
LEMMA OnlyOne ==
    ASSUME Inv, Cached, kind = "sqlite", NEW w \in Writers, Open(w)
    PROVE  /\ \A v \in Writers : v # w => ~Open(v)
           /\ \A r \in Readers : ~Reading(r)
           /\ ~txs[w].old
           /\ txs[w].key \in Endpoints \cup Suites /\ txs[w] \in Transactions(txs[w].key)
           /\ txs[w].key \in Endpoints => txs[w].key \notin Suites
<1>1. txs[w].key \in Endpoints \cup Suites /\ txs[w] \in Transactions(txs[w].key)
  BY OpenTx DEF Inv
<1> QED
  BY <1>1, StoresAssumption DEF StoresAssumption, Cached, OneAtATime

\* The writer of a step in a transaction.
LEMMA StepKeepsCached ==
    ASSUME Inv, Cached, kind = "sqlite", NEW w \in Writers, Open(w),
           txs[w].step # "refreshed" \/ txs[w].key \in Suites,
           UNCHANGED <<kind, known, results, events, reads, cache, uncertain>>,
           NEW tx, txs' = [txs EXCEPT ![w] = tx],
           tx = Idle \/ (~tx.old /\ (tx.step # "refreshed" \/ tx.key \in Suites))
    PROVE  Cached'
<1>1. /\ \A v \in Writers : v # w => ~Open(v)
      /\ \A r \in Readers : ~Reading(r)
  BY OnlyOne
<1>2. txs'[w] = tx /\ \A v \in Writers : v # w => txs'[v] = txs[v]
  BY DEF Inv, Typed
<1>3. \A v \in Writers : v # w => ~Open(v)'
  BY <1>1, <1>2 DEF Open
<1>4. Open(w)' => tx # Idle
  BY <1>2 DEF Open, Idle
<1>5. OneAtATime'
  BY <1>1, <1>2, <1>3, <1>4 DEF OneAtATime, Reading
<1>6. Endpoints \cap Suites = {}
  BY StoresAssumption DEF StoresAssumption
<1>7. ASSUME NEW v \in Writers, NEW k \in Endpoints PROVE ~HasRefreshed(v, k) /\ ~HasRefreshed(v, k)'
  BY <1>1, <1>2, <1>3, <1>4, <1>6 DEF HasRefreshed
<1> QED
  BY <1>5, <1>7, QuietKeeps

\* A transaction on SQLite begins when nobody has one and nobody reads.
LEMMA BeginKeepsCached ==
    ASSUME Inv, Cached, kind = "sqlite", NEW w \in Writers, NEW k \in Endpoints \cup Suites,
           NEW ok \in BOOLEAN, Begin(w, k, ok)
    PROVE  Cached'
<1>1. PICK tx : tx = [step |-> "found", key |-> k, ok |-> ok, created |-> {k} \ known,
                      wrote |-> FALSE, old |-> FALSE,
                      results |-> [x \in Written(k) |-> results[x]], events |-> events[k]]
  OBVIOUS
<1>2. txs' = [txs EXCEPT ![w] = tx] /\ tx.step = "found" /\ ~tx.old
  BY <1>1 DEF Begin
<1>3. (\A v \in Writers : ~Open(v)) /\ (\A r \in Readers : ~Reading(r))
  BY DEF Begin, CanBegin
<1>4. txs'[w] = tx /\ \A v \in Writers : v # w => txs'[v] = txs[v]
  BY <1>2 DEF Inv, Typed
<1>5. UNCHANGED <<kind, known, results, events, reads, cache, uncertain>>
  BY DEF Begin
<1>6. \A v \in Writers : v # w => ~Open(v)'
  BY <1>3, <1>4 DEF Open
<1>7. OneAtATime'
  BY <1>2, <1>3, <1>4, <1>5, <1>6 DEF OneAtATime, Reading
<1>8. ASSUME NEW v \in Writers, NEW j \in Endpoints PROVE ~HasRefreshed(v, j) /\ ~HasRefreshed(v, j)'
  BY <1>2, <1>3, <1>4, <1>6 DEF HasRefreshed
<1> QED
  BY <1>5, <1>7, <1>8, QuietKeeps

\* The statements of a transaction before the refresh.
LEMMA StatementsKeepCached ==
    ASSUME Inv, Cached, kind = "sqlite", NEW w \in Writers,
           \/ InsertEvents(w) \/ InsertResult(w) \/ InsertResultFails(w)
           \/ InsertSuiteResult(w) \/ SkipMember(w)
    PROVE  Cached'
<1>1. PICK tx : tx = txs[w]
  OBVIOUS
<1>2. /\ tx.step \in {"found", "recorded"}
      /\ UNCHANGED <<kind, known, results, events, reads, cache, uncertain>>
  BY <1>1 DEF InsertEvents, InsertResult, InsertResultFails, InsertSuiteResult, SkipMember
<1>3. Open(w) /\ w \in DOMAIN txs
  BY <1>1, <1>2 DEF Open, Inv, Typed
<1>4. ~tx.old /\ tx.key \in Endpoints \cup Suites /\ tx \in Transactions(tx.key)
  BY <1>1, <1>3, OnlyOne
<1>5. CASE txs' = [txs EXCEPT ![w] = Idle]
  BY <1>1, <1>2, <1>3, <1>5, StepKeepsCached
<1>6. CASE InsertEvents(w) /\ ~Rollback(w)
  <2>1. PICK u : u = [tx EXCEPT !.step = "recorded", !.events = EventsAfter(tx),
                                !.wrote = Changes(tx) # <<>>]
    OBVIOUS
  <2>2. txs' = [txs EXCEPT ![w] = u]
    <3>1. txs' = [txs EXCEPT ![w].step = "recorded", ![w].events = EventsAfter(tx),
                             ![w].wrote = Changes(tx) # <<>>]
      BY <1>1, <1>6 DEF InsertEvents
    <3> QED
      BY <1>1, <1>3, <2>1, <3>1
  <2>3. ~u.old /\ u.step = "recorded"
    BY <1>4, <2>1 DEF Transactions
  <2> QED
    BY <1>1, <1>2, <1>3, <2>2, <2>3, StepKeepsCached
<1>7. CASE InsertResult(w)
  <2>1. PICK rs : rs = [tx.results EXCEPT ![tx.key] = ResultsAfter(Append(@, Row(tx.ok)))]
    OBVIOUS
  <2>2. PICK u : u = [tx EXCEPT !.step = "inserted", !.wrote = TRUE, !.results = rs]
    OBVIOUS
  <2>3. txs' = [txs EXCEPT ![w] = u]
    <3>1. txs' = [txs EXCEPT ![w].step = "inserted", ![w].wrote = TRUE,
                             ![w].results[tx.key] = ResultsAfter(Append(@, Row(txs[w].ok)))]
      BY <1>1, <1>7 DEF InsertResult
    <3> QED
      BY <1>1, <1>3, <2>1, <2>2, <3>1
  <2>4. ~u.old /\ u.step = "inserted"
    BY <1>4, <2>2 DEF Transactions
  <2> QED
    BY <1>1, <1>2, <1>3, <2>3, <2>4, StepKeepsCached
<1>8. CASE (InsertSuiteResult(w) /\ ~Rollback(w)) \/ SkipMember(w)
  <2>1. PICK members, created :
           tx.key \in Suites /\ txs' = [txs EXCEPT ![w] = WithSuiteResult(tx, members, created)]
    BY <1>1, <1>8 DEF InsertSuiteResult, SkipMember
  <2>2. PICK u : u = WithSuiteResult(tx, members, created)
    OBVIOUS
  <2>3. u.old = tx.old /\ u.key = tx.key
    BY <1>4, <2>2 DEF WithSuiteResult, Transactions
  <2> QED
    BY <1>1, <1>2, <1>3, <1>4, <2>1, <2>2, <2>3, StepKeepsCached
<1>9. Rollback(w) => txs' = [txs EXCEPT ![w] = Idle]
  BY DEF Rollback
<1>10. InsertResultFails(w) => Rollback(w)
  BY DEF InsertResultFails
<1> QED
  BY <1>5, <1>6, <1>7, <1>8, <1>9, <1>10

\* RefreshCache: the pages of the endpoint are those of its transaction, and the
\* pages of the others that match are committed.
LEMMA RefreshKeepsCached ==
    ASSUME Inv, Cached, kind = "sqlite", NEW w \in Writers, RefreshCache(w)
    PROVE  Cached'
<1>1. OneAtATime /\ ReadsOk /\ PagesOk
  BY DEF Cached
<1>2. PICK tx : tx = txs[w]
  OBVIOUS
<1>3. tx.step = "inserted" /\ UNCHANGED <<kind, known, results, events, reads, uncertain>>
  BY <1>2 DEF RefreshCache
<1>4. Open(w) /\ w \in DOMAIN txs
  BY <1>2, <1>3 DEF Open, Inv, Typed
<1>5. /\ \A v \in Writers : v # w => ~Open(v)
      /\ \A r \in Readers : ~Reading(r)
      /\ ~tx.old
  BY <1>2, <1>4, OnlyOne
<1>6. PICK k \in Endpoints \cup Suites : k = tx.key /\ tx \in Transactions(k)
  BY <1>2, <1>4, OnlyOne
<1>7. k \in Endpoints /\ Written(k) = {k}
  <2>1. TxOk(tx)
    BY <1>2, <1>4 DEF Inv, Sound
  <2> QED
    BY <1>3, <1>6, <2>1, WrittenIs DEF TxOk, SuiteTx
<1>8. PICK u : u = [tx EXCEPT !.step = "refreshed"]
  OBVIOUS
<1>9. txs' = [txs EXCEPT ![w] = u]
  BY <1>2, <1>4, <1>8 DEF RefreshCache
<1>10. u.step = "refreshed" /\ u.key = k /\ ~u.old /\ u.results = tx.results /\ u.events = tx.events
  BY <1>5, <1>6, <1>8 DEF Transactions
<1>11. txs'[w] = u /\ \A v \in Writers : v # w => txs'[v] = txs[v] /\ ~Open(v)'
  BY <1>4, <1>5, <1>9 DEF Inv, Typed, Open
<1>12. OneAtATime'
  BY <1>3, <1>5, <1>10, <1>11 DEF OneAtATime, Reading
<1>13. ReadsOk'
  BY <1>1, <1>3 DEF ReadsOk, ReadOk, Committed
<1>14. \A v \in Writers : \A j : HasRefreshed(v, j)' <=> (v = w /\ j = k)
  BY <1>10, <1>11 DEF HasRefreshed, Open
<1>15. \A v \in Writers, j \in Endpoints : ~HasRefreshed(v, j)
  BY <1>2, <1>3, <1>5 DEF HasRefreshed
<1>16. k \in Matches[k]
  BY <1>7, StoresAssumption DEF StoresAssumption
<1>17. cache' = Refreshed(tx)
  BY <1>2, <1>5 DEF RefreshCache
<1>18. /\ DOMAIN cache' \subseteq DOMAIN cache
       /\ \A at \in DOMAIN cache' :
             cache'[at] = IF at[1] \in Matches[k]
                          THEN Status(SeenResults(tx, at[1]), SeenEvents(tx, at[1]), at[2])
                          ELSE cache[at]
  BY <1>6, <1>17 DEF Refreshed
<1>19. ASSUME NEW at \in DOMAIN cache', at[1] \in Endpoints PROVE PageOk(at[1], at[2], cache[at])'
  <2>1. PICK j : j = at[1]
    OBVIOUS
  <2>2. PICK page : page = at[2]
    OBVIOUS
  <2>3. CASE j = k
    <3>1. SeenResults(tx, k) = tx.results[k] /\ SeenEvents(tx, k) = tx.events
      BY <1>6, <1>7 DEF SeenResults, SeenEvents
    <3>2. cache'[at] = Status(tx.results[k], tx.events, page)
      BY <1>16, <1>18, <2>1, <2>2, <2>3, <3>1
    <3>3. txs'[w].results[k] = tx.results[k] /\ txs'[w].events = tx.events
      BY <1>10, <1>11
    <3> QED
      BY <1>14, <2>1, <2>2, <2>3, <3>2, <3>3 DEF PageOk
  <2>4. CASE j # k
    <3>1. \A v \in Writers : ~HasRefreshed(v, j)'
      BY <1>14, <2>4
    <3>2. j \notin uncertain => cache'[at] = Committed(j, page)
      <4>1. CASE j \in Matches[k]
        <5>1. SeenResults(tx, j) = results[j] /\ SeenEvents(tx, j) = events[j]
          BY <1>6, <1>7, <2>4 DEF SeenResults, SeenEvents
        <5> QED
          BY <1>18, <2>1, <2>2, <4>1, <5>1 DEF Committed
      <4>2. CASE j \notin Matches[k]
        <5>1. cache'[at] = cache[at] /\ at \in DOMAIN cache
          BY <1>18, <2>1, <4>2
        <5>2. PageOk(j, page, cache[at])
          BY <1>1, <1>19, <2>1, <2>2, <5>1 DEF PagesOk
        <5> QED
          BY <1>15, <1>19, <2>1, <5>1, <5>2 DEF PageOk
      <4> QED
        BY <4>1, <4>2
    <3>3. Committed(j, page)' = Committed(j, page)
      BY <1>3 DEF Committed
    <3> QED
      BY <1>3, <2>1, <2>2, <3>1, <3>2, <3>3 DEF PageOk
  <2> QED
    BY <2>3, <2>4
<1>20. PagesOk'
  BY <1>1, <1>18, <1>19 DEF PagesOk
<1> QED
  BY <1>12, <1>13, <1>20 DEF Cached

\* Commit: what was refreshed is committed now.
LEMMA CommitKeepsCached ==
    ASSUME Inv, Cached, kind = "sqlite", NEW w \in Writers, Commit(w)
    PROVE  Cached'
<1>1. OneAtATime /\ ReadsOk /\ PagesOk
  BY DEF Cached
<1>2. PICK tx : tx = txs[w]
  OBVIOUS
<1>3. PICK k : k = txs[w].key
  OBVIOUS
<1>4. /\ k \in Endpoints \cup Suites /\ tx \in Transactions(k) /\ Open(w)
      /\ tx.step = "refreshed"
      /\ txs' = [txs EXCEPT ![w] = Idle]
      /\ \A x \in Keys : results'[x] = IF x \in Written(k) THEN tx.results[x] ELSE results[x]
      /\ \A x \in Keys : events'[x] = IF x = k THEN tx.events ELSE events[x]
  BY <1>2, <1>3, CommitStores
<1>5. /\ \A v \in Writers : v # w => ~Open(v)
      /\ \A r \in Readers : ~Reading(r)
      /\ ~tx.old
  BY <1>2, <1>4, OnlyOne
<1>6. UNCHANGED <<kind, reads, cache>>
  BY DEF Commit
<1>7. \A v \in Writers : ~Open(v)'
  BY <1>4, <1>5 DEF Open, Idle, Inv, Typed
<1>8. OneAtATime'
  BY <1>7 DEF OneAtATime
<1>9. ReadsOk'
  BY <1>1, <1>5, <1>6 DEF ReadsOk, ReadOk, Reading
<1>10. uncertain' = IF k \in Suites THEN uncertain ELSE uncertain \ {k}
  BY <1>2, <1>3, <1>5 DEF Commit
<1>11. \A v \in Writers : \A j : ~HasRefreshed(v, j)'
  BY <1>7 DEF HasRefreshed
<1>12. \A v \in Writers, j \in Endpoints : HasRefreshed(v, j) <=> (v = w /\ j = k)
  BY <1>2, <1>3, <1>4, <1>5 DEF HasRefreshed
<1>13. ASSUME NEW at \in DOMAIN cache, at[1] \in Endpoints PROVE PageOk(at[1], at[2], cache[at])'
  <2>1. PICK j \in Endpoints : j = at[1]
    BY <1>13
  <2>2. PICK page : page = at[2]
    OBVIOUS
  <2>3. PageOk(j, page, cache[at])
    BY <1>1, <2>1, <2>2 DEF PagesOk
  <2>4. j \in Keys
    BY DEF Keys
  <2>5. CASE j = k
    <3>1. cache[at] = Status(tx.results[k], tx.events, page)
      BY <1>2, <1>12, <2>3, <2>5 DEF PageOk
    <3>2. results'[k] = tx.results[k] /\ events'[k] = tx.events
      BY <1>4, <2>4, <2>5, WrittenIs
    <3> QED
      BY <1>6, <1>11, <2>1, <2>2, <2>5, <3>1, <3>2 DEF PageOk, Committed
  <2>6. CASE j # k
    <3>1. results'[j] = results[j] /\ events'[j] = events[j]
      BY <1>4, <2>4, <2>6, WrittenIs
    <3>2. j \notin uncertain' => cache[at] = Committed(j, page)
      BY <1>10, <1>12, <2>3, <2>6 DEF PageOk
    <3> QED
      BY <1>6, <1>11, <2>1, <2>2, <3>1, <3>2 DEF PageOk, Committed
  <2> QED
    BY <2>5, <2>6
<1>14. PagesOk'
  BY <1>1, <1>6, <1>13 DEF PagesOk
<1> QED
  BY <1>8, <1>9, <1>14 DEF Cached

\* CommitFails: what was refreshed is not committed.
LEMMA CommitFailsKeepsCached ==
    ASSUME Inv, Cached, kind = "sqlite", NEW w \in Writers, CommitFails(w)
    PROVE  Cached'
<1>1. OneAtATime /\ ReadsOk /\ PagesOk
  BY DEF Cached
<1>2. PICK k : k = txs[w].key
  OBVIOUS
<1>3. /\ txs[w].step = "refreshed" /\ txs' = [txs EXCEPT ![w] = Idle]
      /\ uncertain' = uncertain \cup ({k} \ Suites)
      /\ UNCHANGED <<kind, known, results, events, reads, cache>>
  BY <1>2 DEF CommitFails, Rollback
<1>4. Open(w)
  BY <1>3 DEF Open
<1>5. \A v \in Writers : v # w => ~Open(v)
  BY <1>4, OnlyOne
<1>6. \A v \in Writers : ~Open(v)'
  BY <1>3, <1>5 DEF Open, Idle, Inv, Typed
<1>7. OneAtATime'
  BY <1>6 DEF OneAtATime
<1>8. ReadsOk'
  BY <1>1, <1>3 DEF ReadsOk, ReadOk, Committed
<1>9. \A v \in Writers : \A j : ~HasRefreshed(v, j)'
  BY <1>6 DEF HasRefreshed
<1>10. \A v \in Writers, j \in Endpoints : HasRefreshed(v, j) => j = k
  BY <1>2, <1>5 DEF HasRefreshed
<1>11. Endpoints \cap Suites = {}
  BY StoresAssumption DEF StoresAssumption
<1>12. ASSUME NEW at \in DOMAIN cache, at[1] \in Endpoints PROVE PageOk(at[1], at[2], cache[at])'
  <2>1. PageOk(at[1], at[2], cache[at])
    BY <1>1, <1>12 DEF PagesOk
  <2>2. at[1] \notin uncertain' => at[1] \notin uncertain /\ at[1] # k
    BY <1>3, <1>11, <1>12
  <2>3. at[1] \notin uncertain' => cache[at] = Committed(at[1], at[2])
    BY <1>10, <1>12, <2>1, <2>2 DEF PageOk
  <2> QED
    BY <1>3, <1>9, <2>3 DEF PageOk, Committed
<1>13. PagesOk'
  BY <1>1, <1>3, <1>12 DEF PagesOk
<1> QED
  BY <1>7, <1>8, <1>13 DEF Cached

\* A page is read and cached while nobody writes.
LEMMA ReadersKeepCached ==
    ASSUME Inv, Cached, kind = "sqlite", NEW r \in Readers,
           \/ \E k \in Keys, page \in Pages : ReadEvents(r, k, page)
           \/ ReadResults(r) \/ CachePage(r)
    PROVE  Cached'
<1>1. OneAtATime /\ ReadsOk /\ PagesOk
  BY DEF Cached
<1>2. UNCHANGED <<kind, known, results, events, txs, uncertain>>
  BY DEF ReadEvents, ReadResults, CachePage
<1>3. \A w \in Writers : ~Open(w)
  <2>1. CASE \E k \in Keys, page \in Pages : ReadEvents(r, k, page)
    BY <2>1 DEF ReadEvents, CanBegin
  <2>2. CASE ReadResults(r) \/ CachePage(r)
    <3>1. Reading(r)
      BY <2>2 DEF ReadResults, CachePage, Reading, NoRead
    <3> QED
      BY <1>1, <3>1 DEF OneAtATime
  <2> QED
    BY <2>1, <2>2
<1>4. \A w \in Writers : ~Open(w)'
  BY <1>2, <1>3 DEF Open
<1>5. OneAtATime'
  BY <1>4 DEF OneAtATime
<1>6. \A w \in Writers : \A k : ~HasRefreshed(w, k) /\ ~HasRefreshed(w, k)'
  BY <1>3, <1>4 DEF HasRefreshed
<1>7. ASSUME NEW rd, reads' = [reads EXCEPT ![r] = rd], ReadOk(rd) PROVE ReadsOk'
  <2>1. r \in DOMAIN reads
    BY <1>1 DEF ReadsOk
  <2>2. reads'[r] = rd /\ \A q \in Readers : q # r => reads'[q] = reads[q]
    BY <1>1, <1>7, <2>1 DEF ReadsOk
  <2>3. reads' = [q \in Readers |-> reads'[q]]
    BY <1>1, <1>7 DEF ReadsOk
  <2>4. ASSUME NEW q \in Readers PROVE ReadOk(reads'[q])
    BY <1>1, <1>7, <2>2 DEF ReadsOk
  <2>5. ASSUME NEW q \in Readers PROVE ReadOk(reads[q])'
    BY <1>2, <2>4 DEF ReadOk, Committed
  <2> QED
    BY <2>3, <2>5 DEF ReadsOk
<1>8. cache' = cache => PagesOk'
  <2> SUFFICES ASSUME cache' = cache, NEW at \in DOMAIN cache, at[1] \in Endpoints
               PROVE  PageOk(at[1], at[2], cache[at])'
    BY <1>1 DEF PagesOk
  <2>1. PageOk(at[1], at[2], cache[at])
    BY <1>1 DEF PagesOk
  <2> QED
    BY <1>2, <1>6, <2>1 DEF PageOk, Committed
<1>9. ASSUME NEW k \in Keys, NEW page \in Pages, ReadEvents(r, k, page) PROVE Cached'
  <2>1. PICK rd : rd = [step |-> "events", at |-> <<k, page>>, status |-> Status(<<>>, events[k], page)]
    OBVIOUS
  <2>2. k \in Keys \ Suites
    BY <1>9 DEF ReadEvents
  <2>3. ReadOk(rd)
    BY <2>1, <2>2 DEF ReadOk
  <2>4. reads' = [reads EXCEPT ![r] = rd] /\ cache' = cache
    BY <1>9, <2>1 DEF ReadEvents
  <2> QED
    BY <1>2, <1>5, <1>7, <1>8, <2>3, <2>4 DEF Cached
<1>10. ASSUME ReadResults(r) PROVE Cached'
  <2>1. PICK rd : rd = reads[r]
    OBVIOUS
  <2>2. rd.step = "events" /\ ReadOk(rd) /\ r \in DOMAIN reads /\ cache' = cache
    BY <1>1, <1>10, <2>1 DEF ReadResults, ReadsOk
  <2>3. PICK k \in Keys \ Suites, page \in Pages :
           rd = [step |-> "events", at |-> <<k, page>>, status |-> Status(<<>>, events[k], page)]
    BY <2>2 DEF ReadOk, NoRead
  <2>4. PICK c : c = Committed(k, page)
    OBVIOUS
  <2>5. rd.at[1] = k /\ rd.at[2] = page
    BY <2>3
  <2>6. reads' = [reads EXCEPT ![r].step = "results", ![r].status.results = c.results]
    BY <1>10, <2>1, <2>4, <2>5 DEF ReadResults
  <2>7. PICK e : e = SqlPage(events[k], 1, MaxEvents)
    OBVIOUS
  <2>8. PICK x, y : rd.status = [results |-> x, events |-> e] /\ c = [results |-> y, events |-> e]
    BY <2>3, <2>4, <2>7 DEF Committed, Status
  <2>9. PICK t : t = [step |-> "results", at |-> <<k, page>>, status |-> c]
    OBVIOUS
  <2>10. reads' = [reads EXCEPT ![r] = t]
    <3>1. rd = [step |-> "events", at |-> <<k, page>>, status |-> [results |-> x, events |-> e]]
      BY <2>3, <2>8
    <3>2. reads' = [reads EXCEPT ![r].step = "results", ![r].status.results = y]
      BY <2>6, <2>8
    <3>3. t = [step |-> "results", at |-> <<k, page>>, status |-> [results |-> y, events |-> e]]
      BY <2>8, <2>9
    <3>4. PICK s : s = [rd EXCEPT !.step = "results"]
      OBVIOUS
    <3>5. s = [step |-> "results", at |-> <<k, page>>, status |-> [results |-> x, events |-> e]]
      BY <3>1, <3>4
    <3>6. [s EXCEPT !.status = [[results |-> x, events |-> e] EXCEPT !.results = y]] = t
      BY <3>3, <3>5
    <3>7. [s EXCEPT !.status.results = y] = t
      BY <3>5, <3>6
    <3> QED
      BY <2>1, <2>2, <3>2, <3>4, <3>7
  <2>11. ReadOk(t)
    BY <2>4, <2>9 DEF ReadOk
  <2> QED
    BY <1>2, <1>5, <1>7, <1>8, <2>2, <2>10, <2>11 DEF Cached
<1>11. ASSUME CachePage(r) PROVE Cached'
  <2>1. PICK rd : rd = reads[r]
    OBVIOUS
  <2>2. rd.step = "results" /\ ReadOk(rd)
    BY <1>1, <1>11, <2>1 DEF CachePage, ReadsOk
  <2>3. PICK k \in Keys \ Suites, page \in Pages :
           rd = [step |-> "results", at |-> <<k, page>>, status |-> Committed(k, page)]
    BY <2>2 DEF ReadOk, NoRead
  <2>4. rd.at = <<k, page>> /\ rd.status = Committed(k, page)
    BY <2>3
  <2>5. ReadsOk'
    <3>1. ReadOk(NoRead) /\ reads' = [reads EXCEPT ![r] = NoRead]
      BY <1>11 DEF CachePage, ReadOk
    <3> QED
      BY <1>7, <3>1
  <2>6. cache' = [at \in DOMAIN cache \cup {<<k, page>>} |->
                     IF at = <<k, page>> THEN Committed(k, page) ELSE cache[at]]
    BY <1>11, <2>1, <2>4 DEF CachePage
  <2>7. DOMAIN cache' \subseteq (Keys \ Suites) \X Pages
    BY <1>1, <2>6 DEF PagesOk
  <2>8. ASSUME NEW at \in DOMAIN cache', at[1] \in Endpoints PROVE PageOk(at[1], at[2], cache[at])'
    <3>1. at[1] \notin uncertain => cache'[at] = Committed(at[1], at[2])
      <4>1. CASE at = <<k, page>>
        BY <2>6, <4>1
      <4>2. CASE at # <<k, page>>
        <5>1. at \in DOMAIN cache /\ cache'[at] = cache[at]
          BY <2>6, <4>2
        <5>2. PageOk(at[1], at[2], cache[at])
          BY <1>1, <2>8, <5>1 DEF PagesOk
        <5> QED
          BY <1>6, <5>1, <5>2 DEF PageOk
      <4> QED
        BY <4>1, <4>2
    <3> QED
      BY <1>2, <1>6, <3>1 DEF PageOk, Committed
  <2> QED
    BY <1>2, <1>5, <2>5, <2>7, <2>8 DEF Cached, PagesOk
<1> QED
  BY <1>9, <1>10, <1>11

\* A page expires.
LEMMA ExpireKeepsCached ==
    ASSUME Cached, NEW at \in DOMAIN cache, Expire(at)
    PROVE  Cached'
<1>1. /\ UNCHANGED <<kind, known, results, events, txs, reads, uncertain>>
      /\ cache' = [other \in DOMAIN cache \ {at} |-> cache[other]]
  BY DEF Expire
<1>2. SUFFICES ASSUME kind = "sqlite" PROVE (OneAtATime /\ ReadsOk /\ PagesOk)'
  BY <1>1 DEF Cached
<1>3. OneAtATime /\ ReadsOk /\ PagesOk
  BY <1>2 DEF Cached
<1>4. OneAtATime' /\ ReadsOk'
  BY <1>1, <1>3 DEF OneAtATime, Open, Reading, ReadsOk, ReadOk, Committed
<1>5. ASSUME NEW other \in DOMAIN cache', other[1] \in Endpoints
      PROVE  PageOk(other[1], other[2], cache[other])'
  <2>1. other \in DOMAIN cache /\ cache'[other] = cache[other]
    BY <1>1
  <2>2. PageOk(other[1], other[2], cache[other])
    BY <1>3, <1>5, <2>1 DEF PagesOk
  <2> QED
    BY <1>1, <2>1, <2>2 DEF PageOk, HasRefreshed, Open, Committed
<1> QED
  BY <1>1, <1>3, <1>4, <1>5 DEF PagesOk

\* A new store begins with nothing cached and nobody reading.
LEMMA StartCached ==
    ASSUME cache' = Nothing, reads' = [r \in Readers |-> NoRead], \A w \in Writers : ~Open(w)'
    PROVE  Cached'
<1>1. OneAtATime'
  BY DEF OneAtATime
<1>2. ReadsOk'
  <2>1. \A r \in Readers : reads'[r] = NoRead
    OBVIOUS
  <2> QED
    BY <2>1 DEF ReadsOk, ReadOk
<1>3. PagesOk'
  BY DEF PagesOk, Nothing
<1> QED
  BY <1>1, <1>2, <1>3 DEF Cached

\* A deletion waits for SQLite's connection; the one of endpoints empties the cache.
LEMMA DeletionKeepsCached ==
    ASSUME Inv, Cached, kind = "sqlite", DeleteSuites \/ DeleteEndpoints
    PROVE  Cached'
<1>1. OneAtATime /\ ReadsOk /\ PagesOk
  BY DEF Cached
<1>2. /\ UNCHANGED <<kind, txs, reads, uncertain>>
      /\ \A w \in Writers : ~Open(w)
      /\ \A r \in Readers : ~Reading(r)
  BY DEF DeleteSuites, DeleteEndpoints, Delete, CanBegin
<1>3. \A w \in Writers : ~Open(w)'
  BY <1>2 DEF Open
<1>4. reads' = [r \in Readers |-> NoRead]
  BY <1>1, <1>2 DEF ReadsOk, Reading
<1>5. CASE DeleteEndpoints
  BY <1>3, <1>4, <1>5, StartCached DEF DeleteEndpoints
<1>6. CASE DeleteSuites
  <2>1. PICK gone : gone = Suites \ starting.keep
    OBVIOUS
  <2>2. PICK emptied : emptied = gone \cup {MemberOf[s] : s \in gone}
    OBVIOUS
  <2>3. Delete(gone, emptied) /\ cache' = cache
    BY <1>6, <2>1, <2>2 DEF DeleteSuites
  <2>4. \A k \in Endpoints : k \in Keys /\ k \notin gone /\ k \notin emptied
    BY <2>1, <2>2, StoresAssumption DEF StoresAssumption, Keys
  <2>5. \A k \in Endpoints : results'[k] = results[k] /\ events'[k] = events[k]
    BY <2>3, <2>4 DEF Delete
  <2>6. OneAtATime' /\ ReadsOk'
    BY <1>3, <1>4 DEF OneAtATime, ReadsOk, ReadOk
  <2>7. ASSUME NEW at \in DOMAIN cache, at[1] \in Endpoints PROVE PageOk(at[1], at[2], cache[at])'
    <3>1. PageOk(at[1], at[2], cache[at])
      BY <1>1, <2>7 DEF PagesOk
    <3>2. at[1] \notin uncertain => cache[at] = Committed(at[1], at[2])
      BY <1>2, <3>1 DEF PageOk, HasRefreshed
    <3>3. \A w \in Writers : ~HasRefreshed(w, at[1])'
      BY <1>3 DEF HasRefreshed
    <3> QED
      BY <1>2, <2>3, <2>5, <2>7, <3>2, <3>3 DEF PageOk, Committed
  <2>8. PagesOk'
    BY <1>1, <2>3, <2>7 DEF PagesOk
  <2> QED
    BY <2>6, <2>8 DEF Cached
<1> QED
  BY <1>5, <1>6

\* Every step keeps what SQLite's cache holds.
LEMMA NextCached == Inv /\ Cached /\ [Next]_vars => Cached'
<1> SUFFICES ASSUME Inv, Cached, [Next]_vars PROVE Cached'
  OBVIOUS
<1>1. kind' = kind
  <2>1. \A k \in Endpoints \cup Suites, ok \in BOOLEAN :
            /\ InsertInMemory(k, ok) => kind' = kind
            /\ \A w \in Writers : Begin(w, k, ok) => kind' = kind
    BY DEF InsertInMemory, Begin
  <2>2. \A w \in Writers : InsertEvents(w) \/ InsertResult(w) \/ InsertResultFails(w)
            => kind' = kind
    BY DEF InsertEvents, InsertResult, InsertResultFails
  <2>3. \A w \in Writers : RefreshCache(w) \/ InsertSuiteResult(w) \/ SkipMember(w) => kind' = kind
    BY DEF RefreshCache, InsertSuiteResult, SkipMember
  <2>4. \A w \in Writers : Commit(w) \/ CommitFails(w) => kind' = kind
    BY DEF Commit, CommitFails
  <2>5. /\ \A r \in Readers : ReadResults(r) \/ CachePage(r) => kind' = kind
        /\ \A r \in Readers, k \in Keys, page \in Pages :
              ReadEvents(r, k, page) => kind' = kind
    BY DEF ReadEvents, ReadResults, CachePage
  <2>6. \A keep \in Configurations : Reload(keep) \/ Restart(keep) => kind' = kind
    BY DEF Reload, Restart, Initialize
  <2>7. UNCHANGED vars \/ (\E at \in DOMAIN cache : Expire(at)) => kind' = kind
    BY DEF Expire, vars
  <2>8. DeleteSuites \/ DeleteEndpoints \/ DeletionFails => kind' = kind
    BY DEF DeleteSuites, DeleteEndpoints, DeletionFails
  <2> QED
    BY <2>1, <2>2, <2>3, <2>4, <2>5, <2>6, <2>7, <2>8 DEF Next, Insert
<1>2. CASE kind # "sqlite"
  BY <1>1, <1>2 DEF Cached
<1>3. CASE kind = "sqlite"
  <2>1. CASE UNCHANGED vars \/ DeletionFails
    <3>1. UNCHANGED <<kind, known, results, events, txs, reads, cache, uncertain>>
      BY <2>1 DEF vars, DeletionFails
    <3>2. OneAtATime /\ ReadsOk /\ PagesOk
      BY <1>3 DEF Cached
    <3>3. OneAtATime' /\ ReadsOk'
      BY <3>1, <3>2 DEF OneAtATime, Open, Reading, ReadsOk, ReadOk, Committed
    <3>4. PagesOk'
      BY <3>1, <3>2 DEF PagesOk, PageOk, HasRefreshed, Open, Committed
    <3> QED
      BY <3>3, <3>4 DEF Cached
  <2>2. ASSUME NEW k \in Endpoints \cup Suites, NEW ok \in BOOLEAN, InsertInMemory(k, ok)
        PROVE  Cached'
    BY <1>3, <2>2 DEF InsertInMemory
  <2>3. ASSUME NEW w \in Writers, Insert(w) PROVE Cached'
    <3>1. ASSUME NEW k \in Endpoints \cup Suites, NEW ok \in BOOLEAN, Begin(w, k, ok)
          PROVE  Cached'
      BY <1>3, <3>1, BeginKeepsCached
    <3>2. CASE \/ InsertEvents(w) \/ InsertResult(w) \/ InsertResultFails(w)
               \/ InsertSuiteResult(w) \/ SkipMember(w)
      BY <1>3, <3>2, StatementsKeepCached
    <3>3. CASE RefreshCache(w)
      BY <1>3, <3>3, RefreshKeepsCached
    <3>4. CASE Commit(w)
      BY <1>3, <3>4, CommitKeepsCached
    <3>5. CASE CommitFails(w)
      BY <1>3, <3>5, CommitFailsKeepsCached
    <3> QED
      BY <2>3, <3>1, <3>2, <3>3, <3>4, <3>5 DEF Insert
  <2>4. ASSUME NEW r \in Readers,
               \/ \E k \in Keys, page \in Pages : ReadEvents(r, k, page)
               \/ ReadResults(r) \/ CachePage(r)
        PROVE  Cached'
    BY <1>3, <2>4, ReadersKeepCached
  <2>5. ASSUME NEW at \in DOMAIN cache, Expire(at) PROVE Cached'
    BY <2>5, ExpireKeepsCached
  <2>6. ASSUME NEW keep \in Configurations, Reload(keep) PROVE Cached'
    <3>1. \A w \in Writers : ~Open(w)'
      BY <1>3, <2>6 DEF Reload, Open, Idle
    <3> QED
      BY <2>6, <3>1, StartCached DEF Reload, Initialize
  <2>7. ASSUME NEW keep \in Configurations, Restart(keep) PROVE Cached'
    <3>1. \A w \in Writers : ~Open(w)'
      BY <2>7 DEF Restart, Open, Idle
    <3> QED
      BY <2>7, <3>1, StartCached DEF Restart, Initialize
  <2>8. CASE DeleteSuites \/ DeleteEndpoints
    BY <1>3, <2>8, DeletionKeepsCached
  <2> QED
    BY <2>1, <2>2, <2>3, <2>4, <2>5, <2>6, <2>7, <2>8 DEF Next
<1> QED
  BY <1>2, <1>3

\* Between two insertions into SQLite the cached pages of endpoints are what the
\* tables hold, but for those of an endpoint whose last commit failed.
THEOREM CachedPagesAreCommittedHolds == Spec => []CachedPagesAreCommitted
<1>1. Cached => CachedPagesAreCommitted
  <2> SUFFICES ASSUME Cached, kind = "sqlite", \A w \in Writers : ~Open(w),
                      NEW at \in DOMAIN cache, at[1] \notin uncertain \cup Members
               PROVE  cache[at] = Committed(at[1], at[2])
    BY DEF CachedPagesAreCommitted
  <2>1. at[1] \in Endpoints
    BY DEF Cached, PagesOk, Keys
  <2> QED
    BY <2>1 DEF Cached, PagesOk, PageOk, HasRefreshed
<1> QED
  BY <1>1, InitInv, InitCached, NextInv, NextCached, PTL DEF Spec
-----------------------------------------------------------------------------
(* The stores implement the history of endpoints and suites. *)

Histored == Endpoints \cup Suites
AbstractResults == [k \in Histored |-> Newest(results[k], MaxResults)]
AbstractEvents == [k \in Histored |-> Newest(events[k], MaxEvents)]

\* The history's notion of the last n is that of the stores.
LEMMA LastOfIs ==
    ASSUME NEW S, NEW s \in Seq(S), NEW n \in Nat
    PROVE  History!LastOf(s, n) = Newest(s, n)
<1>1. PICK l \in Nat : l = Len(s)
  OBVIOUS
<1>2. CASE l <= n
  <2>1. Newest(s, n) = s
    BY <1>1, <1>2, NewestWhole
  <2> QED
    BY <1>1, <1>2, <2>1 DEF History!LastOf
<1>3. CASE ~(l <= n)
  <2>1. Excess(s, n) = l - n
    BY <1>1, <1>3 DEF Excess
  <2> QED
    BY <1>1, <1>3, <2>1 DEF History!LastOf, Newest
<1> QED
  BY <1>2, <1>3

\* What an insertion of any store makes of a key, a clean-up or not.
LEMMA ObservedIs ==
    ASSUME Inv, NEW k \in Histored, NEW ok \in BOOLEAN,
           NEW more \in Seq(EventTypes),
           k \in Endpoints => more = NewEvents(events[k], results[k], ok),
           k \in Suites => more = <<>>,
           \A j \in Histored : j # k => results'[j] = results[j] /\ events'[j] = events[j],
           results'[k] \in {Append(results[k], Row(ok)),
                            Newest(Append(results[k], Row(ok)), MaxResults)},
           Newest(events'[k], MaxEvents) = Newest(events[k] \o more, MaxEvents)
    PROVE  History!Observe(k, ok)
<1>1. k \in Keys /\ (k \in Endpoints => k \notin Suites)
  BY StoresAssumption DEF StoresAssumption, Histored, Keys
<1>2. PICK rs \in Seq(Rows) : rs = results[k]
  BY <1>1 DEF Inv, Typed
<1>3. PICK es \in Seq(EventTypes) : es = events[k]
  BY <1>1 DEF Inv, Typed
<1>4. PICK row \in Rows : row = Row(ok)
  BY DEF Row, Rows
<1>5. PICK rn : rn = Newest(rs, MaxResults)
  OBVIOUS
<1>6. PICK en : en = Newest(es, MaxEvents)
  OBVIOUS
<1>7. rn \in Seq(Rows) /\ en \in Seq(EventTypes)
  BY <1>5, <1>6, NewestIs, Bounds
<1>8. AbstractResults[k] = rn /\ AbstractEvents[k] = en
  BY <1>2, <1>3, <1>5, <1>6 DEF AbstractResults, AbstractEvents
<1>9. History!Changes(k, ok) = more
  <2>1. CASE k \in Suites
    BY <2>1 DEF History!Changes
  <2>2. CASE k \in Endpoints
    <3>1. IF rs = <<>> THEN es = <<>> ELSE es # <<>> /\ rs # <<>>
      BY <1>2, <1>3, <2>2 DEF Inv, Histories, HistoryOf, Follows
    <3>2. CASE rs = <<>>
      <4>1. rn = <<>>
        <5>1. Len(rs) <= MaxResults
          BY <3>2, Bounds
        <5> QED
          BY <1>5, <3>2, <5>1, NewestWhole, Bounds
      <4>2. more = <<"START", ToEvent(ok)>>
        BY <1>2, <1>3, <2>2, <3>1, <3>2 DEF NewEvents
      <4> QED
        BY <1>1, <1>8, <2>2, <4>1, <4>2 DEF History!Changes, History!Outcome, ToEvent, AbstractResults
    <3>3. CASE rs # <<>>
      <4>1. rn # <<>> /\ Last(rn) = Last(rs)
        BY <1>2, <1>5, <3>3, NewestKeepsLast, Bounds
      <4>2. more = IF Last(rs).ok = ok THEN <<>> ELSE <<ToEvent(ok)>>
        BY <1>2, <1>3, <2>2, <3>1, <3>3 DEF NewEvents
      <4>3. rn[Len(rn)] = Last(rs)
        BY <4>1 DEF Last
      <4> QED
        BY <1>1, <1>8, <2>2, <4>1, <4>2, <4>3 DEF History!Changes, History!Outcome, ToEvent, AbstractResults
    <3> QED
      BY <3>2, <3>3
  <2> QED
    BY <2>1, <2>2 DEF Histored
<1>10. History!LastOf(Append(rn, row), MaxResults) = Newest(results'[k], MaxResults)
  <2>1. Append(rn, row) \in Seq(Rows) /\ Append(rs, row) \in Seq(Rows)
    BY <1>7, AppendProperties
  <2>2. Newest(Append(rn, row), MaxResults) = Newest(Append(rs, row), MaxResults)
    BY <1>5, NewestTwice, Bounds
  <2>3. Newest(Newest(Append(rs, row), MaxResults), MaxResults) = Newest(Append(rs, row), MaxResults)
    <3>1. PICK all \in Seq(Rows) : all = Append(rs, row)
      BY <2>1
    <3>2. MaxResults \in Nat
      BY Bounds
    <3>3. Newest(Newest(all, MaxResults), MaxResults) = Newest(all, MaxResults)
      BY <3>2, NewestTwice, Zenon
    <3> QED
      BY <3>1, <3>3
  <2>4. History!LastOf(Append(rn, row), MaxResults) = Newest(Append(rn, row), MaxResults)
    BY <2>1, LastOfIs, Bounds
  <2> QED
    BY <1>2, <1>4, <2>2, <2>3, <2>4
<1>11. History!LastOf(en \o more, MaxEvents) = Newest(events'[k], MaxEvents)
  <2>1. en \o more \in Seq(EventTypes)
    BY <1>7, ConcatProperties
  <2>2. Newest(en \o more, MaxEvents) = Newest(es \o more, MaxEvents)
    BY <1>6, NewestConcat, Bounds
  <2>3. History!LastOf(en \o more, MaxEvents) = Newest(en \o more, MaxEvents)
    BY <2>1, LastOfIs, Bounds
  <2> QED
    BY <1>3, <2>2, <2>3
<1>12. AbstractResults' = [AbstractResults EXCEPT ![k] =
                              History!LastOf(Append(@, [ok |-> ok, of |-> 0]), MaxResults)]
  <2>1. row = [ok |-> ok, of |-> 0]
    BY <1>4 DEF Row
  <2>2. AbstractResults'[k] = History!LastOf(Append(rn, row), MaxResults)
    BY <1>10 DEF AbstractResults
  <2>3. \A j \in Histored : j # k => AbstractResults'[j] = AbstractResults[j]
    BY DEF AbstractResults
  <2> QED
    BY <1>8, <2>1, <2>2, <2>3 DEF AbstractResults
<1>13. AbstractEvents' = [AbstractEvents EXCEPT ![k] = History!LastOf(@ \o more, MaxEvents)]
  <2>1. AbstractEvents'[k] = History!LastOf(en \o more, MaxEvents)
    BY <1>11 DEF AbstractEvents
  <2>2. \A j \in Histored : j # k => AbstractEvents'[j] = AbstractEvents[j]
    BY DEF AbstractEvents
  <2> QED
    BY <1>8, <2>1, <2>2 DEF AbstractEvents
<1> QED
  BY <1>9, <1>12, <1>13 DEF History!Observe, AbstractResults, AbstractEvents, Histored

\* A commit is an observation.
LEMMA CommitObserves ==
    ASSUME Inv, NEW w \in Writers, Commit(w)
    PROVE  \E k \in Histored, ok \in BOOLEAN : History!Observe(k, ok)
<1>1. PICK k : k = txs[w].key
  OBVIOUS
<1>2. PICK ok : ok = txs[w].ok
  OBVIOUS
<1>3. /\ k \in Histored /\ ok \in BOOLEAN
      /\ results'[k] = AfterResults(results[k], ok)
      /\ k \in Endpoints => events'[k] = AfterEvents(events[k], results[k], ok)
      /\ k \in Suites => events'[k] = <<>>
  BY <1>1, <1>2, CommitIs DEF Histored
<1>4. ASSUME NEW j \in Histored, j # k PROVE results'[j] = results[j] /\ events'[j] = events[j]
  <2>1. /\ \A x \in Keys : results'[x] = IF x \in Written(k) THEN txs[w].results[x] ELSE results[x]
        /\ \A x \in Keys : events'[x] = IF x = k THEN txs[w].events ELSE events[x]
    BY <1>1, CommitStores
  <2>2. j \in Keys /\ j \notin Written(k)
    BY <1>3, <1>4, WrittenIs DEF Histored
  <2> QED
    BY <1>4, <2>1, <2>2
<1>5. k \in Keys /\ (k \in Endpoints => k \notin Suites)
  BY <1>3, StoresAssumption DEF StoresAssumption, Histored, Keys
<1>6. PICK es \in Seq(EventTypes) : es = events[k]
  BY <1>5 DEF Inv, Typed
<1>7. results[k] \in Seq(Rows)
  BY <1>5 DEF Inv, Typed
<1>8. results'[k] \in {Append(results[k], Row(ok)), Newest(Append(results[k], Row(ok)), MaxResults)}
  BY <1>3 DEF AfterResults, ResultsAfter
<1>9. CASE k \in Endpoints
  <2>1. PICK more : more = NewEvents(es, results[k], ok)
    OBVIOUS
  <2>2. more \in Seq(EventTypes)
    BY <1>3, <1>6, <1>7, <1>9, <2>1, InsertionFollows DEF Inv, Histories, HistoryOf
  <2>3. PICK all \in Seq(EventTypes) : all = es \o more
    BY <2>2, ConcatProperties
  <2>4. events'[k] \in {all, Newest(all, MaxEvents)}
    BY <1>3, <1>6, <1>9, <2>1, <2>3 DEF AfterEvents
  <2>5. Newest(Newest(all, MaxEvents), MaxEvents) = Newest(all, MaxEvents)
    <3>1. "START" \in EventTypes
      BY DEF EventTypes
    <3> QED
      BY <3>1, NewestTwice, Bounds
  <2>6. Newest(events'[k], MaxEvents) = Newest(es \o more, MaxEvents)
    BY <2>3, <2>4, <2>5
  <2>7. History!Observe(k, ok)
    BY <1>3, <1>4, <1>5, <1>6, <1>8, <1>9, <2>1, <2>2, <2>6, ObservedIs
  <2> QED
    BY <1>3, <2>7
<1>10. CASE k \in Suites
  <2>1. events[k] = <<>> /\ events'[k] = <<>>
    BY <1>3, <1>10 DEF Inv, Histories, SuiteHistoryOf
  <2>2. PICK more \in Seq(EventTypes) : more = <<>>
    <3>1. <<>> \in Seq(EventTypes)
      OBVIOUS
    <3> QED
      BY <3>1
  <2>3. es \o more = es
    BY <2>2, ConcatEmptySeq
  <2>4. Newest(events'[k], MaxEvents) = Newest(events[k] \o more, MaxEvents)
    BY <1>6, <2>1, <2>3
  <2>5. History!Observe(k, ok)
    BY <1>3, <1>4, <1>5, <1>8, <1>10, <2>2, <2>4, ObservedIs
  <2> QED
    BY <1>3, <2>5
<1> QED
  BY <1>3, <1>9, <1>10 DEF Histored

\* An insertion into the memory store is one, too.
LEMMA InsertInMemoryObserves ==
    ASSUME Inv, NEW k \in Histored, NEW ok \in BOOLEAN, InsertInMemory(k, ok)
    PROVE  History!Observe(k, ok)
<1>1. k \in Keys /\ (k \in Endpoints => k \notin Suites)
  BY StoresAssumption DEF StoresAssumption, Histored, Keys
<1>2. /\ events' = IF k \in Suites THEN events ELSE [events EXCEPT ![k] = EventsInMemory(k, ok)]
      /\ results' = [results EXCEPT ![k] = Newest(Append(@, Row(ok)), MaxResults)]
  BY DEF InsertInMemory
<1>3. results \in [Keys -> Seq(Rows)] /\ events \in [Keys -> Seq(EventTypes)] /\ Histored \subseteq Keys
  BY DEF Inv, Typed, Histored, Keys
<1>4. \A j \in Histored : j # k => results'[j] = results[j] /\ events'[j] = events[j]
  <2>1. CASE k \in Suites
    BY <1>2, <1>3, <2>1
  <2>2. CASE k \notin Suites
    BY <1>2, <1>3, <2>2
  <2> QED
    BY <2>1, <2>2
<1>5. results'[k] = Newest(Append(results[k], Row(ok)), MaxResults)
  BY <1>1, <1>2, <1>3
<1>6. PICK es \in Seq(EventTypes) : es = events[k]
  BY <1>1, <1>3
<1>7. CASE k \in Endpoints
  <2>1. PICK more : more = NewEvents(es, results[k], ok)
    OBVIOUS
  <2>2. more \in Seq(EventTypes)
    BY <1>1, <1>3, <1>6, <1>7, <2>1, InsertionFollows DEF Inv, Histories, HistoryOf
  <2>3. PICK all \in Seq(EventTypes) : all = es \o more
    BY <2>2, ConcatProperties
  <2>4. events'[k] = EventsInMemory(k, ok)
    BY <1>1, <1>2, <1>3, <1>7
  <2>5. events'[k] \in {all, Newest(all, MaxEvents)}
    BY <1>6, <1>7, <2>1, <2>3, <2>4, EventsInMemoryIs
  <2>6. Newest(Newest(all, MaxEvents), MaxEvents) = Newest(all, MaxEvents)
    <3>1. "START" \in EventTypes
      BY DEF EventTypes
    <3> QED
      BY <3>1, NewestTwice, Bounds
  <2>7. Newest(events'[k], MaxEvents) = Newest(es \o more, MaxEvents)
    BY <2>3, <2>5, <2>6
  <2> QED
    BY <1>1, <1>4, <1>5, <1>6, <1>7, <2>1, <2>2, <2>7, ObservedIs
<1>8. CASE k \in Suites
  <2>1. events'[k] = events[k] /\ k \notin Endpoints
    BY <1>1, <1>2, <1>8
  <2>2. PICK more \in Seq(EventTypes) : more = <<>>
    <3>1. <<>> \in Seq(EventTypes)
      OBVIOUS
    <3> QED
      BY <3>1
  <2>3. es \o more = es
    BY <2>2, ConcatEmptySeq
  <2>4. Newest(events'[k], MaxEvents) = Newest(events[k] \o more, MaxEvents)
    BY <1>6, <2>1, <2>3
  <2> QED
    BY <1>4, <1>5, <1>8, <2>1, <2>2, <2>4, ObservedIs
<1> QED
  BY <1>7, <1>8 DEF Histored

\* What is emptied is forgotten.
LEMMA EmptiedForgets ==
    ASSUME \A k \in Histored :
              \/ results'[k] = <<>> /\ events'[k] = <<>>
              \/ results'[k] = results[k] /\ events'[k] = events[k]
    PROVE  History!Forget
<1>1. Newest(<<>>, MaxResults) = <<>> /\ Newest(<<>>, MaxEvents) = <<>>
  <2>1. <<>> \in Seq(Rows) /\ Len(<<>>) <= MaxResults /\ Len(<<>>) <= MaxEvents
    BY Bounds
  <2> QED
    BY <2>1, NewestWhole, Bounds
<1>2. ASSUME NEW k \in Histored
      PROVE  \/ AbstractResults'[k] = <<>> /\ AbstractEvents'[k] = <<>>
             \/ AbstractResults'[k] = AbstractResults[k] /\ AbstractEvents'[k] = AbstractEvents[k]
  <2>1. CASE results'[k] = <<>> /\ events'[k] = <<>>
    BY <1>1, <2>1 DEF AbstractResults, AbstractEvents
  <2>2. CASE results'[k] = results[k] /\ events'[k] = events[k]
    BY <2>2 DEF AbstractResults, AbstractEvents
  <2> QED
    BY <2>1, <2>2
<1> QED
  BY <1>2 DEF History!Forget, AbstractResults, AbstractEvents, Histored

\* Either deletion of a reload forgets what it deletes.
LEMMA DeletionForgets ==
    ASSUME Inv, DeleteSuites \/ DeleteEndpoints
    PROVE  History!Forget
<1>1. PICK keys, emptied : Deletion(keys, emptied) /\ Delete(keys, emptied)
  <2>1. CASE DeleteSuites
    <3>1. PICK gone : gone = Suites \ starting.keep
      OBVIOUS
    <3>2. PICK all : all = gone \cup {MemberOf[s] : s \in gone}
      OBVIOUS
    <3> QED
      BY <2>1, <3>1, <3>2 DEF DeleteSuites, Deletion
  <2>2. CASE DeleteEndpoints
    <3>1. PICK gone : gone = (Endpoints \cup Members) \ starting.keep
      OBVIOUS
    <3> QED
      BY <2>2, <3>1 DEF DeleteEndpoints, Deletion
  <2> QED
    BY <2>1, <2>2
<1>2. /\ \A k \in Histored : k \in emptied <=> k \in keys
      /\ \A x \in Keys : /\ results'[x] = IF x \in emptied THEN <<>> ELSE results[x]
                         /\ events'[x] = IF x \in keys THEN <<>> ELSE events[x]
  BY <1>1, EmptiedIs, DeleteIs DEF Histored
<1>3. Histored \subseteq Keys
  BY DEF Histored, Keys
<1> QED
  BY <1>2, <1>3, EmptiedForgets

\* A new store in memory has forgotten everything, and a new one on tables nothing.
LEMMA InitializeForgets ==
    ASSUME NEW keep, NEW watched, Initialize(keep, watched)
    PROVE  History!Forget
<1>1. Histored \subseteq Keys
  BY DEF Histored, Keys
<1>2. CASE kind = "memory"
  <2>1. \A k \in Keys : results'[k] = <<>> /\ events'[k] = <<>>
    BY <1>2 DEF Initialize
  <2> QED
    BY <1>1, <2>1, EmptiedForgets
<1>3. CASE kind # "memory"
  BY <1>3, EmptiedForgets DEF Initialize
<1> QED
  BY <1>2, <1>3

\* The steps of the stores are those of the history, or change nothing of it.
LEMMA NextHistory ==
    Inv /\ [Next]_vars => History!Next \/ UNCHANGED <<AbstractResults, AbstractEvents>>
<1> SUFFICES ASSUME Inv, [Next]_vars
             PROVE  History!Next \/ UNCHANGED <<AbstractResults, AbstractEvents>>
  OBVIOUS
<1>1. UNCHANGED <<results, events>> => UNCHANGED <<AbstractResults, AbstractEvents>>
  BY DEF AbstractResults, AbstractEvents
<1>2. CASE UNCHANGED <<results, events>>
  BY <1>1, <1>2
<1>3. ASSUME NEW k \in Endpoints \cup Suites, NEW ok \in BOOLEAN, InsertInMemory(k, ok)
      PROVE  History!Next
  BY <1>3, InsertInMemoryObserves DEF History!Next, Histored
<1>4. ASSUME NEW w \in Writers, Commit(w) PROVE History!Next
  BY <1>4, CommitObserves DEF History!Next, Histored
<1>5. ASSUME NEW keep \in Configurations, Reload(keep) \/ Restart(keep) PROVE History!Next
  BY <1>5, InitializeForgets DEF Reload, Restart, History!Next
<1>6. ASSUME DeleteSuites \/ DeleteEndpoints PROVE History!Next
  BY <1>6, DeletionForgets DEF History!Next
<1>7. [Next]_vars =>
         \/ UNCHANGED <<results, events>>
         \/ \E k \in Endpoints \cup Suites, ok \in BOOLEAN : InsertInMemory(k, ok)
         \/ \E w \in Writers : Commit(w)
         \/ \E keep \in Configurations : Reload(keep) \/ Restart(keep)
         \/ DeleteSuites \/ DeleteEndpoints
  <2>1. UNCHANGED vars => UNCHANGED <<results, events>>
    BY DEF vars
  <2>2. \A w \in Writers, k \in Endpoints \cup Suites, ok \in BOOLEAN :
            Begin(w, k, ok) => UNCHANGED <<results, events>>
    BY DEF Begin
  <2>3. \A w \in Writers : InsertEvents(w) \/ InsertResult(w) \/ InsertResultFails(w)
            => UNCHANGED <<results, events>>
    BY DEF InsertEvents, InsertResult, InsertResultFails
  <2>4. \A w \in Writers : RefreshCache(w) \/ InsertSuiteResult(w) \/ SkipMember(w) \/ CommitFails(w)
            => UNCHANGED <<results, events>>
    BY DEF RefreshCache, InsertSuiteResult, SkipMember, CommitFails
  <2>5. \A r \in Readers : ReadResults(r) \/ CachePage(r) => UNCHANGED <<results, events>>
    BY DEF ReadResults, CachePage
  <2>6. \A r \in Readers, k \in Keys, page \in Pages :
            ReadEvents(r, k, page) => UNCHANGED <<results, events>>
    BY DEF ReadEvents
  <2>7. (\E at \in DOMAIN cache : Expire(at)) \/ DeletionFails => UNCHANGED <<results, events>>
    BY DEF Expire, DeletionFails
  <2> QED
    BY <2>1, <2>2, <2>3, <2>4, <2>5, <2>6, <2>7 DEF Next, Insert
<1> QED
  BY <1>2, <1>3, <1>4, <1>5, <1>6, <1>7

\* Every store implements the history: whatever it cleans up, and however
\* transactions interleave and fail.
THEOREM ImplementsStatusHistoryHolds == Spec => ImplementsStatusHistory
<1>1. Init => History!Init
  <2> SUFFICES ASSUME Init PROVE History!Init
    OBVIOUS
  <2>1. Newest(<<>>, MaxResults) = <<>> /\ Newest(<<>>, MaxEvents) = <<>>
    <3>1. <<>> \in Seq(Rows) /\ Len(<<>>) <= MaxResults /\ Len(<<>>) <= MaxEvents
      BY Bounds
    <3> QED
      BY <3>1, NewestWhole, Bounds
  <2>2. \A k \in Endpoints \cup Suites : results[k] = <<>> /\ events[k] = <<>>
    BY DEF Init, Keys
  <2> QED
    BY <2>1, <2>2 DEF History!Init
<1>2. Inv /\ [Next]_vars => History!Next \/ UNCHANGED <<AbstractResults, AbstractEvents>>
  BY NextHistory
<1>3. Inv /\ [Next]_vars =>
        History!Next \/ UNCHANGED
          <<[k \in Endpoints \cup Suites |-> Newest(results[k], MaxResults)],
            [k \in Endpoints \cup Suites |-> Newest(events[k], MaxEvents)]>>
  BY <1>2 DEF AbstractResults, AbstractEvents, Histored
<1> QED
  BY <1>1, <1>3, StoresInvariant, PTL DEF Spec, ImplementsStatusHistory, History!Spec
-----------------------------------------------------------------------------
(* Uptime *)

Entries(S) ==
    /\ IsFiniteSet(S)
    /\ \A e \in S : e = [hour |-> e.hour, total |-> e.total] /\ e.hour \in Nat /\ e.total \in Nat

\* Of each hour there is one entry at most.
OnePerHour(S) == \A e, f \in S : e.hour = f.hour => e = f

From(S, hour) == {e \in S : e.hour >= hour}
-----------------------------------------------------------------------------
(* Totals *)

\* The total of a set is the sum, over it, of the totals of a larger one.
LEMMA TotalIs ==
    ASSUME NEW S, NEW U, U \subseteq S, IsFiniteSet(S)
    PROVE  Total(U) = SumOver([e \in S |-> e.total], U)
<1> DEFINE f == [e \in U |-> e.total]
           P(h) == h = [s \in SUBSET U |->
                           IF s = {} THEN 0 ELSE Chosen(s).total + h[s \ {Chosen(s)}]]
           Q(h) == h = [s \in SUBSET U |->
                           IF s = {} THEN 0 ELSE f[Chosen(s)] + h[s \ {Chosen(s)}]]
<1>1. Total(U) = (CHOOSE h : P(h))[U]
  BY DEF Total, MapThenSumSet, MapThenFoldSet, Chosen
<1>2. SumOver(f, U) = (CHOOSE h : Q(h))[U]
  BY DEF SumOver, MapThenSumSet, MapThenFoldSet, Chosen
<1>3. \A h : P(h) <=> Q(h)
  <2>1. \A s \in SUBSET U : s # {} => Chosen(s) \in U
    BY DEF Chosen
  <2>2. \A s \in SUBSET U : s # {} => f[Chosen(s)] = Chosen(s).total
    BY <2>1
  <2> QED
    BY <2>2
<1>4. (CHOOSE h : P(h)) = (CHOOSE h : Q(h))
  <2> HIDE DEF P, Q
  <2> QED
    BY <1>3
<1> DEFINE g == [e \in S |-> e.total]
<1>5. SumOver(f, U) = SumOver(g, U)
  <2>1. IsFiniteSet(U) /\ \A e \in U : f[e] = g[e]
    BY FS_Subset
  <2> HIDE DEF f, g
  <2> QED
    BY <2>1, SumSame
<1> QED
  BY <1>1, <1>2, <1>4, <1>5

\* The total of two sets without a common entry.
LEMMA TotalDisjoint ==
    ASSUME NEW S, Entries(S), NEW T, Entries(T), S \cap T = {}
    PROVE  /\ Total(S \cup T) = Total(S) + Total(T)
           /\ Total(S) \in Nat /\ Total(T) \in Nat
<1> DEFINE U == S \cup T
           f == [e \in U |-> e.total]
<1>1. IsFiniteSet(U) /\ \A e \in U : f[e] \in Nat /\ f[e] \in Int
  <2>1. IsFiniteSet(U)
    BY FS_Union DEF Entries
  <2>2. \A e \in U : e.total \in Nat
    BY DEF Entries
  <2> QED
    BY <2>1, <2>2
<1>2. Total(U) = SumOver(f, U) /\ Total(S) = SumOver(f, S) /\ Total(T) = SumOver(f, T)
  BY <1>1, TotalIs
<1> HIDE DEF f
<1>3. SumOver(f, U) = SumOver(f, S) + SumOver(f, T)
  BY <1>1, SumDisjoint
<1>4. S \in SUBSET U /\ T \in SUBSET U
  OBVIOUS
<1>5. SumOver(f, S) \in Nat /\ SumOver(f, T) \in Nat
  <2> HIDE DEF U
  <2> QED
    BY <1>1, <1>4, SumNat
<1> QED
  BY <1>2, <1>3, <1>5

\* The empty set and an entry alone.
LEMMA TotalEmpty == Total({}) = 0
BY TotalIs, SumEmpty, FS_EmptySet

LEMMA TotalSingle ==
    ASSUME NEW e, e.total \in Nat
    PROVE  Total({e}) = e.total
<1> DEFINE S == {e}
           f == [x \in S |-> x.total]
<1>1. IsFiniteSet(S) /\ Total(S) = SumOver(f, S) /\ f[e] = e.total /\ f[e] \in Int
  BY FS_Singleton, TotalIs
<1>2. \A x \in S : f[x] \in Int
  BY <1>1
<1> HIDE DEF f
<1>3. SumOver(f, S) = f[e] + SumOver(f, S \ {e})
  BY <1>1, <1>2, SumRemove
<1>4. S \ {e} = {}
  OBVIOUS
<1> QED
  BY <1>1, <1>3, <1>4, SumEmpty

\* Part of the entries are entries.
LEMMA SubEntries ==
    ASSUME NEW S, Entries(S), NEW T, T \subseteq S
    PROVE  Entries(T) /\ (OnePerHour(S) => OnePerHour(T))
BY FS_Subset DEF Entries, OnePerHour

\* A total does not decrease with entries that are added.
LEMMA TotalGrows ==
    ASSUME NEW S, Entries(S), NEW T, T \subseteq S
    PROVE  Total(T) <= Total(S) /\ Total(T) \in Nat /\ Total(S) \in Nat
<1>1. Entries(T) /\ Entries(S \ T) /\ T \cap (S \ T) = {} /\ T \cup (S \ T) = S
  BY SubEntries
<1>2. Total(S) = Total(T) + Total(S \ T) /\ Total(T) \in Nat /\ Total(S \ T) \in Nat
  BY <1>1, TotalDisjoint
<1> QED
  BY <1>2
-----------------------------------------------------------------------------
(* Days *)

\* The hour begins a day.
Midnight(hour) == \E day \in Int : hour = day * HoursPerDay

\* The day of an hour begins with it or before, less than a day.
LEMMA DayOfHour ==
    ASSUME NEW hour \in Int
    PROVE  /\ FlooredAtDay(hour) \in Int /\ Midnight(FlooredAtDay(hour))
           /\ FlooredAtDay(hour) <= hour /\ hour < FlooredAtDay(hour) + HoursPerDay
<1>1. HoursPerDay \in Nat \ {0}
  BY UptimeAssumption
<1>2. hour % HoursPerDay \in 0 .. HoursPerDay - 1
  BY <1>1
<1>3. /\ hour \div HoursPerDay \in Int
      /\ hour = (hour \div HoursPerDay) * HoursPerDay + (hour % HoursPerDay)
  BY <1>1
<1>4. FlooredAtDay(hour) = (hour \div HoursPerDay) * HoursPerDay
  BY <1>1, <1>2, <1>3 DEF FlooredAtDay
<1>5. FlooredAtDay(hour) = hour - (hour % HoursPerDay)
  BY DEF FlooredAtDay
<1>6. Midnight(FlooredAtDay(hour))
  BY <1>3, <1>4 DEF Midnight
<1> QED
  BY <1>1, <1>2, <1>5, <1>6

\* Two days are a day apart.
LEMMA MidnightsApart ==
    ASSUME NEW a \in Int, Midnight(a), NEW b \in Int, Midnight(b), a < b
    PROVE  a + HoursPerDay <= b
<1>0. HoursPerDay \in Nat \ {0}
  BY UptimeAssumption
<1>1. PICK m \in Int : a = m * HoursPerDay
  BY DEF Midnight
<1>2. PICK n \in Int : b = n * HoursPerDay
  BY DEF Midnight
<1>3. b - a = (n - m) * HoursPerDay
  BY <1>0, <1>1, <1>2
<1>4. PICK k \in Int : k = n - m
  OBVIOUS
<1>5. CASE k <= 0
  <2>1. k * HoursPerDay <= 0
    BY <1>0, <1>5
  <2> QED
    BY <1>3, <1>4, <2>1
<1>6. CASE k >= 1
  <2>1. PICK j \in Nat : k = j + 1
    <3>1. k - 1 \in Nat
      BY <1>6
    <3> QED
      BY <3>1
  <2>2. k * HoursPerDay = j * HoursPerDay + HoursPerDay /\ j * HoursPerDay >= 0
    BY <1>0, <2>1
  <2> QED
    BY <1>0, <1>3, <1>4, <2>2
<1> QED
  BY <1>5, <1>6

\* What begins at a midnight begins with the day of an hour if it does with the hour.
LEMMA DayBeginsAfter ==
    ASSUME NEW hour \in Int, NEW day \in Int, Midnight(day)
    PROVE  FlooredAtDay(hour) >= day <=> hour >= day
<1>0. HoursPerDay \in Nat \ {0}
  BY UptimeAssumption
<1>1. ASSUME FlooredAtDay(hour) < day, hour >= day PROVE FALSE
  <2>1. FlooredAtDay(hour) + HoursPerDay <= day
    BY <1>1, DayOfHour, MidnightsApart
  <2> QED
    BY <1>0, <1>1, <2>1, DayOfHour
<1> QED
  BY <1>1, DayOfHour

\* The day of an hour is none before the first.
LEMMA DayType ==
    ASSUME NEW hour \in Nat
    PROVE  FlooredAtDay(hour) \in Nat
<1>1. Midnight(0)
  BY UptimeAssumption DEF Midnight
<1> QED
  BY <1>1, DayOfHour, DayBeginsAfter

\* A day begins within a day.
LEMMA NextMidnight ==
    ASSUME NEW hour \in Int
    PROVE  \E day \in Int : Midnight(day) /\ hour <= day /\ day < hour + HoursPerDay
<1>0. HoursPerDay \in Nat \ {0}
  BY UptimeAssumption
<1>1. PICK last \in Int : last = hour + HoursPerDay - 1
  BY <1>0
<1>2. /\ FlooredAtDay(last) \in Int /\ Midnight(FlooredAtDay(last))
      /\ FlooredAtDay(last) <= last /\ last < FlooredAtDay(last) + HoursPerDay
  BY DayOfHour
<1> QED
  BY <1>0, <1>1, <1>2

\* A number of elements that are all values of a function is at most its domain's.
LEMMA ImageBound ==
    ASSUME NEW D, NEW n \in Nat, NEW f, \A d \in D : \E j \in 0 .. n - 1 : d = f[j]
    PROVE  IsFiniteSet(D) /\ Cardinality(D) \in Nat /\ Cardinality(D) <= n
<1> DEFINE R == {f[j] : j \in 0 .. n - 1}
<1>1. IsFiniteSet(0 .. n - 1) /\ Cardinality(0 .. n - 1) = n
  BY FS_Interval
<1>2. IsFiniteSet(R) /\ Cardinality(R) <= n
  <2> DEFINE g == [j \in 0 .. n - 1 |-> f[j]]
  <2>1. g \in Surjection(0 .. n - 1, R)
    BY DEF Surjection
  <2> HIDE DEF g, R
  <2> QED
    BY <1>1, <2>1, FS_Surjection
<1>3. D \subseteq R
  OBVIOUS
<1> HIDE DEF R
<1> QED
  BY <1>2, <1>3, FS_Subset, FS_CardinalityType

\* The days of a period are as many as it has.
LEMMA MidnightsBetween ==
    ASSUME NEW D, NEW a \in Int, Midnight(a), NEW n \in Nat,
           \A d \in D : d \in Int /\ Midnight(d) /\ a <= d /\ d < a + n * HoursPerDay
    PROVE  IsFiniteSet(D) /\ Cardinality(D) \in Nat /\ Cardinality(D) <= n
<1> DEFINE f == [j \in 0 .. n - 1 |-> a + j * HoursPerDay]
<1>0. HoursPerDay \in Nat \ {0}
  BY UptimeAssumption
<1>1. ASSUME NEW d \in D PROVE \E j \in 0 .. n - 1 : d = a + j * HoursPerDay
  <2>1. PICK p \in Int : a = p * HoursPerDay
    BY DEF Midnight
  <2>2. PICK q \in Int : d = q * HoursPerDay
    BY <1>1 DEF Midnight
  <2>3. PICK j \in Int : j = q - p
    OBVIOUS
  <2>4. d = a + j * HoursPerDay
    BY <1>0, <2>1, <2>2, <2>3
  <2>5. 0 <= j * HoursPerDay /\ j * HoursPerDay < n * HoursPerDay
    BY <1>0, <1>1, <2>4
  <2>6. j >= 0
    BY <1>0, <2>5
  <2>7. j < n
    <3> SUFFICES ASSUME j >= n PROVE FALSE
      OBVIOUS
    <3>1. PICK k \in Nat : j = n + k
      <4>1. j - n \in Nat
        OBVIOUS
      <4> QED
        BY <4>1
    <3>2. j * HoursPerDay = n * HoursPerDay + k * HoursPerDay /\ k * HoursPerDay >= 0
      BY <1>0, <3>1
    <3> QED
      BY <1>0, <2>5, <3>2
  <2> QED
    BY <2>4, <2>6, <2>7
<1>2. \A d \in D : \E j \in 0 .. n - 1 : d = f[j]
  BY <1>1
<1> HIDE DEF f
<1> QED
  BY <1>2, ImageBound
-----------------------------------------------------------------------------
(* An execution is counted *)

\* What Counted adds, and what it takes away.
LEMMA CountedIs ==
    ASSUME NEW S, Entries(S), OnePerHour(S), now \in Nat
    PROVE  \E k \in Nat :
              /\ Total({e \in S : e.hour = now}) = k
              /\ Counted(S) = {e \in S : e.hour # now} \cup {[hour |-> now, total |-> k + 1]}
<1> DEFINE same == {e \in S : e.hour = now}
<1>1. Total(same) \in Nat
  BY TotalGrows
<1>2. S \ same = {e \in S : e.hour # now}
  OBVIOUS
<1> QED
  BY <1>1, <1>2 DEF Counted

\* The entries of the other hours stay, those of each hour stay one, and every total that
\* has the hour is one more.
LEMMA CountedAdds ==
    ASSUME NEW S, Entries(S), OnePerHour(S), now \in Nat
    PROVE  /\ Entries(Counted(S)) /\ OnePerHour(Counted(S))
           /\ \A hour \in Int : Total(From(Counted(S), hour)) =
                 IF hour <= now THEN Total(From(S, hour)) + 1 ELSE Total(From(S, hour))
<1>1. PICK k \in Nat :
         /\ Total({e \in S : e.hour = now}) = k
         /\ Counted(S) = {e \in S : e.hour # now} \cup {[hour |-> now, total |-> k + 1]}
  BY CountedIs
<1> DEFINE x == [hour |-> now, total |-> k + 1]
           rest == {e \in S : e.hour # now}
           same == {e \in S : e.hour = now}
<1>2. Entries({x}) /\ x.hour = now /\ x.total = k + 1
  <2>1. IsFiniteSet({x})
    BY FS_Singleton
  <2>2. x.hour = now /\ x.total = k + 1 /\ k + 1 \in Nat
    OBVIOUS
  <2> QED
    BY <2>1, <2>2 DEF Entries
<1>3. Entries(rest) /\ Entries(same)
  BY SubEntries
<1>4. Entries(rest \cup {x})
  BY <1>2, <1>3, FS_Union DEF Entries
<1>5. OnePerHour(rest \cup {x})
  BY <1>2 DEF OnePerHour
<1>6. ASSUME NEW hour \in Int
      PROVE  Total(From(rest \cup {x}, hour)) =
                IF hour <= now THEN Total(From(S, hour)) + 1 ELSE Total(From(S, hour))
  <2>1. CASE hour <= now
    <3> DEFINE r == From(rest, hour)
    <3>1. From(rest \cup {x}, hour) = r \cup {x} /\ r \cap {x} = {}
      BY <1>2, <2>1 DEF From
    <3>2. From(S, hour) = r \cup same /\ r \cap same = {}
      BY <2>1 DEF From
    <3>3. Entries(r)
      BY <1>3, SubEntries DEF From
    <3> HIDE DEF r, x, same
    <3>4. Total(r \cup {x}) = Total(r) + Total({x}) /\ Total(r) \in Nat
      BY <1>2, <3>1, <3>3, TotalDisjoint
    <3>5. Total(r \cup same) = Total(r) + Total(same)
      BY <1>3, <3>2, <3>3, TotalDisjoint
    <3>6. Total({x}) = k + 1
      BY <1>2, TotalSingle
    <3>7. Total(same) = k
      BY <1>1 DEF same
    <3>8. /\ Total(From(rest \cup {x}, hour)) = Total(r \cup {x})
          /\ Total(From(S, hour)) = Total(r \cup same)
      BY <3>1, <3>2
    <3>9. Total(From(rest \cup {x}, hour)) = Total(From(S, hour)) + 1
      BY <3>4, <3>5, <3>6, <3>7, <3>8
    <3> QED
      BY <2>1, <3>9
  <2>2. CASE hour > now
    <3>1. From(rest \cup {x}, hour) = From(S, hour)
      BY <1>2, <2>2 DEF From, Entries
    <3> QED
      BY <2>2, <3>1
  <2> QED
    BY <2>1, <2>2
<1> QED
  BY <1>1, <1>4, <1>5, <1>6

\* Sets that agree on the entries of some hours, the present one among them, still do.
LEMMA CountedAlike ==
    ASSUME NEW S, Entries(S), OnePerHour(S), NEW T, Entries(T), OnePerHour(T),
           now \in Nat, NEW hour \in Int, hour <= now, From(S, hour) = From(T, hour)
    PROVE  From(Counted(S), hour) = From(Counted(T), hour)
<1>1. {e \in S : e.hour = now} = {e \in T : e.hour = now}
  <2>1. \A e : e \in S /\ e.hour = now <=> e \in From(S, hour) /\ e.hour = now
    BY DEF From
  <2>2. \A e : e \in T /\ e.hour = now <=> e \in From(T, hour) /\ e.hour = now
    BY DEF From
  <2> QED
    BY <2>1, <2>2
<1>2. PICK k : Counted(S) = {e \in S : e.hour # now} \cup {[hour |-> now, total |-> k + 1]}
               /\ Counted(T) = {e \in T : e.hour # now} \cup {[hour |-> now, total |-> k + 1]}
  BY <1>1, CountedIs
<1>3. {e \in From(S, hour) : e.hour # now} = {e \in From(T, hour) : e.hour # now}
  OBVIOUS
<1>4. ASSUME NEW U
      PROVE  From({e \in U : e.hour # now} \cup {[hour |-> now, total |-> k + 1]}, hour)
                = {e \in From(U, hour) : e.hour # now} \cup {[hour |-> now, total |-> k + 1]}
  BY DEF From
<1> QED
  BY <1>2, <1>3, <1>4

\* One entry more at most.
LEMMA CountedSize ==
    ASSUME NEW S, Entries(S), OnePerHour(S), now \in Nat
    PROVE  Cardinality(Counted(S)) <= Cardinality(S) + 1 /\ Cardinality(S) \in Nat
<1>1. PICK k \in Nat :
         Counted(S) = {e \in S : e.hour # now} \cup {[hour |-> now, total |-> k + 1]}
  BY CountedIs
<1> DEFINE x == [hour |-> now, total |-> k + 1]
           rest == {e \in S : e.hour # now}
<1>2. IsFiniteSet(S) /\ rest \subseteq S /\ x \notin rest
  BY DEF Entries
<1>3. /\ IsFiniteSet(rest) /\ Cardinality(rest) \in Nat /\ Cardinality(S) \in Nat
      /\ Cardinality(rest) <= Cardinality(S)
  BY <1>2, FS_Subset, FS_CardinalityType
<1> HIDE DEF x, rest
<1>4. Cardinality(rest \cup {x}) = Cardinality(rest) + 1
  BY <1>2, <1>3, FS_AddElement
<1> QED
  BY <1>1, <1>3, <1>4 DEF x, rest
-----------------------------------------------------------------------------
(* Merging *)

\* The entries that a merge turns into days, and what becomes of those of some days.
Kept(S) == {e \in S : e.hour < MinThreshold /\ e.hour > now - Retention}
DaysOf(K) == {FlooredAtDay(e.hour) : e \in K}
Daily(K, D) == {[hour |-> day, total |-> Total({e \in K : FlooredAtDay(e.hour) = day})] : day \in D}

\* What the assumption says of each constant.
LEMMA ConstantTypes ==
    /\ HoursPerDay \in Nat \ {0} /\ Buffer \in Nat /\ Retention \in Nat /\ CleanUpAge \in Nat
    /\ MergeThreshold \in Nat /\ Buffer = 2 * HoursPerDay /\ Buffer < Retention
    /\ Retention <= CleanUpAge
BY UptimeAssumption

\* The threshold of a merge is a midnight, the buffer ago or earlier.
LEMMA MinThresholdIs ==
    ASSUME now \in Nat
    PROVE  MinThreshold \in Int /\ Midnight(MinThreshold) /\ MinThreshold <= now - Buffer
BY DayOfHour, ConstantTypes DEF MinThreshold

\* What is merged are the entries before the threshold that have not expired.
LEMMA MergedIs ==
    ASSUME NEW S, Entries(S), now \in Nat
    PROVE  Merged(S) = From(S, MinThreshold) \cup Daily(Kept(S), DaysOf(Kept(S)))
<1> DEFINE old == {e \in S : e.hour < MinThreshold}
<1>1. S \ old = From(S, MinThreshold)
  BY MinThresholdIs DEF From, Entries
<1>2. old \ OlderThan(Retention, old) = Kept(S)
  BY ConstantTypes DEF OlderThan, Kept, Entries
<1> QED
  BY <1>1, <1>2 DEF Merged, Daily, DaysOf

\* The days of entries are finitely many, whole, and not after the entries.
LEMMA DaysOfIs ==
    ASSUME NEW K, Entries(K)
    PROVE  IsFiniteSet(DaysOf(K)) /\ \A day \in DaysOf(K) : day \in Nat /\ Midnight(day)
<1> DEFINE g == [e \in K |-> FlooredAtDay(e.hour)]
<1>1. g \in Surjection(K, DaysOf(K))
  BY DEF Surjection, DaysOf
<1>2. IsFiniteSet(K)
  BY DEF Entries
<1> HIDE DEF g
<1>3. IsFiniteSet(DaysOf(K))
  BY <1>1, <1>2, FS_Surjection
<1>4. \A day \in DaysOf(K) : day \in Nat /\ Midnight(day)
  BY DayOfHour, DayType DEF DaysOf, Entries
<1> QED
  BY <1>3, <1>4

\* The entries of days have their hours, and those from some hour on are those of some days.
LEMMA DailyHours ==
    ASSUME NEW K, NEW D, NEW hour
    PROVE  /\ \A e \in Daily(K, D) : e.hour \in D
           /\ From(Daily(K, D), hour) = Daily(K, {day \in D : day >= hour})
<1> DEFINE Of(day) == {e \in K : FlooredAtDay(e.hour) = day}
           entry(day) == [hour |-> day, total |-> Total(Of(day))]
<1>1. /\ \A U : Daily(K, U) = {entry(day) : day \in U}
      /\ \A day : entry(day).hour = day
  BY DEF Daily
<1> HIDE DEF Of, entry
<1>2. \A e \in Daily(K, D) : e.hour \in D
  BY <1>1
<1>3. From({entry(day) : day \in D}, hour) = {entry(day) : day \in {d \in D : d >= hour}}
  BY <1>1 DEF From
<1> QED
  BY <1>1, <1>2, <1>3

\* The entries of some days count what the entries of their hours counted.
LEMMA DailyIs ==
    ASSUME NEW K, Entries(K), NEW D, IsFiniteSet(D), \A day \in D : day \in Nat
    PROVE  /\ Entries(Daily(K, D)) /\ OnePerHour(Daily(K, D))
           /\ Total(Daily(K, D)) = Total({e \in K : FlooredAtDay(e.hour) \in D})
<1> DEFINE Of(day) == {e \in K : FlooredAtDay(e.hour) = day}
           Within(U) == {e \in K : FlooredAtDay(e.hour) \in U}
           entry(day) == [hour |-> day, total |-> Total(Of(day))]
           F == {U \in SUBSET D : Total(Daily(K, U)) = Total(Within(U))}
<1>1. \A day : Total(Of(day)) \in Nat /\ Entries(Of(day))
  BY SubEntries, TotalGrows
<1>0. /\ \A U : Daily(K, U) = {entry(day) : day \in U}
      /\ \A day : entry(day).hour = day
  BY DEF Daily
<1>2. ASSUME NEW U \in SUBSET D PROVE Entries(Daily(K, U)) /\ OnePerHour(Daily(K, U))
  <2> DEFINE g == [day \in U |-> entry(day)]
  <2>1. g \in Surjection(U, Daily(K, U))
    BY DEF Surjection, Daily
  <2>2. IsFiniteSet(U)
    BY FS_Subset
  <2> HIDE DEF g
  <2>3. IsFiniteSet(Daily(K, U))
    BY <2>1, <2>2, FS_Surjection
  <2>4. ASSUME NEW e \in Daily(K, U)
        PROVE  e = [hour |-> e.hour, total |-> e.total] /\ e.hour \in Nat /\ e.total \in Nat
    <3>1. PICK day \in U : e = entry(day)
      BY DEF Daily
    <3> QED
      BY <1>1, <3>1
  <2>5. OnePerHour(Daily(K, U))
    <3> HIDE DEF entry
    <3> QED
      BY <1>0 DEF OnePerHour
  <2> QED
    BY <2>3, <2>4, <2>5 DEF Entries
<1>3. ASSUME NEW U \in SUBSET D, \A V \in SUBSET U : V # U => V \in F PROVE U \in F
  <2>1. CASE U = {}
    <3>1. Daily(K, U) = {} /\ Within(U) = {}
      BY <2>1 DEF Daily
    <3> QED
      BY <3>1, TotalEmpty
  <2>2. CASE U # {}
    <3>1. PICK day \in U : TRUE
      BY <2>2
    <3> DEFINE V == U \ {day}
    <3>2. V \in SUBSET D /\ Total(Daily(K, V)) = Total(Within(V))
      BY <1>3, <3>1
    <3>3. Daily(K, U) = Daily(K, V) \cup {entry(day)} /\ Daily(K, V) \cap {entry(day)} = {}
      <4> HIDE DEF entry
      <4> QED
        BY <1>0, <3>1
    <3>4. Within(U) = Within(V) \cup Of(day) /\ Within(V) \cap Of(day) = {}
      BY <3>1
    <3>5. Entries({entry(day)}) /\ Total({entry(day)}) = Total(Of(day))
      <4>1. entry(day) \in Daily(K, U) /\ entry(day).total = Total(Of(day))
        BY <3>1 DEF Daily
      <4>2. Entries({entry(day)})
        BY <1>2, <4>1, SubEntries
      <4> QED
        BY <1>1, <4>1, <4>2, TotalSingle
    <3>6. Entries(Daily(K, V)) /\ Entries(Within(V)) /\ Entries(Of(day))
      BY <1>1, <1>2, <3>2, SubEntries
    <3> HIDE DEF V, Of, Within, entry
    <3>7. Total(Daily(K, V) \cup {entry(day)}) = Total(Daily(K, V)) + Total({entry(day)})
      BY <3>3, <3>5, <3>6, TotalDisjoint
    <3>8. Total(Within(V) \cup Of(day)) = Total(Within(V)) + Total(Of(day))
      BY <3>4, <3>6, TotalDisjoint
    <3> QED
      BY <3>2, <3>3, <3>4, <3>5, <3>7, <3>8
  <2> QED
    BY <2>1, <2>2
<1> HIDE DEF F
<1>4. \A U \in SUBSET D : U \in F
  BY <1>3, SubsetInduction
<1> QED
  BY <1>2, <1>4 DEF F

\* What a merge makes of entries, as two parts: those of the hours since the threshold, and
\* those of days, all before it.
LEMMA MergedParts ==
    ASSUME NEW S, Entries(S), OnePerHour(S), now \in Nat
    PROVE  LET K == Kept(S)
               D == DaysOf(K)
           IN  /\ Entries(K) /\ Entries(Daily(K, D)) /\ OnePerHour(Daily(K, D))
               /\ \A e \in Daily(K, D) : e.hour \in D /\ e.hour < MinThreshold
               /\ Merged(S) = From(S, MinThreshold) \cup Daily(K, D)
<1> DEFINE K == Kept(S)
           D == DaysOf(K)
<1>1. Entries(K)
  BY SubEntries DEF Kept
<1>2. IsFiniteSet(D) /\ \A day \in D : day \in Nat
  BY <1>1, DaysOfIs
<1>3. Entries(Daily(K, D)) /\ OnePerHour(Daily(K, D))
  BY <1>1, <1>2, DailyIs
<1>4. \A e \in Daily(K, D) : e.hour \in D
  BY DailyHours
<1>5. \A day \in D : day < MinThreshold
  <2> SUFFICES ASSUME NEW e \in K PROVE FlooredAtDay(e.hour) < MinThreshold
    BY DEF DaysOf
  <2>1. e.hour \in Int /\ e.hour < MinThreshold
    BY <1>1 DEF Kept, Entries
  <2> QED
    BY <2>1, DayOfHour, MinThresholdIs
<1> QED
  BY <1>1, <1>3, <1>4, <1>5, MergedIs

\* They are entries, one of each hour, and those since the threshold stay.
LEMMA MergedShape ==
    ASSUME NEW S, Entries(S), OnePerHour(S), now \in Nat
    PROVE  /\ Entries(Merged(S)) /\ OnePerHour(Merged(S))
           /\ \A hour \in Int : hour >= MinThreshold => From(Merged(S), hour) = From(S, hour)
           /\ (\A e \in S : e.hour <= now) => \A e \in Merged(S) : e.hour <= now
<1> DEFINE d == Daily(Kept(S), DaysOf(Kept(S)))
           h == From(S, MinThreshold)
<1>1. /\ Entries(d) /\ OnePerHour(d) /\ \A e \in d : e.hour < MinThreshold
      /\ Merged(S) = h \cup d
  BY MergedParts
<1>2. Entries(h) /\ OnePerHour(h) /\ \A e \in h : e.hour >= MinThreshold
  BY SubEntries DEF From
<1>3. MinThreshold \in Int /\ MinThreshold <= now
  BY MinThresholdIs, ConstantTypes
<1>4. \A hour \in Int : hour >= MinThreshold => From(h, hour) = From(S, hour)
  BY <1>3 DEF From, Entries
<1>5. h \subseteq S
  BY DEF From
<1> HIDE DEF d, h
<1>6. Entries(h \cup d)
  BY <1>1, <1>2, FS_Union DEF Entries
<1>7. OnePerHour(h \cup d)
  BY <1>1, <1>2, <1>3 DEF OnePerHour, Entries
<1>8. ASSUME NEW hour \in Int, hour >= MinThreshold PROVE From(h \cup d, hour) = From(h, hour)
  BY <1>1, <1>3, <1>8 DEF From, Entries
<1>9. (\A e \in S : e.hour <= now) => \A e \in h \cup d : e.hour <= now
  BY <1>1, <1>3, <1>5 DEF Entries
<1> QED
  BY <1>1, <1>4, <1>6, <1>7, <1>8, <1>9

\* A merge moves executions to the beginning of their day, so that what is counted from
\* some hour on gets no more, and from a midnight on stays the same.
LEMMA MergedTotals ==
    ASSUME NEW S, Entries(S), OnePerHour(S), now \in Nat, NEW hour \in Int, hour > now - Retention
    PROVE  /\ Total(From(Merged(S), hour)) <= Total(From(S, hour))
           /\ Midnight(hour) => Total(From(Merged(S), hour)) = Total(From(S, hour))
<1>0. MinThreshold \in Int /\ Retention \in Nat
  BY MinThresholdIs, ConstantTypes
<1>1. CASE hour >= MinThreshold
  <2>1. From(Merged(S), hour) = From(S, hour)
    BY <1>1, MergedShape
  <2>2. Total(From(S, hour)) \in Nat
    BY TotalGrows DEF From
  <2> QED
    BY <2>1, <2>2
<1>2. CASE hour < MinThreshold
  <2> DEFINE K == Kept(S)
             D == {day \in DaysOf(K) : day >= hour}
             h == From(S, MinThreshold)
             a == {e \in K : FlooredAtDay(e.hour) \in D}
             b == {e \in K : e.hour >= hour}
  <2>1. /\ Entries(K) /\ Merged(S) = h \cup Daily(K, DaysOf(K)) /\ Entries(h)
        /\ \A e \in Daily(K, DaysOf(K)) : e.hour < MinThreshold
    BY MergedParts, SubEntries DEF From
  <2>2. IsFiniteSet(D) /\ \A day \in D : day \in Nat
    BY <2>1, DaysOfIs, FS_Subset
  <2>3. From(Merged(S), hour) = h \cup Daily(K, D) /\ h \cap Daily(K, D) = {}
    <3>1. From(Daily(K, DaysOf(K)), hour) = Daily(K, D)
      BY DailyHours
    <3>2. From(h, hour) = h /\ \A e \in h : e.hour >= MinThreshold /\ e.hour \in Int
      BY <1>0, <1>2 DEF From, Entries
    <3>3. From(h \cup Daily(K, DaysOf(K)), hour) = From(h, hour) \cup From(Daily(K, DaysOf(K)), hour)
      BY DEF From
    <3>4. Daily(K, D) \subseteq Daily(K, DaysOf(K))
      BY DEF Daily
    <3>5. h \cap Daily(K, D) = {}
      BY <1>0, <2>1, <3>2, <3>4
    <3> HIDE DEF K, D, h
    <3> QED
      BY <2>1, <3>1, <3>2, <3>3, <3>5
  <2>4. From(S, hour) = h \cup b /\ h \cap b = {}
    BY <1>0, <1>2 DEF From, Kept, Entries
  <2>5. a \subseteq b /\ (Midnight(hour) => a = b)
    <3>1. ASSUME NEW e \in K PROVE FlooredAtDay(e.hour) \in DaysOf(K) /\ e.hour \in Int
      BY <2>1 DEF DaysOf, Entries
    <3>2. ASSUME NEW e \in K
          PROVE  /\ FlooredAtDay(e.hour) >= hour => e.hour >= hour
                 /\ Midnight(hour) => (FlooredAtDay(e.hour) >= hour <=> e.hour >= hour)
      BY <3>1, DayOfHour, DayBeginsAfter
    <3> QED
      BY <3>1, <3>2
  <2>6. Entries(a) /\ Entries(b)
    BY <2>1, SubEntries
  <2>7. Entries(Daily(K, D)) /\ Total(Daily(K, D)) = Total(a)
    BY <2>1, <2>2, DailyIs
  <2> HIDE DEF K, D, h, a, b
  <2>8. /\ Total(h \cup Daily(K, D)) = Total(h) + Total(a)
        /\ Total(h \cup b) = Total(h) + Total(b) /\ Total(h) \in Nat
    BY <2>1, <2>3, <2>4, <2>6, <2>7, TotalDisjoint
  <2>9. Total(a) <= Total(b) /\ Total(a) \in Nat /\ Total(b) \in Nat
    BY <2>5, <2>6, TotalGrows
  <2>10. Midnight(hour) => Total(a) = Total(b)
    BY <2>5
  <2> QED
    BY <2>3, <2>4, <2>8, <2>9, <2>10
<1> QED
  BY <1>0, <1>1, <1>2

\* Entries of different hours of a period are no more than its hours.
LEMMA HoursBetween ==
    ASSUME NEW S, Entries(S), OnePerHour(S), NEW a \in Int, NEW n \in Nat,
           \A e \in S : a <= e.hour /\ e.hour < a + n
    PROVE  IsFiniteSet(S) /\ Cardinality(S) \in Nat /\ Cardinality(S) <= n
<1> DEFINE f == [j \in 0 .. n - 1 |-> CHOOSE e \in S : e.hour = a + j]
<1>1. ASSUME NEW e \in S PROVE \E j \in 0 .. n - 1 : e = f[j]
  <2>1. PICK j \in Int : j = e.hour - a
    BY DEF Entries
  <2>2. j \in 0 .. n - 1 /\ e.hour = a + j
    BY <2>1 DEF Entries
  <2>3. f[j] \in S /\ f[j].hour = a + j
    <3>1. \E g \in S : g.hour = a + j
      BY <2>2
    <3>2. f[j] = CHOOSE g \in S : g.hour = a + j
      BY <2>2
    <3> QED
      BY <3>1, <3>2
  <2> HIDE DEF f
  <2>4. e = f[j]
    BY <2>2, <2>3 DEF OnePerHour
  <2> QED
    BY <2>2, <2>4
<1> HIDE DEF f
<1> QED
  BY <1>1, ImageBound

\* The whole days of the retention.
LEMMA RetentionDays ==
    \E k \in Nat : /\ k >= 3 /\ Retention = k * HoursPerDay
                   /\ 3 * HoursPerDay + k - 2 <= MergeThreshold
<1>0. HoursPerDay \in Nat \ {0} /\ Retention \in Nat /\ Retention > 2 * HoursPerDay
  BY ConstantTypes
<1> DEFINE k == Retention \div HoursPerDay
<1>1. k \in Int /\ Retention = k * HoursPerDay + (Retention % HoursPerDay)
  BY <1>0
<1>2. Retention = k * HoursPerDay /\ 3 * HoursPerDay + k - 2 <= MergeThreshold
  BY <1>0, <1>1, MergeThresholdSuffices
<1> HIDE DEF k
<1>3. k >= 3
  <2>1. CASE k <= 0
    <3>1. k * HoursPerDay <= 0
      BY <1>0, <1>1, <2>1
    <3> QED
      BY <1>0, <1>2, <3>1
  <2>2. CASE k = 1
    BY <1>0, <1>2, <2>2
  <2>3. CASE k = 2
    BY <1>0, <1>2, <2>3
  <2> QED
    BY <1>1, <2>1, <2>2, <2>3
<1> QED
  BY <1>1, <1>2, <1>3

\* A midnight some days away from another.
LEMMA DaysAway ==
    ASSUME NEW hour \in Int, Midnight(hour), NEW j \in Int
    PROVE  hour + j * HoursPerDay \in Int /\ Midnight(hour + j * HoursPerDay)
<1>0. HoursPerDay \in Nat \ {0}
  BY ConstantTypes
<1>1. PICK day \in Int : hour = day * HoursPerDay
  BY DEF Midnight
<1>2. hour + j * HoursPerDay = (day + j) * HoursPerDay
  BY <1>0, <1>1
<1>3. day + j \in Int /\ j * HoursPerDay \in Int
  BY <1>0
<1> QED
  BY <1>2, <1>3 DEF Midnight

\* A merge leaves less entries than the next one needs: those of the hours since the
\* threshold, and one for each day of the retention before it.
LEMMA MergedSize ==
    ASSUME NEW S, Entries(S), OnePerHour(S), now \in Nat, \A e \in S : e.hour <= now
    PROVE  Cardinality(Merged(S)) < MergeThreshold /\ Cardinality(Merged(S)) \in Nat
<1>0. HoursPerDay \in Nat \ {0} /\ MergeThreshold \in Nat
  BY ConstantTypes
<1>1. PICK k \in Nat : /\ k >= 3 /\ Retention = k * HoursPerDay
                       /\ 3 * HoursPerDay + k - 2 <= MergeThreshold
  BY RetentionDays
<1> DEFINE h == From(S, MinThreshold)
           D == DaysOf(Kept(S))
           d == Daily(Kept(S), D)
           midnight == FlooredAtDay(now)
<1>2. /\ midnight \in Int /\ Midnight(midnight)
      /\ midnight <= now /\ now < midnight + HoursPerDay
  BY DayOfHour
<1> HIDE DEF midnight
<1>3. MinThreshold = midnight + (-2) * HoursPerDay
  <2> DEFINE m == midnight + (-2) * HoursPerDay
  <2>1. m \in Int /\ Midnight(m) /\ m = midnight - 2 * HoursPerDay
    BY <1>0, <1>2, DaysAway
  <2>2. now - Buffer = now - 2 * HoursPerDay /\ now - Buffer \in Int
    BY <1>0, ConstantTypes
  <2> HIDE DEF m
  <2>3. MinThreshold \in Int /\ Midnight(MinThreshold) /\ MinThreshold <= now - Buffer
    BY MinThresholdIs
  <2>4. MinThreshold >= m
    BY <1>0, <1>2, <2>1, <2>2, DayBeginsAfter DEF MinThreshold
  <2>5. ~(m < MinThreshold)
    <3> SUFFICES ASSUME m < MinThreshold PROVE FALSE
      OBVIOUS
    <3>1. m + HoursPerDay <= MinThreshold
      BY <2>1, <2>3, MidnightsApart
    <3> QED
      BY <1>0, <1>2, <2>1, <2>2, <2>3, <3>1
  <2> QED
    BY <2>1, <2>3, <2>4, <2>5 DEF m
<1>4. MinThreshold \in Int /\ MinThreshold = midnight - 2 * HoursPerDay
  BY <1>0, <1>2, <1>3
<1>5. PICK n \in Nat : n = now - MinThreshold + 1
  <2>1. now - MinThreshold + 1 \in Nat
    BY <1>0, <1>2, <1>4
  <2> QED
    BY <2>1
<1>6. IsFiniteSet(h) /\ Cardinality(h) \in Nat /\ Cardinality(h) <= n
  <2>1. Entries(h) /\ OnePerHour(h)
    BY SubEntries DEF From
  <2>2. \A e \in h : MinThreshold <= e.hour /\ e.hour < MinThreshold + n
    BY <1>4, <1>5 DEF From, Entries
  <2> HIDE DEF h
  <2> QED
    BY <1>4, <2>1, <2>2, HoursBetween
<1>7. ASSUME NEW a \in Int, Midnight(a), a <= now - Retention + 1,
             NEW j \in Nat, MinThreshold = a + j * HoursPerDay
      PROVE  IsFiniteSet(d) /\ Cardinality(d) \in Nat /\ Cardinality(d) <= j
  <2>1. \A day \in D : day \in Int /\ Midnight(day) /\ a <= day /\ day < a + j * HoursPerDay
    <3> SUFFICES ASSUME NEW e \in Kept(S)
                 PROVE  /\ FlooredAtDay(e.hour) \in Int /\ Midnight(FlooredAtDay(e.hour))
                        /\ a <= FlooredAtDay(e.hour) /\ FlooredAtDay(e.hour) < MinThreshold
      BY <1>7 DEF DaysOf
    <3>1. e.hour \in Int /\ e.hour < MinThreshold /\ e.hour > now - Retention
      BY DEF Kept, Entries
    <3>2. e.hour >= a
      BY <1>7, <3>1, ConstantTypes
    <3> QED
      BY <1>4, <1>7, <3>1, <3>2, DayOfHour, DayBeginsAfter
  <2>2. IsFiniteSet(D) /\ Cardinality(D) \in Nat /\ Cardinality(D) <= j
    <3> HIDE DEF D
    <3> QED
      BY <1>7, <2>1, MidnightsBetween
  <2> DEFINE g == [day \in D |->
                      [hour |-> day, total |-> Total({e \in Kept(S) : FlooredAtDay(e.hour) = day})]]
  <2>3. g \in Surjection(D, d)
    BY DEF Surjection, Daily
  <2> HIDE DEF D, d, g
  <2>4. IsFiniteSet(d) /\ Cardinality(d) <= Cardinality(D)
    BY <2>2, <2>3, FS_Surjection
  <2> QED
    BY <2>2, <2>4, FS_CardinalityType
<1>8. \E j \in Nat : /\ n + j < MergeThreshold
                     /\ IsFiniteSet(d) /\ Cardinality(d) \in Nat /\ Cardinality(d) <= j
  <2>1. CASE now + 1 < midnight + HoursPerDay
    <3> DEFINE a == midnight + (-k) * HoursPerDay
               j == k - 2
    <3>1. a \in Int /\ Midnight(a) /\ a = midnight - Retention
      <4>1. -k \in Int /\ (-k) * HoursPerDay = -(k * HoursPerDay)
        BY <1>0, <1>1
      <4>2. a \in Int /\ Midnight(a)
        BY ONLY <1>2, <4>1, DaysAway
      <4> QED
        BY <1>0, <1>1, <1>2, <4>1, <4>2
    <3>2. j \in Nat /\ MinThreshold = a + j * HoursPerDay
      <4>1. j \in Nat /\ j * HoursPerDay = k * HoursPerDay - 2 * HoursPerDay
        BY <1>0, <1>1
      <4> QED
        BY <1>0, <1>1, <1>2, <1>4, <3>1, <4>1
    <3>3. a <= now - Retention + 1
      BY <1>2, <3>1, ConstantTypes
    <3>4. n + j < MergeThreshold
      BY <1>0, <1>1, <1>2, <1>4, <1>5, <2>1
    <3> HIDE DEF a, j, d
    <3> QED
      BY <1>7, <3>1, <3>2, <3>3, <3>4
  <2>2. CASE now + 1 = midnight + HoursPerDay
    <3> DEFINE a == midnight + (1 - k) * HoursPerDay
               j == k - 3
    <3>1. a \in Int /\ Midnight(a) /\ a = midnight + HoursPerDay - Retention
      <4>1. (1 - k) * HoursPerDay = HoursPerDay - k * HoursPerDay
        BY <1>0, <1>1
      <4>2. a \in Int /\ Midnight(a)
        <5>1. 1 - k \in Int
          BY <1>1
        <5> QED
          BY ONLY <1>2, <5>1, DaysAway
      <4> QED
        BY <1>0, <1>1, <1>2, <4>1, <4>2
    <3>2. j \in Nat /\ MinThreshold = a + j * HoursPerDay
      <4>1. j \in Nat /\ j * HoursPerDay = k * HoursPerDay - 3 * HoursPerDay
        BY <1>0, <1>1
      <4> QED
        BY <1>0, <1>1, <1>2, <1>4, <3>1, <4>1
    <3>3. a <= now - Retention + 1
      BY <1>2, <2>2, <3>1, ConstantTypes
    <3>4. n + j < MergeThreshold
      BY <1>0, <1>1, <1>2, <1>4, <1>5, <2>2
    <3> HIDE DEF a, j, d
    <3> QED
      BY <1>7, <3>1, <3>2, <3>3, <3>4
  <2> QED
    BY <1>0, <1>2, <2>1, <2>2
<1>9. Merged(S) = h \cup d
  BY MergedParts
<1> HIDE DEF h, d
<1>10. /\ IsFiniteSet(h \cup d) /\ Cardinality(h \cup d) \in Nat
       /\ Cardinality(h \cup d) <= Cardinality(h) + Cardinality(d)
  <2>1. Cardinality(h \cap d) \in Nat
    BY <1>6, FS_Subset, FS_CardinalityType
  <2>2. Cardinality(h \cup d) = Cardinality(h) + Cardinality(d) - Cardinality(h \cap d)
    BY <1>6, <1>8, FS_Union
  <2>3. IsFiniteSet(h \cup d) /\ Cardinality(h \cup d) \in Nat
    BY <1>6, <1>8, FS_Union, FS_CardinalityType
  <2> QED
    BY <1>6, <1>8, <2>1, <2>2, <2>3
<1> QED
  BY <1>0, <1>6, <1>8, <1>9, <1>10
-----------------------------------------------------------------------------
(* The clean-ups forget nothing that is within the retention. *)

\* What either clean-up deletes began before the retention.
LEMMA CleanUpsKeep ==
    ASSUME NEW S, Entries(S), OnePerHour(S), now \in Nat, NEW T,
           T \in {CleanedUp(S), CleanedUpInMemory(S)}
    PROVE  /\ T \subseteq S /\ Entries(T) /\ OnePerHour(T)
           /\ \A hour \in Int : hour >= now - Retention => From(T, hour) = From(S, hour)
<1>1. T \in {S, S \ OlderThan(Retention + 1, S)}
  BY DEF CleanedUp, CleanedUpInMemory
<1>2. T \subseteq S /\ \A e \in S : e.hour >= now - Retention => e \in T
  BY <1>1, ConstantTypes DEF OlderThan, Entries
<1>3. \A hour \in Int : hour >= now - Retention => From(T, hour) = From(S, hour)
  BY <1>2, ConstantTypes DEF From, Entries
<1> QED
  BY <1>2, <1>3, SubEntries

\* A clean-up leaves no more entries than there were.
LEMMA CleanedUpSize ==
    ASSUME NEW S, Entries(S), NEW T, T \subseteq S
    PROVE  Cardinality(T) <= Cardinality(S) /\ Cardinality(T) \in Nat /\ Cardinality(S) \in Nat
BY FS_Subset, FS_CardinalityType DEF Entries
-----------------------------------------------------------------------------
(* The invariant *)

\* One entry of each hour so far.
Tally(S) == Entries(S) /\ OnePerHour(S) /\ \A e \in S : e.hour <= now

Tallies == now \in Nat /\ Tally(executed) /\ Tally(sqlEntries) /\ Tally(hourly)

\* What a set of entries tells of what was executed: everything of the hours that no merge
\* reaches; whole days since the retention; and never too much since some hour.
Tells(S) ==
    /\ From(S, now - Buffer + 1) = From(executed, now - Buffer + 1)
    /\ \A hour \in Int : hour > now - Retention =>
          /\ Total(From(S, hour)) <= Total(From(executed, hour))
          /\ Midnight(hour) => Total(From(S, hour)) = Total(From(executed, hour))

\* The memory store forgets only what is not looked at.
TellsAll(S) == From(S, now - Retention) = executed

\* What the entries of each store tell of the executions, and how many there are.
UptimeInv == Tallies /\ Tells(sqlEntries) /\ TellsAll(hourly) /\ MergeMakesRoom

\* Nothing was executed, nothing is stored.
LEMMA UptimeInitInv == UptimeInit => UptimeInv
<1> SUFFICES ASSUME UptimeInit PROVE UptimeInv
  OBVIOUS
<1>1. now = 0 /\ executed = {} /\ sqlEntries = {} /\ hourly = {}
  BY DEF UptimeInit
<1>2. \A hour : From({}, hour) = {}
  BY DEF From
<1>3. Tallies
  BY <1>1, FS_EmptySet DEF Tallies, Tally, Entries, OnePerHour
<1>4. Tells(sqlEntries) /\ TellsAll(hourly)
  BY <1>1, <1>2, TotalEmpty DEF Tells, TellsAll
<1>5. MergeMakesRoom
  BY <1>1, FS_EmptySet, UptimeAssumption DEF MergeMakesRoom
<1> QED
  BY <1>3, <1>4, <1>5 DEF UptimeInv

\* Time passes: the hours that the invariant tells of are fewer.
LEMMA TickKeeps == UptimeInv /\ Tick => UptimeInv'
<1> SUFFICES ASSUME UptimeInv, Tick PROVE UptimeInv'
  OBVIOUS
<1>0. /\ Tallies /\ Tells(sqlEntries) /\ TellsAll(hourly) /\ MergeMakesRoom
      /\ now \in Nat /\ Buffer \in Nat /\ Retention \in Nat /\ Buffer < Retention
  BY ConstantTypes DEF UptimeInv, Tallies
<1>1. /\ now' = now + 1 /\ executed' = From(executed, now' - Retention)
      /\ sqlEntries' = sqlEntries /\ hourly' = hourly
  BY DEF Tick, From
<1>2. \A hour \in Int : hour >= now' - Retention => From(executed', hour) = From(executed, hour)
  BY <1>0, <1>1 DEF From, Tallies, Tally, Entries
<1>3. Tallies'
  <2>1. Entries(executed') /\ OnePerHour(executed') /\ executed' \subseteq executed
    BY <1>0, <1>1, SubEntries DEF From, Tallies, Tally
  <2> QED
    BY <1>0, <1>1, <2>1 DEF Tallies, Tally, Entries, OnePerHour
<1>4. Tells(sqlEntries)'
  <2>1. \A S : From(S, now' - Buffer + 1) = From(From(S, now - Buffer + 1), now' - Buffer + 1)
               \/ ~Entries(S)
    BY <1>0, <1>1 DEF From, Entries
  <2>2. From(sqlEntries, now' - Buffer + 1) = From(executed, now' - Buffer + 1)
    BY <1>0, <2>1 DEF Tells, Tallies, Tally
  <2>3. From(executed', now' - Buffer + 1) = From(executed, now' - Buffer + 1)
    BY <1>0, <1>1, <1>2
  <2>4. ASSUME NEW hour \in Int, hour > now' - Retention
        PROVE  /\ Total(From(sqlEntries, hour)) <= Total(From(executed', hour))
               /\ Midnight(hour) => Total(From(sqlEntries, hour)) = Total(From(executed', hour))
    <3>1. From(executed', hour) = From(executed, hour) /\ hour > now - Retention
      BY <1>0, <1>1, <1>2, <2>4
    <3> QED
      BY <1>0, <3>1 DEF Tells
  <2> QED
    BY <1>1, <2>2, <2>3, <2>4 DEF Tells, From
<1>5. TellsAll(hourly)'
  <2>1. From(hourly, now' - Retention) = From(From(hourly, now - Retention), now' - Retention)
    BY <1>0, <1>1 DEF From, Tallies, Tally, Entries
  <2> QED
    BY <1>0, <1>1, <2>1 DEF TellsAll, From
<1> QED
  BY <1>0, <1>1, <1>3, <1>4, <1>5 DEF UptimeInv, MergeMakesRoom

\* An execution that is counted on both sides changes nothing of what one tells of the other.
LEMMA CountedTells ==
    ASSUME Tallies, NEW S, Tally(S), Tells(S)
    PROVE  LET C == Counted(S)
               X == Counted(executed)
           IN  /\ Tally(C) /\ Tally(X)
               /\ From(C, now - Buffer + 1) = From(X, now - Buffer + 1)
               /\ \A hour \in Int : hour > now - Retention =>
                     /\ Total(From(C, hour)) <= Total(From(X, hour))
                     /\ Midnight(hour) => Total(From(C, hour)) = Total(From(X, hour))
<1> DEFINE C == Counted(S)
           X == Counted(executed)
<1>0. /\ now \in Nat /\ Entries(S) /\ OnePerHour(S) /\ Entries(executed) /\ OnePerHour(executed)
      /\ Buffer \in Nat \ {0} /\ Retention \in Nat
  BY UptimeAssumption DEF Tallies, Tally
<1>1. /\ Entries(C) /\ OnePerHour(C) /\ Entries(X) /\ OnePerHour(X)
      /\ \A hour \in Int :
            /\ Total(From(C, hour)) =
                  IF hour <= now THEN Total(From(S, hour)) + 1 ELSE Total(From(S, hour))
            /\ Total(From(X, hour)) =
                  IF hour <= now THEN Total(From(executed, hour)) + 1
                                 ELSE Total(From(executed, hour))
  BY <1>0, CountedAdds
<1>2. ASSUME NEW U, Tally(U) PROVE \A e \in Counted(U) : e.hour <= now
  BY <1>0, <1>2 DEF Counted, Tally
<1>3. Tally(C) /\ Tally(X)
  BY <1>1, <1>2 DEF Tally, Tallies
<1>4. From(C, now - Buffer + 1) = From(X, now - Buffer + 1)
  BY <1>0, CountedAlike DEF Tells
<1>5. ASSUME NEW hour \in Int, hour > now - Retention
      PROVE  /\ Total(From(C, hour)) <= Total(From(X, hour))
             /\ Midnight(hour) => Total(From(C, hour)) = Total(From(X, hour))
  <2>1. Total(From(S, hour)) \in Nat /\ Total(From(executed, hour)) \in Nat
    BY <1>0, TotalGrows DEF From
  <2> HIDE DEF C, X
  <2>2. /\ Total(From(S, hour)) <= Total(From(executed, hour))
        /\ Midnight(hour) => Total(From(S, hour)) = Total(From(executed, hour))
    BY <1>5 DEF Tells
  <2> QED
    BY <1>1, <2>1, <2>2
<1> QED
  BY <1>3, <1>4, <1>5

\* An insertion keeps the invariant: it counts, merges when the entries are too many, and
\* cleans up.
LEMMA ExecuteKeeps == UptimeInv /\ Execute => UptimeInv'
<1> SUFFICES ASSUME UptimeInv, Execute PROVE UptimeInv'
  OBVIOUS
<1> DEFINE C == Counted(sqlEntries)
           M == MergedIfMany(C)
           X == Counted(executed)
<1>0. /\ Tallies /\ Tells(sqlEntries) /\ TellsAll(hourly) /\ MergeMakesRoom
      /\ Tally(executed) /\ Tally(sqlEntries) /\ Tally(hourly)
      /\ now \in Nat /\ Buffer \in Nat \ {0} /\ Retention \in Nat /\ Buffer < Retention
      /\ MergeThreshold \in Nat
  BY UptimeAssumption DEF UptimeInv, Tallies
<1>1. now' = now /\ executed' = X /\ sqlEntries' = CleanedUp(M)
      /\ hourly' = CleanedUpInMemory(Counted(hourly))
  BY DEF Execute
<1>2. /\ Tally(C) /\ Tally(X)
      /\ From(C, now - Buffer + 1) = From(X, now - Buffer + 1)
      /\ \A hour \in Int : hour > now - Retention =>
            /\ Total(From(C, hour)) <= Total(From(X, hour))
            /\ Midnight(hour) => Total(From(C, hour)) = Total(From(X, hour))
  BY <1>0, CountedTells
<1> HIDE DEF C, X
<1>3. M \in {C, Merged(C)} /\ (Cardinality(C) >= MergeThreshold => M = Merged(C))
  BY DEF MergedIfMany
<1> HIDE DEF M
<1>4. /\ Tally(M) /\ From(M, now - Buffer + 1) = From(C, now - Buffer + 1)
      /\ \A hour \in Int : hour > now - Retention =>
            /\ Total(From(M, hour)) <= Total(From(C, hour))
            /\ Midnight(hour) => Total(From(M, hour)) = Total(From(C, hour))
  <2>1. CASE M = C
    <3>1. \A hour \in Int : Total(From(C, hour)) \in Nat
      BY <1>2, TotalGrows DEF From, Tally
    <3> QED
      BY <1>2, <2>1, <3>1
  <2>2. CASE M = Merged(C)
    <3>1. MinThreshold \in Int /\ now - Buffer + 1 \in Int /\ now - Buffer + 1 >= MinThreshold
      BY <1>0, MinThresholdIs
    <3>2. Tally(M) /\ From(M, now - Buffer + 1) = From(C, now - Buffer + 1)
      BY <1>0, <1>2, <2>2, <3>1, MergedShape DEF Tally
    <3> QED
      BY <1>0, <1>2, <2>2, <3>2, MergedTotals DEF Tally
  <2> QED
    BY <1>3, <2>1, <2>2
<1>5. Cardinality(M) < MergeThreshold
  <2>1. CASE Cardinality(C) >= MergeThreshold
    BY <1>0, <1>2, <1>3, <2>1, MergedSize DEF Tally
  <2>2. CASE M = C /\ ~(Cardinality(C) >= MergeThreshold)
    <3>1. Cardinality(C) \in Nat
      BY <1>2, FS_CardinalityType DEF Tally, Entries
    <3> QED
      BY <1>0, <2>2, <3>1
  <2>3. CASE M = Merged(C)
    BY <1>0, <1>2, <2>3, MergedSize DEF Tally
  <2> QED
    BY <1>3, <2>1, <2>2, <2>3
<1> DEFINE E == CleanedUp(M)
<1>6. /\ E \subseteq M /\ Tally(E)
      /\ \A hour \in Int : hour >= now - Retention => From(E, hour) = From(M, hour)
  BY <1>0, <1>4, CleanUpsKeep DEF Tally
<1>7. Cardinality(E) < MergeThreshold
  BY <1>0, <1>4, <1>5, <1>6, CleanedUpSize DEF Tally
<1>8. /\ From(E, now - Buffer + 1) = From(X, now - Buffer + 1)
      /\ \A hour \in Int : hour > now - Retention =>
            /\ Total(From(E, hour)) <= Total(From(X, hour))
            /\ Midnight(hour) => Total(From(E, hour)) = Total(From(X, hour))
  <2>1. From(E, now - Buffer + 1) = From(M, now - Buffer + 1)
    BY <1>0, <1>6
  <2>2. ASSUME NEW hour \in Int, hour > now - Retention
        PROVE  /\ Total(From(E, hour)) <= Total(From(X, hour))
               /\ Midnight(hour) => Total(From(E, hour)) = Total(From(X, hour))
    <3>1. From(E, hour) = From(M, hour)
      BY <1>0, <1>6, <2>2
    <3>2. /\ Total(From(M, hour)) \in Nat /\ Total(From(C, hour)) \in Nat
          /\ Total(From(X, hour)) \in Nat
      BY <1>2, <1>4, TotalGrows DEF From, Tally
    <3> HIDE DEF E
    <3>3. /\ Total(From(M, hour)) <= Total(From(C, hour))
          /\ Midnight(hour) => Total(From(M, hour)) = Total(From(C, hour))
      BY <1>4, <2>2
    <3>4. /\ Total(From(C, hour)) <= Total(From(X, hour))
          /\ Midnight(hour) => Total(From(C, hour)) = Total(From(X, hour))
      BY <1>2, <2>2
    <3> QED
      BY <3>1, <3>2, <3>3, <3>4
  <2> QED
    BY <1>2, <1>4, <2>1, <2>2
<1> DEFINE N == Counted(hourly)
<1>9. Tally(N) /\ From(N, now - Retention) = From(X, now - Retention)
      /\ From(X, now - Retention) = X
  <2>1. From(hourly, now - Retention) = executed
    BY <1>0 DEF TellsAll
  <2>2. From(executed, now - Retention) = executed
    BY <2>1 DEF From
  <2>3. Entries(N) /\ OnePerHour(N)
    BY <1>0, CountedAdds DEF Tally
  <2>4. \A e \in N : e.hour <= now
    BY <1>0 DEF Counted, Tally
  <2>5. From(N, now - Retention) = From(X, now - Retention)
    BY <1>0, <2>1, <2>2, CountedAlike DEF Tally, X
  <2>6. \A e \in X : e.hour >= now - Retention
    BY <1>0, <2>2 DEF Counted, From, X
  <2>7. From(X, now - Retention) = X
    BY <2>6 DEF From
  <2> QED
    BY <2>3, <2>4, <2>5, <2>7 DEF Tally
<1> DEFINE O == CleanedUpInMemory(N)
<1>10. Tally(O) /\ From(O, now - Retention) = X
  <2> HIDE DEF N
  <2>1. /\ O \subseteq N /\ Entries(O) /\ OnePerHour(O)
        /\ From(O, now - Retention) = From(N, now - Retention)
    BY <1>0, <1>9, CleanUpsKeep DEF Tally
  <2> QED
    BY <1>9, <2>1 DEF Tally
<1>11. sqlEntries' = E /\ hourly' = O
  BY <1>1
<1> HIDE DEF E, N, O
<1>12. Tallies'
  BY <1>0, <1>1, <1>2, <1>6, <1>10, <1>11 DEF Tallies, Tally
<1>13. Tells(sqlEntries)'
  BY <1>1, <1>8, <1>11 DEF Tells
<1>14. TellsAll(hourly)'
  BY <1>1, <1>10, <1>11 DEF TellsAll
<1>15. MergeMakesRoom'
  BY <1>7, <1>11 DEF MergeMakesRoom
<1> QED
  BY <1>12, <1>13, <1>14, <1>15 DEF UptimeInv
-----------------------------------------------------------------------------
\* Every state has one entry of each hour at most, counted by what was executed.
THEOREM UptimeInvariant == UptimeSpec => []UptimeInv
<1>1. UptimeInv /\ UNCHANGED uptimeVars => UptimeInv'
  BY DEF UptimeInv, uptimeVars, Tallies, Tally, Tells, TellsAll, From, MergeMakesRoom
<1>2. UptimeInv /\ [UptimeNext]_uptimeVars => UptimeInv'
  BY <1>1, TickKeeps, ExecuteKeeps DEF UptimeNext
<1> QED
  BY UptimeInitInv, <1>2, PTL DEF UptimeSpec

\* For every number of hours of a day and days of retention that the threshold fits: what an
\* insertion leaves is fewer entries than the threshold, so that no merge follows a merge in
\* the same hour.
THEOREM MergeMakesRoomHolds == UptimeSpec => []MergeMakesRoom
<1>1. UptimeInv => MergeMakesRoom
  BY DEF UptimeInv
<1> QED
  BY UptimeInvariant, <1>1, PTL

\* A window counts the entries from an hour on.
LEMMA WindowsAre ==
    ASSUME Tallies, NEW hours \in Nat
    PROVE  /\ SqlUptime(hours) = Total(From(sqlEntries, now - hours + 1))
           /\ Happened(hours) = Total(From(executed, now - hours + 1))
           /\ MemoryUptime(hours) = Total(From(hourly, now - hours))
<1>1. sqlEntries \ OlderThan(hours, sqlEntries) = From(sqlEntries, now - hours + 1)
  BY DEF OlderThan, From, Tallies, Tally, Entries
<1>2. {e \in executed : e.hour > now - hours} = From(executed, now - hours + 1)
  BY DEF From, Tallies, Tally, Entries
<1>3. {e \in hourly : \E back \in 0..hours : e.hour = now - back} = From(hourly, now - hours)
  <2>1. ASSUME NEW e \in hourly
        PROVE  (\E back \in 0..hours : e.hour = now - back) <=> e.hour >= now - hours
    <3>1. /\ e.hour \in Nat /\ now \in Nat /\ e.hour <= now
          /\ e.hour >= now - hours => now - e.hour \in 0..hours /\ e.hour = now - (now - e.hour)
      BY DEF Tallies, Tally, Entries
    <3> QED
      BY <3>1
  <2> QED
    BY <2>1 DEF From
<1> QED
  BY <1>1, <1>2, <1>3 DEF SqlUptime, Happened, MemoryUptime

\* What the invariant says from some hour on, windows say of their length: the entries from
\* the beginning of the day after the window began are exact.
LEMMA WindowsFollow == UptimeInv => WindowsExactButFirstDay
<1> SUFFICES ASSUME UptimeInv PROVE WindowsExactButFirstDay
  OBVIOUS
<1>0. /\ Tallies /\ Tells(sqlEntries) /\ TellsAll(hourly)
      /\ Entries(executed) /\ Entries(sqlEntries) /\ Entries(hourly)
      /\ now \in Nat /\ HoursPerDay \in Nat \ {0} /\ Buffer = 2 * HoursPerDay
      /\ Retention \in Nat /\ Buffer < Retention
  BY ConstantTypes DEF UptimeInv, Tallies, Tally
<1>1. SqlUptime(HoursPerDay) = Happened(HoursPerDay)
  <2> DEFINE buffered == now - Buffer + 1
             c == now - HoursPerDay + 1
  <2>1. From(sqlEntries, c) = From(From(sqlEntries, buffered), c)
    BY <1>0 DEF From, Entries
  <2>2. From(executed, c) = From(From(executed, buffered), c)
    BY <1>0 DEF From, Entries
  <2>3. From(sqlEntries, buffered) = From(executed, buffered)
    BY <1>0 DEF Tells
  <2>4. From(sqlEntries, c) = From(executed, c)
    BY <2>1, <2>2, <2>3
  <2> QED
    BY <1>0, <2>4, WindowsAre
<1>2. ASSUME NEW hours \in HoursPerDay .. Retention
      PROVE  /\ SqlUptime(hours) <= Happened(hours)
             /\ Happened(hours - HoursPerDay) <= SqlUptime(hours)
             /\ MemoryUptime(hours) = Happened(hours + 1)
  <2>0. /\ hours \in Nat /\ hours - HoursPerDay \in Nat /\ hours + 1 \in Nat
        /\ hours >= HoursPerDay /\ hours <= Retention
    BY <1>0
  <2>1. PICK c \in Int : c = now - hours + 1
    BY <1>0, <2>0
  <2>2. c > now - Retention /\ now - (hours - HoursPerDay) + 1 = c + HoursPerDay
        /\ now - (hours + 1) + 1 = now - hours
    BY <1>0, <2>0, <2>1
  <2>3. /\ SqlUptime(hours) = Total(From(sqlEntries, c)) /\ Happened(hours) = Total(From(executed, c))
        /\ MemoryUptime(hours) = Total(From(hourly, now - hours))
    BY <1>0, <2>0, <2>1, WindowsAre
  <2>4. Happened(hours - HoursPerDay) = Total(From(executed, c + HoursPerDay))
    BY <1>0, <2>0, <2>2, WindowsAre
  <2>5. Happened(hours + 1) = Total(From(executed, now - hours))
    BY <1>0, <2>0, <2>2, WindowsAre
  <2>6. Total(From(sqlEntries, c)) <= Total(From(executed, c))
    BY <1>0, <2>2 DEF Tells
  <2>7. Total(From(executed, c + HoursPerDay)) <= Total(From(sqlEntries, c))
    <3>1. PICK day \in Int : Midnight(day) /\ c <= day /\ day < c + HoursPerDay
      BY NextMidnight
    <3>2. Total(From(sqlEntries, day)) = Total(From(executed, day))
      <4>1. day > now - Retention
        BY <1>0, <2>2, <3>1
      <4> QED
        BY <1>0, <3>1, <4>1 DEF Tells
    <3>3. From(executed, c + HoursPerDay) \subseteq From(executed, day)
      BY <1>0, <3>1 DEF From, Entries
    <3>4. From(sqlEntries, day) \subseteq From(sqlEntries, c)
      BY <1>0, <3>1 DEF From, Entries
    <3>5. Entries(From(executed, day)) /\ Entries(From(sqlEntries, c))
      BY <1>0, SubEntries DEF From
    <3>6. /\ Total(From(executed, c + HoursPerDay)) <= Total(From(executed, day))
          /\ Total(From(executed, c + HoursPerDay)) \in Nat
          /\ Total(From(executed, day)) \in Nat
      BY <3>3, <3>5, TotalGrows
    <3>7. /\ Total(From(sqlEntries, day)) <= Total(From(sqlEntries, c))
          /\ Total(From(sqlEntries, c)) \in Nat
      BY <3>4, <3>5, TotalGrows
    <3> QED
      BY <3>2, <3>6, <3>7
  <2>8. From(hourly, now - hours) = From(executed, now - hours)
    <3>1. From(hourly, now - hours) = From(From(hourly, now - Retention), now - hours)
      BY <1>0, <2>0 DEF From, Entries
    <3> QED
      BY <1>0, <3>1 DEF TellsAll
  <2> QED
    BY <2>3, <2>4, <2>5, <2>6, <2>7, <2>8
<1> QED
  BY <1>1, <1>2 DEF WindowsExactButFirstDay

\* Any window of a day is exact; of a longer one nothing is counted twice, and nothing is lost
\* but of its first day.
THEOREM WindowsExactButFirstDayHolds == UptimeSpec => []WindowsExactButFirstDay
BY UptimeInvariant, WindowsFollow, PTL
=============================================================================
