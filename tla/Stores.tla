------------------------------- MODULE Stores -------------------------------
(***************************************************************************)
(* The stores: results and events of endpoints, results of suites, in      *)
(* memory or in the tables of SQLite or Postgres behind a write-through    *)
(* cache of pages.  SQLite has one connection, so that transactions follow *)
(* each other; on Postgres they run concurrently.  Each key is written by  *)
(* the one goroutine that monitors it.  Uptime is in Uptime, the rows of   *)
(* triggered alerts are in Alerting.                                       *)
(***************************************************************************)
EXTENDS Naturals, Sequences, FiniteSets

CONSTANTS
    Kinds,        \* of "memory", "sqlite", "postgres"
    Endpoints,    \* keys of the endpoints
    Suites,       \* keys of the suites
    MemberOf,     \* the endpoint of each suite
    Matches,      \* the keys whose cache keys match the pattern made of a key
    Writers,      \* goroutines that insert
    Readers,      \* goroutines that serve requests
    Pages,        \* pages asked for
    PageSize,     \* results of a page
    MaxResults,   \* maximum-number-of-results
    MaxEvents,    \* maximum-number-of-events
    CleanUp,      \* rows above a maximum before a clean-up
    Faults,       \* of "commit", "result", "member", "delete"
    MaxInserts    \* bounds the insertions

Members == {MemberOf[s] : s \in Suites}
Keys == Endpoints \cup Members \cup Suites

ASSUME StoresAssumption ==
    /\ Kinds \subseteq {"memory", "sqlite", "postgres"}
    /\ MemberOf \in [Suites -> Members]
    /\ \A s, t \in Suites : MemberOf[s] = MemberOf[t] => s = t
    /\ Endpoints \cap Members = {} /\ Suites \cap (Endpoints \cup Members) = {}
    /\ Matches \in [Endpoints -> SUBSET (Endpoints \cup Members)]
    /\ \A k \in Endpoints : k \in Matches[k]
    /\ {PageSize, MaxResults, MaxEvents} \subseteq Nat \ {0} /\ Pages \subseteq Nat \ {0}
    /\ {CleanUp, MaxInserts} \subseteq Nat

VARIABLES
    kind,         \* storage.type
    known,        \* the keys that have a row in endpoints or suites
    results,      \* per key, oldest first: rows [ok, of], of the suite's result by number or 0
    events,       \* per key, oldest first: the types
    txs,          \* per writer: its transaction, or Idle
    reads,        \* per reader: the page it is reading, or NoRead
    cache,        \* the write-through cache: <<key, page>> -> what was cached
    uncertain,    \* keys whose cached pages a failed commit may have changed
    starting,     \* what initializeStorage has still to delete, or Started
    incomplete,   \* history: suites whose endpoint may lack some of their results
    inserts       \* the insertions begun

vars == <<kind, known, results, events, txs, reads, cache, uncertain, starting, incomplete, inserts>>

Idle == [step |-> "idle"]
NoRead == [step |-> "none"]
Started == [step |-> "done"]
Nothing == [k \in {} |-> NoRead]
ToEvent(ok) == IF ok THEN "HEALTHY" ELSE "UNHEALTHY"
Row(ok) == [ok |-> ok, of |-> 0]

Init ==
    /\ kind \in Kinds
    /\ known = {}
    /\ results = [k \in Keys |-> <<>>]
    /\ events = [k \in Keys |-> <<>>]
    /\ txs = [w \in Writers |-> Idle]
    /\ reads = [r \in Readers |-> NoRead]
    /\ cache = Nothing
    /\ uncertain = {}
    /\ starting = Started
    /\ incomplete = {}
    /\ inserts = 0

\* The goroutines of a configuration insert until they end, those that a reload
\* has replaced into the store that is being started; after a crash there are none.
Inserting == starting # Started => starting.watched

(***************************************************************************)
(* The newest rows, and the pages, which count from the newest row.        *)
(***************************************************************************)
Last(rows) == rows[Len(rows)]
Excess(rows, n) == IF Len(rows) > n THEN Len(rows) - n ELSE 0
Newest(rows, n) == SubSeq(rows, Excess(rows, n) + 1, Len(rows))

\* ORDER BY id DESC LIMIT size OFFSET (page-1)*size, turned round again
SqlPage(rows, page, size) ==
    Newest(SubSeq(rows, 1, Excess(rows, (page - 1) * size)), size)

\* Mutant of MemoryPage: the end is one too low.
MemoryPageOneShort(rows, page, size) ==
    SubSeq(rows, Excess(rows, page * size) + 1, Excess(rows, (page - 1) * size + 1))

\* getStartAndEndIndex and the slice it cuts; below 0 the slice is empty
MemoryPage(rows, page, size) ==
    LET start == IF Len(rows) < page * size THEN 0 ELSE Len(rows) - page * size
        end == IF Len(rows) < (page - 1) * size THEN 0 ELSE Len(rows) - (page - 1) * size
    IN  SubSeq(rows, start + 1, end)

\* extractPageAndPageSizeFromRequest
SizeFor(page, size) == IF page = 1 /\ size > MaxResults THEN MaxResults ELSE size

-----------------------------------------------------------------------------
(***************************************************************************)
(* The memory store: the lock makes an insertion one step.                 *)
(***************************************************************************)
\* AddResult, after the START of an endpoint that was not there
EventsInMemory(k, ok) ==
    CASE k \notin known -> <<"START", ToEvent(ok)>>
      [] k \in known /\ Last(results[k]).ok # ok ->
            Newest(Append(events[k], ToEvent(ok)), MaxEvents)
      [] OTHER -> events[k]

InsertInMemory(k, ok) ==
    /\ kind = "memory"
    /\ Inserting /\ inserts < MaxInserts
    /\ known' = known \cup {k}
    /\ events' = IF k \in Suites THEN events
                 ELSE [events EXCEPT ![k] = EventsInMemory(k, ok)]
    /\ results' = [results EXCEPT ![k] = Newest(Append(@, Row(ok)), MaxResults)]
    /\ inserts' = inserts + 1
    /\ UNCHANGED <<kind, txs, reads, cache, uncertain, starting, incomplete>>

-----------------------------------------------------------------------------
(***************************************************************************)
(* The SQL store.  A transaction sees what is committed, and its own rows  *)
(* of the keys it writes.                                                  *)
(***************************************************************************)
Open(w) == txs[w].step # "idle"
Reading(r) == reads[r] # NoRead
Written(k) == IF k \in Suites THEN {k, MemberOf[k]} ELSE {k}

SeenKnown(tx) == known \cup tx.created
SeenResults(tx, k) == IF k \in Written(tx.key) THEN tx.results[k] ELSE results[k]
SeenEvents(tx, k) == IF k = tx.key THEN tx.events ELSE events[k]

Status(resultRows, eventRows, page) ==
    [results |-> SqlPage(resultRows, page, SizeFor(page, PageSize)),
     events |-> SqlPage(eventRows, 1, MaxEvents)]

Committed(k, page) == Status(results[k], events[k], page)

\* SetMaxOpenConns(1) lets one transaction at a time begin on SQLite
CanBegin ==
    kind = "sqlite" =>
        (\A w \in Writers : ~Open(w)) /\ (\A r \in Readers : ~Reading(r))

(***************************************************************************)
(* InsertEndpointResult, statement by statement.                           *)
(***************************************************************************)
\* the endpoint or the suite is looked up, and created if it is missing
Begin(w, k, ok) ==
    /\ kind # "memory"
    /\ Inserting /\ inserts < MaxInserts
    /\ ~Open(w) /\ CanBegin
    /\ ~\E v \in Writers : Open(v) /\ txs[v].key = k
    /\ txs' = [txs EXCEPT ![w] =
                [step |-> "found", key |-> k, ok |-> ok, created |-> {k} \ known,
                 wrote |-> FALSE, old |-> FALSE,
                 results |-> [x \in Written(k) |-> results[x]], events |-> events[k]]]
    /\ inserts' = inserts + 1
    /\ UNCHANGED <<kind, known, results, events, reads, cache, uncertain, starting, incomplete>>

Rollback(w) == txs' = [txs EXCEPT ![w] = Idle]

\* Mutant of Changes: compared with the result that has just been inserted.
ChangesNone(tx) == IF tx.events = <<>> THEN <<"START", ToEvent(tx.ok)>> ELSE <<>>

Changes(tx) ==
    IF tx.events = <<>>
    THEN <<"START", ToEvent(tx.ok)>>
    ELSE IF Last(tx.results[tx.key]).ok = tx.ok THEN <<>> ELSE <<ToEvent(tx.ok)>>

\* the events are counted before the new one is inserted
TooManyEvents(tx) == Len(tx.events) > MaxEvents + CleanUp

EventsAfter(tx) ==
    LET all == tx.events \o Changes(tx)
    IN  IF TooManyEvents(tx) THEN Newest(all, MaxEvents) ELSE all

\* an endpoint that a reload deleted meanwhile has no events to be counted and
\* cannot be given any
InsertEvents(w) ==
    LET tx == txs[w]
    IN  /\ tx.step = "found" /\ tx.key \in Endpoints
        /\ IF tx.key \in SeenKnown(tx)
           THEN txs' = [txs EXCEPT ![w].step = "recorded",
                                   ![w].events = EventsAfter(tx),
                                   ![w].wrote = Changes(tx) # <<>>]
           ELSE Rollback(w)
        /\ UNCHANGED <<kind, known, results, events, reads, cache, uncertain, starting, incomplete, inserts>>

TooManyResults(rows) == Len(rows) > MaxResults + CleanUp

\* Mutant of ResultsAfter: one row too many is deleted.
ResultsAfterOneFewer(rows) ==
    IF TooManyResults(rows) THEN Newest(rows, MaxResults - 1) ELSE rows

ResultsAfter(rows) == IF TooManyResults(rows) THEN Newest(rows, MaxResults) ELSE rows

InsertResult(w) ==
    LET k == txs[w].key
    IN  /\ txs[w].step = "recorded"
        /\ k \in SeenKnown(txs[w])
        /\ txs' = [txs EXCEPT ![w].step = "inserted",
                              ![w].wrote = TRUE,
                              ![w].results[k] = ResultsAfter(Append(@, Row(txs[w].ok)))]
        /\ UNCHANGED <<kind, known, results, events, reads, cache, uncertain, starting, incomplete, inserts>>

InsertResultFails(w) ==
    /\ txs[w].step = "recorded"
    /\ "result" \in Faults \/ txs[w].key \notin SeenKnown(txs[w])
    /\ Rollback(w)
    /\ UNCHANGED <<kind, known, results, events, reads, cache, uncertain, starting, incomplete, inserts>>

\* Mutant of Refreshed: the pages are read outside the transaction.
RefreshedOutside(tx) ==
    [at \in DOMAIN cache |->
        IF at[1] \in Matches[tx.key] THEN Committed(at[1], at[2]) ELSE cache[at]]

\* every cached page whose key matches is deleted and read again
Refreshed(tx) ==
    [at \in {at \in DOMAIN cache : at[1] \in Matches[tx.key] => at[1] \in SeenKnown(tx)} |->
        IF at[1] \in Matches[tx.key]
        THEN Status(SeenResults(tx, at[1]), SeenEvents(tx, at[1]), at[2])
        ELSE cache[at]]

\* before the commit; the cache of a store that a reload closed is not read any more
RefreshCache(w) ==
    /\ txs[w].step = "inserted"
    /\ txs' = [txs EXCEPT ![w].step = "refreshed"]
    /\ cache' = IF txs[w].old THEN cache ELSE Refreshed(txs[w])
    /\ UNCHANGED <<kind, known, results, events, reads, uncertain, starting, incomplete, inserts>>

Commit(w) ==
    LET tx == txs[w]
    IN  /\ tx.step = "refreshed"
        /\ known' = SeenKnown(tx)
        /\ results' = [k \in Keys |-> SeenResults(tx, k)]
        /\ events' = [events EXCEPT ![tx.key] = tx.events]
        /\ Rollback(w)
        /\ uncertain' = CASE tx.key \in Suites -> uncertain
                          [] tx.key \notin Suites /\ tx.old -> uncertain \cup {tx.key}
                          [] OTHER -> uncertain \ {tx.key}
        /\ UNCHANGED <<kind, reads, cache, starting, incomplete, inserts>>

CommitFails(w) ==
    /\ "commit" \in Faults
    /\ txs[w].step = "refreshed"
    /\ Rollback(w)
    /\ uncertain' = uncertain \cup ({txs[w].key} \ Suites)
    /\ UNCHANGED <<kind, known, results, events, reads, cache, starting, incomplete, inserts>>

(***************************************************************************)
(* InsertSuiteResult: the suite's result and the one of its endpoint,      *)
(* which is linked to it and deleted with it, as the tables have them by   *)
(* now.  Rows are renumbered when the oldest ones go.  An endpoint that    *)
(* cannot be stored is skipped; on Postgres nothing is stored then, since  *)
(* a transaction with a failed statement does not commit.                  *)
(***************************************************************************)
Linked(rows, n) == [ok |-> Last(rows).ok, of |-> n]

\* Mutant of Cascade: the endpoint's rows of a deleted result stay.
CascadeNone(rows, n) == rows

Cascade(rows, n) ==
    LET kept == {i \in DOMAIN rows : rows[i].of > n}
        Nth(m) == CHOOSE i \in kept : Cardinality({j \in kept : j <= i}) = m
    IN  [m \in 1..Cardinality(kept) |-> [rows[Nth(m)] EXCEPT !.of = @ - n]]

\* the suite's rows and its endpoint's after the result, members of which are its endpoint's
WithSuiteResult(tx, members, created) ==
    LET s == tx.key
        rows == Append(results[s], Row(tx.ok))
    IN  [tx EXCEPT
           !.step = "refreshed", !.wrote = TRUE, !.created = @ \cup created,
           !.results = [k \in Written(s) |->
               IF k = s THEN ResultsAfter(rows)
               ELSE Cascade(members, Len(rows) - Len(ResultsAfter(rows)))]]

InsertSuiteResult(w) ==
    LET tx == txs[w]
        e == MemberOf[tx.key]
        rows == Append(results[tx.key], Row(tx.ok))
    IN  /\ tx.step = "found" /\ tx.key \in Suites
        /\ IF tx.key \in SeenKnown(tx)
           THEN txs' = [txs EXCEPT ![w] =
                         WithSuiteResult(tx, Append(results[e], Linked(rows, Len(rows))), {e})]
           ELSE Rollback(w)
        /\ UNCHANGED <<kind, known, results, events, reads, cache, uncertain, starting, incomplete,
                       inserts>>

SkipMember(w) ==
    LET tx == txs[w]
        e == MemberOf[tx.key]
    IN  /\ "member" \in Faults /\ kind = "sqlite"
        /\ tx.step = "found" /\ tx.key \in Suites /\ tx.key \in SeenKnown(tx)
        /\ \E created \in SUBSET {e} :
              txs' = [txs EXCEPT ![w] = WithSuiteResult(tx, results[e], created)]
        /\ incomplete' = incomplete \cup {tx.key}
        /\ UNCHANGED <<kind, known, results, events, reads, cache, uncertain, starting, inserts>>

(***************************************************************************)
(* GetEndpointStatusByKey: a page that is not cached is read, the events   *)
(* and then the results, and then cached.                                  *)
(***************************************************************************)
ReadEvents(r, k, page) ==
    /\ kind # "memory"
    /\ starting = Started
    /\ ~Reading(r) /\ CanBegin
    /\ <<k, page>> \notin DOMAIN cache
    /\ k \in known \ Suites
    /\ reads' = [reads EXCEPT ![r] =
                   [step |-> "events", at |-> <<k, page>>, status |-> Status(<<>>, events[k], page)]]
    /\ UNCHANGED <<kind, known, results, events, txs, cache, uncertain, starting, incomplete, inserts>>

ReadResults(r) ==
    /\ reads[r].step = "events"
    /\ LET at == reads[r].at
       IN  reads' = [reads EXCEPT
                      ![r].step = "results",
                      ![r].status.results = Committed(at[1], at[2]).results]
    /\ UNCHANGED <<kind, known, results, events, txs, cache, uncertain, starting, incomplete, inserts>>

CachePage(r) ==
    /\ reads[r].step = "results"
    /\ cache' = [at \in DOMAIN cache \cup {reads[r].at} |->
                    IF at = reads[r].at THEN reads[r].status ELSE cache[at]]
    /\ reads' = [reads EXCEPT ![r] = NoRead]
    /\ UNCHANGED <<kind, known, results, events, txs, uncertain, starting, incomplete, inserts>>

\* ten minutes passed, or the cache is full
Expire(at) ==
    /\ cache' = [other \in DOMAIN cache \ {at} |-> cache[other]]
    /\ UNCHANGED <<kind, known, results, events, txs, reads, uncertain, starting, incomplete, inserts>>

(***************************************************************************)
(* initializeStorage: a new store, and then what is not configured is      *)
(* deleted from it, the suites and then the endpoints.                     *)
(***************************************************************************)
Configurations ==
    {keep \in SUBSET Keys : \A s \in Suites : s \in keep <=> MemberOf[s] \in keep}

Initialize(keep, watched) ==
    /\ IF kind = "memory"
       THEN /\ known' = {}
            /\ results' = [k \in Keys |-> <<>>]
            /\ events' = [k \in Keys |-> <<>>]
       ELSE UNCHANGED <<known, results, events>>
    /\ cache' = Nothing
    /\ reads' = [r \in Readers |-> NoRead]
    /\ uncertain' = {}
    /\ starting' = [step |-> "suites", keep |-> keep, watched |-> watched]
    /\ UNCHANGED <<kind, incomplete, inserts>>

\* a reload: the transactions of the closed store go on, and end
Reload(keep) ==
    /\ starting = Started
    /\ kind = "sqlite" => \A w \in Writers : ~Open(w)
    /\ txs' = [w \in Writers |-> IF Open(w) THEN [txs[w] EXCEPT !.old = TRUE] ELSE Idle]
    /\ Initialize(keep, TRUE)

\* a crash, at any time, and a start: they are rolled back
Restart(keep) ==
    /\ kind # "memory"
    /\ txs' = [w \in Writers |-> Idle]
    /\ Initialize(keep, FALSE)

\* on Postgres a row that refers to another one locks it until its transaction ends
Locked(k) == \E w \in Writers : Open(w) /\ txs[w].wrote /\ k \in Written(txs[w].key)

\* a statement that deletes keys, and every row of some of them
Delete(keys, emptied) ==
    /\ CanBegin
    /\ \A k \in known \cap keys : ~Locked(k)
    /\ known' = known \ keys
    /\ results' = [k \in Keys |-> IF k \in emptied THEN <<>> ELSE results[k]]
    /\ events' = [k \in Keys |-> IF k \in keys THEN <<>> ELSE events[k]]

\* the rows of its endpoint are deleted with a suite's results
DeleteSuites ==
    /\ starting # Started /\ starting.step = "suites"
    /\ LET gone == Suites \ starting.keep
       IN  /\ Delete(gone, gone \cup {MemberOf[s] : s \in gone})
           /\ incomplete' = incomplete \ gone
    /\ starting' = [starting EXCEPT !.step = "endpoints"]
    /\ UNCHANGED <<kind, txs, reads, cache, uncertain, inserts>>

\* and the cache is emptied; suites that are still there lose their endpoint's rows
DeleteEndpoints ==
    /\ starting # Started /\ starting.step = "endpoints"
    /\ LET gone == (Endpoints \cup Members) \ starting.keep
       IN  /\ Delete(gone, gone)
           /\ incomplete' = incomplete \cup {s \in Suites : MemberOf[s] \in gone /\ results[s] # <<>>}
    /\ cache' = Nothing
    /\ starting' = Started
    /\ UNCHANGED <<kind, txs, reads, uncertain, inserts>>

\* either is logged, and the start goes on
DeletionFails ==
    /\ "delete" \in Faults /\ kind # "memory"
    /\ starting # Started
    /\ starting' = IF starting.step = "suites" THEN [starting EXCEPT !.step = "endpoints"] ELSE Started
    /\ UNCHANGED <<kind, known, results, events, txs, reads, cache, uncertain, incomplete, inserts>>

Insert(w) ==
    \/ \E k \in Endpoints \cup Suites, ok \in BOOLEAN : Begin(w, k, ok)
    \/ InsertEvents(w)
    \/ InsertResult(w)
    \/ InsertResultFails(w)
    \/ RefreshCache(w)
    \/ InsertSuiteResult(w)
    \/ SkipMember(w)
    \/ Commit(w)
    \/ CommitFails(w)

Next ==
    \/ \E k \in Endpoints \cup Suites, ok \in BOOLEAN : InsertInMemory(k, ok)
    \/ \E w \in Writers : Insert(w)
    \/ \E r \in Readers, k \in Keys, page \in Pages : ReadEvents(r, k, page)
    \/ \E r \in Readers : ReadResults(r)
    \/ \E r \in Readers : CachePage(r)
    \/ \E at \in DOMAIN cache : Expire(at)
    \/ \E keep \in Configurations : Reload(keep)
    \/ \E keep \in Configurations : Restart(keep)
    \/ DeleteSuites
    \/ DeleteEndpoints
    \/ DeletionFails

Spec == Init /\ [][Next]_vars
=============================================================================
