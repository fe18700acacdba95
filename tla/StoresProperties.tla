-------------------------- MODULE StoresProperties --------------------------
(***************************************************************************)
(* What the stores promise to the watchdog and to the API.                 *)
(***************************************************************************)
EXTENDS Stores

\* A page that is cached is what the tables hold, on SQLite, between two
\* insertions: the refresh inside a transaction that commits leaves nothing
\* stale.  The exceptions are an endpoint whose last insertion could not be
\* committed after the refresh, and the endpoints of suites, which
\* InsertSuiteResult does not refresh.
CachedPagesAreCommitted ==
    kind = "sqlite" /\ (\A w \in Writers : ~Open(w)) =>
        \A at \in DOMAIN cache :
            at[1] \notin uncertain \cup Members => cache[at] = Committed(at[1], at[2])

\* The last event of an endpoint tells the outcome of its last result, and no
\* two events in a row are the same, over clean-ups, failed insertions,
\* reloads and restarts.
EventsFollowResults ==
    \A k \in Endpoints \cap known :
        /\ Last(events[k]) = ToEvent(Last(results[k]).ok)
        /\ \A n \in 2..Len(events[k]) : events[k][n] # events[k][n - 1]

\* Pages are windows of the same list in both stores, and every row is on one of
\* them, whatever the number of rows and the size.  The first page never shows
\* the rows above the maximum that wait for a clean-up.
PagesAgree ==
    \A k \in Keys, size \in 1..MaxResults + 1 :
        /\ \A page \in 1..MaxResults + 2 :
              MemoryPage(results[k], page, size) = SqlPage(results[k], page, size)
        /\ \A n \in DOMAIN results[k] :
              \E page \in 1..Len(results[k]), m \in 1..size :
                  /\ m <= Len(MemoryPage(results[k], page, size))
                  /\ n = Excess(results[k], page * size) + m
        /\ SqlPage(results[k], 1, SizeFor(1, size)) = Newest(Newest(results[k], MaxResults), size)

\* The endpoint of a suite keeps no results but those of stored results of the
\* suite, of each at most one and in their order, over clean-ups that cascade,
\* reloads whose insertions come between the deletions, and restarts.  It keeps
\* all of them unless one was skipped when it was inserted, or the endpoint was
\* deleted and the suite was not: its own deletion failed, or an insertion came
\* after it.
SuiteResultsComplete ==
    kind # "memory" =>
        \A s \in Suites :
            LET members == results[MemberOf[s]]
            IN  /\ \A n \in DOMAIN members :
                      /\ members[n].of \in DOMAIN results[s]
                      /\ members[n].ok = results[s][members[n].of].ok
                /\ \A m, n \in DOMAIN members : m < n => members[m].of < members[n].of
                /\ s \notin incomplete => Len(members) = Len(results[s])

-----------------------------------------------------------------------------
(***************************************************************************)
(* Every store keeps the history of endpoints and suites, whenever it      *)
(* cleans up its rows and however transactions interleave and fail.        *)
(***************************************************************************)
History == INSTANCE StatusHistory WITH
    Keys <- Endpoints \cup Suites,
    results <- [k \in Endpoints \cup Suites |-> Newest(results[k], MaxResults)],
    events <- [k \in Endpoints \cup Suites |-> Newest(events[k], MaxEvents)]

\* The steps of every store are those of the abstract history or change nothing
\* of it.
ImplementsStatusHistory == History!Spec
=============================================================================
