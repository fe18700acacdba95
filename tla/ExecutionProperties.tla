------------------------ MODULE ExecutionProperties ------------------------
(***************************************************************************)
(* When executions happen, what their results mean and when they alert.    *)
(***************************************************************************)
EXTENDS Execution

\* An execution proceeds, or is skipped, because of what a check found that began
\* at most an interval and a timeout ago, although several goroutines check and
\* assign what they found in any order; unless it read the outcome while another
\* one had assigned the time of its check and not its outcome yet.
DecidesOnRecentCheck ==
    [][\A t \in Threads :
          At(t, "connected") /\ pc'[t] # pc[t] =>
              \/ foundAt >= now - Interval - CheckTimeout
              \/ \E u \in Threads : At(u, "assigning")]_vars

\* A condition that only an answer can fulfil: it does not hold of a result that
\* nothing was assigned to.  Addresses, domains and durations do not come from the
\* target, and an SSH banner that is not read has a status.
NeedsAnswer(e, c) ==
    /\ c.placeholder \in {"CONNECTED", "DNS_RCODE", "BODY", "BODY.path", "CERTIFICATE_EXPIRATION"}
                         \cup IF e.type = "SSH" THEN {} ELSE {"STATUS"}
    /\ ~Holds(c, NewResult)

\* A success that such a condition takes part in is the success of a target that
\* answered, for every protocol and every kind of failure: although an error does
\* not make a result fail, the fields of a failed call make the condition fail.
\* Nothing answers a UDP endpoint without a body.
SuccessMeansAnswered ==
    \A t \in Threads :
        LET e == endpoint[t]
        IN  /\ At(t, "stored") /\ outcome[t].success
            /\ \E c \in e.conditions : NeedsAnswer(e, c)
            /\ ~(e.type = "UDP" /\ ~e.body)
            => outcome[t].answered

\* the present is within a period that starts on a day of the window
Contains(w, time) ==
    w.enabled /\ \E day \in {Day(time) - 1, Day(time)} :
        /\ w.every = {} \/ Weekday(day) \in w.every
        /\ day * DayLength + w.start < time
        /\ time < day * DayLength + w.start + w.duration

\* the minutes before the start, within its hour: the period that started the day
\* before is not looked for
BeforeStartWithinHour(w, time) ==
    Hour(time) = w.start \div UnitsPerHour /\ time % DayLength < w.start

\* Alerting is handled exactly when no window contains the moment at which the
\* result was stored, over midnight and the days of the week, for windows that
\* were validated.
AlertsOutsideWindows ==
    [][\A t \in Threads :
          LET all == endpoint[t].windows \cup {Global}
          IN  /\ At(t, "stored") /\ pc'[t] # pc[t]
              /\ \A w \in all : w.validated /\ ~BeforeStartWithinHour(w, now)
              => (pc'[t] = "alerting" <=> \A w \in all : ~Contains(w, now))]_vars
=============================================================================
