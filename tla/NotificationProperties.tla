----------------------- MODULE NotificationProperties -----------------------
(***************************************************************************)
(* What a provider owes to the alert it is sent for and to the service.    *)
(***************************************************************************)
EXTENDS Notification

\* A provider that is kept at load can send: whatever an override that is well
\* formed adds, the fields of the effective configuration validate again in
\* Send, so a Send can only fail for an answer of the service.  The pair of
\* awsses is the exception: an override may give one of the two.
KeptCanSend ==
    provider = "kept" /\ ~config.unreadable /\ config.bad = {} /\ type.paired = {}
        => Valid(GetConfig)

\* Send returns nil only when everyone was told: where there is a request for
\* each recipient, no failure of one of them is passed over.
SentToEveryone ==
    outcome \in {"sent", "resolved"} =>
        CASE type.service = "recipients" -> told = Recipients
          [] type.service = "message" -> told = 1
          [] OTHER -> TRUE

\* A resolution that is reported as sent leaves no incident of the alert open,
\* whatever was refused, lost or sent again before it, for the services that
\* are asked by the endpoint's own key or searched.  A search sees one page
\* and goes by the name: the exceptions are a list longer than that, and tasks
\* whose configured name leaves the endpoint's out.
ResolvedClosesOwn ==
    outcome = "resolved" /\ ~cut /\ ~config.nameless
    /\ type.service \in {"endpoint", "alias", "issues", "tasks"}
        => \A i \in incidents : i.owner # "own"

\* A restart does not lose the key of an open incident: from the write of the
\* row of an accepted notification until the alert is resolved, whatever is
\* refused, lost, not written or restarted in between, the row holds the key in
\* memory, and it is the key of an incident that is open, for the services that
\* return a key or are given one.  A reminder that is accepted makes the row due
\* again; an answer that could not be decoded promises nothing.
KeySurvivesRestart ==
    write = "saved" =>
        /\ alert.triggered
        /\ row = alert.resolveKey
        /\ type.service = "generated" \/ (type.service = "returned" /\ config.sendOnResolved)
              => Incident("own", row) \in incidents
=============================================================================
