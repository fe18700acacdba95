---------------------------- MODULE Notification ----------------------------
(***************************************************************************)
(* One alert of one endpoint and its provider: the provider's              *)
(* configuration is loaded, the alert is triggered, reminded of and        *)
(* resolved, and every Send makes its requests one at a time to a service  *)
(* that may refuse them, lose an answer or answer what cannot be decoded.  *)
(* The row of a triggered alert is written after Send has returned, and    *)
(* the write may fail.  What differs between providers is in Providers.    *)
(***************************************************************************)
EXTENDS Naturals, Sequences, FiniteSets, SequencesExt, Providers

CONSTANTS
    Types,        \* the alert types tried, of DOMAIN AlertProviders
    Recipients,   \* the recipients configured where there is one request for each
    PageSize,     \* how many issues or tasks a search lists
    Faults,       \* of "refused", "lost", "garbled", "unwritten", "restart"
    Reminders,    \* whether minimum-reminder-interval is set
    MaxSends,     \* bounds the calls of Send
    NoKey,        \* the empty resolve key
    NoRow         \* no persisted row

ASSUME BoundsAssumption ==
    /\ Types \subseteq DOMAIN AlertProviders
    /\ Recipients \in Nat \ {0}
    /\ PageSize \in Nat
    /\ MaxSends \in Nat
    /\ Reminders \in BOOLEAN
    /\ NoKey \notin Nat
    /\ NoRow \notin Nat \cup {NoKey}

VARIABLES
    config,       \* what the user configured for the provider and the alert
    provider,     \* "loading", "kept" or "nil"
    alert,        \* [triggered, resolveKey], in memory
    row,          \* the resolve key persisted with the triggered alert, or NoRow
    write,        \* of the row: "due" or "blind" (a Send returned nil), "saved" or "no"
    call,         \* the Send in progress: [resolved, todo], or Idle
    outcome,      \* what the last Send returned: "none", "sent", "resolved" or "failed"
    told,         \* the recipients that accepted the message of the last Send
    incidents,    \* the incidents open at the service: [owner, key]
    nextKey,      \* the next fresh key, of Gatus or of the service
    cut,          \* history: the search of the last Send found more than a page
    sends         \* the calls of Send

vars == <<config, provider, alert, row, write, call, outcome, told, incidents, nextKey,
          cut, sends>>

Idle == [resolved |-> FALSE, todo |-> <<>>]
Untriggered == [triggered |-> FALSE, resolveKey |-> NoKey]
OwnKey == 0    \* the key made from the endpoint's own key
Incident(owner, key) == [owner |-> owner, key |-> key]
type == AlertProviders[config.type]
Due == write \in {"due", "blind"}

(***************************************************************************)
(* The configuration: the fields each layer gives, the first of them       *)
(* malformed or not; an override of the same group a second time; an       *)
(* override of the alert that is not readable; whether the override names  *)
(* the repository of the default; whether the name of another endpoint     *)
(* contains this one's; whether the configured name of a task leaves the   *)
(* endpoint's out; whether the resolution is sent.                         *)
(***************************************************************************)
Layers == {"default", "group", "alert"}

\* every field in turn: given or not by each layer, malformed or not in one
ConfigsAround(t, f) ==
    LET p == AlertProviders[t]
    IN  [type : {t},
         given : [default : {p.required \cup {f}, p.required \ {f}},
                  group : IF p.grouped THEN {{}, {f}, p.groupNeeds \cup {f}} ELSE {{}},
                  alert : {{}, {f}}],
         bad : {{}} \cup IF f \in p.shaped THEN {{<<l, f>>} : l \in Layers} ELSE {},
         duplicated : {FALSE, p.grouped},
         unreadable : BOOLEAN,
         sameRepository : {TRUE, p.cached = {}},
         similarName : {FALSE, p.service = "tasks"},
         nameless : {FALSE, p.service = "tasks" /\ f = "name"},
         sendOnResolved : BOOLEAN]

\* the configuration without overrides, whose Sends are followed further
Plain == config.given["group"] = {} /\ config.given["alert"] = {} /\ ~config.unreadable

Configs == UNION {UNION {ConfigsAround(t, f) : f \in AlertProviders[t].fields} : t \in Types}

(***************************************************************************)
(* Config.Merge, Config.Validate and GetConfig: where the value of each    *)
(* field of the effective configuration comes from.                        *)
(***************************************************************************)
Merge(cfg, layer) ==
    [f \in DOMAIN cfg |-> IF f \in config.given[layer] THEN layer ELSE cfg[f]]

WithDefaults(cfg) ==
    [f \in DOMAIN cfg |->
        IF cfg[f] = "unset" /\ f \in type.defaulted THEN "builtin" ELSE cfg[f]]

\* what Config.Validate checks of the fields; what github and gitea ask of the
\* service there is in Load and in Plan
Valid(cfg) ==
    /\ \A f \in type.required : cfg[f] # "unset"
    /\ \A f \in type.shaped : <<cfg[f], f>> \notin config.bad
    /\ \A f, g \in type.paired : cfg[f] = "unset" <=> cfg[g] = "unset"

DefaultConfig == WithDefaults(Merge([f \in type.fields |-> "unset"], "default"))

GetConfig == WithDefaults(Merge(Merge(DefaultConfig, "group"), "alert"))

GetConfigFails == config.unreadable \/ ~Valid(GetConfig)

\* github and gitea keep the client built for the default configuration as
\* long as the owner and the name of the repository stay the same, and ask the
\* service who the user is when they build another
Rebuilt == "repository-url" \in config.given["alert"] /\ ~config.sameRepository

\* Mutant of Validates: only the overrides are validated.
ValidatesOverridesOnly ==
    config.given["group"] # {} =>
        /\ ~(type.unique /\ config.duplicated)
        /\ type.groupNeeds \subseteq config.given["group"]

\* AlertProvider.Validate
Validates ==
    /\ config.given["group"] # {} =>
          /\ ~(type.unique /\ config.duplicated)
          /\ type.groupNeeds \subseteq config.given["group"]
          /\ \A f \in type.groupShaped : <<"group", f>> \notin config.bad
    /\ Valid(DefaultConfig)

-----------------------------------------------------------------------------
Init ==
    /\ config \in Configs
    /\ config.duplicated => config.given["group"] # {}
    /\ config.unreadable => config.given["alert"] # {}
    /\ config.nameless => \E l \in Layers : "name" \in config.given[l]
    /\ config.sendOnResolved \/ Plain
    /\ provider = "loading"
    /\ alert = Untriggered
    /\ row = NoRow
    /\ write = "no"
    /\ call = Idle
    /\ outcome = "none"
    /\ told = 0
    /\ incidents = {Incident("other", OwnKey)}
    /\ nextKey = 1
    /\ cut = FALSE
    /\ sends = 0

\* ValidateAlertingConfig: a provider that does not validate is set to nil, and
\* so is one whose service does not answer who the user is
Load ==
    /\ provider = "loading"
    /\ provider' \in
          {IF Validates THEN "kept" ELSE "nil"}
          \cup IF type.cached # {} /\ Faults \cap {"refused", "lost"} # {} THEN {"nil"} ELSE {}
    /\ UNCHANGED <<config, alert, row, write, call, outcome, told, incidents, nextKey, cut, sends>>

(***************************************************************************)
(* The requests a Send makes, for the key the alert holds.                 *)
(***************************************************************************)
Request(op, key) == [op |-> op, owner |-> "own", key |-> key]

\* the question a client that is built for an override begins with
AskUser == IF type.cached # {} /\ Rebuilt THEN <<Request("user", NoKey)>> ELSE <<>>

Plan(resolved, key) ==
    LET event == Request(IF resolved THEN "close" ELSE "open", key)
    IN  CASE type.service = "message" -> <<Request("tell", NoKey)>>
          [] type.service = "recipients" ->
                [r \in 1..Recipients |-> Request("tell", NoKey)]
          [] type.service = "endpoint" -> <<[event EXCEPT !.key = OwnKey]>>
          [] type.service = "generated" -> <<event>>
          [] type.service = "returned" ->
                <<IF resolved THEN event ELSE [event EXCEPT !.key = NoKey]>>
          [] type.service = "alias" ->
                <<Request("open", OwnKey)>> \o
                IF resolved THEN <<Request("close", OwnKey)>> ELSE <<>>
          [] type.service \in {"issues", "tasks"} ->
                AskUser \o <<Request(IF resolved THEN "search" ELSE "open", NoKey)>>

\* the resolve key a Send starts with: gitlab and incidentio make one
KeyFor(key) ==
    IF type.service = "generated" /\ key = NoKey THEN nextKey ELSE key

Send(resolved) ==
    /\ sends' = sends + 1
    /\ told' = 0
    /\ cut' = FALSE
    /\ IF GetConfigFails
       THEN /\ outcome' = "failed"
            /\ alert' = [alert EXCEPT !.triggered = @ /\ ~resolved]
            /\ UNCHANGED <<call, nextKey>>
       ELSE LET key == KeyFor(alert.resolveKey)
            IN  /\ call' = [resolved |-> resolved, todo |-> Plan(resolved, key)]
                /\ outcome' = "none"
                /\ nextKey' = IF key = alert.resolveKey THEN nextKey ELSE nextKey + 1
                /\ alert' = [triggered |-> alert.triggered /\ ~resolved, resolveKey |-> key]

\* handleAlertsToTrigger, of an alert that reached its failure threshold
Trigger ==
    /\ provider = "kept"
    /\ call = Idle
    /\ ~Due
    /\ sends < IF Plain THEN MaxSends ELSE 1
    /\ alert.triggered => Reminders
    /\ Send(FALSE)
    /\ UNCHANGED <<config, provider, row, write, incidents>>

\* a deletion that fails is only logged
Deleted == IF "unwritten" \in Faults THEN {NoRow, row} ELSE {NoRow}

\* handleAlertsToResolve, of a triggered alert that reached its success threshold
Resolve ==
    /\ provider # "loading"
    /\ call = Idle
    /\ ~Due
    /\ alert.triggered
    /\ sends < MaxSends
    /\ row' \in Deleted
    /\ write' = "no"
    /\ IF config.sendOnResolved /\ provider = "kept"
       THEN Send(TRUE)
       ELSE /\ alert' = [alert EXCEPT !.triggered = FALSE]
            /\ UNCHANGED <<call, outcome, told, nextKey, cut, sends>>
    /\ UNCHANGED <<config, provider, incidents>>

\* handleAlertsToResolve, of a triggered alert below its success threshold
SaveSuccesses ==
    /\ provider # "loading"
    /\ call = Idle
    /\ ~Due
    /\ alert.triggered
    /\ row' \in {alert.resolveKey} \cup IF "unwritten" \in Faults THEN {row} ELSE {}
    /\ UNCHANGED <<config, provider, alert, write, call, outcome, told, incidents, nextKey,
                   cut, sends>>

\* Mutant of Persist: the row of a reminder is not written.
PersistFirst ==
    /\ Due
    /\ row' = IF row = NoRow THEN alert.resolveKey ELSE row
    /\ write' = IF write = "due" THEN "saved" ELSE "no"
    /\ UNCHANGED <<config, provider, alert, call, outcome, told, incidents, nextKey, cut, sends>>

\* handleAlertsToTrigger, after its Send returned nil
Persist ==
    /\ Due
    /\ \/ /\ row' = alert.resolveKey
          /\ write' = IF write = "due" THEN "saved" ELSE "no"
       \/ /\ "unwritten" \in Faults
          /\ row' = row
          /\ write' = "no"
    /\ UNCHANGED <<config, provider, alert, call, outcome, told, incidents, nextKey, cut, sends>>

(***************************************************************************)
(* The service: what a request it accepts does to it.  A search lists one  *)
(* page of what is open and finds there the issues with the endpoint's     *)
(* title, or the tasks whose name contains the endpoint's.  Which ones are *)
(* on the page when there are more is left open.                           *)
(***************************************************************************)
request == Head(call.todo)
Key == IF request.key = NoKey THEN nextKey ELSE request.key

Apply ==
    /\ told' = IF request.op = "tell" THEN told + 1 ELSE told
    /\ incidents' = CASE request.op = "open" -> incidents \cup {Incident("own", Key)}
                       [] request.op = "close" ->
                             incidents \ {Incident(request.owner, request.key)}
                       [] OTHER -> incidents
    /\ nextKey' = IF request.op = "open" /\ request.key = NoKey THEN nextKey + 1 ELSE nextKey

Pages == IF Cardinality(incidents) <= PageSize
         THEN {incidents}
         ELSE {page \in SUBSET incidents : Cardinality(page) = PageSize}

\* Mutant of Found: the first one that matches.
FoundFirst(page) == IF \E i \in page : i.owner = "own"
                    THEN {CHOOSE i \in page : i.owner = "own"} ELSE {}

Found(page) ==
    {i \in page : IF i.owner = "own" THEN ~config.nameless ELSE config.similarName}

\* Mutant of Remaining: the loop over the recipients ends after the first.
RemainingNone(page) ==
    IF request.op = "search"
    THEN LET found == SetToSeq(Found(page))
         IN  [n \in 1..Len(found) |->
                [Request("close", found[n].key) EXCEPT !.owner = found[n].owner]]
    ELSE <<>>

\* what is left to ask after the first request, a search that lists the page
Remaining(page) ==
    IF request.op = "search"
    THEN LET found == SetToSeq(Found(page))
         IN  [n \in 1..Len(found) |->
                [Request("close", found[n].key) EXCEPT !.owner = found[n].owner]]
    ELSE Tail(call.todo)

(***************************************************************************)
(* What Send makes of an answer.                                           *)
(***************************************************************************)
Fail(key) ==
    /\ call' = Idle
    /\ outcome' = "failed"
    /\ alert' = [alert EXCEPT !.resolveKey = key]
    /\ write' = IF key = alert.resolveKey THEN write ELSE "no"

\* the key the alert holds afterwards, which pagerduty reads from the answer
KeyAfter(readable) ==
    CASE type.service \in {"returned", "alias"} /\ config.sendOnResolved ->
            IF call.resolved THEN NoKey ELSE IF readable THEN Key ELSE alert.resolveKey
      [] OTHER -> alert.resolveKey

\* Send returns nil; the watchdog marks a triggered alert, whose row is due
Succeed(readable) ==
    /\ call' = Idle
    /\ IF call.resolved
       THEN /\ outcome' = "resolved"
            /\ alert' = [alert EXCEPT !.resolveKey = KeyAfter(readable)]
            /\ UNCHANGED write
       ELSE /\ outcome' = "sent"
            /\ alert' = [triggered |-> TRUE, resolveKey |-> KeyAfter(readable)]
            /\ write' = IF readable THEN "due" ELSE "blind"

Accepted ==
    /\ call # Idle
    /\ Apply
    /\ \E page \in Pages :
          IF Remaining(page) # <<>>
          THEN /\ call' = [call EXCEPT !.todo = Remaining(page)]
               /\ UNCHANGED <<alert, write, outcome>>
          ELSE IF request.op = "search" /\ type.service = "tasks"
               THEN Fail(alert.resolveKey)
               ELSE Succeed(TRUE)
    /\ cut' = IF request.op = "search" THEN Cardinality(incidents) > PageSize ELSE cut
    /\ UNCHANGED <<config, provider, row, sends>>

\* the service accepts the request, and its answer is read but not decoded
Garbled ==
    /\ "garbled" \in Faults
    /\ call # Idle
    /\ type.decode # "none"
    /\ type.service = "tasks" => request.op = "search"
    /\ Apply
    /\ CASE type.decode = "ignored" -> Succeed(FALSE)
         [] type.service = "generated" -> Fail(NoKey)
         [] OTHER -> Fail(alert.resolveKey)
    /\ UNCHANGED <<config, provider, row, cut, sends>>

Refused ==
    /\ "refused" \in Faults
    /\ call # Idle
    /\ Fail(alert.resolveKey)
    /\ UNCHANGED <<config, provider, row, told, incidents, nextKey, cut, sends>>

\* the request times out after the service did what it asks
AnswerLost ==
    /\ "lost" \in Faults
    /\ call # Idle
    /\ Apply
    /\ Fail(alert.resolveKey)
    /\ UNCHANGED <<config, provider, row, cut, sends>>

\* what is left is the persisted row, from which the alert is restored once the
\* configuration is loaded again
Restart ==
    /\ "restart" \in Faults
    /\ provider # "loading"
    /\ provider' = "loading"
    /\ call' = Idle
    /\ outcome' = "none"
    /\ alert' = IF row = NoRow THEN Untriggered ELSE [triggered |-> TRUE, resolveKey |-> row]
    /\ write' = IF Due THEN "no" ELSE write
    /\ UNCHANGED <<config, row, told, incidents, nextKey, cut, sends>>

Next ==
    \/ Load
    \/ Trigger
    \/ Resolve
    \/ SaveSuccesses
    \/ Persist
    \/ Accepted
    \/ Garbled
    \/ Refused
    \/ AnswerLost
    \/ Restart

Spec == Init /\ [][Next]_vars
=============================================================================
