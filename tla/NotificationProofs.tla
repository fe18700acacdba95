------------------------- MODULE NotificationProofs -------------------------
(***************************************************************************)
(* Proofs about the delivery of an alert.                                  *)
(*                                                                         *)
(* What the rows of Providers have in common is WellFormed, proved of each *)
(* row: the theorems hold for every provider and every choice of Types,    *)
(* and ask of a row only what the property is about.  The shape of the     *)
(* state, Basic, says of a Send in progress that it has something left to  *)
(* ask and that a resolution has untriggered the alert before its first    *)
(* request.  On it rest four invariants of their own: the key in memory is *)
(* the key of an open incident from the answer to the write of the row and *)
(* until the resolution (KeyInv); the recipients told and to tell are      *)
(* everyone (SentInv); a service asked by the endpoint's key has one       *)
(* incident of it, whose closing is the last request (KeyedInv); a search  *)
(* that lists everything leaves a request for every incident it found      *)
(* (SearchedInv).  None of them holds only between two Sends: they follow  *)
(* a Send request by request, through what fails in the middle of it.      *)
(***************************************************************************)
EXTENDS NotificationProperties, FiniteSetTheorems, SequenceTheorems, TLAPS

(* The rows of the providers. *)

Services == {"message", "recipients", "endpoint", "alias", "returned", "generated", "issues", "tasks"}

\* What every row has: conditions on its own fields, a known service, and an
\* answer that need not be decoded only where the service returns the key.
WellFormed(p) ==
    /\ p.required \subseteq p.fields /\ p.shaped \subseteq p.fields /\ p.paired \subseteq p.fields
    /\ p.service \in Services
    /\ p.decode = "ignored" => p.service = "returned"

\* The rows that differ from a plain one in what their overrides must give or in
\* what is filled in, or not at all.
LEMMA PlainRows ==
    \A p \in {Slack, Discord, GoogleChat, Mattermost, RocketChat, Teams, TeamsWorkflows,
              Webex, Matrix, Zulip, Telegram, Gotify, SendGrid, Messagebird, Twilio, Custom,
              Datadog, HomeAssistant, IFTTT, N8N, NewRelic, Splunk, Zapier, Ilert} : WellFormed(p)
<1> USE DEF WellFormed, Services, Provider
<1>1. WellFormed(Slack) /\ WellFormed(Discord)
  BY DEF Slack, Discord
<1>2. WellFormed(GoogleChat) /\ WellFormed(Mattermost)
  BY DEF GoogleChat, Mattermost
<1>3. WellFormed(RocketChat) /\ WellFormed(Teams)
  BY DEF RocketChat, Teams
<1>4. WellFormed(TeamsWorkflows) /\ WellFormed(Webex)
  BY DEF TeamsWorkflows, Webex
<1>5. WellFormed(Matrix) /\ WellFormed(Zulip)
  BY DEF Matrix, Zulip
<1>6. WellFormed(Telegram) /\ WellFormed(Gotify)
  BY DEF Telegram, Gotify
<1>7. WellFormed(SendGrid) /\ WellFormed(Messagebird)
  BY DEF SendGrid, Messagebird
<1>8. WellFormed(Twilio) /\ WellFormed(Custom)
  BY DEF Twilio, Custom
<1>9. WellFormed(Datadog) /\ WellFormed(HomeAssistant)
  BY DEF Datadog, HomeAssistant
<1>10. WellFormed(IFTTT) /\ WellFormed(N8N)
  BY DEF IFTTT, N8N
<1>11. WellFormed(NewRelic) /\ WellFormed(Splunk)
  BY DEF NewRelic, Splunk
<1>12. WellFormed(Zapier) /\ WellFormed(Ilert)
  BY DEF Zapier, Ilert
<1> HIDE DEF WellFormed
<1> QED
  BY <1>1, <1>2, <1>3, <1>4, <1>5, <1>6, <1>7, <1>8, <1>9, <1>10, <1>11, <1>12

\* The others.
LEMMA OtherRows ==
    \A p \in {Ntfy, Pushover, AWSSES, Email, Line, Plivo, Signal, Vonage, Squadcast, SIGNL4,
              Opsgenie, PagerDuty, IncidentIO, GitLab, GitHub, Gitea, ClickUp} : WellFormed(p)
<1> USE DEF WellFormed, Services, Provider
<1>1. WellFormed(Ntfy) /\ WellFormed(Pushover)
  BY DEF Ntfy, Pushover
<1>2. WellFormed(AWSSES) /\ WellFormed(Email)
  BY DEF AWSSES, Email
<1>3. WellFormed(Line) /\ WellFormed(Plivo)
  BY DEF Line, Plivo
<1>4. WellFormed(Signal) /\ WellFormed(Vonage)
  BY DEF Signal, Vonage
<1>5. WellFormed(Squadcast) /\ WellFormed(SIGNL4)
  BY DEF Squadcast, SIGNL4
<1>6. WellFormed(Opsgenie) /\ WellFormed(PagerDuty)
  BY DEF Opsgenie, PagerDuty
<1>7. WellFormed(IncidentIO) /\ WellFormed(GitLab)
  BY DEF IncidentIO, GitLab
<1>8. WellFormed(GitHub) /\ WellFormed(Gitea)
  BY DEF GitHub, Gitea
<1>9. WellFormed(ClickUp)
  BY DEF ClickUp
<1> HIDE DEF WellFormed
<1> QED
  BY <1>1, <1>2, <1>3, <1>4, <1>5, <1>6, <1>7, <1>8, <1>9

\* Every row.
LEMMA Rows ==
    ASSUME NEW t \in DOMAIN AlertProviders
    PROVE  WellFormed(AlertProviders[t])
<1>1. AlertProviders[t] \in
        {Slack, Discord, GoogleChat, Mattermost, RocketChat, Teams, TeamsWorkflows, Webex,
         Matrix, Zulip, Telegram, Gotify, SendGrid, Messagebird, Twilio, Custom, Datadog,
         HomeAssistant, IFTTT, N8N, NewRelic, Splunk, Zapier, Ilert}
        \cup {Ntfy, Pushover, AWSSES, Email, Line, Plivo, Signal, Vonage, Squadcast, SIGNL4,
              Opsgenie, PagerDuty, IncidentIO, GitLab, GitHub, Gitea, ClickUp}
  BY DEF AlertProviders
<1> QED
  BY <1>1, PlainRows, OtherRows
-----------------------------------------------------------------------------
(* The shape of the state. *)

Keys == Nat \cup {NoKey}
Owners == {"own", "other"}
Requests == [op : {"tell", "open", "close", "search", "user"}, owner : Owners, key : Keys]
Incidents == [owner : Owners, key : Keys]

TypeOK ==
    /\ config \in Configs
    /\ provider = "kept" => Validates
    /\ alert \in [triggered : BOOLEAN, resolveKey : Keys]
    /\ row \in Keys \cup {NoRow}
    /\ write \in {"no", "due", "blind", "saved"}
    /\ cut \in BOOLEAN
    /\ call \in [resolved : BOOLEAN, todo : Seq(Requests)]
    /\ told \in Nat
    /\ incidents \subseteq Incidents /\ IsFiniteSet(incidents)
    /\ nextKey \in Nat

\* A Send in progress has something to ask, has not returned, and if it resolves
\* the alert is not triggered any more and its row not kept.
InCall ==
    call # Idle =>
        /\ call.todo # <<>> /\ outcome = "none" /\ ~Due
        /\ call.resolved => ~alert.triggered /\ write = "no"

Basic == TypeOK /\ InCall

\* The configurations are made of the fields of a row.
LEMMA ConfigIs ==
    ASSUME config \in Configs
    PROVE  /\ config.type \in DOMAIN AlertProviders
           /\ WellFormed(type)
           /\ config.given["alert"] \subseteq type.fields
<1>0. PICK t \in Types : \E f \in AlertProviders[t].fields : config \in ConfigsAround(t, f)
  BY DEF Configs
<1>1. PICK f \in AlertProviders[t].fields : config \in ConfigsAround(t, f)
  BY <1>0
<1>2. t \in DOMAIN AlertProviders
  BY BoundsAssumption DEF BoundsAssumption
<1>3. config.type = t /\ config.given["alert"] \in {{}, {f}}
  BY <1>1 DEF ConfigsAround
<1>4. WellFormed(AlertProviders[t])
  BY <1>2, Rows
<1> QED
  BY <1>1, <1>2, <1>3, <1>4 DEF type

\* One request and another behind it.
LEMMA PairIs ==
    ASSUME NEW o \in Requests, NEW c \in Requests
    PROVE  <<o>> \o <<c>> = <<o, c>>
<1>1. <<o>> \in Seq(Requests) /\ Len(<<o>>) = 1 /\ <<o>>[1] = o
  OBVIOUS
<1>2. Append(<<o>>, c) = <<o>> \o <<c>>
  BY <1>1, AppendIsConcat
<1>3. PICK a : a = Append(<<o>>, c)
  OBVIOUS
<1>4. a \in Seq(Requests) /\ Len(a) = 2 /\ a[1] = o /\ a[2] = c
  BY <1>1, <1>3, AppendProperties
<1>5. PICK b : b = <<o, c>>
  OBVIOUS
<1>6. b \in Seq(Requests) /\ Len(b) = 2 /\ b[1] = o /\ b[2] = c
  BY <1>5
<1>7. \A i \in 1 .. Len(a) : a[i] = b[i]
  BY <1>4, <1>6
<1>8. a = b
  BY <1>4, <1>6, <1>7, SeqEqual
<1> QED
  BY <1>2, <1>3, <1>5, <1>8

\* The requests that a Send plans.
LEMMA PlanIs ==
    ASSUME config \in Configs, NEW resolved \in BOOLEAN, NEW key \in Keys
    PROVE  /\ Plan(resolved, key) \in Seq(Requests) /\ Plan(resolved, key) # <<>>
           /\ type.service = "message" => Plan(resolved, key) = <<Request("tell", NoKey)>>
           /\ type.service = "recipients" =>
                 Plan(resolved, key) = [r \in 1 .. Recipients |-> Request("tell", NoKey)]
           /\ type.service = "endpoint" =>
                 Plan(resolved, key) = <<Request(IF resolved THEN "close" ELSE "open", OwnKey)>>
           /\ type.service = "alias" =>
                 Plan(resolved, key) =
                    IF resolved THEN <<Request("open", OwnKey), Request("close", OwnKey)>>
                    ELSE <<Request("open", OwnKey)>>
           /\ type.service \in {"issues", "tasks"} =>
                 \E q : /\ q = Request(IF resolved THEN "search" ELSE "open", NoKey)
                       /\ Plan(resolved, key) \in {<<q>>, <<Request("user", NoKey), q>>}
           /\ type.service = "generated" =>
                 Plan(resolved, key) = <<Request(IF resolved THEN "close" ELSE "open", key)>>
           /\ type.service = "returned" /\ ~resolved =>
                 Plan(resolved, key) = <<Request("open", NoKey)>>
<1>1. type.service \in Services
  BY ConfigIs DEF WellFormed
<1>2. \A op \in {"tell", "open", "close", "search", "user"}, k \in Keys : Request(op, k) \in Requests
  BY DEF Request, Requests, Owners
<1>3. OwnKey \in Keys /\ NoKey \in Keys
  BY DEF OwnKey, Keys
<1>4. PICK op \in {"open", "close"} : op = IF resolved THEN "close" ELSE "open"
  OBVIOUS
<1>5. PICK event : event = Request(op, key)
  OBVIOUS
<1>6. event \in Requests
  BY <1>2, <1>5
<1>7. ASSUME NEW q \in Requests PROVE <<q>> \in Seq(Requests) /\ <<q>> # <<>>
  OBVIOUS
<1>8. CASE type.service = "message"
  <2>1. Plan(resolved, key) = <<Request("tell", NoKey)>>
    BY <1>8 DEF Plan
  <2> QED
    BY <1>2, <1>3, <1>7, <1>8, <2>1
<1>9. CASE type.service = "recipients"
  <2>1. PICK p : p = [r \in 1 .. Recipients |-> Request("tell", NoKey)]
    OBVIOUS
  <2>2. Plan(resolved, key) = p
    BY <1>9, <2>1 DEF Plan
  <2>3. Recipients \in Nat \ {0}
    BY BoundsAssumption DEF BoundsAssumption
  <2>4. Request("tell", NoKey) \in Requests
    BY <1>2, <1>3
  <2>5. p \in [1 .. Recipients -> Requests]
    BY <2>1, <2>4
  <2>6. p \in Seq(Requests) /\ p # <<>>
    <3>1. p \in Seq(Requests) /\ Len(p) = Recipients
      BY <2>3, <2>5
    <3> QED
      BY <2>3, <3>1
  <2> QED
    BY <1>9, <2>1, <2>2, <2>6
<1>10. CASE type.service = "endpoint"
  <2>1. Plan(resolved, key) = <<[event EXCEPT !.key = OwnKey]>>
    BY <1>4, <1>5, <1>10 DEF Plan
  <2>2. [event EXCEPT !.key = OwnKey] = Request(op, OwnKey)
    BY <1>5 DEF Request
  <2> QED
    BY <1>2, <1>3, <1>4, <1>7, <1>10, <2>1, <2>2
<1>11. CASE type.service = "generated"
  <2>1. Plan(resolved, key) = <<event>>
    BY <1>4, <1>5, <1>11 DEF Plan
  <2> QED
    BY <1>4, <1>5, <1>6, <1>7, <1>11, <2>1
<1>12. CASE type.service = "returned"
  <2>1. PICK q : q = IF resolved THEN event ELSE [event EXCEPT !.key = NoKey]
    OBVIOUS
  <2>2. Plan(resolved, key) = <<q>>
    BY <1>4, <1>5, <1>12, <2>1 DEF Plan
  <2>3. [event EXCEPT !.key = NoKey] = Request(op, NoKey)
    BY <1>5 DEF Request
  <2>4. q \in Requests
    BY <1>2, <1>3, <1>6, <2>1, <2>3
  <2>5. ~resolved => q = Request("open", NoKey)
    BY <1>4, <2>1, <2>3
  <2> QED
    BY <1>7, <1>12, <2>2, <2>4, <2>5
<1>13. CASE type.service = "alias"
  <2>1. PICK o \in Requests : o = Request("open", OwnKey)
    BY <1>2, <1>3
  <2>2. PICK c \in Requests : c = Request("close", OwnKey)
    BY <1>2, <1>3
  <2>3. Plan(resolved, key) = <<o>> \o IF resolved THEN <<c>> ELSE <<>>
    BY <1>13, <2>1, <2>2 DEF Plan
  <2>4. <<o>> \in Seq(Requests) /\ <<c>> \in Seq(Requests)
    OBVIOUS
  <2>5. <<o>> \o <<c>> = <<o, c>> /\ <<o>> \o <<>> = <<o>>
    <3>1. <<o>> \o <<>> = <<o>>
      BY <2>4, ConcatEmptySeq
    <3>2. <<o>> \o <<c>> = <<o, c>>
      BY PairIs
    <3> QED
      BY <3>1, <3>2
  <2>6. <<o, c>> \in Seq(Requests) /\ <<o, c>> # <<>> /\ <<o>> # <<>>
    OBVIOUS
  <2>7. Plan(resolved, key) = IF resolved THEN <<o, c>> ELSE <<o>>
    BY <2>3, <2>5
  <2> QED
    BY <1>13, <2>1, <2>2, <2>4, <2>6, <2>7
<1>14. CASE type.service \in {"issues", "tasks"}
  <2>1. PICK s \in {"open", "search"} : s = IF resolved THEN "search" ELSE "open"
    OBVIOUS
  <2>2. PICK q \in Requests : q = Request(s, NoKey)
    BY <1>2, <1>3
  <2>3. PICK u \in Requests : u = Request("user", NoKey)
    BY <1>2, <1>3
  <2>4. Plan(resolved, key) = AskUser \o <<q>>
    BY <1>14, <2>1, <2>2 DEF Plan
  <2>5. AskUser \in {<<>>, <<u>>}
    BY <2>3 DEF AskUser
  <2>6. <<u>> \o <<q>> = <<u, q>>
    BY PairIs
  <2>7. <<>> \o <<q>> = <<q>>
    <3>1. <<q>> \in Seq(Requests)
      OBVIOUS
    <3> QED
      BY <3>1, ConcatEmptySeq
  <2>8. Plan(resolved, key) \in {<<q>>, <<u, q>>}
    BY <2>4, <2>5, <2>6, <2>7
  <2>9. <<q>> \in Seq(Requests) /\ <<u, q>> \in Seq(Requests) /\ <<q>> # <<>> /\ <<u, q>> # <<>>
    OBVIOUS
  <2> QED
    BY <1>14, <2>1, <2>2, <2>3, <2>8, <2>9
<1> QED
  BY <1>1, <1>8, <1>9, <1>10, <1>11, <1>12, <1>13, <1>14 DEF Services

\* A finite set as a sequence has all its members.
LEMMA SetToSeqIs ==
    ASSUME NEW S, IsFiniteSet(S)
    PROVE  /\ SetToSeq(S) \in Seq(S)
           /\ \A x \in S : \E n \in 1 .. Len(SetToSeq(S)) : SetToSeq(S)[n] = x
<1>1. PICK c \in Nat : c = Cardinality(S)
  BY FS_CardinalityType
<1>2. PICK g : g \in Bijection(1 .. c, S)
  BY <1>1, FS_CardinalityType DEF ExistsBijection
<1>3. g \in [1 .. c -> S] /\ IsInjective(g)
  BY <1>2 DEF Bijection, Injection, IsInjective
<1>4. PICK f : f = SetToSeq(S)
  OBVIOUS
<1>5. f \in [1 .. c -> S] /\ IsInjective(f)
  BY <1>1, <1>3, <1>4 DEF SetToSeq
<1>6. f \in Injection(1 .. c, S)
  BY <1>5 DEF Injection, IsInjective
<1>7. Cardinality(1 .. c) = c /\ IsFiniteSet(1 .. c)
  BY FS_Interval
<1>8. f \in Surjection(1 .. c, S)
  BY <1>1, <1>6, <1>7, FS_Injection
<1>9. \A x \in S : \E n \in 1 .. c : f[n] = x
  BY <1>8 DEF Surjection
<1>10. f \in Seq(S) /\ Len(f) = c
  BY <1>5
<1> QED
  BY <1>4, <1>9, <1>10

\* What is left to ask after the first request.
LEMMA RemainingIs ==
    ASSUME TypeOK, call.todo # <<>>, NEW page \in Pages
    PROVE  /\ request \in Requests /\ Key \in Keys
           /\ Remaining(page) \in Seq(Requests)
           /\ request.op # "search" => Remaining(page) = Tail(call.todo)
           /\ request.op = "search" =>
                 /\ \A n \in 1 .. Len(Remaining(page)) : Remaining(page)[n].op = "close"
                 /\ \A i \in Found(page) : \E n \in 1 .. Len(Remaining(page)) :
                       Remaining(page)[n].owner = i.owner /\ Remaining(page)[n].key = i.key
<1>1. call.todo \in Seq(Requests)
  BY DEF TypeOK
<1>2. request \in Requests /\ Tail(call.todo) \in Seq(Requests)
  BY <1>1, HeadTailProperties DEF request
<1>5. Key \in Keys
  BY <1>2 DEF Key, TypeOK, Requests, Keys
<1>3. CASE request.op # "search"
  BY <1>2, <1>3, <1>5 DEF Remaining
<1>4. CASE request.op = "search"
  <2>1. Found(page) \subseteq Incidents /\ IsFiniteSet(Found(page))
    <3>1. Found(page) \subseteq incidents
      BY DEF Found, Pages
    <3> QED
      BY <3>1, FS_Subset DEF TypeOK
  <2>2. PICK found : found = SetToSeq(Found(page))
    OBVIOUS
  <2>3. PICK l \in Nat : l = Len(found)
    BY <2>1, <2>2, SetToSeqIs, LenProperties
  <2>4. found \in Seq(Found(page)) /\ \A i \in Found(page) : \E n \in 1 .. l : found[n] = i
    BY <2>1, <2>2, <2>3, SetToSeqIs
  <2>5. PICK todo : todo = [n \in 1 .. l |->
                              [Request("close", found[n].key) EXCEPT !.owner = found[n].owner]]
    OBVIOUS
  <2>6. Remaining(page) = todo
    BY <1>4, <2>2, <2>3, <2>5 DEF Remaining
  <2>7. ASSUME NEW n \in 1 .. l
        PROVE  /\ todo[n] \in Requests /\ todo[n].op = "close"
               /\ todo[n].owner = found[n].owner /\ todo[n].key = found[n].key
    <3>1. found[n] \in Incidents
      BY <2>1, <2>3, <2>4
    <3>2. PICK i \in Incidents : i = found[n]
      BY <3>1
    <3>3. todo[n] = [op |-> "close", owner |-> i.owner, key |-> i.key]
      BY <2>5, <3>2 DEF Request
    <3> QED
      BY <3>2, <3>3 DEF Incidents, Requests
  <2>8. todo \in [1 .. l -> Requests]
    BY <2>5, <2>7
  <2>9. todo \in Seq(Requests) /\ Len(todo) = l
    BY <2>8
  <2>10. \A n \in 1 .. Len(todo) : todo[n].op = "close"
    BY <2>7, <2>9
  <2>11. ASSUME NEW i \in Found(page)
         PROVE  \E n \in 1 .. Len(todo) : todo[n].owner = i.owner /\ todo[n].key = i.key
    <3>1. PICK n \in 1 .. l : found[n] = i
      BY <2>4
    <3> QED
      BY <2>7, <2>9, <3>1
  <2> QED
    BY <1>2, <1>4, <1>5, <2>6, <2>9, <2>10, <2>11
<1> QED
  BY <1>3, <1>4

\* What the service does with a request it accepts.
LEMMA ApplyIs ==
    ASSUME TypeOK, call.todo # <<>>, Apply
    PROVE  /\ told' \in Nat /\ nextKey' \in Nat
           /\ incidents' \subseteq Incidents /\ IsFiniteSet(incidents')
           /\ Key \in Keys
<1>1. request \in Requests
  <2>1. call.todo \in Seq(Requests)
    BY DEF TypeOK
  <2> QED
    BY <2>1, HeadTailProperties DEF request
<1>2. Key \in Keys
  BY <1>1 DEF Key, TypeOK, Requests, Keys
<1>3. told' \in Nat /\ nextKey' \in Nat
  BY DEF Apply, TypeOK
<1>4. PICK i : i = Incident("own", Key)
  OBVIOUS
<1>5. i \in Incidents
  BY <1>2, <1>4 DEF Incident, Incidents, Owners
<1>6. incidents' = incidents \cup {i} \/ incidents' \subseteq incidents
  BY <1>4 DEF Apply
<1>7. IsFiniteSet(incidents \cup {i})
  BY FS_AddElement DEF TypeOK
<1>8. incidents' \subseteq Incidents /\ IsFiniteSet(incidents')
  BY <1>5, <1>6, <1>7, FS_Subset DEF TypeOK
<1> QED
  BY <1>2, <1>3, <1>8

\* The key after an answer.
LEMMA KeyAfterIs ==
    ASSUME TypeOK, Key \in Keys, NEW readable \in BOOLEAN
    PROVE  KeyAfter(readable) \in Keys
BY DEF KeyAfter, TypeOK, Keys

\* What an accepted request leaves to do.
AcceptedWith(page) ==
    IF Remaining(page) # <<>>
    THEN call' = [call EXCEPT !.todo = Remaining(page)] /\ UNCHANGED <<alert, write, outcome>>
    ELSE \/ request.op = "search" /\ type.service = "tasks" /\ Fail(alert.resolveKey)
         \/ ~(request.op = "search" /\ type.service = "tasks") /\ Succeed(TRUE)

LEMMA AcceptedIs == Accepted => \E page \in Pages : AcceptedWith(page)
BY DEF Accepted, AcceptedWith

\* What a call of Send begins with.
LEMMA SendIs ==
    ASSUME Basic, NEW resolved \in BOOLEAN, Send(resolved), call = Idle
    PROVE  /\ alert' \in [triggered : BOOLEAN, resolveKey : Keys]
           /\ alert'.triggered = (alert.triggered /\ ~resolved)
           /\ nextKey' \in Nat /\ told' = 0 /\ cut' = FALSE
           /\ \/ call' = Idle /\ outcome' = "failed" /\ alert'.resolveKey = alert.resolveKey
              \/ /\ outcome' = "none"
                 /\ alert'.resolveKey = KeyFor(alert.resolveKey) /\ alert'.resolveKey \in Keys
                 /\ call' = [resolved |-> resolved, todo |-> Plan(resolved, alert'.resolveKey)]
<1>1. TypeOK
  BY DEF Basic
<1>2. (alert.triggered /\ ~resolved) \in BOOLEAN
  OBVIOUS
<1>3. CASE GetConfigFails
  <2>1. /\ alert' = [alert EXCEPT !.triggered = @ /\ ~resolved]
        /\ nextKey' = nextKey /\ told' = 0 /\ cut' = FALSE /\ call' = call /\ outcome' = "failed"
    BY <1>3 DEF Send
  <2>2. PICK b \in BOOLEAN : b = (alert.triggered /\ ~resolved)
    BY <1>2
  <2>3. alert' = [alert EXCEPT !.triggered = b]
    BY <2>1, <2>2
  <2>4. /\ alert' \in [triggered : BOOLEAN, resolveKey : Keys] /\ alert'.triggered = b
        /\ alert'.resolveKey = alert.resolveKey
    BY <1>1, <2>3 DEF TypeOK
  <2> QED
    BY <1>1, <2>1, <2>2, <2>4 DEF TypeOK
<1>4. CASE ~GetConfigFails
  <2>1. PICK key : key = KeyFor(alert.resolveKey)
    OBVIOUS
  <2>2. key \in Keys
    BY <1>1, <2>1 DEF KeyFor, TypeOK, Keys
  <2>3. /\ call' = [resolved |-> resolved, todo |-> Plan(resolved, key)] /\ outcome' = "none"
        /\ nextKey' = (IF key = alert.resolveKey THEN nextKey ELSE nextKey + 1)
        /\ told' = 0 /\ cut' = FALSE
        /\ alert' = [triggered |-> alert.triggered /\ ~resolved, resolveKey |-> key]
    BY <1>4, <2>1 DEF Send
  <2>4. nextKey' \in Nat
    BY <1>1, <2>3 DEF TypeOK
  <2> QED
    BY <1>2, <2>1, <2>2, <2>3, <2>4
<1> QED
  BY <1>3, <1>4

\* A call that is begun has something to ask.
LEMMA SendKeeps ==
    ASSUME Basic, NEW resolved \in BOOLEAN, Send(resolved), call = Idle, ~Due,
           row' \in {row, NoRow}, write' \in {write, "no"}, resolved => write' = "no",
           UNCHANGED <<config, provider, incidents>>
    PROVE  Basic'
<1>1. TypeOK /\ InCall
  BY DEF Basic
<1>2. /\ alert' \in [triggered : BOOLEAN, resolveKey : Keys]
      /\ alert'.triggered = (alert.triggered /\ ~resolved)
      /\ nextKey' \in Nat /\ told' = 0 /\ cut' = FALSE
      /\ \/ call' = Idle /\ outcome' = "failed"
         \/ /\ outcome' = "none"
            /\ \E key \in Keys : call' = [resolved |-> resolved, todo |-> Plan(resolved, key)]
  BY SendIs
<1>3. write' \in {"no", "due", "blind", "saved"} /\ ~(Due') /\ (resolved => write' = "no")
  BY <1>1 DEF Due, TypeOK
<1>4. call' \in [resolved : BOOLEAN, todo : Seq(Requests)] /\ InCall'
  <2>1. CASE call' = Idle
    BY <1>1, <2>1 DEF TypeOK, InCall
  <2>2. CASE outcome' = "none" /\ \E key \in Keys :
                call' = [resolved |-> resolved, todo |-> Plan(resolved, key)]
    <3>1. PICK key \in Keys : call' = [resolved |-> resolved, todo |-> Plan(resolved, key)]
      BY <2>2
    <3>2. Plan(resolved, key) \in Seq(Requests) /\ Plan(resolved, key) # <<>>
      BY <1>1, PlanIs DEF TypeOK
    <3> QED
      BY <1>2, <1>3, <2>2, <3>1, <3>2 DEF InCall
  <2> QED
    BY <1>2, <2>1, <2>2
<1>5. Validates' = Validates
  BY DEF Validates, Valid, DefaultConfig, WithDefaults, Merge, type
<1>6. TypeOK'
  BY <1>1, <1>2, <1>3, <1>4, <1>5 DEF TypeOK
<1> QED
  BY <1>4, <1>6 DEF Basic

\* The end of a Send.
LEMMA EndKeeps ==
    ASSUME Basic, UNCHANGED <<config, provider, row>>, call' = Idle, Key \in Keys,
           told' \in Nat, nextKey' \in Nat, incidents' \subseteq Incidents, IsFiniteSet(incidents'),
           cut' \in BOOLEAN,
           \/ \E key \in Keys : Fail(key)
           \/ \E readable \in BOOLEAN : Succeed(readable)
    PROVE  Basic'
<1>1. TypeOK
  BY DEF Basic
<1>2. Idle \in [resolved : BOOLEAN, todo : Seq(Requests)]
  BY DEF Idle
<1>3. Validates' = Validates
  BY DEF Validates, Valid, DefaultConfig, WithDefaults, Merge, type
<1>4. PICK key \in Keys : \/ alert' = [alert EXCEPT !.resolveKey = key]
                        \/ alert' = [triggered |-> TRUE, resolveKey |-> key]
  BY <1>1, KeyAfterIs DEF Fail, Succeed
<1>5. alert' \in [triggered : BOOLEAN, resolveKey : Keys]
  <2>1. CASE alert' = [alert EXCEPT !.resolveKey = key]
    BY <1>1, <2>1 DEF TypeOK
  <2>2. CASE alert' = [triggered |-> TRUE, resolveKey |-> key]
    BY <2>2
  <2> QED
    BY <1>4, <2>1, <2>2
<1>6. write' \in {"no", "due", "blind", "saved"}
  BY <1>1 DEF Fail, Succeed, TypeOK
<1>7. TypeOK'
  BY <1>1, <1>2, <1>3, <1>5, <1>6 DEF TypeOK
<1> QED
  BY <1>7 DEF Basic, InCall

\* The shape of the state at the start.
LEMMA InitBasic == Init => Basic
<1> SUFFICES ASSUME Init PROVE Basic
  OBVIOUS
<1>1. call \in [resolved : BOOLEAN, todo : Seq(Requests)] /\ call = Idle
  BY DEF Init, Idle
<1>2. incidents \subseteq Incidents
  BY DEF Init, Incidents, Incident, Owners, OwnKey, Keys
<1>3. IsFiniteSet(incidents)
  BY FS_Singleton DEF Init
<1>4. /\ alert \in [triggered : BOOLEAN, resolveKey : Keys] /\ row \in Keys \cup {NoRow}
      /\ write \in {"no", "due", "blind", "saved"} /\ cut \in BOOLEAN
  BY DEF Init, Untriggered, Keys
<1>5. TypeOK
  BY <1>1, <1>2, <1>3, <1>4 DEF Init, TypeOK
<1> QED
  BY <1>1, <1>5 DEF Basic, InCall

\* Every step keeps it.
LEMMA NextBasic == Basic /\ [Next]_vars => Basic'
<1> SUFFICES ASSUME Basic, [Next]_vars PROVE Basic'
  OBVIOUS
<1>1. TypeOK /\ InCall
  BY DEF Basic
<1>2. config' = config => Validates' = Validates
  BY DEF Validates, Valid, DefaultConfig, WithDefaults, Merge, type
<1>3. CASE UNCHANGED vars
  BY <1>1, <1>2, <1>3 DEF vars, Basic, TypeOK, InCall, Due
<1>4. CASE Load
  BY <1>1, <1>2, <1>4 DEF Load, Basic, TypeOK, InCall, Due
<1>5. CASE Trigger
  BY <1>5, SendKeeps DEF Trigger
<1>6. CASE Resolve
  <2>1. row' \in {row, NoRow} /\ write' = "no" /\ call = Idle /\ ~Due
    BY <1>6 DEF Resolve, Deleted
  <2>2. CASE config.sendOnResolved /\ provider = "kept"
    BY <1>6, <2>1, <2>2, SendKeeps DEF Resolve
  <2>3. CASE ~(config.sendOnResolved /\ provider = "kept")
    <3>1. /\ alert' = [alert EXCEPT !.triggered = FALSE]
          /\ UNCHANGED <<config, provider, call, outcome, told, nextKey, cut, incidents>>
      BY <1>6, <2>3 DEF Resolve
    <3>2. alert' \in [triggered : BOOLEAN, resolveKey : Keys] /\ alert'.triggered = FALSE
      BY <1>1, <3>1 DEF TypeOK
    <3> QED
      BY <1>1, <1>2, <2>1, <3>1, <3>2 DEF Basic, TypeOK, InCall
  <2> QED
    BY <2>2, <2>3
<1>7. CASE SaveSuccesses
  <2>1. row' \in Keys \cup {NoRow} /\ call = Idle /\ call' = call
    BY <1>1, <1>7 DEF SaveSuccesses, TypeOK
  <2> QED
    BY <1>1, <1>2, <1>7, <2>1 DEF SaveSuccesses, Basic, TypeOK, InCall
<1>8. CASE Persist
  <2>1. row' \in Keys \cup {NoRow} /\ write' \in {"no", "saved"}
    BY <1>1, <1>8 DEF Persist, TypeOK
  <2>2. call = Idle /\ call' = Idle /\ Idle' = Idle
    BY <1>1, <1>8 DEF Persist, InCall, Idle
  <2> QED
    BY <1>1, <1>2, <1>8, <2>1, <2>2 DEF Persist, Basic, TypeOK, InCall
<1>9. CASE Accepted
  <2>1. /\ call.todo # <<>> /\ outcome = "none" /\ ~Due
        /\ call.resolved => ~alert.triggered /\ write = "no"
    BY <1>1, <1>9 DEF Accepted, InCall
  <2>2. /\ told' \in Nat /\ nextKey' \in Nat
        /\ incidents' \subseteq Incidents /\ IsFiniteSet(incidents')
        /\ Key \in Keys
    BY <1>1, <1>9, <2>1, ApplyIs DEF Accepted
  <2>3. UNCHANGED <<config, provider, row>> /\ cut' \in BOOLEAN
    <3>1. UNCHANGED <<config, provider, row>>
      BY <1>9 DEF Accepted
    <3>2. cut' = IF request.op = "search" THEN Cardinality(incidents) > PageSize ELSE cut
      BY <1>9 DEF Accepted
    <3>3. (Cardinality(incidents) > PageSize) \in BOOLEAN /\ cut \in BOOLEAN
      BY <1>1 DEF TypeOK
    <3> QED
      BY <3>1, <3>2, <3>3
  <2>4. PICK page \in Pages : AcceptedWith(page)
    BY <1>9, AcceptedIs
  <2>5. CASE Remaining(page) # <<>>
    <3>1. call' = [call EXCEPT !.todo = Remaining(page)] /\ UNCHANGED <<alert, write, outcome>>
      BY <2>4, <2>5 DEF AcceptedWith
    <3>2. Remaining(page) \in Seq(Requests)
      BY <1>1, <2>1, RemainingIs
    <3>3. /\ call' \in [resolved : BOOLEAN, todo : Seq(Requests)]
          /\ call'.todo = Remaining(page) /\ call'.resolved = call.resolved
      BY <1>1, <3>1, <3>2 DEF TypeOK
    <3>4. TypeOK'
      BY <1>1, <1>2, <2>2, <2>3, <3>1, <3>3 DEF TypeOK
    <3>5. InCall'
      BY <2>1, <2>5, <3>1, <3>3 DEF InCall, Due
    <3> QED
      BY <3>4, <3>5 DEF Basic
  <2>6. CASE Remaining(page) = <<>>
    <3>1. Fail(alert.resolveKey) \/ Succeed(TRUE)
      BY <2>4, <2>6 DEF AcceptedWith
    <3>2. alert.resolveKey \in Keys
      BY <1>1 DEF TypeOK
    <3>3. call' = Idle
      BY <3>1 DEF Fail, Succeed
    <3> QED
      BY <2>2, <2>3, <3>1, <3>2, <3>3, EndKeeps
  <2> QED
    BY <2>5, <2>6
<1>10. CASE Garbled
  <2>1. call.todo # <<>>
    BY <1>1, <1>10 DEF Garbled, InCall
  <2>2. /\ told' \in Nat /\ nextKey' \in Nat
        /\ incidents' \subseteq Incidents /\ IsFiniteSet(incidents')
        /\ Key \in Keys
    BY <1>1, <1>10, <2>1, ApplyIs DEF Garbled
  <2>3. Succeed(FALSE) \/ Fail(NoKey) \/ Fail(alert.resolveKey)
    BY <1>10 DEF Garbled
  <2>4. NoKey \in Keys /\ alert.resolveKey \in Keys
    BY <1>1 DEF TypeOK, Keys
  <2>5. call' = Idle
    BY <2>3 DEF Fail, Succeed
  <2>6. cut' \in BOOLEAN /\ UNCHANGED <<config, provider, row>>
    BY <1>1, <1>10 DEF Garbled, TypeOK
  <2> QED
    BY <2>2, <2>3, <2>4, <2>5, <2>6, EndKeeps
<1>11. CASE Refused
  <2>1. call.todo # <<>>
    BY <1>1, <1>11 DEF Refused, InCall
  <2>2. alert.resolveKey \in Keys /\ Key \in Keys /\ call' = Idle
    <3>1. request \in Requests
      BY <1>1, <2>1, HeadTailProperties DEF request, TypeOK
    <3> QED
      BY <1>1, <1>11, <3>1 DEF Key, TypeOK, Requests, Keys, Refused, Fail
  <2> QED
    BY <1>1, <1>11, <2>2, EndKeeps DEF Refused, TypeOK
<1>12. CASE AnswerLost
  <2>1. call.todo # <<>>
    BY <1>1, <1>12 DEF AnswerLost, InCall
  <2>2. /\ told' \in Nat /\ nextKey' \in Nat
        /\ incidents' \subseteq Incidents /\ IsFiniteSet(incidents')
        /\ Key \in Keys
    BY <1>1, <1>12, <2>1, ApplyIs DEF AnswerLost
  <2>3. alert.resolveKey \in Keys /\ cut' \in BOOLEAN
    BY <1>1, <1>12 DEF TypeOK, AnswerLost
  <2> QED
    BY <1>12, <2>2, <2>3, EndKeeps DEF AnswerLost, Fail
<1>13. CASE Restart
  <2>1. alert' \in [triggered : BOOLEAN, resolveKey : Keys] /\ write' \in {"no", "due", "blind", "saved"}
    BY <1>1, <1>13 DEF Restart, Untriggered, TypeOK, Keys
  <2>2. /\ call' = Idle /\ Idle \in [resolved : BOOLEAN, todo : Seq(Requests)] /\ provider' = "loading"
        /\ UNCHANGED <<config, row, told, incidents, nextKey, cut>>
    BY <1>13 DEF Restart, Idle
  <2> QED
    BY <1>1, <2>1, <2>2 DEF Basic, TypeOK, InCall
<1> QED
  BY <1>3, <1>4, <1>5, <1>6, <1>7, <1>8, <1>9, <1>10, <1>11, <1>12, <1>13 DEF Next

\* The shape of the state.
THEOREM NotificationShape == Spec => []Basic
<1> QED
  BY InitBasic, NextBasic, PTL DEF Spec

\* The configuration is what it was at the start.
LEMMA ConfigStays == [Next]_vars => config' = config
<1> SUFFICES ASSUME [Next]_vars PROVE config' = config
  OBVIOUS
<1>1. CASE UNCHANGED vars
  BY <1>1 DEF vars
<1>2. CASE Load \/ Trigger \/ Resolve
  BY <1>2 DEF Load, Trigger, Resolve
<1>3. CASE Accepted \/ Garbled
  BY <1>3 DEF Accepted, Garbled
<1>4. CASE Refused \/ AnswerLost \/ Restart
  BY <1>4 DEF Refused, AnswerLost, Restart
<1>5. CASE SaveSuccesses \/ Persist
  BY <1>5 DEF SaveSuccesses, Persist
<1> QED
  BY <1>1, <1>2, <1>3, <1>4, <1>5 DEF Next
-----------------------------------------------------------------------------
(* The effective configuration. *)

\* The layer each field comes from: the overrides do not take a field away.
LEMMA EffectiveIs ==
    /\ DOMAIN DefaultConfig = type.fields /\ DOMAIN GetConfig = type.fields
    /\ \A f \in type.fields :
          GetConfig[f] = IF f \in config.given["alert"] THEN "alert"
                         ELSE IF f \in config.given["group"] THEN "group"
                         ELSE DefaultConfig[f]
<1>1. PICK none : none = [f \in type.fields |-> "unset"]
  OBVIOUS
<1>2. PICK base : base = Merge(none, "default")
  OBVIOUS
<1>3. PICK default : default = WithDefaults(base)
  OBVIOUS
<1>4. PICK group : group = Merge(default, "group")
  OBVIOUS
<1>5. PICK alerts : alerts = Merge(group, "alert")
  OBVIOUS
<1>6. PICK full : full = WithDefaults(alerts)
  OBVIOUS
<1>7. DefaultConfig = default /\ GetConfig = full
  <2>1. DefaultConfig = default
    BY <1>1, <1>2, <1>3 DEF DefaultConfig
  <2> QED
    BY <1>4, <1>5, <1>6, <2>1 DEF GetConfig
<1>8. DOMAIN base = type.fields /\ DOMAIN default = type.fields
  BY <1>1, <1>2, <1>3 DEF Merge, WithDefaults
<1>9. DOMAIN group = type.fields /\ DOMAIN alerts = type.fields /\ DOMAIN full = type.fields
  BY <1>4, <1>5, <1>6, <1>8 DEF Merge, WithDefaults
<1>10. ASSUME NEW f \in type.fields
       PROVE  full[f] = IF f \in config.given["alert"] THEN "alert"
                        ELSE IF f \in config.given["group"] THEN "group"
                        ELSE default[f]
  <2>1. default[f] = IF base[f] = "unset" /\ f \in type.defaulted THEN "builtin" ELSE base[f]
    BY <1>3, <1>8 DEF WithDefaults
  <2>2. group[f] = IF f \in config.given["group"] THEN "group" ELSE default[f]
    BY <1>4, <1>8 DEF Merge
  <2>3. alerts[f] = IF f \in config.given["alert"] THEN "alert" ELSE group[f]
    BY <1>5, <1>9 DEF Merge
  <2>4. full[f] = IF alerts[f] = "unset" /\ f \in type.defaulted THEN "builtin" ELSE alerts[f]
    BY <1>6, <1>9 DEF WithDefaults
  <2> QED
    BY <2>1, <2>2, <2>3, <2>4
<1> QED
  BY <1>7, <1>8, <1>9, <1>10

\* An override that gives a field does not unset a required one, and the form
\* of nothing is checked where nothing is malformed.
THEOREM KeptCanSendHolds == Spec => []KeptCanSend
<1>1. Basic => KeptCanSend
  <2> SUFFICES ASSUME Basic, provider = "kept", config.bad = {}, type.paired = {}
               PROVE  Valid(GetConfig)
    BY DEF KeptCanSend
  <2>1. config \in Configs /\ Valid(DefaultConfig)
    BY DEF Basic, TypeOK, Validates
  <2>2. type.required \subseteq type.fields
    BY <2>1, ConfigIs DEF WellFormed
  <2>3. \A f \in type.required : GetConfig[f] # "unset"
    BY <2>1, <2>2, EffectiveIs DEF Valid
  <2> QED
    BY <2>3 DEF Valid
<1> QED
  BY <1>1, NotificationShape, PTL
-----------------------------------------------------------------------------
(* The persisted key. *)

\* What a Send that goes on, or that ends, makes of the call.
LEMMA CallIs ==
    ASSUME Basic, call # Idle
    PROVE  /\ call.todo \in Seq(Requests) /\ call.todo # <<>> /\ call.resolved \in BOOLEAN
           /\ outcome = "none" /\ (call.resolved => ~alert.triggered)
           /\ \A todo : todo # <<>> => [call EXCEPT !.todo = todo] # Idle
<1>1. call \in [resolved : BOOLEAN, todo : Seq(Requests)]
  BY DEF Basic, TypeOK
<1>2. ASSUME NEW todo, todo # <<>> PROVE [call EXCEPT !.todo = todo] # Idle
  <2>1. [call EXCEPT !.todo = todo].todo = todo
    BY <1>1
  <2>2. Idle.todo = <<>>
    BY DEF Idle
  <2> QED
    BY <1>2, <2>1, <2>2
<1> QED
  BY <1>1, <1>2 DEF Basic, InCall

\* The services that return the key of an incident or are given one.
Numbered == type.service = "generated" \/ (type.service = "returned" /\ config.sendOnResolved)

\* From the answer that opened it to the write of the row, and from then on, the
\* key in memory is the key of an open incident; a Send in progress opens another
\* one or the same, and closes none that is kept.
KeyInv ==
    /\ write \in {"due", "saved"} =>
          /\ alert.triggered
          /\ Numbered => Incident("own", alert.resolveKey) \in incidents
    /\ write = "saved" => row = alert.resolveKey
    /\ type.service = "generated" /\ (call # Idle \/ write \in {"due", "saved"}) =>
          alert.resolveKey # NoKey
    /\ Numbered /\ call # Idle /\ ~call.resolved =>
          call.todo = <<Request("open", IF type.service = "generated" THEN alert.resolveKey
                                        ELSE NoKey)>>

\* What the service does with a request to open an incident that has a key.
LEMMA NumberedApply ==
    ASSUME Basic, KeyInv, Numbered, call # Idle, ~call.resolved, Apply
    PROVE  /\ incidents \subseteq incidents'
           /\ Incident("own", Key) \in incidents'
           /\ type.service = "generated" => Key = alert.resolveKey
           /\ \A page \in Pages : Remaining(page) = <<>>
           /\ request.op # "search"
<1>1. PICK key \in Keys : /\ key = IF type.service = "generated" THEN alert.resolveKey ELSE NoKey
                         /\ call.todo = <<Request("open", key)>>
  BY DEF KeyInv, Basic, TypeOK, Keys
<1>2. request = Request("open", key)
  BY <1>1 DEF request
<1>3. request.op = "open" /\ request.key = key
  BY <1>2 DEF Request
<1>4. incidents' = incidents \cup {Incident("own", Key)}
  BY <1>3 DEF Apply
<1>5. type.service = "generated" => Key = alert.resolveKey
  BY <1>1, <1>3 DEF Key, KeyInv
<1>6. Tail(<<Request("open", key)>>) = <<>>
  OBVIOUS
<1>7. \A page \in Pages : Remaining(page) = <<>>
  BY <1>1, <1>3, <1>6 DEF Remaining
<1> QED
  BY <1>3, <1>4, <1>5, <1>7

\* Every step keeps it.
LEMMA KeyStep == Basic /\ KeyInv /\ [Next]_vars => KeyInv'
<1> SUFFICES ASSUME Basic, KeyInv, [Next]_vars PROVE KeyInv'
  OBVIOUS
<1>1. TypeOK /\ InCall /\ config \in Configs
  BY DEF Basic, TypeOK
<1>2. config' = config
  BY ConfigStays
<1>3. /\ Numbered' = Numbered /\ Idle' = Idle /\ (type.service)' = type.service
  BY <1>2 DEF Numbered, type, Idle
<1>4. \A o, k : Incident(o, k) = [owner |-> o, key |-> k]
  BY DEF Incident
<1>5. ASSUME NEW resolved \in BOOLEAN, Send(resolved), call = Idle, ~Due, UNCHANGED incidents,
             \/ ~resolved /\ UNCHANGED <<row, write>>
             \/ resolved /\ write' = "no"
      PROVE  KeyInv'
  <2>1. /\ alert'.triggered = (alert.triggered /\ ~resolved)
        /\ \/ call' = Idle /\ alert'.resolveKey = alert.resolveKey
           \/ /\ alert'.resolveKey = KeyFor(alert.resolveKey) /\ alert'.resolveKey \in Keys
              /\ call' = [resolved |-> resolved, todo |-> Plan(resolved, alert'.resolveKey)]
    BY <1>5, SendIs
  <2>2. CASE call' = Idle /\ alert'.resolveKey = alert.resolveKey
    BY <1>3, <1>4, <1>5, <2>1, <2>2 DEF KeyInv
  <2>3. CASE /\ alert'.resolveKey = KeyFor(alert.resolveKey) /\ alert'.resolveKey \in Keys
             /\ call' = [resolved |-> resolved, todo |-> Plan(resolved, alert'.resolveKey)]
    <3>1. type.service = "generated" => alert'.resolveKey # NoKey
      BY <1>1, <2>3, BoundsAssumption DEF KeyFor, TypeOK, BoundsAssumption
    <3>2. write = "saved" => alert'.resolveKey = alert.resolveKey
      BY <2>3 DEF KeyFor, KeyInv
    <3>3. PICK key \in Keys : key = alert'.resolveKey
      BY <2>3
    <3>4. Numbered /\ ~resolved =>
             call'.todo = <<Request("open", IF type.service = "generated" THEN key ELSE NoKey)>>
      <4>1. call'.todo = Plan(resolved, key)
        BY <2>3, <3>3
      <4>2. CASE type.service = "generated" /\ ~resolved
        BY <1>1, <4>1, <4>2, PlanIs
      <4>3. CASE type.service = "returned" /\ ~resolved
        BY <1>1, <4>1, <4>3, PlanIs
      <4> QED
        BY <4>2, <4>3 DEF Numbered
    <3>5. call'.resolved = resolved
      BY <2>3
    <3>6. write' \in {"due", "saved"} => write' = "saved" /\ write = "saved" /\ ~resolved /\ row' = row
      BY <1>5 DEF Due
    <3> QED
      BY <1>3, <1>4, <1>5, <2>1, <3>1, <3>2, <3>3, <3>4, <3>5, <3>6 DEF KeyInv, Request
  <2> QED
    BY <2>1, <2>2, <2>3
<1>6. ASSUME NEW key, Fail(key), call # Idle, UNCHANGED row,
             Apply \/ UNCHANGED incidents
      PROVE  KeyInv'
  <2>1. /\ call' = Idle /\ alert'.triggered = alert.triggered /\ alert'.resolveKey = key
        /\ write' = IF key = alert.resolveKey THEN write ELSE "no"
    BY <1>1, <1>6 DEF Fail, TypeOK
  <2>2. write = "saved" => ~call.resolved
    BY <1>1, <1>6 DEF InCall
  <2>3. write = "saved" /\ Numbered => incidents \subseteq incidents'
    <3>1. CASE UNCHANGED incidents
      BY <3>1
    <3>2. CASE Apply
      BY <1>6, <2>2, <3>2, NumberedApply
    <3> QED
      BY <1>6, <3>1, <3>2
  <2>4. write # "due"
    BY <1>1, <1>6 DEF InCall, Due
  <2> QED
    BY <1>3, <1>4, <1>6, <2>1, <2>3, <2>4 DEF KeyInv
<1>7. ASSUME NEW readable \in BOOLEAN, Succeed(readable), call # Idle, Apply, UNCHANGED row
      PROVE  KeyInv'
  <2>1. CASE call.resolved
    <3>1. write' = "no" /\ call' = Idle
      BY <1>1, <1>7, <2>1 DEF Succeed, InCall
    <3> QED
      BY <1>3, <3>1 DEF KeyInv
  <2>2. CASE ~call.resolved
    <3>1. /\ call' = Idle /\ alert'.triggered = TRUE /\ alert'.resolveKey = KeyAfter(readable)
          /\ write' = IF readable THEN "due" ELSE "blind"
      BY <1>7, <2>2 DEF Succeed
    <3>2. CASE ~readable
      BY <1>3, <3>1, <3>2 DEF KeyInv
    <3>3. CASE readable
      <4>1. Numbered => KeyAfter(readable) = Key
        <5>1. CASE type.service = "generated"
          <6>1. KeyAfter(readable) = alert.resolveKey
            BY <5>1 DEF KeyAfter
          <6> QED
            BY <1>7, <2>2, <5>1, <6>1, NumberedApply DEF Numbered
        <5>2. CASE type.service = "returned" /\ config.sendOnResolved
          BY <2>2, <3>3, <5>2 DEF KeyAfter
        <5> QED
          BY <5>1, <5>2 DEF Numbered
      <4>2. Numbered => Incident("own", alert'.resolveKey) \in incidents'
        BY <1>7, <2>2, <3>1, <4>1, NumberedApply
      <4>3. type.service = "generated" => alert'.resolveKey # NoKey
        BY <1>7, <2>2, <3>1, <4>1, NumberedApply DEF Numbered, KeyInv
      <4> QED
        BY <1>3, <1>4, <3>1, <3>3, <4>2, <4>3 DEF KeyInv
    <3> QED
      BY <3>2, <3>3
  <2> QED
    BY <2>1, <2>2
<1>8. CASE UNCHANGED vars
  BY <1>3, <1>4, <1>8 DEF vars, KeyInv, Request
<1>9. CASE Load
  BY <1>3, <1>4, <1>9 DEF Load, KeyInv, Request
<1>10. CASE Trigger
  BY <1>5, <1>10 DEF Trigger
<1>11. CASE Resolve
  <2>1. CASE config.sendOnResolved /\ provider = "kept"
    BY <1>5, <1>11, <2>1 DEF Resolve
  <2>2. CASE ~(config.sendOnResolved /\ provider = "kept")
    <3>1. call' = Idle /\ write' = "no"
      BY <1>11, <2>2 DEF Resolve
    <3> QED
      BY <1>3, <3>1 DEF KeyInv
  <2> QED
    BY <2>1, <2>2
<1>12. CASE SaveSuccesses
  <2>1. /\ call' = Idle /\ UNCHANGED <<alert, write, incidents>> /\ call = Idle
        /\ row' \in {row, alert.resolveKey}
    BY <1>12 DEF SaveSuccesses
  <2> QED
    BY <1>3, <1>4, <2>1 DEF KeyInv
<1>13. CASE Persist
  <2>1. call = Idle /\ call' = Idle
    BY <1>1, <1>3, <1>13 DEF Persist, InCall
  <2>2. CASE write' = "no"
    BY <1>3, <2>1, <2>2 DEF KeyInv
  <2>3. CASE write' # "no"
    <3>1. write = "due" /\ row' = alert.resolveKey /\ UNCHANGED <<alert, incidents>>
      BY <1>13, <2>3 DEF Persist
    <3> QED
      BY <1>3, <1>4, <2>1, <3>1 DEF KeyInv
  <2> QED
    BY <2>2, <2>3
<1>14. CASE Accepted
  <2>1. call # Idle /\ Apply /\ UNCHANGED row
    BY <1>14 DEF Accepted
  <2>2. PICK page \in Pages : AcceptedWith(page)
    BY <1>14, AcceptedIs
  <2>3. CASE Remaining(page) # <<>>
    <3>1. call' = [call EXCEPT !.todo = Remaining(page)] /\ UNCHANGED <<alert, write, outcome>>
      BY <2>2, <2>3 DEF AcceptedWith
    <3>2. call'.resolved = call.resolved
      BY <1>1, <3>1 DEF TypeOK
    <3>3. Numbered => call.resolved
      BY <2>1, <2>3, NumberedApply
    <3>4. write # "due" /\ (call.resolved => write = "no")
      BY <1>1, <2>1 DEF InCall, Due
    <3> QED
      BY <1>3, <1>4, <2>1, <3>1, <3>2, <3>3, <3>4 DEF KeyInv
  <2>4. CASE Remaining(page) = <<>>
    BY <1>6, <1>7, <2>1, <2>2, <2>4 DEF AcceptedWith
  <2> QED
    BY <2>3, <2>4
<1>15. CASE Garbled
  <2>1. Succeed(FALSE) \/ Fail(NoKey) \/ Fail(alert.resolveKey)
    BY <1>15 DEF Garbled
  <2> QED
    BY <1>6, <1>7, <1>15, <2>1 DEF Garbled
<1>16. CASE Refused
  BY <1>6, <1>16 DEF Refused
<1>17. CASE AnswerLost
  BY <1>6, <1>17 DEF AnswerLost
<1>18. CASE Restart
  <2>1. call' = Idle /\ write' \in {write, "no"} /\ write' # "due" /\ UNCHANGED <<row, incidents>>
    BY <1>18 DEF Restart, Due
  <2>2. CASE write' # "saved"
    <3>1. write' \notin {"due", "saved"}
      BY <2>1, <2>2
    <3> QED
      BY <1>3, <2>1, <3>1 DEF KeyInv
  <2>3. CASE write' = "saved"
    <3>1. write = "saved" /\ row = alert.resolveKey /\ row # NoRow
      BY <1>1, <2>1, <2>3, BoundsAssumption DEF KeyInv, TypeOK, Keys, BoundsAssumption
    <3>2. alert'.triggered = TRUE /\ alert'.resolveKey = row
      BY <1>18, <3>1 DEF Restart
    <3> QED
      BY <1>3, <1>4, <2>1, <3>1, <3>2 DEF KeyInv
  <2> QED
    BY <2>2, <2>3
<1> QED
  BY <1>8, <1>9, <1>10, <1>11, <1>12, <1>13, <1>14, <1>15, <1>16, <1>17, <1>18 DEF Next

\* The row that was written for an accepted notification holds the key in memory
\* and of an open incident until the alert is resolved, over restarts and over
\* the reminders that fail in between.
THEOREM KeySurvivesRestartHolds == Spec => []KeySurvivesRestart
<1>1. Init => KeyInv
  BY DEF Init, KeyInv, Idle
<1>2. KeyInv => KeySurvivesRestart
  BY DEF KeyInv, KeySurvivesRestart, Numbered
<1> QED
  BY <1>1, <1>2, KeyStep, NotificationShape, PTL DEF Spec
-----------------------------------------------------------------------------
(* Everyone is told. *)

Telling == type.service \in {"message", "recipients"}
Everyone == IF type.service = "recipients" THEN Recipients ELSE 1
AllTold(todo) == \A n \in 1 .. Len(todo) : todo[n].op = "tell"

\* Those who were told and those that a Send has still to tell are everyone.
SentInv ==
    Telling =>
        /\ call # Idle => told + Len(call.todo) = Everyone /\ AllTold(call.todo)
        /\ outcome \in {"sent", "resolved"} => told = Everyone

\* The first request and those behind it.
LEMMA TodoIs ==
    ASSUME Basic, call # Idle
    PROVE  \E n \in Nat \ {0} :
              /\ Len(call.todo) = n /\ request = call.todo[1] /\ request \in Requests
              /\ Tail(call.todo) \in Seq(Requests) /\ Len(Tail(call.todo)) = n - 1
              /\ \A i \in 1 .. n - 1 : Tail(call.todo)[i] = call.todo[i + 1]
<1>1. PICK todo \in Seq(Requests) : todo = call.todo /\ todo # <<>>
  BY CallIs
<1>2. PICK n \in Nat : n = Len(todo)
  BY <1>1, LenProperties
<1>3. n # 0
  BY <1>1, <1>2, EmptySeq
<1>4. PICK tail : tail = Tail(todo)
  OBVIOUS
<1>5. /\ tail \in Seq(Requests) /\ Len(tail) = n - 1
      /\ \A i \in 1 .. n - 1 : tail[i] = todo[i + 1]
  BY <1>1, <1>2, <1>4, HeadTailProperties
<1>6. Head(todo) = todo[1] /\ todo[1] \in Requests
  BY <1>1, <1>2, <1>3, HeadTailProperties
<1> QED
  BY <1>1, <1>2, <1>3, <1>4, <1>5, <1>6 DEF request

\* A message tells everyone: as many requests are planned as there are to tell,
\* each that is accepted tells one, and what is not accepted ends the Send.
THEOREM SentToEveryoneHolds == Spec => []SentToEveryone
<1>1. Init => SentInv
  BY DEF Init, SentInv
<1>2. Basic /\ SentInv /\ [Next]_vars => SentInv'
  <2> SUFFICES ASSUME Basic, SentInv, [Next]_vars PROVE SentInv'
    OBVIOUS
  <2> SUFFICES ASSUME Telling
               PROVE  /\ call' # Idle => told' + Len(call'.todo) = Everyone /\ AllTold(call'.todo)
                      /\ outcome' \in {"sent", "resolved"} => told' = Everyone
    <3>1. config' = config
      BY ConfigStays
    <3>2. Telling' = Telling /\ Everyone' = Everyone /\ Idle' = Idle
      BY <3>1 DEF Telling, Everyone, type, Idle
    <3>3. AllTold(call.todo)' = AllTold(call'.todo)
      BY DEF AllTold
    <3> QED
      BY <3>2, <3>3 DEF SentInv
  <2> DEFINE Goal == /\ call' # Idle => told' + Len(call'.todo) = Everyone /\ AllTold(call'.todo)
                     /\ outcome' \in {"sent", "resolved"} => told' = Everyone
  <2>1. TypeOK /\ config \in Configs
    BY DEF Basic, TypeOK
  <2>2. Recipients \in Nat \ {0}
    BY BoundsAssumption DEF BoundsAssumption
  <2>3. ASSUME NEW resolved \in BOOLEAN, Send(resolved), call = Idle PROVE Goal
    <3>1. told' = 0
      BY <2>3, SendIs
    <3>2. CASE call' = Idle /\ outcome' = "failed"
      BY <3>2
    <3>3. CASE ~(call' = Idle /\ outcome' = "failed")
      <4>1. /\ outcome' = "none"
            /\ \E key \in Keys : call' = [resolved |-> resolved, todo |-> Plan(resolved, key)]
        BY <2>3, <3>3, SendIs
      <4>2. PICK key \in Keys : call'.todo = Plan(resolved, key)
        BY <4>1
      <4>3. Len(call'.todo) = Everyone /\ AllTold(call'.todo)
        <5>1. CASE type.service = "message"
          <6>1. call'.todo = <<Request("tell", NoKey)>>
            BY <2>1, <4>2, <5>1, PlanIs
          <6> QED
            BY <5>1, <6>1 DEF Everyone, AllTold, Request
        <5>2. CASE type.service = "recipients"
          <6>1. call'.todo = [r \in 1 .. Recipients |-> Request("tell", NoKey)]
            BY <2>1, <4>2, <5>2, PlanIs
          <6>2. PICK todo : todo = [r \in 1 .. Recipients |-> Request("tell", NoKey)]
            OBVIOUS
          <6>3. Len(todo) = Recipients /\ \A n \in 1 .. Recipients : todo[n].op = "tell"
            BY <2>2, <6>2 DEF Request
          <6> QED
            BY <5>2, <6>1, <6>2, <6>3 DEF Everyone, AllTold
        <5> QED
          BY <5>1, <5>2 DEF Telling
      <4>4. Everyone \in Nat
        BY <2>2 DEF Everyone
      <4> QED
        BY <3>1, <4>1, <4>3, <4>4
    <3> QED
      BY <3>2, <3>3
  <2>4. ASSUME NEW key, Fail(key) PROVE Goal
    BY <2>4 DEF Fail
  <2>5. CASE UNCHANGED vars
    BY <2>5 DEF vars, SentInv
  <2>6. CASE Load
    BY <2>6 DEF Load, SentInv
  <2>7. CASE Trigger
    BY <2>3, <2>7 DEF Trigger
  <2>8. CASE Resolve
    <3>1. CASE config.sendOnResolved /\ provider = "kept"
      BY <2>3, <2>8, <3>1 DEF Resolve
    <3>2. CASE ~(config.sendOnResolved /\ provider = "kept")
      BY <2>8, <3>2 DEF Resolve, SentInv
    <3> QED
      BY <3>1, <3>2
  <2>9. CASE Accepted
    <3>1. call # Idle /\ told + Len(call.todo) = Everyone /\ AllTold(call.todo)
      BY <2>9 DEF Accepted, SentInv
    <3>2. PICK n \in Nat \ {0} :
              /\ Len(call.todo) = n /\ request = call.todo[1] /\ request \in Requests
              /\ Tail(call.todo) \in Seq(Requests) /\ Len(Tail(call.todo)) = n - 1
              /\ \A i \in 1 .. n - 1 : Tail(call.todo)[i] = call.todo[i + 1]
      BY <3>1, TodoIs
    <3>3. request.op = "tell"
      <4>1. 1 \in 1 .. n
        OBVIOUS
      <4>2. call.todo[1].op = "tell"
        BY <3>1, <3>2, <4>1 DEF AllTold
      <4> QED
        BY <3>2, <4>2
    <3>4. told' = told + 1
      BY <2>9, <3>3 DEF Accepted, Apply
    <3>9. PICK page \in Pages : AcceptedWith(page)
      BY <2>9, AcceptedIs
    <3>5. Remaining(page) = Tail(call.todo)
      BY <3>3 DEF Remaining
    <3>6. told \in Nat
      BY <2>1 DEF TypeOK
    <3>7. CASE Remaining(page) # <<>>
      <4>1. call' = [call EXCEPT !.todo = Remaining(page)] /\ outcome' = outcome
        BY <3>7, <3>9 DEF AcceptedWith
      <4>2. call'.todo = Remaining(page)
        BY <2>1, <4>1 DEF TypeOK
      <4>3. Len(call'.todo) = n - 1 /\ AllTold(call'.todo)
        <5>1. \A i \in 1 .. n - 1 : call'.todo[i].op = "tell"
          BY <3>1, <3>2, <3>5, <4>2 DEF AllTold
        <5> QED
          BY <3>2, <3>5, <4>2, <5>1 DEF AllTold
      <4>4. outcome' = "none"
        BY <3>1, <4>1, CallIs
      <4> QED
        BY <3>1, <3>2, <3>4, <3>6, <4>3, <4>4
    <3>8. CASE Remaining(page) = <<>>
      <4>1. n - 1 = 0
        <5>1. PICK tail \in Seq(Requests) : tail = Tail(call.todo)
          BY <3>2
        <5>2. Len(tail) = 0
          BY <3>5, <3>8, <5>1, EmptySeq
        <5> QED
          BY <3>2, <5>1, <5>2
      <4>2. call' = Idle
        BY <3>8, <3>9 DEF AcceptedWith, Fail, Succeed
      <4> QED
        BY <3>1, <3>2, <3>4, <3>6, <4>1, <4>2
    <3> QED
      BY <3>7, <3>8
  <2>10. CASE Garbled
    <3>1. type.decode # "ignored"
      BY <2>1, ConfigIs DEF WellFormed, Telling
    <3> QED
      BY <2>4, <2>10, <3>1 DEF Garbled
  <2>11. CASE Refused
    BY <2>4, <2>11 DEF Refused
  <2>12. CASE AnswerLost
    BY <2>4, <2>12 DEF AnswerLost
  <2>13. CASE Restart
    BY <2>13 DEF Restart
  <2>14. CASE SaveSuccesses \/ Persist
    BY <2>14 DEF SaveSuccesses, Persist, SentInv
  <2> QED
    BY <2>5, <2>6, <2>7, <2>8, <2>9, <2>10, <2>11, <2>12, <2>13, <2>14 DEF Next
<1>3. SentInv => SentToEveryone
  BY DEF SentInv, SentToEveryone, Telling, Everyone
<1> QED
  BY <1>1, <1>2, <1>3, NotificationShape, PTL DEF Spec
-----------------------------------------------------------------------------
(* The services that are asked by the endpoint's key. *)

Opening == Request("open", OwnKey)
Closing == Request("close", OwnKey)
Keyed == type.service \in {"endpoint", "alias"}
NoneOwn(open) == \A i \in open : i.owner # "own"

\* There is one incident of the endpoint at most, and closing it is the last
\* request of a resolution.
KeyedInv ==
    Keyed => /\ \A i \in incidents : i.owner = "own" => i.key = OwnKey
             /\ call # Idle => call.todo \in IF call.resolved
                                             THEN {<<Opening, Closing>>, <<Closing>>}
                                             ELSE {<<Opening>>}
             /\ outcome = "resolved" => NoneOwn(incidents)

\* What the service does with a request for the endpoint's key.
LEMMA KeyedApply ==
    ASSUME Basic, KeyedInv, Keyed, call # Idle, Apply
    PROVE  /\ \A i \in incidents' : i.owner = "own" => i.key = OwnKey
           /\ request \in {Opening, Closing}
           /\ call.todo = <<Closing>> => NoneOwn(incidents')
<1>1. call.todo \in {<<Opening, Closing>>, <<Closing>>, <<Opening>>}
  BY DEF KeyedInv
<1>2. request \in {Opening, Closing} /\ (call.todo = <<Closing>> => request = Closing)
  BY <1>1 DEF request
<1>3. Opening = [op |-> "open", owner |-> "own", key |-> 0]
  BY DEF Opening, Request, OwnKey
<1>4. Closing = [op |-> "close", owner |-> "own", key |-> 0]
  BY DEF Closing, Request, OwnKey
<1>5. incidents \subseteq Incidents /\ \A i \in incidents : i.owner = "own" => i.key = 0
  BY DEF Basic, TypeOK, KeyedInv, OwnKey
<1>6. PICK own : own = Incident("own", 0)
  OBVIOUS
<1>7. own.owner = "own" /\ own.key = 0
  BY <1>6 DEF Incident
<1>8. CASE request = Opening
  <2>1. Key = 0
    BY <1>3, <1>8, BoundsAssumption DEF Key, BoundsAssumption
  <2>2. incidents' = incidents \cup {own}
    BY <1>3, <1>6, <1>8, <2>1 DEF Apply
  <2>3. request # Closing
    BY <1>3, <1>4, <1>8
  <2> QED
    BY <1>2, <1>5, <1>7, <2>2, <2>3 DEF OwnKey
<1>9. CASE request = Closing
  <2>1. incidents' = incidents \ {own}
    BY <1>4, <1>6, <1>9 DEF Apply
  <2>2. ASSUME NEW i \in incidents, i.owner = "own" PROVE i = own
    <3>1. i \in [owner : Owners, key : Keys] /\ i.key = 0
      BY <1>5, <2>2 DEF Incidents
    <3>2. i = [owner |-> "own", key |-> 0]
      BY <2>2, <3>1
    <3> QED
      BY <1>6, <3>2 DEF Incident
  <2> QED
    BY <1>2, <1>5, <2>1, <2>2 DEF OwnKey, NoneOwn
<1> QED
  BY <1>2, <1>8, <1>9

\* Every step keeps it.
LEMMA KeyedStep == Basic /\ KeyedInv /\ [Next]_vars => KeyedInv'
<1> SUFFICES ASSUME Basic, KeyedInv, [Next]_vars PROVE KeyedInv'
  OBVIOUS
<1> DEFINE Todo(c) == c.todo \in IF c.resolved
                                 THEN {<<Opening, Closing>>, <<Closing>>}
                                 ELSE {<<Opening>>}
<1> DEFINE ByKey == \A i \in incidents' : i.owner = "own" => i.key = OwnKey
           ToDo == call' # Idle => Todo(call')
           Closed == outcome' = "resolved" => NoneOwn(incidents')
<1> SUFFICES ASSUME Keyed PROVE ByKey /\ ToDo /\ Closed
  <2>1. config' = config
    BY ConfigStays
  <2>2. Keyed' = Keyed /\ Opening' = Opening /\ Closing' = Closing /\ Idle' = Idle
    BY <2>1 DEF Keyed, type, Opening, Closing, Request, OwnKey, Idle
  <2>3. NoneOwn(incidents)' = NoneOwn(incidents')
    BY DEF NoneOwn
  <2> QED
    BY <2>2, <2>3 DEF KeyedInv, OwnKey
<1>1. TypeOK /\ config \in Configs
  BY DEF Basic, TypeOK
<1>2. /\ \A i \in incidents : i.owner = "own" => i.key = OwnKey
      /\ call # Idle => Todo(call)
      /\ outcome = "resolved" => NoneOwn(incidents)
  BY DEF KeyedInv
<1>3. ASSUME UNCHANGED <<incidents, call, outcome>> PROVE ByKey /\ ToDo /\ Closed
  BY <1>2, <1>3
<1>4. ASSUME NEW resolved \in BOOLEAN, Send(resolved), call = Idle, UNCHANGED incidents
      PROVE  ByKey /\ ToDo /\ Closed
  <2>1. CASE call' = Idle /\ outcome' = "failed"
    BY <1>2, <1>4, <2>1
  <2>2. CASE ~(call' = Idle /\ outcome' = "failed")
    <3>1. /\ outcome' = "none"
          /\ \E key \in Keys : call' = [resolved |-> resolved, todo |-> Plan(resolved, key)]
      BY <1>4, <2>2, SendIs
    <3>2. PICK key \in Keys : call' = [resolved |-> resolved, todo |-> Plan(resolved, key)]
      BY <3>1
    <3>3. call'.resolved = resolved /\ call'.todo = Plan(resolved, key)
      BY <3>2
    <3>4. CASE type.service = "endpoint"
      <4>1. call'.todo = <<Request(IF resolved THEN "close" ELSE "open", OwnKey)>>
        BY <1>1, <3>3, <3>4, PlanIs
      <4>2. call'.todo = IF resolved THEN <<Closing>> ELSE <<Opening>>
        BY <4>1 DEF Opening, Closing
      <4> QED
        BY <1>2, <1>4, <3>1, <3>3, <4>2
    <3>5. CASE type.service = "alias"
      <4>1. call'.todo = IF resolved THEN <<Opening, Closing>> ELSE <<Opening>>
        BY <1>1, <3>3, <3>5, PlanIs DEF Opening, Closing
      <4> QED
        BY <1>2, <1>4, <3>1, <3>3, <4>1
    <3> QED
      BY <3>4, <3>5 DEF Keyed
  <2> QED
    BY <2>1, <2>2
<1>5. ASSUME NEW key, Fail(key), call # Idle, Apply \/ UNCHANGED incidents
      PROVE  ByKey /\ ToDo /\ Closed
  <2>1. call' = Idle /\ outcome' = "failed"
    BY <1>5 DEF Fail
  <2>2. ByKey
    BY <1>2, <1>5, KeyedApply
  <2> QED
    BY <2>1, <2>2
<1>6. CASE UNCHANGED vars
  BY <1>3, <1>6 DEF vars
<1>7. CASE Load
  BY <1>3, <1>7 DEF Load
<1>8. CASE Trigger
  BY <1>4, <1>8 DEF Trigger
<1>9. CASE Resolve
  <2>1. CASE config.sendOnResolved /\ provider = "kept"
    BY <1>4, <1>9, <2>1 DEF Resolve
  <2>2. CASE ~(config.sendOnResolved /\ provider = "kept")
    BY <1>3, <1>9, <2>2 DEF Resolve
  <2> QED
    BY <2>1, <2>2
<1>10. CASE Accepted
  <2>1. call # Idle /\ Apply
    BY <1>10 DEF Accepted
  <2>2. ByKey /\ request \in {Opening, Closing} /\ (call.todo = <<Closing>> => NoneOwn(incidents'))
    BY <2>1, KeyedApply
  <2>3. request.op # "search"
    BY <2>2 DEF Opening, Closing, Request
  <2>8. PICK page \in Pages : AcceptedWith(page)
    BY <1>10, AcceptedIs
  <2>4. Remaining(page) = Tail(call.todo)
    BY <2>3 DEF Remaining
  <2>5. Todo(call) /\ call.resolved \in BOOLEAN
    BY <1>2, <2>1, CallIs
  <2>6. CASE call.todo = <<Opening, Closing>>
    <3>1. Tail(<<Opening, Closing>>) = <<Closing>>
      OBVIOUS
    <3>2. Remaining(page) = <<Closing>> /\ Remaining(page) # <<>>
      BY <2>4, <2>6, <3>1
    <3>3. call' = [call EXCEPT !.todo = Remaining(page)] /\ outcome' = outcome
      BY <2>8, <3>2 DEF AcceptedWith
    <3>4. call.resolved
      <4>1. <<Opening, Closing>> # <<Opening>>
        OBVIOUS
      <4> QED
        BY <2>5, <2>6, <4>1
    <3>5. call'.todo = <<Closing>> /\ call'.resolved
      BY <1>1, <3>2, <3>3, <3>4 DEF TypeOK
    <3>6. outcome' = "none"
      BY <2>1, <3>3, CallIs
    <3> QED
      BY <2>2, <3>5, <3>6
  <2>7. CASE call.todo # <<Opening, Closing>>
    <3>1. call.todo = <<Closing>> \/ (call.todo = <<Opening>> /\ ~call.resolved)
      BY <2>5, <2>7
    <3>2. Tail(<<Closing>>) = <<>> /\ Tail(<<Opening>>) = <<>>
      OBVIOUS
    <3>3. Remaining(page) = <<>>
      BY <2>4, <3>1, <3>2
    <3>4. Succeed(TRUE)
      BY <2>3, <2>8, <3>3 DEF AcceptedWith
    <3>5. call' = Idle /\ outcome' = IF call.resolved THEN "resolved" ELSE "sent"
      BY <3>4 DEF Succeed
    <3> QED
      BY <2>2, <3>1, <3>5
  <2> QED
    BY <2>6, <2>7
<1>11. CASE Garbled
  <2>1. type.decode # "ignored"
    BY <1>1, ConfigIs DEF WellFormed, Keyed
  <2>2. Fail(NoKey) \/ Fail(alert.resolveKey)
    BY <1>11, <2>1 DEF Garbled
  <2> QED
    BY <1>5, <1>11, <2>2 DEF Garbled
<1>12. CASE Refused
  BY <1>5, <1>12 DEF Refused
<1>13. CASE AnswerLost
  BY <1>5, <1>13 DEF AnswerLost
<1>14. CASE Restart
  BY <1>2, <1>14 DEF Restart
<1>15. CASE SaveSuccesses \/ Persist
  BY <1>3, <1>15 DEF SaveSuccesses, Persist
<1> QED
  BY <1>6, <1>7, <1>8, <1>9, <1>10, <1>11, <1>12, <1>13, <1>14, <1>15 DEF Next
-----------------------------------------------------------------------------
(* The services that are searched. *)

Searching == Request("search", NoKey)
Asking == Request("user", NoKey)
Searched == type.service \in {"issues", "tasks"}

\* Requests that close incidents, and every own one of a set.
Closes(todo) == \A n \in 1 .. Len(todo) : todo[n].op = "close"
Covers(todo, open) ==
    \A i \in open : i.owner = "own" =>
        \E n \in 1 .. Len(todo) : todo[n].owner = i.owner /\ todo[n].key = i.key

\* A resolution that has searched has a request for every own incident, unless
\* the list was longer than a page or the name of the tasks is another one.
SearchedInv ==
    Searched /\ ~config.nameless =>
        /\ call # Idle /\ call.resolved =>
              \/ call.todo \in {<<Searching>>, <<Asking, Searching>>}
              \/ Closes(call.todo) /\ (cut \/ Covers(call.todo, incidents))
        /\ outcome = "resolved" => cut \/ NoneOwn(incidents)

\* After the search every own incident is covered, and after a request to close
\* one those that are left are.
LEMMA SearchedApply ==
    ASSUME Basic, SearchedInv, Searched, ~config.nameless, call # Idle, call.resolved, Apply,
           NEW page \in Pages,
           cut' = IF request.op = "search" THEN Cardinality(incidents) > PageSize ELSE cut
    PROVE  \/ Remaining(page) = <<Searching>>
           \/ Closes(Remaining(page)) /\ (cut' \/ Covers(Remaining(page), incidents'))
<1>1. TypeOK /\ call.todo # <<>>
  BY CallIs DEF Basic
<1>2. CASE call.todo = <<Asking, Searching>>
  <2>1. request = Asking
    BY <1>2 DEF request
  <2>2. request.op = "user"
    BY <2>1 DEF Asking, Request
  <2>3. Remaining(page) = Tail(call.todo)
    BY <2>2 DEF Remaining
  <2>4. Tail(<<Asking, Searching>>) = <<Searching>>
    OBVIOUS
  <2> QED
    BY <1>2, <2>3, <2>4
<1>3. CASE call.todo = <<Searching>>
  <2>1. request.op = "search"
    BY <1>3 DEF request, Searching, Request
  <2>2. incidents' = incidents
    BY <2>1 DEF Apply
  <2>3. Closes(Remaining(page))
    BY <1>1, <2>1, RemainingIs DEF Closes
  <2>4. ASSUME ~cut' PROVE Covers(Remaining(page), incidents')
    <3>1. Cardinality(incidents) \in Nat /\ PageSize \in Nat
      BY <1>1, FS_CardinalityType, BoundsAssumption DEF TypeOK, BoundsAssumption
    <3>5. cut' = (Cardinality(incidents) > PageSize)
      BY <2>1
    <3>6. ~(Cardinality(incidents) > PageSize)
      BY <2>4, <3>5
    <3>2. Cardinality(incidents) <= PageSize
      BY <3>1, <3>6
    <3>3. page = incidents
      BY <3>2 DEF Pages
    <3>4. \A i \in incidents : i.owner = "own" => i \in Found(page)
      BY <3>3 DEF Found
    <3> QED
      BY <1>1, <2>1, <2>2, <3>4, RemainingIs DEF Covers
  <2> QED
    BY <2>3, <2>4
<1>4. CASE Closes(call.todo) /\ (cut \/ Covers(call.todo, incidents))
  <2>1. PICK n \in Nat \ {0} :
            /\ Len(call.todo) = n /\ request = call.todo[1] /\ request \in Requests
            /\ Tail(call.todo) \in Seq(Requests) /\ Len(Tail(call.todo)) = n - 1
            /\ \A i \in 1 .. n - 1 : Tail(call.todo)[i] = call.todo[i + 1]
    BY TodoIs
  <2>2. request.op = "close"
    BY <1>4, <2>1 DEF Closes
  <2>3. Remaining(page) = Tail(call.todo)
    BY <2>2 DEF Remaining
  <2>4. incidents' = incidents \ {Incident(request.owner, request.key)}
    BY <2>2 DEF Apply
  <2>5. \A m \in 1 .. n - 1 : Remaining(page)[m].op = "close"
    BY <1>4, <2>1, <2>3 DEF Closes
  <2>6. ASSUME Covers(call.todo, incidents), NEW i \in incidents', i.owner = "own"
        PROVE  \E m \in 1 .. n - 1 :
                  Remaining(page)[m].owner = i.owner /\ Remaining(page)[m].key = i.key
    <3>1. i \in incidents /\ i # Incident(request.owner, request.key)
      BY <2>4, <2>6
    <3>2. PICK m \in 1 .. n : call.todo[m].owner = i.owner /\ call.todo[m].key = i.key
      BY <2>1, <2>6, <3>1 DEF Covers
    <3>3. m # 1
      <4>1. SUFFICES ASSUME m = 1 PROVE FALSE
        OBVIOUS
      <4>2. request.owner = i.owner /\ request.key = i.key
        BY <2>1, <3>2, <4>1
      <4>3. i \in [owner : Owners, key : Keys]
        BY <1>1, <3>1 DEF TypeOK, Incidents
      <4>4. i = [owner |-> request.owner, key |-> request.key]
        BY <4>2, <4>3
      <4> QED
        BY <3>1, <4>4 DEF Incident
    <3>4. m - 1 \in 1 .. n - 1 /\ (m - 1) + 1 = m
      BY <3>3
    <3>5. Remaining(page)[m - 1] = call.todo[m]
      BY <2>1, <2>3, <3>4
    <3> QED
      BY <3>2, <3>4, <3>5
  <2>7. Len(Remaining(page)) = n - 1
    BY <2>1, <2>3
  <2>8. Closes(Remaining(page))
    BY <2>5, <2>7 DEF Closes
  <2>9. Covers(call.todo, incidents) => Covers(Remaining(page), incidents')
    BY <2>6, <2>7 DEF Covers
  <2>10. cut' = cut
    BY <2>2
  <2> QED
    BY <1>4, <2>8, <2>9, <2>10
<1> QED
  BY <1>2, <1>3, <1>4 DEF SearchedInv

\* Every step keeps it.
LEMMA SearchedStep == Basic /\ SearchedInv /\ [Next]_vars => SearchedInv'
<1> SUFFICES ASSUME Basic, SearchedInv, [Next]_vars PROVE SearchedInv'
  OBVIOUS
<1> DEFINE ToDo == call' # Idle /\ call'.resolved =>
                      \/ call'.todo \in {<<Searching>>, <<Asking, Searching>>}
                      \/ Closes(call'.todo) /\ (cut' \/ Covers(call'.todo, incidents'))
           Closed == outcome' = "resolved" => cut' \/ NoneOwn(incidents')
<1> SUFFICES ASSUME Searched, ~config.nameless PROVE ToDo /\ Closed
  <2>1. config' = config
    BY ConfigStays
  <2>2. /\ Searched' = Searched /\ Searching' = Searching /\ Asking' = Asking /\ Idle' = Idle
        /\ (config.nameless)' = config.nameless
    BY <2>1 DEF Searched, type, Searching, Asking, Request, Idle
  <2>3. /\ NoneOwn(incidents)' = NoneOwn(incidents')
        /\ Closes(call.todo)' = Closes(call'.todo)
        /\ Covers(call.todo, incidents)' = Covers(call'.todo, incidents')
    BY DEF NoneOwn, Covers, Closes
  <2> QED
    BY <2>2, <2>3 DEF SearchedInv
<1>1. TypeOK /\ config \in Configs
  BY DEF Basic, TypeOK
<1>2. /\ call # Idle /\ call.resolved =>
            \/ call.todo \in {<<Searching>>, <<Asking, Searching>>}
            \/ Closes(call.todo) /\ (cut \/ Covers(call.todo, incidents))
      /\ outcome = "resolved" => cut \/ NoneOwn(incidents)
  BY DEF SearchedInv
<1>3. ASSUME UNCHANGED <<incidents, call, outcome, cut>> PROVE ToDo /\ Closed
  BY <1>2, <1>3
<1>4. ASSUME NEW resolved \in BOOLEAN, Send(resolved), call = Idle PROVE ToDo /\ Closed
  <2>1. CASE call' = Idle /\ outcome' = "failed"
    BY <2>1
  <2>2. CASE ~(call' = Idle /\ outcome' = "failed")
    <3>1. PICK key \in Keys :
             outcome' = "none" /\ call' = [resolved |-> resolved, todo |-> Plan(resolved, key)]
      BY <1>4, <2>2, SendIs
    <3>2. CASE resolved
      <4>1. \E q : /\ q = Request("search", NoKey)
                  /\ Plan(resolved, key) \in {<<q>>, <<Request("user", NoKey), q>>}
        BY <1>1, <3>2, PlanIs DEF Searched
      <4>2. Plan(resolved, key) \in {<<Searching>>, <<Asking, Searching>>}
        BY <4>1 DEF Searching, Asking
      <4> QED
        BY <3>1, <4>2
    <3>3. CASE ~resolved
      BY <3>1, <3>3
    <3> QED
      BY <3>2, <3>3
  <2> QED
    BY <2>1, <2>2
<1>5. ASSUME NEW key, Fail(key) PROVE ToDo /\ Closed
  BY <1>5 DEF Fail
<1>6. CASE UNCHANGED vars
  BY <1>3, <1>6 DEF vars
<1>7. CASE Load
  BY <1>3, <1>7 DEF Load
<1>8. CASE Trigger
  BY <1>4, <1>8 DEF Trigger
<1>9. CASE Resolve
  <2>1. CASE config.sendOnResolved /\ provider = "kept"
    BY <1>4, <1>9, <2>1 DEF Resolve
  <2>2. CASE ~(config.sendOnResolved /\ provider = "kept")
    BY <1>3, <1>9, <2>2 DEF Resolve
  <2> QED
    BY <2>1, <2>2
<1>10. CASE Accepted
  <2>1. /\ call # Idle /\ Apply
        /\ cut' = IF request.op = "search" THEN Cardinality(incidents) > PageSize ELSE cut
    BY <1>10 DEF Accepted
  <2>2. PICK page \in Pages : AcceptedWith(page)
    BY <1>10, AcceptedIs
  <2>3. call.resolved =>
            \/ Remaining(page) = <<Searching>>
            \/ Closes(Remaining(page)) /\ (cut' \/ Covers(Remaining(page), incidents'))
    BY <2>1, SearchedApply
  <2>4. CASE Remaining(page) # <<>>
    <3>1. call' = [call EXCEPT !.todo = Remaining(page)] /\ outcome' = outcome
      BY <2>2, <2>4 DEF AcceptedWith
    <3>2. call'.todo = Remaining(page) /\ call'.resolved = call.resolved
      BY <1>1, <3>1 DEF TypeOK
    <3>3. outcome' = "none"
      BY <2>1, <3>1, CallIs
    <3> QED
      BY <2>3, <3>2, <3>3
  <2>5. CASE Remaining(page) = <<>>
    <3>1. call' = Idle /\ (~call.resolved => outcome' # "resolved")
      BY <2>2, <2>5 DEF AcceptedWith, Fail, Succeed
    <3>2. CASE ~call.resolved
      BY <3>1, <3>2
    <3>3. CASE call.resolved
      <4>1. <<>> # <<Searching>> /\ Len(<<>>) = 0
        OBVIOUS
      <4>2. cut' \/ Covers(<<>>, incidents')
        BY <2>3, <2>5, <3>3, <4>1
      <4>3. cut' \/ NoneOwn(incidents')
        BY <4>1, <4>2 DEF Covers, NoneOwn
      <4> QED
        BY <3>1, <4>3
    <3> QED
      BY <3>2, <3>3
  <2> QED
    BY <2>4, <2>5
<1>11. CASE Garbled
  <2>1. type.decode # "ignored"
    BY <1>1, ConfigIs DEF WellFormed, Searched
  <2>2. Fail(NoKey) \/ Fail(alert.resolveKey)
    BY <1>11, <2>1 DEF Garbled
  <2> QED
    BY <1>5, <2>2
<1>12. CASE Refused
  BY <1>5, <1>12 DEF Refused
<1>13. CASE AnswerLost
  BY <1>5, <1>13 DEF AnswerLost
<1>14. CASE Restart
  BY <1>14 DEF Restart
<1>15. CASE SaveSuccesses \/ Persist
  BY <1>3, <1>15 DEF SaveSuccesses, Persist
<1> QED
  BY <1>6, <1>7, <1>8, <1>9, <1>10, <1>11, <1>12, <1>13, <1>14, <1>15 DEF Next

\* A resolution reported as sent leaves no own incident open: its last request
\* closes the only one there is under the endpoint's key, or the last of those
\* that the search found, which is every one where the list fits a page, and
\* nothing is opened between the two.
THEOREM ResolvedClosesOwnHolds == Spec => []ResolvedClosesOwn
<1>1. Init => KeyedInv /\ SearchedInv
  BY DEF Init, KeyedInv, SearchedInv, Incident
<1>2. KeyedInv /\ SearchedInv => ResolvedClosesOwn
  BY DEF KeyedInv, SearchedInv, Keyed, Searched, NoneOwn, ResolvedClosesOwn
<1> QED
  BY <1>1, <1>2, KeyedStep, SearchedStep, NotificationShape, PTL DEF Spec
=============================================================================
