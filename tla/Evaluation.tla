----------------------------- MODULE Evaluation -----------------------------
(***************************************************************************)
(* The evaluation of an endpoint: what a call can return, for each type of *)
(* endpoint and whether the target answers or not, and what the conditions *)
(* make of it.  Texts are model values, of which the properties only need  *)
(* to know a few; durations and certificates have a few values.            *)
(***************************************************************************)
EXTENDS Integers

CONSTANTS
    Empty, Invalid,            \* the empty text, and text (INVALID)
    True, False,               \* "true", "false"
    NoError, NxDomain,         \* codes of DNS responses
    Document, Field, Garbage   \* a JSON body, the value at its path, a body without that path

Types == {"DNS", "TCP", "UDP", "SCTP", "ICMP", "STARTTLS", "TLS", "HTTP", "GRPC", "WS", "SSH"}
Placeholders == {"STATUS", "IP", "DNS_RCODE", "RESPONSE_TIME", "CONNECTED",
                 "CERTIFICATE_EXPIRATION", "DOMAIN_EXPIRATION", "BODY", "BODY.path"}

\* an endpoint: its type, whether it sends a body, whether it logs in (SSH), and its conditions
Condition(function, placeholder, comparator, values) ==
    [function |-> function, placeholder |-> placeholder, comparator |-> comparator,
     values |-> values]

(***************************************************************************)
(* endpoint.Result, at the beginning of an evaluation.                     *)
(***************************************************************************)
NewResult ==
    [success |-> TRUE, errors |-> FALSE, connected |-> False, status |-> 0, rcode |-> Empty,
     body |-> Empty, duration |-> 0, certificate |-> 0, ip |-> Empty, domain |-> 0]

Error(result) == [result EXCEPT !.errors = TRUE]
Connected(result) == [result EXCEPT !.connected = True, !.duration = 1]
Reading(results, bodies) == {[r EXCEPT !.body = b] : r \in results, b \in bodies}
Bodies == {Empty, Document, Garbage}

Asks(e, placeholders) == \E c \in e.conditions : c.placeholder \in placeholders
NeedsToReadBody(e) == Asks(e, {"BODY", "BODY.path"})

(***************************************************************************)
(* client: what each protocol returns.  Unanswered is when the target did  *)
(* not answer.                                                             *)
(***************************************************************************)
CanCreateNetworkConnection(network, body, r) ==
    [answered   |-> IF body THEN Reading({Connected(r)}, Bodies) ELSE {Connected(r)},
     unanswered |-> {[r EXCEPT !.duration = 1]}
                    \cup IF network = "UDP" /\ ~body THEN {Connected(r)} ELSE {}]

CanPerformTLS(body, r) ==
    LET handshake == [Connected(r) EXCEPT !.certificate = 2]
    IN  [answered   |-> IF body
                        THEN Reading({handshake}, Bodies)
                             \cup {Error([r EXCEPT !.connected = True])}
                        ELSE {handshake},
         unanswered |-> {Error(r)}]

PingUnchecked(r) ==
    [answered |-> {Connected(r)}, unanswered |-> {r, Connected(r)}]

\* the packet loss tells whether anything came back
Ping(r) ==
    [answered |-> {Connected(r)}, unanswered |-> {r, [r EXCEPT !.duration = 2]}]

CheckSSHBanner(r) ==
    [answered   |-> {[Connected(r) EXCEPT !.success = TRUE]},
     unanswered |-> {Error([r EXCEPT !.status = 1])}]

\* nobody answers, or the login is refused
CanCreateSSHConnectionFails(r) == {Error(r)}

\* a command runs, or cannot be run although the login succeeded
ExecuteSSHCommand(e, r) ==
    LET ran == {[Connected(r) EXCEPT !.success = TRUE, !.status = exit] : exit \in {0, 2}}
    IN  [answered   |-> (IF NeedsToReadBody(e) THEN Reading(ran, Bodies) ELSE ran)
                        \cup {Error([r EXCEPT !.connected = True, !.success = FALSE])},
         unanswered |-> CanCreateSSHConnectionFails(r)]

QueryDNS(r) ==
    [answered   |-> {[Connected(r) EXCEPT !.rcode = code, !.body = b] :
                        code \in {NoError, NxDomain}, b \in {Empty, Garbage}},
     unanswered |-> {Error(r)}]

QueryWebSocket(r) ==
    [answered |-> Reading({Connected(r)}, Bodies) \cup {Error(r)}, unanswered |-> {Error(r)}]

PerformGRPCHealthCheck(e, r) ==
    [answered   |-> {IF NeedsToReadBody(e) THEN [Connected(r) EXCEPT !.body = Document]
                                           ELSE Connected(r)} \cup {Error(r)},
     unanswered |-> {Error(r)}]

\* over TLS there is a certificate; the body is read afterwards, and may break off
Do(e, r) ==
    LET responses == {[Connected(r) EXCEPT !.status = s, !.certificate = c] :
                         s \in {200, 500}, c \in {0, 2}}
    IN  [answered   |-> IF NeedsToReadBody(e)
                        THEN Reading(responses, Bodies) \cup {Error(x) : x \in responses}
                        ELSE responses,
         unanswered |-> {Error([r EXCEPT !.duration = 2])}]

Call(e, r) ==
    CASE e.type \in {"TCP", "UDP"} -> CanCreateNetworkConnection(e.type, e.body, r)
      [] e.type = "SCTP" -> CanCreateNetworkConnection("SCTP", FALSE, r)
      [] e.type = "TLS" -> CanPerformTLS(e.body, r)
      [] e.type = "STARTTLS" -> CanPerformTLS(FALSE, r)
      [] e.type = "ICMP" -> Ping(r)
      [] e.type = "SSH" -> IF e.login THEN ExecuteSSHCommand(e, r) ELSE CheckSSHBanner(r)
      [] e.type = "DNS" -> QueryDNS(r)
      [] e.type = "WS" -> QueryWebSocket(r)
      [] e.type = "GRPC" -> PerformGRPCHealthCheck(e, r)
      [] e.type = "HTTP" -> Do(e, r)

\* what is looked up before the call; a failure leaves an error, and there is no call
LookUps(e, r) ==
    LET ips == IF Asks(e, {"IP"}) THEN {[r EXCEPT !.ip = Garbage], Error(r)} ELSE {r}
    IN  IF Asks(e, {"DOMAIN_EXPIRATION"})
        THEN {[x EXCEPT !.domain = 2] : x \in ips} \cup {Error(x) : x \in ips}
        ELSE ips

(***************************************************************************)
(* ResolvePlaceholder and Condition.evaluate.  A literal, any(...) and     *)
(* pat(...) are the sets of the values that they equal.                    *)
(***************************************************************************)
Value(placeholder, r) ==
    CASE placeholder = "STATUS" -> r.status
      [] placeholder = "IP" -> r.ip
      [] placeholder = "DNS_RCODE" -> r.rcode
      [] placeholder = "RESPONSE_TIME" -> r.duration
      [] placeholder = "CONNECTED" -> r.connected
      [] placeholder = "CERTIFICATE_EXPIRATION" -> r.certificate
      [] placeholder = "DOMAIN_EXPIRATION" -> r.domain
      [] placeholder = "BODY" -> r.body
      [] placeholder = "BODY.path" -> IF r.body = Document THEN Field ELSE Invalid

Has(value) == IF value \in {Empty, Invalid} THEN False ELSE True
LengthOf(value) == CASE value = Invalid -> Invalid [] value = Empty -> 0 [] OTHER -> 1

ResolvePlaceholder(c, r) ==
    LET value == Value(c.placeholder, r)
    IN  CASE c.function = "has" -> Has(value)
          [] c.function = "len" -> LengthOf(value)
          [] OTHER -> value

\* 0 if the text could not be converted
Number(value) == IF value \in {Empty, Invalid, True, False, NoError, NxDomain,
                               Document, Field, Garbage} THEN 0 ELSE value

IsEqual(value, values) == value \in values

\* <= and >= are < and > of the next number
Holds(c, r) ==
    LET value == ResolvePlaceholder(c, r)
    IN  CASE c.comparator = "==" -> IsEqual(value, c.values)
          [] c.comparator = "!=" -> ~IsEqual(value, c.values)
          [] c.comparator = "<"  -> \A v \in c.values : Number(value) < v
          [] c.comparator = ">"  -> \A v \in c.values : Number(value) > v

Conditions(e, r) == [r EXCEPT !.success = @ /\ \A c \in e.conditions : Holds(c, r)]

\* EvaluateHealth: its results, by whether the target answered
EvaluateHealth(e) ==
    LET looked == LookUps(e, NewResult)
        failed == {[x EXCEPT !.success = FALSE] : x \in {y \in looked : y.errors}}
        calls  == {Call(e, x) : x \in {y \in looked : ~y.errors}}
        Of(raw) == {Conditions(e, x) : x \in raw}
    IN  [answered   |-> Of(UNION {call.answered : call \in calls}),
         unanswered |-> Of(failed \cup UNION {call.unanswered : call \in calls})]
=============================================================================
