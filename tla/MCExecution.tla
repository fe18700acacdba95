---------------------------- MODULE MCExecution ----------------------------
(***************************************************************************)
(* Weeks of two days of two hours of two units.  One goroutine takes turns *)
(* at every type of endpoint, with the conditions documented for it and    *)
(* some that do not need an answer, and with a window; the other one has   *)
(* none.                                                                   *)
(***************************************************************************)
EXTENDS ExecutionProperties

CONSTANTS t1, t2

Window(start, duration, every, validated) ==
    [enabled |-> TRUE, start |-> start, duration |-> duration, every |-> every,
     validated |-> validated]
MCGlobal == [Window(0, 1, {}, TRUE) EXCEPT !.enabled = FALSE]

Is(placeholder, value) == Condition("none", placeholder, "==", {value})
HasPath == Condition("has", "BODY.path", "==", {True})
Endpoint(type, body, login, conditions, windows) ==
    [type |-> type, body |-> body, login |-> login, conditions |-> conditions,
     windows |-> windows]

Late == Window(3, 3, {0}, TRUE)
Long == Window(1, 4, {}, TRUE)
Other == Window(2, 2, {1}, TRUE)
Unvalidated == Window(2, 2, {}, FALSE)
Connects == Is("CONNECTED", True)

MCChoices ==
    [t \in {t1, t2} |->
        IF t = t2
        THEN {Endpoint("TCP", FALSE, FALSE, {Connects}, {})}
        ELSE {Endpoint(type, body, FALSE, {Connects, Condition("none", "RESPONSE_TIME", "<", {3})}, {Late}) :
                  type \in {"TCP", "UDP", "TLS"}, body \in BOOLEAN}
             \cup {Endpoint(type, FALSE, FALSE, {Connects, Condition("none", "IP", "!=", {Field})}, {Long}) :
                  type \in {"SCTP", "ICMP"}}
             \cup {Endpoint("SSH", FALSE, login, {Connects, Is("STATUS", 0)}, {Unvalidated}) :
                  login \in BOOLEAN}
             \cup {Endpoint("SSH", TRUE, TRUE, {HasPath}, {Unvalidated}),
                   Endpoint("SSH", FALSE, FALSE, {Is("STATUS", 1)}, {Long}),
                   Endpoint("DNS", FALSE, FALSE, {Is("DNS_RCODE", NoError), Condition("len", "BODY", ">", {0})},
                            {Unvalidated}),
                   Endpoint("STARTTLS", FALSE, FALSE,
                            {Condition("none", "CERTIFICATE_EXPIRATION", ">", {1})}, {Late, Other}),
                   Endpoint("GRPC", FALSE, FALSE, {Is("BODY.path", Field)}, {Long, Other}),
                   Endpoint("WS", TRUE, FALSE, {Condition("none", "BODY", "!=", {Garbage}), Connects}, {Other}),
                   Endpoint("HTTP", FALSE, FALSE, {Condition("none", "STATUS", "<", {300})}, {Late}),
                   Endpoint("HTTP", FALSE, FALSE, {Is("STATUS", 200), Condition("none", "DOMAIN_EXPIRATION", ">", {1})}, {Late}),
                   Endpoint("HTTP", FALSE, FALSE, {Is("STATUS", 200), Is("BODY.path", Field)}, {Other})}]
=============================================================================
