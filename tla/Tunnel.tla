------------------------------- MODULE Tunnel -------------------------------
(***************************************************************************)
(* An SSH tunnel shared by the endpoints that are reached through it.  The *)
(* mutex protects the client, not its use: an endpoint dials through the   *)
(* client it read while another one closes that client and reconnects.     *)
(***************************************************************************)
EXTENDS Naturals

CONSTANTS
    Dialers,      \* the executions that dial through the tunnel
    Down,         \* those whose target does not answer
    Clients,      \* identities of *ssh.Client
    NoClient,     \* nil
    NoOne,        \* the mutex is free
    MaxRetries,   \* maxRetries
    Faults        \* of "lost", "refused", "stop"

ASSUME TunnelAssumption ==
    /\ Down \subseteq Dialers
    /\ NoClient \notin Clients /\ NoOne \notin Dialers
    /\ MaxRetries \in Nat \ {0}

\* a connection always gets an identity that nobody holds
ASSUME ClientsSuffice ==
    \A f \in [Dialers -> Clients \cup {NoClient}], c \in Clients \cup {NoClient} :
        Clients \ ({c} \cup {f[d] : d \in Dialers}) # {}

VARIABLES
    known,        \* whether the tunnel is in connections, of which Close closes each
    mu,           \* t.mu
    client,       \* t.client
    open,         \* the clients whose connection is open
    dialing,      \* per dialer: what Dial does next
    local,        \* per dialer: the variable client of Dial
    attempt,      \* per dialer: the attempt
    disturbed     \* per dialer: what happened to it since Dial began, counted for the properties

tunnelVars == <<known, mu, client, open, dialing, local, attempt, disturbed>>

TunnelInit ==
    /\ known = TRUE
    /\ mu = NoOne /\ client = NoClient /\ open = {}
    /\ dialing = [d \in Dialers |-> "idle"]
    /\ local = [d \in Dialers |-> NoClient]
    /\ attempt = [d \in Dialers |-> 0]
    /\ disturbed = [d \in Dialers |-> 0]

DialAt(d, step) == dialing[d] = step
DialGoto(d, step) == dialing' = [dialing EXCEPT ![d] = step]

Unused == CHOOSE c \in Clients : c \notin open \cup {client} \cup {local[d] : d \in Dialers}

\* counted as far as the properties tell them apart
Once(n) == IF n < MaxRetries THEN n + 1 ELSE n

\* a client stops being open under those about to dial through it
Closed(c) ==
    /\ open' = open \ {c}
    /\ disturbed' = [d \in Dialers |->
          IF c \in open /\ local[d] = c /\ DialAt(d, "dial")
          THEN Once(disturbed[d])
          ELSE disturbed[d]]

\* client = t.client, of which nobody knows whether it is still open
Take(d) ==
    /\ local' = [local EXCEPT ![d] = client]
    /\ disturbed' = [disturbed EXCEPT ![d] = IF client \in open \cup {NoClient} THEN 0 ELSE 1]

Dial(d) ==
    /\ DialAt(d, "idle") /\ mu = NoOne
    /\ Take(d)
    /\ attempt' = [attempt EXCEPT ![d] = 0]
    /\ DialGoto(d, IF client = NoClient THEN "ensure" ELSE "dial")
    /\ UNCHANGED <<known, mu, client, open>>

EnsureUnchecked(d) ==
    /\ DialAt(d, "ensure") /\ mu = NoOne
    /\ mu' = d /\ DialGoto(d, "connect")
    /\ UNCHANGED <<known, client, open, local, attempt, disturbed>>

\* the second check, under the lock
Ensure(d) ==
    /\ DialAt(d, "ensure") /\ mu = NoOne
    /\ \/ /\ client = NoClient
          /\ mu' = d /\ DialGoto(d, "connect")
          /\ UNCHANGED <<local, disturbed>>
       \/ /\ client # NoClient
          /\ Take(d) /\ DialGoto(d, "dial")
          /\ UNCHANGED mu
    /\ UNCHANGED <<known, client, open, attempt>>

\* connectUnsafe, with the lock held
ConnectShadowed(d) ==
    /\ DialAt(d, "connect") /\ mu = d
    /\ client' = Unused /\ open' = open \cup {Unused}
    /\ local' = [local EXCEPT ![d] = IF attempt[d] = 0 THEN Unused ELSE @]
    /\ mu' = NoOne /\ DialGoto(d, "dial")
    /\ UNCHANGED <<known, attempt, disturbed>>

Connect(d) ==
    /\ DialAt(d, "connect") /\ mu = d
    /\ client' = Unused /\ open' = open \cup {Unused}
    /\ local' = [local EXCEPT ![d] = Unused]
    /\ mu' = NoOne /\ DialGoto(d, "dial")
    /\ UNCHANGED <<known, attempt, disturbed>>

FailedUncounted(d) == UNCHANGED attempt /\ DialGoto(d, "retry")

\* the end of an attempt: the next one, or the error
Failed(d) ==
    IF attempt[d] + 1 < MaxRetries
    THEN attempt' = [attempt EXCEPT ![d] = @ + 1] /\ DialGoto(d, "retry")
    ELSE UNCHANGED attempt /\ DialGoto(d, "failed")

\* the first connection is not tried again
ConnectFails(d) ==
    /\ "refused" \in Faults
    /\ DialAt(d, "connect") /\ mu = d
    /\ mu' = NoOne
    /\ IF attempt[d] = 0 THEN DialGoto(d, "failed") /\ UNCHANGED attempt ELSE Failed(d)
    /\ disturbed' = [disturbed EXCEPT ![d] = Once(@)]
    /\ UNCHANGED <<known, client, open, local>>

\* client.Dial, without the lock
DialTarget(d) ==
    /\ DialAt(d, "dial")
    /\ \/ /\ local[d] \in open /\ d \notin Down
          /\ DialGoto(d, "connected") /\ UNCHANGED attempt
       \/ /\ local[d] \notin open \/ d \in Down
          /\ Failed(d)
    /\ UNCHANGED <<known, mu, client, open, local, disturbed>>

\* after the back-off: what is there is closed, whoever opened it
Retry(d) ==
    /\ DialAt(d, "retry") /\ mu = NoOne
    /\ mu' = d
    /\ Closed(client) /\ client' = NoClient
    /\ DialGoto(d, "connect")
    /\ UNCHANGED <<known, local, attempt>>

Return(d) ==
    /\ DialAt(d, "connected") \/ DialAt(d, "failed")
    /\ DialGoto(d, "idle")
    /\ local' = [local EXCEPT ![d] = NoClient]
    /\ attempt' = [attempt EXCEPT ![d] = 0]
    /\ disturbed' = [disturbed EXCEPT ![d] = 0]
    /\ UNCHANGED <<known, mu, client, open>>

\* the server or the network closes the connection; nobody is told
Lose ==
    /\ "lost" \in Faults
    /\ client \in open /\ Closed(client)
    /\ UNCHANGED <<known, mu, client, dialing, local, attempt>>

\* closeTunnels, while executions are still in flight: the tunnel is forgotten, but their
\* endpoints still refer to it
Close ==
    /\ "stop" \in Faults
    /\ known /\ mu = NoOne
    /\ Closed(client) /\ client' = NoClient
    /\ known' = FALSE
    /\ UNCHANGED <<mu, dialing, local, attempt>>

DialStep(d) ==
    \/ Dial(d) \/ Ensure(d) \/ Connect(d) \/ ConnectFails(d)
    \/ DialTarget(d) \/ Retry(d) \/ Return(d)

TunnelNext == Lose \/ Close \/ \E d \in Dialers : DialStep(d)

(***************************************************************************)
(* The mutex is granted in turn, and the SSH handshake ends.  That an      *)
(* execution dials is not assumed.                                         *)
(***************************************************************************)
TunnelFairness ==
    \A d \in Dialers : /\ SF_tunnelVars(Ensure(d) \/ Retry(d))
                       /\ WF_tunnelVars(Connect(d) \/ ConnectFails(d))
                       /\ WF_tunnelVars(DialTarget(d))
                       /\ WF_tunnelVars(Return(d))

TunnelSpec == TunnelInit /\ [][TunnelNext]_tunnelVars /\ TunnelFairness
=============================================================================
