-------------------------- MODULE TunnelProperties --------------------------
(***************************************************************************)
(* What the endpoints behind a tunnel can rely on.                         *)
(***************************************************************************)
EXTENDS Tunnel

\* At most one SSH connection is open, the one in t.client: however the first
\* connections, the reconnections and Close meet, none is replaced without being
\* closed.  (Whether Close still knows of the tunnel is another question.)
NoClientLeaks == open \subseteq {client}

\* A dial to a target that answers fails only when each of its attempts met a
\* client that was lost, refused or closed by somebody else, or when the tunnel
\* could not be opened in the first place.
FailsOnlyIfDisturbed ==
    \A d \in Dialers \ Down :
        DialAt(d, "failed") => disturbed[d] >= IF attempt[d] = 0 THEN 1 ELSE MaxRetries

\* Every dial returns, whatever the others do to the client and however often
\* the connection is lost or refused.
DialsReturn == \A d \in Dialers : ~DialAt(d, "idle") ~> DialAt(d, "idle")
=============================================================================
