------------------------------ MODULE MCTunnel ------------------------------
(***************************************************************************)
(* An endpoint that is down shares the tunnel with two that are up.        *)
(***************************************************************************)
EXTENDS TunnelProperties

CONSTANTS up1, up2, down, c1, c2, c3, c4, c5

MCFaults == {"lost", "refused", "stop"}
=============================================================================
