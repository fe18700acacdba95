------------------------- MODULE MCExternalEndpoint -------------------------
(***************************************************************************)
(* Pushes one after another and the heartbeat, on one alert.               *)
(***************************************************************************)
EXTENDS ExternalEndpointProperties

CONSTANT r1

MCAllFaults == {"insert", "send", "store", "maintenance"}
=============================================================================
