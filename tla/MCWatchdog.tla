----------------------------- MODULE MCWatchdog -----------------------------
(***************************************************************************)
(* A configuration of one monitor, replaced by one of two that compete for *)
(* one unit of concurrency.  The first monitor of a configuration is that  *)
(* of a heartbeat where there are heartbeats.                              *)
(***************************************************************************)
EXTENDS WatchdogProperties

MCOneEach == <<1, 1>>
MCOneThenTwo == <<1, 2>>
MCNoHeartbeat == {}
MCHeartbeats == {1}
MCInvalid == {"modified", "invalid"}
MCAll == {"modified", "invalid", "signal"}
=============================================================================
