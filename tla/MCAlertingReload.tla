-------------------------- MODULE MCAlertingReload --------------------------
(***************************************************************************)
(* One alert, enabled or not by what is loaded, with different thresholds. *)
(***************************************************************************)
EXTENDS AlertingReloadProperties

MCFailureThreshold == <<2>>
MCSuccessThreshold == <<2>>
MCReminder == <<1>>
MCSendOnResolved == {1}
MCChecksum == <<"sum1">>
MCConfigs == {{1}, {}}
AllFaults == {"stop", "reload", "send", "upsert", "delete", "read", "slow"}
=============================================================================
