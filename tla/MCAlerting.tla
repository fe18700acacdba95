----------------------------- MODULE MCAlerting -----------------------------
(***************************************************************************)
(* Two alerts that differ in every threshold, and the configurations that  *)
(* enable both, the first or none.                                         *)
(***************************************************************************)
EXTENDS AlertingProperties

MCFailureThreshold == <<2, 3>>
MCSuccessThreshold == <<3, 2>>
MCReminder == <<1, 2>>
MCSendOnResolved == {2}
MCChecksum == <<"sum1", "sum2">>
MCConfigs == {{1, 2}, {1}, {}}
AllFaults == {"stop", "send", "upsert", "delete", "read", "slow"}
=============================================================================
