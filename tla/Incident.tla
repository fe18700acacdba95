------------------------------ MODULE Incident ------------------------------
(***************************************************************************)
(* What one alert promises (gatus/README.md, "Alerting"): results arrive   *)
(* one at a time, the alert is triggered only after FailureThreshold       *)
(* failures in a row and resolved only after SuccessThreshold successes in *)
(* a row.  Counts saturate at MaxRun, which no threshold exceeds.          *)
(***************************************************************************)
EXTENDS Integers

CONSTANTS FailureThreshold, SuccessThreshold, MaxRun

VARIABLES
    runF, runS, \* failures, successes in a row
    ongoing     \* whether the alert is triggered

incident == <<runF, runS, ongoing>>

Count(n) == IF n < MaxRun THEN n + 1 ELSE n

IncidentInit == runF = 0 /\ runS = 0 /\ ongoing = FALSE

Fail == runF' = Count(runF) /\ runS' = 0 /\ UNCHANGED ongoing
Succeed == runS' = Count(runS) /\ runF' = 0 /\ UNCHANGED ongoing

Trigger == ~ongoing /\ runF >= FailureThreshold /\ ongoing' = TRUE /\ UNCHANGED <<runF, runS>>
Resolve == ongoing /\ runS >= SuccessThreshold /\ ongoing' = FALSE /\ UNCHANGED <<runF, runS>>

IncidentNext == Fail \/ Succeed \/ Trigger \/ Resolve

IncidentSpec == IncidentInit /\ [][IncidentNext]_incident
=============================================================================
