------------------------------- MODULE MCSuite -------------------------------
(***************************************************************************)
(* Four endpoints; the second and the last always run.                     *)
(***************************************************************************)
EXTENDS SuiteProperties

MCAlwaysRun == {2, 4}
MCAllFaults == {"timeout", "insert", "maintenance"}
=============================================================================
