------------------------------ MODULE MCStores ------------------------------
(***************************************************************************)
(* An endpoint whose pattern matches the key of another one, which belongs *)
(* to a suite.                                                             *)
(***************************************************************************)
EXTENDS StoresProperties, TLC

CONSTANTS a, s1, se, w1, w2, r1

MCKinds == {"memory", "sqlite", "postgres"}
MCMemberOf == [x \in {s1} |-> se]
MCMatches == [x \in {a} |-> {a, se}]
MCFaults == {"commit", "result", "member", "delete"}
MCSymmetry == Permutations({w1, w2})
=============================================================================
