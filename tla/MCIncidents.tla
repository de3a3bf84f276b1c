----------------------------- MODULE MCIncidents -----------------------------
(***************************************************************************)
(* Incidents under two requests at a time.                                 *)
(***************************************************************************)
EXTENDS Incidents, TLC

CONSTANTS r1, r2, s1

TwoRequests == {r1, r2}
OneStage == {s1}
Symmetry == Permutations(TwoRequests)
==============================================================================
