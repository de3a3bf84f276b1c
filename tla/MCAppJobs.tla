----------------------------- MODULE MCAppJobs -----------------------------
(* Instances of AppJobs for TLC. *)
EXTENDS AppJobs, TLC

CONSTANTS p1, p2, l1, l2

MCProcs == {p1, p2}
MCProc == {p1}
MCLoops == {l1, l2}
=============================================================================
