---------------------------- MODULE MCCheckSlots ----------------------------
(* Instances of CheckSlots for TLC. *)
EXTENDS CheckSlots, TLC

CONSTANTS m1, m2, m3, c1, c2, c3, l1, l2

MCMonitors == {m1, m2, m3}
MCTwoMonitors == {m1, m2}
MCTwoChecks == {c1, c2}
MCChecks == {c1, c2, c3}

MCLoops == {l1, l2}
=============================================================================
