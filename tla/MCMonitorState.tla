--------------------------- MODULE MCMonitorState ---------------------------
(* Instances of MonitorState for TLC. *)
EXTENDS MonitorState, TLC

CONSTANTS r1

MCRequests == {r1}
=============================================================================
