------------------------------- MODULE JobLife -------------------------------
(***************************************************************************)
(* The life of one job of the compatibility wizard, as the administrator   *)
(* who submits it may see it: it is claimed once, whoever holds it deals   *)
(* with its modules one by one, ends it and lets it go, or is stopped and  *)
(* lets it go as it is.                                                    *)
(*                                                                         *)
(* It does not promise that a job that runs ends, nor that a cancellation  *)
(* is what the job ends with: see AppJobs, which implements it for each of *)
(* its jobs.                                                               *)
(***************************************************************************)
EXTENDS Naturals

CONSTANT MaxSize

VARIABLES status,  \* what the wizard shows
          size,    \* modules of the job
          done,    \* modules dealt with
          late,    \* how many of them after the cancellation
          held     \* whether somebody runs it

vars == <<status, size, done, late, held>>

Init == status = "none" /\ size = 0 /\ done = 0 /\ late = 0 /\ held = FALSE

Submit ==
  /\ status = "none"
  /\ status' = "queued"
  /\ size' \in 0 .. MaxSize
  /\ UNCHANGED <<done, late, held>>

Cancel ==
  /\ status \in {"queued", "running"}
  /\ status' = "canceled"
  /\ UNCHANGED <<size, done, late, held>>

Claim ==
  /\ status = "queued"
  /\ ~held
  /\ status' = "running"
  /\ held' = TRUE
  /\ UNCHANGED <<size, done, late>>

\* The module in progress when the job is canceled is still completed, no other.
Deal ==
  /\ held
  /\ done < size
  /\ done' = done + 1
  /\ IF status = "canceled" THEN late = 0 /\ late' = 1 ELSE UNCHANGED late
  /\ UNCHANGED <<status, size, held>>

\* It ends as finished only when all of it is done, as canceled only when it was.
End ==
  /\ held
  /\ \/ status' = "failed"
     \/ status' = "finished" /\ done = size /\ size > 0
     \/ status' = "canceled" /\ status = "canceled"
  /\ held' = FALSE
  /\ UNCHANGED <<size, done, late>>

Abandon ==
  /\ held
  /\ held' = FALSE
  /\ UNCHANGED <<status, size, done, late>>

Next == Submit \/ Cancel \/ Claim \/ Deal \/ End \/ Abandon

Spec == Init /\ [][Next]_vars
=============================================================================
