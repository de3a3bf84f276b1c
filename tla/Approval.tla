------------------------------- MODULE Approval -------------------------------
(***************************************************************************)
(* What an approval promises, whoever decides at the same time as whom:    *)
(* nobody is asked after it has begun, an approval of a later stage is     *)
(* given only when every earlier stage is complete, and the verdict        *)
(* "approved" is reached only when everybody asked has approved.           *)
(*                                                                         *)
(* It does not promise that a verdict is final: see Documents, which       *)
(* implements it for each of its approvals.                                *)
(***************************************************************************)
EXTENDS Integers

CONSTANTS Approvers, Stages

VARIABLES asked,   \* whose approval is asked, at which stage
          given,   \* which of these was given, at some time
          verdict  \* approvals.status, "none" before there is a row, "gone" after it

vars == <<asked, given, verdict>>

Pairs == Approvers \X Stages

TypeOK ==
  /\ asked \subseteq Pairs
  /\ given \subseteq asked
  /\ verdict \in {"none", "review", "returned", "approved", "gone"}

Init == asked = {} /\ given = {} /\ verdict = "none"

Earlier(stage) == {p \in asked : p[2] < stage}

Ask ==
  /\ verdict = "none"
  /\ asked' \in (SUBSET Pairs) \ {{}}
  /\ verdict' = "review"
  /\ UNCHANGED given

Give(p) ==
  /\ p \in asked
  /\ Earlier(p[2]) \subseteq given
  /\ given' = given \union {p}
  /\ UNCHANGED <<asked, verdict>>

Approve ==
  /\ verdict \in {"review", "returned"}
  /\ asked \subseteq given
  /\ verdict' = "approved"
  /\ UNCHANGED <<asked, given>>

\* Somebody rejects, or a decision made earlier is recorded late.
Reopen ==
  /\ verdict \in {"review", "returned", "approved"}
  /\ verdict' \in {"review", "returned"}
  /\ UNCHANGED <<asked, given>>

\* An administrator removes it.
Remove ==
  /\ verdict # "none"
  /\ verdict' = "gone"
  /\ UNCHANGED <<asked, given>>

Next == Ask \/ (\E p \in Pairs : Give(p)) \/ Approve \/ Reopen \/ Remove

Spec == Init /\ [][Next]_vars
=============================================================================
