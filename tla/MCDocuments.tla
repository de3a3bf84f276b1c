----------------------------- MODULE MCDocuments -----------------------------
(* Instances of Documents for TLC. *)
EXTENDS Documents, TLC

CONSTANTS q1, q2, text1, text2, u1, u2

MCRequests == {q1, q2}
MCContents == {text1, text2}
MCApprovers == {u1, u2}

\* Two approvers of one stage, and one after the other.
MCPlans == {{<<u1, 1>>, <<u2, 1>>}, {<<u1, 1>>, <<u2, 2>>}}

SymmetricRequests == Permutations(MCRequests)
Symmetric == Permutations(MCRequests) \union Permutations(MCContents)
=============================================================================
