----------------------------- MODULE MCTaskBoard -----------------------------
(* Instances of TaskBoard for TLC: a column with a subcolumn, and another board's. *)
EXTENDS TaskBoard, TLC

CONSTANTS t1, t2, t3, q1, q2

MCTasks == {t1, t2, t3}
MCRequests == {q1, q2}
MCBoard == [todo |-> "board", done |-> "other"]
MCOwner == [sub |-> "todo"]

Todo == <<"todo", "none">>
Sub == <<"todo", "sub">>
At(p, n) == [place |-> p, position |-> n, archived |-> FALSE, origin |-> NoEntry]
Was(p, n) ==
  [place |-> p, position |-> n, archived |-> TRUE, origin |-> [place |-> p, position |-> n]]
Three(r, s, u) == (t1 :> r) @@ (t2 :> s) @@ (t3 :> u)

MCBoards == {Three(At(Todo, 1), At(Todo, 2), At(Todo, 3)),
             Three(At(Todo, 1), At(Todo, 2), At(Sub, 1)),
             Three(At(Todo, 1), Was(Todo, 2), At(Todo, 2)),
             Three(At(Sub, 1), Was(Sub, 1), NoRow)}

Symmetric == Permutations(MCRequests)
=============================================================================
