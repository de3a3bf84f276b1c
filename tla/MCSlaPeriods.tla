---------------------------- MODULE MCSlaPeriods ----------------------------
(***************************************************************************)
(* SlaPeriods over days and weeks of three days.                           *)
(***************************************************************************)
EXTENDS SlaPeriods

MCKinds == <<"day", "week">>
MCStarts == [day |-> 0 .. 6, week |-> {0, 3, 6}]

\* Two days of three of the first week were good; the second has begun with a bad day.
MCMixed == {[d \in 0 .. 4 |-> IF d \in {1, 4} THEN "bad" ELSE "ok"]}

\* No incidents, as for a monitor without a policy, and incidents for days or weeks.
MCPolicies == {[on |-> FALSE, period |-> "day", min |-> 8000],
               [on |-> TRUE, period |-> "day", min |-> 8000],
               [on |-> TRUE, period |-> "week", min |-> 6000]}
=============================================================================
