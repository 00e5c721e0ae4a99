---------------------------- MODULE MCDataLimiter ----------------------------
(* Instances of DataLimiter for TLC. *)
EXTENDS DataLimiter

\* A plan without a limit, and one that ends its period on the given day with
\* a budget of mb megabytes.
NoPlan(day) == [Date |-> day, Defined |-> FALSE, Limit |-> 0]
Plan(day, mb) == [Date |-> day, Defined |-> TRUE, Limit |-> mb]

\* The plan is withdrawn, shrinks and grows, and the day of its period end moves.
ChangingPlan == {NoPlan(0), Plan(0, 1), Plan(1, 2)}

\* The plan never changes: every poll answers the same.
SamePlan == {Plan(0, 1)}
=============================================================================
