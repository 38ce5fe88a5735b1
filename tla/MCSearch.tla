-------------------------------- MODULE MCSearch --------------------------------
(***************************************************************************)
(* Search for TLC: families of small problems.                             *)
(***************************************************************************)
EXTENDS Search

MCData    == 1 .. 4
MCActions == {"a", "b"}
MCList    == <<"a", "b">>
MCMin     == -100000
Goal      == 4

To(D, cost) == [data : D, cost : {cost}] \cup {Inexecutable}

\* Every table of steps out of three states; actions a and b cost ca and cb.
Tables(ca, cb) ==
  {[d \in MCData |-> IF d = Goal THEN [x \in MCActions |-> Inexecutable] ELSE t[d]] :
     t \in [1 .. 3 -> {[a |-> s, b |-> u] : s \in To(MCData, ca), u \in To(MCData, cb)}]}

Family(tables, distances, goals, monotonic) ==
  [start : {[data |-> 1, cost |-> 10]}, step : tables, distance : distances,
   enough : goals, monotonic : {monotonic}]

Goals == {{Goal}, {1, Goal}}   \* the initial state may already be good

\* Actions of different costs, as in backing_a_pie.cpp, with a meter that is blind
\* and one that puts landmarks, some of them misleading.
MixedProblems == Family(Tables(10, 20), {<<10, 10, 10, 10>>}, Goals, FALSE)
            \cup Family(Tables(10, 20), {<<9, 4, 6, 0>>}, Goals, TRUE)

\* Actions of the cost execute() sets, and meters that tell at most the goal.
BlindProblems ==
  Family(Tables(10, 10), {<<10, 10, 10, 0>>}, {{Goal}}, FALSE)

MCProblems == MixedProblems \cup BlindProblems
=============================================================================
