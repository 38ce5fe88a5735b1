------------------------------ MODULE MCPlanCache ------------------------------
(***************************************************************************)
(* PlanCache for TLC.                                                      *)
(***************************************************************************)
EXTENDS PlanCache

MCData    == 1 .. 4
MCActions == {"a", "b"}

\* Data 1 to 4 are the values of the one number of a state.  Goal d asks for it.
MCMeets(d, g)    == d = g
MCDistance(d, e) == IF d > e THEN (10 * (d - e)) \div d ELSE (10 * (e - d)) \div e

State1(d, cost) == [data |-> d, cost |-> cost]

\* Action a advances by one; b goes back to the start from the last state and
\* anywhere else from the others.
Walk(cost) ==
  {[d \in MCData |-> IF d = 4 THEN [a |-> Inexecutable, b |-> State1(1, cost)]
                     ELSE [a |-> State1(d + 1, cost), b |-> t[d]]] :
     t \in [1 .. 3 -> {Inexecutable} \cup [data : {1, 3, 4}, cost : {cost}]]}

\* Calls whose meters agree with the comparer.
CallsFor(cost) ==
  {[start |-> State1(d, 10), goal |-> State1(g, cost), enough |-> {g}] :
     d \in 1 .. 3, g \in 3 .. 4}

UniformWorlds == Walk(10)
MCCalls       == CallsFor(10)
MCActionSets  == {{"a"}, {"a", "b"}}
=============================================================================
