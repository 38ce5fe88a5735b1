--------------------------- MODULE PlanningContract ---------------------------
(***************************************************************************)
(* What IPlanner::makePlan() promises, whatever the search: it answers     *)
(* once, with a plan that works, or with none when there is none.  A       *)
(* return to the initial state's data may or may not be taken for a new    *)
(* state, so it excuses neither answer.                                    *)
(***************************************************************************)
EXTENDS PlanningProblem

CONSTANTS
  Pending,   \* the call has not returned
  NoPlan     \* the answer is an empty list

VARIABLES
  problem,   \* the arguments of the call
  answer     \* Pending, NoPlan or a plan

ContractInit == problem \in Problem /\ answer = Pending

Answer == /\ answer = Pending
          /\ answer' # Pending
          /\ IF answer' = NoPlan THEN Unsolvable(problem) ELSE Solves(problem, answer')
          /\ UNCHANGED problem

ContractSpec == ContractInit /\ [][Answer]_<<problem, answer>>
=============================================================================
