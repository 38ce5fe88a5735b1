---------------------------- MODULE PlanningProblem ----------------------------
(***************************************************************************)
(* What the planner is given: an initial state, the actions it may take,   *)
(* and a meter of the states.  Two states are equal when their data are    *)
(* (State::equals); the cost a state also carries is not compared.         *)
(*                                                                         *)
(* The clients' functions (validators and executors of the actions,        *)
(* distance and enough of the meter) are deterministic and read the data   *)
(* only.  Costs and distances are in tenths.                               *)
(***************************************************************************)
EXTENDS Integers, Sequences, FiniteSets

CONSTANTS
  Data,         \* what a state can contain
  Actions,      \* the planning actions
  Inexecutable  \* no successor: canExecute() is false, or a client function throws

ASSUME DataAssumption == IsFiniteSet(Data) /\ Inexecutable \notin [data : Data, cost : Int]

State == [data : Data, cost : Int]

\* One problem: step[d][a] is the state action a leads to from data d.
Problem == [start     : State,
            step      : [Data -> [Actions -> State \cup {Inexecutable}]],
            distance  : [Data -> Int],
            enough    : SUBSET Data,
            monotonic : BOOLEAN]

\* PlanningAction::canExecute() and execute(): the successor does not depend on
\* the cost of the state, which execute() resets.
CanExecute(w, s, a) == w.step[s.data][a] # Inexecutable
Execute(w, s, a)    == w.step[s.data][a]

\* The states a list of actions leads through, the initial one first.
Trajectory(w, actions) ==
  LET after[n \in 0 .. Len(actions)] ==
        IF n = 0 THEN w.start ELSE Execute(w, after[n - 1], actions[n])
  IN  after

StateAfter(w, actions) == Trajectory(w, actions)[Len(actions)]
-----------------------------------------------------------------------------
(***************************************************************************)
(* The reference: plans and reachability, independent of any search.       *)
(***************************************************************************)
\* Every action of the plan can be executed in its turn and the last state is
\* good enough.
Solves(w, plan) ==
  /\ plan # <<>>
  /\ \A n \in 1 .. Len(plan) :
       /\ Trajectory(w, plan)[n - 1] # Inexecutable
       /\ CanExecute(w, Trajectory(w, plan)[n - 1], plan[n])
  /\ StateAfter(w, plan).data \in w.enough

Successors(w, D) ==
  {w.step[da[1]][da[2]].data :
     da \in {ea \in D \X Actions : w.step[ea[1]][ea[2]] # Inexecutable}}

\* Reached(w)[n]: the data of the states that exactly n actions lead to.
Reached(w) ==
  LET level[n \in 0 .. Cardinality(Data)] ==
        IF n = 0 THEN {w.start.data} ELSE Successors(w, level[n - 1])
  IN  level

\* No sequence of actions leads to a good state other than the initial one.
Unsolvable(w) ==
  \A n \in 1 .. Cardinality(Data) : Reached(w)[n] \cap w.enough \subseteq {w.start.data}
=============================================================================
