--------------------------------- MODULE Search ---------------------------------
(***************************************************************************)
(* Planner::makePlan(): a search over the states that sequences of actions *)
(* lead to, directed by the cost of the paths waiting in a                 *)
(* PrioritizedQueue.  One step of this specification is one iteration of   *)
(* the search loop.  Path costs are in hundredths.                         *)
(***************************************************************************)
EXTENDS PlanningProblem, SequencesExt

CONSTANTS
  ActionList,   \* _planningActions, in the order gather() tries them
  Problems,     \* the calls considered
  MaxCost,      \* bounds the distance of a state times its cost, which paths add up
  LLONG_MIN, LLONG_MAX, NoPath, Thrown,  \* of PrioritizedQueue
  Pending, NoPlan                        \* of PlanningContract

VARIABLES
  problem,      \* the arguments of the call
  pc,           \* "start", "search", "found" or "failed"
  unvisited,    \* unvisitedPaths_: the frontier
  path,         \* the path popped last, null once it was reset
  visited,      \* visitedStates
  minDistance,  \* the least distance a landmark was put for
  plan,         \* actionsArray, an empty list when the call is made
  states        \* *pStates, an empty list when the call is made

vars == <<problem, pc, unvisited, path, visited, minDistance, plan, states>>

\* Path: its actions from the root stand for the chain of its parents.
Path == [actions : Seq(Actions), cost : Int]
Root == [actions |-> <<>>, cost |-> 0]
PathCost(p) == p.cost

Frontier == INSTANCE PrioritizedQueue
              WITH Paths <- Path, Cost <- PathCost, UnitsPerCent <- 1,
                   pq <- unvisited, ret <- path

ASSUME ActionsAssumption == /\ ActionList \in Seq(Actions) /\ IsFiniteSet(Actions)
                            /\ \A a \in Actions : \E n \in DOMAIN ActionList : ActionList[n] = a

ASSUME ProblemsAssumption ==
  /\ Problems \subseteq Problem
  /\ \A w \in Problems, d \in Data, a \in Actions :
       w.step[d][a] # Inexecutable =>
         w.distance[w.step[d][a].data] * w.step[d][a].cost \in (-MaxCost) .. MaxCost

\* A path whose states differ is not longer than there are states, so that its cost
\* stays below what 64 bits hold: nothing else keeps pop() from failing.
MostStates == 1 + Cardinality(Data) * Cardinality(Actions)

ASSUME KeysAssumption ==
  /\ {LLONG_MIN, LLONG_MAX} \subseteq Int /\ MaxCost \in Nat
  /\ LLONG_MIN < -(1001 + (4 + MostStates) * MaxCost)
  /\ LLONG_MAX > 1001 + (4 + MostStates) * MaxCost

ASSUME NullAssumption == NoPath \notin Path /\ Thrown \notin Path \cup {NoPath}
ASSUME AnswersAssumption == Pending # NoPlan /\ {Pending, NoPlan} \cap Seq(Actions) = {}
-----------------------------------------------------------------------------
\* A state nearer to the goal than any before, in the eyes of a monotonic meter.
IsLandmark(w, min, s) == w.monotonic /\ min > w.distance[s.data]

DeadEnd(w, from) == \A n \in DOMAIN ActionList : ~ CanExecute(w, from, ActionList[n])

\* The cost gather() gives a path to state s: 4 * distance - pathCost - 10 on top
\* of the parent's for a landmark, distance * cost for any other.
ChildCost(w, min, parentCost, s) ==
  LET distance == w.distance[s.data] * s.cost
  IN  parentCost + IF IsLandmark(w, min, s) THEN 4 * distance - parentCost - 1000
                                            ELSE distance

\* Fault: the first action that cannot be executed ends the loop.
GatheredUntil(w, queue, parent, from, min) ==
  LET tried == {n \in DOMAIN ActionList :
                  \A m \in 1 .. n : CanExecute(w, from, ActionList[m])}
      added == [n \in 1 .. Cardinality(tried) |->
                  LET s == Execute(w, from, ActionList[n])
                  IN  [actions |-> Append(parent.actions, ActionList[n]),
                       cost    |-> ChildCost(w, min, parent.cost, s)]]
  IN  [unvisited |-> [queue EXCEPT !.lazy = @ \o added], minDistance |-> min]

\* Fault: the loop ends before the last action.
GatheredButLast(w, queue, parent, from, min) ==
  LET children == [n \in 1 .. Len(ActionList) - 1 |->
                     [actions |-> Append(parent.actions, ActionList[n]),
                      cost    |-> IF CanExecute(w, from, ActionList[n])
                                  THEN ChildCost(w, min, parent.cost,
                                                 Execute(w, from, ActionList[n]))
                                  ELSE LLONG_MAX]]
  IN  [unvisited   |-> [queue EXCEPT !.lazy =
                          @ \o SelectSeq(children, LAMBDA p : p.cost < LLONG_MAX)],
       minDistance |-> min]

\* gather(): every executable action adds a path, lazily.  The comparison is with
\* the least distance before the loop; the last landmark's distance is kept.
Gathered(w, queue, parent, from, min) ==
  LET after[n \in 0 .. Len(ActionList)] ==
        IF n = 0 THEN [unvisited |-> queue, minDistance |-> min]
        ELSE LET sofar == after[n - 1]
                 a     == ActionList[n]
                 s     == Execute(w, from, a)
             IN  IF ~ CanExecute(w, from, a) THEN sofar
                 ELSE [unvisited   |-> Frontier!PushedLazy(sofar.unvisited,
                                         [actions |-> Append(parent.actions, a),
                                          cost    |-> ChildCost(w, min, parent.cost, s)]),
                       minDistance |-> IF IsLandmark(w, min, s)
                                       THEN w.distance[s.data] ELSE sofar.minDistance]
  IN  after[Len(ActionList)]

\* visitedStates.find(): equality ignores the cost of a state but its hash does
\* not.  A state is found for sure if it is there with its cost; with another
\* cost, that depends on whether the container compares the hashes.
FindOutcomes(s) ==
  {hit \in BOOLEAN : /\ hit => \E v \in visited : v.data = s.data
                     /\ ~ hit => s \notin visited}
-----------------------------------------------------------------------------
Init == /\ problem \in Problems
        /\ pc = "start"
        /\ unvisited \in {Frontier!NewQueue(m) : m \in Frontier!Methods}
        /\ path = NoPath
        /\ visited = {}
        /\ minDistance = 10
        /\ plan = <<>>
        /\ states = <<>>

\* The first gathering, from the initial state.
Begin == LET g == Gathered(problem, unvisited, Root, problem.start, minDistance)
         IN  /\ pc = "start"
             /\ pc' = "search"
             /\ visited' = {problem.start}
             /\ unvisited' = g.unvisited
             /\ minDistance' = g.minDistance
             /\ UNCHANGED <<problem, path, plan, states>>

\* executeFromRoot(): the state a path leads to.
EndOf(p) == StateAfter(problem, p.actions)

\* One iteration takes a path and looks for its last state in visitedStates.
Take(p, hit) ==
  /\ pc = "search"
  /\ ~ Frontier!IsEmpty(unvisited)
  /\ p = Frontier!Popped(unvisited).value
  /\ hit \in FindOutcomes(EndOf(p))

\* Fault: the rejected path goes back to the frontier.
RejectKeeping == LET r == Frontier!Popped(unvisited)
                 IN  /\ Take(r.value, TRUE)
                     /\ unvisited' = Frontier!PushedLazy(r.pq, r.value)
                     /\ path' = NoPath
                     /\ UNCHANGED <<problem, pc, visited, minDistance, plan, states>>

\* The state was visited: the path is dropped.
Reject == LET r == Frontier!Popped(unvisited)
          IN  /\ Take(r.value, TRUE)
              /\ unvisited' = r.pq
              /\ path' = NoPath
              /\ UNCHANGED <<problem, pc, visited, minDistance, plan, states>>

\* A path p leads to a good state: the search ends with a plan and its states.
Answer(p, planned, passed) ==
  /\ Take(p, FALSE)
  /\ EndOf(p).data \in problem.enough
  /\ pc' = "found"
  /\ unvisited' = Frontier!Popped(unvisited).pq
  /\ path' = NoPath
  /\ plan' = planned
  /\ states' = passed
  /\ UNCHANGED <<problem, visited, minDistance>>

\* The states of a path, without the initial one.
Passed(p) == [n \in DOMAIN p.actions |-> Trajectory(problem, p.actions)[n]]

\* Faults: the plan is listed from the goal to the root; the states are; the walk to
\* the root goes one path too far.
ReachBackwards ==
  LET p == Frontier!Popped(unvisited).value IN Answer(p, Reverse(p.actions), Passed(p))
ReachBackwardStates ==
  LET p == Frontier!Popped(unvisited).value IN Answer(p, p.actions, Reverse(Passed(p)))
ReachPastRoot ==
  LET p == Frontier!Popped(unvisited).value
  IN  Answer(p, <<NoPath>> \o p.actions, Passed(p))

\* The state is good enough: getActions() and getStates() fill the answer.
Reach == LET p == Frontier!Popped(unvisited).value
         IN  Answer(p, p.actions \o plan, Passed(p) \o states)

\* A new state: it is marked as visited and its successors are gathered.  A path
\* without children is dropped.
Expand == LET r == Frontier!Popped(unvisited)
              p == r.value
              s == EndOf(p)
              g == Gathered(problem, r.pq, p, s, minDistance)
          IN  /\ Take(p, FALSE)
              /\ s.data \notin problem.enough
              /\ visited' = visited \cup {s}
              /\ unvisited' = g.unvisited
              /\ minDistance' = g.minDistance
              /\ path' = IF DeadEnd(problem, s) THEN NoPath ELSE p
              /\ UNCHANGED <<problem, pc, plan, states>>

\* No path is left: the answer is the empty list.
Exhaust == /\ pc = "search"
           /\ Frontier!IsEmpty(unvisited)
           /\ pc' = "failed"
           /\ plan' = <<>>
           /\ UNCHANGED <<problem, unvisited, path, visited, minDistance, states>>

Next == Begin \/ Reject \/ Reach \/ Expand \/ Exhaust

Spec == Init /\ [][Next]_vars

Busy == pc \in {"start", "search"}

\* The calling thread runs the loop until it returns.  This is WF_vars(Next), where
\* Next is enabled exactly when the call is busy: said so, TLC need not evaluate
\* ENABLED Next, which takes it very long.
FairSpec == Spec /\ ([]<>~ Busy \/ []<><<Next>>_vars)
-----------------------------------------------------------------------------
(***************************************************************************)
(* Properties.                                                             *)
(***************************************************************************)
\* The type of the local variables of the call.
TypeOK == /\ pc \in {"start", "search", "found", "failed"}
          /\ unvisited.lazy \in Seq(Path)
          /\ \A k \in DOMAIN unvisited.queues : unvisited.queues[k] \in Seq(Path)
          /\ path \in Path \cup {NoPath}
          /\ visited \in SUBSET State
          /\ minDistance \in Int
          /\ plan \in Seq(Actions)
          /\ states \in Seq(State)

\* The search forgets nothing: whatever can be done in an analysed state was
\* analysed too or is still waiting in the frontier, and no analysed state but
\* the initial one is good enough.  An answer "no plan" rests on this.
FrontierComplete ==
  pc \in {"search", "failed"} =>
    /\ \A v \in visited, a \in Actions :
         CanExecute(problem, v, a) =>
           Execute(problem, v, a).data \in
             {u.data : u \in visited \cup {EndOf(p) : p \in Frontier!Held(unvisited)}}
    /\ \A v \in visited : v.data \in problem.enough => v = problem.start

\* The states handed to the caller are the ones the plan leads through, and none
\* of them, nor the initial state, is passed twice with one cost.
StatesMatchPlan ==
  pc = "found" =>
    /\ Len(states) = Len(plan)
    /\ \A n \in DOMAIN plan : states[n] = Trajectory(problem, plan)[n]
    /\ \A m, n \in 0 .. Len(plan) :
         m # n => Trajectory(problem, plan)[m] # Trajectory(problem, plan)[n]

\* Nothing but the goal distinguishes the states: no landmarks, one cost, and a
\* meter that tells at most a good state from the others.
Blind(w) ==
  /\ ~ w.monotonic /\ w.start.cost > 0
  /\ \E near, far \in {w.distance[d] : d \in Data} :
       /\ 0 <= near /\ near <= far /\ 0 < far
       /\ \A d \in Data : w.distance[d] = IF d \in w.enough THEN near ELSE far
  /\ \A d \in Data, a \in Actions :
       w.step[d][a] = Inexecutable \/ w.step[d][a].cost = w.start.cost

\* With a blind meter the lazy insertion makes either method search level by level:
\* no other plan is shorter, which tst_goap.cpp takes for granted of the towers of
\* Hanoi.
ShortestPlan ==
  pc = "found" /\ Blind(problem) =>
    \A n \in 1 .. Len(plan) - 1 :
      Reached(problem)[n] \cap problem.enough \subseteq {problem.start.data}

\* "Mark the state as visited so we don't reanalyse it while searching other
\* paths" (planner.cpp:169).
NoStateAnalysedTwice == \A u, v \in visited : u.data = v.data => u = v

\* makePlan() does what its interface promises.
Contract == INSTANCE PlanningContract
              WITH answer <- CASE pc = "found"  -> plan
                               [] pc = "failed" -> NoPlan
                               [] OTHER         -> Pending
MakePlanContract == Contract!ContractSpec

\* The call returns, although a state may be analysed more than once.
Terminates == <>~ Busy
=============================================================================
