------------------------------- MODULE PlanCache -------------------------------
(***************************************************************************)
(* Planner::makePlanCached(): plans that makePlan() found are kept in an   *)
(* unordered_map from goal states to lists of StatesPlan, and a later call *)
(* takes the plan stored for the nearest initial state, if it works.       *)
(*                                                                         *)
(* makePlan() is represented by what PlanningContract says of its answers. *)
(***************************************************************************)
EXTENDS PlanningProblem, SequencesExt

CONSTANTS
  Worlds,           \* what the actions do: the values of a Problem's step
  Calls,            \* the calls considered: [start, goal : State, enough : SUBSET Data]
  ActionSets,       \* the lists of actions a client configures
  Meets(_, _),      \* Meets(d, g): NumericStateComparer::enough()
  Distance(_, _),   \* NumericStateComparer::distance(), in tenths
  MaxLength,        \* bound: the longest plan makePlan() answers with
  MaxPlans          \* bound: how many plans are kept at most

VARIABLES
  world,            \* what the actions do, fixed
  planningActions,  \* _planningActions
  cache,            \* _statesCaches
  answer            \* the last call and its result

vars == <<world, planningActions, cache, answer>>

ASSUME WorldsAssumption ==
  /\ Worlds \subseteq [Data -> [Actions -> State \cup {Inexecutable}]]
  /\ ActionSets \subseteq SUBSET Actions
  /\ MaxLength \in Nat

\* The meters of the calls agree with the comparer.
ASSUME CallsAssumption ==
  \A c \in Calls : /\ {c.start, c.goal} \subseteq State
                   /\ \A d \in c.enough : Meets(d, c.goal.data)

ASSUME DistanceAssumption ==
  \A d, e \in Data : Distance(d, e) \in Nat /\ Distance(d, d) = 0

Goals      == {c.goal : c \in Calls}
StatesPlan == [states : Seq(State), plan : Seq(Actions)]
NoAnswer   == [from |-> "nowhere", plan |-> <<>>]

\* The problem that call c poses to a planner with actions A.
Posed(c, A) ==
  [start     |-> c.start,
   step      |-> [d \in Data |-> [a \in Actions |->
                    IF a \in A THEN world[d][a] ELSE Inexecutable]],
   distance  |-> [d \in Data |-> 0],
   enough    |-> c.enough,
   monotonic |-> FALSE]

\* makePlan(): some plan that works, or none.
Answers(w) ==
  {p \in UNION {[1 .. n -> Actions] : n \in 1 .. MaxLength} : Solves(w, p)}
    \cup IF Unsolvable(w) THEN {<<>>} ELSE {}
-----------------------------------------------------------------------------
(***************************************************************************)
(* The map.  A key keeps the place its hash had when it was inserted.      *)
(***************************************************************************)
\* The entry operator[] finds for goal g, or inserts: equality ignores the cost of
\* a state but its hash does not, so an entry of another cost may be found only by
\* a container that does not compare the hashes.
Slots(map, g) == {k \in DOMAIN map : k.data = g.data}
                   \cup IF g \in DOMAIN map THEN {} ELSE {g}

Stored(map, k) == IF k \in DOMAIN map THEN map[k] ELSE <<>>
WithEntry(map, k, list) ==
  [j \in DOMAIN map \cup {k} |-> IF j = k THEN list ELSE map[j]]

\* cacheStates()
Kept(map, k, sp) == WithEntry(map, k, Append(Stored(map, k), sp))

\* executeActions(): stops at the first action that cannot be executed.
Executed(w, plan) ==
  LET ran[n \in 0 .. Len(plan)] ==
        IF n = 0 THEN [state |-> w.start, stopped |-> FALSE]
        ELSE IF ran[n - 1].stopped \/ ~ CanExecute(w, ran[n - 1].state, plan[n])
        THEN [state |-> ran[n - 1].state, stopped |-> TRUE]
        ELSE [state |-> Execute(w, ran[n - 1].state, plan[n]), stopped |-> FALSE]
  IN  ran[Len(plan)].state

\* Fault: the first plan nearer than 1 is taken.
NearestFirst(list, d) ==
  {i \in DOMAIN list : \A j \in 1 .. i : Distance(list[j].states[1].data, d) < 10 <=> j = i}

\* The first of the plans whose initial state is nearest to d, nearer than 1: the
\* loop over the states of a plan ends at the first one.
Nearest(list, d) ==
  LET far(i) == Distance(list[i].states[1].data, d)
  IN  {i \in DOMAIN list : /\ far(i) < 10
                           /\ \A j \in DOMAIN list : far(i) <= far(j)
                           /\ \A j \in 1 .. i - 1 : far(i) < far(j)}

\* findPlan(): the nearest plan, if executing it leads to the goal.
FindPlan(list, c) ==
  LET plans == {list[i].plan : i \in Nearest(list, c.start.data)}
  IN  {p \in plans : Meets(Executed(Posed(c, Actions), p).data, c.goal.data)}
-----------------------------------------------------------------------------
Init == /\ world \in Worlds
        /\ planningActions \in ActionSets
        /\ cache = [k \in {} |-> <<>>]
        /\ answer = NoAnswer

PlansKept == FoldFunction(LAMBDA list, n : n + Len(list), 0, cache)

Result(c, from, plan) == [call |-> c, from |-> from, plan |-> plan]

\* The answer comes from the cache.
Hit(c, k) ==
  \E p \in FindPlan(Stored(cache, k), c) :
    /\ answer' = Result(c, "cache", p)
    /\ UNCHANGED cache

\* Fault: the initial state is not put in front.
StatesKeptFrom(c, w, p) ==
  [n \in 1 .. Len(p) |-> IF n = Len(p) THEN [c.goal EXCEPT !.cost = StateAfter(w, p).cost]
                                       ELSE Trajectory(w, p)[n]]

\* What cacheStates() receives: the goal, with the cost of the state reached, takes
\* the place of that state, and the initial state is put in front.
StatesKept(c, w, p) ==
  <<c.start>> \o [n \in 1 .. Len(p) - 1 |-> Trajectory(w, p)[n]]
              \o <<[c.goal EXCEPT !.cost = StateAfter(w, p).cost]>>

\* It comes from a search, and a plan found is kept.  The caller gives no pStates.
Fill(c, k) ==
  LET w   == Posed(c, planningActions)
      map == WithEntry(cache, k, Stored(cache, k))
  IN  /\ FindPlan(Stored(cache, k), c) = {}
      /\ \E p \in Answers(w) :
           \/ /\ p = <<>>
              /\ cache' = map
              /\ answer' = Result(c, "search", p)
           \/ /\ p # <<>> /\ PlansKept < MaxPlans
              /\ LET states == StatesKept(c, w, p)
                 IN  \E goal \in Slots(map, Last(states)) :
                       cache' = Kept(map, goal, [states |-> states, plan |-> p])
              /\ answer' = Result(c, "search", p)

MakePlanCached(c) ==
  /\ \E k \in Slots(cache, c.goal) : Hit(c, k) \/ Fill(c, k)
  /\ UNCHANGED <<world, planningActions>>

\* findPlan() called by a client with an empty list.  The lookup leaves an entry.
Find(c) ==
  /\ \E k \in Slots(cache, c.goal) :
       LET found == FindPlan(Stored(cache, k), c) IN
         /\ cache' = WithEntry(cache, k, Stored(cache, k))
         /\ \E p \in IF found = {} THEN {<<>>} ELSE found : answer' = Result(c, "cache", p)
  /\ UNCHANGED <<world, planningActions>>

\* cacheStates() called by a client, with a plan of makePlan() and its states: "The
\* last element of 'states' is its goal" (planner.h:87).
CacheStates(c) ==
  /\ PlansKept < MaxPlans
  /\ LET w == Posed(c, planningActions) IN
       \E p \in Answers(w) \ {<<>>} :
         LET states == StatesKept(c, w, p) IN
           \E goal \in Slots(cache, Last(states)) :
             cache' = Kept(cache, goal, [states |-> states, plan |-> p])
  /\ answer' = NoAnswer
  /\ UNCHANGED <<world, planningActions>>

\* Fault: a null action stays in the list.
SetPlanningActionsAndNull(A) ==
  /\ planningActions' = A \cup {Inexecutable}
  /\ answer' = NoAnswer
  /\ UNCHANGED <<world, cache>>

\* planningActions(): the cache stays.
SetPlanningActions(A) ==
  /\ planningActions' = A
  /\ answer' = NoAnswer
  /\ UNCHANGED <<world, cache>>

\* clear(): it stays as well.
Clear ==
  /\ planningActions' = {}
  /\ answer' = NoAnswer
  /\ UNCHANGED <<world, cache>>

Next == \/ \E c \in Calls : MakePlanCached(c) \/ Find(c) \/ CacheStates(c)
        \/ \E A \in ActionSets : SetPlanningActions(A)
        \/ Clear

Spec == Init /\ [][Next]_vars
-----------------------------------------------------------------------------
(***************************************************************************)
(* Properties.                                                             *)
(***************************************************************************)
TypeOK == /\ world \in Worlds
          /\ planningActions \in SUBSET Actions
          /\ DOMAIN cache \in SUBSET State
          /\ \A k \in DOMAIN cache : cache[k] \in Seq(StatesPlan)
          /\ answer.from \in {"nowhere", "cache", "search"}
          /\ answer.plan \in Seq(Actions)

\* A kept plan works from the first of its states, through the states kept with it,
\* to a state that meets the goal it is kept under, however the planner was
\* reconfigured since.  The meters of the calls agree with the comparer.
KeptPlansWork ==
  \A k \in DOMAIN cache : \A i \in DOMAIN cache[k] :
    LET sp == cache[k][i]
        w  == Posed([start |-> sp.states[1], enough |-> {}], Actions)
    IN  /\ Len(sp.states) = Len(sp.plan) + 1
        /\ \A n \in DOMAIN sp.plan :
             /\ CanExecute(w, Trajectory(w, sp.plan)[n - 1], sp.plan[n])
             /\ n < Len(sp.plan) => sp.states[n + 1] = Trajectory(w, sp.plan)[n]
        /\ Meets(StateAfter(w, sp.plan).data, k.data)

\* A plan kept for the goal of call c that passes through its initial state as one
\* of its first n states.
PassesBy(c, n) ==
  \E k \in DOMAIN cache : \E i \in DOMAIN cache[k] :
    /\ k.data = c.goal.data
    /\ \E m \in 1 .. Len(cache[k][i].plan) :
         m <= n /\ cache[k][i].states[m].data = c.start.data

\* A call repeated for the same initial state and goal is served from the cache:
\* "Finds a plan in the cached data" (planner.h:94).
RepeatsAreServed ==
  [][answer'.from = "search" => ~ PassesBy(answer'.call, 1)]_vars

\* "Copy the necessary portion of actions array" (planner.cpp:298): a call is
\* served by the rest of a plan that passes through its initial state.
RestsAreServed ==
  [][answer'.from = "search" => ~ PassesBy(answer'.call, MaxLength)]_vars

AllExecutable(w, plan) ==
  \A n \in DOMAIN plan : /\ Trajectory(w, plan)[n - 1] # Inexecutable
                         /\ CanExecute(w, Trajectory(w, plan)[n - 1], plan[n])

\* findPlan() takes the nearest plan of the list and lets executeActions() stop where
\* an action cannot be executed (planner.cpp:56, :277-292).  Where the list has a plan
\* that starts in the initial state of the call, none that is only near may be taken
\* for it: all the actions of the answer can be executed and they lead to the goal,
\* whatever else is kept and however the planner was reconfigured since.
ExactAnswersWork ==
  answer.from = "cache" /\ answer.plan # <<>> /\ PassesBy(answer.call, 1) =>
    LET w == Posed(answer.call, Actions)
    IN  /\ AllExecutable(w, answer.plan)
        /\ Meets(StateAfter(w, answer.plan).data, answer.call.goal.data)

\* "Test if the found plan is valid" (planner.cpp:305): the actions of an answer can
\* all be executed in their turn.
AnswerIsValid ==
  answer.plan # <<>> => AllExecutable(Posed(answer.call, Actions), answer.plan)
=============================================================================
