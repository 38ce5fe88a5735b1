---------------------------- MODULE PlanCacheProofs ----------------------------
(***************************************************************************)
(* What Planner keeps in its cache of plans and what it answers from it,   *)
(* for any worlds, calls, lists of actions and distances.                  *)
(***************************************************************************)
EXTENDS PlanCache, PlanningProblemProofs

-----------------------------------------------------------------------------
(***************************************************************************)
(* The recursive function by which executeActions() is modelled exists and *)
(* obeys its equation.                                                     *)
(***************************************************************************)
\* One iteration of executeActions().
Ran(w, r, a) ==
  IF r.stopped \/ ~ CanExecute(w, r.state, a)
    THEN [state |-> r.state, stopped |-> TRUE]
    ELSE [state |-> Execute(w, r.state, a), stopped |-> FALSE]

RanStep(w, plan, f, n) ==
  f = [i \in 0 .. n |-> IF i = 0 THEN [state |-> w.start, stopped |-> FALSE]
                        ELSE Ran(w, f[i - 1], plan[i])]

\* Some function obeys the recursive equation of Executed.
LEMMA RanExists ==
  ASSUME NEW w, NEW plan, NEW N \in Nat
  PROVE  \E f : RanStep(w, plan, f, N)
<1> DEFINE S == {n \in Nat : \E f : RanStep(w, plan, f, n)}
           first == [state |-> w.start, stopped |-> FALSE]
<1>1. 0 \in S
  <2>1. RanStep(w, plan, [i \in 0 .. 0 |-> first], 0)
    BY DEF RanStep
  <2> QED
    BY <2>1
<1>2. ASSUME NEW n \in 0 .. N - 1, n \in S PROVE n + 1 \in S
  <2>1. PICK f : RanStep(w, plan, f, n)
    BY <1>2
  <2>2. n \in Nat /\ n + 1 \in Nat /\ (n + 1) - 1 = n
    BY <1>2
  <2> DEFINE g == [i \in 0 .. n + 1 |->
                     IF i = n + 1 THEN Ran(w, f[n], plan[n + 1]) ELSE f[i]]
  <2>3. \A i \in 0 .. n : g[i] = f[i]
    BY <2>2
  <2>4. \A i \in 0 .. n : f[i] = IF i = 0 THEN first ELSE Ran(w, f[i - 1], plan[i])
    BY <2>1 DEF RanStep
  <2>5. g[n + 1] = Ran(w, f[n], plan[n + 1])
    BY <2>2
  <2>6. g = [i \in 0 .. n + 1 |-> g[i]]
    OBVIOUS
  <2> HIDE DEF g
  <2>7. \A i \in 0 .. n + 1 : g[i] = IF i = 0 THEN first ELSE Ran(w, g[i - 1], plan[i])
    <3> TAKE i \in 0 .. n + 1
    <3>1. CASE i = n + 1
      BY <2>2, <2>3, <2>5, <3>1
    <3>2. CASE i # n + 1
      <4>1. i \in 0 .. n /\ (i # 0 => i - 1 \in 0 .. n)
        BY <2>2, <3>2
      <4> QED
        BY <2>3, <2>4, <4>1
    <3> QED
      BY <3>1, <3>2
  <2>8. RanStep(w, plan, g, n + 1)
    BY <2>6, <2>7 DEF RanStep
  <2> QED
    BY <2>2, <2>8
<1> HIDE DEF S
<1>3. \A n \in 0 .. N : n \in S
  BY <1>1, <1>2, UpTo
<1> QED
  BY <1>3 DEF S

\* executeActions() is the last of a sequence of such iterations.
LEMMA ExecutedDef ==
  ASSUME NEW w, NEW plan \in Seq(Actions)
  PROVE  \E ran : /\ Executed(w, plan) = ran[Len(plan)].state
                  /\ ran[0] = [state |-> w.start, stopped |-> FALSE]
                  /\ \A n \in 1 .. Len(plan) : ran[n] = Ran(w, ran[n - 1], plan[n])
<1>1. Len(plan) \in Nat
  OBVIOUS
<1>2. PICK ran : /\ ran = CHOOSE f : RanStep(w, plan, f, Len(plan))
                 /\ Executed(w, plan) = ran[Len(plan)].state
  BY DEF Executed, RanStep, Ran
<1>3. RanStep(w, plan, ran, Len(plan))
  BY <1>1, <1>2, RanExists
<1> PICK first : first = [state |-> w.start, stopped |-> FALSE]
  OBVIOUS
<1>4. \A n \in 0 .. Len(plan) :
        ran[n] = IF n = 0 THEN first ELSE Ran(w, ran[n - 1], plan[n])
  BY <1>3 DEF RanStep
<1>5. ran[0] = first
  <2>1. 0 \in 0 .. Len(plan)
    BY <1>1
  <2>2. ran[0] = IF 0 = 0 THEN first ELSE Ran(w, ran[0 - 1], plan[0])
    BY <1>4, <2>1, Zenon
  <2> QED
    BY <2>2
<1>6. \A n \in 1 .. Len(plan) : ran[n] = Ran(w, ran[n - 1], plan[n])
  BY <1>1, <1>4
<1> QED
  BY <1>2, <1>5, <1>6
-----------------------------------------------------------------------------
(***************************************************************************)
(* Plans that can be executed.                                             *)
(***************************************************************************)
\* A planner that has at least the actions of another executes the same plans through
\* the same states, from any state with the same data: the cost of the initial state
\* is read nowhere.
LEMMA RunsAlike ==
  ASSUME NEW w, Typed(w), NEW plan \in Seq(Actions), Runs(w, plan),
         NEW v, v.start.data = w.start.data,
         \A d \in Data, a \in Actions :
           w.step[d][a] # Inexecutable => v.step[d][a] = w.step[d][a]
  PROVE  /\ Runs(v, plan)
         /\ Trajectory(v, plan)[0] = v.start
         /\ \A n \in 1 .. Len(plan) : Trajectory(v, plan)[n] = Trajectory(w, plan)[n]
         /\ \A n \in 0 .. Len(plan) : Trajectory(v, plan)[n].data = Trajectory(w, plan)[n].data
<1> DEFINE T == Trajectory(w, plan)
           U == Trajectory(v, plan)
           S == {n \in 0 .. Len(plan) : U[n].data = T[n].data}
<1>1. Len(plan) \in Nat
  OBVIOUS
<1>2. 0 \in S
  BY <1>1, TrajectoryDef
<1>3. ASSUME NEW n \in 0 .. Len(plan) - 1, n \in S
      PROVE  /\ U[n + 1] = T[n + 1]
             /\ CanExecute(v, U[n], plan[n + 1])
  <2>1. n + 1 \in 1 .. Len(plan) /\ (n + 1) - 1 = n /\ plan[n + 1] \in Actions
    BY <1>1
  <2>2. /\ T[n + 1] = w.step[T[n].data][plan[n + 1]]
        /\ w.step[T[n].data][plan[n + 1]] # Inexecutable
        /\ U[n + 1] = v.step[U[n].data][plan[n + 1]]
    BY <2>1, TrajectoryDef DEF Runs, CanExecute, Execute
  <2>3. T[n] \in State /\ U[n].data = T[n].data
    BY <1>3, RunsThroughStates
  <2>4. T[n].data \in Data
    BY <2>3 DEF State
  <2>5. v.step[T[n].data][plan[n + 1]] = w.step[T[n].data][plan[n + 1]]
    BY <2>1, <2>2, <2>4
  <2> QED
    BY <2>2, <2>3, <2>5 DEF CanExecute
<1>4. ASSUME NEW n \in 0 .. Len(plan) - 1, n \in S PROVE n + 1 \in S
  <2>1. n + 1 \in 0 .. Len(plan)
    BY <1>1
  <2> QED
    BY <1>3, <1>4, <2>1
<1>5. \A n \in 0 .. Len(plan) : n \in S
  <2> HIDE DEF S
  <2> QED
    BY <1>1, <1>2, <1>4, UpTo
<1>6. \A n \in 0 .. Len(plan) - 1 :
        U[n + 1] = T[n + 1] /\ CanExecute(v, U[n], plan[n + 1])
  BY <1>1, <1>3, <1>5
<1>7. \A n \in 1 .. Len(plan) : n - 1 \in 0 .. Len(plan) - 1 /\ (n - 1) + 1 = n
  BY <1>1
<1>8. \A n \in 1 .. Len(plan) : U[n] = T[n] /\ CanExecute(v, U[n - 1], plan[n])
  <2> TAKE n \in 1 .. Len(plan)
  <2> HIDE DEF T, U, S
  <2> QED
    BY <1>6, <1>7
<1>9. U[0] = v.start
  BY TrajectoryDef
<1>10. Runs(v, plan)
  BY <1>8 DEF Runs
<1> QED
  BY <1>5, <1>8, <1>9, <1>10

\* executeActions() goes through to the end of such a plan.
LEMMA RunsToItsEnd ==
  ASSUME NEW w, NEW plan \in Seq(Actions), Runs(w, plan)
  PROVE  Executed(w, plan) = StateAfter(w, plan)
<1> DEFINE T == Trajectory(w, plan)
<1>1. Len(plan) \in Nat
  OBVIOUS
<1>2. PICK ran : /\ Executed(w, plan) = ran[Len(plan)].state
                 /\ ran[0] = [state |-> w.start, stopped |-> FALSE]
                 /\ \A n \in 1 .. Len(plan) : ran[n] = Ran(w, ran[n - 1], plan[n])
  BY ExecutedDef
<1> DEFINE S == {n \in 0 .. Len(plan) : ran[n] = [state |-> T[n], stopped |-> FALSE]}
<1>3. 0 \in S
  <2>1. T[0] = w.start
    BY TrajectoryDef
  <2>2. ran[0] = [state |-> T[0], stopped |-> FALSE]
    BY <1>2, <2>1
  <2> HIDE DEF T
  <2> QED
    BY <1>1, <2>2
<1>4. ASSUME NEW n \in 0 .. Len(plan) - 1, n \in S PROVE n + 1 \in S
  <2>1. n + 1 \in 1 .. Len(plan) /\ (n + 1) - 1 = n /\ n + 1 \in 0 .. Len(plan)
    BY <1>1
  <2>2. T[n + 1] = Execute(w, T[n], plan[n + 1]) /\ CanExecute(w, T[n], plan[n + 1])
    BY <2>1, TrajectoryDef DEF Runs
  <2>3. ran[n + 1] = Ran(w, ran[n], plan[n + 1])
    BY <1>2, <2>1
  <2>4. ran[n].state = T[n] /\ ran[n].stopped = FALSE
    BY <1>4
  <2>5. ran[n + 1] = [state |-> T[n + 1], stopped |-> FALSE]
    BY <2>2, <2>3, <2>4 DEF Ran
  <2> QED
    BY <2>1, <2>5
<1>5. \A n \in 0 .. Len(plan) : n \in S
  <2> HIDE DEF S
  <2> QED
    BY <1>1, <1>3, <1>4, UpTo
<1>6. ran[Len(plan)] = [state |-> T[Len(plan)], stopped |-> FALSE]
  <2>1. Len(plan) \in S
    BY <1>1, <1>5
  <2> QED
    BY <2>1
<1> QED
  BY <1>2, <1>6 DEF StateAfter
-----------------------------------------------------------------------------
(***************************************************************************)
(* The problems that calls pose, and the plans that are kept for them.     *)
(***************************************************************************)
\* The problem of a call, field by field.
LEMMA PosedFacts ==
  ASSUME world \in Worlds, NEW c, c.start \in State, NEW A
  PROVE  /\ Typed(Posed(c, A))
         /\ Posed(c, A).start = c.start
         /\ Posed(c, A).enough = c.enough
         /\ \A d \in Data, a \in Actions :
              Posed(c, A).step[d][a] = IF a \in A THEN world[d][a] ELSE Inexecutable
<1>1. world \in [Data -> [Actions -> State \cup {Inexecutable}]]
  BY WorldsAssumption
<1>2. PICK step : step = [d \in Data |-> [a \in Actions |->
                            IF a \in A THEN world[d][a] ELSE Inexecutable]]
  OBVIOUS
<1>3. step \in [Data -> [Actions -> State \cup {Inexecutable}]]
  <2>1. \A d \in Data, a \in Actions : world[d][a] \in State \cup {Inexecutable}
    BY <1>1
  <2> QED
    BY <1>2, <2>1
<1>4. \A d \in Data, a \in Actions :
        step[d][a] = IF a \in A THEN world[d][a] ELSE Inexecutable
  BY <1>2
<1>5. Posed(c, A).step = step /\ Posed(c, A).start = c.start /\ Posed(c, A).enough = c.enough
  BY <1>2 DEF Posed
<1> QED
  BY <1>3, <1>4, <1>5 DEF Typed

\* What a planner with some actions can do, one with all of them can do as well.
LEMMA PosedToAll ==
  ASSUME world \in Worlds, NEW c, c.start \in State, NEW A, NEW b, b.start \in State
  PROVE  \A d \in Data, a \in Actions :
           Posed(c, A).step[d][a] # Inexecutable =>
             Posed(b, Actions).step[d][a] = Posed(c, A).step[d][a]
BY PosedFacts

\* The world does not change.
LEMMA PosedStill ==
  ASSUME world' = world, NEW c, NEW A
  PROVE  Posed(c, A)' = Posed(c, A)
BY DEF Posed

\* A plan kept with its states, as KeptPlansWork says it for goals with data d.
Works(sp, d) ==
  LET w == Posed([start |-> sp.states[1], enough |-> {}], Actions)
  IN  /\ Len(sp.states) = Len(sp.plan) + 1
      /\ \A n \in DOMAIN sp.plan :
           /\ CanExecute(w, Trajectory(w, sp.plan)[n - 1], sp.plan[n])
           /\ n < Len(sp.plan) => sp.states[n + 1] = Trajectory(w, sp.plan)[n]
      /\ Meets(StateAfter(w, sp.plan).data, d)

\* What a step does to the cache leaves a plan that works working.
LEMMA WorksStill ==
  ASSUME world' = world, NEW sp, NEW d, Works(sp, d)
  PROVE  Works(sp, d)'
<1>1. PICK c : c = [start |-> sp.states[1], enough |-> {}]
  OBVIOUS
<1>2. PICK w : w = Posed(c, Actions)
  OBVIOUS
<1>3. w = Posed(c, Actions)'
  BY <1>2, PosedStill
<1> QED
  BY <1>1, <1>2, <1>3 DEF Works

\* The list of states that cacheStates() receives.
LEMMA StatesKeptFacts ==
  ASSUME NEW c, NEW w, NEW p \in Seq(Actions), Len(p) >= 1,
         c.start \in State, c.goal \in State,
         \A n \in 0 .. Len(p) : Trajectory(w, p)[n] \in State,
         NEW states, states = StatesKept(c, w, p)
  PROVE  /\ states \in Seq(State)
         /\ Len(states) = Len(p) + 1
         /\ states[1] = c.start
         /\ \A n \in 1 .. Len(p) - 1 : states[n + 1] = Trajectory(w, p)[n]
         /\ Last(states) \in State
         /\ Last(states).data = c.goal.data
<1>1. Len(p) \in Nat
  OBVIOUS
<1>2. PICK mid : mid = [n \in 1 .. Len(p) - 1 |-> Trajectory(w, p)[n]]
  OBVIOUS
<1>3. PICK last : last = [c.goal EXCEPT !.cost = StateAfter(w, p).cost]
  OBVIOUS
<1>4. last \in State /\ last.data = c.goal.data
  <2>1. StateAfter(w, p) \in State
    BY <1>1 DEF StateAfter
  <2>2. StateAfter(w, p).cost \in Int
    BY <2>1 DEF State
  <2> QED
    BY <1>3, <2>2 DEF State
<1>5. /\ mid \in Seq(State) /\ Len(mid) = Len(p) - 1
      /\ \A n \in 1 .. Len(p) - 1 : mid[n] = Trajectory(w, p)[n]
  <2>1. Len(p) - 1 \in Nat
    BY <1>1
  <2>2. \A n \in 1 .. Len(p) - 1 : Trajectory(w, p)[n] \in State
    BY <1>1
  <2> QED
    BY <1>2, <2>1, <2>2
<1>6. states = (<<c.start>> \o mid) \o <<last>>
  BY <1>2, <1>3 DEF StatesKept
<1>7. PICK front : front = <<c.start>> \o mid
  OBVIOUS
<1>8. /\ front \in Seq(State) /\ Len(front) = Len(p)
      /\ front[1] = c.start
      /\ \A n \in 1 .. Len(p) - 1 : front[n + 1] = mid[n]
  BY <1>1, <1>5, <1>7
<1>9. /\ states \in Seq(State) /\ Len(states) = Len(p) + 1
      /\ \A n \in 1 .. Len(p) : states[n] = front[n]
      /\ states[Len(p) + 1] = last
  <2>1. states = front \o <<last>> /\ <<last>> \in Seq(State) /\ Len(<<last>>) = 1
    BY <1>4, <1>6, <1>7
  <2>2. PICK end \in Seq(State) : end = <<last>>
    BY <2>1
  <2>3. end[1] = last /\ Len(end) = 1 /\ states = front \o end
    BY <2>1, <2>2
  <2>4. states \in Seq(State) /\ Len(states) = Len(p) + 1
    BY <1>1, <1>8, <2>2, <2>3
  <2>5. \A n \in 1 .. Len(p) : states[n] = front[n]
    BY <1>1, <1>8, <2>2, <2>3
  <2>6. states[Len(p) + 1] = last
    BY <1>1, <1>8, <2>2, <2>3
  <2> QED
    BY <2>4, <2>5, <2>6
<1>10. \A n \in 1 .. Len(p) - 1 : states[n + 1] = Trajectory(w, p)[n]
  <2> TAKE n \in 1 .. Len(p) - 1
  <2>1. n + 1 \in 1 .. Len(p)
    BY <1>1
  <2> QED
    BY <1>5, <1>8, <1>9, <2>1
<1>11. Last(states) = last
  BY <1>9 DEF Last
<1>12. states[1] = c.start
  BY <1>1, <1>8, <1>9
<1> QED
  BY <1>4, <1>9, <1>10, <1>11, <1>12

\* What makePlan() finds works from the initial state of its call, whatever actions the
\* planner has later; so does the plan with the states that are kept with it.
LEMMA AnswersWork ==
  ASSUME world \in Worlds, NEW c \in Calls, NEW A, NEW p \in Answers(Posed(c, A)), p # <<>>,
         NEW states, states = StatesKept(c, Posed(c, A), p)
  PROVE  /\ [states |-> states, plan |-> p] \in StatesPlan
         /\ Last(states) \in State
         /\ Last(states).data = c.goal.data
         /\ Works([states |-> states, plan |-> p], c.goal.data)
<1>1. c.start \in State /\ c.goal \in State /\ \A d \in c.enough : Meets(d, c.goal.data)
  BY CallsAssumption
<1>2. PICK w : w = Posed(c, A)
  OBVIOUS
<1>3. Typed(w) /\ w.start = c.start /\ w.enough = c.enough
  BY <1>1, <1>2, PosedFacts
<1>4. p \in Seq(Actions) /\ Solves(w, p)
  BY <1>2 DEF Answers
<1>5. Len(p) \in Nat /\ Len(p) >= 1 /\ DOMAIN p = 1 .. Len(p)
  BY <1>4
<1>6. Runs(w, p) /\ StateAfter(w, p).data \in w.enough
  BY <1>4 DEF Solves, Runs
<1>7. \A n \in 0 .. Len(p) : Trajectory(w, p)[n] \in State
  BY <1>3, <1>4, <1>6, RunsThroughStates
<1>8. /\ states \in Seq(State)
      /\ Len(states) = Len(p) + 1
      /\ states[1] = c.start
      /\ \A n \in 1 .. Len(p) - 1 : states[n + 1] = Trajectory(w, p)[n]
      /\ Last(states) \in State
      /\ Last(states).data = c.goal.data
  BY <1>1, <1>2, <1>4, <1>5, <1>7, StatesKeptFacts
<1>9. ASSUME NEW b, b.start = c.start, NEW v, v = Posed(b, Actions)
      PROVE  /\ Runs(v, p)
             /\ \A n \in 1 .. Len(p) : Trajectory(v, p)[n] = Trajectory(w, p)[n]
             /\ Meets(StateAfter(v, p).data, c.goal.data)
  <2>1. v.start = w.start
    BY <1>1, <1>3, <1>9, PosedFacts
  <2>2. \A d \in Data, a \in Actions :
          w.step[d][a] # Inexecutable => v.step[d][a] = w.step[d][a]
    BY <1>1, <1>2, <1>9, PosedToAll
  <2>3. Runs(v, p) /\ \A n \in 1 .. Len(p) : Trajectory(v, p)[n] = Trajectory(w, p)[n]
    BY <1>3, <1>4, <1>6, <2>1, <2>2, RunsAlike
  <2>4. StateAfter(v, p) = StateAfter(w, p)
    BY <1>5, <2>3 DEF StateAfter
  <2> QED
    BY <1>1, <1>3, <1>6, <2>3, <2>4
<1>10. Works([states |-> states, plan |-> p], c.goal.data)
  <2>1. PICK sp : sp = [states |-> states, plan |-> p]
    OBVIOUS
  <2>2. sp.states = states /\ sp.plan = p
    BY <2>1
  <2>3. PICK b : b = [start |-> sp.states[1], enough |-> {}]
    OBVIOUS
  <2>4. PICK v : v = Posed(b, Actions)
    OBVIOUS
  <2>5. b.start = c.start
    BY <1>8, <2>2, <2>3
  <2>6. /\ Runs(v, p)
        /\ \A n \in 1 .. Len(p) : Trajectory(v, p)[n] = Trajectory(w, p)[n]
        /\ Meets(StateAfter(v, p).data, c.goal.data)
    BY <1>9, <2>4, <2>5
  <2>7. \A n \in 1 .. Len(p) : n < Len(p) => n \in 1 .. Len(p) - 1
    BY <1>5
  <2>8. \A n \in DOMAIN sp.plan :
          /\ CanExecute(v, Trajectory(v, sp.plan)[n - 1], sp.plan[n])
          /\ n < Len(sp.plan) => sp.states[n + 1] = Trajectory(v, sp.plan)[n]
    BY <1>5, <1>8, <2>2, <2>6, <2>7 DEF Runs
  <2>9. Works(sp, c.goal.data)
    BY <1>8, <2>2, <2>3, <2>4, <2>6, <2>8 DEF Works
  <2> QED
    BY <2>1, <2>9
<1>11. [states |-> states, plan |-> p] \in StatesPlan
  BY <1>4, <1>8 DEF StatesPlan
<1> QED
  BY <1>8, <1>10, <1>11
-----------------------------------------------------------------------------
(***************************************************************************)
(* The map.                                                                *)
(***************************************************************************)
\* Every entry of the map is a list of plans that work for its goal.
Filed(map) ==
  /\ DOMAIN map \subseteq State
  /\ \A k \in DOMAIN map : /\ map[k] \in Seq(StatesPlan)
                           /\ \A i \in DOMAIN map[k] : Works(map[k][i], k.data)

\* So it does for a whole map.
LEMMA FiledStill ==
  ASSUME world' = world, NEW map, cache' = map, Filed(map)
  PROVE  Filed(cache)'
<1>1. \A k \in DOMAIN map : \A i \in DOMAIN map[k] : Works(map[k][i], k.data)'
  <2> TAKE k \in DOMAIN map
  <2> TAKE i \in DOMAIN map[k]
  <2>1. PICK sp, d : sp = map[k][i] /\ d = k.data
    OBVIOUS
  <2>2. Works(sp, d)
    BY <2>1 DEF Filed
  <2> QED
    BY <2>1, <2>2, WorksStill
<1>2. \A k \in DOMAIN cache' : \A i \in DOMAIN cache'[k] : Works(cache[k][i], k.data)'
  <2> TAKE k \in DOMAIN cache'
  <2> TAKE i \in DOMAIN cache'[k]
  <2>1. PICK sp, d : sp = map[k][i] /\ d = k.data
    OBVIOUS
  <2>2. k \in DOMAIN map /\ i \in DOMAIN map[k]
    OBVIOUS
  <2>3. Works(sp, d)
    BY <2>1, <2>2 DEF Filed
  <2>4. Works(sp, d)'
    BY <2>3, WorksStill
  <2> QED
    BY <2>1, <2>4 DEF Works
<1> QED
  BY <1>2 DEF Filed

\* The entry found or inserted for a goal is one for the data of the goal.
LEMMA SlotsFacts ==
  ASSUME NEW map, DOMAIN map \subseteq State, NEW g \in State, NEW k \in Slots(map, g)
  PROVE  k \in State /\ k.data = g.data
BY DEF Slots

\* operator[] at most adds an empty entry.
LEMMA EntryFiled ==
  ASSUME NEW map, Filed(map), NEW k \in State
  PROVE  Filed(WithEntry(map, k, Stored(map, k)))
<1>1. PICK new : new = WithEntry(map, k, Stored(map, k))
  OBVIOUS
<1>2. DOMAIN new = DOMAIN map \cup {k}
  BY <1>1 DEF WithEntry
<1>3. \A j \in DOMAIN map : new[j] = map[j]
  BY <1>1 DEF WithEntry, Stored
<1>4. k \notin DOMAIN map => new[k] = <<>>
  BY <1>1 DEF WithEntry, Stored
<1>5. <<>> \in Seq(StatesPlan) /\ DOMAIN <<>> = {}
  OBVIOUS
<1>6. ASSUME NEW j \in DOMAIN new
      PROVE  /\ new[j] \in Seq(StatesPlan)
             /\ \A i \in DOMAIN new[j] : Works(new[j][i], j.data)
  <2>1. CASE j \in DOMAIN map
    BY <1>3, <2>1 DEF Filed
  <2>2. CASE j \notin DOMAIN map
    BY <1>2, <1>4, <1>5, <2>2
  <2> QED
    BY <2>1, <2>2
<1>7. DOMAIN new \subseteq State
  BY <1>2 DEF Filed
<1> QED
  BY <1>1, <1>6, <1>7 DEF Filed

\* A plan that works for the goal of its entry may be kept there.
LEMMA KeptFiled ==
  ASSUME NEW map, Filed(map), NEW k \in State, NEW sp \in StatesPlan, Works(sp, k.data)
  PROVE  Filed(Kept(map, k, sp))
<1>1. PICK new : new = Kept(map, k, sp)
  OBVIOUS
<1>2. PICK list : list = Stored(map, k)
  OBVIOUS
<1>3. list \in Seq(StatesPlan) /\ \A i \in DOMAIN list : Works(list[i], k.data)
  <2>1. CASE k \in DOMAIN map
    BY <1>2, <2>1 DEF Stored, Filed
  <2>2. CASE k \notin DOMAIN map
    <3>1. list = <<>> /\ <<>> \in Seq(StatesPlan) /\ DOMAIN <<>> = {}
      BY <1>2, <2>2 DEF Stored
    <3> QED
      BY <3>1
  <2> QED
    BY <2>1, <2>2
<1>4. PICK longer : longer = Append(list, sp)
  OBVIOUS
<1>5. /\ longer \in Seq(StatesPlan)
      /\ \A i \in DOMAIN longer : longer[i] = sp \/ (i \in DOMAIN list /\ longer[i] = list[i])
  BY <1>3, <1>4
<1>6. \A i \in DOMAIN longer : Works(longer[i], k.data)
  <2> TAKE i \in DOMAIN longer
  <2>1. CASE longer[i] = sp
    BY <2>1
  <2>2. CASE i \in DOMAIN list /\ longer[i] = list[i]
    BY <1>3, <2>2
  <2> QED
    BY <1>5, <2>1, <2>2
<1>7. DOMAIN new = DOMAIN map \cup {k}
  BY <1>1 DEF Kept, WithEntry
<1>8. new[k] = longer /\ \A j \in DOMAIN map \ {k} : new[j] = map[j]
  BY <1>1, <1>2, <1>4 DEF Kept, WithEntry
<1>9. ASSUME NEW j \in DOMAIN new
      PROVE  /\ new[j] \in Seq(StatesPlan)
             /\ \A i \in DOMAIN new[j] : Works(new[j][i], j.data)
  <2>1. CASE j = k
    BY <1>5, <1>6, <1>8, <2>1
  <2>2. CASE j # k
    BY <1>7, <1>8, <2>2 DEF Filed
  <2> QED
    BY <2>1, <2>2
<1>10. DOMAIN new \subseteq State
  BY <1>7 DEF Filed
<1> QED
  BY <1>1, <1>9, <1>10 DEF Filed

\* What is found in the cache is a list of actions.
LEMMA FoundIsPlan ==
  ASSUME NEW map, Filed(map), NEW k, NEW c, NEW p \in FindPlan(Stored(map, k), c)
  PROVE  p \in Seq(Actions)
<1>1. PICK list : list = Stored(map, k)
  OBVIOUS
<1>2. list \in Seq(StatesPlan)
  <2>1. CASE k \in DOMAIN map
    BY <1>1, <2>1 DEF Stored, Filed
  <2>2. CASE k \notin DOMAIN map
    BY <1>1, <2>2 DEF Stored
  <2> QED
    BY <2>1, <2>2
<1>3. PICK i \in Nearest(list, c.start.data) : p = list[i].plan
  BY <1>1 DEF FindPlan
<1>4. i \in DOMAIN list
  BY <1>3 DEF Nearest
<1>5. list[i] \in StatesPlan
  BY <1>2, <1>4
<1> QED
  BY <1>3, <1>5 DEF StatesPlan
-----------------------------------------------------------------------------
(***************************************************************************)
(* The inductive invariant.                                                *)
(***************************************************************************)
IInv == TypeOK /\ KeptPlansWork

\* The type of the map and KeptPlansWork together are what Filed says.
LEMMA InvariantParts ==
  IInv <=> /\ world \in Worlds
           /\ planningActions \in SUBSET Actions
           /\ Filed(cache)
           /\ answer.from \in {"nowhere", "cache", "search"}
           /\ answer.plan \in Seq(Actions)
<1>1. KeptPlansWork <=>
        \A k \in DOMAIN cache : \A i \in DOMAIN cache[k] : Works(cache[k][i], k.data)
  BY DEF KeptPlansWork, Works
<1> QED
  BY <1>1 DEF IInv, TypeOK, Filed

\* The type of an answer.
LEMMA Answered ==
  ASSUME NEW c, NEW p \in Seq(Actions), NEW from \in {"cache", "search"},
         answer' = Result(c, from, p)
  PROVE  /\ answer'.from \in {"nowhere", "cache", "search"}
         /\ answer'.plan \in Seq(Actions)
BY DEF Result

\* The type of none.
LEMMA Unanswered ==
  ASSUME answer' = NoAnswer
  PROVE  /\ answer'.from \in {"nowhere", "cache", "search"}
         /\ answer'.plan \in Seq(Actions)
BY DEF NoAnswer

\* The initial states satisfy the invariant.
LEMMA InitIInv == Init => IInv
<1> SUFFICES ASSUME Init PROVE IInv
  OBVIOUS
<1>1. planningActions \in SUBSET Actions
  BY WorldsAssumption DEF Init
<1>2. cache = [k \in {} |-> <<>>]
  BY DEF Init
<1>3. DOMAIN cache = {}
  BY <1>2
<1>4. Filed(cache)
  BY <1>3 DEF Filed
<1>5. answer = NoAnswer /\ world \in Worlds
  BY DEF Init
<1>6. /\ answer.from \in {"nowhere", "cache", "search"}
      /\ answer.plan \in Seq(Actions)
  BY <1>5 DEF NoAnswer
<1> QED
  BY <1>1, <1>4, <1>5, <1>6, InvariantParts

\* Where a step leaves the parts of the invariant, they make up the invariant again.
LEMMA PartsPrimed ==
  ASSUME world' \in Worlds, planningActions' \in SUBSET Actions, Filed(cache)',
         answer'.from \in {"nowhere", "cache", "search"}, answer'.plan \in Seq(Actions)
  PROVE  IInv'
<1>1. KeptPlansWork'
  BY DEF KeptPlansWork, Works, Filed
<1> QED
  BY <1>1 DEF IInv, TypeOK, Filed

\* makePlanCached() keeps the invariant: a plan from a search works and is kept under a
\* goal with the data of the call's.
LEMMA MakePlanCachedIInv ==
  ASSUME IInv, NEW c \in Calls, MakePlanCached(c)
  PROVE  IInv'
<1>1. /\ world \in Worlds /\ planningActions \in SUBSET Actions /\ Filed(cache)
      /\ world' = world /\ planningActions' = planningActions
  BY InvariantParts DEF MakePlanCached
<1>2. c.start \in State /\ c.goal \in State
  BY CallsAssumption
<1>3. PICK k \in Slots(cache, c.goal) : Hit(c, k) \/ Fill(c, k)
  BY DEF MakePlanCached
<1>4. k \in State
  BY <1>1, <1>2, <1>3, SlotsFacts DEF Filed
<1>5. CASE Hit(c, k)
  <2>1. PICK p \in FindPlan(Stored(cache, k), c) : answer' = Result(c, "cache", p)
    BY <1>5 DEF Hit
  <2>2. p \in Seq(Actions)
    BY <1>1, <2>1, FoundIsPlan
  <2>3. Filed(cache)'
    <3>1. cache' = cache
      BY <1>5 DEF Hit
    <3> QED
      BY <1>1, <3>1, FiledStill
  <2> QED
    BY <1>1, <2>1, <2>2, <2>3, Answered, PartsPrimed
<1>6. CASE Fill(c, k)
  <2>1. PICK w : w = Posed(c, planningActions)
    OBVIOUS
  <2>2. PICK map : map = WithEntry(cache, k, Stored(cache, k))
    OBVIOUS
  <2>3. Filed(map)
    BY <1>1, <1>4, <2>2, EntryFiled
  <2>4. PICK p \in Answers(w) :
          /\ answer' = Result(c, "search", p)
          /\ \/ p = <<>> /\ cache' = map
             \/ /\ p # <<>>
                /\ \E goal \in Slots(map, Last(StatesKept(c, w, p))) :
                     cache' = Kept(map, goal, [states |-> StatesKept(c, w, p), plan |-> p])
    BY <1>6, <2>1, <2>2 DEF Fill
  <2>5. CASE p = <<>>
    <3>1. p \in Seq(Actions)
      BY <2>5
    <3>2. Filed(cache)'
      BY <1>1, <2>3, <2>4, <2>5, FiledStill
    <3> QED
      BY <1>1, <2>4, <2>5, <3>1, <3>2, Answered, PartsPrimed
  <2>6. CASE p # <<>>
    <3>1. PICK states : states = StatesKept(c, w, p)
      OBVIOUS
    <3>2. PICK sp : sp = [states |-> states, plan |-> p]
      OBVIOUS
    <3>3. /\ sp \in StatesPlan
          /\ Last(states) \in State /\ Last(states).data = c.goal.data
          /\ Works(sp, c.goal.data)
      BY <1>1, <2>1, <2>4, <2>6, <3>1, <3>2, AnswersWork
    <3>4. PICK goal \in Slots(map, Last(states)) : cache' = Kept(map, goal, sp)
      BY <2>4, <2>6, <3>1, <3>2
    <3>5. goal \in State /\ goal.data = c.goal.data
      BY <2>3, <3>3, <3>4, SlotsFacts DEF Filed
    <3>6. PICK new : new = Kept(map, goal, sp)
      OBVIOUS
    <3>7. Filed(new)
      BY <2>3, <3>3, <3>5, <3>6, KeptFiled
    <3>8. Filed(cache)'
      BY <1>1, <3>4, <3>6, <3>7, FiledStill
    <3>9. p \in Seq(Actions)
      BY <3>2, <3>3 DEF StatesPlan
    <3> QED
      BY <1>1, <2>4, <3>8, <3>9, Answered, PartsPrimed
  <2> QED
    BY <2>5, <2>6
<1> QED
  BY <1>3, <1>5, <1>6

\* findPlan() keeps it: it adds an empty entry at most.
LEMMA FindIInv ==
  ASSUME IInv, NEW c \in Calls, Find(c)
  PROVE  IInv'
<1>1. /\ world \in Worlds /\ planningActions \in SUBSET Actions /\ Filed(cache)
      /\ world' = world /\ planningActions' = planningActions
  BY InvariantParts DEF Find
<1>2. c.goal \in State
  BY CallsAssumption
<1>3. PICK k, p :
        /\ k \in Slots(cache, c.goal)
        /\ cache' = WithEntry(cache, k, Stored(cache, k))
        /\ answer' = Result(c, "cache", p)
        /\ p \in FindPlan(Stored(cache, k), c) \/ p = <<>>
  BY DEF Find
<1>4. k \in State
  BY <1>1, <1>2, <1>3, SlotsFacts DEF Filed
<1>5. Filed(cache)'
  <2>1. PICK map : map = WithEntry(cache, k, Stored(cache, k))
    OBVIOUS
  <2>2. Filed(map)
    BY <1>1, <1>4, <2>1, EntryFiled
  <2> QED
    BY <1>1, <1>3, <2>1, <2>2, FiledStill
<1>6. p \in Seq(Actions)
  <2>1. CASE p \in FindPlan(Stored(cache, k), c)
    BY <1>1, <2>1, FoundIsPlan
  <2>2. CASE p = <<>>
    BY <2>2
  <2> QED
    BY <1>3, <2>1, <2>2
<1> QED
  BY <1>1, <1>3, <1>5, <1>6, Answered, PartsPrimed

\* cacheStates() keeps it.
LEMMA CacheStatesIInv ==
  ASSUME IInv, NEW c \in Calls, CacheStates(c)
  PROVE  IInv'
<1>1. /\ world \in Worlds /\ planningActions \in SUBSET Actions /\ Filed(cache)
      /\ world' = world /\ planningActions' = planningActions /\ answer' = NoAnswer
  BY InvariantParts DEF CacheStates
<1>2. PICK w : w = Posed(c, planningActions)
  OBVIOUS
<1>3. PICK p \in Answers(w) \ {<<>>} :
        \E goal \in Slots(cache, Last(StatesKept(c, w, p))) :
          cache' = Kept(cache, goal, [states |-> StatesKept(c, w, p), plan |-> p])
  BY <1>2 DEF CacheStates
<1>4. PICK states : states = StatesKept(c, w, p)
  OBVIOUS
<1>5. PICK sp : sp = [states |-> states, plan |-> p]
  OBVIOUS
<1>6. /\ sp \in StatesPlan
      /\ Last(states) \in State /\ Last(states).data = c.goal.data
      /\ Works(sp, c.goal.data)
  BY <1>1, <1>2, <1>3, <1>4, <1>5, AnswersWork
<1>7. PICK goal \in Slots(cache, Last(states)) : cache' = Kept(cache, goal, sp)
  BY <1>3, <1>4, <1>5
<1>8. goal \in State /\ goal.data = c.goal.data
  BY <1>1, <1>6, <1>7, SlotsFacts DEF Filed
<1>9. PICK new : new = Kept(cache, goal, sp)
  OBVIOUS
<1>10. Filed(new)
  BY <1>1, <1>6, <1>8, <1>9, KeptFiled
<1>11. Filed(cache)'
  BY <1>1, <1>7, <1>9, <1>10, FiledStill
<1> QED
  BY <1>1, <1>11, Unanswered, PartsPrimed

\* Every step keeps it.
LEMMA NextIInv == IInv /\ [Next]_vars => IInv'
<1> SUFFICES ASSUME IInv, [Next]_vars PROVE IInv'
  OBVIOUS
<1>1. world \in Worlds /\ planningActions \in SUBSET Actions /\ Filed(cache)
  BY InvariantParts
<1>2. ASSUME NEW c \in Calls, MakePlanCached(c) \/ Find(c) \/ CacheStates(c) PROVE IInv'
  BY <1>2, MakePlanCachedIInv, FindIInv, CacheStatesIInv
<1>3. ASSUME \/ \E A \in ActionSets : SetPlanningActions(A)
             \/ Clear
      PROVE  IInv'
  <2>1. /\ planningActions' \in SUBSET Actions
        /\ world' = world /\ cache' = cache /\ answer' = NoAnswer
    BY <1>3, WorldsAssumption DEF SetPlanningActions, Clear
  <2>2. Filed(cache)'
    BY <1>1, <2>1, FiledStill
  <2> QED
    BY <1>1, <2>1, <2>2, Unanswered, PartsPrimed
<1>4. CASE UNCHANGED vars
  <2>1. Filed(cache)'
    BY <1>1, <1>4, FiledStill DEF vars
  <2>2. TypeOK'
    BY <1>4 DEF vars, IInv, TypeOK
  <2> QED
    BY <2>1, <2>2, PartsPrimed DEF TypeOK
<1> QED
  BY <1>2, <1>3, <1>4 DEF Next
-----------------------------------------------------------------------------
(***************************************************************************)
(* The theorems.                                                           *)
(***************************************************************************)
\* The cache and the answers keep the inductive invariant.
THEOREM Invariance == Spec => []IInv
<1>1. Init => IInv
  BY InitIInv
<1>2. IInv /\ [Next]_vars => IInv'
  BY NextIInv
<1> QED
  BY <1>1, <1>2, PTL DEF Spec

\* The variables of the cache have their types.
THEOREM TypeCorrect == Spec => []TypeOK
<1>1. IInv => TypeOK
  BY DEF IInv
<1> QED
  BY <1>1, Invariance, PTL

\* Whatever was searched, kept and reconfigured before, a kept plan works from the first
\* of its states, through the states kept with it, to the goal it is kept under.
THEOREM KeptPlansStay == Spec => []KeptPlansWork
<1>1. IInv => KeptPlansWork
  BY DEF IInv
<1> QED
  BY <1>1, Invariance, PTL

-----------------------------------------------------------------------------
(***************************************************************************)
(* Calls that are repeated, where the states of plans and the goals have   *)
(* one cost: then the goal of a call has one place in the map.             *)
(***************************************************************************)
\* The cost of what actions lead to and of goals.
OneCostAssumption(cost) ==
  /\ \A W \in Worlds : \A d \in Data, a \in Actions :
       W[d][a] # Inexecutable => W[d][a].cost = cost
  /\ \A c \in Calls : c.goal.cost = cost

OneCost(map, cost) == \A k \in DOMAIN map : k.cost = cost

\* The goal that a plan is kept under has the cost of the state the plan leads to.
LEMMA KeptCost ==
  ASSUME NEW cost, OneCostAssumption(cost), world \in Worlds,
         NEW c \in Calls, NEW A, NEW p \in Answers(Posed(c, A)), p # <<>>,
         NEW states, states = StatesKept(c, Posed(c, A), p)
  PROVE  Last(states).cost = cost
<1>1. c.start \in State /\ c.goal \in State
  BY CallsAssumption
<1>2. PICK w : w = Posed(c, A)
  OBVIOUS
<1>3. Typed(w) /\ w.start = c.start
  BY <1>1, <1>2, PosedFacts
<1>4. p \in Seq(Actions) /\ Solves(w, p)
  BY <1>2 DEF Answers
<1>5. Len(p) \in Nat /\ Len(p) >= 1 /\ Len(p) - 1 \in 0 .. Len(p) /\ p[Len(p)] \in Actions
  BY <1>4
<1>6. Runs(w, p)
  BY <1>4 DEF Solves, Runs
<1>7. PICK s : s = Trajectory(w, p)[Len(p) - 1]
  OBVIOUS
<1>8. s \in State /\ StateAfter(w, p) \in State
  BY <1>3, <1>4, <1>5, <1>6, <1>7, RunsThroughStates DEF StateAfter
<1>9. /\ StateAfter(w, p) = w.step[s.data][p[Len(p)]]
      /\ w.step[s.data][p[Len(p)]] # Inexecutable
  BY <1>4, <1>5, <1>6, <1>7, TrajectoryDef DEF StateAfter, Runs, CanExecute, Execute
<1>10. s.data \in Data
  BY <1>8 DEF State
<1>11. StateAfter(w, p) = world[s.data][p[Len(p)]]
  BY <1>1, <1>2, <1>5, <1>9, <1>10, PosedFacts
<1>12. StateAfter(w, p).cost = cost
  BY <1>5, <1>9, <1>10, <1>11 DEF OneCostAssumption
<1>13. PICK last : last = [c.goal EXCEPT !.cost = StateAfter(w, p).cost]
  OBVIOUS
<1>14. last.cost = cost
  BY <1>1, <1>12, <1>13 DEF State
<1>15. Last(states) = last
  <2>1. PICK front : front = <<c.start>> \o [n \in 1 .. Len(p) - 1 |-> Trajectory(w, p)[n]]
    OBVIOUS
  <2>2. states = front \o <<last>>
    BY <1>2, <1>13, <2>1 DEF StatesKept
  <2>3. front \in Seq(State)
    <3>1. PICK mid : mid = [n \in 1 .. Len(p) - 1 |-> Trajectory(w, p)[n]]
      OBVIOUS
    <3>2. \A n \in 1 .. Len(p) - 1 : Trajectory(w, p)[n] \in State
      BY <1>3, <1>4, <1>5, <1>6, RunsThroughStates
    <3>3. mid \in Seq(State)
      BY <1>5, <3>1, <3>2
    <3> QED
      BY <1>1, <2>1, <3>1, <3>3
  <2>4. last \in State
    <3>1. StateAfter(w, p).cost \in Int
      BY <1>8 DEF State
    <3> QED
      BY <1>1, <1>13, <3>1 DEF State
  <2>5. PICK end \in Seq(State) : end = <<last>>
    <3>1. <<last>> \in Seq(State)
      BY <2>4
    <3> QED
      BY <3>1, Zenon
  <2>6. Len(end) = 1 /\ end[1] = last /\ states = front \o end
    BY <2>2, <2>4, <2>5
  <2>7. Len(states) = Len(front) + 1 /\ states[Len(front) + 1] = last
    BY <2>3, <2>5, <2>6
  <2> QED
    BY <2>7 DEF Last
<1> QED
  BY <1>14, <1>15

\* Every step keeps the keys of the map at one cost.
LEMMA OneCostKept ==
  ASSUME NEW cost, OneCostAssumption(cost), IInv, OneCost(cache, cost), [Next]_vars
  PROVE  OneCost(cache, cost)'
<1>1. world \in Worlds
  BY InvariantParts
<1>2. ASSUME NEW map, OneCost(map, cost), NEW g, g.cost = cost, NEW k \in Slots(map, g), NEW list
      PROVE  OneCost(WithEntry(map, k, list), cost)
  <2>1. k.cost = cost
    BY <1>2 DEF Slots, OneCost
  <2> QED
    BY <1>2, <2>1 DEF WithEntry, OneCost
<1>3. ASSUME NEW c \in Calls, NEW k \in Slots(cache, c.goal)
      PROVE  OneCost(WithEntry(cache, k, Stored(cache, k)), cost)
  BY <1>2 DEF OneCostAssumption
<1>4. ASSUME NEW map, OneCost(map, cost), NEW c \in Calls,
             NEW p \in Answers(Posed(c, planningActions)), p # <<>>,
             NEW states, states = StatesKept(c, Posed(c, planningActions), p),
             NEW goal \in Slots(map, Last(states)), NEW sp
      PROVE  OneCost(Kept(map, goal, sp), cost)
  <2>1. Last(states).cost = cost
    BY <1>1, <1>4, KeptCost
  <2> QED
    BY <1>2, <1>4, <2>1 DEF Kept
<1>5. ASSUME NEW c \in Calls, MakePlanCached(c) PROVE OneCost(cache', cost)
  <2>1. PICK k \in Slots(cache, c.goal) : Hit(c, k) \/ Fill(c, k)
    BY <1>5 DEF MakePlanCached
  <2>2. CASE Hit(c, k)
    BY <2>2 DEF Hit
  <2>3. CASE Fill(c, k)
    <3>1. PICK map : map = WithEntry(cache, k, Stored(cache, k))
      OBVIOUS
    <3>2. OneCost(map, cost)
      BY <1>3, <3>1
    <3>3. PICK w : w = Posed(c, planningActions)
      OBVIOUS
    <3>4. PICK p \in Answers(w) :
            \/ p = <<>> /\ cache' = map
            \/ /\ p # <<>>
               /\ \E goal \in Slots(map, Last(StatesKept(c, w, p))) :
                    cache' = Kept(map, goal, [states |-> StatesKept(c, w, p), plan |-> p])
      BY <2>3, <3>1, <3>3 DEF Fill
    <3>5. CASE p = <<>>
      BY <3>2, <3>4, <3>5
    <3>6. CASE p # <<>>
      <4>1. PICK states : states = StatesKept(c, w, p)
        OBVIOUS
      <4>2. PICK goal, sp : goal \in Slots(map, Last(states)) /\ cache' = Kept(map, goal, sp)
        BY <3>4, <3>6, <4>1
      <4> QED
        BY <1>4, <3>2, <3>3, <3>6, <4>1, <4>2
    <3> QED
      BY <3>5, <3>6
  <2> QED
    BY <2>1, <2>2, <2>3
<1>6. ASSUME NEW c \in Calls, Find(c) PROVE OneCost(cache', cost)
  <2>1. PICK k \in Slots(cache, c.goal) : cache' = WithEntry(cache, k, Stored(cache, k))
    BY <1>6 DEF Find
  <2> QED
    BY <1>3, <2>1
<1>7. ASSUME NEW c \in Calls, CacheStates(c) PROVE OneCost(cache', cost)
  <2>1. PICK w : w = Posed(c, planningActions)
    OBVIOUS
  <2>2. PICK p \in Answers(w) \ {<<>>} :
          \E goal \in Slots(cache, Last(StatesKept(c, w, p))) :
            cache' = Kept(cache, goal, [states |-> StatesKept(c, w, p), plan |-> p])
    BY <1>7, <2>1 DEF CacheStates
  <2>3. PICK states : states = StatesKept(c, w, p)
    OBVIOUS
  <2>4. PICK goal, sp : goal \in Slots(cache, Last(states)) /\ cache' = Kept(cache, goal, sp)
    BY <2>2, <2>3
  <2> QED
    BY <1>4, <2>1, <2>2, <2>3, <2>4
<1>8. ASSUME \/ \E A \in ActionSets : SetPlanningActions(A)
             \/ Clear
             \/ UNCHANGED vars
      PROVE  cache' = cache
  BY <1>8 DEF SetPlanningActions, Clear, vars
<1>9. OneCost(cache', cost)
  BY <1>5, <1>6, <1>7, <1>8 DEF Next
<1> QED
  BY <1>9 DEF OneCost

\* A kept plan runs to the goal from any state with the data of the one it starts in.
LEMMA KeptRuns ==
  ASSUME world \in Worlds, NEW c \in Calls, NEW sp \in StatesPlan, Works(sp, c.goal.data),
         sp.states[1].data = c.start.data
  PROVE  /\ Runs(Posed(c, Actions), sp.plan)
         /\ Meets(StateAfter(Posed(c, Actions), sp.plan).data, c.goal.data)
<1>1. c.start \in State
  BY CallsAssumption
<1>2. sp.plan \in Seq(Actions) /\ DOMAIN sp.plan = 1 .. Len(sp.plan)
  BY DEF StatesPlan
<1>3. sp.states[1] \in State
  BY <1>2 DEF StatesPlan, Works
<1>4. PICK b : b = [start |-> sp.states[1], enough |-> {}]
  OBVIOUS
<1>5. PICK w : w = Posed(b, Actions)
  OBVIOUS
<1>6. Runs(w, sp.plan) /\ Meets(StateAfter(w, sp.plan).data, c.goal.data)
  BY <1>2, <1>4, <1>5 DEF Works, Runs
<1>7. b.start \in State /\ b.start.data = c.start.data
  BY <1>3, <1>4
<1>8. PICK v : v = Posed(c, Actions)
  OBVIOUS
<1>9. Typed(w) /\ v.start.data = w.start.data
  BY <1>1, <1>5, <1>7, <1>8, PosedFacts
<1>10. \A d \in Data, a \in Actions :
         w.step[d][a] # Inexecutable => v.step[d][a] = w.step[d][a]
  BY <1>1, <1>5, <1>7, <1>8, PosedToAll
<1>11. /\ Runs(v, sp.plan)
       /\ \A n \in 0 .. Len(sp.plan) :
            Trajectory(v, sp.plan)[n].data = Trajectory(w, sp.plan)[n].data
  BY <1>2, <1>6, <1>9, <1>10, RunsAlike
<1>12. Len(sp.plan) \in 0 .. Len(sp.plan)
  BY <1>2
<1> QED
  BY <1>6, <1>8, <1>11, <1>12 DEF StateAfter

\* A list with a plan from the initial state of a call has one that findPlan() takes.
LEMMA RepeatFound ==
  ASSUME \A d, e \in Data : Distance(d, e) = 0 => d = e,
         world \in Worlds, NEW c \in Calls,
         NEW list \in Seq(StatesPlan), \A i \in DOMAIN list : Works(list[i], c.goal.data),
         NEW i \in DOMAIN list, list[i].states[1].data = c.start.data
  PROVE  FindPlan(list, c) # {}
<1>1. c.start \in State /\ c.start.data \in Data
  BY CallsAssumption DEF State
<1>2. Len(list) \in Nat /\ DOMAIN list = 1 .. Len(list)
  OBVIOUS
<1>3. ASSUME NEW j \in DOMAIN list
      PROVE  /\ list[j].plan \in Seq(Actions)
             /\ list[j].states[1] \in State
             /\ list[j].states[1].data \in Data
  <2>1. list[j] \in StatesPlan /\ Works(list[j], c.goal.data)
    OBVIOUS
  <2>2. list[j].states \in Seq(State) /\ list[j].plan \in Seq(Actions)
    BY <2>1 DEF StatesPlan
  <2>3. Len(list[j].states) = Len(list[j].plan) + 1
    BY <2>1 DEF Works
  <2>4. list[j].states[1] \in State
    BY <2>2, <2>3
  <2> QED
    BY <2>2, <2>4 DEF State
<1> DEFINE far(j) == Distance(list[j].states[1].data, c.start.data)
           Zero == {j \in DOMAIN list : far(j) = 0}
<1>4. \A j \in DOMAIN list : far(j) \in Nat
  BY <1>1, <1>3, DistanceAssumption
<1>5. i \in Zero
  BY <1>1, DistanceAssumption
<1>6. PICK j \in Zero : \A n \in Zero : j <= n
  <2>1. Zero \in SUBSET Nat /\ Zero # {}
    BY <1>2, <1>5
  <2> HIDE DEF Zero
  <2> QED
    BY <2>1, LeastNatural
<1>7. j \in DOMAIN list /\ far(j) = 0
  OBVIOUS
<1>8. j \in Nearest(list, c.start.data)
  <2>1. \A n \in DOMAIN list : far(j) <= far(n)
    BY <1>4, <1>7
  <2>2. \A n \in 1 .. j - 1 : far(j) < far(n)
    <3> TAKE n \in 1 .. j - 1
    <3>1. n \in DOMAIN list /\ ~ (j <= n)
      BY <1>2, <1>7
    <3>2. n \notin Zero
      BY <1>6, <3>1
    <3>3. far(n) # 0 /\ far(n) \in Nat
      BY <1>4, <3>1, <3>2
    <3> HIDE DEF far
    <3> QED
      BY <1>7, <3>3
  <2>3. far(j) < 10
    BY <1>7
  <2> QED
    BY <1>7, <2>1, <2>2, <2>3 DEF Nearest
<1>9. list[j].states[1].data = c.start.data
  BY <1>1, <1>3, <1>7
<1>10. PICK sp \in StatesPlan : sp = list[j]
  BY <1>7
<1>11. PICK v : v = Posed(c, Actions)
  OBVIOUS
<1>12. Runs(v, sp.plan) /\ Meets(StateAfter(v, sp.plan).data, c.goal.data)
  BY <1>7, <1>9, <1>10, <1>11, KeptRuns
<1>13. Executed(v, sp.plan) = StateAfter(v, sp.plan)
  BY <1>12, RunsToItsEnd DEF StatesPlan
<1>14. sp.plan \in FindPlan(list, c)
  BY <1>8, <1>10, <1>11, <1>12, <1>13 DEF FindPlan
<1> QED
  BY <1>14

\* Whatever findPlan() takes from such a list works for the call.
LEMMA RepeatWorks ==
  ASSUME \A d, e \in Data : Distance(d, e) = 0 => d = e,
         world \in Worlds, NEW c \in Calls,
         NEW list \in Seq(StatesPlan), \A i \in DOMAIN list : Works(list[i], c.goal.data),
         NEW i \in DOMAIN list, list[i].states[1].data = c.start.data,
         NEW p \in FindPlan(list, c)
  PROVE  /\ AllExecutable(Posed(c, Actions), p)
         /\ Meets(StateAfter(Posed(c, Actions), p).data, c.goal.data)
<1>1. c.start \in State /\ c.start.data \in Data
  BY CallsAssumption DEF State
<1>2. PICK j \in Nearest(list, c.start.data) : p = list[j].plan
  BY DEF FindPlan
<1>3. /\ j \in DOMAIN list
      /\ Distance(list[j].states[1].data, c.start.data)
           <= Distance(list[i].states[1].data, c.start.data)
  BY <1>2 DEF Nearest
<1>4. PICK sp \in StatesPlan : sp = list[j] /\ Works(sp, c.goal.data)
  BY <1>3
<1>5. sp.states[1].data \in Data
  <2>1. sp.states \in Seq(State) /\ Len(sp.states) = Len(sp.plan) + 1 /\ Len(sp.plan) \in Nat
    BY <1>4 DEF StatesPlan, Works
  <2>2. sp.states[1] \in State
    BY <2>1
  <2> QED
    BY <2>2 DEF State
<1>6. sp.states[1].data = c.start.data
  <2>1. Distance(list[i].states[1].data, c.start.data) = 0
    BY <1>1, DistanceAssumption
  <2>2. Distance(sp.states[1].data, c.start.data) = 0
    BY <1>1, <1>3, <1>4, <1>5, <2>1, DistanceAssumption
  <2> QED
    BY <1>1, <1>5, <2>2
<1>7. PICK v : v = Posed(c, Actions)
  OBVIOUS
<1>8. Runs(v, sp.plan) /\ Meets(StateAfter(v, sp.plan).data, c.goal.data)
  BY <1>4, <1>6, <1>7, KeptRuns
<1>9. AllExecutable(v, sp.plan)
  <2>1. Typed(v) /\ sp.plan \in Seq(Actions)
    BY <1>1, <1>7, PosedFacts DEF StatesPlan
  <2>2. \A n \in 0 .. Len(sp.plan) : Trajectory(v, sp.plan)[n] \in State
    BY <1>8, <2>1, RunsThroughStates
  <2>3. Inexecutable \notin State
    BY DataAssumption DEF State
  <2>4. /\ Len(sp.plan) \in Nat /\ DOMAIN sp.plan = 1 .. Len(sp.plan)
        /\ \A n \in 1 .. Len(sp.plan) : n - 1 \in 0 .. Len(sp.plan)
    BY <2>1
  <2> QED
    BY <1>8, <2>2, <2>3, <2>4 DEF AllExecutable, Runs
<1> QED
  BY <1>2, <1>4, <1>7, <1>8, <1>9

\* PassesBy() of any map, for the initial states of the plans.
Passes(map, c) ==
  \E j \in DOMAIN map : \E i \in DOMAIN map[j] :
    /\ j.data = c.goal.data
    /\ \E m \in 1 .. Len(map[j][i].plan) : m <= 1 /\ map[j][i].states[m].data = c.start.data

\* At one cost, the entry of a call's goal is the one under which its plan is kept.
LEMMA RepeatListed ==
  ASSUME NEW cost, OneCostAssumption(cost), OneCost(cache, cost), IInv,
         NEW c \in Calls, NEW k \in Slots(cache, c.goal), Passes(cache, c),
         NEW list, list = Stored(cache, k)
  PROVE  /\ list \in Seq(StatesPlan)
         /\ \A i \in DOMAIN list : Works(list[i], c.goal.data)
         /\ \E i \in DOMAIN list : list[i].states[1].data = c.start.data
<1>1. PICK j \in DOMAIN cache : \E i \in DOMAIN cache[j] :
        /\ j.data = c.goal.data
        /\ \E m \in 1 .. Len(cache[j][i].plan) :
             m <= 1 /\ cache[j][i].states[m].data = c.start.data
  BY DEF Passes
<1>2. PICK i \in DOMAIN cache[j] :
        /\ j.data = c.goal.data
        /\ \E m \in 1 .. Len(cache[j][i].plan) :
             m <= 1 /\ cache[j][i].states[m].data = c.start.data
  BY <1>1
<1>3. world \in Worlds /\ Filed(cache)
  BY InvariantParts
<1>4. c.goal \in State
  BY CallsAssumption
<1>5. j = c.goal
  <2>1. j \in State /\ j.cost = cost /\ c.goal.cost = cost
    BY <1>3 DEF Filed, OneCost, OneCostAssumption
  <2> QED
    BY <1>2, <1>4, <2>1 DEF State
<1>6. k = c.goal
  <2>1. k \in State /\ k.data = c.goal.data /\ k \in DOMAIN cache
    BY <1>3, <1>4, <1>5, SlotsFacts DEF Filed, Slots
  <2>2. k.cost = cost /\ c.goal.cost = cost
    BY <2>1 DEF OneCost, OneCostAssumption
  <2> QED
    BY <1>4, <2>1, <2>2 DEF State
<1>7. list = cache[c.goal]
  BY <1>5, <1>6 DEF Stored
<1>8. list \in Seq(StatesPlan) /\ \A n \in DOMAIN list : Works(list[n], c.goal.data)
  BY <1>3, <1>5, <1>7 DEF Filed
<1>9. i \in DOMAIN list /\ list[i].states[1].data = c.start.data
  <2>1. i \in DOMAIN list
    BY <1>5, <1>7
  <2>2. list[i].plan \in Seq(Actions)
    <3>1. list[i] \in StatesPlan
      BY <1>8, <2>1
    <3> QED
      BY <3>1 DEF StatesPlan
  <2>3. PICK m \in 1 .. Len(list[i].plan) : m <= 1 /\ list[i].states[m].data = c.start.data
    BY <1>2, <1>5, <1>7
  <2>4. m = 1
    BY <2>2, <2>3
  <2> QED
    BY <2>1, <2>3, <2>4
<1> QED
  BY <1>8, <1>9

\* Where states and goals have one cost and the comparer tells different states apart,
\* a call repeated for the same initial state and goal is served from the cache.
THEOREM RepeatsServed ==
  ASSUME NEW cost, OneCostAssumption(cost), \A d, e \in Data : Distance(d, e) = 0 => d = e
  PROVE  Spec => RepeatsAreServed
<1>1. Init => OneCost(cache, cost)
  BY DEF Init, OneCost
<1>2. OneCost(cache, cost) /\ IInv /\ [Next]_vars => OneCost(cache, cost)'
  BY OneCostKept
<1>3. OneCost(cache, cost) /\ IInv /\ [Next]_vars =>
        [answer'.from = "search" => ~ PassesBy(answer'.call, 1)]_vars
  <2> SUFFICES ASSUME OneCost(cache, cost), IInv, Next, answer'.from = "search",
                      PassesBy(answer'.call, 1)
               PROVE  FALSE
    OBVIOUS
  <2>1. PICK c \in Calls : MakePlanCached(c)
    BY DEF Next, Find, CacheStates, SetPlanningActions, Clear, Result, NoAnswer
  <2>2. PICK k \in Slots(cache, c.goal) : Hit(c, k) \/ Fill(c, k)
    BY <2>1 DEF MakePlanCached
  <2>3. Fill(c, k)
    BY <2>2 DEF Hit, Result
  <2>4. answer'.call = c /\ FindPlan(Stored(cache, k), c) = {}
    BY <2>3 DEF Fill, Result
  <2>5. Passes(cache, c)
    BY <2>4 DEF PassesBy, Passes
  <2>6. PICK list : list = Stored(cache, k)
    OBVIOUS
  <2>7. /\ list \in Seq(StatesPlan)
        /\ \A n \in DOMAIN list : Works(list[n], c.goal.data)
        /\ \E n \in DOMAIN list : list[n].states[1].data = c.start.data
    BY <2>5, <2>6, RepeatListed
  <2>8. world \in Worlds
    BY InvariantParts
  <2> QED
    BY <2>4, <2>6, <2>7, <2>8, RepeatFound
<1> QED
  BY <1>1, <1>2, <1>3, Invariance, PTL DEF Spec, RepeatsAreServed

\* An answer taken from the cache works for its call.
LEMMA AnswerWorks ==
  ASSUME NEW cost, OneCostAssumption(cost), \A d, e \in Data : Distance(d, e) = 0 => d = e,
         OneCost(cache, cost), IInv, world' = world,
         NEW c \in Calls, NEW k \in Slots(cache, c.goal), NEW p,
         answer' = Result(c, "cache", p),
         p \in FindPlan(Stored(cache, k), c) \/ p = <<>>,
         Passes(cache', c) => Passes(cache, c)
  PROVE  ExactAnswersWork'
<1> SUFFICES ASSUME p # <<>>, Passes(cache', c)
             PROVE  /\ AllExecutable(Posed(c, Actions), p)
                    /\ Meets(StateAfter(Posed(c, Actions), p).data, c.goal.data)
  <2>1. answer'.call = c /\ answer'.plan = p
    BY DEF Result
  <2>2. PICK v : v = Posed(c, Actions)
    OBVIOUS
  <2>3. Posed(answer.call, Actions)' = v
    <3>1. Posed(c, Actions)' = v
      BY <2>2, PosedStill
    <3> QED
      BY <2>1, <3>1 DEF Posed
  <2>4. PassesBy(answer.call, 1)' => Passes(cache', c)
    BY <2>1 DEF PassesBy, Passes
  <2> QED
    BY <2>1, <2>2, <2>3, <2>4 DEF ExactAnswersWork, AllExecutable, StateAfter
<1>1. PICK list : list = Stored(cache, k)
  OBVIOUS
<1>2. /\ list \in Seq(StatesPlan)
      /\ \A n \in DOMAIN list : Works(list[n], c.goal.data)
      /\ \E n \in DOMAIN list : list[n].states[1].data = c.start.data
  BY <1>1, RepeatListed
<1>3. world \in Worlds
  BY InvariantParts
<1> QED
  BY <1>1, <1>2, <1>3, RepeatWorks

\* Under the same conditions, a call for whose initial state a plan is kept gets none that
\* is only near: all the actions of the answer can be executed and lead to the goal.
THEOREM ExactAnswers ==
  ASSUME NEW cost, OneCostAssumption(cost), \A d, e \in Data : Distance(d, e) = 0 => d = e
  PROVE  Spec => []ExactAnswersWork
<1>1. Init => OneCost(cache, cost) /\ ExactAnswersWork
  BY DEF Init, OneCost, NoAnswer, ExactAnswersWork
<1>2. OneCost(cache, cost) /\ IInv /\ [Next]_vars => OneCost(cache, cost)'
  BY OneCostKept
<1>3. OneCost(cache, cost) /\ IInv /\ ExactAnswersWork /\ [Next]_vars => ExactAnswersWork'
  <2> SUFFICES ASSUME OneCost(cache, cost), IInv, ExactAnswersWork, [Next]_vars
               PROVE  ExactAnswersWork'
    OBVIOUS
  <2>1. ASSUME NEW c \in Calls, MakePlanCached(c) PROVE ExactAnswersWork'
    <3>1. PICK k \in Slots(cache, c.goal) : Hit(c, k) \/ Fill(c, k)
      BY <2>1 DEF MakePlanCached
    <3>2. CASE Hit(c, k)
      <4>1. PICK p \in FindPlan(Stored(cache, k), c) : answer' = Result(c, "cache", p)
        BY <3>2 DEF Hit
      <4>2. world' = world /\ cache' = cache
        BY <2>1, <3>2 DEF MakePlanCached, Hit
      <4> QED
        BY <4>1, <4>2, AnswerWorks
    <3>3. CASE Fill(c, k)
      <4>1. answer'.from = "search"
        BY <3>3 DEF Fill, Result
      <4> QED
        BY <4>1 DEF ExactAnswersWork
    <3> QED
      BY <3>1, <3>2, <3>3
  <2>2. ASSUME NEW c \in Calls, Find(c) PROVE ExactAnswersWork'
    <3>1. PICK k \in Slots(cache, c.goal) :
            /\ cache' = WithEntry(cache, k, Stored(cache, k))
            /\ \E p : /\ answer' = Result(c, "cache", p)
                      /\ p \in FindPlan(Stored(cache, k), c) \/ p = <<>>
      BY <2>2 DEF Find
    <3>2. \A j \in DOMAIN cache' : \A i \in DOMAIN cache'[j] :
            j \in DOMAIN cache /\ cache'[j] = cache[j]
      BY <3>1 DEF WithEntry, Stored
    <3>3. Passes(cache', c) => Passes(cache, c)
      BY <3>2 DEF Passes
    <3> QED
      BY <2>2, <3>1, <3>3, AnswerWorks DEF Find
  <2>3. ASSUME \/ \E c \in Calls : CacheStates(c)
               \/ \E A \in ActionSets : SetPlanningActions(A)
               \/ Clear
        PROVE  ExactAnswersWork'
    BY <2>3 DEF CacheStates, SetPlanningActions, Clear, NoAnswer, ExactAnswersWork
  <2>4. CASE UNCHANGED vars
    BY <2>4 DEF vars, ExactAnswersWork, PassesBy, Posed, AllExecutable, StateAfter
  <2> QED
    BY <2>1, <2>2, <2>3, <2>4 DEF Next
<1> QED
  BY <1>1, <1>2, <1>3, Invariance, PTL DEF Spec
=============================================================================
