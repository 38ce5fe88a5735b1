------------------------- MODULE PlanningProblemProofs -------------------------
(***************************************************************************)
(* What running a list of actions does, for any problem: the states it     *)
(* leads through, and the data that can be reached at all.                 *)
(***************************************************************************)
EXTENDS PlanningProblem, Integers, FiniteSetTheorems, WellFoundedInduction, TLAPS

-----------------------------------------------------------------------------
(***************************************************************************)
(* Induction over the integers, in a form without an operator parameter.   *)
(***************************************************************************)
\* Every non-empty set of natural numbers has a least element.
LEMMA LeastNatural ==
  ASSUME NEW T \in SUBSET Nat, T # {}
  PROVE  \E n \in T : \A m \in T : n <= m
<1>1. \E n \in T : \A m \in T : ~ (<<m, n>> \in OpToRel(<, Nat))
  BY NatLessThanWellFounded, WFMin
<1>2. PICK n \in T : \A m \in T : ~ (<<m, n>> \in OpToRel(<, Nat))
  BY <1>1
<1>3. ASSUME NEW m \in T
      PROVE  n <= m
  <2>1. <<m, n>> \notin OpToRel(<, Nat)
    BY <1>2
  <2>2. ~ (m < n)
    BY <2>1 DEF OpToRel
  <2> QED
    BY <2>2
<1> QED
  BY <1>3

\* A set that contains 0 and, below N, the successor of each of its members contains
\* every number up to N.
LEMMA UpTo ==
  ASSUME NEW N \in Nat, NEW S, 0 \in S, \A n \in 0 .. N - 1 : n \in S => n + 1 \in S
  PROVE  \A n \in 0 .. N : n \in S
<1> DEFINE Bad == {n \in 0 .. N : n \notin S}
<1> SUFFICES ASSUME Bad # {} PROVE FALSE
  OBVIOUS
<1>1. PICK n \in Bad : \A m \in Bad : n <= m
  <2>1. Bad \in SUBSET Nat
    OBVIOUS
  <2> QED
    BY <2>1, LeastNatural
<1>2. n \in 0 .. N /\ n \notin S /\ n # 0
  OBVIOUS
<1>3. n - 1 \in 0 .. N - 1 /\ n - 1 \notin Bad /\ (n - 1) + 1 = n
  BY <1>1, <1>2
<1>4. n - 1 \in S
  BY <1>3
<1> QED
  BY <1>2, <1>3, <1>4
-----------------------------------------------------------------------------
(***************************************************************************)
(* The recursive function by which running a list of actions is modelled   *)
(* exists and obeys its equation.                                          *)
(***************************************************************************)
TrajectoryStep(w, actions, f, n) ==
  f = [i \in 0 .. n |-> IF i = 0 THEN w.start ELSE Execute(w, f[i - 1], actions[i])]

\* Some function obeys the recursive equation of Trajectory.
LEMMA TrajectoryExists ==
  ASSUME NEW w, NEW actions, NEW N \in Nat
  PROVE  \E f : TrajectoryStep(w, actions, f, N)
<1> DEFINE S == {n \in Nat : \E f : TrajectoryStep(w, actions, f, n)}
<1>1. 0 \in S
  <2>1. TrajectoryStep(w, actions, [i \in 0 .. 0 |-> w.start], 0)
    BY DEF TrajectoryStep
  <2> QED
    BY <2>1
<1>2. ASSUME NEW n \in 0 .. N - 1, n \in S PROVE n + 1 \in S
  <2>1. PICK f : TrajectoryStep(w, actions, f, n)
    BY <1>2
  <2>2. n \in Nat /\ n + 1 \in Nat /\ (n + 1) - 1 = n
    BY <1>2
  <2> DEFINE g == [i \in 0 .. n + 1 |->
                     IF i = n + 1 THEN Execute(w, f[n], actions[n + 1]) ELSE f[i]]
  <2>3. \A i \in 0 .. n : g[i] = f[i]
    BY <2>2
  <2>4. \A i \in 0 .. n : f[i] = IF i = 0 THEN w.start ELSE Execute(w, f[i - 1], actions[i])
    BY <2>1 DEF TrajectoryStep
  <2>5. g[n + 1] = Execute(w, f[n], actions[n + 1])
    BY <2>2
  <2>6. g = [i \in 0 .. n + 1 |-> g[i]]
    OBVIOUS
  <2> HIDE DEF g
  <2>7. \A i \in 0 .. n + 1 : g[i] = IF i = 0 THEN w.start ELSE Execute(w, g[i - 1], actions[i])
    <3> TAKE i \in 0 .. n + 1
    <3>1. CASE i = n + 1
      BY <2>2, <2>3, <2>5, <3>1
    <3>2. CASE i # n + 1
      <4>1. i \in 0 .. n /\ (i # 0 => i - 1 \in 0 .. n)
        BY <2>2, <3>2
      <4> QED
        BY <2>3, <2>4, <4>1
    <3> QED
      BY <3>1, <3>2
  <2>8. TrajectoryStep(w, actions, g, n + 1)
    BY <2>6, <2>7 DEF TrajectoryStep
  <2> QED
    BY <2>2, <2>8
<1> HIDE DEF S
<1>3. \A n \in 0 .. N : n \in S
  BY <1>1, <1>2, UpTo
<1> QED
  BY <1>3 DEF S

\* The states an action list leads through: the initial one, then one execution after
\* another.
LEMMA TrajectoryDef ==
  ASSUME NEW w, NEW actions \in Seq(Actions)
  PROVE  /\ Trajectory(w, actions)[0] = w.start
         /\ \A n \in 1 .. Len(actions) :
              Trajectory(w, actions)[n] = Execute(w, Trajectory(w, actions)[n - 1], actions[n])
<1>1. Len(actions) \in Nat
  OBVIOUS
<1>2. TrajectoryStep(w, actions, Trajectory(w, actions), Len(actions))
  <2>1. Trajectory(w, actions) = CHOOSE f : TrajectoryStep(w, actions, f, Len(actions))
    BY DEF Trajectory, TrajectoryStep
  <2> QED
    BY <1>1, <2>1, TrajectoryExists
<1>3. \A n \in 0 .. Len(actions) :
        Trajectory(w, actions)[n] =
          IF n = 0 THEN w.start ELSE Execute(w, Trajectory(w, actions)[n - 1], actions[n])
  BY <1>2 DEF TrajectoryStep
<1> QED
  BY <1>1, <1>3
-----------------------------------------------------------------------------
(***************************************************************************)
(* Plans that can be executed.                                             *)
(***************************************************************************)
\* Every action of the plan can be executed in its turn.
Runs(w, plan) ==
  \A n \in 1 .. Len(plan) : CanExecute(w, Trajectory(w, plan)[n - 1], plan[n])

\* What a problem is for these lemmas.
Typed(w) == /\ w.start \in State
            /\ w.step \in [Data -> [Actions -> State \cup {Inexecutable}]]

\* The states on the way are states.
LEMMA RunsThroughStates ==
  ASSUME NEW w, Typed(w), NEW plan \in Seq(Actions), Runs(w, plan)
  PROVE  \A n \in 0 .. Len(plan) : Trajectory(w, plan)[n] \in State
<1> DEFINE T == Trajectory(w, plan)
           S == {n \in 0 .. Len(plan) : T[n] \in State}
<1>1. Len(plan) \in Nat
  OBVIOUS
<1>2. 0 \in S
  BY <1>1, TrajectoryDef DEF Typed
<1>3. ASSUME NEW n \in 0 .. Len(plan) - 1, n \in S PROVE n + 1 \in S
  <2>1. n + 1 \in 1 .. Len(plan) /\ (n + 1) - 1 = n /\ plan[n + 1] \in Actions
    BY <1>1
  <2>2. T[n + 1] = Execute(w, T[n], plan[n + 1]) /\ CanExecute(w, T[n], plan[n + 1])
    BY <2>1, TrajectoryDef DEF Runs
  <2>3. T[n].data \in Data
    BY <1>3 DEF State
  <2>4. w.step[T[n].data][plan[n + 1]] \in State
    BY <2>1, <2>2, <2>3 DEF Typed, CanExecute
  <2> QED
    BY <1>1, <2>1, <2>2, <2>4 DEF Execute
<1> HIDE DEF S
<1>4. \A n \in 0 .. Len(plan) : n \in S
  BY <1>1, <1>2, <1>3, UpTo
<1> QED
  BY <1>4 DEF S

\* An action more adds a state and leaves the ones before as they are.
LEMMA TrajectoryAppended ==
  ASSUME NEW w, NEW plan \in Seq(Actions), NEW a \in Actions
  PROVE  /\ Append(plan, a) \in Seq(Actions)
         /\ Len(Append(plan, a)) = Len(plan) + 1
         /\ \A n \in 0 .. Len(plan) :
              Trajectory(w, Append(plan, a))[n] = Trajectory(w, plan)[n]
         /\ Trajectory(w, Append(plan, a))[Len(plan) + 1] = Execute(w, StateAfter(w, plan), a)
         /\ StateAfter(w, Append(plan, a)) = Execute(w, StateAfter(w, plan), a)
<1>longer. PICK longer : longer = Append(plan, a)
  OBVIOUS
<1>1. /\ Len(plan) \in Nat
      /\ longer \in Seq(Actions) /\ Len(longer) = Len(plan) + 1
      /\ \A n \in 1 .. Len(plan) : longer[n] = plan[n]
      /\ longer[Len(plan) + 1] = a
  BY <1>longer
<1> DEFINE T == Trajectory(w, plan)
           U == Trajectory(w, longer)
           S == {n \in 0 .. Len(plan) : U[n] = T[n]}
<1>2. U[0] = w.start /\ \A n \in 1 .. Len(plan) + 1 : U[n] = Execute(w, U[n - 1], longer[n])
  BY <1>1, TrajectoryDef, SMTT(30)
<1>3. T[0] = w.start /\ \A n \in 1 .. Len(plan) : T[n] = Execute(w, T[n - 1], plan[n])
  BY TrajectoryDef
<1>4. 0 \in S
  BY <1>1, <1>2, <1>3
<1>5. ASSUME NEW n \in 0 .. Len(plan) - 1, n \in S PROVE n + 1 \in S
  <2>1. /\ n + 1 \in 1 .. Len(plan) /\ n + 1 \in 1 .. Len(plan) + 1
        /\ (n + 1) - 1 = n /\ n + 1 \in 0 .. Len(plan)
    BY <1>1
  <2>2. U[n + 1] = Execute(w, U[n], longer[n + 1])
    BY <1>2, <2>1
  <2>3. T[n + 1] = Execute(w, T[n], plan[n + 1])
    BY <1>3, <2>1
  <2> QED
    BY <1>1, <1>5, <2>1, <2>2, <2>3
<1>6. \A n \in 0 .. Len(plan) : n \in S
  <2> HIDE DEF S
  <2> QED
    BY <1>1, <1>4, <1>5, UpTo
<1>7. \A n \in 0 .. Len(plan) : U[n] = T[n]
  BY <1>6
<1>8. U[Len(plan) + 1] = Execute(w, StateAfter(w, plan), a)
  <2>1. /\ Len(plan) + 1 \in 1 .. Len(plan) + 1 /\ (Len(plan) + 1) - 1 = Len(plan)
        /\ Len(plan) \in 0 .. Len(plan)
    BY <1>1
  <2>2. U[Len(plan) + 1] = Execute(w, U[Len(plan)], longer[Len(plan) + 1])
    BY <1>2, <2>1
  <2> QED
    BY <1>1, <1>7, <2>1, <2>2 DEF StateAfter
<1>9. StateAfter(w, longer) = U[Len(plan) + 1]
  BY <1>1 DEF StateAfter
<1> QED
  BY <1>1, <1>7, <1>8, <1>9, <1>longer

\* A plan that can be executed goes on with an action that can be executed where it ends.
LEMMA RunsAppended ==
  ASSUME NEW w, NEW plan \in Seq(Actions), Runs(w, plan),
         NEW a \in Actions, CanExecute(w, StateAfter(w, plan), a)
  PROVE  Runs(w, Append(plan, a))
<1>longer. PICK longer : longer = Append(plan, a)
  OBVIOUS
<1>1. /\ Len(plan) \in Nat
      /\ Len(longer) = Len(plan) + 1
      /\ \A n \in 1 .. Len(plan) : longer[n] = plan[n]
      /\ longer[Len(plan) + 1] = a
  BY <1>longer
<1>2. \A n \in 0 .. Len(plan) : Trajectory(w, longer)[n] = Trajectory(w, plan)[n]
  BY <1>longer, TrajectoryAppended
<1>3. ASSUME NEW n \in 1 .. Len(longer)
      PROVE  CanExecute(w, Trajectory(w, longer)[n - 1], longer[n])
  <2>1. n - 1 \in 0 .. Len(plan)
    BY <1>1
  <2>2. Trajectory(w, longer)[n - 1] = Trajectory(w, plan)[n - 1]
    BY <1>2, <2>1
  <2>3. CASE n = Len(plan) + 1
    <3>1. n - 1 = Len(plan)
      BY <1>1, <2>3
    <3> QED
      BY <1>1, <2>2, <2>3, <3>1 DEF StateAfter
  <2>4. CASE n # Len(plan) + 1
    <3>1. n \in 1 .. Len(plan)
      BY <1>1, <2>4
    <3> QED
      BY <1>1, <2>2, <3>1 DEF Runs
  <2> QED
    BY <2>3, <2>4
<1> QED
  BY <1>3, <1>longer DEF Runs

\* A plan that can be executed and ends in a good state solves the problem.
LEMMA RunsSolve ==
  ASSUME NEW w, Typed(w), NEW plan \in Seq(Actions), plan # <<>>, Runs(w, plan),
         StateAfter(w, plan).data \in w.enough
  PROVE  Solves(w, plan)
<1>1. Len(plan) \in Nat
  OBVIOUS
<1>2. ASSUME NEW n \in 1 .. Len(plan)
      PROVE  Trajectory(w, plan)[n - 1] # Inexecutable
  <2>1. n - 1 \in 0 .. Len(plan)
    BY <1>1
  <2>2. Trajectory(w, plan)[n - 1] \in State
    BY <2>1, RunsThroughStates
  <2> QED
    BY <2>2, DataAssumption DEF State
<1> QED
  BY <1>2 DEF Solves, Runs
-----------------------------------------------------------------------------
(***************************************************************************)
(* What can be reached.                                                    *)
(***************************************************************************)
ReachedStep(w, f, n) ==
  f = [i \in 0 .. n |-> IF i = 0 THEN {w.start.data} ELSE Successors(w, f[i - 1])]

\* Some function obeys the recursive equation of Reached.
LEMMA ReachedExists ==
  ASSUME NEW w, NEW N \in Nat
  PROVE  \E f : ReachedStep(w, f, N)
<1> DEFINE S == {n \in Nat : \E f : ReachedStep(w, f, n)}
<1>1. 0 \in S
  <2>1. ReachedStep(w, [i \in 0 .. 0 |-> {w.start.data}], 0)
    BY DEF ReachedStep
  <2> QED
    BY <2>1
<1>2. ASSUME NEW n \in 0 .. N - 1, n \in S PROVE n + 1 \in S
  <2>1. PICK f : ReachedStep(w, f, n)
    BY <1>2
  <2>2. n \in Nat /\ n + 1 \in Nat /\ (n + 1) - 1 = n
    BY <1>2
  <2> DEFINE g == [i \in 0 .. n + 1 |-> IF i = n + 1 THEN Successors(w, f[n]) ELSE f[i]]
  <2>3. \A i \in 0 .. n : g[i] = f[i]
    BY <2>2
  <2>4. \A i \in 0 .. n : f[i] = IF i = 0 THEN {w.start.data} ELSE Successors(w, f[i - 1])
    BY <2>1 DEF ReachedStep
  <2>5. g[n + 1] = Successors(w, f[n])
    BY <2>2
  <2>6. g = [i \in 0 .. n + 1 |-> g[i]]
    OBVIOUS
  <2> HIDE DEF g
  <2>7. \A i \in 0 .. n + 1 : g[i] = IF i = 0 THEN {w.start.data} ELSE Successors(w, g[i - 1])
    <3> TAKE i \in 0 .. n + 1
    <3>1. CASE i = n + 1
      BY <2>2, <2>3, <2>5, <3>1
    <3>2. CASE i # n + 1
      <4>1. i \in 0 .. n /\ (i # 0 => i - 1 \in 0 .. n)
        BY <2>2, <3>2
      <4> QED
        BY <2>3, <2>4, <4>1
    <3> QED
      BY <3>1, <3>2
  <2>8. ReachedStep(w, g, n + 1)
    BY <2>6, <2>7 DEF ReachedStep
  <2> QED
    BY <2>2, <2>8
<1> HIDE DEF S
<1>3. \A n \in 0 .. N : n \in S
  BY <1>1, <1>2, UpTo
<1> QED
  BY <1>3 DEF S

\* What n actions reach, from what n - 1 reach.
LEMMA ReachedDef ==
  ASSUME NEW w
  PROVE  /\ Reached(w)[0] = {w.start.data}
         /\ \A n \in 1 .. Cardinality(Data) :
              Reached(w)[n] = Successors(w, Reached(w)[n - 1])
<1>N. PICK N : N = Cardinality(Data)
  OBVIOUS
<1>1. N \in Nat
  BY <1>N, DataAssumption, FS_CardinalityType
<1>R. PICK R : R = Reached(w)
  OBVIOUS
<1>2. ReachedStep(w, R, N)
  <2>1. R = CHOOSE f : ReachedStep(w, f, N)
    BY <1>R, <1>N DEF Reached, ReachedStep
  <2> QED
    BY <1>1, <2>1, ReachedExists
<1>3. \A i \in 0 .. N : R[i] = IF i = 0 THEN {w.start.data} ELSE Successors(w, R[i - 1])
  BY <1>2 DEF ReachedStep
<1>4. R[0] = {w.start.data} /\ \A i \in 1 .. N : R[i] = Successors(w, R[i - 1])
  BY <1>1, <1>3
<1> QED
  BY <1>4, <1>N, <1>R

\* A set of data that holds the initial one, is closed under the actions and has no
\* good one but the initial one shows that the problem has no solution.
LEMMA ClosedUnsolvable ==
  ASSUME NEW w, NEW D, w.start.data \in D,
         \A d \in D, a \in Actions : w.step[d][a] # Inexecutable => w.step[d][a].data \in D,
         D \cap w.enough \subseteq {w.start.data}
  PROVE  Unsolvable(w)
<1>N. PICK N : N = Cardinality(Data)
  OBVIOUS
<1>1. N \in Nat
  BY <1>N, DataAssumption, FS_CardinalityType
<1>R. PICK R : R = Reached(w)
  OBVIOUS
<1>3. /\ R[0] = {w.start.data}
      /\ \A i \in 1 .. N : R[i] = Successors(w, R[i - 1])
  BY <1>N, <1>R, ReachedDef
<1> DEFINE S == {n \in 0 .. N : R[n] \subseteq D}
<1>4. 0 \in S
  BY <1>1, <1>3
<1>5. ASSUME NEW n \in 0 .. N - 1, n \in S PROVE n + 1 \in S
  <2>1. n + 1 \in 0 .. N /\ n + 1 \in 1 .. N /\ (n + 1) - 1 = n
    BY <1>1
  <2>2. R[n + 1] = Successors(w, R[n])
    BY <1>3, <2>1
  <2>3. R[n] \subseteq D
    BY <1>5
  <2>4. Successors(w, R[n]) \subseteq D
    <3> SUFFICES ASSUME NEW x \in Successors(w, R[n]) PROVE x \in D
      OBVIOUS
    <3>1. PICK d \in R[n], a \in Actions : w.step[d][a] # Inexecutable /\ x = w.step[d][a].data
      BY DEF Successors
    <3> QED
      BY <2>3, <3>1
  <2> QED
    BY <2>1, <2>2, <2>4
<1>6. \A n \in 0 .. N : n \in S
  <2> HIDE DEF S
  <2> QED
    BY <1>1, <1>4, <1>5, UpTo
<1>7. \A n \in 1 .. N : R[n] \subseteq D
  BY <1>1, <1>6
<1> QED
  BY <1>7, <1>N, <1>R DEF Unsolvable
=============================================================================
