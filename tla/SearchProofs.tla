------------------------------ MODULE SearchProofs ------------------------------
(***************************************************************************)
(* What a call of makePlan() keeps true while it searches, and what it     *)
(* answers, for any problems, actions, meters and either kind of frontier, *)
(* and how many rounds it makes at most.                                   *)
(***************************************************************************)
EXTENDS Search, PlanningProblemProofs, SequenceTheorems

\* The paths that the frontier can hold: those whose cost has a key.
Fitting == {p \in Path : LLONG_MIN <= Frontier!ICost(p) /\ Frontier!ICost(p) < LLONG_MAX}

\* What is proved of a queue whose paths all have keys.
Queue == INSTANCE PrioritizedQueueProofs
           WITH Paths <- Fitting, Cost <- PathCost, UnitsPerCent <- 1,
                pq <- unvisited, ret <- path, arrival <- <<>>
-----------------------------------------------------------------------------
(***************************************************************************)
(* The frontier is such a queue: the two instances have the same           *)
(* operators, which do not depend on the set of paths.                     *)
(***************************************************************************)
\* The keys agree.
LEMMA SameKey == \A p : Queue!ICost(p) = Frontier!ICost(p)
BY DEF Queue!ICost, Frontier!ICost, Queue!Truncate, Frontier!Truncate

\* The paths satisfy what the queue assumes of them.
LEMMA QueueAssumptions ==
  Queue!ScaleAssumption /\ Queue!CostAssumption /\ Queue!NullAssumption
<1>1. Queue!ScaleAssumption
  BY DEF Queue!ScaleAssumption
<1>2. Queue!CostAssumption
  <2>1. \A p \in Fitting : PathCost(p) \in Int
    BY DEF Fitting, PathCost, Path
  <2>2. \A p \in Fitting : LLONG_MIN <= Queue!ICost(p) /\ Queue!ICost(p) < LLONG_MAX
    BY SameKey DEF Fitting
  <2>3. LLONG_MIN \in Int /\ LLONG_MAX \in Int /\ LLONG_MIN < LLONG_MAX
    <3>1. PICK limit : limit = 1001 + (4 + MostStates) * MaxCost
      OBVIOUS
    <3>2. limit \in Nat
      <4>1. IsFiniteSet(Data) /\ IsFiniteSet(Actions)
        BY DataAssumption, ActionsAssumption
      <4>2. Cardinality(Data) \in Nat /\ Cardinality(Actions) \in Nat
        BY <4>1, FS_CardinalityType
      <4>3. MostStates \in Nat
        BY <4>2 DEF MostStates
      <4>4. 4 + MostStates \in Nat /\ MaxCost \in Nat
        BY <4>3, KeysAssumption
      <4>5. \A m, n \in Nat : m * n \in Nat
        OBVIOUS
      <4>6. (4 + MostStates) * MaxCost \in Nat
        BY <4>4, <4>5
      <4> QED
        BY <3>1, <4>6
    <3> QED
      BY <3>1, <3>2, KeysAssumption
  <2> QED
    BY <2>1, <2>2, <2>3 DEF Queue!CostAssumption
<1>3. Queue!NullAssumption
  BY NullAssumption DEF Queue!NullAssumption, Fitting
<1> QED
  BY <1>1, <1>2, <1>3

\* The operators are built from one another, so they agree from the first to the last.
LEMMA SamePush ==
  /\ \A queues, k : Queue!Bucket(queues, k) = Frontier!Bucket(queues, k)
  /\ \A queues, k, list : Queue!Store(queues, k, list) = Frontier!Store(queues, k, list)
  /\ \A q, p : Queue!Pushed(q, p) = Frontier!Pushed(q, p)
  /\ \A q, p : Queue!PushedLazy(q, p) = Frontier!PushedLazy(q, p)
<1>1. \A queues, k : Queue!Bucket(queues, k) = Frontier!Bucket(queues, k)
  BY DEF Queue!Bucket, Frontier!Bucket
<1>2. \A queues, k, list : Queue!Store(queues, k, list) = Frontier!Store(queues, k, list)
  BY DEF Queue!Store, Frontier!Store
<1>3. \A q, p : Queue!Pushed(q, p) = Frontier!Pushed(q, p)
  BY <1>1, <1>2, SameKey DEF Queue!Pushed, Frontier!Pushed
<1>4. \A q, p : Queue!PushedLazy(q, p) = Frontier!PushedLazy(q, p)
  BY DEF Queue!PushedLazy, Frontier!PushedLazy
<1> QED
  BY <1>1, <1>2, <1>3, <1>4

\* The reinsertion of lazy paths agrees.
LEMMA SameReinsertion ==
  ASSUME NEW q
  PROVE  /\ Queue!Reinserted(q) = Frontier!Reinserted(q)
         /\ Queue!Refilled(q) = Frontier!Refilled(q)
         /\ Queue!IsEmpty(q) = Frontier!IsEmpty(q)
<1>1. \A r : Queue!Insertions(r) = Frontier!Insertions(r)
  BY SamePush DEF Queue!Insertions, Frontier!Insertions
<1>2. \A r : Queue!Reinserted(r) = Frontier!Reinserted(r)
  BY <1>1 DEF Queue!Reinserted, Frontier!Reinserted
<1>3. Queue!Refilled(q) = Frontier!Refilled(q)
  BY <1>2 DEF Queue!Refilled, Frontier!Refilled
<1>4. Queue!IsEmpty(q) = Frontier!IsEmpty(q)
  BY DEF Queue!IsEmpty, Frontier!IsEmpty
<1> QED
  BY <1>2, <1>3, <1>4

\* pop() agrees.
LEMMA SamePop ==
  ASSUME NEW q
  PROVE  Queue!Popped(q) = Frontier!Popped(q)
<1>1. \A queues : Queue!LeastKey(queues) = Frontier!LeastKey(queues)
  BY DEF Queue!LeastKey, Frontier!LeastKey
<1>2. \A r, m : Queue!Drained(r, m) = Frontier!Drained(r, m)
  BY <1>1, SameReinsertion DEF Queue!Drained, Frontier!Drained, Queue!Erase, Frontier!Erase
<1> QED
  BY <1>2, SamePush, SameReinsertion
     DEF Queue!Popped, Frontier!Popped, Queue!Rest, Frontier!Rest, Queue!Chosen, Frontier!Chosen

\* What an object holds agrees.
LEMMA SameHeld ==
  \A q : /\ Queue!Ready(q) = Frontier!Ready(q)
         /\ Queue!Waiting(q) = Frontier!Waiting(q)
         /\ Queue!Held(q) = Frontier!Held(q)
BY DEF Queue!Held, Frontier!Held, Queue!Ready, Frontier!Ready, Queue!Waiting, Frontier!Waiting,
       Queue!Elements, Frontier!Elements

\* pop() of a frontier that is not empty takes out one path that fits.
LEMMA Taken ==
  ASSUME NEW q, Queue!Settled(q), ~ Frontier!IsEmpty(q)
  PROVE  /\ Queue!Settled(Frontier!Popped(q).pq)
         /\ Frontier!Popped(q).value \in Fitting
         /\ Frontier!Held(q) =
              Frontier!Held(Frontier!Popped(q).pq) \cup {Frontier!Popped(q).value}
<1>1. ~ Queue!IsEmpty(q) /\ Queue!Popped(q) = Frontier!Popped(q)
  BY SameReinsertion, SamePop
<1>2. Queue!Settled(Queue!Popped(q).pq)
  BY QueueAssumptions, Queue!PoppedSettled
     DEF Queue!ScaleAssumption, Queue!CostAssumption, Queue!NullAssumption
<1>3. /\ Queue!Popped(q).value \in Fitting
      /\ Queue!Held(q) = Queue!Held(Queue!Popped(q).pq) \cup {Queue!Popped(q).value}
  BY <1>1, QueueAssumptions, Queue!PoppedHeld
     DEF Queue!ScaleAssumption, Queue!CostAssumption, Queue!NullAssumption
<1> QED
  BY <1>1, <1>2, <1>3, SameHeld

\* pop() takes it from the ready ones, R, which are those that wait, W, when no other
\* is left, and lets all that wait in or none.
LEMMA TakenLeast ==
  ASSUME NEW q, Queue!Settled(q), ~ Frontier!IsEmpty(q)
  PROVE  \E R, W :
           /\ \/ R = Frontier!Ready(q) /\ W = Frontier!Waiting(q)
              \/ Frontier!Ready(q) = {} /\ R = Frontier!Waiting(q) /\ W = {}
           /\ Frontier!Popped(q).value \in R
           /\ \A p \in R : Frontier!ICost(Frontier!Popped(q).value) <= Frontier!ICost(p)
           /\ R \cup W = Frontier!Held(Frontier!Popped(q).pq) \cup {Frontier!Popped(q).value}
           /\ \/ /\ Frontier!Waiting(Frontier!Popped(q).pq) = W
                 /\ Frontier!Ready(Frontier!Popped(q).pq) \subseteq R
              \/ Frontier!Waiting(Frontier!Popped(q).pq) = {}
<1>1. ~ Queue!IsEmpty(q) /\ Queue!Popped(q) = Frontier!Popped(q)
  BY SameReinsertion, SamePop
<1>f. PICK f : f = Queue!Refilled(q)
  OBVIOUS
<1>2. \/ f = q
      \/ /\ Queue!Ready(q) = {} /\ Queue!Ready(f) = Queue!Waiting(q)
         /\ Queue!Waiting(f) = {}
  BY <1>f, QueueAssumptions, Queue!RefilledReady
     DEF Queue!ScaleAssumption, Queue!CostAssumption, Queue!NullAssumption
<1>3. /\ Queue!Popped(q).value \in Queue!Ready(f)
      /\ \A p \in Queue!Ready(f) : Queue!ICost(Queue!Popped(q).value) <= Queue!ICost(p)
      /\ Queue!Held(f) = Queue!Held(Queue!Popped(q).pq) \cup {Queue!Popped(q).value}
      /\ \/ /\ Queue!Waiting(Queue!Popped(q).pq) = Queue!Waiting(f)
            /\ Queue!Ready(Queue!Popped(q).pq) \subseteq Queue!Ready(f)
         \/ Queue!Waiting(Queue!Popped(q).pq) = {}
  BY <1>1, <1>f, QueueAssumptions, Queue!PoppedReady
     DEF Queue!ScaleAssumption, Queue!CostAssumption, Queue!NullAssumption
<1>r. PICK r : r = Frontier!Popped(q).pq
  OBVIOUS
<1>c. PICK c : c = Frontier!Popped(q).value
  OBVIOUS
<1>R. PICK R : R = Queue!Ready(f)
  OBVIOUS
<1>W. PICK W : W = Queue!Waiting(f)
  OBVIOUS
<1>4. R \cup W = Queue!Held(f)
  BY <1>R, <1>W DEF Queue!Held
<1>5. /\ \/ R = Frontier!Ready(q) /\ W = Frontier!Waiting(q)
         \/ Frontier!Ready(q) = {} /\ R = Frontier!Waiting(q) /\ W = {}
  BY <1>2, <1>R, <1>W, SameHeld
<1>6. /\ c \in R /\ \A p \in R : Frontier!ICost(c) <= Frontier!ICost(p)
      /\ R \cup W = Frontier!Held(r) \cup {c}
      /\ \/ Frontier!Waiting(r) = W /\ Frontier!Ready(r) \subseteq R
         \/ Frontier!Waiting(r) = {}
  BY <1>1, <1>3, <1>4, <1>r, <1>c, <1>R, <1>W, SameHeld, SameKey
<1> QED
  BY <1>5, <1>6, <1>r, <1>c

\* pushLazy() puts in one path, which waits.
LEMMA Added ==
  ASSUME NEW q, Queue!Settled(q), NEW p \in Fitting
  PROVE  /\ Queue!Settled(Frontier!PushedLazy(q, p))
         /\ Frontier!Ready(Frontier!PushedLazy(q, p)) = Frontier!Ready(q)
         /\ Frontier!Waiting(Frontier!PushedLazy(q, p)) = Frontier!Waiting(q) \cup {p}
<1>1. Queue!PushedLazy(q, p) = Frontier!PushedLazy(q, p)
  BY SamePush
<1>2. Queue!Settled(Queue!PushedLazy(q, p))
  BY QueueAssumptions, Queue!PushedLazySettled
     DEF Queue!ScaleAssumption, Queue!CostAssumption, Queue!NullAssumption
<1>3. Queue!Object(q)
  BY DEF Queue!Settled, Queue!Sound
<1>4. /\ Queue!Ready(Queue!PushedLazy(q, p)) = Queue!Ready(q)
      /\ Queue!Waiting(Queue!PushedLazy(q, p)) = Queue!Waiting(q) \cup {p}
  BY <1>3, QueueAssumptions, Queue!PushedLazyHeld
     DEF Queue!ScaleAssumption, Queue!CostAssumption, Queue!NullAssumption
<1> QED
  BY <1>1, <1>2, <1>4, SameHeld

\* The frontier a call begins with, and the one it gives up with.
LEMMA Emptiness ==
  /\ \A m \in Frontier!Methods : Queue!Settled(Frontier!NewQueue(m))
  /\ \A m : Frontier!Held(Frontier!NewQueue(m)) = {}
  /\ \A q : Frontier!IsEmpty(q) => Frontier!Held(q) = {}
<1>1. \A m : Queue!NewQueue(m) = Frontier!NewQueue(m)
  BY DEF Queue!NewQueue, Frontier!NewQueue
<1>2. Queue!Methods = Frontier!Methods
  BY DEF Queue!Methods, Frontier!Methods
<1>3. \A m \in Queue!Methods : Queue!Settled(Queue!NewQueue(m))
  BY QueueAssumptions, Queue!NewQueueSettled
     DEF Queue!ScaleAssumption, Queue!CostAssumption, Queue!NullAssumption
<1>4. /\ \A q : Queue!IsEmpty(q) => Queue!Held(q) = {}
      /\ \A m : Queue!Held(Queue!NewQueue(m)) = {}
  BY QueueAssumptions, Queue!EmptyHeld
     DEF Queue!ScaleAssumption, Queue!CostAssumption, Queue!NullAssumption
<1> QED
  BY <1>1, <1>2, <1>3, <1>4, SameHeld, SameReinsertion

\* What is held fits, and the lists of a settled frontier are lists of paths.
LEMMA HeldFits ==
  ASSUME NEW q, Queue!Settled(q)
  PROVE  /\ Frontier!Held(q) \subseteq Fitting
         /\ q.lazy \in Seq(Path)
         /\ \A k \in DOMAIN q.queues : q.queues[k] \in Seq(Path)
<1>1. /\ q.lazy \in Seq(Fitting)
      /\ \A k \in DOMAIN q.queues : q.queues[k] \in Seq(Fitting)
  BY DEF Queue!Settled, Queue!Sound, Queue!Object
<1>2. \A list \in Seq(Fitting) :
        list \in Seq(Path) /\ \A i \in DOMAIN list : list[i] \in Fitting
  BY DEF Fitting
<1>3. Frontier!Held(q) \subseteq Fitting
  BY <1>1, <1>2 DEF Frontier!Held, Frontier!Ready, Frontier!Waiting, Frontier!Elements
<1> QED
  BY <1>1, <1>2, <1>3
-----------------------------------------------------------------------------
(***************************************************************************)
(* How long a path gets, and what it costs at most.                        *)
(***************************************************************************)
\* The members of Problems are problems.
LEMMA ProblemFacts ==
  ASSUME NEW w \in Problems
  PROVE  /\ Typed(w)
         /\ w.start \in State /\ w.enough \subseteq Data
         /\ w.distance \in [Data -> Int] /\ w.monotonic \in BOOLEAN
         /\ \A d \in Data, a \in Actions :
              w.step[d][a] # Inexecutable =>
                /\ w.step[d][a] \in State
                /\ w.distance[w.step[d][a].data] * w.step[d][a].cost \in (-MaxCost) .. MaxCost
<1>1. w \in Problem
  BY ProblemsAssumption
<1>2. /\ w.start \in State /\ w.step \in [Data -> [Actions -> State \cup {Inexecutable}]]
      /\ w.distance \in [Data -> Int] /\ w.enough \subseteq Data /\ w.monotonic \in BOOLEAN
  BY <1>1 DEF Problem
<1>3. \A d \in Data, a \in Actions :
        w.step[d][a] # Inexecutable =>
          w.distance[w.step[d][a].data] * w.step[d][a].cost \in (-MaxCost) .. MaxCost
  BY ProblemsAssumption
<1> QED
  BY <1>2, <1>3 DEF Typed

\* What a problem's actions lead to, with the initial state, is at most MostStates.
LEMMA FewStates ==
  ASSUME NEW w \in Problems
  PROVE  LET all == {w.start} \cup {w.step[da[1]][da[2]] : da \in Data \X Actions}
         IN  IsFiniteSet(all) /\ Cardinality(all) <= MostStates /\ MostStates \in Nat
<1>P. PICK P : P = Data \X Actions
  OBVIOUS
<1>T. PICK T : T = {w.step[da[1]][da[2]] : da \in P}
  OBVIOUS
<1>1. IsFiniteSet(Data) /\ IsFiniteSet(Actions)
  BY DataAssumption, ActionsAssumption
<1>2. Cardinality(Data) \in Nat /\ Cardinality(Actions) \in Nat
  BY <1>1, FS_CardinalityType
<1>3. IsFiniteSet(P) /\ Cardinality(P) = Cardinality(Data) * Cardinality(Actions)
  BY <1>P, <1>1, FS_Product
<1>4. Cardinality(P) \in Nat
  BY <1>3, FS_CardinalityType
<1>f. PICK f : f = [da \in P |-> w.step[da[1]][da[2]]]
  OBVIOUS
<1>5. f \in Surjection(P, T)
  BY <1>f, <1>T DEF Surjection
<1>6. IsFiniteSet(T) /\ Cardinality(T) <= Cardinality(P)
  BY <1>3, <1>5, FS_Surjection
<1>7. Cardinality(T) \in Nat
  BY <1>6, FS_CardinalityType
<1>8. /\ IsFiniteSet(T \cup {w.start})
      /\ Cardinality(T \cup {w.start}) = IF w.start \in T THEN Cardinality(T) ELSE Cardinality(T) + 1
  BY <1>6, FS_AddElement
<1>9. MostStates = 1 + Cardinality(P)
  BY <1>3 DEF MostStates
<1>10. Cardinality(T \cup {w.start}) <= MostStates /\ MostStates \in Nat
  BY <1>4, <1>6, <1>7, <1>8, <1>9
<1>11. {w.start} \cup {w.step[da[1]][da[2]] : da \in Data \X Actions} = T \cup {w.start}
  BY <1>P, <1>T
<1> QED
  BY <1>8, <1>10, <1>11

\* A plan all of whose states differ, up to the n-th, has at most MostStates of them.
LEMMA DistinctBound ==
  ASSUME NEW w \in Problems, NEW list \in Seq(Actions), Runs(w, list),
         \A m, n \in 0 .. Len(list) :
           m # n => Trajectory(w, list)[m] # Trajectory(w, list)[n]
  PROVE  Len(list) + 1 <= MostStates
<1>all. PICK all : all = {w.start} \cup {w.step[da[1]][da[2]] : da \in Data \X Actions}
  OBVIOUS
<1>1. IsFiniteSet(all) /\ Cardinality(all) <= MostStates /\ MostStates \in Nat
  BY <1>all, FewStates
<1>2. Len(list) \in Nat /\ Cardinality(all) \in Nat
  BY <1>1, FS_CardinalityType
<1> DEFINE T == Trajectory(w, list)
<1>3. ASSUME NEW n \in 0 .. Len(list) PROVE T[n] \in all
  <2>1. CASE n = 0
    BY <1>all, <2>1, TrajectoryDef, SMTT(20)
  <2>2. CASE n # 0
    <3>1. n \in 1 .. Len(list) /\ n - 1 \in 0 .. Len(list) /\ list[n] \in Actions
      BY <1>2, <2>2
    <3>2. T[n] = w.step[T[n - 1].data][list[n]]
      BY <3>1, TrajectoryDef DEF Execute
    <3>3. T[n - 1] \in State
      BY <3>1, ProblemFacts, RunsThroughStates
    <3>4. T[n - 1].data \in Data
      BY <3>3 DEF State
    <3>5. PICK da : da = <<T[n - 1].data, list[n]>>
      OBVIOUS
    <3>6. da \in Data \X Actions /\ da[1] = T[n - 1].data /\ da[2] = list[n]
      BY <3>1, <3>4, <3>5
    <3> HIDE DEF T
    <3>7. T[n] = w.step[da[1]][da[2]]
      BY <3>2, <3>6
    <3> QED
      BY <1>all, <3>6, <3>7
  <2> QED
    BY <2>1, <2>2
<1>f. PICK f : f = [n \in 0 .. Len(list) |-> T[n]]
  OBVIOUS
<1>4. f \in Injection(0 .. Len(list), all)
  <2>1. \A m, n \in 0 .. Len(list) : m # n => f[m] # f[n]
    BY <1>f
  <2>2. f \in [0 .. Len(list) -> all]
    BY <1>3, <1>f
  <2> QED
    BY <2>1, <2>2 DEF Injection, IsInjective
<1>5. Cardinality(0 .. Len(list)) <= Cardinality(all)
  BY <1>1, <1>4, FS_Injection
<1>6. Cardinality(0 .. Len(list)) = Len(list) + 1
  BY <1>2, FS_Interval
<1> QED
  BY <1>1, <1>2, <1>5, <1>6
-----------------------------------------------------------------------------
(***************************************************************************)
(* gather(): what it adds to the frontier.                                 *)
(***************************************************************************)
\* The path that action a makes of a parent that leads to the state from.
Child(w, min, parent, from, a) ==
  [actions |-> Append(parent.actions, a),
   cost    |-> ChildCost(w, min, parent.cost, Execute(w, from, a))]

\* One iteration of the loop of gather().
GatheredOne(w, sofar, parent, from, min, a) ==
  IF ~ CanExecute(w, from, a) THEN sofar
  ELSE [unvisited   |-> Frontier!PushedLazy(sofar.unvisited, Child(w, min, parent, from, a)),
        minDistance |-> IF IsLandmark(w, min, Execute(w, from, a))
                        THEN w.distance[Execute(w, from, a).data] ELSE sofar.minDistance]

GatheringStep(w, queue, parent, from, min, f, n) ==
  f = [i \in 0 .. n |->
         IF i = 0 THEN [unvisited |-> queue, minDistance |-> min]
         ELSE GatheredOne(w, f[i - 1], parent, from, min, ActionList[i])]

\* Some function obeys the recursive equation of Gathered.
LEMMA GatheringExists ==
  ASSUME NEW w, NEW queue, NEW parent, NEW from, NEW min, NEW N \in Nat
  PROVE  \E f : GatheringStep(w, queue, parent, from, min, f, N)
<1> DEFINE G(f, n) == GatheringStep(w, queue, parent, from, min, f, n)
           one(sofar, i) == GatheredOne(w, sofar, parent, from, min, ActionList[i])
           first == [unvisited |-> queue, minDistance |-> min]
           S == {n \in Nat : \E f : G(f, n)}
<1>G. \A f, n : G(f, n) <=> f = [i \in 0 .. n |-> IF i = 0 THEN first ELSE one(f[i - 1], i)]
  BY DEF GatheringStep
<1> HIDE DEF G, one, first
<1>1. 0 \in S
  <2>f. PICK f : f = [i \in 0 .. 0 |-> first]
    OBVIOUS
  <2>1. f = [i \in 0 .. 0 |-> IF i = 0 THEN first ELSE one(f[i - 1], i)]
    BY <2>f
  <2>2. G(f, 0)
    BY <2>1, <1>G
  <2> QED
    BY <2>2
<1>2. ASSUME NEW n \in 0 .. N - 1, n \in S PROVE n + 1 \in S
  <2>1. PICK f : G(f, n)
    BY <1>2
  <2>2. n \in Nat /\ n + 1 \in Nat /\ (n + 1) - 1 = n
    BY <1>2
  <2> DEFINE g == [i \in 0 .. n + 1 |-> IF i = n + 1 THEN one(f[n], n + 1) ELSE f[i]]
  <2>3. \A i \in 0 .. n : g[i] = f[i]
    BY <2>2
  <2>4. \A i \in 0 .. n : f[i] = IF i = 0 THEN first ELSE one(f[i - 1], i)
    BY <2>1, <1>G
  <2>5. g[n + 1] = one(f[n], n + 1)
    BY <2>2
  <2>6. g = [i \in 0 .. n + 1 |-> g[i]]
    OBVIOUS
  <2> HIDE DEF g
  <2>7. \A i \in 0 .. n + 1 : g[i] = IF i = 0 THEN first ELSE one(g[i - 1], i)
    <3> TAKE i \in 0 .. n + 1
    <3>1. CASE i = n + 1
      BY <2>2, <2>3, <2>5, <3>1
    <3>2. CASE i # n + 1
      <4>1. i \in 0 .. n /\ (i # 0 => i - 1 \in 0 .. n)
        BY <2>2, <3>2
      <4> QED
        BY <2>3, <2>4, <4>1
    <3> QED
      BY <3>1, <3>2
  <2>8. G(g, n + 1)
    BY <2>6, <2>7, <1>G
  <2> QED
    BY <2>2, <2>8
<1> HIDE DEF S
<1>3. \A n \in 0 .. N : n \in S
  BY <1>1, <1>2, UpTo
<1> QED
  BY <1>3 DEF S, G

\* gather() is its loop over the actions, from the first to the last.
LEMMA GatheredDef ==
  ASSUME NEW w, NEW queue, NEW parent, NEW from, NEW min
  PROVE  \E f : /\ f[0] = [unvisited |-> queue, minDistance |-> min]
                /\ \A n \in 1 .. Len(ActionList) :
                     f[n] = GatheredOne(w, f[n - 1], parent, from, min, ActionList[n])
                /\ Gathered(w, queue, parent, from, min) = f[Len(ActionList)]
<1>L. PICK L : L = Len(ActionList)
  OBVIOUS
<1>1. L \in Nat
  BY <1>L, ActionsAssumption
<1>f. PICK f : f = CHOOSE h : GatheringStep(w, queue, parent, from, min, h, L)
  OBVIOUS
<1>2. GatheringStep(w, queue, parent, from, min, f, L)
  BY <1>1, <1>f, GatheringExists
<1>3. Gathered(w, queue, parent, from, min) = f[L]
  BY <1>f, <1>L DEF Gathered, GatheringStep, GatheredOne, Child
<1>4. \A n \in 0 .. L :
        f[n] = IF n = 0 THEN [unvisited |-> queue, minDistance |-> min]
               ELSE GatheredOne(w, f[n - 1], parent, from, min, ActionList[n])
  BY <1>2 DEF GatheringStep
<1>5. f[0] = [unvisited |-> queue, minDistance |-> min]
  BY <1>1, <1>4
<1>6. \A n \in 1 .. L : f[n] = GatheredOne(w, f[n - 1], parent, from, min, ActionList[n])
  BY <1>1, <1>4
<1> QED
  BY <1>3, <1>5, <1>6, <1>L

\* Every action that can be executed adds its path to those that wait, and no other
\* path comes.
LEMMA GatheredFacts ==
  ASSUME NEW w \in Problems, NEW queue, Queue!Settled(queue), NEW parent, NEW from,
         NEW min \in Int,
         \A a \in Actions : CanExecute(w, from, a) =>
           Child(w, min, parent, from, a) \in Fitting /\ Execute(w, from, a) \in State
  PROVE  /\ Queue!Settled(Gathered(w, queue, parent, from, min).unvisited)
         /\ Gathered(w, queue, parent, from, min).minDistance \in Int
         /\ Frontier!Ready(Gathered(w, queue, parent, from, min).unvisited) =
              Frontier!Ready(queue)
         /\ \A p : p \in Frontier!Waiting(Gathered(w, queue, parent, from, min).unvisited) <=>
              \/ p \in Frontier!Waiting(queue)
              \/ \E a \in Actions :
                   CanExecute(w, from, a) /\ p = Child(w, min, parent, from, a)
         /\ \A p : p \in Frontier!Held(Gathered(w, queue, parent, from, min).unvisited) <=>
              \/ p \in Frontier!Held(queue)
              \/ \E a \in Actions :
                   CanExecute(w, from, a) /\ p = Child(w, min, parent, from, a)
<1>L. PICK L : L = Len(ActionList)
  OBVIOUS
<1>1. L \in Nat /\ \A n \in 1 .. L : ActionList[n] \in Actions
  BY <1>L, ActionsAssumption
<1>2. \A a \in Actions : \E n \in 1 .. L : ActionList[n] = a
  BY <1>L, ActionsAssumption
<1>G. PICK G : /\ G[0] = [unvisited |-> queue, minDistance |-> min]
               /\ \A n \in 1 .. Len(ActionList) :
                    G[n] = GatheredOne(w, G[n - 1], parent, from, min, ActionList[n])
               /\ Gathered(w, queue, parent, from, min) = G[Len(ActionList)]
  BY ONLY GatheredDef, SMTT(20)
<1>3. /\ G[0] = [unvisited |-> queue, minDistance |-> min]
      /\ \A n \in 1 .. L : G[n] = GatheredOne(w, G[n - 1], parent, from, min, ActionList[n])
      /\ Gathered(w, queue, parent, from, min) = G[L]
  BY <1>G, <1>L
<1> DEFINE child(a) == Child(w, min, parent, from, a)
           can(a)   == CanExecute(w, from, a)
           good(n)  == /\ Queue!Settled(G[n].unvisited)
                       /\ G[n].minDistance \in Int
                       /\ Frontier!Ready(G[n].unvisited) = Frontier!Ready(queue)
                       /\ \A p : p \in Frontier!Waiting(G[n].unvisited) <=>
                            \/ p \in Frontier!Waiting(queue)
                            \/ \E i \in 1 .. n : can(ActionList[i]) /\ p = child(ActionList[i])
           S        == {n \in 0 .. L : good(n)}
<1>4. 0 \in S
  <2>1. G[0].unvisited = queue /\ G[0].minDistance = min
    BY <1>3
  <2>2. good(0)
    BY <2>1
  <2> QED
    BY <1>1, <2>2
<1>5. ASSUME NEW n \in 0 .. L - 1, n \in S PROVE n + 1 \in S
  <2>1. n + 1 \in 1 .. L /\ (n + 1) - 1 = n /\ n + 1 \in 0 .. L /\ n \in Nat
    BY <1>1
  <2>2. good(n)
    BY <1>5
  <2>a. PICK a : a = ActionList[n + 1]
    OBVIOUS
  <2>3. a \in Actions
    BY <1>1, <2>1, <2>a
  <2>4. G[n + 1] = GatheredOne(w, G[n], parent, from, min, a)
    BY <1>3, <2>1, <2>a
  <2>5. \A i : i \in 1 .. n + 1 <=> (i \in 1 .. n \/ i = n + 1)
    BY <2>1
  <2>6. CASE ~ can(a)
    <3>1. G[n + 1] = G[n]
      BY <2>4, <2>6 DEF GatheredOne
    <3>2. ~ can(ActionList[n + 1])
      BY <2>6, <2>a
    <3> HIDE DEF can, child
    <3>3. good(n + 1)
      BY <2>2, <2>5, <3>1, <3>2
    <3> QED
      BY <2>1, <3>3
  <2>7. CASE can(a)
    <3>1. /\ G[n + 1].unvisited = Frontier!PushedLazy(G[n].unvisited, child(a))
          /\ G[n + 1].minDistance = IF IsLandmark(w, min, Execute(w, from, a))
                                    THEN w.distance[Execute(w, from, a).data]
                                    ELSE G[n].minDistance
      BY <2>4, <2>7 DEF GatheredOne
    <3>2. child(a) \in Fitting /\ Execute(w, from, a).data \in Data
      BY <2>3, <2>7 DEF State
    <3>3. G[n + 1].minDistance \in Int
      <4>1. w.distance \in [Data -> Int]
        BY ProblemFacts
      <4> QED
        BY <2>2, <3>1, <3>2, <4>1
    <3>4. can(ActionList[n + 1]) /\ child(ActionList[n + 1]) = child(a)
      BY <2>7, <2>a
    <3> HIDE DEF can, child
    <3>5. /\ Queue!Settled(G[n + 1].unvisited)
          /\ Frontier!Ready(G[n + 1].unvisited) = Frontier!Ready(G[n].unvisited)
          /\ Frontier!Waiting(G[n + 1].unvisited) =
               Frontier!Waiting(G[n].unvisited) \cup {child(a)}
      BY <2>2, <3>1, <3>2, Added
    <3>6. ASSUME NEW p
          PROVE  p \in Frontier!Waiting(G[n + 1].unvisited) <=>
                   \/ p \in Frontier!Waiting(queue)
                   \/ \E i \in 1 .. n + 1 : can(ActionList[i]) /\ p = child(ActionList[i])
      BY <2>2, <2>5, <3>4, <3>5
    <3>7. good(n + 1)
      BY <2>2, <3>3, <3>5, <3>6
    <3> QED
      BY <2>1, <3>7
  <2> QED
    BY <2>6, <2>7
<1>6. \A n \in 0 .. L : n \in S
  <2> HIDE DEF S
  <2> QED
    BY <1>1, <1>4, <1>5, UpTo
<1>7. good(L)
  BY <1>1, <1>6
<1> HIDE DEF can, child
<1>8. ASSUME NEW p
      PROVE  (\E i \in 1 .. L : can(ActionList[i]) /\ p = child(ActionList[i])) <=>
               \E a \in Actions : can(a) /\ p = child(a)
  BY <1>1, <1>2
<1>9. ASSUME NEW p
      PROVE  p \in Frontier!Waiting(G[L].unvisited) <=>
               \/ p \in Frontier!Waiting(queue)
               \/ \E a \in Actions : can(a) /\ p = child(a)
  BY <1>7, <1>8
<1>10. ASSUME NEW p
       PROVE  p \in Frontier!Held(G[L].unvisited) <=>
                \/ p \in Frontier!Held(queue)
                \/ \E a \in Actions : can(a) /\ p = child(a)
  BY <1>7, <1>9 DEF Frontier!Held
<1> QED
  BY <1>3, <1>7, <1>9, <1>10 DEF can, child
-----------------------------------------------------------------------------
(***************************************************************************)
(* The paths of the frontier: each runs through analysed states, all of    *)
(* them different, so that its cost has a key.                             *)
(***************************************************************************)
\* What a path of n actions costs at most, in hundredths and either direction.
Limit(n) == (4 + n) * MaxCost + 1000

\* An action more costs MaxCost more at most.
LEMMA LimitGrows ==
  /\ MaxCost \in Nat
  /\ \A n \in Nat : /\ Limit(n) \in Nat
                    /\ 4 * MaxCost + 1000 <= Limit(n)
                    /\ Limit(n + 1) = Limit(n) + MaxCost
  /\ \A m, n \in Nat : m <= n => Limit(m) <= Limit(n)
<1>1. MaxCost \in Nat
  BY KeysAssumption
<1>M. PICK M : M = MaxCost
  OBVIOUS
<1>2. ASSUME NEW n \in Nat
      PROVE  /\ (4 + n) * M \in Nat
             /\ (4 + n) * M = 4 * M + n * M
             /\ (4 + (n + 1)) * M = (4 + n) * M + M
             /\ n * M \in Nat
  BY <1>1, <1>M
<1>3. ASSUME NEW m \in Nat, NEW n \in Nat, m <= n
      PROVE  (4 + m) * M <= (4 + n) * M
  <2>1. n - m \in Nat /\ 4 + n = (4 + m) + (n - m)
    BY <1>3
  <2>2. (4 + n) * M = (4 + m) * M + (n - m) * M
    BY <1>1, <1>M, <2>1
  <2>3. (n - m) * M \in Nat
    BY <1>1, <1>M, <2>1
  <2> QED
    BY <1>1, <1>M, <1>2, <2>2, <2>3
<1>4. ASSUME NEW n \in Nat
      PROVE  /\ Limit(n) \in Nat
             /\ 4 * MaxCost + 1000 <= Limit(n)
             /\ Limit(n + 1) = Limit(n) + MaxCost
  <2>1. n + 1 \in Nat /\ Limit(n) = (4 + n) * M + 1000 /\ Limit(n + 1) = (4 + (n + 1)) * M + 1000
    BY <1>M DEF Limit
  <2> QED
    BY <1>1, <1>2, <1>M, <2>1
<1>5. ASSUME NEW m \in Nat, NEW n \in Nat, m <= n
      PROVE  Limit(m) <= Limit(n)
  <2>1. Limit(m) = (4 + m) * M + 1000 /\ Limit(n) = (4 + n) * M + 1000
    BY <1>M DEF Limit
  <2>2. (4 + m) * M <= (4 + n) * M /\ (4 + m) * M \in Nat /\ (4 + n) * M \in Nat
    BY <1>2, <1>3, <1>5
  <2> QED
    BY <2>1, <2>2
<1> QED
  BY <1>1, <1>4, <1>5

\* A path that can be executed, through different states of V before its last one.
Proper(w, V, p) ==
  /\ p \in Path /\ p.actions # <<>> /\ Runs(w, p.actions)
  /\ Len(p.actions) <= MostStates
  /\ \A n \in 0 .. Len(p.actions) - 1 : Trajectory(w, p.actions)[n] \in V
  /\ \A m, n \in 0 .. Len(p.actions) - 1 :
       m # n => Trajectory(w, p.actions)[m] # Trajectory(w, p.actions)[n]
  /\ -Limit(Len(p.actions)) <= p.cost /\ p.cost <= Limit(Len(p.actions))

\* A path that gather() is called for: its last state is a different one of V too.
Analysed(w, V, p) ==
  /\ p \in Path /\ Runs(w, p.actions)
  /\ \A n \in 0 .. Len(p.actions) : Trajectory(w, p.actions)[n] \in V
  /\ \A m, n \in 0 .. Len(p.actions) :
       m # n => Trajectory(w, p.actions)[m] # Trajectory(w, p.actions)[n]
  /\ -Limit(Len(p.actions)) <= p.cost /\ p.cost <= Limit(Len(p.actions))

\* Analysing more states leaves the paths of the frontier proper.
LEMMA ProperMonotonic ==
  ASSUME NEW w, NEW V, NEW W, V \subseteq W, NEW p, Proper(w, V, p)
  PROVE  Proper(w, W, p)
BY DEF Proper

\* The key of a path is its cost, or one more.
LEMMA KeyOfCost ==
  ASSUME NEW p, p.cost \in Int
  PROVE  Frontier!ICost(p) = p.cost \/ Frontier!ICost(p) = p.cost + 1
<1>c. PICK c : c = p.cost
  OBVIOUS
<1>1. c \in Int
  BY <1>c
<1>2. Frontier!ICost(p) = IF 2 * c + 1 >= 0 THEN (2 * c + 1) \div 2
                          ELSE -((-(2 * c + 1)) \div 2)
  BY <1>c, <1>1 DEF Frontier!ICost, Frontier!Truncate, PathCost
<1> QED
  BY <1>1, <1>2, <1>c

\* A proper path has a key.
LEMMA ProperFits ==
  ASSUME NEW w, NEW V, NEW p, Proper(w, V, p), MostStates \in Nat
  PROVE  p \in Fitting
<1>1. /\ p \in Path /\ p.cost \in Int /\ Len(p.actions) \in Nat /\ Len(p.actions) <= MostStates
      /\ -Limit(Len(p.actions)) <= p.cost /\ p.cost <= Limit(Len(p.actions))
  BY DEF Proper, Path
<1>2. Limit(Len(p.actions)) \in Nat /\ Limit(MostStates) \in Nat
  BY <1>1, LimitGrows
<1>3. Limit(Len(p.actions)) <= Limit(MostStates)
  BY <1>1, LimitGrows
<1>m. PICK m : m = (4 + MostStates) * MaxCost
  OBVIOUS
<1>4. Limit(MostStates) = m + 1000
  BY <1>m DEF Limit
<1>5. m \in Nat
  <2>1. 4 + MostStates \in Nat /\ MaxCost \in Nat
    BY KeysAssumption
  <2>2. \A i, j \in Nat : i * j \in Nat
    OBVIOUS
  <2> QED
    BY <1>m, <2>1, <2>2
<1>6. LLONG_MIN \in Int /\ LLONG_MAX \in Int /\ LLONG_MIN < -(1001 + m) /\ LLONG_MAX > 1001 + m
  BY KeysAssumption, <1>m
<1>7. -(m + 1000) <= p.cost /\ p.cost <= m + 1000
  BY <1>1, <1>2, <1>3, <1>4
<1>8. Frontier!ICost(p) = p.cost \/ Frontier!ICost(p) = p.cost + 1
  BY <1>1, KeyOfCost
<1>9. LLONG_MIN <= Frontier!ICost(p) /\ Frontier!ICost(p) < LLONG_MAX
  BY <1>1, <1>5, <1>6, <1>7, <1>8
<1> QED
  BY <1>1, <1>9 DEF Fitting

\* What gather() makes of an analysed path are proper paths to the next states.
LEMMA ChildProper ==
  ASSUME NEW w \in Problems, NEW V, NEW p, Analysed(w, V, p), NEW min \in Int,
         NEW a \in Actions, CanExecute(w, StateAfter(w, p.actions), a)
  PROVE  /\ Proper(w, V, Child(w, min, p, StateAfter(w, p.actions), a))
         /\ Child(w, min, p, StateAfter(w, p.actions), a) \in Fitting
         /\ Execute(w, StateAfter(w, p.actions), a) \in State
         /\ StateAfter(w, Child(w, min, p, StateAfter(w, p.actions), a).actions) =
              Execute(w, StateAfter(w, p.actions), a)
<1>s. PICK s : s = Execute(w, StateAfter(w, p.actions), a)
  OBVIOUS
<1>q. PICK q : q = Child(w, min, p, StateAfter(w, p.actions), a)
  OBVIOUS
<1>longer. PICK longer : longer = Append(p.actions, a)
  OBVIOUS
<1>l. PICK l : l = Len(p.actions)
  OBVIOUS
<1>1. /\ p.actions \in Seq(Actions) /\ p.cost \in Int /\ l \in Nat /\ Runs(w, p.actions)
      /\ -Limit(l) <= p.cost /\ p.cost <= Limit(l)
  BY <1>l DEF Analysed, Path
<1>2. /\ \A n \in 0 .. l : Trajectory(w, p.actions)[n] \in V
      /\ \A m, n \in 0 .. l : m # n => Trajectory(w, p.actions)[m] # Trajectory(w, p.actions)[n]
  BY <1>l DEF Analysed
<1>3. /\ longer \in Seq(Actions) /\ Len(longer) = l + 1 /\ StateAfter(w, longer) = s
      /\ \A n \in 0 .. l : Trajectory(w, longer)[n] = Trajectory(w, p.actions)[n]
  BY <1>1, <1>s, <1>longer, <1>l, TrajectoryAppended
<1>4. Runs(w, longer)
  BY <1>1, <1>longer, RunsAppended
<1>5. q = [actions |-> longer, cost |-> ChildCost(w, min, p.cost, s)]
  BY <1>q, <1>s, <1>longer DEF Child
<1>6. l + 1 <= MostStates
  BY <1>1, <1>2, <1>l, DistinctBound
<1>7. s \in State /\ w.distance[s.data] * s.cost \in (-MaxCost) .. MaxCost
  <2>1. StateAfter(w, p.actions) \in State
    <3>1. l \in 0 .. l
      BY <1>1
    <3> QED
      BY <1>1, <1>l, <3>1, ProblemFacts, RunsThroughStates DEF StateAfter
  <2>d. PICK d : d = StateAfter(w, p.actions).data
    OBVIOUS
  <2>2. d \in Data
    BY <2>1, <2>d DEF State
  <2>3. w.step[d][a] # Inexecutable /\ s = w.step[d][a]
    BY <1>s, <2>d DEF CanExecute, Execute
  <2> QED
    BY <2>2, <2>3, ProblemFacts
<1>c. PICK c : c = ChildCost(w, min, p.cost, s)
  OBVIOUS
<1>8. c \in Int /\ -Limit(l + 1) <= c /\ c <= Limit(l + 1)
  <2>d. PICK d : d = w.distance[s.data] * s.cost
    OBVIOUS
  <2>1. MaxCost \in Nat /\ d \in Int /\ -MaxCost <= d /\ d <= MaxCost
    BY <1>7, <2>d, LimitGrows
  <2>2. \/ c = p.cost + (4 * d - p.cost - 1000)
        \/ c = p.cost + d
    BY <1>c, <2>d DEF ChildCost
  <2>3. Limit(l) \in Nat /\ 4 * MaxCost + 1000 <= Limit(l) /\ Limit(l + 1) = Limit(l) + MaxCost
    BY <1>1, LimitGrows
  <2> QED
    <3>1. PICK x, u, v : x = p.cost /\ u = Limit(l) /\ v = Limit(l + 1)
      OBVIOUS
    <3>2. x \in Int /\ -u <= x /\ x <= u
      BY <1>1, <3>1
    <3> QED
      BY ONLY <2>1, <2>2, <2>3, <3>1, <3>2
<1>9. q \in Path /\ q.actions = longer /\ q.cost = c
  BY <1>3, <1>5, <1>8, <1>c DEF Path
<1>10. longer # <<>>
  BY <1>1, <1>3
<1>11. \A n : n \in 0 .. Len(longer) - 1 <=> n \in 0 .. l
  BY <1>1, <1>3
<1>12. \A n \in 0 .. Len(longer) - 1 : Trajectory(w, longer)[n] \in V
  BY <1>2, <1>3, <1>11
<1>13. \A m, n \in 0 .. Len(longer) - 1 : m # n => Trajectory(w, longer)[m] # Trajectory(w, longer)[n]
  BY <1>2, <1>3, <1>11
<1>14. Proper(w, V, q)
  BY <1>3, <1>4, <1>6, <1>8, <1>9, <1>10, <1>12, <1>13 DEF Proper
<1>15. q \in Fitting
  BY <1>14, FewStates, ProperFits
<1> QED
  BY <1>3, <1>7, <1>9, <1>14, <1>15, <1>q, <1>s

\* A proper path whose last state is not in V is analysed once that state is added.
LEMMA ProperAnalysed ==
  ASSUME NEW w, NEW V, NEW p, Proper(w, V, p), StateAfter(w, p.actions) \notin V
  PROVE  Analysed(w, V \cup {StateAfter(w, p.actions)}, p)
<1>T. PICK T : T = Trajectory(w, p.actions)
  OBVIOUS
<1>l. PICK l : l = Len(p.actions)
  OBVIOUS
<1>1. /\ p \in Path /\ Runs(w, p.actions) /\ l \in Nat
      /\ -Limit(l) <= p.cost /\ p.cost <= Limit(l)
  BY <1>l DEF Proper, Path
<1>2. /\ \A n \in 0 .. l - 1 : T[n] \in V
      /\ \A m, n \in 0 .. l - 1 : m # n => T[m] # T[n]
  BY <1>l, <1>T DEF Proper
<1>3. StateAfter(w, p.actions) = T[l]
  BY <1>l, <1>T DEF StateAfter
<1>4. \A n \in 0 .. l : n \in 0 .. l - 1 \/ n = l
  BY <1>1
<1>5. \A n \in 0 .. l : T[n] \in V \cup {T[l]}
  BY <1>2, <1>4
<1>6. \A m, n \in 0 .. l : m # n => T[m] # T[n]
  BY <1>2, <1>3, <1>4
<1> QED
  BY <1>1, <1>3, <1>5, <1>6, <1>l, <1>T DEF Analysed

\* The root is analysed as soon as the initial state is.
LEMMA RootAnalysed ==
  ASSUME NEW w, NEW V, w.start \in V
  PROVE  Analysed(w, V, Root) /\ StateAfter(w, Root.actions) = w.start
<1>1. Root \in Path /\ Root.actions = <<>> /\ Root.cost = 0 /\ Len(<<>>) = 0
  BY DEF Root, Path
<1>2. <<>> \in Seq(Actions)
  OBVIOUS
<1>3. Trajectory(w, <<>>)[0] = w.start
  BY <1>2, TrajectoryDef
<1>4. Limit(0) \in Nat
  BY LimitGrows
<1>5. Runs(w, <<>>)
  BY <1>1 DEF Runs
<1>6. \A n \in 0 .. 0 : n = 0
  OBVIOUS
<1> QED
  BY <1>1, <1>3, <1>4, <1>5, <1>6 DEF Analysed, StateAfter
-----------------------------------------------------------------------------
(***************************************************************************)
(* The inductive invariant.                                                *)
(***************************************************************************)
\* Whatever can be done in a state of V leads to one of V or of a path of H, and no
\* state of V but the initial one is good enough.
Complete(w, V, H) ==
  /\ \A v \in V, a \in Actions :
       CanExecute(w, v, a) =>
         \/ \E u \in V : u.data = Execute(w, v, a).data
         \/ \E p \in H : StateAfter(w, p.actions).data = Execute(w, v, a).data
  /\ \A v \in V : v.data \in w.enough => v = w.start

\* The states are the ones the actions lead through, all different.
Matches(w, actions, passed) ==
  /\ Len(passed) = Len(actions)
  /\ \A n \in DOMAIN actions : passed[n] = Trajectory(w, actions)[n]
  /\ \A m, n \in 0 .. Len(actions) :
       m # n => Trajectory(w, actions)[m] # Trajectory(w, actions)[n]

Locals == /\ problem \in Problems
          /\ pc \in {"start", "search", "found", "failed"}
          /\ Queue!Settled(unvisited)
          /\ path \in Path \cup {NoPath}
          /\ visited \subseteq State
          /\ minDistance \in Int
          /\ plan \in Seq(Actions)
          /\ states \in Seq(State)

ProperFrontier == \A p \in Frontier!Held(unvisited) : Proper(problem, visited, p)

Phases == /\ pc = "start" => visited = {} /\ Frontier!Held(unvisited) = {}
          /\ pc \in {"start", "search"} => plan = <<>> /\ states = <<>>
          /\ pc \in {"search", "failed"} =>
               /\ problem.start \in visited
               /\ Complete(problem, visited, Frontier!Held(unvisited))
          /\ pc = "failed" => Frontier!IsEmpty(unvisited)
          /\ pc = "found" => Solves(problem, plan) /\ Matches(problem, plan, states)

IInv == Locals /\ ProperFrontier /\ Phases

\* A call begins with nothing analysed and an empty frontier.
LEMMA InitInvariant == Init => IInv
<1> SUFFICES ASSUME Init PROVE IInv
  OBVIOUS
<1>1. Queue!Settled(unvisited) /\ Frontier!Held(unvisited) = {}
  BY Emptiness DEF Init
<1>2. Locals
  BY <1>1 DEF Locals, Init
<1>3. ProperFrontier
  BY <1>1 DEF ProperFrontier
<1>4. Phases
  BY <1>1 DEF Phases, Init
<1> QED
  BY <1>2, <1>3, <1>4 DEF IInv

\* The first gathering puts a path in for whatever can be done in the initial state.
LEMMA BeginInvariant ==
  ASSUME IInv, Begin
  PROVE  IInv'
<1>w. PICK w : w = problem
  OBVIOUS
<1>V. PICK V : V = {w.start}
  OBVIOUS
<1>g. PICK g : g = Gathered(w, unvisited, Root, w.start, minDistance)
  OBVIOUS
<1>1. /\ pc = "start" /\ pc' = "search" /\ visited' = V /\ unvisited' = g.unvisited
      /\ minDistance' = g.minDistance /\ problem' = w /\ path' = path
      /\ plan' = plan /\ states' = states
  BY <1>w, <1>V, <1>g DEF Begin
<1>2. /\ w \in Problems /\ Queue!Settled(unvisited) /\ minDistance \in Int
      /\ Frontier!Held(unvisited) = {} /\ plan = <<>> /\ states = <<>>
      /\ path \in Path \cup {NoPath}
  BY <1>w, <1>1 DEF IInv, Locals, Phases
<1>3. Analysed(w, V, Root) /\ StateAfter(w, Root.actions) = w.start
  BY <1>V, RootAnalysed
<1>4. ASSUME NEW a \in Actions, CanExecute(w, w.start, a)
      PROVE  /\ Proper(w, V, Child(w, minDistance, Root, w.start, a))
             /\ Child(w, minDistance, Root, w.start, a) \in Fitting
             /\ Execute(w, w.start, a) \in State
             /\ StateAfter(w, Child(w, minDistance, Root, w.start, a).actions) =
                  Execute(w, w.start, a)
  <2>1. CanExecute(w, StateAfter(w, Root.actions), a)
    BY <1>3, <1>4
  <2>2. /\ Proper(w, V, Child(w, minDistance, Root, StateAfter(w, Root.actions), a))
        /\ Child(w, minDistance, Root, StateAfter(w, Root.actions), a) \in Fitting
        /\ Execute(w, StateAfter(w, Root.actions), a) \in State
        /\ StateAfter(w, Child(w, minDistance, Root, StateAfter(w, Root.actions), a).actions) =
             Execute(w, StateAfter(w, Root.actions), a)
    BY <1>2, <1>3, <2>1, ChildProper
  <2> QED
    BY <1>3, <2>2
<1>5. /\ Queue!Settled(g.unvisited) /\ g.minDistance \in Int
      /\ \A p : p \in Frontier!Held(g.unvisited) <=>
           \E a \in Actions :
             CanExecute(w, w.start, a) /\ p = Child(w, minDistance, Root, w.start, a)
  <2>1. \A a \in Actions : CanExecute(w, w.start, a) =>
          /\ Child(w, minDistance, Root, w.start, a) \in Fitting
          /\ Execute(w, w.start, a) \in State
    BY <1>4
  <2>h. PICK h : h = Gathered(w, unvisited, Root, w.start, minDistance)
    OBVIOUS
  <2>2. /\ Queue!Settled(h.unvisited) /\ h.minDistance \in Int
        /\ \A p : p \in Frontier!Held(h.unvisited) <=>
             \/ p \in Frontier!Held(unvisited)
             \/ \E a \in Actions :
                  CanExecute(w, w.start, a) /\ p = Child(w, minDistance, Root, w.start, a)
    <3>1. w \in Problems /\ Queue!Settled(unvisited) /\ minDistance \in Int
      BY <1>2
    <3> QED
      BY <2>1, <2>h, <3>1, GatheredFacts
  <2>3. g = h /\ \A p : p \notin Frontier!Held(unvisited)
    BY <1>2, <1>g, <2>h
  <2> QED
    BY <2>2, <2>3
<1>6. ASSUME NEW p \in Frontier!Held(g.unvisited) PROVE Proper(w, V, p)
  BY <1>4, <1>5
<1>7. Complete(w, V, Frontier!Held(g.unvisited))
  <2>1. ASSUME NEW v \in V, NEW a \in Actions, CanExecute(w, v, a)
        PROVE  \E p \in Frontier!Held(g.unvisited) :
                 StateAfter(w, p.actions).data = Execute(w, v, a).data
    <3>1. v = w.start
      BY <1>V
    <3> QED
      BY <1>4, <1>5, <2>1, <3>1
  <2> QED
    BY <2>1, <1>V DEF Complete
<1>8. V \subseteq State /\ w.start \in V
  BY <1>2, <1>V, ProblemFacts
<1>9. Locals'
  BY <1>1, <1>2, <1>5, <1>8 DEF Locals
<1>10. ProperFrontier'
  BY <1>1, <1>6 DEF ProperFrontier
<1>11. Phases'
  BY <1>1, <1>2, <1>7, <1>8 DEF Phases
<1> QED
  BY <1>9, <1>10, <1>11 DEF IInv

\* What an iteration of the loop takes out of the frontier.
LEMMA TakeFacts ==
  ASSUME IInv, NEW p, NEW hit, Take(p, hit)
  PROVE  /\ pc = "search" /\ plan = <<>> /\ states = <<>>
         /\ problem \in Problems /\ problem.start \in visited
         /\ Queue!Settled(Frontier!Popped(unvisited).pq)
         /\ p = Frontier!Popped(unvisited).value /\ p \in Path
         /\ Frontier!Held(unvisited) = Frontier!Held(Frontier!Popped(unvisited).pq) \cup {p}
         /\ Complete(problem, visited, Frontier!Held(unvisited))
         /\ Proper(problem, visited, p)
         /\ EndOf(p) = StateAfter(problem, p.actions)
         /\ hit = TRUE => \E v \in visited : v.data = EndOf(p).data
         /\ hit = FALSE => EndOf(p) \notin visited
<1>1. pc = "search" /\ ~ Frontier!IsEmpty(unvisited) /\ p = Frontier!Popped(unvisited).value
  BY DEF Take
<1>2. /\ Queue!Settled(unvisited) /\ problem \in Problems /\ problem.start \in visited
      /\ plan = <<>> /\ states = <<>>
      /\ Complete(problem, visited, Frontier!Held(unvisited))
  BY <1>1 DEF IInv, Locals, Phases
<1>3. /\ Queue!Settled(Frontier!Popped(unvisited).pq) /\ p \in Fitting
      /\ Frontier!Held(unvisited) = Frontier!Held(Frontier!Popped(unvisited).pq) \cup {p}
  BY <1>1, <1>2, Taken
<1>4. Proper(problem, visited, p) /\ p \in Path
  BY <1>3 DEF IInv, ProperFrontier, Fitting
<1>5. /\ hit = TRUE => \E v \in visited : v.data = EndOf(p).data
      /\ hit = FALSE => EndOf(p) \notin visited
  BY DEF Take, FindOutcomes
<1>6. EndOf(p) = StateAfter(problem, p.actions)
  BY DEF EndOf
<1> QED
  BY <1>1, <1>2, <1>3, <1>4, <1>5, <1>6

\* A path to a visited state is not missed.
LEMMA RejectInvariant ==
  ASSUME IInv, Reject
  PROVE  IInv'
<1>p. PICK p : p = Frontier!Popped(unvisited).value
  OBVIOUS
<1>r. PICK r : r = Frontier!Popped(unvisited).pq
  OBVIOUS
<1>1. /\ Take(p, TRUE) /\ unvisited' = r /\ path' = NoPath
      /\ problem' = problem /\ pc' = pc /\ visited' = visited /\ minDistance' = minDistance
      /\ plan' = plan /\ states' = states
  BY <1>p, <1>r DEF Reject
<1>2. /\ pc = "search" /\ plan = <<>> /\ states = <<>>
      /\ problem \in Problems /\ problem.start \in visited /\ Queue!Settled(r)
      /\ Frontier!Held(unvisited) = Frontier!Held(r) \cup {p}
      /\ Complete(problem, visited, Frontier!Held(unvisited))
      /\ \E v \in visited : v.data = StateAfter(problem, p.actions).data
  BY <1>1, <1>r, TakeFacts
<1>3. Complete(problem, visited, Frontier!Held(r))
  BY <1>2 DEF Complete
<1>4. Locals'
  BY <1>1, <1>2 DEF IInv, Locals
<1>5. ProperFrontier'
  BY <1>1, <1>2 DEF IInv, ProperFrontier
<1>6. Phases'
  BY <1>1, <1>2, <1>3 DEF Phases
<1> QED
  BY <1>4, <1>5, <1>6 DEF IInv

\* The state of a path is analysed: paths for what can be done there come in its place.
LEMMA ExpandInvariant ==
  ASSUME IInv, Expand
  PROVE  IInv'
<1>w. PICK w : w = problem
  OBVIOUS
<1>p. PICK p : p = Frontier!Popped(unvisited).value
  OBVIOUS
<1>r. PICK r : r = Frontier!Popped(unvisited).pq
  OBVIOUS
<1>s. PICK s : s = StateAfter(w, p.actions)
  OBVIOUS
<1>V. PICK V : V = visited \cup {s}
  OBVIOUS
<1>g. PICK g : g = Gathered(w, r, p, s, minDistance)
  OBVIOUS
<1>1. /\ Take(p, FALSE) /\ s.data \notin w.enough /\ visited' = V
      /\ unvisited' = g.unvisited /\ minDistance' = g.minDistance /\ path' \in {NoPath, p}
      /\ problem' = w /\ pc' = pc /\ plan' = plan /\ states' = states
  BY <1>w, <1>p, <1>r, <1>s, <1>V, <1>g DEF Expand, EndOf
<1>2. /\ pc = "search" /\ plan = <<>> /\ states = <<>>
      /\ w \in Problems /\ w.start \in visited /\ Queue!Settled(r) /\ p \in Path
      /\ Frontier!Held(unvisited) = Frontier!Held(r) \cup {p}
      /\ Complete(w, visited, Frontier!Held(unvisited))
      /\ Proper(w, visited, p) /\ s \notin visited
  BY <1>1, <1>r, <1>w, <1>s, TakeFacts
<1>3. Analysed(w, V, p)
  BY <1>2, <1>s, <1>V, ProperAnalysed
<1>4. minDistance \in Int /\ visited \subseteq State
  BY DEF IInv, Locals
<1>5. ASSUME NEW a \in Actions, CanExecute(w, s, a)
      PROVE  /\ Proper(w, V, Child(w, minDistance, p, s, a))
             /\ Child(w, minDistance, p, s, a) \in Fitting
             /\ Execute(w, s, a) \in State
             /\ StateAfter(w, Child(w, minDistance, p, s, a).actions) = Execute(w, s, a)
  BY <1>2, <1>3, <1>4, <1>5, <1>s, ChildProper
<1>6. /\ Queue!Settled(g.unvisited) /\ g.minDistance \in Int
      /\ \A q : q \in Frontier!Held(g.unvisited) <=>
           \/ q \in Frontier!Held(r)
           \/ \E a \in Actions : CanExecute(w, s, a) /\ q = Child(w, minDistance, p, s, a)
  <2>1. \A a \in Actions : CanExecute(w, s, a) =>
          Child(w, minDistance, p, s, a) \in Fitting /\ Execute(w, s, a) \in State
    BY <1>5
  <2>2. w \in Problems /\ Queue!Settled(r) /\ minDistance \in Int
    BY <1>2, <1>4
  <2> QED
    BY <1>g, <2>1, <2>2, GatheredFacts
<1>7. ASSUME NEW q \in Frontier!Held(g.unvisited) PROVE Proper(w, V, q)
  <2>1. CASE q \in Frontier!Held(r)
    <3>1. Proper(w, visited, q)
      BY <1>2, <1>w, <2>1 DEF IInv, ProperFrontier
    <3> QED
      BY <3>1, <1>V, ProperMonotonic
  <2>2. CASE q \notin Frontier!Held(r)
    BY <1>5, <1>6, <2>2
  <2> QED
    BY <2>1, <2>2
<1>8. Complete(w, V, Frontier!Held(g.unvisited))
  <2>1. ASSUME NEW v \in V, NEW a \in Actions, CanExecute(w, v, a)
        PROVE  \/ \E u \in V : u.data = Execute(w, v, a).data
               \/ \E q \in Frontier!Held(g.unvisited) :
                    StateAfter(w, q.actions).data = Execute(w, v, a).data
    <3>1. CASE v \in visited
      <4>1. \/ \E u \in visited : u.data = Execute(w, v, a).data
            \/ \E q \in Frontier!Held(unvisited) :
                 StateAfter(w, q.actions).data = Execute(w, v, a).data
        BY <1>2, <2>1, <3>1 DEF Complete
      <4>2. \A q \in Frontier!Held(unvisited) : q \in Frontier!Held(g.unvisited) \/ q = p
        BY <1>2, <1>6
      <4> QED
        BY <4>1, <4>2, <1>V, <1>s
    <3>2. CASE v \notin visited
      <4>1. v = s
        BY <1>V, <3>2
      <4>2. Child(w, minDistance, p, s, a) \in Frontier!Held(g.unvisited)
        BY <1>6, <2>1, <4>1
      <4>3. StateAfter(w, Child(w, minDistance, p, s, a).actions) = Execute(w, s, a)
        BY <1>5, <2>1, <4>1
      <4> QED
        BY <4>1, <4>2, <4>3
    <3> QED
      BY <3>1, <3>2
  <2>2. \A v \in V : v.data \in w.enough => v = w.start
    BY <1>1, <1>2, <1>V DEF Complete
  <2> QED
    BY <2>1, <2>2 DEF Complete
<1>9. s \in State
  <2>1. p.actions \in Seq(Actions) /\ Runs(w, p.actions)
    BY <1>2 DEF Proper, Path
  <2>2. Len(p.actions) \in 0 .. Len(p.actions)
    BY <2>1
  <2> QED
    BY <1>2, <1>s, <2>1, <2>2, ProblemFacts, RunsThroughStates DEF StateAfter
<1>10. V \subseteq State /\ w.start \in V
  BY <1>2, <1>4, <1>9, <1>V
<1>11. Locals'
  BY <1>1, <1>2, <1>6, <1>10 DEF Locals
<1>12. ProperFrontier'
  BY <1>1, <1>7 DEF ProperFrontier
<1>13. Phases'
  BY <1>1, <1>2, <1>8, <1>10 DEF Phases
<1> QED
  BY <1>11, <1>12, <1>13 DEF IInv

\* A path to a good state, none of whose states comes twice, is the answer.
LEMMA ReachInvariant ==
  ASSUME IInv, Reach
  PROVE  IInv'
<1>w. PICK w : w = problem
  OBVIOUS
<1>p. PICK p : p = Frontier!Popped(unvisited).value
  OBVIOUS
<1>r. PICK r : r = Frontier!Popped(unvisited).pq
  OBVIOUS
<1>passed. PICK passed : passed = Passed(p)
  OBVIOUS
<1>1. /\ Take(p, FALSE) /\ EndOf(p).data \in w.enough /\ pc' = "found"
      /\ unvisited' = r /\ path' = NoPath /\ plan' = p.actions \o plan /\ states' = passed \o states
      /\ problem' = w /\ visited' = visited /\ minDistance' = minDistance
  BY <1>w, <1>p, <1>r, <1>passed DEF Reach, Answer
<1>2. /\ plan = <<>> /\ states = <<>> /\ w \in Problems /\ Queue!Settled(r) /\ p \in Path
      /\ Frontier!Held(unvisited) = Frontier!Held(r) \cup {p}
      /\ Proper(w, visited, p) /\ EndOf(p) = StateAfter(w, p.actions)
      /\ StateAfter(w, p.actions) \notin visited
  BY <1>1, <1>w, <1>r, TakeFacts
<1>3. /\ p.actions \in Seq(Actions) /\ p.actions # <<>> /\ Runs(w, p.actions)
  BY <1>2 DEF Proper, Path
<1>4. Solves(w, p.actions)
  BY <1>1, <1>2, <1>3, ProblemFacts, RunsSolve
<1>5. passed = [n \in 1 .. Len(p.actions) |-> Trajectory(w, p.actions)[n]]
  BY <1>3, <1>passed, <1>w DEF Passed
<1>6. \A n \in 0 .. Len(p.actions) : Trajectory(w, p.actions)[n] \in State
  BY <1>2, <1>3, ProblemFacts, RunsThroughStates
<1>7. passed \in Seq(State) /\ Len(passed) = Len(p.actions)
  <2>1. Len(p.actions) \in Nat
    BY <1>3
  <2>2. \A n \in 1 .. Len(p.actions) : passed[n] \in State
    BY <1>5, <1>6, <2>1
  <2> QED
    BY <1>5, <2>1, <2>2
<1>8. plan' = p.actions /\ states' = passed
  <2>1. p.actions \o <<>> = p.actions
    BY <1>3, ConcatEmptySeq
  <2>2. passed \o <<>> = passed
    BY <1>7, ConcatEmptySeq
  <2> QED
    BY <1>1, <1>2, <2>1, <2>2
<1>9. Matches(w, p.actions, passed)
  <2>1. Analysed(w, visited \cup {StateAfter(w, p.actions)}, p)
    BY <1>2, ProperAnalysed
  <2>2. \A m, n \in 0 .. Len(p.actions) :
          m # n => Trajectory(w, p.actions)[m] # Trajectory(w, p.actions)[n]
    BY <2>1 DEF Analysed
  <2>3. \A n \in DOMAIN p.actions : passed[n] = Trajectory(w, p.actions)[n]
    BY <1>3, <1>5
  <2> QED
    BY <1>7, <2>2, <2>3 DEF Matches
<1>10. Locals'
  BY <1>1, <1>2, <1>3, <1>7, <1>8 DEF IInv, Locals
<1>11. ProperFrontier'
  BY <1>1, <1>2, <1>w DEF IInv, ProperFrontier
<1>12. Phases'
  BY <1>1, <1>4, <1>8, <1>9 DEF Phases
<1> QED
  BY <1>10, <1>11, <1>12 DEF IInv

\* The call gives up with an empty frontier.
LEMMA ExhaustInvariant ==
  ASSUME IInv, Exhaust
  PROVE  IInv'
<1>1. /\ pc = "search" /\ Frontier!IsEmpty(unvisited) /\ pc' = "failed" /\ plan' = <<>>
      /\ problem' = problem /\ unvisited' = unvisited /\ path' = path /\ visited' = visited
      /\ minDistance' = minDistance /\ states' = states
  BY DEF Exhaust
<1>2. Locals'
  <2>1. <<>> \in Seq(Actions)
    OBVIOUS
  <2> QED
    BY <1>1, <2>1 DEF IInv, Locals
<1>3. ProperFrontier'
  BY <1>1 DEF IInv, ProperFrontier
<1>4. Phases'
  BY <1>1 DEF IInv, Phases
<1> QED
  BY <1>2, <1>3, <1>4 DEF IInv

\* No step and no stuttering breaks the invariant.
LEMMA NextInvariant == IInv /\ [Next]_vars => IInv'
<1> SUFFICES ASSUME IInv, [Next]_vars PROVE IInv'
  OBVIOUS
<1>1. CASE Begin
  BY <1>1, BeginInvariant
<1>2. CASE Reject
  BY <1>2, RejectInvariant
<1>3. CASE Reach
  BY <1>3, ReachInvariant
<1>4. CASE Expand
  BY <1>4, ExpandInvariant
<1>5. CASE Exhaust
  BY <1>5, ExhaustInvariant
<1>6. CASE UNCHANGED vars
  BY <1>6 DEF vars, IInv, Locals, ProperFrontier, Phases
<1> QED
  BY <1>1, <1>2, <1>3, <1>4, <1>5, <1>6 DEF Next

\* The invariant holds throughout a call.
THEOREM Invariance == Spec => []IInv
BY InitInvariant, NextInvariant, PTL DEF Spec
-----------------------------------------------------------------------------
(***************************************************************************)
(* A blind search goes level by level: the paths that are held have n      *)
(* actions or n + 1, and none of those that wait is shorter than a ready   *)
(* one.  A path of n actions costs b, and one more action u, or v to a     *)
(* good state.                                                             *)
(***************************************************************************)
\* What an action costs on the way: v to a good state, u to any other.
Uniform(w, u, v) ==
  /\ u \in Nat \ {0} /\ v \in 0 .. u /\ ~ w.monotonic
  /\ \A d \in Data, a \in Actions :
       w.step[d][a] # Inexecutable =>
         /\ w.step[d][a].cost = w.start.cost
         /\ w.distance[w.step[d][a].data] * w.step[d][a].cost =
              IF w.step[d][a].data \in w.enough THEN v ELSE u

\* A state with this content was analysed.
Known(V, d) == \E x \in V : x.data = d

\* What the last action of a path costs.
LastCost(w, p, u, v) == IF StateAfter(w, p.actions).data \in w.enough THEN v ELSE u

Spread(w, H, n, b, u, v) ==
  \A p \in H :
    /\ p.cost \in Nat
    /\ \/ Len(p.actions) = n /\ p.cost = b + LastCost(w, p, u, v)
       \/ Len(p.actions) = n + 1 /\ p.cost = (b + u) + LastCost(w, p, u, v)

Early(R, W) == \A r \in R, l \in W : Len(r.actions) <= Len(l.actions)

\* What at most n actions reach is known, or a path of n actions that is held ends there.
Covered(w, V, H, n) ==
  \A m \in 0 .. Cardinality(Data) : \A d \in Reached(w)[m] :
    /\ m < n => Known(V, d)
    /\ m = n => \/ Known(V, d)
                \/ \E p \in H : Len(p.actions) = n /\ StateAfter(w, p.actions).data = d

Level(w, V, R, W, n, b, u, v) ==
  /\ Spread(w, R \cup W, n, b, u, v)
  /\ Early(R, W)
  /\ R \cup W # {} => \E p \in R \cup W : Len(p.actions) = n
  /\ Covered(w, V, R \cup W, n)

AtLevel(w, V, R, W, u, v) == \E n \in Nat, b \in Int : Level(w, V, R, W, n, b, u, v)

\* A ready path of least cost.
Least(R, c) == c \in R /\ \A p \in R : Frontier!ICost(c) <= Frontier!ICost(p)

\* It is taken; those that wait stay, or all of them get ready.
Leaves(R, W, c, R1, W1) == /\ Least(R, c)
                           /\ R \cup W = (R1 \cup W1) \cup {c}
                           /\ (W1 = W /\ R1 \subseteq R) \/ W1 = {}

\* The paths that come in its place, none if it leads to a good state.
Succeed(w, c, K, u, v) ==
  \A k \in K : /\ StateAfter(w, c.actions).data \notin w.enough
               /\ Len(k.actions) = Len(c.actions) + 1
               /\ k.cost = c.cost + LastCost(w, k, u, v)

\* A blind problem is uniform.
LEMMA BlindUniform ==
  ASSUME NEW w \in Problems, Blind(w)
  PROVE  \E u, v : Uniform(w, u, v)
<1>1. PICK near, far \in {w.distance[d] : d \in Data} :
        /\ 0 <= near /\ near <= far /\ 0 < far
        /\ \A d \in Data : w.distance[d] = IF d \in w.enough THEN near ELSE far
  BY DEF Blind
<1>2. near \in Int /\ far \in Int /\ w.start.cost \in Int /\ w.start.cost > 0
  BY ProblemFacts DEF Blind, State
<1>c. PICK c : c = w.start.cost
  OBVIOUS
<1>u. PICK u : u = far * c
  OBVIOUS
<1>v. PICK v : v = near * c
  OBVIOUS
<1>3. far \in Nat \ {0} /\ near \in Nat /\ far - near \in Nat /\ c \in Nat \ {0}
  BY <1>1, <1>2, <1>c
<1>4. u \in Nat \ {0}
  <2>1. \A i, j \in Nat \ {0} : i * j \in Nat \ {0}
    OBVIOUS
  <2> QED
    BY <1>3, <1>u, <2>1
<1>5. v \in 0 .. u
  <2>1. \A i, j \in Nat : i * j \in Nat
    OBVIOUS
  <2>2. v \in Nat /\ (far - near) * c \in Nat
    BY <1>3, <1>v, <2>1
  <2>3. (far - near) * c = u - v
    BY <1>3, <1>u, <1>v
  <2> QED
    BY <1>4, <2>2, <2>3
<1>6. ASSUME NEW d \in Data, NEW a \in Actions, w.step[d][a] # Inexecutable
      PROVE  /\ w.step[d][a].cost = w.start.cost
             /\ w.distance[w.step[d][a].data] * w.step[d][a].cost =
                  IF w.step[d][a].data \in w.enough THEN v ELSE u
  <2>1. w.step[d][a].cost = c
    BY <1>6, <1>c DEF Blind
  <2>2. w.step[d][a].data \in Data
    BY <1>6, ProblemFacts DEF State
  <2>e. PICK e : e = w.step[d][a].data
    OBVIOUS
  <2>3. w.distance[e] = IF e \in w.enough THEN near ELSE far
    BY <1>1, <2>2, <2>e
  <2>4. w.distance[e] * c = IF e \in w.enough THEN v ELSE u
    BY <2>3, <1>u, <1>v
  <2> QED
    BY <2>1, <2>4, <2>e, <1>c
<1>7. ~ w.monotonic
  BY DEF Blind
<1> QED
  BY <1>4, <1>5, <1>6, <1>7 DEF Uniform

\* The level is the number of actions of the shortest path held.
LEMMA LevelSettles ==
  ASSUME NEW w, NEW V, V \subseteq State, NEW R, NEW W, NEW u \in Int, NEW v,
         NEW n \in Nat, NEW b \in Int,
         Spread(w, R \cup W, n, b, u, v), Early(R, W), Covered(w, V, R \cup W, n),
         Complete(w, V, R \cup W)
  PROVE  AtLevel(w, V, R, W, u, v)
<1>H. PICK H : H = R \cup W
  OBVIOUS
<1>1. CASE H = {} \/ \E p \in H : Len(p.actions) = n
  BY <1>1, <1>H DEF Level, AtLevel
<1>2. CASE H # {} /\ \A p \in H : Len(p.actions) # n
  <2>1. n + 1 \in Nat /\ b + u \in Int
    OBVIOUS
  <2>2. ASSUME NEW p \in H
        PROVE  /\ p.cost \in Nat /\ Len(p.actions) = n + 1
               /\ p.cost = (b + u) + LastCost(w, p, u, v)
    BY <1>2, <1>H DEF Spread
  <2>3. Spread(w, H, n + 1, b + u, u, v)
    BY <2>2 DEF Spread
  <2>4. ASSUME NEW m \in 0 .. Cardinality(Data), NEW d \in Reached(w)[m], m <= n
        PROVE  Known(V, d)
    <3>1. Cardinality(Data) \in Nat
      BY DataAssumption, FS_CardinalityType
    <3>2. m < n \/ m = n
      BY <2>4, <3>1
    <3> QED
      BY <1>2, <1>H, <3>2 DEF Covered
  <2>5. ASSUME NEW m \in 0 .. Cardinality(Data), NEW d \in Reached(w)[m], m = n + 1
        PROVE  \/ Known(V, d)
               \/ \E p \in H : Len(p.actions) = n + 1 /\ StateAfter(w, p.actions).data = d
    <3>1. Cardinality(Data) \in Nat
      BY DataAssumption, FS_CardinalityType
    <3>2. m \in 1 .. Cardinality(Data) /\ n \in 0 .. Cardinality(Data) /\ m - 1 = n
      BY <2>5, <3>1
    <3>3. Reached(w)[m] = Successors(w, Reached(w)[n])
      BY <3>2, ReachedDef
    <3>4. PICK e \in Reached(w)[n], a \in Actions :
            w.step[e][a] # Inexecutable /\ d = w.step[e][a].data
      BY <3>3 DEF Successors
    <3>5. PICK x \in V : x.data = e
      BY <2>4, <3>2 DEF Known
    <3>6. CanExecute(w, x, a) /\ Execute(w, x, a).data = d
      BY <3>4, <3>5 DEF CanExecute, Execute
    <3>7. \/ \E y \in V : y.data = d
          \/ \E p \in H : StateAfter(w, p.actions).data = d
      BY <3>6, <1>H DEF Complete
    <3> QED
      BY <3>7, <2>2 DEF Known
  <2>6. Covered(w, V, H, n + 1)
    <3>1. \A m \in 0 .. Cardinality(Data) : m < n + 1 => m <= n
      OBVIOUS
    <3> QED
      BY <2>4, <2>5, <3>1 DEF Covered
  <2>7. \E p \in H : Len(p.actions) = n + 1
    BY <1>2, <2>2
  <2>8. Level(w, V, R, W, n + 1, b + u, u, v)
    BY <2>3, <2>6, <2>7, <1>H DEF Level
  <2> QED
    BY <2>1, <2>8 DEF AtLevel
<1> QED
  BY <1>1, <1>2

\* The key of a path that costs something or nothing is its cost.
LEMMA KeyIsCost ==
  ASSUME NEW p, p.cost \in Nat
  PROVE  Frontier!ICost(p) = p.cost
<1>c. PICK c : c = p.cost
  OBVIOUS
<1>1. c \in Nat /\ 2 * c + 1 >= 0 /\ (2 * c + 1) \div 2 = c
  BY <1>c
<1>2. Frontier!ICost(p) = (2 * c + 1) \div 2
  BY <1>c, <1>1 DEF Frontier!ICost, Frontier!Truncate, PathCost
<1> QED
  BY <1>1, <1>2, <1>c

\* A ready path of least cost that does not lead to a good state is one of the shortest,
\* and if it does lead there, none of the shortest does so unless it has as few actions.
LEMMA LeastIsShort ==
  ASSUME NEW w, NEW V, NEW R, NEW W, NEW n \in Nat, NEW b \in Int, NEW u, NEW v,
         Uniform(w, u, v), Level(w, V, R, W, n, b, u, v),
         NEW c, Least(R, c)
  PROVE  /\ StateAfter(w, c.actions).data \notin w.enough =>
              Len(c.actions) = n /\ c.cost = b + u
         /\ \A p \in R \cup W :
              Len(p.actions) = n /\ StateAfter(w, p.actions).data \in w.enough =>
                Len(c.actions) = n
<1>1. u \in Nat \ {0} /\ v \in Nat /\ v <= u
  BY DEF Uniform
<1>c. c \in R /\ \A p \in R : Frontier!ICost(c) <= Frontier!ICost(p)
  BY DEF Least
<1>2. ASSUME NEW p \in R \cup W
      PROVE  /\ p.cost \in Nat
             /\ LastCost(w, p, u, v) =
                  IF StateAfter(w, p.actions).data \in w.enough THEN v ELSE u
             /\ \/ Len(p.actions) = n /\ p.cost = b + LastCost(w, p, u, v)
                \/ Len(p.actions) = n + 1 /\ p.cost = (b + u) + LastCost(w, p, u, v)
  BY DEF Level, Spread, LastCost
<1>3. \A p \in R : c.cost <= p.cost
  BY <1>c, <1>2, KeyIsCost
<1>4. ASSUME NEW p \in R \cup W, Len(p.actions) = n, Len(c.actions) # n
      PROVE  p \in R /\ Len(c.actions) = n + 1
  <2>1. Len(c.actions) = n + 1
    BY <1>c, <1>2, <1>4
  <2>2. p \in W => Len(c.actions) <= Len(p.actions)
    BY <1>c DEF Level, Early
  <2>3. ~ (n + 1 <= n)
    OBVIOUS
  <2> QED
    BY <1>4, <2>1, <2>2, <2>3
<1>5. PICK s \in R \cup W : Len(s.actions) = n
  BY <1>c DEF Level
<1>6. ASSUME StateAfter(w, c.actions).data \notin w.enough
      PROVE  Len(c.actions) = n /\ c.cost = b + u
  <2>1. ASSUME Len(c.actions) # n PROVE FALSE
    <3>1. s \in R /\ Len(c.actions) = n + 1
      BY <1>4, <1>5, <2>1
    <3>2. n + 1 # n
      OBVIOUS
    <3>3. c.cost = (b + u) + u
      BY <1>c, <1>2, <1>6, <3>1, <3>2
    <3>4. s.cost = b + v \/ s.cost = b + u
      BY <1>2, <1>5, <3>2
    <3>5. c.cost <= s.cost
      BY <1>3, <3>1
    <3> QED
      BY <1>1, <3>3, <3>4, <3>5
  <2>2. n + 1 # n
    OBVIOUS
  <2> QED
    BY <1>c, <1>2, <1>6, <2>1, <2>2
<1>7. ASSUME NEW p \in R \cup W, Len(p.actions) = n,
             StateAfter(w, p.actions).data \in w.enough, Len(c.actions) # n
      PROVE  FALSE
  <2>1. p \in R /\ Len(c.actions) = n + 1
    BY <1>4, <1>7
  <2>2. n + 1 # n
    OBVIOUS
  <2>3. p.cost = b + v
    BY <1>2, <1>7, <2>2
  <2>4. c.cost = (b + u) + v \/ c.cost = (b + u) + u
    BY <1>c, <1>2, <2>1, <2>2
  <2>5. c.cost <= p.cost
    BY <1>3, <2>1
  <2> QED
    BY <1>1, <2>3, <2>4, <2>5
<1> QED
  BY <1>6, <1>7

\* A path that is taken from the ready ones leaves the search level by level, whether it
\* is dropped or K comes in its place.
LEMMA LevelGoesOn ==
  ASSUME NEW w, NEW V, NEW R, NEW W, NEW u, NEW v, Uniform(w, u, v), AtLevel(w, V, R, W, u, v),
         NEW c, NEW R1, NEW W1, Leaves(R, W, c, R1, W1),
         NEW V2, V \subseteq V2, V2 \subseteq State, Known(V2, StateAfter(w, c.actions).data),
         NEW K, Succeed(w, c, K, u, v), Complete(w, V2, R1 \cup (W1 \cup K))
  PROVE  AtLevel(w, V2, R1, W1 \cup K, u, v)
<1>n. PICK n \in Nat, b \in Int : Level(w, V, R, W, n, b, u, v)
  BY DEF AtLevel
<1>c. /\ Least(R, c) /\ c \in R /\ R \cup W = (R1 \cup W1) \cup {c}
      /\ (W1 = W /\ R1 \subseteq R) \/ W1 = {}
  BY DEF Leaves, Least
<1>1. u \in Nat \ {0} /\ v \in Nat /\ v <= u
  BY DEF Uniform
<1>2. \A p : LastCost(w, p, u, v) \in Nat
  BY <1>1 DEF LastCost
<1>3. ASSUME NEW p \in R \cup W
      PROVE  /\ p.cost \in Nat
             /\ \/ Len(p.actions) = n /\ p.cost = b + LastCost(w, p, u, v)
                \/ Len(p.actions) = n + 1 /\ p.cost = (b + u) + LastCost(w, p, u, v)
  BY <1>n DEF Level, Spread
<1>4. ASSUME NEW k \in K
      PROVE  /\ k.cost \in Nat /\ Len(k.actions) = n + 1
             /\ k.cost = (b + u) + LastCost(w, k, u, v)
  <2>1. /\ StateAfter(w, c.actions).data \notin w.enough
        /\ Len(k.actions) = Len(c.actions) + 1
        /\ k.cost = c.cost + LastCost(w, k, u, v)
    BY <1>4 DEF Succeed
  <2>2. Len(c.actions) = n /\ c.cost = b + u
    BY <1>n, <1>c, <2>1, LeastIsShort
  <2>3. c.cost \in Nat
    BY <1>c, <1>3
  <2> QED
    BY <1>1, <1>2, <2>1, <2>2, <2>3
<1>5. Spread(w, R1 \cup (W1 \cup K), n, b, u, v)
  BY <1>c, <1>3, <1>4 DEF Spread
<1>6. Early(R1, W1 \cup K)
  <2>1. ASSUME NEW r \in R1, NEW l \in W1 PROVE Len(r.actions) <= Len(l.actions)
    BY <1>n, <1>c DEF Level, Early
  <2>2. ASSUME NEW r \in R1, NEW l \in K PROVE Len(r.actions) <= Len(l.actions)
    <3>1. Len(r.actions) = n \/ Len(r.actions) = n + 1
      BY <1>c, <1>3
    <3>2. Len(l.actions) = n + 1
      BY <1>4
    <3> QED
      BY <3>1, <3>2
  <2> QED
    BY <2>1, <2>2 DEF Early
<1>7. Covered(w, V2, R1 \cup (W1 \cup K), n)
  <2>1. ASSUME NEW m \in 0 .. Cardinality(Data), NEW d \in Reached(w)[m]
        PROVE  /\ m < n => Known(V2, d)
               /\ m = n => \/ Known(V2, d)
                           \/ \E p \in R1 \cup (W1 \cup K) :
                                Len(p.actions) = n /\ StateAfter(w, p.actions).data = d
    <3>1. /\ m < n => Known(V, d)
          /\ m = n => \/ Known(V, d)
                      \/ \E p \in R \cup W :
                           Len(p.actions) = n /\ StateAfter(w, p.actions).data = d
      BY <1>n DEF Level, Covered
    <3>2. Known(V, d) => Known(V2, d)
      BY DEF Known
    <3>3. \A p \in R \cup W : p \in R1 \cup (W1 \cup K) \/ p = c
      BY <1>c
    <3> QED
      BY <3>1, <3>2, <3>3
  <2> QED
    BY <2>1 DEF Covered
<1> QED
  BY <1>1, <1>n, <1>5, <1>6, <1>7, LevelSettles

\* A good state that fewer actions reach than a ready path of least cost has was
\* analysed, and so is the initial one.
LEMMA NoneShorter ==
  ASSUME NEW w \in Problems, NEW V, V \subseteq State, NEW R, NEW W, NEW u, NEW v,
         Uniform(w, u, v), AtLevel(w, V, R, W, u, v), Complete(w, V, R \cup W),
         NEW c, Least(R, c), Proper(w, V, c)
  PROVE  \A m \in 1 .. Len(c.actions) - 1 :
           Reached(w)[m] \cap w.enough \subseteq {w.start.data}
<1>n. PICK n \in Nat, b \in Int : Level(w, V, R, W, n, b, u, v)
  BY DEF AtLevel
<1>N. PICK N : N = Cardinality(Data)
  OBVIOUS
<1>l. PICK l : l = Len(c.actions)
  OBVIOUS
<1>1. N \in Nat /\ l \in Nat /\ c.actions \in Seq(Actions) /\ Runs(w, c.actions)
  BY <1>N, <1>l, DataAssumption, FS_CardinalityType DEF Proper, Path
<1>2. l <= N
  <2>T. PICK T : T = Trajectory(w, c.actions)
    OBVIOUS
  <2>1. ASSUME NEW m \in 0 .. l - 1 PROVE T[m] \in State /\ T[m].cost = w.start.cost
    <3>1. \A k \in 0 .. l : T[k] \in State
      BY <1>1, <1>l, <2>T, ProblemFacts, RunsThroughStates
    <3>2. m \in 0 .. l
      BY <1>1
    <3>3. CASE m = 0
      BY <1>1, <2>T, <3>1, <3>2, <3>3, TrajectoryDef
    <3>4. CASE m # 0
      <4>n. m \in 1 .. l /\ m - 1 \in 0 .. l
        BY <1>1, <3>4
      <4>1. m \in 1 .. l /\ m - 1 \in 0 .. l /\ c.actions[m] \in Actions
        <5>1. \A list \in Seq(Actions) : \A i \in 1 .. Len(list) : list[i] \in Actions
          OBVIOUS
        <5> QED
          BY ONLY <1>1, <1>l, <4>n, <5>1
      <4>a. PICK a : a = c.actions[m]
        OBVIOUS
      <4>d. PICK d : d = T[m - 1].data
        OBVIOUS
      <4>2. T[m] = w.step[d][a] /\ w.step[d][a] # Inexecutable
        BY <1>1, <1>l, <2>T, <4>1, <4>a, <4>d, TrajectoryDef DEF Execute, CanExecute, Runs
      <4>3. d \in Data /\ a \in Actions
        BY <3>1, <4>1, <4>a, <4>d DEF State
      <4> QED
        BY <3>1, <3>2, <4>2, <4>3 DEF Uniform
    <3> QED
      BY <3>3, <3>4
  <2>2. \A i, j \in 0 .. l - 1 : i # j => T[i] # T[j]
    BY <1>l, <2>T DEF Proper
  <2>f. PICK f : f = [m \in 0 .. l - 1 |-> T[m].data]
    OBVIOUS
  <2>3. \A m \in 0 .. l - 1 : f[m] \in Data
    BY <2>1, <2>f DEF State
  <2>4. \A x, y \in State : x.data = y.data /\ x.cost = y.cost => x = y
    BY DEF State
  <2>5. \A i, j \in 0 .. l - 1 : i # j => f[i] # f[j]
    BY <2>1, <2>2, <2>4, <2>f
  <2>6. f \in Injection(0 .. l - 1, Data)
    <3>I. PICK I : I = 0 .. l - 1
      OBVIOUS
    <3>1. f \in [I -> Data] /\ \A i, j \in I : i # j => f[i] # f[j]
      BY <2>3, <2>5, <2>f, <3>I
    <3>2. f \in Injection(I, Data)
      BY <3>1 DEF Injection, IsInjective
    <3> QED
      BY <3>2, <3>I
  <2>7. Cardinality(0 .. l - 1) <= N
    BY <2>6, <1>N, DataAssumption, FS_Injection
  <2>8. Cardinality(0 .. l - 1) = l
    <3>1. 0 \in Int /\ l - 1 \in Int
      BY <1>1
    <3>2. Cardinality(0 .. l - 1) = IF 0 > l - 1 THEN 0 ELSE (l - 1) - 0 + 1
      BY <3>1, FS_Interval
    <3> QED
      BY <1>1, <3>2
  <2> QED
    BY <2>7, <2>8
<1>3. l = n \/ l = n + 1
  BY <1>n, <1>l DEF Level, Spread, Least
<1>4. ASSUME NEW m \in 1 .. l - 1, NEW d \in Reached(w)[m], d \in w.enough
      PROVE  d = w.start.data
  <2>1. m \in 0 .. N /\ (m < n \/ m = n)
    BY <1>1, <1>2, <1>3
  <2>2. Known(V, d) => d = w.start.data
    BY <1>4 DEF Complete, Known
  <2>3. CASE m < n
    BY <1>n, <1>N, <2>1, <2>2, <2>3 DEF Level, Covered
  <2>4. CASE m = n
    <3>1. \/ Known(V, d)
          \/ \E p \in R \cup W : Len(p.actions) = n /\ StateAfter(w, p.actions).data = d
      BY <1>n, <1>N, <2>1, <2>4 DEF Level, Covered
    <3>2. ASSUME NEW p \in R \cup W, Len(p.actions) = n, StateAfter(w, p.actions).data = d
          PROVE  FALSE
      <4>1. Len(p.actions) = n /\ StateAfter(w, p.actions).data \in w.enough
        BY <1>4, <3>2
      <4>2. \A q \in R \cup W :
              Len(q.actions) = n /\ StateAfter(w, q.actions).data \in w.enough =>
                Len(c.actions) = n
        BY <1>n, LeastIsShort
      <4>3. l = n
        BY <1>l, <4>1, <4>2
      <4> QED
        BY <1>1, <2>4, <4>3
    <3> QED
      BY <2>2, <3>1, <3>2
  <2> QED
    BY <2>1, <2>3, <2>4
<1> QED
  BY <1>4, <1>l

\* The path that an action makes has one action more, which costs what a last one does.
LEMMA ChildCosts ==
  ASSUME NEW w, NEW u, NEW v, Uniform(w, u, v), NEW p \in Path, NEW min, NEW a \in Actions,
         StateAfter(w, p.actions) \in State, CanExecute(w, StateAfter(w, p.actions), a)
  PROVE  /\ Len(Child(w, min, p, StateAfter(w, p.actions), a).actions) = Len(p.actions) + 1
         /\ Child(w, min, p, StateAfter(w, p.actions), a).cost =
              p.cost + LastCost(w, Child(w, min, p, StateAfter(w, p.actions), a), u, v)
<1>k. PICK k : k = Child(w, min, p, StateAfter(w, p.actions), a)
  OBVIOUS
<1>s. PICK s : s = Execute(w, StateAfter(w, p.actions), a)
  OBVIOUS
<1>1. p.actions \in Seq(Actions)
  BY DEF Path
<1>2. k.actions = Append(p.actions, a) /\ k.cost = ChildCost(w, min, p.cost, s)
  BY <1>k, <1>s DEF Child
<1>3. Len(k.actions) = Len(p.actions) + 1 /\ StateAfter(w, k.actions) = s
  BY <1>1, <1>2, <1>s, TrajectoryAppended
<1>4. StateAfter(w, p.actions).data \in Data
  BY DEF State
<1>d. PICK d : d = StateAfter(w, p.actions).data
  OBVIOUS
<1>5. s = w.step[d][a] /\ w.step[d][a] # Inexecutable
  BY <1>s, <1>d DEF Execute, CanExecute
<1>6. w.distance[s.data] * s.cost = (IF s.data \in w.enough THEN v ELSE u) /\ ~ w.monotonic
  BY <1>4, <1>5, <1>d DEF Uniform
<1>7. ChildCost(w, min, p.cost, s) = p.cost + (IF s.data \in w.enough THEN v ELSE u)
  BY <1>6 DEF ChildCost, IsLandmark
<1> QED
  BY <1>2, <1>3, <1>7, <1>k DEF LastCost

\* The search of a blind problem is at some level.
Levels ==
  pc = "search" /\ Blind(problem) =>
    \E u, v : /\ Uniform(problem, u, v)
              /\ AtLevel(problem, visited, Frontier!Ready(unvisited),
                         Frontier!Waiting(unvisited), u, v)

\* The first paths have one action.
LEMMA BeginLevels ==
  ASSUME IInv, IInv', Begin
  PROVE  Levels'
<1>w. PICK w : w = problem
  OBVIOUS
<1>V. PICK V : V = {w.start}
  OBVIOUS
<1>g. PICK g : g = Gathered(w, unvisited, Root, w.start, minDistance)
  OBVIOUS
<1>R. PICK R : R = Frontier!Ready(g.unvisited)
  OBVIOUS
<1>W. PICK W : W = Frontier!Waiting(g.unvisited)
  OBVIOUS
<1>1. pc = "start" /\ pc' = "search" /\ visited' = V /\ unvisited' = g.unvisited /\ problem' = w
  BY <1>w, <1>V, <1>g DEF Begin
<1> SUFFICES ASSUME Blind(w)
             PROVE  \E u, v : Uniform(w, u, v) /\ AtLevel(w, V, R, W, u, v)
  BY <1>1, <1>R, <1>W DEF Levels
<1>2. /\ w \in Problems /\ Queue!Settled(unvisited) /\ minDistance \in Int
      /\ Frontier!Held(unvisited) = {}
  BY <1>w, <1>1 DEF IInv, Locals, Phases
<1>3. Complete(w, V, R \cup W)
  BY <1>1, <1>R, <1>W DEF IInv, Phases, Frontier!Held
<1>4. PICK u, v : Uniform(w, u, v)
  BY <1>2, BlindUniform
<1>5. u \in Nat \ {0} /\ v \in Nat
  BY <1>4 DEF Uniform
<1>6. /\ Analysed(w, V, Root) /\ StateAfter(w, Root.actions) = w.start
      /\ Root \in Path /\ w.start \in State /\ Len(Root.actions) = 0 /\ Root.cost = 0
  <2>1. w.start \in V /\ w.start \in State
    BY <1>2, <1>V, ProblemFacts
  <2>2. Analysed(w, V, Root) /\ StateAfter(w, Root.actions) = w.start
    BY <2>1, RootAnalysed
  <2>3. Root \in Path /\ Len(Root.actions) = 0 /\ Root.cost = 0
    BY <2>2 DEF Analysed, Root
  <2> QED
    BY <2>1, <2>2, <2>3
<1>7. \A a \in Actions : CanExecute(w, w.start, a) =>
        /\ Child(w, minDistance, Root, w.start, a) \in Fitting
        /\ Execute(w, w.start, a) \in State
  <2>1. ASSUME NEW a \in Actions, CanExecute(w, w.start, a)
        PROVE  /\ Child(w, minDistance, Root, w.start, a) \in Fitting
               /\ Execute(w, w.start, a) \in State
    <3>1. CanExecute(w, StateAfter(w, Root.actions), a)
      BY <1>6, <2>1
    <3>2. /\ Child(w, minDistance, Root, StateAfter(w, Root.actions), a) \in Fitting
          /\ Execute(w, StateAfter(w, Root.actions), a) \in State
      BY <1>2, <1>6, <3>1, ChildProper
    <3> QED
      BY <1>6, <3>2
  <2> QED
    BY <2>1
<1>8. /\ R = Frontier!Ready(unvisited)
      /\ \A p : p \in W <=>
           \/ p \in Frontier!Waiting(unvisited)
           \/ \E a \in Actions :
                CanExecute(w, w.start, a) /\ p = Child(w, minDistance, Root, w.start, a)
  BY <1>2, <1>7, <1>g, <1>R, <1>W, GatheredFacts
<1>9. R = {} /\ \A p \in W : \E a \in Actions :
                  CanExecute(w, w.start, a) /\ p = Child(w, minDistance, Root, w.start, a)
  BY <1>2, <1>8 DEF Frontier!Held
<1>10. ASSUME NEW p \in R \cup W
       PROVE  p.cost \in Nat /\ Len(p.actions) = 0 + 1 /\ p.cost = (-u + u) + LastCost(w, p, u, v)
  <2>1. PICK a \in Actions :
          CanExecute(w, w.start, a) /\ p = Child(w, minDistance, Root, w.start, a)
    BY <1>9
  <2>2. Len(p.actions) = 0 + 1 /\ p.cost = 0 + LastCost(w, p, u, v)
    <3>1. /\ CanExecute(w, StateAfter(w, Root.actions), a)
          /\ p = Child(w, minDistance, Root, StateAfter(w, Root.actions), a)
          /\ Root \in Path /\ StateAfter(w, Root.actions) \in State /\ a \in Actions
      BY <1>6, <2>1
    <3>2. Len(p.actions) = Len(Root.actions) + 1 /\ p.cost = Root.cost + LastCost(w, p, u, v)
      BY ONLY <1>4, <3>1, ChildCosts
    <3> QED
      BY <1>6, <3>2
  <2>3. LastCost(w, p, u, v) \in Nat
    BY <1>5 DEF LastCost
  <2> QED
    BY <1>5, <2>2, <2>3
<1>11. Spread(w, R \cup W, 0, -u, u, v)
  BY <1>10 DEF Spread
<1>12. Covered(w, V, R \cup W, 0)
  <2>1. Reached(w)[0] = {w.start.data} /\ \A m \in 0 .. Cardinality(Data) : ~ (m < 0)
    BY ReachedDef
  <2> QED
    BY <2>1, <1>V DEF Covered, Known
<1>13. Early(R, W)
  BY <1>9 DEF Early
<1>14. V \subseteq State /\ u \in Int /\ 0 \in Nat /\ -u \in Int
  BY <1>5, <1>6, <1>V
<1>15. AtLevel(w, V, R, W, u, v)
  BY <1>3, <1>11, <1>12, <1>13, <1>14, LevelSettles
<1> QED
  BY <1>4, <1>15

\* An iteration takes a ready path of least cost.
LEMMA TakeLevel ==
  ASSUME IInv, Levels, Blind(problem), NEW p, NEW hit, Take(p, hit)
  PROVE  \E u, v, R, W :
           /\ Uniform(problem, u, v) /\ AtLevel(problem, visited, R, W, u, v)
           /\ Leaves(R, W, p, Frontier!Ready(Frontier!Popped(unvisited).pq),
                     Frontier!Waiting(Frontier!Popped(unvisited).pq))
<1>1. /\ pc = "search" /\ ~ Frontier!IsEmpty(unvisited) /\ Queue!Settled(unvisited)
      /\ p = Frontier!Popped(unvisited).value
  BY DEF Take, IInv, Locals
<1>2. PICK u, v : /\ Uniform(problem, u, v)
                  /\ AtLevel(problem, visited, Frontier!Ready(unvisited),
                             Frontier!Waiting(unvisited), u, v)
  BY <1>1 DEF Levels
<1>3. PICK n \in Nat, b \in Int : Level(problem, visited, Frontier!Ready(unvisited),
                                        Frontier!Waiting(unvisited), n, b, u, v)
  BY <1>2 DEF AtLevel
<1>r. PICK r : r = Frontier!Popped(unvisited).pq
  OBVIOUS
<1>4. PICK R, W :
        /\ \/ R = Frontier!Ready(unvisited) /\ W = Frontier!Waiting(unvisited)
           \/ Frontier!Ready(unvisited) = {} /\ R = Frontier!Waiting(unvisited) /\ W = {}
        /\ p \in R /\ \A q \in R : Frontier!ICost(p) <= Frontier!ICost(q)
        /\ R \cup W = Frontier!Held(r) \cup {p}
        /\ \/ Frontier!Waiting(r) = W /\ Frontier!Ready(r) \subseteq R
           \/ Frontier!Waiting(r) = {}
  BY <1>1, <1>r, TakenLeast
<1>5. Leaves(R, W, p, Frontier!Ready(r), Frontier!Waiting(r))
  BY <1>4 DEF Leaves, Least, Frontier!Held
<1>6. AtLevel(problem, visited, R, W, u, v)
  <2>1. R \cup W = Frontier!Ready(unvisited) \cup Frontier!Waiting(unvisited)
    BY <1>4
  <2>2. Early(R, W)
    BY <1>3, <1>4 DEF Level, Early
  <2> QED
    BY <1>3, <2>1, <2>2 DEF Level, AtLevel
<1> QED
  BY <1>2, <1>5, <1>6, <1>r

\* A path to a visited state is no loss to its level.
LEMMA RejectLevels ==
  ASSUME IInv, IInv', Levels, Reject
  PROVE  Levels'
<1>w. PICK w : w = problem
  OBVIOUS
<1>p. PICK p : p = Frontier!Popped(unvisited).value
  OBVIOUS
<1>r. PICK r : r = Frontier!Popped(unvisited).pq
  OBVIOUS
<1>R1. PICK R1 : R1 = Frontier!Ready(r)
  OBVIOUS
<1>W1. PICK W1 : W1 = Frontier!Waiting(r)
  OBVIOUS
<1>1. /\ Take(p, TRUE) /\ unvisited' = r /\ problem' = w /\ pc' = pc /\ visited' = visited
  BY <1>w, <1>p, <1>r DEF Reject
<1> SUFFICES ASSUME Blind(w)
             PROVE  \E u, v : Uniform(w, u, v) /\ AtLevel(w, visited, R1, W1, u, v)
  BY <1>1, <1>R1, <1>W1 DEF Levels
<1>2. pc = "search" /\ \E x \in visited : x.data = StateAfter(w, p.actions).data
  BY <1>1, <1>w, TakeFacts
<1>3. Complete(w, visited, R1 \cup W1) /\ visited \subseteq State
  BY <1>1, <1>2, <1>R1, <1>W1 DEF IInv, Phases, Locals, Frontier!Held
<1>4. PICK u, v, R, W : /\ Uniform(w, u, v) /\ AtLevel(w, visited, R, W, u, v)
                        /\ Leaves(R, W, p, R1, W1)
  BY <1>1, <1>w, <1>r, <1>R1, <1>W1, TakeLevel
<1>5. Known(visited, StateAfter(w, p.actions).data)
  BY <1>2 DEF Known
<1>6. Succeed(w, p, {}, u, v) /\ W1 \cup {} = W1
  BY DEF Succeed
<1>7. AtLevel(w, visited, R1, W1 \cup {}, u, v)
  <2>1. Complete(w, visited, R1 \cup (W1 \cup {})) /\ visited \subseteq visited
    BY <1>3, <1>6
  <2> QED
    BY ONLY <1>3, <1>4, <1>5, <1>6, <2>1, LevelGoesOn
<1> QED
  BY <1>4, <1>6, <1>7

\* The paths that come in the place of an analysed one belong to the next level.
LEMMA ExpandLevels ==
  ASSUME IInv, IInv', Levels, Expand
  PROVE  Levels'
<1>w. PICK w : w = problem
  OBVIOUS
<1>p. PICK p : p = Frontier!Popped(unvisited).value
  OBVIOUS
<1>r. PICK r : r = Frontier!Popped(unvisited).pq
  OBVIOUS
<1>s. PICK s : s = StateAfter(w, p.actions)
  OBVIOUS
<1>V. PICK V : V = visited \cup {s}
  OBVIOUS
<1>g. PICK g : g = Gathered(w, r, p, s, minDistance)
  OBVIOUS
<1>R1. PICK R1 : R1 = Frontier!Ready(r)
  OBVIOUS
<1>W1. PICK W1 : W1 = Frontier!Waiting(r)
  OBVIOUS
<1>K. PICK K : K = {Child(w, minDistance, p, s, a) : a \in {x \in Actions : CanExecute(w, s, x)}}
  OBVIOUS
<1>1. /\ Take(p, FALSE) /\ s.data \notin w.enough /\ visited' = V
      /\ unvisited' = g.unvisited /\ problem' = w /\ pc' = pc
  BY <1>w, <1>p, <1>r, <1>s, <1>V, <1>g DEF Expand, EndOf
<1>2. /\ pc = "search" /\ w \in Problems /\ Queue!Settled(r) /\ p \in Path
      /\ Proper(w, visited, p) /\ s \notin visited
  BY <1>1, <1>r, <1>w, <1>s, TakeFacts
<1>3. minDistance \in Int /\ V \subseteq State /\ s \in State /\ visited \subseteq V
  BY <1>1, <1>V DEF IInv, Locals
<1>4. Analysed(w, V, p)
  BY <1>2, <1>s, <1>V, ProperAnalysed
<1>5. \A a \in Actions : CanExecute(w, s, a) =>
        Child(w, minDistance, p, s, a) \in Fitting /\ Execute(w, s, a) \in State
  BY <1>2, <1>3, <1>4, <1>s, ChildProper
<1>6. Frontier!Ready(g.unvisited) = R1 /\ Frontier!Waiting(g.unvisited) = W1 \cup K
  <2>1. /\ Frontier!Ready(g.unvisited) = R1
        /\ \A q : q \in Frontier!Waiting(g.unvisited) <=>
             \/ q \in W1
             \/ \E a \in Actions : CanExecute(w, s, a) /\ q = Child(w, minDistance, p, s, a)
    BY <1>2, <1>3, <1>5, <1>g, <1>R1, <1>W1, GatheredFacts
  <2>2. \A q : q \in K <=>
          \E a \in Actions : CanExecute(w, s, a) /\ q = Child(w, minDistance, p, s, a)
    BY <1>K
  <2> QED
    BY <2>1, <2>2
<1> SUFFICES ASSUME Blind(w)
             PROVE  \E u, v : Uniform(w, u, v) /\ AtLevel(w, V, R1, W1 \cup K, u, v)
  BY <1>1, <1>6 DEF Levels
<1>7. Complete(w, V, R1 \cup (W1 \cup K))
  BY <1>1, <1>2, <1>6 DEF IInv, Phases, Frontier!Held
<1>8. PICK u, v, R, W : /\ Uniform(w, u, v) /\ AtLevel(w, visited, R, W, u, v)
                        /\ Leaves(R, W, p, R1, W1)
  BY <1>1, <1>w, <1>r, <1>R1, <1>W1, TakeLevel
<1>9. Known(V, StateAfter(w, p.actions).data)
  BY <1>V, <1>s DEF Known
<1>10. ASSUME NEW k \in K
       PROVE  /\ Len(k.actions) = Len(p.actions) + 1
              /\ k.cost = p.cost + LastCost(w, k, u, v)
  <2>1. PICK a \in Actions : CanExecute(w, s, a) /\ k = Child(w, minDistance, p, s, a)
    BY <1>K
  <2>2. /\ CanExecute(w, StateAfter(w, p.actions), a) /\ StateAfter(w, p.actions) \in State
        /\ k = Child(w, minDistance, p, StateAfter(w, p.actions), a)
    BY <1>3, <1>s, <2>1
  <2> QED
    BY ONLY <1>2, <1>8, <2>1, <2>2, ChildCosts
<1>11. Succeed(w, p, K, u, v)
  BY <1>1, <1>10, <1>s DEF Succeed
<1>12. AtLevel(w, V, R1, W1 \cup K, u, v)
  BY ONLY <1>3, <1>7, <1>8, <1>9, <1>11, LevelGoesOn
<1> QED
  BY <1>8, <1>12

\* The plan that is found is as short as any.
LEMMA ReachShortest ==
  ASSUME IInv, Levels, Reach
  PROVE  ShortestPlan'
<1>w. PICK w : w = problem
  OBVIOUS
<1>p. PICK p : p = Frontier!Popped(unvisited).value
  OBVIOUS
<1>r. PICK r : r = Frontier!Popped(unvisited).pq
  OBVIOUS
<1>1. /\ Take(p, FALSE) /\ plan' = p.actions \o plan /\ problem' = w
  BY <1>w, <1>p DEF Reach, Answer
<1>2. /\ w \in Problems /\ plan = <<>> /\ Proper(w, visited, p)
      /\ Frontier!Held(unvisited) = Frontier!Held(r) \cup {p}
      /\ Complete(w, visited, Frontier!Held(unvisited)) /\ visited \subseteq State
  BY <1>1, <1>w, <1>r, TakeFacts DEF IInv, Locals
<1>3. plan' = p.actions
  <2>1. p.actions \in Seq(Actions)
    BY <1>2 DEF Proper, Path
  <2> QED
    BY <1>1, <1>2, <2>1, ConcatEmptySeq
<1> SUFFICES ASSUME Blind(w)
             PROVE  \A m \in 1 .. Len(p.actions) - 1 :
                      Reached(w)[m] \cap w.enough \subseteq {w.start.data}
  BY <1>1, <1>3 DEF ShortestPlan
<1>4. PICK u, v, R, W :
        /\ Uniform(w, u, v) /\ AtLevel(w, visited, R, W, u, v)
        /\ Leaves(R, W, p, Frontier!Ready(r), Frontier!Waiting(r))
  BY <1>1, <1>w, <1>r, TakeLevel
<1>5. Least(R, p) /\ Complete(w, visited, R \cup W)
  BY <1>2, <1>4 DEF Leaves, Frontier!Held
<1> QED
  BY <1>2, <1>4, <1>5, NoneShorter

\* With a blind meter either kind of frontier makes makePlan() find a shortest plan, as
\* the towers of Hanoi of tst_goap.cpp expect.
THEOREM FindsShortest == Spec => []ShortestPlan
<1>1. Init => Levels /\ ShortestPlan
  BY DEF Init, Levels, ShortestPlan
<1>2. IInv /\ IInv' /\ Levels /\ ShortestPlan /\ [Next]_vars => (Levels /\ ShortestPlan)'
  <2> SUFFICES ASSUME IInv, IInv', Levels, ShortestPlan, [Next]_vars
               PROVE  Levels' /\ ShortestPlan'
    OBVIOUS
  <2>1. CASE Begin
    BY <2>1, BeginLevels DEF Begin, ShortestPlan
  <2>2. CASE Reject
    <3>1. pc' = "search"
      BY <2>2 DEF Reject, Take
    <3> QED
      BY <2>2, <3>1, RejectLevels DEF ShortestPlan
  <2>3. CASE Reach
    <3>1. pc' = "found"
      BY <2>3 DEF Reach, Answer
    <3> QED
      BY <2>3, <3>1, ReachShortest DEF Levels
  <2>4. CASE Expand
    <3>1. pc' = "search"
      BY <2>4 DEF Expand, Take
    <3> QED
      BY <2>4, <3>1, ExpandLevels DEF ShortestPlan
  <2>5. CASE Exhaust
    BY <2>5 DEF Exhaust, Levels, ShortestPlan
  <2>6. CASE UNCHANGED vars
    BY <2>6 DEF vars, Levels, ShortestPlan
  <2> QED
    BY <2>1, <2>2, <2>3, <2>4, <2>5, <2>6 DEF Next
<1> QED
  BY <1>1, <1>2, Invariance, PTL DEF Spec
-----------------------------------------------------------------------------
(***************************************************************************)
(* What follows from it.                                                   *)
(***************************************************************************)
\* The local variables of makePlan() keep their types.
THEOREM TypeCorrect == Spec => []TypeOK
<1>1. IInv => TypeOK
  <2> SUFFICES ASSUME IInv PROVE TypeOK
    OBVIOUS
  <2>1. Locals
    BY DEF IInv
  <2>2. /\ unvisited.lazy \in Seq(Path)
        /\ \A k \in DOMAIN unvisited.queues : unvisited.queues[k] \in Seq(Path)
    BY <2>1, HeldFits DEF Locals
  <2> QED
    BY <2>1, <2>2 DEF TypeOK, Locals
<1> QED
  BY <1>1, Invariance, PTL

\* The search of makePlan() forgets nothing that can be done in a state it analysed.
THEOREM ForgetsNothing == Spec => []FrontierComplete
<1>1. IInv => FrontierComplete
  <2> SUFFICES ASSUME IInv, pc \in {"search", "failed"}
               PROVE  /\ \A v \in visited, a \in Actions :
                           CanExecute(problem, v, a) =>
                             Execute(problem, v, a).data \in
                               {u.data : u \in visited \cup {EndOf(p) : p \in Frontier!Held(unvisited)}}
                      /\ \A v \in visited : v.data \in problem.enough => v = problem.start
    BY DEF FrontierComplete
  <2>1. Complete(problem, visited, Frontier!Held(unvisited))
    BY DEF IInv, Phases
  <2>2. \A p : EndOf(p) = StateAfter(problem, p.actions)
    BY DEF EndOf
  <2> QED
    BY <2>1, <2>2 DEF Complete
<1> QED
  BY <1>1, Invariance, PTL

\* The states makePlan() hands to its caller are those of the plan, and none comes
\* twice with one cost.
THEOREM StatesOfThePlan == Spec => []StatesMatchPlan
<1>1. IInv => StatesMatchPlan
  BY DEF IInv, Phases, Matches, StatesMatchPlan
<1> QED
  BY <1>1, Invariance, PTL
-----------------------------------------------------------------------------
(***************************************************************************)
(* makePlan() does what its interface promises: every step of the search   *)
(* is a step of the contract or leaves it as it is.                        *)
(***************************************************************************)
\* The answer of the contract.
Answered == CASE pc = "found"  -> plan
              [] pc = "failed" -> NoPlan
              [] OTHER         -> Pending

\* The contract speaks of the same plans and the same reachable states.
LEMMA SameReference ==
  ASSUME NEW w
  PROVE  /\ Contract!Problem = Problem
         /\ Contract!Unsolvable(w) <=> Unsolvable(w)
         /\ \A list : Contract!Solves(w, list) <=> Solves(w, list)
<1>1. Contract!Problem = Problem
  BY DEF Contract!Problem, Problem, Contract!State, State
<1>n. Contract!Cardinality(Data) = Cardinality(Data)
  BY DEF Contract!Cardinality, Cardinality
<1>2. Contract!Reached(w) = Reached(w)
  <2>1. \A D : Contract!Successors(w, D) = Successors(w, D)
    BY DEF Contract!Successors, Successors
  <2> QED
    BY <1>n, <2>1 DEF Contract!Reached, Reached
<1>3. \A list : Contract!Trajectory(w, list) = Trajectory(w, list)
  BY DEF Contract!Trajectory, Trajectory, Contract!Execute, Execute
<1>4. \A list : Contract!StateAfter(w, list) = StateAfter(w, list)
  BY <1>3 DEF Contract!StateAfter, StateAfter
<1>5. \A s, a : Contract!CanExecute(w, s, a) <=> CanExecute(w, s, a)
  BY DEF Contract!CanExecute, CanExecute
<1>6. Contract!Unsolvable(w) <=> Unsolvable(w)
  BY <1>2, <1>n DEF Contract!Unsolvable, Unsolvable
<1>7. \A list : Contract!Solves(w, list) <=> Solves(w, list)
  BY <1>3, <1>4, <1>5 DEF Contract!Solves, Solves
<1> QED
  BY <1>1, <1>6, <1>7

\* A search that gives up has analysed a set of states that no action leaves.
LEMMA FailedUnsolvable ==
  ASSUME IInv, Exhaust
  PROVE  Unsolvable(problem)
<1>D. PICK D : D = {v.data : v \in visited}
  OBVIOUS
<1>1. /\ problem.start \in visited /\ Complete(problem, visited, Frontier!Held(unvisited))
      /\ Frontier!Held(unvisited) = {}
  BY Emptiness DEF IInv, Phases, Exhaust
<1>2. problem.start.data \in D
  BY <1>1, <1>D
<1>3. \A d \in D, a \in Actions :
        problem.step[d][a] # Inexecutable => problem.step[d][a].data \in D
  BY <1>1, <1>D DEF Complete, CanExecute, Execute
<1>4. D \cap problem.enough \subseteq {problem.start.data}
  BY <1>1, <1>D DEF Complete
<1> QED
  BY <1>2, <1>3, <1>4, ClosedUnsolvable

\* The contract's answer is pending until the call returns.
LEMMA AnsweredFacts ==
  /\ pc \in {"start", "search"} => Answered = Pending
  /\ pc = "found" => Answered = plan
  /\ pc = "failed" => Answered = NoPlan
BY DEF Answered

\* makePlan() answers once, with a plan that solves the problem, or with none when no
\* sequence of actions leads to a good state.
THEOREM MakesPlans == Spec => MakePlanContract
<1>1. Init => Contract!ContractInit
  <2> SUFFICES ASSUME Init PROVE Contract!ContractInit
    OBVIOUS
  <2>1. problem \in Problem /\ Answered = Pending
    BY ProblemsAssumption, AnsweredFacts DEF Init
  <2>2. Contract!Problem = Problem
    BY SameReference
  <2> QED
    BY <2>1, <2>2 DEF Contract!ContractInit, Answered
<1>2. IInv /\ IInv' /\ [Next]_vars => [Contract!Answer]_<<problem, Answered>>
  <2> SUFFICES ASSUME IInv, IInv', [Next]_vars
               PROVE  Contract!Answer \/ UNCHANGED <<problem, Answered>>
    OBVIOUS
  <2>1. CASE pc' = pc /\ problem' = problem /\ pc \in {"start", "search"}
    BY <2>1 DEF Answered
  <2>2. CASE UNCHANGED vars
    BY <2>2 DEF vars, Answered
  <2>3. CASE Begin
    BY <2>3 DEF Begin, Answered
  <2>4. CASE Reject \/ Expand
    BY <2>4 DEF Reject, Expand, Take, Answered
  <2>5. CASE Reach
    <3>1. pc = "search" /\ pc' = "found" /\ problem' = problem
      BY <2>5 DEF Reach, Answer, Take
    <3>2. Solves(problem, plan') /\ plan' \in Seq(Actions)
      BY <3>1 DEF IInv, Phases, Locals
    <3>3. plan' # Pending /\ plan' # NoPlan
      BY <3>2, AnswersAssumption
    <3>4. Contract!Solves(problem, plan')
      BY <3>2, SameReference
    <3>5. Answered = Pending /\ Answered' = plan'
      BY <3>1 DEF Answered
    <3> QED
      BY <3>1, <3>3, <3>4, <3>5 DEF Contract!Answer, Answered
  <2>6. CASE Exhaust
    <3>1. pc = "search" /\ pc' = "failed" /\ problem' = problem
      BY <2>6 DEF Exhaust
    <3>2. Contract!Unsolvable(problem)
      BY <2>6, FailedUnsolvable, SameReference
    <3>3. Answered = Pending /\ Answered' = NoPlan
      BY <3>1 DEF Answered
    <3> QED
      BY <3>1, <3>2, <3>3, AnswersAssumption DEF Contract!Answer, Answered
  <2> QED
    BY <2>1, <2>2, <2>3, <2>4, <2>5, <2>6 DEF Next
<1> QED
  BY <1>1, <1>2, Invariance, PTL DEF Spec, MakePlanContract, Contract!ContractSpec, Answered
-----------------------------------------------------------------------------
(***************************************************************************)
(* Why the search ends: a round takes a path out of the frontier for good  *)
(* or analyses one more of a bounded number of states, which adds a path   *)
(* for every action at most.                                               *)
(***************************************************************************)
\* The initial state and the states that actions lead to.
Few(w) == {w.start} \cup {w.step[da[1]][da[2]] : da \in Data \X Actions}

\* The rounds that are left, at most: one for each path that waits, and for each that
\* the states not analysed yet can still add.
RoundsLeft == (MostStates - Cardinality(visited)) * Len(ActionList) + Queue!Stored(unvisited)

EndInv == /\ IInv
          /\ visited \subseteq Few(problem)
          /\ IsFiniteSet(Queue!Slots(unvisited))
          /\ RoundsLeft <= MostStates * Len(ActionList)

\* A multiple grows by the factor.
LEMMA Multiple ==
  ASSUME NEW n \in Nat, NEW m \in Nat
  PROVE  n * m \in Nat /\ (n + 1) * m = n * m + m
OBVIOUS

\* A plan that can be executed ends in such a state.
LEMMA EndsInFew ==
  ASSUME NEW w \in Problems, NEW list \in Seq(Actions), Runs(w, list)
  PROVE  StateAfter(w, list) \in Few(w)
<1>l. PICK l : l = Len(list)
  OBVIOUS
<1>T. PICK T : T = Trajectory(w, list)
  OBVIOUS
<1>1. l \in Nat /\ StateAfter(w, list) = T[l]
  BY <1>l, <1>T DEF StateAfter
<1>2. CASE l = 0
  <2>1. T[0] = w.start
    BY <1>T, TrajectoryDef, SMTT(20)
  <2> QED
    BY <1>1, <1>2, <2>1 DEF Few
<1>3. CASE l # 0
  <2>1. l \in 1 .. Len(list) /\ l - 1 \in 0 .. Len(list) /\ list[l] \in Actions
    BY <1>1, <1>3, <1>l
  <2>2. T[l] = w.step[T[l - 1].data][list[l]]
    BY <1>T, <2>1, TrajectoryDef DEF Execute
  <2>3. T[l - 1] \in State
    BY <1>T, <2>1, ProblemFacts, RunsThroughStates
  <2>4. T[l - 1].data \in Data
    BY <2>3 DEF State
  <2>5. PICK da : da = <<T[l - 1].data, list[l]>>
    OBVIOUS
  <2>6. da \in Data \X Actions /\ da[1] = T[l - 1].data /\ da[2] = list[l]
    BY <2>1, <2>4, <2>5
  <2> QED
    BY <1>1, <2>2, <2>6 DEF Few
<1> QED
  BY <1>2, <1>3

\* A set of them has at most MostStates.
LEMMA FewOfThem ==
  ASSUME NEW w \in Problems, NEW V, V \subseteq Few(w)
  PROVE  /\ IsFiniteSet(V) /\ Cardinality(V) \in Nat /\ MostStates \in Nat
         /\ MostStates - Cardinality(V) \in Nat
<1>1. IsFiniteSet(Few(w)) /\ Cardinality(Few(w)) <= MostStates /\ MostStates \in Nat
  BY FewStates DEF Few
<1>2. IsFiniteSet(V) /\ Cardinality(V) <= Cardinality(Few(w))
  BY <1>1, FS_Subset
<1>3. Cardinality(V) \in Nat /\ Cardinality(Few(w)) \in Nat
  BY <1>1, <1>2, FS_CardinalityType
<1> QED
  BY <1>1, <1>2, <1>3

\* How many paths the frontier holds is a natural number.
LEMMA StoredType ==
  ASSUME NEW q, Queue!Settled(q), IsFiniteSet(Queue!Slots(q))
  PROVE  Queue!Stored(q) \in Nat
<1>1. \A S : Queue!IsFiniteSet(S) <=> IsFiniteSet(S)
  BY DEF Queue!IsFiniteSet, IsFiniteSet
<1> QED
  BY <1>1, QueueAssumptions, Queue!StoredType
     DEF Queue!ScaleAssumption, Queue!CostAssumption, Queue!NullAssumption

\* pop() takes one out.
LEMMA TakenCount ==
  ASSUME NEW q, Queue!Settled(q), ~ Frontier!IsEmpty(q), IsFiniteSet(Queue!Slots(q))
  PROVE  /\ IsFiniteSet(Queue!Slots(Frontier!Popped(q).pq))
         /\ Queue!Stored(Frontier!Popped(q).pq) = Queue!Stored(q) - 1
<1>1. ~ Queue!IsEmpty(q) /\ Queue!Popped(q) = Frontier!Popped(q)
  BY SameReinsertion, SamePop
<1>2. \A S : Queue!IsFiniteSet(S) <=> IsFiniteSet(S)
  BY DEF Queue!IsFiniteSet, IsFiniteSet
<1>3. /\ Queue!IsFiniteSet(Queue!Slots(Queue!Popped(q).pq))
      /\ Queue!Stored(Queue!Popped(q).pq) = Queue!Stored(q) - 1
  BY <1>1, <1>2, QueueAssumptions, Queue!PoppedCount
     DEF Queue!ScaleAssumption, Queue!CostAssumption, Queue!NullAssumption
<1> QED
  BY <1>1, <1>2, <1>3

\* pushLazy() puts one in.
LEMMA AddedCount ==
  ASSUME NEW q, Queue!Settled(q), IsFiniteSet(Queue!Slots(q)), NEW p \in Fitting
  PROVE  /\ Queue!Slots(Frontier!PushedLazy(q, p)) = Queue!Slots(q)
         /\ Queue!Stored(Frontier!PushedLazy(q, p)) = Queue!Stored(q) + 1
<1>1. Queue!PushedLazy(q, p) = Frontier!PushedLazy(q, p)
  BY SamePush
<1>2. \A S : Queue!IsFiniteSet(S) <=> IsFiniteSet(S)
  BY DEF Queue!IsFiniteSet, IsFiniteSet
<1>3. /\ Queue!Slots(Queue!PushedLazy(q, p)) = Queue!Slots(q)
      /\ Queue!Stored(Queue!PushedLazy(q, p)) = Queue!Stored(q) + 1
  BY <1>2, QueueAssumptions, Queue!PushedLazyCount
     DEF Queue!ScaleAssumption, Queue!CostAssumption, Queue!NullAssumption
<1> QED
  BY <1>1, <1>3

\* gather() adds a path for every action at most.
LEMMA GatheredCount ==
  ASSUME NEW w \in Problems, NEW queue, Queue!Settled(queue), NEW parent, NEW from,
         NEW min \in Int, IsFiniteSet(Queue!Slots(queue)),
         \A a \in Actions : CanExecute(w, from, a) =>
           Child(w, min, parent, from, a) \in Fitting /\ Execute(w, from, a) \in State
  PROVE  LET after == Gathered(w, queue, parent, from, min).unvisited IN
         /\ IsFiniteSet(Queue!Slots(after))
         /\ Queue!Stored(queue) \in Nat /\ Queue!Stored(after) \in Nat
         /\ Queue!Stored(after) <= Queue!Stored(queue) + Len(ActionList)
<1>L. PICK L : L = Len(ActionList)
  OBVIOUS
<1>1. L \in Nat /\ \A n \in 1 .. L : ActionList[n] \in Actions
  BY <1>L, ActionsAssumption
<1>G. PICK G : /\ G[0] = [unvisited |-> queue, minDistance |-> min]
               /\ \A n \in 1 .. Len(ActionList) :
                    G[n] = GatheredOne(w, G[n - 1], parent, from, min, ActionList[n])
               /\ Gathered(w, queue, parent, from, min) = G[Len(ActionList)]
  BY ONLY GatheredDef, SMTT(20)
<1>q. Queue!Stored(queue) \in Nat
  BY StoredType
<1> DEFINE good(n) == /\ Queue!Settled(G[n].unvisited)
                      /\ Queue!Slots(G[n].unvisited) = Queue!Slots(queue)
                      /\ Queue!Stored(G[n].unvisited) \in Nat
                      /\ Queue!Stored(G[n].unvisited) <= Queue!Stored(queue) + n
           S       == {n \in 0 .. L : good(n)}
<1>2. 0 \in S
  <2>1. G[0].unvisited = queue
    BY <1>G
  <2>2. good(0)
    BY <1>q, <2>1
  <2> QED
    BY <1>1, <2>2
<1>3. ASSUME NEW n \in 0 .. L - 1, n \in S PROVE n + 1 \in S
  <2>1. n + 1 \in 1 .. L /\ (n + 1) - 1 = n /\ n + 1 \in 0 .. L /\ n \in Nat
    BY <1>1
  <2>2. good(n)
    BY <1>3
  <2>a. PICK a : a = ActionList[n + 1]
    OBVIOUS
  <2>3. a \in Actions /\ G[n + 1] = GatheredOne(w, G[n], parent, from, min, a)
    BY <1>1, <1>G, <1>L, <2>1, <2>a
  <2>4. CASE ~ CanExecute(w, from, a)
    <3>1. G[n + 1] = G[n]
      BY <2>3, <2>4 DEF GatheredOne
    <3>2. good(n + 1)
      BY <1>q, <2>1, <2>2, <3>1
    <3> QED
      BY <2>1, <3>2
  <2>5. CASE CanExecute(w, from, a)
    <3>c. PICK c : c = Child(w, min, parent, from, a)
      OBVIOUS
    <3>u. PICK u : u = G[n].unvisited
      OBVIOUS
    <3>1. G[n + 1].unvisited = Frontier!PushedLazy(u, c) /\ c \in Fitting
      BY <2>3, <2>5, <3>c, <3>u DEF GatheredOne
    <3>2. /\ Queue!Settled(u) /\ IsFiniteSet(Queue!Slots(u))
          /\ Queue!Slots(u) = Queue!Slots(queue)
          /\ Queue!Stored(u) \in Nat /\ Queue!Stored(u) <= Queue!Stored(queue) + n
      BY <2>2, <3>u
    <3>3. /\ Queue!Settled(Frontier!PushedLazy(u, c))
          /\ Queue!Slots(Frontier!PushedLazy(u, c)) = Queue!Slots(u)
          /\ Queue!Stored(Frontier!PushedLazy(u, c)) = Queue!Stored(u) + 1
      BY <3>1, <3>2, Added, AddedCount
    <3>4. good(n + 1)
      <4>1. \A x, y \in Nat : x <= y + n => x + 1 \in Nat /\ x + 1 <= y + (n + 1)
        BY <2>1
      <4> QED
        BY <1>q, <3>1, <3>2, <3>3, <4>1
    <3> QED
      BY <2>1, <3>4
  <2> QED
    BY <2>4, <2>5
<1>4. \A n \in 0 .. L : n \in S
  <2> HIDE DEF S
  <2> QED
    BY <1>1, <1>2, <1>3, UpTo
<1>5. good(L)
  BY <1>1, <1>4
<1> QED
  BY <1>5, <1>q, <1>G, <1>L

\* What a round that analyses a state, or the first gathering, adds to the frontier r.
LEMMA AnalysisCount ==
  ASSUME NEW w \in Problems, NEW V, NEW p, Analysed(w, V, p), NEW r, Queue!Settled(r),
         NEW min \in Int, IsFiniteSet(Queue!Slots(r))
  PROVE  LET after == Gathered(w, r, p, StateAfter(w, p.actions), min).unvisited IN
         /\ IsFiniteSet(Queue!Slots(after))
         /\ Queue!Stored(r) \in Nat /\ Queue!Stored(after) \in Nat
         /\ Queue!Stored(after) <= Queue!Stored(r) + Len(ActionList)
<1>1. \A a \in Actions : CanExecute(w, StateAfter(w, p.actions), a) =>
        /\ Child(w, min, p, StateAfter(w, p.actions), a) \in Fitting
        /\ Execute(w, StateAfter(w, p.actions), a) \in State
  BY ChildProper
<1> QED
  BY <1>1, GatheredCount

\* Such a round lessens the rounds left.
LEMMA OneMoreState ==
  ASSUME NEW w \in Problems, NEW V, V \subseteq Few(w), NEW s \in Few(w), s \notin V,
         NEW before \in Nat, NEW after \in Nat, after <= before + Len(ActionList)
  PROVE  /\ (MostStates - Cardinality(V)) * Len(ActionList) \in Nat
         /\ (MostStates - Cardinality(V \cup {s})) * Len(ActionList) \in Nat
         /\ (MostStates - Cardinality(V \cup {s})) * Len(ActionList) + after <=
              (MostStates - Cardinality(V)) * Len(ActionList) + before
<1>n. PICK n : n = MostStates - Cardinality(V \cup {s})
  OBVIOUS
<1>L. PICK L : L = Len(ActionList)
  OBVIOUS
<1>1. L \in Nat
  BY <1>L, ActionsAssumption
<1>2. /\ IsFiniteSet(V) /\ Cardinality(V) \in Nat /\ MostStates \in Nat
      /\ MostStates - Cardinality(V) \in Nat
  BY FewOfThem
<1>3. V \cup {s} \subseteq Few(w)
  OBVIOUS
<1>4. n \in Nat
  BY <1>n, <1>3, FewOfThem
<1>5. Cardinality(V \cup {s}) = Cardinality(V) + 1
  BY <1>2, FS_AddElement
<1>6. MostStates - Cardinality(V) = n + 1
  BY <1>2, <1>5, <1>n
<1>7. n * L \in Nat /\ (n + 1) * L = n * L + L
  BY <1>1, <1>4, Multiple
<1>8. \A x \in Nat : x + after <= (x + L) + before
  BY <1>1, <1>L
<1>9. n * L + L \in Nat
  BY <1>1, <1>7
<1> QED
  BY <1>6, <1>7, <1>8, <1>9, <1>n, <1>L

\* The call begins with the most.
LEMMA InitEnds == Init => EndInv
<1> SUFFICES ASSUME Init PROVE EndInv
  OBVIOUS
<1>1. IInv /\ visited = {}
  BY InitInvariant DEF Init
<1>2. PICK m : unvisited = Frontier!NewQueue(m)
  BY DEF Init
<1>3. \A S : Queue!IsFiniteSet(S) <=> IsFiniteSet(S)
  BY DEF Queue!IsFiniteSet, IsFiniteSet
<1>4. Queue!NewQueue(m) = Frontier!NewQueue(m)
  BY DEF Queue!NewQueue, Frontier!NewQueue
<1>5. Queue!IsFiniteSet(Queue!Slots(Queue!NewQueue(m))) /\ Queue!Stored(Queue!NewQueue(m)) = 0
  BY QueueAssumptions, Queue!NewCount
     DEF Queue!ScaleAssumption, Queue!CostAssumption, Queue!NullAssumption
<1>6. IsFiniteSet(Queue!Slots(unvisited)) /\ Queue!Stored(unvisited) = 0
  BY <1>2, <1>3, <1>4, <1>5
<1>7. Cardinality({}) = 0
  BY FS_EmptySet
<1>8. MostStates \in Nat /\ Len(ActionList) \in Nat
  BY <1>1, FewOfThem, ActionsAssumption DEF IInv, Locals
<1>9. MostStates * Len(ActionList) \in Nat
  BY <1>8, Multiple
<1>10. RoundsLeft = (MostStates - 0) * Len(ActionList) + 0
  BY <1>1, <1>6, <1>7 DEF RoundsLeft
<1>11. MostStates - 0 = MostStates
  BY <1>8
<1>12. RoundsLeft <= MostStates * Len(ActionList)
  BY <1>9, <1>10, <1>11
<1> QED
  BY <1>1, <1>6, <1>12 DEF EndInv

\* The number of rounds left is one.
LEMMA RoundsLeftType == EndInv => RoundsLeft \in Nat
<1> SUFFICES ASSUME EndInv PROVE RoundsLeft \in Nat
  OBVIOUS
<1>1. MostStates - Cardinality(visited) \in Nat /\ Len(ActionList) \in Nat
  BY FewOfThem, ActionsAssumption DEF EndInv, IInv, Locals
<1>2. (MostStates - Cardinality(visited)) * Len(ActionList) \in Nat
  BY <1>1, Multiple
<1> QED
  BY <1>2, StoredType DEF RoundsLeft, EndInv, IInv, Locals

\* The first gathering does not raise it.
LEMMA BeginEnds ==
  ASSUME EndInv, Begin
  PROVE  EndInv'
<1>w. PICK w : w = problem
  OBVIOUS
<1>u. PICK u : u = unvisited
  OBVIOUS
<1>g. PICK g : g = Gathered(w, u, Root, w.start, minDistance).unvisited
  OBVIOUS
<1>1. pc = "start" /\ visited' = {w.start} /\ unvisited' = g /\ problem' = w
  BY <1>w, <1>u, <1>g DEF Begin
<1>2. /\ w \in Problems /\ visited = {} /\ minDistance \in Int
      /\ Queue!Settled(u) /\ IsFiniteSet(Queue!Slots(u))
  BY <1>1, <1>w, <1>u DEF EndInv, IInv, Locals, Phases
<1>3. Analysed(w, {w.start}, Root) /\ StateAfter(w, Root.actions) = w.start
  BY RootAnalysed
<1>4. /\ IsFiniteSet(Queue!Slots(g)) /\ Queue!Stored(u) \in Nat /\ Queue!Stored(g) \in Nat
      /\ Queue!Stored(g) <= Queue!Stored(u) + Len(ActionList)
  BY <1>2, <1>3, <1>g, AnalysisCount
<1>5. w.start \in Few(w) /\ {} \cup {w.start} = {w.start}
  BY DEF Few
<1>6. RoundsLeft' <= RoundsLeft /\ RoundsLeft' \in Nat
  <2>1. RoundsLeft = (MostStates - Cardinality({})) * Len(ActionList) + Queue!Stored(u)
    BY <1>2, <1>u DEF RoundsLeft
  <2>2. RoundsLeft' = (MostStates - Cardinality({w.start})) * Len(ActionList) + Queue!Stored(g)
    BY <1>1 DEF RoundsLeft
  <2>3. /\ (MostStates - Cardinality({w.start})) * Len(ActionList) \in Nat
        /\ (MostStates - Cardinality({w.start})) * Len(ActionList) + Queue!Stored(g) <=
             (MostStates - Cardinality({})) * Len(ActionList) + Queue!Stored(u)
    BY <1>2, <1>4, <1>5, OneMoreState
  <2> QED
    BY <1>4, <2>1, <2>2, <2>3
<1>7. RoundsLeft \in Nat /\ RoundsLeft <= MostStates * Len(ActionList)
  BY RoundsLeftType DEF EndInv
<1>8. MostStates * Len(ActionList) \in Nat
  BY <1>2, <1>5, FewOfThem, ActionsAssumption, Multiple
<1>9. RoundsLeft' <= MostStates * Len(ActionList)
  BY <1>6, <1>7, <1>8
<1>10. IInv'
  BY BeginInvariant DEF EndInv
<1> QED
  BY <1>1, <1>4, <1>5, <1>9, <1>10 DEF EndInv

\* A round that drops its path, or ends the search with it, takes one out.
LEMMA DropEnds ==
  ASSUME EndInv, NEW p, NEW hit, Take(p, hit), IInv',
         unvisited' = Frontier!Popped(unvisited).pq, UNCHANGED <<problem, visited>>
  PROVE  EndInv' /\ RoundsLeft' < RoundsLeft
<1>r. PICK r : r = Frontier!Popped(unvisited).pq
  OBVIOUS
<1>1. /\ ~ Frontier!IsEmpty(unvisited) /\ Queue!Settled(unvisited) /\ Queue!Settled(r)
      /\ problem \in Problems /\ IsFiniteSet(Queue!Slots(unvisited)) /\ visited \subseteq Few(problem)
  BY <1>r DEF Take, EndInv, IInv, Locals
<1>2. IsFiniteSet(Queue!Slots(r)) /\ Queue!Stored(r) = Queue!Stored(unvisited) - 1
  BY <1>1, <1>r, TakenCount
<1>3. Queue!Stored(unvisited) \in Nat
  BY <1>1, StoredType
<1>c. PICK c : c = (MostStates - Cardinality(visited)) * Len(ActionList)
  OBVIOUS
<1>4. c \in Nat
  <2>1. MostStates - Cardinality(visited) \in Nat /\ Len(ActionList) \in Nat
    BY <1>1, FewOfThem, ActionsAssumption
  <2> QED
    BY <1>c, <2>1, Multiple
<1>5. RoundsLeft = c + Queue!Stored(unvisited) /\ RoundsLeft' = c + Queue!Stored(r)
  BY <1>c, <1>r DEF RoundsLeft
<1>6. RoundsLeft' < RoundsLeft /\ RoundsLeft \in Nat /\ RoundsLeft' \in Int
  BY <1>2, <1>3, <1>4, <1>5
<1>7. RoundsLeft <= MostStates * Len(ActionList) /\ MostStates * Len(ActionList) \in Nat
  BY <1>1, FewOfThem, ActionsAssumption, Multiple DEF EndInv
<1>8. RoundsLeft' <= MostStates * Len(ActionList)
  BY <1>6, <1>7
<1> QED
  BY <1>1, <1>2, <1>6, <1>8, <1>r DEF EndInv

\* A round that analyses a state takes a path out, adds one for each action at most, and
\* leaves a state less to analyse.
LEMMA ExpandEnds ==
  ASSUME EndInv, Expand
  PROVE  EndInv' /\ RoundsLeft' < RoundsLeft
<1>w. PICK w : w = problem
  OBVIOUS
<1>p. PICK p : p = Frontier!Popped(unvisited).value
  OBVIOUS
<1>r. PICK r : r = Frontier!Popped(unvisited).pq
  OBVIOUS
<1>s. PICK s : s = StateAfter(w, p.actions)
  OBVIOUS
<1>V. PICK V : V = visited
  OBVIOUS
<1>u. PICK u : u = unvisited
  OBVIOUS
<1>g. PICK g : g = Gathered(w, r, p, s, minDistance).unvisited
  OBVIOUS
<1>1. Take(p, FALSE) /\ visited' = V \cup {s} /\ unvisited' = g /\ problem' = w
  BY <1>w, <1>p, <1>r, <1>s, <1>V, <1>g DEF Expand, EndOf
<1>2. /\ w \in Problems /\ Queue!Settled(r) /\ Proper(w, V, p) /\ s \notin V
  BY <1>1, <1>w, <1>r, <1>s, <1>V, TakeFacts DEF EndInv
<1>3. /\ ~ Frontier!IsEmpty(u) /\ Queue!Settled(u) /\ IsFiniteSet(Queue!Slots(u))
      /\ V \subseteq Few(w) /\ minDistance \in Int
  BY <1>1, <1>u, <1>V, <1>w DEF Take, EndInv, IInv, Locals
<1>4. /\ IsFiniteSet(Queue!Slots(r)) /\ Queue!Stored(r) = Queue!Stored(u) - 1
      /\ Queue!Stored(u) \in Nat
  BY <1>3, <1>r, <1>u, TakenCount, StoredType
<1>5. Analysed(w, V \cup {s}, p)
  BY <1>2, <1>s, ProperAnalysed
<1>6. /\ IsFiniteSet(Queue!Slots(g)) /\ Queue!Stored(r) \in Nat /\ Queue!Stored(g) \in Nat
      /\ Queue!Stored(g) <= Queue!Stored(r) + Len(ActionList)
  BY <1>2, <1>3, <1>4, <1>5, <1>g, <1>s, AnalysisCount
<1>7. s \in Few(w)
  <2>1. p.actions \in Seq(Actions) /\ Runs(w, p.actions)
    BY <1>2 DEF Proper, Path
  <2> QED
    BY <1>2, <1>s, <2>1, EndsInFew
<1>8. /\ (MostStates - Cardinality(V)) * Len(ActionList) \in Nat
      /\ (MostStates - Cardinality(V \cup {s})) * Len(ActionList) \in Nat
      /\ (MostStates - Cardinality(V \cup {s})) * Len(ActionList) + Queue!Stored(g) <=
           (MostStates - Cardinality(V)) * Len(ActionList) + Queue!Stored(r)
  BY <1>2, <1>3, <1>6, <1>7, OneMoreState
<1>9. /\ RoundsLeft = (MostStates - Cardinality(V)) * Len(ActionList) + Queue!Stored(u)
      /\ RoundsLeft' = (MostStates - Cardinality(V \cup {s})) * Len(ActionList) + Queue!Stored(g)
  BY <1>1, <1>u, <1>V DEF RoundsLeft
<1>10. RoundsLeft' < RoundsLeft /\ RoundsLeft \in Nat /\ RoundsLeft' \in Nat
  BY <1>4, <1>6, <1>8, <1>9, SMTT(20)
<1>11. RoundsLeft <= MostStates * Len(ActionList) /\ MostStates * Len(ActionList) \in Nat
  BY <1>2, <1>3, FewOfThem, ActionsAssumption, Multiple DEF EndInv
<1>12. RoundsLeft' <= MostStates * Len(ActionList)
  BY <1>10, <1>11
<1>13. IInv'
  BY ExpandInvariant DEF EndInv
<1> QED
  BY <1>1, <1>3, <1>6, <1>7, <1>10, <1>12, <1>13 DEF EndInv

\* makePlan() makes MostStates * Len(ActionList) rounds at most before the one that ends
\* it, in whatever order a frontier of either kind serves paths and however low a
\* landmark's cost is: each lessens a natural number that begins no higher.  The bound
\* holds although a state may be analysed again at another cost.
THEOREM SearchRunsOut ==
  Spec => /\ [](RoundsLeft \in 0 .. MostStates * Len(ActionList))
          /\ [][pc = "search" => pc' \in {"found", "failed"} \/ RoundsLeft' < RoundsLeft]_vars
<1>1. EndInv => RoundsLeft \in 0 .. MostStates * Len(ActionList)
  <2> SUFFICES ASSUME EndInv PROVE RoundsLeft \in 0 .. MostStates * Len(ActionList)
    OBVIOUS
  <2>1. RoundsLeft \in Nat /\ RoundsLeft <= MostStates * Len(ActionList)
    BY RoundsLeftType DEF EndInv
  <2>2. problem \in Problems /\ visited \subseteq Few(problem)
    BY DEF EndInv, IInv, Locals
  <2>3. MostStates * Len(ActionList) \in Nat
    BY <2>2, FewOfThem, ActionsAssumption, Multiple
  <2> QED
    BY <2>1, <2>3
<1>2. ASSUME EndInv, [Next]_vars
      PROVE  /\ EndInv'
             /\ [pc = "search" => pc' \in {"found", "failed"} \/ RoundsLeft' < RoundsLeft]_vars
  <2>1. IInv'
    BY <1>2, NextInvariant DEF EndInv
  <2>2. CASE Begin
    BY <1>2, <2>2, BeginEnds DEF Begin
  <2>3. CASE Reject
    <3>1. /\ Take(Frontier!Popped(unvisited).value, TRUE)
          /\ unvisited' = Frontier!Popped(unvisited).pq /\ UNCHANGED <<problem, visited>>
      BY <2>3 DEF Reject
    <3> QED
      BY <1>2, <2>1, <3>1, DropEnds
  <2>4. CASE Reach
    <3>1. /\ Take(Frontier!Popped(unvisited).value, FALSE)
          /\ unvisited' = Frontier!Popped(unvisited).pq /\ UNCHANGED <<problem, visited>>
      BY <2>4 DEF Reach, Answer
    <3> QED
      BY <1>2, <2>1, <3>1, DropEnds
  <2>5. CASE Expand
    BY <1>2, <2>5, ExpandEnds
  <2>6. CASE Exhaust
    <3>1. pc' = "failed" /\ UNCHANGED <<problem, visited, unvisited>>
      BY <2>6 DEF Exhaust
    <3>2. RoundsLeft' = RoundsLeft
      BY <3>1 DEF RoundsLeft
    <3> QED
      BY <1>2, <2>1, <3>1, <3>2 DEF EndInv
  <2>7. CASE UNCHANGED vars
    <3>1. UNCHANGED <<problem, visited, unvisited>>
      BY <2>7 DEF vars
    <3>2. RoundsLeft' = RoundsLeft
      BY <3>1 DEF RoundsLeft
    <3> QED
      BY <1>2, <2>1, <2>7, <3>1, <3>2 DEF EndInv
  <2> QED
    BY <1>2, <2>2, <2>3, <2>4, <2>5, <2>6, <2>7 DEF Next
<1> QED
  BY <1>1, <1>2, InitEnds, PTL DEF Spec
=============================================================================
