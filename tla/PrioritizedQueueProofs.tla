------------------------ MODULE PrioritizedQueueProofs ------------------------
(***************************************************************************)
(* Proofs about PrioritizedQueue for every set of paths and every cost     *)
(* function.  Sound(q) is what holds of the object at every moment, inside *)
(* pop() and useLazyArray() too; a bucket may be empty only while pop()    *)
(* drains it.  The last parts prove the refinement of PriorityOrder, and   *)
(* that the object neither loses nor duplicates a path.                    *)
(***************************************************************************)
EXTENDS ArrivalOrder, Integers, SequenceTheorems, FiniteSetTheorems, WellFoundedInduction,
        TLAPS

Keyed(q) == \A k \in DOMAIN q.queues :
              \A i \in DOMAIN q.queues[k] : ICost(q.queues[k][i]) = k

Sound(q) == Object(q) /\ q.min = LeastKey(q.queues) /\ Keyed(q)

NoEmptyBucket(q) == \A k \in DOMAIN q.queues : q.queues[k] # <<>>
-----------------------------------------------------------------------------
(***************************************************************************)
(* Induction over the integers, in a form without an operator parameter.   *)
(***************************************************************************)
\* Every non-empty set of natural numbers has a least element.
LEMMA LeastNatural ==
  ASSUME NEW T \in SUBSET Nat, T # {}
  PROVE  \E n \in T : \A m \in T : n <= m
<1>1. \E n \in T : \A m \in T : ~ (<<m, n>> \in OpToRel(<, Nat))
  BY NatLessThanWellFounded, WFMin
<1>2. PICK n \in T : \A m \in T : ~ (<<m, n>> \in OpToRel(<, Nat))
  BY <1>1
<1>3. ASSUME NEW m \in T
      PROVE  n <= m
  <2>1. <<m, n>> \notin OpToRel(<, Nat)
    BY <1>2
  <2>2. ~ (m < n)
    BY <2>1 DEF OpToRel
  <2> QED
    BY <2>2
<1> QED
  BY <1>3

\* The same for integers above a bound.
LEMMA LeastInteger ==
  ASSUME NEW lo \in Int, NEW T \in SUBSET Int, T # {}, \A k \in T : lo <= k
  PROVE  \E n \in T : \A m \in T : n <= m
<1> DEFINE U == {n \in Nat : n + lo \in T}
<1>1. PICK t \in T : TRUE
  OBVIOUS
<1>2. t - lo \in U
  BY <1>1
<1>3. U \in SUBSET Nat /\ U # {}
  BY <1>2
<1>4. PICK u \in U : \A v \in U : u <= v
  BY <1>3, LeastNatural
<1>5. u + lo \in T /\ u \in Nat
  OBVIOUS
<1>6. ASSUME NEW m \in T
      PROVE  u + lo <= m
  <2>1. m \in Int /\ lo <= m
    OBVIOUS
  <2>2. m - lo \in Nat /\ (m - lo) + lo = m
    BY <2>1
  <2>3. m - lo \in U
    BY <2>2
  <2> QED
    BY <1>4, <1>5, <2>1, <2>3
<1> QED
  BY <1>5, <1>6

\* A set that contains 0 and, below N, the successor of each of its members contains
\* every number up to N.
LEMMA UpTo ==
  ASSUME NEW N \in Nat, NEW S, 0 \in S, \A n \in 0 .. N - 1 : n \in S => n + 1 \in S
  PROVE  \A n \in 0 .. N : n \in S
<1> DEFINE Bad == {n \in 0 .. N : n \notin S}
<1> SUFFICES ASSUME Bad # {} PROVE FALSE
  OBVIOUS
<1>1. PICK n \in Bad : \A m \in Bad : n <= m
  <2>1. Bad \in SUBSET Nat
    OBVIOUS
  <2> QED
    BY <2>1, LeastNatural
<1>2. n \in 0 .. N /\ n \notin S /\ n # 0
  OBVIOUS
<1>3. n - 1 \in 0 .. N - 1 /\ n - 1 \notin Bad /\ (n - 1) + 1 = n
  BY <1>1, <1>2
<1>4. n - 1 \in S
  BY <1>3
<1> QED
  BY <1>2, <1>3, <1>4
-----------------------------------------------------------------------------
\* The key of a path is an int64 below LLONG_MAX.
LEMMA ICostType == ASSUME NEW p \in Paths PROVE ICost(p) \in Keys
<1>1. LLONG_MIN \in Int /\ LLONG_MAX \in Int
  BY CostAssumption
<1>2. ICost(p) \in Int
  <2>1. ASSUME NEW n \in Int, NEW d \in Nat \ {0}
        PROVE  Truncate(n, d) \in Int
    BY DEF Truncate
  <2>2. 2 * Cost(p) + UnitsPerCent \in Int /\ 2 * UnitsPerCent \in Nat \ {0}
    BY CostAssumption, ScaleAssumption
  <2> QED
    BY <2>1, <2>2 DEF ICost
<1> QED
  BY <1>1, <1>2, CostAssumption DEF Keys

\* LeastKey is LLONG_MAX for an empty map,
LEMMA LeastKeyOfEmpty ==
  ASSUME NEW queues, DOMAIN queues = {} PROVE LeastKey(queues) = LLONG_MAX
BY DEF LeastKey

\* and the least key of any other.
LEMMA LeastKeyIsLeast ==
  ASSUME NEW queues, DOMAIN queues \subseteq Keys, DOMAIN queues # {}
  PROVE  /\ LeastKey(queues) \in DOMAIN queues
         /\ \A j \in DOMAIN queues : LeastKey(queues) <= j
<1>1. \E k \in DOMAIN queues : \A j \in DOMAIN queues : k <= j
  <2>1. LLONG_MIN \in Int /\ DOMAIN queues \in SUBSET Int
    BY CostAssumption DEF Keys
  <2>2. \A k \in DOMAIN queues : LLONG_MIN <= k
    BY CostAssumption DEF Keys
  <2> QED
    BY <2>1, <2>2, LeastInteger
<1> QED
  BY <1>1 DEF LeastKey

\* The least key is the only one with that property.
LEMMA LeastKeyUnique ==
  ASSUME NEW queues, DOMAIN queues \subseteq Keys,
         NEW m \in DOMAIN queues, \A j \in DOMAIN queues : m <= j
  PROVE  LeastKey(queues) = m
<1>1. LeastKey(queues) \in DOMAIN queues /\ LeastKey(queues) <= m
  BY LeastKeyIsLeast
<1>2. m <= LeastKey(queues) /\ m \in Int /\ LeastKey(queues) \in Int
  BY <1>1, CostAssumption DEF Keys
<1> QED
  BY <1>1, <1>2

\* The least key of a map, as an int64 that is LLONG_MAX for the empty map only.
LEMMA LeastKeyType ==
  ASSUME NEW queues, DOMAIN queues \subseteq Keys
  PROVE  /\ LeastKey(queues) \in LLONG_MIN .. LLONG_MAX
         /\ LeastKey(queues) = LLONG_MAX <=> DOMAIN queues = {}
<1>0. LLONG_MIN \in Int /\ LLONG_MAX \in Int
  BY CostAssumption
<1>1. CASE DOMAIN queues = {}
  <2>1. LLONG_MIN <= LLONG_MAX
    BY CostAssumption
  <2> QED
    BY <1>0, <1>1, <2>1, LeastKeyOfEmpty
<1>2. CASE DOMAIN queues # {}
  BY <1>0, <1>2, LeastKeyIsLeast DEF Keys
<1> QED
  BY <1>1, <1>2
-----------------------------------------------------------------------------
\* push(), field by field.
LEMMA PushedFields ==
  ASSUME NEW q, Object(q), NEW p \in Paths
  PROVE  LET k == ICost(p) IN
         /\ Pushed(q, p) =
              [queues |-> Store(q.queues, k, Append(Bucket(q.queues, k), p)),
               min    |-> IF k \notin DOMAIN q.queues /\ q.min > k THEN k ELSE q.min,
               lazy   |-> q.lazy,
               method |-> q.method]
         /\ Bucket(q.queues, k) \in Seq(Paths)
         /\ Append(Bucket(q.queues, k), p) \in Seq(Paths)
<1> DEFINE k == ICost(p)
<1>1. Bucket(q.queues, k) \in Seq(Paths)
  BY DEF Bucket, Object
<1> QED
  BY <1>1, AppendProperties DEF Pushed

\* push() keeps the object sound, adds at most the bucket of the new path, and
\* empties none.
LEMMA PushedSound ==
  ASSUME NEW q, Sound(q), NEW p \in Paths
  PROVE  /\ Sound(Pushed(q, p))
         /\ Pushed(q, p).lazy = q.lazy
         /\ Pushed(q, p).method = q.method
         /\ DOMAIN Pushed(q, p).queues = DOMAIN q.queues \cup {ICost(p)}
         /\ \A j \in DOMAIN Pushed(q, p).queues :
              Pushed(q, p).queues[j] = <<>> =>
                j \in DOMAIN q.queues /\ q.queues[j] = <<>>
<1> DEFINE k == ICost(p)
           list == Append(Bucket(q.queues, k), p)
           r == Pushed(q, p)
<1>0. Object(q) /\ q.min = LeastKey(q.queues) /\ Keyed(q)
  BY DEF Sound
<1>1. k \in Keys /\ k \in Int
  BY ICostType, CostAssumption DEF Keys
<1>2. /\ r = [queues |-> Store(q.queues, k, list),
              min    |-> IF k \notin DOMAIN q.queues /\ q.min > k THEN k ELSE q.min,
              lazy   |-> q.lazy,
              method |-> q.method]
      /\ list \in Seq(Paths)
      /\ Bucket(q.queues, k) \in Seq(Paths)
  BY <1>0, PushedFields
<1>3. /\ r.queues = Store(q.queues, k, list)
      /\ r.min = IF k \notin DOMAIN q.queues /\ q.min > k THEN k ELSE q.min
      /\ r.lazy = q.lazy
      /\ r.method = q.method
  BY <1>2
<1>4. q.queues \in [DOMAIN q.queues -> Seq(Paths)] /\ DOMAIN q.queues \subseteq Keys
  BY <1>0 DEF Object
<1>5. /\ DOMAIN r.queues = DOMAIN q.queues \cup {k}
      /\ r.queues \in [DOMAIN q.queues \cup {k} -> Seq(Paths)]
      /\ r.queues[k] = list
      /\ \A j \in DOMAIN q.queues \ {k} : r.queues[j] = q.queues[j]
  <2>1. /\ DOMAIN Store(q.queues, k, list) = DOMAIN q.queues \cup {k}
        /\ Store(q.queues, k, list) \in [DOMAIN q.queues \cup {k} -> Seq(Paths)]
        /\ Store(q.queues, k, list)[k] = list
        /\ \A j \in DOMAIN q.queues \ {k} : Store(q.queues, k, list)[j] = q.queues[j]
    <3> HIDE DEF k, list
    <3> QED
      <4>1. k \in Keys /\ list \in Seq(Paths)
        BY <1>1, <1>2
      <4> QED
        <5>D. PICK D : D = DOMAIN q.queues
          OBVIOUS
        <5>1. D \in SUBSET Keys /\ q.queues \in [D -> Seq(Paths)]
          BY ONLY <1>4, <5>D
        <5>2. /\ DOMAIN Store(q.queues, k, list) = D \cup {k}
              /\ Store(q.queues, k, list) \in [D \cup {k} -> Seq(Paths)]
              /\ Store(q.queues, k, list)[k] = list
              /\ \A j \in D \ {k} : Store(q.queues, k, list)[j] = q.queues[j]
          BY ONLY <4>1, <5>1 DEF Store
        <5> QED
          BY ONLY <5>D, <5>2
  <2> QED
    BY <1>3, <2>1
<1>6. /\ Len(list) = Len(Bucket(q.queues, k)) + 1
      /\ list # <<>>
      /\ \A i \in 1 .. Len(Bucket(q.queues, k)) : list[i] = Bucket(q.queues, k)[i]
      /\ list[Len(Bucket(q.queues, k)) + 1] = p
  BY <1>2, AppendProperties
<1>7. r.min = LeastKey(r.queues)
  <2>1. CASE DOMAIN q.queues = {}
    <3>1. q.min = LLONG_MAX /\ q.min > k
      BY <1>0, <1>1, <2>1, LeastKeyOfEmpty, CostAssumption DEF Keys
    <3>2. r.min = k
      BY <1>3, <2>1, <3>1
    <3>3. \A j \in DOMAIN r.queues : k <= j
      BY <1>1, <1>5, <2>1
    <3> QED
      BY <1>1, <1>5, <2>1, <3>2, <3>3, LeastKeyUnique
  <2>2. CASE DOMAIN q.queues # {}
    <3>1. q.min \in DOMAIN q.queues /\ \A j \in DOMAIN q.queues : q.min <= j
      BY <1>0, <1>4, <2>2, LeastKeyIsLeast
    <3>2. \A j \in DOMAIN q.queues \cup {q.min} : j \in Int
      BY <1>4, <3>1, CostAssumption DEF Keys
    <3>3. r.min \in DOMAIN r.queues
      BY <1>3, <1>5, <3>1
    <3>4. \A j \in DOMAIN r.queues : r.min <= j
      BY <1>1, <1>3, <1>5, <3>1, <3>2
    <3>5. DOMAIN r.queues \subseteq Keys
      BY <1>1, <1>4, <1>5
    <3> QED
      BY <3>3, <3>4, <3>5, LeastKeyUnique
  <2> QED
    BY <2>1, <2>2
<1>8. Object(r)
  <2>1. DOMAIN r.queues \subseteq Keys
    BY <1>1, <1>4, <1>5
  <2>2. r.min \in LLONG_MIN .. LLONG_MAX
    BY <1>7, <2>1, LeastKeyType
  <2>3. r = [queues |-> r.queues, min |-> r.min, lazy |-> r.lazy, method |-> r.method]
    BY <1>2, <1>3
  <2> QED
    BY <1>0, <1>3, <1>5, <2>1, <2>2, <2>3 DEF Object
<1>9. Keyed(r)
  <2> SUFFICES ASSUME NEW j \in DOMAIN r.queues, NEW i \in DOMAIN r.queues[j]
               PROVE  ICost(r.queues[j][i]) = j
    BY DEF Keyed
  <2>1. CASE j # k
    BY <1>0, <1>5, <2>1 DEF Keyed
  <2>2. CASE j = k
    <3>1. i \in 1 .. Len(Bucket(q.queues, k)) + 1
      BY <1>2, <1>5, <1>6, <2>2, LenProperties
    <3>2. CASE i = Len(Bucket(q.queues, k)) + 1
      BY <1>5, <1>6, <2>2, <3>2
    <3>3. CASE i # Len(Bucket(q.queues, k)) + 1
      <4>1. i \in 1 .. Len(Bucket(q.queues, k)) /\ r.queues[j][i] = Bucket(q.queues, k)[i]
        BY <1>2, <1>5, <1>6, <2>2, <3>1, <3>3, LenProperties
      <4>2. k \in DOMAIN q.queues /\ Bucket(q.queues, k) = q.queues[k]
        BY <4>1 DEF Bucket
      <4>3. i \in DOMAIN q.queues[k]
        BY <1>2, <4>1, <4>2, LenProperties
      <4> QED
        BY <1>0, <2>2, <4>1, <4>2, <4>3 DEF Keyed
    <3> QED
      BY <3>2, <3>3
  <2> QED
    BY <2>1, <2>2
<1>10. \A j \in DOMAIN r.queues :
         r.queues[j] = <<>> => j \in DOMAIN q.queues /\ q.queues[j] = <<>>
  BY <1>5, <1>6
<1> QED
  BY <1>3, <1>5, <1>7, <1>8, <1>9, <1>10 DEF Sound
-----------------------------------------------------------------------------
(***************************************************************************)
(* useLazyArray() is a loop.  The function it is modelled by exists and    *)
(* obeys its recursive equation, and the loop keeps the object sound: both *)
(* by taking a least counterexample.                                       *)
(***************************************************************************)
InsertionStep(q, f, n) ==
  f = [i \in 0 .. n |-> IF i = 0 THEN q ELSE Pushed(f[i - 1], q.lazy[i])]

\* Some function obeys the recursive equation of the loop.
LEMMA InsertionsExist ==
  ASSUME NEW q, NEW N \in Nat
  PROVE  \E f : InsertionStep(q, f, N)
<1> DEFINE Bad == {n \in Nat : ~ \E f : InsertionStep(q, f, n)}
<1> SUFFICES ASSUME Bad # {} PROVE FALSE
  OBVIOUS
<1>1. PICK n \in Bad : \A m \in Bad : n <= m
  BY LeastNatural
<1>2. n \in Nat /\ ~ \E f : InsertionStep(q, f, n)
  OBVIOUS
<1>3. n # 0
  <2>1. InsertionStep(q, [i \in 0 .. 0 |-> q], 0)
    BY DEF InsertionStep
  <2> QED
    BY <1>2, <2>1
<1>4. n - 1 \in Nat /\ n - 1 \notin Bad
  BY <1>1, <1>2, <1>3
<1>5. PICK f : InsertionStep(q, f, n - 1)
  BY <1>4
<1> DEFINE g == [i \in 0 .. n |-> IF i = n THEN Pushed(f[n - 1], q.lazy[n]) ELSE f[i]]
<1>6. \A i \in 0 .. n - 1 : g[i] = f[i]
  BY <1>2, <1>3
<1>7. \A i \in 0 .. n - 1 : f[i] = IF i = 0 THEN q ELSE Pushed(f[i - 1], q.lazy[i])
  BY <1>5 DEF InsertionStep
<1>8. \A i \in 0 .. n : g[i] = IF i = 0 THEN q ELSE Pushed(g[i - 1], q.lazy[i])
  <2> TAKE i \in 0 .. n
  <2>1. CASE i = n
    BY <1>2, <1>3, <1>6, <2>1
  <2>2. CASE i # n
    <3>1. i \in 0 .. n - 1 /\ (i # 0 => i - 1 \in 0 .. n - 1)
      BY <1>2, <2>2
    <3>2. g[i] = f[i] /\ (i # 0 => g[i - 1] = f[i - 1])
      BY <1>6, <3>1
    <3> HIDE DEF g
    <3> QED
      BY <1>7, <3>1, <3>2
  <2> QED
    BY <2>1, <2>2
<1>9. g = [i \in 0 .. n |-> IF i = 0 THEN q ELSE Pushed(g[i - 1], q.lazy[i])]
  <2>1. g = [i \in 0 .. n |-> g[i]]
    OBVIOUS
  <2> HIDE DEF g
  <2> QED
    BY <1>8, <2>1
<1> QED
  BY <1>2, <1>9 DEF InsertionStep

\* The states of the loop: the object itself, then one push after another.
LEMMA InsertionsDef ==
  ASSUME NEW q, q.lazy \in Seq(Paths)
  PROVE  /\ Insertions(q)[0] = q
         /\ \A n \in 1 .. Len(q.lazy) :
              Insertions(q)[n] = Pushed(Insertions(q)[n - 1], q.lazy[n])
<1>1. Len(q.lazy) \in Nat
  BY LenProperties
<1>2. InsertionStep(q, Insertions(q), Len(q.lazy))
  <2>1. Insertions(q) = CHOOSE f : InsertionStep(q, f, Len(q.lazy))
    BY DEF Insertions, InsertionStep
  <2> QED
    BY <1>1, <2>1, InsertionsExist
<1>3. \A n \in 0 .. Len(q.lazy) :
        Insertions(q)[n] =
          IF n = 0 THEN q ELSE Pushed(Insertions(q)[n - 1], q.lazy[n])
  BY <1>2 DEF InsertionStep
<1> QED
  BY <1>1, <1>3

\* Each state of the loop is sound, keeps the buckets there were, and has no
\* empty bucket but those that were empty before it.
Progress(q, r) ==
  /\ Sound(r)
  /\ r.lazy = q.lazy
  /\ r.method = q.method
  /\ DOMAIN q.queues \subseteq DOMAIN r.queues
  /\ \A j \in DOMAIN r.queues :
       r.queues[j] = <<>> => j \in DOMAIN q.queues /\ q.queues[j] = <<>>

LEMMA InsertionsProgress ==
  ASSUME NEW q, Sound(q), NEW N \in 0 .. Len(q.lazy)
  PROVE  /\ Progress(q, Insertions(q)[N])
         /\ N > 0 => DOMAIN Insertions(q)[N].queues # {}
<1>0. q.lazy \in Seq(Paths) /\ Len(q.lazy) \in Nat
  BY LenProperties DEF Sound, Object
<1> DEFINE Good(n) == /\ Progress(q, Insertions(q)[n])
                      /\ n > 0 => DOMAIN Insertions(q)[n].queues # {}
           Bad == {n \in Nat : n <= Len(q.lazy) /\ ~ Good(n)}
<1> SUFFICES ASSUME Bad # {} PROVE FALSE
  BY <1>0
<1>1. PICK n \in Bad : \A m \in Bad : n <= m
  BY LeastNatural
<1>2. n \in Nat /\ n <= Len(q.lazy) /\ ~ Good(n)
  OBVIOUS
<1>3. n # 0
  <2>1. Insertions(q)[0] = q
    BY <1>0, InsertionsDef
  <2>2. Good(0)
    BY <2>1 DEF Progress
  <2> QED
    BY <1>2, <2>2
<1>4. n - 1 \in Nat /\ n - 1 <= Len(q.lazy) /\ n \in 1 .. Len(q.lazy)
  BY <1>0, <1>2, <1>3
<1>5. Good(n - 1)
  <2>1. n - 1 \notin Bad
    BY <1>1, <1>2, <1>4
  <2> QED
    BY <1>4, <2>1
<1> DEFINE before == Insertions(q)[n - 1]
           p == q.lazy[n]
<1>6. Insertions(q)[n] = Pushed(before, p)
  BY <1>0, <1>4, InsertionsDef
<1>7. p \in Paths
  BY <1>0, <1>4, ElementOfSeq
<1>8. /\ Sound(before)
      /\ before.lazy = q.lazy
      /\ before.method = q.method
      /\ DOMAIN q.queues \subseteq DOMAIN before.queues
      /\ \A j \in DOMAIN before.queues :
           before.queues[j] = <<>> => j \in DOMAIN q.queues /\ q.queues[j] = <<>>
  BY <1>5 DEF Progress
<1>9. /\ Sound(Pushed(before, p))
      /\ Pushed(before, p).lazy = before.lazy
      /\ Pushed(before, p).method = before.method
      /\ DOMAIN Pushed(before, p).queues = DOMAIN before.queues \cup {ICost(p)}
      /\ \A j \in DOMAIN Pushed(before, p).queues :
           Pushed(before, p).queues[j] = <<>> =>
             j \in DOMAIN before.queues /\ before.queues[j] = <<>>
  <2> HIDE DEF before, p
  <2> QED
    BY <1>7, <1>8, PushedSound
<1>10. Progress(q, Pushed(before, p)) /\ DOMAIN Pushed(before, p).queues # {}
  <2> HIDE DEF before, p
  <2> QED
    BY <1>8, <1>9 DEF Progress
<1> QED
  BY <1>2, <1>6, <1>10

\* useLazyArray() keeps the object sound, empties the lazy list, removes no
\* bucket, leaves no new bucket empty, and makes a waiting path ready.
LEMMA ReinsertedSound ==
  ASSUME NEW q, Sound(q)
  PROVE  /\ Sound(Reinserted(q))
         /\ Reinserted(q).lazy = <<>>
         /\ Reinserted(q).method = q.method
         /\ DOMAIN q.queues \subseteq DOMAIN Reinserted(q).queues
         /\ q.lazy # <<>> => DOMAIN Reinserted(q).queues # {}
         /\ \A j \in DOMAIN Reinserted(q).queues :
              Reinserted(q).queues[j] = <<>> =>
                j \in DOMAIN q.queues /\ q.queues[j] = <<>>
<1> DEFINE r == Insertions(q)[Len(q.lazy)]
<1>1. q.lazy \in Seq(Paths) /\ Len(q.lazy) \in Nat
  BY LenProperties DEF Sound, Object
<1>2. Progress(q, r) /\ (Len(q.lazy) > 0 => DOMAIN r.queues # {})
  <2>1. Len(q.lazy) \in 0 .. Len(q.lazy)
    BY <1>1
  <2> QED
    BY <2>1, InsertionsProgress
<1>3. q.lazy # <<>> => Len(q.lazy) > 0
  BY <1>1, EmptySeq
<1>4. Reinserted(q) =
        [queues |-> r.queues, min |-> r.min, lazy |-> <<>>, method |-> r.method]
  BY DEF Reinserted
<1> HIDE DEF r
<1>5. /\ Reinserted(q).queues = r.queues
      /\ Reinserted(q).min = r.min
      /\ Reinserted(q).lazy = <<>>
      /\ Reinserted(q).method = r.method
  BY <1>4
<1>6. Object(r) /\ r.min = LeastKey(r.queues) /\ Keyed(r)
  BY <1>2 DEF Progress, Sound
<1>7. Sound(Reinserted(q))
  <2>1. Reinserted(q) = [queues |-> Reinserted(q).queues, min |-> Reinserted(q).min,
                         lazy |-> Reinserted(q).lazy, method |-> Reinserted(q).method]
    BY <1>4, <1>5
  <2>2. <<>> \in Seq(Paths)
    BY EmptySeq
  <2>3. Object(Reinserted(q))
    BY <1>5, <1>6, <2>1, <2>2 DEF Object
  <2> QED
    BY <1>5, <1>6, <2>3 DEF Sound, Keyed
<1> QED
  BY <1>2, <1>3, <1>5, <1>7 DEF Progress
-----------------------------------------------------------------------------
(***************************************************************************)
(* The member functions, between two calls of which no bucket is empty.    *)
(***************************************************************************)
Settled(q) == Sound(q) /\ NoEmptyBucket(q)

\* An object in terms of its fields, for a changed list of lazy paths, minimum
\* or map.
LEMMA FieldChanges ==
  ASSUME NEW q, Object(q), NEW x
  PROVE  /\ [q EXCEPT !.queues = x] =
              [queues |-> x, min |-> q.min, lazy |-> q.lazy, method |-> q.method]
         /\ [q EXCEPT !.min = x] =
              [queues |-> q.queues, min |-> x, lazy |-> q.lazy, method |-> q.method]
         /\ [q EXCEPT !.lazy = x] =
              [queues |-> q.queues, min |-> q.min, lazy |-> x, method |-> q.method]
<1>1. PICK a, b, c, d : q = [queues |-> a, min |-> b, lazy |-> c, method |-> d]
  BY DEF Object
<1>2. q.queues = a /\ q.min = b /\ q.lazy = c /\ q.method = d
  BY <1>1
<1>3. [q EXCEPT !.queues = x] = [queues |-> x, min |-> b, lazy |-> c, method |-> d]
  BY ONLY <1>1
<1>4. [q EXCEPT !.min = x] = [queues |-> a, min |-> x, lazy |-> c, method |-> d]
  BY ONLY <1>1
<1>5. [q EXCEPT !.lazy = x] = [queues |-> a, min |-> b, lazy |-> x, method |-> d]
  BY ONLY <1>1
<1> QED
  BY <1>2, <1>3, <1>4, <1>5

LEMMA PushedSettled ==
  ASSUME NEW q, Settled(q), NEW p \in Paths
  PROVE  Settled(Pushed(q, p))
BY PushedSound DEF Settled, NoEmptyBucket

LEMMA PushedLazySettled ==
  ASSUME NEW q, Settled(q), NEW p \in Paths
  PROVE  Settled(PushedLazy(q, p))
<1> DEFINE lazy == Append(q.lazy, p)
           r == PushedLazy(q, p)
<1>1. Object(q) /\ q.min = LeastKey(q.queues) /\ Keyed(q) /\ NoEmptyBucket(q)
  BY DEF Settled, Sound
<1>2. lazy \in Seq(Paths)
  BY <1>1, AppendProperties DEF Object
<1>3. r = [queues |-> q.queues, min |-> q.min, lazy |-> lazy, method |-> q.method]
  BY <1>1, FieldChanges DEF PushedLazy
<1> HIDE DEF r, lazy
<1>4. r.queues = q.queues /\ r.min = q.min /\ r.lazy = lazy /\ r.method = q.method
  BY <1>3
<1>5. r = [queues |-> r.queues, min |-> r.min, lazy |-> r.lazy, method |-> r.method]
  BY <1>3, <1>4
<1>6. Object(r)
  BY <1>1, <1>2, <1>4, <1>5 DEF Object
<1>7. Settled(r)
  BY <1>1, <1>4, <1>6 DEF Settled, Sound, Keyed, NoEmptyBucket
<1> QED
  BY <1>7 DEF r

\* After empty() the map has a bucket unless the object holds nothing.
LEMMA RefilledSettled ==
  ASSUME NEW q, Settled(q)
  PROVE  /\ Settled(Refilled(q))
         /\ Refilled(q).method = q.method
         /\ ~ IsEmpty(q) => DOMAIN Refilled(q).queues # {}
<1>1. CASE DOMAIN q.queues = {} /\ q.lazy # <<>>
  <2> DEFINE e == [q EXCEPT !.min = LLONG_MAX]
  <2>1. Object(q) /\ q.min = LLONG_MAX
    BY <1>1, LeastKeyOfEmpty DEF Settled, Sound
  <2>2. e = q
    <3>1. e = [queues |-> q.queues, min |-> q.min, lazy |-> q.lazy, method |-> q.method]
      BY <2>1, FieldChanges
    <3>2. q = [queues |-> q.queues, min |-> q.min, lazy |-> q.lazy, method |-> q.method]
      BY <2>1 DEF Object
    <3> QED
      BY ONLY <3>1, <3>2
  <2>3. Refilled(q) = Reinserted(q)
    BY <1>1, <2>2 DEF Refilled
  <2>4. Sound(q)
    BY DEF Settled
  <2> QED
    BY <1>1, <2>3, <2>4, ReinsertedSound DEF Settled, NoEmptyBucket
<1>2. CASE ~ (DOMAIN q.queues = {} /\ q.lazy # <<>>)
  BY <1>2 DEF Refilled, IsEmpty
<1> QED
  BY <1>1, <1>2

\* What pop_queue() takes out of a bucket and what it leaves.
LEMMA TakenFromList ==
  ASSUME NEW method \in Methods, NEW list \in Seq(Paths), list # <<>>
  PROVE  /\ Chosen(method, list) \in Paths
         /\ Rest(method, list) \in Seq(Paths)
         /\ \A i \in DOMAIN Rest(method, list) :
              \E j \in DOMAIN list : Rest(method, list)[i] = list[j]
<1>0. Len(list) \in Nat \ {0} /\ DOMAIN list = 1 .. Len(list)
  BY EmptySeq, LenProperties
<1>1. CASE method = "DepthFirst"
  <2> DEFINE n == Len(list) - 1
             rest == SubSeq(list, 1, n)
  <2>1. Rest(method, list) = rest /\ Chosen(method, list) = list[Len(list)]
    BY <1>1 DEF Rest, Chosen
  <2>2. \A i \in 1 .. n : list[i] \in Paths
    BY <1>0, ElementOfSeq
  <2>3. /\ rest \in Seq(Paths)
        /\ Len(rest) = (IF 1 <= n THEN n - 1 + 1 ELSE 0)
        /\ \A i \in 1 .. n - 1 + 1 : rest[i] = list[1 + i - 1]
    <3>1. n \in Int
      BY <1>0
    <3> HIDE DEF n
    <3> QED
      BY <2>2, <3>1, SubSeqProperties
  <2>4. DOMAIN rest = 1 .. n
    <3>1. Len(rest) = n
      BY <1>0, <2>3
    <3> QED
      BY <2>3, <3>1, LenProperties
  <2>5. ASSUME NEW i \in DOMAIN rest
        PROVE  i \in DOMAIN list /\ rest[i] = list[i]
    BY <1>0, <2>3, <2>4
  <2>6. list[Len(list)] \in Paths
    BY <1>0, ElementOfSeq
  <2> HIDE DEF rest
  <2> QED
    BY <2>1, <2>3, <2>5, <2>6
<1>2. CASE method # "DepthFirst"
  <2>1. Rest(method, list) = Tail(list) /\ Chosen(method, list) = Head(list)
    BY <1>2 DEF Rest, Chosen
  <2>2. /\ Head(list) \in Paths
        /\ Tail(list) \in Seq(Paths)
        /\ Len(Tail(list)) = Len(list) - 1
        /\ \A i \in 1 .. Len(Tail(list)) : Tail(list)[i] = list[i + 1]
    BY HeadTailProperties
  <2>3. DOMAIN Tail(list) = 1 .. Len(list) - 1
    BY <2>2, LenProperties
  <2>4. ASSUME NEW i \in DOMAIN Tail(list)
        PROVE  i + 1 \in DOMAIN list /\ Tail(list)[i] = list[i + 1]
    BY <1>0, <2>2, <2>3
  <2> QED
    BY <2>1, <2>2, <2>4
<1> QED
  BY <1>1, <1>2

\* Draining a bucket leaves no empty bucket and a right minimum, whatever the
\* reinserted paths were: of lower cost, of the same, or none.
LEMMA DrainedSettled ==
  ASSUME NEW q, Sound(q), NEW m \in DOMAIN q.queues, m = q.min,
         \A j \in DOMAIN q.queues : q.queues[j] = <<>> => j = m
  PROVE  Settled(Drained(q, m))
<1> DEFINE r == Reinserted(q)
           left == Erase(r.queues, m)
           d == Drained(q, m)
<1>1. /\ Sound(r)
      /\ m \in DOMAIN r.queues
      /\ \A j \in DOMAIN r.queues : r.queues[j] = <<>> => j = m
  BY ReinsertedSound
<1>2. d = IF r.queues[m] # <<>> THEN r
          ELSE [queues |-> left,
                min    |-> IF r.min = m THEN LeastKey(left) ELSE r.min,
                lazy   |-> r.lazy,
                method |-> r.method]
  BY DEF Drained
<1> HIDE DEF r, d
<1>3. CASE r.queues[m] # <<>>
  BY <1>1, <1>2, <1>3 DEF Settled, NoEmptyBucket, d
<1>4. CASE r.queues[m] = <<>>
  <2>1. Object(r) /\ r.min = LeastKey(r.queues) /\ Keyed(r)
    BY <1>1 DEF Sound
  <2>2. r.queues \in [DOMAIN r.queues -> Seq(Paths)] /\ DOMAIN r.queues \subseteq Keys
    BY <2>1 DEF Object
  <2>3. /\ d.queues = left
        /\ d.min = IF r.min = m THEN LeastKey(left) ELSE r.min
        /\ d.lazy = r.lazy
        /\ d.method = r.method
    BY <1>2, <1>4
  <2>4. /\ DOMAIN left = DOMAIN r.queues \ {m}
        /\ left \in [DOMAIN left -> Seq(Paths)]
        /\ \A j \in DOMAIN left : left[j] = r.queues[j]
        /\ DOMAIN left \subseteq Keys
    BY <2>2 DEF Erase
  <2> HIDE DEF left
  <2>5. d.min = LeastKey(left)
    <3>1. CASE r.min = m
      BY <2>3, <3>1
    <3>2. CASE r.min # m
      <4>1. r.min \in DOMAIN r.queues /\ \A j \in DOMAIN r.queues : r.min <= j
        BY <1>1, <2>1, <2>2, LeastKeyIsLeast
      <4>2. r.min \in DOMAIN left /\ \A j \in DOMAIN left : r.min <= j
        BY <2>4, <3>2, <4>1
      <4>3. LeastKey(left) = r.min
        BY <2>4, <4>2, LeastKeyUnique
      <4> QED
        BY <2>3, <3>2, <4>3
    <3> QED
      BY <3>1, <3>2
  <2>6. d = [queues |-> d.queues, min |-> d.min, lazy |-> d.lazy, method |-> d.method]
    BY <1>2, <1>4, <2>3
  <2>7. d.min \in LLONG_MIN .. LLONG_MAX
    BY <2>4, <2>5, LeastKeyType
  <2>8. Object(d)
    BY <2>1, <2>3, <2>4, <2>6, <2>7 DEF Object
  <2>9. Keyed(d)
    BY <2>1, <2>3, <2>4 DEF Keyed
  <2>10. NoEmptyBucket(d)
    BY <1>1, <2>3, <2>4 DEF NoEmptyBucket
  <2> QED
    BY <2>3, <2>5, <2>8, <2>9, <2>10 DEF Settled, Sound, d
<1> QED
  BY <1>3, <1>4

\* pop() finds the bucket of _min, so it does not throw, and leaves the object
\* as it must be between two calls.
LEMMA PoppedSettled ==
  ASSUME NEW q0, Settled(q0)
  PROVE  Settled(Popped(q0).pq) /\ Popped(q0).value \in Paths \cup {NoPath}
<1>1. CASE IsEmpty(q0)
  BY <1>1 DEF Popped
<1>2. CASE ~ IsEmpty(q0)
  <2> DEFINE q == Refilled(q0)
             m == q.min
             list == Bucket(q.queues, m)
             rest == Rest(q.method, list)
             left == [q EXCEPT !.queues = Store(@, m, rest)]
  <2>1. Settled(q) /\ DOMAIN q.queues # {}
    BY <1>2, RefilledSettled
  <2>2. Popped(q0) =
          IF list = <<>>
          THEN [pq |-> [q EXCEPT !.queues = Store(@, m, <<>>)], value |-> Thrown]
          ELSE [pq    |-> IF rest = <<>> THEN Drained(left, m) ELSE left,
                value |-> Chosen(q.method, list)]
    BY <1>2 DEF Popped
  <2> HIDE DEF q
  <2>3. Object(q) /\ m = LeastKey(q.queues) /\ Keyed(q) /\ NoEmptyBucket(q)
    BY <2>1 DEF Settled, Sound
  <2>4. /\ q.queues \in [DOMAIN q.queues -> Seq(Paths)]
        /\ DOMAIN q.queues \subseteq Keys
        /\ q.method \in Methods
    BY <2>3 DEF Object
  <2>5. m \in DOMAIN q.queues
    BY <2>1, <2>3, <2>4, LeastKeyIsLeast
  <2>6. list = q.queues[m] /\ list \in Seq(Paths) /\ list # <<>>
    BY <2>3, <2>4, <2>5 DEF Bucket, NoEmptyBucket
  <2> HIDE DEF list
  <2>7. /\ Chosen(q.method, list) \in Paths
        /\ rest \in Seq(Paths)
        /\ \A i \in DOMAIN rest : \E j \in DOMAIN list : rest[i] = list[j]
    BY <2>4, <2>6, TakenFromList
  <2> HIDE DEF rest
  <2>8. left = [queues |-> Store(q.queues, m, rest), min |-> m,
                lazy |-> q.lazy, method |-> q.method]
    BY <2>3, FieldChanges
  <2>9. /\ left.queues = Store(q.queues, m, rest)
        /\ left.min = m
        /\ left.lazy = q.lazy
        /\ left.method = q.method
    BY <2>8
  <2>10. /\ DOMAIN left.queues = DOMAIN q.queues
         /\ left.queues \in [DOMAIN q.queues -> Seq(Paths)]
         /\ left.queues[m] = rest
         /\ \A j \in DOMAIN q.queues \ {m} : left.queues[j] = q.queues[j]
    <3>1. DOMAIN q.queues \cup {m} = DOMAIN q.queues
      BY <2>5
    <3>2. /\ DOMAIN Store(q.queues, m, rest) = DOMAIN q.queues \cup {m}
          /\ Store(q.queues, m, rest) \in [DOMAIN q.queues \cup {m} -> Seq(Paths)]
          /\ Store(q.queues, m, rest)[m] = rest
          /\ \A j \in DOMAIN q.queues \ {m} : Store(q.queues, m, rest)[j] = q.queues[j]
      <4>1. m \in Keys
        BY <2>4, <2>5
      <4> HIDE DEF m
      <4> QED
        <5>1. /\ q.queues \in [DOMAIN q.queues -> Seq(Paths)] /\ DOMAIN q.queues \subseteq Keys
              /\ rest \in Seq(Paths)
          BY <2>4, <2>7
        <5> QED
          <6>D. PICK D : D = DOMAIN q.queues
            OBVIOUS
          <6>1. D \in SUBSET Keys /\ q.queues \in [D -> Seq(Paths)] /\ rest \in Seq(Paths)
            BY ONLY <5>1, <6>D
          <6>2. /\ DOMAIN Store(q.queues, m, rest) = D \cup {m}
                /\ Store(q.queues, m, rest) \in [D \cup {m} -> Seq(Paths)]
                /\ Store(q.queues, m, rest)[m] = rest
                /\ \A j \in D \ {m} : Store(q.queues, m, rest)[j] = q.queues[j]
            BY ONLY <4>1, <6>1 DEF Store
          <6> QED
            BY ONLY <6>D, <6>2
    <3> QED
      BY <2>9, <3>1, <3>2
  <2> HIDE DEF left
  <2>11. Sound(left)
    <3>1. left = [queues |-> left.queues, min |-> left.min,
                  lazy |-> left.lazy, method |-> left.method]
      BY <2>8, <2>9
    <3>2. Object(left)
      BY <2>3, <2>4, <2>9, <2>10, <3>1 DEF Object
    <3>3. left.min = LeastKey(left.queues)
      BY <2>3, <2>9, <2>10 DEF LeastKey
    <3>4. Keyed(left)
      <4> SUFFICES ASSUME NEW k \in DOMAIN left.queues, NEW i \in DOMAIN left.queues[k]
                   PROVE  ICost(left.queues[k][i]) = k
        BY DEF Keyed
      <4>1. CASE k # m
        BY <2>3, <2>10, <4>1 DEF Keyed
      <4>2. CASE k = m
        BY <2>3, <2>5, <2>6, <2>7, <2>10, <4>2 DEF Keyed
      <4> QED
        BY <4>1, <4>2
    <3> QED
      BY <3>2, <3>3, <3>4 DEF Sound
  <2>12. \A j \in DOMAIN left.queues : left.queues[j] = <<>> => j = m
    BY <2>3, <2>10 DEF NoEmptyBucket
  <2>13. CASE rest # <<>>
    <3>1. Settled(left)
      BY <2>10, <2>11, <2>12, <2>13 DEF Settled, NoEmptyBucket
    <3> QED
      BY <2>2, <2>6, <2>7, <2>13, <3>1
  <2>14. CASE rest = <<>>
    <3>1. Settled(Drained(left, m))
      BY <2>5, <2>9, <2>10, <2>11, <2>12, DrainedSettled
    <3> QED
      BY <2>2, <2>6, <2>7, <2>14, <3>1
  <2> QED
    BY <2>13, <2>14
<1> QED
  BY <1>1, <1>2
-----------------------------------------------------------------------------
(***************************************************************************)
(* What the object holds: no member function loses a path or makes one up. *)
(***************************************************************************)
\* The paths of an appended list.
LEMMA AppendedElements ==
  ASSUME NEW list \in Seq(Paths), NEW p \in Paths
  PROVE  Elements(Append(list, p)) = Elements(list) \cup {p}
<1> DEFINE longer == Append(list, p)
<1>1. /\ longer \in Seq(Paths) /\ Len(longer) = Len(list) + 1
      /\ \A i \in 1 .. Len(list) : longer[i] = list[i]
      /\ longer[Len(list) + 1] = p
  BY AppendProperties
<1>2. Len(list) \in Nat /\ DOMAIN list = 1 .. Len(list) /\ DOMAIN longer = 1 .. Len(list) + 1
  BY <1>1, LenProperties
<1> HIDE DEF longer
<1>3. DOMAIN longer = DOMAIN list \cup {Len(list) + 1}
  BY <1>2
<1> QED
  BY <1>1, <1>2, <1>3 DEF Elements, longer

\* push() makes the path ready, and no other.
LEMMA PushedReady ==
  ASSUME NEW q, Object(q), NEW p \in Paths
  PROVE  Ready(Pushed(q, p)) = Ready(q) \cup {p}
<1> PICK k : k = ICost(p)
  OBVIOUS
<1> PICK list : list = Bucket(q.queues, k)
  OBVIOUS
<1> PICK longer : longer = Append(list, p)
  OBVIOUS
<1>1. q.queues \in [DOMAIN q.queues -> Seq(Paths)] /\ DOMAIN q.queues \subseteq Keys
  BY DEF Object
<1>2. k \in Keys /\ list \in Seq(Paths) /\ longer \in Seq(Paths)
  BY ICostType, PushedFields
<1>3. Pushed(q, p).queues = Store(q.queues, k, longer)
  BY DEF Pushed
<1> PICK new : new = Pushed(q, p).queues
  OBVIOUS
<1>4. /\ DOMAIN new = DOMAIN q.queues \cup {k}
      /\ new[k] = longer
      /\ \A j \in DOMAIN q.queues \ {k} : new[j] = q.queues[j]
  <2> PICK map : map = q.queues
    OBVIOUS
  <2>1. /\ DOMAIN Store(map, k, longer) = DOMAIN map \cup {k}
        /\ Store(map, k, longer)[k] = longer
        /\ \A j \in DOMAIN map \ {k} : Store(map, k, longer)[j] = map[j]
    BY DEF Store
  <2> QED
    BY <1>3, <2>1
<1>5. Elements(longer) = Elements(list) \cup {p}
  BY <1>2, AppendedElements
<1>6. IF k \in DOMAIN q.queues THEN list = q.queues[k] ELSE Elements(list) = {}
  BY DEF Bucket, Elements
<1> PICK E : \A x : x \in E <=> \E j \in DOMAIN q.queues : x \in Elements(q.queues[j])
  <2>1. \A x : x \in Ready(q) <=> \E j \in DOMAIN q.queues : x \in Elements(q.queues[j])
    BY DEF Ready
  <2> QED
    BY <2>1
<1>7. \A x : (\E j \in DOMAIN new : x \in Elements(new[j])) <=> x \in E \cup {p}
  BY <1>4, <1>5, <1>6
<1>8. \A x : x \in Ready(Pushed(q, p)) <=> \E j \in DOMAIN new : x \in Elements(new[j])
  BY DEF Ready
<1>9. \A x : x \in Ready(q) <=> x \in E
  BY DEF Ready
<1> QED
  BY <1>7, <1>8, <1>9

\* After n pushes the first n lazy paths are ready.
LEMMA InsertionsReady ==
  ASSUME NEW q, Sound(q)
  PROVE  \A N \in 0 .. Len(q.lazy) :
           Ready(Insertions(q)[N]) = Ready(q) \cup {q.lazy[i] : i \in 1 .. N}
<1>0. q.lazy \in Seq(Paths) /\ Len(q.lazy) \in Nat
  BY LenProperties DEF Sound, Object
<1> DEFINE first(n) == {q.lazy[i] : i \in 1 .. n}
           S == {n \in Nat : Ready(Insertions(q)[n]) = Ready(q) \cup first(n)}
<1>1. 0 \in S
  BY <1>0, InsertionsDef
<1>2. ASSUME NEW n \in 0 .. Len(q.lazy) - 1, n \in S PROVE n + 1 \in S
  <2>1. n \in 0 .. Len(q.lazy) /\ n + 1 \in 1 .. Len(q.lazy) /\ n + 1 \in Nat /\ (n + 1) - 1 = n
    BY <1>0
  <2>2. Insertions(q)[n + 1] = Pushed(Insertions(q)[n], q.lazy[n + 1])
    BY <1>0, <2>1, InsertionsDef
  <2>3. Object(Insertions(q)[n])
    BY <2>1, InsertionsProgress DEF Progress, Sound
  <2>4. q.lazy[n + 1] \in Paths
    BY <1>0, <2>1, ElementOfSeq
  <2>5. Ready(Insertions(q)[n + 1]) = Ready(Insertions(q)[n]) \cup {q.lazy[n + 1]}
    BY <2>2, <2>3, <2>4, PushedReady
  <2>6. Ready(Insertions(q)[n]) = Ready(q) \cup first(n)
    BY <1>2
  <2>7. first(n + 1) = first(n) \cup {q.lazy[n + 1]}
    <3>1. 1 .. n + 1 = 1 .. n \cup {n + 1}
      BY <2>1
    <3> QED
      BY <3>1
  <2> HIDE DEF first
  <2> QED
    BY <2>1, <2>5, <2>6, <2>7
<1> HIDE DEF S
<1>3. \A n \in 0 .. Len(q.lazy) : n \in S
  BY <1>0, <1>1, <1>2, UpTo
<1> QED
  BY <1>3 DEF S

\* useLazyArray() makes what waits ready.
LEMMA ReinsertedHeld ==
  ASSUME NEW q, Sound(q)
  PROVE  Ready(Reinserted(q)) = Held(q) /\ Held(Reinserted(q)) = Held(q)
<1>0. q.lazy \in Seq(Paths) /\ Len(q.lazy) \in Nat /\ DOMAIN q.lazy = 1 .. Len(q.lazy)
  BY LenProperties DEF Sound, Object
<1>1. Reinserted(q).queues = Insertions(q)[Len(q.lazy)].queues /\ Reinserted(q).lazy = <<>>
  BY DEF Reinserted
<1>2. Ready(Reinserted(q)) = Ready(Insertions(q)[Len(q.lazy)])
  BY <1>1 DEF Ready
<1>3. Ready(Reinserted(q)) = Ready(q) \cup {q.lazy[i] : i \in 1 .. Len(q.lazy)}
  BY <1>0, <1>2, InsertionsReady
<1>4. Ready(Reinserted(q)) = Ready(q) \cup Waiting(q)
  BY <1>0, <1>3 DEF Waiting, Elements
<1>5. Waiting(Reinserted(q)) = {}
  BY <1>1 DEF Waiting, Elements
<1> QED
  BY <1>4, <1>5 DEF Held

\* empty() holds the same paths afterwards.
LEMMA RefilledHeld ==
  ASSUME NEW q, Settled(q)
  PROVE  Held(Refilled(q)) = Held(q)
<1>1. CASE DOMAIN q.queues = {} /\ q.lazy # <<>>
  <2> PICK e : e = [q EXCEPT !.min = LLONG_MAX]
    OBVIOUS
  <2>1. Object(q) /\ q.min = LLONG_MAX
    BY <1>1, LeastKeyOfEmpty DEF Settled, Sound
  <2>2. e = [queues |-> q.queues, min |-> q.min, lazy |-> q.lazy, method |-> q.method]
    BY <2>1, FieldChanges
  <2>3. e = q
    BY <2>1, <2>2 DEF Object
  <2> QED
    BY <1>1, <2>3, ReinsertedHeld DEF Refilled, Settled
<1>2. CASE ~ (DOMAIN q.queues = {} /\ q.lazy # <<>>)
  BY <1>2 DEF Refilled
<1> QED
  BY <1>1, <1>2

\* The path chosen and the rest are the paths of the list.
LEMMA TakenElements ==
  ASSUME NEW method \in Methods, NEW list \in Seq(Paths), list # <<>>
  PROVE  Elements(list) = Elements(Rest(method, list)) \cup {Chosen(method, list)}
<1>0. Len(list) \in Nat \ {0} /\ DOMAIN list = 1 .. Len(list)
  BY EmptySeq, LenProperties
<1>1. CASE method = "DepthFirst"
  <2> PICK n : n = Len(list) - 1
    OBVIOUS
  <2> PICK rest : rest = SubSeq(list, 1, n)
    OBVIOUS
  <2>1. Rest(method, list) = rest /\ Chosen(method, list) = list[Len(list)]
    BY <1>1 DEF Rest, Chosen
  <2>2. n \in Nat /\ (\A i \in 1 .. n : list[i] \in Paths) /\ DOMAIN list = 1 .. n \cup {Len(list)}
    BY <1>0, ElementOfSeq
  <2>3. /\ rest \in Seq(Paths)
        /\ Len(rest) = (IF 1 <= n THEN n - 1 + 1 ELSE 0)
        /\ \A i \in 1 .. n - 1 + 1 : rest[i] = list[1 + i - 1]
    BY <2>2, SubSeqProperties
  <2>4. DOMAIN rest = 1 .. n /\ \A i \in 1 .. n : rest[i] = list[i]
    <3>1. Len(rest) = n
      BY <2>2, <2>3
    <3> QED
      BY <2>2, <2>3, <3>1, LenProperties
  <2> QED
    BY <2>1, <2>2, <2>4 DEF Elements
<1>2. CASE method # "DepthFirst"
  <2> PICK rest : rest = Tail(list)
    OBVIOUS
  <2>1. Rest(method, list) = rest /\ Chosen(method, list) = list[1]
    BY <1>0, <1>2 DEF Rest, Chosen
  <2>2. /\ rest \in Seq(Paths)
        /\ Len(rest) = Len(list) - 1
        /\ \A i \in 1 .. Len(rest) : rest[i] = list[i + 1]
    BY HeadTailProperties
  <2>3. DOMAIN rest = 1 .. Len(list) - 1 /\ \A i \in DOMAIN rest : rest[i] = list[i + 1]
    BY <2>2, LenProperties
  <2>4. ASSUME NEW i \in DOMAIN list PROVE list[i] \in Elements(rest) \cup {list[1]}
    <3>1. i # 1 => i - 1 \in DOMAIN rest /\ (i - 1) + 1 = i
      BY <1>0, <2>3
    <3> QED
      BY <2>3, <3>1 DEF Elements
  <2>5. ASSUME NEW i \in DOMAIN rest PROVE rest[i] \in Elements(list)
    <3>1. i + 1 \in DOMAIN list
      BY <1>0, <2>3
    <3> QED
      BY <2>3, <3>1 DEF Elements
  <2>6. list[1] \in Elements(list)
    BY <1>0 DEF Elements
  <2> QED
    BY <2>1, <2>4, <2>5, <2>6 DEF Elements
<1> QED
  BY <1>1, <1>2

\* Draining a bucket loses nothing: the one erased is empty.
LEMMA DrainedHeld ==
  ASSUME NEW q, Sound(q), NEW m \in DOMAIN q.queues
  PROVE  Held(Drained(q, m)) = Held(q)
<1> PICK r : r = Reinserted(q)
  OBVIOUS
<1> PICK left : left = Erase(r.queues, m)
  OBVIOUS
<1>1. Held(r) = Held(q)
  BY ReinsertedHeld
<1>2. CASE r.queues[m] # <<>>
  BY <1>1, <1>2 DEF Drained
<1>3. CASE r.queues[m] = <<>>
  <2>1. Drained(q, m).queues = left /\ Drained(q, m).lazy = r.lazy
    BY <1>3 DEF Drained
  <2>2. DOMAIN left = DOMAIN r.queues \ {m} /\ \A j \in DOMAIN left : left[j] = r.queues[j]
    BY DEF Erase
  <2>3. Elements(r.queues[m]) = {}
    BY <1>3 DEF Elements
  <2>4. UNION {Elements(left[j]) : j \in DOMAIN left}
          = UNION {Elements(r.queues[j]) : j \in DOMAIN r.queues}
    BY <2>2, <2>3
  <2> QED
    BY <1>1, <2>1, <2>4 DEF Held, Ready, Waiting
<1> QED
  BY <1>2, <1>3

\* What pop() takes from the object q before it drains the bucket: one path of the
\* least key.
TakesOne(q, left) ==
  /\ Sound(left)
  /\ left.min = q.min /\ left.lazy = q.lazy /\ left.method = q.method
  /\ q.min \in DOMAIN q.queues /\ \A j \in DOMAIN q.queues : q.min <= j
  /\ q.queues[q.min] \in Seq(Paths) /\ q.queues[q.min] # <<>>
  /\ DOMAIN left.queues = DOMAIN q.queues
  /\ left.queues[q.min] = Rest(q.method, q.queues[q.min])
  /\ \A j \in DOMAIN q.queues \ {q.min} : left.queues[j] = q.queues[j]

\* pop() lets empty() refill the object, takes one path and drains the bucket when
\* that was its last.
LEMMA PopTakesOne ==
  ASSUME NEW q0, Settled(q0), ~ IsEmpty(q0)
  PROVE  /\ Settled(Refilled(q0)) /\ Held(Refilled(q0)) = Held(q0)
         /\ \E left :
              /\ TakesOne(Refilled(q0), left)
              /\ Popped(q0).value = Chosen(Refilled(q0).method,
                                           Refilled(q0).queues[Refilled(q0).min])
              /\ Popped(q0).pq = IF left.queues[Refilled(q0).min] = <<>>
                                 THEN Drained(left, Refilled(q0).min) ELSE left
<1>q. PICK q : q = Refilled(q0)
  OBVIOUS
<1>m. PICK m : m = q.min
  OBVIOUS
<1>list. PICK list : list = Bucket(q.queues, m)
  OBVIOUS
<1>rest. PICK rest : rest = Rest(q.method, list)
  OBVIOUS
<1>left. PICK left : left = [q EXCEPT !.queues = Store(@, m, rest)]
  OBVIOUS
<1>1. Settled(q) /\ DOMAIN q.queues # {} /\ Held(q) = Held(q0)
  BY <1>q, RefilledSettled, RefilledHeld
<1>2. Object(q) /\ m = LeastKey(q.queues) /\ Keyed(q) /\ NoEmptyBucket(q)
  BY <1>1, <1>m DEF Settled, Sound
<1>3. /\ q.queues \in [DOMAIN q.queues -> Seq(Paths)]
      /\ DOMAIN q.queues \subseteq Keys
      /\ q.method \in Methods
  BY <1>2 DEF Object
<1>4. m \in DOMAIN q.queues /\ m \in Keys
  BY <1>1, <1>2, <1>3, LeastKeyIsLeast
<1>5. list = q.queues[m] /\ list \in Seq(Paths) /\ list # <<>>
  BY <1>2, <1>3, <1>4, <1>list DEF Bucket, NoEmptyBucket
<1>6. Popped(q0) = [pq    |-> IF rest = <<>> THEN Drained(left, m) ELSE left,
                    value |-> Chosen(q.method, list)]
  BY <1>5, <1>q, <1>m, <1>list, <1>rest, <1>left DEF Popped
<1>7. /\ Chosen(q.method, list) \in Paths
      /\ rest \in Seq(Paths)
      /\ \A i \in DOMAIN rest : \E j \in DOMAIN list : rest[i] = list[j]
  BY <1>3, <1>5, <1>rest, TakenFromList
<1>8. left = [queues |-> Store(q.queues, m, rest), min |-> m,
              lazy |-> q.lazy, method |-> q.method]
  <2>x. PICK x : x = Store(q.queues, m, rest)
    OBVIOUS
  <2>1. left = [q EXCEPT !.queues = x]
    BY <1>left, <2>x
  <2>2. [q EXCEPT !.queues = x]
          = [queues |-> x, min |-> q.min, lazy |-> q.lazy, method |-> q.method]
    BY ONLY <1>2, FieldChanges
  <2> QED
    BY ONLY <1>2, <1>m, <2>x, <2>1, <2>2
<1>9. /\ left.queues = Store(q.queues, m, rest)
      /\ left.min = m
      /\ left.lazy = q.lazy
      /\ left.method = q.method
  BY <1>8
<1>10. /\ DOMAIN left.queues = DOMAIN q.queues
       /\ left.queues \in [DOMAIN q.queues -> Seq(Paths)]
       /\ left.queues[m] = rest
       /\ \A j \in DOMAIN q.queues \ {m} : left.queues[j] = q.queues[j]
  <2>1. DOMAIN q.queues \cup {m} = DOMAIN q.queues
    BY <1>4
  <2> PICK map : map = q.queues
    OBVIOUS
  <2>2. /\ DOMAIN Store(map, m, rest) = DOMAIN map \cup {m}
        /\ Store(map, m, rest)[m] = rest
        /\ \A j \in DOMAIN map \ {m} : Store(map, m, rest)[j] = map[j]
    BY DEF Store
  <2>3. Store(map, m, rest) \in [DOMAIN map -> Seq(Paths)]
    BY <1>3, <1>4, <1>7, <2>1 DEF Store
  <2> QED
    BY <1>9, <2>1, <2>2, <2>3
<1>11. Sound(left)
  <2>1. left = [queues |-> left.queues, min |-> left.min,
                lazy |-> left.lazy, method |-> left.method]
    BY <1>8, <1>9
  <2>2. Object(left)
    BY <1>2, <1>3, <1>4, <1>9, <1>10, <1>m, <2>1 DEF Object
  <2>3. left.min = LeastKey(left.queues)
    BY <1>2, <1>9, <1>10 DEF LeastKey
  <2>4. Keyed(left)
    <3> SUFFICES ASSUME NEW k \in DOMAIN left.queues, NEW i \in DOMAIN left.queues[k]
                 PROVE  ICost(left.queues[k][i]) = k
      BY DEF Keyed
    <3>1. CASE k # m
      BY <1>2, <1>10, <3>1 DEF Keyed
    <3>2. CASE k = m
      BY <1>2, <1>4, <1>5, <1>7, <1>10, <3>2 DEF Keyed
    <3> QED
      BY <3>1, <3>2
  <2> QED
    BY <2>2, <2>3, <2>4 DEF Sound
<1>12. TakesOne(q, left)
  <2>1. \A j \in DOMAIN q.queues : m <= j
    BY <1>1, <1>2, <1>3, LeastKeyIsLeast
  <2> QED
    BY <1>4, <1>5, <1>9, <1>10, <1>11, <1>m, <1>rest, <2>1 DEF TakesOne
<1>13. /\ Popped(q0).value = Chosen(q.method, q.queues[m])
       /\ Popped(q0).pq = IF left.queues[m] = <<>> THEN Drained(left, m) ELSE left
  BY <1>5, <1>6, <1>10
<1> QED
  BY <1>1, <1>12, <1>13, <1>q, <1>m

\* The paths that TakesOne leaves, by bucket.
LEMMA TakenReady ==
  ASSUME NEW q, Settled(q), NEW left, TakesOne(q, left),
         NEW c, c = Chosen(q.method, q.queues[q.min])
  PROVE  /\ c \in Paths /\ c \in Ready(q)
         /\ Ready(q) = Ready(left) \cup {c} /\ Waiting(q) = Waiting(left)
         /\ \A p \in Ready(q) : ICost(c) <= ICost(p)
<1>m. PICK m : m = q.min
  OBVIOUS
<1>list. PICK list : list = q.queues[m]
  OBVIOUS
<1>rest. PICK rest : rest = Rest(q.method, list)
  OBVIOUS
<1>1. /\ Keyed(q) /\ q.method \in Methods /\ q.queues \in [DOMAIN q.queues -> Seq(Paths)]
  BY DEF Settled, Sound, Object
<1>2. /\ m \in DOMAIN q.queues /\ \A j \in DOMAIN q.queues : m <= j
      /\ list \in Seq(Paths) /\ list # <<>>
      /\ DOMAIN left.queues = DOMAIN q.queues
      /\ left.queues[m] = rest
      /\ \A j \in DOMAIN q.queues \ {m} : left.queues[j] = q.queues[j]
      /\ left.lazy = q.lazy
  BY <1>m, <1>list, <1>rest DEF TakesOne
<1>3. c \in Paths /\ Elements(list) = Elements(rest) \cup {c}
  BY <1>1, <1>2, <1>m, <1>list, <1>rest, TakenElements, TakenFromList
<1>4. \A x : (\E j \in DOMAIN q.queues : x \in Elements(q.queues[j]))
           <=> (x = c \/ \E j \in DOMAIN q.queues : x \in Elements(left.queues[j]))
  BY <1>2, <1>3, <1>list
<1>5. /\ \A x : x \in Ready(q) <=> \E j \in DOMAIN q.queues : x \in Elements(q.queues[j])
      /\ \A x : x \in Ready(left) <=> \E j \in DOMAIN q.queues : x \in Elements(left.queues[j])
  BY <1>2 DEF Ready
<1>6. Ready(q) = Ready(left) \cup {c} /\ Waiting(q) = Waiting(left)
  BY <1>2, <1>4, <1>5 DEF Waiting
<1>7. \A j \in DOMAIN q.queues : \A x \in Elements(q.queues[j]) : ICost(x) = j
  BY <1>1 DEF Keyed, Elements
<1>8. ICost(c) = m
  BY <1>2, <1>3, <1>7, <1>list
<1>9. ASSUME NEW p \in Ready(q) PROVE ICost(c) <= ICost(p)
  BY <1>2, <1>5, <1>7, <1>8
<1> QED
  BY <1>3, <1>6, <1>9

\* pop() takes out the path it returns and no other.
LEMMA PoppedHeld ==
  ASSUME NEW q0, Settled(q0), ~ IsEmpty(q0)
  PROVE  /\ Popped(q0).value \in Paths
         /\ Held(q0) = Held(Popped(q0).pq) \cup {Popped(q0).value}
<1>q. PICK q : q = Refilled(q0)
  OBVIOUS
<1>1. Settled(q) /\ Held(q) = Held(q0)
  BY <1>q, PopTakesOne
<1>2. PICK left : /\ TakesOne(q, left)
                  /\ Popped(q0).value = Chosen(q.method, q.queues[q.min])
                  /\ Popped(q0).pq = IF left.queues[q.min] = <<>>
                                     THEN Drained(left, q.min) ELSE left
  BY <1>q, PopTakesOne
<1>c. PICK c : c = Chosen(q.method, q.queues[q.min])
  OBVIOUS
<1>3. c \in Paths /\ Held(q) = Held(left) \cup {c}
  BY <1>1, <1>2, <1>c, TakenReady DEF Held
<1>4. Held(Drained(left, q.min)) = Held(left)
  BY <1>2, DrainedHeld DEF TakesOne
<1> QED
  BY <1>1, <1>2, <1>3, <1>4, <1>c

\* empty() makes the lazy paths ready, if it changes anything.
LEMMA RefilledReady ==
  ASSUME NEW q, Settled(q)
  PROVE  \/ Refilled(q) = q
         \/ /\ Ready(q) = {} /\ Ready(Refilled(q)) = Waiting(q)
            /\ Waiting(Refilled(q)) = {}
<1>1. CASE DOMAIN q.queues = {} /\ q.lazy # <<>>
  <2>1. Ready(q) = {}
    BY <1>1 DEF Ready
  <2>2. Refilled(q) = Reinserted([q EXCEPT !.min = LLONG_MAX])
    BY <1>1 DEF Refilled
  <2>3. Refilled(q).lazy = <<>>
    BY <2>2 DEF Reinserted
  <2>4. Waiting(Refilled(q)) = {}
    BY <2>3 DEF Waiting, Elements
  <2>5. Held(Refilled(q)) = Held(q)
    BY RefilledHeld
  <2> QED
    BY <2>1, <2>4, <2>5 DEF Held
<1>2. CASE ~ (DOMAIN q.queues = {} /\ q.lazy # <<>>)
  BY <1>2 DEF Refilled
<1> QED
  BY <1>1, <1>2

\* pop() takes a path of the least key among those ready, and lets in either all
\* the lazy ones or none.
LEMMA PoppedReady ==
  ASSUME NEW q0, Settled(q0), ~ IsEmpty(q0)
  PROVE  /\ Popped(q0).value \in Ready(Refilled(q0))
         /\ \A p \in Ready(Refilled(q0)) : ICost(Popped(q0).value) <= ICost(p)
         /\ Held(Refilled(q0)) = Held(Popped(q0).pq) \cup {Popped(q0).value}
         /\ \/ /\ Waiting(Popped(q0).pq) = Waiting(Refilled(q0))
               /\ Ready(Popped(q0).pq) \subseteq Ready(Refilled(q0))
            \/ Waiting(Popped(q0).pq) = {}
<1>q. PICK q : q = Refilled(q0)
  OBVIOUS
<1>r. PICK r : r = Popped(q0).pq
  OBVIOUS
<1>c. PICK c : c = Popped(q0).value
  OBVIOUS
<1>1. Settled(q)
  BY <1>q, PopTakesOne
<1>2. PICK left : /\ TakesOne(q, left)
                  /\ c = Chosen(q.method, q.queues[q.min])
                  /\ r = IF left.queues[q.min] = <<>> THEN Drained(left, q.min) ELSE left
  BY <1>q, <1>r, <1>c, PopTakesOne
<1>3. /\ c \in Ready(q) /\ \A p \in Ready(q) : ICost(c) <= ICost(p)
      /\ Ready(q) = Ready(left) \cup {c} /\ Waiting(q) = Waiting(left)
  BY <1>1, <1>2, TakenReady
<1>4. Held(q) = Held(r) \cup {c}
  BY <1>q, <1>r, <1>c, PoppedHeld, PopTakesOne
<1>5. Drained(left, q.min).lazy = <<>>
  BY DEF Drained, Reinserted
<1>6. CASE left.queues[q.min] = <<>>
  <2>1. r.lazy = <<>>
    BY <1>2, <1>5, <1>6
  <2>2. Waiting(r) = {}
    BY <2>1 DEF Waiting, Elements
  <2> QED
    BY <1>3, <1>4, <1>q, <1>r, <1>c, <2>2
<1>7. CASE left.queues[q.min] # <<>>
  <2>1. Waiting(r) = Waiting(q) /\ Ready(r) \subseteq Ready(q)
    BY <1>2, <1>3, <1>7
  <2> QED
    BY <1>3, <1>4, <1>q, <1>r, <1>c, <2>1
<1> QED
  BY <1>6, <1>7

\* pushLazy() adds the path.
LEMMA PushedLazyHeld ==
  ASSUME NEW q, Object(q), NEW p \in Paths
  PROVE  /\ Ready(PushedLazy(q, p)) = Ready(q)
         /\ Waiting(PushedLazy(q, p)) = Waiting(q) \cup {p}
         /\ Held(PushedLazy(q, p)) = Held(q) \cup {p}
<1> PICK lazy : lazy = Append(q.lazy, p)
  OBVIOUS
<1>1. PushedLazy(q, p) = [queues |-> q.queues, min |-> q.min, lazy |-> lazy, method |-> q.method]
  BY FieldChanges DEF PushedLazy
<1>2. PushedLazy(q, p).queues = q.queues /\ PushedLazy(q, p).lazy = lazy
  BY <1>1
<1>3. Elements(lazy) = Elements(q.lazy) \cup {p}
  BY AppendedElements DEF Object
<1> QED
  BY <1>2, <1>3 DEF Held, Ready, Waiting

\* An empty object holds nothing.
LEMMA EmptyHeld ==
  /\ \A q : IsEmpty(q) => Held(q) = {}
  /\ \A m : Held(NewQueue(m)) = {}
<1>1. \A q : IsEmpty(q) => Held(q) = {}
  BY DEF IsEmpty, Held, Ready, Waiting, Elements
<1>2. \A m : IsEmpty(NewQueue(m))
  BY DEF IsEmpty, NewQueue
<1> QED
  BY <1>1, <1>2
-----------------------------------------------------------------------------
(***************************************************************************)
(* The inductive invariant and the theorems.                               *)
(***************************************************************************)
IInv == Settled(pq) /\ ret \in Paths \cup {NoPath}

LEMMA NewQueueSettled == ASSUME NEW m \in Methods PROVE Settled(NewQueue(m))
<1> DEFINE q == NewQueue(m)
<1>1. /\ q.queues = [k \in {} |-> <<>>]
      /\ q.min = LLONG_MAX /\ q.lazy = <<>> /\ q.method = m
      /\ q = [queues |-> q.queues, min |-> q.min, lazy |-> q.lazy, method |-> q.method]
  BY DEF NewQueue
<1>2. DOMAIN q.queues = {} /\ q.queues \in [DOMAIN q.queues -> Seq(Paths)]
  BY <1>1
<1>3. q.min = LeastKey(q.queues)
  BY <1>1, <1>2, LeastKeyOfEmpty
<1>4. q.min \in LLONG_MIN .. LLONG_MAX
  BY <1>2, <1>3, LeastKeyType
<1>5. q.lazy \in Seq(Paths)
  BY <1>1, EmptySeq
<1> HIDE DEF q
<1>6. Object(q)
  BY <1>1, <1>2, <1>4, <1>5 DEF Object
<1>7. Settled(q)
  BY <1>2, <1>3, <1>6 DEF Settled, Sound, Keyed, NoEmptyBucket
<1> QED
  BY <1>7 DEF q

\* Init establishes the invariant.
LEMMA InitIInv == Init => IInv
BY NewQueueSettled DEF Init, IInv

\* Every member function preserves it.
LEMMA NextIInv == IInv /\ [Next]_vars => IInv'
<1> SUFFICES ASSUME IInv, [Next]_vars PROVE IInv'
  OBVIOUS
<1>0. Settled(pq) /\ ret \in Paths \cup {NoPath}
  BY DEF IInv
<1>1. ASSUME NEW p \in Paths, Push(p) PROVE IInv'
  BY <1>0, <1>1, PushedSettled DEF Push, IInv
<1>2. ASSUME NEW p \in Paths, PushLazy(p) PROVE IInv'
  BY <1>0, <1>2, PushedLazySettled DEF PushLazy, IInv
<1>3. CASE Empty
  BY <1>0, <1>3, RefilledSettled DEF Empty, IInv
<1>4. CASE Pop
  BY <1>0, <1>4, PoppedSettled DEF Pop, IInv
<1>5. CASE Clear
  BY <1>0, <1>5, NewQueueSettled DEF Clear, Cleared, IInv, Settled, Sound, Object
<1>6. CASE UNCHANGED vars
  BY <1>0, <1>6 DEF vars, IInv
<1> QED
  BY <1>1, <1>2, <1>3, <1>4, <1>5, <1>6 DEF Next

\* The object keeps its type, its cached minimum, and its well-formed buckets,
\* and pop() never throws.
THEOREM Invariance == Spec => []IInv
BY InitIInv, NextIInv, PTL DEF Spec

\* Between any two calls the map holds lists of paths under int64 keys.
THEOREM TypeCorrect == Spec => []TypeOK
<1>1. IInv => TypeOK
  BY DEF IInv, Settled, Sound, TypeOK
<1> QED
  BY <1>1, Invariance, PTL

\* The cached _min is never stale.
THEOREM MinCorrect == Spec => []MinIsLeastKey
<1>1. IInv => MinIsLeastKey
  BY DEF IInv, Settled, Sound, MinIsLeastKey
<1> QED
  BY <1>1, Invariance, PTL

\* No bucket is empty, and every path lies in the bucket of its cost.
THEOREM BucketsCorrect == Spec => []BucketsWellFormed
<1>1. IInv => BucketsWellFormed
  BY DEF IInv, Settled, Sound, Keyed, NoEmptyBucket, BucketsWellFormed
<1> QED
  BY <1>1, Invariance, PTL

\* The runtime_error of pop_queue() is unreachable.
THEOREM PopCorrect == Spec => []PopNeverThrows
<1>1. IInv => PopNeverThrows
  BY NullAssumption DEF IInv, PopNeverThrows
<1> QED
  BY <1>1, Invariance, PTL
-----------------------------------------------------------------------------
(***************************************************************************)
(* The order of service: the buckets implement PriorityOrder.  arrival is  *)
(* the line of that specification; a bucket holds the ready paths of its   *)
(* cost in the order of the line.                                          *)
(***************************************************************************)
OneOfEach(list) == \A i, j \in DOMAIN list : list[i] = list[j] => i = j

Before(list, a, b) == \E i, j \in DOMAIN list : i < j /\ list[i] = a /\ list[j] = b

\* The ready paths of q stand in line, each once, and those of a bucket in the
\* order of the bucket.
Follows(q, line) ==
  /\ line \in Seq(Paths) /\ OneOfEach(line) /\ Elements(line) = Ready(q)
  /\ \A k \in DOMAIN q.queues : \A i, j \in DOMAIN q.queues[k] :
       i < j => Before(line, q.queues[k][i], q.queues[k][j])

\* A path that joins a list stands behind all the others.
LEMMA AppendedOrder ==
  ASSUME NEW list \in Seq(Paths), NEW p \in Paths
  PROVE  /\ Append(list, p) \in Seq(Paths)
         /\ OneOfEach(list) /\ p \notin Elements(list) => OneOfEach(Append(list, p))
         /\ \A a, b : Before(list, a, b) => Before(Append(list, p), a, b)
         /\ \A a \in Elements(list) : Before(Append(list, p), a, p)
<1>longer. PICK longer : longer = Append(list, p)
  OBVIOUS
<1>1. /\ longer \in Seq(Paths) /\ Len(longer) = Len(list) + 1
      /\ \A i \in 1 .. Len(list) : longer[i] = list[i]
      /\ longer[Len(list) + 1] = p
  BY <1>longer, AppendProperties
<1>2. Len(list) \in Nat /\ DOMAIN list = 1 .. Len(list)
      /\ DOMAIN longer = DOMAIN list \cup {Len(list) + 1}
  <2>1. DOMAIN longer = 1 .. Len(list) + 1 /\ Len(list) \in Nat /\ DOMAIN list = 1 .. Len(list)
    BY <1>1, LenProperties
  <2> QED
    BY <2>1
<1>3. \A i \in DOMAIN list : longer[i] = list[i] /\ i < Len(list) + 1
  BY <1>1, <1>2
<1>4. ASSUME OneOfEach(list), p \notin Elements(list) PROVE OneOfEach(longer)
  BY <1>1, <1>2, <1>3, <1>4 DEF OneOfEach, Elements
<1>5. ASSUME NEW a, NEW b, Before(list, a, b) PROVE Before(longer, a, b)
  BY <1>2, <1>3, <1>5 DEF Before
<1>6. ASSUME NEW a \in Elements(list) PROVE Before(longer, a, p)
  <2>1. PICK i \in DOMAIN list : list[i] = a
    BY DEF Elements
  <2>2. Len(list) + 1 \in DOMAIN longer /\ i \in DOMAIN longer /\ i < Len(list) + 1
    BY <1>2, <1>3
  <2> QED
    BY <1>1, <1>3, <2>1, <2>2 DEF Before
<1> QED
  BY <1>1, <1>4, <1>5, <1>6, <1>longer

\* A list without its member at i, by index.
LEMMA RemovedIndices ==
  ASSUME NEW list \in Seq(Paths), NEW i \in DOMAIN list
  PROVE  /\ Promise!RemoveAt(list, i) \in Seq(Paths)
         /\ Len(Promise!RemoveAt(list, i)) = Len(list) - 1
         /\ \A j \in 1 .. Len(list) - 1 :
              Promise!RemoveAt(list, i)[j] = IF j < i THEN list[j] ELSE list[j + 1]
<1>n. PICK n : n = Len(list)
  OBVIOUS
<1>a. PICK a : a = SubSeq(list, 1, i - 1)
  OBVIOUS
<1>b. PICK b : b = SubSeq(list, i + 1, n)
  OBVIOUS
<1>1. n \in Nat /\ i \in 1 .. n /\ DOMAIN list = 1 .. n /\ \A j \in 1 .. n : list[j] \in Paths
  BY <1>n, LenProperties, ElementOfSeq
<1>2. /\ a \in Seq(Paths) /\ Len(a) = i - 1
      /\ \A j \in 1 .. i - 1 : a[j] = list[j]
  <2>1. 1 \in Int /\ i - 1 \in Int /\ \A j \in 1 .. i - 1 : list[j] \in Paths
    BY <1>1
  <2>2. /\ a \in Seq(Paths)
        /\ Len(a) = IF 1 <= i - 1 THEN (i - 1) - 1 + 1 ELSE 0
        /\ \A j \in 1 .. (i - 1) - 1 + 1 : a[j] = list[1 + j - 1]
    BY <1>a, <2>1, SubSeqProperties
  <2> QED
    BY <1>1, <2>2
<1>3. /\ b \in Seq(Paths) /\ Len(b) = n - i
      /\ \A j \in 1 .. n - i : b[j] = list[i + j]
  <2>1. i + 1 \in Int /\ n \in Int /\ \A j \in i + 1 .. n : list[j] \in Paths
    BY <1>1
  <2>2. /\ b \in Seq(Paths)
        /\ Len(b) = IF i + 1 <= n THEN n - (i + 1) + 1 ELSE 0
        /\ \A j \in 1 .. n - (i + 1) + 1 : b[j] = list[(i + 1) + j - 1]
    BY <1>b, <2>1, SubSeqProperties
  <2>3. Len(b) = n - i
    BY <1>1, <2>2
  <2>4. ASSUME NEW j \in 1 .. n - i PROVE b[j] = list[i + j]
    <3>1. j \in 1 .. n - (i + 1) + 1 /\ (i + 1) + j - 1 = i + j
      BY <1>1
    <3> QED
      BY <2>2, <3>1
  <2> QED
    BY <2>2, <2>3, <2>4
<1>4. Promise!RemoveAt(list, i) = a \o b
  BY <1>a, <1>b, <1>n DEF Promise!RemoveAt
<1>5. /\ a \o b \in Seq(Paths) /\ Len(a \o b) = n - 1
      /\ \A j \in 1 .. n - 1 : (a \o b)[j] = IF j <= i - 1 THEN a[j] ELSE b[j - (i - 1)]
  <2>1. /\ a \o b \in Seq(Paths) /\ Len(a \o b) = Len(a) + Len(b)
        /\ \A j \in 1 .. Len(a) + Len(b) :
             (a \o b)[j] = IF j <= Len(a) THEN a[j] ELSE b[j - Len(a)]
    BY <1>2, <1>3, ConcatProperties
  <2>2. Len(a) = i - 1 /\ Len(a) + Len(b) = n - 1
    BY <1>1, <1>2, <1>3
  <2> QED
    BY <2>1, <2>2
<1>6. ASSUME NEW j \in 1 .. n - 1
      PROVE  (a \o b)[j] = IF j < i THEN list[j] ELSE list[j + 1]
  <2>1. CASE j < i
    BY <1>1, <1>2, <1>5, <2>1
  <2>2. CASE ~ (j < i)
    <3>1. j - (i - 1) \in 1 .. n - i /\ i + (j - (i - 1)) = j + 1 /\ ~ (j <= i - 1)
      BY <1>1, <2>2
    <3>2. (a \o b)[j] = b[j - (i - 1)]
      BY <1>5, <3>1
    <3>3. b[j - (i - 1)] = list[i + (j - (i - 1))]
      BY <1>3, <3>1
    <3> QED
      BY <2>2, <3>1, <3>2, <3>3
  <2> QED
    BY <2>1, <2>2
<1> QED
  BY <1>4, <1>5, <1>6, <1>n

\* It keeps the order of the others.
LEMMA RemovedOrder ==
  ASSUME NEW list \in Seq(Paths), OneOfEach(list), NEW i \in DOMAIN list
  PROVE  /\ Promise!RemoveAt(list, i) \in Seq(Paths)
         /\ OneOfEach(Promise!RemoveAt(list, i))
         /\ Elements(Promise!RemoveAt(list, i)) = Elements(list) \ {list[i]}
         /\ \A a, b : Before(list, a, b) /\ a # list[i] /\ b # list[i]
                        => Before(Promise!RemoveAt(list, i), a, b)
<1>n. PICK n : n = Len(list)
  OBVIOUS
<1>r. PICK r : r = Promise!RemoveAt(list, i)
  OBVIOUS
<1>1. n \in Nat /\ i \in 1 .. n /\ DOMAIN list = 1 .. n
  BY <1>n, LenProperties
<1>2. /\ r \in Seq(Paths) /\ Len(r) = n - 1
      /\ \A j \in 1 .. n - 1 : r[j] = IF j < i THEN list[j] ELSE list[j + 1]
  BY <1>n, <1>r, RemovedIndices
<1>3. DOMAIN r = 1 .. n - 1
  BY <1>2, LenProperties
<1>old. PICK old : old = [j \in 1 .. n - 1 |-> IF j < i THEN j ELSE j + 1]
  OBVIOUS
<1>new. PICK new : new = [j \in 1 .. n |-> IF j < i THEN j ELSE j - 1]
  OBVIOUS
<1>4. \A j \in DOMAIN r : old[j] \in DOMAIN list \ {i} /\ r[j] = list[old[j]]
  BY <1>1, <1>2, <1>3, <1>old
<1>5. \A j \in DOMAIN list \ {i} : new[j] \in DOMAIN r /\ r[new[j]] = list[j]
  BY <1>1, <1>2, <1>3, <1>new, SMTT(20)
<1>6. \A j, k \in DOMAIN r : old[j] = old[k] => j = k
  BY <1>1, <1>3, <1>old
<1>7. \A j, k \in DOMAIN list \ {i} : j < k => new[j] < new[k]
  BY <1>1, <1>new
<1>8. \A j \in DOMAIN list : list[j] = list[i] => j = i
  BY DEF OneOfEach
<1>9. OneOfEach(r)
  BY <1>4, <1>6 DEF OneOfEach
<1>10. Elements(r) = Elements(list) \ {list[i]}
  BY <1>4, <1>5, <1>8 DEF Elements
<1>11. ASSUME NEW a, NEW b, Before(list, a, b), a # list[i], b # list[i]
       PROVE  Before(r, a, b)
  <2>1. PICK j \in DOMAIN list, k \in DOMAIN list : j < k /\ list[j] = a /\ list[k] = b
    BY <1>11 DEF Before
  <2>2. j \in DOMAIN list \ {i} /\ k \in DOMAIN list \ {i}
    BY <1>11, <2>1
  <2> QED
    BY <1>5, <1>7, <2>1, <2>2 DEF Before
<1> QED
  BY <1>2, <1>9, <1>10, <1>11, <1>r

\* Removing from the first of two lists.
LEMMA RemovedFromFirst ==
  ASSUME NEW list \in Seq(Paths), NEW more \in Seq(Paths), NEW i \in DOMAIN list
  PROVE  Promise!RemoveAt(list \o more, i) = Promise!RemoveAt(list, i) \o more
<1>n. PICK n : n = Len(list)
  OBVIOUS
<1>m. PICK m : m = Len(more)
  OBVIOUS
<1>all. PICK all : all = list \o more
  OBVIOUS
<1>x. PICK x : x = Promise!RemoveAt(all, i)
  OBVIOUS
<1>r. PICK r : r = Promise!RemoveAt(list, i)
  OBVIOUS
<1>1. n \in Nat /\ m \in Nat /\ i \in 1 .. n
  BY <1>n, <1>m, LenProperties
<1>2. /\ all \in Seq(Paths) /\ Len(all) = n + m
      /\ \A j \in 1 .. n + m : all[j] = IF j <= n THEN list[j] ELSE more[j - n]
  BY <1>n, <1>m, <1>all, ConcatProperties
<1>3. i \in DOMAIN all
  BY <1>1, <1>2, LenProperties
<1>4. /\ x \in Seq(Paths) /\ Len(x) = (n + m) - 1
      /\ \A j \in 1 .. (n + m) - 1 : x[j] = IF j < i THEN all[j] ELSE all[j + 1]
  BY <1>2, <1>3, <1>x, RemovedIndices
<1>5. /\ r \in Seq(Paths) /\ Len(r) = n - 1
      /\ \A j \in 1 .. n - 1 : r[j] = IF j < i THEN list[j] ELSE list[j + 1]
  BY <1>n, <1>r, RemovedIndices
<1>y. PICK y : y = r \o more
  OBVIOUS
<1>6. /\ y \in Seq(Paths) /\ Len(y) = (n - 1) + m
      /\ \A j \in 1 .. (n - 1) + m : y[j] = IF j <= n - 1 THEN r[j] ELSE more[j - (n - 1)]
  <2>1. /\ r \o more \in Seq(Paths) /\ Len(r \o more) = Len(r) + Len(more)
        /\ \A j \in 1 .. Len(r) + Len(more) :
             (r \o more)[j] = IF j <= Len(r) THEN r[j] ELSE more[j - Len(r)]
    BY <1>5, ConcatProperties
  <2>2. Len(r) = n - 1 /\ Len(more) = m
    BY <1>5, <1>m
  <2> QED
    BY <1>y, <2>1, <2>2
<1>7. ASSUME NEW j \in 1 .. (n + m) - 1 PROVE x[j] = y[j]
  <2>0. j \in 1 .. (n - 1) + m /\ j \in 1 .. n + m /\ j + 1 \in 1 .. n + m
    BY <1>1
  <2>1. CASE j < i
    <3>1. j <= n /\ j <= n - 1 /\ j \in 1 .. n - 1
      BY <1>1, <2>1
    <3> QED
      BY <1>2, <1>4, <1>5, <1>6, <2>0, <2>1, <3>1
  <2>2. CASE ~ (j < i) /\ j <= n - 1
    <3>1. j + 1 <= n /\ j \in 1 .. n - 1
      BY <1>1, <2>2
    <3> QED
      BY <1>2, <1>4, <1>5, <1>6, <2>0, <2>2, <3>1
  <2>3. CASE ~ (j < i) /\ ~ (j <= n - 1)
    <3>1. ~ (j + 1 <= n) /\ (j + 1) - n = j - (n - 1)
      BY <1>1, <2>3
    <3> QED
      BY <1>2, <1>4, <1>6, <2>0, <2>3, <3>1
  <2> QED
    BY <2>1, <2>2, <2>3
<1>8. Len(x) = Len(y) /\ \A j \in 1 .. Len(x) : x[j] = y[j]
  BY <1>1, <1>4, <1>6, <1>7
<1>9. x = y
  BY <1>4, <1>6, <1>8, SeqEqual
<1> QED
  BY <1>9, <1>x, <1>y, <1>r, <1>all

\* A pushed path stands last, in the line and in its bucket.
LEMMA PushedFollows ==
  ASSUME NEW q, Object(q), NEW line, Follows(q, line), NEW p \in Paths, p \notin Ready(q)
  PROVE  Follows(Pushed(q, p), Append(line, p))
<1>k. PICK k : k = ICost(p)
  OBVIOUS
<1>list. PICK list : list = Bucket(q.queues, k)
  OBVIOUS
<1>longer. PICK longer : longer = Append(list, p)
  OBVIOUS
<1>new. PICK new : new = Pushed(q, p).queues
  OBVIOUS
<1>l. PICK l : l = Append(line, p)
  OBVIOUS
<1>1. q.queues \in [DOMAIN q.queues -> Seq(Paths)] /\ DOMAIN q.queues \subseteq Keys
  BY DEF Object
<1>2. k \in Keys /\ list \in Seq(Paths) /\ longer \in Seq(Paths)
  BY <1>k, <1>list, <1>longer, ICostType, PushedFields
<1>3. new = Store(q.queues, k, longer)
  BY <1>k, <1>list, <1>longer, <1>new DEF Pushed
<1>4. /\ DOMAIN new = DOMAIN q.queues \cup {k}
      /\ new[k] = longer
      /\ \A j \in DOMAIN q.queues \ {k} : new[j] = q.queues[j]
  <2>map. PICK map : map = q.queues
    OBVIOUS
  <2>1. /\ DOMAIN Store(map, k, longer) = DOMAIN map \cup {k}
        /\ Store(map, k, longer)[k] = longer
        /\ \A j \in DOMAIN map \ {k} : Store(map, k, longer)[j] = map[j]
    BY DEF Store
  <2> QED
    BY <1>3, <2>map, <2>1
<1>5. /\ line \in Seq(Paths) /\ OneOfEach(line) /\ Elements(line) = Ready(q)
      /\ \A j \in DOMAIN q.queues : \A x, y \in DOMAIN q.queues[j] :
           x < y => Before(line, q.queues[j][x], q.queues[j][y])
  BY DEF Follows
<1>6. /\ l \in Seq(Paths) /\ OneOfEach(l) /\ Elements(l) = Ready(Pushed(q, p))
      /\ \A a, b : Before(line, a, b) => Before(l, a, b)
      /\ \A a \in Elements(line) : Before(l, a, p)
  <2>1. Elements(l) = Elements(line) \cup {p} /\ p \notin Elements(line)
    BY <1>5, <1>l, AppendedElements
  <2>2. Ready(Pushed(q, p)) = Ready(q) \cup {p}
    BY PushedReady
  <2>3. /\ l \in Seq(Paths) /\ OneOfEach(l)
        /\ \A a, b : Before(line, a, b) => Before(l, a, b)
        /\ \A a \in Elements(line) : Before(l, a, p)
    BY <1>5, <1>l, <2>1, AppendedOrder
  <2> QED
    BY <1>5, <2>1, <2>2, <2>3
<1>7. \A x, y \in DOMAIN list : x < y => Before(line, list[x], list[y])
  <2>1. CASE k \in DOMAIN q.queues
    BY <1>5, <1>list, <2>1 DEF Bucket
  <2>2. CASE k \notin DOMAIN q.queues
    <3>1. DOMAIN list = {}
      BY <1>list, <2>2 DEF Bucket
    <3> QED
      BY <3>1
  <2> QED
    BY <2>1, <2>2
<1>8. \A x \in DOMAIN list : list[x] \in Elements(line)
  <2>1. CASE k \in DOMAIN q.queues
    <3>1. list = q.queues[k]
      BY <1>list, <2>1 DEF Bucket
    <3>2. Elements(list) \subseteq Ready(q)
      BY <2>1, <3>1 DEF Ready
    <3> QED
      BY <1>5, <3>2 DEF Elements
  <2>2. CASE k \notin DOMAIN q.queues
    <3>1. DOMAIN list = {}
      BY <1>list, <2>2 DEF Bucket
    <3> QED
      BY <3>1
  <2> QED
    BY <2>1, <2>2
<1>9. ASSUME NEW x \in DOMAIN longer, NEW y \in DOMAIN longer, x < y
      PROVE  Before(l, longer[x], longer[y])
  <2>1. /\ Len(list) \in Nat /\ DOMAIN list = 1 .. Len(list)
        /\ DOMAIN longer = 1 .. Len(list) + 1
        /\ \A i \in 1 .. Len(list) : longer[i] = list[i]
        /\ longer[Len(list) + 1] = p
    BY <1>2, <1>longer, AppendProperties, LenProperties
  <2>2. x \in DOMAIN list /\ longer[x] = list[x]
    BY <1>9, <2>1
  <2>3. CASE y = Len(list) + 1
    BY <1>6, <1>8, <2>1, <2>2, <2>3
  <2>4. CASE y # Len(list) + 1
    <3>1. y \in DOMAIN list /\ longer[y] = list[y]
      BY <2>1, <2>4
    <3> QED
      BY <1>6, <1>7, <1>9, <2>2, <3>1
  <2> QED
    BY <2>3, <2>4
<1>10. ASSUME NEW j \in DOMAIN new, NEW x \in DOMAIN new[j], NEW y \in DOMAIN new[j], x < y
       PROVE  Before(l, new[j][x], new[j][y])
  <2>1. CASE j = k
    BY <1>4, <1>9, <1>10, <2>1
  <2>2. CASE j # k
    BY <1>4, <1>5, <1>6, <1>10, <2>2
  <2> QED
    BY <2>1, <2>2
<1>11. Follows(Pushed(q, p), l)
  BY <1>6, <1>10, <1>new DEF Follows
<1> QED
  BY <1>11, <1>l

\* The lazy paths are none of the ready ones, and each waits once.
Apart(q) == OneOfEach(q.lazy) /\ Waiting(q) \cap Ready(q) = {}

\* The lazy paths join the line one by one, in the order they were added.
LEMMA ReinsertedFollows ==
  ASSUME NEW q, Sound(q), Apart(q), NEW line, Follows(q, line)
  PROVE  Follows(Reinserted(q), line \o q.lazy)
<1>n. PICK n : n = Len(q.lazy)
  OBVIOUS
<1>lazy. PICK lazy : lazy = q.lazy
  OBVIOUS
<1>0. /\ lazy \in Seq(Paths) /\ n \in Nat /\ DOMAIN lazy = 1 .. n /\ n = Len(lazy)
      /\ line \in Seq(Paths) /\ \A i \in 1 .. n : lazy[i] \in Paths
  BY <1>n, <1>lazy, LenProperties, ElementOfSeq DEF Sound, Object, Follows
<1> DEFINE joined(i) == line \o SubSeq(lazy, 1, i)
           S == {i \in Nat : Follows(Insertions(q)[i], joined(i))}
<1>1. 0 \in S
  <2>1. SubSeq(lazy, 1, 0) = <<>>
    BY SubSeqEmpty
  <2>2. joined(0) = line
    BY <1>0, <2>1, ConcatEmptySeq
  <2>3. Insertions(q)[0] = q
    BY <1>0, <1>lazy, InsertionsDef
  <2> QED
    BY <2>2, <2>3
<1>2. ASSUME NEW i \in 0 .. n - 1, i \in S PROVE i + 1 \in S
  <2>1. /\ i \in 0 .. n /\ i + 1 \in 1 .. n /\ i + 1 \in Nat /\ (i + 1) - 1 = i
        /\ i \in 0 .. Len(q.lazy) /\ i + 1 \in 1 .. Len(q.lazy)
    BY <1>0, <1>n
  <2>p. PICK p : p = lazy[i + 1]
    OBVIOUS
  <2>b. PICK b : b = Insertions(q)[i]
    OBVIOUS
  <2>2. Insertions(q)[i + 1] = Pushed(b, p)
    BY <1>0, <1>lazy, <2>1, <2>p, <2>b, InsertionsDef
  <2>3. Object(b)
    BY <2>1, <2>b, InsertionsProgress DEF Progress, Sound
  <2>4. p \in Paths
    BY <1>0, <2>1, <2>p
  <2>5. Ready(b) = Ready(q) \cup {lazy[j] : j \in 1 .. i}
    BY <1>lazy, <2>1, <2>b, InsertionsReady
  <2>6. p \notin Ready(b)
    <3>1. p \in Waiting(q)
      BY <1>0, <1>lazy, <2>1, <2>p DEF Waiting, Elements
    <3>2. p \notin Ready(q)
      BY <3>1 DEF Apart
    <3>3. ASSUME NEW j \in 1 .. i PROVE lazy[j] # p
      <4>1. j \in DOMAIN lazy /\ i + 1 \in DOMAIN lazy /\ j # i + 1
        BY <1>0, <2>1
      <4> QED
        BY <1>lazy, <2>p, <4>1 DEF Apart, OneOfEach
    <3> QED
      BY <2>5, <3>2, <3>3
  <2>7. Follows(b, joined(i))
    BY <1>2, <2>b
  <2>8. Append(joined(i), p) = joined(i + 1)
    <3>f. PICK f : f = SubSeq(lazy, 1, i)
      OBVIOUS
    <3>1. f \in Seq(Paths)
      <4>1. 1 \in Int /\ i \in Int /\ \A j \in 1 .. i : lazy[j] \in Paths
        BY <1>0, <2>1
      <4> QED
        BY <3>f, <4>1, SubSeqProperties
    <3>2. SubSeq(lazy, 1, i + 1) = f \o <<p>>
      <4>1. 1 \in 1 .. Len(lazy) /\ i + 1 \in 1 .. Len(lazy)
        BY <1>0, <2>1
      <4>2. SubSeq(lazy, 1, i + 1) = SubSeq(lazy, 1, (i + 1) - 1) \o <<lazy[i + 1]>>
        BY <1>0, <4>1, SubSeqRecursiveSecond
      <4> QED
        BY <2>1, <2>p, <3>f, <4>2
    <3>3. <<p>> \in Seq(Paths)
      BY <2>4
    <3>4. line \o (f \o <<p>>) = (line \o f) \o <<p>>
      BY <1>0, <3>1, <3>3, ConcatAssociative
    <3>5. line \o f \in Seq(Paths)
      BY <1>0, <3>1, ConcatProperties
    <3>6. Append(line \o f, p) = (line \o f) \o <<p>>
      BY <2>4, <3>5, AppendIsConcat
    <3> QED
      BY <3>2, <3>4, <3>6, <3>f
  <2>9. Follows(Pushed(b, p), Append(joined(i), p))
    <3>j. PICK j : j = joined(i)
      OBVIOUS
    <3>1. Follows(b, j)
      BY <2>7, <3>j
    <3>2. Follows(Pushed(b, p), Append(j, p))
      BY <2>3, <2>4, <2>6, <3>1, PushedFollows
    <3> QED
      BY <3>2, <3>j
  <2> QED
    BY <2>1, <2>2, <2>8, <2>9
<1>3. n \in S
  <2> HIDE DEF S
  <2>1. \A i \in 0 .. n : i \in S
    BY <1>0, <1>1, <1>2, UpTo
  <2> QED
    BY <1>0, <2>1
<1>4. joined(n) = line \o lazy
  BY <1>0, SubSeqFull
<1>r. PICK r : r = Insertions(q)[n]
  OBVIOUS
<1>5. Follows(r, line \o lazy)
  BY <1>3, <1>4, <1>r
<1>6. Reinserted(q).queues = r.queues
  BY <1>n, <1>r DEF Reinserted
<1> HIDE DEF joined, S
<1> QED
  BY <1>5, <1>6, <1>lazy DEF Follows, Ready

\* Erasing an empty bucket changes nothing of this: it holds no path.
LEMMA ErasedFollows ==
  ASSUME NEW q, NEW line, Follows(q, line), NEW m, q.queues[m] = <<>>,
         NEW r, r.queues = Erase(q.queues, m)
  PROVE  Follows(r, line)
<1>1. /\ DOMAIN r.queues = DOMAIN q.queues \ {m}
      /\ \A j \in DOMAIN r.queues : r.queues[j] = q.queues[j]
  BY DEF Erase
<1>2. Elements(q.queues[m]) = {}
  BY DEF Elements
<1>3. Ready(r) = Ready(q)
  BY <1>1, <1>2 DEF Ready
<1> QED
  BY <1>1, <1>3 DEF Follows

\* The end of pop(): the lazy paths join, and the bucket goes if it stays empty.
LEMMA DrainedFollows ==
  ASSUME NEW q, Sound(q), Apart(q), NEW line, Follows(q, line), NEW m
  PROVE  Follows(Drained(q, m), line \o q.lazy) /\ Drained(q, m).lazy = <<>>
<1>r. PICK r : r = Reinserted(q)
  OBVIOUS
<1>l. PICK l : l = line \o q.lazy
  OBVIOUS
<1>1. Follows(r, l) /\ r.lazy = <<>>
  BY <1>r, <1>l, ReinsertedFollows, ReinsertedSound
<1>2. CASE r.queues[m] # <<>>
  BY <1>1, <1>2, <1>r, <1>l DEF Drained
<1>3. CASE r.queues[m] = <<>>
  <2>d. PICK d : d = Drained(q, m)
    OBVIOUS
  <2>1. d.queues = Erase(r.queues, m) /\ d.lazy = r.lazy
    BY <1>3, <1>r, <2>d DEF Drained
  <2>2. Follows(d, l)
    BY <1>1, <1>3, <2>1, ErasedFollows
  <2> QED
    BY <1>1, <1>l, <2>1, <2>2, <2>d
<1> QED
  BY <1>2, <1>3

\* A list without elements is empty.
LEMMA NobodyInLine ==
  ASSUME NEW line \in Seq(Paths), Elements(line) = {} PROVE line = <<>>
<1> SUFFICES ASSUME line # <<>> PROVE FALSE
  OBVIOUS
<1>1. 1 \in DOMAIN line
  BY EmptySeq, LenProperties
<1> QED
  BY <1>1 DEF Elements

\* empty() lets them join when nobody is ready.
LEMMA RefilledFollows ==
  ASSUME NEW q, Settled(q), Apart(q), NEW line, Follows(q, line)
  PROVE  \/ Refilled(q) = q /\ ~ (Ready(q) = {} /\ q.lazy # <<>>)
         \/ /\ line = <<>> /\ q.lazy # <<>>
            /\ Refilled(q).lazy = <<>> /\ Follows(Refilled(q), q.lazy)
<1>0. line \in Seq(Paths) /\ q.lazy \in Seq(Paths) /\ Elements(line) = Ready(q)
  BY DEF Follows, Settled, Sound, Object
<1>1. CASE DOMAIN q.queues = {} /\ q.lazy # <<>>
  <2>e. PICK e : e = [q EXCEPT !.min = LLONG_MAX]
    OBVIOUS
  <2>1. Object(q) /\ q.min = LLONG_MAX
    BY <1>1, LeastKeyOfEmpty DEF Settled, Sound
  <2>2. e = [queues |-> q.queues, min |-> q.min, lazy |-> q.lazy, method |-> q.method]
    BY <2>1, <2>e, FieldChanges
  <2>3. e = q
    BY <2>1, <2>2 DEF Object
  <2>4. Refilled(q) = Reinserted(q)
    BY <1>1, <2>e, <2>3 DEF Refilled
  <2>5. Follows(Reinserted(q), line \o q.lazy) /\ Reinserted(q).lazy = <<>>
    BY ReinsertedFollows, ReinsertedSound DEF Settled
  <2>6. line = <<>>
    <3>1. Elements(line) = {}
      BY <1>0, <1>1 DEF Ready
    <3> QED
      BY <1>0, <3>1, NobodyInLine
  <2>7. line \o q.lazy = q.lazy
    BY <1>0, <2>6, ConcatEmptySeq
  <2> QED
    BY <1>1, <2>4, <2>5, <2>6, <2>7
<1>2. CASE ~ (DOMAIN q.queues = {} /\ q.lazy # <<>>)
  <2>1. Refilled(q) = q
    BY <1>2 DEF Refilled
  <2>2. ASSUME DOMAIN q.queues # {} PROVE Ready(q) # {}
    <3>1. PICK k \in DOMAIN q.queues : TRUE
      BY <2>2
    <3>2. q.queues[k] \in Seq(Paths) /\ q.queues[k] # <<>>
      BY DEF Settled, Sound, Object, NoEmptyBucket
    <3>3. q.queues[k][1] \in Elements(q.queues[k])
      BY <3>2, EmptySeq, LenProperties DEF Elements
    <3> QED
      BY <3>3 DEF Ready
  <2> QED
    BY <1>2, <2>1, <2>2
<1> QED
  BY <1>1, <1>2

\* The path chosen and the rest of its bucket, with their places in the line.
LEMMA ChosenOrder ==
  ASSUME NEW method \in Methods, NEW list \in Seq(Paths), list # <<>>,
         NEW line, \A i, j \in DOMAIN list : i < j => Before(line, list[i], list[j])
  PROVE  /\ \A x \in Elements(Rest(method, list)) :
              IF method = "DepthFirst" THEN Before(line, x, Chosen(method, list))
                                       ELSE Before(line, Chosen(method, list), x)
         /\ \A i, j \in DOMAIN Rest(method, list) :
              i < j => Before(line, Rest(method, list)[i], Rest(method, list)[j])
<1>0. Len(list) \in Nat \ {0} /\ DOMAIN list = 1 .. Len(list)
  BY EmptySeq, LenProperties
<1>1. CASE method = "DepthFirst"
  <2>n. PICK n : n = Len(list) - 1
    OBVIOUS
  <2>r. PICK r : r = SubSeq(list, 1, n)
    OBVIOUS
  <2>1. Rest(method, list) = r /\ Chosen(method, list) = list[Len(list)]
    BY <1>1, <2>n, <2>r DEF Rest, Chosen
  <2>2. n \in Nat /\ \A i \in 1 .. n : list[i] \in Paths
    BY <1>0, <2>n, ElementOfSeq
  <2>3. /\ r \in Seq(Paths)
        /\ Len(r) = (IF 1 <= n THEN n - 1 + 1 ELSE 0)
        /\ \A i \in 1 .. n - 1 + 1 : r[i] = list[1 + i - 1]
    BY <2>2, <2>r, SubSeqProperties
  <2>4. DOMAIN r = 1 .. n /\ \A i \in 1 .. n : r[i] = list[i]
    <3>1. Len(r) = n
      BY <2>2, <2>3
    <3> QED
      BY <2>2, <2>3, <3>1, LenProperties
  <2>5. \A i \in DOMAIN r : i \in DOMAIN list /\ i < Len(list) /\ Len(list) \in DOMAIN list
    BY <1>0, <2>n, <2>4
  <2>6. \A x \in Elements(r) : Before(line, x, list[Len(list)])
    BY <2>4, <2>5 DEF Elements
  <2>7. \A i, j \in DOMAIN r : i < j => Before(line, r[i], r[j])
    BY <2>4, <2>5
  <2> QED
    BY <1>1, <2>1, <2>6, <2>7
<1>2. CASE method # "DepthFirst"
  <2>r. PICK r : r = Tail(list)
    OBVIOUS
  <2>1. Rest(method, list) = r /\ Chosen(method, list) = list[1]
    BY <1>0, <1>2, <2>r DEF Rest, Chosen
  <2>2. /\ r \in Seq(Paths)
        /\ Len(r) = Len(list) - 1
        /\ \A i \in 1 .. Len(r) : r[i] = list[i + 1]
    BY <2>r, HeadTailProperties
  <2>3. DOMAIN r = 1 .. Len(list) - 1 /\ \A i \in DOMAIN r : r[i] = list[i + 1]
    BY <2>2, LenProperties
  <2>4. /\ 1 \in DOMAIN list
        /\ \A i \in DOMAIN r : i + 1 \in DOMAIN list /\ 1 < i + 1
        /\ \A i, j \in DOMAIN r : i < j => i + 1 < j + 1
    BY <1>0, <2>3
  <2>5. \A x \in Elements(r) : Before(line, list[1], x)
    BY <2>3, <2>4 DEF Elements
  <2>6. \A i, j \in DOMAIN r : i < j => Before(line, r[i], r[j])
    BY <2>3, <2>4
  <2> QED
    BY <1>2, <2>1, <2>5, <2>6
<1> QED
  BY <1>1, <1>2

\* In a list with one of each, what stands before a path is another path, and has
\* the smaller index.
LEMMA BeforeIndex ==
  ASSUME NEW line \in Seq(Paths), OneOfEach(line)
  PROVE  /\ \A a : ~ Before(line, a, a)
         /\ \A i, j \in DOMAIN line : Before(line, line[i], line[j]) => i < j
<1>1. DOMAIN line = 1 .. Len(line) /\ Len(line) \in Nat
  BY LenProperties
<1>2. \A a : ~ Before(line, a, a)
  BY <1>1 DEF Before, OneOfEach
<1>3. \A i, j \in DOMAIN line : Before(line, line[i], line[j]) => i < j
  BY DEF Before, OneOfEach
<1> QED
  BY <1>2, <1>3

\* pop() takes the path that the line would serve, and the buckets follow the line
\* without it.  The level is over when its bucket is drained.
LEMMA TakenFollows ==
  ASSUME NEW q, Settled(q), NEW left, TakesOne(q, left), NEW line, Follows(q, line),
         NEW i \in DOMAIN line, line[i] = Chosen(q.method, q.queues[q.min])
  PROVE  /\ Follows(left, Promise!RemoveAt(line, i))
         /\ i \in Promise!Least(line)
         /\ \A j \in Promise!Least(line) : IF q.method = "DepthFirst" THEN j <= i ELSE i <= j
         /\ left.queues[q.min] = <<>> <=>
              \A j \in DOMAIN Promise!RemoveAt(line, i) :
                ICost(Promise!RemoveAt(line, i)[j]) # ICost(line[i])
<1>m. PICK m : m = q.min
  OBVIOUS
<1>list. PICK list : list = q.queues[m]
  OBVIOUS
<1>rest. PICK rest : rest = Rest(q.method, list)
  OBVIOUS
<1>c. PICK c : c = Chosen(q.method, list)
  OBVIOUS
<1>l. PICK l : l = Promise!RemoveAt(line, i)
  OBVIOUS
<1>0. line[i] = c
  BY <1>m, <1>list, <1>c
<1>1. Keyed(q) /\ q.method \in Methods /\ q.queues \in [DOMAIN q.queues -> Seq(Paths)]
      /\ DOMAIN q.queues \subseteq Keys
  BY DEF Settled, Sound, Object
<1>2. /\ m \in DOMAIN q.queues /\ \A j \in DOMAIN q.queues : m <= j
      /\ list \in Seq(Paths) /\ list # <<>>
      /\ DOMAIN left.queues = DOMAIN q.queues
      /\ left.queues[m] = rest
      /\ \A j \in DOMAIN q.queues \ {m} : left.queues[j] = q.queues[j]
  BY <1>m, <1>list, <1>rest DEF TakesOne
<1>3. /\ line \in Seq(Paths) /\ OneOfEach(line) /\ Elements(line) = Ready(q)
      /\ \A k \in DOMAIN q.queues : \A x, y \in DOMAIN q.queues[k] :
           x < y => Before(line, q.queues[k][x], q.queues[k][y])
  BY DEF Follows
<1>4. /\ c \in Paths /\ c \in Ready(q) /\ Ready(q) = Ready(left) \cup {c}
      /\ \A p \in Ready(q) : ICost(c) <= ICost(p)
  BY <1>m, <1>list, <1>c, TakenReady
<1>5. Elements(list) = Elements(rest) \cup {c} /\ rest \in Seq(Paths)
  BY <1>1, <1>2, <1>rest, <1>c, TakenElements, TakenFromList
<1>6. /\ \A x \in Elements(rest) :
           IF q.method = "DepthFirst" THEN Before(line, x, c) ELSE Before(line, c, x)
      /\ \A x, y \in DOMAIN rest : x < y => Before(line, rest[x], rest[y])
  <2>1. \A x, y \in DOMAIN list : x < y => Before(line, list[x], list[y])
    BY <1>2, <1>3, <1>list
  <2> QED
    BY <1>1, <1>2, <1>rest, <1>c, <2>1, ChosenOrder
<1>7. /\ \A j \in DOMAIN q.queues : \A x \in Elements(q.queues[j]) : ICost(x) = j
      /\ \A x : x \in Ready(q) <=> \E j \in DOMAIN q.queues : x \in Elements(q.queues[j])
      /\ \A x : x \in Ready(left) <=> \E j \in DOMAIN q.queues : x \in Elements(left.queues[j])
  BY <1>1, <1>2 DEF Keyed, Elements, Ready
<1>8. ICost(c) = m
  BY <1>2, <1>5, <1>7, <1>list
<1>9. c \notin Elements(rest)
  BY <1>3, <1>6, BeforeIndex
<1>10. c \notin Ready(left)
  BY <1>2, <1>7, <1>8, <1>9
<1>11. \A x \in Ready(left) : ICost(x) = m => x \in Elements(rest)
  BY <1>2, <1>4, <1>7
<1>12. /\ l \in Seq(Paths) /\ OneOfEach(l) /\ Elements(l) = Elements(line) \ {c}
       /\ \A a, b : Before(line, a, b) /\ a # c /\ b # c => Before(l, a, b)
  BY <1>0, <1>3, <1>l, RemovedOrder
<1>13. Elements(l) = Ready(left)
  BY <1>3, <1>4, <1>10, <1>12
<1>14. ASSUME NEW k \in DOMAIN left.queues, NEW x \in DOMAIN left.queues[k],
              NEW y \in DOMAIN left.queues[k], x < y
       PROVE  Before(l, left.queues[k][x], left.queues[k][y])
  <2>1. left.queues[k][x] \in Elements(left.queues[k])
        /\ left.queues[k][y] \in Elements(left.queues[k])
    BY DEF Elements
  <2>2. left.queues[k][x] # c /\ left.queues[k][y] # c
    BY <1>2, <1>7, <1>10, <2>1
  <2>3. Before(line, left.queues[k][x], left.queues[k][y])
    <3>1. CASE k = m
      BY <1>2, <1>6, <1>14, <3>1
    <3>2. CASE k # m
      BY <1>2, <1>3, <1>14, <3>2
    <3> QED
      BY <3>1, <3>2
  <2> QED
    BY <1>12, <2>2, <2>3
<1>15. Follows(left, l)
  BY <1>12, <1>13, <1>14 DEF Follows
<1>16. \A j \in DOMAIN line : line[j] \in Ready(q)
  BY <1>3 DEF Elements
<1>17. i \in Promise!Least(line)
  BY <1>0, <1>4, <1>16 DEF Promise!Least
<1>18. ASSUME NEW j \in Promise!Least(line)
       PROVE  IF q.method = "DepthFirst" THEN j <= i ELSE i <= j
  <2>1. j \in DOMAIN line /\ ICost(line[j]) <= ICost(line[i])
    BY DEF Promise!Least
  <2>2. ICost(line[j]) \in Int /\ m \in Int
    <3>1. line[j] \in Paths
      BY <1>3, <2>1, ElementOfSeq, LenProperties
    <3> QED
      BY <1>1, <1>2, <3>1, ICostType, CostAssumption DEF Keys
  <2>3. ICost(line[j]) = m
    BY <1>0, <1>4, <1>8, <1>16, <2>1, <2>2
  <2>4. i \in Int /\ j \in Int
    BY <1>3, <2>1, LenProperties
  <2>5. CASE line[j] = c
    BY <1>0, <1>3, <2>1, <2>4, <2>5 DEF OneOfEach
  <2>6. CASE line[j] # c
    <3>1. line[j] \in Elements(rest)
      BY <1>4, <1>11, <1>16, <2>1, <2>3, <2>6
    <3>2. IF q.method = "DepthFirst" THEN Before(line, line[j], line[i])
                                     ELSE Before(line, line[i], line[j])
      BY <1>0, <1>6, <3>1
    <3> QED
      BY <1>3, <2>1, <2>4, <3>2, BeforeIndex
  <2> QED
    BY <2>5, <2>6
<1>19. left.queues[m] = <<>> <=> \A j \in DOMAIN l : ICost(l[j]) # m
  <2>1. ASSUME rest = <<>>, NEW j \in DOMAIN l PROVE ICost(l[j]) # m
    <3>1. l[j] \in Ready(left)
      BY <1>13 DEF Elements
    <3>2. Elements(rest) = {}
      BY <2>1 DEF Elements
    <3> QED
      BY <1>11, <3>1, <3>2
  <2>2. ASSUME rest # <<>> PROVE \E j \in DOMAIN l : ICost(l[j]) = m
    <3>1. 1 \in DOMAIN rest
      BY <1>5, <2>2, EmptySeq, LenProperties
    <3>2. rest[1] \in Elements(rest) /\ rest[1] \in Elements(list)
      BY <1>5, <3>1 DEF Elements
    <3>3. ICost(rest[1]) = m
      BY <1>2, <1>7, <1>list, <3>2
    <3>4. rest[1] \in Elements(l)
      BY <1>2, <1>7, <1>13, <3>2
    <3> QED
      BY <3>3, <3>4 DEF Elements
  <2> QED
    BY <1>2, <2>1, <2>2
<1> QED
  BY <1>0, <1>8, <1>15, <1>17, <1>18, <1>19, <1>l, <1>m

\* When nothing waits, the lazy paths are apart from the others.
LEMMA NothingWaits ==
  ASSUME NEW q, q.lazy = <<>> PROVE Apart(q)
BY DEF Apart, OneOfEach, Waiting, Elements

\* The place in the line of the path that it serves next.
ServedAt(method, line, i) ==
  /\ i \in Promise!Least(line)
  /\ \A j \in Promise!Least(line) : IF method = "DepthFirst" THEN j <= i ELSE i <= j

LevelIsOver(line, i) ==
  \A j \in DOMAIN Promise!RemoveAt(line, i) :
    ICost(Promise!RemoveAt(line, i)[j]) # ICost(line[i])

\* pop() serves the line, whether the bucket of the least key is drained or not.
LEMMA ServedFollows ==
  ASSUME NEW q, Settled(q), Apart(q), NEW left, TakesOne(q, left),
         NEW line, Follows(q, line),
         NEW r, r = IF left.queues[q.min] = <<>> THEN Drained(left, q.min) ELSE left
  PROVE  \E i \in DOMAIN line :
           /\ line[i] = Chosen(q.method, q.queues[q.min])
           /\ ServedAt(q.method, line, i)
           /\ Apart(r) /\ r.method = q.method
           /\ IF LevelIsOver(line, i)
              THEN r.lazy = <<>> /\ Follows(r, Promise!RemoveAt(line, i) \o q.lazy)
              ELSE r.lazy = q.lazy /\ Follows(r, Promise!RemoveAt(line, i))
<1>c. PICK c : c = Chosen(q.method, q.queues[q.min])
  OBVIOUS
<1>1. c \in Ready(q) /\ Ready(q) = Ready(left) \cup {c} /\ Waiting(q) = Waiting(left)
  BY <1>c, TakenReady
<1>2. PICK i \in DOMAIN line : line[i] = c
  BY <1>1 DEF Follows, Elements
<1>l. PICK l : l = Promise!RemoveAt(line, i)
  OBVIOUS
<1>3. /\ Follows(left, l) /\ ServedAt(q.method, line, i)
      /\ left.queues[q.min] = <<>> <=> LevelIsOver(line, i)
  BY <1>2, <1>c, <1>l, TakenFollows DEF ServedAt, LevelIsOver
<1>4. Sound(left) /\ left.lazy = q.lazy /\ left.method = q.method
  BY DEF TakesOne
<1>5. Apart(left)
  BY <1>1, <1>4 DEF Apart
<1>6. CASE left.queues[q.min] = <<>>
  <2>1. r = Drained(left, q.min)
    BY <1>6
  <2>2. Follows(r, l \o q.lazy) /\ r.lazy = <<>>
    BY <1>3, <1>4, <1>5, <2>1, DrainedFollows
  <2>3. r.method = q.method
    BY <1>4, <2>1, ReinsertedSound DEF Drained
  <2> QED
    BY <1>2, <1>3, <1>6, <1>c, <1>l, <2>2, <2>3, NothingWaits
<1>7. CASE left.queues[q.min] # <<>>
  <2>1. r = left
    BY <1>7
  <2> QED
    BY <1>2, <1>3, <1>4, <1>5, <1>7, <1>c, <1>l, <2>1
<1> QED
  BY <1>6, <1>7

\* Who stands in line when pop() begins to serve, and who stays outside.
Present(q, line) == IF line = <<>> THEN q.lazy ELSE line
Later(q, line)   == IF line = <<>> THEN <<>> ELSE q.lazy

\* pop() serves that line.
LEMMA PoppedFollows ==
  ASSUME NEW q0, Settled(q0), Apart(q0), ~ IsEmpty(q0), NEW line, Follows(q0, line),
         NEW r, r = Popped(q0).pq
  PROVE  \E i \in DOMAIN Present(q0, line) :
           /\ Present(q0, line)[i] = Popped(q0).value
           /\ ServedAt(q0.method, Present(q0, line), i)
           /\ Apart(r) /\ r.method = q0.method
           /\ IF LevelIsOver(Present(q0, line), i)
              THEN /\ r.lazy = <<>>
                   /\ Follows(r, Promise!RemoveAt(Present(q0, line), i) \o Later(q0, line))
              ELSE /\ r.lazy = Later(q0, line)
                   /\ Follows(r, Promise!RemoveAt(Present(q0, line), i))
<1>q. PICK q : q = Refilled(q0)
  OBVIOUS
<1>p. PICK p : p = Present(q0, line)
  OBVIOUS
<1>1. Settled(q) /\ q.method = q0.method
  BY <1>q, RefilledSettled
<1>2. PICK left : /\ TakesOne(q, left)
                  /\ Popped(q0).value = Chosen(q.method, q.queues[q.min])
                  /\ r = IF left.queues[q.min] = <<>> THEN Drained(left, q.min) ELSE left
  BY <1>q, PopTakesOne
<1>3. Follows(q, p) /\ Apart(q) /\ q.lazy = Later(q0, line)
  <2>1. CASE Refilled(q0) = q0 /\ ~ (Ready(q0) = {} /\ q0.lazy # <<>>)
    <3>1. CASE line = <<>>
      <4>1. Ready(q0) = {}
        BY <3>1 DEF Follows, Elements
      <4>2. q0.lazy = <<>>
        BY <2>1, <4>1
      <4> QED
        BY <1>p, <1>q, <2>1, <3>1, <4>2 DEF Present, Later
    <3>2. CASE line # <<>>
      BY <1>p, <1>q, <2>1, <3>2 DEF Present, Later
    <3> QED
      BY <3>1, <3>2
  <2>2. CASE /\ line = <<>> /\ q0.lazy # <<>>
             /\ Refilled(q0).lazy = <<>> /\ Follows(Refilled(q0), q0.lazy)
    BY <1>p, <1>q, <2>2, NothingWaits DEF Present, Later
  <2> QED
    BY <2>1, <2>2, RefilledFollows
<1>4. PICK i \in DOMAIN p :
           /\ p[i] = Chosen(q.method, q.queues[q.min])
           /\ ServedAt(q.method, p, i)
           /\ Apart(r) /\ r.method = q.method
           /\ IF LevelIsOver(p, i)
              THEN r.lazy = <<>> /\ Follows(r, Promise!RemoveAt(p, i) \o q.lazy)
              ELSE r.lazy = q.lazy /\ Follows(r, Promise!RemoveAt(p, i))
  BY <1>1, <1>2, <1>3, ServedFollows
<1> QED
  BY <1>1, <1>2, <1>3, <1>4, <1>p

\* Taking a member out by name or by its place is the same.
LEMMA WithoutAt ==
  ASSUME NEW list \in Seq(Paths), OneOfEach(list), NEW i \in DOMAIN list
  PROVE  Without(list, list[i]) = Promise!RemoveAt(list, i)
<1>1. list[i] \in Elements(list)
  BY DEF Elements
<1>2. (CHOOSE j \in DOMAIN list : list[j] = list[i]) = i
  BY DEF OneOfEach
<1> QED
  BY <1>1, <1>2 DEF Without

-----------------------------------------------------------------------------
\* The line is the order of arrival, and the lazy paths are apart from it.
OrderInv == IInv /\ Follows(pq, arrival) /\ Apart(pq)

LEMMA InitOrder == HInit => OrderInv /\ Promise!Init
<1> SUFFICES ASSUME HInit PROVE OrderInv /\ Promise!Init
  OBVIOUS
<1>1. PICK m \in Methods : pq = NewQueue(m)
  BY DEF HInit, Init
<1>2. ret = NoPath /\ arrival = <<>>
  BY DEF HInit, Init
<1>3. pq.queues = [k \in {} |-> <<>>] /\ pq.lazy = <<>>
  BY <1>1 DEF NewQueue
<1>4. IInv
  BY InitIInv DEF HInit
<1>5. Follows(pq, arrival)
  <2>1. DOMAIN pq.queues = {}
    BY <1>3
  <2>2. Ready(pq) = {}
    BY <2>1 DEF Ready
  <2>3. arrival \in Seq(Paths) /\ OneOfEach(arrival) /\ Elements(arrival) = {}
    BY <1>2, EmptySeq DEF OneOfEach, Elements
  <2> QED
    BY <2>1, <2>2, <2>3 DEF Follows
<1>6. Apart(pq)
  BY <1>3, NothingWaits
<1>7. Promise!Init
  BY <1>2, <1>3 DEF Promise!Init
<1> QED
  BY <1>4, <1>5, <1>6, <1>7 DEF OrderInv

\* push() joins the line,
LEMMA PushJoins ==
  ASSUME OrderInv, NEW p \in Paths, HPush(p)
  PROVE  Follows(pq, arrival)' /\ Apart(pq)' /\ Promise!Join(p)
<1>0. Settled(pq) /\ Object(pq) /\ Follows(pq, arrival) /\ Apart(pq) /\ p \notin Held(pq)
  BY DEF OrderInv, IInv, Settled, Sound, HPush, Push
<1>1. pq' = Pushed(pq, p) /\ arrival' = Append(arrival, p) /\ ret' = ret
  BY DEF HPush, Push
<1>2. pq'.lazy = pq.lazy /\ pq'.method = pq.method
  BY <1>1 DEF Pushed
<1>3. p \notin Ready(pq) /\ p \notin Waiting(pq)
  BY <1>0 DEF Held
<1>4. Follows(pq', arrival')
  BY <1>0, <1>1, <1>3, PushedFollows
<1>5. Apart(pq')
  <2>1. Ready(pq') = Ready(pq) \cup {p}
    BY <1>0, <1>1, PushedReady
  <2>2. Waiting(pq') = Waiting(pq)
    BY <1>2 DEF Waiting
  <2> QED
    BY <1>0, <1>2, <1>3, <2>1, <2>2 DEF Apart
<1>6. Promise!Join(p)
  BY <1>1, <1>2 DEF Promise!Join
<1> QED
  BY <1>4, <1>5, <1>6

\* and pushLazy() stands outside.
LEMMA PushLazyJoinsLater ==
  ASSUME OrderInv, NEW p \in Paths, HPushLazy(p)
  PROVE  Follows(pq, arrival)' /\ Apart(pq)' /\ Promise!JoinLater(p)
<1>0. Object(pq) /\ Follows(pq, arrival) /\ Apart(pq) /\ p \notin Held(pq)
  BY DEF OrderInv, IInv, Settled, Sound, HPushLazy, PushLazy
<1>1. pq' = PushedLazy(pq, p) /\ arrival' = arrival /\ ret' = ret
  BY DEF HPushLazy, PushLazy
<1>lazy. PICK lazy : lazy = Append(pq.lazy, p)
  OBVIOUS
<1>2. pq' = [queues |-> pq.queues, min |-> pq.min, lazy |-> lazy, method |-> pq.method]
  BY <1>0, <1>1, <1>lazy, FieldChanges DEF PushedLazy
<1>3. pq'.queues = pq.queues /\ pq'.lazy = lazy /\ pq'.method = pq.method
  BY <1>2
<1>4. p \notin Ready(pq) /\ p \notin Waiting(pq)
  BY <1>0 DEF Held
<1>5. Ready(pq') = Ready(pq) /\ Waiting(pq') = Waiting(pq) \cup {p}
  BY <1>0, <1>1, PushedLazyHeld
<1>6. Follows(pq', arrival')
  BY <1>0, <1>1, <1>3, <1>5 DEF Follows
<1>7. Apart(pq')
  <2>1. pq.lazy \in Seq(Paths) /\ OneOfEach(pq.lazy) /\ p \notin Elements(pq.lazy)
    BY <1>0, <1>4 DEF Object, Apart, Waiting
  <2>2. OneOfEach(pq'.lazy)
    BY <1>3, <1>lazy, <2>1, AppendedOrder
  <2> QED
    BY <1>0, <1>4, <1>5, <2>2 DEF Apart
<1>8. Promise!JoinLater(p)
  BY <1>1, <1>3, <1>lazy DEF Promise!JoinLater
<1> QED
  BY <1>6, <1>7, <1>8

\* empty() lets everybody in, or changes nothing.
LEMMA EmptyLetsIn ==
  ASSUME OrderInv, HEmpty
  PROVE  /\ Follows(pq, arrival)' /\ Apart(pq)'
         /\ Promise!LetIn \/ UNCHANGED <<pq, ret, arrival>>
<1>0. Settled(pq) /\ Follows(pq, arrival) /\ Apart(pq)
  BY DEF OrderInv, IInv
<1>1. pq' = Refilled(pq) /\ arrival' = arrival \o Admitted /\ ret' = ret
  BY DEF HEmpty, Empty
<1>2. arrival \in Seq(Paths) /\ pq.lazy \in Seq(Paths)
  BY <1>0 DEF Follows, Settled, Sound, Object
<1>3. CASE Refilled(pq) = pq
  <2>1. Admitted = <<>>
    BY <1>1, <1>3 DEF Admitted
  <2>2. arrival' = arrival
    BY <1>1, <1>2, <2>1, ConcatEmptySeq
  <2> QED
    BY <1>0, <1>1, <1>3, <2>2
<1>4. CASE /\ arrival = <<>> /\ pq.lazy # <<>>
           /\ Refilled(pq).lazy = <<>> /\ Follows(Refilled(pq), pq.lazy)
  <2>1. Admitted = pq.lazy
    BY <1>1, <1>4 DEF Admitted
  <2>2. arrival' = pq.lazy
    BY <1>1, <1>2, <1>4, <2>1, ConcatEmptySeq
  <2>3. Follows(pq', arrival') /\ Apart(pq')
    BY <1>1, <1>4, <2>2, NothingWaits
  <2>4. pq'.method = pq.method
    BY <1>0, <1>1, RefilledSettled
  <2>5. Promise!LetIn
    BY <1>1, <1>4, <2>2, <2>4 DEF Promise!LetIn
  <2> QED
    BY <2>3, <2>5
<1> QED
  BY <1>0, <1>3, <1>4, RefilledFollows

\* clear() forgets them all.
LEMMA ClearForgets ==
  ASSUME OrderInv, HClear
  PROVE  Follows(pq, arrival)' /\ Apart(pq)' /\ Promise!Forget
<1>1. pq' = NewQueue(pq.method) /\ arrival' = <<>> /\ ret' = ret
  BY DEF HClear, Clear, Cleared
<1>2. pq'.queues = [k \in {} |-> <<>>] /\ pq'.lazy = <<>> /\ pq'.method = pq.method
  BY <1>1 DEF NewQueue
<1>3. Follows(pq', arrival')
  <2>1. DOMAIN pq'.queues = {}
    BY <1>2
  <2>2. Ready(pq') = {}
    BY <2>1 DEF Ready
  <2>3. arrival' \in Seq(Paths) /\ OneOfEach(arrival') /\ Elements(arrival') = {}
    BY <1>1, EmptySeq DEF OneOfEach, Elements
  <2> QED
    BY <2>1, <2>2, <2>3 DEF Follows
<1>4. Apart(pq')
  BY <1>2, NothingWaits
<1>5. Promise!Forget
  BY <1>1, <1>2 DEF Promise!Forget
<1> QED
  BY <1>3, <1>4, <1>5

\* The place served is the only one.
LEMMA ServedIsUnique ==
  ASSUME NEW line \in Seq(Paths), NEW i \in DOMAIN line, ServedAt(pq.method, line, i)
  PROVE  Promise!Served(line) = i
<1>1. \A j \in Promise!Least(line) : j \in Int
  BY LenProperties DEF Promise!Least
<1>2. /\ i \in Promise!Least(line)
      /\ \A j \in Promise!Least(line) :
           IF pq.method = "DepthFirst" THEN j <= i ELSE i <= j
  BY DEF ServedAt
<1>3. \A k \in Promise!Least(line) :
        (\A j \in Promise!Least(line) :
           IF pq.method = "DepthFirst" THEN j <= k ELSE k <= j) => k = i
  BY <1>1, <1>2
<1> QED
  BY <1>2, <1>3 DEF Promise!Served

\* What pop() makes of the line, in the terms of PriorityOrder.
LEMMA TakeFromLine ==
  ASSUME NEW present \in Seq(Paths), NEW later \in Seq(Paths),
         NEW i \in DOMAIN present, ServedAt(pq.method, present, i),
         ret' = present[i], pq'.method = pq.method,
         IF LevelIsOver(present, i)
         THEN arrival' = Promise!RemoveAt(present, i) \o later /\ pq'.lazy = <<>>
         ELSE arrival' = Promise!RemoveAt(present, i) /\ pq'.lazy = later
  PROVE  Promise!TakeFrom(present, later)
<1>1. Promise!Served(present) = i
  BY ServedIsUnique
<1> QED
  BY <1>1 DEF Promise!TakeFrom, LevelIsOver

\* pop() takes the path the line would serve.
LEMMA PopTakes ==
  ASSUME OrderInv, HPop
  PROVE  Follows(pq, arrival)' /\ Apart(pq)' /\ (Promise!Take \/ Promise!TakeNothing)
<1>0. Settled(pq) /\ Follows(pq, arrival) /\ Apart(pq)
  BY DEF OrderInv, IInv
<1>1. /\ pq' = Popped(pq).pq /\ ret' = Popped(pq).value
      /\ arrival' = Without(arrival \o Admitted, ret')
  BY DEF HPop, Pop
<1>2. arrival \in Seq(Paths) /\ pq.lazy \in Seq(Paths) /\ OneOfEach(arrival)
      /\ Elements(arrival) = Ready(pq)
  BY <1>0 DEF Follows, Settled, Sound, Object
<1>3. CASE IsEmpty(pq)
  <2>1. pq' = pq /\ ret' = NoPath
    BY <1>1, <1>3 DEF Popped
  <2>2. pq.lazy = <<>> /\ Ready(pq) = {}
    BY <1>3 DEF IsEmpty, Ready
  <2>3. arrival = <<>>
    BY <1>2, <2>2, NobodyInLine
  <2>4. arrival \o Admitted = <<>>
    <3>1. Admitted = <<>>
      BY <2>1, <2>2 DEF Admitted
    <3> QED
      BY <1>2, <2>3, <3>1, ConcatEmptySeq
  <2>5. arrival' = arrival
    <3>1. Elements(<<>>) = {}
      BY DEF Elements
    <3> QED
      BY <1>1, <2>3, <2>4, <3>1 DEF Without
  <2>6. Promise!TakeNothing
    BY <2>1, <2>2, <2>3, <2>5 DEF Promise!TakeNothing
  <2> QED
    BY <1>0, <2>1, <2>5, <2>6
<1>4. CASE ~ IsEmpty(pq)
  <2>p. PICK p : p = Present(pq, arrival)
    OBVIOUS
  <2>later. PICK later : later = Later(pq, arrival)
    OBVIOUS
  <2>1. PICK i \in DOMAIN p :
           /\ p[i] = ret'
           /\ ServedAt(pq.method, p, i)
           /\ Apart(pq') /\ pq'.method = pq.method
           /\ IF LevelIsOver(p, i)
              THEN pq'.lazy = <<>> /\ Follows(pq', Promise!RemoveAt(p, i) \o later)
              ELSE pq'.lazy = later /\ Follows(pq', Promise!RemoveAt(p, i))
    BY <1>0, <1>1, <1>4, <2>p, <2>later, PoppedFollows
  <2>2. p \in Seq(Paths) /\ later \in Seq(Paths)
    BY <1>2, <2>p, <2>later, EmptySeq DEF Present, Later
  <2>3. OneOfEach(arrival \o pq.lazy)
    BY <1>0, ReinsertedFollows DEF Settled, Follows
  <2>4. OneOfEach(pq.lazy)
    BY <1>0 DEF Apart
  <2>5. arrival' = IF LevelIsOver(p, i) THEN Promise!RemoveAt(p, i) \o later
                                        ELSE Promise!RemoveAt(p, i)
    <3>1. CASE arrival = <<>>
      <4>1. p = pq.lazy /\ later = <<>>
        BY <2>p, <2>later, <3>1 DEF Present, Later
      <4>2. pq'.lazy = <<>>
        BY <2>1, <4>1
      <4>3. arrival \o Admitted = p
        BY <1>2, <3>1, <4>1, <4>2, ConcatEmptySeq DEF Admitted
      <4>4. arrival' = Promise!RemoveAt(p, i)
        BY <1>1, <2>1, <2>2, <2>4, <4>1, <4>3, WithoutAt
      <4>5. Promise!RemoveAt(p, i) \o later = Promise!RemoveAt(p, i)
        BY <2>2, <4>1, RemovedIndices, ConcatEmptySeq
      <4> QED
        BY <4>4, <4>5
    <3>2. CASE arrival # <<>>
      <4>1. p = arrival /\ later = pq.lazy
        BY <2>p, <2>later, <3>2 DEF Present, Later
      <4>2. CASE LevelIsOver(p, i)
        <5>1. arrival \o Admitted = p \o later
          BY <2>1, <4>1, <4>2 DEF Admitted
        <5>2. /\ p \o later \in Seq(Paths) /\ i \in DOMAIN (p \o later)
              /\ (p \o later)[i] = p[i]
          <6>1. /\ p \o later \in Seq(Paths) /\ Len(p \o later) = Len(p) + Len(later)
                /\ \A j \in 1 .. Len(p) + Len(later) :
                     (p \o later)[j] = IF j <= Len(p) THEN p[j] ELSE later[j - Len(p)]
            BY <2>2, ConcatProperties
          <6>2. i \in 1 .. Len(p) /\ Len(p) \in Nat /\ Len(later) \in Nat
            BY <2>2, LenProperties
          <6>3. DOMAIN (p \o later) = 1 .. Len(p) + Len(later)
            BY <6>1, LenProperties
          <6> QED
            BY <6>1, <6>2, <6>3
        <5>3. Without(p \o later, (p \o later)[i]) = Promise!RemoveAt(p \o later, i)
          BY <2>3, <4>1, <5>2, WithoutAt
        <5>4. Promise!RemoveAt(p \o later, i) = Promise!RemoveAt(p, i) \o later
          BY <2>2, RemovedFromFirst
        <5> QED
          BY <1>1, <2>1, <4>2, <5>1, <5>2, <5>3, <5>4
      <4>3. CASE ~ LevelIsOver(p, i)
        <5>1. Admitted = <<>>
          BY <2>1, <4>1, <4>3 DEF Admitted
        <5>2. arrival \o Admitted = p
          BY <1>2, <4>1, <5>1, ConcatEmptySeq
        <5>3. Without(p, p[i]) = Promise!RemoveAt(p, i)
          BY <1>2, <4>1, WithoutAt
        <5> QED
          BY <1>1, <2>1, <4>3, <5>2, <5>3
      <4> QED
        BY <4>2, <4>3
    <3> QED
      BY <3>1, <3>2
  <2>6. Follows(pq', arrival')
    BY <2>1, <2>5
  <2>7. Promise!TakeFrom(p, later)
    BY <2>1, <2>2, <2>5, TakeFromLine
  <2>8. Promise!Take
    <3>1. CASE arrival # <<>>
      BY <2>7, <2>p, <2>later, <3>1 DEF Promise!Take, Present, Later
    <3>2. CASE arrival = <<>>
      <4>1. pq.lazy # <<>>
        BY <2>2, <2>p, <3>2, EmptySeq, LenProperties DEF Present
      <4> QED
        BY <2>7, <2>p, <2>later, <3>2, <4>1 DEF Promise!Take, Present, Later
    <3> QED
      BY <3>1, <3>2
  <2> QED
    BY <2>1, <2>6, <2>8
<1> QED
  BY <1>3, <1>4

\* Every step keeps the line and is a step of PriorityOrder, or changes nothing.
LEMMA NextOrder ==
  OrderInv /\ [HNext]_<<vars, arrival>>
    => OrderInv' /\ [Promise!Next]_(Promise!abstractVars)
<1> SUFFICES ASSUME OrderInv, [HNext]_<<vars, arrival>>
             PROVE  OrderInv' /\ [Promise!Next]_(Promise!abstractVars)
  OBVIOUS
<1>1. IInv'
  <2>1. [Next]_vars
    BY DEF HNext, HPush, HPushLazy, HEmpty, HPop, HClear, Next, vars
  <2> QED
    BY <2>1, NextIInv DEF OrderInv
<1>2. ASSUME NEW p \in Paths, HPush(p)
      PROVE  Follows(pq, arrival)' /\ Apart(pq)' /\ Promise!Next
  BY <1>2, PushJoins DEF Promise!Next
<1>3. ASSUME NEW p \in Paths, HPushLazy(p)
      PROVE  Follows(pq, arrival)' /\ Apart(pq)' /\ Promise!Next
  BY <1>3, PushLazyJoinsLater DEF Promise!Next
<1>4. CASE HEmpty
  <2>1. /\ Follows(pq, arrival)' /\ Apart(pq)'
        /\ Promise!LetIn \/ UNCHANGED <<pq, ret, arrival>>
    BY <1>4, EmptyLetsIn
  <2>2. UNCHANGED <<pq, ret, arrival>> => UNCHANGED Promise!abstractVars
    BY DEF Promise!abstractVars
  <2> QED
    BY <1>1, <2>1, <2>2 DEF Promise!Next, OrderInv
<1>5. CASE HPop
  BY <1>1, <1>5, PopTakes DEF Promise!Next, OrderInv
<1>6. CASE HClear
  BY <1>1, <1>6, ClearForgets DEF Promise!Next, OrderInv
<1>7. CASE UNCHANGED <<vars, arrival>>
  BY <1>1, <1>7 DEF vars, OrderInv, Follows, Apart, Ready, Waiting, Promise!abstractVars
<1> QED
  BY <1>1, <1>2, <1>3, <1>4, <1>5, <1>6, <1>7 DEF HNext, OrderInv

\* The bucketed queue with its cached minimum behaves as one line of paths served
\* by level and order of arrival.
THEOREM ServesAsPromised == HSpec => ServesInOrder
BY InitOrder, NextOrder, PTL DEF HSpec, ServesInOrder, Promise!Spec
-----------------------------------------------------------------------------
(***************************************************************************)
(* How many paths the object holds, those that are equal counted apart:    *)
(* the positions of its buckets and of the lazy list.                      *)
(***************************************************************************)
\* The positions of the buckets.
Slots(q) == {s \in Int \X Nat : s[1] \in DOMAIN q.queues /\ s[2] \in DOMAIN q.queues[s[1]]}

Counted(q) == Sound(q) /\ IsFiniteSet(Slots(q))

Stored(q) == Cardinality(Slots(q)) + Len(q.lazy)

\* The keys and positions of a sound object.
LEMMA SlotTypes ==
  ASSUME NEW q, Sound(q)
  PROVE  /\ q.lazy \in Seq(Paths) /\ Len(q.lazy) \in Nat
         /\ DOMAIN q.queues \subseteq Int
         /\ \A k \in DOMAIN q.queues : /\ q.queues[k] \in Seq(Paths)
                                       /\ Len(q.queues[k]) \in Nat
                                       /\ DOMAIN q.queues[k] = 1 .. Len(q.queues[k])
<1>1. /\ q.lazy \in Seq(Paths) /\ DOMAIN q.queues \subseteq Keys
      /\ q.queues \in [DOMAIN q.queues -> Seq(Paths)]
  BY DEF Sound, Object
<1>2. Keys \subseteq Int
  BY CostAssumption DEF Keys
<1>3. \A list \in Seq(Paths) : Len(list) \in Nat /\ DOMAIN list = 1 .. Len(list)
  BY LenProperties
<1> QED
  BY <1>1, <1>2, <1>3

\* The lazy list alone has no part in the positions of the buckets.
LEMMA SameSlots ==
  ASSUME NEW q, NEW r, r.queues = q.queues
  PROVE  Slots(r) = Slots(q)
BY DEF Slots

\* How many there are is a natural number.
LEMMA StoredType ==
  ASSUME NEW q, Settled(q), IsFiniteSet(Slots(q))
  PROVE  Stored(q) \in Nat
<1>1. Cardinality(Slots(q)) \in Nat /\ Len(q.lazy) \in Nat
  BY FS_CardinalityType, SlotTypes DEF Settled
<1> QED
  BY <1>1 DEF Stored

\* push() adds one position: the last of the bucket.
LEMMA PushedSlots ==
  ASSUME NEW q, Sound(q), NEW p \in Paths
  PROVE  \E s : s \notin Slots(q) /\ Slots(Pushed(q, p)) = Slots(q) \cup {s}
<1>k. PICK k : k = ICost(p)
  OBVIOUS
<1>b. PICK b : b = Bucket(q.queues, k)
  OBVIOUS
<1>map. PICK map : map = Store(q.queues, k, Append(b, p))
  OBVIOUS
<1>D. PICK D : D = DOMAIN q.queues
  OBVIOUS
<1>1. Object(q) /\ k \in Int
  BY <1>k, ICostType, CostAssumption DEF Sound, Keys
<1>2. Pushed(q, p).queues = map /\ b \in Seq(Paths)
  BY <1>1, <1>k, <1>b, <1>map, PushedFields
<1>3. /\ Len(b) \in Nat /\ DOMAIN b = 1 .. Len(b)
      /\ DOMAIN Append(b, p) = 1 .. Len(b) + 1
  <2>1. Append(b, p) \in Seq(Paths) /\ Len(Append(b, p)) = Len(b) + 1
    BY <1>2, AppendProperties
  <2> QED
    BY <1>2, <2>1, LenProperties
<1>4. /\ D \subseteq Int /\ DOMAIN map = D \cup {k} /\ map[k] = Append(b, p)
      /\ \A j \in D \ {k} : map[j] = q.queues[j]
  BY <1>D, <1>map, SlotTypes DEF Store
<1>5. IF k \in D THEN b = q.queues[k] ELSE b = <<>>
  BY <1>b, <1>D DEF Bucket
<1>6. \A s \in Int \X Nat : s \in Slots(q) <=>
        s[1] \in D /\ (IF s[1] = k THEN s[2] \in 1 .. Len(b) ELSE s[2] \in DOMAIN q.queues[s[1]])
  BY <1>3, <1>5, <1>D DEF Slots
<1>7. \A s \in Int \X Nat : s \in Slots(Pushed(q, p)) <=>
        /\ s[1] \in D \cup {k}
        /\ IF s[1] = k THEN s[2] \in 1 .. Len(b) + 1 ELSE s[2] \in DOMAIN q.queues[s[1]]
  BY <1>2, <1>3, <1>4 DEF Slots
<1>8. <<k, Len(b) + 1>> \in Int \X Nat /\ Slots(q) \subseteq Int \X Nat
      /\ Slots(Pushed(q, p)) \subseteq Int \X Nat
  BY <1>1, <1>3 DEF Slots
<1>9. <<k, Len(b) + 1>> \notin Slots(q)
  BY <1>3, <1>6, <1>8
<1>10. \A s \in Int \X Nat :
         s \in Slots(Pushed(q, p)) <=> s \in Slots(q) \/ s = <<k, Len(b) + 1>>
  <2> SUFFICES ASSUME NEW i \in Int, NEW n \in Nat
               PROVE  <<i, n>> \in Slots(Pushed(q, p)) <=>
                        <<i, n>> \in Slots(q) \/ <<i, n>> = <<k, Len(b) + 1>>
    OBVIOUS
  <2>1. CASE i # k
    BY <1>6, <1>7, <2>1
  <2>2. CASE i = k /\ k \in D
    <3>1. n \in 1 .. Len(b) + 1 <=> n \in 1 .. Len(b) \/ n = Len(b) + 1
      BY <1>3
    <3> QED
      BY <1>6, <1>7, <2>2, <3>1
  <2>3. CASE i = k /\ k \notin D
    <3>1. n \in 1 .. Len(b) + 1 <=> n = Len(b) + 1
      BY <1>3, <1>5, <2>3
    <3> QED
      BY <1>6, <1>7, <2>3, <3>1
  <2> QED
    BY <2>1, <2>2, <2>3
<1> QED
  BY <1>8, <1>9, <1>10

\* So it adds one path.
LEMMA PushedCount ==
  ASSUME NEW q, Counted(q), NEW p \in Paths
  PROVE  /\ Counted(Pushed(q, p))
         /\ Cardinality(Slots(q)) \in Nat
         /\ Cardinality(Slots(Pushed(q, p))) = Cardinality(Slots(q)) + 1
         /\ Stored(Pushed(q, p)) = Stored(q) + 1
<1>1. PICK s : s \notin Slots(q) /\ Slots(Pushed(q, p)) = Slots(q) \cup {s}
  BY PushedSlots DEF Counted
<1>2. /\ IsFiniteSet(Slots(Pushed(q, p)))
      /\ Cardinality(Slots(Pushed(q, p))) = Cardinality(Slots(q)) + 1
  BY <1>1, FS_AddElement DEF Counted
<1>3. Sound(Pushed(q, p)) /\ Pushed(q, p).lazy = q.lazy
  BY PushedSound DEF Counted
<1>4. Cardinality(Slots(q)) \in Nat /\ Len(q.lazy) \in Nat
  BY FS_CardinalityType, SlotTypes DEF Counted
<1> QED
  BY <1>2, <1>3, <1>4 DEF Counted, Stored

\* After n pushes of useLazyArray() there are n positions more.
LEMMA InsertionsCount ==
  ASSUME NEW q, Counted(q)
  PROVE  \A N \in 0 .. Len(q.lazy) :
           /\ Counted(Insertions(q)[N])
           /\ Cardinality(Slots(Insertions(q)[N])) = Cardinality(Slots(q)) + N
<1>0. q.lazy \in Seq(Paths) /\ Len(q.lazy) \in Nat /\ Sound(q) /\ Cardinality(Slots(q)) \in Nat
  BY SlotTypes, FS_CardinalityType DEF Counted
<1> DEFINE S == {n \in Nat : /\ Counted(Insertions(q)[n])
                             /\ Cardinality(Slots(Insertions(q)[n])) = Cardinality(Slots(q)) + n}
<1>1. 0 \in S
  BY <1>0, InsertionsDef
<1>2. ASSUME NEW n \in 0 .. Len(q.lazy) - 1, n \in S PROVE n + 1 \in S
  <2>1. n \in 0 .. Len(q.lazy) /\ n + 1 \in 1 .. Len(q.lazy) /\ n + 1 \in Nat /\ (n + 1) - 1 = n
    BY <1>0
  <2>2. Insertions(q)[n + 1] = Pushed(Insertions(q)[n], q.lazy[n + 1])
    BY <1>0, <2>1, InsertionsDef
  <2>3. q.lazy[n + 1] \in Paths
    BY <1>0, <2>1, ElementOfSeq
  <2>4. /\ Counted(Insertions(q)[n])
        /\ Cardinality(Slots(Insertions(q)[n])) = Cardinality(Slots(q)) + n
    BY <1>2
  <2>5. /\ Counted(Insertions(q)[n + 1])
        /\ Cardinality(Slots(Insertions(q)[n + 1])) = Cardinality(Slots(Insertions(q)[n])) + 1
    BY <2>2, <2>3, <2>4, PushedCount
  <2>6. Cardinality(Slots(q)) + n + 1 = Cardinality(Slots(q)) + (n + 1)
    BY <1>0, <2>1
  <2> QED
    BY <2>1, <2>4, <2>5, <2>6
<1> HIDE DEF S
<1>3. \A n \in 0 .. Len(q.lazy) : n \in S
  BY <1>0, <1>1, <1>2, UpTo
<1> QED
  BY <1>3 DEF S

\* The lazy paths are moved, none is lost or doubled.
LEMMA ReinsertedCount ==
  ASSUME NEW q, Counted(q)
  PROVE  Counted(Reinserted(q)) /\ Stored(Reinserted(q)) = Stored(q)
<1>r. PICK r : r = Insertions(q)[Len(q.lazy)]
  OBVIOUS
<1>1. Reinserted(q).queues = r.queues /\ Reinserted(q).lazy = <<>>
  BY <1>r DEF Reinserted
<1>2. Len(q.lazy) \in 0 .. Len(q.lazy) /\ Sound(q)
  BY SlotTypes DEF Counted
<1>3. Counted(r) /\ Cardinality(Slots(r)) = Cardinality(Slots(q)) + Len(q.lazy)
  BY <1>r, <1>2, InsertionsCount
<1>4. Slots(Reinserted(q)) = Slots(r)
  BY <1>1, SameSlots
<1>5. Sound(Reinserted(q))
  BY <1>2, ReinsertedSound
<1>6. Cardinality(Slots(q)) \in Nat /\ Len(q.lazy) \in Nat
  BY <1>2, FS_CardinalityType, SlotTypes DEF Counted
<1>7. Len(<<>>) = 0
  BY EmptySeq
<1>8. Stored(Reinserted(q)) = Cardinality(Slots(q)) + Len(q.lazy) + 0
  BY <1>1, <1>3, <1>4, <1>7 DEF Stored
<1> QED
  BY <1>3, <1>4, <1>5, <1>6, <1>8 DEF Counted, Stored

\* empty() neither.
LEMMA RefilledCount ==
  ASSUME NEW q, Settled(q), IsFiniteSet(Slots(q))
  PROVE  Counted(Refilled(q)) /\ Stored(Refilled(q)) = Stored(q)
<1>1. Counted(q)
  BY DEF Settled, Counted
<1>2. CASE DOMAIN q.queues = {} /\ q.lazy # <<>>
  <2>1. Object(q) /\ q.min = LLONG_MAX
    BY <1>2, LeastKeyOfEmpty DEF Settled, Sound
  <2>2. [q EXCEPT !.min = LLONG_MAX] = q
    <3>1. [q EXCEPT !.min = LLONG_MAX] =
            [queues |-> q.queues, min |-> q.min, lazy |-> q.lazy, method |-> q.method]
      BY <2>1, FieldChanges
    <3>2. q = [queues |-> q.queues, min |-> q.min, lazy |-> q.lazy, method |-> q.method]
      BY <2>1 DEF Object
    <3> QED
      BY ONLY <3>1, <3>2
  <2>3. Refilled(q) = Reinserted(q)
    BY <1>2, <2>2 DEF Refilled
  <2> QED
    BY <1>1, <2>3, ReinsertedCount
<1>3. CASE ~ (DOMAIN q.queues = {} /\ q.lazy # <<>>)
  BY <1>1, <1>3 DEF Refilled
<1> QED
  BY <1>2, <1>3

\* pushLazy() adds one path, which waits.
LEMMA PushedLazyCount ==
  ASSUME NEW q, Settled(q), IsFiniteSet(Slots(q)), NEW p \in Paths
  PROVE  /\ Slots(PushedLazy(q, p)) = Slots(q)
         /\ Stored(PushedLazy(q, p)) = Stored(q) + 1
<1>1. PushedLazy(q, p).queues = q.queues /\ PushedLazy(q, p).lazy = Append(q.lazy, p)
  <2>1. Object(q)
    BY DEF Settled, Sound
  <2>x. PICK x : x = Append(q.lazy, p)
    OBVIOUS
  <2>2. PushedLazy(q, p) = [queues |-> q.queues, min |-> q.min, lazy |-> x, method |-> q.method]
    BY <2>1, <2>x, FieldChanges DEF PushedLazy
  <2> QED
    BY <2>2, <2>x
<1>2. Sound(q)
  BY DEF Settled
<1>3. q.lazy \in Seq(Paths) /\ Len(q.lazy) \in Nat /\ Cardinality(Slots(q)) \in Nat
  BY <1>2, SlotTypes, FS_CardinalityType
<1>4. Len(Append(q.lazy, p)) = Len(q.lazy) + 1
  BY <1>3, AppendProperties
<1>5. Slots(PushedLazy(q, p)) = Slots(q)
  BY <1>1, SameSlots
<1> QED
  BY <1>1, <1>3, <1>4, <1>5 DEF Stored

\* The bucket that pop() erases once it is drained has no position.
LEMMA DrainedCount ==
  ASSUME NEW q, Counted(q), NEW m
  PROVE  /\ IsFiniteSet(Slots(Drained(q, m)))
         /\ Stored(Drained(q, m)) = Stored(q)
<1>r. PICK r : r = Reinserted(q)
  OBVIOUS
<1>1. Counted(r) /\ Stored(r) = Stored(q)
  BY <1>r, ReinsertedCount
<1>2. CASE r.queues[m] # <<>>
  BY <1>r, <1>1, <1>2 DEF Drained, Counted
<1>3. CASE r.queues[m] = <<>>
  <2>1. Drained(q, m).queues = Erase(r.queues, m) /\ Drained(q, m).lazy = r.lazy
    BY <1>r, <1>3 DEF Drained
  <2>2. /\ DOMAIN Erase(r.queues, m) = DOMAIN r.queues \ {m}
        /\ \A j \in DOMAIN r.queues \ {m} : Erase(r.queues, m)[j] = r.queues[j]
    BY DEF Erase
  <2>3. DOMAIN r.queues[m] = {}
    BY <1>3, EmptySeq
  <2>4. Slots(Drained(q, m)) = Slots(r)
    <3>1. \A s \in Int \X Nat : s \in Slots(Drained(q, m)) <=> s \in Slots(r)
      BY <2>1, <2>2, <2>3 DEF Slots
    <3>2. Slots(Drained(q, m)) \subseteq Int \X Nat /\ Slots(r) \subseteq Int \X Nat
      BY DEF Slots
    <3> QED
      BY <3>1, <3>2
  <2> QED
    BY <1>1, <2>1, <2>4 DEF Counted, Stored
<1> QED
  BY <1>2, <1>3

\* What pop_queue() leaves of a bucket is one path shorter.
LEMMA RestLength ==
  ASSUME NEW method \in Methods, NEW list \in Seq(Paths), list # <<>>
  PROVE  /\ Len(list) \in Nat \ {0}
         /\ DOMAIN Rest(method, list) = 1 .. Len(list) - 1
<1>1. Len(list) \in Nat \ {0} /\ DOMAIN list = 1 .. Len(list)
  BY EmptySeq, LenProperties
<1>2. CASE method = "DepthFirst"
  <2>1. Rest(method, list) = SubSeq(list, 1, Len(list) - 1)
    BY <1>2 DEF Rest
  <2>2. \A i \in 1 .. Len(list) - 1 : list[i] \in Paths
    BY <1>1, ElementOfSeq
  <2>3. /\ SubSeq(list, 1, Len(list) - 1) \in Seq(Paths)
        /\ Len(SubSeq(list, 1, Len(list) - 1)) = Len(list) - 1
    BY <1>1, <2>2, SubSeqProperties
  <2> QED
    BY <1>1, <2>1, <2>3, LenProperties
<1>3. CASE method # "DepthFirst"
  <2>1. Rest(method, list) = Tail(list)
    BY <1>3 DEF Rest
  <2>2. Tail(list) \in Seq(Paths) /\ Len(Tail(list)) = Len(list) - 1
    BY HeadTailProperties
  <2> QED
    BY <1>1, <2>1, <2>2, LenProperties
<1> QED
  BY <1>2, <1>3

\* pop_queue() takes one position away: the last of the bucket.
LEMMA TakenCount ==
  ASSUME NEW q, Settled(q), IsFiniteSet(Slots(q)), NEW left, TakesOne(q, left)
  PROVE  Counted(left) /\ Stored(q) \in Nat /\ Stored(left) = Stored(q) - 1
<1>m. PICK m : m = q.min
  OBVIOUS
<1>n. PICK n : n = Len(q.queues[m])
  OBVIOUS
<1>D. PICK D : D = DOMAIN q.queues
  OBVIOUS
<1>1. /\ Sound(left) /\ left.lazy = q.lazy /\ m \in D /\ DOMAIN left.queues = D
      /\ q.queues[m] \in Seq(Paths) /\ q.queues[m] # <<>>
      /\ left.queues[m] = Rest(q.method, q.queues[m])
      /\ \A j \in D \ {m} : left.queues[j] = q.queues[j]
  BY <1>m, <1>D DEF TakesOne
<1>2. q.method \in Methods /\ Sound(q)
  BY DEF Settled, Sound, Object
<1>3. n \in Nat \ {0} /\ DOMAIN q.queues[m] = 1 .. n /\ DOMAIN left.queues[m] = 1 .. n - 1
  BY <1>n, <1>1, <1>2, RestLength, LenProperties
<1>4. D \subseteq Int
  BY <1>D, <1>2, SlotTypes
<1>5. \A s \in Int \X Nat : s \in Slots(q) <=>
        s[1] \in D /\ (IF s[1] = m THEN s[2] \in 1 .. n ELSE s[2] \in DOMAIN q.queues[s[1]])
  BY <1>3, <1>D DEF Slots
<1>6. \A s \in Int \X Nat : s \in Slots(left) <=>
        s[1] \in D /\ (IF s[1] = m THEN s[2] \in 1 .. n - 1 ELSE s[2] \in DOMAIN q.queues[s[1]])
  BY <1>1, <1>3 DEF Slots
<1>7. /\ <<m, n>> \in Int \X Nat
      /\ Slots(q) \subseteq Int \X Nat /\ Slots(left) \subseteq Int \X Nat
  BY <1>1, <1>3, <1>4 DEF Slots
<1>8. \A s \in Int \X Nat : s \in Slots(left) <=> s \in Slots(q) /\ s # <<m, n>>
  <2> SUFFICES ASSUME NEW i \in Int, NEW x \in Nat
               PROVE  <<i, x>> \in Slots(left) <=> <<i, x>> \in Slots(q) /\ <<i, x>> # <<m, n>>
    OBVIOUS
  <2>1. x \in 1 .. n - 1 <=> x \in 1 .. n /\ x # n
    BY <1>3
  <2> QED
    BY <1>5, <1>6, <2>1
<1>9. <<m, n>> \in Slots(q) /\ Slots(left) = Slots(q) \ {<<m, n>>}
  BY <1>1, <1>3, <1>5, <1>7, <1>8
<1>10. /\ IsFiniteSet(Slots(left))
       /\ Cardinality(Slots(left)) = Cardinality(Slots(q)) - 1
       /\ Cardinality(Slots(q)) \in Nat
  BY <1>9, FS_RemoveElement, FS_CardinalityType
<1>11. Len(q.lazy) \in Nat
  BY <1>2, SlotTypes
<1> QED
  BY <1>1, <1>10, <1>11 DEF Counted, Stored

\* pop() takes exactly one path out of an object that is not empty.
LEMMA PoppedCount ==
  ASSUME NEW q, Settled(q), IsFiniteSet(Slots(q)), ~ IsEmpty(q)
  PROVE  /\ IsFiniteSet(Slots(Popped(q).pq))
         /\ Stored(q) \in Nat /\ Stored(Popped(q).pq) = Stored(q) - 1
<1>f. PICK f : f = Refilled(q)
  OBVIOUS
<1>1. PICK left :
        /\ TakesOne(f, left)
        /\ Popped(q).pq = IF left.queues[f.min] = <<>> THEN Drained(left, f.min) ELSE left
  BY <1>f, PopTakesOne
<1>2. Settled(f)
  BY <1>f, PopTakesOne
<1>3. IsFiniteSet(Slots(f)) /\ Stored(f) = Stored(q)
  BY <1>f, RefilledCount DEF Counted
<1>4. Counted(left) /\ Stored(f) \in Nat /\ Stored(left) = Stored(f) - 1
  BY <1>1, <1>2, <1>3, TakenCount
<1>5. IsFiniteSet(Slots(Drained(left, f.min))) /\ Stored(Drained(left, f.min)) = Stored(left)
  BY <1>4, DrainedCount
<1> QED
  BY <1>1, <1>3, <1>4, <1>5 DEF Counted

\* A new or cleared object holds none.
LEMMA NewCount ==
  ASSUME NEW m
  PROVE  IsFiniteSet(Slots(NewQueue(m))) /\ Stored(NewQueue(m)) = 0
<1>1. DOMAIN NewQueue(m).queues = {} /\ NewQueue(m).lazy = <<>>
  BY DEF NewQueue
<1>2. Slots(NewQueue(m)) = {}
  BY <1>1 DEF Slots
<1> QED
  BY <1>1, <1>2, FS_EmptySet, EmptySeq DEF Stored

\* The number of paths held, call by call.
CountKept ==
  /\ \A p \in Paths : Push(p) \/ PushLazy(p) => Stored(pq)' = Stored(pq) + 1
  /\ Empty => Stored(pq)' = Stored(pq)
  /\ Pop => Stored(pq)' = IF IsEmpty(pq) THEN Stored(pq) ELSE Stored(pq) - 1
  /\ Clear => Stored(pq)' = 0

CountInv == IInv /\ IsFiniteSet(Slots(pq))

\* A path that is pushed is held until one pop() takes it or clear() drops all: through
\* buckets that are drained and erased and lazy paths that are let in, none is lost and
\* none is served twice, even if paths are equal.
THEOREM EachPathCounts == Spec => [][CountKept]_vars
<1>1. Init => CountInv
  BY InitIInv, NewCount DEF Init, CountInv
<1>2. ASSUME CountInv, [Next]_vars PROVE CountInv' /\ [CountKept]_vars
  <2>1. IInv' /\ Settled(pq) /\ IsFiniteSet(Slots(pq)) /\ Counted(pq)
    BY <1>2, NextIInv DEF CountInv, IInv, Settled, Counted
  <2>2. ASSUME NEW p \in Paths, pq' = Pushed(pq, p)
        PROVE  IsFiniteSet(Slots(pq)') /\ Stored(pq)' = Stored(pq) + 1
    <3>1. Counted(Pushed(pq, p)) /\ Stored(Pushed(pq, p)) = Stored(pq) + 1
      BY <2>1, PushedCount
    <3> QED
      BY <2>2, <3>1 DEF Counted
  <2>3. ASSUME NEW p \in Paths, pq' = PushedLazy(pq, p)
        PROVE  IsFiniteSet(Slots(pq)') /\ Stored(pq)' = Stored(pq) + 1
    BY <2>1, <2>3, PushedLazyCount
  <2>4. ASSUME pq' = Refilled(pq)
        PROVE  IsFiniteSet(Slots(pq)') /\ Stored(pq)' = Stored(pq)
    BY <2>1, <2>4, RefilledCount DEF Counted
  <2>5. ASSUME pq' = Popped(pq).pq
        PROVE  /\ IsFiniteSet(Slots(pq)')
               /\ Stored(pq)' = IF IsEmpty(pq) THEN Stored(pq) ELSE Stored(pq) - 1
    <3>1. CASE IsEmpty(pq)
      BY <2>1, <2>5, <3>1 DEF Popped
    <3>2. CASE ~ IsEmpty(pq)
      BY <2>1, <2>5, <3>2, PoppedCount
    <3> QED
      BY <3>1, <3>2
  <2>6. ASSUME pq' = Cleared(pq)
        PROVE  IsFiniteSet(Slots(pq)') /\ Stored(pq)' = 0
    BY <2>6, NewCount DEF Cleared
  <2>7. CountKept
    BY <2>2, <2>3, <2>4, <2>5, <2>6 DEF CountKept, Push, PushLazy, Empty, Pop, Clear
  <2>8. IsFiniteSet(Slots(pq)')
    <3>1. CASE Next
      BY <2>2, <2>3, <2>4, <2>5, <2>6, <3>1 DEF Next, Push, PushLazy, Empty, Pop, Clear
    <3>2. CASE UNCHANGED vars
      BY <2>1, <3>2 DEF vars
    <3> QED
      BY <1>2, <3>1, <3>2
  <2> QED
    BY <2>1, <2>7, <2>8 DEF CountInv
<1> QED
  BY <1>1, <1>2, PTL DEF Spec
=============================================================================
