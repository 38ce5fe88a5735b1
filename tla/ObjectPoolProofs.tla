---------------------------- MODULE ObjectPoolProofs ----------------------------
(***************************************************************************)
(* Proofs that reference counts are exact, that nothing in use is recycled *)
(* or deleted, that the pool holds clean objects once each, that nothing   *)
(* dies twice and that nothing is forgotten, for any number of objects,    *)
(* handles and threads, any sizes of the pool, and every way to obtain     *)
(* objects except a delegate that returns `new T`; and that no thread is   *)
(* ever locked out.                                                        *)
(***************************************************************************)
EXTENDS ObjectPool, FiniteSetTheorems, SequenceTheorems, TLAPS

Deaths == {"clear", "recycle", "push", "delete"}

\* A thread is between the reference that create() took to o and its hand-over.
InHand(t, o) == hand[t] = o /\ pc[t] \in {"deliver", "unshare"}

\* Who is in a critical section, and what the sections rely on.
Locked ==
  \A t \in Threads :
    /\ mutex = t <=> pc[t] \in {"take", "push", "drain"}
    /\ pc[t] = "take" => pool # <<>> /\ hand[t] = pool[1]
    /\ pc[t] = "push" => \E n \in Sizes : Len(pool) < n

\* The object in a hand, which is nobody else's before it is delivered.
Handed ==
  \A t \in Threads :
    /\ pc[t] \in {"deliver", "unshare"} => hand[t] \in Objects
    /\ pc[t] = "deliver" => Holders(hand[t]) = {t} /\ slot[hand[t]] = Null

\* The objects on a stack of deaths: the outer ones are cleared, the innermost one is as
\* far as its thread.
Stacked ==
  \A t \in Threads :
    /\ dying[t] # <<>> <=> pc[t] \in Deaths
    /\ \A i \in 1 .. Len(dying[t]) :
         /\ i < Len(dying[t]) => dying[t][i] \in pooled /\ slot[dying[t][i]] = Null
         /\ i = Len(dying[t]) =>
              /\ pc[t] # "delete" => dying[t][i] \in pooled
              /\ pc[t] # "clear" => slot[dying[t][i]] = Null

\* Only objects of the pool's class hold a reference.
Holding == \A o \in Objects : slot[o] # Null => o \in live \cap pooled

\* An object is in use, in the pool, or dying, if and only if it exists.
Lives ==
  \A o \in Objects :
    /\ o \in live <=> Holders(o) # {} \/ IsPooled(o) \/ IsDying(o)
    /\ Holders(o) # {} => ~IsPooled(o) /\ ~IsDying(o)
    /\ IsPooled(o) => ~IsDying(o) /\ o \in pooled /\ slot[o] = Null

PooledOnce == \A i, j \in 1 .. Len(pool) : pool[i] = pool[j] => i = j
Bounded    == \E n \in Sizes : Len(pool) <= n

IInv == /\ TypeOK /\ Locked /\ Handed /\ Stacked /\ Holding /\ Lives
        /\ CountsExact /\ PooledOnce /\ DiesOnce /\ Bounded
-----------------------------------------------------------------------------
(***************************************************************************)
(* The holders of a reference.                                             *)
(***************************************************************************)
\* Slots, threads and the null pointer are told apart, so that each holds its own
\* reference.
LEMMA HoldersMembers ==
  ASSUME NEW o \in Objects
  PROVE  /\ \A s \in Slots : s \in Holders(o) <=> slot[s] = o
         /\ \A t \in Threads : t \in Holders(o) <=> InHand(t, o)
         /\ Null \in Holders(o) <=> o \in lost
         /\ Holders(o) \subseteq Slots \cup Threads \cup {Null}
BY DistinctAssumption DEF Holders, InHand

\* The holders are finitely many.
LEMMA HoldersFinite == ASSUME NEW o \in Objects PROVE IsFiniteSet(Holders(o))
<1>1. IsFiniteSet(Slots)
  BY FiniteAssumption, FS_Union DEF Slots
<1>2. IsFiniteSet(Slots \cup Threads)
  BY <1>1, FiniteAssumption, FS_Union
<1>3. IsFiniteSet((Slots \cup Threads) \cup {Null})
  BY <1>2, FS_AddElement
<1> QED
  BY <1>3, HoldersMembers, FS_Subset

\* Whoever takes a reference adds one to the holders, whoever drops one takes one away.
LEMMA CountHolders ==
  ASSUME NEW H, IsFiniteSet(H), NEW x
  PROVE  /\ Cardinality(H) \in Nat
         /\ Cardinality(H) = 0 <=> H = {}
         /\ x \notin H => Cardinality(H \cup {x}) = Cardinality(H) + 1
         /\ x \in H => /\ Cardinality(H \ {x}) = Cardinality(H) - 1
                       /\ Cardinality(H) = 1 <=> H = {x}
<1>1. Cardinality(H) \in Nat
  BY FS_CardinalityType
<1>2. Cardinality(H) = 0 <=> H = {}
  BY FS_EmptySet
<1>3. x \notin H => Cardinality(H \cup {x}) = Cardinality(H) + 1
  BY FS_AddElement
<1>4. x \in H => Cardinality(H \ {x}) = Cardinality(H) - 1
  BY FS_RemoveElement
<1>5. x \in H => (Cardinality(H) = 1 <=> H = {x})
  BY FS_Singleton
<1> QED
  BY <1>1, <1>2, <1>3, <1>4, <1>5
-----------------------------------------------------------------------------
(***************************************************************************)
(* The pool and the stacks of deaths.                                      *)
(***************************************************************************)
\* The front of the pool leaves it.
LEMMA PoolPopped ==
  ASSUME pool \in Seq(Objects), pool # <<>>, PooledOnce,
         pool' = Tail(pool) \/ pool' = SubSeq(pool, 2, Len(pool))
  PROVE  /\ pool[1] \in Objects /\ pool[1] = Head(pool) /\ IsPooled(pool[1])
         /\ pool' \in Seq(Objects) /\ Len(pool) \in Nat /\ Len(pool') = Len(pool) - 1
         /\ PooledOnce'
         /\ \A o \in Objects : IsPooled(o)' <=> IsPooled(o) /\ o # pool[1]
<1>1. Len(pool) \in Nat \ {0}
  BY EmptySeq
<1>2. pool' = Tail(pool)
  BY TailIsSubSeq
<1>3. /\ pool' \in Seq(Objects) /\ Len(pool') = Len(pool) - 1
      /\ \A i \in 1 .. Len(pool') : pool'[i] = pool[i + 1]
  BY <1>2, HeadTailProperties
<1>4. pool[1] \in Objects /\ pool[1] = Head(pool)
  BY <1>1, ElementOfSeq
<1>5. PooledOnce'
  <2> SUFFICES ASSUME NEW i \in 1 .. Len(pool'), NEW j \in 1 .. Len(pool'),
                      pool'[i] = pool'[j]
               PROVE  i = j
    BY DEF PooledOnce
  <2>1. /\ i + 1 \in 1 .. Len(pool) /\ j + 1 \in 1 .. Len(pool)
        /\ pool[i + 1] = pool[j + 1]
    BY <1>1, <1>3
  <2>2. i + 1 = j + 1
    BY <2>1 DEF PooledOnce
  <2> QED
    BY <1>1, <1>3, <2>2
<1>6. ASSUME NEW o \in Objects
      PROVE  IsPooled(o)' <=> IsPooled(o) /\ o # pool[1]
  <2>1. ASSUME NEW i \in 1 .. Len(pool'), pool'[i] = o
        PROVE  IsPooled(o) /\ o # pool[1]
    <3>1. i + 1 \in 1 .. Len(pool) /\ pool[i + 1] = o /\ 1 \in 1 .. Len(pool) /\ i + 1 # 1
      BY <1>1, <1>3, <2>1
    <3> QED
      BY <3>1 DEF IsPooled, PooledOnce
  <2>2. ASSUME NEW i \in 1 .. Len(pool), pool[i] = o, o # pool[1]
        PROVE  IsPooled(o)'
    <3>1. i - 1 \in 1 .. Len(pool') /\ (i - 1) + 1 = i
      BY <1>1, <1>3, <2>2
    <3>2. pool'[i - 1] = o
      BY <1>3, <2>2, <3>1
    <3> QED
      BY <3>1, <3>2 DEF IsPooled
  <2> QED
    BY <2>1, <2>2 DEF IsPooled
<1>7. IsPooled(pool[1])
  BY <1>1 DEF IsPooled
<1> QED
  BY <1>1, <1>3, <1>4, <1>5, <1>6, <1>7

\* An object enters the pool at its end.
LEMMA PoolPushed ==
  ASSUME pool \in Seq(Objects), NEW p \in Objects, ~IsPooled(p), PooledOnce,
         pool' = Append(pool, p)
  PROVE  /\ pool' \in Seq(Objects) /\ Len(pool) \in Nat /\ Len(pool') = Len(pool) + 1
         /\ PooledOnce'
         /\ \A o \in Objects : IsPooled(o)' <=> IsPooled(o) \/ o = p
<1>1. /\ pool' \in Seq(Objects) /\ Len(pool) \in Nat /\ Len(pool') = Len(pool) + 1
      /\ \A i \in 1 .. Len(pool) : pool'[i] = pool[i]
      /\ pool'[Len(pool) + 1] = p
  BY AppendProperties, LenProperties
<1>2. \A i \in 1 .. Len(pool') : i \in 1 .. Len(pool) \/ i = Len(pool) + 1
  BY <1>1
<1>3. \A i \in 1 .. Len(pool) : pool[i] # p
  BY DEF IsPooled
<1>4. PooledOnce'
  BY <1>1, <1>2, <1>3 DEF PooledOnce
<1>5. Len(pool) + 1 \in 1 .. Len(pool') /\ \A i \in 1 .. Len(pool) : i \in 1 .. Len(pool')
  BY <1>1
<1>6. \A o \in Objects : IsPooled(o)' <=> IsPooled(o) \/ o = p
  BY <1>1, <1>2, <1>5 DEF IsPooled
<1> QED
  BY <1>1, <1>4, <1>6

\* An object begins to die in thread t.
LEMMA DyingPushed ==
  ASSUME dying \in [Threads -> Seq(Objects)], NEW t \in Threads, NEW p \in Objects,
         ~IsDying(p), DiesOnce, dying' = [dying EXCEPT ![t] = Append(dying[t], p)]
  PROVE  /\ dying' \in [Threads -> Seq(Objects)]
         /\ \A u \in Threads \ {t} : dying'[u] = dying[u]
         /\ Len(dying[t]) \in Nat /\ dying'[t] # <<>> /\ Len(dying'[t]) = Len(dying[t]) + 1
         /\ \A i \in 1 .. Len(dying[t]) : dying'[t][i] = dying[t][i]
         /\ dying'[t][Len(dying[t]) + 1] = p
         /\ \A o \in Objects : IsDying(o)' <=> IsDying(o) \/ o = p
         /\ DiesOnce'
<1>1. dying[t] \in Seq(Objects)
  OBVIOUS
<1>2. /\ Append(dying[t], p) \in Seq(Objects) /\ Append(dying[t], p) # <<>>
      /\ Len(dying[t]) \in Nat /\ Len(Append(dying[t], p)) = Len(dying[t]) + 1
      /\ \A i \in 1 .. Len(dying[t]) : Append(dying[t], p)[i] = dying[t][i]
      /\ Append(dying[t], p)[Len(dying[t]) + 1] = p
  BY <1>1, AppendProperties, LenProperties
<1>3. /\ dying' \in [Threads -> Seq(Objects)]
      /\ \A u \in Threads \ {t} : dying'[u] = dying[u]
      /\ dying'[t] = Append(dying[t], p)
  BY <1>2
<1>4. ASSUME NEW u \in Threads, NEW i \in 1 .. Len(dying'[u])
      PROVE  \/ i \in 1 .. Len(dying[u]) /\ dying'[u][i] = dying[u][i]
             \/ u = t /\ i = Len(dying[t]) + 1 /\ dying'[u][i] = p
  <2>1. CASE u # t
    BY <1>3, <2>1
  <2>2. CASE u = t
    <3>1. i \in 1 .. Len(dying[t]) \/ i = Len(dying[t]) + 1
      BY <1>2, <1>3, <2>2
    <3> QED
      BY <1>2, <1>3, <2>2, <3>1
  <2> QED
    BY <2>1, <2>2
<1>5. ASSUME NEW u \in Threads, NEW i \in 1 .. Len(dying[u])
      PROVE  i \in 1 .. Len(dying'[u]) /\ dying'[u][i] = dying[u][i]
  <2>1. CASE u # t
    BY <1>3, <2>1
  <2>2. CASE u = t
    BY <1>2, <1>3, <2>2
  <2> QED
    BY <2>1, <2>2
<1>6. Len(dying[t]) + 1 \in 1 .. Len(dying'[t])
  BY <1>2, <1>3
<1>7. \A o \in Objects : IsDying(o)' <=> IsDying(o) \/ o = p
  <2> SUFFICES ASSUME NEW o \in Objects PROVE IsDying(o)' <=> IsDying(o) \/ o = p
    OBVIOUS
  <2>1. IsDying(o)' => IsDying(o) \/ o = p
    BY <1>4 DEF IsDying
  <2>2. IsDying(o) => IsDying(o)'
    BY <1>5 DEF IsDying
  <2>3. o = p => IsDying(o)'
    BY <1>2, <1>3, <1>6 DEF IsDying
  <2> QED
    BY <2>1, <2>2, <2>3
<1>8. DiesOnce'
  <2>1. \A u \in Threads : \A i \in 1 .. Len(dying[u]) : dying[u][i] # p
    BY DEF IsDying
  <2> QED
    BY <1>4, <2>1 DEF DiesOnce
<1> QED
  BY <1>2, <1>3, <1>7, <1>8

\* The innermost death of thread t is over.
LEMMA DyingPopped ==
  ASSUME dying \in [Threads -> Seq(Objects)], NEW t \in Threads, dying[t] # <<>>,
         DiesOnce, dying' = [dying EXCEPT ![t] = Front(dying[t])]
  PROVE  /\ dying' \in [Threads -> Seq(Objects)]
         /\ \A u \in Threads \ {t} : dying'[u] = dying[u]
         /\ Len(dying[t]) \in Nat \ {0} /\ Len(dying'[t]) = Len(dying[t]) - 1
         /\ dying'[t] = <<>> <=> Len(dying[t]) = 1
         /\ \A i \in 1 .. Len(dying'[t]) : dying'[t][i] = dying[t][i]
         /\ Dying(t) \in Objects /\ IsDying(Dying(t))
         /\ \A o \in Objects : IsDying(o)' <=> IsDying(o) /\ o # Dying(t)
         /\ DiesOnce'
<1>1. dying[t] \in Seq(Objects) /\ Len(dying[t]) \in Nat \ {0}
  BY EmptySeq
<1>2. \A i \in 1 .. Len(dying[t]) - 1 : dying[t][i] \in Objects
  BY <1>1, ElementOfSeq
<1>3. /\ Front(dying[t]) \in Seq(Objects)
      /\ Len(Front(dying[t])) = Len(dying[t]) - 1
      /\ \A i \in 1 .. Len(dying[t]) - 1 : Front(dying[t])[i] = dying[t][i]
  <2>1. /\ SubSeq(dying[t], 1, Len(dying[t]) - 1) \in Seq(Objects)
        /\ Len(SubSeq(dying[t], 1, Len(dying[t]) - 1)) =
             IF 1 <= Len(dying[t]) - 1 THEN Len(dying[t]) - 1 - 1 + 1 ELSE 0
        /\ \A i \in 1 .. Len(dying[t]) - 1 - 1 + 1 :
             SubSeq(dying[t], 1, Len(dying[t]) - 1)[i] = dying[t][1 + i - 1]
    BY <1>1, <1>2, SubSeqProperties
  <2>2. PICK n \in Nat \ {0} : n = Len(dying[t])
    BY <1>1
  <2>3. (IF 1 <= n - 1 THEN n - 1 - 1 + 1 ELSE 0) = n - 1 /\ n - 1 - 1 + 1 = n - 1
    OBVIOUS
  <2>4. \A i \in 1 .. n - 1 : 1 + i - 1 = i
    OBVIOUS
  <2> QED
    BY <2>1, <2>2, <2>3, <2>4 DEF Front
<1>4. /\ dying' \in [Threads -> Seq(Objects)]
      /\ \A u \in Threads \ {t} : dying'[u] = dying[u]
      /\ dying'[t] = Front(dying[t])
  BY <1>3
<1>5. dying'[t] = <<>> <=> Len(dying[t]) = 1
  BY <1>1, <1>3, <1>4, EmptySeq
<1>6. Len(dying[t]) \in 1 .. Len(dying[t]) /\ Dying(t) \in Objects /\ IsDying(Dying(t))
  BY <1>1, ElementOfSeq DEF Dying, IsDying
<1>7. ASSUME NEW u \in Threads, NEW i \in 1 .. Len(dying'[u])
      PROVE  /\ i \in 1 .. Len(dying[u]) /\ dying'[u][i] = dying[u][i]
             /\ ~(u = t /\ i = Len(dying[t]))
  <2>1. CASE u # t
    BY <1>4, <2>1
  <2>2. CASE u = t
    BY <1>1, <1>3, <1>4, <2>2
  <2> QED
    BY <2>1, <2>2
<1>8. ASSUME NEW u \in Threads, NEW i \in 1 .. Len(dying[u]), ~(u = t /\ i = Len(dying[t]))
      PROVE  i \in 1 .. Len(dying'[u]) /\ dying'[u][i] = dying[u][i]
  <2>1. CASE u # t
    BY <1>4, <2>1
  <2>2. CASE u = t
    BY <1>1, <1>3, <1>4, <1>8, <2>2
  <2> QED
    BY <2>1, <2>2
<1>9. \A o \in Objects : IsDying(o)' <=> IsDying(o) /\ o # Dying(t)
  <2> SUFFICES ASSUME NEW o \in Objects PROVE IsDying(o)' <=> IsDying(o) /\ o # Dying(t)
    OBVIOUS
  <2>1. IsDying(o)' => IsDying(o) /\ o # Dying(t)
    BY <1>6, <1>7 DEF IsDying, Dying, DiesOnce
  <2>2. IsDying(o) /\ o # Dying(t) => IsDying(o)'
    BY <1>8 DEF IsDying, Dying
  <2> QED
    BY <2>1, <2>2
<1>10. DiesOnce'
  BY <1>7 DEF DiesOnce
<1> QED
  BY <1>1, <1>3, <1>4, <1>5, <1>6, <1>9, <1>10
-----------------------------------------------------------------------------
(***************************************************************************)
(* References taken and dropped.                                           *)
(***************************************************************************)
\* What release() does to a thread whose stack of deaths is dying[t].
LEMMA Released ==
  ASSUME IInv, NEW t \in Threads, NEW d \in Objects, NEW x \in Holders(d), NEW next,
         Release(t, d, dying[t], next)
  PROVE  /\ d \in live /\ ~IsPooled(d) /\ ~IsDying(d)
         /\ count[d] = Cardinality(Holders(d)) /\ count[d] \in Nat \ {0}
         /\ \/ /\ Holders(d) = {x}
               /\ dying' = [dying EXCEPT ![t] = Append(dying[t], d)]
               /\ pc' = [pc EXCEPT ![t] = Suicide(d)]
            \/ /\ Holders(d) # {x}
               /\ dying' = dying
               /\ pc' = [pc EXCEPT ![t] = next]
<1>1. d \in live /\ ~IsPooled(d) /\ ~IsDying(d)
  BY DEF IInv, Lives
<1>2. count[d] = Cardinality(Holders(d))
  BY <1>1 DEF IInv, CountsExact
<1>3. IsFiniteSet(Holders(d))
  BY HoldersFinite
<1>4. Cardinality(Holders(d)) \in Nat \ {0} /\ (Cardinality(Holders(d)) = 1 <=> Holders(d) = {x})
  BY <1>3, CountHolders
<1>5. [dying EXCEPT ![t] = dying[t]] = dying
  BY DEF IInv, TypeOK
<1> QED
  BY <1>1, <1>2, <1>4, <1>5 DEF Release

\* Thread t takes a reference to `gained`, held by y, gives up the one to `dropped`,
\* held by x, and goes on with the death of what it dropped, or at `next`.
Exchanges(t, gained, y, dropped, x, next) ==
  /\ gained \in Objects \cup {Null} /\ dropped \in Objects \cup {Null}
  /\ gained # dropped \/ gained = Null
  /\ gained # Null => y \notin Holders(gained) /\ \E s \in Slots : s \in Holders(gained)
  /\ dropped # Null => x \in Holders(dropped) /\ x \in Slots \cup {t}
  /\ \A o \in Objects : Holders(o)' = IF o = gained THEN Holders(o) \cup {y}
                                      ELSE IF o = dropped THEN Holders(o) \ {x}
                                      ELSE Holders(o)
  /\ count' = Recounted(gained, dropped)
  /\ Release(t, dropped, dying[t], next)

\* Such a step keeps the counts exact.
LEMMA ExchangeCounts ==
  ASSUME IInv, NEW t \in Threads, NEW gained, NEW y, NEW dropped, NEW x, NEW next,
         Exchanges(t, gained, y, dropped, x, next), UNCHANGED live
  PROVE  count' \in [Objects -> Nat] /\ CountsExact'
<1>1. ASSUME NEW o \in Objects
      PROVE  /\ count'[o] \in Nat
             /\ o \in live => count'[o] = Cardinality(Holders(o)')
  <2>0. IsFiniteSet(Holders(o)) /\ count[o] \in Nat
    BY HoldersFinite DEF IInv, TypeOK
  <2>1. o \in live => count[o] = Cardinality(Holders(o))
    BY DEF IInv, CountsExact
  <2>2. Null \notin Objects
    BY DistinctAssumption DEF Slots
  <2>3. CASE o = gained
    <3>1. count'[o] = count[o] + 1 /\ y \notin Holders(o) /\ Holders(o)' = Holders(o) \cup {y}
      BY <2>2, <2>3 DEF Exchanges, Recounted
    <3>2. Cardinality(Holders(o) \cup {y}) = Cardinality(Holders(o)) + 1
      BY <2>0, <3>1, CountHolders
    <3> QED
      BY <2>0, <2>1, <3>1, <3>2
  <2>4. CASE o # gained /\ o = dropped
    <3>1. count'[o] = count[o] - 1 /\ x \in Holders(o) /\ Holders(o)' = Holders(o) \ {x}
      BY <2>2, <2>4 DEF Exchanges, Recounted
    <3>2. o \in live
      BY <3>1 DEF IInv, Lives
    <3>3. /\ Cardinality(Holders(o) \ {x}) = Cardinality(Holders(o)) - 1
          /\ Cardinality(Holders(o)) \in Nat /\ Cardinality(Holders(o)) # 0
      BY <2>0, <3>1, CountHolders
    <3> QED
      BY <2>0, <2>1, <3>1, <3>2, <3>3
  <2>5. CASE o # gained /\ o # dropped
    <3>1. count'[o] = count[o] /\ Holders(o)' = Holders(o)
      BY <2>5 DEF Exchanges, Recounted
    <3> QED
      BY <2>0, <2>1, <3>1
  <2> QED
    BY <2>3, <2>4, <2>5
<1>2. count' = [o \in Objects |-> count'[o]]
  BY DEF Exchanges, Recounted
<1>3. CountsExact'
  BY <1>1 DEF CountsExact, IInv, TypeOK
<1> QED
  BY <1>1, <1>2, <1>3

\* Such a step, outside the critical sections, keeps the invariant: from a client's
\* call, or from the clearing of a dying object.
LEMMA ExchangeIInv ==
  ASSUME IInv, NEW t \in Threads, NEW gained, NEW y, NEW dropped, NEW x, NEW next,
         Exchanges(t, gained, y, dropped, x, next),
         \/ pc[t] \in {"idle", "unshare"} /\ next = "idle"
         \/ pc[t] = "clear" /\ next = "recycle" /\ slot'[Dying(t)] = Null,
         UNCHANGED <<live, pooled, lost, pool, maxSize, mutex>>,
         slot' \in [Slots -> Objects \cup {Null}],
         hand' \in [Threads -> Objects \cup {Null}],
         \A u \in Threads \ {t} : hand'[u] = hand[u],
         \A o \in Objects : slot'[o] = slot[o] \/ slot'[o] = Null
  PROVE  IInv'
<1> DEFINE Dies == dropped # Null /\ Holders(dropped) = {x}
<1>0. Null \notin Objects /\ Slots \cap Threads = {}
  BY DistinctAssumption DEF Slots
<1>1. /\ Dies => /\ dropped \in Objects \cap live /\ ~IsPooled(dropped) /\ ~IsDying(dropped)
                /\ dying' = [dying EXCEPT ![t] = Append(dying[t], dropped)]
                /\ pc' = [pc EXCEPT ![t] = Suicide(dropped)]
      /\ ~Dies => dying' = dying /\ pc' = [pc EXCEPT ![t] = next]
  <2>1. CASE dropped = Null
    <3>1. dying' = [dying EXCEPT ![t] = dying[t]] /\ pc' = [pc EXCEPT ![t] = next]
      BY <1>0, <2>1 DEF Exchanges, Release
    <3>2. [dying EXCEPT ![t] = dying[t]] = dying
      BY DEF IInv, TypeOK
    <3> QED
      BY <2>1, <3>1, <3>2
  <2>2. CASE dropped # Null
    <3>1. dropped \in Objects /\ x \in Holders(dropped) /\ Release(t, dropped, dying[t], next)
      BY <2>2 DEF Exchanges
    <3>2. /\ dropped \in live /\ ~IsPooled(dropped) /\ ~IsDying(dropped)
          /\ \/ /\ Holders(dropped) = {x}
                /\ dying' = [dying EXCEPT ![t] = Append(dying[t], dropped)]
                /\ pc' = [pc EXCEPT ![t] = Suicide(dropped)]
             \/ /\ Holders(dropped) # {x}
                /\ dying' = dying
                /\ pc' = [pc EXCEPT ![t] = next]
      BY <3>1, Released
    <3> QED
      BY <2>2, <3>1, <3>2
  <2> QED
    BY <2>1, <2>2
<1>2. /\ pc' \in [Threads -> Points]
      /\ \A u \in Threads \ {t} : pc'[u] = pc[u]
      /\ pc'[t] \in {"idle", "recycle", "clear", "delete"}
  <2>1. pc \in [Threads -> Points]
    BY DEF IInv, TypeOK
  <2>2. next \in {"idle", "recycle"}
    OBVIOUS
  <2>3. Suicide(dropped) \in {"clear", "delete"}
    BY DEF Suicide
  <2> QED
    BY <1>1, <2>1, <2>2, <2>3 DEF Points
<1>3. count' \in [Objects -> Nat] /\ CountsExact'
  BY ExchangeCounts
<1>4. /\ dying' \in [Threads -> Seq(Objects)]
      /\ \A u \in Threads \ {t} : dying'[u] = dying[u]
      /\ DiesOnce'
      /\ \A o \in Objects : IsDying(o)' <=> IsDying(o) \/ (Dies /\ o = dropped)
  <2>1. dying \in [Threads -> Seq(Objects)] /\ DiesOnce
    BY DEF IInv, TypeOK
  <2>2. CASE Dies
    <3>1. dropped \in Objects /\ ~IsDying(dropped)
      BY <1>1, <2>2
    <3>2. dying' = [dying EXCEPT ![t] = Append(dying[t], dropped)]
      BY <1>1, <2>2
    <3>3. /\ dying' \in [Threads -> Seq(Objects)]
          /\ \A u \in Threads \ {t} : dying'[u] = dying[u]
          /\ \A o \in Objects : IsDying(o)' <=> IsDying(o) \/ o = dropped
          /\ DiesOnce'
      BY <2>1, <3>1, <3>2, DyingPushed
    <3> QED
      BY <2>2, <3>3
  <2>3. CASE ~Dies
    BY <1>1, <2>1, <2>3 DEF IsDying, DiesOnce
  <2> QED
    BY <2>2, <2>3
<1>5. TypeOK'
  BY <1>2, <1>3, <1>4 DEF IInv, TypeOK
<1>6. Locked'
  <2>1. mutex # t
    BY DEF IInv, Locked
  <2>2. ASSUME NEW u \in Threads
        PROVE  /\ mutex = u <=> pc'[u] \in {"take", "push", "drain"}
               /\ pc'[u] = "take" => pool # <<>> /\ hand'[u] = pool[1]
               /\ pc'[u] = "push" => \E n \in Sizes : Len(pool) < n
    <3>1. CASE u = t
      BY <1>2, <2>1, <3>1
    <3>2. CASE u # t
      BY <1>2, <3>2 DEF IInv, Locked
    <3> QED
      BY <3>1, <3>2
  <2> QED
    BY <2>2 DEF Locked
<1>7. Handed'
  <2> SUFFICES ASSUME NEW u \in Threads
               PROVE  /\ pc'[u] \in {"deliver", "unshare"} => hand'[u] \in Objects
                      /\ pc'[u] = "deliver" => /\ Holders(hand[u])' = {u}
                                              /\ slot'[hand'[u]] = Null
    BY DEF Handed, Holders
  <2>1. CASE u = t
    BY <1>2, <2>1
  <2>2. CASE u # t
    <3>1. pc'[u] = pc[u] /\ hand'[u] = hand[u]
      BY <1>2, <2>2
    <3>2. pc[u] \in {"deliver", "unshare"} => hand[u] \in Objects
      BY DEF IInv, Handed
    <3>3. ASSUME pc[u] = "deliver"
          PROVE  Holders(hand[u])' = {u} /\ slot'[hand[u]] = Null
      <4>1. PICK o \in Objects : o = hand[u]
        BY <3>2, <3>3
      <4>2. Holders(o) = {u} /\ slot[o] = Null
        BY <3>3, <4>1 DEF IInv, Handed
      <4>3. o # gained /\ o # dropped
        BY <1>0, <2>2, <4>2 DEF Exchanges
      <4>4. Holders(o)' = {u}
        BY <4>2, <4>3 DEF Exchanges
      <4> QED
        BY <3>1, <4>1, <4>2, <4>4 DEF Holders
    <3> QED
      BY <3>1, <3>2, <3>3
  <2> QED
    BY <2>1, <2>2
<1>8. Holding'
  BY <1>0 DEF IInv, Holding
<1>9. Stacked'
  <2>1. \A o \in Objects : slot[o] = Null => slot'[o] = Null
    OBVIOUS
  <2>2. ASSUME NEW u \in Threads, NEW i \in 1 .. Len(dying[u])
        PROVE  dying[u][i] \in Objects
    <3>1. dying[u] \in Seq(Objects)
      BY DEF IInv, TypeOK
    <3> QED
      BY <3>1, ElementOfSeq
  <2>3. ASSUME NEW u \in Threads, u # t
        PROVE  /\ dying'[u] # <<>> <=> pc'[u] \in Deaths
               /\ \A i \in 1 .. Len(dying'[u]) :
                    /\ i < Len(dying'[u]) => dying'[u][i] \in pooled /\ slot'[dying'[u][i]] = Null
                    /\ i = Len(dying'[u]) =>
                         /\ pc'[u] # "delete" => dying'[u][i] \in pooled
                         /\ pc'[u] # "clear" => slot'[dying'[u][i]] = Null
    <3>1. pc'[u] = pc[u] /\ dying'[u] = dying[u]
      BY <1>2, <1>4, <2>3
    <3>2. dying[u] # <<>> <=> pc[u] \in Deaths
      BY DEF IInv, Stacked
    <3>3. ASSUME NEW i \in 1 .. Len(dying[u])
          PROVE  /\ i < Len(dying[u]) => dying[u][i] \in pooled /\ slot'[dying[u][i]] = Null
                 /\ i = Len(dying[u]) =>
                      /\ pc[u] # "delete" => dying[u][i] \in pooled
                      /\ pc[u] # "clear" => slot'[dying[u][i]] = Null
      BY <2>1, <2>2 DEF IInv, Stacked
    <3> QED
      BY <3>1, <3>2, <3>3
  <2>4. dying[t] # <<>> <=> pc[t] = "clear"
    BY DEF IInv, Stacked, Deaths
  <2>5. dying[t] \in Seq(Objects) /\ Len(dying[t]) \in Nat
    BY LenProperties DEF IInv, TypeOK
  <2>6. ASSUME NEW i \in 1 .. Len(dying[t])
        PROVE  pc[t] = "clear" /\ dying[t][i] \in pooled /\ slot'[dying[t][i]] = Null
    <3>1. dying[t] # <<>>
      BY EmptySeq, <2>5
    <3>2. pc[t] = "clear"
      BY <2>4, <3>1
    <3>3. CASE i < Len(dying[t])
      BY <2>1, <2>2, <3>2, <3>3 DEF IInv, Stacked
    <3>4. CASE i = Len(dying[t])
      BY <3>2, <3>4 DEF IInv, Stacked, Dying
    <3> QED
      BY <2>5, <3>2, <3>3, <3>4
  <2>7. /\ dying'[t] # <<>> <=> pc'[t] \in Deaths
        /\ \A i \in 1 .. Len(dying'[t]) :
             /\ i < Len(dying'[t]) => dying'[t][i] \in pooled /\ slot'[dying'[t][i]] = Null
             /\ i = Len(dying'[t]) =>
                  /\ pc'[t] # "delete" => dying'[t][i] \in pooled
                  /\ pc'[t] # "clear" => slot'[dying'[t][i]] = Null
    <3>0. pc \in [Threads -> Points]
      BY DEF IInv, TypeOK
    <3>1. CASE Dies
      <4>1. /\ dropped \in Objects /\ ~IsDying(dropped)
            /\ dying' = [dying EXCEPT ![t] = Append(dying[t], dropped)]
            /\ pc'[t] = Suicide(dropped)
        BY <1>1, <3>0, <3>1
      <4>2. /\ dying'[t] # <<>> /\ Len(dying'[t]) = Len(dying[t]) + 1
            /\ \A i \in 1 .. Len(dying[t]) : dying'[t][i] = dying[t][i]
            /\ dying'[t][Len(dying[t]) + 1] = dropped
        BY <4>1, DyingPushed DEF IInv, TypeOK
      <4>3. dropped \notin pooled => slot'[dropped] = Null
        BY <2>1, <4>1 DEF IInv, Holding
      <4>4. \A i \in 1 .. Len(dying'[t]) :
              \/ i \in 1 .. Len(dying[t]) /\ i < Len(dying'[t]) /\ i # Len(dying'[t])
              \/ i = Len(dying'[t]) /\ i = Len(dying[t]) + 1 /\ ~(i < Len(dying'[t]))
        BY <2>5, <4>2
      <4> QED
        BY <2>6, <4>1, <4>2, <4>3, <4>4 DEF Suicide, Deaths
    <3>2. CASE ~Dies
      <4>1. dying'[t] = dying[t] /\ pc'[t] = next
        BY <1>1, <3>0, <3>2
      <4> QED
        BY <2>4, <2>6, <4>1 DEF Deaths
    <3> QED
      BY <3>1, <3>2
  <2> QED
    BY <2>3, <2>7 DEF Stacked
<1>10. Lives'
  <2> SUFFICES ASSUME NEW o \in Objects
               PROVE  /\ o \in live <=> Holders(o)' # {} \/ IsPooled(o) \/ IsDying(o)'
                      /\ Holders(o)' # {} => ~IsPooled(o) /\ ~IsDying(o)'
                      /\ IsPooled(o) => ~IsDying(o)' /\ o \in pooled /\ slot'[o] = Null
    BY DEF Lives, IsPooled
  <2>1. /\ o \in live <=> Holders(o) # {} \/ IsPooled(o) \/ IsDying(o)
        /\ Holders(o) # {} => ~IsPooled(o) /\ ~IsDying(o)
        /\ IsPooled(o) => ~IsDying(o) /\ o \in pooled /\ slot[o] = Null
    BY DEF IInv, Lives
  <2>2. CASE o = gained
    <3>1. Holders(o) # {} /\ Holders(o)' # {} /\ o # dropped
      BY <1>0, <2>2 DEF Exchanges
    <3> QED
      BY <1>4, <2>1, <3>1
  <2>3. CASE o # gained /\ o = dropped
    <3>1. x \in Holders(o) /\ Holders(o)' = Holders(o) \ {x} /\ dropped # Null
      BY <1>0, <2>3 DEF Exchanges
    <3>2. Holders(o)' = {} <=> Dies
      BY <2>3, <3>1
    <3> QED
      BY <1>4, <2>1, <2>3, <3>1, <3>2
  <2>4. CASE o # gained /\ o # dropped
    <3>1. Holders(o)' = Holders(o) /\ (IsDying(o)' <=> IsDying(o))
      BY <1>4, <2>4 DEF Exchanges
    <3> QED
      BY <2>1, <3>1
  <2> QED
    BY <2>2, <2>3, <2>4
<1>11. PooledOnce' /\ Bounded'
  BY DEF IInv, PooledOnce, Bounded
<1> QED
  BY <1>3, <1>4, <1>5, <1>6, <1>7, <1>8, <1>9, <1>10, <1>11 DEF IInv
-----------------------------------------------------------------------------
(***************************************************************************)
(* The pool's own steps.                                                   *)
(***************************************************************************)
\* A thread that holds no reference itself goes on to q, and at most the mutex, the
\* maximal size and what the thread is about to take change.
LEMMA MovesIInv ==
  ASSUME IInv, NEW t \in Threads, NEW q \in Points \ {"deliver", "unshare", "clear"},
         pc[t] \notin {"deliver", "unshare", "clear", "push", "delete"},
         q \in Deaths <=> pc[t] \in Deaths,
         pc' = [pc EXCEPT ![t] = q],
         UNCHANGED <<live, pooled, slot, count, lost, pool, dying>>,
         hand' \in [Threads -> Objects \cup {Null}],
         \A u \in Threads \ {t} : hand'[u] = hand[u],
         mutex' \in Threads \cup {Null}, maxSize' \in Sizes, Locked'
  PROVE  IInv'
<1>1. /\ pc' \in [Threads -> Points]
      /\ pc'[t] = q
      /\ \A u \in Threads \ {t} : pc'[u] = pc[u]
  BY DEF IInv, TypeOK
<1>2. TypeOK'
  BY <1>1 DEF IInv, TypeOK
<1>3. \A o : Holders(o)' = Holders(o)
  BY <1>1 DEF Holders
<1>4. Handed'
  <2>1. \A u \in Threads : pc'[u] \in {"deliver", "unshare"} => u # t
    BY <1>1
  <2>2. \A u \in Threads : Holders(hand[u])' = Holders(hand'[u])
    BY <1>1 DEF Holders
  <2> QED
    BY <1>1, <2>1, <2>2 DEF IInv, Handed
<1>5. Stacked'
  BY <1>1 DEF IInv, Stacked, Deaths
<1>6. Lives' /\ CountsExact'
  BY <1>3 DEF IInv, Lives, CountsExact, IsPooled, IsDying
<1>7. Holding' /\ PooledOnce' /\ DiesOnce' /\ Bounded'
  BY DEF IInv, Holding, PooledOnce, DiesOnce, Bounded
<1> QED
  BY <1>2, <1>4, <1>5, <1>6, <1>7 DEF IInv

\* An object without references, from the pool or new, comes to the hand of a thread.
LEMMA FreshIInv ==
  ASSUME IInv, NEW t \in Threads, NEW o \in Objects,
         Holders(o) = {}, ~IsDying(o), slot[o] = Null,
         pc[t] \in {"take", "new", "idle"},
         pc' = [pc EXCEPT ![t] = "deliver"],
         hand' = [hand EXCEPT ![t] = o],
         count' = [count EXCEPT ![o] = 1],
         live' = live \cup {o},
         pooled' = pooled \cup {o} \/ pooled' = pooled \ {o},
         UNCHANGED <<slot, lost, dying, maxSize>>,
         pool' \in Seq(Objects),
         \A p \in Objects : IsPooled(p)' <=> IsPooled(p) /\ p # o,
         mutex' \in Threads \cup {Null}, Locked', PooledOnce', Bounded'
  PROVE  IInv'
<1>0. Null \notin Objects /\ Slots \cap Threads = {}
  BY DistinctAssumption DEF Slots
<1>1. /\ pc' \in [Threads -> Points] /\ pc'[t] = "deliver"
      /\ hand' \in [Threads -> Objects \cup {Null}] /\ hand'[t] = o
      /\ \A u \in Threads \ {t} : pc'[u] = pc[u] /\ hand'[u] = hand[u]
  BY DEF IInv, TypeOK, Points
<1>2. /\ count' \in [Objects -> Nat] /\ count'[o] = 1
      /\ \A p \in Objects \ {o} : count'[p] = count[p]
  BY DEF IInv, TypeOK
<1>3. TypeOK'
  BY <1>1, <1>2 DEF IInv, TypeOK
<1>4. Holders(o)' = {t}
  BY <1>1 DEF Holders
<1>5. \A p \in Objects \ {o} : Holders(p)' = Holders(p)
  BY <1>1 DEF Holders
<1>6. Handed'
  <2> SUFFICES ASSUME NEW u \in Threads
               PROVE  /\ pc'[u] \in {"deliver", "unshare"} => hand'[u] \in Objects
                      /\ pc'[u] = "deliver" => /\ Holders(hand[u])' = {u}
                                              /\ slot[hand'[u]] = Null
    BY DEF Handed
  <2>1. CASE u = t
    BY <1>1, <1>4, <2>1 DEF Holders
  <2>2. CASE u # t
    <3>1. pc'[u] = pc[u] /\ hand'[u] = hand[u]
      BY <1>1, <2>2
    <3>2. pc[u] \in {"deliver", "unshare"} => hand[u] \in Objects
      BY DEF IInv, Handed
    <3>3. ASSUME pc[u] = "deliver"
          PROVE  Holders(hand[u])' = {u} /\ slot[hand[u]] = Null
      <4>1. PICK p \in Objects : p = hand[u]
        BY <3>2, <3>3
      <4>2. Holders(p) = {u} /\ slot[p] = Null
        BY <3>3, <4>1 DEF IInv, Handed
      <4>3. Holders(p)' = {u}
        BY <1>5, <4>2
      <4> QED
        BY <3>1, <4>1, <4>2, <4>3 DEF Holders
    <3> QED
      BY <3>1, <3>2, <3>3
  <2> QED
    BY <2>1, <2>2
<1>7. Stacked'
  <2>1. \A u \in Threads : \A i \in 1 .. Len(dying[u]) : dying[u][i] # o
    BY DEF IsDying
  <2>2. \A p : p # o => (p \in pooled' <=> p \in pooled)
    OBVIOUS
  <2>3. \A u \in Threads : u # t => pc'[u] = pc[u]
    BY <1>1
  <2>4. pc[t] \notin Deaths /\ pc'[t] \notin Deaths
    BY <1>1 DEF Deaths
  <2> SUFFICES ASSUME NEW u \in Threads
               PROVE  /\ dying[u] # <<>> <=> pc'[u] \in Deaths
                      /\ \A i \in 1 .. Len(dying[u]) :
                           /\ i < Len(dying[u]) => dying[u][i] \in pooled' /\ slot[dying[u][i]] = Null
                           /\ i = Len(dying[u]) =>
                                /\ pc'[u] # "delete" => dying[u][i] \in pooled'
                                /\ pc'[u] # "clear" => slot[dying[u][i]] = Null
    BY DEF Stacked
  <2>5. CASE u = t
    <3>1. dying[t] = <<>>
      BY <2>4 DEF IInv, Stacked
    <3> QED
      BY <2>4, <2>5, <3>1
  <2>6. CASE u # t
    BY <2>1, <2>2, <2>3, <2>6 DEF IInv, Stacked
  <2> QED
    BY <2>5, <2>6
<1>8. Holding'
  BY DEF IInv, Holding
<1>9. Lives'
  <2> SUFFICES ASSUME NEW p \in Objects
               PROVE  /\ p \in live' <=> Holders(p)' # {} \/ IsPooled(p)' \/ IsDying(p)
                      /\ Holders(p)' # {} => ~IsPooled(p)' /\ ~IsDying(p)
                      /\ IsPooled(p)' => ~IsDying(p) /\ p \in pooled' /\ slot[p] = Null
    BY DEF Lives, IsDying
  <2>1. CASE p = o
    BY <1>4, <2>1
  <2>2. CASE p # o
    BY <1>5, <2>2 DEF IInv, Lives
  <2> QED
    BY <2>1, <2>2
<1>10. CountsExact'
  <2>1. Cardinality({t}) = 1
    BY FS_Singleton
  <2> QED
    <3>1. \A q \in live : count[q] = Cardinality(Holders(q))
      BY DEF IInv, CountsExact
    <3>2. ASSUME NEW q \in live' PROVE count'[q] = Cardinality(Holders(q)')
      <4>1. CASE q = o
        BY <1>2, <1>4, <2>1, <4>1
      <4>2. CASE q # o
        <5>1. q \in live /\ q \in Objects \ {o}
          BY <4>2 DEF IInv, TypeOK
        <5> QED
          BY <1>2, <1>5, <3>1, <5>1
      <4> QED
        BY <4>1, <4>2
    <3> QED
      BY ONLY <3>2 DEF CountsExact
<1>11. DiesOnce'
  BY DEF IInv, DiesOnce
<1> QED
  BY <1>3, <1>6, <1>7, <1>8, <1>9, <1>10, <1>11 DEF IInv

\* The innermost death of a thread is over: its object o waits in the pool or is deleted.
LEMMA DeathOverIInv ==
  ASSUME IInv, NEW t \in Threads, NEW o \in Objects, NEW kept \in BOOLEAN,
         pc[t] \in {"push", "delete"}, o = Dying(t),
         dying' = [dying EXCEPT ![t] = Front(dying[t])],
         pc' = [pc EXCEPT ![t] = IF Len(dying[t]) > 1 THEN "recycle" ELSE "idle"],
         live' = IF kept THEN live ELSE live \ {o},
         kept => o \in pooled,
         UNCHANGED <<pooled, slot, count, lost, maxSize, hand>>,
         pool' \in Seq(Objects),
         \A p \in Objects : IsPooled(p)' <=> IsPooled(p) \/ (kept /\ p = o),
         mutex' \in Threads \cup {Null}, Locked', PooledOnce', Bounded'
  PROVE  IInv'
<1>0. pc[t] \in Deaths /\ dying[t] # <<>>
  BY DEF IInv, Stacked, Deaths
<1>1. /\ dying' \in [Threads -> Seq(Objects)]
      /\ \A u \in Threads \ {t} : dying'[u] = dying[u]
      /\ Len(dying[t]) \in Nat \ {0} /\ Len(dying'[t]) = Len(dying[t]) - 1
      /\ dying'[t] = <<>> <=> Len(dying[t]) = 1
      /\ \A i \in 1 .. Len(dying'[t]) : dying'[t][i] = dying[t][i]
      /\ IsDying(o)
      /\ \A p \in Objects : IsDying(p)' <=> IsDying(p) /\ p # o
      /\ DiesOnce'
  <2>1. dying \in [Threads -> Seq(Objects)] /\ DiesOnce
    BY DEF IInv, TypeOK
  <2> QED
    BY <1>0, <2>1, DyingPopped
<1>2. /\ Holders(o) = {} /\ ~IsPooled(o) /\ slot[o] = Null
  <2>1. Holders(o) = {} /\ ~IsPooled(o)
    BY <1>1 DEF IInv, Lives
  <2>2. Len(dying[t]) \in 1 .. Len(dying[t])
    BY <1>1
  <2>3. slot[dying[t][Len(dying[t])]] = Null
    BY <2>2 DEF IInv, Stacked
  <2> QED
    BY <2>1, <2>3 DEF Dying
<1>3. /\ pc' \in [Threads -> Points]
      /\ pc'[t] = IF Len(dying[t]) > 1 THEN "recycle" ELSE "idle"
      /\ \A u \in Threads \ {t} : pc'[u] = pc[u]
  BY DEF IInv, TypeOK, Points
<1>4. TypeOK'
  BY <1>1, <1>3 DEF IInv, TypeOK
<1>5. \A p : Holders(p)' = Holders(p)
  BY <1>3 DEF Holders
<1>6. Handed'
  <2>1. \A u \in Threads : pc'[u] \in {"deliver", "unshare"} => u # t
    BY <1>3
  <2>2. \A u \in Threads : Holders(hand[u])' = Holders(hand[u])
    BY <1>5
  <2> QED
    BY <1>3, <2>1, <2>2 DEF IInv, Handed, Holders
<1>7. Stacked'
  <2>1. ASSUME NEW u \in Threads, u # t
        PROVE  /\ dying'[u] # <<>> <=> pc'[u] \in Deaths
               /\ \A i \in 1 .. Len(dying'[u]) :
                    /\ i < Len(dying'[u]) => dying'[u][i] \in pooled /\ slot[dying'[u][i]] = Null
                    /\ i = Len(dying'[u]) =>
                         /\ pc'[u] # "delete" => dying'[u][i] \in pooled
                         /\ pc'[u] # "clear" => slot[dying'[u][i]] = Null
    <3>1. pc'[u] = pc[u] /\ dying'[u] = dying[u]
      BY <1>1, <1>3, <2>1
    <3> QED
      BY <3>1 DEF IInv, Stacked
  <2>2. dying'[t] # <<>> <=> pc'[t] \in Deaths
    <3>1. Len(dying[t]) > 1 <=> Len(dying[t]) # 1
      BY <1>1
    <3>2. "recycle" \in Deaths /\ "idle" \notin Deaths
      BY DEF Deaths
    <3> QED
      BY <1>1, <1>3, <3>1, <3>2
  <2>3. ASSUME NEW i \in 1 .. Len(dying'[t])
        PROVE  dying'[t][i] \in pooled /\ slot[dying'[t][i]] = Null
    <3>1. i \in 1 .. Len(dying[t]) /\ i < Len(dying[t]) /\ dying'[t][i] = dying[t][i]
      BY <1>1
    <3> QED
      BY <3>1 DEF IInv, Stacked
  <2> QED
    BY <2>1, <2>2, <2>3 DEF Stacked
<1>8. Holding'
  BY <1>2 DEF IInv, Holding
<1>9. Lives'
  <2> SUFFICES ASSUME NEW p \in Objects
               PROVE  /\ p \in live' <=> Holders(p)' # {} \/ IsPooled(p)' \/ IsDying(p)'
                      /\ Holders(p)' # {} => ~IsPooled(p)' /\ ~IsDying(p)'
                      /\ IsPooled(p)' => ~IsDying(p)' /\ p \in pooled /\ slot[p] = Null
    BY DEF Lives
  <2>1. /\ p \in live <=> Holders(p) # {} \/ IsPooled(p) \/ IsDying(p)
        /\ Holders(p) # {} => ~IsPooled(p) /\ ~IsDying(p)
        /\ IsPooled(p) => ~IsDying(p) /\ p \in pooled /\ slot[p] = Null
    BY DEF IInv, Lives
  <2>2. /\ Holders(p)' = Holders(p)
        /\ IsPooled(p)' <=> IsPooled(p) \/ (kept /\ p = o)
        /\ IsDying(p)' <=> IsDying(p) /\ p # o
    BY <1>1, <1>5
  <2>3. CASE p = o
    BY <1>1, <1>2, <2>1, <2>2, <2>3
  <2>4. CASE p # o
    BY <2>1, <2>2, <2>4
  <2> QED
    BY <2>3, <2>4
<1>10. CountsExact'
  BY <1>5 DEF IInv, CountsExact
<1> QED
  BY <1>1, <1>4, <1>6, <1>7, <1>8, <1>9, <1>10 DEF IInv
-----------------------------------------------------------------------------
(***************************************************************************)
(* From the raw pointer to a smart pointer.                                *)
(***************************************************************************)
\* The object in a hand comes to smart pointer h, with a parent or without, and the
\* reference in the hand stays there for a while or is lost.
LEMMA DeliveredIInv ==
  ASSUME IInv, NEW t \in Threads, NEW o \in Objects, NEW h \in EmptyHandles(t),
         NEW lose \in BOOLEAN,
         pc[t] = "deliver", o = hand[t], Pointed(t, o, h),
         ~lose => /\ pc' = [pc EXCEPT ![t] = "unshare"]
                  /\ UNCHANGED <<hand, lost>>,
         lose => /\ pc' = [pc EXCEPT ![t] = "idle"]
                 /\ hand' = [hand EXCEPT ![t] = Null]
                 /\ lost' = lost \cup {o},
         UNCHANGED <<live, pooled, pool, maxSize, mutex, dying>>
  PROVE  IInv'
<1>0. /\ Null \notin Objects /\ Null \notin Threads /\ Null \notin Slots
      /\ Slots \cap Threads = {} /\ h \in Slots \ Objects /\ o \in Slots
      /\ h \notin Threads
  BY DistinctAssumption DEF Slots, EmptyHandles
<1>1. Holders(o) = {t} /\ slot[o] = Null /\ slot[h] = Null
  BY DEF IInv, Handed, EmptyHandles
<1>2. /\ o \in live /\ ~IsPooled(o) /\ ~IsDying(o) /\ count[o] = 1
  <2>1. Cardinality({t}) = 1
    BY FS_Singleton
  <2> QED
    BY <1>1, <2>1 DEF IInv, Lives, CountsExact
<1>3. /\ pc' \in [Threads -> Points] /\ hand' \in [Threads -> Objects \cup {Null}]
      /\ pc'[t] \in {"unshare", "idle"}
      /\ ~lose => pc'[t] = "unshare" /\ hand'[t] = o
      /\ lose => pc'[t] = "idle"
      /\ \A u \in Threads \ {t} : pc'[u] = pc[u] /\ hand'[u] = hand[u]
  <2>1. pc \in [Threads -> Points] /\ hand \in [Threads -> Objects \cup {Null}]
    BY DEF IInv, TypeOK
  <2>2. CASE lose
    BY <2>1, <2>2 DEF Points
  <2>3. CASE ~lose
    BY <2>1, <2>3 DEF Points
  <2> QED
    BY <2>2, <2>3
<1>4. PICK p \in Objects \cup {Null} :
        /\ p # o
        /\ p # Null => /\ p \in live /\ o \in pooled
                     /\ \E s \in Slots : s \in Holders(p)
        /\ slot' \in [Slots -> Objects \cup {Null}]
        /\ slot'[h] = o /\ slot'[o] = p
        /\ \A s \in Slots : s \notin {h, o} => slot'[s] = slot[s]
        /\ count' \in [Objects -> Nat]
        /\ count'[o] = 2
        /\ p # Null => count'[p] = count[p] + 1
        /\ \A x \in Objects : x \notin {o, p} => count'[x] = count[x]
  <2>1. slot \in [Slots -> Objects \cup {Null}] /\ count \in [Objects -> Nat]
    BY DEF IInv, TypeOK
  <2>2. CASE slot' = [slot EXCEPT ![h] = o] /\ count' = Recounted(o, Null)
    <3>1. /\ slot' \in [Slots -> Objects \cup {Null}]
          /\ slot'[h] = o /\ slot'[o] = Null
          /\ \A s \in Slots : s \notin {h, o} => slot'[s] = slot[s]
      BY <1>0, <1>1, <2>1, <2>2
    <3>2. /\ count' \in [Objects -> Nat]
          /\ count'[o] = 2
          /\ \A x \in Objects : x # o => count'[x] = count[x]
      BY <1>0, <1>2, <2>1, <2>2 DEF Recounted
    <3> QED
      BY <1>0, <3>1, <3>2
  <2>3. ASSUME NEW p \in Parents(t, o),
               slot' = [slot EXCEPT ![h] = o, ![o] = p],
               count' = [count EXCEPT ![o] = @ + 1, ![p] = @ + 1]
        PROVE  /\ p \in Objects /\ p # o /\ p # Null
               /\ p \in live /\ o \in pooled /\ \E s \in Slots : s \in Holders(p)
               /\ slot' \in [Slots -> Objects \cup {Null}]
               /\ slot'[h] = o /\ slot'[o] = p
               /\ \A s \in Slots : s \notin {h, o} => slot'[s] = slot[s]
               /\ count' \in [Objects -> Nat]
               /\ count'[o] = 2
               /\ count'[p] = count[p] + 1
               /\ \A x \in Objects : x \notin {o, p} => count'[x] = count[x]
    <3>1. PICK g \in Handles : slot[g] = p
      BY DEF Parents
    <3>2. g \in Slots /\ g # t
      BY <1>0 DEF Slots
    <3>3. p \in Objects /\ o \in pooled /\ p # Null
      BY <1>0 DEF Parents
    <3>4. g \in Holders(p)
      BY <3>1, <3>2 DEF Holders
    <3>5. p # o /\ p \in live
      BY <1>1, <3>2, <3>3, <3>4 DEF IInv, Lives
    <3>6. /\ slot' \in [Slots -> Objects \cup {Null}]
          /\ slot'[h] = o /\ slot'[o] = p
          /\ \A s \in Slots : s \notin {h, o} => slot'[s] = slot[s]
      BY <1>0, <2>1, <2>3, <3>3
    <3>7. /\ count' \in [Objects -> Nat]
          /\ count'[o] = 2
          /\ count'[p] = count[p] + 1
          /\ \A x \in Objects : x \notin {o, p} => count'[x] = count[x]
      BY <1>2, <2>1, <2>3, <3>3, <3>5
    <3> QED
      BY <3>2, <3>3, <3>4, <3>5, <3>6, <3>7
  <2> QED
    BY <2>2, <2>3 DEF Pointed
<1>5. PICK z : z = IF lose THEN Null ELSE t
  OBVIOUS
<1>6. Holders(o)' = {h, z}
  <2>1. \A s \in Slots : slot'[s] = o <=> s = h
    BY <1>0, <1>1, <1>4 DEF Holders
  <2>2. o \notin lost
    BY <1>0, <1>1 DEF Holders
  <2>3. \A u \in Threads : hand[u] = o /\ pc[u] \in {"deliver", "unshare"} => u = t
    BY <1>1 DEF Holders
  <2>4. CASE lose
    BY <1>0, <1>3, <1>5, <2>1, <2>2, <2>3, <2>4 DEF Holders
  <2>5. CASE ~lose
    BY <1>0, <1>3, <1>5, <2>1, <2>2, <2>3, <2>5 DEF Holders
  <2> QED
    BY <2>4, <2>5
<1>7. ASSUME NEW x \in Objects, x # o
      PROVE  /\ x = p => Holders(x)' = Holders(x) \cup {o}
             /\ x # p => Holders(x)' = Holders(x)
  <2>1. \A s \in Slots : slot'[s] = x <=> slot[s] = x \/ (s = o /\ x = p)
    BY <1>0, <1>1, <1>4, <1>7
  <2>2. x \in lost' <=> x \in lost
    BY <1>7
  <2>3. \A u \in Threads : /\ hand'[u] = x /\ pc'[u] \in {"deliver", "unshare"}
                           <=> hand[u] = x /\ pc[u] \in {"deliver", "unshare"}
    BY <1>3, <1>7
  <2> QED
    BY <1>0, <2>1, <2>2, <2>3 DEF Holders
<1>8. TypeOK'
  BY <1>2, <1>3, <1>4 DEF IInv, TypeOK
<1>9. Locked'
  <2>1. mutex # t
    BY DEF IInv, Locked
  <2> SUFFICES ASSUME NEW u \in Threads
        PROVE  /\ mutex = u <=> pc'[u] \in {"take", "push", "drain"}
               /\ pc'[u] = "take" => pool # <<>> /\ hand'[u] = pool[1]
               /\ pc'[u] = "push" => \E n \in Sizes : Len(pool) < n
    BY DEF Locked
  <2>2. CASE u = t
    BY <1>3, <2>1, <2>2
  <2>3. CASE u # t
    BY <1>3, <2>3 DEF IInv, Locked
  <2> QED
    BY <2>2, <2>3
<1>10. Handed'
  <2> SUFFICES ASSUME NEW u \in Threads
               PROVE  /\ pc'[u] \in {"deliver", "unshare"} => hand'[u] \in Objects
                      /\ pc'[u] = "deliver" => /\ Holders(hand[u])' = {u}
                                              /\ slot'[hand'[u]] = Null
    BY DEF Handed
  <2>1. CASE u = t
    BY <1>3, <2>1
  <2>2. CASE u # t
    <3>1. pc'[u] = pc[u] /\ hand'[u] = hand[u]
      BY <1>3, <2>2
    <3>2. pc[u] \in {"deliver", "unshare"} => hand[u] \in Objects
      BY DEF IInv, Handed
    <3>3. ASSUME pc[u] = "deliver"
          PROVE  Holders(hand[u])' = {u} /\ slot'[hand[u]] = Null
      <4>1. PICK x \in Objects : x = hand[u]
        BY <3>2, <3>3
      <4>2. Holders(x) = {u} /\ slot[x] = Null
        BY <3>3, <4>1 DEF IInv, Handed
      <4>3. x # o
        BY <1>1, <2>2, <4>2
      <4>4. x # p
        <5>1. ASSUME p \in Objects, x = p
              PROVE  FALSE
          <6>1. \E s \in Slots : s \in Holders(p)
            BY <1>0, <1>4, <5>1
          <6> QED
            BY <1>0, <4>2, <5>1, <6>1
        <5> QED
          BY <1>0, <5>1
      <4>5. Holders(x)' = {u} /\ slot'[x] = Null
        BY <1>0, <1>4, <1>7, <4>2, <4>3, <4>4 DEF Slots
      <4> QED
        BY <3>1, <4>1, <4>5 DEF Holders
    <3> QED
      BY <3>1, <3>2, <3>3
  <2> QED
    BY <2>1, <2>2
<1>11. Stacked'
  <2>1. pc[t] \notin Deaths /\ pc'[t] \notin Deaths
    BY <1>3 DEF Deaths
  <2>2. \A u \in Threads : \A i \in 1 .. Len(dying[u]) : dying[u][i] # o
    BY <1>2 DEF IsDying
  <2>3. ASSUME NEW u \in Threads, NEW i \in 1 .. Len(dying[u])
        PROVE  slot'[dying[u][i]] = slot[dying[u][i]]
    <3>1. dying[u] \in Seq(Objects)
      BY DEF IInv, TypeOK
    <3>2. PICK x \in Objects : x = dying[u][i]
      BY <3>1, ElementOfSeq
    <3>3. x # o /\ x # h /\ x \in Slots
      BY <1>0, <2>2, <3>2 DEF Slots
    <3> QED
      BY <1>4, <3>2, <3>3
  <2> SUFFICES ASSUME NEW u \in Threads
               PROVE  /\ dying[u] # <<>> <=> pc'[u] \in Deaths
                      /\ \A i \in 1 .. Len(dying[u]) :
                           /\ i < Len(dying[u]) => dying[u][i] \in pooled /\ slot'[dying[u][i]] = Null
                           /\ i = Len(dying[u]) =>
                                /\ pc'[u] # "delete" => dying[u][i] \in pooled
                                /\ pc'[u] # "clear" => slot'[dying[u][i]] = Null
    BY DEF Stacked
  <2>4. CASE u = t
    <3>1. dying[t] = <<>>
      BY <2>1 DEF IInv, Stacked
    <3> QED
      BY <2>1, <2>4, <3>1
  <2>5. CASE u # t
    <3>1. pc'[u] = pc[u]
      BY <1>3, <2>5
    <3> QED
      BY <2>3, <3>1 DEF IInv, Stacked
  <2> QED
    BY <2>4, <2>5
<1>12. Holding'
  <2>1. \A x \in Objects : x # o => slot'[x] = slot[x]
    BY <1>0, <1>4 DEF Slots
  <2>2. slot'[o] # Null => o \in live \cap pooled
    BY <1>2, <1>4
  <2> QED
    BY <2>1, <2>2 DEF IInv, Holding
<1>13. Lives'
  <2> SUFFICES ASSUME NEW x \in Objects
               PROVE  /\ x \in live <=> Holders(x)' # {} \/ IsPooled(x) \/ IsDying(x)
                      /\ Holders(x)' # {} => ~IsPooled(x) /\ ~IsDying(x)
                      /\ IsPooled(x) => ~IsDying(x) /\ x \in pooled /\ slot'[x] = Null
    BY DEF Lives, IsPooled, IsDying
  <2>1. /\ x \in live <=> Holders(x) # {} \/ IsPooled(x) \/ IsDying(x)
        /\ Holders(x) # {} => ~IsPooled(x) /\ ~IsDying(x)
        /\ IsPooled(x) => ~IsDying(x) /\ x \in pooled /\ slot[x] = Null
    BY DEF IInv, Lives
  <2>2. CASE x = o
    BY <1>2, <1>6, <2>2
  <2>3. CASE x # o
    <3>1. slot'[x] = slot[x]
      BY <1>0, <1>4, <2>3 DEF Slots
    <3>2. x # p => Holders(x)' = Holders(x)
      BY <1>7, <2>3
    <3>3. x = p => Holders(x)' # {} /\ Holders(x) # {}
      BY <1>0, <1>4, <1>7, <2>3
    <3> QED
      BY <2>1, <3>1, <3>2, <3>3
  <2> QED
    BY <2>2, <2>3
<1>14. CountsExact'
  <2> SUFFICES ASSUME NEW x \in Objects, x \in live
               PROVE  count'[x] = Cardinality(Holders(x)')
    BY DEF CountsExact, IInv, TypeOK
  <2>1. count[x] = Cardinality(Holders(x)) /\ IsFiniteSet(Holders(x))
    BY HoldersFinite DEF IInv, CountsExact
  <2>2. CASE x = o
    <3>1. z # h
      BY <1>0, <1>5
    <3>2. IsFiniteSet({h}) /\ Cardinality({h}) = 1
      BY FS_Singleton
    <3>3. Cardinality({h} \cup {z}) = 1 + 1 /\ {h} \cup {z} = {h, z}
      BY <3>1, <3>2, FS_AddElement
    <3>4. count'[o] = 2 /\ Holders(o)' = {h, z}
      BY ONLY <1>4, <1>6, Zenon
    <3>5. Cardinality({h, z}) = 2
      BY ONLY <3>3, SMT
    <3>6. count'[o] = Cardinality(Holders(o)')
      BY ONLY <3>4, <3>5, Zenon
    <3> QED
      BY <2>2, <3>6
  <2>3. CASE x # o /\ x = p
    <3>1. o \notin Holders(x)
      BY <1>0, <1>1, <2>3 DEF Holders
    <3>2. Cardinality(Holders(x) \cup {o}) = Cardinality(Holders(x)) + 1
      BY <2>1, <3>1, FS_AddElement
    <3>3. Holders(x)' = Holders(x) \cup {o} /\ count'[x] = count[x] + 1
      BY <1>0, <1>4, <1>7, <2>3
    <3> QED
      BY <2>1, <3>2, <3>3
  <2>4. CASE x # o /\ x # p
    BY <1>4, <1>7, <2>1, <2>4
  <2> QED
    BY <2>2, <2>3, <2>4
<1>15. PooledOnce' /\ DiesOnce' /\ Bounded'
  BY DEF IInv, PooledOnce, DiesOnce, Bounded
<1> QED
  BY <1>8, <1>9, <1>10, <1>11, <1>12, <1>13, <1>14, <1>15 DEF IInv
-----------------------------------------------------------------------------
(***************************************************************************)
(* Every step keeps the invariant.                                         *)
(***************************************************************************)
\* The front of the pool is an object of the pool.
LEMMA PoolFront ==
  ASSUME IInv, pool # <<>>
  PROVE  Head(pool) = pool[1] /\ pool[1] \in Objects /\ IsPooled(pool[1])
<1>1. pool \in Seq(Objects)
  BY DEF IInv, TypeOK
<1>2. Len(pool) \in Nat \ {0} /\ Head(pool) = pool[1]
  BY <1>1, EmptySeq
<1>3. 1 \in 1 .. Len(pool)
  BY <1>2
<1> QED
  BY <1>1, <1>2, <1>3, ElementOfSeq DEF IsPooled

\* createRaw() looks at the front of the pool under the lock.
LEMMA CreateRawIInv == ASSUME IInv, NEW t \in Threads, CreateRaw(t) PROVE IInv'
<1>0. Null \notin Threads /\ pc[t] = "idle" /\ mutex = Null
  BY DistinctAssumption DEF CreateRaw, Unlocked
<1>1. /\ pc \in [Threads -> Points] /\ hand \in [Threads -> Objects \cup {Null}]
      /\ maxSize \in Sizes /\ mutex \in Threads \cup {Null}
  BY DEF IInv, TypeOK
<1>2. CASE pool # <<>>
  <2>1. /\ mutex' = t /\ pc' = [pc EXCEPT ![t] = "take"]
        /\ hand' = [hand EXCEPT ![t] = pool[1]] /\ pool[1] \in Objects
    BY <1>2, PoolFront DEF CreateRaw
  <2>2. /\ hand' \in [Threads -> Objects \cup {Null}] /\ hand'[t] = pool[1]
        /\ \A u \in Threads \ {t} : hand'[u] = hand[u]
    BY <1>1, <2>1
  <2>3. Locked'
    BY <1>0, <1>1, <1>2, <2>1, <2>2 DEF IInv, Locked, CreateRaw
  <2>4. "take" \in Points \ {"deliver", "unshare", "clear"} /\ "take" \notin Deaths
    BY DEF Points, Deaths
  <2>5. UNCHANGED <<live, pooled, slot, count, lost, pool, dying>> /\ maxSize' \in Sizes
    BY <1>1 DEF CreateRaw
  <2>6. mutex' \in Threads \cup {Null} /\ pc[t] \notin Deaths
    BY <1>0, <2>1 DEF Deaths
  <2> QED
    BY <1>0, <2>1, <2>2, <2>3, <2>4, <2>5, <2>6, MovesIInv
<1>3. CASE pool = <<>>
  <2>1. pc' = [pc EXCEPT ![t] = "new"] /\ UNCHANGED <<mutex, hand>>
    BY <1>3 DEF CreateRaw
  <2>2. Locked'
    BY <1>0, <1>1, <2>1 DEF IInv, Locked, CreateRaw
  <2>3. "new" \in Points \ {"deliver", "unshare", "clear"} /\ "new" \notin Deaths
    BY DEF Points, Deaths
  <2>4. UNCHANGED <<live, pooled, slot, count, lost, pool, dying>> /\ maxSize' \in Sizes
    BY <1>1 DEF CreateRaw
  <2>5. mutex' \in Threads \cup {Null} /\ pc[t] \notin Deaths
    BY <1>0, <1>1, <2>1 DEF Deaths
  <2> QED
    BY <1>0, <1>1, <2>1, <2>2, <2>3, <2>4, <2>5, MovesIInv
<1> QED
  BY <1>2, <1>3

\* createRaw() takes the object from the pool.
LEMMA TakeIInv == ASSUME IInv, NEW t \in Threads, Take(t) PROVE IInv'
<1>1. /\ pool # <<>> /\ hand[t] = pool[1] /\ pc[t] = "take" /\ mutex = t
  BY DEF IInv, Locked, Take
<1>2. PICK o \in Objects : o = pool[1]
  BY <1>1, PoolFront
<1>3. IsPooled(o)
  BY <1>1, <1>2, PoolFront
<1>4. Holders(o) = {} /\ ~IsDying(o) /\ slot[o] = Null /\ o \in live /\ o \in pooled
  BY <1>3 DEF IInv, Lives
<1>5. count[o] = 0
  BY <1>4, FS_EmptySet DEF IInv, CountsExact
<1>6. /\ pool' \in Seq(Objects) /\ PooledOnce'
      /\ Len(pool) \in Nat /\ Len(pool') = Len(pool) - 1
      /\ \A p \in Objects : IsPooled(p)' <=> IsPooled(p) /\ p # pool[1]
  <2>1. pool \in Seq(Objects) /\ PooledOnce /\ pool' = SubSeq(pool, 2, Len(pool))
    BY DEF IInv, TypeOK, Take
  <2> QED
    BY <1>1, <2>1, PoolPopped
<1>7. Bounded'
  <2>1. PICK n \in Sizes : Len(pool) <= n
    BY DEF IInv, Bounded
  <2>2. n \in Nat
    BY ClientAssumption
  <2>3. Len(pool') <= n
    BY <1>6, <2>1, <2>2
  <2> QED
    BY <2>3 DEF Bounded, Take
<1>8. pc' = [pc EXCEPT ![t] = "deliver"] /\ UNCHANGED <<slot, lost, dying, maxSize, hand>>
  BY DEF Take
<1>9. hand' = [hand EXCEPT ![t] = o] /\ live' = live \cup {o} /\ pooled' = pooled \cup {o}
  BY <1>1, <1>2, <1>4, <1>8 DEF Take, IInv, TypeOK
<1>10. count' = [count EXCEPT ![o] = 1]
  BY <1>1, <1>2, <1>5 DEF Take, IInv, TypeOK
<1>11. mutex' \in Threads \cup {Null} /\ mutex' = Null
  BY DEF Take
<1>12. Locked'
  <2>1. Null \notin Threads
    BY DistinctAssumption
  <2>2. \A u \in Threads : pc'[u] \notin {"take", "push", "drain"}
    BY <1>1, <1>8 DEF IInv, Locked, TypeOK
  <2> QED
    BY <1>11, <2>1, <2>2 DEF Locked
<1>13. \A p \in Objects : IsPooled(p)' <=> IsPooled(p) /\ p # o
  BY <1>2, <1>6
<1> QED
  BY <1>1, <1>4, <1>6, <1>7, <1>8, <1>9, <1>10, <1>11, <1>12, <1>13, FreshIInv

\* A new object comes to the hand of a thread with one reference.
LEMMA ConstructIInv ==
  ASSUME IInv, NEW t \in Threads, NEW o \in Objects \ live, Construct(t, o, 1),
         pc[t] \in {"new", "idle"},
         pooled' = pooled \cup {o} \/ pooled' = pooled \ {o}
  PROVE  IInv'
<1>1. Holders(o) = {} /\ ~IsPooled(o) /\ ~IsDying(o) /\ slot[o] = Null
  BY DEF IInv, Lives, Holding
<1>2. slot' = slot
  BY <1>1 DEF Construct, IInv, TypeOK, Slots
<1>3. /\ pc' = [pc EXCEPT ![t] = "deliver"] /\ hand' = [hand EXCEPT ![t] = o]
      /\ count' = [count EXCEPT ![o] = 1] /\ live' = live \cup {o}
      /\ UNCHANGED <<lost, pool, maxSize, mutex, dying>>
  BY DEF Construct
<1>4. pool' \in Seq(Objects) /\ mutex' \in Threads \cup {Null} /\ PooledOnce' /\ Bounded'
  BY <1>3 DEF IInv, TypeOK, PooledOnce, Bounded
<1>5. \A p \in Objects : IsPooled(p)' <=> IsPooled(p) /\ p # o
  BY <1>1, <1>3 DEF IsPooled
<1>6. Locked'
  <2>1. \A u \in Threads : u # t => pc'[u] = pc[u] /\ hand'[u] = hand[u]
    BY <1>3 DEF IInv, TypeOK
  <2>2. pc'[t] = "deliver" /\ mutex # t
    BY <1>3 DEF IInv, TypeOK, Locked
  <2> SUFFICES ASSUME NEW u \in Threads
        PROVE  /\ mutex = u <=> pc'[u] \in {"take", "push", "drain"}
               /\ pc'[u] = "take" => pool # <<>> /\ hand'[u] = pool[1]
               /\ pc'[u] = "push" => \E n \in Sizes : Len(pool) < n
    BY <1>3 DEF Locked
  <2>3. CASE u = t
    BY <2>2, <2>3
  <2>4. CASE u # t
    BY <2>1, <2>4 DEF IInv, Locked
  <2> QED
    BY <2>3, <2>4
<1>7. o \in Objects /\ pc[t] \in {"take", "new", "idle"}
  OBVIOUS
<1> QED
  BY <1>1, <1>2, <1>3, <1>4, <1>5, <1>6, <1>7, FreshIInv

\* create(), newPath() and their siblings make a smart pointer of the raw pointer.
LEMMA DeliverIInv == ASSUME IInv, NEW t \in Threads, Adopt(t) \/ Wrap(t) PROVE IInv'
<1>1. PICK h \in EmptyHandles(t) : Pointed(t, hand[t], h)
  BY DEF Adopt, Wrap
<1>2. pc[t] = "deliver"
  BY DEF Adopt, Wrap
<1>3. PICK o \in Objects : o = hand[t]
  BY <1>2 DEF IInv, Handed
<1>4. Pointed(t, o, h)
  BY <1>1, <1>3
<1>5. UNCHANGED <<live, pooled, pool, maxSize, mutex, dying>>
  BY DEF Adopt, Wrap
<1>6. CASE Adopt(t)
  <2>1. pc' = [pc EXCEPT ![t] = "unshare"] /\ UNCHANGED <<hand, lost>>
    BY <1>6 DEF Adopt
  <2>2. FALSE \in BOOLEAN
    OBVIOUS
  <2> QED
    BY <1>2, <1>3, <1>4, <1>5, <2>1, <2>2, DeliveredIInv
<1>7. CASE Wrap(t)
  <2>1. /\ pc' = [pc EXCEPT ![t] = "idle"]
        /\ hand' = [hand EXCEPT ![t] = Null]
        /\ lost' = lost \cup {o}
    BY <1>3, <1>7 DEF Wrap
  <2>2. TRUE \in BOOLEAN
    OBVIOUS
  <2> QED
    BY <1>2, <1>3, <1>4, <1>5, <2>1, <2>2, DeliveredIInv
<1> QED
  BY <1>6, <1>7

\* The end of create() drops the delegate's reference.
LEMMA UnshareIInv == ASSUME IInv, NEW t \in Threads, Unshare(t) PROVE IInv'
<1>0. Null \notin Objects /\ Null \notin Threads /\ Slots \cap Threads = {}
  BY DistinctAssumption DEF Slots
<1>1. pc[t] = "unshare" /\ dying[t] = <<>> /\ pc \in [Threads -> Points]
  BY DEF IInv, TypeOK, Stacked, Unshare, Deaths
<1>2. PICK d \in Objects : d = hand[t]
  BY <1>1 DEF IInv, Handed
<1>3. /\ hand' \in [Threads -> Objects \cup {Null}] /\ hand'[t] = Null
      /\ \A u \in Threads \ {t} : hand'[u] = hand[u]
  BY DEF IInv, TypeOK, Unshare
<1>4. UNCHANGED <<live, pooled, slot, lost, pool, maxSize, mutex>>
  BY DEF Unshare
<1>5. Release(t, d, dying[t], "idle") /\ count' = Recounted(Null, d)
  BY <1>1, <1>2 DEF Unshare
<1>6. \A u \in Threads \ {t} : pc'[u] = pc[u]
  BY <1>1, <1>5 DEF Release
<1>7. t \in Holders(d)
  BY <1>1, <1>2 DEF Holders
<1>8. \A o \in Objects : Holders(o)' = IF o = d THEN Holders(o) \ {t} ELSE Holders(o)
  BY <1>0, <1>1, <1>2, <1>3, <1>4, <1>6 DEF Holders
<1>9. Exchanges(t, Null, Null, d, t, "idle")
  BY <1>0, <1>5, <1>7, <1>8 DEF Exchanges
<1>10. /\ slot' \in [Slots -> Objects \cup {Null}]
       /\ \A o \in Objects : slot'[o] = slot[o] \/ slot'[o] = Null
  BY <1>4 DEF IInv, TypeOK
<1> QED
  BY <1>1, <1>3, <1>4, <1>9, <1>10, ExchangeIInv

\* Assignment to a client's smart pointer.
LEMMA AssignIInv ==
  ASSUME IInv, NEW t \in Threads, NEW h \in Handles,
         Reset(t, h) \/ \E g \in Handles : Copy(t, h, g)
  PROVE  IInv'
<1>0. /\ Null \notin Objects /\ Null \notin Threads /\ Slots \cap Threads = {}
      /\ h \in Slots \ Objects
  BY DistinctAssumption DEF Slots
<1>1. pc[t] = "idle" /\ dying[t] = <<>>
  BY DEF IInv, Stacked, Copy, Reset, Deaths
<1>2. UNCHANGED <<live, pooled, lost, pool, maxSize, mutex, hand>>
  BY DEF Copy, Reset
<1>3. PICK a \in Objects \cup {Null} :
        /\ slot' = [slot EXCEPT ![h] = a]
        /\ count' = Recounted(a, slot[h])
        /\ a # slot[h]
        /\ a # Null => \E g \in Handles : slot[g] = a
        /\ Release(t, slot[h], <<>>, "idle")
  <2>1. CASE Reset(t, h)
    BY <2>1 DEF Reset
  <2>2. ASSUME NEW g \in Handles, Copy(t, h, g)
        PROVE  /\ slot[g] \in Objects \cup {Null}
               /\ slot' = [slot EXCEPT ![h] = slot[g]]
               /\ count' = Recounted(slot[g], slot[h])
               /\ slot[g] # slot[h]
               /\ Release(t, slot[h], <<>>, "idle")
    BY <2>2 DEF Copy, IInv, TypeOK, Slots
  <2> QED
    BY <2>1, <2>2
<1>4. PICK d \in Objects \cup {Null} : d = slot[h]
  BY <1>0 DEF IInv, TypeOK
<1>5. /\ slot' \in [Slots -> Objects \cup {Null}] /\ slot'[h] = a
      /\ \A s \in Slots \ {h} : slot'[s] = slot[s]
  BY <1>0, <1>3 DEF IInv, TypeOK
<1>6. \A u \in Threads : pc[u] \in {"deliver", "unshare"} <=> pc'[u] \in {"deliver", "unshare"}
  <2>1. pc \in [Threads -> Points]
    BY DEF IInv, TypeOK
  <2>2. PICK q \in {"idle", "clear", "delete"} : pc' = [pc EXCEPT ![t] = q]
    BY <1>3 DEF Release, Suicide
  <2> QED
    BY <1>1, <2>1, <2>2
<1>7. \A o \in Objects : Holders(o)' = IF o = a THEN Holders(o) \cup {h}
                                       ELSE IF o = d THEN Holders(o) \ {h}
                                       ELSE Holders(o)
  <2> SUFFICES ASSUME NEW o \in Objects
               PROVE  Holders(o)' = IF o = a THEN Holders(o) \cup {h}
                                    ELSE IF o = d THEN Holders(o) \ {h}
                                    ELSE Holders(o)
    OBVIOUS
  <2>1. h # Null /\ h \notin Threads /\ h \in Slots
    BY <1>0, DistinctAssumption DEF Slots
  <2>2. CASE o = a
    BY <1>2, <1>5, <1>6, <2>1, <2>2 DEF Holders
  <2>3. CASE o # a /\ o = d
    BY <1>2, <1>4, <1>5, <1>6, <2>1, <2>3 DEF Holders
  <2>4. CASE o # a /\ o # d
    BY <1>2, <1>4, <1>5, <1>6, <2>1, <2>4 DEF Holders
  <2> QED
    BY <2>2, <2>3, <2>4
<1>8. a # Null => h \notin Holders(a) /\ \E s \in Slots : s \in Holders(a)
  BY <1>0, <1>3, DistinctAssumption DEF Holders, Slots
<1>9. d # Null => h \in Holders(d)
  BY <1>0, <1>4 DEF Holders
<1>10. Exchanges(t, a, h, d, h, "idle")
  BY <1>0, <1>1, <1>3, <1>4, <1>7, <1>8, <1>9 DEF Exchanges
<1>11. /\ \A o \in Objects : slot'[o] = slot[o] \/ slot'[o] = Null
       /\ hand' \in [Threads -> Objects \cup {Null}]
       /\ \A u \in Threads \ {t} : hand'[u] = hand[u]
  BY <1>0, <1>2, <1>5 DEF IInv, TypeOK, Slots
<1> QED
  BY <1>1, <1>2, <1>5, <1>10, <1>11, ExchangeIInv

\* A dying object drops the reference it holds.
LEMMA ClearIInv == ASSUME IInv, NEW t \in Threads, Clear(t) PROVE IInv'
<1>0. /\ Null \notin Objects /\ Null \notin Threads /\ Slots \cap Threads = {}
      /\ Null \notin Slots
  BY DistinctAssumption DEF Slots
<1>1. pc[t] = "clear" /\ dying[t] # <<>> /\ dying[t] \in Seq(Objects)
  BY DEF IInv, TypeOK, Stacked, Clear, Deaths
<1>2. Dying(t) \in Objects
  <2>1. Len(dying[t]) \in Nat \ {0}
    BY <1>1, EmptySeq
  <2>2. Len(dying[t]) \in 1 .. Len(dying[t])
    BY <2>1
  <2> QED
    BY <1>1, <2>2, ElementOfSeq DEF Dying
<1>3. PICK o \in Objects : o = Dying(t)
  BY <1>2
<1>4. o \in Slots /\ o \notin Threads
  BY <1>0 DEF Slots
<1>5. PICK d \in Objects \cup {Null} : d = slot[o]
  BY <1>4 DEF IInv, TypeOK
<1>6. /\ slot' = [slot EXCEPT ![o] = Null] /\ count' = Recounted(Null, d)
      /\ Release(t, d, dying[t], "recycle")
      /\ UNCHANGED <<live, pooled, lost, pool, maxSize, mutex, hand>>
  BY <1>3, <1>5 DEF Clear
<1>7. /\ slot' \in [Slots -> Objects \cup {Null}] /\ slot'[o] = Null
      /\ \A s \in Slots \ {o} : slot'[s] = slot[s]
  BY <1>4, <1>6 DEF IInv, TypeOK
<1>8. \A u \in Threads : pc[u] \in {"deliver", "unshare"} <=> pc'[u] \in {"deliver", "unshare"}
  <2>1. pc \in [Threads -> Points]
    BY DEF IInv, TypeOK
  <2>2. PICK q \in {"recycle", "clear", "delete"} : pc' = [pc EXCEPT ![t] = q]
    BY <1>6 DEF Release, Suicide
  <2> QED
    BY <1>1, <2>1, <2>2
<1>9. \A x \in Objects : Holders(x)' = IF x = d THEN Holders(x) \ {o} ELSE Holders(x)
  <2> SUFFICES ASSUME NEW x \in Objects
               PROVE  Holders(x)' = IF x = d THEN Holders(x) \ {o} ELSE Holders(x)
    OBVIOUS
  <2>1. o # Null /\ x # Null
    BY <1>0
  <2>2. CASE x = d
    BY <1>4, <1>5, <1>6, <1>7, <1>8, <2>1, <2>2 DEF Holders
  <2>3. CASE x # d
    BY <1>4, <1>5, <1>6, <1>7, <1>8, <2>1, <2>3 DEF Holders
  <2> QED
    BY <2>2, <2>3
<1>10. d # Null => o \in Holders(d)
  BY <1>4, <1>5 DEF Holders
<1>11. Exchanges(t, Null, Null, d, o, "recycle")
  BY <1>0, <1>4, <1>6, <1>9, <1>10 DEF Exchanges
<1>12. /\ \A x \in Objects : slot'[x] = slot[x] \/ slot'[x] = Null
       /\ hand' \in [Threads -> Objects \cup {Null}]
       /\ \A u \in Threads \ {t} : hand'[u] = hand[u]
       /\ slot'[Dying(t)] = Null
  BY <1>3, <1>6, <1>7 DEF IInv, TypeOK, Slots
<1> QED
  BY <1>1, <1>6, <1>7, <1>11, <1>12, ExchangeIInv

\* recycle() compares the size of the pool with its maximum, under the lock.
LEMMA RecycleIInv == ASSUME IInv, NEW t \in Threads, Recycle(t) PROVE IInv'
<1>0. Null \notin Threads /\ pc[t] = "recycle" /\ mutex = Null
  BY DistinctAssumption DEF Recycle, Unlocked
<1>1. PICK q \in {"push", "delete"} :
        /\ pc' = [pc EXCEPT ![t] = q]
        /\ q = "push" => mutex' = t /\ Len(pool) < maxSize
        /\ q # "push" => mutex' = mutex
  BY DEF Recycle
<1>2. UNCHANGED <<live, pooled, slot, count, lost, pool, dying, hand, maxSize>>
  BY DEF Recycle
<1>3. /\ maxSize \in Sizes /\ pc \in [Threads -> Points]
      /\ hand \in [Threads -> Objects \cup {Null}]
  BY DEF IInv, TypeOK
<1>4. Locked'
  BY <1>0, <1>1, <1>2, <1>3 DEF IInv, Locked
<1>5. /\ q \in Points \ {"deliver", "unshare", "clear"}
      /\ q \in Deaths /\ pc[t] \in Deaths
      /\ mutex' \in Threads \cup {Null}
  BY <1>0, <1>1 DEF Points, Deaths
<1> QED
  BY <1>0, <1>1, <1>2, <1>3, <1>4, <1>5, MovesIInv

\* The object that dies is cleared, referred to by nobody, and not in the pool.
LEMMA DyingIsFree ==
  ASSUME IInv, NEW t \in Threads, pc[t] \in {"push", "delete"}
  PROVE  /\ Dying(t) \in Objects /\ ~IsPooled(Dying(t)) /\ slot[Dying(t)] = Null
         /\ pc[t] = "push" => Dying(t) \in pooled
         /\ Front(dying[t]) # <<>> <=> Len(dying[t]) > 1
<1>1. dying[t] # <<>> /\ dying[t] \in Seq(Objects)
  BY DEF IInv, TypeOK, Stacked, Deaths
<1>2. Len(dying[t]) \in Nat \ {0}
  BY <1>1, EmptySeq
<1>3. Len(dying[t]) \in 1 .. Len(dying[t])
  BY <1>2
<1>4. PICK o \in Objects : o = Dying(t)
  BY <1>1, <1>3, ElementOfSeq DEF Dying
<1>5. IsDying(o)
  BY <1>3, <1>4 DEF IsDying, Dying
<1>6. ~IsPooled(o)
  BY <1>5 DEF IInv, Lives
<1>7. /\ slot[dying[t][Len(dying[t])]] = Null
      /\ pc[t] = "push" => dying[t][Len(dying[t])] \in pooled
  BY <1>3 DEF IInv, Stacked
<1>8. Front(dying[t]) # <<>> <=> Len(dying[t]) > 1
  <2>1. \A i \in 1 .. Len(dying[t]) - 1 : dying[t][i] \in Objects
    BY <1>1, <1>2, ElementOfSeq
  <2>2. /\ Front(dying[t]) \in Seq(Objects)
        /\ Len(Front(dying[t])) = IF 1 <= Len(dying[t]) - 1 THEN Len(dying[t]) - 1 - 1 + 1 ELSE 0
    BY <1>2, <2>1, SubSeqProperties DEF Front
  <2>3. \A n \in Nat \ {0} : (IF 1 <= n - 1 THEN n - 1 - 1 + 1 ELSE 0) # 0 <=> n > 1
    OBVIOUS
  <2> QED
    BY <1>2, <2>2, <2>3, EmptySeq
<1> QED
  BY <1>4, <1>6, <1>7, <1>8 DEF Dying

\* The cleared object enters the pool.
LEMMA PushIInv == ASSUME IInv, NEW t \in Threads, Push(t) PROVE IInv'
<1>0. Null \notin Threads /\ pc[t] = "push" /\ mutex = t
  BY DistinctAssumption DEF Push, IInv, Locked
<1>1. PICK o \in Objects : o = Dying(t)
  BY <1>0, DyingIsFree
<1>2. ~IsPooled(o) /\ o \in pooled
  BY <1>0, <1>1, DyingIsFree
<1>3. /\ pool' \in Seq(Objects) /\ PooledOnce'
      /\ Len(pool) \in Nat /\ Len(pool') = Len(pool) + 1
      /\ \A p \in Objects : IsPooled(p)' <=> IsPooled(p) \/ p = o
  <2>1. pool \in Seq(Objects) /\ PooledOnce /\ pool' = Append(pool, o)
    BY <1>1 DEF IInv, TypeOK, Push
  <2> QED
    BY <1>2, <2>1, PoolPushed
<1>4. Bounded'
  <2>1. PICK n \in Sizes : Len(pool) < n
    BY <1>0 DEF IInv, Locked
  <2>2. n \in Nat
    BY ClientAssumption
  <2>3. Len(pool') <= n
    BY <1>3, <2>1, <2>2
  <2> QED
    BY <2>3 DEF Bounded
<1>5. /\ dying' = [dying EXCEPT ![t] = Front(dying[t])]
      /\ pc' = [pc EXCEPT ![t] = IF Len(dying[t]) > 1 THEN "recycle" ELSE "idle"]
      /\ mutex' = Null
      /\ UNCHANGED <<live, pooled, slot, count, lost, maxSize, hand>>
  BY DEF Push
<1>6. Locked'
  <2>1. \A u \in Threads : pc'[u] \notin {"take", "push", "drain"}
    BY <1>0, <1>5 DEF IInv, Locked, TypeOK
  <2> QED
    BY <1>0, <1>5, <2>1 DEF Locked
<1>7. /\ live' = (IF TRUE THEN live ELSE live \ {o}) /\ TRUE \in BOOLEAN
      /\ mutex' \in Threads \cup {Null}
      /\ \A p \in Objects : IsPooled(p)' <=> IsPooled(p) \/ (TRUE /\ p = o)
  BY <1>3, <1>5
<1> QED
  BY <1>0, <1>1, <1>2, <1>3, <1>4, <1>5, <1>6, <1>7, DeathOverIInv

\* The object dies for good.
LEMMA DeleteIInv == ASSUME IInv, NEW t \in Threads, Delete(t) PROVE IInv'
<1>0. /\ Null \notin Threads /\ Null \notin Objects /\ pc[t] = "delete" /\ mutex # t
  BY DistinctAssumption DEF Delete, IInv, Locked, Slots
<1>1. PICK o \in Objects : o = Dying(t)
  BY <1>0, DyingIsFree
<1>2. slot[o] = Null
  BY <1>0, <1>1, DyingIsFree
<1>3. /\ slot' = [slot EXCEPT ![o] = Null] /\ count' = Recounted(Null, Null)
      /\ live' = live \ {o}
      /\ Release(t, Null, Front(dying[t]), After(t, Front(dying[t])))
      /\ UNCHANGED <<pool, pooled, lost, maxSize, mutex, hand>>
  BY <1>1, <1>2 DEF Delete, Destroy
<1>4. slot' = slot /\ count' = count
  BY <1>0, <1>2, <1>3 DEF IInv, TypeOK, Recounted, Slots
<1>5. /\ dying' = [dying EXCEPT ![t] = Front(dying[t])]
      /\ pc' = [pc EXCEPT ![t] = IF Len(dying[t]) > 1 THEN "recycle" ELSE "idle"]
  <2>1. After(t, Front(dying[t])) = IF Len(dying[t]) > 1 THEN "recycle" ELSE "idle"
    BY <1>0, DyingIsFree DEF After
  <2> QED
    BY <1>0, <1>3, <2>1 DEF Release
<1>6. Locked'
  <2>1. /\ \A u \in Threads \ {t} : pc'[u] = pc[u]
        /\ pc'[t] \notin {"take", "push", "drain"}
    BY <1>5 DEF IInv, TypeOK
  <2> SUFFICES ASSUME NEW u \in Threads
        PROVE  /\ mutex = u <=> pc'[u] \in {"take", "push", "drain"}
               /\ pc'[u] = "take" => pool # <<>> /\ hand[u] = pool[1]
               /\ pc'[u] = "push" => \E n \in Sizes : Len(pool) < n
    BY <1>3 DEF Locked
  <2>2. CASE u = t
    BY <1>0, <2>1, <2>2
  <2>3. CASE u # t
    BY <2>1, <2>3 DEF IInv, Locked
  <2> QED
    BY <2>2, <2>3
<1>7. pool' \in Seq(Objects) /\ mutex' \in Threads \cup {Null} /\ PooledOnce' /\ Bounded'
  BY <1>3 DEF IInv, TypeOK, PooledOnce, Bounded
<1>8. /\ live' = (IF FALSE THEN live ELSE live \ {o}) /\ FALSE \in BOOLEAN
      /\ \A p \in Objects : IsPooled(p)' <=> IsPooled(p) \/ (FALSE /\ p = o)
  BY <1>3 DEF IsPooled
<1> QED
  BY <1>0, <1>1, <1>3, <1>4, <1>5, <1>6, <1>7, <1>8, DeathOverIInv

\* clear() deletes the front of the pool.
LEMMA DrainIInv == ASSUME IInv, NEW t \in Threads, Drain(t) PROVE IInv'
<1>0. /\ Null \notin Threads /\ Null \notin Objects /\ pc[t] = "drain" /\ pool # <<>>
      /\ mutex = t
  BY DistinctAssumption DEF Drain, IInv, Locked, Slots
<1>1. PICK o \in Objects : o = Head(pool) /\ o = pool[1] /\ IsPooled(o)
  BY <1>0, PoolFront
<1>2. slot[o] = Null /\ Holders(o) = {} /\ ~IsDying(o)
  BY <1>1 DEF IInv, Lives
<1>3. dying[t] = <<>>
  BY <1>0 DEF IInv, Stacked, Deaths
<1>4. /\ slot' = [slot EXCEPT ![o] = Null] /\ count' = Recounted(Null, Null)
      /\ live' = live \ {o}
      /\ Release(t, Null, <<>>, "drain")
      /\ UNCHANGED <<pooled, lost, maxSize, mutex, hand>>
  BY <1>1, <1>2 DEF Drain, Destroy
<1>5. slot' = slot /\ count' = count
  BY <1>0, <1>2, <1>4 DEF IInv, TypeOK, Recounted, Slots
<1>6. pc' = pc /\ dying' = dying
  BY <1>0, <1>3, <1>4 DEF Release, IInv, TypeOK
<1>7. /\ pool' \in Seq(Objects) /\ PooledOnce'
      /\ Len(pool) \in Nat /\ Len(pool') = Len(pool) - 1
      /\ \A p \in Objects : IsPooled(p)' <=> IsPooled(p) /\ p # o
  <2>1. pool \in Seq(Objects) /\ PooledOnce /\ pool' = Tail(pool)
    BY DEF IInv, TypeOK, Drain
  <2> QED
    BY <1>0, <1>1, <2>1, PoolPopped
<1>8. Bounded'
  <2>1. PICK n \in Sizes : Len(pool) <= n
    BY DEF IInv, Bounded
  <2>2. n \in Nat
    BY ClientAssumption
  <2>3. Len(pool') <= n
    BY <1>7, <2>1, <2>2
  <2> QED
    BY <2>3 DEF Bounded
<1>9. TypeOK'
  BY <1>4, <1>5, <1>6, <1>7 DEF IInv, TypeOK
<1>10. \A p : Holders(p)' = Holders(p) /\ (IsDying(p)' <=> IsDying(p))
  BY <1>4, <1>5, <1>6 DEF Holders, IsDying
<1>11. Locked'
  <2>1. \A u \in Threads : pc[u] \notin {"take", "push"}
    BY <1>0 DEF IInv, Locked
  <2> QED
    BY <1>4, <1>6, <2>1 DEF IInv, Locked
<1>12. Handed'
  BY <1>4, <1>5, <1>6, <1>10 DEF IInv, Handed, Holders
<1>13. Stacked'
  BY <1>4, <1>5, <1>6 DEF IInv, Stacked
<1>14. Holding'
  BY <1>2, <1>4, <1>5 DEF IInv, Holding
<1>15. Lives'
  <2> SUFFICES ASSUME NEW p \in Objects
               PROVE  /\ p \in live' <=> Holders(p)' # {} \/ IsPooled(p)' \/ IsDying(p)'
                      /\ Holders(p)' # {} => ~IsPooled(p)' /\ ~IsDying(p)'
                      /\ IsPooled(p)' => ~IsDying(p)' /\ p \in pooled /\ slot[p] = Null
    BY <1>4, <1>5 DEF Lives
  <2>1. /\ p \in live <=> Holders(p) # {} \/ IsPooled(p) \/ IsDying(p)
        /\ Holders(p) # {} => ~IsPooled(p) /\ ~IsDying(p)
        /\ IsPooled(p) => ~IsDying(p) /\ p \in pooled /\ slot[p] = Null
    BY DEF IInv, Lives
  <2>2. CASE p = o
    BY <1>2, <1>4, <1>7, <1>10, <2>2
  <2>3. CASE p # o
    BY <1>4, <1>7, <1>10, <2>1, <2>3
  <2> QED
    BY <2>2, <2>3
<1>16. CountsExact'
  BY <1>4, <1>5, <1>10 DEF IInv, CountsExact
<1>17. DiesOnce'
  BY <1>6 DEF IInv, DiesOnce
<1> QED
  BY <1>7, <1>8, <1>9, <1>11, <1>12, <1>13, <1>14, <1>15, <1>16, <1>17 DEF IInv

\* clear() locks and unlocks, and setMaxSize() writes.
LEMMA ClearPoolIInv ==
  ASSUME IInv, NEW t \in Threads, ClearPool(t) \/ Drained(t) \/ \E n \in Sizes : SetMaxSize(t, n)
  PROVE  IInv'
<1>0. Null \notin Threads
  BY DistinctAssumption
<1>1. /\ maxSize \in Sizes /\ pc \in [Threads -> Points]
      /\ hand \in [Threads -> Objects \cup {Null}]
      /\ mutex \in Threads \cup {Null}
  BY DEF IInv, TypeOK
<1>2. UNCHANGED <<live, pooled, slot, count, lost, pool, dying, hand>>
  BY DEF ClearPool, Drained, SetMaxSize
<1>3. PICK q \in {"idle", "drain"} :
        /\ pc' = [pc EXCEPT ![t] = q]
        /\ pc[t] \in {"idle", "drain"}
        /\ mutex' \in Threads \cup {Null} /\ maxSize' \in Sizes
        /\ Locked'
  <2>1. CASE ClearPool(t)
    <3>1. /\ pc' = [pc EXCEPT ![t] = "drain"] /\ pc[t] = "idle" /\ mutex = Null /\ mutex' = t
          /\ maxSize' = maxSize
      BY <2>1 DEF ClearPool, Unlocked
    <3>2. Locked'
      BY <1>0, <1>1, <1>2, <3>1 DEF IInv, Locked
    <3> QED
      BY <1>1, <3>1, <3>2
  <2>2. CASE Drained(t)
    <3>1. /\ pc' = [pc EXCEPT ![t] = "idle"] /\ pc[t] = "drain" /\ mutex' = Null
          /\ maxSize' = maxSize
      BY <2>2 DEF Drained
    <3>2. Locked'
      BY <1>0, <1>1, <1>2, <3>1 DEF IInv, Locked
    <3> QED
      BY <1>1, <3>1, <3>2
  <2>3. CASE \E n \in Sizes : SetMaxSize(t, n)
    <3>1. pc' = pc /\ pc[t] = "idle" /\ mutex' = mutex /\ maxSize' \in Sizes
      BY <2>3 DEF SetMaxSize
    <3>2. Locked'
      BY <1>2, <3>1 DEF IInv, Locked
    <3>3. pc' = [pc EXCEPT ![t] = "idle"]
      BY <1>1, <3>1
    <3> QED
      BY <1>1, <3>1, <3>2, <3>3
  <2> QED
    BY <2>1, <2>2, <2>3
<1>4. /\ q \in Points \ {"deliver", "unshare", "clear"}
      /\ q \notin Deaths /\ pc[t] \notin Deaths
      /\ pc[t] \notin {"deliver", "unshare", "clear", "push", "delete"}
  BY <1>3 DEF Points, Deaths
<1> QED
  BY <1>1, <1>2, <1>3, <1>4, MovesIInv
-----------------------------------------------------------------------------
(***************************************************************************)
(* The invariant.                                                          *)
(***************************************************************************)
\* It holds before the first call.
LEMMA InitIInv == Init => IInv
<1> SUFFICES ASSUME Init PROVE IInv
  OBVIOUS
<1>0. Null \notin Objects /\ Null \notin Threads
  BY DistinctAssumption DEF Slots
<1>1. TypeOK
  BY DEF Init, TypeOK, Points
<1>2. \A o \in Objects : Holders(o) = {} /\ ~IsPooled(o) /\ ~IsDying(o)
  BY <1>0 DEF Init, Holders, IsPooled, IsDying
<1>3. Lives /\ Holding /\ CountsExact
  BY <1>2 DEF Init, Lives, Holding, CountsExact, Slots
<1>4. Locked
  BY <1>0 DEF Init, Locked
<1>5. Handed
  BY DEF Init, Handed
<1>6. Stacked /\ DiesOnce
  BY DEF Init, Stacked, DiesOnce, Deaths
<1>7. PooledOnce /\ Bounded
  BY ClientAssumption DEF Init, PooledOnce, Bounded
<1> QED
  BY <1>1, <1>3, <1>4, <1>5, <1>6, <1>7 DEF IInv

\* Every step of every thread keeps it, if no delegate returns `new T`.
LEMMA NextIInv == ASSUME "bare" \notin Routes PROVE IInv /\ [Next]_vars => IInv'
<1> SUFFICES ASSUME IInv, [Next]_vars PROVE IInv'
  OBVIOUS
<1>1. ASSUME NEW t \in Threads, Call(t) PROVE IInv'
  <2>1. CASE CreateRaw(t)
    BY <2>1, CreateRawIInv
  <2>2. CASE NewPlain(t)
    <3>1. PICK o \in Objects \ live : Construct(t, o, 1) /\ pooled' = pooled \ {o}
      BY <2>2 DEF NewPlain
    <3>2. pc[t] = "idle"
      BY <2>2 DEF NewPlain
    <3> QED
      BY <3>1, <3>2, ConstructIInv
  <2>3. CASE ClearPool(t) \/ \E n \in Sizes : SetMaxSize(t, n)
    BY <2>3, ClearPoolIInv
  <2>4. CASE \E h \in Handles : Reset(t, h) \/ \E g \in Handles : Copy(t, h, g)
    BY <2>4, AssignIInv
  <2> QED
    BY <1>1, <2>1, <2>2, <2>3, <2>4 DEF Call
<1>2. ASSUME NEW t \in Threads, Step(t) PROVE IInv'
  <2>1. CASE New(t)
    <3>1. PICK o \in Objects \ live : Construct(t, o, 1) /\ pooled' = pooled \cup {o}
      BY <2>1 DEF New
    <3>2. pc[t] = "new"
      BY <2>1 DEF New
    <3> QED
      BY <3>1, <3>2, ConstructIInv
  <2>2. CASE Take(t)
    BY <2>2, TakeIInv
  <2>3. CASE Adopt(t) \/ Wrap(t)
    BY <2>3, DeliverIInv
  <2>4. CASE Unshare(t)
    BY <2>4, UnshareIInv
  <2>5. CASE Clear(t)
    BY <2>5, ClearIInv
  <2>6. CASE Recycle(t)
    BY <2>6, RecycleIInv
  <2>7. CASE Push(t)
    BY <2>7, PushIInv
  <2>8. CASE Delete(t)
    BY <2>8, DeleteIInv
  <2>9. CASE Drain(t)
    BY <2>9, DrainIInv
  <2>10. CASE Drained(t)
    BY <2>10, ClearPoolIInv
  <2> QED
    BY <1>2, <2>1, <2>2, <2>3, <2>4, <2>5, <2>6, <2>7, <2>8, <2>9, <2>10 DEF Step
<1>3. CASE UNCHANGED vars
  <2>1. UNCHANGED <<live, pooled, slot, count, lost, pool, maxSize, mutex, pc, dying, hand>>
    BY <1>3 DEF vars
  <2>2. \A o : /\ Holders(o)' = Holders(o) /\ IsPooled(o)' = IsPooled(o)
              /\ IsDying(o)' = IsDying(o)
    BY <2>1 DEF Holders, IsPooled, IsDying
  <2>3. TypeOK' /\ Locked' /\ Stacked' /\ Holding'
    BY <2>1 DEF IInv, TypeOK, Locked, Stacked, Holding
  <2>4. Handed'
    BY <2>1 DEF IInv, Handed, Holders
  <2>5. Lives' /\ CountsExact'
    BY <2>1, <2>2 DEF IInv, Lives, CountsExact
  <2>6. PooledOnce' /\ DiesOnce' /\ Bounded'
    BY <2>1 DEF IInv, PooledOnce, DiesOnce, Bounded
  <2> QED
    BY <2>3, <2>4, <2>5, <2>6 DEF IInv
<1> QED
  BY <1>1, <1>2, <1>3 DEF Next

\* Whatever the clients of any number of threads call, the invariant holds.
THEOREM Invariance == ASSUME "bare" \notin Routes PROVE Spec => []IInv
<1>1. Init => IInv
  BY InitIInv
<1>2. IInv /\ [Next]_vars => IInv'
  BY NextIInv
<1> QED
  BY <1>1, <1>2, PTL DEF Spec
-----------------------------------------------------------------------------
(***************************************************************************)
(* What follows for the clients of Factory and ReuseObjectPool.            *)
(***************************************************************************)
\* The variables have their types, and an object's count never wraps below zero.
THEOREM TypeCorrect == ASSUME "bare" \notin Routes PROVE Spec => []TypeOK
<1>1. IInv => TypeOK
  BY DEF IInv
<1> QED
  BY <1>1, Invariance, PTL

\* addRef() and releaseRef() keep every counter equal to the number of references.
THEOREM CountsAreExact == ASSUME "bare" \notin Routes PROVE Spec => []CountsExact
<1>1. IInv => CountsExact
  BY DEF IInv
<1> QED
  BY <1>1, Invariance, PTL

\* suicide(), recycle() and delete never hit an object that somebody refers to.
THEOREM NoneInUseDies == ASSUME "bare" \notin Routes PROVE Spec => []HeldIsAlive
<1>1. IInv => HeldIsAlive
  BY DEF IInv, Lives, HeldIsAlive
<1> QED
  BY <1>1, Invariance, PTL

\* createRaw() finds clean objects, each once, and never more than the largest maximum.
THEOREM PoolStaysClean == ASSUME "bare" \notin Routes PROVE Spec => []PoolIsClean
<1>1. IInv => PoolIsClean
  <2> SUFFICES ASSUME IInv PROVE PoolIsClean
    OBVIOUS
  <2>1. ASSUME NEW i \in 1 .. Len(pool)
        PROVE  pool[i] \in live \cap pooled /\ slot[pool[i]] = Null /\ ~IsDying(pool[i])
    <3>1. pool \in Seq(Objects)
      BY DEF IInv, TypeOK
    <3>2. PICK o \in Objects : o = pool[i]
      BY <3>1, ElementOfSeq
    <3>3. IsPooled(o)
      BY <3>2 DEF IsPooled
    <3> QED
      BY <3>2, <3>3 DEF IInv, Lives
  <2> QED
    BY <2>1 DEF IInv, PoolIsClean, PooledOnce, Bounded
<1> QED
  BY <1>1, Invariance, PTL

\* Racing releases run suicide() once.
THEOREM NoneDiesTwice == ASSUME "bare" \notin Routes PROVE Spec => []DiesOnce
<1>1. IInv => DiesOnce
  BY DEF IInv
<1> QED
  BY <1>1, Invariance, PTL

\* Every object that exists is referred to, waits in the pool, or is on its way out.
THEOREM NoneForgotten == ASSUME "bare" \notin Routes PROVE Spec => []NothingForgotten
<1>1. IInv => NothingForgotten
  <2> SUFFICES ASSUME IInv, NEW o \in live
               PROVE  Holders(o) # {} \/ IsPooled(o) \/ IsDying(o)
    BY DEF NothingForgotten
  <2> QED
    BY DEF IInv, TypeOK, Lives
<1> QED
  BY <1>1, Invariance, PTL
-----------------------------------------------------------------------------
(***************************************************************************)
(* Why no thread is stuck.  The mutex is not recursive, and clear() of     *)
(* ReuseObjectPool runs destructors under it.                              *)
(***************************************************************************)
\* What holds up no thread: the guards of the steps of a call.
CanStep(t) ==
  \/ pc[t] \in {"take", "unshare", "clear", "push", "delete", "drain"}
  \/ pc[t] = "recycle" /\ Unlocked
  \/ pc[t] = "new" /\ Objects \ live # {}
  \/ /\ pc[t] = "deliver" /\ EmptyHandles(t) # {}
     /\ hand[t] \in pooled => Routes \cap {"pool", "wrap"} # {}

\* A thread in a call can go on, or it is about to recycle an object while another
\* thread, which can go on, holds the mutex: never the thread itself, although a death
\* under the mutex would have to recycle what it dropped.
NoDeadlock ==
  \A t \in Threads : pc[t] # "idle" =>
    \/ CanStep(t)
    \/ pc[t] = "recycle" /\ \E u \in Threads \ {t} : mutex = u /\ CanStep(u)

\* The threads that are about to construct an object.
Coming == {u \in Threads : pc[u] = "new"}

\* What a call found when it began is there until it uses it: an address for the new
\* object, a smart pointer for the result, and a route that the result can take.
Provided ==
  /\ Cardinality(live) + Cardinality(Coming) <= Cardinality(Objects)
  /\ \A t \in Threads :
       /\ pc[t] \in {"take", "new", "deliver"} => EmptyHandles(t) # {}
       /\ pc[t] = "new" => Routes \cap {"pool", "wrap"} # {}
  /\ pooled # {} => Routes \cap {"pool", "wrap"} # {}

\* A new element makes a finite set larger by one, a removed one smaller.
LEMMA OneMore ==
  ASSUME NEW S, IsFiniteSet(S), NEW x
  PROVE  /\ Cardinality(S) \in Nat
         /\ x \notin S => Cardinality(S \cup {x}) = Cardinality(S) + 1
         /\ x \in S => Cardinality(S \ {x}) = Cardinality(S) - 1
BY FS_AddElement, FS_RemoveElement, FS_CardinalityType

\* The sets that are counted are finite.
LEMMA CountedSets ==
  ASSUME TypeOK
  PROVE  IsFiniteSet(live) /\ IsFiniteSet(Coming) /\ IsFiniteSet(Objects)
<1>1. Coming \subseteq Threads
  BY DEF Coming
<1> QED
  BY <1>1, FiniteAssumption, FS_Subset DEF TypeOK

\* What dies or is drained is an object.
LEMMA DyingObject ==
  ASSUME IInv, NEW t \in Threads
  PROVE  /\ pc[t] \in {"clear", "delete"} => Dying(t) \in Objects
         /\ pool # <<>> => Head(pool) \in Objects
<1>1. CASE pc[t] \in {"clear", "delete"}
  <2>1. dying[t] # <<>> /\ dying[t] \in Seq(Objects)
    BY <1>1 DEF IInv, TypeOK, Stacked, Deaths
  <2>2. Len(dying[t]) \in 1 .. Len(dying[t])
    BY <2>1, EmptySeq
  <2> QED
    BY <1>1, <2>1, <2>2, ElementOfSeq, PoolFront DEF Dying
<1>2. CASE pc[t] \notin {"clear", "delete"}
  BY <1>2, PoolFront
<1> QED
  BY <1>1, <1>2

\* A step of thread t moves no other thread and leaves the others' smart pointers alone.
LEMMA OwnStep ==
  ASSUME IInv, NEW t \in Threads, Call(t) \/ Step(t)
  PROVE  /\ \A u \in Threads \ {t} : pc'[u] = pc[u]
         /\ \A h \in Handles : Owner[h] # t => slot'[h] = slot[h]
<1>0. Objects \cap Handles = {} /\ Null \notin Handles
  BY DistinctAssumption DEF Slots
<1>1. /\ pc \in [Threads -> Points] /\ slot \in [Slots -> Objects \cup {Null}]
      /\ hand[t] \notin Handles /\ Handles \subseteq Slots
  BY <1>0 DEF IInv, TypeOK, Slots
<1>2. ASSUME NEW d, NEW outer, NEW next, Release(t, d, outer, next)
      PROVE  \A u \in Threads \ {t} : pc'[u] = pc[u]
  BY <1>1, <1>2 DEF Release
<1>3. ASSUME NEW o, NEW n, o \in Objects, Construct(t, o, n)
      PROVE  /\ \A u \in Threads \ {t} : pc'[u] = pc[u]
             /\ \A h \in Handles : slot'[h] = slot[h]
  BY <1>0, <1>1, <1>3 DEF Construct
<1>4. ASSUME NEW o, o \notin Handles, NEW outer, NEW next, Destroy(t, o, outer, next)
      PROVE  /\ \A u \in Threads \ {t} : pc'[u] = pc[u]
             /\ \A h \in Handles : slot'[h] = slot[h]
  <2>1. Release(t, slot[o], outer, next) /\ slot' = [slot EXCEPT ![o] = Null]
    BY <1>4 DEF Destroy
  <2> QED
    BY <1>1, <1>2, <1>4, <2>1
<1>5. CASE \/ CreateRaw(t) \/ Take(t) \/ Recycle(t) \/ Push(t) \/ ClearPool(t) \/ Drained(t)
           \/ \E n \in Sizes : SetMaxSize(t, n)
  BY <1>1, <1>5 DEF CreateRaw, Take, Recycle, Push, ClearPool, Drained, SetMaxSize
<1>6. CASE NewPlain(t) \/ New(t)
  BY <1>3, <1>6 DEF NewPlain, New
<1>7. CASE Adopt(t) \/ Wrap(t)
  <2>1. PICK h \in EmptyHandles(t) : Pointed(t, hand[t], h)
    BY <1>7 DEF Adopt, Wrap
  <2>2. \A g \in Handles \ {h} : slot'[g] = slot[g]
    BY <1>1, <2>1 DEF Pointed
  <2>3. Owner[h] = t
    BY <2>1 DEF EmptyHandles
  <2> QED
    BY <1>1, <1>7, <2>2, <2>3 DEF Adopt, Wrap
<1>8. CASE Unshare(t)
  BY <1>2, <1>8 DEF Unshare
<1>9. CASE \E h \in Handles : Reset(t, h) \/ \E g \in Handles : Copy(t, h, g)
  BY <1>1, <1>2, <1>9 DEF Reset, Copy
<1>10. CASE Clear(t) \/ Delete(t) \/ Drain(t)
  <2>1. /\ pc[t] \in {"clear", "delete"} => Dying(t) \notin Handles
        /\ pool # <<>> => Head(pool) \notin Handles
    BY <1>0, DyingObject
  <2>2. CASE Clear(t)
    <3>1. /\ Release(t, slot[Dying(t)], dying[t], "recycle")
          /\ slot' = [slot EXCEPT ![Dying(t)] = Null]
          /\ Dying(t) \notin Handles
      BY <2>1, <2>2 DEF Clear
    <3> QED
      BY <1>1, <1>2, <3>1
  <2>3. CASE Delete(t) \/ Drain(t)
    BY <1>4, <2>1, <2>3 DEF Delete, Drain
  <2> QED
    BY <1>10, <2>2, <2>3
<1> QED
  BY <1>5, <1>6, <1>7, <1>8, <1>9, <1>10 DEF Call, Step

\* The step of a call either takes up an object, brings it to the hand, or does neither.
Begins(t) ==
  /\ pc[t] = "idle" /\ EmptyHandles(t) # {} /\ Routes \cap {"pool", "wrap"} # {}
  /\ pc'[t] = "take" \/ (pc'[t] = "new" /\ RoomForNew)
  /\ UNCHANGED <<live, pooled, slot>>

Takes(t) == pc[t] = "take" /\ pc'[t] = "deliver" /\ UNCHANGED <<live, pooled, slot>>

Constructs(t) ==
  /\ \/ pc[t] = "new"
     \/ pc[t] = "idle" /\ RoomForNew /\ EmptyHandles(t) # {} /\ pooled' \subseteq pooled
  /\ pc'[t] = "deliver"
  /\ \E o \in Objects \ live : live' = live \cup {o}
  /\ \A h \in Handles : slot'[h] = slot[h]

GoesBy(t) ==
  /\ pc[t] # "new" /\ pc'[t] \notin {"take", "new", "deliver"}
  /\ live' \subseteq live /\ pooled' = pooled

LEMMA StepKinds ==
  ASSUME IInv, NEW t \in Threads, Call(t) \/ Step(t)
  PROVE  Begins(t) \/ Takes(t) \/ Constructs(t) \/ GoesBy(t)
<1>0. Objects \cap Handles = {}
  BY DistinctAssumption
<1>1. pc \in [Threads -> Points] /\ slot \in [Slots -> Objects \cup {Null}] /\ Handles \subseteq Slots
  BY DEF IInv, TypeOK, Slots
<1>2. ASSUME NEW d, NEW outer, NEW next, Release(t, d, outer, next),
             next \notin {"take", "new", "deliver"}
      PROVE  pc'[t] \notin {"take", "new", "deliver"}
  BY <1>1, <1>2 DEF Release, Suicide
<1>3. CASE CreateRaw(t)
  <2>1. /\ pc[t] = "idle" /\ EmptyHandles(t) # {} /\ Routes \cap {"pool", "wrap"} # {}
        /\ UNCHANGED <<live, pooled, slot>>
    BY <1>3 DEF CreateRaw
  <2>2. pc' = [pc EXCEPT ![t] = "take"] \/ (pc' = [pc EXCEPT ![t] = "new"] /\ RoomForNew)
    BY <1>3 DEF CreateRaw
  <2>3. pc'[t] = "take" \/ (pc'[t] = "new" /\ RoomForNew)
    BY <1>1, <2>2
  <2> QED
    BY <2>1, <2>3 DEF Begins
<1>4. CASE Take(t)
  BY <1>1, <1>4 DEF Take, Takes
<1>5. ASSUME NEW o \in Objects \ live, NEW n, Construct(t, o, n)
      PROVE  /\ pc'[t] = "deliver" /\ live' = live \cup {o}
             /\ \A h \in Handles : slot'[h] = slot[h]
  BY <1>0, <1>1, <1>5 DEF Construct
<1>6. CASE New(t)
  BY <1>5, <1>6 DEF New, Constructs
<1>7. CASE NewPlain(t)
  <2>1. pc[t] = "idle" /\ RoomForNew /\ EmptyHandles(t) # {}
    BY <1>7 DEF NewPlain
  <2>2. PICK o \in Objects \ live, n \in {0, 1} : Construct(t, o, n) /\ pooled' = pooled \ {o}
    BY <1>7 DEF NewPlain
  <2> QED
    BY <1>5, <2>1, <2>2 DEF Constructs
<1>8. CASE Adopt(t) \/ Wrap(t)
  BY <1>1, <1>8 DEF Adopt, Wrap, GoesBy
<1>9. CASE Unshare(t) \/ Clear(t)
  BY <1>2, <1>9 DEF Unshare, Clear, GoesBy
<1>10. CASE \E h \in Handles : Reset(t, h) \/ \E g \in Handles : Copy(t, h, g)
  BY <1>2, <1>10 DEF Reset, Copy, GoesBy
<1>11. CASE Recycle(t) \/ Push(t)
  BY <1>1, <1>11 DEF Recycle, Push, GoesBy
<1>12. CASE Delete(t) \/ Drain(t)
  <2>1. \A outer : After(t, outer) \notin {"take", "new", "deliver"}
    BY DEF After
  <2>2. PICK o, outer, next : /\ Destroy(t, o, outer, next)
                              /\ next \notin {"take", "new", "deliver"}
    BY <1>12, <2>1 DEF Delete, Drain
  <2>3. Release(t, slot[o], outer, next) /\ live' = live \ {o} /\ pooled' = pooled
    BY <2>2 DEF Destroy
  <2> QED
    BY <1>2, <1>12, <2>2, <2>3 DEF Delete, Drain, GoesBy
<1>13. CASE ClearPool(t) \/ Drained(t) \/ \E n \in Sizes : SetMaxSize(t, n)
  BY <1>1, <1>13 DEF ClearPool, Drained, SetMaxSize, GoesBy
<1> QED
  BY <1>3, <1>4, <1>6, <1>7, <1>8, <1>9, <1>10, <1>11, <1>12, <1>13 DEF Call, Step

\* Every step leaves what other calls have found, and what its own still needs.
LEMMA StepProvides ==
  ASSUME IInv, Provided, NEW t \in Threads, Call(t) \/ Step(t)
  PROVE  Provided'
<1>0. /\ IsFiniteSet(live) /\ IsFiniteSet(Coming) /\ IsFiniteSet(Objects)
      /\ Cardinality(live) \in Nat /\ Cardinality(Coming) \in Nat
      /\ Cardinality(Objects) \in Nat
  BY CountedSets, FS_CardinalityType DEF IInv
<1>1. /\ \A u \in Threads \ {t} : pc'[u] = pc[u]
      /\ \A h \in Handles : Owner[h] # t => slot'[h] = slot[h]
      /\ Begins(t) \/ Takes(t) \/ Constructs(t) \/ GoesBy(t)
  BY OwnStep, StepKinds
<1>2. \A u \in Threads \ {t} : EmptyHandles(u)' = EmptyHandles(u)
  BY <1>1 DEF EmptyHandles
<1>3. (\A h \in Handles : slot'[h] = slot[h]) => EmptyHandles(t)' = EmptyHandles(t)
  BY DEF EmptyHandles
<1>4. /\ pc'[t] = "new" /\ pc[t] # "new" => Coming' = Coming \cup {t} /\ t \notin Coming
      /\ pc[t] = "new" /\ pc'[t] # "new" => Coming' = Coming \ {t} /\ t \in Coming
      /\ pc[t] # "new" /\ pc'[t] # "new" => Coming' = Coming
  BY <1>1 DEF Coming
<1>5. RoomForNew => Cardinality(live) + Cardinality(Coming) < Cardinality(Objects)
  BY DEF RoomForNew, Coming
<1>6. /\ Cardinality(Coming \cup {t}) = Cardinality(Coming) + 1 \/ t \in Coming
      /\ Cardinality(Coming \ {t}) = Cardinality(Coming) - 1 \/ t \notin Coming
      /\ \A o : o \notin live => Cardinality(live \cup {o}) = Cardinality(live) + 1
  BY <1>0, OneMore
<1>7. Cardinality(live)' + Cardinality(Coming)' <= Cardinality(Objects)
  <2>0. Cardinality(live) + Cardinality(Coming) <= Cardinality(Objects)
    BY DEF Provided
  <2>1. CASE Begins(t)
    <3>1. pc[t] # "new" /\ Cardinality(live)' = Cardinality(live)
      BY <2>1 DEF Begins
    <3>2. CASE pc'[t] = "new"
      <4>1. Cardinality(Coming)' = Cardinality(Coming) + 1 /\ RoomForNew
        BY <1>4, <1>6, <2>1, <3>1, <3>2 DEF Begins
      <4> QED
        BY <1>0, <1>5, <3>1, <4>1
    <3>3. CASE pc'[t] # "new"
      BY <1>4, <2>0, <3>1, <3>3
    <3> QED
      BY <3>2, <3>3
  <2>2. CASE Takes(t)
    BY <1>4, <2>0, <2>2 DEF Takes
  <2>3. CASE Constructs(t)
    <3>1. Cardinality(live)' = Cardinality(live) + 1
      BY <1>6, <2>3 DEF Constructs
    <3>2. CASE pc[t] = "new"
      <4>1. Cardinality(Coming)' = Cardinality(Coming) - 1
        BY <1>4, <1>6, <2>3, <3>2 DEF Constructs
      <4> QED
        BY <1>0, <2>0, <3>1, <4>1
    <3>3. CASE pc[t] # "new"
      <4>1. Cardinality(Coming)' = Cardinality(Coming) /\ RoomForNew
        BY <1>4, <2>3, <3>3 DEF Constructs
      <4> QED
        BY <1>0, <1>5, <3>1, <4>1
    <3> QED
      BY <3>2, <3>3
  <2>4. CASE GoesBy(t)
    <3>1. Cardinality(live') <= Cardinality(live) /\ Cardinality(live') \in Nat
      BY <1>0, <2>4, FS_Subset, FS_CardinalityType DEF GoesBy
    <3> QED
      BY <1>0, <1>4, <2>0, <2>4, <3>1 DEF GoesBy
  <2> QED
    BY <1>1, <2>1, <2>2, <2>3, <2>4
<1>8. /\ pc'[t] \in {"take", "new", "deliver"} => EmptyHandles(t)' # {}
      /\ pc'[t] = "new" => Routes \cap {"pool", "wrap"} # {}
  <2>1. CASE Begins(t) \/ Takes(t)
    BY <1>3, <2>1 DEF Begins, Takes, Provided
  <2>2. CASE Constructs(t)
    BY <1>3, <2>2 DEF Constructs, Provided
  <2>3. CASE GoesBy(t)
    BY <2>3 DEF GoesBy
  <2> QED
    BY <1>1, <2>1, <2>2, <2>3
<1>9. pooled' # {} => Routes \cap {"pool", "wrap"} # {}
  BY <1>1 DEF Begins, Takes, Constructs, GoesBy, Provided
<1> QED
  BY <1>1, <1>2, <1>7, <1>8, <1>9 DEF Provided

\* With what it was provided with, no thread in a call is stuck.
LEMMA InvariantNoDeadlock == IInv /\ Provided => NoDeadlock
<1> SUFFICES ASSUME IInv, Provided, NEW t \in Threads, pc[t] # "idle", ~ CanStep(t)
             PROVE  pc[t] = "recycle" /\ \E u \in Threads \ {t} : mutex = u /\ CanStep(u)
  BY DEF NoDeadlock
<1>1. pc[t] \in Points /\ mutex \in Threads \cup {Null} /\ live \subseteq Objects
  BY DEF IInv, TypeOK
<1>2. pc[t] # "new"
  <2>1. CASE pc[t] = "new"
    <3>1. t \in Coming
      BY <2>1 DEF Coming
    <3>2. Cardinality(live) < Cardinality(Objects)
      <4>1. /\ IsFiniteSet(live) /\ IsFiniteSet(Coming) /\ IsFiniteSet(Objects)
            /\ Cardinality(live) \in Nat /\ Cardinality(Coming) \in Nat
            /\ Cardinality(Objects) \in Nat
        BY CountedSets, FS_CardinalityType DEF IInv
      <4>2. Cardinality(Coming) # 0
        BY <3>1, <4>1, FS_EmptySet
      <4>3. Cardinality(live) + Cardinality(Coming) <= Cardinality(Objects)
        BY DEF Provided
      <4> QED
        BY <4>1, <4>2, <4>3
    <3>3. live # Objects
      BY <3>2, CountedSets, FS_CardinalityType DEF IInv
    <3> QED
      BY <1>1, <2>1, <3>3 DEF CanStep
  <2> QED
    BY <2>1
<1>3. pc[t] # "deliver"
  BY DEF CanStep, Provided
<1>4. pc[t] = "recycle" /\ mutex # Null
  BY <1>1, <1>2, <1>3 DEF CanStep, Points, Unlocked
<1>5. PICK u \in Threads : u = mutex
  BY <1>1, <1>4
<1>6. pc[u] \in {"take", "push", "drain"}
  BY <1>5 DEF IInv, Locked
<1> QED
  BY <1>4, <1>5, <1>6 DEF CanStep

\* The mutex is never asked for by the thread that holds it, and who waits for it waits
\* for a thread that can go on; so clear() may delete objects under it.
THEOREM NobodyLockedOut == ASSUME "bare" \notin Routes PROVE Spec => []NoDeadlock
<1>1. Init => Provided
  <2> SUFFICES ASSUME Init PROVE Provided
    OBVIOUS
  <2>1. Coming = {} /\ live = {} /\ pooled = {}
    BY DEF Init, Coming
  <2>2. Cardinality({}) = 0 /\ Cardinality(Objects) \in Nat
    BY FiniteAssumption, FS_EmptySet, FS_CardinalityType
  <2> QED
    BY <2>1, <2>2 DEF Init, Provided
<1>2. IInv /\ Provided /\ [Next]_vars => Provided'
  <2> SUFFICES ASSUME IInv, Provided, [Next]_vars PROVE Provided'
    OBVIOUS
  <2>1. CASE Next
    BY <2>1, StepProvides DEF Next
  <2>2. CASE UNCHANGED vars
    BY <2>2 DEF vars, Provided, Coming, EmptyHandles
  <2> QED
    BY <2>1, <2>2
<1>3. IInv /\ Provided => NoDeadlock
  BY InvariantNoDeadlock
<1> QED
  BY <1>1, <1>2, <1>3, Invariance, PTL DEF Spec
=============================================================================
