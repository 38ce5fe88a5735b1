------------------------------ MODULE ObjectPool ------------------------------
(***************************************************************************)
(* Reference counted objects (refcounter.h, irefcounter.h) of one class,   *)
(* the smart pointers that hold them, and the ReuseObjectPool they return  *)
(* to when their count reaches zero.  Several threads create, copy and     *)
(* drop references.  The object whose last reference is dropped is cleared *)
(* outside the pool's mutex, which drops the reference it holds itself (as *)
(* Path::clear() drops _parent), so deaths nest: dying[t] is the call      *)
(* stack of suicide() calls of thread t.                                   *)
(***************************************************************************)
EXTENDS Naturals, Sequences, FiniteSets

CONSTANTS
  Objects,   \* addresses of objects: how many may exist at a time is a bound
  Handles,   \* smart pointers of the clients
  Threads,
  Owner,     \* Owner[h]: the thread that handle h is local to
  Routes,    \* the ways the clients obtain objects, a subset of AllRoutes
  Sizes,     \* the maximum sizes the pool is given
  Null       \* the null pointer; no thread

\* "pool":  inscribed with a delegate that calls createFromPoolRaw()
\* "plain": inscribed with defaultDelegate()
\* "bare":  inscribed with a delegate that returns `new T`
\* "wrap":  Goap::new...() and createFromPool()
AllRoutes == {"pool", "plain", "bare", "wrap"}

Slots == Handles \cup Objects   \* intrusive_ptr variables; slot o is the member of object o

ASSUME FiniteAssumption == IsFiniteSet(Objects) /\ IsFiniteSet(Handles) /\ IsFiniteSet(Threads)

ASSUME DistinctAssumption ==
  /\ Objects \cap Handles = {}
  /\ Slots \cap Threads = {}
  /\ Null \notin Slots \cup Threads

ASSUME ClientAssumption ==
  /\ Owner \in [Handles -> Threads]
  /\ Routes \subseteq AllRoutes
  /\ Sizes \subseteq Nat /\ Sizes # {}

VARIABLES
  live,     \* objects constructed and not deleted
  pooled,   \* those whose class is a RecyclableWrapper
  slot,     \* what each smart pointer points to
  count,    \* _refcount
  lost,     \* objects with a reference that no smart pointer will ever drop
  pool,     \* _pool
  maxSize,  \* _maxSize
  mutex,    \* the thread in a critical section of the pool, or Null
  pc,       \* where each thread is
  dying,    \* the objects whose suicide() each thread is executing, the innermost last
  hand      \* the raw pointer a thread got from the pool or from new

vars == <<live, pooled, slot, count, lost, pool, maxSize, mutex, pc, dying, hand>>

Points == {"idle", "take", "new", "deliver", "unshare",
           "clear", "recycle", "push", "delete", "drain"}
-----------------------------------------------------------------------------
(***************************************************************************)
(* References.                                                             *)
(***************************************************************************)
\* The holders of a reference to o: smart pointers, threads between the
\* reference that create() or the delegate took and its hand-over, and Null for
\* the reference that is lost.
Holders(o) == {s \in Slots : slot[s] = o}
         \cup {t \in Threads : hand[t] = o /\ pc[t] \in {"deliver", "unshare"}}
         \cup {n \in {Null} : o \in lost}

\* The counts after a reference to `gained` is taken and one to `dropped` is given up.
FaultRecounted(gained, dropped) ==
  [o \in Objects |-> IF o = dropped /\ o # gained THEN count[o] - 1 ELSE count[o]]

Recounted(gained, dropped) ==
  [o \in Objects |-> IF o = gained /\ o # dropped THEN count[o] + 1
                     ELSE IF o = dropped /\ o # gained THEN count[o] - 1
                     ELSE count[o]]

\* suicide(): a RecyclableWrapper recycles itself, any other object deletes itself.
Suicide(o) == IF o \in pooled THEN "clear" ELSE "delete"

\* intrusive_ptr_release(): thread t drops a reference to p, if p is an object,
\* while the deaths in `outer` go on, and continues at `next` unless p dies too.
FaultRelease(t, p, outer, next) ==
  IF p \in Objects /\ count[p] <= 2
    THEN /\ dying' = [dying EXCEPT ![t] = Append(outer, p)]
         /\ pc' = [pc EXCEPT ![t] = Suicide(p)]
    ELSE /\ dying' = [dying EXCEPT ![t] = outer]
         /\ pc' = [pc EXCEPT ![t] = next]

Release(t, p, outer, next) ==
  IF p \in Objects /\ count[p] = 1
    THEN /\ dying' = [dying EXCEPT ![t] = Append(outer, p)]
         /\ pc' = [pc EXCEPT ![t] = Suicide(p)]
    ELSE /\ dying' = [dying EXCEPT ![t] = outer]
         /\ pc' = [pc EXCEPT ![t] = next]

\* Where thread t continues when the innermost death is over.
Front(s) == SubSeq(s, 1, Len(s) - 1)
Dying(t) == dying[t][Len(dying[t])]
After(t, outer) == IF outer # <<>> THEN "recycle"
                   ELSE IF mutex = t THEN "drain" ELSE "idle"
-----------------------------------------------------------------------------
(***************************************************************************)
(* The pool's mutex.  A critical section is two steps where it reads and   *)
(* then writes, so that the lock is what keeps it atomic.                  *)
(***************************************************************************)
FaultUnlocked == TRUE

Unlocked == mutex = Null

\* BOUND: new T is called only while an address of Objects is free.
RoomForNew ==
  Cardinality(live) + Cardinality({u \in Threads : pc[u] = "new"}) < Cardinality(Objects)

EmptyHandles(t) == {h \in Handles : Owner[h] = t /\ slot[h] = Null}

\* createRaw(): lock; the front of the pool if there is one, a new object otherwise.
CreateRaw(t) ==
  /\ pc[t] = "idle" /\ Unlocked /\ EmptyHandles(t) # {}
  /\ Routes \cap {"pool", "wrap"} # {}
  /\ IF pool # <<>>
       THEN /\ mutex' = t
            /\ hand' = [hand EXCEPT ![t] = Head(pool)]
            /\ pc' = [pc EXCEPT ![t] = "take"]
       ELSE /\ RoomForNew
            /\ pc' = [pc EXCEPT ![t] = "new"]
            /\ UNCHANGED <<mutex, hand>>
  /\ UNCHANGED <<live, pooled, slot, count, lost, pool, maxSize, dying>>

\* The pop of createRaw() and the unlock, then the reference create() adds.
Take(t) ==
  /\ pc[t] = "take"
  /\ pool' = SubSeq(pool, 2, Len(pool))
  /\ mutex' = Null
  /\ count' = [count EXCEPT ![hand[t]] = @ + 1]
  /\ pc' = [pc EXCEPT ![t] = "deliver"]
  /\ UNCHANGED <<live, pooled, slot, lost, maxSize, dying, hand>>

\* A new object o with n references in the hand of t.
Construct(t, o, n) ==
  /\ live' = live \cup {o}
  /\ slot' = [slot EXCEPT ![o] = Null]
  /\ count' = [count EXCEPT ![o] = n]
  /\ hand' = [hand EXCEPT ![t] = o]
  /\ pc' = [pc EXCEPT ![t] = "deliver"]
  /\ UNCHANGED <<lost, pool, maxSize, mutex, dying>>

\* _fnNewInstance(), outside the lock, and the reference create() adds.
New(t) ==
  /\ pc[t] = "new"
  /\ \E o \in Objects \ live : Construct(t, o, 1) /\ pooled' = pooled \cup {o}

\* A delegate that does not use the pool: defaultDelegate() adds a reference, a
\* delegate written by a client as `new T` does not.
NewPlain(t) ==
  /\ pc[t] = "idle" /\ RoomForNew /\ EmptyHandles(t) # {}
  /\ \E o \in Objects \ live, route \in Routes \cap {"plain", "bare"} :
       /\ Construct(t, o, IF route = "plain" THEN 1 ELSE 0)
       /\ pooled' = pooled \ {o}
-----------------------------------------------------------------------------
(***************************************************************************)
(* From the raw pointer to a smart pointer.                                *)
(***************************************************************************)
\* The objects a delegate may give o as its parent: those the caller holds.
Parents(t, o) == {p \in Objects : /\ {o, p} \subseteq pooled
                                  /\ \E g \in Handles : Owner[g] = t /\ slot[g] = p}

\* Smart pointer h takes object o, to which the delegate may have given a parent.
Pointed(t, o, h) ==
  \/ /\ slot' = [slot EXCEPT ![h] = o]
     /\ count' = Recounted(o, Null)
  \/ \E p \in Parents(t, o) :
       /\ slot' = [slot EXCEPT ![h] = o, ![o] = p]
       /\ count' = [count EXCEPT ![o] = @ + 1, ![p] = @ + 1]

\* Factory::create() with copyDefault(): h refers to the object while the
\* shared_ptr made by getInstance() still owns the delegate's reference.
Adopt(t) ==
  /\ pc[t] = "deliver"
  /\ hand[t] \in pooled => "pool" \in Routes
  /\ \E h \in EmptyHandles(t) : Pointed(t, hand[t], h)
  /\ pc' = [pc EXCEPT ![t] = "unshare"]
  /\ UNCHANGED <<live, pooled, lost, pool, maxSize, mutex, dying, hand>>

\* The end of create(): the shared_ptr's deleter drops the delegate's reference.
Unshare(t) ==
  /\ pc[t] = "unshare"
  /\ Release(t, hand[t], <<>>, "idle")
  /\ count' = Recounted(Null, hand[t])
  /\ hand' = [hand EXCEPT ![t] = Null]
  /\ UNCHANGED <<live, pooled, slot, lost, pool, maxSize, mutex>>

\* Goap::new...() and createFromPool(): the raw pointer, whose count is one
\* already, becomes an intrusive_ptr, which counts again.
Wrap(t) ==
  /\ pc[t] = "deliver" /\ hand[t] \in pooled /\ "wrap" \in Routes
  /\ \E h \in EmptyHandles(t) : Pointed(t, hand[t], h)
  /\ lost' = lost \cup {hand[t]}
  /\ hand' = [hand EXCEPT ![t] = Null]
  /\ pc' = [pc EXCEPT ![t] = "idle"]
  /\ UNCHANGED <<live, pooled, pool, maxSize, mutex, dying>>
-----------------------------------------------------------------------------
(***************************************************************************)
(* Clients' smart pointers.  A thread assigns to its own handles; it may   *)
(* copy another's while that thread is in no call (it captured it, or      *)
(* joined it).                                                             *)
(***************************************************************************)
Copy(t, h, g) ==
  /\ pc[t] = "idle" /\ Owner[h] = t
  /\ pc[Owner[g]] = "idle" /\ slot[g] # Null /\ slot[h] # slot[g]
  /\ slot' = [slot EXCEPT ![h] = slot[g]]
  /\ count' = Recounted(slot[g], slot[h])
  /\ Release(t, slot[h], <<>>, "idle")
  /\ UNCHANGED <<live, pooled, lost, pool, maxSize, mutex, hand>>

Reset(t, h) ==
  /\ pc[t] = "idle" /\ Owner[h] = t /\ slot[h] # Null
  /\ slot' = [slot EXCEPT ![h] = Null]
  /\ count' = Recounted(Null, slot[h])
  /\ Release(t, slot[h], <<>>, "idle")
  /\ UNCHANGED <<live, pooled, lost, pool, maxSize, mutex, hand>>
-----------------------------------------------------------------------------
(***************************************************************************)
(* The death of an object.                                                 *)
(***************************************************************************)
\* clearObject() of recycle(), outside the lock.
FaultClear(t) ==
  /\ pc[t] = "clear"
  /\ pc' = [pc EXCEPT ![t] = "recycle"]
  /\ UNCHANGED <<live, pooled, slot, count, lost, pool, maxSize, mutex, dying, hand>>

Clear(t) ==
  /\ pc[t] = "clear"
  /\ LET o == Dying(t) IN
       /\ slot' = [slot EXCEPT ![o] = Null]
       /\ count' = Recounted(Null, slot[o])
       /\ Release(t, slot[o], dying[t], "recycle")
  /\ UNCHANGED <<live, pooled, lost, pool, maxSize, mutex, hand>>

\* The critical section of recycle(): is there room in the pool?
Recycle(t) ==
  /\ pc[t] = "recycle" /\ Unlocked
  /\ IF Len(pool) < maxSize
       THEN mutex' = t /\ pc' = [pc EXCEPT ![t] = "push"]
       ELSE pc' = [pc EXCEPT ![t] = "delete"] /\ UNCHANGED mutex
  /\ UNCHANGED <<live, pooled, slot, count, lost, pool, maxSize, dying, hand>>

Push(t) ==
  /\ pc[t] = "push"
  /\ pool' = Append(pool, Dying(t))
  /\ mutex' = Null
  /\ dying' = [dying EXCEPT ![t] = Front(@)]
  /\ pc' = [pc EXCEPT ![t] = IF Len(dying[t]) > 1 THEN "recycle" ELSE "idle"]
  /\ UNCHANGED <<live, pooled, slot, count, lost, maxSize, hand>>

\* delete: the destructor drops the reference the object holds.
Destroy(t, o, outer, next) ==
  /\ live' = live \ {o}
  /\ slot' = [slot EXCEPT ![o] = Null]
  /\ count' = Recounted(Null, slot[o])
  /\ Release(t, slot[o], outer, next)
  /\ UNCHANGED <<pooled, lost, maxSize, mutex, hand>>

Delete(t) ==
  /\ pc[t] = "delete"
  /\ Destroy(t, Dying(t), Front(dying[t]), After(t, Front(dying[t])))
  /\ UNCHANGED pool
-----------------------------------------------------------------------------
(***************************************************************************)
(* The pool's other members.                                               *)
(***************************************************************************)
\* ReuseObjectPool::clear() deletes every object under the lock.
ClearPool(t) ==
  /\ pc[t] = "idle" /\ Unlocked
  /\ mutex' = t
  /\ pc' = [pc EXCEPT ![t] = "drain"]
  /\ UNCHANGED <<live, pooled, slot, count, lost, pool, maxSize, dying, hand>>

FaultDrain(t) ==
  /\ pc[t] = "drain" /\ pool # <<>>
  /\ UNCHANGED pool
  /\ Destroy(t, Head(pool), <<>>, "drain")

Drain(t) ==
  /\ pc[t] = "drain" /\ pool # <<>>
  /\ pool' = Tail(pool)
  /\ Destroy(t, Head(pool), <<>>, "drain")

Drained(t) ==
  /\ pc[t] = "drain" /\ pool = <<>>
  /\ mutex' = Null
  /\ pc' = [pc EXCEPT ![t] = "idle"]
  /\ UNCHANGED <<live, pooled, slot, count, lost, pool, maxSize, dying, hand>>

\* setMaxSize() does not lock.
SetMaxSize(t, n) ==
  /\ pc[t] = "idle" /\ n # maxSize
  /\ maxSize' = n
  /\ UNCHANGED <<live, pooled, slot, count, lost, pool, mutex, pc, dying, hand>>
-----------------------------------------------------------------------------
Init ==
  /\ live = {} /\ pooled = {} /\ lost = {}
  /\ slot = [s \in Slots |-> Null]
  /\ count = [o \in Objects |-> 0]
  /\ pool = <<>> /\ mutex = Null
  /\ maxSize \in Sizes
  /\ pc = [t \in Threads |-> "idle"]
  /\ dying = [t \in Threads |-> <<>>]
  /\ hand = [t \in Threads |-> Null]

\* What a client calls.
Call(t) ==
  \/ CreateRaw(t) \/ NewPlain(t) \/ ClearPool(t)
  \/ \E h \in Handles : Reset(t, h) \/ \E g \in Handles : Copy(t, h, g)
  \/ \E n \in Sizes : SetMaxSize(t, n)

\* What goes on inside a call.
Step(t) ==
  \/ Take(t) \/ New(t) \/ Adopt(t) \/ Unshare(t) \/ Wrap(t)
  \/ Clear(t) \/ Recycle(t) \/ Push(t) \/ Delete(t)
  \/ Drain(t) \/ Drained(t)

Next == \E t \in Threads : Call(t) \/ Step(t)

Spec == Init /\ [][Next]_vars

\* A thread inside a call keeps running.
FairSpec == Spec /\ \A t \in Threads : WF_vars(Step(t))
-----------------------------------------------------------------------------
(***************************************************************************)
(* Properties.                                                             *)
(***************************************************************************)
\* Every variable has its type, and what a thread holds fits the point it is at.
TypeOK ==
  /\ live \subseteq Objects /\ pooled \subseteq Objects /\ lost \subseteq Objects
  /\ slot \in [Slots -> Objects \cup {Null}]
  /\ count \in [Objects -> Nat]
  /\ pool \in Seq(Objects)
  /\ maxSize \in Sizes
  /\ mutex \in Threads \cup {Null}
  /\ pc \in [Threads -> Points]
  /\ dying \in [Threads -> Seq(Objects)]
  /\ hand \in [Threads -> Objects \cup {Null}]

IsPooled(o) == \E i \in 1 .. Len(pool) : pool[i] = o
IsDying(o)  == \E t \in Threads : \E i \in 1 .. Len(dying[t]) : dying[t][i] = o

\* The counter of an object (addRef(), releaseRef()) is the number of references
\* to it, wherever they are, whichever thread took or dropped them.
CountsExact == \A o \in live : count[o] = Cardinality(Holders(o))

\* Nobody holds a reference to an object that was deleted, that waits in the pool
\* or whose suicide() has begun: recycle() and delete never hit an object in use.
HeldIsAlive ==
  \A o \in Objects : Holders(o) # {} => o \in live /\ ~IsPooled(o) /\ ~IsDying(o)

\* An object waits in the pool at most once, not while it is still dying, and it
\* waits without the reference it held, which Path::clear() drops (the clear() of other
\* classes may keep members): createRaw() hands an object out to one caller, and
\* clear(), which deletes under the mutex, releases nothing that would have to be
\* recycled under the same mutex.  Although setMaxSize() may come between the
\* comparison and the push of recycle(), the pool never holds more than the largest
\* maximum it was given.
PoolIsClean ==
  /\ \E n \in Sizes : Len(pool) <= n
  /\ \A i \in 1 .. Len(pool) :
       pool[i] \in live \cap pooled /\ slot[pool[i]] = Null /\ ~IsDying(pool[i])
  /\ \A i, j \in 1 .. Len(pool) : pool[i] = pool[j] => i = j

\* suicide() runs once for an object, in one thread, although releases race.
DiesOnce ==
  \A t, u \in Threads : \A i \in 1 .. Len(dying[t]), j \in 1 .. Len(dying[u]) :
    dying[t][i] = dying[u][j] => t = u /\ i = j

\* No object is leaked other than through lost references: what exists is
\* referred to, waits in the pool or is on its way there.
NothingForgotten ==
  \A o \in live : Holders(o) # {} \/ IsPooled(o) \/ IsDying(o)

\* No thread is in a call, and what exists without a lost reference is in the pool or
\* referred to by a smart pointer.
Settled ==
  /\ \A t \in Threads : pc[t] = "idle"
  /\ \A o \in live \ lost : IsPooled(o) \/ \E s \in Slots : slot[s] = o

\* Once the clients stop calling, every call ends, also clear(), which runs destructors
\* under the mutex that recycle() takes, and every object that no smart pointer refers
\* to ends up deleted or in the pool, whatever deaths were nested or raced, except those
\* that newPath() and its siblings lost.
QuietSettles == <>[][\E t \in Threads : Step(t)]_vars => <>[]Settled
=============================================================================
