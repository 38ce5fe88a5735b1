--------------------------- MODULE PrioritizedQueue ---------------------------
(***************************************************************************)
(* goap::PrioritizedQueue and its subclass goap::PrioritizedStack: the     *)
(* frontier of a search.  Paths wait in one list per integer cost (a       *)
(* std::map from cost to list); a path pushed lazily waits in a separate   *)
(* list until the bucket being consumed is drained.  The least key of the  *)
(* map is cached in _min.                                                  *)
(*                                                                         *)
(* The object is a record, so that the planner can hold one; every member  *)
(* function is an operator that returns the object after the call.         *)
(***************************************************************************)
EXTENDS Integers, Sequences, FiniteSets

CONSTANTS
  Paths,         \* IPath objects that can be stored
  Cost(_),       \* Cost(p): IPath::cost(), in units of 1/(100 * UnitsPerCent)
  UnitsPerCent,  \* resolution of Cost below the hundredths the keys keep
  LLONG_MIN,     \* bounds of std::int64_t, the key type
  LLONG_MAX,
  NoPath,        \* the null IPath::Ptr
  Thrown         \* pop() left by its std::runtime_error

Methods == {"BreadthFirst", "DepthFirst"}

\* Division of signed integers as static_cast<int64_t> does it: toward zero.
Truncate(n, d) == IF n >= 0 THEN n \div d ELSE -((-n) \div d)

\* static_cast<int64_t>(100.0f * cost + 0.5f): the key of a path's bucket.
ICost(p) == Truncate(2 * Cost(p) + UnitsPerCent, 2 * UnitsPerCent)

ASSUME ScaleAssumption == UnitsPerCent \in Nat \ {0}

ASSUME CostAssumption ==
  /\ LLONG_MIN \in Int
  /\ LLONG_MAX \in Int
  /\ LLONG_MIN < LLONG_MAX
  /\ \A p \in Paths : /\ Cost(p) \in Int
                      /\ LLONG_MIN <= ICost(p)
                      /\ ICost(p) < LLONG_MAX

ASSUME NullAssumption == NoPath \notin Paths /\ Thrown \notin Paths \cup {NoPath}

VARIABLES
  pq,   \* the object: [queues, min, lazy, method]
  ret   \* what the last pop() returned

vars == <<pq, ret>>
-----------------------------------------------------------------------------
(***************************************************************************)
(* The object.                                                             *)
(***************************************************************************)
NewQueue(method) == [queues |-> [k \in {} |-> <<>>],
                     min    |-> LLONG_MAX,
                     lazy   |-> <<>>,
                     method |-> method]

\* std::map::operator[]: the bucket of key k, an empty one if there is none.
Bucket(queues, k) == IF k \in DOMAIN queues THEN queues[k] ELSE <<>>

Store(queues, k, list) ==
  [j \in DOMAIN queues \cup {k} |-> IF j = k THEN list ELSE queues[j]]

Erase(queues, k) == [j \in DOMAIN queues \ {k} |-> queues[j]]

\* Fault: reads the first key of an empty map.
LeastKeyUnchecked(queues) ==
  IF DOMAIN queues = {} THEN LLONG_MIN - 1
  ELSE CHOOSE k \in DOMAIN queues : \A j \in DOMAIN queues : k <= j

\* _queues.cbegin()->first, or LLONG_MAX for an empty map.
LeastKey(queues) ==
  IF DOMAIN queues = {} THEN LLONG_MAX
  ELSE CHOOSE k \in DOMAIN queues : \A j \in DOMAIN queues : k <= j

\* pop_queue(): the stack takes the newest path of a bucket, the queue the oldest.
Chosen(method, list) == IF method = "DepthFirst" THEN list[Len(list)] ELSE Head(list)
Rest(method, list) ==
  IF method = "DepthFirst" THEN SubSeq(list, 1, Len(list) - 1) ELSE Tail(list)
-----------------------------------------------------------------------------
(***************************************************************************)
(* The member functions.                                                   *)
(***************************************************************************)
\* Fault: a new bucket below the cached minimum does not lower it.
PushedAboveMin(q, p) ==
  [q EXCEPT !.queues = Store(@, ICost(p), Append(Bucket(@, ICost(p)), p))]

Pushed(q, p) ==
  LET k == ICost(p)
  IN  [queues |-> Store(q.queues, k, Append(Bucket(q.queues, k), p)),
       min    |-> IF k \notin DOMAIN q.queues /\ q.min > k THEN k ELSE q.min,
       lazy   |-> q.lazy,
       method |-> q.method]

PushedLazy(q, p) == [q EXCEPT !.lazy = Append(@, p)]

\* useLazyArray(): pushes the retained paths one by one, oldest first.
Insertions(q) ==
  LET after[n \in 0 .. Len(q.lazy)] ==
        IF n = 0 THEN q ELSE Pushed(after[n - 1], q.lazy[n])
  IN  after

\* Fault: the reinsertion starts after the first lazy path.
ReinsertedButFirst(q) ==
  IF q.lazy = <<>> THEN q
  ELSE LET r == Insertions([q EXCEPT !.lazy = Tail(@)])[Len(q.lazy) - 1]
       IN  [r EXCEPT !.lazy = <<Head(q.lazy)>>]

Reinserted(q) ==
  LET r == Insertions(q)[Len(q.lazy)]
  IN  [queues |-> r.queues, min |-> r.min, lazy |-> <<>>, method |-> r.method]

\* empty(): not const, it reinserts the lazy paths when nothing else is left.
IsEmpty(q) == DOMAIN q.queues = {} /\ q.lazy = <<>>
Refilled(q) ==
  IF DOMAIN q.queues = {} /\ q.lazy # <<>>
  THEN Reinserted([q EXCEPT !.min = LLONG_MAX])
  ELSE q

\* Faults: pop() keeps the bucket it drained; keeps its key as the minimum; lets
\* the lazy paths wait until the whole queue is empty.
DrainedWithBucket(q, m) == [Reinserted(q) EXCEPT !.min = LeastKey(Reinserted(q).queues)]
DrainedWithMin(q, m) ==
  LET r == Reinserted(q)
  IN  IF r.queues[m] # <<>> THEN r ELSE [r EXCEPT !.queues = Erase(@, m)]
DrainedWithLazy(q, m) ==
  [q EXCEPT !.queues = Erase(@, m), !.min = LeastKey(Erase(q.queues, m))]

\* The end of pop(), once the bucket of key m is drained.
Drained(q, m) ==
  LET r    == Reinserted(q)
      left == Erase(r.queues, m)
  IN  IF r.queues[m] # <<>> THEN r
      ELSE [queues |-> left,
            min    |-> IF r.min = m THEN LeastKey(left) ELSE r.min,
            lazy   |-> r.lazy,
            method |-> r.method]

\* pop(): the object afterwards and the value returned.
Popped(q0) ==
  LET q    == Refilled(q0)
      list == Bucket(q.queues, q.min)
      rest == Rest(q.method, list)
      left == [q EXCEPT !.queues = Store(@, q.min, rest)]
  IN  IF IsEmpty(q0) THEN [pq |-> q0, value |-> NoPath]
      ELSE IF list = <<>>
      THEN [pq |-> [q EXCEPT !.queues = Store(@, q.min, <<>>)], value |-> Thrown]
      ELSE [pq    |-> IF rest = <<>> THEN Drained(left, q.min) ELSE left,
            value |-> Chosen(q.method, list)]

Cleared(q) == NewQueue(q.method)
-----------------------------------------------------------------------------
(***************************************************************************)
(* The paths the object holds.                                             *)
(***************************************************************************)
Elements(list) == {list[i] : i \in DOMAIN list}
Ready(q)   == UNION {Elements(q.queues[k]) : k \in DOMAIN q.queues}
Waiting(q) == Elements(q.lazy)
Held(q)    == Ready(q) \cup Waiting(q)
-----------------------------------------------------------------------------
(***************************************************************************)
(* Any client: a path is a new object, so the one pushed is not held yet.  *)
(***************************************************************************)
Init == /\ pq \in {NewQueue(m) : m \in Methods}
        /\ ret = NoPath

Push(p)     == /\ p \notin Held(pq)
               /\ pq' = Pushed(pq, p)
               /\ UNCHANGED ret

PushLazy(p) == /\ p \notin Held(pq)
               /\ pq' = PushedLazy(pq, p)
               /\ UNCHANGED ret

Empty       == /\ pq' = Refilled(pq)
               /\ UNCHANGED ret

Pop         == /\ pq' = Popped(pq).pq
               /\ ret' = Popped(pq).value

Clear       == /\ pq' = Cleared(pq)
               /\ UNCHANGED ret

Next == \/ \E p \in Paths : Push(p) \/ PushLazy(p)
        \/ Empty
        \/ Pop
        \/ Clear

Spec == Init /\ [][Next]_vars
-----------------------------------------------------------------------------
(***************************************************************************)
(* Properties.                                                             *)
(***************************************************************************)
Keys == LLONG_MIN .. (LLONG_MAX - 1)

Object(q) ==
  /\ q = [queues |-> q.queues, min |-> q.min, lazy |-> q.lazy, method |-> q.method]
  /\ DOMAIN q.queues \subseteq Keys
  /\ q.queues \in [DOMAIN q.queues -> Seq(Paths)]
  /\ q.min \in LLONG_MIN .. LLONG_MAX
  /\ q.lazy \in Seq(Paths)
  /\ q.method \in Methods

\* The type of the object: a map from int64 keys to lists of paths, a list of
\* lazy paths, and the cached least key.
TypeOK == Object(pq) /\ ret \in Paths \cup {NoPath, Thrown}

\* The cached _min is the least key of the map whenever the map has one, through
\* drained buckets, reinserted lazy paths of a lower cost, and clear().  pop()
\* indexes the map with _min without checking, so a stale value would create an
\* empty bucket and throw.
MinIsLeastKey == pq.min = LeastKey(pq.queues)

\* No bucket is empty between two calls, and a path lies in the bucket of its
\* own cost: empty() decides from the map alone whether anything is ready.
BucketsWellFormed ==
  \A k \in DOMAIN pq.queues :
    /\ pq.queues[k] # <<>>
    /\ \A i \in DOMAIN pq.queues[k] : ICost(pq.queues[k][i]) = k

\* pop() never reaches the runtime_error of pop_queue().
PopNeverThrows == ret # Thrown
=============================================================================
