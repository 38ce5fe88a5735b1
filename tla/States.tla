--------------------------------- MODULE States ---------------------------------
(***************************************************************************)
(* States and the values they point to.  A State is an unordered_map from  *)
(* keys to IStateValue pointers, a cost, and a hash that is cached until   *)
(* touch().  Values are shared by put(key, Ptr), assign() and merge(),     *)
(* copied by clone(), and changed in place by add() and mul(), which       *)
(* touch only the state they are called on, whatever other states point to *)
(* the value; an assign() of an empty map empties a state and does not     *)
(* touch it.  makePlan() files states under their hash in visitedStates    *)
(* while executors change clones of them.                                  *)
(*                                                                         *)
(* A value's data is a number, and the hash of a value is that number; the *)
(* hash of a state is its cost with the hashes of its values by key.  Keys *)
(* are never changed.                                                      *)
(***************************************************************************)
EXTENDS StateKeys, Naturals, FiniteSets

CONSTANTS
  StateIds,   \* addresses of states
  ValueIds,   \* addresses of values: how many exist at a time is a bound
  MaxNumber,  \* BOUND: the largest number a value reaches
  Costs,      \* the costs the clients set
  Unset       \* a _cachedHash of 0

ASSUME CostsAssumption == Costs \subseteq Nat /\ 1 \in Costs /\ MaxNumber \in Nat
ASSUME NullAssumption  == Null \notin StateIds

VARIABLES
  states,   \* the states that exist
  values,   \* the values that exist
  shared,   \* values a client made two pointers to, by put(), assign() or merge()
  visited,  \* visitedStates: the states in the set, and the hash each is filed under
  clone     \* the state execute() has given to an executor, or Null

vars == <<states, values, shared, visited, clone>>

Numbers == 0 .. MaxNumber
Partial(S, T) == UNION {[D -> T] : D \in SUBSET S}
Hash  == [cost : Costs, data : Partial(Keys, Numbers)]
State == [data : Partial(Keys, ValueIds), cost : Costs, hash : Hash \cup {Unset}]
Value == [number : Numbers, hash : Numbers \cup {Unset}]

Targets(f) == {f[k] : k \in DOMAIN f}
Pointed(ss) == UNION {Targets(ss[s].data) : s \in DOMAIN ss}

With(f, x, y) == [z \in DOMAIN f \cup {x} |-> IF z = x THEN y ELSE f[z]]
Over(f, g)    == [z \in DOMAIN f \cup DOMAIN g |-> IF z \in DOMAIN g THEN g[z] ELSE f[z]]
Without(f, x) == [z \in DOMAIN f \ {x} |-> f[z]]
-----------------------------------------------------------------------------
\* The pointers are counted: what no state points to any more is deleted.
FaultHeap(ss, vs) ==
  LET once == {v \in DOMAIN vs :
                 Cardinality({sk \in (DOMAIN ss) \X Keys :
                   sk[2] \in DOMAIN ss[sk[1]].data /\ ss[sk[1]].data[sk[2]] = v}) = 1}
  IN  values' = [v \in once |-> vs[v]] /\ shared' = shared \cap once

Heap(ss, vs) ==
  /\ values' = [v \in Pointed(ss) |-> vs[v]]
  /\ shared' = shared \cap Pointed(ss)

\* touch(): state s has new data.
Touched(s, data) == [states EXCEPT ![s].data = data, ![s].hash = Unset]

\* What a client or an executor may change: an executor has its clone only, and the
\* states in visitedStates are there as const pointers.
Mine(s) == /\ s \in DOMAIN states \ DOMAIN visited
           /\ clone # Null => s = clone

\* A number that a client brings becomes a new value.
NewValue(n) == [number |-> n, hash |-> Unset]
Fresh == ValueIds \ DOMAIN values
-----------------------------------------------------------------------------
Init == /\ states = [s \in {} |-> Null] /\ values = [v \in {} |-> Null]
        /\ shared = {}
        /\ visited = [s \in {} |-> Null]
        /\ clone = Null

\* NewPtr<IState>(): an object fresh, or cleared by State::clear() on its way to the pool.
Create(s) ==
  /\ clone = Null /\ s \in StateIds \ DOMAIN states
  /\ states' = With(states, s, [data |-> [k \in {} |-> Null], cost |-> 1, hash |-> Unset])
  /\ UNCHANGED <<values, shared, visited, clone>>

\* The last reference to a state is dropped.
Drop(s) ==
  /\ clone = Null /\ Mine(s)
  /\ states' = Without(states, s)
  /\ Heap(states', values)
  /\ UNCHANGED <<visited, clone>>

\* put(key, number): a new value replaces what the key pointed to.
Put(s, k, n) ==
  /\ Mine(s)
  /\ \E v \in Fresh :
       /\ states' = Touched(s, With(states[s].data, k, v))
       /\ Heap(states', With(values, v, NewValue(n)))
  /\ UNCHANGED <<visited, clone>>

\* put(key, at(other)): both keys point to one value.
PutShared(s, k, j) ==
  /\ Mine(s) /\ j \in DOMAIN states[s].data \ {k}
  /\ states' = Touched(s, With(states[s].data, k, states[s].data[j]))
  /\ values' = [v \in Pointed(states') |-> values[v]]
  /\ shared' = (shared \cup {states[s].data[j]}) \cap Pointed(states')
  /\ UNCHANGED <<visited, clone>>

Remove(s, k) ==
  /\ Mine(s)
  /\ states' = Touched(s, Without(states[s].data, k))
  /\ Heap(states', values)
  /\ UNCHANGED <<visited, clone>>

\* assign(State): the values of r and its cost.
Assign(s, r) ==
  /\ Mine(s) /\ clone = Null /\ r \in DOMAIN states \ {s}
  /\ states' = [states EXCEPT ![s] = [data |-> states[r].data, cost |-> states[r].cost,
                                      hash |-> Unset]]
  /\ values' = [v \in Pointed(states') |-> values[v]]
  /\ shared' = (shared \cup Targets(states[r].data)) \cap Pointed(states')
  /\ UNCHANGED <<visited, clone>>

\* merge(): put() of every value of r, an r without values changing nothing.
Merge(s, r) ==
  /\ Mine(s) /\ clone = Null /\ r \in DOMAIN states \ {s}
  /\ DOMAIN states[r].data # {}
  /\ states' = Touched(s, Over(states[s].data, states[r].data))
  /\ values' = [v \in Pointed(states') |-> values[v]]
  /\ shared' = (shared \cup Targets(states[r].data)) \cap Pointed(states')
  /\ UNCHANGED <<visited, clone>>

\* assign(map): the keys are cleared and those of the map put again, all to the number
\* n here, and the cost stays.  It is put() that touches: an empty map empties the state
\* and leaves the hash it had.
AssignMap(s, D, n) ==
  /\ Mine(s)
  /\ \E new \in [D -> Fresh] :
       /\ \A j, k \in D : new[j] = new[k] => j = k
       /\ states' = IF D = {} THEN [states EXCEPT ![s].data = new] ELSE Touched(s, new)
       /\ Heap(states', Over(values, [v \in Targets(new) |-> NewValue(n)]))
  /\ UNCHANGED <<visited, clone>>

\* add() and mul(), both of which add in place, for every state and key that points to
\* the value, and touch s only.  DISCIPLINE: the key is there.
FaultAdd(s, k, n) ==
  /\ Mine(s)
  /\ k \in DOMAIN states[s].data
  /\ LET v == states[s].data[k] IN
       /\ values[v].number + n <= MaxNumber
       /\ values' = [values EXCEPT ![v] = NewValue(@.number + n)]
  /\ UNCHANGED <<states, shared, visited, clone>>

Add(s, k, n) ==
  /\ Mine(s)
  /\ k \in DOMAIN states[s].data
  /\ LET v == states[s].data[k] IN
       /\ values[v].number + n <= MaxNumber
       /\ values' = [values EXCEPT ![v] = NewValue(@.number + n)]
  /\ states' = [states EXCEPT ![s].hash = Unset]
  /\ UNCHANGED <<shared, visited, clone>>

\* cost(c), addCost() and mulCost().
SetCost(s, c) ==
  /\ Mine(s)
  /\ states' = [states EXCEPT ![s].cost = c, ![s].hash = Unset]
  /\ UNCHANGED <<values, shared, visited, clone>>

\* StateValue::hash() and State::hash() answer from their caches or fill them.
ValueHash(v) == IF values[v].hash = Unset THEN values[v].number ELSE values[v].hash

HashResult(s) ==
  IF states[s].hash # Unset THEN states[s].hash
  ELSE [cost |-> states[s].cost,
        data |-> [k \in DOMAIN states[s].data |-> ValueHash(states[s].data[k])]]

Hashed(s) ==
  /\ states' = [states EXCEPT ![s].hash = HashResult(s)]
  /\ values' = IF states[s].hash # Unset THEN values
               ELSE [v \in DOMAIN values |->
                       IF v \in Targets(states[s].data)
                       THEN [values[v] EXCEPT !.hash = ValueHash(v)] ELSE values[v]]

\* The lookup in visitedStates, or in _statesCaches, hashes the state.
Find(s) == /\ clone = Null /\ s \in DOMAIN states /\ Hashed(s)
           /\ UNCHANGED <<shared, visited, clone>>

\* visitedStates.insert()
Visit(s) == /\ clone = Null /\ s \in DOMAIN states \ DOMAIN visited /\ Hashed(s)
            /\ visited' = With(visited, s, HashResult(s))
            /\ UNCHANGED <<shared, clone>>

\* makePlan() returns: its local set is gone.
Return == /\ clone = Null /\ DOMAIN visited # {}
          /\ visited' = [s \in {} |-> Null]
          /\ UNCHANGED <<states, values, shared, clone>>

\* PlanningAction::execute(): the executor gets a clone, whose cost is one.  clone()
\* copies every value, once for each key that points to it.
FaultExecute(s, r) ==
  /\ clone = Null /\ s \in DOMAIN states /\ r \in StateIds \ DOMAIN states
  /\ states' = With(states, r, [data |-> states[s].data, cost |-> 1, hash |-> Unset])
  /\ clone' = r
  /\ UNCHANGED <<values, shared, visited>>

Execute(s, r) ==
  /\ clone = Null /\ s \in DOMAIN states /\ r \in StateIds \ DOMAIN states
  /\ \E copy \in [DOMAIN states[s].data -> Fresh] :
       /\ \A j, k \in DOMAIN copy : copy[j] = copy[k] => j = k
       /\ states' = With(states, r, [data |-> copy, cost |-> 1, hash |-> Unset])
       /\ values' = Over(values, [v \in Targets(copy) |->
                       LET k == CHOOSE k \in DOMAIN copy : copy[k] = v
                       IN  NewValue(values[states[s].data[k]].number)])
  /\ clone' = r
  /\ UNCHANGED <<shared, visited>>

\* The executor returns.
Executed == /\ clone # Null
            /\ clone' = Null
            /\ UNCHANGED <<states, values, shared, visited>>

Next ==
  \/ Return \/ Executed
  \/ \E s \in StateIds :
       \/ Create(s) \/ Drop(s) \/ Find(s) \/ Visit(s)
       \/ \E c \in Costs : SetCost(s, c)
       \/ \E k \in Keys : \/ Remove(s, k)
                          \/ \E j \in Keys : PutShared(s, k, j)
                          \/ \E n \in Numbers : Put(s, k, n) \/ Add(s, k, n)
       \/ \E D \in SUBSET Keys, n \in Numbers : AssignMap(s, D, n)
       \/ \E r \in StateIds : Assign(s, r) \/ Merge(s, r) \/ Execute(s, r)

Spec == Init /\ [][Next]_vars
-----------------------------------------------------------------------------
(***************************************************************************)
(* Properties.                                                             *)
(***************************************************************************)
\* Every variable has its type, and no state points to a deleted value.
TypeOK ==
  /\ DOMAIN states \subseteq StateIds /\ \A s \in DOMAIN states : states[s] \in State
  /\ DOMAIN values \subseteq ValueIds /\ \A v \in DOMAIN values : values[v] \in Value
  /\ DOMAIN values = Pointed(states)
  /\ shared \subseteq DOMAIN values
  /\ DOMAIN visited \subseteq DOMAIN states /\ \A s \in DOMAIN visited : visited[s] \in Hash
  /\ clone \in DOMAIN states \cup {Null}

\* What is in a state, whatever objects hold it.
Contents(s) ==
  [cost |-> states[s].cost,
   data |-> [k \in DOMAIN states[s].data |-> values[states[s].data[k]].number]]

\* The hash is of the cost and the keys of s and, save where a client made two pointers
\* to a value, of its numbers.  A state without keys is only held to its cost.
Reflects(hash, s) ==
  LET data == states[s].data IN
  /\ hash.cost = states[s].cost
  /\ DOMAIN data # {} => /\ DOMAIN hash.data = DOMAIN data
                         /\ \A k \in DOMAIN data : \/ data[k] \in shared
                                                   \/ hash.data[k] = values[data[k]].number

\* How far a cached hash can be stale (state.cpp:233).  add() and mul() touch one state
\* and the empty assign() none, so it can be the hash of other numbers where a client
\* shares values between states, and of other keys in a state that was emptied; nowhere
\* else, whatever is put, merged, assigned, added, cloned and hashed in between.
HashIsCurrent ==
  \A s \in DOMAIN states : states[s].hash # Unset => Reflects(states[s].hash, s)

\* A state in visitedStates stays under the hash it was filed with, to the same extent
\* (planner.cpp:88): no executor moves it by working on the clone it was given.
VisitedFound == \A s \in DOMAIN visited : Reflects(visited[s], s)

\* "Returns a modified cloned state. The input state is not modified"
\* (planningaction.h:87), nor is any other state, while the executor works on its clone.
ExecuteKeepsOthers ==
  [][clone' # Null =>
       \A s \in DOMAIN states \ {clone'} : s \in DOMAIN states' /\ Contents(s)' = Contents(s)]_vars
=============================================================================
