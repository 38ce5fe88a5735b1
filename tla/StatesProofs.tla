------------------------------ MODULE StatesProofs ------------------------------
(***************************************************************************)
(* Proofs of how far a cached hash and the hash a state is filed under in  *)
(* visitedStates can be stale, and that executors change nothing but their *)
(* clone, for any number of states, values and keys.                       *)
(*                                                                         *)
(* The second half is about the meters of Comparers, for any finite set of *)
(* keys and any sequences under them: the Levenshtein distance is the      *)
(* least cost of an alignment, distances are within the unit save where     *)
(* opposite signs meet, zero exactly where the goal is met, and see every  *)
(* field that is brought to the goal.                                      *)
(***************************************************************************)
EXTENDS States, Comparers, Integers, FiniteSetTheorems, SequenceTheorems,
        WellFoundedInduction, TLAPS

\* A value's cached hash is the hash of its number.
Cached == \A v \in DOMAIN values :
            values[v].hash # Unset => values[v].hash = values[v].number

\* Two pointers to one value are there only where a client made them.
Separate ==
  \A s, r \in DOMAIN states :
    \A j \in DOMAIN states[s].data, k \in DOMAIN states[r].data :
      states[s].data[j] = states[r].data[k] =>
        (s = r /\ j = k) \/ states[s].data[j] \in shared

\* Nothing points to a value of the clone an executor works on but the clone.
CloneApart ==
  clone # Null =>
    \A s \in DOMAIN states \ {clone} :
      \A j \in DOMAIN states[s].data, k \in DOMAIN states[clone].data :
        states[s].data[j] # states[clone].data[k]

\* What every change of one state keeps, and with it what add() needs.
Fits == TypeOK /\ HashIsCurrent /\ VisitedFound /\ Cached /\ Separate
IInv == Fits /\ CloneApart

\* Every state but s goes on with the same contents.
OthersKept(s) ==
  \A x \in DOMAIN states \ {s} : x \in DOMAIN states' /\ Contents(x)' = Contents(x)
-----------------------------------------------------------------------------
\* A partial function has a part of the keys as its domain.
LEMMA PartialFunctions ==
  ASSUME NEW S, NEW T
  PROVE  /\ \A f \in Partial(S, T) : /\ DOMAIN f \subseteq S /\ f \in [DOMAIN f -> T]
                                    /\ \A x \in DOMAIN f : f[x] \in T
         /\ \A D \in SUBSET S : \A f \in [D -> T] : f \in Partial(S, T)
BY DEF Partial

\* What states point to.
LEMMA PointedMembers ==
  ASSUME NEW ss
  PROVE  /\ \A x \in DOMAIN ss : \A k \in DOMAIN ss[x].data : ss[x].data[k] \in Pointed(ss)
         /\ \A v \in Pointed(ss) :
              \E x \in DOMAIN ss : \E k \in DOMAIN ss[x].data : ss[x].data[k] = v
BY DEF Pointed, Targets

\* The parts of a state, and what they make.
LEMMA StateFields ==
  /\ \A r \in State : /\ r.data \in Partial(Keys, ValueIds) /\ r.cost \in Costs
                      /\ r.hash \in Hash \cup {Unset}
  /\ \A d \in Partial(Keys, ValueIds), c \in Costs, h \in Hash \cup {Unset} :
       [data |-> d, cost |-> c, hash |-> h] \in State
BY DEF State

\* The parts of a value.
LEMMA ValueFields ==
  /\ \A v \in Value : v.number \in Numbers /\ v.hash \in Numbers \cup {Unset}
  /\ \A n \in Numbers : /\ NewValue(n) \in Value /\ NewValue(n).number = n
                        /\ NewValue(n).hash = Unset
BY DEF Value, NewValue

\* A state whose data, cost and values' numbers stay has the same contents.
LEMMA ContentsKept ==
  ASSUME NEW x, states'[x].data = states[x].data, states'[x].cost = states[x].cost,
         \A k \in DOMAIN states[x].data :
           values'[states[x].data[k]].number = values[states[x].data[k]].number
  PROVE  Contents(x)' = Contents(x)
BY DEF Contents

\* A hash reflects a state whose data and cost stay as far as it did, if a value that is
\* shared goes on to be and no other number changes.
LEMMA ReflectsKept ==
  ASSUME NEW x, NEW h, Reflects(h, x),
         states'[x].data = states[x].data, states'[x].cost = states[x].cost,
         \A k \in DOMAIN states[x].data :
           \/ states[x].data[k] \in shared'
           \/ /\ states[x].data[k] \notin shared
              /\ values'[states[x].data[k]].number = values[states[x].data[k]].number
  PROVE  Reflects(h, x)'
BY DEF Reflects
-----------------------------------------------------------------------------
\* Where the pointers of state s come from: they were there, they point to new values,
\* or to values the client shares.
Provenance(s) ==
  \A k \in DOMAIN states'[s].data :
    \/ s \in DOMAIN states /\ k \in DOMAIN states[s].data
       /\ states'[s].data[k] = states[s].data[k]
    \/ states'[s].data[k] \notin DOMAIN values
       /\ \A j \in DOMAIN states'[s].data : states'[s].data[j] = states'[s].data[k] => j = k
    \/ states'[s].data[k] \in shared'

\* A step that gives only state s new data, or a new cost, or drops it, keeps what
\* fits, if s is left without a hash or with one that reflects it.
LEMMA Rewired ==
  ASSUME Fits, NEW s \in StateIds \ DOMAIN visited,
         DOMAIN states' \subseteq StateIds,
         \A x \in DOMAIN states \ {s} : x \in DOMAIN states' /\ states'[x] = states[x],
         \A x \in DOMAIN states' \ {s} : x \in DOMAIN states,
         s \in DOMAIN states' => /\ states'[s] \in State /\ Provenance(s)
                                 /\ \/ states'[s].hash = Unset
                                    \/ Reflects(states[s].hash, s)',
         DOMAIN values' = Pointed(states'), DOMAIN values' \subseteq ValueIds,
         \A v \in DOMAIN values' :
           \/ v \in DOMAIN values /\ values'[v] = values[v]
           \/ v \notin DOMAIN values /\ \E n \in Numbers : values'[v] = NewValue(n),
         shared' \subseteq DOMAIN values', shared \cap Pointed(states') \subseteq shared',
         visited' = visited, clone' \in DOMAIN states' \cup {Null}
  PROVE  Fits' /\ OthersKept(s)
<1>1. ASSUME NEW x \in DOMAIN states \ {s}
      PROVE  x \in DOMAIN states' /\ states'[x] = states[x] /\ Contents(x)' = Contents(x)
  <2>1. x \in DOMAIN states' /\ states'[x] = states[x]
    OBVIOUS
  <2>2. ASSUME NEW k \in DOMAIN states[x].data
        PROVE  values'[states[x].data[k]].number = values[states[x].data[k]].number
    <3>1. states[x].data[k] \in DOMAIN values
      BY PointedMembers DEF Fits, TypeOK
    <3>2. states'[x].data[k] \in Pointed(states')
      BY <2>1, PointedMembers
    <3> QED
      BY <2>1, <3>1, <3>2
  <2> QED
    BY <2>1, <2>2, ContentsKept
<1>2. TypeOK'
  <2>1. \A x \in DOMAIN states' : states'[x] \in State
    BY DEF Fits, TypeOK
  <2>2. \A v \in DOMAIN values' : values'[v] \in Value
    BY ValueFields DEF Fits, TypeOK
  <2>3. DOMAIN visited \subseteq DOMAIN states'
    BY DEF Fits, TypeOK
  <2> QED
    BY <2>1, <2>2, <2>3 DEF Fits, TypeOK
<1>8. ASSUME NEW x \in DOMAIN states \ {s}, NEW h, Reflects(h, x)
      PROVE  Reflects(h, x)'
  <2>1. ASSUME NEW k \in DOMAIN states[x].data
        PROVE  \/ states[x].data[k] \in shared'
               \/ /\ states[x].data[k] \notin shared
                  /\ values'[states[x].data[k]].number = values[states[x].data[k]].number
    <3>1. states[x].data[k] \in DOMAIN values
      BY PointedMembers DEF Fits, TypeOK
    <3>2. states'[x].data[k] \in Pointed(states')
      BY <1>1, PointedMembers
    <3> QED
      BY <1>1, <3>1, <3>2
  <2>2. states'[x].data = states[x].data /\ states'[x].cost = states[x].cost
    BY <1>1
  <2> QED
    BY <1>8, <2>1, <2>2, ReflectsKept
<1>3. HashIsCurrent'
  <2> SUFFICES ASSUME NEW x \in DOMAIN states', states'[x].hash # Unset
               PROVE  Reflects(states[x].hash, x)'
    BY DEF HashIsCurrent
  <2>1. CASE x = s
    BY <2>1
  <2>2. CASE x # s
    <3>1. x \in DOMAIN states \ {s} /\ states'[x] = states[x]
      BY <1>1, <2>2
    <3>2. PICK h : h = states[x].hash
      OBVIOUS
    <3>3. Reflects(h, x)
      BY <3>1, <3>2 DEF Fits, HashIsCurrent
    <3>4. Reflects(h, x)'
      BY <1>8, <3>1, <3>3
    <3> QED
      BY <3>1, <3>2, <3>4 DEF Reflects
  <2> QED
    BY <2>1, <2>2
<1>4. VisitedFound'
  <2> SUFFICES ASSUME NEW x \in DOMAIN visited' PROVE Reflects(visited[x], x)'
    BY DEF VisitedFound
  <2>1. x \in DOMAIN visited /\ x \in DOMAIN states \ {s}
    BY DEF Fits, TypeOK
  <2>2. PICK h : h = visited[x]
    OBVIOUS
  <2>3. Reflects(h, x)
    BY <2>1, <2>2 DEF Fits, VisitedFound
  <2>4. Reflects(h, x)'
    BY <1>8, <2>1, <2>3
  <2> QED
    BY <2>2, <2>4 DEF Reflects
<1>5. Cached'
  <2>1. \A n \in Numbers : NewValue(n).hash = Unset
    BY ValueFields
  <2> QED
    BY <2>1 DEF Fits, Cached
<1>6. Separate'
  <2>1. ASSUME NEW x \in DOMAIN states', NEW y \in DOMAIN states',
               NEW j \in DOMAIN states'[x].data, NEW k \in DOMAIN states'[y].data,
               states'[x].data[j] = states'[y].data[k], x # s, y # s
        PROVE  (x = y /\ j = k) \/ states'[x].data[j] \in shared'
    <3>1. x \in DOMAIN states /\ states'[x] = states[x] /\ y \in DOMAIN states /\ states'[y] = states[y]
      BY <2>1
    <3>2. states'[x].data[j] \in Pointed(states')
      BY PointedMembers
    <3>3. (x = y /\ j = k) \/ states[x].data[j] \in shared
      BY <2>1, <3>1 DEF Fits, Separate
    <3> QED
      BY <3>1, <3>2, <3>3
  <2>2. ASSUME NEW y \in DOMAIN states', s \in DOMAIN states',
               NEW j \in DOMAIN states'[s].data, NEW k \in DOMAIN states'[y].data,
               states'[s].data[j] = states'[y].data[k]
        PROVE  (s = y /\ j = k) \/ states'[s].data[j] \in shared'
    <3>1. states'[s].data[j] \in Pointed(states')
      BY <2>2, PointedMembers
    <3>2. y # s => y \in DOMAIN states /\ states'[y] = states[y]
                   /\ states'[y].data[k] \in DOMAIN values
      BY PointedMembers DEF Fits, TypeOK
    <3>3. CASE states'[s].data[j] \notin DOMAIN values
               /\ \A i \in DOMAIN states'[s].data : states'[s].data[i] = states'[s].data[j] => i = j
      BY <2>2, <3>2, <3>3
    <3>4. CASE s \in DOMAIN states /\ j \in DOMAIN states[s].data
               /\ states'[s].data[j] = states[s].data[j]
      <4>1. CASE y # s
        BY <2>2, <3>1, <3>2, <3>4, <4>1 DEF Fits, Separate
      <4>2. CASE y = s
        <5>1. states[s].data[j] \in DOMAIN values
          BY <3>4, PointedMembers DEF Fits, TypeOK
        <5>2. CASE k \in DOMAIN states[s].data /\ states'[s].data[k] = states[s].data[k]
          BY <2>2, <3>1, <3>4, <4>2, <5>2 DEF Fits, Separate
        <5>3. CASE states'[s].data[k] \notin DOMAIN values
          BY <2>2, <3>4, <4>2, <5>1, <5>3
        <5>4. CASE states'[s].data[k] \in shared'
          BY <2>2, <4>2, <5>4
        <5> QED
          BY <2>2, <4>2, <5>2, <5>3, <5>4 DEF Provenance
      <4> QED
        BY <4>1, <4>2
    <3>5. CASE states'[s].data[j] \in shared'
      BY <3>5
    <3> QED
      BY <2>2, <3>3, <3>4, <3>5 DEF Provenance
  <2> QED
    BY <2>1, <2>2 DEF Separate
<1>7. OthersKept(s)
  BY <1>1 DEF OthersKept
<1> QED
  BY <1>2, <1>3, <1>4, <1>5, <1>6, <1>7 DEF Fits
-----------------------------------------------------------------------------
(***************************************************************************)
(* Every operation keeps the invariant, and the other states.              *)
(***************************************************************************)
\* What Touched() makes of the states.
LEMMA TouchedFacts ==
  ASSUME TypeOK, NEW s \in DOMAIN states, NEW data \in Partial(Keys, ValueIds),
         states' = Touched(s, data)
  PROVE  /\ DOMAIN states' = DOMAIN states /\ s \in DOMAIN states'
         /\ states'[s] \in State /\ states'[s].hash = Unset /\ states'[s].data = data
         /\ \A x \in DOMAIN states \ {s} : states'[x] = states[x]
<1>1. states[s] \in State
  BY DEF TypeOK
<1>2. PICK r : r = [states[s] EXCEPT !.data = data, !.hash = Unset]
  OBVIOUS
<1>3. r = [data |-> data, cost |-> states[s].cost, hash |-> Unset]
  BY <1>1, <1>2 DEF State
<1>4. r \in State /\ r.hash = Unset /\ r.data = data
  BY <1>1, <1>3, StateFields
<1>5. states' = [states EXCEPT ![s] = r]
  BY <1>2, <1>3 DEF Touched
<1> QED
  BY <1>4, <1>5

\* A state that may be changed is not in visitedStates.
LEMMA MineFacts ==
  ASSUME TypeOK, NEW s \in StateIds, Mine(s)
  PROVE  s \in DOMAIN states /\ s \in StateIds \ DOMAIN visited
BY DEF Mine

\* The values after Heap() or its like: those pointed to.
LEMMA ValuesKept ==
  ASSUME TypeOK, Pointed(states') \subseteq DOMAIN values,
         values' = [v \in Pointed(states') |-> values[v]]
  PROVE  /\ DOMAIN values' = Pointed(states') /\ DOMAIN values' \subseteq ValueIds
         /\ \A v \in DOMAIN values' : v \in DOMAIN values /\ values'[v] = values[v]
BY DEF TypeOK

\* A new state is empty.
LEMMA CreateFits ==
  ASSUME Fits, NEW s \in StateIds, Create(s) PROVE Fits' /\ OthersKept(s)
<1>1. PICK r : r = [data |-> [k \in {} |-> Null], cost |-> 1, hash |-> Unset]
  OBVIOUS
<1>2. states' = With(states, s, r) /\ s \notin DOMAIN states
  BY <1>1 DEF Create
<1>3. r \in State /\ r.hash = Unset /\ DOMAIN r.data = {}
  <2>1. [k \in {} |-> Null] \in Partial(Keys, ValueIds)
    <3>1. [k \in {} |-> Null] \in [{} -> ValueIds] /\ {} \in SUBSET Keys
      OBVIOUS
    <3> QED
      BY <3>1, PartialFunctions
  <2> QED
    BY <1>1, <2>1, StateFields, CostsAssumption
<1>4. /\ DOMAIN states' = DOMAIN states \cup {s} /\ states'[s] = r
      /\ \A x \in DOMAIN states : states'[x] = states[x]
  BY <1>2 DEF With
<1>5. Pointed(states') = Pointed(states)
  <2>1. \A v \in Pointed(states) : v \in Pointed(states')
    <3> SUFFICES ASSUME NEW v \in Pointed(states) PROVE v \in Pointed(states')
      OBVIOUS
    <3>1. PICK x \in DOMAIN states : \E k \in DOMAIN states[x].data : states[x].data[k] = v
      BY PointedMembers
    <3>2. x \in DOMAIN states' /\ states'[x] = states[x]
      BY <1>4
    <3> QED
      BY <3>1, <3>2, PointedMembers
  <2>2. \A v \in Pointed(states') : v \in Pointed(states)
    <3> SUFFICES ASSUME NEW v \in Pointed(states') PROVE v \in Pointed(states)
      OBVIOUS
    <3>1. PICK x \in DOMAIN states' : \E k \in DOMAIN states'[x].data : states'[x].data[k] = v
      BY PointedMembers
    <3>2. x \in DOMAIN states /\ states'[x] = states[x]
      BY <1>3, <1>4, <3>1
    <3> QED
      BY <3>1, <3>2, PointedMembers
  <2> QED
    BY <2>1, <2>2
<1>6. UNCHANGED <<values, shared, visited, clone>>
  BY DEF Create
<1>7. Provenance(s)
  BY <1>3, <1>4 DEF Provenance
<1>8. s \in StateIds \ DOMAIN visited
  BY <1>2 DEF Fits, TypeOK
<1>9. /\ DOMAIN values' = Pointed(states') /\ DOMAIN values' \subseteq ValueIds
      /\ shared' \subseteq DOMAIN values' /\ shared \cap Pointed(states') \subseteq shared'
      /\ DOMAIN states' \subseteq StateIds /\ clone' \in DOMAIN states' \cup {Null}
  BY <1>4, <1>5, <1>6 DEF Fits, TypeOK
<1> QED
  BY <1>3, <1>4, <1>6, <1>7, <1>8, <1>9, Rewired

\* A state that is dropped takes the values with it that no other state points to.
LEMMA DropFits ==
  ASSUME Fits, NEW s \in StateIds, Drop(s) PROVE Fits' /\ OthersKept(s)
<1>0. TypeOK /\ s \in DOMAIN states /\ s \in StateIds \ DOMAIN visited
  BY MineFacts DEF Fits, Drop
<1>1. /\ DOMAIN states' = DOMAIN states \ {s}
      /\ \A x \in DOMAIN states' : states'[x] = states[x]
  BY DEF Drop, Without
<1>2. Pointed(states') \subseteq DOMAIN values
  <2> SUFFICES ASSUME NEW v \in Pointed(states') PROVE v \in DOMAIN values
    OBVIOUS
  <2>1. PICK x \in DOMAIN states' : \E k \in DOMAIN states'[x].data : states'[x].data[k] = v
    BY PointedMembers
  <2> QED
    BY <1>0, <1>1, <2>1, PointedMembers DEF TypeOK
<1>3. /\ values' = [v \in Pointed(states') |-> values[v]] /\ shared' = shared \cap Pointed(states')
      /\ visited' = visited /\ clone' = clone /\ clone = Null
  BY DEF Drop, Heap
<1>4. /\ DOMAIN values' = Pointed(states') /\ DOMAIN values' \subseteq ValueIds
      /\ \A v \in DOMAIN values' : v \in DOMAIN values /\ values'[v] = values[v]
  BY <1>0, <1>2, <1>3, ValuesKept
<1>5. DOMAIN states' \subseteq StateIds /\ clone' \in DOMAIN states' \cup {Null} /\ s \notin DOMAIN states'
  BY <1>0, <1>1, <1>3 DEF TypeOK
<1>6. shared' \subseteq DOMAIN values'
  BY <1>3, <1>4
<1> QED
  BY <1>0, <1>1, <1>3, <1>4, <1>5, <1>6, Rewired

\* The states after a change of s point to what s points to and to what they did.
LEMMA TouchedPoints ==
  ASSUME TypeOK, NEW s \in DOMAIN states, DOMAIN states' = DOMAIN states,
         \A x \in DOMAIN states \ {s} : states'[x] = states[x]
  PROVE  \A v \in Pointed(states') :
           v \in DOMAIN values \/ \E k \in DOMAIN states'[s].data : states'[s].data[k] = v
<1> SUFFICES ASSUME NEW v \in Pointed(states'),
                    ~ \E k \in DOMAIN states'[s].data : states'[s].data[k] = v
             PROVE  v \in DOMAIN values
  OBVIOUS
<1>1. PICK x \in DOMAIN states' : \E k \in DOMAIN states'[x].data : states'[x].data[k] = v
  BY PointedMembers
<1>2. x # s /\ states'[x] = states[x] /\ x \in DOMAIN states
  BY <1>1
<1>3. v \in Pointed(states)
  BY <1>1, <1>2, PointedMembers
<1> QED
  BY <1>3 DEF TypeOK

\* A state gets data whose pointers were there or are new, each new one once, or it is
\* emptied.
LEMMA TouchFits ==
  ASSUME Fits, NEW s \in StateIds, Mine(s), NEW data \in Partial(Keys, ValueIds),
         NEW N \in SUBSET Fresh, NEW n \in Numbers, NEW vs,
         \/ states' = Touched(s, data)
         \/ DOMAIN data = {} /\ states' = [states EXCEPT ![s].data = data],
         DOMAIN vs = DOMAIN values \cup N,
         \A v \in DOMAIN values : vs[v] = values[v],
         \A v \in N : vs[v] = NewValue(n),
         \A k \in DOMAIN data :
           \/ k \in DOMAIN states[s].data /\ data[k] = states[s].data[k]
           \/ data[k] \in N /\ \A j \in DOMAIN data : data[j] = data[k] => j = k,
         Heap(states', vs), UNCHANGED <<visited, clone>>
  PROVE  Fits' /\ OthersKept(s)
<1>0. TypeOK /\ s \in DOMAIN states /\ s \in StateIds \ DOMAIN visited
  BY MineFacts DEF Fits
<1>1. /\ DOMAIN states' = DOMAIN states /\ s \in DOMAIN states'
      /\ states'[s] \in State /\ states'[s].data = data
      /\ \/ states'[s].hash = Unset
         \/ Reflects(states[s].hash, s)'
      /\ \A x \in DOMAIN states \ {s} : states'[x] = states[x]
  <2>1. CASE states' = Touched(s, data)
    BY <1>0, <2>1, TouchedFacts
  <2>2. CASE DOMAIN data = {} /\ states' = [states EXCEPT ![s].data = data]
    <3>1. states[s] \in State
      BY <1>0 DEF TypeOK
    <3>2. PICK q : q = [states[s] EXCEPT !.data = data]
      OBVIOUS
    <3>3. q \in State /\ q.data = data /\ q.cost = states[s].cost /\ q.hash = states[s].hash
      <4>1. q = [data |-> data, cost |-> states[s].cost, hash |-> states[s].hash]
        BY <3>1, <3>2 DEF State
      <4> QED
        BY <3>1, <4>1, StateFields
    <3>4. states' = [states EXCEPT ![s] = q]
      BY <2>2, <3>2
    <3>5. /\ DOMAIN states' = DOMAIN states /\ states'[s] = q
          /\ \A x \in DOMAIN states \ {s} : states'[x] = states[x]
      BY <1>0, <3>4
    <3>6. states[s].hash # Unset => states[s].hash.cost = states[s].cost
      BY <1>0 DEF Fits, HashIsCurrent, Reflects
    <3>7. states'[s].hash # Unset => Reflects(states[s].hash, s)'
      BY <2>2, <3>3, <3>5, <3>6 DEF Reflects
    <3> QED
      BY <1>0, <3>3, <3>5, <3>7
  <2> QED
    BY <2>1, <2>2
<1>2. N \subseteq ValueIds /\ N \cap DOMAIN values = {}
  BY DEF Fresh
<1>3. Pointed(states') \subseteq DOMAIN values \cup N
  <2> SUFFICES ASSUME NEW v \in Pointed(states'), v \notin DOMAIN values PROVE v \in N
    OBVIOUS
  <2>1. PICK k \in DOMAIN data : data[k] = v
    BY <1>0, <1>1, TouchedPoints
  <2>2. k \in DOMAIN states[s].data => states[s].data[k] \in DOMAIN values
    BY <1>0, PointedMembers DEF TypeOK
  <2> QED
    BY <2>1, <2>2
<1>4. /\ values' = [v \in Pointed(states') |-> vs[v]] /\ shared' = shared \cap Pointed(states')
  BY DEF Heap
<1>5. /\ DOMAIN values' = Pointed(states') /\ DOMAIN values' \subseteq ValueIds
      /\ shared' \subseteq DOMAIN values'
  BY <1>0, <1>2, <1>3, <1>4 DEF TypeOK
<1>6. \A v \in DOMAIN values' :
        \/ v \in DOMAIN values /\ values'[v] = values[v]
        \/ v \notin DOMAIN values /\ \E m \in Numbers : values'[v] = NewValue(m)
  <2>1. \A v \in DOMAIN values' : values'[v] = vs[v]
    BY <1>4
  <2> QED
    BY <1>2, <1>3, <1>5, <2>1
<1>7. Provenance(s)
  BY <1>0, <1>1, <1>2 DEF Provenance
<1>8. DOMAIN states' \subseteq StateIds /\ clone' \in DOMAIN states' \cup {Null}
  BY <1>0, <1>1 DEF TypeOK
<1> QED
  BY <1>0, <1>1, <1>4, <1>5, <1>6, <1>7, <1>8, Rewired

\* A state gets pointers of its own and of others, which are noted as shared.
LEMMA ShareFits ==
  ASSUME Fits, NEW s \in StateIds, Mine(s), NEW S \in SUBSET DOMAIN values,
         DOMAIN states' = DOMAIN states,
         \A x \in DOMAIN states \ {s} : states'[x] = states[x],
         states'[s] \in State, states'[s].hash = Unset,
         \A k \in DOMAIN states'[s].data :
           \/ k \in DOMAIN states[s].data /\ states'[s].data[k] = states[s].data[k]
           \/ states'[s].data[k] \in S,
         values' = [v \in Pointed(states') |-> values[v]],
         shared' = (shared \cup S) \cap Pointed(states'),
         UNCHANGED <<visited, clone>>
  PROVE  Fits' /\ OthersKept(s)
<1>0. TypeOK /\ s \in DOMAIN states /\ s \in StateIds \ DOMAIN visited
  BY MineFacts DEF Fits
<1>1. Pointed(states') \subseteq DOMAIN values
  <2> SUFFICES ASSUME NEW v \in Pointed(states'), v \notin DOMAIN values PROVE FALSE
    OBVIOUS
  <2>1. PICK k \in DOMAIN states'[s].data : states'[s].data[k] = v
    BY <1>0, TouchedPoints
  <2>2. k \in DOMAIN states[s].data => states[s].data[k] \in DOMAIN values
    BY <1>0, PointedMembers DEF TypeOK
  <2> QED
    BY <2>1, <2>2
<1>2. /\ DOMAIN values' = Pointed(states') /\ DOMAIN values' \subseteq ValueIds
      /\ \A v \in DOMAIN values' : v \in DOMAIN values /\ values'[v] = values[v]
  BY <1>0, <1>1, ValuesKept
<1>3. Provenance(s)
  <2>1. \A k \in DOMAIN states'[s].data : states'[s].data[k] \in Pointed(states')
    BY <1>0, PointedMembers
  <2> QED
    BY <1>0, <2>1 DEF Provenance
<1>4. /\ DOMAIN states' \subseteq StateIds /\ clone' \in DOMAIN states' \cup {Null}
      /\ shared' \subseteq DOMAIN values' /\ shared \cap Pointed(states') \subseteq shared'
  BY <1>0, <1>2 DEF TypeOK
<1> QED
  BY <1>0, <1>2, <1>3, <1>4, Rewired

\* put(key, number), remove() and assign(map) bring new values, each once.
LEMMA PutFits ==
  ASSUME Fits, NEW s \in StateIds, NEW k \in Keys, NEW n \in Numbers, Put(s, k, n)
  PROVE  Fits' /\ OthersKept(s)
<1>0. TypeOK /\ s \in DOMAIN states
  BY MineFacts DEF Fits, Put
<1>1. PICK v \in Fresh : /\ states' = Touched(s, With(states[s].data, k, v))
                         /\ Heap(states', With(values, v, NewValue(n)))
  BY DEF Put
<1>2. PICK d : d = states[s].data
  OBVIOUS
<1>3. DOMAIN d \subseteq Keys /\ \A j \in DOMAIN d : d[j] \in ValueIds /\ d[j] \in DOMAIN values
  <2>1. d \in Partial(Keys, ValueIds)
    BY <1>0, <1>2, StateFields DEF TypeOK
  <2> QED
    BY <1>0, <1>2, <2>1, PartialFunctions, PointedMembers DEF TypeOK
<1>4. PICK data : data = With(d, k, v)
  OBVIOUS
<1>5. /\ DOMAIN data = DOMAIN d \cup {k} /\ data[k] = v
      /\ \A j \in DOMAIN d : j # k => data[j] = d[j]
  BY <1>4 DEF With
<1>6. data \in Partial(Keys, ValueIds)
  <2>1. data \in [DOMAIN d \cup {k} -> ValueIds]
    BY <1>3, <1>4 DEF With, Fresh
  <2> QED
    BY <1>3, <2>1, PartialFunctions
<1>7. PICK vs : vs = With(values, v, NewValue(n))
  OBVIOUS
<1>8. /\ DOMAIN vs = DOMAIN values \cup {v} /\ \A w \in DOMAIN values : vs[w] = values[w]
      /\ \A w \in {v} : vs[w] = NewValue(n)
  BY <1>7 DEF With, Fresh
<1>9. \A j \in DOMAIN data :
        \/ j \in DOMAIN states[s].data /\ data[j] = states[s].data[j]
        \/ data[j] \in {v} /\ \A i \in DOMAIN data : data[i] = data[j] => i = j
  BY <1>2, <1>3, <1>5 DEF Fresh
<1>10. /\ states' = Touched(s, data) /\ Heap(states', vs) /\ {v} \in SUBSET Fresh
       /\ UNCHANGED <<visited, clone>> /\ Mine(s)
  BY <1>1, <1>2, <1>4, <1>7 DEF Put
<1>11. PICK N : N = {v}
  OBVIOUS
<1>12. /\ N \in SUBSET Fresh /\ DOMAIN vs = DOMAIN values \cup N
       /\ \A w \in N : vs[w] = NewValue(n)
       /\ \A j \in DOMAIN data :
            \/ j \in DOMAIN states[s].data /\ data[j] = states[s].data[j]
            \/ data[j] \in N /\ \A i \in DOMAIN data : data[i] = data[j] => i = j
  BY <1>8, <1>9, <1>10, <1>11
<1> QED
  BY <1>6, <1>8, <1>10, <1>12, TouchFits

\* remove(key)
LEMMA RemoveFits ==
  ASSUME Fits, NEW s \in StateIds, NEW k \in Keys, Remove(s, k)
  PROVE  Fits' /\ OthersKept(s)
<1>0. TypeOK /\ s \in DOMAIN states
  BY MineFacts DEF Fits, Remove
<1>1. PICK d : d = states[s].data
  OBVIOUS
<1>2. DOMAIN d \subseteq Keys /\ \A j \in DOMAIN d : d[j] \in ValueIds
  <2>1. d \in Partial(Keys, ValueIds)
    BY <1>0, <1>1, StateFields DEF TypeOK
  <2> QED
    BY <2>1, PartialFunctions
<1>3. PICK data : data = Without(d, k)
  OBVIOUS
<1>4. DOMAIN data = DOMAIN d \ {k} /\ \A j \in DOMAIN data : data[j] = d[j]
  BY <1>3 DEF Without
<1>5. data \in Partial(Keys, ValueIds)
  <2>1. data \in [DOMAIN d \ {k} -> ValueIds]
    BY <1>2, <1>3 DEF Without
  <2> QED
    BY <1>2, <2>1, PartialFunctions
<1>6. /\ states' = Touched(s, data) /\ Heap(states', values)
      /\ UNCHANGED <<visited, clone>> /\ Mine(s)
  BY <1>1, <1>3 DEF Remove
<1>7. \A j \in DOMAIN data :
        \/ j \in DOMAIN states[s].data /\ data[j] = states[s].data[j]
        \/ data[j] \in {} /\ \A i \in DOMAIN data : data[i] = data[j] => i = j
  BY <1>1, <1>4
<1>8. 0 \in Numbers /\ {} \in SUBSET Fresh /\ DOMAIN values = DOMAIN values \cup {}
  BY CostsAssumption DEF Numbers
<1> QED
  BY <1>5, <1>6, <1>7, <1>8, TouchFits

\* assign(map)
LEMMA AssignMapFits ==
  ASSUME Fits, NEW s \in StateIds, NEW D \in SUBSET Keys, NEW n \in Numbers, AssignMap(s, D, n)
  PROVE  Fits' /\ OthersKept(s)
<1>1. PICK new \in [D -> Fresh] :
        /\ \A j, k \in D : new[j] = new[k] => j = k
        /\ states' = IF D = {} THEN [states EXCEPT ![s].data = new] ELSE Touched(s, new)
        /\ Heap(states', Over(values, [v \in Targets(new) |-> NewValue(n)]))
  BY DEF AssignMap
<1>2. new \in Partial(Keys, ValueIds)
  <2>1. new \in [D -> ValueIds]
    BY DEF Fresh
  <2> QED
    BY <2>1, PartialFunctions
<1>3. PICK vs : vs = Over(values, [v \in Targets(new) |-> NewValue(n)])
  OBVIOUS
<1>4. Targets(new) \in SUBSET Fresh /\ \A k \in DOMAIN new : new[k] \in Targets(new)
  BY DEF Targets
<1>5. /\ DOMAIN vs = DOMAIN values \cup Targets(new)
      /\ \A w \in DOMAIN values : vs[w] = values[w]
      /\ \A w \in Targets(new) : vs[w] = NewValue(n)
  BY <1>3, <1>4 DEF Over, Fresh
<1>6. \A j \in DOMAIN new :
        \/ j \in DOMAIN states[s].data /\ new[j] = states[s].data[j]
        \/ new[j] \in Targets(new) /\ \A i \in DOMAIN new : new[i] = new[j] => i = j
  BY <1>1, <1>4
<1>7. Heap(states', vs) /\ UNCHANGED <<visited, clone>> /\ Mine(s)
  BY <1>1, <1>3 DEF AssignMap
<1>8. PICK N : N = Targets(new)
  OBVIOUS
<1>9. /\ N \in SUBSET Fresh /\ DOMAIN vs = DOMAIN values \cup N
      /\ \A w \in N : vs[w] = NewValue(n)
      /\ \A j \in DOMAIN new :
           \/ j \in DOMAIN states[s].data /\ new[j] = states[s].data[j]
           \/ new[j] \in N /\ \A i \in DOMAIN new : new[i] = new[j] => i = j
  BY <1>4, <1>5, <1>6, <1>8
<1>10. CASE D = {}
  <2>1. DOMAIN new = {} /\ states' = [states EXCEPT ![s].data = new]
    BY <1>1, <1>10
  <2> QED
    BY <1>2, <1>5, <1>7, <1>9, <2>1, TouchFits, ZenonT(60)
<1>11. CASE D # {}
  <2>1. states' = Touched(s, new)
    BY <1>1, <1>11
  <2> QED
    BY <1>2, <1>5, <1>7, <1>9, <2>1, TouchFits, ZenonT(60)
<1> QED
  BY <1>10, <1>11

\* put(key, at(other))
LEMMA PutSharedFits ==
  ASSUME Fits, NEW s \in StateIds, NEW k \in Keys, NEW j \in Keys, PutShared(s, k, j)
  PROVE  Fits' /\ OthersKept(s)
<1>0. TypeOK /\ s \in DOMAIN states /\ Mine(s) /\ j \in DOMAIN states[s].data
  BY MineFacts DEF Fits, PutShared
<1>1. PICK d : d = states[s].data
  OBVIOUS
<1>2. DOMAIN d \subseteq Keys /\ \A i \in DOMAIN d : d[i] \in ValueIds /\ d[i] \in DOMAIN values
  <2>1. d \in Partial(Keys, ValueIds)
    BY <1>0, <1>1, StateFields DEF TypeOK
  <2> QED
    BY <1>0, <1>1, <2>1, PartialFunctions, PointedMembers DEF TypeOK
<1>3. PICK data : data = With(d, k, d[j])
  OBVIOUS
<1>4. DOMAIN data = DOMAIN d \cup {k} /\ data[k] = d[j] /\ \A i \in DOMAIN d : i # k => data[i] = d[i]
  BY <1>3 DEF With
<1>5. data \in Partial(Keys, ValueIds)
  <2>1. data \in [DOMAIN d \cup {k} -> ValueIds]
    BY <1>0, <1>1, <1>2, <1>3 DEF With
  <2> QED
    BY <1>2, <2>1, PartialFunctions
<1>6. states' = Touched(s, data)
  BY <1>1, <1>3 DEF PutShared
<1>7. /\ DOMAIN states' = DOMAIN states
      /\ states'[s] \in State /\ states'[s].hash = Unset /\ states'[s].data = data
      /\ \A x \in DOMAIN states \ {s} : states'[x] = states[x]
  BY <1>0, <1>5, <1>6, TouchedFacts
<1>8. /\ values' = [v \in Pointed(states') |-> values[v]]
      /\ shared' = (shared \cup {d[j]}) \cap Pointed(states')
      /\ UNCHANGED <<visited, clone>>
  BY <1>1 DEF PutShared
<1>9. {d[j]} \in SUBSET DOMAIN values
  BY <1>0, <1>1, <1>2
<1>10. \A i \in DOMAIN states'[s].data :
         \/ i \in DOMAIN states[s].data /\ states'[s].data[i] = states[s].data[i]
         \/ states'[s].data[i] \in {d[j]}
  BY <1>1, <1>4, <1>7
<1> QED
  BY <1>0, <1>7, <1>8, <1>9, <1>10, ShareFits

\* assign(State) and merge()
LEMMA AssignFits ==
  ASSUME Fits, NEW s \in StateIds, NEW r \in StateIds, Assign(s, r) \/ Merge(s, r)
  PROVE  Fits' /\ OthersKept(s)
<1>0. TypeOK /\ s \in DOMAIN states /\ Mine(s) /\ r \in DOMAIN states
  BY MineFacts DEF Fits, Assign, Merge
<1>1. PICK d, e : d = states[s].data /\ e = states[r].data
  OBVIOUS
<1>2. /\ d \in Partial(Keys, ValueIds) /\ e \in Partial(Keys, ValueIds)
      /\ states[r].cost \in Costs
  BY <1>0, <1>1, StateFields DEF TypeOK
<1>3. Targets(e) \in SUBSET DOMAIN values /\ \A k \in DOMAIN e : e[k] \in Targets(e)
  BY <1>0, <1>1, PointedMembers DEF TypeOK, Targets
<1>4. /\ DOMAIN states' = DOMAIN states
      /\ states'[s] \in State /\ states'[s].hash = Unset
      /\ \A x \in DOMAIN states \ {s} : states'[x] = states[x]
      /\ \A k \in DOMAIN states'[s].data :
           \/ k \in DOMAIN states[s].data /\ states'[s].data[k] = states[s].data[k]
           \/ states'[s].data[k] \in Targets(e)
  <2>1. CASE Assign(s, r)
    <3>1. PICK q : q = [data |-> e, cost |-> states[r].cost, hash |-> Unset]
      OBVIOUS
    <3>2. states' = [states EXCEPT ![s] = q]
      BY <1>1, <2>1, <3>1 DEF Assign
    <3>3. q \in State /\ q.hash = Unset /\ q.data = e
      BY <1>2, <3>1, StateFields
    <3> QED
      BY <1>0, <1>3, <3>2, <3>3
  <2>2. CASE Merge(s, r)
    <3>1. PICK data : data = Over(d, e)
      OBVIOUS
    <3>2. /\ DOMAIN data = DOMAIN d \cup DOMAIN e
          /\ \A k \in DOMAIN data : data[k] = IF k \in DOMAIN e THEN e[k] ELSE d[k]
      BY <3>1 DEF Over
    <3>3. data \in Partial(Keys, ValueIds)
      <4>1. /\ DOMAIN d \cup DOMAIN e \in SUBSET Keys
            /\ \A k \in DOMAIN d : d[k] \in ValueIds
            /\ \A k \in DOMAIN e : e[k] \in ValueIds
        BY <1>2, PartialFunctions
      <4>2. data \in [DOMAIN d \cup DOMAIN e -> ValueIds]
        BY <3>1, <4>1 DEF Over
      <4> QED
        BY <4>1, <4>2, PartialFunctions
    <3>4. states' = Touched(s, data)
      BY <1>1, <2>2, <3>1 DEF Merge
    <3>5. /\ DOMAIN states' = DOMAIN states
          /\ states'[s] \in State /\ states'[s].hash = Unset /\ states'[s].data = data
          /\ \A x \in DOMAIN states \ {s} : states'[x] = states[x]
      BY <1>0, <3>3, <3>4, TouchedFacts
    <3>6. \A k \in DOMAIN data : \/ k \in DOMAIN d /\ data[k] = d[k]
                                 \/ data[k] \in Targets(e)
      BY <1>3, <3>2
    <3> QED
      BY <1>1, <3>5, <3>6
  <2> QED
    BY <2>1, <2>2
<1>5. /\ values' = [v \in Pointed(states') |-> values[v]]
      /\ shared' = (shared \cup Targets(e)) \cap Pointed(states')
      /\ UNCHANGED <<visited, clone>>
  BY <1>1 DEF Assign, Merge
<1> QED
  BY <1>0, <1>3, <1>4, <1>5, ShareFits

\* What points where does not depend on costs and hashes.
LEMMA SamePoints ==
  ASSUME DOMAIN states' = DOMAIN states, \A x \in DOMAIN states : states'[x].data = states[x].data
  PROVE  Pointed(states') = Pointed(states)
<1>1. ASSUME NEW v \in Pointed(states') PROVE v \in Pointed(states)
  <2>1. PICK x \in DOMAIN states' : \E k \in DOMAIN states'[x].data : states'[x].data[k] = v
    BY PointedMembers
  <2> QED
    BY <2>1, PointedMembers
<1>2. ASSUME NEW v \in Pointed(states) PROVE v \in Pointed(states')
  <2>1. PICK x \in DOMAIN states : \E k \in DOMAIN states[x].data : states[x].data[k] = v
    BY PointedMembers
  <2>2. x \in DOMAIN states' /\ states'[x].data = states[x].data
    OBVIOUS
  <2> QED
    BY <2>1, <2>2, PointedMembers
<1> QED
  BY <1>1, <1>2

\* cost(c)
LEMMA SetCostFits ==
  ASSUME Fits, NEW s \in StateIds, NEW c \in Costs, SetCost(s, c)
  PROVE  Fits' /\ OthersKept(s)
<1>0. TypeOK /\ s \in DOMAIN states /\ s \in StateIds \ DOMAIN visited
  BY MineFacts DEF Fits, SetCost
<1>1. states[s] \in State
  BY <1>0 DEF TypeOK
<1>2. PICK q : q = [states[s] EXCEPT !.cost = c, !.hash = Unset]
  OBVIOUS
<1>3. q = [data |-> states[s].data, cost |-> c, hash |-> Unset]
  BY <1>1, <1>2 DEF State
<1>4. q \in State /\ q.hash = Unset /\ q.data = states[s].data
  BY <1>1, <1>3, StateFields
<1>5. states' = [states EXCEPT ![s] = q] /\ UNCHANGED <<values, shared, visited, clone>>
  BY <1>2 DEF SetCost
<1>6. /\ DOMAIN states' = DOMAIN states /\ states'[s] = q
      /\ \A x \in DOMAIN states \ {s} : states'[x] = states[x]
  BY <1>0, <1>5
<1>7. Pointed(states') = Pointed(states)
  BY <1>4, <1>6, SamePoints
<1>8. Provenance(s)
  BY <1>0, <1>4, <1>6 DEF Provenance
<1>9. /\ DOMAIN values' = Pointed(states') /\ DOMAIN values' \subseteq ValueIds
      /\ shared' \subseteq DOMAIN values' /\ shared \cap Pointed(states') \subseteq shared'
      /\ DOMAIN states' \subseteq StateIds /\ clone' \in DOMAIN states' \cup {Null}
  BY <1>0, <1>5, <1>6, <1>7 DEF TypeOK
<1> QED
  BY <1>0, <1>4, <1>5, <1>6, <1>8, <1>9, Rewired

\* The clone of an executor has values of its own.
LEMMA ExecuteFits ==
  ASSUME Fits, NEW s \in StateIds, NEW r \in StateIds, Execute(s, r)
  PROVE  Fits' /\ OthersKept(r)
<1>0. TypeOK /\ s \in DOMAIN states /\ r \in StateIds \ DOMAIN states /\ r \in StateIds \ DOMAIN visited
  BY DEF Fits, Execute, TypeOK
<1>2. PICK copy \in [DOMAIN states[s].data -> Fresh] :
        /\ \A j, k \in DOMAIN copy : copy[j] = copy[k] => j = k
        /\ states' = With(states, r, [data |-> copy, cost |-> 1, hash |-> Unset])
        /\ values' = Over(values, [v \in Targets(copy) |->
                        LET k == CHOOSE k \in DOMAIN copy : copy[k] = v
                        IN  NewValue(values[states[s].data[k]].number)])
  BY DEF Execute
<1>3. /\ states[s].data \in Partial(Keys, ValueIds)
      /\ \A k \in DOMAIN states[s].data : states[s].data[k] \in DOMAIN values
  BY <1>0, StateFields, PointedMembers DEF TypeOK
<1>4. copy \in Partial(Keys, ValueIds)
  <2>1. copy \in [DOMAIN states[s].data -> ValueIds] /\ DOMAIN states[s].data \in SUBSET Keys
    BY <1>3, PartialFunctions DEF Fresh
  <2> QED
    BY <2>1, PartialFunctions
<1>5. PICK q : q = [data |-> copy, cost |-> 1, hash |-> Unset]
  OBVIOUS
<1>6. q \in State /\ q.hash = Unset /\ q.data = copy
  BY <1>4, <1>5, StateFields, CostsAssumption
<1>7. /\ DOMAIN states' = DOMAIN states \cup {r} /\ states'[r] = q
      /\ \A x \in DOMAIN states : states'[x] = states[x]
  BY <1>0, <1>2, <1>5 DEF With
<1>8. /\ Targets(copy) \in SUBSET Fresh /\ \A k \in DOMAIN copy : copy[k] \in Targets(copy)
      /\ \A v \in Targets(copy) : \E k \in DOMAIN copy : copy[k] = v
  BY DEF Targets
<1>9. /\ DOMAIN values' = DOMAIN values \cup Targets(copy)
      /\ \A v \in DOMAIN values : values'[v] = values[v]
  BY <1>2, <1>8 DEF Over, Fresh
<1>10. ASSUME NEW v \in Targets(copy)
       PROVE  v \notin DOMAIN values /\ \E n \in Numbers : values'[v] = NewValue(n)
  <2>1. PICK k \in DOMAIN copy : k = CHOOSE i \in DOMAIN copy : copy[i] = v
    BY <1>8
  <2>2. values'[v] = NewValue(values[states[s].data[k]].number)
    BY <1>2, <1>8, <2>1 DEF Over
  <2>3. values[states[s].data[k]].number \in Numbers
    BY <1>0, <1>3, <2>1, ValueFields DEF TypeOK
  <2> QED
    BY <1>8, <2>2, <2>3 DEF Fresh
<1>11. DOMAIN values' = Pointed(states')
  <2>1. ASSUME NEW v \in Pointed(states') PROVE v \in DOMAIN values'
    <3>1. PICK x \in DOMAIN states' : \E k \in DOMAIN states'[x].data : states'[x].data[k] = v
      BY PointedMembers
    <3>2. CASE x = r
      BY <1>6, <1>7, <1>8, <1>9, <3>1, <3>2
    <3>3. CASE x # r
      <4>1. x \in DOMAIN states /\ states'[x] = states[x]
        BY <1>7, <3>1, <3>3
      <4> QED
        BY <1>0, <1>9, <3>1, <4>1, PointedMembers DEF TypeOK
    <3> QED
      BY <3>2, <3>3
  <2>2. ASSUME NEW v \in Targets(copy) PROVE v \in Pointed(states')
    <3>1. r \in DOMAIN states' /\ states'[r].data = copy
      BY <1>6, <1>7
    <3> QED
      BY <1>8, <3>1, PointedMembers
  <2>3. ASSUME NEW v \in DOMAIN values PROVE v \in Pointed(states')
    <3>1. PICK x \in DOMAIN states : \E k \in DOMAIN states[x].data : states[x].data[k] = v
      BY <1>0, PointedMembers DEF TypeOK
    <3>2. x \in DOMAIN states' /\ states'[x] = states[x]
      BY <1>7
    <3> QED
      BY <3>1, <3>2, PointedMembers
  <2> QED
    BY <1>9, <2>1, <2>2, <2>3
<1>12. Provenance(r)
  <2>1. states'[r].data = copy
    BY <1>6, <1>7
  <2>2. \A j, k \in DOMAIN copy : copy[j] = copy[k] => j = k
    BY <1>2
  <2>3. \A k \in DOMAIN copy : copy[k] \notin DOMAIN values
    BY <1>8, <1>10
  <2> QED
    BY <2>1, <2>2, <2>3 DEF Provenance
<1>13. UNCHANGED <<shared, visited>> /\ clone' = r
  BY DEF Execute
<1>14. /\ DOMAIN values' \subseteq ValueIds
       /\ shared' \subseteq DOMAIN values' /\ shared \cap Pointed(states') \subseteq shared'
       /\ DOMAIN states' \subseteq StateIds /\ clone' \in DOMAIN states' \cup {Null}
  BY <1>0, <1>7, <1>8, <1>9, <1>13 DEF TypeOK, Fresh
<1>15. \A v \in DOMAIN values' :
         \/ v \in DOMAIN values /\ values'[v] = values[v]
         \/ v \notin DOMAIN values /\ \E n \in Numbers : values'[v] = NewValue(n)
  BY <1>9, <1>10
<1>16. /\ r \in DOMAIN states' => /\ states'[r] \in State /\ states'[r].hash = Unset
                                  /\ Provenance(r)
       /\ \A x \in DOMAIN states \ {r} : x \in DOMAIN states' /\ states'[x] = states[x]
       /\ \A x \in DOMAIN states' \ {r} : x \in DOMAIN states
  BY <1>6, <1>7, <1>12
<1> QED
  BY <1>0, <1>11, <1>13, <1>14, <1>15, <1>16, Rewired

\* add() touches one state, and others that point to the value are known to share it.
LEMMA AddFits ==
  ASSUME Fits, NEW s \in StateIds, NEW k \in Keys, NEW n \in Numbers, Add(s, k, n)
  PROVE  Fits'
<1>0. TypeOK /\ s \in DOMAIN states /\ s \notin DOMAIN visited /\ k \in DOMAIN states[s].data
  BY MineFacts DEF Fits, Add
<1>1. PICK v : v = states[s].data[k]
  OBVIOUS
<1>2. /\ v \in DOMAIN values /\ values[v].number + n <= MaxNumber
  BY <1>0, <1>1, PointedMembers DEF Add, TypeOK
<1>3. PICK m : m = values[v].number + n
  OBVIOUS
<1>4. m \in Numbers
  <2>1. values[v].number \in Numbers
    BY <1>0, <1>2, ValueFields DEF TypeOK
  <2> QED
    BY <1>2, <1>3, <2>1, CostsAssumption DEF Numbers
<1>5. /\ DOMAIN values' = DOMAIN values /\ values'[v] = NewValue(m)
      /\ \A w \in DOMAIN values \ {v} : values'[w] = values[w]
  BY <1>1, <1>2, <1>3 DEF Add
<1>6. PICK q : q = [states[s] EXCEPT !.hash = Unset]
  OBVIOUS
<1>7. q \in State /\ q.hash = Unset /\ q.data = states[s].data
  <2>1. states[s] \in State
    BY <1>0 DEF TypeOK
  <2>2. q = [data |-> states[s].data, cost |-> states[s].cost, hash |-> Unset]
    BY <1>6, <2>1 DEF State
  <2> QED
    BY <2>1, <2>2, StateFields
<1>8. states' = [states EXCEPT ![s] = q] /\ UNCHANGED <<shared, visited, clone>>
  BY <1>6 DEF Add
<1>9. /\ DOMAIN states' = DOMAIN states /\ states'[s] = q
      /\ \A x \in DOMAIN states \ {s} : states'[x] = states[x]
  BY <1>0, <1>8
<1>10. \A x \in DOMAIN states : states'[x].data = states[x].data
  BY <1>7, <1>9
<1>11. ASSUME NEW x \in DOMAIN states \ {s}, NEW h, Reflects(h, x)
       PROVE  Reflects(h, x)'
  <2>1. ASSUME NEW j \in DOMAIN states[x].data, states[x].data[j] \notin shared
        PROVE  values'[states[x].data[j]].number = values[states[x].data[j]].number
    <3>1. states[x].data[j] # v
      BY <1>0, <1>1, <2>1 DEF Fits, Separate
    <3>2. states[x].data[j] \in DOMAIN values
      BY <1>0, PointedMembers DEF TypeOK
    <3> QED
      BY <1>5, <3>1, <3>2
  <2>2. states'[x].data = states[x].data /\ states'[x].cost = states[x].cost /\ shared' = shared
    BY <1>8, <1>9
  <2> QED
    BY <1>11, <2>1, <2>2, ReflectsKept
<1>12. Pointed(states') = Pointed(states)
  BY <1>9, <1>10, SamePoints
<1>13. TypeOK'
  <2>1. \A x \in DOMAIN states' : states'[x] \in State
    BY <1>0, <1>7, <1>9 DEF TypeOK
  <2>2. \A w \in DOMAIN values' : values'[w] \in Value
    BY <1>0, <1>4, <1>5, ValueFields DEF TypeOK
  <2> QED
    BY <1>0, <1>5, <1>8, <1>9, <1>12, <2>1, <2>2 DEF TypeOK
<1>14. HashIsCurrent'
  <2> SUFFICES ASSUME NEW x \in DOMAIN states', states'[x].hash # Unset
               PROVE  Reflects(states[x].hash, x)'
    BY DEF HashIsCurrent
  <2>1. x \in DOMAIN states \ {s} /\ states'[x] = states[x]
    BY <1>7, <1>9
  <2>2. PICK h : h = states[x].hash
    OBVIOUS
  <2>3. Reflects(h, x)
    BY <2>1, <2>2 DEF Fits, HashIsCurrent
  <2>4. Reflects(h, x)'
    BY <1>11, <2>1, <2>3
  <2> QED
    BY <2>1, <2>2, <2>4 DEF Reflects
<1>15. VisitedFound'
  <2> SUFFICES ASSUME NEW x \in DOMAIN visited' PROVE Reflects(visited[x], x)'
    BY DEF VisitedFound
  <2>1. x \in DOMAIN visited /\ x \in DOMAIN states \ {s} /\ visited' = visited
    BY <1>0, <1>8 DEF TypeOK
  <2>2. PICK h : h = visited[x]
    OBVIOUS
  <2>3. Reflects(h, x)
    BY <2>1, <2>2 DEF Fits, VisitedFound
  <2>4. Reflects(h, x)'
    BY <1>11, <2>1, <2>3
  <2> QED
    BY <2>1, <2>2, <2>4 DEF Reflects
<1>16. Cached'
  BY <1>4, <1>5, ValueFields DEF Fits, Cached
<1>17. Separate'
  BY <1>8, <1>9, <1>10 DEF Fits, Separate
<1> QED
  BY <1>13, <1>14, <1>15, <1>16, <1>17 DEF Fits

\* An executor that adds in its clone changes no other state.
LEMMA AddKeepsOthers ==
  ASSUME IInv, NEW s \in StateIds, NEW k \in Keys, NEW n \in Numbers, Add(s, k, n),
         clone # Null
  PROVE  OthersKept(s)
<1>1. /\ TypeOK /\ s \in DOMAIN states /\ s = clone /\ k \in DOMAIN states[s].data
      /\ states' = [states EXCEPT ![s].hash = Unset]
  BY MineFacts DEF IInv, Fits, Add, Mine
<1>2. PICK v : v = states[s].data[k]
  OBVIOUS
<1>3. \A w \in DOMAIN values : w # v => w \in DOMAIN values' /\ values'[w] = values[w]
  BY <1>2 DEF Add
<1>4. ASSUME NEW x \in DOMAIN states \ {s}
      PROVE  x \in DOMAIN states' /\ Contents(x)' = Contents(x)
  <2>1. x \in DOMAIN states' /\ states'[x] = states[x]
    BY <1>1
  <2>2. ASSUME NEW j \in DOMAIN states[x].data
        PROVE  values'[states[x].data[j]].number = values[states[x].data[j]].number
    <3>1. states[x].data[j] \in DOMAIN values
      BY <1>1, PointedMembers DEF TypeOK
    <3>2. states[x].data[j] # v
      BY <1>1, <1>2 DEF IInv, CloneApart
    <3> QED
      BY <1>3, <3>1, <3>2
  <2> QED
    BY <2>1, <2>2, ContentsKept
<1> QED
  BY <1>4 DEF OthersKept

\* hash() changes nothing that matters, and answers what reflects the state.
LEMMA HashedFits ==
  ASSUME Fits, NEW s \in DOMAIN states, Hashed(s), UNCHANGED <<shared, clone>>,
         \/ visited' = visited
         \/ s \notin DOMAIN visited /\ visited' = With(visited, s, HashResult(s))
  PROVE  Fits' /\ \A x \in DOMAIN states : x \in DOMAIN states' /\ Contents(x)' = Contents(x)
<1>0. TypeOK
  BY DEF Fits
<1>1. \A v \in DOMAIN values : ValueHash(v) = values[v].number
  BY DEF Fits, Cached, ValueHash
<1>2. ASSUME states[s].hash = Unset PROVE HashResult(s) = Contents(s)
  <2>1. \A k \in DOMAIN states[s].data : states[s].data[k] \in DOMAIN values
    BY <1>0, PointedMembers DEF TypeOK
  <2>2. [k \in DOMAIN states[s].data |-> ValueHash(states[s].data[k])]
        = [k \in DOMAIN states[s].data |-> values[states[s].data[k]].number]
    BY <1>1, <2>1
  <2> QED
    BY <1>2, <2>2 DEF HashResult, Contents
<1>3. Contents(s) \in Hash
  <2>1. /\ states[s].data \in Partial(Keys, ValueIds) /\ states[s].cost \in Costs
    BY <1>0, StateFields DEF TypeOK
  <2>2. DOMAIN states[s].data \in SUBSET Keys
    BY <2>1, PartialFunctions
  <2>3. \A k \in DOMAIN states[s].data : values[states[s].data[k]].number \in Numbers
    BY <1>0, PointedMembers, ValueFields DEF TypeOK
  <2>4. PICK g : g = [k \in DOMAIN states[s].data |-> values[states[s].data[k]].number]
    OBVIOUS
  <2>5. g \in [DOMAIN states[s].data -> Numbers]
    BY <2>3, <2>4
  <2>6. g \in Partial(Keys, Numbers)
    BY <2>2, <2>5, PartialFunctions
  <2> QED
    BY <2>1, <2>4, <2>6 DEF Hash, Contents
<1>18. PICK h : h = HashResult(s)
  OBVIOUS
<1>19. h \in Hash /\ Reflects(h, s)
  <2>1. CASE states[s].hash # Unset
    <3>1. h = states[s].hash /\ h \in Hash \cup {Unset}
      BY <1>0, <1>18, <2>1, StateFields DEF TypeOK, HashResult
    <3> QED
      BY <2>1, <3>1 DEF Fits, HashIsCurrent
  <2>2. CASE states[s].hash = Unset
    BY <1>2, <1>3, <1>18, <2>2 DEF Contents, Reflects
  <2> QED
    BY <2>1, <2>2
<1>4. PICK q : q = [states[s] EXCEPT !.hash = h]
  OBVIOUS
<1>5. q \in State /\ q.hash = h /\ q.data = states[s].data /\ q.cost = states[s].cost
  <2>1. states[s] \in State
    BY <1>0 DEF TypeOK
  <2>2. q = [data |-> states[s].data, cost |-> states[s].cost, hash |-> h]
    BY <1>4, <2>1 DEF State
  <2> QED
    BY <1>19, <2>1, <2>2, StateFields
<1>6. states' = [states EXCEPT ![s] = q]
  BY <1>4, <1>18 DEF Hashed
<1>7. /\ DOMAIN states' = DOMAIN states /\ states'[s] = q
      /\ \A x \in DOMAIN states \ {s} : states'[x] = states[x]
  BY <1>6
<1>8. \A x \in DOMAIN states : states'[x].data = states[x].data /\ states'[x].cost = states[x].cost
  BY <1>5, <1>7
<1>9. /\ DOMAIN values' = DOMAIN values
      /\ \A v \in DOMAIN values :
           /\ values'[v] \in Value /\ values'[v].number = values[v].number
           /\ values'[v].hash # Unset => values'[v].hash = values[v].number
  <2>1. CASE states[s].hash # Unset
    <3>1. values' = values
      BY <2>1 DEF Hashed
    <3> QED
      BY <1>0, <3>1 DEF TypeOK, Fits, Cached
  <2>2. CASE states[s].hash = Unset
    <3>1. values' = [v \in DOMAIN values |->
                       IF v \in Targets(states[s].data)
                       THEN [values[v] EXCEPT !.hash = ValueHash(v)] ELSE values[v]]
      BY <2>2 DEF Hashed
    <3>2. ASSUME NEW v \in DOMAIN values
          PROVE  /\ values'[v] \in Value /\ values'[v].number = values[v].number
                 /\ values'[v].hash # Unset => values'[v].hash = values[v].number
      <4>1. values[v] \in Value
        BY <1>0 DEF TypeOK
      <4>2. CASE v \in Targets(states[s].data)
        <5>1. values'[v] = [values[v] EXCEPT !.hash = values[v].number]
          BY <1>1, <3>1, <4>2
        <5> QED
          BY <4>1, <5>1 DEF Value
      <4>3. CASE v \notin Targets(states[s].data)
        <5>1. values'[v] = values[v]
          BY <3>1, <4>3
        <5> QED
          BY <4>1, <5>1 DEF Fits, Cached
      <4> QED
        BY <4>2, <4>3
    <3> QED
      BY <3>1, <3>2
  <2> QED
    BY <2>1, <2>2
<1>10. ASSUME NEW x \in DOMAIN states PROVE Contents(x)' = Contents(x)
  <2>1. \A k \in DOMAIN states[x].data :
          values'[states[x].data[k]].number = values[states[x].data[k]].number
    BY <1>0, <1>9, PointedMembers DEF TypeOK
  <2> QED
    BY <1>8, <2>1, ContentsKept
<1>20. ASSUME NEW x \in DOMAIN states, NEW g, Reflects(g, x) PROVE Reflects(g, x)'
  <2>1. \A k \in DOMAIN states[x].data :
          values'[states[x].data[k]].number = values[states[x].data[k]].number
    BY <1>0, <1>9, PointedMembers DEF TypeOK
  <2> QED
    BY <1>8, <1>20, <2>1, ReflectsKept
<1>11. Pointed(states') = Pointed(states)
  BY <1>7, <1>8, SamePoints
<1>12. /\ DOMAIN visited' \subseteq DOMAIN states
       /\ \A x \in DOMAIN visited' : visited'[x] \in Hash /\ Reflects(visited'[x], x)
  <2>1. \A x \in DOMAIN visited : x \in DOMAIN states /\ visited[x] \in Hash /\ Reflects(visited[x], x)
    BY <1>0 DEF TypeOK, Fits, VisitedFound
  <2>2. CASE visited' = visited
    BY <2>1, <2>2
  <2>3. CASE visited' = With(visited, s, HashResult(s))
    <3>1. /\ DOMAIN visited' = DOMAIN visited \cup {s}
          /\ \A x \in DOMAIN visited' : visited'[x] = IF x = s THEN h ELSE visited[x]
      BY <1>18, <2>3 DEF With
    <3> QED
      BY <1>19, <2>1, <3>1
  <2> QED
    BY <2>2, <2>3
<1>13. TypeOK'
  <2>1. \A x \in DOMAIN states' : states'[x] \in State
    BY <1>0, <1>5, <1>7 DEF TypeOK
  <2> QED
    BY <1>0, <1>7, <1>9, <1>11, <1>12, <2>1 DEF TypeOK
<1>14. HashIsCurrent'
  <2> SUFFICES ASSUME NEW x \in DOMAIN states', states'[x].hash # Unset
               PROVE  Reflects(states[x].hash, x)'
    BY DEF HashIsCurrent
  <2>1. PICK g : g = states'[x].hash
    OBVIOUS
  <2>2. x \in DOMAIN states /\ Reflects(g, x)
    <3>1. CASE x = s
      BY <1>5, <1>7, <1>19, <2>1, <3>1
    <3>2. CASE x # s
      BY <1>7, <2>1, <3>2 DEF Fits, HashIsCurrent
    <3> QED
      BY <3>1, <3>2
  <2>3. Reflects(g, x)'
    BY <1>20, <2>2
  <2> QED
    BY <2>1, <2>3 DEF Reflects
<1>15. VisitedFound'
  <2> SUFFICES ASSUME NEW x \in DOMAIN visited' PROVE Reflects(visited[x], x)'
    BY DEF VisitedFound
  <2>1. PICK g : g = visited'[x]
    OBVIOUS
  <2>2. x \in DOMAIN states /\ Reflects(g, x)
    BY <1>12, <2>1
  <2>3. Reflects(g, x)'
    BY <1>20, <2>2
  <2> QED
    BY <2>1, <2>3 DEF Reflects
<1>16. Cached'
  BY <1>9 DEF Cached
<1>17. Separate'
  BY <1>7, <1>8 DEF Fits, Separate
<1> QED
  BY <1>7, <1>10, <1>13, <1>14, <1>15, <1>16, <1>17 DEF Fits
-----------------------------------------------------------------------------
(***************************************************************************)
(* The invariant.                                                          *)
(***************************************************************************)
\* It holds before the first call.
LEMMA InitIInv == Init => IInv
<1> SUFFICES ASSUME Init PROVE IInv
  OBVIOUS
<1>1. DOMAIN states = {} /\ DOMAIN values = {} /\ DOMAIN visited = {} /\ shared = {} /\ clone = Null
  BY DEF Init
<1>2. Pointed(states) = {}
  <2> SUFFICES ASSUME NEW v \in Pointed(states) PROVE FALSE
    OBVIOUS
  <2> QED
    BY <1>1, PointedMembers
<1> QED
  BY <1>1, <1>2 DEF IInv, Fits, CloneApart, TypeOK, HashIsCurrent, VisitedFound, Cached, Separate

\* While an executor works on its clone, nothing else changes.
OnlyClone ==
  clone' # Null =>
    \A s \in DOMAIN states \ {clone'} : s \in DOMAIN states' /\ Contents(s)' = Contents(s)

\* The clone stays apart where it is the one that changes, and points to what it did and
\* to new values.
LEMMA StaysApart ==
  ASSUME IInv, NEW s \in StateIds, clone' = s, s = clone \/ s \notin DOMAIN states,
         s # Null,
         \A x \in DOMAIN states' \ {s} : x \in DOMAIN states /\ states'[x].data = states[x].data,
         \A k \in DOMAIN states'[s].data :
           \/ states'[s].data[k] \notin DOMAIN values
           \/ /\ s \in DOMAIN states
              /\ \E j \in DOMAIN states[s].data : states'[s].data[k] = states[s].data[j]
  PROVE  CloneApart'
<1> SUFFICES ASSUME NEW x \in DOMAIN states' \ {s},
                    NEW i \in DOMAIN states'[x].data, NEW k \in DOMAIN states'[s].data
             PROVE  states'[x].data[i] # states'[s].data[k]
  BY DEF CloneApart
<1>1. x \in DOMAIN states /\ states'[x].data = states[x].data /\ states[x].data[i] \in DOMAIN values
  BY PointedMembers DEF IInv, Fits, TypeOK
<1>2. CASE states'[s].data[k] \notin DOMAIN values
  BY <1>1, <1>2
<1>3. ASSUME s \in DOMAIN states, NEW j \in DOMAIN states[s].data,
             states'[s].data[k] = states[s].data[j]
      PROVE  states'[x].data[i] # states'[s].data[k]
  BY <1>1, <1>3 DEF IInv, CloneApart
<1> QED
  BY <1>2, <1>3

\* A step of the executor on its clone leaves it apart.
LEMMA MineStaysApart ==
  ASSUME IInv, NEW s \in StateIds, clone # Null, Mine(s),
         \/ \E c \in Costs : SetCost(s, c)
         \/ \E k \in Keys : \/ Remove(s, k)
                            \/ \E j \in Keys : PutShared(s, k, j)
                            \/ \E n \in Numbers : Put(s, k, n) \/ Add(s, k, n)
         \/ \E D \in SUBSET Keys, n \in Numbers : AssignMap(s, D, n)
  PROVE  CloneApart'
<1>1. TypeOK /\ s = clone /\ s \in DOMAIN states /\ s # Null /\ states[s] \in State
  BY DEF IInv, Fits, Mine, TypeOK
<1>2. clone' = clone
  BY DEF SetCost, Remove, PutShared, Put, Add, AssignMap
<1>3. ASSUME NEW data, states' = Touched(s, data) \/ states' = [states EXCEPT ![s].data = data]
      PROVE  /\ states'[s].data = data
             /\ \A x \in DOMAIN states' \ {s} : x \in DOMAIN states /\ states'[x].data = states[x].data
  BY <1>1, <1>3 DEF Touched, State
<1> DEFINE Kept ==
      /\ \A x \in DOMAIN states' \ {s} : x \in DOMAIN states /\ states'[x].data = states[x].data
      /\ \A k \in DOMAIN states'[s].data :
           \/ states'[s].data[k] \notin DOMAIN values
           \/ \E j \in DOMAIN states[s].data : states'[s].data[k] = states[s].data[j]
<1>4. Kept
  <2>1. ASSUME NEW c \in Costs, SetCost(s, c) PROVE Kept
    <3>1. states' = [states EXCEPT ![s].cost = c, ![s].hash = Unset]
      BY <2>1 DEF SetCost
    <3> QED
      BY <1>1, <3>1 DEF State
  <2>2. ASSUME NEW k \in Keys, Remove(s, k) PROVE Kept
    <3>1. PICK data : data = Without(states[s].data, k) /\ states' = Touched(s, data)
      BY <2>2 DEF Remove
    <3>2. \A i \in DOMAIN data : i \in DOMAIN states[s].data /\ data[i] = states[s].data[i]
      BY <3>1 DEF Without
    <3>3. /\ states'[s].data = data
          /\ \A x \in DOMAIN states' \ {s} : x \in DOMAIN states /\ states'[x].data = states[x].data
      BY <1>3, <3>1
    <3> QED
      BY <3>2, <3>3
  <2>3. ASSUME NEW k \in Keys, NEW j \in Keys, PutShared(s, k, j) PROVE Kept
    <3>1. PICK data : data = With(states[s].data, k, states[s].data[j]) /\ states' = Touched(s, data)
      BY <2>3 DEF PutShared
    <3>2. \A i \in DOMAIN data : \E l \in DOMAIN states[s].data : data[i] = states[s].data[l]
      BY <2>3, <3>1 DEF PutShared, With
    <3>3. /\ states'[s].data = data
          /\ \A x \in DOMAIN states' \ {s} : x \in DOMAIN states /\ states'[x].data = states[x].data
      BY <1>3, <3>1
    <3> QED
      BY <3>2, <3>3
  <2>4. ASSUME NEW k \in Keys, NEW n \in Numbers, Put(s, k, n) PROVE Kept
    <3>1. PICK v \in Fresh : states' = Touched(s, With(states[s].data, k, v))
      BY <2>4 DEF Put
    <3>2. PICK data : data = With(states[s].data, k, v)
      OBVIOUS
    <3>3. \A i \in DOMAIN data : \/ data[i] \notin DOMAIN values
                                 \/ i \in DOMAIN states[s].data /\ data[i] = states[s].data[i]
      BY <3>2 DEF With, Fresh
    <3>4. /\ states'[s].data = data
          /\ \A x \in DOMAIN states' \ {s} : x \in DOMAIN states /\ states'[x].data = states[x].data
      BY <1>3, <3>1, <3>2
    <3> QED
      BY <3>3, <3>4
  <2>5. ASSUME NEW k \in Keys, NEW n \in Numbers, Add(s, k, n) PROVE Kept
    <3>1. states' = [states EXCEPT ![s].hash = Unset]
      BY <2>5 DEF Add
    <3> QED
      BY <1>1, <3>1 DEF State
  <2>6. ASSUME NEW D \in SUBSET Keys, NEW n \in Numbers, AssignMap(s, D, n) PROVE Kept
    <3>1. PICK new \in [D -> Fresh] :
            states' = IF D = {} THEN [states EXCEPT ![s].data = new] ELSE Touched(s, new)
      BY <2>6 DEF AssignMap
    <3> QED
      BY <1>3, <3>1 DEF Fresh
  <2> QED
    BY <2>1, <2>2, <2>3, <2>4, <2>5, <2>6
<1> QED
  BY <1>1, <1>2, <1>4, StaysApart

\* Every step keeps the invariant, and every state but the clone.
LEMMA NextIInv == ASSUME IInv, [Next]_vars PROVE IInv' /\ OnlyClone
<1>0. Fits
  BY DEF IInv
<1>1. ASSUME NEW s \in StateIds, Mine(s), Fits', clone # Null => OthersKept(s), clone' = clone,
             clone # Null => CloneApart'
      PROVE  IInv' /\ OnlyClone
  <2>1. clone # Null => s = clone
    BY <1>1 DEF Mine
  <2>2. clone = Null => CloneApart'
    BY <1>1 DEF CloneApart
  <2> QED
    BY <1>1, <2>1, <2>2 DEF IInv, OnlyClone, OthersKept
<1>2. ASSUME NEW s \in StateIds,
             \/ Drop(s)
             \/ \E r \in StateIds : Assign(s, r) \/ Merge(s, r)
      PROVE  IInv' /\ OnlyClone
  <2>1. Mine(s) /\ clone' = clone /\ clone = Null
    BY <1>2 DEF Drop, Assign, Merge
  <2>2. Fits'
    BY <1>0, <1>2, DropFits, AssignFits
  <2> QED
    BY <1>1, <2>1, <2>2
<1>7. ASSUME NEW s \in StateIds,
             \/ \E c \in Costs : SetCost(s, c)
             \/ \E k \in Keys : \/ Remove(s, k)
                                \/ \E j \in Keys : PutShared(s, k, j)
                                \/ \E n \in Numbers : Put(s, k, n) \/ Add(s, k, n)
             \/ \E D \in SUBSET Keys, n \in Numbers : AssignMap(s, D, n)
      PROVE  IInv' /\ OnlyClone
  <2>1. Mine(s) /\ clone' = clone
    BY <1>7 DEF SetCost, Remove, PutShared, Put, Add, AssignMap
  <2>2. Fits'
    BY <1>0, <1>7, SetCostFits, RemoveFits, PutSharedFits, PutFits, AddFits, AssignMapFits
  <2>3. clone # Null => OthersKept(s)
    BY <1>0, <1>7, SetCostFits, RemoveFits, PutSharedFits, PutFits, AddKeepsOthers, AssignMapFits
  <2>4. clone # Null => CloneApart'
    BY <1>7, <2>1, MineStaysApart
  <2> QED
    BY <1>1, <2>1, <2>2, <2>3, <2>4
<1>3. ASSUME NEW s \in StateIds, Create(s)
      PROVE  IInv' /\ OnlyClone
  <2>1. clone' = Null
    BY <1>3 DEF Create
  <2> QED
    BY <1>0, <1>3, <2>1, CreateFits DEF IInv, CloneApart, OnlyClone
<1>4. ASSUME NEW s \in StateIds, Find(s) \/ Visit(s)
      PROVE  IInv' /\ OnlyClone
  <2>1. s \in DOMAIN states /\ Hashed(s) /\ clone' = Null /\ UNCHANGED <<shared, clone>>
    BY <1>4 DEF Find, Visit
  <2>2. \/ visited' = visited
        \/ s \notin DOMAIN visited /\ visited' = With(visited, s, HashResult(s))
    BY <1>4 DEF Find, Visit
  <2> QED
    BY <1>0, <2>1, <2>2, HashedFits DEF IInv, CloneApart, OnlyClone
<1>5. ASSUME NEW s \in StateIds, NEW r \in StateIds, Execute(s, r)
      PROVE  IInv' /\ OnlyClone
  <2>1. clone' = r /\ r # Null /\ r \notin DOMAIN states /\ s \in DOMAIN states
    BY <1>5, NullAssumption DEF Execute
  <2>2. PICK copy \in [DOMAIN states[s].data -> Fresh] :
          states' = With(states, r, [data |-> copy, cost |-> 1, hash |-> Unset])
    BY <1>5 DEF Execute
  <2>3. /\ \A x \in DOMAIN states' \ {r} : x \in DOMAIN states /\ states'[x].data = states[x].data
        /\ \A k \in DOMAIN states'[r].data : states'[r].data[k] \notin DOMAIN values
    BY <2>1, <2>2 DEF With, Fresh
  <2>4. CloneApart'
    BY <2>1, <2>3, StaysApart
  <2> QED
    BY <1>0, <1>5, <2>1, <2>4, ExecuteFits DEF IInv, OnlyClone, OthersKept
<1>6. CASE Return \/ Executed \/ UNCHANGED vars
  <2>1. UNCHANGED <<states, values, shared>>
    BY <1>6 DEF Return, Executed, vars
  <2>2. (visited' = visited \/ DOMAIN visited' = {}) /\ (clone' = clone \/ clone' = Null)
    BY <1>6 DEF Return, Executed, vars
  <2>3. /\ Pointed(states') = Pointed(states) /\ \A x : Contents(x)' = Contents(x)
        /\ \A x : Reflects(states[x].hash, x)' = Reflects(states[x].hash, x)
    BY <2>1 DEF Contents, Reflects
  <2>4. TypeOK'
    BY <1>0, <2>1, <2>2, <2>3 DEF Fits, TypeOK
  <2>5. HashIsCurrent'
    BY <1>0, <2>1, <2>3 DEF Fits, HashIsCurrent
  <2>8. VisitedFound'
    BY <1>0, <2>1, <2>2 DEF Fits, VisitedFound, Reflects
  <2>6. Cached' /\ Separate'
    BY <1>0, <2>1 DEF Fits, Cached, Separate
  <2>7. OnlyClone /\ CloneApart'
    BY <2>1, <2>2, <2>3 DEF OnlyClone, IInv, CloneApart
  <2> QED
    BY <2>4, <2>5, <2>6, <2>7, <2>8 DEF IInv, Fits
<1> QED
  BY <1>2, <1>3, <1>4, <1>5, <1>6, <1>7 DEF Next

\* Whatever clients and executors do, caches, files and pointers fit together.
THEOREM Invariance == Spec => []IInv
<1>1. IInv /\ [Next]_vars => IInv'
  BY NextIInv
<1> QED
  BY <1>1, InitIInv, PTL DEF Spec

\* The variables have their types, and no state points to a deleted value.
THEOREM TypeCorrect == Spec => []TypeOK
<1>1. IInv => TypeOK
  BY DEF IInv, Fits
<1> QED
  BY <1>1, Invariance, PTL

\* A cached hash is stale at most where a client shares a value and where a state was
\* emptied.
THEOREM HashesAreCurrent == Spec => []HashIsCurrent
<1>1. IInv => HashIsCurrent
  BY DEF IInv, Fits
<1> QED
  BY <1>1, Invariance, PTL

\* To the same extent, a state stays under the hash it is filed with in visitedStates.
THEOREM VisitedStay == Spec => []VisitedFound
<1>1. IInv => VisitedFound
  BY DEF IInv, Fits
<1> QED
  BY <1>1, Invariance, PTL

\* An executor changes nothing but its clone.
THEOREM OthersAreKept == Spec => ExecuteKeepsOthers
<1>1. IInv /\ [Next]_vars => [OnlyClone]_vars
  BY NextIInv
<1> QED
  BY <1>1, Invariance, PTL DEF Spec, ExecuteKeepsOthers, OnlyClone
-----------------------------------------------------------------------------
(***************************************************************************)
(* Induction and recursion, in a form without an operator parameter.       *)
(***************************************************************************)
\* Every non-empty set of natural numbers has a least element.
LEMMA LeastNatural ==
  ASSUME NEW T \in SUBSET Nat, T # {}
  PROVE  \E n \in T : \A m \in T : n <= m
<1>1. \E n \in T : \A m \in T : ~ (<<m, n>> \in OpToRel(<, Nat))
  BY NatLessThanWellFounded, WFMin
<1>2. PICK n \in T : \A m \in T : ~ (<<m, n>> \in OpToRel(<, Nat))
  BY <1>1
<1>3. ASSUME NEW m \in T PROVE n <= m
  <2>1. <<m, n>> \notin OpToRel(<, Nat)
    BY <1>2
  <2>2. ~ (m < n)
    BY <2>1 DEF OpToRel
  <2> QED
    BY <2>2
<1> QED
  BY <1>3

\* A set that contains 0 and, below N, the successor of each of its members contains
\* every number up to N.
LEMMA UpTo ==
  ASSUME NEW N \in Nat, NEW S, 0 \in S, \A n \in 0 .. N - 1 : n \in S => n + 1 \in S
  PROVE  \A n \in 0 .. N : n \in S
<1> DEFINE Bad == {n \in 0 .. N : n \notin S}
<1> SUFFICES ASSUME Bad # {} PROVE FALSE
  OBVIOUS
<1>1. PICK n \in Bad : \A m \in Bad : n <= m
  <2>1. Bad \in SUBSET Nat
    OBVIOUS
  <2> QED
    BY <2>1, LeastNatural
<1>2. n \in 0 .. N /\ n \notin S /\ n # 0
  OBVIOUS
<1>3. n - 1 \in 0 .. N - 1 /\ n - 1 \notin Bad /\ (n - 1) + 1 = n
  BY <1>1, <1>2
<1>4. n - 1 \in S
  BY <1>3
<1> QED
  BY <1>2, <1>3, <1>4

\* A function given by its first value and the step from one value to the next.
Recursion(f, N, base, step) ==
  f[0] = base /\ \A n \in 1 .. N : f[n] = step[n][f[n - 1]]

\* Such a function exists.
LEMMA RecursionExists ==
  ASSUME NEW N \in Nat, NEW S, NEW base \in S, NEW step \in [1 .. N -> [S -> S]]
  PROVE  \E f \in [0 .. N -> S] : Recursion(f, N, base, step)
<1> DEFINE Good == {n \in Nat : \E f \in [0 .. n -> S] : Recursion(f, n, base, step)}
<1>1. 0 \in Good
  <2>1. [i \in 0 .. 0 |-> base] \in [0 .. 0 -> S]
    OBVIOUS
  <2>2. Recursion([i \in 0 .. 0 |-> base], 0, base, step)
    BY DEF Recursion
  <2> QED
    BY <2>1, <2>2
<1>2. ASSUME NEW n \in 0 .. N - 1, n \in Good PROVE n + 1 \in Good
  <2>1. PICK f \in [0 .. n -> S] : Recursion(f, n, base, step)
    BY <1>2
  <2>g. PICK g : g = [i \in 0 .. n + 1 |-> IF i = n + 1 THEN step[n + 1][f[n]] ELSE f[i]]
    OBVIOUS
  <2>2. n \in Nat /\ n + 1 \in 1 .. N /\ n + 1 \in Nat
    OBVIOUS
  <2>3. step[n + 1][f[n]] \in S
    BY <2>2
  <2>4. g \in [0 .. n + 1 -> S]
    BY <2>g, <2>2, <2>3
  <2>5. \A i \in 0 .. n : g[i] = f[i]
    BY <2>g, <2>2
  <2>6. g[n + 1] = step[n + 1][f[n]]
    BY <2>g, <2>2
  <2>7. ASSUME NEW i \in 1 .. n + 1 PROVE g[i] = step[i][g[i - 1]]
    <3>1. CASE i = n + 1
      BY <2>2, <2>5, <2>6, <3>1
    <3>2. CASE i # n + 1
      <4>1. i \in 1 .. n /\ i \in 0 .. n /\ i - 1 \in 0 .. n
        BY <2>2, <3>2
      <4> QED
        BY <2>1, <2>5, <4>1 DEF Recursion
    <3> QED
      BY <3>1, <3>2
  <2>8. g[0] = base
    BY <2>1, <2>2, <2>5 DEF Recursion
  <2>9. Recursion(g, n + 1, base, step)
    BY <2>7, <2>8 DEF Recursion
  <2> QED
    BY <2>2, <2>4, <2>9
<1> HIDE DEF Good
<1>3. N \in Good
  <2>1. \A n \in 0 .. N : n \in Good
    BY <1>1, <1>2, UpTo
  <2> QED
    BY <2>1
<1> QED
  BY <1>3 DEF Good

\* A family of subsets of a finite set that contains every one whose parts with one
\* member less it contains is the family of all.
LEMMA SubsetInduction ==
  ASSUME NEW K, IsFiniteSet(K), NEW Good, {} \in Good,
         \A u \in SUBSET K : u # {} /\ (\A x \in u : u \ {x} \in Good) => u \in Good
  PROVE  \A u \in SUBSET K : u \in Good
<1>0. Cardinality(K) \in Nat
  BY FS_CardinalityType
<1> DEFINE S == {n \in Nat : \A u \in SUBSET K : Cardinality(u) <= n => u \in Good}
<1>1. \A u \in SUBSET K : IsFiniteSet(u) /\ Cardinality(u) \in 0 .. Cardinality(K)
  BY <1>0, FS_Subset, FS_CardinalityType
<1>2. 0 \in S
  <2>1. ASSUME NEW u \in SUBSET K, Cardinality(u) <= 0 PROVE u = {}
    BY <1>1, <2>1, FS_EmptySet
  <2> QED
    BY <2>1
<1>3. ASSUME NEW n \in 0 .. Cardinality(K) - 1, n \in S PROVE n + 1 \in S
  <2>1. ASSUME NEW u \in SUBSET K, Cardinality(u) <= n + 1, u # {} PROVE u \in Good
    <3>1. ASSUME NEW x \in u PROVE u \ {x} \in Good
      <4>1. Cardinality(u \ {x}) = Cardinality(u) - 1 /\ u \ {x} \in SUBSET K
        BY <1>1, FS_RemoveElement
      <4>2. Cardinality(u \ {x}) <= n
        BY <1>0, <1>1, <2>1, <4>1
      <4> QED
        BY <1>3, <4>1, <4>2
    <3> QED
      BY <2>1, <3>1
  <2>2. \A u \in SUBSET K : Cardinality(u) <= n + 1 => u \in Good
    BY <2>1
  <2> QED
    BY <1>0, <2>2
<1>4. Cardinality(K) \in S
  <2> HIDE DEF S
  <2> QED
    BY <1>0, <1>2, <1>3, UpTo
<1> QED
  BY <1>1, <1>4

\* A function over the subsets of K, given by its value for none and the step from a
\* set without its chosen member to the set.
Folding(h, K, base, step) ==
  \A u \in SUBSET K :
    h[u] = IF u = {} THEN base
           ELSE LET x == CHOOSE y \in u : TRUE IN step[x][h[u \ {x}]]

\* Such a function exists.
LEMMA FoldingExists ==
  ASSUME NEW K, IsFiniteSet(K), NEW S, NEW base \in S, NEW step \in [K -> [S -> S]]
  PROVE  \E h \in [SUBSET K -> S] : Folding(h, K, base, step)
<1>0. Cardinality(K) \in Nat
  BY FS_CardinalityType
<1> DEFINE Small(n) == {u \in SUBSET K : Cardinality(u) <= n}
           Folded(h, u) == IF u = {} THEN base
                          ELSE LET x == CHOOSE y \in u : TRUE IN step[x][h[u \ {x}]]
           Good == {n \in Nat : \E h \in [Small(n) -> S] :
                                  \A u \in Small(n) : h[u] = Folded(h, u)}
<1>1. \A u \in SUBSET K : IsFiniteSet(u) /\ Cardinality(u) \in 0 .. Cardinality(K)
  BY <1>0, FS_Subset, FS_CardinalityType
<1>2. 0 \in Good
  <2>1. \A u \in Small(0) : u = {}
    BY <1>1, FS_EmptySet
  <2>2. [u \in Small(0) |-> base] \in [Small(0) -> S]
    OBVIOUS
  <2>3. \A u \in Small(0) : [w \in Small(0) |-> base][u] = Folded([w \in Small(0) |-> base], u)
    BY <2>1
  <2> QED
    BY <2>2, <2>3
<1>3. ASSUME NEW n \in 0 .. Cardinality(K) - 1, n \in Good PROVE n + 1 \in Good
  <2>1. PICK h \in [Small(n) -> S] : \A u \in Small(n) : h[u] = Folded(h, u)
    BY <1>3
  <2>2. ASSUME NEW u \in Small(n + 1), u # {}
        PROVE  (CHOOSE x \in u : TRUE) \in u /\ (u \ {CHOOSE x \in u : TRUE}) \in Small(n)
    <3>x. PICK x : x = CHOOSE y \in u : TRUE
      OBVIOUS
    <3>1. x \in u
      BY <2>2, <3>x
    <3>2. Cardinality(u \ {x}) = Cardinality(u) - 1
      BY <1>1, <3>1, FS_RemoveElement
    <3> QED
      BY <1>0, <1>1, <3>x, <3>1, <3>2
  <2>g. PICK g : g = [u \in Small(n + 1) |-> Folded(h, u)]
    OBVIOUS
  <2>3. ASSUME NEW u \in Small(n + 1) PROVE Folded(h, u) \in S
    <3>1. CASE u = {}
      BY <3>1
    <3>2. CASE u # {}
      <4>1. (CHOOSE x \in u : TRUE) \in K /\ h[u \ {CHOOSE x \in u : TRUE}] \in S
        BY <2>2, <3>2
      <4> QED
        BY <3>2, <4>1
    <3> QED
      BY <3>1, <3>2
  <2>4. g \in [Small(n + 1) -> S]
    BY <2>g, <2>3
  <2>5. Small(n) \subseteq Small(n + 1)
    BY <1>0, <1>1
  <2>6. \A u \in Small(n) : g[u] = h[u]
    BY <2>1, <2>5, <2>g
  <2>7. ASSUME NEW u \in Small(n + 1) PROVE g[u] = Folded(g, u)
    <3>1. CASE u = {}
      BY <2>g, <3>1
    <3>2. CASE u # {}
      <4>1. g[u \ {CHOOSE x \in u : TRUE}] = h[u \ {CHOOSE x \in u : TRUE}]
        BY <2>2, <2>6, <3>2
      <4> QED
        BY <2>g, <3>2, <4>1
    <3> QED
      BY <3>1, <3>2
  <2>8. n + 1 \in Nat
    BY <1>0
  <2>9. \E f \in [Small(n + 1) -> S] : \A u \in Small(n + 1) : f[u] = Folded(f, u)
    <3> HIDE DEF Small, Folded
    <3> QED
      BY <2>4, <2>7
  <2> QED
    BY <2>8, <2>9
<1>4. Cardinality(K) \in Good
  <2> HIDE DEF Good
  <2> QED
    BY <1>0, <1>2, <1>3, UpTo
<1>5. Small(Cardinality(K)) = SUBSET K
  BY <1>0, <1>1
<1> QED
  BY <1>4, <1>5 DEF Folding

Commuting(step, K, S) ==
  \A x, y \in K : \A z \in S : step[x][step[y][z]] = step[y][step[x][z]]

AnyLast(h, K, step) == \A u \in SUBSET K : \A x \in u : h[u] = step[x][h[u \ {x}]]

\* If the order of two steps does not matter, any member may be the last one.
LEMMA FoldingAny ==
  ASSUME NEW K, IsFiniteSet(K), NEW S, NEW base \in S, NEW step \in [K -> [S -> S]],
         NEW h \in [SUBSET K -> S], Folding(h, K, base, step),
         Commuting(step, K, S)
  PROVE  AnyLast(h, K, step)
<1> DEFINE Good == {u \in SUBSET K : \A x \in u : h[u] = step[x][h[u \ {x}]]}
<1>1. {} \in Good
  OBVIOUS
<1>2. ASSUME NEW u \in SUBSET K, u # {}, \A x \in u : u \ {x} \in Good PROVE u \in Good
  <2>y. PICK y : y = CHOOSE x \in u : TRUE
    OBVIOUS
  <2>1. y \in u /\ h[u] = step[y][h[u \ {y}]]
    BY <1>2, <2>y DEF Folding
  <2>2. ASSUME NEW x \in u PROVE h[u] = step[x][h[u \ {x}]]
    <3>1. CASE x = y
      BY <2>1, <3>1
    <3>2. CASE x # y
      <4>1. h[u \ {y}] = step[x][h[(u \ {y}) \ {x}]]
        BY <1>2, <2>1, <3>2
      <4>2. h[u \ {x}] = step[y][h[(u \ {x}) \ {y}]]
        BY <1>2, <2>1, <3>2
      <4>3. (u \ {y}) \ {x} = (u \ {x}) \ {y} /\ (u \ {y}) \ {x} \in SUBSET K
        OBVIOUS
      <4>z. PICK z : z = h[(u \ {y}) \ {x}]
        OBVIOUS
      <4>4. z \in S /\ x \in K /\ y \in K
        BY <2>1, <4>3, <4>z
      <4>5. step[x][step[y][z]] = step[y][step[x][z]]
        BY <4>4 DEF Commuting
      <4>6. h[u] = step[y][step[x][z]]
        BY <2>1, <4>1, <4>z
      <4>7. h[u \ {x}] = step[y][z]
        BY <4>2, <4>3, <4>z
      <4> QED
        BY <4>5, <4>6, <4>7
    <3> QED
      BY <3>1, <3>2
  <2> QED
    BY <2>2
<1> HIDE DEF Good
<1>3. \A u \in SUBSET K : u \in Good
  BY <1>1, <1>2, SubsetInduction
<1> QED
  BY <1>3 DEF Good, AnyLast

-----------------------------------------------------------------------------
(***************************************************************************)
(* Numbers.                                                                *)
(***************************************************************************)
\* The greater and the smaller one of two numbers, and the smallest of three.
LEMMA GreaterIs ==
  ASSUME NEW x \in Int, NEW y \in Int
  PROVE  Greater(x, y) = (IF x < y THEN y ELSE x)
<1> DEFINE m == IF x < y THEN y ELSE x
<1>1. m \in {x, y} /\ \A z \in {x, y} : m >= z
  OBVIOUS
<1>2. \A k \in {x, y} : (\A z \in {x, y} : k >= z) => k = m
  OBVIOUS
<1> HIDE DEF m
<1>3. Max({x, y}) = m
  BY <1>1, <1>2 DEF Max
<1> QED
  BY <1>3 DEF Greater, m

\* The smaller one of two numbers.
LEMMA SmallerIs ==
  ASSUME NEW x \in Int, NEW y \in Int
  PROVE  Min({x, y}) = (IF x < y THEN x ELSE y)
<1> DEFINE m == IF x < y THEN x ELSE y
<1>1. m \in {x, y} /\ \A z \in {x, y} : m =< z
  OBVIOUS
<1>2. \A k \in {x, y} : (\A z \in {x, y} : k =< z) => k = m
  OBVIOUS
<1> HIDE DEF m
<1>3. Min({x, y}) = m
  BY <1>1, <1>2 DEF Min
<1> QED
  BY <1>3 DEF m

\* The smallest one of three numbers.
LEMMA SmallestIs ==
  ASSUME NEW x \in Int, NEW y \in Int, NEW z \in Int
  PROVE  /\ Min({x, y, z}) \in {x, y, z}
         /\ Min({x, y, z}) <= x /\ Min({x, y, z}) <= y /\ Min({x, y, z}) <= z
<1> DEFINE T == {x, y, z}
<1>1. \E k \in T : \A n \in T : k =< n
  <2>1. CASE x <= y /\ x <= z
    BY <2>1
  <2>2. CASE y <= x /\ y <= z
    BY <2>2
  <2>3. CASE z <= x /\ z <= y
    BY <2>3
  <2> QED
    BY <2>1, <2>2, <2>3
<1>2. Min(T) \in T /\ \A n \in T : Min(T) =< n
  <2> HIDE DEF T
  <2> QED
    BY <1>1 DEF Min
<1> QED
  BY <1>2

\* The square of a difference is not negative.
LEMMA Squares ==
  ASSUME NEW x \in Int, NEW y \in Int
  PROVE  /\ x * x \in Nat /\ y * y \in Nat /\ x * y \in Int
         /\ 2 * (x * y) <= x * x + y * y
         /\ -(2 * (x * y)) <= x * x + y * y
         /\ 2 * (x * y) = x * x + y * y => x = y
         /\ x * x = 0 => x = 0
<1>1. \A d \in Int : d * d >= 0 /\ (d * d = 0 => d = 0)
  OBVIOUS
<1>2. (x - y) * (x - y) = x * x + y * y - 2 * (x * y)
  OBVIOUS
<1>5. (x + y) * (x + y) = x * x + y * y + 2 * (x * y)
  OBVIOUS
<1>3. x * x \in Nat /\ y * y \in Nat /\ x * y \in Int
  <2>1. x * x >= 0 /\ y * y >= 0 /\ x * x \in Int /\ y * y \in Int /\ x * y \in Int
    BY <1>1
  <2> QED
    BY <2>1
<1>d. PICK d : d = x - y
  OBVIOUS
<1>e. PICK e : e = x + y
  OBVIOUS
<1>4. d \in Int /\ d * d >= 0 /\ (d * d = 0 => d = 0) /\ d * d = x * x + y * y - 2 * (x * y)
  BY <1>1, <1>2, <1>d
<1>6. e \in Int /\ e * e >= 0 /\ e * e = x * x + y * y + 2 * (x * y)
  BY <1>1, <1>5, <1>e
<1>p. PICK p : p = x * y
  OBVIOUS
<1>q. PICK q : q = x * x + y * y
  OBVIOUS
<1>7. p \in Int /\ q \in Int /\ q - 2 * p >= 0 /\ q + 2 * p >= 0 /\ (q - 2 * p = 0 => d = 0)
  BY <1>3, <1>4, <1>6, <1>p, <1>q
<1>8. 2 * p <= q /\ -(2 * p) <= q /\ (2 * p = q => d = 0)
  BY <1>7
<1>9. d = 0 => x = y
  BY <1>d
<1> QED
  BY <1>1, <1>3, <1>8, <1>9, <1>p, <1>q
-----------------------------------------------------------------------------
(***************************************************************************)
(* The inner product.                                                      *)
(***************************************************************************)
\* The sums of the products over the subsets of K.
Products(h, v, w, K) ==
  /\ h \in [SUBSET K -> Int]
  /\ h[{}] = 0
  /\ \A u \in SUBSET K : u # {} =>
       h[u] = v[CHOOSE x \in u : TRUE] * w[CHOOSE x \in u : TRUE]
                + h[u \ {CHOOSE x \in u : TRUE}]

\* Dot is such a sum: its fold exists.
LEMMA DotIsSum ==
  ASSUME NEW K, IsFiniteSet(K), NEW v, NEW w, \A i \in K : v[i] \in Int /\ w[i] \in Int
  PROVE  \E h : Products(h, v, w, K) /\ Dot(v, w, K) = h[K]
<1> DEFINE Eq(h) == h = [u \in SUBSET K |->
                           IF u = {} THEN 0
                           ELSE v[CHOOSE x \in u : TRUE] * w[CHOOSE x \in u : TRUE]
                                  + h[u \ {CHOOSE x \in u : TRUE}]]
<1>step. PICK step : step = [i \in K |-> [z \in Int |-> v[i] * w[i] + z]]
  OBVIOUS
<1>1. step \in [K -> [Int -> Int]]
  BY <1>step
<1>0. 0 \in Int /\ IsFiniteSet(K)
  OBVIOUS
<1>2. PICK h \in [SUBSET K -> Int] : Folding(h, K, 0, step)
  BY ONLY <1>0, <1>1, FoldingExists
<1>3. ASSUME NEW u \in SUBSET K, u # {}
      PROVE  h[u] = v[CHOOSE x \in u : TRUE] * w[CHOOSE x \in u : TRUE]
                      + h[u \ {CHOOSE x \in u : TRUE}]
  <2>x. PICK x : x = CHOOSE y \in u : TRUE
    OBVIOUS
  <2>1. x \in K /\ u \ {x} \in SUBSET K
    BY <1>3, <2>x
  <2>2. h[u] = step[x][h[u \ {x}]]
    BY <1>2, <1>3, <2>x DEF Folding
  <2>3. h[u \ {x}] \in Int
    BY <2>1
  <2>4. step[x][h[u \ {x}]] = v[x] * w[x] + h[u \ {x}]
    BY <1>step, <2>1, <2>3
  <2> QED
    BY <2>2, <2>4, <2>x
<1>4. h[{}] = 0
  BY <1>2 DEF Folding
<1>5. Eq(h)
  <2>1. h = [u \in SUBSET K |-> h[u]]
    OBVIOUS
  <2> QED
    BY <1>3, <1>4, <2>1
<1>6. Dot(v, w, K) = (CHOOSE f : Eq(f))[K]
  BY DEF Dot, MapThenSumSet, MapThenFoldSet
<1>f. PICK f : f = CHOOSE g : Eq(g)
  OBVIOUS
<1>7. Eq(f)
  <2> HIDE DEF Eq
  <2> QED
    BY <1>5, <1>f
<1>8. /\ f[{}] = 0
      /\ \A u \in SUBSET K : u # {} =>
           f[u] = v[CHOOSE x \in u : TRUE] * w[CHOOSE x \in u : TRUE]
                    + f[u \ {CHOOSE x \in u : TRUE}]
  BY <1>7
<1> DEFINE Good == {u \in SUBSET K : f[u] = h[u]}
<1>9. {} \in Good
  BY <1>4, <1>8
<1>10. ASSUME NEW u \in SUBSET K, u # {}, \A x \in u : u \ {x} \in Good PROVE u \in Good
  <2>x. PICK x : x = CHOOSE y \in u : TRUE
    OBVIOUS
  <2>1. x \in u
    BY <1>10, <2>x
  <2>2. f[u \ {x}] = h[u \ {x}]
    BY <1>10, <2>1
  <2>3. f[u] = v[x] * w[x] + f[u \ {x}] /\ h[u] = v[x] * w[x] + h[u \ {x}]
    BY <1>3, <1>8, <1>10, <2>x
  <2> QED
    BY <2>2, <2>3
<1>11. \A u \in SUBSET K : u \in Good
  <2> HIDE DEF Good
  <2> QED
    BY <1>9, <1>10, SubsetInduction
<1>12. f[K] = h[K]
  BY <1>11
<1>13. Products(h, v, w, K)
  BY <1>3, <1>4 DEF Products
<1> QED
  BY <1>6, <1>12, <1>13, <1>f

\* Twice the inner product is at most the sum of the squares, of either sign, and as
\* much only for equal vectors; it is negative only if numbers of opposite signs meet.
LEMMA DotBound ==
  ASSUME NEW K, IsFiniteSet(K), NEW a, NEW b, \A i \in K : a[i] \in Int /\ b[i] \in Int
  PROVE  /\ Dot(a, b, K) \in Int /\ Dot(a, a, K) \in Nat /\ Dot(b, b, K) \in Nat
         /\ 2 * Dot(a, b, K) <= Dot(a, a, K) + Dot(b, b, K)
         /\ -(2 * Dot(a, b, K)) <= Dot(a, a, K) + Dot(b, b, K)
         /\ (\A i \in K : a[i] * b[i] >= 0) => Dot(a, b, K) >= 0
         /\ 2 * Dot(a, b, K) = Dot(a, a, K) + Dot(b, b, K) => \A i \in K : a[i] = b[i]
         /\ (\A i \in K : a[i] = b[i]) =>
              Dot(a, b, K) = Dot(a, a, K) /\ Dot(b, b, K) = Dot(a, a, K)
         /\ Dot(b, b, K) = 0 => \A i \in K : b[i] = 0
<1>ab. PICK ab : Products(ab, a, b, K) /\ Dot(a, b, K) = ab[K]
  BY DotIsSum
<1>aa. PICK aa : Products(aa, a, a, K) /\ Dot(a, a, K) = aa[K]
  BY DotIsSum
<1>bb. PICK bb : Products(bb, b, b, K) /\ Dot(b, b, K) = bb[K]
  BY DotIsSum
<1> DEFINE Holds(u) == /\ aa[u] \in Nat /\ bb[u] \in Nat
                       /\ 2 * ab[u] <= aa[u] + bb[u]
                       /\ -(2 * ab[u]) <= aa[u] + bb[u]
                       /\ (\A i \in u : a[i] * b[i] >= 0) => ab[u] >= 0
                       /\ 2 * ab[u] = aa[u] + bb[u] => \A i \in u : a[i] = b[i]
                       /\ (\A i \in u : a[i] = b[i]) => ab[u] = aa[u] /\ bb[u] = aa[u]
                       /\ bb[u] = 0 => \A i \in u : b[i] = 0
           Good == {u \in SUBSET K : Holds(u)}
<1>1. /\ ab \in [SUBSET K -> Int] /\ aa \in [SUBSET K -> Int] /\ bb \in [SUBSET K -> Int]
      /\ ab[{}] = 0 /\ aa[{}] = 0 /\ bb[{}] = 0
  BY <1>ab, <1>aa, <1>bb DEF Products
<1>2. {} \in Good
  BY <1>1
<1>3. ASSUME NEW u \in SUBSET K, u # {}, \A x \in u : u \ {x} \in Good PROVE u \in Good
  <2>x. PICK x : x = CHOOSE y \in u : TRUE
    OBVIOUS
  <2>1. x \in u /\ x \in K /\ u \ {x} \in SUBSET K
    BY <1>3, <2>x
  <2>r. PICK r : r = u \ {x}
    OBVIOUS
  <2>2. /\ ab[u] = a[x] * b[x] + ab[r]
        /\ aa[u] = a[x] * a[x] + aa[r]
        /\ bb[u] = b[x] * b[x] + bb[r]
    BY <1>ab, <1>aa, <1>bb, <1>3, <2>x, <2>r DEF Products
  <2>3. Holds(r)
    BY <1>3, <2>1, <2>r
  <2>4. /\ ab[r] \in Int /\ aa[r] \in Nat /\ bb[r] \in Nat
        /\ a[x] \in Int /\ b[x] \in Int
    BY <1>1, <2>1, <2>3, <2>r
  <2>p. PICK p : p = a[x] * b[x]
    OBVIOUS
  <2>s. PICK s : s = a[x] * a[x]
    OBVIOUS
  <2>t. PICK t : t = b[x] * b[x]
    OBVIOUS
  <2>5. /\ p \in Int /\ s \in Nat /\ t \in Nat
        /\ 2 * p <= s + t /\ -(2 * p) <= s + t
        /\ 2 * p = s + t => a[x] = b[x]
        /\ a[x] = b[x] => p = s /\ t = s
        /\ t = 0 => b[x] = 0
    BY <2>4, <2>p, <2>s, <2>t, Squares
  <2>6. /\ ab[u] = p + ab[r] /\ aa[u] = s + aa[r] /\ bb[u] = t + bb[r]
    BY <2>2, <2>p, <2>s, <2>t
  <2>7. \A i \in u : i = x \/ i \in r
    BY <2>r
  <2>8. 2 * ab[u] <= aa[u] + bb[u]
    BY <2>3, <2>4, <2>5, <2>6
  <2>9. 2 * ab[u] = aa[u] + bb[u] => \A i \in u : a[i] = b[i]
    <3>1. 2 * ab[u] = aa[u] + bb[u] => 2 * p = s + t /\ 2 * ab[r] = aa[r] + bb[r]
      BY <2>3, <2>4, <2>5, <2>6
    <3> QED
      BY <2>3, <2>5, <2>7, <3>1
  <2>10. (\A i \in u : a[i] = b[i]) => ab[u] = aa[u] /\ bb[u] = aa[u]
    BY <2>1, <2>3, <2>5, <2>6, <2>r
  <2>11. bb[u] = 0 => \A i \in u : b[i] = 0
    <3>1. bb[u] = 0 => t = 0 /\ bb[r] = 0
      BY <2>4, <2>5, <2>6
    <3> QED
      BY <2>3, <2>5, <2>7, <3>1
  <2>12. aa[u] \in Nat /\ bb[u] \in Nat /\ -(2 * ab[u]) <= aa[u] + bb[u]
    BY <2>3, <2>4, <2>5, <2>6
  <2>13. (\A i \in u : a[i] * b[i] >= 0) => ab[u] >= 0
    <3>1. (\A i \in u : a[i] * b[i] >= 0) => p >= 0 /\ ab[r] >= 0
      BY <2>1, <2>3, <2>p, <2>r
    <3> QED
      BY <2>4, <2>5, <2>6, <3>1
  <2> QED
    BY <2>8, <2>9, <2>10, <2>11, <2>12, <2>13
<1>4. K \in Good
  <2> HIDE DEF Good
  <2>1. \A u \in SUBSET K : u \in Good
    BY <1>2, <1>3, SubsetInduction
  <2> QED
    BY <2>1
<1> QED
  BY <1>1, <1>4, <1>ab, <1>aa, <1>bb

-----------------------------------------------------------------------------
(***************************************************************************)
(* The numeric distance of two values.                                     *)
(***************************************************************************)
Frac == [num : Nat, den : Nat]

\* A fraction between zero and one, or NaN; and one between zero and two.
InUnit(f)  == f \in Frac /\ f.num <= f.den
Bounded(f) == f \in Frac /\ f.num <= 2 * f.den

\* The numerator and the denominator of a fraction.
LEMMA FractionFields ==
  ASSUME NEW n, NEW d
  PROVE  Fraction(n, d) = [num |-> n, den |-> d]
         /\ Fraction(n, d).num = n /\ Fraction(n, d).den = d
BY DEF Fraction

\* Numbers are at a distance between zero and two, which is zero for equal ones only
\* and above one for opposite signs only.
LEMMA ScalarBounds ==
  ASSUME NEW x \in Int, NEW y \in Int
  PROVE  /\ Bounded(ScalarDistance(x, y)) /\ ScalarDistance(x, y).den > 0
         /\ ScalarDistance(x, y).num = 0 <=> x = y
         /\ x * y >= 0 => ScalarDistance(x, y).num <= ScalarDistance(x, y).den
<1>a. PICK a : a = Magnitude(x)
  OBVIOUS
<1>b. PICK b : b = Magnitude(y)
  OBVIOUS
<1>d. PICK d : d = Magnitude(x - y)
  OBVIOUS
<1>g. PICK g : g = Greater(a, b)
  OBVIOUS
<1>1. /\ a = (IF x < 0 THEN -x ELSE x) /\ b = (IF y < 0 THEN -y ELSE y)
      /\ d = (IF x - y < 0 THEN -(x - y) ELSE x - y)
  BY <1>a, <1>b, <1>d DEF Magnitude
<1>2. a \in Nat /\ b \in Nat /\ d \in Nat
  BY <1>1
<1>3. g = IF a < b THEN b ELSE a
  BY <1>2, <1>g, GreaterIs
<1>4. /\ g \in Nat /\ d <= 2 * g /\ (d = 0 <=> x = y) /\ (g = 0 => d = 0)
      /\ (x >= 0 /\ y >= 0) \/ (x <= 0 /\ y <= 0) => d <= g
  BY <1>1, <1>2, <1>3
<1>5. x * y >= 0 => (x >= 0 /\ y >= 0) \/ (x <= 0 /\ y <= 0)
  <2>1. \A m, n \in Int : m > 0 /\ n > 0 => m * n > 0
    OBVIOUS
  <2>2. x < 0 /\ y > 0 => (-x) * y > 0
    BY <2>1
  <2>3. x > 0 /\ y < 0 => x * (-y) > 0
    BY <2>1
  <2>4. (-x) * y = -(x * y) /\ x * (-y) = -(x * y) /\ x * y \in Int
    OBVIOUS
  <2> QED
    BY <2>2, <2>3, <2>4
<1>6. ScalarDistance(x, y) = IF g = 0 THEN Fraction(0, 1) ELSE Fraction(d, g)
  BY <1>a, <1>b, <1>d, <1>g DEF ScalarDistance
<1> QED
  BY <1>2, <1>4, <1>5, <1>6, FractionFields DEF Bounded, Frac

\* The same of vectors; those of one length are told apart unless both are zero.
LEMMA VectorBounds ==
  ASSUME NEW a \in Seq(Int), NEW b \in Seq(Int)
  PROVE  /\ Bounded(VectorDistance(a, b)) /\ VectorDistance(a, b).den > 0
         /\ ~Opposed(a, b) => VectorDistance(a, b).num <= VectorDistance(a, b).den
         /\ Len(a) = Len(b) /\ (\E i \in DOMAIN b : b[i] # 0) =>
              (VectorDistance(a, b).num = 0 <=> a = b)
<1>n. PICK n : n = Min({Len(a), Len(b)})
  OBVIOUS
<1>K. PICK K : K = 1 .. n
  OBVIOUS
<1>1. /\ Len(a) \in Nat /\ Len(b) \in Nat
      /\ DOMAIN a = 1 .. Len(a) /\ DOMAIN b = 1 .. Len(b)
      /\ \A i \in 1 .. Len(a) : a[i] \in Int
      /\ \A i \in 1 .. Len(b) : b[i] \in Int
  BY LenProperties, ElementOfSeq
<1>2. n = (IF Len(a) < Len(b) THEN Len(a) ELSE Len(b)) /\ n \in Nat
  <2>p. PICK p : p = Len(a)
    BY Zenon
  <2>q. PICK q : q = Len(b)
    BY Zenon
  <2>1. p \in Nat /\ q \in Nat /\ n = Min({p, q})
    BY <1>1, <1>n, <2>p, <2>q
  <2>2. n = IF p < q THEN p ELSE q
    BY ONLY <2>1, SmallerIs, SMTT(20)
  <2>3. n \in Nat
    BY ONLY <2>1, <2>2
  <2> QED
    BY <2>2, <2>3, <2>p, <2>q
<1>3. /\ IsFiniteSet(K) /\ \A i \in K : a[i] \in Int /\ b[i] \in Int
      /\ \A i \in K : i \in DOMAIN a \cap DOMAIN b
  <2>1. IsFiniteSet(1 .. n)
    BY <1>2, FS_Interval
  <2>2. ASSUME NEW i \in K PROVE i \in 1 .. Len(a) /\ i \in 1 .. Len(b)
    <3>p. PICK p : p = Len(a)
      BY Zenon
    <3>q. PICK q \in Nat : q = Len(b)
      BY <1>1, ZenonT(30)
    <3>1. p \in Nat /\ q \in Nat /\ n = (IF p < q THEN p ELSE q)
      BY <1>1, <1>2, <3>p, <3>q
    <3>2. n \in Nat /\ n <= p /\ n <= q
      BY <3>1
    <3>3. i \in 1 .. n
      BY <1>K
    <3>4. i \in 1 .. p /\ i \in 1 .. q
      BY ONLY <3>1, <3>2, <3>3
    <3> QED
      BY <3>4, <3>p, <3>q
  <2> QED
    BY <1>1, <1>K, <2>1, <2>2
<1>ab. PICK ab : ab = Dot(a, b, K)
  OBVIOUS
<1>aa. PICK aa : aa = Dot(a, a, K)
  OBVIOUS
<1>bb. PICK bb : bb = Dot(b, b, K)
  OBVIOUS
<1>4. /\ ab \in Int /\ aa \in Nat /\ bb \in Nat
      /\ 2 * ab <= aa + bb /\ -(2 * ab) <= aa + bb
      /\ (\A i \in K : a[i] * b[i] >= 0) => ab >= 0
      /\ 2 * ab = aa + bb => \A i \in K : a[i] = b[i]
      /\ (\A i \in K : a[i] = b[i]) => ab = aa /\ bb = aa
      /\ bb = 0 => \A i \in K : b[i] = 0
  BY <1>3, <1>ab, <1>aa, <1>bb, DotBound, SMTT(30)
<1>s. PICK s : s = Greater(aa, bb)
  OBVIOUS
<1>5. s = IF aa < bb THEN bb ELSE aa
  BY <1>4, <1>s, GreaterIs
<1>6. VectorDistance(a, b) = IF aa = 0 \/ bb = 0 THEN Fraction(1, 1) ELSE Fraction(s - ab, s)
  BY <1>K, <1>n, <1>ab, <1>aa, <1>bb, <1>s DEF VectorDistance
<1>7. ASSUME Len(a) = Len(b)
      PROVE  (\A i \in K : a[i] = b[i]) <=> a = b
  <2>1. Len(a) = n /\ Len(b) = n
    BY <1>1, <1>2, <1>7
  <2> QED
    BY <1>K, <2>1, SeqEqual
<1>8. CASE aa = 0 \/ bb = 0
  <2>1. VectorDistance(a, b) = Fraction(1, 1)
    BY <1>6, <1>8
  <2>2. ASSUME Len(a) = Len(b), \E i \in DOMAIN b : b[i] # 0 PROVE a # b
    <3>1. PICK i \in DOMAIN b : b[i] # 0
      BY <2>2
    <3>2. i \in K
      BY <1>1, <1>2, <1>K, <2>2
    <3>3. bb # 0
      BY <1>4, <3>1, <3>2
    <3>4. bb # aa
      BY <1>8, <3>3
    <3> QED
      BY <1>4, <1>7, <2>2, <3>4
  <2> QED
    BY <2>1, <2>2, FractionFields DEF Bounded, Frac
<1>9. CASE ~ (aa = 0 \/ bb = 0)
  <2>1. VectorDistance(a, b) = Fraction(s - ab, s)
    BY <1>6, <1>9
  <2>2. s - ab \in Nat /\ s \in Nat /\ s - ab <= 2 * s /\ s > 0
    BY <1>4, <1>5, <1>9
  <2>4. ~Opposed(a, b) => s - ab <= s
    <3>1. ~Opposed(a, b) => \A i \in K : ~ (a[i] * b[i] < 0)
      BY <1>3 DEF Opposed
    <3>2. \A i \in K : a[i] * b[i] \in Int
      BY <1>3
    <3>3. ~Opposed(a, b) => \A i \in K : a[i] * b[i] >= 0
      BY <3>1, <3>2
    <3> QED
      BY <1>4, <2>2, <3>3
  <2>3. s - ab = 0 <=> \A i \in K : a[i] = b[i]
    <3>1. s - ab = 0 => 2 * ab = aa + bb
      BY <1>4, <1>5
    <3>2. ab = aa /\ bb = aa => s - ab = 0
      BY <1>4, <1>5
    <3> QED
      BY <1>4, <3>1, <3>2
  <2> QED
    BY <1>7, <2>1, <2>2, <2>3, <2>4, FractionFields, SMTT(30) DEF Bounded, Frac
<1> QED
  BY <1>8, <1>9

\* The numeric distance is never NaN, and zero between comparable values of one length
\* only if they are equal.
LEMMA NumericBounds ==
  ASSUME NEW a \in Seq(Int), NEW b \in Seq(Int)
  PROVE  /\ Bounded(NumericDistance(a, b)) /\ NumericDistance(a, b).den > 0
         /\ ~Opposed(a, b) => NumericDistance(a, b).num <= NumericDistance(a, b).den
         /\ Len(a) = Len(b) /\ Comparable(b) => (NumericDistance(a, b).num = 0 <=> a = b)
<1>1. /\ Len(a) \in Nat /\ Len(b) \in Nat
      /\ DOMAIN a = 1 .. Len(a) /\ DOMAIN b = 1 .. Len(b)
      /\ \A i \in 1 .. Len(a) : a[i] \in Int
      /\ \A i \in 1 .. Len(b) : b[i] \in Int
  BY LenProperties, ElementOfSeq
<1>2. CASE Len(a) = 1 /\ Len(b) = 1
  <2>1. NumericDistance(a, b) = ScalarDistance(a[1], b[1])
    BY <1>2 DEF NumericDistance
  <2>2. a[1] \in Int /\ b[1] \in Int
    BY <1>1, <1>2
  <2>4. ~Opposed(a, b) => a[1] * b[1] >= 0
    <3>1. 1 \in DOMAIN a \cap DOMAIN b /\ a[1] * b[1] \in Int
      BY <1>1, <1>2, <2>2
    <3>2. ~Opposed(a, b) => ~ (a[1] * b[1] < 0)
      BY <3>1 DEF Opposed
    <3> QED
      BY <3>1, <3>2
  <2>3. a[1] = b[1] <=> a = b
    <3>1. ASSUME a[1] = b[1] PROVE a = b
      <4>1. Len(a) = Len(b) /\ \A i \in 1 .. Len(a) : a[i] = b[i]
        BY <1>2, <3>1
      <4> QED
        BY <4>1, SeqEqual
    <3> QED
      BY <3>1
  <2> QED
    BY <2>1, <2>2, <2>3, <2>4, ScalarBounds, SMTT(20)
<1>3. CASE ~ (Len(a) = 1 /\ Len(b) = 1) /\ (Len(a) = 0 \/ Len(b) = 0)
  <2>1. NumericDistance(a, b) = Fraction(1, 1)
    BY <1>3 DEF NumericDistance
  <2>2. ~ (Len(a) = Len(b) /\ Comparable(b))
    BY <1>3, EmptySeq DEF Comparable
  <2> QED
    BY <2>1, <2>2, FractionFields DEF Bounded, Frac
<1>4. CASE ~ (Len(a) = 1 /\ Len(b) = 1) /\ ~ (Len(a) = 0 \/ Len(b) = 0)
  <2>1. NumericDistance(a, b) = VectorDistance(a, b)
    BY <1>4 DEF NumericDistance
  <2>2. Len(a) = Len(b) /\ Comparable(b) => \E i \in DOMAIN b : b[i] # 0
    BY <1>1, <1>4 DEF Comparable
  <2> QED
    BY <2>1, <2>2, VectorBounds
<1> QED
  BY <1>2, <1>3, <1>4

-----------------------------------------------------------------------------
(***************************************************************************)
(* The table of the Levenshtein distance.                                  *)
(***************************************************************************)
\* The equations of a column, and those of the table, entry by entry.
NextRow(new, row, source, c, insert, delete, replace) ==
  /\ new[0] = row[0] + insert
  /\ \A i \in 1 .. Len(source) :
       new[i] = IF source[i] = c THEN row[i - 1]
                ELSE Min({new[i - 1] + delete, row[i] + insert, row[i - 1] + replace})

\* A column exists and obeys its equations.
LEMMA ColumnIs ==
  ASSUME NEW source \in Seq(Int), NEW row \in [0 .. Len(source) -> Nat], NEW c,
         NEW insert \in Nat, NEW delete \in Nat, NEW replace \in Nat
  PROVE  /\ Column(row, source, c, insert, delete, replace) \in [0 .. Len(source) -> Nat]
         /\ NextRow(Column(row, source, c, insert, delete, replace),
                    row, source, c, insert, delete, replace)
<1>m. PICK m : m = Len(source)
  OBVIOUS
<1>0. m \in Nat
  BY <1>m, LenProperties
<1> DEFINE Entry(i, x) == IF source[i] = c THEN row[i - 1]
                          ELSE Min({x + delete, row[i] + insert, row[i - 1] + replace})
           Eq(f) == f = [i \in 0 .. m |-> IF i = 0 THEN row[0] + insert ELSE Entry(i, f[i - 1])]
<1>step. PICK step : step = [i \in 1 .. m |-> [x \in Nat |-> Entry(i, x)]]
  OBVIOUS
<1>1. ASSUME NEW i \in 1 .. m, NEW x \in Nat PROVE Entry(i, x) \in Nat
  <2>1. row[i - 1] \in Nat /\ row[i] \in Nat
    BY <1>0, <1>m, SMTT(20)
  <2>2. x + delete \in Nat /\ row[i] + insert \in Nat /\ row[i - 1] + replace \in Nat
    BY <2>1, SMTT(20)
  <2>3. Min({x + delete, row[i] + insert, row[i - 1] + replace}) \in Nat
    <3>a. PICK A : A = x + delete
      OBVIOUS
    <3>b. PICK B : B = row[i] + insert
      OBVIOUS
    <3>c. PICK C : C = row[i - 1] + replace
      OBVIOUS
    <3>1. A \in Int /\ B \in Int /\ C \in Int
      BY <2>2, <3>a, <3>b, <3>c
    <3>2. Min({A, B, C}) \in {A, B, C}
      BY <3>1, SmallestIs
    <3> QED
      BY <2>2, <3>2, <3>a, <3>b, <3>c
  <2> QED
    BY <2>1, <2>3
<1> HIDE DEF Entry
<1>2. step \in [1 .. m -> [Nat -> Nat]]
  BY <1>1, <1>step
<1>3. row[0] + insert \in Nat
  BY <1>0, <1>m
<1>4. PICK f \in [0 .. m -> Nat] : Recursion(f, m, row[0] + insert, step)
  BY <1>0, <1>2, <1>3, RecursionExists
<1>5. f[0] = row[0] + insert /\ \A i \in 1 .. m : f[i] = Entry(i, f[i - 1])
  <2>1. ASSUME NEW i \in 1 .. m PROVE f[i] = Entry(i, f[i - 1])
    <3>1. f[i] = step[i][f[i - 1]]
      BY <1>4 DEF Recursion
    <3>2. f[i - 1] \in Nat
      BY <1>0
    <3> QED
      BY <1>step, <3>1, <3>2
  <2> QED
    BY <1>4, <2>1 DEF Recursion
<1>6. Eq(f)
  <2>1. f = [i \in 0 .. m |-> f[i]]
    OBVIOUS
  <2>2. \A i \in 0 .. m : f[i] = IF i = 0 THEN row[0] + insert ELSE Entry(i, f[i - 1])
    BY <1>0, <1>5
  <2> QED
    BY <2>1, <2>2
<1>g. PICK g : g = Column(row, source, c, insert, delete, replace)
  OBVIOUS
<1>7. g = CHOOSE h : Eq(h)
  BY <1>g, <1>m DEF Column, Entry
<1>8. Eq(g)
  <2> HIDE DEF Eq
  <2> QED
    BY <1>6, <1>7
<1>9. g[0] = row[0] + insert /\ \A i \in 1 .. m : g[i] = Entry(i, g[i - 1])
  BY <1>0, <1>8
<1> DEFINE S == {i \in 0 .. m : g[i] = f[i]}
<1>10. 0 \in S
  BY <1>0, <1>5, <1>9
<1>11. ASSUME NEW i \in 0 .. m - 1, i \in S PROVE i + 1 \in S
  <2>1. i + 1 \in 1 .. m /\ i + 1 \in 0 .. m /\ (i + 1) - 1 = i
    BY <1>0
  <2>2. f[i + 1] = Entry(i + 1, f[i]) /\ g[i + 1] = Entry(i + 1, g[i])
    BY <1>5, <1>9, <2>1
  <2> QED
    BY <1>11, <2>1, <2>2
<1>12. \A i \in 0 .. m : g[i] = f[i]
  <2> HIDE DEF S
  <2>1. \A i \in 0 .. m : i \in S
    BY <1>0, <1>10, <1>11, UpTo
  <2> QED
    BY <2>1 DEF S
<1>13. g \in [0 .. m -> Nat]
  <2>1. g = [i \in 0 .. m |-> g[i]]
    BY <1>8
  <2> QED
    BY <1>12, <2>1
<1> QED
  BY <1>9, <1>13, <1>g, <1>m DEF NextRow, Entry

FirstRow(row, m, delete) == \A i \in 0 .. m : row[i] = i * delete

\* The rows of the table exist and obey their equations.
LEMMA RowsAre ==
  ASSUME NEW source \in Seq(Int), NEW target \in Seq(Int),
         NEW insert \in Nat, NEW delete \in Nat, NEW replace \in Nat
  PROVE  LET R == Rows(source, target, insert, delete, replace)
         IN  /\ R \in [0 .. Len(target) -> [0 .. Len(source) -> Nat]]
             /\ FirstRow(R[0], Len(source), delete)
             /\ \A j \in 1 .. Len(target) :
                  NextRow(R[j], R[j - 1], source, target[j], insert, delete, replace)
<1>m. PICK m : m = Len(source)
  OBVIOUS
<1>n. PICK n : n = Len(target)
  OBVIOUS
<1>0. m \in Nat /\ n \in Nat
  BY <1>m, <1>n, LenProperties
<1>T. PICK T : T = [0 .. m -> Nat]
  OBVIOUS
<1>b. PICK base : base = [i \in 0 .. m |-> i * delete]
  OBVIOUS
<1> DEFINE Col(j, r) == Column(r, source, target[j], insert, delete, replace)
           Eq(f) == f = [j \in 0 .. n |-> IF j = 0 THEN base ELSE Col(j, f[j - 1])]
<1>step. PICK step : step = [j \in 1 .. n |-> [r \in T |-> Col(j, r)]]
  OBVIOUS
<1>1. base \in T
  BY <1>0, <1>T, <1>b
<1>2. \A j \in 1 .. n : \A r \in T :
        /\ Col(j, r) \in T
        /\ NextRow(Col(j, r), r, source, target[j], insert, delete, replace)
  BY <1>T, <1>m, ColumnIs
<1> HIDE DEF Col
<1>3. step \in [1 .. n -> [T -> T]]
  BY <1>2, <1>step
<1>4. PICK f \in [0 .. n -> T] : Recursion(f, n, base, step)
  BY <1>0, <1>1, <1>3, RecursionExists
<1>5. f[0] = base /\ \A j \in 1 .. n : f[j] = Col(j, f[j - 1])
  <2>1. ASSUME NEW j \in 1 .. n PROVE f[j] = Col(j, f[j - 1])
    <3>1. f[j] = step[j][f[j - 1]]
      BY <1>4 DEF Recursion
    <3>2. f[j - 1] \in T
      BY <1>0
    <3> QED
      BY <1>step, <3>1, <3>2
  <2> QED
    BY <1>4, <2>1 DEF Recursion
<1>6. Eq(f)
  <2>1. f = [j \in 0 .. n |-> f[j]]
    OBVIOUS
  <2>2. \A j \in 0 .. n : f[j] = IF j = 0 THEN base ELSE Col(j, f[j - 1])
    BY <1>0, <1>5
  <2> QED
    BY <2>1, <2>2
<1>g. PICK g : g = Rows(source, target, insert, delete, replace)
  OBVIOUS
<1>7. g = CHOOSE h : Eq(h)
  BY <1>g, <1>m, <1>n, <1>b DEF Rows, Col
<1>8. Eq(g)
  <2> HIDE DEF Eq
  <2> QED
    BY <1>6, <1>7
<1>9. g[0] = base /\ \A j \in 1 .. n : g[j] = Col(j, g[j - 1])
  BY <1>0, <1>8
<1> DEFINE S == {j \in 0 .. n : g[j] = f[j]}
<1>10. 0 \in S
  BY <1>0, <1>5, <1>9
<1>11. ASSUME NEW j \in 0 .. n - 1, j \in S PROVE j + 1 \in S
  <2>1. j + 1 \in 1 .. n /\ j + 1 \in 0 .. n /\ (j + 1) - 1 = j
    BY <1>0
  <2>2. f[j + 1] = Col(j + 1, f[j]) /\ g[j + 1] = Col(j + 1, g[j])
    BY <1>5, <1>9, <2>1
  <2> QED
    BY <1>11, <2>1, <2>2
<1>12. \A j \in 0 .. n : g[j] = f[j]
  <2> HIDE DEF S
  <2>1. \A j \in 0 .. n : j \in S
    BY <1>0, <1>10, <1>11, UpTo
  <2> QED
    BY <2>1 DEF S
<1>13. g \in [0 .. n -> T]
  <2>1. g = [j \in 0 .. n |-> g[j]]
    BY <1>8
  <2> QED
    BY <1>12, <2>1
<1>14. FirstRow(g[0], m, delete)
  BY <1>9, <1>b DEF FirstRow
<1>15. ASSUME NEW j \in 1 .. n
       PROVE  NextRow(g[j], g[j - 1], source, target[j], insert, delete, replace)
  <2>1. g[j - 1] \in T
    BY <1>0, <1>13
  <2> QED
    BY <1>2, <1>9, <2>1
<1> QED
  BY <1>13, <1>14, <1>15, <1>g, <1>m, <1>n, <1>T

\* The entries of a table, by row and column.
IsTable(R, source, target, insert, delete, replace) ==
  /\ R \in [0 .. Len(target) -> [0 .. Len(source) -> Nat]]
  /\ \A i \in 0 .. Len(source) : R[0][i] = i * delete
  /\ \A j \in 1 .. Len(target) : R[j][0] = R[j - 1][0] + insert
  /\ \A j \in 1 .. Len(target) : \A i \in 1 .. Len(source) :
       IF source[i] = target[j] THEN R[j][i] = R[j - 1][i - 1]
       ELSE /\ R[j][i] \in {R[j][i - 1] + delete, R[j - 1][i] + insert,
                            R[j - 1][i - 1] + replace}
            /\ R[j][i] <= R[j][i - 1] + delete
            /\ R[j][i] <= R[j - 1][i] + insert
            /\ R[j][i] <= R[j - 1][i - 1] + replace

\* The rows of the code are a table.
LEMMA RowsAreTable ==
  ASSUME NEW source \in Seq(Int), NEW target \in Seq(Int),
         NEW insert \in Nat, NEW delete \in Nat, NEW replace \in Nat
  PROVE  IsTable(Rows(source, target, insert, delete, replace),
                 source, target, insert, delete, replace)
<1>R. PICK R : R = Rows(source, target, insert, delete, replace)
  OBVIOUS
<1>m. PICK m : m = Len(source)
  OBVIOUS
<1>n. PICK n : n = Len(target)
  OBVIOUS
<1>0. m \in Nat /\ n \in Nat
  BY <1>m, <1>n, LenProperties
<1>1. /\ R \in [0 .. n -> [0 .. m -> Nat]]
      /\ \A i \in 0 .. m : R[0][i] = i * delete
      /\ \A j \in 1 .. n : NextRow(R[j], R[j - 1], source, target[j], insert, delete, replace)
  <2>1. /\ R \in [0 .. Len(target) -> [0 .. Len(source) -> Nat]]
        /\ FirstRow(R[0], Len(source), delete)
        /\ \A j \in 1 .. Len(target) :
             NextRow(R[j], R[j - 1], source, target[j], insert, delete, replace)
    BY <1>R, RowsAre
  <2> QED
    BY <2>1, <1>m, <1>n DEF FirstRow
<1>2. \A j \in 1 .. n : R[j][0] = R[j - 1][0] + insert
  BY <1>1 DEF NextRow
<1>3. ASSUME NEW j \in 1 .. n, NEW i \in 1 .. m
      PROVE  IF source[i] = target[j] THEN R[j][i] = R[j - 1][i - 1]
             ELSE /\ R[j][i] \in {R[j][i - 1] + delete, R[j - 1][i] + insert,
                                  R[j - 1][i - 1] + replace}
                  /\ R[j][i] <= R[j][i - 1] + delete
                  /\ R[j][i] <= R[j - 1][i] + insert
                  /\ R[j][i] <= R[j - 1][i - 1] + replace
  <2>1. R[j][i] = IF source[i] = target[j] THEN R[j - 1][i - 1]
                  ELSE Min({R[j][i - 1] + delete, R[j - 1][i] + insert,
                            R[j - 1][i - 1] + replace})
    BY <1>1, <1>m DEF NextRow
  <2>2. R[j][i - 1] \in Nat /\ R[j - 1][i] \in Nat /\ R[j - 1][i - 1] \in Nat
    <3>1. j \in 0 .. n /\ j - 1 \in 0 .. n /\ i \in 0 .. m /\ i - 1 \in 0 .. m
      BY <1>0
    <3>2. R[j] \in [0 .. m -> Nat] /\ R[j - 1] \in [0 .. m -> Nat]
      BY <1>1, <3>1
    <3> QED
      BY <3>1, <3>2
  <2>a. PICK A : A = R[j][i - 1] + delete
    OBVIOUS
  <2>b. PICK B : B = R[j - 1][i] + insert
    OBVIOUS
  <2>c. PICK C : C = R[j - 1][i - 1] + replace
    OBVIOUS
  <2>3. A \in Int /\ B \in Int /\ C \in Int
    <3>1. R[j][i - 1] + delete \in Int
      BY ONLY <2>2, delete \in Nat, SMTT(20)
    <3>2. R[j - 1][i] + insert \in Int
      BY ONLY <2>2, insert \in Nat
    <3>3. R[j - 1][i - 1] + replace \in Int
      BY <2>2
    <3> QED
      BY <3>1, <3>2, <3>3, <2>a, <2>b, <2>c
  <2>4. Min({A, B, C}) \in {A, B, C} /\ Min({A, B, C}) <= A /\ Min({A, B, C}) <= B
        /\ Min({A, B, C}) <= C
    BY <2>3, SmallestIs
  <2> QED
    BY <2>1, <2>4, <2>a, <2>b, <2>c
<1> QED
  BY <1>1, <1>2, <1>3, <1>R, <1>m, <1>n DEF IsTable

-----------------------------------------------------------------------------
\* A set of places of a table that contains the first one, goes on along the first row
\* and the first column and contains every place whose three neighbours it contains is
\* the table.
LEMMA EveryPlace ==
  ASSUME NEW n \in Nat, NEW m \in Nat, NEW G,
         <<0, 0>> \in G,
         \A i \in 1 .. m : <<0, i - 1>> \in G => <<0, i>> \in G,
         \A j \in 1 .. n : <<j - 1, 0>> \in G => <<j, 0>> \in G,
         \A j \in 1 .. n : \A i \in 1 .. m :
           <<j - 1, i - 1>> \in G /\ <<j - 1, i>> \in G /\ <<j, i - 1>> \in G
             => <<j, i>> \in G
  PROVE  \A j \in 0 .. n : \A i \in 0 .. m : <<j, i>> \in G
<1> DEFINE RowsIn == {j \in 0 .. n : \A i \in 0 .. m : <<j, i>> \in G}
<1>1. 0 \in RowsIn
  <2> DEFINE S == {i \in 0 .. m : <<0, i>> \in G}
  <2>1. 0 \in S
    OBVIOUS
  <2>2. ASSUME NEW i \in 0 .. m - 1, i \in S PROVE i + 1 \in S
    <3>l. PICK l : l = i + 1
      OBVIOUS
    <3>1. l \in 1 .. m /\ l - 1 = i /\ l \in 0 .. m
      BY <3>l
    <3>2. <<0, l - 1>> \in G
      BY <2>2, <3>1
    <3>3. <<0, l>> \in G
      BY <3>1, <3>2
    <3> QED
      BY <3>1, <3>3, <3>l
  <2> HIDE DEF S
  <2>3. \A i \in 0 .. m : i \in S
    BY <2>1, <2>2, UpTo
  <2> QED
    BY <2>3 DEF S
<1>2. ASSUME NEW j \in 0 .. n - 1, j \in RowsIn PROVE j + 1 \in RowsIn
  <2>j. PICK k : k = j + 1
    OBVIOUS
  <2>1. k \in 1 .. n /\ k - 1 = j
    BY <2>j
  <2> DEFINE S == {i \in 0 .. m : <<k, i>> \in G}
  <2>2. 0 \in S
    <3>1. <<k - 1, 0>> \in G
      BY <1>2, <2>1
    <3> QED
      BY <2>1, <3>1
  <2>3. ASSUME NEW i \in 0 .. m - 1, i \in S PROVE i + 1 \in S
    <3>l. PICK l : l = i + 1
      OBVIOUS
    <3>1. l \in 1 .. m /\ l - 1 = i /\ l \in 0 .. m /\ i \in 0 .. m
      BY <3>l
    <3>2. <<k - 1, l - 1>> \in G /\ <<k - 1, l>> \in G /\ <<k, l - 1>> \in G
      BY <1>2, <2>1, <2>3, <3>1
    <3>3. <<k, l>> \in G
      BY <2>1, <3>1, <3>2
    <3> QED
      BY <3>1, <3>3, <3>l
  <2> HIDE DEF S
  <2>4. \A i \in 0 .. m : i \in S
    BY <2>2, <2>3, UpTo
  <2> QED
    BY <2>1, <2>4, <2>j DEF S
<1> HIDE DEF RowsIn
<1>3. \A j \in 0 .. n : j \in RowsIn
  BY <1>1, <1>2, UpTo
<1> QED
  BY <1>3 DEF RowsIn

SamePrefix(source, target, i, j) == i = j /\ \A k \in 1 .. i : source[k] = target[k]

\* With all three costs one, an entry is at most the longer length, and zero exactly
\* for equal prefixes.
LEMMA EntryBounds ==
  ASSUME NEW source \in Seq(Int), NEW target \in Seq(Int), NEW R,
         IsTable(R, source, target, 1, 1, 1)
  PROVE  \A j \in 0 .. Len(target) : \A i \in 0 .. Len(source) :
           /\ R[j][i] \in Nat
           /\ R[j][i] <= i \/ R[j][i] <= j
           /\ R[j][i] = 0 <=> SamePrefix(source, target, i, j)
<1>m. PICK m : m = Len(source)
  OBVIOUS
<1>n. PICK n : n = Len(target)
  OBVIOUS
<1>0. m \in Nat /\ n \in Nat
  BY <1>m, <1>n, LenProperties
<1> DEFINE Holds(j, i) == /\ R[j][i] <= i \/ R[j][i] <= j
                          /\ R[j][i] = 0 <=> SamePrefix(source, target, i, j)
           G == {p \in (0 .. n) \X (0 .. m) : Holds(p[1], p[2])}
<1>1. \A j \in 0 .. n : \A i \in 0 .. m : R[j][i] \in Nat
  BY <1>m, <1>n DEF IsTable
<1>2. ASSUME NEW i \in 0 .. m PROVE Holds(0, i)
  <2>1. R[0][i] = i
    BY <1>0, <1>m DEF IsTable
  <2>2. SamePrefix(source, target, i, 0) <=> i = 0
    BY DEF SamePrefix
  <2> QED
    BY <2>1, <2>2
<1>3. ASSUME NEW j \in 1 .. n, Holds(j - 1, 0) PROVE Holds(j, 0)
  <2>1. R[j][0] = R[j - 1][0] + 1 /\ R[j - 1][0] \in Nat
    <3>1. j - 1 \in 0 .. n /\ 0 \in 0 .. m
      BY <1>0
    <3> QED
      BY <1>1, <1>n, <3>1 DEF IsTable
  <2>2. ~ SamePrefix(source, target, 0, j)
    BY DEF SamePrefix
  <2>3. R[j][0] # 0
    BY <2>1
  <2>4. R[j - 1][0] <= j - 1
    BY <1>3, <2>1
  <2> QED
    BY <2>1, <2>2, <2>3, <2>4
<1>4. ASSUME NEW j \in 1 .. n, NEW i \in 1 .. m,
             Holds(j - 1, i - 1), Holds(j - 1, i), Holds(j, i - 1)
      PROVE  Holds(j, i)
  <2>1. j \in 0 .. n /\ j - 1 \in 0 .. n /\ i \in 0 .. m /\ i - 1 \in 0 .. m
    BY <1>0
  <2>2. R[j][i] \in Nat /\ R[j - 1][i - 1] \in Nat /\ R[j - 1][i] \in Nat /\ R[j][i - 1] \in Nat
    BY <1>1, <2>1
  <2>3. IF source[i] = target[j] THEN R[j][i] = R[j - 1][i - 1]
        ELSE /\ R[j][i] \in {R[j][i - 1] + 1, R[j - 1][i] + 1, R[j - 1][i - 1] + 1}
             /\ R[j][i] <= R[j - 1][i - 1] + 1
    BY <1>m, <1>n DEF IsTable
  <2>4. R[j - 1][i - 1] <= i - 1 \/ R[j - 1][i - 1] <= j - 1
    BY <1>4
  <2>5. R[j][i] <= i \/ R[j][i] <= j
    <3>1. PICK t, d, v, h : t = R[j][i] /\ d = R[j - 1][i - 1] /\ v = R[j - 1][i] /\ h = R[j][i - 1]
      OBVIOUS
    <3>2. (v <= i \/ v <= j - 1) /\ (h <= i - 1 \/ h <= j)
      BY <1>4, <3>1
    <3>3. t = d \/ (t \in {h + 1, v + 1, d + 1} /\ t <= d + 1)
      BY <2>3, <3>1
    <3>4. t \in Nat /\ d \in Nat /\ (d <= i - 1 \/ d <= j - 1) /\ i \in Nat /\ j \in Nat
      BY <2>1, <2>2, <2>4, <3>1
    <3>5. t <= i \/ t <= j
      BY ONLY <3>2, <3>3, <3>4
    <3> QED
      BY <3>1, <3>5
  <2>6. R[j][i] = 0 <=> SamePrefix(source, target, i, j)
    <3>1. CASE source[i] = target[j]
      <4>1. SamePrefix(source, target, i, j) <=> SamePrefix(source, target, i - 1, j - 1)
        <5>1. ASSUME i = j
              PROVE  (\A k \in 1 .. i : source[k] = target[k])
                       <=> (\A k \in 1 .. i - 1 : source[k] = target[k])
          <6>1. \A k \in 1 .. i : k = i \/ k \in 1 .. i - 1
            BY <2>1
          <6>2. \A k \in 1 .. i - 1 : k \in 1 .. i
            BY <2>1
          <6> QED
            BY <3>1, <5>1, <6>1, <6>2
        <5>2. i = j <=> i - 1 = j - 1
          BY <2>1
        <5> QED
          BY <5>1, <5>2 DEF SamePrefix
      <4>2. R[j - 1][i - 1] = 0 <=> SamePrefix(source, target, i - 1, j - 1)
        BY <1>4
      <4> QED
        BY <2>3, <3>1, <4>1, <4>2
    <3>2. CASE source[i] # target[j]
      <4>0. R[j][i] = R[j][i - 1] + 1 \/ R[j][i] = R[j - 1][i] + 1
              \/ R[j][i] = R[j - 1][i - 1] + 1
        BY <2>3, <3>2
      <4>1. R[j][i] # 0
        <5>0. \A x \in Nat : x + 1 # 0
          OBVIOUS
        <5>1. R[j][i - 1] + 1 # 0 /\ R[j - 1][i] + 1 # 0 /\ R[j - 1][i - 1] + 1 # 0
          BY <2>2, <5>0
        <5> QED
          BY <4>0, <5>1
      <4>2. i \in 1 .. i
        BY <2>1
      <4> QED
        BY <3>2, <4>1, <4>2 DEF SamePrefix
    <3> QED
      BY <3>1, <3>2
  <2> QED
    BY <2>5, <2>6
<1>5. \A j \in 0 .. n : \A i \in 0 .. m : <<j, i>> \in G
  <2>0. \A j \in 0 .. n : \A i \in 0 .. m : <<j, i>> \in G <=> Holds(j, i)
    OBVIOUS
  <2>d. /\ \A j \in 1 .. n : j \in 0 .. n /\ j - 1 \in 0 .. n
        /\ \A i \in 1 .. m : i \in 0 .. m /\ i - 1 \in 0 .. m
        /\ 0 \in 0 .. n /\ 0 \in 0 .. m
    BY <1>0
  <2> HIDE DEF G, Holds
  <2>a. \A i \in 0 .. m : <<0, i>> \in G
    BY <1>2, <2>0, <2>d
  <2>1. <<0, 0>> \in G /\ \A i \in 1 .. m : <<0, i - 1>> \in G => <<0, i>> \in G
    BY <2>a, <2>d
  <2>2. \A j \in 1 .. n : <<j - 1, 0>> \in G => <<j, 0>> \in G
    BY <1>3, <2>0, <2>d
  <2>3. \A j \in 1 .. n : \A i \in 1 .. m :
           <<j - 1, i - 1>> \in G /\ <<j - 1, i>> \in G /\ <<j, i - 1>> \in G
             => <<j, i>> \in G
    BY <1>4, <2>0, <2>d
  <2> QED
    BY <1>0, <2>1, <2>2, <2>3, EveryPlace
<1> QED
  BY <1>1, <1>5, <1>m, <1>n

\* The Levenshtein distance lies between zero and one, and is NaN exactly for two empty
\* values; it is zero exactly between equal ones.
LEMMA LevensteinInUnit ==
  ASSUME NEW a \in Seq(Int), NEW b \in Seq(Int)
  PROVE  /\ InUnit(levensteinDistance(a, b))
         /\ levensteinDistance(a, b).den = 0 <=> a = <<>> /\ b = <<>>
         /\ levensteinDistance(a, b).num = 0 <=> a = b
<1>m. PICK m : m = Len(a)
  OBVIOUS
<1>n. PICK n : n = Len(b)
  OBVIOUS
<1>0. m \in Nat /\ n \in Nat
  BY <1>m, <1>n, LenProperties
<1>d. PICK d : d = GeneralizedLevensteinDistance(a, b, 1, 1, 1)
  OBVIOUS
<1>g. PICK g : g = Greater(m, n)
  OBVIOUS
<1>1. g = IF m < n THEN n ELSE m
  BY <1>0, <1>g, GreaterIs
<1>2. levensteinDistance(a, b) = Fraction(d, g)
  BY <1>d, <1>g, <1>m, <1>n DEF levensteinDistance
<1>3. d \in Nat /\ (d <= m \/ d <= n) /\ (d = 0 <=> a = b)
  <2>0. m \in 0 .. m /\ n \in 0 .. n
    BY <1>0
  <2>1. CASE m > n
    <3>R. PICK R : R = Rows(b, a, 1, 1, 1)
      OBVIOUS
    <3>1. d = R[m][n]
      BY <1>d, <1>m, <1>n, <2>1, <3>R DEF GeneralizedLevensteinDistance, Table
    <3>2. IsTable(R, b, a, 1, 1, 1)
      BY <3>R, RowsAreTable
    <3>3. d \in Nat /\ (d <= n \/ d <= m) /\ (d = 0 <=> SamePrefix(b, a, n, m))
      BY <1>m, <1>n, <2>0, <3>1, <3>2, EntryBounds
    <3>4. ~ SamePrefix(b, a, n, m)
      BY <1>0, <2>1 DEF SamePrefix
    <3>5. a # b
      BY <1>0, <1>m, <1>n, <2>1
    <3> QED
      BY <3>3, <3>4, <3>5
  <2>2. CASE ~ (m > n)
    <3>R. PICK R : R = Rows(a, b, 1, 1, 1)
      OBVIOUS
    <3>1. d = R[n][m]
      BY <1>d, <1>m, <1>n, <2>2, <3>R DEF GeneralizedLevensteinDistance, Table
    <3>2. IsTable(R, a, b, 1, 1, 1)
      BY <3>R, RowsAreTable
    <3>3. d \in Nat /\ (d <= m \/ d <= n) /\ (d = 0 <=> SamePrefix(a, b, m, n))
      BY <1>m, <1>n, <2>0, <3>1, <3>2, EntryBounds
    <3>4. SamePrefix(a, b, m, n) <=> a = b
      <4>1. ASSUME SamePrefix(a, b, m, n) PROVE a = b
        <5>1. Len(a) = Len(b) /\ \A k \in 1 .. Len(a) : a[k] = b[k]
          BY <4>1, <1>m, <1>n DEF SamePrefix
        <5> QED
          BY <5>1, SeqEqual
      <4> QED
        BY <4>1, <1>m, <1>n DEF SamePrefix
    <3> QED
      BY <3>3, <3>4
  <2> QED
    BY <2>1, <2>2
<1>4. g = 0 <=> a = <<>> /\ b = <<>>
  <2>1. (a = <<>> <=> m = 0) /\ (b = <<>> <=> n = 0)
    BY <1>m, <1>n, EmptySeq
  <2> QED
    BY <1>0, <1>1, <2>1
<1>5. g \in Nat /\ d <= g
  BY <1>0, <1>1, <1>3
<1> QED
  BY <1>2, <1>3, <1>4, <1>5, FractionFields DEF InUnit, Frac

-----------------------------------------------------------------------------
(***************************************************************************)
(* Sums of distances.                                                      *)
(***************************************************************************)
\* What products of natural numbers are used for here.
LEMMA Times ==
  ASSUME NEW x \in Nat, NEW y \in Nat
  PROVE  /\ x * y \in Nat /\ x * y = y * x
         /\ x * y = 0 <=> x = 0 \/ y = 0
         /\ y > 0 => x <= x * y
OBVIOUS

\* A product grows with its factors.
LEMMA TimesMonotone ==
  ASSUME NEW x \in Nat, NEW y \in Nat, NEW z \in Nat, x <= y
  PROVE  x * z <= y * z
<1>1. (y - x) * z >= 0
  OBVIOUS
<1>2. (y - x) * z = y * z - x * z
  OBVIOUS
<1>3. x * z \in Nat /\ y * z \in Nat
  OBVIOUS
<1> QED
  BY <1>1, <1>2, <1>3

\* A sum of fractions is a fraction, with the denominators multiplied.
LEMMA PlusIs ==
  ASSUME NEW f \in Frac, NEW g \in Frac
  PROVE  /\ Plus(f, g) \in Frac
         /\ Plus(f, g).num = f.num * g.den + g.num * f.den
         /\ Plus(f, g).den = f.den * g.den
<1>1. f.num \in Nat /\ f.den \in Nat /\ g.num \in Nat /\ g.den \in Nat
  BY DEF Frac
<1>2. f.num * g.den \in Nat /\ g.num * f.den \in Nat /\ f.den * g.den \in Nat
  BY <1>1, Times
<1> QED
  BY <1>2, FractionFields DEF Plus, Frac

\* A fraction is its numerator and its denominator.
LEMMA FracEqual ==
  ASSUME NEW f \in Frac, NEW g \in Frac, f.num = g.num, f.den = g.den
  PROVE  f = g
BY DEF Frac

\* The order in which fractions are added does not matter.
LEMMA PlusCommutes ==
  ASSUME NEW f \in Frac, NEW g \in Frac, NEW z \in Frac
  PROVE  Plus(f, Plus(g, z)) = Plus(g, Plus(f, z))
<1>a. PICK a : a = f.num
  OBVIOUS
<1>b. PICK b : b = f.den
  OBVIOUS
<1>c. PICK c : c = g.num
  OBVIOUS
<1>d. PICK d : d = g.den
  OBVIOUS
<1>p. PICK p : p = z.num
  OBVIOUS
<1>q. PICK q : q = z.den
  OBVIOUS
<1>1. a \in Nat /\ b \in Nat /\ c \in Nat /\ d \in Nat /\ p \in Nat /\ q \in Nat
  BY <1>a, <1>b, <1>c, <1>d, <1>p, <1>q DEF Frac
<1>2. /\ Plus(g, z) \in Frac /\ Plus(g, z).num = c * q + p * d /\ Plus(g, z).den = d * q
      /\ Plus(f, z) \in Frac /\ Plus(f, z).num = a * q + p * b /\ Plus(f, z).den = b * q
  BY <1>a, <1>b, <1>c, <1>d, <1>p, <1>q, PlusIs
<1>3. /\ Plus(f, Plus(g, z)) \in Frac
      /\ Plus(f, Plus(g, z)).num = a * (d * q) + (c * q + p * d) * b
      /\ Plus(f, Plus(g, z)).den = b * (d * q)
  BY <1>a, <1>b, <1>2, PlusIs
<1>4. /\ Plus(g, Plus(f, z)) \in Frac
      /\ Plus(g, Plus(f, z)).num = c * (b * q) + (a * q + p * b) * d
      /\ Plus(g, Plus(f, z)).den = d * (b * q)
  BY <1>c, <1>d, <1>2, PlusIs
<1>5. a * (d * q) + (c * q + p * d) * b = c * (b * q) + (a * q + p * b) * d
      /\ b * (d * q) = d * (b * q)
  BY ONLY <1>1
<1> QED
  BY <1>3, <1>4, <1>5, FracEqual

\* The sums over the subsets of K.
Sums(h, value, K) ==
  /\ h \in [SUBSET K -> Frac]
  /\ h[{}] = Fraction(0, 1)
  /\ \A u \in SUBSET K : \A x \in u : h[u] = Plus(value[x], h[u \ {x}])

\* SumOver is such a sum: its fold exists and may take the keys in any order.
LEMMA SumIs ==
  ASSUME NEW K, IsFiniteSet(K), NEW c, NEW s, NEW g, NEW value \in [K -> Frac],
         \A k \in K : ValueDistance(c, s[k], g[k]) = value[k]
  PROVE  \E h : Sums(h, value, K) /\ SumOver(c, s, g, K) = h[K]
<1> DEFINE D(k) == ValueDistance(c, s[k], g[k])
           Eq(h) == h = [u \in SUBSET K |->
                           IF u = {} THEN Fraction(0, 1)
                           ELSE Plus(D(CHOOSE x \in u : TRUE), h[u \ {CHOOSE x \in u : TRUE}])]
<1>step. PICK step : step = [k \in K |-> [z \in Frac |-> Plus(value[k], z)]]
  OBVIOUS
<1>0. \A k \in K : \A z \in Frac : step[k][z] = Plus(value[k], z) /\ Plus(value[k], z) \in Frac
  BY <1>step, PlusIs
<1>1. step \in [K -> [Frac -> Frac]]
  BY <1>0, <1>step
<1>z. Fraction(0, 1) \in Frac
  BY FractionFields DEF Frac
<1>2. PICK h \in [SUBSET K -> Frac] : Folding(h, K, Fraction(0, 1), step)
  BY <1>1, <1>z, FoldingExists
<1>3. Commuting(step, K, Frac)
  <2>1. ASSUME NEW x \in K, NEW y \in K, NEW z \in Frac
        PROVE  step[x][step[y][z]] = step[y][step[x][z]]
    <3>1. value[x] \in Frac /\ value[y] \in Frac
      OBVIOUS
    <3>2. step[x][step[y][z]] = Plus(value[x], Plus(value[y], z))
      BY <1>0
    <3>3. step[y][step[x][z]] = Plus(value[y], Plus(value[x], z))
      BY <1>0
    <3> QED
      BY <3>1, <3>2, <3>3, PlusCommutes
  <2> QED
    BY <2>1 DEF Commuting
<1>4. \A u \in SUBSET K : \A x \in u : h[u] = step[x][h[u \ {x}]]
  <2>b. PICK base : base = Fraction(0, 1)
    OBVIOUS
  <2>1. base \in Frac /\ Folding(h, K, base, step)
    BY <1>2, <1>z, <2>b
  <2>2. h \in [SUBSET K -> Frac]
    BY <1>2
  <2>3. AnyLast(h, K, step)
    BY ONLY IsFiniteSet(K), <1>1, <1>3, <2>1, <2>2, FoldingAny
  <2> QED
    BY <2>3 DEF AnyLast
<1>5. \A u \in SUBSET K : \A x \in u : h[u] = Plus(value[x], h[u \ {x}])
  <2>1. ASSUME NEW u \in SUBSET K, NEW x \in u PROVE h[u] = Plus(value[x], h[u \ {x}])
    <3>1. x \in K /\ h[u \ {x}] \in Frac
      OBVIOUS
    <3> QED
      BY <1>0, <1>4, <3>1
  <2> QED
    BY <2>1
<1>6. h[{}] = Fraction(0, 1)
  BY <1>2 DEF Folding
<1>7. Sums(h, value, K)
  BY <1>5, <1>6 DEF Sums
<1>8. \A u \in SUBSET K : h[u] = IF u = {} THEN Fraction(0, 1)
           ELSE Plus(D(CHOOSE x \in u : TRUE), h[u \ {CHOOSE x \in u : TRUE}])
  <2>1. ASSUME NEW u \in SUBSET K, u # {}
        PROVE  h[u] = Plus(D(CHOOSE x \in u : TRUE), h[u \ {CHOOSE x \in u : TRUE}])
    <3>x. PICK x : x = CHOOSE y \in u : TRUE
      OBVIOUS
    <3>1. x \in u /\ x \in K
      BY <2>1, <3>x
    <3>2. h[u] = Plus(value[x], h[u \ {x}]) /\ D(x) = value[x]
      BY <1>5, <3>1
    <3> QED
      BY <3>2, <3>x
  <2> QED
    BY <1>6, <2>1
<1> HIDE DEF D
<1>9. Eq(h)
  <2>1. h = [u \in SUBSET K |-> h[u]]
    OBVIOUS
  <2> QED
    BY <1>8, <2>1
<1>10. SumOver(c, s, g, K) = (CHOOSE f : Eq(f))[K]
  BY DEF SumOver, FoldSet, MapThenFoldSet, D
<1>f. PICK f : f = CHOOSE e : Eq(e)
  OBVIOUS
<1>11. Eq(f)
  <2> HIDE DEF Eq
  <2> QED
    BY <1>9, <1>f
<1> DEFINE Good == {u \in SUBSET K : f[u] = h[u]}
<1>12. {} \in Good
  BY <1>6, <1>11
<1>13. ASSUME NEW u \in SUBSET K, u # {}, \A x \in u : u \ {x} \in Good PROVE u \in Good
  <2>x. PICK x : x = CHOOSE y \in u : TRUE
    OBVIOUS
  <2>1. x \in u
    BY <1>13, <2>x
  <2>2. f[u \ {x}] = h[u \ {x}]
    BY <1>13, <2>1
  <2>3. f[u] = Plus(D(x), f[u \ {x}]) /\ h[u] = Plus(D(x), h[u \ {x}])
    BY <1>8, <1>11, <1>13, <2>x
  <2> QED
    BY <2>2, <2>3
<1>14. \A u \in SUBSET K : u \in Good
  <2> HIDE DEF Good
  <2> QED
    BY <1>12, <1>13, SubsetInduction
<1>15. f[K] = h[K]
  BY <1>14
<1> QED
  BY <1>7, <1>10, <1>15, <1>f

-----------------------------------------------------------------------------
\* What the proofs need of the distance of two values.
LEMMA DistanceOfValues ==
  ASSUME NEW c, NEW a \in Seq(Int), NEW b \in Seq(Int)
  PROVE  /\ Bounded(ValueDistance(c, a, b))
         /\ c # "numeric" \/ ~Opposed(a, b) =>
              ValueDistance(c, a, b).num <= ValueDistance(c, a, b).den
         /\ c # "numeric" => (ValueDistance(c, a, b).num = 0 <=> a = b)
         /\ Len(a) = Len(b) /\ Comparable(b) =>
              /\ ValueDistance(c, a, b).den # 0
              /\ ValueDistance(c, a, b).num = 0 <=> a = b
<1>1. CASE c = "numeric"
  <2>1. ValueDistance(c, a, b) = NumericDistance(a, b)
    BY <1>1 DEF ValueDistance
  <2> QED
    BY <1>1, <2>1, NumericBounds DEF Bounded, Frac
<1>2. CASE c # "numeric"
  <2>1. ValueDistance(c, a, b) = levensteinDistance(a, b)
    BY <1>2 DEF ValueDistance
  <2>2. Bounded(levensteinDistance(a, b)) /\ levensteinDistance(a, b).num <= levensteinDistance(a, b).den
    <3>1. PICK f : f = levensteinDistance(a, b)
      OBVIOUS
    <3>2. f.num \in Nat /\ f.den \in Nat /\ f.num <= f.den /\ f \in Frac
      BY <3>1, LevensteinInUnit DEF InUnit, Frac
    <3> QED
      BY <3>1, <3>2 DEF Bounded
  <2> QED
    BY <2>1, <2>2, LevensteinInUnit DEF Comparable
<1> QED
  BY <1>1, <1>2

\* A sum of n fractions between zero and m is at most n times m, is NaN if one of them
\* is, and zero if all of them are.
LEMMA SumBounds ==
  ASSUME NEW K, IsFiniteSet(K), NEW value, NEW m \in Nat,
         \A k \in K : value[k] \in Frac /\ value[k].num <= m * value[k].den,
         NEW h, Sums(h, value, K)
  PROVE  \A u \in SUBSET K :
           /\ h[u] \in Frac
           /\ h[u].num <= (Cardinality(u) * m) * h[u].den
           /\ h[u].den # 0 <=> \A x \in u : value[x].den # 0
           /\ h[u].den # 0 => (h[u].num = 0 <=> \A x \in u : value[x].num = 0)
<1> DEFINE Holds(u) ==
             /\ h[u].num <= (Cardinality(u) * m) * h[u].den
             /\ h[u].den # 0 <=> \A x \in u : value[x].den # 0
             /\ h[u].den # 0 => (h[u].num = 0 <=> \A x \in u : value[x].num = 0)
           Good == {u \in SUBSET K : Holds(u)}
<1>0. \A u \in SUBSET K : /\ h[u] \in Frac /\ h[u].num \in Nat /\ h[u].den \in Nat
                          /\ IsFiniteSet(u) /\ Cardinality(u) \in Nat
  BY FS_Subset, FS_CardinalityType DEF Sums, Frac
<1>1. {} \in Good
  <2>1. h[{}].num = 0 /\ h[{}].den = 1
    BY FractionFields DEF Sums
  <2>2. Cardinality({}) = 0 /\ (0 * m) * 1 = 0
    BY FS_EmptySet
  <2> QED
    BY <2>1, <2>2
<1>2. ASSUME NEW u \in SUBSET K, u # {}, \A x \in u : u \ {x} \in Good PROVE u \in Good
  <2>1. PICK x \in u : TRUE
    BY <1>2
  <2>r. PICK r : r = u \ {x}
    OBVIOUS
  <2>2. r \in SUBSET K /\ Holds(r) /\ x \in K
    BY <1>2, <2>r
  <2>v. PICK v : v = value[x].num
    OBVIOUS
  <2>w. PICK w : w = value[x].den
    OBVIOUS
  <2>p. PICK p : p = h[r].num
    OBVIOUS
  <2>q. PICK q : q = h[r].den
    OBVIOUS
  <2>n. PICK n : n = Cardinality(r)
    OBVIOUS
  <2>3. value[x] \in Frac /\ v \in Nat /\ w \in Nat /\ v <= m * w
    BY <2>2, <2>v, <2>w DEF Frac
  <2>4. p \in Nat /\ q \in Nat /\ n \in Nat /\ h[r] \in Frac
    BY <1>0, <2>2, <2>p, <2>q, <2>n
  <2>5. p <= (n * m) * q
    BY <2>2, <2>p, <2>q, <2>n
  <2>6. Cardinality(u) = n + 1
    <3>1. n = Cardinality(u) - 1
      BY <1>0, <2>n, <2>r, FS_RemoveElement
    <3> QED
      BY <1>0, <3>1
  <2>7. h[u].num = v * q + p * w /\ h[u].den = w * q
    <3>1. h[u] = Plus(value[x], h[r])
      BY <2>r DEF Sums
    <3> QED
      BY <2>3, <2>4, <3>1, <2>v, <2>w, <2>p, <2>q, PlusIs
  <2>8. v * q + p * w <= ((n + 1) * m) * (w * q)
    <3>1. v * q <= (m * w) * q
      <4>1. m * w \in Nat
        BY <2>3, Times
      <4> QED
        BY <2>3, <2>4, <4>1, TimesMonotone
    <3>2. p * w <= ((n * m) * q) * w
      <4>1. (n * m) * q \in Nat
        BY <2>4, Times
      <4> QED
        BY <2>3, <2>4, <2>5, <4>1, TimesMonotone
    <3>c. PICK c : c = w * q
      OBVIOUS
    <3>l. PICK l : l = n * m
      OBVIOUS
    <3>4. /\ v * q \in Nat /\ p * w \in Nat /\ c \in Nat /\ l \in Nat
          /\ m * c \in Nat /\ l * c \in Nat
      BY <2>3, <2>4, Times, <3>c, <3>l
    <3>3. (l * q) * w = l * c /\ (m * w) * q = m * c
      BY ONLY <2>3, <2>4, <3>4, <3>c, m \in Nat
    <3>5. (l + m) * c = l * c + m * c /\ (n + 1) * m = l + m
      BY ONLY <2>4, <3>4, <3>l, m \in Nat
    <3> QED
      BY <3>1, <3>2, <3>3, <3>4, <3>5, <3>c, <3>l
  <2>9. w * q # 0 <=> w # 0 /\ q # 0
    BY <2>3, <2>4, Times
  <2>10. w # 0 /\ q # 0 => (v * q + p * w = 0 <=> v = 0 /\ p = 0)
    <3>1. v * q \in Nat /\ p * w \in Nat
      BY <2>3, <2>4, Times
    <3>2. (v * q = 0 <=> v = 0 \/ q = 0) /\ (p * w = 0 <=> p = 0 \/ w = 0)
      BY <2>3, <2>4, Times
    <3> QED
      BY <3>1, <3>2
  <2>11. \A y \in u : y = x \/ y \in r
    BY <2>r
  <2>12. \A y \in r : y \in u
    BY <2>r
  <2>13. /\ q # 0 <=> \A y \in r : value[y].den # 0
         /\ q # 0 => (p = 0 <=> \A y \in r : value[y].num = 0)
    BY <2>2, <2>p, <2>q
  <2>14. (\A y \in u : value[y].den # 0) <=> w # 0 /\ q # 0
    BY <2>11, <2>12, <2>13, <2>w
  <2>15. q # 0 => ((\A y \in u : value[y].num = 0) <=> v = 0 /\ p = 0)
    BY <2>11, <2>12, <2>13, <2>v
  <2>16. Holds(u)
    <3>1. h[u].num <= (Cardinality(u) * m) * h[u].den
      BY <2>6, <2>7, <2>8
    <3>2. h[u].den # 0 <=> \A y \in u : value[y].den # 0
      BY <2>7, <2>9, <2>14
    <3>3. h[u].den # 0 => (h[u].num = 0 <=> \A y \in u : value[y].num = 0)
      BY <2>7, <2>9, <2>10, <2>15
    <3> QED
      BY <3>1, <3>2, <3>3
  <2> QED
    BY <2>16
<1>3. \A u \in SUBSET K : u \in Good
  <2> HIDE DEF Good
  <2> QED
    BY <1>1, <1>2, SubsetInduction
<1> QED
  BY <1>0, <1>3
-----------------------------------------------------------------------------
(***************************************************************************)
(* The fields of two states.                                               *)
(***************************************************************************)
\* What at() does not return null for is a value.
LEMMA GivenValues ==
  ASSUME NEW s, IsState(s), NEW k \in Given(s)
  PROVE  k \in Keys /\ s[k] \in Seq(Int)
BY ValueAssumption DEF Given, IsState

Totals(value, h, c, s, g) ==
  /\ value \in [Keys -> Frac]
  /\ \A k \in Same(s, g) :
       /\ value[k] = ValueDistance(c, s[k], g[k])
       /\ s[k] \in Seq(Int) /\ g[k] \in Seq(Int)
  /\ \A k \in Keys : Bounded(value[k])
  /\ Sums(h, value, Same(s, g))
  /\ SumOver(c, s, g, Same(s, g)) = h[Same(s, g)]

\* The sum over the compared fields, as the loop of the comparers forms it.
LEMMA SameSum ==
  ASSUME NEW c, NEW s, NEW g, IsState(s), IsState(g)
  PROVE  \E value, h : Totals(value, h, c, s, g)
<1>K. PICK K : K = Same(s, g)
  OBVIOUS
<1>1. \A k \in K : k \in Keys /\ s[k] \in Seq(Int) /\ g[k] \in Seq(Int)
  BY <1>K, GivenValues DEF Same
<1>2. IsFiniteSet(K)
  BY <1>1, ValueAssumption, FS_Subset
<1>value. PICK value : value = [k \in Keys |-> IF k \in K THEN ValueDistance(c, s[k], g[k])
                                               ELSE Fraction(0, 1)]
  OBVIOUS
<1>3. Bounded(Fraction(0, 1))
  BY FractionFields DEF Bounded, Frac
<1>4. \A k \in Keys : Bounded(value[k])
  BY <1>1, <1>3, <1>value, DistanceOfValues
<1>5. value \in [Keys -> Frac]
  BY <1>4, <1>value DEF Bounded
<1>6. \A k \in K : value[k] = ValueDistance(c, s[k], g[k])
  BY <1>1, <1>value
<1>w. PICK w : w = [k \in K |-> value[k]]
  OBVIOUS
<1>7. w \in [K -> Frac] /\ \A k \in K : ValueDistance(c, s[k], g[k]) = w[k]
  BY <1>1, <1>5, <1>6, <1>w
<1>8. PICK h : Sums(h, w, K) /\ SumOver(c, s, g, K) = h[K]
  BY <1>2, <1>7, SumIs
<1>9. Sums(h, value, K)
  BY <1>8, <1>w DEF Sums
<1> QED
  BY <1>1, <1>4, <1>5, <1>6, <1>8, <1>9, <1>K DEF Totals

-----------------------------------------------------------------------------
\* The fields that are compared are fields of both states, finitely many.
LEMMA FieldsFinite ==
  ASSUME NEW s, NEW g
  PROVE  /\ IsFiniteSet(Fields(g)) /\ IsFiniteSet(Fields(s)) /\ IsFiniteSet(Same(s, g))
         /\ Same(s, g) \in SUBSET Fields(g) /\ Same(s, g) \in SUBSET Fields(s)
         /\ Same(s, g) \in SUBSET Keys
         /\ Cardinality(Fields(g)) \in Nat /\ Cardinality(Fields(s)) \in Nat
         /\ Cardinality(Same(s, g)) \in Nat
         /\ Cardinality(Same(s, g)) <= Cardinality(Fields(g))
         /\ Cardinality(Same(s, g)) <= Cardinality(Fields(s))
         /\ Cardinality(Same(s, g)) = Cardinality(Fields(g)) => Same(s, g) = Fields(g)
         /\ Cardinality(Same(s, g)) = Cardinality(Fields(s)) => Same(s, g) = Fields(s)
<1>1. /\ Fields(g) \in SUBSET Keys /\ Fields(s) \in SUBSET Keys
      /\ Same(s, g) \in SUBSET Fields(g) /\ Same(s, g) \in SUBSET Fields(s)
      /\ Same(s, g) \in SUBSET Keys
  BY DEF Fields, Same, Given
<1>2. IsFiniteSet(Fields(g)) /\ IsFiniteSet(Fields(s)) /\ IsFiniteSet(Same(s, g))
  BY <1>1, ValueAssumption, FS_Subset
<1> QED
  BY <1>1, <1>2, FS_CardinalityType, FS_Subset

\* The distance per field, from the sum over the fields that are compared.
LEMMA PerFieldIs ==
  ASSUME NEW c, NEW s, NEW g, NEW S \in Frac, NEW f \in Nat, NEW u \in Nat,
         SumOver(c, s, g, Same(s, g)) = S, f = Cardinality(Fields(g)),
         u = f - Cardinality(Same(s, g))
  PROVE  /\ PerField(c, s, g) \in Frac
         /\ PerField(c, s, g).num = S.num + u * S.den
         /\ PerField(c, s, g).den = S.den * f
<1>p. PICK p : p = S.num
  OBVIOUS
<1>q. PICK q : q = S.den
  OBVIOUS
<1>0. p \in Nat /\ q \in Nat
  BY <1>p, <1>q DEF Frac
<1>1. Fraction(u, 1) \in Frac /\ Fraction(u, 1).num = u /\ Fraction(u, 1).den = 1
  BY FractionFields DEF Frac
<1>P. PICK P : P = Plus(S, Fraction(u, 1))
  OBVIOUS
<1>2. P \in Frac /\ P.num = p * 1 + u * q /\ P.den = q * 1
  BY <1>p, <1>q, <1>1, <1>P, PlusIs
<1>3. PerField(c, s, g) = Fraction(P.num, P.den * f)
  BY <1>P DEF PerField
<1>4. u * q \in Nat /\ q * f \in Nat
  BY <1>0, Times
<1>5. P.num = p + u * q /\ P.den = q
  BY <1>0, <1>2, <1>4
<1> QED
  BY <1>0, <1>3, <1>4, <1>5, <1>p, <1>q, FractionFields DEF Frac

\* The distance per field is between zero and two, and at most one if those of the values
\* are; NaN if the goal is empty or one of the distances is NaN; and zero exactly if every
\* field of the goal is compared and at zero.
LEMMA PerFieldBounds ==
  ASSUME NEW c, NEW s, NEW g, IsState(s), IsState(g)
  PROVE  /\ PerField(c, s, g) \in Frac
         /\ PerField(c, s, g).num <= 2 * PerField(c, s, g).den
         /\ (\A k \in Same(s, g) :
               ValueDistance(c, s[k], g[k]).num <= ValueDistance(c, s[k], g[k]).den) =>
              PerField(c, s, g).num <= PerField(c, s, g).den
         /\ PerField(c, s, g).den # 0 <=>
              /\ Fields(g) # {}
              /\ \A k \in Same(s, g) : ValueDistance(c, s[k], g[k]).den # 0
         /\ PerField(c, s, g).den # 0 =>
              (PerField(c, s, g).num = 0 <=>
                 /\ Same(s, g) = Fields(g)
                 /\ \A k \in Same(s, g) : ValueDistance(c, s[k], g[k]).num = 0)
<1>K. PICK K : K = Same(s, g)
  OBVIOUS
<1>F. PICK F : F = Fields(g)
  OBVIOUS
<1>f. PICK f : f = Cardinality(F)
  OBVIOUS
<1>n. PICK n : n = Cardinality(K)
  OBVIOUS
<1>1. /\ f \in Nat /\ n \in Nat /\ n <= f /\ (n = f <=> K = F) /\ (f = 0 <=> F = {})
      /\ IsFiniteSet(K) /\ K \in SUBSET Keys
  BY <1>K, <1>F, <1>f, <1>n, FieldsFinite, FS_EmptySet
<1>2. PICK value, h : Totals(value, h, c, s, g)
  BY SameSum
<1>S. PICK S : S = h[K]
  OBVIOUS
<1>3. /\ S \in Frac
      /\ S.num <= (n * 2) * S.den
      /\ (\A k \in K : value[k].num <= value[k].den) => S.num <= n * S.den
      /\ S.den # 0 <=> \A x \in K : value[x].den # 0
      /\ S.den # 0 => (S.num = 0 <=> \A x \in K : value[x].num = 0)
  <2>1. K \in SUBSET K
    OBVIOUS
  <2>2. Sums(h, value, K) /\ \A k \in K : value[k] \in Frac /\ value[k].num <= 2 * value[k].den
    BY <1>1, <1>2, <1>K DEF Totals, Bounded
  <2>3. /\ S \in Frac
        /\ S.num <= (n * 2) * S.den
        /\ S.den # 0 <=> \A x \in K : value[x].den # 0
        /\ S.den # 0 => (S.num = 0 <=> \A x \in K : value[x].num = 0)
    BY <1>1, <1>S, <1>n, <2>1, <2>2, SumBounds
  <2>4. ASSUME \A k \in K : value[k].num <= value[k].den PROVE S.num <= n * S.den
    <3>1. \A k \in K : value[k].den \in Nat
      BY <2>2 DEF Frac
    <3>2. \A k \in K : value[k].num <= 1 * value[k].den
      BY <2>4, <3>1
    <3>3. 1 \in Nat /\ \A k \in K : value[k] \in Frac /\ value[k].num <= 1 * value[k].den
      BY <2>2, <3>2
    <3>4. S.num <= (n * 1) * S.den
      BY <1>1, <1>S, <1>n, <2>1, <2>2, <3>3, SumBounds
    <3> QED
      BY <1>1, <3>4
  <2> QED
    BY <2>3, <2>4
<1>p. PICK p : p = S.num
  OBVIOUS
<1>q. PICK q : q = S.den
  OBVIOUS
<1>u. PICK u : u = f - n
  OBVIOUS
<1>4. /\ p \in Nat /\ q \in Nat /\ u \in Nat /\ p <= (n * 2) * q
      /\ (\A k \in K : value[k].num <= value[k].den) => p <= n * q
  BY <1>1, <1>3, <1>p, <1>q, <1>u DEF Frac
<1>5. PerField(c, s, g).num = p + u * q /\ PerField(c, s, g).den = q * f
      /\ PerField(c, s, g) \in Frac
  <2>1. SumOver(c, s, g, Same(s, g)) = S
    BY <1>2, <1>K, <1>S DEF Totals
  <2>2. f = Cardinality(Fields(g)) /\ u = f - Cardinality(Same(s, g))
    BY <1>K, <1>F, <1>f, <1>n, <1>u
  <2> QED
    BY <1>1, <1>3, <1>4, <1>p, <1>q, <2>1, <2>2, PerFieldIs
<1>6. /\ p + u * q <= 2 * (q * f)
      /\ (\A k \in K : value[k].num <= value[k].den) => p + u * q <= q * f
  <2>1. (n + u) * q = n * q + u * q /\ (n * 2) * q = 2 * (n * q)
    <3>1. n \in Nat /\ u \in Nat /\ q \in Nat
      BY <1>1, <1>4
    <3> QED
      BY ONLY <3>1
  <2>2. n + u = f
    BY <1>1, <1>u
  <2>3. q * f = f * q /\ n * q \in Nat /\ u * q \in Nat
    BY <1>1, <1>4, Times
  <2> QED
    BY <1>4, <2>1, <2>2, <2>3
<1>13. (\A k \in K : value[k].num <= value[k].den)
         <=> \A k \in K : ValueDistance(c, s[k], g[k]).num <= ValueDistance(c, s[k], g[k]).den
  BY <1>2, <1>K DEF Totals
<1>7. q * f # 0 <=> q # 0 /\ f # 0
  BY <1>1, <1>4, Times
<1>8. q # 0 => (p + u * q = 0 <=> p = 0 /\ n = f)
  <2>1. u * q \in Nat /\ (u * q = 0 <=> u = 0 \/ q = 0)
    BY <1>4, Times
  <2>2. u = 0 <=> n = f
    BY <1>1, <1>u
  <2> QED
    BY <1>4, <2>1, <2>2
<1>9. (\A x \in K : value[x].den # 0) <=> \A k \in K : ValueDistance(c, s[k], g[k]).den # 0
  BY <1>2, <1>K DEF Totals
<1>10. (\A x \in K : value[x].num = 0) <=> \A k \in K : ValueDistance(c, s[k], g[k]).num = 0
  BY <1>2, <1>K DEF Totals
<1>11. q * f # 0 <=> F # {} /\ \A k \in K : ValueDistance(c, s[k], g[k]).den # 0
  BY <1>1, <1>3, <1>7, <1>9, <1>q
<1>12. q * f # 0 => (p + u * q = 0 <=>
           K = F /\ \A k \in K : ValueDistance(c, s[k], g[k]).num = 0)
  BY <1>1, <1>3, <1>7, <1>8, <1>10, <1>p, <1>q
<1> QED
  BY <1>5, <1>6, <1>11, <1>12, <1>13, <1>K, <1>F

\* Two states between which the exact comparer finds no difference have the same fields.
LEMMA ExactBounds ==
  ASSUME NEW s, NEW g
  PROVE  LET d == Cardinality({k \in Same(s, g) : s[k] # g[k]})
             n == Cardinality(Same(s, g))
             u == Cardinality(Fields(g)) + Cardinality(Fields(s)) - n - n
         IN  /\ d \in Nat /\ n \in Nat /\ u \in Nat /\ d <= n
             /\ Exact(s, g).num = d + u /\ Exact(s, g).den = n + u
             /\ Exact(s, g) \in Frac
             /\ d = 0 <=> \A k \in Same(s, g) : s[k] = g[k]
             /\ n = 0 <=> Same(s, g) = {}
             /\ u = 0 <=> Same(s, g) = Fields(g) /\ Same(s, g) = Fields(s)
<1>D. PICK D : D = {k \in Same(s, g) : s[k] # g[k]}
  OBVIOUS
<1>d. PICK d : d = Cardinality(D)
  OBVIOUS
<1>n. PICK n : n = Cardinality(Same(s, g))
  OBVIOUS
<1>x. PICK x : x = Cardinality(Fields(g))
  OBVIOUS
<1>y. PICK y : y = Cardinality(Fields(s))
  OBVIOUS
<1>u. PICK u : u = x + y - n - n
  OBVIOUS
<1>1. /\ n \in Nat /\ x \in Nat /\ y \in Nat /\ n <= x /\ n <= y
      /\ n = x <=> Same(s, g) = Fields(g)
      /\ n = y <=> Same(s, g) = Fields(s)
      /\ IsFiniteSet(Same(s, g))
  BY <1>n, <1>x, <1>y, FieldsFinite
<1>2. d \in Nat /\ d <= n /\ (d = 0 <=> D = {}) /\ (n = 0 <=> Same(s, g) = {})
  <2>1. D \in SUBSET Same(s, g)
    BY <1>D
  <2>2. IsFiniteSet(D)
    BY <1>1, <2>1, FS_Subset
  <2> QED
    BY <1>1, <1>d, <1>n, <2>1, <2>2, FS_Subset, FS_CardinalityType, FS_EmptySet
<1>3. D = {} <=> \A k \in Same(s, g) : s[k] = g[k]
  BY <1>D
<1>4. u \in Nat /\ (u = 0 <=> n = x /\ n = y)
  BY <1>1, <1>u
<1>5. Exact(s, g) = Fraction(d + u, n + u)
  BY <1>D, <1>d, <1>n, <1>x, <1>y, <1>u DEF Exact
<1>6. Exact(s, g).num = d + u /\ Exact(s, g).den = n + u /\ Exact(s, g) \in Frac
  <2>1. d + u \in Nat /\ n + u \in Nat
    BY <1>1, <1>2, <1>4
  <2> QED
    BY <1>5, <2>1, FractionFields DEF Frac
<1> QED
  BY <1>1, <1>2, <1>3, <1>4, <1>6, <1>D, <1>d, <1>n, <1>x, <1>y, <1>u
-----------------------------------------------------------------------------
(***************************************************************************)
(* The meter.                                                              *)
(***************************************************************************)
MeterOK == /\ goal \in AllStates
           /\ state \in AllStates
           /\ comparer \in AllComparers

\* What a meter is told and measures is of its type at all times.
THEOREM MeterTyped == MeterSpec => []MeterOK
<1>1. MeterInit => MeterOK
  BY DEF MeterInit, MeterOK, AllComparers
<1>2. MeterOK /\ [MeterNext]_meterVars => MeterOK'
  <2> SUFFICES ASSUME MeterOK, [MeterNext]_meterVars PROVE MeterOK'
    OBVIOUS
  <2>1. CASE UNCHANGED meterVars
    BY <2>1 DEF MeterOK, meterVars
  <2>2. ASSUME NEW c \in AllComparers \cup {Null}, Comparer(c) PROVE MeterOK'
    BY <2>2 DEF MeterOK, Comparer, AllComparers
  <2>3. ASSUME NEW g \in AllStates, GoalState(g) PROVE MeterOK'
    BY <2>3 DEF MeterOK, GoalState
  <2>4. ASSUME NEW k \in Keys, NEW v \in FieldContents(k), Change(k, v) PROVE MeterOK'
    <3>1. state' = [state EXCEPT ![k] = v]
      BY <2>4 DEF Change
    <3>2. state \in [Keys -> UNION {FieldContents(j) : j \in Keys}] /\ IsState(state)
      BY DEF MeterOK, AllStates
    <3>3. state' \in [Keys -> UNION {FieldContents(j) : j \in Keys}]
      BY <3>1, <3>2
    <3>4. IsState(state')
      BY <3>1, <3>2 DEF IsState, FieldContents
    <3> QED
      BY <2>4, <3>3, <3>4 DEF MeterOK, Change, AllStates
  <2> QED
    BY <2>1, <2>2, <2>3, <2>4 DEF MeterNext
<1> QED
  BY <1>1, <1>2, PTL DEF MeterSpec

\* Goal and state are states.
LEMMA MeterStates == MeterOK => IsState(state) /\ IsState(goal)
BY DEF MeterOK, AllStates

\* The property, from the type of the variables.
LEMMA WithinUnitOf == MeterOK => WithinUnit
<1> SUFFICES ASSUME MeterOK PROVE WithinUnit
  OBVIOUS
<1>1. CASE comparer = "exact"
  <2>1. Measured = Exact(state, goal)
    BY <1>1 DEF Measured, Distance
  <2>d. PICK d : d = Cardinality({k \in Same(state, goal) : state[k] # goal[k]})
    OBVIOUS
  <2>n. PICK n : n = Cardinality(Same(state, goal))
    OBVIOUS
  <2>u. PICK u : u = Cardinality(Fields(goal)) + Cardinality(Fields(state)) - n - n
    OBVIOUS
  <2>2. d \in Nat /\ n \in Nat /\ u \in Nat /\ d <= n
        /\ Measured.num = d + u /\ Measured.den = n + u
    BY <2>1, <2>d, <2>n, <2>u, ExactBounds
  <2>3. d + u \in 0 .. 2 * (n + u) /\ d + u <= n + u
    BY <2>2
  <2> QED
    BY <2>2, <2>3 DEF WithinUnit
<1>2. CASE comparer # "exact"
  <2>1. Measured = PerField(comparer, state, goal)
    BY <1>2 DEF Measured, Distance
  <2>2. /\ Measured \in Frac /\ Measured.num <= 2 * Measured.den
        /\ (\A k \in Same(state, goal) :
              ValueDistance(comparer, state[k], goal[k]).num
                <= ValueDistance(comparer, state[k], goal[k]).den) =>
             Measured.num <= Measured.den
    BY <2>1, MeterStates, PerFieldBounds
  <2>3. Measured.num \in 0 .. 2 * Measured.den
    BY <2>2 DEF Frac
  <2>4. ASSUME \/ comparer # "numeric"
               \/ ~ \E k \in Same(state, goal) : Opposed(state[k], goal[k])
        PROVE  Measured.num <= Measured.den
    <3>1. \A k \in Same(state, goal) : state[k] \in Seq(Int) /\ goal[k] \in Seq(Int)
      BY MeterStates, GivenValues DEF Same
    <3> QED
      BY <2>2, <2>4, <3>1, DistanceOfValues
  <2> QED
    BY <2>3, <2>4 DEF WithinUnit
<1> QED
  BY <1>1, <1>2

\* The property, from the type of the variables.
LEMMA ZeroIffEnoughOf == MeterOK => ZeroIffEnough
<1> SUFFICES ASSUME MeterOK PROVE ZeroIffEnough
  OBVIOUS
<1>0. IsState(state) /\ IsState(goal)
  BY MeterStates
<1>K. PICK K : K = Same(state, goal)
  OBVIOUS
<1>1. ASSUME comparer = "exact"
      PROVE  /\ IsZero(Measured) => state = goal
             /\ state = goal /\ Given(goal) = Fields(goal) /\ Given(goal) # {}
                  => IsZero(Measured)
  <2>1. Measured = Exact(state, goal)
    BY <1>1 DEF Measured, Distance
  <2>d. PICK d : d = Cardinality({k \in Same(state, goal) : state[k] # goal[k]})
    OBVIOUS
  <2>n. PICK n : n = Cardinality(Same(state, goal))
    OBVIOUS
  <2>u. PICK u : u = Cardinality(Fields(goal)) + Cardinality(Fields(state)) - n - n
    OBVIOUS
  <2>2. /\ d \in Nat /\ n \in Nat /\ u \in Nat /\ d <= n
        /\ Measured.num = d + u /\ Measured.den = n + u
        /\ d = 0 <=> \A k \in K : state[k] = goal[k]
        /\ n = 0 <=> K = {}
        /\ u = 0 <=> K = Fields(goal) /\ K = Fields(state)
    BY <1>K, <2>1, <2>d, <2>n, <2>u, ExactBounds
  <2>3. IsZero(Measured) <=> d = 0 /\ u = 0 /\ n # 0
    BY <2>2 DEF IsZero
  <2>4. ASSUME IsZero(Measured) PROVE state = goal
    <3>1. K = Fields(goal) /\ K = Fields(state) /\ \A k \in K : state[k] = goal[k]
      BY <2>2, <2>3, <2>4
    <3>2. ASSUME NEW k \in Keys PROVE state[k] = goal[k]
      <4>1. CASE k \in K
        BY <3>1, <4>1
      <4>2. CASE k \notin K
        BY <3>1, <4>2 DEF Fields
      <4> QED
        BY <4>1, <4>2
    <3>3. state = [k \in Keys |-> state[k]] /\ goal = [k \in Keys |-> goal[k]]
      BY DEF MeterOK, AllStates
    <3> QED
      BY <3>2, <3>3
  <2>5. ASSUME state = goal, Given(goal) = Fields(goal), Given(goal) # {}
        PROVE  IsZero(Measured)
    <3>1. K = Given(goal)
      BY <1>K, <2>5 DEF Same
    <3> QED
      BY <2>2, <2>3, <2>5, <3>1
  <2> QED
    BY <2>4, <2>5
<1>2. ASSUME comparer # "exact"
      PROVE  /\ IsZero(Measured) <=>
                  /\ Fields(goal) # {} /\ K = Fields(goal)
                  /\ \A k \in K : /\ ValueDistance(comparer, state[k], goal[k]).den # 0
                                  /\ ValueDistance(comparer, state[k], goal[k]).num = 0
  <2>1. Measured = PerField(comparer, state, goal)
    BY <1>2 DEF Measured, Distance
  <2>2. /\ Measured \in Frac
        /\ Measured.den # 0 <=>
             /\ Fields(goal) # {}
             /\ \A k \in K : ValueDistance(comparer, state[k], goal[k]).den # 0
        /\ Measured.den # 0 =>
             (Measured.num = 0 <=>
                /\ K = Fields(goal)
                /\ \A k \in K : ValueDistance(comparer, state[k], goal[k]).num = 0)
    BY <1>0, <1>K, <2>1, PerFieldBounds
  <2> QED
    BY <2>2 DEF IsZero
<1>3. \A k \in K : /\ k \in Given(goal) /\ k \in Given(state)
                   /\ state[k] \in Seq(Int) /\ goal[k] \in Seq(Int)
  BY <1>0, <1>K, GivenValues DEF Same
<1>4. Given(goal) \subseteq Fields(goal)
  BY DEF Given, Fields
<1>5. ASSUME comparer = "levenstein", IsZero(Measured) PROVE Enough(state, goal)
  <2>1. K = Fields(goal)
        /\ \A k \in K : ValueDistance(comparer, state[k], goal[k]).num = 0
    BY <1>2, <1>5
  <2>2. \A k \in K : state[k] = goal[k]
    BY <1>3, <1>5, <2>1, DistanceOfValues
  <2> QED
    BY <1>3, <1>4, <2>1, <2>2 DEF Enough
<1>6. ASSUME comparer # "exact", Alike, Fields(goal) # {}
      PROVE  IsZero(Measured) <=> Enough(state, goal)
  <2>1. \A k \in Fields(goal) : goal[k] \in Seq(Int) /\ Comparable(goal[k])
    BY <1>6 DEF Alike, Comparable
  <2>2. Given(goal) = Fields(goal)
    BY <2>1, ValueAssumption DEF Given, Fields
  <2>3. \A k \in K : Len(state[k]) = Len(goal[k])
    BY <1>3, <1>6, <2>2 DEF Alike
  <2>4. \A k \in K : /\ ValueDistance(comparer, state[k], goal[k]).den # 0
                     /\ ValueDistance(comparer, state[k], goal[k]).num = 0
                          <=> state[k] = goal[k]
    BY <1>3, <2>1, <2>2, <2>3, DistanceOfValues
  <2>5. IsZero(Measured) <=> K = Fields(goal) /\ \A k \in K : state[k] = goal[k]
    BY <1>2, <1>6, <2>4
  <2>6. K = Given(state) \cap Given(goal)
    BY <1>K DEF Same
  <2> QED
    BY <2>2, <2>5, <2>6 DEF Enough
<1> QED
  BY <1>1, <1>5, <1>6 DEF ZeroIffEnough

-----------------------------------------------------------------------------
(***************************************************************************)
(* Progress.                                                               *)
(***************************************************************************)
\* One summand v / w of a sum becomes zero.
LEMMA ReplacedSummand ==
  ASSUME NEW v \in Nat, NEW w \in Nat, NEW r \in Nat, NEW q \in Nat,
         NEW x \in Nat, NEW u \in Nat, NEW f \in Nat,
         v # 0, w # 0, q # 0, x # 0, f # 0
  PROVE  (r * x + u * (x * q)) * ((w * q) * f)
           < ((v * q + r * w) + u * (w * q)) * ((x * q) * f)
<1>a. PICK a : a = (r * x + u * (x * q)) * ((w * q) * f)
  OBVIOUS
<1>b. PICK b : b = ((v * q + r * w) + u * (w * q)) * ((x * q) * f)
  OBVIOUS
<1>1. b - a = (v * q) * ((x * q) * f)
  BY <1>a, <1>b
<1>2. v * q \in Nat /\ v * q # 0 /\ x * q \in Nat /\ x * q # 0
  BY Times
<1>3. (x * q) * f \in Nat /\ (x * q) * f # 0
  BY <1>2, Times
<1>4. (v * q) * ((x * q) * f) \in Nat /\ (v * q) * ((x * q) * f) # 0
  BY <1>2, <1>3, Times
<1>5. a \in Int /\ b \in Int
  BY <1>a, <1>b
<1> QED
  BY <1>1, <1>4, <1>5, <1>a, <1>b

\* One summand that counted as one becomes zero.
LEMMA AddedSummand ==
  ASSUME NEW r \in Nat, NEW q \in Nat, NEW x \in Nat, NEW u \in Nat, NEW f \in Nat,
         q # 0, x # 0, f # 0
  PROVE  (r * x + u * (x * q)) * (q * f) < (r + (u + 1) * q) * ((x * q) * f)
<1>a. PICK a : a = (r * x + u * (x * q)) * (q * f)
  OBVIOUS
<1>b. PICK b : b = (r + (u + 1) * q) * ((x * q) * f)
  OBVIOUS
<1>1. b - a = q * ((x * q) * f)
  BY <1>a, <1>b
<1>2. x * q \in Nat /\ x * q # 0
  BY Times
<1>3. (x * q) * f \in Nat /\ (x * q) * f # 0
  BY <1>2, Times
<1>4. q * ((x * q) * f) \in Nat /\ q * ((x * q) * f) # 0
  BY <1>2, <1>3, Times
<1>5. a \in Int /\ b \in Int
  BY <1>a, <1>b
<1> QED
  BY <1>1, <1>4, <1>5, <1>a, <1>b

Agree(value, other, W) == \A x \in W : value[x] = other[x]

\* Sums of the same fractions are the same.
LEMMA SumsAgree ==
  ASSUME NEW K, NEW J, NEW h, NEW e, NEW value, NEW other, NEW W,
         Sums(h, value, K), Sums(e, other, J), IsFiniteSet(W),
         W \in SUBSET K, W \in SUBSET J, Agree(value, other, W)
  PROVE  h[W] = e[W]
<1> DEFINE Good == {u \in SUBSET W : h[u] = e[u]}
<1>1. {} \in Good
  BY DEF Sums
<1>2. ASSUME NEW u \in SUBSET W, u # {}, \A x \in u : u \ {x} \in Good PROVE u \in Good
  <2>1. PICK x \in u : TRUE
    BY <1>2
  <2>2. h[u \ {x}] = e[u \ {x}]
    BY <1>2
  <2>3. u \in SUBSET K /\ u \in SUBSET J /\ x \in W
    OBVIOUS
  <2>4. h[u] = Plus(value[x], h[u \ {x}])
    BY <2>3 DEF Sums
  <2>5. e[u] = Plus(other[x], e[u \ {x}])
    BY <2>3 DEF Sums
  <2> QED
    BY <2>2, <2>3, <2>4, <2>5 DEF Agree
<1>3. \A u \in SUBSET W : u \in Good
  <2> HIDE DEF Good
  <2> QED
    BY <1>1, <1>2, SubsetInduction
<1> QED
  BY <1>3

\* The comparison of the field k with the goal, which t meets there and s does not.
AlikeIn(s, g) == \A k \in Fields(g) :
                   /\ Comparable(g[k])
                   /\ k \in Given(s) => Len(s[k]) = Len(g[k])

Meets(t, s, g, k) ==
  /\ IsState(s) /\ IsState(g) /\ AlikeIn(s, g)
  /\ k \in Given(g) /\ s[k] # g[k]
  /\ t = [s EXCEPT ![k] = g[k]]

\* What such a step does to the fields.
LEMMA MeetsIs ==
  ASSUME NEW t, NEW s, NEW g, NEW k, Meets(t, s, g, k)
  PROVE  /\ IsState(t) /\ AlikeIn(t, g) /\ k \in Keys /\ t[k] = g[k]
         /\ \A j \in Keys : j # k => t[j] = s[j]
         /\ Given(t) = Given(s) \cup {k}
         /\ Same(t, g) = Same(s, g) \cup {k}
         /\ Fields(t) = Fields(s) \cup {k}
         /\ Fields(g) # {}
<1>1. k \in Keys /\ g[k] \notin {Null, Absent} /\ DOMAIN s = Keys /\ DOMAIN g = Keys
  BY DEF Meets, Given, IsState
<1>2. t[k] = g[k] /\ \A j \in Keys : j # k => t[j] = s[j]
  BY <1>1 DEF Meets
<1>3. DOMAIN t = Keys
  BY <1>1 DEF Meets
<1>4. IsState(t)
  BY <1>1, <1>2, <1>3 DEF Meets, IsState
<1>5. Given(t) = Given(s) \cup {k}
  BY <1>1, <1>2 DEF Given
<1>6. Fields(t) = Fields(s) \cup {k}
  BY <1>1, <1>2 DEF Fields
<1>7. Same(t, g) = Same(s, g) \cup {k}
  BY <1>5 DEF Same, Meets
<1>8. AlikeIn(t, g)
  <2>1. ASSUME NEW j \in Fields(g), j \in Given(t) PROVE Len(t[j]) = Len(g[j])
    BY <1>2, <1>5, <2>1 DEF Meets, AlikeIn, Fields
  <2> QED
    BY <2>1 DEF Meets, AlikeIn
<1>9. k \in Fields(g)
  BY <1>1 DEF Fields
<1> QED
  BY <1>1, <1>2, <1>4, <1>5, <1>6, <1>7, <1>8, <1>9

Telling(c, s, g, k) ==
  /\ ValueDistance(c, s[k], g[k]) \in Frac
  /\ ValueDistance(c, s[k], g[k]).den # 0
  /\ ValueDistance(c, s[k], g[k]).num = 0 <=> s[k] = g[k]

\* Under AlikeIn no compared distance is NaN, and it is zero for equal values only.
LEMMA AlikeDistances ==
  ASSUME NEW c, NEW s, NEW g, IsState(s), IsState(g), AlikeIn(s, g), NEW k \in Same(s, g)
  PROVE  Telling(c, s, g, k)
<1>1. k \in Given(s) /\ k \in Given(g)
  BY DEF Same
<1>2. s[k] \in Seq(Int) /\ g[k] \in Seq(Int)
  BY <1>1, GivenValues
<1>3. k \in Fields(g)
  BY <1>1 DEF Given, Fields
<1>4. Len(s[k]) = Len(g[k]) /\ Comparable(g[k])
  BY <1>1, <1>3 DEF AlikeIn
<1> QED
  BY <1>2, <1>4, DistanceOfValues DEF Bounded, Telling

\* The distance per field sees a field that meets the goal, whether it was compared before
\* or not.
LEMMA PerFieldProgress ==
  ASSUME NEW c, NEW t, NEW s, NEW g, NEW k, Meets(t, s, g, k)
  PROVE  Less(PerField(c, t, g), PerField(c, s, g))
<1>0. /\ IsState(t) /\ IsState(s) /\ IsState(g) /\ AlikeIn(t, g) /\ AlikeIn(s, g)
      /\ t[k] = g[k] /\ s[k] # g[k] /\ k \in Keys /\ k \in Given(g)
      /\ \A j \in Keys : j # k => t[j] = s[j]
      /\ Fields(g) # {}
  <2>1. /\ IsState(t) /\ AlikeIn(t, g) /\ k \in Keys /\ t[k] = g[k]
        /\ \A j \in Keys : j # k => t[j] = s[j]
        /\ Fields(g) # {}
    BY MeetsIs
  <2>2. IsState(s) /\ IsState(g) /\ AlikeIn(s, g) /\ s[k] # g[k] /\ k \in Given(g)
    BY DEF Meets
  <2> QED
    BY <2>1, <2>2
<1>a. IsState(s) /\ IsState(g) /\ AlikeIn(s, g)
  BY <1>0
<1>b. IsState(t) /\ IsState(g) /\ AlikeIn(t, g)
  BY <1>0
<1>K. PICK K : K = Same(s, g)
  OBVIOUS
<1>J. PICK J : J = Same(t, g)
  OBVIOUS
<1>1. J = K \cup {k} /\ IsFiniteSet(K) /\ IsFiniteSet(J) /\ K \in SUBSET Keys
  BY <1>K, <1>J, MeetsIs, FieldsFinite
<1>2. PICK value, h : Totals(value, h, c, s, g)
  BY <1>0, SameSum
<1>3. PICK other, e : Totals(other, e, c, t, g)
  BY <1>0, SameSum
<1>W. PICK W : W = K \ {k}
  OBVIOUS
<1>4. W \in SUBSET K /\ W \in SUBSET J /\ IsFiniteSet(W) /\ W = J \ {k} /\ k \in J
  BY <1>1, <1>W, FS_Subset
<1>5. Sums(h, value, K) /\ Sums(e, other, J)
  BY <1>2, <1>3, <1>K, <1>J DEF Totals
<1>6. h[W] = e[W]
  <2>1. ASSUME NEW x \in W PROVE value[x] = other[x]
    <3>1. x \in K /\ x \in J /\ t[x] = s[x]
      BY <1>0, <1>1, <1>4, <1>W
    <3> QED
      BY <1>2, <1>3, <3>1, <1>K, <1>J DEF Totals
  <2>2. Agree(value, other, W)
    BY <2>1 DEF Agree
  <2> QED
    BY ONLY <1>4, <1>5, <2>2, SumsAgree
<1>r. PICK r : r = h[W].num
  OBVIOUS
<1>q. PICK q : q = h[W].den
  OBVIOUS
<1>7. h[W] \in Frac /\ r \in Nat /\ q \in Nat /\ q # 0
  <2>1. 2 \in Nat /\ \A j \in K : value[j] \in Frac /\ value[j].num <= 2 * value[j].den
    BY <1>1, <1>2 DEF Totals, Bounded
  <2>2. ASSUME NEW x \in W PROVE value[x].den # 0
    <3>1. x \in Same(s, g)
      BY <1>4, <1>K
    <3>2. value[x] = ValueDistance(c, s[x], g[x])
      BY <1>2, <3>1 DEF Totals
    <3>3. Telling(c, s, g, x)
      BY ONLY <1>a, <3>1, AlikeDistances
    <3> QED
      BY <3>2, <3>3 DEF Telling
  <2>3. h[W] \in Frac /\ h[W].den # 0
    BY <1>1, <1>4, <1>5, <2>1, <2>2, SumBounds
  <2> QED
    BY <2>3, <1>r, <1>q DEF Frac
<1>x. PICK x : x = other[k].den
  OBVIOUS
<1>8. other[k] \in Frac /\ other[k].num = 0 /\ x \in Nat /\ x # 0
  <2>1. other[k] = ValueDistance(c, t[k], g[k])
    BY <1>3, <1>4, <1>J DEF Totals
  <2>2. ValueDistance(c, t[k], g[k]) \in Frac /\ ValueDistance(c, t[k], g[k]).num = 0
        /\ ValueDistance(c, t[k], g[k]).den # 0
    <3>1. k \in Same(t, g)
      BY <1>4, <1>J
    <3>2. Telling(c, t, g, k)
      BY ONLY <1>b, <3>1, AlikeDistances
    <3> QED
      BY <1>0, <3>2 DEF Telling
  <2> QED
    BY <2>1, <2>2, <1>x DEF Frac
<1>9. /\ e[J] \in Frac /\ e[J].num = r * x /\ e[J].den = x * q
  <2>1. e[J] = Plus(other[k], e[J \ {k}])
    BY <1>4, <1>5 DEF Sums
  <2>2. e[J] = Plus(other[k], h[W])
    BY <2>1, <1>4, <1>6
  <2>3. e[J] \in Frac /\ e[J].num = 0 * q + r * x /\ e[J].den = x * q
    BY <2>2, <1>7, <1>8, <1>r, <1>q, <1>x, PlusIs
  <2>4. 0 * q + r * x = r * x
    BY <1>7, <1>8
  <2> QED
    BY <2>3, <2>4
<1>f. PICK f : f = Cardinality(Fields(g))
  OBVIOUS
<1>10. f \in Nat /\ f # 0
  BY <1>0, <1>f, FieldsFinite, FS_EmptySet
<1>u. PICK u : u = f - Cardinality(J)
  OBVIOUS
<1>11. u \in Nat /\ Cardinality(J) \in Nat /\ Cardinality(K) \in Nat /\ Cardinality(J) <= f
  BY <1>10, <1>J, <1>K, <1>f, <1>u, FieldsFinite
<1>12. /\ PerField(c, t, g).num = r * x + u * (x * q)
       /\ PerField(c, t, g).den = (x * q) * f
  <2>1. SumOver(c, t, g, Same(t, g)) = e[J]
    BY <1>3, <1>J DEF Totals
  <2> QED
    BY <1>9, <1>10, <1>11, <2>1, <1>f, <1>u, <1>J, PerFieldIs
<1>13. x * q # 0 /\ x * q \in Nat /\ (x * q) * f # 0
  <2>1. x * q # 0 /\ x * q \in Nat
    BY <1>7, <1>8, Times
  <2> QED
    BY <1>10, <2>1, Times
<1>14. CASE k \in K
  <2>v. PICK v : v = value[k].num
    OBVIOUS
  <2>w. PICK w : w = value[k].den
    OBVIOUS
  <2>1. value[k] \in Frac /\ v \in Nat /\ w \in Nat /\ v # 0 /\ w # 0
    <3>1. value[k] = ValueDistance(c, s[k], g[k])
      BY <1>2, <1>14, <1>K DEF Totals
    <3>2. /\ ValueDistance(c, s[k], g[k]) \in Frac
          /\ ValueDistance(c, s[k], g[k]).num # 0
          /\ ValueDistance(c, s[k], g[k]).den # 0
      <4>1. k \in Same(s, g)
        BY <1>14, <1>K
      <4>2. Telling(c, s, g, k)
        BY ONLY <1>a, <4>1, AlikeDistances
      <4> QED
        BY <1>0, <4>2 DEF Telling
    <3> QED
      BY <3>1, <3>2, <2>v, <2>w DEF Frac
  <2>2. h[K] \in Frac /\ h[K].num = v * q + r * w /\ h[K].den = w * q
    <3>1. h[K] = Plus(value[k], h[W])
      BY <1>5, <1>14, <1>W DEF Sums
    <3> QED
      BY <1>7, <2>1, <3>1, <1>r, <1>q, <2>v, <2>w, PlusIs
  <2>3. K = J
    BY <1>1, <1>14
  <2>4. /\ PerField(c, s, g).num = (v * q + r * w) + u * (w * q)
        /\ PerField(c, s, g).den = (w * q) * f
    <3>1. SumOver(c, s, g, Same(s, g)) = h[K]
      BY <1>2, <1>K DEF Totals
    <3>2. u = f - Cardinality(Same(s, g))
      BY <1>u, <2>3, <1>K
    <3> QED
      BY <1>10, <1>11, <2>2, <3>1, <3>2, <1>f, PerFieldIs
  <2>5. w * q # 0 /\ w * q \in Nat /\ (w * q) * f # 0
    <3>1. w * q # 0 /\ w * q \in Nat
      BY <1>7, <2>1, Times
    <3> QED
      BY <1>10, <3>1, Times
  <2>6. (r * x + u * (x * q)) * ((w * q) * f)
           < ((v * q + r * w) + u * (w * q)) * ((x * q) * f)
    BY <1>7, <1>8, <1>10, <1>11, <2>1, ReplacedSummand
  <2> QED
    BY <1>12, <1>13, <2>4, <2>5, <2>6 DEF Less, IsNaN
<1>15. CASE k \notin K
  <2>1. W = K
    BY <1>15, <1>W
  <2>2. Cardinality(J) = Cardinality(K) + 1
    BY <1>1, <1>15, FS_AddElement
  <2>3. u + 1 = f - Cardinality(K) /\ u + 1 \in Nat
    BY <1>10, <1>11, <2>2, <1>u
  <2>4. /\ PerField(c, s, g).num = r + (u + 1) * q
        /\ PerField(c, s, g).den = q * f
    <3>1. SumOver(c, s, g, Same(s, g)) = h[W]
      BY <1>2, <2>1, <1>K DEF Totals
    <3>v. PICK v : v = u + 1
      OBVIOUS
    <3>2. v \in Nat /\ v = f - Cardinality(Same(s, g))
      BY <2>3, <3>v, <1>K
    <3> QED
      BY <1>7, <1>10, <3>1, <3>2, <3>v, <1>f, <1>r, <1>q, PerFieldIs
  <2>5. q * f # 0
    BY <1>7, <1>10, Times
  <2>6. (r * x + u * (x * q)) * (q * f) < (r + (u + 1) * q) * ((x * q) * f)
    BY <1>7, <1>8, <1>10, <1>11, AddedSummand
  <2> QED
    BY <1>12, <1>13, <2>4, <2>5, <2>6 DEF Less, IsNaN
<1> QED
  BY <1>14, <1>15

-----------------------------------------------------------------------------
\* How the numerators and denominators of the exact comparer grow less.
LEMMA LessProducts ==
  ASSUME NEW a \in Nat, NEW b \in Nat, b # 0
  PROVE  /\ a * b < (a + 1) * b
         /\ a + 2 <= b => a * b < (a + 2) * (b - 1)
<1>p. PICK p : p = a * b
  OBVIOUS
<1>1. p \in Nat /\ (a + 1) * b = p + b /\ (a + 2) * (b - 1) = p - a + 2 * b - 2
  BY <1>p, Times
<1> QED
  BY <1>1, <1>p

\* The exact comparer sees a field that meets the goal, whether it was there before or not.
LEMMA ExactProgress ==
  ASSUME NEW t, NEW s, NEW g, NEW k, Meets(t, s, g, k)
  PROVE  Less(Exact(t, g), Exact(s, g))
<1>1. /\ k \in Keys /\ t[k] = g[k]
      /\ \A j \in Keys : j # k => t[j] = s[j]
      /\ Same(t, g) = Same(s, g) \cup {k}
      /\ Fields(t) = Fields(s) \cup {k}
  BY MeetsIs
<1>2. k \in Given(g) /\ s[k] # g[k] /\ k \in Fields(g)
  BY DEF Meets, Given, Fields
<1>D. PICK D : D = {j \in Same(s, g) : s[j] # g[j]}
  OBVIOUS
<1>E. PICK E : E = {j \in Same(t, g) : t[j] # g[j]}
  OBVIOUS
<1>d. PICK d : d = Cardinality(D)
  OBVIOUS
<1>n. PICK n : n = Cardinality(Same(s, g))
  OBVIOUS
<1>u. PICK u : u = Cardinality(Fields(g)) + Cardinality(Fields(s)) - n - n
  OBVIOUS
<1>e. PICK e : e = Cardinality(E)
  OBVIOUS
<1>m. PICK m : m = Cardinality(Same(t, g))
  OBVIOUS
<1>v. PICK v : v = Cardinality(Fields(g)) + Cardinality(Fields(t)) - m - m
  OBVIOUS
<1>3. /\ d \in Nat /\ n \in Nat /\ u \in Nat /\ d <= n
      /\ Exact(s, g).num = d + u /\ Exact(s, g).den = n + u
  BY <1>D, <1>d, <1>n, <1>u, ExactBounds
<1>4. /\ e \in Nat /\ m \in Nat /\ v \in Nat /\ e <= m
      /\ Exact(t, g).num = e + v /\ Exact(t, g).den = m + v
  BY <1>E, <1>e, <1>m, <1>v, ExactBounds
<1>5. E = D \ {k}
  <2>1. \A j \in Same(s, g) : j # k => j \in Keys /\ t[j] = s[j]
    BY <1>1 DEF Same, Given
  <2> QED
    BY <1>1, <2>1, <1>D, <1>E
<1>6. /\ IsFiniteSet(D) /\ IsFiniteSet(Same(s, g)) /\ IsFiniteSet(Fields(s))
      /\ Cardinality(Fields(s)) \in Nat /\ Cardinality(Fields(g)) \in Nat
  <2>1. D \in SUBSET Same(s, g)
    BY <1>D
  <2> QED
    BY <2>1, FieldsFinite, FS_Subset
<1>7. Less(Exact(t, g), Exact(s, g)) <=>
        m + v # 0 /\ n + u # 0 /\ (e + v) * (n + u) < (d + u) * (m + v)
  BY <1>3, <1>4 DEF Less, IsNaN
<1>8. CASE k \in Same(s, g)
  <2>1. Same(t, g) = Same(s, g) /\ Fields(t) = Fields(s)
    BY <1>1, <1>8 DEF Same, Given, Fields
  <2>2. k \in D
    BY <1>2, <1>8, <1>D
  <2>3. e = d - 1
    BY <1>5, <1>6, <2>2, <1>d, <1>e, FS_RemoveElement
  <2>4. m = n /\ v = u
    BY <2>1, <1>m, <1>n, <1>u, <1>v
  <2>5. n + u \in Nat /\ n + u # 0 /\ e + u \in Nat /\ d + u = (e + u) + 1
    BY <1>3, <1>4, <2>3
  <2> QED
    BY <1>7, <2>4, <2>5, LessProducts
<1>9. CASE k \notin Same(s, g)
  <2>1. D = E
    BY <1>5, <1>9, <1>D
  <2>2. m = n + 1 /\ e = d
    BY <1>1, <1>6, <1>9, <2>1, <1>n, <1>m, <1>d, <1>e, FS_AddElement
  <2>3. CASE k \in Fields(s)
    <3>1. Fields(t) = Fields(s)
      BY <1>1, <2>3
    <3>2. v = u - 2
      BY <1>3, <1>6, <2>2, <3>1, <1>u, <1>v
    <3>a. PICK a : a = d + v
      OBVIOUS
    <3>b. PICK b : b = n + u
      OBVIOUS
    <3>3. a \in Nat /\ b \in Nat /\ b # 0 /\ a + 2 <= b
      BY <1>3, <1>4, <3>2, <3>a, <3>b
    <3>4. a * b < (a + 2) * (b - 1)
      BY <3>3, LessProducts
    <3>5. d + u = a + 2 /\ m + v = b - 1 /\ e + v = a /\ n + u = b /\ m + v # 0
      BY <1>3, <1>4, <2>2, <3>2, <3>a, <3>b
    <3> QED
      BY <1>7, <3>3, <3>4, <3>5
  <2>4. CASE k \notin Fields(s)
    <3>1. Cardinality(Fields(t)) = Cardinality(Fields(s)) + 1
      BY <1>1, <1>6, <2>4, FS_AddElement
    <3>2. v = u - 1
      BY <1>3, <1>6, <2>2, <3>1, <1>u, <1>v
    <3>a. PICK a : a = d + v
      OBVIOUS
    <3>b. PICK b : b = n + u
      OBVIOUS
    <3>3. a \in Nat /\ b \in Nat /\ b # 0
      BY <1>3, <1>4, <3>2, <3>a, <3>b
    <3>4. a * b < (a + 1) * b
      BY <3>3, LessProducts
    <3>5. d + u = a + 1 /\ m + v = b /\ e + v = a /\ n + u = b
      BY <1>3, <1>4, <2>2, <3>2, <3>a, <3>b
    <3> QED
      BY <1>7, <3>3, <3>4, <3>5
  <2> QED
    BY <2>3, <2>4
<1> QED
  BY <1>8, <1>9

ProgressStep ==
  \A k \in Given(goal) :
    /\ Alike /\ goal' = goal /\ comparer' = comparer
    /\ state[k] # goal[k] /\ state' = [state EXCEPT ![k] = goal[k]]
    => Less(Measured', Measured)

\* A step that makes progress is seen, from the type of the variables.
LEMMA ProgressIsSeenOf == MeterOK => ProgressStep
<1> SUFFICES ASSUME MeterOK, NEW k \in Given(goal), Alike,
                    goal' = goal, comparer' = comparer, state[k] # goal[k],
                    state' = [state EXCEPT ![k] = goal[k]]
             PROVE  Less(Measured', Measured)
  BY DEF ProgressStep
<1>t. PICK t : t = [state EXCEPT ![k] = goal[k]]
  OBVIOUS
<1>1. Meets(t, state, goal, k)
  BY <1>t, MeterStates DEF Meets, AlikeIn, Alike
<1>2. Measured = Distance(comparer, state, goal) /\ Measured' = Distance(comparer, t, goal)
  <2>1. Measured' = Distance(comparer', state', goal')
    BY DEF Measured
  <2> QED
    BY <1>t, <2>1 DEF Measured
<1>3. CASE comparer = "exact"
  BY <1>1, <1>2, <1>3, ExactProgress DEF Distance
<1>4. CASE comparer # "exact"
  BY <1>1, <1>2, <1>4, PerFieldProgress DEF Distance
<1> QED
  BY <1>3, <1>4
-----------------------------------------------------------------------------
(***************************************************************************)
(* The Levenshtein distance is the least cost of an alignment.             *)
(***************************************************************************)
\* The alignments of the first i elements with the first j, and what they cost.
Alignable(i, j) ==
  {m \in SUBSET ((1 .. i) \X (1 .. j)) :
     \A x, y \in m : (x[1] < y[1] <=> x[2] < y[2]) /\ (x[1] = y[1] <=> x[2] = y[2])}

Replaced(m, a, b) == {x \in m : a[x[1]] # b[x[2]]}

PartialCost(m, i, j, a, b, insert, delete, replace) ==
  (i - Cardinality(m)) * delete + (j - Cardinality(m)) * insert
    + Cardinality(Replaced(m, a, b)) * replace

\* Alignments are finite.
LEMMA PartialFinite ==
  ASSUME NEW i \in Nat, NEW j \in Nat, NEW m \in Alignable(i, j), NEW a, NEW b
  PROVE  /\ IsFiniteSet(m) /\ Cardinality(m) \in Nat
         /\ IsFiniteSet(Replaced(m, a, b)) /\ Cardinality(Replaced(m, a, b)) \in Nat
<1>1. IsFiniteSet(1 .. i) /\ IsFiniteSet(1 .. j)
  BY FS_Interval
<1>2. IsFiniteSet((1 .. i) \X (1 .. j))
  BY <1>1, FS_Product
<1>3. m \in SUBSET ((1 .. i) \X (1 .. j)) /\ Replaced(m, a, b) \in SUBSET m
  BY DEF Alignable, Replaced
<1>4. IsFiniteSet(m) /\ IsFiniteSet(Replaced(m, a, b))
  BY <1>2, <1>3, FS_Subset
<1> QED
  BY <1>4, FS_CardinalityType

\* The pairs of an alignment are places of both sequences.
LEMMA PartialPairs ==
  ASSUME NEW i \in Nat, NEW j \in Nat, NEW m \in Alignable(i, j), NEW x \in m
  PROVE  x[1] \in 1 .. i /\ x[2] \in 1 .. j /\ x = <<x[1], x[2]>>
BY DEF Alignable

\* Without the last element of one or the other sequence.
LEMMA Shorter ==
  ASSUME NEW i \in Nat, NEW j \in Nat, NEW m \in Alignable(i, j)
  PROVE  /\ i # 0 /\ (\A x \in m : x[1] # i) => m \in Alignable(i - 1, j)
         /\ j # 0 /\ (\A x \in m : x[2] # j) => m \in Alignable(i, j - 1)
<1>1. ASSUME i # 0, \A x \in m : x[1] # i PROVE m \in Alignable(i - 1, j)
  <2>1. ASSUME NEW x \in m PROVE x \in (1 .. i - 1) \X (1 .. j)
    <3>1. x[1] \in 1 .. i - 1 /\ x[2] \in 1 .. j /\ x = <<x[1], x[2]>>
      BY <1>1, PartialPairs
    <3> QED
      BY <3>1
  <2> QED
    BY <2>1 DEF Alignable
<1>2. ASSUME j # 0, \A x \in m : x[2] # j PROVE m \in Alignable(i, j - 1)
  <2>1. ASSUME NEW x \in m PROVE x \in (1 .. i) \X (1 .. j - 1)
    <3>1. x[1] \in 1 .. i /\ x[2] \in 1 .. j - 1 /\ x = <<x[1], x[2]>>
      BY <1>2, PartialPairs
    <3> QED
      BY <3>1
  <2> QED
    BY <2>1 DEF Alignable
<1> QED
  BY <1>1, <1>2

\* With one more element of one sequence, or of both and these aligned.
LEMMA Longer ==
  ASSUME NEW i \in Nat, NEW j \in Nat, NEW m \in Alignable(i, j)
  PROVE  /\ m \in Alignable(i + 1, j) /\ m \in Alignable(i, j + 1)
         /\ m \cup {<<i + 1, j + 1>>} \in Alignable(i + 1, j + 1)
         /\ <<i + 1, j + 1>> \notin m
<1>1. \A x \in m : x[1] \in 1 .. i /\ x[2] \in 1 .. j /\ x = <<x[1], x[2]>>
  BY PartialPairs
<1>2. \A x \in m : /\ x \in (1 .. i + 1) \X (1 .. j) /\ x \in (1 .. i) \X (1 .. j + 1)
                   /\ x \in (1 .. i + 1) \X (1 .. j + 1)
  <2>1. ASSUME NEW x \in m
        PROVE  /\ x \in (1 .. i + 1) \X (1 .. j) /\ x \in (1 .. i) \X (1 .. j + 1)
               /\ x \in (1 .. i + 1) \X (1 .. j + 1)
    <3>1. x[1] \in 1 .. i /\ x[2] \in 1 .. j /\ x = <<x[1], x[2]>>
      BY <1>1
    <3>2. x[1] \in 1 .. i + 1 /\ x[2] \in 1 .. j + 1
      BY <3>1
    <3> QED
      BY <3>1, <3>2
  <2> QED
    BY <2>1
<1>3. \A x, y \in m : (x[1] < y[1] <=> x[2] < y[2]) /\ (x[1] = y[1] <=> x[2] = y[2])
  BY DEF Alignable
<1>4. m \in Alignable(i + 1, j) /\ m \in Alignable(i, j + 1)
  BY <1>2, <1>3 DEF Alignable
<1>z. PICK z : z = <<i + 1, j + 1>>
  OBVIOUS
<1>5. z[1] = i + 1 /\ z[2] = j + 1 /\ z \in (1 .. i + 1) \X (1 .. j + 1)
  BY <1>z
<1>6. z \notin m
  BY <1>1, <1>5
<1>7. \A x \in m : x[1] < z[1] /\ x[2] < z[2]
  BY <1>1, <1>5
<1>8. ASSUME NEW x \in m \cup {z}, NEW y \in m \cup {z}
      PROVE  (x[1] < y[1] <=> x[2] < y[2]) /\ (x[1] = y[1] <=> x[2] = y[2])
  <2>1. CASE x \in m /\ y \in m
    BY <1>3, <2>1
  <2>2. CASE x \in m /\ y = z
    <3>1. x[1] \in Int /\ x[2] \in Int /\ z[1] \in Int /\ z[2] \in Int
          /\ x[1] < z[1] /\ x[2] < z[2]
      BY <1>1, <1>5, <1>7, <2>2
    <3> QED
      BY <2>2, <3>1
  <2>3. CASE x = z /\ y \in m
    <3>1. y[1] \in Int /\ y[2] \in Int /\ z[1] \in Int /\ z[2] \in Int
          /\ y[1] < z[1] /\ y[2] < z[2]
      BY <1>1, <1>5, <1>7, <2>3
    <3> QED
      BY <2>3, <3>1
  <2>4. CASE x = z /\ y = z
    BY <1>5, <2>4
  <2> QED
    BY <2>1, <2>2, <2>3, <2>4
<1>9. m \cup {z} \in Alignable(i + 1, j + 1)
  BY <1>2, <1>5, <1>8 DEF Alignable
<1> QED
  BY <1>4, <1>6, <1>9, <1>z

\* At most one pair has one of the last elements.
LEMMA LastPair ==
  ASSUME NEW i \in Nat, NEW j \in Nat, i # 0, j # 0, NEW m \in Alignable(i, j), NEW x \in m,
         x[1] = i \/ x[2] = j
  PROVE  /\ m \ {x} \in Alignable(i - 1, j - 1)
         /\ \A y \in m : y[1] = i \/ y[2] = j => y = x
<1>1. \A y \in m : y[1] \in 1 .. i /\ y[2] \in 1 .. j /\ y = <<y[1], y[2]>>
  BY PartialPairs
<1>2. \A y \in m : (x[1] < y[1] <=> x[2] < y[2]) /\ (x[1] = y[1] <=> x[2] = y[2])
  BY DEF Alignable
<1>3. \A y \in m : (y[1] < x[1] <=> y[2] < x[2]) /\ (y[1] = x[1] <=> y[2] = x[2])
  BY DEF Alignable
<1>4. ASSUME NEW y \in m, y[1] = i \/ y[2] = j PROVE y = x
  <2>1. y[1] \in 1 .. i /\ y[2] \in 1 .. j /\ x[1] \in 1 .. i /\ x[2] \in 1 .. j
    BY <1>1
  <2>2. (x[1] < y[1] <=> x[2] < y[2]) /\ (x[1] = y[1] <=> x[2] = y[2])
    BY <1>2
  <2>3. (y[1] < x[1] <=> y[2] < x[2]) /\ (y[1] = x[1] <=> y[2] = x[2])
    BY <1>3
  <2>4. x[1] = y[1] /\ x[2] = y[2]
    BY <1>4, <2>1, <2>2, <2>3
  <2>5. y = <<y[1], y[2]>> /\ x = <<x[1], x[2]>>
    BY <1>1
  <2> QED
    BY <2>4, <2>5
<1>5. \A y \in m \ {x} : y[1] # i /\ y[2] # j
  BY <1>4
<1>6. ASSUME NEW y \in m \ {x} PROVE y \in (1 .. i - 1) \X (1 .. j - 1)
  <2>1. y[1] \in 1 .. i - 1 /\ y[2] \in 1 .. j - 1 /\ y = <<y[1], y[2]>>
    BY <1>1, <1>5
  <2> QED
    BY <2>1
<1>7. m \ {x} \in Alignable(i - 1, j - 1)
  BY <1>6 DEF Alignable
<1> QED
  BY <1>4, <1>7

\* One element more that is not aligned costs a deletion or an insertion.
LEMMA CostSteps ==
  ASSUME NEW i \in Nat, NEW j \in Nat, NEW m \in Alignable(i, j), NEW a, NEW b,
         NEW insert \in Nat, NEW delete \in Nat, NEW replace \in Nat
  PROVE  /\ PartialCost(m, i, j, a, b, insert, delete, replace) \in Int
         /\ PartialCost(m, i, j, a, b, insert, delete, replace)
              = PartialCost(m, i - 1, j, a, b, insert, delete, replace) + delete
         /\ PartialCost(m, i, j, a, b, insert, delete, replace)
              = PartialCost(m, i, j - 1, a, b, insert, delete, replace) + insert
<1>n. PICK n : n = Cardinality(m)
  OBVIOUS
<1>r. PICK r : r = Cardinality(Replaced(m, a, b))
  OBVIOUS
<1>1. n \in Nat /\ r \in Nat
  BY <1>n, <1>r, PartialFinite
<1>2. (i - n) * delete \in Int /\ (j - n) * insert \in Int /\ r * replace \in Int
  BY <1>1
<1>3. (i - n) * delete = (i - 1 - n) * delete + delete
      /\ (j - n) * insert = (j - 1 - n) * insert + insert
      /\ (i - 1 - n) * delete \in Int /\ (j - 1 - n) * insert \in Int
  BY <1>1
<1> QED
  BY <1>2, <1>3, <1>n, <1>r DEF PartialCost

\* A pair of the alignment costs a replacement or nothing.
LEMMA CostWithout ==
  ASSUME NEW i \in Nat, NEW j \in Nat, NEW m \in Alignable(i, j), NEW x \in m, NEW a, NEW b,
         NEW insert \in Nat, NEW delete \in Nat, NEW replace \in Nat
  PROVE  PartialCost(m, i, j, a, b, insert, delete, replace)
           = PartialCost(m \ {x}, i - 1, j - 1, a, b, insert, delete, replace)
               + (IF a[x[1]] = b[x[2]] THEN 0 ELSE replace)
<1>n. PICK n : n = Cardinality(m)
  OBVIOUS
<1>r. PICK r : r = Cardinality(Replaced(m, a, b))
  OBVIOUS
<1>k. PICK k : k = Cardinality(m \ {x})
  OBVIOUS
<1>s. PICK s : s = Cardinality(Replaced(m \ {x}, a, b))
  OBVIOUS
<1>1. /\ n \in Nat /\ r \in Nat /\ IsFiniteSet(m) /\ IsFiniteSet(Replaced(m, a, b))
  BY <1>n, <1>r, PartialFinite
<1>2. k = n - 1
  BY <1>1, <1>n, <1>k, FS_RemoveElement
<1>3. Replaced(m \ {x}, a, b) = Replaced(m, a, b) \ {x}
  BY DEF Replaced
<1>4. s = IF a[x[1]] = b[x[2]] THEN r ELSE r - 1
  <2>1. x \in Replaced(m, a, b) <=> a[x[1]] # b[x[2]]
    BY DEF Replaced
  <2> QED
    <3>1. PICK R : R = Replaced(m, a, b)
      OBVIOUS
    <3>2. IsFiniteSet(R) /\ r = Cardinality(R) /\ s = Cardinality(R \ {x})
      BY ONLY <1>1, <1>3, <1>r, <1>s, <3>1
    <3>3. x \in R <=> a[x[1]] # b[x[2]]
      BY ONLY <2>1, <3>1
    <3>4. x \notin R => R \ {x} = R
      OBVIOUS
    <3>5. x \in R => s = r - 1
      BY ONLY <3>2, FS_RemoveElement
    <3> QED
      BY ONLY <3>2, <3>3, <3>4, <3>5
<1>5. i - 1 - k = i - n /\ j - 1 - k = j - n
  BY <1>1, <1>2
<1>6. r * replace = s * replace + (IF a[x[1]] = b[x[2]] THEN 0 ELSE replace)
  <2>1. r * replace = (r - 1) * replace + replace /\ r * replace \in Int
    BY <1>1
  <2> QED
    BY <1>4, <2>1
<1>7. (i - n) * delete \in Int /\ (j - n) * insert \in Int /\ s * replace \in Int
  BY <1>1, <1>4
<1> QED
  BY <1>5, <1>6, <1>7, <1>n, <1>r, <1>k, <1>s DEF PartialCost

-----------------------------------------------------------------------------
\* A table by the lengths of the two prefixes, whichever of them the code puts first.
Cells(T, a, b, insert, delete, replace) ==
  /\ \A i \in 0 .. Len(a) : \A j \in 0 .. Len(b) : T[<<i, j>>] \in Nat
  /\ T[<<0, 0>>] = 0
  /\ \A i \in 1 .. Len(a) : T[<<i, 0>>] = T[<<i - 1, 0>>] + delete
  /\ \A j \in 1 .. Len(b) : T[<<0, j>>] = T[<<0, j - 1>>] + insert
  /\ \A i \in 1 .. Len(a) : \A j \in 1 .. Len(b) :
       IF a[i] = b[j] THEN T[<<i, j>>] = T[<<i - 1, j - 1>>]
       ELSE /\ T[<<i, j>>] \in {T[<<i - 1, j>>] + delete, T[<<i, j - 1>>] + insert,
                                T[<<i - 1, j - 1>>] + replace}
            /\ T[<<i, j>>] <= T[<<i - 1, j>>] + delete
            /\ T[<<i, j>>] <= T[<<i, j - 1>>] + insert
            /\ T[<<i, j>>] <= T[<<i - 1, j - 1>>] + replace

IsLeast(t, i, j, a, b, insert, delete, replace) ==
  /\ \E m \in Alignable(i, j) : PartialCost(m, i, j, a, b, insert, delete, replace) = t
  /\ \A m \in Alignable(i, j) : t <= PartialCost(m, i, j, a, b, insert, delete, replace)

\* The two borders: what only one of the prefixes has is inserted or deleted.
LEMMA LeastOnBorders ==
  ASSUME NEW i \in Nat, NEW t \in Nat, NEW a, NEW b,
         NEW insert \in Nat, NEW delete \in Nat, NEW replace \in Nat
  PROVE  /\ IsLeast(0, 0, 0, a, b, insert, delete, replace)
         /\ IsLeast(t, i, 0, a, b, insert, delete, replace) =>
              IsLeast(t + delete, i + 1, 0, a, b, insert, delete, replace)
         /\ IsLeast(t, 0, i, a, b, insert, delete, replace) =>
              IsLeast(t + insert, 0, i + 1, a, b, insert, delete, replace)
<1>1. \A k \in Nat : \A m : (m \in Alignable(k, 0) \/ m \in Alignable(0, k)) <=> m = {}
  <2>1. ASSUME NEW k \in Nat, NEW m, m \in Alignable(k, 0) \/ m \in Alignable(0, k)
        PROVE  m = {}
    BY <2>1 DEF Alignable
  <2>2. ASSUME NEW k \in Nat PROVE {} \in Alignable(k, 0) /\ {} \in Alignable(0, k)
    BY DEF Alignable
  <2> QED
    BY <2>1, <2>2
<1>2. \A k \in Nat : {} \in Alignable(k, 0) /\ {} \in Alignable(0, k)
  BY DEF Alignable
<1>3. i + 1 \in Nat /\ (i + 1) - 1 = i
  OBVIOUS
<1>4. PartialCost({}, 0, 0, a, b, insert, delete, replace) = 0
  <2>1. Cardinality({}) = 0 /\ Replaced({}, a, b) = {}
    BY FS_EmptySet DEF Replaced
  <2>2. (0 - 0) * delete = 0 /\ (0 - 0) * insert = 0 /\ 0 * replace = 0
    OBVIOUS
  <2> QED
    BY <2>1, <2>2 DEF PartialCost
<1>5. PartialCost({}, i + 1, 0, a, b, insert, delete, replace)
        = PartialCost({}, i, 0, a, b, insert, delete, replace) + delete
  BY <1>2, <1>3, CostSteps
<1>6. PartialCost({}, 0, i + 1, a, b, insert, delete, replace)
        = PartialCost({}, 0, i, a, b, insert, delete, replace) + insert
  BY <1>2, <1>3, CostSteps
<1>7. IsLeast(0, 0, 0, a, b, insert, delete, replace)
  <2>1. {} \in Alignable(0, 0) /\ \A m \in Alignable(0, 0) : m = {}
    BY <1>1, <1>2
  <2> QED
    BY <1>4, <2>1 DEF IsLeast
<1>8. ASSUME IsLeast(t, i, 0, a, b, insert, delete, replace)
      PROVE  IsLeast(t + delete, i + 1, 0, a, b, insert, delete, replace)
  <2>1. PartialCost({}, i, 0, a, b, insert, delete, replace) = t
    BY <1>1, <1>8 DEF IsLeast
  <2>2. PartialCost({}, i + 1, 0, a, b, insert, delete, replace) = t + delete
    BY <1>5, <2>1
  <2>3. {} \in Alignable(i + 1, 0) /\ \A m \in Alignable(i + 1, 0) : m = {}
    BY <1>1, <1>2, <1>3
  <2>4. t + delete <= t + delete
    OBVIOUS
  <2> QED
    BY <2>2, <2>3, <2>4 DEF IsLeast
<1>9. ASSUME IsLeast(t, 0, i, a, b, insert, delete, replace)
      PROVE  IsLeast(t + insert, 0, i + 1, a, b, insert, delete, replace)
  <2>1. PartialCost({}, 0, i, a, b, insert, delete, replace) = t
    BY <1>1, <1>9 DEF IsLeast
  <2>2. PartialCost({}, 0, i + 1, a, b, insert, delete, replace) = t + insert
    BY <1>6, <2>1
  <2>3. {} \in Alignable(0, i + 1) /\ \A m \in Alignable(0, i + 1) : m = {}
    BY <1>1, <1>2, <1>3
  <2>4. t + insert <= t + insert
    OBVIOUS
  <2> QED
    BY <2>2, <2>3, <2>4 DEF IsLeast
<1> QED
  BY <1>7, <1>8, <1>9

\* The cell t of two elements from its three neighbours: d before a deletion, n before
\* an insertion, r before a replacement.
LEMMA LeastInside ==
  ASSUME NEW i \in Nat, NEW j \in Nat, i # 0, j # 0, NEW a, NEW b,
         NEW insert \in Nat, NEW delete \in Nat, NEW replace \in Nat,
         NEW t \in Nat, NEW d \in Nat, NEW n \in Nat, NEW r \in Nat,
         IsLeast(d, i - 1, j, a, b, insert, delete, replace),
         IsLeast(n, i, j - 1, a, b, insert, delete, replace),
         IsLeast(r, i - 1, j - 1, a, b, insert, delete, replace),
         IF a[i] = b[j] THEN t = r
         ELSE /\ t = d + delete \/ t = n + insert \/ t = r + replace
              /\ t <= d + delete /\ t <= n + insert /\ t <= r + replace
  PROVE  IsLeast(t, i, j, a, b, insert, delete, replace)
<1> DEFINE Cost(m, x, y) == PartialCost(m, x, y, a, b, insert, delete, replace)
<1>0. i - 1 \in Nat /\ j - 1 \in Nat /\ (i - 1) + 1 = i /\ (j - 1) + 1 = j
  OBVIOUS
<1>1. /\ \E m \in Alignable(i - 1, j) : Cost(m, i - 1, j) = d
      /\ \A m \in Alignable(i - 1, j) : d <= Cost(m, i - 1, j)
      /\ \E m \in Alignable(i, j - 1) : Cost(m, i, j - 1) = n
      /\ \A m \in Alignable(i, j - 1) : n <= Cost(m, i, j - 1)
      /\ \E m \in Alignable(i - 1, j - 1) : Cost(m, i - 1, j - 1) = r
      /\ \A m \in Alignable(i - 1, j - 1) : r <= Cost(m, i - 1, j - 1)
  BY DEF IsLeast
<1> HIDE DEF Cost
<1>2. \A m \in Alignable(i, j) :
        /\ Cost(m, i, j) \in Int
        /\ Cost(m, i, j) = Cost(m, i - 1, j) + delete
        /\ Cost(m, i, j) = Cost(m, i, j - 1) + insert
  BY CostSteps DEF Cost
<1>3. \A m \in Alignable(i, j) : \A x \in m :
        Cost(m, i, j) = Cost(m \ {x}, i - 1, j - 1)
                          + (IF a[x[1]] = b[x[2]] THEN 0 ELSE replace)
  BY CostWithout DEF Cost
<1>4. \A m \in Alignable(i - 1, j - 1) : Cost(m, i - 1, j - 1) \in Int
  BY <1>0, CostSteps DEF Cost
<1>5. \E m \in Alignable(i, j) : Cost(m, i, j) = d + delete
  <2>1. PICK m \in Alignable(i - 1, j) : Cost(m, i - 1, j) = d
    BY <1>1
  <2>2. m \in Alignable(i, j)
    BY <1>0, Longer
  <2> QED
    BY <1>2, <2>1, <2>2
<1>6. \E m \in Alignable(i, j) : Cost(m, i, j) = n + insert
  <2>1. PICK m \in Alignable(i, j - 1) : Cost(m, i, j - 1) = n
    BY <1>1
  <2>2. m \in Alignable(i, j)
    BY <1>0, Longer
  <2> QED
    BY <1>2, <2>1, <2>2
<1>7. \E m \in Alignable(i, j) : Cost(m, i, j) = r + (IF a[i] = b[j] THEN 0 ELSE replace)
  <2>1. PICK m \in Alignable(i - 1, j - 1) : Cost(m, i - 1, j - 1) = r
    BY <1>1
  <2>z. PICK z : z = <<i, j>>
    OBVIOUS
  <2>2. m \cup {z} \in Alignable(i, j) /\ z \notin m
    <3>1. m \cup {<<(i - 1) + 1, (j - 1) + 1>>} \in Alignable((i - 1) + 1, (j - 1) + 1)
          /\ <<(i - 1) + 1, (j - 1) + 1>> \notin m
      BY <1>0, Longer
    <3> QED
      BY <1>0, <2>z, <3>1
  <2>3. (m \cup {z}) \ {z} = m /\ z \in m \cup {z} /\ z[1] = i /\ z[2] = j
    BY <2>2, <2>z
  <2> QED
    BY <1>3, <2>1, <2>2, <2>3
<1>8. \E m \in Alignable(i, j) : Cost(m, i, j) = t
  <2>1. CASE a[i] = b[j]
    <3>1. t = r + 0 /\ t = r
      BY <2>1
    <3> QED
      BY <1>7, <2>1, <3>1
  <2>2. CASE a[i] # b[j]
    BY <1>5, <1>6, <1>7, <2>2
  <2> QED
    BY <2>1, <2>2
<1>9. ASSUME NEW m \in Alignable(i, j) PROVE t <= Cost(m, i, j)
  <2>1. CASE \E x \in m : x[1] = i \/ x[2] = j
    <3>1. PICK x \in m : x[1] = i \/ x[2] = j
      BY <2>1
    <3>2. m \ {x} \in Alignable(i - 1, j - 1)
      BY <3>1, LastPair
    <3>3. \A y \in m : y[1] = i \/ y[2] = j => y = x
      BY <3>1, LastPair
    <3>c. PICK c : c = Cost(m \ {x}, i - 1, j - 1)
      OBVIOUS
    <3>4. r <= c /\ c \in Int
      BY <1>1, <1>4, <3>2, <3>c
    <3>5. Cost(m, i, j) = c + (IF a[x[1]] = b[x[2]] THEN 0 ELSE replace)
      BY <1>3, <3>c
    <3>6. CASE a[i] = b[j]
      BY <3>4, <3>5, <3>6
    <3>7. CASE a[i] # b[j] /\ x[1] = i /\ x[2] = j
      BY <3>4, <3>5, <3>7
    <3>8. CASE a[i] # b[j] /\ x[1] # i
      <4>1. \A y \in m : y[1] # i
        BY <3>3, <3>8
      <4>2. m \in Alignable(i - 1, j)
        BY <4>1, Shorter
      <4>3. d <= Cost(m, i - 1, j) /\ Cost(m, i, j) = Cost(m, i - 1, j) + delete
        BY <1>1, <1>2, <4>2
      <4>4. Cost(m, i - 1, j) \in Int
        BY <1>0, <4>2, CostSteps DEF Cost
      <4> QED
        BY <3>8, <4>3, <4>4
    <3>9. CASE a[i] # b[j] /\ x[2] # j
      <4>1. \A y \in m : y[2] # j
        BY <3>3, <3>9
      <4>2. m \in Alignable(i, j - 1)
        BY <4>1, Shorter
      <4>3. n <= Cost(m, i, j - 1) /\ Cost(m, i, j) = Cost(m, i, j - 1) + insert
        BY <1>1, <1>2, <4>2
      <4>4. Cost(m, i, j - 1) \in Int
        BY <1>0, <4>2, CostSteps DEF Cost
      <4> QED
        BY <3>9, <4>3, <4>4
    <3> QED
      BY <3>6, <3>7, <3>8, <3>9
  <2>2. CASE \A x \in m : x[1] # i /\ x[2] # j
    <3>1. m \in Alignable(i - 1, j)
      BY <2>2, Shorter
    <3>2. m \in Alignable(i - 1, j - 1)
      BY <1>0, <2>2, <3>1, Shorter
    <3>c. PICK c : c = Cost(m, i - 1, j - 1)
      OBVIOUS
    <3>3. r <= c /\ c \in Int
      BY <1>1, <1>4, <3>2, <3>c
    <3>4. Cost(m, i - 1, j) = c + insert
      BY <1>0, <3>1, <3>c, CostSteps DEF Cost
    <3>5. Cost(m, i, j) = Cost(m, i - 1, j) + delete /\ d <= Cost(m, i - 1, j)
      BY <1>1, <1>2, <3>1
    <3> QED
      BY <3>3, <3>4, <3>5
  <2> QED
    BY <2>1, <2>2
<1> QED
  BY <1>8, <1>9 DEF IsLeast, Cost

-----------------------------------------------------------------------------
\* The entry of a table for two prefixes is the least cost of an alignment of them.
LEMMA CellsAreLeast ==
  ASSUME NEW a \in Seq(Int), NEW b \in Seq(Int),
         NEW insert \in Nat, NEW delete \in Nat, NEW replace \in Nat,
         NEW T, Cells(T, a, b, insert, delete, replace)
  PROVE  IsLeast(T[<<Len(a), Len(b)>>], Len(a), Len(b), a, b, insert, delete, replace)
<1>m. PICK m : m = Len(a)
  OBVIOUS
<1>n. PICK n : n = Len(b)
  OBVIOUS
<1>0. m \in Nat /\ n \in Nat
  BY <1>m, <1>n, LenProperties
<1> DEFINE Holds(i, j) == IsLeast(T[<<i, j>>], i, j, a, b, insert, delete, replace)
           G == {p \in (0 .. m) \X (0 .. n) : Holds(p[1], p[2])}
<1>1. /\ \A i \in 0 .. m : \A j \in 0 .. n : T[<<i, j>>] \in Nat
      /\ T[<<0, 0>>] = 0
      /\ \A i \in 1 .. m : T[<<i, 0>>] = T[<<i - 1, 0>>] + delete
      /\ \A j \in 1 .. n : T[<<0, j>>] = T[<<0, j - 1>>] + insert
      /\ \A i \in 1 .. m : \A j \in 1 .. n :
           IF a[i] = b[j] THEN T[<<i, j>>] = T[<<i - 1, j - 1>>]
           ELSE /\ T[<<i, j>>] \in {T[<<i - 1, j>>] + delete, T[<<i, j - 1>>] + insert,
                                    T[<<i - 1, j - 1>>] + replace}
                /\ T[<<i, j>>] <= T[<<i - 1, j>>] + delete
                /\ T[<<i, j>>] <= T[<<i, j - 1>>] + insert
                /\ T[<<i, j>>] <= T[<<i - 1, j - 1>>] + replace
  BY <1>m, <1>n DEF Cells
<1>d. /\ \A i \in 1 .. m : i \in 0 .. m /\ i - 1 \in 0 .. m /\ i \in Nat /\ i # 0
                           /\ i - 1 \in Nat /\ (i - 1) + 1 = i
      /\ \A j \in 1 .. n : j \in 0 .. n /\ j - 1 \in 0 .. n /\ j \in Nat /\ j # 0
                           /\ j - 1 \in Nat /\ (j - 1) + 1 = j
      /\ 0 \in 0 .. n /\ 0 \in 0 .. m
  BY <1>0
<1>2. Holds(0, 0)
  <2>1. 0 \in Nat
    OBVIOUS
  <2> QED
    <3>1. IsLeast(0, 0, 0, a, b, insert, delete, replace)
      BY ONLY <2>1, insert \in Nat, delete \in Nat, replace \in Nat, LeastOnBorders
    <3> QED
      BY <1>1, <3>1
<1>3. ASSUME NEW j \in 1 .. n, Holds(0, j - 1) PROVE Holds(0, j)
  <2>t. PICK t : t = T[<<0, j - 1>>]
    OBVIOUS
  <2>k. PICK k : k = j - 1
    OBVIOUS
  <2>1. t \in Nat /\ T[<<0, j>>] = t + insert /\ k \in Nat /\ k + 1 = j
    BY <1>1, <1>d, <2>t, <2>k
  <2>2. IsLeast(t, 0, k, a, b, insert, delete, replace)
    BY <1>3, <2>t, <2>k
  <2>3. IsLeast(t + insert, 0, k + 1, a, b, insert, delete, replace)
    BY <2>1, <2>2, LeastOnBorders
  <2> QED
    BY <2>1, <2>3
<1>4. ASSUME NEW i \in 1 .. m, Holds(i - 1, 0) PROVE Holds(i, 0)
  <2>t. PICK t : t = T[<<i - 1, 0>>]
    OBVIOUS
  <2>k. PICK k : k = i - 1
    OBVIOUS
  <2>1. t \in Nat /\ T[<<i, 0>>] = t + delete /\ k \in Nat /\ k + 1 = i
    BY <1>1, <1>d, <2>t, <2>k
  <2>2. IsLeast(t, k, 0, a, b, insert, delete, replace)
    BY <1>4, <2>t, <2>k
  <2>3. IsLeast(t + delete, k + 1, 0, a, b, insert, delete, replace)
    BY <2>1, <2>2, LeastOnBorders
  <2> QED
    BY <2>1, <2>3
<1>5. ASSUME NEW i \in 1 .. m, NEW j \in 1 .. n,
             Holds(i - 1, j - 1), Holds(i - 1, j), Holds(i, j - 1)
      PROVE  Holds(i, j)
  <2>t. PICK t : t = T[<<i, j>>]
    OBVIOUS
  <2>x. PICK d : d = T[<<i - 1, j>>]
    OBVIOUS
  <2>y. PICK e : e = T[<<i, j - 1>>]
    OBVIOUS
  <2>r. PICK r : r = T[<<i - 1, j - 1>>]
    OBVIOUS
  <2>1. t \in Nat /\ d \in Nat /\ e \in Nat /\ r \in Nat
    BY <1>1, <1>d, <2>t, <2>x, <2>y, <2>r
  <2>2. IF a[i] = b[j] THEN t = r
        ELSE /\ t = d + delete \/ t = e + insert \/ t = r + replace
             /\ t <= d + delete /\ t <= e + insert /\ t <= r + replace
    BY <1>1, <2>t, <2>x, <2>y, <2>r
  <2>3. /\ IsLeast(d, i - 1, j, a, b, insert, delete, replace)
        /\ IsLeast(e, i, j - 1, a, b, insert, delete, replace)
        /\ IsLeast(r, i - 1, j - 1, a, b, insert, delete, replace)
    BY <1>5, <2>x, <2>y, <2>r
  <2>4. i \in Nat /\ j \in Nat /\ i # 0 /\ j # 0
    BY <1>d
  <2>5. IsLeast(t, i, j, a, b, insert, delete, replace)
    BY ONLY <2>1, <2>2, <2>3, <2>4, LeastInside,
            insert \in Nat, delete \in Nat, replace \in Nat
  <2> QED
    BY <2>5, <2>t
<1>6. \A i \in 0 .. m : \A j \in 0 .. n : <<i, j>> \in G
  <2>0. \A i \in 0 .. m : \A j \in 0 .. n : <<i, j>> \in G <=> Holds(i, j)
    OBVIOUS
  <2> HIDE DEF G, Holds
  <2>1. <<0, 0>> \in G
    BY <1>2, <1>d, <2>0
  <2>2. \A j \in 1 .. n : <<0, j - 1>> \in G => <<0, j>> \in G
    BY <1>3, <1>d, <2>0
  <2>3. \A i \in 1 .. m : <<i - 1, 0>> \in G => <<i, 0>> \in G
    BY <1>4, <1>d, <2>0
  <2>4. \A i \in 1 .. m : \A j \in 1 .. n :
          <<i - 1, j - 1>> \in G /\ <<i - 1, j>> \in G /\ <<i, j - 1>> \in G
            => <<i, j>> \in G
    BY <1>5, <1>d, <2>0
  <2> QED
    BY <1>0, <2>1, <2>2, <2>3, <2>4, EveryPlace
<1>7. <<m, n>> \in G
  BY <1>0, <1>6
<1> QED
  BY <1>7, <1>m, <1>n

\* The rows of the code are such a table, in either order of the two sequences.
LEMMA RowsAreCells ==
  ASSUME NEW a \in Seq(Int), NEW b \in Seq(Int),
         NEW insert \in Nat, NEW delete \in Nat, NEW replace \in Nat
  PROVE  \E T : /\ Cells(T, a, b, insert, delete, replace)
                /\ T[<<Len(a), Len(b)>>] = Table(a, b, insert, delete, replace)
<1>m. PICK m : m = Len(a)
  OBVIOUS
<1>n. PICK n : n = Len(b)
  OBVIOUS
<1>0. m \in Nat /\ n \in Nat
  BY <1>m, <1>n, LenProperties
<1>R. PICK R : R = Rows(a, b, insert, delete, replace)
  OBVIOUS
<1>1. IsTable(R, a, b, insert, delete, replace)
  BY <1>R, RowsAreTable
<1>T. PICK T : T = [p \in (0 .. m) \X (0 .. n) |-> R[p[2]][p[1]]]
  OBVIOUS
<1>2. \A i \in 0 .. m : \A j \in 0 .. n : T[<<i, j>>] = R[j][i]
  BY <1>T
<1>d. /\ \A i \in 1 .. m : i \in 0 .. m /\ i - 1 \in 0 .. m
      /\ \A j \in 1 .. n : j \in 0 .. n /\ j - 1 \in 0 .. n
      /\ 0 \in 0 .. n /\ 0 \in 0 .. m
  BY <1>0
<1>3. \A i \in 0 .. m : \A j \in 0 .. n : T[<<i, j>>] \in Nat
  <2>1. R \in [0 .. n -> [0 .. m -> Nat]]
    BY <1>1, <1>m, <1>n DEF IsTable
  <2>2. \A i \in 0 .. m : \A j \in 0 .. n : R[j][i] \in Nat
    BY <2>1
  <2> QED
    BY <1>2, <2>2
<1>4. \A i \in 0 .. m : T[<<i, 0>>] = i * delete
  BY <1>1, <1>2, <1>d, <1>m DEF IsTable
<1>5. T[<<0, 0>>] = 0
  BY <1>4, <1>d
<1>6. \A i \in 1 .. m : T[<<i, 0>>] = T[<<i - 1, 0>>] + delete
  <2>1. ASSUME NEW i \in 1 .. m PROVE T[<<i, 0>>] = T[<<i - 1, 0>>] + delete
    <3>1. T[<<i, 0>>] = i * delete /\ T[<<i - 1, 0>>] = (i - 1) * delete
      BY <1>4, <1>d
    <3>2. i * delete = (i - 1) * delete + delete
      OBVIOUS
    <3> QED
      BY <3>1, <3>2
  <2> QED
    BY <2>1
<1>7. \A j \in 1 .. n : T[<<0, j>>] = T[<<0, j - 1>>] + insert
  <2>1. ASSUME NEW j \in 1 .. n PROVE T[<<0, j>>] = T[<<0, j - 1>>] + insert
    <3>1. T[<<0, j>>] = R[j][0] /\ T[<<0, j - 1>>] = R[j - 1][0]
      BY <1>2, <1>d
    <3>2. R[j][0] = R[j - 1][0] + insert
      BY <1>1, <1>n DEF IsTable
    <3> QED
      BY <3>1, <3>2
  <2> QED
    BY <2>1
<1>8. ASSUME NEW i \in 1 .. m, NEW j \in 1 .. n
      PROVE  IF a[i] = b[j] THEN T[<<i, j>>] = T[<<i - 1, j - 1>>]
             ELSE /\ T[<<i, j>>] \in {T[<<i - 1, j>>] + delete, T[<<i, j - 1>>] + insert,
                                      T[<<i - 1, j - 1>>] + replace}
                  /\ T[<<i, j>>] <= T[<<i - 1, j>>] + delete
                  /\ T[<<i, j>>] <= T[<<i, j - 1>>] + insert
                  /\ T[<<i, j>>] <= T[<<i - 1, j - 1>>] + replace
  <2>1. /\ T[<<i, j>>] = R[j][i] /\ T[<<i - 1, j>>] = R[j][i - 1]
        /\ T[<<i, j - 1>>] = R[j - 1][i] /\ T[<<i - 1, j - 1>>] = R[j - 1][i - 1]
    BY <1>2, <1>d
  <2>2. IF a[i] = b[j] THEN R[j][i] = R[j - 1][i - 1]
        ELSE /\ R[j][i] \in {R[j][i - 1] + delete, R[j - 1][i] + insert,
                            R[j - 1][i - 1] + replace}
             /\ R[j][i] <= R[j][i - 1] + delete
             /\ R[j][i] <= R[j - 1][i] + insert
             /\ R[j][i] <= R[j - 1][i - 1] + replace
    BY <1>1, <1>m, <1>n DEF IsTable
  <2> QED
    BY <2>1, <2>2
<1>9. Cells(T, a, b, insert, delete, replace)
  BY <1>3, <1>5, <1>6, <1>7, <1>8, <1>m, <1>n DEF Cells
<1>10. T[<<m, n>>] = Table(a, b, insert, delete, replace)
  <2>0. m \in 0 .. m /\ n \in 0 .. n
    BY <1>0
  <2>1. T[<<m, n>>] = R[n][m]
    BY <1>2, <2>0
  <2> QED
    BY <2>1, <1>R, <1>m, <1>n DEF Table
<1> QED
  BY <1>9, <1>10, <1>m, <1>n

\* A table for b and a with the costs exchanged is one for a and b.
LEMMA CellsTransposed ==
  ASSUME NEW a \in Seq(Int), NEW b \in Seq(Int),
         NEW insert \in Nat, NEW delete \in Nat, NEW replace \in Nat,
         NEW T, Cells(T, b, a, delete, insert, replace)
  PROVE  \E U : /\ Cells(U, a, b, insert, delete, replace)
                /\ U[<<Len(a), Len(b)>>] = T[<<Len(b), Len(a)>>]
<1>m. PICK m : m = Len(a)
  OBVIOUS
<1>n. PICK n : n = Len(b)
  OBVIOUS
<1>0. m \in Nat /\ n \in Nat
  BY <1>m, <1>n, LenProperties
<1>U. PICK U : U = [p \in (0 .. m) \X (0 .. n) |-> T[<<p[2], p[1]>>]]
  OBVIOUS
<1>1. \A i \in 0 .. m : \A j \in 0 .. n : U[<<i, j>>] = T[<<j, i>>]
  BY <1>U
<1>d. /\ \A i \in 1 .. m : i \in 0 .. m /\ i - 1 \in 0 .. m
      /\ \A j \in 1 .. n : j \in 0 .. n /\ j - 1 \in 0 .. n
      /\ 0 \in 0 .. n /\ 0 \in 0 .. m
  BY <1>0
  <1>t. /\ \A j \in 0 .. n : \A i \in 0 .. m : T[<<j, i>>] \in Nat
        /\ T[<<0, 0>>] = 0
        /\ \A j \in 1 .. n : T[<<j, 0>>] = T[<<j - 1, 0>>] + insert
        /\ \A i \in 1 .. m : T[<<0, i>>] = T[<<0, i - 1>>] + delete
    BY <1>m, <1>n DEF Cells
<1>2. /\ \A i \in 0 .. m : \A j \in 0 .. n : U[<<i, j>>] \in Nat
      /\ U[<<0, 0>>] = 0
  BY ONLY <1>1, <1>d, <1>t
<1>3. \A i \in 1 .. m : U[<<i, 0>>] = U[<<i - 1, 0>>] + delete
  BY ONLY <1>1, <1>d, <1>t
<1>4. \A j \in 1 .. n : U[<<0, j>>] = U[<<0, j - 1>>] + insert
  BY ONLY <1>1, <1>d, <1>t
<1>5. ASSUME NEW i \in 1 .. m, NEW j \in 1 .. n
      PROVE  IF a[i] = b[j] THEN U[<<i, j>>] = U[<<i - 1, j - 1>>]
             ELSE /\ U[<<i, j>>] \in {U[<<i - 1, j>>] + delete, U[<<i, j - 1>>] + insert,
                                      U[<<i - 1, j - 1>>] + replace}
                  /\ U[<<i, j>>] <= U[<<i - 1, j>>] + delete
                  /\ U[<<i, j>>] <= U[<<i, j - 1>>] + insert
                  /\ U[<<i, j>>] <= U[<<i - 1, j - 1>>] + replace
  <2>1. /\ U[<<i, j>>] = T[<<j, i>>] /\ U[<<i - 1, j>>] = T[<<j, i - 1>>]
        /\ U[<<i, j - 1>>] = T[<<j - 1, i>>] /\ U[<<i - 1, j - 1>>] = T[<<j - 1, i - 1>>]
    BY <1>1, <1>d
  <2>2. IF b[j] = a[i] THEN T[<<j, i>>] = T[<<j - 1, i - 1>>]
        ELSE /\ T[<<j, i>>] \in {T[<<j - 1, i>>] + insert, T[<<j, i - 1>>] + delete,
                                 T[<<j - 1, i - 1>>] + replace}
             /\ T[<<j, i>>] <= T[<<j - 1, i>>] + insert
             /\ T[<<j, i>>] <= T[<<j, i - 1>>] + delete
             /\ T[<<j, i>>] <= T[<<j - 1, i - 1>>] + replace
    BY <1>m, <1>n DEF Cells
  <2> QED
    BY <2>1, <2>2
<1>6. Cells(U, a, b, insert, delete, replace)
  BY <1>2, <1>3, <1>4, <1>5, <1>m, <1>n DEF Cells
<1>7. U[<<m, n>>] = T[<<n, m>>]
  BY <1>0, <1>1
<1> QED
  BY <1>6, <1>7, <1>m, <1>n

\* GeneralizedLevensteinDistance() is the least cost, in whichever order it takes the two.
LEMMA DistanceIsLeast ==
  ASSUME NEW a \in Seq(Int), NEW b \in Seq(Int),
         NEW insert \in Nat, NEW delete \in Nat, NEW replace \in Nat
  PROVE  IsLeast(GeneralizedLevensteinDistance(a, b, insert, delete, replace),
                 Len(a), Len(b), a, b, insert, delete, replace)
<1>1. CASE Len(a) > Len(b)
  <2>1. GeneralizedLevensteinDistance(a, b, insert, delete, replace)
          = Table(b, a, delete, insert, replace)
    BY <1>1 DEF GeneralizedLevensteinDistance
  <2>2. PICK T : /\ Cells(T, b, a, delete, insert, replace)
                 /\ T[<<Len(b), Len(a)>>] = Table(b, a, delete, insert, replace)
    <3>1. /\ a \in Seq(Int) /\ b \in Seq(Int)
          /\ insert \in Nat /\ delete \in Nat /\ replace \in Nat
      OBVIOUS
    <3> QED
      BY ONLY <3>1, RowsAreCells, ZenonT(40)
  <2>3. PICK U : /\ Cells(U, a, b, insert, delete, replace)
                 /\ U[<<Len(a), Len(b)>>] = T[<<Len(b), Len(a)>>]
    <3>1. Cells(T, b, a, delete, insert, replace)
      BY <2>2
    <3>2. a \in Seq(Int) /\ b \in Seq(Int)
          /\ insert \in Nat /\ delete \in Nat /\ replace \in Nat
      OBVIOUS
    <3> QED
      BY ONLY <3>1, <3>2, CellsTransposed
  <2>4. IsLeast(U[<<Len(a), Len(b)>>], Len(a), Len(b), a, b, insert, delete, replace)
    BY <2>3, CellsAreLeast
  <2> QED
    BY <2>1, <2>2, <2>3, <2>4
<1>2. CASE ~ (Len(a) > Len(b))
  <2>1. GeneralizedLevensteinDistance(a, b, insert, delete, replace)
          = Table(a, b, insert, delete, replace)
    BY <1>2 DEF GeneralizedLevensteinDistance
  <2>2. PICK T : /\ Cells(T, a, b, insert, delete, replace)
                 /\ T[<<Len(a), Len(b)>>] = Table(a, b, insert, delete, replace)
    <3>1. /\ a \in Seq(Int) /\ b \in Seq(Int)
          /\ insert \in Nat /\ delete \in Nat /\ replace \in Nat
      OBVIOUS
    <3> QED
      BY ONLY <3>1, RowsAreCells, ZenonT(40)
  <2>3. IsLeast(T[<<Len(a), Len(b)>>], Len(a), Len(b), a, b, insert, delete, replace)
    BY <2>2, CellsAreLeast
  <2> QED
    BY <2>1, <2>2, <2>3
<1> QED
  BY <1>1, <1>2

\* The minimum of a set of integers that has one.
LEMMA MinIs ==
  ASSUME NEW T, NEW t \in T, T \subseteq Int, \A x \in T : t <= x
  PROVE  Min(T) = t
<1>1. \A k \in T : (\A x \in T : k =< x) => k = t
  OBVIOUS
<1> QED
  BY <1>1 DEF Min

\* GeneralizedLevensteinDistance() is the least cost of an alignment for any two
\* sequences and any costs, whichever sequence is the longer: the swap of the sequences
\* with the costs of insertion and deletion, and the one row that is kept, are right.
THEOREM LeastCostOfAnyCosts ==
  ASSUME NEW a \in Seq(Int), NEW b \in Seq(Int),
         NEW insert \in Nat, NEW delete \in Nat, NEW replace \in Nat
  PROVE  GeneralizedLevensteinDistance(a, b, insert, delete, replace)
           = Min({CostOf(m, a, b, insert, delete, replace) : m \in Alignments(a, b)})
<1>1. Len(a) \in Nat /\ Len(b) \in Nat
  BY LenProperties
<1>t. PICK t : t = GeneralizedLevensteinDistance(a, b, insert, delete, replace)
  OBVIOUS
<1>2. IsLeast(t, Len(a), Len(b), a, b, insert, delete, replace)
  BY <1>t, DistanceIsLeast
<1>3. Alignments(a, b) = Alignable(Len(a), Len(b))
  BY DEF Alignments, Alignable
<1>4. \A m : CostOf(m, a, b, insert, delete, replace)
               = PartialCost(m, Len(a), Len(b), a, b, insert, delete, replace)
  BY DEF CostOf, PartialCost, Replaced
<1>C. PICK C : C = {CostOf(m, a, b, insert, delete, replace) : m \in Alignments(a, b)}
  OBVIOUS
<1>5. C \subseteq Int
  <2>1. \A m \in Alignable(Len(a), Len(b)) :
          PartialCost(m, Len(a), Len(b), a, b, insert, delete, replace) \in Int
    BY <1>1, CostSteps
  <2> QED
    BY <1>3, <1>4, <1>C, <2>1
<1>6. t \in C /\ \A x \in C : t <= x
  BY <1>2, <1>3, <1>4, <1>C DEF IsLeast
<1>7. Min(C) = t
  BY <1>5, <1>6, MinIs
<1> QED
  BY <1>7, <1>C, <1>t

\* The property, from the type of the variables.
LEMMA EditDistanceOf == MeterOK => LevensteinIsEditDistance
<1> SUFFICES ASSUME MeterOK, NEW k \in Same(state, goal),
                    NEW insert \in 1 .. 2, NEW delete \in 1 .. 2, NEW replace \in 1 .. 2
             PROVE  GeneralizedLevensteinDistance(state[k], goal[k], insert, delete, replace)
                      = Min({CostOf(m, state[k], goal[k], insert, delete, replace) :
                               m \in Alignments(state[k], goal[k])})
  BY DEF LevensteinIsEditDistance
<1>a. PICK a : a = state[k]
  OBVIOUS
<1>b. PICK b : b = goal[k]
  OBVIOUS
<1>1. a \in Seq(Int) /\ b \in Seq(Int)
  BY <1>a, <1>b, MeterStates, GivenValues DEF Same
<1>2. insert \in Nat /\ delete \in Nat /\ replace \in Nat
  OBVIOUS
<1>3. GeneralizedLevensteinDistance(a, b, insert, delete, replace)
        = Min({CostOf(m, a, b, insert, delete, replace) : m \in Alignments(a, b)})
  BY ONLY <1>1, <1>2, LeastCostOfAnyCosts
<1> QED
  BY <1>3, <1>a, <1>b
-----------------------------------------------------------------------------
(***************************************************************************)
(* The properties of the meters.                                           *)
(***************************************************************************)
\* Whatever values the states hold, what the distances are built on is the edit distance
\* (levensteindistance.h:10).
THEOREM LevensteinIsLeastCost == MeterSpec => []LevensteinIsEditDistance
BY MeterTyped, EditDistanceOf, PTL

\* distance() is NaN, or between zero and one (statevalue.cpp:172) except for the numeric
\* comparer of values with opposite signs (numericstatecomparer.cpp:61), and then at most
\* two, for any integers in the values (planner.cpp:108).
THEOREM StaysWithinUnit == MeterSpec => []WithinUnit
BY MeterTyped, WithinUnitOf, PTL

\* distance() and enough() agree on which states meet the goal, as far as the comparer
\* can tell values apart (numericstatecomparer.h:29, exactstatecomparer.h:29).
THEOREM ZeroExactlyIfEnough == MeterSpec => []ZeroIffEnough
BY MeterTyped, ZeroIffEnoughOf, PTL

\* A step that brings one field to the goal makes the distance less, for each comparer,
\* in any state and for any goal whose fields are alike.
THEOREM ProgressIsAlwaysSeen == MeterSpec => ProgressIsSeen
<1>1. MeterOK /\ [MeterNext]_meterVars => [ProgressStep]_meterVars
  BY ProgressIsSeenOf
<1>2. [][ProgressStep]_meterVars => ProgressIsSeen
  BY PTL DEF ProgressIsSeen, ProgressStep
<1> QED
  BY <1>1, <1>2, MeterTyped, PTL DEF MeterSpec
=============================================================================
