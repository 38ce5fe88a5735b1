-------------------------- MODULE ObjectFactoryProofs --------------------------
(***************************************************************************)
(* Proofs that a singleton is made once and that createAll() serves the    *)
(* keys of its interface and arguments, for any number of threads, keys    *)
(* and classes; and why a call cannot be locked out, or run for ever.      *)
(***************************************************************************)
EXTENDS ObjectFactory, FiniteSetTheorems, SequenceTheorems, TLAPS

Phases == {"found", "running", "nested", "done"}

\* The i-th call of thread t runs the delegate of the singleton class c.
Builds(t, i, c) ==
  /\ i \in 1 .. Len(stack[t])
  /\ Class[stack[t][i].key] = c
  /\ stack[t][i].phase \in {"running", "nested"}

Types ==
  /\ registry \subseteq Keys
  /\ stack \in [Threads -> Seq(Frame)]
  /\ object \in [Classes -> Nat]
  /\ building \in [Classes -> Threads \cup {None}]
  /\ given \in [Classes -> SUBSET Nat]
  /\ all \in [Threads -> Call \cup {None}]

\* Whoever is noted as building a singleton is in its delegate, and nobody else is,
\* nor is anybody when the object exists.
BuilderBuilds ==
  \A c \in Classes : building[c] # None => \E i \in Nat : Builds(building[c], i, c)
BuildsAlone ==
  \A c \in Classes, t \in Threads, i, j \in Nat :
    Builds(t, i, c) => /\ building[c] = t /\ object[c] = 0
                       /\ Builds(t, j, c) => i = j

\* A call that is done with a singleton has an object.
DoneHasObject ==
  \A t \in Threads : \A i \in 1 .. Len(stack[t]) :
    LET c == Class[stack[t][i].key]
    IN  c # None /\ stack[t][i].phase = "done" => object[c] # 0

\* What was given is the object, and nothing is before it exists.
GivenIsObject ==
  \A c \in Classes : given[c] \subseteq IF object[c] = 0 THEN {} ELSE {object[c]}

\* What a createAll() is to serve it has made, is making, or will find when it comes to
\* the key's name.
Current(t) == IF stack[t] = <<>> THEN {} ELSE {stack[t][1].key}
Accounted(t, k) ==
  /\ k[1] = all[t].interface /\ k[3] = all[t].signature
  /\ \/ k \in all[t].made \cup Current(t)
     \/ k[2] \in all[t].left /\ k \in registry
AllAccounted ==
  \A t \in Threads : all[t] # None => \A k \in all[t].kept : Accounted(t, k)

IInv == /\ Types /\ BuilderBuilds /\ BuildsAlone /\ DoneHasObject /\ GivenIsObject
        /\ AllAccounted
-----------------------------------------------------------------------------
(***************************************************************************)
(* The stacks of calls.                                                    *)
(***************************************************************************)
\* Advanced() changes the phase of the innermost call and nothing else.
LEMMA AdvancedFacts ==
  ASSUME Types, NEW t \in Threads, stack[t] # <<>>, NEW p \in Phases
  PROVE  /\ Advanced(t, p) \in Seq(Frame)
         /\ Len(stack[t]) \in Nat \ {0}
         /\ Len(Advanced(t, p)) = Len(stack[t])
         /\ \A i \in 1 .. Len(stack[t]) :
              /\ Advanced(t, p)[i].key = stack[t][i].key
              /\ Advanced(t, p)[i].phase = IF i = Len(stack[t]) THEN p ELSE stack[t][i].phase
<1> DEFINE s == stack[t]
           e == [s[Len(s)] EXCEPT !.phase = p]
<1>1. s \in Seq(Frame) /\ Len(s) \in Nat \ {0}
  BY LenProperties, EmptySeq DEF Types
<1>2. s[Len(s)] \in Frame
  BY <1>1, ElementOfSeq
<1>3. e \in Frame /\ e.key = s[Len(s)].key /\ e.phase = p
  BY <1>2 DEF Frame, Phases
<1>4. Advanced(t, p) = [s EXCEPT ![Len(s)] = e]
  BY DEF Advanced
<1> HIDE DEF e, s
<1>5. /\ [s EXCEPT ![Len(s)] = e] \in Seq(Frame)
      /\ Len([s EXCEPT ![Len(s)] = e]) = Len(s)
      /\ \A j \in 1 .. Len(s) : [s EXCEPT ![Len(s)] = e][j] = IF j = Len(s) THEN e ELSE s[j]
  BY <1>1, <1>3, ExceptSeq
<1> QED
  BY <1>1, <1>3, <1>4, <1>5 DEF s

\* A lookup in the state `calls` leaves those calls and may add one.
LEMMA LookupFacts ==
  ASSUME Types, NEW t \in Threads, NEW k, NEW calls \in Seq(Frame), Lookup(t, k, calls)
  PROVE  /\ stack' \in [Threads -> Seq(Frame)]
         /\ \A u \in Threads \ {t} : stack'[u] = stack[u]
         /\ Len(calls) \in Nat
         /\ Len(stack'[t]) = IF k \notin registry THEN Len(calls) ELSE Len(calls) + 1
         /\ \A i \in 1 .. Len(calls) : stack'[t][i] = calls[i]
         /\ k \in registry => stack'[t][Len(calls) + 1] = [key |-> k, phase |-> "found"]
<1> DEFINE e == [key |-> k, phase |-> "found"]
<1>1. Len(calls) \in Nat
  BY LenProperties
<1>2. CASE k \notin registry
  BY <1>1, <1>2 DEF Lookup, Types
<1>3. CASE k \in registry
  <2>1. e \in Frame
    <3>1. k \in Keys
      BY <1>3 DEF Types
    <3> QED
      BY <3>1 DEF Frame
  <2>2. stack' = [stack EXCEPT ![t] = Append(calls, e)]
    BY <1>3 DEF Lookup
  <2> HIDE DEF e
  <2>3. /\ Append(calls, e) \in Seq(Frame)
        /\ Len(Append(calls, e)) = Len(calls) + 1
        /\ \A i \in 1 .. Len(calls) : Append(calls, e)[i] = calls[i]
        /\ Append(calls, e)[Len(calls) + 1] = e
    BY <2>1, AppendProperties
  <2> QED
    BY <1>1, <1>3, <2>2, <2>3 DEF Types, e
<1> QED
  BY <1>2, <1>3

\* What a return leaves of the stack.
LEMMA PoppedFacts ==
  ASSUME Types, NEW t \in Threads, stack[t] # <<>>
  PROVE  LET s == SubSeq(stack[t], 1, Len(stack[t]) - 1)
         IN  /\ s \in Seq(Frame)
             /\ Len(stack[t]) \in Nat \ {0}
             /\ Len(s) = Len(stack[t]) - 1
             /\ \A i \in 1 .. Len(s) : s[i] = stack[t][i]
<1>1. stack[t] \in Seq(Frame) /\ Len(stack[t]) \in Nat \ {0}
  BY LenProperties, EmptySeq DEF Types
<1>2. \A i \in 1 .. Len(stack[t]) - 1 : stack[t][i] \in Frame
  BY <1>1, ElementOfSeq
<1>3. /\ SubSeq(stack[t], 1, Len(stack[t]) - 1) \in Seq(Frame)
      /\ Len(SubSeq(stack[t], 1, Len(stack[t]) - 1)) =
           IF 1 <= Len(stack[t]) - 1 THEN Len(stack[t]) - 1 - 1 + 1 ELSE 0
      /\ \A i \in 1 .. Len(stack[t]) - 1 - 1 + 1 :
           SubSeq(stack[t], 1, Len(stack[t]) - 1)[i] = stack[t][1 + i - 1]
  BY <1>1, <1>2, SubSeqProperties
<1> QED
  BY <1>1, <1>3
-----------------------------------------------------------------------------
(***************************************************************************)
(* The actions.                                                            *)
(***************************************************************************)
\* A step that begins and ends no delegate keeps the builders.
LEMMA SameBuilders ==
  ASSUME BuilderBuilds, BuildsAlone, UNCHANGED <<object, building>>,
         Types, Types',
         \A t \in Threads, i \in Nat, c \in Classes : Builds(t, i, c)' <=> Builds(t, i, c)
  PROVE  BuilderBuilds' /\ BuildsAlone'
<1>1. ASSUME NEW c \in Classes, building'[c] # None
      PROVE  \E i \in Nat : Builds(building[c], i, c)'
  <2>1. building[c] \in Threads
    BY <1>1 DEF Types
  <2> QED
    BY <1>1, <2>1 DEF BuilderBuilds
<1>2. BuilderBuilds'
  <2>1. building' = building
    OBVIOUS
  <2> QED
    BY <1>1, <2>1 DEF BuilderBuilds, Builds
<1>3. BuildsAlone'
  BY DEF BuildsAlone
<1> QED
  BY <1>2, <1>3

\* A call from outside looks a key up.
LEMMA OutsideLookup ==
  ASSUME IInv, NEW t \in Threads, NEW k, stack[t] = <<>>, Lookup(t, k, <<>>),
         UNCHANGED <<registry, object, building, given>>,
         all' \in [Threads -> Call \cup {None}]
  PROVE  /\ Types' /\ BuilderBuilds' /\ BuildsAlone' /\ DoneHasObject' /\ GivenIsObject'
         /\ \A u \in Threads \ {t} : stack'[u] = stack[u]
         /\ IF k \notin registry THEN stack'[t] = <<>>
                               ELSE stack'[t] # <<>> /\ stack'[t][1].key = k
<1>0. Types /\ <<>> \in Seq(Frame) /\ Len(<<>>) = 0
  BY EmptySeq DEF IInv
<1>1. /\ stack' \in [Threads -> Seq(Frame)]
      /\ \A u \in Threads \ {t} : stack'[u] = stack[u]
      /\ Len(stack'[t]) = IF k \notin registry THEN 0 ELSE 1
      /\ k \in registry => stack'[t][1] = [key |-> k, phase |-> "found"]
  <2>1. /\ stack' \in [Threads -> Seq(Frame)]
        /\ \A u \in Threads \ {t} : stack'[u] = stack[u]
        /\ Len(stack'[t]) = IF k \notin registry THEN Len(<<>>) ELSE Len(<<>>) + 1
        /\ k \in registry => stack'[t][Len(<<>>) + 1] = [key |-> k, phase |-> "found"]
    BY <1>0, LookupFacts
  <2>2. Len(<<>>) + 1 = 1
    BY <1>0
  <2> QED
    BY <1>0, <2>1, <2>2
<1>2. Types'
  BY <1>0, <1>1 DEF Types
<1>3. stack'[t] \in Seq(Frame) /\ Len(stack[t]) = 0
  BY <1>0, <1>1
<1>4. ASSUME NEW u \in Threads, NEW i \in 1 .. Len(stack'[u])
      PROVE  \/ u # t /\ stack'[u] = stack[u] /\ i \in 1 .. Len(stack[u])
             \/ /\ u = t /\ i = 1 /\ k \in registry
                /\ stack'[u][i] = [key |-> k, phase |-> "found"]
  <2>1. CASE u # t
    BY <1>1, <2>1
  <2>2. CASE u = t
    <3>0. i \in 1 .. Len(stack'[t])
      BY <2>2
    <3>1. k \in registry /\ i \in 1 .. 1
      <4>1. CASE k \notin registry
        <5>1. Len(stack'[t]) = 0
          BY <1>1, <4>1
        <5> QED
          BY <3>0, <5>1
      <4>2. CASE k \in registry
        <5>1. Len(stack'[t]) = 1
          BY <1>1, <4>2
        <5> QED
          BY <3>0, <4>2, <5>1
      <4> QED
        BY <4>1, <4>2
    <3> QED
      BY <1>1, <2>2, <3>1
  <2> QED
    BY <2>1, <2>2
<1>5. \A u \in Threads, i \in Nat, c \in Classes : Builds(u, i, c)' <=> Builds(u, i, c)
  BY <1>1, <1>3, <1>4 DEF Builds
<1>6. BuilderBuilds' /\ BuildsAlone'
  BY <1>0, <1>2, <1>5, SameBuilders DEF IInv
<1>7. DoneHasObject'
  BY <1>4 DEF IInv, DoneHasObject
<1>8. GivenIsObject'
  BY DEF IInv, GivenIsObject
<1>9. IF k \notin registry THEN stack'[t] = <<>> ELSE stack'[t] # <<>> /\ stack'[t][1].key = k
  BY <1>1, <1>3, EmptySeq
<1> QED
  BY <1>1, <1>2, <1>6, <1>7, <1>8, <1>9

\* A key is its interface, its name and its signature.
LEMMA KeyParts ==
  ASSUME NEW k \in Keys
  PROVE  k[1] \in Interfaces /\ k[2] \in Names /\ k[3] \in Signatures /\ k = <<k[1], k[2], k[3]>>
BY KeysAssumption

\* What each update of a createAll() call changes, and what it leaves.
LEMMA CallFields ==
  ASSUME NEW r \in Call
  PROVE  /\ r.left \subseteq Names /\ r.made \subseteq Keys /\ r.kept \subseteq Keys
         /\ \A n : LET q == [r EXCEPT !.left = @ \ {n}]
                   IN  /\ q \in Call /\ q.left = r.left \ {n}
                       /\ q.interface = r.interface /\ q.signature = r.signature
                       /\ q.made = r.made /\ q.kept = r.kept
         /\ \A k \in Keys : LET q == [r EXCEPT !.made = @ \cup {k}]
                            IN  /\ q \in Call /\ q.made = r.made \cup {k}
                                /\ q.interface = r.interface /\ q.signature = r.signature
                                /\ q.left = r.left /\ q.kept = r.kept
         /\ LET q == [r EXCEPT !.kept = {k \in @ : k[2] \notin r.left}]
            IN  /\ q \in Call /\ q.kept = {k \in r.kept : k[2] \notin r.left}
                /\ q.interface = r.interface /\ q.signature = r.signature
                /\ q.left = r.left /\ q.made = r.made
BY DEF Call

\* create() from outside.
LEMMA CreateIInv ==
  ASSUME IInv, NEW t \in Threads, NEW k \in Keys, Create(t, k)
  PROVE  IInv'
<1>1. /\ stack[t] = <<>> /\ all[t] = None /\ Lookup(t, k, <<>>)
      /\ UNCHANGED <<registry, object, building, given, all>>
  BY DEF Create
<1>2. /\ Types' /\ BuilderBuilds' /\ BuildsAlone' /\ DoneHasObject' /\ GivenIsObject'
      /\ \A u \in Threads \ {t} : stack'[u] = stack[u]
  BY <1>1, OutsideLookup DEF IInv, Types
<1>3. AllAccounted'
  BY <1>1, <1>2 DEF IInv, AllAccounted, Accounted, Current
<1> QED
  BY <1>2, <1>3 DEF IInv

\* createAll() goes on to its next name: what it is to serve under it is inscribed.
LEMMA NextKeyIInv == ASSUME IInv, NEW t \in Threads, NextKey(t) PROVE IInv'
<1> DEFINE r == all[t]
<1>1. PICK n \in r.left :
        /\ stack[t] = <<>> /\ r # None /\ Lookup(t, <<r.interface, n, r.signature>>, <<>>)
        /\ all' = [all EXCEPT ![t].left = @ \ {n}]
        /\ UNCHANGED <<registry, object, building, given>>
  BY DEF NextKey
<1> DEFINE q == [r EXCEPT !.left = @ \ {n}]
           k == <<r.interface, n, r.signature>>
<1>2. all \in [Threads -> Call \cup {None}] /\ r \in Call
  BY <1>1 DEF IInv, Types
<1>3. /\ q \in Call /\ q.left = r.left \ {n} /\ q.kept = r.kept /\ q.made = r.made
      /\ q.interface = r.interface /\ q.signature = r.signature
  BY <1>2, CallFields
<1>4. all' = [all EXCEPT ![t] = q]
  BY <1>1
<1> HIDE DEF q
<1>5. all' \in [Threads -> Call \cup {None}]
  BY <1>2, <1>3, <1>4
<1>6. /\ Types' /\ BuilderBuilds' /\ BuildsAlone' /\ DoneHasObject' /\ GivenIsObject'
      /\ \A u \in Threads \ {t} : stack'[u] = stack[u]
      /\ IF k \notin registry THEN stack'[t] = <<>> ELSE stack'[t] # <<>> /\ stack'[t][1].key = k
  <2> HIDE DEF k
  <2>1. Lookup(t, k, <<>>)
    BY <1>1 DEF k
  <2> QED
    BY <1>1, <1>5, <2>1, OutsideLookup
<1>7. AllAccounted'
  <2> SUFFICES ASSUME NEW u \in Threads, all'[u] # None, NEW j \in all'[u].kept
               PROVE  Accounted(u, j)'
    BY DEF AllAccounted
  <2>1. CASE u # t
    <3>1. all'[u] = all[u] /\ stack'[u] = stack[u]
      BY <1>2, <1>4, <1>6, <2>1
    <3> QED
      BY <1>1, <3>1 DEF IInv, AllAccounted, Accounted, Current
  <2>2. CASE u = t
    <3>1. all'[t] = q
      BY <1>2, <1>4
    <3>2. j \in r.kept /\ j \in Keys
      BY <1>2, <1>3, <2>2, <3>1, CallFields
    <3>3. /\ j[1] = r.interface /\ j[3] = r.signature
          /\ j \in r.made \/ (j[2] \in r.left /\ j \in registry)
      BY <1>1, <3>2 DEF IInv, AllAccounted, Accounted, Current
    <3>4. CASE j[2] = n /\ j \in registry
      <4>1. j = k
        BY <3>2, <3>3, <3>4, KeyParts
      <4>2. Current(t)' = {j}
        BY <1>6, <3>4, <4>1 DEF Current
      <4> QED
        BY <1>3, <2>2, <3>1, <3>3, <4>2 DEF Accounted
    <3>5. CASE ~(j[2] = n /\ j \in registry)
      BY <1>1, <1>3, <2>2, <3>1, <3>3, <3>5 DEF Accounted
    <3> QED
      BY <3>4, <3>5
  <2> QED
    BY <2>1, <2>2
<1> QED
  BY <1>6, <1>7 DEF IInv

\* The beginning and the end of createAll().
LEMMA CreateAllIInv ==
  ASSUME IInv, NEW t \in Threads,
         AllReturns(t) \/ \E i \in Interfaces, g \in Signatures : CreateAll(t, i, g)
  PROVE  IInv'
<1>1. /\ stack[t] = <<>> /\ UNCHANGED <<registry, stack, object, building, given>>
      /\ \E q \in Call \cup {None} :
           /\ all' = [all EXCEPT ![t] = q]
           /\ q # None => \A k \in q.kept : /\ k[1] = q.interface /\ k[3] = q.signature
                                            /\ k[2] \in q.left /\ k \in registry
  <2>1. CASE AllReturns(t)
    BY <2>1 DEF AllReturns
  <2>2. ASSUME NEW i \in Interfaces, NEW g \in Signatures, CreateAll(t, i, g)
        PROVE  <1>1!1 /\ <1>1!2
    <3> DEFINE left == {k[2] : k \in {j \in registry : j[1] = i}}
               kept == {k \in registry : k[1] = i /\ k[3] = g}
               q    == [interface |-> i, signature |-> g, left |-> left, made |-> {},
                        kept |-> kept]
    <3>1. registry \subseteq Keys
      BY DEF IInv, Types
    <3>2. left \subseteq Names /\ kept \subseteq Keys
      BY <3>1, KeyParts
    <3>3. \A k \in kept : k[1] = i /\ k[3] = g /\ k[2] \in left /\ k \in registry
      OBVIOUS
    <3>4. /\ stack[t] = <<>> /\ UNCHANGED <<registry, stack, object, building, given>>
          /\ all' = [all EXCEPT ![t] = q]
      BY <2>2 DEF CreateAll
    <3> HIDE DEF left, kept
    <3>5. /\ q \in Call /\ q.left = left /\ q.kept = kept
          /\ q.interface = i /\ q.signature = g
      BY <3>2 DEF Call
    <3> HIDE DEF q
    <3> QED
      BY <3>3, <3>4, <3>5
  <2> QED
    BY <2>1, <2>2
<1>2. PICK q \in Call \cup {None} :
        /\ all' = [all EXCEPT ![t] = q]
        /\ q # None => \A k \in q.kept : /\ k[1] = q.interface /\ k[3] = q.signature
                                         /\ k[2] \in q.left /\ k \in registry
  BY <1>1
<1>3. Types'
  BY <1>1, <1>2 DEF IInv, Types
<1>4. BuilderBuilds' /\ BuildsAlone' /\ DoneHasObject' /\ GivenIsObject'
  BY <1>1, SMTT(30) DEF IInv, BuilderBuilds, BuildsAlone, Builds, DoneHasObject, GivenIsObject
<1>5. AllAccounted'
  <2> SUFFICES ASSUME NEW u \in Threads, all'[u] # None, NEW k \in all'[u].kept
               PROVE  Accounted(u, k)'
    BY DEF AllAccounted
  <2>1. CASE u # t
    <3>1. all'[u] = all[u] /\ stack' = stack /\ registry' = registry
      BY <1>1, <1>2, <2>1 DEF IInv, Types
    <3> QED
      BY <3>1 DEF IInv, AllAccounted, Accounted, Current
  <2>2. CASE u = t
    <3>1. all'[t] = q /\ registry' = registry
      BY <1>1, <1>2 DEF IInv, Types
    <3> QED
      BY <1>2, <2>2, <3>1 DEF Accounted
  <2> QED
    BY <2>1, <2>2
<1> QED
  BY <1>3, <1>4, <1>5 DEF IInv

\* The innermost call of t has got phase p, and nothing else of the stacks has changed.
Moved(t, p) ==
  /\ stack' \in [Threads -> Seq(Frame)]
  /\ \A u \in Threads : Len(stack'[u]) = Len(stack[u])
  /\ \A u \in Threads : \A i \in 1 .. Len(stack[u]) :
       /\ stack'[u][i].key = stack[u][i].key
       /\ u = t /\ i = Len(stack[u]) => stack'[u][i].phase = p
       /\ ~(u = t /\ i = Len(stack[u])) => stack'[u][i].phase = stack[u][i].phase

\* The innermost call of t gets phase p.
LEMMA AdvanceStep ==
  ASSUME IInv, NEW t \in Threads, stack[t] # <<>>, NEW p \in Phases,
         stack' = [stack EXCEPT ![t] = Advanced(t, p)],
         UNCHANGED <<registry, all>>
  PROVE  Moved(t, p) /\ AllAccounted'
<1>1. Types
  BY DEF IInv
<1>2. /\ Advanced(t, p) \in Seq(Frame)
      /\ Len(stack[t]) \in Nat \ {0}
      /\ Len(Advanced(t, p)) = Len(stack[t])
      /\ \A i \in 1 .. Len(stack[t]) :
           /\ Advanced(t, p)[i].key = stack[t][i].key
           /\ Advanced(t, p)[i].phase = IF i = Len(stack[t]) THEN p ELSE stack[t][i].phase
  BY <1>1, AdvancedFacts
<1>3. /\ stack' \in [Threads -> Seq(Frame)]
      /\ stack'[t] = Advanced(t, p)
      /\ \A u \in Threads \ {t} : stack'[u] = stack[u]
  BY <1>1, <1>2 DEF Types
<1>4. /\ \A u \in Threads : Len(stack'[u]) = Len(stack[u])
      /\ \A u \in Threads : \A i \in 1 .. Len(stack[u]) :
           /\ stack'[u][i].key = stack[u][i].key
           /\ stack'[u][i].phase = IF u = t /\ i = Len(stack[u]) THEN p ELSE stack[u][i].phase
  BY <1>2, <1>3
<1>5. \A u \in Threads : Current(u)' = Current(u)
  <2> SUFFICES ASSUME NEW u \in Threads PROVE Current(u)' = Current(u)
    OBVIOUS
  <2>1. CASE u # t
    BY <1>3, <2>1 DEF Current
  <2>2. CASE u = t
    <3>1. stack'[t] # <<>>
      BY <1>2, <1>3, EmptySeq
    <3>2. 1 \in 1 .. Len(stack[t])
      BY <1>2
    <3>3. stack'[t][1].key = stack[t][1].key
      BY <1>4, <3>2
    <3> QED
      BY <2>2, <3>1, <3>3 DEF Current
  <2> QED
    BY <2>1, <2>2
<1>6. AllAccounted'
  BY <1>5 DEF IInv, AllAccounted, Accounted
<1>7. Moved(t, p)
  BY <1>2, <1>3, <1>4 DEF Moved
<1> QED
  BY <1>6, <1>7

\* What At(t, p) says.
LEMMA AtTop ==
  ASSUME Types, NEW t \in Threads, NEW p, At(t, p)
  PROVE  /\ stack[t] # <<>> /\ Len(stack[t]) \in Nat \ {0}
         /\ Len(stack[t]) \in 1 .. Len(stack[t])
         /\ Top(t) = stack[t][Len(stack[t])] /\ Top(t) \in Frame
         /\ Top(t).phase = p /\ Top(t).key \in Keys
<1>1. stack[t] \in Seq(Frame) /\ stack[t] # <<>> /\ Top(t).phase = p
  BY DEF Types, At
<1>2. Len(stack[t]) \in Nat \ {0}
  BY <1>1, EmptySeq
<1>3. Top(t) \in Frame
  BY <1>1, <1>2, ElementOfSeq DEF Top
<1> QED
  BY <1>1, <1>2, <1>3 DEF Top, Frame

\* getInstance(): the delegate begins, or the singleton is there.
LEMMA EnterIInv == ASSUME IInv, NEW t \in Threads, Enter(t) PROVE IInv'
<1> DEFINE c == Class[Top(t).key]
<1>0. Types /\ At(t, "found") /\ UNCHANGED <<registry, object, given, all>>
  BY DEF IInv, Enter
<1>1. /\ stack[t] # <<>> /\ Len(stack[t]) \in Nat \ {0}
      /\ Len(stack[t]) \in 1 .. Len(stack[t])
      /\ Top(t) = stack[t][Len(stack[t])] /\ Top(t).phase = "found" /\ Top(t).key \in Keys
  BY <1>0, AtTop
<1>2. c \in Classes \cup {None} /\ None \notin Classes \cup Threads
  BY <1>1, ClassAssumption
<1>3. GivenIsObject'
  BY <1>0 DEF IInv, GivenIsObject
<1>4. CASE c # None /\ object[c] # 0
  <2>1. stack' = [stack EXCEPT ![t] = Advanced(t, "done")] /\ UNCHANGED building
    BY <1>4 DEF Enter
  <2>2. Moved(t, "done") /\ AllAccounted'
    <3>1. "done" \in Phases
      BY DEF Phases
    <3> QED
      BY <1>0, <1>1, <2>1, <3>1, AdvanceStep
  <2>3. Types'
    BY <1>0, <2>1, <2>2 DEF Types, Moved
  <2>4. \A u \in Threads, i \in Nat, d \in Classes : Builds(u, i, d)' <=> Builds(u, i, d)
    BY <1>1, <2>2 DEF Builds, Moved
  <2>5. BuilderBuilds' /\ BuildsAlone'
    BY <1>0, <2>1, <2>3, <2>4, SameBuilders DEF IInv
  <2>6. DoneHasObject'
    BY <1>0, <1>1, <1>4, <2>2 DEF IInv, DoneHasObject, Moved
  <2> QED
    BY <1>3, <2>2, <2>3, <2>5, <2>6 DEF IInv
<1>5. CASE ~(c # None /\ object[c] # 0)
  <2>1. /\ stack' = [stack EXCEPT ![t] = Advanced(t, "running")]
        /\ c # None => building[c] = None
        /\ building' = IF c = None THEN building ELSE [building EXCEPT ![c] = t]
    BY <1>5 DEF Enter
  <2>2. Moved(t, "running") /\ AllAccounted'
    <3>1. "running" \in Phases
      BY DEF Phases
    <3> QED
      BY <1>0, <1>1, <2>1, <3>1, AdvanceStep
  <2>3. Types'
    BY <1>0, <1>2, <2>1, <2>2 DEF Types, Moved
  <2>4. DoneHasObject'
    BY <1>0, <2>2, SMTT(30) DEF IInv, DoneHasObject, Moved
  <2>5. \A u \in Threads, i \in Nat, d \in Classes :
          Builds(u, i, d)' <=> Builds(u, i, d) \/ (u = t /\ i = Len(stack[t]) /\ d = c)
    <3> SUFFICES ASSUME NEW u \in Threads, NEW i \in Nat, NEW d \in Classes
                 PROVE  Builds(u, i, d)' <=>
                          Builds(u, i, d) \/ (u = t /\ i = Len(stack[t]) /\ d = c)
      OBVIOUS
    <3>1. Builds(u, i, d)' <=>
            /\ i \in 1 .. Len(stack[u]) /\ Class[stack[u][i].key] = d
            /\ (u = t /\ i = Len(stack[u])) \/ stack[u][i].phase \in {"running", "nested"}
      BY <2>2 DEF Builds, Moved
    <3>2. CASE u = t /\ i = Len(stack[t])
      <4>1. stack[u][i] = Top(t) /\ i \in 1 .. Len(stack[u])
        BY <1>1, <3>2
      <4>2. ~ Builds(u, i, d)
        BY <1>1, <4>1 DEF Builds
      <4>3. Builds(u, i, d)' <=> c = d
        BY <3>1, <3>2, <4>1
      <4> QED
        BY <3>2, <4>2, <4>3
    <3>3. CASE ~(u = t /\ i = Len(stack[t]))
      <4>1. ~(u = t /\ i = Len(stack[u]))
        BY <3>3
      <4>2. Builds(u, i, d)' <=> Builds(u, i, d)
        BY <3>1, <4>1 DEF Builds
      <4> QED
        BY <3>3, <4>2
    <3> QED
      BY <3>2, <3>3
  <2>6. ASSUME NEW d \in Classes, d # c
        PROVE  building'[d] = building[d]
    BY <1>0, <2>1, <2>6 DEF Types
  <2>7. ASSUME c \in Classes
        PROVE  /\ building'[c] = t /\ object[c] = 0
               /\ \A u \in Threads, i \in Nat : ~ Builds(u, i, c)
    BY <1>0, <1>2, <1>5, <2>1, <2>7 DEF Types, IInv, BuildsAlone
  <2>8. BuilderBuilds'
    <3> SUFFICES ASSUME NEW d \in Classes, building'[d] # None
                 PROVE  \E i \in Nat : Builds(building[d], i, d)'
      BY DEF BuilderBuilds
    <3>0. building'[d] \in Threads
      BY <2>3 DEF Types
    <3>1. CASE d = c
      <4>1. building'[d] = t
        BY <2>7, <3>1
      <4>2. PICK i \in Nat : i = Len(stack[t])
        BY <1>1
      <4>3. Builds(t, i, d)'
        BY <2>5, <3>1, <4>2
      <4> QED
        BY <4>1, <4>3 DEF Builds
    <3>2. CASE d # c
      <4>1. building'[d] = building[d]
        BY <2>6, <3>2
      <4>2. PICK i \in Nat : Builds(building[d], i, d)
        BY <4>1 DEF IInv, BuilderBuilds
      <4> QED
        BY <2>2, <3>0, <4>1, <4>2 DEF Builds, Moved
    <3> QED
      BY <3>1, <3>2
  <2>9. BuildsAlone'
    <3> SUFFICES ASSUME NEW d \in Classes, NEW u \in Threads, NEW i \in Nat, NEW j \in Nat,
                        Builds(u, i, d)'
                 PROVE  /\ building'[d] = u /\ object'[d] = 0
                        /\ Builds(u, j, d)' => i = j
      BY DEF BuildsAlone
    <3>1. CASE d = c
      BY <1>0, <2>5, <2>7, <3>1
    <3>2. CASE d # c
      BY <1>0, <2>5, <2>6, <3>2 DEF IInv, BuildsAlone
    <3> QED
      BY <3>1, <3>2
  <2> QED
    BY <1>3, <2>2, <2>3, <2>4, <2>8, <2>9 DEF IInv
<1> QED
  BY <1>4, <1>5

\* A delegate calls create() itself.
LEMMA NeedIInv == ASSUME IInv, NEW t \in Threads, Need(t) PROVE IInv'
<1> DEFINE k == Needs[Top(t).key]
           calls == Advanced(t, "nested")
<1>0. /\ Types /\ At(t, "running") /\ k # None /\ Lookup(t, k, calls)
      /\ UNCHANGED <<registry, object, building, given, all>>
  BY DEF IInv, Need
<1>1. /\ stack[t] # <<>> /\ Len(stack[t]) \in Nat \ {0}
      /\ Len(stack[t]) \in 1 .. Len(stack[t])
      /\ Top(t) = stack[t][Len(stack[t])] /\ Top(t).phase = "running" /\ Top(t).key \in Keys
  BY <1>0, AtTop
<1>2. k \in Keys
  BY <1>0, <1>1, NeedsAssumption
<1>3. PICK p \in Phases : p = "nested"
  BY DEF Phases
<1>4. /\ calls \in Seq(Frame) /\ Len(calls) = Len(stack[t])
      /\ \A i \in 1 .. Len(stack[t]) :
           /\ calls[i].key = stack[t][i].key
           /\ calls[i].phase = IF i = Len(stack[t]) THEN "nested" ELSE stack[t][i].phase
  BY <1>0, <1>1, <1>3, AdvancedFacts
<1> HIDE DEF calls, k
<1>5. /\ stack' \in [Threads -> Seq(Frame)]
      /\ \A u \in Threads \ {t} : stack'[u] = stack[u]
      /\ Len(stack'[t]) = IF k \notin registry THEN Len(calls) ELSE Len(calls) + 1
      /\ \A i \in 1 .. Len(calls) : stack'[t][i] = calls[i]
      /\ k \in registry => stack'[t][Len(calls) + 1] = [key |-> k, phase |-> "found"]
  BY <1>0, <1>2, <1>4, LookupFacts
\* Each call afterwards: one of before, or the new one.
<1>6. ASSUME NEW u \in Threads, NEW i \in 1 .. Len(stack'[u])
      PROVE  \/ /\ i \in 1 .. Len(stack[u])
                /\ stack'[u][i].key = stack[u][i].key
                /\ \/ stack'[u][i].phase = stack[u][i].phase
                   \/ stack[u][i].phase = "running" /\ stack'[u][i].phase = "nested"
             \/ /\ i \notin 1 .. Len(stack[u]) /\ k \in registry
                /\ stack'[u][i] = [key |-> k, phase |-> "found"]
  <2>1. CASE u # t
    BY <1>5, <2>1
  <2>2. CASE u = t /\ i \in 1 .. Len(stack[t])
    <3>1. stack'[u][i] = calls[i]
      BY <1>4, <1>5, <2>2
    <3> QED
      BY <1>1, <1>4, <2>2, <3>1
  <2>3. CASE u = t /\ i \notin 1 .. Len(stack[t])
    <3>1. k \in registry
      BY <1>4, <1>5, <2>3
    <3>2. i = Len(calls) + 1
      BY <1>1, <1>4, <1>5, <2>3, <3>1
    <3> QED
      BY <1>5, <2>3, <3>1, <3>2
  <2> QED
    BY <2>1, <2>2, <2>3
<1>7. ASSUME NEW u \in Threads, NEW i \in 1 .. Len(stack[u])
      PROVE  i \in 1 .. Len(stack'[u])
  BY <1>1, <1>4, <1>5
<1>8. Types'
  BY <1>0, <1>5 DEF Types
<1>9. \A u \in Threads, i \in Nat, d \in Classes : Builds(u, i, d)' <=> Builds(u, i, d)
  BY <1>6, <1>7 DEF Builds
<1>10. BuilderBuilds' /\ BuildsAlone'
  BY <1>0, <1>8, <1>9, SameBuilders DEF IInv
<1>11. DoneHasObject'
  BY <1>0, <1>6 DEF IInv, DoneHasObject
<1>12. GivenIsObject'
  BY <1>0 DEF IInv, GivenIsObject
<1>13. AllAccounted'
  <2>1. \A u \in Threads : Current(u)' = Current(u)
    <3> SUFFICES ASSUME NEW u \in Threads PROVE Current(u)' = Current(u)
      OBVIOUS
    <3>1. CASE u # t
      BY <1>5, <3>1 DEF Current
    <3>2. CASE u = t
      <4>1. 1 \in 1 .. Len(stack[t]) /\ 1 \in 1 .. Len(stack'[t])
        BY <1>1, <1>7
      <4>2. stack'[t][1].key = stack[t][1].key
        BY <1>6, <4>1
      <4>3. stack'[t] # <<>>
        BY <1>5, <4>1, EmptySeq
      <4> QED
        BY <1>1, <3>2, <4>2, <4>3 DEF Current
    <3> QED
      BY <3>1, <3>2
  <2> QED
    BY <1>0, <2>1 DEF IInv, AllAccounted, Accounted
<1> QED
  BY <1>8, <1>10, <1>11, <1>12, <1>13 DEF IInv

\* The delegate returns, with the only object of a singleton if it makes one.
LEMMA ConstructIInv == ASSUME IInv, NEW t \in Threads, Construct(t) PROVE IInv'
<1> DEFINE c == Class[Top(t).key]
<1>0. /\ At(t, "running") \/ At(t, "nested")
      /\ stack' = [stack EXCEPT ![t] = Advanced(t, "done")]
      /\ UNCHANGED <<registry, given, all>>
  BY DEF Construct
<1>a. c = None => UNCHANGED <<object, building>>
  BY DEF Construct
<1>b. c # None => /\ object' = [object EXCEPT ![c] = Cardinality(given[c]) + 1]
                 /\ building' = [building EXCEPT ![c] = None]
  BY DEF Construct
<1>c. Types
  BY DEF IInv
<1>1. /\ stack[t] # <<>> /\ Len(stack[t]) \in Nat \ {0}
      /\ Len(stack[t]) \in 1 .. Len(stack[t])
      /\ Top(t) = stack[t][Len(stack[t])] /\ Top(t).key \in Keys
      /\ Top(t).phase \in {"running", "nested"}
  BY <1>0, <1>c, AtTop
<1>2. c \in Classes \cup {None} /\ None \notin Classes \cup Threads
  BY <1>1, ClassAssumption
<1>3. Moved(t, "done") /\ AllAccounted'
  <2>1. "done" \in Phases
    BY DEF Phases
  <2> QED
    BY <1>0, <1>1, <2>1, AdvanceStep
<1>4. PICK n \in Nat : n = Len(stack[t])
  BY <1>1
<1>5. c \in Classes => Builds(t, n, c)
  BY <1>1, <1>4 DEF Builds
<1>6. ASSUME c \in Classes
      PROVE  /\ object[c] = 0 /\ given[c] = {} /\ object'[c] = 1
             /\ building[c] = t /\ building'[c] = None
             /\ \A u \in Threads, i \in Nat : Builds(u, i, c) => u = t /\ i = n
  <2>1. object[c] = 0 /\ building[c] = t
    BY <1>4, <1>5, <1>6 DEF IInv, BuildsAlone
  <2>2. given[c] = {}
    BY <1>6, <2>1 DEF IInv, GivenIsObject
  <2>3. Cardinality(given[c]) = 0
    BY <2>2, FS_EmptySet
  <2>4. object'[c] = 1
    BY <1>2, <1>6, <1>b, <1>c, <2>3 DEF Types
  <2>5. building'[c] = None
    BY <1>2, <1>6, <1>b, <1>c DEF Types
  <2>6. \A u \in Threads, i \in Nat : Builds(u, i, c) => u = t
    BY <1>2, <1>6, <2>1 DEF IInv, BuildsAlone
  <2>7. \A i \in Nat : Builds(t, i, c) => i = n
    BY <1>4, <1>5, <1>6 DEF IInv, BuildsAlone
  <2> QED
    BY <2>1, <2>2, <2>4, <2>5, <2>6, <2>7
<1>7. \A d \in Classes : d # c => object'[d] = object[d] /\ building'[d] = building[d]
  <2>1. CASE c = None
    BY <1>a, <2>1
  <2>2. CASE c # None
    BY <1>b, <1>c, <2>2 DEF Types
  <2> QED
    BY <2>1, <2>2
<1>8. Types'
  <2>1. CASE c = None
    BY <1>0, <1>3, <1>a, <1>c, <2>1 DEF Types, Moved
  <2>2. CASE c \in Classes
    <3>1. Cardinality(given[c]) = 0
      BY <1>6, <2>2, FS_EmptySet
    <3>2. object' \in [Classes -> Nat]
      <4>1. Cardinality(given[c]) + 1 \in Nat
        BY <3>1
      <4> QED
        BY <1>2, <1>b, <1>c, <2>2, <4>1 DEF Types
    <3>3. building' \in [Classes -> Threads \cup {None}]
      BY <1>2, <1>b, <1>c, <2>2 DEF Types
    <3> QED
      BY <1>0, <1>3, <1>c, <3>2, <3>3 DEF Types, Moved
  <2> QED
    BY <1>2, <2>1, <2>2
<1>9. ASSUME NEW u \in Threads, NEW i \in Nat, NEW d \in Classes
      PROVE  Builds(u, i, d)' <=> Builds(u, i, d) /\ ~(u = t /\ i = n)
  <2>1. Builds(u, i, d)' <=>
          /\ i \in 1 .. Len(stack[u]) /\ Class[stack[u][i].key] = d
          /\ stack[u][i].phase \in {"running", "nested"} /\ ~(u = t /\ i = n)
    BY <1>3, <1>4 DEF Builds, Moved
  <2> QED
    BY <2>1 DEF Builds
<1>10. BuilderBuilds'
  <2> SUFFICES ASSUME NEW d \in Classes, building'[d] # None
               PROVE  \E i \in Nat : Builds(building[d], i, d)'
    BY DEF BuilderBuilds
  <2>1. d # c
    BY <1>6
  <2>2. building'[d] = building[d] /\ building[d] \in Threads
    BY <1>7, <1>c, <2>1 DEF Types
  <2>3. PICK i \in Nat : Builds(building[d], i, d)
    BY <2>2 DEF IInv, BuilderBuilds
  <2>4. ~(building[d] = t /\ i = n)
    BY <1>1, <1>4, <2>1, <2>3 DEF Builds
  <2>5. PICK u \in Threads : u = building[d]
    BY <2>2
  <2>6. Builds(u, i, d)'
    BY <1>9, <2>3, <2>4, <2>5
  <2> QED
    BY <2>2, <2>5, <2>6 DEF Builds
<1>11. BuildsAlone'
  <2> SUFFICES ASSUME NEW d \in Classes, NEW u \in Threads, NEW i \in Nat, NEW j \in Nat,
                      Builds(u, i, d)'
               PROVE  /\ building'[d] = u /\ object'[d] = 0
                      /\ Builds(u, j, d)' => i = j
    BY DEF BuildsAlone
  <2>1. d # c
    BY <1>6, <1>9
  <2> QED
    BY <1>7, <1>9, <2>1 DEF IInv, BuildsAlone
<1>12. DoneHasObject'
  <2> SUFFICES ASSUME NEW u \in Threads, NEW i \in 1 .. Len(stack[u]),
                      Class[stack[u][i].key] # None, stack'[u][i].phase = "done"
               PROVE  object'[Class[stack[u][i].key]] # 0
    BY <1>3 DEF DoneHasObject, Moved
  <2> DEFINE d == Class[stack[u][i].key]
  <2>1. d \in Classes
    <3>1. stack[u][i].key \in Keys
      <4>1. stack[u] \in Seq(Frame)
        BY <1>c DEF Types
      <4>2. stack[u][i] \in Frame
        BY <4>1, ElementOfSeq
      <4> QED
        BY <4>2 DEF Frame
    <3> QED
      BY <3>1, ClassAssumption
  <2>2. CASE d = c
    BY <1>6, <2>1, <2>2
  <2>3. CASE d # c
    <3>1. ~(u = t /\ i = Len(stack[u]))
      BY <1>1, <2>3
    <3>2. stack[u][i].phase = "done"
      BY <1>3, <3>1 DEF Moved
    <3> QED
      BY <1>7, <2>1, <2>3, <3>2 DEF IInv, DoneHasObject
  <2> QED
    BY <2>2, <2>3
<1>13. GivenIsObject'
  <2> SUFFICES ASSUME NEW d \in Classes
               PROVE  given[d] \subseteq IF object'[d] = 0 THEN {} ELSE {object'[d]}
    BY <1>0 DEF GivenIsObject
  <2>1. CASE d = c
    BY <1>6, <2>1
  <2>2. CASE d # c
    BY <1>7, <2>2 DEF IInv, GivenIsObject
  <2> QED
    BY <2>1, <2>2
<1> QED
  BY <1>3, <1>8, <1>10, <1>11, <1>12, <1>13 DEF IInv

\* create() returns what it got.
LEMMA ReturnIInv == ASSUME IInv, NEW t \in Threads, Return(t) PROVE IInv'
<1> DEFINE k == Top(t).key
           c == Class[k]
           s == SubSeq(stack[t], 1, Len(stack[t]) - 1)
<1>0. /\ Types /\ At(t, "done")
      /\ stack' = [stack EXCEPT ![t] = s]
      /\ given' = IF c = None THEN given ELSE [given EXCEPT ![c] = @ \cup {object[c]}]
      /\ all' = IF Len(stack[t]) > 1 \/ all[t] = None THEN all
                ELSE [all EXCEPT ![t].made = @ \cup {k}]
      /\ UNCHANGED <<registry, object, building>>
  BY DEF IInv, Return
<1>1. /\ stack[t] # <<>> /\ Len(stack[t]) \in Nat \ {0}
      /\ Len(stack[t]) \in 1 .. Len(stack[t])
      /\ Top(t) = stack[t][Len(stack[t])] /\ Top(t).key \in Keys /\ Top(t).phase = "done"
  BY <1>0, AtTop
<1>2. c \in Classes \cup {None} /\ None \notin Classes \cup Threads
  BY <1>1, ClassAssumption
<1>3. /\ s \in Seq(Frame) /\ Len(s) = Len(stack[t]) - 1
      /\ \A i \in 1 .. Len(s) : s[i] = stack[t][i]
  BY <1>0, <1>1, PoppedFacts
<1> HIDE DEF s
<1>4. /\ stack' \in [Threads -> Seq(Frame)] /\ stack'[t] = s
      /\ \A u \in Threads \ {t} : stack'[u] = stack[u]
  BY <1>0, <1>3 DEF Types
<1>5. ASSUME NEW u \in Threads, NEW i \in 1 .. Len(stack'[u])
      PROVE  i \in 1 .. Len(stack[u]) /\ stack'[u][i] = stack[u][i]
  BY <1>1, <1>3, <1>4
<1>6. \A u \in Threads : \A i \in 1 .. Len(stack[u]) :
        ~(u = t /\ i = Len(stack[t])) => i \in 1 .. Len(stack'[u])
  BY <1>1, <1>3, <1>4
<1>7. all' \in [Threads -> Call \cup {None}]
  <2>1. CASE Len(stack[t]) > 1 \/ all[t] = None
    BY <1>0, <2>1 DEF Types
  <2>2. CASE ~(Len(stack[t]) > 1 \/ all[t] = None)
    <3> DEFINE q == [all[t] EXCEPT !.made = @ \cup {k}]
    <3>1. all[t] \in Call
      BY <1>0, <2>2 DEF Types
    <3>2. q \in Call
      BY <1>1, <3>1, CallFields
    <3>3. all' = [all EXCEPT ![t] = q]
      BY <1>0, <2>2
    <3> HIDE DEF q
    <3> QED
      BY <1>0, <3>2, <3>3 DEF Types
  <2> QED
    BY <2>1, <2>2
<1>8. c \in Classes => object[c] # 0 /\ object[c] \in Nat
  BY <1>0, <1>1, <1>2 DEF IInv, DoneHasObject, Types
<1>9. given' \in [Classes -> SUBSET Nat]
  BY <1>0, <1>2, <1>8 DEF Types
<1>10. Types'
  BY <1>0, <1>4, <1>7, <1>9 DEF Types
<1>11. \A u \in Threads, i \in Nat, d \in Classes : Builds(u, i, d)' <=> Builds(u, i, d)
  <2> SUFFICES ASSUME NEW u \in Threads, NEW i \in Nat, NEW d \in Classes
               PROVE  Builds(u, i, d)' <=> Builds(u, i, d)
    OBVIOUS
  <2>1. Builds(u, i, d)' => Builds(u, i, d)
    BY <1>5 DEF Builds
  <2>2. Builds(u, i, d) => ~(u = t /\ i = Len(stack[t]))
    BY <1>1 DEF Builds
  <2>3. Builds(u, i, d) => Builds(u, i, d)'
    BY <1>5, <1>6, <2>2 DEF Builds
  <2> QED
    BY <2>1, <2>3
<1>12. BuilderBuilds' /\ BuildsAlone'
  BY <1>0, <1>10, <1>11, SameBuilders DEF IInv
<1>13. DoneHasObject'
  BY <1>0, <1>5 DEF IInv, DoneHasObject
<1>14. GivenIsObject'
  <2> SUFFICES ASSUME NEW d \in Classes
               PROVE  given'[d] \subseteq IF object[d] = 0 THEN {} ELSE {object[d]}
    BY <1>0 DEF GivenIsObject
  <2>1. given[d] \subseteq IF object[d] = 0 THEN {} ELSE {object[d]}
    BY DEF IInv, GivenIsObject
  <2>2. CASE d = c
    BY <1>0, <1>2, <1>8, <2>1, <2>2 DEF Types
  <2>3. CASE d # c
    BY <1>0, <2>1, <2>3 DEF Types
  <2> QED
    BY <2>2, <2>3
<1>15. AllAccounted'
  <2> SUFFICES ASSUME NEW u \in Threads, all'[u] # None, NEW j \in all'[u].kept
               PROVE  Accounted(u, j)'
    BY DEF AllAccounted
  <2>1. CASE u # t
    <3>1. all'[u] = all[u] /\ stack'[u] = stack[u]
      BY <1>0, <1>4, <2>1 DEF Types
    <3> QED
      BY <1>0, <3>1 DEF IInv, AllAccounted, Accounted, Current
  <2>2. CASE u = t /\ all[t] = None
    BY <1>0, <2>2
  <2>3. CASE u = t /\ all[t] # None /\ Len(stack[t]) > 1
    <3>1. all' = all
      BY <1>0, <2>3
    <3>2. 1 \in 1 .. Len(stack'[t]) /\ stack'[t] # <<>>
      BY <1>1, <1>3, <1>4, <2>3, EmptySeq
    <3>3. stack'[t][1] = stack[t][1]
      BY <1>5, <3>2
    <3>4. Current(t)' = Current(t)
      BY <1>1, <3>2, <3>3 DEF Current
    <3> QED
      BY <1>0, <2>3, <3>1, <3>4 DEF IInv, AllAccounted, Accounted
  <2>4. CASE u = t /\ all[t] # None /\ ~(Len(stack[t]) > 1)
    <3> DEFINE q == [all[t] EXCEPT !.made = @ \cup {k}]
    <3>1. all[t] \in Call
      BY <1>0, <2>4 DEF Types
    <3>2. /\ q.made = all[t].made \cup {k} /\ q.left = all[t].left /\ q.kept = all[t].kept
          /\ q.interface = all[t].interface /\ q.signature = all[t].signature
      BY <1>1, <3>1, CallFields
    <3>3. all' = [all EXCEPT ![t] = q]
      BY <1>0, <2>4
    <3> HIDE DEF q
    <3>4. all'[t] = q
      BY <1>0, <3>3 DEF Types
    <3>5. Len(stack[t]) = 1
      <4>1. Len(stack[t]) \in Nat \ {0} /\ ~(Len(stack[t]) > 1)
        BY <1>1, <2>4
      <4>2. \A n \in Nat \ {0} : ~(n > 1) => n = 1
        OBVIOUS
      <4> QED
        BY <4>1, <4>2, Zenon
    <3>a. Len(s) = 0
      BY <1>3, <3>5
    <3>6. stack'[t] = <<>>
      BY <1>3, <1>4, <3>a, EmptySeq
    <3>7. Current(t)' = {} /\ Current(t) = {k}
      BY <1>1, <3>5, <3>6 DEF Current
    <3>8. Accounted(t, j)
      BY <2>4, <3>2, <3>4 DEF IInv, AllAccounted
    <3> QED
      BY <1>0, <2>4, <3>2, <3>4, <3>7, <3>8 DEF Accounted
  <2> QED
    BY <2>1, <2>2, <2>3, <2>4
<1> QED
  BY <1>10, <1>12, <1>13, <1>14, <1>15 DEF IInv

\* inscribe() adds a wrapper.
LEMMA InscribeIInv == ASSUME IInv, NEW k \in Keys, Inscribe(k) PROVE IInv'
<1>1. /\ UNCHANGED <<stack, object, building, given, all>>
      /\ registry' = registry \cup {k}
  BY DEF Inscribe
<1>2. Types'
  BY <1>1 DEF IInv, Types
<1>3. BuilderBuilds' /\ BuildsAlone' /\ DoneHasObject' /\ GivenIsObject'
  BY <1>1 DEF IInv, BuilderBuilds, BuildsAlone, Builds, DoneHasObject, GivenIsObject
<1>4. AllAccounted'
  BY <1>1 DEF IInv, AllAccounted, Accounted, Current
<1> QED
  BY <1>2, <1>3, <1>4 DEF IInv

\* What clear() makes of a createAll() call.
LEMMA ClearedCall ==
  ASSUME Types, Clear, NEW t \in Threads, all'[t] # None
  PROVE  /\ all[t] \in Call /\ all'[t] \in Call
         /\ all'[t].kept = {k \in all[t].kept : k[2] \notin all[t].left}
         /\ all'[t].interface = all[t].interface /\ all'[t].signature = all[t].signature
         /\ all'[t].left = all[t].left /\ all'[t].made = all[t].made
<1> DEFINE q == [all[t] EXCEPT !.kept = {k \in @ : k[2] \notin all[t].left}]
<1>1. all[t] # None /\ all'[t] = q
  BY DEF Clear
<1>2. all[t] \in Call
  BY <1>1 DEF Types
<1>3. /\ q \in Call /\ q.kept = {k \in all[t].kept : k[2] \notin all[t].left}
      /\ q.interface = all[t].interface /\ q.signature = all[t].signature
      /\ q.left = all[t].left /\ q.made = all[t].made
  BY <1>2, CallFields
<1> HIDE DEF q
<1> QED
  BY <1>1, <1>2, <1>3

\* clear() takes the keys whose turn has not come, which need then not be served.
LEMMA ClearIInv == ASSUME IInv, Clear PROVE IInv'
<1>1. Types /\ UNCHANGED <<stack, object, building, given>> /\ registry' = {}
  BY DEF IInv, Clear
<1>2. ASSUME NEW t \in Threads
      PROVE  all'[t] \in Call \cup {None}
  BY <1>1, ClearedCall
<1>3. Types'
  <2>1. all' \in [Threads -> Call \cup {None}]
    <3>1. \E g : all' = [t \in Threads |-> g[t]]
      <4> DEFINE g == [t \in Threads |->
                         IF all[t] = None THEN None
                         ELSE [all[t] EXCEPT !.kept = {k \in @ : k[2] \notin all[t].left}]]
      <4>1. all' = g
        BY DEF Clear
      <4>2. g = [t \in Threads |-> g[t]]
        OBVIOUS
      <4> QED
        BY <4>1, <4>2
    <3>2. all' = [t \in Threads |-> all'[t]]
      BY <3>1
    <3> QED
      BY <1>2, <3>2
  <2> QED
    BY <1>1, <2>1 DEF Types
<1>4. BuilderBuilds' /\ BuildsAlone' /\ DoneHasObject' /\ GivenIsObject'
  BY <1>1 DEF IInv, BuilderBuilds, BuildsAlone, Builds, DoneHasObject, GivenIsObject
<1>5. AllAccounted'
  <2> SUFFICES ASSUME NEW t \in Threads, all'[t] # None, NEW k \in all'[t].kept
               PROVE  Accounted(t, k)'
    BY DEF AllAccounted
  <2>1. k \in all[t].kept /\ k[2] \notin all[t].left /\ all[t] # None
    <3>1. all'[t].kept = {j \in all[t].kept : j[2] \notin all[t].left}
      BY <1>1, ClearedCall
    <3>2. all[t] # None
      BY DEF Clear
    <3> QED
      BY <3>1, <3>2
  <2>2. /\ k[1] = all[t].interface /\ k[3] = all[t].signature
        /\ k \in all[t].made \cup Current(t)
    BY <2>1 DEF IInv, AllAccounted, Accounted
  <2>3. /\ all'[t].interface = all[t].interface /\ all'[t].signature = all[t].signature
        /\ all'[t].made = all[t].made /\ Current(t)' = Current(t)
    BY <1>1, ClearedCall DEF Current
  <2> QED
    BY <2>2, <2>3 DEF Accounted
<1> QED
  BY <1>1, <1>3, <1>4, <1>5 DEF IInv
-----------------------------------------------------------------------------
(***************************************************************************)
(* The theorems.                                                           *)
(***************************************************************************)
\* The invariant holds before the first call.
LEMMA InitIInv == Init => IInv
<1> SUFFICES ASSUME Init PROVE IInv
  OBVIOUS
<1>1. <<>> \in Seq(Frame) /\ Len(<<>>) = 0
  BY EmptySeq
<1>2. Types
  BY <1>1 DEF Init, Types
<1>3. \A t \in Threads : stack[t] = <<>> /\ Len(stack[t]) = 0
  BY <1>1 DEF Init
<1>4. BuilderBuilds /\ GivenIsObject
  BY DEF Init, BuilderBuilds, GivenIsObject
<1>5. BuildsAlone /\ DoneHasObject
  BY <1>3 DEF BuildsAlone, Builds, DoneHasObject
<1>6. AllAccounted
  BY DEF Init, AllAccounted
<1> QED
  BY <1>2, <1>4, <1>5, <1>6 DEF IInv

\* Every step of every thread keeps the invariant.
LEMMA NextIInv == IInv /\ [Next]_vars => IInv'
<1> SUFFICES ASSUME IInv, [Next]_vars PROVE IInv'
  OBVIOUS
<1>1. ASSUME NEW k \in Keys, Inscribe(k) PROVE IInv'
  BY <1>1, InscribeIInv
<1>2. CASE Clear
  BY <1>2, ClearIInv
<1>3. ASSUME NEW t \in Threads, \E i \in Interfaces, g \in Signatures : CreateAll(t, i, g)
      PROVE  IInv'
  BY <1>3, CreateAllIInv
<1>4. ASSUME NEW t \in Threads, NEW k \in Keys, Create(t, k) PROVE IInv'
  BY <1>4, CreateIInv
<1>5. ASSUME NEW t \in Threads, Step(t) PROVE IInv'
  BY <1>5, EnterIInv, NeedIInv, ConstructIInv, ReturnIInv, NextKeyIInv, CreateAllIInv DEF Step
<1>6. CASE UNCHANGED vars
  BY <1>6 DEF vars, IInv, Types, BuilderBuilds, BuildsAlone, Builds, DoneHasObject,
              GivenIsObject, AllAccounted, Accounted, Current
<1> QED
  BY <1>1, <1>2, <1>3, <1>4, <1>5, <1>6 DEF Next

\* The builders, the objects and the calls in progress always fit together.
THEOREM Invariance == Spec => []IInv
BY InitIInv, NextIInv, PTL DEF Spec

\* Every variable keeps its type, and a singleton's builder is in its delegate.
THEOREM TypeCorrect == Spec => []TypeOK
<1>1. IInv => TypeOK
  <2> SUFFICES ASSUME IInv PROVE TypeOK
    OBVIOUS
  <2>1. ASSUME NEW c \in Classes, building[c] # None
        PROVE  \E i \in 1 .. Len(stack[building[c]]) :
                 /\ Class[stack[building[c]][i].key] = c
                 /\ stack[building[c]][i].phase \in {"running", "nested"}
    BY <2>1 DEF IInv, BuilderBuilds, Builds
  <2>2. \A t \in Threads : all[t] # None =>
          all[t] \in Call
    BY DEF IInv, Types
  <2> QED
    BY <2>1, <2>2 DEF IInv, Types, TypeOK
<1> QED
  BY <1>1, Invariance, PTL

\* A singleton class never yields two objects.
THEOREM OneSingleton == Spec => []SingletonOnce
<1>1. IInv => SingletonOnce
  <2> SUFFICES ASSUME IInv, NEW c \in Classes PROVE Cardinality(given[c]) <= 1
    BY DEF SingletonOnce
  <2>1. given[c] = {} \/ given[c] = {object[c]}
    BY DEF IInv, GivenIsObject
  <2>2. Cardinality({}) = 0 /\ Cardinality({object[c]}) = 1
    BY FS_EmptySet, FS_Singleton
  <2> QED
    BY <2>1, <2>2
<1> QED
  BY <1>1, Invariance, PTL

\* createAll() has in the end an object for every key of its interface and arguments
\* that was inscribed when it began and that clear() left until its turn, whatever other
\* names yield nothing and whatever is inscribed meanwhile.
THEOREM AllServed == Spec => []CreateAllServes
<1>1. IInv => CreateAllServes
  BY DEF IInv, AllAccounted, Accounted, Current, CreateAllServes
<1> QED
  BY <1>1, Invariance, PTL
-----------------------------------------------------------------------------
(***************************************************************************)
(* Why create() returns: who waits for a singleton waits for a thread that *)
(* can go on, and each step leaves its thread less to do.                  *)
(***************************************************************************)
InCall(t) == stack[t] # <<>> \/ all[t] # None

\* What holds up no thread: the guards of the steps of a call.
CanStep(t) ==
  \/ At(t, "found") /\ LET c == Class[Top(t).key]
                       IN  c = None \/ object[c] # 0 \/ building[c] = None
  \/ At(t, "running") \/ At(t, "nested") \/ At(t, "done")
  \/ stack[t] = <<>> /\ all[t] # None

\* Who cannot go on waits for a singleton that another thread, which can, constructs.
NoDeadlock ==
  \A t \in Threads : InCall(t) =>
    \/ CanStep(t)
    \/ /\ At(t, "found")
       /\ \E u \in Threads \ {t} : building[Class[Top(t).key]] = u /\ CanStep(u)

\* Calls nest once, and only a call whose delegate needs another is in its phase "nested".
NestedIn(t) ==
  /\ Len(stack[t]) <= 2
  /\ \A i \in 1 .. Len(stack[t]) :
       stack[t][i].phase = "nested" => Needs[stack[t][i].key] # None
  /\ Len(stack[t]) = 2 => stack[t][1].phase = "nested" /\ Needs[stack[t][2].key] = None

Nested == \A t \in Threads : NestedIn(t)

\* Finitely many keys are inscribed, so that createAll() has finitely many to create.
Finite ==
  /\ IsFiniteSet(registry)
  /\ \A t \in Threads : all[t] # None => IsFiniteSet(all[t].left)

\* The steps that the innermost call and what it nests have still to make, at most.
Weight(f) ==
  LET nesting == IF Needs[f.key] = None THEN 0 ELSE 4
  IN  CASE f.phase = "found"   -> 3 + nesting
        [] f.phase = "running" -> 2 + nesting
        [] f.phase = "nested"  -> 2
        [] f.phase = "done"    -> 1

\* The steps that thread t has still to make: in its create(), and for each key that its
\* createAll() has left.
CreateToDo(t) == IF stack[t] = <<>> THEN 0 ELSE Weight(Top(t)) + 2 * (Len(stack[t]) - 1)
AllToDo(t)    == IF all[t] = None THEN 0 ELSE 1 + 8 * Cardinality(all[t].left)
ToDo(t)       == CreateToDo(t) + AllToDo(t)

\* A call takes at least one step and at most seven.
LEMMA WeightType ==
  ASSUME NEW f \in Frame
  PROVE  /\ Weight(f) \in 1 .. 7
         /\ f.phase = "found"   => Weight(f) = IF Needs[f.key] = None THEN 3 ELSE 7
         /\ f.phase = "running" => Weight(f) = IF Needs[f.key] = None THEN 2 ELSE 6
         /\ f.phase = "nested"  => Weight(f) = 2
         /\ f.phase = "done"    => Weight(f) = 1
<1>1. f.phase \in {"found", "running", "nested", "done"}
  BY DEF Frame
<1> QED
  BY <1>1 DEF Weight

\* A thread in a call can go on, or the builder it waits for can: the delegate of a
\* singleton needs nothing.
LEMMA InvariantNoDeadlock == IInv /\ Nested => NoDeadlock
<1> SUFFICES ASSUME IInv, Nested, NEW t \in Threads, InCall(t), ~ CanStep(t)
             PROVE  /\ At(t, "found")
                    /\ \E u \in Threads \ {t} :
                         building[Class[Top(t).key]] = u /\ CanStep(u)
  BY DEF NoDeadlock
<1> DEFINE c == Class[Top(t).key]
<1>1. Types
  BY DEF IInv
<1>2. stack[t] # <<>>
  BY DEF CanStep, InCall
<1>3. At(t, "found")
  <2>1. stack[t] \in Seq(Frame) /\ Len(stack[t]) \in Nat \ {0}
    BY <1>1, <1>2, EmptySeq DEF Types
  <2>2. Top(t) \in Frame
    BY <2>1, ElementOfSeq DEF Top
  <2> QED
    BY <1>2, <2>2 DEF CanStep, At, Frame
<1>4. c # None /\ building[c] # None
  BY <1>3 DEF CanStep
<1>5. c \in Classes /\ Top(t).phase = "found"
  BY <1>1, <1>3, <1>4, AtTop, ClassAssumption
<1>6. PICK u \in Threads : u = building[c]
  BY <1>1, <1>4, <1>5 DEF Types
<1>7. PICK i \in Nat : Builds(u, i, c)
  BY <1>4, <1>5, <1>6 DEF IInv, BuilderBuilds
<1>8. /\ i \in 1 .. Len(stack[u]) /\ Class[stack[u][i].key] = c
      /\ stack[u][i].phase \in {"running", "nested"}
  BY <1>7 DEF Builds
<1>9. stack[u] \in Seq(Frame) /\ stack[u][i] \in Frame /\ stack[u][i].key \in Keys
  <2>1. stack[u] \in Seq(Frame)
    BY <1>1 DEF Types
  <2>2. stack[u][i] \in Frame
    BY <1>8, <2>1, ElementOfSeq
  <2> QED
    BY <2>1, <2>2 DEF Frame
<1>10. stack[u][i].phase = "running"
  BY <1>4, <1>8, <1>9, NeedsAssumption DEF Nested, NestedIn
<1>11. i = Len(stack[u])
  <2>1. Len(stack[u]) \in Nat /\ Len(stack[u]) <= 2
    BY <1>9 DEF Nested, NestedIn
  <2>2. Len(stack[u]) = 2 => i # 1
    BY <1>10 DEF Nested, NestedIn
  <2>3. \A n \in Nat : n <= 2 => \A j \in 1 .. n : (n = 2 => j # 1) => j = n
    OBVIOUS
  <2> QED
    BY <1>8, <2>1, <2>2, <2>3
<1>12. At(u, "running")
  BY <1>8, <1>9, <1>10, <1>11, EmptySeq DEF At, Top
<1> QED
  BY <1>3, <1>5, <1>6, <1>12 DEF CanStep, At

\* What is to do is counted in naturals.
LEMMA ToDoType ==
  ASSUME Types, Finite, NEW t \in Threads
  PROVE  /\ CreateToDo(t) \in Nat /\ AllToDo(t) \in Nat /\ ToDo(t) \in Nat
         /\ stack[t] # <<>> => CreateToDo(t) = Weight(Top(t)) + 2 * (Len(stack[t]) - 1)
<1>1. CreateToDo(t) \in Nat
  <2>1. CASE stack[t] = <<>>
    BY <2>1 DEF CreateToDo
  <2>2. CASE stack[t] # <<>>
    <3>1. stack[t] \in Seq(Frame) /\ Len(stack[t]) \in Nat \ {0}
      BY <2>2, EmptySeq DEF Types
    <3>2. Top(t) \in Frame
      BY <3>1, ElementOfSeq DEF Top
    <3>3. Weight(Top(t)) \in 1 .. 7
      BY <3>2, WeightType
    <3> QED
      BY <2>2, <3>1, <3>3 DEF CreateToDo
  <2> QED
    BY <2>1, <2>2
<1>2. AllToDo(t) \in Nat
  <2>1. all[t] # None => Cardinality(all[t].left) \in Nat
    BY FS_CardinalityType DEF Finite
  <2> QED
    BY <2>1 DEF AllToDo
<1> QED
  BY <1>1, <1>2 DEF ToDo, CreateToDo

\* What is to do in create() after a step.
LEMMA CreateToDoNext ==
  ASSUME NEW t \in Threads
  PROVE  CreateToDo(t)' = IF stack'[t] = <<>> THEN 0
                          ELSE Weight(stack'[t][Len(stack'[t])]) + 2 * (Len(stack'[t]) - 1)
BY DEF CreateToDo, Top, Weight

\* What thread t's step must do for its own part.
Shorter(t) ==
  /\ NestedIn(t)'
  /\ CreateToDo(t)' \in Int /\ CreateToDo(t)' < CreateToDo(t)
  /\ AllToDo(t)' \in Int /\ AllToDo(t)' <= AllToDo(t)

\* A call that goes on to a later phase has less to do.
LEMMA AdvanceShorter ==
  ASSUME IInv, Finite, NEW t \in Threads, NestedIn(t), stack[t] # <<>>,
         NEW p \in {"running", "done"},
         stack' = [stack EXCEPT ![t] = Advanced(t, p)],
         UNCHANGED <<registry, all>>,
         p = "running" => Top(t).phase = "found",
         Top(t).phase # "done"
  PROVE  Shorter(t)
<1>1. Types
  BY DEF IInv
<1>2. Moved(t, p)
  BY AdvanceStep DEF Phases
<1>3. Len(stack[t]) \in Nat \ {0} /\ stack[t] \in Seq(Frame)
  BY <1>1, EmptySeq DEF Types
<1>4. Len(stack[t]) \in 1 .. Len(stack[t])
  BY <1>3
<1>5. /\ stack'[t] \in Seq(Frame) /\ Len(stack'[t]) = Len(stack[t])
      /\ \A i \in 1 .. Len(stack[t]) :
           /\ stack'[t][i].key = stack[t][i].key
           /\ i = Len(stack[t]) => stack'[t][i].phase = p
           /\ i # Len(stack[t]) => stack'[t][i].phase = stack[t][i].phase
  BY <1>2 DEF Moved
<1>6. Top(t) \in Frame /\ Top(t)' \in Frame /\ Top(t)'.key = Top(t).key /\ Top(t)'.phase = p
  BY <1>3, <1>4, <1>5, ElementOfSeq DEF Top
<1>7. Weight(Top(t)') < Weight(Top(t)) /\ Weight(Top(t)) \in 1 .. 7 /\ Weight(Top(t)') \in 1 .. 7
  <2>1. Top(t).phase \in {"found", "running", "nested"}
    BY <1>6 DEF Frame
  <2> QED
    BY <1>6, <2>1, WeightType
<1>8. stack'[t] # <<>>
  BY <1>3, <1>5, EmptySeq
<1>9. CreateToDo(t)' = Weight(Top(t)') + 2 * (Len(stack[t]) - 1)
  BY <1>5, <1>8 DEF CreateToDo, Weight
<1>10. CreateToDo(t) = Weight(Top(t)) + 2 * (Len(stack[t]) - 1)
  BY DEF CreateToDo
<1>11. NestedIn(t)'
  <2>1. Len(stack'[t]) <= 2
    BY <1>5 DEF NestedIn
  <2>2. ASSUME NEW i \in 1 .. Len(stack'[t]), stack'[t][i].phase = "nested"
        PROVE  Needs[stack'[t][i].key] # None
    BY <1>5, <2>2 DEF NestedIn
  <2>3. ASSUME Len(stack'[t]) = 2
        PROVE  stack'[t][1].phase = "nested" /\ Needs[stack'[t][2].key] = None
    <3>1. 1 \in 1 .. Len(stack[t]) /\ 1 # Len(stack[t]) /\ 2 \in 1 .. Len(stack[t])
      BY <1>5, <2>3
    <3>2. Len(stack[t]) = 2
      BY <1>5, <2>3
    <3>3. stack[t][1].phase = "nested" /\ Needs[stack[t][2].key] = None
      BY <3>2, Zenon DEF NestedIn
    <3>4. stack'[t][1].phase = stack[t][1].phase /\ stack'[t][2].key = stack[t][2].key
      BY <1>5, <3>1
    <3> QED
      BY <3>3, <3>4
  <2> QED
    BY <2>1, <2>2, <2>3 DEF NestedIn
<1>12. AllToDo(t)' = AllToDo(t) /\ AllToDo(t) \in Nat
  BY <1>1, ToDoType DEF AllToDo
<1> QED
  <2>1. \A n \in Nat, x, y \in 1 .. 7 :
          x < y => x + 2 * (n - 1) \in Int /\ x + 2 * (n - 1) < y + 2 * (n - 1)
    OBVIOUS
  <2>2. AllToDo(t)' \in Int /\ AllToDo(t)' <= AllToDo(t)
    BY <1>12
  <2>3. CreateToDo(t)' \in Int /\ CreateToDo(t)' < CreateToDo(t)
    BY <1>3, <1>7, <1>9, <1>10, <2>1
  <2> QED
    BY <1>11, <2>2, <2>3 DEF Shorter

\* getInstance() and the end of the delegate bring create() nearer to its end.
LEMMA EnterShorter ==
  ASSUME IInv, Finite, NEW t \in Threads, NestedIn(t), Enter(t) \/ Construct(t)
  PROVE  Shorter(t)
<1>1. stack[t] # <<>> /\ UNCHANGED <<registry, all>> /\ Top(t).phase # "done"
  BY DEF Enter, Construct, At
<1>2. \/ stack' = [stack EXCEPT ![t] = Advanced(t, "done")]
      \/ stack' = [stack EXCEPT ![t] = Advanced(t, "running")] /\ Top(t).phase = "found"
  BY DEF Enter, Construct, At
<1> QED
  BY <1>1, <1>2, AdvanceShorter

\* The call of the delegate leaves less to do: the call it nests needs nothing.
LEMMA NeedShorter ==
  ASSUME IInv, Finite, NEW t \in Threads, NestedIn(t), Need(t)
  PROVE  Shorter(t)
<1> DEFINE k == Needs[Top(t).key]
           calls == Advanced(t, "nested")
<1>0. Types /\ At(t, "running") /\ k # None /\ Lookup(t, k, calls) /\ UNCHANGED all
  BY DEF IInv, Need
<1>1. /\ stack[t] # <<>> /\ Len(stack[t]) \in Nat \ {0}
      /\ Len(stack[t]) \in 1 .. Len(stack[t])
      /\ Top(t) = stack[t][Len(stack[t])] /\ Top(t) \in Frame
      /\ Top(t).phase = "running" /\ Top(t).key \in Keys
  BY <1>0, AtTop
<1>2. k \in Keys /\ Needs[k] = None
  BY <1>0, <1>1, NeedsAssumption
<1>3. Len(stack[t]) = 1
  <2>1. Len(stack[t]) # 2
    BY <1>0, <1>1 DEF NestedIn
  <2>2. Len(stack[t]) <= 2
    BY DEF NestedIn
  <2>3. \A n \in Nat \ {0} : n <= 2 /\ n # 2 => n = 1
    OBVIOUS
  <2> QED
    BY <1>1, <2>1, <2>2, <2>3
<1>4. /\ calls \in Seq(Frame) /\ Len(calls) = 1
      /\ calls[1].key = Top(t).key /\ calls[1].phase = "nested"
  <2>1. "nested" \in Phases
    BY DEF Phases
  <2> QED
    BY <1>0, <1>1, <1>3, <2>1, AdvancedFacts
<1>5. CreateToDo(t) = 6
  <2>1. Weight(Top(t)) = 6
    BY <1>0, <1>1, WeightType
  <2> QED
    BY <1>1, <1>3, <2>1 DEF CreateToDo
<1>6. AllToDo(t)' = AllToDo(t) /\ AllToDo(t) \in Nat
  BY <1>0, ToDoType DEF AllToDo
<1> HIDE DEF calls, k
<1>7. /\ stack' \in [Threads -> Seq(Frame)]
      /\ Len(stack'[t]) = IF k \notin registry THEN 1 ELSE 2
      /\ stack'[t][1] = calls[1]
      /\ k \in registry => stack'[t][2] = [key |-> k, phase |-> "found"]
  <2>1. 1 \in 1 .. Len(calls) /\ Len(calls) + 1 = 2
    BY <1>4
  <2>2. /\ stack' \in [Threads -> Seq(Frame)]
        /\ Len(stack'[t]) = IF k \notin registry THEN Len(calls) ELSE Len(calls) + 1
        /\ \A i \in 1 .. Len(calls) : stack'[t][i] = calls[i]
        /\ k \in registry => stack'[t][Len(calls) + 1] = [key |-> k, phase |-> "found"]
    BY <1>0, <1>2, <1>4, LookupFacts
  <2> QED
    BY <1>4, <2>1, <2>2
<1>8. stack'[t] \in Seq(Frame) /\ stack'[t] # <<>>
  BY <1>7, EmptySeq
<1>9. CASE k \notin registry
  <2>1. Len(stack'[t]) = 1 /\ stack'[t][1] \in Frame
    BY <1>7, <1>8, <1>9, ElementOfSeq
  <2>2. Weight(stack'[t][1]) = 2
    BY <1>4, <1>7, <2>1, WeightType
  <2>3. CreateToDo(t)' = 2
    BY <1>8, <2>1, <2>2, CreateToDoNext
  <2>4. NestedIn(t)'
    <3>1. Needs[stack'[t][1].key] # None
      BY <1>0, <1>4, <1>7 DEF k
    <3> QED
      BY <2>1, <3>1 DEF NestedIn
  <2> QED
    BY <1>5, <1>6, <2>3, <2>4 DEF Shorter
<1>10. CASE k \in registry
  <2>1. Len(stack'[t]) = 2 /\ stack'[t][2] \in Frame
    <3>1. Len(stack'[t]) = 2
      BY <1>7, <1>10
    <3>2. 2 \in 1 .. Len(stack'[t])
      BY <3>1
    <3> QED
      BY <1>8, <3>1, <3>2, ElementOfSeq
  <2>2. Weight(stack'[t][2]) = 3
    BY <1>2, <1>7, <1>10, <2>1, WeightType
  <2>3. CreateToDo(t)' = 5
    BY <1>8, <2>1, <2>2, CreateToDoNext
  <2>4. /\ stack'[t][1].phase = "nested" /\ Needs[stack'[t][1].key] # None
        /\ stack'[t][2].phase = "found" /\ Needs[stack'[t][2].key] = None
    BY <1>0, <1>2, <1>4, <1>7, <1>10 DEF k
  <2>5. NestedIn(t)'
    BY <2>1, <2>4 DEF NestedIn
  <2> QED
    BY <1>5, <1>6, <2>3, <2>5 DEF Shorter
<1> QED
  BY <1>9, <1>10

\* A return leaves the call that nests it, which is near its end.
LEMMA ReturnShorter ==
  ASSUME IInv, Finite, NEW t \in Threads, NestedIn(t), Return(t)
  PROVE  Shorter(t)
<1> DEFINE s == SubSeq(stack[t], 1, Len(stack[t]) - 1)
<1>0. Types /\ At(t, "done") /\ stack' = [stack EXCEPT ![t] = s]
  BY DEF IInv, Return
<1>1. /\ stack[t] # <<>> /\ Len(stack[t]) \in Nat \ {0}
      /\ Top(t) \in Frame /\ Top(t).phase = "done"
  BY <1>0, AtTop
<1>2. s \in Seq(Frame) /\ Len(s) = Len(stack[t]) - 1 /\ \A i \in 1 .. Len(s) : s[i] = stack[t][i]
  BY <1>0, <1>1, PoppedFacts
<1>3. stack'[t] = s
  BY <1>0 DEF Types
<1>4. Len(stack[t]) \in {1, 2}
  <2>1. Len(stack[t]) <= 2
    BY DEF NestedIn
  <2>2. \A n \in Nat \ {0} : n <= 2 => n \in {1, 2}
    OBVIOUS
  <2> QED
    BY <1>1, <2>1, <2>2
<1>5. CreateToDo(t) = 1 + 2 * (Len(stack[t]) - 1)
  <2>1. Weight(Top(t)) = 1
    BY <1>1, WeightType
  <2> QED
    BY <1>1, <2>1 DEF CreateToDo
<1> HIDE DEF s
<1>6. NestedIn(t)' /\ CreateToDo(t)' \in Int /\ CreateToDo(t)' < CreateToDo(t)
  <2>1. CASE Len(stack[t]) = 1
    <3>1. Len(s) = 0 /\ s = <<>>
      BY <1>2, <2>1, EmptySeq
    <3>2. CreateToDo(t)' = 0
      BY <1>3, <3>1 DEF CreateToDo
    <3>3. NestedIn(t)'
      BY <1>3, <3>1 DEF NestedIn
    <3> QED
      BY <1>5, <2>1, <3>2, <3>3
  <2>2. CASE Len(stack[t]) = 2
    <3>1. Len(s) = 1 /\ s # <<>> /\ s[1] = stack[t][1] /\ s[1] \in Frame
      BY <1>2, <2>2, EmptySeq, ElementOfSeq
    <3>2. s[1].phase = "nested" /\ Needs[s[1].key] # None
      BY <2>2, <3>1 DEF NestedIn
    <3>3. Weight(s[1]) = 2
      BY <3>1, <3>2, WeightType
    <3>4. CreateToDo(t)' = 2
      BY <1>3, <3>1, <3>3, CreateToDoNext
    <3>5. NestedIn(t)'
      BY <1>3, <3>1, <3>2 DEF NestedIn
    <3> QED
      BY <1>5, <2>2, <3>4, <3>5
  <2> QED
    BY <1>4, <2>1, <2>2
<1>7. all' = all \/ all'[t] = [all[t] EXCEPT !.made = all[t].made \cup {Top(t).key}]
  BY <1>0 DEF Return, Types
<1>8. all'[t] # None => all[t] # None /\ all'[t].left = all[t].left
  <2>1. CASE all' = all
    BY <2>1
  <2>2. CASE all' # all
    <3>1. all[t] # None
      BY <2>2 DEF Return
    <3>2. all[t] \in Call
      BY <1>0, <3>1 DEF Types
    <3> QED
      BY <1>7, <2>2, <3>1, <3>2 DEF Call
  <2> QED
    BY <2>1, <2>2
<1>9. AllToDo(t)' \in Int /\ AllToDo(t)' <= AllToDo(t)
  <2>1. AllToDo(t) \in Nat
    BY <1>0, ToDoType
  <2>2. CASE all'[t] = None
    BY <2>1, <2>2 DEF AllToDo
  <2>3. CASE all'[t] # None
    BY <1>8, <2>1, <2>3 DEF AllToDo
  <2> QED
    BY <2>2, <2>3
<1> QED
  BY <1>6, <1>9 DEF Shorter

\* createAll() exchanges a key that is left for one create(), and ends when none is.
LEMMA AllShorter ==
  ASSUME IInv, Finite, NEW t \in Threads, NextKey(t) \/ AllReturns(t)
  PROVE  /\ NestedIn(t)'
         /\ CreateToDo(t)' \in Int /\ AllToDo(t)' \in Int
         /\ CreateToDo(t)' + AllToDo(t)' < CreateToDo(t) + AllToDo(t)
<1>0. Types /\ stack[t] = <<>> /\ all[t] # None
  BY DEF IInv, NextKey, AllReturns
<1>1. /\ IsFiniteSet(all[t].left) /\ Cardinality(all[t].left) \in Nat /\ all[t] \in Call
  BY <1>0, FS_CardinalityType DEF Finite, Types
<1>2. CreateToDo(t) = 0 /\ AllToDo(t) = 1 + 8 * Cardinality(all[t].left)
  BY <1>0 DEF CreateToDo, AllToDo
<1>3. CASE NextKey(t)
  <2>1. PICK n \in all[t].left :
          /\ Lookup(t, <<all[t].interface, n, all[t].signature>>, <<>>)
          /\ all' = [all EXCEPT ![t] = [all[t] EXCEPT !.left = @ \ {n}]]
    BY <1>3 DEF NextKey
  <2>a. PICK k : k = <<all[t].interface, n, all[t].signature>> /\ Lookup(t, k, <<>>)
    BY <2>1
  <2>2. <<>> \in Seq(Frame) /\ Len(<<>>) = 0
    BY EmptySeq
  <2>3. all'[t].left = all[t].left \ {n}
    <3> DEFINE q == [all[t] EXCEPT !.left = @ \ {n}]
    <3>1. q.left = all[t].left \ {n}
      BY <1>1, CallFields
    <3>2. all' = [all EXCEPT ![t] = q]
      BY <2>1
    <3> HIDE DEF q
    <3> QED
      BY <1>0, <3>1, <3>2 DEF Types
  <2>4. /\ Cardinality(all[t].left \ {n}) = Cardinality(all[t].left) - 1
        /\ Cardinality(all[t].left \ {n}) \in Nat
    BY <1>1, FS_RemoveElement, FS_CardinalityType
  <2>5. AllToDo(t)' \in Int /\ AllToDo(t)' <= AllToDo(t) - 8
    <3>1. CASE all'[t] = None
      <4>1. AllToDo(t)' = 0
        BY <3>1 DEF AllToDo
      <4> QED
        BY <1>1, <1>2, <2>4, <4>1
    <3>2. CASE all'[t] # None
      <4>1. AllToDo(t)' = 1 + 8 * Cardinality(all[t].left \ {n})
        BY <2>3, <3>2 DEF AllToDo
      <4> QED
        BY <1>1, <1>2, <2>4, <4>1
    <3> QED
      BY <3>1, <3>2
  <2>6. /\ stack' \in [Threads -> Seq(Frame)]
        /\ Len(stack'[t]) = IF k \notin registry THEN 0 ELSE 0 + 1
        /\ k \in registry => stack'[t][0 + 1] = [key |-> k, phase |-> "found"]
    <3>1. /\ stack' \in [Threads -> Seq(Frame)]
          /\ Len(stack'[t]) = IF k \notin registry THEN Len(<<>>) ELSE Len(<<>>) + 1
          /\ k \in registry => stack'[t][Len(<<>>) + 1] = [key |-> k, phase |-> "found"]
      <4>1. Types /\ Lookup(t, k, <<>>) /\ <<>> \in Seq(Frame)
        BY <1>0, <2>a, <2>2
      <4> QED
        BY <4>1, LookupFacts
    <3> QED
      BY <2>2, <3>1
  <2>7. CASE k \notin registry
    <3>1. stack'[t] = <<>> /\ Len(stack'[t]) = 0
      BY <2>6, <2>7, EmptySeq
    <3>2. CreateToDo(t)' = 0
      BY <3>1, CreateToDoNext
    <3>3. NestedIn(t)'
      BY <3>1 DEF NestedIn
    <3> QED
      BY <1>1, <1>2, <2>5, <3>2, <3>3
  <2>8. CASE k \in registry
    <3>0. Len(stack'[t]) = 1 /\ stack'[t] \in Seq(Frame)
      BY <2>6, <2>8
    <3>1. Len(stack'[t]) = 1 /\ stack'[t] # <<>> /\ stack'[t] \in Seq(Frame)
      <4>1. stack'[t] = <<>> => Len(stack'[t]) = 0
        BY <2>2, Zenon
      <4> QED
        BY <3>0, <4>1
    <3>2. stack'[t][1] \in Frame /\ stack'[t][1].phase = "found"
      BY <2>6, <2>8, <3>1, ElementOfSeq
    <3>3. Weight(stack'[t][1]) \in 1 .. 7
      BY <3>2, WeightType
    <3>4. CreateToDo(t)' = Weight(stack'[t][1])
      BY <3>1, <3>3, CreateToDoNext
    <3>5. NestedIn(t)'
      BY <3>1, <3>2 DEF NestedIn
    <3> QED
      BY <1>1, <1>2, <2>5, <3>3, <3>4, <3>5
  <2> QED
    BY <2>7, <2>8
<1>4. CASE AllReturns(t)
  <2>1. stack'[t] = <<>> /\ all'[t] = None /\ Len(stack'[t]) = 0
    BY <1>0, <1>4, EmptySeq DEF AllReturns, Types
  <2>2. CreateToDo(t)' = 0 /\ AllToDo(t)' = 0
    BY <2>1, CreateToDoNext DEF AllToDo
  <2>3. NestedIn(t)'
    BY <2>1 DEF NestedIn
  <2> QED
    BY <1>1, <1>2, <2>2, <2>3
<1> QED
  BY <1>3, <1>4

\* A step of thread t lessens what t has to do and leaves the other threads alone.
LEMMA StepShortens ==
  ASSUME IInv, Nested, Finite, NEW t \in Threads, Step(t)
  PROVE  /\ NestedIn(t)' /\ ToDo(t)' \in Int /\ ToDo(t)' < ToDo(t)
         /\ \A u \in Threads \ {t} : stack'[u] = stack[u] /\ all'[u] = all[u]
<1>1. Types /\ NestedIn(t)
  BY DEF IInv, Nested
<1>2. CreateToDo(t) \in Nat /\ AllToDo(t) \in Nat
  BY <1>1, ToDoType
<1>3. \A u \in Threads \ {t} : stack'[u] = stack[u] /\ all'[u] = all[u]
  <2>1. CASE Enter(t)
    BY <1>1, <2>1 DEF Enter, Types
  <2>2. CASE Construct(t)
    BY <1>1, <2>2 DEF Construct, Types
  <2>3. CASE Need(t) \/ NextKey(t)
    BY <1>1, <2>3 DEF Need, NextKey, Lookup, Types
  <2>4. CASE Return(t) \/ AllReturns(t)
    BY <1>1, <2>4 DEF Return, AllReturns, Types
  <2> QED
    BY <2>1, <2>2, <2>3, <2>4 DEF Step
<1>4. CASE Enter(t) \/ Construct(t) \/ Need(t) \/ Return(t)
  <2>1. Shorter(t)
    BY <1>1, <1>4, EnterShorter, NeedShorter, ReturnShorter
  <2> QED
    BY <1>2, <1>3, <2>1 DEF Shorter, ToDo
<1>5. CASE NextKey(t) \/ AllReturns(t)
  <2>1. /\ NestedIn(t)'
        /\ CreateToDo(t)' \in Int /\ AllToDo(t)' \in Int
        /\ CreateToDo(t)' + AllToDo(t)' < CreateToDo(t) + AllToDo(t)
    BY <1>5, AllShorter
  <2> QED
    BY <1>2, <1>3, <2>1 DEF ToDo
<1> QED
  BY <1>4, <1>5 DEF Step

\* A new call is not nested, and nobody else's call is changed by it.
LEMMA CallBegins ==
  ASSUME IInv, NEW t \in Threads,
         \/ \E i \in Interfaces, g \in Signatures : CreateAll(t, i, g)
         \/ \E k \in Keys : Create(t, k)
  PROVE  /\ NestedIn(t)' /\ ~ InCall(t)
         /\ \A u \in Threads \ {t} : stack'[u] = stack[u] /\ all'[u] = all[u]
<1>1. Types /\ stack[t] = <<>> /\ all[t] = None
  BY DEF IInv, CreateAll, Create
<1>2. <<>> \in Seq(Frame) /\ Len(<<>>) = 0
  BY EmptySeq
<1>3. CASE \E i \in Interfaces, g \in Signatures : CreateAll(t, i, g)
  <2>1. stack'[t] = <<>>
    BY <1>1, <1>3 DEF CreateAll
  <2>2. NestedIn(t)'
    BY <1>2, <2>1 DEF NestedIn
  <2> QED
    BY <1>1, <1>3, <2>2 DEF CreateAll, Types, InCall
<1>4. CASE \E k \in Keys : Create(t, k)
  <2>1. PICK k \in Keys : Lookup(t, k, <<>>) /\ all' = all
    BY <1>4 DEF Create
  <2>2. /\ stack' \in [Threads -> Seq(Frame)]
        /\ \A u \in Threads \ {t} : stack'[u] = stack[u]
        /\ Len(stack'[t]) = IF k \notin registry THEN 0 ELSE 0 + 1
        /\ k \in registry => stack'[t][0 + 1] = [key |-> k, phase |-> "found"]
    BY <1>1, <1>2, <2>1, LookupFacts, ZenonT(40)
  <2>3. NestedIn(t)'
    <3>1. CASE k \notin registry
      BY <2>2, <3>1 DEF NestedIn
    <3>2. CASE k \in registry
      <4>1. Len(stack'[t]) = 1 /\ stack'[t][1].phase = "found"
        BY <2>2, <3>2
      <4> QED
        BY <4>1 DEF NestedIn
    <3> QED
      BY <3>1, <3>2
  <2> QED
    BY <1>1, <2>1, <2>2, <2>3 DEF InCall
<1> QED
  BY <1>3, <1>4

\* What createAll() has left, and what is inscribed, stays finite.
LEMMA FiniteKept == ASSUME IInv, Finite, [Next]_vars PROVE Finite'
<1>1. Types
  BY DEF IInv
<1>2. IsFiniteSet(registry')
  <2>1. ASSUME NEW k \in Keys, Inscribe(k)
        PROVE  IsFiniteSet(registry')
    BY <2>1, FS_AddElement DEF Inscribe, Finite
  <2>2. CASE Clear
    BY <2>2, FS_EmptySet DEF Clear
  <2>3. CASE registry' = registry
    BY <2>3 DEF Finite
  <2>4. ASSUME NEW t \in Threads, \/ \E i \in Interfaces, g \in Signatures : CreateAll(t, i, g)
                                  \/ Step(t)
                                  \/ \E k \in Keys : Create(t, k)
        PROVE  registry' = registry
    BY <2>4 DEF CreateAll, Create, Step, Enter, Need, Construct, Return, NextKey, AllReturns
  <2> QED
    BY <2>1, <2>2, <2>3, <2>4 DEF Next, vars
<1>3. ASSUME NEW t \in Threads, all'[t] # None
      PROVE  IsFiniteSet(all'[t].left)
  <2>1. CASE all' = all
    BY <1>3, <2>1 DEF Finite
  <2>2. ASSUME NEW u \in Threads, NEW i \in Interfaces, NEW g \in Signatures, CreateAll(u, i, g)
        PROVE  IsFiniteSet(all'[t].left)
    <3> DEFINE S == {j \in registry : j[1] = i}
               f == [k \in S |-> k[2]]
    <3>1. u # t => all'[t] = all[t]
      BY <1>1, <2>2 DEF CreateAll, Types
    <3>2. u = t => all'[t].left = {k[2] : k \in S}
      BY <1>1, <2>2 DEF CreateAll, Types
    <3>3. IsFiniteSet(S)
      BY FS_Subset DEF Finite
    <3>4. f \in Surjection(S, {k[2] : k \in S})
      BY DEF Surjection
    <3>5. IsFiniteSet({k[2] : k \in S})
      BY <3>3, <3>4, FS_Surjection
    <3> QED
      BY <1>3, <3>1, <3>2, <3>5 DEF Finite
  <2>3. ASSUME NEW u \in Threads, NextKey(u) \/ AllReturns(u)
        PROVE  IsFiniteSet(all'[t].left)
    <3>1. all[u] # None /\ all[u] \in Call
      BY <1>1, <2>3 DEF NextKey, AllReturns, Types
    <3>2. u # t => all'[t] = all[t]
      BY <1>1, <2>3 DEF NextKey, AllReturns, Types
    <3>3. u = t => \E k : all'[t].left = all[t].left \ {k}
      <4>1. CASE AllReturns(u)
        BY <1>1, <1>3, <4>1 DEF AllReturns, Types
      <4>2. CASE NextKey(u)
        <5>1. PICK n \in all[u].left : all' = [all EXCEPT ![u] = [all[u] EXCEPT !.left = @ \ {n}]]
          BY <4>2 DEF NextKey
        <5> DEFINE q == [all[u] EXCEPT !.left = @ \ {n}]
        <5>2. q.left = all[u].left \ {n}
          BY <3>1, CallFields
        <5>3. all' = [all EXCEPT ![u] = q]
          BY <5>1
        <5> HIDE DEF q
        <5>4. u = t => all'[t].left = all[t].left \ {n}
          BY <1>1, <5>2, <5>3 DEF Types
        <5> QED
          BY <5>4
      <4> QED
        BY <2>3, <4>1, <4>2
    <3> QED
      BY <1>3, <3>1, <3>2, <3>3, FS_RemoveElement DEF Finite
  <2>4. ASSUME NEW u \in Threads, Return(u)
        PROVE  IsFiniteSet(all'[t].left)
    <3>1. CASE all' = all
      BY <2>1, <3>1
    <3>2. CASE all' # all
      <4>1. /\ all[u] # None
            /\ all' = [all EXCEPT ![u].made = all[u].made \cup {Top(u).key}]
        BY <2>4, <3>2 DEF Return
      <4>2. all[u] \in Call
        BY <1>1, <4>1 DEF Types
      <4>3. u # t => all'[t] = all[t]
        BY <1>1, <4>1 DEF Types
      <4>4. u = t => all'[t].left = all[t].left
        BY <1>1, <4>1, <4>2 DEF Types, Call
      <4> QED
        BY <1>3, <4>1, <4>3, <4>4 DEF Finite
    <3> QED
      BY <3>1, <3>2
  <2>5. ASSUME NEW u \in Threads, \/ Enter(u) \/ Need(u) \/ Construct(u)
                                  \/ \E k \in Keys : Create(u, k)
        PROVE  all' = all
    BY <2>5 DEF Enter, Need, Construct, Create
  <2>6. ASSUME NEW k \in Keys, Inscribe(k) PROVE all' = all
    BY <2>6 DEF Inscribe
  <2>7. CASE Clear
    <3>1. all'[t].left = all[t].left /\ all[t] # None
      BY <1>1, <1>3, <2>7, ClearedCall DEF Clear
    <3> QED
      BY <3>1 DEF Finite
  <2> QED
    BY <2>1, <2>2, <2>3, <2>4, <2>5, <2>6, <2>7 DEF Next, Step, vars
<1> QED
  BY <1>2, <1>3 DEF Finite

\* At first nobody is in a call, and nothing is inscribed.
LEMMA InitNested == Init => Nested /\ Finite
<1> SUFFICES ASSUME Init PROVE Nested /\ Finite
  OBVIOUS
<1>1. Len(<<>>) = 0
  BY EmptySeq
<1>2. Nested
  BY <1>1 DEF Init, Nested, NestedIn
<1>3. registry = {}
  BY DEF Init
<1> QED
  BY <1>2, <1>3, FS_EmptySet DEF Init, Finite

\* Calls stay nested as they are whatever anybody does.
LEMMA NestedKept == ASSUME IInv, Nested, Finite, [Next]_vars PROVE Nested'
<1>1. ASSUME NEW u \in Threads, stack'[u] = stack[u] PROVE NestedIn(u)'
  BY <1>1 DEF Nested, NestedIn
<1>2. ASSUME NEW t \in Threads, Step(t) PROVE Nested'
  BY <1>1, <1>2, StepShortens DEF Nested
<1>3. ASSUME NEW t \in Threads, \/ \E i \in Interfaces, g \in Signatures : CreateAll(t, i, g)
                               \/ \E k \in Keys : Create(t, k)
      PROVE  Nested'
  BY <1>1, <1>3, CallBegins DEF Nested
<1>4. CASE stack' = stack
  BY <1>1, <1>4 DEF Nested
<1>5. ASSUME NEW k \in Keys, Inscribe(k) PROVE stack' = stack
  BY <1>5 DEF Inscribe
<1>6. Clear => stack' = stack
  BY DEF Clear
<1> QED
  BY <1>2, <1>3, <1>4, <1>5, <1>6 DEF Next, vars

\* The threads that construct singletons never wait for each other in a circle: who waits
\* for a singleton waits for a thread that can go on.
THEOREM NobodyLockedOut == Spec => []NoDeadlock
<1>1. IInv /\ Nested => NoDeadlock
  BY InvariantNoDeadlock
<1>2. IInv /\ Nested /\ Finite /\ [Next]_vars => Nested' /\ Finite'
  BY NestedKept, FiniteKept
<1> QED
  BY <1>1, <1>2, InitNested, Invariance, PTL DEF Spec

\* Neither create() nor createAll() runs for ever: each step of a thread lessens a natural
\* number that nobody else's step raises, nor an inscription.
THEOREM CallsRunOut ==
  Spec => /\ [](\A t \in Threads : ToDo(t) \in Nat)
          /\ [][\A t \in Threads : InCall(t) =>
                  /\ ToDo(t)' <= ToDo(t)
                  /\ Step(t) => ToDo(t)' < ToDo(t)]_vars
<1>1. IInv /\ Finite => \A t \in Threads : ToDo(t) \in Nat
  BY ToDoType DEF IInv
<1>2. IInv /\ Nested /\ Finite /\ [Next]_vars => Nested' /\ Finite'
  BY NestedKept, FiniteKept
<1>3. ASSUME IInv, Nested, Finite, [Next]_vars
      PROVE  [\A t \in Threads : InCall(t) =>
                /\ ToDo(t)' <= ToDo(t)
                /\ Step(t) => ToDo(t)' < ToDo(t)]_vars
  <2> SUFFICES ASSUME Next, NEW t \in Threads, InCall(t)
               PROVE  /\ ToDo(t)' <= ToDo(t)
                      /\ Step(t) => ToDo(t)' < ToDo(t)
    BY <1>3
  <2>1. ToDo(t) \in Nat
    BY <1>3, ToDoType DEF IInv
  <2>2. CASE Step(t)
    BY <1>3, <2>1, <2>2, StepShortens
  <2>3. CASE ~ Step(t)
    <3>1. stack'[t] = stack[t] /\ (all'[t] = all[t] \/ Clear)
      <4>1. ASSUME NEW u \in Threads, Step(u) PROVE stack'[t] = stack[t] /\ all'[t] = all[t]
        BY <1>3, <2>3, <4>1, StepShortens
      <4>2. ASSUME NEW u \in Threads, \/ \E i \in Interfaces, g \in Signatures : CreateAll(u, i, g)
                                      \/ \E k \in Keys : Create(u, k)
            PROVE  stack'[t] = stack[t] /\ all'[t] = all[t]
        BY <1>3, <4>2, CallBegins
      <4>3. ASSUME NEW k \in Keys, Inscribe(k) PROVE stack' = stack /\ all' = all
        BY <4>3 DEF Inscribe
      <4>4. Clear => stack' = stack
        BY DEF Clear
      <4> QED
        BY <4>1, <4>2, <4>3, <4>4 DEF Next
    <3>2. CreateToDo(t)' = CreateToDo(t)
      BY <3>1, CreateToDoNext DEF CreateToDo, Top
    <3>3. AllToDo(t)' \in Int /\ AllToDo(t)' <= AllToDo(t)
      <4>0. AllToDo(t) \in Nat
        BY <1>3, ToDoType DEF IInv
      <4>1. CASE all'[t] = all[t]
        BY <4>0, <4>1 DEF AllToDo
      <4>2. CASE Clear /\ all'[t] = None
        BY <4>0, <4>2 DEF AllToDo
      <4>3. CASE Clear /\ all'[t] # None
        <5>1. all[t] # None /\ all'[t].left = all[t].left
          BY <1>3, <4>3, ClearedCall DEF IInv, Clear
        <5>2. AllToDo(t)' = AllToDo(t)
          BY <4>3, <5>1 DEF AllToDo
        <5> QED
          BY <4>0, <5>2
      <4> QED
        BY <3>1, <4>1, <4>2, <4>3
    <3>4. CreateToDo(t) \in Nat /\ AllToDo(t) \in Nat
      BY <1>3, ToDoType DEF IInv
    <3> QED
      BY <2>3, <3>2, <3>3, <3>4 DEF ToDo
  <2> QED
    BY <2>2, <2>3
<1> QED
  BY <1>1, <1>2, <1>3, InitNested, Invariance, PTL DEF Spec
=============================================================================
