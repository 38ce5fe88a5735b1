----------------------------- MODULE ObjectFactory -----------------------------
(***************************************************************************)
(* Factory<Base, Key>: delegates inscribed under keys, and create(), which *)
(* looks a delegate's wrapper up under the mutex and calls it without.  A  *)
(* delegate may call create() itself, as the one of FunctionStateMeter     *)
(* does for its comparers, so stack[t] holds the create() calls of thread  *)
(* t, the innermost last.  Classes inscribed with FactoryType::Singleton   *)
(* have one object, a function-local static whose construction the other   *)
(* threads wait for.                                                       *)
(*                                                                         *)
(* _map leads from an interface by a name to the wrapper for a constructor *)
(* signature: a key here is such a path.  A class stands for the class,    *)
(* its factory's base and its delegate's signature, which together select  *)
(* the static.                                                             *)
(***************************************************************************)
EXTENDS Naturals, Sequences, FiniteSets

CONSTANTS
  Threads,
  Interfaces,
  Names,       \* the keys of the code
  Signatures,  \* the types of the constructor's arguments
  Keys,        \* BOUND: the paths ever inscribed
  Classes,     \* the classes inscribed as singletons
  Class,       \* Class[k]: the singleton class of key k, or None
  Needs,       \* Needs[k]: the key the delegate of k creates, or None
  None

ASSUME KeysAssumption == Keys \subseteq Interfaces \X Names \X Signatures
ASSUME ClassAssumption == Class \in [Keys -> Classes \cup {None}] /\ None \notin Classes \cup Keys \cup Threads

\* Delegates do not create what they are creating: those that create() something
\* are the meters', which are no singletons, and what they create needs nothing.
ASSUME NeedsAssumption ==
  /\ Needs \in [Keys -> Keys \cup {None}]
  /\ \A k \in Keys : Needs[k] # None => Needs[Needs[k]] = None /\ Class[k] = None

VARIABLES
  registry,  \* _map: the keys that have a wrapper
  stack,     \* create() calls in progress
  object,    \* the singletons: the number of each class's object, 0 for none
  building,  \* the thread that is constructing the singleton, or None
  given,     \* the objects that create() has returned for each singleton class
  all        \* the createAll() call of each thread, or None

vars == <<registry, stack, object, building, given, all>>

\* A create() call: the key whose wrapper it found, and how far it is.
Frame == [key : Keys, phase : {"found", "running", "nested", "done"}]

\* A createAll() call: what it asks for, the names it has still to look up, and the keys
\* of the objects it has.  GHOST: kept, the keys it is to serve: those inscribed when it
\* began that clear() does not take away before their turn.
Call == [interface : Interfaces, signature : Signatures, left : SUBSET Names,
         made : SUBSET Keys, kept : SUBSET Keys]

Top(t)       == stack[t][Len(stack[t])]
At(t, phase) == stack[t] # <<>> /\ Top(t).phase = phase
Advanced(t, phase) == [stack[t] EXCEPT ![Len(stack[t])].phase = phase]
-----------------------------------------------------------------------------
FaultLookup(t, k, calls) ==
  /\ \A u \in Threads : stack[u] = <<>>
  /\ stack' = [stack EXCEPT ![t] =
       IF k \notin registry THEN calls
       ELSE Append(calls, [key |-> k, phase |-> "found"])]

\* getWrapperClass(), called in the state `calls` of thread t's stack; create() returns
\* null where there is no wrapper.  The mutex is released before the wrapper is called,
\* so that it is never held between steps.
Lookup(t, k, calls) ==
  stack' = [stack EXCEPT ![t] =
    IF k \notin registry THEN calls
    ELSE Append(calls, [key |-> k, phase |-> "found"])]

\* create(), from outside.
Create(t, k) ==
  /\ stack[t] = <<>> /\ all[t] = None
  /\ Lookup(t, k, <<>>)
  /\ UNCHANGED <<registry, object, building, given, all>>

FaultEnter(t) ==
  /\ At(t, "found")
  /\ LET c == Class[Top(t).key] IN
       IF c # None /\ object[c] # 0
         THEN /\ stack' = [stack EXCEPT ![t] = Advanced(t, "done")]
              /\ UNCHANGED building
         ELSE /\ stack' = [stack EXCEPT ![t] = Advanced(t, "running")]
              /\ building' = IF c = None THEN building ELSE [building EXCEPT ![c] = t]
  /\ UNCHANGED <<registry, object, given, all>>

\* getInstance(): a singleton that exists is taken; one that another thread is
\* constructing is waited for; any other delegate is run.
Enter(t) ==
  /\ At(t, "found")
  /\ LET c == Class[Top(t).key] IN
       IF c # None /\ object[c] # 0
         THEN /\ stack' = [stack EXCEPT ![t] = Advanced(t, "done")]
              /\ UNCHANGED building
         ELSE /\ c # None => building[c] = None
              /\ stack' = [stack EXCEPT ![t] = Advanced(t, "running")]
              /\ building' = IF c = None THEN building ELSE [building EXCEPT ![c] = t]
  /\ UNCHANGED <<registry, object, given, all>>

\* The delegate calls create(); it gets null if the key is not inscribed.
Need(t) ==
  /\ At(t, "running") /\ Needs[Top(t).key] # None
  /\ Lookup(t, Needs[Top(t).key], Advanced(t, "nested"))
  /\ UNCHANGED <<registry, object, building, given, all>>

FaultConstruct(t) ==
  /\ \/ At(t, "running") /\ Needs[Top(t).key] = None
     \/ At(t, "nested")
  /\ stack' = [stack EXCEPT ![t] = Advanced(t, "done")]
  /\ LET c == Class[Top(t).key] IN
       IF c = None THEN UNCHANGED object
       ELSE object' = [object EXCEPT ![c] = Cardinality(given[c]) + 1]
  /\ UNCHANGED <<registry, building, given, all>>

\* The delegate returns the object.
Construct(t) ==
  /\ \/ At(t, "running") /\ Needs[Top(t).key] = None
     \/ At(t, "nested")
  /\ stack' = [stack EXCEPT ![t] = Advanced(t, "done")]
  /\ LET c == Class[Top(t).key] IN
       IF c = None THEN UNCHANGED <<object, building>>
       ELSE /\ object' = [object EXCEPT ![c] = Cardinality(given[c]) + 1]
            /\ building' = [building EXCEPT ![c] = None]
  /\ UNCHANGED <<registry, given, all>>

\* create() asks the wrapper for its type, converts the pointer and returns.
Return(t) ==
  /\ At(t, "done")
  /\ stack' = [stack EXCEPT ![t] = SubSeq(@, 1, Len(@) - 1)]
  /\ LET k == Top(t).key
         c == Class[k] IN
       /\ given' = IF c = None THEN given
                   ELSE [given EXCEPT ![c] = @ \cup {object[c]}]
       /\ all' = IF Len(stack[t]) > 1 \/ all[t] = None THEN all
                 ELSE [all EXCEPT ![t].made = @ \cup {k}]
  /\ UNCHANGED <<registry, object, building>>
-----------------------------------------------------------------------------
\* createAll(): the names inscribed for interface i now, under whatever signature, each
\* created in its turn with arguments of signature g.
CreateAll(t, i, g) ==
  /\ stack[t] = <<>> /\ all[t] = None
  /\ all' = [all EXCEPT ![t] =
       [interface |-> i, signature |-> g,
        left |-> {k[2] : k \in {j \in registry : j[1] = i}}, made |-> {},
        kept |-> {k \in registry : k[1] = i /\ k[3] = g}]]
  /\ UNCHANGED <<registry, stack, object, building, given>>

FaultNextKey(t) ==
  /\ stack[t] = <<>> /\ all[t] # None
  /\ \E n \in all[t].left :
       LET k == <<all[t].interface, n, all[t].signature>> IN
         /\ Lookup(t, k, <<>>)
         /\ all' = [all EXCEPT ![t].left = IF k \in registry THEN @ \ {n} ELSE {}]
  /\ UNCHANGED <<registry, object, building, given>>

\* A null result is dropped.
NextKey(t) ==
  /\ stack[t] = <<>> /\ all[t] # None
  /\ \E n \in all[t].left :
       /\ Lookup(t, <<all[t].interface, n, all[t].signature>>, <<>>)
       /\ all' = [all EXCEPT ![t].left = @ \ {n}]
  /\ UNCHANGED <<registry, object, building, given>>

AllReturns(t) ==
  /\ stack[t] = <<>> /\ all[t] # None /\ all[t].left = {}
  /\ all' = [all EXCEPT ![t] = None]
  /\ UNCHANGED <<registry, stack, object, building, given>>
-----------------------------------------------------------------------------
\* DISCIPLINE: nobody inscribes a key again, or clears the factory, while a create()
\* of the key is in progress, for that deletes the wrapper the call is using.
InUse(k) == \E t \in Threads : \E i \in 1 .. Len(stack[t]) : stack[t][i].key = k

\* inscribe(): under the mutex; the wrapper that was there is deleted.
Inscribe(k) ==
  /\ ~InUse(k)
  /\ registry' = registry \cup {k}
  /\ UNCHANGED <<stack, object, building, given, all>>

\* clear(): the wrappers go, the singletons stay.
Clear ==
  /\ registry # {} /\ \A k \in Keys : ~InUse(k)
  /\ registry' = {}
  /\ all' = [t \in Threads |->
       IF all[t] = None THEN None
       ELSE [all[t] EXCEPT !.kept = {k \in @ : k[2] \notin all[t].left}]]
  /\ UNCHANGED <<stack, object, building, given>>
-----------------------------------------------------------------------------
Init ==
  /\ registry = {}
  /\ stack = [t \in Threads |-> <<>>]
  /\ object = [c \in Classes |-> 0]
  /\ building = [c \in Classes |-> None]
  /\ given = [c \in Classes |-> {}]
  /\ all = [t \in Threads |-> None]

Step(t) == Enter(t) \/ Need(t) \/ Construct(t) \/ Return(t) \/ NextKey(t) \/ AllReturns(t)

Next ==
  \/ \E k \in Keys : Inscribe(k)
  \/ Clear
  \/ \E t \in Threads :
       \/ \E k \in Keys : Create(t, k)
       \/ \E i \in Interfaces, g \in Signatures : CreateAll(t, i, g)
       \/ Step(t)

Spec == Init /\ [][Next]_vars

\* A thread inside a call keeps running.
FairSpec == Spec /\ \A t \in Threads : WF_vars(Step(t))
-----------------------------------------------------------------------------
(***************************************************************************)
(* Properties.                                                             *)
(***************************************************************************)
\* Every variable has its type, and a singleton under construction is being made by
\* a thread that runs its delegate.
TypeOK ==
  /\ registry \subseteq Keys
  /\ stack \in [Threads -> Seq(Frame)]
  /\ object \in [Classes -> Nat]
  /\ building \in [Classes -> Threads \cup {None}]
  /\ given \in [Classes -> SUBSET Nat]
  /\ \A t \in Threads : all[t] # None => all[t] \in Call
  /\ \A c \in Classes : building[c] # None =>
       \E i \in 1 .. Len(stack[building[c]]) :
         /\ Class[stack[building[c]][i].key] = c
         /\ stack[building[c]][i].phase \in {"running", "nested"}

\* All that create() ever returned for a singleton class is one object: whichever
\* key and thread asked, and also after the key was inscribed again or the factory
\* cleared.
SingletonOnce == \A c \in Classes : Cardinality(given[c]) <= 1

\* createAll() collects names under the mutex and looks them up without it
\* (factory.h:316-336).  Names that are inscribed for other arguments yield nothing, and
\* others inscribe and clear meanwhile: still it returns an object for every key of its
\* interface and arguments that was inscribed when it began, unless clear() took the key
\* before its turn came.
CreateAllServes ==
  \A t \in Threads :
    all[t] # None /\ all[t].left = {} /\ stack[t] = <<>> => all[t].kept \subseteq all[t].made

\* create() returns, also when its delegate calls create() and when other threads
\* construct the same singletons.
CreateReturns == \A t \in Threads : stack[t] # <<>> ~> stack[t] = <<>>
=============================================================================
