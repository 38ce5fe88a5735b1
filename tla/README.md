# A verification project for GoapCpp

TLA+ models of the planning library in `src/GoapMain` (a C++ port of the ActionScript planner in
`src/GoapAS3`), checked by TLC on small instances, with theorems checked by TLAPS.

## 1. Inventory of the system

| Component | State | Operations | Interacts with |
|---|---|---|---|
| **Frontier** `PrioritizedQueue`, `PrioritizedStack` | map from integer cost to list of paths, cached least key `_min`, list of lazy paths | `push`, `pushLazy`, `empty` (not const), `pop`, `clear` | filled and emptied by the search loop |
| **Search** `Planner::makePlan`, `Path` | locals of one call: frontier, `visitedStates`, `minDistance`, the path taken, the answer lists | the loop: take, reject, answer, expand (`gather`) | client functions (validators, executors, meter), `State` hash and equality |
| **Plan cache** `makePlanCached`, `findPlan`, `cacheStates`, `executeActions` | `_statesCaches`: goal state to list of `StatesPlan`; `_planningActions` | cached call, `planningActions()`, `clear()` | `makePlan`, `NumericStateComparer` |
| **State, StateValue** | map of shared values, cost, cached hash | `put`, `add`, `mul`, `merge`, `clone`, `cost`, `touch`, `hash`, `equals` | every container keyed by states |
| **Comparers and meters** | goal state, closures, sub-meters | `distance`, `enough`, `clear` | search, plan cache |
| **Object pool, reference counts** | queue of free objects, maximum size, counter; atomic counts | `create`, `recycle`, `clear`, `setMaxSize`; addRef, releaseRef | every `Goap::new*` and smart pointer, several threads |
| **Factory** | map interface, key, signature to wrapper | `inscribe`, `create`, `createAll`, `isInscribed`, `clear` | `NewPtr`, `goaplibinscribe`, several threads |
| **Sequencer** | list of (time, state), input time | `pushState`, `pullState`, `peekState`, iterators | clients |
| **Streams and sinks** | 128-character buffer, current sink; named sinks | put, overflow, sync, `setSink`; `putSink`, `removeSink`, fan-out | log hooks, several threads |
| Scope timers, `DistributedPersistence`, `GoapApp`, third-party code | | | nothing the planner depends on |

The difficult behaviours are not faults of a network or a disk: nothing is persisted and nothing is
sent. They are (a) long legal sequences of calls on mutable structures with cached derived values
(the least key, the hash of a state, the plans), (b) the disagreement between `State::equals`, which
ignores a state's cost, and `State::hash`, which includes it, inside `unordered_set` and
`unordered_map`, (c) the order in which lazily queued paths are served, on which termination, the
shortest plan and the landmark heuristic depend, and (d) threads: the tests run planners in
`std::async`, which share the factory, the pools and the log streams. `PROJECT.json` lists each
hazard at its line.

What makes each component correct:

- Frontier: paths are neither lost nor duplicated, leave by cost and arrival, lazy ones only when the
  level being served is over; `pop()` never throws; every lazy path becomes ready.
- Search: it returns; a plan that is returned works and matches the list of states; an empty answer
  means that there is no plan; with a blind meter the plan is a shortest one.
- Plan cache: what is kept stays true, a repeated call is served, and with a plan that works.
- State: a cached hash is that of what the state holds, and a state stays where its hash filed it.
- Pool and counts: an object is owned by one holder at a time and returns to the pool once.
- Factory: a singleton is made once, `createAll()` leaves no key out, every call returns.
- Streams: every character reaches one sink, once, in order.

## 2. Modules

| Module | Models | Role |
|---|---|---|
| `PrioritizedQueue` | `prioritizedqueue.cpp`, `prioritizedstack.cpp` | the frontier as a record, one operator per member function, one action per call of any client |
| `PriorityOrder` | (abstract) | what `IPrioritized` promises: one line of paths, no buckets |
| `ArrivalOrder` | (history variable) | `PrioritizedQueue` with the order in which paths became ready, and the mapping to `PriorityOrder` |
| `PlanningProblem` | `planningaction.h`, `iplanningstatemeter.h`, `executeFromRoot` | what a call of the planner is given, and plans and reachability as reference definitions |
| `PlanningContract` | (abstract) | what `IPlanner::makePlan` promises |
| `Search` | `Planner::makePlan`, `path.cpp` | one step per iteration of the loop; holds a `PrioritizedQueue` through INSTANCE |
| `PlanCache` | the rest of `planner.cpp` | one action per call; `makePlan` is represented by the plans that `PlanningProblem` accepts |
| `States` | `state.cpp`, `planningaction.h`, the hash of `statevalue.cpp` | states that share values, the hashes they cache, and executors at work on clones |
| `StateKeys` | | the keys and the null pointer that `States` and `Comparers` share |
| `ObjectPool` | `reuseobjectpool.h`, `irefcounter.h`, `goaplibrary.cpp`, delegates of `factory.h` | counted objects, smart pointers of several threads, the pool |
| `ObjectFactory` | `factory.h` | `inscribe`, `create`, `createAll`, nested and singleton delegates, several threads |
| `OutputStream` | `basicostream.cpp`, `basicsinkcollection.cpp`, `basicostreamsink.cpp` | a buffered stream per writer, sinks that are exchanged, a collection of sinks |
| `Comparers` | `levensteindistance.h`, the three comparers, `statevalue.cpp`'s distances | pure algorithms on exact fractions, and a meter that is set up again |
| `MC...` | | TLC: constants, symmetry, the premises of the liveness properties, families of problems |
| `PlanningProblemProofs` | | lemmas about running a list of actions and about reachability, for the search and the cache; induction up to a bound as a least-counterexample lemma (`UpTo`) |
| other `...Proofs` | | the theorems about the module of that name; `StatesProofs` holds those about `Comparers` too |

Correspondence of state.

- `PrioritizedQueue`, `Search`: `pq.queues`, `pq.min`, `pq.lazy` are `_queues`, `_min`, `_lazyArray`;
  `pq.method` tells the queue from the stack; `ret` is what the last `pop()` returned. `unvisited`,
  `path`, `visited`, `minDistance`, `plan`, `states` are the locals and out-parameters of the same name
  in `makePlan`; a `Path` object is its list of actions from the root and its cost; `pc` tells where the
  call is.
- `PlanCache`: `cache` is `_statesCaches`; the key of an entry is the goal's data with the cost it had
  on insertion, which is what fixes the entry's place in a container that keeps hashes. `findPlan()` and
  `cacheStates()` are public and are actions of their own as well as parts of `makePlanCached()`.
- `States`: `states[s].data` is `_data` (key to pointer), `states[s].hash` is `_cachedHash` with 0 as
  `Unset`, `values[v]` is a `StateValue` with its own cached hash; `visited[s]` is the hash under which
  the container filed `s`. A value exists while a state points to it.
- `ObjectPool`: `count` is `_refcount`, `slot` are the `intrusive_ptr` variables (those of clients and
  the one inside each object, `Path::_parent`), `pool`, `maxSize`, `mutex` are the pool's members, `hand`
  is a raw pointer in flight and `dying[t]` is the call stack of `suicide()`.
- `ObjectFactory`: `registry` is `_map` as the set of its paths (interface, name, signature of the
  constructor) that end in a wrapper; `stack[t]` is the stack of `create()` calls; `object` and `building`
  are the function-local static and the thread inside its initialiser. `all[t]` is a `createAll()` call:
  `left` are the names it has still to look up, collected whatever their signature, `made` the keys of the
  objects it has, `kept` is history. A name that has nothing for the call's signature yields null, which
  is dropped.
- `OutputStream`: `buf`, `sink`, `lock` are `pbase()..pptr()`, `_data` and `_mutex`; `members`,
  `collLock` are the collection's; `logged`, `received`, `to` and `since` are history.

`Gathered` is the whole `gather()` lambda, including that each child is compared with the least
distance *before* the loop while the *last* improving distance is what remains. `Popped` is the whole
`pop()`, with the reinsertion of lazy paths and the recomputed minimum. A critical section that reads
and then writes is two steps, so that it is the mutex and not the model that makes it atomic: without
the lock the properties fail. Definitions whose name begins with "Fault", and those introduced by such a
comment, are wrong variants of the definition that follows; no specification uses them. Putting one in
the place of the right definition makes the property listed with it in `PROJECT.json` fail.

Abstractions. In the planner's modules a state is its data, a member of a small set, and its cost;
values are not modelled. Client functions are tables and read the data only; an action that cannot be
executed and one whose functions throw are the same, because `gather()` adds no path for either. Costs
and distances are integers: tenths for costs and distances, hundredths for path costs (the queue's key
resolution), so sums are exact where the code rounds floats. Looking up a state in an `unordered_set` or
`unordered_map` succeeds for the same cost and may succeed or not for another cost: the standard
leaves it open whether a container compares hashes before it compares keys. libstdc++ stores the hash
for these types and compares it, so there the lookup fails. In `States` a value is a number and a hash
is the tuple of what is hashed: collisions are not modelled, staleness is. In `Comparers` numbers are
exact fractions with 0/0 for NaN.

Disciplines. Some interleavings are undefined behaviour in the code. They are left out by a named
condition, marked DISCIPLINE where it stands, and not shown to be impossible:

- `OutputStream.Serialised`: a writer puts no character while the manager is in `setSink()` of the same
  stream (the buffer is not under the mutex). A sink is registered under one name.
- `ObjectFactory.InUse`: a key that a `create()` is using is neither inscribed again nor cleared
  (`create()` uses the wrapper after it released the mutex).
- `States.Add`: the key is there. For an absent one the code dereferences a null pointer.

## 3. Runs

| Run | Instance | What it shows |
|---|---|---|
| `queue` | 5 paths with costs on both sides of zero at half-key resolution, both subclasses; 19 572 states | `TypeOK`, `MinIsLeastKey`, `BucketsWellFormed`; `ServesInOrder`: the code refines `PriorityOrder`; `LazyBecomesReady`: every path pushed lazily becomes ready |
| `search` | all tables of 4 data and 2 actions (5^6) with costs 1 and 2 and a blind or a landmark meter, and with cost 1 and a meter that tells the goal; the initial state good or not; both methods; 981 673 states | `TypeOK`, `FrontierComplete`, `StatesMatchPlan`, `MakePlanContract` (refinement of `PlanningContract`), `ShortestPlan`, `Terminates` |
| `cache` | 64 worlds of 4 data, 6 calls, 2 sets of actions, goals as costly as the states reached; 429 860 states | `TypeOK`, `KeptPlansWork`, `ExactAnswersWork`, `RepeatsAreServed` |
| `objects` | 2 threads with 2 and 1 handles, 3 objects, pools of size 1 and 2, objects from the pool, from `defaultDelegate()` and from `Goap::new...()`; 194 270 states | `TypeOK`, `CountsExact`, `HeldIsAlive`, `PoolIsClean`, `DiesOnce`, `NothingForgotten`, `QuietSettles` |
| `factory` | 2 threads, a meter whose delegate creates a comparer, two names of the singleton comparer, one of them also for a comparer with an argument; 117 360 states | `TypeOK`, `SingletonOnce`, `CreateAllServes`, `CreateReturns` |
| `states` | 2 states, 4 values, 2 keys, numbers 0 to 2, costs 1 and 2; 431 335 states up to symmetry | `TypeOK`, `HashIsCurrent`, `VisitedFound`, `ExecuteKeepsOthers` |
| `stream` | 2 streams with buffers of 1, 3 and 1 characters, 2 leaves, 2 names in the collection, 2 calls of the manager; 1 452 332 states | `TypeOK`, `NothingLost`, `OnceInOrder`, `MembersAgree`, `CallsReturn` |
| `distances` | one key with all sequences of 0 and 1 up to length 3 and four others, one key with four values, numbers of either sign, null and absent fields, all three comparers; 47 628 states | `LevensteinIsEditDistance`, `ZeroIffEnough`, `WithinUnit`, `ProgressIsSeen` |
| `search_reanalysis` | as `search`, costs 1 and 2 | violated: a state is analysed twice |
| `cache_rests` | as `cache` | violated: the rest of a kept plan is not reused |
| `cache_validity` | as `cache` | violated: an answer contains actions that cannot be executed |
| `objects_raw` | as `objects`, with delegates that return `new T` | violated: `create()` returns a pointer to an object it has just deleted |

The runs with a violation check a sentence of the code's comments or tests that the code does not live
up to; `findings` in `PROJECT.json` quotes it. In `objects_raw` the route matters: a delegate that
returns `new T`, as `tst_factory_all.cpp` inscribes, leaves a count of zero, and the deleter of
`getInstance()` releases a reference that nobody took. `defaultDelegate()` takes it, and is safe.

Other disagreements, met while reading and not kept as runs because no property of the system is at
stake or one call shows them:

- a landmark's cost leaves the band that the comment at `planner.cpp:110` describes as soon as a state
  costs more than 1, and a landmark may make a nearer path dearer;
- `makePlanCached()` gives the goal, a key of `_statesCaches` already, another cost, so that with states
  that cost more than the goal a repetition is not served (`RepeatsAreServed` holds in `cache` because
  goals cost what the states reached cost);
- kept plans outlive a change of the planner's actions; `makePlanCached()` with `pStates` given takes
  `back()` of an empty list;
- the exact comparer counts fields that only one of the states has, while its comment speaks of the
  common ones; an empty goal, and for the Levenshtein comparer two empty values, have distance NaN; the
  numeric comparer gives two equal vectors of zeros, and two empty values, the distance 1, and a vector
  and its prefix the distance 0 (`Alike` in `Comparers` excludes these);
- the comments at `basicmath.cpp:16` and `numericstatecomparer.cpp:61` promise similarities and distances
  in 0..1, but `floatSimilarity(1, -1)` is 2, and a negative cosine leads beyond 1 as well. `WithinUnit`
  states the bounds that hold: 2, and 1 where no opposite signs meet;
- `add()` changes a value in place for every state that shares it and touches one of them, and an empty
  map given to `assign()` empties a state without touching it: the hashes cached elsewhere, or before,
  stay. `HashIsCurrent` and `VisitedFound` say that there is no other way for a hash to be stale, and of
  what it then is;
- `createAll()` passes over a name inscribed for other arguments, and logs an error for it;
- a recycled `FunctionStateMeter` keeps its former client's functions.

Bounds. The queue's costs (-4.5 to 0.5 hundredths in half hundredths) make three costs share key 0 and
put two keys apart, so every branch of `push` and `pop` is taken: a bucket that is drained and refilled
by a lazy path of its own key, a reinsertion below and above the minimum. Five paths allow two in one
bucket, two lazy and one in another bucket. Four data suffice for two paths to one state, dead ends,
cycles and plans of three steps; the tables are exhaustive up to the fact that a good state's successors
are never used. `MaxCost` = 200 is the largest distance times cost of these problems. `MaxLength = 3` is
the longest cycle-free plan of four data. `MaxPlans = 2` lets a call choose between two kept plans of
one goal. `LLONG_MIN` and `LLONG_MAX` are small numbers beyond every key; the code's conversion of a
cost outside the range of `int64_t` is not modelled. Three objects allow a chain of two nested deaths
while the other thread recycles the third, or a full pool with one object in use; three handles allow
sharing within a thread and between threads. Two states are one with its clone, or two
that share values by `assign()` and `merge()` while one of them is filed; four values let every key have
one of its own, also in the clone, or share. That an executor leaves bystanders alone as well is proved.
A buffer of one character overflows on the second, and three characters pass through the buffer, the
overflow and a change of sink. Sequences up to length 3 on two letters contain every
shape of the table's recurrence (equal, replaced, inserted, deleted, either length longer).

Deadlock is checked except in `search`, where a call returns, and in `stream`, where the streams are
closed and the manager's calls used up.

Fairness. `Terminates` assumes that the thread in `makePlan` keeps running: weak fairness of the
loop. `LazyBecomesReady` assumes a client that, from some point on, only pushes lazily, as `gather()`
does, and keeps popping, as the loop does. Both are written with the enabling condition spelled out
(`Busy`, `PopIsIdle`), which TLC evaluates at once where `ENABLED` of these actions takes it very long.
In `ObjectPool`, `ObjectFactory` and `OutputStream` each thread's steps *inside* a call are weakly fair,
calls are not: a thread in a call keeps running, a client need never call again. A mutex that is free
from some point on is therefore got; one that others take again and again need not be, which is all
`std::mutex` promises. `QuietSettles` and `CallsReturn` accordingly say what happens once the clients
stop calling. `CreateReturns` needs no such premise, because `create()` holds no mutex between its steps.

## 4. Proofs

Each `...Proofs` module proves, for every value of the constants that its module's assumptions allow,
`Spec => []IInv` for an inductive invariant and from it the theorems that `PROJECT.json` lists.

**`PrioritizedQueueProofs`**: `TypeCorrect`, `MinCorrect`, `BucketsCorrect` and `PopCorrect` (`pop()`
never reaches its exception; no run checks this one) for every set of paths, every cost function within
the range of the keys and every resolution. `IInv` says that the object is `Settled` (well typed, no
empty bucket, every path in the bucket of its key, `min` the least key) and that the last answer is a
path or null. Assumptions: `ScaleAssumption`, `CostAssumption` (integer costs whose keys lie in
`LLONG_MIN .. LLONG_MAX - 1`) and `NullAssumption`. None of the four properties is inductive alone:
`PopNeverThrows` needs the minimum to be a key, which needs buckets not to be empty, and the minimum
after `pop()` needs every bucket that a lazy path joins to be compared with it. During the reinsertion
the object is not settled (the bucket being drained may be empty), so `InsertionsProgress` carries a
weaker statement, exact about every bucket but one, along the recursive function `Insertions`; since no
induction theorem of the library can be applied, the induction is a least-counterexample argument
(`LeastNatural`, `UpTo`: a set that contains 0 and is closed under successors up to N contains 0..N). A
key is a bounded integer, so `LeastKey`'s CHOOSE has a witness by `LeastInteger`.

The refinement (`ServesAsPromised`: `HSpec => ServesInOrder`) is proved along `OrderInv`: the invariant
above, `Follows` and `Apart`. `Follows` says what the buckets have to do with the line: the line holds
the ready paths, each once, and the paths of a bucket stand in the line in the order of the bucket
(`Before`). `Apart` says that no lazy path is ready or waits twice. `push()` and every round of
`useLazyArray()` append to the line and to one bucket (`PushedFollows`, `ReinsertedFollows`). For
`pop()`, all of the least level are in one bucket, and the first (for a stack the last) of the bucket is
the first (last) of them in the line, so it is the one `PriorityOrder` serves; the bucket is drained
exactly when its level is over (`TakenFollows`), which is when the lazy paths join. An `empty()` that
refills is `LetIn`, any other stutters.

`EachPathCounts` is an action property about `Stored`, the number of positions in the buckets and the lazy
list: each push adds one and each `pop()` that answers takes one out. The order alone would allow a bucket
to be erased with a path in it; the proof follows the positions (`Slots`) through every path that is
appended, every lazy path that is let in (`InsertionsCount`) and every bucket that is drained.

**`ObjectPoolProofs`**: `CountsExact`, `HeldIsAlive`, `PoolIsClean`, `DiesOnce` and `NothingForgotten` for
any threads, objects and smart pointers, as long as `"bare"` is not among the routes (with it they are
false, see `objects_raw`). The invariant adds to the six properties what links a thread's program
counter to what it holds: where the mutex is held, what is in the hand and how many references it
counts, that an object being recycled has no reference left, that a dying object's frame is on one
stack only. Counting is the hard part: a count equals the cardinality of the set of holders, and each
step adds or removes one holder of at most two objects. `NobodyLockedOut`: the mutex is not recursive,
`clear()` runs destructors under it, and `recycle()` asks for it; since the objects in the pool refer to
nothing, no death under the mutex leads to a `recycle()`, and whoever waits waits for another thread
that can go on. Its second invariant, `Provided`, says that what the model's bounds let a call begin
with (an address, a smart pointer, a route) is there until it is used, so that no call is stuck on a
bound either. Here and below, `CanStep` spells out when `Step` is enabled.

**`ObjectFactoryProofs`**: `SingletonOnce` and `CreateAllServes`, under `KeysAssumption` and
`NeedsAssumption`. The invariant says that a frame past `found` of a singleton's key is that of the
builder or follows the object's construction, that all that was given out is the object there is, and
that each key `createAll()` is to serve was made, is in progress, or is still inscribed with its name
left to look up (`Accounted`), which only a `clear()` before its turn undoes. `NobodyLockedOut` and
`CallsRunOut` are why `create()` returns: a thread waits only for the construction of a singleton, whose
builder is in its delegate, which needs nothing (`NeedsAssumption` again) and can therefore go on; and
every step lessens `ToDo`, the sum of the steps each call in progress and each key left of `createAll()`
may still take. `Nested` bounds the depth of the calls, `Finite` the names `createAll()` collects.

**`StatesProofs`**: `HashIsCurrent`, `VisitedFound` and the action property `ExecuteKeepsOthers`. The
invariant adds that a value's cached hash is its number (`Cached`), that two pointers to one value exist
only for values in `shared` (`Separate`), so that a change in place through `add()` makes no hash stale
but in such a value (`ReflectsKept`), and that no other state points to a value of the clone an executor
works on (`CloneApart`): `clone()` copies the values, shared or not, so the executor's `add()` reaches
nobody else, although that of a client may.

Its second half is about the meters (`Comparers`), for any finite set of keys and any sequences of
integers as values (`ValueAssumption`). Whatever a meter is set to, two well-formed states and a
comparer (`MeterTyped`) are all that three of the properties need; the fourth compares two steps of
them.

- `LeastCostOfAnyCosts`: `GeneralizedLevensteinDistance` is the least cost of an alignment of any two
  sequences, whatever natural numbers insertion, deletion and replacement cost. `LevensteinIsLeastCost`
  (`LevensteinIsEditDistance`) is the case of the fields of a state and a goal. `RowsAre` and `ColumnIs`
  show that the row the code keeps satisfies the recurrence of the whole table, and `CellsAreLeast` that
  an entry is the least cost of aligning two prefixes: an alignment leaves one of the last elements out or
  pairs the two (`LastPair`), each of which costs one entry more (`LeastInside`). `EveryPlace` is the
  induction over the table. Exchanging the sequences transposes the table (`CellsTransposed`), so the swap
  that makes the longer one the target is right exactly if the costs of insertion and deletion are swapped
  with it.
- `StaysWithinUnit` (`WithinUnit`): the distance of two values lies between 0 and 1, for the numeric
  comparer between 0 and 2, and beyond 1 only where numbers of opposite signs stand in one place
  (`Bounded`): by `EntryBounds` for the table, `ScalarBounds` for numbers and, for vectors,
  `DotBound` (twice a.b is at most a.a plus b.b, of either sign). A sum of n of them lies between 0
  and n, or 2n (`SumBounds`).
- `ZeroExactlyIfEnough` (`ZeroIffEnough`): `SumBounds` also says that the sum is zero only if each is.
- `ProgressIsAlwaysSeen` (`ProgressIsSeen`): a field that meets the goal takes its summand out
  (`ReplacedSummand`), or adds a zero and is no longer missing (`AddedSummand`). Either singles one
  key out, which a sum over a set allows because `Plus` commutes (`PlusCommutes`, `FoldingAny`).

The recursive functions and `FoldSet` are shown to exist, and to satisfy their equations, with `UpTo` and
`SubsetInduction`, the counterpart for finite sets.

**`SearchProofs`**: `TypeCorrect`, `ForgetsNothing` (`FrontierComplete`), `StatesOfThePlan`
(`StatesMatchPlan`), `FindsShortest` (`ShortestPlan`) and `MakesPlans`, the refinement of
`PlanningContract`: the safety half of what `makePlan` promises, for any problems, actions, meters and
either kind of frontier. The frontier's
lemmas are used through an instance of `PrioritizedQueueProofs` whose paths are those with a key
(`Fitting`); the two instances of the queue's operators are shown equal one by one. That every path fits
is the heart of the matter, since the key of a cost outside the range is what could break `pop()`: a
path of the frontier runs through states that were analysed and all differ (`Proper`), therefore it has
at most `MostStates` actions (an injection into what the problem's tables contain), and each action adds
at most `MaxCost` to what a landmark's cost, which does not depend on the path, amounts to. `IInv` joins
this to `FrontierComplete`, the phases of the call and the settled queue. An answer "no plan" is right
because the analysed data are closed under the actions (`ClosedUnsolvable`). Assumptions: every planning
action is in `ActionList`, data and actions are finite, `MaxCost` bounds distance times cost of what an
action leads to (`ProblemsAssumption`), and the key range exceeds `(4 + MostStates) * MaxCost + 1001`
(`KeysAssumption`).

`ShortestPlan` rests on an order among all the paths of the frontier, the second invariant `Levels`: with
a blind meter (`Blind`: no landmarks, one positive cost, a distance that tells at most good states from
the others) there is a number `n` such that every held path has `n` or `n + 1` actions, one has `n`
unless none is held, no waiting path is shorter than a ready one (`Early`), a path's cost is determined
by its length and whether it ends in a good state (`Spread`), and whatever at most `n` actions reach was
analysed, or a held path of `n` actions ends there (`Covered`). A path that is analysed is therefore one
of the shortest: a shorter one would be ready and cheaper, or wait behind a longer one (`LeastIsShort`);
its successors go to the lazy list and have `n + 1` actions (`LevelGoesOn`); when the last path of `n`
actions is gone, the level rises (`LevelSettles`). The order within a bucket plays no part, so that the
stack does as well as the queue. The premise `Blind` is needed in this form: with distances of zero or
less for states that are not good, or with good states at different distances, the property fails.

`SearchRunsOut` bounds the loop, whatever the costs: `RoundsLeft` is the number of paths that wait plus
the number of actions for each of the `MostStates` states that is not analysed yet. A round either takes
a path out for good or analyses a state, which adds one path for each action at most; `EachPathCounts`'s
lemmas count the paths. That a state analysed again at another cost counts as another state (see
`search_reanalysis`) is why the bound is in states, and not in data.

**`PlanCacheProofs`**: type correctness and `KeptPlansWork` are inductive together. The lemmas are about
runs of a plan: `executeActions()` and `Trajectory` (in `PlanningProblemProofs`) are recursive
functions, of which existence, type and step are proved with `UpTo`, and a plan runs alike whatever the
other actions are and whatever the cost of the state it starts in. `RepeatsServed` proves
`RepeatsAreServed` under the premise `OneCostAssumption` (what actions lead to and goals have one cost,
and the comparer's distance is zero between equal data only), without which the code does not serve
every repetition. Under the same premise `ExactAnswers` proves `ExactAnswersWork`: the list that
`findPlan()` searches holds the plan that starts in the call's initial state, at distance zero, so that
none that is only near is taken, and a kept plan works to its end.

**`OutputStreamProofs`**: `TypeOK`, `NothingLost`, `OnceInOrder` and `MembersAgree`, for any streams,
leaves, names, buffer size and numbers of calls. Besides the four, the inductive invariant `IInv` has

- `Locking`, `CollLocking`: a stream's mutex is held by the actor inside one of its member functions, and
  meanwhile its buffer is empty, a closed stream's for ever; the collection's by the actor whose write it
  hands on, and the sink of that actor's stream is the collection until it has. The program counters
  (`on`, `job`, `next`) and the mutexes say the same, which is what makes two steps of two threads on one
  stream or on the collection impossible;
- `InSequence`: what is buffered, or being written piece by piece, is of one stream and numbered upwards.
  `OnceInOrder` compares what reached a leaf, and would not survive a step without knowing this of what is
  about to reach it;
- `Before`: what a leaf has got precedes what its stream has still to write, except for the piece that is
  being handed on and has reached the leaf already (`Served`). It needs a sink to be registered under one
  name, which is the discipline of `PutSink`: a sink of two names would get the piece twice;
- `ForThisSink`: what is buffered or being written was put for the sink the stream has now. `setSink()`
  writes out the buffer before it installs the new sink, so no character changes its destination;
- `HandingOn`: a member's list ends with the log since its registration, up to the piece in progress where
  the hand-over has not come to its name yet. `MembersAgree` is the case without a write in progress.

`ViaCollection` is a recursive function over what a leaf received; the proof characterises it by its
steps (`Through`) and shows with `UpTo` that it appends piece by piece.

`NobodyLockedOut` and `CallsRunOut` are why a call returns. A write to the collection is the only place
where an actor in a call asks for a second mutex; the owner of that mutex is handing on a piece, needs no
further one and can go on. `ToDo` counts the pieces that a call has still to write, each with the members
it may be handed on to.

Only model-checked: liveness (`LazyBecomesReady`, `Terminates`, `QuietSettles`, `CreateReturns`,
`CallsReturn`), which with ENABLED is beyond the prover. For `Terminates`, `CreateReturns` and
`CallsReturn` what a proof of liveness rests on is proved: somebody can always go on (`NobodyLockedOut`;
for the search, that `pop()` does not throw) and only finitely often (`SearchRunsOut`, `CallsRunOut`).
For `QuietSettles` the first half is; the second would need a rank on the chains of parents, which is an
induction over data. Every other property of the passing runs is a theorem (`RepeatsAreServed` and
`ExactAnswersWork` under the premise named above). The runs that expect a violation are counterexamples
and need no proof.

## 5. Not modelled, and what is left

- `Search`: an exception that `enough()` lets out of `makePlan`; the observer callback; a caller's
  non-empty `actionsArray`; `Path`'s cache of its result, whose key is the initial state's data; printing;
  float rounding; landmark costs outside the band.
- `PlanCache`: `pStates` given by the caller, an output list used again. Each is one call's matter.
- `States`: vectors, conversions and element-wise arithmetic of `StateValue`; a client that changes a
  value through `at()`.
- `ObjectPool`: the counter of avoided allocations; several classes with a pool each (one pool's mutex
  is never taken inside another's, since `recycle()` clears outside the lock and `Path::clear()` drops
  the parent); the `clear()` of other classes (`Planner`'s and `FunctionStateMeter`'s keep members).
- `OutputStream`: `flush()` and `eof()`, which move no characters.
- `Comparers`: rounding of half and float, `distancePure()`, which nothing calls.
- `Sequencer`: its one client is a test (`Tests/GoapTest/tst_goap.cpp:50`) that pushes a string and
  iterates over it. Nothing calls `pullState()` or `peekState()`, which take the front of a list that may
  be empty, and no factory inscribes `ISequencer`.
- Scope timers, `DistributedPersistence`, `GoapApp`: nothing depends on them. Vendored code.

The vendored libraries are nearly all of the lines under `src/`; the planner's own code is about seven
thousand lines with its interfaces, of which the modules model the part with state and control.

