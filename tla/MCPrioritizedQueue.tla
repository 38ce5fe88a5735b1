-------------------------- MODULE MCPrioritizedQueue --------------------------
(***************************************************************************)
(* PrioritizedQueue for TLC, with the history variable of ArrivalOrder.    *)
(***************************************************************************)
EXTENDS ArrivalOrder

\* Costs at half-hundredth resolution.  Below zero the conversion to the integer
\* key rounds toward zero: p1, p2 and p4 share key 0, p3 takes key 1, p5 key -4.
PathCost(p) == CASE p = "p1" -> -1 [] p = "p2" -> 0 [] p = "p3" -> 1
                 [] p = "p4" -> -2 [] p = "p5" -> -9
MCMin == -50
MCPaths == {"p1", "p2", "p3", "p4", "p5"}

\* The planner's use of the queue: it only pushes lazily, and its loop keeps
\* popping.
PlannerNext == (\E p \in Paths : HPushLazy(p)) \/ HEmpty \/ HPop

\* pop() changes nothing.  With it, WF_vars(Pop) is stated in a form that spares TLC
\* the evaluation of ENABLED Pop.
PopIsIdle == IsEmpty(pq) /\ ret = NoPath
KeepsPopping == []<>PopIsIdle \/ []<><<Pop>>_vars

\* A path pushed lazily is not starved by the paths pushed after it: once the client
\* uses the queue as the planner does, it becomes available to pop().
LazyBecomesReady ==
  <>[][PlannerNext]_<<vars, arrival>> /\ KeepsPopping =>
    \A p \in Paths : []<>(p \notin Waiting(pq))
=============================================================================
