------------------------------ MODULE ArrivalOrder ------------------------------
(***************************************************************************)
(* PrioritizedQueue with the order of arrival of the ready paths as a      *)
(* history variable, from which the refinement mapping to PriorityOrder is *)
(* built.                                                                  *)
(***************************************************************************)
EXTENDS PrioritizedQueue

VARIABLE arrival   \* the ready paths, in the order they became ready

Promise == INSTANCE PriorityOrder
             WITH Level   <- ICost,
                  line    <- arrival,
                  outside <- pq.lazy,
                  stack   <- pq.method = "DepthFirst",
                  taken   <- ret

\* The lazy paths that a step makes ready.
Admitted == IF pq'.lazy = <<>> THEN pq.lazy ELSE <<>>

\* A list without one of its members.
Without(list, p) ==
  IF p \in Elements(list)
  THEN Promise!RemoveAt(list, CHOOSE i \in DOMAIN list : list[i] = p)
  ELSE list

HInit == Init /\ arrival = <<>>

HPush(p)     == Push(p) /\ arrival' = Append(arrival, p)
HPushLazy(p) == PushLazy(p) /\ UNCHANGED arrival
HEmpty       == Empty /\ arrival' = arrival \o Admitted
HPop         == Pop /\ arrival' = Without(arrival \o Admitted, ret')
HClear       == Clear /\ arrival' = <<>>

HNext == \/ \E p \in Paths : HPush(p) \/ HPushLazy(p)
         \/ HEmpty \/ HPop \/ HClear

HSpec == HInit /\ [][HNext]_<<vars, arrival>>

\* The bucketed queue with its cached minimum is indistinguishable from one line
\* of paths served by level and arrival: nothing is lost, duplicated, overtaken
\* within a level, or released from the lazy list before its level is over.
ServesInOrder == Promise!Spec
=============================================================================
