---------------------------- MODULE MCObjectPool ----------------------------
(***************************************************************************)
(* ObjectPool for TLC: two threads, one with two handles, so that an       *)
(* object is shared within a thread and between threads.                   *)
(***************************************************************************)
EXTENDS ObjectPool, TLC

CONSTANTS t1, t2, h1, h2, h3, o1, o2, o3

MCThreads == {t1, t2}
MCHandles == {h1, h2, h3}
MCObjects == {o1, o2, o3}
MCOwner   == (h1 :> t1) @@ (h2 :> t1) @@ (h3 :> t2)
MCSizes   == {1, 2}
=============================================================================
