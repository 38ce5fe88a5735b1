-------------------------------- MODULE MCStates --------------------------------
(***************************************************************************)
(* States on two states of up to two keys, four values: one state can be   *)
(* the clone of the other.  Addresses are symmetric.                       *)
(***************************************************************************)
EXTENDS States, TLC

MCCosts == {1, 2}
MCSymmetry == Permutations(StateIds) \cup Permutations(ValueIds) \cup Permutations(Keys)
=============================================================================
