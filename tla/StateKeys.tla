------------------------------- MODULE StateKeys -------------------------------
(***************************************************************************)
(* What states and the meters that measure them have in common.            *)
(***************************************************************************)
CONSTANTS
  Keys,   \* the keys of a state, which are never changed
  Null    \* the null pointer
=============================================================================
