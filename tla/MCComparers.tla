------------------------------ MODULE MCComparers ------------------------------
(***************************************************************************)
(* One key with every sequence of zeros and ones up to length three, and   *)
(* numbers and vectors of either sign besides; another with a few values.  *)
(***************************************************************************)
EXTENDS Comparers, TLC

CONSTANTS long, short

MCValuesOf ==
  long  :> (UNION {[1 .. n -> 0 .. 1] : n \in 0 .. 3} \cup {<<2>>, <<-1>>, <<2, 1>>, <<-1, 1>>}) @@
  short :> {<<>>, <<0>>, <<2>>, <<-3>>}
=============================================================================
