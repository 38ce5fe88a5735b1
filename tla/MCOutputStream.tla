---------------------------- MODULE MCOutputStream ----------------------------
(***************************************************************************)
(* OutputStream for TLC: two streams, two leaves, two names.               *)
(***************************************************************************)
EXTENDS OutputStream, TLC

CONSTANTS p, q

MCStreams  == {p, q}
MCMaxChars == (p :> 3) @@ (q :> 1)
=============================================================================
