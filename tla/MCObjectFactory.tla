---------------------------- MODULE MCObjectFactory ----------------------------
(***************************************************************************)
(* A meter whose delegate creates its comparer, as FunctionStateMeter's    *)
(* does; two names for the comparer, which is a singleton; and one of the  *)
(* two again for a comparer that is constructed from an argument, so that  *)
(* createAll() meets a name that has nothing for its own arguments.        *)
(***************************************************************************)
EXTENDS ObjectFactory, TLC

CONSTANTS Meter, Comparer, numeric, other, plain, sized, TheComparer

meter    == <<Meter, other, plain>>
comparer == <<Comparer, numeric, plain>>
alias    == <<Comparer, other, plain>>
scaled   == <<Comparer, numeric, sized>>

MCKeys  == {meter, comparer, alias, scaled}
MCClass == meter :> None @@ comparer :> TheComparer @@ alias :> TheComparer @@ scaled :> None
MCNeeds == meter :> comparer @@ comparer :> None @@ alias :> None @@ scaled :> None
=============================================================================
