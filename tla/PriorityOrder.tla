----------------------------- MODULE PriorityOrder -----------------------------
(***************************************************************************)
(* What a goap::IPrioritized promises its client, without buckets, map or  *)
(* cached minimum.  The paths that may be taken stand in one line, in the  *)
(* order they joined it.  A pop takes one of least level: the one that     *)
(* joined first, or the newest one for a stack.  Lazily added paths stay   *)
(* outside the line until the level being served has nobody left, and then *)
(* all of them join.                                                       *)
(***************************************************************************)
EXTENDS Integers, Sequences, SequencesExt

CONSTANTS
  Paths,     \* what can be queued
  Level(_),  \* the level at which a path is served: least first
  NoPath     \* returned when there is nothing to take

VARIABLES
  line,      \* the paths that may be taken, in order of arrival
  outside,   \* the lazily added ones, in order of arrival
  stack,     \* TRUE when the newest path of a level is taken first
  taken      \* the answer of the last pop

abstractVars == <<line, outside, stack, taken>>

Least(s)    == {i \in DOMAIN s : \A j \in DOMAIN s : Level(s[i]) <= Level(s[j])}
Served(s)   == CHOOSE i \in Least(s) :
                 \A j \in Least(s) : IF stack THEN j <= i ELSE i <= j

Init == /\ line = <<>>
        /\ outside = <<>>
        /\ stack \in BOOLEAN
        /\ taken = NoPath

Join(p)   == /\ line' = Append(line, p)
             /\ UNCHANGED <<outside, stack, taken>>

JoinLater(p) == /\ outside' = Append(outside, p)
                /\ UNCHANGED <<line, stack, taken>>

\* Asking whether anything is left lets everybody in when the line is empty.
LetIn     == /\ line = <<>>
             /\ line' = outside
             /\ outside' = <<>>
             /\ UNCHANGED <<stack, taken>>

TakeFrom(present, later) ==
  LET i    == Served(present)
      rest == RemoveAt(present, i)
      level_is_over == \A j \in DOMAIN rest : Level(rest[j]) # Level(present[i])
  IN  /\ taken' = present[i]
      /\ line' = IF level_is_over THEN rest \o later ELSE rest
      /\ outside' = IF level_is_over THEN <<>> ELSE later
      /\ UNCHANGED stack

Take      == \/ line # <<>> /\ TakeFrom(line, outside)
             \/ line = <<>> /\ outside # <<>> /\ TakeFrom(outside, <<>>)

TakeNothing == /\ line = <<>> /\ outside = <<>>
               /\ taken' = NoPath
               /\ UNCHANGED <<line, outside, stack>>

Forget    == /\ line' = <<>>
             /\ outside' = <<>>
             /\ UNCHANGED <<stack, taken>>

Next == \/ \E p \in Paths : Join(p) \/ JoinLater(p)
        \/ LetIn \/ Take \/ TakeNothing \/ Forget

Spec == Init /\ [][Next]_abstractVars
=============================================================================
