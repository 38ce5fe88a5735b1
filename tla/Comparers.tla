------------------------------- MODULE Comparers -------------------------------
(***************************************************************************)
(* ComparerStateMeter: how far a state is from a goal in the eyes of the   *)
(* numeric, the exact or the Levenshtein comparer, and whether it is good  *)
(* enough, which all three leave to the numeric one.                       *)
(*                                                                         *)
(* A value is a sequence of integers, a state gives each key a value, a    *)
(* null pointer or nothing.  Distances are exact fractions; the            *)
(* denominator zero stands for NaN, with which no comparison is true.      *)
(***************************************************************************)
EXTENDS StateKeys, Integers, Sequences, FiniteSets, FiniteSetsExt

CONSTANTS
  ValuesOf,   \* the values that clients put under each key
  Absent      \* of a key that a state does not have

ASSUME ValueAssumption ==
  /\ IsFiniteSet(Keys)
  /\ \A k \in Keys : ValuesOf[k] \subseteq Seq(Int)
  /\ Null # Absent /\ Null \notin Seq(Int) /\ Absent \notin Seq(Int)

VARIABLES
  goal,      \* _goalState
  comparer,  \* _comparer
  state      \* the state that is measured

meterVars == <<goal, comparer, state>>

AllComparers == {"numeric", "exact", "levenstein"}
IsState(s) ==
  /\ DOMAIN s = Keys
  /\ \A k \in Keys : s[k] \in ValuesOf[k] \cup {Null, Absent}
-----------------------------------------------------------------------------
(***************************************************************************)
(* Fractions.                                                              *)
(***************************************************************************)
Fraction(n, d) == [num |-> n, den |-> d]
Plus(f, g)     == Fraction(f.num * g.den + g.num * f.den, f.den * g.den)
IsNaN(f)       == f.den = 0
IsZero(f)      == f.den # 0 /\ f.num = 0
Less(f, g)     == ~IsNaN(f) /\ ~IsNaN(g) /\ f.num * g.den < g.num * f.den

Greater(x, y) == Max({x, y})
Magnitude(x)  == IF x < 0 THEN -x ELSE x
-----------------------------------------------------------------------------
(***************************************************************************)
(* Values.                                                                 *)
(***************************************************************************)
\* Column c of the loop over the target: row[i] is the entry for the first i
\* elements of the source, the old entry before it the diagonal one.
Column(row, source, c, insert, delete, replace) ==
  LET new[i \in 0 .. Len(source)] ==
        IF i = 0 THEN row[0] + insert
        ELSE IF source[i] = c THEN row[i - 1]
        ELSE Min({new[i - 1] + delete, row[i] + insert, row[i - 1] + replace})
  IN  new

\* The row after each element of the target.
Rows(source, target, insert, delete, replace) ==
  LET row[j \in 0 .. Len(target)] ==
        IF j = 0 THEN [i \in 0 .. Len(source) |-> i * delete]
        ELSE Column(row[j - 1], source, target[j], insert, delete, replace)
  IN  row

\* The last entry of the table, the source being the shorter sequence.
Table(source, target, insert, delete, replace) ==
  Rows(source, target, insert, delete, replace)[Len(target)][Len(source)]

FaultLevenstein(source, target, insert, delete, replace) ==
  IF Len(source) > Len(target) THEN Table(target, source, insert, delete, replace)
                               ELSE Table(source, target, insert, delete, replace)

GeneralizedLevensteinDistance(source, target, insert, delete, replace) ==
  IF Len(source) > Len(target) THEN Table(target, source, delete, insert, replace)
                               ELSE Table(source, target, insert, delete, replace)

FaultPerShortest(a, b) ==
  Fraction(GeneralizedLevensteinDistance(a, b, 1, 1, 1), Min({Len(a), Len(b)}))

levensteinDistance(a, b) ==
  Fraction(GeneralizedLevensteinDistance(a, b, 1, 1, 1), Greater(Len(a), Len(b)))

FaultScalar(x, y) ==
  LET greater == Greater(Magnitude(x), Magnitude(y))
  IN  IF greater = 0 THEN Fraction(0, 1) ELSE Fraction(Magnitude(x - y) \div greater, 1)

\* floatSimilarity(): numbers of opposite signs are further apart than 1.
ScalarDistance(x, y) ==
  LET greater == Greater(Magnitude(x), Magnitude(y))
  IN  IF greater = 0 THEN Fraction(0, 1) ELSE Fraction(Magnitude(x - y), greater)

\* One less the cosine times the similarity of the modules m and n, over the common
\* length.  The product is a.b / mn times the smaller over the greater module, which
\* is a.b over the square of the greater one; the cosine, and with it a.b, may be
\* negative.
Dot(v, w, common) == MapThenSumSet(LAMBDA i : v[i] * w[i], common)

VectorDistance(a, b) ==
  LET common == 1 .. Min({Len(a), Len(b)})
      square == Greater(Dot(a, a, common), Dot(b, b, common))
  IN  IF Dot(a, a, common) = 0 \/ Dot(b, b, common) = 0 THEN Fraction(1, 1)
      ELSE Fraction(square - Dot(a, b, common), square)

NumericDistance(a, b) ==
  CASE Len(a) = 1 /\ Len(b) = 1 -> ScalarDistance(a[1], b[1])
    [] Len(a) = 0 \/ Len(b) = 0 -> Fraction(1, 1)
    [] OTHER                    -> VectorDistance(a, b)
-----------------------------------------------------------------------------
(***************************************************************************)
(* States.                                                                 *)
(***************************************************************************)
Fields(s) == {k \in Keys : s[k] # Absent}
Given(s)  == {k \in Keys : s[k] \notin {Null, Absent}}   \* keys at which at() is not null
Same(s, g) == Given(s) \cap Given(g)

\* NumericStateComparer::enough(), which the other comparers inherit.
Enough(s, g) == \A k \in Given(g) : k \in Given(s) /\ s[k] = g[k]

\* How far two values are in the eyes of comparer c.
ValueDistance(c, a, b) ==
  IF c = "numeric" THEN NumericDistance(a, b) ELSE levensteinDistance(a, b)

\* The sum of the distances of the values under the keys K.
SumOver(c, s, g, K) ==
  FoldSet(LAMBDA k, sum : Plus(ValueDistance(c, s[k], g[k]), sum), Fraction(0, 1), K)

\* The loop of the numeric and the Levenshtein comparer: a field of the goal that is
\* not compared counts as one.
PerField(c, s, g) ==
  LET fields == Cardinality(Fields(g))
      sum    == Plus(SumOver(c, s, g, Same(s, g)),
                     Fraction(fields - Cardinality(Same(s, g)), 1))
  IN  Fraction(sum.num, sum.den * fields)

FaultExact(s, g) ==
  LET same == Cardinality(Same(s, g))
      differing == Cardinality({k \in Same(s, g) : s[k] # g[k]})
      unmatched == Cardinality(Fields(g)) - same
  IN  Fraction(differing + unmatched, same + unmatched)

\* ExactStateComparer::distance(): fields of either state that are not compared count.
Exact(s, g) ==
  LET same == Cardinality(Same(s, g))
      differing == Cardinality({k \in Same(s, g) : s[k] # g[k]})
      unmatched == Cardinality(Fields(g)) + Cardinality(Fields(s)) - same - same
  IN  Fraction(differing + unmatched, same + unmatched)

Distance(c, s, g) ==
  IF c = "exact" THEN Exact(s, g) ELSE PerField(c, s, g)
-----------------------------------------------------------------------------
FieldContents(k) == ValuesOf[k] \cup {Null, Absent}
AllStates   == {s \in [Keys -> UNION {FieldContents(k) : k \in Keys}] : IsState(s)}

MeterInit == goal \in AllStates /\ state \in AllStates /\ comparer = "numeric"

\* comparer(c): the numeric one for a null pointer.
Comparer(c) ==
  /\ comparer' = IF c = Null THEN "numeric" ELSE c
  /\ UNCHANGED <<goal, state>>

\* goalState(g), of a meter that is used for another search.
GoalState(g) ==
  /\ goal' = g
  /\ UNCHANGED <<comparer, state>>

\* An action of the plan gives key k the value v, or removes it (v = Absent).
Change(k, v) ==
  /\ state' = [state EXCEPT ![k] = v]
  /\ UNCHANGED <<goal, comparer>>

MeterNext ==
  \/ \E c \in AllComparers \cup {Null} : Comparer(c)
  \/ \E g \in AllStates : GoalState(g)
  \/ \E k \in Keys : \E v \in FieldContents(k) : Change(k, v)

MeterSpec == MeterInit /\ [][MeterNext]_meterVars
-----------------------------------------------------------------------------
(***************************************************************************)
(* Properties.                                                             *)
(***************************************************************************)
Measured == Distance(comparer, state, goal)

\* The ways to keep elements of a, in their order, as elements of b.
Alignments(a, b) ==
  {m \in SUBSET ((1 .. Len(a)) \X (1 .. Len(b))) :
     \A x, y \in m : (x[1] < y[1] <=> x[2] < y[2]) /\ (x[1] = y[1] <=> x[2] = y[2])}

\* What an alignment costs: the rest of a is deleted, the rest of b is inserted, and
\* what is kept as another element is replaced.
CostOf(m, a, b, insert, delete, replace) ==
  (Len(a) - Cardinality(m)) * delete + (Len(b) - Cardinality(m)) * insert
    + Cardinality({x \in m : a[x[1]] # b[x[2]]}) * replace

\* The single row that the code keeps, with the longer sequence as the target, yields
\* the least cost of an alignment, whatever the three costs (levensteindistance.h:10).
LevensteinIsEditDistance ==
  \A k \in Same(state, goal) : \A insert, delete, replace \in 1 .. 2 :
    GeneralizedLevensteinDistance(state[k], goal[k], insert, delete, replace)
      = Min({CostOf(m, state[k], goal[k], insert, delete, replace) :
               m \in Alignments(state[k], goal[k])})

\* What the numeric comparer can tell apart: numbers, and vectors of one length that
\* are not all zero.
Comparable(v) == v \in Seq(Int) /\ v # <<>> /\ (Len(v) > 1 => \E i \in DOMAIN v : v[i] # 0)
Alike == \A k \in Fields(goal) :
           /\ Comparable(goal[k])
           /\ k \in Given(state) => Len(state[k]) = Len(goal[k])

\* "If Distance == 0, both are equal" (numericstatecomparer.h:29, exactstatecomparer.h:29),
\* and a goal that is met is at distance zero: the meters' distance() and enough()
\* agree, except for the numeric one on what it cannot tell apart.
ZeroIffEnough ==
  /\ comparer = "exact" /\ IsZero(Measured) => state = goal
  /\ comparer = "exact" /\ state = goal /\ Given(goal) = Fields(goal) /\ Given(goal) # {}
       => IsZero(Measured)
  /\ comparer = "levenstein" /\ IsZero(Measured) => Enough(state, goal)
  /\ comparer # "exact" /\ Alike /\ Fields(goal) # {} =>
       (IsZero(Measured) <=> Enough(state, goal))

\* Numbers of opposite signs stand in one place of both values.
Opposed(a, b) == \E i \in DOMAIN a \cap DOMAIN b : a[i] * b[i] < 0

\* A distance that is a number is never negative nor above 2, so that the cost of a
\* landmark of cost 1, 4*distance - 10 (planner.cpp:110), is negative; and it is at most 1,
\* "Nomalize to 0..1" (statevalue.cpp:172), except where the numeric comparer meets
\* opposite signs, for which "are different < 1" (numericstatecomparer.cpp:61) is wrong.
WithinUnit ==
  ~IsNaN(Measured) =>
    /\ Measured.num \in 0 .. 2 * Measured.den
    /\ \/ Measured.num <= Measured.den
       \/ /\ comparer = "numeric"
          /\ \E k \in Same(state, goal) : Opposed(state[k], goal[k])

\* A step that gives one field the value the goal asks for comes nearer to the goal,
\* as a search led by distances needs it: for each of the comparers, whether the field
\* was there before or not, and with other fields right, wrong or missing.  All the
\* fields are alike: the goal's are numbers or vectors that the numeric comparer can
\* tell apart, and a field of the state is as long as the goal's.
ProgressIsSeen ==
  [][\A k \in Given(goal) :
       /\ Alike /\ goal' = goal /\ comparer' = comparer
       /\ state[k] # goal[k] /\ state' = [state EXCEPT ![k] = goal[k]]
       => Less(Measured', Measured)]_meterVars
=============================================================================
