------------------------------ MODULE MCDomain ------------------------------
(***************************************************************************)
(* Instances of the cleaning core for TLC.  Columns are 0 (A), 1 (B), 2    *)
(* (C), 3 (D); cells hold one of two or four values.                       *)
(***************************************************************************)
EXTENDS Domain

CONSTANTS v1, v2, v3, v4

Line(s, t) == [reason |-> s, result |-> t]

OneRule  == << Line(<<0>>, <<1>>) >>                        \* A => B
Chain    == << Line(<<0>>, <<1>>), Line(<<1>>, <<2>>) >>    \* A => B, B => C
LateChain == << Line(<<1>>, <<2>>), Line(<<2>>, <<3>>) >>   \* B => C, C => D
Disjoint == << Line(<<0>>, <<1>>), Line(<<2>>, <<3>>) >>    \* A => B, C => D
Nested   == << Line(<<0>>, <<1>>), Line(<<0, 2>>, <<1>>) >> \* A => B, AC => B
(* A => B, C => D, D => B; the second line has the columns of the first.    *)
Triple   == << Line(<<0>>, <<1>>), Line(<<1>>, <<0>>), Line(<<2>>, <<3>>), Line(<<3>>, <<1>>) >>

(* A => B, C => B, D => B.                                                  *)
Into     == << Line(<<0>>, <<1>>), Line(<<2>>, <<1>>), Line(<<3>>, <<1>>) >>

TwoValued(n) == [0 .. (n - 1) -> [Attr -> {v1, v2}]]

(* Column A, which no rule names, tells the first row from the others.     *)
TaggedData == {d \in TwoValued(3) : \A k \in 0 .. 2 : d[k][0] = IF k = 0 THEN v1 ELSE v2}

(* Three rows that have the same value in the last column.                 *)
NarrowData == {d \in TwoValued(3) : \A k \in 0 .. 2 : d[k][NAttrs - 1] = v1}

(* Three rows that agree on A and C.                                       *)
AgreeingData == {d \in TwoValued(3) : \A k \in 0 .. 2 : d[k][0] = v1 /\ d[k][2] = v1}

(* Six rows in three groups of A, with any values of B: groups of A => B    *)
(* that share rows with several groups of B => C, with one or with none.   *)
PairData ==
  {[k \in 0 .. 5 |-> [a \in Attr |-> CASE a = 0 -> <<v1, v2, v3>>[k \div 2 + 1]
                                       [] a = 1 -> b[k]
                                       [] OTHER -> v1]] : b \in [0 .. 5 -> Value]}

(* What inference says of the values v1 and v2 of a column; all other       *)
(* values, and all columns not named, are certain.                         *)
Sure == [v \in Value |-> 2]
Odds(p, q) == [Sure EXCEPT ![v1] = p, ![v2] = q]

Flat == {[a \in Attr |-> Sure]}
Biased(b, P, c, Q) ==
  {[a \in Attr |-> IF a = b THEN p ELSE IF a = c THEN q ELSE Sure] : p \in P, q \in Q}

(* Both equal, one likelier than the other, one impossible, both so.       *)
AnyOdds == {Sure, Odds(1, 2), Odds(2, 0), Odds(0, 0)}
PossibleOdds == {Sure, Odds(1, 2)}

Given(rulesFile, data, probs) == [lines |-> rulesFile, data |-> data, probs |-> probs]

SingleInputs == {Given(OneRule, TwoValued(2), Flat)}

CleanInputs ==
  {Given(LateChain, TaggedData, Biased(2, AnyOdds, 3, PossibleOdds)),
   Given(Disjoint, TwoValued(3), Biased(1, PossibleOdds, 3, {Sure})),
   Given(Nested, NarrowData, Flat),
   Given(Triple, TwoValued(3), Flat),
   Given(Into, AgreeingData, Biased(1, PossibleOdds, 3, PossibleOdds)),
   Given(Chain, PairData, Flat)}
=============================================================================
