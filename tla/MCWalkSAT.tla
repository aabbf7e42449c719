----------------------------- MODULE MCWalkSAT ------------------------------
(***************************************************************************)
(* An instance of WalkSAT for TLC: six clauses over five atoms with         *)
(* positive, negative and zero weights, so that every world violates some  *)
(* of them.  Atoms 1, 2 and 3 exclude each other, and atom 5 belongs to     *)
(* another part: if it is true all clauses can be satisfied, two of them    *)
(* for good; if not, it satisfies the third, whose weight is negative.      *)
(***************************************************************************)
EXTENDS WalkSAT

C(weight, literals) == [w |-> weight, lits |-> literals]

MixedClauses ==
  << C(3, <<1, 2>>), C(2, <<-1, 4, 5>>), C(-1, <<4, -5>>),
     C(1, <<2, 5>>), C(-2, <<2, 3>>), C(0, <<3>>) >>
=============================================================================
