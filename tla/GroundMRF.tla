----------------------------- MODULE GroundMRF ------------------------------
(***************************************************************************)
(* A ground Markov random field (core/tuffy/infer/MRF.java and its data    *)
(* structures GAtom, GClause, KeyBlock) and what its searches compute of   *)
(* it.  Atoms are numbered from 1; a literal is an atom or its negative;   *)
(* a clause is a weight and an array of literals.  Weights are integers:   *)
(* only sums and comparisons of them matter.                               *)
(***************************************************************************)
EXTENDS Integers, Sequences, FiniteSets, Functions

CONSTANTS
  NAtoms,   \* atoms of the MRF
  Clauses,  \* its ground clauses: a sequence of [w, lits]
  Core,     \* coreAtoms: the atoms this part of a component may change
  Blocks    \* KeyBlock: sets of atoms that exclude each other

Atom   == 1 .. NAtoms
Clause == DOMAIN Clauses

AtomOf(lit) == IF lit > 0 THEN lit ELSE -lit

(* No clause names an atom twice, an atom is in one block at most, and the *)
(* atoms of a block are in one partition.                                  *)
ASSUME GroundMRFAssumption ==
  /\ NAtoms \in Nat \ {0}
  /\ Core \subseteq Atom
  /\ \A B \in Blocks : B \subseteq Atom /\ (B \subseteq Core \/ B \cap Core = {})
  /\ \A B, D \in Blocks : B # D => B \cap D = {}
  /\ Clauses \in Seq([w : Int, lits : Seq(Int)])
  /\ \A c \in Clause :
       \A i, j \in DOMAIN Clauses[c].lits :
         /\ AtomOf(Clauses[c].lits[i]) \in Atom
         /\ i # j => AtomOf(Clauses[c].lits[i]) # AtomOf(Clauses[c].lits[j])

Weight(c)  == Clauses[c].w
Lits(c)    == Range(Clauses[c].lits)
AtomsIn(c) == {AtomOf(l) : l \in Lits(c)}
ClausesOf(S) == {c \in Clause : AtomsIn(c) \cap S # {}}

ownsAllAtoms == Core = Atom

ownsAtom(a) == a \in Core

isPositiveClause(c) == Weight(c) >= 0

Magnitude(c) == IF Weight(c) < 0 THEN -Weight(c) ELSE Weight(c)

WeightOf(S)    == SumFunctionOnSet([c \in Clause |-> Weight(c)], S)
MagnitudeOf(S) == SumFunctionOnSet([c \in Clause |-> Magnitude(c)], S)

-----------------------------------------------------------------------------
isTrueLit(truth, lit) == IF lit > 0 THEN truth[lit] ELSE ~ truth[-lit]

calcNSAT(truth, c) == Cardinality({l \in Lits(c) : isTrueLit(truth, l)})

(* GClause.cost.  A clause of positive weight is violated when no literal  *)
(* is true, one of negative weight when some literal is.                   *)
Violated(c, n) == \/ Weight(c) > 0 /\ n = 0
                  \/ Weight(c) < 0 /\ n > 0

cost(c, n) == IF Violated(c, n) THEN Magnitude(c) ELSE 0

CostOfClauses(S, nsat) == SumFunctionOnSet([c \in Clause |-> cost(c, nsat[c])], S)

(* recalcCost.                                                             *)
WorldCost(truth) ==
  CostOfClauses(Clause, [c \in Clause |-> calcNSAT(truth, c)])

(* More than any world costs: Double.MAX_VALUE.                            *)
Infinite == MagnitudeOf(Clause) + 1

(* A clause that no flip of an owned atom can change: a literal that is    *)
(* not owned is true, or none is owned.                                    *)
isAlwaysTrue(truth, c) ==
  \/ \E l \in Lits(c) : ~ ownsAtom(AtomOf(l)) /\ isTrueLit(truth, l)
  \/ \A l \in Lits(c) : ~ ownsAtom(AtomOf(l))

-----------------------------------------------------------------------------
BlocksOf(a) == {B \in Blocks : a \in B}

(* KeyBlock.getBlockMates: all atoms of the block, a itself among them.    *)
getBlockMates(a) == UNION BlocksOf(a)

(* Mutation: only the picked atom changes.                                 *)
getFlipSequenceMut(truth, a) == {a}

(* What a flip of a flips: with a false atom of a block that becomes true  *)
(* also the atoms of the block that are true.                              *)
getFlipSequence(truth, a) ==
  IF truth[a] THEN {a} ELSE {a} \cup {b \in getBlockMates(a) : truth[b]}

Flipped(truth, S) == [a \in Atom |-> IF a \in S THEN ~ truth[a] ELSE truth[a]]

(* By how much the true literals of a clause change if S is flipped.       *)
NSatChange(truth, S, c) ==
  LET hit == {l \in Lits(c) : AtomOf(l) \in S}
      yes == {l \in hit : isTrueLit(truth, l)}
  IN  Cardinality(hit \ yes) - Cardinality(yes)

(* assignSatPotential and assignUnsatPotential of all clauses a flip of S  *)
(* makes true, or false: violate - rescue, for positive and for negative   *)
(* weights alike.                                                          *)
Potential(truth, nsat, S) ==
  LET after(c) == nsat[c] + NSatChange(truth, S, c)
      falsified == {c \in ClausesOf(S) : nsat[c] > 0 /\ after(c) <= 0}
      satisfied == {c \in ClausesOf(S) : nsat[c] = 0 /\ after(c) > 0}
  IN  WeightOf(falsified) - WeightOf(satisfied)

(* The delta of atom a as calcCosts works it out.                          *)
deltaOf(truth, nsat, a) == Potential(truth, nsat, getFlipSequence(truth, a))

(* calcCosts: everything anew.  The dead clauses do not count in the cost  *)
(* and are never unsatisfied, but they do count in the deltas.             *)
calcCosts(truth, dead) ==
  LET n == [c \in Clause |-> calcNSAT(truth, c)]
      alive == Clause \ dead
  IN  [nsat |-> n,
       totalCost |-> CostOfClauses(alive, n),
       unsat |-> {c \in alive : cost(c, n[c]) > 0 /\ (ownsAllAtoms \/ ~ isAlwaysTrue(truth, c))},
       delta |-> [a \in Atom |-> IF ownsAtom(a) THEN deltaOf(truth, n, a) ELSE 0]]

-----------------------------------------------------------------------------
(* maintainKeyConstraints: an atom that is true makes all its mates false, *)
(* itself included, so that nothing is true in a block any more.           *)
maintainKeyConstraints(truth) ==
  [a \in Atom |-> truth[a] /\ BlocksOf(a) = {}]

(* The worlds initMRF may start from: the owned atoms are tossed anew       *)
(* (COIN_FLIP) or take their saved values (COPY_LOW), then the blocks come. *)
InitialWorlds(truth, lowTruth, strategy) ==
  LET set(t) == [a \in Atom |-> IF ownsAtom(a) THEN t[a] ELSE truth[a]]
      starts == IF strategy = "COPY_LOW" THEN {lowTruth} ELSE [Atom -> BOOLEAN]
  IN  {maintainKeyConstraints(set(t)) : t \in starts}

(* Mutation: what was flipped since the last save is not brought along.    *)
savedTruthMut(lowTruth, truth, dirty) == lowTruth

(* saveLowTruth once it saves: the atoms that changed since the last save, *)
(* or all owned ones if none is marked.                                    *)
savedTruth(lowTruth, truth, dirty) ==
  [a \in Atom |-> IF a \in (IF dirty # {} THEN dirty ELSE Core) THEN truth[a] ELSE lowTruth[a]]

(* At most one atom of a block is true.                                    *)
Exclusive(truth) ==
  \A B \in Blocks : \A a, b \in B : truth[a] /\ truth[b] => a = b
=============================================================================
