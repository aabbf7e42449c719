------------------------------- MODULE WalkSAT ------------------------------
(***************************************************************************)
(* MRF.inferWalkSAT, that is inferWalkSATwithBlocks: the search for a      *)
(* world of low cost that MAP inference runs on a component, or on one     *)
(* part of a component whose other atoms it must leave alone.              *)
(*                                                                         *)
(* Nothing is computed anew after a flip: the number of true literals of a *)
(* clause, the set of unsatisfied clauses, the cost and the effect a flip  *)
(* of each atom would have are all kept up to date by increments, and the  *)
(* best world is saved by copying the atoms changed since the last save.   *)
(* One action is one turn of the loop over the flips.                      *)
(***************************************************************************)
EXTENDS GroundMRF

CONSTANTS
  initStrategy,  \* how a try starts: "COIN_FLIP", or "COPY_LOW" on a part
  NTries,        \* tries; NonPartInfer takes 3 for 0
  NSteps         \* flips of a try; the code takes at least 4

ASSUME WalkSATAssumption ==
  /\ initStrategy \in {"COIN_FLIP", "COPY_LOW"}
  /\ NTries \in Nat \ {0}
  /\ NSteps \in Nat

VARIABLES
  pc,        \* "try", "flip", "returned", or "crashed" by an exception
  truth,     \* truth[a]: GAtom.truth
  lowTruth,  \* lowTruth[a]: GAtom.lowTruth
  nsat,      \* nsat[c]: GClause.nsat
  delta,     \* delta[a]: GAtom.delta()
  unsat,     \* the unsatisfied clauses
  totalCost,
  lowCost,
  dirty,     \* dirtyAtoms
  itry,      \* try and flip in progress
  flip,
  gap        \* realCost - atom.delta(), which the code compares in each flip

vars == <<pc, truth, lowTruth, nsat, delta, unsat, totalCost, lowCost, dirty,
          itry, flip, gap>>

(* The atoms have the values of an earlier search, of initTruthRandom, or   *)
(* those they were loaded with.                                            *)
Init ==
  /\ pc = "try"
  /\ truth \in [Atom -> BOOLEAN]
  /\ lowTruth = truth
  /\ nsat = [c \in Clause |-> 0]
  /\ delta = [a \in Atom |-> 0]
  /\ unsat = {}
  /\ totalCost = Infinite
  /\ lowCost = Infinite
  /\ dirty = {}
  /\ itry = 1
  /\ flip = 1
  /\ gap = 0

(* initMRF: a world that respects the blocks.                              *)
StartTry ==
  /\ pc = "try"
  /\ itry <= NTries
  /\ \E w \in InitialWorlds(truth, lowTruth, initStrategy) :
       LET fresh == calcCosts(w, {})
       IN  /\ truth' = w
           /\ nsat' = fresh.nsat
           /\ delta' = fresh.delta
           /\ unsat' = fresh.unsat
           /\ totalCost' = fresh.totalCost
           /\ lowCost' = fresh.totalCost
           /\ lowTruth' = [a \in Atom |-> IF ownsAtom(a) THEN w[a] ELSE lowTruth[a]]
  /\ dirty' = {}
  /\ flip' = 1
  /\ pc' = "flip"
  /\ UNCHANGED <<itry, gap>>

(* No clause is unsatisfied: the search ends before its tries are over.    *)
Resolved ==
  /\ pc = "flip"
  /\ flip <= NSteps
  /\ unsat = {}
  /\ IF totalCost < lowCost
     THEN /\ lowCost' = totalCost
          /\ lowTruth' = savedTruth(lowTruth, truth, dirty)
          /\ dirty' = {}
     ELSE UNCHANGED <<lowCost, lowTruth, dirty>>
  /\ pc' = "returned"
  /\ UNCHANGED <<truth, nsat, delta, unsat, totalCost, itry, flip, gap>>

(* Mutation: atoms of other parts are candidates as well.                  *)
CandidatesMut(c) ==
  IF isPositiveClause(c) THEN AtomsIn(c)
  ELSE {AtomOf(l) : l \in {m \in Lits(c) : isTrueLit(truth, m)}}

(* The atoms the random or the greedy step may pick of a clause: of one    *)
(* with negative weight those that satisfy it.                             *)
Candidates(c) ==
  IF isPositiveClause(c) THEN AtomsIn(c) \cap Core
  ELSE {AtomOf(l) : l \in {m \in Lits(c) : isTrueLit(truth, m)}} \cap Core

(* Mutation: a clause with negative weight is unsatisfied if it is false.  *)
UnsatNowMut(c, n) == n <= 0

(* After a flip the clauses it touches leave or enter `unsat'.             *)
UnsatNow(c, n) == IF isPositiveClause(c) THEN n <= 0 ELSE n > 0

(* Mutation: block mates of the atoms touched keep their deltas.           *)
ClosureMut(touched) == UNION {AtomsIn(c) : c \in touched}

(* calcCostsForWalkSAT: the atoms whose deltas are computed anew.          *)
Closure(touched) ==
  LET atoms == UNION {AtomsIn(c) : c \in touched}
  IN  atoms \cup UNION {getBlockMates(a) : a \in atoms}

(* The atom picked from an unsatisfied clause is flipped with its block.   *)
(* The random step may pick any candidate, so the greedy one adds nothing. *)
Flip(a) ==
  LET S == getFlipSequence(truth, a)
      touched == ClausesOf(S)
      n == [c \in Clause |-> nsat[c] + NSatChange(truth, S, c)]
      still == {c \in Clause : IF c \in touched THEN UnsatNow(c, n[c]) ELSE c \in unsat}
      now == totalCost + delta[a]
      changed == dirty \cup S
  IN  /\ pc = "flip"
      /\ flip <= NSteps
      /\ \E c \in unsat : a \in Candidates(c)
      /\ totalCost' = now
      /\ truth' = Flipped(truth, S)
      /\ IF now < lowCost
         THEN /\ lowCost' = now
              /\ lowTruth' = savedTruth(lowTruth, truth', changed)
              /\ dirty' = {}
         ELSE /\ dirty' = changed
              /\ UNCHANGED <<lowCost, lowTruth>>
      /\ nsat' = n
      /\ unsat' = still
      /\ gap' = MagnitudeOf(still \ unsat) - MagnitudeOf(unsat \ still) - delta[a]
      /\ delta' = [b \in Atom |->
           IF b \in Closure(touched) THEN deltaOf(truth', n, b) ELSE delta[b]]
      /\ flip' = flip + 1
      /\ UNCHANGED <<pc, itry>>

(* The turn ends without a flip: the greedy step finds no atom that does   *)
(* not raise the cost, or throttling holds the flip back.                  *)
SkipFlip ==
  /\ pc = "flip"
  /\ flip <= NSteps
  /\ \E c \in unsat :
       \/ Candidates(c) = {}
       \/ \E a \in Candidates(c) : delta[a] > 0
  /\ flip' = flip + 1
  /\ UNCHANGED <<pc, truth, lowTruth, nsat, delta, unsat, totalCost, lowCost,
                 dirty, itry, gap>>

(* The random step on a clause of negative weight that no owned atom       *)
(* satisfies: Random.nextInt(0) throws.                                    *)
Crash ==
  /\ pc = "flip"
  /\ flip <= NSteps
  /\ \E c \in unsat : ~ isPositiveClause(c) /\ Candidates(c) = {}
  /\ pc' = "crashed"
  /\ UNCHANGED <<truth, lowTruth, nsat, delta, unsat, totalCost, lowCost,
                 dirty, itry, flip, gap>>

NextTry ==
  /\ pc = "flip"
  /\ flip > NSteps
  /\ itry' = itry + 1
  /\ pc' = "try"
  /\ UNCHANGED <<truth, lowTruth, nsat, delta, unsat, totalCost, lowCost,
                 dirty, flip, gap>>

Return ==
  /\ pc = "try"
  /\ itry > NTries
  /\ pc' = "returned"
  /\ UNCHANGED <<truth, lowTruth, nsat, delta, unsat, totalCost, lowCost,
                 dirty, itry, flip, gap>>

Terminating == pc \in {"returned", "crashed"} /\ UNCHANGED vars

Next ==
  \/ StartTry \/ Resolved
  \/ \E a \in Atom : Flip(a)
  \/ SkipFlip \/ Crash \/ NextTry \/ Return
  \/ Terminating

Spec == Init /\ [][Next]_vars

-----------------------------------------------------------------------------
TypeOK ==
  /\ pc \in {"try", "flip", "returned", "crashed"}
  /\ truth \in [Atom -> BOOLEAN]
  /\ lowTruth \in [Atom -> BOOLEAN]
  /\ nsat \in [Clause -> Nat]
  /\ delta \in [Atom -> Int]
  /\ unsat \subseteq Clause
  /\ totalCost \in 0 .. Infinite
  /\ lowCost \in 0 .. Infinite
  /\ dirty \subseteq Core
  /\ itry \in 1 .. NTries + 1
  /\ flip \in 1 .. NSteps + 1
  /\ gap \in Int

Started == itry > 1 \/ pc \notin {"try"}

(* The running totals never drift from the world they describe, however    *)
(* many flips were made: the true literals of each clause and the cost.    *)
CostsExact ==
  Started =>
    /\ \A c \in Clause : nsat[c] = calcNSAT(truth, c)
    /\ totalCost = WorldCost(truth)

(* A clause that can be picked costs something, unless its weight is zero, *)
(* and one that costs something can be picked, unless no flip of the atoms *)
(* owned can do anything about it.                                         *)
UnsatExact ==
  Started =>
    \A c \in Clause : Weight(c) # 0 =>
      /\ c \in unsat => Violated(c, nsat[c])
      /\ Violated(c, nsat[c]) /\ ~ isAlwaysTrue(truth, c) => c \in unsat

(* "The delta cost of an atom is the change in the total cost if this atom *)
(* is flipped" (MRF.java 2370): the atoms whose deltas a flip left alone   *)
(* really are not affected by it.                                          *)
DeltaExact ==
  Started =>
    \A a \in Core :
      delta[a] = WorldCost(Flipped(truth, getFlipSequence(truth, a))) - WorldCost(truth)

(* All that a flip updates by increments, and that nothing ever recomputes *)
(* while the try lasts.                                                    *)
CountersExact == TypeOK /\ CostsExact /\ UnsatExact /\ DeltaExact

LowWorld == [a \in Atom |-> IF ownsAtom(a) THEN lowTruth[a] ELSE truth[a]]

(* What inference reports: the saved world costs what lowCost says,        *)
(* although it was put together from increments, and no world of the try   *)
(* since it was saved costs less.                                          *)
LowIsReal == Started => WorldCost(LowWorld) = lowCost /\ lowCost <= totalCost

(* Atoms that exclude each other are never true together, neither in the   *)
(* world of the search nor in the one saved.                               *)
BlocksExclusive == Started => Exclusive(truth) /\ (ownsAllAtoms => Exclusive(lowTruth))

(* A search on a part of a component leaves the atoms of the other parts   *)
(* as they are, unless a block forces them, and never saves over them.     *)
OthersUntouched ==
  [][\A a \in Atom \ Core :
       (BlocksOf(a) = {} => truth'[a] = truth[a]) /\ lowTruth'[a] = lowTruth[a]]_vars

(* The search dies only on a part, and only because an atom of another     *)
(* part keeps one of its clauses of negative weight true.                  *)
CrashNeedsCut ==
  pc = "crashed" =>
    \E c \in unsat : /\ ~ isPositiveClause(c)
                     /\ \E l \in Lits(c) : ~ ownsAtom(AtomOf(l)) /\ isTrueLit(truth, l)

(* The code's own assertion, "REALCOST != ESTIMATED COST ERROR" (2006): the *)
(* weights of the clauses that enter and leave `unsat' in a flip add up to *)
(* the delta of the atom flipped.  It holds if no clause is out of reach:  *)
(* initMRF leaves such a clause out of `unsat', and a flip puts it in.     *)
RealCostIsEstimate == (\A c \in Clause : ~ isAlwaysTrue(truth, c)) => gap = 0

(* All that a search keeps by increments and never computes anew, with the  *)
(* assertion in the code, holds; and nothing but a cut stops the search.   *)
IncrementsExact == CountersExact /\ RealCostIsEstimate /\ CrashNeedsCut
=============================================================================
