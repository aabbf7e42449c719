------------------------------- MODULE MCSat --------------------------------
(***************************************************************************)
(* MRF.mcsat, the sampler of marginal inference, on a component of one     *)
(* part: it first looks for a world that satisfies the hard clauses, then  *)
(* for each sample selects some of the clauses the last world satisfies    *)
(* (the others are `dead') and looks with sampleSAT for a world that       *)
(* satisfies the selected ones.  The probability of an atom is the share   *)
(* of the sampled worlds in which it is true.                              *)
(*                                                                         *)
(* The console's and the logs' parts are left out, and the options are     *)
(* those of a cleaning run: no learning, not cumulative, sampleSAT stops   *)
(* at the first world without unsatisfied clauses.                         *)
(***************************************************************************)
EXTENDS GroundMRF

CONSTANTS
  Hard,      \* the hard clauses
  NSamples,
  NSteps     \* flips of one sampleSAT

MCSatInput ==
  /\ ownsAllAtoms
  /\ Hard \subseteq Clause
  /\ NSamples \in Nat \ {0}
  /\ NSteps \in Nat

VARIABLES
  pc,             \* "start", "select", "search", "found", "gaveUp", "report", "done"
  sampleSatMode,
  sample,         \* number of the sample in progress
  truth,          \* as in WalkSAT
  lowTruth,
  nsat,
  delta,
  unsat,
  dead,           \* the clauses not selected
  totalCost,
  lowCost,
  dirty,
  flip,
  tallyTrue,      \* tallyTrue[a]: the samples in which a was true
  lowWorld        \* for the properties: the world when lowTruth was last saved

vars == <<pc, sampleSatMode, sample, truth, lowTruth, nsat, delta, unsat, dead,
          totalCost, lowCost, dirty, flip, tallyTrue, lowWorld>>

Init ==
  /\ pc = "start"
  /\ sampleSatMode \in BOOLEAN
  /\ sample = 0
  /\ truth \in [Atom -> BOOLEAN]
  /\ lowTruth = truth
  /\ nsat = [c \in Clause |-> 0]
  /\ delta = [a \in Atom |-> 0]
  /\ unsat = {}
  /\ dead = {}
  /\ totalCost = Infinite
  /\ lowCost = Infinite
  /\ dirty = {}
  /\ flip = 1
  /\ tallyTrue = [a \in Atom |-> 0]
  /\ lowWorld = truth

(* The beginning of sampleSAT: initMRF by coin flips.                      *)
StartSearch(deadClauses) ==
  /\ \E w \in InitialWorlds(truth, lowTruth, "COIN_FLIP") :
       LET fresh == calcCosts(w, deadClauses)
       IN  /\ truth' = w
           /\ nsat' = fresh.nsat
           /\ delta' = fresh.delta
           /\ unsat' = fresh.unsat
           /\ totalCost' = fresh.totalCost
           /\ lowCost' = fresh.totalCost
           /\ lowTruth' = w
           /\ lowWorld' = w
  /\ dead' = deadClauses
  /\ dirty' = {}
  /\ flip' = 1
  /\ pc' = "search"

(* retainOnlyHardClauses, then the search for a first world.               *)
Start ==
  /\ pc = "start"
  /\ sampleSatMode' = FALSE
  /\ tallyTrue' = [a \in Atom |-> 0]
  /\ StartSearch(Clause \ Hard)
  /\ UNCHANGED sample

(* The clauses selectMCSAT may take: it reads the nsat left by the last    *)
(* search or by recalcCost.  A hard clause is taken for certain.           *)
Good == {c \in Clause : cost(c, nsat[c]) = 0 /\ Weight(c) # 0}

(* performMCSatStep as far as sampleSAT: retainSomeGoodClauses.            *)
Select ==
  /\ pc = "select"
  /\ \E chosen \in SUBSET Good :
       /\ Good \cap Hard \subseteq chosen
       /\ StartSearch(Clause \ chosen)
  /\ UNCHANGED <<sampleSatMode, sample, tallyTrue>>

(* saveLowTruth for a world and its cost.                                  *)
Save(now, world, changed) ==
  IF now < lowCost \/ (now <= 0 /\ sampleSatMode)
  THEN /\ lowCost' = IF now < lowCost THEN now ELSE lowCost
       /\ lowTruth' = savedTruth(lowTruth, world, changed)
       /\ lowWorld' = world
       /\ dirty' = {}
  ELSE dirty' = changed /\ UNCHANGED <<lowCost, lowTruth, lowWorld>>

(* Nothing is unsatisfied: the world is saved, if it seems better than the *)
(* one saved before, and the search is over.                               *)
Found ==
  /\ pc = "search"
  /\ flip <= NSteps
  /\ unsat = {}
  /\ Save(totalCost, truth, dirty)
  /\ pc' = "found"
  /\ UNCHANGED <<sampleSatMode, sample, truth, nsat, delta, unsat, dead,
                 totalCost, flip, tallyTrue>>

(* The atoms the step may pick: one that the simulated annealing step may  *)
(* pick is the first of any clause, dead or not; the WalkSAT step picks    *)
(* from an unsatisfied clause.                                             *)
AnnealingPicks ==
  IF sampleSatMode THEN {AtomOf(Clauses[c].lits[1]) : c \in Clause} ELSE {}

WalkPicks ==
  IF sampleSatMode /\ totalCost <= 0 THEN {}
  ELSE UNION {IF isPositiveClause(c) THEN AtomsIn(c)
              ELSE {AtomOf(l) : l \in {m \in Lits(c) : isTrueLit(truth, m)}} : c \in unsat}

(* Mutation: clauses that are dead keep their count of true literals.      *)
CountedMut == Clause \ dead

Counted == Clause

(* What a flip of a does to the delta of another atom b of clause c, which *)
(* has n true literals afterwards: the cases of revokeSatPotential,        *)
(* revokeUnsatPotential, assignSatPotential and assignUnsatPotential.      *)
DeltaChange(a, b, c, n) ==
  LET becameTrue == \E l \in Lits(c) : AtomOf(l) = a /\ ~ isTrueLit(truth, l)
      bTrue == \E l \in Lits(c) : AtomOf(l) = b /\ isTrueLit(truth, l)
  IN  CASE becameTrue /\ n = 1            -> Weight(c)
        [] becameTrue /\ n = 2 /\ bTrue   -> -Weight(c)
        [] ~ becameTrue /\ n = 0          -> -Weight(c)
        [] ~ becameTrue /\ n = 1 /\ bTrue -> Weight(c)
        [] OTHER                          -> 0

(* Only the picked atom is flipped, whatever block it is in.  The counts   *)
(* of all clauses are adjusted, deltas and `unsat' for the live ones only. *)
Flip(a) ==
  LET n == [c \in Clause |->
             IF c \in Counted THEN nsat[c] + NSatChange(truth, {a}, c) ELSE nsat[c]]
      touched == ClausesOf({a}) \ dead
      now == totalCost + delta[a]
      still == (unsat \ touched) \cup {c \in touched : Violated(c, n[c])}
  IN  /\ pc = "search"
      /\ flip <= NSteps
      /\ unsat # {}
      /\ a \in AnnealingPicks \cup WalkPicks
      /\ totalCost' = now
      /\ truth' = Flipped(truth, {a})
      /\ IF now <= lowCost
         THEN Save(now, truth', dirty \cup {a})
         ELSE /\ dirty' = dirty \cup {a}
              /\ UNCHANGED <<lowCost, lowTruth, lowWorld>>
      /\ nsat' = n
      /\ unsat' = still
      /\ delta' = [b \in Atom |->
           IF b = a THEN -delta[b]
           ELSE delta[b] + SumFunctionOnSet([c \in Clause |-> DeltaChange(a, b, c, n[c])],
                                            {c \in touched : b \in AtomsIn(c)})]
      /\ flip' = flip + 1
      /\ UNCHANGED <<pc, sampleSatMode, sample, dead, tallyTrue>>

(* Throttling, or the annealing's toss, holds back a flip that costs.      *)
SkipFlip ==
  /\ pc = "search"
  /\ flip <= NSteps
  /\ unsat # {}
  /\ \E a \in AnnealingPicks \cup WalkPicks : delta[a] > 0
  /\ flip' = flip + 1
  /\ UNCHANGED <<pc, sampleSatMode, sample, truth, lowTruth, nsat, delta, unsat,
                 dead, totalCost, lowCost, dirty, tallyTrue, lowWorld>>

GiveUp ==
  /\ pc = "search"
  /\ flip > NSteps
  /\ pc' = "gaveUp"
  /\ UNCHANGED <<sampleSatMode, sample, truth, lowTruth, nsat, delta, unsat, dead,
                 totalCost, lowCost, dirty, flip, tallyTrue, lowWorld>>

(* The world for the first sample: enableAllClauses, restoreLowTruth.      *)
FirstWorld ==
  /\ pc \in {"found", "gaveUp"}
  /\ ~ sampleSatMode
  /\ dead' = {}
  /\ truth' = lowTruth
  /\ sampleSatMode' = TRUE
  /\ sample' = 1
  /\ pc' = "select"
  /\ UNCHANGED <<lowTruth, nsat, delta, unsat, totalCost, lowCost, dirty, flip,
                 tallyTrue, lowWorld>>

(* Mutation: the counts stay those of the last world searched.             *)
RecountedMut(world) == nsat

Recounted(world) == [c \in Clause |-> calcNSAT(world, c)]

(* The rest of performMCSatStep: restoreLowTruth, the tallies, recalcCost. *)
TakeSample ==
  /\ pc \in {"found", "gaveUp"}
  /\ sampleSatMode
  /\ dead' = {}
  /\ truth' = lowTruth
  /\ tallyTrue' = [a \in Atom |-> tallyTrue[a] + IF lowTruth[a] THEN 1 ELSE 0]
  /\ nsat' = Recounted(lowTruth)
  /\ totalCost' = WorldCost(lowTruth)
  /\ sample' = sample + 1
  /\ pc' = IF sample < NSamples THEN "select" ELSE "report"
  /\ UNCHANGED <<sampleSatMode, lowTruth, delta, unsat, lowCost, dirty, flip,
                 lowWorld>>

(* updateAtomMarginalProbs divides the tallies and makes every atom true.  *)
Report ==
  /\ pc = "report"
  /\ truth' = [a \in Atom |-> TRUE]
  /\ pc' = "done"
  /\ UNCHANGED <<sampleSatMode, sample, lowTruth, nsat, delta, unsat, dead, totalCost,
                 lowCost, dirty, flip, tallyTrue, lowWorld>>

Terminating == pc = "done" /\ UNCHANGED vars

Next ==
  \/ Start \/ Select
  \/ Found \/ SkipFlip \/ GiveUp
  \/ \E a \in Atom : Flip(a)
  \/ FirstWorld \/ TakeSample \/ Report
  \/ Terminating

Spec == Init /\ [][Next]_vars

-----------------------------------------------------------------------------
TypeOK ==
  /\ pc \in {"start", "select", "search", "found", "gaveUp", "report", "done"}
  /\ sampleSatMode \in BOOLEAN
  /\ sample \in 0 .. NSamples + 1
  /\ truth \in [Atom -> BOOLEAN]
  /\ lowTruth \in [Atom -> BOOLEAN]
  /\ nsat \in [Clause -> Nat]
  /\ delta \in [Atom -> Int]
  /\ unsat \subseteq Clause
  /\ dead \subseteq Clause
  /\ totalCost \in Int
  /\ lowCost \in Int
  /\ dirty \subseteq Atom
  /\ flip \in 1 .. NSteps + 1
  /\ tallyTrue \in [Atom -> 0 .. NSamples]
  /\ lowWorld \in [Atom -> BOOLEAN]

Searching == pc \in {"search", "found", "gaveUp"}

(* While a search goes on, the clauses to be picked from are exactly the   *)
(* selected ones that are violated; the counts of the others are kept too, *)
(* since the next selection may read them.                                 *)
UnsatExact ==
  Searching =>
    /\ \A c \in Clause : nsat[c] = calcNSAT(truth, c)
    /\ unsat = {c \in Clause \ dead : Violated(c, nsat[c])}

(* The world restored after a search is one the search was in, not a blend *)
(* of several: the atoms not copied had not changed.                       *)
SavedWorldVisited == Searching => lowTruth = lowWorld

(* Without dead clauses and without blocks the increments keep every delta *)
(* at what a flip would change, and the cost at what the world costs.      *)
DeltaExactIfAllAlive ==
  (Searching /\ dead = {} /\ Blocks = {}) =>
    /\ totalCost = WorldCost(truth)
    /\ \A a \in Atom : delta[a] = WorldCost(Flipped(truth, {a})) - WorldCost(truth)

(* The bookkeeping of the search, whatever slice it is given.              *)
CountersExact == TypeOK /\ UnsatExact /\ DeltaExactIfAllAlive

(* "Retain a subset of currently satisfied clauses" (1383): from the second *)
(* sample on the clauses selected are satisfied by the world the selection *)
(* starts from.  Before the first the counts are those of the last world   *)
(* searched, while the best one has been restored.                         *)
RetainsSatisfied ==
  (pc = "select" /\ sample > 1) => \A c \in Good : ~ Violated(c, calcNSAT(truth, c))

(* What marginal inference rests on: the increments stay exact, the world  *)
(* taken as a sample is one the search was in, and the next slice is cut   *)
(* from what it satisfies.                                                 *)
SamplesSound == CountersExact /\ SavedWorldVisited /\ RetainsSatisfied

-----------------------------------------------------------------------------
(* "Number of GClauses that is selected, and therefore must be satisfied   *)
(* by next SampleSAT invocation" (1042): a search that says it found a     *)
(* world leaves one in lowTruth that satisfies the selected clauses.       *)
SliceSatisfied ==
  pc = "found" =>
    \A c \in Clause \ dead : ~ Violated(c, calcNSAT(lowTruth, c))
=============================================================================
