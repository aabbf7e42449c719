--------------------------- MODULE WalkSATProofs ----------------------------
(***************************************************************************)
(* Proofs about WalkSAT for any MRF: any number of atoms and clauses, any  *)
(* blocks, any part of a component.                                        *)
(***************************************************************************)
EXTENDS WalkSAT, GroundMRFProofs

(* The worlds are worlds, and an owned atom whose saved value is not its   *)
(* present one is marked as dirty: the reason why copying the dirty atoms  *)
(* alone saves the whole world.                                            *)
WorldInv ==
  /\ itry \in Nat
  /\ truth \in [Atom -> BOOLEAN]
  /\ lowTruth \in [Atom -> BOOLEAN]
  /\ \A a \in Core \ dirty : lowTruth[a] = truth[a]

BlockInv == WorldInv /\ BlocksExclusive

-----------------------------------------------------------------------------
(* After maintainKeyConstraints no block has two true atoms.               *)
LEMMA MaintainedIsExclusive ==
  ASSUME NEW t \in [Atom -> BOOLEAN]
  PROVE  /\ maintainKeyConstraints(t) \in [Atom -> BOOLEAN]
         /\ Exclusive(maintainKeyConstraints(t))
<1>1. \A a \in Atom : maintainKeyConstraints(t)[a] = (t[a] /\ BlocksOf(a) = {})
  BY DEF maintainKeyConstraints
<1>2. \A B \in Blocks : B \subseteq Atom /\ \A a \in B : BlocksOf(a) # {}
  BY GroundMRFAssumption DEF BlocksOf
<1>3. maintainKeyConstraints(t) \in [Atom -> BOOLEAN]
  BY DEF maintainKeyConstraints
<1>4. QED
  BY <1>1, <1>2, <1>3 DEF Exclusive

LEMMA InitialWorldsExclusive ==
  ASSUME truth \in [Atom -> BOOLEAN],
         lowTruth \in [Atom -> BOOLEAN],
         NEW w \in InitialWorlds(truth, lowTruth, initStrategy)
  PROVE  w \in [Atom -> BOOLEAN] /\ Exclusive(w)
<1>1. PICK t \in [Atom -> BOOLEAN] :
        w = maintainKeyConstraints([a \in Atom |-> IF ownsAtom(a) THEN t[a] ELSE truth[a]])
  BY WalkSATAssumption DEF InitialWorlds
<1>2. [a \in Atom |-> IF ownsAtom(a) THEN t[a] ELSE truth[a]] \in [Atom -> BOOLEAN]
  OBVIOUS
<1>3. QED
  BY <1>1, <1>2, MaintainedIsExclusive

(* A flip with its flip sequence keeps blocks exclusive: an atom that      *)
(* becomes true takes the place of the one that was.                       *)
LEMMA FlipKeepsExclusive ==
  ASSUME NEW t \in [Atom -> BOOLEAN], Exclusive(t),
         NEW a \in Atom
  PROVE  /\ Flipped(t, getFlipSequence(t, a)) \in [Atom -> BOOLEAN]
         /\ Exclusive(Flipped(t, getFlipSequence(t, a)))
<1> DEFINE S == getFlipSequence(t, a)
           u == Flipped(t, S)
<1>1. u \in [Atom -> BOOLEAN] /\ \A b \in Atom : u[b] = IF b \in S THEN ~ t[b] ELSE t[b]
  BY DEF Flipped
<1>2. CASE t[a]
  <2>1. S = {a}
    BY <1>2 DEF getFlipSequence
  <2>2. \A b \in Atom : u[b] => t[b]
    BY <1>1, <1>2, <2>1
  <2>3. QED
    BY <1>1, <2>2, GroundMRFAssumption DEF Exclusive
<1>3. CASE ~ t[a]
  <2>1. \A b \in Atom : b \in S <=> b = a \/ (b \in getBlockMates(a) /\ t[b])
    BY <1>3 DEF getFlipSequence
  <2>2. \A b \in Atom : u[b] <=> b = a \/ (t[b] /\ b \notin getBlockMates(a))
    BY <1>1, <1>3, <2>1
  <2>3. ASSUME NEW B \in Blocks, NEW b \in B, NEW c \in B, u[b], u[c]
        PROVE  b = c
    <3>1. b \in Atom /\ c \in Atom
      BY <2>3, GroundMRFAssumption
    <3>2. CASE a \in B
      <4>1. B \subseteq getBlockMates(a)
        BY <3>2 DEF getBlockMates, BlocksOf
      <4>2. QED
        BY <2>2, <2>3, <3>1, <4>1
    <3>3. CASE a \notin B
      <4>1. t[b] /\ t[c]
        BY <2>2, <2>3, <3>1, <3>3
      <4>2. QED
        BY <2>3, <4>1 DEF Exclusive
    <3>4. QED
      BY <3>2, <3>3
  <2>4. QED
    BY <1>1, <2>3 DEF Exclusive
<1>4. QED
  BY <1>2, <1>3

(* Saving the dirty atoms saves the world.                                 *)
LEMMA SavedIsTruth ==
  ASSUME NEW low \in [Atom -> BOOLEAN], NEW t \in [Atom -> BOOLEAN], NEW D,
         \A a \in Core \ D : low[a] = t[a]
  PROVE  /\ savedTruth(low, t, D) \in [Atom -> BOOLEAN]
         /\ \A a \in Core : savedTruth(low, t, D)[a] = t[a]
<1>1. savedTruth(low, t, D) \in [Atom -> BOOLEAN]
  BY DEF savedTruth
<1>2. \A a \in Core : savedTruth(low, t, D)[a] = t[a]
  BY GroundMRFAssumption DEF savedTruth
<1>3. QED
  BY <1>1, <1>2

(* A saved world that agrees with an exclusive one on all atoms it owns is *)
(* exclusive if it owns all.                                               *)
LEMMA SavedExclusive ==
  ASSUME NEW low, NEW t, Exclusive(t), ownsAllAtoms,
         \A a \in Core : low[a] = t[a]
  PROVE  Exclusive(low)
BY GroundMRFAssumption DEF Exclusive, ownsAllAtoms

-----------------------------------------------------------------------------
LEMMA BlockInvInit == Init => BlockInv
BY DEF Init, BlockInv, WorldInv, BlocksExclusive, Started

LEMMA BlockInvStep == BlockInv /\ [Next]_vars => BlockInv'
<1> SUFFICES ASSUME BlockInv, [Next]_vars
             PROVE  BlockInv'
  OBVIOUS
<1> USE DEF BlockInv, WorldInv
<1>1. CASE StartTry
  <2>1. PICK w \in InitialWorlds(truth, lowTruth, initStrategy) :
          /\ truth' = w
          /\ lowTruth' = [a \in Atom |-> IF ownsAtom(a) THEN w[a] ELSE lowTruth[a]]
    BY <1>1 DEF StartTry
  <2>2. w \in [Atom -> BOOLEAN] /\ Exclusive(w)
    BY <2>1, InitialWorldsExclusive
  <2>3. lowTruth' \in [Atom -> BOOLEAN] /\ \A a \in Core : lowTruth'[a] = truth'[a]
    BY <2>1, <2>2, GroundMRFAssumption DEF ownsAtom
  <2>4. Exclusive(truth') /\ (ownsAllAtoms => Exclusive(lowTruth'))
    BY <2>1, <2>2, <2>3, SavedExclusive
  <2>5. itry' = itry
    BY <1>1 DEF StartTry
  <2>6. QED
    BY <2>1, <2>2, <2>3, <2>4, <2>5 DEF BlocksExclusive
<1>2. CASE Resolved
  <2>1. Started /\ itry' = itry /\ truth' = truth
    BY <1>2 DEF Resolved, Started
  <2>2. CASE UNCHANGED <<lowCost, lowTruth, dirty>>
    BY <2>1, <2>2 DEF BlocksExclusive, Started
  <2>3. CASE lowTruth' = savedTruth(lowTruth, truth, dirty)
    <3>1. lowTruth' \in [Atom -> BOOLEAN] /\ \A a \in Core : lowTruth'[a] = truth[a]
      BY <2>3, SavedIsTruth
    <3>2. ownsAllAtoms => Exclusive(lowTruth')
      BY <2>1, <3>1, SavedExclusive DEF BlocksExclusive
    <3>3. QED
      BY <2>1, <3>1, <3>2 DEF BlocksExclusive
  <2>4. QED
    BY <1>2, <2>2, <2>3 DEF Resolved
<1>3. ASSUME NEW b \in Atom, Flip(b)
      PROVE  BlockInv'
  <2> DEFINE S == getFlipSequence(truth, b)
  <2>1. Started /\ itry' = itry /\ truth' = Flipped(truth, S)
    BY <1>3 DEF Flip, Started
  <2>2. truth' \in [Atom -> BOOLEAN] /\ Exclusive(truth')
    BY <2>1, FlipKeepsExclusive DEF BlocksExclusive
  <2>3. \A a \in Core \ (dirty \cup S) : lowTruth[a] = truth'[a]
    BY <2>1, GroundMRFAssumption DEF Flipped
  <2>4. CASE lowTruth' = lowTruth /\ dirty' = dirty \cup S
    BY <2>1, <2>2, <2>3, <2>4 DEF BlocksExclusive
  <2>5. CASE lowTruth' = savedTruth(lowTruth, truth', dirty \cup S)
    <3>1. lowTruth' \in [Atom -> BOOLEAN] /\ \A a \in Core : lowTruth'[a] = truth'[a]
      BY <2>2, <2>3, <2>5, SavedIsTruth
    <3>2. ownsAllAtoms => Exclusive(lowTruth')
      BY <2>2, <3>1, SavedExclusive
    <3>3. QED
      BY <2>1, <2>2, <3>1, <3>2 DEF BlocksExclusive
  <2>6. QED
    BY <1>3, <2>4, <2>5 DEF Flip
<1>4. CASE SkipFlip
  BY <1>4 DEF SkipFlip, BlocksExclusive, Started
<1>5. CASE Crash
  BY <1>5 DEF Crash, BlocksExclusive, Started
<1>6. CASE NextTry
  BY <1>6 DEF NextTry, BlocksExclusive, Started
<1>7. CASE Return
  BY <1>7, WalkSATAssumption DEF Return, BlocksExclusive, Started
<1>8. CASE UNCHANGED vars
  BY <1>8 DEF vars, BlocksExclusive, Started
<1>9. QED
  BY <1>1, <1>2, <1>3, <1>4, <1>5, <1>6, <1>7, <1>8 DEF Next, Terminating

(* Whatever the search flips, atoms that exclude each other are never true *)
(* together, and neither are they in the world it saves by increments.     *)
THEOREM BlocksExclusiveHolds == Spec => []BlocksExclusive
<1>1. Init => BlockInv
  BY BlockInvInit
<1>2. BlockInv /\ [Next]_vars => BlockInv'
  BY BlockInvStep
<1>3. BlockInv => BlocksExclusive
  BY DEF BlockInv
<1>4. QED
  BY <1>1, <1>2, <1>3, PTL DEF Spec

-----------------------------------------------------------------------------
(* No flip sequence of an owned atom reaches an atom that is not owned.    *)
LEMMA FlipSequenceOwned ==
  ASSUME NEW t, NEW a \in Core
  PROVE  getFlipSequence(t, a) \subseteq Core
<1>1. getBlockMates(a) \subseteq Core
  BY GroundMRFAssumption DEF getBlockMates, BlocksOf
<1>2. QED
  BY <1>1 DEF getFlipSequence

DirtyInv == WorldInv /\ dirty \subseteq Core

LEMMA DirtyInvStep == DirtyInv /\ BlockInv' /\ [Next]_vars => DirtyInv'
<1> SUFFICES ASSUME DirtyInv, BlockInv', [Next]_vars
             PROVE  dirty' \subseteq Core
  BY DEF DirtyInv, BlockInv
<1>1. ASSUME NEW b \in Atom, Flip(b)
      PROVE  dirty' \subseteq Core
  <2>1. b \in Core
    BY <1>1 DEF Flip, Candidates
  <2>2. QED
    BY <1>1, <2>1, FlipSequenceOwned DEF Flip, DirtyInv
<1>2. QED
  BY <1>1 DEF Next, DirtyInv, StartTry, Resolved, SkipFlip, Crash, NextTry, Return,
              Terminating, vars

(* A part of a component is searched without a change to any atom of the   *)
(* other parts, and without saving a value over theirs.                    *)
THEOREM OthersUntouchedHolds == Spec => OthersUntouched
<1> DEFINE Same == \A a \in Atom \ Core :
             (BlocksOf(a) = {} => truth'[a] = truth[a]) /\ lowTruth'[a] = lowTruth[a]
<1>1. DirtyInv /\ [Next]_vars => [Same]_vars
  <2> SUFFICES ASSUME DirtyInv, [Next]_vars
               PROVE  [Same]_vars
    OBVIOUS
  <2> USE DEF DirtyInv, WorldInv
  <2>1. CASE StartTry
    <3>1. PICK w \in InitialWorlds(truth, lowTruth, initStrategy) :
            /\ truth' = w
            /\ lowTruth' = [a \in Atom |-> IF ownsAtom(a) THEN w[a] ELSE lowTruth[a]]
      BY <2>1 DEF StartTry
    <3>2. PICK t \in [Atom -> BOOLEAN] :
            w = maintainKeyConstraints([a \in Atom |-> IF ownsAtom(a) THEN t[a] ELSE truth[a]])
      BY WalkSATAssumption DEF InitialWorlds
    <3>3. \A a \in Atom \ Core : BlocksOf(a) = {} => w[a] = truth[a]
      BY <3>2 DEF maintainKeyConstraints, ownsAtom
    <3>4. \A a \in Atom \ Core : lowTruth'[a] = lowTruth[a]
      BY <3>1 DEF ownsAtom
    <3>5. QED
      BY <3>1, <3>3, <3>4
  <2>2. CASE Resolved
    BY <2>2 DEF Resolved, savedTruth
  <2>3. ASSUME NEW b \in Atom, Flip(b)
        PROVE  Same
    <3>1. b \in Core
      BY <2>3 DEF Flip, Candidates
    <3>2. getFlipSequence(truth, b) \subseteq Core
      BY <3>1, FlipSequenceOwned
    <3>3. \A a \in Atom \ Core : truth'[a] = truth[a]
      BY <2>3, <3>2 DEF Flip, Flipped
    <3>4. \A a \in Atom \ Core : lowTruth'[a] = lowTruth[a]
      BY <2>3, <3>2 DEF Flip, savedTruth
    <3>5. QED
      BY <3>3, <3>4
  <2>4. QED
    BY <2>1, <2>2, <2>3
    DEF Next, SkipFlip, Crash, NextTry, Return, Terminating, vars
<1>2. Init => DirtyInv /\ BlockInv
  BY BlockInvInit DEF Init, DirtyInv, BlockInv
<1>3. DirtyInv /\ BlockInv /\ [Next]_vars => DirtyInv' /\ BlockInv'
  BY BlockInvStep, DirtyInvStep
<1>4. QED
  BY <1>1, <1>2, <1>3, PTL DEF Spec, OthersUntouched

-----------------------------------------------------------------------------
(* Atoms of other parts that are in a block are false from the first try   *)
(* on, so that no flip and no later try changes an atom that is not owned. *)
Settled == Started => \A a \in Atom \ Core : BlocksOf(a) # {} => ~ truth[a]

Bounded ==
  /\ pc = "flip" => itry <= NTries
  /\ ~ Started => gap = 0

(* All that is kept by increments, and what a step needs to know to keep   *)
(* it: the invariant of the search.                                        *)
SearchInv ==
  /\ TypeOK /\ BlockInv /\ Settled /\ Bounded
  /\ CostsExact /\ UnsatExact /\ DeltaExact
  /\ RealCostIsEstimate /\ CrashNeedsCut /\ LowIsReal

-----------------------------------------------------------------------------
LEMMA FlipSequenceWithin ==
  ASSUME NEW t, NEW a \in Atom
  PROVE  /\ a \in getFlipSequence(t, a)
         /\ getFlipSequence(t, a) \subseteq {a} \cup getBlockMates(a)
         /\ getFlipSequence(t, a) \subseteq Atom
<1>1. getBlockMates(a) \subseteq Atom
  BY GroundMRFAssumption DEF getBlockMates, BlocksOf
<1>2. QED
  BY <1>1 DEF getFlipSequence

(* Atoms of a block are mates of each other, and the mates of an atom of   *)
(* the block are its atoms.                                                *)
LEMMA MatesAreMutual ==
  ASSUME NEW a \in Atom, NEW b \in Atom, b \in getBlockMates(a)
  PROVE  a \in getBlockMates(b) /\ getBlockMates(a) = getBlockMates(b)
<1>1. PICK B \in Blocks : a \in B /\ b \in B
  BY DEF getBlockMates, BlocksOf
<1>2. BlocksOf(a) = {B} /\ BlocksOf(b) = {B}
  BY <1>1, GroundMRFAssumption DEF BlocksOf
<1>3. QED
  BY <1>1, <1>2 DEF getBlockMates

(* The flip of `a' concerns none of the atoms whose deltas it leaves alone: *)
(* they are in no block with an atom flipped and in no clause with one, and *)
(* neither are the atoms a flip of theirs would flip.                      *)
LEMMA UntouchedAtom ==
  ASSUME NEW t \in World, NEW a \in Atom, NEW c0 \in Clause, a \in AtomsIn(c0),
         NEW b \in Atom \ Closure(ClausesOf(getFlipSequence(t, a)))
  PROVE  LET S == getFlipSequence(t, a)
             F == getFlipSequence(t, b)
         IN  /\ getFlipSequence(Flipped(t, S), b) = F
             /\ ClausesOf(F) \cap ClausesOf(S) = {}
<1> DEFINE S == getFlipSequence(t, a)
           F == getFlipSequence(t, b)
           u == Flipped(t, S)
           touched == ClausesOf(S)
           atoms == UNION {AtomsIn(c) : c \in touched}
<1>1. a \in S /\ S \subseteq {a} \cup getBlockMates(a) /\ S \subseteq Atom
  BY FlipSequenceWithin
<1>2. a \in atoms
  BY <1>1 DEF ClausesOf
<1>3. b \notin atoms /\ \A x \in atoms : b \notin getBlockMates(x)
  BY DEF Closure
<1>4. \A x \in S : x # b /\ x \notin getBlockMates(b)
  <2> SUFFICES ASSUME NEW x \in S, x = b \/ x \in getBlockMates(b)
               PROVE  FALSE
    OBVIOUS
  <2>1. x \in Atom /\ (x = a \/ x \in getBlockMates(a))
    BY <1>1
  <2>2. CASE x = b
    BY <1>2, <1>3, <2>1, <2>2
  <2>3. CASE x \in getBlockMates(b)
    <3>1. b \in getBlockMates(x) /\ getBlockMates(b) = getBlockMates(x)
      BY <2>1, <2>3, MatesAreMutual
    <3>2. CASE x = a
      BY <1>2, <1>3, <3>1, <3>2
    <3>3. CASE x \in getBlockMates(a)
      <4>1. getBlockMates(a) = getBlockMates(x)
        BY <2>1, <3>3, MatesAreMutual
      <4>2. QED
        BY <1>2, <1>3, <3>1, <4>1
    <3>4. QED
      BY <2>1, <3>2, <3>3
  <2>4. QED
    BY <2>2, <2>3
<1>5. getFlipSequence(u, b) = F
  <2>1. \A x \in {b} \cup getBlockMates(b) : x \in Atom /\ u[x] = t[x]
    <3>1. getBlockMates(b) \subseteq Atom
      BY GroundMRFAssumption DEF getBlockMates, BlocksOf
    <3>2. \A x \in Atom : u[x] = IF x \in S THEN ~ t[x] ELSE t[x]
      BY FlippedTypes
    <3> HIDE DEF u, S
    <3>3. QED
      BY <1>4, <3>1, <3>2
  <2> HIDE DEF u
  <2>2. QED
    BY <2>1 DEF getFlipSequence
<1>6. ASSUME NEW c \in ClausesOf(F), c \in touched
      PROVE  FALSE
  <2>1. PICK x \in F : x \in AtomsIn(c)
    BY <1>6 DEF ClausesOf
  <2>2. x \in atoms
    BY <1>6, <2>1
  <2>3. x \in {b} \cup getBlockMates(b) /\ x \in Atom
    BY <2>1, FlipSequenceWithin
  <2>4. x = b \/ b \in getBlockMates(x)
    BY <2>3, MatesAreMutual
  <2>5. QED
    BY <1>3, <2>2, <2>4
<1>7. QED
  BY <1>5, <1>6

(* So a flip changes nothing about what a flip of such an atom would       *)
(* change.                                                                 *)
LEMMA DeltaUntouched ==
  ASSUME NEW t \in World, NEW a \in Atom, NEW c0 \in Clause, a \in AtomsIn(c0),
         NEW b \in Atom \ Closure(ClausesOf(getFlipSequence(t, a)))
  PROVE  LET u == Flipped(t, getFlipSequence(t, a))
         IN  WorldCost(Flipped(u, getFlipSequence(u, b))) - WorldCost(u)
               = WorldCost(Flipped(t, getFlipSequence(t, b))) - WorldCost(t)
<1> DEFINE S == getFlipSequence(t, a)
           F == getFlipSequence(t, b)
           u == Flipped(t, S)
           n == [c \in Clause |-> calcNSAT(t, c)]
           m == [c \in Clause |-> calcNSAT(u, c)]
<1>1. getFlipSequence(u, b) = F /\ ClausesOf(F) \cap ClausesOf(S) = {}
  BY UntouchedAtom
<1>2. u \in World
  BY FlippedTypes
<1>3. Potential(t, n, F) = WorldCost(Flipped(t, F)) - WorldCost(t)
  <2>1. \A c \in Clause : n[c] = calcNSAT(t, c)
    OBVIOUS
  <2> HIDE DEF n, F
  <2>2. QED
    BY <2>1, PotentialIsChange
<1>4. Potential(u, m, F) = WorldCost(Flipped(u, F)) - WorldCost(u)
  <2>1. \A c \in Clause : m[c] = calcNSAT(u, c)
    OBVIOUS
  <2> HIDE DEF m, F, u
  <2>2. QED
    BY <1>2, <2>1, PotentialIsChange
<1>5. \A c \in ClausesOf(F) : /\ c \in Clause
                              /\ m[c] = n[c]
                              /\ NSatChange(u, F, c) = NSatChange(t, F, c)
  <2> SUFFICES ASSUME NEW c \in ClausesOf(F)
               PROVE  /\ c \in Clause
                      /\ m[c] = n[c]
                      /\ NSatChange(u, F, c) = NSatChange(t, F, c)
    OBVIOUS
  <2>1. c \in Clause /\ c \notin ClausesOf(S)
    BY <1>1 DEF ClausesOf
  <2>2. \A l \in Lits(c) : isTrueLit(u, l) = isTrueLit(t, l)
    BY <2>1, UntouchedClause
  <2>3. m[c] = n[c]
    <3>1. {l \in Lits(c) : isTrueLit(u, l)} = {l \in Lits(c) : isTrueLit(t, l)}
      BY <2>2
    <3>2. calcNSAT(u, c) = calcNSAT(t, c)
      BY <3>1 DEF calcNSAT
    <3>3. QED
      BY <2>1, <3>2
  <2>4. NSatChange(u, F, c) = NSatChange(t, F, c)
    <3> DEFINE hit == {l \in Lits(c) : AtomOf(l) \in F}
    <3>1. {l \in hit : isTrueLit(u, l)} = {l \in hit : isTrueLit(t, l)}
      BY <2>2
    <3>2. QED
      BY <3>1 DEF NSatChange
  <2>5. QED
    BY <2>1, <2>3, <2>4
<1> HIDE DEF n, m, u, F
<1>6. Potential(u, m, F) = Potential(t, n, F)
  <2>1. {c \in ClausesOf(F) : m[c] > 0 /\ m[c] + NSatChange(u, F, c) <= 0}
          = {c \in ClausesOf(F) : n[c] > 0 /\ n[c] + NSatChange(t, F, c) <= 0}
    BY <1>5
  <2>2. {c \in ClausesOf(F) : m[c] = 0 /\ m[c] + NSatChange(u, F, c) > 0}
          = {c \in ClausesOf(F) : n[c] = 0 /\ n[c] + NSatChange(t, F, c) > 0}
    BY <1>5
  <2>3. QED
    BY <2>1, <2>2 DEF Potential
<1>7. QED
  BY <1>1, <1>3, <1>4, <1>6 DEF u, F

(* The magnitudes of the clauses that become unsatisfied, less those of    *)
(* the ones that no longer are, are the change of the world's cost.        *)
LEMMA EntersAndLeaves ==
  ASSUME NEW t, NEW u,
         NEW U \in SUBSET Clause, NEW V \in SUBSET Clause,
         \A c \in Clause : Weight(c) # 0 =>
           /\ c \in U <=> Violated(c, calcNSAT(t, c))
           /\ c \in V <=> Violated(c, calcNSAT(u, c))
  PROVE  MagnitudeOf(V \ U) - MagnitudeOf(U \ V) = WorldCost(u) - WorldCost(t)
<1> DEFINE n == [c \in Clause |-> calcNSAT(t, c)]
           m == [c \in Clause |-> calcNSAT(u, c)]
           f == [c \in Clause |-> cost(c, n[c])]
           g == [c \in Clause |-> cost(c, m[c])]
           w == [c \in Clause |-> Magnitude(c)]
           A == V \ U
           B == U \ V
<1>1. A \in SUBSET Clause /\ B \in SUBSET Clause
  OBVIOUS
<1>2. \A c \in Clause : f[c] \in Int /\ g[c] \in Int /\ w[c] \in Int
  BY CostTypes
<1>3. \A c \in Clause :
        g[c] = f[c] + ((IF c \in A THEN w[c] ELSE 0) - (IF c \in B THEN w[c] ELSE 0))
  <2> SUFFICES ASSUME NEW c \in Clause
               PROVE  g[c] = f[c] + ((IF c \in A THEN w[c] ELSE 0) - (IF c \in B THEN w[c] ELSE 0))
    OBVIOUS
  <2>1. Weight(c) \in Int
    BY MRFTypes
  <2>2. f[c] = cost(c, n[c]) /\ g[c] = cost(c, m[c]) /\ w[c] = Magnitude(c)
    OBVIOUS
  <2>3. CASE Weight(c) = 0
    <3>1. Magnitude(c) = 0 /\ cost(c, n[c]) = 0 /\ cost(c, m[c]) = 0
      BY <2>3 DEF Magnitude, cost, Violated
    <3>2. QED
      BY <2>2, <3>1
  <2>4. CASE Weight(c) # 0
    <3>1. (c \in U <=> Violated(c, n[c])) /\ (c \in V <=> Violated(c, m[c]))
      BY <2>4
    <3>2. Magnitude(c) \in Int
      BY CostTypes
    <3>3. /\ cost(c, n[c]) = IF c \in U THEN Magnitude(c) ELSE 0
          /\ cost(c, m[c]) = IF c \in V THEN Magnitude(c) ELSE 0
      BY <3>1 DEF cost
    <3>4. QED
      BY <2>2, <3>2, <3>3
  <2>5. QED
    BY <2>3, <2>4
<1>4. WorldCost(t) = SumFunctionOnSet(f, Clause)
  <2>1. \A c \in Clause : n[c] = calcNSAT(t, c)
    OBVIOUS
  <2>2. QED
    BY <2>1, WorldCostFrom
<1>5. WorldCost(u) = SumFunctionOnSet(g, Clause)
  <2>1. \A c \in Clause : m[c] = calcNSAT(u, c)
    OBVIOUS
  <2>2. QED
    BY <2>1, WorldCostFrom
<1>6. MagnitudeOf(A) = SumFunctionOnSet(w, A) /\ MagnitudeOf(B) = SumFunctionOnSet(w, B)
  BY DEF MagnitudeOf
<1> HIDE DEF f, g, w, A, B
<1>7. SumFunctionOnSet(g, Clause) - SumFunctionOnSet(f, Clause)
        = SumFunctionOnSet(w, A) - SumFunctionOnSet(w, B)
  BY <1>1, <1>2, <1>3, WeightDifference
<1>8. QED
  BY <1>4, <1>5, <1>6, <1>7 DEF A, B

(* Whether a clause is out of reach depends on the atoms not owned alone.  *)
LEMMA AlwaysTrueKept ==
  ASSUME NEW t \in World, NEW u \in World, \A a \in Atom \ Core : u[a] = t[a],
         NEW c \in Clause
  PROVE  isAlwaysTrue(u, c) <=> isAlwaysTrue(t, c)
<1>1. \A l \in Lits(c) : ~ ownsAtom(AtomOf(l)) => (isTrueLit(u, l) <=> isTrueLit(t, l))
  <2> SUFFICES ASSUME NEW l \in Lits(c), AtomOf(l) \notin Core
               PROVE  isTrueLit(u, l) <=> isTrueLit(t, l)
    BY DEF ownsAtom
  <2>1. AtomOf(l) \in Atom
    BY MRFTypes
  <2>2. isTrueLit(t, l) <=> IF l > 0 THEN t[AtomOf(l)] ELSE ~ t[AtomOf(l)]
    BY LiteralTypes
  <2>3. isTrueLit(u, l) <=> IF l > 0 THEN u[AtomOf(l)] ELSE ~ u[AtomOf(l)]
    BY LiteralTypes
  <2>4. QED
    BY <2>1, <2>2, <2>3
<1>2. QED
  BY <1>1 DEF isAlwaysTrue

(* A world saved in full is the world of the search; one that is not saved *)
(* stays what it was when no atom but the owned ones changes.              *)
LEMMA LowWorldIs ==
  ASSUME NEW t \in World, NEW low \in World
  PROVE  LET L(u, v) == [a \in Atom |-> IF ownsAtom(a) THEN u[a] ELSE v[a]]
         IN  /\ (\A a \in Core : low[a] = t[a]) => L(low, t) = t
             /\ \A u \in World : (\A a \in Atom \ Core : u[a] = t[a]) => L(low, u) = L(low, t)
<1> DEFINE L(u, v) == [a \in Atom |-> IF ownsAtom(a) THEN u[a] ELSE v[a]]
<1>1. ASSUME \A a \in Core : low[a] = t[a]
      PROVE  L(low, t) = t
  <2>1. t = [a \in Atom |-> t[a]]
    BY DEF World
  <2>2. \A a \in Atom : (IF ownsAtom(a) THEN low[a] ELSE t[a]) = t[a]
    BY <1>1 DEF ownsAtom
  <2>3. QED
    BY <2>1, <2>2
<1>2. ASSUME NEW u \in World, \A a \in Atom \ Core : u[a] = t[a]
      PROVE  L(low, u) = L(low, t)
  BY <1>2 DEF ownsAtom
<1>3. QED
  BY <1>1, <1>2

-----------------------------------------------------------------------------
LEMMA SearchInvInit == Init => SearchInv
<1> SUFFICES ASSUME Init
             PROVE  SearchInv
  OBVIOUS
<1>1. ~ Started
  BY DEF Init, Started
<1>2. BlockInv
  BY BlockInvInit
<1>3. Infinite \in Nat
  BY WorldCostTypes
<1>4. TypeOK
  BY <1>3, WalkSATAssumption DEF Init, TypeOK
<1>5. Bounded /\ RealCostIsEstimate /\ CrashNeedsCut
  BY DEF Init, Bounded, RealCostIsEstimate, CrashNeedsCut
<1>6. QED
  BY <1>1, <1>2, <1>4, <1>5
  DEF SearchInv, Settled, CostsExact, UnsatExact, DeltaExact, LowIsReal

(* A try starts with everything computed anew, for a world that agrees     *)
(* with the last one on the atoms that are not owned.                      *)
LEMMA StartTryKeeps ==
  ASSUME SearchInv, BlockInv', StartTry
  PROVE  SearchInv'
<1>1. PICK w \in InitialWorlds(truth, lowTruth, initStrategy) :
        LET fresh == calcCosts(w, {})
        IN  /\ truth' = w
            /\ nsat' = fresh.nsat
            /\ delta' = fresh.delta
            /\ unsat' = fresh.unsat
            /\ totalCost' = fresh.totalCost
            /\ lowCost' = fresh.totalCost
            /\ lowTruth' = [a \in Atom |-> IF ownsAtom(a) THEN w[a] ELSE lowTruth[a]]
  BY DEF StartTry
<1> DEFINE n == [c \in Clause |-> calcNSAT(w, c)]
<1>2. truth \in World /\ lowTruth \in World /\ w \in World
  BY InitialWorldsExclusive DEF SearchInv, TypeOK, World
<1>3. /\ truth' = w
      /\ nsat' = n
      /\ delta' = [a \in Atom |-> IF ownsAtom(a) THEN deltaOf(w, n, a) ELSE 0]
      /\ unsat' = {c \in Clause : cost(c, n[c]) > 0 /\ (ownsAllAtoms \/ ~ isAlwaysTrue(w, c))}
      /\ totalCost' = WorldCost(w)
      /\ lowCost' = totalCost'
  <2>1. Clause \ {} = Clause
    OBVIOUS
  <2>2. QED
    BY <1>1, <2>1 DEF calcCosts, WorldCost
<1>4. \A c \in Clause : n[c] = calcNSAT(w, c)
  OBVIOUS
<1> HIDE DEF n
<1>5. \A a \in Atom \ Core : w[a] = (truth[a] /\ BlocksOf(a) = {})
  <2>1. PICK t \in [Atom -> BOOLEAN] :
          w = maintainKeyConstraints([a \in Atom |-> IF ownsAtom(a) THEN t[a] ELSE truth[a]])
    BY <1>2, WalkSATAssumption DEF InitialWorlds, World
  <2>2. QED
    BY <2>1 DEF maintainKeyConstraints, ownsAtom
<1>6. Settled'
  BY <1>3, <1>5 DEF Settled
<1>7. pc' = "flip" /\ itry' = itry /\ itry <= NTries /\ flip' = 1 /\ dirty' = {} /\ gap' = gap
  BY DEF StartTry
<1>8. CostsExact'
  BY <1>3, <1>4 DEF CostsExact
<1>9. UnsatExact'
  BY <1>3, CostTypes DEF UnsatExact
<1>10. \A a \in Atom :
         deltaOf(w, n, a) = WorldCost(Flipped(w, getFlipSequence(w, a))) - WorldCost(w)
  BY <1>2, <1>4, PotentialIsChange DEF deltaOf
<1>11. DeltaExact'
  BY <1>3, <1>10, GroundMRFAssumption DEF DeltaExact, ownsAtom
<1>12. RealCostIsEstimate'
  <2>1. CASE ~ Started
    BY <1>7, <2>1 DEF SearchInv, Bounded, RealCostIsEstimate
  <2>2. CASE Started
    <3>1. \A a \in Atom \ Core : w[a] = truth[a]
      BY <1>2, <1>5, <2>2 DEF SearchInv, Settled, World
    <3>2. \A c \in Clause : isAlwaysTrue(w, c) <=> isAlwaysTrue(truth, c)
      BY <1>2, <3>1, AlwaysTrueKept
    <3>3. QED
      BY <1>3, <1>7, <3>2 DEF SearchInv, RealCostIsEstimate
  <2>3. QED
    BY <2>1, <2>2
<1>13. CrashNeedsCut' /\ Bounded'
  BY <1>7 DEF CrashNeedsCut, Bounded, Started
<1>14. LowIsReal'
  <2>1. lowTruth' = [a \in Atom |-> IF ownsAtom(a) THEN w[a] ELSE lowTruth[a]]
    BY <1>1
  <2>2. lowTruth' \in World /\ \A a \in Core : lowTruth'[a] = w[a]
    BY <1>2, <2>1, GroundMRFAssumption DEF World, ownsAtom
  <2>3. LowWorld' = w
    BY <1>2, <1>3, <2>2, LowWorldIs DEF LowWorld
  <2>4. WorldCost(w) \in Nat
    BY WorldCostTypes
  <2>5. QED
    BY <1>3, <2>3, <2>4 DEF LowIsReal
<1>15. TypeOK'
  <2>1. nsat' \in [Clause -> Nat]
    BY <1>3, <1>4, CountTypes DEF n
  <2>2. delta' \in [Atom -> Int]
    <3>1. \A a \in Atom : deltaOf(w, n, a) \in Int
      BY <1>10, WorldCostTypes
    <3>2. QED
      BY <1>3, <3>1
  <2>3. totalCost' \in 0 .. Infinite /\ lowCost' \in 0 .. Infinite
    BY <1>3, WorldCostTypes
  <2>4. unsat' \subseteq Clause
    BY <1>3
  <2>5. QED
    BY <1>7, <2>1, <2>2, <2>3, <2>4, WalkSATAssumption
    DEF SearchInv, TypeOK, BlockInv, WorldInv
<1>16. QED
  BY <1>6, <1>8, <1>9, <1>11, <1>12, <1>13, <1>14, <1>15 DEF SearchInv

(* A search that ends early may save the world it ends in.                 *)
LEMMA ResolvedKeeps ==
  ASSUME SearchInv, BlockInv', Resolved
  PROVE  SearchInv'
<1>1. /\ Started /\ Started'
      /\ UNCHANGED <<truth, nsat, delta, unsat, totalCost, itry, flip, gap>>
      /\ pc' = "returned"
  BY DEF Resolved, Started
<1>2. truth \in World /\ lowTruth \in World /\ lowTruth' \in World
  BY DEF SearchInv, TypeOK, World, BlockInv, WorldInv
<1>3. totalCost \in 0 .. Infinite /\ lowCost \in 0 .. Infinite /\ Infinite \in Nat
  BY WorldCostTypes DEF SearchInv, TypeOK
<1>4. LowIsReal' /\ lowCost' \in 0 .. Infinite /\ dirty' \subseteq Core
  <2>1. CASE UNCHANGED <<lowCost, lowTruth, dirty>>
    BY <1>1, <1>3, <2>1 DEF SearchInv, TypeOK, LowIsReal, LowWorld
  <2>2. CASE /\ lowCost' = totalCost
             /\ lowTruth' = savedTruth(lowTruth, truth, dirty)
             /\ dirty' = {}
    <3>1. \A a \in Core : lowTruth'[a] = truth[a]
      BY <2>2, SavedIsTruth DEF SearchInv, BlockInv, WorldInv
    <3>2. LowWorld' = truth
      BY <1>1, <1>2, <3>1, LowWorldIs DEF LowWorld
    <3>3. QED
      BY <1>1, <1>3, <2>2, <3>2 DEF SearchInv, LowIsReal, CostsExact
  <2>3. QED
    BY <2>1, <2>2 DEF Resolved
<1>5. TypeOK' /\ Settled' /\ Bounded'
  BY <1>1, <1>4 DEF SearchInv, TypeOK, Settled, Bounded, BlockInv, WorldInv
<1>6. CostsExact' /\ UnsatExact' /\ DeltaExact'
  BY <1>1 DEF SearchInv, CostsExact, UnsatExact, DeltaExact
<1>7. RealCostIsEstimate' /\ CrashNeedsCut'
  BY <1>1 DEF SearchInv, RealCostIsEstimate, CrashNeedsCut
<1>8. QED
  BY <1>4, <1>5, <1>6, <1>7 DEF SearchInv

(* The steps that touch neither the world nor the counters.                *)
LEMMA QuietKeeps ==
  ASSUME SearchInv, BlockInv',
         SkipFlip \/ Crash \/ NextTry \/ Return \/ UNCHANGED vars
  PROVE  SearchInv'
<1>1. /\ Started => Started'
      /\ Started' => Started
      /\ UNCHANGED <<truth, lowTruth, nsat, delta, unsat, totalCost, lowCost, dirty, gap>>
  BY WalkSATAssumption
  DEF SearchInv, TypeOK, SkipFlip, Crash, NextTry, Return, vars, Started
<1>2. CostsExact' /\ UnsatExact' /\ DeltaExact'
  BY <1>1 DEF SearchInv, CostsExact, UnsatExact, DeltaExact
<1>3. LowIsReal' /\ Settled' /\ RealCostIsEstimate'
  BY <1>1 DEF SearchInv, LowIsReal, LowWorld, Settled, RealCostIsEstimate
<1>4. TypeOK' /\ Bounded'
  BY <1>1, WalkSATAssumption
  DEF SearchInv, TypeOK, Bounded, BlockInv, WorldInv, SkipFlip, Crash, NextTry, Return, vars
<1>5. CrashNeedsCut'
  <2>1. CASE Crash
    <3>1. PICK c \in unsat : ~ isPositiveClause(c) /\ Candidates(c) = {}
      BY <2>1 DEF Crash
    <3>2. Started /\ c \in Clause /\ Weight(c) \in Int /\ Weight(c) < 0
      BY <2>1, <3>1, MRFTypes DEF Crash, Started, SearchInv, TypeOK, isPositiveClause
    <3>3. nsat[c] > 0 /\ nsat[c] = calcNSAT(truth, c)
      BY <3>1, <3>2 DEF SearchInv, UnsatExact, CostsExact, Violated
    <3>4. {l \in Lits(c) : isTrueLit(truth, l)} # {}
      BY <3>3, FS_EmptySet DEF calcNSAT
    <3>5. PICK l \in Lits(c) : isTrueLit(truth, l)
      BY <3>4
    <3>6. AtomOf(l) \notin Core
      BY <3>1, <3>5 DEF Candidates
    <3>7. QED
      BY <1>1, <3>1, <3>5, <3>6 DEF CrashNeedsCut, ownsAtom
  <2>2. CASE ~ Crash
    <3>1. pc' = "crashed" => pc = "crashed"
      BY <2>2 DEF SkipFlip, NextTry, Return, vars
    <3>2. QED
      BY <1>1, <3>1 DEF SearchInv, CrashNeedsCut
  <2>3. QED
    BY <2>1, <2>2
<1>6. QED
  BY <1>2, <1>3, <1>4, <1>5 DEF SearchInv

-----------------------------------------------------------------------------
(* A flip brings everything up to date by increments.                      *)
LEMMA FlipKeeps ==
  ASSUME SearchInv, BlockInv', NEW a \in Atom, Flip(a)
  PROVE  SearchInv'
<1> DEFINE S == getFlipSequence(truth, a)
           u == Flipped(truth, S)
           touched == ClausesOf(S)
           n == [c \in Clause |-> nsat[c] + NSatChange(truth, S, c)]
           still == {c \in Clause : IF c \in touched THEN UnsatNow(c, n[c]) ELSE c \in unsat}
           now == totalCost + delta[a]
           changed == dirty \cup S
<1>1. /\ Started /\ Started'
      /\ pc = "flip" /\ pc' = "flip" /\ itry' = itry /\ flip <= NSteps /\ flip' = flip + 1
  BY DEF Flip, Started
<1>2. PICK c0 \in unsat : a \in Candidates(c0)
  BY DEF Flip
<1>3. a \in Core /\ c0 \in Clause /\ a \in AtomsIn(c0)
  BY <1>2 DEF Candidates, SearchInv, TypeOK, AtomsIn
<1>4. S \subseteq Core /\ S \subseteq Atom
  BY <1>3, FlipSequenceOwned, FlipSequenceWithin
<1>5. /\ truth' = u
      /\ nsat' = n
      /\ unsat' = still
      /\ totalCost' = now
      /\ gap' = MagnitudeOf(still \ unsat) - MagnitudeOf(unsat \ still) - delta[a]
      /\ delta' = [b \in Atom |->
           IF b \in Closure(touched) THEN deltaOf(u, n, b) ELSE delta[b]]
  BY DEF Flip
<1>6. \/ now < lowCost /\ lowCost' = now /\ dirty' = {}
         /\ lowTruth' = savedTruth(lowTruth, u, changed)
      \/ ~ (now < lowCost) /\ dirty' = changed /\ UNCHANGED <<lowCost, lowTruth>>
  BY <1>5 DEF Flip
<1>7. /\ truth \in World /\ u \in World /\ lowTruth \in World /\ lowTruth' \in World
      /\ \A b \in Atom : u[b] = IF b \in S THEN ~ truth[b] ELSE truth[b]
  BY FlippedTypes DEF SearchInv, TypeOK, World, BlockInv, WorldInv
<1>8. /\ \A b \in Atom \ Core : u[b] = truth[b]
      /\ \A c \in Clause : isAlwaysTrue(u, c) <=> isAlwaysTrue(truth, c)
  <2>1. \A b \in Atom \ Core : u[b] = truth[b]
    BY <1>4, <1>7
  <2> HIDE DEF u
  <2>2. QED
    BY <1>7, <2>1, AlwaysTrueKept
<1>9. \A c \in Clause : /\ nsat[c] = calcNSAT(truth, c)
                        /\ n[c] = calcNSAT(u, c)
                        /\ n[c] \in Nat
  BY <1>1, <1>7, CountAfterFlip, CountTypes DEF SearchInv, CostsExact
<1>10. /\ WorldCost(truth) = totalCost /\ WorldCost(u) = now
       /\ totalCost \in Int /\ delta[a] \in Int
       /\ delta[a] = WorldCost(u) - WorldCost(truth)
  <2>1. WorldCost(truth) \in Nat /\ WorldCost(u) \in Nat
    BY WorldCostTypes
  <2>2. WorldCost(truth) = totalCost /\ delta[a] = WorldCost(u) - WorldCost(truth)
    BY <1>1, <1>3 DEF SearchInv, CostsExact, DeltaExact
  <2> HIDE DEF u
  <2>3. QED
    BY <2>1, <2>2
<1>11. CostsExact'
  BY <1>5, <1>9, <1>10 DEF CostsExact
<1>12. \A b \in Atom :
         deltaOf(u, n, b) = WorldCost(Flipped(u, getFlipSequence(u, b))) - WorldCost(u)
  <2> HIDE DEF u, n
  <2>1. \A c \in Clause : n[c] = calcNSAT(u, c)
    BY <1>9
  <2>2. QED
    BY <1>7, <2>1, PotentialIsChange DEF deltaOf
<1>13. DeltaExact'
  <2> SUFFICES ASSUME NEW b \in Core
               PROVE  delta'[b] = WorldCost(Flipped(u, getFlipSequence(u, b))) - WorldCost(u)
    BY <1>5 DEF DeltaExact
  <2>1. b \in Atom
    BY GroundMRFAssumption
  <2>2. CASE b \in Closure(touched)
    BY <1>5, <1>12, <2>1, <2>2
  <2>3. CASE b \notin Closure(touched)
    <3>1. delta[b] = WorldCost(Flipped(truth, getFlipSequence(truth, b))) - WorldCost(truth)
      BY <1>1 DEF SearchInv, DeltaExact
    <3>2. WorldCost(Flipped(u, getFlipSequence(u, b))) - WorldCost(u)
            = WorldCost(Flipped(truth, getFlipSequence(truth, b))) - WorldCost(truth)
      BY <1>3, <1>7, <2>1, <2>3, DeltaUntouched
    <3>3. delta'[b] = delta[b]
      BY <1>5, <2>1, <2>3
    <3>4. QED
      BY <3>1, <3>2, <3>3
  <2>4. QED
    BY <2>2, <2>3
<1>14. \A c \in Clause : /\ c \in touched => (c \in still <=> UnsatNow(c, n[c]))
                         /\ c \notin touched => (c \in still <=> c \in unsat) /\ n[c] = nsat[c]
  <2>1. \A c \in Clause \ touched : NSatChange(truth, S, c) = 0
    <3> HIDE DEF S
    <3>1. QED
      BY <1>7, UntouchedClause
  <2>2. \A c \in Clause : nsat[c] \in Nat
    BY DEF SearchInv, TypeOK
  <2>3. QED
    BY <2>1, <2>2
<1> HIDE DEF still, n, u, touched
<1>15. ASSUME NEW c \in Clause, Weight(c) # 0
       PROVE  /\ c \in still => Violated(c, n[c])
              /\ Violated(c, n[c]) /\ ~ isAlwaysTrue(u, c) => c \in still
  <2>1. CASE c \in touched
    BY <1>9, <1>14, <1>15, <2>1, MRFTypes DEF UnsatNow, Violated, isPositiveClause
  <2>2. CASE c \notin touched
    BY <1>1, <1>8, <1>14, <1>15, <2>2 DEF SearchInv, UnsatExact
  <2>3. QED
    BY <2>1, <2>2
<1>16. UnsatExact'
  BY <1>5, <1>15 DEF UnsatExact
<1>17. RealCostIsEstimate'
  <2> SUFFICES ASSUME \A c \in Clause : ~ isAlwaysTrue(u, c)
               PROVE  gap' = 0
    BY <1>5 DEF RealCostIsEstimate
  <2>1. \A c \in Clause : Weight(c) # 0 =>
          (c \in unsat <=> Violated(c, nsat[c])) /\ (c \in still <=> Violated(c, n[c]))
    BY <1>1, <1>8, <1>15 DEF SearchInv, UnsatExact
  <2>2. unsat \in SUBSET Clause /\ still \in SUBSET Clause
    BY DEF SearchInv, TypeOK, still
  <2>3. \A c \in Clause : Weight(c) # 0 =>
          /\ c \in unsat <=> Violated(c, calcNSAT(truth, c))
          /\ c \in still <=> Violated(c, calcNSAT(u, c))
    BY <1>9, <2>1
  <2>4. MagnitudeOf(still \ unsat) - MagnitudeOf(unsat \ still)
          = WorldCost(u) - WorldCost(truth)
    BY <2>2, <2>3, EntersAndLeaves
  <2>5. QED
    BY <1>5, <1>10, <2>4
<1>18. /\ LowIsReal'
       /\ lowCost' \in 0 .. Infinite /\ totalCost' \in 0 .. Infinite
       /\ dirty' \subseteq Core
  <2>1. WorldCost(u) \in 0 .. Infinite /\ lowCost \in 0 .. Infinite /\ Infinite \in Nat
    BY WorldCostTypes DEF SearchInv, TypeOK
  <2>2. LowWorld = [b \in Atom |-> IF ownsAtom(b) THEN lowTruth[b] ELSE truth[b]]
    BY DEF LowWorld
  <2>3. LowWorld' = [b \in Atom |-> IF ownsAtom(b) THEN lowTruth'[b] ELSE u[b]]
    BY <1>5 DEF LowWorld
  <2>4. CASE now < lowCost /\ lowCost' = now /\ dirty' = {}
             /\ lowTruth' = savedTruth(lowTruth, u, changed)
    <3>1. \A b \in Core \ changed : lowTruth[b] = u[b]
      BY <1>7, GroundMRFAssumption DEF SearchInv, BlockInv, WorldInv
    <3>2. \A b \in Core : lowTruth'[b] = u[b]
      BY <1>7, <2>4, <3>1, SavedIsTruth DEF World
    <3>3. LowWorld' = u
      BY <1>7, <2>3, <3>2, LowWorldIs
    <3>4. QED
      BY <1>5, <1>10, <2>1, <2>4, <3>3 DEF LowIsReal
  <2>5. CASE ~ (now < lowCost) /\ dirty' = changed /\ UNCHANGED <<lowCost, lowTruth>>
    <3>1. LowWorld' = LowWorld
      BY <1>7, <1>8, <2>2, <2>3, <2>5, LowWorldIs
    <3>2. WorldCost(LowWorld) = lowCost
      BY <1>1 DEF SearchInv, LowIsReal
    <3>3. dirty' \subseteq Core
      BY <1>4, <2>5 DEF SearchInv, TypeOK
    <3>4. QED
      BY <1>5, <1>10, <2>1, <2>5, <3>1, <3>2, <3>3 DEF LowIsReal
  <2>6. QED
    BY <1>6, <2>4, <2>5
<1>19. Settled' /\ Bounded' /\ CrashNeedsCut'
  BY <1>1, <1>5, <1>7, <1>8
  DEF SearchInv, Settled, Bounded, CrashNeedsCut, World
<1>20. nsat' \in [Clause -> Nat] /\ delta' \in [Atom -> Int] /\ gap' \in Int
  <2>1. nsat' \in [Clause -> Nat]
    BY <1>5, <1>9 DEF n
  <2>2. \A b \in Atom : deltaOf(u, n, b) \in Int
    BY <1>12, WorldCostTypes
  <2>3. delta' \in [Atom -> Int]
    BY <1>5, <2>2 DEF SearchInv, TypeOK
  <2>4. still \ unsat \in SUBSET Clause /\ unsat \ still \in SUBSET Clause
    BY DEF SearchInv, TypeOK, still
  <2>5. MagnitudeOf(still \ unsat) \in Int /\ MagnitudeOf(unsat \ still) \in Int
    BY <2>4, WeightTypes
  <2>6. QED
    BY <1>5, <1>10, <2>1, <2>3, <2>5
<1>21. unsat' \subseteq Clause
  BY <1>5 DEF still
<1>22. TypeOK'
  BY <1>1, <1>7, <1>18, <1>20, <1>21, WalkSATAssumption
  DEF SearchInv, TypeOK, BlockInv, WorldInv
<1>23. QED
  BY <1>11, <1>13, <1>16, <1>17, <1>18, <1>19, <1>22 DEF SearchInv

LEMMA SearchInvStep == SearchInv /\ [Next]_vars => SearchInv'
<1> SUFFICES ASSUME SearchInv, [Next]_vars
             PROVE  SearchInv'
  OBVIOUS
<1>1. BlockInv'
  BY BlockInvStep DEF SearchInv
<1>2. CASE StartTry
  BY <1>1, <1>2, StartTryKeeps
<1>3. CASE Resolved
  BY <1>1, <1>3, ResolvedKeeps
<1>4. ASSUME NEW a \in Atom, Flip(a)
      PROVE  SearchInv'
  BY <1>1, <1>4, FlipKeeps
<1>5. CASE SkipFlip \/ Crash \/ NextTry \/ Return \/ UNCHANGED vars
  BY <1>1, <1>5, QuietKeeps
<1>6. QED
  BY <1>2, <1>3, <1>4, <1>5 DEF Next, Terminating

(* However many flips a search makes, what it keeps by increments is what  *)
(* a fresh computation would give: the true literals of every clause, the  *)
(* cost, the unsatisfied clauses, the delta of every atom it may flip; and *)
(* the assertion that the code makes of each flip holds.                   *)
THEOREM IncrementsExactHolds == Spec => []IncrementsExact
<1>1. SearchInv => IncrementsExact
  BY DEF SearchInv, IncrementsExact, CountersExact
<1>2. QED
  BY <1>1, SearchInvInit, SearchInvStep, PTL DEF Spec

(* The world a search returns costs what it says, and it is the cheapest   *)
(* of those seen since the last try began.                                 *)
THEOREM LowIsRealHolds == Spec => []LowIsReal
<1>1. SearchInv => LowIsReal
  BY DEF SearchInv
<1>2. QED
  BY <1>1, SearchInvInit, SearchInvStep, PTL DEF Spec
=============================================================================
