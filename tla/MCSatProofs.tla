---------------------------- MODULE MCSatProofs -----------------------------
(***************************************************************************)
(* Proofs about MCSat for any MRF, any slices and any number of samples.   *)
(***************************************************************************)
EXTENDS MCSat, GroundMRFProofs

(* Where the sampler is tells its mode and how many samples were taken, so  *)
(* no atom is counted more often than that.                                *)
Phase ==
  /\ pc = "start" => sample = 0
  /\ pc = "select" => sampleSatMode
  /\ pc \in {"select", "search", "found", "gaveUp"} =>
       IF sampleSatMode THEN sample \in 1 .. NSamples ELSE sample = 0
  /\ \A a \in Atom : tallyTrue[a] <= IF sample = 0 THEN 0 ELSE sample - 1

(* An atom whose saved value is not its present one is marked as dirty.    *)
Marked == Searching => \A a \in Atom \ dirty : lowTruth[a] = truth[a]

(* A sample leaves the counts of its world behind.                         *)
Recounts == pc = "select" /\ sample > 1 => \A c \in Clause : nsat[c] = calcNSAT(truth, c)

SamplerInv == CountersExact /\ SavedWorldVisited /\ Phase /\ Marked /\ Recounts

-----------------------------------------------------------------------------
(* How much the cost of a clause changes with a flip of b differs before   *)
(* and after a flip of a by what the code adds to the delta of b.          *)
LEMMA ClauseDelta ==
  ASSUME truth \in World, NEW c \in Clause,
         NEW a \in AtomsIn(c), NEW b \in AtomsIn(c), a # b
  PROVE  LET u == Flipped(truth, {a})
             k(v) == cost(c, calcNSAT(v, c))
         IN  k(Flipped(u, {b})) - k(u)
               = (k(Flipped(truth, {b})) - k(truth)) + DeltaChange(a, b, c, calcNSAT(u, c))
<1> DEFINE u == Flipped(truth, {a})
           tb == Flipped(truth, {b})
           ub == Flipped(u, {b})
<1>1. PICK l \in Lits(c), m \in Lits(c) : a = AtomOf(l) /\ b = AtomOf(m)
  BY DEF AtomsIn
<1>2. /\ \A k \in Lits(c) : AtomOf(k) = a => k = l
      /\ \A k \in Lits(c) : AtomOf(k) = b => k = m
  BY <1>1, OneLiteral
<1>3. isTrueLit(truth, l) \in BOOLEAN /\ isTrueLit(truth, m) \in BOOLEAN
  BY LiteralTypes
<1> DEFINE n == calcNSAT(truth, c)
           na == calcNSAT(u, c)
           nb == calcNSAT(tb, c)
           nab == calcNSAT(ub, c)
           p == isTrueLit(truth, l)
           q == isTrueLit(truth, m)
<1>4. /\ na = n + (IF p THEN -1 ELSE 1)
      /\ nb = n + (IF q THEN -1 ELSE 1)
      /\ nab = n + (IF p THEN -1 ELSE 1) + (IF q THEN -1 ELSE 1)
  BY <1>1, CountAfterTwo
<1>5. n \in Nat /\ na \in Nat /\ nb \in Nat /\ nab \in Nat
  BY CountTypes
<1>6. /\ (\E k \in Lits(c) : AtomOf(k) = a /\ ~ isTrueLit(truth, k)) <=> ~ p
      /\ (\E k \in Lits(c) : AtomOf(k) = b /\ isTrueLit(truth, k)) <=> q
  BY <1>1, <1>2
<1>7. DeltaChange(a, b, c, na) =
        CASE ~ p /\ na = 1      -> Weight(c)
          [] ~ p /\ na = 2 /\ q -> -Weight(c)
          [] p /\ na = 0        -> -Weight(c)
          [] p /\ na = 1 /\ q   -> Weight(c)
          [] OTHER              -> 0
  <2> HIDE DEF na, p, q
  <2>1. QED
    BY <1>6 DEF DeltaChange
<1>8. Weight(c) \in Int
  BY MRFTypes
<1>9. \A k \in Nat : cost(c, k) = IF Weight(c) > 0 THEN IF k = 0 THEN Weight(c) ELSE 0
                                  ELSE IF k = 0 THEN 0 ELSE -Weight(c)
  BY <1>8 DEF cost, Violated, Magnitude
<1> HIDE DEF n, na, nb, nab, p, q, u, tb, ub
<1>10. cost(c, nab) - cost(c, na) = (cost(c, nb) - cost(c, n)) + DeltaChange(a, b, c, na)
  <2> DEFINE w == Weight(c)
  <2>1. w \in Int
    BY <1>8
  <2>2. \A k \in Nat : cost(c, k) = IF w > 0 THEN IF k = 0 THEN w ELSE 0
                                    ELSE IF k = 0 THEN 0 ELSE -w
    BY <1>9
  <2>3. CASE p /\ q
    <3>1. na = n - 1 /\ nb = n - 1 /\ nab = n - 2 /\ n >= 2
      BY <1>4, <1>5, <2>3
    <3>2. DeltaChange(a, b, c, na) = IF n = 2 THEN w ELSE 0
      BY <1>5, <1>7, <2>3, <3>1
    <3> HIDE DEF w
    <3>3. QED
      BY <1>5, <2>1, <2>2, <3>1, <3>2
  <2>4. CASE p /\ ~ q
    <3>1. na = n - 1 /\ nb = n + 1 /\ nab = n /\ n >= 1
      BY <1>4, <1>5, <2>4
    <3>2. DeltaChange(a, b, c, na) = IF n = 1 THEN -w ELSE 0
      BY <1>5, <1>7, <2>4, <3>1
    <3> HIDE DEF w
    <3>3. QED
      BY <1>5, <2>1, <2>2, <3>1, <3>2
  <2>5. CASE ~ p /\ q
    <3>1. na = n + 1 /\ nb = n - 1 /\ nab = n /\ n >= 1
      BY <1>4, <1>5, <2>5
    <3>2. DeltaChange(a, b, c, na) = IF n = 1 THEN -w ELSE 0
      BY <1>5, <1>7, <2>5, <3>1
    <3> HIDE DEF w
    <3>3. QED
      BY <1>5, <2>1, <2>2, <3>1, <3>2
  <2>6. CASE ~ p /\ ~ q
    <3>1. na = n + 1 /\ nb = n + 1 /\ nab = n + 2
      BY <1>4, <1>5, <2>6
    <3>2. DeltaChange(a, b, c, na) = IF n = 0 THEN w ELSE 0
      BY <1>5, <1>7, <2>6, <3>1
    <3> HIDE DEF w
    <3>3. QED
      BY <1>5, <2>1, <2>2, <3>1, <3>2
  <2>7. QED
    BY <2>3, <2>4, <2>5, <2>6
<1>11. QED
  BY <1>10 DEF n, na, nb, nab, u, tb, ub

LEMMA DeltaIsInt ==
  ASSUME NEW a, NEW b, NEW c \in Clause, NEW n
  PROVE  DeltaChange(a, b, c, n) \in Int
BY MRFTypes DEF DeltaChange

(* A clause without one of two atoms costs no more and no less for a flip  *)
(* of one when the other is flipped first.                                 *)
LEMMA ClauseDeltaApart ==
  ASSUME truth \in World, NEW c \in Clause, NEW a, NEW b,
         a \notin AtomsIn(c) \/ b \notin AtomsIn(c)
  PROVE  LET u == Flipped(truth, {a})
             k(v) == cost(c, calcNSAT(v, c))
         IN  k(Flipped(u, {b})) - k(u) = k(Flipped(truth, {b})) - k(truth)
<1> DEFINE u == Flipped(truth, {a})
<1>1. \A v \in World : \A x : x \notin AtomsIn(c) =>
        calcNSAT(Flipped(v, {x}), c) = calcNSAT(v, c)
  <2> SUFFICES ASSUME NEW v \in World, NEW x, x \notin AtomsIn(c)
               PROVE  calcNSAT(Flipped(v, {x}), c) = calcNSAT(v, c)
    OBVIOUS
  <2>1. c \notin ClausesOf({x})
    BY DEF ClausesOf
  <2>2. NSatChange(v, {x}, c) = 0 /\ calcNSAT(v, c) \in Nat
    BY <2>1, UntouchedClause, CountTypes
  <2>3. QED
    BY <2>2, CountAfterFlip
<1>2. u \in World /\ Flipped(truth, {b}) \in World
  BY FlippedTypes
<1>3. \A v : cost(c, calcNSAT(v, c)) \in Nat
  BY CostTypes
<1>4. CASE b \notin AtomsIn(c)
  BY <1>1, <1>2, <1>3, <1>4
<1>5. CASE a \notin AtomsIn(c)
  <2>1. calcNSAT(u, c) = calcNSAT(truth, c)
    BY <1>1, <1>5
  <2>2. calcNSAT(Flipped(u, {b}), c) = calcNSAT(Flipped(truth, {b}), c)
    <3>1. calcNSAT(Flipped(u, {b}), c) = calcNSAT(u, c) + NSatChange(u, {b}, c)
      BY <1>2, CountAfterFlip
    <3>2. calcNSAT(Flipped(truth, {b}), c) = calcNSAT(truth, c) + NSatChange(truth, {b}, c)
      BY CountAfterFlip
    <3>3. NSatChange(u, {b}, c) = NSatChange(truth, {b}, c)
      <4>1. c \notin ClausesOf({a})
        BY <1>5 DEF ClausesOf
      <4>2. \A l \in Lits(c) : isTrueLit(u, l) = isTrueLit(truth, l)
        BY <4>1, UntouchedClause
      <4> DEFINE hit == {l \in Lits(c) : AtomOf(l) \in {b}}
      <4>3. {l \in hit : isTrueLit(u, l)} = {l \in hit : isTrueLit(truth, l)}
        BY <4>2
      <4>4. QED
        BY <4>3 DEF NSatChange
    <3>4. QED
      BY <2>1, <3>1, <3>2, <3>3
  <2>3. QED
    BY <2>1, <2>2
<1>6. QED
  BY <1>4, <1>5

(* So the delta of b after the flip of a is what the code makes of it.     *)
LEMMA DeltaAfterFlip ==
  ASSUME truth \in World, NEW a \in Atom, NEW b \in Atom, a # b,
         NEW n, \A c \in Clause : n[c] = calcNSAT(Flipped(truth, {a}), c)
  PROVE  LET u == Flipped(truth, {a})
         IN  WorldCost(Flipped(u, {b})) - WorldCost(u)
               = (WorldCost(Flipped(truth, {b})) - WorldCost(truth))
                 + SumFunctionOnSet([c \in Clause |-> DeltaChange(a, b, c, n[c])],
                                    {c \in ClausesOf({a}) : b \in AtomsIn(c)})
<1> DEFINE u == Flipped(truth, {a})
           k(v) == [c \in Clause |-> cost(c, calcNSAT(v, c))]
           T == {c \in ClausesOf({a}) : b \in AtomsIn(c)}
           d == [c \in Clause |-> DeltaChange(a, b, c, n[c])]
           D == [c \in Clause |-> IF c \in T THEN d[c] ELSE 0]
           f1 == k(Flipped(u, {b}))
           f2 == k(u)
           f3 == k(Flipped(truth, {b}))
           f4 == k(truth)
           g == [c \in Clause |-> f1[c] + f4[c]]
           h == [c \in Clause |-> f2[c] + f3[c]]
<1>1. \A v : WorldCost(v) = SumFunctionOnSet(k(v), Clause)
  <2> SUFFICES ASSUME NEW v
               PROVE  WorldCost(v) = SumFunctionOnSet(k(v), Clause)
    OBVIOUS
  <2> DEFINE m == [c \in Clause |-> calcNSAT(v, c)]
  <2>1. \A c \in Clause : m[c] = calcNSAT(v, c)
    OBVIOUS
  <2>2. [c \in Clause |-> cost(c, m[c])] = k(v)
    OBVIOUS
  <2> HIDE DEF m
  <2>3. WorldCost(v) = SumFunctionOnSet([c \in Clause |-> cost(c, m[c])], Clause)
    BY <2>1, WorldCostFrom
  <2>4. QED
    BY <2>2, <2>3
<1>2. /\ WorldCost(Flipped(u, {b})) = SumFunctionOnSet(f1, Clause)
      /\ WorldCost(u) = SumFunctionOnSet(f2, Clause)
      /\ WorldCost(Flipped(truth, {b})) = SumFunctionOnSet(f3, Clause)
      /\ WorldCost(truth) = SumFunctionOnSet(f4, Clause)
  BY <1>1
<1>3. \A c \in Clause : f1[c] \in Int /\ f2[c] \in Int /\ f3[c] \in Int /\ f4[c] \in Int
  BY CostTypes
<1>4. \A c \in Clause : d[c] \in Int
  BY DeltaIsInt
<1>5. T \in SUBSET Clause
  BY DEF ClausesOf
<1>6. \A c \in Clause : f1[c] - f2[c] = (f3[c] - f4[c]) + D[c]
  <2> SUFFICES ASSUME NEW c \in Clause
               PROVE  f1[c] - f2[c] = (f3[c] - f4[c]) + D[c]
    OBVIOUS
  <2>1. c \in T <=> a \in AtomsIn(c) /\ b \in AtomsIn(c)
    BY DEF ClausesOf
  <2>2. CASE c \in T
    <3>1. f1[c] - f2[c] = (f3[c] - f4[c]) + DeltaChange(a, b, c, calcNSAT(u, c))
      BY <2>1, <2>2, ClauseDelta
    <3>2. D[c] = DeltaChange(a, b, c, calcNSAT(u, c))
      BY <2>2
    <3>3. QED
      BY <3>1, <3>2
  <2>3. CASE c \notin T
    <3>1. f1[c] - f2[c] = f3[c] - f4[c]
      BY <2>1, <2>3, ClauseDeltaApart
    <3>2. D[c] = 0
      BY <2>3
    <3> HIDE DEF f1, f2, f3, f4, D
    <3>3. QED
      BY <1>3, <3>1, <3>2
  <2>4. QED
    BY <2>2, <2>3
<1>7. \A c \in Clause : D[c] = IF c \in T THEN d[c] ELSE 0
  OBVIOUS
<1>8. \A c \in Clause : g[c] = f1[c] + f4[c] /\ h[c] = f2[c] + f3[c]
  OBVIOUS
<1> HIDE DEF f1, f2, f3, f4, g, h, d, D, T
<1>9. IsFiniteSet(Clause)
  BY MRFTypes
<1>10. \A c \in Clause : D[c] \in Int /\ g[c] \in Int /\ h[c] \in Int /\ g[c] = h[c] + D[c]
  BY <1>3, <1>4, <1>6, <1>7, <1>8
<1>11. SumFunctionOnSet(g, Clause) = SumFunctionOnSet(f1, Clause) + SumFunctionOnSet(f4, Clause)
  BY <1>3, <1>8, <1>9, SumPlus
<1>12. SumFunctionOnSet(h, Clause) = SumFunctionOnSet(f2, Clause) + SumFunctionOnSet(f3, Clause)
  BY <1>3, <1>8, <1>9, SumPlus
<1>13. SumFunctionOnSet(g, Clause) = SumFunctionOnSet(h, Clause) + SumFunctionOnSet(D, Clause)
  BY <1>9, <1>10, SumPlus
<1>14. SumFunctionOnSet(d, T) = SumFunctionOnSet(D, Clause)
  BY <1>4, <1>5, <1>7, <1>9, SumRestricted
<1>15. \A f : (\A c \in Clause : f[c] \in Int) => SumFunctionOnSet(f, Clause) \in Int
  BY <1>9, SumInt
<1>16. /\ SumFunctionOnSet(f1, Clause) \in Int /\ SumFunctionOnSet(f2, Clause) \in Int
       /\ SumFunctionOnSet(f3, Clause) \in Int /\ SumFunctionOnSet(f4, Clause) \in Int
       /\ SumFunctionOnSet(D, Clause) \in Int
  BY <1>3, <1>10, <1>15
<1>17. WorldCost(Flipped(u, {b})) - WorldCost(u)
         = (WorldCost(Flipped(truth, {b})) - WorldCost(truth)) + SumFunctionOnSet(d, T)
  BY <1>2, <1>11, <1>12, <1>13, <1>14, <1>16
<1>18. QED
  BY <1>17 DEF d, T

-----------------------------------------------------------------------------
(* A world that a search starts from is a world.                           *)
LEMMA StartsInWorld ==
  ASSUME truth \in World, NEW w \in InitialWorlds(truth, lowTruth, "COIN_FLIP")
  PROVE  w \in World
<1>1. PICK t \in [Atom -> BOOLEAN] :
        w = maintainKeyConstraints([a \in Atom |-> IF ownsAtom(a) THEN t[a] ELSE truth[a]])
  BY DEF InitialWorlds
<1>2. QED
  BY <1>1 DEF maintainKeyConstraints, World

(* A search starts with everything computed anew.                          *)
LEMMA SearchStarts ==
  ASSUME MCSatInput, truth \in World, NEW D \in SUBSET Clause, StartSearch(D)
  PROVE  /\ truth' \in World /\ lowTruth' \in World /\ lowWorld' \in World
         /\ nsat' \in [Clause -> Nat] /\ delta' \in [Atom -> Int]
         /\ unsat' \subseteq Clause /\ dead' = D
         /\ totalCost' \in Int /\ lowCost' \in Int
         /\ dirty' = {} /\ flip' = 1 /\ pc' = "search"
         /\ UnsatExact' /\ DeltaExactIfAllAlive' /\ SavedWorldVisited' /\ Marked'
<1>1. PICK w \in InitialWorlds(truth, lowTruth, "COIN_FLIP") :
        LET fresh == calcCosts(w, D)
        IN  /\ truth' = w
            /\ nsat' = fresh.nsat
            /\ delta' = fresh.delta
            /\ unsat' = fresh.unsat
            /\ totalCost' = fresh.totalCost
            /\ lowCost' = fresh.totalCost
            /\ lowTruth' = w
            /\ lowWorld' = w
  BY DEF StartSearch
<1> DEFINE n == [c \in Clause |-> calcNSAT(w, c)]
<1>2. w \in World
  BY StartsInWorld
<1>3. /\ truth' = w /\ lowTruth' = w /\ lowWorld' = w
      /\ nsat' = n
      /\ delta' = [a \in Atom |-> IF ownsAtom(a) THEN deltaOf(w, n, a) ELSE 0]
      /\ unsat' = {c \in Clause \ D : cost(c, n[c]) > 0 /\ (ownsAllAtoms \/ ~ isAlwaysTrue(w, c))}
      /\ totalCost' = CostOfClauses(Clause \ D, n)
      /\ lowCost' = totalCost'
  BY <1>1 DEF calcCosts
<1>4. dead' = D /\ dirty' = {} /\ flip' = 1 /\ pc' = "search"
  BY DEF StartSearch
<1>5. \A c \in Clause : n[c] = calcNSAT(w, c)
  OBVIOUS
<1>6. nsat' \in [Clause -> Nat]
  BY <1>3, CountTypes
<1>7. WorldCost(w) = CostOfClauses(Clause, n)
  BY DEF WorldCost
<1> HIDE DEF n
<1>8. \A a \in Atom :
        deltaOf(w, n, a) = WorldCost(Flipped(w, getFlipSequence(w, a))) - WorldCost(w)
  BY <1>2, <1>5, PotentialIsChange DEF deltaOf
<1>9. \A a \in Atom : ownsAtom(a)
  BY DEF MCSatInput, ownsAllAtoms, ownsAtom
<1>10. delta' \in [Atom -> Int]
  <2>1. \A a \in Atom : deltaOf(w, n, a) \in Int
    BY <1>8, WorldCostTypes
  <2>2. QED
    BY <1>3, <2>1
<1>11. totalCost' \in Int
  <2> DEFINE f == [c \in Clause |-> cost(c, n[c])]
             A == Clause \ D
  <2>1. IsFiniteSet(A) /\ \A c \in A : f[c] \in Int
    BY MRFTypes, FS_Subset, CostTypes
  <2>2. totalCost' = SumFunctionOnSet(f, A)
    BY <1>3 DEF CostOfClauses
  <2> HIDE DEF f, A
  <2>3. QED
    BY <2>1, <2>2, SumInt
<1>12. UnsatExact'
  BY <1>3, <1>4, <1>5, CostTypes DEF UnsatExact, MCSatInput
<1>13. DeltaExactIfAllAlive'
  <2> SUFFICES ASSUME D = {}, Blocks = {}
               PROVE  /\ totalCost' = WorldCost(w)
                      /\ \A a \in Atom : delta'[a] = WorldCost(Flipped(w, {a})) - WorldCost(w)
    BY <1>3, <1>4 DEF DeltaExactIfAllAlive
  <2>1. totalCost' = WorldCost(w)
    <3>1. Clause \ D = Clause
      OBVIOUS
    <3>2. QED
      BY <1>3, <1>7, <3>1
  <2>2. \A a \in Atom : getFlipSequence(w, a) = {a}
    BY DEF getFlipSequence, getBlockMates, BlocksOf
  <2>3. QED
    BY <1>3, <1>8, <1>9, <2>1, <2>2
<1>14. SavedWorldVisited' /\ Marked'
  BY <1>3 DEF SavedWorldVisited, Marked
<1>15. unsat' \subseteq Clause /\ lowCost' \in Int
  BY <1>3, <1>11
<1>16. QED
  BY <1>2, <1>3, <1>4, <1>6, <1>10, <1>11, <1>12, <1>13, <1>14, <1>15

LEMMA StartsKeep ==
  ASSUME MCSatInput, SamplerInv, Start \/ Select
  PROVE  SamplerInv'
<1>1. truth \in World /\ MCSatInput
  BY DEF SamplerInv, CountersExact, TypeOK, World
<1>2. PICK D \in SUBSET Clause : StartSearch(D)
  <2>1. CASE Start
    BY <2>1 DEF Start
  <2>2. CASE Select
    BY <2>2 DEF Select
  <2>3. QED
    BY <2>1, <2>2
<1>3. /\ truth' \in World /\ lowTruth' \in World /\ lowWorld' \in World
      /\ nsat' \in [Clause -> Nat] /\ delta' \in [Atom -> Int]
      /\ unsat' \subseteq Clause /\ dead' = D
      /\ totalCost' \in Int /\ lowCost' \in Int
      /\ dirty' = {} /\ flip' = 1 /\ pc' = "search"
      /\ UnsatExact' /\ DeltaExactIfAllAlive' /\ SavedWorldVisited' /\ Marked'
  BY <1>1, <1>2, SearchStarts
<1>4. /\ sampleSatMode' \in BOOLEAN /\ sample' \in 0 .. NSamples + 1
      /\ tallyTrue' \in [Atom -> 0 .. NSamples]
      /\ Phase'
  <2>1. CASE Start
    <3>1. /\ sampleSatMode' = FALSE /\ sample' = 0 /\ pc' = "search"
          /\ tallyTrue' = [a \in Atom |-> 0]
      BY <1>3, <2>1 DEF Start, SamplerInv, Phase
    <3>2. NSamples \in Nat
      BY DEF MCSatInput
    <3>3. tallyTrue' \in [Atom -> 0 .. NSamples] /\ \A a \in Atom : tallyTrue'[a] <= 0
      BY <3>1, <3>2
    <3>4. Phase'
      BY <3>1, <3>3 DEF Phase
    <3>5. sampleSatMode' \in BOOLEAN
      BY <3>1
    <3>6. sample' \in 0 .. NSamples + 1
      BY <3>1, <3>2
    <3>7. QED
      BY <3>3, <3>4, <3>5, <3>6
  <2>2. CASE Select
    BY <1>3, <2>2 DEF Select, SamplerInv, CountersExact, TypeOK, Phase
  <2>3. QED
    BY <2>1, <2>2
<1>5. TypeOK'
  BY <1>3, <1>4 DEF TypeOK, World, MCSatInput
<1>6. QED
  BY <1>3, <1>4, <1>5 DEF SamplerInv, CountersExact, Recounts

(* Saving the dirty atoms, or all if none is dirty, saves the world.       *)
LEMMA SaveSaves ==
  ASSUME MCSatInput, NEW low \in World, NEW world \in World, NEW D \in SUBSET Atom,
         \A a \in Atom \ D : low[a] = world[a]
  PROVE  savedTruth(low, world, D) = world
<1>1. savedTruth(low, world, D) = [a \in Atom |->
        IF a \in (IF D # {} THEN D ELSE Core) THEN world[a] ELSE low[a]]
  BY DEF savedTruth
<1>2. \A a \in Atom : (IF a \in (IF D # {} THEN D ELSE Core) THEN world[a] ELSE low[a]) = world[a]
  BY DEF MCSatInput, ownsAllAtoms
<1>3. world = [a \in Atom |-> world[a]]
  BY DEF World
<1>4. QED
  BY <1>1, <1>2, <1>3

LEMMA FoundKeeps ==
  ASSUME MCSatInput, SamplerInv, Found
  PROVE  SamplerInv'
<1>1. /\ Searching /\ Searching' /\ pc' = "found" /\ pc = "search"
      /\ UNCHANGED <<sampleSatMode, sample, truth, nsat, delta, unsat, dead,
                     totalCost, flip, tallyTrue>>
  BY DEF Found, Searching
<1>2. /\ truth \in World /\ lowTruth \in World /\ dirty \in SUBSET Atom
      /\ \A a \in Atom \ dirty : lowTruth[a] = truth[a]
  BY <1>1 DEF SamplerInv, CountersExact, TypeOK, World, Marked
<1>3. savedTruth(lowTruth, truth, dirty) = truth
  BY <1>2, SaveSaves
<1>4. /\ lowCost' \in Int /\ dirty' \subseteq Atom
      /\ lowTruth' = lowWorld' /\ lowTruth' \in World
      /\ \A a \in Atom \ dirty' : lowTruth'[a] = truth[a]
  BY <1>1, <1>2, <1>3
  DEF Found, Save, SamplerInv, CountersExact, TypeOK, SavedWorldVisited
<1>5. TypeOK'
  BY <1>1, <1>4 DEF SamplerInv, CountersExact, TypeOK, World
<1>6. UnsatExact' /\ DeltaExactIfAllAlive'
  BY <1>1 DEF SamplerInv, CountersExact, UnsatExact, DeltaExactIfAllAlive
<1>7. Phase' /\ Recounts'
  BY <1>1 DEF SamplerInv, Phase, Recounts
<1>8. QED
  BY <1>1, <1>4, <1>5, <1>6, <1>7 DEF SamplerInv, CountersExact, SavedWorldVisited, Marked

(* The increments of a flip keep what they are to keep.                    *)
LEMMA FlipKeeps ==
  ASSUME MCSatInput, SamplerInv, NEW a \in Atom, Flip(a)
  PROVE  SamplerInv'
<1> DEFINE u == Flipped(truth, {a})
           n == [c \in Clause |-> nsat[c] + NSatChange(truth, {a}, c)]
           touched == ClausesOf({a}) \ dead
           now == totalCost + delta[a]
           still == (unsat \ touched) \cup {c \in touched : Violated(c, n[c])}
           d(b) == SumFunctionOnSet([c \in Clause |-> DeltaChange(a, b, c, n[c])],
                                    {c \in touched : b \in AtomsIn(c)})
<1>1. /\ Searching /\ Searching' /\ pc = "search"
      /\ UNCHANGED <<pc, sampleSatMode, sample, dead, tallyTrue>>
      /\ flip <= NSteps /\ flip' = flip + 1
  BY DEF Flip, Searching
<1>2. [c \in Clause |->
        IF c \in Counted THEN nsat[c] + NSatChange(truth, {a}, c) ELSE nsat[c]] = n
  BY DEF Counted
<1>3. /\ totalCost' = now
      /\ truth' = u
      /\ nsat' = n
      /\ unsat' = still
      /\ delta' = [b \in Atom |-> IF b = a THEN -delta[b] ELSE delta[b] + d(b)]
  BY <1>2 DEF Flip
<1>4. \/ now <= lowCost /\ Save(now, u, dirty \cup {a})
      \/ dirty' = dirty \cup {a} /\ UNCHANGED <<lowCost, lowTruth, lowWorld>>
  BY <1>3 DEF Flip
<1>5. truth \in World /\ u \in World /\ lowTruth \in World
  BY FlippedTypes DEF SamplerInv, CountersExact, TypeOK, World
<1>6. \A c \in Clause : /\ nsat[c] = calcNSAT(truth, c)
                        /\ n[c] = calcNSAT(u, c)
                        /\ n[c] \in Nat
  <2>1. \A c \in Clause : nsat[c] = calcNSAT(truth, c)
    BY <1>1 DEF SamplerInv, CountersExact, UnsatExact
  <2>2. QED
    BY <1>5, <2>1, CountAfterFlip, CountTypes
<1>7. UnsatExact'
  <2>1. unsat = {c \in Clause \ dead : Violated(c, nsat[c])}
    BY <1>1 DEF SamplerInv, CountersExact, UnsatExact
  <2>2. touched \subseteq Clause \ dead
    BY DEF ClausesOf
  <2>3. \A c \in (Clause \ dead) \ touched : n[c] = nsat[c]
    <3>1. \A c \in (Clause \ dead) \ touched : NSatChange(truth, {a}, c) = 0
      BY <1>5, UntouchedClause
    <3>2. \A c \in Clause : nsat[c] \in Nat /\ n[c] = nsat[c] + NSatChange(truth, {a}, c)
      BY DEF SamplerInv, CountersExact, TypeOK
    <3> HIDE DEF n, touched
    <3>3. QED
      BY <3>1, <3>2
  <2> HIDE DEF n, touched
  <2>4. still = {c \in Clause \ dead : Violated(c, n[c])}
    BY <2>1, <2>2, <2>3
  <2> HIDE DEF still, u
  <2>5. QED
    BY <1>1, <1>3, <1>6, <2>4 DEF UnsatExact
<1>8. \A b \in Atom : d(b) \in Int
  <2> SUFFICES ASSUME NEW b \in Atom
               PROVE  d(b) \in Int
    OBVIOUS
  <2> DEFINE f == [c \in Clause |-> DeltaChange(a, b, c, n[c])]
             T == {c \in touched : b \in AtomsIn(c)}
  <2>1. IsFiniteSet(T) /\ T \subseteq Clause
    BY MRFTypes, FS_Subset DEF ClausesOf
  <2>2. \A c \in T : f[c] \in Int
    BY <2>1, DeltaIsInt
  <2>3. SumFunctionOnSet(f, T) \in Int
    <3> HIDE DEF f, T
    <3>1. QED
      BY <2>1, <2>2, SumInt
  <2>4. QED
    BY <2>3
<1>9. delta' \in [Atom -> Int] /\ now \in Int
  <2> HIDE DEF d
  <2>1. QED
    BY <1>3, <1>8 DEF SamplerInv, CountersExact, TypeOK
<1>10. DeltaExactIfAllAlive'
  <2> SUFFICES ASSUME dead = {}, Blocks = {}
               PROVE  /\ now = WorldCost(u)
                      /\ \A b \in Atom : delta'[b] = WorldCost(Flipped(u, {b})) - WorldCost(u)
    BY <1>1, <1>3 DEF DeltaExactIfAllAlive
  <2>1. /\ totalCost = WorldCost(truth)
        /\ \A b \in Atom : delta[b] = WorldCost(Flipped(truth, {b})) - WorldCost(truth)
    BY <1>1 DEF SamplerInv, CountersExact, DeltaExactIfAllAlive
  <2>2. \A v : WorldCost(v) \in Int
    BY WorldCostTypes
  <2>3. now = WorldCost(u)
    <3> HIDE DEF u
    <3>1. delta[a] = WorldCost(u) - WorldCost(truth)
      BY <2>1 DEF u
    <3>2. QED
      BY <2>1, <2>2, <3>1
  <2>4. ASSUME NEW b \in Atom
        PROVE  delta'[b] = WorldCost(Flipped(u, {b})) - WorldCost(u)
    <3>1. CASE b = a
      <4>1. Flipped(u, {b}) = truth
        BY <1>5, <3>1, FlippedTwice
      <4>2. delta'[b] = -delta[b] /\ delta[b] = WorldCost(u) - WorldCost(truth)
        BY <1>3, <2>1, <3>1
      <4> HIDE DEF u
      <4>3. QED
        BY <2>2, <4>1, <4>2
    <3>2. CASE b # a
      <4>1. touched = ClausesOf({a})
        OBVIOUS
      <4>2. delta'[b] = delta[b] + d(b)
        BY <1>3, <3>2
      <4>3. \A c \in Clause : n[c] = calcNSAT(Flipped(truth, {a}), c)
        BY <1>6
      <4> HIDE DEF n
      <4>4. WorldCost(Flipped(u, {b})) - WorldCost(u)
              = (WorldCost(Flipped(truth, {b})) - WorldCost(truth)) + d(b)
        BY <1>5, <3>2, <4>1, <4>3, DeltaAfterFlip
      <4>5. QED
        BY <2>1, <4>2, <4>4
    <3>3. QED
      BY <3>1, <3>2
  <2>5. QED
    BY <2>3, <2>4
<1>11. /\ lowTruth' \in World /\ lowTruth' = lowWorld'
       /\ lowCost' \in Int /\ dirty' \subseteq Atom
       /\ \A b \in Atom \ dirty' : lowTruth'[b] = u[b]
  <2>1. \A b \in Atom \ (dirty \cup {a}) : lowTruth[b] = u[b]
    BY <1>1, <1>5, FlippedTypes DEF SamplerInv, Marked
  <2>2. dirty \cup {a} \in SUBSET Atom
    BY DEF SamplerInv, CountersExact, TypeOK
  <2> HIDE DEF u, now
  <2>3. savedTruth(lowTruth, u, dirty \cup {a}) = u
    BY <1>5, <2>1, <2>2, SaveSaves
  <2>4. CASE dirty' = dirty \cup {a} /\ UNCHANGED <<lowCost, lowTruth, lowWorld>>
    BY <1>1, <1>5, <2>1, <2>2, <2>4
    DEF SamplerInv, CountersExact, TypeOK, SavedWorldVisited
  <2>5. CASE now <= lowCost /\ Save(now, u, dirty \cup {a})
    BY <1>1, <1>5, <1>9, <2>1, <2>2, <2>3, <2>5
    DEF Save, SamplerInv, CountersExact, TypeOK, SavedWorldVisited
  <2>6. QED
    BY <1>4, <2>4, <2>5
<1>12. nsat' \in [Clause -> Nat] /\ unsat' \subseteq Clause
  <2>1. nsat' \in [Clause -> Nat]
    BY <1>3, <1>6
  <2>2. unsat' \subseteq Clause
    BY <1>3 DEF ClausesOf, SamplerInv, CountersExact, TypeOK
  <2>3. QED
    BY <2>1, <2>2
<1> HIDE DEF u, n, touched, now, still, d
<1>13. TypeOK'
  BY <1>1, <1>3, <1>5, <1>9, <1>11, <1>12
  DEF SamplerInv, CountersExact, TypeOK, World, MCSatInput
<1>14. SavedWorldVisited' /\ Marked' /\ Phase' /\ Recounts'
  BY <1>1, <1>3, <1>11 DEF SamplerInv, SavedWorldVisited, Marked, Phase, Recounts
<1>15. QED
  BY <1>7, <1>10, <1>13, <1>14 DEF SamplerInv, CountersExact

(* The steps between two searches, and those of a search that change       *)
(* nothing about its world.                                                *)
LEMMA QuietKeeps ==
  ASSUME MCSatInput, SamplerInv,
         SkipFlip \/ GiveUp \/ FirstWorld \/ TakeSample \/ Report \/ UNCHANGED vars
  PROVE  SamplerInv'
<1> USE DEF SamplerInv, CountersExact
<1>1. CASE SkipFlip
  <2>1. TypeOK' /\ Phase' /\ Recounts'
    BY <1>1 DEF SkipFlip, TypeOK, Phase, Recounts, MCSatInput
  <2>2. UnsatExact' /\ DeltaExactIfAllAlive' /\ SavedWorldVisited' /\ Marked'
    BY <1>1 DEF SkipFlip, UnsatExact, DeltaExactIfAllAlive, SavedWorldVisited, Marked, Searching
  <2>3. QED
    BY <2>1, <2>2
<1>2. CASE GiveUp
  <2>1. TypeOK' /\ Phase' /\ Recounts'
    BY <1>2 DEF GiveUp, TypeOK, Phase, Recounts
  <2>2. UnsatExact' /\ DeltaExactIfAllAlive' /\ SavedWorldVisited' /\ Marked'
    BY <1>2 DEF GiveUp, UnsatExact, DeltaExactIfAllAlive, SavedWorldVisited, Marked, Searching
  <2>3. QED
    BY <2>1, <2>2
<1>3. CASE FirstWorld
  <2>1. TypeOK' /\ Phase' /\ Recounts'
    BY <1>3 DEF FirstWorld, TypeOK, Phase, Recounts, MCSatInput
  <2>2. ~ Searching'
    BY <1>3 DEF FirstWorld, Searching
  <2>3. QED
    BY <2>1, <2>2 DEF UnsatExact, DeltaExactIfAllAlive, SavedWorldVisited, Marked
<1>4. CASE TakeSample
  <2>1. nsat' \in [Clause -> Nat] /\ \A c \in Clause : nsat'[c] = calcNSAT(lowTruth, c)
    BY <1>4, CountTypes DEF TakeSample, Recounted
  <2>2. totalCost' \in Int
    BY <1>4, WorldCostTypes DEF TakeSample
  <2>3. sample \in 1 .. NSamples /\ NSamples \in Nat /\ sample' = sample + 1 /\ sampleSatMode
    BY <1>4 DEF TakeSample, Phase, MCSatInput
  <2>4. \A a \in Atom : /\ tallyTrue[a] \in Nat /\ tallyTrue[a] <= sample - 1
                        /\ tallyTrue'[a] = tallyTrue[a] + IF lowTruth[a] THEN 1 ELSE 0
    BY <1>4, <2>3 DEF TakeSample, Phase, TypeOK
  <2>5. \A a \in Atom : tallyTrue'[a] \in 0 .. NSamples /\ tallyTrue'[a] <= sample' - 1
    BY <2>3, <2>4
  <2>6. tallyTrue' \in [Atom -> 0 .. NSamples]
    BY <1>4, <2>5 DEF TakeSample
  <2>7. TypeOK'
    BY <1>4, <2>1, <2>2, <2>3, <2>6 DEF TakeSample, TypeOK
  <2>8. Phase'
    BY <1>4, <2>3, <2>5 DEF TakeSample, Phase
  <2>9. Recounts' /\ ~ Searching'
    BY <1>4, <2>1 DEF TakeSample, Recounts, Searching
  <2>10. QED
    BY <2>7, <2>8, <2>9 DEF UnsatExact, DeltaExactIfAllAlive, SavedWorldVisited, Marked
<1>5. CASE Report
  <2>1. TypeOK' /\ Phase' /\ Recounts' /\ ~ Searching'
    BY <1>5 DEF Report, TypeOK, Phase, Recounts, Searching
  <2>2. QED
    BY <2>1 DEF UnsatExact, DeltaExactIfAllAlive, SavedWorldVisited, Marked
<1>6. CASE UNCHANGED vars
  BY <1>6 DEF vars, TypeOK, Phase, Recounts, UnsatExact, DeltaExactIfAllAlive,
              SavedWorldVisited, Marked, Searching
<1>7. QED
  BY <1>1, <1>2, <1>3, <1>4, <1>5, <1>6

LEMMA SamplerInvInit == MCSatInput /\ Init => SamplerInv
<1> SUFFICES ASSUME MCSatInput, Init
             PROVE  SamplerInv
  OBVIOUS
<1>1. Infinite \in Int
  BY WorldCostTypes
<1>2. TypeOK
  BY <1>1 DEF Init, TypeOK, MCSatInput
<1>3. ~ Searching /\ Phase /\ Recounts
  BY DEF Init, Searching, Phase, Recounts
<1>4. QED
  BY <1>2, <1>3
  DEF SamplerInv, CountersExact, UnsatExact, DeltaExactIfAllAlive, SavedWorldVisited, Marked

LEMMA SamplerInvStep == MCSatInput /\ SamplerInv /\ [Next]_vars => SamplerInv'
BY StartsKeep, FoundKeeps, FlipKeeps, QuietKeeps DEF Next, Terminating

(* Every search of the sampler keeps its counts and, where nothing is left  *)
(* out, its deltas exact by increments; the world each sample is tallied   *)
(* from is a world that the search was in; and from the second sample on   *)
(* the clauses selected are satisfied by the sample before.                *)
THEOREM SamplesSoundHold == MCSatInput /\ Spec => []SamplesSound
<1>1. SamplerInv => SamplesSound
  <2>1. ASSUME Recounts
        PROVE  RetainsSatisfied
    <3> SUFFICES ASSUME pc = "select", sample > 1, NEW c \in Good
                 PROVE  ~ Violated(c, calcNSAT(truth, c))
      BY DEF RetainsSatisfied
    <3>1. c \in Clause /\ cost(c, nsat[c]) = 0
      BY DEF Good
    <3>2. nsat[c] = calcNSAT(truth, c)
      BY <2>1, <3>1 DEF Recounts
    <3>3. ~ (cost(c, nsat[c]) > 0)
      BY <3>1
    <3>4. QED
      BY <3>1, <3>2, <3>3, CostTypes
  <2>2. QED
    BY <2>1 DEF SamplerInv, SamplesSound
<1>2. MCSatInput /\ Spec => []SamplerInv
  <2> SUFFICES ASSUME MCSatInput
               PROVE  Spec => []SamplerInv
    OBVIOUS
  <2>1. Init => SamplerInv
    BY SamplerInvInit
  <2>2. SamplerInv /\ [Next]_vars => SamplerInv'
    BY SamplerInvStep
  <2>3. QED
    BY <2>1, <2>2, PTL DEF Spec
<1>3. QED
  BY <1>1, <1>2, PTL
=============================================================================
