-------------------------- MODULE GroundMRFProofs ---------------------------
(***************************************************************************)
(* What the searches may rely on, for any MRF: the counts of true literals *)
(* change by NSatChange, and the potential of a flip is the change of the  *)
(* world's cost.                                                           *)
(***************************************************************************)
EXTENDS GroundMRF, Sums

World == [Atom -> BOOLEAN]

LEMMA MRFTypes ==
  /\ IsFiniteSet(Clause)
  /\ \A c \in Clause :
       /\ Weight(c) \in Int
       /\ IsFiniteSet(Lits(c))
       /\ Lits(c) \subseteq Int
       /\ \A l \in Lits(c) : AtomOf(l) \in Atom
<1>1. Clauses \in Seq([w : Int, lits : Seq(Int)])
  BY GroundMRFAssumption
<1>2. Clause = 1 .. Len(Clauses) /\ Len(Clauses) \in Nat
  BY <1>1 DEF Clause
<1>3. IsFiniteSet(Clause)
  BY <1>2, FS_Interval
<1>4. ASSUME NEW c \in Clause
      PROVE  /\ Weight(c) \in Int
             /\ IsFiniteSet(Lits(c))
             /\ Lits(c) \subseteq Int
             /\ \A l \in Lits(c) : AtomOf(l) \in Atom
  <2>1. Clauses[c] \in [w : Int, lits : Seq(Int)]
    <3> DEFINE R == [w : Int, lits : Seq(Int)]
    <3> HIDE DEF R
    <3>1. Clauses \in Seq(R)
      BY <1>1 DEF R
    <3>2. Clauses[c] \in R
      BY <1>2, <3>1
    <3>3. QED
      BY <3>2 DEF R
  <2> DEFINE s == Clauses[c].lits
  <2>2. s \in Seq(Int) /\ DOMAIN s = 1 .. Len(s) /\ Len(s) \in Nat
    BY <2>1
  <2>3. \A l \in Lits(c) : l \in Int /\ AtomOf(l) \in Atom
    BY <2>2, GroundMRFAssumption DEF Lits, Range
  <2>4. IsFiniteSet(DOMAIN s)
    BY <2>2, FS_Interval
  <2>5. s \in Surjection(DOMAIN s, Lits(c))
    BY <2>2 DEF Surjection, Lits, Range
  <2>6. IsFiniteSet(Lits(c))
    <3> HIDE DEF s
    <3>1. QED
      BY <2>4, <2>5, FS_Surjection
  <2>7. QED
    BY <2>1, <2>3, <2>6 DEF Weight
<1>5. QED
  BY <1>3, <1>4

LEMMA LiteralTypes ==
  ASSUME NEW t \in World, NEW c \in Clause, NEW l \in Lits(c)
  PROVE  /\ isTrueLit(t, l) \in BOOLEAN
         /\ isTrueLit(t, l) <=> IF l > 0 THEN t[AtomOf(l)] ELSE ~ t[AtomOf(l)]
<1>1. l \in Int /\ AtomOf(l) \in Atom
  BY MRFTypes
<1>2. QED
  BY <1>1 DEF isTrueLit, AtomOf, World

LEMMA FlippedTypes ==
  ASSUME NEW t \in World, NEW S
  PROVE  /\ Flipped(t, S) \in World
         /\ \A a \in Atom : Flipped(t, S)[a] = IF a \in S THEN ~ t[a] ELSE t[a]
BY DEF Flipped, World

(* A flip makes the true literals on the atoms flipped false, and the      *)
(* false ones true.                                                        *)
LEMMA FlippedLiteral ==
  ASSUME NEW t \in World, NEW S, NEW c \in Clause, NEW l \in Lits(c)
  PROVE  isTrueLit(Flipped(t, S), l) =
           IF AtomOf(l) \in S THEN ~ isTrueLit(t, l) ELSE isTrueLit(t, l)
<1>1. AtomOf(l) \in Atom
  BY MRFTypes
<1>2. /\ isTrueLit(t, l) \in BOOLEAN
      /\ isTrueLit(t, l) <=> IF l > 0 THEN t[AtomOf(l)] ELSE ~ t[AtomOf(l)]
  BY LiteralTypes
<1>3. Flipped(t, S) \in World
  BY FlippedTypes
<1>4. /\ isTrueLit(Flipped(t, S), l) \in BOOLEAN
      /\ isTrueLit(Flipped(t, S), l) <=>
           IF l > 0 THEN Flipped(t, S)[AtomOf(l)] ELSE ~ Flipped(t, S)[AtomOf(l)]
  BY <1>3, LiteralTypes
<1>5. Flipped(t, S)[AtomOf(l)] = IF AtomOf(l) \in S THEN ~ t[AtomOf(l)] ELSE t[AtomOf(l)]
  BY <1>1, FlippedTypes
<1>6. t[AtomOf(l)] \in BOOLEAN
  BY <1>1 DEF World
<1>7. QED
  BY <1>2, <1>4, <1>5, <1>6

LEMMA CountTypes ==
  ASSUME NEW t, NEW c \in Clause
  PROVE  calcNSAT(t, c) \in Nat
<1>1. IsFiniteSet({l \in Lits(c) : isTrueLit(t, l)})
  BY MRFTypes, FS_Subset
<1>2. QED
  BY <1>1, FS_CardinalityType DEF calcNSAT

LEMMA ChangeTypes ==
  ASSUME NEW t, NEW S, NEW c \in Clause
  PROVE  NSatChange(t, S, c) \in Int
<1> DEFINE hit == {l \in Lits(c) : AtomOf(l) \in S}
           yes == {l \in hit : isTrueLit(t, l)}
<1>1. IsFiniteSet(hit \ yes) /\ IsFiniteSet(yes)
  BY MRFTypes, FS_Subset
<1>2. Cardinality(hit \ yes) \in Nat /\ Cardinality(yes) \in Nat
  BY <1>1, FS_CardinalityType
<1>3. QED
  BY <1>2 DEF NSatChange

(* Counting the literals that a flip changes brings the count up to date.  *)
LEMMA CountAfterFlip ==
  ASSUME NEW t \in World, NEW S, NEW c \in Clause
  PROVE  calcNSAT(Flipped(t, S), c) = calcNSAT(t, c) + NSatChange(t, S, c)
<1> DEFINE before == {l \in Lits(c) : isTrueLit(t, l)}
           after  == {l \in Lits(c) : isTrueLit(Flipped(t, S), l)}
           hit    == {l \in Lits(c) : AtomOf(l) \in S}
           yes    == {l \in hit : isTrueLit(t, l)}
<1>1. \A l \in Lits(c) :
        isTrueLit(Flipped(t, S), l) = IF l \in hit THEN ~ isTrueLit(t, l) ELSE isTrueLit(t, l)
  BY FlippedLiteral
<1>2. /\ before = (before \ hit) \cup yes
      /\ (before \ hit) \cap yes = {}
  OBVIOUS
<1>3. /\ after = (before \ hit) \cup (hit \ yes)
      /\ (before \ hit) \cap (hit \ yes) = {}
  BY <1>1
<1>4. IsFiniteSet(before \ hit) /\ IsFiniteSet(hit \ yes) /\ IsFiniteSet(yes)
  BY MRFTypes, FS_Subset
<1>5. calcNSAT(t, c) = Cardinality(before) /\ calcNSAT(Flipped(t, S), c) = Cardinality(after)
  BY DEF calcNSAT
<1>6. NSatChange(t, S, c) = Cardinality(hit \ yes) - Cardinality(yes)
  BY DEF NSatChange
<1> HIDE DEF before, after, hit, yes
<1>7. Cardinality(before) = Cardinality(before \ hit) + Cardinality(yes)
  BY <1>2, <1>4, DisjointCount
<1>8. Cardinality(after) = Cardinality(before \ hit) + Cardinality(hit \ yes)
  BY <1>3, <1>4, DisjointCount
<1>9. /\ Cardinality(before \ hit) \in Nat
      /\ Cardinality(hit \ yes) \in Nat
      /\ Cardinality(yes) \in Nat
  BY <1>4, FS_CardinalityType
<1>10. QED
  BY <1>5, <1>6, <1>7, <1>8, <1>9

(* A clause that names no atom flipped keeps its count.                    *)
LEMMA UntouchedClause ==
  ASSUME NEW t \in World, NEW S, NEW c \in Clause, c \notin ClausesOf(S)
  PROVE  /\ NSatChange(t, S, c) = 0
         /\ \A l \in Lits(c) : isTrueLit(Flipped(t, S), l) = isTrueLit(t, l)
         /\ \A l \in Lits(c) : AtomOf(l) \notin S
<1>1. \A l \in Lits(c) : AtomOf(l) \notin S
  BY DEF ClausesOf, AtomsIn
<1> DEFINE hit == {l \in Lits(c) : AtomOf(l) \in S}
           yes == {l \in hit : isTrueLit(t, l)}
<1>2. hit \ yes = {} /\ yes = {}
  BY <1>1
<1>3. NSatChange(t, S, c) = Cardinality(hit \ yes) - Cardinality(yes)
  BY DEF NSatChange
<1> HIDE DEF hit, yes
<1>4. NSatChange(t, S, c) = 0
  BY <1>2, <1>3, FS_EmptySet
<1>5. QED
  BY <1>1, <1>4, FlippedLiteral

-----------------------------------------------------------------------------
LEMMA CostTypes ==
  ASSUME NEW c \in Clause, NEW n
  PROVE  /\ cost(c, n) \in Nat /\ Magnitude(c) \in Nat
         /\ cost(c, n) <= Magnitude(c)
         /\ cost(c, n) > 0 <=> Violated(c, n)
BY MRFTypes DEF cost, Magnitude, Violated

LEMMA WeightTypes ==
  ASSUME NEW S \in SUBSET Clause
  PROVE  WeightOf(S) \in Int /\ MagnitudeOf(S) \in Nat
<1>1. IsFiniteSet(S)
  BY MRFTypes, FS_Subset
<1>2. \A c \in S : [d \in Clause |-> Weight(d)][c] \in Int
  BY MRFTypes
<1>3. \A c \in S : [d \in Clause |-> Magnitude(d)][c] \in Nat
  BY CostTypes
<1>4. SumFunctionOnSet([d \in Clause |-> Weight(d)], S) \in Int
  BY <1>1, <1>2, SumInt
<1>5. SumFunctionOnSet([d \in Clause |-> Magnitude(d)], S) \in Nat
  BY <1>1, <1>3, SumNat
<1>6. QED
  BY <1>4, <1>5 DEF WeightOf, MagnitudeOf

(* No world costs as much as Infinite.                                     *)
LEMMA WorldCostTypes ==
  ASSUME NEW t
  PROVE  WorldCost(t) \in Nat /\ WorldCost(t) < Infinite /\ Infinite \in Nat
<1> DEFINE n == [c \in Clause |-> calcNSAT(t, c)]
           f == [c \in Clause |-> cost(c, n[c])]
           m == [c \in Clause |-> Magnitude(c)]
<1>1. \A c \in Clause : /\ f[c] \in Nat /\ m[c] \in Nat /\ f[c] <= m[c]
                        /\ f[c] \in Int /\ m[c] \in Int
  BY CostTypes
<1>2. WorldCost(t) = SumFunctionOnSet(f, Clause)
  BY DEF WorldCost, CostOfClauses
<1>3. MagnitudeOf(Clause) = SumFunctionOnSet(m, Clause)
  BY DEF MagnitudeOf
<1> HIDE DEF f, m
<1>4. SumFunctionOnSet(f, Clause) \in Nat /\ SumFunctionOnSet(m, Clause) \in Nat
  BY <1>1, MRFTypes, SumNat
<1>5. SumFunctionOnSet(f, Clause) <= SumFunctionOnSet(m, Clause)
  BY <1>1, MRFTypes, SumLeq
<1>6. QED
  BY <1>2, <1>3, <1>4, <1>5 DEF Infinite

(* The world's cost, from counts that are right.                           *)
LEMMA WorldCostFrom ==
  ASSUME NEW t, NEW n, \A c \in Clause : n[c] = calcNSAT(t, c)
  PROVE  WorldCost(t) = SumFunctionOnSet([c \in Clause |-> cost(c, n[c])], Clause)
<1> DEFINE k == [c \in Clause |-> calcNSAT(t, c)]
           f == [c \in Clause |-> cost(c, k[c])]
           g == [c \in Clause |-> cost(c, n[c])]
<1>1. \A c \in Clause : f[c] = g[c]
  OBVIOUS
<1>2. WorldCost(t) = SumFunctionOnSet(f, Clause)
  BY DEF WorldCost, CostOfClauses
<1> HIDE DEF f, g
<1>3. SumFunctionOnSet(f, Clause) = SumFunctionOnSet(g, Clause)
  BY <1>1, MRFTypes, SumEqual
<1>4. QED
  BY <1>2, <1>3 DEF g

(* A sum over clauses of weights on one set less those on another.         *)
LEMMA WeightDifference ==
  ASSUME NEW w, \A c \in Clause : w[c] \in Int,
         NEW A \in SUBSET Clause, NEW B \in SUBSET Clause,
         NEW f, NEW g,
         \A c \in Clause : f[c] \in Int /\ g[c] \in Int,
         \A c \in Clause :
           g[c] = f[c] + ((IF c \in A THEN w[c] ELSE 0) - (IF c \in B THEN w[c] ELSE 0))
  PROVE  SumFunctionOnSet(g, Clause) - SumFunctionOnSet(f, Clause)
           = SumFunctionOnSet(w, A) - SumFunctionOnSet(w, B)
<1> DEFINE a == [c \in Clause |-> IF c \in A THEN w[c] ELSE 0]
           b == [c \in Clause |-> IF c \in B THEN w[c] ELSE 0]
           fa == [c \in Clause |-> f[c] + a[c]]
<1>1. \A c \in Clause : /\ a[c] = IF c \in A THEN w[c] ELSE 0
                        /\ b[c] = IF c \in B THEN w[c] ELSE 0
                        /\ a[c] \in Int /\ b[c] \in Int
                        /\ fa[c] = f[c] + a[c] /\ fa[c] \in Int
                        /\ fa[c] = g[c] + b[c]
  OBVIOUS
<1> HIDE DEF a, b, fa
<1>2. SumFunctionOnSet(w, A) = SumFunctionOnSet(a, Clause)
  BY <1>1, MRFTypes, SumRestricted
<1>3. SumFunctionOnSet(w, B) = SumFunctionOnSet(b, Clause)
  BY <1>1, MRFTypes, SumRestricted
<1>4. SumFunctionOnSet(fa, Clause) = SumFunctionOnSet(f, Clause) + SumFunctionOnSet(a, Clause)
  BY <1>1, MRFTypes, SumPlus
<1>5. SumFunctionOnSet(fa, Clause) = SumFunctionOnSet(g, Clause) + SumFunctionOnSet(b, Clause)
  BY <1>1, MRFTypes, SumPlus
<1>6. /\ SumFunctionOnSet(f, Clause) \in Int /\ SumFunctionOnSet(a, Clause) \in Int
      /\ SumFunctionOnSet(g, Clause) \in Int /\ SumFunctionOnSet(b, Clause) \in Int
  BY <1>1, MRFTypes, SumInt
<1>7. QED
  BY <1>2, <1>3, <1>4, <1>5, <1>6

(* "The delta cost of an atom is the change in the total cost if this atom *)
(* is flipped": the weights of the clauses that a flip makes false less    *)
(* those of the clauses it makes true, for weights of either sign.         *)
LEMMA PotentialIsChange ==
  ASSUME NEW t \in World, NEW S, NEW n, \A c \in Clause : n[c] = calcNSAT(t, c)
  PROVE  Potential(t, n, S) = WorldCost(Flipped(t, S)) - WorldCost(t)
<1> DEFINE u == Flipped(t, S)
           after(c) == n[c] + NSatChange(t, S, c)
           falsified == {c \in ClausesOf(S) : n[c] > 0 /\ after(c) <= 0}
           satisfied == {c \in ClausesOf(S) : n[c] = 0 /\ after(c) > 0}
           m == [c \in Clause |-> calcNSAT(u, c)]
           f == [c \in Clause |-> cost(c, n[c])]
           g == [c \in Clause |-> cost(c, m[c])]
           w == [c \in Clause |-> Weight(c)]
<1>1. Potential(t, n, S) = WeightOf(falsified) - WeightOf(satisfied)
  BY DEF Potential
<1>2. falsified \in SUBSET Clause /\ satisfied \in SUBSET Clause
  BY DEF ClausesOf
<1>3. ASSUME NEW c \in Clause
      PROVE  /\ m[c] = after(c) /\ m[c] \in Nat /\ n[c] \in Nat
             /\ c \notin ClausesOf(S) => m[c] = n[c]
  <2>1. m[c] = n[c] + NSatChange(t, S, c)
    BY CountAfterFlip
  <2>2. m[c] \in Nat /\ n[c] \in Nat
    BY CountTypes
  <2>3. c \notin ClausesOf(S) => NSatChange(t, S, c) = 0
    BY UntouchedClause
  <2>4. QED
    BY <2>1, <2>2, <2>3
<1>4. \A c \in Clause : f[c] \in Int /\ g[c] \in Int /\ w[c] \in Int
  BY CostTypes, MRFTypes
<1>5. \A c \in Clause :
        g[c] = f[c] + ((IF c \in falsified THEN w[c] ELSE 0) - (IF c \in satisfied THEN w[c] ELSE 0))
  <2> SUFFICES ASSUME NEW c \in Clause
               PROVE  g[c] = f[c] + ((IF c \in falsified THEN w[c] ELSE 0)
                                       - (IF c \in satisfied THEN w[c] ELSE 0))
    OBVIOUS
  <2>1. Weight(c) \in Int
    BY MRFTypes
  <2>2. c \in falsified <=> c \in ClausesOf(S) /\ n[c] > 0 /\ m[c] <= 0
    BY <1>3
  <2>3. c \in satisfied <=> c \in ClausesOf(S) /\ n[c] = 0 /\ m[c] > 0
    BY <1>3
  <2>4. m[c] \in Nat /\ n[c] \in Nat /\ (c \notin ClausesOf(S) => m[c] = n[c])
    BY <1>3
  <2>5. f[c] = cost(c, n[c]) /\ g[c] = cost(c, m[c]) /\ w[c] = Weight(c)
    OBVIOUS
  <2> HIDE DEF falsified, satisfied, m, f, g, w
  <2>6. QED
    BY <2>1, <2>2, <2>3, <2>4, <2>5 DEF cost, Violated, Magnitude
<1>6. WorldCost(t) = SumFunctionOnSet(f, Clause)
  BY WorldCostFrom
<1>7. WorldCost(u) = SumFunctionOnSet(g, Clause)
  BY DEF WorldCost, CostOfClauses
<1>8. /\ WeightOf(falsified) = SumFunctionOnSet(w, falsified)
      /\ WeightOf(satisfied) = SumFunctionOnSet(w, satisfied)
  BY DEF WeightOf
<1> HIDE DEF falsified, satisfied, f, g, w
<1>9. SumFunctionOnSet(g, Clause) - SumFunctionOnSet(f, Clause)
        = SumFunctionOnSet(w, falsified) - SumFunctionOnSet(w, satisfied)
  BY <1>2, <1>4, <1>5, WeightDifference
<1>10. QED
  BY <1>1, <1>6, <1>7, <1>8, <1>9

-----------------------------------------------------------------------------
(* A clause has one literal on an atom at most.                            *)
LEMMA OneLiteral ==
  ASSUME NEW c \in Clause, NEW l \in Lits(c), NEW m \in Lits(c), AtomOf(l) = AtomOf(m)
  PROVE  l = m
<1>1. PICK i, j \in DOMAIN Clauses[c].lits :
        l = Clauses[c].lits[i] /\ m = Clauses[c].lits[j]
  BY DEF Lits, Range
<1>2. QED
  BY <1>1, GroundMRFAssumption

(* So a flip of one atom changes the count of its clauses by one.          *)
LEMMA CountAfterOne ==
  ASSUME NEW t \in World, NEW c \in Clause, NEW l \in Lits(c)
  PROVE  calcNSAT(Flipped(t, {AtomOf(l)}), c)
           = calcNSAT(t, c) + (IF isTrueLit(t, l) THEN -1 ELSE 1)
<1> DEFINE S == {AtomOf(l)}
           hit == {m \in Lits(c) : AtomOf(m) \in S}
           yes == {m \in hit : isTrueLit(t, m)}
<1>1. hit = {l}
  BY OneLiteral
<1>2. isTrueLit(t, l) \in BOOLEAN
  BY LiteralTypes
<1>3. Cardinality({l}) = 1 /\ Cardinality({}) = 0
  BY FS_Singleton, FS_EmptySet
<1>4. NSatChange(t, S, c) = Cardinality(hit \ yes) - Cardinality(yes)
  BY DEF NSatChange
<1>5. CASE isTrueLit(t, l)
  <2>1. yes = {l} /\ hit \ yes = {}
    BY <1>1, <1>5
  <2>2. NSatChange(t, S, c) = 0 - 1
    BY <1>3, <1>4, <2>1
  <2>3. QED
    BY <1>5, <2>2, CountAfterFlip
<1>6. CASE ~ isTrueLit(t, l)
  <2>1. yes = {} /\ hit \ yes = {l}
    BY <1>1, <1>6
  <2>2. NSatChange(t, S, c) = 1 - 0
    BY <1>3, <1>4, <2>1
  <2>3. QED
    BY <1>6, <2>2, CountAfterFlip
<1>7. QED
  BY <1>2, <1>5, <1>6

(* Two flips of different atoms of a clause: the four counts they lead to. *)
LEMMA CountAfterTwo ==
  ASSUME NEW t \in World, NEW c \in Clause, NEW l \in Lits(c), NEW m \in Lits(c),
         AtomOf(l) # AtomOf(m)
  PROVE  LET u == Flipped(t, {AtomOf(l)})
             n == calcNSAT(t, c)
             up(k) == IF isTrueLit(t, k) THEN -1 ELSE 1
         IN  /\ calcNSAT(u, c) = n + up(l)
             /\ calcNSAT(Flipped(t, {AtomOf(m)}), c) = n + up(m)
             /\ calcNSAT(Flipped(u, {AtomOf(m)}), c) = n + up(l) + up(m)
<1> DEFINE u == Flipped(t, {AtomOf(l)})
<1>1. u \in World /\ isTrueLit(u, m) = isTrueLit(t, m)
  BY FlippedTypes, FlippedLiteral
<1>2. calcNSAT(u, c) = calcNSAT(t, c) + (IF isTrueLit(t, l) THEN -1 ELSE 1)
  BY CountAfterOne
<1>3. calcNSAT(Flipped(t, {AtomOf(m)}), c)
        = calcNSAT(t, c) + (IF isTrueLit(t, m) THEN -1 ELSE 1)
  BY CountAfterOne
<1>4. calcNSAT(Flipped(u, {AtomOf(m)}), c)
        = calcNSAT(u, c) + (IF isTrueLit(u, m) THEN -1 ELSE 1)
  BY <1>1, CountAfterOne
<1>5. QED
  BY <1>1, <1>2, <1>3, <1>4

(* Twice flipped is not flipped.                                           *)
LEMMA FlippedTwice ==
  ASSUME NEW t \in World, NEW S
  PROVE  Flipped(Flipped(t, S), S) = t
BY DEF Flipped, World
=============================================================================
