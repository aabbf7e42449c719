---------------------------- MODULE DomainProofs ----------------------------
(***************************************************************************)
(* Proofs about the cleaning core for any number of columns, values, rows  *)
(* and rules.                                                              *)
(***************************************************************************)
EXTENDS Domain, Sums

(* What does not change: the rules, the loaded data, the probabilities.    *)
InputInv ==
  /\ rules \in Seq(RuleLine)
  /\ \A r \in DOMAIN rules : WellFormed(rules[r])
  /\ IsFiniteSet(Row) /\ Row = 0 .. (Cardinality(Row) - 1)
  /\ original \in [Row -> [Attr -> Value]]
  /\ prob \in [Attr -> [Value -> 0 .. 2]]

RowTuples == {RowTuple(r, original[m]) : r \in DOMAIN rules, m \in Row}

RowGroups == UNION {[S -> RowTuples] : S \in SUBSET Row}

SameReason(r, k, m) ==
  \A i \in DOMAIN rules[r].reason :
    original[k][rules[r].reason[i]] = original[m][rules[r].reason[i]]

(* A tuple of rule r stands in for row k: it is that of a row with the same *)
(* reason.                                                                 *)
Stands(t, r, k) == \E m \in Row : SameReason(r, k, m) /\ t = RowTuple(r, original[m])

(* Domains and groups hold tuples of rows, and up to findCandidate the data *)
(* set is the loaded one.                                                  *)
ShapeInv ==
  /\ pc \in {"init", "groupByKey", "correctByMLN", "combineDomain",
             "findCandidate", "done", "failed"}
  /\ dataSet \in [Row -> [Attr -> Value]]
  /\ pc \in {"init", "groupByKey", "correctByMLN", "combineDomain"} => dataSet = original
  /\ domains \in Seq([Row -> RowTuples])
  /\ pc # "init" => Len(domains) = Len(rules)
  /\ pc = "init" => domains = <<>>
  /\ pc = "groupByKey" => \A r \in DOMAIN rules, k \in Row :
                            domains[r][k] = RowTuple(r, original[k])
  /\ groups \in Seq(Seq(RowGroups))
  /\ pc \in {"init", "groupByKey"} => groups = <<>>
  /\ Len(groups) <= Len(domains)
  /\ \A d \in DOMAIN groups : groups[d] # <<>>

(* Each list of groups belongs to a rule of its own; all its tuples stand  *)
(* for their rows, and no row is in two of its groups.                     *)
OfRule(d, r) ==
  \A g \in DOMAIN groups[d] : \A k \in DOMAIN groups[d][g] : Stands(groups[d][g][k], r, k)

RuleOf(of) ==
  /\ of \in [DOMAIN groups -> DOMAIN rules]
  /\ \A c, d \in DOMAIN groups : of[c] = of[d] => c = d
  /\ Len(groups) = Len(rules) => \A d \in DOMAIN groups : of[d] = d
  /\ \A d \in DOMAIN groups : OfRule(d, of[d])

ListInv ==
  /\ \E of \in [DOMAIN groups -> DOMAIN rules] : RuleOf(of)
  /\ \A d \in DOMAIN groups : \A g, h \in DOMAIN groups[d] :
       g # h => DOMAIN groups[d][g] \cap DOMAIN groups[d][h] = {}
  /\ Len(groups) = Len(rules) =>
       \A d \in DOMAIN domains : \A k \in Row : domains[d][k].rule = d

CursorInv ==
  /\ pc \in {"init", "groupByKey"} => cursor = <<1, 1>>
  /\ pc = "correctByMLN" =>
       \E d \in 1 .. (Len(groups) + 1), g \in Nat \ {0} :
         /\ cursor = <<d, g>>
         /\ d \in DOMAIN groups => g \in DOMAIN groups[d]
  /\ pc = "combineDomain" =>
       /\ Len(groups) > 1
       /\ \E i \in 2 .. (Len(groups) + 1), p \in 1 .. (Len(groups[1]) + 1), c \in Nat \ {0} :
            /\ cursor = <<i, p, c>>
            /\ i \in DOMAIN groups => c \in DOMAIN groups[i]
  /\ pc \in {"findCandidate", "done", "failed"} =>
       \E c \in 0 .. Cardinality(Row) : cursor = <<c>>

(* A group is corrected when the cursor has passed it; before, it holds the *)
(* own tuples of rows with one reason.  It has all rows with its reason     *)
(* until combineDomain takes some out.                                     *)
Passed(d, g) == d < cursor[1] \/ (d = cursor[1] /\ g < cursor[2])

IsRaw(group) ==
  \E r \in DOMAIN rules : \A k \in DOMAIN group :
    /\ group[k] = RowTuple(r, original[k])
    /\ \A m \in DOMAIN group : SameReason(r, k, m)

IsFull(group) ==
  \A k \in DOMAIN group : \A m \in Row : SameReason(group[k].rule, k, m) => m \in DOMAIN group

GroupInv ==
  /\ pc = "correctByMLN" =>
       \A d \in DOMAIN groups : \A g \in DOMAIN groups[d] :
         /\ IsFull(groups[d][g])
         /\ IF Passed(d, g) THEN IsCorrected(groups[d][g]) ELSE IsRaw(groups[d][g])
  /\ GroupsCorrected

(* Conflicts are recorded in pairs: the first list's tuple under the number *)
(* before that of the other list, the other's under its own.               *)
ConflictInv ==
  /\ conflicts \in [Row -> Seq([tuple : RowTuples, domainID : DOMAIN groups])]
  /\ pc \in {"init", "groupByKey", "correctByMLN"} => \A k \in Row : conflicts[k] = <<>>
  /\ \A k \in Row : Len(conflicts[k]) % 2 = 0
  /\ \A k \in Row : conflicts[k] # <<>> => Len(groups) > 1
  /\ TakenOut
  /\ ConflictDomain

Share(q, r) == Columns(rules[q]) \cap Columns(rules[r]) # {}

NoShared == \A q, r \in DOMAIN rules : q # r => ~ Share(q, r)

IsClean == \A r \in DOMAIN rules : Satisfies(original, rules[r])

(* Neither clean data nor rules that share no column give conflicts.       *)
PeaceInv ==
  /\ NoShared \/ IsClean => \A k \in Row : conflicts[k] = <<>>
  /\ FailsOnlyCovered

(* A tuple that says of a column nothing, or a value the column had.       *)
Honest(t) ==
  /\ IsTuple(t)
  /\ \A i \in DOMAIN t.idx :
       t.ctx[i] = Null \/ (/\ t.idx[i] \notin Ignored
                           /\ \E m \in Row : t.ctx[i] = original[m][t.idx[i]])

CandidateInv == Honest(candidate.tuple) /\ candidate.p \in -1 .. MaxLen

(* Where each rule has its groups and shares no column with the others, all *)
(* rows with the same reason are in one group.                             *)
Repairable ==
  /\ Len(groups) = Len(rules)
  /\ Len(rules) > 1
  /\ \A a \in Attr, v \in Value : prob[a][v] > 0
  /\ NoShared

ResultInv ==
  /\ Repairable /\ pc \notin {"init", "groupByKey"} =>
       \A r \in DOMAIN rules : \A k, m \in Row :
         k # m /\ SameReason(r, k, m) =>
           \E g \in DOMAIN groups[r] : k \in DOMAIN groups[r][g] /\ m \in DOMAIN groups[r][g]
  /\ Repairable /\ pc \in {"findCandidate", "done"} =>
       \A r \in DOMAIN rules : Satisfies(dataSet, rules[r])
  /\ NoInventedValues
  /\ CleanDataKept

DomainInv ==
  /\ InputInv /\ ShapeInv /\ ListInv /\ CursorInv /\ GroupInv /\ ConflictInv
  /\ PeaceInv /\ CandidateInv /\ ResultInv

-----------------------------------------------------------------------------
(* Sets of numbers and their order.                                        *)

(* Counting those below maps a finite set of numbers onto the numbers from *)
(* 0 up to one less than its cardinality.                                  *)
LEMMA RankIsBijection ==
  ASSUME NEW S \in SUBSET Nat, IsFiniteSet(S)
  PROVE  [k \in S |-> Cardinality({j \in S : j < k})]
           \in Bijection(S, 0 .. (Cardinality(S) - 1))
<1> DEFINE below(k) == {j \in S : j < k}
           rank == [k \in S |-> Cardinality(below(k))]
<1>1. Cardinality(S) \in Nat
  BY FS_CardinalityType
<1>2. ASSUME NEW k \in S
      PROVE  /\ IsFiniteSet(below(k)) /\ IsFiniteSet(below(k) \cup {k})
             /\ Cardinality(below(k)) \in Nat
             /\ Cardinality(below(k) \cup {k}) = Cardinality(below(k)) + 1
             /\ Cardinality(below(k)) + 1 <= Cardinality(S)
  <2>1. below(k) \in SUBSET S /\ k \notin below(k)
    OBVIOUS
  <2>2. IsFiniteSet(below(k)) /\ Cardinality(below(k)) \in Nat
    BY <2>1, FS_Subset, FS_CardinalityType
  <2> HIDE DEF below
  <2>3. /\ IsFiniteSet(below(k) \cup {k})
        /\ Cardinality(below(k) \cup {k}) = Cardinality(below(k)) + 1
    BY <2>1, <2>2, FS_AddElement
  <2>4. below(k) \cup {k} \in SUBSET S
    BY <2>1
  <2>5. Cardinality(below(k) \cup {k}) <= Cardinality(S)
    BY <2>4, FS_Subset
  <2>6. QED
    BY <2>2, <2>3, <2>5
<1>3. ASSUME NEW j \in S, NEW k \in S, j < k
      PROVE  Cardinality(below(j)) < Cardinality(below(k))
  <2>1. j \in Nat /\ k \in Nat
    OBVIOUS
  <2>2. below(j) \cup {j} \in SUBSET below(k)
    <3> SUFFICES ASSUME NEW i \in below(j) \cup {j}
                 PROVE  i \in S /\ i < k
      OBVIOUS
    <3>1. i \in S /\ i \in Nat /\ i <= j
      BY <2>1
    <3>2. QED
      BY <1>3, <2>1, <3>1
  <2>3. IsFiniteSet(below(k)) /\ Cardinality(below(k)) \in Nat
    BY <1>2
  <2>4. /\ Cardinality(below(j) \cup {j}) = Cardinality(below(j)) + 1
        /\ Cardinality(below(j)) \in Nat
    BY <1>2
  <2> HIDE DEF below
  <2>5. Cardinality(below(j) \cup {j}) <= Cardinality(below(k))
    BY <2>2, <2>3, FS_Subset
  <2>6. QED
    BY <2>3, <2>4, <2>5
<1>4. rank \in Injection(S, 0 .. (Cardinality(S) - 1))
  <2>1. \A k \in S : rank[k] = Cardinality(below(k))
    OBVIOUS
  <2> HIDE DEF below
  <2>2. rank \in [S -> 0 .. (Cardinality(S) - 1)]
    <3>1. ASSUME NEW k \in S
          PROVE  Cardinality(below(k)) \in 0 .. (Cardinality(S) - 1)
      <4>1. Cardinality(below(k)) \in Nat /\ Cardinality(below(k)) + 1 <= Cardinality(S)
        BY <1>2
      <4>2. QED
        BY <1>1, <4>1
    <3>2. QED
      BY <3>1
  <2>3. \A j, k \in S : rank[j] = rank[k] => j = k
    <3> SUFFICES ASSUME NEW j \in S, NEW k \in S, rank[j] = rank[k], j # k
                 PROVE  FALSE
      OBVIOUS
    <3>1. j \in Nat /\ k \in Nat
      OBVIOUS
    <3>2. j < k \/ k < j
      BY <3>1
    <3>3. Cardinality(below(j)) \in Nat /\ Cardinality(below(k)) \in Nat
      BY <1>2
    <3>4. QED
      BY <1>3, <2>1, <3>2, <3>3
  <2>4. QED
    <3> HIDE DEF rank
    <3>1. QED
      BY <2>2, <2>3 DEF Injection, IsInjective
<1>5. /\ IsFiniteSet(0 .. (Cardinality(S) - 1))
      /\ Cardinality(0 .. (Cardinality(S) - 1)) = Cardinality(S)
  <2> DEFINE b == Cardinality(S) - 1
  <2>1. b \in Int /\ 0 \in Int /\ (0 > b => b = -1) /\ b + 1 = Cardinality(S)
    BY <1>1
  <2>2. /\ IsFiniteSet(0 .. b)
        /\ Cardinality(0 .. b) = IF 0 > b THEN 0 ELSE b - 0 + 1
    BY <2>1, FS_Interval
  <2>3. QED
    BY <1>1, <2>1, <2>2
<1>6. rank \in Surjection(S, 0 .. (Cardinality(S) - 1))
  <2> DEFINE T == 0 .. (Cardinality(S) - 1)
  <2>1. rank \in Injection(S, T) /\ IsFiniteSet(T) /\ Cardinality(T) = Cardinality(S)
    BY <1>4, <1>5
  <2> HIDE DEF rank, T
  <2>2. rank \in Surjection(S, T)
    BY <2>1, FS_Injection
  <2>3. QED
    BY <2>2 DEF T
<1>7. QED
  BY <1>4, <1>6 DEF Bijection

(* Upwards lists the elements of a set, each once.                         *)
LEMMA UpwardsLists ==
  ASSUME NEW S \in SUBSET Nat, IsFiniteSet(S)
  PROVE  /\ Cardinality(S) \in Nat
         /\ DOMAIN Upwards(S) = 1 .. Cardinality(S)
         /\ Len(Upwards(S)) = Cardinality(S)
         /\ \A n \in 1 .. Cardinality(S) :
              /\ Upwards(S)[n] \in S
              /\ Cardinality({j \in S : j < Upwards(S)[n]}) = n - 1
         /\ \A m, n \in 1 .. Cardinality(S) : Upwards(S)[m] = Upwards(S)[n] => m = n
         /\ \A k \in S : \E n \in 1 .. Cardinality(S) : Upwards(S)[n] = k
<1> DEFINE below(k) == {j \in S : j < k}
           rank == [k \in S |-> Cardinality(below(k))]
<1>1. Cardinality(S) \in Nat
  BY FS_CardinalityType
<1>2. /\ \A k \in S : rank[k] \in 0 .. (Cardinality(S) - 1)
      /\ \A j, k \in S : rank[j] = rank[k] => j = k
      /\ \A n \in 0 .. (Cardinality(S) - 1) : \E k \in S : rank[k] = n
  <2>1. rank \in Bijection(S, 0 .. (Cardinality(S) - 1))
    BY RankIsBijection
  <2> HIDE DEF rank
  <2>2. QED
    BY <2>1 DEF Bijection, Injection, Surjection, IsInjective
<1>3. \A k \in S : rank[k] = Cardinality(below(k))
  OBVIOUS
<1>4. /\ DOMAIN Upwards(S) = 1 .. Cardinality(S)
      /\ \A n \in 1 .. Cardinality(S) :
           Upwards(S)[n] = CHOOSE k \in S : Cardinality(below(k)) = n - 1
  BY DEF Upwards
<1> HIDE DEF below, rank
<1>5. ASSUME NEW n \in 1 .. Cardinality(S)
      PROVE  Upwards(S)[n] \in S /\ rank[Upwards(S)[n]] = n - 1
  <2>1. n - 1 \in 0 .. (Cardinality(S) - 1)
    BY <1>1
  <2>2. \E k \in S : Cardinality(below(k)) = n - 1
    BY <1>2, <1>3, <2>1
  <2>3. QED
    BY <1>3, <1>4, <2>2
<1>6. \A m, n \in 1 .. Cardinality(S) : Upwards(S)[m] = Upwards(S)[n] => m = n
  <2> SUFFICES ASSUME NEW m \in 1 .. Cardinality(S), NEW n \in 1 .. Cardinality(S),
                      Upwards(S)[m] = Upwards(S)[n]
               PROVE  m = n
    OBVIOUS
  <2>1. m - 1 = n - 1
    BY <1>5
  <2>2. QED
    BY <1>1, <2>1
<1>7. \A k \in S : \E n \in 1 .. Cardinality(S) : Upwards(S)[n] = k
  <2> SUFFICES ASSUME NEW k \in S
               PROVE  \E n \in 1 .. Cardinality(S) : Upwards(S)[n] = k
    OBVIOUS
  <2>1. rank[k] + 1 \in 1 .. Cardinality(S) /\ rank[k] + 1 - 1 = rank[k]
    <3>1. rank[k] \in 0 .. (Cardinality(S) - 1)
      BY <1>2
    <3>2. QED
      BY <1>1, <3>1
  <2>2. PICK n \in 1 .. Cardinality(S) : n - 1 = rank[k]
    <3>1. rank[k] \in Int
      BY <1>2
    <3>2. QED
      BY <1>1, <2>1, <3>1
  <2>3. Upwards(S)[n] \in S /\ rank[Upwards(S)[n]] = rank[k]
    BY <1>5, <2>2
  <2>4. QED
    BY <1>2, <2>2, <2>3
<1>8. Len(Upwards(S)) = Cardinality(S)
  <2>1. Upwards(S) \in Seq(S)
    <3> DEFINE e(n) == CHOOSE k \in S : Cardinality({j \in S : j < k}) = n - 1
    <3>1. Upwards(S) = [n \in 1 .. Cardinality(S) |-> e(n)]
      BY DEF Upwards
    <3> HIDE DEF e
    <3>2. Upwards(S) \in [1 .. Cardinality(S) -> S]
      BY <1>5, <3>1
    <3>3. QED
      BY <1>1, <3>2
  <2>2. QED
    BY <1>1, <1>4, <2>1
<1>9. QED
  BY <1>1, <1>3, <1>4, <1>5, <1>6, <1>7, <1>8 DEF below

(* The numbers from 1 are listed as they are.                              *)
LEMMA UpwardsOfAll ==
  ASSUME NEW n \in Nat
  PROVE  /\ Cardinality(1 .. n) = n
         /\ \A i \in 1 .. n : Upwards(1 .. n)[i] = i
<1>1. IsFiniteSet(1 .. n) /\ Cardinality(1 .. n) = n /\ 1 .. n \in SUBSET Nat
  BY FS_Interval
<1>2. ASSUME NEW i \in 1 .. n
      PROVE  Upwards(1 .. n)[i] = i
  <2> DEFINE S == 1 .. n
  <2>1. PICK k \in S : Upwards(S)[i] = k /\ Cardinality({j \in S : j < k}) = i - 1
    <3>1. S \in SUBSET Nat /\ IsFiniteSet(S) /\ i \in 1 .. Cardinality(S)
      BY <1>1
    <3> HIDE DEF S
    <3>2. Upwards(S)[i] \in S /\ Cardinality({j \in S : j < Upwards(S)[i]}) = i - 1
      BY <3>1, UpwardsLists
    <3>3. QED
      BY <3>2
  <2>2. {j \in 1 .. n : j < k} = 1 .. (k - 1)
    OBVIOUS
  <2>3. Cardinality(1 .. (k - 1)) = k - 1
    BY FS_Interval
  <2>4. k - 1 = i - 1 /\ k \in Int /\ i \in Int
    <3>1. {j \in S : j < k} = 1 .. (k - 1)
      BY <2>2
    <3>2. k - 1 = i - 1
      BY <2>1, <2>3, <3>1
    <3>3. QED
      BY <3>2
  <2>5. QED
    BY <2>1, <2>4
<1>3. QED
  BY <1>1, <1>2

LEMMA GreatestNat ==
  ASSUME NEW S \in SUBSET Nat, S # {}, NEW n \in Nat, \A k \in S : k <= n
  PROVE  \E m \in S : \A k \in S : k <= m
<1> DEFINE D == {n - k : k \in S}
<1>1. D \in SUBSET Nat /\ D # {}
  <2>1. \A k \in S : n - k \in Nat
    OBVIOUS
  <2>2. QED
    BY <2>1
<1>2. PICK d \in D : \A e \in D : d <= e
  <2> HIDE DEF D
  <2>1. QED
    BY <1>1, LeastNat
<1>3. PICK m \in S : d = n - m
  BY <1>2
<1>4. ASSUME NEW k \in S
      PROVE  k <= m
  <2>1. n - k \in D
    OBVIOUS
  <2>2. n - m <= n - k /\ n \in Nat /\ m \in Nat /\ k \in Nat
    BY <1>2, <1>3, <2>1
  <2>3. QED
    BY <2>2
<1>5. QED
  BY <1>4

LEMMA LastOfIs ==
  ASSUME NEW n \in Nat, NEW S \in SUBSET (1 .. n), S # {}
  PROVE  LastOf(S) \in S /\ \A j \in S : j <= LastOf(S)
<1>1. S \in SUBSET Nat /\ \A k \in S : k <= n
  OBVIOUS
<1>2. \E m \in S : \A k \in S : k <= m
  BY <1>1, GreatestNat
<1>3. QED
  BY <1>2 DEF LastOf

LEMMA FirstOfIn ==
  ASSUME NEW S \in SUBSET (Nat \X Nat), S # {}
  PROVE  FirstOf(S) \in S
<1> DEFINE A == {x[1] : x \in S}
<1>1. A \in SUBSET Nat /\ A # {}
  OBVIOUS
<1>2. PICK a \in A : \A c \in A : a <= c
  <2> HIDE DEF A
  <2>1. QED
    BY <1>1, LeastNat
<1> DEFINE B == {b \in Nat : <<a, b>> \in S}
<1>3. B \in SUBSET Nat /\ B # {}
  <2>1. PICK x \in S : x[1] = a
    BY <1>2
  <2>2. x = <<a, x[2]>> /\ x[2] \in Nat
    BY <2>1
  <2>3. QED
    BY <2>1, <2>2
<1>4. PICK b \in B : \A c \in B : b <= c
  <2> HIDE DEF B
  <2>1. QED
    BY <1>3, LeastNat
<1>5. <<a, b>> \in S /\ a \in Nat /\ b \in Nat
  BY <1>1, <1>2, <1>4
<1>6. ASSUME NEW y \in S
      PROVE  a < y[1] \/ (a = y[1] /\ b <= y[2])
  <2>1. y = <<y[1], y[2]>> /\ y[1] \in Nat /\ y[2] \in Nat /\ a <= y[1]
    BY <1>2
  <2>2. y[1] = a => y[2] \in B
    BY <2>1
  <2>3. QED
    BY <1>4, <1>5, <2>1, <2>2
<1> HIDE DEF A, B
<1>7. \E x \in S : \A y \in S : x[1] < y[1] \/ (x[1] = y[1] /\ x[2] <= y[2])
  <2> DEFINE x == <<a, b>>
  <2>1. x \in S /\ x[1] = a /\ x[2] = b
    BY <1>5
  <2> HIDE DEF x
  <2>2. \A y \in S : x[1] < y[1] \/ (x[1] = y[1] /\ x[2] <= y[2])
    BY <1>6, <2>1
  <2>3. QED
    BY <2>1, <2>2
<1>8. QED
  BY <1>7 DEF FirstOf

-----------------------------------------------------------------------------
(* The rules, the loaded rows and their tuples.                            *)
LEMMA LoadedTypes ==
  ASSUME NEW lines \in Seq(RuleLine), \A i \in DOMAIN lines : WellFormed(lines[i])
  PROVE  /\ Loaded(lines) \in Seq(RuleLine)
         /\ \A n \in DOMAIN Loaded(lines) : WellFormed(Loaded(lines)[n])
<1> DEFINE S == {i \in DOMAIN lines : i = 1 \/ Columns(lines[i]) # Columns(lines[i - 1])}
<1>1. DOMAIN lines = 1 .. Len(lines) /\ Len(lines) \in Nat
  OBVIOUS
<1>2. S \in SUBSET (1 .. Len(lines)) /\ S \in SUBSET Nat
  BY <1>1
<1>3. Loaded(lines) = [n \in DOMAIN Upwards(S) |-> lines[Upwards(S)[n]]]
  BY DEF Loaded
<1> HIDE DEF S
<1>4. IsFiniteSet(S)
  <2>1. 1 \in Int /\ Len(lines) \in Int
    BY <1>1
  <2>2. IsFiniteSet(1 .. Len(lines))
    BY <2>1, FS_Interval
  <2>3. QED
    BY <1>2, <2>2, FS_Subset
<1>5. /\ Cardinality(S) \in Nat /\ DOMAIN Upwards(S) = 1 .. Cardinality(S)
      /\ \A n \in 1 .. Cardinality(S) : Upwards(S)[n] \in S
  BY <1>2, <1>4, UpwardsLists
<1>6. ASSUME NEW n \in 1 .. Cardinality(S)
      PROVE  lines[Upwards(S)[n]] \in RuleLine /\ WellFormed(lines[Upwards(S)[n]])
  <2>1. Upwards(S)[n] \in DOMAIN lines
    BY <1>1, <1>2, <1>5
  <2>2. QED
    BY <2>1
<1> DEFINE e(n) == lines[Upwards(S)[n]]
<1>7. Loaded(lines) = [n \in 1 .. Cardinality(S) |-> e(n)]
  BY <1>3, <1>5
<1>8. \A n \in 1 .. Cardinality(S) : e(n) \in RuleLine /\ WellFormed(e(n))
  BY <1>6
<1> HIDE DEF e
<1>9. /\ Loaded(lines) \in Seq(RuleLine)
      /\ DOMAIN Loaded(lines) = 1 .. Cardinality(S)
      /\ \A n \in 1 .. Cardinality(S) : Loaded(lines)[n] = e(n)
  BY <1>5, <1>7, <1>8
<1>10. QED
  BY <1>8, <1>9

LEMMA RuleTypes ==
  ASSUME InputInv, NEW r \in DOMAIN rules
  PROVE  /\ rules[r].reason \in Seq(Attr) /\ rules[r].result \in Seq(Attr)
         /\ Len(rules[r].reason) \in Nat \ {0} /\ Len(rules[r].result) \in Nat \ {0}
         /\ AttrIndex(r) \in Seq(Attr)
         /\ Len(AttrIndex(r)) = Len(rules[r].reason) + Len(rules[r].result)
         /\ DOMAIN AttrIndex(r) = 1 .. Len(AttrIndex(r))
         /\ \A i \in DOMAIN rules[r].reason : AttrIndex(r)[i] = rules[r].reason[i]
         /\ \A i \in DOMAIN rules[r].result :
              AttrIndex(r)[Len(rules[r].reason) + i] = rules[r].result[i]
         /\ \A i, j \in DOMAIN AttrIndex(r) : AttrIndex(r)[i] = AttrIndex(r)[j] => i = j
         /\ Columns(rules[r]) = {AttrIndex(r)[i] : i \in DOMAIN AttrIndex(r)}
         /\ Len(AttrIndex(r)) <= NAttrs
<1>1. rules[r] \in RuleLine /\ WellFormed(rules[r])
  BY DEF InputInv
<1>2. rules[r].reason \in Seq(Attr) /\ rules[r].result \in Seq(Attr)
  BY <1>1 DEF RuleLine
<1> DEFINE s == rules[r].reason
           t == rules[r].result
<1>3. AttrIndex(r) = s \o t
  BY DEF AttrIndex
<1>4. s # <<>> /\ t # <<>> /\ IsInjective(s \o t)
  BY <1>1 DEF WellFormed
<1>5. Columns(rules[r]) = {(s \o t)[i] : i \in DOMAIN (s \o t)}
  BY DEF Columns, ToSet
<1> HIDE DEF s, t
<1>6. s \in Seq(Attr) /\ t \in Seq(Attr)
  BY <1>2 DEF s, t
<1>7. Len(s) \in Nat \ {0} /\ Len(t) \in Nat \ {0}
  BY <1>4, <1>6
<1>8. /\ s \o t \in Seq(Attr) /\ Len(s \o t) = Len(s) + Len(t)
      /\ DOMAIN (s \o t) = 1 .. Len(s \o t)
      /\ \A i \in DOMAIN s : (s \o t)[i] = s[i]
      /\ \A i \in DOMAIN t : (s \o t)[Len(s) + i] = t[i]
  BY <1>6, <1>7
<1>9. \A i, j \in DOMAIN (s \o t) : (s \o t)[i] = (s \o t)[j] => i = j
  BY <1>4 DEF IsInjective
<1>10. Len(s \o t) <= NAttrs
  <2> DEFINE u == s \o t
  <2>0. \A q \in Seq(Attr) : q \in [1 .. Len(q) -> Attr] /\ Len(q) \in Nat
    OBVIOUS
  <2>1. u \in [1 .. Len(u) -> Attr] /\ Len(u) \in Nat
    BY <1>8, <2>0
  <2>2. IsInjective(u)
    BY <1>4
  <2> HIDE DEF u
  <2>3. u \in Injection(1 .. Len(u), Attr)
    BY <2>1, <2>2 DEF Injection
  <2>4. IsFiniteSet(Attr) /\ Cardinality(Attr) = NAttrs
    <3>1. NAttrs \in Nat \ {0}
      BY DomainAssumption
    <3>2. NAttrs - 1 \in Int /\ 0 \in Int /\ ~ (0 > NAttrs - 1) /\ NAttrs - 1 - 0 + 1 = NAttrs
      BY <3>1
    <3>3. /\ IsFiniteSet(0 .. (NAttrs - 1))
          /\ Cardinality(0 .. (NAttrs - 1)) = NAttrs - 1 - 0 + 1
      BY <3>2, FS_Interval
    <3>4. QED
      BY <3>2, <3>3 DEF Attr
  <2>5. Cardinality(1 .. Len(u)) <= NAttrs
    BY <2>3, <2>4, FS_Injection
  <2>6. Len(u) <= NAttrs
    BY <2>1, <2>5, FS_Interval
  <2>7. QED
    BY <2>6 DEF u
<1>11. /\ AttrIndex(r) \in Seq(Attr) /\ Len(AttrIndex(r)) = Len(s) + Len(t)
       /\ DOMAIN AttrIndex(r) = 1 .. Len(AttrIndex(r))
       /\ Len(AttrIndex(r)) <= NAttrs
  BY <1>3, <1>8, <1>10
<1>12. /\ \A i \in DOMAIN s : AttrIndex(r)[i] = s[i]
       /\ \A i \in DOMAIN t : AttrIndex(r)[Len(s) + i] = t[i]
  BY <1>3, <1>8
<1>13. /\ \A i, j \in DOMAIN AttrIndex(r) : AttrIndex(r)[i] = AttrIndex(r)[j] => i = j
       /\ Columns(rules[r]) = {AttrIndex(r)[i] : i \in DOMAIN AttrIndex(r)}
  BY <1>3, <1>5, <1>9
<1>14. QED
  BY <1>6, <1>7, <1>11, <1>12, <1>13 DEF s, t

LEMMA RowTupleIs ==
  ASSUME InputInv, NEW r \in DOMAIN rules, NEW m \in Row
  PROVE  /\ RowTuple(r, original[m]).rule = r
         /\ RowTuple(r, original[m]).idx = AttrIndex(r)
         /\ RowTuple(r, original[m]).ctx \in Seq(Value)
         /\ Len(RowTuple(r, original[m]).ctx) = Len(AttrIndex(r))
         /\ \A i \in DOMAIN AttrIndex(r) :
              /\ AttrIndex(r)[i] \in Attr
              /\ RowTuple(r, original[m]).ctx[i] = original[m][AttrIndex(r)[i]]
              /\ RowTuple(r, original[m]).ctx[i] \in Value
         /\ IsTuple(RowTuple(r, original[m]))
<1>1. AttrIndex(r) \in Seq(Attr) /\ Len(AttrIndex(r)) \in Nat
  <2>1. AttrIndex(r) \in Seq(Attr)
    BY RuleTypes
  <2>2. QED
    BY <2>1
<1>2. /\ DOMAIN AttrIndex(r) = 1 .. Len(AttrIndex(r))
      /\ \A i \in DOMAIN AttrIndex(r) : AttrIndex(r)[i] \in Attr
  BY <1>1
<1>3. \A a \in Attr : original[m][a] \in Value
  BY DEF InputInv
<1> DEFINE t == RowTuple(r, original[m])
           c == [i \in 1 .. Len(AttrIndex(r)) |-> original[m][AttrIndex(r)[i]]]
<1>4. t = [rule |-> r, idx |-> AttrIndex(r), ctx |-> c]
  BY <1>2 DEF RowTuple
<1>5. \A i \in DOMAIN AttrIndex(r) :
        c[i] = original[m][AttrIndex(r)[i]] /\ original[m][AttrIndex(r)[i]] \in Value
  BY <1>2, <1>3
<1>6. c \in Seq(Value) /\ Len(c) = Len(AttrIndex(r))
  BY <1>1, <1>2, <1>3
<1> HIDE DEF c, t
<1>7. r \in 0 .. Len(rules)
  BY DEF InputInv
<1>8. c \in Seq(Value \cup {Null})
  BY <1>6
<1>9. IsTuple(t)
  BY <1>1, <1>4, <1>6, <1>7, <1>8 DEF IsTuple
<1>10. QED
  BY <1>2, <1>4, <1>5, <1>6, <1>9 DEF t

LEMMA RowTupleFacts ==
  ASSUME InputInv, NEW t \in RowTuples
  PROVE  /\ t.rule \in DOMAIN rules /\ t.idx = AttrIndex(t.rule)
         /\ Len(t.idx) \in Nat /\ DOMAIN t.idx = 1 .. Len(t.idx) /\ Len(t.idx) <= NAttrs
         /\ t.ctx \in Seq(Value) /\ Len(t.ctx) = Len(t.idx)
         /\ \A i \in DOMAIN t.idx : t.ctx[i] \in Value
         /\ \E m \in Row : t = RowTuple(t.rule, original[m])
         /\ Honest(t)
<1>1. PICK r \in DOMAIN rules, m \in Row : t = RowTuple(r, original[m])
  BY DEF RowTuples
<1>2. /\ t.rule = r /\ t.idx = AttrIndex(r)
      /\ t.ctx \in Seq(Value) /\ Len(t.ctx) = Len(AttrIndex(r))
      /\ \A i \in DOMAIN AttrIndex(r) :
           t.ctx[i] = original[m][AttrIndex(r)[i]] /\ t.ctx[i] \in Value
      /\ IsTuple(t)
  BY <1>1, RowTupleIs
<1>3. /\ AttrIndex(r) \in Seq(Attr) /\ Len(AttrIndex(r)) <= NAttrs
      /\ DOMAIN AttrIndex(r) = 1 .. Len(AttrIndex(r))
  BY RuleTypes
<1>4. Len(AttrIndex(r)) \in Nat
  BY <1>3
<1>5. ASSUME NEW i \in DOMAIN AttrIndex(r)
      PROVE  AttrIndex(r)[i] \notin Ignored
  <2>1. Contains(AttrIndex(r), AttrIndex(r)[i])
    BY <1>3 DEF Contains
  <2>2. QED
    BY <2>1 DEF Ignored
<1>6. Honest(t)
  BY <1>2, <1>5 DEF Honest
<1>7. QED
  BY <1>1, <1>2, <1>3, <1>4, <1>6

LEMMA StandsFacts ==
  ASSUME InputInv, NEW r \in DOMAIN rules, NEW k \in Row, NEW t, Stands(t, r, k)
  PROVE  /\ t \in RowTuples /\ t.rule = r
         /\ \A i \in DOMAIN rules[r].reason : t.ctx[i] = original[k][rules[r].reason[i]]
         /\ \A i \in DOMAIN rules[r].reason : i \in DOMAIN t.idx /\ t.idx[i] = rules[r].reason[i]
<1>1. PICK m \in Row : SameReason(r, k, m) /\ t = RowTuple(r, original[m])
  BY DEF Stands
<1>2. t.rule = r /\ t.idx = AttrIndex(r)
      /\ \A i \in DOMAIN AttrIndex(r) : t.ctx[i] = original[m][AttrIndex(r)[i]]
  BY <1>1, RowTupleIs
<1> DEFINE s == rules[r].reason
           n == Len(rules[r].result)
<1>3. /\ s \in Seq(Attr) /\ Len(s) \in Nat /\ n \in Nat
      /\ Len(AttrIndex(r)) = Len(s) + n
      /\ DOMAIN AttrIndex(r) = 1 .. Len(AttrIndex(r))
      /\ \A i \in DOMAIN s : AttrIndex(r)[i] = s[i]
  BY RuleTypes
<1>5. t \in RowTuples
  BY <1>1 DEF RowTuples
<1>6. \A i \in DOMAIN s : original[k][s[i]] = original[m][s[i]]
  BY <1>1 DEF SameReason
<1> HIDE DEF s, n
<1>4. \A i \in DOMAIN s : i \in DOMAIN AttrIndex(r)
  BY <1>3
<1>7. /\ \A i \in DOMAIN s : t.ctx[i] = original[k][s[i]]
      /\ \A i \in DOMAIN s : i \in DOMAIN t.idx /\ t.idx[i] = s[i]
  BY <1>2, <1>3, <1>4, <1>6
<1>8. QED
  BY <1>2, <1>5, <1>7 DEF s

(* Two rows with one reason have, in clean data, one tuple.                *)
LEMMA CleanTuples ==
  ASSUME InputInv, IsClean, NEW r \in DOMAIN rules, NEW k \in Row, NEW t, Stands(t, r, k)
  PROVE  t = RowTuple(r, original[k])
<1>1. PICK m \in Row : SameReason(r, k, m) /\ t = RowTuple(r, original[m])
  BY DEF Stands
<1> DEFINE s == rules[r].reason
           u == rules[r].result
<1>2. /\ \A i \in DOMAIN s : original[k][s[i]] = original[m][s[i]]
      /\ \A i \in DOMAIN u : original[k][u[i]] = original[m][u[i]]
  BY <1>1 DEF SameReason, IsClean, Satisfies
<1>3. /\ s \in Seq(Attr) /\ u \in Seq(Attr) /\ Len(s) \in Nat /\ Len(u) \in Nat
      /\ Len(AttrIndex(r)) = Len(s) + Len(u)
      /\ DOMAIN AttrIndex(r) = 1 .. Len(AttrIndex(r))
      /\ \A i \in DOMAIN s : AttrIndex(r)[i] = s[i]
      /\ \A i \in DOMAIN u : AttrIndex(r)[Len(s) + i] = u[i]
  BY RuleTypes
<1> HIDE DEF s, u
<1>4. ASSUME NEW i \in DOMAIN AttrIndex(r)
      PROVE  original[k][AttrIndex(r)[i]] = original[m][AttrIndex(r)[i]]
  <2>1. i \in 1 .. (Len(s) + Len(u))
    BY <1>3
  <2>2. CASE i <= Len(s)
    <3>1. i \in DOMAIN s
      BY <1>3, <2>1, <2>2
    <3>2. QED
      BY <1>2, <1>3, <3>1
  <2>3. CASE i > Len(s)
    <3>1. PICK j \in Int : j = i - Len(s)
      BY <1>3, <2>1
    <3>2. j \in DOMAIN u /\ i = Len(s) + j
      BY <1>3, <2>1, <2>3, <3>1
    <3>3. QED
      BY <1>2, <1>3, <3>2
  <2>4. QED
    BY <1>3, <2>1, <2>2, <2>3
<1>5. RowTuple(r, original[m]) = RowTuple(r, original[k])
  BY <1>4 DEF RowTuple
<1>6. QED
  BY <1>1, <1>5

LEMMA StandsForItself ==
  ASSUME NEW r \in DOMAIN rules, NEW k \in Row
  PROVE  Stands(RowTuple(r, original[k]), r, k)
BY DEF Stands, SameReason

(* What depends on the rules and the loaded data only does not change.     *)
LEMMA Frame ==
  ASSUME UNCHANGED input
  PROVE  /\ Row' = Row /\ RowTuples' = RowTuples /\ RowGroups' = RowGroups
         /\ InputInv => InputInv'
         /\ NoShared' <=> NoShared
         /\ IsClean' <=> IsClean
         /\ Ignored' = Ignored
         /\ MaxLen' = MaxLen
         /\ \A t, r, k : Stands(t, r, k)' <=> Stands(t, r, k)
         /\ \A r, k, m : SameReason(r, k, m)' <=> SameReason(r, k, m)
         /\ \A group : /\ IsCorrected(group)' <=> IsCorrected(group)
                       /\ IsRaw(group)' <=> IsRaw(group)
                       /\ IsFull(group)' <=> IsFull(group)
         /\ \A t : Honest(t)' <=> Honest(t)
         /\ \A r, k : RowTuple(r, original[k])' = RowTuple(r, original[k])
<1>1. rules' = rules /\ original' = original /\ prob' = prob
  BY DEF input
<1>2. Row' = Row /\ MaxLen' = MaxLen
  BY <1>1 DEF Row, MaxLen
<1>3. \A r : AttrIndex(r)' = AttrIndex(r)
  BY <1>1 DEF AttrIndex
<1>4. \A r, row : RowTuple(r, row)' = RowTuple(r, row)
  BY <1>3 DEF RowTuple
<1>5. \A r, k : RowTuple(r, original[k])' = RowTuple(r, original[k])
  BY <1>1, <1>3 DEF RowTuple
<1>6. RowTuples' = RowTuples
  BY <1>1, <1>2, <1>3 DEF RowTuples, RowTuple
<1>7. RowGroups' = RowGroups
  BY <1>2, <1>6 DEF RowGroups
<1>8. InputInv => InputInv'
  BY <1>1, <1>2 DEF InputInv
<1>9. NoShared' <=> NoShared
  BY <1>1 DEF NoShared, Share
<1>10. IsClean' <=> IsClean
  BY <1>1, <1>2 DEF IsClean, Satisfies
<1>11. Ignored' = Ignored
  BY <1>1, <1>3 DEF Ignored
<1>12. \A r, k, m : SameReason(r, k, m)' <=> SameReason(r, k, m)
  BY <1>1 DEF SameReason
<1>13. \A t, r, k : Stands(t, r, k)' <=> Stands(t, r, k)
  BY <1>2, <1>5, <1>12 DEF Stands
<1>16. ASSUME NEW group
       PROVE  /\ IsCorrected(group)' <=> IsCorrected(group)
              /\ IsRaw(group)' <=> IsRaw(group)
              /\ IsFull(group)' <=> IsFull(group)
  <2>1. IsCorrected(group)' <=> IsCorrected(group)
    BY <1>1, <1>2 DEF IsCorrected, Reason, RowTuple, AttrIndex, ResultLikelihood, Likelihood
  <2>2. IsRaw(group)' <=> IsRaw(group)
    BY <1>1, <1>5, <1>12 DEF IsRaw
  <2>3. IsFull(group)' <=> IsFull(group)
    BY <1>2, <1>12 DEF IsFull
  <2>4. QED
    BY <2>1, <2>2, <2>3
<1>17. \A t : Honest(t)' <=> Honest(t)
  BY <1>1, <1>2, <1>11 DEF Honest, IsTuple
<1>18. QED
  BY <1>2, <1>5, <1>6, <1>7, <1>8, <1>9, <1>10, <1>11, <1>12, <1>13, <1>16, <1>17

LEMMA RowFacts ==
  ASSUME InputInv
  PROVE  /\ Row \in SUBSET Nat /\ IsFiniteSet(Row) /\ Cardinality(Row) \in Nat
         /\ \A k \in Row : k + 1 \in 0 .. Cardinality(Row) /\ 0 \in Row
<1>1. IsFiniteSet(Row) /\ Row = 0 .. (Cardinality(Row) - 1)
  BY DEF InputInv
<1>2. Cardinality(Row) \in Nat
  BY <1>1, FS_CardinalityType
<1>3. PICK n \in Nat : n = Cardinality(Row)
  BY <1>2
<1>4. Row = 0 .. (n - 1)
  BY <1>1, <1>3
<1>5. \A k \in 0 .. (n - 1) : k \in Nat /\ k + 1 \in 0 .. n /\ 0 \in 0 .. (n - 1)
  BY <1>3
<1>6. QED
  BY <1>1, <1>2, <1>3, <1>4, <1>5

LEMMA MaxLenNat == InputInv => MaxLen \in Nat \ {0} /\ Len(rules) \in Nat
<1> SUFFICES ASSUME InputInv
             PROVE  MaxLen \in Nat \ {0} /\ Len(rules) \in Nat
  OBVIOUS
<1>1. NAttrs \in Nat /\ Len(rules) \in Nat
  BY DomainAssumption DEF InputInv
<1>2. PICK n \in Nat : n = 2 * Len(rules) + 1
  BY <1>1
<1>3. NAttrs * n \in Nat
  BY <1>1
<1>4. QED
  BY <1>1, <1>2, <1>3 DEF MaxLen

-----------------------------------------------------------------------------
LEMMA InitInput == Init => InputInv
<1> SUFFICES ASSUME Init
             PROVE  InputInv
  OBVIOUS
<1>1. PICK in \in Inputs : /\ rules = Loaded(in.lines)
                           /\ original \in in.data /\ prob \in in.probs
  BY DEF Init
<1>2. /\ in.lines \in Seq(RuleLine) /\ \A i \in DOMAIN in.lines : WellFormed(in.lines[i])
      /\ \A d \in in.data : /\ IsFiniteSet(DOMAIN d)
                            /\ DOMAIN d = 0 .. (Cardinality(DOMAIN d) - 1)
      /\ \A d \in in.data : d \in [DOMAIN d -> [Attr -> Value]]
      /\ in.probs \subseteq [Attr -> [Value -> 0 .. 2]]
  BY DomainAssumption
<1>3. rules \in Seq(RuleLine) /\ \A r \in DOMAIN rules : WellFormed(rules[r])
  BY <1>1, <1>2, LoadedTypes
<1>4. IsFiniteSet(Row) /\ Row = 0 .. (Cardinality(Row) - 1)
  BY <1>1, <1>2 DEF Row
<1>5. original \in [Row -> [Attr -> Value]]
  BY <1>1, <1>2 DEF Row
<1>6. prob \in [Attr -> [Value -> 0 .. 2]]
  BY <1>1, <1>2
<1>7. QED
  BY <1>3, <1>4, <1>5, <1>6 DEF InputInv

LEMMA InitKeeps == Init => DomainInv
<1> SUFFICES ASSUME Init
             PROVE  DomainInv
  OBVIOUS
<1>1. InputInv
  BY InitInput
<1>2. /\ pc = "init" /\ dataSet = original /\ domains = <<>> /\ groups = <<>>
      /\ cursor = <<1, 1>> /\ conflicts = [k \in Row |-> <<>>] /\ candidate = NoCandidate
  BY DEF Init
<1>3. Len(groups) = 0 /\ Len(domains) = 0 /\ DOMAIN groups = {} /\ DOMAIN domains = {}
  BY <1>2
<1>4. ShapeInv
  <2>1. dataSet \in [Row -> [Attr -> Value]]
    BY <1>1, <1>2 DEF InputInv
  <2>2. domains \in Seq([Row -> RowTuples]) /\ groups \in Seq(Seq(RowGroups))
    BY <1>2
  <2>3. QED
    BY <1>2, <1>3, <2>1, <2>2 DEF ShapeInv
<1>5. ListInv
  <2> DEFINE of == [d \in DOMAIN groups |-> d]
  <2>1. of \in [DOMAIN groups -> DOMAIN rules] /\ RuleOf(of)
    BY <1>3 DEF RuleOf
  <2>2. QED
    BY <1>3, <2>1 DEF ListInv
<1>6. CursorInv /\ GroupInv
  BY <1>2 DEF CursorInv, GroupInv, GroupsCorrected, Corrected
<1>7. ConflictInv
  <2>1. conflicts \in [Row -> Seq([tuple : RowTuples, domainID : DOMAIN groups])]
    BY <1>2
  <2>2. \A k \in Row : conflicts[k] = <<>>
    BY <1>2
  <2>3. \A k \in Row : Len(conflicts[k]) % 2 = 0 /\ DOMAIN conflicts[k] = {}
    <3>1. Len(<<>>) = 0 /\ 0 % 2 = 0 /\ DOMAIN <<>> = {}
      OBVIOUS
    <3>2. QED
      BY <2>2, <3>1
  <2>4. TakenOut
    BY <2>3 DEF TakenOut
  <2>5. ConflictDomain
    BY <1>3 DEF ConflictDomain
  <2>6. QED
    BY <2>1, <2>2, <2>3, <2>4, <2>5 DEF ConflictInv
<1>8. PeaceInv
  BY <1>2 DEF PeaceInv, FailsOnlyCovered
<1>9. CandidateInv
  <2>1. MaxLen \in Nat /\ Len(rules) \in Nat
    BY <1>1, MaxLenNat
  <2>2. candidate.tuple = [rule |-> 0, idx |-> <<>>, ctx |-> <<>>] /\ candidate.p = -1
    BY <1>2 DEF NoCandidate
  <2>3. Honest(candidate.tuple)
    BY <2>1, <2>2 DEF Honest, IsTuple
  <2>4. QED
    BY <2>1, <2>2, <2>3 DEF CandidateInv
<1>10. ResultInv
  <2>1. Len(rules) \in Nat
    BY <1>1, MaxLenNat
  <2>2. ~ Repairable
    BY <1>3, <2>1 DEF Repairable
  <2>3. NoInventedValues /\ CleanDataKept
    BY <1>2 DEF NoInventedValues, CleanDataKept
  <2>4. QED
    BY <2>2, <2>3 DEF ResultInv
<1>11. QED
  BY <1>1, <1>4, <1>5, <1>6, <1>7, <1>8, <1>9, <1>10 DEF DomainInv

-----------------------------------------------------------------------------
LEMMA PartitionKeeps == DomainInv /\ Partition => DomainInv'
<1> SUFFICES ASSUME DomainInv, Partition
             PROVE  DomainInv'
  OBVIOUS
<1>1. /\ pc = "init" /\ pc' = "groupByKey" /\ UNCHANGED input
      /\ dataSet' = dataSet /\ groups' = groups /\ cursor' = cursor
      /\ conflicts' = conflicts /\ candidate' = candidate
      /\ domains' = [r \in DOMAIN rules |-> [k \in Row |-> RowTuple(r, dataSet[k])]]
  BY DEF Partition
<1>2. rules' = rules /\ original' = original /\ prob' = prob
  BY <1>1 DEF input
<1>3. InputInv /\ InputInv' /\ Row' = Row /\ RowTuples' = RowTuples /\ RowGroups' = RowGroups
  BY <1>1, Frame DEF DomainInv
<1>4. dataSet = original /\ groups = <<>> /\ domains = <<>> /\ cursor = <<1, 1>>
  BY <1>1 DEF DomainInv, ShapeInv, CursorInv
<1>5. Len(groups) = 0 /\ DOMAIN groups = {} /\ Len(rules) \in Nat
  BY <1>3, <1>4, MaxLenNat
<1>6. /\ domains' \in Seq([Row -> RowTuples]) /\ Len(domains') = Len(rules)
      /\ \A r \in DOMAIN rules, k \in Row : domains'[r][k] = RowTuple(r, original[k])
  <2> DEFINE e(r) == [k \in Row |-> RowTuple(r, original[k])]
  <2>1. domains' = [r \in 1 .. Len(rules) |-> e(r)] /\ DOMAIN rules = 1 .. Len(rules)
    <3>1. DOMAIN rules = 1 .. Len(rules)
      BY <1>3 DEF InputInv
    <3>2. QED
      BY <1>1, <1>4, <3>1
  <2>2. \A r \in 1 .. Len(rules) : e(r) \in [Row -> RowTuples]
    BY <2>1 DEF RowTuples
  <2>3. \A r \in DOMAIN rules, k \in Row : e(r)[k] = RowTuple(r, original[k])
    OBVIOUS
  <2> HIDE DEF e
  <2>4. domains' \in Seq([Row -> RowTuples]) /\ Len(domains') = Len(rules)
    BY <1>5, <2>1, <2>2
  <2>5. QED
    BY <2>1, <2>3, <2>4
<1>7. ShapeInv'
  <2>1. dataSet \in [Row -> [Attr -> Value]] /\ groups \in Seq(Seq(RowGroups))
    BY DEF DomainInv, ShapeInv
  <2>2. \A r \in DOMAIN rules, k \in Row : RowTuple(r, original[k])' = RowTuple(r, original[k])
    BY <1>1, Frame
  <2>3. \A r \in DOMAIN rules', k \in Row' : domains'[r][k] = RowTuple(r, original[k])'
    BY <1>2, <1>3, <1>6, <2>2
  <2>4. QED
    BY <1>1, <1>2, <1>3, <1>4, <1>5, <1>6, <2>1, <2>3 DEF ShapeInv
<1>8. ListInv'
  <2>1. DOMAIN groups' = {} /\ Len(groups') = 0
    BY <1>1, <1>5
  <2>2. PICK of \in [DOMAIN groups' -> DOMAIN rules'] : RuleOf(of)'
    <3>1. PICK of : of = [d \in DOMAIN groups' |-> d]
      OBVIOUS
    <3>2. of \in [DOMAIN groups' -> DOMAIN rules'] /\ RuleOf(of)'
      BY <2>1, <3>1 DEF RuleOf
    <3>3. QED
      BY <3>2
  <2>3. \A d \in DOMAIN domains' : \A k \in Row' : domains'[d][k].rule = d
    <3>1. DOMAIN domains' = DOMAIN rules
      BY <1>1
    <3>2. QED
      BY <1>3, <1>6, <3>1, RowTupleIs
  <2>4. QED
    BY <2>1, <2>2, <2>3 DEF ListInv
<1>9. CursorInv' /\ GroupInv'
  BY <1>1, <1>4 DEF CursorInv, GroupInv, GroupsCorrected, Corrected
<1>10. ConflictInv'
  <2>1. ConflictInv /\ \A k \in Row : conflicts[k] = <<>>
    BY <1>1 DEF DomainInv, ConflictInv
  <2>2. TakenOut'
    BY <1>1, <1>3, <2>1 DEF TakenOut
  <2>3. ConflictDomain'
    BY <1>1, <1>5 DEF ConflictDomain
  <2>4. QED
    BY <1>1, <1>3, <2>1, <2>2, <2>3 DEF ConflictInv
<1>11. PeaceInv'
  <2>1. \A k \in Row : conflicts[k] = <<>>
    BY <1>1 DEF DomainInv, ConflictInv
  <2>2. QED
    BY <1>1, <1>3, <2>1 DEF PeaceInv, FailsOnlyCovered
<1>12. CandidateInv'
  BY <1>1, Frame DEF DomainInv, CandidateInv
<1>13. ResultInv'
  <2>1. ~ Repairable'
    BY <1>1, <1>2, <1>5 DEF Repairable
  <2>2. NoInventedValues' /\ CleanDataKept'
    BY <1>1, <1>2, <1>3, <1>4 DEF NoInventedValues, CleanDataKept
  <2>3. QED
    BY <2>1, <2>2 DEF ResultInv
<1>14. QED
  BY <1>3, <1>7, <1>8, <1>9, <1>10, <1>11, <1>12, <1>13 DEF DomainInv

-----------------------------------------------------------------------------
LEMMA ReasonIs ==
  ASSUME InputInv, NEW r \in DOMAIN rules, NEW k \in Row, NEW m \in Row
  PROVE  Reason(RowTuple(r, original[k])) = Reason(RowTuple(r, original[m]))
           <=> SameReason(r, k, m)
<1> DEFINE s == rules[r].reason
           R(j) == RowTuple(r, original[j])
<1>1. /\ s \in Seq(Attr) /\ Len(s) \in Nat /\ Len(rules[r].result) \in Nat
      /\ Len(AttrIndex(r)) = Len(s) + Len(rules[r].result)
      /\ DOMAIN AttrIndex(r) = 1 .. Len(AttrIndex(r))
      /\ \A i \in DOMAIN s : AttrIndex(r)[i] = s[i]
  BY RuleTypes
<1>2. ASSUME NEW j \in Row
      PROVE  /\ R(j).rule = r
             /\ \A i \in DOMAIN AttrIndex(r) : R(j).ctx[i] = original[j][AttrIndex(r)[i]]
  BY RowTupleIs
<1>3. SameReason(r, k, m) <=> \A i \in DOMAIN s : original[k][s[i]] = original[m][s[i]]
  BY DEF SameReason
<1>4. \A t : t.rule = r => Reason(t) = [i \in DOMAIN s |-> t.ctx[i]]
  BY DEF Reason
<1> HIDE DEF s, R
<1>5. \A i \in DOMAIN s : i \in DOMAIN AttrIndex(r)
  BY <1>1
<1>6. ASSUME NEW j \in Row
      PROVE  Reason(R(j)) = [i \in DOMAIN s |-> original[j][s[i]]]
  <2>1. Reason(R(j)) = [i \in DOMAIN s |-> R(j).ctx[i]]
    BY <1>2, <1>4
  <2>2. \A i \in DOMAIN s : R(j).ctx[i] = original[j][s[i]]
    BY <1>1, <1>2, <1>5
  <2>3. QED
    BY <2>1, <2>2
<1>7. Reason(R(k)) = Reason(R(m)) <=> \A i \in DOMAIN s : original[k][s[i]] = original[m][s[i]]
  <2>1. /\ Reason(R(k)) = [i \in DOMAIN s |-> original[k][s[i]]]
        /\ Reason(R(m)) = [i \in DOMAIN s |-> original[m][s[i]]]
    BY <1>6
  <2>2. ASSUME Reason(R(k)) = Reason(R(m)), NEW i \in DOMAIN s
        PROVE  original[k][s[i]] = original[m][s[i]]
    <3>1. Reason(R(k))[i] = original[k][s[i]] /\ Reason(R(m))[i] = original[m][s[i]]
      BY <2>1
    <3>2. QED
      BY <2>2, <3>1
  <2>3. QED
    BY <2>1, <2>2
<1>8. QED
  BY <1>3, <1>7 DEF R

LEMMA SameReasonIsEquivalence ==
  /\ \A r, k : SameReason(r, k, k)
  /\ \A r, k, m : SameReason(r, k, m) => SameReason(r, m, k)
  /\ \A r, k, m, n : SameReason(r, k, m) /\ SameReason(r, m, n) => SameReason(r, k, n)
BY DEF SameReason

(* The groups of a domain: of the rows with one reason, if there are two.  *)
AreGroupsOf(r, list) ==
  /\ list \in Seq(RowGroups)
  /\ \A g \in DOMAIN list : \A k \in DOMAIN list[g] :
       /\ k \in Row
       /\ list[g][k] = RowTuple(r, original[k])
       /\ \A m \in Row : SameReason(r, k, m) <=> m \in DOMAIN list[g]
  /\ \A g, h \in DOMAIN list : g # h => DOMAIN list[g] \cap DOMAIN list[h] = {}
  /\ \A k, m \in Row : k # m /\ SameReason(r, k, m) =>
       \E g \in DOMAIN list : k \in DOMAIN list[g] /\ m \in DOMAIN list[g]

LEMMA GroupsOfRule ==
  ASSUME InputInv, NEW r \in DOMAIN rules,
         NEW dom, dom = [k \in Row |-> RowTuple(r, original[k])]
  PROVE  AreGroupsOf(r, GroupsOf(dom))
<1> DEFINE class(k) == {m \in Row : Reason(dom[m]) = Reason(dom[k])}
           S == {k \in Row : IsGroup(class(k)) /\ \A m \in class(k) : k <= m}
           e(g) == [k \in class(Upwards(S)[g]) |-> dom[k]]
<1>1. DOMAIN dom = Row /\ \A k \in Row : dom[k] = RowTuple(r, original[k])
  OBVIOUS
<1>2. GroupsOf(dom) = [g \in DOMAIN Upwards(S) |-> e(g)]
  BY <1>1 DEF GroupsOf
<1>3. \A k \in Row : class(k) = {m \in Row : SameReason(r, k, m)}
  <2> SUFFICES ASSUME NEW k \in Row, NEW m \in Row
               PROVE  Reason(dom[m]) = Reason(dom[k]) <=> SameReason(r, k, m)
    OBVIOUS
  <2>1. Reason(dom[m]) = Reason(dom[k]) <=> SameReason(r, m, k)
    BY <1>1, ReasonIs
  <2>2. QED
    BY <2>1, SameReasonIsEquivalence
<1>4. S \in SUBSET Row /\ Row \in SUBSET Nat /\ IsFiniteSet(Row)
  BY RowFacts
<1>5. ASSUME NEW f \in S
      PROVE  f \in Row /\ \A m \in class(f) : f <= m
  OBVIOUS
<1>6. ASSUME NEW k \in Row, NEW m \in Row, k # m, SameReason(r, k, m)
      PROVE  \E f \in S : k \in class(f) /\ m \in class(f)
  <2>1. k \in class(k) /\ m \in class(k) /\ class(k) \in SUBSET Row
    BY <1>3, <1>6, SameReasonIsEquivalence
  <2>2. IsGroup(class(k))
    <3>1. IsFiniteSet(class(k)) /\ Cardinality(class(k)) \in Nat
      BY <1>4, <2>1, FS_Subset, FS_CardinalityType
    <3>2. ~ Cardinality(class(k)) = 0
      BY <2>1, <3>1, FS_EmptySet
    <3>3. ~ Cardinality(class(k)) = 1
      <4>1. SUFFICES ASSUME Cardinality(class(k)) = 1
                     PROVE  FALSE
        OBVIOUS
      <4>2. PICK x : class(k) = {x}
        BY <3>1, <4>1, FS_Singleton
      <4>3. k = x /\ m = x
        BY <2>1, <4>2
      <4>4. QED
        BY <1>6, <4>3
    <3>4. QED
      BY <3>1, <3>2, <3>3 DEF IsGroup
  <2>3. PICK f \in class(k) : \A j \in class(k) : f <= j
    <3>1. class(k) \in SUBSET Nat /\ class(k) # {}
      BY <1>4, <2>1
    <3> HIDE DEF class
    <3>2. QED
      BY <3>1, LeastNat
  <2>4. f \in Row /\ SameReason(r, k, f)
    BY <1>3, <2>3
  <2>5. class(f) = class(k)
    <3>1. \A j \in Row : SameReason(r, f, j) <=> SameReason(r, k, j)
      BY <2>4, SameReasonIsEquivalence
    <3>2. class(f) = {j \in Row : SameReason(r, f, j)}
      BY <1>3, <2>4
    <3>3. class(k) = {j \in Row : SameReason(r, k, j)}
      BY <1>3
    <3> HIDE DEF class
    <3>4. QED
      BY <3>1, <3>2, <3>3
  <2> HIDE DEF class
  <2>6. f \in S
    BY <2>2, <2>3, <2>4, <2>5
  <2>7. QED
    BY <2>1, <2>5, <2>6
<1>7. ASSUME NEW f \in S, NEW h \in S, NEW k \in class(f), k \in class(h)
      PROVE  f = h
  <2>1. /\ f \in Row /\ h \in Row /\ k \in Row /\ f \in Nat /\ h \in Nat
        /\ SameReason(r, f, k) /\ SameReason(r, h, k)
    BY <1>3, <1>4, <1>5, <1>7
  <2>2. SameReason(r, f, h) /\ SameReason(r, h, f)
    BY <2>1, SameReasonIsEquivalence
  <2>3. h \in class(f) /\ f \in class(h)
    BY <1>3, <2>1, <2>2
  <2>4. f <= h /\ h <= f
    BY <1>5, <2>3
  <2>5. QED
    BY <2>1, <2>4
<1>8. /\ Cardinality(S) \in Nat /\ DOMAIN Upwards(S) = 1 .. Cardinality(S)
      /\ \A g \in 1 .. Cardinality(S) : Upwards(S)[g] \in S
      /\ \A g, h \in 1 .. Cardinality(S) : Upwards(S)[g] = Upwards(S)[h] => g = h
      /\ \A k \in S : \E g \in 1 .. Cardinality(S) : Upwards(S)[g] = k
  <2>1. S \in SUBSET Nat /\ IsFiniteSet(S)
    BY <1>4, FS_Subset
  <2> HIDE DEF S
  <2>2. QED
    BY <2>1, UpwardsLists
<1>9. ASSUME NEW g \in 1 .. Cardinality(S)
      PROVE  /\ DOMAIN e(g) = class(Upwards(S)[g])
             /\ \A k \in class(Upwards(S)[g]) : k \in Row /\ e(g)[k] = RowTuple(r, original[k])
             /\ e(g) \in RowGroups
  <2>1. /\ DOMAIN e(g) = class(Upwards(S)[g])
        /\ \A k \in class(Upwards(S)[g]) : k \in Row /\ e(g)[k] = RowTuple(r, original[k])
    BY <1>1
  <2>2. class(Upwards(S)[g]) \in SUBSET Row
    OBVIOUS
  <2>3. \A k \in class(Upwards(S)[g]) : dom[k] \in RowTuples
    BY <1>1, <2>2 DEF RowTuples
  <2>4. e(g) \in [class(Upwards(S)[g]) -> RowTuples]
    BY <2>3
  <2>5. QED
    BY <2>1, <2>2, <2>4 DEF RowGroups
<1> HIDE DEF class, S, e
<1>10. /\ GroupsOf(dom) \in Seq(RowGroups)
       /\ DOMAIN GroupsOf(dom) = 1 .. Cardinality(S)
       /\ \A g \in 1 .. Cardinality(S) : GroupsOf(dom)[g] = e(g)
  BY <1>2, <1>8, <1>9
<1>11. ASSUME NEW g \in 1 .. Cardinality(S), NEW k \in DOMAIN e(g), NEW m \in Row,
              SameReason(r, k, m)
       PROVE  m \in DOMAIN e(g)
  <2>1. Upwards(S)[g] \in Row /\ k \in class(Upwards(S)[g]) /\ DOMAIN e(g) = class(Upwards(S)[g])
    BY <1>4, <1>8, <1>9
  <2>2. SameReason(r, Upwards(S)[g], k)
    BY <1>3, <2>1
  <2>3. SameReason(r, Upwards(S)[g], m)
    BY <1>11, <2>2, SameReasonIsEquivalence
  <2>4. QED
    BY <1>3, <2>1, <2>3
<1>19. ASSUME NEW g \in 1 .. Cardinality(S), NEW k \in DOMAIN e(g), NEW m \in DOMAIN e(g)
       PROVE  SameReason(r, k, m)
  <2>1. Upwards(S)[g] \in Row /\ DOMAIN e(g) = class(Upwards(S)[g])
    BY <1>4, <1>8, <1>9
  <2>2. SameReason(r, Upwards(S)[g], k) /\ SameReason(r, Upwards(S)[g], m)
    BY <1>3, <2>1
  <2>3. QED
    BY <2>2, SameReasonIsEquivalence
<1>12. ASSUME NEW g \in 1 .. Cardinality(S), NEW h \in 1 .. Cardinality(S), g # h
       PROVE  DOMAIN e(g) \cap DOMAIN e(h) = {}
  BY <1>7, <1>8, <1>9, <1>12
<1>13. ASSUME NEW k \in Row, NEW m \in Row, k # m, SameReason(r, k, m)
       PROVE  \E g \in 1 .. Cardinality(S) : k \in DOMAIN e(g) /\ m \in DOMAIN e(g)
  <2>1. PICK f \in S : k \in class(f) /\ m \in class(f)
    BY <1>6, <1>13
  <2>2. PICK g \in 1 .. Cardinality(S) : Upwards(S)[g] = f
    BY <1>8
  <2>3. QED
    BY <1>9, <2>1, <2>2
<1>14. \A g \in 1 .. Cardinality(S) : \A k \in DOMAIN e(g) :
         k \in Row /\ e(g)[k] = RowTuple(r, original[k])
  BY <1>9
<1>15. \A g \in DOMAIN GroupsOf(dom) : \A k \in DOMAIN GroupsOf(dom)[g] :
         /\ k \in Row
         /\ GroupsOf(dom)[g][k] = RowTuple(r, original[k])
         /\ \A m \in Row : SameReason(r, k, m) <=> m \in DOMAIN GroupsOf(dom)[g]
  <2> SUFFICES ASSUME NEW g \in DOMAIN GroupsOf(dom), NEW k \in DOMAIN GroupsOf(dom)[g]
               PROVE  /\ k \in Row
                      /\ GroupsOf(dom)[g][k] = RowTuple(r, original[k])
                      /\ \A m \in Row : SameReason(r, k, m) <=> m \in DOMAIN GroupsOf(dom)[g]
    OBVIOUS
  <2>1. g \in 1 .. Cardinality(S) /\ GroupsOf(dom)[g] = e(g) /\ k \in DOMAIN e(g)
    BY <1>10
  <2>2. QED
    BY <1>11, <1>14, <1>19, <2>1
<1>16. \A g, h \in DOMAIN GroupsOf(dom) :
         g # h => DOMAIN GroupsOf(dom)[g] \cap DOMAIN GroupsOf(dom)[h] = {}
  <2> SUFFICES ASSUME NEW g \in DOMAIN GroupsOf(dom), NEW h \in DOMAIN GroupsOf(dom), g # h
               PROVE  DOMAIN GroupsOf(dom)[g] \cap DOMAIN GroupsOf(dom)[h] = {}
    OBVIOUS
  <2>1. /\ g \in 1 .. Cardinality(S) /\ GroupsOf(dom)[g] = e(g)
        /\ h \in 1 .. Cardinality(S) /\ GroupsOf(dom)[h] = e(h)
    BY <1>10
  <2>2. QED
    BY <1>12, <2>1
<1>17. \A k, m \in Row : k # m /\ SameReason(r, k, m) =>
         \E g \in DOMAIN GroupsOf(dom) :
           k \in DOMAIN GroupsOf(dom)[g] /\ m \in DOMAIN GroupsOf(dom)[g]
  BY <1>10, <1>13
<1>18. QED
  BY <1>10, <1>15, <1>16, <1>17 DEF AreGroupsOf

LEMMA GroupByKeyKeeps == DomainInv /\ GroupByKey => DomainInv'
<1> SUFFICES ASSUME DomainInv, GroupByKey
             PROVE  DomainInv'
  OBVIOUS
<1> DEFINE S == {r \in DOMAIN domains : GroupsOf(domains[r]) # <<>>}
           kept == Upwards(S)
           e(d) == GroupsOf(domains[kept[d]])
<1>1. /\ pc = "groupByKey" /\ pc' = "correctByMLN" /\ UNCHANGED input
      /\ dataSet' = dataSet /\ domains' = domains /\ cursor' = cursor
      /\ conflicts' = conflicts /\ candidate' = candidate
      /\ groups' = [d \in DOMAIN kept |-> e(d)]
  BY DEF GroupByKey
<1>2. rules' = rules /\ original' = original /\ prob' = prob
  BY <1>1 DEF input
<1>3. InputInv /\ InputInv' /\ Row' = Row /\ RowTuples' = RowTuples /\ RowGroups' = RowGroups
  BY <1>1, Frame DEF DomainInv
<1>4. /\ dataSet = original /\ groups = <<>> /\ cursor = <<1, 1>>
      /\ domains \in Seq([Row -> RowTuples]) /\ Len(domains) = Len(rules)
      /\ \A r \in DOMAIN rules, k \in Row : domains[r][k] = RowTuple(r, original[k])
  BY <1>1 DEF DomainInv, ShapeInv, CursorInv
<1>5. /\ Len(rules) \in Nat /\ DOMAIN rules = 1 .. Len(rules)
      /\ DOMAIN domains = 1 .. Len(rules)
  <2>1. Len(rules) \in Nat
    BY <1>3, MaxLenNat
  <2>2. DOMAIN rules = 1 .. Len(rules)
    BY <1>3 DEF InputInv
  <2>3. QED
    BY <1>4, <2>1, <2>2
<1>6. \A r \in DOMAIN rules : domains[r] = [k \in Row |-> RowTuple(r, original[k])]
  <2> SUFFICES ASSUME NEW r \in DOMAIN rules
               PROVE  domains[r] = [k \in Row |-> RowTuple(r, original[k])]
    OBVIOUS
  <2>1. domains[r] \in [Row -> RowTuples]
    BY <1>4, <1>5
  <2>2. QED
    BY <1>4, <2>1
<1>7. S \in SUBSET (1 .. Len(rules)) /\ S \in SUBSET Nat /\ IsFiniteSet(S)
  <2>1. S \in SUBSET (1 .. Len(rules))
    BY <1>5
  <2>2. IsFiniteSet(1 .. Len(rules))
    BY <1>5, FS_Interval
  <2> HIDE DEF S
  <2>3. S \in SUBSET Nat
    BY <2>1
  <2>4. IsFiniteSet(S)
    BY <2>1, <2>2, FS_Subset
  <2>5. QED
    BY <2>1, <2>3, <2>4
<1>8. \A r \in S : GroupsOf(domains[r]) # <<>>
  OBVIOUS
<1> DEFINE n == Cardinality(S)
<1> HIDE DEF S
<1>9. /\ n \in Nat /\ DOMAIN kept = 1 .. n
      /\ \A d \in 1 .. n : kept[d] \in S
      /\ \A c, d \in 1 .. n : kept[c] = kept[d] => c = d
  BY <1>7, UpwardsLists
<1>10. /\ n <= Len(rules)
       /\ n = Len(rules) => \A d \in 1 .. n : kept[d] = d
  <2>0. IsFiniteSet(1 .. Len(rules))
    BY <1>5, FS_Interval
  <2>1. /\ IsFiniteSet(1 .. Len(rules)) /\ Cardinality(1 .. Len(rules)) = Len(rules)
        /\ \A d \in 1 .. Len(rules) : Upwards(1 .. Len(rules))[d] = d
    BY <1>5, <2>0, UpwardsOfAll
  <2>2. n <= Len(rules) /\ (n = Len(rules) => S = 1 .. Len(rules))
    BY <1>7, <2>1, FS_Subset
  <2>3. QED
    BY <2>1, <2>2
<1> HIDE DEF kept, n
<1>11. ASSUME NEW d \in 1 .. n
       PROVE  /\ kept[d] \in DOMAIN rules
              /\ e(d) \in Seq(RowGroups) /\ e(d) # <<>>
              /\ \A g \in DOMAIN e(d) : \A k \in DOMAIN e(d)[g] :
                   /\ k \in Row
                   /\ e(d)[g][k] = RowTuple(kept[d], original[k])
                   /\ \A m \in Row : SameReason(kept[d], k, m) <=> m \in DOMAIN e(d)[g]
              /\ \A g, h \in DOMAIN e(d) : g # h => DOMAIN e(d)[g] \cap DOMAIN e(d)[h] = {}
              /\ \A k, m \in Row : k # m /\ SameReason(kept[d], k, m) =>
                   \E g \in DOMAIN e(d) : k \in DOMAIN e(d)[g] /\ m \in DOMAIN e(d)[g]
  <2>1. kept[d] \in DOMAIN rules /\ e(d) # <<>>
    BY <1>5, <1>7, <1>8, <1>9
  <2>2. PICK r, dom : r \in DOMAIN rules /\ r = kept[d] /\ dom = domains[r]
    BY <2>1
  <2>3. dom = [k \in Row |-> RowTuple(r, original[k])]
    BY <1>6, <2>2
  <2>4. e(d) = GroupsOf(dom)
    BY <2>2
  <2> HIDE DEF e
  <2>5. AreGroupsOf(kept[d], e(d))
    BY <1>3, <2>2, <2>3, <2>4, GroupsOfRule
  <2>6. QED
    BY <2>1, <2>5 DEF AreGroupsOf
<1> HIDE DEF e
<1>12. /\ groups' \in Seq(Seq(RowGroups)) /\ Len(groups') = n /\ DOMAIN groups' = 1 .. n
       /\ \A d \in 1 .. n : groups'[d] = e(d)
  BY <1>1, <1>9, <1>11
<1>13. ShapeInv'
  <2>1. dataSet \in [Row -> [Attr -> Value]]
    BY DEF DomainInv, ShapeInv
  <2>2. \A d \in DOMAIN groups' : groups'[d] # <<>>
    BY <1>11, <1>12
  <2>3. Len(groups') <= Len(domains')
    BY <1>1, <1>4, <1>10, <1>12
  <2>4. QED
    BY <1>1, <1>2, <1>3, <1>4, <1>12, <2>1, <2>2, <2>3 DEF ShapeInv
<1>14. ListInv'
  <2>1. PICK of : of = [d \in 1 .. n |-> kept[d]]
    OBVIOUS
  <2>2. of \in [DOMAIN groups' -> DOMAIN rules'] /\ \A d \in 1 .. n : of[d] = kept[d]
    BY <1>2, <1>11, <1>12, <2>1
  <2>3. \A c, d \in DOMAIN groups' : of[c] = of[d] => c = d
    BY <1>9, <1>12, <2>2
  <2>4. Len(groups') = Len(rules') => \A d \in DOMAIN groups' : of[d] = d
    BY <1>2, <1>10, <1>12, <2>2
  <2>5. ASSUME NEW d \in DOMAIN groups'
        PROVE  OfRule(d, of[d])'
    <3>1. d \in 1 .. n /\ groups'[d] = e(d) /\ of[d] = kept[d] /\ kept[d] \in DOMAIN rules
      BY <1>11, <1>12, <2>2
    <3>2. ASSUME NEW g \in DOMAIN groups'[d], NEW k \in DOMAIN groups'[d][g]
          PROVE  Stands(groups'[d][g][k], of[d], k)
      <4>1. k \in Row /\ groups'[d][g][k] = RowTuple(kept[d], original[k])
        BY <1>11, <3>1
      <4>2. QED
        BY <3>1, <4>1, StandsForItself
    <3>3. \A t, r, k : Stands(t, r, k)' <=> Stands(t, r, k)
      BY <1>1, Frame
    <3>4. QED
      BY <3>2, <3>3 DEF OfRule
  <2>6. RuleOf(of)'
    BY <2>2, <2>3, <2>4, <2>5 DEF RuleOf
  <2>7. \A d \in DOMAIN groups' : \A g, h \in DOMAIN groups'[d] :
          g # h => DOMAIN groups'[d][g] \cap DOMAIN groups'[d][h] = {}
    BY <1>11, <1>12
  <2>8. \A d \in DOMAIN domains' : \A k \in Row' : domains'[d][k].rule = d
    <3>1. \A d \in DOMAIN rules, k \in Row : domains[d][k].rule = d
      BY <1>3, <1>4, RowTupleIs
    <3>2. QED
      BY <1>1, <1>3, <1>5, <3>1
  <2>9. QED
    BY <2>2, <2>6, <2>7, <2>8 DEF ListInv
<1>15. CursorInv'
  <2>1. cursor' = <<1, 1>> /\ 1 \in 1 .. (Len(groups') + 1) /\ 1 \in Nat \ {0}
    BY <1>1, <1>4, <1>9, <1>12
  <2>2. 1 \in DOMAIN groups' => 1 \in DOMAIN groups'[1]
    <3>1. ASSUME 1 \in DOMAIN groups'
          PROVE  groups'[1] \in Seq(RowGroups) /\ groups'[1] # <<>>
      <4>1. 1 \in 1 .. n /\ groups'[1] = e(1)
        BY <1>12, <3>1
      <4>2. e(1) \in Seq(RowGroups) /\ e(1) # <<>>
        BY <1>11, <4>1
      <4>3. QED
        BY <4>1, <4>2
    <3>2. QED
      BY <3>1
  <2>3. \E d \in 1 .. (Len(groups') + 1), g \in Nat \ {0} :
          cursor' = <<d, g>> /\ (d \in DOMAIN groups' => g \in DOMAIN groups'[d])
    BY <2>1, <2>2
  <2>4. QED
    BY <1>1, <2>3 DEF CursorInv
<1>16. GroupInv'
  <2>1. ASSUME NEW d \in DOMAIN groups', NEW g \in DOMAIN groups'[d]
        PROVE  IsFull(groups[d][g])' /\ IsRaw(groups[d][g])' /\ ~ Passed(d, g)'
    <3>1. d \in 1 .. n /\ groups'[d] = e(d) /\ kept[d] \in DOMAIN rules
      BY <1>11, <1>12
    <3>2. PICK group : group = groups'[d][g]
      OBVIOUS
    <3>3. \A k \in DOMAIN group :
            /\ k \in Row /\ group[k] = RowTuple(kept[d], original[k])
            /\ \A m \in Row : SameReason(kept[d], k, m) <=> m \in DOMAIN group
      BY <1>11, <3>1, <3>2
    <3>4. IsFull(group)
      BY <1>3, <3>1, <3>3, RowTupleIs DEF IsFull
    <3>5. IsRaw(group)
      BY <3>1, <3>3 DEF IsRaw
    <3>6. ~ Passed(d, g)'
      <4>1. cursor' = <<1, 1>> /\ d \in Nat /\ d >= 1
        BY <1>1, <1>4, <1>9, <3>1
      <4>2. e(d) \in Seq(RowGroups)
        BY <1>11, <3>1
      <4>3. g \in Nat /\ g >= 1
        BY <3>1, <4>2
      <4>4. QED
        BY <4>1, <4>3 DEF Passed
    <3>7. IsFull(group)' /\ IsRaw(group)'
      BY <1>1, <3>4, <3>5, Frame
    <3>8. QED
      BY <3>2, <3>6, <3>7
  <2>2. GroupsCorrected'
    BY <1>1 DEF GroupsCorrected, Corrected
  <2>3. QED
    BY <2>1, <2>2 DEF GroupInv
<1>17. \A k \in Row : conflicts[k] = <<>>
  BY <1>1 DEF DomainInv, ConflictInv
<1>18. ConflictInv'
  <2>1. ConflictInv
    BY DEF DomainInv
  <2>2. conflicts' \in [Row' -> Seq([tuple : RowTuples', domainID : DOMAIN groups'])]
    <3>1. conflicts = [k \in Row |-> conflicts[k]]
      BY <2>1 DEF ConflictInv
    <3>2. \A k \in Row : conflicts[k] \in Seq([tuple : RowTuples, domainID : DOMAIN groups'])
      <4>1. \A T : <<>> \in Seq(T)
        OBVIOUS
      <4>2. QED
        BY <1>17, <4>1
    <3>3. QED
      BY <1>1, <1>3, <3>1, <3>2
  <2>3. \A k \in Row : DOMAIN conflicts[k] = {}
    BY <1>17
  <2>4. TakenOut'
    BY <1>1, <1>3, <2>3 DEF TakenOut
  <2>5. ConflictDomain'
    <3>1. \A k \in Row : Len(conflicts[k]) = 0
      BY <1>17
    <3>2. ASSUME NEW k \in Row, NEW r \in {1, 2}
          PROVE  Cardinality({i \in DOMAIN conflicts[k] : conflicts[k][i].domainID = r}) * 2
                   = Len(conflicts[k])
      <4>1. {i \in DOMAIN conflicts[k] : conflicts[k][i].domainID = r} = {}
        BY <2>3
      <4>2. QED
        BY <3>1, <4>1, FS_EmptySet
    <3>3. QED
      BY <1>1, <1>3, <2>3, <3>2 DEF ConflictDomain
  <2>6. QED
    BY <1>1, <1>3, <1>17, <2>1, <2>2, <2>4, <2>5 DEF ConflictInv
<1>19. PeaceInv'
  BY <1>1, <1>3, <1>17 DEF PeaceInv, FailsOnlyCovered
<1>20. CandidateInv'
  BY <1>1, Frame DEF DomainInv, CandidateInv
<1>21. ResultInv'
  <2>1. ASSUME Repairable', NEW r \in DOMAIN rules, NEW k \in Row, NEW m \in Row,
               k # m, SameReason(r, k, m)
        PROVE  \E g \in DOMAIN groups'[r] : k \in DOMAIN groups'[r][g] /\ m \in DOMAIN groups'[r][g]
    <3>1. r \in 1 .. n /\ kept[r] = r /\ groups'[r] = e(r)
      BY <1>2, <1>5, <1>10, <1>12, <2>1 DEF Repairable
    <3>2. QED
      BY <1>11, <2>1, <3>1
  <2>2. \A r, k, m : SameReason(r, k, m)' <=> SameReason(r, k, m)
    BY <1>1, Frame
  <2>3. NoInventedValues' /\ CleanDataKept'
    BY <1>1, <1>2, <1>3, <1>4 DEF NoInventedValues, CleanDataKept
  <2>4. QED
    BY <1>1, <1>2, <1>3, <2>1, <2>2, <2>3 DEF ResultInv
<1>22. QED
  BY <1>3, <1>13, <1>14, <1>15, <1>16, <1>18, <1>19, <1>20, <1>21 DEF DomainInv

-----------------------------------------------------------------------------
(* A likelihood counts down from MaxLen, and does not get below zero as long *)
(* as no more places than that have values.                                *)
LEMMA LikelihoodRange ==
  ASSUME InputInv, NEW t, NEW at, IsFiniteSet({i \in at : t.ctx[i] # Null}), NEW n \in Nat,
         Cardinality({i \in at : t.ctx[i] # Null}) <= n, n < MaxLen
  PROVE  /\ Likelihood(prob, t, at) \in 0 .. MaxLen
         /\ (\A i \in at : t.ctx[i] # Null => prob[t.idx[i]][t.ctx[i]] # 0)
              => Likelihood(prob, t, at) > 0
<1> DEFINE p(i) == IF t.ctx[i] = Null THEN 2 ELSE prob[t.idx[i]][t.ctx[i]]
           V == {i \in at : t.ctx[i] # Null}
           H == {i \in at : p(i) = 1}
<1>1. Likelihood(prob, t, at) = IF \E i \in at : p(i) = 0 THEN 0 ELSE MaxLen - Cardinality(H)
  BY DEF Likelihood
<1>2. H \in SUBSET V
  OBVIOUS
<1>3. IsFiniteSet(V) /\ Cardinality(V) <= n
  OBVIOUS
<1>4. \A i \in at : p(i) = 0 => t.ctx[i] # Null /\ prob[t.idx[i]][t.ctx[i]] = 0
  OBVIOUS
<1>5. MaxLen \in Nat
  BY MaxLenNat
<1> HIDE DEF p, V, H
<1>6. IsFiniteSet(H) /\ Cardinality(H) <= Cardinality(V)
  BY <1>2, <1>3, FS_Subset
<1>7. Cardinality(H) \in Nat /\ Cardinality(V) \in Nat
  BY <1>3, <1>6, FS_CardinalityType
<1>8. PICK h \in Nat : h = Cardinality(H) /\ h < MaxLen
  BY <1>3, <1>5, <1>6, <1>7
<1>9. MaxLen - h \in 0 .. MaxLen /\ MaxLen - h > 0 /\ 0 \in 0 .. MaxLen
  BY <1>5, <1>8
<1>10. QED
  BY <1>1, <1>4, <1>8, <1>9

LEMMA ResultLikelihoodRange ==
  ASSUME InputInv, NEW t \in RowTuples
  PROVE  /\ ResultLikelihood(prob, t) \in 0 .. MaxLen
         /\ ResultLikelihood(prob, t) \in Nat
         /\ (\A a \in Attr, v \in Value : prob[a][v] > 0) => ResultLikelihood(prob, t) > 0
<1> DEFINE at == (Len(rules[t.rule].reason) + 1) .. Len(t.idx)
           V == {i \in at : t.ctx[i] # Null}
<1>1. /\ t.rule \in DOMAIN rules /\ t.idx = AttrIndex(t.rule) /\ Len(t.idx) \in Nat
      /\ DOMAIN t.idx = 1 .. Len(t.idx) /\ Len(t.idx) <= NAttrs
      /\ \A i \in DOMAIN t.idx : t.ctx[i] \in Value
  BY RowTupleFacts
<1>2. Len(rules[t.rule].reason) \in Nat /\ AttrIndex(t.rule) \in Seq(Attr)
  BY <1>1, RuleTypes
<1>3. at \in SUBSET (1 .. Len(t.idx))
  BY <1>1, <1>2
<1>4. V \in SUBSET (1 .. Len(t.idx))
  BY <1>3
<1>5. NAttrs \in Nat /\ NAttrs < MaxLen
  <2>1. NAttrs \in Nat /\ Len(rules) \in Nat
    BY DomainAssumption, MaxLenNat
  <2>2. PICK n \in Nat : n = 2 * Len(rules)
    BY <2>1
  <2>3. MaxLen = NAttrs * (n + 1) + 1
    BY <2>1, <2>2 DEF MaxLen
  <2>4. NAttrs * (n + 1) = NAttrs * n + NAttrs /\ NAttrs * n \in Nat
    BY <2>1, <2>2
  <2>5. QED
    BY <2>1, <2>3, <2>4
<1>6. IsFiniteSet(1 .. Len(t.idx)) /\ Cardinality(1 .. Len(t.idx)) = Len(t.idx)
  <2>1. PICK n \in Nat : n = Len(t.idx)
    BY <1>1
  <2>2. IsFiniteSet(1 .. n) /\ Cardinality(1 .. n) = n
    BY FS_Interval
  <2>3. QED
    BY <2>1, <2>2
<1> HIDE DEF at, V
<1>7. IsFiniteSet(V) /\ Cardinality(V) <= NAttrs
  <2>1. IsFiniteSet(V) /\ Cardinality(V) <= Len(t.idx)
    BY <1>4, <1>6, FS_Subset
  <2>2. Cardinality(V) \in Nat
    BY <2>1, FS_CardinalityType
  <2>3. QED
    BY <1>1, <1>5, <2>1, <2>2
<1>8. /\ Likelihood(prob, t, at) \in 0 .. MaxLen
      /\ (\A i \in at : t.ctx[i] # Null => prob[t.idx[i]][t.ctx[i]] # 0)
           => Likelihood(prob, t, at) > 0
  BY <1>5, <1>7, LikelihoodRange DEF V
<1>9. ASSUME \A a \in Attr, v \in Value : prob[a][v] > 0
      PROVE  \A i \in at : t.ctx[i] # Null => prob[t.idx[i]][t.ctx[i]] # 0
  <2> SUFFICES ASSUME NEW i \in at
               PROVE  prob[t.idx[i]][t.ctx[i]] # 0
    OBVIOUS
  <2>1. i \in DOMAIN t.idx
    BY <1>1, <1>3
  <2>2. t.idx[i] \in Attr /\ t.ctx[i] \in Value
    BY <1>1, <1>2, <2>1
  <2>3. QED
    BY <1>9, <2>2
<1>10. ResultLikelihood(prob, t) = Likelihood(prob, t, at)
  BY DEF ResultLikelihood, at
<1>11. MaxLen \in Nat
  BY MaxLenNat
<1>12. QED
  BY <1>8, <1>9, <1>10, <1>11

(* The row taken as the clean one is the likeliest of its group, unless    *)
(* none of them is possible.                                               *)
LEMMA CleanRowIs ==
  ASSUME InputInv, NEW group \in RowGroups
  PROVE  \/ /\ CleanRow(group) \in DOMAIN group
            /\ \A m \in DOMAIN group :
                 ResultLikelihood(prob, group[m]) <= ResultLikelihood(prob, group[CleanRow(group)])
         \/ \A m \in DOMAIN group : ResultLikelihood(prob, group[m]) = 0
<1> DEFINE like(k) == ResultLikelihood(prob, group[k])
           best == {k \in DOMAIN group : like(k) > 0 /\ \A m \in DOMAIN group : like(m) <= like(k)}
<1>1. CleanRow(group) = IF best = {} THEN 0 ELSE CHOOSE k \in best : \A m \in best : k <= m
  BY DEF CleanRow
<1>2. DOMAIN group \in SUBSET Row /\ \A k \in DOMAIN group : group[k] \in RowTuples
  BY DEF RowGroups
<1>3. MaxLen \in Nat /\ \A k \in DOMAIN group : like(k) \in 0 .. MaxLen /\ like(k) \in Nat
  BY <1>2, MaxLenNat, ResultLikelihoodRange
<1>4. SUFFICES ASSUME NEW k \in DOMAIN group, like(k) # 0
               PROVE  /\ CleanRow(group) \in DOMAIN group
                      /\ \A m \in DOMAIN group : like(m) <= like(CleanRow(group))
  OBVIOUS
<1> DEFINE L == {like(m) : m \in DOMAIN group}
<1>5. L \in SUBSET Nat /\ L # {} /\ \A l \in L : l <= MaxLen
  BY <1>3
<1>6. PICK x \in L : \A l \in L : l <= x
  <2> HIDE DEF L
  <2>1. QED
    BY <1>3, <1>5, GreatestNat
<1>7. PICK b \in DOMAIN group : like(b) = x
  BY <1>6
<1>8. like(k) > 0
  BY <1>3, <1>4
<1>9. \A m \in DOMAIN group : like(m) <= like(b)
  BY <1>6, <1>7
<1>10. like(b) > 0
  BY <1>3, <1>8, <1>9
<1>11. b \in best
  BY <1>9, <1>10
<1>12. best \in SUBSET Nat /\ best # {}
  BY <1>2, <1>11, RowFacts
<1> HIDE DEF best, like, L
<1>13. \E m \in best : \A j \in best : m <= j
  BY <1>12, LeastNat
<1>14. CleanRow(group) \in best
  BY <1>1, <1>12, <1>13
<1>15. QED
  BY <1>14 DEF best

(* A group is corrected when all its tuples are the likeliest one.         *)
CorrectedGroup(group) ==
  IF CleanRow(group) \in DOMAIN group
  THEN [m \in DOMAIN group |-> group[CleanRow(group)]]
  ELSE group

LEMMA CorrectedGroupIs ==
  ASSUME InputInv, NEW group \in RowGroups, IsRaw(group), IsFull(group)
  PROVE  /\ CorrectedGroup(group) \in RowGroups
         /\ DOMAIN CorrectedGroup(group) = DOMAIN group
         /\ IsCorrected(CorrectedGroup(group))
         /\ IsFull(CorrectedGroup(group))
         /\ \A m \in DOMAIN group : \A r \in DOMAIN rules :
              Stands(group[m], r, m) => Stands(CorrectedGroup(group)[m], r, m)
<1> DEFINE c == CleanRow(group)
           H == CorrectedGroup(group)
<1>1. PICK r \in DOMAIN rules : \A k \in DOMAIN group :
        /\ group[k] = RowTuple(r, original[k])
        /\ \A m \in DOMAIN group : SameReason(r, k, m)
  BY DEF IsRaw
<1>2. DOMAIN group \in SUBSET Row /\ \A k \in DOMAIN group : group[k] \in RowTuples
  BY DEF RowGroups
<1>3. \A k \in DOMAIN group : group[k].rule = r
  BY <1>1, <1>2, RowTupleIs
<1>4. \A k \in DOMAIN group : \A m \in Row : SameReason(r, k, m) => m \in DOMAIN group
  BY <1>3 DEF IsFull
<1>5. /\ DOMAIN H = DOMAIN group
      /\ \A m \in DOMAIN group : \E k \in DOMAIN group : H[m] = group[k]
      /\ c \in DOMAIN group => \A m \in DOMAIN group : H[m] = group[c]
      /\ c \notin DOMAIN group => H = group
  BY DEF CorrectedGroup
<1>6. H \in RowGroups
  <2>1. CASE c \notin DOMAIN group
    BY <1>5, <2>1
  <2>2. CASE c \in DOMAIN group
    <3>1. H = [m \in DOMAIN group |-> group[c]]
      BY <2>2 DEF CorrectedGroup
    <3> HIDE DEF H
    <3>2. H \in [DOMAIN group -> RowTuples]
      BY <1>2, <2>2, <3>1
    <3>3. QED
      BY <1>2, <3>2 DEF RowGroups
  <2>3. QED
    BY <2>1, <2>2
<1> HIDE DEF c, H
<1>7. \A m \in DOMAIN group : H[m] \in RowTuples /\ H[m].rule = r
  BY <1>2, <1>3, <1>5
<1>8. IsFull(H)
  BY <1>4, <1>5, <1>7 DEF IsFull
<1>9. ASSUME NEW m \in DOMAIN group, NEW q \in DOMAIN rules, Stands(group[m], q, m)
      PROVE  Stands(H[m], q, m)
  <2>1. q = r
    BY <1>2, <1>3, <1>9, StandsFacts
  <2>2. PICK k \in DOMAIN group : H[m] = group[k]
    BY <1>5
  <2>3. k \in Row /\ SameReason(r, m, k) /\ H[m] = RowTuple(r, original[k])
    BY <1>1, <1>2, <2>2
  <2>4. QED
    BY <2>1, <2>3 DEF Stands
<1>10. ASSUME NEW k \in DOMAIN group, NEW j \in DOMAIN group, NEW m \in Row,
              H[k] = group[j],
              Reason(RowTuple(r, original[m])) = Reason(group[j])
       PROVE  m \in DOMAIN group /\ RowTuple(r, original[m]) = group[m]
  <2>1. SameReason(r, m, j)
    BY <1>1, <1>2, <1>10, ReasonIs
  <2>2. SameReason(r, j, m)
    BY <2>1, SameReasonIsEquivalence
  <2>3. m \in DOMAIN group
    BY <1>4, <2>2
  <2>4. QED
    BY <1>1, <2>3
<1>11. IsCorrected(H)
  <2>1. ASSUME NEW k \in DOMAIN group
        PROVE  /\ ResultLikelihood(prob, H[k]) > 0 => \A m \in DOMAIN group : H[m] = H[k]
               /\ \A m \in DOMAIN group :
                    ResultLikelihood(prob, group[m]) <= ResultLikelihood(prob, H[k])
    <3>1. \A m \in DOMAIN group :
            /\ ResultLikelihood(prob, group[m]) \in Nat
            /\ ResultLikelihood(prob, H[m]) \in Nat
      BY <1>2, <1>7, ResultLikelihoodRange
    <3>2. CASE /\ c \in DOMAIN group
               /\ \A m \in DOMAIN group :
                    ResultLikelihood(prob, group[m]) <= ResultLikelihood(prob, group[c])
      <4>1. \A m \in DOMAIN group : H[m] = group[c]
        BY <1>5, <3>2
      <4>2. QED
        BY <3>2, <4>1
    <3>3. CASE \A m \in DOMAIN group : ResultLikelihood(prob, group[m]) = 0
      <4>1. PICK j \in DOMAIN group : H[k] = group[j]
        BY <1>5
      <4>2. ResultLikelihood(prob, H[k]) = 0
        BY <3>3, <4>1
      <4>3. QED
        BY <3>3, <4>2
    <3>4. QED
      BY <3>2, <3>3, CleanRowIs DEF c
  <2>2. ASSUME NEW k \in DOMAIN group, NEW m \in Row,
               Reason(RowTuple(H[k].rule, original[m])) = Reason(H[k])
        PROVE  ResultLikelihood(prob, RowTuple(H[k].rule, original[m]))
                 <= ResultLikelihood(prob, H[k])
    <3>1. H[k].rule = r
      BY <1>7
    <3>2. PICK j \in DOMAIN group : H[k] = group[j]
      BY <1>5
    <3>3. m \in DOMAIN group /\ RowTuple(r, original[m]) = group[m]
      BY <1>10, <2>2, <3>1, <3>2
    <3>4. QED
      BY <2>1, <3>1, <3>3
  <2>3. QED
    BY <1>5, <2>1, <2>2 DEF IsCorrected
<1>12. QED
  BY <1>5, <1>6, <1>8, <1>9, <1>11 DEF H

-----------------------------------------------------------------------------
(* One turn of correctByMLN puts the corrected group in its place.         *)
LEMMA CorrectGroupShape ==
  ASSUME DomainInv, CorrectGroup,
         NEW d, NEW g, cursor[1] = d, cursor[2] = g
  PROVE  /\ d \in DOMAIN groups /\ g \in DOMAIN groups[d] /\ groups[d][g] \in RowGroups
         /\ DOMAIN groups' = DOMAIN groups /\ Len(groups') = Len(groups)
         /\ groups' \in Seq(Seq(RowGroups))
         /\ \A c \in DOMAIN groups : /\ DOMAIN groups'[c] = DOMAIN groups[c]
                                     /\ Len(groups'[c]) = Len(groups[c])
         /\ groups'[d][g] = CorrectedGroup(groups[d][g])
         /\ \A c \in DOMAIN groups : \A h \in DOMAIN groups[c] :
              c # d \/ h # g => groups'[c][h] = groups[c][h]
         /\ domains' \in Seq([Row -> RowTuples]) /\ Len(domains') = Len(domains)
         /\ \A c \in DOMAIN domains : \A k \in Row :
              \/ domains'[c][k] = domains[c][k]
              \/ c = d /\ k \in DOMAIN groups[d][g]
                 /\ domains'[c][k] = CorrectedGroup(groups[d][g])[k]
<1> DEFINE G == groups[d][g]
           k == CleanRow(G)
           H == CorrectedGroup(G)
<1>1. /\ pc = "correctByMLN"
      /\ d <= Len(groups)
      /\ IF k \in DOMAIN G
         THEN /\ groups' = [groups EXCEPT ![d][g] = [m \in DOMAIN G |-> G[k]]]
              /\ domains' = [domains EXCEPT ![d] =
                   [m \in Row |-> IF m \in DOMAIN G THEN G[k] ELSE domains[d][m]]]
         ELSE groups' = groups /\ domains' = domains
  BY DEF CorrectGroup
<1>2. /\ InputInv /\ groups \in Seq(Seq(RowGroups)) /\ domains \in Seq([Row -> RowTuples])
      /\ Len(groups) <= Len(domains)
  BY DEF DomainInv, ShapeInv
<1>3. d \in DOMAIN groups /\ g \in DOMAIN groups[d]
  <2>1. PICK e \in 1 .. (Len(groups) + 1), h \in Nat \ {0} :
          cursor = <<e, h>> /\ (e \in DOMAIN groups => h \in DOMAIN groups[e])
    BY <1>1 DEF DomainInv, CursorInv
  <2>2. e = d /\ h = g
    BY <2>1
  <2>3. d \in 1 .. Len(groups) /\ DOMAIN groups = 1 .. Len(groups)
    BY <1>1, <1>2, <2>1, <2>2
  <2>4. QED
    BY <2>1, <2>2, <2>3
<1>4. /\ groups[d] \in Seq(RowGroups) /\ G \in RowGroups
      /\ \A c \in DOMAIN groups : groups[c] \in Seq(RowGroups)
  BY <1>2, <1>3
<1>5. DOMAIN G \in SUBSET Row /\ \A m \in DOMAIN G : G[m] \in RowTuples
  BY <1>4 DEF RowGroups
<1>6. d \in DOMAIN domains
  BY <1>2, <1>3
<1>7. CASE k \notin DOMAIN G
  <2>1. groups' = groups /\ domains' = domains /\ H = G
    BY <1>1, <1>7 DEF CorrectedGroup
  <2>2. QED
    BY <1>2, <1>3, <1>4, <2>1
<1>8. CASE k \in DOMAIN G
  <2>1. /\ groups' = [groups EXCEPT ![d][g] = H]
        /\ H = [m \in DOMAIN G |-> G[k]]
        /\ domains' = [domains EXCEPT ![d] =
             [m \in Row |-> IF m \in DOMAIN G THEN G[k] ELSE domains[d][m]]]
    BY <1>1, <1>8 DEF CorrectedGroup
  <2>2. H \in RowGroups
    <3>1. H \in [DOMAIN G -> RowTuples]
      BY <1>5, <1>8, <2>1
    <3>2. QED
      BY <1>5, <3>1 DEF RowGroups
  <2> DEFINE N == [groups[d] EXCEPT ![g] = H]
             D == [m \in Row |-> IF m \in DOMAIN G THEN G[k] ELSE domains[d][m]]
  <2>3. groups' = [groups EXCEPT ![d] = N]
    BY <1>3, <2>1
  <2>4. /\ D \in [Row -> RowTuples]
        /\ \A m \in Row : D[m] = domains[d][m] \/ (m \in DOMAIN G /\ D[m] = H[m])
    <3>1. domains[d] \in [Row -> RowTuples]
      BY <1>2, <1>6
    <3>2. QED
      BY <1>5, <1>8, <2>1, <3>1
  <2>5. domains' = [domains EXCEPT ![d] = D]
    BY <2>1
  <2> HIDE DEF H, G, k
  <2>6. /\ N \in Seq(RowGroups) /\ DOMAIN N = DOMAIN groups[d] /\ Len(N) = Len(groups[d])
        /\ N[g] = H /\ \A h \in DOMAIN groups[d] : h # g => N[h] = groups[d][h]
    BY <1>3, <1>4, <2>2
  <2> HIDE DEF N, D
  <2>7. /\ groups' \in Seq(Seq(RowGroups)) /\ DOMAIN groups' = DOMAIN groups
        /\ Len(groups') = Len(groups) /\ groups'[d] = N
        /\ \A c \in DOMAIN groups : c # d => groups'[c] = groups[c]
    BY <1>2, <1>3, <2>3, <2>6
  <2>8. /\ domains' \in Seq([Row -> RowTuples]) /\ Len(domains') = Len(domains)
        /\ domains'[d] = D
        /\ \A c \in DOMAIN domains : c # d => domains'[c] = domains[c]
    BY <1>2, <1>6, <2>4, <2>5
  <2>9. /\ groups'[d][g] = H
        /\ \A c \in DOMAIN groups : \A h \in DOMAIN groups[c] :
             c # d \/ h # g => groups'[c][h] = groups[c][h]
    BY <2>6, <2>7
  <2>10. \A c \in DOMAIN domains : \A m \in Row :
           \/ domains'[c][m] = domains[c][m]
           \/ c = d /\ m \in DOMAIN G /\ domains'[c][m] = H[m]
    BY <2>4, <2>8
  <2>11. \A c \in DOMAIN groups : /\ DOMAIN groups'[c] = DOMAIN groups[c]
                                  /\ Len(groups'[c]) = Len(groups[c])
    BY <2>6, <2>7
  <2>12. QED
    BY <1>3, <1>4, <2>7, <2>8, <2>9, <2>10, <2>11 DEF H, G
<1>9. QED
  BY <1>7, <1>8

LEMMA CorrectGroupKeeps == DomainInv /\ CorrectGroup => DomainInv'
<1> SUFFICES ASSUME DomainInv, CorrectGroup
             PROVE  DomainInv'
  OBVIOUS
<1>0. PICK d, g : cursor[1] = d /\ cursor[2] = g
  OBVIOUS
<1>1. PICK G, H : G = groups[d][g] /\ H = CorrectedGroup(G)
  OBVIOUS
<1>2. /\ pc = "correctByMLN" /\ pc' = pc /\ UNCHANGED input
      /\ dataSet' = dataSet /\ conflicts' = conflicts /\ candidate' = candidate
      /\ cursor' = IF g < Len(groups[d]) THEN <<d, g + 1>> ELSE <<d + 1, 1>>
  BY <1>0 DEF CorrectGroup
<1>3. rules' = rules /\ original' = original /\ prob' = prob
  BY <1>2 DEF input
<1>4. InputInv /\ InputInv' /\ Row' = Row /\ RowTuples' = RowTuples /\ RowGroups' = RowGroups
  BY <1>2, Frame DEF DomainInv
<1>5. /\ d \in DOMAIN groups /\ g \in DOMAIN groups[d] /\ G \in RowGroups
      /\ DOMAIN groups' = DOMAIN groups /\ Len(groups') = Len(groups)
      /\ groups' \in Seq(Seq(RowGroups))
      /\ \A c \in DOMAIN groups : /\ DOMAIN groups'[c] = DOMAIN groups[c]
                                  /\ Len(groups'[c]) = Len(groups[c])
      /\ groups'[d][g] = H
      /\ \A c \in DOMAIN groups : \A h \in DOMAIN groups[c] :
           c # d \/ h # g => groups'[c][h] = groups[c][h]
      /\ domains' \in Seq([Row -> RowTuples]) /\ Len(domains') = Len(domains)
      /\ \A c \in DOMAIN domains : \A k \in Row :
           \/ domains'[c][k] = domains[c][k]
           \/ c = d /\ k \in DOMAIN G /\ domains'[c][k] = H[k]
  BY <1>0, <1>1, CorrectGroupShape
<1>6. /\ groups \in Seq(Seq(RowGroups)) /\ Len(groups) \in Nat /\ DOMAIN groups = 1 .. Len(groups)
      /\ \A c \in DOMAIN groups : /\ groups[c] \in Seq(RowGroups) /\ groups[c] # <<>>
                                  /\ DOMAIN groups[c] = 1 .. Len(groups[c])
                                  /\ Len(groups[c]) \in Nat
      /\ dataSet = original /\ dataSet \in [Row -> [Attr -> Value]]
      /\ Len(domains) = Len(rules) /\ Len(groups) <= Len(domains)
  <2>1. groups \in Seq(Seq(RowGroups)) /\ \A c \in DOMAIN groups : groups[c] # <<>>
    BY DEF DomainInv, ShapeInv
  <2>2. \A c \in DOMAIN groups : groups[c] \in Seq(RowGroups)
    BY <2>1
  <2>3. /\ dataSet = original /\ dataSet \in [Row -> [Attr -> Value]]
        /\ Len(domains) = Len(rules) /\ Len(groups) <= Len(domains)
    BY <1>2 DEF DomainInv, ShapeInv
  <2>4. QED
    BY <2>1, <2>2, <2>3
<1>7. d \in Nat /\ g \in Nat /\ g >= 1 /\ d >= 1 /\ cursor = <<d, g>>
  <2>1. PICK e \in 1 .. (Len(groups) + 1), h \in Nat \ {0} : cursor = <<e, h>>
    BY <1>2 DEF DomainInv, CursorInv
  <2>2. e = d /\ h = g
    BY <1>0, <2>1
  <2>3. QED
    BY <1>5, <1>6, <2>1, <2>2
<1>8. \A c \in DOMAIN groups : \A h \in DOMAIN groups[c] :
        /\ IsFull(groups[c][h])
        /\ IF Passed(c, h) THEN IsCorrected(groups[c][h]) ELSE IsRaw(groups[c][h])
  BY <1>2 DEF DomainInv, GroupInv
<1>9. ~ Passed(d, g)
  BY <1>7 DEF Passed
<1>10. /\ H \in RowGroups /\ DOMAIN H = DOMAIN G
       /\ IsCorrected(H) /\ IsFull(H)
       /\ \A m \in DOMAIN G : \A r \in DOMAIN rules : Stands(G[m], r, m) => Stands(H[m], r, m)
  <2>1. IsFull(G) /\ IsRaw(G)
    BY <1>1, <1>5, <1>8, <1>9
  <2>2. QED
    BY <1>1, <1>4, <1>5, <2>1, CorrectedGroupIs
<1>11. \A c \in DOMAIN groups : \A h \in DOMAIN groups[c] :
         DOMAIN groups'[c][h] = DOMAIN groups[c][h]
  BY <1>1, <1>5, <1>10
<1>12. ShapeInv'
  <2>1. \A c \in DOMAIN groups' : groups'[c] # <<>>
    <3> SUFFICES ASSUME NEW c \in DOMAIN groups
                 PROVE  groups'[c] # <<>>
      BY <1>5
    <3>1. Len(groups[c]) # 0 /\ Len(groups'[c]) = Len(groups[c])
      BY <1>5, <1>6
    <3>2. QED
      BY <3>1
  <2>2. QED
    BY <1>2, <1>3, <1>4, <1>5, <1>6, <2>1 DEF ShapeInv
<1>13. PICK of \in [DOMAIN groups -> DOMAIN rules] : RuleOf(of)
  BY DEF DomainInv, ListInv
<1>14. \A m \in DOMAIN H : Stands(H[m], of[d], m)
  <2>1. \A m \in DOMAIN G : Stands(G[m], of[d], m)
    BY <1>1, <1>5, <1>13 DEF RuleOf, OfRule
  <2>2. QED
    BY <1>5, <1>10, <1>13, <2>1
<1>15. ListInv'
  <2>1. of \in [DOMAIN groups' -> DOMAIN rules']
    BY <1>3, <1>5, <1>13
  <2>2. ASSUME NEW c \in DOMAIN groups'
        PROVE  OfRule(c, of[c])'
    <3>1. ASSUME NEW h \in DOMAIN groups'[c], NEW k \in DOMAIN groups'[c][h]
          PROVE  Stands(groups'[c][h][k], of[c], k)
      <4>1. c \in DOMAIN groups /\ h \in DOMAIN groups[c]
        BY <1>5
      <4>2. CASE c = d /\ h = g
        BY <1>5, <1>14, <4>2
      <4>3. CASE c # d \/ h # g
        BY <1>5, <1>13, <4>1, <4>3 DEF RuleOf, OfRule
      <4>4. QED
        BY <4>2, <4>3
    <3>2. \A t, r, k : Stands(t, r, k)' <=> Stands(t, r, k)
      BY <1>2, Frame
    <3>3. QED
      BY <3>1, <3>2 DEF OfRule
  <2>3. RuleOf(of)'
    BY <1>3, <1>5, <1>13, <2>1, <2>2 DEF RuleOf
  <2>4. \A c \in DOMAIN groups' : \A h, i \in DOMAIN groups'[c] :
          h # i => DOMAIN groups'[c][h] \cap DOMAIN groups'[c][i] = {}
    BY <1>5, <1>11 DEF DomainInv, ListInv
  <2>5. ASSUME Len(groups) = Len(rules), NEW c \in DOMAIN domains', NEW k \in Row
        PROVE  domains'[c][k].rule = c
    <3>1. c \in DOMAIN domains
      BY <1>5 DEF DomainInv, ShapeInv
    <3>2. domains[c][k].rule = c
      BY <2>5, <3>1 DEF DomainInv, ListInv
    <3>3. of[d] = d
      BY <1>5, <1>13, <2>5 DEF RuleOf
    <3>4. ASSUME k \in DOMAIN G, domains'[c][k] = H[k], c = d
          PROVE  domains'[c][k].rule = c
      <4>1. Stands(H[k], of[d], k) /\ of[d] \in DOMAIN rules
        BY <1>5, <1>10, <1>13, <1>14, <3>4
      <4>2. H[k].rule = of[d]
        BY <1>4, <4>1, StandsFacts
      <4>3. QED
        BY <3>3, <3>4, <4>2
    <3>5. QED
      BY <1>5, <3>1, <3>2, <3>4
  <2>6. QED
    BY <1>3, <1>4, <1>5, <2>1, <2>3, <2>4, <2>5 DEF ListInv
<1>16. CursorInv'
  <2>1. \E e \in 1 .. (Len(groups') + 1), h \in Nat \ {0} :
          cursor' = <<e, h>> /\ (e \in DOMAIN groups' => h \in DOMAIN groups'[e])
    <3>1. CASE g < Len(groups[d])
      <4>1. cursor' = <<d, g + 1>> /\ d \in 1 .. (Len(groups') + 1) /\ g + 1 \in Nat \ {0}
        BY <1>2, <1>5, <1>6, <1>7, <3>1
      <4>2. g + 1 \in DOMAIN groups'[d]
        BY <1>5, <1>6, <1>7, <3>1
      <4>3. QED
        BY <4>1, <4>2
    <3>2. CASE ~ (g < Len(groups[d]))
      <4>1. cursor' = <<d + 1, 1>> /\ d + 1 \in 1 .. (Len(groups') + 1) /\ 1 \in Nat \ {0}
        BY <1>2, <1>5, <1>6, <1>7, <3>2
      <4>2. ASSUME NEW c \in DOMAIN groups'
            PROVE  1 \in DOMAIN groups'[c]
        BY <1>5, <1>6
      <4>3. QED
        BY <4>1, <4>2
    <3>3. QED
      BY <3>1, <3>2
  <2>2. QED
    BY <1>2, <2>1 DEF CursorInv
<1>17. GroupInv'
  <2>1. ASSUME NEW c \in DOMAIN groups', NEW h \in DOMAIN groups'[c]
        PROVE  /\ IsFull(groups[c][h])'
               /\ IF Passed(c, h)' THEN IsCorrected(groups[c][h])' ELSE IsRaw(groups[c][h])'
    <3>1. c \in DOMAIN groups /\ h \in DOMAIN groups[c] /\ c \in Nat /\ h \in Nat /\ h >= 1
      BY <1>5, <1>6
    <3>2. PICK N : N = groups'[c][h]
      OBVIOUS
    <3>3. CASE c = d /\ h = g
      <4>1. N = H
        BY <1>5, <3>2, <3>3
      <4>2. Passed(c, h)'
        BY <1>2, <1>7, <3>3 DEF Passed
      <4>3. IsFull(N)' /\ IsCorrected(N)'
        BY <1>2, <1>10, <4>1, Frame
      <4>4. QED
        BY <3>2, <4>2, <4>3
    <3>4. CASE c # d \/ h # g
      <4>1. N = groups[c][h]
        BY <1>5, <3>1, <3>2, <3>4
      <4>2. Passed(c, h)' <=> Passed(c, h)
        <5>1. Passed(c, h) <=> c < d \/ (c = d /\ h < g)
          BY <1>7 DEF Passed
        <5>2. CASE g < Len(groups[d])
          <6>1. Passed(c, h)' <=> c < d \/ (c = d /\ h < g + 1)
            BY <1>2, <5>2 DEF Passed
          <6>2. QED
            BY <1>7, <3>1, <3>4, <5>1, <6>1
        <5>3. CASE ~ (g < Len(groups[d]))
          <6>1. Passed(c, h)' <=> c < d + 1 \/ (c = d + 1 /\ h < 1)
            BY <1>2, <5>3 DEF Passed
          <6>2. c = d => h <= g
            BY <1>5, <1>6, <1>7, <3>1, <5>3
          <6>3. QED
            BY <1>7, <3>1, <3>4, <5>1, <6>1, <6>2
        <5>4. QED
          BY <5>2, <5>3
      <4>3. /\ IsFull(N) /\ IF Passed(c, h) THEN IsCorrected(N) ELSE IsRaw(N)
        BY <1>8, <3>1, <4>1
      <4>4. /\ IsFull(N)' <=> IsFull(N)
            /\ IsCorrected(N)' <=> IsCorrected(N)
            /\ IsRaw(N)' <=> IsRaw(N)
        BY <1>2, Frame
      <4>5. QED
        BY <3>2, <4>2, <4>3, <4>4
    <3>5. QED
      BY <3>3, <3>4
  <2>2. GroupsCorrected'
    BY <1>2 DEF GroupsCorrected, Corrected
  <2>3. QED
    BY <2>1, <2>2 DEF GroupInv
<1>18. \A k \in Row : conflicts[k] = <<>>
  BY <1>2 DEF DomainInv, ConflictInv
<1>19. ConflictInv'
  <2>1. ConflictInv /\ \A k \in Row : DOMAIN conflicts[k] = {}
    BY <1>18 DEF DomainInv
  <2>2. TakenOut'
    BY <1>2, <1>4, <2>1 DEF TakenOut
  <2>3. ConflictDomain'
    BY <1>2, <1>3, <1>4, <1>5, <2>1 DEF ConflictInv, ConflictDomain
  <2>4. QED
    BY <1>2, <1>4, <1>5, <1>18, <2>1, <2>2, <2>3 DEF ConflictInv
<1>20. PeaceInv'
  BY <1>2, <1>4, <1>18 DEF PeaceInv, FailsOnlyCovered
<1>21. CandidateInv'
  BY <1>2, Frame DEF DomainInv, CandidateInv
<1>22. ResultInv'
  <2>1. Repairable' => Repairable
    BY <1>2, <1>3, <1>5, Frame DEF Repairable
  <2>2. ASSUME Repairable', NEW r \in DOMAIN rules, NEW k \in Row, NEW m \in Row,
               k # m, SameReason(r, k, m)
        PROVE  \E h \in DOMAIN groups'[r] : k \in DOMAIN groups'[r][h] /\ m \in DOMAIN groups'[r][h]
    <3>1. \E h \in DOMAIN groups[r] : k \in DOMAIN groups[r][h] /\ m \in DOMAIN groups[r][h]
      BY <1>2, <2>1, <2>2 DEF DomainInv, ResultInv
    <3>2. r \in DOMAIN groups
      BY <1>4, <1>6, <2>1, <2>2 DEF Repairable, InputInv
    <3>3. QED
      BY <1>5, <1>11, <3>1, <3>2
  <2>3. \A r, k, m : SameReason(r, k, m)' <=> SameReason(r, k, m)
    BY <1>2, Frame
  <2>4. NoInventedValues' /\ CleanDataKept'
    BY <1>2, <1>3, <1>4, <1>6 DEF NoInventedValues, CleanDataKept
  <2>5. QED
    BY <1>2, <1>3, <1>4, <2>2, <2>3, <2>4 DEF ResultInv
<1>23. QED
  BY <1>4, <1>12, <1>15, <1>16, <1>17, <1>19, <1>20, <1>21, <1>22 DEF DomainInv

-----------------------------------------------------------------------------
(* What a step leaves alone that changes neither lists nor domains.        *)
LEMMA ListsKept ==
  ASSUME UNCHANGED <<input, groups, domains>>
  PROVE  /\ ListInv => ListInv'
         /\ Repairable' <=> Repairable
         /\ (\A d \in DOMAIN groups : \A g \in DOMAIN groups[d] : IsCorrected(groups[d][g]))
              => GroupsCorrected'
<1>1. UNCHANGED input /\ groups' = groups /\ domains' = domains
  OBVIOUS
<1>2. rules' = rules /\ original' = original /\ prob' = prob
  BY <1>1 DEF input
<1>3. /\ Row' = Row /\ (NoShared' <=> NoShared)
      /\ \A t, r, k : Stands(t, r, k)' <=> Stands(t, r, k)
      /\ \A group : IsCorrected(group)' <=> IsCorrected(group)
  BY <1>1, Frame
<1>4. ASSUME ListInv
      PROVE  ListInv'
  <2>1. PICK of \in [DOMAIN groups -> DOMAIN rules] : RuleOf(of)
    BY <1>4 DEF ListInv
  <2>2. \A d \in DOMAIN groups : OfRule(d, of[d])'
    BY <1>1, <1>3, <2>1 DEF RuleOf, OfRule
  <2>3. of \in [DOMAIN groups' -> DOMAIN rules'] /\ RuleOf(of)'
    BY <1>1, <1>2, <2>1, <2>2 DEF RuleOf
  <2>4. QED
    BY <1>1, <1>2, <1>3, <1>4, <2>3 DEF ListInv
<1>5. Repairable' <=> Repairable
  BY <1>1, <1>2, <1>3 DEF Repairable
<1>6. ASSUME \A d \in DOMAIN groups : \A g \in DOMAIN groups[d] : IsCorrected(groups[d][g])
      PROVE  GroupsCorrected'
  <2>1. ASSUME NEW d \in DOMAIN groups, NEW g \in DOMAIN groups[d]
        PROVE  IsCorrected(groups[d][g])'
    <3>1. PICK G : G = groups[d][g]
      OBVIOUS
    <3>2. IsCorrected(G)'
      BY <1>3, <1>6, <3>1
    <3>3. QED
      BY <1>1, <3>1, <3>2
  <2>2. QED
    BY <1>1, <2>1 DEF GroupsCorrected
<1>7. QED
  BY <1>4, <1>5, <1>6

LEMMA ConflictsUnchanged ==
  ASSUME conflicts' = conflicts, groups' = groups, rules' = rules, Row' = Row
  PROVE  (TakenOut => TakenOut') /\ (ConflictDomain => ConflictDomain')
<1>1. ASSUME TakenOut, NEW k \in Row, NEW i \in DOMAIN conflicts[k],
             NEW d \in {1, conflicts[k][i].domainID}, d = 1 \/ i % 2 = 0,
             NEW g \in DOMAIN groups[d]
      PROVE  k \notin DOMAIN groups[d][g]
  BY <1>1 DEF TakenOut
<1>2. TakenOut => TakenOut'
  <2>1. ASSUME TakenOut, NEW k \in Row', NEW i \in DOMAIN conflicts'[k],
               NEW d \in {1, conflicts'[k][i].domainID}, d = 1 \/ i % 2 = 0,
               NEW g \in DOMAIN groups'[d]
        PROVE  k \notin DOMAIN groups'[d][g]
    <3>1. /\ k \in Row /\ i \in DOMAIN conflicts[k]
          /\ d \in {1, conflicts[k][i].domainID} /\ g \in DOMAIN groups[d]
      OBVIOUS
    <3>2. k \notin DOMAIN groups[d][g]
      BY <1>1, <2>1, <3>1
    <3>3. QED
      BY <3>2
  <2>2. QED
    BY <2>1 DEF TakenOut
<1>3. ConflictDomain => ConflictDomain'
  BY DEF ConflictDomain
<1>4. QED
  BY <1>2, <1>3

(* From combineDomain on.                                                  *)
Combining == {"combineDomain", "findCandidate", "done", "failed"}

LEMMA LateKept ==
  ASSUME UNCHANGED <<input, groups, domains, conflicts>>, pc' \in Combining
  PROVE  /\ ConflictInv => ConflictInv'
         /\ PeaceInv /\ pc' # "failed" => PeaceInv'
<1>1. UNCHANGED input /\ groups' = groups /\ domains' = domains /\ conflicts' = conflicts
  OBVIOUS
<1>2. rules' = rules /\ original' = original
  BY <1>1 DEF input
<1>3. /\ Row' = Row /\ RowTuples' = RowTuples /\ (NoShared' <=> NoShared)
      /\ (IsClean' <=> IsClean)
  BY <1>1, Frame
<1>4. ASSUME ConflictInv
      PROVE  ConflictInv'
  <2>1. TakenOut' /\ ConflictDomain'
    BY <1>1, <1>2, <1>3, <1>4, ConflictsUnchanged DEF ConflictInv
  <2>2. QED
    BY <1>1, <1>2, <1>3, <1>4, <2>1 DEF ConflictInv, Combining
<1>5. ASSUME PeaceInv, pc' # "failed"
      PROVE  PeaceInv'
  BY <1>1, <1>3, <1>5 DEF PeaceInv, FailsOnlyCovered
<1>6. QED
  BY <1>4, <1>5

LEMMA ValuesKept ==
  ASSUME UNCHANGED <<input, dataSet>>, InputInv
  PROVE  /\ dataSet \in [Row -> [Attr -> Value]] => dataSet' \in [Row' -> [Attr -> Value]]
         /\ NoInventedValues /\ CleanDataKept => NoInventedValues' /\ CleanDataKept'
         /\ \A r \in DOMAIN rules : Satisfies(dataSet, rules[r])' <=> Satisfies(dataSet, rules[r])
<1>1. /\ UNCHANGED input /\ dataSet' = dataSet
      /\ rules' = rules /\ original' = original
  BY DEF input
<1>2. Row' = Row /\ Ignored' = Ignored
  BY <1>1, Frame
<1>3. QED
  BY <1>1, <1>2 DEF NoInventedValues, CleanDataKept, Satisfies

(* Which rows are together in the groups of a list that can be repaired.   *)
Together ==
  \A r \in DOMAIN rules : \A k, m \in Row :
    k # m /\ SameReason(r, k, m) =>
      \E g \in DOMAIN groups[r] : k \in DOMAIN groups[r][g] /\ m \in DOMAIN groups[r][g]

LEMMA TogetherKept ==
  ASSUME UNCHANGED <<input, groups>>
  PROVE  Together' <=> Together
<1>1. /\ UNCHANGED input /\ groups' = groups /\ rules' = rules
  BY DEF input
<1>2. Row' = Row /\ \A r, k, m : SameReason(r, k, m)' <=> SameReason(r, k, m)
  BY <1>1, Frame
<1>3. QED
  BY <1>1, <1>2 DEF Together

LEMMA BeginCombineKeeps == DomainInv /\ BeginCombine => DomainInv'
<1> SUFFICES ASSUME DomainInv, BeginCombine
             PROVE  DomainInv'
  OBVIOUS
<1>1. /\ pc = "correctByMLN" /\ cursor[1] > Len(groups)
      /\ UNCHANGED <<dataSet, input, domains, groups, conflicts, candidate>>
      /\ pc' = CASE Len(groups) = 0 -> "failed"
                 [] Len(groups) = 1 -> "findCandidate"
                 [] OTHER -> "combineDomain"
      /\ cursor' = IF Len(groups) > 1 THEN <<2, 1, 1>> ELSE <<0>>
  BY DEF BeginCombine
<1>2. rules' = rules /\ original' = original /\ prob' = prob /\ UNCHANGED input
  BY <1>1 DEF input
<1>3. InputInv /\ InputInv' /\ Row' = Row /\ RowTuples' = RowTuples /\ RowGroups' = RowGroups
  BY <1>2, Frame DEF DomainInv
<1>4. /\ groups \in Seq(Seq(RowGroups)) /\ Len(groups) \in Nat
      /\ \A d \in DOMAIN groups : groups[d] # <<>> /\ groups[d] \in Seq(RowGroups)
      /\ DOMAIN groups = 1 .. Len(groups)
      /\ dataSet = original /\ dataSet \in [Row -> [Attr -> Value]]
      /\ domains \in Seq([Row -> RowTuples])
      /\ Len(domains) = Len(rules) /\ Len(groups) <= Len(domains)
  <2>1. groups \in Seq(Seq(RowGroups))
    BY DEF DomainInv, ShapeInv
  <2>2. /\ \A d \in DOMAIN groups : groups[d] \in Seq(RowGroups)
        /\ Len(groups) \in Nat /\ DOMAIN groups = 1 .. Len(groups)
    BY <2>1
  <2>3. QED
    BY <1>1, <2>1, <2>2 DEF DomainInv, ShapeInv
<1>5. /\ Len(groups) = 0 => pc' = "failed"
      /\ Len(groups) = 1 => pc' = "findCandidate"
      /\ Len(groups) > 1 => pc' = "combineDomain"
  <2>1. CASE Len(groups) = 0
    BY <1>1, <2>1
  <2>2. CASE Len(groups) = 1
    BY <1>1, <2>2
  <2>3. CASE Len(groups) > 1
    <3>1. ~ (Len(groups) = 0) /\ ~ (Len(groups) = 1)
      BY <2>3
    <3>2. pc' = "combineDomain"
      BY <1>1, <3>1, Zenon
    <3>3. QED
      BY <3>1, <3>2
  <2>4. QED
    BY <1>4, <2>1, <2>2, <2>3
<1>6. pc' \in {"combineDomain", "findCandidate", "failed"} /\ pc' \in Combining
  BY <1>4, <1>5 DEF Combining
<1>7. ShapeInv'
  BY <1>1, <1>2, <1>3, <1>4, <1>6 DEF DomainInv, ShapeInv
<1>8. ListInv'
  BY <1>1, ListsKept DEF DomainInv
<1>9. CursorInv'
  <2>1. CASE Len(groups) > 1
    <3>1. pc' = "combineDomain" /\ cursor' = <<2, 1, 1>>
      BY <1>1, <1>5, <2>1
    <3>2. 2 \in DOMAIN groups /\ 1 \in DOMAIN groups
      BY <1>4, <2>1
    <3>3. \A d \in DOMAIN groups : 1 \in DOMAIN groups[d] /\ Len(groups[d]) \in Nat
      BY <1>4
    <3>4. 2 \in 2 .. (Len(groups) + 1) /\ 1 \in 1 .. (Len(groups[1]) + 1) /\ 1 \in Nat \ {0}
      BY <1>4, <2>1, <3>2, <3>3
    <3>5. QED
      BY <1>1, <2>1, <3>1, <3>2, <3>3, <3>4 DEF CursorInv
  <2>2. CASE ~ (Len(groups) > 1)
    <3>1. pc' \in {"findCandidate", "failed"} /\ cursor' = <<0>>
      BY <1>1, <1>4, <1>5, <2>2
    <3>2. 0 \in 0 .. Cardinality(Row')
      BY <1>3, RowFacts
    <3>3. QED
      BY <3>1, <3>2 DEF CursorInv
  <2>3. QED
    BY <2>1, <2>2
<1>10. \A d \in DOMAIN groups : \A g \in DOMAIN groups[d] : IsCorrected(groups[d][g])
  <2> SUFFICES ASSUME NEW d \in DOMAIN groups, NEW g \in DOMAIN groups[d]
               PROVE  IsCorrected(groups[d][g])
    OBVIOUS
  <2>1. PICK e \in 1 .. (Len(groups) + 1), h \in Nat \ {0} : cursor = <<e, h>>
    BY <1>1 DEF DomainInv, CursorInv
  <2>2. Passed(d, g)
    BY <1>1, <1>4, <2>1 DEF Passed
  <2>3. QED
    BY <1>1, <2>2 DEF DomainInv, GroupInv
<1>11. GroupInv'
  BY <1>1, <1>6, <1>10, ListsKept DEF GroupInv
<1>12. ConflictInv'
  BY <1>1, <1>6, LateKept DEF DomainInv
<1>13. PeaceInv'
  <2>1. \A k \in Row : conflicts[k] = <<>>
    BY <1>1 DEF DomainInv, ConflictInv
  <2>2. pc' = "failed" => groups' = <<>>
    BY <1>1, <1>4, <1>5
  <2>3. QED
    BY <1>1, <1>3, <2>1, <2>2 DEF PeaceInv, FailsOnlyCovered
<1>14. CandidateInv'
  BY <1>1, Frame DEF DomainInv, CandidateInv
<1>15. ResultInv'
  <2>1. (Repairable' <=> Repairable) /\ (Together' <=> Together)
    BY <1>1, ListsKept, TogetherKept
  <2>2. Repairable => Together
    BY <1>1 DEF DomainInv, ResultInv, Together
  <2>3. Repairable => pc' = "combineDomain"
    BY <1>4, <1>5 DEF Repairable
  <2>4. NoInventedValues' /\ CleanDataKept'
    BY <1>1, <1>3, ValuesKept DEF DomainInv, ResultInv
  <2>5. QED
    BY <2>1, <2>2, <2>3, <2>4 DEF ResultInv, Together
<1>16. QED
  BY <1>3, <1>7, <1>8, <1>9, <1>11, <1>12, <1>13, <1>14, <1>15 DEF DomainInv

-----------------------------------------------------------------------------
LEMMA NextDomainKeeps == DomainInv /\ NextDomain => DomainInv'
<1> SUFFICES ASSUME DomainInv, NextDomain
             PROVE  DomainInv'
  OBVIOUS
<1>1. /\ pc = "combineDomain" /\ cursor[1] <= Len(groups)
      /\ UNCHANGED <<pc, dataSet, input, domains, groups, conflicts, candidate>>
      /\ cursor' = <<cursor[1] + 1, 1, 1>>
  BY DEF NextDomain
<1>2. rules' = rules /\ original' = original /\ prob' = prob /\ UNCHANGED input
  BY <1>1 DEF input
<1>3. InputInv /\ InputInv' /\ Row' = Row /\ RowTuples' = RowTuples /\ RowGroups' = RowGroups
  BY <1>2, Frame DEF DomainInv
<1>4. pc' \in Combining /\ pc' = "combineDomain"
  BY <1>1 DEF Combining
<1>5. ShapeInv'
  BY <1>1, <1>2, <1>3 DEF DomainInv, ShapeInv
<1>6. CursorInv'
  <2>1. PICK i \in 2 .. (Len(groups) + 1), p \in 1 .. (Len(groups[1]) + 1), c \in Nat \ {0} :
          cursor = <<i, p, c>>
    BY <1>1 DEF DomainInv, CursorInv
  <2>2. /\ groups \in Seq(Seq(RowGroups)) /\ Len(groups) > 1
        /\ \A d \in DOMAIN groups : groups[d] # <<>>
    BY <1>1 DEF DomainInv, ShapeInv, CursorInv
  <2>3. /\ \A d \in DOMAIN groups : groups[d] \in Seq(RowGroups)
        /\ Len(groups) \in Nat /\ 1 \in DOMAIN groups
    BY <2>2
  <2>4. \A d \in DOMAIN groups : 1 \in DOMAIN groups[d] /\ Len(groups[d]) \in Nat
    BY <2>2, <2>3
  <2>5. cursor' = <<i + 1, 1, 1>> /\ i + 1 \in 2 .. (Len(groups) + 1)
    BY <1>1, <2>1, <2>3
  <2>6. 1 \in 1 .. (Len(groups[1]) + 1) /\ 1 \in Nat \ {0}
    BY <2>3, <2>4
  <2>7. QED
    BY <1>1, <2>2, <2>4, <2>5, <2>6 DEF CursorInv
<1>7. \A d \in DOMAIN groups : \A g \in DOMAIN groups[d] : IsCorrected(groups[d][g])
  BY <1>1 DEF DomainInv, GroupInv, GroupsCorrected, Corrected
<1>8. ListInv' /\ GroupInv'
  BY <1>1, <1>4, <1>7, ListsKept DEF DomainInv, GroupInv
<1>9. ConflictInv' /\ PeaceInv'
  BY <1>1, <1>4, LateKept DEF DomainInv
<1>10. CandidateInv'
  BY <1>1, Frame DEF DomainInv, CandidateInv
<1>11. ResultInv'
  <2>1. (Repairable' <=> Repairable) /\ (Together' <=> Together)
    BY <1>1, ListsKept, TogetherKept
  <2>2. Repairable => Together
    BY <1>1 DEF DomainInv, ResultInv, Together
  <2>3. NoInventedValues' /\ CleanDataKept'
    BY <1>1, <1>3, ValuesKept DEF DomainInv, ResultInv
  <2>4. QED
    BY <1>4, <2>1, <2>2, <2>3 DEF ResultInv, Together
<1>12. QED
  BY <1>3, <1>5, <1>6, <1>8, <1>9, <1>10, <1>11 DEF DomainInv

-----------------------------------------------------------------------------
LEMMA FinishKeeps == DomainInv /\ Finish => DomainInv'
<1> SUFFICES ASSUME DomainInv, Finish
             PROVE  DomainInv'
  OBVIOUS
<1>1. /\ pc = "findCandidate" /\ pc' = "done"
      /\ UNCHANGED <<dataSet, input, domains, groups, cursor, conflicts, candidate>>
  BY DEF Finish
<1>2. rules' = rules /\ original' = original /\ prob' = prob /\ UNCHANGED input
  BY <1>1 DEF input
<1>3. InputInv /\ InputInv' /\ Row' = Row /\ RowTuples' = RowTuples /\ RowGroups' = RowGroups
  BY <1>2, Frame DEF DomainInv
<1>4. pc' \in Combining
  BY <1>1 DEF Combining
<1>5. ShapeInv'
  BY <1>1, <1>2, <1>3 DEF DomainInv, ShapeInv
<1>6. CursorInv'
  BY <1>1, <1>3 DEF DomainInv, CursorInv
<1>7. \A d \in DOMAIN groups : \A g \in DOMAIN groups[d] : IsCorrected(groups[d][g])
  BY <1>1 DEF DomainInv, GroupInv, GroupsCorrected, Corrected
<1>8. ListInv' /\ GroupInv'
  BY <1>1, <1>7, ListsKept DEF DomainInv, GroupInv
<1>9. ConflictInv' /\ PeaceInv'
  BY <1>1, <1>4, LateKept DEF DomainInv
<1>10. CandidateInv'
  BY <1>1, Frame DEF DomainInv, CandidateInv
<1>11. ResultInv'
  <2>1. (Repairable' <=> Repairable) /\ (Together' <=> Together)
    BY <1>1, ListsKept, TogetherKept
  <2>2. Repairable => Together
    BY <1>1 DEF DomainInv, ResultInv, Together
  <2>3. Repairable => \A r \in DOMAIN rules' : Satisfies(dataSet, rules[r])'
    BY <1>1, <1>2, <1>3, ValuesKept DEF DomainInv, ResultInv
  <2>4. NoInventedValues' /\ CleanDataKept'
    BY <1>1, <1>3, ValuesKept DEF DomainInv, ResultInv
  <2>5. QED
    BY <2>1, <2>2, <2>3, <2>4 DEF ResultInv, Together
<1>12. QED
  BY <1>3, <1>5, <1>6, <1>8, <1>9, <1>10, <1>11 DEF DomainInv

(* A step that changes nothing.                                            *)
LEMMA StutterKeeps == DomainInv /\ UNCHANGED vars => DomainInv'
<1> SUFFICES ASSUME DomainInv, UNCHANGED vars
             PROVE  DomainInv'
  OBVIOUS
<1>1. UNCHANGED <<pc, dataSet, input, domains, groups, cursor, conflicts, candidate>>
  BY DEF vars, input
<1>2. rules' = rules /\ original' = original /\ prob' = prob /\ UNCHANGED input
  BY <1>1 DEF input
<1>3. InputInv /\ InputInv' /\ Row' = Row /\ RowTuples' = RowTuples /\ RowGroups' = RowGroups
  BY <1>2, Frame DEF DomainInv
<1>4. ShapeInv'
  <2>1. \A r, k : RowTuple(r, original[k])' = RowTuple(r, original[k])
    BY <1>2, Frame
  <2>2. QED
    BY <1>1, <1>2, <1>3, <2>1 DEF DomainInv, ShapeInv
<1>5. CursorInv'
  BY <1>1, <1>3 DEF DomainInv, CursorInv
<1>6. ListInv'
  BY <1>1, ListsKept DEF DomainInv
<1>7. ASSUME NEW G
      PROVE  /\ IsFull(G)' <=> IsFull(G)
             /\ IsRaw(G)' <=> IsRaw(G)
             /\ IsCorrected(G)' <=> IsCorrected(G)
  BY <1>2, Frame
<1>8. GroupInv'
  <2>1. ASSUME NEW d \in DOMAIN groups, NEW g \in DOMAIN groups[d]
        PROVE  /\ IsFull(groups[d][g])' <=> IsFull(groups[d][g])
               /\ IsRaw(groups[d][g])' <=> IsRaw(groups[d][g])
               /\ IsCorrected(groups[d][g])' <=> IsCorrected(groups[d][g])
    <3>1. PICK G : G = groups[d][g]
      OBVIOUS
    <3>2. QED
      BY <1>1, <1>7, <3>1
  <2>2. \A d, g : Passed(d, g)' <=> Passed(d, g)
    BY <1>1 DEF Passed
  <2>3. GroupsCorrected'
    BY <1>1, <2>1 DEF DomainInv, GroupInv, GroupsCorrected, Corrected
  <2>4. QED
    BY <1>1, <2>1, <2>2, <2>3 DEF DomainInv, GroupInv
<1>9. ConflictInv'
  <2>1. TakenOut' /\ ConflictDomain'
    BY <1>1, <1>2, <1>3, ConflictsUnchanged DEF DomainInv, ConflictInv
  <2>2. QED
    BY <1>1, <1>2, <1>3, <2>1 DEF DomainInv, ConflictInv
<1>10. PeaceInv'
  <2>1. (NoShared' <=> NoShared) /\ (IsClean' <=> IsClean)
    BY <1>2, Frame
  <2>2. FailsOnlyCovered'
    BY <1>1, <1>2 DEF DomainInv, PeaceInv, FailsOnlyCovered
  <2>3. QED
    BY <1>1, <1>3, <2>1, <2>2 DEF DomainInv, PeaceInv
<1>11. CandidateInv'
  BY <1>1, Frame DEF DomainInv, CandidateInv
<1>12. ResultInv'
  <2>1. (Repairable' <=> Repairable) /\ (Together' <=> Together)
    BY <1>1, ListsKept, TogetherKept
  <2>2. Repairable /\ pc \notin {"init", "groupByKey"} => Together
    BY <1>1 DEF DomainInv, ResultInv, Together
  <2>3. Repairable /\ pc \in {"findCandidate", "done"} =>
          \A r \in DOMAIN rules' : Satisfies(dataSet, rules[r])'
    BY <1>1, <1>2, <1>3, ValuesKept DEF DomainInv, ResultInv
  <2>4. NoInventedValues' /\ CleanDataKept'
    BY <1>1, <1>3, ValuesKept DEF DomainInv, ResultInv
  <2>5. QED
    BY <1>1, <2>1, <2>2, <2>3, <2>4 DEF ResultInv, Together
<1>13. QED
  BY <1>3, <1>4, <1>5, <1>6, <1>8, <1>9, <1>10, <1>11, <1>12 DEF DomainInv

-----------------------------------------------------------------------------
(* A tuple of a row has values only for its rule's columns: the row's.     *)
LEMMA RowTupleValue ==
  ASSUME InputInv, NEW t \in RowTuples, NEW a, ValueOf(t, a) # Null
  PROVE  /\ a \in Columns(rules[t.rule])
         /\ \A m \in Row : t = RowTuple(t.rule, original[m]) => ValueOf(t, a) = original[m][a]
<1> DEFINE at == {i \in DOMAIN t.idx : t.idx[i] = a}
<1>1. /\ t.rule \in DOMAIN rules /\ t.idx = AttrIndex(t.rule)
      /\ Len(t.idx) \in Nat /\ DOMAIN t.idx = 1 .. Len(t.idx)
  BY RowTupleFacts
<1>2. ValueOf(t, a) = IF at = {} THEN Null ELSE t.ctx[LastOf(at)]
  BY DEF ValueOf
<1>3. at # {} /\ at \in SUBSET (1 .. Len(t.idx)) /\ ValueOf(t, a) = t.ctx[LastOf(at)]
  BY <1>1, <1>2
<1>4. PICK j \in at : j = LastOf(at)
  <2> HIDE DEF at
  <2>1. QED
    BY <1>1, <1>3, LastOfIs
<1>5. j \in DOMAIN t.idx /\ t.idx[j] = a /\ ValueOf(t, a) = t.ctx[j]
  BY <1>3, <1>4
<1>6. a \in Columns(rules[t.rule])
  <2>1. Columns(rules[t.rule]) = {AttrIndex(t.rule)[i] : i \in DOMAIN AttrIndex(t.rule)}
    BY <1>1, RuleTypes
  <2>2. QED
    BY <1>1, <1>5, <2>1
<1>7. ASSUME NEW m \in Row, t = RowTuple(t.rule, original[m])
      PROVE  ValueOf(t, a) = original[m][a]
  <2>1. PICK r \in DOMAIN rules : r = t.rule
    BY <1>1
  <2>2. t = RowTuple(r, original[m]) /\ t.idx = AttrIndex(r)
    BY <1>1, <1>7, <2>1
  <2>3. RowTuple(r, original[m]).ctx[j] = original[m][AttrIndex(r)[j]]
    BY <1>5, <2>2, RowTupleIs
  <2>4. QED
    BY <1>5, <2>2, <2>3
<1>8. QED
  BY <1>6, <1>7

(* Neither tuples of rules that share no column nor those of clean data    *)
(* are in conflict.                                                        *)
LEMMA NoConflict ==
  ASSUME InputInv, NoShared \/ IsClean,
         NEW q \in DOMAIN rules, NEW r \in DOMAIN rules, q # r, NEW k \in Row,
         NEW t, NEW u, Stands(t, q, k), Stands(u, r, k)
  PROVE  ~ Conflicting(t, u)
<1>1. SUFFICES ASSUME NEW a \in Attr, ValueOf(t, a) # Null, ValueOf(u, a) # Null,
                      ValueOf(t, a) # ValueOf(u, a)
               PROVE  FALSE
  BY DEF Conflicting
<1>2. t \in RowTuples /\ t.rule = q /\ u \in RowTuples /\ u.rule = r
  BY StandsFacts
<1>3. a \in Columns(rules[q]) /\ a \in Columns(rules[r])
  BY <1>1, <1>2, RowTupleValue
<1>4. ~ NoShared
  BY <1>3 DEF NoShared, Share
<1>5. t = RowTuple(q, original[k]) /\ u = RowTuple(r, original[k])
  BY <1>4, CleanTuples
<1>6. ValueOf(t, a) = original[k][a] /\ ValueOf(u, a) = original[k][a]
  BY <1>1, <1>2, <1>5, RowTupleValue
<1>7. QED
  BY <1>1, <1>6

(* Some rows of a corrected group are a corrected group.                   *)
LEMMA SomeCorrected ==
  ASSUME NEW G, NEW H, IsCorrected(G), DOMAIN H \subseteq DOMAIN G,
         \A k \in DOMAIN H : H[k] = G[k]
  PROVE  IsCorrected(H)
<1> SUFFICES ASSUME NEW k \in DOMAIN H
             PROVE  /\ ResultLikelihood(prob, H[k]) > 0 => \A m \in DOMAIN H : H[m] = H[k]
                    /\ \A m \in Row :
                         LET u == RowTuple(H[k].rule, original[m])
                         IN  Reason(u) = Reason(H[k])
                             => ResultLikelihood(prob, u) <= ResultLikelihood(prob, H[k])
  BY DEF IsCorrected
<1>1. k \in DOMAIN G /\ H[k] = G[k]
  OBVIOUS
<1>2. /\ ResultLikelihood(prob, G[k]) > 0 => \A m \in DOMAIN G : G[m] = G[k]
      /\ \A m \in Row :
           LET u == RowTuple(G[k].rule, original[m])
           IN  Reason(u) = Reason(G[k])
               => ResultLikelihood(prob, u) <= ResultLikelihood(prob, G[k])
  BY <1>1 DEF IsCorrected
<1>3. QED
  BY <1>1, <1>2

(* One turn of combineDomain takes the rows in conflict out of the two      *)
(* groups compared and records both their tuples.                          *)
Record(i, t, u) ==
  <<[tuple |-> t, domainID |-> FirstID(i)], [tuple |-> u, domainID |-> i]>>

Combined(i, pre, cur, rows) ==
  /\ 1 \in DOMAIN groups /\ i \in DOMAIN groups /\ i >= 2 /\ i \in Nat
  /\ cursor = <<i, pre, cur>>
  /\ pre \in DOMAIN groups[1] /\ cur \in DOMAIN groups[i]
  /\ rows \in SUBSET (DOMAIN groups[1][pre] \cap DOMAIN groups[i][cur])
  /\ groups' \in Seq(Seq(RowGroups))
  /\ DOMAIN groups' = DOMAIN groups /\ Len(groups') = Len(groups)
  /\ \A d \in DOMAIN groups :
       /\ Len(groups'[d]) = Len(groups[d]) /\ DOMAIN groups'[d] = DOMAIN groups[d]
       /\ \A g \in DOMAIN groups[d] :
            /\ DOMAIN groups'[d][g] \subseteq DOMAIN groups[d][g]
            /\ (DOMAIN groups[d][g]) \ rows \subseteq DOMAIN groups'[d][g]
            /\ \A k \in DOMAIN groups'[d][g] : groups'[d][g][k] = groups[d][g][k]
  /\ \A k \in rows : k \notin DOMAIN groups'[1][pre] /\ k \notin DOMAIN groups'[i][cur]
  /\ conflicts' = [k \in Row |->
       IF k \in rows THEN conflicts[k] \o Record(i, groups[1][pre][k], groups[i][cur][k])
       ELSE conflicts[k]]

LEMMA CombineShape ==
  ASSUME DomainInv, CombineGroups,
         NEW i, NEW pre, NEW cur, cursor[1] = i, cursor[2] = pre, cursor[3] = cur,
         NEW rows, rows = ConflictRows(groups[1][pre], groups[i][cur])
  PROVE  Combined(i, pre, cur, rows)
<1> DEFINE G1 == groups[1][pre]
           G2 == groups[i][cur]
           W1 == Without(G1, rows, FALSE)
           W2 == Without(G2, rows, TRUE)
           common == DOMAIN G1 \cap DOMAIN G2
<1>1. /\ pc = "combineDomain" /\ i <= Len(groups) /\ pre <= Len(groups[1])
      /\ IF common # {}
         THEN /\ groups' = [groups EXCEPT ![1][pre] = W1, ![i][cur] = W2]
              /\ conflicts' = [k \in Row |->
                   IF k \in rows THEN conflicts[k] \o <<[tuple |-> G1[k], domainID |-> FirstID(i)],
                                                        [tuple |-> G2[k], domainID |-> i]>>
                   ELSE conflicts[k]]
         ELSE groups' = groups /\ conflicts' = conflicts
  BY DEF CombineGroups
<1>2. PICK i0 \in 2 .. (Len(groups) + 1), p0 \in 1 .. (Len(groups[1]) + 1), c0 \in Nat \ {0} :
        cursor = <<i0, p0, c0>> /\ (i0 \in DOMAIN groups => c0 \in DOMAIN groups[i0])
  BY <1>1 DEF DomainInv, CursorInv
<1>3. cursor = <<i, pre, cur>> /\ i0 = i /\ p0 = pre /\ c0 = cur
  BY <1>2
<1>4. /\ groups \in Seq(Seq(RowGroups)) /\ Len(groups) > 1
      /\ conflicts \in [Row -> Seq([tuple : RowTuples, domainID : DOMAIN groups])]
  BY <1>1 DEF DomainInv, ShapeInv, CursorInv, ConflictInv
<1>5. /\ 1 \in DOMAIN groups /\ i \in DOMAIN groups /\ i >= 2 /\ i \in Nat
      /\ \A d \in DOMAIN groups : groups[d] \in Seq(RowGroups)
  BY <1>1, <1>2, <1>3, <1>4
<1>6. groups[1] \in Seq(RowGroups) /\ groups[i] \in Seq(RowGroups)
  BY <1>5
<1>7. pre \in DOMAIN groups[1] /\ cur \in DOMAIN groups[i]
  BY <1>1, <1>2, <1>3, <1>5, <1>6
<1>8. G1 \in RowGroups /\ G2 \in RowGroups
  BY <1>6, <1>7
<1>9. rows \in SUBSET common
  BY DEF ConflictRows
<1>10. W1 = [k \in (DOMAIN G1) \ rows |-> G1[k]] /\ W2 = [k \in (DOMAIN G2) \ rows |-> G2[k]]
  BY DEF Without
<1>11. W1 \in RowGroups /\ W2 \in RowGroups
  <2>1. ASSUME NEW G \in RowGroups
        PROVE  [k \in (DOMAIN G) \ rows |-> G[k]] \in RowGroups
    <3>1. DOMAIN G \in SUBSET Row /\ \A k \in DOMAIN G : G[k] \in RowTuples
      BY DEF RowGroups
    <3>2. (DOMAIN G) \ rows \in SUBSET Row
      BY <3>1
    <3>3. [k \in (DOMAIN G) \ rows |-> G[k]] \in [(DOMAIN G) \ rows -> RowTuples]
      BY <3>1
    <3>4. QED
      BY <3>2, <3>3 DEF RowGroups
  <2>2. QED
    BY <1>8, <1>10, <2>1
<1> DEFINE Shrinks(d) ==
             /\ Len(groups'[d]) = Len(groups[d]) /\ DOMAIN groups'[d] = DOMAIN groups[d]
             /\ \A g \in DOMAIN groups[d] :
                  /\ DOMAIN groups'[d][g] \subseteq DOMAIN groups[d][g]
                  /\ (DOMAIN groups[d][g]) \ rows \subseteq DOMAIN groups'[d][g]
                  /\ \A k \in DOMAIN groups'[d][g] : groups'[d][g][k] = groups[d][g][k]
<1>12. CASE common = {}
  <2>1. groups' = groups /\ conflicts' = conflicts /\ rows = {}
    BY <1>1, <1>9, <1>12
  <2>2. \A d \in DOMAIN groups : Shrinks(d)
    BY <2>1
  <2>3. conflicts' = [k \in Row |->
          IF k \in rows THEN conflicts[k] \o Record(i, groups[1][pre][k], groups[i][cur][k])
          ELSE conflicts[k]]
    <3>1. conflicts = [k \in Row |-> conflicts[k]]
      BY <1>4
    <3>2. \A k \in Row : k \notin rows
      BY <2>1
    <3>3. QED
      BY <2>1, <3>1, <3>2
  <2>4. QED
    BY <1>3, <1>4, <1>5, <1>7, <1>9, <2>1, <2>2, <2>3 DEF Combined
<1>13. CASE common # {}
  <2>1. /\ groups' = [groups EXCEPT ![1][pre] = W1, ![i][cur] = W2]
        /\ conflicts' = [k \in Row |->
             IF k \in rows THEN conflicts[k] \o Record(i, groups[1][pre][k], groups[i][cur][k])
             ELSE conflicts[k]]
    BY <1>1, <1>13 DEF Record
  <2> DEFINE N1 == [groups[1] EXCEPT ![pre] = W1]
             N2 == [groups[i] EXCEPT ![cur] = W2]
  <2>2. groups' = [[groups EXCEPT ![1] = N1] EXCEPT ![i] = N2]
    <3>1. PICK M : M = [groups EXCEPT ![1] = N1]
      OBVIOUS
    <3>2. M = [groups EXCEPT ![1][pre] = W1]
      BY <1>5, <3>1
    <3>3. groups' = [[groups EXCEPT ![1][pre] = W1] EXCEPT ![i][cur] = W2]
      BY <2>1, Zenon
    <3>a. i # 1 /\ i \in DOMAIN groups
      BY <1>5
    <3>4. M[i] = groups[i]
      BY <3>1, <3>a, Zenon
    <3>5. groups' = [M EXCEPT ![i] = N2]
      BY <3>2, <3>3, <3>4
    <3>6. QED
      BY <3>1, <3>5
  <2>3. /\ DOMAIN W1 = (DOMAIN G1) \ rows /\ DOMAIN W2 = (DOMAIN G2) \ rows
        /\ \A k \in DOMAIN W1 : W1[k] = G1[k]
        /\ \A k \in DOMAIN W2 : W2[k] = G2[k]
    BY <1>10
  <2> HIDE DEF W1, W2
  <2>4. /\ N1 \in Seq(RowGroups) /\ DOMAIN N1 = DOMAIN groups[1] /\ Len(N1) = Len(groups[1])
        /\ N1[pre] = W1 /\ \A h \in DOMAIN groups[1] : h # pre => N1[h] = groups[1][h]
    BY <1>6, <1>7, <1>11
  <2>5. /\ N2 \in Seq(RowGroups) /\ DOMAIN N2 = DOMAIN groups[i] /\ Len(N2) = Len(groups[i])
        /\ N2[cur] = W2 /\ \A h \in DOMAIN groups[i] : h # cur => N2[h] = groups[i][h]
    BY <1>6, <1>7, <1>11
  <2> HIDE DEF N1, N2
  <2>6. /\ groups' \in Seq(Seq(RowGroups)) /\ DOMAIN groups' = DOMAIN groups
        /\ Len(groups') = Len(groups) /\ groups'[1] = N1 /\ groups'[i] = N2
        /\ \A d \in DOMAIN groups : d # 1 /\ d # i => groups'[d] = groups[d]
    <3>1. PICK M : M = [groups EXCEPT ![1] = N1]
      OBVIOUS
    <3>2. /\ M \in Seq(Seq(RowGroups)) /\ DOMAIN M = DOMAIN groups /\ Len(M) = Len(groups)
          /\ M[1] = N1 /\ \A d \in DOMAIN groups : d # 1 => M[d] = groups[d]
      BY <1>4, <1>5, <2>4, <3>1
    <3>3. groups' = [M EXCEPT ![i] = N2]
      BY <2>2, <3>1
    <3>4. /\ groups' \in Seq(Seq(RowGroups)) /\ DOMAIN groups' = DOMAIN M
          /\ Len(groups') = Len(M) /\ groups'[i] = N2
          /\ \A d \in DOMAIN M : d # i => groups'[d] = M[d]
      BY <1>5, <2>5, <3>2, <3>3
    <3>5. i # 1
      BY <1>5
    <3>6. QED
      BY <1>5, <3>2, <3>4, <3>5
  <2>7. Shrinks(1)
    <3>1. ASSUME NEW g \in DOMAIN groups[1]
          PROVE  /\ DOMAIN groups'[1][g] \subseteq DOMAIN groups[1][g]
                 /\ (DOMAIN groups[1][g]) \ rows \subseteq DOMAIN groups'[1][g]
                 /\ \A k \in DOMAIN groups'[1][g] : groups'[1][g][k] = groups[1][g][k]
      <4>1. CASE g = pre
        <5>1. groups'[1][g] = W1 /\ groups[1][g] = G1
          BY <2>4, <2>6, <4>1
        <5>2. QED
          BY <2>3, <5>1
      <4>2. CASE g # pre
        BY <2>4, <2>6, <4>2
      <4>3. QED
        BY <4>1, <4>2
    <3>2. QED
      BY <2>4, <2>6, <3>1
  <2>8. Shrinks(i)
    <3>1. ASSUME NEW g \in DOMAIN groups[i]
          PROVE  /\ DOMAIN groups'[i][g] \subseteq DOMAIN groups[i][g]
                 /\ (DOMAIN groups[i][g]) \ rows \subseteq DOMAIN groups'[i][g]
                 /\ \A k \in DOMAIN groups'[i][g] : groups'[i][g][k] = groups[i][g][k]
      <4>1. CASE g = cur
        <5>1. groups'[i][g] = W2 /\ groups[i][g] = G2
          BY <2>5, <2>6, <4>1
        <5>2. QED
          BY <2>3, <5>1
      <4>2. CASE g # cur
        BY <2>5, <2>6, <4>2
      <4>3. QED
        BY <4>1, <4>2
    <3>2. QED
      BY <2>5, <2>6, <3>1
  <2>9. \A d \in DOMAIN groups : Shrinks(d)
    <3>1. ASSUME NEW d \in DOMAIN groups, d # 1, d # i
          PROVE  Shrinks(d)
      BY <2>6, <3>1
    <3>2. QED
      BY <2>7, <2>8, <3>1
  <2>10. \A k \in rows : k \notin DOMAIN groups'[1][pre] /\ k \notin DOMAIN groups'[i][cur]
    BY <2>3, <2>4, <2>5, <2>6
  <2>11. QED
    BY <1>3, <1>5, <1>7, <1>9, <2>1, <2>6, <2>9, <2>10 DEF Combined
<1>14. QED
  BY <1>12, <1>13

(* The numbers of two elements more.                                       *)
LEMMA CountOfOneMore ==
  ASSUME NEW S, IsFiniteSet(S), NEW x, x \notin S, NEW n, Cardinality(S) * 2 = n
  PROVE  Cardinality(S \cup {x}) * 2 = n + 2
<1>1. Cardinality(S) \in Nat /\ Cardinality(S \cup {x}) = Cardinality(S) + 1
  BY FS_AddElement, FS_CardinalityType
<1>2. QED
  BY <1>1

(* A sequence and the same with two elements more.                         *)
TwoMore(s, t, a, b) ==
  /\ Len(s) \in Nat /\ DOMAIN s = 1 .. Len(s)
  /\ Len(t) = Len(s) + 2 /\ DOMAIN t = 1 .. (Len(s) + 2)
  /\ \A j \in 1 .. Len(s) : t[j] = s[j]
  /\ t[Len(s) + 1] = a /\ t[Len(s) + 2] = b

LEMMA TwoMoreIs ==
  ASSUME NEW T, NEW s \in Seq(T), NEW a \in T, NEW b \in T
  PROVE  s \o <<a, b>> \in Seq(T) /\ TwoMore(s, s \o <<a, b>>, a, b)
<1>1. /\ s \o <<a, b>> \in Seq(T) /\ Len(s) \in Nat /\ DOMAIN s = 1 .. Len(s)
      /\ Len(s \o <<a, b>>) = Len(s) + 2 /\ DOMAIN (s \o <<a, b>>) = 1 .. (Len(s) + 2)
  OBVIOUS
<1>2. /\ \A j \in 1 .. Len(s) : (s \o <<a, b>>)[j] = s[j]
      /\ (s \o <<a, b>>)[Len(s) + 1] = a /\ (s \o <<a, b>>)[Len(s) + 2] = b
  OBVIOUS
<1>3. QED
  BY <1>1, <1>2 DEF TwoMore

LEMMA CombineGroupsKeeps == DomainInv /\ CombineGroups => DomainInv'
<1> SUFFICES ASSUME DomainInv, CombineGroups
             PROVE  DomainInv'
  OBVIOUS
<1>0. PICK i, pre, cur, rows :
        /\ cursor[1] = i /\ cursor[2] = pre /\ cursor[3] = cur
        /\ rows = ConflictRows(groups[1][pre], groups[i][cur])
  OBVIOUS
<1>1. /\ pc = "combineDomain" /\ pc' = pc /\ UNCHANGED <<dataSet, input, domains, candidate>>
      /\ \/ cursor' = <<i, pre + 1, cur>>
         \/ cursor' = IF cur < Len(groups[i]) THEN <<i, pre, cur + 1>> ELSE WrapAround(i, pre)
  BY <1>0 DEF CombineGroups
<1>2. rules' = rules /\ original' = original /\ prob' = prob /\ UNCHANGED input
  BY <1>1 DEF input
<1>3. InputInv /\ InputInv' /\ Row' = Row /\ RowTuples' = RowTuples /\ RowGroups' = RowGroups
  BY <1>2, Frame DEF DomainInv
<1>4. /\ 1 \in DOMAIN groups /\ i \in DOMAIN groups /\ i >= 2 /\ i \in Nat
      /\ cursor = <<i, pre, cur>>
      /\ pre \in DOMAIN groups[1] /\ cur \in DOMAIN groups[i]
      /\ rows \in SUBSET (DOMAIN groups[1][pre] \cap DOMAIN groups[i][cur])
      /\ groups' \in Seq(Seq(RowGroups))
      /\ DOMAIN groups' = DOMAIN groups /\ Len(groups') = Len(groups)
      /\ \A d \in DOMAIN groups :
           /\ Len(groups'[d]) = Len(groups[d]) /\ DOMAIN groups'[d] = DOMAIN groups[d]
           /\ \A g \in DOMAIN groups[d] :
                /\ DOMAIN groups'[d][g] \subseteq DOMAIN groups[d][g]
                /\ (DOMAIN groups[d][g]) \ rows \subseteq DOMAIN groups'[d][g]
                /\ \A k \in DOMAIN groups'[d][g] : groups'[d][g][k] = groups[d][g][k]
      /\ \A k \in rows : k \notin DOMAIN groups'[1][pre] /\ k \notin DOMAIN groups'[i][cur]
      /\ conflicts' = [k \in Row |->
           IF k \in rows THEN conflicts[k] \o Record(i, groups[1][pre][k], groups[i][cur][k])
           ELSE conflicts[k]]
  <2>1. Combined(i, pre, cur, rows)
    BY <1>0, CombineShape
  <2>2. QED
    BY <2>1 DEF Combined
<1>5. /\ groups \in Seq(Seq(RowGroups)) /\ Len(groups) \in Nat /\ Len(groups) > 1
      /\ DOMAIN groups = 1 .. Len(groups)
      /\ \A d \in DOMAIN groups : /\ groups[d] \in Seq(RowGroups) /\ groups[d] # <<>>
                                  /\ Len(groups[d]) \in Nat /\ DOMAIN groups[d] = 1 .. Len(groups[d])
      /\ \A d \in DOMAIN groups : \A g \in DOMAIN groups[d] : groups[d][g] \in RowGroups
      /\ domains \in Seq([Row -> RowTuples]) /\ dataSet = original
      /\ dataSet \in [Row -> [Attr -> Value]]
  <2>1. groups \in Seq(Seq(RowGroups)) /\ \A d \in DOMAIN groups : groups[d] # <<>>
    BY DEF DomainInv, ShapeInv
  <2>2. /\ \A d \in DOMAIN groups : groups[d] \in Seq(RowGroups)
        /\ Len(groups) \in Nat /\ DOMAIN groups = 1 .. Len(groups)
    BY <2>1
  <2>3. \A d \in DOMAIN groups : \A g \in DOMAIN groups[d] : groups[d][g] \in RowGroups
    BY <2>2
  <2>4. Len(groups) > 1
    BY <1>1 DEF DomainInv, CursorInv
  <2>5. /\ domains \in Seq([Row -> RowTuples]) /\ dataSet = original
        /\ dataSet \in [Row -> [Attr -> Value]]
    BY <1>1 DEF DomainInv, ShapeInv
  <2>6. QED
    BY <2>1, <2>2, <2>3, <2>4, <2>5
<1>6. PICK of \in [DOMAIN groups -> DOMAIN rules] : RuleOf(of)
  BY DEF DomainInv, ListInv
<1>7. ShapeInv'
  <2>1. \A d \in DOMAIN groups' : groups'[d] # <<>>
    <3> SUFFICES ASSUME NEW d \in DOMAIN groups
                 PROVE  groups'[d] # <<>>
      BY <1>4
    <3>1. Len(groups[d]) # 0 /\ Len(groups'[d]) = Len(groups[d])
      BY <1>4, <1>5
    <3>2. QED
      BY <3>1
  <2>2. QED
    BY <1>1, <1>2, <1>3, <1>4, <1>5, <2>1 DEF DomainInv, ShapeInv
<1>8. ListInv'
  <2>1. of \in [DOMAIN groups' -> DOMAIN rules']
    BY <1>2, <1>4, <1>6
  <2>2. ASSUME NEW c \in DOMAIN groups'
        PROVE  OfRule(c, of[c])'
    <3>1. ASSUME NEW h \in DOMAIN groups'[c], NEW k \in DOMAIN groups'[c][h]
          PROVE  Stands(groups'[c][h][k], of[c], k)
      <4>1. c \in DOMAIN groups /\ h \in DOMAIN groups[c] /\ k \in DOMAIN groups[c][h]
            /\ groups'[c][h][k] = groups[c][h][k]
        BY <1>4
      <4>2. QED
        BY <1>6, <4>1 DEF RuleOf, OfRule
    <3>2. \A t, r, k : Stands(t, r, k)' <=> Stands(t, r, k)
      BY <1>2, Frame
    <3>3. QED
      BY <3>1, <3>2 DEF OfRule
  <2>3. RuleOf(of)'
    BY <1>2, <1>4, <1>6, <2>1, <2>2 DEF RuleOf
  <2>4. \A c \in DOMAIN groups' : \A h, j \in DOMAIN groups'[c] :
          h # j => DOMAIN groups'[c][h] \cap DOMAIN groups'[c][j] = {}
    <3>1. \A c \in DOMAIN groups : \A h, j \in DOMAIN groups[c] :
            h # j => DOMAIN groups[c][h] \cap DOMAIN groups[c][j] = {}
      BY DEF DomainInv, ListInv
    <3>2. QED
      BY <1>4, <3>1
  <2>5. Len(groups') = Len(rules') =>
          \A d \in DOMAIN domains' : \A k \in Row' : domains'[d][k].rule = d
    BY <1>1, <1>2, <1>3, <1>4 DEF DomainInv, ListInv
  <2>6. QED
    BY <2>1, <2>3, <2>4, <2>5 DEF ListInv
<1>9. CursorInv'
  <2>1. /\ i \in 2 .. (Len(groups') + 1)
        /\ pre \in 1 .. (Len(groups'[1]) + 1) /\ pre + 1 \in 1 .. (Len(groups'[1]) + 1)
        /\ cur \in Nat \ {0} /\ cur + 1 \in Nat \ {0} /\ 1 \in Nat \ {0}
        /\ cur \in DOMAIN groups'[i] /\ 1 \in DOMAIN groups'[i]
        /\ cur < Len(groups[i]) => cur + 1 \in DOMAIN groups'[i]
    <3>1. PICK m \in Nat, n \in Nat : m = Len(groups[1]) /\ n = Len(groups[i])
      BY <1>4, <1>5
    <3>2. /\ pre \in 1 .. m /\ cur \in 1 .. n /\ DOMAIN groups'[i] = 1 .. n
          /\ Len(groups'[1]) = m
      BY <1>4, <1>5, <3>1
    <3>3. i \in 2 .. (Len(groups') + 1)
      BY <1>4, <1>5
    <3>4. QED
      BY <3>1, <3>2, <3>3
  <2>2. \E p \in 1 .. (Len(groups'[1]) + 1), c \in Nat \ {0} :
          cursor' = <<i, p, c>> /\ (i \in DOMAIN groups' => c \in DOMAIN groups'[i])
    <3>1. \/ cursor' = <<i, pre + 1, cur>>
          \/ cur < Len(groups[i]) /\ cursor' = <<i, pre, cur + 1>>
          \/ cursor' = <<i, pre + 1, 1>>
      BY <1>1 DEF WrapAround
    <3>2. QED
      BY <2>1, <3>1
  <2>3. QED
    BY <1>1, <1>4, <1>5, <2>1, <2>2 DEF CursorInv
<1>10. GroupInv'
  <2>1. ASSUME NEW d \in DOMAIN groups', NEW g \in DOMAIN groups'[d]
        PROVE  IsCorrected(groups[d][g])'
    <3>1. PICK G, H : G = groups[d][g] /\ H = groups'[d][g]
      OBVIOUS
    <3>2. /\ d \in DOMAIN groups /\ g \in DOMAIN groups[d]
          /\ DOMAIN H \subseteq DOMAIN G /\ \A k \in DOMAIN H : H[k] = G[k]
      BY <1>4, <3>1
    <3>3. IsCorrected(G)
      BY <1>1, <3>1, <3>2 DEF DomainInv, GroupInv, GroupsCorrected, Corrected
    <3>4. IsCorrected(H)
      BY <3>2, <3>3, SomeCorrected
    <3>5. IsCorrected(H)'
      BY <1>2, <3>4, Frame
    <3>6. QED
      BY <3>1, <3>5
  <2>2. QED
    BY <1>1, <2>1 DEF GroupInv, GroupsCorrected
<1>11. ASSUME NEW k \in rows
       PROVE  /\ k \in Row
              /\ Stands(groups[1][pre][k], of[1], k) /\ Stands(groups[i][cur][k], of[i], k)
              /\ of[1] \in DOMAIN rules /\ of[i] \in DOMAIN rules /\ of[1] # of[i]
              /\ \A d \in {1, i} : \A g \in DOMAIN groups'[d] : k \notin DOMAIN groups'[d][g]
  <2>1. k \in DOMAIN groups[1][pre] /\ k \in DOMAIN groups[i][cur]
    BY <1>4
  <2>2. k \in Row
    <3>1. groups[1][pre] \in RowGroups
      BY <1>4, <1>5
    <3>2. QED
      BY <2>1, <3>1 DEF RowGroups
  <2>3. Stands(groups[1][pre][k], of[1], k) /\ Stands(groups[i][cur][k], of[i], k)
    BY <1>4, <1>6, <2>1 DEF RuleOf, OfRule
  <2>4. of[1] # of[i] /\ of[1] \in DOMAIN rules /\ of[i] \in DOMAIN rules
    <3>1. 1 # i /\ 1 \in DOMAIN groups /\ i \in DOMAIN groups
      BY <1>4
    <3>2. \A c, d \in DOMAIN groups : of[c] = of[d] => c = d
      BY <1>6 DEF RuleOf
    <3>3. QED
      BY <1>6, <3>1, <3>2
  <2>5. ASSUME NEW d \in {1, i}, NEW g \in DOMAIN groups'[d]
        PROVE  k \notin DOMAIN groups'[d][g]
    <3>1. PICK h \in DOMAIN groups[d] : k \in DOMAIN groups[d][h] /\ k \notin DOMAIN groups'[d][h]
      BY <1>4, <2>1
    <3>2. g \in DOMAIN groups[d] /\ d \in DOMAIN groups
      BY <1>4
    <3>3. g # h => DOMAIN groups[d][g] \cap DOMAIN groups[d][h] = {}
      BY <3>1, <3>2 DEF DomainInv, ListInv
    <3>4. QED
      BY <1>4, <3>1, <3>2, <3>3
  <2>6. QED
    BY <2>2, <2>3, <2>4, <2>5
<1>12. NoShared \/ IsClean => rows = {}
  <2> SUFFICES ASSUME NoShared \/ IsClean, NEW k \in rows
               PROVE  FALSE
    OBVIOUS
  <2>1. Conflicting(groups[1][pre][k], groups[i][cur][k])
    BY <1>0 DEF ConflictRows
  <2>2. QED
    BY <1>3, <1>11, <2>1, NoConflict
<1>13. /\ conflicts \in [Row -> Seq([tuple : RowTuples, domainID : DOMAIN groups])]
       /\ (\A k \in Row : Len(conflicts[k]) % 2 = 0) /\ TakenOut /\ ConflictDomain
  BY DEF DomainInv, ConflictInv
<1> DEFINE first(k) == [tuple |-> groups[1][pre][k], domainID |-> i - 1]
           second(k) == [tuple |-> groups[i][cur][k], domainID |-> i]
           T == [tuple : RowTuples, domainID : DOMAIN groups]
<1>14. ASSUME NEW k \in Row
       PROVE  /\ k \notin rows => conflicts'[k] = conflicts[k]
              /\ k \in rows => /\ TwoMore(conflicts[k], conflicts'[k], first(k), second(k))
                               /\ first(k).tuple.rule = of[1] /\ second(k).tuple.rule = of[i]
              /\ conflicts[k] \in Seq(T) /\ conflicts'[k] \in Seq(T)
  <2>1. conflicts[k] \in Seq(T)
    BY <1>13
  <2>2. CASE k \notin rows
    BY <1>4, <2>1, <2>2
  <2>3. CASE k \in rows
    <3>1. conflicts'[k] = conflicts[k] \o <<first(k), second(k)>>
      BY <1>4, <2>3 DEF Record, FirstID
    <3>2. /\ groups[1][pre][k] \in RowTuples /\ groups[1][pre][k].rule = of[1]
          /\ groups[i][cur][k] \in RowTuples /\ groups[i][cur][k].rule = of[i]
      BY <1>3, <1>11, <2>3, StandsFacts
    <3>3. i - 1 \in DOMAIN groups
      BY <1>4, <1>5
    <3>4. first(k) \in T /\ second(k) \in T
      BY <1>4, <3>2, <3>3
    <3>5. first(k).tuple.rule = of[1] /\ second(k).tuple.rule = of[i]
      BY <3>2
    <3> HIDE DEF first, second, T
    <3>6. conflicts'[k] \in Seq(T) /\ TwoMore(conflicts[k], conflicts'[k], first(k), second(k))
      BY <2>1, <3>1, <3>4, TwoMoreIs
    <3>7. QED
      BY <2>1, <2>3, <3>5, <3>6
  <2>4. QED
    BY <2>2, <2>3
<1>f. \A k : first(k).domainID = i - 1 /\ second(k).domainID = i
  OBVIOUS
<1>t. \A x \in T : x.domainID \in DOMAIN groups
  OBVIOUS
<1> HIDE DEF first, second, T
<1>15. TakenOut'
  <2> SUFFICES ASSUME NEW k \in Row, NEW j \in DOMAIN conflicts'[k],
                      NEW d \in {1, conflicts'[k][j].domainID}, d = 1 \/ j % 2 = 0,
                      NEW g \in DOMAIN groups'[d]
               PROVE  k \notin DOMAIN groups'[d][g]
    BY <1>3 DEF TakenOut
  <2>1. ASSUME j \in DOMAIN conflicts[k], conflicts'[k][j] = conflicts[k][j]
        PROVE  k \notin DOMAIN groups'[d][g]
    <3>1. conflicts[k][j] \in T
      BY <1>14, <2>1
    <3>2. d \in {1, conflicts[k][j].domainID}
      BY <2>1
    <3>3. d \in DOMAIN groups
      BY <1>4, <1>t, <3>1, <3>2
    <3>4. g \in DOMAIN groups[d] /\ DOMAIN groups'[d][g] \subseteq DOMAIN groups[d][g]
      BY <1>4, <3>3
    <3>5. k \notin DOMAIN groups[d][g]
      BY <1>13, <2>1, <3>2, <3>4 DEF TakenOut
    <3>6. QED
      BY <3>4, <3>5
  <2>2. CASE k \notin rows
    BY <1>14, <2>1, <2>2
  <2>3. CASE k \in rows
    <3>0. TwoMore(conflicts[k], conflicts'[k], first(k), second(k))
      BY <1>14, <2>3
    <3>1. PICK n \in Nat : n = Len(conflicts[k])
      BY <3>0 DEF TwoMore
    <3>m. n % 2 = 0
      BY <1>13, <3>1
    <3>a. /\ DOMAIN conflicts[k] = 1 .. n /\ DOMAIN conflicts'[k] = 1 .. (n + 2)
          /\ \A l \in 1 .. n : conflicts'[k][l] = conflicts[k][l]
          /\ conflicts'[k][n + 2] = second(k)
      BY <3>0, <3>1 DEF TwoMore
    <3>2. j \in Nat /\ (j \in 1 .. n \/ j = n + 1 \/ j = n + 2)
      BY <3>a
    <3>3. CASE j \in 1 .. n
      BY <2>1, <3>a, <3>3
    <3>4. CASE j = n + 1
      <4>0. (n + 1) % 2 # 0
        BY <3>m
      <4>1. d = 1
        BY <3>4, <4>0
      <4>2. QED
        BY <1>11, <2>3, <4>1
    <3>5. CASE j = n + 2
      <4>1. conflicts'[k][j].domainID = i
        BY <1>f, <3>a, <3>5
      <4>2. d \in {1, i}
        BY <4>1
      <4>3. QED
        BY <1>11, <2>3, <4>2
    <3>6. QED
      BY <3>2, <3>3, <3>4, <3>5
  <2>4. QED
    BY <2>2, <2>3
<1>16. ConflictDomain'
  <2> SUFFICES ASSUME Len(groups) = Len(rules), Len(rules) = 2, NEW k \in Row
               PROVE  /\ \A j \in DOMAIN conflicts'[k] :
                           conflicts'[k][j].domainID = conflicts'[k][j].tuple.rule
                      /\ \A r \in {1, 2} :
                           Cardinality({j \in DOMAIN conflicts'[k] : conflicts'[k][j].domainID = r}) * 2
                             = Len(conflicts'[k])
    BY <1>2, <1>3, <1>4 DEF ConflictDomain
  <2>1. /\ \A j \in DOMAIN conflicts[k] :
             conflicts[k][j].domainID = conflicts[k][j].tuple.rule
        /\ \A r \in {1, 2} :
             Cardinality({j \in DOMAIN conflicts[k] : conflicts[k][j].domainID = r}) * 2
               = Len(conflicts[k])
    BY <1>13 DEF ConflictDomain
  <2>2. CASE k \notin rows
    <3>1. conflicts'[k] = conflicts[k]
      BY <1>14, <2>2
    <3>2. QED
      BY <2>1, <3>1
  <2>3. CASE k \in rows
    <3>0. TwoMore(conflicts[k], conflicts'[k], first(k), second(k))
      BY <1>14, <2>3
    <3>i. i = 2
      <4>1. Len(groups) = 2
        OBVIOUS
      <4>2. i \in 1 .. 2 /\ i >= 2
        BY <1>4, <1>5, <4>1
      <4>3. QED
        BY <4>2
    <3>1. of[1] = 1 /\ of[i] = 2
      BY <1>4, <1>6, <3>i DEF RuleOf
    <3>2. /\ first(k).tuple.rule = 1 /\ second(k).tuple.rule = 2
          /\ first(k).domainID = 1 /\ second(k).domainID = 2
      BY <1>14, <1>f, <2>3, <3>i, <3>1
    <3>3. PICK n \in Nat : n = Len(conflicts[k])
      BY <3>0 DEF TwoMore
    <3>4. /\ DOMAIN conflicts[k] = 1 .. n /\ DOMAIN conflicts'[k] = 1 .. (n + 2)
          /\ \A j \in 1 .. n : conflicts'[k][j] = conflicts[k][j]
          /\ conflicts'[k][n + 1].domainID = 1 /\ conflicts'[k][n + 1].tuple.rule = 1
          /\ conflicts'[k][n + 2].domainID = 2 /\ conflicts'[k][n + 2].tuple.rule = 2
          /\ Len(conflicts'[k]) = n + 2
      BY <3>0, <3>2, <3>3 DEF TwoMore
    <3>5. \A j \in 1 .. (n + 2) : j \in 1 .. n \/ j = n + 1 \/ j = n + 2
      OBVIOUS
    <3>6. \A j \in DOMAIN conflicts'[k] :
            conflicts'[k][j].domainID = conflicts'[k][j].tuple.rule
      BY <2>1, <3>4, <3>5
    <3> DEFINE old(r) == {j \in DOMAIN conflicts[k] : conflicts[k][j].domainID = r}
               new(r) == {j \in DOMAIN conflicts'[k] : conflicts'[k][j].domainID = r}
    <3>7. ASSUME NEW r \in {1, 2}
          PROVE  /\ IsFiniteSet(old(r)) /\ n + r \notin old(r)
                 /\ new(r) = old(r) \cup {n + r}
                 /\ Cardinality(old(r)) * 2 = n
      <4>1. IsFiniteSet(1 .. n)
        BY FS_Interval
      <4>2. old(r) \in SUBSET (1 .. n)
        BY <3>4
      <4>3. IsFiniteSet(old(r)) /\ n + r \notin old(r)
        BY <4>1, <4>2, FS_Subset
      <4>4. n + 1 \in 1 .. (n + 2) /\ n + 2 \in 1 .. (n + 2) /\ 1 .. n \subseteq 1 .. (n + 2)
        OBVIOUS
      <4>5. CASE r = 1
        <5>1. n + 1 # n + 2 /\ n + r = n + 1
          BY <4>5
        <5>2. new(r) = old(r) \cup {n + 1}
          BY <3>4, <3>5, <4>4, <4>5
        <5>3. QED
          BY <2>1, <3>3, <4>3, <5>1, <5>2
      <4>6. CASE r = 2
        <5>1. n + 1 # n + 2 /\ n + r = n + 2
          BY <4>6
        <5>2. new(r) = old(r) \cup {n + 2}
          BY <3>4, <3>5, <4>4, <4>6
        <5>3. QED
          BY <2>1, <3>3, <4>3, <5>1, <5>2
      <4>7. QED
        BY <4>5, <4>6
    <3>8. ASSUME NEW r \in {1, 2}
          PROVE  Cardinality(new(r)) * 2 = n + 2
      <4>1. PICK S, x : S = old(r) /\ x = n + r
        OBVIOUS
      <4>2. IsFiniteSet(S) /\ x \notin S /\ Cardinality(S) * 2 = n /\ new(r) = S \cup {x}
        BY <3>7, <4>1
      <4> HIDE DEF new
      <4>3. Cardinality(S \cup {x}) * 2 = n + 2
        BY <4>2, CountOfOneMore
      <4>4. QED
        BY <4>2, <4>3
    <3>9. QED
      BY <3>4, <3>6, <3>8
  <2>4. QED
    BY <2>2, <2>3
<1>17. ConflictInv'
  <2>1. \A k \in Row : conflicts'[k] \in Seq(T) /\ Len(conflicts'[k]) % 2 = 0
    <3> SUFFICES ASSUME NEW k \in Row
                 PROVE  Len(conflicts'[k]) % 2 = 0
      BY <1>14
    <3>1. CASE k \notin rows
      BY <1>13, <1>14, <3>1
    <3>2. CASE k \in rows
      <4>0. TwoMore(conflicts[k], conflicts'[k], first(k), second(k))
        BY <1>14, <3>2
      <4>1. PICK n \in Nat : n = Len(conflicts[k]) /\ Len(conflicts'[k]) = n + 2
        BY <4>0 DEF TwoMore
      <4>2. n % 2 = 0
        BY <1>13, <4>1
      <4>3. (n + 2) % 2 = 0
        BY <4>2
      <4>4. QED
        BY <4>1, <4>3
    <3>3. QED
      BY <3>1, <3>2
  <2>2. conflicts' \in [Row -> Seq([tuple : RowTuples, domainID : DOMAIN groups])]
    <3>1. DOMAIN conflicts' = Row /\ conflicts' = [k \in Row |-> conflicts'[k]]
      BY <1>4
    <3>2. QED
      BY <2>1, <3>1 DEF T
  <2>3. QED
    BY <1>1, <1>3, <1>4, <1>5, <1>15, <1>16, <2>1, <2>2 DEF ConflictInv, T
<1>18. PeaceInv'
  <2>1. NoShared \/ IsClean => \A k \in Row : conflicts'[k] = <<>>
    BY <1>12, <1>14 DEF DomainInv, PeaceInv
  <2>2. (NoShared' <=> NoShared) /\ (IsClean' <=> IsClean)
    BY <1>2, Frame
  <2>3. QED
    BY <1>1, <1>3, <2>1, <2>2 DEF PeaceInv, FailsOnlyCovered
<1>19. CandidateInv'
  BY <1>1, Frame DEF DomainInv, CandidateInv
<1>20. ResultInv'
  <2>1. Repairable' => Repairable
    BY <1>2, <1>4, Frame DEF Repairable
  <2>2. ASSUME Repairable', NEW r \in DOMAIN rules, NEW k \in Row, NEW m \in Row,
               k # m, SameReason(r, k, m)
        PROVE  \E h \in DOMAIN groups'[r] : k \in DOMAIN groups'[r][h] /\ m \in DOMAIN groups'[r][h]
    <3>1. PICK h \in DOMAIN groups[r] : k \in DOMAIN groups[r][h] /\ m \in DOMAIN groups[r][h]
      BY <1>1, <2>1, <2>2 DEF DomainInv, ResultInv
    <3>2. r \in DOMAIN groups
      BY <1>3, <1>5, <2>1, <2>2 DEF Repairable, InputInv
    <3>3. rows = {}
      BY <1>12, <2>1, <2>2 DEF Repairable
    <3>4. QED
      BY <1>4, <3>1, <3>2, <3>3
  <2>3. \A r, k, m : SameReason(r, k, m)' <=> SameReason(r, k, m)
    BY <1>2, Frame
  <2>4. NoInventedValues' /\ CleanDataKept'
    BY <1>1, <1>3, ValuesKept DEF DomainInv, ResultInv
  <2>5. QED
    BY <1>1, <1>2, <1>3, <2>2, <2>3, <2>4 DEF ResultInv
<1>21. QED
  BY <1>3, <1>7, <1>8, <1>9, <1>10, <1>17, <1>18, <1>19, <1>20 DEF DomainInv

-----------------------------------------------------------------------------
LEMMA SameTuple ==
  ASSUME InputInv, NEW r \in DOMAIN rules, NEW k \in Row, NEW m \in Row,
         RowTuple(r, original[k]) = RowTuple(r, original[m]), NEW a \in Columns(rules[r])
  PROVE  original[k][a] = original[m][a]
<1>1. PICK i \in DOMAIN AttrIndex(r) : AttrIndex(r)[i] = a
  <2>1. Columns(rules[r]) = {AttrIndex(r)[i] : i \in DOMAIN AttrIndex(r)}
    BY RuleTypes
  <2>2. QED
    BY <2>1
<1>2. /\ RowTuple(r, original[k]).ctx[i] = original[k][a]
      /\ RowTuple(r, original[m]).ctx[i] = original[m][a]
  BY <1>1, RowTupleIs
<1>3. QED
  BY <1>2

LEMMA ColumnsAre ==
  ASSUME InputInv, NEW r \in DOMAIN rules
  PROVE  /\ Columns(rules[r]) \in SUBSET Attr
         /\ \A a \in Columns(rules[r]) : a \notin Ignored
         /\ \A i \in DOMAIN rules[r].reason : rules[r].reason[i] \in Columns(rules[r])
         /\ \A i \in DOMAIN rules[r].result : rules[r].result[i] \in Columns(rules[r])
<1> DEFINE s == rules[r].reason
           u == rules[r].result
<1>1. /\ AttrIndex(r) \in Seq(Attr) /\ DOMAIN AttrIndex(r) = 1 .. Len(AttrIndex(r))
      /\ s \in Seq(Attr) /\ u \in Seq(Attr) /\ Len(s) \in Nat /\ Len(u) \in Nat
      /\ Len(AttrIndex(r)) = Len(s) + Len(u)
      /\ \A i \in DOMAIN s : AttrIndex(r)[i] = s[i]
      /\ \A i \in DOMAIN u : AttrIndex(r)[Len(s) + i] = u[i]
      /\ Columns(rules[r]) = {AttrIndex(r)[i] : i \in DOMAIN AttrIndex(r)}
  BY RuleTypes
<1>2. Columns(rules[r]) \in SUBSET Attr
  <2>1. \A q \in Seq(Attr) : \A i \in DOMAIN q : q[i] \in Attr
    OBVIOUS
  <2>2. AttrIndex(r) \in Seq(Attr)
    BY <1>1
  <2>3. \A i \in DOMAIN AttrIndex(r) : AttrIndex(r)[i] \in Attr
    BY <2>1, <2>2
  <2>4. QED
    BY <1>1, <2>3
<1>3. ASSUME NEW a \in Columns(rules[r])
      PROVE  a \notin Ignored
  <2>1. Contains(AttrIndex(r), a)
    BY <1>1 DEF Contains
  <2>2. QED
    BY <2>1 DEF Ignored
<1> HIDE DEF s, u
<1>4. \A i \in DOMAIN s : i \in DOMAIN AttrIndex(r)
  BY <1>1
<1>5. \A i \in DOMAIN u : Len(s) + i \in DOMAIN AttrIndex(r)
  <2> SUFFICES ASSUME NEW i \in DOMAIN u
               PROVE  Len(s) + i \in DOMAIN AttrIndex(r)
    OBVIOUS
  <2>1. i \in 1 .. Len(u)
    BY <1>1
  <2>2. PICK m \in Nat, n \in Nat : m = Len(s) /\ n = Len(u)
    BY <1>1
  <2>3. m + i \in 1 .. (m + n)
    BY <2>1, <2>2
  <2>4. QED
    BY <1>1, <2>2, <2>3
<1>6. /\ \A i \in DOMAIN s : s[i] \in Columns(rules[r])
      /\ \A i \in DOMAIN u : u[i] \in Columns(rules[r])
  <2>1. \A i \in DOMAIN s : s[i] \in Columns(rules[r])
    BY <1>1, <1>4
  <2>2. ASSUME NEW i \in DOMAIN u
        PROVE  u[i] \in Columns(rules[r])
    <3>1. PICK j \in DOMAIN AttrIndex(r) : j = Len(s) + i
      BY <1>5
    <3>2. u[i] = AttrIndex(r)[j]
      BY <1>1, <3>1
    <3>3. QED
      BY <1>1, <3>2
  <2>3. QED
    BY <2>1, <2>2
<1>7. QED
  BY <1>2, <1>3, <1>6 DEF s, u

(* A row has one tuple in a list of groups, and that stands for it.        *)
LEMMA GroupedTupleIs ==
  ASSUME ListInv, NEW of, RuleOf(of), NEW d \in DOMAIN groups, NEW k, Grouped(d, k)
  PROVE  /\ Stands(GroupedTuple(d, k), of[d], k)
         /\ \A g \in DOMAIN groups[d] : k \in DOMAIN groups[d][g] =>
              GroupedTuple(d, k) = groups[d][g][k]
<1>1. PICK h : h = CHOOSE g \in DOMAIN groups[d] : k \in DOMAIN groups[d][g]
  OBVIOUS
<1>2. h \in DOMAIN groups[d] /\ k \in DOMAIN groups[d][h]
  BY <1>1 DEF Grouped
<1>3. GroupedTuple(d, k) = groups[d][h][k]
  BY <1>1 DEF GroupedTuple
<1>4. ASSUME NEW g \in DOMAIN groups[d], k \in DOMAIN groups[d][g]
      PROVE  g = h
  <2>1. g # h => DOMAIN groups[d][g] \cap DOMAIN groups[d][h] = {}
    BY <1>2 DEF ListInv
  <2>2. QED
    BY <1>2, <1>4, <2>1
<1>5. Stands(groups[d][h][k], of[d], k)
  BY <1>2 DEF RuleOf, OfRule
<1>6. QED
  BY <1>3, <1>4, <1>5

(* What a tuple of a row writes to a column of its rule: the row's value.  *)
LEMMA OverwriteIs ==
  ASSUME InputInv, NEW r \in DOMAIN rules, NEW m \in Row, NEW row, NEW a \in Attr
  PROVE  /\ Places(RowTuple(r, original[m]), a) # {} <=> a \in Columns(rules[r])
         /\ Places(RowTuple(r, original[m]), a) # {} =>
              Overwrite(row, RowTuple(r, original[m]))[a] = original[m][a]
<1>0. PICK t : t = RowTuple(r, original[m])
  OBVIOUS
<1>1. /\ t.idx = AttrIndex(r)
      /\ \A i \in DOMAIN AttrIndex(r) : t.ctx[i] = original[m][AttrIndex(r)[i]]
  BY <1>0, RowTupleIs
<1>2. /\ AttrIndex(r) \in Seq(Attr) /\ DOMAIN AttrIndex(r) = 1 .. Len(AttrIndex(r))
      /\ Columns(rules[r]) = {AttrIndex(r)[i] : i \in DOMAIN AttrIndex(r)}
  BY RuleTypes
<1>3. Places(t, a) = {i \in DOMAIN AttrIndex(r) : AttrIndex(r)[i] = a}
  BY <1>1 DEF Places, Column
<1>4. Places(t, a) # {} <=> a \in Columns(rules[r])
  BY <1>2, <1>3
<1>5. ASSUME Places(t, a) # {}
      PROVE  Overwrite(row, t)[a] = original[m][a]
  <2>1. Overwrite(row, t)[a] = t.ctx[LastOf(Places(t, a))]
    BY <1>5 DEF Overwrite
  <2>2. Len(AttrIndex(r)) \in Nat /\ Places(t, a) \in SUBSET (1 .. Len(AttrIndex(r)))
    BY <1>2, <1>3
  <2>3. LastOf(Places(t, a)) \in Places(t, a)
    BY <1>5, <2>2, LastOfIs
  <2>4. QED
    BY <1>1, <1>3, <2>1, <2>3
<1>6. QED
  BY <1>0, <1>4, <1>5

(* Where a cell's value comes from when the groups have been written back.  *)
Kept(of, k, a) ==
  /\ dataSet'[k][a] = original[k][a]
  /\ \A d \in DOMAIN groups : Grouped(d, k) => a \notin Columns(rules[of[d]])

WrittenBy(of, k, a, d, m) ==
  /\ Grouped(d, k) /\ GroupedTuple(d, k) = RowTuple(of[d], original[m])
  /\ SameReason(of[d], k, m)
  /\ a \in Columns(rules[of[d]])
  /\ dataSet'[k][a] = original[m][a]

LEMMA Written ==
  ASSUME DomainInv, WriteBack, NEW of, of \in [DOMAIN groups -> DOMAIN rules], RuleOf(of),
         NEW k \in Row, NEW a \in Attr
  PROVE  Kept(of, k, a) \/ \E d \in DOMAIN groups, m \in Row : WrittenBy(of, k, a, d, m)
<1> DEFINE W == {d \in DOMAIN groups : Grouped(d, k) /\ Places(GroupedTuple(d, k), a) # {}}
<1>1. /\ pc = "combineDomain"
      /\ dataSet'[k][a] = IF W = {} THEN dataSet[k][a]
                          ELSE Overwrite(dataSet[k], GroupedTuple(LastOf(W), k))[a]
  BY DEF WriteBack
<1>2. InputInv /\ ListInv /\ dataSet = original /\ groups \in Seq(Seq(RowGroups))
  BY <1>1 DEF DomainInv, ShapeInv
<1>3. ASSUME NEW d \in DOMAIN groups, Grouped(d, k)
      PROVE  \E m \in Row : /\ GroupedTuple(d, k) = RowTuple(of[d], original[m])
                            /\ SameReason(of[d], k, m) /\ of[d] \in DOMAIN rules
  <2>1. Stands(GroupedTuple(d, k), of[d], k)
    BY <1>2, <1>3, GroupedTupleIs
  <2>2. QED
    BY <2>1 DEF Stands
<1>4. CASE W = {}
  <2>1. dataSet'[k][a] = original[k][a]
    BY <1>1, <1>2, <1>4
  <2>2. ASSUME NEW d \in DOMAIN groups, Grouped(d, k)
        PROVE  a \notin Columns(rules[of[d]])
    <3>1. PICK m \in Row : /\ GroupedTuple(d, k) = RowTuple(of[d], original[m])
                           /\ of[d] \in DOMAIN rules
      BY <1>3, <2>2
    <3>2. Places(GroupedTuple(d, k), a) = {}
      BY <1>4, <2>2
    <3>3. QED
      BY <1>2, <3>1, <3>2, OverwriteIs
  <2>3. QED
    BY <2>1, <2>2 DEF Kept
<1>5. CASE W # {}
  <2>1. Len(groups) \in Nat /\ W \in SUBSET (1 .. Len(groups))
    <3>1. Len(groups) \in Nat /\ DOMAIN groups = 1 .. Len(groups)
      BY <1>2
    <3>2. QED
      BY <3>1
  <2>2. PICK d : d = LastOf(W)
    OBVIOUS
  <2>3. d \in W
    <3> HIDE DEF W
    <3>1. QED
      BY <1>5, <2>1, <2>2, LastOfIs
  <2>4. /\ d \in DOMAIN groups /\ Grouped(d, k) /\ Places(GroupedTuple(d, k), a) # {}
        /\ dataSet'[k][a] = Overwrite(dataSet[k], GroupedTuple(d, k))[a]
    BY <1>1, <1>5, <2>2, <2>3
  <2>5. PICK m \in Row : /\ GroupedTuple(d, k) = RowTuple(of[d], original[m])
                         /\ SameReason(of[d], k, m) /\ of[d] \in DOMAIN rules
    BY <1>3, <2>4
  <2>6. a \in Columns(rules[of[d]]) /\ dataSet'[k][a] = original[m][a]
    <3>1. PICK t, row, r : t = GroupedTuple(d, k) /\ row = dataSet[k] /\ r = of[d]
      OBVIOUS
    <3>2. t = RowTuple(r, original[m]) /\ r \in DOMAIN rules /\ Places(t, a) # {}
      BY <2>4, <2>5, <3>1
    <3>a. InputInv
      BY <1>2
    <3>b. /\ Places(RowTuple(r, original[m]), a) # {} <=> a \in Columns(rules[r])
          /\ Places(RowTuple(r, original[m]), a) # {} =>
               Overwrite(row, RowTuple(r, original[m]))[a] = original[m][a]
      BY <3>2, <3>a, OverwriteIs
    <3>3. a \in Columns(rules[r]) /\ Overwrite(row, t)[a] = original[m][a]
      BY <3>2, <3>b
    <3>4. QED
      BY <2>4, <3>1, <3>3
  <2>7. QED
    BY <2>4, <2>5, <2>6 DEF WrittenBy
<1>6. QED
  BY <1>4, <1>5

(* Where no two rules share a column, only a rule's own groups write to its *)
(* columns.                                                                *)
LEMMA WrittenAlone ==
  ASSUME DomainInv, WriteBack, Repairable,
         NEW r \in DOMAIN rules, NEW k \in Row, NEW a \in Columns(rules[r])
  PROVE  /\ r \in DOMAIN groups
         /\ Grouped(r, k) =>
              \E m \in Row : /\ GroupedTuple(r, k) = RowTuple(r, original[m])
                             /\ SameReason(r, k, m) /\ dataSet'[k][a] = original[m][a]
         /\ ~ Grouped(r, k) => dataSet'[k][a] = original[k][a]
<1>1. PICK of \in [DOMAIN groups -> DOMAIN rules] : RuleOf(of)
  BY DEF DomainInv, ListInv
<1>2. InputInv /\ groups \in Seq(Seq(RowGroups)) /\ Len(groups) = Len(rules) /\ NoShared
  BY DEF DomainInv, ShapeInv, Repairable
<1>3. DOMAIN groups = DOMAIN rules
  BY <1>2 DEF InputInv
<1>4. \A d \in DOMAIN groups : of[d] = d
  BY <1>1, <1>2 DEF RuleOf
<1>5. a \in Attr
  BY <1>2, ColumnsAre
<1>6. ASSUME NEW d \in DOMAIN groups, NEW m \in Row, WrittenBy(of, k, a, d, m)
      PROVE  d = r
  <2>1. a \in Columns(rules[d]) /\ d \in DOMAIN rules
    BY <1>3, <1>4, <1>6 DEF WrittenBy
  <2>2. QED
    BY <1>2, <2>1 DEF NoShared, Share
<1>7. CASE Kept(of, k, a)
  <2>1. dataSet'[k][a] = original[k][a] /\ ~ Grouped(r, k)
    BY <1>3, <1>4, <1>7 DEF Kept
  <2>2. QED
    BY <1>3, <2>1
<1>8. ASSUME NEW d \in DOMAIN groups, NEW m \in Row, WrittenBy(of, k, a, d, m)
      PROVE  /\ Grouped(r, k) /\ GroupedTuple(r, k) = RowTuple(r, original[m])
             /\ SameReason(r, k, m) /\ dataSet'[k][a] = original[m][a]
  <2>1. d = r /\ of[d] = d
    BY <1>4, <1>6, <1>8
  <2>2. QED
    BY <1>8, <2>1 DEF WrittenBy
<1>9. Kept(of, k, a) \/ \E d \in DOMAIN groups, m \in Row : WrittenBy(of, k, a, d, m)
  BY <1>1, <1>5, Written
<1>10. QED
  BY <1>3, <1>7, <1>8, <1>9

(* So what is written back satisfies the rules.                            *)
LEMMA WrittenSatisfies ==
  ASSUME DomainInv, WriteBack, Repairable, NEW r \in DOMAIN rules
  PROVE  \A k, m \in Row :
           (\A i \in DOMAIN rules[r].reason :
              dataSet'[k][rules[r].reason[i]] = dataSet'[m][rules[r].reason[i]])
           => \A i \in DOMAIN rules[r].result :
                dataSet'[k][rules[r].result[i]] = dataSet'[m][rules[r].result[i]]
<1>1. PICK of \in [DOMAIN groups -> DOMAIN rules] : RuleOf(of)
  BY DEF DomainInv, ListInv
<1>2. InputInv /\ ListInv /\ pc = "combineDomain" /\ groups \in Seq(Seq(RowGroups))
  BY DEF DomainInv, ShapeInv, WriteBack
<1>3. ASSUME NEW k \in Row, NEW i \in DOMAIN rules[r].reason
      PROVE  dataSet'[k][rules[r].reason[i]] = original[k][rules[r].reason[i]]
  <2>1. PICK a \in Columns(rules[r]) : a = rules[r].reason[i]
    BY <1>2, ColumnsAre
  <2>2. CASE Grouped(r, k)
    <3>1. PICK m \in Row : SameReason(r, k, m) /\ dataSet'[k][a] = original[m][a]
      BY <2>2, WrittenAlone
    <3>2. original[k][a] = original[m][a]
      BY <2>1, <3>1 DEF SameReason
    <3>3. QED
      BY <2>1, <3>1, <3>2
  <2>3. CASE ~ Grouped(r, k)
    BY <2>1, <2>3, WrittenAlone
  <2>4. QED
    BY <2>2, <2>3
<1>4. SUFFICES ASSUME NEW k \in Row, NEW m \in Row, k # m,
                      \A i \in DOMAIN rules[r].reason :
                        dataSet'[k][rules[r].reason[i]] = dataSet'[m][rules[r].reason[i]],
                      NEW j \in DOMAIN rules[r].result
               PROVE  dataSet'[k][rules[r].result[j]] = dataSet'[m][rules[r].result[j]]
  OBVIOUS
<1>5. SameReason(r, k, m)
  BY <1>3, <1>4 DEF SameReason
<1>6. PICK a \in Columns(rules[r]) : a = rules[r].result[j]
  BY <1>2, ColumnsAre
<1>7. r \in DOMAIN groups
  BY <1>6, WrittenAlone
<1>8. PICK g \in DOMAIN groups[r] : k \in DOMAIN groups[r][g] /\ m \in DOMAIN groups[r][g]
  BY <1>2, <1>4, <1>5 DEF DomainInv, ResultInv
<1>9. Grouped(r, k) /\ Grouped(r, m)
  BY <1>8 DEF Grouped
<1>10. GroupedTuple(r, k) = groups[r][g][k] /\ GroupedTuple(r, m) = groups[r][g][m]
  BY <1>1, <1>2, <1>7, <1>8, <1>9, GroupedTupleIs
<1>11. groups[r][g][k] = groups[r][g][m]
  <2>1. IsCorrected(groups[r][g])
    BY <1>2, <1>7 DEF DomainInv, GroupInv, GroupsCorrected, Corrected
  <2>2. groups[r][g][k] \in RowTuples
    <3>1. groups[r] \in Seq(RowGroups)
      BY <1>2, <1>7
    <3>2. groups[r][g] \in RowGroups
      BY <3>1
    <3>3. QED
      BY <1>8, <3>2 DEF RowGroups
  <2>3. ResultLikelihood(prob, groups[r][g][k]) > 0
    BY <1>2, <2>2, ResultLikelihoodRange DEF Repairable
  <2>4. QED
    BY <1>8, <2>1, <2>3 DEF IsCorrected
<1>12. PICK x \in Row : GroupedTuple(r, k) = RowTuple(r, original[x]) /\ dataSet'[k][a] = original[x][a]
  BY <1>9, WrittenAlone
<1>13. PICK y \in Row : GroupedTuple(r, m) = RowTuple(r, original[y]) /\ dataSet'[m][a] = original[y][a]
  BY <1>9, WrittenAlone
<1>14. original[x][a] = original[y][a]
  BY <1>2, <1>10, <1>11, <1>12, <1>13, SameTuple
<1>15. QED
  BY <1>6, <1>12, <1>13, <1>14

LEMMA WriteBackKeeps == DomainInv /\ WriteBack => DomainInv'
<1> SUFFICES ASSUME DomainInv, WriteBack
             PROVE  DomainInv'
  OBVIOUS
<1>1. /\ pc = "combineDomain" /\ pc' = "findCandidate" /\ cursor' = <<0>>
      /\ UNCHANGED <<input, domains, groups, conflicts, candidate>>
      /\ DOMAIN dataSet' = Row /\ \A k \in Row : DOMAIN dataSet'[k] = Attr
      /\ dataSet' = [k \in Row |-> [a \in Attr |-> dataSet'[k][a]]]
  BY DEF WriteBack
<1>2. rules' = rules /\ original' = original /\ prob' = prob /\ UNCHANGED input
  BY <1>1 DEF input
<1>3. InputInv /\ InputInv' /\ Row' = Row /\ RowTuples' = RowTuples /\ RowGroups' = RowGroups
  BY <1>2, Frame DEF DomainInv
<1>4. pc' \in Combining
  BY <1>1 DEF Combining
<1>5. PICK of \in [DOMAIN groups -> DOMAIN rules] : RuleOf(of)
  BY DEF DomainInv, ListInv
<1>6. /\ original \in [Row -> [Attr -> Value]]
      /\ \A k \in Row, a \in Attr : original[k][a] \in Value
  BY <1>3 DEF InputInv
<1>7. ASSUME NEW k \in Row, NEW a \in Attr
      PROVE  /\ \E m \in Row : dataSet'[k][a] = original[m][a]
             /\ a \in Ignored => dataSet'[k][a] = original[k][a]
             /\ IsClean => dataSet'[k][a] = original[k][a]
  <2>1. CASE Kept(of, k, a)
    BY <2>1 DEF Kept
  <2>2. ASSUME NEW d \in DOMAIN groups, NEW m \in Row, WrittenBy(of, k, a, d, m)
        PROVE  /\ dataSet'[k][a] = original[m][a] /\ a \notin Ignored
               /\ IsClean => original[k][a] = original[m][a]
    <3>1. PICK r \in DOMAIN rules : r = of[d]
      BY <1>5
    <3>2. /\ dataSet'[k][a] = original[m][a] /\ a \in Columns(rules[r])
          /\ SameReason(r, k, m)
      BY <2>2, <3>1 DEF WrittenBy
    <3>3. a \notin Ignored
      BY <1>3, <3>2, ColumnsAre
    <3>4. ASSUME IsClean
          PROVE  original[k][a] = original[m][a]
      <4>1. PICK t : t = RowTuple(r, original[m])
        OBVIOUS
      <4>2. Stands(t, r, k)
        BY <3>2, <4>1 DEF Stands
      <4>3. t = RowTuple(r, original[k])
        BY <1>3, <3>4, <4>2, CleanTuples
      <4>4. QED
        BY <1>3, <3>2, <4>1, <4>3, SameTuple
    <3>5. QED
      BY <3>2, <3>3, <3>4
  <2>3. Kept(of, k, a) \/ \E d \in DOMAIN groups, m \in Row : WrittenBy(of, k, a, d, m)
    BY <1>5, Written
  <2>4. QED
    BY <2>1, <2>2, <2>3
<1>8. dataSet' \in [Row -> [Attr -> Value]]
  <2>1. \A k \in Row, a \in Attr : dataSet'[k][a] \in Value
    BY <1>6, <1>7
  <2>2. QED
    BY <1>1, <2>1
<1>9. ShapeInv'
  BY <1>1, <1>2, <1>3, <1>8 DEF DomainInv, ShapeInv
<1>10. CursorInv'
  <2>1. 0 \in 0 .. Cardinality(Row')
    BY <1>3, RowFacts
  <2>2. QED
    BY <1>1, <2>1 DEF CursorInv
<1>11. \A d \in DOMAIN groups : \A g \in DOMAIN groups[d] : IsCorrected(groups[d][g])
  BY <1>1 DEF DomainInv, GroupInv, GroupsCorrected, Corrected
<1>12. ListInv' /\ GroupInv'
  BY <1>1, <1>11, ListsKept DEF DomainInv, GroupInv
<1>13. ConflictInv' /\ PeaceInv'
  BY <1>1, <1>4, LateKept DEF DomainInv
<1>14. CandidateInv'
  BY <1>1, Frame DEF DomainInv, CandidateInv
<1>15. ResultInv'
  <2>1. (Repairable' <=> Repairable) /\ (Together' <=> Together)
    BY <1>1, ListsKept, TogetherKept
  <2>2. Repairable => Together
    BY <1>1 DEF DomainInv, ResultInv, Together
  <2>3. ASSUME Repairable, NEW r \in DOMAIN rules'
        PROVE  Satisfies(dataSet, rules[r])'
    BY <1>2, <1>3, <2>3, WrittenSatisfies DEF Satisfies
  <2>4. NoInventedValues'
    <3>1. Ignored' = Ignored
      BY <1>2, Frame
    <3>2. QED
      BY <1>2, <1>3, <1>7, <3>1 DEF NoInventedValues
  <2>5. CleanDataKept'
    <3>1. ASSUME IsClean
          PROVE  dataSet' = original
      BY <1>1, <1>6, <1>7, <3>1
    <3>2. IsClean' <=> IsClean
      BY <1>2, Frame
    <3>3. QED
      BY <1>2, <3>1, <3>2 DEF CleanDataKept, IsClean
  <2>6. QED
    BY <2>1, <2>2, <2>3, <2>4, <2>5 DEF ResultInv, Together
<1>16. QED
  BY <1>3, <1>9, <1>10, <1>12, <1>13, <1>14, <1>15 DEF DomainInv

-----------------------------------------------------------------------------
(* findCandidate: how a tuple grows.                                       *)
LEMMA TwoParts ==
  ASSUME NEW T, NEW a \in Seq(T), NEW b \in Seq(T)
  PROVE  /\ a \o b \in Seq(T) /\ Len(a) \in Nat /\ Len(b) \in Nat
         /\ Len(a \o b) = Len(a) + Len(b)
         /\ DOMAIN (a \o b) = 1 .. (Len(a) + Len(b))
         /\ \A i \in 1 .. Len(a) : (a \o b)[i] = a[i]
         /\ \A i \in 1 .. Len(b) : (a \o b)[Len(a) + i] = b[i]
OBVIOUS

HasParts(s, a, b, c) ==
  /\ Len(s) = Len(a) + Len(b) + Len(c)
  /\ DOMAIN s = 1 .. (Len(a) + Len(b) + Len(c))
  /\ \A i \in 1 .. Len(a) : s[i] = a[i]
  /\ \A i \in 1 .. Len(b) : s[Len(a) + i] = b[i]
  /\ \A i \in 1 .. Len(c) : s[Len(a) + Len(b) + i] = c[i]

LEMMA ThreeParts ==
  ASSUME NEW T, NEW a \in Seq(T), NEW b \in Seq(T), NEW c \in Seq(T)
  PROVE  a \o b \o c \in Seq(T) /\ HasParts(a \o b \o c, a, b, c)
<1>1. PICK s : s = a \o b
  OBVIOUS
<1>2. /\ s \in Seq(T) /\ Len(s) = Len(a) + Len(b)
      /\ \A i \in 1 .. Len(a) : s[i] = a[i]
      /\ \A i \in 1 .. Len(b) : s[Len(a) + i] = b[i]
  BY <1>1, TwoParts
<1>3. Len(a) \in Nat /\ Len(b) \in Nat /\ Len(c) \in Nat /\ Len(s) \in Nat
  BY <1>2
<1>4. /\ s \o c \in Seq(T) /\ Len(s \o c) = Len(s) + Len(c)
      /\ DOMAIN (s \o c) = 1 .. (Len(s) + Len(c))
      /\ \A i \in 1 .. Len(s) : (s \o c)[i] = s[i]
      /\ \A i \in 1 .. Len(c) : (s \o c)[Len(s) + i] = c[i]
  <2>1. s \in Seq(T)
    BY <1>2
  <2>2. QED
    BY <2>1, TwoParts
<1>5. \A i \in 1 .. Len(a) : i \in 1 .. Len(s)
  BY <1>2, <1>3
<1>6. \A i \in 1 .. Len(b) : Len(a) + i \in 1 .. Len(s)
  BY <1>2, <1>3
<1>7. QED
  BY <1>1, <1>2, <1>4, <1>5, <1>6 DEF HasParts

(* The places of a tuple with a value.                                     *)
Filled(t) == {i \in DOMAIN t.idx : t.ctx[i] # Null}

FilledUpTo(t, n) == IsFiniteSet(Filled(t)) /\ Cardinality(Filled(t)) <= n

(* A combined tuple says no more than its parts do.                        *)
LEMMA CombineTupleIs ==
  ASSUME InputInv, NEW t, Honest(t), NEW n \in Nat, FilledUpTo(t, n),
         NEW u \in RowTuples, NEW same, Len(same) \in Nat
  PROVE  /\ Honest(CombineTuple(t, u, same))
         /\ FilledUpTo(CombineTuple(t, u, same), n + NAttrs)
<1> DEFINE E == {i \in DOMAIN u.idx : same = <<>> \/ ~ Contains(t.idx, u.idx[i])}
           extra == Upwards(E)
           pad == 1 .. (Len(u.idx) - Len(same) - Len(extra))
           Y == [i \in DOMAIN extra |-> u.idx[extra[i]]]
           Z == [i \in pad |-> 0]
           YC == [i \in DOMAIN extra |-> u.ctx[extra[i]]]
           ZC == [i \in pad |-> Null]
           w == CombineTuple(t, u, same)
           V == Value \cup {Null}
<1>1. w = [rule |-> 0, idx |-> t.idx \o Y \o Z, ctx |-> t.ctx \o YC \o ZC]
  BY DEF CombineTuple
<1>2. /\ Honest(u) /\ Len(u.idx) \in Nat /\ DOMAIN u.idx = 1 .. Len(u.idx)
      /\ Len(u.idx) <= NAttrs
  BY RowTupleFacts
<1>3. /\ t.idx \in Seq(Attr) /\ t.ctx \in Seq(V) /\ Len(t.ctx) = Len(t.idx)
      /\ \A i \in DOMAIN t.idx :
           t.ctx[i] = Null \/ (/\ t.idx[i] \notin Ignored
                               /\ \E m \in Row : t.ctx[i] = original[m][t.idx[i]])
  BY DEF Honest, IsTuple
<1>4. /\ u.idx \in Seq(Attr) /\ u.ctx \in Seq(V) /\ Len(u.ctx) = Len(u.idx)
      /\ \A i \in DOMAIN u.idx :
           u.ctx[i] = Null \/ (/\ u.idx[i] \notin Ignored
                               /\ \E m \in Row : u.ctx[i] = original[m][u.idx[i]])
  BY <1>2 DEF Honest, IsTuple
<1>5. E \in SUBSET (1 .. Len(u.idx)) /\ E \in SUBSET Nat
  BY <1>2
<1>6. PICK l \in Nat : l = Len(t.idx)
  BY <1>3
<1> HIDE DEF E, V
<1>7. PICK e \in Nat : /\ e = Cardinality(E) /\ e <= NAttrs /\ IsFiniteSet(E)
  <2>1. PICK m \in Nat : m = Len(u.idx)
    BY <1>2
  <2>a. 1 \in Int /\ m \in Int /\ (IF 1 > m THEN 0 ELSE m - 1 + 1) = m
    OBVIOUS
  <2>2. IsFiniteSet(1 .. m) /\ Cardinality(1 .. m) = m
    BY <2>a, FS_Interval
  <2>3. IsFiniteSet(E) /\ Cardinality(E) <= m
    BY <1>5, <2>1, <2>2, FS_Subset
  <2>4. Cardinality(E) \in Nat /\ NAttrs \in Nat
    BY <2>3, FS_CardinalityType, DomainAssumption
  <2>5. QED
    BY <1>2, <2>1, <2>3, <2>4
<1>8. /\ DOMAIN extra = 1 .. e /\ Len(extra) = e
      /\ \A i \in 1 .. e : extra[i] \in DOMAIN u.idx
  <2>1. /\ DOMAIN extra = 1 .. e /\ Len(extra) = e
        /\ \A i \in 1 .. e : extra[i] \in E
    BY <1>5, <1>7, UpwardsLists
  <2>2. QED
    BY <1>2, <1>5, <2>1
<1> HIDE DEF extra
<1>9. PICK p \in Nat : pad = 1 .. p
  <2>a. PICK x \in Nat, y \in Nat, z \in Nat :
          x = Len(u.idx) /\ y = Len(same) /\ z = Len(extra)
    BY <1>2, <1>8
  <2>b. PICK q \in Int : q = x - y - z
    OBVIOUS
  <2>1. pad = 1 .. q
    BY <2>a, <2>b
  <2> HIDE DEF pad
  <2>2. CASE q >= 0
    BY <2>1, <2>2
  <2>3. CASE q < 0
    <3>1. 1 .. q = 1 .. 0
      BY <2>3
    <3>2. QED
      BY <2>1, <3>1
  <2>4. QED
    BY <2>1, <2>2, <2>3
<1> HIDE DEF pad
<1>10. /\ Y \in Seq(Attr) /\ Len(Y) = e /\ \A i \in 1 .. e : Y[i] = u.idx[extra[i]]
       /\ YC \in Seq(V) /\ Len(YC) = e /\ \A i \in 1 .. e : YC[i] = u.ctx[extra[i]]
  <2>1. \A i \in 1 .. e : u.idx[extra[i]] \in Attr /\ u.ctx[extra[i]] \in V
    <3> SUFFICES ASSUME NEW i \in 1 .. e
                 PROVE  u.idx[extra[i]] \in Attr /\ u.ctx[extra[i]] \in V
      OBVIOUS
    <3>1. PICK j \in DOMAIN u.idx : j = extra[i]
      BY <1>8
    <3>2. j \in DOMAIN u.ctx
      BY <1>4
    <3>3. u.idx[j] \in Attr /\ u.ctx[j] \in V
      BY <1>4, <3>2
    <3>4. QED
      BY <3>1, <3>3
  <2>2. /\ Y = [i \in 1 .. e |-> u.idx[extra[i]]]
        /\ YC = [i \in 1 .. e |-> u.ctx[extra[i]]]
    BY <1>8
  <2> HIDE DEF Y, YC
  <2>3. Y \in Seq(Attr) /\ Len(Y) = e
    BY <2>1, <2>2
  <2>4. YC \in Seq(V) /\ Len(YC) = e
    BY <2>1, <2>2
  <2>5. QED
    BY <2>2, <2>3, <2>4
<1>11. /\ Z \in Seq(Attr) /\ Len(Z) = p
       /\ ZC \in Seq(V) /\ Len(ZC) = p /\ \A i \in 1 .. p : ZC[i] = Null
  <2>1. 0 \in Attr /\ Null \in V
    BY DomainAssumption DEF Attr, V
  <2>2. /\ Z = [i \in 1 .. p |-> 0] /\ ZC = [i \in 1 .. p |-> Null]
    BY <1>9
  <2> HIDE DEF Z, ZC
  <2>3. Z \in Seq(Attr) /\ Len(Z) = p
    BY <2>1, <2>2
  <2>4. ZC \in Seq(V) /\ Len(ZC) = p /\ \A i \in 1 .. p : ZC[i] = Null
    BY <2>1, <2>2
  <2>5. QED
    BY <2>3, <2>4
<1> HIDE DEF Y, YC, Z, ZC
<1> DEFINE I == t.idx \o Y \o Z
           C == t.ctx \o YC \o ZC
<1>12. /\ I \in Seq(Attr) /\ Len(I) = l + e + p /\ DOMAIN I = 1 .. (l + e + p)
       /\ \A i \in 1 .. l : I[i] = t.idx[i]
       /\ \A i \in 1 .. e : I[l + i] = Y[i]
  <2>1. PICK x \in Seq(Attr) : x = t.idx
    BY <1>3
  <2>2. Y \in Seq(Attr) /\ Z \in Seq(Attr) /\ Len(x) = l /\ Len(Y) = e /\ Len(Z) = p
    BY <1>6, <1>10, <1>11, <2>1
  <2>3. I \in Seq(Attr) /\ HasParts(I, x, Y, Z)
    BY <2>1, <2>2, ThreeParts
  <2> HIDE DEF I
  <2>4. QED
    BY <2>1, <2>2, <2>3 DEF HasParts
<1>13. /\ C \in Seq(V) /\ Len(C) = l + e + p
       /\ \A i \in 1 .. l : C[i] = t.ctx[i]
       /\ \A i \in 1 .. e : C[l + i] = YC[i]
       /\ \A i \in 1 .. p : C[l + e + i] = ZC[i]
  <2>1. PICK x \in Seq(V) : x = t.ctx
    BY <1>3
  <2>2. YC \in Seq(V) /\ ZC \in Seq(V) /\ Len(x) = l /\ Len(YC) = e /\ Len(ZC) = p
    BY <1>3, <1>6, <1>10, <1>11, <2>1
  <2>3. C \in Seq(V) /\ HasParts(C, x, YC, ZC)
    BY <2>1, <2>2, ThreeParts
  <2> HIDE DEF C
  <2>4. QED
    BY <2>1, <2>2, <2>3 DEF HasParts
<1> HIDE DEF w
<1>14. w.rule = 0 /\ w.idx = I /\ w.ctx = C
  BY <1>1
<1> HIDE DEF I, C
<1>15. \A i \in 1 .. (l + e + p) : \/ i \in 1 .. l
                                   \/ \E j \in 1 .. e : i = l + j
                                   \/ \E j \in 1 .. p : i = l + e + j
  <2> SUFFICES ASSUME NEW i \in 1 .. (l + e + p), i > l, i > l + e
               PROVE  \E j \in 1 .. p : i = l + e + j
    <3>1. ASSUME NEW i \in 1 .. (l + e + p), i > l, ~ (i > l + e)
          PROVE  \E j \in 1 .. e : i = l + j
      <4>1. i - l \in 1 .. e /\ i = l + (i - l)
        BY <3>1
      <4>2. QED
        BY <4>1
    <3>2. QED
      BY <3>1
  <2>1. i - (l + e) \in 1 .. p /\ i = l + e + (i - (l + e))
    OBVIOUS
  <2>2. QED
    BY <2>1
<1>16. Honest(w)
  <2>1. IsTuple(w)
    <3>1. 0 \in 0 .. Len(rules)
      BY MaxLenNat
    <3>2. C \in Seq(Value \cup {Null})
      BY <1>13 DEF V
    <3>3. QED
      BY <1>12, <1>13, <1>14, <3>1, <3>2 DEF IsTuple
  <2>2. ASSUME NEW i \in DOMAIN w.idx
        PROVE  w.ctx[i] = Null \/ (/\ w.idx[i] \notin Ignored
                                   /\ \E m \in Row : w.ctx[i] = original[m][w.idx[i]])
    <3>1. i \in 1 .. (l + e + p)
      BY <1>12, <1>14
    <3>2. CASE i \in 1 .. l
      <4>1. w.idx[i] = t.idx[i] /\ w.ctx[i] = t.ctx[i]
        BY <1>12, <1>13, <1>14, <3>2
      <4>2. i \in DOMAIN t.idx
        BY <1>3, <1>6, <3>2
      <4>3. QED
        BY <1>3, <4>1, <4>2
    <3>3. ASSUME NEW j \in 1 .. e, i = l + j
          PROVE  w.ctx[i] = Null \/ (/\ w.idx[i] \notin Ignored
                                     /\ \E m \in Row : w.ctx[i] = original[m][w.idx[i]])
      <4>1. PICK x \in DOMAIN u.idx : x = extra[j]
        BY <1>8
      <4>2. w.idx[i] = u.idx[x] /\ w.ctx[i] = u.ctx[x]
        BY <1>10, <1>12, <1>13, <1>14, <3>3, <4>1
      <4>3. QED
        BY <1>4, <4>2
    <3>4. ASSUME NEW j \in 1 .. p, i = l + e + j
          PROVE  w.ctx[i] = Null
      BY <1>11, <1>13, <1>14, <3>4
    <3>5. QED
      BY <1>15, <3>1, <3>2, <3>3, <3>4
  <2>3. QED
    BY <2>1, <2>2 DEF Honest
<1>17. FilledUpTo(w, n + NAttrs)
  <2>1. Filled(w) \in SUBSET (Filled(t) \cup ((l + 1) .. (l + e)))
    <3> SUFFICES ASSUME NEW i \in DOMAIN w.idx, w.ctx[i] # Null
                 PROVE  i \in Filled(t) \cup ((l + 1) .. (l + e))
      BY DEF Filled
    <3>1. i \in 1 .. (l + e + p)
      BY <1>12, <1>14
    <3>2. CASE i \in 1 .. l
      <4>1. w.ctx[i] = t.ctx[i] /\ i \in DOMAIN t.idx
        BY <1>3, <1>6, <1>13, <1>14, <3>2
      <4>2. QED
        BY <4>1 DEF Filled
    <3>3. CASE \E j \in 1 .. e : i = l + j
      BY <3>3
    <3>4. ASSUME NEW j \in 1 .. p, i = l + e + j
          PROVE  FALSE
      BY <1>11, <1>13, <1>14, <3>4
    <3>5. QED
      BY <1>15, <3>1, <3>2, <3>3, <3>4
  <2>2. IsFiniteSet(Filled(t)) /\ Cardinality(Filled(t)) <= n
    BY DEF FilledUpTo
  <2>3. IsFiniteSet((l + 1) .. (l + e)) /\ Cardinality((l + 1) .. (l + e)) = e
    <3>1. PICK a \in Int, b \in Int : a = l + 1 /\ b = l + e
      OBVIOUS
    <3>2. IsFiniteSet(a .. b) /\ Cardinality(a .. b) = IF a > b THEN 0 ELSE b - a + 1
      BY FS_Interval
    <3>3. (IF a > b THEN 0 ELSE b - a + 1) = e
      BY <3>1
    <3>4. QED
      BY <3>1, <3>2, <3>3
  <2>4. PICK M : M = (l + 1) .. (l + e)
    OBVIOUS
  <2>5. /\ IsFiniteSet(Filled(t) \cup M)
        /\ Cardinality(Filled(t) \cup M) =
             Cardinality(Filled(t)) + Cardinality(M) - Cardinality(Filled(t) \cap M)
    BY <2>2, <2>3, <2>4, FS_Union
  <2>6. /\ Cardinality(Filled(t)) \in Nat /\ Cardinality(Filled(t) \cap M) \in Nat
        /\ Cardinality(Filled(t) \cup M) \in Nat
    <3>1. IsFiniteSet(Filled(t) \cap M)
      BY <2>2, FS_Intersection
    <3>2. QED
      BY <2>2, <2>5, <3>1, FS_CardinalityType
  <2>7. IsFiniteSet(Filled(w)) /\ Cardinality(Filled(w)) <= Cardinality(Filled(t) \cup M)
    BY <2>1, <2>4, <2>5, FS_Subset
  <2>8. Cardinality(Filled(w)) \in Nat /\ NAttrs \in Nat
    BY <2>7, FS_CardinalityType, DomainAssumption
  <2>9. Cardinality(Filled(w)) <= n + NAttrs
    BY <1>7, <2>2, <2>3, <2>4, <2>5, <2>6, <2>7, <2>8
  <2>10. QED
    BY <2>7, <2>9 DEF FilledUpTo
<1>18. QED
  BY <1>16, <1>17 DEF w

-----------------------------------------------------------------------------
(* findSameID leaves a -1 unless one rule has all columns of the other.    *)
Shared(idx1, idx2) ==
  {i \in DOMAIN idx1 :
     Cardinality({j \in 1 .. i : idx1[j] = idx1[i]})
       <= Cardinality({j \in DOMAIN idx2 : idx2[j] = idx1[i]})}

LEMMA SameIDIs ==
  ASSUME NEW idx1 \in Seq(Attr), NEW idx2
  PROVE  /\ IsFiniteSet(DOMAIN idx1) /\ Cardinality(DOMAIN idx1) = Len(idx1)
         /\ Shared(idx1, idx2) \in SUBSET DOMAIN idx1
         /\ Cardinality(Shared(idx1, idx2)) \in Nat
         /\ Len(SameID(idx1, idx2).ids) = Cardinality(Shared(idx1, idx2))
         /\ Len(SameID(idx1, idx2).ids) \in Nat
         /\ SameID(idx1, idx2).full =>
              \/ Cardinality(Shared(idx1, idx2)) = Len(idx1)
              \/ Cardinality(Shared(idx1, idx2)) = Len(idx2)
<1> DEFINE shared == Shared(idx1, idx2)
           before(i) == {j \in shared : idx1[j] < idx1[i] \/ (idx1[j] = idx1[i] /\ j < i)}
           e(n) == idx1[CHOOSE i \in shared : Cardinality(before(i)) = n - 1]
           common == [n \in 1 .. Cardinality(shared) |-> e(n)]
<1>1. PICK m \in Nat : m = Len(idx1) /\ DOMAIN idx1 = 1 .. m
  OBVIOUS
<1>2. IsFiniteSet(DOMAIN idx1) /\ Cardinality(DOMAIN idx1) = Len(idx1)
  <2>1. 1 \in Int /\ m \in Int /\ (IF 1 > m THEN 0 ELSE m - 1 + 1) = m
    OBVIOUS
  <2>2. IsFiniteSet(1 .. m) /\ Cardinality(1 .. m) = m
    BY <2>1, FS_Interval
  <2>3. QED
    BY <1>1, <2>2
<1>3. shared \in SUBSET DOMAIN idx1
  BY DEF Shared
<1>4. Cardinality(shared) \in Nat
  <2>1. IsFiniteSet(shared)
    BY <1>2, <1>3, FS_Subset
  <2>2. QED
    BY <2>1, FS_CardinalityType
<1>5. SameID(idx1, idx2) = [ids |-> common, full |-> NoEndMark(common, idx1, idx2)]
  BY DEF SameID, Shared
<1> HIDE DEF e, shared
<1>6. Len(common) = Cardinality(shared)
  BY <1>4
<1> HIDE DEF common
<1>7. SameID(idx1, idx2).ids = common /\ SameID(idx1, idx2).full = NoEndMark(common, idx1, idx2)
  BY <1>5
<1>8. QED
  BY <1>2, <1>3, <1>4, <1>6, <1>7 DEF NoEndMark, shared

LEMMA SameIDFull ==
  ASSUME InputInv, NEW q \in DOMAIN rules, NEW r \in DOMAIN rules,
         SameID(AttrIndex(q), AttrIndex(r)).full
  PROVE  Columns(rules[q]) \subseteq Columns(rules[r]) \/ Columns(rules[r]) \subseteq Columns(rules[q])
<1>1. PICK a \in Seq(Attr), b \in Seq(Attr) : a = AttrIndex(q) /\ b = AttrIndex(r)
  BY RuleTypes
<1>2. /\ Columns(rules[q]) = {a[i] : i \in DOMAIN a}
      /\ Columns(rules[r]) = {b[i] : i \in DOMAIN b}
      /\ \A i, j \in DOMAIN a : a[i] = a[j] => i = j
  <2>1. /\ Columns(rules[q]) = {AttrIndex(q)[i] : i \in DOMAIN AttrIndex(q)}
        /\ \A i, j \in DOMAIN AttrIndex(q) : AttrIndex(q)[i] = AttrIndex(q)[j] => i = j
    BY RuleTypes
  <2>2. Columns(rules[r]) = {AttrIndex(r)[i] : i \in DOMAIN AttrIndex(r)}
    BY RuleTypes
  <2>3. QED
    BY <1>1, <2>1, <2>2
<1> DEFINE S == Shared(a, b)
<1>3. /\ IsFiniteSet(DOMAIN a) /\ Cardinality(DOMAIN a) = Len(a)
      /\ Cardinality(S) = Len(a) \/ Cardinality(S) = Len(b)
  BY <1>1, SameIDIs
<1>4. S \in SUBSET DOMAIN a
  BY SameIDIs
<1>5. IsFiniteSet(DOMAIN b) /\ Cardinality(DOMAIN b) = Len(b)
  BY SameIDIs
<1>6. ASSUME NEW i \in S
      PROVE  \E j \in DOMAIN b : b[j] = a[i]
  <2> DEFINE A == {j \in 1 .. i : a[j] = a[i]}
             B == {j \in DOMAIN b : b[j] = a[i]}
  <2>1. i \in DOMAIN a /\ Cardinality(A) <= Cardinality(B)
    BY DEF Shared
  <2>2. i \in Nat /\ i >= 1 /\ i \in A
    BY <2>1
  <2>3. IsFiniteSet(1 .. i)
    BY <2>2, FS_Interval
  <2>4. A \in SUBSET (1 .. i) /\ B \in SUBSET DOMAIN b
    OBVIOUS
  <2>5. IsFiniteSet(A) /\ IsFiniteSet(B)
    BY <1>5, <2>3, <2>4, FS_Subset
  <2>6. A # {}
    BY <2>2
  <2> HIDE DEF A
  <2>7. Cardinality(A) # 0 /\ Cardinality(A) \in Nat /\ Cardinality(B) \in Nat
    BY <2>5, <2>6, FS_EmptySet, FS_CardinalityType
  <2>8. Cardinality(B) # 0
    BY <2>1, <2>7
  <2>9. B # {}
    BY <2>5, <2>8, FS_EmptySet
  <2>10. QED
    BY <2>9
<1>7. CASE Cardinality(S) = Len(a)
  <2>1. S = DOMAIN a
    BY <1>3, <1>4, <1>7, FS_Subset
  <2>2. \A i \in DOMAIN a : \E j \in DOMAIN b : b[j] = a[i]
    BY <1>6, <2>1
  <2>3. QED
    BY <1>2, <2>2
<1>8. CASE Cardinality(S) = Len(b)
  <2> DEFINE f == [i \in S |-> CHOOSE j \in DOMAIN b : b[j] = a[i]]
  <2>1. \A i \in S : f[i] \in DOMAIN b /\ b[f[i]] = a[i]
    BY <1>6
  <2>2. f \in [S -> DOMAIN b]
    BY <2>1
  <2> HIDE DEF f, S
  <2>3. \A i, j \in S : f[i] = f[j] => i = j
    BY <1>2, <1>4, <2>1
  <2>4. f \in Injection(S, DOMAIN b)
    BY <2>2, <2>3 DEF Injection, IsInjective
  <2>5. f \in Surjection(S, DOMAIN b)
    BY <1>5, <1>8, <2>4, FS_Injection
  <2>6. \A j \in DOMAIN b : \E i \in S : f[i] = j
    BY <2>5 DEF Surjection
  <2>7. \A j \in DOMAIN b : \E i \in DOMAIN a : a[i] = b[j]
    BY <1>4, <2>1, <2>6
  <2>8. QED
    BY <1>2, <2>7
<1>9. QED
  BY <1>3, <1>7, <1>8

(* A state of the search, and what a turn of it makes of one: nothing, an  *)
(* exception, or a state in which domain d has been used.                  *)
IsState(s) == s = [tuple |-> s.tuple, used |-> s.used, end |-> s.end]

Threw(s, t, d) ==
  /\ t = [tuple |-> s.tuple, used |-> s.used, end |-> "throws"]
  /\ SameID(FirstIdx(d), s.tuple.idx).full

Joined(s, t, d) ==
  \E u \in RowTuples : \E same, end :
    /\ Len(same) \in Nat /\ end # "throws"
    /\ t = [tuple |-> CombineTuple(s.tuple, u, same), used |-> s.used \cup {d}, end |-> end]

LEMMA ExtendedIs ==
  ASSUME InputInv, NEW s, IsState(s), s.end # "throws", NEW d, NEW k, NEW ct,
         NEW places \in SUBSET (Nat \X Nat), NEW found, found # "throws",
         domains[d][k] \in RowTuples, \A x \in places : TupleAt(d, x) \in RowTuples,
         FirstIdx(d) \in Seq(Attr)
  PROVE  \/ Extended(s, d, k, ct, places, found) = s
         \/ Threw(s, Extended(s, d, k, ct, places, found), d)
         \/ Joined(s, Extended(s, d, k, ct, places, found), d)
<1>1. PICK a, b, c : s = [tuple |-> a, used |-> b, end |-> c]
  BY DEF IsState
<1>2. s.tuple = a /\ s.used = b /\ s.end = c /\ c # "throws"
  BY <1>1
<1>3. PICK id : id = SameID(FirstIdx(d), a.idx)
  OBVIOUS
<1>4. Len(id.ids) \in Nat
  BY <1>3, SameIDIs
<1> DEFINE hits == {x \in places : Matches(id, TupleAt(d, x), ct.tuple) # "no"}
<1>5. PICK t : t = TupleAt(d, FirstOf(hits))
  OBVIOUS
<1>6. Extended(s, d, k, ct, places, found) =
        IF id.ids = <<>>
        THEN [s EXCEPT !.tuple = CombineTuple(a, domains[d][k], <<>>), !.used = b \cup {d}]
        ELSE IF hits = {} THEN s
        ELSE IF Matches(id, t, ct.tuple) = "throws" THEN [s EXCEPT !.end = "throws"]
        ELSE [s EXCEPT !.tuple = CombineTuple(a, t, id.ids), !.used = b \cup {d}, !.end = found]
  BY <1>2, <1>3, <1>5 DEF Extended
<1>7. hits # {} => t \in RowTuples
  <2>1. hits \in SUBSET (Nat \X Nat)
    OBVIOUS
  <2>2. hits # {} => FirstOf(hits) \in hits
    <3> HIDE DEF hits
    <3>1. QED
      BY <2>1, FirstOfIn
  <2>3. QED
    BY <1>5, <2>2
<1> HIDE DEF hits
<1>8. CASE id.ids = <<>>
  <2>1. PICK w : w = CombineTuple(a, domains[d][k], <<>>)
    OBVIOUS
  <2>2. Extended(s, d, k, ct, places, found) = [tuple |-> w, used |-> b \cup {d}, end |-> c]
    BY <1>1, <1>6, <1>8, <2>1
  <2>3. Len(<<>>) \in Nat
    OBVIOUS
  <2>4. Joined(s, Extended(s, d, k, ct, places, found), d)
    BY <1>2, <2>1, <2>2, <2>3 DEF Joined
  <2>5. QED
    BY <2>4
<1>9. CASE id.ids # <<>> /\ hits = {}
  BY <1>6, <1>9
<1>10. CASE id.ids # <<>> /\ hits # {} /\ Matches(id, t, ct.tuple) = "throws"
  <2>1. Extended(s, d, k, ct, places, found) = [tuple |-> a, used |-> b, end |-> "throws"]
    BY <1>1, <1>6, <1>10
  <2>2. id.full
    BY <1>10 DEF Matches
  <2>3. QED
    BY <1>2, <1>3, <2>1, <2>2 DEF Threw
<1>11. CASE id.ids # <<>> /\ hits # {} /\ Matches(id, t, ct.tuple) # "throws"
  <2>1. PICK w : w = CombineTuple(a, t, id.ids)
    OBVIOUS
  <2>2. Extended(s, d, k, ct, places, found) = [tuple |-> w, used |-> b \cup {d}, end |-> found]
    BY <1>1, <1>6, <1>11, <2>1
  <2>3. Joined(s, Extended(s, d, k, ct, places, found), d)
    BY <1>2, <1>4, <1>7, <1>11, <2>1, <2>2 DEF Joined
  <2>4. QED
    BY <2>3
<1>12. QED
  BY <1>8, <1>9, <1>10, <1>11

-----------------------------------------------------------------------------
(* findCandidate: the search, turn by turn.                                *)
Start(ct) == [tuple |-> ct.tuple, used |-> {}, end |-> "run"]

Turn(s, i, k, ct) ==
  IF i <= Len(groups) THEN FromGroups(s, i, k, ct) ELSE FromDomain(s, i - Len(groups), k, ct)

(* f has the search states after each number of turns.                     *)
IsSearch(f, n, k, ct) ==
  f = [i \in 0 .. n |-> IF i = 0 THEN Start(ct) ELSE Turn(f[i - 1], i, k, ct)]

LEMMA SearchUnfolds ==
  ASSUME NEW f, NEW n \in Nat, NEW k, NEW ct, IsSearch(f, n, k, ct)
  PROVE  f[0] = Start(ct) /\ \A i \in 1 .. n : f[i] = Turn(f[i - 1], i, k, ct)
<1> DEFINE g == [i \in 0 .. n |-> IF i = 0 THEN Start(ct) ELSE Turn(f[i - 1], i, k, ct)]
<1>1. f = g
  BY DEF IsSearch
<1>2. g[0] = Start(ct)
  OBVIOUS
<1>3. ASSUME NEW i \in 1 .. n
      PROVE  g[i] = Turn(f[i - 1], i, k, ct)
  <2>1. i \in 0 .. n /\ i # 0
    OBVIOUS
  <2>2. QED
    BY <2>1
<1>4. QED
  <2> HIDE DEF g
  <2>1. QED
    BY <1>1, <1>2, <1>3

LEMMA SearchExists ==
  ASSUME NEW n \in Nat, NEW k, NEW ct
  PROVE  \E f : IsSearch(f, n, k, ct)
<1> DEFINE Bad == {m \in Nat : ~ \E f : IsSearch(f, m, k, ct)}
<1>1. SUFFICES ASSUME Bad # {}
               PROVE  FALSE
  OBVIOUS
<1>2. PICK m \in Bad : \A l \in Bad : m <= l
  <2>1. Bad \in SUBSET Nat
    OBVIOUS
  <2>2. QED
    <3> HIDE DEF Bad
    <3>1. QED
      BY <1>1, <2>1, LeastNat
<1>3. CASE m = 0
  <2>1. IsSearch([x \in 0 .. 0 |-> Start(ct)], 0, k, ct)
    BY DEF IsSearch
  <2>2. QED
    BY <1>2, <1>3, <2>1
<1>4. CASE m # 0
  <2>1. m \in Nat /\ m - 1 \in Nat /\ m - 1 \notin Bad
    BY <1>2, <1>4
  <2>2. PICK f : IsSearch(f, m - 1, k, ct)
    BY <2>1
  <2> DEFINE g == [x \in 0 .. m |-> IF x < m THEN f[x] ELSE Turn(f[m - 1], m, k, ct)]
  <2>3. f[0] = Start(ct) /\ \A x \in 1 .. (m - 1) : f[x] = Turn(f[x - 1], x, k, ct)
    BY <2>1, <2>2, SearchUnfolds
  <2>4. ASSUME NEW x \in 0 .. m
        PROVE  g[x] = IF x = 0 THEN Start(ct) ELSE Turn(g[x - 1], x, k, ct)
    <3>1. CASE x = 0
      BY <1>4, <2>1, <2>3, <3>1
    <3>2. CASE x = m
      <4>1. m - 1 \in 0 .. m /\ m - 1 < m /\ ~ m < m
        BY <1>4, <2>1
      <4>2. g[m - 1] = f[m - 1] /\ g[m] = Turn(f[m - 1], m, k, ct)
        BY <3>2, <4>1
      <4>3. QED
        BY <1>4, <3>2, <4>2
    <3>3. CASE x # 0 /\ x # m
      <4>1. x \in 1 .. (m - 1) /\ x - 1 \in 0 .. m /\ x - 1 < m /\ x < m
        BY <2>1, <3>3
      <4>2. g[x - 1] = f[x - 1] /\ g[x] = f[x]
        BY <4>1
      <4>3. QED
        BY <2>3, <3>3, <4>1, <4>2
    <3>4. QED
      BY <3>1, <3>2, <3>3
  <2>5. g = [x \in 0 .. m |-> g[x]]
    OBVIOUS
  <2>6. IsSearch(g, m, k, ct)
    <3> HIDE DEF g
    <3>1. [x \in 0 .. m |-> g[x]] =
            [x \in 0 .. m |-> IF x = 0 THEN Start(ct) ELSE Turn(g[x - 1], x, k, ct)]
      BY <2>4
    <3>2. QED
      BY <2>5, <3>1 DEF IsSearch
  <2>7. QED
    BY <1>2, <2>6
<1>5. QED
  BY <1>3, <1>4

LEMMA SearchIs ==
  ASSUME Len(groups) \in Nat, NEW k, NEW ct
  PROVE  \E f : IsSearch(f, 2 * Len(groups), k, ct) /\ Search(k, ct) = f[2 * Len(groups)]
<1> DEFINE f == CHOOSE g : IsSearch(g, 2 * Len(groups), k, ct)
<1>1. IsSearch(f, 2 * Len(groups), k, ct)
  <2>1. 2 * Len(groups) \in Nat
    OBVIOUS
  <2>2. \E g : IsSearch(g, 2 * Len(groups), k, ct)
    BY <2>1, SearchExists
  <2>3. QED
    BY <2>2
<1>2. Search(k, ct) = f[2 * Len(groups)]
  BY DEF Search, IsSearch, Turn, Start
<1> HIDE DEF f
<1>3. QED
  BY <1>1, <1>2

(* What a search works on: the domains and groups hold tuples of rows, and  *)
(* with two rules each domain those of its own.                            *)
Setting(ct) ==
  /\ Len(groups) \in Nat /\ Len(groups) <= Len(rules)
  /\ ct.tuple \in RowTuples
  /\ InDomain \in SUBSET (Nat \X Nat)
  /\ \A d \in 1 .. Len(groups) :
       /\ \A m \in Row : domains[d][m] \in RowTuples
       /\ InGroups(d) \in SUBSET (Nat \X Nat)
       /\ \A x \in InGroups(d) \cup InDomain : TupleAt(d, x) \in RowTuples
       /\ FirstIdx(d) \in Seq(Attr)
  /\ Len(rules) = 2 =>
       /\ ct.domainID \in {1, 2} /\ ct.tuple.idx = AttrIndex(ct.domainID)
       /\ Len(groups) = 2
       /\ \A d \in {1, 2} : FirstIdx(d) = AttrIndex(d)

Covered == \E q, r \in DOMAIN rules : q # r /\ Columns(rules[q]) \subseteq Columns(rules[r])

(* What holds of a search state after i turns.                             *)
Fine(s, i, ct) ==
  /\ IsState(s) /\ Honest(s.tuple) /\ FilledUpTo(s.tuple, NAttrs * (i + 1))
  /\ Len(rules) = 2 =>
       /\ s.tuple = ct.tuple \/ (3 - ct.domainID \in s.used /\ 3 - ct.domainID <= i)
       /\ s.end = "throws" => Covered

LEMMA TurnKeeps ==
  ASSUME InputInv, NEW ct, Setting(ct), NEW k \in Row, NEW i \in 1 .. (2 * Len(groups)),
         NEW s, Fine(s, i - 1, ct)
  PROVE  Fine(Turn(s, i, k, ct), i, ct)
<1>1. PICK n \in Nat : n = Len(groups) /\ i \in 1 .. (2 * n)
  BY DEF Setting
<1>2. PICK d \in 1 .. n : d = IF i <= n THEN i ELSE i - n
  <2>1. CASE i <= n
    BY <1>1, <2>1
  <2>2. CASE ~ (i <= n)
    <3>1. i - n \in 1 .. n
      BY <1>1, <2>2
    <3>2. QED
      BY <2>2, <3>1
  <2>3. QED
    BY <2>1, <2>2
<1>3. PICK w : w = Turn(s, i, k, ct)
  OBVIOUS
<1>4. /\ IsState(s) /\ Honest(s.tuple) /\ FilledUpTo(s.tuple, NAttrs * i)
      /\ Len(rules) = 2 =>
           /\ s.tuple = ct.tuple \/ (3 - ct.domainID \in s.used /\ 3 - ct.domainID <= i - 1)
           /\ s.end = "throws" => Covered
  <2>1. i - 1 + 1 = i
    BY <1>1
  <2>2. QED
    BY <2>1 DEF Fine
<1>5. NAttrs \in Nat /\ NAttrs * i \in Nat /\ NAttrs * (i + 1) = NAttrs * i + NAttrs
  <2>1. NAttrs \in Nat /\ i \in Nat
    BY <1>1, DomainAssumption
  <2>2. PICK a \in Nat : a = NAttrs
    BY <2>1
  <2>3. a * i \in Nat /\ a * (i + 1) = a * i + a
    BY <2>1
  <2>4. QED
    BY <2>1, <2>2, <2>3
<1>6. /\ domains[d][k] \in RowTuples /\ FirstIdx(d) \in Seq(Attr)
      /\ InGroups(d) \in SUBSET (Nat \X Nat) /\ InDomain \in SUBSET (Nat \X Nat)
      /\ \A x \in InGroups(d) : TupleAt(d, x) \in RowTuples
      /\ \A x \in InDomain : TupleAt(d, x) \in RowTuples
  BY <1>1 DEF Setting
<1>7. \/ w = s
      \/ /\ Threw(s, w, d) \/ Joined(s, w, d)
         /\ d # ct.domainID /\ (i > n => d \notin s.used) /\ s.end = "run"
  <2>1. CASE i <= n
    <3>1. w = FromGroups(s, d, k, ct)
      BY <1>1, <1>2, <1>3, <2>1 DEF Turn
    <3>2. CASE s.end # "run" \/ d = ct.domainID
      BY <3>1, <3>2 DEF FromGroups
    <3>3. CASE ~ (s.end # "run" \/ d = ct.domainID)
      <4>1. w = Extended(s, d, k, ct, InGroups(d), "run")
        BY <3>1, <3>3 DEF FromGroups
      <4>2. s.end # "throws" /\ "run" # "throws"
        BY <3>3
      <4>3. w = s \/ Threw(s, w, d) \/ Joined(s, w, d)
        BY <1>4, <1>6, <4>1, <4>2, ExtendedIs
      <4>4. ~ (i > n)
        BY <1>1, <2>1
      <4>5. QED
        BY <3>3, <4>3, <4>4
    <3>4. QED
      BY <3>2, <3>3
  <2>2. CASE ~ (i <= n)
    <3>1. w = FromDomain(s, d, k, ct)
      BY <1>1, <1>2, <1>3, <2>2 DEF Turn
    <3>2. CASE s.end # "run" \/ d \in s.used \/ d = ct.domainID
      BY <3>1, <3>2 DEF FromDomain
    <3>3. CASE ~ (s.end # "run" \/ d \in s.used \/ d = ct.domainID)
      <4>1. w = Extended(s, d, k, ct, InDomain, "stop")
        BY <3>1, <3>3 DEF FromDomain
      <4>2. s.end # "throws" /\ "stop" # "throws"
        BY <3>3
      <4>3. w = s \/ Threw(s, w, d) \/ Joined(s, w, d)
        BY <1>4, <1>6, <4>1, <4>2, ExtendedIs
      <4>4. QED
        BY <3>3, <4>3
    <3>4. QED
      BY <3>2, <3>3
  <2>3. QED
    BY <2>1, <2>2
<1>8. FilledUpTo(s.tuple, NAttrs * (i + 1))
  <2>1. IsFiniteSet(Filled(s.tuple)) /\ Cardinality(Filled(s.tuple)) <= NAttrs * i
    BY <1>4 DEF FilledUpTo
  <2>2. Cardinality(Filled(s.tuple)) \in Nat
    BY <2>1, FS_CardinalityType
  <2>3. PICK a \in Nat, b \in Nat : a = NAttrs * i /\ b = NAttrs
    BY <1>5
  <2>4. Cardinality(Filled(s.tuple)) <= a + b
    BY <2>1, <2>2, <2>3
  <2>5. QED
    BY <1>5, <2>1, <2>3, <2>4 DEF FilledUpTo
<1>9. Len(rules) = 2 => /\ ct.domainID \in {1, 2} /\ n = 2
                        /\ d # ct.domainID => d = 3 - ct.domainID
                        /\ d <= i
  BY <1>1, <1>2 DEF Setting
<1>10. CASE w = s
  <2>1. Len(rules) = 2 => (3 - ct.domainID <= i - 1 => 3 - ct.domainID <= i)
    BY <1>1, <1>9
  <2>2. QED
    BY <1>3, <1>4, <1>8, <1>10, <2>1 DEF Fine
<1>11. CASE Threw(s, w, d) /\ d # ct.domainID /\ (i > n => d \notin s.used)
  <2>1. /\ w = [tuple |-> s.tuple, used |-> s.used, end |-> "throws"]
        /\ SameID(FirstIdx(d), s.tuple.idx).full
    BY <1>11 DEF Threw
  <2>2. w.tuple = s.tuple /\ w.used = s.used /\ IsState(w)
    BY <2>1 DEF IsState
  <2>3. ASSUME Len(rules) = 2
        PROVE  Covered /\ s.tuple = ct.tuple
    <3>1. /\ ct.domainID \in {1, 2} /\ n = 2 /\ d = 3 - ct.domainID
      BY <1>9, <1>11, <2>3
    <3>2. s.tuple = ct.tuple
      <4>1. CASE i <= n
        <5>1. d = i
          BY <1>2, <4>1
        <5>2. ~ (3 - ct.domainID <= i - 1)
          BY <3>1, <5>1
        <5>3. QED
          BY <1>4, <2>3, <5>2
      <4>2. CASE i > n
        BY <1>4, <1>11, <2>3, <3>1, <4>2
      <4>3. QED
        BY <1>1, <4>1, <4>2
    <3>3. PICK c \in {1, 2} : c = ct.domainID
      BY <3>1
    <3>4. ct.tuple.idx = AttrIndex(c) /\ FirstIdx(d) = AttrIndex(d) /\ d \in {1, 2} /\ d # c
      BY <1>11, <2>3, <3>1, <3>3 DEF Setting
    <3>5. DOMAIN rules = 1 .. 2
      BY <2>3 DEF InputInv
    <3>6. c \in DOMAIN rules /\ d \in DOMAIN rules
      BY <3>4, <3>5
    <3>7. SameID(AttrIndex(d), AttrIndex(c)).full
      BY <2>1, <3>2, <3>4
    <3>8. \/ Columns(rules[d]) \subseteq Columns(rules[c])
          \/ Columns(rules[c]) \subseteq Columns(rules[d])
      BY <3>6, <3>7, SameIDFull
    <3>9. QED
      BY <3>2, <3>4, <3>6, <3>8 DEF Covered
  <2>4. QED
    BY <1>3, <1>4, <1>8, <2>2, <2>3 DEF Fine
<1>12. CASE Joined(s, w, d) /\ d # ct.domainID
  <2>1. PICK u, same, end :
          /\ u \in RowTuples
          /\ Len(same) \in Nat /\ end # "throws"
          /\ w = [tuple |-> CombineTuple(s.tuple, u, same), used |-> s.used \cup {d},
                  end |-> end]
    BY <1>12 DEF Joined
  <2>2. PICK t : t = CombineTuple(s.tuple, u, same)
    OBVIOUS
  <2>3. w.tuple = t /\ w.used = s.used \cup {d} /\ w.end = end /\ IsState(w)
    BY <2>1, <2>2 DEF IsState
  <2>4. Honest(t) /\ FilledUpTo(t, NAttrs * (i + 1))
    <3>1. PICK N \in Nat : N = NAttrs * i
      BY <1>5
    <3>2. PICK v : v = s.tuple
      OBVIOUS
    <3>3. Honest(v) /\ FilledUpTo(v, N)
      BY <1>4, <3>1, <3>2
    <3>4. Honest(CombineTuple(v, u, same)) /\ FilledUpTo(CombineTuple(v, u, same), N + NAttrs)
      BY <2>1, <3>3, CombineTupleIs
    <3>5. QED
      BY <1>5, <2>2, <3>1, <3>2, <3>4
  <2>5. Len(rules) = 2 => 3 - ct.domainID \in w.used /\ 3 - ct.domainID <= i
    BY <1>9, <1>12, <2>3
  <2>6. w.end # "throws"
    BY <2>1, <2>3
  <2>7. QED
    BY <1>3, <2>3, <2>4, <2>5, <2>6 DEF Fine
<1>13. QED
  BY <1>7, <1>10, <1>11, <1>12

LEMMA SearchFine ==
  ASSUME InputInv, NEW ct, Setting(ct), NEW k \in Row
  PROVE  Fine(Search(k, ct), 2 * Len(groups), ct)
<1>1. PICK n \in Nat : n = 2 * Len(groups)
  BY DEF Setting
<1>2. PICK f : IsSearch(f, n, k, ct) /\ Search(k, ct) = f[n]
  <2>1. Len(groups) \in Nat
    BY DEF Setting
  <2>2. QED
    BY <1>1, <2>1, SearchIs
<1>3. f[0] = Start(ct) /\ \A i \in 1 .. n : f[i] = Turn(f[i - 1], i, k, ct)
  BY <1>2, SearchUnfolds
<1>4. Fine(f[0], 0, ct)
  <2>1. PICK t \in RowTuples : t = ct.tuple
    BY DEF Setting
  <2>2. f[0].tuple = t /\ f[0].end = "run" /\ IsState(f[0])
    BY <1>3, <2>1 DEF Start, IsState
  <2>3. Honest(t) /\ Len(t.idx) \in Nat /\ DOMAIN t.idx = 1 .. Len(t.idx) /\ Len(t.idx) <= NAttrs
    BY RowTupleFacts
  <2>4. PICK l \in Nat : l = Len(t.idx)
    BY <2>3
  <2>5. IsFiniteSet(1 .. l) /\ Cardinality(1 .. l) = l
    <3>1. 1 \in Int /\ l \in Int /\ (IF 1 > l THEN 0 ELSE l - 1 + 1) = l
      OBVIOUS
    <3>2. QED
      BY <3>1, FS_Interval
  <2>6. Filled(t) \in SUBSET (1 .. l)
    BY <2>3, <2>4 DEF Filled
  <2>7. IsFiniteSet(Filled(t)) /\ Cardinality(Filled(t)) <= l
    BY <2>5, <2>6, FS_Subset
  <2>8. Cardinality(Filled(t)) \in Nat
    BY <2>7, FS_CardinalityType
  <2>9. NAttrs \in Nat /\ NAttrs * (0 + 1) = NAttrs
    BY DomainAssumption
  <2>10. FilledUpTo(t, NAttrs * (0 + 1))
    BY <2>3, <2>4, <2>7, <2>8, <2>9 DEF FilledUpTo
  <2>11. QED
    BY <2>1, <2>2, <2>3, <2>10 DEF Fine
<1> DEFINE Bad == {i \in 0 .. n : ~ Fine(f[i], i, ct)}
<1>5. SUFFICES ASSUME Bad # {}
               PROVE  FALSE
  BY <1>1, <1>2
<1>6. PICK i \in Bad : \A j \in Bad : i <= j
  <2>1. Bad \in SUBSET Nat
    OBVIOUS
  <2>2. QED
    <3> HIDE DEF Bad
    <3>1. QED
      BY <1>5, <2>1, LeastNat
<1>7. i \in 0 .. n /\ ~ Fine(f[i], i, ct) /\ i # 0
  BY <1>4, <1>6
<1>8. i \in 1 .. n /\ i - 1 \in 0 .. n /\ ~ (i <= i - 1)
  BY <1>7
<1>9. Fine(f[i - 1], i - 1, ct)
  BY <1>6, <1>8
<1>10. PICK s : s = f[i - 1]
  OBVIOUS
<1>11. Fine(Turn(s, i, k, ct), i, ct)
  BY <1>1, <1>8, <1>9, <1>10, TurnKeeps
<1>12. QED
  BY <1>3, <1>7, <1>8, <1>10, <1>11

-----------------------------------------------------------------------------
LEMMA SettingHolds ==
  ASSUME DomainInv, pc = "findCandidate", NEW k \in Row, NEW j \in DOMAIN conflicts[k]
  PROVE  Setting(conflicts[k][j])
<1>1. InputInv /\ ShapeInv /\ ListInv /\ ConflictInv
  BY DEF DomainInv
<1>2. PICK ct : ct = conflicts[k][j]
  OBVIOUS
<1>3. /\ groups \in Seq(Seq(RowGroups)) /\ Len(groups) \in Nat
      /\ domains \in Seq([Row -> RowTuples])
      /\ Len(domains) = Len(rules) /\ Len(rules) \in Nat /\ Len(groups) <= Len(domains)
  BY <1>1, MaxLenNat DEF ShapeInv
<1>4. /\ ct \in [tuple : RowTuples, domainID : DOMAIN groups]
      /\ Len(groups) > 1
  <2>1. conflicts[k] \in Seq([tuple : RowTuples, domainID : DOMAIN groups])
    BY <1>1 DEF ConflictInv
  <2>2. conflicts[k] # <<>>
    BY <2>1
  <2>3. Len(groups) > 1
    BY <1>1, <2>2 DEF ConflictInv
  <2>4. ct \in [tuple : RowTuples, domainID : DOMAIN groups]
    <3>1. PICK R : R = [tuple : RowTuples, domainID : DOMAIN groups]
      OBVIOUS
    <3>2. PICK s : s = conflicts[k]
      OBVIOUS
    <3>3. s \in Seq(R) /\ j \in DOMAIN s
      BY <2>1, <3>1, <3>2
    <3>4. s[j] \in R
      BY <3>3
    <3>5. QED
      BY <1>2, <3>1, <3>2, <3>4
  <2>5. QED
    BY <2>3, <2>4
<1>5. ct.tuple \in RowTuples /\ ct.domainID \in 1 .. Len(groups)
  BY <1>3, <1>4
<1>6. Row \in SUBSET Nat /\ 0 \in Row
  BY <1>1, RowFacts
<1>7. InDomain \in SUBSET (Nat \X Nat)
  BY <1>6 DEF InDomain
<1>8. ASSUME NEW d \in 1 .. Len(groups)
      PROVE  /\ \A m \in Row : domains[d][m] \in RowTuples
             /\ InGroups(d) \in SUBSET (Nat \X Nat)
             /\ \A x \in InGroups(d) \cup InDomain : TupleAt(d, x) \in RowTuples
             /\ FirstIdx(d) \in Seq(Attr)
             /\ FirstIdx(d) = AttrIndex(domains[d][0].rule)
  <2>1. d \in DOMAIN domains /\ d \in DOMAIN groups
    BY <1>3
  <2>2. domains[d] \in [Row -> RowTuples] /\ groups[d] \in Seq(RowGroups)
    BY <1>3, <2>1
  <2>3. \A m \in Row : domains[d][m] \in RowTuples
    BY <2>2
  <2>4. \A g \in DOMAIN groups[d] : g \in Nat /\ g # 0 /\ groups[d][g] \in RowGroups
    BY <2>2
  <2>5. ASSUME NEW x \in InGroups(d)
        PROVE  x \in Nat \X Nat /\ TupleAt(d, x) \in RowTuples
    <3>1. PICK g \in DOMAIN groups[d] : x \in {g} \X DOMAIN groups[d][g]
      BY DEF InGroups
    <3>2. PICK G \in RowGroups : G = groups[d][g]
      BY <2>4
    <3>3. PICK S \in SUBSET Row : G \in [S -> RowTuples]
      BY DEF RowGroups
    <3>4. x[1] = g /\ x[2] \in S /\ x = <<g, x[2]>>
      BY <3>1, <3>2, <3>3
    <3>5. G[x[2]] \in RowTuples
      BY <3>3, <3>4
    <3>6. TupleAt(d, x) = G[x[2]]
      BY <2>4, <3>2, <3>4 DEF TupleAt
    <3>7. x[2] \in Nat
      BY <1>6, <3>4
    <3>8. QED
      BY <2>4, <3>4, <3>5, <3>6, <3>7
  <2>6. ASSUME NEW x \in InDomain
        PROVE  TupleAt(d, x) \in RowTuples
    <3>1. x[1] = 0 /\ x[2] \in Row
      BY DEF InDomain
    <3>2. QED
      BY <2>3, <3>1 DEF TupleAt
  <2>7. PICK t \in RowTuples : t = domains[d][0]
    BY <1>6, <2>3
  <2>8. t.idx = AttrIndex(t.rule) /\ t.rule \in DOMAIN rules
    BY <1>1, RowTupleFacts
  <2>9. AttrIndex(t.rule) \in Seq(Attr)
    BY <1>1, <2>8, RuleTypes
  <2>10. QED
    BY <2>3, <2>5, <2>6, <2>7, <2>8, <2>9 DEF FirstIdx
<1>9. ASSUME Len(rules) = 2
      PROVE  /\ ct.domainID \in {1, 2} /\ ct.tuple.idx = AttrIndex(ct.domainID)
             /\ Len(groups) = 2
             /\ \A d \in {1, 2} : FirstIdx(d) = AttrIndex(d)
  <2>1. Len(groups) = 2
    BY <1>3, <1>4, <1>9
  <2>2. ct.domainID = ct.tuple.rule
    BY <1>1, <1>2, <1>9, <2>1 DEF ConflictInv, ConflictDomain
  <2>3. PICK t \in RowTuples : t = ct.tuple
    BY <1>5
  <2>4. t.idx = AttrIndex(t.rule)
    BY <1>1, RowTupleFacts
  <2>5. \A d \in {1, 2} : domains[d][0].rule = d
    <3>1. DOMAIN domains = 1 .. 2
      BY <1>3, <1>9
    <3>2. QED
      BY <1>1, <1>6, <1>9, <2>1, <3>1 DEF ListInv
  <2>6. QED
    BY <1>5, <1>8, <2>1, <2>2, <2>3, <2>4, <2>5
<1>10. Setting(ct)
  BY <1>3, <1>5, <1>7, <1>8, <1>9 DEF Setting
<1>11. QED
  BY <1>2, <1>10

LEMMA Distributes ==
  ASSUME NEW a \in Nat, NEW x \in Nat, NEW z \in Nat
  PROVE  a * (x + z) = a * x + a * z
OBVIOUS

(* The likeliest of the tuples built is well-formed and honest.            *)
LEMMA BestCandidateIs ==
  ASSUME DomainInv, pc = "findCandidate", NEW k \in Row
  PROVE  Honest(BestCandidate(k).tuple) /\ BestCandidate(k).p \in -1 .. MaxLen
<1>1. InputInv /\ ConflictInv /\ CandidateInv
  BY DEF DomainInv
<1> DEFINE D == DOMAIN conflicts[k]
           b(i) == Search(k, conflicts[k][i]).tuple
           q(i) == Likelihood(prob, b(i), DOMAIN b(i).idx)
           built == [i \in D |-> b(i)]
           p == [i \in D |-> Likelihood(prob, built[i], DOMAIN built[i].idx)]
           better == {i \in D : p[i] > candidate.p}
           best == CHOOSE i \in better :
                     \A j \in better : p[j] < p[i] \/ (p[j] = p[i] /\ i <= j)
<1>2. BestCandidate(k) = IF better = {} THEN candidate
                         ELSE [tuple |-> built[best], p |-> p[best]]
  BY DEF BestCandidate
<1>3. ASSUME NEW i \in D
      PROVE  Honest(b(i)) /\ q(i) \in 0 .. MaxLen
  <2>1. PICK ct : ct = conflicts[k][i] /\ Setting(ct)
    BY SettingHolds
  <2>2. Fine(Search(k, ct), 2 * Len(groups), ct)
    BY <1>1, <2>1, SearchFine
  <2>3. PICK t : t = b(i)
    OBVIOUS
  <2>4. Honest(t) /\ FilledUpTo(t, NAttrs * (2 * Len(groups) + 1))
    BY <2>1, <2>2, <2>3 DEF Fine
  <2>5. PICK n \in Nat : n = NAttrs * (2 * Len(groups) + 1) /\ n < MaxLen
    <3>1. PICK a \in Nat, g \in Nat, r \in Nat :
            a = NAttrs /\ g = Len(groups) /\ r = Len(rules) /\ g <= r
      BY <1>1, <2>1, DomainAssumption, MaxLenNat DEF Setting
    <3>2. PICK x \in Nat, y \in Nat : x = 2 * g + 1 /\ y = 2 * r + 1 /\ x <= y
      BY <3>1
    <3>c. y - x \in Nat /\ y = x + (y - x)
      BY <3>2
    <3>3. PICK z \in Nat : z = y - x /\ y = x + z
      BY <3>c
    <3>a. a * (x + z) = a * x + a * z
      BY Distributes
    <3>b. a * x \in Nat /\ a * z \in Nat
      OBVIOUS
    <3>4. a * y = a * x + a * z /\ a * x \in Nat /\ a * z \in Nat
      BY <3>3, <3>a, <3>b
    <3>5. a * x < a * y + 1
      BY <3>4
    <3>6. a * x = NAttrs * (2 * Len(groups) + 1) /\ MaxLen = a * y + 1
      BY <3>1, <3>2 DEF MaxLen
    <3>7. QED
      BY <3>4, <3>5, <3>6
  <2>6. {x \in DOMAIN t.idx : t.ctx[x] # Null} = Filled(t)
    BY DEF Filled
  <2>7. IsFiniteSet(Filled(t)) /\ Cardinality(Filled(t)) <= n
    BY <2>4, <2>5 DEF FilledUpTo
  <2>8. PICK at : at = DOMAIN t.idx
    OBVIOUS
  <2>9. Likelihood(prob, t, at) \in 0 .. MaxLen
    BY <1>1, <2>5, <2>6, <2>7, <2>8, LikelihoodRange
  <2>10. QED
    BY <2>3, <2>4, <2>8, <2>9
<1>4. \A i \in D : built[i] = b(i) /\ p[i] = q(i)
  OBVIOUS
<1>5. better \in SUBSET D
  OBVIOUS
<1> HIDE DEF b, q, built, p
<1>6. \A i \in D : Honest(built[i]) /\ p[i] \in 0 .. MaxLen
  BY <1>3, <1>4
<1>7. MaxLen \in Nat
  BY <1>1, MaxLenNat
<1>8. D \in SUBSET Nat
  <2>1. conflicts[k] \in Seq([tuple : RowTuples, domainID : DOMAIN groups])
    BY <1>1 DEF ConflictInv
  <2>2. QED
    BY <2>1
<1>9. CASE better = {}
  BY <1>1, <1>2, <1>9 DEF CandidateInv
<1>10. CASE better # {}
  <2> HIDE DEF better, D
  <2> DEFINE P == {p[i] : i \in better}
  <2>1. P \in SUBSET Nat /\ P # {} /\ \A x \in P : x <= MaxLen
    BY <1>5, <1>6, <1>7, <1>10
  <2>2. PICK m \in P : \A x \in P : x <= m
    <3> HIDE DEF P
    <3>1. QED
      BY <1>7, <2>1, GreatestNat
  <2> DEFINE I == {i \in better : p[i] = m}
  <2>3. I \in SUBSET Nat /\ I # {}
    BY <1>5, <1>8, <2>2
  <2>4. PICK i \in I : \A j \in I : i <= j
    <3> HIDE DEF I
    <3>1. QED
      BY <2>3, LeastNat
  <2>5. ASSUME NEW j \in better
        PROVE  p[j] < p[i] \/ (p[j] = p[i] /\ i <= j)
    <3>1. p[j] <= m /\ p[i] = m /\ p[j] \in Nat /\ m \in Nat
      BY <2>1, <2>2, <2>4
    <3>2. p[j] = m => i <= j
      BY <2>4
    <3>3. QED
      BY <3>1, <3>2
  <2>6. i \in better
    BY <2>4
  <2>7. best \in better
    BY <2>5, <2>6
  <2> HIDE DEF best
  <2>8. BestCandidate(k).tuple = built[best] /\ BestCandidate(k).p = p[best]
    BY <1>2, <1>10
  <2>9. Honest(built[best]) /\ p[best] \in 0 .. MaxLen
    BY <1>5, <1>6, <2>7
  <2>10. \A x \in 0 .. MaxLen : x \in -1 .. MaxLen
    BY <1>7
  <2>11. QED
    BY <2>8, <2>9, <2>10
<1>11. QED
  BY <1>9, <1>10

-----------------------------------------------------------------------------
(* What a repaired row holds.                                              *)
LEMMA RepairedIs ==
  ASSUME InputInv, dataSet \in [Row -> [Attr -> Value]], NoInventedValues, NEW k \in Row,
         NEW t, Honest(t)
  PROVE  /\ Repaired(k, t) \in [Attr -> Value]
         /\ \A a \in Attr : /\ \E m \in Row : Repaired(k, t)[a] = original[m][a]
                            /\ a \in Ignored => Repaired(k, t)[a] = original[k][a]
<1> DEFINE old(a) == IF a \in Ignored THEN dataSet[k][a] ELSE Null
           new == Overwrite([a \in Attr |-> old(a)], t)
<1>1. Repaired(k, t) = [a \in Attr |-> IF new[a] = Null THEN dataSet[k][a] ELSE new[a]]
  BY DEF Repaired
<1>2. /\ t.idx \in Seq(Attr)
      /\ \A i \in DOMAIN t.idx :
           t.ctx[i] = Null \/ (/\ t.idx[i] \notin Ignored
                               /\ \E m \in Row : t.ctx[i] = original[m][t.idx[i]])
  BY DEF Honest, IsTuple
<1>3. ASSUME NEW a \in Attr
      PROVE  /\ dataSet[k][a] \in Value
             /\ \E m \in Row : dataSet[k][a] = original[m][a]
             /\ a \in Ignored => dataSet[k][a] = original[k][a]
  BY DEF NoInventedValues
<1>4. ASSUME NEW a \in Attr
      PROVE  \/ new[a] = Null
             \/ a \in Ignored /\ new[a] = dataSet[k][a]
             \/ a \notin Ignored /\ \E m \in Row : new[a] = original[m][a]
  <2>1. new[a] = IF Places(t, a) = {} THEN old(a) ELSE t.ctx[LastOf(Places(t, a))]
    BY DEF Overwrite
  <2>2. CASE Places(t, a) = {}
    BY <2>1, <2>2
  <2>3. CASE Places(t, a) # {}
    <3>1. PICK n \in Nat : n = Len(t.idx) /\ DOMAIN t.idx = 1 .. n
      BY <1>2
    <3>2. PICK S : S = Places(t, a)
      OBVIOUS
    <3>3. S \in SUBSET (1 .. n) /\ \A i \in S : t.idx[i] = a
      BY <3>1, <3>2 DEF Places, Column
    <3>4. LastOf(S) \in S
      BY <2>3, <3>2, <3>3, LastOfIs
    <3>5. PICK i \in DOMAIN t.idx : i = LastOf(S) /\ t.idx[i] = a
      BY <3>1, <3>3, <3>4
    <3>6. new[a] = t.ctx[i]
      BY <2>1, <2>3, <3>2, <3>5
    <3> HIDE DEF new
    <3>7. QED
      BY <1>2, <3>5, <3>6
  <2>4. QED
    BY <2>2, <2>3
<1> HIDE DEF new
<1>5. ASSUME NEW a \in Attr
      PROVE  /\ \E m \in Row : Repaired(k, t)[a] = original[m][a]
             /\ a \in Ignored => Repaired(k, t)[a] = original[k][a]
             /\ Repaired(k, t)[a] \in Value
  <2>1. Repaired(k, t)[a] = IF new[a] = Null THEN dataSet[k][a] ELSE new[a]
    BY <1>1
  <2>2. \A m \in Row : original[m][a] \in Value
    BY DEF InputInv
  <2>3. CASE new[a] = Null
    BY <1>3, <2>1, <2>3
  <2>4. CASE new[a] # Null
    BY <1>3, <1>4, <2>1, <2>2, <2>4
  <2>5. QED
    BY <2>3, <2>4
<1>6. QED
  BY <1>1, <1>5

LEMMA RepairRowKeeps == DomainInv /\ RepairRow => DomainInv'
<1> SUFFICES ASSUME DomainInv, RepairRow
             PROVE  DomainInv'
  OBVIOUS
<1> DEFINE todo == {j \in Row : conflicts[j] # <<>> /\ j >= cursor[1]}
<1>1. PICK k : /\ k = CHOOSE j \in todo : \A l \in todo : j <= l
               /\ pc = "findCandidate" /\ todo # {}
               /\ IF Throws(k)
                  THEN pc' = "failed" /\ UNCHANGED <<dataSet, candidate, cursor>>
                  ELSE /\ candidate' = BestCandidate(k)
                       /\ dataSet' = [dataSet EXCEPT ![k] = Repaired(k, candidate'.tuple)]
                       /\ cursor' = <<k + 1>>
                       /\ UNCHANGED pc
               /\ UNCHANGED <<input, domains, groups, conflicts>>
  BY DEF RepairRow
<1>2. rules' = rules /\ original' = original /\ prob' = prob /\ UNCHANGED input
  BY <1>1 DEF input
<1>3. InputInv /\ InputInv' /\ Row' = Row /\ RowTuples' = RowTuples /\ RowGroups' = RowGroups
  BY <1>2, Frame DEF DomainInv
<1>4. k \in Row /\ conflicts[k] # <<>>
  <2>1. todo \in SUBSET Nat
    BY <1>3, RowFacts
  <2> HIDE DEF todo
  <2>2. k \in todo
    BY <1>1, <2>1, LeastNat
  <2>3. QED
    BY <2>2 DEF todo
<1> HIDE DEF todo
<1>5. ~ NoShared /\ ~ IsClean /\ ~ NoShared' /\ ~ IsClean'
  BY <1>2, <1>4, Frame DEF DomainInv, PeaceInv
<1>6. CASE Throws(k)
  <2>1. pc' = "failed" /\ UNCHANGED <<dataSet, candidate, cursor>>
    BY <1>1, <1>6
  <2>2. PICK j \in DOMAIN conflicts[k] : Search(k, conflicts[k][j]).end = "throws"
    BY <1>6 DEF Throws
  <2>3. PICK ct : ct = conflicts[k][j] /\ Setting(ct)
    BY <1>1, <1>4, SettingHolds
  <2>4. Fine(Search(k, ct), 2 * Len(groups), ct)
    BY <1>3, <1>4, <2>3, SearchFine
  <2>5. Len(rules) = 2 => Covered
    BY <2>2, <2>3, <2>4 DEF Fine
  <2>6. FailsOnlyCovered'
    BY <1>2, <1>5, <2>5 DEF FailsOnlyCovered, Covered, NoShared, Share
  <2>7. ShapeInv'
    BY <1>1, <1>2, <1>3, <2>1 DEF DomainInv, ShapeInv
  <2>8. CursorInv'
    BY <1>1, <1>3, <2>1 DEF DomainInv, CursorInv
  <2>9. pc' \in Combining
    BY <2>1 DEF Combining
  <2>10. \A d \in DOMAIN groups : \A g \in DOMAIN groups[d] : IsCorrected(groups[d][g])
    BY <1>1 DEF DomainInv, GroupInv, GroupsCorrected, Corrected
  <2>11. ListInv' /\ GroupInv'
    BY <1>1, <2>1, <2>10, ListsKept DEF DomainInv, GroupInv
  <2>12. ConflictInv'
    BY <1>1, <2>9, LateKept DEF DomainInv
  <2>13. PeaceInv'
    BY <1>5, <2>6 DEF PeaceInv
  <2>14. CandidateInv'
    BY <1>1, <2>1, Frame DEF DomainInv, CandidateInv
  <2>15. ResultInv'
    <3>1. NoInventedValues' /\ CleanDataKept'
      BY <1>1, <1>3, <2>1, ValuesKept DEF DomainInv, ResultInv
    <3>2. QED
      BY <1>5, <3>1 DEF ResultInv, Repairable
  <2>16. QED
    BY <1>3, <2>7, <2>8, <2>11, <2>12, <2>13, <2>14, <2>15 DEF DomainInv
<1>7. CASE ~ Throws(k)
  <2>1. PICK c : c = BestCandidate(k)
    OBVIOUS
  <2>2. /\ candidate' = c /\ cursor' = <<k + 1>> /\ pc' = "findCandidate"
        /\ dataSet' = [dataSet EXCEPT ![k] = Repaired(k, c.tuple)]
    BY <1>1, <1>7, <2>1
  <2>3. Honest(c.tuple) /\ c.p \in -1 .. MaxLen
    BY <1>1, <1>4, <2>1, BestCandidateIs
  <2>4. dataSet \in [Row -> [Attr -> Value]] /\ NoInventedValues
    BY DEF DomainInv, ShapeInv, ResultInv
  <2>5. PICK t : t = c.tuple
    OBVIOUS
  <2>6. PICK row : row = Repaired(k, t)
    OBVIOUS
  <2>7. /\ row \in [Attr -> Value]
        /\ \A a \in Attr : /\ \E m \in Row : row[a] = original[m][a]
                           /\ a \in Ignored => row[a] = original[k][a]
    BY <1>3, <1>4, <2>3, <2>4, <2>5, <2>6, RepairedIs
  <2>8. /\ dataSet' \in [Row -> [Attr -> Value]]
        /\ \A m \in Row : dataSet'[m] = IF m = k THEN row ELSE dataSet[m]
    BY <1>4, <2>2, <2>4, <2>5, <2>6, <2>7
  <2>9. ShapeInv'
    BY <1>1, <1>2, <1>3, <2>2, <2>8 DEF DomainInv, ShapeInv
  <2>10. CursorInv'
    <3>1. k + 1 \in 0 .. Cardinality(Row')
      BY <1>3, <1>4, RowFacts
    <3>2. QED
      BY <2>2, <3>1 DEF CursorInv
  <2>11. pc' \in Combining
    BY <2>2 DEF Combining
  <2>12. \A d \in DOMAIN groups : \A g \in DOMAIN groups[d] : IsCorrected(groups[d][g])
    BY <1>1 DEF DomainInv, GroupInv, GroupsCorrected, Corrected
  <2>13. ListInv' /\ GroupInv'
    BY <1>1, <2>2, <2>12, ListsKept DEF DomainInv, GroupInv
  <2>14. ConflictInv' /\ PeaceInv'
    BY <1>1, <2>2, <2>11, LateKept DEF DomainInv
  <2>15. CandidateInv'
    <3>1. Honest(candidate.tuple)'
      <4>1. Honest(t)'
        BY <1>2, <2>3, <2>5, Frame
      <4>2. t = candidate'.tuple
        BY <2>2, <2>5
      <4>3. QED
        BY <4>1, <4>2
    <3>2. MaxLen' = MaxLen
      BY <1>2, Frame
    <3>3. QED
      BY <2>2, <2>3, <3>1, <3>2 DEF CandidateInv
  <2>16. NoInventedValues'
    <3>1. Ignored' = Ignored
      BY <1>2, Frame
    <3>2. ASSUME NEW m \in Row, NEW a \in Attr
          PROVE  /\ \E l \in Row : dataSet'[m][a] = original[l][a]
                 /\ a \in Ignored => dataSet'[m][a] = original[m][a]
      <4>1. CASE m = k
        BY <2>7, <2>8, <4>1
      <4>2. CASE m # k
        BY <2>4, <2>8, <4>2 DEF NoInventedValues
      <4>3. QED
        BY <4>1, <4>2
    <3>3. QED
      BY <1>2, <1>3, <3>1, <3>2 DEF NoInventedValues
  <2>17. CleanDataKept'
    BY <1>5 DEF CleanDataKept, IsClean
  <2>18. ResultInv'
    BY <1>5, <2>16, <2>17 DEF ResultInv, Repairable
  <2>19. QED
    BY <1>3, <2>9, <2>10, <2>13, <2>14, <2>15, <2>18 DEF DomainInv
<1>8. QED
  BY <1>6, <1>7

-----------------------------------------------------------------------------
(* All steps keep the invariant.                                           *)
LEMMA DomainStep == DomainInv /\ [Next]_vars => DomainInv'
<1> SUFFICES ASSUME DomainInv, [Next]_vars
             PROVE  DomainInv'
  OBVIOUS
<1>1. CASE Partition
  BY <1>1, PartitionKeeps
<1>2. CASE GroupByKey
  BY <1>2, GroupByKeyKeeps
<1>3. CASE CorrectGroup
  BY <1>3, CorrectGroupKeeps
<1>4. CASE BeginCombine
  BY <1>4, BeginCombineKeeps
<1>5. CASE CombineGroups
  BY <1>5, CombineGroupsKeeps
<1>6. CASE NextDomain
  BY <1>6, NextDomainKeeps
<1>7. CASE WriteBack
  BY <1>7, WriteBackKeeps
<1>8. CASE RepairRow
  BY <1>8, RepairRowKeeps
<1>9. CASE Finish
  BY <1>9, FinishKeeps
<1>10. CASE Terminating \/ UNCHANGED vars
  BY <1>10, StutterKeeps DEF Terminating
<1>11. QED
  BY <1>1, <1>2, <1>3, <1>4, <1>5, <1>6, <1>7, <1>8, <1>9, <1>10 DEF Next

(* A data set satisfies a rule in its own words.                           *)
LEMMA ResultIsSound == DomainInv => ValuesSound
<1> SUFFICES ASSUME DomainInv
             PROVE  ValuesSound
  OBVIOUS
<1>1. ResultInv
  BY DEF DomainInv
<1>2. RulesSatisfied
  <2> SUFFICES ASSUME pc = "done", Len(groups) = Len(rules), Len(rules) > 1,
                      \A a \in Attr, v \in Value : prob[a][v] > 0,
                      \A q, r \in DOMAIN rules :
                        q # r => Columns(rules[q]) \cap Columns(rules[r]) = {}
               PROVE  \A r \in DOMAIN rules : Satisfies(dataSet, rules[r])
    BY DEF RulesSatisfied
  <2>1. NoShared
    BY DEF NoShared, Share
  <2>2. Repairable
    BY <2>1 DEF Repairable
  <2>3. QED
    BY <1>1, <2>2 DEF ResultInv
<1>3. QED
  BY <1>1, <1>2 DEF ResultInv, ValuesSound

(* The data set, for every number of columns, rows, rules and values: no    *)
(* cell ever holds a value that its column was not loaded with, columns no  *)
(* rule names keep theirs, clean data stays as it is, and rules that share  *)
(* no column hold in the result (correctByMLN, combineDomain,              *)
(* findCandidate).                                                         *)
THEOREM ValuesSoundHolds == Spec => []ValuesSound
<1>1. Spec => []DomainInv
  BY InitKeeps, DomainStep, PTL DEF Spec
<1>2. QED
  BY <1>1, ResultIsSound, PTL

LEMMA TypesHold == DomainInv => TypeOK
<1> SUFFICES ASSUME DomainInv
             PROVE  TypeOK
  OBVIOUS
<1>1. InputInv /\ ShapeInv /\ CursorInv /\ ConflictInv /\ CandidateInv
  BY DEF DomainInv
<1>2. ASSUME NEW t \in RowTuples
      PROVE  IsTuple(t)
  BY <1>1, RowTupleFacts DEF Honest
<1>3. \A r \in DOMAIN domains : \A k \in Row : IsTuple(domains[r][k])
  <2> SUFFICES ASSUME NEW r \in DOMAIN domains, NEW k \in Row
               PROVE  IsTuple(domains[r][k])
    OBVIOUS
  <2>1. domains \in Seq([Row -> RowTuples])
    BY <1>1 DEF ShapeInv
  <2>2. domains[r] \in [Row -> RowTuples]
    BY <2>1
  <2>3. QED
    BY <1>2, <2>2
<1>4. ASSUME NEW d \in DOMAIN groups, NEW g \in DOMAIN groups[d]
      PROVE  /\ DOMAIN groups[d][g] \subseteq Row
             /\ \A k \in DOMAIN groups[d][g] : IsTuple(groups[d][g][k])
  <2>1. groups \in Seq(Seq(RowGroups))
    BY <1>1 DEF ShapeInv
  <2>2. groups[d] \in Seq(RowGroups)
    BY <2>1
  <2>3. PICK G \in RowGroups : G = groups[d][g]
    BY <2>2
  <2>4. PICK S \in SUBSET Row : G \in [S -> RowTuples]
    BY DEF RowGroups
  <2>5. \A k \in S : G[k] \in RowTuples
    BY <2>4
  <2>6. QED
    BY <1>2, <2>3, <2>4, <2>5
<1>5. cursor \in Seq(Nat)
  <2>1. CASE pc \in {"init", "groupByKey"}
    <3>1. cursor = <<1, 1>>
      BY <1>1, <2>1 DEF CursorInv
    <3>2. QED
      BY <3>1
  <2>2. CASE pc = "correctByMLN"
    <3>1. PICK d \in 1 .. (Len(groups) + 1), g \in Nat \ {0} : cursor = <<d, g>>
      BY <1>1, <2>2 DEF CursorInv
    <3>2. d \in Nat
      OBVIOUS
    <3>3. QED
      BY <3>1, <3>2
  <2>3. CASE pc = "combineDomain"
    <3>1. PICK i \in 2 .. (Len(groups) + 1), p \in 1 .. (Len(groups[1]) + 1), c \in Nat \ {0} :
            cursor = <<i, p, c>>
      BY <1>1, <2>3 DEF CursorInv
    <3>2. i \in Nat /\ p \in Nat
      OBVIOUS
    <3>3. QED
      BY <3>1, <3>2
  <2>4. CASE pc \in {"findCandidate", "done", "failed"}
    <3>1. PICK c \in 0 .. Cardinality(Row) : cursor = <<c>>
      BY <1>1, <2>4 DEF CursorInv
    <3>2. c \in Nat
      OBVIOUS
    <3>3. QED
      BY <3>1, <3>2
  <2>5. QED
    BY <1>1, <2>1, <2>2, <2>3, <2>4 DEF ShapeInv
<1>6. ASSUME NEW k \in Row, NEW i \in DOMAIN conflicts[k]
      PROVE  IsTuple(conflicts[k][i].tuple) /\ conflicts[k][i].domainID \in DOMAIN groups
  <2>1. PICK R : R = [tuple : RowTuples, domainID : DOMAIN groups]
    OBVIOUS
  <2>2. PICK s : s = conflicts[k]
    OBVIOUS
  <2>3. s \in Seq(R)
    BY <1>1, <2>1, <2>2 DEF ConflictInv
  <2>4. s[i] \in R
    BY <2>2, <2>3
  <2>5. s[i].tuple \in RowTuples /\ s[i].domainID \in DOMAIN groups
    BY <2>1, <2>4
  <2>6. PICK t \in RowTuples : t = s[i].tuple
    BY <2>5
  <2>7. IsTuple(t)
    BY <1>2
  <2>8. QED
    BY <2>2, <2>5, <2>6, <2>7
<1>7. IsTuple(candidate.tuple) /\ candidate.p \in -1 .. MaxLen
  BY <1>1 DEF CandidateInv, Honest
<1>8. QED
  BY <1>1, <1>3, <1>4, <1>5, <1>6, <1>7 DEF TypeOK, InputInv, ShapeInv

LEMMA PassesAreSound == DomainInv => PassesSound
<1> SUFFICES ASSUME DomainInv
             PROVE  PassesSound
  OBVIOUS
<1>1. TypeOK
  BY TypesHold
<1>2. GroupsCorrected /\ TakenOut /\ ConflictDomain /\ FailsOnlyCovered
  BY DEF DomainInv, GroupInv, ConflictInv, PeaceInv
<1>3. DomainsAligned
  BY DEF DomainInv, ListInv, DomainsAligned
<1>4. QED
  BY <1>1, <1>2, <1>3 DEF PassesSound, ReferencesAgree

(* What the passes leave to each other, for every input: corrected groups,  *)
(* conflict tuples out of the groups and under their domains' numbers,      *)
(* types, and an exception only where rules overlap (Domain.java).         *)
THEOREM PassesSoundHolds == Spec => []PassesSound
<1>1. Spec => []DomainInv
  BY InitKeeps, DomainStep, PTL DEF Spec
<1>2. QED
  BY <1>1, PassesAreSound, PTL

-----------------------------------------------------------------------------
(* How little there is left to do in a method, and for a step what is left  *)
(* after it.                                                               *)
Less(new, old) ==
  /\ \E i \in 1 .. 4 : new[i] < old[i] /\ \A j \in 1 .. (i - 1) : new[j] = old[j]
  /\ \A i \in 1 .. 4 : new[i] >= 0

LEMMA LessAt1 ==
  ASSUME NEW a \in Int, NEW b \in Nat, NEW c, NEW d, NEW e, NEW x \in Nat, NEW y \in Nat,
         NEW z \in Nat, b < a
  PROVE  Less(<<b, x, y, z>>, <<a, c, d, e>>)
<1>1. <<b, x, y, z>>[1] < <<a, c, d, e>>[1] /\ 1 \in 1 .. 4
  OBVIOUS
<1>2. \A j \in 1 .. (1 - 1) : <<b, x, y, z>>[j] = <<a, c, d, e>>[j]
  OBVIOUS
<1>3. \A i \in 1 .. 4 : <<b, x, y, z>>[i] >= 0
  OBVIOUS
<1>4. QED
  BY <1>1, <1>2, <1>3 DEF Less

LEMMA LessAt2 ==
  ASSUME NEW a \in Nat, NEW b \in Int, NEW c, NEW d, NEW x \in Nat, NEW y \in Nat,
         NEW z \in Nat, x < b
  PROVE  Less(<<a, x, y, z>>, <<a, b, c, d>>)
<1>1. <<a, x, y, z>>[2] < <<a, b, c, d>>[2] /\ 2 \in 1 .. 4
  OBVIOUS
<1>2. \A j \in 1 .. (2 - 1) : <<a, x, y, z>>[j] = <<a, b, c, d>>[j]
  OBVIOUS
<1>3. \A i \in 1 .. 4 : <<a, x, y, z>>[i] >= 0
  OBVIOUS
<1>4. QED
  BY <1>1, <1>2, <1>3 DEF Less

LEMMA LessAt3 ==
  ASSUME NEW a \in Nat, NEW b \in Nat, NEW c \in Int, NEW d, NEW y \in Nat, NEW z \in Nat,
         y < c
  PROVE  Less(<<a, b, y, z>>, <<a, b, c, d>>)
<1>1. <<a, b, y, z>>[3] < <<a, b, c, d>>[3] /\ 3 \in 1 .. 4
  OBVIOUS
<1>2. \A j \in 1 .. (3 - 1) : <<a, b, y, z>>[j] = <<a, b, c, d>>[j]
  OBVIOUS
<1>3. \A i \in 1 .. 4 : <<a, b, y, z>>[i] >= 0
  OBVIOUS
<1>4. QED
  BY <1>1, <1>2, <1>3 DEF Less

LEMMA LessAt4 ==
  ASSUME NEW a \in Nat, NEW b \in Nat, NEW c \in Nat, NEW d \in Int, NEW z \in Nat, z < d
  PROVE  Less(<<a, b, c, z>>, <<a, b, c, d>>)
<1>1. <<a, b, c, z>>[4] < <<a, b, c, d>>[4] /\ 4 \in 1 .. 4
  OBVIOUS
<1>2. \A j \in 1 .. (4 - 1) : <<a, b, c, z>>[j] = <<a, b, c, d>>[j]
  OBVIOUS
<1>3. \A i \in 1 .. 4 : <<a, b, c, z>>[i] >= 0
  OBVIOUS
<1>4. QED
  BY <1>1, <1>2, <1>3 DEF Less

(* What the cursors say of the methods with loops.                         *)
LeftAgrees ==
  /\ pc = "init" => Left = <<5, 0, 0, 0>>
  /\ pc = "groupByKey" => Left = <<4, 0, 0, 0>>
  /\ pc = "correctByMLN" =>
       \E n \in Nat, m \in Nat :
         /\ Left = <<3, n, m, 0>> /\ n = Len(groups) + 1 - cursor[1]
         /\ cursor[1] <= Len(groups) => m = Len(groups[cursor[1]]) - cursor[2]
         /\ cursor[1] > Len(groups) => m = 0
  /\ pc = "combineDomain" =>
       \E n \in Nat, m \in Nat, l \in Nat :
         /\ Left = <<2, n, m, l>> /\ n = Len(groups) + 1 - cursor[1]
         /\ cursor[1] <= Len(groups) =>
              /\ m = Len(groups[1]) + 1 - cursor[2]
              /\ l = Len(groups[cursor[1]]) - cursor[3]
         /\ cursor[1] > Len(groups) => m = 0 /\ l = 0
  /\ pc = "findCandidate" =>
       \E n \in Nat : Left = <<1, n, 0, 0>> /\ n = Cardinality(Row) - cursor[1]
  /\ pc \in {"done", "failed"} => Left = <<0, 0, 0, 0>>

LEMMA LeftIs == DomainInv => LeftAgrees
<1> SUFFICES ASSUME DomainInv
             PROVE  LeftAgrees
  OBVIOUS
<1>1. /\ InputInv /\ ShapeInv /\ CursorInv
  BY DEF DomainInv
<1>2. /\ Len(groups) \in Nat /\ DOMAIN groups = 1 .. Len(groups)
      /\ \A d \in DOMAIN groups : /\ Len(groups[d]) \in Nat
                                  /\ DOMAIN groups[d] = 1 .. Len(groups[d])
  <2>1. groups \in Seq(Seq(RowGroups))
    BY <1>1 DEF ShapeInv
  <2>2. \A d \in DOMAIN groups : groups[d] \in Seq(RowGroups)
    BY <2>1
  <2>3. QED
    BY <2>1, <2>2
<1>3. pc = "init" => Left = <<5, 0, 0, 0>>
  BY DEF Left
<1>4. pc = "groupByKey" => Left = <<4, 0, 0, 0>>
  BY DEF Left
<1>5. ASSUME pc = "correctByMLN"
      PROVE  \E n \in Nat, m \in Nat :
               /\ Left = <<3, n, m, 0>> /\ n = Len(groups) + 1 - cursor[1]
               /\ cursor[1] <= Len(groups) => m = Len(groups[cursor[1]]) - cursor[2]
               /\ cursor[1] > Len(groups) => m = 0
  <2>1. PICK d \in 1 .. (Len(groups) + 1), g \in Nat \ {0} :
          cursor = <<d, g>> /\ (d \in DOMAIN groups => g \in DOMAIN groups[d])
    BY <1>1, <1>5 DEF CursorInv
  <2>2. cursor[1] = d /\ cursor[2] = g
    BY <2>1
  <2>3. PICK n \in Nat : n = Len(groups) + 1 - d
    <3>1. Len(groups) + 1 - d \in Nat
      BY <1>2
    <3>2. QED
      BY <3>1
  <2>4. PICK m \in Nat : m = IF d <= Len(groups) THEN Len(groups[d]) - g ELSE 0
    <3>1. CASE d <= Len(groups)
      <4>1. d \in DOMAIN groups /\ g \in 1 .. Len(groups[d]) /\ Len(groups[d]) \in Nat
        BY <1>2, <2>1, <3>1
      <4>2. Len(groups[d]) - g \in Nat
        BY <4>1
      <4>3. QED
        BY <3>1, <4>2
    <3>2. CASE ~ (d <= Len(groups))
      BY <3>2
    <3>3. QED
      BY <3>1, <3>2
  <2>5. Left = <<3, n, m, 0>>
    BY <1>5, <2>2, <2>3, <2>4 DEF Left
  <2>6. n = Len(groups) + 1 - cursor[1]
    BY <2>2, <2>3
  <2>7. cursor[1] <= Len(groups) => m = Len(groups[cursor[1]]) - cursor[2]
    BY <2>2, <2>4
  <2>8. cursor[1] > Len(groups) => m = 0
    BY <1>2, <2>2, <2>4
  <2>9. QED
    BY <2>5, <2>6, <2>7, <2>8
<1>6. ASSUME pc = "combineDomain"
      PROVE  \E n \in Nat, m \in Nat, l \in Nat :
               /\ Left = <<2, n, m, l>> /\ n = Len(groups) + 1 - cursor[1]
               /\ cursor[1] <= Len(groups) =>
                    /\ m = Len(groups[1]) + 1 - cursor[2]
                    /\ l = Len(groups[cursor[1]]) - cursor[3]
               /\ cursor[1] > Len(groups) => m = 0 /\ l = 0
  <2>1. PICK i \in 2 .. (Len(groups) + 1), p \in 1 .. (Len(groups[1]) + 1), c \in Nat \ {0} :
          cursor = <<i, p, c>> /\ (i \in DOMAIN groups => c \in DOMAIN groups[i])
    BY <1>1, <1>6 DEF CursorInv
  <2>2. cursor[1] = i /\ cursor[2] = p /\ cursor[3] = c
    BY <2>1
  <2>3. PICK n \in Nat : n = Len(groups) + 1 - i
    <3>1. Len(groups) + 1 - i \in Nat
      BY <1>2
    <3>2. QED
      BY <3>1
  <2>4. CASE i <= Len(groups)
    <3>1. 1 \in DOMAIN groups /\ i \in DOMAIN groups
      BY <1>2, <2>4
    <3>2. Len(groups[1]) \in Nat /\ Len(groups[i]) \in Nat /\ c \in 1 .. Len(groups[i])
      BY <1>2, <2>1, <3>1
    <3>3. Len(groups[1]) + 1 - p \in Nat /\ Len(groups[i]) - c \in Nat
      BY <3>2
    <3>4. PICK m \in Nat, l \in Nat : m = Len(groups[1]) + 1 - p /\ l = Len(groups[i]) - c
      BY <3>3
    <3>5. Left = <<2, n, m, l>>
      BY <1>6, <2>2, <2>3, <2>4, <3>4 DEF Left
    <3>6. n = Len(groups) + 1 - cursor[1]
      BY <2>2, <2>3
    <3>7. m = Len(groups[1]) + 1 - cursor[2] /\ l = Len(groups[cursor[1]]) - cursor[3]
      BY <2>2, <3>4
    <3>8. ~ (cursor[1] > Len(groups))
      BY <1>2, <2>2, <2>4
    <3>9. QED
      BY <3>5, <3>6, <3>7, <3>8
  <2>5. CASE ~ (i <= Len(groups))
    <3>1. n = 0
      BY <1>2, <2>3, <2>5
    <3>2. Left = <<2, n, 0, 0>>
      BY <1>6, <2>2, <2>5, <3>1 DEF Left
    <3>3. QED
      BY <1>2, <2>2, <2>3, <2>5, <3>2
  <2>6. QED
    BY <2>4, <2>5
<1>7. ASSUME pc = "findCandidate"
      PROVE  \E n \in Nat : Left = <<1, n, 0, 0>> /\ n = Cardinality(Row) - cursor[1]
  <2>1. PICK c \in 0 .. Cardinality(Row) : cursor = <<c>>
    BY <1>1, <1>7 DEF CursorInv
  <2>2. Cardinality(Row) \in Nat
    BY <1>1, RowFacts
  <2>3. Cardinality(Row) - c \in Nat /\ cursor[1] = c
    BY <2>1, <2>2
  <2>4. Left = <<1, Cardinality(Row) - cursor[1], 0, 0>>
    BY <1>7 DEF Left
  <2>5. QED
    BY <2>3, <2>4
<1>8. ASSUME pc \in {"done", "failed"}
      PROVE  Left = <<0, 0, 0, 0>>
  <2>1. pc = "done" => Left = <<0, 0, 0, 0>>
    BY Zenon DEF Left
  <2>2. pc = "failed" => Left = <<0, 0, 0, 0>>
    BY Zenon DEF Left
  <2>3. QED
    BY <1>8, <2>1, <2>2
<1>9. QED
  BY <1>3, <1>4, <1>5, <1>6, <1>7, <1>8 DEF LeftAgrees

(* Every step but the last leaves less to do.                              *)
LEMMA StepLeavesLess ==
  ASSUME DomainInv, DomainInv', Next
  PROVE  Less(Left', Left) \/ UNCHANGED vars
<1>1. LeftAgrees'
  BY LeftIs, PTL
<1>2. LeftAgrees
  BY LeftIs
<1>3. InputInv /\ ShapeInv /\ CursorInv /\ InputInv' /\ ShapeInv' /\ CursorInv'
  BY DEF DomainInv
<1>4. /\ Len(groups) \in Nat /\ DOMAIN groups = 1 .. Len(groups)
      /\ \A d \in DOMAIN groups : Len(groups[d]) \in Nat /\ Len(groups[d]) >= 1
  <2>1. groups \in Seq(Seq(RowGroups))
    BY <1>3 DEF ShapeInv
  <2>2. \A d \in DOMAIN groups : groups[d] \in Seq(RowGroups) /\ groups[d] # <<>>
    BY <1>3, <2>1 DEF ShapeInv
  <2>3. QED
    BY <2>1, <2>2
<1> HIDE DEF Left
<1>5. CASE Partition
  <2>1. pc = "init" /\ pc' = "groupByKey"
    BY <1>5 DEF Partition
  <2>2. Left = <<5, 0, 0, 0>> /\ Left' = <<4, 0, 0, 0>>
    BY <1>1, <1>2, <2>1 DEF LeftAgrees
  <2>3. Less(<<4, 0, 0, 0>>, <<5, 0, 0, 0>>)
    BY LessAt1
  <2>4. QED
    BY <2>2, <2>3
<1>6. CASE GroupByKey
  <2>1. pc = "groupByKey" /\ pc' = "correctByMLN"
    BY <1>6 DEF GroupByKey
  <2>2. PICK n \in Nat, m \in Nat : Left' = <<3, n, m, 0>>
    BY <1>1, <2>1 DEF LeftAgrees
  <2>3. Less(<<3, n, m, 0>>, <<4, 0, 0, 0>>)
    BY LessAt1
  <2>4. Left = <<4, 0, 0, 0>>
    BY <1>2, <2>1 DEF LeftAgrees
  <2>5. QED
    BY <2>2, <2>3, <2>4
<1>7. CASE CorrectGroup
  <2>1. /\ pc = "correctByMLN" /\ pc' = "correctByMLN" /\ cursor[1] <= Len(groups)
        /\ cursor' = IF cursor[2] < Len(groups[cursor[1]])
                     THEN <<cursor[1], cursor[2] + 1>> ELSE <<cursor[1] + 1, 1>>
    BY <1>7 DEF CorrectGroup
  <2>3. PICK d \in 1 .. (Len(groups) + 1), g \in Nat \ {0} : cursor = <<d, g>>
    BY <1>3, <2>1 DEF CursorInv
  <2>4. cursor[1] = d /\ cursor[2] = g /\ d \in DOMAIN groups
    BY <1>4, <2>1, <2>3
  <2>2. Len(groups') = Len(groups) /\ Len(groups'[d]) = Len(groups[d])
    BY <1>7, <2>4, CorrectGroupShape
  <2>5. PICK n \in Nat, m \in Nat : Left = <<3, n, m, 0>> /\ n = Len(groups) + 1 - d
                                    /\ m = Len(groups[d]) - g
    BY <1>2, <2>1, <2>4 DEF LeftAgrees
  <2>6. PICK x \in Nat, y \in Nat :
          /\ Left' = <<3, x, y, 0>> /\ x = Len(groups) + 1 - cursor'[1]
          /\ cursor'[1] <= Len(groups) => y = Len(groups'[cursor'[1]]) - cursor'[2]
    BY <1>1, <2>1, <2>2 DEF LeftAgrees
  <2>7. CASE g < Len(groups[d])
    <3>1. cursor'[1] = d /\ cursor'[2] = g + 1
      BY <2>1, <2>4, <2>7
    <3>2. x = n /\ y = Len(groups[d]) - (g + 1)
      BY <2>1, <2>2, <2>4, <2>5, <2>6, <3>1
    <3>3. y < m
      BY <1>4, <2>4, <2>5, <3>2
    <3>4. Less(<<3, n, y, 0>>, <<3, n, m, 0>>)
      BY <3>3, LessAt3
    <3>5. QED
      BY <2>5, <2>6, <3>2, <3>4
  <2>8. CASE ~ (g < Len(groups[d]))
    <3>1. cursor'[1] = d + 1
      BY <2>1, <2>4, <2>8
    <3>2. x < n
      BY <1>4, <2>5, <2>6, <3>1
    <3>3. Less(<<3, x, y, 0>>, <<3, n, m, 0>>)
      BY <3>2, LessAt2
    <3>4. QED
      BY <2>5, <2>6, <3>3
  <2>9. QED
    BY <2>7, <2>8
<1>8. CASE BeginCombine
  <2>1. pc = "correctByMLN" /\ pc' \in {"failed", "findCandidate", "combineDomain"}
    <3>1. /\ pc = "correctByMLN"
          /\ pc' = CASE Len(groups) = 0 -> "failed"
                     [] Len(groups) = 1 -> "findCandidate"
                     [] OTHER -> "combineDomain"
      BY <1>8 DEF BeginCombine
    <3>2. CASE Len(groups) = 0
      BY <3>1, <3>2
    <3>3. CASE Len(groups) = 1
      BY <3>1, <3>3
    <3>4. CASE ~ (Len(groups) = 0) /\ ~ (Len(groups) = 1)
      <4>1. pc' = "combineDomain"
        BY <3>1, <3>4, Zenon
      <4>2. QED
        BY <3>1, <4>1
    <3>5. QED
      BY <3>2, <3>3, <3>4
  <2>2. PICK n \in Nat, m \in Nat : Left = <<3, n, m, 0>>
    BY <1>2, <2>1 DEF LeftAgrees
  <2>3. PICK b \in {0, 1, 2}, x \in Nat, y \in Nat, z \in Nat : Left' = <<b, x, y, z>>
    <3>1. CASE pc' = "failed"
      BY <1>1, <3>1 DEF LeftAgrees
    <3>2. CASE pc' = "findCandidate"
      BY <1>1, <3>2 DEF LeftAgrees
    <3>3. CASE pc' = "combineDomain"
      BY <1>1, <3>3 DEF LeftAgrees
    <3>4. QED
      BY <2>1, <3>1, <3>2, <3>3
  <2>4. Less(<<b, x, y, z>>, <<3, n, m, 0>>)
    BY LessAt1
  <2>5. QED
    BY <2>2, <2>3, <2>4
<1>9. CASE CombineGroups
  <2>1. /\ pc = "combineDomain" /\ pc' = "combineDomain"
        /\ cursor[1] <= Len(groups) /\ cursor[2] <= Len(groups[1])
        /\ \/ cursor' = <<cursor[1], cursor[2] + 1, cursor[3]>>
           \/ cursor' = <<cursor[1], cursor[2] + 1, 1>>
           \/ /\ cursor' = <<cursor[1], cursor[2], cursor[3] + 1>> /\ groups' = groups
              /\ cursor[3] < Len(groups[cursor[1]])
    BY <1>9 DEF CombineGroups, WrapAround
  <2>2. PICK i \in 2 .. (Len(groups) + 1), p \in 1 .. (Len(groups[1]) + 1), c \in Nat \ {0} :
          cursor = <<i, p, c>>
    BY <1>3, <2>1 DEF CursorInv
  <2>3. cursor[1] = i /\ cursor[2] = p /\ cursor[3] = c /\ i \in DOMAIN groups
        /\ 1 \in DOMAIN groups
    BY <1>4, <2>1, <2>2
  <2>4. Len(groups') = Len(groups) /\ Len(groups'[1]) = Len(groups[1])
    <3>1. PICK rows : rows = ConflictRows(groups[1][p], groups[i][c])
      OBVIOUS
    <3>2. Combined(i, p, c, rows)
      BY <1>9, <2>3, <3>1, CombineShape
    <3>3. QED
      BY <2>3, <3>2 DEF Combined
  <2>5. PICK n \in Nat, m \in Nat, l \in Nat :
          /\ Left = <<2, n, m, l>> /\ n = Len(groups) + 1 - i
          /\ m = Len(groups[1]) + 1 - p /\ l = Len(groups[i]) - c
    BY <1>2, <2>1, <2>3 DEF LeftAgrees
  <2>6. cursor'[1] = i
    BY <2>1, <2>3
  <2>7. PICK x \in Nat, y \in Nat, z \in Nat :
          /\ Left' = <<2, x, y, z>> /\ x = n
          /\ y = Len(groups[1]) + 1 - cursor'[2]
          /\ z = Len(groups'[i]) - cursor'[3]
    BY <1>1, <2>1, <2>3, <2>4, <2>5, <2>6 DEF LeftAgrees
  <2>8. CASE cursor'[2] = p + 1
    <3>1. y < m
      BY <1>4, <2>3, <2>5, <2>7, <2>8
    <3>2. Less(<<2, n, y, z>>, <<2, n, m, l>>)
      BY <3>1, LessAt3
    <3>3. QED
      BY <2>5, <2>7, <3>2
  <2>9. CASE cursor' = <<i, p, c + 1>> /\ groups' = groups
    <3>1. y = m /\ z < l
      BY <1>4, <2>3, <2>5, <2>7, <2>9
    <3>2. Less(<<2, n, m, z>>, <<2, n, m, l>>)
      BY <3>1, LessAt4
    <3>3. QED
      BY <2>5, <2>7, <3>1, <3>2
  <2>10. QED
    BY <2>1, <2>3, <2>8, <2>9
<1>10. CASE NextDomain
  <2>1. /\ pc = "combineDomain" /\ pc' = "combineDomain" /\ groups' = groups
        /\ cursor[1] <= Len(groups) /\ cursor' = <<cursor[1] + 1, 1, 1>>
    BY <1>10 DEF NextDomain
  <2>2. PICK i \in 2 .. (Len(groups) + 1), p \in 1 .. (Len(groups[1]) + 1), c \in Nat \ {0} :
          cursor = <<i, p, c>>
    BY <1>3, <2>1 DEF CursorInv
  <2>3. cursor[1] = i /\ cursor'[1] = i + 1
    BY <2>1, <2>2
  <2>4. PICK n \in Nat, m \in Nat, l \in Nat :
          Left = <<2, n, m, l>> /\ n = Len(groups) + 1 - i
    BY <1>2, <2>1, <2>3 DEF LeftAgrees
  <2>5. PICK x \in Nat, y \in Nat, z \in Nat :
          Left' = <<2, x, y, z>> /\ x = Len(groups) + 1 - (i + 1)
    BY <1>1, <2>1, <2>3 DEF LeftAgrees
  <2>6. x < n
    BY <1>4, <2>4, <2>5
  <2>7. Less(<<2, x, y, z>>, <<2, n, m, l>>)
    BY <2>6, LessAt2
  <2>8. QED
    BY <2>4, <2>5, <2>7
<1>11. CASE WriteBack
  <2>1. pc = "combineDomain" /\ pc' = "findCandidate"
    BY <1>11 DEF WriteBack
  <2>2. PICK n \in Nat, m \in Nat, l \in Nat : Left = <<2, n, m, l>>
    BY <1>2, <2>1 DEF LeftAgrees
  <2>3. PICK x \in Nat : Left' = <<1, x, 0, 0>>
    BY <1>1, <2>1 DEF LeftAgrees
  <2>4. Less(<<1, x, 0, 0>>, <<2, n, m, l>>)
    BY LessAt1
  <2>5. QED
    BY <2>2, <2>3, <2>4
<1>12. CASE RepairRow
  <2>1. PICK k : /\ k = CHOOSE j \in {i \in Row : conflicts[i] # <<>> /\ i >= cursor[1]} :
                          \A l \in {i \in Row : conflicts[i] # <<>> /\ i >= cursor[1]} : j <= l
                 /\ pc = "findCandidate"
                 /\ {j \in Row : conflicts[j] # <<>> /\ j >= cursor[1]} # {}
                 /\ pc' = "failed" \/ (cursor' = <<k + 1>> /\ pc' = "findCandidate")
                 /\ UNCHANGED input
    BY <1>12 DEF RepairRow
  <2>2. PICK n \in Nat : Left = <<1, n, 0, 0>> /\ n = Cardinality(Row) - cursor[1]
    BY <1>2, <2>1 DEF LeftAgrees
  <2>3. CASE pc' = "failed"
    <3>1. Left' = <<0, 0, 0, 0>>
      BY <1>1, <2>3 DEF LeftAgrees
    <3>2. Less(<<0, 0, 0, 0>>, <<1, n, 0, 0>>)
      BY LessAt1
    <3>3. QED
      BY <2>2, <3>1, <3>2
  <2>4. CASE cursor' = <<k + 1>> /\ pc' = "findCandidate"
    <3> DEFINE todo == {j \in Row : conflicts[j] # <<>> /\ j >= cursor[1]}
    <3>1. Row \in SUBSET Nat /\ Row' = Row /\ Cardinality(Row) \in Nat
      BY <1>3, <2>1, Frame, RowFacts
    <3>2. k \in todo
      <4>1. todo \in SUBSET Nat /\ todo # {} /\ k = CHOOSE j \in todo : \A l \in todo : j <= l
        BY <2>1, <3>1
      <4> HIDE DEF todo
      <4>2. QED
        BY <4>1, LeastNat
    <3>3. k \in Nat /\ k >= cursor[1] /\ cursor'[1] = k + 1
      BY <2>4, <3>1, <3>2
    <3>4. PICK x \in Nat : Left' = <<1, x, 0, 0>> /\ x = Cardinality(Row) - (k + 1)
      BY <1>1, <2>4, <3>1, <3>3 DEF LeftAgrees
    <3>5. PICK c \in 0 .. Cardinality(Row) : cursor = <<c>>
      BY <1>3, <2>1 DEF CursorInv
    <3>6. cursor[1] = c /\ c \in Nat
      BY <3>1, <3>5
    <3>7. x < n
      BY <2>2, <3>1, <3>3, <3>4, <3>6
    <3>8. Less(<<1, x, 0, 0>>, <<1, n, 0, 0>>)
      BY <3>7, LessAt2
    <3>9. QED
      BY <2>2, <3>4, <3>8
  <2>5. QED
    BY <2>1, <2>3, <2>4
<1>13. CASE Finish
  <2>1. pc = "findCandidate" /\ pc' = "done"
    BY <1>13 DEF Finish
  <2>2. PICK n \in Nat : Left = <<1, n, 0, 0>>
    BY <1>2, <2>1 DEF LeftAgrees
  <2>3. Left' = <<0, 0, 0, 0>>
    BY <1>1, <2>1 DEF LeftAgrees
  <2>4. Less(<<0, 0, 0, 0>>, <<1, n, 0, 0>>)
    BY LessAt1
  <2>5. QED
    BY <2>2, <2>3, <2>4
<1>14. CASE Terminating
  BY <1>14 DEF Terminating
<1>15. QED
  BY <1>5, <1>6, <1>7, <1>8, <1>9, <1>10, <1>11, <1>12, <1>13, <1>14 DEF Next

(* Each step of the cleaning leaves less to do, with no count below zero:  *)
(* the walk over two lists of groups in combineDomain, which moves one     *)
(* index or the other, comes to an end whatever the groups are.            *)
THEOREM LessToDoHolds == Spec => LessToDo
<1>1. DomainInv /\ DomainInv' /\ [Next]_vars =>
        [/\ \E i \in 1 .. 4 : Left'[i] < Left[i] /\ \A j \in 1 .. (i - 1) : Left'[j] = Left[j]
         /\ \A i \in 1 .. 4 : Left'[i] >= 0]_vars
  BY StepLeavesLess DEF Less
<1>2. QED
  BY <1>1, InitKeeps, DomainStep, PTL DEF Spec, LessToDo
=============================================================================
