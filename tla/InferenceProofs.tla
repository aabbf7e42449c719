-------------------------- MODULE InferenceProofs ---------------------------
(***************************************************************************)
(* Proofs about what inference is built of: HashArray for any set of       *)
(* elements, UnionFind for any finite set of records with any weights, the *)
(* partitioning of a ground MRF and the inference on its buckets for any   *)
(* finite MRF and any settings, and the worker threads of a bucket for any *)
(* number of buckets, components and threads, whichever components fail.   *)
(***************************************************************************)
EXTENDS HashArray, UnionFind, InferPartitioned, InferBucket, Sums

(* The elements of the list are those of the map, each at one position.    *)
LEMMA ListIsMembers ==
  ASSUME IndexInv
  PROVE  /\ Range(list) = Members
         /\ \A i, j \in 1 .. Len(list) : list[i] = list[j] => i = j
         /\ DOMAIN list = 1 .. Len(list)
BY DEF IndexInv, ArrayTypeOK, IndicesMatch, Range

LEMMA AddKeeps ==
  ASSUME IndexInv, NEW e \in Elem, Add(e)
  PROVE  IndexInv' /\ Range(list') = Range(list) \cup {e}
<1> USE DEF IndexInv, ArrayTypeOK
<1>1. /\ list \in Seq(Elem) /\ Len(list) \in Nat
      /\ Len(list') = Len(list) + 1
      /\ \A i \in 1 .. Len(list) : list'[i] = list[i]
      /\ list'[Len(list) + 1] = e
      /\ list' \in Seq(Elem)
  BY DEF Add
<1>2. /\ Members' = Members \cup {e}
      /\ e \notin Members
      /\ indices'[e] = Len(list) + 1
      /\ \A x \in Members : indices'[x] = indices[x]
  BY DEF Add, Members, contains, NewIndex
<1>3. ArrayTypeOK'
  <2>1. indices' \in [Members' -> Nat \ {0}]
    <3>1. indices' = [x \in Members' |-> IF x = e THEN Len(list) + 1 ELSE indices[x]]
      BY <1>2 DEF Add, NewIndex
    <3>2. QED
      BY <1>1, <1>2, <3>1
  <2>2. QED
    BY <1>1, <1>2, <2>1 DEF Add
<1>4. IndicesMatch'
  <2>1. ASSUME NEW i \in 1 .. Len(list')
        PROVE  list'[i] \in Members' /\ indices'[list'[i]] = i
    <3>1. CASE i = Len(list) + 1
      BY <1>1, <1>2, <3>1
    <3>2. CASE i \in 1 .. Len(list)
      BY <1>1, <1>2, <3>2 DEF IndicesMatch
    <3>3. QED
      BY <1>1, <2>1, <3>1, <3>2
  <2>2. ASSUME NEW x \in Members'
        PROVE  indices'[x] \in 1 .. Len(list') /\ list'[indices'[x]] = x
    BY <1>1, <1>2, <2>2 DEF IndicesMatch
  <2>3. size' = Len(list')
    BY <1>1 DEF Add, IndicesMatch
  <2>4. QED
    BY <2>1, <2>2, <2>3 DEF IndicesMatch
<1>5. IndexInv /\ IndexInv'
  BY <1>3, <1>4
<1>6. Range(list) = Members /\ Range(list') = Members'
  BY <1>5, <1>1 DEF IndicesMatch, Range
<1>7. QED
  BY <1>2, <1>5, <1>6

LEMMA RemoveKeeps ==
  ASSUME IndexInv, NEW i \in 1 .. Len(list), RemoveIdx(i)
  PROVE  IndexInv' /\ Range(list') = Range(list) \ {list[i]}
<1> DEFINE n == Len(list)
           e == list[i]
<1> USE DEF IndexInv, ArrayTypeOK
<1>1. /\ n \in Nat \ {0} /\ n \in 1 .. n
      /\ \A k \in 1 .. n : list[k] \in Elem
  OBVIOUS
<1>2. /\ list' \in Seq(Elem)
      /\ Len(list') = n - 1
      /\ \A k \in 1 .. (n - 1) : list'[k] = IF k = i THEN list[n] ELSE list[k]
  <2>1. list' = [k \in 1 .. (n - 1) |-> IF k = i THEN list[n] ELSE list[k]]
    BY DEF RemoveIdx
  <2>2. n - 1 \in Nat /\ \A k \in 1 .. (n - 1) : (IF k = i THEN list[n] ELSE list[k]) \in Elem
    BY <1>1
  <2>3. QED
    BY <2>1, <2>2
<1>3. /\ Members' = Members \ {e}
      /\ \A x \in Members' : indices'[x] = IF x = list[n] THEN i ELSE indices[x]
      /\ indices' = [x \in Members' |-> IF x = list[n] THEN i ELSE indices[x]]
  BY DEF RemoveIdx, Members, Moved
<1>4. \A j, k \in 1 .. n : list[j] = list[k] => j = k
  BY DEF IndicesMatch
<1>5. ArrayTypeOK'
  <2>1. indices' \in [Members' -> Nat \ {0}] /\ Members' \subseteq Elem
    BY <1>1, <1>3
  <2>2. size' \in Nat
    BY <1>1 DEF RemoveIdx, IndicesMatch
  <2>3. QED
    BY <1>2, <2>1, <2>2
<1>6. IndicesMatch'
  <2>1. ASSUME NEW k \in 1 .. (n - 1)
        PROVE  list'[k] \in Members' /\ indices'[list'[k]] = k
    <3>1. CASE k = i
      <4>1. list'[k] = list[n] /\ list[n] # e
        BY <1>1, <1>2, <1>4, <2>1, <3>1
      <4>2. QED
        BY <1>1, <1>3, <3>1, <4>1 DEF IndicesMatch
    <3>2. CASE k # i
      <4>1. k \in 1 .. n /\ k # n
        BY <1>1, <2>1
      <4>2. list'[k] = list[k] /\ list[k] # e /\ list[k] # list[n]
        BY <1>1, <1>2, <1>4, <2>1, <3>2, <4>1
      <4>3. QED
        BY <1>3, <4>1, <4>2 DEF IndicesMatch
    <3>3. QED
      BY <3>1, <3>2
  <2>2. ASSUME NEW x \in Members'
        PROVE  indices'[x] \in 1 .. (n - 1) /\ list'[indices'[x]] = x
    <3>1. x \in Members /\ x # e /\ indices[x] \in 1 .. n /\ list[indices[x]] = x
      BY <1>3, <2>2 DEF IndicesMatch
    <3>2. CASE x = list[n]
      <4>1. indices'[x] = i /\ i # n
        BY <1>3, <2>2, <3>1, <3>2
      <4>2. QED
        BY <1>1, <1>2, <3>2, <4>1
    <3>3. CASE x # list[n]
      <4>1. indices'[x] = indices[x] /\ indices[x] # n /\ indices[x] # i
        BY <1>3, <2>2, <3>1, <3>3
      <4>2. QED
        BY <1>1, <1>2, <3>1, <4>1
    <3>4. QED
      BY <3>2, <3>3
  <2>3. size' = n - 1
    BY DEF RemoveIdx, IndicesMatch
  <2>4. QED
    BY <1>2, <2>1, <2>2, <2>3 DEF IndicesMatch
<1>7. IndexInv /\ IndexInv'
  BY <1>5, <1>6
<1>8. Range(list) = Members /\ Range(list') = Members'
  <2>1. DOMAIN list' = 1 .. (n - 1) /\ Len(list') = n - 1
    BY <1>2
  <2>2. Range(list') = Members'
    BY <1>6, <2>1 DEF IndicesMatch, Range
  <2>3. QED
    BY <2>2 DEF IndicesMatch, Range
<1>9. QED
  BY <1>3, <1>7, <1>8

LEMMA ClearKeeps ==
  ASSUME IndexInv, Clear
  PROVE  IndexInv'
BY DEF Clear, IndexInv, ArrayTypeOK, IndicesMatch, Members

LEMMA Inductive ==
  ASSUME IndexInv, [ArrayNext]_array
  PROVE  IndexInv'
<1>1. ASSUME NEW e \in Elem, Add(e) PROVE IndexInv'
  BY <1>1, AddKeeps
<1>2. ASSUME NEW e \in Elem, RemoveObj(e) PROVE IndexInv'
  <2>1. indices[e] \in 1 .. Len(list) /\ RemoveIdx(indices[e])
    BY <1>2 DEF RemoveObj, contains, IndexInv, IndicesMatch, Members
  <2>2. QED
    BY <2>1, RemoveKeeps
<1>3. ASSUME NEW i \in 1 .. Len(list), RemoveIdx(i) PROVE IndexInv'
  BY <1>3, RemoveKeeps
<1>4. CASE Clear
  BY <1>4, ClearKeeps
<1>5. CASE UNCHANGED array
  BY <1>5 DEF array, IndexInv, ArrayTypeOK, IndicesMatch, Members
<1>6. QED
  BY <1>1, <1>2, <1>3, <1>4, <1>5 DEF ArrayNext

LEMMA InitHolds == ArrayInit => IndexInv
BY DEF ArrayInit, IndexInv, ArrayTypeOK, IndicesMatch, Members

(* The map and the list always agree, so that contains() and removeObj()   *)
(* never meet an index that is stale.                                      *)
THEOREM IndexInvHolds == ArraySpec => []IndexInv
<1>1. IndexInv /\ [ArrayNext]_array => IndexInv'
  BY Inductive
<1>2. QED
  BY <1>1, InitHolds, PTL DEF ArraySpec

(* removeObj() takes out the element it is asked to, and that one only.    *)
THEOREM ChangesOnlyOneHolds == ArraySpec => ChangesOnlyOne
<1> DEFINE Change ==
      \A e \in Elem :
        /\ RemoveObj(e) => Range(list') = Range(list) \ {e}
        /\ Add(e) => Range(list') = Range(list) \cup {e}
<1>1. IndexInv /\ [ArrayNext]_array => [Change]_array
  <2> SUFFICES ASSUME IndexInv, NEW e \in Elem
               PROVE  /\ RemoveObj(e) => Range(list') = Range(list) \ {e}
                      /\ Add(e) => Range(list') = Range(list) \cup {e}
    OBVIOUS
  <2>1. ASSUME RemoveObj(e) PROVE Range(list') = Range(list) \ {e}
    <3>1. /\ indices[e] \in 1 .. Len(list) /\ RemoveIdx(indices[e])
          /\ list[indices[e]] = e
      BY <2>1 DEF RemoveObj, contains, IndexInv, IndicesMatch, Members
    <3>2. Range(list') = Range(list) \ {list[indices[e]]}
      BY <3>1, RemoveKeeps
    <3>3. QED
      BY <3>1, <3>2
  <2>2. ASSUME Add(e) PROVE Range(list') = Range(list) \cup {e}
    BY <2>2, AddKeeps
  <2>3. QED
    BY <2>1, <2>2
<1>2. IndexInv /\ [ArrayNext]_array => IndexInv'
  BY Inductive
<1>3. QED
  BY <1>1, <1>2, InitHolds, PTL DEF ArraySpec, ChangesOnlyOne

-----------------------------------------------------------------------------
(***************************************************************************)
(* UnionFind, for any finite set of records.                               *)
(***************************************************************************)
Parents == [Record -> Record \cup {NoParent}]

Sizes == [Record -> Nat \ {0}]

(* Every tree is at most half the size of the one it hangs in: this makes  *)
(* the trees flat, and keeps them free of cycles.                          *)
Doubling(p, size0) ==
  \A x \in Record : p[x] # NoParent => 2 * size0[x] <= size0[p[x]]

Closed(p, C) == \A z \in C : p[z] # NoParent => p[z] \in C

(* What is on the way from x upwards, said without recursion.              *)
Up(p, x) == {y \in Record : \A C \in SUBSET Record : x \in C /\ Closed(p, C) => y \in C}

LEMMA UpUnfolds ==
  ASSUME GoodInput, NEW p \in Parents, NEW x \in Record
  PROVE  Up(p, x) = {x} \cup IF p[x] = NoParent THEN {} ELSE Up(p, p[x])
<1>1. \A y \in Record : y \in Up(p, y) /\ Closed(p, Up(p, y)) /\ Up(p, y) \subseteq Record
  <2> SUFFICES ASSUME NEW y \in Record
               PROVE  y \in Up(p, y) /\ Closed(p, Up(p, y)) /\ Up(p, y) \subseteq Record
    OBVIOUS
  <2>1. ASSUME NEW z \in Up(p, y), p[z] # NoParent
        PROVE  p[z] \in Up(p, y)
    <3>1. z \in Record /\ p[z] \in Record
      BY <2>1 DEF Up, Parents
    <3>2. ASSUME NEW C \in SUBSET Record, y \in C, Closed(p, C)
          PROVE  p[z] \in C
      BY <2>1, <3>2 DEF Up, Closed
    <3>3. QED
      BY <3>1, <3>2 DEF Up
  <2>2. QED
    BY <2>1 DEF Up, Closed
<1>2. \A C \in SUBSET Record : \A y \in C : Closed(p, C) => Up(p, y) \subseteq C
  BY DEF Up
<1>3. CASE p[x] = NoParent
  <2>1. Closed(p, {x})
    BY <1>3 DEF Closed
  <2>2. Up(p, x) \subseteq {x} /\ x \in Up(p, x)
    BY <1>1, <1>2, <2>1
  <2>3. QED
    BY <1>3, <2>2
<1>4. CASE p[x] # NoParent
  <2>1. p[x] \in Record
    BY <1>4 DEF Parents
  <2>2. Up(p, p[x]) \subseteq Up(p, x)
    <3>1. p[x] \in Up(p, x)
      BY <1>1, <1>4 DEF Closed
    <3>2. QED
      BY <1>1, <1>2, <3>1
  <2>3. Closed(p, {x} \cup Up(p, p[x]))
    BY <1>1, <2>1 DEF Closed
  <2>4. {x} \cup Up(p, p[x]) \in SUBSET Record
    BY <1>1, <2>1
  <2>5. Up(p, x) \subseteq {x} \cup Up(p, p[x])
    BY <1>2, <2>3, <2>4
  <2>6. QED
    BY <1>1, <1>4, <2>2, <2>5
<1>5. QED
  BY <1>3, <1>4

(* There are functions that the recursions of PathIn and RootIn describe.  *)
LEMMA PathUnfolds ==
  ASSUME GoodInput, NEW p \in Parents, NEW x \in Record
  PROVE  PathIn(p)[x] = {x} \cup IF p[x] = NoParent THEN {} ELSE PathIn(p)[p[x]]
<1> DEFINE Is(f) ==
             f = [y \in Record |-> {y} \cup IF p[y] = NoParent THEN {} ELSE f[p[y]]]
           g == [y \in Record |-> Up(p, y)]
<1>1. PathIn(p) = CHOOSE f : Is(f)
  BY DEF PathIn
<1>2. Is(g)
  <2>1. \A y \in Record : p[y] # NoParent => g[p[y]] = Up(p, p[y])
    BY DEF Parents
  <2>2. \A y \in Record :
          Up(p, y) = {y} \cup IF p[y] = NoParent THEN {} ELSE g[p[y]]
    BY <2>1, UpUnfolds
  <2>3. QED
    BY <2>2
<1>3. Is(PathIn(p))
  <2> HIDE DEF Is, g
  <2>1. QED
    BY <1>1, <1>2
<1>4. QED
  BY <1>3

LEMMA RootUnfolds ==
  ASSUME GoodInput, NEW p \in Parents, NEW x \in Record
  PROVE  RootIn(p)[x] = IF p[x] = NoParent THEN x ELSE RootIn(p)[p[x]]
<1> DEFINE Is(f) == f = [y \in Record |-> IF p[y] = NoParent THEN y ELSE f[p[y]]]
           Tops(y) == {r \in Up(p, y) : p[r] = NoParent}
           g == [y \in Record |-> CHOOSE r : r \in Tops(y)]
<1>1. RootIn(p) = CHOOSE f : Is(f)
  BY DEF RootIn
<1>2. Is(g)
  <2>1. ASSUME NEW y \in Record, p[y] = NoParent
        PROVE  g[y] = y
    <3>1. Tops(y) = {y}
      BY <2>1, UpUnfolds
    <3>2. QED
      BY <3>1
  <2>2. ASSUME NEW y \in Record, p[y] # NoParent
        PROVE  g[y] = g[p[y]]
    <3>1. Tops(y) = Tops(p[y]) /\ p[y] \in Record
      BY <2>2, UpUnfolds DEF Parents
    <3>2. QED
      BY <3>1
  <2>3. \A y \in Record : g[y] = IF p[y] = NoParent THEN y ELSE g[p[y]]
    BY <2>1, <2>2
  <2>4. g = [y \in Record |-> g[y]]
    OBVIOUS
  <2> HIDE DEF g
  <2>5. QED
    BY <2>3, <2>4
<1>3. Is(RootIn(p))
  <2> HIDE DEF Is, g
  <2>1. QED
    BY <1>1, <1>2
<1>4. QED
  BY <1>3

-----------------------------------------------------------------------------
(* Some record of a set has the largest size: the least counterexample of  *)
(* a claim about all records is one with no counterexample above it.       *)
LEMMA Highest ==
  ASSUME GoodInput, NEW s \in Sizes, NEW Bad \in SUBSET Record, Bad # {}
  PROVE  \E x \in Bad : \A y \in Bad : s[y] <= s[x]
<1> DEFINE Above(x) == {y \in Record : s[y] > s[x]}
           Sets0 == {Above(x) : x \in Bad}
<1>1. PICK T \in Sets0 : \A U \in SUBSET T : U # T => U \notin Sets0
  <2>1. Sets0 \in SUBSET (SUBSET Record) /\ {} # Sets0
    OBVIOUS
  <2> HIDE DEF Sets0
  <2>2. QED
    BY <2>1, LeastSet DEF GoodInput
<1>2. PICK x \in Bad : T = Above(x)
  OBVIOUS
<1>3. ASSUME NEW y \in Bad, s[y] > s[x]
      PROVE  FALSE
  <2>1. \A z \in Record : s[z] \in Nat
    BY DEF Sizes
  <2>2. Above(y) \subseteq Above(x)
    BY <1>3, <2>1
  <2>3. y \in Above(x) /\ y \notin Above(y)
    BY <1>3, <2>1
  <2>4. Above(y) \in Sets0
    OBVIOUS
  <2> HIDE DEF Above, Sets0
  <2>5. QED
    BY <1>1, <1>2, <2>2, <2>3, <2>4
<1>4. \A y \in Bad : s[y] \in Nat /\ s[x] \in Nat
  BY DEF Sizes
<1>5. QED
  BY <1>3, <1>4

(* Every way upwards ends at a root, which is larger than what is below.   *)
LEMMA RootTypes ==
  ASSUME GoodInput, NEW p \in Parents, NEW s \in Sizes, Doubling(p, s)
  PROVE  \A x \in Record :
           /\ RootIn(p)[x] \in Record /\ p[RootIn(p)[x]] = NoParent
           /\ s[x] <= s[RootIn(p)[x]]
           /\ p[x] # NoParent => 2 * s[x] <= s[RootIn(p)[x]]
<1> DEFINE Good(x) ==
             /\ RootIn(p)[x] \in Record /\ p[RootIn(p)[x]] = NoParent
             /\ s[x] <= s[RootIn(p)[x]]
             /\ p[x] # NoParent => 2 * s[x] <= s[RootIn(p)[x]]
           Bad == {x \in Record : ~ Good(x)}
<1>1. SUFFICES ASSUME Bad # {}
               PROVE  FALSE
  OBVIOUS
<1>2. PICK x \in Bad : \A y \in Bad : s[y] <= s[x]
  <2> HIDE DEF Bad
  <2>1. Bad \in SUBSET Record
    BY DEF Bad
  <2>2. QED
    BY <1>1, <2>1, Highest
<1>3. x \in Record /\ \A y \in Record : s[y] \in Nat /\ s[y] > 0
  BY DEF Sizes
<1>4. RootIn(p)[x] = IF p[x] = NoParent THEN x ELSE RootIn(p)[p[x]]
  BY <1>3, RootUnfolds
<1>5. CASE p[x] = NoParent
  BY <1>3, <1>4, <1>5
<1>6. CASE p[x] # NoParent
  <2>1. p[x] \in Record /\ 2 * s[x] <= s[p[x]]
    BY <1>3, <1>6 DEF Parents, Doubling
  <2>2. Good(p[x])
    BY <1>2, <1>3, <2>1
  <2>3. QED
    BY <1>3, <1>4, <1>6, <2>1, <2>2
<1>7. QED
  BY <1>5, <1>6

(* The way upwards leads through records of the same tree that are ever    *)
(* larger, from x to its root.                                             *)
LEMMA PathTypes ==
  ASSUME GoodInput, NEW p \in Parents, NEW s \in Sizes, Doubling(p, s)
  PROVE  \A x \in Record :
           /\ PathIn(p)[x] \subseteq Record
           /\ x \in PathIn(p)[x] /\ RootIn(p)[x] \in PathIn(p)[x]
           /\ \A y \in PathIn(p)[x] : RootIn(p)[y] = RootIn(p)[x] /\ s[x] <= s[y]
<1> DEFINE Good(x) ==
             /\ PathIn(p)[x] \subseteq Record
             /\ x \in PathIn(p)[x] /\ RootIn(p)[x] \in PathIn(p)[x]
             /\ \A y \in PathIn(p)[x] : RootIn(p)[y] = RootIn(p)[x] /\ s[x] <= s[y]
           Bad == {x \in Record : ~ Good(x)}
<1>1. SUFFICES ASSUME Bad # {}
               PROVE  FALSE
  OBVIOUS
<1>2. PICK x \in Bad : \A y \in Bad : s[y] <= s[x]
  <2> HIDE DEF Bad
  <2>1. Bad \in SUBSET Record
    BY DEF Bad
  <2>2. QED
    BY <1>1, <2>1, Highest
<1>3. x \in Record /\ \A y \in Record : s[y] \in Nat /\ s[y] > 0
  BY DEF Sizes
<1>4. /\ RootIn(p)[x] = IF p[x] = NoParent THEN x ELSE RootIn(p)[p[x]]
      /\ PathIn(p)[x] = {x} \cup IF p[x] = NoParent THEN {} ELSE PathIn(p)[p[x]]
  BY <1>3, RootUnfolds, PathUnfolds
<1>5. CASE p[x] = NoParent
  BY <1>3, <1>4, <1>5
<1>6. CASE p[x] # NoParent
  <2>1. p[x] \in Record /\ 2 * s[x] <= s[p[x]]
    BY <1>3, <1>6 DEF Parents, Doubling
  <2>2. Good(p[x])
    BY <1>2, <1>3, <2>1
  <2>3. RootIn(p)[x] = RootIn(p)[p[x]] /\ PathIn(p)[x] = {x} \cup PathIn(p)[p[x]]
    BY <1>4, <1>6
  <2>4. QED
    BY <1>3, <2>1, <2>2, <2>3
<1>7. QED
  BY <1>5, <1>6

-----------------------------------------------------------------------------
(* find() changes no tree's members and no root, and keeps the doubling.   *)
LEMMA CompressKeeps ==
  ASSUME GoodInput, NEW p \in Parents, NEW s \in Sizes, Doubling(p, s), NEW x \in Record
  PROVE  LET h == Compressed(p, x)
         IN  /\ h \in Parents /\ Doubling(h, s)
             /\ \A y \in Record : h[y] = NoParent <=> p[y] = NoParent
             /\ \A y \in Record : RootIn(h)[y] = RootIn(p)[y]
<1> DEFINE h == Compressed(p, x)
           r == RootIn(p)[x]
           P == PathIn(p)[x]
<1>1. /\ r \in Record /\ p[r] = NoParent /\ NoParent \notin Record
      /\ P \subseteq Record /\ \A y \in P : RootIn(p)[y] = r
  BY RootTypes, PathTypes DEF GoodInput
<1>2. \A y \in Record : h[y] = IF y \in P \ {r} THEN r ELSE p[y]
  BY DEF Compressed
<1>3. \A y \in Record : /\ s[y] \in Nat
                        /\ y \in P \ {r} => p[y] # NoParent /\ 2 * s[y] <= s[r]
  <2>1. \A y \in Record : y \in P \ {r} => p[y] # NoParent
    BY <1>1, RootUnfolds
  <2>2. QED
    BY <1>1, <2>1, RootTypes DEF Sizes
<1>4. h \in Parents
  BY <1>1 DEF Compressed, Parents
<1>5. Doubling(h, s) /\ \A y \in Record : h[y] = NoParent <=> p[y] = NoParent
  <2> HIDE DEF h, r, P
  <2>1. QED
    BY <1>1, <1>2, <1>3 DEF Doubling
<1> DEFINE Bad == {y \in Record : RootIn(h)[y] # RootIn(p)[y]}
<1>6. ASSUME Bad # {}
      PROVE  FALSE
  <2>1. PICK y \in Bad : \A z \in Bad : s[z] <= s[y]
    <3> HIDE DEF Bad
    <3>1. Bad \in SUBSET Record
      BY DEF Bad
    <3>2. QED
      BY <1>6, <3>1, Highest
  <2>2. y \in Record /\ s[y] \in Nat /\ s[y] > 0 /\ \A z \in Record : s[z] \in Nat
    BY DEF Sizes
  <2> HIDE DEF h, r, P
  <2>3. /\ RootIn(h)[y] = IF h[y] = NoParent THEN y ELSE RootIn(h)[h[y]]
        /\ RootIn(p)[y] = IF p[y] = NoParent THEN y ELSE RootIn(p)[p[y]]
    BY <1>4, <2>2, RootUnfolds
  <2>4. CASE h[y] = NoParent
    BY <1>5, <2>2, <2>3, <2>4
  <2>5. CASE y \in P \ {r}
    <3>1. RootIn(h)[r] = r
      BY <1>1, <1>4, <1>5, RootUnfolds
    <3>2. QED
      BY <1>1, <1>2, <1>3, <1>5, <2>2, <2>3, <2>5, <3>1
  <2>6. CASE h[y] # NoParent /\ y \notin P \ {r}
    <3>1. h[y] = p[y] /\ h[y] \in Record /\ 2 * s[y] <= s[h[y]]
      BY <1>2, <1>4, <1>5, <2>2, <2>6 DEF Parents, Doubling
    <3>2. h[y] \notin Bad
      BY <2>1, <2>2, <3>1
    <3>3. QED
      BY <2>2, <2>3, <2>6, <3>1, <3>2
  <2>7. QED
    BY <2>4, <2>5, <2>6
<1>7. QED
  BY <1>4, <1>5, <1>6

Rehung(p, h, from, to) ==
  /\ \A y \in Record : h[y] = NoParent <=> p[y] = NoParent /\ y # from
  /\ \A y \in Record :
       RootIn(h)[y] = IF RootIn(p)[y] = from THEN to ELSE RootIn(p)[y]

(* Hanging a root in another one that is no smaller moves its tree there,  *)
(* and keeps the doubling.                                                 *)
LEMMA LinkKeeps ==
  ASSUME GoodInput, NEW p \in Parents, NEW s \in Sizes, Doubling(p, s),
         NEW from \in Record, NEW to \in Record, from # to,
         p[from] = NoParent, p[to] = NoParent, s[from] <= s[to],
         NEW h, h = [p EXCEPT ![from] = to],
         NEW m, m = [s EXCEPT ![to] = @ + s[from]]
  PROVE  /\ h \in Parents /\ m \in Sizes /\ Doubling(h, m)
         /\ Rehung(p, h, from, to)
<1>1. NoParent \notin Record
  BY DEF GoodInput
<1>2. /\ \A y \in Record : h[y] = IF y = from THEN to ELSE p[y]
      /\ \A y \in Record : m[y] = IF y = to THEN s[to] + s[from] ELSE s[y]
      /\ h \in Parents /\ m \in Sizes
  BY DEF Parents, Sizes
<1>3. \A y \in Record : s[y] \in Nat /\ s[y] > 0
  BY DEF Sizes
<1>4. \A y \in Record : h[y] = NoParent <=> p[y] = NoParent /\ y # from
  BY <1>1, <1>2
<1>5. Doubling(h, m)
  <2> SUFFICES ASSUME NEW y \in Record, h[y] # NoParent
               PROVE  2 * m[y] <= m[h[y]]
    BY DEF Doubling
  <2>1. CASE y = from
    <3>1. m[y] = s[from] /\ m[h[y]] = s[to] + s[from]
      BY <1>2, <2>1
    <3>2. QED
      BY <1>3, <3>1
  <2>2. CASE y # from
    <3>1. h[y] = p[y] /\ p[y] \in Record /\ 2 * s[y] <= s[p[y]] /\ y # to
      BY <1>2, <2>2 DEF Doubling, Parents
    <3>2. m[y] = s[y] /\ m[p[y]] >= s[p[y]]
      BY <1>2, <1>3, <3>1
    <3>3. m[p[y]] \in Nat
      BY <1>2, <3>1 DEF Sizes
    <3>4. QED
      BY <1>3, <3>1, <3>2, <3>3
  <2>3. QED
    BY <2>1, <2>2
<1> DEFINE Moved0(r) == IF r = from THEN to ELSE r
           Bad == {y \in Record : RootIn(h)[y] # Moved0(RootIn(p)[y])}
<1>6. ASSUME Bad # {}
      PROVE  FALSE
  <2>1. PICK y \in Bad : \A z \in Bad : m[z] <= m[y]
    <3> HIDE DEF Bad
    <3>1. Bad \in SUBSET Record
      BY DEF Bad
    <3>2. QED
      BY <1>2, <1>6, <3>1, Highest
  <2>2. y \in Record /\ m[y] > 0 /\ \A z \in Record : m[z] \in Nat
    BY <1>2 DEF Sizes
  <2>3. /\ RootIn(h)[y] = IF h[y] = NoParent THEN y ELSE RootIn(h)[h[y]]
        /\ RootIn(p)[y] = IF p[y] = NoParent THEN y ELSE RootIn(p)[p[y]]
    BY <1>2, <2>2, RootUnfolds
  <2>4. CASE h[y] = NoParent
    BY <1>4, <2>2, <2>3, <2>4
  <2>5. CASE y = from
    <3>1. RootIn(h)[to] = to
      BY <1>2, <1>4, RootUnfolds
    <3>2. QED
      BY <1>1, <1>2, <2>2, <2>3, <2>5, <3>1
  <2>6. CASE h[y] # NoParent /\ y # from
    <3>1. h[y] = p[y] /\ h[y] \in Record /\ 2 * m[y] <= m[h[y]]
      BY <1>2, <1>5, <2>2, <2>6 DEF Parents, Doubling
    <3>2. h[y] \notin Bad
      <4>1. m[h[y]] \in Nat /\ m[y] \in Nat
        BY <2>2, <3>1
      <4>2. ~ (m[h[y]] <= m[y])
        BY <2>2, <3>1, <4>1
      <4> HIDE DEF Bad
      <4>3. QED
        BY <2>1, <4>2
    <3>3. QED
      BY <2>2, <2>3, <2>6, <3>1, <3>2
  <2>7. QED
    BY <2>4, <2>5, <2>6
<1>7. QED
  BY <1>2, <1>4, <1>5, <1>6 DEF Rehung

-----------------------------------------------------------------------------
(* The prover knows nothing of powers; that 2 ^ n is the number of subsets *)
(* of a set of n elements is in the library.                               *)
LEMMA PowerDoubles ==
  ASSUME NEW n \in Nat
  PROVE  2 ^ n \in Nat /\ 2 ^ (n + 1) = 2 * 2 ^ n
<1> DEFINE S == 1 .. n
           e == n + 1
           T == 1 .. e
           A == SUBSET S
           B == {U \cup {e} : U \in A}
           f == [U \in A |-> U \cup {e}]
<1>1. IsFiniteSet(S) /\ Cardinality(S) = n /\ IsFiniteSet(T) /\ Cardinality(T) = n + 1
  BY FS_Interval
<1>2. /\ IsFiniteSet(A) /\ Cardinality(A) = 2 ^ n
      /\ Cardinality(SUBSET T) = 2 ^ (n + 1)
  <2> HIDE DEF S, T
  <2>1. QED
    BY <1>1, FS_SUBSET
<1>3. e \notin S /\ T = S \cup {e}
  OBVIOUS
<1> HIDE DEF S, T, e
<1>4. \A U \in A : e \notin U
  BY <1>3
<1>5. A \cap B = {}
  BY <1>4
<1>6. SUBSET T = A \cup B
  <2>1. A \cup B \subseteq SUBSET T
    BY <1>3
  <2>2. ASSUME NEW U \in SUBSET T, U \notin A
        PROVE  U \in B
    <3>1. e \in U
      BY <1>3, <2>2
    <3>2. U \ {e} \in A /\ U = (U \ {e}) \cup {e}
      BY <1>3, <3>1
    <3>3. QED
      BY <3>2
  <2>3. QED
    BY <2>1, <2>2
<1>7. IsFiniteSet(B) /\ Cardinality(B) = Cardinality(A)
  <2>1. ASSUME NEW U \in A, NEW V \in A, U \cup {e} = V \cup {e}
        PROVE  U = V
    <3>1. U = (U \cup {e}) \ {e} /\ V = (V \cup {e}) \ {e}
      BY <1>4
    <3>2. QED
      BY <2>1, <3>1
  <2>2. f \in [A -> B] /\ \A U \in A : f[U] = U \cup {e}
    OBVIOUS
  <2>3. \A U \in B : \E V \in A : f[V] = U
    OBVIOUS
  <2> HIDE DEF A, B, f
  <2>4. f \in Bijection(A, B)
    <3>1. \A U, V \in A : f[U] = f[V] => U = V
      BY <2>1, <2>2
    <3>2. QED
      BY <2>2, <2>3, <3>1 DEF Bijection, Injection, Surjection, IsInjective
  <2>5. QED
    BY <1>2, <2>4, FS_Bijection DEF ExistsBijection
<1> HIDE DEF A, B
<1>8. Cardinality(A \cup B) = Cardinality(A) + Cardinality(B) /\ Cardinality(A) \in Nat
  BY <1>2, <1>5, <1>7, DisjointCount
<1> DEFINE c == Cardinality(SUBSET T)
<1>9. c = Cardinality(A \cup B)
  BY <1>6
<1> DEFINE k == 2 ^ n
           m == 2 ^ (n + 1)
<1>10. k = Cardinality(A) /\ m = c
  BY <1>2
<1> HIDE DEF c, k, m
<1>11. k \in Nat /\ m = 2 * k
  BY <1>7, <1>8, <1>9, <1>10
<1>12. QED
  BY <1>11 DEF k, m

LEMMA TimesMonotone ==
  ASSUME NEW a \in Nat, NEW b \in Nat, NEW c \in Nat, b <= c
  PROVE  a * b <= a * c /\ a * b \in Nat
OBVIOUS

(* As the sizes double, the length of a path is a logarithm.               *)
LEMMA DoublingIsShallow ==
  ASSUME GoodInput, NEW p \in Parents, NEW s \in Sizes, Doubling(p, s)
  PROVE  \A x \in Record : 2 ^ (Cardinality(PathIn(p)[x]) - 1) <= s[RootIn(p)[x]]
<1> DEFINE Steps(x) == Cardinality(PathIn(p)[x]) - 1
           Good(x) == Steps(x) \in Nat /\ 2 ^ Steps(x) * s[x] <= s[RootIn(p)[x]]
           Bad == {x \in Record : ~ Good(x)}
<1>1. \A x \in Record : s[x] \in Nat /\ s[x] > 0
  BY DEF Sizes
<1>2. ASSUME Bad # {}
      PROVE  FALSE
  <2>1. PICK x \in Bad : \A y \in Bad : s[y] <= s[x]
    <3> HIDE DEF Bad
    <3>1. Bad \in SUBSET Record
      BY DEF Bad
    <3>2. QED
      BY <1>2, <3>1, Highest
  <2>2. /\ x \in Record
        /\ RootIn(p)[x] = IF p[x] = NoParent THEN x ELSE RootIn(p)[p[x]]
        /\ PathIn(p)[x] = {x} \cup IF p[x] = NoParent THEN {} ELSE PathIn(p)[p[x]]
    BY RootUnfolds, PathUnfolds
  <2>3. CASE p[x] = NoParent
    <3>1. PathIn(p)[x] = {x} /\ RootIn(p)[x] = x
      BY <2>2, <2>3
    <3>2. Cardinality({x}) = 1
      BY FS_Singleton
    <3>3. Steps(x) = 0
      BY <3>1, <3>2
    <3>4. 2 ^ 0 = 1
      OBVIOUS
    <3>5. 2 ^ Steps(x) = 1
      BY <3>3, <3>4
    <3> DEFINE k == 2 ^ Steps(x)
    <3>6. k = 1 /\ s[x] \in Nat /\ RootIn(p)[x] = x
      BY <1>1, <2>2, <3>1, <3>5
    <3> HIDE DEF k, Steps
    <3>7. k * s[x] <= s[RootIn(p)[x]]
      BY <3>6
    <3>8. Steps(x) \in Nat
      BY <3>3
    <3>9. QED
      BY <2>1, <3>7, <3>8 DEF k
  <2>4. CASE p[x] # NoParent
    <3> DEFINE y == p[x]
    <3>1. y \in Record /\ 2 * s[x] <= s[y] /\ s[x] \in Nat /\ s[y] \in Nat /\ s[y] > s[x]
      BY <1>1, <2>2, <2>4 DEF Parents, Doubling
    <3>2. y \notin Bad
      BY <2>1, <2>2, <3>1
    <3>3. Steps(y) \in Nat /\ 2 ^ Steps(y) * s[y] <= s[RootIn(p)[y]]
      BY <3>1, <3>2
    <3>4. Steps(x) = Steps(y) + 1
      <4>1. PathIn(p)[y] \subseteq Record /\ \A z \in PathIn(p)[y] : s[y] <= s[z]
        BY <3>1, PathTypes
      <4>2. x \notin PathIn(p)[y]
        BY <3>1, <4>1
      <4>3. IsFiniteSet(PathIn(p)[y])
        BY <4>1, FS_Subset DEF GoodInput
      <4>4. PathIn(p)[x] = PathIn(p)[y] \cup {x}
        BY <2>2, <2>4
      <4>5. /\ Cardinality(PathIn(p)[x]) = Cardinality(PathIn(p)[y]) + 1
            /\ Cardinality(PathIn(p)[y]) \in Nat
        BY <4>2, <4>3, <4>4, FS_AddElement, FS_CardinalityType
      <4> HIDE DEF y
      <4>6. QED
        BY <4>5
    <3>5. RootIn(p)[x] = RootIn(p)[y] /\ s[RootIn(p)[y]] \in Nat
      BY <1>1, <2>2, <2>4, <3>1, RootTypes
    <3> DEFINE k == 2 ^ Steps(y)
    <3>6. k \in Nat /\ 2 ^ Steps(x) = 2 * k
      BY <3>3, <3>4, PowerDoubles
    <3> HIDE DEF Steps, k, y
    <3>7. k * (2 * s[x]) <= k * s[y] /\ k * (2 * s[x]) \in Nat /\ k * s[y] \in Nat
      <4>1. 2 * s[x] \in Nat
        BY <3>1
      <4> HIDE DEF k
      <4>2. QED
        BY <3>1, <3>6, <4>1, TimesMonotone
    <3>8. (2 * k) * s[x] = k * (2 * s[x])
      BY <3>1, <3>6
    <3>9. 2 ^ Steps(x) * s[x] <= s[RootIn(p)[x]]
      BY <3>3, <3>5, <3>6, <3>7, <3>8 DEF k
    <3>10. Steps(x) \in Nat
      BY <3>3, <3>4
    <3>11. QED
      BY <2>1, <3>9, <3>10
  <2>5. QED
    BY <2>3, <2>4
<1>3. ASSUME NEW x \in Record
      PROVE  2 ^ Steps(x) <= s[RootIn(p)[x]]
  <2>1. Steps(x) \in Nat /\ 2 ^ Steps(x) * s[x] <= s[RootIn(p)[x]]
    BY <1>2
  <2> DEFINE k == 2 ^ Steps(x)
  <2>2. k \in Nat /\ s[x] \in Nat /\ s[x] >= 1 /\ s[RootIn(p)[x]] \in Nat
    BY <1>1, <2>1, PowerDoubles, RootTypes
  <2> HIDE DEF Steps
  <2>3. k * 1 <= k * s[x] /\ k * s[x] \in Nat
    <3> HIDE DEF k
    <3>1. QED
      BY <2>2, TimesMonotone
  <2>4. k * s[x] <= s[RootIn(p)[x]]
    BY <2>1
  <2> HIDE DEF k
  <2>5. k <= s[RootIn(p)[x]]
    BY <2>2, <2>3, <2>4
  <2>6. QED
    BY <2>5 DEF k
<1>4. QED
  BY <1>3

-----------------------------------------------------------------------------
ForestInv ==
  /\ TreesTypeOK /\ SizesExact
  /\ Doubling(parent, csize)
  /\ nClusters = Cardinality(Roots)

Clusters == {ClusterAt(r) : r \in Roots}

(* The two things that can happen to the trees: paths are compressed, or   *)
(* one root is hung in another as well.                                    *)
Kept ==
  /\ parent' \in Parents /\ Doubling(parent', csize)
  /\ UNCHANGED <<csize, weight, nClusters>>
  /\ \A z \in Record : parent'[z] = NoParent <=> parent[z] = NoParent
  /\ \A z \in Record : RootIn(parent')[z] = RootIn(parent)[z]

Hung(from, to) ==
  /\ from \in Roots /\ to \in Roots /\ from # to
  /\ parent' \in Parents /\ csize' \in Sizes /\ Doubling(parent', csize')
  /\ csize' = [csize EXCEPT ![to] = @ + csize[from]]
  /\ weight' = [weight EXCEPT ![to] = weight[to] + weight[from]]
  /\ nClusters' = nClusters - 1
  /\ \A z \in Record : parent'[z] = NoParent <=> parent[z] = NoParent /\ z # from
  /\ \A z \in Record :
       RootIn(parent')[z] = IF RootIn(parent)[z] = from THEN to ELSE RootIn(parent)[z]

LEMMA ForestTypes ==
  ASSUME GoodInput, ForestInv
  PROVE  /\ parent \in Parents /\ csize \in Sizes /\ Doubling(parent, csize)
         /\ \A x \in Record : RootIn(parent)[x] \in Roots
         /\ \A r \in Roots : RootIn(parent)[r] = r
<1>1. parent \in Parents /\ Doubling(parent, csize)
  BY DEF ForestInv, TreesTypeOK, Parents
<1>2. csize \in Sizes
  <2>1. 1 .. Cardinality(Record) \subseteq Nat \ {0}
    BY FS_CardinalityType DEF GoodInput
  <2>2. QED
    BY <2>1 DEF ForestInv, TreesTypeOK, Sizes
<1>3. QED
  BY <1>1, <1>2, RootTypes, RootUnfolds DEF Roots

LEMMA GetRootShape ==
  ASSUME GoodInput, ForestInv, NEW x \in Record, GetRoot(x)
  PROVE  Kept
BY ForestTypes, CompressKeeps DEF GetRoot, Kept

LEMMA UnionShape ==
  ASSUME GoodInput, ForestInv, NEW x \in Record, NEW y \in Record, Union(x, y)
  PROVE  LET r == RootIn(parent)[x]
             s == RootIn(parent)[y]
         IN  \/ Kept
             \/ \E from, to \in Record : {from, to} = {r, s} /\ Hung(from, to)
<1> DEFINE h == Compressed(parent, x)
           flat == Compressed(h, y)
           r == RootIn(parent)[x]
           s == RootIn(parent)[y]
           to == Winner(r, s)
           from == IF to = r THEN s ELSE r
<1>1. parent \in Parents /\ csize \in Sizes /\ Doubling(parent, csize) /\ r \in Roots /\ s \in Roots
  BY ForestTypes
<1>2. /\ h \in Parents /\ Doubling(h, csize)
      /\ \A z \in Record : h[z] = NoParent <=> parent[z] = NoParent
      /\ \A z \in Record : RootIn(h)[z] = RootIn(parent)[z]
  BY <1>1, CompressKeeps
<1>3. /\ flat \in Parents /\ Doubling(flat, csize)
      /\ \A z \in Record : flat[z] = NoParent <=> parent[z] = NoParent
      /\ \A z \in Record : RootIn(flat)[z] = RootIn(parent)[z]
  <2> HIDE DEF h
  <2>1. /\ flat \in Parents /\ Doubling(flat, csize)
        /\ \A z \in Record : flat[z] = NoParent <=> h[z] = NoParent
        /\ \A z \in Record : RootIn(flat)[z] = RootIn(h)[z]
    BY <1>1, <1>2, CompressKeeps
  <2> HIDE DEF flat
  <2>2. QED
    BY <1>2, <2>1
<1>4. /\ parent' = IF r # s THEN [flat EXCEPT ![from] = to] ELSE flat
      /\ nClusters' = IF r # s THEN nClusters - 1 ELSE nClusters
      /\ IF r # s
         THEN /\ csize' = [csize EXCEPT ![to] = @ + csize[from]]
              /\ weight' = [weight EXCEPT ![to] = weight[to] + weight[from]]
         ELSE UNCHANGED <<csize, weight>>
  BY DEF Union, Linked, Merges, AbsorbedWeight
<1> HIDE DEF flat, h
<1>5. CASE r = s
  BY <1>3, <1>4, <1>5 DEF Kept
<1>6. CASE r # s
  <2>1. /\ {from, to} = {r, s} /\ from # to
        /\ csize[from] <= csize[to]
    BY <1>1, <1>6 DEF Winner, Roots, Sizes
  <2>2. /\ from \in Record /\ to \in Record /\ from \in Roots /\ to \in Roots
        /\ flat[from] = NoParent /\ flat[to] = NoParent
    BY <1>1, <1>3, <2>1 DEF Roots
  <2>3. /\ parent' = [flat EXCEPT ![from] = to]
        /\ csize' = [csize EXCEPT ![to] = @ + csize[from]]
        /\ weight' = [weight EXCEPT ![to] = weight[to] + weight[from]]
        /\ nClusters' = nClusters - 1
    BY <1>4, <1>6
  <2> HIDE DEF r, s
  <2>a. flat \in Parents /\ csize \in Sizes /\ Doubling(flat, csize)
    BY <1>1, <1>3
  <2> HIDE DEF from, to
  <2>4. /\ parent' \in Parents /\ csize' \in Sizes /\ Doubling(parent', csize')
        /\ \A z \in Record : parent'[z] = NoParent <=> flat[z] = NoParent /\ z # from
        /\ \A z \in Record :
             RootIn(parent')[z] = IF RootIn(flat)[z] = from THEN to ELSE RootIn(flat)[z]
    <3>1. /\ parent' \in Parents /\ csize' \in Sizes /\ Doubling(parent', csize')
          /\ Rehung(flat, parent', from, to)
      BY <2>a, <2>1, <2>2, <2>3, LinkKeeps
    <3>2. QED
      BY <3>1 DEF Rehung
  <2>5. Hung(from, to)
    BY <1>3, <2>1, <2>2, <2>3, <2>4 DEF Hung
  <2>6. QED
    BY <2>1, <2>2, <2>5 DEF r, s
<1>7. QED
  BY <1>5, <1>6

-----------------------------------------------------------------------------
LEMMA KeptKeeps ==
  ASSUME GoodInput, ForestInv, Kept
  PROVE  ForestInv' /\ Clusters' = Clusters
<1>1. Roots' = Roots
  BY DEF Roots, Kept
<1>2. \A r : ClusterAt(r)' = ClusterAt(r)
  BY DEF ClusterAt, Kept
<1>3. Clusters' = Clusters
  BY <1>1, <1>2 DEF Clusters
<1>4. SizesExact'
  BY <1>1, <1>2 DEF SizesExact, Kept, ForestInv
<1>5. TreesTypeOK'
  BY DEF TreesTypeOK, Kept, ForestInv, Parents
<1>6. QED
  BY <1>1, <1>3, <1>4, <1>5 DEF ForestInv, Kept

LEMMA HungKeeps ==
  ASSUME GoodInput, ForestInv, NEW from \in Record, NEW to \in Record, Hung(from, to)
  PROVE  /\ ForestInv'
         /\ Clusters' = (Clusters \ {ClusterAt(from), ClusterAt(to)})
                          \cup {ClusterAt(from) \cup ClusterAt(to)}
<1>1. /\ from \in Roots /\ to \in Roots /\ from # to /\ Roots \subseteq Record
      /\ IsFiniteSet(Record) /\ IsFiniteSet(Roots)
  BY FS_Subset DEF Hung, Roots, GoodInput
<1>2. Roots' = Roots \ {from}
  BY DEF Roots, Hung
<1>3. /\ ClusterAt(to)' = ClusterAt(to) \cup ClusterAt(from)
      /\ \A r \in Roots \ {from, to} : ClusterAt(r)' = ClusterAt(r)
  BY DEF ClusterAt, Hung
<1>4. \A r \in Roots : /\ r \in ClusterAt(r) /\ ClusterAt(r) \subseteq Record
                       /\ IsFiniteSet(ClusterAt(r))
                       /\ \A t \in Roots : t # r => ClusterAt(r) \cap ClusterAt(t) = {}
  BY <1>1, ForestTypes, FS_Subset DEF ClusterAt
<1>5. Clusters' = (Clusters \ {ClusterAt(from), ClusterAt(to)})
                    \cup {ClusterAt(from) \cup ClusterAt(to)}
  <2>1. Clusters' = {ClusterAt(r)' : r \in Roots \ {from}}
    BY <1>2 DEF Clusters
  <2>2. Clusters' = {ClusterAt(r) : r \in Roots \ {from, to}}
                      \cup {ClusterAt(from) \cup ClusterAt(to)}
    BY <1>1, <1>3, <2>1
  <2>3. \A r \in Roots : ClusterAt(r) \in {ClusterAt(from), ClusterAt(to)} <=> r \in {from, to}
    BY <1>1, <1>4
  <2>4. {ClusterAt(r) : r \in Roots \ {from, to}} = Clusters \ {ClusterAt(from), ClusterAt(to)}
    BY <2>3 DEF Clusters
  <2>5. QED
    BY <2>2, <2>4
<1>6. /\ csize' = [csize EXCEPT ![to] = @ + csize[from]]
      /\ weight' = [weight EXCEPT ![to] = weight[to] + weight[from]]
      /\ nClusters' = nClusters - 1
      /\ Doubling(parent', csize') /\ parent' \in Parents
  BY DEF Hung
<1>7. /\ csize \in [Record -> 1 .. Cardinality(Record)] /\ weight \in [Record -> Nat]
      /\ nClusters = Cardinality(Roots)
      /\ \A r \in Roots : /\ csize[r] = Cardinality(ClusterAt(r))
                          /\ weight[r] = SumFunctionOnSet(RecordWeight, ClusterAt(r))
  BY DEF ForestInv, TreesTypeOK, SizesExact
<1>8. SizesExact'
  <2> SUFFICES ASSUME NEW r \in Roots \ {from}
               PROVE  /\ csize'[r] = Cardinality(ClusterAt(r)')
                      /\ weight'[r] = SumFunctionOnSet(RecordWeight, ClusterAt(r)')
    BY <1>2 DEF SizesExact
  <2>1. CASE r # to
    BY <1>1, <1>3, <1>6, <1>7, <2>1
  <2>2. CASE r = to
    <3> DEFINE A == ClusterAt(to)
               B == ClusterAt(from)
    <3>1. IsFiniteSet(A) /\ IsFiniteSet(B) /\ A \cap B = {} /\ A \cup B \subseteq Record
      BY <1>1, <1>4
    <3>2. csize'[to] = csize[to] + csize[from] /\ weight'[to] = weight[to] + weight[from]
      BY <1>1, <1>6, <1>7
    <3>3. \A x \in A \cup B : RecordWeight[x] \in Int
      BY <3>1 DEF GoodInput
    <3> HIDE DEF A, B
    <3>4. Cardinality(A \cup B) = Cardinality(A) + Cardinality(B)
      BY <3>1, DisjointCount
    <3>5. SumFunctionOnSet(RecordWeight, A \cup B)
            = SumFunctionOnSet(RecordWeight, A) + SumFunctionOnSet(RecordWeight, B)
      BY <3>1, <3>3, SumUnion
    <3>6. ClusterAt(r)' = A \cup B
      BY <1>3, <2>2 DEF A, B
    <3>7. /\ csize[to] = Cardinality(A) /\ csize[from] = Cardinality(B)
          /\ weight[to] = SumFunctionOnSet(RecordWeight, A)
          /\ weight[from] = SumFunctionOnSet(RecordWeight, B)
      BY <1>1, <1>7 DEF A, B
    <3>8. QED
      BY <2>2, <3>2, <3>4, <3>5, <3>6, <3>7
  <2>3. QED
    BY <2>1, <2>2
<1>9. nClusters' = Cardinality(Roots') /\ nClusters' \in 0 .. Cardinality(Record)
  <2>1. Cardinality(Roots \ {from}) = Cardinality(Roots) - 1
    BY <1>1, FS_RemoveElement
  <2>2. /\ Cardinality(Roots \ {from}) \in Nat
        /\ Cardinality(Roots) \in Nat /\ Cardinality(Record) \in Nat
        /\ Cardinality(Roots) <= Cardinality(Record)
    <3>1. IsFiniteSet(Roots \ {from})
      BY <1>1, FS_Subset
    <3>2. QED
      BY <1>1, <3>1, FS_CardinalityType, FS_Subset
  <2>3. QED
    BY <1>2, <1>6, <1>7, <2>1, <2>2
<1>10. TreesTypeOK'
  <2>1. csize' \in [Record -> 1 .. Cardinality(Record)]
    <3>1. csize'[to] \in 1 .. Cardinality(Record)
      <4>1. csize'[to] = Cardinality(ClusterAt(to)') /\ ClusterAt(to)' \subseteq Record
        BY <1>1, <1>2, <1>3, <1>4, <1>8 DEF SizesExact
      <4>2. /\ Cardinality(ClusterAt(to)') \in Nat
            /\ Cardinality(ClusterAt(to)') <= Cardinality(Record)
        <5> DEFINE K == ClusterAt(to)'
        <5>1. K \subseteq Record
          BY <4>1
        <5> HIDE DEF K
        <5>2. Cardinality(K) \in Nat /\ Cardinality(K) <= Cardinality(Record)
          BY <1>1, <5>1, FS_Subset, FS_CardinalityType
        <5>3. QED
          BY <5>2 DEF K
      <4>3. csize'[to] >= 1 /\ Cardinality(Record) \in Nat
        BY <1>1, <1>6, <1>7, FS_CardinalityType
      <4>4. QED
        BY <4>1, <4>2, <4>3
    <3>2. QED
      BY <1>1, <1>6, <1>7, <3>1
  <2>2. weight' \in [Record -> Nat]
    BY <1>1, <1>6, <1>7
  <2>3. QED
    BY <1>6, <1>9, <2>1, <2>2 DEF TreesTypeOK, Parents
<1>11. QED
  BY <1>5, <1>6, <1>8, <1>9, <1>10 DEF ForestInv

LEMMA ForestInit ==
  ASSUME GoodInput, TreesInit
  PROVE  ForestInv /\ Clusters = {{x} : x \in Record}
<1>1. Roots = Record
  BY DEF TreesInit, Roots
<1>2. parent \in Parents /\ \A x \in Record : RootIn(parent)[x] = x
  <2>1. parent \in Parents
    BY DEF TreesInit, Parents
  <2>2. QED
    BY <2>1, RootUnfolds DEF TreesInit
<1>3. \A x \in Record : ClusterAt(x) = {x}
  BY <1>2 DEF ClusterAt
<1>4. Cardinality(Record) \in Nat /\ (Record # {} => Cardinality(Record) >= 1)
  BY FS_CardinalityType, FS_EmptySet DEF GoodInput
<1>5. TreesTypeOK
  <2>1. csize \in [Record -> 1 .. Cardinality(Record)]
    BY <1>4 DEF TreesInit
  <2>2. QED
    BY <1>4, <2>1 DEF TreesInit, TreesTypeOK, GoodInput
<1>6. SizesExact
  <2> SUFFICES ASSUME NEW x \in Record
               PROVE  csize[x] = Cardinality({x}) /\ weight[x] = SumFunctionOnSet(RecordWeight, {x})
    BY <1>1, <1>3 DEF SizesExact
  <2>1. Cardinality({x}) = 1 /\ IsFiniteSet({x})
    BY FS_Singleton
  <2>2. SumFunctionOnSet(RecordWeight, {x}) = RecordWeight[x]
    <3>1. RecordWeight[x] \in Int /\ {x} \ {x} = {}
      BY DEF GoodInput
    <3>2. SumFunctionOnSet(RecordWeight, {x}) = RecordWeight[x] + SumFunctionOnSet(RecordWeight, {x} \ {x})
      <4>1. \A z \in {x} : RecordWeight[z] \in Int
        BY <3>1
      <4>2. QED
        BY <2>1, <4>1, SumRemove
    <3>3. SumFunctionOnSet(RecordWeight, {}) = 0
      BY SumOfNone
    <3>4. QED
      BY <3>1, <3>2, <3>3
  <2>3. QED
    BY <2>1, <2>2 DEF TreesInit
<1>7. Doubling(parent, csize) /\ nClusters = Cardinality(Roots)
  BY <1>1 DEF Doubling, TreesInit
<1>8. QED
  BY <1>1, <1>3, <1>5, <1>6, <1>7 DEF ForestInv, Clusters

LEMMA ForestStep == GoodInput /\ ForestInv /\ [TreesNext]_trees => ForestInv'
<1> SUFFICES ASSUME GoodInput, ForestInv, [TreesNext]_trees
             PROVE  ForestInv'
  OBVIOUS
<1>1. ASSUME NEW x \in Record, NEW y \in Record, Union(x, y)
      PROVE  ForestInv'
  BY <1>1, UnionShape, KeptKeeps, HungKeeps
<1>2. ASSUME NEW x \in Record, GetRoot(x)
      PROVE  ForestInv'
  BY <1>2, GetRootShape, KeptKeeps
<1>3. CASE UNCHANGED trees
  BY <1>3 DEF trees, ForestInv, TreesTypeOK, SizesExact, Roots, ClusterAt
<1>4. QED
  BY <1>1, <1>2, <1>3 DEF TreesNext

(* Whatever is united and searched for in whatever order, the roots know   *)
(* the sizes and the weights of their clusters, and no path is longer than *)
(* the logarithm of the size of the cluster it is in.                      *)
THEOREM ClustersSoundHolds == GoodInput /\ TreesSpec => []ClustersSound
<1>1. GoodInput /\ ForestInv => ClustersSound
  BY ForestTypes, DoublingIsShallow DEF ForestInv, ClustersSound, Shallow
<1>2. GoodInput /\ TreesInit => ForestInv
  BY ForestInit
<1>3. GoodInput /\ TreesSpec => []ClustersSound
  <2> SUFFICES ASSUME GoodInput
               PROVE  TreesSpec => []ClustersSound
    OBVIOUS
  <2>1. ForestInv => ClustersSound
    BY <1>1
  <2>2. TreesInit => ForestInv
    BY <1>2
  <2>3. ForestInv /\ [TreesNext]_trees => ForestInv'
    BY ForestStep
  <2>4. QED
    BY <2>1, <2>2, <2>3, PTL DEF TreesSpec
<1>4. QED
  BY <1>3

-----------------------------------------------------------------------------
(* There are as many clusters as roots.                                    *)
LEMMA CountClusters ==
  ASSUME GoodInput, NEW p \in Parents, NEW s \in Sizes, Doubling(p, s)
  PROVE  LET tops == {x \in Record : p[x] = NoParent}
             at(r) == {x \in Record : RootIn(p)[x] = r}
         IN  Cardinality({at(r) : r \in tops}) = Cardinality(tops)
<1> DEFINE tops == {x \in Record : p[x] = NoParent}
           at(r) == {x \in Record : RootIn(p)[x] = r}
           all == {at(r) : r \in tops}
           f == [r \in tops |-> at(r)]
<1>1. \A r \in tops : r \in at(r)
  BY RootUnfolds
<1>2. \A r, t \in tops : at(r) = at(t) => r = t
  <2> SUFFICES ASSUME NEW r \in tops, NEW t \in tops, at(r) = at(t)
               PROVE  r = t
    OBVIOUS
  <2>1. r \in at(t)
    BY <1>1
  <2>2. RootIn(p)[r] = t /\ RootIn(p)[r] = r
    BY <2>1, RootUnfolds
  <2>3. QED
    BY <2>2
<1>3. IsFiniteSet(tops)
  BY FS_Subset DEF GoodInput
<1>4. f \in [tops -> all] /\ (\A r \in tops : f[r] = at(r)) /\ \A C \in all : \E r \in tops : f[r] = C
  OBVIOUS
<1> HIDE DEF tops, all, f, at
<1>5. \A r, t \in tops : f[r] = f[t] => r = t
  BY <1>2, <1>4
<1>6. f \in Bijection(tops, all)
  BY <1>4, <1>5 DEF Bijection, Injection, Surjection, IsInjective
<1>7. Cardinality(all) = Cardinality(tops)
  BY <1>3, <1>6, FS_Bijection DEF ExistsBijection
<1>8. QED
  BY <1>7 DEF all, tops, at

LEMMA CountIsClusters == GoodInput /\ ForestInv => nClusters = Cardinality(Clusters)
<1> SUFFICES ASSUME GoodInput, ForestInv
             PROVE  nClusters = Cardinality(Clusters)
  OBVIOUS
<1>1. Cardinality({ClusterAt(r) : r \in Roots}) = Cardinality(Roots)
  BY ForestTypes, CountClusters DEF ClusterAt, Roots
<1>2. QED
  BY <1>1 DEF ForestInv, Clusters

LEMMA CountIsClustersNext == GoodInput /\ ForestInv' => nClusters' = Cardinality(Clusters')
<1> SUFFICES ASSUME GoodInput, ForestInv'
             PROVE  nClusters' = Cardinality(Clusters')
  OBVIOUS
<1>1. parent' \in Parents /\ Doubling(parent', csize') /\ nClusters' = Cardinality(Roots')
  BY DEF ForestInv, TreesTypeOK, Parents
<1>2. csize' \in Sizes
  <2>1. 1 .. Cardinality(Record) \subseteq Nat \ {0}
    BY FS_CardinalityType DEF GoodInput
  <2>2. QED
    BY <2>1 DEF ForestInv, TreesTypeOK, Sizes
<1>3. Cardinality({ClusterAt(r)' : r \in Roots'}) = Cardinality(Roots')
  BY <1>1, <1>2, CountClusters DEF ClusterAt, Roots
<1>4. QED
  BY <1>1, <1>3 DEF Clusters

LEMMA SameCount == \A S : Sets!Cardinality(S) = Cardinality(S)
BY DEF Sets!Cardinality, Cardinality

(* Merging two clusters does not depend on which of them comes first.      *)
LEMMA MergesPair ==
  ASSUME NEW x, NEW y, NEW from, NEW to,
         {Sets!ClusterOf(x), Sets!ClusterOf(y)} = {ClusterAt(from), ClusterAt(to)},
         Clusters' = (Clusters \ {ClusterAt(from), ClusterAt(to)})
                       \cup {ClusterAt(from) \cup ClusterAt(to)},
         nClusters' = Cardinality(Clusters')
  PROVE  Sets!Merge(x, y)
<1> DEFINE C == Sets!ClusterOf(x)
           D == Sets!ClusterOf(y)
<1>1. C \cup D = ClusterAt(from) \cup ClusterAt(to)
  <2>1. C \cup D = UNION {C, D}
    OBVIOUS
  <2>2. ClusterAt(from) \cup ClusterAt(to) = UNION {ClusterAt(from), ClusterAt(to)}
    OBVIOUS
  <2>3. QED
    BY <2>1, <2>2
<1>2. Clusters' = (Clusters \ {C, D}) \cup {C \cup D}
  <2> HIDE DEF C, D
  <2>1. {C, D} = {ClusterAt(from), ClusterAt(to)}
    BY DEF C, D
  <2>2. QED
    BY <1>1, <2>1
<1>3. QED
  BY <1>2, SameCount DEF Sets!Merge, Clusters

(* The cluster of a record is the one at the root its search leads to.     *)
LEMMA ClusterIs ==
  ASSUME GoodInput, ForestInv, NEW x \in Record
  PROVE  Sets!ClusterOf(x) = ClusterAt(RootIn(parent)[x])
<1> DEFINE r == RootIn(parent)[x]
<1>1. r \in Roots /\ x \in ClusterAt(r) /\ ClusterAt(r) \in Clusters
  BY ForestTypes DEF ClusterAt, Clusters
<1>2. \A C \in Clusters : x \in C => C = ClusterAt(r)
  BY DEF Clusters, ClusterAt
<1>3. Sets!ClusterOf(x) = CHOOSE C \in Clusters : x \in C
  BY DEF Sets!ClusterOf, Clusters
<1>4. QED
  BY <1>1, <1>2, <1>3

(* Seen from outside the trees are disjoint sets: a union merges the       *)
(* clusters of its two records and counts them, and a search does nothing. *)
THEOREM ImplementsDisjointSetsHolds ==
  GoodInput /\ TreesSpec => ImplementsDisjointSets
<1>1. GoodInput /\ TreesInit => Sets!SetsInit
  <2> SUFFICES ASSUME GoodInput, TreesInit
               PROVE  Sets!SetsInit
    OBVIOUS
  <2>1. Clusters = {{x} : x \in Record} /\ nClusters = Cardinality(Record)
    BY ForestInit DEF TreesInit
  <2>2. {ClusterAt(r) : r \in Roots} = {{x} : x \in Record}
    BY <2>1 DEF Clusters
  <2>3. QED
    BY <2>1, <2>2, SameCount DEF Sets!SetsInit
<1>2. GoodInput /\ ForestInv /\ [TreesNext]_trees => [Sets!SetsNext]_Sets!setVars
  <2> SUFFICES ASSUME GoodInput, ForestInv, [TreesNext]_trees
               PROVE  [Sets!SetsNext]_Sets!setVars
    OBVIOUS
  <2>1. ForestInv'
    BY ForestStep
  <2>2. CASE Clusters' = Clusters /\ nClusters' = nClusters
    BY <2>2 DEF Sets!setVars, Clusters
  <2>3. ASSUME Kept
        PROVE  Clusters' = Clusters /\ nClusters' = nClusters
    BY <2>3, KeptKeeps DEF Kept
  <2>4. ASSUME NEW x \in Record, NEW y \in Record, Union(x, y), ~ Kept
        PROVE  Sets!SetsNext
    <3> DEFINE r == RootIn(parent)[x]
               s == RootIn(parent)[y]
    <3>1. PICK from, to \in Record : {from, to} = {r, s} /\ Hung(from, to)
      BY <2>4, UnionShape
    <3>2. Sets!ClusterOf(x) = ClusterAt(r) /\ Sets!ClusterOf(y) = ClusterAt(s)
      BY ClusterIs
    <3>3. {Sets!ClusterOf(x), Sets!ClusterOf(y)} = {ClusterAt(from), ClusterAt(to)}
      BY <3>1, <3>2, Zenon
    <3>4. Clusters' = (Clusters \ {ClusterAt(from), ClusterAt(to)})
                        \cup {ClusterAt(from) \cup ClusterAt(to)}
      BY <3>1, HungKeeps
    <3>5. nClusters' = Cardinality(Clusters')
      BY <2>1, CountIsClustersNext
    <3>6. Sets!Merge(x, y)
      BY <3>3, <3>4, <3>5, MergesPair
    <3>7. QED
      BY <3>6 DEF Sets!SetsNext
  <2>5. ASSUME NEW x \in Record, GetRoot(x)
        PROVE  Kept
    BY <2>5, GetRootShape
  <2>6. CASE UNCHANGED trees
    BY <2>6 DEF trees, Sets!setVars, ClusterAt, Roots
  <2>7. QED
    BY <2>2, <2>3, <2>4, <2>5, <2>6 DEF TreesNext
<1>3. GoodInput /\ TreesSpec => ImplementsDisjointSets
  <2> SUFFICES ASSUME GoodInput
               PROVE  TreesSpec => Sets!SetsSpec
    BY DEF ImplementsDisjointSets
  <2>1. TreesInit => ForestInv /\ Sets!SetsInit
    BY <1>1, ForestInit
  <2>2. ForestInv /\ [TreesNext]_trees => ForestInv' /\ [Sets!SetsNext]_Sets!setVars
    BY <1>2, ForestStep
  <2>3. QED
    BY <2>1, <2>2, PTL DEF TreesSpec, Sets!SetsSpec
<1>4. QED
  BY <1>3

-----------------------------------------------------------------------------
(* Sizes: how many bytes a cluster takes, and a set of clusters.           *)
LEMMA ShareNat == \A n \in Nat \ {0} : ClauseShare(n) \in Nat
<1> SUFFICES ASSUME NEW n \in Nat \ {0}
             PROVE  ClauseShare(n) \in Nat
  OBVIOUS
<1>1. (108 + 4 * n) \div n \in Nat
  OBVIOUS
<1>2. QED
  BY <1>1 DEF ClauseShare

LEMMA WeightsNat ==
  ASSUME GoodMRF
  PROVE  AtomWeights \in [RelAtom -> Nat]
<1> DEFINE f == [c \in RelClause |-> ClauseShare(Cardinality(RelClauses[c]))]
<1>1. \A c \in RelClause : f[c] \in Nat
  <2> SUFFICES ASSUME NEW c \in RelClause
               PROVE  f[c] \in Nat
    OBVIOUS
  <2>1. IsFiniteSet(RelClauses[c]) /\ RelClauses[c] # {}
    BY FS_Subset DEF GoodMRF
  <2>2. Cardinality(RelClauses[c]) \in Nat \ {0}
    BY <2>1, FS_CardinalityType, FS_EmptySet
  <2>3. QED
    BY <2>2, ShareNat
<1>2. ASSUME NEW a \in RelAtom
      PROVE  AtomWeight(a) \in Nat
  <2> DEFINE its == {c \in RelClause : a \in RelClauses[c]}
  <2>1. IsFiniteSet(its)
    BY FS_Subset DEF GoodMRF
  <2>2. \A c \in its : f[c] \in Nat
    BY <1>1
  <2>3. SumFunctionOnSet(f, its) \in Nat
    BY <2>1, <2>2, SumNat
  <2>4. AtomWeight(a) = 116 + SumFunctionOnSet(f, its)
    BY DEF AtomWeight
  <2>5. QED
    BY <2>3, <2>4
<1>3. QED
  BY <1>2 DEF AtomWeights

LEMMA SizeNat ==
  ASSUME GoodMRF, NEW C \in SUBSET RelAtom
  PROVE  SizeOf(C) \in Nat /\ IsFiniteSet(C)
<1>1. IsFiniteSet(C)
  BY FS_Subset DEF GoodMRF
<1>2. \A a \in C : AtomWeights[a] \in Nat
  BY WeightsNat
<1>3. QED
  BY <1>1, <1>2, SumNat DEF SizeOf

LEMMA SizeOfTwo ==
  ASSUME GoodMRF, NEW C \in SUBSET RelAtom, NEW D \in SUBSET RelAtom, C \cap D = {}
  PROVE  SizeOf(C \cup D) = SizeOf(C) + SizeOf(D)
<1>1. IsFiniteSet(C) /\ IsFiniteSet(D)
  BY SizeNat
<1>2. \A a \in C \cup D : AtomWeights[a] \in Int
  BY WeightsNat
<1>3. QED
  BY <1>1, <1>2, SumUnion DEF SizeOf

LEMMA SizeGrows ==
  ASSUME GoodMRF, NEW D \in SUBSET RelAtom, NEW C \in SUBSET D
  PROVE  SizeOf(C) <= SizeOf(D)
<1>1. SizeOf(C \cup (D \ C)) = SizeOf(C) + SizeOf(D \ C)
  BY SizeOfTwo
<1>2. C \cup (D \ C) = D
  OBVIOUS
<1>3. SizeOf(C) \in Nat /\ SizeOf(D \ C) \in Nat
  BY SizeNat
<1>4. SizeOf(D) = SizeOf(C) + SizeOf(D \ C)
  BY <1>1, <1>2
<1>5. QED
  BY <1>3, <1>4

LEMMA ClustersFinite ==
  ASSUME GoodMRF, NEW S \in SUBSET (SUBSET RelAtom)
  PROVE  IsFiniteSet(S)
BY FS_SUBSET, FS_Subset DEF GoodMRF

LEMMA SizeOfAllNat ==
  ASSUME GoodMRF, NEW S \in SUBSET (SUBSET RelAtom)
  PROVE  SizeOfAll(S) \in Nat
<1> DEFINE f == [C \in SUBSET RelAtom |-> SizeOf(C)]
<1>1. \A C \in S : f[C] \in Nat
  BY SizeNat
<1>2. SumFunctionOnSet(f, S) \in Nat
  BY <1>1, ClustersFinite, SumNat
<1>3. QED
  BY <1>2 DEF SizeOfAll

LEMMA SizeOfNone == SizeOfAll({}) = 0
BY SumOfNone DEF SizeOfAll

LEMMA SizeWithout ==
  ASSUME GoodMRF, NEW S \in SUBSET (SUBSET RelAtom), NEW C \in S
  PROVE  SizeOfAll(S) = SizeOf(C) + SizeOfAll(S \ {C})
<1> DEFINE f == [D \in SUBSET RelAtom |-> SizeOf(D)]
<1>1. \A D \in S : f[D] \in Int
  BY SizeNat
<1>2. SumFunctionOnSet(f, S) = f[C] + SumFunctionOnSet(f, S \ {C})
  <2> HIDE DEF f
  <2>1. QED
    BY <1>1, ClustersFinite, SumRemove
<1>3. f[C] = SizeOf(C)
  OBVIOUS
<1>4. QED
  BY <1>2, <1>3 DEF SizeOfAll

LEMMA SizeWith ==
  ASSUME GoodMRF, NEW S \in SUBSET (SUBSET RelAtom), NEW C \in SUBSET RelAtom
  PROVE  SizeOfAll(S \cup {C}) = IF C \in S THEN SizeOfAll(S) ELSE SizeOfAll(S) + SizeOf(C)
<1>1. CASE C \in S
  <2>1. S \cup {C} = S
    BY <1>1
  <2>2. QED
    BY <1>1, <2>1
<1>2. CASE C \notin S
  <2>1. (S \cup {C}) \ {C} = S
    BY <1>2
  <2>2. SizeOfAll(S \cup {C}) = SizeOf(C) + SizeOfAll((S \cup {C}) \ {C})
    BY SizeWithout
  <2>3. SizeOf(C) \in Nat /\ SizeOfAll(S) \in Nat
    BY SizeNat, SizeOfAllNat
  <2>4. SizeOfAll(S \cup {C}) = SizeOf(C) + SizeOfAll(S)
    BY <2>1, <2>2
  <2>5. SizeOf(C) + SizeOfAll(S) = SizeOfAll(S) + SizeOf(C)
    BY <2>3
  <2>6. QED
    BY <1>2, <2>4, <2>5
<1>3. QED
  BY <1>1, <1>2

(* Clusters that have nothing in common take together what all their atoms *)
(* take.                                                                   *)
LEMMA SizeOfTogether ==
  ASSUME GoodMRF, NEW S \in SUBSET (SUBSET RelAtom),
         \A C, D \in S : C # D => C \cap D = {}
  PROVE  SizeOfAll(S) = SizeOf(UNION S)
<1> DEFINE Bad == {T \in SUBSET S : SizeOfAll(T) # SizeOf(UNION T)}
<1>1. SUFFICES ASSUME Bad # {}
               PROVE  FALSE
  OBVIOUS
<1>2. PICK T \in Bad : \A U \in SUBSET T : U # T => U \notin Bad
  <2>1. Bad \in SUBSET (SUBSET S)
    OBVIOUS
  <2>2. IsFiniteSet(S)
    BY ClustersFinite
  <2>3. QED
    <3> HIDE DEF Bad
    <3>1. QED
      BY <1>1, <2>1, <2>2, LeastSet
<1>3. T \subseteq S /\ SizeOfAll(T) # SizeOf(UNION T)
  BY <1>2
<1>4. CASE T = {}
  <2>1. UNION T = {} /\ SizeOf({}) = 0
    BY <1>4, SumOfNone DEF SizeOf
  <2>2. QED
    BY <1>3, <1>4, <2>1, SizeOfNone
<1>5. ASSUME NEW C \in T
      PROVE  FALSE
  <2>1. SizeOfAll(T) = SizeOf(C) + SizeOfAll(T \ {C})
    BY <1>3, SizeWithout
  <2>2. SizeOfAll(T \ {C}) = SizeOf(UNION (T \ {C}))
    BY <1>2, <1>3
  <2>3. /\ UNION T = C \cup UNION (T \ {C})
        /\ C \cap UNION (T \ {C}) = {}
        /\ C \in SUBSET RelAtom /\ UNION (T \ {C}) \in SUBSET RelAtom
    BY <1>3
  <2>4. SizeOf(UNION T) = SizeOf(C) + SizeOf(UNION (T \ {C}))
    BY <2>3, SizeOfTwo
  <2>5. QED
    BY <1>3, <2>1, <2>2, <2>4
<1>6. QED
  BY <1>4, <1>5

-----------------------------------------------------------------------------
(* What the scan keeps of clusters: they share out the atoms.              *)
Clustering(K) ==
  /\ K \in SUBSET (SUBSET RelAtom) /\ {} \notin K
  /\ UNION K = RelAtom
  /\ \A C, D \in K : C # D => C \cap D = {}

LEMMA TouchedBy ==
  ASSUME GoodMRF, NEW K, Clustering(K), NEW c \in RelClause
  PROVE  /\ Touched(K, c) \in SUBSET K
         /\ RelClauses[c] \subseteq UNION Touched(K, c)
         /\ Touched(K, c) # {}
         /\ \A C \in K : RelClauses[c] \subseteq C => Touched(K, c) = {C}
<1>1. RelClauses[c] \subseteq RelAtom /\ RelClauses[c] # {}
  BY DEF GoodMRF
<1>2. RelClauses[c] \subseteq UNION Touched(K, c)
  BY <1>1 DEF Touched, Clustering
<1>3. ASSUME NEW C \in K, RelClauses[c] \subseteq C
      PROVE  Touched(K, c) = {C}
  <2>1. \A D \in K : D # C => D \cap RelClauses[c] = {}
    BY <1>3 DEF Clustering
  <2>2. C \cap RelClauses[c] # {}
    BY <1>1, <1>3
  <2>3. QED
    BY <2>1, <2>2 DEF Touched
<1>4. QED
  BY <1>1, <1>2, <1>3 DEF Touched

LEMMA TouchedCount ==
  ASSUME GoodMRF, NEW K, Clustering(K), NEW c \in RelClause
  PROVE  /\ Cardinality(Touched(K, c)) = 1 <=> \E C \in K : RelClauses[c] \subseteq C
         /\ Cardinality(Touched(K, c)) > 1 => ~ \E C \in K : RelClauses[c] \subseteq C
<1> DEFINE T == Touched(K, c)
<1>1. T \in SUBSET K /\ RelClauses[c] \subseteq UNION T /\ T # {}
  BY TouchedBy
<1>2. IsFiniteSet(T)
  BY <1>1, ClustersFinite DEF Clustering
<1>3. ASSUME NEW C \in K, RelClauses[c] \subseteq C
      PROVE  Cardinality(T) = 1
  <2>1. T = {C}
    BY <1>3, TouchedBy
  <2>2. QED
    BY <2>1, FS_Singleton
<1>4. ASSUME Cardinality(T) = 1
      PROVE  \E C \in K : RelClauses[c] \subseteq C
  <2>1. PICK C : T = {C}
    BY <1>2, <1>4, FS_Singleton
  <2>2. QED
    BY <1>1, <2>1
<1>5. Cardinality(T) > 1 => Cardinality(T) # 1
  BY <1>2, FS_CardinalityType
<1>6. QED
  BY <1>3, <1>4, <1>5

LEMMA MergedClusters ==
  ASSUME GoodMRF, NEW K, Clustering(K), NEW c \in RelClause
  PROVE  /\ Clustering(Merged(K, c))
         /\ UNION Touched(K, c) \in Merged(K, c)
         /\ \A C \in K : \E D \in Merged(K, c) : C \subseteq D
         /\ \A D \in Merged(K, c) : D \in K \/ D = UNION Touched(K, c)
<1> DEFINE T == Touched(K, c)
           M == (K \ T) \cup {UNION T}
<1>1. T \in SUBSET K /\ T # {}
  BY TouchedBy
<1>2. \A C \in K : C \in SUBSET RelAtom /\ C # {}
  BY DEF Clustering
<1>3. M \in SUBSET (SUBSET RelAtom) /\ {} \notin M
  BY <1>1, <1>2
<1>4. UNION M = RelAtom
  <2>1. UNION M = (UNION (K \ T)) \cup UNION T
    OBVIOUS
  <2>2. (UNION (K \ T)) \cup UNION T = UNION K
    BY <1>1
  <2>3. QED
    BY <2>1, <2>2 DEF Clustering
<1>5. \A C \in K \ T : C \cap UNION T = {}
  BY <1>1 DEF Clustering
<1>6. \A C, D \in M : C # D => C \cap D = {}
  BY <1>1, <1>5 DEF Clustering
<1>7. \A C \in K : \E D \in M : C \subseteq D
  OBVIOUS
<1>8. M = Merged(K, c)
  BY DEF Merged
<1>9. Clustering(M)
  BY <1>3, <1>4, <1>6 DEF Clustering
<1>10. QED
  BY <1>7, <1>8, <1>9

(* The clauses in R connect C: whatever splits it, one of them crosses.     *)
Connected(C, R) ==
  \A S \in (SUBSET C) \ {{}, C} :
    \E c \in R : RelClauses[c] \cap S # {} /\ RelClauses[c] \cap (C \ S) # {}

LEMMA MergedConnected ==
  ASSUME GoodMRF, NEW K, Clustering(K), NEW R \in SUBSET RelClause, NEW c \in RelClause,
         \A C \in K : Connected(C, R)
  PROVE  \A C \in Merged(K, c) : Connected(C, R \cup {c})
<1> DEFINE T == Touched(K, c)
<1>1. ASSUME NEW S \in (SUBSET UNION T) \ {{}, UNION T}
      PROVE  \E d \in R \cup {c} :
               RelClauses[d] \cap S # {} /\ RelClauses[d] \cap ((UNION T) \ S) # {}
  <2>1. CASE \E D \in T : S \cap D # {} /\ S \cap D # D
    <3>1. PICK D \in T : S \cap D # {} /\ S \cap D # D
      BY <2>1
    <3>2. D \in K /\ S \cap D \in (SUBSET D) \ {{}, D}
      BY <3>1, TouchedBy
    <3>3. PICK d \in R : /\ RelClauses[d] \cap (S \cap D) # {}
                         /\ RelClauses[d] \cap (D \ (S \cap D)) # {}
      BY <3>2 DEF Connected
    <3>4. QED
      BY <3>1, <3>3
  <2>2. CASE \A D \in T : S \cap D = {} \/ S \cap D = D
    <3>1. PICK D \in T : S \cap D # {}
      BY <1>1
    <3>2. PICK E \in T : ~ E \subseteq S
      BY <1>1
    <3>3. D \subseteq S /\ E \cap S = {}
      BY <2>2, <3>1, <3>2
    <3>4. D \cap RelClauses[c] # {} /\ E \cap RelClauses[c] # {}
      BY DEF Touched
    <3>5. E \cap RelClauses[c] \subseteq (UNION T) \ S
      BY <3>3
    <3>6. QED
      BY <3>3, <3>4, <3>5
  <2>3. QED
    BY <2>1, <2>2
<1>2. Connected(UNION T, R \cup {c})
  BY <1>1 DEF Connected
<1>3. \A C \in K : Connected(C, R \cup {c})
  BY DEF Connected
<1>4. QED
  BY <1>2, <1>3, MergedClusters

(* What is known of components cs and parts ps, with a budget of b bytes,  *)
(* when the clauses in R have been read.                                   *)
Scanned(R, cs, ps, b) ==
  /\ Clustering(cs) /\ Clustering(ps)
  /\ \A P \in ps : \E C \in cs : P \subseteq C
  /\ \A c \in R : \E C \in cs : RelClauses[c] \subseteq C
  /\ \A C \in cs : Connected(C, R)
  /\ \A P \in ps : Cardinality(P) > 1 => SizeOf(P) <= b
  /\ \A c \in R : \/ \E P \in ps : RelClauses[c] \subseteq P
                  \/ SizeOf(UNION Touched(ps, c)) > b

LEMMA ScannedNone ==
  ASSUME GoodMRF, NEW b
  PROVE  Scanned({}, {{a} : a \in RelAtom}, {{a} : a \in RelAtom}, b)
<1> DEFINE K == {{a} : a \in RelAtom}
<1>1. Clustering(K)
  BY DEF Clustering
<1>2. \A P \in K : ~ Cardinality(P) > 1
  BY FS_Singleton
<1>3. \A C \in K : Connected(C, {})
  BY DEF Connected
<1>4. QED
  BY <1>1, <1>2, <1>3 DEF Scanned

(* Parts that fit in the budget together are one afterwards.                *)
LEMMA PartsMerge ==
  ASSUME GoodMRF, NEW b \in Nat, NEW ps, Clustering(ps), NEW c \in RelClause,
         \A P \in ps : Cardinality(P) > 1 => SizeOf(P) <= b,
         SizeOfAll(Touched(ps, c)) <= b
  PROVE  \A P \in Merged(ps, c) : Cardinality(P) > 1 => SizeOf(P) <= b
<1>1. Touched(ps, c) \in SUBSET ps
  BY TouchedBy
<1>2. SizeOfAll(Touched(ps, c)) = SizeOf(UNION Touched(ps, c))
  BY <1>1, SizeOfTogether DEF Clustering
<1>3. QED
  BY <1>2, MergedClusters

(* A clause that was cut stays cut for want of room: parts only grow.       *)
LEMMA CutsStay ==
  ASSUME GoodMRF, NEW b \in Nat, NEW ps, Clustering(ps), NEW c \in RelClause,
         NEW d \in RelClause,
         \/ \E P \in ps : RelClauses[d] \subseteq P
         \/ SizeOf(UNION Touched(ps, d)) > b
  PROVE  \/ \E P \in Merged(ps, c) : RelClauses[d] \subseteq P
         \/ SizeOf(UNION Touched(Merged(ps, c), d)) > b
<1> DEFINE M == Merged(ps, c)
<1>1. Clustering(M) /\ \A P \in ps : \E Q \in M : P \subseteq Q
  BY MergedClusters
<1>2. CASE \E P \in ps : RelClauses[d] \subseteq P
  BY <1>1, <1>2
<1>3. CASE SizeOf(UNION Touched(ps, d)) > b
  <2> DEFINE old == UNION Touched(ps, d)
             new == UNION Touched(M, d)
  <2>1. old \subseteq new
    <3> SUFFICES ASSUME NEW P \in ps, P \cap RelClauses[d] # {}
                 PROVE  P \subseteq new
      BY DEF Touched
    <3>1. PICK Q \in M : P \subseteq Q
      BY <1>1
    <3>2. Q \in Touched(M, d)
      BY <3>1 DEF Touched
    <3>3. QED
      BY <3>1, <3>2
  <2>2. new \in SUBSET RelAtom
    BY <1>1 DEF Touched, Clustering
  <2>3. SizeOf(old) <= SizeOf(new) /\ SizeOf(old) \in Nat /\ SizeOf(new) \in Nat
    BY <2>1, <2>2, SizeGrows, SizeNat
  <2>4. QED
    BY <1>3, <2>3
<1>4. QED
  BY <1>2, <1>3

LEMMA ScannedOne ==
  ASSUME GoodMRF, NEW b \in Nat, NEW R \in SUBSET RelClause, NEW c \in RelClause,
         NEW cs, NEW ps, Scanned(R, cs, ps, b),
         NEW joins \in BOOLEAN,
         joins <=> Cardinality(RelClauses[c]) > 1 /\ SizeOfAll(Touched(ps, c)) <= b
  PROVE  Scanned(R \cup {c}, Merged(cs, c), IF joins THEN Merged(ps, c) ELSE ps, b)
<1> DEFINE cm == Merged(cs, c)
           pm == IF joins THEN Merged(ps, c) ELSE ps
<1>1. Clustering(cs) /\ Clustering(ps)
  BY DEF Scanned
<1>2. Clustering(cm) /\ Clustering(pm)
  BY <1>1, MergedClusters
<1>a. \A C \in cs : \E D \in cm : C \subseteq D
  <2> SUFFICES ASSUME NEW C \in cs
               PROVE  \E D \in cm : C \subseteq D
    OBVIOUS
  <2>1. CASE C \in Touched(cs, c)
    <3>1. UNION Touched(cs, c) \in cm /\ C \subseteq UNION Touched(cs, c)
      BY <2>1 DEF Merged
    <3>2. QED
      BY <3>1
  <2>2. CASE C \notin Touched(cs, c)
    BY <2>2 DEF Merged
  <2>3. QED
    BY <2>1, <2>2
<1>3. \A P \in pm : \E C \in cm : P \subseteq C
  <2>1. \A P \in ps : \E C \in cm : P \subseteq C
    <3> SUFFICES ASSUME NEW P \in ps
                 PROVE  \E C \in cm : P \subseteq C
      OBVIOUS
    <3>1. PICK C \in cs : P \subseteq C
      BY DEF Scanned
    <3>2. PICK D \in cm : C \subseteq D
      BY <1>a
    <3>3. QED
      BY <3>1, <3>2
  <2>2. UNION Touched(ps, c) \subseteq UNION Touched(cs, c)
    <3> SUFFICES ASSUME NEW P \in ps, P \cap RelClauses[c] # {}
                 PROVE  P \subseteq UNION Touched(cs, c)
      BY DEF Touched
    <3>1. PICK C \in cs : P \subseteq C
      BY DEF Scanned
    <3>2. C \in Touched(cs, c)
      BY <3>1 DEF Touched
    <3>3. QED
      BY <3>1, <3>2
  <2>3. UNION Touched(cs, c) \in cm
    BY <1>1, MergedClusters
  <2>4. \A P \in pm : P \in ps \/ P = UNION Touched(ps, c)
    BY <1>1, MergedClusters
  <2>5. QED
    BY <2>1, <2>2, <2>3, <2>4
<1>4. \A d \in R \cup {c} : \E C \in cm : RelClauses[d] \subseteq C
  <2>1. ASSUME NEW d \in R
        PROVE  \E C \in cm : RelClauses[d] \subseteq C
    <3>1. PICK C \in cs : RelClauses[d] \subseteq C
      BY DEF Scanned
    <3>2. PICK D \in cm : C \subseteq D
      BY <1>a
    <3>3. QED
      BY <3>1, <3>2
  <2>2. RelClauses[c] \subseteq UNION Touched(cs, c) /\ UNION Touched(cs, c) \in cm
    BY <1>1, TouchedBy, MergedClusters
  <2>3. QED
    BY <2>1, <2>2
<1>5. \A C \in cm : Connected(C, R \cup {c})
  BY <1>1, MergedConnected DEF Scanned
<1>6. \A P \in pm : Cardinality(P) > 1 => SizeOf(P) <= b
  BY <1>1, PartsMerge DEF Scanned
<1>7. ASSUME NEW d \in R \cup {c}
      PROVE  \/ \E P \in pm : RelClauses[d] \subseteq P
             \/ SizeOf(UNION Touched(pm, d)) > b
  <2>1. CASE d # c
    <3>1. \/ \E P \in ps : RelClauses[d] \subseteq P
          \/ SizeOf(UNION Touched(ps, d)) > b
      BY <2>1 DEF Scanned
    <3>2. QED
      BY <1>1, <3>1, CutsStay
  <2>2. CASE d = c /\ joins
    <3>1. RelClauses[c] \subseteq UNION Touched(ps, c) /\ UNION Touched(ps, c) \in pm
      BY <1>1, <2>2, TouchedBy, MergedClusters
    <3>2. QED
      BY <2>2, <3>1
  <2>3. CASE d = c /\ ~ joins /\ ~ Cardinality(RelClauses[c]) > 1
    <3>1. IsFiniteSet(RelClauses[c]) /\ RelClauses[c] # {} /\ RelClauses[c] \subseteq RelAtom
      BY FS_Subset DEF GoodMRF
    <3>2. Cardinality(RelClauses[c]) = 1
      BY <2>3, <3>1, FS_CardinalityType, FS_EmptySet
    <3>3. PICK a : RelClauses[c] = {a}
      BY <3>1, <3>2, FS_Singleton
    <3>4. \E P \in ps : a \in P
      BY <1>1, <3>1, <3>3 DEF Clustering
    <3>5. QED
      BY <2>3, <3>3, <3>4
  <2>4. CASE d = c /\ ~ joins /\ Cardinality(RelClauses[c]) > 1
    <3>1. Touched(ps, c) \in SUBSET ps
      BY <1>1, TouchedBy
    <3>2. SizeOfAll(Touched(ps, c)) = SizeOf(UNION Touched(ps, c))
      BY <1>1, <3>1, SizeOfTogether DEF Clustering
    <3>3. SizeOfAll(Touched(ps, c)) \in Nat
      BY <1>1, <3>1, SizeOfAllNat DEF Clustering
    <3>4. ~ SizeOfAll(Touched(ps, c)) <= b
      BY <2>4
    <3>5. QED
      BY <2>4, <3>2, <3>3, <3>4
  <2>5. QED
    BY <2>1, <2>2, <2>3, <2>4
<1>8. QED
  BY <1>2, <1>3, <1>4, <1>5, <1>6, <1>7 DEF Scanned

-----------------------------------------------------------------------------
(* The parts of a component make up the component.                         *)
LEMMA PiecesCover ==
  ASSUME NEW cs, NEW ps, Clustering(cs), Clustering(ps),
         \A P \in ps : \E C \in cs : P \subseteq C,
         NEW C \in cs
  PROVE  UNION {P \in ps : P \subseteq C} = C
<1>1. ASSUME NEW a \in C
      PROVE  \E P \in ps : P \subseteq C /\ a \in P
  <2>1. PICK P \in ps : a \in P
    BY DEF Clustering
  <2>2. PICK D \in cs : P \subseteq D
    OBVIOUS
  <2>3. D = C
    BY <2>1, <2>2 DEF Clustering
  <2>4. QED
    BY <2>1, <2>2, <2>3
<1>2. QED
  BY <1>1

(* The parts in S are shared out among zones that fit in the memory.       *)
Zoned(z, S, ram) ==
  /\ z \in Seq(SUBSET S) /\ Len(z) # 0
  /\ \A P \in S : \E i \in 1 .. Len(z) :
       P \in z[i] /\ \A j \in 1 .. Len(z) : P \in z[j] => j = i
  /\ \A i \in 1 .. Len(z) : Cardinality(z[i]) > 1 => SizeOfAll(z[i]) <= ram

LEMMA ZonedNone == \A ram : Zoned(<< {} >>, {}, ram)
<1>1. << {} >> \in Seq(SUBSET {}) /\ Len(<< {} >>) = 1 /\ << {} >>[1] = {}
  OBVIOUS
<1>2. ~ Cardinality({}) > 1
  BY FS_EmptySet
<1>3. QED
  BY <1>1, <1>2 DEF Zoned

LEMMA PackedZoned ==
  ASSUME GoodMRF, config \in Config, NEW S \in SUBSET (SUBSET RelAtom),
         NEW P \in SUBSET RelAtom, P \notin S, NEW z, Zoned(z, S, RamSize)
  PROVE  Zoned(Packed(z, P), S \cup {P}, RamSize)
<1> DEFINE l == Len(z)
           U == S \cup {P}
           h == Packed(z, P)
<1>1. /\ z \in Seq(SUBSET S) /\ l \in Nat \ {0} /\ l \in 1 .. l
      /\ \A i \in 1 .. l : z[i] \in SUBSET S
  BY DEF Zoned
<1>2. \A i \in 1 .. l : P \notin z[i]
  BY <1>1
<1>3. z[l] \in SUBSET (SUBSET RelAtom) /\ P \notin z[l]
  BY <1>1, <1>2
<1>4. CASE SizeOfAll(z[l]) + SizeOf(P) <= RamSize
  <2>1. h = [z EXCEPT ![l] = z[l] \cup {P}]
    BY <1>4 DEF Packed
  <2>2. z[l] \cup {P} \in SUBSET U
    BY <1>1
  <2>3. z \in Seq(SUBSET U)
    BY <1>1
  <2>4. h \in Seq(SUBSET U) /\ Len(h) = l
    BY <1>1, <2>1, <2>2, <2>3
  <2>5. /\ h[l] = z[l] \cup {P}
        /\ \A i \in 1 .. l : i # l => h[i] = z[i]
    BY <1>1, <2>1
  <2>6. ASSUME NEW R \in U
        PROVE  \E i \in 1 .. Len(h) :
                 R \in h[i] /\ \A j \in 1 .. Len(h) : R \in h[j] => j = i
    <3>1. CASE R = P
      BY <1>1, <1>2, <2>4, <2>5, <3>1
    <3>2. CASE R # P /\ R \in S
      <4>1. PICK i \in 1 .. l : R \in z[i] /\ \A j \in 1 .. l : R \in z[j] => j = i
        BY <3>2 DEF Zoned
      <4>2. R \in h[i] /\ \A j \in 1 .. l : R \in h[j] => j = i
        BY <2>5, <3>2, <4>1
      <4>3. QED
        BY <2>4, <4>2
    <3>3. QED
      BY <3>1, <3>2
  <2>7. SizeOfAll(h[l]) <= RamSize
    BY <1>3, <1>4, <2>5, SizeWith
  <2>8. \A i \in 1 .. Len(h) : Cardinality(h[i]) > 1 => SizeOfAll(h[i]) <= RamSize
    BY <2>4, <2>5, <2>7 DEF Zoned
  <2>9. QED
    BY <1>1, <2>4, <2>6, <2>8 DEF Zoned
<1>5. CASE ~ SizeOfAll(z[l]) + SizeOf(P) <= RamSize
  <2>1. h = Append(z, {P})
    BY <1>5 DEF Packed, Opened
  <2>2. {P} \in SUBSET U /\ z \in Seq(SUBSET U)
    BY <1>1
  <2>3. h \in Seq(SUBSET U) /\ Len(h) = l + 1
    BY <1>1, <2>1, <2>2
  <2>4. /\ h[l + 1] = {P}
        /\ \A i \in 1 .. l : h[i] = z[i]
    BY <1>1, <2>1
  <2>5. ASSUME NEW R \in U
        PROVE  \E i \in 1 .. Len(h) :
                 R \in h[i] /\ \A j \in 1 .. Len(h) : R \in h[j] => j = i
    <3>1. CASE R = P
      <4>1. l + 1 \in 1 .. Len(h)
        BY <1>1, <2>3
      <4>2. \A j \in 1 .. Len(h) : R \in h[j] => j = l + 1
        BY <1>1, <1>2, <2>3, <2>4, <3>1
      <4>3. QED
        BY <2>4, <3>1, <4>1, <4>2
    <3>2. CASE R # P /\ R \in S
      <4>1. PICK i \in 1 .. l : R \in z[i] /\ \A j \in 1 .. l : R \in z[j] => j = i
        BY <3>2 DEF Zoned
      <4>2. i \in 1 .. Len(h) /\ R \in h[i]
        BY <1>1, <2>3, <2>4, <4>1
      <4>3. \A j \in 1 .. Len(h) : R \in h[j] => j = i
        BY <1>1, <2>3, <2>4, <3>2, <4>1
      <4>4. QED
        BY <4>2, <4>3
    <3>3. QED
      BY <3>1, <3>2
  <2>6. Cardinality({P}) = 1
    BY FS_Singleton
  <2>7. ASSUME NEW i \in 1 .. Len(h), Cardinality(h[i]) > 1
        PROVE  SizeOfAll(h[i]) <= RamSize
    <3>1. i # l + 1
      <4> HIDE DEF h
      <4>1. i = l + 1 => Cardinality(h[i]) = 1
        BY <2>4, <2>6
      <4>2. QED
        BY <2>7, <4>1
    <3>2. i \in 1 .. l
      BY <1>1, <2>3, <3>1
    <3>3. QED
      BY <2>4, <2>7, <3>2 DEF Zoned
  <2>8. QED
    BY <1>1, <2>3, <2>5, <2>7 DEF Zoned
<1>6. QED
  BY <1>4, <1>5

(* What a sequence of all elements of S is.                                *)
LEMMA Permuted ==
  ASSUME NEW S, IsFiniteSet(S), NEW s \in SetToSeqs(S)
  PROVE  /\ s \in Seq(S) /\ Len(s) = Cardinality(S) /\ Len(s) \in Nat
         /\ \A i, j \in 1 .. Len(s) : s[i] = s[j] => i = j
         /\ \A x \in S : \E i \in 1 .. Len(s) : s[i] = x
<1> DEFINE n == Cardinality(S)
<1>1. n \in Nat
  BY FS_CardinalityType
<1>2. s \in [1 .. n -> S] /\ \A i, j \in 1 .. n : i # j => s[i] # s[j]
  BY DEF SetToSeqs
<1>3. IsFiniteSet(1 .. n) /\ Cardinality(1 .. n) = n
  BY <1>1, FS_Interval
<1>4. s \in Injection(1 .. n, S)
  BY <1>2 DEF Injection, IsInjective
<1>5. s \in Surjection(1 .. n, S)
  BY <1>3, <1>4, FS_Injection
<1>6. s \in Seq(S) /\ Len(s) = n
  BY <1>1, <1>2
<1>7. \A x \in S : \E i \in 1 .. n : s[i] = x
  BY <1>5 DEF Surjection
<1>8. QED
  BY <1>1, <1>2, <1>6, <1>7

(* f has the zones after each number of parts.                              *)
IsUpTo(f, s, n) ==
  f = [m \in 0 .. n |-> IF m = 0 THEN << {} >> ELSE Packed(f[m - 1], s[m])]

LEMMA UpToUnfolds ==
  ASSUME NEW f, NEW s, NEW n \in Nat, IsUpTo(f, s, n)
  PROVE  f[0] = << {} >> /\ \A m \in 1 .. n : f[m] = Packed(f[m - 1], s[m])
<1> DEFINE g == [m \in 0 .. n |-> IF m = 0 THEN << {} >> ELSE Packed(f[m - 1], s[m])]
<1>1. f = g
  BY DEF IsUpTo
<1>2. g[0] = << {} >>
  OBVIOUS
<1>3. ASSUME NEW m \in 1 .. n
      PROVE  g[m] = Packed(f[m - 1], s[m])
  <2>1. m \in 0 .. n /\ m # 0
    OBVIOUS
  <2>2. QED
    BY <2>1
<1>4. QED
  <2> HIDE DEF g
  <2>1. QED
    BY <1>1, <1>2, <1>3

LEMMA UpToExists ==
  ASSUME NEW s, NEW n \in Nat
  PROVE  \E f : IsUpTo(f, s, n)
<1> DEFINE Bad == {m \in Nat : ~ \E f : IsUpTo(f, s, m)}
<1>1. SUFFICES ASSUME Bad # {}
               PROVE  FALSE
  OBVIOUS
<1>2. PICK m \in Bad : \A k \in Bad : m <= k
  <2>1. Bad \in SUBSET Nat
    OBVIOUS
  <2>2. QED
    <3> HIDE DEF Bad
    <3>1. QED
      BY <1>1, <2>1, LeastNat
<1>3. CASE m = 0
  <2>1. IsUpTo([x \in 0 .. 0 |-> << {} >>], s, 0)
    BY DEF IsUpTo
  <2>2. QED
    BY <1>2, <1>3, <2>1
<1>4. CASE m # 0
  <2>1. m \in Nat /\ m - 1 \in Nat /\ m - 1 \notin Bad
    BY <1>2, <1>4
  <2>2. PICK f : IsUpTo(f, s, m - 1)
    BY <2>1
  <2> DEFINE g == [x \in 0 .. m |-> IF x < m THEN f[x] ELSE Packed(f[m - 1], s[m])]
  <2>3. f[0] = << {} >> /\ \A x \in 1 .. (m - 1) : f[x] = Packed(f[x - 1], s[x])
    BY <2>1, <2>2, UpToUnfolds
  <2>4. ASSUME NEW x \in 0 .. m
        PROVE  g[x] = IF x = 0 THEN << {} >> ELSE Packed(g[x - 1], s[x])
    <3>1. CASE x = 0
      BY <1>4, <2>1, <2>3, <3>1
    <3>2. CASE x = m
      <4>1. m - 1 \in 0 .. m /\ m - 1 < m /\ ~ m < m
        BY <1>4, <2>1
      <4>2. g[m - 1] = f[m - 1] /\ g[m] = Packed(f[m - 1], s[m])
        BY <3>2, <4>1
      <4>3. QED
        BY <1>4, <3>2, <4>2
    <3>3. CASE x # 0 /\ x # m
      <4>1. x \in 1 .. (m - 1) /\ x - 1 \in 0 .. m /\ x - 1 < m /\ x < m
        BY <2>1, <3>3
      <4>2. g[x - 1] = f[x - 1] /\ g[x] = f[x]
        BY <4>1
      <4>3. QED
        BY <2>3, <3>3, <4>1, <4>2
    <3>4. QED
      BY <3>1, <3>2, <3>3
  <2>5. g = [x \in 0 .. m |-> g[x]]
    OBVIOUS
  <2>6. IsUpTo(g, s, m)
    <3> HIDE DEF g
    <3>1. [x \in 0 .. m |-> g[x]] =
            [x \in 0 .. m |-> IF x = 0 THEN << {} >> ELSE Packed(g[x - 1], s[x])]
      BY <2>4
    <3>2. QED
      BY <2>5, <3>1 DEF IsUpTo
  <2>7. QED
    BY <1>2, <2>6
<1>5. QED
  BY <1>3, <1>4

(* Every part goes into one zone, whatever order they come in.             *)
LEMMA ZonesZoned ==
  ASSUME GoodMRF, config \in Config, NEW S \in SUBSET (SUBSET RelAtom),
         NEW s \in SetToSeqs(S)
  PROVE  Zoned(Zones(s), S, RamSize)
<1>1. /\ Len(s) \in Nat
      /\ \A i \in 1 .. Len(s) : s[i] \in S
      /\ \A i, j \in 1 .. Len(s) : s[i] = s[j] => i = j
      /\ \A P \in S : \E i \in 1 .. Len(s) : s[i] = P
  <2>1. IsFiniteSet(S)
    BY ClustersFinite
  <2>2. QED
    BY <2>1, Permuted
<1> DEFINE n == Len(s)
           g == CHOOSE f : IsUpTo(f, s, n)
<1>2. PICK f : IsUpTo(f, s, n) /\ Zones(s) = f[n]
  <2>1. Zones(s) = g[n]
    BY DEF Zones, IsUpTo
  <2>2. IsUpTo(g, s, n)
    BY <1>1, UpToExists
  <2>3. QED
    <3> HIDE DEF g
    <3>1. QED
      BY <2>1, <2>2
<1> DEFINE first(m) == {s[i] : i \in 1 .. m}
           Bad == {m \in 0 .. n : ~ Zoned(f[m], first(m), RamSize)}
<1>4. f[0] = << {} >> /\ \A m \in 1 .. n : f[m] = Packed(f[m - 1], s[m])
  <2>1. n \in Nat /\ IsUpTo(f, s, n)
    BY <1>1, <1>2
  <2> HIDE DEF n
  <2>2. QED
    BY <2>1, UpToUnfolds
<1>5. Bad = {}
  <2>1. SUFFICES ASSUME Bad # {}
                 PROVE  FALSE
    OBVIOUS
  <2>2. PICK m \in Bad : \A k \in Bad : m <= k
    <3>1. Bad \in SUBSET Nat
      BY <1>1
    <3>2. QED
      <4> HIDE DEF Bad
      <4>1. QED
        BY <2>1, <3>1, LeastNat
  <2>3. m \in 0 .. n /\ m \in Nat /\ ~ Zoned(f[m], first(m), RamSize)
    BY <1>1, <2>2
  <2>4. CASE m = 0
    <3>1. first(0) = {}
      OBVIOUS
    <3>2. QED
      BY <1>4, <2>3, <2>4, <3>1, ZonedNone
  <2>5. CASE m # 0
    <3>a. m \in 1 .. n /\ m - 1 \in 0 .. n /\ ~ m <= m - 1
      BY <1>1, <2>3, <2>5
    <3>b. m - 1 \notin Bad
      <4> HIDE DEF Bad
      <4>1. QED
        BY <2>2, <3>a
    <3>1. m \in 1 .. n /\ m - 1 \in 0 .. n /\ m - 1 \notin Bad
      BY <3>a, <3>b
    <3>2. Zoned(f[m - 1], first(m - 1), RamSize)
      BY <3>1
    <3>3. first(m) = first(m - 1) \cup {s[m]}
      BY <1>1, <3>1
    <3>4. s[m] \notin first(m - 1)
      BY <1>1, <3>1
    <3>5. first(m - 1) \in SUBSET (SUBSET RelAtom) /\ s[m] \in SUBSET RelAtom
      BY <1>1, <3>1
    <3>6. Zoned(Packed(f[m - 1], s[m]), first(m - 1) \cup {s[m]}, RamSize)
      <4> HIDE DEF first
      <4>1. QED
        BY <3>2, <3>4, <3>5, PackedZoned
    <3>7. QED
      BY <1>4, <2>3, <3>1, <3>3, <3>6
  <2>6. QED
    BY <2>4, <2>5
<1>6. first(n) = S
  BY <1>1
<1>7. n \in 0 .. n
  BY <1>1
<1>8. Zoned(f[n], first(n), RamSize)
  <2> HIDE DEF first
  <2>1. QED
    BY <1>5, <1>7
<1>9. QED
  BY <1>2, <1>6, <1>8

-----------------------------------------------------------------------------
(* The partitioning, from the first clause to the last bucket.             *)
SchemeInv ==
  /\ config \in Config
  /\ phase \in {"scan", "assign", "group", "grouped"}
  /\ unread \subseteq RelClause
  /\ phase # "scan" => unread = {}
  /\ Scanned(RelClause \ unread, comps, parts, Budget)
  /\ owner # <<>> => owner \in [RelClause -> parts]
  /\ phase \in {"scan", "assign"} =>
       owner = <<>> /\ ungrouped = {} /\ wholeBuckets = <<>> /\ partBuckets = <<>>
  /\ ungrouped \subseteq comps
  /\ phase = "grouped" => ungrouped = {}

Placed(C) ==
  \/ C \in ungrouped
  \/ \E i \in 1 .. Len(wholeBuckets) : C \in wholeBuckets[i]
  \/ C \in DOMAIN partBuckets

BucketInv ==
  /\ phase \in {"group", "grouped"} => \A C \in Needed : Placed(C)
  /\ wholeBuckets \in Seq(SUBSET comps)
  /\ \A i \in 1 .. Len(wholeBuckets) : SizeOfAll(wholeBuckets[i]) <= RamSize
  /\ DOMAIN partBuckets \subseteq Needed
  /\ \A C \in DOMAIN partBuckets : Zoned(partBuckets[C], PartsOf(C), RamSize)

(* The inference, bucket by bucket: what is behind it is done with.         *)
Done(C) == C \subseteq inferred /\ costs[C] > 0

WholeDone(n) == \A i \in 1 .. n : \A C \in wholeBuckets[i] : Done(C)

RunTypes ==
  /\ stage \in {"waiting", "whole", "split", "returned", "failed"}
  /\ turn \in Nat \ {0} /\ round \in 1 .. Rounds + 1
  /\ splitLeft \subseteq DOMAIN partBuckets
  /\ splitting # {} => splitting \in DOMAIN partBuckets
  /\ inRam \subseteq parts /\ atomsOf \subseteq comps /\ inferred \subseteq RelAtom
  /\ hugeCost \in BOOLEAN
  /\ stage = "waiting" =>
       /\ splitLeft = {} /\ splitting = {} /\ inRam = {} /\ atomsOf = {} /\ inferred = {}
       /\ turn = 1 /\ round = 1 /\ costs = <<>> /\ hugeCost = FALSE
  /\ stage # "waiting" => phase = "grouped" /\ costs \in [comps -> Nat]

(* The component that is split: the buckets before this one are inferred,   *)
(* all of them after the first round.                                      *)
SplitInv ==
  LET zones == partBuckets[splitting]
  IN  /\ splitting \in DOMAIN partBuckets \ splitLeft
      /\ turn \in 1 .. Len(zones)
      /\ Task = "MAP" =>
           /\ \A C \in DOMAIN partBuckets \ splitLeft : C # splitting => Done(C)
           /\ \A i \in 1 .. Len(zones) : i < turn \/ round > 1 => UNION zones[i] \subseteq inferred
           /\ round > Rounds => costs[splitting] > 0

RunInv ==
  /\ RunTypes /\ MemoryFreed /\ FailsOnlySplit
  /\ hugeCost => Task = "MARGINAL" /\ Needed \cap DOMAIN partBuckets # {}
  /\ stage = "whole" => /\ splitLeft = DOMAIN partBuckets
                        /\ turn <= Len(wholeBuckets) + 1
                        /\ WholeDone(turn - 1)
  /\ stage = "split" => SplitInv /\ WholeDone(Len(wholeBuckets))
  /\ stage = "returned" =>
       /\ WholeDone(Len(wholeBuckets))
       /\ Task = "MAP" => \A C \in DOMAIN partBuckets : Done(C)

PartitionInv == SchemeInv /\ BucketInv /\ RunInv

LEMMA PartitionInit == GoodMRF /\ InferInit => PartitionInv
<1> SUFFICES ASSUME GoodMRF, InferInit
             PROVE  PartitionInv
  OBVIOUS
<1> USE DEF InferInit, SchemeInit
<1>1. config \in Config
  BY DEF GoodMRF
<1>2. Scanned(RelClause \ unread, comps, parts, Budget)
  <2>1. RelClause \ unread = {}
    OBVIOUS
  <2>2. QED
    BY <2>1, ScannedNone
<1>3. SchemeInv
  BY <1>1, <1>2 DEF SchemeInv
<1>4. BucketInv
  <2>1. wholeBuckets = <<>> /\ partBuckets = <<>> /\ DOMAIN partBuckets = {}
    OBVIOUS
  <2>2. QED
    BY <2>1 DEF BucketInv
<1>5. RunInv
  <2>1. DOMAIN partBuckets = {}
    OBVIOUS
  <2>2. Rounds \in Nat \ {0}
    BY DEF GoodMRF
  <2>3. RunTypes
    <3>1. turn \in Nat \ {0} /\ round \in 1 .. Rounds + 1
      BY <2>2
    <3>2. hugeCost \in BOOLEAN /\ stage = "waiting"
      OBVIOUS
    <3>3. inRam = {} /\ atomsOf = {} /\ inferred = {} /\ splitLeft = {} /\ splitting = {}
      OBVIOUS
    <3>4. turn = 1 /\ round = 1 /\ costs = <<>> /\ hugeCost = FALSE
      OBVIOUS
    <3> HIDE DEF InferInit
    <3>5. QED
      BY <2>1, <3>1, <3>2, <3>3, <3>4 DEF RunTypes
  <2>4. MemoryFreed /\ FailsOnlySplit
    BY DEF MemoryFreed, FailsOnlySplit
  <2>5. QED
    BY <2>3, <2>4 DEF RunInv
<1>6. QED
  BY <1>3, <1>4, <1>5 DEF PartitionInv

LEMMA ScanKeeps ==
  ASSUME GoodMRF, SchemeInv, BucketInv, NEW c \in RelClause, ScanClause(c), UNCHANGED config
  PROVE  SchemeInv' /\ BucketInv' /\ phase = "scan"
<1> USE DEF ScanClause
<1>1. Budget \in Nat /\ Budget' = Budget
  BY DEF SchemeInv, Config, Budget
<1> DEFINE joins == Cardinality(RelClauses[c]) > 1 /\ Fits(c)
<1>2. joins \in BOOLEAN /\ (joins <=> Cardinality(RelClauses[c]) > 1
                                       /\ SizeOfAll(Touched(parts, c)) <= Budget)
  BY DEF Fits
<1>3. /\ comps' = Merged(comps, c)
      /\ parts' = IF joins THEN Merged(parts, c) ELSE parts
      /\ RelClause \ unread' = (RelClause \ unread) \cup {c}
  BY DEF Connects
<1>4. Scanned((RelClause \ unread) \cup {c}, Merged(comps, c),
              IF joins THEN Merged(parts, c) ELSE parts, Budget)
  <2> HIDE DEF joins
  <2>1. RelClause \ unread \in SUBSET RelClause
    OBVIOUS
  <2>2. Scanned(RelClause \ unread, comps, parts, Budget)
    BY DEF SchemeInv
  <2>3. QED
    BY <1>1, <1>2, <2>1, <2>2, ScannedOne
<1>5. Scanned(RelClause \ unread', comps', parts', Budget')
  BY <1>1, <1>3, <1>4
<1>6. SchemeInv'
  BY <1>5 DEF SchemeInv
<1>7. BucketInv'
  <2>1. phase = "scan" /\ phase' = "scan" /\ wholeBuckets' = <<>> /\ partBuckets' = <<>>
    BY DEF SchemeInv
  <2>2. DOMAIN partBuckets' = {}
    BY <2>1
  <2>3. QED
    BY <2>1, <2>2 DEF BucketInv
<1>8. QED
  BY <1>6, <1>7

LEMMA FinishScanKeeps ==
  ASSUME GoodMRF, SchemeInv, BucketInv, FinishScan, UNCHANGED config
  PROVE  SchemeInv' /\ BucketInv' /\ phase = "scan"
<1> USE DEF FinishScan
<1>1. SchemeInv'
  <2>1. Scanned(RelClause \ unread', comps', parts', Budget')
    BY DEF SchemeInv, Budget
  <2>2. QED
    BY <2>1 DEF SchemeInv
<1>2. wholeBuckets' = <<>> /\ partBuckets' = <<>>
  BY DEF SchemeInv
<1>3. DOMAIN partBuckets' = {}
  BY <1>2
<1>4. BucketInv'
  BY <1>2, <1>3 DEF BucketInv
<1>5. QED
  BY <1>1, <1>4

LEMMA AssignKeeps ==
  ASSUME GoodMRF, SchemeInv, BucketInv, AssignClauses, UNCHANGED config
  PROVE  SchemeInv' /\ BucketInv' /\ phase = "assign"
<1> USE DEF AssignClauses
<1>1. SchemeInv'
  <2>1. Scanned(RelClause \ unread', comps', parts', Budget')
    BY DEF SchemeInv, Budget
  <2>2. owner' \in [RelClause -> parts']
    OBVIOUS
  <2>3. QED
    BY <2>1, <2>2 DEF SchemeInv
<1>2. wholeBuckets' = <<>> /\ partBuckets' = <<>>
  BY DEF SchemeInv
<1>3. DOMAIN partBuckets' = {}
  BY <1>2
<1>4. \A C \in Needed' : Placed(C)'
  BY DEF Needed, Placed
<1>5. BucketInv'
  BY <1>2, <1>3, <1>4 DEF BucketInv
<1>6. QED
  BY <1>1, <1>5

(* While components are grouped, the partition and the settings stay.       *)
LEMMA GroupFrame ==
  ASSUME SchemeInv, UNCHANGED <<config, unread, comps, parts, owner>>,
         phase = "group", phase' \in {"group", "grouped"}, ungrouped' \subseteq ungrouped,
         phase' = "grouped" => ungrouped' = {}
  PROVE  /\ SchemeInv' /\ Needed' = Needed /\ RamSize' = RamSize
         /\ \A C : PartsOf(C)' = PartsOf(C)
<1>1. Scanned(RelClause \ unread', comps', parts', Budget')
  BY DEF SchemeInv, Budget
<1>2. SchemeInv'
  BY <1>1 DEF SchemeInv
<1>3. QED
  BY <1>2 DEF Needed, RamSize, PartsOf, SkipUseless

LEMMA SkipKeeps ==
  ASSUME GoodMRF, SchemeInv, BucketInv, NEW C \in ungrouped, SkipComponent(C),
         UNCHANGED config
  PROVE  SchemeInv' /\ BucketInv' /\ phase = "group"
<1> USE DEF SkipComponent, IsNext
<1>1. /\ SchemeInv' /\ Needed' = Needed /\ RamSize' = RamSize
      /\ \A D : PartsOf(D)' = PartsOf(D)
  <2>1. ungrouped' \subseteq ungrouped
    OBVIOUS
  <2>2. QED
    BY <2>1, GroupFrame
<1>2. C \notin Needed
  BY DEF Needed
<1>3. \A D \in Needed : Placed(D) => Placed(D)'
  BY <1>2 DEF Placed
<1>4. BucketInv'
  BY <1>1, <1>3 DEF BucketInv
<1>5. QED
  BY <1>1, <1>4

LEMMA FinishGroupingKeeps ==
  ASSUME GoodMRF, SchemeInv, BucketInv, FinishGrouping, UNCHANGED config
  PROVE  SchemeInv' /\ BucketInv' /\ phase = "group"
<1> USE DEF FinishGrouping
<1>1. /\ SchemeInv' /\ Needed' = Needed /\ RamSize' = RamSize
      /\ \A D : PartsOf(D)' = PartsOf(D)
  BY GroupFrame
<1>2. \A D \in Needed : Placed(D) => Placed(D)'
  BY DEF Placed
<1>3. BucketInv'
  BY <1>1, <1>2 DEF BucketInv
<1>4. QED
  BY <1>1, <1>3

LEMMA PlaceWholeKeeps ==
  ASSUME GoodMRF, SchemeInv, BucketInv, NEW C \in ungrouped, PlaceWhole(C),
         UNCHANGED config
  PROVE  SchemeInv' /\ BucketInv' /\ phase = "group"
<1> DEFINE w == wholeBuckets
           n == Len(w)
           added == [i \in DOMAIN w |-> IF Room(w[i], C) THEN w[i] \cup {C} ELSE w[i]]
           taken == \E i \in DOMAIN w : Room(w[i], C)
<1>1. /\ phase = "group" /\ phase' = phase /\ ungrouped' = ungrouped \ {C}
      /\ SizeOf(C) <= RamSize
      /\ w' = IF taken THEN added ELSE Append(w, {C})
      /\ UNCHANGED <<config, unread, comps, parts, owner, partBuckets>>
  BY DEF PlaceWhole, IsNext
<1>2. /\ SchemeInv' /\ Needed' = Needed /\ RamSize' = RamSize
      /\ \A D : PartsOf(D)' = PartsOf(D)
  <2>1. ungrouped' \subseteq ungrouped
    BY <1>1
  <2>2. QED
    BY <1>1, <2>1, GroupFrame
<1>3. /\ w \in Seq(SUBSET comps) /\ n \in Nat /\ DOMAIN w = 1 .. n
      /\ \A i \in 1 .. n : w[i] \in SUBSET comps /\ SizeOfAll(w[i]) <= RamSize
  BY DEF BucketInv
<1>4. C \in comps /\ comps \in SUBSET (SUBSET RelAtom) /\ C \in SUBSET RelAtom
  BY DEF SchemeInv, Scanned, Clustering
<1>5. /\ w' \in Seq(SUBSET comps)
      /\ \A i \in 1 .. Len(w') : SizeOfAll(w'[i]) <= RamSize
      /\ \A D : (\E i \in 1 .. n : D \in w[i]) \/ D = C => \E i \in 1 .. Len(w') : D \in w'[i]
  <2>1. CASE taken
    <3>1. w' = added
      BY <1>1, <2>1
    <3>2. /\ Len(w') = n
          /\ \A i \in 1 .. n : w'[i] = IF Room(w[i], C) THEN w[i] \cup {C} ELSE w[i]
      BY <1>3, <3>1
    <3>3. \A i \in 1 .. n : w'[i] \in SUBSET comps
      BY <1>3, <1>4, <3>2
    <3>4. w' \in Seq(SUBSET comps)
      <4>1. w' \in [1 .. n -> SUBSET comps]
        BY <1>3, <3>1, <3>2, <3>3
      <4>2. QED
        BY <1>3, <4>1
    <3>5. ASSUME NEW i \in 1 .. n
          PROVE  SizeOfAll(w'[i]) <= RamSize
      <4>1. CASE Room(w[i], C)
        <5>1. SizeOfAll(w[i]) + SizeOf(C) <= RamSize /\ w'[i] = w[i] \cup {C}
          BY <3>2, <4>1 DEF Room
        <5>2. w[i] \in SUBSET (SUBSET RelAtom)
          BY <1>3, <1>4
        <5>3. SizeOfAll(w[i] \cup {C}) = IF C \in w[i] THEN SizeOfAll(w[i])
                                         ELSE SizeOfAll(w[i]) + SizeOf(C)
          BY <1>4, <5>2, SizeWith
        <5>4. QED
          BY <1>3, <5>1, <5>3
      <4>2. CASE ~ Room(w[i], C)
        BY <1>3, <3>2, <4>2
      <4>3. QED
        BY <4>1, <4>2
    <3>6. PICK k \in 1 .. n : Room(w[k], C)
      BY <1>3, <2>1
    <3>7. C \in w'[k]
      BY <3>2, <3>6
    <3>8. \A D : (\E i \in 1 .. n : D \in w[i]) \/ D = C => \E i \in 1 .. n : D \in w'[i]
      BY <3>2, <3>6, <3>7
    <3>9. QED
      BY <3>2, <3>4, <3>5, <3>8
  <2>2. CASE ~ taken
    <3>1. w' = Append(w, {C})
      BY <1>1, <2>2
    <3>2. {C} \in SUBSET comps
      BY <1>4
    <3>3. /\ w' \in Seq(SUBSET comps) /\ Len(w') = n + 1 /\ w'[n + 1] = {C}
          /\ \A i \in 1 .. n : w'[i] = w[i]
      BY <1>3, <3>1, <3>2
    <3>4. SizeOfAll({C}) = SizeOf(C)
      <4>1. SizeOfAll({} \cup {C}) = IF C \in {} THEN SizeOfAll({}) ELSE SizeOfAll({}) + SizeOf(C)
        BY <1>4, SizeWith
      <4>2. {} \cup {C} = {C} /\ C \notin {}
        OBVIOUS
      <4>3. SizeOf(C) \in Nat
        BY <1>4, SizeNat
      <4>4. QED
        BY <4>1, <4>2, <4>3, SizeOfNone
    <3>5. ASSUME NEW i \in 1 .. Len(w')
          PROVE  SizeOfAll(w'[i]) <= RamSize
      <4>1. i \in 1 .. n \/ i = n + 1
        BY <1>3, <3>3
      <4>2. QED
        BY <1>1, <1>3, <3>3, <3>4, <4>1
    <3>6. n + 1 \in 1 .. Len(w') /\ 1 .. n \subseteq 1 .. Len(w') /\ C \in w'[n + 1]
      BY <1>3, <3>3
    <3>7. \A D : (\E i \in 1 .. n : D \in w[i]) \/ D = C => \E i \in 1 .. Len(w') : D \in w'[i]
      BY <3>3, <3>6
    <3>8. QED
      BY <3>3, <3>5, <3>7
  <2>3. QED
    BY <2>1, <2>2
<1>6. \A D \in Needed : Placed(D) => Placed(D)'
  BY <1>1, <1>5 DEF Placed
<1>7. BucketInv'
  BY <1>1, <1>2, <1>5, <1>6 DEF BucketInv
<1>8. QED
  BY <1>1, <1>2, <1>7

LEMMA PlaceSplitKeeps ==
  ASSUME GoodMRF, SchemeInv, BucketInv, NEW C \in ungrouped, PlaceSplit(C),
         UNCHANGED config
  PROVE  SchemeInv' /\ BucketInv' /\ phase = "group"
<1>1. /\ phase = "group" /\ phase' = phase /\ ungrouped' = ungrouped \ {C}
      /\ ~ SkipUseless \/ hasQueryAtom(C)
      /\ UNCHANGED <<config, unread, comps, parts, owner, wholeBuckets>>
  BY DEF PlaceSplit, IsNext
<1>2. PICK sorted \in SetToSeqs(PartsOf(C)) :
        partBuckets' = [D \in DOMAIN partBuckets \cup {C} |->
                          IF D = C THEN Zones(sorted) ELSE partBuckets[D]]
  BY DEF PlaceSplit
<1>3. /\ SchemeInv' /\ Needed' = Needed /\ RamSize' = RamSize
      /\ \A D : PartsOf(D)' = PartsOf(D)
  <2>1. ungrouped' \subseteq ungrouped
    BY <1>1
  <2>2. QED
    BY <1>1, <2>1, GroupFrame
<1>4. Zoned(Zones(sorted), PartsOf(C), RamSize)
  <2>1. PartsOf(C) \in SUBSET (SUBSET RelAtom) /\ config \in Config
    BY DEF SchemeInv, Scanned, Clustering, PartsOf
  <2>2. QED
    BY <2>1, ZonesZoned
<1>5. C \in Needed
  BY <1>1 DEF SchemeInv, Needed
<1>6. /\ DOMAIN partBuckets' = DOMAIN partBuckets \cup {C}
      /\ partBuckets'[C] = Zones(sorted)
      /\ \A D \in DOMAIN partBuckets : D # C => partBuckets'[D] = partBuckets[D]
  BY <1>2
<1>7. ASSUME NEW D \in DOMAIN partBuckets'
      PROVE  Zoned(partBuckets'[D], PartsOf(D), RamSize)
  <2>1. CASE D = C
    BY <1>4, <1>6, <2>1
  <2>2. CASE D # C
    BY <1>6, <2>2 DEF BucketInv
  <2>3. QED
    BY <2>1, <2>2
<1>8. \A D \in Needed : Placed(D) => Placed(D)'
  BY <1>1, <1>6 DEF Placed
<1>9. BucketInv'
  <2>1. DOMAIN partBuckets' \subseteq Needed'
    BY <1>3, <1>5, <1>6 DEF BucketInv
  <2>2. \A D \in DOMAIN partBuckets' : Zoned(partBuckets'[D], PartsOf(D)', RamSize')
    BY <1>3, <1>7
  <2>3. /\ wholeBuckets' \in Seq(SUBSET comps')
        /\ \A i \in 1 .. Len(wholeBuckets') : SizeOfAll(wholeBuckets'[i]) <= RamSize'
    BY <1>1, <1>3 DEF BucketInv
  <2>4. \A D \in Needed' : Placed(D)'
    BY <1>1, <1>3, <1>8 DEF BucketInv
  <2>5. QED
    BY <2>1, <2>2, <2>3, <2>4 DEF BucketInv
<1>10. QED
  BY <1>1, <1>3, <1>9

(* A step of the partitioning is taken before the inference begins.         *)
LEMMA PartitionKeeps ==
  ASSUME GoodMRF, PartitionInv, Partition
  PROVE  PartitionInv'
<1>1. SchemeInv /\ BucketInv /\ RunInv
  BY DEF PartitionInv
<1>2. SchemeInv' /\ BucketInv' /\ phase # "grouped"
  <2> USE <1>1
  <2>1. CASE \E c \in RelClause : ScanClause(c)
    BY <2>1, ScanKeeps DEF Partition, SchemeStep
  <2>2. CASE FinishScan
    BY <2>2, FinishScanKeeps DEF Partition, SchemeStep
  <2>3. CASE AssignClauses
    BY <2>3, AssignKeeps DEF Partition, SchemeStep
  <2>4. ASSUME NEW C \in ungrouped, SkipComponent(C) \/ PlaceWhole(C) \/ PlaceSplit(C)
        PROVE  SchemeInv' /\ BucketInv' /\ phase # "grouped"
    BY <2>4, SkipKeeps, PlaceWholeKeeps, PlaceSplitKeeps DEF Partition, SchemeStep
  <2>5. CASE FinishGrouping
    BY <2>5, FinishGroupingKeeps DEF Partition, SchemeStep
  <2>6. QED
    BY <2>1, <2>2, <2>3, <2>4, <2>5 DEF Partition, SchemeStep
<1>3. stage = "waiting" /\ UNCHANGED runVars
  BY <1>1, <1>2 DEF RunInv, RunTypes, Partition
<1>4. RunInv'
  <2>1. /\ stage' = "waiting" /\ splitLeft' = {} /\ splitting' = {} /\ inRam' = {}
        /\ atomsOf' = {} /\ inferred' = {} /\ turn' = 1 /\ round' = 1 /\ costs' = <<>>
        /\ hugeCost' = FALSE
    BY <1>1, <1>3 DEF RunInv, RunTypes, runVars
  <2>a. Rounds \in Nat \ {0}
    BY DEF GoodMRF
  <2>b. turn' \in Nat \ {0} /\ round' \in 1 .. Rounds + 1
    BY <2>1, <2>a
  <2>2. hugeCost' \in BOOLEAN
    BY <2>1
  <2>3. RunTypes'
    BY <2>1, <2>2, <2>b DEF RunTypes
  <2>4. MemoryFreed' /\ FailsOnlySplit'
    BY <2>1 DEF MemoryFreed, FailsOnlySplit
  <2>5. QED
    BY <2>1, <2>3, <2>4 DEF RunInv
<1>5. QED
  BY <1>2, <1>4 DEF PartitionInv

(* The inference leaves the partition and the buckets as they are.          *)
LEMMA SchemeStays ==
  ASSUME SchemeInv, BucketInv, UNCHANGED schemeVars
  PROVE  /\ SchemeInv' /\ BucketInv'
         /\ Needed' = Needed /\ Task' = Task
         /\ \A C : PartsOf(C)' = PartsOf(C)
<1> USE DEF schemeVars
<1>1. SchemeInv'
  BY DEF SchemeInv, Budget
<1>2. Needed' = Needed /\ Task' = Task /\ RamSize' = RamSize
  BY DEF Needed, SkipUseless, Task, RamSize
<1>3. \A C : PartsOf(C)' = PartsOf(C)
  BY DEF PartsOf
<1>4. \A C : Placed(C)' = Placed(C)
  BY DEF Placed
<1>5. BucketInv'
  BY <1>2, <1>3, <1>4 DEF BucketInv
<1>6. QED
  BY <1>1, <1>2, <1>3, <1>5

(* What the buckets hold.                                                  *)
LEMMA BucketTypes ==
  ASSUME SchemeInv, BucketInv
  PROVE  /\ comps \in SUBSET (SUBSET RelAtom) /\ parts \in SUBSET (SUBSET RelAtom)
         /\ \A i \in 1 .. Len(wholeBuckets) : wholeBuckets[i] \in SUBSET comps
         /\ Len(wholeBuckets) \in Nat
         /\ DOMAIN partBuckets \in SUBSET comps
         /\ \A C \in DOMAIN partBuckets :
              /\ Len(partBuckets[C]) \in Nat \ {0}
              /\ \A i \in 1 .. Len(partBuckets[C]) : partBuckets[C][i] \in SUBSET PartsOf(C)
<1>1. comps \in SUBSET (SUBSET RelAtom) /\ parts \in SUBSET (SUBSET RelAtom)
  BY DEF SchemeInv, Scanned, Clustering
<1>2. Len(wholeBuckets) \in Nat
        /\ \A i \in 1 .. Len(wholeBuckets) : wholeBuckets[i] \in SUBSET comps
  BY DEF BucketInv
<1>3. DOMAIN partBuckets \in SUBSET comps
  BY DEF BucketInv, Needed
<1>4. ASSUME NEW C \in DOMAIN partBuckets
      PROVE  /\ Len(partBuckets[C]) \in Nat \ {0}
             /\ \A i \in 1 .. Len(partBuckets[C]) : partBuckets[C][i] \in SUBSET PartsOf(C)
  <2>1. Zoned(partBuckets[C], PartsOf(C), RamSize)
    BY DEF BucketInv
  <2>2. QED
    BY <2>1 DEF Zoned
<1>5. QED
  BY <1>1, <1>2, <1>3, <1>4

LEMMA BeginKeeps ==
  ASSUME GoodMRF, SchemeInv, BucketInv, RunInv, Begin
  PROVE  RunInv'
<1> USE DEF Begin
<1>1. UNCHANGED schemeVars /\ Needed' = Needed /\ Task' = Task
  BY SchemeStays
<1>2. /\ splitting = {} /\ inRam = {} /\ atomsOf = {} /\ inferred = {}
      /\ turn = 1 /\ round = 1 /\ hugeCost = FALSE
  BY DEF RunInv, RunTypes
<1>3. costs' \in [comps' -> Nat]
  BY <1>1 DEF schemeVars
<1>4. RunTypes'
  <2>a. Rounds \in Nat \ {0}
    BY DEF GoodMRF
  <2>1. turn' \in Nat \ {0} /\ round' \in 1 .. Rounds + 1
    BY <1>2, <2>a
  <2>b. hugeCost' \in BOOLEAN
    BY <1>2
  <2>2. splitLeft' \subseteq DOMAIN partBuckets' /\ splitting' = {}
    BY <1>1, <1>2 DEF schemeVars
  <2>3. inRam' = {} /\ atomsOf' = {} /\ inferred' = {} /\ phase' = "grouped"
    BY <1>1, <1>2 DEF schemeVars
  <2>4. stage' = "whole"
    OBVIOUS
  <2>5. QED
    BY <1>3, <2>1, <2>2, <2>3, <2>4, <2>b DEF RunTypes
<1>5. MemoryFreed' /\ FailsOnlySplit'
  BY <1>2 DEF MemoryFreed, FailsOnlySplit
<1>6. WholeDone(turn - 1)'
  BY <1>2 DEF WholeDone
<1>7. turn' <= Len(wholeBuckets') + 1 /\ splitLeft' = DOMAIN partBuckets'
  BY <1>1, <1>2, BucketTypes DEF schemeVars
<1>8. stage' = "whole" /\ hugeCost' = FALSE
  BY <1>2
<1>9. QED
  BY <1>4, <1>5, <1>6, <1>7, <1>8 DEF RunInv

LEMMA DoneStays ==
  ASSUME costs \in [comps -> Nat], inferred \subseteq inferred',
         \A C \in comps : costs'[C] \in Nat /\ costs'[C] >= costs[C]
  PROVE  \A C \in comps : Done(C) => Done(C)'
BY DEF Done

LEMMA InferWholeKeeps ==
  ASSUME GoodMRF, SchemeInv, BucketInv, RunInv, InferWhole
  PROVE  RunInv'
<1> DEFINE K == wholeBuckets[turn]
           P == UNION {PartsOf(C) : C \in K}
<1>1. /\ stage = "whole" /\ turn <= Len(wholeBuckets) /\ turn \in 1 .. Len(wholeBuckets)
      /\ inferred' = inferred \cup UNION K
      /\ costs' = [C \in comps |-> IF C \in K THEN costs[C] + 1 ELSE costs[C]]
      /\ inRam' = Discarded(inRam \cup P, P)
      /\ atomsOf' = Discarded(atomsOf \cup K, K)
      /\ turn' = turn + 1
      /\ UNCHANGED <<schemeVars, stage, round, splitLeft, splitting, hugeCost>>
  BY BucketTypes DEF InferWhole, Flushed, RunInv, RunTypes
<1>2. UNCHANGED schemeVars /\ Needed' = Needed /\ Task' = Task
  BY <1>1, SchemeStays
<1>3. K \in SUBSET comps /\ K \in SUBSET (SUBSET RelAtom) /\ P \in SUBSET parts
  BY <1>1, BucketTypes DEF PartsOf
<1>4. costs \in [comps -> Nat] /\ costs' \in [comps -> Nat]
      /\ \A C \in comps : costs'[C] = IF C \in K THEN costs[C] + 1 ELSE costs[C]
  BY <1>1 DEF RunInv, RunTypes
<1>5. \A C \in comps : Done(C) => Done(C)'
  <2>1. inferred \subseteq inferred'
    BY <1>1
  <2>2. \A C \in comps : costs'[C] \in Nat /\ costs'[C] >= costs[C]
    BY <1>4
  <2>3. QED
    BY <1>4, <2>1, <2>2, DoneStays
<1>6. \A C \in K : Done(C)'
  BY <1>1, <1>3, <1>4 DEF Done
<1>7. inRam' \subseteq parts /\ atomsOf' \subseteq comps
  <2>1. inRam \subseteq parts /\ atomsOf \subseteq comps
    BY DEF RunInv, RunTypes
  <2>2. QED
    BY <1>1, <1>3, <2>1 DEF Discarded
<1>8. MemoryFreed'
  <2> SUFFICES ASSUME Task = "MAP"
               PROVE  inRam' = {} /\ atomsOf' = {}
    BY <1>1, <1>2 DEF MemoryFreed
  <2>1. inRam = {} /\ atomsOf = {}
    BY <1>1 DEF RunInv, MemoryFreed
  <2>2. QED
    BY <1>1, <2>1 DEF Discarded
<1>9. RunTypes'
  <2>1. turn' \in Nat \ {0} /\ round' \in 1 .. Rounds + 1 /\ hugeCost' \in BOOLEAN
    BY <1>1 DEF RunInv, RunTypes
  <2>2. inRam' \subseteq parts' /\ atomsOf' \subseteq comps' /\ inferred' \subseteq RelAtom
    BY <1>1, <1>2, <1>3, <1>7 DEF RunInv, RunTypes, schemeVars
  <2>3. /\ splitLeft' \subseteq DOMAIN partBuckets'
        /\ splitting' # {} => splitting' \in DOMAIN partBuckets'
    BY <1>1, <1>2 DEF RunInv, RunTypes, schemeVars
  <2>4. stage' = "whole" /\ phase' = "grouped" /\ costs' \in [comps' -> Nat]
    BY <1>1, <1>2, <1>4 DEF RunInv, RunTypes, schemeVars
  <2>5. QED
    BY <2>1, <2>2, <2>3, <2>4 DEF RunTypes
<1>10. WholeDone(turn - 1)'
  <2> SUFFICES ASSUME NEW i \in 1 .. turn, NEW C \in wholeBuckets[i]
               PROVE  Done(C)'
    BY <1>1, <1>2 DEF WholeDone, schemeVars
  <2>1. CASE i = turn
    BY <1>6, <2>1
  <2>2. CASE i # turn
    <3>1. i \in 1 .. (turn - 1) /\ C \in comps
      BY <1>1, <2>2, BucketTypes
    <3>2. WholeDone(turn - 1)
      BY <1>1 DEF RunInv
    <3>3. QED
      BY <1>5, <3>1, <3>2 DEF WholeDone
  <2>3. QED
    BY <2>1, <2>2
<1>11. turn' <= Len(wholeBuckets') + 1 /\ splitLeft' = DOMAIN partBuckets'
  BY <1>1, <1>2, BucketTypes DEF schemeVars, RunInv
<1>12. FailsOnlySplit' /\ stage' = "whole"
  BY <1>1 DEF FailsOnlySplit
<1>13. hugeCost' => Task' = "MARGINAL" /\ Needed' \cap DOMAIN partBuckets' # {}
  BY <1>1, <1>2 DEF RunInv, schemeVars
<1>14. QED
  BY <1>8, <1>9, <1>10, <1>11, <1>12, <1>13 DEF RunInv

(* A component is made up of its parts, and each is in one of its buckets:  *)
(* once all buckets are inferred, so is the component.                     *)
LEMMA ZonesCover ==
  ASSUME SchemeInv, BucketInv, NEW C \in DOMAIN partBuckets, NEW S,
         \A i \in 1 .. Len(partBuckets[C]) : UNION partBuckets[C][i] \subseteq S
  PROVE  C \subseteq S
<1>1. C \in comps
  BY BucketTypes
<1>2. UNION PartsOf(C) = C
  BY <1>1, PiecesCover DEF SchemeInv, Scanned, PartsOf
<1>3. ASSUME NEW P \in PartsOf(C)
      PROVE  P \subseteq S
  <2>1. Zoned(partBuckets[C], PartsOf(C), RamSize)
    BY DEF BucketInv
  <2>2. PICK i \in 1 .. Len(partBuckets[C]) : P \in partBuckets[C][i]
    BY <2>1 DEF Zoned
  <2>3. QED
    BY <2>2
<1>4. QED
  BY <1>2, <1>3

LEMMA NextSplitKeeps ==
  ASSUME GoodMRF, SchemeInv, BucketInv, RunInv, NextSplit
  PROVE  RunInv'
<1>1. /\ UNCHANGED schemeVars /\ Needed' = Needed /\ Task' = Task
      /\ UNCHANGED <<inRam, atomsOf, inferred, costs, hugeCost>>
      /\ \/ stage = "whole" /\ turn > Len(wholeBuckets)
         \/ stage = "split" /\ round > Rounds
      /\ Rounds \in Nat \ {0}
  BY SchemeStays DEF NextSplit, GoodMRF
<1>2. WholeDone(Len(wholeBuckets))
  <2>1. CASE stage = "whole" /\ turn > Len(wholeBuckets)
    <3>1. turn - 1 = Len(wholeBuckets)
      BY <2>1, BucketTypes DEF RunInv, RunTypes
    <3>2. QED
      BY <2>1, <3>1 DEF RunInv
  <2>2. CASE stage = "split"
    BY <2>2 DEF RunInv
  <2>3. QED
    BY <1>1, <2>1, <2>2
<1>3. \A C : Done(C)' <=> Done(C)
  BY <1>1 DEF Done
<1>4. WholeDone(Len(wholeBuckets))'
  BY <1>1, <1>2, <1>3 DEF WholeDone, schemeVars
<1>5. ASSUME Task = "MAP", NEW C \in DOMAIN partBuckets \ splitLeft
      PROVE  Done(C)
  <2>1. CASE stage = "whole"
    BY <1>5, <2>1 DEF RunInv
  <2>2. CASE stage = "split" /\ C # splitting
    BY <1>5, <2>2 DEF RunInv, SplitInv
  <2>3. CASE stage = "split" /\ round > Rounds /\ C = splitting
    <3>1. round > 1
      BY <1>1, <2>3 DEF RunInv, RunTypes
    <3>2. \A i \in 1 .. Len(partBuckets[C]) : UNION partBuckets[C][i] \subseteq inferred
      BY <1>5, <2>3, <3>1 DEF RunInv, SplitInv
    <3>3. costs[C] > 0
      BY <1>5, <2>3 DEF RunInv, SplitInv
    <3>4. C \subseteq inferred
      BY <3>2, ZonesCover
    <3>5. QED
      BY <3>3, <3>4 DEF Done
  <2>4. QED
    BY <1>1, <2>1, <2>2, <2>3
<1>6. /\ inRam' \subseteq parts' /\ atomsOf' \subseteq comps' /\ inferred' \subseteq RelAtom
      /\ hugeCost' \in BOOLEAN /\ phase' = "grouped" /\ costs' \in [comps' -> Nat]
  BY <1>1 DEF RunInv, RunTypes, schemeVars
<1>7. MemoryFreed'
  <2>1. stage # "failed" /\ stage' # "failed"
    BY <1>1 DEF NextSplit
  <2>2. QED
    BY <1>1, <2>1 DEF RunInv, MemoryFreed
<1>8. hugeCost' => Task' = "MARGINAL" /\ Needed' \cap DOMAIN partBuckets' # {}
  BY <1>1 DEF RunInv, schemeVars
<1>9. CASE splitLeft = {}
  <2>1. stage' = "returned" /\ UNCHANGED <<splitLeft, splitting, turn, round>>
    BY <1>9 DEF NextSplit
  <2>2. RunTypes'
    <3>1. turn' \in Nat \ {0} /\ round' \in 1 .. Rounds + 1
      BY <2>1 DEF RunInv, RunTypes
    <3>2. /\ splitLeft' \subseteq DOMAIN partBuckets'
          /\ splitting' # {} => splitting' \in DOMAIN partBuckets'
      BY <1>1, <2>1 DEF RunInv, RunTypes, schemeVars
    <3>3. QED
      BY <1>6, <2>1, <3>1, <3>2 DEF RunTypes
  <2>3. Task' = "MAP" => \A C \in DOMAIN partBuckets' : Done(C)'
    BY <1>1, <1>3, <1>5, <1>9 DEF schemeVars
  <2>4. FailsOnlySplit'
    BY <2>1 DEF FailsOnlySplit
  <2>5. QED
    BY <1>4, <1>7, <1>8, <2>1, <2>2, <2>3, <2>4 DEF RunInv
<1>10. CASE splitLeft # {}
  <2>1. PICK C \in splitLeft : /\ stage' = "split" /\ splitting' = C
                               /\ splitLeft' = splitLeft \ {C}
                               /\ turn' = 1 /\ round' = 1
    BY <1>10 DEF NextSplit
  <2>2. splitLeft \subseteq DOMAIN partBuckets /\ partBuckets' = partBuckets
        /\ C \in DOMAIN partBuckets
    BY <1>1, <2>1 DEF RunInv, RunTypes, schemeVars
  <2>3. RunTypes'
    <3>1. turn' \in Nat \ {0} /\ round' \in 1 .. Rounds + 1
      BY <1>1, <2>1
    <3>2. /\ splitLeft' \subseteq DOMAIN partBuckets'
          /\ splitting' # {} => splitting' \in DOMAIN partBuckets'
      BY <2>1, <2>2
    <3>3. QED
      BY <1>6, <2>1, <3>1, <3>2 DEF RunTypes
  <2>4. SplitInv'
    <3>1. splitting' \in DOMAIN partBuckets' \ splitLeft'
      BY <2>1, <2>2
    <3>2. turn' \in 1 .. Len(partBuckets'[splitting'])
      BY <2>1, <2>2, BucketTypes
    <3>3. Task' = "MAP" =>
            \A D \in DOMAIN partBuckets' \ splitLeft' : D # splitting' => Done(D)'
      BY <1>1, <1>3, <1>5, <2>1, <2>2
    <3>4. \A i \in 1 .. Len(partBuckets'[splitting']) : ~ (i < turn' \/ round' > 1)
      BY <2>1
    <3>5. ~ round' > Rounds
      BY <1>1, <2>1
    <3>6. QED
      BY <3>1, <3>2, <3>3, <3>4, <3>5 DEF SplitInv
  <2>5. FailsOnlySplit'
    BY <2>1 DEF FailsOnlySplit
  <2>6. QED
    BY <1>4, <1>7, <1>8, <2>1, <2>3, <2>4, <2>5 DEF RunInv
<1>11. QED
  BY <1>9, <1>10

LEMMA TwoParts ==
  ASSUME GoodMRF, SchemeInv, NEW C, NEW P \in PartsOf(C), NEW R \in PartsOf(C), P # R
  PROVE  Cardinality(PartsOf(C)) > 1
<1>1. PartsOf(C) \in SUBSET (SUBSET RelAtom)
  BY DEF SchemeInv, Scanned, Clustering, PartsOf
<1>2. IsFiniteSet(PartsOf(C))
  BY <1>1, ClustersFinite
<1>3. Cardinality(PartsOf(C)) \in Nat
  BY <1>2, FS_CardinalityType
<1>4. Cardinality(PartsOf(C)) # 0
  BY <1>2, FS_EmptySet
<1>5. Cardinality(PartsOf(C)) # 1
  <2>1. \A x : PartsOf(C) # {x}
    OBVIOUS
  <2>2. QED
    BY <1>2, <2>1, FS_Singleton
<1>6. QED
  BY <1>3, <1>4, <1>5

(* A bucket fails to load only if a part is in a bucket behind it.          *)
LEMMA FailureIsSplit ==
  ASSUME GoodMRF, SchemeInv, BucketInv, NEW C \in DOMAIN partBuckets,
         NEW i \in 1 .. Len(partBuckets[C]), LoadFails(partBuckets[C], i)
  PROVE  Cardinality(PartsOf(C)) > 1
<1> DEFINE zones == partBuckets[C]
<1>1. Zoned(zones, PartsOf(C), RamSize)
  BY DEF BucketInv
<1>2. PICK j \in (i + 1) .. Len(zones) : zones[i] # {} /\ zones[j] # {}
  BY DEF LoadFails
<1>3. j \in 1 .. Len(zones) /\ i # j
  BY <1>2
<1>4. PICK P : P \in zones[i]
  BY <1>2
<1>5. PICK R : R \in zones[j]
  BY <1>2
<1>6. P \in PartsOf(C) /\ R \in PartsOf(C)
  BY <1>3, <1>4, <1>5, BucketTypes
<1>7. P # R
  <2>1. \A k \in 1 .. Len(zones) : P \in zones[k] => k = i
    BY <1>1, <1>4, <1>6 DEF Zoned
  <2>2. QED
    BY <1>3, <1>5, <2>1
<1>8. QED
  BY <1>6, <1>7, TwoParts

LEMMA InferPartMAPKeeps ==
  ASSUME GoodMRF, SchemeInv, BucketInv, RunInv, InferPartMAP
  PROVE  RunInv'
<1> DEFINE zones == partBuckets[splitting]
<1>1. /\ UNCHANGED schemeVars /\ Needed' = Needed /\ Task' = Task
      /\ UNCHANGED <<splitLeft, splitting, hugeCost>>
      /\ stage = "split" /\ round <= Rounds /\ Task = "MAP"
      /\ inRam = {} /\ atomsOf = {}
      /\ Rounds \in Nat \ {0} /\ round \in Nat \ {0}
  BY SchemeStays DEF InferPartMAP, GoodMRF, RunInv, RunTypes, MemoryFreed
<1>2. SplitInv /\ WholeDone(Len(wholeBuckets))
  BY <1>1 DEF RunInv
<1>3. /\ splitting \in DOMAIN partBuckets \ splitLeft
      /\ turn \in 1 .. Len(zones) /\ Len(zones) \in Nat \ {0}
      /\ splitting \in comps /\ zones[turn] \in SUBSET PartsOf(splitting)
      /\ partBuckets' = partBuckets
  BY <1>1, <1>2, BucketTypes DEF SplitInv, schemeVars
<1>4. /\ parts' = parts /\ comps' = comps
      /\ hugeCost' \in BOOLEAN /\ phase' = "grouped" /\ splitLeft' \subseteq DOMAIN partBuckets'
      /\ splitting' # {} => splitting' \in DOMAIN partBuckets'
  BY <1>1 DEF RunInv, RunTypes, schemeVars
<1>6. hugeCost' => Task' = "MARGINAL" /\ Needed' \cap DOMAIN partBuckets' # {}
  BY <1>1 DEF RunInv, schemeVars
<1>7. inferred \subseteq RelAtom /\ costs \in [comps -> Nat] /\ comps' = comps
  BY <1>1 DEF RunInv, RunTypes, schemeVars
<1>8. CASE LoadFails(zones, turn)
  <2>1. /\ stage' = "failed" /\ UNCHANGED <<turn, round, inferred, costs>>
        /\ inRam' = zones[turn] /\ atomsOf' = {splitting}
    BY <1>1, <1>8 DEF InferPartMAP
  <2>2. RunTypes'
    <3>1. turn' \in Nat \ {0} /\ round' \in 1 .. Rounds + 1
      BY <2>1 DEF RunInv, RunTypes
    <3>2. inferred' \subseteq RelAtom /\ costs' \in [comps' -> Nat]
      BY <1>7, <2>1
    <3>3. inRam' \subseteq parts' /\ atomsOf' \subseteq comps'
      BY <1>3, <1>4, <2>1 DEF PartsOf
    <3>4. QED
      BY <1>4, <2>1, <3>1, <3>2, <3>3 DEF RunTypes
  <2>3. FailsOnlySplit'
    <3>1. Cardinality(PartsOf(splitting)) > 1
      BY <1>3, <1>8, FailureIsSplit
    <3>2. PartsOf(splitting)' = PartsOf(splitting) /\ splitting' = splitting
      BY <1>1 DEF PartsOf, schemeVars
    <3>3. Cardinality(PartsOf(splitting)') > 1
      BY <3>1, <3>2
    <3>4. splitting' \in DOMAIN partBuckets'
      BY <1>3, <3>2
    <3>5. QED
      BY <3>3, <3>4 DEF FailsOnlySplit
  <2>4. MemoryFreed'
    BY <1>1, <1>3, <2>1 DEF MemoryFreed
  <2>5. QED
    BY <1>6, <2>1, <2>2, <2>3, <2>4 DEF RunInv
<1>9. CASE ~ LoadFails(zones, turn)
  <2>1. /\ inferred' = inferred \cup (IF zones[turn] = {} THEN {} ELSE UNION zones[turn])
        /\ turn' = IF turn < Len(zones) THEN turn + 1 ELSE 1
        /\ round' = IF turn < Len(zones) THEN round ELSE round + 1
        /\ costs' = IF turn = Len(zones) /\ round = Rounds
                    THEN [costs EXCEPT ![splitting] = @ + 1] ELSE costs
        /\ stage' = stage /\ UNCHANGED <<inRam, atomsOf>>
    BY <1>9 DEF InferPartMAP
  <2>2. inferred' = inferred \cup UNION zones[turn]
    BY <2>1
  <2>3. costs' \in [comps -> Nat] /\ \A C \in comps : costs'[C] >= costs[C]
    BY <1>3, <1>7, <2>1
  <2>4. \A C \in comps : Done(C) => Done(C)'
    <3>1. \A C \in comps : costs'[C] \in Nat /\ costs'[C] >= costs[C]
      BY <2>3
    <3>2. QED
      BY <1>7, <2>2, <3>1, DoneStays
  <2>5. turn' \in 1 .. Len(zones) /\ round' \in 1 .. Rounds + 1
    BY <1>1, <1>3, <2>1
  <2>6. RunTypes'
    <3>1. UNION zones[turn] \subseteq RelAtom
      BY <1>3, BucketTypes DEF PartsOf
    <3>2. inferred' \subseteq RelAtom /\ costs' \in [comps' -> Nat] /\ stage' = "split"
      BY <1>1, <1>7, <2>1, <2>2, <2>3, <3>1
    <3>3. turn' \in Nat \ {0}
      BY <1>3, <2>5
    <3>4. inRam' = {} /\ atomsOf' = {}
      BY <1>1, <2>1
    <3>5. QED
      BY <1>4, <2>5, <3>2, <3>3, <3>4 DEF RunTypes
  <2>7. SplitInv'
    <3>1. /\ splitting' \in DOMAIN partBuckets' \ splitLeft'
          /\ turn' \in 1 .. Len(partBuckets'[splitting'])
      BY <1>1, <1>3, <2>5
    <3>2. ASSUME NEW C \in DOMAIN partBuckets \ splitLeft, C # splitting
          PROVE  Done(C)'
      <4>1. Done(C) /\ C \in comps
        BY <1>1, <1>2, <3>2, BucketTypes DEF SplitInv
      <4>2. QED
        BY <2>4, <4>1
    <3>3. ASSUME NEW i \in 1 .. Len(zones), i < turn' \/ round' > 1
          PROVE  UNION zones[i] \subseteq inferred'
      <4>1. CASE i = turn
        BY <2>2, <4>1
      <4>2. CASE i # turn
        <5>1. i < turn \/ round > 1
          BY <1>1, <1>3, <2>1, <3>3, <4>2
        <5>2. UNION zones[i] \subseteq inferred
          BY <1>1, <1>2, <5>1 DEF SplitInv
        <5>3. QED
          BY <2>2, <5>2
      <4>3. QED
        BY <4>1, <4>2
    <3>4. ASSUME round' > Rounds
          PROVE  costs'[splitting] > 0
      <4>1. turn = Len(zones) /\ round = Rounds
        BY <1>1, <1>3, <2>1, <3>4
      <4>2. costs' = [costs EXCEPT ![splitting] = @ + 1]
        BY <2>1, <4>1
      <4>3. QED
        BY <1>3, <1>7, <4>2
    <3>5. splitting' = splitting /\ splitLeft' = splitLeft
      BY <1>1
    <3>6. QED
      BY <1>3, <3>1, <3>2, <3>3, <3>4, <3>5 DEF SplitInv
  <2>8. WholeDone(Len(wholeBuckets))'
    <3>1. \A i \in 1 .. Len(wholeBuckets) : \A C \in wholeBuckets[i] : C \in comps
      BY BucketTypes
    <3>2. wholeBuckets' = wholeBuckets
      BY <1>1 DEF schemeVars
    <3>3. QED
      BY <1>2, <2>4, <3>1, <3>2 DEF WholeDone
  <2>9. stage' = "split" /\ FailsOnlySplit'
    BY <1>1, <2>1 DEF FailsOnlySplit
  <2>10. MemoryFreed'
    BY <1>1, <2>1 DEF MemoryFreed
  <2>11. QED
    BY <1>6, <2>6, <2>7, <2>8, <2>9, <2>10 DEF RunInv
<1>10. QED
  BY <1>8, <1>9

LEMMA InferPartMarginalKeeps ==
  ASSUME GoodMRF, SchemeInv, BucketInv, RunInv, InferPartMarginal
  PROVE  RunInv'
<1> DEFINE zones == partBuckets[splitting]
<1>1. /\ UNCHANGED schemeVars /\ Needed' = Needed /\ Task' = Task
      /\ UNCHANGED <<stage, splitLeft, splitting, inRam, atomsOf, inferred, costs>>
      /\ stage = "split" /\ round <= Rounds /\ Task = "MARGINAL" /\ Task # "MAP"
      /\ Rounds \in Nat \ {0} /\ round \in Nat \ {0}
      /\ turn' = IF turn < Len(zones) THEN turn + 1 ELSE 1
      /\ round' = IF turn < Len(zones) THEN round ELSE round + 1
  BY SchemeStays DEF InferPartMarginal, GoodMRF, RunInv, RunTypes
<1>2. SplitInv /\ WholeDone(Len(wholeBuckets))
  BY <1>1 DEF RunInv
<1>3. /\ splitting \in DOMAIN partBuckets \ splitLeft
      /\ turn \in 1 .. Len(zones) /\ Len(zones) \in Nat \ {0}
      /\ partBuckets' = partBuckets
  BY <1>1, <1>2, BucketTypes DEF SplitInv, schemeVars
<1>4. turn' \in 1 .. Len(zones) /\ round' \in 1 .. Rounds + 1
  BY <1>1, <1>3
<1>5. hugeCost' = TRUE
  BY DEF InferPartMarginal
<1>6. RunTypes'
  <2>1. hugeCost' \in BOOLEAN
    BY <1>5
  <2>2. turn' \in Nat \ {0}
    BY <1>3, <1>4
  <2>3. /\ splitLeft' \subseteq DOMAIN partBuckets'
        /\ splitting' # {} => splitting' \in DOMAIN partBuckets'
        /\ inRam' \subseteq parts' /\ atomsOf' \subseteq comps' /\ inferred' \subseteq RelAtom
        /\ stage' = "split" /\ phase' = "grouped" /\ costs' \in [comps' -> Nat]
    BY <1>1 DEF RunInv, RunTypes, schemeVars
  <2>4. QED
    BY <1>4, <2>1, <2>2, <2>3 DEF RunTypes
<1>7. MemoryFreed' /\ FailsOnlySplit'
  BY <1>1 DEF MemoryFreed, FailsOnlySplit
<1>8. Task' = "MARGINAL" /\ Needed' \cap DOMAIN partBuckets' # {}
  <2>1. splitting \in Needed
    BY <1>3 DEF BucketInv
  <2>2. QED
    BY <1>1, <1>3, <2>1
<1>9. SplitInv'
  <2>1. Task' # "MAP"
    BY <1>1
  <2>2. /\ splitting' \in DOMAIN partBuckets' \ splitLeft'
        /\ turn' \in 1 .. Len(partBuckets'[splitting'])
    BY <1>1, <1>3, <1>4
  <2>3. QED
    BY <2>1, <2>2 DEF SplitInv
<1>10. WholeDone(Len(wholeBuckets))'
  BY <1>1, <1>2 DEF WholeDone, Done, schemeVars
<1>11. stage' = "split"
  BY <1>1
<1>12. QED
  BY <1>6, <1>7, <1>8, <1>9, <1>10, <1>11 DEF RunInv

LEMMA InferStep ==
  ASSUME GoodMRF, PartitionInv, [InferNext]_inferVars
  PROVE  PartitionInv'
<1>1. SchemeInv /\ BucketInv /\ RunInv
  BY DEF PartitionInv
<1>2. CASE Partition
  BY <1>2, PartitionKeeps
<1>3. ASSUME Begin \/ InferWhole \/ NextSplit \/ InferPartMAP \/ InferPartMarginal
      PROVE  PartitionInv'
  <2>1. UNCHANGED schemeVars
    BY <1>3 DEF Begin, InferWhole, NextSplit, InferPartMAP, InferPartMarginal
  <2>2. SchemeInv' /\ BucketInv'
    BY <1>1, <2>1, SchemeStays
  <2>3. RunInv'
    BY <1>1, <1>3, BeginKeeps, InferWholeKeeps, NextSplitKeeps, InferPartMAPKeeps,
       InferPartMarginalKeeps
  <2>4. QED
    BY <2>2, <2>3 DEF PartitionInv
<1>4. CASE UNCHANGED inferVars
  <2>1. UNCHANGED schemeVars /\ UNCHANGED runVars
    BY <1>4 DEF inferVars
  <2>2. SchemeInv' /\ BucketInv' /\ Needed' = Needed /\ Task' = Task
        /\ \A C : PartsOf(C)' = PartsOf(C)
    BY <1>1, <2>1, SchemeStays
  <2>3. RunTypes' /\ MemoryFreed'
    BY <1>1, <2>1 DEF RunInv, RunTypes, MemoryFreed, Task, schemeVars, runVars
  <2>4. FailsOnlySplit'
    BY <1>1, <2>1, <2>2 DEF RunInv, FailsOnlySplit, schemeVars, runVars
  <2>6. SplitInv' <=> SplitInv
    BY <2>1 DEF SplitInv, Done, Task, schemeVars, runVars
  <2>7. \A C : Done(C)' <=> Done(C)
    BY <2>1 DEF Done, runVars
  <2>8. RunInv'
    <3>1. /\ stage' = stage /\ turn' = turn /\ splitLeft' = splitLeft /\ hugeCost' = hugeCost
          /\ partBuckets' = partBuckets /\ wholeBuckets' = wholeBuckets
      BY <2>1 DEF schemeVars, runVars
    <3>2. stage = "whole" => WholeDone(turn - 1)'
      BY <1>1, <2>1 DEF RunInv, WholeDone, Done, schemeVars, runVars
    <3>3. stage \in {"split", "returned"} => WholeDone(Len(wholeBuckets))'
      BY <1>1, <2>1 DEF RunInv, WholeDone, Done, schemeVars, runVars
    <3>4. hugeCost' => Task' = "MARGINAL" /\ Needed' \cap DOMAIN partBuckets' # {}
      BY <1>1, <2>2, <3>1 DEF RunInv
    <3>5. stage' = "whole" => /\ splitLeft' = DOMAIN partBuckets'
                              /\ turn' <= Len(wholeBuckets') + 1
                              /\ WholeDone(turn - 1)'
      BY <1>1, <3>1, <3>2 DEF RunInv
    <3>6. stage' = "split" => SplitInv' /\ WholeDone(Len(wholeBuckets))'
      BY <1>1, <2>6, <3>1, <3>3 DEF RunInv
    <3>7. stage' = "returned" =>
            /\ WholeDone(Len(wholeBuckets))'
            /\ Task' = "MAP" => \A C \in DOMAIN partBuckets' : Done(C)'
      BY <1>1, <2>2, <2>7, <3>1, <3>3 DEF RunInv
    <3>8. QED
      BY <2>3, <2>4, <3>4, <3>5, <3>6, <3>7 DEF RunInv
  <2>9. QED
    BY <2>2, <2>8 DEF PartitionInv
<1>5. QED
  BY <1>2, <1>3, <1>4 DEF InferNext, InferTerminating

(* What the invariant says of the partition.                               *)
LEMMA ScannedSound ==
  ASSUME GoodMRF, SchemeInv
  PROVE  PartsWithinBudget /\ ComponentsConnected /\ CutsNeeded
<1>1. Scanned(RelClause \ unread, comps, parts, Budget)
  BY DEF SchemeInv
<1>2. PartsWithinBudget
  BY <1>1 DEF Scanned, PartsWithinBudget
<1>3. ASSUME phase # "scan"
      PROVE  Scanned(RelClause, comps, parts, Budget)
  <2>1. RelClause \ unread = RelClause
    BY <1>3 DEF SchemeInv
  <2>2. QED
    BY <1>1, <2>1
<1>4. ComponentsConnected
  <2> SUFFICES ASSUME phase # "scan"
               PROVE  /\ \A c \in RelClause : Cardinality(Touched(comps, c)) = 1
                      /\ \A C \in comps : \A S \in (SUBSET C) \ {{}, C} :
                           \E c \in RelClause : RelClauses[c] \cap S # {}
                                                /\ RelClauses[c] \cap (C \ S) # {}
                      /\ \A P \in parts : \E C \in comps : P \subseteq C
    BY DEF ComponentsConnected
  <2>1. Scanned(RelClause, comps, parts, Budget)
    BY <1>3
  <2>2. \A c \in RelClause : Cardinality(Touched(comps, c)) = 1
    BY <2>1, TouchedCount DEF Scanned
  <2>3. ASSUME NEW C \in comps, NEW S \in (SUBSET C) \ {{}, C}
        PROVE  \E c \in RelClause : RelClauses[c] \cap S # {}
                                    /\ RelClauses[c] \cap (C \ S) # {}
    <3>1. Connected(C, RelClause)
      BY <2>1 DEF Scanned
    <3>2. QED
      BY <3>1 DEF Connected
  <2>4. QED
    BY <2>1, <2>2, <2>3 DEF Scanned
<1>5. CutsNeeded
  <2> SUFFICES ASSUME phase # "scan", NEW c \in RelClause, Cardinality(Touched(parts, c)) > 1
               PROVE  SizeOfAll(Touched(parts, c)) > Budget
    BY DEF CutsNeeded
  <2>1. Scanned(RelClause, comps, parts, Budget)
    BY <1>3
  <2>2. Clustering(parts)
    BY <2>1 DEF Scanned
  <2>3. ~ \E P \in parts : RelClauses[c] \subseteq P
    BY <2>2, TouchedCount
  <2>4. SizeOf(UNION Touched(parts, c)) > Budget
    BY <2>1, <2>3 DEF Scanned
  <2>5. /\ Touched(parts, c) \in SUBSET (SUBSET RelAtom)
        /\ \A P, R \in Touched(parts, c) : P # R => P \cap R = {}
    BY <2>2 DEF Clustering, Touched
  <2>6. SizeOfAll(Touched(parts, c)) = SizeOf(UNION Touched(parts, c))
    BY <2>5, SizeOfTogether
  <2>7. QED
    BY <2>4, <2>6
<1>6. QED
  BY <1>2, <1>4, <1>5

(* What it says of the buckets.                                            *)
LEMMA BucketsSound ==
  ASSUME GoodMRF, SchemeInv, BucketInv
  PROVE  BucketsComplete
<1> SUFFICES ASSUME phase = "grouped"
             PROVE  BucketsComplete
  BY DEF BucketsComplete
<1>1. DOMAIN wholeBuckets = 1 .. Len(wholeBuckets)
  BY DEF BucketInv
<1>2. ASSUME NEW C \in DOMAIN partBuckets
      PROVE  /\ Zoned(partBuckets[C], PartsOf(C), RamSize)
             /\ DOMAIN partBuckets[C] = 1 .. Len(partBuckets[C])
  <2>1. Zoned(partBuckets[C], PartsOf(C), RamSize)
    BY DEF BucketInv
  <2>2. QED
    BY <2>1 DEF Zoned
<1>3. ASSUME NEW C \in DOMAIN partBuckets, NEW P \in PartsOf(C)
      PROVE  Cardinality({i \in DOMAIN partBuckets[C] : P \in partBuckets[C][i]}) = 1
  <2>1. PICK k \in 1 .. Len(partBuckets[C]) :
          /\ P \in partBuckets[C][k]
          /\ \A j \in 1 .. Len(partBuckets[C]) : P \in partBuckets[C][j] => j = k
    BY <1>2 DEF Zoned
  <2>2. {i \in DOMAIN partBuckets[C] : P \in partBuckets[C][i]} = {k}
    BY <1>2, <2>1
  <2>3. QED
    BY <2>2, FS_Singleton
<1>4. ASSUME NEW C \in comps, ~ SkipUseless \/ hasQueryAtom(C)
      PROVE  \/ \E i \in DOMAIN wholeBuckets : C \in wholeBuckets[i]
             \/ C \in DOMAIN partBuckets
  <2>1. C \in Needed
    BY <1>4 DEF Needed
  <2>2. Placed(C) /\ ungrouped = {}
    BY <2>1 DEF BucketInv, SchemeInv
  <2>3. QED
    BY <1>1, <2>2 DEF Placed
<1>5. \A i \in DOMAIN wholeBuckets : SizeOfAll(wholeBuckets[i]) <= RamSize
  BY <1>1 DEF BucketInv
<1>6. \A C \in DOMAIN partBuckets : \A i \in DOMAIN partBuckets[C] :
        Cardinality(partBuckets[C][i]) > 1 => SizeOfAll(partBuckets[C][i]) <= RamSize
  BY <1>2 DEF Zoned
<1>7. QED
  BY <1>3, <1>4, <1>5, <1>6 DEF BucketsComplete

LEMMA PartitionTypes ==
  ASSUME GoodMRF, SchemeInv, BucketInv, RunInv
  PROVE  InferTypeOK
<1>1. SchemeTypeOK
  <2>1. Clustering(comps) /\ Clustering(parts)
    BY DEF SchemeInv, Scanned
  <2>2. \A i \in DOMAIN wholeBuckets : wholeBuckets[i] \subseteq comps
    BY DEF BucketInv
  <2>3. ASSUME NEW C \in DOMAIN partBuckets, NEW i \in DOMAIN partBuckets[C]
        PROVE  partBuckets[C][i] \subseteq PartsOf(C)
    <3>1. partBuckets[C] \in Seq(SUBSET PartsOf(C))
      BY DEF BucketInv, Zoned
    <3>2. QED
      BY <3>1
  <2>4. QED
    BY <2>1, <2>2, <2>3 DEF SchemeInv, SchemeTypeOK, Clustering
<1>2. DOMAIN partBuckets \in SUBSET comps
  BY BucketTypes
<1>3. costs # <<>> => costs \in [comps -> Nat]
  BY DEF RunInv, RunTypes
<1>4. turn \in Nat \ {0} /\ round \in 1 .. Rounds + 1
  BY DEF RunInv, RunTypes
<1>5. /\ stage \in {"waiting", "whole", "split", "returned", "failed"}
      /\ splitLeft \subseteq comps /\ (splitting # {} => splitting \in comps)
      /\ inRam \subseteq parts /\ atomsOf \subseteq comps /\ inferred \subseteq RelAtom
      /\ hugeCost \in BOOLEAN
  BY <1>2 DEF RunInv, RunTypes
<1>6. QED
  BY <1>1, <1>3, <1>4, <1>5 DEF InferTypeOK

LEMMA ReturnedSound ==
  ASSUME GoodMRF, SchemeInv, BucketInv, RunInv
  PROVE  AllInferred
<1> SUFFICES ASSUME stage = "returned"
             PROVE  AllInferred
  BY DEF AllInferred
<1>1. phase = "grouped" /\ WholeDone(Len(wholeBuckets))
      /\ (Task = "MAP" => \A C \in DOMAIN partBuckets : Done(C))
  BY DEF RunInv, RunTypes
<1>2. ASSUME NEW C \in Needed, Task = "MAP" \/ C \notin DOMAIN partBuckets
      PROVE  C \subseteq inferred /\ costs[C] > 0
  <2>1. Placed(C) /\ ungrouped = {}
    BY <1>1 DEF BucketInv, SchemeInv
  <2>2. CASE C \in DOMAIN partBuckets
    BY <1>1, <1>2, <2>2 DEF Done
  <2>3. CASE \E i \in 1 .. Len(wholeBuckets) : C \in wholeBuckets[i]
    BY <1>1, <2>3 DEF WholeDone, Done
  <2>4. QED
    BY <2>1, <2>2, <2>3 DEF Placed
<1>3. hugeCost => Task = "MARGINAL" /\ Needed \cap DOMAIN partBuckets # {}
  BY DEF RunInv
<1>4. QED
  BY <1>2, <1>3 DEF AllInferred

LEMMA PartitionSound ==
  ASSUME GoodMRF, PartitionInv
  PROVE  InferenceSound
<1>1. SchemeInv /\ BucketInv /\ RunInv
  BY DEF PartitionInv
<1>2. InferTypeOK /\ BucketsComplete /\ AllInferred
  BY <1>1, PartitionTypes, BucketsSound, ReturnedSound
<1>3. PartsWithinBudget /\ ComponentsConnected /\ CutsNeeded
  BY <1>1, ScannedSound
<1>4. MemoryFreed /\ FailsOnlySplit
  BY <1>1 DEF RunInv
<1>5. QED
  BY <1>2, <1>3, <1>4 DEF InferenceSound, SchemeSound

(* What is known at every step of the partitioning and of the inference on  *)
(* its buckets (InferPartitioned.infer), for any MRF and any settings.      *)
THEOREM PartitionInvHolds == GoodMRF /\ InferSpec => []PartitionInv
<1> SUFFICES ASSUME GoodMRF
             PROVE  InferSpec => []PartitionInv
  OBVIOUS
<1>1. InferInit => PartitionInv
  BY PartitionInit
<1>2. PartitionInv /\ [InferNext]_inferVars => PartitionInv'
  BY InferStep
<1>3. QED
  BY <1>1, <1>2, PTL DEF InferSpec

(* In whatever order the query gives the clauses and the components of one  *)
(* size are taken: components are connected, parts fit in the budget and    *)
(* are cut for want of room only, the buckets hold all that is to be        *)
(* inferred on, and when the inference returns all of it is inferred,       *)
(* except for split components in marginal inference.                       *)
THEOREM InferenceSoundHolds == GoodMRF /\ InferSpec => []InferenceSound
<1> SUFFICES ASSUME GoodMRF
             PROVE  InferSpec => []InferenceSound
  OBVIOUS
<1>1. PartitionInv => InferenceSound
  BY PartitionSound
<1>2. InferSpec => []PartitionInv
  BY PartitionInvHolds
<1>3. QED
  BY <1>1, <1>2, PTL

-----------------------------------------------------------------------------
(* The worker threads of a bucket (InferBucket).                           *)

(* The facts of a component's way through a call.  Those of SolvedOnce are *)
(* not inductive: that a component handed out is not in the queue any more *)
(* has to be known of its own bucket's queue, hence that workers take from *)
(* their own queue only.                                                   *)
HandInv ==
  /\ \A b \in Bucket : \A c \in q[b] : BucketOf[c] = b /\ cost[c] = 0
  /\ \A w \in Worker : wstate[w] = "infer" =>
       /\ BucketOf[comp[w]] = BucketOf[w]
       /\ comp[w] \notin q[BucketOf[w]]
       /\ cost[comp[w]] = 0
  /\ \A v, w \in Worker :
       v # w /\ wstate[v] = "infer" /\ wstate[w] = "infer" => comp[v] # comp[w]
  /\ \A c \in Component : cost[c] <= 1

(* No task is forgotten, a worker ends only once the queue is empty, and   *)
(* the caller returns only once the workers have terminated.               *)
Somewhere(b, c) ==
  \/ c \in q[b]
  \/ cost[c] = 1
  \/ \E w \in Worker : /\ BucketOf[w] = b
                       /\ wstate[w] \in {"infer", "crashed"}
                       /\ comp[w] = c

CallInv ==
  /\ \A b \in Bucket : main[b] # "idle" =>
       \A c \in Tasks(b) : Somewhere(b, c)
  /\ \A w \in Worker : wstate[w] = "ended" => q[BucketOf[w]] = {}
  /\ \A w \in Worker : main[BucketOf[w]] = "returned" => Terminated(w)
  /\ \A w \in Worker : main[BucketOf[w]] \in {"idle", "filled"} =>
       wstate[w] = "new"

-----------------------------------------------------------------------------
LEMMA WorkerFacts ==
  ASSUME NEW w \in Worker
  PROVE  BucketOf[w] \in Bucket
BY InferBucketAssumption

LEMMA ComponentFacts ==
  ASSUME NEW c \in Component
  PROVE  BucketOf[c] \in Bucket
BY InferBucketAssumption

(* Every variable keeps its type, and a worker that infers or died holds a *)
(* component, never null.                                                  *)
THEOREM TypeCorrect == Spec => []TypeOK
<1> USE InferBucketAssumption DEF TypeOK, MainState, WorkerState
<1>1. Init => TypeOK
  BY DEF Init
<1>2. TypeOK /\ [Next]_vars => TypeOK'
  <2> SUFFICES ASSUME TypeOK, [Next]_vars
               PROVE  TypeOK'
    OBVIOUS
  <2>1. ASSUME NEW b \in Bucket, Fill(b)
        PROVE  TypeOK'
    <3>1. cost' \in [Component -> Nat]
      BY <2>1 DEF Fill, ResetCost
    <3>2. q' \in [Bucket -> SUBSET Component]
      BY <2>1 DEF Fill, Tasks
    <3>3. QED
      BY <2>1, <3>1, <3>2 DEF Fill
  <2>2. ASSUME NEW b \in Bucket, SilenceConsole(b)
        PROVE  TypeOK'
    BY <2>2 DEF SilenceConsole
  <2>3. ASSUME NEW b \in Bucket, JoinAll(b)
        PROVE  TypeOK'
    BY <2>3 DEF JoinAll, RestoredSilent
  <2>4. ASSUME NEW w \in Worker, Start(w)
        PROVE  TypeOK'
    BY <2>4 DEF Start
  <2>5. ASSUME NEW w \in Worker, GetTask(w)
        PROVE  TypeOK'
    <3>1. CASE q[BucketOf[w]] = {} /\ wstate' = [wstate EXCEPT ![w] = "ended"]
      BY <2>5, <3>1, WorkerFacts DEF GetTask
    <3>2. CASE \E c \in q[BucketOf[w]] :
                 /\ q' = [q EXCEPT ![BucketOf[w]] = QueueWithout(BucketOf[w], c)]
                 /\ comp' = [comp EXCEPT ![w] = c]
                 /\ wstate' = [wstate EXCEPT ![w] = "infer"]
      BY <2>5, <3>2, WorkerFacts DEF GetTask, QueueWithout
    <3>3. QED
      BY <2>5, <3>1, <3>2 DEF GetTask, OnNull
  <2>6. ASSUME NEW w \in Worker, AddCost(w)
        PROVE  TypeOK'
    BY <2>6 DEF AddCost
  <2>7. ASSUME NEW w \in Worker, Throw(w)
        PROVE  TypeOK'
    BY <2>7 DEF Throw
  <2>8. CASE UNCHANGED vars
    BY <2>8 DEF vars
  <2>9. QED
    BY <2>1, <2>2, <2>3, <2>4, <2>5, <2>6, <2>7, <2>8
    DEF Next, MainStep, WorkerStep, AllReturned
<1>3. QED
  BY <1>1, <1>2, PTL DEF Spec

-----------------------------------------------------------------------------
LEMMA HandInvInit == Init => HandInv
BY InferBucketAssumption DEF Init, HandInv

LEMMA HandInvStep == TypeOK /\ TypeOK' /\ HandInv /\ [Next]_vars => HandInv'
<1> SUFFICES ASSUME TypeOK, TypeOK', HandInv, [Next]_vars
             PROVE  HandInv'
  OBVIOUS
<1> USE InferBucketAssumption, WorkerFacts, ComponentFacts DEF TypeOK, HandInv
<1>1. ASSUME NEW b \in Bucket, Fill(b)
      PROVE  HandInv'
  <2>1. \A c \in q'[b] : BucketOf[c] = b /\ cost'[c] = 0
    BY <1>1 DEF Fill, Tasks, ResetCost
  <2>2. \A d \in Bucket \ {b} : \A c \in q'[d] : BucketOf[c] = d /\ cost'[c] = 0
    BY <1>1 DEF Fill, ResetCost
  <2>3. \A w \in Worker : wstate'[w] = "infer" =>
          /\ BucketOf[w] # b
          /\ wstate[w] = "infer"
          /\ comp'[w] = comp[w]
          /\ q'[BucketOf[w]] = q[BucketOf[w]]
    BY <1>1 DEF Fill
  <2>4. \A c \in Component : BucketOf[c] # b => cost'[c] = cost[c]
    BY <1>1 DEF Fill, ResetCost
  <2>5. \A c \in Component : cost'[c] <= 1
    BY <1>1 DEF Fill, ResetCost
  <2>6. QED
    BY <2>1, <2>2, <2>3, <2>4, <2>5
<1>2. ASSUME NEW b \in Bucket, SilenceConsole(b)
      PROVE  HandInv'
  BY <1>2 DEF SilenceConsole
<1>3. ASSUME NEW b \in Bucket, JoinAll(b)
      PROVE  HandInv'
  BY <1>3 DEF JoinAll
<1>4. ASSUME NEW w \in Worker, Start(w)
      PROVE  HandInv'
  BY <1>4 DEF Start
<1>5. ASSUME NEW w \in Worker, GetTask(w)
      PROVE  HandInv'
  <2>1. CASE q[BucketOf[w]] = {} /\ wstate' = [wstate EXCEPT ![w] = "ended"]
             /\ comp' = [comp EXCEPT ![w] = NoComponent] /\ UNCHANGED q
    BY <1>5, <2>1 DEF GetTask
  <2>2. ASSUME NEW c \in q[BucketOf[w]],
               q' = [q EXCEPT ![BucketOf[w]] = @ \ {c}],
               comp' = [comp EXCEPT ![w] = c],
               wstate' = [wstate EXCEPT ![w] = "infer"]
        PROVE  HandInv'
    <3>1. cost' = cost /\ c \in Component /\ BucketOf[c] = BucketOf[w] /\ cost[c] = 0
      BY <1>5 DEF GetTask
    <3>2. \A b \in Bucket : q'[b] \subseteq q[b]
      BY <2>2
    <3>3. \A v \in Worker : v # w /\ wstate[v] = "infer" => comp[v] # c
      BY <3>1
    <3>4. \A v \in Worker : wstate'[v] = "infer" =>
            /\ BucketOf[comp'[v]] = BucketOf[v]
            /\ comp'[v] \notin q'[BucketOf[v]]
            /\ cost'[comp'[v]] = 0
      BY <2>2, <3>1, <3>2
    <3>5. QED
      BY <2>2, <3>1, <3>2, <3>3, <3>4
  <2>3. QED
    BY <1>5, <2>1, <2>2 DEF GetTask, QueueWithout, OnNull
<1>6. ASSUME NEW w \in Worker, AddCost(w)
      PROVE  HandInv'
  <2>1. /\ comp[w] \in Component /\ cost[comp[w]] = 0
        /\ cost' = [cost EXCEPT ![comp[w]] = 1]
        /\ wstate' = [wstate EXCEPT ![w] = "ready"]
        /\ UNCHANGED <<q, comp>>
    <3>1. wstate[w] = "infer" /\ comp[w] \in Component /\ cost[comp[w]] = 0
      BY <1>6 DEF AddCost
    <3>2. cost' = [cost EXCEPT ![comp[w]] = cost[comp[w]] + 1]
      BY <1>6 DEF AddCost
    <3>3. cost[comp[w]] + 1 = 1
      BY <3>1
    <3>4. QED
      BY <1>6, <3>1, <3>2, <3>3 DEF AddCost
  <2>2. \A b \in Bucket : comp[w] \notin q[b]
    BY <1>6 DEF AddCost
  <2>3. \A v \in Worker : wstate'[v] = "infer" =>
          v # w /\ wstate[v] = "infer" /\ comp[v] # comp[w]
    BY <1>6, <2>1 DEF AddCost
  <2>4. QED
    BY <2>1, <2>2, <2>3
<1>7. ASSUME NEW w \in Worker, Throw(w)
      PROVE  HandInv'
  BY <1>7 DEF Throw
<1>8. CASE UNCHANGED vars
  BY <1>8 DEF vars
<1>9. QED
  BY <1>1, <1>2, <1>3, <1>4, <1>5, <1>6, <1>7, <1>8
  DEF Next, MainStep, WorkerStep, AllReturned

LEMMA HandInvImpliesSolvedOnce == TypeOK /\ HandInv => SolvedOnce
<1> SUFFICES ASSUME TypeOK, HandInv
             PROVE  SolvedOnce
  OBVIOUS
<1>1. ASSUME NEW c \in Component, cost[c] = 1
      PROVE  c \notin q[BucketOf[c]] \cup InHand(BucketOf[c])
  <2>1. c \notin q[BucketOf[c]]
    BY <1>1, ComponentFacts DEF HandInv
  <2>2. c \notin InHand(BucketOf[c])
    BY <1>1 DEF HandInv, InHand, WorkersOf
  <2>3. QED
    BY <2>1, <2>2
<1>2. QED
  BY <1>1 DEF HandInv, SolvedOnce

(* However many threads share the queue, no component is solved by two of  *)
(* them or counted twice in the cost that InferBucket.getCost reports.     *)
THEOREM SolvedOnceHolds == Spec => []SolvedOnce
<1>1. Init => HandInv
  BY HandInvInit
<1>2. TypeOK /\ TypeOK' /\ HandInv /\ [Next]_vars => HandInv'
  BY HandInvStep
<1>3. TypeOK /\ HandInv => SolvedOnce
  BY HandInvImpliesSolvedOnce
<1>4. QED
  BY <1>1, <1>2, <1>3, TypeCorrect, PTL DEF Spec

-----------------------------------------------------------------------------
LEMMA CallInvInit == Init => CallInv
BY InferBucketAssumption DEF Init, CallInv

LEMMA CallInvStep == TypeOK /\ HandInv /\ CallInv /\ [Next]_vars => CallInv'
<1> SUFFICES ASSUME TypeOK, HandInv, CallInv, [Next]_vars
             PROVE  CallInv'
  OBVIOUS
<1> USE InferBucketAssumption, WorkerFacts DEF TypeOK, MainState, Terminated
<1>1. ASSUME NEW b \in Bucket, Fill(b)
      PROVE  CallInv'
  <2>1. \A c \in Tasks(b) : Somewhere(b, c)'
    BY <1>1 DEF Fill, Somewhere
  <2>2. \A d \in Bucket : d # b /\ main'[d] # "idle" =>
          \A c \in Tasks(d) : Somewhere(d, c)'
    BY <1>1 DEF Fill, Somewhere, CallInv, ResetCost, Tasks
  <2>3. \A w \in Worker : BucketOf[w] = b =>
          wstate'[w] = "new" /\ main'[BucketOf[w]] = "filled"
    BY <1>1 DEF Fill
  <2>4. \A w \in Worker : BucketOf[w] # b =>
          /\ wstate'[w] = wstate[w]
          /\ main'[BucketOf[w]] = main[BucketOf[w]]
          /\ q'[BucketOf[w]] = q[BucketOf[w]]
    BY <1>1 DEF Fill
  <2>5. \A d \in Bucket : main'[d] # "idle" =>
          \A c \in Tasks(d) : Somewhere(d, c)'
    BY <2>1, <2>2
  <2>6. \A w \in Worker :
          /\ wstate'[w] = "ended" => q'[BucketOf[w]] = {}
          /\ main'[BucketOf[w]] = "returned" => Terminated(w)'
          /\ main'[BucketOf[w]] \in {"idle", "filled"} => wstate'[w] = "new"
    BY <2>3, <2>4 DEF CallInv
  <2>7. QED
    BY <2>5, <2>6 DEF CallInv, Tasks
<1>2. ASSUME NEW b \in Bucket, SilenceConsole(b)
      PROVE  CallInv'
  BY <1>2 DEF SilenceConsole, CallInv, Somewhere
<1>3. ASSUME NEW b \in Bucket, JoinAll(b)
      PROVE  CallInv'
  BY <1>3 DEF JoinAll, Joined, WorkersOf, CallInv, Somewhere
<1>4. ASSUME NEW w \in Worker, Start(w)
      PROVE  CallInv'
  <2>1. \A b \in Bucket : \A c : Somewhere(b, c) => Somewhere(b, c)'
    BY <1>4 DEF Start, Somewhere
  <2>2. QED
    BY <1>4, <2>1 DEF Start, CallInv
<1>5. ASSUME NEW w \in Worker, GetTask(w)
      PROVE  CallInv'
  <2>1. CASE q[BucketOf[w]] = {} /\ wstate' = [wstate EXCEPT ![w] = "ended"]
             /\ comp' = [comp EXCEPT ![w] = NoComponent] /\ UNCHANGED q
    <3>1. \A b \in Bucket : \A c : Somewhere(b, c) => Somewhere(b, c)'
      BY <1>5, <2>1 DEF GetTask, Somewhere
    <3>2. QED
      BY <1>5, <2>1, <3>1 DEF GetTask, CallInv
  <2>2. ASSUME NEW c \in q[BucketOf[w]],
               q' = [q EXCEPT ![BucketOf[w]] = @ \ {c}],
               comp' = [comp EXCEPT ![w] = c],
               wstate' = [wstate EXCEPT ![w] = "infer"]
        PROVE  CallInv'
    <3>1. \A b \in Bucket : \A d : Somewhere(b, d) => Somewhere(b, d)'
      <4> SUFFICES ASSUME NEW b \in Bucket, NEW d, Somewhere(b, d)
                   PROVE  Somewhere(b, d)'
        OBVIOUS
      <4>1. CASE d \in q[b] /\ (b # BucketOf[w] \/ d # c)
        BY <2>2, <4>1 DEF Somewhere
      <4>2. CASE b = BucketOf[w] /\ d = c
        BY <2>2, <4>2 DEF Somewhere
      <4>3. CASE cost[d] = 1
        BY <1>5, <4>3 DEF GetTask, Somewhere
      <4>4. CASE \E v \in Worker : /\ BucketOf[v] = b /\ comp[v] = d
                                   /\ wstate[v] \in {"infer", "crashed"}
        BY <1>5, <2>2, <4>4 DEF GetTask, Somewhere
      <4>5. QED
        BY <4>1, <4>2, <4>3, <4>4 DEF Somewhere
    <3>2. wstate[w] = "ready" /\ UNCHANGED main
      BY <1>5 DEF GetTask
    <3>3. \A v \in Worker : wstate'[v] = "ended" => q'[BucketOf[v]] = {}
      BY <2>2, <3>2 DEF CallInv
    <3>4. QED
      BY <2>2, <3>1, <3>2, <3>3 DEF CallInv
  <2>3. QED
    BY <1>5, <2>1, <2>2 DEF GetTask, QueueWithout, OnNull
<1>6. ASSUME NEW w \in Worker, AddCost(w)
      PROVE  CallInv'
  <2>1. comp[w] \in Component /\ cost[comp[w]] = 0 /\ wstate[w] = "infer"
    BY <1>6 DEF AddCost, HandInv
  <2>2. \A b \in Bucket : \A c \in Component : Somewhere(b, c) => Somewhere(b, c)'
    <3>1. cost[comp[w]] + 1 = 1
      BY <2>1
    <3>2. cost' = [cost EXCEPT ![comp[w]] = 1]
      BY <1>6, <3>1 DEF AddCost
    <3>3. QED
      BY <1>6, <2>1, <3>2 DEF AddCost, Somewhere
  <2>3. QED
    BY <1>6, <2>1, <2>2 DEF AddCost, CallInv, Tasks
<1>7. ASSUME NEW w \in Worker, Throw(w)
      PROVE  CallInv'
  <2>1. \A b \in Bucket : \A c : Somewhere(b, c) => Somewhere(b, c)'
    BY <1>7 DEF Throw, Somewhere
  <2>2. QED
    BY <1>7, <2>1 DEF Throw, CallInv
<1>8. CASE UNCHANGED vars
  BY <1>8 DEF vars, CallInv, Somewhere
<1>9. QED
  BY <1>1, <1>2, <1>3, <1>4, <1>5, <1>6, <1>7, <1>8
  DEF Next, MainStep, WorkerStep, AllReturned

LEMMA CallInvImpliesComplete == TypeOK /\ CallInv => ReturnIsComplete
<1> SUFFICES ASSUME TypeOK, CallInv,
                    NEW b \in Bucket, main[b] = "returned",
                    NEW c \in Tasks(b)
             PROVE  \/ cost[c] = 1
                    \/ c \in LostBy(b)
                    \/ c \in q[b] /\ \A w \in WorkersOf(b) : wstate[w] = "crashed"
  BY DEF ReturnIsComplete
<1>1. Somewhere(b, c)
  BY DEF CallInv
<1>2. \A w \in WorkersOf(b) : wstate[w] \in {"ended", "crashed"}
  BY DEF CallInv, Terminated, WorkersOf
<1>3. CASE cost[c] = 1
  BY <1>3
<1>4. CASE \E w \in Worker : /\ BucketOf[w] = b
                             /\ wstate[w] \in {"infer", "crashed"}
                             /\ comp[w] = c
  BY <1>2, <1>4 DEF LostBy, WorkersOf
<1>5. CASE c \in q[b]
  BY <1>2, <1>5 DEF CallInv, WorkersOf
<1>6. QED
  BY <1>1, <1>3, <1>4, <1>5 DEF Somewhere

(* When the caller of infer() gets control back, its cost is that of every *)
(* component it asked for, except those on which a worker died; work is    *)
(* left in the queue only if every worker died.                            *)
THEOREM ReturnIsCompleteHolds == Spec => []ReturnIsComplete
<1>1. Init => HandInv /\ CallInv
  BY HandInvInit, CallInvInit
<1>2. TypeOK /\ TypeOK' /\ HandInv /\ CallInv /\ [Next]_vars
        => HandInv' /\ CallInv'
  BY HandInvStep, CallInvStep
<1>3. TypeOK /\ CallInv => ReturnIsComplete
  BY CallInvImpliesComplete
<1>4. QED
  BY <1>1, <1>2, <1>3, TypeCorrect, PTL DEF Spec
-----------------------------------------------------------------------------
(* What the refinement needs besides: queues and hands hold tasks of their *)
(* own bucket only, and no two workers hold or died of the same component, *)
(* so that as many components are lost as workers died.                    *)
Holds(w) == wstate[w] \in {"infer", "crashed"}

LossInv ==
  /\ \A b \in Bucket : q[b] \subseteq Tasks(b)
  /\ \A w \in Worker : Holds(w) =>
       /\ comp[w] \in Tasks(BucketOf[w])
       /\ comp[w] \notin q[BucketOf[w]]
  /\ \A v, w \in Worker : v # w /\ Holds(v) /\ Holds(w) => comp[v] # comp[w]

LEMMA LossInvInit == Init => LossInv
BY InferBucketAssumption DEF Init, LossInv, Holds

LEMMA LossInvStep == TypeOK /\ LossInv /\ [Next]_vars => LossInv'
<1> SUFFICES ASSUME TypeOK, LossInv, [Next]_vars
             PROVE  LossInv'
  OBVIOUS
<1> USE InferBucketAssumption, WorkerFacts DEF TypeOK, LossInv, Holds
<1>1. ASSUME NEW b \in Bucket, Fill(b)
      PROVE  LossInv'
  <2>1. \A d \in Bucket : q'[d] \subseteq Tasks(d)
    BY <1>1 DEF Fill
  <2>2. \A w \in Worker : Holds(w)' =>
          Holds(w) /\ comp'[w] = comp[w] /\ q'[BucketOf[w]] = q[BucketOf[w]]
    BY <1>1 DEF Fill
  <2>3. QED
    BY <2>1, <2>2 DEF Tasks
<1>2. ASSUME NEW b \in Bucket, SilenceConsole(b) \/ JoinAll(b)
      PROVE  LossInv'
  BY <1>2 DEF SilenceConsole, JoinAll, Tasks
<1>3. ASSUME NEW w \in Worker, Start(w)
      PROVE  LossInv'
  BY <1>3 DEF Start, Tasks
<1>4. ASSUME NEW w \in Worker, GetTask(w)
      PROVE  LossInv'
  <2>1. CASE q[BucketOf[w]] = {} /\ wstate' = [wstate EXCEPT ![w] = "ended"]
             /\ comp' = [comp EXCEPT ![w] = NoComponent] /\ UNCHANGED q
    BY <1>4, <2>1 DEF Tasks
  <2>2. ASSUME NEW c \in q[BucketOf[w]],
               q' = [q EXCEPT ![BucketOf[w]] = @ \ {c}],
               comp' = [comp EXCEPT ![w] = c],
               wstate' = [wstate EXCEPT ![w] = "infer"]
        PROVE  LossInv'
    <3>1. c \in Tasks(BucketOf[w]) /\ BucketOf[c] = BucketOf[w]
      BY DEF Tasks
    <3>2. \A b \in Bucket : q'[b] \subseteq q[b]
      BY <2>2
    <3>3. \A v \in Worker : v # w /\ Holds(v) => comp[v] # c
      BY <3>1 DEF Tasks
    <3>4. \A v \in Worker : Holds(v)' =>
            /\ comp'[v] \in Tasks(BucketOf[v])
            /\ comp'[v] \notin q'[BucketOf[v]]
      BY <2>2, <3>1, <3>2
    <3>5. QED
      BY <2>2, <3>2, <3>3, <3>4 DEF Tasks
  <2>3. QED
    BY <1>4, <2>1, <2>2 DEF GetTask, QueueWithout, OnNull
<1>5. ASSUME NEW w \in Worker, AddCost(w) \/ Throw(w)
      PROVE  LossInv'
  BY <1>5 DEF AddCost, Throw, Tasks
<1>6. CASE UNCHANGED vars
  BY <1>6 DEF vars, Tasks
<1>7. QED
  BY <1>1, <1>2, <1>3, <1>4, <1>5, <1>6
  DEF Next, MainStep, WorkerStep, AllReturned

Crashed(b) == {w \in WorkersOf(b) : wstate[w] = "crashed"}

(* As many components are lost as workers died.                            *)
LEMMA LostCount ==
  ASSUME TypeOK, LossInv, NEW b \in Bucket
  PROVE  /\ IsFiniteSet(WorkersOf(b))
         /\ Cardinality(LostBy(b)) = Cardinality(Crashed(b))
<1> DEFINE f == [w \in Crashed(b) |-> comp[w]]
<1>1. IsFiniteSet(WorkersOf(b))
  BY FS_Subset, InferBucketAssumption DEF WorkersOf
<1>2. IsFiniteSet(Crashed(b))
  BY <1>1, FS_Subset DEF Crashed
<1>3. f \in Surjection(Crashed(b), LostBy(b))
  BY DEF Surjection, LostBy, Crashed
<1>4. f \in Injection(Crashed(b), LostBy(b))
  <2>1. \A v, w \in Crashed(b) : f[v] = f[w] => v = w
    BY DEF Crashed, WorkersOf, LossInv, Holds
  <2>2. f \in [Crashed(b) -> LostBy(b)]
    BY DEF LostBy, Crashed
  <2>3. QED
    BY <2>1, <2>2 DEF Injection, IsInjective
<1>5. f \in Bijection(Crashed(b), LostBy(b))
  BY <1>3, <1>4 DEF Bijection
<1>6. QED
  BY <1>1, <1>2, <1>5, FS_Bijection DEF ExistsBijection

(* The state of the pool that a bucket shows.                              *)
Running(b) == main[b] \in {"filled", "starting"}
Pending(b) == q[b] \cup InHand(b)
Counted(b) == {c \in Tasks(b) : cost[c] = 1}

(* A step of one bucket leaves what the others show.                       *)
Unmoved(D) ==
  \A d \in D : /\ Running(d)' = Running(d)
               /\ Pending(d)' = Pending(d)
               /\ Counted(d)' = Counted(d)
               /\ LostBy(d)'  = LostBy(d)

LEMMA StutterMaps ==
  ASSUME Unmoved(Bucket)
  PROVE  UNCHANGED Pool!poolVars
BY DEF Unmoved, Running, Pending, Counted, Pool!poolVars

(* Membership as a value of a function.                                    *)
LEMMA NotIn ==
  ASSUME NEW x, NEW S, x \notin S
  PROVE  (x \in S) = FALSE
BY SMT

(* TaskPool counts as InferBucket does.                                    *)
LEMMA SameCardinality == \A S : Pool!Cardinality(S) = Cardinality(S)
BY DEF Pool!Cardinality, Cardinality

LEMMA FillMaps ==
  ASSUME TypeOK, LossInv, NEW b \in Bucket, Fill(b)
  PROVE  Pool!Submit(b)
<1> USE InferBucketAssumption DEF TypeOK, MainState
<1>1. ~ Running(b) /\ Running(b)'
  BY DEF Fill, Running
<1>2. Pending(b)' = Tasks(b) /\ Counted(b)' = {} /\ LostBy(b)' = {}
  <2>1. InHand(b)' = {} /\ LostBy(b)' = {}
    BY DEF Fill, InHand, LostBy, WorkersOf
  <2>2. Counted(b)' = {}
    BY DEF Fill, Counted, Tasks, ResetCost
  <2>3. q'[b] = Tasks(b)
    BY DEF Fill
  <2>4. QED
    BY <2>1, <2>2, <2>3 DEF Pending
<1>3. Unmoved(Bucket \ {b})
  <2> SUFFICES ASSUME NEW d \in Bucket, d # b
               PROVE  /\ Running(d)' = Running(d)
                      /\ Pending(d)' = Pending(d)
                      /\ Counted(d)' = Counted(d)
                      /\ LostBy(d)'  = LostBy(d)
    BY DEF Unmoved
  <2>1. \A w \in WorkersOf(d) : wstate'[w] = wstate[w] /\ comp'[w] = comp[w]
    BY DEF Fill, WorkersOf
  <2>2. InHand(d)' = InHand(d) /\ LostBy(d)' = LostBy(d)
    BY <2>1 DEF InHand, LostBy
  <2>3. \A c \in Tasks(d) : cost'[c] = cost[c]
    BY DEF Fill, Tasks, ResetCost
  <2>4. Counted(d)' = Counted(d)
    BY <2>3 DEF Counted
  <2>5. main'[d] = main[d] /\ q'[d] = q[d]
    BY DEF Fill
  <2>6. QED
    BY <2>2, <2>4, <2>5 DEF Running, Pending
<1>4. QED
  BY <1>1, <1>2, <1>3 DEF Unmoved, Running, Pending, Counted, Pool!Submit

LEMMA WaitMaps ==
  ASSUME TypeOK, NEW b \in Bucket, SilenceConsole(b)
  PROVE  Unmoved(Bucket)
BY DEF TypeOK, MainState, SilenceConsole, Unmoved, Running, Pending, Counted,
       InHand, LostBy

LEMMA DeliverMaps ==
  ASSUME TypeOK, CallInv, LossInv, NEW b \in Bucket, JoinAll(b)
  PROVE  Pool!Deliver(b)
<1> USE InferBucketAssumption DEF TypeOK, MainState
<1>1. Running(b) /\ ~ Running(b)'
  BY DEF JoinAll, Running
<1>2. UNCHANGED <<q, cost, wstate, comp>>
  BY DEF JoinAll
<1>3. Pending(b) = {} \/ Cardinality(LostBy(b)) = Cardinality(WorkersOf(b))
  <2>1. \A w \in WorkersOf(b) : wstate[w] \in {"ended", "crashed"}
    BY DEF JoinAll, Joined, Terminated
  <2>2. InHand(b) = {}
    BY <2>1 DEF InHand
  <2>3. CASE q[b] = {}
    BY <2>2, <2>3 DEF Pending
  <2>4. CASE q[b] # {}
    <3>1. WorkersOf(b) = Crashed(b)
      BY <2>1, <2>4 DEF CallInv, WorkersOf, Crashed
    <3>2. QED
      BY <3>1, LostCount
  <2>5. QED
    BY <2>3, <2>4
<1>4. \A d \in Bucket : Pending(d)' = Pending(d) /\ Counted(d)' = Counted(d)
                       /\ LostBy(d)' = LostBy(d)
  BY <1>2 DEF Pending, Counted, InHand, LostBy
<1>5. \A d \in Bucket : d # b => Running(d)' = Running(d)
  BY DEF JoinAll, Running
<1>6. [d \in Bucket |-> Running(d)'] =
        [[d \in Bucket |-> Running(d)] EXCEPT ![b] = FALSE]
  <2> DEFINE InCall == {"filled", "starting"}
  <2>1. main'[b] \notin InCall /\ \A d \in Bucket : d # b => main'[d] = main[d]
    BY DEF JoinAll
  <2>2. [d \in Bucket |-> main'[d] \in InCall] =
          [[d \in Bucket |-> main[d] \in InCall] EXCEPT ![b] = FALSE]
    <3> HIDE DEF InCall
    <3>1. (main'[b] \in InCall) = FALSE
      BY <2>1, SMT
    <3>2. \A d \in Bucket : (main'[d] \in InCall) =
                            IF d = b THEN FALSE ELSE (main[d] \in InCall)
      BY <2>1, <3>1, Zenon
    <3>3. QED
      BY <3>2, Zenon
  <2>3. QED
    BY <2>2, Zenon DEF Running
<1>7. /\ [d \in Bucket |-> Running(d)][b]
      /\ [d \in Bucket |-> Pending(d)'] = [d \in Bucket |-> Pending(d)]
      /\ [d \in Bucket |-> Counted(d)'] = [d \in Bucket |-> Counted(d)]
      /\ [d \in Bucket |-> LostBy(d)'] = [d \in Bucket |-> LostBy(d)]
  BY <1>1, <1>4
<1>8. \/ [d \in Bucket |-> Pending(d)][b] = {}
      \/ Pool!Cardinality([d \in Bucket |-> LostBy(d)][b]) =
           [d \in Bucket |-> Cardinality(WorkersOf(d))][b]
  BY <1>3, SameCardinality
<1>9. QED
  BY <1>6, <1>7, <1>8 DEF Running, Pending, Counted, Pool!Deliver

LEMMA StartMaps ==
  ASSUME NEW w \in Worker, Start(w), TypeOK
  PROVE  Unmoved(Bucket)
<1>1. \A b \in Bucket : InHand(b)' = InHand(b) /\ LostBy(b)' = LostBy(b)
  BY DEF Start, InHand, LostBy, TypeOK
<1>2. UNCHANGED <<main, q, cost>>
  BY DEF Start
<1>3. QED
  BY <1>1, <1>2 DEF Unmoved, Running, Pending, Counted

LEMMA GetTaskMaps ==
  ASSUME NEW w \in Worker, GetTask(w), TypeOK, LossInv
  PROVE  Unmoved(Bucket)
<1> USE InferBucketAssumption, WorkerFacts DEF TypeOK
<1>1. wstate[w] = "ready" /\ UNCHANGED <<main, cost>>
  BY DEF GetTask
<1>2. \A v \in Worker : v # w => wstate'[v] = wstate[v] /\ comp'[v] = comp[v]
  BY DEF GetTask
<1>3. \A b \in Bucket : LostBy(b)' = LostBy(b)
  <2>1. wstate'[w] # "crashed"
    BY DEF GetTask, OnNull
  <2>2. QED
    BY <1>1, <1>2, <2>1 DEF LostBy, WorkersOf
<1>4. \A b \in Bucket : Pending(b)' = Pending(b)
  <2>1. CASE /\ wstate' = [wstate EXCEPT ![w] = "ended"]
             /\ UNCHANGED q
    <3>1. \A b \in Bucket : InHand(b)' = InHand(b)
      BY <1>1, <1>2, <2>1 DEF InHand, WorkersOf
    <3>2. QED
      BY <2>1, <3>1 DEF Pending
  <2>2. ASSUME NEW c \in q[BucketOf[w]],
               q' = [q EXCEPT ![BucketOf[w]] = @ \ {c}],
               comp' = [comp EXCEPT ![w] = c],
               wstate' = [wstate EXCEPT ![w] = "infer"]
        PROVE  \A b \in Bucket : Pending(b)' = Pending(b)
    <3>1. InHand(BucketOf[w])' = InHand(BucketOf[w]) \cup {c}
      BY <1>1, <1>2, <2>2 DEF InHand, WorkersOf
    <3>2. \A b \in Bucket : b # BucketOf[w] => InHand(b)' = InHand(b)
      BY <1>2 DEF InHand, WorkersOf
    <3>3. QED
      BY <2>2, <3>1, <3>2 DEF Pending
  <2>3. QED
    BY <2>1, <2>2 DEF GetTask, QueueWithout, OnNull
<1>5. QED
  BY <1>1, <1>3, <1>4 DEF Unmoved, Running, Counted

(* What the worker has in hands is pending, and of no other bucket.        *)
LEMMA HandLeaves ==
  ASSUME NEW w \in Worker, NEW s \in {"ready", "crashed"},
         TypeOK, CallInv, LossInv, wstate[w] = "infer",
         wstate' = [wstate EXCEPT ![w] = s], UNCHANGED <<main, q, comp>>
  PROVE  /\ BucketOf[w] \in Bucket
         /\ comp[w] \in Tasks(BucketOf[w])
         /\ Running(BucketOf[w])
         /\ comp[w] \in Pending(BucketOf[w])
         /\ Pending(BucketOf[w])' = Pending(BucketOf[w]) \ {comp[w]}
         /\ \A d \in Bucket : d # BucketOf[w] => Pending(d)' = Pending(d)
         /\ \A d \in Bucket : Running(d)' = Running(d)
<1> DEFINE b == BucketOf[w]
           c == comp[w]
<1> USE InferBucketAssumption, WorkerFacts DEF TypeOK, MainState
<1>1. /\ b \in Bucket
      /\ c \in Tasks(b) /\ c \notin q[b] /\ c \in InHand(b)
      /\ \A v \in Worker : v # w /\ wstate[v] = "infer" => comp[v] # c
  BY DEF LossInv, Holds, InHand, WorkersOf
<1>2. main[b] = "starting"
  BY DEF CallInv, Terminated
<1>3. \A v \in Worker : /\ v # w => wstate'[v] = wstate[v]
                        /\ comp'[v] = comp[v]
  OBVIOUS
<1>4. wstate'[w] # "infer"
  OBVIOUS
<1>5. InHand(b)' = InHand(b) \ {c}
  BY <1>1, <1>3, <1>4 DEF InHand, WorkersOf
<1>6. \A d \in Bucket : d # b => InHand(d)' = InHand(d)
  BY <1>3 DEF InHand, WorkersOf
<1>7. QED
  BY <1>1, <1>2, <1>5, <1>6 DEF Pending, Running

LEMMA AddCostMaps ==
  ASSUME NEW w \in Worker, AddCost(w), TypeOK, HandInv, CallInv, LossInv,
         NEW b \in Bucket, NEW c \in Component, b = BucketOf[w], c = comp[w]
  PROVE  Pool!Complete(b, c)
<1> USE InferBucketAssumption, WorkerFacts DEF TypeOK
<1>1. /\ b \in Bucket /\ c \in Tasks(b) /\ Running(b) /\ c \in Pending(b)
      /\ Pending(b)' = Pending(b) \ {c}
      /\ \A d \in Bucket : d # b => Pending(d)' = Pending(d)
      /\ \A d \in Bucket : Running(d)' = Running(d)
  BY HandLeaves DEF AddCost
<1>2. cost' = [cost EXCEPT ![c] = 1]
  <2>1. c \in Component /\ cost[c] = 0 /\ cost' = [cost EXCEPT ![c] = cost[c] + 1]
    BY DEF AddCost, HandInv
  <2>2. cost[c] + 1 = 1
    BY <2>1
  <2>3. QED
    BY <2>1, <2>2
<1>3. Counted(b)' = Counted(b) \cup {c}
  BY <1>1, <1>2 DEF Counted, Tasks
<1>4. \A d \in Bucket : d # b => Counted(d)' = Counted(d)
  BY <1>1, <1>2 DEF Counted, Tasks
<1>5. \A d \in Bucket : LostBy(d)' = LostBy(d)
  BY DEF AddCost, LostBy, WorkersOf
<1>6. QED
  <2>1. /\ [d \in Bucket |-> Running(d)'] = [d \in Bucket |-> Running(d)]
        /\ [d \in Bucket |-> LostBy(d)'] = [d \in Bucket |-> LostBy(d)]
    BY <1>1, <1>5
  <2>2. [d \in Bucket |-> Pending(d)'] =
          [[d \in Bucket |-> Pending(d)] EXCEPT ![b] = @ \ {c}]
    BY <1>1
  <2>3. [d \in Bucket |-> Counted(d)'] =
          [[d \in Bucket |-> Counted(d)] EXCEPT ![b] = @ \cup {c}]
    BY <1>1, <1>3, <1>4
  <2>4. [d \in Bucket |-> Running(d)][b] /\ c \in [d \in Bucket |-> Pending(d)][b]
    BY <1>1
  <2>5. QED
    BY <2>1, <2>2, <2>3, <2>4 DEF Running, Pending, Counted, Pool!Complete

LEMMA ThrowMaps ==
  ASSUME NEW w \in Worker, Throw(w), TypeOK, CallInv, LossInv,
         NEW b \in Bucket, NEW c \in Component, b = BucketOf[w], c = comp[w]
  PROVE  Pool!Lose(b, c)
<1> USE InferBucketAssumption, WorkerFacts DEF TypeOK
<1>1. /\ b \in Bucket /\ c \in Tasks(b) /\ Running(b) /\ c \in Pending(b)
      /\ Pending(b)' = Pending(b) \ {c}
      /\ \A d \in Bucket : d # b => Pending(d)' = Pending(d)
      /\ \A d \in Bucket : Running(d)' = Running(d)
  BY HandLeaves DEF Throw
<1>2. \A d \in Bucket : Counted(d)' = Counted(d)
  BY DEF Throw, Counted
<1>3. LostBy(b)' = LostBy(b) \cup {c}
  BY DEF Throw, LostBy, WorkersOf
<1>4. \A d \in Bucket : d # b => LostBy(d)' = LostBy(d)
  BY DEF Throw, LostBy, WorkersOf
<1>5. Cardinality(LostBy(b)) < Cardinality(WorkersOf(b))
  <2>1. IsFiniteSet(WorkersOf(b)) /\ Cardinality(LostBy(b)) = Cardinality(Crashed(b))
    BY <1>1, LostCount
  <2>2. Crashed(b) \in SUBSET WorkersOf(b) /\ w \in WorkersOf(b) /\ w \notin Crashed(b)
    BY DEF Crashed, WorkersOf, Throw
  <2>3. /\ Cardinality(Crashed(b)) <= Cardinality(WorkersOf(b))
        /\ Cardinality(Crashed(b)) # Cardinality(WorkersOf(b))
        /\ IsFiniteSet(Crashed(b))
    BY <2>1, <2>2, FS_Subset
  <2>4. Cardinality(Crashed(b)) \in Nat /\ Cardinality(WorkersOf(b)) \in Nat
    BY <2>1, <2>3, FS_CardinalityType
  <2>5. QED
    BY <2>1, <2>3, <2>4
<1>6. QED
  <2>1. /\ [d \in Bucket |-> Running(d)'] = [d \in Bucket |-> Running(d)]
        /\ [d \in Bucket |-> Counted(d)'] = [d \in Bucket |-> Counted(d)]
    BY <1>1, <1>2
  <2>2. [d \in Bucket |-> Pending(d)'] =
          [[d \in Bucket |-> Pending(d)] EXCEPT ![b] = @ \ {c}]
    BY <1>1
  <2>3. [d \in Bucket |-> LostBy(d)'] =
          [[d \in Bucket |-> LostBy(d)] EXCEPT ![b] = @ \cup {c}]
    BY <1>1, <1>3, <1>4
  <2>4. [d \in Bucket |-> Running(d)][b] /\ c \in [d \in Bucket |-> Pending(d)][b]
    BY <1>1
  <2>5. Cardinality([d \in Bucket |-> LostBy(d)][b]) <
          [d \in Bucket |-> Cardinality(WorkersOf(d))][b]
    BY <1>1, <1>5
  <2>6. c \in Faulty
    BY DEF Throw
  <2>7. QED
    BY <2>1, <2>2, <2>3, <2>4, <2>5, <2>6, SameCardinality
    DEF Running, Pending, Counted, Pool!Lose

LEMMA PoolInitMaps == Init => Pool!PoolInit
<1> SUFFICES ASSUME Init
             PROVE  Pool!PoolInit
  OBVIOUS
<1>1. \A b \in Bucket : /\ main[b] = "idle" /\ q[b] = {}
                        /\ InHand(b) = {} /\ LostBy(b) = {}
  BY DEF Init, InHand, LostBy, WorkersOf
<1>2. \A b \in Bucket : {c \in Tasks(b) : cost[c] = 1} = {}
  BY DEF Init, Tasks
<1>3. [b \in Bucket |-> main[b] \in {"filled", "starting"}] = [b \in Bucket |-> FALSE]
  <2> DEFINE InCall == {"filled", "starting"}
  <2>1. \A b \in Bucket : main[b] \notin InCall
    BY <1>1
  <2>2. [b \in Bucket |-> main[b] \in InCall] = [b \in Bucket |-> FALSE]
    <3> HIDE DEF InCall
    <3>1. \A b \in Bucket : (main[b] \in InCall) = FALSE
      BY <2>1, NotIn, Zenon
    <3>2. QED
      BY <3>1, Zenon
  <2>3. QED
    BY <2>2, Zenon
<1>4. [b \in Bucket |-> q[b] \cup InHand(b)] = [b \in Bucket |-> {}]
  BY <1>1
<1>5. [b \in Bucket |-> LostBy(b)] = [b \in Bucket |-> {}]
  BY <1>1
<1>6. QED
  BY <1>2, <1>3, <1>4, <1>5 DEF Pool!PoolInit

LEMMA PoolStepMaps ==
  TypeOK /\ HandInv /\ CallInv /\ LossInv /\ [Next]_vars
    => [Pool!PoolNext]_(Pool!poolVars)
<1> SUFFICES ASSUME TypeOK, HandInv, CallInv, LossInv, [Next]_vars
             PROVE  Pool!PoolNext \/ UNCHANGED Pool!poolVars
  OBVIOUS
<1>1. ASSUME NEW b \in Bucket, Fill(b) \/ JoinAll(b)
      PROVE  Pool!PoolNext
  BY <1>1, FillMaps, DeliverMaps DEF Pool!PoolNext
<1>2. ASSUME NEW b \in Bucket, SilenceConsole(b)
      PROVE  UNCHANGED Pool!poolVars
  BY <1>2, WaitMaps, StutterMaps
<1>3. ASSUME NEW w \in Worker, Start(w) \/ GetTask(w)
      PROVE  UNCHANGED Pool!poolVars
  BY <1>3, StartMaps, GetTaskMaps, StutterMaps
<1>4. ASSUME NEW w \in Worker, AddCost(w) \/ Throw(w)
      PROVE  Pool!PoolNext
  <2>1. /\ BucketOf[w] \in Bucket
        /\ comp[w] \in Tasks(BucketOf[w])
    BY <1>4, WorkerFacts DEF AddCost, Throw, LossInv, Holds
  <2>2. PICK b \in Bucket, c \in Component : b = BucketOf[w] /\ c = comp[w]
    BY <2>1 DEF Tasks
  <2>3. c \in [d \in Bucket |-> Tasks(d)][b]
    BY <2>1, <2>2
  <2>4. Pool!Complete(b, c) \/ Pool!Lose(b, c)
    BY <1>4, <2>2, AddCostMaps, ThrowMaps
  <2>5. QED
    BY <2>3, <2>4 DEF Pool!PoolNext
<1>5. CASE UNCHANGED vars
  <2>1. Unmoved(Bucket)
    BY <1>5 DEF vars, Unmoved, Running, Pending, Counted, InHand, LostBy
  <2>2. QED
    BY <2>1, StutterMaps
<1>6. QED
  BY <1>1, <1>2, <1>3, <1>4, <1>5
  DEF Next, MainStep, WorkerStep, AllReturned

(* However many calls, threads and components there are, a caller of       *)
(* InferBucket.infer sees a pool: each component is counted once or lost,  *)
(* a lost one costs a thread, and the call comes back early only when all  *)
(* threads are gone.                                                       *)
THEOREM TaskPoolImplemented == Spec => ImplementsTaskPool
<1>1. Init => HandInv /\ CallInv /\ LossInv
  BY HandInvInit, CallInvInit, LossInvInit
<1>2. TypeOK /\ TypeOK' /\ HandInv /\ CallInv /\ LossInv /\ [Next]_vars
        => HandInv' /\ CallInv' /\ LossInv'
  BY HandInvStep, CallInvStep, LossInvStep
<1>3. QED
  BY <1>1, <1>2, PoolInitMaps, PoolStepMaps, TypeCorrect, PTL
  DEF Spec, ImplementsTaskPool, Pool!PoolSpec

(* One call of bucket b while the others are idle: the console has the      *)
(* value v between calls, and the call remembers it.                       *)
Remembers(v, b) ==
  /\ main[b] \in {"idle", "returned"} => silent = v
  /\ main[b] \in {"filled", "starting"} => initSilent[b] = v

(* No other bucket has been called.                                        *)
Alone(b) == \A d \in Bucket \ {b} : main[d] = "idle"

(* A step of the one call, or of its workers, keeps what it remembers.     *)
LEMMA ConsoleStep ==
  ASSUME NEW v, NEW b \in Bucket,
         TypeOK, Remembers(v, b), Alone(b), Alone(b)', [Next]_vars
  PROVE  Remembers(v, b)'
<1> USE DEF TypeOK, Remembers, Alone
<1>1. ASSUME NEW d \in Bucket, Fill(d)
      PROVE  Remembers(v, b)'
  BY <1>1 DEF Fill
<1>2. ASSUME NEW d \in Bucket, SilenceConsole(d)
      PROVE  Remembers(v, b)'
  BY <1>2 DEF SilenceConsole
<1>3. ASSUME NEW d \in Bucket, JoinAll(d)
      PROVE  Remembers(v, b)'
  BY <1>3 DEF JoinAll, RestoredSilent
<1>4. ASSUME NEW w \in Worker, WorkerStep(w)
      PROVE  Remembers(v, b)'
  BY <1>4 DEF WorkerStep, Start, GetTask, AddCost, Throw
<1>5. CASE UNCHANGED vars
  BY <1>5 DEF vars
<1>6. QED
  BY <1>1, <1>2, <1>3, <1>4, <1>5 DEF Next, MainStep, AllReturned

(* A behaviour in which b is the only bucket ever called, from any initial *)
(* value of the flag.                                                      *)
LEMMA ConsoleOfOne ==
  ASSUME NEW v \in BOOLEAN, NEW b \in Bucket
  PROVE  Spec => ((silent = v /\ [](\A d \in Bucket \ {b} : main[d] = "idle"))
                    => [](main[b] \in {"idle", "returned"} => silent = v))
<1>1. Init /\ silent = v => Remembers(v, b)
  BY DEF Init, Remembers
<1>2. TypeOK /\ Remembers(v, b) /\ Alone(b) /\ Alone(b)' /\ [Next]_vars => Remembers(v, b)'
  BY ConsoleStep
<1>3. Remembers(v, b) => (main[b] \in {"idle", "returned"} => silent = v)
  BY DEF Remembers
<1>4. (\A d \in Bucket \ {b} : main[d] = "idle") <=> Alone(b)
  BY DEF Alone
<1>5. QED
  BY <1>1, <1>2, <1>3, <1>4, TypeCorrect, PTL DEF Spec

(* InferBucket.infer saves the static flag UIMan.silent, silences the      *)
(* console and restores the flag after the joins (java:199 to 215).  A     *)
(* bucket called alone leaves the flag as it found it after each of its    *)
(* calls, however many components, workers and calls there are, and        *)
(* whether or not the workers die.                                         *)
THEOREM ConsoleRestoredHolds == Spec => ConsoleRestored
BY ConsoleOfOne DEF ConsoleRestored
=============================================================================
