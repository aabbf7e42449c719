----------------------------- MODULE UnionFind ------------------------------
(***************************************************************************)
(* UnionFind (core/tuffy/util/UnionFind.java): trees of records, united by *)
(* size, flattened by every search for a root.  Partitioning keeps the     *)
(* components and the parts of the MRF in two of them and trusts the       *)
(* sizes and weights it reads at the roots.                                *)
(***************************************************************************)
EXTENDS Integers, FiniteSets, Functions

CONSTANTS
  Record,        \* the records, one for each element
  RecordWeight,  \* RecordWeight[x]: the weight given to makeUnionFind
  NoParent       \* Java's null

(* What makeUnionFind is called with.                                      *)
GoodInput ==
  /\ IsFiniteSet(Record)
  /\ RecordWeight \in [Record -> Nat]
  /\ NoParent \notin Record

VARIABLES
  parent,    \* Record.parent
  csize,     \* Record.size, meaningful at roots
  weight,    \* Record.weight, meaningful at roots
  nClusters

trees == <<parent, csize, weight, nClusters>>

(* makeUnionFind.                                                          *)
TreesInit ==
  /\ parent = [x \in Record |-> NoParent]
  /\ csize = [x \in Record |-> 1]
  /\ weight = RecordWeight
  /\ nClusters = Cardinality(Record)

Roots == {x \in Record : parent[x] = NoParent}

RootIn(p) ==
  LET root[x \in Record] == IF p[x] = NoParent THEN x ELSE root[p[x]] IN root

(* The records find() visits on its way from x to the root.                *)
PathIn(p) ==
  LET path[x \in Record] == {x} \cup IF p[x] = NoParent THEN {} ELSE path[p[x]] IN path

(* find: every record on the way becomes a child of the root.              *)
Compressed(p, x) ==
  LET r == RootIn(p)[x]
  IN  [y \in Record |-> IF y \in PathIn(p)[x] \ {r} THEN r ELSE p[y]]

GetRoot(x) ==
  /\ parent' = Compressed(parent, x)
  /\ UNCHANGED <<csize, weight, nClusters>>

(* Mutation: the smaller tree becomes the root.                            *)
WinnerMut(r, s) == IF csize[r] > csize[s] THEN s ELSE r

(* union(): the root with more records, the second one if they are equal.  *)
Winner(r, s) == IF csize[r] > csize[s] THEN r ELSE s

(* Mutation: the record itself is hung in, not its root.                   *)
LinkedMut(y, s) == y

Linked(y, s) == s

Merges(r, s) == r # s

AbsorbedWeight(to, from) == weight[to] + weight[from]

Union(x, y) ==
  LET flat == Compressed(Compressed(parent, x), y)
      r == RootIn(parent)[x]
      s == RootIn(parent)[y]
      to == Winner(r, s)
      from == IF to = r THEN s ELSE r
  IN  /\ parent' = IF r # s THEN [flat EXCEPT ![Linked(IF to = r THEN y ELSE x, from)] = to]
                            ELSE flat
      /\ nClusters' = IF Merges(r, s) THEN nClusters - 1 ELSE nClusters
      /\ IF r # s
         THEN /\ csize' = [csize EXCEPT ![to] = @ + csize[from]]
              /\ weight' = [weight EXCEPT ![to] = AbsorbedWeight(to, from)]
         ELSE UNCHANGED <<csize, weight>>

TreesNext ==
  \/ \E x, y \in Record : Union(x, y)
  \/ \E x \in Record : GetRoot(x)

TreesSpec == TreesInit /\ [][TreesNext]_trees

-----------------------------------------------------------------------------
ClusterAt(r) == {x \in Record : RootIn(parent)[x] = r}

TreesTypeOK ==
  /\ parent \in [Record -> Record \cup {NoParent}]
  /\ csize \in [Record -> 1 .. Cardinality(Record)]
  /\ weight \in [Record -> Nat]
  /\ nClusters \in 0 .. Cardinality(Record)

(* clusterSize and clusterWeight, which partitioning compares with its     *)
(* budget, are those of the whole cluster, whatever paths were compressed  *)
(* and in whatever order trees were united.                                *)
SizesExact ==
  \A r \in Roots :
    /\ csize[r] = Cardinality(ClusterAt(r))
    /\ weight[r] = SumFunctionOnSet(RecordWeight, ClusterAt(r))

(* "Union in O(log n)" (UnionFind.java 14): the way to the root is at most *)
(* as long as the logarithm of the number of records.                      *)
Shallow ==
  \A x \in Record : 2 ^ (Cardinality(PathIn(parent)[x]) - 1) <= csize[RootIn(parent)[x]]

(* What unions and path compression keep of the trees: their form, the     *)
(* numbers at their roots and the bound on their height.                   *)
ClustersSound == TreesTypeOK /\ SizesExact /\ Shallow

(* The trees are disjoint sets, and searches change nothing about them.    *)
Sets == INSTANCE DisjointSets WITH
  Elem     <- Record,
  clusters <- {ClusterAt(r) : r \in Roots},
  count    <- nClusters

ImplementsDisjointSets == Sets!SetsSpec
=============================================================================
