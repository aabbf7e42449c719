---------------------------- MODULE DisjointSets ----------------------------
(***************************************************************************)
(* What a union-find structure promises: the elements are in clusters,     *)
(* every one in exactly one, and clusters only merge.                      *)
(***************************************************************************)
EXTENDS FiniteSets

CONSTANT Elem

VARIABLES
  clusters,  \* a set of disjoint sets
  count      \* how many there are said to be

setVars == <<clusters, count>>

ClusterOf(x) == CHOOSE C \in clusters : x \in C

SetsInit ==
  /\ clusters = {{x} : x \in Elem}
  /\ count = Cardinality(Elem)

Merge(x, y) ==
  LET C == ClusterOf(x)
      D == ClusterOf(y)
  IN  /\ clusters' = (clusters \ {C, D}) \cup {C \cup D}
      /\ count' = Cardinality(clusters')

SetsNext == \E x, y \in Elem : Merge(x, y)

SetsSpec == SetsInit /\ [][SetsNext]_setVars
=============================================================================
