----------------------------- MODULE Discovery ------------------------------
(***************************************************************************)
(* The discovery of rules in a data set (core/dr), as DiscoverRules.start  *)
(* runs it:                                                                *)
(*                                                                         *)
(*   for every set X of columns, the rows are put in classes that agree on *)
(*   X (Partition); the sets are the nodes of a lattice with an edge from  *)
(*   X to X + A for every other column A (Graph);                          *)
(*   Rule.findRules goes through the edges level by level.  If X and X + A *)
(*   have as many classes, X -> A is a functional dependency (FD), and the *)
(*   edges it makes redundant are removed.  If not, the classes that A     *)
(*   does not split may give conditional dependencies (CFDs): for rows     *)
(*   with certain values in the columns Q, Q + P -> A.                     *)
(*                                                                         *)
(* Names of columns are arrays of strings in the order of the header, and  *)
(* the comparison of two arrays expects them to be sorted.  Subtraction    *)
(* sorts its arguments in place, and the arrays belong to the nodes: which *)
(* of them are sorted by now is part of the state.                         *)
(***************************************************************************)
EXTENDS Integers, FiniteSets, SequencesExt

CONSTANTS
  Value,
  Null,    \* Java's null
  Theta,   \* the support a CFD needs, in percent of the rows
  Inputs   \* data sets with the order of their columns' names

VARIABLES
  doing,     \* "partition", "graph", "rules" or "done"
  data,      \* data[r][a]: the value in row r, column a
  rank,      \* rank[a]: place of the name of column a among the sorted names
  searchLattice, \* the sets of columns, smaller ones first
  clsSetList,\* classes of the nodes of the lattice, in its order
  edges,     \* edges[n]: the nodes the edges of node n lead to
  tidy,      \* nodes whose array of names has been sorted
  Qc,        \* nodes that can be conditions
  cursor,    \* number of the edge in the node whose turn it is, <<i, j>>
  CL         \* the rules found; the text has some of them more than once

rulesVars == <<doing, data, rank, searchLattice, clsSetList, edges, tidy, Qc, cursor, CL>>

input == <<data, rank, searchLattice>>

Row  == DOMAIN data
Attr == DOMAIN rank

GoodTables ==
  /\ Theta \in 1 .. 100
  /\ \A in \in Inputs :
       /\ IsFiniteSet(DOMAIN in.data)
       /\ DOMAIN in.data = 0 .. (Cardinality(DOMAIN in.data) - 1)
       /\ IsFiniteSet(DOMAIN in.rank) /\ DOMAIN in.rank # {}
       /\ DOMAIN in.rank = 1 .. Cardinality(DOMAIN in.rank)
       /\ IsInjective(in.rank) /\ \A a \in DOMAIN in.rank : in.rank[a] \in Int
       /\ \A r \in DOMAIN in.data : in.data[r] \in [DOMAIN in.rank -> Value]

(* The search lattice: smaller sets first, then in lexicographic order.    *)

Least(S) == CHOOSE x \in S : \A y \in S : x <= y

Greatest(S) == CHOOSE x \in S : \A y \in S : x >= y

Before(S, T) ==
  \/ Cardinality(S) < Cardinality(T)
  \/ /\ Cardinality(S) = Cardinality(T) /\ S # T
     /\ Least((S \ T) \cup (T \ S)) \in S

(* The elements of S in the order lt, a set of pairs.                      *)
InOrder(S, lt) ==
  [k \in 1 .. Cardinality(S) |->
     CHOOSE x \in S : Cardinality({y \in S : <<y, x>> \in lt}) = k - 1]

Upwards(S) == InOrder(S, {p \in S \X S : p[1] < p[2]})

(* The elements of the sequence s that are in T, in their order.           *)
Kept(s, T) ==
  LET places == Upwards({i \in DOMAIN s : s[i] \in T})
  IN  [k \in DOMAIN places |-> s[places[k]]]

Node == (SUBSET Attr) \ {{}}

getSearchLattice == InOrder(Node, {p \in Node \X Node : Before(p[1], p[2])})

RulesInit ==
  /\ \E in \in Inputs : data = in.data /\ rank = in.rank
  /\ doing = "partition"
  /\ searchLattice = getSearchLattice
  /\ clsSetList = <<>>
  /\ edges = <<>>
  /\ tidy = {}
  /\ Qc = <<>>
  /\ cursor = <<1, 1>>
  /\ CL = {}

-----------------------------------------------------------------------------
NNodes == Len(searchLattice)

(* Mutation: the first node of a level is that of the level after it.      *)
FirstOfLevelMut(k) == 1 + Cardinality({S \in SUBSET Attr : Cardinality(S) \in 1 .. k})

(* Number of the first node with k columns.                                *)
FirstOfLevel(k) == 1 + Cardinality({S \in SUBSET Attr : Cardinality(S) \in 1 .. (k - 1)})

-----------------------------------------------------------------------------
(* Arrays of names.                                                        *)

(* The array of node n as it is now, if the nodes in `sorted' have sorted  *)
(* arrays and the others have theirs in the order of the header.           *)
Names(n, sorted) ==
  InOrder(searchLattice[n],
          {p \in Attr \X Attr : IF n \in sorted THEN rank[p[1]] < rank[p[2]] ELSE p[1] < p[2]})

(* Util.ifSubsumed: whether array a has all elements of array b, found by  *)
(* going along both, which is right only if both are sorted: each element  *)
(* of b is met at a place, after smaller ones that were passed over.       *)
ifSubsumed(a, b) ==
  /\ Len(a) >= Len(b)
  /\ \E place \in [DOMAIN b -> DOMAIN a] : \A i \in DOMAIN b :
       LET passed == IF i = 1 THEN 0 ELSE place[i - 1]
       IN  /\ passed < place[i] /\ a[place[i]] = b[i]
           /\ \A j \in (passed + 1) .. (place[i] - 1) : rank[a[j]] < rank[b[i]]

-----------------------------------------------------------------------------
(* Classes of rows.                                                        *)

ByLeast(classes) == InOrder(classes, {p \in classes \X classes : Least(p[1]) < Least(p[2])})

(* The rows of class C by their values in column a, in the order of their  *)
(* first rows.                                                             *)
Split(C, a) == ByLeast({{r \in C : data[r][a] = data[s][a]} : s \in C})

(* Partition.partition on one column; partition1 on more: the classes of   *)
(* the node without the last column are split one by one.                  *)
Classes(S) ==
  LET a == Greatest(S)
      before == IF S = {a} THEN <<Row>>
                ELSE clsSetList[CHOOSE n \in DOMAIN clsSetList : searchLattice[n] = S \ {a}]
  IN  FlattenSeq([i \in DOMAIN before |-> Split(before[i], a)])

(* Mutation: the classes stay in the order in which they were split.       *)
SortedMut(classes) == classes

(* ClassSet.sort.                                                          *)
Sorted(classes) == ByLeast(ToSet(classes))

PartitionNode ==
  LET n == Len(clsSetList) + 1
  IN  /\ doing = "partition"
      /\ clsSetList' = Append(clsSetList, Sorted(Classes(searchLattice[n])))
      /\ doing' = IF n = NNodes THEN "graph" ELSE doing
      /\ UNCHANGED <<input, edges, tidy, Qc, cursor, CL>>

Enough(size) == size * 100 >= Theta * Cardinality(Row)

(* createGraph with findEdges, and initQ: a condition needs a class that   *)
(* is large enough.                                                        *)
CreateGraph ==
  /\ doing = "graph"
  /\ edges' = [n \in 1 .. NNodes |->
       Upwards({m \in 1 .. NNodes :
                  /\ Cardinality(searchLattice[m]) = Cardinality(searchLattice[n]) + 1
                  /\ searchLattice[n] \subseteq searchLattice[m]})]
  /\ Qc' = Upwards({n \in 1 .. NNodes :
       \E i \in DOMAIN clsSetList[n] : Enough(Cardinality(clsSetList[n][i]))})
  /\ doing' = "rules"
  /\ UNCHANGED <<input, clsSetList, tidy, cursor, CL>>

-----------------------------------------------------------------------------
(* Rule.findRules, one edge at a time.                                     *)

FD(x, a) == [cond |-> <<>>, vars |-> x, to |-> a, value |-> Null]

(* removeSuperSet for one node n after X -> A was found on the edge x to y. *)
(* A node that has all columns of Y loses its edges; one that has those of *)
(* X loses the edge that adds A.                                           *)
Prune(state, n, x, y) ==
  LET Y == Names(y, state.tidy)
      names(m) == Names(m, state.tidy)
      out == state.edges[n]
      reaches(k) == ifSubsumed(names(out[k]), Y)
      redundant(k) == /\ reaches(k)
                      /\ searchLattice[out[k]] \ searchLattice[y] = searchLattice[n] \ searchLattice[x]
      hits == {k \in DOMAIN out : redundant(k)}
      last == IF hits = {} THEN Len(out) ELSE Least(hits)
  IN  IF ifSubsumed(names(n), Y)
      THEN [state EXCEPT !.edges[n] = <<>>]
      ELSE IF ifSubsumed(names(n), Names(x, state.tidy))
      THEN [edges |-> IF hits = {} THEN state.edges
                      ELSE [state.edges EXCEPT ![n] = RemoveAt(out, last)],
            tidy  |-> state.tidy \cup {n} \cup {out[k] : k \in {j \in 1 .. last : reaches(j)}}]
      ELSE state

(* The state after the nodes up to n, for each n.                          *)
removeSuperSet(x, y, sorted) ==
  LET pruned[n \in 0 .. NNodes] ==
        IF n < FirstOfLevel(Cardinality(searchLattice[y]))
        THEN [edges |-> edges, tidy |-> sorted]
        ELSE Prune(pruned[n - 1], n, x, y)
  IN  pruned

(* The classes of X that A does not split, but for single rows.            *)
OmegaX(x, y) ==
  Kept(clsSetList[x], {C \in ToSet(clsSetList[y]) : Cardinality(C) >= 2})

(* The rows of q that are left when the classes in omega up to the i-th    *)
(* have been taken away, those that have the first row left and others.    *)
IsHead(C, left) == left # {} /\ Least(C) = Least(left) /\ C \subseteq left

Left(omega, q) ==
  LET left[i \in 0 .. Len(omega)] ==
        IF i = 0 THEN q
        ELSE IF IsHead(omega[i], left[i - 1]) THEN left[i - 1] \ omega[i] ELSE left[i - 1]
  IN  left

(* Mutation: a class that is covered in part is accepted.                  *)
CoversMut(left, q) == left # q

Covers(left, q) == left = {}

(* checkQ: the first rows of the classes in omega that q consists of, if   *)
(* it does.                                                                *)
checkQ(omega, q) ==
  LET left  == Left(omega, q)
      taken == Upwards({i \in DOMAIN omega : IsHead(omega[i], left[i - 1])})
  IN  IF Covers(left[Len(omega)], q)
      THEN [k \in DOMAIN taken |-> Least(omega[taken[k]])]
      ELSE <<>>

support(y, index) ==
  LET inY == {C \in ToSet(clsSetList[y]) : Least(C) \in ToSet(index)}
  IN  Cardinality(UNION inY)

(* The rule for rows like those in the condition's class: if one class of  *)
(* X is all of it, A has one value and the columns P do not matter.        *)
CFD(Q, P, a, index) ==
  [cond  |-> [b \in Q |-> data[index[1]][b]],
   vars  |-> IF Len(index) = 1 THEN {} ELSE P,
   to    |-> a,
   value |-> IF Len(index) = 1 THEN data[index[1]][a] ELSE Null]

(* findCFD for the condition columns of node c: the class q is tried with  *)
(* the classes of omega, and those it consists of are not used again.      *)
IsTried(q) == Cardinality(q) > 1 /\ Enough(Cardinality(q))

Omega(c, x, y) ==
  LET omega[i \in 0 .. Len(clsSetList[c])] ==
        IF i = 0 THEN OmegaX(x, y)
        ELSE IF ~ IsTried(clsSetList[c][i]) THEN omega[i - 1]
        ELSE Kept(omega[i - 1],
                  {C \in SUBSET Row : Least(C) \notin ToSet(checkQ(omega[i - 1], clsSetList[c][i]))})
  IN  omega

RulesWith(c, x, y) ==
  LET Q == searchLattice[c]
      a == CHOOSE b \in searchLattice[y] : b \notin searchLattice[x]
      index(i) == checkQ(Omega(c, x, y)[i - 1], clsSetList[c][i])
  IN  {CFD(Q, searchLattice[x] \ Q, a, index(i)) :
         i \in {j \in DOMAIN clsSetList[c] :
                 /\ IsTried(clsSetList[c][j])
                 /\ index(j) # <<>> /\ Enough(support(y, index(j)))}}

(* findQ.                                                                  *)
Conditions(x, sorted) ==
  Kept(Qc, {c \in ToSet(Qc) : ifSubsumed(Names(x, sorted), Names(c, sorted))})

Edge == /\ doing = "rules"
        /\ cursor[1] <= NNodes
        /\ cursor[2] <= Len(edges[cursor[1]])

IsFD(x, y) == Len(clsSetList[x]) = Len(clsSetList[y])

FindFD ==
  LET x == cursor[1]
      y == edges[x][cursor[2]]
      a == CHOOSE b \in searchLattice[y] : b \notin searchLattice[x]
      pruned == removeSuperSet(x, y, tidy \cup {x, y})[NNodes]
  IN  /\ Edge
      /\ IsFD(x, y)
      /\ CL' = CL \cup {FD(searchLattice[x], a)}
      /\ edges' = pruned.edges
      /\ tidy' = pruned.tidy
      /\ cursor' = <<x, cursor[2] + 1>>
      /\ UNCHANGED <<input, doing, clsSetList, Qc>>

FindCFD ==
  LET x == cursor[1]
      y == edges[x][cursor[2]]
      conditions == Conditions(x, tidy \cup {x, y})
  IN  /\ Edge
      /\ ~ IsFD(x, y)
      /\ IF OmegaX(x, y) = <<>>
         THEN UNCHANGED <<CL, tidy>>
         ELSE /\ CL' = CL \cup UNION {RulesWith(c, x, y) : c \in ToSet(conditions)}
              /\ tidy' = tidy \cup {x, y} \cup ToSet(conditions)
      /\ cursor' = <<x, cursor[2] + 1>>
      /\ UNCHANGED <<input, doing, clsSetList, edges, Qc>>

NextNode ==
  /\ doing = "rules"
  /\ cursor[2] > Len(edges[cursor[1]])
  /\ IF cursor[1] < NNodes
     THEN cursor' = <<cursor[1] + 1, 1>> /\ UNCHANGED doing
     ELSE doing' = "done" /\ UNCHANGED cursor
  /\ UNCHANGED <<input, clsSetList, edges, tidy, Qc, CL>>

RulesDone == doing = "done" /\ UNCHANGED rulesVars

RulesNext ==
  \/ PartitionNode \/ CreateGraph
  \/ FindFD \/ FindCFD \/ NextNode
  \/ RulesDone

RulesSpec == RulesInit /\ [][RulesNext]_rulesVars

-----------------------------------------------------------------------------
(* Dependencies, by their definition.                                      *)

Agree(r, s, S) == \A a \in S : data[r][a] = data[s][a]

Determines(S, a, rows) == \A r, s \in rows : Agree(r, s, S) => data[r][a] = data[s][a]

(* The minimal functional dependencies, but that a column with one value   *)
(* depends on every other column and not on none.                          *)
IsMinimalFD(S, a) ==
  /\ Determines(S, a, Row)
  /\ \A b \in S : S # {b} => ~ Determines(S \ {b}, a, Row)

MinimalFDs ==
  UNION {{FD(S, a) : a \in {b \in Attr \ S : IsMinimalFD(S, b)}} : S \in (SUBSET Attr) \ {{}}}

(* The header has the names in the order of the alphabet.                  *)
HeaderSorted == \A a, b \in Attr : a < b => rank[a] < rank[b]

Affected(rule) == {r \in Row : \A a \in DOMAIN rule.cond : data[r][a] = rule.cond[a]}

(* Every rule written down holds in the data it was found in, whatever the *)
(* order of the columns' names, and a conditional one speaks of two rows   *)
(* and the required share of them at least: the shortcuts by numbers of    *)
(* classes, first rows and subtraction of classes add nothing untrue.      *)
RulesHold ==
  \A rule \in CL :
    LET rows == Affected(rule)
    IN  /\ Determines(DOMAIN rule.cond \cup rule.vars, rule.to, rows)
        /\ rule.value # Null => \A r \in rows : data[r][rule.to] = rule.value
        /\ rule.cond # <<>> => Cardinality(rows) > 1 /\ Enough(Cardinality(rows))

(* All minimal functional dependencies are found; no others if the names   *)
(* of the columns are in the order of the alphabet: pruning the lattice     *)
(* while it is walked takes away what is implied and nothing else.          *)
FDsExact ==
  doing = "done" =>
    LET found == {rule \in CL : rule.cond = <<>>}
    IN  MinimalFDs \subseteq found /\ (HeaderSorted => found = MinimalFDs)

(* The edge from S to S + a is left by the pruning.                        *)
Unimplied(S, a) ==
  \A fd \in MinimalFDs : ~ (fd.vars \subseteq S /\ fd.to \in S \cup {a})

(* If the columns are in the order of the alphabet, every conditional      *)
(* dependency is found that no functional dependency implies: for columns  *)
(* S and Q among them, a column a, and enough rows that agree on Q, in     *)
(* which no row is the only one with its values in S and those that agree  *)
(* on S agree on a.                                                        *)
CFDsComplete ==
  (doing = "done" /\ HeaderSorted) =>
    \A S \in (SUBSET Attr) \ {{}} : \A a \in Attr \ S : Unimplied(S, a) =>
      \A Q \in (SUBSET S) \ {{}}, r \in Row :
        LET rows == {s \in Row : Agree(r, s, Q)}
            blocks == {{t \in rows : Agree(s, t, S)} : s \in rows}
        IN  (/\ Enough(Cardinality(rows))
             /\ \A B \in blocks : Cardinality(B) > 1
             /\ Determines(S, a, rows))
            => \E rule \in CL :
                 /\ rule.cond = [b \in Q |-> data[r][b]] /\ rule.to = a
                 /\ rule.vars = IF Cardinality(blocks) = 1 THEN {} ELSE S \ Q

(* The result of the discovery.                                            *)
RulesExact == RulesHold /\ FDsExact /\ CFDsComplete
=============================================================================
