---------------------------- MODULE MCStructures ----------------------------
(***************************************************************************)
(* Instances, for TLC, of the parts of the engine that stand by themselves: *)
(* a HashArray, a UnionFind of records with different weights, the sampler, *)
(* partitioning and the inference on its result, and the discovery of       *)
(* rules.  They have nothing to do with each other: a behaviour exercises   *)
(* one of them while the others rest in an initial state.                  *)
(***************************************************************************)
EXTENDS HashArray, UnionFind, MCSat, InferPartitioned, Discovery

CONSTANTS v1, v2

VARIABLE used

-----------------------------------------------------------------------------
Records == 1 .. 6

SquareWeights == [x \in Records |-> x * x]

ASSUME ForestInput == GoodInput

-----------------------------------------------------------------------------
(* Four connected atoms of 936 bytes, which the budget cuts in places that *)
(* depend on the order of the clauses, a pair, and two single atoms.       *)
ChainAtoms == 1 .. 8
ChainClauses == << {1, 2}, {2, 3}, {2, 3, 4}, {1, 2, 4}, {5, 6}, {5}, {7} >>

(* The component of 936 bytes is cut and its parts fill two buckets; is     *)
(* cut in marginal inference, which skips the component without a query;   *)
(* is whole, in a bucket with room to spare; or is whole but does not fit  *)
(* in a bucket's memory.                                                   *)
ChainConfigs ==
  {[budget |-> 730, ram |-> 730,  most |-> 2, skip |-> FALSE, task |-> "MAP"],
   [budget |-> 730, ram |-> 730,  most |-> 2, skip |-> TRUE,  task |-> "MARGINAL"],
   [budget |-> 940, ram |-> 1000, most |-> 2, skip |-> TRUE,  task |-> "MAP"],
   [budget |-> 940, ram |-> 470,  most |-> 8, skip |-> FALSE, task |-> "MAP"]}

ChainQuery == {1, 5, 8}

ASSUME InferenceInput == GoodMRF

-----------------------------------------------------------------------------
(* Three atoms, clauses of both signs that can be satisfied together: a    *)
(* slice may select all of them or none.                                   *)
GClause(w, literals) == [w |-> w, lits |-> literals]
SliceClauses == << GClause(2, <<1, 2>>), GClause(1, <<-2, 3>>), GClause(-1, <<1, -3>>) >>

(* The clause that a slice leaves out moves the cost of the others' flips.  *)
DriftClauses == << GClause(1, <<1, 2>>), GClause(1, <<-1, 3>>) >>

ThreeAtoms == 1 .. 3

ASSUME SamplerInput == MCSatInput

-----------------------------------------------------------------------------
(* Data sets for the discovery of rules: three or four columns, with the   *)
(* names in the order of the alphabet or not.                              *)
Table(rows, names) == [data |-> rows, rank |-> names]

Tables(n, columns) == [0 .. (n - 1) -> [1 .. columns -> {v1, v2}]]

(* Four rows with any values.                                              *)
Small == {Table(t, <<1, 2, 3>>) : t \in Tables(4, 3)}

(* Names in other orders, for rows of which the first two are given.        *)
Shuffled ==
  {Table(t, names) :
     t \in {u \in Tables(4, 3) : u[0] = <<v1, v1, v1>> /\ u[1][1] = v2},
     names \in {<<3, 1, 2>>, <<2, 3, 1>>, <<1, 3, 2>>}}

(* The rows of one class of the first column lie between those of the      *)
(* other: its classes by two columns are not split off in the order of     *)
(* their first rows.                                                       *)
Interleaved ==
  {Table(t, <<1, 2, 3>>) :
     t \in {u \in Tables(6, 3) :
              /\ u[0] = <<v1, v1, v1>>
              /\ \A r \in 1 .. 5 : u[r][1] = IF r \in {1, 2} THEN v2 ELSE v1}}

(* Four columns, for dependencies between more than two levels.            *)
Wide ==
  {Table(t, names) :
     t \in {u \in Tables(3, 4) : u[0] = <<v1, v1, v1, v1>>},
     names \in {<<1, 2, 3, 4>>, <<3, 1, 4, 2>>}}

AllInputs == Wide \cup Small \cup Shuffled \cup Interleaved

ASSUME RulesInput == GoodTables

-----------------------------------------------------------------------------
(* One of the worlds, settings and tables, where they are not used.         *)
NoWorld == ~ sampleSatMode /\ \A a \in Atom : ~ truth[a]

NoConfig == config = CHOOSE c \in Configs : TRUE

NoTable == data = [r \in 0 .. 2 |-> <<v1, v1, v1, v1>>] /\ rank = <<1, 2, 3, 4>>

StructuresInit ==
  /\ RulesInit /\ ArrayInit /\ TreesInit /\ Init /\ InferInit
  /\ \/ used \in {"HashArray", "UnionFind"} /\ NoWorld /\ NoConfig /\ NoTable
     \/ used = "MCSat" /\ NoConfig /\ NoTable
     \/ used = "InferPartitioned" /\ NoWorld /\ NoTable
     \/ used = "Discovery" /\ NoWorld /\ NoConfig

HashArrayStep ==
  used = "HashArray" /\ ArrayNext /\ UNCHANGED <<used, trees, vars, inferVars, rulesVars>>

UnionFindStep ==
  used = "UnionFind" /\ TreesNext /\ UNCHANGED <<used, array, vars, inferVars, rulesVars>>

SamplerStep ==
  used = "MCSat" /\ Next /\ UNCHANGED <<used, array, trees, inferVars, rulesVars>>

InferenceStep ==
  used = "InferPartitioned" /\ InferNext /\ UNCHANGED <<used, array, trees, vars, rulesVars>>

RulesStep ==
  used = "Discovery" /\ RulesNext /\ UNCHANGED <<used, array, trees, vars, inferVars>>

StructuresNext == HashArrayStep \/ UnionFindStep \/ InferenceStep \/ SamplerStep \/ RulesStep

all == <<used, array, trees, vars, inferVars, rulesVars>>

StructuresSpec == StructuresInit /\ [][StructuresNext]_all

-----------------------------------------------------------------------------
(* The sampler alone, for clauses with which it goes wrong.                 *)
SamplerInit ==
  /\ used = "MCSat" /\ NoTable /\ NoConfig
  /\ RulesInit /\ ArrayInit /\ TreesInit /\ Init /\ InferInit

SamplerSpec == SamplerInit /\ [][SamplerStep]_all
=============================================================================
