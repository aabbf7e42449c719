-------------------------- MODULE InferPartitioned --------------------------
(***************************************************************************)
(* Partitioning.partitionMRF (core/tuffy/ground/partition): the atoms of    *)
(* the ground MRF are clustered into components, and each component into    *)
(* parts that fit in the budget; clauses are given to parts.                *)
(*                                                                         *)
(* InferPartitioned.groupPartitionsIntoBuckets and infer (core/tuffy/infer) *)
(* with Bucket.load and Bucket.discard: components, or the parts of those   *)
(* that are too large, are put into buckets, which are loaded from the     *)
(* database, inferred on (see modules InferBucket and WalkSAT) and written *)
(* back one by one; the buckets of a component that is split are gone      *)
(* through several times.                                                  *)
(*                                                                         *)
(* The two union-find structures are the sets of clusters they stand for   *)
(* (module UnionFind).  A weight is a number of bytes.  The state of an    *)
(* atom in the database is abstracted to whether it is the outcome of an   *)
(* inference.                                                              *)
(***************************************************************************)
EXTENDS Integers, Sequences, SequencesExt, FiniteSets, Functions

CONSTANTS
  RelAtom,
  RelClauses,       \* RelClauses[c]: the atoms of clause c
  Query,         \* atoms with isQuery or isqueryevid
  Configs,       \* the settings of Config and of the command line
  Rounds         \* Config.gauss_seidel_infer_rounds, positive

RelClause == DOMAIN RelClauses

Config == [budget : Nat,            \* Config.partition_size_bound
           ram : Nat,               \* Config.ram_size
           most : Nat \ {0},        \* Config.max_number_components_per_bucket
           skip : BOOLEAN,          \* !Config.no_pushdown
           task : {"MAP", "MARGINAL"}]

GoodMRF ==
  /\ IsFiniteSet(RelAtom) /\ IsFiniteSet(RelClause)
  /\ Query \subseteq RelAtom
  /\ \A c \in RelClause : RelClauses[c] # {} /\ RelClauses[c] \subseteq RelAtom
  /\ Configs \subseteq Config
  /\ Rounds \in Nat \ {0}

VARIABLES
  config,       \* the settings of this run
  phase,        \* "scan", "assign", "group" or "grouped"
  unread,       \* clauses of the result set not scanned yet
  comps,        \* ufcomp: the clusters of atoms connected by clauses
  parts,        \* ufpart
  owner,        \* relClausePart: the part each clause was given to
  ungrouped,    \* components not put in a bucket yet
  wholeBuckets, \* sequence of sets of components
  partBuckets   \* partBuckets[C]: the parts of C, bucket by bucket

schemeVars == <<config, phase, unread, comps, parts, owner, ungrouped, wholeBuckets,
                partBuckets>>

Budget == config.budget

RamSize == config.ram

MaxComponents == config.most

(* Config.skipUselessComponents is always true.                            *)
SkipUseless == config.skip

-----------------------------------------------------------------------------
(* perClauseSharedWeight(n) and perAtomWeight; exact for n in {1,2,3,4}.   *)
ClauseShare(n) == (108 + 4 * n) \div n

AtomWeight(a) ==
  116 + SumFunctionOnSet([c \in RelClause |-> ClauseShare(Cardinality(RelClauses[c]))],
                         {c \in RelClause : a \in RelClauses[c]})

AtomWeights == [a \in RelAtom |-> AtomWeight(a)]

SizeOf(C) == SumFunctionOnSet(AtomWeights, C)

SizeOfAll(S) == SumFunctionOnSet([C \in SUBSET RelAtom |-> SizeOf(C)], S)

Touched(clusters, c) == {C \in clusters : C \cap RelClauses[c] # {}}

Merged(clusters, c) ==
  (clusters \ Touched(clusters, c)) \cup {UNION Touched(clusters, c)}

PartsOf(C) == {P \in parts : P \subseteq C}

hasQueryAtom(C) == C \cap Query # {}

SchemeInit ==
  /\ config \in Configs
  /\ phase = "scan"
  /\ unread = RelClause
  /\ comps = {{a} : a \in RelAtom}
  /\ parts = {{a} : a \in RelAtom}
  /\ owner = <<>>
  /\ ungrouped = {}
  /\ wholeBuckets = <<>>
  /\ partBuckets = <<>>

(* Mutation: the clause joins its parts if each of them is small enough.   *)
FitsMut(c) == \A P \in Touched(parts, c) : SizeOf(P) <= Budget

(* Mutation: a part is counted once for each of its literals.              *)
FitsRepeatedMut(c) ==
  SumFunctionOnSet([a \in RelAtom |-> SizeOfAll({P \in parts : a \in P})], RelClauses[c])
    <= Budget

Fits(c) == SizeOfAll(Touched(parts, c)) <= Budget

(* Mutation: the components are merged along with the parts.               *)
ConnectsMut(c) == Fits(c)

Connects(c) == TRUE

(* The first scan.  The query gives the clauses in any order.              *)
ScanClause(c) ==
  /\ phase = "scan"
  /\ c \in unread
  /\ unread' = unread \ {c}
  /\ comps' = IF Connects(c) THEN Merged(comps, c) ELSE comps
  /\ parts' = IF Cardinality(RelClauses[c]) > 1 /\ Fits(c) THEN Merged(parts, c) ELSE parts
  /\ UNCHANGED <<phase, owner, ungrouped, wholeBuckets, partBuckets>>

FinishScan ==
  /\ phase = "scan"
  /\ unread = {}
  /\ phase' = "assign"
  /\ UNCHANGED <<unread, comps, parts, owner, ungrouped, wholeBuckets, partBuckets>>

(* partitionClauses: the part of a random literal.                         *)
AssignClauses ==
  /\ phase = "assign"
  /\ \E f \in [RelClause -> parts] :
       /\ \A c \in RelClause : f[c] \cap RelClauses[c] # {}
       /\ owner' = f
  /\ ungrouped' = comps
  /\ phase' = "group"
  /\ UNCHANGED <<unread, comps, parts, wholeBuckets, partBuckets>>

-----------------------------------------------------------------------------
(* Components are taken in the order of their sizes, the largest first.    *)
IsNext(C) ==
  /\ phase = "group"
  /\ C \in ungrouped
  /\ \A D \in ungrouped : SizeOf(D) <= SizeOf(C)

SkipComponent(C) ==
  /\ IsNext(C)
  /\ SkipUseless /\ ~ hasQueryAtom(C)
  /\ ungrouped' = ungrouped \ {C}
  /\ UNCHANGED <<phase, unread, comps, parts, owner, wholeBuckets, partBuckets>>

Room(z, C) ==
  SizeOfAll(z) + SizeOf(C) <= RamSize /\ Cardinality(z) < MaxComponents

(* The component is added to every bucket that has room for it, or to a    *)
(* new one if none has.                                                    *)
PlaceWhole(C) ==
  LET taken == \E i \in DOMAIN wholeBuckets : Room(wholeBuckets[i], C)
      added == [i \in DOMAIN wholeBuckets |->
                  IF Room(wholeBuckets[i], C) THEN wholeBuckets[i] \cup {C}
                                              ELSE wholeBuckets[i]]
  IN  /\ IsNext(C)
      /\ ~ SkipUseless \/ hasQueryAtom(C)
      /\ SizeOf(C) <= RamSize
      /\ wholeBuckets' = IF taken THEN added ELSE Append(wholeBuckets, {C})
      /\ ungrouped' = ungrouped \ {C}
      /\ UNCHANGED <<phase, unread, comps, parts, owner, partBuckets>>

Opened(P) == {P}

(* The parts go into the last bucket as long as there is room.  The first  *)
(* bucket stays empty if the largest part does not fit in it.              *)
Packed(zones, P) ==
  IF SizeOfAll(zones[Len(zones)]) + SizeOf(P) <= RamSize
  THEN [zones EXCEPT ![Len(zones)] = @ \cup {P}]
  ELSE Append(zones, Opened(P))

Zones(sorted) ==
  LET upTo[n \in 0 .. Len(sorted)] ==
        IF n = 0 THEN << {} >> ELSE Packed(upTo[n - 1], sorted[n])
  IN  upTo[Len(sorted)]

PlaceSplit(C) ==
  /\ IsNext(C)
  /\ ~ SkipUseless \/ hasQueryAtom(C)
  /\ SizeOf(C) > RamSize
  /\ \E sorted \in SetToSeqs(PartsOf(C)) :
       /\ \A i \in 1 .. (Len(sorted) - 1) : SizeOf(sorted[i]) >= SizeOf(sorted[i + 1])
       /\ partBuckets' = [D \in DOMAIN partBuckets \cup {C} |->
                            IF D = C THEN Zones(sorted) ELSE partBuckets[D]]
  /\ ungrouped' = ungrouped \ {C}
  /\ UNCHANGED <<phase, unread, comps, parts, owner, wholeBuckets>>

FinishGrouping ==
  /\ phase = "group"
  /\ ungrouped = {}
  /\ phase' = "grouped"
  /\ UNCHANGED <<unread, comps, parts, owner, ungrouped, wholeBuckets, partBuckets>>

SchemeStep ==
  /\ \/ \E c \in RelClause : ScanClause(c)
     \/ FinishScan \/ AssignClauses
     \/ \E C \in ungrouped : SkipComponent(C) \/ PlaceWhole(C) \/ PlaceSplit(C)
     \/ FinishGrouping
  /\ UNCHANGED config

-----------------------------------------------------------------------------
SchemeTypeOK ==
  /\ config \in Config
  /\ phase \in {"scan", "assign", "group", "grouped"}
  /\ unread \subseteq RelClause
  /\ UNION comps = RelAtom /\ UNION parts = RelAtom
  /\ \A C, D \in comps : C # D => C \cap D = {}
  /\ \A P, R \in parts : P # R => P \cap R = {}
  /\ owner # <<>> => owner \in [RelClause -> parts]
  /\ ungrouped \subseteq comps
  /\ \A i \in DOMAIN wholeBuckets : wholeBuckets[i] \subseteq comps
  /\ \A C \in DOMAIN partBuckets : \A i \in DOMAIN partBuckets[C] :
       partBuckets[C][i] \subseteq PartsOf(C)

(* "size bound of a partition" (Partitioning.java 67): no merging of parts *)
(* makes one larger than the budget, in whatever order clauses come.       *)
PartsWithinBudget ==
  \A P \in parts : Cardinality(P) > 1 => SizeOf(P) <= Budget

(* "Components are disjoint from each other" (PartitionScheme.java 11):    *)
(* after the scan no clause crosses two components, no component is larger *)
(* than it has to be, and every part is in one component.                  *)
ComponentsConnected ==
  phase # "scan" =>
    /\ \A c \in RelClause : Cardinality(Touched(comps, c)) = 1
    /\ \A C \in comps : \A S \in (SUBSET C) \ {{}, C} :
         \E c \in RelClause : RelClauses[c] \cap S # {} /\ RelClauses[c] \cap (C \ S) # {}
    /\ \A P \in parts : \E C \in comps : P \subseteq C

(* RelClauses are cut for want of room only: the parts a cut clause connects  *)
(* would not fit in the budget together.                                   *)
CutsNeeded ==
  phase # "scan" =>
    \A c \in RelClause :
      Cardinality(Touched(parts, c)) > 1 => SizeOfAll(Touched(parts, c)) > Budget

(* Nothing to be inferred on is left out of the buckets, a bucket fits in  *)
(* memory unless it is one oversized part, and the parts of a component    *)
(* that is split are in one bucket each.                                   *)
BucketsComplete ==
  phase = "grouped" =>
    /\ \A C \in comps : ~ SkipUseless \/ hasQueryAtom(C) =>
         \/ \E i \in DOMAIN wholeBuckets : C \in wholeBuckets[i]
         \/ /\ C \in DOMAIN partBuckets
            /\ \A P \in PartsOf(C) :
                 Cardinality({i \in DOMAIN partBuckets[C] : P \in partBuckets[C][i]}) = 1
    /\ \A i \in DOMAIN wholeBuckets : SizeOfAll(wholeBuckets[i]) <= RamSize
    /\ \A C \in DOMAIN partBuckets : \A i \in DOMAIN partBuckets[C] :
         Cardinality(partBuckets[C][i]) > 1 => SizeOfAll(partBuckets[C][i]) <= RamSize

-----------------------------------------------------------------------------
Task == config.task

VARIABLES
  stage,      \* "waiting", "whole", "split", "returned", or "failed" by an exception
  turn,       \* the bucket whose turn it is
  round,      \* t: the round over the buckets of a split component
  splitLeft,  \* components in partBuckets not done with; the first is `splitting'
  splitting,
  inRam,      \* parts whose mrf is not null
  atomsOf,    \* components whose atoms are not null
  inferred,   \* atoms whose state in relAtoms is the outcome of an inference
  costs,      \* costs[C]: how many times C's cost is in the sum
  hugeCost    \* licost, begun with Double.MAX_VALUE, was added to the sum

runVars == <<stage, turn, round, splitLeft, splitting, inRam, atomsOf, inferred,
             costs, hugeCost>>

inferVars == <<schemeVars, runVars>>

InferInit ==
  /\ SchemeInit
  /\ stage = "waiting"
  /\ turn = 1
  /\ round = 1
  /\ splitLeft = {}
  /\ splitting = {}
  /\ inRam = {}
  /\ atomsOf = {}
  /\ inferred = {}
  /\ costs = <<>>
  /\ hugeCost = FALSE

Partition == SchemeStep /\ UNCHANGED runVars

Begin ==
  /\ stage = "waiting"
  /\ phase = "grouped"
  /\ stage' = "whole"
  /\ splitLeft' = DOMAIN partBuckets
  /\ costs' = [C \in comps |-> 0]
  /\ UNCHANGED <<schemeVars, turn, round, splitting, inRam, atomsOf, inferred, hugeCost>>

(* Mutation: buckets are kept in memory.                                   *)
DiscardedMut(loaded, C) == loaded

(* Bucket.discard after MAP inference only.                                *)
Discarded(loaded, K) == IF Task = "MAP" THEN loaded \ K ELSE loaded

(* Mutation: the states of the last bucket are not written.                *)
FlushedMut(K) == IF turn = Len(wholeBuckets) THEN {} ELSE UNION K

(* flushAtomStates: all atoms of the bucket's components.                  *)
Flushed(K) == UNION K

(* A bucket of whole components, which are loaded, solved and written.     *)
InferWhole ==
  LET K == wholeBuckets[turn]
      P == UNION {PartsOf(C) : C \in K}
  IN  /\ stage = "whole"
      /\ turn <= Len(wholeBuckets)
      /\ inferred' = inferred \cup Flushed(K)
      /\ costs' = [C \in comps |-> IF C \in K THEN costs[C] + 1 ELSE costs[C]]
      /\ inRam' = Discarded(inRam \cup P, P)
      /\ atomsOf' = Discarded(atomsOf \cup K, K)
      /\ turn' = turn + 1
      /\ UNCHANGED <<schemeVars, stage, round, splitLeft, splitting, hugeCost>>

(* The next component that is split, or the end.                           *)
NextSplit ==
  /\ \/ stage = "whole" /\ turn > Len(wholeBuckets)
     \/ stage = "split" /\ round > Rounds
  /\ IF splitLeft = {}
     THEN stage' = "returned" /\ UNCHANGED <<splitLeft, splitting, turn, round>>
     ELSE \E C \in splitLeft :
            /\ stage' = "split"
            /\ splitting' = C
            /\ splitLeft' = splitLeft \ {C}
            /\ turn' = 1
            /\ round' = 1
  /\ UNCHANGED <<schemeVars, inRam, atomsOf, inferred, costs, hugeCost>>

(* Mutation: every bucket that has a part fails to load.                   *)
LoadFailsMut(zones, i) == zones[i] # {}

(* Bucket.load fails on a part of the component with a higher id than all  *)
(* parts of this bucket: the filter it is looked up in is too short.       *)
(* Parts are numbered in the order in which they are put in buckets, so    *)
(* those of this bucket have their mrf by then, and the component its atoms.*)
LoadFails(zones, i) ==
  zones[i] # {} /\ \E j \in (i + 1) .. Len(zones) : zones[j] # {}

(* One bucket of a split component in MAP inference.                       *)
InferPartMAP ==
  LET zones == partBuckets[splitting]
  IN  /\ stage = "split"
      /\ Task = "MAP"
      /\ round <= Rounds
      /\ IF LoadFails(zones, turn)
         THEN /\ stage' = "failed"
              /\ inRam' = inRam \cup zones[turn]
              /\ atomsOf' = atomsOf \cup {splitting}
              /\ UNCHANGED <<turn, round, inferred, costs>>
         ELSE /\ inferred' = inferred \cup
                   (IF zones[turn] = {} THEN {} ELSE UNION zones[turn])
              /\ turn' = IF turn < Len(zones) THEN turn + 1 ELSE 1
              /\ round' = IF turn < Len(zones) THEN round ELSE round + 1
              /\ costs' = IF turn = Len(zones) /\ round = Rounds
                          THEN [costs EXCEPT ![splitting] = @ + 1] ELSE costs
              /\ UNCHANGED <<stage, inRam, atomsOf>>
      /\ UNCHANGED <<schemeVars, splitLeft, splitting, hugeCost>>

(* In marginal inference the bucket is not loaded (the test of the flag is *)
(* the wrong way round): the worker throws, and nothing is written.        *)
InferPartMarginal ==
  LET zones == partBuckets[splitting]
  IN  /\ stage = "split"
      /\ Task = "MARGINAL"
      /\ round <= Rounds
      /\ turn' = IF turn < Len(zones) THEN turn + 1 ELSE 1
      /\ round' = IF turn < Len(zones) THEN round ELSE round + 1
      /\ hugeCost' = TRUE
      /\ UNCHANGED <<schemeVars, stage, splitLeft, splitting, inRam, atomsOf, inferred, costs>>

InferTerminating == stage \in {"returned", "failed"} /\ UNCHANGED inferVars

InferNext ==
  \/ Partition
  \/ Begin \/ InferWhole \/ NextSplit \/ InferPartMAP \/ InferPartMarginal
  \/ InferTerminating

InferSpec == InferInit /\ [][InferNext]_inferVars

-----------------------------------------------------------------------------
InferTypeOK ==
  /\ SchemeTypeOK
  /\ stage \in {"waiting", "whole", "split", "returned", "failed"}
  /\ turn \in Nat \ {0} /\ round \in 1 .. Rounds + 1
  /\ splitLeft \subseteq comps
  /\ splitting # {} => splitting \in comps
  /\ inRam \subseteq parts
  /\ atomsOf \subseteq comps
  /\ inferred \subseteq RelAtom
  /\ costs # <<>> => costs \in [comps -> Nat]
  /\ hugeCost \in BOOLEAN

Needed == {C \in comps : ~ SkipUseless \/ hasQueryAtom(C)}

(* When infer() returns, every atom that a query can depend on has a state *)
(* in the database that was inferred, and the cost of its component is in  *)
(* the sum; all but those of components that were split in marginal        *)
(* inference, whose parts are never loaded and whose cost, begun at the    *)
(* largest double, spoils the sum.                                         *)
AllInferred ==
  stage = "returned" =>
    /\ \A C \in Needed : Task = "MAP" \/ C \notin DOMAIN partBuckets =>
         C \subseteq inferred /\ costs[C] > 0
    /\ hugeCost => Task = "MARGINAL" /\ Needed \cap DOMAIN partBuckets # {}

(* MAP inference has one bucket in memory at a time: between two buckets   *)
(* nothing is left of the last one, and after a failure nothing but what   *)
(* was loaded of the bucket it failed on.                                  *)
MemoryFreed ==
  Task = "MAP" =>
    IF stage = "failed"
    THEN inRam = partBuckets[splitting][turn] /\ atomsOf = {splitting}
    ELSE inRam = {} /\ atomsOf = {}

(* The state between two steps is well formed, and memory is free.         *)
SchemeSound == InferTypeOK /\ BucketsComplete /\ MemoryFreed

(* A failure needs a component split over two buckets.                     *)
FailsOnlySplit ==
  stage = "failed" => \E C \in DOMAIN partBuckets : Cardinality(PartsOf(C)) > 1

(* What holds of the partitioning and of the inference on its buckets.     *)
InferenceSound ==
  /\ SchemeSound /\ PartsWithinBudget /\ ComponentsConnected /\ CutsNeeded
  /\ AllInferred /\ FailsOnlySplit

=============================================================================
