------------------------------- MODULE Domain -------------------------------
(***************************************************************************)
(* The cleaning core (core/data/Domain.java), in the order in which        *)
(* CleanerSocketServer.startClean calls it once MLN inference has given    *)
(* every value a probability:                                              *)
(*                                                                         *)
(*   init           cuts the data set into one domain per rule;            *)
(*   groupByKey     groups the tuples of a domain that have one reason;    *)
(*   correctByMLN   makes the tuples of a group equal to the likeliest;    *)
(*   combineDomain  takes rows on which two domains disagree out of their  *)
(*                  groups, then writes all groups back to the data set;   *)
(*   findCandidate  repairs the rows taken out.                            *)
(*                                                                         *)
(* The computation is sequential.  One action is one turn of the loop that *)
(* matters; `pc' is the method being executed.                             *)
(*                                                                         *)
(* A tuple is the part of a row that a rule talks about: the columns `idx' *)
(* (AttributeIndex), the values `ctx' (TupleContext) in the same order,    *)
(* and the rule it was cut out for, which fixes which of the columns are   *)
(* its reason and which its result.  Arrays are sequences; a HashMap whose *)
(* keys are row numbers is a function on a set of rows, iterated upwards   *)
(* (java.util.HashMap keeps small Integer keys in this order).             *)
(***************************************************************************)
EXTENDS Integers, FiniteSets, SequencesExt

CONSTANTS
  NAttrs,   \* columns of the data set, numbered from 0
  Value,    \* the values cells hold
  Null,     \* Java's null
  Inputs    \* what may be cleaned: the lines of a rules file, each with a reason
            \* and a result, some data sets, some results of MLN inference

Attr == 0 .. (NAttrs - 1)

RuleLine == [reason : Seq(Attr), result : Seq(Attr)]

WellFormed(line) ==
  line.reason # <<>> /\ line.result # <<>> /\ IsInjective(line.reason \o line.result)

ASSUME DomainAssumption ==
  /\ NAttrs \in Nat \ {0}
  /\ Null \notin Value
  /\ \A in \in Inputs :
       /\ in.lines \in Seq(RuleLine) /\ \A i \in DOMAIN in.lines : WellFormed(in.lines[i])
       /\ \A d \in in.data : /\ IsFiniteSet(DOMAIN d)
                             /\ DOMAIN d = 0 .. (Cardinality(DOMAIN d) - 1)
       /\ \A d \in in.data : d \in [DOMAIN d -> [Attr -> Value]]
       /\ in.probs \subseteq [Attr -> [Value -> 0 .. 2]]

VARIABLES
  rules,       \* Rule.java's list of rules: each has a reason and a result
  pc,          \* the method in progress; "done", or "failed" by an exception
  dataSet,     \* dataSet[k][a]: the value in row k, column a
  original,    \* the data set as it was loaded
  prob,        \* attributesPROB, see Likelihood
  domains,     \* domains[r][k]: row k's tuple in domain r
  groups,      \* Domain_to_Groups: of each domain that has some, its groups
  cursor,      \* the loop variables of the method in progress
  conflicts,   \* conflicts[k]: the conflict tuples recorded for row k
  candidate    \* candidateTuple of findCandidate and its probability

vars == <<rules, pc, dataSet, original, prob, domains, groups, cursor, conflicts,
          candidate>>

input == <<rules, original, prob>>

-----------------------------------------------------------------------------
(* The elements of a set of numbers in their order: each has n - 1 below it. *)
Upwards(S) ==
  [n \in 1 .. Cardinality(S) |-> CHOOSE k \in S : Cardinality({j \in S : j < k}) = n - 1]

(* loadRules: a line with the same columns as the last rule taken, that is,  *)
(* as the line before it, is dropped, whatever its reason and result are.   *)
Columns(rule) == ToSet(rule.reason \o rule.result)

Loaded(lines) ==
  LET taken == Upwards({i \in DOMAIN lines :
                          i = 1 \/ Columns(lines[i]) # Columns(lines[i - 1])})
  IN  [n \in DOMAIN taken |-> lines[taken[n]]]

AttrIndex(r) == rules[r].reason \o rules[r].result

(* What Domain.init puts into domain r for a row: the row's values in the  *)
(* columns of rule r.                                                      *)
RowTuple(r, row) ==
  [rule |-> r,
   idx  |-> AttrIndex(r),
   ctx  |-> [i \in DOMAIN AttrIndex(r) |-> row[AttrIndex(r)[i]]]]

Reason(t) == [i \in DOMAIN rules[t.rule].reason |-> t.ctx[i]]

(* Columns no rule names (Rule.findIgnoredTuples).                         *)
Ignored == {a \in Attr : \A r \in DOMAIN rules : ~ Contains(AttrIndex(r), a)}

-----------------------------------------------------------------------------
(* Likelihoods.  The marginal probabilities of MLN inference are abstracted *)
(* to 0, 1/2 and 1, so that a product of them is 0 or a power of 1/2: it is *)
(* kept as a rank that orders the products.  odds[a][v] is 0, 1 or 2; a     *)
(* value without a probability counts as 1.  `at' are the places counted;  *)
(* MaxLen is more than a tuple can get, in one search, places with values. *)
MaxLen == NAttrs * (2 * Len(rules) + 1) + 1

Likelihood(odds, t, at) ==
  LET p(i) == IF t.ctx[i] = Null THEN 2 ELSE odds[t.idx[i]][t.ctx[i]]
  IN  IF \E i \in at : p(i) = 0 THEN 0 ELSE MaxLen - Cardinality({i \in at : p(i) = 1})

(* The product correctByMLN compares: over the result part only.           *)
ResultLikelihood(odds, t) ==
  Likelihood(odds, t, (Len(rules[t.rule].reason) + 1) .. Len(t.idx))

-----------------------------------------------------------------------------
IsGroup(rows) == Cardinality(rows) > 1

(* groupByKey for one domain: the rows that agree on the reason, groups of *)
(* one dropped, in the order of their first rows.                          *)
GroupsOf(dom) ==
  LET class(k) == {m \in DOMAIN dom : Reason(dom[m]) = Reason(dom[k])}
      firsts   == Upwards({k \in DOMAIN dom :
                             IsGroup(class(k)) /\ \A m \in class(k) : k <= m})
  IN  [g \in DOMAIN firsts |-> [k \in class(firsts[g]) |-> dom[k]]]

LastOf(S) == CHOOSE i \in S : \A j \in S : j <= i

(* Value of column a in a tuple; null if the tuple has no such column.     *)
ValueOf(t, a) ==
  LET at == {i \in DOMAIN t.idx : t.idx[i] = a}
  IN  IF at = {} THEN Null ELSE t.ctx[LastOf(at)]

(* checkConflict: some column of both with different values.               *)
Conflicting(t1, t2) ==
  \E a \in Attr :
    /\ ValueOf(t1, a) # Null
    /\ ValueOf(t2, a) # Null
    /\ ValueOf(t1, a) # ValueOf(t2, a)

NoEndMark(common, idx1, idx2) ==
  Len(common) = Len(idx1) \/ Len(common) = Len(idx2)

(* findSameID: the merge of the two sorted index arrays, into an array of  *)
(* the shorter one's length.  `full' says that no -1 is left at its end.   *)
SameID(idx1, idx2) ==
  LET shared == {i \in DOMAIN idx1 :
                   Cardinality({j \in 1 .. i : idx1[j] = idx1[i]})
                     <= Cardinality({j \in DOMAIN idx2 : idx2[j] = idx1[i]})}
      before(i) == {j \in shared : idx1[j] < idx1[i] \/ (idx1[j] = idx1[i] /\ j < i)}
      common == [n \in 1 .. Cardinality(shared) |->
                   idx1[CHOOSE i \in shared : Cardinality(before(i)) = n - 1]]
  IN  [ids |-> common, full |-> NoEndMark(common, idx1, idx2)]

(* combineTuple: t1, then the columns of t2 that t1 does not have.  The new *)
(* array has room for all columns but the common ones; what stays unused    *)
(* of it is column 0 with a null value.                                     *)
CombineTuple(t1, t2, same) ==
  LET extra == Upwards({i \in DOMAIN t2.idx : same = <<>> \/ ~ Contains(t1.idx, t2.idx[i])})
      pad   == 1 .. (Len(t2.idx) - Len(same) - Len(extra))
  IN  [rule |-> 0,
       idx  |-> t1.idx \o [i \in DOMAIN extra |-> t2.idx[extra[i]]] \o [i \in pad |-> 0],
       ctx  |-> t1.ctx \o [i \in DOMAIN extra |-> t2.ctx[extra[i]]] \o [i \in pad |-> Null]]

(* ifContains && ifSameValue: "yes", "no", or "throws" when the scan for the *)
(* terminating -1 runs past the end of the array.  Both scans move forward   *)
(* only, so a column that lies before the last one found is missed.          *)
Matches(same, t, ct) ==
  LET found(s) == \E f \in [DOMAIN same.ids -> DOMAIN s] :
                    /\ \A i \in DOMAIN same.ids : s[f[i]] = same.ids[i]
                    /\ \A i, j \in DOMAIN same.ids : i < j => f[i] <= f[j]
      pos(s, a) == SelectInSeq(s, LAMBDA b : b = a)
  IN  IF \/ \E i \in DOMAIN same.ids : ~ Contains(t.idx, same.ids[i])
         \/ ~ found(t.idx)
         \/ ~ found(ct.idx)
      THEN "no"
      ELSE IF same.full THEN "throws"
      ELSE IF \A i \in DOMAIN same.ids :
                t.ctx[pos(t.idx, same.ids[i])] = ct.ctx[pos(ct.idx, same.ids[i])]
           THEN "yes" ELSE "no"

-----------------------------------------------------------------------------
(* Rows of the data set, numbered from 0.                                  *)
Row == DOMAIN original

NoCandidate == [tuple |-> [rule |-> 0, idx |-> <<>>, ctx |-> <<>>], p |-> -1]

Init ==
  /\ pc = "init"
  /\ \E in \in Inputs :
       /\ rules = Loaded(in.lines)
       /\ original \in in.data
       /\ prob \in in.probs
  /\ dataSet = original
  /\ domains = <<>>
  /\ groups = <<>>
  /\ cursor = <<1, 1>>
  /\ conflicts = [k \in Row |-> <<>>]
  /\ candidate = NoCandidate

-----------------------------------------------------------------------------
Partition ==
  /\ pc = "init"
  /\ domains' = [r \in DOMAIN rules |-> [k \in Row |-> RowTuple(r, dataSet[k])]]
  /\ pc' = "groupByKey"
  /\ UNCHANGED <<dataSet, input, groups, cursor, conflicts, candidate>>

(* A domain without groups is left out, and the groups of the domains      *)
(* behind it move up: from here on position i of `groups' and position i   *)
(* of `domains' need not belong to the same rule.                          *)
GroupByKey ==
  /\ pc = "groupByKey"
  /\ groups' = LET kept == Upwards({r \in DOMAIN domains : GroupsOf(domains[r]) # <<>>})
               IN  [d \in DOMAIN kept |-> GroupsOf(domains[kept[d]])]
  /\ pc' = "correctByMLN"
  /\ UNCHANGED <<dataSet, input, domains, cursor, conflicts, candidate>>

-----------------------------------------------------------------------------
(* The row whose tuple is taken as the clean one: the first likeliest, or  *)
(* the initial value 0 of tupleID if no likelihood is positive.            *)
CleanRow(group) ==
  LET like(k) == ResultLikelihood(prob, group[k])
      best == {k \in DOMAIN group : like(k) > 0 /\ \A m \in DOMAIN group : like(m) <= like(k)}
  IN  IF best = {} THEN 0 ELSE CHOOSE k \in best : \A m \in best : k <= m

(* One group.  The corrected tuples go to the group and to the domain at   *)
(* the same position.  Nothing is corrected if row 0 is meant but is not   *)
(* in the group.                                                           *)
CorrectGroup ==
  LET d == cursor[1]
      g == cursor[2]
      group == groups[d][g]
      k == CleanRow(group)
  IN  /\ pc = "correctByMLN"
      /\ d <= Len(groups)
      /\ IF k \in DOMAIN group
         THEN /\ groups' = [groups EXCEPT ![d][g] = [m \in DOMAIN group |-> group[k]]]
              /\ domains' = [domains EXCEPT ![d] =
                   [m \in Row |-> IF m \in DOMAIN group THEN group[k] ELSE @[m]]]
         ELSE UNCHANGED <<groups, domains>>
      /\ cursor' = IF g < Len(groups[d]) THEN <<d, g + 1>> ELSE <<d + 1, 1>>
      /\ UNCHANGED <<pc, dataSet, input, conflicts, candidate>>

(* combineDomain is entered.  With one list of groups it returns at once,  *)
(* with none it fails on the access to the first.                          *)
BeginCombine ==
  /\ pc = "correctByMLN"
  /\ cursor[1] > Len(groups)
  /\ pc' = CASE Len(groups) = 0 -> "failed"
             [] Len(groups) = 1 -> "findCandidate"
             [] OTHER -> "combineDomain"
  /\ cursor' = IF Len(groups) > 1 THEN <<2, 1, 1>> ELSE <<0>>
  /\ UNCHANGED <<dataSet, input, domains, groups, conflicts, candidate>>

-----------------------------------------------------------------------------
(* combineGroup: of the rows two groups share, those with a conflict       *)
(* between their tuples are taken out of both groups and recorded.  The    *)
(* combined tuples of the others are computed and dropped.                 *)
ConflictRows(g1, g2) ==
  {k \in DOMAIN g1 \cap DOMAIN g2 : Conflicting(g1[k], g2[k])}

(* Mutation: rows with a conflict stay in the second group.                *)
WithoutMut(group, rows, second) ==
  IF second THEN group ELSE [k \in DOMAIN group \ rows |-> group[k]]

Without(group, rows, second) == [k \in DOMAIN group \ rows |-> group[k]]

(* Mutation: at the end of the groups of domain i, `pre' stays.            *)
WrapAroundMut(i, pre) == <<i, pre, 1>>

WrapAround(i, pre) == <<i, pre + 1, 1>>

(* preDomainID: the number the first domain's tuple is recorded under.     *)
FirstID(i) == i - 1

(* One turn of the loop over the groups `pre' of the first domain and      *)
(* `cur' of domain i.  A turn that finds common rows moves `pre' on and    *)
(* leaves `cur' where it is; one that finds none moves `cur' on.  The      *)
(* domain compared with stays the first, but is recorded as domain i - 1.  *)
CombineGroups ==
  LET i == cursor[1]
      pre == cursor[2]
      cur == cursor[3]
      g1 == groups[1][pre]
      g2 == groups[i][cur]
      rows == ConflictRows(g1, g2)
      record(k) == <<[tuple |-> g1[k], domainID |-> FirstID(i)],
                     [tuple |-> g2[k], domainID |-> i]>>
  IN  /\ pc = "combineDomain"
      /\ i <= Len(groups)
      /\ pre <= Len(groups[1])
      /\ IF DOMAIN g1 \cap DOMAIN g2 # {}
         THEN /\ groups' = [groups EXCEPT ![1][pre] = Without(g1, rows, FALSE),
                                          ![i][cur] = Without(g2, rows, TRUE)]
              /\ conflicts' = [k \in Row |-> IF k \in rows THEN conflicts[k] \o record(k)
                                                          ELSE conflicts[k]]
              /\ cursor' = <<i, pre + 1, cur>>
         ELSE /\ cursor' = IF cur < Len(groups[i]) THEN <<i, pre, cur + 1>>
                                                   ELSE WrapAround(i, pre)
              /\ UNCHANGED <<groups, conflicts>>
      /\ UNCHANGED <<pc, dataSet, input, domains, candidate>>

NextDomain ==
  /\ pc = "combineDomain"
  /\ cursor[1] <= Len(groups)
  /\ cursor[2] > Len(groups[1])
  /\ cursor' = <<cursor[1] + 1, 1, 1>>
  /\ UNCHANGED <<pc, dataSet, input, domains, groups, conflicts, candidate>>

(* Mutation: a value goes to the column of its position in the tuple.      *)
ColumnMut(t, i) == i - 1

Column(t, i) == t.idx[i]

(* Where a tuple has a value that is written to column a.                  *)
Places(t, a) == {i \in DOMAIN t.idx : Column(t, i) = a}

(* A row with the values of a tuple written over it.                       *)
Overwrite(row, t) ==
  [a \in Attr |-> IF Places(t, a) = {} THEN row[a] ELSE t.ctx[LastOf(Places(t, a))]]

Grouped(d, k) == \E g \in DOMAIN groups[d] : k \in DOMAIN groups[d][g]

GroupedTuple(d, k) == groups[d][CHOOSE g \in DOMAIN groups[d] : k \in DOMAIN groups[d][g]][k]

(* The groups are written back in their order: of the tuples with a value   *)
(* for a cell the last one's stays in it.                                  *)
WriteBack ==
  LET writers(k, a) == {d \in DOMAIN groups : Grouped(d, k) /\ Places(GroupedTuple(d, k), a) # {}}
  IN  /\ pc = "combineDomain"
      /\ cursor[1] > Len(groups)
      /\ dataSet' = [k \in Row |-> [a \in Attr |->
           IF writers(k, a) = {} THEN dataSet[k][a]
           ELSE Overwrite(dataSet[k], GroupedTuple(LastOf(writers(k, a)), k))[a]]]
      /\ pc' = "findCandidate"
      /\ cursor' = <<0>>
      /\ UNCHANGED <<input, domains, groups, conflicts, candidate>>

-----------------------------------------------------------------------------
(* findCandidate.  A search state is the tuple built so far, the domains   *)
(* already used for it, and whether the search goes on ("run"), was left   *)
(* ("stop") or threw.                                                      *)

(* The first tuple of a domain, of which only the columns count.           *)
FirstIdx(d) == domains[d][0].idx

(* The tuples of domain d by their places, in its groups and in the domain  *)
(* itself, which has the number 0 here; and the first of some places.      *)
InGroups(d) == UNION {{g} \X DOMAIN groups[d][g] : g \in DOMAIN groups[d]}

InDomain == {0} \X Row

TupleAt(d, x) == IF x[1] = 0 THEN domains[d][x[2]] ELSE groups[d][x[1]][x[2]]

FirstOf(S) == CHOOSE x \in S : \A y \in S : x[1] < y[1] \/ (x[1] = y[1] /\ x[2] <= y[2])

(* The tuple built so far gets the columns of row k in domain d if it has   *)
(* none of them, else those of the first tuple that matches, after which    *)
(* the search is in state `found'.                                         *)
Extended(s, d, k, ct, places, found) ==
  LET same == SameID(FirstIdx(d), s.tuple.idx)
      hits == {x \in places : Matches(same, TupleAt(d, x), ct.tuple) # "no"}
      t    == TupleAt(d, FirstOf(hits))
  IN  IF same.ids = <<>>
      THEN [s EXCEPT !.tuple = CombineTuple(@, domains[d][k], <<>>), !.used = @ \cup {d}]
      ELSE IF hits = {} THEN s
      ELSE IF Matches(same, t, ct.tuple) = "throws" THEN [s EXCEPT !.end = "throws"]
      ELSE [s EXCEPT !.tuple = CombineTuple(@, t, same.ids), !.used = @ \cup {d},
                     !.end = found]

FromGroups(s, d, k, ct) ==
  IF s.end # "run" \/ d = ct.domainID THEN s
  ELSE Extended(s, d, k, ct, InGroups(d), "run")

(* For the domains not used yet; left at the first match.                  *)
FromDomain(s, d, k, ct) ==
  IF s.end # "run" \/ d \in s.used \/ d = ct.domainID THEN s
  ELSE Extended(s, d, k, ct, InDomain, "stop")

(* The pass over the domains' groups, then the one over the domains.       *)
Search(k, ct) ==
  LET n == Len(groups)
      s[i \in 0 .. (2 * n)] ==
        IF i = 0 THEN [tuple |-> ct.tuple, used |-> {}, end |-> "run"]
        ELSE IF i <= n THEN FromGroups(s[i - 1], i, k, ct)
        ELSE FromDomain(s[i - 1], i - n, k, ct)
  IN  s[2 * n]

(* All conflict tuples of one row: the likeliest combination is kept, the   *)
(* first of several, also against the candidate left over from the rows     *)
(* before.                                                                 *)
BestCandidate(k) ==
  LET built == [i \in DOMAIN conflicts[k] |-> Search(k, conflicts[k][i]).tuple]
      p == [i \in DOMAIN conflicts[k] |-> Likelihood(prob, built[i], DOMAIN built[i].idx)]
      better == {i \in DOMAIN conflicts[k] : p[i] > candidate.p}
      best == CHOOSE i \in better : \A j \in better : p[j] < p[i] \/ (p[j] = p[i] /\ i <= j)
  IN  IF better = {} THEN candidate ELSE [tuple |-> built[best], p |-> p[best]]

Throws(k) == \E i \in DOMAIN conflicts[k] : Search(k, conflicts[k][i]).end = "throws"

(* The repaired row: the ignored columns and those the candidate says      *)
(* nothing about keep their old values.                                    *)
Repaired(k, t) ==
  LET new == Overwrite([a \in Attr |-> IF a \in Ignored THEN dataSet[k][a] ELSE Null], t)
  IN  [a \in Attr |-> IF new[a] = Null THEN dataSet[k][a] ELSE new[a]]

(* The next row with conflicts, in the order of the map.                   *)
RepairRow ==
  LET todo == {k \in Row : conflicts[k] # <<>> /\ k >= cursor[1]}
      k == CHOOSE j \in todo : \A l \in todo : j <= l
  IN  /\ pc = "findCandidate"
      /\ todo # {}
      /\ IF Throws(k)
         THEN pc' = "failed" /\ UNCHANGED <<dataSet, candidate, cursor>>
         ELSE /\ candidate' = BestCandidate(k)
              /\ dataSet' = [dataSet EXCEPT ![k] = Repaired(k, candidate'.tuple)]
              /\ cursor' = <<k + 1>>
              /\ UNCHANGED pc
      /\ UNCHANGED <<input, domains, groups, conflicts>>

(* All rows are repaired; the data set is written to the result file.      *)
Finish ==
  /\ pc = "findCandidate"
  /\ \A k \in Row : conflicts[k] = <<>> \/ k < cursor[1]
  /\ pc' = "done"
  /\ UNCHANGED <<dataSet, input, domains, groups, cursor, conflicts, candidate>>

Terminating == pc \in {"done", "failed"} /\ UNCHANGED vars

Next ==
  \/ Partition \/ GroupByKey \/ CorrectGroup
  \/ BeginCombine \/ CombineGroups \/ NextDomain \/ WriteBack
  \/ RepairRow \/ Finish
  \/ Terminating

Spec == Init /\ [][Next]_vars

-----------------------------------------------------------------------------
IsTuple(t) ==
  /\ t.rule \in 0 .. Len(rules)
  /\ t.idx \in Seq(Attr)
  /\ t.ctx \in Seq(Value \cup {Null})
  /\ Len(t.ctx) = Len(t.idx)

TypeOK ==
  /\ pc \in {"init", "groupByKey", "correctByMLN", "combineDomain",
             "findCandidate", "done", "failed"}
  /\ dataSet \in [Row -> [Attr -> Value]]
  /\ original \in [Row -> [Attr -> Value]]
  /\ prob \in [Attr -> [Value -> 0 .. 2]]
  /\ \A r \in DOMAIN domains : \A k \in Row : IsTuple(domains[r][k])
  /\ Len(groups) <= Len(domains)
  /\ \A d \in DOMAIN groups : \A g \in DOMAIN groups[d] :
       /\ DOMAIN groups[d][g] \subseteq Row
       /\ \A k \in DOMAIN groups[d][g] : IsTuple(groups[d][g][k])
  /\ cursor \in Seq(Nat)
  /\ \A k \in Row : \A i \in DOMAIN conflicts[k] :
       IsTuple(conflicts[k][i].tuple) /\ conflicts[k][i].domainID \in DOMAIN groups
  /\ IsTuple(candidate.tuple) /\ candidate.p \in -1 .. MaxLen

Corrected == pc \in {"combineDomain", "findCandidate", "done"}

(* A rule (a functional dependency) in a data set.                         *)
Satisfies(data, rule) ==
  \A k, m \in Row :
    (\A i \in DOMAIN rule.reason : data[k][rule.reason[i]] = data[m][rule.reason[i]])
    => \A i \in DOMAIN rule.result : data[k][rule.result[i]] = data[m][rule.result[i]]

(* A cell never gets null, nor a value that its column did not hold when   *)
(* the data was loaded, although the repairs of combineTuple move values   *)
(* between arrays indexed by position and arrays indexed by column; and a  *)
(* column that no rule names is as it was, also in the rows findCandidate  *)
(* builds anew.                                                            *)
NoInventedValues ==
  \A k \in Row, a \in Attr :
    /\ \E m \in Row : dataSet[k][a] = original[m][a]
    /\ a \in Ignored => dataSet[k][a] = original[k][a]

IsCorrected(group) ==
  \A k \in DOMAIN group :
    /\ ResultLikelihood(prob, group[k]) > 0 => \A m \in DOMAIN group : group[m] = group[k]
    /\ \A m \in Row :
         LET u == RowTuple(group[k].rule, original[m])
         IN  Reason(u) = Reason(group[k])
             => ResultLikelihood(prob, u) <= ResultLikelihood(prob, group[k])

(* correctByMLN leaves no group in which the tuples differ unless their    *)
(* likelihood is zero, and no row with the same reason in the loaded data  *)
(* had a likelier result.                                                  *)
GroupsCorrected ==
  Corrected => \A d \in DOMAIN groups : \A g \in DOMAIN groups[d] : IsCorrected(groups[d][g])

(* A row with a recorded conflict is in no group of the domains it was     *)
(* recorded for, nor of the first: only findCandidate decides on it.       *)
TakenOut ==
  \A k \in Row : \A i \in DOMAIN conflicts[k] : \A d \in {1, conflicts[k][i].domainID} :
    (d = 1 \/ i % 2 = 0) => \A g \in DOMAIN groups[d] : k \notin DOMAIN groups[d][g]

(* Cleaning ends with an exception only if no domain has a group, or if    *)
(* rules overlap.  Of two rules one has all columns of the other: then     *)
(* findSameID leaves no -1 and ifSameValue runs off the array.  Of three    *)
(* it is enough that two share a column, since combineDomain records the   *)
(* tuple of the first domain under the number of the domain before the     *)
(* other one, and findCandidate compares it with its own domain.           *)
FailsOnlyCovered ==
  pc = "failed" =>
    \/ groups = <<>>
    \/ \E q, r \in DOMAIN rules :
         /\ q # r
         /\ IF Len(rules) = 2 THEN Columns(rules[q]) \subseteq Columns(rules[r])
            ELSE Columns(rules[q]) \cap Columns(rules[r]) # {}

(* Data that satisfies every rule comes out as it went in.                 *)
CleanDataKept ==
  (\A r \in DOMAIN rules : Satisfies(original, rules[r])) => dataSet = original

(* rules that share no column hold in the result, if each has a group to   *)
(* be corrected and no value is impossible.                                *)
RulesSatisfied ==
  (/\ pc = "done"
   /\ Len(groups) = Len(rules)
   /\ Len(rules) > 1
   /\ \A a \in Attr, v \in Value : prob[a][v] > 0
   /\ \A q, r \in DOMAIN rules : q # r => Columns(rules[q]) \cap Columns(rules[r]) = {})
  => \A r \in DOMAIN rules : Satisfies(dataSet, rules[r])

(* "partition the data set by the rules" (77): if every domain has a group, *)
(* domain r holds tuples of rule r from its cutting to the end, although    *)
(* corrected tuples are put in it by the position of their list of groups.  *)
DomainsAligned ==
  Len(groups) = Len(rules) =>
    \A r \in DOMAIN domains : \A k \in Row : domains[r][k].rule = r

(* "the Domain of the conflicting attribute" (ConflictTuple 9): with two    *)
(* domains that both have groups, a conflict is recorded on both sides,    *)
(* each with the number of its own domain.                                 *)
ConflictDomain ==
  (Len(groups) = Len(rules) /\ Len(rules) = 2) =>
    \A k \in Row :
      /\ \A i \in DOMAIN conflicts[k] : conflicts[k][i].domainID = conflicts[k][i].tuple.rule
      /\ \A r \in {1, 2} :
           Cardinality({i \in DOMAIN conflicts[k] : conflicts[k][i].domainID = r}) * 2
             = Len(conflicts[k])

(* Types, and the numbers by which tuples, groups, domains and conflicts   *)
(* refer to each other.                                                    *)
ReferencesAgree == TypeOK /\ DomainsAligned /\ ConflictDomain

(* What is left to do: the methods still to be entered, then the turns of  *)
(* the loops of the method in progress, outermost first.                   *)
Left ==
  CASE pc = "init"         -> <<5, 0, 0, 0>>
    [] pc = "groupByKey"   -> <<4, 0, 0, 0>>
    [] pc = "correctByMLN" ->
         <<3, Len(groups) + 1 - cursor[1],
           IF cursor[1] <= Len(groups) THEN Len(groups[cursor[1]]) - cursor[2] ELSE 0, 0>>
    [] pc = "combineDomain" ->
         IF cursor[1] <= Len(groups)
         THEN <<2, Len(groups) + 1 - cursor[1], Len(groups[1]) + 1 - cursor[2],
                Len(groups[cursor[1]]) - cursor[3]>>
         ELSE <<2, 0, 0, 0>>
    [] pc = "findCandidate" -> <<1, Cardinality(Row) - cursor[1], 0, 0>>
    [] OTHER -> <<0, 0, 0, 0>>

(* startClean comes to an end: each step leaves less to do, with no count  *)
(* below zero, so that the walk over two lists of groups, which moves one  *)
(* index or the other, cannot go round for ever.                           *)
LessToDo ==
  [][/\ \E i \in 1 .. 4 : Left'[i] < Left[i] /\ \A j \in 1 .. (i - 1) : Left'[j] = Left[j]
     /\ \A i \in 1 .. 4 : Left'[i] >= 0]_vars

(* The data set, from which the result is read: nothing in it is invented,  *)
(* data that was clean is as it was, and what was not now satisfies the     *)
(* rules, where one pass can bring that about.                             *)
ValuesSound == NoInventedValues /\ CleanDataKept /\ RulesSatisfied

(* What the passes leave to each other: corrected groups, the rows in       *)
(* conflict out of them, and the numbers by which all these refer to each   *)
(* other; and no pass fails but where the rules overlap.                   *)
PassesSound == GroupsCorrected /\ TakenOut /\ ReferencesAgree /\ FailsOnlyCovered

-----------------------------------------------------------------------------
(* What comments say of the code and the code does not do (each is checked *)
(* by a run of its own, which shows the counterexample).                   *)

(* "replace the wrong value by the right one" (323, 899): what a group was *)
(* corrected to is in the data set when the cleaning is done.              *)
CorrectionsWritten ==
  pc = "done" =>
    \A d \in DOMAIN groups : \A g \in DOMAIN groups[d] : \A k \in DOMAIN groups[d][g] :
      \A i \in DOMAIN groups[d][g][k].idx :
        dataSet[k][groups[d][g][k].idx[i]] = groups[d][g][k].ctx[i]
=============================================================================
