----------------------------- MODULE Selectors ------------------------------
(***************************************************************************)
(* How jQuery finds the elements a selector names (jquery-3.2.1.js, Sizzle,  *)
(* 550-2800) when the browser's own querySelectorAll cannot: a selector is   *)
(* compiled to matchers that are run from its right end, that remember on   *)
(* the elements what they have found, and that call Sizzle again for :has,   *)
(* :not and selectors by position.  What is remembered belongs to one run;   *)
(* the page changes between runs, not during one.                          *)
(* A selector is given as the groups of tokens that tokenize makes of it.   *)
(***************************************************************************)
EXTENDS Integers, Sequences, SequencesExt, FiniteSets

CONSTANTS Node,      \* elements, numbers from 1; 0 is the document
          Trees,     \* pages: the children of every node, elements or Text
          Name,      \* Name[n]: the tag of an element
          Selectors, \* name of a selector -> its groups of tokens
          Asked,     \* the selectors that are asked for
          Contexts,  \* where: 0 or an element
          MaxRuns    \* bound on what is asked, and on the changes of the page

VARIABLES
  tree,
  st,      \* what Sizzle keeps from one run to the next
  answer,  \* what was asked last, and the result
  changed  \* the page has changed since

vars == <<tree, st, answer, changed>>

(* Tokens: [kind |-> "rel", dir, first], [kind |-> "tag", name], [kind |->  *)
(* "nth", step, offset, last], [kind |-> "not" or "has", sel] and [kind |->  *)
(* "pos", keeps], the positions kept of a result of n elements; a "not" has  *)
(* none of these within it.                                                *)

-----------------------------------------------------------------------------
(* The page.                                                               *)

Up(t, n) == {p \in DOMAIN t : n \in ToSet(t[p])}

RECURSIVE Ancestors(_, _)
Ancestors(t, n) == IF Up(t, n) = {} THEN <<>>
                   ELSE LET p == CHOOSE p \in Up(t, n) : TRUE IN <<p>> \o Ancestors(t, p)

Text == -1   \* a node that is no element

Siblings(t, n) == IF Up(t, n) = {} THEN <<n>> ELSE t[CHOOSE p \in Up(t, n) : TRUE]
Elements(s) == SelectSeq(s, LAMBDA n : n # Text)

Before(t, n) == LET all == Elements(Siblings(t, n))
                    at == CHOOSE k \in DOMAIN all : all[k] = n
                IN  Reverse(SubSeq(all, 1, at - 1))

(* What elem[dir] leads to, the nearest first.                             *)
Chain(t, n, dir) == IF dir = "parentNode" THEN Ancestors(t, n) ELSE Before(t, n)

RECURSIVE Descendants(_, _)
Descendants(t, n) == FlattenSeq([k \in DOMAIN Elements(t[n]) |->
                        <<Elements(t[n])[k]>> \o Descendants(t, Elements(t[n])[k])])

-----------------------------------------------------------------------------
(* What is kept.  `run' is dirruns; `outer' outermostContext, Absent for none; *)
(* cache[n][key] the entry an element has, and vals what entries say: the  *)
(* array newCache of one search is shared by all elements it visits.       *)

Absent == [none |-> TRUE]
Everywhere == [everywhere |-> TRUE]   \* outermostContext for the document
Keys == {"parentNode", "previousSibling", "nth", "nth-last"}

Start == [run |-> 0, runs |-> 0, outer |-> Absent, vals |-> <<>>,
          cache |-> [n \in Node \cup {0} |-> [key \in Keys |-> Absent]]]

NewRun(s) == [s EXCEPT !.run = s.runs + 1, !.runs = @ + 1]

(* Mutation: what an earlier run has left counts.                          *)
KnownMut(s, n, key, done) == s.cache[n][key] # Absent /\ s.cache[n][key].done = done

Known(s, n, key, done) ==
  s.cache[n][key] # Absent /\ s.cache[n][key].done = done /\ s.cache[n][key].run = s.run

-----------------------------------------------------------------------------
(* Matching.  Every function returns [v |-> whether it matches, st |-> ...]. *)

RECURSIVE Match(_, _, _, _, _, _), Seek(_, _, _, _, _, _, _, _), Test(_, _, _, _),
          Sizzle(_, _, _, _), Super(_, _, _, _, _, _)

(* The first matcher: whether elem is where the search began.               *)
IsContext(n, ctx) == n = ctx

(* addCombinator for an ancestor or any earlier sibling: along the chain    *)
(* from k, for the tokens to i, or for the context if i is 0.               *)
Seek(t, s, toks, i, chain, k, ctx, new) ==
  LET Said(r) == [v |-> r.v, st |-> [r.st EXCEPT !.vals[new.obj] = r.v]]
      Noted(n) == [s EXCEPT !.cache[n][new.key] =
                     [run |-> new.run, done |-> new.done, obj |-> new.obj]]
      Answer(n, noted) == IF i = 0 THEN [v |-> IsContext(n, ctx), st |-> noted]
                          ELSE Match(t, noted, toks, i, n, ctx)
      GoOn(r) == IF r.v THEN r ELSE Seek(t, r.st, toks, i, chain, k + 1, ctx, new)
      At(n) == IF n = 0 /\ i > 0 THEN [v |-> FALSE, st |-> s]
               ELSE IF Known(s, n, new.key, new.done)
               THEN Said([v |-> s.vals[s.cache[n][new.key].obj], st |-> s])
               ELSE GoOn(Said(Answer(n, Noted(n))))
  IN  IF k > Len(chain) THEN [v |-> FALSE, st |-> s] ELSE At(chain[k])

(* A search along dir for what the tokens to i want.                       *)
Along(t, s, toks, i, e, ctx, rel, done) ==
  LET Nearest(chain) ==
        IF chain = <<>> \/ (chain[1] = 0 /\ i > 0) THEN [v |-> FALSE, st |-> s]
        ELSE IF i = 0 THEN [v |-> IsContext(chain[1], ctx), st |-> s]
        ELSE Match(t, s, toks, i, chain[1], ctx)
      Wherever(chain) ==
        Seek(t, [s EXCEPT !.vals = Append(@, FALSE)], toks, i, chain, 1, ctx,
             [key |-> rel.dir, run |-> s.run, done |-> done, obj |-> Len(s.vals) + 1])
  IN  IF rel.first THEN Nearest(Chain(t, e, rel.dir)) ELSE Wherever(Chain(t, e, rel.dir))

Descendant == [kind |-> "rel", dir |-> "parentNode", first |-> FALSE]

(* matcherFromTokens: element e and the tokens to i, from the right.        *)
Match(t, s, toks, i, e, ctx) ==
  LET token == IF i = 0 THEN Descendant ELSE toks[i]
      GoOn(f) == IF f.v THEN Match(t, f.st, toks, i - 1, e, ctx) ELSE f
  IN  IF i = 0 /\ s.outer # [at |-> ctx] THEN [v |-> TRUE, st |-> s]
      ELSE IF token.kind = "rel"
      THEN Along(t, s, toks, IF i = 0 THEN 0 ELSE i - 1, e, ctx, token, <<toks, i>>)
      ELSE GoOn(Test(t, s, token, e))

(* CHILD: the place of e among its siblings, counted on from the last one   *)
(* that was counted in this run, or kept on every one that was counted.     *)
Count(t, s, e, last) ==
  LET parent == CHOOSE p \in Up(t, e) : TRUE
      all == t[parent]
      at == CHOOSE k \in DOMAIN all : all[k] = e
      Left(i) == Cardinality({k \in i .. Len(all) : all[k] # Text})
      FromEnd ==
        [v |-> Left(at),
         st |-> [s EXCEPT !.cache = [n \in ToSet(SubSeq(all, at, Len(all))) \ {Text} |->
                   [@[n] EXCEPT !["nth-last"] =
                      [run |-> s.run, done |-> "nth-last",
                       diff |-> Left(CHOOSE k \in DOMAIN all : all[k] = n)]]] @@ @]]
      From(old) == old.diff + Cardinality({k \in old.index + 1 .. at : all[k] # Text})
      Kept(diff) == [v |-> diff,
                     st |-> [s EXCEPT !.cache[parent]["nth"] =
                               [run |-> s.run, done |-> "nth", index |-> at, diff |-> diff]]]
  IN  IF last
      THEN IF Known(s, e, "nth-last", "nth-last")
           THEN [v |-> s.cache[e]["nth-last"].diff, st |-> s] ELSE FromEnd
      ELSE Kept(From(IF Known(s, parent, "nth", "nth") /\ s.cache[parent]["nth"].index < at
                     THEN s.cache[parent]["nth"] ELSE [index |-> 0, diff |-> 0]))

Test(t, s, token, e) ==
  IF token.kind = "tag" THEN [v |-> token.name \in {"*", Name[e]}, st |-> s]
  ELSE IF token.kind = "nth"
  THEN LET Holds(d) == IF token.step = 0 THEN d = 0 ELSE d % token.step = 0 /\ d >= 0
           Fits(c) == [v |-> Holds(c.v - token.offset), st |-> c.st]
       IN  IF Up(t, e) = {} THEN [v |-> FALSE, st |-> s] ELSE Fits(Count(t, s, e, token.last))
  ELSE LET Found(r) == [v |-> (r.v # <<>>) = (token.kind = "has"), st |-> r.st]
       IN  Found(IF token.kind = "has" THEN Sizzle(t, s, Selectors[token.sel], e)
                 ELSE Super(t, s, Selectors[token.sel], <<e>>, 0, FALSE))

-----------------------------------------------------------------------------
(* A group with a selector by position: setMatcher.  What stands before it   *)
(* is asked of Sizzle, the positions are kept, the filters that follow are   *)
(* tried, and the rest is asked of Sizzle for each that is left.            *)

Position(toks) == {i \in DOMAIN toks : toks[i].kind = "pos"}
BySet(toks) == Position(toks) # {}

(* What was found so far, with e if r says so, or with what r has found.     *)
Added(acc, e, r) == [v |-> IF r.v THEN Append(acc.v, e) ELSE acc.v, st |-> r.st]
Joined(acc, r) == [v |-> acc.v \o r.v, st |-> r.st]

Set(t, s, toks, ctx) ==
  LET i == CHOOSE i \in Position(toks) : TRUE
      ends == {j \in i + 1 .. Len(toks) : toks[j].kind = "rel"}
      j == IF ends = {} THEN Len(toks) + 1 ELSE CHOOSE j \in ends : \A k \in ends : j <= k
      pre == IF i = 1 THEN <<[kind |-> "tag", name |-> "*"]>> ELSE SubSeq(toks, 1, i - 1)
      post == SubSeq(toks, i + 1, j - 1)
      rest == SubSeq(toks, j, Len(toks))
      Kept(found) == SelectSeq([k \in DOMAIN found |->
                                  IF k \in toks[i].keeps[Len(found)] THEN found[k] ELSE 0],
                               LAMBDA n : n # 0)
      Filtered(found) ==
        IF post = <<>> THEN [v |-> Kept(found.v), st |-> found.st]
        ELSE FoldLeft(LAMBDA acc, e : Added(acc, e, Match(t, acc.st, post, Len(post), e, ctx)),
                      [v |-> <<>>, st |-> found.st], Kept(found.v))
      Below(left) ==
        IF rest = <<>> THEN left
        ELSE FoldLeft(LAMBDA acc, e : Joined(acc, Sizzle(t, acc.st, <<rest>>, e)),
                      [v |-> <<>>, st |-> left.st], left.v)
  IN  Below(Filtered(Sizzle(t, s, <<pre>>, ctx)))

(* uniqueSort.                                                             *)
UniqueSort(t, s) == SelectSeq(Descendants(t, 0), LAMBDA n : n \in ToSet(s))

(* Mutation: the context of the run before is not restored.                *)
RestoreMut(s, outer, run) == [s EXCEPT !.run = run]

Restore(s, outer, run) == [s EXCEPT !.run = run, !.outer = outer]

(* superMatcher: every element of the seed against every group; then the    *)
(* groups by position.  A run within a run has a number of its own, which   *)
(* stays until the outer run has finished with its element.                *)
Super(t, s, groups, seed, ctx, outermost) ==
  LET new == NewRun(s)
      begun == IF outermost
               THEN [new EXCEPT !.outer = IF ctx = 0 THEN Everywhere ELSE [at |-> ctx]] ELSE new
      plain == SelectSeq(Reverse(groups), LAMBDA g : ~ BySet(g))
      sets == SelectSeq(Reverse(groups), BySet)
      TryGroup(r, g, e) == IF r.v THEN r ELSE Match(t, r.st, g, Len(g), e, ctx)
      Tried(st_, e) == FoldLeft(LAMBDA r, g : TryGroup(r, g, e), [v |-> FALSE, st |-> st_], plain)
      Again(r) == IF outermost THEN [r EXCEPT !.st.run = new.run] ELSE r
      ByElement == FoldLeft(LAMBDA acc, e : Added(acc, e, Again(Tried(acc.st, e))),
                            [v |-> <<>>, st |-> begun], IF plain = <<>> THEN <<>> ELSE seed)
      BySets(found) ==
        IF plain # <<>> /\ Len(found.v) = Len(seed) THEN found
        ELSE FoldLeft(LAMBDA acc, g : Joined(acc, Set(t, acc.st, g, ctx)), found, sets)
      Done(before, found) ==
        [v |-> IF outermost /\ Len(found.v) > before /\ before + Len(sets) > 1
               THEN UniqueSort(t, found.v) ELSE found.v,
         st |-> IF outermost THEN Restore(found.st, s.outer, new.run) ELSE found.st]
      Both(found) == Done(Len(found.v), BySets(found))
  IN  Both(ByElement)

(* select: the last tag of a single group, if no position matters and it    *)
(* begins with no combinator, is looked for first and left out of the match; *)
(* siblings make the search begin at the context's parent.                 *)
Sizzle(t, s, groups, ctx) ==
  LET g == groups[1]
      rels == {j \in DOMAIN g : g[j].kind = "rel"}
      tags == {j \in DOMAIN g : g[j].kind = "tag" /\ \A r \in rels : r < j}
      all == Descendants(t, ctx)
      sibling == \E h \in ToSet(groups) : \E j \in DOMAIN h :
                   h[j].kind = "rel" /\ h[j].dir = "previousSibling"
      elems == IF sibling /\ Up(t, ctx) # {}
               THEN Descendants(t, CHOOSE p \in Up(t, ctx) : TRUE) ELSE all
      quick == Len(groups) = 1 /\ ~ BySet(g) /\ g[1].kind # "rel" /\ tags # {}
      j == CHOOSE j \in tags : \A k \in tags : k <= j
      seed == SelectSeq(all, LAMBDA n : g[j].name \in {"*", Name[n]})
      left == SubSeq(g, 1, j - 1) \o SubSeq(g, j + 1, Len(g))
  IN  IF quick /\ (seed = <<>> \/ left = <<>>) THEN [v |-> seed, st |-> s]
      ELSE Super(t, s, IF quick THEN <<left>> ELSE groups, IF quick THEN seed ELSE elems,
                 ctx, TRUE)

-----------------------------------------------------------------------------
Init == /\ tree \in Trees /\ st = Start /\ changed = TRUE
        /\ answer = [sel |-> "", ctx |-> 0, found |-> <<>>]

Find(sel, ctx) ==
  /\ st.runs < MaxRuns
  /\ LET Found(r) == /\ st' = r.st
                     /\ answer' = [sel |-> sel, ctx |-> ctx, found |-> r.v]
     IN  Found(Sizzle(tree, st, Selectors[sel], ctx))
  /\ changed' = FALSE
  /\ UNCHANGED tree

Change ==
  /\ ~ changed /\ st.runs < MaxRuns
  /\ tree' \in Trees \ {tree} /\ changed' = TRUE
  /\ UNCHANGED <<st, answer>>

Next == (\E sel \in Asked, ctx \in Contexts : Find(sel, ctx)) \/ Change

Spec == Init /\ [][Next]_vars

-----------------------------------------------------------------------------
(* What selectors mean, without runs and without anything that is kept.     *)

RECURSIVE Means(_, _, _, _, _), Meant(_, _, _)

Is(t, token, e) ==
  IF token.kind = "tag" THEN token.name \in {"*", Name[e]}
  ELSE IF token.kind = "nth"
  THEN LET all == Elements(Siblings(t, e))
           at == CHOOSE k \in DOMAIN all : all[k] = e
           d == (IF token.last THEN Len(all) + 1 - at ELSE at) - token.offset
       IN  Up(t, e) # {} /\ IF token.step = 0 THEN d = 0 ELSE d >= 0 /\ d % token.step = 0
  ELSE IF token.kind = "has" THEN Meant(t, Selectors[token.sel], e) # {}
  ELSE \A g \in ToSet(Selectors[token.sel]) : ~ Means(t, g, Len(g), e, 0)

(* Whether e stands in the relation rel to n.                              *)
Related(t, rel, e, n) ==
  LET chain == Chain(t, e, rel.dir)
  IN  chain # <<>> /\ (IF rel.first THEN chain[1] = n ELSE n \in ToSet(chain))

Means(t, g, i, e, ctx) ==
  IF i = 0 THEN ctx = 0 \/ ctx \in ToSet(Ancestors(t, e))
  ELSE IF g[i].kind # "rel" THEN Is(t, g[i], e) /\ Means(t, g, i - 1, e, ctx)
  ELSE IF i = 1 THEN Related(t, g[1], e, ctx)
  ELSE \E n \in Node : Related(t, g[i], e, n) /\ Means(t, g, i - 1, n, ctx)

InOrder(t, nodes) == SelectSeq(Descendants(t, 0), LAMBDA n : n \in nodes)

Attached(t) == ToSet(Descendants(t, 0))

Meant(t, groups, ctx) ==
  UNION {IF ~ BySet(g) THEN {e \in Attached(t) : Means(t, g, Len(g), e, ctx)}
         ELSE LET i == CHOOSE i \in Position(g) : TRUE
                  pre == IF i = 1 THEN <<[kind |-> "tag", name |-> "*"]>> ELSE SubSeq(g, 1, i - 1)
                  found == InOrder(t, {e \in Attached(t) : Means(t, pre, Len(pre), e, ctx)})
                  kept == {found[k] : k \in g[i].keeps[Len(found)] \cap DOMAIN found}
                  M[j \in i .. Len(g)] ==
                    IF j = i THEN kept
                    ELSE IF g[j].kind # "rel" THEN {e \in M[j - 1] : Is(t, g[j], e)}
                    ELSE {e \in Attached(t) : \E n \in M[j - 1] : Related(t, g[j], e, n)}
              IN  M[Len(g)]
         : g \in ToSet(groups)}

(* What is found is what the selector means in the page as it is now,       *)
(* whatever earlier runs, and runs within the run, have left on its        *)
(* elements; in the order of the page and once each, but for what follows a *)
(* selector by position, which is looked for from each element it keeps.    *)
FindsMeant ==
  ~ changed =>
    LET groups == Selectors[answer.sel]
        meant == Meant(tree, groups, answer.ctx)
        follows == \E g \in ToSet(groups) : \E i \in Position(g), j \in DOMAIN g :
                     i < j /\ g[j].kind = "rel"
    IN  /\ ToSet(answer.found) = meant
        /\ follows \/ answer.found = InOrder(tree, meant)

(* No run is left under way.                                               *)
RunsEnd == st.outer = Absent
=============================================================================
