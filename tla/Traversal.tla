------------------------------ MODULE Traversal ------------------------------
(***************************************************************************)
(* Collections of elements and the ways from one to the next                *)
(* (jquery-3.2.1.js 143-191, 385-470, 1388-1615, 2809-3242): each call makes  *)
(* a new collection of an old one and of the page as it is, and end() goes   *)
(* back.  Between the calls elements are taken out of the page, and so come  *)
(* to be in trees of their own.                                            *)
(*                                                                         *)
(* A selector is "tag" or "under tag"; how Sizzle finds what one names is    *)
(* in Selectors.  Fragments, iframes and templates are left out.            *)
(***************************************************************************)
EXTENDS Integers, Sequences, SequencesExt, FiniteSets, FiniteSetsExt

CONSTANTS Node,       \* numbers from 1; the document is 0
          Tree,       \* the page at the start: kids[n]
          Name,       \* Name[n]: an element's tag, or "#text"
          Selectors,  \* [tag, under]; under is "" if the selector is simple
          Collections,\* what is given to jQuery and to the methods: sequences
          Removed,    \* the elements that are taken out
          MaxOps

VARIABLES
  tree,
  chain, \* the collections: the last is this, and the one before its prevObject
  last,  \* for the properties: the call that made it; name is "" if the page changed since
  ops

vars == <<tree, chain, last, ops>>

Element(n) == n # 0 /\ Name[n] # "#text"
Elements(s) == SelectSeq(s, Element)

-----------------------------------------------------------------------------
(* The page.                                                               *)
Up(t, n) == {m \in DOMAIN t : n \in ToSet(t[m])}

(* parentNode, then its, and so on.                                        *)
Ancestors(t, n) ==
  LET Of[m \in DOMAIN t] ==
        IF Up(t, m) = {} THEN <<>>
        ELSE LET parent == CHOOSE q \in Up(t, m) : TRUE IN <<parent>> \o Of[parent]
  IN  Of[n]

Descendants(t, n) ==
  LET Of[m \in DOMAIN t] == FlattenSeq([i \in DOMAIN t[m] |-> <<t[m][i]>> \o Of[t[m][i]]])
  IN  Of[n]

Siblings(t, n) == IF Up(t, n) = {} THEN <<n>> ELSE t[CHOOSE m \in Up(t, n) : TRUE]
IndexOf(s, n) == CHOOSE i \in DOMAIN s : s[i] = n
Place(t, n) == IndexOf(Siblings(t, n), n)

(* At most the first k.                                                    *)
Upto(s, k) == SubSeq(s, 1, Min({k, Len(s)}))

(* What comes before the first that stops.                                 *)
Before(s, Stop(_)) == Upto(s, Min({Len(s) + 1} \cup {i \in DOMAIN s : Stop(s[i])}) - 1)

(* What elem[dir], again and again, leads to.                              *)
Along(t, n, dir) ==
  LET Toward(all) == IF dir = "nextSibling" THEN SubSeq(all, IndexOf(all, n) + 1, Len(all))
                     ELSE Reverse(SubSeq(all, 1, IndexOf(all, n) - 1))
  IN  IF dir = "parentNode" THEN Ancestors(t, n) ELSE Toward(Siblings(t, n))

(* Purposefully self-exclusive.                                            *)
contains(t, a, b) == a \in ToSet(Ancestors(t, b))

Root(t, n) == Last(<<n>> \o Ancestors(t, n))

-----------------------------------------------------------------------------
(* sortOrder: below 0 if a comes first, 0 if it cannot be told.  Of nodes    *)
(* that are not connected one in the page comes first.                      *)
sortOrder(t, a, b) ==
  LET Apart(order) == IndexOf(order, a) - IndexOf(order, b)
      Told(ra, rb) == IF ra = rb THEN Apart(<<ra>> \o Descendants(t, ra))
                      ELSE IF ra = 0 THEN -1 ELSE IF rb = 0 THEN 1 ELSE 0
  IN  Told(Root(t, a), Root(t, b))

(* The browser's sort, by insertion: r.seen says whether an element has been *)
(* compared with itself.                                                   *)
Sorted(t, s) ==
  LET Insert(r, n) ==
        LET At(i) == [s |-> SubSeq(r.s, 1, i) \o <<n>> \o SubSeq(r.s, i + 1, Len(r.s)),
                      seen |-> r.seen \/ \E j \in DOMAIN r.s : j >= i /\ r.s[j] = n]
        IN  At(Max({0} \cup {j \in DOMAIN r.s : sortOrder(t, r.s[j], n) <= 0}))
  IN  FoldLeft(Insert, [s |-> <<>>, seen |-> FALSE], s)

uniqueSort(t, s) ==
  LET At(l, places) == [i \in DOMAIN places |-> l[places[i]]]
      Once(l) == At(l, SetToSortSeq({i \in DOMAIN l : i = 1 \/ l[i] # l[i - 1]}, <))
      Done(r) == IF r.seen THEN Once(r.s) ELSE r.s
  IN  Done(Sorted(t, s))

(* What several elements gave is sorted.                                   *)
sortIf(t, many, s) == IF many THEN uniqueSort(t, s) ELSE s

-----------------------------------------------------------------------------
(* matchesSelector, and jQuery.find: what is below n and matches, by        *)
(* elements that are below n too.                                          *)
Matches(t, n, sel) ==
  Element(n) /\ Name[n] = sel.tag
    /\ (sel.under # "" => \E a \in ToSet(Ancestors(t, n)) : Element(a) /\ Name[a] = sel.under)

Find(t, n, sel) ==
  SelectSeq(Descendants(t, n), LAMBDA m :
    Element(m) /\ Name[m] = sel.tag
      /\ (sel.under # "" => \E a \in ToSet(Ancestors(t, m)) :
                              contains(t, n, a) /\ Name[a] = sel.under))

(* jQuery.filter: elements only.                                           *)
filterBy(t, sel, s, not) == SelectSeq(s, LAMBDA n : Element(n) /\ Matches(t, n, sel) # not)

(* winnow: by a function of an element and its index, by elements, or by a  *)
(* selector.  A function's elements may be any nodes.                       *)
winnow(t, s, by, not) ==
  CASE by.kind = "function" ->
         LET kept == SetToSortSeq({i \in DOMAIN s : (i \in by.keeps) # not}, <)
         IN  [i \in DOMAIN kept |-> s[kept[i]]]
    [] by.kind = "elements" -> SelectSeq(s, LAMBDA n : (n \in ToSet(by.of)) # not)
    [] by.kind = "selector" /\ by.of.under = "" -> filterBy(t, by.of, s, not)
    [] by.kind = "selector" /\ by.of.under # "" ->
         LET found == filterBy(t, by.of, s, FALSE)
         IN  SelectSeq(s, LAMBDA n : (n \in ToSet(found)) # not /\ Element(n))

is(t, s, by) == winnow(t, s, by, FALSE) # <<>>

(* jQuery(selector, context) with a selector and with elements.             *)
findIn(t, s, sel) ==
  sortIf(t, Len(s) > 1, FlattenSeq([i \in DOMAIN s |-> Find(t, s[i], sel)]))

init(t, by) == IF by.kind = "selector" THEN findIn(t, <<0>>, by.of) ELSE by.of

find(t, s, by) ==
  IF by.kind = "selector" THEN findIn(t, s, by.of)
  ELSE SelectSeq(by.of, LAMBDA n : \E m \in ToSet(s) : contains(t, m, n))

has(t, s, by) ==
  LET targets == IF by.kind = "selector" THEN findIn(t, s, by.of) ELSE by.of
  IN  SelectSeq(s, LAMBDA n : \E m \in ToSet(targets) : contains(t, n, m))

(* closest: each goes up, to the context at most.                          *)
Nowhere == -1

closest(t, s, by, context) ==
  LET Hit(n) == IF by.kind = "selector" THEN Matches(t, n, by.of) ELSE n \in ToSet(by.of)
      First(n) == Upto(SelectSeq(Before(<<n>> \o Ancestors(t, n), LAMBDA m : m = context), Hit), 1)
      Done(matched) == sortIf(t, Len(matched) > 1, matched)
  IN  Done(FlattenSeq([i \in DOMAIN s |-> First(s[i])]))

add(t, s, more) == uniqueSort(t, s \o more)

-----------------------------------------------------------------------------
(* eq and slice, with places from 0, from the end if below.                 *)
From(s, i) == IF i < 0 THEN i + Len(s) ELSE i
eq(s, i) == IF From(s, i) \in 0 .. Len(s) - 1 THEN <<s[From(s, i) + 1]>> ELSE <<>>
slice(s, i, j) == SubSeq(s, Max({From(s, i), 0}) + 1, Min({From(s, j), Len(s)}))

-----------------------------------------------------------------------------
(* The methods made of a function from an element to elements.  `until' is  *)
(* a filter, or NoBy.                                                      *)
NoBy == [kind |-> "none"]

dir(t, n, which, until) ==
  Before(Elements(Along(t, n, which)), LAMBDA m : until # NoBy /\ is(t, <<m>>, until))

sibling(t, n, which) == Upto(Elements(Along(t, n, which)), 1)

(* The siblings of an element without parent are none.                     *)
siblings(t, n) == IF Up(t, n) = {} THEN <<>>
                  ELSE SelectSeq(Siblings(t, n), LAMBDA m : Element(m) /\ m # n)

Direction(name) ==
  IF name \in {"parents", "parentsUntil"} THEN "parentNode"
  ELSE IF name \in {"next", "nextAll", "nextUntil"} THEN "nextSibling" ELSE "previousSibling"

Until == {"parentsUntil", "nextUntil", "prevUntil"}

Step(t, n, name, until) ==
  CASE name = "parent" -> IF Up(t, n) = {} THEN <<>> ELSE <<CHOOSE m \in Up(t, n) : TRUE>>
    [] name \in {"parents", "nextAll", "prevAll"} \cup Until -> dir(t, n, Direction(name), until)
    [] name \in {"next", "prev"} -> sibling(t, n, Direction(name))
    [] name = "siblings" -> siblings(t, n)
    [] name = "children" -> Elements(t[n])
    [] name = "contents" -> t[n]

Names == {"parent", "parents", "next", "prev", "nextAll", "prevAll", "siblings", "children",
          "contents"} \cup Until
rparentsprev == {"parents", "parentsUntil", "prevAll", "prevUntil"}

(* Mutation: an element has one parent, so parents are taken to be unique.  *)
guaranteedUniqueMut == {"children", "contents", "next", "prev", "parent"}

guaranteedUnique == {"children", "contents", "next", "prev"}

(* jQuery.map puts together what each gives.                               *)
mapped(t, s, name, until) == FlattenSeq([i \in DOMAIN s |-> Step(t, s[i], name, until)])

walk(t, s, name, until, selector) ==
  LET Left(all) == IF selector = NoBy THEN all ELSE filterBy(t, selector.of, all, FALSE)
      Turned(l) == IF Len(s) > 1 /\ name \in rparentsprev THEN Reverse(l) ELSE l
  IN  Turned(sortIf(t, Len(s) > 1 /\ name \notin guaranteedUnique, Left(mapped(t, s, name, until))))

(* The place among the element's siblings; -1 without a parent.             *)
index(t, s) ==
  IF s = <<>> \/ Up(t, s[1]) = {} THEN -1 ELSE Len(Step(t, s[1], "prevAll", NoBy))

-----------------------------------------------------------------------------
Init ==
  /\ tree = Tree
  /\ chain \in {<<s>> : s \in Collections}
  /\ last = [name |-> ""]
  /\ ops = 0

this == Last(chain)

(* pushStack.                                                              *)
Push(s, call) ==
  /\ ops < MaxOps /\ ops' = ops + 1
  /\ chain' = Append(chain, s) /\ last' = call
  /\ UNCHANGED tree

By == {[kind |-> "selector", of |-> sel] : sel \in Selectors}
        \cup {[kind |-> "elements", of |-> s] : s \in Collections}

Walk == \E name \in Names :
  \E until \in IF name \in Until THEN By ELSE {NoBy},
     selector \in {NoBy} \cup {by \in By : by.kind = "selector"} :
    Push(walk(tree, this, name, until, selector),
         [name |-> name, until |-> until, selector |-> selector])

Filter == \E by \in By \cup {[kind |-> "function", keeps |-> {1, 3}]}, not \in BOOLEAN :
  Push(winnow(tree, this, by, not), [name |-> IF not THEN "not" ELSE "filter", by |-> by])

FindBy == \E by \in By :
  \/ Push(find(tree, this, by), [name |-> "find", by |-> by])
  \/ Push(has(tree, this, by), [name |-> "has", by |-> by])
  \/ \E context \in {Nowhere, 2} :
       Push(closest(tree, this, by, context), [name |-> "closest", by |-> by, context |-> context])

Add ==
  \/ \E by \in By : Push(add(tree, this, init(tree, by)), [name |-> "add", by |-> by])
  \/ /\ Len(chain) > 1
     /\ \E by \in By \cup {NoBy} :
          LET before == chain[Len(chain) - 1]
          IN  Push(add(tree, this, IF by = NoBy THEN before ELSE winnow(tree, before, by, FALSE)),
                   [name |-> "addBack", by |-> by])

Cut ==
  \/ \E i \in {0, -1} : Push(eq(this, i), [name |-> "eq"])
  \/ \E i \in {-2, 1} : Push(slice(this, i, 2), [name |-> "slice"])

End ==
  /\ ops < MaxOps /\ ops' = ops + 1
  /\ chain' = IF Len(chain) > 1 THEN Front(chain) ELSE <<<<>>>>
  /\ last' = [name |-> ""] /\ UNCHANGED tree

(* Somebody takes an element out of the page.                              *)
TakeOut(n) ==
  /\ Up(tree, n) # {}
  /\ tree' = [tree EXCEPT ![CHOOSE m \in Up(tree, n) : TRUE] = SelectSeq(@, LAMBDA m : m # n)]
  /\ last' = [name |-> ""] /\ UNCHANGED <<chain, ops>>

Next == Walk \/ Filter \/ FindBy \/ Add \/ Cut \/ End \/ \E n \in Removed : TakeOut(n)

Spec == Init /\ [][Next]_vars

-----------------------------------------------------------------------------
(* What the calls mean, told without walks.                                *)
Sat(by, n) == IF by.kind = "selector" THEN Matches(tree, n, by.of) ELSE n \in ToSet(by.of)

Nodes == {0} \cup Node

(* b is beyond a in a direction.                                           *)
Beyond(name, a, b) ==
  /\ Element(b)
  /\ CASE Direction(name) = "parentNode" -> contains(tree, b, a)
       [] Direction(name) = "nextSibling" ->
            Up(tree, a) = Up(tree, b) /\ Up(tree, a) # {} /\ Place(tree, b) > Place(tree, a)
       [] Direction(name) = "previousSibling" ->
            Up(tree, a) = Up(tree, b) /\ Up(tree, a) # {} /\ Place(tree, b) < Place(tree, a)

Reaches(call, a, b) ==
  CASE call.name \in {"parents", "nextAll", "prevAll"} -> Beyond(call.name, a, b)
    [] call.name \in {"next", "prev"} ->
         Beyond(call.name, a, b)
           /\ ~ \E c \in Node : Beyond(call.name, a, c) /\ Beyond(call.name, c, b)
    [] call.name \in Until ->
         Beyond(call.name, a, b)
           /\ \A c \in Node : Beyond(call.name, a, c) /\ (c = b \/ Beyond(call.name, c, b))
                                => ~ Sat(call.until, c)
    [] call.name = "parent" -> b \in Up(tree, a)
    [] call.name = "siblings" ->
         Element(b) /\ a # b /\ Up(tree, a) = Up(tree, b) /\ Up(tree, a) # {}
    [] call.name = "children" -> Element(b) /\ a \in Up(tree, b)
    [] call.name = "contents" -> a \in Up(tree, b)

(* The nearest that satisfies, and none above the context.                  *)
Closest(call, a, b) ==
  LET Hit(c) == (c = a \/ contains(tree, c, a)) /\ Sat(call.by, c)
  IN  /\ Hit(b) /\ ~ \E c \in Nodes : Hit(c) /\ contains(tree, b, c)
      /\ call.context \in Nodes => ~ (b = call.context \/ (contains(tree, b, call.context)
            /\ (a = call.context \/ contains(tree, call.context, a))))

FoundIn(s, by) ==
  IF by.kind = "elements" THEN {b \in ToSet(by.of) : \E a \in ToSet(s) : contains(tree, a, b)}
  ELSE {b \in Node : \E a \in ToSet(s) :
          /\ contains(tree, a, b) /\ Name[b] = by.of.tag
          /\ by.of.under # "" =>
               \E c \in Node : Name[c] = by.of.under /\ contains(tree, a, c) /\ contains(tree, c, b)}

Meant(call, s) ==
  LET among == ToSet(s)
  IN  CASE call.name \in Names ->
             {b \in Nodes : /\ \E a \in among : Reaches(call, a, b)
                            /\ call.selector # NoBy => Sat(call.selector, b)}
        [] call.name = "find" -> FoundIn(s, call.by)
        [] call.name = "has" ->
             {a \in among : \E b \in IF call.by.kind = "selector" THEN FoundIn(s, call.by)
                                       ELSE ToSet(call.by.of) : contains(tree, a, b)}
        [] call.name = "closest" -> {b \in Nodes : \E a \in among : Closest(call, a, b)}
        [] call.name = "filter" -> {a \in among : Sat(call.by, a)}
        [] call.name = "not" ->
             {a \in among : ~ Sat(call.by, a) /\ (call.by.kind = "selector" => Element(a))}
        [] call.name = "add" ->
             among \cup (IF call.by.kind = "selector" THEN FoundIn(<<0>>, call.by)
                        ELSE ToSet(call.by.of))

Unique(s) == Cardinality(ToSet(s)) = Len(s)

(* All but one tree at most are trees of one of the nodes.                  *)
Sortable(s) == Cardinality({Root(tree, n) : n \in ToSet(s)} \ {0}) <= 1

InOrder(s) == \A i, j \in DOMAIN s : i < j => sortOrder(tree, s[i], s[j]) < 0

(* A call finds what it means in the page as it is.  What several elements   *)
(* reach is there once and in the order of the page, in reverse for the     *)
(* methods that go up or back, unless it belongs to several trees out of    *)
(* the page; children and neighbours are there once if what they are sought *)
(* of are elements and there once.                                         *)
SetsMeant ==
  last.name \notin {"", "eq", "slice", "addBack"} =>
    LET s == chain[Len(chain) - 1]
        sorted == (Names \ guaranteedUnique) \cup {"closest", "add"}
    IN  /\ (last.name \in {"filter", "not"} => last.by.kind # "function")
             => ToSet(this) = Meant(last, s)
        /\ last.name \in sorted /\ Sortable(this) =>
             InOrder(IF last.name \in rparentsprev THEN Reverse(this) ELSE this)
        /\ last.name = "find" /\ last.by.kind = "selector" /\ Sortable(this) => InOrder(this)
        /\ last.name \in guaranteedUnique /\ Unique(s) /\ (\A n \in ToSet(s) : n = 0 \/ Element(n))
             => Unique(this)

(* addBack has the collection's elements and those of the one before.       *)
GoesBack ==
  last.name = "addBack" =>
    ToSet(this) = ToSet(chain[Len(chain) - 1]) \cup
      {n \in ToSet(chain[Len(chain) - 2]) : last.by = NoBy \/ Sat(last.by, n)}

(* index is the place at which children finds an element.                  *)
IndexIsPlace ==
  (this # <<>> /\ Element(this[1]) /\ Up(tree, this[1]) # {}) =>
    Elements(Siblings(tree, this[1]))[index(tree, this) + 1] = this[1]
=============================================================================
