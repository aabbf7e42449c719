------------------------------ MODULE Elements ------------------------------
(***************************************************************************)
(* What jQuery does with elements and with what it keeps about them         *)
(* (jquery-3.2.1.js 4015-4351, 4725-4853, 5645-6067, 9348-9412): data and   *)
(* functions bound to an element, content moved, copied, wrapped and taken  *)
(* away, and scripts that are run when they come into the page.            *)
(*                                                                         *)
(* Text, comments and fragments of other documents are left out; so are    *)
(* calls the DOM refuses, which put an element into itself, and what a      *)
(* function given in place of a value computes.                            *)
(***************************************************************************)
EXTENDS Naturals, Sequences, SequencesExt, FiniteSets, FiniteSetsExt

CONSTANTS Node,    \* a set of numbers
          Pages,   \* pages at the start: kids[n] of the root 0 and of nodes, and text
          Content, \* what calls may be given: sequences of nodes
          Made,    \* what HTML may say: the texts of the elements it makes
          MaxOps,  \* bound on the calls
          None

VARIABLES
  p,     \* kids; text: what a script says, "" if it is none, None if not made;
         \* priv: the private data, events and globalEval; user: a value of data;
         \* listening: nodes with a listener of the browser; ran: scripts the call has
         \* run; from: what the call has made a copy of, 0 if none
  ops,
  due,   \* for the properties: the functions and the data each node should have
  spent, \* for the properties: scripts that have run, or are copies of such
  lost,  \* for the properties: copies in the page of a script that came not into it
  again  \* for the properties: scripts that were run though spent

vars == <<p, ops, due, spent, lost, again>>

(* Nothing private.                                                        *)
Bare == [events |-> {}, globalEval |-> "none"]

-----------------------------------------------------------------------------
(* The tree.                                                               *)
Parents(s, n) == {m \in {0} \cup Node : n \in ToSet(s.kids[m])}
Parent(s, n) == CHOOSE m \in Parents(s, n) : TRUE

(* getAll: a node and all below it, in the order of the page.               *)
getAll(s, n) ==
  LET All[m \in {0} \cup Node] ==
        <<m>> \o FlattenSeq([i \in DOMAIN s.kids[m] |-> All[s.kids[m][i]]])
  IN  All[n]

Below(s, n) == ToSet(getAll(s, n))
InPage(s, n) == n \in Below(s, 0)
Scripts(s, n) == SelectSeq(getAll(s, n), LAMBDA m : m # 0 /\ s.text[m] # "")

(* removeChild, and an insertion before place i.                            *)
Out(s, n) ==
  IF Parents(s, n) = {} THEN s
  ELSE [s EXCEPT !.kids[Parent(s, n)] = SelectSeq(@, LAMBDA m : m # n)]

PutAt(s, m, i, nodes) ==
  [s EXCEPT !.kids[m] = SubSeq(@, 1, i - 1) \o nodes \o SubSeq(@, i, Len(@))]

(* Nodes put beside one that has a parent, at i places from it.             *)
Beside(s, n, i, nodes) ==
  LET Among(m) == PutAt(s, m, i + (CHOOSE j \in DOMAIN s.kids[m] : s.kids[m][j] = n), nodes)
  IN  IF Parents(s, n) = {} THEN s ELSE Among(Parent(s, n))

-----------------------------------------------------------------------------
(* Data.                                                                   *)
setGlobalEval(s, nodes, value) ==
  [s EXCEPT !.priv = [n \in ToSet(nodes) |-> [s.priv[n] EXCEPT !.globalEval = value[n]]] @@ @]

AllRun == [n \in Node |-> "yes"]

(* Mutation: an element is forgotten, and what it contains is not.         *)
AllOfMut(s, n) == {n}

AllOf(s, n) == Below(s, n)

(* cleanData: the listeners go, and all the data.                          *)
cleanData(s, nodes) ==
  [s EXCEPT !.priv = [n \in nodes |-> Bare] @@ @, !.user = [n \in nodes |-> None] @@ @,
            !.listening = @ \ nodes]

(* cloneCopyEvent: the functions are bound to the copy anew.                *)
cloneCopyEvent(s, src, dest) ==
  [s EXCEPT !.priv[dest] = s.priv[src],
            !.user[dest] = s.user[src],
            !.listening = IF s.priv[src].events = {} THEN @ ELSE @ \cup {dest}]

-----------------------------------------------------------------------------
(* jQuery.clone: copies are made of nodes that are not used yet, in order.   *)
Free(s) == SetToSortSeq({n \in Node : s.text[n] = None}, <)

cloneNode(s, all, copies) ==
  LET Kids(source, c) == SelectSeq(copies, LAMBDA d : source[d] \in ToSet(s.kids[source[c]]))
      Copied(source) == [s EXCEPT !.kids = [c \in ToSet(copies) |-> Kids(source, c)] @@ @,
                                  !.text = [c \in ToSet(copies) |-> s.text[source[c]]] @@ @,
                                  !.from = source @@ @]
  IN  Copied([c \in ToSet(copies) |-> all[CHOOSE i \in DOMAIN copies : copies[i] = c]])

(* The copy of n is the first of the nodes that were free.  Its scripts     *)
(* take over whether they have run; those of the page have.                *)
(* Mutation: the scripts of a copy are new.                                *)
EvalOfMut(s, m, inPage) == "none"

EvalOf(s, m, inPage) == IF inPage THEN "yes" ELSE s.priv[m].globalEval

clone(s, n, dataAndEvents, deepDataAndEvents) ==
  LET Depth(all) == IF ~ dataAndEvents THEN 0 ELSE IF deepDataAndEvents THEN Len(all) ELSE 1
      Marked(t, copies) ==
        setGlobalEval(t, SelectSeq(copies, LAMBDA m : t.text[m] # ""),
                     [m \in ToSet(copies) |-> EvalOf(s, t.from[m], InPage(s, n))])
      Filled(all, copies) ==
        Marked(FoldLeft(LAMBDA t, i : cloneCopyEvent(t, all[i], copies[i]),
                        cloneNode(s, all, copies), [i \in 1 .. Depth(all) |-> i]),
               copies)
      CopyOf(all) == Filled(all, SubSeq(Free(s), 1, Len(all)))
  IN  CopyOf(getAll(s, n))

Room(s, n) == Cardinality({m \in Node : s.text[m] = None}) >= Cardinality(Below(s, n))

-----------------------------------------------------------------------------
(* buildFragment: the nodes leave their places, except those among the      *)
(* targets; scripts of the page have run.                                  *)
buildFragment(s, nodes) ==
  FoldLeft(LAMBDA t, n :
             Out(IF InPage(t, n) THEN setGlobalEval(t, Scripts(t, n), AllRun) ELSE t, n),
           s, nodes)

(* The four ways to put nodes at a target, and replaceWith's.  Next to a    *)
(* target without parent nothing is put.                                   *)
Put(s, how, target, nodes, ignored) ==
  CASE how = "append" -> PutAt(s, target, Len(s.kids[target]) + 1, nodes)
    [] how = "prepend" -> PutAt(s, target, 1, nodes)
    [] how \in {"before", "after"} ->
         Beside(s, target, IF how = "before" THEN 0 ELSE 1, nodes)
    [] how = "replaceWith" ->
         IF target \in ignored THEN s
         ELSE Out(Beside(cleanData(s, AllOf(s, target)), target, 0, nodes), target)

(* The scripts among nodes that have not run and are in the page now.       *)
Eval(s, nodes) ==
  FoldLeft(LAMBDA t, n : IF t.priv[n].globalEval # "yes" /\ InPage(t, n)
                         THEN [t EXCEPT !.ran = Append(@, n)] ELSE t,
           s, FlattenSeq([i \in DOMAIN nodes |-> Scripts(s, nodes[i])]))

(* The page with copies of nodes, and the copies.                          *)
Copies(s, nodes) ==
  FoldLeft(LAMBDA c, n : <<clone(c[1], n, TRUE, TRUE), Append(c[2], Head(Free(c[1])))>>,
           <<s, <<>>>>, nodes)

(* What target i is given: all but the last are given copies.               *)
Given(s, nodes, targets, i) == IF i = Len(targets) THEN <<s, nodes>> ELSE Copies(s, nodes)

domManip(s, targets, nodes, how) ==
  LET Each(g, i) == Put(g[1], how, targets[i], g[2], ToSet(nodes) \cap ToSet(targets))
      Done(moved) ==
        IF targets = <<>> \/ (moved = <<>> /\ how # "replaceWith") THEN s
        ELSE Eval(FoldLeft(LAMBDA t, i : Each(Given(t, moved, targets, i), i),
                           buildFragment(s, moved), [i \in DOMAIN targets |-> i]), moved)
  IN  Done(SelectSeq(nodes, LAMBDA n : n \notin ToSet(targets)))

(* appendTo and the others: each target has a call of its own.             *)
Original(how) == CASE how = "appendTo" -> "append" [] how = "insertBefore" -> "before"
                   [] how = "replaceAll" -> "replaceWith"

PutTo(s, nodes, how, targets) ==
  LET Each(g, i) == domManip(g[1], <<targets[i]>>, g[2], Original(how))
  IN  FoldLeft(LAMBDA t, i : Each(Given(t, nodes, targets, i), i), s, [i \in DOMAIN targets |-> i])

(* remove and detach.                                                      *)
remove(s, nodes, keepData) ==
  FoldLeft(LAMBDA t, n :
             Out(IF ~ keepData THEN cleanData(t, AllOf(t, n))
                 ELSE IF InPage(t, n) THEN setGlobalEval(t, Scripts(t, n), AllRun) ELSE t, n),
           s, nodes)

empty(s, nodes) ==
  FoldLeft(LAMBDA t, n : [cleanData(t, AllOf(t, n) \ {n}) EXCEPT !.kids[n] = <<>>], s, nodes)

(* Elements made of HTML, one for each text.                               *)
Parsed(s, texts) ==
  LET Told(new) ==
        <<[s EXCEPT !.text =
             [n \in ToSet(new) |-> texts[CHOOSE i \in DOMAIN new : new[i] = n]] @@ @], new>>
  IN  Told(SubSeq(Free(s), 1, Len(texts)))

(* html with a string: with a script in it, or with several elements given  *)
(* the same, this is empty and append.                                     *)
html(s, nodes, texts) ==
  LET Filled(new) == domManip(new[1], nodes, new[2], "append")
  IN  Filled(Parsed(empty(s, nodes), texts))

(* wrapAll: a copy of the wrapping comes before the first, and all go into   *)
(* its innermost element.                                                  *)
Innermost(s, n) == LET In[m \in Node] == IF s.kids[m] = <<>> THEN m ELSE In[s.kids[m][1]] IN In[n]

wrapAll(s, nodes, w) ==
  LET Before(copied, wrap) == IF Parents(s, nodes[1]) = {} THEN copied
                              ELSE PutTo(copied, <<wrap>>, "insertBefore", <<nodes[1]>>)
      Into(t, wrap) == domManip(t, <<Innermost(t, wrap)>>, nodes, "append")
      Around(copied, wrap) == Into(Before(copied, wrap), wrap)
  IN  Around(clone(s, w, TRUE, TRUE), Head(Free(s)))

unwrap(s, n) ==
  IF Parents(s, n) \subseteq {0} THEN s
  ELSE domManip(s, <<Parent(s, n)>>, s.kids[Parent(s, n)], "replaceWith")

-----------------------------------------------------------------------------
Init ==
  /\ \E start \in Pages :
       p = [kids |-> start.kids, text |-> start.text, ran |-> <<>>, listening |-> {},
            from |-> [n \in Node |-> 0], priv |-> [n \in Node |-> Bare], user |-> [n \in Node |-> None]]
  /\ ops = 0
  /\ due = [n \in Node |-> [events |-> {}, user |-> None]]
  /\ spent = ToSet(Scripts(p, 0)) /\ lost = {} /\ again = {}

(* A call makes t of the page, and is to forget what it keeps of `taken';   *)
(* the copies for which `with' holds come with what their sources have.     *)
Call(t, taken, with) ==
  LET made == {n \in Node : p.text[n] = None /\ t.text[n] # None}
      copies == {n \in made : t.from[n] # 0}
      old(n) == copies \cap {n} # {} /\ t.from[n] \notin made
      nothing == [events |-> {}, user |-> None]
      hasRun == (spent \ taken) \cup (ToSet(t.ran) \ (taken \cap made))
  IN  /\ ops < MaxOps /\ ops' = ops + 1
      /\ p' = [t EXCEPT !.ran = <<>>, !.from = [n \in Node |-> 0]]
      /\ due' = [n \in taken |-> nothing]
                @@ [n \in made |-> IF old(n) /\ n \in with THEN due[t.from[n]] ELSE nothing]
                @@ due
      /\ spent' = hasRun \cup
           {n \in copies \ taken : t.from[n] \in spent \/ (t.from[n] \in ToSet(t.ran) /\ InPage(t, n))}
      /\ lost' = (lost \ taken) \cup
           {n \in copies : t.from[n] \in lost
              \/ (t.text[n] # "" /\ t.from[n] \notin hasRun /\ InPage(t, n) /\ ~ InPage(t, t.from[n]))}
      /\ again' = {n \in ToSet(t.ran) \ taken : n \in spent \/ (n \in copies /\ t.from[n] \in spent)}

There(nodes) == \A n \in ToSet(nodes) : p.text[n] # None
All(nodes) == UNION {Below(p, n) : n \in ToSet(nodes)}

(* The DOM refuses to put an element into itself.                          *)
Fits(nodes, targets) == ToSet(targets) \cap (All(nodes) \ ToSet(nodes)) = {}
                          /\ \A n \in ToSet(nodes) \ ToSet(targets) : Below(p, n) \cap ToSet(targets) = {}

(* Copies that one target was replaced with go with the next.              *)
Gone(t, targets) == UNION {Below(t, n) : n \in ToSet(targets)} \cap {n \in Node : p.text[n] = None}

Insert(how, targets, nodes) ==
  LET left == SelectSeq(targets, LAMBDA n : n \notin ToSet(nodes))
      moved == SelectSeq(nodes, LAMBDA n : n \notin ToSet(targets))
      Taken(t) == IF how = "replaceWith" THEN (All(left) \ All(moved)) \cup Gone(t, left) ELSE {}
      Done(t) == Call(t, Taken(t), Node)
  IN  /\ There(targets) /\ There(nodes) /\ Fits(nodes, targets)
      /\ Cardinality(All(nodes)) * (Len(targets) - 1) <= Len(Free(p))
      /\ Done(domManip(p, targets, nodes, how))

InsertTo(how, nodes, targets) ==
  LET Taken(t) == IF how = "replaceAll"
                  THEN All(Front(targets)) \cup (All(targets) \ All(nodes)) \cup Gone(t, targets)
                  ELSE {}
      Done(t) == Call(t, Taken(t), Node)
  IN  /\ There(targets) /\ There(nodes) /\ All(nodes) \cap ToSet(targets) = {}
      /\ Len(FlattenSeq([i \in DOMAIN nodes |-> getAll(p, nodes[i])])) * (Len(targets) - 1)
           <= Len(Free(p))
      /\ Done(PutTo(p, nodes, how, targets))

TakeAway(nodes) == There(nodes) /\ Call(remove(p, nodes, FALSE), All(nodes), {})
Detach(nodes) == There(nodes) /\ Call(remove(p, nodes, TRUE), {}, {})

Html(nodes, texts) ==
  /\ There(nodes) /\ Len(texts) * Len(nodes) <= Len(Free(p))
  /\ Call(html(p, nodes, texts), UNION {Below(p, n) \ {n} : n \in ToSet(nodes)}, {})

Clone(n, dataAndEvents, deepDataAndEvents) ==
  /\ There(<<n>>) /\ Room(p, n)
  /\ Call(clone(p, n, dataAndEvents, deepDataAndEvents), {},
          IF ~ dataAndEvents THEN {} ELSE IF deepDataAndEvents THEN Node ELSE {Head(Free(p))})

Wrap(nodes, w) ==
  /\ There(nodes) /\ There(<<w>>) /\ Room(p, w) /\ All(<<w>>) \cap All(nodes) = {}
  /\ nodes[1] \notin All(Tail(nodes))
  /\ Call(wrapAll(p, nodes, w), {}, Node)

Unwrap(n) == There(<<n>>) /\ Call(unwrap(p, n), Parents(p, n) \ {0}, {})

-----------------------------------------------------------------------------
(* on and off, data with a value, with a key only, and removeData.  What an *)
(* attribute says is read once and kept.                                   *)
Keep(n, t, d) ==
  /\ There(<<n>>) /\ ops < MaxOps /\ ops' = ops + 1
  /\ p' = t /\ due' = [due EXCEPT ![n] = d]
  /\ again' = {} /\ UNCHANGED <<spent, lost>>

On(n) ==
  Keep(n, [p EXCEPT !.priv[n].events = {"f"}, !.listening = @ \cup {n}],
       [due[n] EXCEPT !.events = {"f"}])

Off(n) ==
  Keep(n, [p EXCEPT !.priv[n].events = {}, !.listening = @ \ {n}], [due[n] EXCEPT !.events = {}])

Data(n) == Keep(n, [p EXCEPT !.user[n] = "value"], [due[n] EXCEPT !.user = "value"])

dataAttr(n) ==
  /\ p.user[n] = None
  /\ Keep(n, [p EXCEPT !.user[n] = "attribute"], [due[n] EXCEPT !.user = "attribute"])

removeData(n) == Keep(n, [p EXCEPT !.user[n] = None], [due[n] EXCEPT !.user = None])

Next ==
  \/ \E targets, nodes \in Content :
       \/ \E how \in {"append", "prepend", "before", "after", "replaceWith"} :
            Insert(how, targets, nodes)
       \/ \E how \in {"appendTo", "insertBefore", "replaceAll"} : InsertTo(how, nodes, targets)
  \/ \E nodes \in Content :
       \/ TakeAway(nodes) \/ Detach(nodes) \/ (\E w \in Node : Wrap(nodes, w))
       \/ \E texts \in Made : Html(nodes, texts)
  \/ \E n \in Node :
       \/ Unwrap(n) \/ On(n) \/ Off(n) \/ Data(n) \/ dataAttr(n) \/ removeData(n)
       \/ \E deep \in BOOLEAN : Clone(n, TRUE, deep) \/ (~ deep /\ Clone(n, FALSE, FALSE))

Spec == Init /\ [][Next]_vars

-----------------------------------------------------------------------------
(* An element has the functions and the data it was given, or its source,   *)
(* wherever it has been moved; one that was taken away has none, and the   *)
(* browser calls jQuery for just the elements with functions.              *)
DataKept ==
  \A n \in Node :
    /\ p.priv[n].events = due[n].events /\ p.user[n] = due[n].user
    /\ n \in p.listening <=> due[n].events # {}

(* An element is in one place.                                             *)
OnePlace ==
  \A n \in Node : LET at == {m \in {0} \cup Node : n \in ToSet(p.kids[m])}
                  IN  /\ Cardinality(at) <= 1 /\ (p.text[n] = None => at = {})
                      /\ \A m \in at : Cardinality({i \in DOMAIN p.kids[m] : p.kids[m][i] = n}) = 1

(* A script that is in the page has run, or its source has when both were   *)
(* put there; none runs a second time, nor does a copy of it, unless it was *)
(* taken away before.                                                      *)
ScriptsRun ==
  /\ \A n \in ToSet(Scripts(p, 0)) : n \in spent \cup lost
  /\ again = {}
=============================================================================
