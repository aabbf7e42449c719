-------------------------------- MODULE Forms --------------------------------
(***************************************************************************)
(* Attributes, properties, classes and values (jquery-3.2.1.js 3957-4014,    *)
(* 7486-8101), what a form is serialized to (8378-8493), and data with the   *)
(* attributes that tell of it (4089-4126, 4195-4351): a form with boxes, a   *)
(* text and selects, which the user fills in while the page's scripts set,  *)
(* read and disable its parts.                                             *)
(*                                                                         *)
(* What the browser does of itself is modelled as HTML defines it: an       *)
(* attribute is the default of what the user has not changed, one radio of  *)
(* a group is checked, and a select for one option never has none but by    *)
(* selectedIndex.  All radios are of one group.  What a function given in   *)
(* place of a value computes is left out.                                  *)
(***************************************************************************)
EXTENDS Integers, Sequences, SequencesExt, FiniteSets, TLC

CONSTANTS Control, \* the controls, in the order of the page
          Kind,    \* Kind[e]: "text", "checkbox", "radio", "select" or "multiple"
          Options, \* Options[e]: the options of a select
          Says,    \* Says[x]: what the page wrote as the value of an option or a box
          Holder,  \* Holder[x]: the optgroup or fieldset x is in, None if none
          Start,   \* Start: the boxes that are checked at the start
          Sets,    \* calls are made of these sequences of controls or options
          Values,  \* values: [array, of], one string or an array of some
          Styled,  \* elements with classes
          Written, \* the class attributes they may start with
          Classes, \* what the calls name: sequences of classes
          Legends, \* what is in the first legend of the fieldset it is in
          Params,  \* what param is given
          Owners,  \* elements with data
          Camel,   \* Camel[name]: the key that a name of data stands for
          Dashed,  \* Dashed[key]: the name of the attribute that tells of it
          Marks,   \* what such attributes are called in the page
          Texts,   \* and what they say
          Numbers, \* the texts a number reads as
          Braces,  \* texts in braces or brackets
          Json,    \* those that are well formed
          Things,  \* what the page's scripts keep
          MaxOps,  \* bound on what the user and the page do
          None

Boxes == {e \in ToSet(Control) : Kind[e] \in {"checkbox", "radio"}}
Selects == {e \in ToSet(Control) : Kind[e] \in {"select", "multiple"}}
OptionSet == UNION {ToSet(Options[e]) : e \in Selects}
Parent(o) == CHOOSE e \in Selects : o \in ToSet(Options[e])

VARIABLES
  f,    \* the form: attrs, pairs of an element and a boolean attribute it has;
        \* dirty: changed otherwise than by an attribute; checked, selected, value
  c,    \* c[e]: class, the attribute's, and saved, of __className__
  d,    \* d[e]: attrs, texts by names; cache, of the user's data, values by keys;
        \* hasDataAttrs, of the private data
  ops,
  last, \* for the properties: the control val was called for last, and the value
  want, \* for the properties: the classes e should have, and those put away
  told  \* for the properties: told[e]: values by the keys that were given them or
        \* asked for since they were removed, and the keys data() has told of

vars == <<f, c, d, ops, last, want, told>>

-----------------------------------------------------------------------------
(* The browser.                                                            *)
Disabled(s, x) == <<x, "disabled">> \in s.attrs

(* By itself, or by what it is in, but for a fieldset's legend.             *)
Withheld(s, x) ==
  Disabled(s, x) \/ (Holder[x] # None /\ x \notin Legends /\ Disabled(s, Holder[x]))

check(s, e, b) ==
  LET others == IF b /\ Kind[e] = "radio" THEN {x \in Boxes : Kind[x] = "radio"} ELSE {}
  IN  [s EXCEPT !.checked = IF b THEN (@ \ others) \cup {e} ELSE @ \ {e}]

(* With nothing selected, a select for one shows the first it may.          *)
Settle(s, e) ==
  LET free == SelectSeq(Options[e], LAMBDA o : ~ Withheld(s, o))
  IN  IF Kind[e] = "multiple" \/ ToSet(Options[e]) \cap s.selected # {} \/ free = <<>> THEN s
      ELSE [s EXCEPT !.selected = @ \cup {Head(free)}]

select(s, o, b) ==
  LET e == Parent(o)
      others == IF b /\ Kind[e] = "select" THEN ToSet(Options[e]) ELSE {}
  IN  Settle([s EXCEPT !.selected = IF b THEN (@ \ others) \cup {o} ELSE @ \ {o}], e)

Assign(s, x, name, b) ==
  CASE name = "checked" -> check(s, x, b)
    [] name = "selected" -> select(s, x, b)
    [] name = "disabled" -> s

setAttribute(s, x, name, b) ==
  LET t == [s EXCEPT !.attrs = IF b THEN @ \cup {<<x, name>>} ELSE @ \ {<<x, name>>}]
  IN  IF x \in s.dirty THEN t ELSE Assign(t, x, name, b)

Property(s, x, name) ==
  CASE name = "checked" -> x \in s.checked
    [] name = "selected" -> x \in s.selected
    [] name = "disabled" -> Disabled(s, x)

SetProperty(s, x, name, b) ==
  IF name = "disabled" THEN setAttribute(s, x, name, b)
  ELSE Assign([s EXCEPT !.dirty = @ \cup {x}], x, name, b)

(* The names an element of a collection has a property of.                 *)
Has(x, name) ==
  CASE name = "checked" -> x \in Boxes
    [] name = "selected" -> x \in OptionSet
    [] name = "disabled" -> TRUE

-----------------------------------------------------------------------------
(* attr and prop with true, false, and with a function, which is given what  *)
(* there is when its element's turn comes: "not" turns it round.            *)
Given(value, old) == IF value = "not" THEN ~ old ELSE value = "true"

attr(s, elems, name, value) ==
  FoldLeft(LAMBDA t, x : setAttribute(t, x, name, Given(value, <<x, name>> \in t.attrs)), s, elems)

prop(s, elems, name, value) ==
  FoldLeft(LAMBDA t, x : SetProperty(t, x, name, Given(value, Property(t, x, name))), s, elems)

-----------------------------------------------------------------------------
(* val.                                                                    *)

(* Mutation: the options of a group that is disabled count.                *)
OfferedMut(s, o) == ~ Disabled(s, o)

Offered(s, o) == ~ Disabled(s, o) /\ (Holder[o] # None => ~ Disabled(s, Holder[o]))

(* A value, a sequence of them from a select for several, or None.          *)
selectGet(s, e) ==
  LET chosen == SelectSeq(Options[e], LAMBDA o : o \in s.selected)
      shown == SelectSeq(IF Kind[e] = "select" /\ chosen # <<>> THEN <<chosen[1]>> ELSE chosen,
                         LAMBDA o : Offered(s, o))
  IN  [array |-> Kind[e] = "multiple", of |-> [i \in DOMAIN shown |-> Says[shown[i]]]]

(* Mutation: a value that no option has leaves what the browser selects.    *)
DeselectMut(s, e) == s

Deselect(s, e) == [s EXCEPT !.selected = @ \ ToSet(Options[e]), !.dirty = @ \cup ToSet(Options[e])]

selectSet(s, e, values) ==
  LET Hit(o) == Says[o] \in ToSet(values)
      set == FoldLeft(LAMBDA t, o : SetProperty(t, o, "selected", Hit(o)), s, Reverse(Options[e]))
  IN  IF \E o \in ToSet(Options[e]) : Hit(o) THEN set ELSE Deselect(set, e)

get(s, e) ==
  IF e \in Selects THEN selectGet(s, e) ELSE [array |-> FALSE, of |-> <<s.value[e]>>]

set(s, e, v) ==
  IF e \in Selects THEN selectSet(s, e, v.of)
  ELSE IF v.array /\ e \in Boxes THEN SetProperty(s, e, "checked", s.value[e] \in ToSet(v.of))
  ELSE [s EXCEPT !.value[e] = v.of[1]]

val(s, elems, v) == FoldLeft(LAMBDA t, e : set(t, e, v), s, elems)

(* :disabled and :enabled, where the browser's own do not do.  An option     *)
(* asks its group only, another control what is around it.                 *)
disabledAncestor(s, x) ==
  LET Above[y \in DOMAIN Holder] ==
        /\ Holder[y] # None
        /\ \/ y \notin Legends /\ Disabled(s, Holder[y])
           \/ Holder[y] \in DOMAIN Holder /\ Above[Holder[y]]
  IN  Above[x]

DisabledPseudo(s, x, disabled) ==
  IF Disabled(s, x) THEN disabled
  ELSE IF x \in OptionSet
  THEN (Holder[x] # None /\ Disabled(s, Holder[x])) = disabled
  ELSE disabledAncestor(s, x) = disabled

(* :selected, and :checked, which options match too.                       *)
selectedPseudo(s, x) == x \in OptionSet /\ x \in s.selected

checkedPseudo(s, x) == (x \in Boxes /\ x \in s.checked) \/ selectedPseudo(s, x)

(* serializeArray: pairs of a control and a value.                         *)
serializeArray(s) ==
  LET sent == SelectSeq(Control, LAMBDA e : ~ Withheld(s, e) /\ (e \in Boxes => e \in s.checked))
      Pairs(e) == LET of == get(s, e).of IN [i \in DOMAIN of |-> <<e, of[i]>>]
  IN  FlattenSeq([i \in DOMAIN sent |-> Pairs(sent[i])])

-----------------------------------------------------------------------------
(* param: a value, [kind, of], is a sequence of values, or of pairs of a     *)
(* name and a value, or a text; what is told, pairs of a key, which is the  *)
(* sequence of its parts, and a text.  The names first given may themselves *)
(* end in [], "" here, after which, as in an old-style list, items are texts. *)
RECURSIVE buildParams(_, _, _)

(* Mutation: an item that has parts gets no index.                         *)
IndexMut(v, i) == ""

Index(v, i) == IF v.of[i].kind \in {"array", "object"} THEN ToString(i - 1) ELSE ""

Scalar(v) == IF v.kind = "null" THEN "" ELSE v.of

buildParams(prefix, v, traditional) ==
  LET Item(i) == IF traditional \/ Last(prefix) = "" THEN <<<<prefix, Scalar(v.of[i])>>>>
                 ELSE buildParams(Append(prefix, Index(v, i)), v.of[i], traditional)
      Named(x) == buildParams(Append(prefix, x[1]), x[2], traditional)
  IN  IF v.kind = "array" THEN FlattenSeq([i \in DOMAIN v.of |-> Item(i)])
      ELSE IF v.kind = "object" /\ ~ traditional
      THEN FlattenSeq([i \in DOMAIN v.of |-> Named(v.of[i])])
      ELSE <<<<prefix, Scalar(v)>>>>

(* The elements of a form, pairs of a name and a text, come as they are.     *)
param(a, traditional) ==
  IF a.kind = "elements" THEN [i \in DOMAIN a.of |-> <<<<a.of[i][1]>>, a.of[i][2]>>]
  ELSE FlattenSeq([i \in DOMAIN a.of |-> buildParams(a.of[i][1], a.of[i][2], traditional)])

serialize(s) == param([kind |-> "elements", of |-> serializeArray(s)], FALSE)

-----------------------------------------------------------------------------
(* Data of an element k, and values, [type, of].                           *)
Undefined == [type |-> "undefined", of |-> ""]

getData(text) ==
  IF text \in {"true", "false"} THEN [type |-> "boolean", of |-> text]
  ELSE IF text = "null" THEN [type |-> "null", of |-> text]
  ELSE IF text \in Numbers THEN [type |-> "number", of |-> text]
  ELSE IF text \in Braces /\ text \in Json THEN [type |-> "object", of |-> text]
  ELSE [type |-> "string", of |-> text]

Kept(k, key) == IF key \in DOMAIN k.cache THEN k.cache[key] ELSE Undefined

store(k, name, value) == [k EXCEPT !.cache = (Camel[name] :> value) @@ @]

(* jQuery.data with a value, or none, which looks at what is kept only.     *)
access(k, name, value) ==
  IF value = Undefined THEN <<k, Kept(k, Camel[name])>> ELSE <<store(k, name, value), value>>

(* What is not kept is looked up, and kept.                                *)
(* Mutation: it is not.                                                    *)
dataAttrMut(k, key) == k

dataAttr(k, key) ==
  IF Kept(k, key) = Undefined /\ Dashed[key] \in DOMAIN k.attrs
  THEN [k EXCEPT !.cache = (key :> getData(k.attrs[Dashed[key]])) @@ @]
  ELSE k

(* data with a name tells what this has kept, or would.                    *)
Tells(k, key) == Kept(dataAttr(k, key), key)

dataAll(k) ==
  IF k.hasDataAttrs THEN k
  ELSE [FoldLeft(LAMBDA j, mark : dataAttr(j, Camel[mark]), k, SetToSeq(DOMAIN k.attrs))
          EXCEPT !.hasDataAttrs = TRUE]

(* Removing the last takes the cache away, but not the private data.        *)
remove(k, keys) == [k EXCEPT !.cache = [key \in DOMAIN @ \ keys |-> @[key]]]

-----------------------------------------------------------------------------
(* Classes: the words of an attribute.                                     *)
hasClass(k, w) == w \in ToSet(k.class)

addClass(k, words) ==
  [k EXCEPT !.class = FoldLeft(LAMBDA cur, w : IF w \in ToSet(cur) THEN cur ELSE Append(cur, w),
                               @, words)]

(* Mutation: a class that is written twice is taken off once.              *)
removeClassMut(k, words) ==
  [k EXCEPT !.class = FoldLeft(LAMBDA cur, w : IF w \in ToSet(cur)
                                               THEN RemoveFirst(cur, w) ELSE cur, @, words)]

removeClass(k, words) == [k EXCEPT !.class = SelectSeq(@, LAMBDA w : w \notin ToSet(words))]

toggleClass(k, words) ==
  FoldLeft(LAMBDA j, w : IF hasClass(j, w) THEN removeClass(j, <<w>>) ELSE addClass(j, <<w>>),
           k, words)

(* The whole attribute; false only takes it off.                           *)
toggleAll(k, value) ==
  LET named == k.class # <<>>
      saved == IF named THEN k.class ELSE k.saved
  IN  [class |-> IF named \/ value = "false" THEN <<>> ELSE saved, saved |-> saved]

-----------------------------------------------------------------------------
Init ==
  /\ \E settle \in {[attrs |-> {<<e, "checked">> : e \in Start}, dirty |-> {}, checked |-> Start,
                     selected |-> {}, value |-> [e \in ToSet(Control) \ Selects |-> Says[e]]]} :
       f = FoldLeft(Settle, settle, SelectSeq(Control, LAMBDA e : e \in Selects))
  /\ c \in [Styled -> {[class |-> w, saved |-> <<>>] : w \in Written}]
  /\ d \in [Owners -> {[attrs |-> a, cache |-> <<>>, hasDataAttrs |-> FALSE] :
                         a \in {<<>>} \cup [Marks -> Texts]}]
  /\ told = [e \in Owners |-> [values |-> <<>>, all |-> {}]]
  /\ ops = 0 /\ last = <<>>
  /\ want = [e \in Styled |-> [on |-> ToSet(c[e].class), away |-> {}]]

Fill(new) == /\ ops < MaxOps /\ ops' = ops + 1 /\ f' = new /\ last' = <<>>
             /\ UNCHANGED <<c, d, want, told>>

(* The user checks, chooses and types.                                     *)
User ==
  \/ \E e \in Boxes :
       /\ ~ Withheld(f, e) /\ (Kind[e] = "radio" => e \notin f.checked)
       /\ Fill(SetProperty(f, e, "checked", e \notin f.checked))
  \/ \E o \in OptionSet :
       /\ ~ Withheld(f, Parent(o)) /\ ~ Withheld(f, o)
       /\ Kind[Parent(o)] = "select" => o \notin f.selected
       /\ Fill(SetProperty(f, o, "selected", o \notin f.selected))

Attr(elems, name, value) ==
  /\ \A x \in ToSet(elems) : Has(x, name)
  /\ Fill(attr(f, elems, name, value))

Prop(elems, name, value) ==
  /\ \A x \in ToSet(elems) : Has(x, name)
  /\ Fill(prop(f, elems, name, value))

Val(elems, v) ==
  /\ ToSet(elems) \subseteq ToSet(Control)
  /\ v.array => \A e \in ToSet(elems) : Kind[e] # "text"
  /\ ops < MaxOps /\ ops' = ops + 1
  /\ f' = val(f, elems, v) /\ last' = <<Last(elems), v>>
  /\ UNCHANGED <<c, d, want, told>>

(* The reset button.                                                       *)
Reset ==
  LET Selected(o) == <<o, "selected">> \in f.attrs
      chosen(e) == SelectSeq(Options[e], Selected)
      default == UNION {IF Kind[e] = "select" /\ chosen(e) # <<>> THEN {Last(chosen(e))}
                        ELSE ToSet(chosen(e)) : e \in Selects}
      bare == [f EXCEPT !.dirty = {}, !.selected = default,
                        !.checked = {e \in Boxes : <<e, "checked">> \in f.attrs}]
  IN  /\ \A e, g \in bare.checked : Kind[e] = "radio" /\ Kind[g] = "radio" => e = g
      /\ Fill(FoldLeft(Settle, bare, SelectSeq(Control, LAMBDA e : e \in Selects)))

Style(e, new, on, away) ==
  /\ ops < MaxOps /\ ops' = ops + 1 /\ c' = [c EXCEPT ![e] = new]
  /\ want' = [want EXCEPT ![e] = [on |-> on, away |-> away]] /\ last' = <<>>
  /\ UNCHANGED <<f, d, told>>

AddClass(e, words) ==
  Style(e, addClass(c[e], words), want[e].on \cup ToSet(words), want[e].away)

RemoveClass(e, words) ==
  Style(e, removeClass(c[e], words), want[e].on \ ToSet(words), want[e].away)

ToggleClass(e, words) ==
  LET odd == {w \in ToSet(words) : Cardinality({i \in DOMAIN words : words[i] = w}) % 2 = 1}
  IN  Style(e, toggleClass(c[e], words), SymDiff(want[e].on, odd), want[e].away)

ToggleAll(e, value) ==
  Style(e, toggleAll(c[e], value),
        IF want[e].on = {} /\ value # "false" THEN want[e].away ELSE {},
        IF want[e].on = {} THEN want[e].away ELSE want[e].on)

(* The page writes and takes away such an attribute; and its scripts ask     *)
(* for data, for all of it, keep something, or several things at once, of   *)
(* which some may be undefined, and remove some or all.                    *)
Keep(e, k, values, all) ==
  /\ ops < MaxOps /\ ops' = ops + 1
  /\ d' = [d EXCEPT ![e] = k] /\ told' = [told EXCEPT ![e] = [values |-> values, all |-> all]]
  /\ UNCHANGED <<f, c, last, want>>

Without(values, keys) == [key \in DOMAIN values \ keys |-> values[key]]

Mark(e, mark, text) ==
  Keep(e, [d[e] EXCEPT !.attrs = (mark :> text) @@ @], told[e].values, told[e].all)

Unmark(e, mark) ==
  /\ mark \in DOMAIN d[e].attrs
  /\ Keep(e, [d[e] EXCEPT !.attrs = [m \in DOMAIN @ \ {mark} |-> @[m]]], told[e].values, told[e].all)

Data(e, name) ==
  LET value == Tells(d[e], Camel[name])
  IN  Keep(e, dataAttr(d[e], Camel[name]),
           IF value = Undefined THEN told[e].values ELSE (Camel[name] :> value) @@ told[e].values,
           told[e].all)

Access(e, name, value) ==
  LET kept == access(d[e], name, value)[2]
  IN  Keep(e, access(d[e], name, value)[1],
           IF kept = Undefined THEN told[e].values ELSE (Camel[name] :> kept) @@ told[e].values,
           told[e].all)

DataAll(e) ==
  LET k == d[e]
      found == {key \in DOMAIN Dashed : Dashed[key] \in DOMAIN k.attrs
                                          /\ \E m \in DOMAIN k.attrs : Camel[m] = key}
      known == {key \in DOMAIN dataAll(k).cache : dataAll(k).cache[key] # Undefined}
  IN  Keep(e, dataAll(k), [key \in known |-> dataAll(k).cache[key]] @@ told[e].values,
           IF k.hasDataAttrs THEN told[e].all ELSE found)

SetData(e, name, value) ==
  Keep(e, store(d[e], name, value), (Camel[name] :> value) @@ told[e].values, told[e].all)

SetAll(e, name, other, value) ==
  Keep(e, store(store(d[e], name, value), other, Undefined),
       Without((Camel[name] :> value) @@ told[e].values, {Camel[other]}), told[e].all)

RemoveData(e, keys) ==
  Keep(e, remove(d[e], keys), Without(told[e].values, keys), told[e].all \ keys)

Next ==
  \/ User \/ Reset
  \/ \E elems \in Sets :
       \/ \E name \in {"checked", "selected", "disabled"}, value \in {"true", "false", "not"} :
            Attr(elems, name, value) \/ Prop(elems, name, value)
       \/ \E v \in Values : Val(elems, v)
  \/ \E e \in Styled :
       \/ \E words \in Classes : AddClass(e, words) \/ RemoveClass(e, words) \/ ToggleClass(e, words)
       \/ \E value \in {"true", "false"} : ToggleAll(e, value)
  \/ \E e \in Owners :
       \/ \E mark \in Marks : Unmark(e, mark) \/ (\E text \in Texts : Mark(e, mark, text))
       \/ DataAll(e) \/ RemoveData(e, DOMAIN d[e].cache)
       \/ \E name \in DOMAIN Camel :
            \/ Data(e, name) \/ Access(e, name, Undefined) \/ RemoveData(e, {Camel[name]})
            \/ \E value \in Things :
                 \/ SetData(e, name, value) \/ Access(e, name, value)
                 \/ \E other \in DOMAIN Camel : SetAll(e, name, other, value)

Spec == Init /\ [][Next]_vars

-----------------------------------------------------------------------------
(* A form is serialized to what the browser would send: of the controls that *)
(* are not disabled, by themselves or by the fieldset around them, in their *)
(* order, the text, the boxes that are checked, and the options that are    *)
(* selected and may be.  The library's own :disabled, :enabled and :checked  *)
(* say what the browser's do.                                              *)
SentAsShown ==
  LET Shown(e) == IF Withheld(f, e) THEN {}
                  ELSE IF e \in Selects
                  THEN {Says[o] : o \in {o \in ToSet(Options[e]) \cap f.selected : ~ Withheld(f, o)}}
                  ELSE IF e \in Boxes /\ e \notin f.checked THEN {} ELSE {f.value[e]}
      sent == serialize(f)
      Place(e) == CHOOSE i \in DOMAIN Control : Control[i] = e
  IN  /\ \A e \in ToSet(Control) :
           {sent[i][2] : i \in {i \in DOMAIN sent : sent[i][1] = <<e>>}} = Shown(e)
      /\ \A i, j \in DOMAIN sent : i < j => Place(sent[i][1][1]) <= Place(sent[j][1][1])
      /\ \A x \in ToSet(Control) \cup OptionSet :
           /\ DisabledPseudo(f, x, TRUE) = Withheld(f, x)
           /\ DisabledPseudo(f, x, FALSE) = ~ Withheld(f, x)
           /\ checkedPseudo(f, x) = (x \in f.checked \cup f.selected)

(* What is set is what is read: a select has the options selected that were  *)
(* asked for, of several with one value the first if it is for one, and     *)
(* none if there is none such; a box is checked by an array with its value; *)
(* and one radio at most is.                                               *)
SetIsRead ==
  /\ last # <<>> =>
       LET e == last[1]  v == last[2]
           found == SelectSeq(Options[e], LAMBDA o : Says[o] \in ToSet(v.of))
       IN  IF e \in Selects
           THEN f.selected \cap ToSet(Options[e]) =
                  IF Kind[e] = "select" /\ found # <<>> THEN {found[1]} ELSE ToSet(found)
           ELSE IF v.array THEN e \in f.checked <=> f.value[e] \in ToSet(v.of)
           ELSE f.value[e] = v.of[1]
  /\ Cardinality({e \in f.checked : Kind[e] = "radio"}) <= 1
  /\ \A e \in Selects : Kind[e] = "select" => Cardinality(f.selected \cap ToSet(Options[e])) <= 1

(* An element has the classes it was given, each once unless the page wrote  *)
(* it twice, and those put away as a whole come back as a whole.            *)
ClassesAsAsked ==
  \A e \in Styled :
    /\ ToSet(c[e].class) = want[e].on
    /\ \/ Cardinality(want[e].on) = Len(c[e].class)
       \/ \E w \in Written : \E x \in ToSet(w) \cap want[e].on :
            Cardinality({i \in DOMAIN w : w[i] = x}) > 1

(* What a value says, by the place where it says it.                       *)
RECURSIVE Leaves(_, _)
Leaves(path, v) ==
  CASE v.kind = "object" ->
         UNION {Leaves(Append(path, v.of[i][1]), v.of[i][2]) : i \in DOMAIN v.of}
    [] v.kind = "array" ->
         UNION {Leaves(Append(path, ToString(i - 1)), v.of[i]) : i \in DOMAIN v.of}
    [] OTHER -> {<<path, Scalar(v)>>}

(* What param tells can be read back: a reader that gives each list item     *)
(* without an index the next one finds every text where it was.  (Empty     *)
(* lists and objects are not told at all.)                                 *)
ParamsRead ==
  LET Within(read, list) == {q \in read : IsStrictPrefix(list, q[1])}
      Count(read, list) == Cardinality({q[1][Len(list) + 1] : q \in Within(read, list)})
      Place(read, key) == IF Last(key) # "" THEN key
                          ELSE Append(Front(key), ToString(Count(read, Front(key))))
      Read(pairs) == FoldLeft(LAMBDA read, q : read \cup {<<Place(read, q[1]), q[2]>>}, {}, pairs)
      Named(key) == SelectSeq(key, LAMBDA part : part # "")
      Meant(a) == UNION {Leaves(Named(a.of[i][1]), a.of[i][2]) : i \in DOMAIN a.of}
  IN  \A a \in Params : Read(param(a, FALSE)) = Meant(a)

(* Data keeps saying what it said, by whichever name it is asked for, until  *)
(* it is set or removed, whatever the page writes in its attributes; and    *)
(* what data() told of stays among what it tells.                          *)
DataStays ==
  \A e \in Owners :
    /\ \A key \in DOMAIN told[e].values : Tells(d[e], key) = told[e].values[key]
    /\ told[e].all \subseteq DOMAIN d[e].cache
=============================================================================
