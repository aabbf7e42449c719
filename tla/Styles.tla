------------------------------- MODULE Styles -------------------------------
(***************************************************************************)
(* What jQuery does to the styles of elements (jquery-3.2.1.js 4494-4690,    *)
(* 6068-6645, 9905-10150): showing and hiding, heights of the four boxes of  *)
(* an element, and its place in the page, which the page's style sheets and *)
(* the user's scrolling change meanwhile.                                  *)
(*                                                                         *)
(* The elements stand one in the other, and lengths are whole pixels from   *)
(* top to bottom; from left to right all is the same.  Layout is what a      *)
(* browser makes of the styles.  Units, vendors' names of properties and     *)
(* browsers that report percentages are left out.                          *)
(***************************************************************************)
EXTENDS Integers, Sequences, SequencesExt, FiniteSets, FiniteSetsExt

CONSTANTS Elem,
          Parent,    \* Parent[e]: the element e is in, or Page
          Flow,      \* Flow[e]: where e would begin in its parent
          Content,   \* Content[e]: the height of what it contains
          Edge,      \* Edge[e]: the widths [padding, border, margin] on each side
          BorderBox, \* the elements with box-sizing border-box
          Start,     \* displays, positions and tops at the start
          Lists,     \* calls are made of these sequences of elements
          Heights, Offsets, Scrolls,
          MaxOps,
          Page, None

VARIABLES
  s,    \* styles in the elements: display, position, top and height; sheet: those a
        \* style sheet hides; scroll: of the page and of elements; kept: the display
        \* that hide has put away
  tells,\* the browser tells the top that is used where it says auto
  done, \* for the properties: the last call
  want, \* for the properties: the display an element had when it was hidden
  ops

vars == <<s, tells, done, want, ops>>

-----------------------------------------------------------------------------
(* Layout.                                                                 *)
Display(t, e) == IF t.display[e] # "" THEN t.display[e] ELSE IF e \in t.sheet THEN "none" ELSE "block"

Around(e) ==
  LET Of[x \in Elem] == IF Parent[x] = Page THEN <<>> ELSE <<Parent[x]>> \o Of[Parent[x]] IN Of[e]

(* getClientRects().length.                                                *)
Rendered(t, e) == \A x \in {e} \cup ToSet(Around(e)) : Display(t, x) # "none"

Sides(e) == 2 * (Edge[e].padding + Edge[e].border)

BorderHeight(t, e) ==
  IF t.height[e] = None THEN Content[e] + Sides(e)
  ELSE IF e \in BorderBox THEN Max({t.height[e], Sides(e)}) ELSE t.height[e] + Sides(e)

(* The nearest element around e with a position, or the page.              *)
Container(t, e) ==
  LET placed == SelectSeq(Around(e), LAMBDA x : t.position[x] # "static")
  IN  IF placed = <<>> THEN Page ELSE placed[1]

(* Where in the page the border of e begins.                               *)
Top(t, e) ==
  LET T[x \in Elem] ==
        LET up == Parent[x]
            flow == Flow[x] + Edge[x].margin +
                      (IF up = Page THEN 0
                       ELSE T[up] + Edge[up].border + Edge[up].padding - t.scroll[up])
            in == Container(t, x)
            pad == IF in = Page THEN 0 ELSE T[in] + Edge[in].border - t.scroll[in]
        IN  CASE t.position[x] = "static" -> flow
              [] t.position[x] = "relative" -> flow + (IF t.top[x] = None THEN 0 ELSE t.top[x])
              [] t.position[x] = "absolute" ->
                   IF t.top[x] = None THEN flow ELSE pad + t.top[x] + Edge[x].margin
              [] t.position[x] = "fixed" -> t.scroll[Page] + t.top[x] + Edge[x].margin
  IN  T[e]

(* What the computed style says; None is auto.                             *)
ComputedTop(t, e) ==
  LET in == Container(t, e)
      pad == IF in = Page THEN 0 ELSE Top(t, in) + Edge[in].border - t.scroll[in]
  IN  IF t.top[e] # None \/ ~ Rendered(t, e) \/ t.position[e] = "static" THEN t.top[e]
      ELSE IF t.position[e] = "relative" THEN 0
      ELSE IF tells THEN Top(t, e) - pad - Edge[e].margin ELSE None

ComputedHeight(t, e) ==
  IF ~ Rendered(t, e) THEN t.height[e]
  ELSE IF e \in BorderBox THEN BorderHeight(t, e) ELSE BorderHeight(t, e) - Sides(e)

-----------------------------------------------------------------------------
(* show and hide: the values are settled for all before they are set.       *)
isHiddenWithinTree(t, e) == Display(t, e) = "none"

(* The display of a new element of the kind: these are all divs.            *)
getDefaultDisplay == "block"

(* Mutation: what hide puts away is put away again when it is hidden.      *)
PutAwayMut(t, e) == TRUE

PutAway(t, e) == t.display[e] # "none"

hide(t, elems) ==
  FoldLeft(LAMBDA u, e : IF PutAway(t, e) THEN [u EXCEPT !.kept[e] = t.display[e], !.display[e] = "none"]
                         ELSE u,
           t, elems)

show(t, elems) ==
  LET Settle(u, e) == IF u.display[e] = "none" /\ u.kept[e] = "" THEN [u EXCEPT !.display[e] = ""] ELSE u
      settled == FoldLeft(Settle, t, elems)
      Value(e) == IF settled.display[e] = "none" THEN settled.kept[e]
                  ELSE IF settled.display[e] = "" /\ isHiddenWithinTree(settled, e)
                  THEN getDefaultDisplay ELSE settled.display[e]
  IN  FoldLeft(LAMBDA u, e : [u EXCEPT !.display[e] = Value(e)], settled, elems)

toggle(t, elems) ==
  FoldLeft(LAMBDA u, e : IF isHiddenWithinTree(u, e) THEN show(u, <<e>>) ELSE hide(u, <<e>>), t, elems)

-----------------------------------------------------------------------------
(* Heights: of the content, with the padding, the border and the margin, and *)
(* "css", what the style says.                                             *)
Own(e) == IF e \in BorderBox THEN "border" ELSE "content"

augmentWidthOrHeight(e, extra, isBorderBox) ==
  LET edge == Edge[e]
      padding == CASE isBorderBox -> IF extra = "content" THEN - edge.padding ELSE 0
                   [] ~ isBorderBox -> edge.padding
      border == CASE isBorderBox -> IF extra # "margin" THEN - edge.border ELSE 0
                  [] ~ isBorderBox -> IF extra # "padding" THEN edge.border ELSE 0
  IN  IF extra = (IF isBorderBox THEN "border" ELSE "content") THEN 0
      ELSE 2 * ((IF extra = "margin" THEN edge.margin ELSE 0) + padding + border)

getWidthOrHeight(t, e, extra) ==
  LET val == ComputedHeight(t, e)
  IN  (IF val = None THEN 0 ELSE val)
        + augmentWidthOrHeight(e, IF extra = "css" THEN Own(e) ELSE extra, e \in BorderBox)

(* An element that is not displayed is, for as long as it is measured.      *)
swap(t, e) == [t EXCEPT !.display[e] = "block", !.position[e] = "absolute"]

height(t, e, extra) ==
  getWidthOrHeight(IF Display(t, e) = "none" THEN swap(t, e) ELSE t, e, extra)

setPositiveNumber(value, subtract) == Max({0, value - subtract})

setHeight(t, e, extra, value) ==
  LET subtract == IF extra = "css" THEN 0 ELSE augmentWidthOrHeight(e, extra, e \in BorderBox)
  IN  [t EXCEPT !.height[e] = setPositiveNumber(value, subtract)]

(* adjustCSS: so much more than it is.                                     *)
adjustCSS(t, e, more) == height(t, e, "css") + more

-----------------------------------------------------------------------------
(* Places.  What is not rendered is at 0.                                  *)
offset(t, e) == IF Rendered(t, e) THEN Top(t, e) ELSE 0

offsetParent(t, e) == IF ~ Rendered(t, e) THEN Page ELSE Container(t, e)

position(t, e) ==
  LET parent == offsetParent(t, e)
  IN  IF t.position[e] = "fixed"
      THEN (IF Rendered(t, e) THEN Top(t, e) - t.scroll[Page] ELSE 0) - Edge[e].margin
      ELSE offset(t, e) - (IF parent = Page THEN 0 ELSE offset(t, parent) + Edge[parent].border)
             - Edge[e].margin

(* Mutation: the offset is read before the element is given a position.     *)
CurrentMut(t, placed, e) == offset(t, e)

Current(t, placed, e) == offset(placed, e)

setOffset(t, e, value) ==
  LET curTop(placed, says) ==
        IF says # None THEN says
        ELSE IF t.position[e] \in {"absolute", "fixed"} THEN position(placed, e) ELSE 0
      Placed(placed) ==
        [placed EXCEPT !.top[e] = value - Current(t, placed, e) + curTop(placed, ComputedTop(placed, e))]
  IN  Placed(IF t.position[e] = "static" THEN [t EXCEPT !.position[e] = "relative"] ELSE t)

-----------------------------------------------------------------------------
Nothing == [name |-> ""]
Forgotten == "forgotten"

Init ==
  /\ \E at \in Start :
       s = [display |-> at.display, kept |-> [e \in Elem |-> ""], sheet |-> {},
            position |-> at.position, top |-> at.top, height |-> [e \in Elem |-> None],
            scroll |-> [x \in Elem \cup {Page} |-> 0]]
  /\ tells \in BOOLEAN
  /\ done = Nothing /\ ops = 0
  /\ want = [e \in Elem |-> Forgotten]

Call(t, call) == ops < MaxOps /\ ops' = ops + 1 /\ s' = t /\ done' = call /\ UNCHANGED tells

Hide(elems) ==
  /\ Call(hide(s, elems), Nothing)
  /\ want' = [e \in Elem |-> IF e \in ToSet(elems) /\ s.display[e] # "none" THEN s.display[e] ELSE want[e]]

Show(elems) ==
  /\ Call(show(s, elems), [name |-> "show", of |-> ToSet(elems), had |-> want])
  /\ want' = [e \in Elem |-> IF e \in ToSet(elems) THEN Forgotten ELSE want[e]]

Toggle(elems) ==
  /\ Call(toggle(s, elems), [name |-> "toggle", of |-> ToSet(elems),
                             had |-> {e \in Elem : Display(s, e) = "none"}])
  /\ want' = [e \in Elem |-> Forgotten]

(* css("display", d), by a script that does not care for jQuery's show.     *)
SetDisplay(e, d) ==
  /\ Call([s EXCEPT !.display[e] = d], Nothing) /\ want' = [want EXCEPT ![e] = Forgotten]

SetHeight(e, extra, value) ==
  /\ Call(setHeight(s, e, extra, value), [name |-> "height", of |-> e, extra |-> extra, value |-> value])
  /\ UNCHANGED want

AddHeight(e, more) == SetHeight(e, "css", adjustCSS(s, e, more))

SetOffset(elems, value) ==
  /\ Call(FoldLeft(LAMBDA t, e : setOffset(t, e, value), s, elems),
          [name |-> "offset", of |-> elems, value |-> value,
           loose |-> {e \in Elem : s.position[e] = "absolute" /\ s.top[e] = None}])
  /\ UNCHANGED want

(* A class is given or taken that a style sheet hides elements by.          *)
Sheet(e) == Call([s EXCEPT !.sheet = SymDiff(@, {e})], Nothing) /\ UNCHANGED want

(* scrollTop, or the user.                                                 *)
Scroll(x, value) == Call([s EXCEPT !.scroll[x] = value], Nothing) /\ UNCHANGED want

Next ==
  \/ \E elems \in Lists :
       Hide(elems) \/ Show(elems) \/ Toggle(elems) \/ \E value \in Offsets : SetOffset(elems, value)
  \/ \E e \in Elem :
       \/ \E d \in {"", "none"} : SetDisplay(e, d)
       \/ \E value \in Heights :
            \/ \E extra \in {"content", "padding", "border", "margin"} : SetHeight(e, extra, value)
            \/ AddHeight(e, value)
       \/ Sheet(e)
  \/ \E x \in Elem \cup {Page}, value \in Scrolls : Scroll(x, value)

Spec == Init /\ [][Next]_vars

-----------------------------------------------------------------------------
(* What is shown is displayed, as it was before it was hidden unless a style *)
(* sheet would hide it; and of what is toggled the one becomes the other.   *)
ShownAsBefore ==
  /\ done.name = "show" =>
       \A e \in done.of :
         /\ Display(s, e) # "none"
         /\ done.had[e] # Forgotten =>
              s.display[e] = IF done.had[e] = "" /\ e \in s.sheet THEN "block" ELSE done.had[e]
  /\ done.name = "toggle" =>
       \A e \in done.of : Display(s, e) = "none" <=> e \notin done.had

(* A height that is set is the height that is read, though not less than    *)
(* padding and border take; of an element in one that is not displayed the  *)
(* browser says only what the style does.                                  *)
HeightIsSet ==
  done.name = "height" =>
    LET e == done.of
        extra == IF done.extra = "css" THEN Own(e) ELSE done.extra
        least == CASE extra = "content" -> 0
                   [] extra = "padding" -> 2 * Edge[e].padding
                   [] extra = "border" -> Sides(e)
                   [] extra = "margin" -> Sides(e) + 2 * Edge[e].margin
    IN  (\A x \in ToSet(Around(e)) : Display(s, x) # "none") =>
          height(s, e, done.extra) = Max({done.value, least})

(* An element is where its offset is set, if it is displayed: whatever its   *)
(* position and the elements around it, unless it was placed absolutely, by *)
(* no style of its own, in an element that is scrolled.                     *)
OffsetIsSet ==
  done.name = "offset" =>
    \A e \in ToSet(done.of) :
      LET in == Container(s, e)
          scrolled == e \in done.loose /\ ~ tells /\ in # Page /\ s.scroll[in] # 0
      IN  Rendered(s, e) /\ ~ scrolled => offset(s, e) = done.value
=============================================================================
