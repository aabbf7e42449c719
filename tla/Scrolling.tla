------------------------------ MODULE Scrolling -----------------------------
(***************************************************************************)
(* What follows the scrolling of a page in Bootstrap: the navigation that   *)
(* marks the section one reads (ScrollSpy, bootstrap.js 1896-2058) and the   *)
(* element that is fixed while the page scrolls between its top and its     *)
(* bottom (Affix, 2225-2377).  Both remember what they measured, and the    *)
(* page may change without telling them.  Lengths are small numbers.       *)
(***************************************************************************)
EXTENDS Integers, Sequences, SequencesExt, FiniteSets

CONSTANTS Layouts,   \* the pages: height, and the tops of its sections, a function
                     \* from one or more names in any order
          Items,     \* the items of the navigation: the item that each is in, or None, and
                     \* the section that its link is for
          Viewport,  \* height of what one sees of a page
          Offset,    \* options.offset of ScrollSpy
          Element,   \* the fixed element: its height, its top in the page, its top when
                     \* fixed (of the viewport), its options offset.top and offset.bottom
          MaxOps,    \* bound on scrolling, clicks and changes of the page
          None

VARIABLES
  page, scroll,
  spy,     \* offsets and targets in the order of the page, activeTarget, scrollHeight,
           \* and the items that are marked
  affix,   \* affixed, unpin, pinnedOffset, and the css property top
  ops,
  seen,    \* for the properties: events heard since the page changed last, or None
           \* if its height is what spy takes it for, so that it will not be noticed
  checked  \* for the properties: the scroll of the last two checks of the element

vars == <<page, scroll, spy, affix, ops, seen, checked>>

-----------------------------------------------------------------------------
(* refresh.                                                                *)
refresh(s, p) ==
  LET order == SetToSortSeq(DOMAIN p.top, LAMBDA a, b : p.top[a] < p.top[b])
  IN  [s EXCEPT !.targets = order, !.offsets = [i \in DOMAIN order |-> p.top[order[i]]],
                !.scrollHeight = p.height]

(* The items around links, up to the element that is the target of the spy. *)
ItemsAbove(links) ==
  LET up[n \in Nat] == IF n = 0 THEN links
                       ELSE up[n - 1] \cup ({Items[i].up : i \in up[n - 1]} \ {None})
  IN  up[Cardinality(DOMAIN Items)]

clear(s) == [s EXCEPT !.marked = @ \ ItemsAbove(DOMAIN Items)]

(* activate: also the item of a menu that drops down, which is around it.   *)
activate(s, target) ==
  [clear(s) EXCEPT !.active = target,
                   !.marked = @ \cup ItemsAbove({i \in DOMAIN Items : Items[i].to = target})]

(* Mutation: the section that ends at what is read is the one marked.       *)
ReadsMut(offsets, i, at) == at > offsets[i] /\ (i < Len(offsets) => at <= offsets[i + 1])

Reads(offsets, i, at) == at >= offsets[i] /\ (i < Len(offsets) => at < offsets[i + 1])

(* process: it refreshes if the height has changed, and goes on with what   *)
(* it knew before.                                                         *)
process(s, p, y) ==
  LET at == y + Offset
      new == IF s.scrollHeight # p.height THEN refresh(s, p) ELSE s
      n == Len(s.targets)
  IN  IF at >= Offset + p.height - Viewport
      THEN IF s.active = s.targets[n] THEN new ELSE activate(new, s.targets[n])
      ELSE IF s.active # None /\ at < s.offsets[1] THEN clear([new EXCEPT !.active = None])
      ELSE LET read == {i \in 1 .. n : s.targets[i] # s.active /\ Reads(s.offsets, i, at)}
           IN  IF read = {} THEN new ELSE activate(new, s.targets[CHOOSE i \in read : TRUE])

-----------------------------------------------------------------------------
(* The top of the element in the page.                                     *)
Top(a, y) ==
  IF a.affixed = "fixed" THEN y + Element.fixed
  ELSE IF a.affixed = "bottom" THEN a.css ELSE Element.top

(* getState, where "fixed" stands for false.                               *)
getState(a, p, y) ==
  IF a.affixed = "top" THEN IF y < Element.offsetTop THEN "top" ELSE "fixed"
  ELSE IF a.affixed = "bottom" THEN IF y + a.unpin <= Top(a, y) THEN "fixed" ELSE "bottom"
  ELSE LET new == a.affixed = None
           bottom == IF new THEN y + Viewport ELSE Top(a, y) + Element.height
       IN  IF y <= Element.offsetTop THEN "top"
           ELSE IF bottom >= p.height - Element.offsetBottom THEN "bottom" ELSE "fixed"

(* getPinnedOffset.                                                        *)
Pinned(a) == IF a.pinned = None THEN Element.fixed ELSE a.pinned

(* Mutation: where the element is pinned is not computed.                   *)
checkPositionMut(a, p, y) ==
  LET to == getState(a, p, y)
  IN  [affixed |-> to, unpin |-> IF to = "bottom" THEN 0 ELSE None, pinned |-> None,
       css |-> p.height - Element.height - Element.offsetBottom]

checkPosition(a, p, y) ==
  LET to == getState(a, p, y)
      moved == IF to = a.affixed THEN a
               ELSE [a EXCEPT !.affixed = to,
                              !.unpin = IF to = "bottom" THEN Pinned(a) ELSE None,
                              !.pinned = IF to = "bottom" THEN Pinned(a) ELSE @]
  IN  IF to = "bottom"
      THEN [moved EXCEPT !.css = p.height - Element.height - Element.offsetBottom] ELSE moved

-----------------------------------------------------------------------------
Scrolls(p) == 0 .. p.height - Viewport

Init ==
  /\ page \in Layouts /\ scroll \in Scrolls(page)
  /\ spy = LET new == [targets |-> <<>>, offsets |-> <<>>, active |-> None, scrollHeight |-> 0,
                   marked |-> {}]
           IN  process(refresh(new, page), page, scroll)
  /\ affix = checkPosition([affixed |-> None, unpin |-> None, pinned |-> None, css |-> 0],
                           page, scroll)
  /\ ops = 0 /\ seen = 1 /\ checked = <<None, scroll>>

Op == ops < MaxOps /\ ops' = ops + 1

Scroll ==
  /\ Op
  /\ \E y \in Scrolls(page) :
       /\ scroll' = y
       /\ spy' = process(spy, page, y)
       /\ affix' = checkPosition(affix, page, y)
       /\ checked' = <<checked[2], y>>
  /\ seen' = IF seen \in {0, 1} THEN seen + 1 ELSE seen
  /\ UNCHANGED page

(* A click: the element is looked at again a moment later.                 *)
Click ==
  /\ Op
  /\ affix' = checkPosition(affix, page, scroll)
  /\ checked' = <<checked[2], scroll>>
  /\ UNCHANGED <<page, scroll, spy, seen>>

(* The content of the page changes.                                        *)
Relayout ==
  /\ Op
  /\ \E p \in Layouts : p # page /\ scroll \in Scrolls(p) /\ page' = p
       /\ seen' = IF p.height = spy.scrollHeight THEN None ELSE 0
  /\ checked' = <<None, None>>
  /\ UNCHANGED <<scroll, spy, affix>>

Next == Scroll \/ Click \/ Relayout

Spec == Init /\ [][Next]_vars

-----------------------------------------------------------------------------
(* From the second time on that the page is scrolled after a change of its  *)
(* height, the section that is marked is the one at the line that is read,  *)
(* or the last one at the end of the page.                                 *)
SectionMarked ==
  seen = 2 =>
    LET at == scroll + Offset
        line == IF scroll >= page.height - Viewport THEN page.height ELSE at
        above == {t \in DOMAIN page.top : page.top[t] <= line}
    IN  IF above = {} THEN spy.active = None
        ELSE spy.active \in above /\ \A t \in above : page.top[t] <= page.top[spy.active]

(* The items that are marked are those that lead to the section that is.     *)
ItemsLead ==
  spy.marked = IF spy.active = None THEN {}
               ELSE ItemsAbove({i \in DOMAIN Items : Items[i].to = spy.active})

(* An element that was looked at twice where the page stands now is at its   *)
(* own place near the top, rests on the bottom, and is fixed in between;     *)
(* but for the line where fixed and bottom are the same place, and it takes *)
(* turns.                                                                  *)
ElementPlaced ==
  checked = <<scroll, scroll>> =>
    LET low == page.height - Element.offsetBottom - Element.height
    IN  scroll + Element.fixed # low =>
          /\ scroll < Element.offsetTop => affix.affixed = "top"
          /\ scroll > Element.offsetTop =>
               affix.affixed = IF scroll + Element.fixed > low THEN "bottom" ELSE "fixed"
          /\ affix.affixed = "bottom" => Top(affix, scroll) = low
=============================================================================
