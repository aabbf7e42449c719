------------------------------ MODULE Tooltip -------------------------------
(***************************************************************************)
(* The tooltips of Bootstrap (bootstrap.js 1267-1776), and the popovers     *)
(* that inherit from them: the pointer, the focus and clicks want a tip or  *)
(* no longer want it, delays and transitions answer late, and the object    *)
(* may be destroyed in between.                                            *)
(***************************************************************************)
EXTENDS Naturals, Sequences, SequencesExt, FiniteSets

CONSTANTS Delays,      \* what options.delay may be: records of BOOLEANs, show and hide
          Animated,    \* what options.animation may be
          Delegated,   \* whether the events are heard by an ancestor, a set of BOOLEANs
          MaxObjects,  \* bound on the objects made for the element
          MaxOps,      \* bound on events and calls
          Pages,       \* the window, the viewport, the element and the tip, as laid out
          Scrolls,     \* how far the page may be scrolled
          Places,      \* what options.placement may be: records of a side and auto
          None

VARIABLES
  opt,     \* delay, animation, delegated, placement, and the page
  scroll,  \* how far the page is scrolled
  objects, \* every object made for the element
  data,    \* the object kept by the element, 0 for none
  over,    \* what holds: "hover" while the pointer is over the element, "focus"
  ops,
  wanted,  \* for the properties: what the object has been told of, with "click"
  plain    \* for the properties: nothing but events, none of them refused

vars == <<opt, scroll, objects, data, over, ops, wanted, plain>>

NewObject == [enabled |-> TRUE,
              inState |-> {},
              hoverState |-> None,
              timeout |-> None,   \* what the timer will do, "show" or "hide"
              attached |-> FALSE, \* the tip is in the document
              in |-> FALSE, fade |-> FALSE,
              place |-> None,     \* where the tip has been put, while it is attached
              described |-> FALSE,\* aria-describedby of the element
              bound |-> <<>>,     \* what waits for the end of a transition
              gone |-> FALSE,     \* $element is null
              thrown |-> FALSE]   \* the last call has thrown

Init ==
  /\ opt \in [delay : Delays, animation : Animated, delegated : Delegated,
             placement : Places, page : Pages]
  /\ scroll \in Scrolls
  /\ objects = IF opt.delegated THEN <<>> ELSE <<NewObject>>
  /\ data = Len(objects)
  /\ over = {} /\ ops = 0 /\ wanted = {} /\ plain = TRUE

-----------------------------------------------------------------------------
(* getPosition: left, right, top and lengths in the page; bottom is that of  *)
(* getBoundingClientRect, in the window, since no offset replaces it.       *)
PositionOf(box) ==
  [left |-> box.left, right |-> box.left + box.width, width |-> box.width,
   top |-> box.top, bottom |-> box.top + box.height - scroll, height |-> box.height,
   scroll |-> box.scroll]

(* The body has the size of the window, but the bottom of the document.     *)
BodyPosition ==
  [left |-> 0, right |-> opt.page.width, width |-> opt.page.width,
   top |-> 0, bottom |-> opt.page.document - scroll, height |-> opt.page.height,
   scroll |-> scroll]

Viewport == IF opt.page.inBody THEN BodyPosition ELSE PositionOf(opt.page.box)

Vertical(side) == side \in {"top", "bottom"}

(* show: the other side, where auto finds no room on the one asked for.      *)
Side(pos, port, size) ==
  LET asked == opt.placement.side
  IN  IF ~ opt.placement.auto THEN asked
      ELSE IF asked = "bottom" /\ pos.bottom + size.height > port.bottom THEN "top"
      ELSE IF asked = "top" /\ pos.top - size.height < port.top THEN "bottom"
      ELSE IF asked = "right" /\ pos.right + size.width > port.width THEN "left"
      ELSE IF asked = "left" /\ pos.left - size.width < port.left THEN "right"
      ELSE asked

(* Lengths are even, so that the halves are exact.                          *)
getCalculatedOffset(side, pos, size) ==
  [left |-> IF side = "left" THEN pos.left - size.width
            ELSE IF side = "right" THEN pos.left + pos.width
            ELSE pos.left + (pos.width - size.width) \div 2,
   top  |-> IF side = "top" THEN pos.top - size.height
            ELSE IF side = "bottom" THEN pos.top + pos.height
            ELSE pos.top + (pos.height - size.height) \div 2]

(* Mutation: what the padding adds on one side is not taken off on the other. *)
getViewportAdjustedDeltaMut(side, at, port, size) ==
  LET across == IF at.left - opt.page.padding < port.left THEN port.left - at.left
                ELSE IF at.left + opt.page.padding + size.width > port.right
                     THEN port.left + port.width - at.left - size.width
                ELSE 0
  IN  [left |-> IF Vertical(side) THEN across ELSE 0, top |-> 0]

(* How far the tip must move to lie within the viewport, padding away from   *)
(* its edges, along the side it is put at.                                 *)
getViewportAdjustedDelta(side, at, port, size) ==
  LET first(edge) == edge - opt.page.padding
      last(edge, length) == edge + opt.page.padding + length
      down(top) == IF first(top) < port.top THEN port.top - first(top)
                   ELSE IF last(top, size.height) > port.top + port.height
                        THEN port.top + port.height - last(top, size.height)
                   ELSE 0
      across == IF first(at.left) < port.left THEN port.left - first(at.left)
                ELSE IF last(at.left, size.width) > port.right
                     THEN port.left + port.width - last(at.left, size.width)
                ELSE 0
  IN  IF Vertical(side) THEN [left |-> across, top |-> 0]
      ELSE [left |-> 0, top |-> down(at.top - port.scroll)]

(* How the browser lays out a tip whose left edge is there: it breaks its    *)
(* text where the window ends.                                             *)
LaidOut(left) ==
  LET tip == opt.page.tip
      room == opt.page.width - left
  IN  IF room >= tip.width \/ ~ tip.breaks THEN [width |-> tip.width, height |-> tip.height]
      ELSE [width |-> tip.width \div 2, height |-> 2 * tip.height]

(* applyPlacement: the tip is put there, shown, and moved into the viewport  *)
(* with the size it has got; then its arrow is moved back. The margins that  *)
(* the style sheet gives it are left out.                                  *)
applyPlacement(side, at, port, size) ==
  LET shown == LaidOut(at.left)
      kept == IF side = "top" THEN [at EXCEPT !.top = @ + size.height - shown.height] ELSE at
      delta == getViewportAdjustedDelta(side, kept, port, shown)
      left == kept.left + delta.left
      final == LaidOut(left)
  IN  [side |-> side, left |-> left, top |-> kept.top + delta.top,
       width |-> final.width, height |-> final.height,
       arrow |-> IF Vertical(side)
                 THEN final.width - (delta.left * 2 - size.width + shown.width)
                 ELSE final.height - (delta.top * 2 - size.height + shown.height),
       scroll |-> scroll, steady |-> final = shown]

Placed ==
  LET pos == PositionOf(opt.page.element)
      size == LaidOut(0)
      side == Side(pos, Viewport, size)
  IN  applyPlacement(side, getCalculatedOffset(side, pos, size), Viewport, size)

-----------------------------------------------------------------------------
(* A function applied to an object does nothing more once it has thrown,    *)
(* and nearly all of them throw when $element is null.                     *)
Throws(o) == [o EXCEPT !.thrown = TRUE]

(* complete of hide, and what destroy adds.                                *)
Hidden(o, destroys) ==
  LET left == [o EXCEPT !.attached = @ /\ o.hoverState = "in", !.described = @ /\ o.gone]
      detached == IF left.attached THEN left ELSE [left EXCEPT !.place = None]
  IN  IF ~ destroys THEN detached
      ELSE IF o.gone THEN Throws(detached)
      ELSE [detached EXCEPT !.attached = FALSE, !.in = FALSE, !.fade = FALSE,
                              !.place = None, !.gone = TRUE]

hide(o, destroys, refused) ==
  IF o.gone THEN Throws(o)
  ELSE IF refused THEN o
  ELSE LET out == [o EXCEPT !.in = FALSE]
       IN  [(IF o.fade
             THEN [out EXCEPT !.bound = Append(@, IF destroys THEN "destroyed" ELSE "hidden")]
             ELSE Hidden(out, destroys)) EXCEPT !.hoverState = None]

leave(o, refused) ==
  IF o.inState # {} THEN o
  ELSE LET out == [o EXCEPT !.timeout = None, !.hoverState = "out"]
       IN  IF opt.delay.hide THEN [out EXCEPT !.timeout = "hide"] ELSE hide(out, FALSE, refused)

(* Mutation: what left while the tip came in is forgotten.                 *)
ShownMut(o, refused) == IF o.gone THEN Throws(o) ELSE [o EXCEPT !.hoverState = None]

(* complete of show.                                                       *)
Shown(o, refused) ==
  IF o.gone THEN Throws(o)
  ELSE LET rest == [o EXCEPT !.hoverState = None]
       IN  IF o.hoverState = "out" THEN leave(rest, refused) ELSE rest

(* show: refused by a function bound to the event, for lack of a title, or  *)
(* because the element is not in the document.                             *)
show(o, refused) ==
  IF o.gone THEN Throws(o)
  ELSE IF refused \/ ~ o.enabled THEN o
  ELSE LET inserted == [o EXCEPT !.attached = TRUE, !.in = TRUE, !.fade = opt.animation,
                                   !.place = Placed, !.described = TRUE]
       IN  IF opt.animation THEN [inserted EXCEPT !.bound = Append(@, "shown")]
           ELSE Shown(inserted, refused)

enter(o, refused) ==
  IF o.in \/ o.hoverState = "in" THEN [o EXCEPT !.hoverState = "in"]
  ELSE LET in == [o EXCEPT !.timeout = None, !.hoverState = "in"]
       IN  IF opt.delay.show THEN [in EXCEPT !.timeout = "show"] ELSE show(in, refused)

toggle(o, refused) == IF o.in THEN leave(o, refused) ELSE enter(o, refused)

(* toggle, for a click.                                                    *)
Click(o, refused) ==
  LET turned == [o EXCEPT !.inState = IF "click" \in @ THEN @ \ {"click"} ELSE @ \cup {"click"}]
  IN  IF turned.inState # {} THEN enter(turned, refused) ELSE leave(turned, refused)

destroy(o, refused) == hide([o EXCEPT !.timeout = None], TRUE, refused)

-----------------------------------------------------------------------------
(* Nothing but events, none of them refused; no tip that was left while it  *)
(* came in is wanted again before it has gone, and none that was wanted     *)
(* again while it went is left before it has come.                         *)
Plain(refused) ==
  /\ plain /\ ~ refused
  /\ \A i \in DOMAIN objects' :
       LET o == objects'[i]
           both(first, second) == \E j, k \in DOMAIN o.bound :
                                    j < k /\ o.bound[j] = first /\ o.bound[k] = second
       IN  ~ (o.hoverState = "in" /\ both("shown", "hidden"))
             /\ ~ (o.hoverState = "out" /\ both("hidden", "shown"))

(* Object i becomes o; the element forgets its object when one is gone.     *)
Becomes(all, i, o) ==
  /\ objects' = [all EXCEPT ![i] = [o EXCEPT !.thrown = FALSE]]
  /\ data' = IF o.gone /\ ~ all[i].gone THEN 0 ELSE i

Made(all) == Append(all, NewObject)

(* The element's object, made if there is none, becomes F of it.            *)
OnObject(F(_)) ==
  IF data # 0 THEN Becomes(objects, data, F(objects[data]))
  ELSE Len(objects) < MaxObjects /\ Becomes(Made(objects), Len(objects) + 1, F(NewObject))

Op == ops < MaxOps /\ ops' = ops + 1 /\ UNCHANGED <<opt, scroll>>

(* init: what an object, or an ancestor's, has bound.                       *)
Heard == opt.delegated \/ data # 0

Event(kind, enters) ==
  /\ Op
  /\ kind \in {"hover", "focus"} /\ enters = (kind \notin over)
  /\ over' = IF enters THEN over \cup {kind} ELSE over \ {kind}
  /\ IF ~ Heard THEN UNCHANGED <<objects, data, wanted, plain>>
     ELSE \E refused \in BOOLEAN :
       /\ wanted' = IF enters THEN wanted \cup {kind} ELSE wanted \ {kind}
       /\ OnObject(LAMBDA o : IF enters THEN enter([o EXCEPT !.inState = @ \cup {kind}], refused)
                              ELSE leave([o EXCEPT !.inState = @ \ {kind}], refused))
       /\ plain' = Plain(refused)

ClickOn ==
  /\ Op /\ Heard /\ UNCHANGED over
  /\ \E refused \in BOOLEAN :
       /\ wanted' = IF "click" \in wanted THEN wanted \ {"click"} ELSE wanted \cup {"click"}
       /\ OnObject(LAMBDA o : Click(o, refused))
       /\ plain' = Plain(refused)

(* Plugin.                                                                 *)
Call(F(_, _), needs) ==
  /\ Op /\ UNCHANGED <<over, wanted>>
  /\ plain' = FALSE
  /\ \E refused \in BOOLEAN :
       IF needs /\ data = 0 THEN UNCHANGED <<objects, data>>
       ELSE OnObject(LAMBDA o : F(o, refused))

ToggleEnabled(o, refused) == [o EXCEPT !.enabled = ~ @]

Calls ==
  \/ Call(show, FALSE)
  \/ Call(LAMBDA o, refused : hide(o, FALSE, refused), TRUE)
  \/ Call(toggle, FALSE)
  \/ Call(ToggleEnabled, FALSE)
  \/ Call(destroy, TRUE)

(* The timer of enter or of leave.                                         *)
Timeout ==
  /\ \E i \in DOMAIN objects :
       LET o == objects[i]
           rung == [o EXCEPT !.timeout = None]
       IN  /\ o.timeout # None
           /\ \E refused \in BOOLEAN :
                /\ objects' = [objects EXCEPT ![i] =
                     [(IF o.timeout = "show"
                       THEN IF o.hoverState = "in" THEN show(rung, refused) ELSE rung
                       ELSE IF o.hoverState = "out" THEN hide(rung, FALSE, refused) ELSE rung)
                      EXCEPT !.thrown = FALSE]]
                /\ plain' = Plain(refused)
  /\ UNCHANGED <<opt, scroll, data, over, ops, wanted>>

(* The transition of a tip ends: what was bound is called, up to one that   *)
(* throws.                                                                 *)
Ended(o, refused) ==
  LET Next1(p, w) ==
        IF p.thrown THEN [p EXCEPT !.bound = Append(@, w)]
        ELSE IF w = "shown" THEN Shown(p, refused) ELSE Hidden(p, w = "destroyed")
  IN  FoldLeft(Next1, [o EXCEPT !.bound = <<>>], o.bound)

TransitionEnd ==
  /\ \E i \in DOMAIN objects, refused \in BOOLEAN :
       /\ objects[i].bound # <<>>
       /\ LET o == Ended(objects[i], refused)
          IN  /\ objects' = [objects EXCEPT ![i] = [o EXCEPT !.thrown = FALSE]]
              /\ data' = IF o.gone /\ ~ objects[i].gone THEN 0 ELSE data
              /\ plain' = Plain(refused)
  /\ UNCHANGED <<opt, scroll, over, ops, wanted>>

(* The user scrolls the page; nothing listens.                              *)
Scroll ==
  /\ ops < MaxOps /\ ops' = ops + 1
  /\ scroll' \in Scrolls \ {scroll}
  /\ UNCHANGED <<opt, objects, data, over, wanted, plain>>

Next ==
  \/ \E kind \in {"hover", "focus"}, enters \in BOOLEAN : Event(kind, enters)
  \/ ClickOn \/ Calls \/ Scroll \/ Timeout \/ TransitionEnd

Spec == Init /\ [][Next]_vars /\ WF_vars(Timeout \/ TransitionEnd)

-----------------------------------------------------------------------------
Quiet == \A i \in DOMAIN objects : objects[i].timeout = None /\ objects[i].bound = <<>>

(* With nothing under way the tip is to be seen if the pointer, the focus   *)
(* or a click wants it, and otherwise it is not in the document, however    *)
(* these come and go during delays and transitions.                        *)
ShownIfWanted ==
  Quiet /\ plain /\ data # 0 =>
    LET o == objects[data] IN o.attached = (wanted # {}) /\ o.in = (wanted # {})

(* A tip that lies across the viewport where it is put lies within it, and   *)
(* away from its edges, if it is not larger, however the page was scrolled   *)
(* before the timer rang; where the viewport is a box that is itself         *)
(* scrolled this is not so, since getViewportAdjustedDelta takes the scroll  *)
(* of the box off a place in the page.                                     *)
WithinViewport ==
  \A i \in DOMAIN objects :
    LET tip == objects[i].place
        port == IF opt.page.inBody
                THEN [BodyPosition EXCEPT !.top = tip.scroll] ELSE PositionOf(opt.page.box)
        within(edge, length, start, room) ==
          length + 2 * opt.page.padding <= room =>
            /\ edge >= start + opt.page.padding
            /\ edge + length + opt.page.padding <= start + room
    IN  tip # None /\ tip.steady =>
          IF Vertical(tip.side) THEN within(tip.left, tip.width, port.left, port.width)
          ELSE opt.page.inBody \/ opt.page.box.scroll = 0 =>
                 within(tip.top, tip.height, port.top, port.height)

(* However a tip is moved or resized, it touches its element and its arrow   *)
(* points to the middle of it, unless it was resized when moved back.        *)
PointsAtElement ==
  \A i \in DOMAIN objects :
    LET tip == objects[i].place
        element == opt.page.element
        touches == CASE tip.side = "top"    -> tip.top + tip.height = element.top
                     [] tip.side = "bottom" -> tip.top = element.top + element.height
                     [] tip.side = "left"   -> tip.left + tip.width = element.left
                     [] OTHER               -> tip.left = element.left + element.width
    IN  tip # None /\ tip.steady =>
          /\ touches
          /\ IF Vertical(tip.side) THEN 2 * tip.left + tip.arrow = 2 * element.left + element.width
             ELSE 2 * tip.top + tip.arrow = 2 * element.top + element.height

(* Where auto is asked for and there is room on one of two opposite sides,   *)
(* the tip is put into that room; but for a box to the left or right of whose *)
(* element it is put, since show compares with the width of the box, which  *)
(* is not its right edge.                                                  *)
AutoFindsRoom ==
  \A i \in DOMAIN objects :
    LET tip == objects[i].place
        size == opt.page.tip
        element == opt.page.element
        box == IF opt.page.inBody
               THEN [left |-> 0, top |-> 0, width |-> opt.page.width, height |-> opt.page.document]
               ELSE opt.page.box
        above == element.top - box.top
        below == box.top + box.height - element.top - element.height
        before == element.left
        after == opt.page.width - element.left - element.width
    IN  tip # None /\ opt.placement.auto /\ tip.height = size.height =>
          /\ tip.side = "top" => size.height <= above \/ size.height > below
          /\ tip.side = "bottom" => size.height <= below \/ size.height > above
          /\ opt.page.inBody =>
               /\ tip.side = "left" => size.width <= before \/ size.width > after
               /\ tip.side = "right" => size.width <= after \/ size.width > before

(* The element is never described by a tip that is not in the document.      *)
DescribedByTip == \A i \in DOMAIN objects : objects[i].described => objects[i].attached
=============================================================================
