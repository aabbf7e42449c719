-------------------------------- MODULE Modal --------------------------------
(***************************************************************************)
(* The modal dialog of Bootstrap (bootstrap.js 926-1255), in which the page *)
(* of rule discovery shows that its rules are ready.  Showing and hiding    *)
(* take transitions: of the backdrop, then of the dialog; of the element,  *)
(* then of the backdrop.  A transition ends when the browser says so or,   *)
(* at the latest, when a timer says so for it (54-61).                     *)
(***************************************************************************)
EXTENDS Integers, Sequences, FiniteSets

CONSTANTS Fade,     \* whether the element fades, a set of BOOLEANs
          Backdrop, \* the `backdrop' options: "true", "static", "false"
          MaxOps    \* bound on the calls of show and hide

VARIABLES
  fade, option,
  modal, \* the Modal object and the part of the page it manages
  ops,
  hasty  \* for the properties: show was called before a hide was over

dialogVars == <<fade, option, modal, ops, hasty>>

ClosedDialog ==
  [isShown |-> FALSE,
   displayed |-> FALSE, in |-> FALSE, \* the element
   open |-> FALSE,                    \* `modal-open' of the body
   pad |-> 0, originalBodyPad |-> 0,  \* padding of the body for the scrollbar
   backdrop |-> 0, backdrops |-> {},  \* $backdrop and all those in the page
   dismiss |-> 0, outside |-> 0,      \* functions bound to clicks in the element,
   mousedown |-> 0, mouseup |-> 0,    \* to the mouse in the dialog,
   keydown |-> 0, resize |-> 0, focusin |-> 0,
   ignoreBackdropClick |-> FALSE,
   bound |-> <<>>,                    \* functions waiting for the end of a transition
   hides |-> 0, hidden |-> 0]         \* hides begun, `hidden' events

DialogInit ==
  /\ fade \in Fade /\ option \in Backdrop
  /\ \E scrolls \in {0, 1} : modal = [ClosedDialog EXCEPT !.pad = scrolls, !.originalBodyPad = scrolls]
  /\ ops = 0 /\ hasty = FALSE

-----------------------------------------------------------------------------
(* What a transition is of.                                                *)
Element == <<"element", 0>>
Dialog == <<"dialog", 0>>

Waits(m, on, do) == [m EXCEPT !.bound = Append(@, [on |-> on, do |-> do])]

enforceFocus(m) == [m EXCEPT !.focusin = 1]

(* show, once the backdrop is there.                                       *)
ShowElement(m) ==
  LET s == enforceFocus([m EXCEPT !.displayed = TRUE, !.in = TRUE])
  IN  IF fade THEN Waits(s, Dialog, "shown") ELSE s

(* hideModal, once the backdrop has gone.                                  *)
ResetPage(m) == [m EXCEPT !.open = FALSE, !.pad = m.originalBodyPad, !.hidden = @ + 1]

removeBackdrop(m) == [m EXCEPT !.backdrops = @ \ {m.backdrop}, !.backdrop = 0]

Next1(m) == 1 + Cardinality(m.backdrops) + m.backdrop

(* backdrop(callback) of a modal that is shown.                            *)
AddBackdrop(m, do) ==
  LET b == Next1(m)
      s == [m EXCEPT !.backdrop = b, !.backdrops = @ \cup {b}, !.outside = @ + 1]
  IN  IF fade THEN Waits(s, <<"backdrop", b>>, do) ELSE IF do = "show" THEN ShowElement(s) ELSE ResetPage(s)

backdrop(m, do) ==
  IF m.isShown /\ option # "false" THEN AddBackdrop(m, do)
  ELSE IF ~ m.isShown /\ m.backdrop # 0
  THEN IF fade THEN Waits(m, <<"backdrop", m.backdrop>>, "remove") ELSE ResetPage(removeBackdrop(m))
  ELSE IF do = "show" THEN ShowElement(m) ELSE ResetPage(m)

(* Mutation: the element stays where it is.                                *)
hideModalMut(m) == backdrop(m, "reset")

hideModal(m) == backdrop([m EXCEPT !.displayed = FALSE], "reset")

(* What a function that waited does.                                       *)
Do(m, w) ==
  CASE w.do = "show" -> ShowElement(m)
    [] w.do = "shown" -> m
    [] w.do = "hide" -> hideModal(m)
    [] w.do = "remove" -> ResetPage(removeBackdrop(m))
    [] w.do = "reset" -> ResetPage(m)

-----------------------------------------------------------------------------
setScrollbar(m) == [m EXCEPT !.originalBodyPad = m.pad, !.pad = @ + 1]

Shown(m) ==
  backdrop([setScrollbar(m) EXCEPT !.isShown = TRUE, !.open = TRUE, !.keydown = @ + 1,
              !.resize = @ + 1, !.dismiss = @ + 1, !.mousedown = @ + 1], "show")

(* Mutation: the functions of a click in the element stay bound.           *)
UnboundMut(m) == [m EXCEPT !.keydown = 0, !.resize = 0, !.focusin = 0, !.mouseup = 0, !.mousedown = 0]

Unbound(m) ==
  [m EXCEPT !.keydown = 0, !.resize = 0, !.focusin = 0, !.dismiss = 0, !.outside = 0,
            !.mouseup = 0, !.mousedown = 0]

Hidden(m) ==
  LET s == [Unbound(m) EXCEPT !.isShown = FALSE, !.in = FALSE, !.hides = @ + 1]
  IN  IF fade THEN Waits(s, Element, "hide") ELSE hideModal(s)

Op == ops < MaxOps /\ ops' = ops + 1 /\ UNCHANGED <<fade, option>>

(* A function bound to the `show' or `hide' event may prevent it.          *)
Prevented == UNCHANGED <<modal, hasty>>

show ==
  /\ Op
  /\ \/ Prevented
     \/ IF modal.isShown THEN Prevented
        ELSE modal' = Shown(modal) /\ hasty' = (hasty \/ modal.bound # <<>>)

hide ==
  /\ Op
  /\ \/ Prevented
     \/ IF ~ modal.isShown THEN Prevented ELSE modal' = Hidden(modal) /\ UNCHANGED hasty

(* modal() and modal("hide") by the page, the toggle of its button, the    *)
(* cross of the dialog, the escape key.                                    *)
toggle == IF modal.isShown THEN hide ELSE show
ClickDismiss == modal.displayed /\ modal.dismiss > 0 /\ hide
Escape == modal.displayed /\ modal.keydown > 0 /\ hide

-----------------------------------------------------------------------------
(* A click beside the dialog hides it, unless the mouse went down in it.   *)
MouseDown ==
  /\ modal.displayed /\ modal.mousedown > 0 /\ modal.mouseup = 0
  /\ modal' = [modal EXCEPT !.mouseup = 1]
  /\ UNCHANGED <<fade, option, ops, hasty>>

MouseUp ==
  /\ modal.mouseup = 1
  /\ \E outside \in BOOLEAN :
       modal' = [modal EXCEPT !.mouseup = 0, !.ignoreBackdropClick = @ \/ outside]
  /\ UNCHANGED <<fade, option, ops, hasty>>

ClickOutside ==
  /\ modal.displayed /\ modal.outside > 0
  /\ IF modal.ignoreBackdropClick
     THEN /\ modal' = [modal EXCEPT !.ignoreBackdropClick = FALSE]
          /\ UNCHANGED <<fade, option, ops, hasty>>
     ELSE option # "static" /\ hide

(* That of the dialog takes twice as long as the others; those that take   *)
(* the same time end as they began.                                        *)
Long(w) == w.on = Dialog
InTime(on) ==
  \A i, j \in 1 .. Len(modal.bound) :
    i < j /\ modal.bound[j].on = on /\ (Long(modal.bound[i]) => Long(modal.bound[j]))
      => modal.bound[i].on = on

(* What waits for the end of another transition goes on waiting.           *)
Others(ws, on) ==
  LET others[n \in 0 .. Len(ws)] ==
        IF n = 0 THEN <<>>
        ELSE IF ws[n].on = on THEN others[n - 1] ELSE Append(others[n - 1], ws[n])
  IN  others[Len(ws)]

(* What waited for that of `on' is done, in the order in which it was bound. *)
Done(m, on) ==
  LET done[n \in 0 .. Len(m.bound)] ==
        IF n = 0 THEN [m EXCEPT !.bound = Others(m.bound, on)]
        ELSE IF m.bound[n].on = on THEN Do(done[n - 1], m.bound[n]) ELSE done[n - 1]
  IN  done[Len(m.bound)]

(* The transition of the dialog, the element or a backdrop is over.         *)
TransitionEnd(on) ==
  /\ InTime(on)
  /\ modal' = Done(modal, on)
  /\ UNCHANGED <<fade, option, ops, hasty>>

TransitionsEnd == \E i \in 1 .. Len(modal.bound) : TransitionEnd(modal.bound[i].on)

DialogNext ==
  \/ show \/ hide \/ toggle \/ ClickDismiss \/ Escape
  \/ MouseDown \/ MouseUp \/ ClickOutside \/ TransitionsEnd

DialogSpec == DialogInit /\ [][DialogNext]_dialogVars /\ WF_dialogVars(TransitionsEnd)

-----------------------------------------------------------------------------
Quiet == modal.bound = <<>>

(* A modal that has gone leaves nothing behind, though it may have been     *)
(* hidden while it was still coming: no element, no backdrop over the page, *)
(* no padding, nothing bound to its clicks.  One that is shown again before *)
(* it has gone may.                                                        *)
GoneClean ==
  ~ modal.isShown /\ Quiet /\ ~ hasty =>
    /\ ~ modal.displayed /\ ~ modal.open
    /\ modal.backdrops = {}
    /\ modal.pad = modal.originalBodyPad /\ modal.pad \in {0, 1}
    /\ modal.dismiss = 0 /\ modal.outside = 0 /\ modal.keydown = 0 /\ modal.resize = 0
    /\ modal.hidden = modal.hides

(* A modal that is shown is there, with one backdrop, and each way to hide  *)
(* it works once.                                                          *)
ShownWhole ==
  modal.isShown /\ Quiet /\ ~ hasty =>
    /\ modal.displayed /\ modal.in /\ modal.open /\ modal.focusin = 1
    /\ modal.dismiss = 1 /\ modal.keydown = 1 /\ modal.resize = 1
    /\ option # "false" => modal.backdrops = {modal.backdrop} /\ modal.outside = 1
=============================================================================
