------------------------------ MODULE Collapse -------------------------------
(***************************************************************************)
(* The collapsing panels of Bootstrap (bootstrap.js 548-749), the navigation *)
(* bar of every page among them: one panel of its own, or several of one   *)
(* parent of which opening one closes another.  Panels open and close in   *)
(* transitions, and clicks do not wait for them.                           *)
(***************************************************************************)
EXTENDS Naturals, Sequences, SequencesExt, FiniteSets

CONSTANTS Panel,     \* panels, numbers in the order of the page
          Parent,    \* whether they have a parent in common, a set of BOOLEANs
          MaxOps     \* bound on the clicks and calls

VARIABLES
  grouped,
  panels, \* the classes of the panels and of what toggles them, and their objects
  ops,
  wasOpen  \* for the properties: whether a panel was open from the start

vars == <<grouped, panels, ops, wasOpen>>

Init ==
  /\ grouped \in Parent
  /\ \E open \in {{}} \cup {{p} : p \in Panel} :
       /\ wasOpen = (open # {})
       /\ panels = [in |-> open,
                 collapsing |-> {},
                 collapsed |-> Panel \ open, \* panels whose trigger has the class
                 data |-> [p \in Panel |-> 0], \* the object kept for p, 0 for none
                 objects |-> 0,
                 transitioning |-> {},       \* objects
                 bound |-> <<>>]             \* what waits for the end of a transition
  /\ ops = 0

-----------------------------------------------------------------------------
Moving(s) == s.in \cup s.collapsing

(* The function `complete' of show and of hide.                            *)
Complete(s, w) ==
  [s EXCEPT !.collapsing = @ \ {w.panel},
            !.in = IF w.shows THEN @ \cup {w.panel} ELSE @,
            !.transitioning = @ \ {w.object}]

Begin(s, p, object, shows) ==
  [s EXCEPT !.collapsing = @ \cup {p},
            !.in = IF shows THEN @ ELSE @ \ {p},
            !.collapsed = IF shows THEN @ \ {p} ELSE @ \cup {p},
            !.transitioning = @ \cup {object},
            !.bound = Append(@, [panel |-> p, object |-> object, shows |-> shows])]

hide(s, p) ==
  IF s.data[p] \in s.transitioning \/ p \notin s.in THEN s ELSE Begin(s, p, s.data[p], FALSE)

(* Plugin: the object of p, made if there is none; one with a parent looks  *)
(* at the triggers of all of its panels.                                   *)
WithObject(s, p) ==
  IF s.data[p] # 0 THEN s
  ELSE [s EXCEPT !.objects = @ + 1, !.data[p] = s.objects + 1,
                 !.collapsed = IF grouped THEN Panel \ s.in
                               ELSE IF p \in s.in THEN @ \ {p} ELSE @ \cup {p}]

First(set) == CHOOSE p \in set : \A q \in set : p <= q

(* Mutation: a panel opens though another one is on its way.               *)
BusyMut(s, actives) == FALSE

Busy(s, actives) == actives # {} /\ s.data[First(actives)] \in s.transitioning

(* show: the panels that are open, or on the way, are hidden; objects that  *)
(* were made for this are forgotten.                                       *)
show(s, p) ==
  LET object == s.data[p]
      actives == IF grouped THEN Moving(s) ELSE {}
      forget == actives # {} /\ s.data[First(actives)] = 0
      hidden == FoldLeft(LAMBDA t, q : hide(WithObject(t, q), q), s,
                         SetToSortSeq(actives, LAMBDA a, b : a < b))
      alone == IF forget THEN [hidden EXCEPT !.data = [q \in Panel |-> IF q \in actives THEN 0
                                                                       ELSE @[q]]]
               ELSE hidden
  IN  IF object \in s.transitioning \/ p \in s.in \/ Busy(s, actives) THEN s
      ELSE Begin(alone, p, object, TRUE)

toggle(s, p) == IF p \in s.in THEN hide(s, p) ELSE show(s, p)

-----------------------------------------------------------------------------
Op == ops < MaxOps /\ ops' = ops + 1 /\ UNCHANGED <<grouped, wasOpen>>

(* A click on a trigger, collapse("show") and collapse("hide").  A function *)
(* bound to the event may prevent it.                                      *)
Click(p) == Op /\ panels' \in {WithObject(panels, p), toggle(WithObject(panels, p), p)}
Show(p) == Op /\ panels' \in {WithObject(panels, p), show(WithObject(panels, p), p)}
Hide(p) == Op /\ panels' \in {WithObject(panels, p), hide(WithObject(panels, p), p)}

(* The transition of p is over.                                            *)
TransitionEnd(p) ==
  /\ \E w \in ToSet(panels.bound) : w.panel = p
  /\ panels' = FoldLeft(Complete, [panels EXCEPT !.bound = SelectSeq(@, LAMBDA w : w.panel # p)],
                        SelectSeq(panels.bound, LAMBDA w : w.panel = p))
  /\ UNCHANGED <<grouped, ops, wasOpen>>

TransitionsEnd == \E p \in Panel : TransitionEnd(p)

Next == (\E p \in Panel : Click(p) \/ Show(p) \/ Hide(p)) \/ TransitionsEnd

Spec == Init /\ [][Next]_vars /\ WF_vars(TransitionsEnd)

-----------------------------------------------------------------------------
Quiet == panels.bound = <<>>

(* Of the panels of one parent no more than one comes to be open, however   *)
(* the clicks and the transitions fall; unless one was open when the page   *)
(* came, whose object is forgotten while it still closes.                  *)
OneOpen == grouped /\ ~ wasOpen /\ Quiet => Cardinality(panels.in) <= 1

(* A panel comes to rest open or closed, free to move again, and what      *)
(* toggles a panel without a parent looks as the panel does.               *)
RestsWhole ==
  Quiet =>
    /\ panels.collapsing = {} /\ panels.transitioning = {}
    /\ ~ grouped => panels.collapsed = Panel \ panels.in
=============================================================================
