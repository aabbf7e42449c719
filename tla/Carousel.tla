------------------------------ MODULE Carousel ------------------------------
(***************************************************************************)
(* The carousel of Bootstrap (bootstrap.js 309-536): items of which one is  *)
(* shown slide by a timer, by keys and by calls; what comes during a slide  *)
(* is ignored or put off to its end.                                       *)
(***************************************************************************)
EXTENDS Naturals, Sequences, SequencesExt, FiniteSets, TLC

CONSTANTS Items,   \* number of items, 0 to Items - 1
          MaxOps   \* bound on calls, keys and the ticks of the timer

VARIABLES
  opt,   \* wrap, interval (whether it has one), slides (whether it has transitions)
  show,  \* the carousel
  ops,
  late   \* how many slides are over whose event is still to come

vars == <<opt, show, ops, late>>

Item == 0 .. Items - 1

Init ==
  /\ opt \in [wrap : BOOLEAN, interval : BOOLEAN, slides : BOOLEAN]
  /\ show = [active |-> {0}, indicator |-> 0,
             sliding |-> FALSE,
             paused |-> FALSE,
             timer |-> FALSE,
             bound |-> <<>>,    \* transitions on their way: from, to
             waiting |-> <<>>]  \* items asked for during a slide
  /\ ops = 0 /\ late = 0

-----------------------------------------------------------------------------
First(items) == CHOOSE i \in items : \A j \in items : i <= j

(* pause and cycle, called for an event or not.                            *)
pause(s, event) == [s EXCEPT !.paused = @ \/ ~ event, !.timer = FALSE]

cycle(s, event) ==
  LET goes == [s EXCEPT !.paused = @ /\ event]
  IN  [goes EXCEPT !.timer = opt.interval /\ ~ goes.paused]

getItemForDirection(type, active) ==
  IF type = "prev" THEN IF active > 0 THEN active - 1 ELSE IF opt.wrap THEN Items - 1 ELSE active
  ELSE IF active < Items - 1 \/ opt.wrap THEN (active + 1) % Items ELSE active

(* slide; a function of the page may prevent it.                           *)
slide(s, next, prevented) ==
  IF next \in s.active THEN [s EXCEPT !.sliding = FALSE]
  ELSE IF prevented THEN s
  ELSE LET halted == IF s.timer THEN pause(s, FALSE) ELSE s
           moved == IF opt.slides
                    THEN [halted EXCEPT !.sliding = TRUE, !.indicator = next,
                                        !.bound = Append(@, [from |-> s.active, to |-> next])]
                    ELSE [halted EXCEPT !.sliding = FALSE, !.indicator = next, !.active = {next}]
       IN  IF s.timer THEN cycle(moved, FALSE) ELSE moved

(* next and prev.                                                          *)
Step(s, type, prevented) ==
  IF s.sliding THEN s ELSE slide(s, getItemForDirection(type, First(s.active)), prevented)

(* Mutation: a slide that is under way does not matter.                    *)
toMut(s, pos, prevented) ==
  IF pos \notin Item THEN s
  ELSE IF pos = First(s.active) THEN cycle(pause(s, FALSE), FALSE)
  ELSE slide(s, pos, prevented)

to(s, pos, prevented) ==
  IF pos \notin Item THEN s
  ELSE IF s.sliding THEN [s EXCEPT !.waiting = Append(@, pos)]
  ELSE IF pos = First(s.active) THEN cycle(pause(s, FALSE), FALSE)
  ELSE slide(s, pos, prevented)

-----------------------------------------------------------------------------
Op(next(_)) == ops < MaxOps /\ ops' = ops + 1 /\ UNCHANGED <<opt, late>>
                 /\ \E prevented \in BOOLEAN : show' = next(prevented)

(* A key, or a click on what has data-slide.                               *)
Turn(type) == Op(LAMBDA prevented : Step(show, type, prevented))

(* carousel(pos), or a click on what has data-slide-to.                    *)
To(pos) == Op(LAMBDA prevented : to(show, pos, prevented))

(* carousel("pause"), carousel("cycle"), carousel({...}), and the pointer.  *)
Call ==
  \/ Op(LAMBDA prevented : pause(show, FALSE))
  \/ Op(LAMBDA prevented : cycle(show, FALSE))
  \/ opt.interval /\ Op(LAMBDA prevented : cycle(pause(show, FALSE), FALSE))
  \/ Op(LAMBDA prevented : pause(show, TRUE))
  \/ Op(LAMBDA prevented : cycle(show, TRUE))

Tick == show.timer /\ Op(LAMBDA prevented : Step(show, "next", prevented))

TransitionEnd ==
  /\ show.bound # <<>>
  /\ LET b == Head(show.bound)
     IN  show' = [show EXCEPT !.bound = Tail(@), !.sliding = FALSE,
                              !.active = (@ \ b.from) \cup {b.to}]
  /\ late' = late + 1
  /\ UNCHANGED <<opt, ops>>

(* Mutation: the event at the end of a slide is not waited for.            *)
PutOffMut(s, prevented) == s

(* What has been put off is done, or put off again.                        *)
PutOff(s, prevented) ==
  FoldLeft(LAMBDA t, pos : to(t, pos, prevented), [s EXCEPT !.waiting = <<>>], s.waiting)

(* slid, in a timeout of its own.                                          *)
Slid ==
  /\ late > 0
  /\ late' = late - 1
  /\ \E prevented \in BOOLEAN : show' = PutOff(show, prevented)
  /\ UNCHANGED <<opt, ops>>

Next ==
  \/ Turn("next") \/ Turn("prev") \/ (\E pos \in Item : To(pos)) \/ Call
  \/ Tick \/ TransitionEnd \/ Slid

Spec == Init /\ [][Next]_vars /\ WF_vars(TransitionEnd) /\ WF_vars(Slid)

-----------------------------------------------------------------------------
(* One item is shown, never two; between slides its indicator is the one    *)
(* that is lit, and the timer does not run while the carousel is paused.   *)
OneItem ==
  /\ Cardinality(show.active) = 1
  /\ ~ show.sliding => show.bound = <<>> /\ show.active = {show.indicator}
  /\ show.paused => ~ show.timer

(* An item asked for during a slide is gone to in the end.                 *)
PutOffDone == show.waiting # <<>> ~> show.waiting = <<>>
=============================================================================
