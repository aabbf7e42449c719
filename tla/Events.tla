------------------------------- MODULE Events --------------------------------
(***************************************************************************)
(* Events of jQuery (jquery-3.2.1.js 4905-5610, 8111-8278): functions bound *)
(* to an element, directly or for the elements below it that a selector    *)
(* matches; events of the browser and events the page triggers, from inside *)
(* the functions too; functions bound for one call; off at any moment.     *)
(*                                                                         *)
(* The document is one path, its target first and the root last.  Focus and *)
(* blur, which have rules of their own, and onclick attributes are left    *)
(* out.                                                                    *)
(***************************************************************************)
EXTENDS Naturals, Sequences, SequencesExt

CONSTANTS Path,      \* the elements, from the target up to the root
          Kinds,     \* what the target may be: "checkbox", "radio", "a", "div"
          MatchedBy, \* MatchedBy[sel]: the elements a selector matches
          Bindings,  \* what the page binds: [elem, type, selector, fn, ns, one]
          MaxBinds,  \* bound on the calls of on
          MaxEvents, \* bound on the events
          MaxOffs    \* bound on the calls of off

Elem == ToSet(Path)
Types == {"click", "change", "mouseover"}

(* The elements are above each other, and what is bound has the parts       *)
(* jQuery takes from what `on' is called with.                             *)
GoodEvents ==
  /\ Path \in Seq(Elem) /\ Path # <<>>
  /\ \A i, j \in 1 .. Len(Path) : Path[i] = Path[j] => i = j
  /\ \A b \in Bindings :
       b \in [elem : Elem, type : Types \cup {"mouseenter"}, selector : STRING, fn : STRING,
              ns : STRING, one : BOOLEAN]

ASSUME EventsInput == GoodEvents

Depth(e) == CHOOSE i \in 1 .. Len(Path) : Path[i] = e
Up(e) == SubSeq(Path, Depth(e), Len(Path))

VARIABLES
  targetKind,
  handlers,      \* handlers[e][t]: the handle objects of e for events t
  delegateCount, \* delegateCount[e][t]
  listening,     \* the pairs <<e, t>> with an event listener of the browser
  stack,         \* the events under way, the innermost first
  triggered,     \* jQuery.event.triggered
  binds, events, offs,
  spent          \* for the properties: `one' bindings that have been called

eventVars == <<targetKind, handlers, delegateCount, listening, stack, triggered, binds, events, offs, spent>>

bindings == <<handlers, delegateCount, listening>>
counts == <<binds, events, offs>>

EventsInit ==
  /\ targetKind \in Kinds
  /\ handlers = [e \in Elem |-> [t \in Types |-> <<>>]]
  /\ delegateCount = [e \in Elem |-> [t \in Types |-> 0]]
  /\ listening = {} /\ stack = <<>> /\ triggered = "none"
  /\ binds = 0 /\ events = 0 /\ offs = 0 /\ spent = {}

(* Code of the page has its turn.                                          *)
UserRuns == stack # <<>> => Head(stack).running

(* mouseenter is mouseover with a test of its own.                         *)
bindType(type) == IF type = "mouseenter" THEN "mouseover" ELSE type

-----------------------------------------------------------------------------
(* jQuery.event.add: delegated functions go before the direct ones.         *)
Bind(b) ==
  LET t == bindType(b.type)
      n == delegateCount[b.elem][t]
      h == [id |-> binds + 1, type |-> b.type, selector |-> b.selector, fn |-> b.fn,
            ns |-> b.ns, one |-> b.one]
      delegated == b.selector # ""
  IN  /\ UserRuns /\ binds < MaxBinds
      /\ binds' = binds + 1
      /\ listening' = IF handlers[b.elem][t] = <<>> THEN listening \cup {<<b.elem, t>>}
                      ELSE listening
      /\ handlers' = [handlers EXCEPT ![b.elem][t] =
                        IF delegated THEN InsertAt(@, n + 1, h) ELSE Append(@, h)]
      /\ delegateCount' = [delegateCount EXCEPT ![b.elem][t] = IF delegated THEN @ + 1 ELSE @]
      /\ UNCHANGED <<targetKind, stack, triggered, events, offs, spent>>

(* Those of a list that are in a set.                                      *)
Those(s, T) ==
  LET those[n \in 0 .. Len(s)] ==
        IF n = 0 THEN <<>>
        ELSE IF s[n] \in T THEN Append(those[n - 1], s[n]) ELSE those[n - 1]
  IN  those[Len(s)]

(* What jQuery.event.remove takes away: "" stands for any type, function,  *)
(* namespace or selector, "**" for any selector but none.                  *)
Hit(h, type, fn, ns, selector) ==
  /\ type \in {"", h.type} /\ fn \in {"", h.fn} /\ ns \in {"", h.ns}
  /\ selector \in {"", h.selector} \/ (selector = "**" /\ h.selector # "")

(* Mutation: a delegated function that goes is still counted.              *)
UncountedMut(h) == FALSE

Uncounted(h) == h.selector # ""

remove(e, type, fn, ns, selector) ==
  LET hit(t) == {h \in ToSet(handlers[e][t]) : Hit(h, type, fn, ns, selector)}
      kept == [t \in Types |-> Those(handlers[e][t], ToSet(handlers[e][t]) \ hit(t))]
      gone(t) == Those(handlers[e][t], {h \in hit(t) : Uncounted(h)})
  IN  /\ handlers' = [handlers EXCEPT ![e] = kept]
      /\ delegateCount' = [delegateCount EXCEPT ![e] = [t \in Types |-> @[t] - Len(gone(t))]]
      /\ listening' = listening \
           {<<e, t>> : t \in {u \in Types : handlers[e][u] # <<>> /\ kept[u] = <<>>}}

Off(e, type, fn, ns, selector) ==
  /\ UserRuns /\ offs < MaxOffs
  /\ offs' = offs + 1
  /\ remove(e, type, fn, ns, selector)
  /\ UNCHANGED <<targetKind, stack, triggered, binds, events, spent>>

-----------------------------------------------------------------------------
(* Events.  how: "native" for one of the browser, "trigger", "handler" for  *)
(* triggerHandler, and "default" for the one a browser makes in the default *)
(* action of a triggered one.  `related' is the place in the path of what   *)
(* the pointer comes from, beyond the end if from outside.                 *)
Event(type, how, path, ns, related) ==
  [type |-> type, how |-> how, target |-> path[1], path |-> path, ns |-> ns,
   related |-> related, owner |-> path[1], queue |-> <<>>, running |-> FALSE,
   stopped |-> FALSE, immediate |-> FALSE, prevented |-> FALSE, at |-> path[1], seen |-> <<>>]

Outside == Len(Path) + 1

Raise(event) ==
  /\ events < MaxEvents /\ events' = events + 1
  /\ stack' = <<event>> \o stack
  /\ UNCHANGED <<targetKind, bindings, triggered, binds, offs, spent>>

(* The user clicks, or moves the pointer.                                  *)
Native(e, type, related) ==
  /\ stack = <<>> /\ related > Depth(e)
  /\ Raise(Event(type, "native", Up(e), "", related))

IsInput(e, k) == e = Path[1] /\ targetKind = k

(* $(e).trigger("click"), with a namespace or not: a checkbox is clicked    *)
(* by the browser.                                                         *)
Trigger(e, ns) ==
  /\ UserRuns
  /\ Raise(IF IsInput(e, "checkbox") THEN Event("click", "native", Up(e), "", Outside)
           ELSE Event("click", "trigger", Up(e), ns, Outside))

TriggerHandler(e, ns) == UserRuns /\ Raise(Event("click", "handler", <<e>>, ns, Outside))

-----------------------------------------------------------------------------
Top == Head(stack)
Replace(event) == stack' = <<event>> \o Tail(stack)

At(x, hs) == [i \in 1 .. Len(hs) |-> [elem |-> x, h |-> hs[i]]]

(* jQuery.event.handlers: what a selector matches below e, from the target  *)
(* up, then the functions of e itself.                                     *)
HandlerQueue(e, event) ==
  LET bound == handlers[e][event.type]
      n == delegateCount[e][event.type]
      delegated == SubSeq(bound, 1, n)
      below == SubSeq(Path, Depth(event.target), Depth(e) - 1)
      matched(x) == Those(delegated, {h \in ToSet(delegated) : x \in MatchedBy[h.selector]})
      queued[i \in 0 .. Len(below)] ==
        IF i = 0 THEN <<>> ELSE queued[i - 1] \o At(below[i], matched(below[i]))
      all == queued[Len(below)] \o At(e, SubSeq(bound, n + 1, Len(bound)))
  IN  Those(all, {c \in ToSet(all) : event.ns \in {"", c.h.ns}})

(* Mutation: the event of a default action is not told from another.       *)
SilencedMut(type) == FALSE

Silenced(type) == triggered = type

(* The event arrives at the next element, whose functions are collected.   *)
Arrive ==
  /\ stack # <<>> /\ ~ Top.running /\ Top.queue = <<>> /\ Top.path # <<>> /\ ~ Top.stopped
  /\ LET e == Head(Top.path)
     IN  Replace([Top EXCEPT !.path = Tail(@), !.owner = e,
                    !.queue = IF <<e, Top.type>> \in listening /\ ~ Silenced(Top.type)
                              THEN HandlerQueue(e, Top) ELSE <<>>])
  /\ UNCHANGED <<targetKind, bindings, triggered, counts, spent>>

HasNext == stack # <<>> /\ ~ Top.running /\ Top.queue # <<>>

(* Mutation: stopPropagation is looked at between elements only.           *)
GoesOnMut(event, c) == ~ event.immediate

GoesOn(event, c) == ~ event.immediate /\ (event.stopped => c.elem = event.at)

(* mouseenter: the pointer was not on the element yet.                     *)
Entered(c) == c.h.type = "mouseenter" => Depth(c.elem) < Top.related

(* Mutation: a function bound for one call goes with its own namespace only *)
(* if the event has it.                                                    *)
SpentMut(c) == Top.ns = c.h.ns

Spent(c) == TRUE

(* The next function is called; `one' first takes it off.                  *)
Call ==
  /\ HasNext
  /\ LET c == Head(Top.queue)
     IN  /\ GoesOn(Top, c)
         /\ Replace([Top EXCEPT !.queue = Tail(@), !.at = c.elem, !.running = Entered(c),
                                !.seen = IF Entered(c) THEN Append(@, <<c.elem, c.h.id>>) ELSE @])
         /\ IF Entered(c) /\ c.h.one
            THEN /\ spent' = spent \cup {c.h.id}
                 /\ IF Spent(c) THEN remove(Top.owner, c.h.type, c.h.fn, c.h.ns, c.h.selector)
                    ELSE UNCHANGED bindings
            ELSE UNCHANGED <<bindings, spent>>
  /\ UNCHANGED <<targetKind, triggered, counts>>

Skip ==
  /\ HasNext /\ ~ GoesOn(Top, Head(Top.queue))
  /\ Replace([Top EXCEPT !.queue = <<>>])
  /\ UNCHANGED <<targetKind, bindings, triggered, counts, spent>>

(* The function returns, having asked for this.                            *)
Return(ask) ==
  /\ stack # <<>> /\ Top.running
  /\ Replace([Top EXCEPT !.running = FALSE,
                !.prevented = @ \/ ask \in {"prevent", "false"},
                !.stopped = @ \/ ask \in {"stop", "immediate", "false"},
                !.immediate = @ \/ ask = "immediate"])
  /\ UNCHANGED <<targetKind, bindings, triggered, counts, spent>>

-----------------------------------------------------------------------------
(* An event has run its course: its default action.                        *)

Over == stack # <<>> /\ ~ Top.running /\ Top.queue = <<>> /\ (Top.path = <<>> \/ Top.stopped)

(* A box that is clicked has changed.                                      *)
Changes(event) ==
  /\ event.type = "click" /\ event.how \in {"native", "default"} /\ ~ event.prevented
  /\ IsInput(event.target, "checkbox") \/ IsInput(event.target, "radio")

(* trigger calls elem.click(), unless elem is a link.                      *)
Clicks(event) == event.how = "trigger" /\ ~ event.prevented /\ ~ IsInput(event.target, "a")

ByDefault(event, how, type) ==
  [Event(type, how, Up(event.target), "", Outside) EXCEPT !.seen = event.seen]

EndEvent ==
  /\ Over
  /\ IF Clicks(Top)
     THEN Replace(ByDefault(Top, "default", "click")) /\ triggered' = "click"
     ELSE IF Changes(Top)
     THEN Replace(ByDefault(Top, Top.how, "change")) /\ UNCHANGED triggered
     ELSE /\ stack' = Tail(stack)
          /\ triggered' = IF Top.how = "default" THEN "none" ELSE triggered
  /\ UNCHANGED <<targetKind, bindings, counts, spent>>

Asks == {"nothing", "prevent", "stop", "immediate", "false"}
Dispatch == Arrive \/ Call \/ Skip \/ EndEvent
Use ==
  \/ \E b \in Bindings : Bind(b)
  \/ \E e \in Elem :
       \/ \E b \in Bindings :
            \E fn \in {"", b.fn}, ns \in {"", b.ns}, selector \in {"", "**", b.selector} :
              Off(e, IF ns = "" THEN b.type ELSE "", fn, ns, selector)
       \/ \E type \in {"click", "mouseover"}, related \in 1 .. Outside : Native(e, type, related)
       \/ \E ns \in {""} \cup {b.ns : b \in Bindings} : Trigger(e, ns) \/ TriggerHandler(e, ns)

EventsNext == Dispatch \/ (\E ask \in Asks : Return(ask)) \/ Use

EventsSpec == EventsInit /\ [][EventsNext]_eventVars

-----------------------------------------------------------------------------
(* Delegated functions come first and are counted, whatever is bound and    *)
(* taken off while events are under way, and the browser tells the element *)
(* of an event if, and only if, a function is left for it.                 *)
ListsSound ==
  \A e \in Elem, t \in Types :
    /\ \A i \in 1 .. Len(handlers[e][t]) :
         (i <= delegateCount[e][t]) <=> (handlers[e][t][i].selector # "")
    /\ (<<e, t>> \in listening) <=> (handlers[e][t] # <<>>)

(* A function bound for one call is bound no more when it has been called,  *)
(* though an event that was under way before may still call it.            *)
OneIsSpent ==
  \A e \in Elem, t \in Types : \A h \in ToSet(handlers[e][t]) : h.id \notin spent

(* Of one event, the default action of it included, no function hears twice *)
(* on an element.                                                          *)
HeardOnce == \A i \in 1 .. Len(stack) : IsInjective(stack[i].seen)

(* Functions bound for one call are called once; of one event no function   *)
(* hears twice on an element; and the lists of functions are in order,      *)
(* whatever is bound, taken off and triggered by functions being called.   *)
HeardRight == ListsSound /\ OneIsSpent /\ HeardOnce

(* An event that was stopped is heard on no further element, and nowhere    *)
(* once it was stopped immediately.                                        *)
HeardHere ==
  stack # <<>> /\ stack' # <<>> /\ Len(stack') = Len(stack) /\ stack'[1].running /\ ~ Top.running
    => ~ Top.immediate /\ (Top.stopped => stack'[1].at = Top.at)

StopsThere == [][HeardHere]_eventVars
=============================================================================
