------------------------------- MODULE Effects -------------------------------
(***************************************************************************)
(* The effects of jQuery (jquery-3.2.1.js 4354-4486 and 6652-7456) as the   *)
(* pages use them: elements fade in and out through a queue of their own,  *)
(* one ticking loop moves all animations, and what a page passes to be     *)
(* called at the end fades another element in.  stop and finish cut in at  *)
(* any time.                                                               *)
(*                                                                         *)
(* A call of the library runs to its end, the tick it may cause and the     *)
(* functions it calls included, so it is a function from state to state;   *)
(* the state is a record while it runs.  Opacity is 0 .. Full; an animation *)
(* takes Duration ticks that see time pass.                                *)
(***************************************************************************)
EXTENDS Naturals, Sequences, SequencesExt

CONSTANTS Elem,    \* elements
          MaxOps   \* bound on the calls of the page

Full == 4
Duration == 2
None == [opacity |-> Full + 1, hides |-> "unset"]   \* no `fxshow' data
InProgress == [id |-> 0, kind |-> "inprogress", then |-> "none"]

VARIABLES
  queue,      \* queue[e]: the `fxqueue' of e
  hooks,      \* hooks[e]: whether e has queue hooks
  promised,   \* promised[e]: "no", "waiting" or "kept"
  timers,     \* jQuery.timers
  shown,      \* shown[e]: whether e is displayed
  opacity,
  fxshow,     \* fxshow[e]: what an unfinished show or hide will restore
  inProgress,
  frames,     \* animation frames requested (0, 1, or 2 for more)
  ops,
  last        \* for the properties: the last effect on e that came to its end

vars == <<queue, hooks, promised, timers, shown, opacity, fxshow, inProgress, frames, ops,
          last>>

S == [queue |-> queue, hooks |-> hooks, promised |-> promised, timers |-> timers,
      shown |-> shown, opacity |-> opacity, fxshow |-> fxshow, inProgress |-> inProgress,
      frames |-> frames, last |-> last, ids |-> ops]

Becomes(new) ==
  \E s \in {new} :
    /\ queue' = s.queue /\ hooks' = s.hooks /\ promised' = s.promised /\ timers' = s.timers
    /\ shown' = s.shown /\ opacity' = s.opacity /\ fxshow' = s.fxshow
    /\ inProgress' = s.inProgress /\ frames' = s.frames /\ last' = s.last

Init ==
  /\ queue = [e \in Elem |-> <<>>] /\ hooks = [e \in Elem |-> FALSE]
  /\ promised = [e \in Elem |-> "no"]
  /\ timers = <<>>
  /\ shown \in [Elem -> BOOLEAN]
  /\ opacity = [e \in Elem |-> Full] /\ fxshow = [e \in Elem |-> None]
  /\ inProgress = FALSE /\ frames = 0 /\ ops = 0
  /\ last = [e \in Elem |-> IF shown[e] THEN "show" ELSE "hide"]

-----------------------------------------------------------------------------
(* defaultPrefilter for { opacity: kind }: the animation of effect op on e. *)

(* The element is already what the effect would make it, and no unfinished *)
(* effect has left it in between.                                          *)
NothingToDo(s, e, op) ==
  IF s.shown[e] THEN op.kind = "show" /\ s.fxshow[e] = None ELSE op.kind = "hide"

(* Whether e is to be shown: `hidden'.                                     *)
Shows(s, e, op) ==
  IF s.fxshow[e] # None /\ s.fxshow[e].hides # "unset" THEN s.fxshow[e].hides = "no"
  ELSE ~ s.shown[e] \/ op.kind = "show"

Anim(s, e, op) ==
  LET cur == s.opacity[e]
      data == s.fxshow[e]
      shows == Shows(s, e, op)
      orig == IF data = None THEN cur ELSE data.opacity
      idle == NothingToDo(s, e, op)
  IN  [id |-> op.id, elem |-> e, op |-> op, tween |-> ~ idle, age |-> 0, stopped |-> FALSE,
       shows |-> IF idle THEN s.shown[e] ELSE shows,
       start |-> IF ~ idle /\ shows /\ data = None THEN 0 ELSE cur,
       end |-> IF idle THEN cur ELSE IF shows THEN orig ELSE 0,
       orig |-> orig]

(* Mutation: what an unfinished effect has to restore is measured again.   *)
RememberedMut(s, e, a) == [opacity |-> s.opacity[e], hides |-> s.fxshow[e].hides]

(* The data kept until the effect is done.                                 *)
Remembered(s, e, a) ==
  [opacity |-> a.orig,
   hides |-> IF a.op.kind = "toggle" THEN (IF a.shows THEN "yes" ELSE "no")
             ELSE s.fxshow[e].hides]

Begun(s, e, op) ==
  LET a == Anim(s, e, op)
  IN  [s EXCEPT !.timers = Append(@, a),
                !.fxshow[e] = IF a.tween THEN Remembered(s, e, a) ELSE @,
                !.shown[e] = IF a.tween /\ a.shows THEN TRUE ELSE @]

(* Tween.run.                                                              *)
Run(s, a, age) ==
  [s EXCEPT !.opacity[a.elem] =
     IF ~ a.tween THEN @
     ELSE IF a.end >= a.start THEN a.start + ((a.end - a.start) * age) \div Duration
     ELSE a.start - ((a.start - a.end) * age) \div Duration]

(* The function defaultPrefilter adds for the end of a show or hide.       *)
Restored(s, a) ==
  [s EXCEPT !.last[a.elem] = IF a.shows THEN "show" ELSE "hide",
            !.shown[a.elem] = IF a.tween /\ ~ a.shows THEN FALSE ELSE @,
            !.fxshow[a.elem] = IF a.tween THEN None ELSE @,
            !.opacity[a.elem] = IF a.tween THEN a.orig ELSE @]

-----------------------------------------------------------------------------
RECURSIVE Animate(_, _, _), Dequeue(_, _), Queue(_, _, _), Tick(_, _), Complete(_, _)

(* Mutation: an animation that is over leaves the queue as it is.          *)
AfterwardsMut(s, e) == s

Afterwards(s, e) == Dequeue(s, e)

(* deferred.resolve of an animation: opt.complete calls the function of the *)
(* page, which may fade in another element, and goes on with the queue.    *)
Complete(s, a) ==
  LET r == Restored(s, a)
      called == IF a.op.then = "none" THEN r
                ELSE Queue(r, a.op.then, [id |-> a.op.id + MaxOps, kind |-> "show",
                                          then |-> "none"])
  IN  Afterwards(called, a.elem)

(* jQuery.fx.tick, from timer number i on; timers added by the functions    *)
(* called are reached in the same round.                                   *)
Tick(s, i) ==
  IF i > Len(s.timers)
  THEN [s EXCEPT !.inProgress = s.timers # <<>>]
  ELSE LET a == s.timers[i]
           ran == Run(s, a, a.age)
           goesOn == ~ a.stopped /\ a.age < Duration /\ a.tween
           Onward(t) == IF goesOn THEN Tick(t, i + 1)
                        ELSE Tick([t EXCEPT !.timers = RemoveAt(@, i)], i)
       IN  Onward(IF a.stopped THEN s ELSE IF goesOn THEN ran ELSE Complete(ran, a))

More(n) == IF n < 2 THEN n + 1 ELSE n

(* Animation and jQuery.fx.start: the first animation starts the loop, with *)
(* a tick at once.                                                         *)
Animate(s, e, op) ==
  LET b == Begun(s, e, op)
  IN  IF s.inProgress THEN b
      ELSE Tick([b EXCEPT !.inProgress = TRUE, !.frames = More(@)], 1)

(* jQuery.dequeue: the next effect, or the end of the queue.               *)
Dequeue(s, e) ==
  LET q == s.queue[e]
      rest == IF q # <<>> /\ Head(q) = InProgress THEN Tail(q) ELSE q
  IN  IF rest # <<>>
      THEN Animate([s EXCEPT !.queue[e] = <<InProgress>> \o Tail(rest)], e, Head(rest))
      ELSE [s EXCEPT !.queue[e] = <<>>, !.hooks[e] = FALSE,
                     !.promised[e] = IF @ = "waiting" THEN "kept" ELSE @]

(* Mutation: an effect does not wait for the one before it.                *)
BusyMut(q) == FALSE

Busy(q) == q # <<>> /\ Head(q) = InProgress

(* jQuery.fn.queue.                                                        *)
Queue(s, e, op) ==
  LET queued == [s EXCEPT !.queue[e] = Append(@, op), !.hooks[e] = TRUE]
  IN  IF Busy(queued.queue[e]) THEN queued ELSE Dequeue(queued, e)

(* animation.stop for every animation of e in the timers, from the last;    *)
(* with gotoEnd it is completed, otherwise only left.                      *)
RECURSIVE StopAll(_, _, _, _)
StopAll(s, e, gotoEnd, i) ==
  IF i = 0 THEN s
  ELSE LET a == s.timers[i]
           stopped == [s EXCEPT !.timers[i].stopped = TRUE]
           done == IF a.stopped \/ ~ gotoEnd THEN stopped
                   ELSE Complete(Run(stopped, a, Duration), a)
       IN  IF a.elem # e THEN StopAll(s, e, gotoEnd, i - 1)
           ELSE StopAll([done EXCEPT !.timers = RemoveAt(@, i)], e, gotoEnd, i - 1)

Animated(s, e) == \E i \in 1 .. Len(s.timers) : s.timers[i].elem = e

Stopped(s, e, clearQueue, gotoEnd) ==
  LET GoOn(dequeue, stopped) == IF dequeue THEN Dequeue(stopped, e) ELSE stopped
      From(cleared) == GoOn(~ Animated(cleared, e) \/ ~ gotoEnd,
                            StopAll(cleared, e, gotoEnd, Len(cleared.timers)))
  IN  From(IF clearQueue THEN Dequeue([s EXCEPT !.queue[e] = <<>>], e) ELSE s)

(* jQuery.fn.finish: what runs and what was queued is completed at once.   *)
RECURSIVE FinishAll(_, _, _)
FinishAll(s, e, q) ==
  IF q = <<>> THEN s
  ELSE IF Head(q) = InProgress THEN FinishAll(s, e, Tail(q))
  ELSE LET Ended(begun, a, i) ==
             Complete(Run([begun EXCEPT !.timers[i].stopped = TRUE], a, Duration), a)
           Left(begun) == {i \in 1 .. Len(begun.timers) : begun.timers[i].id = Head(q).id}
           AtOnce(begun, left) ==
             IF left = {} THEN begun
             ELSE LET i == CHOOSE j \in left : TRUE IN Ended(begun, begun.timers[i], i)
           Done(begun) == AtOnce(begun, Left(begun))
       IN  FinishAll(Done(Animate(s, e, Head(q))), e, Tail(q))

Finished(s, e) ==
  LET cleared == [s EXCEPT !.queue[e] = <<>>]
  IN  FinishAll(StopAll(cleared, e, TRUE, Len(s.timers)), e, s.queue[e])

-----------------------------------------------------------------------------
Op == ops < MaxOps /\ ops' = ops + 1

Fade(e, kind, then) ==
  /\ Op
  /\ Becomes(Queue(S, e, [id |-> ops + 1, kind |-> kind, then |-> then]))

Stop(e, clearQueue, gotoEnd) == Op /\ Becomes(Stopped(S, e, clearQueue, gotoEnd))

Finish(e) == Op /\ Becomes(Finished(S, e))

(* $(e).promise().                                                         *)
Promise(e) ==
  /\ promised[e] = "no"
  /\ promised' = [promised EXCEPT ![e] = IF hooks[e] THEN "waiting" ELSE "kept"]
  /\ UNCHANGED <<queue, hooks, timers, shown, opacity, fxshow, inProgress, frames, ops, last>>

(* The timers after some time: no more than Duration is of interest.       *)
Aged(time) ==
  [i \in 1 .. Len(timers) |->
     [timers[i] EXCEPT !.age = IF @ + time < Duration THEN @ + time ELSE Duration]]

(* schedule: a frame; time may or may not have passed since the last one.  *)
Schedule(time) ==
  /\ frames > 0 /\ UNCHANGED ops
  /\ Becomes(IF inProgress THEN Tick([S EXCEPT !.timers = Aged(time)], 1)
             ELSE [S EXCEPT !.frames = @ - 1])

Frame == Schedule(0) \/ Schedule(1)

Next ==
  \/ Frame
  \/ \E e \in Elem :
       \/ \E kind \in {"show", "hide", "toggle"}, then \in (Elem \ {e}) \cup {"none"} :
            Fade(e, kind, then)
       \/ \E clearQueue, gotoEnd \in BOOLEAN : Stop(e, clearQueue, gotoEnd)
       \/ Finish(e) \/ Promise(e)

Spec == Init /\ [][Next]_vars

-----------------------------------------------------------------------------
Running(e) == {i \in 1 .. Len(timers) : timers[i].elem = e /\ ~ timers[i].stopped}

(* One animation of an element at a time, while its queue is marked busy    *)
(* and only then: an effect never waits for one that is not under way.     *)
QueueServed ==
  \A e \in Elem :
    /\ \A i, j \in Running(e) : i = j
    /\ (Running(e) # {}) <=> Busy(queue[e])
    /\ queue[e] # <<>> => Busy(queue[e])

(* An element at rest with nothing left unfinished is fully opaque, and     *)
(* displayed or not as the last effect that ended had it: two clicks on a  *)
(* button, an effect that overtakes another, stop and finish leave no trace. *)
LooksRight ==
  \A e \in Elem :
    fxshow[e] = None /\ Running(e) = {} =>
      /\ opacity[e] = Full
      /\ shown[e] = (last[e] = "show")

(* While an animation is left the loop is on and a frame is asked for, so   *)
(* that nothing queued waits for ever, and a promise that is waited for has *)
(* a queue that will keep it.                                              *)
LoopAlive ==
  \A e \in Elem :
    /\ Running(e) # {} => inProgress /\ frames > 0
    /\ promised[e] = "waiting" => queue[e] # <<>>
=============================================================================
