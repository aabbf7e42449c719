------------------------------ MODULE Deferred -------------------------------
(***************************************************************************)
(* jQuery.Deferred, jQuery.when and the ready list (jquery-3.2.1.js 3476-   *)
(* 3950): promises, chained with then, that adopt the outcome of what a    *)
(* handler returns, and the timers their handlers are run from.  The lists *)
(* of functions under them are those of Callbacks; here a list is what is   *)
(* left of it to call.  Progress notifications, which no page uses, are    *)
(* left out.                                                               *)
(*                                                                         *)
(* Deferred number 1 is the list of ready handlers.  A function passed to   *)
(* done or fail is called inside resolve or reject and may use any of the  *)
(* deferreds again: `stack' holds the lists being fired, the innermost one *)
(* first.                                                                  *)
(***************************************************************************)
EXTENDS Naturals, Sequences, SequencesExt, FiniteSets

CONSTANTS MaxDeferreds, \* bound on the deferreds made
          MaxHandlers,  \* bound on the functions passed to done
          MaxHolds      \* bound on the calls of holdReady

ReadyList == 1
Deferreds == 1 .. MaxDeferreds

VARIABLES
  made,      \* deferreds made so far are 1 .. made
  state,     \* state[d]
  value,     \* value[d]: what it was settled with
  listeners, \* listeners[d]: functions passed to done and fail, not yet called
  reactions, \* reactions[d]: what then has added to d, not yet scheduled
  stack,     \* the lists being fired: [of, todo, running]
  timers,    \* window.setTimeout
  maxDepth,  \* maxDepth[d]: promises followed so far for the outcome of d
  remaining, \* remaining[d]: for a deferred made by when, parts outstanding
  parts,     \* parts[d]: the deferreds given to when
  handlers,  \* functions passed to done so far
  isReady, readyWait, loaded, holds,
  source,    \* source[d]: the deferred whose then has made d, or 0
  follows    \* follows[d]: the deferred a handler returned for d, or 0

lists == <<listeners, reactions>>
readiness == <<isReady, readyWait, loaded, holds>>

vars == <<made, state, value, lists, stack, timers, maxDepth, remaining, parts, handlers,
          readiness, source, follows>>

Init ==
  /\ made = 1
  /\ state = [d \in Deferreds |-> "pending"]
  /\ value = [d \in Deferreds |-> "none"]
  /\ listeners = [d \in Deferreds |-> <<>>]
  /\ reactions = [d \in Deferreds |-> <<>>]
  /\ stack = <<>> /\ timers = <<>>
  /\ maxDepth = [d \in Deferreds |-> 0]
  /\ remaining = [d \in Deferreds |-> 0] /\ parts = [d \in Deferreds |-> {}]
  /\ handlers = 0
  /\ isReady = FALSE /\ readyWait = 1 /\ loaded = FALSE /\ holds = 0
  /\ source = [d \in Deferreds |-> 0]
  /\ follows = [d \in Deferreds |-> 0]

(* Code of the page runs: from the event loop, or as a function called.    *)
UserRuns == stack # <<>> => Head(stack).running = "user"

-----------------------------------------------------------------------------
(* The timer of a reaction r of a deferred settled so: resolve(depth, ...)  *)
(* waits for the event loop.                                               *)
Timer(r, how, v) == [to |-> r.to, depth |-> r.depth, on |-> r.on, how |-> how, value |-> v]

(* Mutation: a later call of resolve or reject is accepted.                *)
LockedMut(d) == FALSE

(* The first firing locks the list and disables the other one.             *)
Locked(d) == state[d] # "pending"

(* resolve, reject: the state is set, the reactions of then are scheduled   *)
(* after the timers ts, and the functions passed to done and fail begin to *)
(* be called, above the lists st that are being fired.                     *)
Settle(d, how, v, ts, st) ==
  IF Locked(d)
  THEN timers' = ts /\ stack' = st /\ UNCHANGED <<state, value, lists>>
  ELSE /\ state' = [state EXCEPT ![d] = how]
       /\ value' = [value EXCEPT ![d] = v]
       /\ timers' = ts \o [i \in 1 .. Len(reactions[d]) |-> Timer(reactions[d][i], how, v)]
       /\ reactions' = [reactions EXCEPT ![d] = <<>>]
       /\ listeners' = [listeners EXCEPT ![d] = <<>>]
       /\ stack' = <<[of |-> d, todo |-> listeners[d], running |-> "none"]>> \o st

(* A deferred of the page's own is resolved or rejected.                   *)
Resolve(d, how) ==
  /\ UserRuns /\ d \in 2 .. made /\ source[d] = 0 /\ parts[d] = {}
  /\ Settle(d, how, how, timers, stack)
  /\ UNCHANGED <<made, maxDepth, remaining, parts, handlers, readiness, source, follows>>

(* jQuery.Deferred() by the page.                                          *)
Make ==
  /\ UserRuns /\ made < MaxDeferreds
  /\ made' = made + 1
  /\ UNCHANGED <<state, value, lists, stack, timers, maxDepth, remaining, parts, handlers,
                 readiness, source, follows>>

(* Mutation: the promise of when is kept by the first part.                *)
AllDoneMut(m) == TRUE

AllDone(m) == remaining[m] = 1

(* The innermost list calls its next function: one of the page, or one     *)
(* that when has added, which counts down.                                 *)
CallListener ==
  /\ stack # <<>> /\ Head(stack).running = "none" /\ Head(stack).todo # <<>>
  /\ LET top == Head(stack)
         f == Head(top.todo)
         how == state[top.of]
         called == <<[top EXCEPT !.todo = Tail(@)]>> \o Tail(stack)
     IN  IF f = 0
         THEN /\ stack' = [called EXCEPT ![1].running = "user"]
              /\ UNCHANGED <<state, value, lists, timers, remaining>>
         ELSE /\ remaining' = [remaining EXCEPT ![f] = IF how = "resolved" THEN @ - 1 ELSE @]
              /\ IF how = "resolved" => AllDone(f)
                 THEN Settle(f, how, value[top.of], timers, called)
                 ELSE stack' = called /\ UNCHANGED <<state, value, lists, timers>>
  /\ UNCHANGED <<made, maxDepth, parts, handlers, readiness, source, follows>>

Return ==
  /\ stack # <<>> /\ Head(stack).running = "user"
  /\ stack' = [stack EXCEPT ![1].running = "none"]
  /\ UNCHANGED <<made, state, value, lists, timers, maxDepth, remaining, parts, handlers,
                 readiness, source, follows>>

EndFiring ==
  /\ stack # <<>> /\ Head(stack).running = "none" /\ Head(stack).todo = <<>>
  /\ stack' = Tail(stack)
  /\ UNCHANGED <<made, state, value, lists, timers, maxDepth, remaining, parts, handlers,
                 readiness, source, follows>>

-----------------------------------------------------------------------------
FiringOf(d) == {i \in 1 .. Len(stack) : stack[i].of = d}

(* What Callbacks.add does with a function f of d: it waits, or joins the   *)
(* firing under way, or is called at once.                                 *)
AddListener(d, f) ==
  IF state[d] = "pending"
  THEN listeners' = [listeners EXCEPT ![d] = Append(@, f)] /\ UNCHANGED stack
  ELSE /\ UNCHANGED listeners
       /\ IF FiringOf(d) # {}
          THEN LET i == CHOOSE j \in FiringOf(d) : TRUE
               IN  stack' = [stack EXCEPT ![i].todo = Append(@, f)]
          ELSE stack' = <<[of |-> d, todo |-> <<f>>, running |-> "none"]>> \o stack

(* d.always(function) by the page.                                         *)
Listen(d) ==
  /\ UserRuns /\ d \in 1 .. made /\ handlers < MaxHandlers
  /\ handlers' = handlers + 1
  /\ AddListener(d, 0)
  /\ UNCHANGED <<made, state, value, reactions, timers, maxDepth, remaining, parts,
                 readiness, source, follows>>

(* What then adds to d: r waits, or is scheduled at once.                  *)
AddReaction(d, r) ==
  IF state[d] = "pending"
  THEN reactions' = [reactions EXCEPT ![d] = Append(@, r)] /\ UNCHANGED timers
  ELSE timers' = Append(timers, Timer(r, state[d], value[d])) /\ UNCHANGED reactions

(* d.then: a deferred with handlers for the outcomes of the set `on'; the  *)
(* others are passed on by Identity and Thrower.                           *)
Then(d, on) ==
  /\ UserRuns /\ d \in 1 .. made /\ made < MaxDeferreds
  /\ made' = made + 1
  /\ source' = [source EXCEPT ![made + 1] = d]
  /\ AddReaction(d, [to |-> made + 1, depth |-> 0, on |-> on])
  /\ UNCHANGED <<state, value, listeners, stack, maxDepth, remaining, parts, handlers,
                 readiness, follows>>

(* jQuery.when(d, e): both are listened to before the page runs on; one     *)
(* that is settled, and not being fired, reports at once.                  *)
When(d, e) ==
  LET m == made + 1
      firing == {x \in {d, e} : FiringOf(x) # {}}
      heard == {x \in {d, e} \ firing : state[x] # "pending"}
      bad == {x \in heard : state[x] = "rejected"}
      how == IF bad # {} THEN "rejected" ELSE IF heard = {d, e} THEN "resolved" ELSE "pending"
  IN  /\ UserRuns /\ made < MaxDeferreds /\ d \in 1 .. made /\ e \in 1 .. made /\ d < e
      /\ made' = m
      /\ parts' = [parts EXCEPT ![m] = {d, e}]
      /\ remaining' = [remaining EXCEPT ![m] = 2 - Cardinality(heard \ bad)]
      /\ listeners' = [x \in Deferreds |->
           IF x \in {d, e} /\ state[x] = "pending" THEN Append(listeners[x], m) ELSE listeners[x]]
      /\ stack' = [i \in 1 .. Len(stack) |->
           IF stack[i].of \in firing THEN [stack[i] EXCEPT !.todo = Append(@, m)] ELSE stack[i]]
      /\ state' = [state EXCEPT ![m] = how]
      /\ value' = [value EXCEPT ![m] = IF how = "pending" THEN @ ELSE "parts"]
      /\ UNCHANGED <<reactions, timers, maxDepth, handlers, readiness, source,
                     follows>>

-----------------------------------------------------------------------------
(* The event loop calls the function of the oldest timer.                  *)

(* Mutation: a promise that was left for another is still listened to.     *)
CurrentMut(t) == TRUE

(* resolve(depth, ...): only the promise followed last counts.             *)
Current(t) == t.depth >= maxDepth[t.to]

RunTimer(t) == stack = <<>> /\ timers # <<>> /\ t = Head(timers)

(* No handler for this outcome, or a promise that is followed reports:     *)
(* Identity, Thrower.                                                      *)
PassOn ==
  \E t \in ToSet(timers) :
    /\ RunTimer(t) /\ t.how \notin t.on
    /\ IF Current(t) THEN Settle(t.to, t.how, t.value, Tail(timers), stack)
       ELSE timers' = Tail(timers) /\ UNCHANGED <<state, value, lists, stack>>
    /\ UNCHANGED <<made, maxDepth, remaining, parts, handlers, readiness, source,
                   follows>>

(* A handler of the page returns a value, throws, or returns the promise it *)
(* is to settle, which is a TypeError.                                     *)
Handle ==
  \E t \in ToSet(timers) :
    /\ RunTimer(t) /\ t.how \in t.on
    /\ \/ Settle(t.to, "resolved", "returned", Tail(timers), stack)
       \/ Settle(t.to, "rejected", "error", Tail(timers), stack)
    /\ UNCHANGED <<made, maxDepth, remaining, parts, handlers, readiness, source,
                   follows>>

(* A handler returns another deferred d, or an object whose then gives d    *)
(* and later calls the other function as well: `to' follows d.             *)
HandleByPromise(d) ==
  \E t \in ToSet(timers) :
    /\ RunTimer(t) /\ t.how \in t.on /\ d \in 1 .. made /\ d # t.to
    /\ follows' = [follows EXCEPT ![t.to] = d]
    /\ \E rogue \in BOOLEAN :
         LET depth == IF rogue THEN 2 ELSE 1
             again == [to |-> t.to, depth |-> 1, on |-> {}, how |-> "rejected", value |-> "again"]
             later == Tail(timers) \o IF rogue THEN <<again>> ELSE <<>>
             r == [to |-> t.to, depth |-> depth, on |-> {}]
         IN  /\ maxDepth' = [maxDepth EXCEPT ![t.to] = depth]
             /\ IF state[d] = "pending"
                THEN reactions' = [reactions EXCEPT ![d] = Append(@, r)] /\ timers' = later
                ELSE timers' = Append(later, Timer(r, state[d], value[d])) /\ UNCHANGED reactions
    /\ UNCHANGED <<made, state, value, listeners, stack, remaining, parts, handlers,
                   readiness, source>>

-----------------------------------------------------------------------------
(* jQuery.ready.  holdReady takes a hold, ready(true) gives it back.        *)

(* Mutation: a hold that is given back makes the document ready.           *)
NowReadyMut(wait) == IF wait THEN TRUE ELSE readyWait' = 0

NowReady(wait) == IF wait THEN readyWait' = 0 ELSE readyWait' <= 0

Hold ==
  /\ UserRuns /\ holds < MaxHolds /\ ~ loaded
  /\ holds' = holds + 1 /\ readyWait' = readyWait + 1
  /\ UNCHANGED <<made, state, value, lists, stack, timers, maxDepth, remaining, parts, handlers,
                 isReady, loaded, source, follows>>

ready(wait) ==
  /\ readyWait' = readyWait - 1
  /\ isReady' = (isReady \/ ~ wait \/ NowReady(wait))
  /\ IF NowReady(wait) THEN Settle(ReadyList, "resolved", "jQuery", timers, stack)
     ELSE UNCHANGED <<state, value, lists, timers, stack>>
  /\ UNCHANGED <<made, maxDepth, remaining, parts, handlers, source, follows>>

Release ==
  /\ UserRuns /\ holds > 0
  /\ holds' = holds - 1 /\ UNCHANGED loaded
  /\ ready(TRUE)

(* completed: DOMContentLoaded, or load if that came first.                *)
Completed ==
  /\ stack = <<>> /\ ~ loaded
  /\ loaded' = TRUE /\ UNCHANGED holds
  /\ IF isReady THEN UNCHANGED <<made, state, value, lists, stack, timers, maxDepth, remaining,
                                 parts, handlers, isReady, readyWait, source, follows>>
     ELSE ready(FALSE)

-----------------------------------------------------------------------------
Loop == CallListener \/ Return \/ EndFiring \/ PassOn \/ Handle
        \/ (\E d \in Deferreds : HandleByPromise(d))

Outcomes == {"resolved", "rejected"}

Use ==
  \/ Make \/ Hold \/ Release \/ Completed
  \/ \E d \in Deferreds :
       \/ \E how \in Outcomes : Resolve(d, how)
       \/ Listen(d)
       \/ \E on \in SUBSET Outcomes : Then(d, on)
       \/ \E e \in Deferreds : When(d, e)

Next == Loop \/ Use

Spec == Init /\ [][Next]_vars /\ WF_vars(Loop)

-----------------------------------------------------------------------------
(* A deferred is settled once, whatever the functions that are called by it *)
(* do to it; and the ready handlers run when the document is there and no  *)
(* hold is left.                                                           *)
SettlesOnce ==
  \A d \in Deferreds : state[d] # "pending" => state'[d] = state[d] /\ value'[d] = value[d]

ReadyInTime == state[ReadyList] # state'[ReadyList] => loaded' /\ holds' = 0

SettledOnce == [][SettlesOnce /\ ReadyInTime]_vars

(* A chained deferred whose handler returned a promise takes the outcome of *)
(* that promise and of nothing else, even if an object in between reports  *)
(* twice.                                                                  *)
FollowsPromise ==
  \A d \in Deferreds :
    follows[d] # 0 /\ state[d] # "pending" =>
      state[d] = state[follows[d]] /\ value[d] = value[follows[d]]

(* jQuery.when is kept when all of its parts are, and broken with one.     *)
WhenAll ==
  \A m \in Deferreds : parts[m] # {} =>
    /\ state[m] = "resolved" => \A d \in parts[m] : state[d] = "resolved"
    /\ state[m] = "rejected" => \E d \in parts[m] : state[d] = "rejected"
    /\ state[m] = "pending" /\ stack = <<>> =>
         /\ \A d \in parts[m] : state[d] # "rejected"
         /\ \E d \in parts[m] : state[d] = "pending"
=============================================================================
