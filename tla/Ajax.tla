-------------------------------- MODULE Ajax ---------------------------------
(***************************************************************************)
(* jQuery.ajax (jquery-3.2.1.js 8533-9332 and the transports, 9425-9744):    *)
(* the uploads and deletions of the upload widget and the paging of the     *)
(* table go through it.  A request ends by an answer, an error of the net,  *)
(* a timeout or an abort, whichever comes first; its handlers run in the    *)
(* middle of its end, and may start and abort others.  With JSONP the       *)
(* answer is a script that calls a function of the window, by a name that    *)
(* is free or that the call has given.  The settings of a call are made of  *)
(* those of all calls and its own by jQuery.extend (195-262).               *)
(***************************************************************************)
EXTENDS Naturals, Sequences, SequencesExt, FiniteSets, TLC

CONSTANTS Request,   \* calls of jQuery.ajax
          Settings,  \* settings a call may have: records, see Init
          Objects,   \* objects at a call: ajaxSettings, the call's, and what they refer to
          MaxThrows  \* bound on the handlers that throw

VARIABLES
  req,     \* what each call keeps in its closure
  active,  \* jQuery.active
  started, \* between ajaxStart and ajaxStop
  stack,   \* the handlers that run, the innermost first
  throws,
  jsonp,   \* the callbacks: oldCallbacks, the window's functions, names and scripts
  got,     \* for the properties: whose answer a request has been given
  mixed,   \* for the properties: requests whose name another has at the same time
  ended,   \* for the properties: how a request came to its end first
  called   \* for the properties: the handlers of the call that ran

vars == <<req, active, started, stack, throws, jsonp, got, mixed, ended, called>>

(* The names of JSONP: 0 for none, the one that calls may give, and those    *)
(* that are made.                                                          *)
None == "none"
Given == 1
Names == Given .. Given + Cardinality(Request)

(* completed: undefined, false or true.  open: the transport has sent.      *)
Init ==
  /\ req = [r \in Request |-> [settings |-> CHOOSE s \in Settings : TRUE, made |-> FALSE,
                               transport |-> FALSE, open |-> FALSE, timer |-> FALSE,
                               attached |-> FALSE, completed |-> "undefined"]]
  /\ active = 0 /\ started = FALSE /\ stack = <<>> /\ throws = 0
  /\ ended = [r \in Request |-> "no"]
  /\ called = [r \in Request |-> <<>>]
  /\ jsonp = [nonce |-> Given + 1, oldCallbacks |-> <<>>,
              window |-> [n \in Names |-> None],
              name |-> [r \in Request |-> 0], overwritten |-> [r \in Request |-> None],
              container |-> [r \in Request |-> None], script |-> [r \in Request |-> "no"]]
  /\ got = [r \in Request |-> None] /\ mixed = {}

-----------------------------------------------------------------------------
(* Objects h[i] have a kind, "plain", "array" or another, and of, values by   *)
(* names: a value refers to an object, unless ref is 0, or is a text.       *)
Undefined == [ref |-> 0, text |-> "undefined"]

MergedKinds == {"plain", "array"}

ValueOf(h, i, name) == IF name \in DOMAIN h[i].of THEN h[i].of[name] ELSE Undefined

KindOf(h, value) == IF value.ref = 0 THEN "none" ELSE h[value.ref].kind

(* What is merged into: what the target has, if it is of the kind of what    *)
(* comes, or a new object.                                                 *)
(* Mutation: what comes itself, if the target has none.                    *)
CloneMut(h, src, copy) == IF KindOf(h, src) = KindOf(h, copy) THEN src.ref ELSE copy.ref

Clone(h, src, copy) == IF KindOf(h, src) = KindOf(h, copy) THEN src.ref ELSE Len(h) + 1

RECURSIVE extend(_, _, _, _)

extend(h, deep, target, options) ==
  LET Set(g, name, value) == [g EXCEPT ![target].of = (name :> value) @@ @]
      With(g, i, kind) == IF i \in DOMAIN g THEN g ELSE Append(g, [kind |-> kind, of |-> <<>>])
      Merged(g, name, copy, clone) ==
        Set(extend(With(g, clone, KindOf(g, copy)), deep, clone, copy.ref), name,
            [ref |-> clone, text |-> ""])
      Named(g, name, copy) ==
        IF copy.ref = target THEN g
        ELSE IF deep /\ KindOf(g, copy) \in MergedKinds
        THEN Merged(g, name, copy, Clone(g, ValueOf(g, target, name), copy))
        ELSE IF copy = Undefined THEN g ELSE Set(g, name, copy)
  IN  FoldLeft(LAMBDA g, name : Named(g, name, ValueOf(g, options, name)), h,
               SetToSeq(DOMAIN h[options].of))

(* Flat options are taken as they are.                                     *)
flatOptions == {"url", "context"}

ajaxSettings == 1

ajaxExtend(h, target, src) ==
  LET defined == {name \in DOMAIN h[src].of : ValueOf(h, src, name) # Undefined}
      Only(names) == [name \in names |-> ValueOf(h, src, name)]
      flat == [h EXCEPT ![target].of = Only(defined \cap flatOptions) @@ @]
  IN  extend(Append(flat, [kind |-> "plain", of |-> Only(defined \ flatOptions)]), TRUE, target,
             Len(h) + 1)

ajaxSetup(h, target, settings) ==
  ajaxExtend(ajaxExtend(h, target, ajaxSettings), target, settings)

-----------------------------------------------------------------------------
(* The converters of ajaxSettings, in their order, from and to a type.  The  *)
(* one to html leaves the text as it is, and that to script runs it; those   *)
(* to json and xml fail on a text that is none.                            *)
Converters == <<<<"*", "text">>, <<"text", "html">>, <<"text", "json">>, <<"text", "xml">>,
                <<"text", "script">>>>

Knows(from, to) == {<<from, to>>, <<"*", to>>} \cap ToSet(Converters) # {}

(* The type between two, if there is no converter from one to the other.    *)
Between(from, to) ==
  LET via == SelectSeq(Converters, LAMBDA c : c[2] = to /\ Knows(from, c[1]))
  IN  IF via = <<>> THEN "none" ELSE Head(via)[1]

(* ajaxHandleResponses: the types the text is to be read as, one after the  *)
(* other; the header of the answer speaks if the call did not.              *)
HandleResponses(types, header) ==
  LET asked == IF types = <<"*">> THEN (IF header = "none" THEN <<>> ELSE <<header>>) ELSE types
  IN  IF asked # <<>> /\ Head(asked) = "text" THEN asked ELSE <<"text">> \o asked

(* ajaxConvert: from type to type, at most by one between them.             *)
Convert(types, parses) ==
  LET Made(d, to) == IF to \in {"text", "html", "script"} \/ parses THEN [d EXCEPT !.type = to] ELSE [d EXCEPT !.ok = FALSE]
      OneStep(d, to) ==
        IF ~d.ok \/ to \in {"*", d.type} THEN d
        ELSE IF Knows(d.type, to) THEN Made(d, to)
        ELSE IF Between(d.type, to) # "none" THEN Made(Made(d, Between(d.type, to)), to)
        ELSE [d EXCEPT !.ok = FALSE]
  IN  FoldLeft(OneStep, [type |-> Head(types), ok |-> TRUE], Tail(types))

(* How the answer ends a request: by its status, and by what it can be read *)
(* as.                                                                     *)
Outcome(types, a) ==
  IF ~a.good THEN "error"
  ELSE IF Convert(HandleResponses(types, a.header), a.parses).ok THEN "success" ELSE "parsererror"

-----------------------------------------------------------------------------
(* JSONP: the prefilter takes a name and puts a function of its own there.   *)
Named(r, s) ==
  LET Taken(j, n) == [j EXCEPT !.name[r] = n, !.overwritten[r] = j.window[n], !.window[n] = r]
      used == jsonp.oldCallbacks
  IN  CASE s.jsonp = "no" -> jsonp
        [] s.jsonp = "given" -> Taken(jsonp, Given)
        [] s.jsonp = "made" ->
             IF used = <<>> THEN Taken([jsonp EXCEPT !.nonce = @ + 1], jsonp.nonce)
             ELSE Taken([jsonp EXCEPT !.oldCallbacks = Front(@)], Last(used))

(* The script that is the answer of r calls the window's function.          *)
Evaluated(j, r) ==
  LET holder == j.window[j.name[r]]
  IN  IF j.name[r] = 0 \/ holder = None THEN j ELSE [j EXCEPT !.container[holder] = r]

(* What is done when r has ended, before any other handler: the name is      *)
(* given back, and the function that was there before is called too.        *)
(* Mutation: the name is not taken from the window.                        *)
CleanedMut(j, r) == IF j.name[r] > Given THEN [j EXCEPT !.oldCallbacks = Append(@, j.name[r])] ELSE j

Cleaned(j, r) ==
  LET before == j.overwritten[r]
      told == j.container[r] # None /\ before # None
  IN  IF j.name[r] = 0 THEN j
      ELSE [j EXCEPT !.window[j.name[r]] = before,
                     !.oldCallbacks = IF j.name[r] > Given THEN Append(@, j.name[r]) ELSE @,
                     !.container = [q \in Request |-> IF q = r THEN None
                                                     ELSE IF told /\ q = before THEN @[r] ELSE @[q]],
                     !.overwritten[r] = None]

(* At the end of r its script, if any, has made j of what is kept.          *)
Leaves(r, j, how) ==
  /\ jsonp' = IF req[r].completed = "true" THEN j ELSE Cleaned(j, r)
  /\ got' = IF how = "success" THEN [got EXCEPT ![r] = j.container[r]] ELSE got

-----------------------------------------------------------------------------
(* Who may act: the event loop when no handler runs, or the handler on top. *)
Idle == stack = <<>>

(* done: the first end of a request wins; its callbacks follow one by one.  *)
(* Mutation: an end that comes later counts too.                           *)
DoneMut(q, r, how, rest) ==
  /\ req' = [q EXCEPT ![r].completed = "true", ![r].timer = FALSE, ![r].transport = FALSE]
  /\ stack' = <<[r |-> r, at |-> "settle", how |-> how]>> \o rest

Done(q, r, how, rest) ==
  IF q[r].completed = "true"
  THEN /\ req' = q /\ stack' = rest
  ELSE /\ req' = [q EXCEPT ![r].completed = "true", ![r].timer = FALSE, ![r].transport = FALSE]
       /\ stack' = <<[r |-> r, at |-> "settle", how |-> how]>> \o rest

First(r, how) == ended' = IF ended[r] = "no" THEN [ended EXCEPT ![r] = how] ELSE ended

(* A name is in use until its script has come, or has failed to.            *)
Alive(r) == req[r].completed # "true" \/ jsonp.script[r] = "fetching"

(* ajax, up to the handlers of ajaxSend.  A call that beforeSend refuses    *)
(* ends before success, error and complete are attached.                   *)
Call(r, s) ==
  LET q == [req EXCEPT ![r].settings = s, ![r].made = TRUE]
      attached == [q EXCEPT ![r].attached = TRUE]
  IN  /\ ~req[r].made
      /\ active' = IF s.global THEN active + 1 ELSE active
      /\ started' = (started \/ (s.global /\ active = 0))
      /\ CASE s.before = "veto" ->
                Done(q, r, "abort", stack) /\ First(r, "abort") /\ Leaves(r, Named(r, s), "abort")
           [] s.before = "go" /\ s.transport = "none" ->
                /\ Done(attached, r, "error", stack) /\ First(r, "error")
                /\ Leaves(r, Named(r, s), "error")
           [] OTHER ->
                /\ req' = [attached EXCEPT ![r].transport = TRUE]
                /\ stack' = <<[r |-> r, at |-> "sending", how |-> "send"]>> \o stack
                /\ jsonp' = Named(r, s)
                /\ UNCHANGED <<ended, got>>
      /\ mixed' = LET same == {p \in Request \ {r} : jsonp'.name[p] = jsonp'.name[r] /\ Alive(p)}
                  IN  IF s.jsonp = "no" \/ same = {} THEN mixed ELSE mixed \cup same \cup {r}
      /\ UNCHANGED <<throws, called>>

(* Mutation: the timer is not set.                                         *)
TimerMut(r) == req[r].timer

Timer(r) == req[r].timer \/ req[r].settings.timeout

(* The rest of ajax: the timer, and the transport sends or throws.          *)
Send ==
  LET r == Head(stack).r
      q == [req EXCEPT ![r].completed = "false", ![r].open = TRUE, ![r].timer = Timer(r)]
  IN  /\ ~Idle /\ Head(stack).at = "sending"
      /\ IF req[r].completed = "true"
         THEN req' = req /\ stack' = Tail(stack) /\ UNCHANGED <<jsonp, got, ended>>
         ELSE IF req[r].settings.transport = "throws"
         THEN /\ Done([q EXCEPT ![r].open = FALSE], r, "error", Tail(stack)) /\ First(r, "error")
              /\ Leaves(r, jsonp, "error")
         ELSE /\ req' = q /\ stack' = Tail(stack)
              /\ jsonp' = IF req[r].settings.transport = "script"
                          THEN [jsonp EXCEPT !.script[r] = "fetching"] ELSE jsonp
              /\ UNCHANGED <<got, ended>>
      /\ UNCHANGED <<active, started, throws, mixed, called>>

(* jqXHR.abort, of the page or of the timer: the transport forgets its      *)
(* callback, and the request ends.                                         *)
Abort(r, how) ==
  /\ req[r].made
  /\ Done(IF req[r].transport THEN [req EXCEPT ![r].open = FALSE] ELSE req, r, how, stack)
  /\ First(r, how) /\ Leaves(r, jsonp, how)
  /\ UNCHANGED <<active, started, throws, mixed, called>>

Timeout(r) == Idle /\ req[r].timer /\ Abort(r, "timeout")

(* onload and onerror of the transport, if it still has its callback.       *)
Answers == [good : {TRUE}, header : {"none", "json"}, parses : BOOLEAN]
           \cup [good : {FALSE}, header : {"none"}, parses : BOOLEAN]

Ends(r, j, how) ==
  /\ Idle /\ req[r].open
  /\ Done([req EXCEPT ![r].open = FALSE], r, how, stack)
  /\ First(r, how) /\ Leaves(r, j, how)
  /\ UNCHANGED <<active, started, throws, mixed, called>>

(* The script of JSONP is evaluated even if the answer is an error; the     *)
(* converter from script to json fails if the callback was not called.      *)
Called(j, r) == IF j.container[r] = None THEN "parsererror" ELSE "success"

Answer(r, a) ==
  LET s == req[r].settings
      j == IF a.parses THEN Evaluated(jsonp, r) ELSE jsonp
  IN  /\ s.transport = "xhr"
      /\ IF s.jsonp = "no" THEN Ends(r, jsonp, Outcome(s.types, a))
         ELSE Ends(r, j, IF ~ a.good THEN "error" ELSE Called(j, r))

(* The element of the script transport: it is run, unless it fails, also     *)
(* when abort has removed it; then, if it has its callback, it is loaded.    *)
Run(r) ==
  /\ Idle /\ jsonp.script[r] = "fetching"
  /\ jsonp' = [Evaluated(jsonp, r) EXCEPT !.script[r] = "run"]
  /\ UNCHANGED <<req, active, started, stack, throws, got, mixed, ended, called>>

Load(r) == jsonp.script[r] = "run" /\ Ends(r, jsonp, Called(jsonp, r))

Fail(r) ==
  /\ Idle /\ jsonp.script[r] = "fetching"
  /\ \/ Ends(r, [jsonp EXCEPT !.script[r] = "no"], "error")
     \/ /\ ~ req[r].open /\ jsonp' = [jsonp EXCEPT !.script[r] = "no"]
        /\ UNCHANGED <<req, active, started, stack, throws, got, mixed, ended, called>>

-----------------------------------------------------------------------------
(* What done goes through after a handler returned: success or error of the *)
(* call, the global event, complete, and the global end.                   *)
Goes == [settle |-> "global", global |-> "complete", complete |-> "over"]

Calls(f) ==
  IF ~req[f.r].attached THEN <<>>
  ELSE CASE f.at = "settle" -> IF f.how = "success" THEN <<"success">> ELSE <<"error">>
         [] f.at = "complete" -> <<"complete">>
         [] OTHER -> <<>>

(* One part of done runs its handlers, which have returned when the next    *)
(* part begins.                                                            *)
Part ==
  LET f == Head(stack)
  IN  /\ ~Idle /\ f.at \in DOMAIN Goes
      /\ called' = [called EXCEPT ![f.r] = @ \o Calls(f)]
      /\ stack' = <<[f EXCEPT !.at = Goes[f.at]]>> \o Tail(stack)
      /\ UNCHANGED <<req, active, started, throws, jsonp, got, mixed, ended>>

(* ajaxComplete, and ajaxStop after the last request.                       *)
(* Mutation: a request counts that was told not to take part.              *)
CountedMut(r) == TRUE

Counted(r) == req[r].settings.global

Over ==
  LET f == Head(stack)
  IN  /\ ~Idle /\ f.at = "over"
      /\ stack' = Tail(stack)
      /\ active' = IF Counted(f.r) THEN active - 1 ELSE active
      /\ started' = (started /\ ~(Counted(f.r) /\ active = 1))
      /\ UNCHANGED <<req, throws, jsonp, got, mixed, ended, called>>

(* A handler throws: what is left of every call below it does not happen.   *)
Throw ==
  /\ ~Idle /\ throws < MaxThrows
  /\ throws' = throws + 1
  /\ stack' = <<>>
  /\ UNCHANGED <<req, active, started, jsonp, got, mixed, ended, called>>

Next ==
  \/ \E r \in Request, s \in Settings : Call(r, s)
  \/ \E r \in Request : Abort(r, "abort") \/ Timeout(r) \/ Run(r) \/ Load(r) \/ Fail(r)
  \/ \E r \in Request, a \in Answers : Answer(r, a)
  \/ Send \/ Part \/ Over \/ Throw

Fairness == WF_vars(Send) /\ WF_vars(Part) /\ WF_vars(Over)
            /\ \A r \in Request : WF_vars(Timeout(r))

Spec == Init /\ [][Next]_vars /\ Fairness

-----------------------------------------------------------------------------
(* Whatever abort, timeout, answer and the handlers themselves do to each   *)
(* other: the handlers of a call run once, success or error first as the    *)
(* first end of the request says, and complete after it.                   *)
EndsOnce == \A r \in Request :
  /\ called[r] \in {<<>>, <<"success">>, <<"error">>, <<"success", "complete">>, <<"error", "complete">>}
  /\ called[r] # <<>> => (Head(called[r]) = "success") = (ended[r] = "success")

(* jQuery.active counts the requests under way, also when they end in each   *)
(* other's handlers; ajaxStart and ajaxStop alternate.  A handler that       *)
(* throws leaves it too high for ever.                                     *)
ActiveExact ==
  /\ started = (active > 0)
  /\ throws = 0 /\ Idle =>
       active = Cardinality({r \in Request :
                  req[r].made /\ req[r].settings.global /\ req[r].completed # "true"})

(* A request by JSONP is given its own answer, and not that of another,     *)
(* unless both have the same name at one time; names that are made are so   *)
(* only when one was given up before its script came.                       *)
OwnAnswer ==
  \A r \in Request :
    /\ got[r] \notin {None, r} => r \in mixed
    /\ r \in mixed /\ jsonp.name[r] > Given =>
         \E q \in Request : /\ q # r /\ jsonp.name[q] = jsonp.name[r]
                            /\ {ended[q], ended[r]} \cap {"abort", "timeout"} # {}

(* A name that is free is free once and not in use; and when all is over the *)
(* window is as it was, unless names were mixed.                           *)
NamesFree ==
  LET open == {r \in Request : req[r].made /\ req[r].completed # "true"}
      free == ToSet(jsonp.oldCallbacks)
  IN  /\ IsInjective(jsonp.oldCallbacks)
      /\ free \cap {jsonp.name[r] : r \in open} = {}
      /\ open = {} /\ mixed = {} =>
           (\A n \in Names : jsonp.window[n] = None) /\ free = Given + 1 .. jsonp.nonce - 1

(* What a value is made of, by the paths to it; a flat option is a leaf.     *)
RECURSIVE Tree(_, _, _)

Tree(h, path, value) ==
  LET leaf == path # <<>> /\ Head(path) \in flatOptions
      merged == ~ leaf /\ KindOf(h, value) \in MergedKinds
      names == IF merged THEN {n \in DOMAIN h[value.ref].of : ValueOf(h, value.ref, n) # Undefined}
               ELSE {}
  IN  {[path |-> path, merged |-> merged, kind |-> KindOf(h, value), value |-> value]}
        \cup UNION {Tree(h, Append(path, n), ValueOf(h, value.ref, n)) : n \in names}

(* The settings of a call are what it says, and for the rest what is set for *)
(* all calls, and its own: what it changes of them, as JSONP does of its    *)
(* converters, is nobody else's; and nothing that was there has changed.    *)
SettingsOwn ==
  LET Of(h, i) == Tree(h, <<>>, [ref |-> i, text |-> ""])
      Says(x) == <<x.path, x.kind, IF x.merged THEN Undefined ELSE x.value>>
      Meant(tree) == {Says(x) : x \in tree}
      Left(all, own) ==
        {x \in all : \A y \in own, z \in all :
           IsPrefix(y.path, x.path) /\ z.path = y.path => y.merged /\ z.merged /\ y.kind = z.kind}
      Sound(h, new) ==
        /\ SubSeq(new, 1, Len(h)) = h
        /\ Meant(Of(new, Len(h) + 1)) = Meant(Of(h, 2)) \cup Meant(Left(Of(h, ajaxSettings), Of(h, 2)))
        /\ \A x \in Of(new, Len(h) + 1) : x.merged => x.value.ref > Len(h)
  IN  \A h \in Objects : Sound(h, ajaxSetup(Append(h, [kind |-> "plain", of |-> <<>>]), Len(h) + 1, 2))

(* A request with a timeout ends, whatever the net does.                    *)
Timed(r) == req[r].open /\ req[r].settings.timeout
Ended(r) == req[r].completed = "true"

TimesOut == \A r \in Request : Timed(r) ~> Ended(r)
=============================================================================
