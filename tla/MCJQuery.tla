------------------------------ MODULE MCJQuery ------------------------------
(***************************************************************************)
(* Instances, for TLC, of the parts of jQuery on which the pages' scripts   *)
(* and widgets are built.  Each stands by itself: a behaviour exercises one *)
(* of them.  Events have their variables; the others take turns in using the *)
(* variables x1 to x17, which are 0 where not used.                         *)
(***************************************************************************)
EXTENDS Events, Integers, TLC

CONSTANT Requests

VARIABLES used, x1, x2, x3, x4, x5, x6, x7, x8, x9, x10, x11, x12, x13, x14, x15,
          x16, x17

-----------------------------------------------------------------------------
Callbacks == INSTANCE Callbacks WITH
  Function <- {"f", "g"},
  Options <- {{}, {"once", "memory"}, {"memory"}, {"unique", "memory", "stopOnFalse"}},
  MaxFires <- 2, MaxList <- 3, MaxChanges <- 3, options <- x1, list <- x2,
  alive <- x3, queue <- x4, memory <- x5, locked <- x6, firing <- x7,
  firingIndex <- x8, fired <- x9, inPass <- x10, running <- x11, fires <- x12,
  changes <- x13, due <- x14, emptied <- x15, thrown <- x16

-----------------------------------------------------------------------------
Deferred == INSTANCE Deferred WITH
  MaxDeferreds <- 3, MaxHandlers <- 1, MaxHolds <- 1, made <- x1, state <- x2,
  value <- x3, listeners <- x4, reactions <- x5, stack <- x6, timers <- x7,
  maxDepth <- x8, remaining <- x9, parts <- x10, handlers <- x11, isReady <- x12,
  readyWait <- x13, loaded <- x14, holds <- x15, source <- x16, follows <- x17

-----------------------------------------------------------------------------
Effects == INSTANCE Effects WITH
  Elem <- {"a", "b"}, MaxOps <- 3, queue <- x1, hooks <- x2, promised <- x3,
  timers <- x4, shown <- x5, opacity <- x6, fxshow <- x7, inProgress <- x8,
  frames <- x9, ops <- x10, last <- x11

-----------------------------------------------------------------------------
(* Functions of a button, the form around it and the document, delegated    *)
(* ones and such as are bound for one call.                                *)
Heard ==
  LET B(e, t, sel, f, ns, one) ==
        [elem |-> e, type |-> t, selector |-> sel, fn |-> f, ns |-> ns, one |-> one]
  IN  {B("button", "click", "", "f", "bs", TRUE), B("document", "click", "x", "g", "bs", TRUE),
       B("form", "mouseenter", "", "g", "", TRUE)}

Chain == <<"button", "form", "document">>

WhatSelected == [sel \in {"", "x"} |-> IF sel = "x" THEN {"button", "form"} ELSE {}]

-----------------------------------------------------------------------------
(* Calls that go through, and such as are vetoed, have no transport, one    *)
(* that throws, or an answer to be converted; and calls by JSONP, by a       *)
(* request and by a script.                                                *)
Asked ==
  LET S(g, timeout, before, transport, types) ==
        [global |-> g, timeout |-> timeout, before |-> before, transport |-> transport,
         types |-> types, jsonp |-> "no"]
      J(before, transport, name) ==
        [S(TRUE, FALSE, before, transport, <<"json">>) EXCEPT !.jsonp = name]
  IN  {S(g, timeout, "go", "xhr", <<"*">>) : g \in BOOLEAN, timeout \in BOOLEAN}
        \cup {S(TRUE, FALSE, "veto", "xhr", <<"*">>), S(TRUE, TRUE, "go", "none", <<"*">>),
              S(TRUE, FALSE, "go", "xhr", <<"xml", "json">>), S(TRUE, TRUE, "go", "throws", <<"*">>),
              J("go", "xhr", "made"), J("veto", "script", "made"), J("go", "script", "made"),
              J("go", "script", "given")}

(* What is set for all calls, and what a call says: texts, an object or a    *)
(* list in place of them, its own context, or nothing.                      *)
Text(x) == [ref |-> 0, text |-> x]
Ref(i) == [ref |-> i, text |-> ""]
Plain(fields) == [kind |-> "plain", of |-> fields]
Nothing == [ref |-> 0, text |-> "undefined"]

Objects ==
  {<<Plain([url |-> Text("page"), converters |-> Ref(3), accepts |-> a, data |-> Ref(4)]),
     Plain([url |-> u, converters |-> c, accepts |-> b, context |-> Ref(7)]),
     Plain([json |-> Text("parse"), xml |-> Ref(4)]), [kind |-> "array", of |-> "0" :> Text("x")],
     Plain([script |-> Text("run"), xml |-> x]), [kind |-> "array", of |-> "1" :> Text("y")],
     Plain([of |-> Text("call")])>> :
     a, b \in {Text("any"), Ref(4), Ref(5)}, c \in {Ref(5), Ref(6), Nothing},
     u \in {Text("answer"), Ref(7), Nothing}, x \in {Ref(6), Ref(7), Text("read")}}

Ajax == INSTANCE Ajax WITH
  Request <- Requests, Settings <- Asked, Objects <- Objects, MaxThrows <- 1,
  req <- x1, active <- x2, started <- x3, stack <- x4, throws <- x5, jsonp <- x6,
  got <- x7, mixed <- x8, ended <- x9, called <- x10

-----------------------------------------------------------------------------
(* A form with each kind of control; two options are in groups, and three  *)
(* controls in a fieldset.                                                 *)
Controls == <<"text", "box", "one", "two", "pick", "some">>
FormKinds == [text |-> "text", box |-> "checkbox", one |-> "radio", two |-> "radio",
          pick |-> "select", some |-> "multiple"]
FormChoices == [text |-> <<>>, box |-> <<>>, one |-> <<>>, two |-> <<>>,
            pick |-> <<"o1", "o2", "o3">>, some |-> <<"o4", "o5">>]
Says == [text |-> "", box |-> "x", one |-> "x", two |-> "y",
         o1 |-> "x", o2 |-> "y", o3 |-> "y", o4 |-> "x", o5 |-> "y"]
Holders == [text |-> "field", box |-> "field", some |-> "field",
            one |-> "none", two |-> "none", pick |-> "none",
            o1 |-> "none", o2 |-> "group", o3 |-> "none", o4 |-> "none", o5 |-> "group2"]
Sets == {<<"text">>, <<"box", "two">>, <<"one", "two">>, <<"pick">>, <<"pick", "some">>,
         <<"o2">>, <<"o2", "o5">>, <<"field">>, <<"group">>, <<"group2">>}
Values == {[array |-> FALSE, of |-> <<"y">>], [array |-> TRUE, of |-> <<"x", "y">>],
           [array |-> TRUE, of |-> <<"z">>]}

Forms == INSTANCE Forms WITH
  Control <- Controls, Kind <- FormKinds, Options <- FormChoices, Says <- Says,
  Holder <- Holders, Start <- {"one"}, Sets <- Sets, Values <- Values,
  Styled <- {"text"}, Written <- {<<>>, <<"a", "b", "a">>},
  Classes <- {<<"a">>, <<"b", "a">>, <<"a", "a">>}, MaxOps <- 3, None <- "none",
  Legends <- {"box"}, Params <- {}, Owners <- {}, Camel <- <<>>, Dashed <- <<>>,
  Marks <- {}, Texts <- {}, Numbers <- {}, Braces <- {}, Json <- {}, Things <- {},
  f <- x1, c <- x2, d <- x3, ops <- x4, last <- x5, want <- x6, told <- x7

-----------------------------------------------------------------------------
(* Data that two names stand for, attributes of which one has a name that is *)
(* read as another's, texts of some types; and lists within lists and        *)
(* objects, in any order.                                                  *)
Word(x) == [kind |-> "text", of |-> x]
List(items) == [kind |-> "array", of |-> items]
Object(pairs) == [kind |-> "object", of |-> pairs]

Items == {Word("x"), [kind |-> "null", of |-> ""], List(<<Word("x"), Word("y")>>),
          Object(<<<<"k", Word("x")>>, <<"m", List(<<Word("y")>>)>>>>)}
Lists == {List(<<i, j>>) : i, j \in Items}
Given == {Object(<<<<<<"a">>, v>>, <<<<"b">>, i>>>>) :
            v \in Lists \cup {List(<<l, Word("z")>>) : l \in Lists}, i \in Items}
         \cup {Object(<<<<<<"a", "">>, List(<<Word("x"), Word("y")>>)>>>>)}

FormData == INSTANCE Forms WITH
  Control <- <<>>, Kind <- <<>>, Options <- <<>>, Says <- <<>>, Holder <- <<>>,
  Start <- {}, Sets <- {}, Values <- {}, Styled <- {}, Written <- {},
  Classes <- {}, MaxOps <- 4, None <- "none", Legends <- {}, Params <- Given,
  Owners <- {"element"},
  Camel <- ("fooBar" :> "fooBar" @@ "foo-bar" :> "fooBar" @@ "-ms-x" :> "msX"),
  Dashed <- ("fooBar" :> "foo-bar" @@ "msX" :> "ms-x"),
  Marks <- {"foo-bar", "-ms-x"}, Texts <- {"7", "07", "{x"}, Numbers <- {"7"},
  Braces <- {"{x"}, Json <- {}, Things <- {[type |-> "string", of |-> "thing"]},
  f <- x1, c <- x2, d <- x3, ops <- x4, last <- x5, want <- x6, told <- x7

-----------------------------------------------------------------------------
Styles == INSTANCE Styles WITH
  Elem <- {"outer", "inner"}, Parent <- [outer |-> "page", inner |-> "outer"],
  Flow <- [outer |-> 3, inner |-> 2], Content <- [outer |-> 20, inner |-> 9],
  Edge <- [outer |-> [padding |-> 1, border |-> 2, margin |-> 4],
           inner |-> [padding |-> 2, border |-> 1, margin |-> 1]],
  BorderBox <- {"inner"},
  Start <- {[display |-> [outer |-> "", inner |-> "flex"],
             position |-> [outer |-> o, inner |-> i[1]], top |-> [outer |-> -100, inner |-> i[2]]] :
              o \in {"static", "relative"},
              i \in {<<"static", 2>>, <<"relative", -100>>, <<"absolute", -100>>, <<"absolute", 4>>,
                     <<"fixed", 4>>}},
  Lists <- {<<"inner">>, <<"outer", "inner">>}, Heights <- {7}, Offsets <- {6},
  Scrolls <- {7}, MaxOps <- 3, Page <- "page", None <- -100, s <- x1, tells <- x2,
  done <- x3, want <- x4, ops <- x5

-----------------------------------------------------------------------------
NoneFrom17 == x17 = 0
NoneFrom12 == x12 = 0 /\ x13 = 0 /\ x14 = 0 /\ x15 = 0 /\ x16 = 0 /\ NoneFrom17
NoneFrom11 == x11 = 0 /\ NoneFrom12
NoneFrom8 == x8 = 0 /\ x9 = 0 /\ x10 = 0 /\ NoneFrom11
NoneFrom6 == x6 = 0 /\ x7 = 0 /\ NoneFrom8
NoneFrom1 == x1 = 0 /\ x2 = 0 /\ x3 = 0 /\ x4 = 0 /\ x5 = 0 /\ NoneFrom6

from17 == <<x17>>
from12 == <<x12, x13, x14, x15, x16, from17>>
from11 == <<x11, from12>>
from8 == <<x8, x9, x10, from11>>
from6 == <<x6, x7, from8>>
from1 == <<x1, x2, x3, x4, x5, from6>>
all == <<used, eventVars, from1>>

NoEvents ==
  /\ targetKind = "a" /\ listening = {} /\ stack = <<>> /\ triggered = "none"
  /\ handlers = [e \in Elem |-> [t \in Types |-> <<>>]]
  /\ delegateCount = [e \in Elem |-> [t \in Types |-> 0]]
  /\ binds = 0 /\ events = 0 /\ offs = 0 /\ spent = {}

JQueryInit ==
  \/ used = "Callbacks" /\ NoEvents /\ Callbacks!ListInit /\ NoneFrom17
  \/ used = "Deferred" /\ NoEvents /\ Deferred!Init
  \/ used = "Effects" /\ NoEvents /\ Effects!Init /\ NoneFrom12
  \/ used = "Events" /\ EventsInit /\ NoneFrom1
  \/ used = "Ajax" /\ NoEvents /\ Ajax!Init /\ NoneFrom11
  \/ used = "Forms" /\ NoEvents /\ Forms!Init /\ NoneFrom8
  \/ used = "FormData" /\ NoEvents /\ FormData!Init /\ NoneFrom8
  \/ used = "Styles" /\ NoEvents /\ Styles!Init /\ NoneFrom6

CallbacksStep == used = "Callbacks" /\ Callbacks!ListNext /\ UNCHANGED <<used, eventVars, from17>>
DeferredStep == used = "Deferred" /\ Deferred!Next /\ UNCHANGED <<used, eventVars>>
EffectsStep == used = "Effects" /\ Effects!Next /\ UNCHANGED <<used, eventVars, from12>>
EventsStep == used = "Events" /\ EventsNext /\ UNCHANGED <<used, from1>>
AjaxStep == used = "Ajax" /\ Ajax!Next /\ UNCHANGED <<used, eventVars, from11>>
FormsStep == used = "Forms" /\ Forms!Next /\ UNCHANGED <<used, eventVars, from8>>
FormDataStep == used = "FormData" /\ FormData!Next /\ UNCHANGED <<used, eventVars, from8>>
StylesStep == used = "Styles" /\ Styles!Next /\ UNCHANGED <<used, eventVars, from6>>

JQueryNext ==
  \/ CallbacksStep
  \/ DeferredStep
  \/ EffectsStep
  \/ EventsStep
  \/ AjaxStep
  \/ FormsStep
  \/ FormDataStep
  \/ StylesStep

(* The browser delivers the events of a request and calls its timer; whether *)
(* an answer comes is up to the net.                                       *)
AjaxFairness ==
  /\ WF_all(used = "Ajax" /\ Ajax!Send /\ UNCHANGED <<used, eventVars, from11>>)
  /\ WF_all(used = "Ajax" /\ Ajax!Part /\ UNCHANGED <<used, eventVars, from11>>)
  /\ WF_all(used = "Ajax" /\ Ajax!Over /\ UNCHANGED <<used, eventVars, from11>>)
  /\ \A r \in Requests : WF_all(used = "Ajax" /\ Ajax!Timeout(r) /\ UNCHANGED <<used, eventVars, from11>>)

JQuerySpec == JQueryInit /\ [][JQueryNext]_all /\ AjaxFairness

-----------------------------------------------------------------------------
(* A list of callbacks calls each function in its list once, in order,      *)
(* whatever the functions do to the list while they are called; and it      *)
(* comes to rest.  A deferred that is chained takes the outcome of the      *)
(* promise its handler returned, one made by when that of its parts.        *)
OutcomesFollow ==
  /\ used = "Callbacks" => Callbacks!NoneSkipped /\ Callbacks!AtRest
  /\ used = "Deferred" => Deferred!FollowsPromise /\ Deferred!WhenAll

(* Effects are served: an element has one animation at a time, none waits   *)
(* for ever, and what is left when all are over is what the last one was    *)
(* for.                                                                    *)
EffectsServed ==
  used = "Effects" => Effects!QueueServed /\ Effects!LoopAlive /\ Effects!LooksRight

(* A call ends once, in whatever order abort, timeout and answer come, and  *)
(* jQuery.active counts those that have not ended; its settings are its own. *)
EndsOnce ==
  used = "Ajax" =>
    Ajax!EndsOnce /\ Ajax!ActiveExact /\ Ajax!OwnAnswer /\ Ajax!NamesFree /\ Ajax!SettingsOwn

(* What the page's scripts set is what they read: of a form, of which what   *)
(* the user sees is what is sent, of classes, and of heights and places;    *)
(* and what they hide and show again is as it was before.                  *)
SetIsTold ==
  /\ used = "Forms" => Forms!SentAsShown /\ Forms!SetIsRead /\ Forms!ClassesAsAsked
  /\ used = "FormData" => FormData!DataStays /\ FormData!ParamsRead
  /\ used = "Styles" => Styles!ShownAsBefore /\ Styles!HeightIsSet /\ Styles!OffsetIsSet

(* What is done stays done: a deferred is settled once, the ready handlers  *)
(* not before their time, and an event that was stopped is heard no further. *)
Final ==
  [][/\ used = "Deferred" => Deferred!SettlesOnce /\ Deferred!ReadyInTime
     /\ HeardHere]_all

(* A request with a timeout ends, whatever the net does.                    *)
TimesOut ==
  \A r \in Requests :
    (used = "Ajax" /\ Ajax!Timed(r)) ~> (used = "Ajax" /\ Ajax!Ended(r))
=============================================================================
