------------------------------ MODULE Callbacks ------------------------------
(***************************************************************************)
(* jQuery.Callbacks (jquery-3.2.1.js 3274), the list of functions under     *)
(* every Deferred and so under ready handlers, animations and requests.    *)
(* A function of the list may itself use the list while it is being fired:  *)
(* add or remove functions, empty, lock, disable or fire it again, return  *)
(* false, or throw.                                                        *)
(*                                                                         *)
(* An argument is the number of the call of fireWith that brought it; 0    *)
(* stands for no memory, a list of <<>> with alive = FALSE for the empty   *)
(* string that a disabled list is set to.                                  *)
(***************************************************************************)
EXTENDS Integers, Sequences, FiniteSets

CONSTANTS Function,   \* functions that are added to the list
          Options,    \* the options a list may be made with, sets of names
          MaxFires,   \* bound on the calls of fireWith
          MaxList,    \* bound on the length of the list
          MaxChanges  \* bound on the changes of a list between two firings

VARIABLES
  options, list, alive, queue, memory, locked, firing, firingIndex, fired,
  inPass,   \* whether fire is in its inner loop
  running,  \* the function that is being called, or "none"
  fires,    \* calls of fireWith
  changes,
  due,      \* for the properties: functions that must still be called,
  emptied,  \* whether the list was emptied in this pass
  thrown    \* and whether a function has thrown

listVars ==
  <<options, list, alive, queue, memory, locked, firing, firingIndex, fired, inPass, running,
    fires, changes, due, emptied, thrown>>

ListInit ==
  /\ options \in Options
  /\ list = <<>> /\ alive = TRUE /\ queue = <<>> /\ memory = 0
  /\ locked = FALSE /\ firing = FALSE /\ firingIndex = -1 /\ fired = FALSE
  /\ inPass = FALSE /\ running = "none" /\ fires = 0 /\ changes = 0
  /\ due = <<>> /\ emptied = FALSE /\ thrown = FALSE

(* Code outside the list, or the function being called, has its turn.      *)
ListFree == ~ firing \/ thrown \/ running # "none"

(* The functions after the current one.                                    *)
Rest == SubSeq(list, firingIndex + 2, Len(list))

-----------------------------------------------------------------------------
(* fire: the loop over the queue and the list, one call a step.            *)

Firing == firing /\ ~ thrown /\ running = "none"

Enter ==
  /\ firing' = TRUE /\ fired' = TRUE
  /\ locked' = (locked \/ "once" \in options)

(* The next entry of the queue becomes the memory and the list is begun,   *)
(* at its head or, for add, where the new functions are.                   *)
BeginPass ==
  /\ Firing /\ ~ inPass /\ queue # <<>>
  /\ inPass' = TRUE
  /\ memory' = Head(queue) /\ queue' = Tail(queue)
  /\ due' = Rest /\ emptied' = FALSE
  /\ UNCHANGED <<options, list, alive, locked, firing, firingIndex, fired, running, fires,
                 changes, thrown>>

CallNext ==
  /\ Firing /\ inPass /\ Rest # <<>>
  /\ firingIndex' = firingIndex + 1
  /\ running' = Head(Rest)
  /\ due' = IF due = <<>> THEN due ELSE Tail(due)
  /\ UNCHANGED <<options, list, alive, queue, memory, locked, firing, fired, inPass, fires,
                 changes, emptied, thrown>>

EndPass ==
  /\ Firing /\ inPass /\ Rest = <<>>
  /\ inPass' = FALSE /\ firingIndex' = -1
  /\ UNCHANGED <<options, list, alive, queue, memory, locked, firing, fired, running, fires,
                 changes, due, emptied, thrown>>

(* The end of fire: the memory is dropped or kept, a locked list cleared.  *)
LeaveFire ==
  /\ Firing /\ ~ inPass /\ queue = <<>>
  /\ memory' = IF "memory" \in options THEN memory ELSE 0
  /\ firing' = FALSE
  /\ IF locked THEN list' = <<>> /\ alive' = (memory' # 0) ELSE UNCHANGED <<list, alive>>
  /\ changes' = 0 /\ emptied' = FALSE
  /\ UNCHANGED <<options, queue, locked, firingIndex, fired, inPass, running, fires, due, thrown>>

(* A function returns; false ends the pass and the memory of it.           *)
FunctionReturns ==
  /\ running # "none"
  /\ running' = "none"
  /\ \/ UNCHANGED <<firingIndex, memory, due>>
     \/ /\ "stopOnFalse" \in options
        /\ firingIndex' = Len(list) /\ memory' = 0 /\ due' = <<>>
  /\ UNCHANGED <<options, list, alive, queue, locked, firing, fired, inPass, fires, changes,
                 emptied, thrown>>

(* An exception leaves fire in the middle: the list is taken to be firing  *)
(* for ever.                                                               *)
Throws ==
  /\ running # "none"
  /\ running' = "none" /\ thrown' = TRUE /\ due' = <<>>
  /\ UNCHANGED <<options, list, alive, queue, memory, locked, firing, firingIndex, fired,
                 inPass, fires, changes, emptied>>

-----------------------------------------------------------------------------
ChangesList ==
  /\ ListFree /\ changes < MaxChanges
  /\ changes' = changes + 1
  /\ UNCHANGED <<options, inPass, running, fires, thrown>>

Has(f) == \E i \in 1 .. Len(list) : list[i] = f

(* add: a list that remembers a firing calls the new function at once.     *)
Add(f) ==
  LET new == IF "unique" \in options /\ Has(f) THEN <<>> ELSE <<f>>
  IN  /\ ChangesList /\ alive /\ Len(list) < MaxList
      /\ list' = list \o new
      /\ IF memory # 0 /\ ~ firing
         THEN /\ firingIndex' = Len(list) - 1
              /\ queue' = Append(queue, memory)
              /\ Enter
         ELSE UNCHANGED <<firingIndex, queue, firing, fired, locked>>
      /\ due' = IF inPass /\ ~ thrown THEN due \o new ELSE due
      /\ UNCHANGED <<alive, memory, emptied>>

Positions(f) == {i \in 1 .. Len(list) : list[i] = f}

(* Mutation: the index is moved only for functions before the current one. *)
PassedMut(f) == {i \in Positions(f) : i - 1 < firingIndex}

(* Occurrences that have been called already, or are being called.         *)
Passed(f) == {i \in Positions(f) : i - 1 <= firingIndex}

Without(s, f) ==
  LET without[n \in 0 .. Len(s)] ==
        IF n = 0 THEN <<>>
        ELSE IF s[n] # f THEN Append(without[n - 1], s[n]) ELSE without[n - 1]
  IN  without[Len(s)]

(* remove: every occurrence is spliced out; firingIndex follows.           *)
RemoveFunction(f) ==
  /\ ChangesList /\ Has(f)
  /\ list' = Without(list, f)
  /\ firingIndex' = firingIndex - Cardinality(Passed(f))
  /\ due' = Without(due, f)
  /\ UNCHANGED <<alive, queue, memory, locked, firing, fired, emptied>>

Empty ==
  /\ ChangesList /\ alive
  /\ list' = <<>> /\ due' = <<>> /\ emptied' = inPass
  /\ UNCHANGED <<alive, queue, memory, locked, firing, firingIndex, fired>>

Disable ==
  /\ ChangesList
  /\ list' = <<>> /\ alive' = FALSE /\ memory' = 0
  /\ locked' = TRUE /\ queue' = <<>> /\ due' = <<>>
  /\ UNCHANGED <<firing, firingIndex, fired, emptied>>

Lock ==
  /\ ChangesList
  /\ locked' = TRUE /\ queue' = <<>>
  /\ IF memory = 0 /\ ~ firing THEN list' = <<>> /\ alive' = FALSE ELSE UNCHANGED <<list, alive>>
  /\ UNCHANGED <<memory, firing, firingIndex, fired, due, emptied>>

(* fireWith: while the list is being fired the argument waits in the queue. *)
FireWith ==
  /\ ListFree /\ fires < MaxFires
  /\ fires' = fires + 1
  /\ IF locked THEN UNCHANGED <<queue, firing, fired, locked>>
     ELSE /\ queue' = Append(queue, fires')
          /\ IF firing THEN UNCHANGED <<firing, fired, locked>> ELSE Enter
  /\ UNCHANGED <<options, list, alive, memory, firingIndex, inPass, running, changes, due,
                 emptied, thrown>>

-----------------------------------------------------------------------------
Fire == BeginPass \/ CallNext \/ EndPass \/ LeaveFire

UseList ==
  \/ \E f \in Function : Add(f) \/ RemoveFunction(f)
  \/ Empty \/ Disable \/ Lock \/ FireWith

ListNext == Fire \/ FunctionReturns \/ Throws \/ UseList

ListSpec ==
  /\ ListInit /\ [][ListNext]_listVars
  /\ WF_listVars(Fire) /\ WF_listVars(FunctionReturns \/ Throws)

-----------------------------------------------------------------------------
(* Whatever the functions do to the list they are called from, each one     *)
(* that is in the list and has not been called in this pass is called once, *)
(* in order; unless the list is emptied in the pass, when functions added  *)
(* after that are passed over.                                             *)
NoneSkipped == inPass /\ ~ thrown /\ ~ emptied => due = Rest

(* A list that is not being fired has nothing waiting and remembers only   *)
(* if it was made to.                                                      *)
AtRest ==
  ~ firing =>
    /\ queue = <<>> /\ firingIndex = -1 /\ running = "none"
    /\ memory # 0 => "memory" \in options /\ alive
=============================================================================
