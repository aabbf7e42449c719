------------------------------ MODULE Switches ------------------------------
(***************************************************************************)
(* What one click turns, in Bootstrap: tabs and the panes they show         *)
(* (bootstrap.js 2069-2214), buttons that stand for radio buttons and check *)
(* boxes or that show that something is loading (183-298), alerts that are  *)
(* dismissed (88-172), and the menus (760-915), one of which every page has: *)
(* a click on what toggles a menu opens it and closes the others, any other *)
(* click closes them, keys move through the items.                         *)
(***************************************************************************)
EXTENDS Naturals, Sequences, SequencesExt, FiniteSets

CONSTANTS Tab,      \* tabs, and the panes of the same names; a set of numbers
          Button,   \* the buttons of one group, a set
          Menu,     \* menus, numbers in the order of the page
          Items,    \* Items[m]: the number of items of m that are not disabled
          Parts,    \* which a page has of "tabs", "group", "loading", "alert", "menus"
          MaxOps,   \* bound on clicks and calls
          None

VARIABLES
  part,   \* the one that is looked at
  tabs, group, loading, alert, menus,
  ops

vars == <<part, tabs, group, loading, alert, menus, ops>>

-----------------------------------------------------------------------------
(* Tab.  A transition is on its way from the panes that were active.        *)

InitTabs ==
  {[li |-> {t}, active |-> {t}, in |-> IF fade THEN {t} ELSE {}, fade |-> fade,
    bound |-> <<>>, hasty |-> FALSE] : t \in Tab, fade \in BOOLEAN}

(* The function `next' of activate.                                        *)
Turned(s, from, to) ==
  [s EXCEPT !.active = (@ \ from) \cup {to}, !.in = IF s.fade THEN @ \cup {to} ELSE @]

(* Mutation: the pane that is left stays active.                           *)
activateMut(s, pane) ==
  IF s.fade THEN [s EXCEPT !.in = @ \ s.active, !.bound = Append(@, [from |-> {}, to |-> pane])]
  ELSE Turned(s, {}, pane)

activate(s, pane) ==
  IF s.fade /\ s.active # {}
  THEN [s EXCEPT !.in = @ \ s.active, !.bound = Append(@, [from |-> s.active, to |-> pane])]
  ELSE Turned([s EXCEPT !.in = @ \ s.active], s.active, pane)

Op == ops < MaxOps /\ ops' = ops + 1

(* show: a function of the page may prevent it.                            *)
ShowTab(t) ==
  /\ part = "tabs" /\ Op
  /\ t \notin tabs.li
  /\ tabs' \in {tabs, [activate([tabs EXCEPT !.li = {t}], t) EXCEPT !.hasty = tabs.bound # <<>>]}
  /\ UNCHANGED <<part, group, loading, alert, menus>>

TabTurned ==
  /\ tabs.bound # <<>>
  /\ tabs' = FoldLeft(LAMBDA s, b : Turned(s, b.from, b.to), [tabs EXCEPT !.bound = <<>>],
                      tabs.bound)
  /\ UNCHANGED <<part, group, loading, alert, menus, ops>>

-----------------------------------------------------------------------------
(* Button.prototype.toggle for the inputs of a group.                      *)

InitGroup ==
  {[radio |-> radio, active |-> on, checked |-> on, heard |-> 0, changes |-> 0] :
     radio \in BOOLEAN, on \in {{}} \cup {{b} : b \in Button}}

(* Mutation: what the input itself has turned is reported again.           *)
ChangedMut(g, b) == IF g.radio THEN b \notin g.active ELSE TRUE

Changed(g, b) == IF g.radio THEN b \notin g.checked ELSE b \in g.checked <=> b \in g.active

toggle(g, b) ==
  LET active == IF g.radio THEN {b}
                ELSE IF b \in g.active THEN g.active \ {b} ELSE g.active \cup {b}
  IN  [g EXCEPT !.active = active,
                !.checked = IF b \in active THEN (IF g.radio THEN {b} ELSE @ \cup {b}) ELSE @ \ {b},
                !.heard = IF Changed(g, b) THEN @ + 1 ELSE @]

(* What the browser does when the input is clicked: it turns it before the  *)
(* click is heard and reports the change after it.                         *)
Turn(g, b) ==
  [g EXCEPT !.checked = IF g.radio THEN {b} ELSE IF b \in @ THEN @ \ {b} ELSE @ \cup {b}]

ClickButton(b) ==
  /\ part = "group" /\ Op
  /\ \E onInput \in BOOLEAN :
       LET before == IF onInput THEN Turn(group, b) ELSE group
           after == toggle(before, b)
       IN  group' = [after EXCEPT
                       !.heard = IF before.checked # group.checked THEN @ + 1 ELSE @,
                       !.changes = IF after.checked # group.checked THEN @ + 1 ELSE @]
  /\ UNCHANGED <<part, tabs, loading, alert, menus>>

-----------------------------------------------------------------------------
(* Button.prototype.setState.                                              *)

InitLoading ==
  {[text |-> "label", resetText |-> None, isLoading |-> FALSE, disabled |-> FALSE,
    timers |-> <<>>,
    last |-> None]}

SetState(state) ==
  /\ part = "loading" /\ Op
  /\ loading' = [loading EXCEPT !.resetText = IF @ = None THEN loading.text ELSE @,
                                !.timers = Append(@, state), !.last = state]
  /\ UNCHANGED <<part, tabs, group, alert, menus>>

(* The timeout, in the order of the calls.                                 *)
StateSet ==
  /\ loading.timers # <<>>
  /\ LET state == Head(loading.timers)
     IN  loading' = [loading EXCEPT
           !.timers = Tail(@),
           !.text = IF state = "reset" THEN loading.resetText ELSE state,
           !.isLoading = state = "loading",
           !.disabled = IF state = "loading" THEN TRUE ELSE @ /\ ~ loading.isLoading]
  /\ UNCHANGED <<part, tabs, group, alert, menus, ops>>

-----------------------------------------------------------------------------
(* Alert.prototype.close.                                                  *)

InitAlert == {[there |-> TRUE, in |-> fade, fade |-> fade, bound |-> 0, closed |-> 0] :
                fade \in BOOLEAN}

(* removeElement: remove takes away what was bound to the alert, so that    *)
(* `closed' is heard the first time only.                                  *)
Removed(a) == [a EXCEPT !.there = FALSE, !.closed = IF a.there THEN @ + 1 ELSE @]

Close ==
  /\ part = "alert" /\ Op /\ alert.there
  /\ alert' \in {alert, IF alert.fade THEN [alert EXCEPT !.in = FALSE, !.bound = @ + 1]
                        ELSE Removed(alert)}
  /\ UNCHANGED <<part, tabs, group, loading, menus>>

AlertGone ==
  /\ alert.bound > 0
  /\ alert' = [Removed(alert) EXCEPT !.bound = 0]
  /\ UNCHANGED <<part, tabs, group, loading, menus, ops>>

-----------------------------------------------------------------------------
(* Dropdown.  The document hears of a click last, what toggles a menu first. *)

NoItem == <<0, 0>>

(* disabled: the menus whose toggle is; focus: <<m, i>>, item i of m, or its *)
(* toggle if i is 0; kept: for the property, whether a function of the page  *)
(* has kept a menu open.                                                   *)
InitMenus ==
  {[disabled |-> off, open |-> {}, focus |-> NoItem, kept |-> FALSE] : off \in SUBSET Menu}

(* clearMenus, for a click in a text field of menu `field' or, 0, anything  *)
(* else; the events it makes itself take the place of the click.           *)
Clear(field, keeping) ==
  LET open == menus.open
      first == IF open = {} THEN 0 ELSE CHOOSE m \in open : \A n \in open : m <= n
  IN  {m \in open : m \in keeping \/ (m = field /\ m = first)}

(* Mutation: opening a menu leaves the others.                             *)
OthersMut(keeping) == menus.open

Others(keeping) == Clear(0, keeping)

(* toggle: whether the click is used up, `return false', is UsedUp.        *)
Toggled(m, keeping, refused) ==
  IF m \in menus.disabled THEN menus.open
  ELSE IF m \in menus.open \/ refused THEN Others(keeping)
  ELSE Others(keeping) \cup {m}

UsedUp(m, refused) == m \notin menus.disabled /\ (m \in menus.open \/ ~ refused)

OnMenus == part = "menus" /\ Op /\ UNCHANGED <<part, tabs, group, loading, alert>>

Opened(open, focus, kept) ==
  menus' = [menus EXCEPT !.open = open, !.focus = focus, !.kept = @ \/ kept]

(* The functions of the page keep some menus open and refuse, or not, the  *)
(* one that is to be opened.                                               *)
ClickToggle(m) ==
  /\ OnMenus
  /\ \E keeping \in SUBSET menus.open, refused \in BOOLEAN :
       LET toggled == Toggled(m, keeping, refused)
           open == IF UsedUp(m, refused) THEN toggled ELSE toggled \cap Clear(0, keeping)
       IN  Opened(open, IF m \in open \ menus.open THEN <<m, 0>> ELSE menus.focus, keeping # {})

(* A click elsewhere: in a text field of a menu, in a form of one, where it *)
(* does not reach the document, or in the rest of the page.                *)
Click ==
  /\ OnMenus
  /\ \/ Opened(menus.open, menus.focus, FALSE)
     \/ \E keeping \in SUBSET menus.open, field \in {0} \cup menus.open :
          Opened(Clear(field, keeping), menus.focus, keeping # {})

(* keydown on a toggle or in a menu.                                       *)
Moved(i, n, key) ==
  IF key = "up" /\ i > 1 THEN i - 1
  ELSE IF key = "down" /\ i < n THEN i + 1
  ELSE IF i = 0 THEN 1 ELSE i

(* Opening and closing by a key is a click on what has the focus, which     *)
(* toggles if that is the toggle and clears if it is an item.              *)
Key(key) ==
  LET m == menus.focus[1]
      item == menus.focus[2]
      escape == key = "escape"
      open == IF item = 0 THEN Toggled(m, {}, FALSE) ELSE Clear(0, {})
      to == IF m \in menus.open /\ Items[m] > 0 THEN <<m, Moved(item, Items[m], key)>>
            ELSE menus.focus
  IN  /\ OnMenus /\ menus.focus # NoItem /\ m \notin menus.disabled
      /\ IF escape <=> m \in menus.open
         THEN Opened(open, IF escape \/ m \in open THEN <<m, 0>> ELSE menus.focus, FALSE)
         ELSE Opened(menus.open, to, FALSE)

Focus(m) == OnMenus /\ m \notin menus.disabled /\ Opened(menus.open, <<m, 0>>, FALSE)

Keys == {"up", "down", "space", "escape"}

-----------------------------------------------------------------------------
Init ==
  /\ part \in Parts
  /\ tabs \in InitTabs /\ group \in InitGroup /\ loading \in InitLoading /\ alert \in InitAlert
  /\ menus \in IF part = "menus" THEN InitMenus ELSE {m \in InitMenus : m.disabled = {}}
  /\ ops = 0

Next ==
  \/ (\E t \in Tab : ShowTab(t)) \/ TabTurned
  \/ (\E b \in Button : ClickButton(b))
  \/ (\E state \in {"loading", "done", "reset"} : SetState(state)) \/ StateSet
  \/ Close \/ AlertGone
  \/ (\E m \in Menu : ClickToggle(m) \/ Focus(m)) \/ Click \/ (\E key \in Keys : Key(key))

Spec == Init /\ [][Next]_vars

-----------------------------------------------------------------------------
(* Between transitions the pane of the tab that is marked is the one shown, *)
(* and the only one, unless the last click came during a transition.       *)
PaneOfTab ==
  tabs.bound = <<>> /\ ~ tabs.hasty =>
    tabs.active = tabs.li /\ (tabs.fade => tabs.li \subseteq tabs.in)

(* A button looks as its input stands, and every change of an input is      *)
(* reported once, whether the click met the button or the input.           *)
ChangeHeard == group.active = group.checked /\ group.heard = group.changes

(* A button is disabled if the last state asked for is "loading", and its   *)
(* own label comes back, however quickly the calls follow each other.      *)
LastState ==
  loading.timers = <<>> /\ loading.last # None =>
    /\ loading.disabled <=> loading.last = "loading"
    /\ loading.last = "reset" => loading.text = "label"

(* No more than one menu is open, unless the page keeps one, whatever the   *)
(* order of clicks and keys and whether a click reaches the document.      *)
OneMenu == ~ menus.kept => Cardinality(menus.open) <= 1

(* An alert closes once.                                                   *)
ClosedOnce == alert.closed <= 1 /\ (alert.closed = 1) = ~ alert.there
=============================================================================
