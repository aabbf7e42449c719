------------------------------ MODULE MCWidgets -----------------------------
(***************************************************************************)
(* Instances, for TLC, of the widgets the pages load: the plugins of        *)
(* Bootstrap, the table of results and the upload widget with its previews; *)
(* and of the elements they move and the selections by which they find them. *)
(* Each stands by itself: a behaviour exercises one of them.  The dialog has *)
(* its variables; the others take turns in using the variables x1 to x15,   *)
(* which are 0 where not used.                                             *)
(***************************************************************************)
EXTENDS Modal, Integers, TLC

CONSTANTS None, Null

VARIABLES used, x1, x2, x3, x4, x5, x6, x7, x8, x9, x10, x11, x12, x13, x14, x15

-----------------------------------------------------------------------------
Collapse == INSTANCE Collapse WITH
  Panel <- 1 .. 3, Parent <- BOOLEAN, MaxOps <- 4, grouped <- x1, panels <- x2,
  ops <- x3, wasOpen <- x4

-----------------------------------------------------------------------------
(* Where tips are put: elements at the edges and in the middle of a window,  *)
(* in the body or in a box of it; tips that break their text at its edge.   *)
Page(inBody, box, element, tip) ==
  [inBody |-> inBody, width |-> 20, height |-> 10, document |-> 16, padding |-> 2,
   box |-> box, element |-> element @@ [scroll |-> 0], tip |-> tip]

Box(scroll) == [left |-> 4, top |-> 2, width |-> 12, height |-> 10, scroll |-> scroll]

Edges ==
  {Page(port[1], Box(port[2]), [left |-> left, top |-> top, width |-> 4, height |-> 2],
        [width |-> 8, height |-> high, breaks |-> breaks]) :
     port \in {<<TRUE, 0>>, <<FALSE, 0>>, <<FALSE, 2>>}, left \in {0, 8, 12, 16}, top \in {0, 4, 14},
     high \in {2, 6}, breaks \in BOOLEAN}

Plain == CHOOSE page \in Edges : page.inBody

Tooltip == INSTANCE Tooltip WITH
  Delays <- [show : BOOLEAN, hide : BOOLEAN], Animated <- BOOLEAN,
  Delegated <- BOOLEAN, MaxObjects <- 2, MaxOps <- 5, None <- None,
  Pages <- {Plain}, Scrolls <- {0}, Places <- {[side |-> "top", auto |-> FALSE]},
  opt <- x1, scroll <- x2, objects <- x3, data <- x4, over <- x5, ops <- x6,
  wanted <- x7, plain <- x8

-----------------------------------------------------------------------------
TipPlace == INSTANCE Tooltip WITH
  Delays <- {[show |-> TRUE, hide |-> FALSE]}, Animated <- {FALSE},
  Delegated <- {FALSE}, MaxObjects <- 1, MaxOps <- 2, None <- None, Pages <- Edges,
  Scrolls <- {0, 4},
  Places <- [side : {"top", "bottom", "left", "right"}, auto : BOOLEAN], opt <- x1,
  scroll <- x2, objects <- x3, data <- x4, over <- x5, ops <- x6, wanted <- x7,
  plain <- x8

-----------------------------------------------------------------------------
Carousel == INSTANCE Carousel WITH
  Items <- 3, MaxOps <- 5, opt <- x1, show <- x2, ops <- x3, late <- x4

-----------------------------------------------------------------------------
(* Among the menus one has two items, one is empty and one has three.       *)
Switches == INSTANCE Switches WITH
  Tab <- 1 .. 3, Button <- {"a", "b"}, Menu <- 1 .. 3, Items <- <<2, 0, 3>>,
  Parts <- {"tabs", "group", "loading", "alert", "menus"}, MaxOps <- 4, None <- None,
  part <- x1, tabs <- x2, group <- x3, loading <- x4, alert <- x5, ops <- x6, menus <- x7

-----------------------------------------------------------------------------
(* Pages whose sections stand in another order than their links, with the   *)
(* same height or another one.                                             *)
Layouts ==
  {[height |-> 12, top |-> ("a" :> 2 @@ "b" :> 5 @@ "c" :> 9)],
   [height |-> 12, top |-> ("a" :> 6 @@ "b" :> 3 @@ "c" :> 9)],
   [height |-> 15, top |-> ("a" :> 6 @@ "b" :> 3 @@ "c" :> 9)]}

(* The link of b is in the item of a's, and another one is for a too.        *)
Items ==
  <<[up |-> None, to |-> "a"], [up |-> 1, to |-> "b"], [up |-> None, to |-> "a"],
    [up |-> 3, to |-> "c"]>>

Fixed == [height |-> 2, top |-> 3, fixed |-> 1, offsetTop |-> 2, offsetBottom |-> 2]

Scrolling == INSTANCE Scrolling WITH
  Layouts <- Layouts, Items <- Items, Viewport <- 4, Offset <- 1, Element <- Fixed,
  MaxOps <- 4, None <- None, page <- x1, scroll <- x2, spy <- x3, affix <- x4,
  ops <- x5, seen <- x6, checked <- x7

-----------------------------------------------------------------------------
(* Three rows of two columns with equal cells in each of them.             *)
Cells == << <<1, 2>>, <<2, 2>>, <<1, 1>> >>

Table == INSTANCE Table WITH
  Sides <- {"client", "server"}, Loads <- {<<1, 2>>, <<3, 2, 1>>}, Cell <- Cells,
  Texts <- 0 .. 2, PageList <- {1, 2}, Visibles <- {{1, 2}, {2}}, MinColumns <- 1,
  Heights <- {FALSE}, MaxOps <- 3, side <- x1, t <- x2, input <- x3, timer <- x4,
  requests <- x5, ops <- x6, rows <- x7, odd <- x8

-----------------------------------------------------------------------------
(* One with a height, as that of the last page.                              *)
TableHead == INSTANCE Table WITH
  Sides <- {"client", "server"}, Loads <- {<<1, 2>>}, Cell <- Cells, Texts <- {1},
  PageList <- {2}, Visibles <- {{1, 2}}, MinColumns <- 1, Heights <- {TRUE},
  MaxOps <- 3, side <- x1, t <- x2, input <- x3, timer <- x4, requests <- x5,
  ops <- x6, rows <- x7, odd <- x8

-----------------------------------------------------------------------------
(* Two files at a time, a single one, and one that cannot be read first.    *)
Picked == {<<"a", "b">>, <<"c">>, <<"x", "a">>}

FileInput == INSTANCE FileInput WITH
  Picks <- Picked, Bad <- {"x"}, Multiple <- BOOLEAN, Async <- BOOLEAN,
  Patient <- {TRUE}, None <- None, MaxPicks <- 2, MaxUploads <- 2, MaxRemoves <- 1,
  multiple <- x1, patient <- x2, w <- x3, reading <- x4, timers <- x5,
  fading <- x6, requests <- x7, sync <- x8, picks <- x9, uploads <- x10,
  removes <- x11, batches <- x12, completed <- x13, accepted <- x14, astray <- x15

-----------------------------------------------------------------------------
FilePreview == INSTANCE FilePreview WITH
  Starts <- {<<"p", "q", "r">>, <<>>}, Batches <- {<<"x", "y">>, <<Null, "y">>},
  Singles <- {"s"}, Null <- Null, None <- None, MaxOps <- 4, MaxAsked <- 2,
  MaxClicks <- 0, arrays <- x1, initial <- x2, cache <- x3, saved <- x4,
  frames <- x5, batch <- x6, zoom <- x7, ops <- x8, plain <- x9

-----------------------------------------------------------------------------
(* The dialog that shows one of them.                                       *)
FileZoom == INSTANCE FilePreview WITH
  Starts <- {<<"p", "q">>}, Batches <- {}, Singles <- {"s"}, Null <- Null,
  None <- None, MaxOps <- 1, MaxAsked <- 1, MaxClicks <- 5, arrays <- x1,
  initial <- x2, cache <- x3, saved <- x4, frames <- x5, batch <- x6, zoom <- x7,
  ops <- x8, plain <- x9

-----------------------------------------------------------------------------
Elements == INSTANCE Elements WITH
  Node <- 1 .. 6,
  Pages <- {[kids |-> <<<<2>>, <<>>, <<4>>, <<>>, <<>>, <<>>>> @@ (0 :> <<1>>),
             text |-> <<"", "", "", "s", "None", "None">>]},
  Content <- {<<2>>, <<3>>, <<2, 1>>}, Made <- {<<"t">>}, MaxOps <- 3,
  None <- "None", p <- x1, ops <- x2, due <- x3, spent <- x4, lost <- x5,
  again <- x6

-----------------------------------------------------------------------------
Traversal == INSTANCE Traversal WITH
  Node <- 1 .. 6,
  Tree <- <<<<2, 3, 4>>, <<5>>, <<>>, <<6>>, <<>>, <<>>>> @@ (0 :> <<1>>),
  Name <- <<"p", "p", "#text", "q", "q", "p">>,
  Selectors <- {[tag |-> "p", under |-> ""], [tag |-> "q", under |-> "p"]},
  Collections <- {<<1>>, <<5, 4, 5>>, <<0, 6>>}, Removed <- {2, 4}, MaxOps <- 2,
  tree <- x1, chain <- x2, last <- x3, ops <- x4

-----------------------------------------------------------------------------
T(n) == [kind |-> "tag", name |-> n]
Rel(dir, first) == [kind |-> "rel", dir |-> dir, first |-> first]
Desc == Rel("parentNode", FALSE)
Child == Rel("parentNode", TRUE)
After == Rel("previousSibling", FALSE)
NextTo == Rel("previousSibling", TRUE)
Nth(step, offset, last) == [kind |-> "nth", step |-> step, offset |-> offset, last |-> last]
Not(s) == [kind |-> "not", sel |-> s]
Has(s) == [kind |-> "has", sel |-> s]
First == [kind |-> "pos", keeps |-> (0 :> {}) @@ <<{1}, {1}, {1}, {1}, {1}, {1}>>]
Even == [kind |-> "pos",
         keeps |-> (0 :> {}) @@ <<{1}, {1}, {1, 3}, {1, 3}, {1, 3, 5}, {1, 3, 5}>>]

(* Three pages of the same six elements: what was above is below, what     *)
(* was first is last.                                                      *)
Pages ==
  {<<<<2, -1, 3>>, <<4, 5>>, <<6>>, <<>>, <<>>, <<>>>> @@ (0 :> <<1>>),
   <<<<3>>, <<6>>, <<-1, 4, 2, 5>>, <<>>, <<>>, <<>>>> @@ (0 :> <<1>>),
   <<<<>>, <<1, 4, 3, 5>>, <<6>>, <<>>, <<>>, <<>>>> @@ (0 :> <<2>>)}

Written == [
  deep    |-> << <<T("p"), Desc, T("q"), Desc, T("p")>> >>,
  child   |-> << <<T("p"), Child, T("q")>> >>,
  after   |-> << <<T("p"), After, T("q")>> >>,
  next    |-> << <<NextTo, T("q")>>, <<T("p"), NextTo, T("p")>> >>,
  odd     |-> << <<Nth(2, 1, FALSE)>> >>,
  lasts   |-> << <<T("p"), Desc, Nth(0, 1, TRUE)>>, <<T("q"), Nth(2, 0, TRUE)>> >>,
  lonely  |-> << <<T("p"), Desc, T("p"), Not("deep")>> >>,
  holds   |-> << <<T("*"), Has("oddp"), Desc, T("q")>> >>,
  oddp    |-> << <<T("p"), Nth(2, 1, FALSE)>>, <<T("q"), Desc, T("q")>> >>,
  firstof |-> << <<T("p"), First, Desc, T("q")>> >>,
  evens   |-> << <<T("p"), Even, Not("child")>>, <<T("q"), Desc, T("p")>> >>,
  both    |-> << <<Even>>, <<T("q"), First>> >>]

Selectors == INSTANCE Selectors WITH
  Node <- 1 .. 6, Trees <- Pages, Name <- <<"p", "q", "p", "q", "p", "q">>,
  Selectors <- Written, Asked <- DOMAIN Written \ {"oddp"}, Contexts <- {0, 2},
  MaxRuns <- 2, tree <- x1, st <- x2, answer <- x3, changed <- x4

-----------------------------------------------------------------------------
NoneFrom10 == x10 = 0 /\ x11 = 0 /\ x12 = 0 /\ x13 = 0 /\ x14 = 0 /\ x15 = 0
NoneFrom9 == x9 = 0 /\ NoneFrom10
NoneFrom8 == x8 = 0 /\ NoneFrom9
NoneFrom7 == x7 = 0 /\ NoneFrom8
NoneFrom6 == x6 = 0 /\ NoneFrom7
NoneFrom5 == x5 = 0 /\ NoneFrom6
NoneFrom1 == x1 = 0 /\ x2 = 0 /\ x3 = 0 /\ x4 = 0 /\ NoneFrom5

from10 == <<x10, x11, x12, x13, x14, x15>>
from9 == <<x9, from10>>
from8 == <<x8, from9>>
from7 == <<x7, from8>>
from6 == <<x6, from7>>
from5 == <<x5, from6>>
from1 == <<x1, x2, x3, x4, from5>>
all == <<used, dialogVars, from1>>

NoDialog ==
  fade = TRUE /\ option = "false" /\ modal = ClosedDialog /\ ops = 0 /\ hasty = FALSE

WidgetsInit ==
  \/ used = "Modal" /\ DialogInit /\ NoneFrom1
  \/ used = "Collapse" /\ NoDialog /\ Collapse!Init /\ NoneFrom5
  \/ used = "Tooltip" /\ NoDialog /\ Tooltip!Init /\ NoneFrom9
  \/ used = "TipPlace" /\ NoDialog /\ TipPlace!Init /\ NoneFrom9
  \/ used = "Carousel" /\ NoDialog /\ Carousel!Init /\ NoneFrom5
  \/ used = "Switches" /\ NoDialog /\ Switches!Init /\ NoneFrom8
  \/ used = "Scrolling" /\ NoDialog /\ Scrolling!Init /\ NoneFrom8
  \/ used = "Table" /\ NoDialog /\ Table!Init /\ NoneFrom9
  \/ used = "TableHead" /\ NoDialog /\ TableHead!Init /\ NoneFrom9
  \/ used = "FileInput" /\ NoDialog /\ FileInput!Init
  \/ used = "FilePreview" /\ NoDialog /\ FilePreview!Init /\ NoneFrom10
  \/ used = "FileZoom" /\ NoDialog /\ FileZoom!Init /\ NoneFrom10
  \/ used = "Elements" /\ NoDialog /\ Elements!Init /\ NoneFrom7
  \/ used = "Traversal" /\ NoDialog /\ Traversal!Init /\ NoneFrom5
  \/ used = "Selectors" /\ NoDialog /\ Selectors!Init /\ NoneFrom5

ModalStep == used = "Modal" /\ DialogNext /\ UNCHANGED <<used, from1>>
CollapseStep == used = "Collapse" /\ Collapse!Next /\ UNCHANGED <<used, dialogVars, from5>>
TooltipStep == used = "Tooltip" /\ Tooltip!Next /\ UNCHANGED <<used, dialogVars, from9>>
TipPlaceStep == used = "TipPlace" /\ TipPlace!Next /\ UNCHANGED <<used, dialogVars, from9>>
CarouselStep == used = "Carousel" /\ Carousel!Next /\ UNCHANGED <<used, dialogVars, from5>>
SwitchesStep == used = "Switches" /\ Switches!Next /\ UNCHANGED <<used, dialogVars, from8>>
ScrollingStep == used = "Scrolling" /\ Scrolling!Next /\ UNCHANGED <<used, dialogVars, from8>>
TableStep == used = "Table" /\ Table!Next /\ UNCHANGED <<used, dialogVars, from9>>
TableHeadStep == used = "TableHead" /\ TableHead!Next /\ UNCHANGED <<used, dialogVars, from9>>
FileInputStep == used = "FileInput" /\ FileInput!Next /\ UNCHANGED <<used, dialogVars>>
FilePreviewStep == used = "FilePreview" /\ FilePreview!Next /\ UNCHANGED <<used, dialogVars, from10>>
FileZoomStep == used = "FileZoom" /\ FileZoom!Next /\ UNCHANGED <<used, dialogVars, from10>>
ElementsStep == used = "Elements" /\ Elements!Next /\ UNCHANGED <<used, dialogVars, from7>>
TraversalStep == used = "Traversal" /\ Traversal!Next /\ UNCHANGED <<used, dialogVars, from5>>
SelectorsStep == used = "Selectors" /\ Selectors!Next /\ UNCHANGED <<used, dialogVars, from5>>

WidgetsNext ==
  \/ ModalStep
  \/ CollapseStep
  \/ TooltipStep
  \/ TipPlaceStep
  \/ CarouselStep
  \/ SwitchesStep
  \/ ScrollingStep
  \/ TableStep
  \/ TableHeadStep
  \/ FileInputStep
  \/ FilePreviewStep
  \/ FileZoomStep
  \/ ElementsStep
  \/ TraversalStep
  \/ SelectorsStep

WidgetsSpec == WidgetsInit /\ [][WidgetsNext]_all

-----------------------------------------------------------------------------
(* Of what is alternative one is shown: one panel of a group, one menu, one  *)
(* item of a carousel, the pane of the marked tab; whatever was asked for   *)
(* while a transition was under way.                                       *)
OneOfMany ==
  /\ used = "Collapse" => Collapse!OneOpen
  /\ used = "Carousel" => Carousel!OneItem
  /\ used = "Switches" => Switches!PaneOfTab /\ Switches!OneMenu

(* When timers and transitions are over, a tooltip is shown just if it is   *)
(* wanted; where it is put it lies in the viewport and points to its        *)
(* element; what follows the scrolling is where the scroll puts it; the     *)
(* buttons of the dialog that shows a file can be reached and tell its      *)
(* size; and buttons, loading states and alerts follow the clicks.         *)
FollowsUser ==
  /\ used = "Tooltip" => Tooltip!ShownIfWanted /\ Tooltip!DescribedByTip
  /\ used = "TipPlace" => TipPlace!WithinViewport /\ TipPlace!PointsAtElement
                          /\ TipPlace!AutoFindsRoom
  /\ used = "Scrolling" => Scrolling!SectionMarked /\ Scrolling!ItemsLead
                           /\ Scrolling!ElementPlaced
  /\ used = "FileZoom" => FileZoom!ScreenTold /\ FileZoom!ButtonsReached
  /\ used = "Switches" => Switches!ChangeHeard /\ Switches!LastState /\ Switches!ClosedOnce

(* The table shows the page of what is sought, loses no row, its boxes      *)
(* agree with its rows, and what it shows of a server is what it asked last *)
(* where the answers come in order.                                        *)
TableAgrees ==
  /\ used = "TableHead" => TableHead!HeaderCopied /\ TableHead!ColumnsTold /\ TableHead!BoxesAgree
  /\ used = "Table" =>
    /\ Table!PageOfFound /\ Table!NothingLost /\ Table!BoxesAgree
    /\ Table!AskedShown /\ Table!ColumnsTold

(* An upload takes and sends the file of the frame it is for, once; a batch  *)
(* that is over is reported once and unlocks the widget; and the frames     *)
(* of stored files know the place of theirs in the list of previews.       *)
OwnFiles ==
  /\ used = "FileInput" => FileInput!OwnFile /\ FileInput!TakenOnce /\ FileInput!BatchesEnd
  /\ used = "FilePreview" => FilePreview!FramesListed

(* A selector finds what it means in the page as it is, whatever earlier    *)
(* and nested runs have left on its elements; no run stays under way; and   *)
(* so it is with the ways from one collection of elements to the next.      *)
FindsMeant ==
  /\ used = "Selectors" => Selectors!FindsMeant /\ Selectors!RunsEnd
  /\ used = "Traversal" => Traversal!SetsMeant /\ Traversal!GoesBack /\ Traversal!IndexIsPlace

(* Elements keep what was bound to them wherever they are moved, copies get  *)
(* what they are to get, and scripts of the page run once.                 *)
ElementsKept ==
  used = "Elements" => Elements!DataKept /\ Elements!OnePlace /\ Elements!ScriptsRun
=============================================================================
