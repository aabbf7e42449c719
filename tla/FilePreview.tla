---------------------------- MODULE FilePreview -----------------------------
(***************************************************************************)
(* The previews of files that are on the server, in the upload widget       *)
(* (fileinput.js), with overwriteInitial off: frames one deletes, sorts and  *)
(* zooms, and to which uploads add.  The widget keeps them in two lists,    *)
(* initialPreview and previewCache, which may be one array or two, and in   *)
(* every frame the place of its preview in them.                            *)
(***************************************************************************)
EXTENDS Naturals, Sequences, SequencesExt, FiniteSets

CONSTANTS Starts,    \* what initialPreview may be, sequences of previews
          Batches,   \* results of an upload of several files: sequences of previews,
                     \* Null where the server has none for the file
          Singles,   \* previews the upload of one file returns
          Null,      \* null, and what lies beyond the end of an array
          None,      \* undefined
          MaxOps,    \* bound on what the user and the page do
          MaxAsked,  \* bound on the requests to delete under way
          MaxClicks  \* bound on the clicks that open the dialog, and on its buttons

VARIABLES
  arrays,   \* every array made, by its number
  initial,  \* initialPreview, the number of an array
  cache,    \* previewCache.data.content, a number, 0 if there is none
  saved,    \* cacheInitialPreview.content, a number, 0 if there is none
  frames,   \* every frame that is shown or has a request under way, in order
  batch,    \* what is left and what has come of the upload under way, None if none is
  zoom,     \* the dialog of the frame that is zoomed
  ops,
  plain     \* for the properties: see there

vars == <<arrays, initial, cache, saved, frames, batch, zoom, ops, plain>>

Frame(name, i, bound) ==
  [name |-> name, id |-> i, index |-> i, bound |-> bound,
   there |-> TRUE, asked |-> 0, fading |-> FALSE, empties |-> FALSE]

-----------------------------------------------------------------------------
(* The lists.                                                              *)

Clean(s) == SelectSeq(s, LAMBDA p : p # Null)
count == IF cache = 0 THEN 0 ELSE Len(Clean(arrays[cache]))
Content(all, a) == IF a = 0 THEN <<>> ELSE all[a]

(* out and get: a frame for every preview there is, named for its place.    *)
Rendered(content, bound) ==
  LET there == SelectSeq([i \in DOMAIN content |-> i], LAMBDA i : content[i] # Null)
  IN  [k \in DOMAIN there |-> Frame(content[there[k]], there[k], bound)]

Shown == {i \in DOMAIN frames : frames[i].there}

(* The frames that were shown are gone, but for the requests about them.    *)
Detached == SelectSeq([i \in DOMAIN frames |-> [frames[i] EXCEPT !.there = FALSE]],
                      LAMBDA f : f.asked > 0 \/ f.fading)

Redraw(content, bound) == frames' = Detached \o Rendered(content, bound)

(* spliceArray, and an assignment that may lie beyond the end.             *)
Spliced(s, i) == IF i \in DOMAIN s THEN SubSeq(s, 1, i - 1) \o SubSeq(s, i + 1, Len(s)) ELSE s
Assigned(s, i, p) ==
  [k \in 1 .. (IF i > Len(s) THEN i ELSE Len(s)) |->
     IF k = i THEN p ELSE IF k <= Len(s) THEN s[k] ELSE Null]

(* previewCache: one preview is added at the end; so are all that came of a  *)
(* batch; and one is taken out, the last one with the list, others so that  *)
(* their places stay.                                                      *)
Add(content, p) == Append(content, p)
Set(content, got) == content \o Clean(got)
Unset(content, place) ==
  CASE Len(Clean(content)) = 0 -> content
    [] Len(Clean(content)) = 1 -> <<>>
    [] OTHER -> Assigned(content, place, Null)

moveArray(s, from, to) == InsertAt(RemoveAt(s, from), to, s[from])

Same == Content(arrays, cache) = arrays[initial]
(* The keys the server gives are its own: none comes twice.                 *)
Fresh(p) == \A a \in DOMAIN arrays : p \notin ToSet(arrays[a])

Asking == \E i \in DOMAIN frames : frames[i].asked > 0 \/ frames[i].fading

-----------------------------------------------------------------------------
(* The dialog.  shows: transitions that end in `shown'; off and alone: which *)
(* of prev and next are disabled, and whether they are hidden; full: the     *)
(* class file-zoom-fullscreen, which stays when the dialog is closed;       *)
(* pressed: the buttons that are active; bar: the buttons have left the      *)
(* header for the bar that floats; slides: the queue of the header; on: the *)
(* browser's full screen, and asked: what it was asked for.                 *)
Dialog ==
  [open |-> FALSE, shows |-> 0, id |-> None, bound |-> FALSE, off |-> {}, alone |-> FALSE,
   full |-> FALSE, pressed |-> {}, header |-> TRUE, bar |-> FALSE, slides |-> <<>>,
   on |-> FALSE, asked |-> <<>>, clicks |-> 0]

(* _getModalContent: buttons that nobody has pressed, and no functions.     *)
ModalContent(z) ==
  [z EXCEPT !.bound = FALSE, !.off = {}, !.alone = FALSE, !.pressed = {}, !.header = TRUE,
            !.bar = FALSE, !.slides = <<>>]

(* _initZoomButtons, with the ids of the frames there are.                  *)
InitZoomButtons(z, ids) ==
  IF Len(ids) < 2 THEN [z EXCEPT !.alone = TRUE]
  ELSE [z EXCEPT !.alone = FALSE,
                 !.off = {dir \in {"prev", "next"} :
                            z.id = IF dir = "prev" THEN Head(ids) ELSE ids[Len(ids)]}]

SetZoomContent(z, id) == [z EXCEPT !.id = id, !.bound = TRUE]

(* toggleFullScreen: what is asked of the browser it does later.            *)
ToggleFullScreen(z, maximize) == [z EXCEPT !.asked = Append(@, maximize /\ ~ z.on)]

MaximizeZoomDialog(z) == [z EXCEPT !.full = TRUE]

ResizeZoomDialog(z, fullScreen) ==
  LET Small(out) == [out EXCEPT !.full = FALSE]
      Back(out) == CASE ~ fullScreen /\ "full" \notin z.pressed -> Small(out)
                     [] ~ fullScreen /\ "full" \in z.pressed -> [out EXCEPT !.pressed = @ \ {"full"}]
                     [] fullScreen /\ "full" \in z.pressed -> out
                     [] OTHER -> [ToggleFullScreen(Small(out), TRUE) EXCEPT !.pressed = @ \ {"bord"}]
  IN  IF z.full THEN Back(ToggleFullScreen(z, FALSE))
      ELSE IF fullScreen THEN ToggleFullScreen(z, TRUE) ELSE MaximizeZoomDialog(z)

(* _listenFullScreen, when the browser has changed.                        *)
(* Mutation: the other button stays active.                                *)
ListenFullScreenMut(z, isFullScreen) ==
  LET told == [z EXCEPT !.pressed = @ \cup {IF isFullScreen THEN "full" ELSE "bord"}]
  IN  IF z.full \/ isFullScreen THEN MaximizeZoomDialog(told)
      ELSE [told EXCEPT !.pressed = @ \ {"bord"}]

ListenFullScreen(z, isFullScreen) ==
  LET told == [z EXCEPT !.pressed = (@ \ {"full", "bord"})
                                    \cup {IF isFullScreen THEN "full" ELSE "bord"}]
  IN  IF z.full \/ isFullScreen THEN MaximizeZoomDialog(told)
      ELSE [told EXCEPT !.pressed = @ \ {"bord"}]

(* Once the dialog is shown.                                               *)
ShownZoom(z) ==
  LET said == IF z.full THEN {IF z.on THEN "full" ELSE "bord"} ELSE {}
  IN  [z EXCEPT !.pressed = (@ \ {"full", "bord"}) \cup said]

(* A click on a button that stays pressed: Bootstrap changes it after all.  *)
Press(z, button) ==
  [z EXCEPT !.pressed = IF button \in @ THEN @ \ {button} ELSE @ \cup {button}]

Init ==
  /\ \E start \in Starts :
       /\ arrays = <<start>>
       /\ frames = Rendered(start, TRUE)
  /\ initial = 1 /\ cache = 1 /\ saved = 0
  /\ batch = None /\ zoom = Dialog /\ ops = 0 /\ plain = TRUE

Op == ops < MaxOps /\ ops' = ops + 1

-----------------------------------------------------------------------------
(* _initPreviewActions: a click on the button of a frame asks the server to *)
(* delete its preview.                                                     *)
Delete(i) ==
  /\ Op /\ i \in Shown /\ frames[i].bound /\ ~ zoom.open
  /\ Cardinality({j \in DOMAIN frames : frames[j].asked > 0}) < MaxAsked
  /\ frames' = [frames EXCEPT ![i].asked = @ + 1]
  /\ plain' = (plain /\ frames[i].asked = 0 /\ ~ frames[i].fading /\ batch = None)
  /\ UNCHANGED <<arrays, initial, cache, saved, batch, zoom>>

(* Mutation: the place is the one the frame had when its button was bound.  *)
PlaceMut(f) == f.id

Place(f) == f.index

(* _deleteFileIndex: the frames that follow move up.                        *)
Deleted(i, place) ==
  [j \in DOMAIN frames |->
     LET f == frames[j]
         g == IF f.there /\ f.index > place THEN [f EXCEPT !.index = @ - 1] ELSE f
     IN  IF j = i THEN [g EXCEPT !.asked = @ - 1, !.fading = TRUE] ELSE g]

(* The server has deleted: the cache is taken from the list again, the     *)
(* place is emptied in both, and the list is made without it.              *)
DeleteDone(i) ==
  /\ frames[i].asked > 0
  /\ LET place == Place(frames[i])
         list == arrays[initial]
         left == Len(Clean(list))
         emptied == Unset(list, place)
         n == Len(arrays)
         all == [arrays EXCEPT ![initial] = IF left = 1 THEN @ ELSE emptied]
     IN  IF left = 1
         THEN /\ arrays' = all \o <<<<>>, <<>>>>
              /\ cache' = n + 1 /\ initial' = n + 2 /\ saved' = n + 2
              /\ frames' = [Deleted(i, place) EXCEPT ![i].empties = TRUE]
         ELSE /\ arrays' = Append(all, Spliced(emptied, place))
              /\ cache' = initial /\ initial' = n + 1 /\ saved' = n + 1
              /\ frames' = [Deleted(i, place) EXCEPT ![i].empties = Clean(emptied) = <<>>]
  /\ UNCHANGED <<batch, zoom, ops, plain>>

(* Without any frame or preview the widget is reset.                       *)
DeleteFails(i) ==
  /\ frames[i].asked > 0
  /\ IF Shown = {} /\ count = 0 THEN Redraw(<<>>, FALSE) /\ zoom' = ModalContent(zoom)
     ELSE frames' = [frames EXCEPT ![i].asked = @ - 1] /\ UNCHANGED zoom
  /\ UNCHANGED <<arrays, initial, cache, saved, batch, ops, plain>>

(* The frame has faded and is removed.                                     *)
FrameGone(i) ==
  /\ frames[i].fading
  /\ LET without == [frames EXCEPT ![i].there = FALSE, ![i].fading = FALSE]
         kept == SelectSeq(without, LAMBDA f : f.there \/ f.asked > 0 \/ f.fading)
     IN  IF frames[i].empties \/ (Shown = {i} /\ count = 0)
         THEN /\ Redraw(Content(arrays, cache), FALSE)
              /\ plain' = (plain /\ count = 0)
              /\ zoom' = ModalContent(zoom)
         ELSE frames' = kept /\ UNCHANGED <<plain, zoom>>
  /\ UNCHANGED <<arrays, initial, cache, saved, batch, ops>>

-----------------------------------------------------------------------------
(* A frame is dragged elsewhere, while the frames are those of the list:     *)
(* onSort, where frames find their places by their keys.                   *)
Sort(from, to) ==
  /\ Op /\ from # to /\ batch = None /\ ~ zoom.open
  /\ Shown = DOMAIN frames /\ {from, to} \subseteq Shown
  /\ Len(frames) = Len(arrays[initial])
  /\ LET list == moveArray(arrays[initial], from, to)
         dragged == moveArray(frames, from, to)
     IN  /\ arrays' = [arrays EXCEPT ![initial] = list]
         /\ cache' = initial
         /\ frames' = [j \in DOMAIN dragged |->
                         LET places == {k \in DOMAIN list : list[k] = dragged[j].name}
                         IN  IF places = {} THEN dragged[j]
                             ELSE [dragged[j] EXCEPT !.index = CHOOSE k \in places : TRUE]]
  /\ UNCHANGED <<initial, saved, batch, zoom, plain>>

-----------------------------------------------------------------------------
(* _initUploadSuccess for one file: it is added to the end of both, and     *)
(* gets a frame in place of its own; without a cache that fails.           *)
UploadOne(p) ==
  /\ Op /\ batch = None /\ Fresh(p)
  /\ LET n == Len(arrays)
         merged == Append(Clean(arrays[initial]), p)
     IN  /\ initial' = n + 1
         /\ IF cache = 0 THEN arrays' = Append(arrays, merged) /\ UNCHANGED frames
            ELSE LET added == Add(arrays[cache], p)
                 IN  /\ arrays' = Append([arrays EXCEPT ![cache] = added], merged)
                     /\ frames' = Append(frames, Frame(p, Len(added), TRUE))
  /\ plain' = (plain /\ cache # 0 /\ Same)
  /\ UNCHANGED <<cache, saved, batch, zoom>>

(* upload, for several files: the list is put aside.                       *)
StartBatch(b) ==
  /\ Op /\ batch = None /\ \A p \in ToSet(Clean(b)) : Fresh(p)
  /\ batch' = [todo |-> b, got |-> [i \in DOMAIN b |-> Null]]
  /\ saved' = initial
  /\ plain' = (plain /\ Same /\ ~ Asking)
  /\ UNCHANGED <<arrays, initial, cache, frames, zoom>>

(* The answer for one of them, in any order.                               *)
OneOfBatch(i) ==
  /\ batch # None /\ batch.todo[i] # Null
  /\ arrays' = Append(arrays, Append(Clean(arrays[initial]), batch.todo[i]))
  /\ initial' = Len(arrays) + 1
  /\ batch' = [todo |-> [batch.todo EXCEPT ![i] = Null],
               got |-> [batch.got EXCEPT ![i] = batch.todo[i]]]
  /\ UNCHANGED <<cache, saved, frames, zoom, ops, plain>>

(* chkComplete: what has come goes to the end of the cache, and into the    *)
(* list that was put aside, which becomes the list; all is drawn again.    *)
BatchDone ==
  /\ batch # None /\ Clean(batch.todo) = <<>>
  /\ LET got == batch.got
         old == Content(arrays, saved)
         m == IF cache = 0 /\ Clean(got) # <<>> THEN Len(arrays) + 1 ELSE cache
         grown == IF m > Len(arrays) THEN Append(arrays, Set(<<>>, got))
                  ELSE IF m = 0 THEN arrays ELSE [arrays EXCEPT ![m] = Set(@, got)]
         Over(s) == [k \in 1 .. (IF Len(old) + Len(got) > Len(s) THEN Len(old) + Len(got)
                                 ELSE Len(s)) |->
                       IF k - Len(old) \in DOMAIN got THEN got[k - Len(old)] ELSE s[k]]
         all == IF old = <<>> THEN grown ELSE [grown EXCEPT ![saved] = Over(@)]
     IN  /\ arrays' = Append(all, IF old = <<>> THEN got ELSE Clean(all[saved]))
         /\ initial' = Len(all) + 1
         /\ cache' = m
         /\ IF Clean(got) = <<>> THEN UNCHANGED frames
            ELSE Redraw(Content(all, m), TRUE)
  /\ saved' = 0 /\ batch' = None
  /\ plain' = (plain /\ Clean(batch.got) = batch.got /\ ~ Asking)
  /\ UNCHANGED <<zoom, ops>>

-----------------------------------------------------------------------------
(* reset, which binds no function to the buttons, and clear; the content of *)
(* the dialog is made anew.                                                *)
Reset ==
  /\ Op /\ batch = None
  /\ Redraw(Content(arrays, cache), FALSE) /\ zoom' = ModalContent(zoom)
  /\ plain' = (plain /\ Same /\ ~ Asking)
  /\ UNCHANGED <<arrays, initial, cache, saved, batch>>

Clear ==
  /\ Op /\ batch = None
  /\ IF count > 0
     THEN Redraw(Content(arrays, cache), TRUE) /\ zoom' = ModalContent(zoom) /\ UNCHANGED cache
     ELSE Redraw(<<>>, FALSE) /\ cache' = 0 /\ UNCHANGED zoom
  /\ saved' = 0
  /\ plain' = (plain /\ Same /\ ~ Asking)
  /\ UNCHANGED <<arrays, initial, batch>>

-----------------------------------------------------------------------------
(* _zoomPreview, _zoomSlideShow; the next frame is looked for from the one   *)
(* whose id was zoomed, by a click or a key.                               *)
Others == <<arrays, initial, cache, saved, frames, batch, ops, plain>>

Clicked(z) == zoom.clicks < MaxClicks /\ zoom' = [z EXCEPT !.clicks = @ + 1]

Order == SelectSeq([i \in DOMAIN frames |-> i], LAMBDA i : i \in Shown)
Ids == [k \in DOMAIN Order |-> frames[Order[k]].id]

Zoom(i) ==
  /\ i \in Shown /\ ~ zoom.open
  /\ Clicked(InitZoomButtons([SetZoomContent(ModalContent(zoom), frames[i].id)
                                EXCEPT !.open = TRUE, !.shows = @ + 1], Ids))
  /\ UNCHANGED Others

Slide(step) ==
  /\ zoom.open /\ zoom.bound /\ step \notin zoom.off
  /\ LET at == {k \in DOMAIN Ids : Ids[k] = zoom.id}
         first == CHOOSE k \in at : \A l \in at : k <= l
         next == IF step = "next" THEN first + 1 ELSE first - 1
     IN  Clicked(IF at # {} /\ next \in DOMAIN Ids
                 THEN InitZoomButtons(SetZoomContent(zoom, Ids[next]), Ids) ELSE zoom)
  /\ UNCHANGED Others

ZoomShown ==
  /\ zoom.shows > 0 /\ zoom' = ShownZoom([zoom EXCEPT !.shows = @ - 1])
  /\ UNCHANGED Others

CloseZoom ==
  /\ zoom.open /\ zoom' = [zoom EXCEPT !.open = FALSE]
  /\ UNCHANGED Others

(* The buttons for the full screen and for the dialog as large as the window, *)
(* and Escape.                                                             *)
ClickSize(button) ==
  /\ zoom.open
  /\ Clicked(Press(IF zoom.bound THEN ResizeZoomDialog(zoom, button = "full") ELSE zoom, button))
  /\ UNCHANGED Others

FullScreenChange ==
  /\ zoom.asked # <<>>
  /\ LET answered == [zoom EXCEPT !.asked = Tail(@), !.on = Head(zoom.asked)]
     IN  zoom' = IF answered.on = zoom.on THEN answered ELSE ListenFullScreen(answered, answered.on)
  /\ UNCHANGED Others

Escape ==
  /\ zoom.on /\ zoom' = ListenFullScreen([zoom EXCEPT !.on = FALSE], FALSE)
  /\ UNCHANGED Others

(* The button that hides the header; the header slides, one way after the   *)
(* other, and then its buttons are where they can be seen.                 *)
ClickHeader ==
  /\ zoom.open /\ zoom.bound
  /\ Clicked(Press(IF zoom.header THEN [zoom EXCEPT !.slides = Append(@, "up")]
                   ELSE [zoom EXCEPT !.slides = Append(@, "down"), !.bar = FALSE,
                                     !.header = zoom.slides = <<>>], "header"))
  /\ UNCHANGED Others

HeaderSlid ==
  /\ zoom.slides # <<>>
  /\ LET up == Head(zoom.slides) = "up"
         left == Tail(zoom.slides)
     IN  zoom' = [zoom EXCEPT !.slides = left, !.bar = up \/ @,
                              !.header = ~ up \/ (left # <<>> /\ Head(left) = "down")]
  /\ UNCHANGED Others

Next ==
  \/ \E i \in DOMAIN frames : Delete(i) \/ DeleteDone(i) \/ DeleteFails(i) \/ FrameGone(i) \/ Zoom(i)
  \/ \E i, j \in DOMAIN frames : Sort(i, j)
  \/ (\E p \in Singles : UploadOne(p)) \/ (\E b \in Batches : StartBatch(b))
  \/ (batch # None /\ \E i \in DOMAIN batch.todo : OneOfBatch(i)) \/ BatchDone
  \/ Reset \/ Clear \/ Slide("next") \/ Slide("prev") \/ ZoomShown \/ CloseZoom
  \/ (\E button \in {"full", "bord"} : ClickSize(button)) \/ FullScreenChange \/ Escape
  \/ ClickHeader \/ HeaderSlid

Spec == Init /\ [][Next]_vars

-----------------------------------------------------------------------------
(* Every frame that is not on its way out knows the place of its preview in *)
(* the list, and every preview of the list has its frame, though requests   *)
(* to delete are answered in any order, frames are sorted meanwhile and      *)
(* uploads add to them.  Not so, and not looked at: once a frame was        *)
(* deleted twice, a batch met a deletion or left out a file, or frames were *)
(* drawn or added from the cache while it was not the list.                *)
FramesListed ==
  plain /\ batch = None =>
    LET live == {i \in Shown : ~ frames[i].fading}
        list == arrays[initial]
    IN  /\ \A i \in live : frames[i].index \in DOMAIN list /\ list[frames[i].index] = frames[i].name
        /\ Cardinality(live) = Len(list)

(* However the buttons of the dialog, Escape and the browser's late answers  *)
(* follow each other, over dialogs that are closed and opened: what is       *)
(* pressed says how large the dialog is.  Not so once the widget was reset   *)
(* below the dialog, which takes the functions from the buttons.           *)
ScreenTold ==
  zoom.open /\ zoom.bound /\ zoom.shows = 0 /\ zoom.asked = <<>> =>
    /\ ("full" \in zoom.pressed) = zoom.on
    /\ ("bord" \in zoom.pressed) = (zoom.full /\ ~ zoom.on)
    /\ zoom.on => zoom.full

(* When no slide of the header is left, its buttons can be reached.         *)
ButtonsReached == zoom.slides = <<>> => zoom.header \/ zoom.bar
=============================================================================
