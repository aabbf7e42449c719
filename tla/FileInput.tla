------------------------------ MODULE FileInput ------------------------------
(***************************************************************************)
(* The upload widget of the pages that load a data set (fileinput.js of    *)
(* bootstrap-fileinput, used by DiscoverRules.jsp and loadFile.jsp).  Files *)
(* are picked, read one after the other, shown as frames, and sent each by *)
(* a request of its own, or all by one (uploadAsync is off).  A file is     *)
(* known by its index in `filestack', and that index is kept at four places *)
(* that move at different times: the stack, the attribute of the frame, the *)
(* click handler of its remove button, and the callbacks of the request     *)
(* that sends it.                                                          *)
(*                                                                         *)
(* Events of the element are not vetoed and no upload carries extra data:  *)
(* the pages have neither.  What the server answers with is only whether it *)
(* took the file: previews it may send back are in InitialPreview.         *)
(***************************************************************************)
EXTENDS Integers, Sequences, SequencesExt, FiniteSets

CONSTANTS Picks,      \* the selections a user may make: sequences of files
          Bad,        \* files the widget refuses: too large, or of another extension
          Multiple,   \* whether the input takes several files, a set of BOOLEANs
          Async,      \* whether each file has a request of its own, a set of BOOLEANs
          Patient,    \* whether the user waits for the widget, a set of BOOLEANs
          None,       \* undefined
          MaxPicks,   \* bound on the selections
          MaxUploads, \* bound on the uploads, of all the files or of one
          MaxRemoves  \* bound on the clicks on a button that takes away

VARIABLES
  multiple, patient,
  w,        \* the widget: its stack, frames, lock and log
  reading,  \* the readers of files that are at work
  timers,   \* what waits for its 100 ms, in order: all delays are the same
  fading,   \* frames that fade out, with what their handler remembers
  requests, \* uploads the server has not answered
  sync,     \* the one upload of all the files it has not answered, None if there is none
  picks, uploads, removes,
  batches,   \* how many of the uploads were of all the files
  completed, \* how often `filebatchuploadcomplete' was raised
  accepted,  \* for the properties: what the server took
  astray     \* for the properties: one request met frames that are not of the files sent

vars == <<multiple, patient, w, reading, timers, fading, requests, sync, picks, uploads, removes,
          batches, completed, accepted, astray>>

Fixed == <<multiple, patient, sync, astray>>

(* _init: the constructor of the widget.                                   *)
Init ==
  /\ multiple \in Multiple /\ patient \in Patient
  /\ \E async \in Async :
       w = [async |-> async, stack |-> <<>>, frames |-> <<>>, locked |-> FALSE, off |-> FALSE,
            log |-> {}, asyncCount |-> 0, batchCompleted |-> FALSE]
  /\ reading = {} /\ timers = <<>> /\ fading = {} /\ requests = {}
  /\ picks = 0 /\ uploads = 0 /\ removes = 0 /\ batches = 0 /\ completed = 0
  /\ accepted = {} /\ sync = None /\ astray = FALSE

-----------------------------------------------------------------------------
(* The stack: an array counted from 0, with undefined where a file is gone. *)
At(s, i) == IF i \in 0 .. Len(s.stack) - 1 THEN s.stack[i + 1] ELSE None

updateStack(s, i, f) ==
  [s EXCEPT !.stack =
     IF i < 0 THEN @
     ELSE [k \in 1 .. (IF i < Len(@) THEN Len(@) ELSE i + 1) |->
             IF k = i + 1 THEN f ELSE IF k <= Len(@) THEN @[k] ELSE None]]

addToStack(s, f) == [s EXCEPT !.stack = Append(@, f)]

clearStack(s) == [s EXCEPT !.stack = <<>>]

getFileStack(s) == SelectSeq(s.stack, LAMBDA f : f # None)

(* _resetFileStack: the files of the frames close up, the others' frames    *)
(* lose their index.                                                       *)
Kept(s, k) == At(s, s.frames[k].index) # None

ResetFileStack(s) ==
  LET kept == SelectSeq(s.frames, LAMBDA f : At(s, f.index) # None)
  IN  [s EXCEPT
        !.stack = [k \in 1 .. Len(kept) |-> At(s, kept[k].index)],
        !.frames = [k \in 1 .. Len(@) |->
           [@[k] EXCEPT !.index = IF Kept(s, k) THEN Cardinality({j \in 1 .. k - 1 : Kept(s, j)})
                                  ELSE -1]]]

(* Every frame with the key k, as f makes it.                              *)
Frame(s, key, F(_)) ==
  [s EXCEPT !.frames = [k \in 1 .. Len(@) |-> IF @[k].key = key THEN F(@[k]) ELSE @[k]]]

Buttons(s, off) ==
  [s EXCEPT !.frames = [k \in 1 .. Len(@) |-> [@[k] EXCEPT !.off = off]], !.off = off]

lock(s) == [Buttons(s, TRUE) EXCEPT !.locked = TRUE]

unlock(s, reset) ==
  LET open == [Buttons(s, FALSE) EXCEPT !.locked = FALSE]
  IN  IF reset THEN ResetFileStack(open) ELSE open

reset(s) == clearStack([s EXCEPT !.frames = <<>>])

ResetUpload(s) == [s EXCEPT !.log = {}, !.asyncCount = 0, !.off = FALSE]

(* _initFileActions: every remove button learns the index its frame has.    *)
InitFileActions(s) ==
  [s EXCEPT !.frames = [k \in 1 .. Len(@) |-> [@[k] EXCEPT !.remembers = s.frames[k].index]]]

NewFrame(file, index, status) ==
  [key |-> file, index |-> index, status |-> status, off |-> FALSE, remembers |-> index]

-----------------------------------------------------------------------------
(* readFile: file i of a selection goes on the stack and to a reader; one   *)
(* that is refused leaves a hole and a frame with an error.  Index and id   *)
(* of the frame count from the length the stack had at the start.          *)
(* Mutation: the index counts from the selection, not from the stack.       *)
NodeMut(c) == c.i

Node(c) == c.ctr + c.i

NextOf(c) == [what |-> "read", chain |-> [c EXCEPT !.i = @ + 1]]

ReadFile(s, c, later) ==
  LET file == [name |-> c.files[c.i + 1], pick |-> c.pick]
  IN  IF c.i >= (IF multiple THEN Len(c.files) ELSE 1)
      THEN /\ w' = s /\ timers' = later /\ UNCHANGED reading
      ELSE IF file.name \in Bad
      THEN /\ w' = InitFileActions(addToStack(
                     [s EXCEPT !.frames = Append(@, NewFrame(file, Node(c), "error"))], None))
           /\ timers' = Append(later, NextOf(c))
           /\ UNCHANGED reading
      ELSE /\ w' = addToStack(s, file)
           /\ reading' = reading \cup {c}
           /\ timers' = later

(* A patient user lets the readers and the timers come to an end first;     *)
(* nothing in the code asks for it.                                        *)
Waits == patient => reading = {} /\ timers = <<>>

(* _change: the user picks files.  Those that are on the stack already are  *)
(* left out; an input for one file, and an empty stack, begin afresh.      *)
Change(files) ==
  LET new == SelectSeq(files, LAMBDA f : \A k \in DOMAIN w.stack :
                                            w.stack[k] # None => w.stack[k].name # f)
      afresh == w.stack = <<>> \/ ~multiple
      s == IF afresh THEN clearStack([w EXCEPT !.frames = <<>>]) ELSE w
  IN  /\ Waits /\ (patient => fading = {}) /\ ~w.locked /\ picks < MaxPicks
      /\ picks' = picks + 1
      /\ requests' = {[r EXCEPT !.listed = FALSE] : r \in requests}
      /\ IF new = <<>>
         THEN /\ w' = ResetUpload(w) /\ UNCHANGED <<reading, timers>>
         ELSE ReadFile(ResetUpload(s),
                       [files |-> new, ctr |-> Len(s.stack), i |-> 0, pick |-> picks + 1], timers)
      /\ UNCHANGED <<fading, uploads, removes, completed, batches, accepted, Fixed>>

(* reader.onload and reader.onloadend: the frame appears; the next file is  *)
(* read in a while.                                                        *)
Loaded(c) ==
  /\ c \in reading
  /\ reading' = reading \ {c}
  /\ w' = InitFileActions(
            [w EXCEPT !.frames = Append(@, NewFrame([name |-> c.files[c.i + 1], pick |-> c.pick],
                                                    Node(c), "new"))])
  /\ timers' = Append(timers, NextOf(c))
  /\ UNCHANGED <<fading, requests, picks, uploads, removes, completed, batches, accepted, Fixed>>

(* reader.onerror and reader.onloadend: no frame, and no upload button.     *)
Unreadable(c) ==
  /\ c \in reading
  /\ reading' = reading \ {c}
  /\ w' = [w EXCEPT !.off = TRUE]
  /\ timers' = Append(timers, NextOf(c))
  /\ UNCHANGED <<fading, requests, picks, uploads, removes, completed, batches, accepted, Fixed>>

-----------------------------------------------------------------------------
(* _uploadSingle with its fnBefore: the request that sends file i.  The     *)
(* frame is the first one with the id made of i.                           *)
FrameOf(s, i) ==
  LET own == {k \in DOMAIN s.frames : i >= 0 /\ s.frames[k].index = i}
  IN  IF own = {} THEN None ELSE s.frames[CHOOSE k \in own : \A j \in own : k <= j].key

Request(s, i, all) ==
  [i |-> i, file |-> At(s, i), frame |-> FrameOf(s, i), all |-> all, listed |-> TRUE]

Loading(s, rs) ==
  [s EXCEPT !.batchCompleted = FALSE,
            !.frames = [k \in 1 .. Len(@) |->
               IF \E r \in rs : r.frame = @[k].key
               THEN [@[k] EXCEPT !.off = TRUE, !.status = IF @ = "success" THEN @ ELSE "loading"]
               ELSE @[k]]]

(* _uploadClick and upload: all the files of the stack, each on its own.    *)
Files(s) == {i \in 0 .. Len(s.stack) - 1 : At(s, i) # None}

Upload ==
  LET s == ResetUpload(w)
      sent == Files(w)
      new == {Request(s, i, TRUE) : i \in sent}
  IN  /\ Waits /\ w.async /\ ~w.locked /\ ~w.off /\ uploads < MaxUploads
      /\ IF sent = {}
         THEN /\ w' = s /\ UNCHANGED <<uploads, batches>>
              /\ requests' = {[r EXCEPT !.listed = FALSE] : r \in requests}
         ELSE /\ w' = Loading([lock(s) EXCEPT !.asyncCount = Cardinality(sent)], new)
              /\ uploads' = uploads + 1 /\ batches' = batches + 1
              /\ requests' = {[r EXCEPT !.listed = FALSE] : r \in requests} \cup new
      /\ UNCHANGED <<reading, timers, fading, picks, removes, completed, accepted, Fixed>>

(* The upload button of a frame: this file alone.                          *)
UploadOne(k) ==
  LET f == w.frames[k]
      r == Request(w, f.index, FALSE)
  IN  /\ Waits /\ ~f.off /\ f.status \in {"new", "loading"}
      /\ getFileStack(w) # <<>> /\ uploads < MaxUploads
      /\ uploads' = uploads + 1
      /\ w' = Loading(lock(w), {r})
      /\ requests' = requests \cup {r}
      /\ UNCHANGED <<reading, timers, fading, picks, removes, completed, batches, accepted, Fixed>>

(* _uploadBatch: all of them by one request; every button is disabled.      *)
UploadBatch ==
  LET s == ResetUpload(w)
      Busy(f) == [f EXCEPT !.off = TRUE, !.status = IF @ = "success" THEN @ ELSE "loading"]
  IN  /\ Waits /\ ~w.async /\ ~w.locked /\ ~w.off /\ uploads < MaxUploads
      /\ IF Files(w) = {}
         THEN w' = s /\ UNCHANGED <<uploads, batches, sync>>
         ELSE /\ w' = [lock(s) EXCEPT !.frames = [k \in 1 .. Len(@) |-> Busy(@[k])]]
              /\ uploads' = uploads + 1 /\ batches' = batches + 1
              /\ sync' = getFileStack(w)
      /\ requests' = {[r EXCEPT !.listed = FALSE] : r \in requests}
      /\ astray' = (astray \/ \E k \in DOMAIN w.frames :
                      w.frames[k].status # "success" /\ At(w, w.frames[k].index) = None)
      /\ UNCHANGED <<reading, timers, fading, picks, removes, completed, accepted, multiple,
                     patient>>

(* fnSuccess, fnError and fnComplete: what they do waits 100 ms.  The id    *)
(* that a success is logged under is the one the frame has by now.          *)
Index(s, key) ==
  LET own == {k \in DOMAIN s.frames : s.frames[k].key = key}
  IN  IF own = {} THEN None ELSE s.frames[CHOOSE k \in own : TRUE].index

Later(r, outcome) ==
  <<[what |-> "answer", outcome |-> outcome, r |-> r,
     id |-> IF outcome = "failed" \/ Index(w, r.frame) = None THEN r.i ELSE Index(w, r.frame)],
    [what |-> "complete", r |-> r]>>

Answer(r, outcome) ==
  /\ r \in requests
  /\ requests' = requests \ {r}
  /\ timers' = timers \o Later(r, outcome)
  /\ accepted' = IF outcome = "taken" THEN accepted \cup {r.file} ELSE accepted
  /\ UNCHANGED <<w, reading, fading, picks, uploads, removes, completed, batches, Fixed>>

(* _checkAsyncComplete: every file still on the stack is answered, and so   *)
(* are as many as there were.                                              *)
(* Mutation: the answers are not counted.                                  *)
CheckAsyncCompleteMut(s) ==
  \A i \in 0 .. Len(s.stack) - 1 : At(s, i) # None => \E l \in s.log : l.id = i

CheckAsyncComplete(s) ==
  /\ \A i \in 0 .. Len(s.stack) - 1 : At(s, i) # None => \E l \in s.log : l.id = i
  /\ s.asyncCount = Cardinality(s.log)

(* updateUploadLog: the file leaves the stack, its id enters the log.       *)
(* Mutation: it stays on the stack.                                        *)
UpdateUploadLogMut(s, t) ==
  LET logged == [s EXCEPT !.log = @ \cup {[id |-> t.id, file |-> t.r.file]}]
  IN  IF CheckAsyncComplete(logged) THEN [logged EXCEPT !.batchCompleted = TRUE] ELSE logged

UpdateUploadLog(s, t) ==
  LET logged == [updateStack(s, t.r.i, None) EXCEPT !.log = @ \cup {[id |-> t.id, file |-> t.r.file]}]
  IN  IF CheckAsyncComplete(logged) THEN [logged EXCEPT !.batchCompleted = TRUE] ELSE logged

(* _setPreviewError: the frame shows the error, the file leaves the stack.  *)
SetPreviewError(s, r) ==
  Frame(updateStack(s, r.i, None), r.frame, LAMBDA f : [f EXCEPT !.status = "error", !.off = TRUE])

Answered(t) ==
  IF t.outcome = "taken"
  THEN LET shown == Frame(w, t.r.frame, LAMBDA f : [f EXCEPT !.status = "success"])
       IN  IF t.r.all THEN UpdateUploadLog(shown, t) ELSE updateStack(shown, t.r.i, None)
  ELSE LET shown == SetPreviewError(w, t.r)
       IN  IF t.r.all THEN UpdateUploadLog(shown, t) ELSE shown

(* _initSuccessThumbs: the remove button of a file the server took only     *)
(* takes the frame away.                                                   *)
InitSuccessThumbs(s) ==
  [s EXCEPT !.frames = [k \in 1 .. Len(@) |->
     IF @[k].status = "success" THEN [@[k] EXCEPT !.off = FALSE, !.remembers = None] ELSE @[k]]]

Completed(t) ==
  LET free == Frame(w, t.r.frame, LAMBDA f : [f EXCEPT !.off = FALSE])
  IN  InitSuccessThumbs(IF t.r.all THEN free ELSE unlock(free, FALSE))

(* fnSuccess, fnError and fnComplete of _uploadBatch, which wait for         *)
(* nothing.  A server that refuses may name the files it means by their      *)
(* places among those sent; the widget counts the frames without an error.  *)
Place(s, k) == Cardinality({j \in 1 .. k - 1 : s.frames[j].status # "error"})

AllUploaded(s) ==
  [s EXCEPT !.stack = [i \in 1 .. Len(@) |-> None],
            !.frames = [k \in 1 .. Len(@) |->
               IF @[k].status = "error" THEN @[k] ELSE [@[k] EXCEPT !.status = "success"]]]

SomeRefused(s, keys) ==
  LET counted == {k \in DOMAIN s.frames : s.frames[k].status # "error"}
      wrong == {k \in counted : keys = {} \/ Place(s, k) \in keys}
      fine == SetToSortSeq({Place(s, k) : k \in counted \ wrong}, <)
      marked == [s EXCEPT !.frames = [k \in 1 .. Len(@) |->
                   [@[k] EXCEPT !.status = IF k \in wrong THEN "error"
                                           ELSE IF k \in counted THEN "success" ELSE @]]]
  IN  FoldLeft(LAMBDA t, key : updateStack(t, key, None), marked, fine)

AllFailed(s) ==
  [s EXCEPT !.frames = [k \in 1 .. Len(@) |->
     IF At(s, @[k].index) = None THEN @[k] ELSE [@[k] EXCEPT !.status = "error"]]]

BatchCompleted(s) == InitSuccessThumbs(unlock(s, TRUE))

(* The frames without an error are the files that were sent, in their order. *)
Straight ==
  LET counted == SelectSeq(w.frames, LAMBDA f : f.status # "error")
  IN  Len(counted) = Len(w.stack) /\ \A k \in DOMAIN counted :
        counted[k].index = k - 1 /\ w.stack[k] # None

AnswerBatch(outcome, keys) ==
  /\ sync # None /\ sync' = None
  /\ keys # {} => outcome = "refused" /\ keys \subseteq 0 .. Len(sync) - 1
  /\ w' = BatchCompleted(CASE outcome = "taken" -> AllUploaded(w)
                           [] outcome = "refused" -> SomeRefused(w, keys)
                           [] outcome = "failed" -> AllFailed(w))
  /\ accepted' = IF outcome = "failed" \/ (outcome = "refused" /\ keys = {}) THEN accepted
                 ELSE accepted \cup {sync[k] : k \in {j \in DOMAIN sync : j - 1 \notin keys}}
  /\ astray' = (astray \/ (keys # {} /\ ~ Straight))
  /\ completed' = completed + 1
  /\ UNCHANGED <<reading, timers, fading, requests, picks, uploads, removes, batches, multiple,
                 patient>>

-----------------------------------------------------------------------------
(* The next timer runs: the chain that reads, the callbacks of an answer, or *)
(* the end of a batch (chkComplete).                                       *)
Next100(what) == timers # <<>> /\ Head(timers).what = what

ReadNext ==
  /\ Next100("read")
  /\ ReadFile(w, Head(timers).chain, Tail(timers))
  /\ UNCHANGED <<fading, requests, picks, uploads, removes, completed, batches, accepted, Fixed>>

ShowAnswer ==
  /\ Next100("answer")
  /\ w' = Answered(Head(timers))
  /\ timers' = Tail(timers)
  /\ UNCHANGED <<reading, fading, requests, picks, uploads, removes, completed, batches, accepted, Fixed>>

ShowComplete ==
  /\ Next100("complete")
  /\ w' = Completed(Head(timers))
  /\ timers' = Tail(timers) \o
       IF Head(timers).r.all /\ w.batchCompleted THEN <<[what |-> "finish"]>> ELSE <<>>
  /\ UNCHANGED <<reading, fading, requests, picks, uploads, removes, completed, batches, accepted, Fixed>>

Finish ==
  /\ Next100("finish")
  /\ w' = [unlock(w, TRUE) EXCEPT !.log = {}]
  /\ timers' = Tail(timers)
  /\ completed' = completed + 1
  /\ UNCHANGED <<reading, fading, requests, picks, uploads, removes, batches, accepted, Fixed>>

-----------------------------------------------------------------------------
(* cancel: the requests end with an error; the widget opens at once.  The   *)
(* callbacks still know their files by the old indices, so a patient user   *)
(* cancels only while closing up moves no file.                            *)
Stays == \A k \in DOMAIN w.frames :
           Kept(w, k) => ResetFileStack(w).frames[k].index = w.frames[k].index

Cancel ==
  LET ended == SetToSortSeq({r \in requests : r.listed}, LAMBDA a, b : a.i < b.i)
  IN  /\ w.locked /\ sync = None /\ (patient => Stays)
      /\ requests' = {r \in requests : ~r.listed}
      /\ timers' = timers \o FlattenSeq([k \in 1 .. Len(ended) |-> Later(ended[k], "failed")])
      /\ w' = IF w.frames = <<>> THEN w ELSE unlock(w, TRUE)
      /\ UNCHANGED <<reading, fading, picks, uploads, removes, completed, batches, accepted, Fixed>>

CancelBatch == w.locked /\ sync # None /\ AnswerBatch("failed", {})

(* clear: the remove button of the widget.                                 *)
Clear ==
  /\ Waits /\ ~w.locked /\ removes < MaxRemoves
  /\ removes' = removes + 1
  /\ w' = ResetUpload(reset(w))
  /\ requests' = {[r EXCEPT !.listed = FALSE] : r \in requests}
  /\ UNCHANGED <<reading, timers, fading, picks, uploads, completed, batches, accepted, Fixed>>

(* The remove button of a frame: the frame fades out, and then the file at  *)
(* the index the button remembers leaves the stack.                        *)
RemoveFrame(k) ==
  LET f == w.frames[k]
  IN  /\ Waits /\ ~f.off /\ removes < MaxRemoves /\ \A x \in fading : x.key # f.key
      /\ removes' = removes + 1
      /\ fading' = fading \cup {[key |-> f.key, index |-> f.remembers]}
      /\ UNCHANGED <<w, reading, timers, requests, picks, uploads, completed, batches, accepted, Fixed>>

FrameGone(x) ==
  LET out == IF x.index = None THEN w ELSE updateStack(w, x.index, None)
      s == [out EXCEPT !.frames = SelectSeq(@, LAMBDA f : f.key # x.key)]
      gone == s.frames = <<>> /\ (x.index = None \/ getFileStack(s) = <<>>)
  IN  /\ fading' = fading \ {x}
      /\ w' = IF gone THEN reset(s) ELSE s
      /\ UNCHANGED <<reading, timers, requests, picks, uploads, removes, completed, batches, accepted, Fixed>>

Next ==
  \/ \E files \in Picks : Change(files)
  \/ \E c \in reading : Loaded(c) \/ Unreadable(c)
  \/ Upload \/ UploadBatch \/ CancelBatch \/ \E k \in DOMAIN w.frames : UploadOne(k) \/ RemoveFrame(k)
  \/ \E r \in requests, outcome \in {"taken", "refused", "failed"} : Answer(r, outcome)
  \/ sync # None /\ \E outcome \in {"taken", "refused", "failed"}, keys \in SUBSET (0 .. Len(sync) - 1) :
       AnswerBatch(outcome, keys)
  \/ ReadNext \/ ShowAnswer \/ ShowComplete \/ Finish
  \/ Cancel \/ Clear \/ \E x \in fading : FrameGone(x)

Spec == Init /\ [][Next]_vars

-----------------------------------------------------------------------------
AtRest == sync = None /\ reading = {} /\ timers = <<>> /\ requests = {} /\ fading = {}

(* Removing, refusing, sending, cancelling and closing up keep the indices   *)
(* of the frames true: no button of a frame acts on another frame's file.   *)
OwnFile == patient => \A k \in DOMAIN w.frames :
  At(w, w.frames[k].index) \in {None, w.frames[k].key}

(* What the server took is not sent again, and nothing undefined is sent,    *)
(* through any sequence of batches, single uploads, refusals and cancels;   *)
(* unless all are sent by one request and there are other frames than those *)
(* of the files sent: the request takes the error from the frame of a file   *)
(* refused when it was picked, whose button then sends undefined, and of     *)
(* the files the server refuses others are meant by their places.           *)
TakenOnce == patient /\ ~ astray =>
  /\ \A r \in requests : r.file # None /\ r.file \notin accepted
  /\ sync # None => None \notin ToSet(sync) /\ ToSet(sync) \cap accepted = {}

(* A batch ends once: also when its files are removed while they are sent,   *)
(* when answers come in any order, and when it is cancelled.  It leaves the *)
(* widget open.                                                            *)
BatchesEnd == patient =>
  /\ completed <= batches
  /\ AtRest => ~w.locked /\ completed = batches
=============================================================================
