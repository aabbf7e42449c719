------------------------------ MODULE PagesProofs -----------------------------
(***************************************************************************)
(* Proofs about what runs in the browser.                                  *)
(*                                                                         *)
(* The page shows its button only when its run is over, and afterwards the *)
(* result of its own run, for any number of visits and ended sessions.     *)
(* What a page shows and what is on its way to it are together what its    *)
(* endpoint has sent; nothing can be cut as long as a text is missing,     *)
(* since only the last one makes the page close its socket; and endpoints  *)
(* that had nothing left to do when the page was opened stay so.           *)
(*                                                                         *)
(* The dialog in which a page tells that its rules are ready leaves nothing *)
(* behind, whenever it is closed.  Until it is shown again too early, it is *)
(* closed, coming or going, and no more than two functions wait for the    *)
(* end of a transition.                                                    *)
(*                                                                         *)
(* Events of jQuery: functions bound to an element are heard as they should *)
(* be.  A handle is told by its id, wherever it is bound; what waits to be  *)
(* called for an event was bound where the event is, and what heard it, if  *)
(* still bound, is bound where the event does not come any more; and the    *)
(* click of a default action, which would come there again, calls nothing. *)
(*                                                                         *)
(* A list of callbacks of jQuery skips none of its functions, whatever they *)
(* do to the list: the one that runs is in the list as long as the list is *)
(* neither emptied nor disabled, and taking functions away moves the index *)
(* by just as many as are gone from before it.                             *)
(***************************************************************************)
EXTENDS CleaningPage, Modal, Events, Callbacks, SequenceTheorems, Sums

(* The texts after the first k and up to the n-th of a whole run.           *)
Texts(k, n) == SubSeq(WholeRun, k + 1, n)

(* How many texts an endpoint that has come to m may have sent.             *)
SentBy(m) ==
  CASE m = "open"                          -> {0}
    [] m = "started"                       -> {1}
    [] m \in {"computed", "written"}       -> {2}
    [] m = "timed"                         -> {3}
    [] m \in {"said", "header", "stored"}  -> {4}
    [] m = "failed"                        -> {1, 2, 4}
    [] OTHER                               -> {}

(* A page that has not sent the URLs hears nothing of a cleaning.           *)
UnsentInv ==
  place = "clean1" /\ sent # "sent" =>
    /\ readyState \in {"CONNECTING", "OPEN", "CLOSED"} /\ ~ viewResult
    /\ onMessage[visit] = IF readyState = "OPEN" THEN "open" ELSE "closed"
    /\ ~ toServer[visit] /\ toClient[visit] = <<>> /\ ~ cut[visit]
    /\ script = "loading" => shown = <<>> /\ sent = "no"

(* Of a page that has, k texts are shown and n have been sent; while any is *)
(* missing the connection is open.                                         *)
Exchange(k, n) ==
  /\ k <= n /\ n \in SentBy(onMessage[visit])
  /\ shown = Texts(0, k) /\ toClient[visit] = Texts(k, n)
  /\ toServer[visit] => onMessage[visit] = "open"
  /\ IF k < 4 THEN readyState = "OPEN" /\ ~ viewResult /\ ~ cut[visit]
              ELSE readyState \in {"CLOSING", "CLOSED"} /\ viewResult
  /\ quiet /\ (n = 4 \/ onMessage[visit] \in {"written", "timed"}) => cleanedFile = visit

SentInv ==
  place = "clean1" /\ sent = "sent" =>
    script = "ready" /\ \E k, n \in 0 .. 4 : Exchange(k, n)

(* Nobody has come for the visits to be; and where it was quiet, nothing    *)
(* is done for those before.                                               *)
OthersInv ==
  \A v \in Visits :
    /\ v > visit =>
         onMessage[v] = "closed" /\ ~ toServer[v] /\ toClient[v] = <<>> /\ ~ cut[v]
    /\ v < visit /\ quiet => Idle(v)

PlaceInv ==
  /\ place # "clean1" => NoPage
  /\ place # "away" => visit \in Visits
  /\ visit \in 0 .. MaxVisits

(* What the endpoint has stored for the visit is still in the session, and *)
(* clean2.jsp has read no more than that.                                  *)
StoredInv ==
  place # "away" /\ quiet =>
    /\ onMessage[visit] \in {"header", "stored"} => header = visit
    /\ onMessage[visit] = "stored" => dataSet = visit

ResultInv ==
  place \in {"asking", "half", "clean2"} /\ quiet /\ result.stored =>
    /\ onMessage[visit] = "stored"
    /\ place \in {"half", "clean2"} => result.header = visit
    /\ place = "clean2" => result.dataSet = visit

IInv == TypeOK /\ PlaceInv /\ OthersInv /\ UnsentInv /\ SentInv /\ StoredInv /\ ResultInv
-----------------------------------------------------------------------------
(* Lists of texts: what is sent is put at the end, what is received taken   *)
(* from the beginning.                                                     *)
LEMMA WholeRunTexts ==
  /\ WholeRun \in Seq(Text) /\ Len(WholeRun) = 4
  /\ \A i \in 1 .. 4 : WholeRun[i] \in Text /\ (WholeRun[i] = Finish <=> i = 4)
<1>1. WholeRun \in Seq(Text) /\ Len(WholeRun) = 4
  BY DEF WholeRun, Text
<1>2. WholeRun[1] = Start /\ WholeRun[2] = Progress /\ WholeRun[3] = Time /\ WholeRun[4] = Finish
  BY DEF WholeRun
<1>3. Start # Finish /\ Progress # Finish /\ Time # Finish
  BY DEF Start, Progress, Time, Finish
<1>4. \A i \in 1 .. 4 : i = 1 \/ i = 2 \/ i = 3 \/ i = 4
  OBVIOUS
<1>5. QED
  BY <1>1, <1>2, <1>3, <1>4 DEF Text

LEMMA TextsAreSeq ==
  ASSUME NEW k \in 0 .. 4, NEW n \in 0 .. 4, k <= n
  PROVE  /\ Texts(k, n) \in Seq(Text)
         /\ Texts(k, n) = <<>> <=> k = n
<1>1. \A i \in k + 1 .. n : WholeRun[i] \in Text
  BY WholeRunTexts
<1>2. /\ Texts(k, n) \in Seq(Text)
      /\ Len(Texts(k, n)) = IF k + 1 <= n THEN n - (k + 1) + 1 ELSE 0
  BY <1>1, SubSeqProperties, k + 1 \in Int, n \in Int DEF Texts
<1>3. Texts(k, n) = <<>> <=> Len(Texts(k, n)) = 0
  BY <1>2
<1>4. QED
  BY <1>2, <1>3

LEMMA TextsAppended ==
  ASSUME NEW k \in 0 .. 3, NEW n \in 0 .. 3, k <= n
  PROVE  Append(Texts(k, n), WholeRun[n + 1]) = Texts(k, n + 1)
<1>1. Texts(k, n + 1) = Texts(k, n) \o <<WholeRun[n + 1]>>
  <2>1. /\ k + 1 \in 1 .. Len(WholeRun) /\ n + 1 \in k + 1 .. Len(WholeRun)
        /\ (n + 1) - 1 = n
    BY WholeRunTexts
  <2>2. QED
    BY <2>1, WholeRunTexts, SubSeqRecursiveSecond DEF Texts
<1>2. Texts(k, n) \in Seq(Text)
  BY TextsAreSeq, k \in 0 .. 4, n \in 0 .. 4
<1>3. WholeRun[n + 1] \in Text
  BY WholeRunTexts, n + 1 \in 1 .. 4
<1>4. QED
  BY <1>1, <1>2, <1>3, AppendIsConcat

LEMMA TextsReceived ==
  ASSUME NEW k \in 0 .. 4, NEW n \in 0 .. 4, k < n
  PROVE  /\ Head(Texts(k, n)) = WholeRun[k + 1]
         /\ Tail(Texts(k, n)) = Texts(k + 1, n)
<1>1. k + 1 \in 1 .. Len(WholeRun) /\ n \in k + 1 .. Len(WholeRun)
  BY WholeRunTexts
<1>2. QED
  BY <1>1, WholeRunTexts, HeadTailOfSubSeq DEF Texts

LEMMA TextsWhole == Texts(0, 4) = WholeRun
BY WholeRunTexts, SubSeqFull, 0 + 1 = 1 DEF Texts

LEMMA TextsSent ==
  ASSUME NEW k \in 0 .. 3
  PROVE  /\ k <= 0 => Append(Texts(k, 0), Start) = Texts(k, 1)
         /\ k <= 1 => Append(Texts(k, 1), Progress) = Texts(k, 2)
         /\ k <= 2 => Append(Texts(k, 2), Time) = Texts(k, 3)
         /\ k <= 3 => Append(Texts(k, 3), Finish) = Texts(k, 4)
<1>1. WholeRun[1] = Start /\ WholeRun[2] = Progress /\ WholeRun[3] = Time /\ WholeRun[4] = Finish
  BY DEF WholeRun
<1>2. ASSUME NEW n \in 0 .. 3, k <= n
      PROVE  Append(Texts(k, n), WholeRun[n + 1]) = Texts(k, n + 1)
  BY <1>2, TextsAppended
<1>3. k <= 0 => Append(Texts(k, 0), WholeRun[0 + 1]) = Texts(k, 0 + 1)
  BY <1>2, 0 \in 0 .. 3
<1>4. k <= 1 => Append(Texts(k, 1), WholeRun[1 + 1]) = Texts(k, 1 + 1)
  BY <1>2, 1 \in 0 .. 3
<1>5. k <= 2 => Append(Texts(k, 2), WholeRun[2 + 1]) = Texts(k, 2 + 1)
  BY <1>2, 2 \in 0 .. 3
<1>6. k <= 3 => Append(Texts(k, 3), WholeRun[3 + 1]) = Texts(k, 3 + 1)
  BY <1>2, 3 \in 0 .. 3
<1>7. 0 + 1 = 1 /\ 1 + 1 = 2 /\ 2 + 1 = 3 /\ 3 + 1 = 4
  OBVIOUS
<1>8. QED
  BY <1>1, <1>3, <1>4, <1>5, <1>6, <1>7

LEMMA SentByStates ==
  /\ SentBy("open") = {0} /\ SentBy("started") = {1} /\ SentBy("timed") = {3}
  /\ SentBy("computed") = {2} /\ SentBy("written") = {2}
  /\ SentBy("said") = {4} /\ SentBy("header") = {4} /\ SentBy("stored") = {4}
  /\ SentBy("failed") = {1, 2, 4}
BY DEF SentBy


-----------------------------------------------------------------------------
(* The invariant holds at first, and every step of the browser and of the   *)
(* endpoints keeps each of its conjuncts.                                  *)
LEMMA IInvInit == Init => IInv
<1> SUFFICES ASSUME Init PROVE IInv
  OBVIOUS
<1> USE DEF Init, NoPage
<1>1. TypeOK
  <2>1. <<>> \in Seq(Text)
    OBVIOUS
  <2>2. visit \in 0 .. MaxVisits /\ 0 \in 0 .. MaxVisits
    BY CleaningPageAssumption
  <2>3. result \in [header : 0 .. MaxVisits, dataSet : 0 .. MaxVisits, stored : BOOLEAN]
    BY <2>2
  <2>4. QED
    BY <2>1, <2>2, <2>3 DEF TypeOK, States
<1>2. PlaceInv
  BY CleaningPageAssumption DEF PlaceInv
<1>3. OthersInv
  BY DEF OthersInv, Visits
<1>4. UnsentInv /\ SentInv /\ StoredInv /\ ResultInv
  BY DEF UnsentInv, SentInv, StoredInv, ResultInv
<1>5. QED
  BY <1>1, <1>2, <1>3, <1>4 DEF IInv

LEMMA SendTextTypes ==
  ASSUME TypeOK, NEW v \in Visits, NEW text \in Text, NEW to \in States, sendText(v, text, to)
  PROVE  toClient' \in [Visits -> Seq(Text)] /\ onMessage' \in [Visits -> States]
<1>1. toClient[v] \in Seq(Text) /\ Append(toClient[v], text) \in Seq(Text) /\ "thrown" \in States
  BY DEF TypeOK, States
<1>2. CASE cut[v]
  BY <1>1, <1>2 DEF sendText, TypeOK
<1>3. CASE ~ cut[v]
  BY <1>1, <1>3 DEF sendText, TypeOK
<1>4. QED
  BY <1>2, <1>3

LEMMA TypeOKStep == TypeOK /\ PlaceInv /\ [Next]_vars => TypeOK'
<1> SUFFICES ASSUME TypeOK, PlaceInv, [Next]_vars
             PROVE  TypeOK'
  OBVIOUS
<1>0. /\ Welcome \in Text /\ Failure \in Text
      /\ \A v \in Visits : v \in 0 .. MaxVisits
      /\ 0 \in 0 .. MaxVisits /\ <<>> \in Seq(Text)
      /\ \A s \in Seq(Text) : \A t \in Text : Append(s, t) \in Seq(Text)
  BY CleaningPageAssumption DEF Text, Visits
<1> USE <1>0 DEF TypeOK, PlaceInv, States, page, wire, endpoint
<1>1. CASE Visit
  <2>1. visit + 1 \in 0 .. MaxVisits
    BY <1>1, CleaningPageAssumption DEF Visit
  <2>2. QED
    BY <1>1, <2>1 DEF Visit
<1>2. CASE Established
  <2>1. \A text \in Text : Append(shown, text) \in Seq(Text)
    OBVIOUS
  <2>2. shown' = shown \/ \E text \in Text : shown' = Append(shown, text)
    BY <1>2 DEF Established, Says
  <2>3. shown' \in Seq(Text)
    BY <2>1, <2>2
  <2>4. QED
    BY <1>2, <2>3 DEF Established, SessionOnOpen
<1>3. CASE NotConnected
  <2>1. \A text \in Text : Append(shown, text) \in Seq(Text)
    OBVIOUS
  <2>2. shown' = shown \/ \E text \in Text : shown' = Append(shown, text)
    BY <1>3 DEF NotConnected, Says
  <2>3. shown' \in Seq(Text)
    BY <2>1, <2>2
  <2>4. QED
    BY <1>3, <2>3 DEF NotConnected, SessionOnOpen
<1>4. CASE Ready
  BY <1>4 DEF Ready, send
<1>5. CASE Receive
  <2>1. Head(toClient[visit]) \in Text /\ Tail(toClient[visit]) \in Seq(Text)
    BY <1>5 DEF Receive
  <2>2. Append(shown, Head(toClient[visit])) \in Seq(Text)
    BY <2>1
  <2>3. QED
    BY <1>5, <2>1, <2>2 DEF Receive, Says, closeWebSocket
<1>6. CASE Closed
  BY <1>6 DEF Closed
<1>7. CASE Leave
  BY <1>7 DEF Leave, Unload
<1>8. CASE View
  BY <1>8 DEF View, Unload
<1>9. CASE ReadHeader
  BY <1>9 DEF ReadHeader
<1>10. CASE ReadDataSet
  BY <1>10 DEF ReadDataSet
<1>11. CASE Restart
  BY <1>11 DEF Restart
<1>12. CASE Invalidate
  BY <1>12 DEF Invalidate
<1>13. ASSUME NEW v \in Visits, Drop(v)
      PROVE  TypeOK'
  BY <1>13 DEF Drop
<1>14. ASSUME NEW v \in Visits, Endpoint(v)
      PROVE  TypeOK'
  <2>1. /\ Start \in Text /\ Progress \in Text /\ Time \in Text /\ Finish \in Text
        /\ toClient[v] \in Seq(Text)
    BY DEF Text
  <2>2. CASE OnMessage(v)
    <3>1. toClient' \in [Visits -> Seq(Text)] /\ onMessage' \in [Visits -> States]
      BY <2>1, "started" \in States, SendTextTypes, <2>2 DEF OnMessage
    <3>2. QED
      BY <3>1, <2>2 DEF OnMessage, sendText
  <2>3. CASE Report(v)
    <3>1. toClient' \in [Visits -> Seq(Text)] /\ onMessage' \in [Visits -> States]
      BY <2>1, "computed" \in States, SendTextTypes, <2>3 DEF Report
    <3>2. QED
      BY <3>1, <2>3 DEF Report, sendText
  <2>4. CASE Fails(v)
    BY <2>4, <2>1 DEF Fails
  <2>5. CASE WriteToFile(v)
    BY <2>5, <2>1 DEF WriteToFile
  <2>6. CASE SayTime(v)
    <3>1. toClient' \in [Visits -> Seq(Text)] /\ onMessage' \in [Visits -> States]
      BY <2>1, "timed" \in States, SendTextTypes, <2>6 DEF SayTime
    <3>2. QED
      BY <3>1, <2>6 DEF SayTime, sendText
  <2>7. CASE SayFinish(v)
    <3>1. toClient' \in [Visits -> Seq(Text)] /\ onMessage' \in [Visits -> States]
      BY <2>1, "said" \in States, SendTextTypes, <2>7 DEF SayFinish
    <3>2. QED
      BY <3>1, <2>7 DEF SayFinish, sendText
  <2>8. CASE StoreHeader(v)
    BY <2>8, <2>1 DEF StoreHeader
  <2>9. CASE StoreDataSet(v)
    BY <2>9, <2>1 DEF StoreDataSet, StoredDataSet
  <2>10. QED
    BY <1>14, <2>2, <2>3, <2>4, <2>5, <2>6, <2>7, <2>8, <2>9 DEF Endpoint
<1>15. CASE UNCHANGED vars
  BY <1>15 DEF vars
<1>16. QED
  BY <1>1, <1>2, <1>3, <1>4, <1>5, <1>6, <1>7, <1>8, <1>9, <1>10, <1>11, <1>12, <1>13,
     <1>14, <1>15
  DEF Next, Browser, Terminating

LEMMA PlaceInvStep == TypeOK /\ PlaceInv /\ [Next]_vars => PlaceInv'
<1> SUFFICES ASSUME TypeOK, PlaceInv, [Next]_vars
             PROVE  PlaceInv'
  OBVIOUS
<1> USE CleaningPageAssumption DEF TypeOK, PlaceInv, NoPage, Visits, page
<1>1. CASE Visit
  BY <1>1 DEF Visit
<1>2. CASE Established
  BY <1>2 DEF Established, Says, SessionOnOpen
<1>3. CASE NotConnected
  BY <1>3 DEF NotConnected, Says
<1>4. CASE Ready
  BY <1>4 DEF Ready, send
<1>5. CASE Receive
  BY <1>5 DEF Receive, Says, closeWebSocket
<1>6. CASE Closed
  BY <1>6 DEF Closed
<1>7. CASE Leave
  BY <1>7 DEF Leave, Unload
<1>8. CASE View
  BY <1>8 DEF View, Unload
<1>9. CASE ReadHeader
  BY <1>9 DEF ReadHeader
<1>10. CASE ReadDataSet
  BY <1>10 DEF ReadDataSet
<1>11. CASE Restart
  BY <1>11 DEF Restart
<1>12. CASE Invalidate
  BY <1>12 DEF Invalidate
<1>13. ASSUME NEW v \in Visits, Drop(v)
      PROVE  PlaceInv'
  BY <1>13 DEF Drop
<1>14. ASSUME NEW v \in Visits, Endpoint(v)
      PROVE  PlaceInv'
  <2>1. CASE OnMessage(v)
    BY <2>1 DEF OnMessage, sendText
  <2>2. CASE Report(v)
    BY <2>2 DEF Report, sendText
  <2>3. CASE Fails(v)
    BY <2>3 DEF Fails
  <2>4. CASE WriteToFile(v)
    BY <2>4 DEF WriteToFile
  <2>5. CASE SayTime(v)
    BY <2>5 DEF SayTime, sendText
  <2>6. CASE SayFinish(v)
    BY <2>6 DEF SayFinish, FinishedAt, sendText
  <2>7. CASE StoreHeader(v)
    BY <2>7 DEF StoreHeader
  <2>8. CASE StoreDataSet(v)
    BY <2>8 DEF StoreDataSet, StoredDataSet
  <2>9. QED
    BY <1>14, <2>1, <2>2, <2>3, <2>4, <2>5, <2>6, <2>7, <2>8 DEF Endpoint
<1>15. CASE UNCHANGED vars
  BY <1>15 DEF vars
<1>16. QED
  BY <1>1, <1>2, <1>3, <1>4, <1>5, <1>6, <1>7, <1>8, <1>9, <1>10, <1>11, <1>12, <1>13,
     <1>14, <1>15
  DEF Next, Browser, Terminating

LEMMA OthersInvStep == TypeOK /\ PlaceInv /\ OthersInv /\ [Next]_vars => OthersInv'
<1> SUFFICES ASSUME TypeOK, PlaceInv, OthersInv, [Next]_vars
             PROVE  OthersInv'
  OBVIOUS
<1> USE DEF TypeOK, PlaceInv, OthersInv, Idle, Visits, page, wire, endpoint
<1>1. CASE Visit
  BY <1>1 DEF Visit
<1>2. CASE Established
  BY <1>2 DEF Established, Says, SessionOnOpen
<1>3. CASE NotConnected
  BY <1>3 DEF NotConnected, Says
<1>4. CASE Ready
  BY <1>4 DEF Ready, send
<1>5. CASE Receive
  BY <1>5 DEF Receive, Says, closeWebSocket
<1>6. CASE Closed
  BY <1>6 DEF Closed
<1>7. CASE Leave
  BY <1>7 DEF Leave, Unload
<1>8. CASE View
  BY <1>8 DEF View, Unload
<1>9. CASE ReadHeader
  BY <1>9 DEF ReadHeader
<1>10. CASE ReadDataSet
  BY <1>10 DEF ReadDataSet
<1>11. CASE Restart
  BY <1>11 DEF Restart
<1>12. CASE Invalidate
  BY <1>12 DEF Invalidate
<1>13. ASSUME NEW v \in Visits, Drop(v)
      PROVE  OthersInv'
  BY <1>13 DEF Drop
<1>14. ASSUME NEW v \in Visits, Endpoint(v)
      PROVE  OthersInv'
  <2>1. v <= visit
    BY <1>14 DEF Endpoint, OnMessage, Report, Fails, WriteToFile, SayTime, SayFinish,
                FinishedAt, StoreHeader, StoreDataSet
  <2>2. CASE OnMessage(v)
    BY <2>2, <2>1 DEF OnMessage, sendText
  <2>3. CASE Report(v)
    BY <2>3, <2>1 DEF Report, sendText
  <2>4. CASE Fails(v)
    BY <2>4, <2>1 DEF Fails
  <2>5. CASE WriteToFile(v)
    BY <2>5, <2>1 DEF WriteToFile
  <2>6. CASE SayTime(v)
    BY <2>6, <2>1 DEF SayTime, sendText
  <2>7. CASE SayFinish(v)
    BY <2>7, <2>1 DEF SayFinish, FinishedAt, sendText
  <2>8. CASE StoreHeader(v)
    BY <2>8, <2>1 DEF StoreHeader
  <2>9. CASE StoreDataSet(v)
    BY <2>9, <2>1 DEF StoreDataSet, StoredDataSet
  <2>10. QED
    BY <1>14, <2>2, <2>3, <2>4, <2>5, <2>6, <2>7, <2>8, <2>9 DEF Endpoint
<1>15. CASE UNCHANGED vars
  BY <1>15 DEF vars
<1>16. QED
  BY <1>1, <1>2, <1>3, <1>4, <1>5, <1>6, <1>7, <1>8, <1>9, <1>10, <1>11, <1>12, <1>13,
     <1>14, <1>15
  DEF Next, Browser, Terminating

LEMMA UnsentInvStep == TypeOK /\ PlaceInv /\ OthersInv /\ UnsentInv /\ SentInv /\ [Next]_vars => UnsentInv'
<1> SUFFICES ASSUME TypeOK, PlaceInv, OthersInv, UnsentInv, SentInv, [Next]_vars
             PROVE  UnsentInv'
  OBVIOUS
<1> USE DEF TypeOK, PlaceInv, UnsentInv, NoPage, Visits, page, wire, endpoint
<1>1. CASE Visit
  <2>1. visit + 1 \in Visits /\ visit + 1 > visit
    BY <1>1, CleaningPageAssumption DEF Visit
  <2>2. /\ onMessage[visit + 1] = "closed" /\ ~ toServer[visit + 1]
        /\ toClient[visit + 1] = <<>> /\ ~ cut[visit + 1]
    BY <2>1 DEF OthersInv
  <2>3. QED
    BY <1>1, <2>2 DEF Visit
<1>2. CASE Established
  BY <1>2 DEF Established, Says, SessionOnOpen
<1>3. CASE NotConnected
  BY <1>3 DEF NotConnected, Says
<1>4. CASE Ready
  <2>1. CASE readyState = "OPEN"
    BY <1>4, <2>1 DEF Ready, send
  <2>2. CASE readyState # "OPEN"
    <3>1. toServer'[visit] = FALSE
      BY <1>4, <2>2 DEF Ready, send
    <3>2. sent' \in {"thrown", "discarded"}
      BY <1>4, <2>2 DEF Ready, send
    <3>3. /\ onMessage[visit] = "closed" /\ toClient[visit] = <<>> /\ ~ cut[visit] /\ ~ viewResult
          /\ readyState \in {"CONNECTING", "CLOSED"}
      BY <1>4, <2>2 DEF Ready, SentInv
    <3>4. /\ UNCHANGED <<onMessage, toClient, cut, viewResult, readyState, visit>>
          /\ script' = "ready"
      BY <1>4 DEF Ready
    <3>5. QED
      BY <2>2, <3>1, <3>2, <3>3, <3>4
  <2>3. QED
    BY <2>1, <2>2
<1>5. CASE Receive
  BY <1>5 DEF Receive, Says, closeWebSocket
<1>6. CASE Closed
  BY <1>6 DEF Closed
<1>7. CASE Leave
  BY <1>7 DEF Leave, Unload
<1>8. CASE View
  BY <1>8 DEF View, Unload
<1>9. CASE ReadHeader
  BY <1>9 DEF ReadHeader
<1>10. CASE ReadDataSet
  BY <1>10 DEF ReadDataSet
<1>11. CASE Restart
  BY <1>11 DEF Restart
<1>12. CASE Invalidate
  BY <1>12 DEF Invalidate
<1>13. ASSUME NEW v \in Visits, Drop(v)
      PROVE  UnsentInv'
  BY <1>13 DEF Drop
<1>14. ASSUME NEW v \in Visits, Endpoint(v)
      PROVE  UnsentInv'
  <2>1. ~ (place = "clean1" /\ sent # "sent" /\ v = visit)
    BY <1>14 DEF Endpoint, OnMessage, Report, Fails, WriteToFile, SayTime, SayFinish,
                FinishedAt, StoreHeader, StoreDataSet
  <2>2. CASE OnMessage(v)
    BY <2>2, <2>1 DEF OnMessage, sendText
  <2>3. CASE Report(v)
    BY <2>3, <2>1 DEF Report, sendText
  <2>4. CASE Fails(v)
    BY <2>4, <2>1 DEF Fails
  <2>5. CASE WriteToFile(v)
    BY <2>5, <2>1 DEF WriteToFile
  <2>6. CASE SayTime(v)
    BY <2>6, <2>1 DEF SayTime, sendText
  <2>7. CASE SayFinish(v)
    BY <2>7, <2>1 DEF SayFinish, FinishedAt, sendText
  <2>8. CASE StoreHeader(v)
    BY <2>8, <2>1 DEF StoreHeader
  <2>9. CASE StoreDataSet(v)
    BY <2>9, <2>1 DEF StoreDataSet, StoredDataSet
  <2>10. QED
    BY <1>14, <2>2, <2>3, <2>4, <2>5, <2>6, <2>7, <2>8, <2>9 DEF Endpoint
<1>15. CASE UNCHANGED vars
  BY <1>15 DEF vars
<1>16. QED
  BY <1>1, <1>2, <1>3, <1>4, <1>5, <1>6, <1>7, <1>8, <1>9, <1>10, <1>11, <1>12, <1>13,
     <1>14, <1>15
  DEF Next, Browser, Terminating

LEMMA SentInvStep ==
  TypeOK /\ PlaceInv /\ OthersInv /\ UnsentInv /\ SentInv /\ [Next]_vars => SentInv'
<1> SUFFICES ASSUME TypeOK, PlaceInv, OthersInv, UnsentInv, SentInv, [Next]_vars
             PROVE  SentInv'
  OBVIOUS
<1> USE DEF SentInv
<1>1. CASE Visit
  BY <1>1 DEF Visit
<1>2. CASE Established
  <2>1. sent # "sent"
    BY <1>2 DEF Established, Exchange
  <2>2. QED
    BY <1>2, <2>1 DEF Established
<1>3. CASE NotConnected
  <2>1. sent # "sent"
    BY <1>3 DEF NotConnected, Exchange
  <2>2. QED
    BY <1>3, <2>1 DEF NotConnected
<1>4. CASE Ready
  <2>1. CASE readyState = "OPEN"
    <3>1. Texts(0, 0) = <<>>
      BY TextsAreSeq, 0 \in 0 .. 4
    <3>2. /\ shown = <<>> /\ toClient[visit] = <<>> /\ ~ viewResult /\ ~ cut[visit]
          /\ onMessage[visit] = "open" /\ place = "clean1"
      BY <1>4, <2>1 DEF Ready, UnsentInv
    <3>3. /\ UNCHANGED <<shown, toClient, viewResult, cut, onMessage, cleanedFile, quiet, visit>>
          /\ readyState' = "OPEN" /\ script' = "ready"
      BY <1>4, <2>1 DEF Ready, endpoint
    <3>4. Exchange(0, 0)'
      BY <3>1, <3>2, <3>3, SentByStates DEF Exchange
    <3>5. QED
      BY <3>3, <3>4
  <2>2. CASE readyState # "OPEN"
    BY <1>4, <2>2 DEF Ready, send
  <2>3. QED
    BY <2>1, <2>2
<1>5. CASE Receive
  <2> SUFFICES ASSUME sent = "sent"
               PROVE  SentInv'
    BY <1>5 DEF Receive
  <2>1. PICK k \in 0 .. 4, n \in 0 .. 4 : Exchange(k, n)
    BY <1>5 DEF Receive
  <2>2. k < n /\ readyState = "OPEN" /\ ~ viewResult /\ ~ cut[visit]
    <3>1. Texts(k, n) # <<>> /\ k <= n
      BY <1>5, <2>1 DEF Receive, Exchange
    <3>2. k < n
      <4>1. Texts(k, n) = <<>> <=> k = n
        BY <3>1, TextsAreSeq
      <4>2. QED
        BY <3>1, <4>1
    <3>3. QED
      BY <2>1, <3>2 DEF Exchange
  <2>3. /\ Head(toClient[visit]) = WholeRun[k + 1] /\ Tail(toClient[visit]) = Texts(k + 1, n)
        /\ Append(shown, WholeRun[k + 1]) = Texts(0, k + 1)
    <3>1. k \in 0 .. 3 /\ 0 \in 0 .. 3 /\ 0 <= k
      BY <2>2
    <3>2. Append(Texts(0, k), WholeRun[k + 1]) = Texts(0, k + 1)
      BY <3>1, TextsAppended
    <3>3. QED
      BY <2>1, <2>2, <3>2, TextsReceived DEF Exchange
  <2>4. Ends(WholeRun[k + 1]) <=> k + 1 = 4
    BY <2>2, WholeRunTexts DEF Ends
  <2>5. k + 1 \in 0 .. 4 /\ Exchange(k + 1, n)'
    <3>1. /\ shown' = Texts(0, k + 1) /\ toClient'[visit] = Texts(k + 1, n)
          /\ UNCHANGED <<visit, toServer, cut, onMessage, cleanedFile, quiet>>
      BY <1>5, <2>1, <2>2, <2>3 DEF Receive, Says, Exchange, TypeOK, PlaceInv, endpoint
    <3>2. IF k + 1 < 4 THEN readyState' = "OPEN" /\ ~ viewResult'
                       ELSE readyState' \in {"CLOSING", "CLOSED"} /\ viewResult'
      BY <1>5, <2>2, <2>3, <2>4 DEF Receive, closeWebSocket
    <3>3. k + 1 <= n /\ k + 1 \in 0 .. 4
      BY <2>2
    <3>4. QED
      BY <2>1, <2>2, <3>1, <3>2, <3>3 DEF Exchange
  <2>6. QED
    BY <1>5, <2>5 DEF Receive
<1>6. CASE Closed
  <2> SUFFICES ASSUME sent = "sent"
               PROVE  SentInv'
    BY <1>6 DEF Closed
  <2>1. PICK k \in 0 .. 4, n \in 0 .. 4 : Exchange(k, n)
    BY <1>6 DEF Closed
  <2>2. Exchange(k, n)'
    BY <1>6, <2>1 DEF Closed, Exchange, endpoint
  <2>3. QED
    BY <1>6, <2>2 DEF Closed
<1>7. CASE Leave
  BY <1>7 DEF Leave, Unload
<1>8. CASE View
  BY <1>8 DEF View, Unload
<1>9. CASE ReadHeader
  BY <1>9 DEF ReadHeader
<1>10. CASE ReadDataSet
  BY <1>10 DEF ReadDataSet
<1>11. CASE Restart
  BY <1>11 DEF Restart
<1>12. CASE Invalidate
  BY <1>12 DEF Invalidate
<1>13. ASSUME NEW v \in Visits, Drop(v)
      PROVE  SentInv'
  <2>1. place = "clean1" => cut'[visit] = cut[visit]
    <3>1. place = "clean1" => visit # v /\ visit \in Visits
      BY <1>13 DEF Drop, PlaceInv, Visits
    <3>2. QED
      BY <1>13, <3>1 DEF Drop, TypeOK
  <2>2. \A k, n \in 0 .. 4 : place = "clean1" /\ Exchange(k, n) => Exchange(k, n)'
    BY <1>13, <2>1 DEF Drop, Exchange, page, endpoint
  <2>3. QED
    BY <1>13, <2>2 DEF Drop, page
<1>14. ASSUME NEW v \in Visits, Endpoint(v)
      PROVE  SentInv'
  <2>0. UNCHANGED <<place, visit, page, cut, quiet>> /\ Visits \subseteq Int
    BY <1>14 DEF Endpoint, OnMessage, Report, Fails, WriteToFile, SayTime, SayFinish, StoreHeader,
                StoreDataSet, sendText, wire, Visits
  <2> SUFFICES ASSUME place = "clean1", sent = "sent"
               PROVE  SentInv'
    BY <2>0 DEF page
  <2>1. PICK k \in 0 .. 4, n \in 0 .. 4 : Exchange(k, n)
    OBVIOUS
  <2>2. ASSUME v # visit
        PROVE  Exchange(k, n)'
    <3>1. /\ onMessage'[visit] = onMessage[visit] /\ toClient'[visit] = toClient[visit]
          /\ toServer'[visit] = toServer[visit]
      BY <1>14, <2>2 DEF Endpoint, OnMessage, Report, Fails, WriteToFile, SayTime, SayFinish, StoreHeader,
                  StoreDataSet, sendText, wire, TypeOK, PlaceInv
    <3>2. quiet => cleanedFile' = cleanedFile
      <4>1. v <= visit
        BY <1>14 DEF Endpoint, OnMessage, Report, Fails, WriteToFile, SayTime, SayFinish,
                    FinishedAt, StoreHeader, StoreDataSet, OthersInv, PlaceInv, Visits
      <4>2. quiet => ~ WriteToFile(v)
        BY <2>2, <4>1, <2>0 DEF OthersInv, Idle, WriteToFile, PlaceInv
      <4>3. QED
        BY <1>14, <4>2 DEF Endpoint, OnMessage, Report, Fails, SayTime, SayFinish, StoreHeader, StoreDataSet,
                    sendText
    <3>3. QED
      BY <2>0, <2>1, <3>1, <3>2 DEF Exchange, page
  <2>3. ASSUME v = visit
        PROVE  \E m \in 0 .. 4 : Exchange(k, m)'
    <3> USE <2>0, <2>1, <2>3, SentByStates DEF Exchange, TypeOK, PlaceInv, page
    <3>1. CASE OnMessage(v)
      <4>1. n = 0 /\ k \in 0 .. 3 /\ ~ cut[v] /\ toClient[v] = Texts(k, 0)
        BY <3>1, SentByStates DEF OnMessage
      <4>2. Append(toClient[v], Start) = Texts(k, 1)
        BY <4>1, TextsSent
      <4>3. /\ toClient'[v] = Texts(k, 1) /\ ~ toServer'[v] /\ UNCHANGED cleanedFile
            /\ onMessage'[v] = "started"
        BY <3>1, <4>1, <4>2 DEF OnMessage, sendText
      <4>4. Exchange(k, 1)'
        BY <4>1, <4>3, SentByStates
      <4>5. QED
        BY <4>4
    <3>2. CASE Report(v)
      <4>1. n = 1 /\ k \in 0 .. 3 /\ ~ cut[v] /\ toClient[v] = Texts(k, 1)
        BY <3>2, SentByStates DEF Report
      <4>2. Append(toClient[v], Progress) = Texts(k, 2)
        BY <4>1, TextsSent
      <4>3. /\ toClient'[v] = Texts(k, 2) /\ ~ toServer'[v] /\ UNCHANGED cleanedFile
            /\ onMessage'[v] = "computed"
        BY <3>2, <4>1, <4>2 DEF Report, sendText
      <4>4. Exchange(k, 2)'
        BY <4>1, <4>3, SentByStates
      <4>5. QED
        BY <4>4
    <3>3. CASE Fails(v)
      <4>1. Exchange(k, n)'
        BY <3>3 DEF Fails, wire
      <4>2. QED
        BY <4>1
    <3>4. CASE WriteToFile(v)
      <4>1. Exchange(k, n)'
        BY <3>4 DEF WriteToFile, wire
      <4>2. QED
        BY <4>1
    <3>5. CASE SayTime(v)
      <4>1. /\ n = 2 /\ k \in 0 .. 3 /\ ~ cut[v] /\ toClient[v] = Texts(k, 2)
            /\ quiet => cleanedFile = visit
        BY <3>5, SentByStates DEF SayTime
      <4>2. Append(toClient[v], Time) = Texts(k, 3)
        BY <4>1, TextsSent
      <4>3. /\ toClient'[v] = Texts(k, 3) /\ ~ toServer'[v] /\ UNCHANGED cleanedFile
            /\ onMessage'[v] = "timed"
        BY <3>5, <4>1, <4>2 DEF SayTime, sendText
      <4>4. Exchange(k, 3)'
        BY <4>1, <4>3, SentByStates
      <4>5. QED
        BY <4>4
    <3>6. CASE SayFinish(v)
      <4>1. /\ n = 3 /\ k \in 0 .. 3 /\ ~ cut[v] /\ toClient[v] = Texts(k, 3)
            /\ quiet => cleanedFile = visit
        BY <3>6, SentByStates DEF SayFinish, FinishedAt
      <4>2. Append(toClient[v], Finish) = Texts(k, 4)
        BY <4>1, TextsSent
      <4>3. /\ toClient'[v] = Texts(k, 4) /\ ~ toServer'[v] /\ UNCHANGED cleanedFile
            /\ onMessage'[v] = "said"
        BY <3>6, <4>1, <4>2 DEF SayFinish, FinishedAt, sendText
      <4>4. Exchange(k, 4)'
        BY <4>1, <4>3, SentByStates
      <4>5. QED
        BY <4>4
    <3>7. CASE StoreHeader(v)
      <4>1. Exchange(k, n)'
        BY <3>7 DEF StoreHeader, wire
      <4>2. QED
        BY <4>1
    <3>8. CASE StoreDataSet(v)
      <4>1. Exchange(k, n)'
        BY <3>8 DEF StoreDataSet, wire
      <4>2. QED
        BY <4>1
    <3>9. QED
      BY <1>14, <3>1, <3>2, <3>3, <3>4, <3>5, <3>6, <3>7, <3>8 DEF Endpoint
  <2>4. QED
    BY <2>0, <2>2, <2>3 DEF page
<1>15. CASE UNCHANGED vars
  <2>1. \A k, n \in 0 .. 4 : Exchange(k, n) => Exchange(k, n)'
    BY <1>15 DEF Exchange, vars, page, wire, endpoint
  <2>2. QED
    BY <1>15, <2>1 DEF vars, page
<1>16. QED
  BY <1>1, <1>2, <1>3, <1>4, <1>5, <1>6, <1>7, <1>8, <1>9,
     <1>10, <1>11, <1>12, <1>13, <1>14, <1>15
  DEF Next, Browser, Terminating

LEMMA StoredInvStep ==
  TypeOK /\ PlaceInv /\ OthersInv /\ StoredInv /\ [Next]_vars => StoredInv'
<1> SUFFICES ASSUME TypeOK, PlaceInv, OthersInv, StoredInv, [Next]_vars
             PROVE  StoredInv'
  OBVIOUS
<1> USE DEF StoredInv, TypeOK, PlaceInv, endpoint
<1>1. CASE Visit
  <2>1. visit + 1 \in Visits /\ visit + 1 > visit
    BY <1>1, CleaningPageAssumption DEF Visit, Visits
  <2>2. onMessage[visit + 1] = "closed"
    BY <2>1 DEF OthersInv
  <2>3. QED
    BY <1>1, <2>2 DEF Visit
<1>2. CASE Established
  BY <1>2 DEF Established
<1>3. CASE NotConnected
  BY <1>3 DEF NotConnected
<1>4. CASE Ready
  BY <1>4 DEF Ready
<1>5. CASE Receive
  BY <1>5 DEF Receive
<1>6. CASE Closed
  BY <1>6 DEF Closed
<1>7. CASE Leave
  BY <1>7 DEF Leave, Unload
<1>8. CASE View
  BY <1>8 DEF View, Unload
<1>9. CASE ReadHeader
  BY <1>9 DEF ReadHeader
<1>10. CASE ReadDataSet
  BY <1>10 DEF ReadDataSet
<1>11. CASE Restart
  BY <1>11 DEF Restart
<1>12. CASE Invalidate
  BY <1>12 DEF Invalidate
<1>13. ASSUME NEW v \in Visits, Drop(v)
       PROVE  StoredInv'
  BY <1>13 DEF Drop
<1>14. ASSUME NEW v \in Visits, Endpoint(v)
       PROVE  StoredInv'
  <2>1. v <= visit
    BY <1>14 DEF Endpoint, OnMessage, Report, Fails, WriteToFile, SayTime, SayFinish,
                 FinishedAt, StoreHeader, StoreDataSet, OthersInv, Visits
  <2>2. v < visit /\ quiet => ~ StoreHeader(v) /\ ~ StoreDataSet(v)
    BY DEF OthersInv, Idle, StoreHeader, StoreDataSet
  <2>3. v = visit \/ v < visit
    BY <2>1 DEF Visits
  <2>4. CASE OnMessage(v) \/ Report(v) \/ SayTime(v) \/ SayFinish(v)
    <3>1. /\ UNCHANGED <<place, visit, quiet, header, dataSet>>
          /\ onMessage'[v] \notin {"header", "stored"}
          /\ \A w \in Visits \ {v} : onMessage'[w] = onMessage[w]
      BY <2>4 DEF OnMessage, Report, SayTime, SayFinish, sendText
    <3>2. QED
      BY <3>1
  <2>5. CASE Fails(v)
    BY <2>5 DEF Fails
  <2>6. CASE WriteToFile(v)
    BY <2>6 DEF WriteToFile
  <2>7. CASE StoreHeader(v)
    BY <2>2, <2>3, <2>7 DEF StoreHeader
  <2>8. CASE StoreDataSet(v)
    BY <2>2, <2>3, <2>8 DEF StoreDataSet, StoredDataSet
  <2>9. QED
    BY <1>14, <2>4, <2>5, <2>6, <2>7, <2>8 DEF Endpoint
<1>15. CASE UNCHANGED vars
  BY <1>15 DEF vars
<1>16. QED
  BY <1>1, <1>2, <1>3, <1>4, <1>5, <1>6, <1>7, <1>8, <1>9, <1>10, <1>11, <1>12, <1>13,
     <1>14, <1>15
  DEF Next, Browser, Terminating

LEMMA ResultInvStep ==
  TypeOK /\ PlaceInv /\ OthersInv /\ StoredInv /\ ResultInv /\ [Next]_vars => ResultInv'
<1> SUFFICES ASSUME TypeOK, PlaceInv, OthersInv, StoredInv, ResultInv, [Next]_vars
             PROVE  ResultInv'
  OBVIOUS
<1> USE DEF ResultInv, TypeOK, PlaceInv, endpoint
<1>1. CASE Visit
  BY <1>1 DEF Visit
<1>2. CASE Established
  BY <1>2 DEF Established
<1>3. CASE NotConnected
  BY <1>3 DEF NotConnected
<1>4. CASE Ready
  BY <1>4 DEF Ready
<1>5. CASE Receive
  BY <1>5 DEF Receive
<1>6. CASE Closed
  BY <1>6 DEF Closed
<1>7. CASE Leave
  BY <1>7 DEF Leave, Unload
<1>8. CASE View
  BY <1>8 DEF View, Unload
<1>9. CASE ReadHeader
  BY <1>9 DEF ReadHeader, StoredInv
<1>10. CASE ReadDataSet
  BY <1>10 DEF ReadDataSet, StoredInv
<1>11. CASE Restart
  BY <1>11 DEF Restart
<1>12. CASE Invalidate
  BY <1>12 DEF Invalidate
<1>13. ASSUME NEW v \in Visits, Drop(v)
       PROVE  ResultInv'
  BY <1>13 DEF Drop
<1>14. ASSUME NEW v \in Visits, Endpoint(v)
       PROVE  ResultInv'
  <2>1. UNCHANGED <<place, visit, quiet, result>>
    BY <1>14 DEF Endpoint, OnMessage, Report, Fails, WriteToFile, SayTime, SayFinish,
                 StoreHeader, StoreDataSet, sendText
  <2>2. onMessage[v] # "stored" /\ \A w \in Visits \ {v} : onMessage'[w] = onMessage[w]
    BY <1>14 DEF Endpoint, OnMessage, Report, Fails, WriteToFile, SayTime, SayFinish,
                 FinishedAt, StoreHeader, StoreDataSet, sendText
  <2>3. QED
    BY <2>1, <2>2
<1>15. CASE UNCHANGED vars
  BY <1>15 DEF vars
<1>16. QED
  BY <1>1, <1>2, <1>3, <1>4, <1>5, <1>6, <1>7, <1>8, <1>9, <1>10, <1>11, <1>12, <1>13,
     <1>14, <1>15
  DEF Next, Browser, Terminating

-----------------------------------------------------------------------------
LEMMA Invariance == Spec => []IInv
<1>1. IInv /\ [Next]_vars => IInv'
  BY TypeOKStep, PlaceInvStep, OthersInvStep, UnsentInvStep, SentInvStep, StoredInvStep,
     ResultInvStep DEF IInv
<1>2. QED
  BY IInvInit, <1>1, PTL DEF Spec

(* Every variable has its type in any number of visits.                     *)
THEOREM TypeCorrect == Spec => []TypeOK
<1>1. IInv => TypeOK
  BY DEF IInv
<1>2. QED
  BY <1>1, Invariance, PTL

(* In any number of visits, whatever is late, lost or left behind, the     *)
(* button of the page appears only when the whole report of this visit has *)
(* been shown, and its file is the one to be downloaded (scripts2.js 38-80). *)
THEOREM ButtonMeansFinishedHolds == Spec => []ButtonMeansFinished
<1>1. IInv => ButtonMeansFinished
  <2> SUFFICES ASSUME IInv, viewResult
               PROVE  /\ shown = WholeRun
                      /\ onMessage[visit] \in {"said", "header", "stored", "failed"}
                      /\ quiet => cleanedFile = visit
    BY DEF ButtonMeansFinished
  <2>1. place = "clean1" /\ sent = "sent"
    BY DEF IInv, PlaceInv, NoPage, UnsentInv
  <2>2. PICK k \in 0 .. 4, n \in 0 .. 4 : Exchange(k, n)
    BY <2>1 DEF IInv, SentInv
  <2>3. k = 4 /\ n = 4
    BY <2>2 DEF Exchange
  <2>4. shown = WholeRun
    BY <2>2, <2>3, TextsWhole DEF Exchange
  <2>5. onMessage[visit] \in {"said", "header", "stored", "failed"}
    BY <2>2, <2>3 DEF Exchange, SentBy
  <2>6. QED
    BY <2>2, <2>3, <2>4, <2>5 DEF Exchange
<1>2. QED
  BY <1>1, Invariance, PTL

(* A user who asks for the result when it has been stored, and whose older  *)
(* runs were over when the page was opened, is shown the header and the    *)
(* data set of this very run (clean2.jsp reads them one after the other).   *)
THEOREM SoleRunShownHolds == Spec => []SoleRunShown
<1>1. IInv => SoleRunShown
  BY DEF IInv, ResultInv, SoleRunShown
<1>2. QED
  BY <1>1, Invariance, PTL

-----------------------------------------------------------------------------
(* The dialog.                                                             *)
(*                                                                         *)
(* What can wait for the end of a transition, and a dialog with its page.   *)
Waiting ==
  [on : {"element", "dialog", "backdrop"} \X Nat,
   do : {"show", "shown", "hide", "remove", "reset"}]

Dialogs ==
  [isShown : BOOLEAN, displayed : BOOLEAN, in : BOOLEAN, open : BOOLEAN, pad : Nat,
   originalBodyPad : Nat, backdrop : Nat, backdrops : SUBSET Nat, dismiss : Nat,
   outside : Nat, mousedown : Nat, mouseup : Nat, keydown : Nat, resize : Nat,
   focusin : Nat, ignoreBackdropClick : BOOLEAN, bound : Seq(Waiting), hides : Nat,
   hidden : Nat]

AwaitsEnd(on, do) == [on |-> on, do |-> do]
TheBackdrop == <<"backdrop", 1>>

HasBackdrop(m) ==
  IF option # "false" THEN m.backdrop = 1 /\ m.backdrops = {1} ELSE m.backdrop = 0 /\ m.backdrops = {}

Listens(m, n) == m.dismiss = n /\ m.keydown = n /\ m.resize = n

(* A dialog that has gone, though it may still slide in.                    *)
IsClosed(m) ==
  /\ ~ m.isShown /\ ~ m.displayed /\ ~ m.open
  /\ m.backdrop = 0 /\ m.backdrops = {}
  /\ m.originalBodyPad \in {0, 1} /\ m.pad = m.originalBodyPad
  /\ Listens(m, 0) /\ m.outside = 0
  /\ m.hidden = m.hides
  /\ m.bound \in {<<>>, <<AwaitsEnd(Dialog, "shown")>>}

(* One that is there, with its page, or will be.                            *)
HoldsPage(m) ==
  /\ m.open /\ HasBackdrop(m)
  /\ m.originalBodyPad \in {0, 1} /\ m.pad = m.originalBodyPad + 1

IsComing(m) ==
  /\ m.isShown /\ HoldsPage(m) /\ Listens(m, 1) /\ (m.bound # <<>> => fade)
  /\ m.outside = IF option # "false" THEN 1 ELSE 0
  /\ m.hidden = m.hides
  /\ \/ m.displayed /\ m.in /\ m.focusin = 1 /\ m.bound \in {<<>>, <<AwaitsEnd(Dialog, "shown")>>}
     \/ option # "false" /\ m.bound = <<AwaitsEnd(TheBackdrop, "show")>>

(* One that was hidden, maybe while it was still coming.                    *)
IsGoing(m) ==
  /\ ~ m.isShown /\ HoldsPage(m) /\ Listens(m, 0) /\ m.outside = 0
  /\ m.hides = m.hidden + 1 /\ fade
  /\ \/ m.bound \in {<<AwaitsEnd(Element, "hide")>>, <<AwaitsEnd(Dialog, "shown"), AwaitsEnd(Element, "hide")>>,
                     <<AwaitsEnd(Element, "hide"), AwaitsEnd(Dialog, "shown")>>}
     \/ option # "false" /\ m.bound = <<AwaitsEnd(TheBackdrop, "show"), AwaitsEnd(Element, "hide")>>
     \/ /\ option # "false" /\ ~ m.displayed
        /\ m.bound \in {<<AwaitsEnd(TheBackdrop, "remove")>>, <<AwaitsEnd(Dialog, "shown"), AwaitsEnd(TheBackdrop, "remove")>>}

DialogOK(m) == m \in Dialogs /\ (IsClosed(m) \/ IsComing(m) \/ IsGoing(m))

DialogInv == ~ hasty => DialogOK(modal)

-----------------------------------------------------------------------------
(* Transitions that end: with at most two functions waiting, the one that   *)
(* waits for this one is done, and the other goes on waiting.               *)
LEMMA OthersOfOne ==
  ASSUME NEW a \in Waiting
  PROVE  Others(<<a>>, a.on) = <<>>
<1> DEFINE ws == <<a>>
           IsOthers(g) == g = [n \in 0 .. Len(ws) |->
             IF n = 0 THEN <<>> ELSE IF ws[n].on = a.on THEN g[n - 1] ELSE Append(g[n - 1], ws[n])]
           f == CHOOSE g : IsOthers(g)
<1>1. Others(ws, a.on) = f[Len(ws)]
  BY DEF Others
<1>2. Len(ws) = 1 /\ ws[1] = a /\ 0 .. 1 = {0, 1}
  OBVIOUS
<1>3. IsOthers([n \in 0 .. 1 |-> <<>>])
  BY <1>2
<1>4. IsOthers(f)
  BY <1>3
<1>5. f[1] = f[0] /\ f[0] = <<>>
  <2> HIDE DEF f
  <2>1. QED
    BY <1>2, <1>4
<1>6. QED
  BY <1>1, <1>2, <1>5

LEMMA OthersOfTwo ==
  ASSUME NEW a \in Waiting, NEW b \in Waiting, a.on # b.on
  PROVE  Others(<<a, b>>, a.on) = <<b>> /\ Others(<<a, b>>, b.on) = <<a>>
<1>1. ASSUME NEW on
      PROVE  Others(<<a, b>>, on) =
               LET s == IF a.on = on THEN <<>> ELSE <<a>>
               IN  IF b.on = on THEN s ELSE Append(s, b)
  <2> DEFINE ws == <<a, b>>
             IsOthers(g) == g = [n \in 0 .. Len(ws) |->
               IF n = 0 THEN <<>> ELSE IF ws[n].on = on THEN g[n - 1] ELSE Append(g[n - 1], ws[n])]
             f == CHOOSE g : IsOthers(g)
             s1 == IF a.on = on THEN <<>> ELSE Append(<<>>, a)
             s2 == IF b.on = on THEN s1 ELSE Append(s1, b)
             h == [n \in 0 .. 2 |-> IF n = 0 THEN <<>> ELSE IF n = 1 THEN s1 ELSE s2]
  <2>1. Others(ws, on) = f[Len(ws)]
    BY DEF Others
  <2>2. Len(ws) = 2 /\ ws[1] = a /\ ws[2] = b /\ 0 .. 2 = {0, 1, 2}
    OBVIOUS
  <2>3. h[0] = <<>> /\ h[1] = s1 /\ h[2] = s2
    OBVIOUS
  <2>4. IsOthers(h)
    <3> HIDE DEF s1, s2
    <3>1. \A n \in {0, 1, 2} :
            h[n] = IF n = 0 THEN <<>> ELSE IF ws[n].on = on THEN h[n - 1] ELSE Append(h[n - 1], ws[n])
      <4>1. h[1] = IF ws[1].on = on THEN h[0] ELSE Append(h[0], ws[1])
        BY <2>2, <2>3 DEF s1
      <4>2. h[2] = IF ws[2].on = on THEN h[1] ELSE Append(h[1], ws[2])
        BY <2>2, <2>3 DEF s2
      <4> HIDE DEF h, ws
      <4>3. ASSUME NEW n \in {0, 1, 2}
            PROVE  h[n] = IF n = 0 THEN <<>> ELSE IF ws[n].on = on THEN h[n - 1]
                                                  ELSE Append(h[n - 1], ws[n])
        <5>1. CASE n = 0
          BY <2>3, <5>1
        <5>2. CASE n = 1
          <6>1. n - 1 = 0 /\ n # 0
            BY <5>2
          <6>2. QED
            BY <4>1, <5>2, <6>1
        <5>3. CASE n = 2
          <6>1. n - 1 = 1 /\ n # 0
            BY <5>3
          <6>2. QED
            BY <4>2, <5>3, <6>1
        <5>4. QED
          BY <5>1, <5>2, <5>3
      <4>4. QED
        BY <4>3
    <3>2. QED
      BY <2>2, <3>1
  <2>5. IsOthers(f)
    BY <2>4
  <2>6. f[0] = <<>> /\ f[1] = s1 /\ f[2] = s2
    <3> HIDE DEF f, s1, s2
    <3>1. \A n \in {0, 1, 2} :
            f[n] = IF n = 0 THEN <<>> ELSE IF ws[n].on = on THEN f[n - 1] ELSE Append(f[n - 1], ws[n])
      BY <2>2, <2>5
    <3> HIDE DEF IsOthers
    <3>2. f[0] = <<>>
      BY <3>1
    <3>3. f[1] = s1
      <4>1. f[1] = IF ws[1].on = on THEN f[0] ELSE Append(f[0], ws[1])
        <5> HIDE DEF ws
        <5>1. 1 \in {0, 1, 2} /\ 1 # 0 /\ 1 - 1 = 0
          OBVIOUS
        <5>2. QED
          BY <3>1, <5>1
      <4>2. QED
        BY <2>2, <3>2, <4>1 DEF s1
    <3>4. f[2] = s2
      <4>1. f[2] = IF ws[2].on = on THEN f[1] ELSE Append(f[1], ws[2])
        <5> HIDE DEF ws
        <5>1. 2 \in {0, 1, 2} /\ 2 # 0 /\ 2 - 1 = 1
          OBVIOUS
        <5>2. QED
          BY <3>1, <5>1
      <4>2. QED
        BY <2>2, <3>3, <4>1 DEF s2
    <3>5. QED
      BY <3>2, <3>3, <3>4
  <2>7. Append(<<>>, a) = <<a>>
    OBVIOUS
  <2>8. QED
    BY <2>1, <2>2, <2>6, <2>7
<1>2. Append(<<>>, b) = <<b>>
  OBVIOUS
<1>3. QED
  BY <1>1, <1>2

LEMMA DoneOne ==
  ASSUME NEW m, NEW a \in Waiting, m.bound = <<a>>
  PROVE  Done(m, a.on) = Do([m EXCEPT !.bound = <<>>], a)
<1> DEFINE base == [m EXCEPT !.bound = Others(m.bound, a.on)]
           IsDone(g) == g = [n \in 0 .. Len(m.bound) |->
             IF n = 0 THEN base ELSE IF m.bound[n].on = a.on THEN Do(g[n - 1], m.bound[n]) ELSE g[n - 1]]
           f == CHOOSE g : IsDone(g)
<1>1. Done(m, a.on) = f[Len(m.bound)]
  BY DEF Done
<1>2. Len(m.bound) = 1 /\ m.bound[1] = a /\ 0 .. 1 = {0, 1}
  OBVIOUS
<1> HIDE DEF base
<1>3. IsDone([n \in 0 .. 1 |-> IF n = 0 THEN base ELSE Do(base, a)])
  BY <1>2
<1>4. IsDone(f)
  BY <1>3
<1>5. f[1] = Do(f[0], a) /\ f[0] = base
  <2> HIDE DEF f
  <2>1. QED
    BY <1>2, <1>4
<1>6. base = [m EXCEPT !.bound = <<>>]
  BY OthersOfOne DEF base
<1>7. QED
  BY <1>1, <1>2, <1>5, <1>6

LEMMA DoneTwo ==
  ASSUME NEW m, NEW a \in Waiting, NEW b \in Waiting, a.on # b.on, m.bound = <<a, b>>
  PROVE  /\ Done(m, a.on) = Do([m EXCEPT !.bound = <<b>>], a)
         /\ Done(m, b.on) = Do([m EXCEPT !.bound = <<a>>], b)
<1>1. ASSUME NEW on, on \in {a.on, b.on}
      PROVE  LET base == [m EXCEPT !.bound = Others(m.bound, on)]
             IN  Done(m, on) = IF a.on = on THEN Do(base, a) ELSE Do(base, b)
  <2> DEFINE base == [m EXCEPT !.bound = Others(m.bound, on)]
             IsDone(g) == g = [n \in 0 .. Len(m.bound) |->
               IF n = 0 THEN base ELSE IF m.bound[n].on = on THEN Do(g[n - 1], m.bound[n]) ELSE g[n - 1]]
             f == CHOOSE g : IsDone(g)
             s1 == IF a.on = on THEN Do(base, a) ELSE base
             s2 == IF b.on = on THEN Do(s1, b) ELSE s1
             h == [n \in 0 .. 2 |-> IF n = 0 THEN base ELSE IF n = 1 THEN s1 ELSE s2]
  <2>1. Done(m, on) = f[Len(m.bound)]
    BY DEF Done
  <2>2. Len(m.bound) = 2 /\ m.bound[1] = a /\ m.bound[2] = b /\ 0 .. 2 = {0, 1, 2}
    OBVIOUS
  <2> HIDE DEF base
  <2>3. h[0] = base /\ h[1] = s1 /\ h[2] = s2
    OBVIOUS
  <2>4. IsDone(h)
    <3>1. \A n \in {0, 1, 2} :
            h[n] = IF n = 0 THEN base ELSE IF m.bound[n].on = on THEN Do(h[n - 1], m.bound[n]) ELSE h[n - 1]
      <4> HIDE DEF h
      <4>1. QED
        BY <2>2, <2>3 
    <3> HIDE DEF s1, s2
    <3>2. QED
      BY <2>2, <3>1
  <2>5. IsDone(f)
    BY <2>4
  <2>6. f[2] = s2
    <3> HIDE DEF f
    <3>1. QED
      BY <2>2, <2>5
  <2>7. s2 = IF a.on = on THEN Do(base, a) ELSE Do(base, b)
    BY <1>1
  <2>8. QED
    BY <2>1, <2>2, <2>6, <2>7 DEF base
<1>2. QED
  BY <1>1, OthersOfTwo

-----------------------------------------------------------------------------
LEMMA WaitingHas ==
  ASSUME NEW do \in {"show", "shown", "hide", "remove", "reset"}
  PROVE  AwaitsEnd(Element, do) \in Waiting /\ AwaitsEnd(Dialog, do) \in Waiting /\ AwaitsEnd(TheBackdrop, do) \in Waiting
BY DEF Waiting, AwaitsEnd, Element, Dialog, TheBackdrop

LEMMA AppendOne ==
  /\ \A a \in Waiting : Append(<<>>, a) = <<a>>
  /\ \A a, b \in Waiting : Append(<<a>>, b) = <<a, b>>
<1>1. ASSUME NEW a \in Waiting
      PROVE  Append(<<>>, a) = <<a>>
  OBVIOUS
<1>2. ASSUME NEW a \in Waiting, NEW b \in Waiting
      PROVE  Append(<<a>>, b) = <<a, b>>
  <2>1. <<a>> \in Seq(Waiting) /\ Len(<<a>>) = 1 /\ <<a>>[1] = a
    OBVIOUS
  <2>2. <<a, b>> \in Seq(Waiting) /\ Len(<<a, b>>) = 2 /\ <<a, b>>[1] = a /\ <<a, b>>[2] = b
    OBVIOUS
  <2> DEFINE s == Append(<<a>>, b)
  <2>3. s \in Seq(Waiting) /\ Len(s) = 2 /\ s[1] = a /\ s[2] = b
    BY <2>1, AppendProperties
  <2> HIDE DEF s
  <2>4. \A i \in 1 .. 2 : s[i] = <<a, b>>[i]
    BY <2>2, <2>3
  <2>5. s = <<a, b>>
    BY <2>2, <2>3, <2>4, SeqEqual
  <2>6. QED
    BY <2>5 DEF s
<1>3. QED
  BY <1>1, <1>2

(* What the dialog's functions make of it.                                  *)
SameEars(m, n) == m.dismiss = n.dismiss /\ m.keydown = n.keydown /\ m.resize = n.resize /\ m.outside = n.outside
SamePage(m, n) == m.open = n.open /\ m.pad = n.pad /\ m.originalBodyPad = n.originalBodyPad
SameBackdrop(m, n) == m.backdrop = n.backdrop /\ m.backdrops = n.backdrops
SameCount(m, n) == m.hides = n.hides /\ m.hidden = n.hidden /\ m.isShown = n.isShown

LEMMA ShowElementIs ==
  ASSUME NEW m \in Dialogs
  PROVE  LET s == ShowElement(m)
         IN  /\ s \in Dialogs /\ s.displayed /\ s.in /\ s.focusin = 1
             /\ s.bound = IF fade THEN Append(m.bound, AwaitsEnd(Dialog, "shown")) ELSE m.bound
             /\ SameEars(s, m) /\ SamePage(s, m) /\ SameBackdrop(s, m) /\ SameCount(s, m)
<1> DEFINE w == AwaitsEnd(Dialog, "shown")
           d == [m EXCEPT !.displayed = TRUE, !.in = TRUE]
           e == [d EXCEPT !.focusin = 1]
           q == Append(e.bound, w)
           t == [e EXCEPT !.bound = q]
<1>1. w \in Waiting
  BY DEF Waiting, Dialog, AwaitsEnd
<1> HIDE DEF w
<1>2. /\ d \in Dialogs /\ d.displayed /\ d.in /\ d.bound = m.bound
      /\ SameEars(d, m) /\ SamePage(d, m) /\ SameBackdrop(d, m) /\ SameCount(d, m)
  BY DEF Dialogs, SameEars, SamePage, SameBackdrop, SameCount
<1> HIDE DEF d
<1>3. /\ e \in Dialogs /\ e.displayed /\ e.in /\ e.bound = d.bound /\ e.focusin = 1
      /\ SameEars(e, d) /\ SamePage(e, d) /\ SameBackdrop(e, d) /\ SameCount(e, d)
  BY <1>2 DEF Dialogs, SameEars, SamePage, SameBackdrop, SameCount
<1> HIDE DEF e
<1>4. /\ t \in Dialogs /\ t.displayed /\ t.in /\ t.bound = q /\ t.focusin = 1
      /\ SameEars(t, e) /\ SamePage(t, e) /\ SameBackdrop(t, e) /\ SameCount(t, e)
  <2>1. q \in Seq(Waiting)
    <3>1. e.bound \in Seq(Waiting)
      BY <1>3 DEF Dialogs
    <3>2. QED
      BY <1>1, <3>1
  <2> HIDE DEF q
  <2>2. QED
    BY <1>3, <2>1 DEF Dialogs, SameEars, SamePage, SameBackdrop, SameCount
<1> HIDE DEF t
<1>5. ShowElement(m) = IF fade THEN t ELSE e
  BY DEF ShowElement, enforceFocus, Waits, d, e, t, w, AwaitsEnd
<1>6. QED
  BY <1>2, <1>3, <1>4, <1>5 DEF w, SameEars, SamePage, SameBackdrop, SameCount

LEMMA ResetPageIs ==
  ASSUME NEW m \in Dialogs
  PROVE  LET s == ResetPage(m)
         IN  /\ s \in Dialogs /\ ~ s.open /\ s.pad = m.originalBodyPad /\ s.hidden = m.hidden + 1
             /\ s.originalBodyPad = m.originalBodyPad
             /\ SameEars(s, m) /\ SameBackdrop(s, m) /\ s.displayed = m.displayed /\ s.bound = m.bound
             /\ s.hides = m.hides /\ s.isShown = m.isShown
<1>1. m.originalBodyPad \in Nat /\ m.hidden + 1 \in Nat
  BY DEF Dialogs
<1>2. ResetPage(m) \in Dialogs
  BY <1>1 DEF ResetPage, Dialogs
<1>3. QED
  BY <1>2 DEF ResetPage, Dialogs, SameEars, SameBackdrop

LEMMA RemoveBackdropIs ==
  ASSUME NEW m \in Dialogs
  PROVE  LET s == removeBackdrop(m)
         IN  /\ s \in Dialogs /\ s.backdrop = 0 /\ s.backdrops = m.backdrops \ {m.backdrop}
             /\ SameEars(s, m) /\ SamePage(s, m) /\ SameCount(s, m) /\ s.displayed = m.displayed
             /\ s.bound = m.bound
BY DEF removeBackdrop, Dialogs, SameEars, SamePage, SameCount

LEMMA WaitsIs ==
  ASSUME NEW m \in Dialogs, NEW on \in {"element", "dialog", "backdrop"} \X Nat,
         NEW do \in {"show", "shown", "hide", "remove", "reset"}
  PROVE  LET s == Waits(m, on, do)
         IN  /\ s \in Dialogs /\ s.bound = Append(m.bound, AwaitsEnd(on, do))
             /\ s.displayed = m.displayed /\ s.in = m.in /\ s.focusin = m.focusin
             /\ SameEars(s, m) /\ SamePage(s, m) /\ SameBackdrop(s, m) /\ SameCount(s, m)
<1> DEFINE w == AwaitsEnd(on, do)
           q == Append(m.bound, w)
           t == [m EXCEPT !.bound = q]
<1>1. q \in Seq(Waiting)
  <2>1. w \in Waiting
    BY DEF Waiting, AwaitsEnd
  <2> HIDE DEF w
  <2>2. m.bound \in Seq(Waiting)
    BY DEF Dialogs
  <2>3. QED
    BY <2>1, <2>2
<1>2. Waits(m, on, do) = t
  BY DEF Waits, AwaitsEnd
<1> HIDE DEF q
<1>3. /\ t \in Dialogs /\ t.bound = q
      /\ t.displayed = m.displayed /\ t.in = m.in /\ t.focusin = m.focusin
      /\ SameEars(t, m) /\ SamePage(t, m) /\ SameBackdrop(t, m) /\ SameCount(t, m)
  BY <1>1 DEF Dialogs, SameEars, SamePage, SameBackdrop, SameCount
<1>4. QED
  BY <1>2, <1>3 DEF q

(* The page without the dialog.                                             *)
HasLeft(s, m) ==
  /\ ~ s.isShown /\ ~ s.displayed /\ ~ s.open /\ s.backdrop = 0 /\ s.backdrops = {}
  /\ s.originalBodyPad \in {0, 1} /\ s.pad = s.originalBodyPad
  /\ Listens(s, 0) /\ s.outside = 0 /\ s.hides = m.hides /\ s.hidden = m.hidden + 1
  /\ s.bound = m.bound

LEMMA RemovedIs ==
  ASSUME NEW m \in Dialogs, ~ m.isShown, ~ m.displayed, HoldsPage(m), Listens(m, 0), m.outside = 0
  PROVE  LET s == ResetPage(removeBackdrop(m)) IN s \in Dialogs /\ HasLeft(s, m)
<1> DEFINE r == removeBackdrop(m)
           s == ResetPage(r)
<1>1. /\ r \in Dialogs /\ r.backdrop = 0 /\ r.backdrops = m.backdrops \ {m.backdrop}
      /\ SameEars(r, m) /\ SamePage(r, m) /\ SameCount(r, m) /\ r.displayed = m.displayed
      /\ r.bound = m.bound
  BY RemoveBackdropIs
<1> HIDE DEF r
<1>2. /\ s \in Dialogs /\ ~ s.open /\ s.pad = r.originalBodyPad /\ s.hidden = r.hidden + 1
      /\ s.originalBodyPad = r.originalBodyPad
      /\ SameEars(s, r) /\ SameBackdrop(s, r) /\ s.displayed = r.displayed /\ s.bound = r.bound
      /\ s.hides = r.hides /\ s.isShown = r.isShown
  BY <1>1, ResetPageIs
<1> HIDE DEF s
<1>3. m.backdrops \ {m.backdrop} = {}
  BY DEF HoldsPage, HasBackdrop
<1>4. HasLeft(s, m)
  BY <1>1, <1>2, <1>3 DEF HasLeft, SameEars, SamePage, SameBackdrop, SameCount, HoldsPage, Listens
<1>5. QED
  BY <1>2, <1>4 DEF s, r

LEMMA HideModalIs ==
  ASSUME NEW m \in Dialogs, ~ m.isShown, HoldsPage(m), Listens(m, 0), m.outside = 0
  PROVE  LET s == hideModal(m)
         IN  /\ s \in Dialogs
             /\ IF option # "false" /\ fade
                THEN /\ ~ s.isShown /\ ~ s.displayed /\ HoldsPage(s) /\ Listens(s, 0) /\ s.outside = 0
                     /\ s.hides = m.hides /\ s.hidden = m.hidden
                     /\ s.bound = Append(m.bound, AwaitsEnd(TheBackdrop, "remove"))
                ELSE HasLeft(s, m)
<1> DEFINE d == [m EXCEPT !.displayed = FALSE]
<1>1. /\ d \in Dialogs /\ ~ d.displayed /\ d.bound = m.bound
      /\ SameEars(d, m) /\ SamePage(d, m) /\ SameBackdrop(d, m) /\ SameCount(d, m)
  BY DEF Dialogs, SameEars, SamePage, SameBackdrop, SameCount
<1> HIDE DEF d
<1>2. hideModal(m) = backdrop(d, "reset")
  BY DEF hideModal, d
<1>3. ~ d.isShown /\ HoldsPage(d) /\ Listens(d, 0) /\ d.outside = 0 /\ d.hides = m.hides /\ d.hidden = m.hidden
  BY <1>1 DEF SameEars, SamePage, SameBackdrop, SameCount, HoldsPage, HasBackdrop, Listens
<1>4. CASE option = "false"
  <2>1. d.backdrop = 0 /\ d.backdrops = {}
    BY <1>3, <1>4 DEF HoldsPage, HasBackdrop
  <2>2. backdrop(d, "reset") = ResetPage(d)
    BY <1>3, <2>1 DEF backdrop
  <2> DEFINE s == ResetPage(d)
  <2>3. /\ s \in Dialogs /\ ~ s.open /\ s.pad = d.originalBodyPad /\ s.hidden = d.hidden + 1
        /\ s.originalBodyPad = d.originalBodyPad
        /\ SameEars(s, d) /\ SameBackdrop(s, d) /\ s.displayed = d.displayed /\ s.bound = d.bound
        /\ s.hides = d.hides /\ s.isShown = d.isShown
    BY <1>1, ResetPageIs
  <2> HIDE DEF s
  <2>4. HasLeft(s, m)
    BY <1>1, <1>3, <2>1, <2>3 DEF HasLeft, SameEars, SameBackdrop, HoldsPage, Listens
  <2>5. QED
    BY <1>2, <1>4, <2>2, <2>3, <2>4 DEF s
<1>5. CASE option # "false" /\ ~ fade
  <2>1. d.backdrop # 0
    BY <1>3, <1>5 DEF HoldsPage, HasBackdrop
  <2>2. backdrop(d, "reset") = ResetPage(removeBackdrop(d))
    BY <1>3, <1>5, <2>1 DEF backdrop
  <2> DEFINE s == ResetPage(removeBackdrop(d))
  <2>3. s \in Dialogs /\ HasLeft(s, d)
    BY <1>1, <1>3, RemovedIs
  <2> HIDE DEF s
  <2>4. HasLeft(s, m)
    BY <1>1, <1>3, <2>3 DEF HasLeft
  <2>5. QED
    BY <1>2, <1>5, <2>2, <2>3, <2>4 DEF s
<1>6. CASE option # "false" /\ fade
  <2>1. d.backdrop = 1
    BY <1>3, <1>6 DEF HoldsPage, HasBackdrop
  <2>2. backdrop(d, "reset") = Waits(d, TheBackdrop, "remove")
    BY <1>3, <1>6, <2>1 DEF backdrop, TheBackdrop
  <2> DEFINE s == Waits(d, TheBackdrop, "remove")
  <2>3. TheBackdrop \in {"element", "dialog", "backdrop"} \X Nat
    BY DEF TheBackdrop
  <2>4. /\ s \in Dialogs /\ s.bound = Append(d.bound, AwaitsEnd(TheBackdrop, "remove"))
        /\ s.displayed = d.displayed /\ s.in = d.in /\ s.focusin = d.focusin
        /\ SameEars(s, d) /\ SamePage(s, d) /\ SameBackdrop(s, d) /\ SameCount(s, d)
    BY <1>1, <2>3, WaitsIs
  <2> HIDE DEF s
  <2>5. HoldsPage(s) /\ Listens(s, 0) /\ s.outside = 0 /\ ~ s.isShown
    BY <1>3, <2>4 DEF SameEars, SamePage, SameBackdrop, SameCount, HoldsPage, HasBackdrop, Listens
  <2>6. s.hides = m.hides /\ s.hidden = m.hidden
    BY <1>3, <2>4 DEF SameCount
  <2>7. QED
    BY <1>1, <1>2, <1>6, <2>2, <2>4, <2>5, <2>6 DEF s
<1>7. QED
  BY <1>4, <1>5, <1>6

(* The element is shown: it is there, or slides in.                         *)
LEMMA ComesIn ==
  ASSUME NEW m \in Dialogs, m.bound = <<>>, m.isShown, HoldsPage(m), Listens(m, 1), m.hidden = m.hides,
         m.outside = IF option # "false" THEN 1 ELSE 0
  PROVE  ShowElement(m) \in Dialogs /\ IsComing(ShowElement(m))
<1> DEFINE s == ShowElement(m)
<1>1. /\ s \in Dialogs /\ s.displayed /\ s.in /\ s.focusin = 1
      /\ s.bound = IF fade THEN Append(m.bound, AwaitsEnd(Dialog, "shown")) ELSE m.bound
      /\ SameEars(s, m) /\ SamePage(s, m) /\ SameBackdrop(s, m) /\ SameCount(s, m)
  BY ShowElementIs
<1> HIDE DEF s
<1>2. s.bound \in {<<>>, <<AwaitsEnd(Dialog, "shown")>>}
  BY <1>1
<1>3. /\ s.isShown /\ HoldsPage(s) /\ Listens(s, 1) /\ s.hidden = s.hides
      /\ s.outside = IF option # "false" THEN 1 ELSE 0
  BY <1>1 DEF SameEars, SamePage, SameBackdrop, SameCount, HoldsPage, HasBackdrop, Listens
<1>4. QED
  BY <1>1, <1>2, <1>3 DEF IsComing, s

LEMMA ShownIs ==
  ASSUME NEW m \in Dialogs, IsClosed(m), m.bound = <<>>
  PROVE  Shown(m) \in Dialogs /\ IsComing(Shown(m))
<1> DEFINE p == setScrollbar(m)
           d == [p EXCEPT !.isShown = TRUE, !.open = TRUE, !.keydown = @ + 1,
                          !.resize = @ + 1, !.dismiss = @ + 1, !.mousedown = @ + 1]
           b == Next1(d)
           s == [d EXCEPT !.backdrop = b, !.backdrops = @ \cup {b}, !.outside = @ + 1]
<1>1. /\ p \in Dialogs /\ p.originalBodyPad \in {0, 1} /\ p.pad = p.originalBodyPad + 1
      /\ Listens(p, 0) /\ p.outside = 0 /\ p.backdrop = 0 /\ p.backdrops = {}
      /\ p.hidden = p.hides /\ p.bound = <<>>
  <2>1. m.pad \in Nat /\ m.pad + 1 \in Nat
    BY DEF Dialogs
  <2>2. p = [m EXCEPT !.originalBodyPad = m.pad, !.pad = m.pad + 1]
    BY DEF setScrollbar
  <2>3. p \in Dialogs
    BY <2>1, <2>2 DEF Dialogs
  <2>4. p.originalBodyPad = m.pad /\ p.pad = m.pad + 1
    BY <2>2 DEF Dialogs
  <2>5. /\ p.dismiss = m.dismiss /\ p.keydown = m.keydown /\ p.resize = m.resize
        /\ p.outside = m.outside /\ p.backdrop = m.backdrop /\ p.backdrops = m.backdrops
        /\ p.hidden = m.hidden /\ p.hides = m.hides /\ p.bound = m.bound
    BY <2>2 DEF Dialogs
  <2> HIDE DEF p
  <2>6. QED
    BY <2>3, <2>4, <2>5 DEF IsClosed, Listens
<1> HIDE DEF p
<1>2. d \in Dialogs
  <2>1. p.keydown + 1 \in Nat /\ p.resize + 1 \in Nat /\ p.dismiss + 1 \in Nat /\ p.mousedown + 1 \in Nat
    <3>1. p.keydown \in Nat /\ p.resize \in Nat /\ p.dismiss \in Nat /\ p.mousedown \in Nat
      BY <1>1 DEF Dialogs
    <3>2. QED
      BY <3>1
  <2>2. d = [p EXCEPT !.isShown = TRUE, !.open = TRUE, !.keydown = p.keydown + 1,
                      !.resize = p.resize + 1, !.dismiss = p.dismiss + 1, !.mousedown = p.mousedown + 1]
    OBVIOUS
  <2>3. QED
    BY <1>1, <2>1, <2>2 DEF Dialogs
<1>3. /\ d.isShown /\ d.open /\ d.originalBodyPad \in {0, 1} /\ d.pad = d.originalBodyPad + 1
      /\ Listens(d, 1) /\ d.outside = 0 /\ d.backdrop = 0 /\ d.backdrops = {}
      /\ d.hidden = d.hides /\ d.bound = <<>>
  BY <1>1 DEF Dialogs, Listens
<1>4. Shown(m) = backdrop(d, "show")
  BY DEF Shown, p, d
<1> HIDE DEF d
<1>5. CASE option = "false"
  <2>1. backdrop(d, "show") = ShowElement(d)
    BY <1>3, <1>5 DEF backdrop
  <2>2. HoldsPage(d)
    BY <1>3, <1>5 DEF HoldsPage, HasBackdrop
  <2>3. QED
    BY <1>2, <1>3, <1>4, <1>5, <2>1, <2>2, ComesIn
<1>6. CASE option # "false"
  <2>1. b = 1
    <3>1. Cardinality({}) = 0
      BY FS_EmptySet
    <3>2. QED
      BY <1>3, <3>1 DEF Next1
  <2> HIDE DEF b
  <2>2. s \in Dialogs /\ s.backdrop = 1 /\ s.backdrops = {1} /\ s.outside = 1 /\ s.bound = <<>>
        /\ s.dismiss = d.dismiss /\ s.keydown = d.keydown /\ s.resize = d.resize
        /\ SamePage(s, d) /\ SameCount(s, d)
    <3>1. s = [d EXCEPT !.backdrop = 1, !.backdrops = {1}, !.outside = 1]
      BY <1>2, <1>3, <2>1 DEF Dialogs
    <3> HIDE DEF s
    <3>2. s \in Dialogs
      <4>1. 1 \in Nat /\ {1} \in SUBSET Nat
        OBVIOUS
      <4>2. QED
        BY <1>2, <3>1, <4>1 DEF Dialogs
    <3>3. s.backdrop = 1 /\ s.backdrops = {1} /\ s.outside = 1
      BY <1>2, <3>1 DEF Dialogs
    <3>4. QED
      BY <1>2, <1>3, <3>1, <3>2, <3>3 DEF Dialogs, SamePage, SameCount
  <2>3. /\ s.isShown /\ HoldsPage(s) /\ Listens(s, 1) /\ s.hidden = s.hides /\ s.outside = 1
    BY <1>3, <1>6, <2>2 DEF SamePage, SameCount, HoldsPage, HasBackdrop, Listens
  <2>4. backdrop(d, "show") = IF fade THEN Waits(s, <<"backdrop", b>>, "show") ELSE ShowElement(s)
    BY <1>3, <1>6 DEF backdrop, AddBackdrop, b
  <2> HIDE DEF s
  <2>5. CASE ~ fade
    BY <1>4, <1>6, <2>2, <2>3, <2>4, <2>5, ComesIn
  <2>6. CASE fade
    <3> DEFINE t == Waits(s, TheBackdrop, "show")
    <3>1. TheBackdrop \in {"element", "dialog", "backdrop"} \X Nat
      BY DEF TheBackdrop
    <3>2. /\ t \in Dialogs /\ t.bound = Append(s.bound, AwaitsEnd(TheBackdrop, "show"))
          /\ t.displayed = s.displayed /\ t.in = s.in /\ t.focusin = s.focusin
          /\ SameEars(t, s) /\ SamePage(t, s) /\ SameBackdrop(t, s) /\ SameCount(t, s)
      BY <2>2, <3>1, WaitsIs
    <3> HIDE DEF t
    <3>3. t.bound = <<AwaitsEnd(TheBackdrop, "show")>>
      BY <2>2, <3>2
    <3>4. t.isShown /\ HoldsPage(t) /\ Listens(t, 1) /\ t.hidden = t.hides /\ t.outside = 1
      BY <2>3, <3>2 DEF SameEars, SamePage, SameBackdrop, SameCount, HoldsPage, HasBackdrop, Listens
    <3>5. Shown(m) = t
      BY <1>4, <2>1, <2>4, <2>6 DEF t, TheBackdrop
    <3>6. IsComing(t)
      BY <1>6, <2>6, <3>3, <3>4 DEF IsComing
    <3>7. QED
      BY <3>2, <3>5, <3>6
  <2>7. QED
    BY <2>5, <2>6
<1>7. QED
  BY <1>5, <1>6

LEMMA HiddenIs ==
  ASSUME NEW m \in Dialogs, IsComing(m)
  PROVE  Hidden(m) \in Dialogs /\ (IsClosed(Hidden(m)) \/ IsGoing(Hidden(m)))
<1> DEFINE u == Unbound(m)
           d == [u EXCEPT !.isShown = FALSE, !.in = FALSE, !.hides = @ + 1]
<1>1. u \in Dialogs
  BY DEF Unbound, Dialogs
<1>2. /\ Listens(u, 0) /\ u.outside = 0 /\ SamePage(u, m) /\ SameBackdrop(u, m) /\ SameCount(u, m)
      /\ u.bound = m.bound
  BY DEF Unbound, Dialogs, SamePage, SameBackdrop, SameCount, Listens
<1> HIDE DEF u
<1>3. /\ d \in Dialogs /\ Listens(d, 0) /\ d.outside = 0 /\ SamePage(d, u) /\ SameBackdrop(d, u)
      /\ d.bound = u.bound /\ ~ d.isShown /\ d.hides = u.hides + 1 /\ d.hidden = u.hidden
  <2>1. u.hides + 1 \in Nat /\ d = [u EXCEPT !.isShown = FALSE, !.in = FALSE, !.hides = u.hides + 1]
    <3>1. u.hides \in Nat
      BY <1>1 DEF Dialogs
    <3>2. QED
      BY <3>1
  <2>2. d \in Dialogs
    BY <1>1, <2>1 DEF Dialogs
  <2>3. ~ d.isShown /\ d.hides = u.hides + 1 /\ d.hidden = u.hidden /\ d.bound = u.bound
    BY <1>1, <2>1 DEF Dialogs
  <2>4. Listens(d, 0) /\ d.outside = 0
    BY <1>1, <1>2, <2>1 DEF Dialogs, Listens
  <2>5. SamePage(d, u) /\ SameBackdrop(d, u)
    BY <1>1, <2>1 DEF Dialogs, SamePage, SameBackdrop
  <2>6. QED
    BY <2>2, <2>3, <2>4, <2>5
<1>4. Hidden(m) = IF fade THEN Waits(d, Element, "hide") ELSE hideModal(d)
  BY DEF Hidden, d, u
<1> HIDE DEF d
<1>5. HoldsPage(d) /\ d.hides = d.hidden + 1 /\ d.bound = m.bound
  BY <1>2, <1>3 DEF IsComing, HoldsPage, HasBackdrop, SamePage, SameBackdrop, SameCount
<1>6. CASE fade
  <2> DEFINE t == Waits(d, Element, "hide")
             e == AwaitsEnd(Element, "hide")
  <2>1. Element \in {"element", "dialog", "backdrop"} \X Nat
    BY DEF Element
  <2>2. /\ t \in Dialogs /\ t.bound = Append(d.bound, e)
        /\ t.displayed = d.displayed /\ t.in = d.in /\ t.focusin = d.focusin
        /\ SameEars(t, d) /\ SamePage(t, d) /\ SameBackdrop(t, d) /\ SameCount(t, d)
    BY <1>3, <2>1, WaitsIs
  <2> HIDE DEF t
  <2>3. ~ t.isShown /\ HoldsPage(t) /\ Listens(t, 0) /\ t.outside = 0 /\ t.hides = t.hidden + 1
    BY <1>3, <1>5, <2>2 DEF SameEars, SamePage, SameBackdrop, SameCount, HoldsPage, HasBackdrop, Listens
  <2>4. \/ t.bound = <<e>> \/ t.bound = <<AwaitsEnd(Dialog, "shown"), e>>
        \/ option # "false" /\ t.bound = <<AwaitsEnd(TheBackdrop, "show"), e>>
    <3> HIDE DEF e
    <3>1. \/ m.bound = <<>> \/ m.bound = <<AwaitsEnd(Dialog, "shown")>>
          \/ option # "false" /\ m.bound = <<AwaitsEnd(TheBackdrop, "show")>>
      BY DEF IsComing
    <3>2. /\ Append(<<>>, e) = <<e>>
          /\ Append(<<AwaitsEnd(Dialog, "shown")>>, e) = <<AwaitsEnd(Dialog, "shown"), e>>
          /\ Append(<<AwaitsEnd(TheBackdrop, "show")>>, e) = <<AwaitsEnd(TheBackdrop, "show"), e>>
      BY AppendOne, WaitingHas DEF e
    <3>3. QED
      BY <1>5, <2>2, <3>1, <3>2
  <2>5. IsGoing(t)
    BY <1>6, <2>3, <2>4 DEF IsGoing
  <2>6. QED
    BY <1>4, <1>6, <2>2, <2>5 DEF t
<1>7. CASE ~ fade
  <2> DEFINE t == hideModal(d)
  <2>1. t \in Dialogs /\ HasLeft(t, d)
    BY <1>3, <1>5, <1>7, HideModalIs
  <2> HIDE DEF t
  <2>2. IsClosed(t)
    <3>1. t.bound = m.bound /\ m.bound = <<>>
      BY <1>5, <1>7, <2>1 DEF HasLeft, IsComing
    <3>2. QED
      BY <1>5, <2>1, <3>1 DEF HasLeft, IsClosed
  <2>3. QED
    BY <1>4, <1>7, <2>1, <2>2 DEF t
<1>8. QED
  BY <1>6, <1>7

(* The dialog and its page without the list of what waits.                  *)
LEMMA BoundOnly ==
  ASSUME NEW m \in Dialogs, NEW q \in Seq(Waiting)
  PROVE  LET s == [m EXCEPT !.bound = q]
         IN  /\ s \in Dialogs /\ s.bound = q
             /\ s.displayed = m.displayed /\ s.in = m.in /\ s.focusin = m.focusin
             /\ SameEars(s, m) /\ SamePage(s, m) /\ SameBackdrop(s, m) /\ SameCount(s, m)
BY DEF Dialogs, SameEars, SamePage, SameBackdrop, SameCount

(* A transition ends while the dialog comes.                                *)
LEMMA EndsComing ==
  ASSUME NEW m \in Dialogs, IsComing(m), NEW i \in 1 .. Len(m.bound)
  PROVE  LET s == Done(m, m.bound[i].on) IN s \in Dialogs /\ IsComing(s)
<1> DEFINE on == m.bound[i].on
           r == [m EXCEPT !.bound = <<>>]
<1>1. /\ r \in Dialogs /\ r.bound = <<>>
      /\ r.displayed = m.displayed /\ r.in = m.in /\ r.focusin = m.focusin
      /\ SameEars(r, m) /\ SamePage(r, m) /\ SameBackdrop(r, m) /\ SameCount(r, m)
  <2>1. <<>> \in Seq(Waiting)
    OBVIOUS
  <2>2. QED
    BY <2>1, BoundOnly
<1>2. /\ r.isShown /\ HoldsPage(r) /\ Listens(r, 1) /\ r.hidden = r.hides
      /\ r.outside = IF option # "false" THEN 1 ELSE 0
  BY <1>1 DEF IsComing, SameEars, SamePage, SameBackdrop, SameCount, HoldsPage, HasBackdrop, Listens
<1>3. PICK a \in {AwaitsEnd(Dialog, "shown"), AwaitsEnd(TheBackdrop, "show")} :
        m.bound = <<a>> /\ (a = AwaitsEnd(Dialog, "shown") => m.displayed /\ m.in /\ m.focusin = 1)
  <2>1. m.bound # <<>>
    OBVIOUS
  <2>2. CASE m.bound = <<AwaitsEnd(Dialog, "shown")>>
    <3>1. m.displayed /\ m.in /\ m.focusin = 1
      <4>1. AwaitsEnd(Dialog, "shown") # AwaitsEnd(TheBackdrop, "show")
        BY DEF AwaitsEnd
      <4>2. <<AwaitsEnd(Dialog, "shown")>>[1] # <<AwaitsEnd(TheBackdrop, "show")>>[1]
        BY <4>1
      <4>3. QED
        BY <2>2, <4>2 DEF IsComing
    <3>2. QED
      BY <2>2, <3>1
  <2>3. CASE m.bound = <<AwaitsEnd(TheBackdrop, "show")>>
    <3>1. AwaitsEnd(Dialog, "shown") # AwaitsEnd(TheBackdrop, "show")
      BY DEF AwaitsEnd
    <3>2. QED
      BY <2>3, <3>1
  <2>4. QED
    BY <2>1, <2>2, <2>3 DEF IsComing
<1>4. a \in Waiting
  BY WaitingHas
<1>5. on = a.on
  <2>1. i = 1 /\ m.bound[1] = a
    BY <1>3
  <2>2. QED
    BY <2>1
<1>6. Done(m, on) = Do(r, a)
  BY <1>3, <1>4, <1>5, DoneOne
<1>7. CASE a = AwaitsEnd(Dialog, "shown")
  <2>1. Do(r, a) = r
    BY <1>7 DEF Do, AwaitsEnd
  <2>2. IsComing(r)
    BY <1>1, <1>2, <1>3, <1>7 DEF IsComing
  <2>3. QED
    BY <1>1, <1>6, <2>1, <2>2
<1>8. CASE a = AwaitsEnd(TheBackdrop, "show")
  <2>1. Do(r, a) = ShowElement(r)
    BY <1>8 DEF Do, AwaitsEnd
  <2>2. QED
    BY <1>1, <1>2, <1>6, <2>1, ComesIn
<1>9. QED
  BY <1>3, <1>7, <1>8

(* One ends while it goes: the element is hidden, or the backdrop removed.  *)
LEMMA HidesElement ==
  ASSUME NEW m \in Dialogs, ~ m.isShown, HoldsPage(m), Listens(m, 0), m.outside = 0,
         m.hides = m.hidden + 1, fade,
         m.bound \in {<<>>, <<AwaitsEnd(Dialog, "shown")>>}
  PROVE  hideModal(m) \in Dialogs /\ (IsClosed(hideModal(m)) \/ IsGoing(hideModal(m)))
<1> DEFINE s == hideModal(m)
           w == AwaitsEnd(TheBackdrop, "remove")
<1>1. /\ s \in Dialogs
      /\ IF option # "false" /\ fade
         THEN /\ ~ s.isShown /\ ~ s.displayed /\ HoldsPage(s) /\ Listens(s, 0) /\ s.outside = 0
              /\ s.hides = m.hides /\ s.hidden = m.hidden
              /\ s.bound = Append(m.bound, w)
         ELSE HasLeft(s, m)
  BY HideModalIs
<1> HIDE DEF s
<1>2. CASE option # "false"
  <2>1. s.bound \in {<<w>>, <<AwaitsEnd(Dialog, "shown"), w>>}
    <3>1. w \in Waiting /\ AwaitsEnd(Dialog, "shown") \in Waiting
      BY WaitingHas
    <3> HIDE DEF w
    <3>2. QED
      BY <1>1, <1>2, <3>1, AppendOne
  <2>2. IsGoing(s)
    BY <1>1, <1>2, <2>1 DEF IsGoing
  <2>3. QED
    BY <1>1, <2>2 DEF s
<1>3. CASE option = "false"
  <2>1. IsClosed(s)
    BY <1>1, <1>3 DEF HasLeft, IsClosed
  <2>2. QED
    BY <1>1, <2>1 DEF s
<1>4. QED
  BY <1>2, <1>3

LEMMA RemovesBackdrop ==
  ASSUME NEW m \in Dialogs, ~ m.isShown, ~ m.displayed, HoldsPage(m), Listens(m, 0), m.outside = 0,
         m.hides = m.hidden + 1, m.bound \in {<<>>, <<AwaitsEnd(Dialog, "shown")>>}
  PROVE  LET s == ResetPage(removeBackdrop(m)) IN s \in Dialogs /\ IsClosed(s)
<1> DEFINE s == ResetPage(removeBackdrop(m))
<1>1. s \in Dialogs /\ HasLeft(s, m)
  BY RemovedIs
<1> HIDE DEF s
<1>2. IsClosed(s)
  BY <1>1 DEF HasLeft, IsClosed
<1>3. QED
  BY <1>1, <1>2 DEF s

LEMMA EndsClosed ==
  ASSUME NEW m \in Dialogs, IsClosed(m), NEW i \in 1 .. Len(m.bound)
  PROVE  LET s == Done(m, m.bound[i].on) IN s \in Dialogs /\ IsClosed(s)
<1> DEFINE a == AwaitsEnd(Dialog, "shown")
           r == [m EXCEPT !.bound = <<>>]
<1>1. m.bound = <<a>>
  <2>1. m.bound # <<>>
    OBVIOUS
  <2>2. QED
    BY <2>1 DEF IsClosed
<1>2. i = 1 /\ m.bound[1] = a /\ a \in Waiting
  BY <1>1, WaitingHas
<1>3. /\ r \in Dialogs /\ r.bound = <<>> /\ r.displayed = m.displayed
      /\ SameEars(r, m) /\ SamePage(r, m) /\ SameBackdrop(r, m) /\ SameCount(r, m)
  <2>1. <<>> \in Seq(Waiting)
    OBVIOUS
  <2>2. QED
    BY <2>1, BoundOnly
<1>4. Done(m, m.bound[i].on) = r
  <2>1. Done(m, a.on) = Do(r, a)
    BY <1>1, <1>2, DoneOne
  <2>2. Do(r, a) = r
    BY DEF Do, AwaitsEnd
  <2>3. QED
    BY <1>2, <2>1, <2>2
<1>5. IsClosed(r)
  BY <1>3 DEF IsClosed, SameEars, SamePage, SameBackdrop, SameCount, Listens
<1>6. QED
  BY <1>3, <1>4, <1>5

(* One ends while the dialog goes.                                          *)
IsLeaving(m) == /\ ~ m.isShown /\ HoldsPage(m) /\ Listens(m, 0) /\ m.outside = 0 /\ m.hides = m.hidden + 1

LEMMA LeavingOf ==
  ASSUME NEW m \in Dialogs, IsLeaving(m), NEW q \in Seq(Waiting)
  PROVE  LET r == [m EXCEPT !.bound = q]
         IN  r \in Dialogs /\ IsLeaving(r) /\ r.bound = q /\ r.displayed = m.displayed
<1> DEFINE r == [m EXCEPT !.bound = q]
<1>1. /\ r \in Dialogs /\ r.bound = q /\ r.displayed = m.displayed
      /\ SameEars(r, m) /\ SamePage(r, m) /\ SameBackdrop(r, m) /\ SameCount(r, m)
  BY BoundOnly
<1> HIDE DEF r
<1>2. IsLeaving(r)
  BY <1>1 DEF IsLeaving, SameEars, SamePage, SameBackdrop, SameCount, HoldsPage, HasBackdrop, Listens
<1>3. QED
  BY <1>1, <1>2 DEF r

LEMMA TransitionsDiffer ==
  /\ AwaitsEnd(Element, "hide").on = Element /\ AwaitsEnd(Dialog, "shown").on = Dialog
  /\ AwaitsEnd(TheBackdrop, "show").on = TheBackdrop /\ AwaitsEnd(TheBackdrop, "remove").on = TheBackdrop
  /\ Element # Dialog /\ Element # TheBackdrop /\ Dialog # TheBackdrop
BY DEF AwaitsEnd, Element, Dialog, TheBackdrop

LEMMA EndsGoing ==
  ASSUME NEW m \in Dialogs, m = modal, IsGoing(m), NEW i \in 1 .. Len(m.bound), InTime(m.bound[i].on)
  PROVE  DialogOK(Done(m, m.bound[i].on))
<1> DEFINE e == AwaitsEnd(Element, "hide")
           d == AwaitsEnd(Dialog, "shown")
           f == AwaitsEnd(TheBackdrop, "show")
           g == AwaitsEnd(TheBackdrop, "remove")
           on == m.bound[i].on
           With(q) == [m EXCEPT !.bound = q]
<1>1. e \in Waiting /\ d \in Waiting /\ f \in Waiting /\ g \in Waiting
  BY WaitingHas
<1>2. IsLeaving(m) /\ fade
  BY DEF IsGoing, IsLeaving
<1>3. \A q \in Seq(Waiting) :
        With(q) \in Dialogs /\ IsLeaving(With(q)) /\ With(q).bound = q /\ With(q).displayed = m.displayed
  BY <1>2, LeavingOf
<1>4. /\ e.on = Element /\ d.on = Dialog /\ f.on = TheBackdrop /\ g.on = TheBackdrop
      /\ Element # Dialog /\ Element # TheBackdrop /\ Dialog # TheBackdrop
  BY TransitionsDiffer
<1>5. \A s : /\ Do(s, e) = hideModal(s) /\ Do(s, d) = s
             /\ Do(s, f) = ShowElement(s) /\ Do(s, g) = ResetPage(removeBackdrop(s))
  BY DEF Do, AwaitsEnd
<1>6. <<>> \in Seq(Waiting) /\ <<e>> \in Seq(Waiting) /\ <<d>> \in Seq(Waiting) /\ <<g>> \in Seq(Waiting)
      /\ <<d, e>> \in Seq(Waiting)
  BY <1>1
<1> HIDE DEF e, d, f, g
<1>7. \A q \in {<<>>, <<d>>} : DialogOK(hideModal(With(q)))
  BY <1>2, <1>3, <1>6, HidesElement DEF IsLeaving, DialogOK, d
<1>8. ~ m.displayed => \A q \in {<<>>, <<d>>} : DialogOK(ResetPage(removeBackdrop(With(q))))
  BY <1>3, <1>6, RemovesBackdrop DEF IsLeaving, DialogOK, d
<1>9. \A q \in {<<e>>, <<d, e>>} : IsGoing(With(q))
  BY <1>2, <1>3, <1>6 DEF IsGoing, IsLeaving, d, e
<1>10. option # "false" /\ ~ m.displayed => IsGoing(With(<<g>>))
  BY <1>2, <1>3, <1>6 DEF IsGoing, IsLeaving, g
<1>11. ASSUME NEW a \in Waiting, m.bound = <<a>>
       PROVE  Done(m, on) = Do(With(<<>>), a)
  <2>1. i = 1 /\ on = a.on
    <3>1. i = 1 /\ m.bound[1] = a
      BY <1>11
    <3>2. QED
      BY <3>1
  <2>2. QED
    BY <1>11, <2>1, DoneOne
<1>12. ASSUME NEW a \in Waiting, NEW b \in Waiting, m.bound = <<a, b>>, a.on # b.on
       PROVE  \/ on = a.on /\ Done(m, on) = Do(With(<<b>>), a)
              \/ on = b.on /\ Done(m, on) = Do(With(<<a>>), b)
  <2>1. m.bound[1] = a /\ m.bound[2] = b /\ i \in {1, 2}
    BY <1>12
  <2>2. on = a.on \/ on = b.on
    BY <2>1
  <2>3. QED
    BY <1>12, <2>2, DoneTwo
<1>13. CASE m.bound = <<e>>
  BY <1>1, <1>5, <1>7, <1>11, <1>13
<1>14. CASE m.bound = <<g>> /\ ~ m.displayed
  BY <1>1, <1>5, <1>8, <1>11, <1>14
<1>15. CASE m.bound = <<d, e>>
  <2>1. DialogOK(With(<<e>>))
    BY <1>3, <1>6, <1>9 DEF DialogOK
  <2>2. QED
    BY <1>1, <1>4, <1>5, <1>7, <1>12, <1>15, <2>1
<1>16. CASE m.bound = <<e, d>>
  <2>1. DialogOK(With(<<e>>))
    BY <1>3, <1>6, <1>9 DEF DialogOK
  <2>2. QED
    BY <1>1, <1>4, <1>5, <1>7, <1>12, <1>16, <2>1
<1>17. CASE m.bound = <<d, g>> /\ ~ m.displayed /\ option # "false"
  <2>1. DialogOK(With(<<g>>))
    BY <1>3, <1>6, <1>10, <1>17 DEF DialogOK
  <2>2. QED
    BY <1>1, <1>4, <1>5, <1>8, <1>12, <1>17, <2>1
<1>18. CASE m.bound = <<f, e>> /\ option # "false"
  <2>1. on = TheBackdrop
    <3>1. m.bound[1] = f /\ m.bound[2] = e /\ Len(m.bound) = 2 /\ i \in {1, 2}
      BY <1>18
    <3>2. SUFFICES ASSUME on = Element
                   PROVE  FALSE
      BY <1>4, <3>1
    <3>3. ~ Long(f)
      BY <1>4 DEF Long
    <3>4. f.on = Element
      <4>1. \A j, k \in {1, 2} : j < k /\ m.bound[k].on = Element /\ (Long(m.bound[j]) => Long(m.bound[k]))
                                => m.bound[j].on = Element
        <5>1. 1 .. Len(modal.bound) = {1, 2}
          BY <3>1
        <5>2. InTime(Element)
          BY <3>2
        <5>3. QED
          BY <5>1, <5>2 DEF InTime
      <4>2. QED
        BY <1>4, <3>1, <3>3, <4>1
    <3>5. QED
      BY <1>4, <3>4
  <2>2. Done(m, on) = ShowElement(With(<<e>>))
    BY <1>1, <1>4, <1>5, <1>12, <1>18, <2>1
  <2> DEFINE r == With(<<e>>)
             s == ShowElement(r)
  <2>3. r \in Dialogs /\ IsLeaving(r) /\ r.bound = <<e>>
    BY <1>3, <1>6
  <2> HIDE DEF r
  <2>4. /\ s \in Dialogs /\ s.bound = Append(r.bound, d)
        /\ SameEars(s, r) /\ SamePage(s, r) /\ SameBackdrop(s, r) /\ SameCount(s, r)
    BY <1>2, <2>3, ShowElementIs DEF d
  <2> HIDE DEF s
  <2>5. s.bound = <<e, d>>
    BY <1>1, <2>3, <2>4, AppendOne
  <2>6. IsGoing(s)
    BY <1>2, <2>3, <2>4, <2>5 DEF IsGoing, IsLeaving, SameEars, SamePage, SameBackdrop, SameCount, HoldsPage, HasBackdrop, Listens, e, d
  <2>7. QED
    BY <2>2, <2>4, <2>6 DEF DialogOK, r, s
<1>19. QED
  BY <1>13, <1>14, <1>15, <1>16, <1>17, <1>18 DEF IsGoing, d, e, f, g

LEMMA DialogInitially == DialogInit => DialogInv
<1> SUFFICES ASSUME DialogInit
             PROVE  DialogInv
  OBVIOUS
<1>1. PICK n \in {0, 1} : modal = [ClosedDialog EXCEPT !.pad = n, !.originalBodyPad = n]
  BY DEF DialogInit
<1>2. ClosedDialog \in Dialogs
  <2>1. 0 \in Nat /\ {} \in SUBSET Nat /\ <<>> \in Seq(Waiting)
    OBVIOUS
  <2>2. QED
    BY <2>1 DEF ClosedDialog, Dialogs
<1>3. modal \in Dialogs
  <2>1. n \in Nat
    OBVIOUS
  <2>2. QED
    BY <1>1, <1>2, <2>1 DEF Dialogs
<1>4. IsClosed(modal)
  BY <1>1 DEF ClosedDialog, IsClosed, Listens
<1>5. QED
  BY <1>3, <1>4 DEF DialogInit, DialogInv, DialogOK

LEMMA DialogShow == DialogInv /\ show => DialogInv'
<1> SUFFICES ASSUME DialogInv, show, ~ hasty'
             PROVE  DialogOK(modal)'
  BY DEF DialogInv
<1>1. fade' = fade /\ option' = option
  BY DEF show, Op
<1>2. CASE Prevented
  BY <1>1, <1>2 DEF Prevented, DialogInv, DialogOK, IsClosed, IsComing, IsGoing, HoldsPage, HasBackdrop
<1>3. CASE ~ modal.isShown /\ modal' = Shown(modal) /\ hasty' = (hasty \/ modal.bound # <<>>)
  <2>1. ~ hasty /\ modal.bound = <<>> /\ DialogOK(modal)
    BY <1>3 DEF DialogInv
  <2>2. IsClosed(modal)
    BY <1>3, <2>1 DEF DialogOK, IsComing, IsGoing
  <2>3. modal' \in Dialogs /\ IsComing(modal')
    BY <1>3, <2>1, <2>2, ShownIs DEF DialogOK
  <2>4. IsComing(modal)'
    BY <1>1, <2>3 DEF IsComing, HoldsPage, HasBackdrop
  <2>5. QED
    BY <1>3, <2>1, <2>3, <2>4 DEF DialogOK, DialogInv
<1>4. QED
  BY <1>2, <1>3 DEF show

LEMMA DialogHide == DialogInv /\ hide => DialogInv'
<1> SUFFICES ASSUME DialogInv, hide
             PROVE  DialogInv'
  OBVIOUS
<1>1. fade' = fade /\ option' = option
  BY DEF hide, Op
<1>2. CASE Prevented
  BY <1>1, <1>2 DEF Prevented, DialogInv, DialogOK, IsClosed, IsComing, IsGoing, HoldsPage, HasBackdrop
<1>3. CASE modal.isShown /\ modal' = Hidden(modal) /\ UNCHANGED hasty
  <2>1. SUFFICES ASSUME ~ hasty
                 PROVE  DialogOK(modal)'
    BY <1>3 DEF DialogInv
  <2>2. modal \in Dialogs /\ IsComing(modal)
    BY <1>3, <2>1 DEF DialogInv, DialogOK, IsClosed, IsGoing
  <2>3. modal' \in Dialogs /\ (IsClosed(modal') \/ IsGoing(modal'))
    BY <1>3, <2>2, HiddenIs
  <2>4. QED
    BY <1>1, <2>3 DEF DialogOK, IsClosed, IsGoing, HoldsPage, HasBackdrop
<1>4. QED
  BY <1>2, <1>3 DEF hide

(* The mouse sets what the other functions do not look at.                  *)
LEMMA DialogMouse == DialogInv /\ (MouseDown \/ MouseUp \/ ClickOutside) => DialogInv'
<1> SUFFICES ASSUME DialogInv, MouseDown \/ MouseUp \/ ClickOutside
             PROVE  DialogInv'
  OBVIOUS
<1>1. CASE ClickOutside /\ hide
  BY <1>1, DialogHide
<1>2. ASSUME NEW n \in {0, 1}, NEW ignore \in BOOLEAN, UNCHANGED <<fade, option, ops, hasty>>,
             modal' = [modal EXCEPT !.mouseup = n, !.ignoreBackdropClick = ignore] \/
             modal' = [modal EXCEPT !.mouseup = n] \/ modal' = [modal EXCEPT !.ignoreBackdropClick = ignore]
      PROVE  DialogInv'
  <2>1. SUFFICES ASSUME ~ hasty
                 PROVE  DialogOK(modal)'
    BY <1>2 DEF DialogInv
  <2>2. DialogOK(modal)
    BY <2>1 DEF DialogInv
  <2>3. /\ modal' \in Dialogs /\ modal'.bound = modal.bound
        /\ modal'.displayed = modal.displayed /\ modal'.in = modal.in /\ modal'.focusin = modal.focusin
        /\ SameEars(modal', modal) /\ SamePage(modal', modal) /\ SameBackdrop(modal', modal) /\ SameCount(modal', modal)
    <3>1. modal \in Dialogs /\ n \in Nat
      BY <2>2 DEF DialogOK
    <3>2. CASE modal' = [modal EXCEPT !.mouseup = n, !.ignoreBackdropClick = ignore]
      BY <3>1, <3>2 DEF Dialogs, SameEars, SamePage, SameBackdrop, SameCount
    <3>3. CASE modal' = [modal EXCEPT !.mouseup = n]
      BY <3>1, <3>3 DEF Dialogs, SameEars, SamePage, SameBackdrop, SameCount
    <3>4. CASE modal' = [modal EXCEPT !.ignoreBackdropClick = ignore]
      BY <3>1, <3>4 DEF Dialogs, SameEars, SamePage, SameBackdrop, SameCount
    <3>5. QED
      BY <1>2, <3>2, <3>3, <3>4
  <2>4. QED
    BY <1>2, <2>2, <2>3 DEF DialogOK, IsClosed, IsComing, IsGoing, HoldsPage, HasBackdrop, Listens,
                            SameEars, SamePage, SameBackdrop, SameCount
<1>3. CASE MouseDown
  BY <1>2, <1>3 DEF MouseDown
<1>4. CASE MouseUp
  <2>1. PICK outside \in BOOLEAN :
          modal' = [modal EXCEPT !.mouseup = 0, !.ignoreBackdropClick = @ \/ outside]
    BY <1>4 DEF MouseUp
  <2>2. CASE hasty
    BY <1>4, <2>2 DEF MouseUp, DialogInv
  <2>3. CASE ~ hasty
    <3>1. modal.ignoreBackdropClick \in BOOLEAN /\ modal \in Dialogs
      BY <2>3 DEF DialogInv, DialogOK, Dialogs
    <3>2. PICK ignore \in BOOLEAN :
            modal' = [modal EXCEPT !.mouseup = 0, !.ignoreBackdropClick = ignore]
      BY <2>1, <3>1
    <3>3. QED
      BY <1>2, <1>4, <3>2 DEF MouseUp
  <2>4. QED
    BY <2>2, <2>3 DEF DialogInv
<1>5. CASE ClickOutside /\ ~ hide
  BY <1>2, <1>5 DEF ClickOutside
<1>6. QED
  BY <1>1, <1>3, <1>4, <1>5

LEMMA DialogEnds == DialogInv /\ TransitionsEnd => DialogInv'
<1> SUFFICES ASSUME DialogInv, NEW i \in 1 .. Len(modal.bound), TransitionEnd(modal.bound[i].on)
             PROVE  DialogInv'
  BY DEF TransitionsEnd
<1>1. /\ modal' = Done(modal, modal.bound[i].on) /\ UNCHANGED <<fade, option, ops, hasty>>
      /\ InTime(modal.bound[i].on)
  BY DEF TransitionEnd
<1>2. SUFFICES ASSUME ~ hasty
               PROVE  DialogOK(modal')
  BY <1>1 DEF DialogInv, DialogOK, IsClosed, IsComing, IsGoing, HoldsPage, HasBackdrop
<1>3. modal \in Dialogs /\ (IsClosed(modal) \/ IsComing(modal) \/ IsGoing(modal))
  BY <1>2 DEF DialogInv, DialogOK
<1>4. CASE IsClosed(modal)
  BY <1>1, <1>3, <1>4, EndsClosed DEF DialogOK
<1>5. CASE IsComing(modal)
  BY <1>1, <1>3, <1>5, EndsComing DEF DialogOK
<1>6. CASE IsGoing(modal)
  BY <1>1, <1>3, <1>6, EndsGoing
<1>7. QED
  BY <1>3, <1>4, <1>5, <1>6

LEMMA DialogKept == DialogInv /\ [DialogNext]_dialogVars => DialogInv'
<1> SUFFICES ASSUME DialogInv, [DialogNext]_dialogVars
             PROVE  DialogInv'
  OBVIOUS
<1>1. CASE show
  BY <1>1, DialogShow
<1>2. CASE hide
  BY <1>2, DialogHide
<1>3. CASE toggle
  BY <1>3, DialogShow, DialogHide DEF toggle
<1>4. CASE ClickDismiss \/ Escape
  BY <1>4, DialogHide DEF ClickDismiss, Escape
<1>5. CASE MouseDown \/ MouseUp \/ ClickOutside
  BY <1>5, DialogMouse
<1>6. CASE TransitionsEnd
  BY <1>6, DialogEnds
<1>7. CASE UNCHANGED dialogVars
  BY <1>7 DEF dialogVars, DialogInv, DialogOK, IsClosed, IsComing, IsGoing, HoldsPage, HasBackdrop
<1>8. QED
  BY <1>1, <1>2, <1>3, <1>4, <1>5, <1>6, <1>7 DEF DialogNext

LEMMA DialogInvHolds == DialogSpec => []DialogInv
<1>1. QED
  BY DialogInitially, DialogKept, PTL DEF DialogSpec

(* A dialog that is gone has left nothing behind (GoneClean): no backdrop,   *)
(* no class and no padding on the body, no listener, whatever was clicked   *)
(* in which transition, for any number of calls of show and hide.           *)
THEOREM GoneCleanHolds == DialogSpec => []GoneClean
<1>1. DialogInv => GoneClean
  BY DEF DialogInv, DialogOK, IsClosed, IsComing, IsGoing, Listens, GoneClean, Quiet
<1>2. QED
  BY <1>1, DialogInvHolds, PTL

(* A dialog that is shown is there with its one backdrop, and each way to   *)
(* hide it works once (ShownWhole).                                         *)
THEOREM ShownWholeHolds == DialogSpec => []ShownWhole
<1>1. DialogInv => ShownWhole
  BY DEF DialogInv, DialogOK, IsClosed, IsComing, IsGoing, HoldsPage, HasBackdrop, Listens, ShownWhole, Quiet
<1>2. QED
  BY <1>1, DialogInvHolds, PTL

-----------------------------------------------------------------------------
(* Events.  What is left of a list when only those in a set are kept.      *)
IsThose(f, s, T) ==
  f = [n \in 0 .. Len(s) |->
         IF n = 0 THEN <<>> ELSE IF s[n] \in T THEN Append(f[n - 1], s[n]) ELSE f[n - 1]]

Keeps(f, D, s, T) ==
  /\ \A n \in 0 .. Len(s) : f[n] \in Seq(D)
  /\ f[0] = <<>>
  /\ \A n \in 1 .. Len(s) : f[n] = IF s[n] \in T THEN Append(f[n - 1], s[n]) ELSE f[n - 1]

LEMMA ThoseExists ==
  ASSUME NEW D, NEW s \in Seq(D), NEW T
  PROVE  \E f : Keeps(f, D, s, T) /\ Those(s, T) = f[Len(s)]
<1> DEFINE n == Len(s)
           Q == Seq(D)
           next(i, q) == IF s[i] \in T THEN Append(q, s[i]) ELSE q
           g == [p \in (1 .. n) \X Q |-> next(p[1], p[2])]
<1>1. n \in Nat /\ <<>> \in Q /\ \A i \in 1 .. n : s[i] \in D
  OBVIOUS
<1>2. \A i \in 1 .. n, q \in Q : next(i, q) \in Q
  BY <1>1, AppendProperties
<1>3. g \in [(1 .. n) \X Q -> Q] /\ \A i \in 1 .. n, q \in Q : g[<<i, q>>] = next(i, q)
  <2> HIDE DEF next, Q, n
  <2>1. QED
    BY <1>2
<1> HIDE DEF g, Q
<1>4. PICK f : Recurs(f, Q, <<>>, n, g)
  <2> HIDE DEF n
  <2>1. QED
    BY <1>1, <1>3, Recursion
<1>5. f \in [0 .. n -> Q] /\ f[0] = <<>> /\ \A i \in 1 .. n : f[i] = next(i, f[i - 1])
  <2>1. f \in [0 .. n -> Q] /\ f[0] = <<>> /\ \A i \in 1 .. n : f[i] = g[<<i, f[i - 1]>>]
    BY <1>4 DEF Recurs
  <2>2. \A i \in 1 .. n : i - 1 \in 0 .. n
    BY <1>1
  <2> HIDE DEF n, next
  <2>3. QED
    BY <1>3, <2>1, <2>2
<1>6. IsThose(f, s, T)
  <2> DEFINE body(i) == IF i = 0 THEN <<>> ELSE next(i, f[i - 1])
  <2>1. f = [i \in 0 .. n |-> f[i]]
    BY <1>5
  <2>2. \A i \in 0 .. n : f[i] = body(i)
    <3>1. \A i \in 0 .. n : i = 0 \/ (i # 0 /\ i \in 1 .. n)
      BY <1>1
    <3> HIDE DEF next, n
    <3>2. QED
      BY <1>5, <3>1
  <2> HIDE DEF body, n
  <2>3. f = [i \in 0 .. n |-> body(i)]
    BY <2>1, <2>2
  <2>4. QED
    BY <2>3 DEF IsThose, body, n
<1> DEFINE h == CHOOSE k : IsThose(k, s, T)
<1>7. IsThose(h, s, T) /\ Those(s, T) = h[n]
  BY <1>6 DEF Those, IsThose
<1> HIDE DEF h
<1>8. h[0] = <<>> /\ \A i \in 1 .. n : h[i] = next(i, h[i - 1])
  <2> DEFINE body(i) == IF i = 0 THEN <<>> ELSE next(i, h[i - 1])
  <2>1. h = [i \in 0 .. n |-> body(i)]
    BY <1>7 DEF IsThose
  <2>2. 0 \in 0 .. n /\ \A i \in 1 .. n : i \in 0 .. n /\ i # 0
    BY <1>1
  <2> HIDE DEF body, n, h
  <2>3. \A i \in 0 .. n : h[i] = body(i)
    BY <2>1
  <2> HIDE DEF next
  <2>4. QED
    BY <2>2, <2>3 DEF body
<1>9. \A i \in 0 .. n : h[i] \in Q
  <2> DEFINE S == {i \in 0 .. n : h[i] \in Q}
  <2>1. 0 \in S
    BY <1>1, <1>8
  <2>2. ASSUME NEW i \in 1 .. n, i - 1 \in S
        PROVE  i \in S
    BY <1>2, <1>8, <2>2
  <2> HIDE DEF S, n
  <2>3. \A i \in 0 .. n : i \in S
    BY <1>1, <2>1, <2>2, UpTo
  <2>4. QED
    BY <2>3 DEF S
<1>10. QED
  BY <1>7, <1>8, <1>9 DEF Q, Keeps

(* They come in the order of the list.                                     *)
LEMMA ThoseInOrder ==
  ASSUME NEW D, NEW s \in Seq(D), NEW T
  PROVE  /\ Those(s, T) \in Seq(D)
         /\ \A i \in 1 .. Len(Those(s, T)) :
              Those(s, T)[i] \in T /\ \E a \in 1 .. Len(s) : Those(s, T)[i] = s[a]
         /\ \A i, j \in 1 .. Len(Those(s, T)) : i < j =>
              \E a, b \in 1 .. Len(s) : a < b /\ Those(s, T)[i] = s[a] /\ Those(s, T)[j] = s[b]
<1>1. PICK f : Keeps(f, D, s, T) /\ Those(s, T) = f[Len(s)]
  BY ThoseExists
<1> USE DEF Keeps
<1> DEFINE From(n) == \A i \in 1 .. Len(f[n]) : f[n][i] \in T /\ \E a \in 1 .. n : f[n][i] = s[a]
           Ordered(n) == \A i, j \in 1 .. Len(f[n]) : i < j =>
             \E a, b \in 1 .. n : a < b /\ f[n][i] = s[a] /\ f[n][j] = s[b]
           S == {n \in 0 .. Len(s) : From(n) /\ Ordered(n)}
<1>2. 0 \in S
  BY <1>1
<1>3. ASSUME NEW n \in 1 .. Len(s), n - 1 \in S
      PROVE  n \in S
  <2> DEFINE q == f[n - 1]
             r == f[n]
  <2>1. From(n - 1) /\ Ordered(n - 1) /\ n - 1 \in 0 .. Len(s) /\ q \in Seq(D) /\ s[n] \in D
    BY <1>1, <1>3
  <2>2. \A a \in 1 .. (n - 1) : a \in 1 .. n /\ a < n
    OBVIOUS
  <2>3. CASE s[n] \notin T
    <3>1. r = q
      BY <1>1, <2>3
    <3>2. From(n) /\ Ordered(n)
      BY <2>1, <2>2, <3>1
    <3> HIDE DEF From, Ordered
    <3>3. QED
      BY <3>2
  <2>4. CASE s[n] \in T
    <3>1. r = Append(q, s[n])
      BY <1>1, <2>4
    <3>2. /\ Len(r) = Len(q) + 1 /\ Len(q) \in Nat /\ r[Len(q) + 1] = s[n]
          /\ \A i \in 1 .. Len(q) : r[i] = q[i]
      <4> HIDE DEF q, r
      <4>1. QED
        BY <2>1, <3>1, AppendProperties
    <3>3. \A i \in 1 .. Len(r) : i \in 1 .. Len(q) \/ i = Len(q) + 1
      BY <3>2
    <3>4. From(n)
      <4>1. ASSUME NEW i \in 1 .. Len(q)
            PROVE  r[i] \in T /\ \E a \in 1 .. n : r[i] = s[a]
        <5>1. q[i] \in T /\ \E a \in 1 .. (n - 1) : q[i] = s[a]
          BY <2>1, <4>1
        <5> HIDE DEF q, r
        <5>2. QED
          BY <2>2, <3>2, <5>1
      <4>2. r[Len(q) + 1] \in T /\ n \in 1 .. n
        BY <2>4, <3>2
      <4>3. QED
        BY <3>2, <3>3, <4>1, <4>2
    <3>5. Ordered(n)
      <4>1. ASSUME NEW i \in 1 .. Len(r), NEW j \in 1 .. Len(r), i < j
            PROVE  \E a, b \in 1 .. n : a < b /\ r[i] = s[a] /\ r[j] = s[b]
        <5>1. i \in 1 .. Len(q)
          BY <3>2, <4>1
        <5>2. CASE j \in 1 .. Len(q)
          <6>1. \E a, b \in 1 .. (n - 1) : a < b /\ q[i] = s[a] /\ q[j] = s[b]
            BY <2>1, <4>1, <5>1, <5>2
          <6> HIDE DEF q, r
          <6>2. QED
            BY <2>2, <3>2, <5>1, <5>2, <6>1
        <5>3. CASE j = Len(q) + 1
          <6>1. \E a \in 1 .. (n - 1) : q[i] = s[a]
            BY <2>1, <5>1
          <6>2. r[i] = q[i] /\ r[j] = s[n] /\ n \in 1 .. n
            BY <3>2, <5>1, <5>3
          <6> HIDE DEF q, r
          <6>3. QED
            BY <2>2, <6>1, <6>2
        <5>4. QED
          BY <3>3, <5>2, <5>3
      <4>2. QED
        BY <4>1
    <3> HIDE DEF From, Ordered
    <3>6. QED
      BY <3>4, <3>5
  <2>5. QED
    BY <2>3, <2>4
<1>4. \A n \in 0 .. Len(s) : n \in S
  <2>1. Len(s) \in Nat
    OBVIOUS
  <2> HIDE DEF S
  <2>2. QED
    BY <1>2, <1>3, <2>1, UpTo
<1>5. Len(s) \in 0 .. Len(s)
  OBVIOUS
<1>6. From(Len(s)) /\ Ordered(Len(s))
  BY <1>4, <1>5
<1>7. QED
  BY <1>1, <1>5, <1>6

(* A list of which the first m are those in A: when it is cut down to those *)
(* in K, the first are again those in A, and there are as many fewer as     *)
(* were taken away from among them.                                        *)
LEMMA ThoseCounted ==
  ASSUME NEW D, NEW s \in Seq(D), NEW K, NEW G, NEW A, NEW m \in 0 .. Len(s),
         \A i \in 1 .. Len(s) : i <= m <=> s[i] \in A,
         \A i \in 1 .. Len(s) : s[i] \in G <=> s[i] \notin K /\ s[i] \in A
  PROVE  /\ m - Len(Those(s, G)) \in 0 .. Len(Those(s, K))
         /\ \A i \in 1 .. Len(Those(s, K)) :
              i <= m - Len(Those(s, G)) <=> Those(s, K)[i] \in A
<1>1. PICK k : Keeps(k, D, s, K) /\ Those(s, K) = k[Len(s)]
  BY ThoseExists
<1>2. PICK g : Keeps(g, D, s, G) /\ Those(s, G) = g[Len(s)]
  BY ThoseExists
<1> USE DEF Keeps
<1> DEFINE q(n) == IF n <= m THEN n ELSE m
           Counts(n, l) == /\ l <= q(n) /\ q(n) - l <= Len(k[n])
                           /\ n <= m => Len(k[n]) = n - l
                           /\ \A i \in 1 .. Len(k[n]) : i <= q(n) - l <=> k[n][i] \in A
           S == {n \in 0 .. Len(s) : Counts(n, Len(g[n]))}
<1>3. 0 \in S
  <2>1. k[0] = <<>> /\ Len(g[0]) = 0 /\ q(0) = 0 /\ Len(k[0]) = 0
    BY <1>1, <1>2
  <2>2. 0 \in 0 .. Len(s) /\ \A i \in 1 .. 0 : FALSE
    OBVIOUS
  <2> HIDE DEF q
  <2>3. Counts(0, 0)
    BY <2>1, <2>2
  <2>4. QED
    BY <2>1, <2>2, <2>3
<1>4. ASSUME NEW n \in 1 .. Len(s), n - 1 \in S
      PROVE  n \in S
  <2> DEFINE l == Len(g[n - 1])
             p == k[n - 1]
             r == k[n]
  <2>1. /\ n - 1 \in 0 .. Len(s) /\ n \in 0 .. Len(s) /\ g[n - 1] \in Seq(D) /\ p \in Seq(D)
        /\ s[n] \in D /\ g[n] \in Seq(D) /\ r \in Seq(D)
    <3>1. n - 1 \in 0 .. Len(s) /\ n \in 0 .. Len(s) /\ s[n] \in D
      OBVIOUS
    <3>2. g[n - 1] \in Seq(D) /\ g[n] \in Seq(D)
      BY <1>2, <3>1
    <3>3. p \in Seq(D) /\ r \in Seq(D)
      BY <1>1, <3>1
    <3>4. QED
      BY <3>1, <3>2, <3>3
  <2>2. l \in Nat /\ Len(p) \in Nat /\ m \in Nat /\ n \in Nat /\ Len(s) \in Nat
    BY <2>1
  <2>3. Counts(n - 1, l)
    BY <1>4
  <2>4. Len(g[n]) = IF s[n] \in G THEN l + 1 ELSE l
    <3>1. g[n] = IF s[n] \in G THEN Append(g[n - 1], s[n]) ELSE g[n - 1]
      BY <1>2
    <3>2. QED
      BY <2>1, <3>1, AppendProperties
  <2>5. r = IF s[n] \in K THEN Append(p, s[n]) ELSE p
    BY <1>1
  <2>6. s[n] \in K => /\ Len(r) = Len(p) + 1 /\ r[Len(p) + 1] = s[n]
                      /\ \A i \in 1 .. Len(p) : r[i] = p[i]
    <3> HIDE DEF p, r
    <3>1. QED
      BY <2>1, <2>5, AppendProperties
  <2>7. (n <= m <=> s[n] \in A) /\ (s[n] \in G <=> s[n] \notin K /\ s[n] \in A)
    OBVIOUS
  <2>8. /\ l <= q(n - 1) /\ q(n - 1) - l <= Len(p) /\ (n - 1 <= m => Len(p) = n - 1 - l)
        /\ \A i \in 1 .. Len(p) : i <= q(n - 1) - l <=> p[i] \in A
    BY <2>3
  <2>9. CASE n <= m
    <3>1. q(n) = n /\ q(n - 1) = n - 1 /\ n - 1 <= m
      BY <2>2, <2>9
    <3>2. Len(p) = n - 1 - l /\ \A i \in 1 .. Len(p) : p[i] \in A
      <4> HIDE DEF p, q, l
      <4>1. Len(p) = n - 1 - l
        BY <2>8, <3>1
      <4>2. QED
        BY <2>2, <2>8, <3>1, <4>1
    <3>3. CASE s[n] \in K
      <4>1. Len(g[n]) = l /\ Len(r) = n - l /\ \A i \in 1 .. Len(r) : r[i] \in A
        <5>1. Len(g[n]) = l /\ Len(r) = Len(p) + 1
          BY <2>4, <2>6, <2>7, <3>3
        <5>2. \A i \in 1 .. Len(r) : i \in 1 .. Len(p) \/ i = Len(p) + 1
          BY <2>2, <5>1
        <5> HIDE DEF p, r, l
        <5>3. \A i \in 1 .. Len(r) : r[i] \in A
          BY <2>6, <2>7, <2>9, <3>2, <3>3, <5>2
        <5>4. QED
          BY <2>2, <3>2, <5>1, <5>3
      <4> HIDE DEF l
      <4>2. l <= n
        BY <2>2, <2>8, <3>1
      <4>3. Counts(n, l)
        BY <2>2, <3>1, <4>1, <4>2
      <4>4. QED
        BY <2>1, <4>1, <4>3
    <3>4. CASE s[n] \notin K
      <4>1. Len(g[n]) = l + 1 /\ r = p
        BY <2>4, <2>5, <2>7, <2>9, <3>4
      <4> HIDE DEF l
      <4>2. l + 1 <= n /\ Len(r) = n - (l + 1)
        BY <2>2, <2>8, <3>1, <3>2, <4>1
      <4>3. Counts(n, l + 1)
        BY <2>2, <3>1, <3>2, <4>1, <4>2
      <4>4. QED
        BY <2>1, <4>1, <4>3
    <3>5. QED
      BY <3>3, <3>4
  <2>10. CASE ~ (n <= m)
    <3>1. q(n) = m /\ q(n - 1) = m
      BY <2>2, <2>10
    <3>2. Len(g[n]) = l /\ s[n] \notin A
      BY <2>4, <2>7, <2>10
    <3>3. l <= m /\ m - l <= Len(r) /\ \A i \in 1 .. Len(r) : i <= m - l <=> r[i] \in A
      <4>1. l <= m /\ m - l <= Len(p) /\ \A i \in 1 .. Len(p) : i <= m - l <=> p[i] \in A
        <5> HIDE DEF l, p, q
        <5>1. QED
          BY <2>8, <3>1
      <4>2. CASE s[n] \in K
        <5>1. \A i \in 1 .. Len(r) : i \in 1 .. Len(p) \/ i = Len(p) + 1
          BY <2>2, <2>6, <4>2
        <5>2. ~ (Len(p) + 1 <= m - l) /\ m - l <= Len(r)
          <6>1. Len(r) = Len(p) + 1
            BY <2>6, <4>2
          <6> HIDE DEF p, r, l
          <6>2. QED
            BY <2>2, <4>1, <6>1
        <5> HIDE DEF p, r, l
        <5>3. QED
          BY <2>6, <3>2, <4>1, <4>2, <5>1, <5>2
      <4>3. CASE s[n] \notin K
        BY <2>5, <4>1, <4>3
      <4>4. QED
        BY <4>2, <4>3
    <3> HIDE DEF l
    <3>4. Counts(n, l)
      BY <2>2, <2>10, <3>1, <3>3
    <3>5. QED
      BY <2>1, <3>2, <3>4
  <2>11. QED
    BY <2>9, <2>10
<1>5. \A n \in 0 .. Len(s) : n \in S
  <2>1. Len(s) \in Nat
    OBVIOUS
  <2> HIDE DEF S
  <2>2. QED
    BY <1>3, <1>4, <2>1, UpTo
<1>6. Len(s) \in 0 .. Len(s) /\ q(Len(s)) = m
  OBVIOUS
<1>7. Counts(Len(s), Len(g[Len(s)]))
  BY <1>5, <1>6
<1> DEFINE kept == k[Len(s)]
           l == Len(g[Len(s)])
<1>8. /\ l <= m /\ m - l <= Len(kept) /\ \A i \in 1 .. Len(kept) : i <= m - l <=> kept[i] \in A
      /\ l \in Nat /\ Len(kept) \in Nat
  <2>1. g[Len(s)] \in Seq(D) /\ k[Len(s)] \in Seq(D)
    BY <1>1, <1>2, <1>6
  <2>2. l \in Nat /\ Len(kept) \in Nat
    BY <2>1
  <2>3. /\ l <= q(Len(s)) /\ q(Len(s)) - l <= Len(kept)
        /\ \A i \in 1 .. Len(kept) : i <= q(Len(s)) - l <=> kept[i] \in A
    BY <1>7
  <2> HIDE DEF q, kept, l
  <2>4. QED
    BY <1>6, <2>2, <2>3
<1>9. Those(s, K) = kept /\ Len(Those(s, G)) = l
  BY <1>1, <1>2
<1> HIDE DEF kept, l
<1>10. QED
  BY <1>8, <1>9

-----------------------------------------------------------------------------
(* Events: the invariant.  A function bound is told by its id, which no      *)
(* other has, at any element and for any type, and none that was spent.    *)
Handle == [id : Nat, type : Types \cup {"mouseenter"}, selector : STRING, fn : STRING,
           ns : STRING, one : BOOLEAN]
Item == [elem : Elem, h : Handle]

(* The namespaces an event may have.                                      *)
Namespaces == {""} \cup {b.ns : b \in Bindings}

EventRec ==
  [type : Types, how : {"native", "trigger", "handler", "default"}, target : Elem,
   path : Seq(Elem), ns : Namespaces, related : Nat, owner : Elem, queue : Seq(Item),
   running : BOOLEAN, stopped : BOOLEAN, immediate : BOOLEAN, prevented : BOOLEAN, at : Elem,
   seen : Seq(Elem \X Nat)]

Lists == [Elem -> [Types -> Seq(Handle)]]

Bound(hs, e, t) == ToSet(hs[e][t])

ListsInv ==
  /\ handlers \in Lists
  /\ delegateCount \in [Elem -> [Types -> Nat]]
  /\ \A e \in Elem, t \in Types : delegateCount[e][t] <= Len(handlers[e][t])
  /\ ListsSound

IdsApart(hs) == \A i, j \in 1 .. Len(hs) : i < j => hs[i].id # hs[j].id

Unique(hs) ==
  /\ \A e, f \in Elem, t, u \in Types : \A h \in Bound(hs, e, t), g \in Bound(hs, f, u) :
       h.id = g.id => e = f /\ t = u /\ h = g
  /\ \A e \in Elem, t \in Types : IdsApart(hs[e][t])

IdsInv ==
  /\ binds \in Nat /\ spent \in SUBSET (1 .. binds)
  /\ \A e \in Elem, t \in Types : \A h \in Bound(handlers, e, t) :
       h.id \in 1 .. binds /\ h.id \notin spent
  /\ Unique(handlers)

(* What waits to be called for an event was bound to the element the event  *)
(* is at, for its type; if it still is, it is so as it was.                *)
Pair(c) == <<c.elem, c.h.id>>

Distinct(q) == \A k, l \in 1 .. Len(q) : k < l => Pair(q[k]) # Pair(q[l])

QueueOK(ev, hs, b) ==
  /\ ev.queue # <<>> => ev.owner \notin ToSet(ev.path)
  /\ Distinct(ev.queue)
  /\ \A k \in 1 .. Len(ev.queue) :
       /\ ev.queue[k].h.id \in 1 .. b
       /\ \A e \in Elem, t \in Types : \A h \in Bound(hs, e, t) :
            h.id = ev.queue[k].h.id => e = ev.owner /\ t = ev.type /\ h = ev.queue[k].h
       /\ \A l \in 1 .. Len(ev.seen) : ev.seen[l] # Pair(ev.queue[k])

(* What has heard of an event, and is still bound, is bound where the event *)
(* does not come any more: to an element it has been at, or for the click   *)
(* that led to it.                                                         *)
Past(ev, e, t) ==
  \/ t = ev.type /\ (e \notin ToSet(ev.path) \/ (ev.how = "default" /\ ev.type = "click"))
  \/ ev.type = "change" /\ t = "click"

SeenOK(ev, hs, b) ==
  /\ IsInjective(ev.seen)
  /\ \A k \in 1 .. Len(ev.seen) :
       /\ ev.seen[k][2] \in 1 .. b
       /\ \A e \in Elem, t \in Types : \A h \in Bound(hs, e, t) :
            h.id = ev.seen[k][2] => Past(ev, e, t)

EventOK(ev, hs, b) ==
  /\ ev \in EventRec /\ IsInjective(ev.path)
  /\ ev.how = "trigger" => ev.type = "click"
  /\ QueueOK(ev, hs, b) /\ SeenOK(ev, hs, b)

(* The click a browser makes in the default action of a triggered one calls *)
(* no function, and is the innermost event as long as it lasts.            *)
DefaultClick(ev) == ev.how = "default" /\ ev.type = "click"

Calm(ev, trig) == DefaultClick(ev) => trig = "click" /\ ev.queue = <<>> /\ ~ ev.running

StackInv ==
  /\ stack \in Seq(EventRec)
  /\ \A i \in 1 .. Len(stack) : EventOK(stack[i], handlers, binds)
  /\ \A i \in 1 .. Len(stack) : i # 1 => ~ DefaultClick(stack[i])
  /\ stack # <<>> => Calm(stack[1], triggered)

HeardInv == ListsInv /\ IdsInv /\ StackInv

-----------------------------------------------------------------------------
(* Elements of a path, of a list, and lists made of two.                   *)
LEMMA InSet == \A s, i : i \in DOMAIN s => s[i] \in ToSet(s)
BY DEF ToSet

LEMMA PathFacts ==
  /\ Path \in Seq(Elem) /\ Path # <<>> /\ Len(Path) \in Nat
  /\ \A i, j \in 1 .. Len(Path) : Path[i] = Path[j] => i = j
  /\ \A e \in Elem : Depth(e) \in 1 .. Len(Path) /\ Path[Depth(e)] = e
<1>1. Path \in Seq(Elem) /\ Path # <<>> /\ \A i, j \in 1 .. Len(Path) : Path[i] = Path[j] => i = j
  BY EventsInput DEF GoodEvents
<1>2. Len(Path) \in Nat /\ DOMAIN Path = 1 .. Len(Path)
  BY <1>1
<1>3. \A e \in Elem : \E i \in 1 .. Len(Path) : Path[i] = e
  BY <1>2 DEF Elem, ToSet
<1>4. QED
  BY <1>1, <1>2, <1>3 DEF Depth

(* A part of the path names each element once.                             *)
LEMMA PartFacts ==
  ASSUME NEW a \in 1 .. Len(Path), NEW b \in 0 .. Len(Path)
  PROVE  /\ SubSeq(Path, a, b) \in Seq(Elem) /\ IsInjective(SubSeq(Path, a, b))
         /\ a <= b => SubSeq(Path, a, b) # <<>> /\ SubSeq(Path, a, b)[1] = Path[a]
<1> DEFINE s == SubSeq(Path, a, b)
<1>1. Path \in Seq(Elem) /\ Len(Path) \in Nat
  BY PathFacts
<1>2. \A i \in a .. b : Path[i] \in Elem
  BY <1>1
<1>3. /\ s \in Seq(Elem) /\ Len(s) = (IF a <= b THEN b - a + 1 ELSE 0)
      /\ \A i \in 1 .. b - a + 1 : s[i] = Path[a + i - 1]
  BY <1>1, <1>2, SubSeqProperties
<1> HIDE DEF s
<1>4. DOMAIN s = 1 .. Len(s) /\ \A i \in 1 .. Len(s) : i \in 1 .. b - a + 1 /\ a + i - 1 \in 1 .. Len(Path)
  BY <1>1, <1>3
<1>5. IsInjective(s)
  <2>1. ASSUME NEW i \in 1 .. Len(s), NEW j \in 1 .. Len(s), s[i] = s[j]
        PROVE  i = j
    <3> DEFINE k == a + i - 1
               l == a + j - 1
    <3>1. s[i] = Path[k] /\ s[j] = Path[l] /\ k \in 1 .. Len(Path) /\ l \in 1 .. Len(Path)
      BY <1>3, <1>4
    <3>2. k = l
      <4> HIDE DEF k, l
      <4>1. QED
        BY <2>1, <3>1, PathFacts
    <3>3. QED
      BY <1>1, <1>3, <3>2
  <2>2. QED
    BY <1>4, <2>1 DEF IsInjective
<1>6. a <= b => s # <<>> /\ s[1] = Path[a]
  <2>1. a <= b => 1 \in 1 .. b - a + 1 /\ a + 1 - 1 = a /\ Len(s) # 0
    BY <1>1, <1>3
  <2>2. QED
    BY <1>3, <2>1
<1>7. QED
  BY <1>3, <1>5, <1>6 DEF s

LEMMA UpFacts ==
  ASSUME NEW e \in Elem
  PROVE  Up(e) \in Seq(Elem) /\ IsInjective(Up(e)) /\ Up(e) # <<>> /\ Up(e)[1] = e
<1>1. Depth(e) \in 1 .. Len(Path) /\ Path[Depth(e)] = e /\ Len(Path) \in Nat
  BY PathFacts
<1>2. Len(Path) \in 0 .. Len(Path) /\ Depth(e) <= Len(Path)
  BY <1>1
<1>3. QED
  BY <1>1, <1>2, PartFacts DEF Up

(* What is left of a list names no function twice, and only its own.        *)
LEMMA ThoseApart ==
  ASSUME NEW hs \in Seq(Handle), IdsApart(hs), NEW T
  PROVE  /\ Those(hs, T) \in Seq(Handle) /\ IdsApart(Those(hs, T))
         /\ ToSet(Those(hs, T)) \subseteq ToSet(hs) \cap T
         /\ Those(hs, T) # <<>> => hs # <<>>
<1> DEFINE r == Those(hs, T)
<1>1. /\ r \in Seq(Handle)
      /\ \A i \in 1 .. Len(r) : r[i] \in T /\ \E a \in 1 .. Len(hs) : r[i] = hs[a]
      /\ \A i, j \in 1 .. Len(r) : i < j =>
           \E a, b \in 1 .. Len(hs) : a < b /\ r[i] = hs[a] /\ r[j] = hs[b]
  BY ThoseInOrder
<1> HIDE DEF r
<1>2. DOMAIN r = 1 .. Len(r) /\ DOMAIN hs = 1 .. Len(hs) /\ Len(r) \in Nat /\ Len(hs) \in Nat
  BY <1>1
<1>3. IdsApart(r)
  <2>1. ASSUME NEW i \in 1 .. Len(r), NEW j \in 1 .. Len(r), i < j
        PROVE  r[i].id # r[j].id
    <3>1. PICK a \in 1 .. Len(hs), b \in 1 .. Len(hs) :
            a < b /\ r[i] = hs[a] /\ r[j] = hs[b]
      BY <1>1, <2>1
    <3>2. QED
      BY <3>1 DEF IdsApart
  <2>2. QED
    BY <2>1 DEF IdsApart
<1>4. ToSet(r) \subseteq ToSet(hs) \cap T
  BY <1>1, <1>2 DEF ToSet
<1>5. r # <<>> => hs # <<>>
  <2>1. r # <<>> => 1 \in 1 .. Len(r)
    BY <1>1, <1>2, EmptySeq
  <2>2. hs = <<>> => 1 .. Len(hs) = {}
    OBVIOUS
  <2>3. QED
    BY <1>1, <2>1, <2>2
<1>6. QED
  BY <1>1, <1>3, <1>4, <1>5 DEF r

(* jQuery.event.remove: what is left of the lists.                         *)
LEMMA RemoveIs ==
  ASSUME ListsInv, Unique(handlers), NEW x \in Elem, NEW type, NEW fn, NEW ns, NEW selector,
         remove(x, type, fn, ns, selector)
  PROVE  /\ ListsInv' /\ Unique(handlers)'
         /\ \A e \in Elem, t \in Types : Bound(handlers', e, t) \subseteq Bound(handlers, e, t)
         /\ \A t \in Types : \A h \in Bound(handlers', x, t) : ~ Hit(h, type, fn, ns, selector)
<1> DEFINE hit(t) == {h \in ToSet(handlers[x][t]) : Hit(h, type, fn, ns, selector)}
           K(t) == ToSet(handlers[x][t]) \ hit(t)
           G(t) == {h \in hit(t) : Uncounted(h)}
           kept == [t \in Types |-> Those(handlers[x][t], K(t))]
           gone(t) == Those(handlers[x][t], G(t))
           left == [t \in Types |-> delegateCount[x][t] - Len(gone(t))]
<1>1. /\ handlers' = [handlers EXCEPT ![x] = kept]
      /\ delegateCount' = [delegateCount EXCEPT ![x] = left]
      /\ listening' = listening \
           {<<x, t>> : t \in {u \in Types : handlers[x][u] # <<>> /\ kept[u] = <<>>}}
  BY DEF remove, ListsInv
<1>2. /\ handlers \in Lists /\ delegateCount \in [Elem -> [Types -> Nat]]
      /\ \A e \in Elem, t \in Types :
           /\ handlers[e][t] \in Seq(Handle) /\ delegateCount[e][t] \in Nat
           /\ Len(handlers[e][t]) \in Nat /\ delegateCount[e][t] <= Len(handlers[e][t])
           /\ IdsApart(handlers[e][t])
  BY DEF ListsInv, Lists, Unique
<1>3. ASSUME NEW t \in Types
      PROVE  /\ kept[t] \in Seq(Handle) /\ IdsApart(kept[t])
             /\ ToSet(kept[t]) \subseteq ToSet(handlers[x][t]) \cap K(t)
             /\ kept[t] # <<>> => handlers[x][t] # <<>>
  BY <1>2, ThoseApart
<1>4. ASSUME NEW t \in Types
      PROVE  /\ left[t] \in 0 .. Len(kept[t])
             /\ \A i \in 1 .. Len(kept[t]) : i <= left[t] <=> kept[t][i].selector # ""
  <2> DEFINE s == handlers[x][t]
             A == {h \in Handle : h.selector # ""}
             m == delegateCount[x][t]
  <2>1. s \in Seq(Handle) /\ m \in 0 .. Len(s)
    BY <1>2
  <2>2. \A i \in 1 .. Len(s) : s[i] \in Handle /\ s[i] \in ToSet(s)
    BY <2>1, InSet
  <2>3. \A i \in 1 .. Len(s) : i <= m <=> s[i] \in A
    BY <2>2 DEF ListsInv, ListsSound
  <2>4. \A i \in 1 .. Len(s) : s[i] \in G(t) <=> s[i] \notin K(t) /\ s[i] \in A
    BY <2>2 DEF Uncounted
  <2>5. kept[t] = Those(s, K(t)) /\ left[t] = m - Len(Those(s, G(t)))
    <3> HIDE DEF K, G
    <3>1. QED
      OBVIOUS
  <2>6. \A i \in 1 .. Len(kept[t]) : kept[t][i] \in Handle
    <3> HIDE DEF kept
    <3>1. QED
      BY <1>3
  <2> HIDE DEF s, m, K, G, kept, left
  <2>7. /\ m - Len(Those(s, G(t))) \in 0 .. Len(Those(s, K(t)))
        /\ \A i \in 1 .. Len(Those(s, K(t))) :
              i <= m - Len(Those(s, G(t))) <=> Those(s, K(t))[i] \in A
    <3> HIDE DEF A
    <3>1. QED
      BY <2>1, <2>3, <2>4, ThoseCounted
  <2>8. QED
    BY <2>5, <2>6, <2>7
<1>5. kept \in [Types -> Seq(Handle)] /\ left \in [Types -> Nat]
  <2>1. ASSUME NEW t \in Types
        PROVE  left[t] \in Nat
    <3> HIDE DEF left, kept
    <3>1. left[t] \in 0 .. Len(kept[t])
      BY <1>4
    <3>2. QED
      BY <3>1
  <2>2. QED
    BY <1>3, <2>1
<1>6. /\ handlers'[x] = kept /\ delegateCount'[x] = left
      /\ \A e \in Elem : e # x => handlers'[e] = handlers[e] /\ delegateCount'[e] = delegateCount[e]
      /\ handlers' \in Lists /\ delegateCount' \in [Elem -> [Types -> Nat]]
  <2> HIDE DEF kept, left
  <2>1. QED
    BY <1>1, <1>2, <1>5 DEF Lists
<1>7. \A e \in Elem, t \in Types : Bound(handlers', e, t) \subseteq Bound(handlers, e, t)
  <2> HIDE DEF kept, K
  <2>1. QED
    BY <1>3, <1>6 DEF Bound
<1>8. \A t \in Types : \A h \in Bound(handlers', x, t) : ~ Hit(h, type, fn, ns, selector)
  <2> HIDE DEF kept
  <2>1. QED
    BY <1>3, <1>6 DEF Bound
<1>9. \A e \in Elem, t \in Types : IdsApart(handlers'[e][t])
  <2> HIDE DEF kept
  <2>1. QED
    BY <1>2, <1>3, <1>6
<1>10. Unique(handlers)'
  <2>1. \A e, f \in Elem, t, u \in Types : \A h \in Bound(handlers', e, t), g \in Bound(handlers', f, u) :
          h.id = g.id => e = f /\ t = u /\ h = g
    BY <1>7 DEF Unique
  <2>2. QED
    BY <1>9, <2>1 DEF Unique
<1>11. ASSUME NEW e \in Elem, NEW t \in Types
       PROVE  /\ delegateCount'[e][t] <= Len(handlers'[e][t])
              /\ \A i \in 1 .. Len(handlers'[e][t]) :
                   (i <= delegateCount'[e][t]) <=> (handlers'[e][t][i].selector # "")
              /\ (<<e, t>> \in listening') <=> (handlers'[e][t] # <<>>)
  <2>1. CASE e = x
    <3>1. <<x, t>> \in listening <=> handlers[x][t] # <<>>
      BY DEF ListsInv, ListsSound
    <3>2. <<x, t>> \in listening' <=> kept[t] # <<>>
      <4> HIDE DEF kept, left
      <4>1. <<x, t>> \in listening'
              <=> <<x, t>> \in listening /\ ~ (handlers[x][t] # <<>> /\ kept[t] = <<>>)
        BY <1>1
      <4>2. QED
        BY <1>3, <3>1, <4>1
    <3> HIDE DEF kept, left
    <3>3. left[t] <= Len(kept[t])
      <4>1. left[t] \in 0 .. Len(kept[t]) /\ kept[t] \in Seq(Handle)
        BY <1>3, <1>4
      <4>2. Len(kept[t]) \in Nat
        BY <4>1
      <4> HIDE DEF left, kept
      <4>3. QED
        BY <4>1, <4>2
    <3>4. QED
      BY <1>4, <1>6, <2>1, <3>2, <3>3
  <2>2. CASE e # x
    <3>1. <<e, t>> \in listening' <=> <<e, t>> \in listening
      <4> HIDE DEF kept, left
      <4>1. QED
        BY <1>1, <2>2
    <3>2. handlers'[e] = handlers[e] /\ delegateCount'[e] = delegateCount[e]
      BY <1>6, <2>2
    <3>3. /\ delegateCount[e][t] <= Len(handlers[e][t])
          /\ \A i \in 1 .. Len(handlers[e][t]) :
               (i <= delegateCount[e][t]) <=> (handlers[e][t][i].selector # "")
          /\ (<<e, t>> \in listening) <=> (handlers[e][t] # <<>>)
      BY DEF ListsInv, ListsSound
    <3> HIDE DEF kept, left
    <3>4. QED
      BY <3>1, <3>2, <3>3
  <2>3. QED
    BY <2>1, <2>2
<1>12. ListsInv'
  BY <1>6, <1>11 DEF ListsInv, ListsSound
<1>13. QED
  BY <1>7, <1>8, <1>10, <1>12

-----------------------------------------------------------------------------
(* jQuery.event.handlers: no function is collected twice for an element.    *)
LEMMA AtFacts ==
  ASSUME NEW x \in Elem, NEW hs \in Seq(Handle), IdsApart(hs)
  PROVE  /\ At(x, hs) \in Seq(Item) /\ Distinct(At(x, hs)) /\ Len(At(x, hs)) = Len(hs)
         /\ \A i \in 1 .. Len(hs) : At(x, hs)[i].elem = x /\ At(x, hs)[i].h = hs[i]
<1> DEFINE q == At(x, hs)
<1>1. Len(hs) \in Nat /\ \A i \in 1 .. Len(hs) : hs[i] \in Handle
  OBVIOUS
<1>2. q = [i \in 1 .. Len(hs) |-> [elem |-> x, h |-> hs[i]]]
  BY DEF At
<1>3. \A i \in 1 .. Len(hs) : [elem |-> x, h |-> hs[i]] \in Item
  BY <1>1 DEF Item
<1> HIDE DEF q
<1>4. q \in Seq(Item) /\ Len(q) = Len(hs)
  BY <1>1, <1>2, <1>3, IsASeq
<1>5. \A i \in 1 .. Len(hs) : q[i].elem = x /\ q[i].h = hs[i]
  BY <1>2
<1>6. Distinct(q)
  BY <1>4, <1>5 DEF Distinct, IdsApart, Pair
<1>7. QED
  BY <1>4, <1>5, <1>6 DEF q

LEMMA DistinctConcat ==
  ASSUME NEW q \in Seq(Item), NEW r \in Seq(Item), Distinct(q), Distinct(r),
         \A k \in 1 .. Len(q), l \in 1 .. Len(r) : Pair(q[k]) # Pair(r[l])
  PROVE  /\ q \o r \in Seq(Item) /\ Distinct(q \o r)
         /\ \A i \in 1 .. Len(q \o r) :
              \/ \E k \in 1 .. Len(q) : (q \o r)[i] = q[k]
              \/ \E l \in 1 .. Len(r) : (q \o r)[i] = r[l]
<1> DEFINE s == q \o r
           m == Len(q)
<1>1. /\ s \in Seq(Item) /\ Len(s) = m + Len(r) /\ m \in Nat /\ Len(r) \in Nat
      /\ \A i \in 1 .. Len(s) : s[i] = IF i <= m THEN q[i] ELSE r[i - m]
  BY ConcatProperties
<1> HIDE DEF s
<1>2. ASSUME NEW i \in 1 .. Len(s)
      PROVE  \/ i <= m /\ i \in 1 .. m /\ s[i] = q[i]
             \/ ~ i <= m /\ i - m \in 1 .. Len(r) /\ s[i] = r[i - m]
  <2> HIDE DEF m
  <2>1. QED
    BY <1>1
<1>3. Distinct(s)
  <2>1. ASSUME NEW i \in 1 .. Len(s), NEW j \in 1 .. Len(s), i < j
        PROVE  Pair(s[i]) # Pair(s[j])
    <3>1. CASE j <= m
      <4>1. i \in 1 .. m /\ j \in 1 .. m /\ s[i] = q[i] /\ s[j] = q[j]
        BY <1>1, <1>2, <2>1, <3>1
      <4>2. QED
        BY <2>1, <4>1 DEF Distinct
    <3>2. CASE i <= m /\ ~ j <= m
      <4>1. i \in 1 .. m /\ j - m \in 1 .. Len(r) /\ s[i] = q[i] /\ s[j] = r[j - m]
        BY <1>2, <3>2
      <4>2. QED
        BY <4>1
    <3>3. CASE ~ i <= m /\ ~ j <= m
      <4>1. i - m \in 1 .. Len(r) /\ j - m \in 1 .. Len(r) /\ s[i] = r[i - m] /\ s[j] = r[j - m]
        BY <1>2, <3>3
      <4>2. i - m < j - m
        BY <1>1, <2>1
      <4>3. QED
        BY <4>1, <4>2 DEF Distinct
    <3>4. i <= m \/ ~ j <= m
      BY <1>1, <2>1
    <3>5. QED
      BY <3>1, <3>2, <3>3, <3>4
  <2>2. QED
    BY <2>1 DEF Distinct
<1>4. ASSUME NEW i \in 1 .. Len(s)
      PROVE  \/ \E k \in 1 .. Len(q) : s[i] = q[k]
             \/ \E l \in 1 .. Len(r) : s[i] = r[l]
  BY <1>2
<1>5. QED
  BY <1>1, <1>3, <1>4 DEF s

(* The functions delegated to an element, for those below it.              *)
Matched(del, x) == Those(del, {h \in ToSet(del) : x \in MatchedBy[h.selector]})

IsQueue(f, del, below) ==
  f = [i \in 0 .. Len(below) |->
         IF i = 0 THEN <<>> ELSE f[i - 1] \o At(below[i], Matched(del, below[i]))]

LEMMA QueueExists ==
  ASSUME NEW del \in Seq(Handle), IdsApart(del), NEW below \in Seq(Elem)
  PROVE  LET f == CHOOSE f : IsQueue(f, del, below)
         IN  /\ f[0] = <<>> /\ \A i \in 0 .. Len(below) : f[i] \in Seq(Item)
             /\ \A i \in 1 .. Len(below) : f[i] = f[i - 1] \o At(below[i], Matched(del, below[i]))
<1> DEFINE n == Len(below)
           Q == Seq(Item)
           at(i) == At(below[i], Matched(del, below[i]))
           g == [p \in (1 .. n) \X Q |-> p[2] \o at(p[1])]
<1>1. n \in Nat /\ <<>> \in Q /\ \A i \in 1 .. n : at(i) \in Q
  <2>1. ASSUME NEW i \in 1 .. n
        PROVE  at(i) \in Q
    <3>1. below[i] \in Elem
      OBVIOUS
    <3>2. Matched(del, below[i]) \in Seq(Handle) /\ IdsApart(Matched(del, below[i]))
      BY ThoseApart DEF Matched
    <3>3. QED
      BY <3>1, <3>2, AtFacts
  <2>2. QED
    BY <2>1
<1> HIDE DEF at
<1>2. g \in [(1 .. n) \X Q -> Q] /\ \A i \in 1 .. n, q \in Q : g[<<i, q>>] = q \o at(i)
  <2>1. \A i \in 1 .. n, q \in Q : q \o at(i) \in Q
    BY <1>1
  <2> HIDE DEF Q, n
  <2>2. QED
    BY <2>1
<1> HIDE DEF g, Q, n
<1>3. PICK f : Recurs(f, Q, <<>>, n, g)
  BY <1>1, <1>2, Recursion
<1>4. f \in [0 .. n -> Q] /\ f[0] = <<>> /\ \A i \in 1 .. n : f[i] = f[i - 1] \o at(i)
  <2>1. f \in [0 .. n -> Q] /\ f[0] = <<>> /\ \A i \in 1 .. n : f[i] = g[<<i, f[i - 1]>>]
    BY <1>3 DEF Recurs
  <2>2. \A i \in 1 .. n : i - 1 \in 0 .. n
    BY <1>1
  <2>3. QED
    BY <1>2, <2>1, <2>2
<1> DEFINE body(k, i) == IF i = 0 THEN <<>> ELSE k[i - 1] \o at(i)
<1>5. IsQueue(f, del, below)
  <2>1. f = [i \in 0 .. n |-> f[i]]
    BY <1>4
  <2>2. \A i \in 0 .. n : f[i] = body(f, i)
    <3>1. \A i \in 0 .. n : i = 0 \/ (i # 0 /\ i \in 1 .. n)
      BY <1>1
    <3>2. QED
      BY <1>4, <3>1
  <2> HIDE DEF body
  <2>3. f = [i \in 0 .. n |-> body(f, i)]
    BY <2>1, <2>2
  <2>4. QED
    BY <2>3 DEF IsQueue, body, n, at
<1> DEFINE h == CHOOSE k : IsQueue(k, del, below)
<1>6. IsQueue(h, del, below)
  BY <1>5
<1> HIDE DEF h
<1>7. h[0] = <<>> /\ \A i \in 1 .. n : h[i] = h[i - 1] \o at(i)
  <2>1. h = [i \in 0 .. n |-> body(h, i)]
    BY <1>6 DEF IsQueue, n, at
  <2>2. 0 \in 0 .. n /\ \A i \in 1 .. n : i \in 0 .. n /\ i # 0
    BY <1>1
  <2> HIDE DEF body
  <2>3. \A i \in 0 .. n : h[i] = body(h, i)
    BY <2>1
  <2>4. QED
    BY <2>2, <2>3 DEF body
<1>8. \A i \in 0 .. n : h[i] \in Q
  <2> DEFINE S == {i \in 0 .. n : h[i] \in Q}
  <2>1. 0 \in S
    BY <1>1, <1>7
  <2>2. ASSUME NEW i \in 1 .. n, i - 1 \in S
        PROVE  i \in S
    <3>1. h[i - 1] \in Seq(Item) /\ at(i) \in Seq(Item) /\ h[i] = h[i - 1] \o at(i)
      BY <1>1, <1>7, <2>2 DEF Q
    <3>2. h[i] \in Seq(Item)
      BY <3>1, ConcatProperties
    <3>3. QED
      BY <3>2 DEF Q
  <2> HIDE DEF S
  <2>3. \A i \in 0 .. n : i \in S
    BY <1>1, <2>1, <2>2, UpTo
  <2>4. QED
    BY <2>3 DEF S
<1>9. QED
  BY <1>7, <1>8 DEF n, Q, at, h

(* Each function it collects is bound to the element, for the event.        *)
LEMMA HandlerQueueIs ==
  ASSUME ListsInv, Unique(handlers), NEW e \in Elem, NEW ev \in EventRec
  PROVE  /\ HandlerQueue(e, ev) \in Seq(Item) /\ Distinct(HandlerQueue(e, ev))
         /\ \A k \in 1 .. Len(HandlerQueue(e, ev)) :
              HandlerQueue(e, ev)[k].h \in Bound(handlers, e, ev.type)
<1> DEFINE hs == handlers[e][ev.type]
           n == delegateCount[e][ev.type]
           del == SubSeq(hs, 1, n)
           direct == SubSeq(hs, n + 1, Len(hs))
           below == SubSeq(Path, Depth(ev.target), Depth(e) - 1)
           f == CHOOSE f : IsQueue(f, del, below)
           all == f[Len(below)] \o At(e, direct)
<1>1. HandlerQueue(e, ev) = Those(all, {c \in ToSet(all) : ev.ns \in {"", c.h.ns}})
  BY DEF HandlerQueue, IsQueue, Matched
<1>2. ev.type \in Types /\ ev.target \in Elem
  BY DEF EventRec
<1>3. /\ hs \in Seq(Handle) /\ n \in Nat /\ Len(hs) \in Nat /\ n <= Len(hs)
      /\ \A i, j \in 1 .. Len(hs) : i < j => hs[i].id # hs[j].id
      /\ \A i \in 1 .. Len(hs) : hs[i] \in Handle /\ hs[i] \in Bound(handlers, e, ev.type)
  BY <1>2, InSet DEF ListsInv, Lists, Unique, IdsApart, Bound
<1>4. below \in Seq(Elem) /\ IsInjective(below)
  <2>1. Depth(ev.target) \in 1 .. Len(Path) /\ Depth(e) - 1 \in 0 .. Len(Path)
    BY <1>2, PathFacts
  <2>2. QED
    BY <2>1, PartFacts
<1> HIDE DEF hs, n, below
<1>5. /\ del \in Seq(Handle) /\ Len(del) = n /\ \A i \in 1 .. n : i \in 1 .. Len(hs) /\ del[i] = hs[i]
      /\ direct \in Seq(Handle) /\ Len(direct) = Len(hs) - n
      /\ \A i \in 1 .. Len(direct) : i + n \in 1 .. Len(hs) /\ direct[i] = hs[i + n]
  <2>1. /\ del \in Seq(Handle) /\ Len(del) = (IF 1 <= n THEN n - 1 + 1 ELSE 0)
        /\ \A i \in 1 .. n - 1 + 1 : del[i] = hs[1 + i - 1]
    <3>1. \A i \in 1 .. n : hs[i] \in Handle
      BY <1>3
    <3>2. QED
      BY <1>3, <3>1, SubSeqProperties
  <2>2. /\ direct \in Seq(Handle)
        /\ Len(direct) = (IF n + 1 <= Len(hs) THEN Len(hs) - (n + 1) + 1 ELSE 0)
        /\ \A i \in 1 .. Len(hs) - (n + 1) + 1 : direct[i] = hs[n + 1 + i - 1]
    <3>1. \A i \in n + 1 .. Len(hs) : hs[i] \in Handle
      BY <1>3
    <3>2. n + 1 \in 1 .. Len(hs) + 1
      BY <1>3
    <3>3. QED
      BY <1>3, <3>1, <3>2, SubSeqProperties
  <2> HIDE DEF del, direct
  <2>3. Len(del) = n /\ Len(direct) = Len(hs) - n
    BY <1>3, <2>1, <2>2
  <2>4. \A i \in 1 .. n : i \in 1 .. Len(hs) /\ del[i] = hs[i]
    <3>1. \A i \in 1 .. n : i \in 1 .. Len(hs) /\ i \in 1 .. n - 1 + 1 /\ 1 + i - 1 = i
      BY <1>3
    <3>2. QED
      BY <2>1, <3>1
  <2>5. \A i \in 1 .. Len(direct) : i + n \in 1 .. Len(hs) /\ direct[i] = hs[i + n]
    <3>1. \A i \in 1 .. Len(direct) :
            /\ i \in 1 .. Len(hs) - (n + 1) + 1 /\ n + 1 + i - 1 = i + n
            /\ i + n \in 1 .. Len(hs)
      BY <1>3, <2>3
    <3>2. QED
      BY <2>2, <3>1
  <2>6. QED
    BY <2>1, <2>2, <2>3, <2>4, <2>5
<1> HIDE DEF del, direct
<1>6. IdsApart(del) /\ IdsApart(direct)
  <2>1. IdsApart(del)
    BY <1>3, <1>5 DEF IdsApart
  <2>2. ASSUME NEW i \in 1 .. Len(direct), NEW j \in 1 .. Len(direct), i < j
        PROVE  direct[i].id # direct[j].id
    <3>1. i + n < j + n
      BY <1>3, <2>2
    <3>2. QED
      BY <1>3, <1>5, <3>1
  <2>3. QED
    BY <2>1, <2>2 DEF IdsApart
<1>7. /\ f[0] = <<>> /\ \A i \in 0 .. Len(below) : f[i] \in Seq(Item)
      /\ \A i \in 1 .. Len(below) : f[i] = f[i - 1] \o At(below[i], Matched(del, below[i]))
  BY <1>4, <1>5, <1>6, QueueExists
<1> HIDE DEF f
<1> DEFINE From(i, c) == (\E j \in 1 .. i : c.elem = below[j]) /\ c.h \in ToSet(del)
           Good(i) == Distinct(f[i]) /\ \A k \in 1 .. Len(f[i]) : From(i, f[i][k])
           S == {i \in 0 .. Len(below) : Good(i)}
<1>8. 0 \in S
  BY <1>7 DEF Distinct
<1>9. ASSUME NEW i \in 1 .. Len(below), i - 1 \in S
      PROVE  i \in S
  <2> DEFINE q == f[i - 1]
             m == Matched(del, below[i])
             r == At(below[i], m)
  <2>1. q \in Seq(Item) /\ Good(i - 1) /\ below[i] \in Elem /\ f[i] = q \o r
    <3>1. i - 1 \in 0 .. Len(below) /\ below[i] \in Elem
      BY <1>4
    <3>2. f[i - 1] \in Seq(Item) /\ f[i] = f[i - 1] \o At(below[i], Matched(del, below[i]))
      BY <1>7, <3>1
    <3>3. Good(i - 1)
      <4> HIDE DEF Good
      <4>1. QED
        BY <1>9
    <3> HIDE DEF Good
    <3>4. QED
      BY <3>1, <3>2, <3>3
  <2>2. m \in Seq(Handle) /\ IdsApart(m) /\ ToSet(m) \subseteq ToSet(del)
    BY <1>5, <1>6, ThoseApart DEF Matched
  <2> HIDE DEF m
  <2>3. /\ r \in Seq(Item) /\ Distinct(r) /\ Len(r) = Len(m)
        /\ \A l \in 1 .. Len(m) : r[l].elem = below[i] /\ r[l].h = m[l]
    BY <2>1, <2>2, AtFacts
  <2>4. \A l \in 1 .. Len(m) : m[l] \in ToSet(del)
    BY <2>2, InSet
  <2> HIDE DEF r, q
  <2>5. ASSUME NEW k \in 1 .. Len(q), NEW l \in 1 .. Len(r)
        PROVE  Pair(q[k]) # Pair(r[l])
    <3>1. PICK j \in 1 .. (i - 1) : q[k].elem = below[j]
      BY <2>1 DEF q
    <3>2. j # i /\ j \in DOMAIN below /\ i \in DOMAIN below
      BY <1>4, <3>1
    <3>3. below[j] # below[i]
      BY <1>4, <3>2 DEF IsInjective
    <3>4. QED
      BY <2>3, <3>1, <3>3 DEF Pair
  <2>6. /\ Distinct(f[i])
        /\ \A k \in 1 .. Len(f[i]) : \/ \E l \in 1 .. Len(q) : f[i][k] = q[l]
                                     \/ \E l \in 1 .. Len(r) : f[i][k] = r[l]
    <3>1. Distinct(q)
      BY <2>1 DEF q
    <3>2. q \in Seq(Item) /\ r \in Seq(Item) /\ Distinct(r) /\ f[i] = q \o r
      BY <2>1, <2>3
    <3> HIDE DEF Good, From, S
    <3>3. /\ Distinct(q \o r)
          /\ \A k \in 1 .. Len(q \o r) :
               \/ \E l \in 1 .. Len(q) : (q \o r)[k] = q[l]
               \/ \E l \in 1 .. Len(r) : (q \o r)[k] = r[l]
      <4>1. \A k \in 1 .. Len(q), l \in 1 .. Len(r) : Pair(q[k]) # Pair(r[l])
        BY <2>5
      <4>2. QED
        BY <3>1, <3>2, <4>1, DistinctConcat
    <3>4. QED
      BY <3>2, <3>3
  <2>7. \A l \in 1 .. Len(q) : From(i, q[l])
    <3>1. \A l \in 1 .. Len(q) : From(i - 1, q[l])
      BY <2>1 DEF q
    <3>2. \A j \in 1 .. (i - 1) : j \in 1 .. i
      OBVIOUS
    <3>3. QED
      BY <3>1, <3>2
  <2>8. \A l \in 1 .. Len(r) : From(i, r[l])
    <3>1. i \in 1 .. i
      OBVIOUS
    <3>2. QED
      BY <2>3, <2>4, <3>1
  <2> HIDE DEF From
  <2>9. \A k \in 1 .. Len(f[i]) : From(i, f[i][k])
    BY <2>6, <2>7, <2>8
  <2>10. QED
    BY <2>6, <2>9
<1>10. Good(Len(below))
  <2>1. Len(below) \in Nat /\ Len(below) \in 0 .. Len(below)
    BY <1>4
  <2>2. \A i \in 0 .. Len(below) : i \in S
    <3> HIDE DEF S
    <3>1. QED
      BY <1>8, <1>9, <2>1, UpTo
  <2>3. QED
    BY <2>1, <2>2
<1> DEFINE d == At(e, direct)
           q == f[Len(below)]
<1>11. /\ d \in Seq(Item) /\ Distinct(d) /\ Len(d) = Len(direct)
       /\ \A i \in 1 .. Len(direct) : d[i].elem = e /\ d[i].h = direct[i]
  BY <1>5, <1>6, AtFacts
<1>12. \A h \in ToSet(del) : \E a \in 1 .. n : h = hs[a]
  BY <1>5 DEF ToSet
<1>13. q \in Seq(Item) /\ Distinct(q) /\ \A k \in 1 .. Len(q) : q[k].h \in ToSet(del)
  BY <1>4, <1>7, <1>10
<1> HIDE DEF d, q
<1>14. ASSUME NEW k \in 1 .. Len(q), NEW l \in 1 .. Len(d)
       PROVE  Pair(q[k]) # Pair(d[l])
  <2>1. PICK a \in 1 .. n : q[k].h = hs[a]
    BY <1>12, <1>13
  <2>2. d[l].h = hs[l + n] /\ l + n \in 1 .. Len(hs) /\ a < l + n /\ a \in 1 .. Len(hs)
    BY <1>3, <1>5, <1>11
  <2>3. hs[a].id # hs[l + n].id
    BY <1>3, <2>2
  <2>4. QED
    BY <2>1, <2>2, <2>3 DEF Pair
<1>15. /\ all \in Seq(Item) /\ Distinct(all)
       /\ \A i \in 1 .. Len(all) : \/ \E k \in 1 .. Len(q) : all[i] = q[k]
                                   \/ \E l \in 1 .. Len(d) : all[i] = d[l]
  <2>1. all = q \o d
    BY DEF q, d
  <2> HIDE DEF all
  <2>2. QED
    BY <1>11, <1>13, <1>14, <2>1, DistinctConcat
<1>16. \A i \in 1 .. Len(all) : all[i].h \in Bound(handlers, e, ev.type)
  <2>1. \A k \in 1 .. Len(q) : q[k].h \in Bound(handlers, e, ev.type)
    <3>1. \A a \in 1 .. n : hs[a] \in Bound(handlers, e, ev.type)
      BY <1>3, <1>5
    <3>2. QED
      BY <1>12, <1>13, <3>1
  <2>2. \A l \in 1 .. Len(d) : d[l].h \in Bound(handlers, e, ev.type)
    <3>1. \A l \in 1 .. Len(direct) : direct[l] \in Bound(handlers, e, ev.type)
      BY <1>3, <1>5
    <3>2. QED
      BY <1>11, <3>1
  <2> HIDE DEF all
  <2>3. QED
    BY <1>15, <2>1, <2>2
<1> DEFINE T == {c \in ToSet(all) : ev.ns \in {"", c.h.ns}}
           r == HandlerQueue(e, ev)
<1>17. /\ r \in Seq(Item) /\ \A i \in 1 .. Len(r) : \E a \in 1 .. Len(all) : r[i] = all[a]
       /\ \A i, j \in 1 .. Len(r) : i < j =>
            \E a, b \in 1 .. Len(all) : a < b /\ r[i] = all[a] /\ r[j] = all[b]
  <2>1. r = Those(all, T)
    BY <1>1
  <2>2. all \in Seq(Item)
    BY <1>15
  <2> HIDE DEF all, T, r
  <2>3. Those(all, T) \in Seq(Item)
    BY <2>2, ThoseInOrder
  <2>4. \A i \in 1 .. Len(Those(all, T)) :
          Those(all, T)[i] \in T /\ \E a \in 1 .. Len(all) : Those(all, T)[i] = all[a]
    BY <2>2, ThoseInOrder
  <2>5. \A i, j \in 1 .. Len(Those(all, T)) : i < j =>
          \E a, b \in 1 .. Len(all) :
            a < b /\ Those(all, T)[i] = all[a] /\ Those(all, T)[j] = all[b]
    BY <2>2, ThoseInOrder
  <2>6. r \in Seq(Item)
    BY <2>1, <2>3
  <2>7. \A i \in 1 .. Len(r) : \E a \in 1 .. Len(all) : r[i] = all[a]
    BY <2>1, <2>4
  <2>8. \A i, j \in 1 .. Len(r) : i < j =>
          \E a, b \in 1 .. Len(all) : a < b /\ r[i] = all[a] /\ r[j] = all[b]
    BY <2>1, <2>5
  <2>9. QED
    BY <2>6, <2>7, <2>8
<1> HIDE DEF all, r
<1>18. Distinct(r)
  <2>1. ASSUME NEW i \in 1 .. Len(r), NEW j \in 1 .. Len(r), i < j
        PROVE  Pair(r[i]) # Pair(r[j])
    <3>1. PICK a \in 1 .. Len(all), b \in 1 .. Len(all) : a < b /\ r[i] = all[a] /\ r[j] = all[b]
      BY <1>17, <2>1
    <3>2. QED
      BY <1>15, <3>1 DEF Distinct
  <2>2. QED
    BY <2>1 DEF Distinct
<1>19. \A k \in 1 .. Len(r) : r[k].h \in Bound(handlers, e, ev.type)
  BY <1>16, <1>17
<1>20. QED
  BY <1>17, <1>18, <1>19 DEF r

-----------------------------------------------------------------------------
(* The events under way, when the lists change or the innermost does.       *)
Later(hs, b, ks, c) ==
  /\ b \in Nat /\ c \in Nat /\ b <= c
  /\ \A e \in Elem, t \in Types : \A h \in Bound(ks, e, t) : h \in Bound(hs, e, t) \/ ~ h.id <= b

LEMMA EventKept ==
  ASSUME NEW hs, NEW b, NEW ks, NEW c, Later(hs, b, ks, c), NEW ev, EventOK(ev, hs, b)
  PROVE  EventOK(ev, ks, c)
<1>1. 1 .. b \subseteq 1 .. c /\ \A i \in 1 .. b : i <= b
  BY DEF Later
<1>2. QueueOK(ev, ks, c)
  BY <1>1 DEF Later, EventOK, QueueOK
<1>3. SeenOK(ev, ks, c)
  BY <1>1 DEF Later, EventOK, SeenOK
<1>4. QED
  BY <1>2, <1>3 DEF EventOK

LEMMA Replaced ==
  ASSUME NEW D, NEW s \in Seq(D), s # <<>>, NEW x \in D
  PROVE  /\ <<x>> \o Tail(s) \in Seq(D) /\ Len(<<x>> \o Tail(s)) = Len(s)
         /\ (<<x>> \o Tail(s))[1] = x
         /\ \A i \in 1 .. Len(s) : i # 1 => (<<x>> \o Tail(s))[i] = s[i]
         /\ <<x>> \o Tail(s) # <<>> /\ s[1] = Head(s) /\ Head(s) \in D /\ 1 \in 1 .. Len(s)
<1> DEFINE r == <<x>> \o Tail(s)
<1>1. /\ Head(s) \in D /\ Head(s) = s[1] /\ Tail(s) \in Seq(D) /\ Len(Tail(s)) = Len(s) - 1
      /\ \A i \in 1 .. Len(Tail(s)) : Tail(s)[i] = s[i + 1]
  BY HeadTailProperties
<1>2. <<x>> \in Seq(D) /\ Len(<<x>>) = 1 /\ <<x>>[1] = x
  OBVIOUS
<1>3. Len(s) \in Nat /\ Len(s) # 0
  BY EmptySeq
<1>4. /\ r \in Seq(D) /\ Len(r) = 1 + Len(Tail(s))
      /\ \A i \in 1 .. Len(r) : r[i] = IF i <= 1 THEN <<x>>[i] ELSE Tail(s)[i - 1]
  BY <1>1, <1>2, ConcatProperties
<1> HIDE DEF r
<1>5. Len(r) = Len(s) /\ r[1] = x /\ r # <<>>
  BY <1>1, <1>2, <1>3, <1>4, EmptySeq
<1>6. ASSUME NEW i \in 1 .. Len(s), i # 1
      PROVE  r[i] = s[i]
  <2>1. i \in 1 .. Len(r) /\ ~ i <= 1 /\ i - 1 \in 1 .. Len(Tail(s)) /\ i - 1 + 1 = i
    BY <1>1, <1>3, <1>5, <1>6
  <2>2. r[i] = Tail(s)[i - 1] /\ Tail(s)[i - 1] = s[i - 1 + 1]
    BY <1>1, <1>4, <2>1
  <2>3. QED
    BY <2>1, <2>2
<1>7. QED
  BY <1>1, <1>3, <1>4, <1>5, <1>6 DEF r

LEMMA TopFacts ==
  ASSUME StackInv, stack # <<>>
  PROVE  /\ Top \in EventRec /\ EventOK(Top, handlers, binds) /\ Calm(Top, triggered)
         /\ Tail(stack) \in Seq(EventRec)
<1>1. /\ stack \in Seq(EventRec)
      /\ \A i \in 1 .. Len(stack) : EventOK(stack[i], handlers, binds)
      /\ Calm(stack[1], triggered)
  BY DEF StackInv
<1>2. Len(stack) \in Nat /\ Len(stack) # 0 /\ Head(stack) = stack[1] /\ Tail(stack) \in Seq(EventRec)
  BY <1>1, EmptySeq, HeadTailProperties
<1>3. 1 \in 1 .. Len(stack)
  BY <1>2
<1>4. EventOK(stack[1], handlers, binds)
  BY <1>1, <1>3
<1>5. QED
  BY <1>1, <1>2, <1>4 DEF Top, EventOK

LEMMA StackReplaced ==
  ASSUME StackInv, stack # <<>>, NEW ev, Replace(ev), Later(handlers, binds, handlers', binds'),
         EventOK(ev, handlers', binds'), Calm(ev, triggered')
  PROVE  StackInv'
<1>1. ev \in EventRec /\ stack \in Seq(EventRec)
  BY DEF EventOK, StackInv
<1>2. /\ stack' \in Seq(EventRec) /\ Len(stack') = Len(stack) /\ stack'[1] = ev
      /\ \A i \in 1 .. Len(stack) : i # 1 => stack'[i] = stack[i]
  BY <1>1, Replaced DEF Replace
<1>3. \A i \in 1 .. Len(stack') : EventOK(stack'[i], handlers', binds')
  <2>1. ASSUME NEW i \in 1 .. Len(stack), i # 1
        PROVE  EventOK(stack'[i], handlers', binds')
    BY <1>2, <2>1, EventKept DEF StackInv
  <2>2. QED
    BY <1>2, <2>1
<1>4. \A i \in 1 .. Len(stack') : i # 1 => ~ DefaultClick(stack'[i])
  BY <1>2 DEF StackInv
<1>5. QED
  BY <1>2, <1>3, <1>4 DEF StackInv

LEMMA StackRaised ==
  ASSUME StackInv, binds \in Nat, UserRuns, NEW ev, Raise(ev), EventOK(ev, handlers, binds),
         ~ DefaultClick(ev)
  PROVE  StackInv'
<1>1. ev \in EventRec /\ stack \in Seq(EventRec) /\ <<ev>> \in Seq(EventRec)
  BY DEF EventOK, StackInv
<1>2. stack' = <<ev>> \o stack /\ UNCHANGED <<handlers, binds, triggered>>
  BY DEF Raise, bindings
<1>3. /\ stack' \in Seq(EventRec) /\ Len(stack') = 1 + Len(stack) /\ Len(stack) \in Nat
      /\ \A i \in 1 .. Len(stack') : stack'[i] = IF i <= 1 THEN <<ev>>[i] ELSE stack[i - 1]
  <2>1. Len(<<ev>>) = 1
    OBVIOUS
  <2>2. QED
    BY <1>1, <1>2, <2>1, ConcatProperties
<1>4. \A i \in 1 .. Len(stack) : ~ DefaultClick(stack[i]) /\ EventOK(stack[i], handlers, binds)
  <2>1. stack # <<>> => ~ DefaultClick(stack[1])
    <3>1. stack # <<>> => Head(stack) = stack[1]
      BY <1>1, HeadTailProperties
    <3>2. QED
      BY <3>1 DEF StackInv, Calm, UserRuns
  <2>2. QED
    BY <1>1, <2>1, EmptySeq DEF StackInv
<1>5. ASSUME NEW i \in 1 .. Len(stack')
      PROVE  ~ DefaultClick(stack'[i]) /\ EventOK(stack'[i], handlers, binds)
  <2>1. CASE i = 1
    <3>1. stack'[i] = ev
      BY <1>3, <2>1
    <3>2. QED
      BY <3>1
  <2>2. CASE i # 1
    <3>1. i - 1 \in 1 .. Len(stack) /\ ~ i <= 1
      BY <1>3, <2>2
    <3>2. QED
      BY <1>3, <1>4, <3>1
  <2>3. QED
    BY <2>1, <2>2
<1>6. 1 \in 1 .. Len(stack')
  BY <1>3
<1>7. QED
  BY <1>2, <1>3, <1>5, <1>6 DEF StackInv, Calm

LEMMA FreshEvent ==
  ASSUME NEW type \in Types, NEW how \in {"native", "trigger", "handler", "default"},
         how = "trigger" => type = "click", NEW path \in Seq(Elem), path # <<>>,
         IsInjective(path), NEW ns \in Namespaces, NEW related \in Nat, NEW hs, NEW b
  PROVE  /\ EventOK(Event(type, how, path, ns, related), hs, b)
         /\ Event(type, how, path, ns, related).how = how
         /\ Event(type, how, path, ns, related).type = type
<1> DEFINE ev == Event(type, how, path, ns, related)
<1>1. path[1] \in Elem /\ <<>> \in Seq(Item) /\ <<>> \in Seq(Elem \X Nat)
  <2>1. Len(path) \in Nat /\ Len(path) # 0
    BY EmptySeq
  <2>2. 1 \in 1 .. Len(path)
    BY <2>1
  <2>3. QED
    BY <2>2
<1>2. ev \in EventRec
  BY <1>1 DEF Event, EventRec
<1>3. /\ ev.type = type /\ ev.how = how /\ ev.path = path /\ ev.queue = <<>> /\ ev.seen = <<>>
  BY DEF Event
<1> HIDE DEF ev
<1>4. Len(<<>>) = 0 /\ \A k \in 1 .. 0 : FALSE
  OBVIOUS
<1>5. QueueOK(ev, hs, b)
  BY <1>3, <1>4 DEF QueueOK, Distinct
<1>6. SeenOK(ev, hs, b)
  <2>1. IsInjective(<<>>)
    BY DEF IsInjective
  <2>2. QED
    BY <1>3, <1>4, <2>1 DEF SeenOK
<1>7. QED
  BY <1>2, <1>3, <1>5, <1>6 DEF EventOK, ev

-----------------------------------------------------------------------------
(* What an event leaves alone.                                             *)
LEMMA LaterSame ==
  ASSUME IdsInv, UNCHANGED <<handlers, binds>>
  PROVE  Later(handlers, binds, handlers', binds')
<1>1. binds \in Nat
  BY DEF IdsInv
<1>2. QED
  BY <1>1 DEF Later

LEMMA ListsSame ==
  ASSUME ListsInv, IdsInv, UNCHANGED <<handlers, delegateCount, listening, binds, spent>>
  PROVE  ListsInv' /\ IdsInv'
<1>1. ListsInv'
  BY DEF ListsInv, ListsSound
<1>2. IdsInv'
  BY DEF IdsInv
<1>3. QED
  BY <1>1, <1>2

LEMMA KeptByRaise ==
  ASSUME HeardInv, UserRuns, NEW ev, Raise(ev), EventOK(ev, handlers, binds), ~ DefaultClick(ev)
  PROVE  HeardInv'
<1>1. binds \in Nat
  BY DEF HeardInv, IdsInv
<1>2. StackInv'
  BY <1>1, StackRaised DEF HeardInv
<1>3. ListsInv' /\ IdsInv'
  BY ListsSame DEF HeardInv, Raise, bindings
<1>4. QED
  BY <1>2, <1>3 DEF HeardInv

LEMMA KeptByReplace ==
  ASSUME HeardInv, stack # <<>>, UNCHANGED <<bindings, binds, spent>>,
         NEW ev, Replace(ev), EventOK(ev, handlers, binds), Calm(ev, triggered')
  PROVE  HeardInv'
<1>1. ListsInv' /\ IdsInv'
  BY ListsSame DEF HeardInv, bindings
<1>2. Later(handlers, binds, handlers', binds')
  BY LaterSame DEF HeardInv, bindings
<1>3. EventOK(ev, handlers', binds')
  BY DEF bindings
<1>4. StackInv'
  BY <1>2, <1>3, StackReplaced DEF HeardInv
<1>5. QED
  BY <1>1, <1>4 DEF HeardInv

LEMMA BindingFacts ==
  \A b \in Bindings : /\ b.elem \in Elem /\ b.type \in Types \cup {"mouseenter"}
                      /\ b.selector \in STRING /\ b.fn \in STRING /\ b.ns \in STRING
                      /\ b.one \in BOOLEAN
BY EventsInput DEF GoodEvents

LEMMA NoNamespace == "" \in Namespaces
BY DEF Namespaces

LEMMA Words == "click" \in Types /\ "change" \in Types /\ "mouseover" \in Types
BY DEF Types

LEMMA Beyond == Outside \in Nat
BY PathFacts DEF Outside

LEMMA EventsInitially == EventsInit => HeardInv
<1> SUFFICES ASSUME EventsInit
             PROVE  HeardInv
  OBVIOUS
<1>1. /\ handlers = [e \in Elem |-> [t \in Types |-> <<>>]]
      /\ delegateCount = [e \in Elem |-> [t \in Types |-> 0]]
      /\ listening = {} /\ stack = <<>> /\ binds = 0 /\ spent = {}
  BY DEF EventsInit
<1>2. \A e \in Elem, t \in Types : handlers[e][t] = <<>> /\ delegateCount[e][t] = 0
  BY <1>1
<1>3. Len(<<>>) = 0 /\ 1 .. 0 = {} /\ <<>> \in Seq(Handle) /\ <<>> \in Seq(EventRec) /\ ToSet(<<>>) = {}
  BY DEF ToSet
<1>4. handlers \in Lists /\ delegateCount \in [Elem -> [Types -> Nat]]
  BY <1>1, <1>3 DEF Lists
<1>5. ListsInv
  BY <1>1, <1>2, <1>3, <1>4 DEF ListsInv, ListsSound
<1>6. IdsInv
  BY <1>1, <1>2, <1>3 DEF IdsInv, Unique, IdsApart, Bound
<1>7. StackInv
  BY <1>1, <1>3 DEF StackInv
<1>8. QED
  BY <1>5, <1>6, <1>7 DEF HeardInv

LEMMA EventsNative ==
  ASSUME HeardInv, NEW e \in Elem, NEW type \in {"click", "mouseover"}, NEW related \in 1 .. Outside,
         Native(e, type, related)
  PROVE  HeardInv'
<1>1. type \in Types /\ type # "x" /\ related \in Nat
  <2>1. type \in Types
    BY DEF Types
  <2>2. related \in Nat
    OBVIOUS
  <2>3. QED
    BY <2>1, <2>2
<1>2. Up(e) \in Seq(Elem) /\ IsInjective(Up(e)) /\ Up(e) # <<>>
  BY UpFacts
<1> DEFINE ev == Event(type, "native", Up(e), "", related)
<1>3. EventOK(ev, handlers, binds) /\ ev.how = "native"
  <2> DEFINE how == "native"
             ns == ""
             path == Up(e)
  <2>1. how \in {"native", "trigger", "handler", "default"} /\ how # "trigger" /\ ns \in Namespaces
    BY NoNamespace
  <2> HIDE DEF how, ns, path
  <2>2. EventOK(Event(type, how, path, ns, related), handlers, binds)
        /\ Event(type, how, path, ns, related).how = how
    BY <1>1, <1>2, <2>1, FreshEvent DEF path
  <2>3. QED
    BY <2>2 DEF how, ns, path
<1>4. Raise(ev) /\ UserRuns
  BY DEF Native, UserRuns
<1> HIDE DEF ev
<1>5. QED
  BY <1>3, <1>4, KeptByRaise DEF DefaultClick

LEMMA EventsTrigger ==
  ASSUME HeardInv, NEW e \in Elem, NEW ns \in Namespaces, Trigger(e, ns)
  PROVE  HeardInv'
<1>1. Up(e) \in Seq(Elem) /\ IsInjective(Up(e)) /\ Up(e) # <<>>
  BY UpFacts
<1> DEFINE ev == Event("click", "native", Up(e), "", Outside)
           fv == Event("click", "trigger", Up(e), ns, Outside)
<1>2. EventOK(ev, handlers, binds) /\ ev.how = "native"
  <2> DEFINE how == "native"
             type == "click"
             none == ""
             path == Up(e)
  <2>1. /\ how \in {"native", "trigger", "handler", "default"} /\ how # "trigger"
        /\ type \in Types /\ none \in Namespaces
    BY NoNamespace, Words
  <2> HIDE DEF how, type, none, path
  <2>2. /\ EventOK(Event(type, how, path, none, Outside), handlers, binds)
        /\ Event(type, how, path, none, Outside).how = how
    BY <1>1, <2>1, Beyond, FreshEvent DEF path
  <2>3. QED
    BY <2>2 DEF how, type, none, path
<1>3. EventOK(fv, handlers, binds) /\ fv.how = "trigger"
  <2> DEFINE how == "trigger"
             type == "click"
             path == Up(e)
  <2>1. how \in {"native", "trigger", "handler", "default"} /\ type \in Types /\ type = "click"
    BY Words
  <2> HIDE DEF how, type, path
  <2>2. /\ EventOK(Event(type, how, path, ns, Outside), handlers, binds)
        /\ Event(type, how, path, ns, Outside).how = how
    BY <1>1, <2>1, Beyond, FreshEvent DEF path
  <2>3. QED
    BY <2>2 DEF how, type, path
<1>4. UserRuns /\ (Raise(ev) \/ Raise(fv))
  BY DEF Trigger
<1> HIDE DEF ev, fv
<1>5. QED
  BY <1>2, <1>3, <1>4, KeptByRaise DEF DefaultClick

LEMMA EventsTriggerHandler ==
  ASSUME HeardInv, NEW e \in Elem, NEW ns \in Namespaces, TriggerHandler(e, ns)
  PROVE  HeardInv'
<1>1. <<e>> \in Seq(Elem) /\ IsInjective(<<e>>) /\ <<e>> # <<>>
  BY DEF IsInjective
<1> DEFINE ev == Event("click", "handler", <<e>>, ns, Outside)
<1>2. EventOK(ev, handlers, binds) /\ ev.how = "handler"
  <2> DEFINE how == "handler"
             type == "click"
             path == <<e>>
  <2>1. /\ how \in {"native", "trigger", "handler", "default"} /\ how # "trigger"
        /\ type \in Types
    BY Words
  <2>2. path \in Seq(Elem) /\ IsInjective(path) /\ path # <<>>
    BY <1>1
  <2> HIDE DEF how, type, path
  <2>3. /\ EventOK(Event(type, how, path, ns, Outside), handlers, binds)
        /\ Event(type, how, path, ns, Outside).how = how
    BY <2>1, <2>2, Beyond, FreshEvent
  <2>4. QED
    BY <2>3 DEF how, type, path
<1>3. Raise(ev) /\ UserRuns
  BY DEF TriggerHandler
<1> HIDE DEF ev
<1>4. QED
  BY <1>2, <1>3, KeptByRaise DEF DefaultClick

-----------------------------------------------------------------------------
(* The event arrives at an element that it has not been at.                *)
LEMMA EventsArrive ==
  ASSUME HeardInv, Arrive
  PROVE  HeardInv'
<1> DEFINE e == Head(Top.path)
           Q == IF <<e, Top.type>> \in listening /\ ~ Silenced(Top.type)
                THEN HandlerQueue(e, Top) ELSE <<>>
           ev == [Top EXCEPT !.path = Tail(@), !.owner = e, !.queue = Q]
<1>1. /\ stack # <<>> /\ ~ Top.running /\ Top.path # <<>> /\ Replace(ev)
      /\ UNCHANGED <<bindings, binds, spent, triggered>>
  BY DEF Arrive, counts
<1>2. /\ Top \in EventRec /\ EventOK(Top, handlers, binds) /\ Calm(Top, triggered)
      /\ ListsInv /\ IdsInv /\ Unique(handlers)
  BY <1>1, TopFacts DEF HeardInv, IdsInv
<1>3. Top.path \in Seq(Elem) /\ Top.type \in Types /\ IsInjective(Top.path)
  BY <1>2 DEF EventRec, EventOK
<1>4. /\ e \in Elem /\ e \in ToSet(Top.path) /\ Tail(Top.path) \in Seq(Elem)
      /\ IsInjective(Tail(Top.path)) /\ e \notin ToSet(Tail(Top.path))
      /\ ToSet(Tail(Top.path)) \subseteq ToSet(Top.path)
  <2> DEFINE p == Top.path
  <2>1. /\ Head(p) \in Elem /\ Head(p) = p[1] /\ Tail(p) \in Seq(Elem)
        /\ Len(Tail(p)) = Len(p) - 1 /\ \A i \in 1 .. Len(Tail(p)) : Tail(p)[i] = p[i + 1]
    BY <1>1, <1>3, HeadTailProperties
  <2>2. Len(p) \in Nat /\ Len(p) # 0 /\ DOMAIN p = 1 .. Len(p) /\ DOMAIN Tail(p) = 1 .. Len(Tail(p))
    BY <1>1, <1>3, <2>1, EmptySeq
  <2> HIDE DEF p
  <2>3. 1 \in DOMAIN p /\ \A i \in DOMAIN Tail(p) : i + 1 \in DOMAIN p /\ i + 1 # 1
    BY <2>1, <2>2
  <2>4. \A i, j \in DOMAIN p : p[i] = p[j] => i = j
    BY <1>3 DEF p, IsInjective
  <2>5. IsInjective(Tail(p))
    <3>1. ASSUME NEW i \in DOMAIN Tail(p), NEW j \in DOMAIN Tail(p), Tail(p)[i] = Tail(p)[j]
          PROVE  i = j
      <4>1. p[i + 1] = p[j + 1]
        BY <2>1, <2>2, <3>1
      <4>2. i + 1 = j + 1
        BY <2>3, <2>4, <4>1
      <4>3. QED
        BY <2>2, <4>2
    <3>2. QED
      BY <3>1 DEF IsInjective
  <2>6. Head(p) \notin ToSet(Tail(p)) /\ ToSet(Tail(p)) \subseteq ToSet(p)
    <3>1. \A i \in DOMAIN Tail(p) : Tail(p)[i] \in ToSet(p) /\ Tail(p)[i] # p[1]
      BY <2>1, <2>2, <2>3, <2>4 DEF ToSet
    <3>2. QED
      BY <2>1, <3>1 DEF ToSet
  <2>7. Head(p) \in ToSet(p)
    BY <2>1, <2>3 DEF ToSet
  <2>8. QED
    BY <2>1, <2>5, <2>6, <2>7 DEF p
<1>5. /\ Q \in Seq(Item) /\ Distinct(Q)
      /\ \A k \in 1 .. Len(Q) : Q[k].h \in Bound(handlers, e, Top.type) /\ ~ Silenced(Top.type)
  <2>1. HandlerQueue(e, Top) \in Seq(Item) /\ Distinct(HandlerQueue(e, Top))
        /\ \A k \in 1 .. Len(HandlerQueue(e, Top)) :
             HandlerQueue(e, Top)[k].h \in Bound(handlers, e, Top.type)
    BY <1>2, <1>4, HandlerQueueIs
  <2>2. <<>> \in Seq(Item) /\ Distinct(<<>>) /\ 1 .. Len(<<>>) = {}
    BY DEF Distinct
  <2>3. QED
    BY <2>1, <2>2
<1> HIDE DEF Q
<1>6. /\ ev \in EventRec /\ ev.path = Tail(Top.path) /\ ev.owner = e /\ ev.queue = Q
      /\ ev.type = Top.type /\ ev.how = Top.how /\ ev.seen = Top.seen /\ ev.running = Top.running
  <2>1. Tail(Top.path) \in Seq(Elem) /\ e \in Elem /\ Q \in Seq(Item)
    BY <1>4, <1>5
  <2> HIDE DEF e
  <2>2. QED
    BY <1>2, <2>1 DEF EventRec
<1> HIDE DEF ev, e
<1>7. SeenOK(ev, handlers, binds)
  <2>1. \A f \in Elem, t \in Types : Past(Top, f, t) => Past(ev, f, t)
    BY <1>4, <1>6 DEF Past
  <2>2. QED
    BY <1>2, <1>6, <2>1 DEF EventOK, SeenOK
<1>8. ASSUME NEW k \in 1 .. Len(Q)
      PROVE  /\ Q[k].h.id \in 1 .. binds
             /\ \A f \in Elem, t \in Types : \A h \in Bound(handlers, f, t) :
                  h.id = Q[k].h.id => f = e /\ t = Top.type /\ h = Q[k].h
             /\ \A l \in 1 .. Len(Top.seen) : Top.seen[l] # Pair(Q[k])
  <2>1. Q[k].h \in Bound(handlers, e, Top.type) /\ ~ Silenced(Top.type)
    BY <1>5
  <2>2. Q[k].h.id \in 1 .. binds
    BY <1>2, <1>3, <1>4, <2>1 DEF IdsInv
  <2>3. \A f \in Elem, t \in Types : \A h \in Bound(handlers, f, t) :
          h.id = Q[k].h.id => f = e /\ t = Top.type /\ h = Q[k].h
    BY <1>2, <1>3, <1>4, <2>1 DEF Unique
  <2>4. ~ Past(Top, e, Top.type)
    BY <1>2, <1>4, <2>1 DEF Past, Calm, DefaultClick, Silenced
  <2>5. ASSUME NEW l \in 1 .. Len(Top.seen), Top.seen[l] = Pair(Q[k])
        PROVE  FALSE
    <3>1. Top.seen[l][2] = Q[k].h.id
      BY <2>5 DEF Pair
    <3>2. Past(Top, e, Top.type)
      BY <1>2, <1>3, <1>4, <2>1, <3>1 DEF EventOK, SeenOK
    <3>3. QED
      BY <2>4, <3>2
  <2>6. QED
    BY <2>2, <2>3, <2>5
<1>9. QueueOK(ev, handlers, binds)
  BY <1>4, <1>5, <1>6, <1>8 DEF QueueOK
<1>10. EventOK(ev, handlers, binds)
  BY <1>2, <1>4, <1>6, <1>7, <1>9 DEF EventOK
<1>11. Calm(ev, triggered')
  <2>1. DefaultClick(ev) => Silenced(Top.type)
    BY <1>1, <1>2, <1>6 DEF Calm, DefaultClick, Silenced
  <2>2. Silenced(Top.type) => Q = <<>>
    BY DEF Q
  <2>3. QED
    BY <1>1, <1>2, <1>6, <2>1, <2>2 DEF Calm, DefaultClick
<1>12. QED
  BY <1>1, <1>10, <1>11, KeptByReplace

-----------------------------------------------------------------------------
(* The next function of the event is called, or none any more; it returns. *)
LEMMA EventRest ==
  ASSUME NEW hs, NEW b, NEW ev, EventOK(ev, hs, b), NEW new \in EventRec,
         new.type = ev.type, new.how = ev.how, new.path = ev.path, new.owner = ev.owner,
         new.seen = ev.seen, new.queue \in {ev.queue, <<>>}
  PROVE  EventOK(new, hs, b)
<1>1. SeenOK(new, hs, b)
  BY DEF EventOK, SeenOK, Past
<1>2. QueueOK(new, hs, b)
  <2>1. CASE new.queue = ev.queue
    BY <2>1 DEF EventOK, QueueOK
  <2>2. CASE new.queue = <<>>
    <3>1. 1 .. Len(<<>>) = {}
      OBVIOUS
    <3>2. QED
      BY <2>2, <3>1 DEF QueueOK, Distinct
  <2>3. QED
    BY <2>1, <2>2
<1>3. QED
  BY <1>1, <1>2 DEF EventOK

LEMMA EventsSkip ==
  ASSUME HeardInv, Skip
  PROVE  HeardInv'
<1> DEFINE new == [Top EXCEPT !.queue = <<>>]
<1>1. stack # <<>> /\ Replace(new) /\ UNCHANGED <<bindings, binds, spent, triggered>>
  BY DEF Skip, HasNext, counts
<1>2. Top \in EventRec /\ EventOK(Top, handlers, binds) /\ Calm(Top, triggered)
  BY <1>1, TopFacts DEF HeardInv
<1>3. /\ new \in EventRec /\ new.type = Top.type /\ new.how = Top.how /\ new.path = Top.path
      /\ new.owner = Top.owner /\ new.seen = Top.seen /\ new.queue = <<>>
      /\ new.running = Top.running
  <2>1. <<>> \in Seq(Item)
    OBVIOUS
  <2>2. QED
    BY <1>2, <2>1 DEF EventRec
<1> HIDE DEF new
<1>4. EventOK(new, handlers, binds) /\ Calm(new, triggered')
  BY <1>1, <1>2, <1>3, EventRest DEF Calm, DefaultClick
<1>5. QED
  BY <1>1, <1>4, KeptByReplace

LEMMA EventsReturn ==
  ASSUME HeardInv, NEW ask, Return(ask)
  PROVE  HeardInv'
<1> DEFINE prevented == Top.prevented \/ ask \in {"prevent", "false"}
           stopped == Top.stopped \/ ask \in {"stop", "immediate", "false"}
           immediate == Top.immediate \/ ask = "immediate"
           new == [Top EXCEPT !.running = FALSE, !.prevented = prevented, !.stopped = stopped,
                              !.immediate = immediate]
<1>1. stack # <<>> /\ Replace(new) /\ UNCHANGED <<bindings, binds, spent, triggered>>
  BY DEF Return, counts
<1>2. Top \in EventRec /\ EventOK(Top, handlers, binds) /\ Calm(Top, triggered)
  BY <1>1, TopFacts DEF HeardInv
<1>3. prevented \in BOOLEAN /\ stopped \in BOOLEAN /\ immediate \in BOOLEAN
  BY <1>2 DEF EventRec
<1> HIDE DEF prevented, stopped, immediate
<1>4. /\ new \in EventRec /\ new.type = Top.type /\ new.how = Top.how /\ new.path = Top.path
      /\ new.owner = Top.owner /\ new.seen = Top.seen /\ new.queue = Top.queue
      /\ new.running = FALSE
  BY <1>2, <1>3 DEF EventRec
<1> HIDE DEF new
<1>5. EventOK(new, handlers, binds) /\ Calm(new, triggered')
  BY <1>1, <1>2, <1>4, EventRest DEF Calm, DefaultClick
<1>6. QED
  BY <1>1, <1>5, KeptByReplace

(* An event of which the next function is called.                          *)
LEMMA EventCalled ==
  ASSUME NEW hs, NEW b, NEW ev, EventOK(ev, hs, b), ev.queue # <<>>, NEW new \in EventRec,
         new.type = ev.type, new.how = ev.how, new.path = ev.path, new.owner = ev.owner,
         new.queue = Tail(ev.queue),
         new.seen \in {ev.seen, Append(ev.seen, Pair(Head(ev.queue)))}
  PROVE  EventOK(new, hs, b)
<1> DEFINE q == ev.queue
           r == new.queue
           c == Head(q)
           s == ev.seen
           z == new.seen
<1>1. q \in Seq(Item) /\ s \in Seq(Elem \X Nat) /\ r \in Seq(Item) /\ z \in Seq(Elem \X Nat)
  BY DEF EventOK, EventRec
<1>2. /\ c = q[1] /\ r = Tail(q) /\ Len(r) = Len(q) - 1
      /\ \A k \in 1 .. Len(r) : r[k] = q[k + 1]
  BY <1>1, HeadTailProperties
<1>3. /\ ev.owner \notin ToSet(ev.path) /\ Distinct(q) /\ IsInjective(s)
      /\ \A k \in 1 .. Len(q) :
           /\ q[k].h.id \in 1 .. b
           /\ \A e \in Elem, t \in Types : \A h \in Bound(hs, e, t) :
                h.id = q[k].h.id => e = ev.owner /\ t = ev.type /\ h = q[k].h
           /\ \A l \in 1 .. Len(s) : s[l] # Pair(q[k])
      /\ \A k \in 1 .. Len(s) :
           /\ s[k][2] \in 1 .. b
           /\ \A e \in Elem, t \in Types : \A h \in Bound(hs, e, t) :
                h.id = s[k][2] => Past(ev, e, t)
  BY DEF EventOK, QueueOK, SeenOK
<1>4. z = s \/ z = Append(s, Pair(c))
  OBVIOUS
<1>5. /\ new.owner = ev.owner /\ new.path = ev.path /\ new.type = ev.type
      /\ \A e, t : Past(ev, e, t) => Past(new, e, t)
  BY DEF Past
<1> HIDE DEF q, r, c, s, z
<1>6. Len(q) \in Nat /\ Len(q) # 0 /\ 1 \in 1 .. Len(q) /\ Len(s) \in Nat
  BY <1>1, EmptySeq DEF q
<1>7. \A k \in 1 .. Len(r) : k + 1 \in 1 .. Len(q) /\ 1 < k + 1
  BY <1>2, <1>6
<1>8. Pair(c) \in Elem \X Nat
  <2>1. c \in Item
    BY <1>1, <1>2, <1>6
  <2>2. c.elem \in Elem /\ c.h \in Handle
    BY <2>1 DEF Item
  <2>3. c.h.id \in Nat
    BY <2>2 DEF Handle
  <2>4. QED
    BY <2>2, <2>3 DEF Pair
<1>9. \A l \in 1 .. Len(z) : z[l] = Pair(c) \/ (l \in 1 .. Len(s) /\ z[l] = s[l])
  <2>1. CASE z = s
    BY <2>1
  <2>2. CASE z = Append(s, Pair(c))
    <3>1. /\ Len(z) = Len(s) + 1 /\ z[Len(s) + 1] = Pair(c)
          /\ \A i \in 1 .. Len(s) : z[i] = s[i]
      BY <1>1, <2>2, <1>8, AppendProperties
    <3>2. QED
      BY <1>6, <3>1
  <2>3. QED
    BY <1>4, <2>1, <2>2
<1>10. IsInjective(z)
  <2>1. CASE z = s
    BY <1>3, <2>1
  <2>2. CASE z = Append(s, Pair(c))
    <3>1. /\ Len(z) = Len(s) + 1 /\ z[Len(s) + 1] = Pair(c)
          /\ \A i \in 1 .. Len(s) : z[i] = s[i]
      BY <1>1, <1>8, <2>2, AppendProperties
    <3>2. /\ DOMAIN z = 1 .. Len(z) /\ DOMAIN s = 1 .. Len(s)
          /\ \A i \in 1 .. Len(z) : i \in 1 .. Len(s) \/ i = Len(s) + 1
      BY <1>1, <1>6, <3>1
    <3>3. \A i \in 1 .. Len(s) : s[i] # Pair(c)
      BY <1>2, <1>3, <1>6
    <3>4. \A i, j \in DOMAIN z : z[i] = z[j] => i = j
      BY <1>3, <3>1, <3>2, <3>3 DEF IsInjective
    <3>5. QED
      BY <3>4 DEF IsInjective
  <2>3. QED
    BY <1>4, <2>1, <2>2
<1>11. SeenOK(new, hs, b)
  <2>1. ASSUME NEW k \in 1 .. Len(z)
        PROVE  /\ z[k][2] \in 1 .. b
               /\ \A e \in Elem, t \in Types : \A h \in Bound(hs, e, t) :
                    h.id = z[k][2] => Past(new, e, t)
    <3>1. CASE z[k] = Pair(c)
      <4>1. z[k][2] = q[1].h.id
        BY <1>2, <3>1 DEF Pair
      <4>2. q[1].h.id \in 1 .. b /\ \A e \in Elem, t \in Types : \A h \in Bound(hs, e, t) :
              h.id = q[1].h.id => e = ev.owner /\ t = ev.type
        BY <1>3, <1>6
      <4>3. Past(new, ev.owner, ev.type)
        BY <1>3, <1>5 DEF Past
      <4>4. QED
        BY <4>1, <4>2, <4>3
    <3>2. CASE k \in 1 .. Len(s) /\ z[k] = s[k]
      BY <1>3, <1>5, <3>2
    <3>3. QED
      BY <1>9, <3>1, <3>2
  <2>2. QED
    BY <1>10, <2>1 DEF SeenOK, z
<1>12. QueueOK(new, hs, b)
  <2>1. ASSUME NEW k \in 1 .. Len(r)
        PROVE  /\ r[k].h.id \in 1 .. b
               /\ \A e \in Elem, t \in Types : \A h \in Bound(hs, e, t) :
                    h.id = r[k].h.id => e = ev.owner /\ t = ev.type /\ h = r[k].h
               /\ \A l \in 1 .. Len(z) : z[l] # Pair(r[k])
    <3> DEFINE m == k + 1
    <3>1. r[k] = q[m] /\ m \in 1 .. Len(q) /\ 1 < m
      BY <1>2, <1>7
    <3> HIDE DEF m
    <3>2. Pair(c) # Pair(q[m])
      BY <1>2, <1>3, <1>6, <3>1 DEF Distinct
    <3>3. \A l \in 1 .. Len(s) : s[l] # Pair(q[m])
      BY <1>3, <3>1
    <3>4. \A l \in 1 .. Len(z) : z[l] # Pair(r[k])
      BY <1>9, <3>1, <3>2, <3>3
    <3>5. QED
      BY <1>3, <3>1, <3>4
  <2>2. Distinct(r)
    <3>1. ASSUME NEW k \in 1 .. Len(r), NEW l \in 1 .. Len(r), k < l
          PROVE  Pair(r[k]) # Pair(r[l])
      <4> DEFINE m == k + 1
                 n == l + 1
      <4>1. r[k] = q[m] /\ m \in 1 .. Len(q) /\ r[l] = q[n] /\ n \in 1 .. Len(q)
        BY <1>2, <1>7
      <4>2. m < n
        BY <3>1
      <4> HIDE DEF m, n
      <4>3. QED
        BY <1>3, <4>1, <4>2 DEF Distinct
    <3>2. QED
      BY <3>1 DEF Distinct
  <2>3. QED
    BY <1>3, <1>5, <2>1, <2>2 DEF QueueOK, r, z
<1>13. QED
  BY <1>5, <1>11, <1>12 DEF EventOK

(* One for one call is first taken off: it is spent, and no more bound.     *)
LEMMA EventsCall ==
  ASSUME HeardInv, Call
  PROVE  HeardInv'
<1> DEFINE c == Head(Top.queue)
           on == Entered(c)
           heard == IF on THEN Append(Top.seen, <<c.elem, c.h.id>>) ELSE Top.seen
           new == [Top EXCEPT !.queue = Tail(@), !.at = c.elem, !.running = on, !.seen = heard]
           off == remove(Top.owner, c.h.type, c.h.fn, c.h.ns, c.h.selector)
<1>1. /\ stack # <<>> /\ Top.queue # <<>> /\ Replace(new) /\ UNCHANGED <<triggered, binds>>
      /\ \/ on /\ c.h.one /\ spent' = spent \cup {c.h.id} /\ off
         \/ UNCHANGED <<bindings, spent>>
  BY DEF Call, HasNext, counts, Spent
<1>2. /\ Top \in EventRec /\ EventOK(Top, handlers, binds) /\ Calm(Top, triggered)
      /\ ListsInv /\ IdsInv /\ Unique(handlers) /\ StackInv
  BY <1>1, TopFacts DEF HeardInv, IdsInv
<1>3. Top.queue \in Seq(Item) /\ Top.seen \in Seq(Elem \X Nat) /\ Top.owner \in Elem
  BY <1>2 DEF EventRec
<1>4. /\ c \in Item /\ c = Top.queue[1] /\ Tail(Top.queue) \in Seq(Item)
      /\ 1 \in 1 .. Len(Top.queue)
  <2>1. Len(Top.queue) \in Nat /\ Len(Top.queue) # 0
    BY <1>1, <1>3, EmptySeq
  <2>2. QED
    BY <1>1, <1>3, <2>1, HeadTailProperties
<1>5. /\ c.elem \in Elem /\ <<c.elem, c.h.id>> \in Elem \X Nat
      /\ c.h \in Handle
  <2> HIDE DEF c
  <2>1. c.elem \in Elem /\ c.h \in Handle
    BY <1>4 DEF Item
  <2>2. c.h.id \in Nat
    BY <2>1 DEF Handle
  <2>3. QED
    BY <2>1, <2>2
<1>6. /\ c.h.id \in 1 .. binds
      /\ \A e \in Elem, t \in Types : \A h \in Bound(handlers, e, t) :
           h.id = c.h.id => e = Top.owner /\ t = Top.type /\ h = c.h
  BY <1>2, <1>4 DEF EventOK, QueueOK
<1> HIDE DEF c
<1>7. on \in BOOLEAN /\ heard \in Seq(Elem \X Nat)
  <2>1. on \in BOOLEAN
    BY DEF Entered
  <2>2. Append(Top.seen, <<c.elem, c.h.id>>) \in Seq(Elem \X Nat)
    BY <1>3, <1>5, AppendProperties
  <2>3. QED
    BY <1>3, <2>1, <2>2
<1>8. heard \in {Top.seen, Append(Top.seen, Pair(c))}
  BY DEF Pair
<1> HIDE DEF on, heard
<1>9. /\ new \in EventRec /\ new.type = Top.type /\ new.how = Top.how /\ new.path = Top.path
      /\ new.owner = Top.owner /\ new.queue = Tail(Top.queue) /\ new.seen = heard
  BY <1>2, <1>4, <1>5, <1>7 DEF EventRec
<1> HIDE DEF new
<1>10. /\ ListsInv' /\ Unique(handlers)' /\ spent' \in SUBSET (1 .. binds)
       /\ \A e \in Elem, t \in Types : Bound(handlers', e, t) \subseteq Bound(handlers, e, t)
       /\ \A e \in Elem, t \in Types : \A h \in Bound(handlers', e, t) : h.id \notin spent'
  <2>1. CASE spent' = spent \cup {c.h.id} /\ off
    <3>1. /\ ListsInv' /\ Unique(handlers)'
          /\ \A e \in Elem, t \in Types : Bound(handlers', e, t) \subseteq Bound(handlers, e, t)
          /\ \A t \in Types : \A h \in Bound(handlers', Top.owner, t) :
               ~ Hit(h, c.h.type, c.h.fn, c.h.ns, c.h.selector)
      BY <1>2, <1>3, <2>1, RemoveIs
    <3> HIDE DEF off
    <3>2. Hit(c.h, c.h.type, c.h.fn, c.h.ns, c.h.selector)
      BY DEF Hit
    <3>3. \A e \in Elem, t \in Types : \A h \in Bound(handlers', e, t) : h.id # c.h.id
      BY <1>6, <3>1, <3>2
    <3>4. spent \in SUBSET (1 .. binds)
          /\ \A e \in Elem, t \in Types : \A h \in Bound(handlers, e, t) : h.id \notin spent
      BY <1>2 DEF IdsInv
    <3>5. QED
      BY <1>6, <2>1, <3>1, <3>3, <3>4
  <2>2. CASE UNCHANGED <<bindings, spent>>
    <3>1. UNCHANGED <<handlers, delegateCount, listening, binds, spent>>
      BY <1>1, <2>2 DEF bindings
    <3>2. ListsInv' /\ IdsInv'
      BY <1>2, <3>1, ListsSame
    <3>3. QED
      BY <3>1, <3>2 DEF IdsInv
  <2>3. QED
    BY <1>1, <2>1, <2>2
<1>11. IdsInv'
  BY <1>1, <1>2, <1>10 DEF IdsInv
<1>12. Later(handlers, binds, handlers', binds')
  BY <1>1, <1>2, <1>10 DEF IdsInv, Later
<1>13. EventOK(new, handlers', binds')
  <2>1. EventOK(Top, handlers', binds')
    BY <1>2, <1>12, EventKept
  <2>2. new.seen \in {Top.seen, Append(Top.seen, Pair(Head(Top.queue)))}
    BY <1>8, <1>9 DEF c
  <2>3. QED
    BY <1>1, <1>9, <2>1, <2>2, EventCalled
<1>14. Calm(new, triggered')
  BY <1>1, <1>2, <1>9 DEF Calm, DefaultClick
<1>15. StackInv'
  BY <1>1, <1>2, <1>12, <1>13, <1>14, StackReplaced
<1>16. QED
  BY <1>10, <1>11, <1>15 DEF HeardInv

(* The default action of a triggered click, the change of a box, or the end *)
(* of it all.                                                              *)
LEMMA EventGoesOn ==
  ASSUME NEW hs, NEW b, NEW ev, EventOK(ev, hs, b), Clicks(ev) \/ Changes(ev),
         NEW how \in {"native", "default"}, NEW type \in {"click", "change"},
         type = "click" => Clicks(ev) /\ how = "default",
         type = "change" => Changes(ev)
  PROVE  EventOK(ByDefault(ev, how, type), hs, b)
<1> DEFINE new == ByDefault(ev, how, type)
<1>1. ev \in EventRec /\ ev.target \in Elem /\ ev.seen \in Seq(Elem \X Nat)
  BY DEF EventOK, EventRec
<1>2. Up(ev.target) \in Seq(Elem) /\ IsInjective(Up(ev.target)) /\ Up(ev.target) # <<>>
  BY <1>1, UpFacts
<1>3. type \in Types
  BY DEF Types
<1>4. how \in {"native", "trigger", "handler", "default"} /\ how # "trigger"
  OBVIOUS
<1> DEFINE none == ""
           path == Up(ev.target)
<1> HIDE DEF none, path
<1>5. /\ new = [Event(type, how, path, none, Outside) EXCEPT !.seen = ev.seen]
      /\ path \in Seq(Elem) /\ IsInjective(path) /\ path # <<>> /\ none \in Namespaces
  BY <1>1, <1>2, NoNamespace DEF ByDefault, none, path
<1>6. /\ new \in EventRec /\ new.type = type /\ new.how = how /\ new.path = path
      /\ new.seen = ev.seen /\ new.queue = <<>>
  <2> DEFINE old == Event(type, how, path, none, Outside)
  <2>1. old \in EventRec /\ old.type = type /\ old.how = how /\ old.path = path /\ old.queue = <<>>
    <3>1. EventOK(old, hs, b)
      BY <1>3, <1>4, <1>5, Beyond, FreshEvent
    <3>2. QED
      BY <3>1 DEF EventOK, Event
  <2> HIDE DEF old
  <2>2. new = [old EXCEPT !.seen = ev.seen]
    BY <1>5 DEF old
  <2> HIDE DEF new
  <2>3. QED
    BY <1>1, <2>1, <2>2 DEF EventRec
<1> HIDE DEF new
<1>7. QueueOK(new, hs, b)
  <2>1. 1 .. Len(<<>>) = {}
    OBVIOUS
  <2>2. QED
    BY <1>6, <2>1 DEF QueueOK, Distinct
<1>8. \A e \in Elem, t \in Types : Past(ev, e, t) => Past(new, e, t)
  <2>1. type = "change" => ev.type = "click"
    BY DEF Changes
  <2>2. type = "click" => ev.type = "click"
    BY DEF Clicks, EventOK
  <2>3. QED
    BY <1>6, <2>1, <2>2 DEF Past
<1>9. SeenOK(new, hs, b)
  BY <1>6, <1>8 DEF EventOK, SeenOK
<1>10. QED
  BY <1>4, <1>5, <1>6, <1>7, <1>9 DEF EventOK, new

LEMMA EventsEnd ==
  ASSUME HeardInv, EndEvent
  PROVE  HeardInv'
<1>1. stack # <<>> /\ Top.queue = <<>> /\ ~ Top.running /\ UNCHANGED <<bindings, binds, spent>>
  BY DEF EndEvent, Over, counts
<1>2. Top \in EventRec /\ EventOK(Top, handlers, binds) /\ Calm(Top, triggered)
  BY <1>1, TopFacts DEF HeardInv
<1> DEFINE Started(how, type) ==
             /\ ByDefault(Top, how, type).how = how /\ ByDefault(Top, how, type).type = type
             /\ ByDefault(Top, how, type).queue = <<>>
             /\ ByDefault(Top, how, type).running = FALSE
<1>3. \A how, type : Started(how, type)
  BY DEF ByDefault, Event
<1> HIDE DEF Started
<1>4. CASE Clicks(Top) /\ Replace(ByDefault(Top, "default", "click")) /\ triggered' = "click"
  <2> DEFINE how == "default"
             type == "click"
             new == ByDefault(Top, how, type)
  <2>1. how \in {"native", "default"} /\ type \in {"click", "change"} /\ type # "change" /\ how = "default"
    OBVIOUS
  <2>2. Started(how, type) /\ Replace(new) /\ triggered' = "click"
    BY <1>3, <1>4
  <2> HIDE DEF how, type
  <2>3. EventOK(new, handlers, binds)
    BY <1>2, <1>4, <2>1, EventGoesOn
  <2>4. Calm(new, triggered')
    BY <2>2 DEF Calm, Started
  <2> HIDE DEF new
  <2>5. QED
    BY <1>1, <2>2, <2>3, <2>4, KeptByReplace
<1>5. CASE Changes(Top) /\ Replace(ByDefault(Top, Top.how, "change"))
  <2> DEFINE how == Top.how
             type == "change"
             new == ByDefault(Top, how, type)
  <2>1. /\ how \in {"native", "default"} /\ type \in {"click", "change"} /\ type # "click"
        /\ Changes(Top)
    BY <1>5 DEF Changes
  <2>2. Started(how, type) /\ Replace(new)
    BY <1>3, <1>5
  <2> HIDE DEF how, type
  <2>3. EventOK(new, handlers, binds)
    BY <1>2, <2>1, EventGoesOn
  <2>4. Calm(new, triggered')
    BY <2>1, <2>2 DEF Calm, DefaultClick, Started
  <2> HIDE DEF new
  <2>5. QED
    BY <1>1, <2>2, <2>3, <2>4, KeptByReplace
<1>6. CASE stack' = Tail(stack)
  <2>1. ListsInv' /\ IdsInv'
    BY <1>1, ListsSame DEF HeardInv, bindings
  <2>2. /\ stack \in Seq(EventRec) /\ Tail(stack) \in Seq(EventRec)
        /\ Len(Tail(stack)) = Len(stack) - 1
        /\ \A i \in 1 .. Len(Tail(stack)) : Tail(stack)[i] = stack[i + 1]
    BY <1>1, HeadTailProperties DEF HeardInv, StackInv
  <2>3. Len(stack) \in Nat /\ Len(stack) # 0
    BY <1>1, <2>2, EmptySeq
  <2>4. ASSUME NEW i \in 1 .. Len(stack')
        PROVE  EventOK(stack'[i], handlers, binds) /\ ~ DefaultClick(stack'[i])
    <3> DEFINE k == i + 1
    <3>1. k \in 1 .. Len(stack) /\ k # 1 /\ stack'[i] = stack[k]
      BY <1>6, <2>2, <2>3
    <3> HIDE DEF k
    <3>2. QED
      BY <3>1 DEF HeardInv, StackInv
  <2>5. stack' # <<>> => 1 \in 1 .. Len(stack')
    BY <1>6, <2>2, <2>3, EmptySeq
  <2>6. StackInv'
    BY <1>1, <1>6, <2>2, <2>4, <2>5 DEF StackInv, Calm, bindings
  <2>7. QED
    BY <2>1, <2>6 DEF HeardInv
<1>7. QED
  BY <1>4, <1>5, <1>6 DEF EndEvent

-----------------------------------------------------------------------------
(* A function is bound: the list with one more in it.                      *)
Inserted(s, p, h, r) ==
  /\ r \in Seq(Handle) /\ Len(r) = Len(s) + 1 /\ r[p] = h
  /\ \A i \in 1 .. Len(s) : IF i < p THEN r[i] = s[i] ELSE r[i + 1] = s[i]

LEMMA InsertAtIs ==
  ASSUME NEW s \in Seq(Handle), NEW n \in 0 .. Len(s), NEW h \in Handle
  PROVE  Inserted(s, n + 1, h, InsertAt(s, n + 1, h))
<1> DEFINE front == SubSeq(s, 1, n)
           back == SubSeq(s, n + 1, Len(s))
           middle == front \o <<h>>
           r == InsertAt(s, n + 1, h)
<1>1. Len(s) \in Nat /\ n \in Nat /\ \A i \in 1 .. Len(s) : s[i] \in Handle
  OBVIOUS
<1>2. r = middle \o back
  <2>1. (n + 1) - 1 = n
    BY <1>1
  <2>2. r = SubSeq(s, 1, (n + 1) - 1) \o <<h>> \o back
    BY DEF InsertAt
  <2>3. SubSeq(s, 1, (n + 1) - 1) = front
    BY <2>1
  <2> HIDE DEF front, back, r
  <2>4. QED
    BY <2>2, <2>3
<1>3. /\ front \in Seq(Handle) /\ Len(front) = n
      /\ \A i \in 1 .. n : front[i] = s[i]
  <2>1. \A i \in 1 .. n : s[i] \in Handle
    BY <1>1
  <2>2. /\ front \in Seq(Handle) /\ Len(front) = (IF 1 <= n THEN n - 1 + 1 ELSE 0)
        /\ \A i \in 1 .. n - 1 + 1 : front[i] = s[1 + i - 1]
    BY <1>1, <2>1, SubSeqProperties
  <2>3. n - 1 + 1 = n /\ \A i \in 1 .. n : 1 + i - 1 = i
    BY <1>1
  <2> HIDE DEF front
  <2>4. QED
    BY <1>1, <2>2, <2>3
<1>4. /\ back \in Seq(Handle) /\ Len(back) = Len(s) - n
      /\ \A i \in 1 .. Len(s) - n : back[i] = s[n + i]
  <2> DEFINE a == n + 1
  <2>1. \A i \in a .. Len(s) : s[i] \in Handle
    BY <1>1
  <2>2. /\ back \in Seq(Handle) /\ Len(back) = (IF a <= Len(s) THEN Len(s) - a + 1 ELSE 0)
        /\ \A i \in 1 .. Len(s) - a + 1 : back[i] = s[a + i - 1]
    BY <1>1, <2>1, SubSeqProperties
  <2>3. Len(s) - a + 1 = Len(s) - n /\ \A i \in 1 .. Len(s) : a + i - 1 = n + i
    BY <1>1
  <2>4. \A i \in 1 .. Len(s) - n : i \in 1 .. Len(s)
    BY <1>1
  <2>5. Len(back) = Len(s) - n
    <3> HIDE DEF back
    <3>1. QED
      BY <1>1, <2>2
  <2> HIDE DEF back, a
  <2>6. QED
    BY <2>2, <2>3, <2>4, <2>5
<1>5. <<h>> \in Seq(Handle) /\ Len(<<h>>) = 1 /\ <<h>>[1] = h
  OBVIOUS
<1> HIDE DEF front, back, r
<1>6. /\ middle \in Seq(Handle) /\ Len(middle) = n + 1
      /\ \A i \in 1 .. n + 1 : middle[i] = IF i <= n THEN front[i] ELSE <<h>>[i - n]
  BY <1>3, <1>5, ConcatProperties
<1> HIDE DEF middle
<1>7. /\ r \in Seq(Handle) /\ Len(r) = n + 1 + (Len(s) - n)
      /\ \A i \in 1 .. Len(r) : r[i] = IF i <= n + 1 THEN middle[i] ELSE back[i - (n + 1)]
  <2>1. /\ r \in Seq(Handle) /\ Len(r) = Len(middle) + Len(back)
        /\ \A i \in 1 .. Len(middle) + Len(back) :
             r[i] = IF i <= Len(middle) THEN middle[i] ELSE back[i - Len(middle)]
    BY <1>2, <1>4, <1>6, ConcatProperties
  <2>2. QED
    BY <1>4, <1>6, <2>1
<1>8. Len(r) = Len(s) + 1
  BY <1>1, <1>7
<1>9. r[n + 1] = h
  <2>1. n + 1 - n = 1 /\ ~ (n + 1 <= n) /\ n + 1 \in 1 .. n + 1 /\ n + 1 \in 1 .. Len(r) /\ n + 1 <= n + 1
    BY <1>1, <1>8
  <2> DEFINE m == n + 1
  <2>2. m - n = 1 /\ ~ (m <= n) /\ m \in 1 .. m /\ m \in 1 .. Len(r) /\ m <= m
    BY <2>1
  <2>3. r[m] = middle[m] /\ middle[m] = <<h>>[m - n]
    <3> HIDE DEF m
    <3>1. QED
      BY <1>6, <1>7, <2>2 DEF m
  <2>4. QED
    BY <1>5, <2>2, <2>3
<1>10. ASSUME NEW i \in 1 .. Len(s)
       PROVE  IF i < n + 1 THEN r[i] = s[i] ELSE r[i + 1] = s[i]
  <2>1. CASE i < n + 1
    <3>1. i \in 1 .. n /\ i <= n /\ i \in 1 .. n + 1 /\ i <= n + 1 /\ i \in 1 .. Len(r)
      BY <1>1, <1>8, <2>1
    <3>2. QED
      BY <1>3, <1>6, <1>7, <2>1, <3>1
  <2>2. CASE ~ (i < n + 1)
    <3> DEFINE k == i + 1
               l == i - n
    <3>1. /\ k \in 1 .. Len(r) /\ ~ (k <= n + 1) /\ k - (n + 1) = l
          /\ l \in 1 .. Len(s) - n /\ n + l = i
      BY <1>1, <1>8, <2>2
    <3> HIDE DEF k, l
    <3>2. r[k] = s[i]
      BY <1>4, <1>7, <3>1
    <3>3. QED
      BY <2>2, <3>2 DEF k
  <2>3. QED
    BY <2>1, <2>2
<1>11. QED
  BY <1>7, <1>8, <1>9, <1>10 DEF Inserted, r

LEMMA AppendedIs ==
  ASSUME NEW s \in Seq(Handle), NEW h \in Handle
  PROVE  Inserted(s, Len(s) + 1, h, Append(s, h))
<1>1. Len(s) \in Nat /\ \A i \in 1 .. Len(s) : i < Len(s) + 1
  OBVIOUS
<1>2. /\ Append(s, h) \in Seq(Handle) /\ Len(Append(s, h)) = Len(s) + 1
      /\ Append(s, h)[Len(s) + 1] = h /\ \A i \in 1 .. Len(s) : Append(s, h)[i] = s[i]
  BY AppendProperties
<1>3. QED
  BY <1>1, <1>2 DEF Inserted

LEMMA InsertedFacts ==
  ASSUME NEW s \in Seq(Handle), NEW p \in 1 .. Len(s) + 1, NEW h \in Handle, NEW r,
         Inserted(s, p, h, r)
  PROVE  /\ ToSet(r) = ToSet(s) \cup {h} /\ r # <<>>
         /\ IdsApart(s) /\ (\A g \in ToSet(s) : g.id # h.id) => IdsApart(r)
         /\ \A n \in 0 .. Len(s) :
              (\A i \in 1 .. Len(s) : i <= n <=> s[i].selector # "") =>
              /\ h.selector # "" /\ p = n + 1 =>
                   \A i \in 1 .. Len(r) : i <= n + 1 <=> r[i].selector # ""
              /\ h.selector = "" /\ p = Len(s) + 1 =>
                   \A i \in 1 .. Len(r) : i <= n <=> r[i].selector # ""
<1>1. /\ Len(s) \in Nat /\ p \in Nat /\ r \in Seq(Handle) /\ Len(r) = Len(s) + 1 /\ r[p] = h
      /\ p \in 1 .. Len(r) /\ DOMAIN r = 1 .. Len(r) /\ DOMAIN s = 1 .. Len(s)
  BY DEF Inserted
<1>2. \A i \in 1 .. Len(s) : i < p => i \in 1 .. Len(r) /\ r[i] = s[i]
  BY <1>1 DEF Inserted
<1>3. \A i \in 1 .. Len(s) : ~ i < p => i + 1 \in 1 .. Len(r) /\ r[i + 1] = s[i]
  BY <1>1 DEF Inserted
<1> DEFINE from(j) == IF j < p THEN j ELSE j - 1
<1>4. \A j \in 1 .. Len(r) : j # p =>
        /\ from(j) \in 1 .. Len(s) /\ r[j] = s[from(j)]
        /\ j < p => from(j) = j
        /\ ~ j < p => p < j /\ from(j) = j - 1
  <2>1. ASSUME NEW j \in 1 .. Len(r), j # p
        PROVE  /\ from(j) \in 1 .. Len(s) /\ r[j] = s[from(j)]
               /\ j < p => from(j) = j
               /\ ~ j < p => p < j /\ from(j) = j - 1
    <3>1. CASE j < p
      <4>1. j \in 1 .. Len(s) /\ from(j) = j
        BY <1>1, <3>1
      <4>2. QED
        BY <1>2, <3>1, <4>1
    <3>2. CASE ~ j < p
      <4> DEFINE k == j - 1
      <4>1. k \in 1 .. Len(s) /\ ~ k < p /\ k + 1 = j /\ p < j
        BY <1>1, <2>1, <3>2
      <4> HIDE DEF k
      <4>2. r[j] = s[k]
        BY <1>3, <4>1
      <4>3. from(j) = k
        BY <3>2 DEF k
      <4>4. QED
        BY <3>2, <4>1, <4>2, <4>3 DEF k
    <3>3. QED
      BY <3>1, <3>2
  <2>2. QED
    BY <2>1
<1> HIDE DEF from
<1>5. ToSet(r) = ToSet(s) \cup {h}
  <2>1. ASSUME NEW i \in 1 .. Len(s)
        PROVE  s[i] \in ToSet(r)
    BY <1>1, <1>2, <1>3, InSet
  <2>2. ASSUME NEW j \in 1 .. Len(r)
        PROVE  r[j] \in ToSet(s) \cup {h}
    BY <1>1, <1>4, InSet
  <2>3. h \in ToSet(r)
    BY <1>1, InSet
  <2>4. QED
    BY <1>1, <2>1, <2>2, <2>3 DEF ToSet
<1>6. r # <<>>
  BY <1>1
<1>7. ASSUME IdsApart(s), \A g \in ToSet(s) : g.id # h.id
      PROVE  IdsApart(r)
  <2>1. \A i \in 1 .. Len(s) : s[i].id # h.id
    BY <1>1, <1>7, InSet
  <2>2. ASSUME NEW i \in 1 .. Len(r), NEW j \in 1 .. Len(r), i < j
        PROVE  r[i].id # r[j].id
    <3>1. CASE i = p
      BY <1>1, <1>4, <2>1, <2>2, <3>1
    <3>2. CASE j = p
      BY <1>1, <1>4, <2>1, <2>2, <3>2
    <3>3. CASE i # p /\ j # p
      <4> DEFINE k == from(i)
                 l == from(j)
      <4>1. k \in 1 .. Len(s) /\ l \in 1 .. Len(s) /\ r[i] = s[k] /\ r[j] = s[l]
        BY <1>4, <3>3
      <4>2. k < l
        <5>1. /\ i < p => k = i
              /\ ~ i < p => p < i /\ k = i - 1
              /\ j < p => l = j
              /\ ~ j < p => p < j /\ l = j - 1
          BY <1>4, <3>3
        <5> HIDE DEF k, l
        <5>2. QED
          BY <1>1, <2>2, <5>1
      <4> HIDE DEF k, l
      <4>3. QED
        BY <1>7, <4>1, <4>2 DEF IdsApart
    <3>4. QED
      BY <3>1, <3>2, <3>3
  <2>3. QED
    BY <2>2 DEF IdsApart
<1>8. ASSUME NEW n \in 0 .. Len(s), \A i \in 1 .. Len(s) : i <= n <=> s[i].selector # "",
             h.selector # "", p = n + 1, NEW j \in 1 .. Len(r)
      PROVE  j <= n + 1 <=> r[j].selector # ""
  <2>1. n \in Nat /\ j \in Nat
    BY <1>1
  <2>2. p = n + 1
    BY <1>8
  <2>3. CASE j = p
    <3>1. r[j] = h /\ h.selector # ""
      BY <1>1, <1>8, <2>3
    <3>2. j <= n + 1
      BY <2>1, <2>2, <2>3
    <3>3. QED
      BY <3>1, <3>2
  <2>4. CASE j # p
    <3> DEFINE k == from(j)
    <3>1. /\ k \in 1 .. Len(s) /\ r[j] = s[k]
          /\ j < p => k = j
          /\ ~ j < p => p < j /\ k = j - 1
      BY <1>4, <2>4
    <3> HIDE DEF k
    <3>2. j <= n + 1 <=> k <= n
      BY <1>1, <2>1, <2>2, <2>4, <3>1
    <3>3. QED
      BY <1>8, <3>1, <3>2
  <2>5. QED
    BY <2>3, <2>4
<1>9. ASSUME NEW n \in 0 .. Len(s), \A i \in 1 .. Len(s) : i <= n <=> s[i].selector # "",
             h.selector = "", p = Len(s) + 1, NEW j \in 1 .. Len(r)
      PROVE  j <= n <=> r[j].selector # ""
  <2>1. n \in Nat /\ n <= Len(s) /\ j \in Nat /\ 1 <= j /\ j <= Len(s) + 1
    BY <1>1
  <2>2. p = Len(s) + 1
    BY <1>9
  <2>3. CASE j = p
    <3>1. r[j] = h /\ h.selector = ""
      BY <1>1, <1>9, <2>3
    <3>2. ~ j <= n
      BY <1>1, <2>1, <2>2, <2>3
    <3>3. QED
      BY <3>1, <3>2
  <2>4. CASE j # p
    <3>1. j \in 1 .. Len(s) /\ j < p
      BY <1>1, <2>1, <2>2, <2>4
    <3>2. r[j] = s[j]
      BY <1>2, <3>1
    <3>3. QED
      BY <1>9, <3>1, <3>2
  <2>5. QED
    BY <2>3, <2>4
<1>10. QED
  BY <1>5, <1>6, <1>7, <1>8, <1>9

LEMMA StackKept ==
  ASSUME StackInv, Later(handlers, binds, handlers', binds'), UNCHANGED <<stack, triggered>>
  PROVE  StackInv'
<1>1. \A i \in 1 .. Len(stack') : EventOK(stack'[i], handlers', binds')
  BY EventKept DEF StackInv
<1>2. QED
  BY <1>1 DEF StackInv

LEMMA EventsBind ==
  ASSUME HeardInv, NEW b \in Bindings, Bind(b)
  PROVE  HeardInv'
<1> DEFINE x == b.elem
           t == bindType(b.type)
           n == delegateCount[x][t]
           hs == handlers[x][t]
           h == [id |-> binds + 1, type |-> b.type, selector |-> b.selector, fn |-> b.fn,
                 ns |-> b.ns, one |-> b.one]
           r == IF b.selector # "" THEN InsertAt(hs, n + 1, h) ELSE Append(hs, h)
           m == IF b.selector # "" THEN n + 1 ELSE n
           p == IF b.selector # "" THEN n + 1 ELSE Len(hs) + 1
<1>1. /\ binds' = binds + 1 /\ UNCHANGED <<stack, triggered, spent>>
      /\ listening' = IF hs = <<>> THEN listening \cup {<<x, t>>} ELSE listening
      /\ handlers' = [handlers EXCEPT ![x][t] = r]
      /\ delegateCount' = [delegateCount EXCEPT ![x][t] = m]
  BY DEF Bind
<1>2. x \in Elem /\ t \in Types
  BY BindingFacts DEF bindType, Types
<1>3. ListsInv /\ IdsInv /\ StackInv /\ binds \in Nat /\ Unique(handlers)
  BY DEF HeardInv, IdsInv
<1>4. h \in Handle /\ h.selector = b.selector /\ h.id = binds + 1
  <2>1. binds + 1 \in Nat
    BY <1>3
  <2>2. QED
    BY <2>1, BindingFacts DEF Handle
<1> HIDE DEF h, x, t
<1>5. /\ handlers \in Lists /\ delegateCount \in [Elem -> [Types -> Nat]]
      /\ \A e \in Elem, u \in Types :
           /\ handlers[e][u] \in Seq(Handle) /\ delegateCount[e][u] \in Nat
           /\ delegateCount[e][u] <= Len(handlers[e][u])
           /\ \A i \in 1 .. Len(handlers[e][u]) :
                (i <= delegateCount[e][u]) <=> (handlers[e][u][i].selector # "")
           /\ (<<e, u>> \in listening) <=> (handlers[e][u] # <<>>)
  BY <1>3 DEF ListsInv, ListsSound, Lists
<1>6. hs \in Seq(Handle) /\ n \in Nat /\ Len(hs) \in Nat /\ n <= Len(hs) /\ n \in 0 .. Len(hs)
  <2>1. hs \in Seq(Handle) /\ n \in Nat /\ n <= Len(hs)
    BY <1>2, <1>5
  <2>2. Len(hs) \in Nat
    BY <2>1
  <2> HIDE DEF hs, n
  <2>3. QED
    BY <2>1, <2>2
<1>7. \A i \in 1 .. Len(hs) : i <= n <=> hs[i].selector # ""
  BY <1>2, <1>5
<1>8. \A e \in Elem, u \in Types :
        /\ handlers'[e][u] = IF e = x /\ u = t THEN r ELSE handlers[e][u]
        /\ delegateCount'[e][u] = IF e = x /\ u = t THEN m ELSE delegateCount[e][u]
  <2> HIDE DEF r, m
  <2>1. QED
    BY <1>1, <1>2, <1>5 DEF Lists
<1> HIDE DEF hs, n
<1>9. Inserted(hs, p, h, r) /\ p \in 1 .. Len(hs) + 1
  <2>1. CASE b.selector # ""
    <3>1. r = InsertAt(hs, n + 1, h) /\ p = n + 1
      BY <2>1
    <3>2. n + 1 \in 1 .. Len(hs) + 1
      BY <1>6
    <3> HIDE DEF r, p
    <3>3. Inserted(hs, n + 1, h, InsertAt(hs, n + 1, h))
      BY <1>4, <1>6, InsertAtIs
    <3>4. QED
      BY <3>1, <3>2, <3>3
  <2>2. CASE b.selector = ""
    <3>1. r = Append(hs, h) /\ p = Len(hs) + 1
      BY <2>2
    <3>2. Len(hs) + 1 \in 1 .. Len(hs) + 1
      BY <1>6
    <3> HIDE DEF r, p
    <3>3. Inserted(hs, Len(hs) + 1, h, Append(hs, h))
      BY <1>4, <1>6, AppendedIs
    <3>4. QED
      BY <3>1, <3>2, <3>3
  <2>3. QED
    BY <2>1, <2>2
<1>10. /\ r \in Seq(Handle) /\ Len(r) = Len(hs) + 1
       /\ ToSet(r) = ToSet(hs) \cup {h} /\ r # <<>>
       /\ IdsApart(hs) /\ (\A g \in ToSet(hs) : g.id # h.id) => IdsApart(r)
  <2> HIDE DEF r, p
  <2>1. r \in Seq(Handle) /\ Len(r) = Len(hs) + 1
    BY <1>9 DEF Inserted
  <2>2. QED
    BY <1>4, <1>6, <1>9, <2>1, InsertedFacts
<1>11. \A i \in 1 .. Len(r) : i <= m <=> r[i].selector # ""
  <2>1. /\ h.selector # "" /\ p = n + 1 => \A i \in 1 .. Len(r) : i <= n + 1 <=> r[i].selector # ""
        /\ h.selector = "" /\ p = Len(hs) + 1 =>
             \A i \in 1 .. Len(r) : i <= n <=> r[i].selector # ""
    <3> HIDE DEF r, p
    <3>1. QED
      BY <1>4, <1>6, <1>7, <1>9, InsertedFacts
  <2>2. CASE b.selector # ""
    BY <1>4, <2>1, <2>2
  <2>3. CASE b.selector = ""
    BY <1>4, <2>1, <2>3
  <2>4. QED
    BY <2>2, <2>3
<1>12. m \in Nat /\ m <= Len(r)
  <2>1. m = n + 1 \/ m = n
    OBVIOUS
  <2> HIDE DEF m, r
  <2>2. QED
    BY <1>6, <1>10, <2>1
<1> HIDE DEF r, m, p
<1>13. \A e \in Elem, u \in Types :
         Bound(handlers', e, u) =
           IF e = x /\ u = t THEN Bound(handlers, e, u) \cup {h} ELSE Bound(handlers, e, u)
  BY <1>8, <1>10 DEF Bound, hs
<1>14. ListsInv'
  <2>1. handlers' \in Lists /\ delegateCount' \in [Elem -> [Types -> Nat]]
    BY <1>1, <1>2, <1>5, <1>10, <1>12 DEF Lists
  <2>2. ASSUME NEW e \in Elem, NEW u \in Types
        PROVE  /\ delegateCount'[e][u] <= Len(handlers'[e][u])
               /\ \A i \in 1 .. Len(handlers'[e][u]) :
                    (i <= delegateCount'[e][u]) <=> (handlers'[e][u][i].selector # "")
               /\ (<<e, u>> \in listening') <=> (handlers'[e][u] # <<>>)
    <3>1. CASE e = x /\ u = t
      <4>1. handlers'[e][u] = r /\ delegateCount'[e][u] = m
        BY <1>8, <3>1
      <4>2. <<e, u>> \in listening'
        BY <1>1, <1>2, <1>5, <3>1 DEF hs
      <4>3. QED
        BY <1>10, <1>11, <1>12, <4>1, <4>2
    <3>2. CASE ~ (e = x /\ u = t)
      <4>1. handlers'[e][u] = handlers[e][u] /\ delegateCount'[e][u] = delegateCount[e][u]
        BY <1>8, <3>2
      <4>2. <<e, u>> # <<x, t>>
        BY <3>2
      <4>3. (<<e, u>> \in listening') <=> (<<e, u>> \in listening)
        BY <1>1, <4>2
      <4>4. QED
        BY <1>5, <4>1, <4>3
    <3>3. QED
      BY <3>1, <3>2
  <2>3. QED
    BY <2>1, <2>2 DEF ListsInv, ListsSound
<1>15. /\ \A e \in Elem, u \in Types : \A g \in Bound(handlers, e, u) : 
            g.id \in 1 .. binds /\ g.id \notin spent
       /\ spent \in SUBSET (1 .. binds) /\ 1 .. binds \subseteq 1 .. binds'
       /\ h.id \in 1 .. binds' /\ h.id \notin 1 .. binds /\ binds' \in Nat
  <2>1. /\ \A e \in Elem, u \in Types : \A g \in Bound(handlers, e, u) : 
             g.id \in 1 .. binds /\ g.id \notin spent
        /\ spent \in SUBSET (1 .. binds)
    BY <1>3 DEF IdsInv
  <2>2. /\ 1 .. binds \subseteq 1 .. binds' /\ binds' \in Nat
        /\ binds + 1 \in 1 .. binds' /\ binds + 1 \notin 1 .. binds
    BY <1>1, <1>3
  <2>3. QED
    BY <1>4, <2>1, <2>2
<1>16. Unique(handlers)'
  <2>1. /\ \A e, f \in Elem, u, v \in Types : \A g \in Bound(handlers, e, u), k \in Bound(handlers, f, v) :
             g.id = k.id => e = f /\ u = v /\ g = k
        /\ \A e \in Elem, u \in Types : IdsApart(handlers[e][u])
    BY <1>3 DEF Unique
  <2>2. \A e \in Elem, u \in Types : \A g \in Bound(handlers, e, u) : g.id # h.id
    BY <1>15
  <2>3. ASSUME NEW e \in Elem, NEW f \in Elem, NEW u \in Types, NEW v \in Types,
               NEW g \in Bound(handlers', e, u), NEW k \in Bound(handlers', f, v), g.id = k.id
        PROVE  e = f /\ u = v /\ g = k
    <3>1. g \in Bound(handlers, e, u) \/ (g = h /\ e = x /\ u = t)
      BY <1>13
    <3>2. k \in Bound(handlers, f, v) \/ (k = h /\ f = x /\ v = t)
      BY <1>13
    <3>3. QED
      BY <2>1, <2>2, <2>3, <3>1, <3>2
  <2>4. ASSUME NEW e \in Elem, NEW u \in Types
        PROVE  IdsApart(handlers'[e][u])
    <3>1. CASE e = x /\ u = t
      <4>1. \A g \in ToSet(hs) : g.id # h.id
        BY <1>2, <2>2 DEF Bound, hs
      <4>2. IdsApart(hs)
        BY <1>2, <2>1 DEF hs
      <4>3. QED
        BY <1>8, <1>10, <3>1, <4>1, <4>2
    <3>2. CASE ~ (e = x /\ u = t)
      BY <1>8, <2>1, <3>2
    <3>3. QED
      BY <3>1, <3>2
  <2>5. QED
    BY <2>3, <2>4 DEF Unique
<1>17. IdsInv'
  <2>1. ASSUME NEW e \in Elem, NEW u \in Types, NEW g \in Bound(handlers', e, u)
        PROVE  g.id \in 1 .. binds' /\ g.id \notin spent'
    <3>1. g \in Bound(handlers, e, u) \/ g = h
      BY <1>13
    <3>2. QED
      BY <1>1, <1>15, <3>1
  <2>2. spent' \in SUBSET (1 .. binds')
    BY <1>1, <1>15
  <2>3. QED
    BY <1>15, <1>16, <2>1, <2>2 DEF IdsInv
<1>18. Later(handlers, binds, handlers', binds')
  <2>1. binds <= binds' /\ ~ (h.id <= binds)
    BY <1>1, <1>3, <1>4
  <2>2. QED
    BY <1>3, <1>13, <1>15, <2>1 DEF Later
<1>19. StackInv'
  BY <1>1, <1>3, <1>18, StackKept
<1>20. QED
  BY <1>14, <1>17, <1>19 DEF HeardInv

LEMMA EventsOff ==
  ASSUME HeardInv, NEW e \in Elem, NEW type, NEW fn, NEW ns, NEW selector,
         Off(e, type, fn, ns, selector)
  PROVE  HeardInv'
<1>1. remove(e, type, fn, ns, selector) /\ UNCHANGED <<stack, triggered, binds, spent>>
  BY DEF Off
<1>2. ListsInv /\ IdsInv /\ StackInv /\ Unique(handlers)
  BY DEF HeardInv, IdsInv
<1>3. /\ ListsInv' /\ Unique(handlers)'
      /\ \A f \in Elem, t \in Types : Bound(handlers', f, t) \subseteq Bound(handlers, f, t)
  BY <1>1, <1>2, RemoveIs
<1>4. IdsInv'
  BY <1>1, <1>2, <1>3 DEF IdsInv
<1>5. Later(handlers, binds, handlers', binds')
  BY <1>1, <1>2, <1>3 DEF IdsInv, Later
<1>6. QED
  BY <1>1, <1>2, <1>3, <1>4, <1>5, StackKept DEF HeardInv

-----------------------------------------------------------------------------
LEMMA EventsKept == HeardInv /\ [EventsNext]_eventVars => HeardInv'
<1> SUFFICES ASSUME HeardInv, [EventsNext]_eventVars
             PROVE  HeardInv'
  OBVIOUS
<1>1. CASE Dispatch
  BY <1>1, EventsArrive, EventsCall, EventsSkip, EventsEnd DEF Dispatch
<1>2. ASSUME NEW ask \in Asks, Return(ask)
      PROVE  HeardInv'
  BY <1>2, EventsReturn
<1>3. CASE Use
  <2>1. ASSUME NEW b \in Bindings, Bind(b)
        PROVE  HeardInv'
    BY <2>1, EventsBind
  <2>2. ASSUME NEW e \in Elem, NEW b \in Bindings, NEW fn \in {"", b.fn}, NEW ns \in {"", b.ns},
               NEW selector \in {"", "**", b.selector},
               Off(e, IF ns = "" THEN b.type ELSE "", fn, ns, selector)
        PROVE  HeardInv'
    BY <2>2, EventsOff
  <2>3. ASSUME NEW e \in Elem, NEW type \in {"click", "mouseover"}, NEW related \in 1 .. Outside,
               Native(e, type, related)
        PROVE  HeardInv'
    BY <2>3, EventsNative
  <2>4. ASSUME NEW e \in Elem, NEW ns \in {""} \cup {b.ns : b \in Bindings},
               Trigger(e, ns) \/ TriggerHandler(e, ns)
        PROVE  HeardInv'
    <3>1. ns \in Namespaces
      BY DEF Namespaces
    <3>2. QED
      BY <2>4, <3>1, EventsTrigger, EventsTriggerHandler
  <2>5. QED
    BY <1>3, <2>1, <2>2, <2>3, <2>4 DEF Use
<1>4. CASE UNCHANGED eventVars
  <2>1. UNCHANGED <<handlers, delegateCount, listening, stack, triggered, binds, spent>>
    BY <1>4 DEF eventVars
  <2>2. ListsInv' /\ IdsInv'
    BY <2>1, ListsSame DEF HeardInv
  <2>3. Later(handlers, binds, handlers', binds')
    BY <2>1, LaterSame DEF HeardInv
  <2>4. StackInv'
    BY <2>1, <2>3, StackKept DEF HeardInv
  <2>5. QED
    BY <2>2, <2>4 DEF HeardInv
<1>5. QED
  BY <1>1, <1>2, <1>3, <1>4 DEF EventsNext

LEMMA HeardInvHolds == EventsSpec => []HeardInv
<1>1. QED
  BY EventsInitially, EventsKept, PTL DEF EventsSpec

(* Whatever a page binds, takes off and triggers, from within the functions *)
(* being called too: the lists of functions stay in order, and the browser *)
(* tells an element of an event if, and only if, a function is left for it; *)
(* a function bound for one call is called once; of one event, and of the  *)
(* default action of it, no function hears twice on an element             *)
(* (jquery-3.2.1.js 4905-5610, 8111-8278).                                 *)
THEOREM HeardRightHolds == EventsSpec => []HeardRight
<1>1. HeardInv => HeardRight
  <2> SUFFICES ASSUME HeardInv
               PROVE  HeardRight
    OBVIOUS
  <2>1. ListsSound
    BY DEF HeardInv, ListsInv
  <2>2. OneIsSpent
    BY DEF HeardInv, IdsInv, Bound, OneIsSpent
  <2>3. HeardOnce
    BY DEF HeardInv, StackInv, EventOK, SeenOK, HeardOnce
  <2>4. QED
    BY <2>1, <2>2, <2>3 DEF HeardRight
<1>2. QED
  BY <1>1, HeardInvHolds, PTL

-----------------------------------------------------------------------------
(* Only a function that is called next starts to run, and it may.          *)
LEMMA HeardHereKept == HeardInv /\ [EventsNext]_eventVars => HeardHere
<1> SUFFICES ASSUME HeardInv, [EventsNext]_eventVars, stack # <<>>, stack' # <<>>,
                    Len(stack') = Len(stack), stack'[1].running, ~ Top.running
             PROVE  ~ Top.immediate /\ (Top.stopped => stack'[1].at = Top.at)
  BY DEF HeardHere
<1>1. Top \in EventRec /\ Tail(stack) \in Seq(EventRec) /\ stack \in Seq(EventRec) /\ Top = stack[1]
  <2>1. stack \in Seq(EventRec)
    BY DEF HeardInv, StackInv
  <2>2. QED
    BY <2>1, TopFacts, HeadTailProperties DEF HeardInv, Top
<1>2. ASSUME NEW ev, Replace(ev)
      PROVE  stack'[1] = ev
  <2>1. \A r \in Seq(EventRec) : (<<ev>> \o r)[1] = ev
    OBVIOUS
  <2>2. QED
    BY <1>1, <1>2, <2>1 DEF Replace
<1>3. ~ UNCHANGED stack
  BY <1>1
<1>4. ASSUME NEW ev, Raise(ev)
      PROVE  FALSE
  <2>1. Len(<<ev>> \o stack) = 1 + Len(stack) /\ Len(stack) \in Nat
    BY <1>1
  <2>2. QED
    BY <1>4, <2>1 DEF Raise
<1>5. CASE Arrive
  <2> DEFINE e == Head(Top.path)
             Q == IF <<e, Top.type>> \in listening /\ ~ Silenced(Top.type)
                  THEN HandlerQueue(e, Top) ELSE <<>>
             ev == [Top EXCEPT !.path = Tail(@), !.owner = e, !.queue = Q]
  <2>1. Replace(ev)
    BY <1>5 DEF Arrive
  <2> HIDE DEF e, Q
  <2>2. ev.running = Top.running
    BY <1>1 DEF EventRec
  <2> HIDE DEF ev
  <2>3. QED
    BY <1>2, <2>1, <2>2
<1>6. CASE Call
  <2> DEFINE c == Head(Top.queue)
             on == Entered(c)
             heard == IF on THEN Append(Top.seen, <<c.elem, c.h.id>>) ELSE Top.seen
             ev == [Top EXCEPT !.queue = Tail(@), !.at = c.elem, !.running = on, !.seen = heard]
  <2>1. Replace(ev) /\ GoesOn(Top, c)
    BY <1>6 DEF Call
  <2> HIDE DEF c, on, heard
  <2>2. ev.at = c.elem
    BY <1>1 DEF EventRec
  <2> HIDE DEF ev
  <2>3. stack'[1].at = c.elem
    BY <1>2, <2>1, <2>2
  <2>4. QED
    BY <2>1, <2>3 DEF GoesOn
<1>7. CASE Skip
  <2> DEFINE ev == [Top EXCEPT !.queue = <<>>]
  <2>1. Replace(ev) /\ ev.running = Top.running
    BY <1>1, <1>7 DEF Skip, EventRec
  <2> HIDE DEF ev
  <2>2. QED
    BY <1>2, <2>1
<1>8. CASE EndEvent
  <2>1. \A how, type : ByDefault(Top, how, type).running = FALSE
    BY DEF ByDefault, Event
  <2>2. \A how, type : ~ Replace(ByDefault(Top, how, type))
    BY <1>2, <2>1
  <2>3. stack' = Tail(stack)
    BY <1>8, <2>2 DEF EndEvent
  <2>4. Len(Tail(stack)) = Len(stack) - 1 /\ Len(stack) \in Nat
    BY <1>1, HeadTailProperties
  <2>5. QED
    BY <2>3, <2>4
<1>9. ASSUME NEW ask \in Asks
      PROVE  ~ Return(ask)
  BY DEF Return
<1>10. CASE Use
  <2>1. \A b \in Bindings : ~ Bind(b)
    BY <1>3 DEF Bind
  <2>2. \A e, type, fn, ns, selector : ~ Off(e, type, fn, ns, selector)
    BY <1>3 DEF Off
  <2>3. \A e, type, related : ~ Native(e, type, related)
    BY <1>4 DEF Native
  <2>4. \A e, ns : ~ Trigger(e, ns) /\ ~ TriggerHandler(e, ns)
    BY <1>4 DEF Trigger, TriggerHandler
  <2>5. QED
    BY <1>10, <2>1, <2>2, <2>3, <2>4 DEF Use
<1>11. CASE UNCHANGED eventVars
  BY <1>3, <1>11 DEF eventVars
<1>12. QED
  BY <1>5, <1>6, <1>7, <1>8, <1>9, <1>10, <1>11 DEF EventsNext, Dispatch

(* An event that a function stopped is heard by no function of a further    *)
(* element, and by none at all once it was stopped immediately, whatever    *)
(* else is bound, taken off and triggered meanwhile (jquery-3.2.1.js        *)
(* 5181-5206, 8118-8166).                                                  *)
THEOREM StopsThereHolds == EventsSpec => StopsThere
<1>1. QED
  BY HeardInvHolds, HeardHereKept, PTL DEF EventsSpec, StopsThere

(* Lists of callbacks.  What is left of a list without a function.         *)
IsWithout(k, s, f) ==
  k = [n \in 0 .. Len(s) |->
         IF n = 0 THEN <<>> ELSE IF s[n] # f THEN Append(k[n - 1], s[n]) ELSE k[n - 1]]

Drops(k, D, s, f) ==
  /\ \A n \in 0 .. Len(s) : k[n] \in Seq(D)
  /\ k[0] = <<>>
  /\ \A n \in 1 .. Len(s) : k[n] = IF s[n] # f THEN Append(k[n - 1], s[n]) ELSE k[n - 1]

LEMMA WithoutExists ==
  ASSUME NEW D, NEW s \in Seq(D), NEW f
  PROVE  \E k : Drops(k, D, s, f) /\ Without(s, f) = k[Len(s)]
<1> DEFINE n == Len(s)
           Q == Seq(D)
           next(i, q) == IF s[i] # f THEN Append(q, s[i]) ELSE q
           g == [p \in (1 .. n) \X Q |-> next(p[1], p[2])]
<1>1. n \in Nat /\ <<>> \in Q /\ \A i \in 1 .. n : s[i] \in D
  OBVIOUS
<1>2. \A i \in 1 .. n, q \in Q : next(i, q) \in Q
  BY <1>1, AppendProperties
<1>3. g \in [(1 .. n) \X Q -> Q] /\ \A i \in 1 .. n, q \in Q : g[<<i, q>>] = next(i, q)
  <2> HIDE DEF next, Q, n
  <2>1. QED
    BY <1>2
<1> HIDE DEF g, Q
<1>4. PICK k : Recurs(k, Q, <<>>, n, g)
  <2> HIDE DEF n
  <2>1. QED
    BY <1>1, <1>3, Recursion
<1>5. k \in [0 .. n -> Q] /\ k[0] = <<>> /\ \A i \in 1 .. n : k[i] = next(i, k[i - 1])
  <2>1. k \in [0 .. n -> Q] /\ k[0] = <<>> /\ \A i \in 1 .. n : k[i] = g[<<i, k[i - 1]>>]
    BY <1>4 DEF Recurs
  <2>2. \A i \in 1 .. n : i - 1 \in 0 .. n
    BY <1>1
  <2> HIDE DEF n, next
  <2>3. QED
    BY <1>3, <2>1, <2>2
<1>6. IsWithout(k, s, f)
  <2> DEFINE body(i) == IF i = 0 THEN <<>> ELSE next(i, k[i - 1])
  <2>1. k = [i \in 0 .. n |-> k[i]]
    BY <1>5
  <2>2. \A i \in 0 .. n : k[i] = body(i)
    <3>1. \A i \in 0 .. n : i = 0 \/ (i # 0 /\ i \in 1 .. n)
      BY <1>1
    <3> HIDE DEF next, n
    <3>2. QED
      BY <1>5, <3>1
  <2> HIDE DEF body, n
  <2>3. k = [i \in 0 .. n |-> body(i)]
    BY <2>1, <2>2
  <2>4. QED
    BY <2>3 DEF IsWithout, body, n
<1> DEFINE h == CHOOSE j : IsWithout(j, s, f)
<1>7. IsWithout(h, s, f) /\ Without(s, f) = h[n]
  BY <1>6 DEF Without, IsWithout
<1> HIDE DEF h
<1>8. h[0] = <<>> /\ \A i \in 1 .. n : h[i] = next(i, h[i - 1])
  <2> DEFINE body(i) == IF i = 0 THEN <<>> ELSE next(i, h[i - 1])
  <2>1. h = [i \in 0 .. n |-> body(i)]
    BY <1>7 DEF IsWithout
  <2>2. 0 \in 0 .. n /\ \A i \in 1 .. n : i \in 0 .. n /\ i # 0
    BY <1>1
  <2> HIDE DEF body, n, h
  <2>3. \A i \in 0 .. n : h[i] = body(i)
    BY <2>1
  <2> HIDE DEF next
  <2>4. QED
    BY <2>2, <2>3 DEF body
<1>9. \A i \in 0 .. n : h[i] \in Q
  <2> DEFINE S == {i \in 0 .. n : h[i] \in Q}
  <2>1. 0 \in S
    BY <1>1, <1>8
  <2>2. ASSUME NEW i \in 1 .. n, i - 1 \in S
        PROVE  i \in S
    BY <1>2, <1>8, <2>2
  <2> HIDE DEF S, n
  <2>3. \A i \in 0 .. n : i \in S
    BY <1>1, <2>1, <2>2, UpTo
  <2>4. QED
    BY <2>3 DEF S
<1>10. QED
  BY <1>7, <1>8, <1>9 DEF Q, Drops

(* Two lists in one, and a list with one more; what is added to the second  *)
(* of two is added to both.                                                *)
Both(x, y) == x \o y

Plus(x, e) == Append(x, e)

LEMMA PlusMoved ==
  \A D : \A s, t \in Seq(D), e \in D : Plus(Both(s, t), e) = Both(s, Plus(t, e))
<1> SUFFICES ASSUME NEW D, NEW s \in Seq(D), NEW t \in Seq(D), NEW e \in D
             PROVE  Plus(Both(s, t), e) = Both(s, Plus(t, e))
  OBVIOUS
<1>1. s \o t \in Seq(D) /\ <<e>> \in Seq(D)
  OBVIOUS
<1>2. Append(s \o t, e) = (s \o t) \o <<e>> /\ Append(t, e) = t \o <<e>>
  BY <1>1, AppendIsConcat
<1>3. QED
  BY <1>1, <1>2, ConcatAssociative DEF Both, Plus


(* Of two lists in a row, what is left of each.                            *)
LEMMA WithoutOfTwo ==
  ASSUME NEW D, NEW s \in Seq(D), NEW t \in Seq(D), NEW f
  PROVE  Without(s \o t, f) = Without(s, f) \o Without(t, f)
<1> DEFINE m == Len(s)
           n == Len(t)
           u == s \o t
<1>1. /\ m \in Nat /\ n \in Nat /\ u \in Seq(D) /\ Len(u) = m + n
      /\ \A i \in 1 .. m : u[i] = s[i]
      /\ \A i \in 1 .. n : u[m + i] = t[i]
  OBVIOUS
<1>2. PICK a : Drops(a, D, s, f) /\ Without(s, f) = a[m]
  BY WithoutExists
<1>3. PICK b : Drops(b, D, t, f) /\ Without(t, f) = b[n]
  BY WithoutExists
<1>4. PICK c : Drops(c, D, u, f) /\ Without(u, f) = c[m + n]
  BY <1>1, WithoutExists
<1>a. /\ \A i \in 0 .. m : a[i] \in Seq(D)
      /\ a[0] = <<>>
      /\ \A i \in 1 .. m : a[i] = IF s[i] # f THEN Append(a[i - 1], s[i]) ELSE a[i - 1]
  BY <1>2 DEF Drops
<1>b. /\ \A i \in 0 .. n : b[i] \in Seq(D)
      /\ b[0] = <<>>
      /\ \A i \in 1 .. n : b[i] = IF t[i] # f THEN Append(b[i - 1], t[i]) ELSE b[i - 1]
  BY <1>3 DEF Drops
<1>c. /\ c[0] = <<>>
      /\ \A i \in 1 .. m + n : c[i] = IF u[i] # f THEN Append(c[i - 1], u[i]) ELSE c[i - 1]
  BY <1>1, <1>4 DEF Drops
<1>t. \A i \in 1 .. n : t[i] \in D
  OBVIOUS
<1> HIDE DEF m, n, u
<1>5. c[m] = a[m]
  <2> DEFINE S == {i \in 0 .. m : c[i] = a[i]}
  <2>1. 0 \in S
    BY <1>1, <1>a, <1>c
  <2>2. ASSUME NEW i \in 1 .. m, i - 1 \in S
        PROVE  i \in S
    <3>1. i \in 1 .. m + n /\ i \in 0 .. m /\ c[i - 1] = a[i - 1]
      BY <1>1, <2>2
    <3>2. QED
      BY <1>1, <1>a, <1>c, <3>1
  <2> HIDE DEF S
  <2>3. \A i \in 0 .. m : i \in S
    BY <1>1, <2>1, <2>2, UpTo
  <2>4. QED
    BY <1>1, <2>3 DEF S
<1>6. a[m] \in Seq(D)
  BY <1>1, <1>a
<1>7. c[m + n] = a[m] \o b[n]
  <2> DEFINE S == {i \in 0 .. n : c[m + i] = a[m] \o b[i]}
  <2>1. 0 \in S
    <3>1. m + 0 = m /\ 0 \in 0 .. n
      BY <1>1
    <3>2. a[m] \o <<>> = a[m]
      BY <1>6, ConcatEmptySeq
    <3>3. QED
      BY <1>5, <1>b, <3>1, <3>2
  <2>2. ASSUME NEW i \in 1 .. n, i - 1 \in S
        PROVE  i \in S
    <3>1. /\ m + i \in 1 .. m + n /\ i \in 0 .. n /\ (m + i) - 1 = m + (i - 1)
          /\ i - 1 \in 0 .. n
      BY <1>1
    <3>2. c[m + (i - 1)] = a[m] \o b[i - 1] /\ b[i - 1] \in Seq(D) /\ t[i] \in D
      BY <1>b, <1>t, <2>2, <3>1
    <3>3. c[m + i] = IF t[i] # f THEN Append(c[m + (i - 1)], t[i]) ELSE c[m + (i - 1)]
      BY <1>1, <1>c, <3>1
    <3>4. Append(a[m] \o b[i - 1], t[i]) = a[m] \o Append(b[i - 1], t[i])
      <4>1. Plus(Both(a[m], b[i - 1]), t[i]) = Both(a[m], Plus(b[i - 1], t[i]))
        BY <1>6, <3>2, PlusMoved
      <4>2. QED
        BY <4>1 DEF Both, Plus
    <3>5. c[m + i] = a[m] \o b[i]
      BY <1>b, <3>2, <3>3, <3>4
    <3>6. QED
      BY <3>1, <3>5
  <2> HIDE DEF S
  <2>3. \A i \in 0 .. n : i \in S
    BY <1>1, <2>1, <2>2, UpTo
  <2>4. n \in S
    BY <1>1, <2>3
  <2>5. QED
    BY <2>4 DEF S
<1>8. QED
  BY <1>2, <1>3, <1>4, <1>7 DEF u

(* It is shorter by as many as the list had of the function.               *)
LEMMA WithoutCounted ==
  ASSUME NEW D, NEW s \in Seq(D), NEW f
  PROVE  /\ Without(s, f) \in Seq(D)
         /\ Cardinality({i \in 1 .. Len(s) : s[i] = f}) \in 0 .. Len(s)
         /\ Len(Without(s, f)) = Len(s) - Cardinality({i \in 1 .. Len(s) : s[i] = f})
<1> DEFINE n == Len(s)
           Of(i) == {j \in 1 .. i : s[j] = f}
<1>1. PICK k : Drops(k, D, s, f) /\ Without(s, f) = k[n]
  BY WithoutExists
<1>2. /\ n \in Nat
      /\ \A i \in 0 .. n : k[i] \in Seq(D)
      /\ k[0] = <<>>
      /\ \A i \in 1 .. n : k[i] = IF s[i] # f THEN Append(k[i - 1], s[i]) ELSE k[i - 1]
      /\ \A i \in 1 .. n : s[i] \in D
  BY <1>1 DEF Drops
<1> DEFINE S == {i \in 0 .. n : /\ IsFiniteSet(Of(i)) /\ Cardinality(Of(i)) \in 0 .. i
                               /\ Len(k[i]) = i - Cardinality(Of(i))}
<1>3. 0 \in S
  <2>1. Of(0) = {}
    OBVIOUS
  <2>2. IsFiniteSet(Of(0)) /\ Cardinality(Of(0)) = 0
    BY <2>1, FS_EmptySet
  <2> HIDE DEF Of
  <2>3. QED
    BY <1>2, <2>2
<1>4. ASSUME NEW i \in 1 .. n, i - 1 \in S
      PROVE  i \in S
  <2>1. i \in Nat /\ i - 1 \in 0 .. n /\ i \in 0 .. n
    BY <1>2
  <2>2. /\ IsFiniteSet(Of(i - 1)) /\ Cardinality(Of(i - 1)) \in 0 .. (i - 1)
        /\ Len(k[i - 1]) = (i - 1) - Cardinality(Of(i - 1)) /\ k[i - 1] \in Seq(D)
    BY <1>2, <1>4, <2>1
  <2>3. CASE s[i] = f
    <3>1. Of(i) = Of(i - 1) \cup {i} /\ i \notin Of(i - 1)
      BY <1>2, <2>1, <2>3
    <3>2. k[i] = k[i - 1]
      BY <1>2, <2>3
    <3> HIDE DEF Of, n
    <3>3. IsFiniteSet(Of(i)) /\ Cardinality(Of(i)) = Cardinality(Of(i - 1)) + 1
      <4>1. IsFiniteSet(Of(i - 1))
        BY <2>2
      <4>2. /\ IsFiniteSet(Of(i - 1) \cup {i})
            /\ Cardinality(Of(i - 1) \cup {i})
                 = IF i \in Of(i - 1) THEN Cardinality(Of(i - 1)) ELSE Cardinality(Of(i - 1)) + 1
        BY <4>1, FS_AddElement
      <4>3. QED
        BY <3>1, <4>2
    <3>4. QED
      BY <2>1, <2>2, <3>2, <3>3
  <2>4. CASE s[i] # f
    <3>1. Of(i) = Of(i - 1)
      BY <1>2, <2>1, <2>4
    <3>2. k[i] = Append(k[i - 1], s[i]) /\ s[i] \in D
      BY <1>2, <2>4
    <3> HIDE DEF Of, n
    <3>3. Len(k[i]) = Len(k[i - 1]) + 1
      BY <2>2, <3>2
    <3>4. QED
      BY <2>1, <2>2, <3>1, <3>3
  <2>5. QED
    BY <2>3, <2>4
<1> HIDE DEF S
<1>5. \A i \in 0 .. n : i \in S
  BY <1>2, <1>3, <1>4, UpTo
<1>6. n \in S
  BY <1>2, <1>5
<1>7. QED
  BY <1>1, <1>2, <1>6 DEF S

(* The functions that come after the first m of a list, and what removing   *)
(* one leaves of them and of those before.                                 *)
LEMMA RestRemoved ==
  ASSUME NEW D, NEW s \in Seq(D), NEW f, NEW m \in 0 .. Len(s)
  PROVE  LET c == Cardinality({i \in 1 .. m : s[i] = f})
             w == Without(s, f)
         IN  /\ c \in 0 .. m /\ w \in Seq(D) /\ m - c \in 0 .. Len(w)
             /\ SubSeq(w, m - c + 1, Len(w)) = Without(SubSeq(s, m + 1, Len(s)), f)
<1> DEFINE n == Len(s)
           a == SubSeq(s, 1, m)
           b == SubSeq(s, m + 1, n)
           c == Cardinality({i \in 1 .. m : s[i] = f})
           w == Without(s, f)
<1>1. m \in Nat /\ n \in Nat /\ m <= n
  OBVIOUS
<1>2. a \in Seq(D) /\ Len(a) = m /\ \A i \in 1 .. m : a[i] = s[i]
  BY <1>1
<1>3. b \in Seq(D) /\ Len(b) = n - m /\ \A i \in 1 .. n - m : b[i] = s[m + i]
  BY <1>1
<1>4. s = a \o b
  <2> HIDE DEF a, b, n
  <2>1. /\ a \o b \in Seq(D) /\ Len(a \o b) = n
        /\ \A i \in 1 .. n : (a \o b)[i] = IF i <= m THEN a[i] ELSE b[i - m]
    <3>1. /\ a \o b \in Seq(D) /\ Len(a \o b) = Len(a) + Len(b)
          /\ \A i \in 1 .. Len(a) + Len(b) :
               (a \o b)[i] = IF i <= Len(a) THEN a[i] ELSE b[i - Len(a)]
      BY <1>2, <1>3, ConcatProperties
    <3>2. Len(a) + Len(b) = n
      BY <1>1, <1>2, <1>3
    <3>3. QED
      BY <1>2, <3>1, <3>2
  <2>2. ASSUME NEW i \in 1 .. n
        PROVE  (a \o b)[i] = s[i]
    <3>1. CASE i <= m
      BY <1>1, <1>2, <2>1, <3>1
    <3>2. CASE ~ i <= m
      <4>1. i - m \in 1 .. n - m /\ m + (i - m) = i
        BY <1>1, <3>2
      <4>2. QED
        BY <1>3, <2>1, <3>2, <4>1
    <3>3. QED
      BY <3>1, <3>2
  <2>3. QED
    BY <2>1, <2>2, SeqEqual DEF n
<1>5. {i \in 1 .. Len(a) : a[i] = f} = {i \in 1 .. m : s[i] = f}
  BY <1>2
<1> HIDE DEF a, b
<1>6. Without(a, f) \in Seq(D) /\ c \in 0 .. m /\ Len(Without(a, f)) = m - c
  <2>1. /\ Cardinality({i \in 1 .. Len(a) : a[i] = f}) \in 0 .. Len(a)
        /\ Len(Without(a, f)) = Len(a) - Cardinality({i \in 1 .. Len(a) : a[i] = f})
        /\ Without(a, f) \in Seq(D)
    BY <1>2, WithoutCounted
  <2>2. Cardinality({i \in 1 .. Len(a) : a[i] = f}) = c
    BY <1>5
  <2> HIDE DEF c
  <2>3. QED
    BY <1>2, <2>1, <2>2
<1>7. Without(b, f) \in Seq(D)
  BY <1>3, WithoutCounted
<1>8. w = Without(a, f) \o Without(b, f)
  BY <1>2, <1>3, <1>4, WithoutOfTwo
<1> HIDE DEF c, w
<1>9. /\ w \in Seq(D) /\ m - c \in 0 .. Len(w)
      /\ SubSeq(w, m - c + 1, Len(w)) = Without(b, f)
  <2> DEFINE x == Without(a, f)
             y == Without(b, f)
  <2>1. x \in Seq(D) /\ y \in Seq(D) /\ Len(x) = m - c /\ w = x \o y /\ m - c \in Nat
    BY <1>1, <1>6, <1>7, <1>8
  <2> HIDE DEF x, y
  <2>2. w \in Seq(D) /\ Len(w) = Len(x) + Len(y) /\ m - c \in 0 .. Len(w)
    BY <2>1
  <2> DEFINE z == SubSeq(w, Len(x) + 1, Len(w))
             l == Len(x)
             k == Len(y)
  <2>3. l \in Nat /\ k \in Nat /\ Len(w) = l + k /\ l + 1 \in Int /\ l + k \in Int
    BY <2>1, <2>2
  <2>c. \A i \in 1 .. l + k : w[i] = IF i <= l THEN x[i] ELSE y[i - l]
    BY <2>1, ConcatProperties
  <2>d. \A i \in l + 1 .. l + k : w[i] \in D
    BY <2>2, <2>3
  <2>e. z = SubSeq(w, l + 1, l + k)
    BY <2>3
  <2> HIDE DEF z, l, k
  <2>4. /\ z \in Seq(D) /\ Len(z) = IF l + 1 <= l + k THEN (l + k) - (l + 1) + 1 ELSE 0
        /\ \A i \in 1 .. (l + k) - (l + 1) + 1 : z[i] = w[(l + 1) + i - 1]
    BY <2>3, <2>d, <2>e, SubSeqProperties
  <2>a. Len(z) = k
    BY <2>3, <2>4
  <2>b. ASSUME NEW i \in 1 .. k
        PROVE  z[i] = y[i]
    <3>1. /\ i \in 1 .. (l + k) - (l + 1) + 1 /\ (l + 1) + i - 1 = l + i
          /\ l + i \in 1 .. l + k /\ ~ l + i <= l /\ (l + i) - l = i
      BY <2>3
    <3>2. QED
      BY <2>4, <2>c, <3>1
  <2>5. SubSeq(w, m - c + 1, Len(w)) = y
    <3>1. z = y
      BY <2>1, <2>4, <2>a, <2>b, SeqEqual DEF k
    <3>2. QED
      BY <2>1, <3>1 DEF z
  <2>6. QED
    BY <2>2, <2>5 DEF y
<1>10. QED
  BY <1>6, <1>9 DEF b, c, w

(* And what adding to its end does.                                         *)
LEMMA RestAdded ==
  ASSUME NEW D, NEW s \in Seq(D), NEW t \in Seq(D), NEW m \in 0 .. Len(s)
  PROVE  SubSeq(s \o t, m + 1, Len(s \o t)) = SubSeq(s, m + 1, Len(s)) \o t
<1> DEFINE n == Len(s)
           k == Len(t)
           u == s \o t
           r == SubSeq(s, m + 1, n)
<1>1. n \in Nat /\ k \in Nat /\ m \in Nat /\ m <= n
  OBVIOUS
<1>2. /\ u \in Seq(D) /\ Len(u) = n + k
      /\ \A i \in 1 .. n + k : u[i] = IF i <= n THEN s[i] ELSE t[i - n]
  BY ConcatProperties
<1>3. r \in Seq(D) /\ Len(r) = n - m /\ \A i \in 1 .. n - m : r[i] = s[m + i]
  BY <1>1
<1> HIDE DEF r, u
<1> DEFINE v == r \o t
           z == SubSeq(u, m + 1, n + k)
<1>4. /\ v \in Seq(D) /\ Len(v) = (n - m) + k
      /\ \A i \in 1 .. (n - m) + k : v[i] = IF i <= n - m THEN r[i] ELSE t[i - (n - m)]
  <2>1. /\ v \in Seq(D) /\ Len(v) = Len(r) + k
        /\ \A i \in 1 .. Len(r) + k : v[i] = IF i <= Len(r) THEN r[i] ELSE t[i - Len(r)]
    BY <1>3, ConcatProperties
  <2>2. QED
    BY <1>3, <2>1
<1>5. z \in Seq(D) /\ Len(z) = (n - m) + k /\ \A i \in 1 .. (n - m) + k : z[i] = u[m + i]
  BY <1>1, <1>2
<1> HIDE DEF v, z, n, k
<1>6. ASSUME NEW i \in 1 .. (n - m) + k
      PROVE  z[i] = v[i]
  <2>1. i \in Int /\ m + i \in 1 .. n + k /\ (m + i) - n = i - (n - m)
    BY <1>1
  <2>2. CASE i <= n - m
    <3>1. i \in 1 .. n - m /\ m + i <= n
      BY <1>1, <2>1, <2>2
    <3>2. QED
      BY <1>2, <1>3, <1>4, <1>5, <2>1, <2>2, <3>1
  <2>3. CASE ~ i <= n - m
    <3>1. ~ m + i <= n
      BY <1>1, <2>1, <2>3
    <3>2. QED
      BY <1>2, <1>4, <1>5, <2>1, <2>3, <3>1
  <2>4. QED
    BY <2>2, <2>3
<1>7. z = v
  BY <1>4, <1>5, <1>6, SeqEqual
<1>8. QED
  BY <1>2, <1>7 DEF z, v, u, r, n, k

(* What holds of a list of callbacks between any two steps.                 *)
ListTypes ==
  /\ list \in Seq(Function) /\ due \in Seq(Function)
  /\ queue \in Seq(Nat) /\ memory \in Nat /\ fires \in Nat
  /\ firingIndex \in Int /\ firingIndex >= -1
  /\ running \in Function \cup {"none"}

FlagTypes ==
  /\ alive \in BOOLEAN /\ locked \in BOOLEAN /\ firing \in BOOLEAN
  /\ inPass \in BOOLEAN /\ emptied \in BOOLEAN /\ thrown \in BOOLEAN

(* Functions run in a pass, and a pass is part of fire; an exception leaves *)
(* both for good.                                                          *)
Phases ==
  /\ running # "none" => inPass /\ ~ thrown
  /\ inPass \/ thrown => firing
  /\ firing /\ ~ inPass /\ ~ thrown /\ queue = <<>> => firingIndex = -1

(* A disabled list has nothing.                                            *)
DisabledBare == ~ alive => list = <<>> /\ locked /\ memory = 0 /\ queue = <<>>

(* The function that runs is in the list, or was.                          *)
IndexInside == running # "none" /\ ~ emptied /\ alive => firingIndex < Len(list)

ListInv ==
  ListTypes /\ FlagTypes /\ Phases /\ DisabledBare /\ IndexInside /\ NoneSkipped /\ AtRest

LEMMA ListInvInit == ListInit => ListInv
<1> SUFFICES ASSUME ListInit
             PROVE  ListInv
  OBVIOUS
<1>1. ListTypes
  BY DEF ListInit, ListTypes
<1>2. FlagTypes
  BY DEF ListInit, FlagTypes
<1>3. Phases /\ DisabledBare /\ IndexInside /\ NoneSkipped /\ AtRest
  BY DEF ListInit, Phases, DisabledBare, IndexInside, NoneSkipped, AtRest
<1>4. QED
  BY <1>1, <1>2, <1>3 DEF ListInv

(* The loop of fire keeps it.                                               *)
LEMMA BeginPassKeeps ==
  ASSUME ListInv, BeginPass
  PROVE  ListInv'
<1> USE DEF ListInv, BeginPass, Firing
<1>1. Rest \in Seq(Function) /\ Rest' = Rest
  <2>1. Rest' = Rest
    BY DEF Rest
  <2>2. firingIndex + 2 \in Int /\ firingIndex + 2 >= 1 /\ Len(list) \in Int
    BY DEF ListTypes
  <2>3. Rest \in Seq(Function)
    BY <2>2 DEF Rest, ListTypes
  <2>4. QED
    BY <2>1, <2>3
<1>2. ListTypes'
  <2>1. Head(queue) \in Nat /\ Tail(queue) \in Seq(Nat)
    BY DEF ListTypes
  <2>2. QED
    BY <1>1, <2>1 DEF ListTypes
<1>3. FlagTypes'
  BY DEF FlagTypes
<1>4. Phases' /\ DisabledBare' /\ IndexInside' /\ AtRest'
  BY DEF FlagTypes, Phases, DisabledBare, IndexInside, AtRest
<1>5. NoneSkipped'
  BY <1>1 DEF NoneSkipped
<1>6. QED
  BY <1>2, <1>3, <1>4, <1>5

LEMMA CallNextKeeps ==
  ASSUME ListInv, CallNext
  PROVE  ListInv'
<1> DEFINE m == firingIndex + 1
           n == Len(list)
           r == Rest
           t == Tail(r)
           z == SubSeq(list, (m + 1) + 1, n)
<1> USE DEF ListInv, CallNext, Firing
<1>1. m \in Nat /\ n \in Nat /\ firingIndex + 2 = m + 1 /\ list \in Seq(Function)
  BY DEF ListTypes
<1>2. m < n
  BY <1>1 DEF Rest
<1>3. /\ r \in Seq(Function) /\ Len(r) = n - m /\ r # <<>>
      /\ \A i \in 1 .. n - m : r[i] = list[m + i]
  <2> DEFINE y == SubSeq(list, m + 1, n)
  <2>1. r = y
    BY <1>1 DEF Rest
  <2>2. y \in Seq(Function) /\ Len(y) = n - m /\ \A i \in 1 .. n - m : y[i] = list[m + i]
    BY <1>1, <1>2
  <2>3. r # <<>>
    OBVIOUS
  <2> HIDE DEF r, y
  <2>4. QED
    BY <2>1, <2>2, <2>3
<1>4. Head(r) \in Function
  BY <1>3
<1>5. z = Rest' /\ list' = list
  <2>1. list' = list /\ firingIndex' + 2 = (m + 1) + 1
    BY <1>1
  <2>2. Rest' = SubSeq(list', firingIndex' + 2, Len(list'))
    BY DEF Rest
  <2>3. QED
    BY <2>1, <2>2
<1>6. /\ z \in Seq(Function) /\ Len(z) = n - (m + 1)
      /\ \A i \in 1 .. n - m - 1 : z[i] = list[(m + 1) + i]
  BY <1>1, <1>2
<1> HIDE DEF r
<1>7. /\ t \in Seq(Function) /\ Len(t) = n - (m + 1)
      /\ \A i \in 1 .. n - m - 1 : t[i] = list[(m + 1) + i]
  <2>1. /\ t \in Seq(Function) /\ Len(t) = Len(r) - 1
        /\ \A i \in 1 .. Len(r) - 1 : t[i] = r[i + 1]
    BY <1>3, HeadTailProperties
  <2>2. \A i \in 1 .. n - m - 1 : i + 1 \in 1 .. n - m /\ m + (i + 1) = (m + 1) + i
    BY <1>1
  <2>3. Len(r) - 1 = n - m - 1 /\ n - m - 1 = n - (m + 1)
    BY <1>1, <1>3
  <2> HIDE DEF t, m, n
  <2>4. QED
    BY <1>3, <2>1, <2>2, <2>3
<1>8. t = z
  <2>1. n - m - 1 = n - (m + 1)
    BY <1>1
  <2> HIDE DEF t, z, n, m
  <2>2. QED
    BY <1>6, <1>7, <2>1, SeqEqual
<1>9. ListTypes'
  <2>1. firingIndex' = m /\ m \in Int /\ m >= -1
    BY <1>1
  <2>2. running' \in Function /\ due' \in Seq(Function)
    BY <1>4 DEF r, ListTypes
  <2> HIDE DEF m
  <2>3. QED
    BY <2>1, <2>2 DEF ListTypes
<1>10. FlagTypes'
  BY DEF FlagTypes
<1>11. Phases' /\ DisabledBare' /\ AtRest'
  BY <1>2 DEF FlagTypes, Phases, DisabledBare, AtRest
<1>12. IndexInside'
  BY <1>2, <1>5 DEF IndexInside
<1>13. NoneSkipped'
  <2>1. Rest # <<>>
    OBVIOUS
  <2>2. due = Rest => due' = Rest'
    BY <1>5, <1>8, <2>1 DEF r
  <2>3. QED
    BY <2>2 DEF NoneSkipped
<1>14. QED
  BY <1>9, <1>10, <1>11, <1>12, <1>13

LEMMA EndPassKeeps ==
  ASSUME ListInv, EndPass
  PROVE  ListInv'
<1> USE DEF ListInv, EndPass, Firing
<1>1. ListTypes'
  BY DEF ListTypes
<1>2. FlagTypes'
  BY DEF FlagTypes
<1>3. Phases' /\ DisabledBare' /\ IndexInside' /\ NoneSkipped' /\ AtRest'
  BY DEF FlagTypes, Phases, DisabledBare, IndexInside, NoneSkipped, AtRest
<1>4. QED
  BY <1>1, <1>2, <1>3

LEMMA LeaveFireKeeps ==
  ASSUME ListInv, LeaveFire
  PROVE  ListInv'
<1> USE DEF ListInv, LeaveFire, Firing
<1>1. ListTypes'
  <2>1. list' = list \/ list' = <<>>
    OBVIOUS
  <2>2. list' \in Seq(Function)
    BY <2>1, EmptySeq DEF ListTypes
  <2>3. memory' \in Nat
    BY DEF ListTypes
  <2>4. QED
    BY <2>2, <2>3 DEF ListTypes
<1>2. FlagTypes'
  <2>1. alive' \in BOOLEAN
    BY DEF FlagTypes
  <2>2. QED
    BY <2>1 DEF FlagTypes
<1>3. Phases' /\ IndexInside' /\ NoneSkipped'
  BY DEF FlagTypes, Phases, IndexInside, NoneSkipped
<1>4. DisabledBare' /\ AtRest'
  <2>1. memory' # 0 => memory # 0 /\ "memory" \in options
    OBVIOUS
  <2>2. CASE locked
    BY <2>1, <2>2 DEF FlagTypes, Phases, DisabledBare, AtRest
  <2>3. CASE ~ locked
    BY <2>1, <2>3 DEF FlagTypes, Phases, DisabledBare, AtRest
  <2>4. QED
    BY <2>2, <2>3
<1>5. QED
  BY <1>1, <1>2, <1>3, <1>4

LEMMA ThrowsKeeps ==
  ASSUME ListInv, Throws
  PROVE  ListInv'
<1> USE DEF ListInv, Throws
<1>1. ListTypes'
  BY DEF ListTypes
<1>2. FlagTypes'
  BY DEF FlagTypes
<1>3. Phases' /\ DisabledBare' /\ IndexInside' /\ NoneSkipped' /\ AtRest'
  BY DEF FlagTypes, Phases, DisabledBare, IndexInside, NoneSkipped, AtRest
<1>4. QED
  BY <1>1, <1>2, <1>3

LEMMA ReturnKeeps ==
  ASSUME ListInv, FunctionReturns
  PROVE  ListInv'
<1> USE DEF ListInv, FunctionReturns
<1>1. ListTypes'
  <2>1. firingIndex' \in Int /\ firingIndex' >= -1
    BY DEF ListTypes
  <2>2. memory' \in Nat
    BY DEF ListTypes
  <2>3. due' = due \/ due' = <<>>
    OBVIOUS
  <2>4. due' \in Seq(Function)
    BY <2>3, EmptySeq DEF ListTypes
  <2>5. QED
    BY <2>1, <2>2, <2>4 DEF ListTypes
<1>2. FlagTypes'
  BY DEF FlagTypes
<1>3. Phases' /\ DisabledBare' /\ IndexInside' /\ AtRest'
  BY DEF FlagTypes, Phases, DisabledBare, IndexInside, AtRest
<1>4. NoneSkipped'
  <2>1. CASE UNCHANGED <<firingIndex, memory, due>>
    BY <2>1 DEF NoneSkipped, Rest
  <2>2. CASE firingIndex' = Len(list) /\ due' = <<>>
    <3>1. Rest' = SubSeq(list, Len(list) + 2, Len(list))
      BY <2>2 DEF Rest
    <3>2. Rest' = <<>>
      BY <3>1 DEF ListTypes
    <3>3. QED
      BY <2>2, <3>2 DEF NoneSkipped
  <2>3. QED
    BY <2>1, <2>2
<1>5. QED
  BY <1>1, <1>2, <1>3, <1>4

(* What has been put in the queue makes it longer.                          *)
LEMMA Queued ==
  ASSUME NEW q \in Seq(Nat), NEW e \in Nat
  PROVE  Append(q, e) \in Seq(Nat) /\ Append(q, e) # <<>>
<1>1. Append(q, e) \in Seq(Nat) /\ Len(Append(q, e)) = Len(q) + 1 /\ Len(q) \in Nat
  OBVIOUS
<1> DEFINE z == Append(q, e)
<1> HIDE DEF z
<1>2. z \in Seq(Nat) /\ z # <<>>
  BY <1>1 DEF z
<1>3. QED
  BY <1>2 DEF z

(* Code that changes the list has its turn: in a pass it is the function    *)
(* that runs, and what comes after it starts inside the list.              *)
LEMMA InTurn ==
  ASSUME ListInv, ListFree, inPass, ~ thrown
  PROVE  /\ running # "none" /\ firing
         /\ ~ emptied /\ alive => firingIndex + 1 \in 0 .. Len(list)
BY DEF ListInv, ListFree, ListTypes, FlagTypes, Phases, IndexInside

(* What a function, or code outside, does to the list keeps it too.         *)
LEMMA AddKeeps ==
  ASSUME NEW f \in Function, ListInv, Add(f)
  PROVE  ListInv'
<1> DEFINE m == firingIndex + 1
<1> USE DEF ListInv, ChangesList
<1>1. PICK new : /\ new \in Seq(Function)
                 /\ list' = list \o new
                 /\ due' = IF inPass /\ ~ thrown THEN due \o new ELSE due
  <2>1. <<>> \in Seq(Function) /\ <<f>> \in Seq(Function)
    OBVIOUS
  <2>2. QED
    BY <2>1 DEF Add
<1>2. /\ ListFree /\ alive
      /\ UNCHANGED <<options, inPass, running, fires, thrown, alive, memory, emptied>>
      /\ \/ /\ memory # 0 /\ ~ firing
            /\ firingIndex' = Len(list) - 1
            /\ queue' = Append(queue, memory)
            /\ firing' = TRUE
            /\ locked' = (locked \/ "once" \in options)
         \/ UNCHANGED <<firingIndex, queue, firing, locked>>
  BY DEF Add, Enter
<1>3. /\ list \in Seq(Function) /\ list' \in Seq(Function) /\ due' \in Seq(Function)
      /\ Len(list') = Len(list) + Len(new) /\ Len(list) \in Nat /\ Len(new) \in Nat
  <2>1. list \in Seq(Function) /\ due \in Seq(Function)
    BY DEF ListTypes
  <2>2. list \o new \in Seq(Function) /\ due \o new \in Seq(Function)
    BY <1>1, <2>1
  <2>3. Len(list \o new) = Len(list) + Len(new)
    BY <1>1, <2>1
  <2>4. QED
    BY <1>1, <2>1, <2>2, <2>3
<1>4. queue' \in Seq(Nat) /\ (queue' = queue \/ queue' # <<>>)
  <2>1. Append(queue, memory) \in Seq(Nat) /\ Append(queue, memory) # <<>>
    BY Queued DEF ListTypes
  <2>2. QED
    BY <1>2, <2>1 DEF ListTypes
<1>5. firingIndex' \in Int /\ firingIndex' >= -1
  BY <1>2, <1>3 DEF ListTypes
<1>6. ListTypes'
  BY <1>2, <1>3, <1>4, <1>5 DEF ListTypes
<1>7. FlagTypes'
  BY <1>2 DEF FlagTypes
<1>8. Phases'
  <2>1. CASE memory # 0 /\ ~ firing /\ firing' = TRUE /\ queue' = Append(queue, memory)
    <3>1. queue' # <<>>
      BY <2>1, Queued DEF ListTypes
    <3>2. QED
      BY <1>2, <2>1, <3>1 DEF FlagTypes, Phases
  <2>2. CASE UNCHANGED <<firingIndex, queue, firing, locked>>
    BY <1>2, <2>2 DEF FlagTypes, Phases
  <2>3. QED
    BY <1>2, <2>1, <2>2
<1>9. DisabledBare' /\ AtRest'
  BY <1>2 DEF FlagTypes, Phases, DisabledBare, AtRest
<1>10. IndexInside'
  <2>1. CASE running = "none"
    BY <1>2, <2>1 DEF IndexInside
  <2>2. CASE running # "none"
    <3>1. firingIndex' = firingIndex
      BY <1>2, <2>2 DEF FlagTypes, Phases
    <3>2. QED
      BY <1>2, <1>3, <3>1 DEF IndexInside, ListTypes
  <2>3. QED
    BY <2>1, <2>2
<1>11. NoneSkipped'
  <2> SUFFICES ASSUME inPass, ~ thrown, ~ emptied
               PROVE  due' = Rest'
    BY <1>2 DEF NoneSkipped
  <2>1. m \in 0 .. Len(list) /\ firing
    BY <1>2, InTurn
  <2>2. firingIndex' = firingIndex /\ firingIndex + 2 = m + 1
    BY <1>2, <2>1 DEF ListTypes
  <2>3. due = SubSeq(list, m + 1, Len(list)) /\ due' = due \o new
    BY <1>1, <2>2 DEF NoneSkipped, Rest
  <2> HIDE DEF m
  <2>4. SubSeq(list \o new, m + 1, Len(list \o new)) = SubSeq(list, m + 1, Len(list)) \o new
    BY <1>1, <1>3, <2>1, RestAdded
  <2>5. Rest' = SubSeq(list', m + 1, Len(list'))
    BY <2>2 DEF Rest
  <2>6. QED
    BY <1>1, <2>3, <2>4, <2>5
<1>12. QED
  BY <1>6, <1>7, <1>8, <1>9, <1>10, <1>11

LEMMA RemoveKeeps ==
  ASSUME NEW f \in Function, ListInv, RemoveFunction(f)
  PROVE  ListInv'
<1> DEFINE m == firingIndex + 1
           c == Cardinality(Passed(f))
<1> USE DEF ListInv, RemoveFunction, ChangesList
<1>1. list \in Seq(Function) /\ due \in Seq(Function) /\ Len(list) \in Nat /\ m \in Nat
  BY DEF ListTypes
<1>2. list' \in Seq(Function) /\ due' \in Seq(Function)
  BY <1>1, WithoutCounted
<1>3. alive /\ alive' = alive
  <2>1. list # <<>>
    BY DEF Has
  <2>2. QED
    BY <2>1 DEF FlagTypes, DisabledBare
<1>4. c \in 0 .. m
  <2>1. Passed(f) \subseteq 1 .. m
    BY <1>1 DEF Passed, Positions, ListTypes
  <2>2. IsFiniteSet(1 .. m) /\ Cardinality(1 .. m) = m
    BY <1>1, FS_Interval
  <2>3. IsFiniteSet(Passed(f)) /\ c <= m
    BY <2>1, <2>2, FS_Subset
  <2>4. c \in Nat
    BY <2>3, FS_CardinalityType
  <2> HIDE DEF m, c
  <2>5. QED
    BY <1>1, <2>3, <2>4
<1>5. firingIndex' = (m - c) - 1 /\ firingIndex' \in Int /\ firingIndex' >= -1
  <2>1. firingIndex' = firingIndex - c /\ firingIndex \in Int
    BY DEF ListTypes
  <2> HIDE DEF c
  <2>2. QED
    BY <1>4, <2>1
<1>6. firingIndex = -1 => firingIndex' = -1
  <2>1. firingIndex = -1 => m = 0
    OBVIOUS
  <2> HIDE DEF m, c
  <2>2. QED
    BY <1>4, <1>5, <2>1
<1>7. /\ m \in 0 .. Len(list) => m - c \in 0 .. Len(list')
      /\ m \in 0 .. Len(list) /\ due = SubSeq(list, m + 1, Len(list))
           => due' = SubSeq(list', m - c + 1, Len(list'))
  <2> SUFFICES ASSUME m \in 0 .. Len(list)
               PROVE  /\ m - c \in 0 .. Len(list')
                      /\ due = SubSeq(list, m + 1, Len(list))
                           => due' = SubSeq(list', m - c + 1, Len(list'))
    OBVIOUS
  <2>1. Passed(f) = {i \in 1 .. m : list[i] = f}
    BY <1>1 DEF Passed, Positions, ListTypes
  <2>2. list' = Without(list, f) /\ due' = Without(due, f)
    OBVIOUS
  <2> DEFINE d == Cardinality({i \in 1 .. m : list[i] = f})
             w == Without(list, f)
  <2>3. c = d
    BY <2>1
  <2> HIDE DEF m, c
  <2>4. /\ m - d \in 0 .. Len(w)
        /\ SubSeq(w, m - d + 1, Len(w)) = Without(SubSeq(list, m + 1, Len(list)), f)
    BY <1>1, RestRemoved
  <2> HIDE DEF d, w
  <2>5. QED
    BY <2>2, <2>3, <2>4 DEF w
<1>8. ListTypes'
  BY <1>2, <1>5 DEF ListTypes
<1>9. FlagTypes'
  BY DEF FlagTypes
<1>10. Phases' /\ DisabledBare' /\ AtRest'
  BY <1>3, <1>6 DEF FlagTypes, Phases, DisabledBare, AtRest
<1>11. ASSUME inPass, ~ thrown, ~ emptied
       PROVE  m \in 0 .. Len(list)
  BY <1>3, <1>11, InTurn
<1>12. IndexInside'
  <2> SUFFICES ASSUME running # "none", ~ emptied
               PROVE  firingIndex' < Len(list')
    BY DEF IndexInside
  <2>1. m - c \in 0 .. Len(list')
    BY <1>7, <1>11 DEF FlagTypes, Phases
  <2>2. Len(list') \in Nat
    BY <1>2
  <2> HIDE DEF m, c
  <2>3. QED
    BY <1>1, <1>4, <1>5, <2>1, <2>2
<1>13. NoneSkipped'
  <2> SUFFICES ASSUME inPass, ~ thrown, ~ emptied
               PROVE  due' = Rest'
    BY DEF NoneSkipped
  <2>1. firingIndex + 2 = m + 1
    BY DEF ListTypes
  <2>2. due = SubSeq(list, m + 1, Len(list))
    BY <2>1 DEF NoneSkipped, Rest
  <2>3. due' = SubSeq(list', m - c + 1, Len(list'))
    BY <1>7, <1>11, <2>2
  <2>4. firingIndex' + 2 = m - c + 1
    <3> HIDE DEF m, c
    <3>1. QED
      BY <1>1, <1>4, <1>5
  <2>5. Rest' = SubSeq(list', firingIndex' + 2, Len(list'))
    BY DEF Rest
  <2>6. QED
    BY <2>3, <2>4, <2>5
<1>14. QED
  BY <1>8, <1>9, <1>10, <1>12, <1>13

LEMMA EmptyKeeps ==
  ASSUME ListInv, Empty
  PROVE  ListInv'
<1> USE DEF ListInv, Empty, ChangesList
<1>1. ListTypes'
  BY EmptySeq DEF ListTypes
<1>2. FlagTypes'
  BY DEF FlagTypes
<1>3. Phases' /\ DisabledBare' /\ IndexInside' /\ NoneSkipped' /\ AtRest'
  BY DEF FlagTypes, Phases, DisabledBare, IndexInside, NoneSkipped, AtRest
<1>4. QED
  BY <1>1, <1>2, <1>3

LEMMA DisableKeeps ==
  ASSUME ListInv, Disable
  PROVE  ListInv'
<1> USE DEF ListInv, Disable, ChangesList
<1>1. ListTypes'
  BY EmptySeq DEF ListTypes
<1>2. FlagTypes'
  BY DEF FlagTypes
<1>3. DisabledBare' /\ IndexInside' /\ AtRest'
  BY DEF FlagTypes, DisabledBare, IndexInside, AtRest
<1>4. Phases'
  <2>1. firing /\ ~ inPass /\ ~ thrown => FALSE
    BY DEF ListFree, FlagTypes, Phases
  <2>2. QED
    BY <2>1 DEF FlagTypes, Phases
<1>5. NoneSkipped'
  <2>1. Rest' = SubSeq(<<>>, firingIndex + 2, 0)
    BY DEF Rest
  <2>2. Rest' = <<>>
    BY <2>1 DEF ListTypes
  <2>3. QED
    BY <2>2 DEF NoneSkipped
<1>6. QED
  BY <1>1, <1>2, <1>3, <1>4, <1>5

LEMMA LockKeeps ==
  ASSUME ListInv, Lock
  PROVE  ListInv'
<1> USE DEF ListInv, Lock, ChangesList
<1>1. \/ memory = 0 /\ ~ firing /\ list' = <<>> /\ alive' = FALSE
      \/ UNCHANGED <<list, alive>>
  OBVIOUS
<1>2. ListTypes'
  BY <1>1, EmptySeq DEF ListTypes
<1>3. FlagTypes'
  BY <1>1 DEF FlagTypes
<1>4. Phases'
  <2>1. firing /\ ~ inPass /\ ~ thrown => FALSE
    BY DEF ListFree, FlagTypes, Phases
  <2>2. QED
    BY <2>1 DEF FlagTypes, Phases
<1>5. DisabledBare' /\ AtRest'
  BY <1>1 DEF FlagTypes, DisabledBare, AtRest
<1>6. IndexInside' /\ NoneSkipped'
  BY <1>1 DEF FlagTypes, Phases, IndexInside, NoneSkipped, Rest
<1>7. QED
  BY <1>2, <1>3, <1>4, <1>5, <1>6

LEMMA FireWithKeeps ==
  ASSUME ListInv, FireWith
  PROVE  ListInv'
<1> USE DEF ListInv, FireWith
<1>1. fires' \in Nat
  BY DEF ListTypes
<1>2. queue' = queue \/ (queue' # <<>> /\ queue' \in Seq(Nat) /\ ~ locked)
  <2>1. Append(queue, fires') \in Seq(Nat) /\ Append(queue, fires') # <<>>
    BY <1>1, Queued DEF ListTypes
  <2>2. QED
    BY <2>1
<1>3. ListTypes'
  BY <1>1, <1>2 DEF ListTypes
<1>4. FlagTypes'
  BY DEF FlagTypes, Enter
<1>5. Phases'
  <2>1. CASE locked
    BY <2>1 DEF FlagTypes, Phases
  <2>2. CASE ~ locked
    <3>1. queue' # <<>>
      BY <1>1, <2>2, Queued DEF ListTypes
    <3>2. QED
      BY <2>2, <3>1 DEF FlagTypes, Phases, Enter
  <2>3. QED
    BY <2>1, <2>2
<1>6. DisabledBare' /\ IndexInside' /\ NoneSkipped'
  <2>1. UNCHANGED <<list, alive, memory, firingIndex, inPass, running, due, emptied, thrown>>
    OBVIOUS
  <2>2. IndexInside' /\ NoneSkipped'
    BY <2>1 DEF IndexInside, NoneSkipped, Rest
  <2>3. DisabledBare'
    BY <2>1 DEF FlagTypes, DisabledBare
  <2>4. QED
    BY <2>2, <2>3
<1>7. AtRest'
  BY DEF FlagTypes, AtRest, Enter
<1>8. QED
  BY <1>3, <1>4, <1>5, <1>6, <1>7

LEMMA ListStill ==
  ASSUME ListInv, UNCHANGED listVars
  PROVE  ListInv'
<1> USE DEF ListInv, listVars
<1>1. ListTypes' /\ FlagTypes'
  BY DEF ListTypes, FlagTypes
<1>2. Phases' /\ DisabledBare' /\ AtRest'
  BY DEF Phases, DisabledBare, AtRest
<1>3. IndexInside' /\ NoneSkipped'
  BY DEF IndexInside, NoneSkipped, Rest
<1>4. QED
  BY <1>1, <1>2, <1>3

LEMMA ListInvStep == ListInv /\ [ListNext]_listVars => ListInv'
BY BeginPassKeeps, CallNextKeeps, EndPassKeeps, LeaveFireKeeps, ThrowsKeeps, ReturnKeeps,
   AddKeeps, RemoveKeeps, EmptyKeeps, DisableKeeps, LockKeeps, FireWithKeeps, ListStill
DEF ListNext, Fire, UseList

(* jQuery.Callbacks, fire and self (jquery-3.2.1.js 3304 to 3463).  Of the  *)
(* functions that are in a list when its pass begins, or that are added in *)
(* the pass, those not taken away are called, each once and in order,      *)
(* unless one of them throws, returns false where that counts, or empties  *)
(* or disables the list; and a list that is not being fired has nothing    *)
(* waiting and remembers only if it was made to.  This is so for any       *)
(* functions, options and bounds, whatever the functions do to the list.   *)
THEOREM NoneSkippedHolds == ListSpec => [](NoneSkipped /\ AtRest)
<1>1. ListInv => NoneSkipped /\ AtRest
  BY DEF ListInv
<1>2. ListInv /\ [ListNext]_listVars => ListInv'
  BY ListInvStep
<1>3. QED
  BY <1>1, <1>2, ListInvInit, PTL DEF ListSpec
=============================================================================
