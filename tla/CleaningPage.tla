---------------------------- MODULE CleaningPage -----------------------------
(***************************************************************************)
(* One browser and the cleaning runs it asks for: the page clean1.jsp with  *)
(* assets/js/scripts2.js, its web socket, CleanerSocketServer.onMessage at  *)
(* the other end, and the page clean2.jsp that shows what onMessage leaves  *)
(* in the HttpSession.  Several clients, the files and the engine they      *)
(* share are in CleanerServer; here one client may leave a page and come    *)
(* back while the server still works for the page that is gone.            *)
(*                                                                         *)
(* A visit of clean1.jsp is a number; a result is the visit it was computed *)
(* for, 0 if there is none.  The texts of the server reach the page in      *)
(* order; once the browser has closed a connection it may cut it at any     *)
(* time, and writing to it is an error from then on.                       *)
(***************************************************************************)
EXTENDS Naturals, Sequences

CONSTANTS MaxVisits,        \* bound on the visits of clean1.jsp
          MaxInvalidations  \* bound on the downloads of discovered rules

ASSUME CleaningPageAssumption == MaxVisits \in Nat \ {0} /\ MaxInvalidations \in Nat

Visits == 1 .. MaxVisits

Welcome == "This is RDBSCleaner V1.0"
Failure == "WebSocket error"
Start    == ">>> Start Cleaning..."
Progress == ">>> ..."
Time     == "time"
Finish   == "Finish."

Text == {Welcome, Failure, Start, Progress, Time, Finish}

VARIABLES
  place,       \* the page shown: "clean1", "asking", "half", "clean2", "away"
  visit,       \* the last visit of clean1.jsp, 0 before the first
  script,      \* scripts2.js: "loading", or "ready" after its ready handler
  readyState,  \* the socket of the page
  sent,        \* what became of send(): "no", "sent", "thrown", "discarded"
  shown,       \* the texts in #message
  viewResult,  \* whether the button is visible
  toServer,    \* toServer[v]: whether the message of visit v is on its way
  toClient,    \* toClient[v]: texts on their way to visit v's page
  cut,         \* cut[v]: whether the connection is gone
  onMessage,   \* onMessage[v]: how far the endpoint of visit v is
  httpSession, \* httpSession[v]: the HttpSession it has taken
  session,     \* the HttpSession of the browser
  header,      \* attributes of that session, and
  dataSet,
  cleanedFile, \* the file to be downloaded, each with the visit it is of
  result,      \* what clean2.jsp shows
  quiet        \* for the properties: no older endpoint was at work

page == <<script, readyState, sent, shown, viewResult>>
wire == <<toServer, toClient, cut>>
endpoint == <<onMessage, httpSession, session, header, dataSet, cleanedFile>>

vars == <<place, visit, page, wire, endpoint, result, quiet>>

NoPage ==
  /\ script = "loading" /\ readyState = "CLOSED"
  /\ sent = "no" /\ shown = <<>> /\ viewResult = FALSE

Init ==
  /\ place = "away" /\ visit = 0 /\ NoPage
  /\ toServer = [v \in Visits |-> FALSE]
  /\ toClient = [v \in Visits |-> <<>>]
  /\ cut = [v \in Visits |-> FALSE]
  /\ onMessage = [v \in Visits |-> "closed"]
  /\ httpSession = [v \in Visits |-> 0]
  /\ session = 0 /\ header = 0 /\ dataSet = 0 /\ cleanedFile = 0
  /\ result = [header |-> 0, dataSet |-> 0, stored |-> FALSE]
  /\ quiet = FALSE

(* The endpoint of visit v has nothing left to do.                         *)
Idle(v) == onMessage[v] \in {"closed", "open", "stored", "failed", "thrown"} /\ ~ toServer[v]

-----------------------------------------------------------------------------
(* clean1.jsp is loaded and scripts2.js opens the socket.                  *)
Visit ==
  /\ place = "away" /\ visit < MaxVisits
  /\ place' = "clean1" /\ visit' = visit + 1
  /\ script' = "loading" /\ readyState' = "CONNECTING"
  /\ sent' = "no" /\ shown' = <<>> /\ viewResult' = FALSE
  /\ quiet' = \A v \in 1 .. visit : Idle(v)
  /\ UNCHANGED <<wire, endpoint, result>>

Says(text) == shown' = Append(shown, text)

(* Mutation: every connection is given the first session of the browser.   *)
SessionOnOpenMut == 0

SessionOnOpen == session

(* The handshake ends.  The event is lost unless the handlers are there.   *)
Established ==
  /\ place = "clean1" /\ readyState = "CONNECTING"
  /\ readyState' = "OPEN"
  /\ onMessage' = [onMessage EXCEPT ![visit] = "open"]
  /\ httpSession' = [httpSession EXCEPT ![visit] = SessionOnOpen]
  /\ IF script = "ready" THEN Says(Welcome) ELSE UNCHANGED shown
  /\ UNCHANGED <<place, visit, script, sent, viewResult, wire, session, header, dataSet,
                 cleanedFile, result, quiet>>

(* The server is not reached.                                              *)
NotConnected ==
  /\ place = "clean1" /\ readyState = "CONNECTING"
  /\ readyState' = "CLOSED"
  /\ IF script = "ready" THEN Says(Failure) ELSE UNCHANGED shown
  /\ UNCHANGED <<place, visit, script, sent, viewResult, wire, endpoint, result, quiet>>

(* send(): the object is never null, so nothing waits for the handshake;   *)
(* WebSocket.send throws while it lasts, and discards when it has failed.  *)
send ==
  /\ sent' = CASE readyState = "CONNECTING" -> "thrown"
               [] readyState = "OPEN"       -> "sent"
               [] OTHER                     -> "discarded"
  /\ toServer' = [toServer EXCEPT ![visit] = readyState = "OPEN"]

(* The ready handler installs the handlers and sends the URLs.             *)
Ready ==
  /\ place = "clean1" /\ script = "loading"
  /\ script' = "ready"
  /\ send
  /\ UNCHANGED <<place, visit, readyState, shown, viewResult, toClient, cut, endpoint,
                 result, quiet>>

(* Mutation: the end is not recognised among the other texts.              *)
EndsMut(text) == text = Finish /\ shown = <<>>

Ends(text) == text = Finish

closeWebSocket ==
  /\ readyState' = IF readyState = "CLOSED" THEN "CLOSED" ELSE "CLOSING"
  /\ viewResult' = TRUE

(* onmessage: the browser drops what arrives on a socket that is not open. *)
Receive ==
  /\ place = "clean1" /\ toClient[visit] # <<>>
  /\ toClient' = [toClient EXCEPT ![visit] = Tail(@)]
  /\ IF readyState # "OPEN" THEN UNCHANGED <<shown, readyState, viewResult>>
     ELSE /\ Says(Head(toClient[visit]))
          /\ IF Ends(Head(toClient[visit])) THEN closeWebSocket
             ELSE UNCHANGED <<readyState, viewResult>>
  /\ UNCHANGED <<place, visit, script, sent, toServer, cut, endpoint, result, quiet>>

(* The closing handshake is over, or the browser has waited long enough.   *)
Closed ==
  /\ place = "clean1" /\ readyState = "CLOSING"
  /\ readyState' = "CLOSED"
  /\ cut' = [cut EXCEPT ![visit] = TRUE]
  /\ UNCHANGED <<place, visit, script, sent, shown, viewResult, toServer, toClient,
                 endpoint, result, quiet>>

(* The connection of a page that is gone is closed by onbeforeunload; the  *)
(* browser drops it some time later.                                       *)
Drop(v) ==
  /\ v < visit \/ (v = visit /\ place # "clean1")
  /\ ~ cut[v]
  /\ cut' = [cut EXCEPT ![v] = TRUE]
  /\ UNCHANGED <<place, visit, page, toServer, toClient, endpoint, result, quiet>>

(* Another page is asked for: onbeforeunload, and the page is gone.        *)
Unload(next) ==
  /\ place = "clean1"
  /\ place' = next
  /\ script' = "loading" /\ readyState' = "CLOSED"
  /\ sent' = "no" /\ shown' = <<>> /\ viewResult' = FALSE
  /\ UNCHANGED <<visit, wire, endpoint, quiet>>

Leave == Unload("away") /\ UNCHANGED result

(* View Result: clean2.jsp reads one attribute, later the other.           *)
View ==
  /\ viewResult
  /\ Unload("asking")
  /\ result' = [header |-> 0, dataSet |-> 0, stored |-> onMessage[visit] = "stored"]

ReadHeader ==
  /\ place = "asking"
  /\ place' = "half"
  /\ result' = [result EXCEPT !.header = header]
  /\ UNCHANGED <<visit, page, wire, endpoint, quiet>>

ReadDataSet ==
  /\ place = "half"
  /\ place' = "clean2"
  /\ result' = [result EXCEPT !.dataSet = dataSet]
  /\ UNCHANGED <<visit, page, wire, endpoint, quiet>>

(* Restart: back to loadFile.jsp.                                          *)
Restart ==
  /\ place = "clean2"
  /\ place' = "away"
  /\ UNCHANGED <<visit, page, wire, endpoint, result, quiet>>

(* DownloadRules.doGet, asked for from DiscoverRules.jsp, ends the session; *)
(* the browser is given a new one.                                         *)
Invalidate ==
  /\ place = "away" /\ session < MaxInvalidations
  /\ session' = session + 1
  /\ header' = 0 /\ dataSet' = 0
  /\ UNCHANGED <<place, visit, page, wire, onMessage, httpSession, cleanedFile, result, quiet>>

-----------------------------------------------------------------------------
(* CleanerSocketServer.onMessage for visit v.                              *)

(* sendText throws an exception, which leaves onMessage, on a connection    *)
(* that is gone.                                                           *)
sendText(v, text, to) ==
  /\ IF cut[v]
     THEN /\ onMessage' = [onMessage EXCEPT ![v] = "thrown"]
          /\ UNCHANGED toClient
     ELSE /\ onMessage' = [onMessage EXCEPT ![v] = to]
          /\ toClient' = [toClient EXCEPT ![v] = Append(@, text)]
  /\ UNCHANGED <<place, visit, page, cut, httpSession, session, header, dataSet, cleanedFile,
                 result, quiet>>

OnMessage(v) ==
  /\ onMessage[v] = "open" /\ toServer[v]
  /\ toServer' = [toServer EXCEPT ![v] = FALSE]
  /\ sendText(v, Start, "started")

(* startClean up to writeToFile; loadRules and the others report on it.    *)
Report(v) ==
  /\ onMessage[v] = "started"
  /\ sendText(v, Progress, "computed")
  /\ UNCHANGED toServer

(* An SQLException is printed, any other exception leaves onMessage: the    *)
(* page is told of neither.                                                *)
Fails(v) ==
  /\ onMessage[v] \in {"started", "computed"}
  /\ onMessage' = [onMessage EXCEPT ![v] = "failed"]
  /\ UNCHANGED <<place, visit, page, wire, httpSession, session, header, dataSet, cleanedFile,
                 result, quiet>>

WriteToFile(v) ==
  /\ onMessage[v] = "computed"
  /\ onMessage' = [onMessage EXCEPT ![v] = "written"]
  /\ cleanedFile' = v
  /\ UNCHANGED <<place, visit, page, wire, httpSession, session, header, dataSet, result,
                 quiet>>

(* Mutation: the client is told before the file is written.                *)
FinishedAtMut == "computed"

FinishedAt == "timed"

SayTime(v) ==
  /\ onMessage[v] = "written"
  /\ sendText(v, Time, "timed")
  /\ UNCHANGED toServer

SayFinish(v) ==
  /\ onMessage[v] = FinishedAt
  /\ sendText(v, Finish, "said")
  /\ UNCHANGED toServer

(* setAttribute throws if the session has ended.                           *)
StoreHeader(v) ==
  /\ onMessage[v] = "said"
  /\ IF httpSession[v] = session
     THEN header' = v /\ onMessage' = [onMessage EXCEPT ![v] = "header"]
     ELSE UNCHANGED header /\ onMessage' = [onMessage EXCEPT ![v] = "failed"]
  /\ UNCHANGED <<place, visit, page, wire, httpSession, session, dataSet, cleanedFile, result,
                 quiet>>

(* Mutation: the data set is stored only if there is none.                 *)
StoredDataSetMut(v) == IF dataSet = 0 THEN v ELSE dataSet

StoredDataSet(v) == v

StoreDataSet(v) ==
  /\ onMessage[v] = "header"
  /\ IF httpSession[v] = session
     THEN dataSet' = StoredDataSet(v) /\ onMessage' = [onMessage EXCEPT ![v] = "stored"]
     ELSE UNCHANGED dataSet /\ onMessage' = [onMessage EXCEPT ![v] = "failed"]
  /\ UNCHANGED <<place, visit, page, wire, httpSession, session, header, cleanedFile, result,
                 quiet>>

-----------------------------------------------------------------------------
Browser ==
  \/ Visit \/ Established \/ NotConnected \/ Ready \/ Receive \/ Closed
  \/ Leave \/ View \/ ReadHeader \/ ReadDataSet \/ Restart \/ Invalidate
  \/ \E v \in Visits : Drop(v)

Endpoint(v) ==
  \/ OnMessage(v) \/ Report(v) \/ Fails(v) \/ WriteToFile(v) \/ SayTime(v) \/ SayFinish(v)
  \/ StoreHeader(v) \/ StoreDataSet(v)

Terminating ==
  /\ place = "away" /\ visit = MaxVisits
  /\ \A v \in Visits : Idle(v)
  /\ UNCHANGED vars

(* The page waits for ever; only leaving it ends that, as Leave does.      *)
Next == Browser \/ (\E v \in Visits : Endpoint(v)) \/ Terminating

(* The browser runs the scripts and the events of the page it shows, the   *)
(* server its threads; what the user does is up to him.                    *)
Fairness ==
  /\ WF_vars(Ready) /\ WF_vars(Established \/ NotConnected)
  /\ WF_vars(Receive) /\ WF_vars(Closed) /\ WF_vars(ReadHeader) /\ WF_vars(ReadDataSet)
  /\ \A v \in Visits : WF_vars(Endpoint(v))

Spec == Init /\ [][Next]_vars /\ Fairness

-----------------------------------------------------------------------------
States == {"closed", "open", "started", "computed", "written", "timed", "said", "header",
           "stored", "failed", "thrown"}

TypeOK ==
  /\ place \in {"clean1", "asking", "half", "clean2", "away"}
  /\ visit \in 0 .. MaxVisits
  /\ script \in {"loading", "ready"}
  /\ readyState \in {"CONNECTING", "OPEN", "CLOSING", "CLOSED"}
  /\ sent \in {"no", "sent", "thrown", "discarded"}
  /\ shown \in Seq(Text) /\ viewResult \in BOOLEAN
  /\ toServer \in [Visits -> BOOLEAN]
  /\ toClient \in [Visits -> Seq(Text)]
  /\ cut \in [Visits -> BOOLEAN]
  /\ onMessage \in [Visits -> States]
  /\ httpSession \in [Visits -> Nat]
  /\ session \in Nat
  /\ header \in 0 .. MaxVisits /\ dataSet \in 0 .. MaxVisits /\ cleanedFile \in 0 .. MaxVisits
  /\ result \in [header : 0 .. MaxVisits, dataSet : 0 .. MaxVisits, stored : BOOLEAN]
  /\ quiet \in BOOLEAN

(* The texts a whole run sends, with or without the welcome before them.   *)
WholeRun == <<Start, Progress, Time, Finish>>

(* The button is offered only after the whole report of this very visit,   *)
(* in order, and not before its file is there: what the user then          *)
(* downloads is this run's, if no older run was at work.                   *)
ButtonMeansFinished ==
  viewResult =>
    /\ shown \in {WholeRun, <<Welcome>> \o WholeRun}
    /\ onMessage[visit] \in {"said", "header", "stored", "failed"}
    /\ quiet => cleanedFile = visit

(* A user who asks for the result after the endpoint has stored it, and     *)
(* whose older runs were over when the page was opened, sees the header and *)
(* the data set of this run, whatever was interrupted, invalidated or left  *)
(* in the session before.                                                  *)
SoleRunShown ==
  place = "clean2" /\ quiet /\ result.stored =>
    result.header = visit /\ result.dataSet = visit

(* Once the URLs are sent the page comes to show the button, unless the    *)
(* user leaves it or the cleaning fails: nothing is waited for in vain.    *)
Answered ==
  sent = "sent" ~> (viewResult \/ place # "clean1" \/ onMessage[visit] = "failed")

-----------------------------------------------------------------------------
(* scripts2.js 87: the socket is closed when the window is, "otherwise the *)
(* server throws an exception": no endpoint ends by one.                   *)
ServerUndisturbed == \A v \in Visits : onMessage[v] # "thrown"
=============================================================================
