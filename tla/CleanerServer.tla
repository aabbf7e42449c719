--------------------------- MODULE CleanerServer ----------------------------
(***************************************************************************)
(* The web layer (src/servlet, src/websocket, src/util) around one cleaning *)
(* run, for several clients of one server: UploadServlet stores the files  *)
(* and forwards their URLs to a page, the page opens a web socket and sends *)
(* the URLs, CleanerSocketServer.startClean cleans and leaves the result in *)
(* an HttpSession and in a file to be downloaded.                          *)
(*                                                                         *)
(* The servlet object, the endpoint's properties, the files evidence.db,   *)
(* prog.mln and RDBSCleaner_cleaned.txt, the database schema and the       *)
(* engine's static fields are one for all clients.  What a file holds is   *)
(* abstracted to the client who uploaded it, who has one data set and one  *)
(* file of rules; a result is a record of whose data was cleaned with whose *)
(* rules and probabilities.  Nobody stops the server from outside.         *)
(***************************************************************************)
EXTENDS Naturals, FiniteSets, TLC

CONSTANTS
  Client,     \* browsers, each with an HttpSession of its own
  FileName,   \* names of uploaded files
  Nobody,     \* no content: null, or a file that is empty or does not exist
  MaxRounds,  \* bound on the uploads
  MaxFaults   \* bound on uploads that fail and on exceptions

ASSUME CleanerServerAssumption ==
  /\ Nobody \notin Client \cup FileName
  /\ MaxRounds \in Nat /\ MaxFaults \in Nat

(* Clients are alike, and so are file names.                               *)
Symmetric == Permutations(Client) \cup Permutations(FileName)

Owner == Client \cup {Nobody}
URL   == FileName \cup {Nobody}

(* Probabilities: whose rules, whose values were counted as evidence, and  *)
(* whether the engine had no error to report (ExceptionMan) on its way.    *)
NoProbs == [rules |-> Nobody, evidence |-> Nobody, whole |-> FALSE]

NoResult == [data |-> Nobody, rules |-> Nobody, probs |-> NoProbs]

VARIABLES
  nameOf,       \* the name client c gives its data set and its rules file
  rejected,     \* clients whose rules the engine reports an error for
  server,       \* "up", or "down" after System.exit
  pc,           \* pc[c]: how far client c's round is
  dataFile,     \* the uploaded files by name
  rulesFile,
  rulesURL,     \* fields of the one UploadServlet object
  datasetURL,
  page,         \* page[c]: the URLs in c's clean1.jsp
  userProperty, \* the HttpSession in the endpoint's user properties
  httpSession,  \* httpSession[c]: field of c's CleanerSocketServer
  loaded,       \* loaded[c]: whose rules startClean has loaded
  header,       \* header[c]: field of c's CleanerSocketServer
  evidence,     \* the file evidence.db
  mln,          \* the file prog.mln: whose rules
  program,      \* program[c]: the program the engine has parsed for c
  workspace,    \* the tables of the predicates in the shared schema
  probs,        \* probs[c]: attributesPROB
  dataSet,      \* dataSet[c]: the data set startClean cleans
  cleanedFile,  \* the file RDBSCleaner_cleaned.txt
  attributes,   \* attributes[c]: header and dataSet in c's HttpSession
  exiting_mode, \* Config.exiting_mode
  rounds,
  faults,
  alone,        \* alone[c]: whether nobody else was served since c's upload
  engineRuns,   \* for the properties: engine runs that came to cleanUp,
  stored,       \* whether c's last upload arrived,
  setBy         \* and whose endpoints set the attributes of c's session last

clients  == <<nameOf, rejected>>
files    == <<dataFile, rulesFile>>
servlet  == <<rulesURL, datasetURL>>
endpoint == <<httpSession, loaded, header, probs, dataSet>>
engine   == <<evidence, mln, program, workspace, exiting_mode, engineRuns>>
bounds   == <<rounds, faults>>

vars == <<clients, server, pc, files, servlet, page, userProperty, endpoint, engine,
          cleanedFile, attributes, bounds, stored, setBy, alone>>

Init ==
  /\ nameOf \in [Client -> FileName]
  /\ rejected \in SUBSET Client
  /\ server = "up"
  /\ pc = [c \in Client |-> "idle"]
  /\ dataFile = [n \in FileName |-> Nobody]
  /\ rulesFile = [n \in FileName |-> Nobody]
  /\ rulesURL = Nobody /\ datasetURL = Nobody
  /\ page = [c \in Client |-> [rules |-> Nobody, data |-> Nobody]]
  /\ userProperty = Nobody
  /\ httpSession = [c \in Client |-> Nobody]
  /\ loaded = [c \in Client |-> Nobody]
  /\ header = [c \in Client |-> Nobody]
  /\ evidence = Nobody /\ mln = Nobody /\ workspace = Nobody
  /\ program = [c \in Client |-> Nobody]
  /\ probs = [c \in Client |-> NoProbs]
  /\ dataSet = [c \in Client |-> NoResult]
  /\ cleanedFile = NoResult
  /\ attributes = [c \in Client |-> [header |-> Nobody, dataSet |-> NoResult]]
  /\ exiting_mode = FALSE
  /\ rounds = 0 /\ faults = 0 /\ engineRuns = 0
  /\ stored = [c \in Client |-> FALSE]
  /\ setBy = [c \in Client |-> [header |-> Nobody, dataSet |-> Nobody]]
  /\ alone = [c \in Client |-> FALSE]

(* Client c takes a step from one place to another; every other client     *)
(* that is being served is no longer alone.                                *)
Move(c, from, to) ==
  /\ server = "up"
  /\ UNCHANGED clients
  /\ pc[c] = from
  /\ pc' = [pc EXCEPT ![c] = to]
  /\ alone' = [d \in Client |->
       IF d # c THEN alone[d] /\ pc[d] = "idle"
       ELSE IF to = "idle" THEN FALSE
       ELSE IF from = "idle" THEN \A e \in Client \ {c} : pc[e] = "idle"
       ELSE alone[c]]

(* The endpoint of client c is gone with its connection, the page with its *)
(* form is back, and c may start again.                                    *)
Gone(c) ==
  /\ page' = [page EXCEPT ![c] = [rules |-> Nobody, data |-> Nobody]]
  /\ httpSession' = [httpSession EXCEPT ![c] = Nobody]
  /\ loaded' = [loaded EXCEPT ![c] = Nobody]
  /\ header' = [header EXCEPT ![c] = Nobody]
  /\ program' = [program EXCEPT ![c] = Nobody]
  /\ probs' = [probs EXCEPT ![c] = NoProbs]
  /\ dataSet' = [dataSet EXCEPT ![c] = NoResult]
  /\ stored' = [stored EXCEPT ![c] = FALSE]

-----------------------------------------------------------------------------
(* UploadServlet.doPost.                                                   *)

Post(c) ==
  /\ Move(c, "idle", "parsing")
  /\ rounds < MaxRounds
  /\ rounds' = rounds + 1
  /\ stored' = [stored EXCEPT ![c] = FALSE]
  /\ UNCHANGED <<server, files, servlet, page, userProperty, endpoint, engine,
                 cleanedFile, attributes, faults, setBy>>

(* Mutation: the name of an earlier upload is used again.                  *)
SavedAsMut(c) == IF datasetURL # Nobody THEN datasetURL ELSE nameOf[c]

SavedAs(c) == nameOf[c]

(* getFilesUrl, the part `dataset' and the part `rules' of the request:    *)
(* the field of the servlet is set and the file written.                   *)
StoreDataset(c) ==
  /\ Move(c, "parsing", "half")
  /\ datasetURL' = SavedAs(c)
  /\ dataFile' = [dataFile EXCEPT ![SavedAs(c)] = c]
  /\ UNCHANGED <<server, rulesFile, rulesURL, page, userProperty, endpoint, engine,
                 cleanedFile, attributes, bounds, stored, setBy>>

StoreRules(c) ==
  /\ Move(c, "half", "uploaded")
  /\ rulesURL' = SavedAs(c)
  /\ rulesFile' = [rulesFile EXCEPT ![SavedAs(c)] = c]
  /\ stored' = [stored EXCEPT ![c] = TRUE]
  /\ UNCHANGED <<server, dataFile, datasetURL, page, userProperty, endpoint, engine,
                 cleanedFile, attributes, bounds, setBy>>

(* A file that cannot be opened is left, one that cannot be written to its *)
(* end is empty or has the beginning of its content.                       *)
Written(file, c) ==
  {file, [file EXCEPT ![SavedAs(c)] = Nobody], [file EXCEPT ![SavedAs(c)] = c]}

(* An exception in getFilesUrl is printed, and doPost goes on all the same: *)
(* when the request is parsed or between its parts, or when a part is      *)
(* written whose URL the field has by then.                                *)
UploadFails(c) ==
  /\ \/ Move(c, "parsing", "uploaded") /\ UNCHANGED <<files, servlet>>
     \/ Move(c, "half", "uploaded") /\ UNCHANGED <<files, servlet>>
     \/ /\ Move(c, "parsing", "uploaded")
        /\ datasetURL' = SavedAs(c) /\ dataFile' \in Written(dataFile, c)
        /\ UNCHANGED <<rulesFile, rulesURL>>
     \/ /\ Move(c, "half", "uploaded")
        /\ rulesURL' = SavedAs(c) /\ rulesFile' \in Written(rulesFile, c)
        /\ UNCHANGED <<dataFile, datasetURL>>
  /\ faults < MaxFaults /\ faults' = faults + 1
  /\ UNCHANGED <<server, page, userProperty, endpoint, engine,
                 cleanedFile, attributes, rounds, stored, setBy>>

Forward(c) ==
  /\ Move(c, "uploaded", "page")
  /\ page' = [page EXCEPT ![c] = [rules |-> rulesURL, data |-> datasetURL]]
  /\ UNCHANGED <<server, files, servlet, userProperty, endpoint, engine,
                 cleanedFile, attributes, bounds, stored, setBy>>

-----------------------------------------------------------------------------
(* The page's script opens the socket and sends the URLs.                  *)

ModifyHandshake(c) ==
  /\ Move(c, "page", "handshake")
  /\ userProperty' = c
  /\ UNCHANGED <<server, files, servlet, page, endpoint, engine,
                 cleanedFile, attributes, bounds, stored, setBy>>

OnOpen(c) ==
  /\ Move(c, "handshake", "open")
  /\ httpSession' = [httpSession EXCEPT ![c] = userProperty]
  /\ UNCHANGED <<server, files, servlet, page, userProperty, loaded, header, probs,
                 dataSet, engine, cleanedFile, attributes, bounds, stored, setBy>>

-----------------------------------------------------------------------------
(* CleanerSocketServer.onMessage and startClean.                           *)

(* Mutation: the URL is taken for the content.                             *)
ContentOfMut(file, url) == url

ContentOf(file, url) == IF url = Nobody THEN Nobody ELSE file[url]

(* loadRules; a file that is missing leaves the list empty.                *)
LoadRules(c) ==
  /\ Move(c, "open", "rules")
  /\ loaded' = [loaded EXCEPT ![c] = ContentOf(rulesFile, page[c].rules)]
  /\ UNCHANGED <<server, files, servlet, page, userProperty, httpSession, header, probs,
                 dataSet, engine, cleanedFile, attributes, bounds, stored, setBy>>

(* Mutation: the values are counted only if there is no evidence.db yet.   *)
EvidenceOfMut(data) == IF evidence = Nobody THEN data ELSE evidence

EvidenceOf(data) == data

(* initData and formatEvidence.                                            *)
FormatEvidence(c) ==
  LET data == ContentOf(dataFile, page[c].data)
  IN  /\ Move(c, "rules", "evidence")
      /\ data # Nobody
      /\ header' = [header EXCEPT ![c] = data]
      /\ evidence' = EvidenceOf(data)
      /\ UNCHANGED <<server, files, servlet, page, userProperty, httpSession, loaded, probs,
                     dataSet, mln, program, workspace, exiting_mode, engineRuns,
                     cleanedFile, attributes, bounds, stored, setBy>>

(* Without a data set: of a file that is empty initData asks for the first *)
(* row; if there is no file the header is null, which formatEvidence finds *)
(* once it has emptied evidence.db.  onMessage catches neither exception.  *)
NoData(c) ==
  /\ Move(c, "rules", "idle")
  /\ ContentOf(dataFile, page[c].data) = Nobody
  /\ evidence' \in {evidence, Nobody}
  /\ Gone(c)
  /\ UNCHANGED <<server, files, servlet, userProperty, mln, workspace, exiting_mode,
                 engineRuns, cleanedFile, attributes, bounds, setBy>>

CreateMLN(c) ==
  /\ Move(c, "evidence", "mln")
  /\ mln' = ContentOf(rulesFile, page[c].rules)
  /\ UNCHANGED <<server, files, servlet, page, userProperty, endpoint, evidence, program,
                 workspace, exiting_mode, engineRuns, cleanedFile, attributes, bounds,
                 stored, setBy>>

(* Infer.setUp: the program is parsed, the evidence put in the tables.     *)
SetUp(c) ==
  /\ Move(c, "mln", "grounded")
  /\ program' = [program EXCEPT ![c] = mln]
  /\ workspace' = evidence
  /\ UNCHANGED <<server, files, servlet, page, userProperty, endpoint, evidence, mln,
                 exiting_mode, engineRuns, cleanedFile, attributes, bounds, stored,
                 setBy>>

(* Mutation: the engine never stops the program.                           *)
DiesMut == FALSE

(* ExceptionMan.die and handle do nothing in exiting_mode.                 *)
Dies == ~ exiting_mode

(* Rules in which there is an error are met with one.  Engines that run at *)
(* the same time share the schema and the working directory: whoever is    *)
(* not alone may be met with an error of the database or of a file.        *)
MayFail(c) == program[c] \in rejected \/ ~ alone[c]

(* die: exiting_mode is set, a connection opened, the working directory    *)
(* removed; System.exit is the last of it, and other requests go on until  *)
(* then.                                                                   *)
EngineDies(c) ==
  /\ Move(c, "grounded", "dying")
  /\ MayFail(c)
  /\ Dies
  /\ exiting_mode' = TRUE
  /\ UNCHANGED <<server, files, servlet, page, userProperty, endpoint, evidence, mln,
                 program, workspace, engineRuns, cleanedFile, attributes, bounds, stored,
                 setBy>>

Exit(c) ==
  /\ server = "up"
  /\ pc[c] = "dying"
  /\ server' = "down"
  /\ UNCHANGED <<clients, pc, files, servlet, page, userProperty, endpoint, engine,
                 cleanedFile, attributes, bounds, stored, setBy, alone>>

(* The rest of PartInfer.run: ground, infer, dumpProbsToFile, cleanUp.  An  *)
(* error that was swallowed leaves the map of probabilities empty, or ends *)
(* in an exception (Throws).                                               *)
Infer(c) ==
  /\ Move(c, "grounded", "inferred")
  /\ \/ /\ program[c] \notin rejected
        /\ probs' = [probs EXCEPT ![c] =
             [rules |-> program[c], evidence |-> workspace, whole |-> TRUE]]
     \/ /\ MayFail(c) /\ ~ Dies
        /\ probs' = [probs EXCEPT ![c] = NoProbs]
  /\ exiting_mode' = TRUE
  /\ engineRuns' = engineRuns + 1
  /\ UNCHANGED <<server, files, servlet, page, userProperty, httpSession, loaded, header,
                 dataSet, evidence, mln, program, workspace, cleanedFile, attributes,
                 bounds, stored, setBy>>

(* Domain.init reads the data set once more; see module Domain.            *)
Clean(c) ==
  /\ Move(c, "inferred", "cleaned")
  /\ dataSet' = [dataSet EXCEPT ![c] =
       [data |-> ContentOf(dataFile, page[c].data), rules |-> loaded[c], probs |-> probs[c]]]
  /\ UNCHANGED <<server, files, servlet, page, userProperty, httpSession, loaded, header,
                 probs, engine, cleanedFile, attributes, bounds, stored, setBy>>

WriteToFile(c) ==
  /\ Move(c, "cleaned", "finished")
  /\ cleanedFile' = dataSet[c]
  /\ UNCHANGED <<server, files, servlet, page, userProperty, endpoint, engine,
                 attributes, bounds, stored, setBy>>

(* The attributes are set after the client has been told "Finish.", by one *)
(* call each; another endpoint may hold the same session.                  *)
SetHeader(c) ==
  /\ Move(c, "finished", "headerSet")
  /\ attributes' = [attributes EXCEPT ![httpSession[c]].header = header[c]]
  /\ setBy' = [setBy EXCEPT ![httpSession[c]].header = c]
  /\ UNCHANGED <<server, files, servlet, page, userProperty, endpoint, engine,
                 cleanedFile, bounds, stored>>

SetDataSet(c) ==
  /\ Move(c, "headerSet", "stored")
  /\ attributes' = [attributes EXCEPT ![httpSession[c]].dataSet = dataSet[c]]
  /\ setBy' = [setBy EXCEPT ![httpSession[c]].dataSet = c]
  /\ UNCHANGED <<server, files, servlet, page, userProperty, endpoint, engine,
                 cleanedFile, bounds, stored>>

(* Every text that is sent throws if the browser has gone, those of        *)
(* cleanUp when exiting_mode is set already.  Such an exception, or one    *)
(* that follows an error that was swallowed, ends onMessage.               *)
Throws(c) ==
  /\ \/ /\ \E from \in {"open", "rules", "evidence", "mln", "grounded", "inferred",
                       "cleaned", "finished"} : Move(c, from, "idle")
        /\ UNCHANGED <<exiting_mode, engineRuns>>
     \/ /\ Move(c, "grounded", "idle")
        /\ program[c] \notin rejected \/ ~ Dies
        /\ exiting_mode' = TRUE
        /\ engineRuns' = engineRuns + 1
  /\ Gone(c)
  /\ faults < MaxFaults /\ faults' = faults + 1
  /\ UNCHANGED <<server, files, servlet, userProperty, evidence, mln, workspace,
                 cleanedFile, attributes, rounds, setBy>>

(* The client has seen and downloaded the result.                          *)
Leave(c) ==
  /\ Move(c, "stored", "idle")
  /\ Gone(c)
  /\ UNCHANGED <<server, files, servlet, userProperty, evidence, mln, workspace,
                 exiting_mode, engineRuns, cleanedFile, attributes, bounds, setBy>>

-----------------------------------------------------------------------------
Terminating ==
  /\ \/ server = "down"
     \/ /\ rounds = MaxRounds
        /\ \A c \in Client : pc[c] = "idle"
  /\ UNCHANGED vars

Next ==
  \/ \E c \in Client :
       \/ Post(c) \/ StoreDataset(c) \/ StoreRules(c) \/ UploadFails(c) \/ Forward(c)
       \/ ModifyHandshake(c) \/ OnOpen(c)
       \/ LoadRules(c) \/ FormatEvidence(c) \/ NoData(c) \/ CreateMLN(c)
       \/ SetUp(c) \/ EngineDies(c) \/ Exit(c) \/ Infer(c)
       \/ Clean(c) \/ WriteToFile(c) \/ SetHeader(c) \/ SetDataSet(c)
       \/ Throws(c) \/ Leave(c)
  \/ Terminating

Spec == Init /\ [][Next]_vars

-----------------------------------------------------------------------------
Place == {"idle", "parsing", "half", "uploaded", "page", "handshake", "open", "rules",
          "evidence", "mln", "grounded", "inferred", "cleaned", "finished",
          "headerSet", "stored", "dying"}

Probs == [rules : Owner, evidence : Owner, whole : BOOLEAN]

Result == [data : Owner, rules : Owner, probs : Probs]

TypeOK ==
  /\ nameOf \in [Client -> FileName] /\ rejected \subseteq Client
  /\ server \in {"up", "down"}
  /\ pc \in [Client -> Place]
  /\ dataFile \in [FileName -> Owner] /\ rulesFile \in [FileName -> Owner]
  /\ rulesURL \in URL /\ datasetURL \in URL
  /\ page \in [Client -> [rules : URL, data : URL]]
  /\ userProperty \in Owner
  /\ httpSession \in [Client -> Owner]
  /\ loaded \in [Client -> Owner] /\ header \in [Client -> Owner]
  /\ evidence \in Owner /\ mln \in Owner /\ workspace \in Owner
  /\ program \in [Client -> Owner]
  /\ probs \in [Client -> Probs]
  /\ dataSet \in [Client -> Result] /\ cleanedFile \in Result
  /\ attributes \in [Client -> [header : Owner, dataSet : Result]]
  /\ exiting_mode \in BOOLEAN
  /\ rounds \in 0 .. MaxRounds /\ faults \in 0 .. MaxFaults /\ engineRuns \in Nat
  /\ stored \in [Client -> BOOLEAN] /\ alone \in [Client -> BOOLEAN]
  /\ setBy \in [Client -> [header : Owner, dataSet : Owner]]

(* The result that is all client c's own.                                  *)
OwnResult(c) ==
  [data |-> c, rules |-> c, probs |-> [rules |-> c, evidence |-> c, whole |-> TRUE]]

(* A client whose files arrived and who was served alone gets its own data *)
(* set, cleaned by its own rules and probabilities, in its session and in  *)
(* the file, whatever earlier rounds left in the files, the tables and the *)
(* fields.                                                                 *)
AloneOwn ==
  \A c \in Client \ rejected :
    pc[c] = "stored" /\ alone[c] /\ stored[c] =>
      /\ attributes[c] = [header |-> c, dataSet |-> OwnResult(c)]
      /\ cleanedFile = OwnResult(c)

(* The header and the data set of a session are set by two calls, and two  *)
(* endpoints may hold it.  If both are one endpoint's, which is not about  *)
(* to set the second, the header is that of the data set or the data set is *)
(* empty (its file was by then), although the file is read twice with the  *)
(* inference in between and its URL may be another client's, as long as no *)
(* two clients use one file name.                                          *)
HeaderMatchesData ==
  (\A c, d \in Client : c # d => nameOf[c] # nameOf[d])
  => \A c, s \in Client :
       /\ setBy[s] = [header |-> c, dataSet |-> c]
       /\ ~ (pc[c] = "headerSet" /\ httpSession[c] = s)
       => attributes[s].dataSet.data \in {Nobody, attributes[s].header}

(* The engine reports an error by stopping the program.  A result that was *)
(* computed in spite of one goes out as a success only if another engine   *)
(* has come to its end before (exiting_mode is never reset), or is just    *)
(* stopping the program.                                                   *)
ErrorsStopFreshServer ==
  \A c \in Client :
    pc[c] \in {"finished", "headerSet", "stored"} /\ ~ dataSet[c].probs.whole =>
      engineRuns > 1 \/ \E d \in Client : pc[d] = "dying"

-----------------------------------------------------------------------------
(* "gets the HttpSession" (GetHttpSessionConfigurator 9): a connection     *)
(* holds the session of the client who opened it.                          *)
SessionIsOwn ==
  \A c \in Client : pc[c] \in {"open", "rules", "evidence", "finished"} => httpSession[c] = c
=============================================================================
