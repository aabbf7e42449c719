----------------------------- MODULE ServerProofs -----------------------------
(***************************************************************************)
(* Proofs about what the server does for its clients.                      *)
(*                                                                         *)
(* The web layer, for any number of clients, file names and uploads: what a *)
(* client served alone gets, which header a data set has, and when a result *)
(* can go out although an error was reported.                              *)
(*                                                                         *)
(* The rules discovered are the right ones, for any table and any order of *)
(* the names of its columns.  Rows are told apart by classes, columns by   *)
(* merging arrays: both are first shown to be what they stand for.  The    *)
(* walk then keeps that edges that are gone are implied, that those passed *)
(* have given their rules, and that a dependency found leaves no edge it   *)
(* makes redundant.                                                        *)
(***************************************************************************)
EXTENDS CleanerServer, Discovery, SequenceTheorems, Sums

(* How far a round has come at least.                                      *)
SinceCleaned   == {"cleaned", "finished", "headerSet", "stored"}
SinceInferred  == {"inferred"} \cup SinceCleaned
SinceGrounded  == {"grounded"} \cup SinceInferred
SinceMLN       == {"mln"} \cup SinceGrounded
SinceEvidence  == {"evidence"} \cup SinceMLN
SinceRules     == {"rules"} \cup SinceEvidence
SinceOpen      == {"open"} \cup SinceRules
SincePage      == {"page", "handshake"} \cup SinceOpen
SinceUploaded  == {"uploaded"} \cup SincePage

(* What client c has left in fields, files and tables so far is there.     *)
Uploaded(c) ==
  /\ pc[c] \in {"parsing", "half"} => ~ stored[c]
  /\ pc[c] = "half" => datasetURL = nameOf[c] /\ dataFile[nameOf[c]] = c
  /\ pc[c] = "uploaded" /\ stored[c] =>
       datasetURL = nameOf[c] /\ rulesURL = nameOf[c]
  /\ pc[c] \in SinceUploaded /\ stored[c] =>
       dataFile[nameOf[c]] = c /\ rulesFile[nameOf[c]] = c
  /\ pc[c] \in SincePage /\ stored[c] =>
       page[c] = [rules |-> nameOf[c], data |-> nameOf[c]]
  /\ pc[c] = "handshake" => userProperty = c
  /\ pc[c] \in SinceOpen => httpSession[c] = c

Computed(c) ==
  /\ pc[c] \in SinceRules => loaded[c] = c
  /\ pc[c] \in SinceEvidence => header[c] = c /\ evidence = c
  /\ pc[c] \in SinceMLN => mln = c
  /\ pc[c] \in SinceGrounded => program[c] = c /\ workspace = c
  /\ pc[c] \in SinceInferred /\ c \notin rejected =>
       probs[c] = [rules |-> c, evidence |-> c, whole |-> TRUE]
  /\ pc[c] \in SinceCleaned /\ c \notin rejected => dataSet[c] = OwnResult(c)
  /\ pc[c] \in {"finished", "headerSet", "stored"} /\ c \notin rejected =>
       cleanedFile = OwnResult(c)
  /\ pc[c] \in {"headerSet", "stored"} => attributes[c].header = c
  /\ pc[c] = "stored" /\ c \notin rejected => attributes[c].dataSet = OwnResult(c)

AloneInv ==
  \A c \in Client : alone[c] /\ pc[c] # "idle" =>
    /\ \A e \in Client \ {c} : pc[e] = "idle"
    /\ Uploaded(c)
    /\ stored[c] => Computed(c)

(* With names of their own a file that is not empty is its only client's,  *)
(* and an endpoint that has read it keeps what it has read.                *)
NamesDiffer == \A c, d \in Client : c # d => nameOf[c] # nameOf[d]

OwnFiles == \A n \in FileName : dataFile[n] # Nobody => nameOf[dataFile[n]] = n

ReadsTwice(c) ==
  /\ pc[c] \in {"evidence", "mln", "grounded", "inferred"} =>
       /\ header[c] # Nobody /\ page[c].data # Nobody
       /\ dataFile[page[c].data] \in {Nobody, header[c]}
       /\ nameOf[header[c]] = page[c].data
  /\ pc[c] \in {"cleaned", "finished", "headerSet"} =>
       dataSet[c].data \in {Nobody, header[c]}

SetsTwo(c, s) ==
  /\ pc[c] = "headerSet" /\ httpSession[c] = s /\ setBy[s].header = c =>
       attributes[s].header = header[c]
  /\ setBy[s] = [header |-> c, dataSet |-> c]
     /\ ~ (pc[c] = "headerSet" /\ httpSession[c] = s) =>
       attributes[s].dataSet.data \in {Nobody, attributes[s].header}

HeaderInv ==
  NamesDiffer =>
    /\ OwnFiles
    /\ \A c \in Client : ReadsTwice(c)
    /\ \A c, s \in Client : SetsTwo(c, s)

(* An engine can go on after an error only if another has run to its end   *)
(* before or is stopping the program, which it then goes on doing.         *)
Excused == \E d \in Client : pc[d] = "dying"

ErrorInv ==
  /\ exiting_mode => engineRuns > 0 \/ Excused
  /\ \A c \in Client :
       /\ pc[c] = "inferred" /\ ~ probs[c].whole => engineRuns > 1 \/ Excused
       /\ pc[c] \in SinceCleaned /\ ~ dataSet[c].probs.whole => engineRuns > 1 \/ Excused
-----------------------------------------------------------------------------
LEMMA MoveFacts ==
  ASSUME TypeOK, NEW c \in Client, NEW from, NEW to \in Place, Move(c, from, to)
  PROVE  /\ pc[c] = from /\ pc'[c] = to /\ pc' \in [Client -> Place]
         /\ \A d \in Client : d # c => pc'[d] = pc[d]
         /\ alone' \in [Client -> BOOLEAN]
         /\ UNCHANGED <<nameOf, rejected>>
<1>1. pc \in [Client -> Place] /\ alone \in [Client -> BOOLEAN]
  BY DEF TypeOK
<1>2. \A d \in Client :
        /\ (alone[d] /\ pc[d] = "idle") \in BOOLEAN
        /\ (\A e \in Client \ {c} : pc[e] = "idle") \in BOOLEAN
        /\ alone[c] \in BOOLEAN
  BY <1>1
<1>3. alone' \in [Client -> BOOLEAN]
  BY <1>1, <1>2 DEF Move
<1>4. QED
  BY <1>1, <1>3 DEF Move, clients

(* What an exception leaves, wherever it comes from.                       *)
LEMMA ThrowsFacts ==
  ASSUME TypeOK, NEW c \in Client, Throws(c)
  PROVE  /\ \E from \in Place \ {"dying", "headerSet"} : Move(c, from, "idle")
         /\ \/ UNCHANGED <<exiting_mode, engineRuns>>
            \/ exiting_mode' = TRUE /\ engineRuns' = engineRuns + 1
         /\ engineRuns' \in {engineRuns, engineRuns + 1}
         /\ engineRuns \in Nat /\ engineRuns' \in Nat /\ exiting_mode' \in BOOLEAN
<1>1. \/ /\ \E from \in Place \ {"dying", "headerSet"} : Move(c, from, "idle")
         /\ UNCHANGED <<exiting_mode, engineRuns>>
      \/ /\ Move(c, "grounded", "idle")
         /\ exiting_mode' = TRUE /\ engineRuns' = engineRuns + 1
  BY DEF Throws, Place
<1>2. "grounded" \in Place \ {"dying", "headerSet"}
  BY DEF Place
<1>3. exiting_mode \in BOOLEAN /\ engineRuns \in Nat
  BY DEF TypeOK
<1>4. CASE UNCHANGED <<exiting_mode, engineRuns>>
  BY <1>1, <1>2, <1>3, <1>4
<1>5. CASE exiting_mode' = TRUE /\ engineRuns' = engineRuns + 1
  <2>1. \E from \in Place \ {"dying", "headerSet"} : Move(c, from, "idle")
    BY <1>1, <1>2
  <2>2. exiting_mode' \in BOOLEAN
    BY <1>5
  <2>3. engineRuns' \in {engineRuns, engineRuns + 1} /\ engineRuns' \in Nat
    BY <1>3, <1>5
  <2>4. QED
    BY <1>3, <1>5, <2>1, <2>2, <2>3
<1>6. QED
  BY <1>1, <1>4, <1>5

(* The two calls that set an attribute, in a session there is.             *)
LEMMA SetFacts ==
  ASSUME TypeOK, NEW c \in Client, SetHeader(c) \/ SetDataSet(c), NEW s \in Client
  PROVE  /\ attributes' \in [Client -> [header : Owner, dataSet : Result]]
         /\ setBy' \in [Client -> [header : Owner, dataSet : Owner]]
         /\ httpSession[c] # s => attributes'[s] = attributes[s] /\ setBy'[s] = setBy[s]
         /\ httpSession[c] = s /\ SetHeader(c) =>
              /\ attributes'[s] = [header |-> header[c], dataSet |-> attributes[s].dataSet]
              /\ setBy'[s] = [header |-> c, dataSet |-> setBy[s].dataSet]
         /\ httpSession[c] = s /\ SetDataSet(c) =>
              /\ attributes'[s] = [header |-> attributes[s].header, dataSet |-> dataSet[c]]
              /\ setBy'[s] = [header |-> setBy[s].header, dataSet |-> c]
<1> DEFINE A == [header : Owner, dataSet : Result]
           B == [header : Owner, dataSet : Owner]
           h == httpSession[c]
<1>1. /\ attributes \in [Client -> A] /\ setBy \in [Client -> B]
      /\ header[c] \in Owner /\ dataSet[c] \in Result /\ c \in Owner
  BY DEF TypeOK, Owner
<1>2. ASSUME NEW t \in Client
      PROVE  /\ [attributes[t] EXCEPT !.header = header[c]] \in A
             /\ [attributes[t] EXCEPT !.dataSet = dataSet[c]] \in A
             /\ [setBy[t] EXCEPT !.header = c] \in B
             /\ [setBy[t] EXCEPT !.dataSet = c] \in B
             /\ [attributes[t] EXCEPT !.header = header[c]] =
                  [header |-> header[c], dataSet |-> attributes[t].dataSet]
             /\ [attributes[t] EXCEPT !.dataSet = dataSet[c]] =
                  [header |-> attributes[t].header, dataSet |-> dataSet[c]]
             /\ [setBy[t] EXCEPT !.header = c] =
                  [header |-> c, dataSet |-> setBy[t].dataSet]
             /\ [setBy[t] EXCEPT !.dataSet = c] =
                  [header |-> setBy[t].header, dataSet |-> c]
  BY <1>1
<1>3. CASE SetHeader(c)
  <2>1. /\ attributes' =
             [t \in Client |-> IF t = h THEN [attributes[t] EXCEPT !.header = header[c]]
                               ELSE attributes[t]]
        /\ setBy' = [t \in Client |-> IF t = h THEN [setBy[t] EXCEPT !.header = c]
                                      ELSE setBy[t]]
    BY <1>1, <1>3 DEF SetHeader
  <2>2. SetDataSet(c) => pc[c] = "headerSet"
    BY DEF SetDataSet, Move
  <2>3. pc[c] = "finished"
    BY <1>3 DEF SetHeader, Move
  <2>4. QED
    BY <1>1, <1>2, <2>1, <2>2, <2>3
<1>4. CASE SetDataSet(c)
  <2>1. /\ attributes' =
             [t \in Client |-> IF t = h THEN [attributes[t] EXCEPT !.dataSet = dataSet[c]]
                               ELSE attributes[t]]
        /\ setBy' = [t \in Client |-> IF t = h THEN [setBy[t] EXCEPT !.dataSet = c]
                                      ELSE setBy[t]]
    BY <1>1, <1>4 DEF SetDataSet
  <2>2. SetHeader(c) => pc[c] = "finished"
    BY DEF SetHeader, Move
  <2>3. pc[c] = "headerSet"
    BY <1>4 DEF SetDataSet, Move
  <2>4. QED
    BY <1>1, <1>2, <2>1, <2>2, <2>3
<1>5. QED
  BY <1>3, <1>4

(* What each call leaves in the session it writes to.                      *)
LEMMA HeaderIsSet ==
  ASSUME TypeOK, NEW c \in Client, SetHeader(c), NEW s \in Client, httpSession[c] = s
  PROVE  /\ attributes'[s].header = header[c]
         /\ attributes'[s].dataSet = attributes[s].dataSet
         /\ setBy'[s].header = c /\ setBy'[s].dataSet = setBy[s].dataSet
<1>1. /\ attributes'[s] = [header |-> header[c], dataSet |-> attributes[s].dataSet]
      /\ setBy'[s] = [header |-> c, dataSet |-> setBy[s].dataSet]
  BY SetFacts, ZenonT(30)
<1>2. QED
  BY <1>1

LEMMA DataSetIsSet ==
  ASSUME TypeOK, NEW c \in Client, SetDataSet(c), NEW s \in Client, httpSession[c] = s
  PROVE  /\ attributes'[s].dataSet = dataSet[c]
         /\ attributes'[s].header = attributes[s].header
         /\ setBy'[s].dataSet = c /\ setBy'[s].header = setBy[s].header
<1>1. /\ attributes'[s] = [header |-> attributes[s].header, dataSet |-> dataSet[c]]
      /\ setBy'[s] = [header |-> setBy[s].header, dataSet |-> c]
  BY SetFacts, ZenonT(30)
<1>2. QED
  BY <1>1

LEMMA ContentIsOwned ==
  ASSUME TypeOK, NEW url \in URL
  PROVE  /\ ContentOf(dataFile, url) \in Owner
         /\ ContentOf(rulesFile, url) \in Owner
BY DEF TypeOK, ContentOf, URL, Owner

LEMMA NothingIsTyped ==
  NoProbs \in Probs /\ NoResult \in Result
BY DEF NoProbs, NoResult, Probs, Result, Owner

LEMMA GoneIsTyped ==
  ASSUME TypeOK, NEW c \in Client, Gone(c)
  PROVE  /\ page' \in [Client -> [rules : URL, data : URL]]
         /\ httpSession' \in [Client -> Owner] /\ loaded' \in [Client -> Owner]
         /\ header' \in [Client -> Owner] /\ program' \in [Client -> Owner]
         /\ probs' \in [Client -> Probs] /\ dataSet' \in [Client -> Result]
         /\ stored' \in [Client -> BOOLEAN]
<1>1. Nobody \in Owner /\ [rules |-> Nobody, data |-> Nobody] \in [rules : URL, data : URL]
  BY DEF Owner, URL
<1>2. QED
  BY <1>1, NothingIsTyped DEF Gone, TypeOK

LEMMA WrittenIsTyped ==
  ASSUME TypeOK, NEW c \in Client
  PROVE  /\ SavedAs(c) \in FileName /\ SavedAs(c) \in URL
         /\ Written(dataFile, c) \subseteq [FileName -> Owner]
         /\ Written(rulesFile, c) \subseteq [FileName -> Owner]
BY DEF TypeOK, Written, SavedAs, Owner, URL

(* Whatever clients do in whatever order, every variable keeps its type.   *)
LEMMA TypeOKStep == TypeOK /\ [Next]_vars => TypeOK'
<1> SUFFICES ASSUME TypeOK, [Next]_vars
             PROVE  TypeOK'
  OBVIOUS
<1> USE CleanerServerAssumption
    DEF TypeOK, Owner, URL, files, servlet, endpoint, engine, bounds
<1>1. ASSUME NEW c \in Client, Post(c)
      PROVE  TypeOK'
  <2>1. pc' \in [Client -> Place] /\ alone' \in [Client -> BOOLEAN] /\ UNCHANGED clients
    BY <1>1, MoveFacts DEF Post, Place, clients
  <2>2. rounds' \in 0 .. MaxRounds
    BY <1>1 DEF Post
  <2>3. stored' \in [Client -> BOOLEAN]
    BY <1>1 DEF Post
  <2>4. QED
    BY <1>1, <2>1, <2>2, <2>3 DEF Post, clients
<1>2. ASSUME NEW c \in Client, StoreDataset(c)
      PROVE  TypeOK'
  <2>1. pc' \in [Client -> Place] /\ alone' \in [Client -> BOOLEAN] /\ UNCHANGED clients
    BY <1>2, MoveFacts DEF StoreDataset, Place, clients
  <2>2. dataFile' \in [FileName -> Owner]
    BY <1>2 DEF StoreDataset, SavedAs
  <2>3. datasetURL' \in URL
    BY <1>2 DEF StoreDataset, SavedAs
  <2>4. QED
    BY <1>2, <2>1, <2>2, <2>3 DEF StoreDataset, clients
<1>3. ASSUME NEW c \in Client, StoreRules(c)
      PROVE  TypeOK'
  <2>1. pc' \in [Client -> Place] /\ alone' \in [Client -> BOOLEAN] /\ UNCHANGED clients
    BY <1>3, MoveFacts DEF StoreRules, Place, clients
  <2>2. rulesFile' \in [FileName -> Owner]
    BY <1>3 DEF StoreRules, SavedAs
  <2>3. rulesURL' \in URL
    BY <1>3 DEF StoreRules, SavedAs
  <2>4. stored' \in [Client -> BOOLEAN]
    BY <1>3 DEF StoreRules
  <2>5. QED
    BY <1>3, <2>1, <2>2, <2>3, <2>4 DEF StoreRules, clients
<1>4. ASSUME NEW c \in Client, UploadFails(c)
      PROVE  TypeOK'
  <2>1. pc' \in [Client -> Place] /\ alone' \in [Client -> BOOLEAN] /\ UNCHANGED clients
    BY <1>4, MoveFacts DEF UploadFails, Place, clients
  <2>2. dataFile' \in [FileName -> Owner] /\ rulesFile' \in [FileName -> Owner]
    BY <1>4, WrittenIsTyped DEF UploadFails
  <2>3. rulesURL' \in URL /\ datasetURL' \in URL
    BY <1>4, WrittenIsTyped DEF UploadFails
  <2>4. faults' \in 0 .. MaxFaults
    BY <1>4 DEF UploadFails
  <2>5. QED
    BY <1>4, <2>1, <2>2, <2>3, <2>4 DEF UploadFails, clients
<1>5. ASSUME NEW c \in Client, Forward(c)
      PROVE  TypeOK'
  <2>1. pc' \in [Client -> Place] /\ alone' \in [Client -> BOOLEAN] /\ UNCHANGED clients
    BY <1>5, MoveFacts DEF Forward, Place, clients
  <2>2. page' \in [Client -> [rules : URL, data : URL]]
    BY <1>5 DEF Forward
  <2>3. QED
    BY <1>5, <2>1, <2>2 DEF Forward, clients
<1>6. ASSUME NEW c \in Client, ModifyHandshake(c)
      PROVE  TypeOK'
  <2>1. pc' \in [Client -> Place] /\ alone' \in [Client -> BOOLEAN] /\ UNCHANGED clients
    BY <1>6, MoveFacts DEF ModifyHandshake, Place, clients
  <2>2. QED
    BY <1>6, <2>1 DEF ModifyHandshake, clients
<1>7. ASSUME NEW c \in Client, OnOpen(c)
      PROVE  TypeOK'
  <2>1. pc' \in [Client -> Place] /\ alone' \in [Client -> BOOLEAN] /\ UNCHANGED clients
    BY <1>7, MoveFacts DEF OnOpen, Place, clients
  <2>2. httpSession' \in [Client -> Owner]
    BY <1>7 DEF OnOpen
  <2>3. QED
    BY <1>7, <2>1, <2>2 DEF OnOpen, clients
<1>8. ASSUME NEW c \in Client, LoadRules(c)
      PROVE  TypeOK'
  <2>1. pc' \in [Client -> Place] /\ alone' \in [Client -> BOOLEAN] /\ UNCHANGED clients
    BY <1>8, MoveFacts DEF LoadRules, Place, clients
  <2>2. ContentOf(rulesFile, page[c].rules) \in Owner
    BY <1>8, ContentIsOwned DEF LoadRules
  <2>3. loaded' \in [Client -> Owner]
    BY <1>8, <2>2 DEF LoadRules
  <2>4. QED
    BY <1>8, <2>1, <2>2, <2>3 DEF LoadRules, clients
<1>9. ASSUME NEW c \in Client, FormatEvidence(c)
      PROVE  TypeOK'
  <2>1. pc' \in [Client -> Place] /\ alone' \in [Client -> BOOLEAN] /\ UNCHANGED clients
    BY <1>9, MoveFacts DEF FormatEvidence, Place, clients
  <2>2. ContentOf(dataFile, page[c].data) \in Owner
    BY <1>9, ContentIsOwned DEF FormatEvidence
  <2>3. header' \in [Client -> Owner] /\ evidence' \in Owner
    BY <1>9, <2>2 DEF FormatEvidence, EvidenceOf
  <2>4. QED
    BY <1>9, <2>1, <2>2, <2>3 DEF FormatEvidence, clients
<1>10. ASSUME NEW c \in Client, NoData(c)
      PROVE  TypeOK'
  <2>1. pc' \in [Client -> Place] /\ alone' \in [Client -> BOOLEAN] /\ UNCHANGED clients
    BY <1>10, MoveFacts DEF NoData, Place, clients
  <2>2. evidence' \in Owner
    BY <1>10 DEF NoData
  <2>3. Gone(c)
    BY <1>10 DEF NoData
  <2>4. QED
    BY <1>10, <2>1, <2>2, <2>3, GoneIsTyped DEF NoData, clients
<1>11. ASSUME NEW c \in Client, CreateMLN(c)
      PROVE  TypeOK'
  <2>1. pc' \in [Client -> Place] /\ alone' \in [Client -> BOOLEAN] /\ UNCHANGED clients
    BY <1>11, MoveFacts DEF CreateMLN, Place, clients
  <2>2. mln' \in Owner
    BY <1>11, ContentIsOwned DEF CreateMLN
  <2>3. QED
    BY <1>11, <2>1, <2>2 DEF CreateMLN, clients
<1>12. ASSUME NEW c \in Client, SetUp(c)
      PROVE  TypeOK'
  <2>1. pc' \in [Client -> Place] /\ alone' \in [Client -> BOOLEAN] /\ UNCHANGED clients
    BY <1>12, MoveFacts DEF SetUp, Place, clients
  <2>2. program' \in [Client -> Owner]
    BY <1>12 DEF SetUp
  <2>3. QED
    BY <1>12, <2>1, <2>2 DEF SetUp, clients
<1>13. ASSUME NEW c \in Client, EngineDies(c)
      PROVE  TypeOK'
  <2>1. pc' \in [Client -> Place] /\ alone' \in [Client -> BOOLEAN] /\ UNCHANGED clients
    BY <1>13, MoveFacts DEF EngineDies, Place, clients
  <2>2. QED
    BY <1>13, <2>1 DEF EngineDies, clients
<1>14. ASSUME NEW c \in Client, Infer(c)
      PROVE  TypeOK'
  <2>1. pc' \in [Client -> Place] /\ alone' \in [Client -> BOOLEAN] /\ UNCHANGED clients
    BY <1>14, MoveFacts DEF Infer, Place, clients
  <2>2. [rules |-> program[c], evidence |-> workspace, whole |-> TRUE] \in Probs
    BY <1>14 DEF Infer, Probs
  <2>3. probs' \in [Client -> Probs]
    BY <1>14, <2>2, NothingIsTyped DEF Infer
  <2>4. engineRuns' \in Nat /\ exiting_mode' \in BOOLEAN
    BY <1>14 DEF Infer
  <2>5. QED
    BY <1>14, <2>1, <2>2, <2>3, <2>4 DEF Infer, clients
<1>15. ASSUME NEW c \in Client, Clean(c)
      PROVE  TypeOK'
  <2>1. pc' \in [Client -> Place] /\ alone' \in [Client -> BOOLEAN] /\ UNCHANGED clients
    BY <1>15, MoveFacts DEF Clean, Place, clients
  <2>2. ContentOf(dataFile, page[c].data) \in Owner
    BY <1>15, ContentIsOwned DEF Clean
  <2>3. [data |-> ContentOf(dataFile, page[c].data), rules |-> loaded[c],
         probs |-> probs[c]] \in Result
    BY <1>15, <2>2 DEF Clean, Result
  <2>4. dataSet' \in [Client -> Result]
    BY <1>15, <2>3 DEF Clean
  <2>5. QED
    BY <1>15, <2>1, <2>2, <2>3, <2>4 DEF Clean, clients
<1>16. ASSUME NEW c \in Client, WriteToFile(c)
      PROVE  TypeOK'
  <2>1. pc' \in [Client -> Place] /\ alone' \in [Client -> BOOLEAN] /\ UNCHANGED clients
    BY <1>16, MoveFacts DEF WriteToFile, Place, clients
  <2>2. cleanedFile' \in Result
    BY <1>16 DEF WriteToFile
  <2>3. QED
    BY <1>16, <2>1, <2>2 DEF WriteToFile, clients
<1>17. ASSUME NEW c \in Client, SetHeader(c)
      PROVE  TypeOK'
  <2>1. pc' \in [Client -> Place] /\ alone' \in [Client -> BOOLEAN] /\ UNCHANGED clients
    BY <1>17, MoveFacts DEF SetHeader, Place, clients
  <2>2. attributes' \in [Client -> [header : Owner, dataSet : Result]]
    BY <1>17, SetFacts DEF SetHeader
  <2>3. setBy' \in [Client -> [header : Owner, dataSet : Owner]]
    BY <1>17, SetFacts DEF SetHeader
  <2>4. QED
    BY <1>17, <2>1, <2>2, <2>3 DEF SetHeader, clients
<1>18. ASSUME NEW c \in Client, SetDataSet(c)
      PROVE  TypeOK'
  <2>1. pc' \in [Client -> Place] /\ alone' \in [Client -> BOOLEAN] /\ UNCHANGED clients
    BY <1>18, MoveFacts DEF SetDataSet, Place, clients
  <2>2. attributes' \in [Client -> [header : Owner, dataSet : Result]]
    BY <1>18, SetFacts DEF SetDataSet
  <2>3. setBy' \in [Client -> [header : Owner, dataSet : Owner]]
    BY <1>18, SetFacts DEF SetDataSet
  <2>4. QED
    BY <1>18, <2>1, <2>2, <2>3 DEF SetDataSet, clients
<1>19. ASSUME NEW c \in Client, Throws(c)
      PROVE  TypeOK'
  <2>1. pc' \in [Client -> Place] /\ alone' \in [Client -> BOOLEAN] /\ UNCHANGED clients
    BY <1>19, MoveFacts, ThrowsFacts DEF Place, clients
  <2>2. Gone(c) /\ faults' \in 0 .. MaxFaults
    BY <1>19 DEF Throws
  <2>3. engineRuns' \in Nat /\ exiting_mode' \in BOOLEAN
    BY <1>19, ThrowsFacts
  <2>4. QED
    BY <1>19, <2>1, <2>2, <2>3, GoneIsTyped DEF Throws, clients
<1>20. ASSUME NEW c \in Client, Leave(c)
      PROVE  TypeOK'
  <2>1. pc' \in [Client -> Place] /\ alone' \in [Client -> BOOLEAN] /\ UNCHANGED clients
    BY <1>20, MoveFacts DEF Leave, Place, clients
  <2>2. Gone(c)
    BY <1>20 DEF Leave
  <2>3. QED
    BY <1>20, <2>1, <2>2, GoneIsTyped DEF Leave, clients
<1>21. ASSUME NEW c \in Client, Exit(c)
      PROVE  TypeOK'
  BY <1>21 DEF Exit, clients
<1>22. CASE UNCHANGED vars
  BY <1>22 DEF vars, clients
<1>23. QED
  BY <1>1, <1>2, <1>3, <1>4, <1>5, <1>6, <1>7, <1>8, <1>9, <1>10, <1>11, <1>12, <1>13,
     <1>14, <1>15, <1>16, <1>17, <1>18, <1>19, <1>20, <1>21, <1>22 DEF Next, Terminating

THEOREM TypeCorrect == Spec => []TypeOK
<1>1. Init => TypeOK
  <2> SUFFICES ASSUME Init PROVE TypeOK
    OBVIOUS
  <2>1. /\ Nobody \in Owner /\ Nobody \in URL /\ "idle" \in Place
        /\ 0 \in 0 .. MaxRounds /\ 0 \in 0 .. MaxFaults
    BY CleanerServerAssumption DEF Owner, URL, Place
  <2>2. /\ probs \in [Client -> Probs]
        /\ dataSet \in [Client -> Result] /\ cleanedFile \in Result
        /\ attributes \in [Client -> [header : Owner, dataSet : Result]]
        /\ setBy \in [Client -> [header : Owner, dataSet : Owner]]
    BY NothingIsTyped, <2>1 DEF Init
  <2>3. QED
    BY <2>1, <2>2 DEF Init, TypeOK
<1>2. QED
  BY <1>1, TypeOKStep, PTL DEF Spec

-----------------------------------------------------------------------------
(* A client who is served alone, and goes on, has been it all the time.    *)
LEMMA Sole ==
  ASSUME TypeOK, AloneInv, NEW c \in Client,
         NEW from \in Place \ {"idle"}, NEW to \in Place \ {"idle"},
         Move(c, from, to), NEW d \in Client, alone'[d], pc'[d] # "idle"
  PROVE  /\ d = c /\ alone[c]
         /\ Uploaded(c) /\ (stored[c] => Computed(c))
         /\ \A e \in Client \ {d} : pc'[e] = "idle"
<1>1. /\ pc[c] = from /\ pc' \in [Client -> Place]
      /\ \A e \in Client : e # c => pc'[e] = pc[e]
  BY MoveFacts
<1>2. alone'[d] = IF d # c THEN alone[d] /\ pc[d] = "idle" ELSE alone[c]
  BY DEF Move
<1>3. d = c /\ alone[c]
  BY <1>1, <1>2
<1>4. QED
  BY <1>1, <1>3 DEF AloneInv

LEMMA AloneInvStep == TypeOK /\ AloneInv /\ [Next]_vars => AloneInv'
<1> SUFFICES ASSUME TypeOK, AloneInv, [Next]_vars
             PROVE  AloneInv'
  OBVIOUS
<1> USE CleanerServerAssumption
<1>1. ASSUME NEW c \in Client, Post(c)
      PROVE  AloneInv'
  <2>1. ASSUME NEW d \in Client, alone'[d], pc'[d] # "idle"
        PROVE  d = c /\ \A e \in Client \ {c} : pc'[e] = "idle"
    <3>1. /\ alone'[d] = IF d # c THEN alone[d] /\ pc[d] = "idle"
                          ELSE \A e \in Client \ {c} : pc[e] = "idle"
          /\ \A e \in Client : e # c => pc'[e] = pc[e]
      BY <1>1, MoveFacts DEF Post, Move, Place
    <3>2. d = c
      BY <2>1, <3>1
    <3>3. QED
      BY <2>1, <3>1, <3>2
  <2>2. pc'[c] = "parsing" /\ ~ stored'[c]
    BY <1>1, MoveFacts DEF Post, Place, TypeOK
  <2>3. Uploaded(c)' /\ (stored[c] => Computed(c))'
    BY <2>2
    DEF Uploaded, Computed, SinceUploaded, SincePage, SinceOpen, SinceRules,
        SinceEvidence, SinceMLN, SinceGrounded, SinceInferred, SinceCleaned
  <2>4. QED
    BY <2>1, <2>3 DEF AloneInv
<1>2. ASSUME NEW c \in Client, StoreDataset(c)
      PROVE  AloneInv'
  <2> SUFFICES ASSUME NEW d \in Client, alone'[d], pc'[d] # "idle"
               PROVE  /\ \A e \in Client \ {d} : pc'[e] = "idle"
                      /\ Uploaded(d)' /\ (stored[d] => Computed(d))'
    BY DEF AloneInv
  <2>1. /\ d = c /\ alone[c] /\ Uploaded(c) /\ (stored[c] => Computed(c))
        /\ \A e \in Client \ {d} : pc'[e] = "idle"
    BY <1>2, Sole DEF StoreDataset, Place
  <2>2. /\ pc[c] = "parsing" /\ pc'[c] = "half"
        /\ UNCHANGED <<nameOf, rejected>>
    BY <1>2, MoveFacts DEF StoreDataset, Place
  <2>3. Uploaded(c)'
    BY <1>2, <2>1, <2>2
    DEF StoreDataset, SavedAs, Uploaded, TypeOK, files, servlet, endpoint, engine,
        bounds, SinceUploaded, SincePage, SinceOpen, SinceRules, SinceEvidence,
        SinceMLN, SinceGrounded, SinceInferred, SinceCleaned
  <2>4. (stored[c] => Computed(c))'
    BY <1>2, <2>1, <2>2, <2>3
    DEF StoreDataset, SavedAs, Uploaded, Computed, TypeOK, files, servlet, endpoint,
        engine, bounds, SinceUploaded, SincePage, SinceOpen, SinceRules, SinceEvidence,
        SinceMLN, SinceGrounded, SinceInferred, SinceCleaned
  <2>5. QED
    BY <2>1, <2>3, <2>4
<1>3. ASSUME NEW c \in Client, StoreRules(c)
      PROVE  AloneInv'
  <2> SUFFICES ASSUME NEW d \in Client, alone'[d], pc'[d] # "idle"
               PROVE  /\ \A e \in Client \ {d} : pc'[e] = "idle"
                      /\ Uploaded(d)' /\ (stored[d] => Computed(d))'
    BY DEF AloneInv
  <2>1. /\ d = c /\ alone[c] /\ Uploaded(c) /\ (stored[c] => Computed(c))
        /\ \A e \in Client \ {d} : pc'[e] = "idle"
    BY <1>3, Sole DEF StoreRules, Place
  <2>2. /\ pc[c] = "half" /\ pc'[c] = "uploaded"
        /\ UNCHANGED <<nameOf, rejected>>
    BY <1>3, MoveFacts DEF StoreRules, Place
  <2>3. Uploaded(c)'
    BY <1>3, <2>1, <2>2
    DEF StoreRules, SavedAs, Uploaded, TypeOK, files, servlet, endpoint, engine, bounds,
        SinceUploaded, SincePage, SinceOpen, SinceRules, SinceEvidence, SinceMLN,
        SinceGrounded, SinceInferred, SinceCleaned
  <2>4. (stored[c] => Computed(c))'
    BY <1>3, <2>1, <2>2, <2>3
    DEF StoreRules, SavedAs, Uploaded, Computed, TypeOK, files, servlet, endpoint,
        engine, bounds, SinceUploaded, SincePage, SinceOpen, SinceRules, SinceEvidence,
        SinceMLN, SinceGrounded, SinceInferred, SinceCleaned
  <2>5. QED
    BY <2>1, <2>3, <2>4
<1>4. ASSUME NEW c \in Client, UploadFails(c)
      PROVE  AloneInv'
  <2> SUFFICES ASSUME NEW d \in Client, alone'[d], pc'[d] # "idle"
               PROVE  /\ \A e \in Client \ {d} : pc'[e] = "idle"
                      /\ Uploaded(d)' /\ (stored[d] => Computed(d))'
    BY DEF AloneInv
  <2>1. /\ d = c /\ alone[c] /\ Uploaded(c) /\ (stored[c] => Computed(c))
        /\ \A e \in Client \ {d} : pc'[e] = "idle"
    BY <1>4, Sole DEF UploadFails, Place
  <2>2. /\ pc[c] \in {"parsing", "half"} /\ pc'[c] = "uploaded"
        /\ UNCHANGED <<nameOf, rejected>>
    BY <1>4, MoveFacts DEF UploadFails, Place
  <2>3. Uploaded(c)'
    BY <1>4, <2>1, <2>2
    DEF UploadFails, Written, SavedAs, Uploaded, TypeOK, files, servlet, endpoint,
        engine, bounds, SinceUploaded, SincePage, SinceOpen, SinceRules, SinceEvidence,
        SinceMLN, SinceGrounded, SinceInferred, SinceCleaned
  <2>4. (stored[c] => Computed(c))'
    BY <1>4, <2>1, <2>2, <2>3
    DEF UploadFails, Written, SavedAs, Uploaded, Computed, TypeOK, files, servlet,
        endpoint, engine, bounds, SinceUploaded, SincePage, SinceOpen, SinceRules,
        SinceEvidence, SinceMLN, SinceGrounded, SinceInferred, SinceCleaned
  <2>5. QED
    BY <2>1, <2>3, <2>4
<1>5. ASSUME NEW c \in Client, Forward(c)
      PROVE  AloneInv'
  <2> SUFFICES ASSUME NEW d \in Client, alone'[d], pc'[d] # "idle"
               PROVE  /\ \A e \in Client \ {d} : pc'[e] = "idle"
                      /\ Uploaded(d)' /\ (stored[d] => Computed(d))'
    BY DEF AloneInv
  <2>1. /\ d = c /\ alone[c] /\ Uploaded(c) /\ (stored[c] => Computed(c))
        /\ \A e \in Client \ {d} : pc'[e] = "idle"
    BY <1>5, Sole DEF Forward, Place
  <2>2. /\ pc[c] = "uploaded" /\ pc'[c] = "page"
        /\ UNCHANGED <<nameOf, rejected>>
    BY <1>5, MoveFacts DEF Forward, Place
  <2>3. Uploaded(c)'
    BY <1>5, <2>1, <2>2
    DEF Forward, Uploaded, TypeOK, files, servlet, endpoint, engine, bounds,
        SinceUploaded, SincePage, SinceOpen, SinceRules, SinceEvidence, SinceMLN,
        SinceGrounded, SinceInferred, SinceCleaned
  <2>4. (stored[c] => Computed(c))'
    BY <1>5, <2>1, <2>2, <2>3
    DEF Forward, Uploaded, Computed, TypeOK, files, servlet, endpoint, engine, bounds,
        SinceUploaded, SincePage, SinceOpen, SinceRules, SinceEvidence, SinceMLN,
        SinceGrounded, SinceInferred, SinceCleaned
  <2>5. QED
    BY <2>1, <2>3, <2>4
<1>6. ASSUME NEW c \in Client, ModifyHandshake(c)
      PROVE  AloneInv'
  <2> SUFFICES ASSUME NEW d \in Client, alone'[d], pc'[d] # "idle"
               PROVE  /\ \A e \in Client \ {d} : pc'[e] = "idle"
                      /\ Uploaded(d)' /\ (stored[d] => Computed(d))'
    BY DEF AloneInv
  <2>1. /\ d = c /\ alone[c] /\ Uploaded(c) /\ (stored[c] => Computed(c))
        /\ \A e \in Client \ {d} : pc'[e] = "idle"
    BY <1>6, Sole DEF ModifyHandshake, Place
  <2>2. /\ pc[c] = "page" /\ pc'[c] = "handshake"
        /\ UNCHANGED <<nameOf, rejected>>
    BY <1>6, MoveFacts DEF ModifyHandshake, Place
  <2>3. Uploaded(c)'
    BY <1>6, <2>1, <2>2
    DEF ModifyHandshake, Uploaded, TypeOK, files, servlet, endpoint, engine, bounds,
        SinceUploaded, SincePage, SinceOpen, SinceRules, SinceEvidence, SinceMLN,
        SinceGrounded, SinceInferred, SinceCleaned
  <2>4. (stored[c] => Computed(c))'
    BY <1>6, <2>1, <2>2, <2>3
    DEF ModifyHandshake, Uploaded, Computed, TypeOK, files, servlet, endpoint, engine,
        bounds, SinceUploaded, SincePage, SinceOpen, SinceRules, SinceEvidence,
        SinceMLN, SinceGrounded, SinceInferred, SinceCleaned
  <2>5. QED
    BY <2>1, <2>3, <2>4
<1>7. ASSUME NEW c \in Client, OnOpen(c)
      PROVE  AloneInv'
  <2> SUFFICES ASSUME NEW d \in Client, alone'[d], pc'[d] # "idle"
               PROVE  /\ \A e \in Client \ {d} : pc'[e] = "idle"
                      /\ Uploaded(d)' /\ (stored[d] => Computed(d))'
    BY DEF AloneInv
  <2>1. /\ d = c /\ alone[c] /\ Uploaded(c) /\ (stored[c] => Computed(c))
        /\ \A e \in Client \ {d} : pc'[e] = "idle"
    BY <1>7, Sole DEF OnOpen, Place
  <2>2. /\ pc[c] = "handshake" /\ pc'[c] = "open"
        /\ UNCHANGED <<nameOf, rejected>>
    BY <1>7, MoveFacts DEF OnOpen, Place
  <2>3. Uploaded(c)'
    BY <1>7, <2>1, <2>2
    DEF OnOpen, Uploaded, TypeOK, files, servlet, endpoint, engine, bounds,
        SinceUploaded, SincePage, SinceOpen, SinceRules, SinceEvidence, SinceMLN,
        SinceGrounded, SinceInferred, SinceCleaned
  <2>4. (stored[c] => Computed(c))'
    BY <1>7, <2>1, <2>2, <2>3
    DEF OnOpen, Uploaded, Computed, TypeOK, files, servlet, endpoint, engine, bounds,
        SinceUploaded, SincePage, SinceOpen, SinceRules, SinceEvidence, SinceMLN,
        SinceGrounded, SinceInferred, SinceCleaned
  <2>5. QED
    BY <2>1, <2>3, <2>4
<1>8. ASSUME NEW c \in Client, LoadRules(c)
      PROVE  AloneInv'
  <2> SUFFICES ASSUME NEW d \in Client, alone'[d], pc'[d] # "idle"
               PROVE  /\ \A e \in Client \ {d} : pc'[e] = "idle"
                      /\ Uploaded(d)' /\ (stored[d] => Computed(d))'
    BY DEF AloneInv
  <2>1. /\ d = c /\ alone[c] /\ Uploaded(c) /\ (stored[c] => Computed(c))
        /\ \A e \in Client \ {d} : pc'[e] = "idle"
    BY <1>8, Sole DEF LoadRules, Place
  <2>2. /\ pc[c] = "open" /\ pc'[c] = "rules"
        /\ UNCHANGED <<nameOf, rejected>>
    BY <1>8, MoveFacts DEF LoadRules, Place
  <2>3. Uploaded(c)'
    BY <1>8, <2>1, <2>2
    DEF LoadRules, Uploaded, TypeOK, files, servlet, endpoint, engine, bounds,
        SinceUploaded, SincePage, SinceOpen, SinceRules, SinceEvidence, SinceMLN,
        SinceGrounded, SinceInferred, SinceCleaned
  <2>4. (stored[c] => Computed(c))'
    BY <1>8, <2>1, <2>2, <2>3
    DEF LoadRules, ContentOf, Uploaded, Computed, TypeOK, files, servlet, endpoint,
        engine, bounds, SinceUploaded, SincePage, SinceOpen, SinceRules, SinceEvidence,
        SinceMLN, SinceGrounded, SinceInferred, SinceCleaned
  <2>5. QED
    BY <2>1, <2>3, <2>4
<1>9. ASSUME NEW c \in Client, FormatEvidence(c)
      PROVE  AloneInv'
  <2> SUFFICES ASSUME NEW d \in Client, alone'[d], pc'[d] # "idle"
               PROVE  /\ \A e \in Client \ {d} : pc'[e] = "idle"
                      /\ Uploaded(d)' /\ (stored[d] => Computed(d))'
    BY DEF AloneInv
  <2>1. /\ d = c /\ alone[c] /\ Uploaded(c) /\ (stored[c] => Computed(c))
        /\ \A e \in Client \ {d} : pc'[e] = "idle"
    BY <1>9, Sole DEF FormatEvidence, Place
  <2>2. /\ pc[c] = "rules" /\ pc'[c] = "evidence"
        /\ UNCHANGED <<nameOf, rejected>>
    BY <1>9, MoveFacts DEF FormatEvidence, Place
  <2>3. Uploaded(c)'
    BY <1>9, <2>1, <2>2
    DEF FormatEvidence, Uploaded, TypeOK, files, servlet, endpoint, engine, bounds,
        SinceUploaded, SincePage, SinceOpen, SinceRules, SinceEvidence, SinceMLN,
        SinceGrounded, SinceInferred, SinceCleaned
  <2>4. (stored[c] => Computed(c))'
    BY <1>9, <2>1, <2>2, <2>3
    DEF FormatEvidence, ContentOf, EvidenceOf, Uploaded, Computed, TypeOK, files,
        servlet, endpoint, engine, bounds, SinceUploaded, SincePage, SinceOpen,
        SinceRules, SinceEvidence, SinceMLN, SinceGrounded, SinceInferred, SinceCleaned
  <2>5. QED
    BY <2>1, <2>3, <2>4
<1>10. ASSUME NEW c \in Client, NoData(c)
      PROVE  AloneInv'
  <2>1. \A d \in Client : alone'[d] => pc'[d] = "idle"
    BY <1>10, MoveFacts DEF NoData, Move, Place
  <2>2. QED
    BY <2>1 DEF AloneInv
<1>11. ASSUME NEW c \in Client, CreateMLN(c)
      PROVE  AloneInv'
  <2> SUFFICES ASSUME NEW d \in Client, alone'[d], pc'[d] # "idle"
               PROVE  /\ \A e \in Client \ {d} : pc'[e] = "idle"
                      /\ Uploaded(d)' /\ (stored[d] => Computed(d))'
    BY DEF AloneInv
  <2>1. /\ d = c /\ alone[c] /\ Uploaded(c) /\ (stored[c] => Computed(c))
        /\ \A e \in Client \ {d} : pc'[e] = "idle"
    BY <1>11, Sole DEF CreateMLN, Place
  <2>2. /\ pc[c] = "evidence" /\ pc'[c] = "mln"
        /\ UNCHANGED <<nameOf, rejected>>
    BY <1>11, MoveFacts DEF CreateMLN, Place
  <2>3. Uploaded(c)'
    BY <1>11, <2>1, <2>2
    DEF CreateMLN, Uploaded, TypeOK, files, servlet, endpoint, engine, bounds,
        SinceUploaded, SincePage, SinceOpen, SinceRules, SinceEvidence, SinceMLN,
        SinceGrounded, SinceInferred, SinceCleaned
  <2>4. (stored[c] => Computed(c))'
    BY <1>11, <2>1, <2>2, <2>3
    DEF CreateMLN, ContentOf, Uploaded, Computed, TypeOK, files, servlet, endpoint,
        engine, bounds, SinceUploaded, SincePage, SinceOpen, SinceRules, SinceEvidence,
        SinceMLN, SinceGrounded, SinceInferred, SinceCleaned
  <2>5. QED
    BY <2>1, <2>3, <2>4
<1>12. ASSUME NEW c \in Client, SetUp(c)
      PROVE  AloneInv'
  <2> SUFFICES ASSUME NEW d \in Client, alone'[d], pc'[d] # "idle"
               PROVE  /\ \A e \in Client \ {d} : pc'[e] = "idle"
                      /\ Uploaded(d)' /\ (stored[d] => Computed(d))'
    BY DEF AloneInv
  <2>1. /\ d = c /\ alone[c] /\ Uploaded(c) /\ (stored[c] => Computed(c))
        /\ \A e \in Client \ {d} : pc'[e] = "idle"
    BY <1>12, Sole DEF SetUp, Place
  <2>2. /\ pc[c] = "mln" /\ pc'[c] = "grounded"
        /\ UNCHANGED <<nameOf, rejected>>
    BY <1>12, MoveFacts DEF SetUp, Place
  <2>3. Uploaded(c)'
    BY <1>12, <2>1, <2>2
    DEF SetUp, Uploaded, TypeOK, files, servlet, endpoint, engine, bounds,
        SinceUploaded, SincePage, SinceOpen, SinceRules, SinceEvidence, SinceMLN,
        SinceGrounded, SinceInferred, SinceCleaned
  <2>4. (stored[c] => Computed(c))'
    BY <1>12, <2>1, <2>2, <2>3
    DEF SetUp, Uploaded, Computed, TypeOK, files, servlet, endpoint, engine, bounds,
        SinceUploaded, SincePage, SinceOpen, SinceRules, SinceEvidence, SinceMLN,
        SinceGrounded, SinceInferred, SinceCleaned
  <2>5. QED
    BY <2>1, <2>3, <2>4
<1>13. ASSUME NEW c \in Client, EngineDies(c)
      PROVE  AloneInv'
  <2> SUFFICES ASSUME NEW d \in Client, alone'[d], pc'[d] # "idle"
               PROVE  /\ \A e \in Client \ {d} : pc'[e] = "idle"
                      /\ Uploaded(d)' /\ (stored[d] => Computed(d))'
    BY DEF AloneInv
  <2>1. /\ d = c /\ alone[c] /\ Uploaded(c) /\ (stored[c] => Computed(c))
        /\ \A e \in Client \ {d} : pc'[e] = "idle"
    BY <1>13, Sole DEF EngineDies, Place
  <2>2. /\ pc[c] = "grounded" /\ pc'[c] = "dying"
        /\ UNCHANGED <<nameOf, rejected>>
    BY <1>13, MoveFacts DEF EngineDies, Place
  <2>3. Uploaded(c)'
    BY <1>13, <2>1, <2>2
    DEF EngineDies, Uploaded, TypeOK, files, servlet, endpoint, engine, bounds,
        SinceUploaded, SincePage, SinceOpen, SinceRules, SinceEvidence, SinceMLN,
        SinceGrounded, SinceInferred, SinceCleaned
  <2>4. (stored[c] => Computed(c))'
    BY <1>13, <2>1, <2>2, <2>3
    DEF EngineDies, Uploaded, Computed, TypeOK, files, servlet, endpoint, engine,
        bounds, SinceUploaded, SincePage, SinceOpen, SinceRules, SinceEvidence,
        SinceMLN, SinceGrounded, SinceInferred, SinceCleaned
  <2>5. QED
    BY <2>1, <2>3, <2>4
<1>14. ASSUME NEW c \in Client, Infer(c)
      PROVE  AloneInv'
  <2> SUFFICES ASSUME NEW d \in Client, alone'[d], pc'[d] # "idle"
               PROVE  /\ \A e \in Client \ {d} : pc'[e] = "idle"
                      /\ Uploaded(d)' /\ (stored[d] => Computed(d))'
    BY DEF AloneInv
  <2>1. /\ d = c /\ alone[c] /\ Uploaded(c) /\ (stored[c] => Computed(c))
        /\ \A e \in Client \ {d} : pc'[e] = "idle"
    BY <1>14, Sole DEF Infer, Place
  <2>2. /\ pc[c] = "grounded" /\ pc'[c] = "inferred"
        /\ UNCHANGED <<nameOf, rejected>>
    BY <1>14, MoveFacts DEF Infer, Place
  <2>3. Uploaded(c)'
    BY <1>14, <2>1, <2>2
    DEF Infer, Uploaded, TypeOK, files, servlet, endpoint, engine, bounds,
        SinceUploaded, SincePage, SinceOpen, SinceRules, SinceEvidence, SinceMLN,
        SinceGrounded, SinceInferred, SinceCleaned
  <2>4. stored[c] /\ c \notin rejected =>
          probs'[c] = [rules |-> c, evidence |-> c, whole |-> TRUE]
    <3>1. stored[c] => program[c] = c /\ workspace = c
      BY <2>1, <2>2 DEF Computed, SinceGrounded
    <3>2. stored[c] /\ c \notin rejected => ~ MayFail(c)
      BY <2>1, <3>1 DEF MayFail
    <3>3. probs \in [Client -> Probs]
      BY DEF TypeOK
    <3>4. stored[c] /\ c \notin rejected => probs' =
            [probs EXCEPT ![c] = [rules |-> c, evidence |-> c, whole |-> TRUE]]
      BY <1>14, <3>1, <3>2 DEF Infer
    <3>5. QED
      BY <3>3, <3>4
  <2>5. (stored[c] => Computed(c))'
    BY <1>14, <2>1, <2>2, <2>3, <2>4
    DEF Infer, Uploaded, Computed, TypeOK, files, servlet, endpoint, engine, bounds,
        SinceUploaded, SincePage, SinceOpen, SinceRules, SinceEvidence, SinceMLN,
        SinceGrounded, SinceInferred, SinceCleaned
  <2>6. QED
    BY <2>1, <2>3, <2>5
<1>15. ASSUME NEW c \in Client, Clean(c)
      PROVE  AloneInv'
  <2> SUFFICES ASSUME NEW d \in Client, alone'[d], pc'[d] # "idle"
               PROVE  /\ \A e \in Client \ {d} : pc'[e] = "idle"
                      /\ Uploaded(d)' /\ (stored[d] => Computed(d))'
    BY DEF AloneInv
  <2>1. /\ d = c /\ alone[c] /\ Uploaded(c) /\ (stored[c] => Computed(c))
        /\ \A e \in Client \ {d} : pc'[e] = "idle"
    BY <1>15, Sole DEF Clean, Place
  <2>2. /\ pc[c] = "inferred" /\ pc'[c] = "cleaned"
        /\ UNCHANGED <<nameOf, rejected>>
    BY <1>15, MoveFacts DEF Clean, Place
  <2>3. Uploaded(c)'
    BY <1>15, <2>1, <2>2
    DEF Clean, Uploaded, TypeOK, files, servlet, endpoint, engine, bounds,
        SinceUploaded, SincePage, SinceOpen, SinceRules, SinceEvidence, SinceMLN,
        SinceGrounded, SinceInferred, SinceCleaned
  <2>4. stored[c] /\ c \notin rejected => dataSet'[c] = OwnResult(c)
    <3>1. stored[c] => dataFile[nameOf[c]] = c /\ page[c].data = nameOf[c]
      BY <2>1, <2>2 DEF Uploaded, SinceUploaded, SincePage, SinceOpen, SinceRules,
          SinceEvidence, SinceMLN, SinceGrounded, SinceInferred
    <3>2. nameOf[c] # Nobody
      BY DEF TypeOK
    <3>3. stored[c] /\ c \notin rejected =>
            loaded[c] = c /\ probs[c] = [rules |-> c, evidence |-> c, whole |-> TRUE]
      BY <2>1, <2>2 DEF Computed, SinceRules, SinceEvidence, SinceMLN, SinceGrounded,
          SinceInferred
    <3>4. QED
      BY <1>15, <3>1, <3>2, <3>3 DEF Clean, ContentOf, OwnResult, TypeOK
  <2>5. (stored[c] => Computed(c))'
    BY <1>15, <2>1, <2>2, <2>3, <2>4
    DEF Clean, Uploaded, Computed, TypeOK, files, servlet, endpoint, engine, bounds,
        SinceUploaded, SincePage, SinceOpen, SinceRules, SinceEvidence, SinceMLN,
        SinceGrounded, SinceInferred, SinceCleaned
  <2>6. QED
    BY <2>1, <2>3, <2>5
<1>16. ASSUME NEW c \in Client, WriteToFile(c)
      PROVE  AloneInv'
  <2> SUFFICES ASSUME NEW d \in Client, alone'[d], pc'[d] # "idle"
               PROVE  /\ \A e \in Client \ {d} : pc'[e] = "idle"
                      /\ Uploaded(d)' /\ (stored[d] => Computed(d))'
    BY DEF AloneInv
  <2>1. /\ d = c /\ alone[c] /\ Uploaded(c) /\ (stored[c] => Computed(c))
        /\ \A e \in Client \ {d} : pc'[e] = "idle"
    BY <1>16, Sole DEF WriteToFile, Place
  <2>2. /\ pc[c] = "cleaned" /\ pc'[c] = "finished"
        /\ UNCHANGED <<nameOf, rejected>>
    BY <1>16, MoveFacts DEF WriteToFile, Place
  <2>3. Uploaded(c)'
    BY <1>16, <2>1, <2>2
    DEF WriteToFile, Uploaded, TypeOK, files, servlet, endpoint, engine, bounds,
        SinceUploaded, SincePage, SinceOpen, SinceRules, SinceEvidence, SinceMLN,
        SinceGrounded, SinceInferred, SinceCleaned
  <2>4. (stored[c] => Computed(c))'
    BY <1>16, <2>1, <2>2, <2>3
    DEF WriteToFile, OwnResult, Uploaded, Computed, TypeOK, files, servlet, endpoint,
        engine, bounds, SinceUploaded, SincePage, SinceOpen, SinceRules, SinceEvidence,
        SinceMLN, SinceGrounded, SinceInferred, SinceCleaned
  <2>5. QED
    BY <2>1, <2>3, <2>4
<1>17. ASSUME NEW c \in Client, SetHeader(c)
      PROVE  AloneInv'
  <2> SUFFICES ASSUME NEW d \in Client, alone'[d], pc'[d] # "idle"
               PROVE  /\ \A e \in Client \ {d} : pc'[e] = "idle"
                      /\ Uploaded(d)' /\ (stored[d] => Computed(d))'
    BY DEF AloneInv
  <2>1. /\ d = c /\ alone[c] /\ Uploaded(c) /\ (stored[c] => Computed(c))
        /\ \A e \in Client \ {d} : pc'[e] = "idle"
    BY <1>17, Sole DEF SetHeader, Place
  <2>2. /\ pc[c] = "finished" /\ pc'[c] = "headerSet"
        /\ UNCHANGED <<nameOf, rejected>>
    BY <1>17, MoveFacts DEF SetHeader, Place
  <2>3. Uploaded(c)'
    BY <1>17, <2>1, <2>2
    DEF SetHeader, Uploaded, TypeOK, files, servlet, endpoint, engine, bounds,
        SinceUploaded, SincePage, SinceOpen, SinceRules, SinceEvidence, SinceMLN,
        SinceGrounded, SinceInferred, SinceCleaned
  <2>4. (stored[c] => Computed(c))'
    BY <1>17, <2>1, <2>2, <2>3
    DEF SetHeader, OwnResult, Uploaded, Computed, TypeOK, files, servlet, endpoint,
        engine, bounds, SinceUploaded, SincePage, SinceOpen, SinceRules, SinceEvidence,
        SinceMLN, SinceGrounded, SinceInferred, SinceCleaned
  <2>5. QED
    BY <2>1, <2>3, <2>4
<1>18. ASSUME NEW c \in Client, SetDataSet(c)
      PROVE  AloneInv'
  <2> SUFFICES ASSUME NEW d \in Client, alone'[d], pc'[d] # "idle"
               PROVE  /\ \A e \in Client \ {d} : pc'[e] = "idle"
                      /\ Uploaded(d)' /\ (stored[d] => Computed(d))'
    BY DEF AloneInv
  <2>1. /\ d = c /\ alone[c] /\ Uploaded(c) /\ (stored[c] => Computed(c))
        /\ \A e \in Client \ {d} : pc'[e] = "idle"
    BY <1>18, Sole DEF SetDataSet, Place
  <2>2. /\ pc[c] = "headerSet" /\ pc'[c] = "stored"
        /\ UNCHANGED <<nameOf, rejected>>
    BY <1>18, MoveFacts DEF SetDataSet, Place
  <2>3. Uploaded(c)'
    BY <1>18, <2>1, <2>2
    DEF SetDataSet, Uploaded, TypeOK, files, servlet, endpoint, engine, bounds,
        SinceUploaded, SincePage, SinceOpen, SinceRules, SinceEvidence, SinceMLN,
        SinceGrounded, SinceInferred, SinceCleaned
  <2>4. (stored[c] => Computed(c))'
    BY <1>18, <2>1, <2>2, <2>3
    DEF SetDataSet, OwnResult, Uploaded, Computed, TypeOK, files, servlet, endpoint,
        engine, bounds, SinceUploaded, SincePage, SinceOpen, SinceRules, SinceEvidence,
        SinceMLN, SinceGrounded, SinceInferred, SinceCleaned
  <2>5. QED
    BY <2>1, <2>3, <2>4
<1>19. ASSUME NEW c \in Client, Throws(c)
      PROVE  AloneInv'
  <2>1. \A d \in Client : alone'[d] => pc'[d] = "idle"
    <3>1. PICK from \in Place \ {"dying", "headerSet"} : Move(c, from, "idle")
      BY <1>19, ThrowsFacts
    <3>2. QED
      <4>1. "idle" \in Place
        BY DEF Place
      <4>2. \A d \in Client :
              alone'[d] = IF d # c THEN alone[d] /\ pc[d] = "idle" ELSE FALSE
        BY <3>1 DEF Move
      <4>3. QED
        BY <3>1, <4>1, <4>2, MoveFacts
  <2>2. QED
    BY <2>1 DEF AloneInv
<1>20. ASSUME NEW c \in Client, Leave(c)
      PROVE  AloneInv'
  <2>1. \A d \in Client : alone'[d] => pc'[d] = "idle"
    BY <1>20, MoveFacts DEF Leave, Move, Place
  <2>2. QED
    BY <2>1 DEF AloneInv
<1>21. ASSUME NEW c \in Client, Exit(c)
      PROVE  AloneInv'
  <2>1. \A d \in Client : Uploaded(d)' = Uploaded(d) /\ Computed(d)' = Computed(d)
    BY <1>21
    DEF Exit, clients, files, servlet, endpoint, engine, bounds, Uploaded, Computed
  <2>2. QED
    BY <1>21, <2>1 DEF Exit, endpoint, AloneInv
<1>22. CASE UNCHANGED vars
  <2>1. \A c \in Client : Uploaded(c)' = Uploaded(c) /\ Computed(c)' = Computed(c)
    BY <1>22
    DEF vars, clients, files, servlet, endpoint, engine, bounds, Uploaded, Computed
  <2>2. QED
    BY <1>22, <2>1 DEF vars, AloneInv
<1>23. QED
  BY <1>1, <1>2, <1>3, <1>4, <1>5, <1>6, <1>7, <1>8, <1>9, <1>10, <1>11, <1>12, <1>13,
     <1>14, <1>15, <1>16, <1>17, <1>18, <1>19, <1>20, <1>21, <1>22 DEF Next, Terminating

(* A client served alone, with its files stored, gets its own data set,     *)
(* cleaned by its own rules and probabilities, whatever rounds there were   *)
(* before and however many clients share the server.                       *)
THEOREM AloneOwnHolds == Spec => []AloneOwn
<1>1. Init => AloneInv
  BY DEF Init, AloneInv
<1>2. ASSUME TypeOK, AloneInv PROVE AloneOwn
  <2> SUFFICES ASSUME NEW c \in Client \ rejected, pc[c] = "stored", alone[c], stored[c]
               PROVE  /\ attributes[c] = [header |-> c, dataSet |-> OwnResult(c)]
                      /\ cleanedFile = OwnResult(c)
    BY DEF AloneOwn
  <2>1. Computed(c)
    BY <1>2 DEF AloneInv
  <2>2. /\ attributes[c].header = c /\ attributes[c].dataSet = OwnResult(c)
        /\ cleanedFile = OwnResult(c)
    BY <2>1 DEF Computed
  <2>3. attributes[c] \in [header : Owner, dataSet : Result]
    BY <1>2 DEF TypeOK
  <2>4. QED
    BY <2>2, <2>3
<1>3. QED
  BY <1>1, <1>2, AloneInvStep, TypeCorrect, PTL DEF Spec

-----------------------------------------------------------------------------
LEMMA HeaderInvStep == TypeOK /\ HeaderInv /\ [Next]_vars => HeaderInv'
<1> SUFFICES ASSUME TypeOK, HeaderInv, [Next]_vars, NamesDiffer'
             PROVE  HeaderInv'
  BY DEF HeaderInv
<1> USE CleanerServerAssumption
<1>1. ASSUME NEW c \in Client, Post(c)
      PROVE  HeaderInv'
  <2>1. /\ pc[c] = "idle" /\ pc'[c] = "parsing" /\ UNCHANGED nameOf
        /\ \A d \in Client : d # c => pc'[d] = pc[d]
    BY <1>1, MoveFacts DEF Post, Place
  <2>2. NamesDiffer /\ OwnFiles
    BY <2>1 DEF NamesDiffer, HeaderInv
  <2>3. OwnFiles'
    BY <1>1, <2>1, <2>2 DEF Post, OwnFiles, files
  <2>4. \A d \in Client : ReadsTwice(d)'
    BY <1>1, <2>1, <2>2 DEF Post, HeaderInv, ReadsTwice, TypeOK, files, endpoint
  <2>5. \A d, s \in Client : SetsTwo(d, s)'
    BY <1>1, <2>1, <2>2 DEF Post, HeaderInv, SetsTwo, TypeOK, endpoint
  <2>6. QED
    BY <2>3, <2>4, <2>5 DEF HeaderInv
<1>2. ASSUME NEW c \in Client, StoreDataset(c)
      PROVE  HeaderInv'
  <2>1. /\ pc[c] = "parsing" /\ pc'[c] = "half" /\ UNCHANGED nameOf
        /\ \A d \in Client : d # c => pc'[d] = pc[d]
    BY <1>2, MoveFacts DEF StoreDataset, Place
  <2>2. NamesDiffer /\ OwnFiles
    BY <2>1 DEF NamesDiffer, HeaderInv
  <2>3. /\ dataFile' \in Written(dataFile, c)
        /\ nameOf[c] \in FileName /\ c # Nobody
        /\ UNCHANGED <<header, page, dataSet, attributes, setBy, httpSession>>
    BY <1>2 DEF StoreDataset, SavedAs, Written, TypeOK, endpoint
  <2>4. OwnFiles'
    <3>1. ASSUME NEW n \in FileName
          PROVE  \/ dataFile'[n] = dataFile[n]
                 \/ n = nameOf[c] /\ dataFile'[n] \in {Nobody, c}
      BY <2>3 DEF Written, SavedAs, TypeOK
    <3>2. QED
      BY <2>1, <2>2, <3>1 DEF OwnFiles
  <2>5. ASSUME NEW d \in Client
        PROVE  ReadsTwice(d)'
    <3>1. CASE pc'[d] \in {"evidence", "mln", "grounded", "inferred"}
      <4>1. /\ header[d] # Nobody /\ page[d].data # Nobody
            /\ dataFile[page[d].data] \in {Nobody, header[d]}
            /\ nameOf[header[d]] = page[d].data
        BY <2>1, <2>2, <3>1 DEF HeaderInv, ReadsTwice
      <4>2. page[d].data \in FileName /\ header[d] \in Client
        BY <2>5, <4>1 DEF TypeOK, URL, Owner
      <4>3. dataFile'[page[d].data] \in {dataFile[page[d].data], Nobody, c}
        BY <2>3, <4>2 DEF Written, SavedAs, TypeOK
      <4>4. dataFile'[page[d].data] = dataFile[page[d].data] \/ page[d].data = nameOf[c]
        BY <2>3, <4>2 DEF Written, SavedAs, TypeOK
      <4>5. page[d].data = nameOf[c] => header[d] = c
        BY <2>2, <4>1, <4>2 DEF NamesDiffer
      <4>6. dataFile'[page[d].data] \in {Nobody, header[d]}
        BY <4>1, <4>3, <4>4, <4>5
      <4>7. QED
        BY <2>1, <2>3, <3>1, <4>1, <4>6 DEF ReadsTwice
    <3>2. CASE pc'[d] \notin {"evidence", "mln", "grounded", "inferred"}
      BY <2>1, <2>2, <2>3, <3>2 DEF HeaderInv, ReadsTwice
    <3>3. QED
      BY <3>1, <3>2
  <2>6. \A d, e \in Client : SetsTwo(d, e)'
    <3>1. \A d \in Client : pc'[d] = "headerSet" <=> pc[d] = "headerSet"
      BY <2>1
    <3>2. QED
      BY <2>2, <2>3, <3>1 DEF HeaderInv, SetsTwo
  <2>7. QED
    BY <2>4, <2>5, <2>6 DEF HeaderInv
<1>3. ASSUME NEW c \in Client, StoreRules(c)
      PROVE  HeaderInv'
  <2>1. /\ pc[c] = "half" /\ pc'[c] = "uploaded" /\ UNCHANGED nameOf
        /\ \A d \in Client : d # c => pc'[d] = pc[d]
    BY <1>3, MoveFacts DEF StoreRules, Place
  <2>2. NamesDiffer /\ OwnFiles
    BY <2>1 DEF NamesDiffer, HeaderInv
  <2>3. OwnFiles'
    BY <1>3, <2>1, <2>2 DEF StoreRules, OwnFiles, files
  <2>4. \A d \in Client : ReadsTwice(d)'
    BY <1>3, <2>1, <2>2
    DEF StoreRules, SavedAs, HeaderInv, ReadsTwice, TypeOK, files, endpoint
  <2>5. \A d, s \in Client : SetsTwo(d, s)'
    BY <1>3, <2>1, <2>2 DEF StoreRules, HeaderInv, SetsTwo, TypeOK, endpoint
  <2>6. QED
    BY <2>3, <2>4, <2>5 DEF HeaderInv
<1>4. ASSUME NEW c \in Client, UploadFails(c)
      PROVE  HeaderInv'
  <2>1. /\ pc[c] \in {"parsing", "half"} /\ pc'[c] = "uploaded" /\ UNCHANGED nameOf
        /\ \A d \in Client : d # c => pc'[d] = pc[d]
    BY <1>4, MoveFacts DEF UploadFails, Place
  <2>2. NamesDiffer /\ OwnFiles
    BY <2>1 DEF NamesDiffer, HeaderInv
  <2>3. /\ dataFile' \in Written(dataFile, c)
        /\ nameOf[c] \in FileName /\ c # Nobody
        /\ UNCHANGED <<header, page, dataSet, attributes, setBy, httpSession>>
    BY <1>4 DEF UploadFails, SavedAs, Written, TypeOK, files, endpoint
  <2>4. OwnFiles'
    <3>1. ASSUME NEW n \in FileName
          PROVE  \/ dataFile'[n] = dataFile[n]
                 \/ n = nameOf[c] /\ dataFile'[n] \in {Nobody, c}
      BY <2>3 DEF Written, SavedAs, TypeOK
    <3>2. QED
      BY <2>1, <2>2, <3>1 DEF OwnFiles
  <2>5. ASSUME NEW d \in Client
        PROVE  ReadsTwice(d)'
    <3>1. CASE pc'[d] \in {"evidence", "mln", "grounded", "inferred"}
      <4>1. /\ header[d] # Nobody /\ page[d].data # Nobody
            /\ dataFile[page[d].data] \in {Nobody, header[d]}
            /\ nameOf[header[d]] = page[d].data
        BY <2>1, <2>2, <3>1 DEF HeaderInv, ReadsTwice
      <4>2. page[d].data \in FileName /\ header[d] \in Client
        BY <2>5, <4>1 DEF TypeOK, URL, Owner
      <4>3. dataFile'[page[d].data] \in {dataFile[page[d].data], Nobody, c}
        BY <2>3, <4>2 DEF Written, SavedAs, TypeOK
      <4>4. dataFile'[page[d].data] = dataFile[page[d].data] \/ page[d].data = nameOf[c]
        BY <2>3, <4>2 DEF Written, SavedAs, TypeOK
      <4>5. page[d].data = nameOf[c] => header[d] = c
        BY <2>2, <4>1, <4>2 DEF NamesDiffer
      <4>6. dataFile'[page[d].data] \in {Nobody, header[d]}
        BY <4>1, <4>3, <4>4, <4>5
      <4>7. QED
        BY <2>1, <2>3, <3>1, <4>1, <4>6 DEF ReadsTwice
    <3>2. CASE pc'[d] \notin {"evidence", "mln", "grounded", "inferred"}
      BY <2>1, <2>2, <2>3, <3>2 DEF HeaderInv, ReadsTwice
    <3>3. QED
      BY <3>1, <3>2
  <2>6. \A d, e \in Client : SetsTwo(d, e)'
    <3>1. \A d \in Client : pc'[d] = "headerSet" <=> pc[d] = "headerSet"
      BY <2>1
    <3>2. QED
      BY <2>2, <2>3, <3>1 DEF HeaderInv, SetsTwo
  <2>7. QED
    BY <2>4, <2>5, <2>6 DEF HeaderInv
<1>5. ASSUME NEW c \in Client, Forward(c)
      PROVE  HeaderInv'
  <2>1. /\ pc[c] = "uploaded" /\ pc'[c] = "page" /\ UNCHANGED nameOf
        /\ \A d \in Client : d # c => pc'[d] = pc[d]
    BY <1>5, MoveFacts DEF Forward, Place
  <2>2. NamesDiffer /\ OwnFiles
    BY <2>1 DEF NamesDiffer, HeaderInv
  <2>3. OwnFiles'
    BY <1>5, <2>1, <2>2 DEF Forward, OwnFiles, files
  <2>4. \A d \in Client : ReadsTwice(d)'
    BY <1>5, <2>1, <2>2 DEF Forward, HeaderInv, ReadsTwice, TypeOK, files, endpoint
  <2>5. \A d, s \in Client : SetsTwo(d, s)'
    BY <1>5, <2>1, <2>2 DEF Forward, HeaderInv, SetsTwo, TypeOK, endpoint
  <2>6. QED
    BY <2>3, <2>4, <2>5 DEF HeaderInv
<1>6. ASSUME NEW c \in Client, ModifyHandshake(c)
      PROVE  HeaderInv'
  <2>1. /\ pc[c] = "page" /\ pc'[c] = "handshake" /\ UNCHANGED nameOf
        /\ \A d \in Client : d # c => pc'[d] = pc[d]
    BY <1>6, MoveFacts DEF ModifyHandshake, Place
  <2>2. NamesDiffer /\ OwnFiles
    BY <2>1 DEF NamesDiffer, HeaderInv
  <2>3. OwnFiles'
    BY <1>6, <2>1, <2>2 DEF ModifyHandshake, OwnFiles, files
  <2>4. \A d \in Client : ReadsTwice(d)'
    BY <1>6, <2>1, <2>2
    DEF ModifyHandshake, HeaderInv, ReadsTwice, TypeOK, files, endpoint
  <2>5. \A d, s \in Client : SetsTwo(d, s)'
    BY <1>6, <2>1, <2>2 DEF ModifyHandshake, HeaderInv, SetsTwo, TypeOK, endpoint
  <2>6. QED
    BY <2>3, <2>4, <2>5 DEF HeaderInv
<1>7. ASSUME NEW c \in Client, OnOpen(c)
      PROVE  HeaderInv'
  <2>1. /\ pc[c] = "handshake" /\ pc'[c] = "open" /\ UNCHANGED nameOf
        /\ \A d \in Client : d # c => pc'[d] = pc[d]
    BY <1>7, MoveFacts DEF OnOpen, Place
  <2>2. NamesDiffer /\ OwnFiles
    BY <2>1 DEF NamesDiffer, HeaderInv
  <2>3. OwnFiles'
    BY <1>7, <2>1, <2>2 DEF OnOpen, OwnFiles, files
  <2>4. \A d \in Client : ReadsTwice(d)'
    BY <1>7, <2>1, <2>2 DEF OnOpen, HeaderInv, ReadsTwice, TypeOK, files, endpoint
  <2>5. \A d, s \in Client : SetsTwo(d, s)'
    BY <1>7, <2>1, <2>2 DEF OnOpen, HeaderInv, SetsTwo, TypeOK, endpoint
  <2>6. QED
    BY <2>3, <2>4, <2>5 DEF HeaderInv
<1>8. ASSUME NEW c \in Client, LoadRules(c)
      PROVE  HeaderInv'
  <2>1. /\ pc[c] = "open" /\ pc'[c] = "rules" /\ UNCHANGED nameOf
        /\ \A d \in Client : d # c => pc'[d] = pc[d]
    BY <1>8, MoveFacts DEF LoadRules, Place
  <2>2. NamesDiffer /\ OwnFiles
    BY <2>1 DEF NamesDiffer, HeaderInv
  <2>3. OwnFiles'
    BY <1>8, <2>1, <2>2 DEF LoadRules, OwnFiles, files
  <2>4. \A d \in Client : ReadsTwice(d)'
    BY <1>8, <2>1, <2>2
    DEF LoadRules, ContentOf, HeaderInv, ReadsTwice, TypeOK, files, endpoint
  <2>5. \A d, s \in Client : SetsTwo(d, s)'
    BY <1>8, <2>1, <2>2 DEF LoadRules, HeaderInv, SetsTwo, TypeOK, endpoint
  <2>6. QED
    BY <2>3, <2>4, <2>5 DEF HeaderInv
<1>9. ASSUME NEW c \in Client, FormatEvidence(c)
      PROVE  HeaderInv'
  <2>1. /\ pc[c] = "rules" /\ pc'[c] = "evidence" /\ UNCHANGED nameOf
        /\ \A d \in Client : d # c => pc'[d] = pc[d]
    BY <1>9, MoveFacts DEF FormatEvidence, Place
  <2>2. NamesDiffer /\ OwnFiles
    BY <2>1 DEF NamesDiffer, HeaderInv
  <2>3. OwnFiles'
    BY <1>9, <2>1, <2>2 DEF FormatEvidence, OwnFiles, files
  <2>4. \A d \in Client : ReadsTwice(d)'
    <3>1. /\ page[c].data # Nobody /\ dataFile[page[c].data] # Nobody
          /\ header' = [header EXCEPT ![c] = dataFile[page[c].data]]
      BY <1>9 DEF FormatEvidence, ContentOf
    <3>2. page[c].data \in FileName
      BY <3>1 DEF TypeOK, URL
    <3>3. nameOf[dataFile[page[c].data]] = page[c].data
      BY <2>2, <3>1, <3>2 DEF OwnFiles
    <3>4. UNCHANGED <<dataFile, page, dataSet>>
      BY <1>9 DEF FormatEvidence, files
    <3>5. QED
      BY <2>1, <2>2, <3>1, <3>3, <3>4 DEF HeaderInv, ReadsTwice, TypeOK
  <2>5. \A d, s \in Client : SetsTwo(d, s)'
    BY <1>9, <2>1, <2>2 DEF FormatEvidence, HeaderInv, SetsTwo, TypeOK, endpoint
  <2>6. QED
    BY <2>3, <2>4, <2>5 DEF HeaderInv
<1>10. ASSUME NEW c \in Client, NoData(c)
      PROVE  HeaderInv'
  <2>1. /\ pc[c] = "rules" /\ pc'[c] = "idle" /\ UNCHANGED nameOf
        /\ \A d \in Client : d # c => pc'[d] = pc[d]
    BY <1>10, MoveFacts DEF NoData, Place
  <2>2. NamesDiffer /\ OwnFiles
    BY <2>1 DEF NamesDiffer, HeaderInv
  <2>3. OwnFiles'
    BY <1>10, <2>1, <2>2 DEF NoData, OwnFiles, files
  <2>4. \A d \in Client : ReadsTwice(d)'
    BY <1>10, <2>1, <2>2
    DEF NoData, Gone, HeaderInv, ReadsTwice, TypeOK, files, endpoint
  <2>5. \A d, s \in Client : SetsTwo(d, s)'
    BY <1>10, <2>1, <2>2 DEF NoData, Gone, HeaderInv, SetsTwo, TypeOK, endpoint
  <2>6. QED
    BY <2>3, <2>4, <2>5 DEF HeaderInv
<1>11. ASSUME NEW c \in Client, CreateMLN(c)
      PROVE  HeaderInv'
  <2>1. /\ pc[c] = "evidence" /\ pc'[c] = "mln" /\ UNCHANGED nameOf
        /\ \A d \in Client : d # c => pc'[d] = pc[d]
    BY <1>11, MoveFacts DEF CreateMLN, Place
  <2>2. NamesDiffer /\ OwnFiles
    BY <2>1 DEF NamesDiffer, HeaderInv
  <2>3. OwnFiles'
    BY <1>11, <2>1, <2>2 DEF CreateMLN, OwnFiles, files
  <2>4. \A d \in Client : ReadsTwice(d)'
    BY <1>11, <2>1, <2>2
    DEF CreateMLN, ContentOf, HeaderInv, ReadsTwice, TypeOK, files, endpoint
  <2>5. \A d, s \in Client : SetsTwo(d, s)'
    BY <1>11, <2>1, <2>2 DEF CreateMLN, HeaderInv, SetsTwo, TypeOK, endpoint
  <2>6. QED
    BY <2>3, <2>4, <2>5 DEF HeaderInv
<1>12. ASSUME NEW c \in Client, SetUp(c)
      PROVE  HeaderInv'
  <2>1. /\ pc[c] = "mln" /\ pc'[c] = "grounded" /\ UNCHANGED nameOf
        /\ \A d \in Client : d # c => pc'[d] = pc[d]
    BY <1>12, MoveFacts DEF SetUp, Place
  <2>2. NamesDiffer /\ OwnFiles
    BY <2>1 DEF NamesDiffer, HeaderInv
  <2>3. OwnFiles'
    BY <1>12, <2>1, <2>2 DEF SetUp, OwnFiles, files
  <2>4. \A d \in Client : ReadsTwice(d)'
    BY <1>12, <2>1, <2>2 DEF SetUp, HeaderInv, ReadsTwice, TypeOK, files, endpoint
  <2>5. \A d, s \in Client : SetsTwo(d, s)'
    BY <1>12, <2>1, <2>2 DEF SetUp, HeaderInv, SetsTwo, TypeOK, endpoint
  <2>6. QED
    BY <2>3, <2>4, <2>5 DEF HeaderInv
<1>13. ASSUME NEW c \in Client, EngineDies(c)
      PROVE  HeaderInv'
  <2>1. /\ pc[c] = "grounded" /\ pc'[c] = "dying" /\ UNCHANGED nameOf
        /\ \A d \in Client : d # c => pc'[d] = pc[d]
    BY <1>13, MoveFacts DEF EngineDies, Place
  <2>2. NamesDiffer /\ OwnFiles
    BY <2>1 DEF NamesDiffer, HeaderInv
  <2>3. OwnFiles'
    BY <1>13, <2>1, <2>2 DEF EngineDies, OwnFiles, files
  <2>4. \A d \in Client : ReadsTwice(d)'
    BY <1>13, <2>1, <2>2 DEF EngineDies, HeaderInv, ReadsTwice, TypeOK, files, endpoint
  <2>5. \A d, s \in Client : SetsTwo(d, s)'
    BY <1>13, <2>1, <2>2 DEF EngineDies, HeaderInv, SetsTwo, TypeOK, endpoint
  <2>6. QED
    BY <2>3, <2>4, <2>5 DEF HeaderInv
<1>14. ASSUME NEW c \in Client, Infer(c)
      PROVE  HeaderInv'
  <2>1. /\ pc[c] = "grounded" /\ pc'[c] = "inferred" /\ UNCHANGED nameOf
        /\ \A d \in Client : d # c => pc'[d] = pc[d]
    BY <1>14, MoveFacts DEF Infer, Place
  <2>2. NamesDiffer /\ OwnFiles
    BY <2>1 DEF NamesDiffer, HeaderInv
  <2>3. OwnFiles'
    BY <1>14, <2>1, <2>2 DEF Infer, OwnFiles, files
  <2>4. \A d \in Client : ReadsTwice(d)'
    BY <1>14, <2>1, <2>2 DEF Infer, HeaderInv, ReadsTwice, TypeOK, files, endpoint
  <2>5. \A d, s \in Client : SetsTwo(d, s)'
    BY <1>14, <2>1, <2>2 DEF Infer, HeaderInv, SetsTwo, TypeOK, endpoint
  <2>6. QED
    BY <2>3, <2>4, <2>5 DEF HeaderInv
<1>15. ASSUME NEW c \in Client, Clean(c)
      PROVE  HeaderInv'
  <2>1. /\ pc[c] = "inferred" /\ pc'[c] = "cleaned" /\ UNCHANGED nameOf
        /\ \A d \in Client : d # c => pc'[d] = pc[d]
    BY <1>15, MoveFacts DEF Clean, Place
  <2>2. NamesDiffer /\ OwnFiles
    BY <2>1 DEF NamesDiffer, HeaderInv
  <2>3. OwnFiles'
    BY <1>15, <2>1, <2>2 DEF Clean, OwnFiles, files
  <2>4. \A d \in Client : ReadsTwice(d)'
    BY <1>15, <2>1, <2>2
    DEF Clean, ContentOf, HeaderInv, ReadsTwice, TypeOK, files, endpoint
  <2>5. \A d, s \in Client : SetsTwo(d, s)'
    BY <1>15, <2>1, <2>2 DEF Clean, HeaderInv, SetsTwo, TypeOK, endpoint
  <2>6. QED
    BY <2>3, <2>4, <2>5 DEF HeaderInv
<1>16. ASSUME NEW c \in Client, WriteToFile(c)
      PROVE  HeaderInv'
  <2>1. /\ pc[c] = "cleaned" /\ pc'[c] = "finished" /\ UNCHANGED nameOf
        /\ \A d \in Client : d # c => pc'[d] = pc[d]
    BY <1>16, MoveFacts DEF WriteToFile, Place
  <2>2. NamesDiffer /\ OwnFiles
    BY <2>1 DEF NamesDiffer, HeaderInv
  <2>3. OwnFiles'
    BY <1>16, <2>1, <2>2 DEF WriteToFile, OwnFiles, files
  <2>4. \A d \in Client : ReadsTwice(d)'
    BY <1>16, <2>1, <2>2 DEF WriteToFile, HeaderInv, ReadsTwice, TypeOK, files, endpoint
  <2>5. \A d, s \in Client : SetsTwo(d, s)'
    BY <1>16, <2>1, <2>2 DEF WriteToFile, HeaderInv, SetsTwo, TypeOK, endpoint
  <2>6. QED
    BY <2>3, <2>4, <2>5 DEF HeaderInv
<1>17. ASSUME NEW c \in Client, SetHeader(c)
      PROVE  HeaderInv'
  <2>1. /\ pc[c] = "finished" /\ pc'[c] = "headerSet" /\ UNCHANGED nameOf
        /\ \A d \in Client : d # c => pc'[d] = pc[d]
    BY <1>17, MoveFacts DEF SetHeader, Place
  <2>2. NamesDiffer /\ OwnFiles
    BY <2>1 DEF NamesDiffer, HeaderInv
  <2>3. OwnFiles'
    BY <1>17, <2>1, <2>2 DEF SetHeader, OwnFiles, files
  <2>4. \A d \in Client : ReadsTwice(d)'
    BY <1>17, <2>1, <2>2 DEF SetHeader, HeaderInv, ReadsTwice, TypeOK, files, endpoint
  <2>5. \A d, s \in Client : SetsTwo(d, s)'
    <3> SUFFICES ASSUME NEW d \in Client, NEW s \in Client PROVE SetsTwo(d, s)'
      OBVIOUS
    <3>1. /\ SetsTwo(d, s) /\ ReadsTwice(c)
      BY <2>2 DEF HeaderInv
    <3>2. UNCHANGED <<httpSession, header, dataSet>>
      BY <1>17 DEF SetHeader, endpoint
    <3>3. CASE httpSession[c] # s
      <4>1. attributes'[s] = attributes[s] /\ setBy'[s] = setBy[s]
        BY <1>17, <3>3, SetFacts, ZenonT(30)
      <4>2. QED
        BY <2>1, <3>1, <3>2, <3>3, <4>1 DEF SetsTwo
    <3>4. CASE httpSession[c] = s
      <4>1. /\ attributes'[s].header = header[c]
            /\ attributes'[s].dataSet = attributes[s].dataSet
            /\ setBy'[s].header = c /\ setBy'[s].dataSet = setBy[s].dataSet
        BY <1>17, <3>4, HeaderIsSet
      <4>2. QED
        BY <2>1, <3>1, <3>2, <3>4, <4>1 DEF SetsTwo, ReadsTwice
    <3>5. QED
      BY <3>3, <3>4
  <2>6. QED
    BY <2>3, <2>4, <2>5 DEF HeaderInv
<1>18. ASSUME NEW c \in Client, SetDataSet(c)
      PROVE  HeaderInv'
  <2>1. /\ pc[c] = "headerSet" /\ pc'[c] = "stored" /\ UNCHANGED nameOf
        /\ \A d \in Client : d # c => pc'[d] = pc[d]
    BY <1>18, MoveFacts DEF SetDataSet, Place
  <2>2. NamesDiffer /\ OwnFiles
    BY <2>1 DEF NamesDiffer, HeaderInv
  <2>3. OwnFiles'
    BY <1>18, <2>1, <2>2 DEF SetDataSet, OwnFiles, files
  <2>4. \A d \in Client : ReadsTwice(d)'
    BY <1>18, <2>1, <2>2 DEF SetDataSet, HeaderInv, ReadsTwice, TypeOK, files, endpoint
  <2>5. \A d, s \in Client : SetsTwo(d, s)'
    <3> SUFFICES ASSUME NEW d \in Client, NEW s \in Client PROVE SetsTwo(d, s)'
      OBVIOUS
    <3>1. /\ SetsTwo(d, s) /\ ReadsTwice(c)
      BY <2>2 DEF HeaderInv
    <3>2. UNCHANGED <<httpSession, header, dataSet>>
      BY <1>18 DEF SetDataSet, endpoint
    <3>3. CASE httpSession[c] # s
      <4>1. attributes'[s] = attributes[s] /\ setBy'[s] = setBy[s]
        BY <1>18, <3>3, SetFacts, ZenonT(30)
      <4>2. QED
        BY <2>1, <3>1, <3>2, <3>3, <4>1 DEF SetsTwo
    <3>4. CASE httpSession[c] = s
      <4>1. /\ attributes'[s].dataSet = dataSet[c]
            /\ attributes'[s].header = attributes[s].header
            /\ setBy'[s].dataSet = c /\ setBy'[s].header = setBy[s].header
        BY <1>18, <3>4, DataSetIsSet
      <4>2. QED
        BY <2>1, <3>1, <3>2, <3>4, <4>1 DEF SetsTwo, ReadsTwice
    <3>5. QED
      BY <3>3, <3>4
  <2>6. QED
    BY <2>3, <2>4, <2>5 DEF HeaderInv
<1>19. ASSUME NEW c \in Client, Throws(c)
      PROVE  HeaderInv'
  <2>1. /\ pc[c] # "headerSet" /\ pc'[c] = "idle" /\ UNCHANGED nameOf
        /\ \A d \in Client : d # c => pc'[d] = pc[d]
    BY <1>19, ThrowsFacts, MoveFacts DEF Place
  <2>2. NamesDiffer /\ OwnFiles
    BY <2>1 DEF NamesDiffer, HeaderInv
  <2>3. OwnFiles'
    BY <1>19, <2>1, <2>2 DEF Throws, OwnFiles, files
  <2>4. \A d \in Client : ReadsTwice(d)'
    BY <1>19, <2>1, <2>2
    DEF Throws, Gone, HeaderInv, ReadsTwice, TypeOK, files, endpoint
  <2>5. \A d, s \in Client : SetsTwo(d, s)'
    <3>1. /\ UNCHANGED <<attributes, setBy>>
          /\ \A d \in Client :
               d # c => header'[d] = header[d] /\ httpSession'[d] = httpSession[d]
      BY <1>19 DEF Throws, Gone, TypeOK
    <3> SUFFICES ASSUME NEW d \in Client, NEW s \in Client PROVE SetsTwo(d, s)'
      OBVIOUS
    <3>2. SetsTwo(d, s)
      BY <2>2 DEF HeaderInv
    <3>3. CASE d = c
      BY <2>1, <3>1, <3>2, <3>3 DEF SetsTwo
    <3>4. CASE d # c
      BY <2>1, <3>1, <3>2, <3>4 DEF SetsTwo
    <3>5. QED
      BY <3>3, <3>4
  <2>6. QED
    BY <2>3, <2>4, <2>5 DEF HeaderInv
<1>20. ASSUME NEW c \in Client, Leave(c)
      PROVE  HeaderInv'
  <2>1. /\ pc[c] = "stored" /\ pc'[c] = "idle" /\ UNCHANGED nameOf
        /\ \A d \in Client : d # c => pc'[d] = pc[d]
    BY <1>20, MoveFacts DEF Leave, Place
  <2>2. NamesDiffer /\ OwnFiles
    BY <2>1 DEF NamesDiffer, HeaderInv
  <2>3. OwnFiles'
    BY <1>20, <2>1, <2>2 DEF Leave, OwnFiles, files
  <2>4. \A d \in Client : ReadsTwice(d)'
    BY <1>20, <2>1, <2>2 DEF Leave, Gone, HeaderInv, ReadsTwice, TypeOK, files, endpoint
  <2>5. \A d, s \in Client : SetsTwo(d, s)'
    BY <1>20, <2>1, <2>2 DEF Leave, Gone, HeaderInv, SetsTwo, TypeOK, endpoint
  <2>6. QED
    BY <2>3, <2>4, <2>5 DEF HeaderInv
<1>21. ASSUME NEW c \in Client, Exit(c)
      PROVE  HeaderInv'
  BY <1>21
  DEF Exit, clients, files, endpoint, HeaderInv, NamesDiffer, OwnFiles, ReadsTwice,
      SetsTwo
<1>22. CASE UNCHANGED vars
  BY <1>22
  DEF vars, clients, files, endpoint, HeaderInv, NamesDiffer, OwnFiles, ReadsTwice,
      SetsTwo
<1>23. QED
  BY <1>1, <1>2, <1>3, <1>4, <1>5, <1>6, <1>7, <1>8, <1>9, <1>10, <1>11, <1>12, <1>13,
     <1>14, <1>15, <1>16, <1>17, <1>18, <1>19, <1>20, <1>21, <1>22 DEF Next, Terminating

(* The data set is read twice with the inference in between, by a URL that  *)
(* may be another client's, and header and data set are set by two calls in *)
(* a session that others may hold.  Where both were one endpoint's calls    *)
(* they match, if no two clients use one file name.                        *)
THEOREM HeaderMatchesDataHolds == Spec => []HeaderMatchesData
<1>1. Init => HeaderInv
  <2> SUFFICES ASSUME Init PROVE HeaderInv
    OBVIOUS
  <2>1. OwnFiles /\ \A c \in Client : ReadsTwice(c)
    BY DEF Init, OwnFiles, ReadsTwice
  <2>2. \A c, s \in Client : SetsTwo(c, s)
    BY DEF Init, SetsTwo, NoResult
  <2>3. QED
    BY <2>1, <2>2 DEF HeaderInv
<1>2. HeaderInv => HeaderMatchesData
  BY DEF HeaderInv, SetsTwo, HeaderMatchesData, NamesDiffer
<1>3. QED
  BY <1>1, <1>2, HeaderInvStep, TypeCorrect, PTL DEF Spec

-----------------------------------------------------------------------------
LEMMA ErrorInvStep == TypeOK /\ ErrorInv /\ [Next]_vars => ErrorInv'
<1> SUFFICES ASSUME TypeOK, ErrorInv, [Next]_vars
             PROVE  ErrorInv'
  OBVIOUS
<1> USE CleanerServerAssumption
<1>1. ASSUME NEW c \in Client, Post(c)
      PROVE  ErrorInv'
  <2>1. /\ pc[c] = "idle" /\ pc'[c] = "parsing"
        /\ \A d \in Client : d # c => pc'[d] = pc[d]
    BY <1>1, MoveFacts DEF Post, Place
  <2>2. Excused => Excused'
    BY <2>1 DEF Excused
  <2>3. QED
    BY <1>1, <2>1, <2>2 DEF Post, ErrorInv, TypeOK, endpoint, engine, SinceCleaned
<1>2. ASSUME NEW c \in Client, StoreDataset(c)
      PROVE  ErrorInv'
  <2>1. /\ pc[c] = "parsing" /\ pc'[c] = "half"
        /\ \A d \in Client : d # c => pc'[d] = pc[d]
    BY <1>2, MoveFacts DEF StoreDataset, Place
  <2>2. Excused => Excused'
    BY <2>1 DEF Excused
  <2>3. QED
    BY <1>2, <2>1, <2>2
    DEF StoreDataset, ErrorInv, TypeOK, endpoint, engine, SinceCleaned
<1>3. ASSUME NEW c \in Client, StoreRules(c)
      PROVE  ErrorInv'
  <2>1. /\ pc[c] = "half" /\ pc'[c] = "uploaded"
        /\ \A d \in Client : d # c => pc'[d] = pc[d]
    BY <1>3, MoveFacts DEF StoreRules, Place
  <2>2. Excused => Excused'
    BY <2>1 DEF Excused
  <2>3. QED
    BY <1>3, <2>1, <2>2 DEF StoreRules, ErrorInv, TypeOK, endpoint, engine, SinceCleaned
<1>4. ASSUME NEW c \in Client, UploadFails(c)
      PROVE  ErrorInv'
  <2>1. /\ pc[c] \in {"parsing", "half"} /\ pc'[c] = "uploaded"
        /\ \A d \in Client : d # c => pc'[d] = pc[d]
    BY <1>4, MoveFacts DEF UploadFails, Place
  <2>2. Excused => Excused'
    BY <2>1 DEF Excused
  <2>3. QED
    BY <1>4, <2>1, <2>2
    DEF UploadFails, ErrorInv, TypeOK, endpoint, engine, SinceCleaned
<1>5. ASSUME NEW c \in Client, Forward(c)
      PROVE  ErrorInv'
  <2>1. /\ pc[c] = "uploaded" /\ pc'[c] = "page"
        /\ \A d \in Client : d # c => pc'[d] = pc[d]
    BY <1>5, MoveFacts DEF Forward, Place
  <2>2. Excused => Excused'
    BY <2>1 DEF Excused
  <2>3. QED
    BY <1>5, <2>1, <2>2 DEF Forward, ErrorInv, TypeOK, endpoint, engine, SinceCleaned
<1>6. ASSUME NEW c \in Client, ModifyHandshake(c)
      PROVE  ErrorInv'
  <2>1. /\ pc[c] = "page" /\ pc'[c] = "handshake"
        /\ \A d \in Client : d # c => pc'[d] = pc[d]
    BY <1>6, MoveFacts DEF ModifyHandshake, Place
  <2>2. Excused => Excused'
    BY <2>1 DEF Excused
  <2>3. QED
    BY <1>6, <2>1, <2>2
    DEF ModifyHandshake, ErrorInv, TypeOK, endpoint, engine, SinceCleaned
<1>7. ASSUME NEW c \in Client, OnOpen(c)
      PROVE  ErrorInv'
  <2>1. /\ pc[c] = "handshake" /\ pc'[c] = "open"
        /\ \A d \in Client : d # c => pc'[d] = pc[d]
    BY <1>7, MoveFacts DEF OnOpen, Place
  <2>2. Excused => Excused'
    BY <2>1 DEF Excused
  <2>3. QED
    BY <1>7, <2>1, <2>2 DEF OnOpen, ErrorInv, TypeOK, endpoint, engine, SinceCleaned
<1>8. ASSUME NEW c \in Client, LoadRules(c)
      PROVE  ErrorInv'
  <2>1. /\ pc[c] = "open" /\ pc'[c] = "rules"
        /\ \A d \in Client : d # c => pc'[d] = pc[d]
    BY <1>8, MoveFacts DEF LoadRules, Place
  <2>2. Excused => Excused'
    BY <2>1 DEF Excused
  <2>3. QED
    BY <1>8, <2>1, <2>2 DEF LoadRules, ErrorInv, TypeOK, endpoint, engine, SinceCleaned
<1>9. ASSUME NEW c \in Client, FormatEvidence(c)
      PROVE  ErrorInv'
  <2>1. /\ pc[c] = "rules" /\ pc'[c] = "evidence"
        /\ \A d \in Client : d # c => pc'[d] = pc[d]
    BY <1>9, MoveFacts DEF FormatEvidence, Place
  <2>2. Excused => Excused'
    BY <2>1 DEF Excused
  <2>3. QED
    BY <1>9, <2>1, <2>2
    DEF FormatEvidence, ErrorInv, TypeOK, endpoint, engine, SinceCleaned
<1>10. ASSUME NEW c \in Client, NoData(c)
      PROVE  ErrorInv'
  <2>1. /\ pc[c] = "rules" /\ pc'[c] = "idle"
        /\ \A d \in Client : d # c => pc'[d] = pc[d]
    BY <1>10, MoveFacts DEF NoData, Place
  <2>2. Excused => Excused'
    BY <2>1 DEF Excused
  <2>3. QED
    BY <1>10, <2>1, <2>2
    DEF NoData, Gone, ErrorInv, TypeOK, endpoint, engine, SinceCleaned
<1>11. ASSUME NEW c \in Client, CreateMLN(c)
      PROVE  ErrorInv'
  <2>1. /\ pc[c] = "evidence" /\ pc'[c] = "mln"
        /\ \A d \in Client : d # c => pc'[d] = pc[d]
    BY <1>11, MoveFacts DEF CreateMLN, Place
  <2>2. Excused => Excused'
    BY <2>1 DEF Excused
  <2>3. QED
    BY <1>11, <2>1, <2>2 DEF CreateMLN, ErrorInv, TypeOK, endpoint, engine, SinceCleaned
<1>12. ASSUME NEW c \in Client, SetUp(c)
      PROVE  ErrorInv'
  <2>1. /\ pc[c] = "mln" /\ pc'[c] = "grounded"
        /\ \A d \in Client : d # c => pc'[d] = pc[d]
    BY <1>12, MoveFacts DEF SetUp, Place
  <2>2. Excused => Excused'
    BY <2>1 DEF Excused
  <2>3. QED
    BY <1>12, <2>1, <2>2 DEF SetUp, ErrorInv, TypeOK, endpoint, engine, SinceCleaned
<1>13. ASSUME NEW c \in Client, EngineDies(c)
      PROVE  ErrorInv'
  <2>1. /\ pc[c] = "grounded" /\ pc'[c] = "dying"
        /\ \A d \in Client : d # c => pc'[d] = pc[d]
    BY <1>13, MoveFacts DEF EngineDies, Place
  <2>2. Excused'
    BY <2>1 DEF Excused
  <2>3. UNCHANGED <<probs, dataSet, engineRuns>>
    BY <1>13 DEF EngineDies, endpoint
  <2>4. QED
    BY <2>1, <2>2, <2>3 DEF ErrorInv, SinceCleaned
<1>14. ASSUME NEW c \in Client, Infer(c)
      PROVE  ErrorInv'
  <2>1. /\ pc[c] = "grounded" /\ pc'[c] = "inferred"
        /\ \A d \in Client : d # c => pc'[d] = pc[d]
    BY <1>14, MoveFacts DEF Infer, Place
  <2>2. Excused => Excused'
    BY <2>1 DEF Excused
  <2>3. engineRuns' \in {engineRuns, engineRuns + 1} /\ engineRuns \in Nat
    BY <1>14 DEF Infer, TypeOK
  <2>4. exiting_mode' => engineRuns' > 0 \/ Excused'
    BY <1>14, <2>2, <2>3 DEF Infer, ErrorInv
  <2>5. /\ \A d \in Client : d # c => probs'[d] = probs[d]
        /\ UNCHANGED dataSet
    BY <1>14 DEF Infer, TypeOK
  <2>6. ~ probs'[c].whole => engineRuns' > 1 \/ Excused'
    BY <1>14, <2>2, <2>3 DEF Infer, Dies, ErrorInv, TypeOK
  <2>7. QED
    BY <2>1, <2>2, <2>3, <2>4, <2>5, <2>6 DEF ErrorInv, SinceCleaned
<1>15. ASSUME NEW c \in Client, Clean(c)
      PROVE  ErrorInv'
  <2>1. /\ pc[c] = "inferred" /\ pc'[c] = "cleaned"
        /\ \A d \in Client : d # c => pc'[d] = pc[d]
    BY <1>15, MoveFacts DEF Clean, Place
  <2>2. Excused => Excused'
    BY <2>1 DEF Excused
  <2>3. QED
    BY <1>15, <2>1, <2>2 DEF Clean, ErrorInv, TypeOK, endpoint, engine, SinceCleaned
<1>16. ASSUME NEW c \in Client, WriteToFile(c)
      PROVE  ErrorInv'
  <2>1. /\ pc[c] = "cleaned" /\ pc'[c] = "finished"
        /\ \A d \in Client : d # c => pc'[d] = pc[d]
    BY <1>16, MoveFacts DEF WriteToFile, Place
  <2>2. Excused => Excused'
    BY <2>1 DEF Excused
  <2>3. QED
    BY <1>16, <2>1, <2>2
    DEF WriteToFile, ErrorInv, TypeOK, endpoint, engine, SinceCleaned
<1>17. ASSUME NEW c \in Client, SetHeader(c)
      PROVE  ErrorInv'
  <2>1. /\ pc[c] = "finished" /\ pc'[c] = "headerSet"
        /\ \A d \in Client : d # c => pc'[d] = pc[d]
    BY <1>17, MoveFacts DEF SetHeader, Place
  <2>2. Excused => Excused'
    BY <2>1 DEF Excused
  <2>3. QED
    BY <1>17, <2>1, <2>2 DEF SetHeader, ErrorInv, TypeOK, endpoint, engine, SinceCleaned
<1>18. ASSUME NEW c \in Client, SetDataSet(c)
      PROVE  ErrorInv'
  <2>1. /\ pc[c] = "headerSet" /\ pc'[c] = "stored"
        /\ \A d \in Client : d # c => pc'[d] = pc[d]
    BY <1>18, MoveFacts DEF SetDataSet, Place
  <2>2. Excused => Excused'
    BY <2>1 DEF Excused
  <2>3. QED
    BY <1>18, <2>1, <2>2
    DEF SetDataSet, ErrorInv, TypeOK, endpoint, engine, SinceCleaned
<1>19. ASSUME NEW c \in Client, Throws(c)
      PROVE  ErrorInv'
  <2>1. /\ pc[c] # "dying" /\ pc'[c] = "idle"
        /\ \A d \in Client : d # c => pc'[d] = pc[d]
    BY <1>19, ThrowsFacts, MoveFacts DEF Place
  <2>2. Excused => Excused'
    BY <2>1 DEF Excused
  <2>3. engineRuns' \in {engineRuns, engineRuns + 1} /\ engineRuns \in Nat
    BY <1>19, ThrowsFacts DEF Throws, TypeOK
  <2>4. exiting_mode' => engineRuns' > 0 \/ Excused'
    <3>1. CASE UNCHANGED <<exiting_mode, engineRuns>>
      BY <2>2, <3>1 DEF ErrorInv
    <3>2. CASE exiting_mode' = TRUE /\ engineRuns' = engineRuns + 1
      BY <2>3, <3>2
    <3>3. QED
      BY <1>19, <3>1, <3>2, ThrowsFacts
  <2>5. \A d \in Client : d # c => probs'[d] = probs[d] /\ dataSet'[d] = dataSet[d]
    BY <1>19 DEF Throws, Gone, TypeOK
  <2>6. QED
    BY <2>1, <2>2, <2>3, <2>4, <2>5 DEF ErrorInv, SinceCleaned
<1>20. ASSUME NEW c \in Client, Leave(c)
      PROVE  ErrorInv'
  <2>1. /\ pc[c] = "stored" /\ pc'[c] = "idle"
        /\ \A d \in Client : d # c => pc'[d] = pc[d]
    BY <1>20, MoveFacts DEF Leave, Place
  <2>2. Excused => Excused'
    BY <2>1 DEF Excused
  <2>3. QED
    BY <1>20, <2>1, <2>2
    DEF Leave, Gone, ErrorInv, TypeOK, endpoint, engine, SinceCleaned
<1>21. ASSUME NEW c \in Client, Exit(c)
      PROVE  ErrorInv'
  BY <1>21 DEF Exit, endpoint, engine, ErrorInv, Excused
<1>22. CASE UNCHANGED vars
  BY <1>22 DEF vars, endpoint, engine, ErrorInv, Excused
<1>23. QED
  BY <1>1, <1>2, <1>3, <1>4, <1>5, <1>6, <1>7, <1>8, <1>9, <1>10, <1>11, <1>12, <1>13,
     <1>14, <1>15, <1>16, <1>17, <1>18, <1>19, <1>20, <1>21, <1>22 DEF Next, Terminating

(* exiting_mode makes the engine swallow its errors, and it is set at the   *)
(* end of every run and at the beginning of a stop.  A result computed in   *)
(* spite of an error goes out only after another run, or while another      *)
(* engine is stopping the program.                                         *)
THEOREM ErrorsStopFreshServerHolds == Spec => []ErrorsStopFreshServer
<1>1. Init => ErrorInv
  BY DEF Init, ErrorInv, SinceCleaned
<1>2. ErrorInv => ErrorsStopFreshServer
  BY DEF ErrorInv, Excused, ErrorsStopFreshServer, SinceCleaned
<1>3. QED
  BY <1>1, <1>2, ErrorInvStep, TypeCorrect, PTL DEF Spec

-----------------------------------------------------------------------------
(* The discovery of rules.                                                 *)
(*                                                                         *)
(* Listings: the elements of a finite set in an order.                     *)

IsOrder(S, lt) ==
  /\ \A x \in S : <<x, x>> \notin lt
  /\ \A x, y \in S : x # y => <<x, y>> \in lt \/ <<y, x>> \in lt
  /\ \A x, y, z \in S : <<x, y>> \in lt /\ <<y, z>> \in lt => <<x, z>> \in lt

Lists(s, S, lt) ==
  /\ s \in Seq(S) /\ Len(s) = Cardinality(S) /\ Len(s) \in Nat /\ DOMAIN s = 1 .. Len(s)
  /\ \A i \in 1 .. Len(s) : s[i] \in S
  /\ \A x \in S : \E i \in 1 .. Len(s) : s[i] = x
  /\ \A i, j \in 1 .. Len(s) : i < j => <<s[i], s[j]>> \in lt
  /\ \A i, j \in 1 .. Len(s) : s[i] = s[j] => i = j

(* As many elements as are below the i-th in the order are before it.      *)
LEMMA InOrderLists ==
  ASSUME NEW S, IsFiniteSet(S), NEW lt, IsOrder(S, lt)
  PROVE  Lists(InOrder(S, lt), S, lt)
<1> DEFINE below(k) == {j \in S : <<j, k>> \in lt}
           spot == [k \in S |-> Cardinality(below(k))]
           c == Cardinality(S)
           s == InOrder(S, lt)
<1>1. c \in Nat
  BY FS_CardinalityType
<1>2. ASSUME NEW k \in S
      PROVE  /\ IsFiniteSet(below(k)) /\ IsFiniteSet(below(k) \cup {k})
             /\ Cardinality(below(k)) \in Nat
             /\ Cardinality(below(k) \cup {k}) = Cardinality(below(k)) + 1
             /\ Cardinality(below(k)) + 1 <= c
  <2>1. below(k) \in SUBSET S /\ k \notin below(k)
    BY DEF IsOrder
  <2>2. IsFiniteSet(below(k)) /\ Cardinality(below(k)) \in Nat
    BY <2>1, FS_Subset, FS_CardinalityType
  <2> HIDE DEF below
  <2>3. /\ IsFiniteSet(below(k) \cup {k})
        /\ Cardinality(below(k) \cup {k}) = Cardinality(below(k)) + 1
    BY <2>1, <2>2, FS_AddElement
  <2>4. below(k) \cup {k} \in SUBSET S
    BY <2>1
  <2>5. Cardinality(below(k) \cup {k}) <= Cardinality(S)
    BY <2>4, FS_Subset
  <2>6. QED
    BY <2>2, <2>3, <2>5
<1>3. ASSUME NEW j \in S, NEW k \in S, <<j, k>> \in lt
      PROVE  Cardinality(below(j)) < Cardinality(below(k))
  <2>1. below(j) \cup {j} \in SUBSET below(k)
    BY <1>3 DEF IsOrder
  <2>2. IsFiniteSet(below(k)) /\ Cardinality(below(k)) \in Nat
    BY <1>2
  <2>3. /\ Cardinality(below(j) \cup {j}) = Cardinality(below(j)) + 1
        /\ Cardinality(below(j)) \in Nat
    BY <1>2
  <2> HIDE DEF below
  <2>4. Cardinality(below(j) \cup {j}) <= Cardinality(below(k))
    BY <2>1, <2>2, FS_Subset
  <2>5. QED
    BY <2>2, <2>3, <2>4
<1>4. \A k \in S : spot[k] = Cardinality(below(k))
  OBVIOUS
<1>5. \A n \in 1 .. c : s[n] = CHOOSE k \in S : Cardinality(below(k)) = n - 1
  BY DEF InOrder
<1> HIDE DEF below
<1>6. /\ spot \in [S -> 0 .. (c - 1)]
      /\ \A j, k \in S : spot[j] = spot[k] => j = k
  <2>1. ASSUME NEW k \in S
        PROVE  Cardinality(below(k)) \in 0 .. (c - 1)
    <3>1. Cardinality(below(k)) \in Nat /\ Cardinality(below(k)) + 1 <= c
      BY <1>2
    <3>2. QED
      BY <1>1, <3>1
  <2>2. spot \in [S -> 0 .. (c - 1)]
    BY <2>1
  <2>3. ASSUME NEW j \in S, NEW k \in S, spot[j] = spot[k], j # k
        PROVE  FALSE
    <3>1. <<j, k>> \in lt \/ <<k, j>> \in lt
      BY <2>3 DEF IsOrder
    <3>2. Cardinality(below(j)) \in Nat /\ Cardinality(below(k)) \in Nat
      BY <1>2
    <3>3. QED
      BY <1>3, <1>4, <2>3, <3>1, <3>2
  <2>4. QED
    BY <2>2, <2>3
<1> HIDE DEF spot
<1>7. \A n \in 0 .. (c - 1) : \E k \in S : spot[k] = n
  <2> DEFINE T == 0 .. (c - 1)
  <2>1. IsFiniteSet(T) /\ Cardinality(T) = c
    <3>1. c - 1 \in Int /\ (0 > c - 1 => c = 0) /\ (c - 1) - 0 + 1 = c
      BY <1>1
    <3> DEFINE b == c - 1
    <3>2. IsFiniteSet(0 .. b) /\ Cardinality(0 .. b) = IF 0 > b THEN 0 ELSE b - 0 + 1
      BY <3>1, FS_Interval
    <3>3. QED
      BY <3>1, <3>2
  <2> HIDE DEF T
  <2>2. spot \in Injection(S, T)
    BY <1>6 DEF T, Injection, IsInjective
  <2>3. spot \in Surjection(S, T)
    BY <2>1, <2>2, FS_Injection
  <2>4. \A n \in T : \E k \in S : spot[k] = n
    BY <2>3 DEF Surjection
  <2>5. QED
    BY <2>4 DEF T
<1>8. ASSUME NEW n \in 1 .. c
      PROVE  s[n] \in S /\ spot[s[n]] = n - 1
  <2>1. n - 1 \in 0 .. (c - 1)
    BY <1>1
  <2>2. \E k \in S : Cardinality(below(k)) = n - 1
    BY <1>4, <1>7, <2>1
  <2>3. QED
    BY <1>4, <1>5, <2>2
<1>9. s \in Seq(S) /\ Len(s) = c /\ DOMAIN s = 1 .. c
  <2> DEFINE e(n) == CHOOSE x \in S : Cardinality({y \in S : <<y, x>> \in lt}) = n - 1
  <2>1. s = [n \in 1 .. c |-> e(n)]
    BY DEF InOrder
  <2> HIDE DEF e
  <2>2. s \in [1 .. c -> S]
    BY <1>8, <2>1
  <2> HIDE DEF s
  <2>3. QED
    BY <1>1, <2>2
<1> HIDE DEF s
<1>10. ASSUME NEW i \in 1 .. c, NEW j \in 1 .. c
       PROVE  /\ i < j => <<s[i], s[j]>> \in lt
              /\ s[i] = s[j] => i = j
  <2>1. i \in Int /\ j \in Int
    BY <1>1
  <2>2. spot[s[i]] = i - 1 /\ spot[s[j]] = j - 1 /\ s[i] \in S /\ s[j] \in S
    BY <1>8
  <2>3. ASSUME i < j
        PROVE  <<s[i], s[j]>> \in lt
    <3>1. s[i] # s[j]
      BY <2>1, <2>2, <2>3
    <3>2. CASE <<s[j], s[i]>> \in lt
      <4>1. spot[s[j]] < spot[s[i]]
        BY <1>3, <1>4, <2>2, <3>2
      <4>2. QED
        BY <2>1, <2>2, <2>3, <4>1
    <3>3. QED
      BY <2>2, <3>1, <3>2 DEF IsOrder
  <2>4. QED
    BY <2>1, <2>2, <2>3
<1>11. ASSUME NEW x \in S
       PROVE  \E i \in 1 .. c : s[i] = x
  <2>1. spot[x] \in 0 .. (c - 1)
    BY <1>6
  <2>2. PICK i \in 1 .. c : i - 1 = spot[x]
    <3>1. spot[x] + 1 \in 1 .. c /\ (spot[x] + 1) - 1 = spot[x]
      BY <1>1, <2>1
    <3>2. QED
      BY <3>1
  <2>3. QED
    BY <1>6, <1>8, <2>2
<1>12. \A i \in 1 .. c : s[i] \in S
  BY <1>8
<1>13. QED
  BY <1>1, <1>9, <1>10, <1>11, <1>12 DEF Lists, s

(* Before i come those that are less, for any two elements.                *)
LEMMA ListedBefore ==
  ASSUME NEW S, NEW lt, IsOrder(S, lt), NEW s, Lists(s, S, lt),
         NEW i \in 1 .. Len(s), NEW j \in 1 .. Len(s), <<s[i], s[j]>> \in lt
  PROVE  i < j
<1>1. i \in Int /\ j \in Int /\ s[i] \in S /\ s[j] \in S
  BY DEF Lists
<1>2. CASE j < i
  BY <1>1, <1>2 DEF Lists, IsOrder
<1>3. CASE i = j
  BY <1>1, <1>3 DEF IsOrder
<1>4. QED
  BY <1>1, <1>2, <1>3

(* Numbers upwards.                                                        *)
LEMMA UpwardsLists ==
  ASSUME NEW S \in SUBSET Int, IsFiniteSet(S)
  PROVE  /\ Upwards(S) \in Seq(S)
         /\ Len(Upwards(S)) = Cardinality(S) /\ Len(Upwards(S)) \in Nat
         /\ DOMAIN Upwards(S) = 1 .. Len(Upwards(S))
         /\ \A k \in DOMAIN Upwards(S) : Upwards(S)[k] \in S
         /\ \A x \in S : \E k \in DOMAIN Upwards(S) : Upwards(S)[k] = x
         /\ \A i, j \in DOMAIN Upwards(S) : i < j => Upwards(S)[i] < Upwards(S)[j]
         /\ \A i, j \in DOMAIN Upwards(S) : Upwards(S)[i] = Upwards(S)[j] => i = j
<1> DEFINE lt == {p \in S \X S : p[1] < p[2]}
<1>1. \A x, y \in S : <<x, y>> \in lt <=> x < y
  OBVIOUS
<1> HIDE DEF lt
<1>2. IsOrder(S, lt)
  <2>1. \A x, y, z \in S : x < y /\ y < z => x < z
    OBVIOUS
  <2>2. \A x, y \in S : x # y => x < y \/ y < x
    OBVIOUS
  <2>3. QED
    BY <1>1, <2>1, <2>2 DEF IsOrder
<1>3. Lists(InOrder(S, lt), S, lt)
  BY <1>2, InOrderLists
<1>4. Upwards(S) = InOrder(S, lt)
  BY DEF Upwards, lt
<1>5. QED
  BY <1>1, <1>3, <1>4 DEF Lists

(* What is kept of a sequence.                                             *)
LEMMA KeptLists ==
  ASSUME NEW D, NEW s \in Seq(D), NEW T
  PROVE  /\ Kept(s, T) \in Seq(D)
         /\ DOMAIN Kept(s, T) = 1 .. Len(Kept(s, T)) /\ Len(Kept(s, T)) \in Nat
         /\ \A k \in DOMAIN Kept(s, T) : Kept(s, T)[k] \in T
         /\ \A i, j \in DOMAIN Kept(s, T) : i < j =>
              \E m, n \in DOMAIN s : m < n /\ Kept(s, T)[i] = s[m] /\ Kept(s, T)[j] = s[n]
         /\ ToSet(Kept(s, T)) = {x \in ToSet(s) : x \in T}
<1> DEFINE S == {i \in DOMAIN s : s[i] \in T}
           u == Upwards(S)
<1>1. DOMAIN s = 1 .. Len(s) /\ Len(s) \in Nat
  OBVIOUS
<1>2. S \in SUBSET Int /\ S \in SUBSET (1 .. Len(s))
  BY <1>1
<1>3. IsFiniteSet(S)
  <2>1. IsFiniteSet(1 .. Len(s))
    BY <1>1, FS_Interval
  <2> HIDE DEF S
  <2>2. QED
    BY <1>2, <2>1, FS_Subset
<1> HIDE DEF S
<1>4. /\ DOMAIN u = 1 .. Len(u) /\ Len(u) \in Nat
      /\ \A k \in DOMAIN u : u[k] \in S
      /\ \A x \in S : \E k \in DOMAIN u : u[k] = x
      /\ \A i, j \in DOMAIN u : i < j => u[i] < u[j]
  BY <1>2, <1>3, UpwardsLists
<1>5. Kept(s, T) = [k \in DOMAIN u |-> s[u[k]]]
  BY DEF Kept, S
<1> HIDE DEF u
<1>6. /\ \A k \in DOMAIN u : Kept(s, T)[k] = s[u[k]] /\ s[u[k]] \in T /\ s[u[k]] \in D
      /\ DOMAIN Kept(s, T) = DOMAIN u
  BY <1>4, <1>5 DEF S
<1>7. Kept(s, T) \in Seq(D) /\ Len(Kept(s, T)) = Len(u)
  <2>1. Kept(s, T) \in [1 .. Len(u) -> D]
    BY <1>4, <1>5, <1>6
  <2>2. QED
    BY <1>4, <2>1
<1>8. ToSet(Kept(s, T)) = {x \in ToSet(s) : x \in T}
  <2>1. ASSUME NEW x \in ToSet(Kept(s, T))
        PROVE  x \in ToSet(s) /\ x \in T
    <3>1. PICK k \in DOMAIN u : x = s[u[k]]
      BY <1>6 DEF ToSet
    <3>2. u[k] \in DOMAIN s /\ x \in T
      BY <1>4, <1>6, <3>1 DEF S
    <3>3. QED
      BY <3>1, <3>2 DEF ToSet
  <2>2. ASSUME NEW x \in ToSet(s), x \in T
        PROVE  x \in ToSet(Kept(s, T))
    <3>1. PICK i \in DOMAIN s : x = s[i]
      BY DEF ToSet
    <3>2. i \in S
      BY <2>2, <3>1 DEF S
    <3>3. PICK k \in DOMAIN u : u[k] = i
      BY <1>4, <3>2
    <3>4. QED
      BY <1>6, <3>1, <3>3 DEF ToSet
  <2>3. QED
    BY <2>1, <2>2
<1>9. ASSUME NEW i \in DOMAIN u, NEW j \in DOMAIN u, i < j
      PROVE  \E m, n \in DOMAIN s : m < n /\ Kept(s, T)[i] = s[m] /\ Kept(s, T)[j] = s[n]
  BY <1>4, <1>6, <1>9 DEF S
<1>10. QED
  BY <1>4, <1>6, <1>7, <1>8, <1>9

(* The first and the last of some numbers.                                 *)
LEMMA LeastIs ==
  ASSUME NEW S \in SUBSET Nat, S # {}
  PROVE  Least(S) \in S /\ \A y \in S : Least(S) <= y
BY LeastNat DEF Least

LEMMA GreatestIs ==
  ASSUME NEW n \in Nat, NEW S \in SUBSET (1 .. n), S # {}
  PROVE  Greatest(S) \in S /\ \A y \in S : Greatest(S) >= y
<1> DEFINE R == {k \in 0 .. n : n - k \in S}
<1>1. R \in SUBSET Nat /\ R # {}
  <2>1. PICK x : x \in S
    OBVIOUS
  <2>2. n - x \in R
    BY <2>1
  <2>3. QED
    BY <2>2
<1>2. PICK m \in R : \A k \in R : m <= k
  <2> HIDE DEF R
  <2>1. QED
    BY <1>1, LeastNat
<1>3. n - m \in S /\ \A y \in S : n - m >= y
  <2>1. ASSUME NEW y \in S
        PROVE  n - m >= y
    <3>1. n - y \in 0 .. n /\ n - (n - y) = y
      OBVIOUS
    <3>2. m <= n - y
      BY <1>2, <3>1
    <3>3. QED
      BY <1>2, <3>2
  <2>2. QED
    BY <1>2, <2>1
<1>4. QED
  BY <1>3 DEF Greatest

-----------------------------------------------------------------------------
(* The table, its columns and the lattice.                                 *)

Table ==
  /\ IsFiniteSet(Row) /\ Row = 0 .. (Cardinality(Row) - 1)
  /\ IsFiniteSet(Attr) /\ Attr # {} /\ Attr = 1 .. Cardinality(Attr)
  /\ IsInjective(rank) /\ \A a \in Attr : rank[a] \in Int
  /\ \A r \in Row : data[r] \in [Attr -> Value]

TableInv == Table /\ searchLattice = getSearchLattice

LEMMA NodeIs == \A S : S \in Node <=> S \subseteq Attr /\ S # {}
BY DEF Node

LEMMA TableFacts ==
  ASSUME Table
  PROVE  /\ Cardinality(Attr) \in Nat /\ Attr \in SUBSET Nat /\ Attr \in SUBSET (1 .. Cardinality(Attr))
         /\ Row \in SUBSET Nat
         /\ \A S \in SUBSET Attr : IsFiniteSet(S) /\ Cardinality(S) \in Nat
         /\ \A R \in SUBSET Row : IsFiniteSet(R) /\ Cardinality(R) \in Nat
         /\ IsFiniteSet(Node)
<1>1. Cardinality(Attr) \in Nat /\ Cardinality(Row) \in Nat
  BY FS_CardinalityType DEF Table
<1>2. \A S \in SUBSET Attr : IsFiniteSet(S) /\ Cardinality(S) \in Nat
  BY FS_Subset, FS_CardinalityType DEF Table
<1>3. \A R \in SUBSET Row : IsFiniteSet(R) /\ Cardinality(R) \in Nat
  BY FS_Subset, FS_CardinalityType DEF Table
<1>4. IsFiniteSet(Node)
  <2>1. IsFiniteSet(SUBSET Attr)
    BY FS_SUBSET DEF Table
  <2>2. Node \in SUBSET (SUBSET Attr)
    BY DEF Node
  <2>3. QED
    BY <2>1, <2>2, FS_Subset
<1>5. Attr = 1 .. Cardinality(Attr) /\ Row = 0 .. (Cardinality(Row) - 1)
  BY DEF Table
<1>6. Attr \in SUBSET Nat /\ Row \in SUBSET Nat
  <2>1. \A n \in Nat : 1 .. n \in SUBSET Nat /\ 0 .. (n - 1) \in SUBSET Nat
    OBVIOUS
  <2>2. QED
    BY <1>1, <1>5, <2>1
<1>7. QED
  BY <1>1, <1>2, <1>3, <1>4, <1>5, <1>6

(* Of two sets of one size, that with the first element they do not share. *)
LEMMA DifferenceIs ==
  ASSUME Table, NEW S \in SUBSET Attr, NEW T \in SUBSET Attr, S # T
  PROVE  \E d \in Attr :
           /\ d = Least((S \ T) \cup (T \ S))
           /\ (d \in S /\ d \notin T) \/ (d \in T /\ d \notin S)
           /\ \A a \in Attr : a < d => (a \in S <=> a \in T)
<1> DEFINE D == (S \ T) \cup (T \ S)
<1>1. D # {} /\ D \in SUBSET Attr
  OBVIOUS
<1>2. D \in SUBSET Nat
  BY <1>1, TableFacts
<1>3. Least(D) \in D /\ \A y \in D : Least(D) <= y
  <2> HIDE DEF D
  <2>1. QED
    BY <1>1, <1>2, LeastIs
<1>4. ASSUME NEW a \in Attr, a < Least(D)
      PROVE  a \in S <=> a \in T
  <2>1. a \in Nat /\ Least(D) \in Nat
    BY <1>2, <1>3, TableFacts
  <2>2. a \notin D
    BY <1>3, <1>4, <2>1
  <2>3. QED
    BY <2>2
<1>5. QED
  BY <1>1, <1>3, <1>4

LatticeOrder == {p \in Node \X Node : Before(p[1], p[2])}

LEMMA BeforeIsOrder ==
  ASSUME Table
  PROVE  IsOrder(Node, LatticeOrder)
<1>1. \A S, T \in Node : <<S, T>> \in LatticeOrder <=> Before(S, T)
  BY DEF LatticeOrder
<1>2. \A S \in Node : S \in SUBSET Attr /\ Cardinality(S) \in Nat
  BY TableFacts DEF Node
<1>3. ASSUME NEW S \in Node
      PROVE  ~ Before(S, S)
  BY <1>2 DEF Before
<1>4. ASSUME NEW S \in Node, NEW T \in Node, S # T
      PROVE  Before(S, T) \/ Before(T, S)
  <2>1. CASE Cardinality(S) # Cardinality(T)
    BY <1>2, <2>1 DEF Before
  <2>2. CASE Cardinality(S) = Cardinality(T)
    <3>1. PICK d \in Attr : /\ d = Least((S \ T) \cup (T \ S))
                            /\ (d \in S /\ d \notin T) \/ (d \in T /\ d \notin S)
      BY <1>2, <1>4, DifferenceIs
    <3>2. (T \ S) \cup (S \ T) = (S \ T) \cup (T \ S)
      OBVIOUS
    <3>3. QED
      BY <1>4, <2>2, <3>1, <3>2 DEF Before
  <2>3. QED
    BY <2>1, <2>2
<1>5. ASSUME NEW S \in Node, NEW T \in Node, NEW U \in Node, Before(S, T), Before(T, U)
      PROVE  Before(S, U)
  <2>1. /\ Cardinality(S) \in Nat /\ Cardinality(T) \in Nat /\ Cardinality(U) \in Nat
        /\ S \in SUBSET Attr /\ T \in SUBSET Attr /\ U \in SUBSET Attr
    BY <1>2
  <2>2. /\ Cardinality(S) <= Cardinality(T) /\ Cardinality(T) <= Cardinality(U)
        /\ S # T /\ T # U
    BY <1>5, <2>1 DEF Before
  <2>3. CASE Cardinality(S) < Cardinality(T) \/ Cardinality(T) < Cardinality(U)
    BY <2>1, <2>2, <2>3 DEF Before
  <2>4. CASE Cardinality(S) = Cardinality(T) /\ Cardinality(T) = Cardinality(U)
    <3>1. PICK d \in Attr : /\ d = Least((S \ T) \cup (T \ S))
                            /\ (d \in S /\ d \notin T) \/ (d \in T /\ d \notin S)
                            /\ \A a \in Attr : a < d => (a \in S <=> a \in T)
      BY <2>1, <2>2, DifferenceIs
    <3>2. PICK e \in Attr : /\ e = Least((T \ U) \cup (U \ T))
                            /\ (e \in T /\ e \notin U) \/ (e \in U /\ e \notin T)
                            /\ \A a \in Attr : a < e => (a \in T <=> a \in U)
      BY <2>1, <2>2, DifferenceIs
    <3>3. d \in S /\ d \notin T
      BY <1>5, <2>1, <2>4, <3>1 DEF Before
    <3>4. e \in T /\ e \notin U
      BY <1>5, <2>1, <2>4, <3>2 DEF Before
    <3>5. d \in Nat /\ e \in Nat /\ d # e /\ \A a \in Attr : a \in Nat
      BY <3>3, <3>4, TableFacts
    <3>6. S # U
      BY <3>1, <3>2, <3>3, <3>4, <3>5
    <3>7. PICK f \in Attr : /\ f = Least((S \ U) \cup (U \ S))
                            /\ (f \in S /\ f \notin U) \/ (f \in U /\ f \notin S)
                            /\ \A a \in Attr : a < f => (a \in S <=> a \in U)
      BY <2>1, <3>6, DifferenceIs
    <3>8. f \in S
      <4>1. CASE d < e
        <5>1. d \in S /\ d \notin U
          BY <3>2, <3>3, <4>1
        <5>2. ~ d < f
          BY <3>7, <5>1
        <5>3. CASE f < d
          <6>1. f < e
            BY <3>5, <4>1, <5>3
          <6>2. QED
            BY <3>1, <3>2, <3>7, <5>3, <6>1
        <5>4. QED
          BY <3>5, <5>1, <5>2, <5>3
      <4>2. CASE e < d
        <5>1. e \in S /\ e \notin U
          BY <3>1, <3>4, <4>2
        <5>2. ~ e < f
          BY <3>7, <5>1
        <5>3. CASE f < e
          <6>1. f < d
            BY <3>5, <4>2, <5>3
          <6>2. QED
            BY <3>1, <3>2, <3>7, <5>3, <6>1
        <5>4. QED
          BY <3>5, <5>1, <5>2, <5>3
      <4>3. QED
        BY <3>5, <4>1, <4>2
    <3>9. QED
      BY <2>4, <3>6, <3>7, <3>8 DEF Before
  <2>5. QED
    BY <2>1, <2>2, <2>3, <2>4
<1>6. QED
  BY <1>1, <1>3, <1>4, <1>5 DEF IsOrder

(* The nodes are the non-empty sets of columns, smaller ones first.        *)
LEMMA LatticeIs ==
  ASSUME TableInv
  PROVE  /\ NNodes \in Nat /\ NNodes # 0
         /\ DOMAIN searchLattice = 1 .. NNodes
         /\ \A n \in 1 .. NNodes :
              /\ searchLattice[n] \in Node /\ searchLattice[n] \in SUBSET Attr
              /\ searchLattice[n] # {}
              /\ IsFiniteSet(searchLattice[n]) /\ Cardinality(searchLattice[n]) \in Nat
         /\ \A S \in Node : \E n \in 1 .. NNodes : searchLattice[n] = S
         /\ \A m, n \in 1 .. NNodes : searchLattice[m] = searchLattice[n] => m = n
         /\ \A m, n \in 1 .. NNodes :
              Cardinality(searchLattice[m]) < Cardinality(searchLattice[n]) => m < n
<1>1. Table /\ searchLattice = InOrder(Node, LatticeOrder)
  BY DEF TableInv, getSearchLattice, LatticeOrder
<1>2. IsOrder(Node, LatticeOrder) /\ IsFiniteSet(Node)
  BY <1>1, BeforeIsOrder, TableFacts
<1>3. Lists(searchLattice, Node, LatticeOrder)
  BY <1>1, <1>2, InOrderLists
<1>4. /\ NNodes \in Nat
      /\ DOMAIN searchLattice = 1 .. NNodes
      /\ \A n \in 1 .. NNodes : searchLattice[n] \in Node
      /\ \A S \in Node : \E n \in 1 .. NNodes : searchLattice[n] = S
      /\ \A m, n \in 1 .. NNodes : searchLattice[m] = searchLattice[n] => m = n
  BY <1>3 DEF Lists, NNodes
<1>5. ASSUME NEW n \in 1 .. NNodes
      PROVE  /\ searchLattice[n] \in SUBSET Attr /\ searchLattice[n] # {}
             /\ IsFiniteSet(searchLattice[n]) /\ Cardinality(searchLattice[n]) \in Nat
  <2>1. searchLattice[n] \in SUBSET Attr /\ searchLattice[n] # {}
    BY <1>4, NodeIs
  <2>2. QED
    BY <1>1, <2>1, TableFacts
<1>6. ASSUME NEW m \in 1 .. NNodes, NEW n \in 1 .. NNodes,
             Cardinality(searchLattice[m]) < Cardinality(searchLattice[n])
      PROVE  m < n
  <2>1. Before(searchLattice[m], searchLattice[n])
    BY <1>6 DEF Before
  <2>2. <<searchLattice[m], searchLattice[n]>> \in LatticeOrder
    BY <1>4, <2>1 DEF LatticeOrder
  <2>3. QED
    BY <1>2, <1>3, <2>2, ListedBefore DEF NNodes
<1>7. NNodes # 0
  <2>1. Attr \in Node
    BY <1>1, NodeIs DEF Table
  <2>2. QED
    BY <1>4, <2>1
<1>8. QED
  BY <1>4, <1>5, <1>6, <1>7

(* A set of numbers from 1 with all that are below one of it.              *)
LEMMA InitialSegment ==
  ASSUME NEW N \in Nat, NEW I \in SUBSET (1 .. N),
         \A i \in I, j \in 1 .. N : j < i => j \in I
  PROVE  Cardinality(I) \in Nat /\ I = 1 .. Cardinality(I)
<1>1. CASE I = {}
  <2>1. Cardinality(I) = 0
    BY <1>1, FS_EmptySet
  <2>2. QED
    BY <1>1, <2>1
<1>2. CASE I # {}
  <2> DEFINE m == Greatest(I)
  <2>1. m \in I /\ \A y \in I : m >= y
    BY <1>2, GreatestIs
  <2> HIDE DEF m
  <2>2. I = 1 .. m
    <3>1. m \in 1 .. N
      BY <2>1
    <3>2. ASSUME NEW j \in 1 .. m
          PROVE  j \in I
      <4>1. j \in 1 .. N /\ (j < m \/ j = m)
        BY <3>1
      <4>2. QED
        BY <2>1, <4>1
    <3>3. ASSUME NEW j \in I
          PROVE  j \in 1 .. m
      <4>1. j \in 1 .. N /\ m >= j
        BY <2>1
      <4>2. QED
        BY <3>1, <4>1
    <3>4. QED
      BY <3>2, <3>3
  <2>3. Cardinality(1 .. m) = m
    <3>1. m \in Int /\ m >= 1
      BY <2>1
    <3>2. QED
      BY <3>1, FS_Interval
  <2>4. m \in Nat
    BY <2>1
  <2>5. Cardinality(I) = m
    BY <2>2, <2>3
  <2>6. QED
    BY <2>2, <2>4, <2>5
<1>3. QED
  BY <1>1, <1>2

(* The nodes from the first of a level on have that many columns or more.  *)
LEMMA FirstOfLevelIs ==
  ASSUME TableInv, NEW k \in Nat, k # 0
  PROVE  /\ FirstOfLevel(k) \in Nat /\ FirstOfLevel(k) >= 1
         /\ \A n \in 1 .. NNodes :
              n >= FirstOfLevel(k) <=> Cardinality(searchLattice[n]) >= k
<1> DEFINE T == {S \in SUBSET Attr : Cardinality(S) \in 1 .. (k - 1)}
           I == {n \in 1 .. NNodes : Cardinality(searchLattice[n]) < k}
<1>1. Table
  BY DEF TableInv
<1>2. \A S \in SUBSET Attr : Cardinality(S) = 0 <=> S = {}
  BY <1>1, TableFacts, FS_EmptySet
<1>3. \A n \in 1 .. NNodes : /\ searchLattice[n] \in SUBSET Attr /\ searchLattice[n] # {}
                             /\ Cardinality(searchLattice[n]) \in Nat
  BY LatticeIs
<1>4. Cardinality(I) \in Nat /\ I = 1 .. Cardinality(I)
  <2>1. NNodes \in Nat /\ I \in SUBSET (1 .. NNodes)
    BY LatticeIs
  <2>2. ASSUME NEW i \in I, NEW j \in 1 .. NNodes, j < i
        PROVE  j \in I
    <3>1. i \in 1 .. NNodes /\ Cardinality(searchLattice[i]) < k
      OBVIOUS
    <3>2. ~ Cardinality(searchLattice[i]) < Cardinality(searchLattice[j])
      <4>1. i \in Int /\ j \in Int /\ ~ i < j
        BY <2>2, <3>1
      <4>2. QED
        BY <3>1, <4>1, LatticeIs
    <3>3. Cardinality(searchLattice[j]) < k
      BY <1>3, <3>1, <3>2
    <3>4. QED
      BY <3>3
  <2> HIDE DEF I
  <2>3. QED
    BY <2>1, <2>2, InitialSegment
<1>5. Cardinality(T) = Cardinality(I)
  <2> DEFINE f == [n \in I |-> searchLattice[n]]
  <2>1. \A n \in I : searchLattice[n] \in T
    BY <1>2, <1>3
  <2>2. \A S \in T : \E n \in I : searchLattice[n] = S
    <3>1. ASSUME NEW S \in T
          PROVE  \E n \in I : searchLattice[n] = S
      <4>1. S \in Node /\ Cardinality(S) < k
        <5>1. S \in SUBSET Attr /\ Cardinality(S) \in 1 .. (k - 1)
          OBVIOUS
        <5>2. S # {}
          BY <1>2, <5>1
        <5>3. Cardinality(S) < k
          BY <5>1
        <5>4. QED
          BY <5>1, <5>2, <5>3, NodeIs
      <4>2. PICK n \in 1 .. NNodes : searchLattice[n] = S
        BY <4>1, LatticeIs
      <4>3. QED
        BY <4>1, <4>2
    <3>2. QED
      BY <3>1
  <2>3. \A m, n \in I : searchLattice[m] = searchLattice[n] => m = n
    BY LatticeIs
  <2>4. IsFiniteSet(I)
    <3>1. NNodes \in Int /\ I \in SUBSET (1 .. NNodes)
      BY LatticeIs
    <3>2. IsFiniteSet(1 .. NNodes)
      BY <3>1, FS_Interval
    <3> HIDE DEF I
    <3>3. QED
      BY <3>1, <3>2, FS_Subset
  <2> HIDE DEF I, T
  <2>5. f \in Bijection(I, T)
    BY <2>1, <2>2, <2>3 DEF Bijection, Injection, Surjection, IsInjective
  <2>6. ExistsBijection(I, T)
    BY <2>5 DEF ExistsBijection
  <2>7. QED
    BY <2>4, <2>6, FS_Bijection
<1>6. FirstOfLevel(k) = 1 + Cardinality(I)
  BY <1>5 DEF FirstOfLevel
<1>7. ASSUME NEW n \in 1 .. NNodes
      PROVE  n >= FirstOfLevel(k) <=> Cardinality(searchLattice[n]) >= k
  <2>1. n \in I <=> Cardinality(searchLattice[n]) < k
    OBVIOUS
  <2> HIDE DEF I
  <2>2. n \in I <=> n <= Cardinality(I)
    BY <1>4
  <2>3. n \in Int /\ Cardinality(searchLattice[n]) \in Nat
    BY <1>3
  <2>4. QED
    BY <1>4, <1>6, <2>1, <2>2, <2>3
<1>8. QED
  <2> HIDE DEF I
  <2>1. QED
    BY <1>4, <1>6, <1>7

-----------------------------------------------------------------------------
(* Classes of rows.                                                        *)

ClassOf(r, S) == {t \in Row : Agree(r, t, S)}

Blocks(S) == {ClassOf(r, S) : r \in Row}

LEMMA BlockFacts ==
  ASSUME Table, NEW S
  PROVE  /\ IsFiniteSet(Blocks(S)) /\ Blocks(S) \in SUBSET (SUBSET Row)
         /\ \A C \in Blocks(S) : C # {} /\ Least(C) \in C /\ \A t \in C : Least(C) <= t
         /\ \A r \in Row : ClassOf(r, S) \in Blocks(S) /\ r \in ClassOf(r, S)
         /\ \A C \in Blocks(S) : \A r \in C : C = ClassOf(r, S)
<1>1. ASSUME NEW r \in Row
      PROVE  ClassOf(r, S) \in SUBSET Row /\ r \in ClassOf(r, S)
  BY DEF ClassOf, Agree
<1>2. ASSUME NEW r \in Row, NEW s \in ClassOf(r, S)
      PROVE  ClassOf(r, S) = ClassOf(s, S)
  BY DEF ClassOf, Agree
<1>3. Blocks(S) \in SUBSET (SUBSET Row)
  BY <1>1 DEF Blocks
<1>4. IsFiniteSet(Blocks(S))
  <2>1. IsFiniteSet(SUBSET Row)
    BY FS_SUBSET DEF Table
  <2>2. QED
    BY <1>3, <2>1, FS_Subset
<1>5. ASSUME NEW C \in Blocks(S)
      PROVE  C # {} /\ Least(C) \in C /\ \A t \in C : Least(C) <= t
  <2>1. C # {} /\ C \in SUBSET Row
    BY <1>1 DEF Blocks
  <2>2. C \in SUBSET Nat
    BY <2>1, TableFacts
  <2>3. QED
    BY <2>1, <2>2, LeastIs
<1>6. QED
  BY <1>1, <1>2, <1>3, <1>4, <1>5 DEF Blocks

(* Classes without a common row, in the order of their first rows.         *)
Apart(classes) ==
  /\ classes \in SUBSET (SUBSET Row)
  /\ \A C \in classes : C # {}
  /\ \A C, D \in classes : C # D => C \cap D = {}

LEMMA BlocksApart == ASSUME Table, NEW S PROVE Apart(Blocks(S))
<1>1. /\ Blocks(S) \in SUBSET (SUBSET Row) /\ \A C \in Blocks(S) : C # {}
      /\ \A C \in Blocks(S) : \A r \in C : C = ClassOf(r, S)
  BY BlockFacts
<1>2. QED
  BY <1>1 DEF Apart

LEMMA ByLeastLists ==
  ASSUME Table, NEW classes, Apart(classes)
  PROVE  /\ ByLeast(classes) \in Seq(classes)
         /\ Len(ByLeast(classes)) = Cardinality(classes) /\ Len(ByLeast(classes)) \in Nat
         /\ DOMAIN ByLeast(classes) = 1 .. Len(ByLeast(classes))
         /\ ToSet(ByLeast(classes)) = classes
         /\ \A i, j \in DOMAIN ByLeast(classes) :
              i < j => Least(ByLeast(classes)[i]) < Least(ByLeast(classes)[j])
         /\ \A i, j \in DOMAIN ByLeast(classes) :
              ByLeast(classes)[i] = ByLeast(classes)[j] => i = j
<1> DEFINE lt == {p \in classes \X classes : Least(p[1]) < Least(p[2])}
           s == ByLeast(classes)
<1>1. \A C, D \in classes : <<C, D>> \in lt <=> Least(C) < Least(D)
  OBVIOUS
<1> HIDE DEF lt
<1>2. ASSUME NEW C \in classes
      PROVE  Least(C) \in C /\ Least(C) \in Nat
  <2>1. C # {} /\ C \in SUBSET Row
    BY DEF Apart
  <2>2. C \in SUBSET Nat
    BY <2>1, TableFacts
  <2>3. QED
    BY <2>1, <2>2, LeastIs
<1>3. \A C, D \in classes : Least(C) = Least(D) => C = D
  BY <1>2 DEF Apart
<1>4. IsOrder(classes, lt)
  <2>1. \A C \in classes : ~ Least(C) < Least(C)
    BY <1>2
  <2>2. \A C, D \in classes : C # D => Least(C) < Least(D) \/ Least(D) < Least(C)
    <3>1. ASSUME NEW C \in classes, NEW D \in classes, C # D
          PROVE  Least(C) < Least(D) \/ Least(D) < Least(C)
      <4>1. Least(C) \in Nat /\ Least(D) \in Nat /\ Least(C) # Least(D)
        BY <1>2, <1>3, <3>1
      <4>2. QED
        BY <4>1
    <3>2. QED
      BY <3>1
  <2>3. \A C, D, E \in classes :
          Least(C) < Least(D) /\ Least(D) < Least(E) => Least(C) < Least(E)
    <3>1. ASSUME NEW C \in classes, NEW D \in classes, NEW E \in classes,
                 Least(C) < Least(D), Least(D) < Least(E)
          PROVE  Least(C) < Least(E)
      <4>1. Least(C) \in Nat /\ Least(D) \in Nat /\ Least(E) \in Nat
        BY <1>2
      <4>2. QED
        BY <3>1, <4>1
    <3>2. QED
      BY <3>1
  <2>4. QED
    BY <1>1, <2>1, <2>2, <2>3 DEF IsOrder
<1>5. IsFiniteSet(classes)
  <2>1. IsFiniteSet(SUBSET Row) /\ classes \in SUBSET (SUBSET Row)
    BY FS_SUBSET DEF Table, Apart
  <2>2. QED
    BY <2>1, FS_Subset
<1>6. s = InOrder(classes, lt)
  BY DEF ByLeast, lt
<1>7. Lists(s, classes, lt)
  BY <1>4, <1>5, <1>6, InOrderLists
<1> HIDE DEF s
<1>8. ToSet(s) = classes
  <2>1. \A i \in DOMAIN s : s[i] \in classes
    BY <1>7 DEF Lists
  <2>2. \A C \in classes : \E i \in DOMAIN s : s[i] = C
    BY <1>7 DEF Lists
  <2>3. QED
    BY <2>1, <2>2 DEF ToSet
<1>9. \A i, j \in DOMAIN s : i < j => Least(s[i]) < Least(s[j])
  BY <1>1, <1>7 DEF Lists
<1>10. QED
  BY <1>7, <1>8, <1>9 DEF Lists, s

(* A sequence of sequences as one sequence has the elements of all.        *)
IsFlatten(f, seqs) ==
  f = [i \in 1 .. Len(seqs) |-> IF i = 1 THEN seqs[i] ELSE f[i - 1] \o seqs[i]]

LEMMA FlattenExists ==
  ASSUME NEW D, NEW seqs \in Seq(Seq(D))
  PROVE  \E f : IsFlatten(f, seqs)
<1> DEFINE n == Len(seqs)
           g == [p \in (1 .. n) \X Seq(D) |-> p[2] \o seqs[p[1]]]
<1>1. n \in Nat /\ \A i \in 1 .. n : seqs[i] \in Seq(D)
  OBVIOUS
<1>2. <<>> \in Seq(D)
  OBVIOUS
<1>3. g \in [(1 .. n) \X Seq(D) -> Seq(D)]
  <2>1. ASSUME NEW p \in (1 .. n) \X Seq(D)
        PROVE  p[2] \o seqs[p[1]] \in Seq(D)
    <3>1. p[2] \in Seq(D) /\ seqs[p[1]] \in Seq(D)
      BY <1>1
    <3>2. QED
      BY <3>1
  <2>2. QED
    BY <2>1
<1>4. \A i \in 1 .. n, s \in Seq(D) : g[<<i, s>>] = s \o seqs[i]
  OBVIOUS
<1> DEFINE E == Seq(D)
<1> HIDE DEF n, g
<1>5. PICK h : Recurs(h, Seq(D), <<>>, n, g)
  <2>1. n \in Nat /\ <<>> \in E /\ g \in [(1 .. n) \X E -> E]
    BY <1>1, <1>2, <1>3
  <2> HIDE DEF E
  <2>2. \E h : Recurs(h, E, <<>>, n, g)
    BY <2>1, Recursion
  <2>3. QED
    BY <2>2 DEF E
<1>6. ASSUME NEW i \in 1 .. n
      PROVE  h[i] = (IF i = 1 THEN seqs[i] ELSE h[i - 1] \o seqs[i])
  <2>1. i - 1 \in 0 .. n
    BY <1>1
  <2>2. h[i - 1] \in Seq(D)
    BY <1>5, <2>1 DEF Recurs
  <2>3. h[i] = h[i - 1] \o seqs[i]
    BY <1>4, <1>5, <2>2 DEF Recurs
  <2>4. CASE i = 1
    <3>1. h[i - 1] = <<>> /\ seqs[i] \in Seq(D)
      BY <1>1, <1>5, <2>4 DEF Recurs
    <3>2. <<>> \o seqs[i] = seqs[i]
      BY <3>1
    <3>3. QED
      BY <2>3, <2>4, <3>1, <3>2
  <2>5. QED
    BY <2>3, <2>4
<1> DEFINE f == [i \in 1 .. n |-> h[i]]
<1>7. \A i \in 1 .. n : f[i] = IF i = 1 THEN seqs[i] ELSE f[i - 1] \o seqs[i]
  <2>1. ASSUME NEW i \in 1 .. n, i # 1
        PROVE  f[i - 1] = h[i - 1]
    <3>1. i - 1 \in 1 .. n
      BY <1>1, <2>1
    <3>2. QED
      BY <3>1
  <2>2. \A i \in 1 .. n : f[i] = h[i]
    OBVIOUS
  <2> HIDE DEF f
  <2>3. QED
    BY <1>6, <2>1, <2>2
<1>8. f = [i \in 1 .. n |-> f[i]]
  OBVIOUS
<1>9. IsFlatten(f, seqs)
  <2> HIDE DEF f
  <2>1. QED
    BY <1>7, <1>8 DEF IsFlatten, n
<1>10. QED
  BY <1>9

LEMMA FlattenHas ==
  ASSUME NEW D, NEW seqs \in Seq(Seq(D))
  PROVE  ToSet(FlattenSeq(seqs)) = UNION {ToSet(seqs[i]) : i \in DOMAIN seqs}
<1> DEFINE n == Len(seqs)
           f == CHOOSE g : IsFlatten(g, seqs)
<1>1. /\ n \in Nat /\ DOMAIN seqs = 1 .. n /\ \A i \in 1 .. n : seqs[i] \in Seq(D)
      /\ (n = 0 => seqs = <<>>)
  OBVIOUS
<1>2. FlattenSeq(seqs) = IF n = 0 THEN seqs ELSE f[n]
  BY DEF FlattenSeq, IsFlatten
<1>3. IsFlatten(f, seqs)
  <2>1. \E g : IsFlatten(g, seqs)
    BY FlattenExists
  <2>2. QED
    BY <2>1
<1> HIDE DEF f, n
<1>4. \A i \in 1 .. n : f[i] = IF i = 1 THEN seqs[i] ELSE f[i - 1] \o seqs[i]
  <2> DEFINE e == [i \in 1 .. n |-> IF i = 1 THEN seqs[i] ELSE f[i - 1] \o seqs[i]]
  <2>1. f = e
    BY <1>3 DEF IsFlatten, n
  <2>2. \A i \in 1 .. n : e[i] = IF i = 1 THEN seqs[i] ELSE f[i - 1] \o seqs[i]
    OBVIOUS
  <2> HIDE DEF e
  <2>3. QED
    BY <2>1, <2>2
<1> DEFINE Right(m) == /\ f[m] \in Seq(D)
                       /\ ToSet(f[m]) = UNION {ToSet(seqs[i]) : i \in 1 .. m}
           Bad == {m \in 1 .. n : ~ Right(m)}
<1>5. Bad = {}
  <2> SUFFICES ASSUME Bad # {}
               PROVE  FALSE
    OBVIOUS
  <2>1. PICK m \in Bad : \A l \in Bad : m <= l
    <3>1. Bad \in SUBSET Nat
      OBVIOUS
    <3> HIDE DEF Bad
    <3>2. QED
      BY <3>1, LeastNat
  <2>2. m \in 1 .. n /\ ~ Right(m)
    BY <2>1
  <2>3. CASE m = 1
    <3>1. f[1] = seqs[1] /\ seqs[1] \in Seq(D)
      BY <1>1, <1>4, <2>2, <2>3
    <3>2. 1 .. 1 = {1}
      OBVIOUS
    <3>3. UNION {ToSet(seqs[i]) : i \in {1}} = ToSet(seqs[1])
      OBVIOUS
    <3>4. QED
      BY <2>2, <2>3, <3>1, <3>2, <3>3
  <2>4. CASE m # 1
    <3>1. m - 1 \in 1 .. n /\ ~ m <= m - 1
      BY <1>1, <2>2, <2>4
    <3>2. Right(m - 1)
      BY <2>1, <3>1
    <3>3. f[m] = f[m - 1] \o seqs[m] /\ seqs[m] \in Seq(D)
      BY <1>1, <1>4, <2>2, <2>4
    <3>4. f[m] \in Seq(D)
      BY <3>2, <3>3
    <3>5. ToSet(f[m]) = ToSet(f[m - 1]) \cup ToSet(seqs[m])
      <4>1. ASSUME NEW s \in Seq(D), NEW t \in Seq(D)
            PROVE  ToSet(s \o t) = ToSet(s) \cup ToSet(t)
        <5>1. /\ DOMAIN s = 1 .. Len(s) /\ DOMAIN t = 1 .. Len(t)
              /\ DOMAIN (s \o t) = 1 .. (Len(s) + Len(t))
              /\ Len(s) \in Nat /\ Len(t) \in Nat
          OBVIOUS
        <5>2. /\ \A i \in 1 .. Len(s) : (s \o t)[i] = s[i]
              /\ \A i \in 1 .. Len(t) : (s \o t)[Len(s) + i] = t[i]
          OBVIOUS
        <5>3. \A x \in ToSet(s \o t) : x \in ToSet(s) \cup ToSet(t)
          <6>1. ASSUME NEW i \in 1 .. (Len(s) + Len(t))
                PROVE  (s \o t)[i] \in ToSet(s) \cup ToSet(t)
            <7>1. CASE i \in 1 .. Len(s)
              BY <5>1, <5>2, <7>1 DEF ToSet
            <7>2. CASE i \notin 1 .. Len(s)
              <8>1. i - Len(s) \in 1 .. Len(t) /\ Len(s) + (i - Len(s)) = i
                BY <5>1, <7>2
              <8>2. (s \o t)[i] = t[i - Len(s)]
                BY <5>2, <8>1
              <8>3. QED
                BY <5>1, <8>1, <8>2 DEF ToSet
            <7>3. QED
              BY <7>1, <7>2
          <6>2. QED
            BY <5>1, <6>1 DEF ToSet
        <5>4. \A x \in ToSet(s) : x \in ToSet(s \o t)
          <6>1. \A i \in 1 .. Len(s) : i \in 1 .. (Len(s) + Len(t))
            BY <5>1
          <6>2. QED
            BY <5>1, <5>2, <6>1 DEF ToSet
        <5>5. \A x \in ToSet(t) : x \in ToSet(s \o t)
          <6>1. \A i \in 1 .. Len(t) : Len(s) + i \in 1 .. (Len(s) + Len(t))
            BY <5>1
          <6>2. QED
            BY <5>1, <5>2, <6>1 DEF ToSet
        <5>6. QED
          BY <5>3, <5>4, <5>5
      <4>2. QED
        BY <3>2, <3>3, <4>1
    <3>6. 1 .. m = (1 .. (m - 1)) \cup {m}
      BY <2>2, <2>4
    <3> DEFINE has(i) == ToSet(seqs[i])
    <3> HIDE DEF has
    <3>7. UNION {has(i) : i \in (1 .. (m - 1)) \cup {m}} =
            (UNION {has(i) : i \in 1 .. (m - 1)}) \cup has(m)
      OBVIOUS
    <3>8. QED
      BY <2>2, <3>2, <3>4, <3>5, <3>6, <3>7 DEF has
  <2>5. QED
    BY <2>3, <2>4
<1>6. CASE n = 0
  <2>1. ToSet(FlattenSeq(seqs)) = {}
    BY <1>1, <1>2, <1>6 DEF ToSet
  <2>2. DOMAIN seqs = {}
    BY <1>1, <1>6
  <2>3. QED
    BY <2>1, <2>2
<1>7. CASE n # 0
  <2>1. n \in 1 .. n
    BY <1>1, <1>7
  <2>2. Right(n)
    <3> HIDE DEF Right
    <3>1. QED
      BY <1>5, <2>1
  <2>3. QED
    BY <1>1, <1>2, <1>7, <2>2
<1>8. QED
  BY <1>6, <1>7

(* The classes of the first nodes are those of the rows that agree on the  *)
(* columns, in the order of their first rows.                              *)
ClassesInv ==
  /\ clsSetList \in Seq(Seq(SUBSET Row)) /\ Len(clsSetList) <= NNodes
  /\ \A n \in 1 .. Len(clsSetList) : clsSetList[n] = ByLeast(Blocks(searchLattice[n]))

Parts(C, a) == {{r \in C : data[r][a] = data[s][a]} : s \in C}

LEMMA SplitIs ==
  ASSUME Table, NEW C \in SUBSET Row, NEW a
  PROVE  Split(C, a) \in Seq(SUBSET Row) /\ ToSet(Split(C, a)) = Parts(C, a)
<1>1. Apart(Parts(C, a))
  BY DEF Parts, Apart
<1>2. ByLeast(Parts(C, a)) \in Seq(Parts(C, a)) /\ ToSet(ByLeast(Parts(C, a))) = Parts(C, a)
  BY <1>1, ByLeastLists
<1>3. Split(C, a) = ByLeast(Parts(C, a))
  BY DEF Split, Parts
<1>4. Parts(C, a) \in SUBSET (SUBSET Row)
  BY DEF Parts
<1>5. QED
  <2> DEFINE P == Parts(C, a)
             s == ByLeast(P)
  <2>1. s \in Seq(P) /\ P \in SUBSET (SUBSET Row)
    BY <1>2, <1>4
  <2> HIDE DEF P, s
  <2>2. s \in Seq(SUBSET Row)
    BY <2>1
  <2>3. QED
    BY <1>2, <1>3, <2>2 DEF P, s

(* Splitting the classes by all columns but one by that one gives those by *)
(* all of them.                                                            *)
LEMMA BlocksSplit ==
  ASSUME Table, NEW S, NEW a \in S
  PROVE  /\ UNION {Parts(C, a) : C \in Blocks(S \ {a})} = Blocks(S)
         /\ S = {a} => Parts(Row, a) = Blocks(S)
<1>1. ASSUME NEW t \in Row, NEW s \in ClassOf(t, S \ {a})
      PROVE  {r \in ClassOf(t, S \ {a}) : data[r][a] = data[s][a]} = ClassOf(s, S)
  BY DEF ClassOf, Agree
<1>2. ASSUME NEW s \in Row
      PROVE  s \in ClassOf(s, S \ {a}) /\ ClassOf(s, S \ {a}) \in Blocks(S \ {a})
  BY BlockFacts
<1>3. ASSUME NEW C \in Blocks(S \ {a}), NEW p \in Parts(C, a)
      PROVE  p \in Blocks(S)
  <2>1. PICK s \in C : p = {r \in C : data[r][a] = data[s][a]}
    BY DEF Parts
  <2>2. PICK t \in Row : C = ClassOf(t, S \ {a})
    BY DEF Blocks
  <2>3. p = ClassOf(s, S) /\ s \in Row
    BY <1>1, <2>1, <2>2 DEF ClassOf
  <2>4. QED
    BY <2>3 DEF Blocks
<1>4. ASSUME NEW p \in Blocks(S)
      PROVE  \E C \in Blocks(S \ {a}) : p \in Parts(C, a)
  <2>1. PICK s \in Row : p = ClassOf(s, S)
    BY DEF Blocks
  <2>2. p = {r \in ClassOf(s, S \ {a}) : data[r][a] = data[s][a]}
    BY <1>1, <1>2, <2>1
  <2>3. QED
    BY <1>2, <2>2 DEF Parts
<1>5. UNION {Parts(C, a) : C \in Blocks(S \ {a})} = Blocks(S)
  BY <1>3, <1>4
<1>6. ASSUME S = {a}
      PROVE  Parts(Row, a) = Blocks(S)
  BY <1>6 DEF Parts, Blocks, ClassOf, Agree
<1>7. QED
  BY <1>5, <1>6

LEMMA ClassesAre ==
  ASSUME TableInv, ClassesInv, NEW n, n = Len(clsSetList) + 1, n \in 1 .. NNodes
  PROVE  ToSet(Classes(searchLattice[n])) = Blocks(searchLattice[n])
<1> DEFINE S == searchLattice[n]
           a == Greatest(S)
           k == CHOOSE m \in DOMAIN clsSetList : searchLattice[m] = S \ {a}
           before == IF S = {a} THEN <<Row>> ELSE clsSetList[k]
           parts == [i \in DOMAIN before |-> Split(before[i], a)]
           D == SUBSET Row
<1>1. Table
  BY DEF TableInv
<1>2. /\ S \in SUBSET Attr /\ S # {} /\ IsFiniteSet(S) /\ Cardinality(S) \in Nat
      /\ S \in SUBSET (1 .. Cardinality(Attr)) /\ Cardinality(Attr) \in Nat
  BY <1>1, LatticeIs, TableFacts
<1>3. a \in S
  <2> HIDE DEF S
  <2>1. QED
    BY <1>2, GreatestIs
<1>4. Classes(S) = FlattenSeq(parts)
  BY DEF Classes
<1> HIDE DEF S, a
<1>5. ASSUME S # {a}
      PROVE  /\ k \in DOMAIN clsSetList /\ clsSetList[k] \in Seq(D)
             /\ ToSet(clsSetList[k]) = Blocks(S \ {a})
  <2>1. S \ {a} \in Node
    BY <1>2, <1>3, <1>5, NodeIs
  <2>2. PICK m \in 1 .. NNodes : searchLattice[m] = S \ {a}
    BY <2>1, LatticeIs
  <2>3. Cardinality(S \ {a}) < Cardinality(S)
    <3>1. Cardinality(S \ {a}) = Cardinality(S) - 1
      BY <1>2, <1>3, FS_RemoveElement
    <3>2. QED
      BY <1>2, <3>1
  <2>4. m < n
    <3>1. Cardinality(searchLattice[m]) < Cardinality(searchLattice[n])
      BY <2>2, <2>3 DEF S
    <3>2. QED
      BY <3>1, LatticeIs
  <2>5. Len(clsSetList) \in Nat /\ DOMAIN clsSetList = 1 .. Len(clsSetList)
    BY DEF ClassesInv
  <2>6. m \in DOMAIN clsSetList
    BY <2>4, <2>5
  <2>7. k \in DOMAIN clsSetList /\ searchLattice[k] = S \ {a}
    BY <2>2, <2>6
  <2> HIDE DEF k
  <2>8. clsSetList[k] = ByLeast(Blocks(S \ {a})) /\ clsSetList[k] \in Seq(D)
    <3>1. clsSetList[k] = ByLeast(Blocks(searchLattice[k]))
      BY <2>5, <2>7 DEF ClassesInv
    <3>2. clsSetList \in Seq(Seq(D))
      BY DEF ClassesInv
    <3> HIDE DEF D
    <3>3. clsSetList[k] \in Seq(D)
      BY <2>7, <3>2
    <3>4. QED
      BY <2>7, <3>1, <3>3
  <2>9. ToSet(ByLeast(Blocks(S \ {a}))) = Blocks(S \ {a})
    BY <1>1, BlocksApart, ByLeastLists
  <2>10. QED
    BY <2>7, <2>8, <2>9
<1>6. before \in Seq(D)
  <2>1. CASE S = {a}
    <3>1. before = <<Row>> /\ Row \in D
      BY <2>1
    <3> HIDE DEF before, D
    <3>2. <<Row>> \in Seq(D)
      BY <3>1
    <3>3. QED
      BY <3>1, <3>2
  <2>2. CASE S # {a}
    BY <1>5, <2>2
  <2>3. QED
    BY <2>1, <2>2
<1>7. ToSet(before) = IF S = {a} THEN {Row} ELSE Blocks(S \ {a})
  <2>1. CASE S = {a}
    <3>1. before = <<Row>>
      BY <2>1
    <3>2. ToSet(<<Row>>) = {Row}
      BY DEF ToSet
    <3>3. QED
      BY <2>1, <3>1, <3>2
  <2>2. CASE S # {a}
    <3>1. before = clsSetList[k]
      BY <2>2
    <3>2. QED
      BY <1>5, <2>2, <3>1
  <2>3. QED
    BY <2>1, <2>2
<1> HIDE DEF before, D
<1>8. /\ DOMAIN parts = DOMAIN before
      /\ \A i \in DOMAIN before : /\ parts[i] \in Seq(D)
                                  /\ ToSet(parts[i]) = Parts(before[i], a)
  <2>1. \A i \in DOMAIN before : before[i] \in SUBSET Row
    BY <1>6 DEF D
  <2>2. QED
    BY <1>1, <2>1, SplitIs DEF D
<1>9. parts \in Seq(Seq(D))
  <2>1. Len(before) \in Nat /\ DOMAIN before = 1 .. Len(before)
    BY <1>6
  <2>2. parts \in [1 .. Len(before) -> Seq(D)]
    BY <1>8, <2>1
  <2>3. QED
    BY <2>1, <2>2
<1> HIDE DEF parts
<1>10. ToSet(Classes(S)) = UNION {Parts(C, a) : C \in ToSet(before)}
  <2>1. ToSet(Classes(S)) = UNION {ToSet(parts[i]) : i \in DOMAIN parts}
    BY <1>4, <1>9, FlattenHas
  <2>2. {ToSet(parts[i]) : i \in DOMAIN parts} = {Parts(C, a) : C \in ToSet(before)}
    <3>1. ToSet(before) = {before[i] : i \in DOMAIN before}
      BY DEF ToSet
    <3>2. {Parts(C, a) : C \in ToSet(before)} = {Parts(before[i], a) : i \in DOMAIN before}
      BY <3>1
    <3>3. {ToSet(parts[i]) : i \in DOMAIN parts} = {Parts(before[i], a) : i \in DOMAIN before}
      BY <1>8
    <3>4. QED
      BY <3>2, <3>3
  <2>3. QED
    BY <2>1, <2>2
<1>11. CASE S = {a}
  <2>1. {Parts(C, a) : C \in {Row}} = {Parts(Row, a)}
    OBVIOUS
  <2>2. ToSet(Classes(S)) = Parts(Row, a)
    BY <1>7, <1>10, <1>11, <2>1
  <2>3. QED
    BY <1>1, <1>3, <1>11, <2>2, BlocksSplit DEF S
<1>12. CASE S # {a}
  BY <1>1, <1>3, <1>7, <1>10, <1>12, BlocksSplit DEF S
<1>13. QED
  BY <1>11, <1>12

(* The classes of a node, once they are there.                             *)
LEMMA ClassSetIs ==
  ASSUME TableInv, ClassesInv, NEW n \in 1 .. Len(clsSetList)
  PROVE  /\ n \in 1 .. NNodes
         /\ clsSetList[n] \in Seq(SUBSET Row)
         /\ DOMAIN clsSetList[n] = 1 .. Len(clsSetList[n])
         /\ Len(clsSetList[n]) = Cardinality(Blocks(searchLattice[n]))
         /\ ToSet(clsSetList[n]) = Blocks(searchLattice[n])
         /\ \A i \in DOMAIN clsSetList[n] : clsSetList[n][i] \in Blocks(searchLattice[n])
         /\ \A i, j \in DOMAIN clsSetList[n] :
              i < j => Least(clsSetList[n][i]) < Least(clsSetList[n][j])
         /\ \A i, j \in DOMAIN clsSetList[n] : clsSetList[n][i] = clsSetList[n][j] => i = j
<1> DEFINE B == Blocks(searchLattice[n])
<1>1. Table /\ Apart(B)
  BY BlocksApart DEF TableInv
<1> HIDE DEF B
<1>2. clsSetList[n] = ByLeast(B) /\ clsSetList[n] \in Seq(SUBSET Row)
  BY DEF ClassesInv, B
<1>3. n \in 1 .. NNodes
  BY LatticeIs DEF ClassesInv
<1>4. /\ ByLeast(B) \in Seq(B)
      /\ Len(ByLeast(B)) = Cardinality(B) /\ DOMAIN ByLeast(B) = 1 .. Len(ByLeast(B))
      /\ ToSet(ByLeast(B)) = B
      /\ \A i, j \in DOMAIN ByLeast(B) : i < j => Least(ByLeast(B)[i]) < Least(ByLeast(B)[j])
      /\ \A i, j \in DOMAIN ByLeast(B) : ByLeast(B)[i] = ByLeast(B)[j] => i = j
  BY <1>1, ByLeastLists
<1>5. \A i \in DOMAIN ByLeast(B) : ByLeast(B)[i] \in B
  BY <1>4
<1>6. QED
  BY <1>2, <1>3, <1>4, <1>5 DEF B

-----------------------------------------------------------------------------
(* Arrays of names and their comparison.                                   *)

LEMMA NamesAre ==
  ASSUME TableInv, NEW n \in 1 .. NNodes, NEW sorted
  PROVE  /\ DOMAIN Names(n, sorted) = 1 .. Len(Names(n, sorted))
         /\ Len(Names(n, sorted)) = Cardinality(searchLattice[n])
         /\ Len(Names(n, sorted)) \in Nat
         /\ \A i \in DOMAIN Names(n, sorted) : Names(n, sorted)[i] \in searchLattice[n]
         /\ \A a \in searchLattice[n] : \E i \in DOMAIN Names(n, sorted) : Names(n, sorted)[i] = a
         /\ HeaderSorted => \A i, j \in DOMAIN Names(n, sorted) :
                              i < j => Names(n, sorted)[i] < Names(n, sorted)[j]
<1> DEFINE lt == {p \in Attr \X Attr : IF n \in sorted THEN rank[p[1]] < rank[p[2]] ELSE p[1] < p[2]}
           S == searchLattice[n]
           s == Names(n, sorted)
<1>1. Table /\ S \in SUBSET Attr /\ IsFiniteSet(S)
  BY LatticeIs DEF TableInv
<1>2. Attr \in SUBSET Nat /\ \A a, b \in Attr : rank[a] = rank[b] => a = b
  <2>1. IsInjective(rank) /\ Attr = DOMAIN rank
    BY <1>1 DEF Table, Attr
  <2>2. QED
    BY <1>1, <2>1, TableFacts DEF IsInjective
<1>3. \A a \in Attr : rank[a] \in Int /\ a \in Nat
  BY <1>1, <1>2 DEF Table
<1>4. \A a, b \in Attr : <<a, b>> \in lt <=> IF n \in sorted THEN rank[a] < rank[b] ELSE a < b
  OBVIOUS
<1> HIDE DEF lt
<1>5. s = InOrder(S, lt)
  BY DEF Names, lt
<1> HIDE DEF S, s
<1>6. IsOrder(S, lt)
  <2>1. \A a \in S : <<a, a>> \notin lt
    BY <1>1, <1>3, <1>4
  <2>2. \A a, b \in S : a # b => <<a, b>> \in lt \/ <<b, a>> \in lt
    <3>1. ASSUME NEW a \in S, NEW b \in S, a # b
          PROVE  <<a, b>> \in lt \/ <<b, a>> \in lt
      <4>1. a \in Attr /\ b \in Attr /\ rank[a] # rank[b]
        BY <1>1, <1>2, <3>1
      <4>2. (rank[a] < rank[b] \/ rank[b] < rank[a]) /\ (a < b \/ b < a)
        BY <1>3, <3>1, <4>1
      <4>3. QED
        BY <1>4, <4>1, <4>2
    <3>2. QED
      BY <3>1
  <2>3. \A a, b, c \in S : <<a, b>> \in lt /\ <<b, c>> \in lt => <<a, c>> \in lt
    <3>1. ASSUME NEW a \in S, NEW b \in S, NEW c \in S, <<a, b>> \in lt, <<b, c>> \in lt
          PROVE  <<a, c>> \in lt
      <4>1. /\ a \in Attr /\ b \in Attr /\ c \in Attr
            /\ rank[a] \in Int /\ rank[b] \in Int /\ rank[c] \in Int
            /\ a \in Nat /\ b \in Nat /\ c \in Nat
        BY <1>1, <1>3
      <4>2. QED
        BY <1>4, <3>1, <4>1
    <3>2. QED
      BY <3>1
  <2>4. QED
    BY <2>1, <2>2, <2>3 DEF IsOrder
<1>7. Lists(s, S, lt)
  BY <1>1, <1>5, <1>6, InOrderLists
<1>8. ASSUME HeaderSorted, NEW a \in S, NEW b \in S, <<a, b>> \in lt
      PROVE  a < b
  <2>1. a \in Attr /\ b \in Attr /\ a \in Nat /\ b \in Nat /\ rank[a] \in Int /\ rank[b] \in Int
    BY <1>1, <1>3
  <2>2. CASE ~ a < b
    <3>1. a = b \/ rank[b] < rank[a]
      BY <1>8, <2>1, <2>2 DEF HeaderSorted
    <3>2. QED
      BY <1>4, <1>8, <2>1, <2>2, <3>1
  <2>3. QED
    BY <2>2
<1> HIDE DEF s, S, lt
<1>9. HeaderSorted => \A i, j \in DOMAIN s : i < j => s[i] < s[j]
  <2>1. \A i \in DOMAIN s : s[i] \in S
    BY <1>7 DEF Lists
  <2>2. \A i, j \in DOMAIN s : i < j => <<s[i], s[j]>> \in lt
    BY <1>7 DEF Lists
  <2>3. QED
    BY <1>8, <2>1, <2>2
<1>10. QED
  BY <1>7, <1>9 DEF Lists, s, S

LEMMA SubsumedSound ==
  ASSUME TableInv, NEW m \in 1 .. NNodes, NEW n \in 1 .. NNodes, NEW sorted,
         ifSubsumed(Names(m, sorted), Names(n, sorted))
  PROVE  searchLattice[n] \subseteq searchLattice[m]
<1> DEFINE a == Names(m, sorted)
           b == Names(n, sorted)
<1>1. PICK spot \in [DOMAIN b -> DOMAIN a] : \A i \in DOMAIN b : a[spot[i]] = b[i]
  BY DEF ifSubsumed
<1>2. /\ \A j \in DOMAIN a : a[j] \in searchLattice[m]
      /\ \A c \in searchLattice[n] : \E i \in DOMAIN b : b[i] = c
  BY NamesAre
<1>3. QED
  BY <1>1, <1>2

LEMMA SubsumedComplete ==
  ASSUME TableInv, HeaderSorted, NEW m \in 1 .. NNodes, NEW n \in 1 .. NNodes, NEW sorted,
         searchLattice[n] \subseteq searchLattice[m]
  PROVE  ifSubsumed(Names(m, sorted), Names(n, sorted))
<1> DEFINE a == Names(m, sorted)
           b == Names(n, sorted)
<1>1. /\ DOMAIN a = 1 .. Len(a) /\ Len(a) = Cardinality(searchLattice[m]) /\ Len(a) \in Nat
      /\ \A i \in DOMAIN a : a[i] \in searchLattice[m]
      /\ \A c \in searchLattice[m] : \E i \in DOMAIN a : a[i] = c
      /\ \A i, j \in DOMAIN a : i < j => a[i] < a[j]
  <2>1. DOMAIN a = 1 .. Len(a) /\ Len(a) = Cardinality(searchLattice[m]) /\ Len(a) \in Nat
    BY NamesAre
  <2>2. /\ \A i \in DOMAIN a : a[i] \in searchLattice[m]
        /\ \A c \in searchLattice[m] : \E i \in DOMAIN a : a[i] = c
    BY NamesAre
  <2>3. \A i, j \in DOMAIN a : i < j => a[i] < a[j]
    BY NamesAre
  <2>4. QED
    BY <2>1, <2>2, <2>3
<1>2. /\ DOMAIN b = 1 .. Len(b) /\ Len(b) = Cardinality(searchLattice[n]) /\ Len(b) \in Nat
      /\ \A i \in DOMAIN b : b[i] \in searchLattice[n]
      /\ \A i, j \in DOMAIN b : i < j => b[i] < b[j]
  BY NamesAre
<1>3. \A c \in searchLattice[m] : c \in Attr /\ c \in Nat
  BY LatticeIs, TableFacts DEF TableInv
<1>4. Len(a) >= Len(b)
  <2>1. IsFiniteSet(searchLattice[m]) /\ searchLattice[n] \in SUBSET searchLattice[m]
    BY LatticeIs
  <2>2. Cardinality(searchLattice[n]) <= Cardinality(searchLattice[m])
    BY <2>1, FS_Subset
  <2>3. QED
    BY <1>1, <1>2, <2>2
<1> HIDE DEF a, b
<1> DEFINE spot == [i \in DOMAIN b |-> CHOOSE j \in DOMAIN a : a[j] = b[i]]
<1>5. \A i \in DOMAIN b : spot[i] \in DOMAIN a /\ a[spot[i]] = b[i]
  <2>1. \A i \in DOMAIN b : \E j \in DOMAIN a : a[j] = b[i]
    BY <1>1, <1>2
  <2>2. QED
    BY <2>1
<1>6. spot \in [DOMAIN b -> DOMAIN a]
  BY <1>5
<1> HIDE DEF spot
<1>7. ASSUME NEW i \in DOMAIN b
      PROVE  LET passed == IF i = 1 THEN 0 ELSE spot[i - 1]
             IN  /\ passed < spot[i] /\ a[spot[i]] = b[i]
                 /\ \A j \in (passed + 1) .. (spot[i] - 1) : rank[a[j]] < rank[b[i]]
  <2> DEFINE passed == IF i = 1 THEN 0 ELSE spot[i - 1]
  <2>1. spot[i] \in 1 .. Len(a) /\ a[spot[i]] = b[i]
    BY <1>1, <1>5
  <2>2. passed \in 0 .. Len(a) /\ passed < spot[i]
    <3>1. CASE i = 1
      BY <1>1, <2>1, <3>1
    <3>2. CASE i # 1
      <4>1. i - 1 \in DOMAIN b /\ i - 1 < i
        BY <1>2, <3>2
      <4>2. passed \in 1 .. Len(a) /\ a[passed] = b[i - 1] /\ b[i - 1] < b[i]
        BY <1>1, <1>2, <1>5, <3>2, <4>1
      <4>3. a[passed] < a[spot[i]]
        BY <2>1, <4>2
      <4>4. ~ spot[i] < passed /\ spot[i] # passed
        <5>1. a[passed] \in Nat /\ a[spot[i]] \in Nat
          BY <1>1, <1>3, <2>1, <4>2
        <5> HIDE DEF passed
        <5>2. spot[i] < passed => a[spot[i]] < a[passed]
          BY <1>1, <2>1, <4>2
        <5>3. QED
          BY <4>3, <5>1, <5>2
      <4>5. QED
        <5> HIDE DEF passed
        <5>1. QED
          BY <1>1, <2>1, <4>2, <4>4
    <3>3. QED
      BY <3>1, <3>2
  <2> HIDE DEF passed
  <2>3. ASSUME NEW j \in (passed + 1) .. (spot[i] - 1)
        PROVE  rank[a[j]] < rank[b[i]]
    <3>1. j \in DOMAIN a /\ spot[i] \in DOMAIN a /\ j < spot[i]
      BY <1>1, <2>1, <2>2
    <3>2. a[j] < b[i] /\ a[j] \in Attr /\ b[i] \in Attr
      BY <1>1, <1>3, <2>1, <3>1
    <3>3. QED
      BY <3>2 DEF HeaderSorted
  <2>4. QED
    BY <2>1, <2>2, <2>3 DEF passed
<1>8. QED
  BY <1>4, <1>6, <1>7 DEF ifSubsumed, a, b

-----------------------------------------------------------------------------
(* Dependencies.                                                           *)

LEMMA MoreDetermine ==
  ASSUME NEW S, NEW X \in SUBSET S, NEW a, NEW rows, Determines(X, a, rows)
  PROVE  Determines(S, a, rows)
BY DEF Determines, Agree

(* Another column splits no class if, and only if, it depends on the rest. *)
LEMMA SameCount ==
  ASSUME Table, NEW S, NEW a
  PROVE  Cardinality(Blocks(S)) = Cardinality(Blocks(S \cup {a})) <=> Determines(S, a, Row)
<1> DEFINE T == S \cup {a}
<1>1. ASSUME Determines(S, a, Row)
      PROVE  Blocks(S) = Blocks(T)
  <2>1. ASSUME NEW r \in Row
        PROVE  ClassOf(r, S) = ClassOf(r, T)
    BY <1>1 DEF Determines, ClassOf, Agree
  <2>2. QED
    BY <2>1 DEF Blocks
<1>2. ASSUME Cardinality(Blocks(S)) = Cardinality(Blocks(T))
      PROVE  Determines(S, a, Row)
  <2> DEFINE f == [C \in Blocks(T) |-> ClassOf(Least(C), S)]
  <2>1. /\ IsFiniteSet(Blocks(T))
        /\ \A C \in Blocks(T) : Least(C) \in C /\ Least(C) \in Row
        /\ \A r \in Row : ClassOf(r, T) \in Blocks(T) /\ r \in ClassOf(r, T)
    BY BlockFacts
  <2>2. \A r \in Row : ClassOf(r, S) \in Blocks(S)
    BY BlockFacts
  <2>3. ASSUME NEW r \in Row
        PROVE  f[ClassOf(r, T)] = ClassOf(r, S)
    <3>1. Least(ClassOf(r, T)) \in ClassOf(r, T)
      BY <2>1
    <3>2. Least(ClassOf(r, T)) \in Row /\ Agree(r, Least(ClassOf(r, T)), S)
      BY <3>1 DEF ClassOf, Agree
    <3>3. ClassOf(Least(ClassOf(r, T)), S) = ClassOf(r, S)
      BY <3>2 DEF ClassOf, Agree
    <3>4. QED
      BY <2>1, <3>3
  <2>4. f \in [Blocks(T) -> Blocks(S)]
    BY <2>1, <2>2
  <2>5. \A D \in Blocks(S) : \E C \in Blocks(T) : f[C] = D
    <3>1. ASSUME NEW D \in Blocks(S)
          PROVE  \E C \in Blocks(T) : f[C] = D
      <4>1. PICK r \in Row : D = ClassOf(r, S)
        BY DEF Blocks
      <4>2. QED
        BY <2>1, <2>3, <4>1
    <3>2. QED
      BY <3>1
  <2> HIDE DEF f, T
  <2>6. f \in Surjection(Blocks(T), Blocks(S))
    BY <2>4, <2>5 DEF Surjection
  <2>7. f \in Injection(Blocks(T), Blocks(S))
    BY <1>2, <2>1, <2>6, FS_SurjSameCardinalityImpliesInj
  <2>8. ASSUME NEW r \in Row, NEW s \in Row, Agree(r, s, S)
        PROVE  data[r][a] = data[s][a]
    <3>1. ClassOf(r, S) = ClassOf(s, S)
      BY <2>8 DEF ClassOf, Agree
    <3>2. f[ClassOf(r, T)] = f[ClassOf(s, T)]
      BY <2>3, <3>1
    <3>3. ClassOf(r, T) = ClassOf(s, T)
      BY <2>1, <2>7, <3>2 DEF Injection, IsInjective
    <3>4. s \in ClassOf(r, T)
      BY <2>1, <3>3
    <3>5. QED
      BY <3>4 DEF ClassOf, Agree, T
  <2>9. QED
    BY <2>8 DEF Determines
<1>3. QED
  BY <1>1, <1>2

(* What the columns X determine is in S + a, with X strictly in S: then    *)
(* S -> a is implied by less.                                              *)
LEMMA NotMinimal ==
  ASSUME NEW S, NEW a, NEW X \in SUBSET S, X # S, X # {},
         NEW c \in S \cup {a}, c \notin X, Determines(X, c, Row)
  PROVE  ~ IsMinimalFD(S, a)
<1> SUFFICES ASSUME IsMinimalFD(S, a)
             PROVE  FALSE
  OBVIOUS
<1>1. CASE c = a
  <2>1. PICK b \in S : b \notin X
    OBVIOUS
  <2>2. S # {b} /\ X \in SUBSET (S \ {b})
    BY <2>1
  <2>3. Determines(S \ {b}, a, Row)
    BY <1>1, <2>2, MoreDetermine
  <2>4. QED
    BY <2>2, <2>3 DEF IsMinimalFD
<1>2. CASE c \in S
  <2>1. S # {c} /\ X \in SUBSET (S \ {c})
    BY <1>2
  <2>2. Determines(S \ {c}, c, Row)
    BY <2>1, MoreDetermine
  <2>3. ASSUME NEW r \in Row, NEW s \in Row, Agree(r, s, S \ {c})
        PROVE  data[r][a] = data[s][a]
    <3>1. data[r][c] = data[s][c]
      BY <2>2, <2>3 DEF Determines
    <3>2. Agree(r, s, S)
      BY <2>3, <3>1 DEF Agree
    <3>3. QED
      BY <3>2 DEF IsMinimalFD, Determines
  <2>4. Determines(S \ {c}, a, Row)
    BY <2>3 DEF Determines
  <2>5. QED
    BY <1>2, <2>1, <2>4 DEF IsMinimalFD
<1>3. QED
  BY <1>1, <1>2

LEMMA MinimalFDsAre ==
  \A rule : rule \in MinimalFDs <=>
    \E S \in Node : \E a \in Attr \ S : IsMinimalFD(S, a) /\ rule = FD(S, a)
BY DEF MinimalFDs, Node

LEMMA FDIs ==
  \A S, a : /\ FD(S, a).cond = <<>> /\ FD(S, a).vars = S
            /\ FD(S, a).to = a /\ FD(S, a).value = Null
BY DEF FD

(* A dependency has a minimal one below it.                                *)
LEMMA MinimalBelow ==
  ASSUME Table, NEW S \in Node, NEW a \in Attr, a \notin S, Determines(S, a, Row)
  PROVE  \E X \in Node : X \subseteq S /\ IsMinimalFD(X, a) /\ FD(X, a) \in MinimalFDs
<1> DEFINE Bad == {X \in SUBSET S : X # {} /\ Determines(X, a, Row)}
<1>1. S \in SUBSET Attr /\ S # {} /\ IsFiniteSet(S)
  BY NodeIs, TableFacts
<1>2. PICK X \in Bad : \A U \in SUBSET X : U # X => U \notin Bad
  <2>1. Bad \in SUBSET (SUBSET S) /\ S \in Bad
    BY <1>1
  <2>2. Bad # {}
    BY <2>1
  <2> HIDE DEF Bad
  <2>3. QED
    BY <1>1, <2>1, <2>2, LeastSet
<1>3. X \in Node /\ X \subseteq S /\ Determines(X, a, Row) /\ a \in Attr \ X
  BY <1>1, <1>2, NodeIs
<1>4. ASSUME NEW b \in X, X # {b}
      PROVE  ~ Determines(X \ {b}, a, Row)
  <2>1. X \ {b} \in SUBSET X /\ X \ {b} # X /\ X \ {b} # {} /\ X \ {b} \in SUBSET S
    BY <1>3, <1>4
  <2>2. QED
    BY <1>2, <2>1
<1>5. IsMinimalFD(X, a)
  BY <1>3, <1>4 DEF IsMinimalFD
<1>6. QED
  BY <1>3, <1>5, MinimalFDsAre

-----------------------------------------------------------------------------
(* The edges and what pruning takes away.                                  *)

(* The edge from node n to node m adds column a.                           *)
Adds(n, m, a) == a \in Attr \ searchLattice[n] /\ searchLattice[m] = searchLattice[n] \cup {a}

IsEdges(e) ==
  /\ e \in [1 .. NNodes -> Seq(1 .. NNodes)]
  /\ \A n \in 1 .. NNodes :
       /\ \A k \in DOMAIN e[n] : \E a \in Attr : Adds(n, e[n][k], a)
       /\ \A j, k \in DOMAIN e[n] : e[n][j] = e[n][k] => j = k

Absent(e, n, a) == \A k \in DOMAIN e[n] : ~ Adds(n, e[n][k], a)

(* S -> a follows from what fewer columns determine.                       *)
Implied(S, a) ==
  \E X \in SUBSET S : \E c \in S \cup {a} :
    X # {} /\ X # S /\ c \in Attr \ X /\ Determines(X, c, Row)

LEMMA AddsOne ==
  ASSUME TableInv, NEW n \in 1 .. NNodes, NEW m \in 1 .. NNodes,
         Cardinality(searchLattice[m]) = Cardinality(searchLattice[n]) + 1,
         searchLattice[n] \subseteq searchLattice[m]
  PROVE  \E a \in Attr : Adds(n, m, a)
<1> DEFINE S == searchLattice[n]
           T == searchLattice[m]
<1>1. /\ S \subseteq T /\ IsFiniteSet(S) /\ IsFiniteSet(T) /\ T \in SUBSET Attr
      /\ Cardinality(S) \in Nat /\ Cardinality(T) = Cardinality(S) + 1
  BY LatticeIs
<1> HIDE DEF S, T
<1>2. IsFiniteSet(T \ S) /\ Cardinality(T \ S) = 1
  <2>1. T \cap S = S
    BY <1>1
  <2>2. IsFiniteSet(T \ S)
    BY <1>1, FS_Subset
  <2>3. Cardinality(T \ S) = Cardinality(T) - Cardinality(T \cap S)
    BY <1>1, FS_Difference
  <2>4. Cardinality(T \ S) = Cardinality(T) - Cardinality(S)
    BY <2>1, <2>3
  <2>5. QED
    BY <1>1, <2>2, <2>4
<1>3. PICK a : T \ S = {a}
  BY <1>2, FS_Singleton
<1>4. a \in Attr \ S /\ T = S \cup {a}
  BY <1>1, <1>3
<1>5. QED
  BY <1>4 DEF Adds, S, T

LEMMA AddsOnlyOne ==
  ASSUME TableInv, NEW n \in 1 .. NNodes, NEW m \in 1 .. NNodes, NEW a, Adds(n, m, a)
  PROVE  /\ a \in Attr /\ a \notin searchLattice[n] /\ a \in searchLattice[m]
         /\ searchLattice[n] \subseteq searchLattice[m]
         /\ (CHOOSE b \in searchLattice[m] : b \notin searchLattice[n]) = a
         /\ Cardinality(searchLattice[m]) = Cardinality(searchLattice[n]) + 1
         /\ n < m
         /\ \A b : Adds(n, m, b) => b = a
<1> DEFINE S == searchLattice[n]
           T == searchLattice[m]
<1>1. a \in Attr /\ a \notin S /\ T = S \cup {a} /\ IsFiniteSet(S) /\ Cardinality(S) \in Nat
  BY LatticeIs DEF Adds
<1>2. Cardinality(T) = Cardinality(S) + 1
  BY <1>1, FS_AddElement
<1>3. Cardinality(S) < Cardinality(T)
  BY <1>1, <1>2
<1>4. n < m
  BY <1>3, LatticeIs
<1>5. QED
  BY <1>1, <1>2, <1>4 DEF Adds

(* Two edges of a node that add the same column are one.                   *)
LEMMA SameEdge ==
  ASSUME TableInv, NEW e, IsEdges(e), NEW n \in 1 .. NNodes, NEW a,
         NEW j \in DOMAIN e[n], NEW k \in DOMAIN e[n],
         Adds(n, e[n][j], a), Adds(n, e[n][k], a)
  PROVE  j = k
<1> DEFINE N == 1 .. NNodes
<1>1. e[n][j] \in N /\ e[n][k] \in N
  <2> HIDE DEF N
  <2>1. e \in [N -> Seq(N)] /\ n \in N
    BY DEF IsEdges, N
  <2>2. e[n] \in Seq(N)
    BY <2>1
  <2>3. QED
    BY <2>2
<1>2. e[n][j] = e[n][k]
  <2>1. searchLattice[e[n][j]] = searchLattice[e[n][k]]
    BY DEF Adds
  <2>2. QED
    BY <1>1, <2>1, LatticeIs
<1>3. QED
  BY <1>2 DEF IsEdges

LEMMA RemoveAtIs ==
  ASSUME NEW D, NEW s \in Seq(D), NEW i \in 1 .. Len(s)
  PROVE  /\ RemoveAt(s, i) \in Seq(D)
         /\ DOMAIN RemoveAt(s, i) = 1 .. (Len(s) - 1)
         /\ \A k \in 1 .. (Len(s) - 1) : RemoveAt(s, i)[k] = IF k < i THEN s[k] ELSE s[k + 1]
<1> DEFINE a == SubSeq(s, 1, i - 1)
           b == SubSeq(s, i + 1, Len(s))
<1>1. /\ a \in Seq(D) /\ Len(a) = i - 1
      /\ \A k \in 1 .. (i - 1) : a[k] = s[k]
  OBVIOUS
<1>2. /\ b \in Seq(D) /\ Len(b) = Len(s) - i
      /\ \A k \in 1 .. (Len(s) - i) : b[k] = s[i + k]
  OBVIOUS
<1> HIDE DEF a, b
<1>3. Len(s) \in Nat /\ i \in Nat /\ i <= Len(s) /\ i >= 1
  OBVIOUS
<1>4. /\ a \o b \in Seq(D) /\ Len(a \o b) = Len(s) - 1
      /\ DOMAIN (a \o b) = 1 .. (Len(s) - 1)
  <2>0. a \in Seq(D) /\ b \in Seq(D)
    BY <1>1, <1>2
  <2>1. a \o b \in Seq(D)
    BY <2>0
  <2>2. Len(a \o b) = Len(a) + Len(b)
    BY <2>0
  <2>3. Len(a \o b) = Len(s) - 1
    BY <1>1, <1>2, <1>3, <2>2
  <2>4. DOMAIN (a \o b) = 1 .. Len(a \o b)
    BY <2>1
  <2>5. QED
    BY <2>1, <2>3, <2>4
<1>5. ASSUME NEW k \in 1 .. (Len(s) - 1)
      PROVE  (a \o b)[k] = IF k < i THEN s[k] ELSE s[k + 1]
  <2>1. CASE k < i
    BY <1>1, <1>2, <1>3, <2>1
  <2>2. CASE ~ k < i
    <3>1. k - (i - 1) \in 1 .. (Len(s) - i) /\ i + (k - (i - 1)) = k + 1
      BY <1>3, <2>2
    <3>2. (a \o b)[k] = b[k - (i - 1)]
      BY <1>1, <1>2, <1>3, <2>2
    <3>3. QED
      BY <1>2, <2>2, <3>1, <3>2
  <2>3. QED
    BY <2>1, <2>2
<1>6. QED
  BY <1>4, <1>5 DEF RemoveAt, a, b

(* Taking away an edge of node n, or all of them.                          *)
LEMMA EdgesWithout ==
  ASSUME TableInv, NEW e, IsEdges(e), NEW n \in 1 .. NNodes, NEW last \in DOMAIN e[n]
  PROVE  LET f == [e EXCEPT ![n] = RemoveAt(e[n], last)]
         IN  /\ IsEdges(f)
             /\ \A k \in DOMAIN f[n] : \E j \in DOMAIN e[n] : j # last /\ f[n][k] = e[n][j]
             /\ \A j \in DOMAIN e[n] : j # last => \E k \in DOMAIN f[n] : f[n][k] = e[n][j]
<1> DEFINE s == e[n]
           t == RemoveAt(s, last)
           f == [e EXCEPT ![n] = t]
<1>1. s \in Seq(1 .. NNodes) /\ last \in 1 .. Len(s) /\ Len(s) \in Nat /\ DOMAIN s = 1 .. Len(s)
  BY DEF IsEdges
<1>2. /\ t \in Seq(1 .. NNodes) /\ DOMAIN t = 1 .. (Len(s) - 1)
      /\ \A k \in 1 .. (Len(s) - 1) : t[k] = IF k < last THEN s[k] ELSE s[k + 1]
  BY <1>1, RemoveAtIs
<1>3. \A j, k \in DOMAIN s : s[j] = s[k] => j = k
  BY DEF IsEdges
<1>4. \A k \in DOMAIN s : \E a \in Attr : Adds(n, s[k], a)
  BY DEF IsEdges
<1>5. e \in [1 .. NNodes -> Seq(1 .. NNodes)]
  BY DEF IsEdges
<1> HIDE DEF s, t
<1>6. /\ f \in [1 .. NNodes -> Seq(1 .. NNodes)] /\ f[n] = t
      /\ \A m \in 1 .. NNodes : m # n => f[m] = e[m]
  BY <1>2, <1>5
<1>7. \A k \in DOMAIN t : \E j \in DOMAIN s :
         j # last /\ t[k] = s[j] /\ j = IF k < last THEN k ELSE k + 1
  <2>1. ASSUME NEW k \in 1 .. (Len(s) - 1)
        PROVE  \E j \in DOMAIN s : j # last /\ t[k] = s[j] /\ j = IF k < last THEN k ELSE k + 1
    <3>1. k \in 1 .. Len(s) /\ k + 1 \in 1 .. Len(s) /\ last \in Int
      BY <1>1
    <3>2. CASE k < last
      BY <1>1, <1>2, <3>1, <3>2
    <3>3. CASE ~ k < last
      <4>1. k + 1 # last /\ t[k] = s[k + 1]
        BY <1>1, <1>2, <3>1, <3>3
      <4>2. QED
        BY <1>1, <3>1, <3>3, <4>1
    <3>4. QED
      BY <3>2, <3>3
  <2>2. QED
    BY <1>2, <2>1
<1>8. \A j \in DOMAIN s : j # last => \E k \in DOMAIN t : t[k] = s[j]
  <2>1. ASSUME NEW j \in 1 .. Len(s), j # last
        PROVE  \E k \in 1 .. (Len(s) - 1) : t[k] = s[j]
    <3>1. CASE j < last
      <4>1. j \in 1 .. (Len(s) - 1)
        BY <1>1, <3>1
      <4>2. QED
        BY <1>2, <3>1, <4>1
    <3>2. CASE ~ j < last
      <4>1. j - 1 \in 1 .. (Len(s) - 1) /\ ~ j - 1 < last /\ (j - 1) + 1 = j
        BY <1>1, <2>1, <3>2
      <4>2. QED
        BY <1>2, <4>1
    <3>3. QED
      BY <3>1, <3>2
  <2>2. QED
    BY <1>1, <1>2, <2>1
<1>9. \A j, k \in DOMAIN t : t[j] = t[k] => j = k
  <2>1. ASSUME NEW j \in DOMAIN t, NEW k \in DOMAIN t, t[j] = t[k]
        PROVE  j = k
    <3>1. PICK i \in DOMAIN s : t[j] = s[i] /\ i = IF j < last THEN j ELSE j + 1
      BY <1>7
    <3>2. PICK l \in DOMAIN s : t[k] = s[l] /\ l = IF k < last THEN k ELSE k + 1
      BY <1>7
    <3>3. i = l
      BY <1>3, <2>1, <3>1, <3>2
    <3>4. j \in Int /\ k \in Int /\ last \in Int
      BY <1>1, <1>2
    <3>5. QED
      BY <3>1, <3>2, <3>3, <3>4
  <2>2. QED
    BY <2>1
<1>10. \A k \in DOMAIN t : \E a \in Attr : Adds(n, t[k], a)
  BY <1>4, <1>7
<1> HIDE DEF f
<1>11. IsEdges(f)
  <2>1. ASSUME NEW m \in 1 .. NNodes
        PROVE  /\ \A k \in DOMAIN f[m] : \E a \in Attr : Adds(m, f[m][k], a)
               /\ \A j, k \in DOMAIN f[m] : f[m][j] = f[m][k] => j = k
    <3>1. CASE m = n
      BY <1>6, <1>9, <1>10, <3>1
    <3>2. CASE m # n
      BY <1>6, <3>2 DEF IsEdges
    <3>3. QED
      BY <3>1, <3>2
  <2>2. QED
    BY <1>6, <2>1 DEF IsEdges
<1>12. QED
  BY <1>6, <1>7, <1>8, <1>11 DEF f, s, t

LEMMA EdgesWithoutAny ==
  ASSUME TableInv, NEW e, IsEdges(e), NEW n \in 1 .. NNodes
  PROVE  IsEdges([e EXCEPT ![n] = <<>>])
<1> DEFINE f == [e EXCEPT ![n] = <<>>]
<1>1. e \in [1 .. NNodes -> Seq(1 .. NNodes)] /\ <<>> \in Seq(1 .. NNodes) /\ DOMAIN <<>> = {}
  BY DEF IsEdges
<1>2. /\ f \in [1 .. NNodes -> Seq(1 .. NNodes)] /\ f[n] = <<>>
      /\ \A m \in 1 .. NNodes : m # n => f[m] = e[m]
  BY <1>1
<1> HIDE DEF f
<1>3. ASSUME NEW m \in 1 .. NNodes
      PROVE  /\ \A k \in DOMAIN f[m] : \E a \in Attr : Adds(m, f[m][k], a)
             /\ \A j, k \in DOMAIN f[m] : f[m][j] = f[m][k] => j = k
  <2>1. CASE m = n
    BY <1>1, <1>2, <2>1
  <2>2. CASE m # n
    BY <1>2, <2>2 DEF IsEdges
  <2>3. QED
    BY <2>1, <2>2
<1>4. IsEdges(f)
  BY <1>2, <1>3 DEF IsEdges
<1>5. QED
  BY <1>4 DEF f

-----------------------------------------------------------------------------
(* What is taken away is implied by the dependency that was found.         *)

Thinner(e, f) ==
  \A n \in 1 .. NNodes : \A b :
    /\ Absent(e, n, b) => Absent(f, n, b)
    /\ Absent(f, n, b) => Absent(e, n, b) \/ Implied(searchLattice[n], b)

LEMMA ThinnerSteps ==
  ASSUME NEW e, NEW f, NEW h, Thinner(e, f), Thinner(f, h)
  PROVE  Thinner(e, h)
BY DEF Thinner

PruneGives(e, t, n, x, y, a) ==
  \E f, u :
    /\ Prune([edges |-> e, tidy |-> t], n, x, y) = [edges |-> f, tidy |-> u]
    /\ IsEdges(f) /\ u \in SUBSET (1 .. NNodes) /\ Thinner(e, f)
    /\ \A m \in 1 .. NNodes : m # n => f[m] = e[m]
    /\ HeaderSorted /\ searchLattice[x] \subseteq searchLattice[n] /\ a \notin searchLattice[n]
         => Absent(f, n, a)

LEMMA PruneIs ==
  ASSUME TableInv, NEW x \in 1 .. NNodes, NEW y \in 1 .. NNodes, NEW a, Adds(x, y, a),
         Determines(searchLattice[x], a, Row),
         NEW e, IsEdges(e), NEW t \in SUBSET (1 .. NNodes), NEW n \in 1 .. NNodes,
         Cardinality(searchLattice[n]) >= Cardinality(searchLattice[y])
  PROVE  PruneGives(e, t, n, x, y, a)
<1> DEFINE st == [edges |-> e, tidy |-> t]
           X == searchLattice[x]
           Y == searchLattice[y]
           S == searchLattice[n]
           out == e[n]
           has(m, k) == ifSubsumed(Names(m, t), Names(k, t))
           hits == {k \in DOMAIN out : has(out[k], y) /\ searchLattice[out[k]] \ Y = S \ X}
           last == IF hits = {} THEN Len(out) ELSE Least(hits)
           mark == t \cup {n} \cup {out[k] : k \in {j \in 1 .. last : has(out[j], y)}}
           Goal(f, u) == /\ Prune(st, n, x, y) = [edges |-> f, tidy |-> u]
                         /\ IsEdges(f) /\ u \in SUBSET (1 .. NNodes) /\ Thinner(e, f)
                         /\ \A m \in 1 .. NNodes : m # n => f[m] = e[m]
                         /\ HeaderSorted /\ X \subseteq S /\ a \notin S => Absent(f, n, a)
<1>1. /\ a \in Attr /\ a \notin X /\ Y = X \cup {a} /\ X # {} /\ X \in SUBSET Attr
      /\ Cardinality(Y) = Cardinality(X) + 1 /\ Cardinality(X) \in Nat
      /\ Cardinality(S) \in Nat /\ S # X
  <2>1. a \in Attr /\ a \notin X /\ Y = X \cup {a}
    BY DEF Adds
  <2>2. Cardinality(Y) = Cardinality(X) + 1
    BY AddsOnlyOne
  <2>3. X # {} /\ X \in SUBSET Attr /\ Cardinality(X) \in Nat /\ Cardinality(S) \in Nat
    BY LatticeIs
  <2> HIDE DEF X, Y, S
  <2>4. Cardinality(S) > Cardinality(X)
    BY <2>2, <2>3 DEF S, Y
  <2>5. S # X
    BY <2>3, <2>4
  <2>6. QED
    BY <2>1, <2>2, <2>3, <2>5
<1>2. ASSUME X \subseteq S, NEW b, a \in S \cup {b}
      PROVE  Implied(S, b)
  BY <1>1, <1>2 DEF Implied
<1>3. /\ has(n, y) => Y \subseteq S
      /\ has(n, x) => X \subseteq S
      /\ HeaderSorted /\ X \subseteq S => has(n, x)
  BY SubsumedSound, SubsumedComplete
<1> DEFINE N == 1 .. NNodes
<1>4. /\ e \in [N -> Seq(N)] /\ out \in Seq(N) /\ Len(out) \in Nat /\ DOMAIN out = 1 .. Len(out)
      /\ \A k \in DOMAIN out : out[k] \in N
  <2> HIDE DEF N
  <2>1. e \in [N -> Seq(N)] /\ n \in N
    BY DEF IsEdges, N
  <2>2. out \in Seq(N)
    BY <2>1
  <2>3. QED
    BY <2>1, <2>2
<1>5. \A k \in DOMAIN out : \E b \in Attr : Adds(n, out[k], b)
  BY DEF IsEdges
<1>6. Prune(st, n, x, y) =
        IF has(n, y) THEN [edges |-> [e EXCEPT ![n] = <<>>], tidy |-> t]
        ELSE IF has(n, x)
        THEN [edges |-> IF hits = {} THEN e ELSE [e EXCEPT ![n] = RemoveAt(out, last)],
              tidy |-> mark]
        ELSE st
  <2>1. [st EXCEPT !.edges[n] = <<>>] = [edges |-> [e EXCEPT ![n] = <<>>], tidy |-> t]
    OBVIOUS
  <2>2. st.edges = e /\ st.tidy = t
    OBVIOUS
  <2> HIDE DEF st
  <2>3. QED
    BY <2>1, <2>2 DEF Prune
<1>7. CASE has(n, y)
  <2> DEFINE f == [e EXCEPT ![n] = <<>>]
  <2>1. IsEdges(f)
    BY EdgesWithoutAny
  <2>2. /\ f[n] = <<>> /\ DOMAIN f[n] = {}
        /\ \A m \in 1 .. NNodes : m # n => f[m] = e[m]
    BY <1>4
  <2>3. Prune(st, n, x, y) = [edges |-> f, tidy |-> t]
    BY <1>6, <1>7
  <2> HIDE DEF f
  <2>4. \A b : Absent(f, n, b) /\ Implied(S, b)
    BY <1>1, <1>2, <1>3, <1>7, <2>2 DEF Absent
  <2>5. Thinner(e, f)
    BY <2>2, <2>4 DEF Thinner, Absent
  <2>6. Goal(f, t)
    BY <2>1, <2>2, <2>3, <2>4, <2>5
  <2>7. QED
    BY <2>6 DEF PruneGives
<1>8. CASE ~ has(n, y) /\ has(n, x)
  <2>1. X \subseteq S
    BY <1>3, <1>8
  <2>2. ASSUME NEW k \in hits
        PROVE  /\ k \in DOMAIN out
               /\ \A b : Adds(n, out[k], b) => Implied(S, b) /\ (a \notin S => b = a)
    <3>1. k \in DOMAIN out /\ out[k] \in N /\ has(out[k], y)
      BY <1>4
    <3>2. Y \subseteq searchLattice[out[k]]
      BY <3>1, SubsumedSound
    <3>3. ASSUME NEW b, Adds(n, out[k], b)
          PROVE  Implied(S, b) /\ (a \notin S => b = a)
      <4>1. a \in S \cup {b}
        BY <1>1, <3>2, <3>3 DEF Adds
      <4>2. QED
        BY <1>2, <2>1, <4>1
    <3>4. QED
      BY <3>1, <3>3
  <2>3. ASSUME HeaderSorted, a \notin S, NEW k \in DOMAIN out, Adds(n, out[k], a)
        PROVE  k \in hits
    <3>1. searchLattice[out[k]] = S \cup {a} /\ out[k] \in N
      BY <1>4, <2>3 DEF Adds
    <3>2. Y \subseteq searchLattice[out[k]] /\ searchLattice[out[k]] \ Y = S \ X
      BY <1>1, <2>1, <2>3, <3>1
    <3>3. has(out[k], y)
      BY <2>3, <3>1, <3>2, SubsumedComplete
    <3>4. QED
      BY <3>2, <3>3
  <2>4. CASE hits = {}
    <3>1. Prune(st, n, x, y) = [edges |-> e, tidy |-> mark]
      BY <1>6, <1>8, <2>4
    <3>2. mark \in SUBSET N
      <4>1. last = Len(out)
        BY <2>4
      <4>2. QED
        BY <1>4, <4>1
    <3>3. Thinner(e, e)
      BY DEF Thinner
    <3>4. HeaderSorted /\ a \notin S => Absent(e, n, a)
      BY <2>3, <2>4 DEF Absent
    <3>5. Goal(e, mark)
      BY <3>1, <3>2, <3>3, <3>4
    <3>6. QED
      BY <3>5 DEF PruneGives
  <2>5. CASE hits # {}
    <3> DEFINE f == [e EXCEPT ![n] = RemoveAt(e[n], last)]
    <3>1. last \in hits /\ last \in DOMAIN out
      <4>1. hits \in SUBSET Nat
        BY <1>4
      <4>2. last = Least(hits)
        BY <2>5
      <4> HIDE DEF hits
      <4>3. last \in hits
        BY <2>5, <4>1, <4>2, LeastIs
      <4>4. QED
        BY <2>2, <4>3
    <3>2. mark \in SUBSET N
      <4> HIDE DEF hits, last
      <4> HIDE DEF out
      <4>0. /\ DOMAIN out = 1 .. Len(out) /\ Len(out) \in Nat
            /\ \A k \in DOMAIN out : out[k] \in N
            /\ last \in DOMAIN out
        BY <1>4, <3>1
      <4>1. \A j \in 1 .. last : out[j] \in N
        <5> HIDE DEF N
        <5>1. QED
          BY <4>0
      <4>2. {out[k] : k \in {j \in 1 .. last : has(out[j], y)}} \in SUBSET N
        BY <4>1
      <4>3. QED
        BY <4>2
    <3>3. Prune(st, n, x, y) = [edges |-> f, tidy |-> mark]
      BY <1>6, <1>8, <2>5
    <3>4. /\ IsEdges(f)
          /\ \A k \in DOMAIN f[n] : \E j \in DOMAIN out : j # last /\ f[n][k] = out[j]
          /\ \A j \in DOMAIN out : j # last => \E k \in DOMAIN f[n] : f[n][k] = out[j]
      <4> HIDE DEF hits, last
      <4>1. last \in DOMAIN e[n]
        BY <3>1
      <4>2. QED
        BY <4>1, EdgesWithout
    <3>5. \A m \in N : m # n => f[m] = e[m]
      BY <1>4
    <3> HIDE DEF f, mark, hits, last
    <3>6. ASSUME NEW b
          PROVE  /\ Absent(e, n, b) => Absent(f, n, b)
                 /\ Absent(f, n, b) => Absent(e, n, b) \/ Implied(S, b)
      <4>1. Absent(e, n, b) => Absent(f, n, b)
        BY <3>4 DEF Absent
      <4>2. ASSUME Absent(f, n, b), NEW j \in DOMAIN out, Adds(n, out[j], b)
            PROVE  Implied(S, b)
        <5>1. j = last
          BY <3>4, <4>2 DEF Absent
        <5>2. QED
          BY <2>2, <3>1, <4>2, <5>1
      <4>3. QED
        BY <4>1, <4>2 DEF Absent
    <3>7. Thinner(e, f)
      <4>1. ASSUME NEW m \in N, m # n, NEW b
            PROVE  Absent(e, m, b) <=> Absent(f, m, b)
        BY <3>5, <4>1 DEF Absent
      <4>2. QED
        BY <3>6, <4>1 DEF Thinner
    <3>8. ASSUME HeaderSorted, a \notin S
          PROVE  Absent(f, n, a)
      <4>1. ASSUME NEW k \in DOMAIN f[n], Adds(n, f[n][k], a)
            PROVE  FALSE
        <5>1. PICK j \in DOMAIN out : j # last /\ f[n][k] = out[j]
          BY <3>4
        <5>2. \E b \in Attr : Adds(n, out[last], b)
          BY <1>5, <3>1
        <5>3. Adds(n, out[last], a)
          BY <2>2, <3>1, <3>8, <5>2
        <5>4. j = last
          BY <3>1, <4>1, <5>1, <5>3, SameEdge
        <5>5. QED
          BY <5>1, <5>4
      <4>2. QED
        BY <4>1 DEF Absent
    <3>9. Goal(f, mark)
      BY <3>2, <3>3, <3>4, <3>5, <3>7, <3>8
    <3>10. QED
      BY <3>9 DEF PruneGives
  <2>6. QED
    BY <2>4, <2>5
<1>9. CASE ~ has(n, y) /\ ~ has(n, x)
  <2>1. Prune(st, n, x, y) = [edges |-> e, tidy |-> t]
    BY <1>6, <1>9
  <2>2. Thinner(e, e)
    BY DEF Thinner
  <2>3. Goal(e, t)
    BY <1>3, <1>9, <2>1, <2>2
  <2>4. QED
    BY <2>3 DEF PruneGives
<1>10. QED
  BY <1>7, <1>8, <1>9

(* The states of the pruning, one for each node that has been looked at.   *)
IsPruned(f, x, y, sorted) ==
  f = [n \in 0 .. NNodes |->
         IF n < FirstOfLevel(Cardinality(searchLattice[y]))
         THEN [edges |-> edges, tidy |-> sorted]
         ELSE Prune(f[n - 1], n, x, y)]

PruneState == {d \in [edges : [1 .. NNodes -> Seq(1 .. NNodes)], tidy : SUBSET (1 .. NNodes)] :
                 IsEdges(d.edges)}

LEMMA PruneStates ==
  /\ \A e, t : IsEdges(e) /\ t \in SUBSET (1 .. NNodes) => [edges |-> e, tidy |-> t] \in PruneState
  /\ \A d \in PruneState : \E e, t :
       d = [edges |-> e, tidy |-> t] /\ IsEdges(e) /\ t \in SUBSET (1 .. NNodes)
<1>1. ASSUME NEW e, NEW t, IsEdges(e), t \in SUBSET (1 .. NNodes)
      PROVE  [edges |-> e, tidy |-> t] \in PruneState
  <2>1. e \in [1 .. NNodes -> Seq(1 .. NNodes)]
    BY <1>1 DEF IsEdges
  <2>2. QED
    BY <1>1, <2>1 DEF PruneState
<1>2. ASSUME NEW d \in PruneState
      PROVE  \E e, t : d = [edges |-> e, tidy |-> t] /\ IsEdges(e) /\ t \in SUBSET (1 .. NNodes)
  <2>1. d = [edges |-> d.edges, tidy |-> d.tidy] /\ IsEdges(d.edges)
        /\ d.tidy \in SUBSET (1 .. NNodes)
    BY DEF PruneState
  <2>2. QED
    BY <2>1
<1>3. QED
  BY <1>1, <1>2

LEMMA PrunedExists ==
  ASSUME TableInv, NEW x \in 1 .. NNodes, NEW y \in 1 .. NNodes, NEW a, Adds(x, y, a),
         Determines(searchLattice[x], a, Row), IsEdges(edges),
         NEW sorted \in SUBSET (1 .. NNodes)
  PROVE  IsPruned(removeSuperSet(x, y, sorted), x, y, sorted)
<1> DEFINE F == FirstOfLevel(Cardinality(searchLattice[y]))
           base == [edges |-> edges, tidy |-> sorted]
           D == PruneState
           g == [p \in (1 .. NNodes) \X D |->
                   IF p[1] < F THEN base ELSE Prune(p[2], p[1], x, y)]
<1>1. NNodes \in Nat /\ NNodes # 0
  BY LatticeIs
<1>2. base \in D
  BY DEF PruneState, IsEdges
<1>3. F \in Nat /\ F >= 1
      /\ \A n \in 1 .. NNodes :
           ~ n < F => Cardinality(searchLattice[n]) >= Cardinality(searchLattice[y])
  <2> DEFINE k == Cardinality(searchLattice[y])
  <2>1. k \in Nat /\ k # 0
    <3>1. Cardinality(searchLattice[x]) \in Nat /\ k = Cardinality(searchLattice[x]) + 1
      BY LatticeIs, AddsOnlyOne
    <3> HIDE DEF k
    <3>2. QED
      BY <3>1
  <2> HIDE DEF k
  <2>2. /\ FirstOfLevel(k) \in Nat /\ FirstOfLevel(k) >= 1
        /\ \A n \in 1 .. NNodes :
             n >= FirstOfLevel(k) <=> Cardinality(searchLattice[n]) >= k
    BY <2>1, FirstOfLevelIs
  <2>3. QED
    BY <2>2 DEF k
<1> HIDE DEF F
<1>4. g \in [(1 .. NNodes) \X D -> D]
  <2>1. ASSUME NEW n \in 1 .. NNodes, NEW d \in D
        PROVE  (IF n < F THEN base ELSE Prune(d, n, x, y)) \in D
    <3>1. CASE n < F
      BY <1>2, <3>1
    <3>2. CASE ~ n < F
      <4>1. PICK e, t : d = [edges |-> e, tidy |-> t] /\ IsEdges(e) /\ t \in SUBSET (1 .. NNodes)
        BY PruneStates DEF D
      <4>2. Cardinality(searchLattice[n]) >= Cardinality(searchLattice[y])
        BY <1>3, <3>2
      <4>3. PICK f, u : /\ Prune([edges |-> e, tidy |-> t], n, x, y) = [edges |-> f, tidy |-> u]
                        /\ IsEdges(f) /\ u \in SUBSET (1 .. NNodes)
        <5>1. PruneGives(e, t, n, x, y, a)
          BY <4>1, <4>2, PruneIs
        <5>2. QED
          BY <5>1 DEF PruneGives
      <4>4. Prune([edges |-> e, tidy |-> t], n, x, y) \in PruneState
        <5>1. [edges |-> f, tidy |-> u] \in PruneState
          BY <4>3, PruneStates
        <5>2. QED
          BY <4>3, <5>1
      <4>5. QED
        BY <3>2, <4>1, <4>4
    <3>3. QED
      BY <3>1, <3>2
  <2>2. QED
    BY <2>1
<1>5. \A n \in 1 .. NNodes, d \in D :
        g[<<n, d>>] = IF n < F THEN base ELSE Prune(d, n, x, y)
  OBVIOUS
<1> HIDE DEF g, base, D
<1>6. PICK f : Recurs(f, D, base, NNodes, g)
  BY <1>1, <1>2, <1>4, Recursion
<1>7. ASSUME NEW n \in 0 .. NNodes
      PROVE  f[n] = IF n < F THEN base ELSE Prune(f[n - 1], n, x, y)
  <2>1. CASE n = 0
    BY <1>3, <1>6, <2>1 DEF Recurs
  <2>2. CASE n # 0
    <3>1. n \in 1 .. NNodes /\ n - 1 \in 0 .. NNodes
      BY <1>1, <2>2
    <3>2. f[n - 1] \in D
      BY <1>6, <3>1 DEF Recurs
    <3>3. f[n] = g[<<n, f[n - 1]>>]
      BY <1>6, <3>1 DEF Recurs
    <3>4. QED
      BY <1>5, <3>1, <3>2, <3>3
  <2>3. QED
    BY <2>1, <2>2
<1>8. IsPruned(f, x, y, sorted)
  <2>1. f = [n \in 0 .. NNodes |-> f[n]]
    BY <1>6 DEF Recurs
  <2>2. QED
    BY <1>7, <2>1 DEF IsPruned, base, F
<1>9. QED
  BY <1>8 DEF removeSuperSet, IsPruned

PrunedWell(p, x, a) ==
  /\ IsEdges(p.edges) /\ p.tidy \in SUBSET (1 .. NNodes)
  /\ Thinner(edges, p.edges)
  /\ \A m \in 1 .. x : p.edges[m] = edges[m]
  /\ HeaderSorted => \A m \in 1 .. NNodes :
       /\ searchLattice[x] \subseteq searchLattice[m] /\ searchLattice[x] # searchLattice[m]
       /\ a \notin searchLattice[m]
       => Absent(p.edges, m, a)

LEMMA PrunedIs ==
  ASSUME TableInv, NEW x \in 1 .. NNodes, NEW y \in 1 .. NNodes, NEW a, Adds(x, y, a),
         Determines(searchLattice[x], a, Row), IsEdges(edges),
         NEW sorted \in SUBSET (1 .. NNodes)
  PROVE  PrunedWell(removeSuperSet(x, y, sorted)[NNodes], x, a)
<1> DEFINE F == FirstOfLevel(Cardinality(searchLattice[y]))
           base == [edges |-> edges, tidy |-> sorted]
           f == removeSuperSet(x, y, sorted)
           X == searchLattice[x]
           N == 1 .. NNodes
<1>1. NNodes \in Nat /\ NNodes # 0
  BY LatticeIs
<1>2. F \in Nat /\ F >= 1
      /\ \A n \in N : ~ n < F <=> Cardinality(searchLattice[n]) >= Cardinality(searchLattice[y])
  <2> DEFINE k == Cardinality(searchLattice[y])
  <2>1. k \in Nat /\ k # 0
    <3>1. Cardinality(searchLattice[x]) \in Nat /\ k = Cardinality(searchLattice[x]) + 1
      BY LatticeIs, AddsOnlyOne
    <3> HIDE DEF k
    <3>2. QED
      BY <3>1
  <2> HIDE DEF k
  <2>2. /\ FirstOfLevel(k) \in Nat /\ FirstOfLevel(k) >= 1
        /\ \A n \in 1 .. NNodes :
             n >= FirstOfLevel(k) <=> Cardinality(searchLattice[n]) >= k
    BY <2>1, FirstOfLevelIs
  <2>3. QED
    BY <2>2 DEF k
<1>3. /\ \A n \in 0 .. NNodes : f[n] = IF n < F THEN base ELSE Prune(f[n - 1], n, x, y)
  <2> DEFINE h == [n \in 0 .. NNodes |-> IF n < F THEN base ELSE Prune(f[n - 1], n, x, y)]
  <2>1. f = h
    BY PrunedExists DEF IsPruned
  <2>2. \A n \in 0 .. NNodes : h[n] = IF n < F THEN base ELSE Prune(f[n - 1], n, x, y)
    OBVIOUS
  <2> HIDE DEF h
  <2>3. QED
    BY <2>1, <2>2
<1>4. ASSUME NEW m \in N, X \subseteq searchLattice[m], X # searchLattice[m]
      PROVE  ~ m < F
  <2>1. /\ IsFiniteSet(searchLattice[m]) /\ Cardinality(searchLattice[m]) \in Nat
        /\ Cardinality(X) \in Nat /\ Cardinality(searchLattice[y]) = Cardinality(X) + 1
    BY LatticeIs, AddsOnlyOne
  <2>2. Cardinality(X) <= Cardinality(searchLattice[m])
        /\ (Cardinality(X) = Cardinality(searchLattice[m]) => X = searchLattice[m])
    BY <1>4, <2>1, FS_Subset
  <2> HIDE DEF X
  <2>3. Cardinality(searchLattice[m]) >= Cardinality(X) + 1
    BY <1>4, <2>1, <2>2
  <2>4. QED
    BY <1>2, <2>1, <2>3
<1> DEFINE Good(n) ==
             /\ f[n] \in PruneState
             /\ Thinner(edges, f[n].edges)
             /\ \A m \in N : m < F \/ n < m => f[n].edges[m] = edges[m]
             /\ HeaderSorted => \A m \in N :
                  m <= n /\ X \subseteq searchLattice[m] /\ X # searchLattice[m]
                  /\ a \notin searchLattice[m] => Absent(f[n].edges, m, a)
           Bad == {n \in 0 .. NNodes : ~ Good(n)}
<1>5. ASSUME NEW n \in 0 .. NNodes, n < F
      PROVE  Good(n)
  <2>1. f[n] = base /\ base \in PruneState /\ base.edges = edges
    BY <1>3, <1>5 DEF PruneState, IsEdges
  <2>2. \A m \in N : m <= n => m < F
    BY <1>1, <1>2, <1>5
  <2>3. Thinner(edges, edges)
    BY DEF Thinner
  <2> HIDE DEF f, base, X, F
  <2>4. QED
    BY <1>4, <2>1, <2>2, <2>3
<1>6. ASSUME NEW n \in 1 .. NNodes, ~ n < F, Good(n - 1)
      PROVE  Good(n)
  <2>1. PICK e, t : /\ f[n - 1] = [edges |-> e, tidy |-> t]
                    /\ IsEdges(e) /\ t \in SUBSET (1 .. NNodes)
    <3> HIDE DEF f
    <3>1. QED
      BY <1>6, PruneStates
  <2>2. Cardinality(searchLattice[n]) >= Cardinality(searchLattice[y])
    BY <1>2, <1>6
  <2>3. PICK h, u :
           /\ Prune([edges |-> e, tidy |-> t], n, x, y) = [edges |-> h, tidy |-> u]
           /\ IsEdges(h) /\ u \in SUBSET (1 .. NNodes) /\ Thinner(e, h)
           /\ \A m \in 1 .. NNodes : m # n => h[m] = e[m]
           /\ HeaderSorted /\ X \subseteq searchLattice[n] /\ a \notin searchLattice[n]
                => Absent(h, n, a)
    <3>1. PruneGives(e, t, n, x, y, a)
      BY <2>1, <2>2, PruneIs
    <3>2. QED
      BY <3>1 DEF PruneGives
  <2>4. f[n] = [edges |-> h, tidy |-> u]
    <3> HIDE DEF f, F
    <3>1. n \in 0 .. NNodes
      BY <1>1
    <3>2. QED
      BY <1>3, <1>6, <2>1, <2>3, <3>1
  <2>5. /\ Thinner(edges, e)
        /\ \A m \in N : m < F \/ n - 1 < m => e[m] = edges[m]
        /\ HeaderSorted => \A m \in N :
             m <= n - 1 /\ X \subseteq searchLattice[m] /\ X # searchLattice[m]
             /\ a \notin searchLattice[m] => Absent(e, m, a)
    <3>1. f[n - 1].edges = e
      BY <2>1
    <3> HIDE DEF f, F, X
    <3>2. QED
      BY <1>6, <3>1
  <2>6. f[n].edges = h /\ f[n] \in PruneState
    <3> HIDE DEF f
    <3>1. QED
      BY <2>3, <2>4, PruneStates
  <2> HIDE DEF f, X, F
  <2>7. Thinner(edges, h)
    BY <2>3, <2>5, ThinnerSteps
  <2>8. \A m \in N : m < F \/ n < m => h[m] = edges[m]
    BY <1>1, <1>2, <1>6, <2>3, <2>5
  <2>9. ASSUME HeaderSorted, NEW m \in N, m <= n, X \subseteq searchLattice[m],
               X # searchLattice[m], a \notin searchLattice[m]
        PROVE  Absent(h, m, a)
    <3>1. CASE m = n
      BY <2>3, <2>9, <3>1
    <3>2. CASE m # n
      <4>1. m <= n - 1
        BY <1>1, <2>9, <3>2
      <4>2. Absent(e, m, a)
        BY <2>5, <2>9, <4>1
      <4>3. QED
        BY <2>3, <4>2 DEF Thinner
    <3>3. QED
      BY <3>1, <3>2
  <2>10. QED
    BY <2>6, <2>7, <2>8, <2>9
<1>7. Bad = {}
  <2> HIDE DEF Good, f, F, X
  <2> SUFFICES ASSUME Bad # {}
               PROVE  FALSE
    OBVIOUS
  <2>1. Bad \in SUBSET Nat
    OBVIOUS
  <2> HIDE DEF Bad
  <2>2. PICK n \in Bad : \A l \in Bad : n <= l
    BY <2>1, LeastNat
  <2>3. n \in 0 .. NNodes /\ ~ Good(n)
    BY <2>2 DEF Bad
  <2>4. ~ n < F /\ n # 0
    BY <1>2, <1>5, <2>3
  <2>5. n \in 1 .. NNodes /\ n - 1 \in 0 .. NNodes /\ ~ n <= n - 1
    BY <1>1, <2>3, <2>4
  <2>6. Good(n - 1)
    BY <2>2, <2>5 DEF Bad
  <2>7. QED
    BY <1>6, <2>3, <2>4, <2>5, <2>6
<1>8. Good(NNodes)
  <2> HIDE DEF Good, f, F, X
  <2>1. QED
    BY <1>1, <1>7
<1>9. \A m \in 1 .. x : m \in N /\ m < F
  <2>1. Cardinality(searchLattice[x]) \in Nat
        /\ Cardinality(searchLattice[y]) = Cardinality(searchLattice[x]) + 1
    <3>1. Cardinality(searchLattice[x]) \in Nat
      BY LatticeIs
    <3>2. Cardinality(searchLattice[y]) = Cardinality(searchLattice[x]) + 1
      BY AddsOnlyOne
    <3>3. QED
      BY <3>1, <3>2
  <2>2. x < F
    BY <1>2, <2>1
  <2>3. QED
    BY <1>1, <1>2, <2>2
<1>10. QED
  <2>1. IsEdges(f[NNodes].edges) /\ f[NNodes].tidy \in SUBSET (1 .. NNodes)
    BY <1>8 DEF PruneState
  <2>2. \A m \in 1 .. x : f[NNodes].edges[m] = edges[m]
    BY <1>8, <1>9
  <2>3. \A m \in N : m <= NNodes
    BY <1>1
  <2> HIDE DEF f, F
  <2>4. QED
    BY <1>8, <2>1, <2>2, <2>3 DEF f, PrunedWell

-----------------------------------------------------------------------------
(* The classes a condition's class consists of.                            *)

(* What is left of q, after each of the classes in omega.                  *)
IsLeft(f, omega, q) ==
  f = [i \in 0 .. Len(omega) |->
         IF i = 0 THEN q
         ELSE IF IsHead(omega[i], f[i - 1]) THEN f[i - 1] \ omega[i] ELSE f[i - 1]]

LEMMA LeftExists ==
  ASSUME NEW omega \in Seq(SUBSET Row), NEW q \in SUBSET Row
  PROVE  IsLeft(Left(omega, q), omega, q)
<1> DEFINE D == SUBSET Row
           n == Len(omega)
           g == [p \in (1 .. n) \X D |->
                   IF IsHead(omega[p[1]], p[2]) THEN p[2] \ omega[p[1]] ELSE p[2]]
<1>1. n \in Nat
  OBVIOUS
<1>2. g \in [(1 .. n) \X D -> D]
  OBVIOUS
<1>3. \A i \in 1 .. n, d \in D :
        g[<<i, d>>] = IF IsHead(omega[i], d) THEN d \ omega[i] ELSE d
  OBVIOUS
<1> HIDE DEF g, n, D
<1>4. PICK f : Recurs(f, D, q, n, g)
  <2>1. q \in D
    BY DEF D
  <2>2. QED
    BY <1>1, <1>2, <2>1, Recursion
<1>5. ASSUME NEW i \in 0 .. n
      PROVE  f[i] = IF i = 0 THEN q
                    ELSE IF IsHead(omega[i], f[i - 1]) THEN f[i - 1] \ omega[i] ELSE f[i - 1]
  <2>1. CASE i = 0
    BY <1>4, <2>1 DEF Recurs
  <2>2. CASE i # 0
    <3>1. i \in 1 .. n /\ i - 1 \in 0 .. n
      BY <1>1, <2>2
    <3>2. f[i - 1] \in D
      BY <1>4, <3>1 DEF Recurs
    <3>3. f[i] = g[<<i, f[i - 1]>>]
      BY <1>4, <3>1 DEF Recurs
    <3>4. QED
      BY <1>3, <2>2, <3>1, <3>2, <3>3
  <2>3. QED
    BY <2>1, <2>2
<1>6. IsLeft(f, omega, q)
  <2>1. f = [i \in 0 .. n |-> f[i]]
    BY <1>4 DEF Recurs
  <2>2. QED
    BY <1>5, <2>1 DEF IsLeft, n
<1>7. QED
  BY <1>6 DEF Left, IsLeft

(* What is taken away are classes of omega, and only rows of these are.    *)
LEMMA LeftIs ==
  ASSUME NEW omega \in Seq(SUBSET Row), NEW q \in SUBSET Row
  PROVE  LET left == Left(omega, q)
         IN  /\ left[0] = q
             /\ \A i \in 1 .. Len(omega) :
                  left[i] = IF IsHead(omega[i], left[i - 1]) THEN left[i - 1] \ omega[i]
                            ELSE left[i - 1]
             /\ \A i \in 0 .. Len(omega) :
                  /\ left[i] \subseteq q
                  /\ \A r \in q : r \in left[i] \/ \E j \in 1 .. i :
                       IsHead(omega[j], left[j - 1]) /\ r \in omega[j]
<1> DEFINE left == Left(omega, q)
           n == Len(omega)
           Good(i) == /\ left[i] \subseteq q
                      /\ \A r \in q : r \in left[i] \/ \E j \in 1 .. i :
                           IsHead(omega[j], left[j - 1]) /\ r \in omega[j]
           Bad == {i \in 0 .. n : ~ Good(i)}
<1>1. n \in Nat
  OBVIOUS
<1>2. \A i \in 0 .. n :
        left[i] = IF i = 0 THEN q
                  ELSE IF IsHead(omega[i], left[i - 1]) THEN left[i - 1] \ omega[i]
                  ELSE left[i - 1]
  <2> DEFINE h == [i \in 0 .. n |->
                     IF i = 0 THEN q
                     ELSE IF IsHead(omega[i], left[i - 1]) THEN left[i - 1] \ omega[i]
                     ELSE left[i - 1]]
  <2>1. left = h
    BY LeftExists DEF IsLeft
  <2>2. \A i \in 0 .. n :
          h[i] = IF i = 0 THEN q
                 ELSE IF IsHead(omega[i], left[i - 1]) THEN left[i - 1] \ omega[i]
                 ELSE left[i - 1]
    OBVIOUS
  <2> HIDE DEF h
  <2>3. QED
    BY <2>1, <2>2
<1> HIDE DEF left, n
<1>3. left[0] = q
  <2>1. 0 \in 0 .. n
    BY <1>1
  <2>2. QED
    BY <1>2, <2>1
<1>4. \A i \in 1 .. n :
        left[i] = IF IsHead(omega[i], left[i - 1]) THEN left[i - 1] \ omega[i] ELSE left[i - 1]
  <2>1. \A i \in 1 .. n : i \in 0 .. n /\ i # 0
    BY <1>1
  <2>2. QED
    BY <1>2, <2>1
<1>5. Good(0)
  BY <1>3
<1>6. ASSUME NEW i \in 1 .. n, Good(i - 1)
      PROVE  Good(i)
  <2>1. left[i] = IF IsHead(omega[i], left[i - 1]) THEN left[i - 1] \ omega[i] ELSE left[i - 1]
    BY <1>4
  <2>2. i \in Nat /\ \A j \in 1 .. (i - 1) : j \in 1 .. i
    BY <1>1
  <2>3. i \in 1 .. i
    BY <1>1
  <2>4. left[i] \subseteq q
    BY <1>6, <2>1
  <2>5. ASSUME NEW r \in q, r \notin left[i]
        PROVE  \E j \in 1 .. i : IsHead(omega[j], left[j - 1]) /\ r \in omega[j]
    <3>1. CASE r \in left[i - 1]
      <4>1. IsHead(omega[i], left[i - 1]) /\ r \in omega[i]
        BY <2>1, <2>5, <3>1
      <4>2. QED
        BY <2>3, <4>1
    <3>2. CASE r \notin left[i - 1]
      BY <1>6, <2>2, <3>2
    <3>3. QED
      BY <3>1, <3>2
  <2>6. QED
    BY <2>4, <2>5
<1>7. Bad = {}
  <2> HIDE DEF Good
  <2> SUFFICES ASSUME Bad # {}
               PROVE  FALSE
    OBVIOUS
  <2>1. Bad \in SUBSET Nat
    OBVIOUS
  <2> HIDE DEF Bad
  <2>2. PICK i \in Bad : \A l \in Bad : i <= l
    BY <2>1, LeastNat
  <2>3. i \in 0 .. n /\ ~ Good(i)
    BY <2>2 DEF Bad
  <2>4. i \in 1 .. n /\ i - 1 \in 0 .. n /\ ~ i <= i - 1
    BY <1>1, <1>5, <2>3
  <2>5. Good(i - 1)
    BY <2>2, <2>4 DEF Bad
  <2>6. QED
    BY <1>6, <2>3, <2>4, <2>5
<1>8. \A i \in 0 .. n : Good(i)
  <2> HIDE DEF Good
  <2>1. QED
    BY <1>7
<1>9. QED
  BY <1>3, <1>4, <1>8 DEF left, n

(* The places in omega of the classes that are taken.                      *)
Taken(omega, q) == {i \in DOMAIN omega : IsHead(omega[i], Left(omega, q)[i - 1])}

LEMMA CheckQIs ==
  ASSUME NEW omega \in Seq(SUBSET Row), NEW q \in SUBSET Row
  PROVE  LET index == checkQ(omega, q)
             taken == Upwards(Taken(omega, q))
         IN  /\ IsFiniteSet(Taken(omega, q)) /\ Len(taken) = Cardinality(Taken(omega, q))
             /\ Len(taken) \in Nat /\ DOMAIN taken = 1 .. Len(taken)
             /\ \A k \in DOMAIN taken : taken[k] \in Taken(omega, q)
             /\ \A i \in Taken(omega, q) : \E k \in DOMAIN taken : taken[k] = i
             /\ IF Left(omega, q)[Len(omega)] = {}
                THEN /\ DOMAIN index = DOMAIN taken /\ Len(index) = Len(taken)
                     /\ \A k \in DOMAIN taken : index[k] = Least(omega[taken[k]])
                ELSE index = <<>>
<1> DEFINE T == Taken(omega, q)
           taken == Upwards(T)
           index == checkQ(omega, q)
<1>1. T \in SUBSET (1 .. Len(omega)) /\ Len(omega) \in Nat
  BY DEF Taken
<1>2. IsFiniteSet(T)
  <2>1. IsFiniteSet(1 .. Len(omega))
    BY <1>1, FS_Interval
  <2>2. QED
    BY <1>1, <2>1, FS_Subset
<1>3. /\ Len(taken) = Cardinality(T) /\ Len(taken) \in Nat
      /\ DOMAIN taken = 1 .. Len(taken)
      /\ \A k \in DOMAIN taken : taken[k] \in T
      /\ \A x \in T : \E k \in DOMAIN taken : taken[k] = x
  <2>1. T \in SUBSET Int
    BY <1>1
  <2> HIDE DEF T
  <2>2. QED
    BY <1>2, <2>1, UpwardsLists
<1>4. index = IF Left(omega, q)[Len(omega)] = {}
              THEN [k \in DOMAIN taken |-> Least(omega[taken[k]])] ELSE <<>>
  BY DEF checkQ, Covers, Taken
<1> HIDE DEF taken, T, index
<1>5. CASE Left(omega, q)[Len(omega)] = {}
  <2>1. index = [k \in DOMAIN taken |-> Least(omega[taken[k]])]
    BY <1>4, <1>5
  <2>2. DOMAIN index = DOMAIN taken /\ \A k \in DOMAIN taken : index[k] = Least(omega[taken[k]])
    BY <2>1
  <2>3. Len(index) = Len(taken)
    <3>1. index = [k \in 1 .. Len(taken) |-> Least(omega[taken[k]])]
      BY <1>3, <2>1
    <3>2. QED
      BY <1>3, <3>1
  <2>4. QED
    BY <1>2, <1>3, <1>5, <2>2, <2>3 DEF taken, T, index
<1>6. CASE Left(omega, q)[Len(omega)] # {}
  BY <1>2, <1>3, <1>4, <1>6 DEF taken, T, index
<1>7. QED
  BY <1>5, <1>6

(* The rows in the index are first rows of classes inside q, which has no  *)
(* row but those of its classes.                                           *)
LEMMA CheckQSound ==
  ASSUME Table, NEW omega \in Seq(SUBSET Row), NEW q \in SUBSET Row, q # {}
  PROVE  LET index == checkQ(omega, q)
         IN  /\ \A r \in ToSet(index) :
                  r \in q /\ \E i \in DOMAIN omega : omega[i] \subseteq q /\ r = Least(omega[i])
             /\ index # <<>> =>
                  /\ 1 \in DOMAIN index /\ index[1] \in q
                  /\ \A r \in q : \E i \in DOMAIN omega : r \in omega[i]
                  /\ Len(index) = 1 => \E i \in DOMAIN omega : q \subseteq omega[i]
<1> DEFINE left == Left(omega, q)
           T == Taken(omega, q)
           taken == Upwards(T)
           index == checkQ(omega, q)
<1>1. /\ left[0] = q
      /\ \A i \in 0 .. Len(omega) :
           /\ left[i] \subseteq q
           /\ \A r \in q : r \in left[i] \/ \E j \in 1 .. i :
                IsHead(omega[j], left[j - 1]) /\ r \in omega[j]
  BY LeftIs
<1>2. /\ IsFiniteSet(T) /\ Len(taken) = Cardinality(T)
      /\ Len(taken) \in Nat /\ DOMAIN taken = 1 .. Len(taken)
      /\ \A k \in DOMAIN taken : taken[k] \in T
      /\ \A i \in T : \E k \in DOMAIN taken : taken[k] = i
      /\ IF left[Len(omega)] = {}
         THEN /\ DOMAIN index = DOMAIN taken /\ Len(index) = Len(taken)
              /\ \A k \in DOMAIN taken : index[k] = Least(omega[taken[k]])
         ELSE index = <<>>
  BY CheckQIs
<1>3. \A i \in T : i \in DOMAIN omega /\ IsHead(omega[i], left[i - 1])
  BY DEF Taken
<1>4. Len(omega) \in Nat /\ DOMAIN omega = 1 .. Len(omega)
  OBVIOUS
<1> HIDE DEF left, T, taken, index
<1>5. ASSUME NEW i \in T
      PROVE  omega[i] \subseteq q /\ Least(omega[i]) \in q
  <2>1. i - 1 \in 0 .. Len(omega) /\ IsHead(omega[i], left[i - 1])
    BY <1>3, <1>4
  <2>2. left[i - 1] \subseteq q
    BY <1>1, <2>1
  <2>3. left[i - 1] # {} /\ left[i - 1] \in SUBSET Nat
    BY <2>1, <2>2, TableFacts DEF IsHead
  <2>4. Least(left[i - 1]) \in left[i - 1]
    BY <2>3, LeastIs
  <2>5. QED
    BY <2>1, <2>2, <2>4 DEF IsHead
<1>6. ASSUME NEW r \in ToSet(index)
      PROVE  r \in q /\ \E i \in DOMAIN omega : omega[i] \subseteq q /\ r = Least(omega[i])
  <2>1. PICK k \in DOMAIN index : index[k] = r
    BY DEF ToSet
  <2>2. left[Len(omega)] = {}
    BY <1>2, <2>1
  <2>3. taken[k] \in T /\ r = Least(omega[taken[k]])
    BY <1>2, <2>1, <2>2
  <2>4. QED
    BY <1>3, <1>5, <2>3
<1>7. ASSUME index # <<>>
      PROVE  /\ 1 \in DOMAIN index /\ index[1] \in q
             /\ \A r \in q : \E i \in DOMAIN omega : r \in omega[i]
             /\ Len(index) = 1 => \E i \in DOMAIN omega : q \subseteq omega[i]
  <2>1. left[Len(omega)] = {}
    BY <1>2, <1>7
  <2>2. \A r \in q : \E j \in T : r \in omega[j]
    <3>1. Len(omega) \in 0 .. Len(omega)
      BY <1>4
    <3>2. ASSUME NEW r \in q
          PROVE  \E j \in T : r \in omega[j]
      <4>1. PICK j \in 1 .. Len(omega) : IsHead(omega[j], left[j - 1]) /\ r \in omega[j]
        BY <1>1, <2>1, <3>1
      <4>2. j \in T
        BY <1>4, <4>1 DEF T, Taken, left
      <4>3. QED
        BY <4>1, <4>2
    <3>3. QED
      BY <3>2
  <2>3. Len(taken) # 0
    BY <1>2, <2>2
  <2>4. 1 \in DOMAIN taken
    BY <1>2, <2>3
  <2>5. 1 \in DOMAIN index /\ index[1] \in q
    BY <1>2, <1>5, <2>1, <2>4
  <2>6. ASSUME Len(index) = 1
        PROVE  \E i \in DOMAIN omega : q \subseteq omega[i]
    <3>1. DOMAIN taken = {1}
      BY <1>2, <2>1, <2>6
    <3>2. \A j \in T : j = taken[1]
      BY <1>2, <3>1
    <3>3. taken[1] \in DOMAIN omega
      BY <1>2, <1>3, <2>4
    <3>4. q \subseteq omega[taken[1]]
      BY <2>2, <3>2
    <3>5. QED
      BY <3>3, <3>4
  <2>7. QED
    BY <1>3, <2>2, <2>5, <2>6
<1>8. QED
  BY <1>6, <1>7 DEF index

(* Classes by their first rows.                                            *)
Ascending(s) == \A i, j \in DOMAIN s : i < j => Least(s[i]) < Least(s[j])

LEMMA KeptAscends ==
  ASSUME NEW s \in Seq(SUBSET Row), Ascending(s), NEW T
  PROVE  /\ Kept(s, T) \in Seq(SUBSET Row) /\ Ascending(Kept(s, T))
         /\ ToSet(Kept(s, T)) = {C \in ToSet(s) : C \in T}
<1> DEFINE D == SUBSET Row
<1>1. s \in Seq(D)
  OBVIOUS
<1> HIDE DEF D
<1>2. /\ Kept(s, T) \in Seq(D)
      /\ \A i, j \in DOMAIN Kept(s, T) : i < j =>
           \E m, n \in DOMAIN s : m < n /\ Kept(s, T)[i] = s[m] /\ Kept(s, T)[j] = s[n]
      /\ ToSet(Kept(s, T)) = {C \in ToSet(s) : C \in T}
  BY <1>1, KeptLists
<1>3. Ascending(Kept(s, T))
  BY <1>2 DEF Ascending
<1>4. QED
  BY <1>2, <1>3 DEF D

LEMMA OmegaXIs ==
  ASSUME TableInv, ClassesInv, NEW x \in 1 .. Len(clsSetList), NEW y \in 1 .. Len(clsSetList)
  PROVE  /\ OmegaX(x, y) \in Seq(SUBSET Row) /\ Ascending(OmegaX(x, y))
         /\ ToSet(OmegaX(x, y)) =
              {C \in Blocks(searchLattice[x]) :
                 C \in Blocks(searchLattice[y]) /\ Cardinality(C) >= 2}
<1> DEFINE T == {C \in ToSet(clsSetList[y]) : Cardinality(C) >= 2}
           s == clsSetList[x]
<1>1. /\ s \in Seq(SUBSET Row) /\ ToSet(s) = Blocks(searchLattice[x])
      /\ \A i, j \in DOMAIN s : i < j => Least(s[i]) < Least(s[j])
  BY ClassSetIs
<1>2. Ascending(s)
  BY <1>1 DEF Ascending
<1>3. ToSet(clsSetList[y]) = Blocks(searchLattice[y])
  BY ClassSetIs
<1>4. OmegaX(x, y) = Kept(s, T)
  BY DEF OmegaX
<1> HIDE DEF s
<1>5. /\ Kept(s, T) \in Seq(SUBSET Row) /\ Ascending(Kept(s, T))
      /\ ToSet(Kept(s, T)) = {C \in ToSet(s) : C \in T}
  <2> HIDE DEF T
  <2>1. QED
    BY <1>1, <1>2, KeptAscends
<1>6. QED
  BY <1>1, <1>3, <1>4, <1>5

(* The classes with a row in q, and their first rows.                      *)
ClassesOf(q, X) == {ClassOf(r, X) : r \in q}

FirstRows(q, X) == {Least(ClassOf(r, X)) : r \in q}

(* If all classes of q are there, they are taken one after another.        *)
LEMMA CheckQComplete ==
  ASSUME Table, NEW omega \in Seq(SUBSET Row), Ascending(omega), NEW X,
         ToSet(omega) \subseteq Blocks(X), NEW q \in SUBSET Row, q # {},
         \A r \in q : ClassOf(r, X) \in ToSet(omega) /\ ClassOf(r, X) \subseteq q
  PROVE  LET index == checkQ(omega, q)
         IN  /\ index # <<>>
             /\ Len(index) = Cardinality(ClassesOf(q, X))
             /\ ToSet(index) = FirstRows(q, X)
<1> DEFINE left == Left(omega, q)
           n == Len(omega)
           Good(i) == left[i] = {r \in q : \A j \in 1 .. i : r \notin omega[j]}
           Bad == {i \in 0 .. n : ~ Good(i)}
<1>1. n \in Nat /\ DOMAIN omega = 1 .. n /\ \A i \in 1 .. n : omega[i] \in SUBSET Row
  OBVIOUS
<1>2. /\ left[0] = q
      /\ \A i \in 1 .. n :
           left[i] = IF IsHead(omega[i], left[i - 1]) THEN left[i - 1] \ omega[i] ELSE left[i - 1]
      /\ \A i \in 0 .. n : left[i] \subseteq q
  BY LeftIs
<1> HIDE DEF left, n
<1>3. ASSUME NEW i \in 1 .. n
      PROVE  /\ omega[i] \in Blocks(X) /\ omega[i] # {}
             /\ Least(omega[i]) \in omega[i] /\ \A r \in omega[i] : Least(omega[i]) <= r
             /\ \A r \in omega[i] : r \in Row /\ omega[i] = ClassOf(r, X)
  <2>1. omega[i] \in Blocks(X)
    BY <1>1 DEF ToSet
  <2>2. QED
    BY <1>1, <2>1, BlockFacts
<1>4. ASSUME NEW r \in q
      PROVE  /\ r \in Row /\ r \in Nat /\ r \in ClassOf(r, X)
             /\ \E j \in 1 .. n : omega[j] = ClassOf(r, X)
  <2>1. r \in Row /\ r \in Nat
    BY TableFacts
  <2>2. r \in ClassOf(r, X)
    BY <2>1, BlockFacts
  <2>3. ClassOf(r, X) \in ToSet(omega)
    OBVIOUS
  <2>4. QED
    BY <1>1, <2>1, <2>2, <2>3 DEF ToSet
<1>5. \A i, j \in 1 .. n : i < j => Least(omega[i]) < Least(omega[j])
  BY <1>1 DEF Ascending
<1>6. \A i \in 1 .. n : omega[i] \subseteq q \/ omega[i] \cap q = {}
  BY <1>3
<1>7. ASSUME NEW i \in 1 .. n, Good(i - 1)
      PROVE  Good(i) /\ (IsHead(omega[i], left[i - 1]) <=> omega[i] \subseteq q)
  <2> DEFINE l == left[i - 1]
             C == omega[i]
  <2>1. /\ l = {r \in q : \A j \in 1 .. (i - 1) : r \notin omega[j]}
        /\ left[i] = IF IsHead(C, l) THEN l \ C ELSE l
        /\ l \subseteq q
    BY <1>1, <1>2, <1>7
  <2>2. i \in Nat /\ 1 .. i = (1 .. (i - 1)) \cup {i}
    BY <1>1
  <2> HIDE DEF l
  <2>3. {r \in q : \A j \in 1 .. i : r \notin omega[j]} = {r \in l : r \notin C}
    BY <2>1, <2>2
  <2>4. CASE C \subseteq q
    <3>1. C \subseteq l
      <4>1. ASSUME NEW r \in C, NEW j \in 1 .. (i - 1), r \in omega[j]
            PROVE  FALSE
        <5>1. j \in 1 .. n /\ j < i
          BY <1>1
        <5>2. omega[j] = C
          BY <1>3, <4>1, <5>1
        <5>3. Least(omega[j]) < Least(omega[i]) /\ Least(omega[i]) \in Nat
          BY <1>3, <1>5, <5>1, TableFacts
        <5>4. QED
          BY <5>2, <5>3
      <4>2. QED
        BY <2>1, <2>4, <4>1
    <3>2. l # {} /\ l \in SUBSET Nat
      BY <1>3, <1>4, <2>1, <3>1
    <3> DEFINE m == Least(l)
    <3>3. m \in l /\ \A r \in l : m <= r
      BY <3>2, LeastIs
    <3> HIDE DEF m
    <3>4. m \in q /\ m \in Nat
      BY <2>1, <3>2, <3>3
    <3>5. PICK j \in 1 .. n : omega[j] = ClassOf(m, X)
      BY <1>4, <3>4
    <3>6. m \in omega[j] /\ Least(omega[j]) <= m
      BY <1>3, <1>4, <3>4, <3>5
    <3>7. j \notin 1 .. (i - 1)
      BY <2>1, <3>3, <3>6
    <3>8. Least(C) \in l /\ m <= Least(C) /\ Least(C) \in Nat
      BY <1>3, <3>1, <3>2, <3>3
    <3>9. j = i
      <4>1. ASSUME i < j
            PROVE  FALSE
        <5>1. Least(C) < Least(omega[j]) /\ Least(omega[j]) \in Nat
          BY <1>3, <1>5, <4>1, TableFacts
        <5>2. QED
          BY <3>4, <3>6, <3>8, <5>1
      <4>2. i \in Nat /\ j \in Nat /\ i >= 1 /\ j >= 1
        BY <1>1
      <4>3. QED
        BY <3>7, <4>1, <4>2
    <3>10. Least(C) = Least(l)
      BY <3>4, <3>6, <3>8, <3>9 DEF m
    <3>11. IsHead(C, l)
      BY <3>1, <3>2, <3>10 DEF IsHead
    <3>12. QED
      BY <2>1, <2>3, <2>4, <3>11 DEF l
  <2>5. CASE ~ C \subseteq q
    <3>1. ~ IsHead(C, l)
      BY <2>1, <2>5 DEF IsHead
    <3>2. C \cap q = {}
      BY <1>6, <2>5
    <3>3. QED
      BY <2>1, <2>3, <2>5, <3>1, <3>2 DEF l
  <2>6. QED
    BY <2>4, <2>5
<1>8. Good(0)
  <2>1. 1 .. 0 = {}
    OBVIOUS
  <2>2. QED
    BY <1>2, <2>1
<1>9. Bad = {}
  <2> HIDE DEF Good
  <2> SUFFICES ASSUME Bad # {}
               PROVE  FALSE
    OBVIOUS
  <2>1. Bad \in SUBSET Nat
    OBVIOUS
  <2> HIDE DEF Bad
  <2>2. PICK i \in Bad : \A l \in Bad : i <= l
    BY <2>1, LeastNat
  <2>3. i \in 0 .. n /\ ~ Good(i)
    BY <2>2 DEF Bad
  <2>4. i \in 1 .. n /\ i - 1 \in 0 .. n /\ ~ i <= i - 1
    BY <1>1, <1>8, <2>3
  <2>5. Good(i - 1)
    BY <2>2, <2>4 DEF Bad
  <2>6. QED
    BY <1>7, <2>3, <2>4, <2>5
<1>10. \A i \in 0 .. n : Good(i)
  <2> HIDE DEF Good
  <2>1. QED
    BY <1>9
<1>11. left[n] = {}
  <2>1. n \in 0 .. n
    BY <1>1
  <2>2. QED
    BY <1>4, <1>10, <2>1
<1> DEFINE T == Taken(omega, q)
           taken == Upwards(T)
           index == checkQ(omega, q)
           B == {ClassOf(r, X) : r \in q}
<1>12. T = {i \in 1 .. n : omega[i] \subseteq q}
  <2>1. \A i \in 1 .. n : i - 1 \in 0 .. n
    BY <1>1
  <2> HIDE DEF Good
  <2>2. \A i \in 1 .. n : IsHead(omega[i], left[i - 1]) <=> omega[i] \subseteq q
    BY <1>7, <1>10, <2>1
  <2>3. QED
    BY <1>1, <2>2 DEF T, Taken, left
<1>13. /\ IsFiniteSet(T) /\ Len(taken) = Cardinality(T)
       /\ \A k \in DOMAIN taken : taken[k] \in T
       /\ \A i \in T : \E k \in DOMAIN taken : taken[k] = i
       /\ DOMAIN index = DOMAIN taken /\ Len(index) = Len(taken)
       /\ \A k \in DOMAIN taken : index[k] = Least(omega[taken[k]])
  BY <1>11, CheckQIs DEF left, n
<1> HIDE DEF T, taken, index, Good, Bad
<1>14. \A i \in T : omega[i] \in B
  BY <1>3, <1>12
<1>15. \A r \in q : \E i \in T : omega[i] = ClassOf(r, X)
  BY <1>4, <1>12
<1>16. \A i, j \in T : omega[i] = omega[j] => i = j
  <2>1. ASSUME NEW i \in T, NEW j \in T, omega[i] = omega[j], i < j
        PROVE  FALSE
    <3>1. Least(omega[i]) < Least(omega[j]) /\ Least(omega[j]) \in Nat
      BY <1>3, <1>5, <1>12, <2>1, TableFacts
    <3>2. QED
      BY <2>1, <3>1
  <2>2. \A i \in T : i \in Nat
    BY <1>12
  <2>3. QED
    BY <2>1, <2>2
<1>17. Cardinality(T) = Cardinality(B)
  <2> DEFINE f == [i \in T |-> omega[i]]
  <2>1. f \in [T -> B]
    BY <1>14
  <2>2. \A i, j \in T : f[i] = f[j] => i = j
    BY <1>16
  <2>3. ASSUME NEW b \in B
        PROVE  \E i \in T : f[i] = b
    BY <1>15
  <2> HIDE DEF f, B
  <2>4. f \in Bijection(T, B)
    BY <2>1, <2>2, <2>3 DEF Bijection, Injection, Surjection, IsInjective
  <2>5. QED
    BY <1>13, <2>4, FS_Bijection DEF ExistsBijection
<1>18. ToSet(index) = {Least(ClassOf(r, X)) : r \in q}
  <2>1. \A k \in DOMAIN index : index[k] \in {Least(ClassOf(r, X)) : r \in q}
    BY <1>13, <1>14
  <2>2. \A r \in q : \E k \in DOMAIN index : index[k] = Least(ClassOf(r, X))
    BY <1>13, <1>15
  <2>3. QED
    BY <2>1, <2>2 DEF ToSet
<1>19. index # <<>>
  <2>1. \E k : k \in DOMAIN index
    BY <1>13, <1>15
  <2>2. QED
    BY <2>1
<1>20. QED
  BY <1>13, <1>17, <1>18, <1>19 DEF index, ClassesOf, FirstRows

(* The classes that are left for the next class of the condition.          *)
Unused(omega, q) ==
  Kept(omega, {C \in SUBSET Row : Least(C) \notin ToSet(checkQ(omega, q))})

IsOmega(f, c, x, y) ==
  f = [i \in 0 .. Len(clsSetList[c]) |->
         IF i = 0 THEN OmegaX(x, y)
         ELSE IF ~ IsTried(clsSetList[c][i]) THEN f[i - 1]
         ELSE Unused(f[i - 1], clsSetList[c][i])]

ClassLists == {s \in Seq(SUBSET Row) : Ascending(s)}

LEMMA UnusedIs ==
  ASSUME NEW omega \in ClassLists, NEW q
  PROVE  /\ Unused(omega, q) \in ClassLists
         /\ ToSet(Unused(omega, q)) =
              {C \in ToSet(omega) : Least(C) \notin ToSet(checkQ(omega, q))}
<1> DEFINE T == {C \in SUBSET Row : Least(C) \notin ToSet(checkQ(omega, q))}
           s == Kept(omega, T)
<1>1. omega \in Seq(SUBSET Row) /\ Ascending(omega)
  BY DEF ClassLists
<1>2. s \in Seq(SUBSET Row) /\ Ascending(s) /\ ToSet(s) = {C \in ToSet(omega) : C \in T}
  <2> HIDE DEF T
  <2>1. QED
    BY <1>1, KeptAscends
<1>3. ToSet(omega) \in SUBSET (SUBSET Row)
  BY <1>1 DEF ToSet
<1>4. Unused(omega, q) = s
  BY DEF Unused
<1> HIDE DEF s
<1>5. {C \in ToSet(omega) : C \in T} =
        {C \in ToSet(omega) : Least(C) \notin ToSet(checkQ(omega, q))}
  <2>1. \A C \in ToSet(omega) : C \in T <=> Least(C) \notin ToSet(checkQ(omega, q))
    BY <1>3
  <2> HIDE DEF T
  <2>2. QED
    BY <2>1
<1>6. QED
  BY <1>2, <1>4, <1>5 DEF ClassLists

LEMMA OmegaExists ==
  ASSUME TableInv, ClassesInv, NEW c \in 1 .. Len(clsSetList),
         NEW x \in 1 .. Len(clsSetList), NEW y \in 1 .. Len(clsSetList)
  PROVE  IsOmega(Omega(c, x, y), c, x, y)
<1> DEFINE D == ClassLists
           n == Len(clsSetList[c])
           g == [p \in (1 .. n) \X D |->
                   IF ~ IsTried(clsSetList[c][p[1]]) THEN p[2]
                   ELSE Unused(p[2], clsSetList[c][p[1]])]
<1>1. n \in Nat
  <2>1. clsSetList[c] \in Seq(SUBSET Row)
    BY ClassSetIs
  <2>2. QED
    BY <2>1
<1>2. OmegaX(x, y) \in D
  BY OmegaXIs DEF ClassLists
<1>3. g \in [(1 .. n) \X D -> D]
  <2>1. ASSUME NEW i \in 1 .. n, NEW d \in D
        PROVE  (IF ~ IsTried(clsSetList[c][i]) THEN d ELSE Unused(d, clsSetList[c][i])) \in D
    BY UnusedIs
  <2> HIDE DEF D, n
  <2>2. QED
    BY <2>1
<1>4. \A i \in 1 .. n, d \in D :
        g[<<i, d>>] = IF ~ IsTried(clsSetList[c][i]) THEN d ELSE Unused(d, clsSetList[c][i])
  <2> HIDE DEF D, n
  <2>1. QED
    OBVIOUS
<1> HIDE DEF g, D, n
<1>5. PICK f : Recurs(f, D, OmegaX(x, y), n, g)
  BY <1>1, <1>2, <1>3, Recursion
<1>6. ASSUME NEW i \in 0 .. n
      PROVE  f[i] = IF i = 0 THEN OmegaX(x, y)
                    ELSE IF ~ IsTried(clsSetList[c][i]) THEN f[i - 1]
                    ELSE Unused(f[i - 1], clsSetList[c][i])
  <2>1. CASE i = 0
    BY <1>5, <2>1 DEF Recurs
  <2>2. CASE i # 0
    <3>1. i \in 1 .. n /\ i - 1 \in 0 .. n
      BY <1>1, <2>2
    <3>2. f[i - 1] \in D
      BY <1>5, <3>1 DEF Recurs
    <3>3. f[i] = g[<<i, f[i - 1]>>]
      BY <1>5, <3>1 DEF Recurs
    <3>4. QED
      BY <1>4, <2>2, <3>1, <3>2, <3>3
  <2>3. QED
    BY <2>1, <2>2
<1>7. IsOmega(f, c, x, y)
  <2>1. f = [i \in 0 .. n |-> f[i]]
    BY <1>5 DEF Recurs
  <2>2. QED
    BY <1>6, <2>1 DEF IsOmega, n
<1>8. QED
  BY <1>7 DEF Omega, IsOmega, Unused

(* Only classes without a row of the classes tried so far stay for sure.   *)
LEMMA OmegaIs ==
  ASSUME TableInv, ClassesInv, NEW c \in 1 .. Len(clsSetList),
         NEW x \in 1 .. Len(clsSetList), NEW y \in 1 .. Len(clsSetList),
         NEW k \in 0 .. Len(clsSetList[c])
  PROVE  /\ Omega(c, x, y)[k] \in ClassLists
         /\ ToSet(Omega(c, x, y)[k]) \subseteq ToSet(OmegaX(x, y))
         /\ \A C \in ToSet(OmegaX(x, y)) :
              (\A j \in 1 .. k : clsSetList[c][j] \cap C = {}) => C \in ToSet(Omega(c, x, y)[k])
<1> DEFINE n == Len(clsSetList[c])
           f == Omega(c, x, y)
           q(i) == clsSetList[c][i]
           O == OmegaX(x, y)
           Good(i) == /\ f[i] \in ClassLists /\ ToSet(f[i]) \subseteq ToSet(O)
                      /\ \A C \in ToSet(O) : (\A j \in 1 .. i : q(j) \cap C = {}) => C \in ToSet(f[i])
           Bad == {i \in 0 .. n : ~ Good(i)}
<1>1. n \in Nat
      /\ \A i \in 1 .. n : q(i) \in SUBSET Row /\ q(i) # {}
  <2>1. clsSetList[c] \in Seq(SUBSET Row) /\ DOMAIN clsSetList[c] = 1 .. n
        /\ \A i \in DOMAIN clsSetList[c] : clsSetList[c][i] \in Blocks(searchLattice[c])
    BY ClassSetIs
  <2>2. \A C \in Blocks(searchLattice[c]) : C # {} /\ C \in SUBSET Row
    BY BlockFacts DEF TableInv
  <2>3. QED
    BY <2>1, <2>2
<1>2. \A i \in 0 .. n : f[i] = IF i = 0 THEN O ELSE IF ~ IsTried(q(i)) THEN f[i - 1]
                                ELSE Unused(f[i - 1], q(i))
  <2> DEFINE h == [i \in 0 .. n |-> IF i = 0 THEN O ELSE IF ~ IsTried(q(i)) THEN f[i - 1]
                                    ELSE Unused(f[i - 1], q(i))]
  <2>1. f = h
    BY OmegaExists DEF IsOmega
  <2>2. \A i \in 0 .. n : h[i] = IF i = 0 THEN O ELSE IF ~ IsTried(q(i)) THEN f[i - 1]
                                  ELSE Unused(f[i - 1], q(i))
    OBVIOUS
  <2> HIDE DEF h
  <2>3. QED
    BY <2>1, <2>2
<1>3. O \in ClassLists /\ \A C \in ToSet(O) : Least(C) \in C
  <2>1. \A C \in ToSet(O) : C \in Blocks(searchLattice[x])
    BY OmegaXIs
  <2>2. QED
    BY <2>1, OmegaXIs, BlockFacts DEF ClassLists, TableInv
<1> HIDE DEF f, O, n, q
<1>4. Good(0)
  <2>1. 0 \in 0 .. n
    BY <1>1
  <2>2. f[0] = O
    BY <1>2, <2>1
  <2>3. QED
    BY <1>3, <2>2
<1>5. ASSUME NEW i \in 1 .. n, Good(i - 1)
      PROVE  Good(i)
  <2>1. i \in 0 .. n /\ i # 0 /\ i \in 1 .. i /\ \A j \in 1 .. (i - 1) : j \in 1 .. i
    BY <1>1
  <2>2. f[i] = IF ~ IsTried(q(i)) THEN f[i - 1] ELSE Unused(f[i - 1], q(i))
    BY <1>2, <2>1
  <2>3. CASE ~ IsTried(q(i))
    <3>1. f[i] = f[i - 1]
      BY <2>2, <2>3
    <3>2. QED
      BY <1>5, <2>1, <3>1
  <2>4. CASE IsTried(q(i))
    <3> DEFINE omega == f[i - 1]
    <3>1. f[i] = Unused(omega, q(i)) /\ omega \in ClassLists
      BY <1>5, <2>2, <2>4
    <3> HIDE DEF omega
    <3>2. /\ f[i] \in ClassLists
          /\ ToSet(f[i]) = {C \in ToSet(omega) : Least(C) \notin ToSet(checkQ(omega, q(i)))}
      BY <3>1, UnusedIs
    <3>3. \A r \in ToSet(checkQ(omega, q(i))) : r \in q(i)
      <4>1. Table /\ omega \in Seq(SUBSET Row) /\ q(i) \in SUBSET Row /\ q(i) # {}
        BY <1>1, <3>1 DEF ClassLists, TableInv
      <4>2. QED
        BY <4>1, CheckQSound
    <3>4. ASSUME NEW C \in ToSet(O), \A j \in 1 .. i : q(j) \cap C = {}
          PROVE  C \in ToSet(f[i])
      <4>1. C \in ToSet(omega)
        BY <1>5, <2>1, <3>4 DEF omega
      <4>2. Least(C) \in C /\ q(i) \cap C = {}
        BY <1>3, <2>1, <3>4
      <4>3. QED
        BY <3>2, <3>3, <4>1, <4>2
    <3>5. ToSet(f[i]) \subseteq ToSet(O)
      BY <1>5, <3>2 DEF omega
    <3>6. QED
      BY <3>2, <3>4, <3>5
  <2>5. QED
    BY <2>3, <2>4
<1>6. Bad = {}
  <2> HIDE DEF Good
  <2> SUFFICES ASSUME Bad # {}
               PROVE  FALSE
    OBVIOUS
  <2>1. Bad \in SUBSET Nat
    OBVIOUS
  <2> HIDE DEF Bad
  <2>2. PICK i \in Bad : \A l \in Bad : i <= l
    BY <2>1, LeastNat
  <2>3. i \in 0 .. n /\ ~ Good(i)
    BY <2>2 DEF Bad
  <2>4. i \in 1 .. n /\ i - 1 \in 0 .. n /\ ~ i <= i - 1
    BY <1>1, <1>4, <2>3
  <2>5. Good(i - 1)
    BY <2>2, <2>4 DEF Bad
  <2>6. QED
    BY <1>5, <2>3, <2>4, <2>5
<1>7. Good(k)
  <2> HIDE DEF Good
  <2>1. k \in 0 .. n
    BY DEF n
  <2>2. QED
    BY <1>6, <2>1
<1>8. QED
  BY <1>7 DEF f, O, q

-----------------------------------------------------------------------------
(* Rules with a condition.                                                 *)

RuleHolds(rule) ==
  LET rows == Affected(rule)
  IN  /\ Determines(DOMAIN rule.cond \cup rule.vars, rule.to, rows)
      /\ rule.value # Null => \A r \in rows : data[r][rule.to] = rule.value
      /\ rule.cond # <<>> => Cardinality(rows) > 1 /\ Enough(Cardinality(rows))

BlocksIn(rows, S) == {{t \in rows : Agree(s, t, S)} : s \in rows}

(* The rules found for S -> a under every condition that has them.         *)
HasConditional(S, a, Q, r) ==
  /\ Enough(Cardinality(ClassOf(r, Q)))
  /\ \A B \in BlocksIn(ClassOf(r, Q), S) : Cardinality(B) > 1
  /\ Determines(S, a, ClassOf(r, Q))

IsConditional(rule, S, a, Q, r) ==
  /\ rule.cond = [b \in Q |-> data[r][b]] /\ rule.to = a
  /\ rule.vars = IF Cardinality(BlocksIn(ClassOf(r, Q), S)) = 1 THEN {} ELSE S \ Q

FoundFor(S, a, rules) ==
  \A Q \in (SUBSET S) \ {{}}, r \in Row :
    HasConditional(S, a, Q, r) => \E rule \in rules : IsConditional(rule, S, a, Q, r)

LEMMA CFDIs ==
  ASSUME NEW Q, NEW P, NEW a, NEW index
  PROVE  /\ CFD(Q, P, a, index).cond = [b \in Q |-> data[index[1]][b]]
         /\ CFD(Q, P, a, index).vars = IF Len(index) = 1 THEN {} ELSE P
         /\ CFD(Q, P, a, index).to = a
         /\ CFD(Q, P, a, index).value = IF Len(index) = 1 THEN data[index[1]][a] ELSE Null
BY DEF CFD

LEMMA RulesSound ==
  ASSUME TableInv, ClassesInv, Len(clsSetList) = NNodes,
         NEW x \in 1 .. NNodes, NEW y \in 1 .. NNodes, NEW a, Adds(x, y, a),
         NEW c \in 1 .. NNodes, searchLattice[c] \subseteq searchLattice[x],
         NEW rule \in RulesWith(c, x, y)
  PROVE  RuleHolds(rule) /\ rule.cond # <<>>
<1> DEFINE Q == searchLattice[c]
           X == searchLattice[x]
           Y == searchLattice[y]
<1>1. Table /\ a \in Attr /\ a \notin X /\ Y = X \cup {a} /\ Q # {} /\ Q \subseteq X
  BY LatticeIs DEF Adds, TableInv
<1>2. (CHOOSE b \in Y : b \notin X) = a
  BY AddsOnlyOne
<1>3. PICK i \in DOMAIN clsSetList[c] :
        LET q == clsSetList[c][i]
            index == checkQ(Omega(c, x, y)[i - 1], q)
        IN  IsTried(q) /\ index # <<>> /\ rule = CFD(Q, X \ Q, a, index)
  BY <1>2 DEF RulesWith
<1> DEFINE q == clsSetList[c][i]
           omega == Omega(c, x, y)[i - 1]
           index == checkQ(omega, q)
<1>4. /\ IsTried(q) /\ index # <<>> /\ rule = CFD(Q, X \ Q, a, index)
  BY <1>3
<1>5. /\ q \in Blocks(Q) /\ DOMAIN clsSetList[c] = 1 .. Len(clsSetList[c])
      /\ clsSetList[c] \in Seq(SUBSET Row)
  BY ClassSetIs
<1>6. q \in SUBSET Row /\ q # {} /\ \A r \in q : q = ClassOf(r, Q)
  BY <1>1, <1>5, BlockFacts
<1>7. omega \in Seq(SUBSET Row) /\ ToSet(omega) \subseteq ToSet(OmegaX(x, y))
  <2>1. i - 1 \in 0 .. Len(clsSetList[c])
    BY <1>5
  <2>2. QED
    BY <2>1, OmegaIs DEF ClassLists
<1>8. ASSUME NEW j \in DOMAIN omega
      PROVE  omega[j] \in Blocks(X) /\ omega[j] \in Blocks(Y)
  <2>1. omega[j] \in ToSet(OmegaX(x, y))
    BY <1>7 DEF ToSet
  <2>2. QED
    BY <2>1, OmegaXIs
<1> HIDE DEF q, omega, index, Q, X, Y
<1>9. /\ 1 \in DOMAIN index /\ index[1] \in q
      /\ \A r \in q : \E j \in DOMAIN omega : r \in omega[j]
      /\ Len(index) = 1 => \E j \in DOMAIN omega : q \subseteq omega[j]
  BY <1>1, <1>4, <1>6, <1>7, CheckQSound DEF index
<1> DEFINE R == index[1]
<1>10. /\ rule.cond = [b \in Q |-> data[R][b]]
       /\ rule.vars = IF Len(index) = 1 THEN {} ELSE X \ Q
       /\ rule.to = a
       /\ rule.value = IF Len(index) = 1 THEN data[R][a] ELSE Null
  BY <1>4, CFDIs
<1>11. DOMAIN rule.cond = Q /\ \A b \in Q : rule.cond[b] = data[R][b]
  BY <1>10
<1>12. rule.cond # <<>>
  BY <1>1, <1>11
<1>13. Affected(rule) = q
  <2>1. q = ClassOf(R, Q)
    BY <1>6, <1>9
  <2>2. Affected(rule) = {t \in Row : Agree(R, t, Q)}
    BY <1>11 DEF Affected, Agree
  <2>3. QED
    BY <2>1, <2>2 DEF ClassOf
<1>14. ASSUME NEW j \in DOMAIN omega, NEW r \in omega[j], NEW s \in omega[j]
       PROVE  data[r][a] = data[s][a]
  <2>1. omega[j] \in Blocks(Y)
    BY <1>8
  <2>2. omega[j] = ClassOf(r, Y)
    BY <1>1, <2>1, BlockFacts
  <2>3. a \in Y
    BY <1>1
  <2>4. QED
    BY <2>2, <2>3 DEF ClassOf, Agree
<1>15. CASE Len(index) = 1
  <2>1. PICK j \in DOMAIN omega : q \subseteq omega[j]
    BY <1>9, <1>15
  <2>2. \A r, s \in q : data[r][a] = data[s][a]
    BY <1>14, <2>1
  <2>3. \A S : Determines(S, a, q)
    BY <2>2 DEF Determines
  <2>4. \A r \in q : data[r][rule.to] = rule.value
    BY <1>9, <1>10, <1>15, <2>2
  <2>5. Determines(DOMAIN rule.cond \cup rule.vars, rule.to, q)
    BY <1>10, <2>3
  <2>6. QED
    BY <1>4, <1>12, <1>13, <2>4, <2>5 DEF RuleHolds, IsTried
<1>16. CASE Len(index) # 1
  <2>1. DOMAIN rule.cond \cup rule.vars = X
    BY <1>1, <1>10, <1>11, <1>16
  <2>2. ASSUME NEW r \in q, NEW s \in q, Agree(r, s, X)
        PROVE  data[r][a] = data[s][a]
    <3>1. PICK j \in DOMAIN omega : r \in omega[j]
      BY <1>9
    <3>2. omega[j] = ClassOf(r, X)
      BY <1>1, <1>8, <3>1, BlockFacts
    <3>3. s \in omega[j]
      BY <1>6, <2>2, <3>2 DEF ClassOf
    <3>4. QED
      BY <1>14, <3>1, <3>3
  <2>3. Determines(X, a, q)
    BY <2>2 DEF Determines
  <2>4. QED
    BY <1>4, <1>10, <1>12, <1>13, <1>16, <2>1, <2>3 DEF RuleHolds, IsTried
<1>17. QED
  BY <1>12, <1>15, <1>16

(* The rows of a condition are one of its classes, and those of them that  *)
(* agree on S are one of S.                                                *)
LEMMA ConditionClasses ==
  ASSUME Table, NEW S, NEW Q \in SUBSET S, NEW a, NEW r \in Row, HasConditional(S, a, Q, r)
  PROVE  LET q == ClassOf(r, Q)
         IN  /\ q \in SUBSET Row /\ q \in Blocks(Q) /\ q # {} /\ IsTried(q)
             /\ BlocksIn(q, S) = {ClassOf(s, S) : s \in q}
             /\ \A s \in q : /\ ClassOf(s, S) \subseteq q /\ ClassOf(s, S) \in Blocks(S)
                             /\ ClassOf(s, S) = ClassOf(s, S \cup {a})
                             /\ Cardinality(ClassOf(s, S)) >= 2
<1> DEFINE q == ClassOf(r, Q)
<1>1. q \in SUBSET Row /\ q \in Blocks(Q) /\ r \in q
  BY BlockFacts
<1>2. ASSUME NEW s \in q
      PROVE  /\ {t \in q : Agree(s, t, S)} = ClassOf(s, S)
             /\ ClassOf(s, S) \subseteq q
  <2>1. \A t \in Row : Agree(s, t, S) => t \in q
    BY DEF ClassOf, Agree
  <2>2. QED
    BY <1>1, <2>1 DEF ClassOf
<1>3. BlocksIn(q, S) = {ClassOf(s, S) : s \in q}
  BY <1>2 DEF BlocksIn
<1> HIDE DEF q
<1>4. ASSUME NEW s \in q
      PROVE  /\ ClassOf(s, S) \in Blocks(S) /\ Cardinality(ClassOf(s, S)) >= 2
             /\ ClassOf(s, S) = ClassOf(s, S \cup {a})
             /\ IsFiniteSet(ClassOf(s, S)) /\ Cardinality(ClassOf(s, S)) \in Nat
  <2>1. s \in Row /\ ClassOf(s, S) \in SUBSET Row
    BY <1>1 DEF ClassOf
  <2>2. ClassOf(s, S) \in Blocks(S)
    BY <2>1, BlockFacts
  <2>3. IsFiniteSet(ClassOf(s, S)) /\ Cardinality(ClassOf(s, S)) \in Nat
    BY <2>1, TableFacts
  <2>4. Cardinality(ClassOf(s, S)) > 1
    BY <1>3 DEF HasConditional, q
  <2>5. Determines(S, a, q) /\ s \in q
    BY DEF HasConditional, q
  <2>6. \A t \in Row : Agree(s, t, S) <=> Agree(s, t, S \cup {a})
    <3>1. ASSUME NEW t \in Row, Agree(s, t, S)
          PROVE  data[s][a] = data[t][a]
      <4>1. t \in q
        BY <1>2, <3>1 DEF ClassOf
      <4>2. QED
        BY <2>5, <3>1, <4>1 DEF Determines
    <3>2. QED
      BY <3>1 DEF Agree
  <2>7. ClassOf(s, S) = ClassOf(s, S \cup {a})
    BY <2>6 DEF ClassOf
  <2>8. QED
    BY <2>2, <2>3, <2>4, <2>7
<1>5. IsTried(q)
  <2>1. ClassOf(r, S) \subseteq q
    BY <1>1, <1>2
  <2>2. /\ IsFiniteSet(q) /\ Cardinality(q) \in Nat
    BY <1>1, TableFacts
  <2>3. Cardinality(ClassOf(r, S)) <= Cardinality(q)
    BY <2>1, <2>2, FS_Subset
  <2>4. Cardinality(q) > 1
    BY <1>1, <1>4, <2>2, <2>3
  <2>5. Enough(Cardinality(q))
    BY DEF HasConditional, q
  <2>6. QED
    BY <2>4, <2>5 DEF IsTried
<1>6. QED
  BY <1>1, <1>2, <1>3, <1>4, <1>5 DEF q

LEMMA ConditionalFound ==
  ASSUME TableInv, ClassesInv, Len(clsSetList) = NNodes,
         NEW x \in 1 .. NNodes, NEW y \in 1 .. NNodes, NEW a, Adds(x, y, a),
         NEW c \in 1 .. NNodes, searchLattice[c] \subseteq searchLattice[x],
         NEW r \in Row, HasConditional(searchLattice[x], a, searchLattice[c], r)
  PROVE  /\ OmegaX(x, y) # <<>>
         /\ \E i \in DOMAIN clsSetList[c] : Enough(Cardinality(clsSetList[c][i]))
         /\ \E rule \in RulesWith(c, x, y) :
              IsConditional(rule, searchLattice[x], a, searchLattice[c], r)
<1> DEFINE Q == searchLattice[c]
           X == searchLattice[x]
           Y == searchLattice[y]
           q == ClassOf(r, Q)
<1>1. Table /\ a \in Attr /\ a \notin X /\ Y = X \cup {a} /\ Q # {} /\ Q \subseteq X
  BY LatticeIs DEF Adds, TableInv
<1>2. (CHOOSE b \in Y : b \notin X) = a
  BY AddsOnlyOne
<1>3. /\ q \in SUBSET Row /\ q \in Blocks(Q) /\ q # {} /\ IsTried(q)
      /\ BlocksIn(q, X) = {ClassOf(s, X) : s \in q}
      /\ \A s \in q : /\ ClassOf(s, X) \subseteq q /\ ClassOf(s, X) \in Blocks(X)
                      /\ ClassOf(s, X) = ClassOf(s, X \cup {a})
                      /\ Cardinality(ClassOf(s, X)) >= 2
  BY <1>1, ConditionClasses
<1>4. PICK i \in DOMAIN clsSetList[c] : clsSetList[c][i] = q
  <2>1. ToSet(clsSetList[c]) = Blocks(Q)
    BY ClassSetIs
  <2>2. QED
    BY <1>3, <2>1 DEF ToSet
<1>5. /\ DOMAIN clsSetList[c] = 1 .. Len(clsSetList[c]) /\ Len(clsSetList[c]) \in Nat
      /\ \A j \in DOMAIN clsSetList[c] : clsSetList[c][j] \in Blocks(Q)
      /\ \A j, k \in DOMAIN clsSetList[c] : clsSetList[c][j] = clsSetList[c][k] => j = k
  <2>1. clsSetList[c] \in Seq(SUBSET Row)
    BY ClassSetIs
  <2>2. QED
    BY <2>1, ClassSetIs
<1> DEFINE O == OmegaX(x, y)
           omega == Omega(c, x, y)[i - 1]
           index == checkQ(omega, q)
<1> HIDE DEF q, X, Y, Q
<1>6. ASSUME NEW s \in q
      PROVE  ClassOf(s, X) \in ToSet(O) /\ ClassOf(s, X) \subseteq q
  <2>1. s \in Row
    BY <1>3
  <2>2. ClassOf(s, Y) \in Blocks(Y)
    BY <1>1, <2>1, BlockFacts
  <2>3. ClassOf(s, X) \in Blocks(Y)
    BY <1>1, <1>3, <2>2
  <2>4. ToSet(O) = {C \in Blocks(X) : C \in Blocks(Y) /\ Cardinality(C) >= 2}
    BY OmegaXIs DEF X, Y
  <2>5. QED
    BY <1>3, <2>3, <2>4
<1>7. i - 1 \in 0 .. Len(clsSetList[c]) /\ i \in Nat
  BY <1>5
<1>8. /\ omega \in Seq(SUBSET Row) /\ Ascending(omega)
      /\ ToSet(omega) \subseteq ToSet(O)
      /\ \A C \in ToSet(O) :
           (\A j \in 1 .. (i - 1) : clsSetList[c][j] \cap C = {}) => C \in ToSet(omega)
  BY <1>7, OmegaIs DEF ClassLists
<1>9. ASSUME NEW j \in 1 .. (i - 1)
      PROVE  clsSetList[c][j] \cap q = {}
  <2>1. j \in DOMAIN clsSetList[c] /\ j # i
    BY <1>5, <1>7
  <2>2. clsSetList[c][j] \in Blocks(Q) /\ clsSetList[c][j] # q
    BY <1>4, <1>5, <2>1
  <2>3. Apart(Blocks(Q))
    BY <1>1, BlocksApart
  <2>4. QED
    BY <1>3, <2>2, <2>3 DEF Apart
<1> HIDE DEF omega, O
<1>10. \A s \in q : ClassOf(s, X) \in ToSet(omega) /\ ClassOf(s, X) \subseteq q
  <2>1. ASSUME NEW s \in q
        PROVE  ClassOf(s, X) \in ToSet(omega)
    <3>1. ClassOf(s, X) \in ToSet(O) /\ ClassOf(s, X) \subseteq q
      BY <1>6
    <3>2. \A j \in 1 .. (i - 1) : clsSetList[c][j] \cap ClassOf(s, X) = {}
      BY <1>9, <3>1
    <3>3. QED
      BY <1>8, <3>1, <3>2
  <2>2. QED
    BY <1>6, <2>1
<1>11. ToSet(omega) \subseteq Blocks(X)
  <2>1. ToSet(O) \subseteq Blocks(X)
    BY OmegaXIs DEF O, X
  <2>2. QED
    BY <1>8, <2>1
<1>12. /\ index # <<>>
       /\ Len(index) = Cardinality({ClassOf(s, X) : s \in q})
       /\ ToSet(index) = {Least(ClassOf(s, X)) : s \in q}
  <2>1. /\ Table /\ omega \in Seq(SUBSET Row) /\ Ascending(omega)
        /\ ToSet(omega) \subseteq Blocks(X) /\ q \in SUBSET Row /\ q # {}
    BY <1>1, <1>3, <1>8, <1>11
  <2>2. /\ checkQ(omega, q) # <<>>
        /\ Len(checkQ(omega, q)) = Cardinality(ClassesOf(q, X))
        /\ ToSet(checkQ(omega, q)) = FirstRows(q, X)
    BY <1>10, <2>1, CheckQComplete
  <2>3. QED
    BY <2>2 DEF ClassesOf, FirstRows
<1>13. 1 \in DOMAIN index /\ index[1] \in q
  BY <1>1, <1>3, <1>8, <1>12, CheckQSound
<1> HIDE DEF index
<1>14. Enough(support(y, index))
  <2>1. ToSet(clsSetList[y]) = Blocks(Y)
    BY ClassSetIs DEF Y
  <2> DEFINE inY == {C \in ToSet(clsSetList[y]) : Least(C) \in ToSet(index)}
  <2>2. ASSUME NEW s \in q
        PROVE  \E C \in inY : s \in C
    <3>1. s \in Row
      BY <1>3
    <3>2. ClassOf(s, X) = ClassOf(s, Y) /\ ClassOf(s, Y) \in Blocks(Y) /\ s \in ClassOf(s, Y)
      BY <1>1, <1>3, <3>1, BlockFacts
    <3>3. QED
      BY <1>12, <2>1, <3>2
  <2>3. ASSUME NEW C \in inY
        PROVE  C \subseteq q
    <3>1. C \in Blocks(Y) /\ Least(C) \in ToSet(index)
      BY <2>1
    <3>2. PICK s \in q : Least(C) = Least(ClassOf(s, X))
      BY <1>12, <3>1
    <3>3. ClassOf(s, X) \in Blocks(X) /\ ClassOf(s, X) \subseteq q
          /\ ClassOf(s, X) = ClassOf(s, Y)
      BY <1>1, <1>3
    <3>4. s \in Row /\ ClassOf(s, Y) \in Blocks(Y)
      BY <1>1, <1>3, BlockFacts
    <3>5. Least(C) \in C /\ Least(C) \in ClassOf(s, Y)
      BY <1>1, <3>1, <3>2, <3>3, <3>4, BlockFacts
    <3>6. C = ClassOf(Least(C), Y) /\ ClassOf(s, Y) = ClassOf(Least(C), Y)
      BY <1>1, <3>1, <3>4, <3>5, BlockFacts
    <3>7. QED
      BY <3>3, <3>6
  <2> HIDE DEF inY
  <2>4. UNION inY = q
    BY <2>2, <2>3
  <2>5. Enough(Cardinality(q))
    BY <1>3 DEF IsTried
  <2>6. QED
    BY <2>4, <2>5 DEF support, inY
<1> DEFINE rule == CFD(Q, X \ Q, a, index)
<1>15. rule \in RulesWith(c, x, y)
  <2>1. IsTried(clsSetList[c][i]) /\ checkQ(omega, clsSetList[c][i]) = index
    BY <1>3, <1>4 DEF index
  <2>2. QED
    BY <1>2, <1>12, <1>14, <2>1 DEF RulesWith, omega, X, Y, Q
<1>16. IsConditional(rule, X, a, Q, r)
  <2>1. /\ rule.cond = [b \in Q |-> data[index[1]][b]]
        /\ rule.vars = IF Len(index) = 1 THEN {} ELSE X \ Q
        /\ rule.to = a
    BY CFDIs
  <2>2. \A b \in Q : data[index[1]][b] = data[r][b]
    BY <1>13 DEF q, ClassOf, Agree
  <2>3. [b \in Q |-> data[index[1]][b]] = [b \in Q |-> data[r][b]]
    BY <2>2
  <2>4. Len(index) = Cardinality(BlocksIn(q, X))
    BY <1>3, <1>12
  <2> HIDE DEF rule
  <2>5. QED
    BY <2>1, <2>3, <2>4 DEF IsConditional, q
<1>17. O # <<>>
  <2>1. \E C : C \in ToSet(O)
    BY <1>3, <1>6
  <2>2. QED
    BY <2>1 DEF ToSet
<1>18. Enough(Cardinality(clsSetList[c][i]))
  BY <1>3, <1>4 DEF IsTried
<1>19. QED
  BY <1>15, <1>16, <1>17, <1>18 DEF O, X, Q

-----------------------------------------------------------------------------
(* The walk.                                                               *)

ShapeInv ==
  /\ TableInv /\ ClassesInv
  /\ IF doing = "partition" THEN Len(clsSetList) < NNodes ELSE Len(clsSetList) = NNodes
  /\ doing \in {"partition", "graph"} => CL = {} /\ cursor = <<1, 1>>
  /\ tidy \in SUBSET (1 .. NNodes)

Walking == doing \in {"rules", "done"}

ConditionInv ==
  /\ Qc \in Seq(1 .. NNodes)
  /\ \A n \in 1 .. NNodes :
       (\E i \in DOMAIN clsSetList[n] : Enough(Cardinality(clsSetList[n][i])))
         => n \in ToSet(Qc)

CursorInv ==
  /\ cursor = <<cursor[1], cursor[2]>> /\ cursor[1] \in 1 .. NNodes
  /\ cursor[2] \in Nat /\ cursor[2] >= 1
  /\ doing = "done" => cursor[1] = NNodes /\ cursor[2] > Len(edges[NNodes])

(* A cursor at that place has passed the k-th edge of node n.              *)
Passed(n, k, at) == n < at[1] \/ (n = at[1] /\ k < at[2])

(* Edges that are gone are implied; those passed have given their rules;   *)
(* a dependency that was found leaves no edge it makes redundant.          *)
PruningInv(e) ==
  \A n \in 1 .. NNodes : \A a \in Attr \ searchLattice[n] :
    Absent(e, n, a) => Implied(searchLattice[n], a)

Given(n, a, rules) ==
  IF Determines(searchLattice[n], a, Row)
  THEN FD(searchLattice[n], a) \in rules
  ELSE HeaderSorted => FoundFor(searchLattice[n], a, rules)

PassedInv(e, at, rules) ==
  \A n \in 1 .. NNodes : \A k \in DOMAIN e[n] : \A a \in Attr :
    Passed(n, k, at) /\ Adds(n, e[n][k], a) => Given(n, a, rules)

ClearedInv(e, rules) ==
  HeaderSorted => \A n \in 1 .. NNodes : \A a : FD(searchLattice[n], a) \in rules =>
    \A m \in 1 .. NNodes :
      /\ searchLattice[n] \subseteq searchLattice[m] /\ searchLattice[n] # searchLattice[m]
      /\ a \notin searchLattice[m]
      => Absent(e, m, a)

MinimalInv(rules) ==
  HeaderSorted => \A rule \in rules : rule.cond = <<>> => rule \in MinimalFDs

RulesInv ==
  /\ ShapeInv
  /\ Walking => /\ IsEdges(edges) /\ ConditionInv /\ CursorInv
                /\ PruningInv(edges) /\ PassedInv(edges, cursor, CL)
                /\ ClearedInv(edges, CL) /\ MinimalInv(CL)
  /\ \A rule \in CL : RuleHolds(rule)

LEMMA GivenMore ==
  ASSUME NEW n, NEW a, NEW rules, NEW more, rules \subseteq more, Given(n, a, rules)
  PROVE  Given(n, a, more)
BY DEF Given, FoundFor

(* The rules that a walk has found at its end.                             *)
LEMMA RulesAtEnd ==
  ASSUME RulesInv
  PROVE  RulesExact
<1>1. RulesHold
  BY DEF RulesInv, RulesHold, RuleHolds
<1>2. Table /\ TableInv
  BY DEF RulesInv, ShapeInv, TableInv
<1>3. ASSUME doing = "done"
      PROVE  /\ IsEdges(edges) /\ PruningInv(edges) /\ PassedInv(edges, cursor, CL)
             /\ MinimalInv(CL)
             /\ cursor[1] = NNodes /\ cursor[2] \in Nat /\ cursor[2] > Len(edges[NNodes])
  BY <1>3 DEF RulesInv, Walking, CursorInv
<1>4. ASSUME doing = "done", NEW n \in 1 .. NNodes, NEW a \in Attr, a \notin searchLattice[n],
             ~ Implied(searchLattice[n], a)
      PROVE  Given(n, a, CL)
  <2>1. /\ IsEdges(edges) /\ PruningInv(edges) /\ PassedInv(edges, cursor, CL)
        /\ cursor[1] = NNodes /\ cursor[2] \in Nat /\ cursor[2] > Len(edges[NNodes])
    BY <1>3, <1>4
  <2>2. PICK k \in DOMAIN edges[n] : Adds(n, edges[n][k], a)
    BY <1>4, <2>1 DEF PruningInv, Absent
  <2>3. NNodes \in Nat
    BY <1>2, LatticeIs
  <2> DEFINE N == 1 .. NNodes
  <2>4. DOMAIN edges[n] = 1 .. Len(edges[n]) /\ Len(edges[n]) \in Nat
    <3>1. edges \in [N -> Seq(N)] /\ n \in N
      BY <2>1 DEF IsEdges
    <3> HIDE DEF N
    <3>2. edges[n] \in Seq(N)
      BY <3>1
    <3>3. QED
      BY <3>2
  <2>5. Passed(n, k, cursor)
    <3>1. CASE n = NNodes
      <4>1. k < cursor[2]
        BY <2>1, <2>4, <3>1
      <4>2. QED
        BY <2>1, <3>1, <4>1 DEF Passed
    <3>2. CASE n # NNodes
      <4>1. n < cursor[1]
        BY <2>1, <2>3, <3>2
      <4>2. QED
        BY <4>1 DEF Passed
    <3>3. QED
      BY <3>1, <3>2
  <2>6. QED
    BY <2>1, <2>2, <2>5 DEF PassedInv
<1>5. ASSUME doing = "done", NEW S \in Node, NEW a \in Attr \ S, IsMinimalFD(S, a)
      PROVE  FD(S, a) \in CL
  <2>1. PICK n \in 1 .. NNodes : searchLattice[n] = S
    BY <1>2, LatticeIs
  <2>2. ~ Implied(S, a)
    BY <1>5, NotMinimal DEF Implied
  <2>3. Given(n, a, CL)
    BY <1>4, <1>5, <2>1, <2>2
  <2>4. QED
    BY <1>5, <2>1, <2>3 DEF Given, IsMinimalFD
<1>6. FDsExact
  <2>1. ASSUME doing = "done", NEW rule \in MinimalFDs
        PROVE  rule \in CL /\ rule.cond = <<>>
    <3>1. PICK S \in Node : \E a \in Attr \ S : IsMinimalFD(S, a) /\ rule = FD(S, a)
      BY MinimalFDsAre
    <3>2. PICK a \in Attr \ S : IsMinimalFD(S, a) /\ rule = FD(S, a)
      BY <3>1
    <3>3. QED
      BY <1>5, <2>1, <3>2, FDIs
  <2>2. ASSUME doing = "done", HeaderSorted, NEW rule \in CL, rule.cond = <<>>
        PROVE  rule \in MinimalFDs
    BY <1>3, <2>2 DEF MinimalInv
  <2>3. QED
    BY <2>1, <2>2 DEF FDsExact
<1>7. CFDsComplete
  <2>1. ASSUME doing = "done", HeaderSorted, NEW S \in Node, NEW a \in Attr \ S, Unimplied(S, a)
        PROVE  FoundFor(S, a, CL)
    <3>1. PICK n \in 1 .. NNodes : searchLattice[n] = S
      BY <1>2, LatticeIs
    <3>2. ASSUME NEW X \in Node, X \subseteq S, NEW c \in S \cup {a}, c \in Attr \ X,
                 Determines(X, c, Row)
          PROVE  FALSE
      <4>1. PICK W \in Node : W \subseteq X /\ FD(W, c) \in MinimalFDs
        BY <1>2, <3>2, MinimalBelow
      <4>2. W \subseteq S /\ c \in S \cup {a}
        BY <3>2, <4>1
      <4>3. QED
        BY <2>1, <4>1, <4>2, FDIs DEF Unimplied
    <3>3. ~ Implied(S, a)
      <4>1. S \subseteq Attr
        BY NodeIs
      <4>2. QED
        BY <3>2, <4>1, NodeIs DEF Implied
    <3>4. ~ Determines(S, a, Row)
      BY <3>2
    <3>5. Given(n, a, CL)
      BY <1>4, <2>1, <3>1, <3>3
    <3>6. QED
      BY <2>1, <3>1, <3>4, <3>5 DEF Given
  <2>2. ASSUME doing = "done", HeaderSorted, NEW S \in (SUBSET Attr) \ {{}}, NEW a \in Attr \ S,
               Unimplied(S, a), NEW Q \in (SUBSET S) \ {{}}, NEW r \in Row
        PROVE  LET rows == {s \in Row : Agree(r, s, Q)}
                   blocks == {{t \in rows : Agree(s, t, S)} : s \in rows}
               IN  (/\ Enough(Cardinality(rows))
                    /\ \A B \in blocks : Cardinality(B) > 1
                    /\ Determines(S, a, rows))
                   => \E rule \in CL :
                        /\ rule.cond = [b \in Q |-> data[r][b]] /\ rule.to = a
                        /\ rule.vars = IF Cardinality(blocks) = 1 THEN {} ELSE S \ Q
    <3>1. S \in Node
      BY DEF Node
    <3>2. FoundFor(S, a, CL)
      BY <2>1, <2>2, <3>1
    <3>3. HasConditional(S, a, Q, r) => \E rule \in CL : IsConditional(rule, S, a, Q, r)
      BY <3>2 DEF FoundFor
    <3>4. QED
      BY <3>3 DEF HasConditional, IsConditional, BlocksIn, ClassOf
  <2>3. QED
    BY <2>2 DEF CFDsComplete
<1>8. QED
  BY <1>1, <1>6, <1>7 DEF RulesExact

(* What only the table, its columns and the lattice tell.                  *)
LEMMA SameTable ==
  ASSUME UNCHANGED input
  PROVE  /\ Row' = Row /\ Attr' = Attr /\ NNodes' = NNodes
         /\ Table' = Table /\ TableInv' = TableInv /\ HeaderSorted' = HeaderSorted
         /\ searchLattice' = searchLattice /\ data' = data
<1>1. data' = data /\ rank' = rank /\ searchLattice' = searchLattice
  BY DEF input
<1>2. Row' = Row /\ Attr' = Attr /\ NNodes' = NNodes
  BY <1>1 DEF Row, Attr, NNodes
<1>3. Table' = Table /\ HeaderSorted' = HeaderSorted
  BY <1>1, <1>2 DEF Table, HeaderSorted
<1>4. getSearchLattice' = getSearchLattice
  BY <1>2 DEF getSearchLattice, Node
<1>5. QED
  BY <1>1, <1>2, <1>3, <1>4 DEF TableInv

LEMMA SameBlocks ==
  ASSUME UNCHANGED input, NEW S, NEW r
  PROVE  Blocks(S)' = Blocks(S) /\ ClassOf(r, S)' = ClassOf(r, S)
BY SameTable DEF Blocks, ClassOf, Agree

LEMMA SameDependencies ==
  ASSUME UNCHANGED input, NEW S, NEW a, NEW rows
  PROVE  /\ Determines(S, a, rows)' <=> Determines(S, a, rows)
         /\ Implied(S, a)' <=> Implied(S, a)
         /\ IsMinimalFD(S, a)' <=> IsMinimalFD(S, a)
<1>1. \A X, c, R : Determines(X, c, R)' <=> Determines(X, c, R)
  BY SameTable DEF Determines, Agree
<1>2. Implied(S, a)' <=> Implied(S, a)
  BY <1>1, SameTable DEF Implied
<1>3. IsMinimalFD(S, a)' <=> IsMinimalFD(S, a)
  BY <1>1, SameTable DEF IsMinimalFD
<1>4. QED
  BY <1>1, <1>2, <1>3

LEMMA SameEdges ==
  ASSUME UNCHANGED input, NEW e, NEW n, NEW m, NEW a
  PROVE  /\ Adds(n, m, a)' <=> Adds(n, m, a)
         /\ Absent(e, n, a)' <=> Absent(e, n, a)
         /\ IsEdges(e)' <=> IsEdges(e)
<1>1. \A i, j, b : Adds(i, j, b)' <=> Adds(i, j, b)
  BY SameTable DEF Adds
<1>2. Absent(e, n, a)' <=> Absent(e, n, a)
  BY <1>1 DEF Absent
<1>3. IsEdges(e)' <=> IsEdges(e)
  BY <1>1, SameTable DEF IsEdges
<1>4. QED
  BY <1>1, <1>2, <1>3

LEMMA SameRules ==
  ASSUME UNCHANGED input, NEW rule, NEW S, NEW a, NEW rules, NEW k
  PROVE  /\ RuleHolds(rule)' <=> RuleHolds(rule)
         /\ FoundFor(S, a, rules)' <=> FoundFor(S, a, rules)
         /\ Given(k, a, rules)' <=> Given(k, a, rules)
         /\ Enough(k)' <=> Enough(k)
<1>1. \A n : Enough(n)' <=> Enough(n)
  BY SameTable DEF Enough
<1>2. \A X, c, R : Determines(X, c, R)' <=> Determines(X, c, R)
  BY SameDependencies
<1>3. Affected(rule)' = Affected(rule)
  BY SameTable DEF Affected
<1>4. RuleHolds(rule)' <=> RuleHolds(rule)
  BY <1>1, <1>2, <1>3, SameTable DEF RuleHolds
<1>5. \A X, c, R : FoundFor(X, c, R)' <=> FoundFor(X, c, R)
  <2>1. ASSUME NEW X, NEW c, NEW Q, NEW r
        PROVE  /\ HasConditional(X, c, Q, r)' <=> HasConditional(X, c, Q, r)
               /\ \A t : IsConditional(t, X, c, Q, r)' <=> IsConditional(t, X, c, Q, r)
    <3>1. ClassOf(r, Q)' = ClassOf(r, Q)
      BY SameBlocks
    <3>2. \A R : BlocksIn(R, X)' = BlocksIn(R, X)
      BY SameTable DEF BlocksIn, Agree
    <3>3. BlocksIn(ClassOf(r, Q), X)' = BlocksIn(ClassOf(r, Q), X)
      BY <3>1, SameTable DEF BlocksIn, Agree
    <3>4. Determines(X, c, ClassOf(r, Q))' <=> Determines(X, c, ClassOf(r, Q))
      BY <3>1, SameTable DEF Determines, Agree
    <3>5. Enough(Cardinality(ClassOf(r, Q)))' <=> Enough(Cardinality(ClassOf(r, Q)))
      BY <3>1, SameTable DEF Enough
    <3>6. QED
      BY <3>3, <3>4, <3>5, SameTable DEF HasConditional, IsConditional
  <2>2. QED
    BY <2>1, SameTable DEF FoundFor
<1>6. Given(k, a, rules)' <=> Given(k, a, rules)
  BY <1>2, <1>5, SameTable DEF Given
<1>7. QED
  BY <1>1, <1>4, <1>5, <1>6

LEMMA SameMinimal ==
  ASSUME UNCHANGED input
  PROVE  MinimalFDs' = MinimalFDs
<1>1. \A S, a : IsMinimalFD(S, a)' <=> IsMinimalFD(S, a)
  BY SameDependencies
<1>2. Attr' = Attr
  BY SameTable
<1>3. QED
  BY <1>1, <1>2 DEF MinimalFDs

LEMMA SameWalk ==
  ASSUME UNCHANGED input, NEW e, NEW at, NEW rules
  PROVE  /\ PruningInv(e)' <=> PruningInv(e)
         /\ PassedInv(e, at, rules)' <=> PassedInv(e, at, rules)
         /\ ClearedInv(e, rules)' <=> ClearedInv(e, rules)
         /\ MinimalInv(rules)' <=> MinimalInv(rules)
<1>1. /\ NNodes' = NNodes /\ Attr' = Attr /\ searchLattice' = searchLattice
      /\ HeaderSorted' = HeaderSorted
  BY SameTable
<1>2. \A n, a : Absent(e, n, a)' <=> Absent(e, n, a)
  BY SameEdges
<1>3. \A n, m, a : Adds(n, m, a)' <=> Adds(n, m, a)
  BY SameEdges
<1>4. \A S, a : Implied(S, a)' <=> Implied(S, a)
  BY SameDependencies
<1>5. \A n, a : Given(n, a, rules)' <=> Given(n, a, rules)
  BY SameRules
<1>6. PruningInv(e)' <=> PruningInv(e)
  BY <1>1, <1>2, <1>4 DEF PruningInv
<1>7. PassedInv(e, at, rules)' <=> PassedInv(e, at, rules)
  BY <1>1, <1>3, <1>5 DEF PassedInv, Passed
<1>8. ClearedInv(e, rules)' <=> ClearedInv(e, rules)
  BY <1>1, <1>2 DEF ClearedInv, FD
<1>9. MinimalInv(rules)' <=> MinimalInv(rules)
  BY <1>1, SameMinimal DEF MinimalInv
<1>10. QED
  BY <1>6, <1>7, <1>8, <1>9

-----------------------------------------------------------------------------
(* The steps.                                                              *)

LEMMA RulesStart ==
  ASSUME GoodTables, RulesInit
  PROVE  RulesInv
<1>1. PICK in \in Inputs : data = in.data /\ rank = in.rank
  BY DEF RulesInit
<1>2. Table
  BY <1>1 DEF Table, GoodTables, Row, Attr
<1>3. TableInv
  BY <1>2 DEF TableInv, RulesInit
<1>4. NNodes \in Nat /\ NNodes # 0
  BY <1>3, LatticeIs
<1>5. ClassesInv
  <2>1. clsSetList = <<>> /\ Len(clsSetList) = 0 /\ 1 .. Len(clsSetList) = {}
    BY DEF RulesInit
  <2> DEFINE D == Seq(SUBSET Row)
  <2>2. <<>> \in Seq(D)
    OBVIOUS
  <2> HIDE DEF D
  <2>3. clsSetList \in Seq(D)
    BY <2>1, <2>2
  <2>4. QED
    BY <1>4, <2>1, <2>3 DEF ClassesInv, D
<1>6. ShapeInv
  <2>1. doing = "partition" /\ Len(clsSetList) = 0 /\ CL = {} /\ cursor = <<1, 1>> /\ tidy = {}
    BY DEF RulesInit
  <2>2. QED
    BY <1>3, <1>4, <1>5, <2>1 DEF ShapeInv
<1>7. ~ Walking /\ CL = {}
  BY DEF RulesInit, Walking
<1>8. QED
  BY <1>6, <1>7 DEF RulesInv

LEMMA PartitionStep ==
  ASSUME RulesInv, PartitionNode
  PROVE  RulesInv'
<1> DEFINE n == Len(clsSetList) + 1
           D == Seq(SUBSET Row)
           new == Sorted(Classes(searchLattice[n]))
<1>1. /\ TableInv /\ Table /\ ClassesInv /\ doing = "partition" /\ Len(clsSetList) < NNodes
      /\ CL = {} /\ cursor = <<1, 1>> /\ tidy \in SUBSET (1 .. NNodes)
  BY DEF RulesInv, ShapeInv, PartitionNode, TableInv
<1>2. /\ UNCHANGED input /\ clsSetList' = Append(clsSetList, new)
      /\ doing' = IF n = NNodes THEN "graph" ELSE doing
      /\ tidy' = tidy /\ cursor' = cursor /\ CL' = CL
  BY DEF PartitionNode
<1>3. clsSetList \in Seq(D) /\ Len(clsSetList) \in Nat /\ NNodes \in Nat
  BY <1>1, LatticeIs DEF ClassesInv
<1>4. n \in 1 .. NNodes /\ n \in Nat
  BY <1>1, <1>3
<1>5. new = ByLeast(Blocks(searchLattice[n])) /\ new \in D
  <2>1. ToSet(Classes(searchLattice[n])) = Blocks(searchLattice[n])
    BY <1>1, <1>4, ClassesAre
  <2>2. new = ByLeast(Blocks(searchLattice[n]))
    BY <2>1 DEF Sorted
  <2>3. Apart(Blocks(searchLattice[n])) /\ Blocks(searchLattice[n]) \in SUBSET (SUBSET Row)
    BY <1>1, BlocksApart, BlockFacts
  <2> DEFINE B == Blocks(searchLattice[n])
  <2>4. ByLeast(B) \in Seq(B)
    BY <1>1, <2>3, ByLeastLists
  <2> HIDE DEF B
  <2>5. ByLeast(B) \in Seq(SUBSET Row)
    BY <2>3, <2>4 DEF B
  <2>6. QED
    BY <2>2, <2>5 DEF B
<1> HIDE DEF new, D
<1>6. /\ clsSetList' \in Seq(D) /\ Len(clsSetList') = n
      /\ \A k \in 1 .. n : clsSetList'[k] = IF k = n THEN new ELSE clsSetList[k]
  BY <1>2, <1>3, <1>5
<1>7. ClassesInv'
  <2>1. \A k \in 1 .. n : clsSetList'[k] = ByLeast(Blocks(searchLattice[k]))
    <3>1. ASSUME NEW k \in 1 .. n
          PROVE  clsSetList'[k] = ByLeast(Blocks(searchLattice[k]))
      <4>1. CASE k = n
        BY <1>5, <1>6, <4>1
      <4>2. CASE k # n
        <5>1. k \in 1 .. Len(clsSetList)
          BY <1>3, <1>4, <4>2
        <5>2. QED
          BY <1>1, <1>6, <4>2, <5>1 DEF ClassesInv
      <4>3. QED
        BY <4>1, <4>2
    <3>2. QED
      BY <3>1
  <2>2. Row' = Row /\ NNodes' = NNodes /\ searchLattice' = searchLattice
    BY <1>2, SameTable
  <2>3. \A k : Blocks(searchLattice[k])' = Blocks(searchLattice[k])
    BY <1>2, <2>2, SameBlocks
  <2>4. n <= NNodes
    BY <1>4
  <2> HIDE DEF n
  <2>5. QED
    BY <1>6, <2>1, <2>2, <2>3, <2>4 DEF ClassesInv, D
<1>8. ShapeInv'
  <2>1. TableInv' /\ NNodes' = NNodes
    BY <1>1, <1>2, SameTable
  <2>2. IF doing' = "partition" THEN Len(clsSetList') < NNodes' ELSE Len(clsSetList') = NNodes'
    BY <1>1, <1>2, <1>3, <1>4, <1>6, <2>1
  <2>3. QED
    BY <1>1, <1>2, <1>7, <2>1, <2>2 DEF ShapeInv
<1>9. ~ Walking' /\ CL' = {}
  BY <1>1, <1>2 DEF Walking
<1>10. QED
  BY <1>8, <1>9 DEF RulesInv

(* What stays when the table and the classes do.                           *)
LEMMA SameShape ==
  ASSUME RulesInv, Len(clsSetList) = NNodes, UNCHANGED <<input, clsSetList>>, Walking',
         tidy' \in SUBSET (1 .. NNodes)
  PROVE  ShapeInv'
<1>1. UNCHANGED input /\ clsSetList' = clsSetList
  OBVIOUS
<1>2. TableInv /\ ClassesInv /\ Len(clsSetList) = NNodes
  BY DEF RulesInv, ShapeInv
<1>3. Row' = Row /\ NNodes' = NNodes /\ searchLattice' = searchLattice /\ TableInv'
  BY <1>1, <1>2, SameTable
<1>4. \A k : Blocks(searchLattice[k])' = Blocks(searchLattice[k])
  BY <1>1, <1>3, SameBlocks
<1>5. ClassesInv'
  BY <1>1, <1>2, <1>3, <1>4 DEF ClassesInv
<1>6. QED
  BY <1>1, <1>2, <1>3, <1>5 DEF ShapeInv, Walking

(* The next step of the walk, told of the same table.                      *)
LEMMA WalkStep ==
  ASSUME RulesInv, Len(clsSetList) = NNodes, UNCHANGED <<input, clsSetList>>, Walking',
         tidy' \in SUBSET (1 .. NNodes), IsEdges(edges'), ConditionInv', CursorInv',
         PruningInv(edges'), PassedInv(edges', cursor', CL'), ClearedInv(edges', CL'),
         MinimalInv(CL'), \A rule \in CL' : RuleHolds(rule)
  PROVE  RulesInv'
<1>1. UNCHANGED input
  OBVIOUS
<1>2. ShapeInv'
  BY SameShape
<1>3. IsEdges(edges)' /\ PruningInv(edges)'
  BY <1>1, SameEdges, SameWalk
<1>4. PassedInv(edges, cursor, CL)' /\ ClearedInv(edges, CL)' /\ MinimalInv(CL)'
  BY <1>1, SameWalk
<1>5. \A rule \in CL' : RuleHolds(rule)'
  BY <1>1, SameRules
<1>6. QED
  BY <1>2, <1>3, <1>4, <1>5 DEF RulesInv


LEMMA GraphStep ==
  ASSUME RulesInv, CreateGraph
  PROVE  RulesInv'
<1> DEFINE N == 1 .. NNodes
           above(n) == {m \in N :
                          /\ Cardinality(searchLattice[m]) = Cardinality(searchLattice[n]) + 1
                          /\ searchLattice[n] \subseteq searchLattice[m]}
           large == {n \in N : \E i \in DOMAIN clsSetList[n] :
                                 Enough(Cardinality(clsSetList[n][i]))}
<1>1. /\ TableInv /\ Len(clsSetList) = NNodes /\ CL = {} /\ cursor = <<1, 1>>
      /\ tidy \in SUBSET N
  BY DEF RulesInv, ShapeInv, CreateGraph
<1>2. /\ UNCHANGED <<input, clsSetList>> /\ doing' = "rules" /\ tidy' = tidy /\ cursor' = cursor
      /\ CL' = CL /\ edges' = [n \in N |-> Upwards(above(n))] /\ Qc' = Upwards(large)
  BY DEF CreateGraph
<1>3. NNodes \in Nat /\ NNodes # 0 /\ IsFiniteSet(N)
  <2>1. NNodes \in Nat /\ NNodes # 0
    BY <1>1, LatticeIs
  <2>2. QED
    BY <2>1, FS_Interval
<1> HIDE DEF above, large
<1>4. ASSUME NEW S \in SUBSET N
      PROVE  /\ Upwards(S) \in Seq(N)
             /\ \A k \in DOMAIN Upwards(S) : Upwards(S)[k] \in S
             /\ \A x \in S : \E k \in DOMAIN Upwards(S) : Upwards(S)[k] = x
             /\ \A i, j \in DOMAIN Upwards(S) : Upwards(S)[i] = Upwards(S)[j] => i = j
  <2>0. S \in SUBSET Int
    BY <1>3
  <2> HIDE DEF N
  <2>1. IsFiniteSet(S) /\ S \in SUBSET Int
    BY <1>3, <2>0, FS_Subset
  <2>2. Upwards(S) \in Seq(S)
    BY <2>1, UpwardsLists
  <2>3. Upwards(S) \in Seq(N)
    BY <2>2
  <2>4. QED
    BY <2>1, <2>3, UpwardsLists
<1>5. ASSUME NEW n \in N
      PROVE  above(n) \in SUBSET N
  BY DEF above
<1>6. ASSUME NEW n \in N
      PROVE  edges'[n] = Upwards(above(n)) /\ edges'[n] \in Seq(N)
  BY <1>2, <1>4, <1>5
<1>7. IsEdges(edges')
  <2>1. edges' \in [N -> Seq(N)]
    <3> HIDE DEF N
    <3>1. QED
      BY <1>2, <1>6
  <2>2. ASSUME NEW n \in N, NEW k \in DOMAIN edges'[n]
        PROVE  \E a \in Attr : Adds(n, edges'[n][k], a)
    <3>1. edges'[n][k] \in above(n)
      BY <1>4, <1>5, <1>6
    <3> DEFINE m == edges'[n][k]
    <3>2. /\ m \in N /\ Cardinality(searchLattice[m]) = Cardinality(searchLattice[n]) + 1
          /\ searchLattice[n] \subseteq searchLattice[m]
      BY <3>1 DEF above
    <3> HIDE DEF m
    <3>3. \E a \in Attr : Adds(n, m, a)
      BY <1>1, <3>2, AddsOne
    <3>4. QED
      BY <3>3 DEF m, Adds
  <2>3. \A n \in N : \A j, k \in DOMAIN edges'[n] : edges'[n][j] = edges'[n][k] => j = k
    BY <1>4, <1>5, <1>6
  <2>4. QED
    BY <2>1, <2>2, <2>3 DEF IsEdges
<1>8. ASSUME NEW n \in N, NEW a \in Attr \ searchLattice[n]
      PROVE  ~ Absent(edges', n, a)
  <2>1. searchLattice[n] \cup {a} \in Node
    BY <1>1, LatticeIs, NodeIs
  <2>2. PICK m \in N : searchLattice[m] = searchLattice[n] \cup {a}
    BY <1>1, <2>1, LatticeIs
  <2>3. Adds(n, m, a)
    BY <2>2 DEF Adds
  <2>4. m \in above(n)
    BY <1>1, <2>3, AddsOnlyOne DEF above
  <2>5. PICK k \in DOMAIN edges'[n] : edges'[n][k] = m
    BY <1>4, <1>5, <1>6, <2>4
  <2>6. QED
    BY <2>3, <2>5 DEF Absent
<1>9. PruningInv(edges')
  BY <1>8 DEF PruningInv
<1>10. PassedInv(edges', cursor', CL')
  <2>1. ASSUME NEW n \in N, NEW k \in DOMAIN edges'[n]
        PROVE  ~ Passed(n, k, cursor')
    <3>1. k \in Nat /\ k >= 1
      <4>1. edges'[n] \in Seq(N)
        BY <1>6
      <4>2. DOMAIN edges'[n] = 1 .. Len(edges'[n]) /\ Len(edges'[n]) \in Nat
        BY <4>1
      <4>3. QED
        BY <4>2
    <3>2. cursor'[1] = 1 /\ cursor'[2] = 1 /\ n \in Nat /\ n >= 1
      BY <1>1, <1>2, <1>3
    <3>3. QED
      BY <3>1, <3>2 DEF Passed
  <2>2. QED
    BY <2>1 DEF PassedInv
<1>11. ClearedInv(edges', CL') /\ MinimalInv(CL') /\ \A rule \in CL' : RuleHolds(rule)
  BY <1>1, <1>2 DEF ClearedInv, MinimalInv
<1>12. NNodes' = NNodes
  BY <1>2, SameTable
<1>13. ConditionInv'
  <2>1. large \in SUBSET N
    BY DEF large
  <2>2. Qc' \in Seq(N)
    BY <1>2, <1>4, <2>1
  <2>3. \A n \in large : n \in ToSet(Qc')
    BY <1>2, <1>4, <2>1 DEF ToSet
  <2>4. \A k : Enough(k)' <=> Enough(k)
    BY <1>2, SameRules
  <2>5. QED
    BY <1>2, <1>12, <2>2, <2>3, <2>4 DEF ConditionInv, large
<1>14. CursorInv' /\ Walking'
  BY <1>1, <1>2, <1>3, <1>12 DEF CursorInv, Walking
<1>15. tidy' \in SUBSET (1 .. NNodes)
  BY <1>1, <1>2
<1>16. QED
  BY <1>1, <1>2, <1>7, <1>9, <1>10, <1>11, <1>13, <1>14, <1>15, WalkStep

(* The conditions that stay while the walk goes on.                        *)
LEMMA SameConditions ==
  ASSUME RulesInv, Walking, UNCHANGED <<input, clsSetList, Qc>>
  PROVE  ConditionInv'
<1>1. UNCHANGED input /\ clsSetList' = clsSetList /\ Qc' = Qc
  OBVIOUS
<1>2. NNodes' = NNodes
  BY <1>1, SameTable
<1>3. \A k : Enough(k)' <=> Enough(k)
  BY <1>1, SameRules
<1>4. ConditionInv
  BY DEF RulesInv
<1>5. QED
  BY <1>1, <1>2, <1>3, <1>4 DEF ConditionInv

LEMMA NodeStep ==
  ASSUME RulesInv, NextNode
  PROVE  RulesInv'
<1>1. /\ doing = "rules" /\ cursor[2] > Len(edges[cursor[1]])
      /\ UNCHANGED <<input, clsSetList, edges, tidy, Qc, CL>>
      /\ IF cursor[1] < NNodes
         THEN cursor' = <<cursor[1] + 1, 1>> /\ doing' = doing
         ELSE doing' = "done" /\ cursor' = cursor
  BY DEF NextNode
<1>2. /\ TableInv /\ Len(clsSetList) = NNodes /\ tidy \in SUBSET (1 .. NNodes)
      /\ IsEdges(edges) /\ CursorInv /\ PruningInv(edges) /\ PassedInv(edges, cursor, CL)
      /\ ClearedInv(edges, CL) /\ MinimalInv(CL)
      /\ \A rule \in CL : RuleHolds(rule)
  BY <1>1 DEF RulesInv, ShapeInv, Walking
<1>3. /\ UNCHANGED <<input, clsSetList, Qc>> /\ edges' = edges /\ tidy' = tidy /\ CL' = CL
  BY <1>1
<1>4. Walking /\ Walking'
  BY <1>1 DEF Walking
<1>5. /\ cursor[1] \in 1 .. NNodes /\ cursor[2] \in Nat /\ NNodes \in Nat
      /\ cursor = <<cursor[1], cursor[2]>>
  BY <1>2, LatticeIs DEF CursorInv
<1>6. NNodes' = NNodes
  BY <1>3, SameTable
<1>7. CursorInv'
  <2>1. CASE cursor[1] < NNodes
    <3>1. cursor'[1] = cursor[1] + 1 /\ cursor'[2] = 1 /\ cursor' = <<cursor'[1], cursor'[2]>>
      BY <1>1, <2>1
    <3>2. QED
      BY <1>1, <1>5, <1>6, <2>1, <3>1 DEF CursorInv
  <2>2. CASE ~ cursor[1] < NNodes
    <3>1. cursor[1] = NNodes
      BY <1>5, <2>2
    <3>2. QED
      BY <1>1, <1>3, <1>5, <1>6, <2>2, <3>1 DEF CursorInv
  <2>3. QED
    BY <2>1, <2>2
<1>8. ASSUME NEW n \in 1 .. NNodes, NEW k \in DOMAIN edges[n], Passed(n, k, cursor')
      PROVE  Passed(n, k, cursor)
  <2> DEFINE N == 1 .. NNodes
  <2>1. DOMAIN edges[n] = 1 .. Len(edges[n]) /\ Len(edges[n]) \in Nat
    <3>1. edges \in [N -> Seq(N)] /\ n \in N
      BY <1>2 DEF IsEdges
    <3> HIDE DEF N
    <3>2. edges[n] \in Seq(N)
      BY <3>1
    <3>3. QED
      BY <3>2
  <2>2. CASE cursor[1] < NNodes
    <3>1. cursor'[1] = cursor[1] + 1 /\ cursor'[2] = 1
      BY <1>1, <2>2
    <3>2. k \in Nat /\ k >= 1 /\ n \in Nat
      BY <1>5, <2>1
    <3>3. n < cursor[1] + 1
      BY <1>8, <3>1, <3>2 DEF Passed
    <3>4. CASE n = cursor[1]
      <4>1. k < cursor[2]
        BY <1>1, <1>5, <2>1, <3>4
      <4>2. QED
        BY <3>4, <4>1 DEF Passed
    <3>5. CASE n # cursor[1]
      <4>1. n < cursor[1]
        BY <1>5, <3>2, <3>3, <3>5
      <4>2. QED
        BY <4>1 DEF Passed
    <3>6. QED
      BY <3>4, <3>5
  <2>3. CASE ~ cursor[1] < NNodes
    BY <1>1, <1>8, <2>3
  <2>4. QED
    BY <2>2, <2>3
<1>9. PassedInv(edges', cursor', CL')
  BY <1>2, <1>3, <1>8 DEF PassedInv
<1>10. ConditionInv'
  BY <1>3, <1>4, SameConditions
<1>11. QED
  BY <1>2, <1>3, <1>4, <1>7, <1>9, <1>10, WalkStep


(* The edge whose turn it is.                                              *)
LEMMA EdgeIs ==
  ASSUME RulesInv, Edge
  PROVE  LET x == cursor[1]
             y == edges[x][cursor[2]]
             a == CHOOSE b \in searchLattice[y] : b \notin searchLattice[x]
         IN  /\ x \in 1 .. NNodes /\ y \in 1 .. NNodes /\ Adds(x, y, a)
             /\ cursor[2] \in DOMAIN edges[x] /\ cursor[2] \in Nat
             /\ TableInv /\ Table /\ ClassesInv /\ Len(clsSetList) = NNodes /\ Walking
             /\ tidy \in SUBSET (1 .. NNodes) /\ IsEdges(edges) /\ ConditionInv
             /\ PruningInv(edges) /\ PassedInv(edges, cursor, CL)
             /\ ClearedInv(edges, CL) /\ MinimalInv(CL)
             /\ IsFD(x, y) <=> Determines(searchLattice[x], a, Row)
<1> DEFINE x == cursor[1]
           y == edges[x][cursor[2]]
           a == CHOOSE b \in searchLattice[y] : b \notin searchLattice[x]
           N == 1 .. NNodes
<1>1. doing = "rules" /\ x <= NNodes /\ cursor[2] <= Len(edges[x])
  BY DEF Edge
<1>2. /\ TableInv /\ Table /\ ClassesInv /\ Len(clsSetList) = NNodes /\ Walking
      /\ tidy \in SUBSET N /\ IsEdges(edges) /\ ConditionInv
      /\ PruningInv(edges) /\ PassedInv(edges, cursor, CL)
      /\ ClearedInv(edges, CL) /\ MinimalInv(CL)
      /\ x \in N /\ cursor[2] \in Nat /\ cursor[2] >= 1
  <2>1. Walking /\ ShapeInv
    BY <1>1 DEF RulesInv, Walking
  <2>2. /\ TableInv /\ Table /\ ClassesInv /\ Len(clsSetList) = NNodes /\ tidy \in SUBSET N
    BY <1>1, <2>1 DEF ShapeInv, TableInv
  <2>3. /\ IsEdges(edges) /\ ConditionInv /\ CursorInv
        /\ PruningInv(edges) /\ PassedInv(edges, cursor, CL)
        /\ ClearedInv(edges, CL) /\ MinimalInv(CL)
    BY <2>1 DEF RulesInv
  <2>4. x \in N /\ cursor[2] \in Nat /\ cursor[2] >= 1
    BY <2>3 DEF CursorInv
  <2>5. QED
    BY <2>1, <2>2, <2>3, <2>4
<1>3. edges \in [N -> Seq(N)]
  BY <1>2 DEF IsEdges
<1>4. edges[x] \in Seq(N) /\ cursor[2] \in DOMAIN edges[x] /\ y \in N
  <2> HIDE DEF N, x
  <2>1. edges[x] \in Seq(N)
    BY <1>2, <1>3
  <2>2. cursor[2] \in 1 .. Len(edges[x])
    BY <1>1, <1>2, <2>1
  <2>3. QED
    BY <2>1, <2>2
<1> HIDE DEF a
<1>5. Adds(x, y, a)
  <2>1. PICK b \in Attr : Adds(x, y, b)
    BY <1>2, <1>4 DEF IsEdges
  <2>2. (CHOOSE c \in searchLattice[y] : c \notin searchLattice[x]) = b
    <3> HIDE DEF y, x
    <3>1. QED
      BY <1>2, <1>4, <2>1, AddsOnlyOne
  <2>3. a = b
    BY <2>2 DEF a
  <2>4. QED
    BY <2>1, <2>3
<1>6. IsFD(x, y) <=> Determines(searchLattice[x], a, Row)
  <2>1. /\ Len(clsSetList[x]) = Cardinality(Blocks(searchLattice[x]))
        /\ Len(clsSetList[y]) = Cardinality(Blocks(searchLattice[y]))
    BY <1>2, <1>4, ClassSetIs
  <2>2. searchLattice[y] = searchLattice[x] \cup {a}
    BY <1>5 DEF Adds
  <2>3. QED
    BY <1>2, <2>1, <2>2, SameCount DEF IsFD
<1>7. QED
  BY <1>2, <1>4, <1>5, <1>6 DEF a

LEMMA FDHolds ==
  ASSUME NEW S, NEW a, Determines(S, a, Row)
  PROVE  RuleHolds(FD(S, a))
<1> DEFINE rule == FD(S, a)
<1>1. rule.cond = <<>> /\ rule.vars = S /\ rule.to = a /\ rule.value = Null
  BY FDIs
<1> HIDE DEF rule
<1>2. DOMAIN rule.cond = {}
  BY <1>1
<1>3. Affected(rule) = Row
  BY <1>2 DEF Affected
<1>4. DOMAIN rule.cond \cup rule.vars = S
  BY <1>1, <1>2
<1>5. RuleHolds(rule)
  BY <1>1, <1>3, <1>4 DEF RuleHolds
<1>6. QED
  BY <1>5 DEF rule

LEMMA FDStep ==
  ASSUME RulesInv, FindFD
  PROVE  RulesInv'
<1> DEFINE x == cursor[1]
           y == edges[x][cursor[2]]
           a == CHOOSE b \in searchLattice[y] : b \notin searchLattice[x]
           X == searchLattice[x]
           N == 1 .. NNodes
<1>0. Edge
  BY DEF FindFD
<1>2. /\ x \in N /\ y \in N /\ Adds(x, y, a)
      /\ cursor[2] \in DOMAIN edges[x] /\ cursor[2] \in Nat
      /\ TableInv /\ Table /\ ClassesInv /\ Len(clsSetList) = NNodes /\ Walking
      /\ tidy \in SUBSET N /\ IsEdges(edges) /\ ConditionInv
      /\ PruningInv(edges) /\ PassedInv(edges, cursor, CL)
      /\ ClearedInv(edges, CL) /\ MinimalInv(CL)
      /\ IsFD(x, y) <=> Determines(X, a, Row)
  BY <1>0, EdgeIs
<1> DEFINE p == removeSuperSet(x, y, tidy \cup {x, y})[NNodes]
<1>1. /\ Edge /\ IsFD(x, y) /\ CL' = CL \cup {FD(X, a)} /\ edges' = p.edges /\ tidy' = p.tidy
      /\ cursor' = <<x, cursor[2] + 1>> /\ UNCHANGED <<input, doing, clsSetList, Qc>>
  BY Zenon DEF FindFD
<1>3. Determines(X, a, Row) /\ a \in Attr /\ a \notin X
  BY <1>1, <1>2 DEF Adds
<1> HIDE DEF a
<1>4. /\ IsEdges(p.edges) /\ p.tidy \in SUBSET N /\ Thinner(edges, p.edges)
      /\ \A m \in 1 .. x : p.edges[m] = edges[m]
      /\ HeaderSorted => \A m \in N :
           /\ X \subseteq searchLattice[m] /\ X # searchLattice[m] /\ a \notin searchLattice[m]
           => Absent(p.edges, m, a)
  <2>1. tidy \cup {x, y} \in SUBSET N
    BY <1>2
  <2> HIDE DEF y, x
  <2>2. PrunedWell(removeSuperSet(x, y, tidy \cup {x, y})[NNodes], x, a)
    BY <1>2, <1>3, <2>1, PrunedIs
  <2>3. PrunedWell(p, x, a)
    BY <2>2
  <2> HIDE DEF p
  <2>4. QED
    BY <2>3 DEF PrunedWell
<1> HIDE DEF p
<1>5. /\ IsEdges(edges') /\ tidy' \in SUBSET N /\ Thinner(edges, edges')
      /\ \A m \in 1 .. x : edges'[m] = edges[m]
  BY <1>1, <1>4
<1>6. PruningInv(edges')
  BY <1>2, <1>5 DEF PruningInv, Thinner
<1>7. CL \subseteq CL' /\ FD(X, a) \in CL'
  BY <1>1
<1>8. cursor'[1] = x /\ cursor'[2] = cursor[2] + 1 /\ cursor' = <<cursor'[1], cursor'[2]>>
  BY <1>1
<1>9. PassedInv(edges', cursor', CL')
  <2>1. ASSUME NEW n \in N, NEW k \in DOMAIN edges'[n], NEW b \in Attr,
               Passed(n, k, cursor'), Adds(n, edges'[n][k], b)
        PROVE  Given(n, b, CL')
    <3>1. n \in 1 .. x
      BY <1>2, <1>8, <2>1 DEF Passed
    <3>2. edges'[n] = edges[n]
      BY <1>5, <3>1
    <3>3. CASE Passed(n, k, cursor)
      <4>1. Given(n, b, CL)
        BY <1>2, <2>1, <3>2, <3>3 DEF PassedInv
      <4>2. QED
        BY <1>7, <4>1, GivenMore
    <3>4. CASE ~ Passed(n, k, cursor)
      <4>1. n = x /\ k < cursor[2] + 1 /\ ~ k < cursor[2]
        BY <1>8, <2>1, <3>4 DEF Passed
      <4>2. k \in Nat
        <5>1. edges \in [N -> Seq(N)]
          BY <1>2 DEF IsEdges
        <5> HIDE DEF N
        <5>2. edges[n] \in Seq(N)
          BY <5>1
        <5>3. k \in 1 .. Len(edges[n]) /\ Len(edges[n]) \in Nat
          BY <3>2, <5>2
        <5>4. QED
          BY <5>3
      <4>3. k = cursor[2]
        BY <1>2, <4>1, <4>2
      <4>4. Adds(x, y, b)
        BY <2>1, <3>2, <4>1, <4>3
      <4>5. b = a
        BY <1>2, <4>4, AddsOnlyOne
      <4>6. QED
        BY <1>3, <1>7, <4>1, <4>5 DEF Given
    <3>5. QED
      BY <3>3, <3>4
  <2>2. QED
    BY <2>1 DEF PassedInv
<1>10. ClearedInv(edges', CL')
  <2>1. ASSUME HeaderSorted, NEW n \in N, NEW b, FD(searchLattice[n], b) \in CL',
               NEW m \in N, searchLattice[n] \subseteq searchLattice[m],
               searchLattice[n] # searchLattice[m], b \notin searchLattice[m]
        PROVE  Absent(edges', m, b)
    <3>1. CASE FD(searchLattice[n], b) \in CL
      <4>1. Absent(edges, m, b)
        BY <1>2, <2>1, <3>1 DEF ClearedInv
      <4>2. QED
        BY <1>5, <4>1 DEF Thinner
    <3>2. CASE FD(searchLattice[n], b) = FD(X, a)
      <4>1. searchLattice[n] = X /\ b = a
        BY <3>2, FDIs
      <4>2. QED
        BY <1>1, <1>4, <2>1, <4>1
    <3>3. QED
      BY <1>1, <2>1, <3>1, <3>2
  <2>2. QED
    BY <2>1 DEF ClearedInv
<1>11. ASSUME HeaderSorted
       PROVE  IsMinimalFD(X, a)
  <2> SUFFICES ASSUME ~ IsMinimalFD(X, a)
               PROVE  FALSE
    OBVIOUS
  <2>1. X \in Node
    BY <1>2, LatticeIs
  <2>2. PICK W \in Node : W \subseteq X /\ IsMinimalFD(W, a)
    BY <1>2, <1>3, <2>1, MinimalBelow
  <2>3. W # X
    BY <2>2
  <2>4. PICK w \in N : searchLattice[w] = W
    BY <1>2, LatticeIs
  <2>5. w < x
    <3>1. /\ IsFiniteSet(X) /\ Cardinality(X) \in Nat /\ Cardinality(W) \in Nat
      BY <1>2, <2>4, LatticeIs
    <3>2. Cardinality(W) <= Cardinality(X) /\ (Cardinality(W) = Cardinality(X) => W = X)
      BY <2>2, <3>1, FS_Subset
    <3>3. Cardinality(W) < Cardinality(X)
      BY <2>3, <3>1, <3>2
    <3>4. QED
      BY <1>2, <2>4, <3>3, LatticeIs
  <2>6. ~ Implied(W, a)
    BY <1>3, <2>2, NotMinimal DEF Implied
  <2>7. a \in Attr \ W
    BY <1>3, <2>2
  <2>8. PICK k \in DOMAIN edges[w] : Adds(w, edges[w][k], a)
    BY <1>2, <2>4, <2>6, <2>7 DEF PruningInv, Absent
  <2>9. Passed(w, k, cursor)
    BY <2>5 DEF Passed
  <2>10. Given(w, a, CL)
    BY <1>2, <1>3, <2>8, <2>9 DEF PassedInv
  <2>11. FD(W, a) \in CL
    BY <2>2, <2>4, <2>10 DEF Given, IsMinimalFD
  <2>12. Absent(edges, x, a)
    BY <1>2, <1>3, <1>11, <2>2, <2>3, <2>4, <2>11 DEF ClearedInv
  <2>13. QED
    BY <1>2, <2>12 DEF Absent
<1>12. MinimalInv(CL')
  <2>1. X \in Node
    BY <1>2, LatticeIs
  <2>2. HeaderSorted => FD(X, a) \in MinimalFDs
    BY <1>3, <1>11, <2>1, MinimalFDsAre
  <2>3. QED
    BY <1>1, <1>2, <2>2 DEF MinimalInv
<1>13. \A rule \in CL' : RuleHolds(rule)
  <2>1. RuleHolds(FD(X, a))
    BY <1>3, FDHolds
  <2>2. \A rule \in CL : RuleHolds(rule)
    BY DEF RulesInv
  <2>3. QED
    BY <1>1, <2>1, <2>2
<1>14. /\ UNCHANGED <<input, clsSetList>> /\ UNCHANGED <<input, clsSetList, Qc>>
       /\ Walking' /\ NNodes' = NNodes /\ UNCHANGED doing
  <2>1. UNCHANGED input
    BY <1>1
  <2>2. NNodes' = NNodes
    BY <2>1, SameTable
  <2>3. QED
    BY <1>1, <1>2, <2>2 DEF Walking
<1>15. ConditionInv'
  BY <1>2, <1>14, SameConditions
<1>16. CursorInv'
  <2>1. doing' # "done"
    BY <1>1 DEF Edge
  <2>2. QED
    BY <1>2, <1>8, <1>14, <2>1 DEF CursorInv
<1>17. QED
  BY <1>2, <1>5, <1>6, <1>9, <1>10, <1>12, <1>13, <1>14, <1>15, <1>16, WalkStep

(* The nodes that are tried as conditions on the edges of node x.          *)
LEMMA ConditionsAre ==
  ASSUME TableInv, ConditionInv, NEW x \in 1 .. NNodes, NEW sorted
  PROVE  /\ ToSet(Conditions(x, sorted)) \in SUBSET (1 .. NNodes)
         /\ \A c \in ToSet(Conditions(x, sorted)) : searchLattice[c] \subseteq searchLattice[x]
         /\ HeaderSorted => \A c \in ToSet(Qc) :
              searchLattice[c] \subseteq searchLattice[x] => c \in ToSet(Conditions(x, sorted))
<1> DEFINE N == 1 .. NNodes
           T == {c \in ToSet(Qc) : ifSubsumed(Names(x, sorted), Names(c, sorted))}
<1>1. Qc \in Seq(N)
  BY DEF ConditionInv
<1>2. ToSet(Qc) \in SUBSET N
  <2> HIDE DEF N
  <2>1. QED
    BY <1>1 DEF ToSet
<1>3. ToSet(Conditions(x, sorted)) = {c \in ToSet(Qc) : c \in T}
  <2> HIDE DEF N, T
  <2>1. ToSet(Kept(Qc, T)) = {c \in ToSet(Qc) : c \in T}
    BY <1>1, KeptLists
  <2>2. Conditions(x, sorted) = Kept(Qc, T)
    BY DEF Conditions, T
  <2>3. QED
    BY <2>1, <2>2
<1>4. \A c \in ToSet(Conditions(x, sorted)) : searchLattice[c] \subseteq searchLattice[x]
  BY <1>2, <1>3, SubsumedSound
<1>5. ASSUME HeaderSorted, NEW c \in ToSet(Qc), searchLattice[c] \subseteq searchLattice[x]
      PROVE  c \in ToSet(Conditions(x, sorted))
  <2>1. ifSubsumed(Names(x, sorted), Names(c, sorted))
    BY <1>2, <1>5, SubsumedComplete
  <2>2. QED
    BY <1>3, <1>5, <2>1
<1>6. QED
  BY <1>2, <1>3, <1>4, <1>5

LEMMA CFDStep ==
  ASSUME RulesInv, FindCFD
  PROVE  RulesInv'
<1> DEFINE x == cursor[1]
           y == edges[x][cursor[2]]
           a == CHOOSE b \in searchLattice[y] : b \notin searchLattice[x]
           X == searchLattice[x]
           N == 1 .. NNodes
           conditions == ToSet(Conditions(x, tidy \cup {x, y}))
           new == UNION {RulesWith(c, x, y) : c \in conditions}
<1>1. /\ Edge /\ ~ IsFD(x, y) /\ edges' = edges
      /\ IF OmegaX(x, y) = <<>>
         THEN CL' = CL /\ tidy' = tidy
         ELSE CL' = CL \cup new /\ tidy' = tidy \cup {x, y} \cup conditions
      /\ cursor' = <<x, cursor[2] + 1>> /\ UNCHANGED <<input, doing, clsSetList, Qc>>
  BY DEF FindCFD
<1>2. /\ x \in N /\ y \in N /\ Adds(x, y, a)
      /\ cursor[2] \in DOMAIN edges[x] /\ cursor[2] \in Nat
      /\ TableInv /\ Table /\ ClassesInv /\ Len(clsSetList) = NNodes /\ Walking
      /\ tidy \in SUBSET N /\ IsEdges(edges) /\ ConditionInv
      /\ PruningInv(edges) /\ PassedInv(edges, cursor, CL)
      /\ ClearedInv(edges, CL) /\ MinimalInv(CL)
      /\ IsFD(x, y) <=> Determines(X, a, Row)
  BY <1>1, EdgeIs
<1>3. ~ Determines(X, a, Row) /\ a \in Attr /\ a \notin X
  BY <1>1, <1>2 DEF Adds
<1> HIDE DEF a
<1>4. /\ conditions \in SUBSET N
      /\ \A c \in conditions : searchLattice[c] \subseteq X
      /\ HeaderSorted => \A c \in ToSet(Qc) : searchLattice[c] \subseteq X => c \in conditions
  <2> HIDE DEF y, x
  <2>1. QED
    BY <1>2, ConditionsAre
<1>5. ASSUME NEW rule \in new
      PROVE  RuleHolds(rule) /\ rule.cond # <<>>
  <2>1. PICK c \in conditions : rule \in RulesWith(c, x, y)
    BY <1>5
  <2> HIDE DEF conditions, y, x
  <2>2. c \in 1 .. NNodes /\ searchLattice[c] \subseteq searchLattice[x]
    BY <1>4, <2>1
  <2>3. QED
    BY <1>2, <2>1, <2>2, RulesSound
<1>6. ASSUME HeaderSorted
      PROVE  FoundFor(X, a, CL')
  <2>1. ASSUME NEW Q \in (SUBSET X) \ {{}}, NEW r \in Row, HasConditional(X, a, Q, r)
        PROVE  \E rule \in CL' : IsConditional(rule, X, a, Q, r)
    <3>1. X \in SUBSET Attr
      BY <1>2, LatticeIs
    <3>2. Q \in Node
      BY <2>1, <3>1, NodeIs
    <3>3. PICK c \in N : searchLattice[c] = Q
      BY <1>2, <3>2, LatticeIs
    <3>4. /\ OmegaX(x, y) # <<>>
          /\ \E i \in DOMAIN clsSetList[c] : Enough(Cardinality(clsSetList[c][i]))
          /\ \E rule \in RulesWith(c, x, y) : IsConditional(rule, X, a, Q, r)
      <4> HIDE DEF y, x
      <4>1. searchLattice[c] \subseteq searchLattice[x]
        BY <2>1, <3>3
      <4>2. HasConditional(searchLattice[x], a, searchLattice[c], r)
        BY <2>1, <3>3
      <4>3. QED
        BY <1>2, <2>1, <3>3, <4>1, <4>2, ConditionalFound
    <3>5. c \in ToSet(Qc)
      BY <1>2, <3>3, <3>4 DEF ConditionInv
    <3>6. c \in conditions
      BY <1>4, <1>6, <2>1, <3>3, <3>5
    <3>7. CL' = CL \cup new
      BY <1>1, <3>4
    <3>8. RulesWith(c, x, y) \subseteq CL'
      BY <3>6, <3>7
    <3>9. QED
      BY <3>4, <3>8
  <2>2. QED
    BY <2>1 DEF FoundFor
<1> HIDE DEF conditions, new
<1>7. /\ CL \subseteq CL' /\ CL' \subseteq CL \cup new /\ tidy' \in SUBSET N
  <2>1. CL \subseteq CL' /\ CL' \subseteq CL \cup new
    BY <1>1
  <2>2. tidy' \in SUBSET N
    BY <1>1, <1>2, <1>4
  <2>3. QED
    BY <2>1, <2>2
<1>8. cursor'[1] = x /\ cursor'[2] = cursor[2] + 1 /\ cursor' = <<cursor'[1], cursor'[2]>>
  BY <1>1
<1>9. Given(x, a, CL')
  BY <1>3, <1>6 DEF Given
<1>10. PassedInv(edges', cursor', CL')
  <2>1. ASSUME NEW n \in N, NEW k \in DOMAIN edges[n], NEW b \in Attr,
               Passed(n, k, cursor'), Adds(n, edges[n][k], b)
        PROVE  Given(n, b, CL')
    <3>1. CASE Passed(n, k, cursor)
      <4>1. Given(n, b, CL)
        BY <1>2, <2>1, <3>1 DEF PassedInv
      <4>2. QED
        BY <1>7, <4>1, GivenMore
    <3>2. CASE ~ Passed(n, k, cursor)
      <4>1. n = x /\ k < cursor[2] + 1 /\ ~ k < cursor[2]
        BY <1>8, <2>1, <3>2 DEF Passed
      <4>2. k \in Nat
        <5>1. edges \in [N -> Seq(N)]
          BY <1>2 DEF IsEdges
        <5> HIDE DEF N
        <5>2. edges[n] \in Seq(N)
          BY <5>1
        <5>3. k \in 1 .. Len(edges[n]) /\ Len(edges[n]) \in Nat
          BY <5>2
        <5>4. QED
          BY <5>3
      <4>3. k = cursor[2]
        BY <1>2, <4>1, <4>2
      <4>4. Adds(x, y, b)
        BY <2>1, <4>1, <4>3
      <4>5. b = a
        BY <1>2, <4>4, AddsOnlyOne
      <4>6. QED
        BY <1>9, <4>1, <4>5
    <3>3. QED
      BY <3>1, <3>2
  <2>2. QED
    BY <1>1, <2>1 DEF PassedInv
<1>11. ASSUME NEW rule \in CL', rule.cond = <<>>
       PROVE  rule \in CL
  BY <1>5, <1>7, <1>11
<1>12. ClearedInv(edges', CL')
  <2>1. \A S, b : FD(S, b) \in CL' => FD(S, b) \in CL
    BY <1>11, FDIs
  <2>2. QED
    BY <1>1, <1>2, <2>1 DEF ClearedInv
<1>13. MinimalInv(CL')
  BY <1>2, <1>11 DEF MinimalInv
<1>14. \A rule \in CL' : RuleHolds(rule)
  <2>1. \A rule \in CL : RuleHolds(rule)
    BY DEF RulesInv
  <2>2. QED
    BY <1>5, <1>7, <2>1
<1>15. /\ UNCHANGED <<input, clsSetList>> /\ UNCHANGED <<input, clsSetList, Qc>>
       /\ Walking' /\ NNodes' = NNodes /\ UNCHANGED doing
  <2>1. UNCHANGED input
    BY <1>1
  <2>2. NNodes' = NNodes
    BY <2>1, SameTable
  <2>3. QED
    BY <1>1, <1>2, <2>2 DEF Walking
<1>16. ConditionInv'
  BY <1>2, <1>15, SameConditions
<1>17. CursorInv'
  <2>1. doing' # "done"
    BY <1>1 DEF Edge
  <2>2. QED
    BY <1>2, <1>8, <1>15, <2>1 DEF CursorInv
<1>18. QED
  BY <1>1, <1>2, <1>7, <1>10, <1>12, <1>13, <1>14, <1>15, <1>16, <1>17, WalkStep

LEMMA RulesStutter ==
  ASSUME RulesInv, UNCHANGED rulesVars
  PROVE  RulesInv'
<1>1. /\ UNCHANGED input /\ UNCHANGED <<input, clsSetList>>
      /\ UNCHANGED <<input, clsSetList, Qc>> /\ doing' = doing /\ clsSetList' = clsSetList
      /\ edges' = edges /\ tidy' = tidy /\ cursor' = cursor /\ CL' = CL /\ Qc' = Qc
  BY DEF rulesVars, input
<1>2. /\ ShapeInv /\ TableInv /\ ClassesInv /\ tidy \in SUBSET (1 .. NNodes)
      /\ \A rule \in CL : RuleHolds(rule)
  BY DEF RulesInv, ShapeInv
<1>3. NNodes' = NNodes
  BY <1>1, SameTable
<1>4. CASE Walking
  <2>1. Len(clsSetList) = NNodes
    BY <1>2, <1>4 DEF ShapeInv, Walking
  <2>2. /\ IsEdges(edges) /\ CursorInv /\ PruningInv(edges) /\ PassedInv(edges, cursor, CL)
        /\ ClearedInv(edges, CL) /\ MinimalInv(CL)
    BY <1>4 DEF RulesInv
  <2>3. ConditionInv'
    BY <1>1, <1>4, SameConditions
  <2>4. CursorInv' /\ Walking'
    BY <1>1, <1>3, <1>4, <2>2 DEF CursorInv, Walking
  <2>5. QED
    BY <1>1, <1>2, <2>1, <2>2, <2>3, <2>4, WalkStep
<1>5. CASE ~ Walking
  <2>1. Row' = Row /\ searchLattice' = searchLattice /\ TableInv'
    BY <1>1, <1>2, SameTable
  <2>2. \A k : Blocks(searchLattice[k])' = Blocks(searchLattice[k])
    BY <1>1, <2>1, SameBlocks
  <2>3. ClassesInv'
    BY <1>1, <1>2, <1>3, <2>1, <2>2 DEF ClassesInv
  <2>4. ShapeInv'
    BY <1>1, <1>2, <1>3, <2>1, <2>3 DEF ShapeInv
  <2>5. ~ Walking'
    BY <1>1, <1>5 DEF Walking
  <2>6. \A rule \in CL' : RuleHolds(rule)'
    BY <1>1, <1>2, SameRules
  <2>7. QED
    BY <2>4, <2>5, <2>6 DEF RulesInv
<1>6. QED
  BY <1>4, <1>5

(* Whatever the table and the order of the names of its columns, the rules *)
(* that Rule.findRules writes down hold in it; when it has ended, every    *)
(* minimal functional dependency is among them, no other if the names are  *)
(* in the order of the alphabet, and then every conditional one with the   *)
(* required support that no functional dependency implies.                 *)
THEOREM RulesExactHolds == GoodTables /\ RulesSpec => []RulesExact
<1> SUFFICES ASSUME GoodTables
             PROVE  RulesSpec => []RulesExact
  OBVIOUS
<1>1. RulesInit => RulesInv
  BY RulesStart
<1>2. RulesInv /\ [RulesNext]_rulesVars => RulesInv'
  BY PartitionStep, GraphStep, FDStep, CFDStep, NodeStep, RulesStutter DEF RulesNext, RulesDone
<1>3. RulesInv => RulesExact
  BY RulesAtEnd
<1>4. QED
  BY <1>1, <1>2, <1>3, PTL DEF RulesSpec
=============================================================================
