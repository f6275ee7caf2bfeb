------------------------------- MODULE Uploader -------------------------------
(***************************************************************************)
(* The resumable upload of storage/uploader.go with the COS calls behind   *)
(* it: clients that bring the same file (same hash and size), the rows of  *)
(* temp_file, the multipart uploads of COS and the rows of file_info.      *)
(* Requests to COS and to the database are steps of their own.             *)
(***************************************************************************)
EXTENDS Integers, FiniteSets, Sequences

CONSTANTS UpClients,  \* clients that upload the file
          UpSize,     \* its size
          UpPartSize, \* defaultPartSize
          UpPage,     \* parts COS lists at once (1000)
          UpMaxTasks  \* bound: uploads opened at COS

ASSUME UpAssumption ==
  UpSize \in Nat /\ UpPartSize \in Nat \ {0} /\ UpPage \in Nat /\ UpMaxTasks \in Nat

VARIABLES upTasks, \* COS: for each upload opened, the parts it holds
          upOpen,  \* COS: uploads neither completed nor aborted
          upObj,   \* COS: completed objects, by upload: the parts in order
          upTemp,  \* temp_file: uploads with a row, in the order of their IDs
          upFiles, \* file_info: the uploads its rows stand for, in order
          upPc,    \* where each client is
          upHas,   \* the upload (temp row) the client works on, 0 for none
          upNeed,  \* PartNumbersNeedUpload as last listed
          upParts, \* the parts CompleteUploadTask has listed
          upTold   \* history: clients that were told FileStatusUploadWaitComp

uploadVars == <<upTasks, upOpen, upObj, upTemp, upFiles, upPc, upHas, upNeed, upParts, upTold>>
cosVars == <<upTasks, upOpen, upObj>>
dbVars == <<upTemp, upFiles>>

GetPartCount(size, partSize) ==
  IF size % partSize = 0 THEN size \div partSize ELSE size \div partSize + 1

PartCount == GetPartCount(UpSize, UpPartSize)
Tasks == 1..UpMaxTasks

\* Parts are numbered from 0 in the requests and from 1 at COS.
getNeedUploadPartNumbers(n, have) == (0..(n - 1)) \ have

\* The first page of ListParts, in order.
FirstParts(S) == {p \in S : Cardinality({q \in S : q < p}) < UpPage}
InOrder(S) == CHOOSE s \in [1..Cardinality(S) -> S] :
                \A i, j \in DOMAIN s : i < j => s[i] < s[j]

UpTypeOK ==
  /\ upTasks \in [Tasks -> SUBSET (1..PartCount)] /\ upOpen \subseteq Tasks
  /\ upObj \in [Tasks -> Seq(1..PartCount)]
  /\ upTemp \in Seq(Tasks) /\ upFiles \in Seq(Tasks)
  /\ upPc \in [UpClients -> {"idle", "init", "save", "ready", "complete", "commit"}]
  /\ upHas \in [UpClients -> 0..UpMaxTasks]
  /\ upNeed \in [UpClients -> SUBSET (0..PartCount)]
  /\ upParts \in [UpClients -> SUBSET (1..PartCount)]
  /\ upTold \subseteq UpClients

UpInit ==
  /\ upTasks = [t \in Tasks |-> {}] /\ upOpen = {} /\ upObj = [t \in Tasks |-> << >>]
  /\ upTemp = << >> /\ upFiles = << >>
  /\ upPc = [u \in UpClients |-> "idle"] /\ upHas = [u \in UpClients |-> 0]
  /\ upNeed = [u \in UpClients |-> {}] /\ upParts = [u \in UpClients |-> {}]
  /\ upTold = {}

UpGo(u, from, to) == upPc[u] = from /\ upPc' = [upPc EXCEPT ![u] = to]
Started == {t \in Tasks : t \in upOpen \/ upObj[t] # << >> \/ upTasks[t] # {}}

\* The first row, or none.
GetTempFileByHash == IF upTemp = << >> THEN 0 ELSE Head(upTemp)

\* GetUploader by hash: an upload that somebody has begun, or a new one.
GetUploader(u) ==
  /\ IF GetTempFileByHash = 0 THEN UpGo(u, "idle", "init") /\ UNCHANGED upHas
     ELSE UpGo(u, "idle", "ready") /\ upHas' = [upHas EXCEPT ![u] = GetTempFileByHash]
  /\ UNCHANGED <<cosVars, dbVars, upNeed, upParts, upTold>>

\* GetUploader by UploadID: an error when the row is gone.
GetUploaderByID(u, t) ==
  /\ t \in {upTemp[i] : i \in DOMAIN upTemp} /\ UpGo(u, "idle", "ready")
  /\ upHas' = [upHas EXCEPT ![u] = t]
  /\ UNCHANGED <<cosVars, dbVars, upNeed, upParts, upTold>>

\* newUploader: InitUploadTask at COS ...
InitUploadTask(u, t) ==
  /\ t \notin Started /\ \A s \in Tasks : s < t => s \in Started
  /\ \/ UpGo(u, "init", "save") /\ upOpen' = upOpen \cup {t}
        /\ upHas' = [upHas EXCEPT ![u] = t]
     \/ UpGo(u, "init", "idle") /\ UNCHANGED <<upOpen, upHas>>
  /\ UNCHANGED <<upTasks, upObj, dbVars, upNeed, upParts, upTold>>

\* ... and then the row; when it fails the upload at COS stays behind.
SaveTempFile(u) ==
  /\ \/ UpGo(u, "save", "ready") /\ upTemp' = Append(upTemp, upHas[u]) /\ UNCHANGED upHas
     \/ UpGo(u, "save", "idle") /\ upHas' = [upHas EXCEPT ![u] = 0] /\ UNCHANGED upTemp
  /\ UNCHANGED <<cosVars, upFiles, upNeed, upParts, upTold>>

ListUploadExistsTrunk(t) == {p - 1 : p \in FirstParts(upTasks[t])}

ListTrunksOffByOne(u) ==
  /\ upPc[u] = "ready" /\ upHas[u] \in upOpen
  /\ LET have == ListUploadExistsTrunk(upHas[u])
     IN  /\ upTold' = IF Cardinality(have) >= PartCount - 1 THEN upTold \cup {u} ELSE upTold \ {u}
         /\ upNeed' = [upNeed EXCEPT ![u] = getNeedUploadPartNumbers(PartCount, have)]
  /\ UNCHANGED <<cosVars, dbVars, upPc, upHas, upParts>>

\* The status only counts the parts.
ListTrunks(u) ==
  /\ upPc[u] = "ready" /\ upHas[u] \in upOpen
  /\ LET have == ListUploadExistsTrunk(upHas[u])
     IN  IF Cardinality(have) = PartCount
         THEN upTold' = upTold \cup {u} /\ upNeed' = [upNeed EXCEPT ![u] = {}]
         ELSE /\ upTold' = upTold \ {u}
              /\ upNeed' = [upNeed EXCEPT ![u] = getNeedUploadPartNumbers(PartCount, have)]
  /\ UNCHANGED <<cosVars, dbVars, upPc, upHas, upParts>>

UploadPartUnshifted(u, n) ==
  /\ upPc[u] = "ready" /\ n \in upNeed[u] /\ upHas[u] \in upOpen
  /\ upTasks' = [upTasks EXCEPT ![upHas[u]] = @ \cup {n}]
  /\ upNeed' = [upNeed EXCEPT ![u] = @ \ {n}]
  /\ UNCHANGED <<upOpen, upObj, dbVars, upPc, upHas, upParts, upTold>>

UploadTrunk(t, n) == upTasks' = [upTasks EXCEPT ![t] = @ \cup {n + 1}]

\* The code sends whatever part number it is given.  Clients are assumed to send
\* the parts that ListTrunks asked them for and no others; another client may have
\* sent the same part meanwhile.
UploadPart(u, n) ==
  /\ upPc[u] = "ready" /\ n \in upNeed[u] /\ upHas[u] \in upOpen
  /\ UploadTrunk(upHas[u], n)
  /\ upNeed' = [upNeed EXCEPT ![u] = @ \ {n}]
  /\ UNCHANGED <<upOpen, upObj, dbVars, upPc, upHas, upParts, upTold>>

\* CompleteUploadTask lists the parts ...
CompleteList(u) ==
  /\ upHas[u] \in upOpen /\ UpGo(u, "ready", "complete")
  /\ upParts' = [upParts EXCEPT ![u] = FirstParts(upTasks[upHas[u]])]
  /\ UNCHANGED <<cosVars, dbVars, upHas, upNeed, upTold>>

UpGiveUp(u) ==
  /\ upPc' = [upPc EXCEPT ![u] = "idle"] /\ upHas' = [upHas EXCEPT ![u] = 0]
  /\ upNeed' = [upNeed EXCEPT ![u] = {}] /\ upParts' = [upParts EXCEPT ![u] = {}]
  /\ upTold' = upTold \ {u}

\* ... and completes the upload with them; COS refuses an empty list and an
\* upload that is completed already.
CompleteUploadTask(u) ==
  /\ upPc[u] = "complete"
  /\ \/ /\ upHas[u] \in upOpen /\ upParts[u] # {}
        /\ upOpen' = upOpen \ {upHas[u]}
        /\ upObj' = [upObj EXCEPT ![upHas[u]] = InOrder(upParts[u])]
        /\ upPc' = [upPc EXCEPT ![u] = "commit"]
        /\ UNCHANGED <<upHas, upNeed, upParts, upTold>>
     \/ UpGiveUp(u) /\ UNCHANGED <<upOpen, upObj>>
  /\ UNCHANGED <<upTasks, dbVars>>

\* The rows without that of an upload, which has at most one.
DropRow(rows, t) ==
  IF \E i \in DOMAIN rows : rows[i] = t
  THEN LET i == CHOOSE i \in DOMAIN rows : rows[i] = t
       IN  SubSeq(rows, 1, i - 1) \o SubSeq(rows, i + 1, Len(rows))
  ELSE rows

\* The transaction of CompleteUpload: the file row and the end of the temp
\* row, or neither.
CommitUpload(u) ==
  /\ upPc[u] = "commit"
  /\ \/ /\ upFiles' = Append(upFiles, upHas[u])
        /\ upTemp' = DropRow(upTemp, upHas[u])
     \/ UNCHANGED dbVars
  /\ UpGiveUp(u)
  /\ UNCHANGED cosVars

\* A client stops where it is, by choice or because a request failed.
StopUpload(u) == upPc[u] # "idle" /\ UpGiveUp(u) /\ UNCHANGED <<cosVars, dbVars>>

UpNext == \E u \in UpClients :
  \/ GetUploader(u) \/ SaveTempFile(u) \/ ListTrunks(u) \/ CompleteList(u)
  \/ CompleteUploadTask(u) \/ CommitUpload(u) \/ StopUpload(u)
  \/ \E t \in Tasks : GetUploaderByID(u, t) \/ InitUploadTask(u, t)
  \/ \E n \in 0..PartCount : UploadPart(u, n)

UpSpec == UpInit /\ [][UpNext]_uploadVars

\* A client that was told to complete the upload completes the whole file:
\* when CompleteUploadTask has succeeded after FileStatusUploadWaitComp the
\* object has every part in its place, whoever sent them, as long as one page
\* of COS lists them all (uploader.go:138-209, tencent_cos.go:155-212).
ToldMeansWhole ==
  PartCount =< UpPage =>
    \A u \in UpClients : upPc[u] = "commit" /\ u \in upTold =>
      upObj[upHas[u]] = [i \in 1..PartCount |-> i]

\* An upload becomes at most one file: clients that share its temp row, and
\* completions that fail half way, never give it two rows of file_info, and
\* every row has its object (uploader.go:172-209).
OneFilePerUpload ==
  /\ \A i, j \in DOMAIN upFiles : upFiles[i] = upFiles[j] => i = j
  /\ \A i \in DOMAIN upFiles : upObj[upFiles[i]] # << >>

\* Uploads are whole: ToldMeansWhole and OneFilePerUpload together.
UploadsWhole == ToldMeansWhole /\ OneFilePerUpload
=============================================================================
