----------------------------- MODULE StoresProofs -----------------------------
(***************************************************************************)
(* What the stores keep for others, for any number of clients: multipart   *)
(* uploads to one key, job rows, settings behind a cache, and what is      *)
(* registered under a name.                                                *)
(***************************************************************************)
EXTENDS MultipartV2, JobTables, Settings, Registries, TLAPS

-----------------------------------------------------------------------------
(* Multipart: the object is the work of one client.                        *)

\* URLs name an upload and one of its parts, or 0 for the whole object.
MuUrlsOK == muUrls \subseteq [method : {"GET", "PUT"}, upload : MuClients, part : 0..MuParts]

MuInv == MuTypeOK /\ MuUrlsOK /\ MultipartNotMixed

\* A function on 1..n is a sequence of length n.
LEMMA FunctionIsSeq ==
  ASSUME NEW S, NEW n \in Nat, NEW f \in [1..n -> S]
  PROVE  f \in Seq(S) /\ Len(f) = n
<1>1. f \in Seq(S)
  OBVIOUS
<1>2. DOMAIN f = 1..n
  OBVIOUS
<1> QED BY <1>1, <1>2

\* What SendPart, Complete, Discard and the URLs do to the state.
LEMMA MuMoves ==
  ASSUME [MuNext]_multiVars
  PROVE  \/ UNCHANGED multiVars
         \/ \E c \in MuClients :
              \/ NewUpload(c) \/ LocalMultipart(c)
              \/ Assembled(c, muMine[c]) \/ Discard(c)
              \/ \E n \in MuNumbers : SendPart(c, n)
              \/ \E m \in {"GET", "PUT"}, n \in 0..MuParts : HandOut(c, Signed(m, c, n))
         \/ \E u \in muUrls : UseUrl(u)
<1>1. CASE UNCHANGED multiVars
  BY <1>1
<1>2. CASE \E u \in muUrls : UseUrl(u)
  BY <1>2
<1>3. ASSUME NEW c \in MuClients,
             \/ S3CreateMultipartUpload(c) \/ CosCreateMultipartUpload(c)
             \/ MinioCreateMultipartUpload(c) \/ LocalMultipart(c)
             \/ S3CompleteMultipartUpload(c) \/ CosCompleteMultipartUpload(c)
             \/ MinioCompleteMultipartUpload(c)
             \/ S3AbortMultipartUpload(c) \/ CosAbortMultipartUpload(c)
             \/ MinioAbortMultipartUpload(c)
      PROVE  \/ NewUpload(c) \/ LocalMultipart(c) \/ UNCHANGED multiVars
             \/ Assembled(c, muMine[c]) \/ Discard(c)
  BY <1>3, Zenon DEF Complete, CallFails, S3CreateMultipartUpload, CosCreateMultipartUpload, MinioCreateMultipartUpload,
              S3CompleteMultipartUpload, CosCompleteMultipartUpload, MinioCompleteMultipartUpload,
              S3AbortMultipartUpload, CosAbortMultipartUpload, MinioAbortMultipartUpload
<1>4. ASSUME NEW c \in MuClients, NEW n \in MuNumbers,
             S3UploadPart(c, n) \/ CosUploadPart(c, n) \/ MinioUploadPart(c, n)
      PROVE  SendPart(c, n) \/ UNCHANGED multiVars
  BY <1>4, Zenon DEF CallFails, S3UploadPart, CosUploadPart, MinioUploadPart
<1> QED BY <1>1, <1>2, <1>3, <1>4, Zenon DEF MuNext

\* The lists of parts that clients and the service keep.
LEMMA MuStep == MuInv /\ [MuNext]_multiVars => MuInv'
<1> SUFFICES ASSUME MuInv, [MuNext]_multiVars PROVE MuInv'
  OBVIOUS
<1>t. MuTypeOK /\ MuUrlsOK /\ MultipartNotMixed
  BY DEF MuInv
<1>p. MuParts \in Nat \ {0} /\ MuMaxTags \in Nat
  BY MuAssumption
<1>c. NoParts \in [MuNumbers -> 0..MuMaxTags] /\ Closed \in [MuNumbers -> -1..MuMaxTags]
      /\ NoParts \in [MuNumbers -> -1..MuMaxTags]
  BY <1>p, SMTT(60) DEF NoParts, Closed
<1>1. CASE UNCHANGED multiVars
  BY <1>1, <1>t DEF multiVars, MuInv, MuTypeOK, MuUrlsOK, MultipartNotMixed
<1>2. ASSUME NEW c \in MuClients, NewUpload(c) \/ LocalMultipart(c)
      PROVE  MuInv'
  <2>1. MuTypeOK' /\ MuUrlsOK'
    BY <1>2, <1>t, <1>c, Zenon DEF NewUpload, LocalMultipart, MuTypeOK, MuUrlsOK
  <2>2. MultipartNotMixed'
    BY <1>2, <1>t DEF NewUpload, LocalMultipart, MuTypeOK, MultipartNotMixed
  <2> QED BY <2>1, <2>2, Zenon DEF MuInv
<1>3. ASSUME NEW c \in MuClients, Discard(c)
      PROVE  MuInv'
  <2>1. MuTypeOK' /\ MuUrlsOK'
    BY <1>3, <1>t, <1>c, Zenon DEF Discard, MuTypeOK, MuUrlsOK
  <2>2. MultipartNotMixed'
    BY <1>3, <1>t DEF Discard, MuTypeOK, MultipartNotMixed
  <2> QED BY <2>1, <2>2 DEF MuInv
<1>4. ASSUME NEW c \in MuClients, Assembled(c, muMine[c])
      PROVE  MuInv'
  <2>1. muMine[c] \in Seq(0..MuMaxTags)
    BY <1>t, <1>p, FunctionIsSeq, SMTT(60) DEF MuTypeOK, MuNumbers
  <2>2. MuTypeOK' /\ MuUrlsOK'
    BY <1>4, <1>t, <1>c, <2>1, Zenon DEF Assembled, Assemble, MuTypeOK, MuUrlsOK
  <2>3. MultipartNotMixed'
    BY <1>4, <1>t DEF Assembled, Assemble, MuTypeOK, MultipartNotMixed
  <2> QED BY <2>2, <2>3 DEF MuInv
<1>5. ASSUME NEW c \in MuClients, NEW n \in MuNumbers, SendPart(c, n)
      PROVE  MuInv'
  <2>1. muTags + 1 \in 0..MuMaxTags /\ muTags + 1 \in -1..MuMaxTags
    BY <1>5, <1>t, <1>p DEF SendPart, PutPart, MuTypeOK
  <2>2. MuTypeOK' /\ MuUrlsOK'
    BY <1>5, <1>t, <2>1 DEF SendPart, PutPart, MuTypeOK, MuUrlsOK
  <2>3. MultipartNotMixed'
    BY <1>5, <1>t DEF SendPart, MultipartNotMixed
  <2> QED BY <2>2, <2>3 DEF MuInv
<1>6. ASSUME NEW c \in MuClients, NEW m \in {"GET", "PUT"}, NEW n \in 0..MuParts,
             HandOut(c, Signed(m, c, n))
      PROVE  MuInv'
  <2>1. Signed(m, c, n) \subseteq
          [method : {"GET", "PUT"}, upload : MuClients, part : 0..MuParts]
    <3>1. Url("GET", c, 0) \in [method : {"GET", "PUT"}, upload : MuClients, part : 0..MuParts]
          /\ Url("PUT", c, n) \in [method : {"GET", "PUT"}, upload : MuClients, part : 0..MuParts]
          /\ Url(m, c, 0) \in [method : {"GET", "PUT"}, upload : MuClients, part : 0..MuParts]
      BY <1>p DEF Url
    <3> QED BY <1>t, <3>1
            DEF MuTypeOK, Signed, S3GeneratePresignedURL, CosGeneratePresignedURL,
                MinioGeneratePresignedURL, LocalGeneratePresignedURL, S3GetPresignedURL,
                CosGetPresignedURL, MinioGetPresignedURL, LocalGetPresignedURL
  <2>2. MuUrlsOK'
    BY <1>6, <2>1 DEF HandOut, MuUrlsOK
  <2>3. MuTypeOK' /\ MultipartNotMixed'
    BY <1>6, <1>t DEF HandOut, MuTypeOK, MultipartNotMixed
  <2> QED BY <2>2, <2>3 DEF MuInv
<1>7. ASSUME NEW u \in muUrls, UseUrl(u)
      PROVE  MuInv'
  <2>0. u.upload \in MuClients /\ u.part \in 0..MuParts
    BY <1>t, Zenon DEF MuUrlsOK
  <2>1. MuUrlsOK'
    BY <1>7, Zenon DEF UseUrl, MuUrlsOK
  <2>2. CASE UNCHANGED <<muOpen, muTags, muObj>>
    BY <1>7, <1>t, <2>1, <2>2, Zenon DEF UseUrl, MuInv, MuTypeOK, MultipartNotMixed
  <2>3. CASE u.part # 0 /\ PutPart(u.upload, u.part) /\ UNCHANGED muObj
    <3>1. u.part \in MuNumbers /\ muTags + 1 \in 0..MuMaxTags /\ muTags + 1 \in -1..MuMaxTags
      BY <1>t, <1>p, <2>0, <2>3, SMTT(60) DEF PutPart, MuTypeOK, MuNumbers
    <3>2. MuTypeOK'
      BY <1>7, <1>t, <2>0, <2>3, <3>1, Zenon DEF UseUrl, PutPart, MuTypeOK
    <3>3. MultipartNotMixed'
      BY <1>7, <1>t, <2>3, Zenon DEF UseUrl, MultipartNotMixed
    <3> QED BY <2>1, <3>2, <3>3, Zenon DEF MuInv
  <2>4. CASE /\ muTags < MuMaxTags /\ muTags' = muTags + 1 /\ muObj' = <<muTags + 1>>
             /\ UNCHANGED muOpen
    <3>1. muTags + 1 \in 0..MuMaxTags
      BY <1>t, <1>p, <2>4, SMTT(60) DEF MuTypeOK
    <3>2. muObj' \in Seq(0..MuMaxTags) /\ Len(muObj') = 1
      BY <2>4, <3>1, SMTT(60)
    <3>3. MuTypeOK'
      BY <1>7, <1>t, <2>4, <3>1, <3>2, Zenon DEF UseUrl, MuTypeOK
    <3>4. MultipartNotMixed'
      BY <3>2, SMTT(60) DEF MultipartNotMixed
    <3> QED BY <2>1, <3>3, <3>4 DEF MuInv
  <2> QED BY <1>7, <2>2, <2>3, <2>4, Zenon DEF UseUrl
<1> QED BY <1>1, <1>2, <1>3, <1>4, <1>5, <1>6, <1>7, MuMoves, Zenon

\* A key without an object.
LEMMA MuInvInit == MuInit => MuInv
<1> SUFFICES ASSUME MuInit PROVE MuInv
  OBVIOUS
<1>1. muObj \in Seq(0..MuMaxTags) /\ muDone \in [MuClients -> Seq(0..MuMaxTags)] /\ Len(muObj) = 0
  BY SMTT(60) DEF MuInit
<1>2. muOpen \in [MuClients -> [MuNumbers -> -1..MuMaxTags]]
      /\ muMine \in [MuClients -> [MuNumbers -> 0..MuMaxTags]]
  BY MuAssumption, SMTT(60) DEF MuInit, NoParts, Closed
<1>3. MuTypeOK
  BY <1>1, <1>2, MuAssumption DEF MuInit, MuTypeOK
<1> QED BY <1>1, <1>3 DEF MuInit, MuInv, MuUrlsOK, MultipartNotMixed

\* The back ends of storage/v2 take only steps that those of package storage
\* can take.
LEMMA MuV2Moves == MuInv /\ [MuV2Next]_multiVars => [MuNext]_multiVars
<1> SUFFICES ASSUME MuInv, MuV2Next PROVE MuNext
  OBVIOUS
<1>1. ASSUME NEW c \in MuClients, NEW m \in {"GET", "PUT"}, NEW n \in 0..MuParts,
             HandOut(c, V2Signed(m, c, n))
      PROVE  HandOut(c, Signed(m, c, n))
  <2>1. V2Signed(m, c, n) \subseteq Signed(m, c, n)
    BY DEF MuInv, MuTypeOK, V2Signed, Signed, V2S3GeneratePresignedURL, V2CosGeneratePresignedURL,
           V2S3GetPresignedURL, V2CosGetPresignedURL, V2MinioGetPresignedURL,
           MinioGeneratePresignedURL, LocalGeneratePresignedURL, LocalGetPresignedURL
  <2>2. \A u \in V2Signed(m, c, n) : u \in Signed(m, c, n)
    BY <2>1, Zenon
  <2> QED BY <1>1, <2>2, Zenon DEF HandOut
<1>2. CASE \E u \in muUrls : UseUrl(u)
  BY <1>2 DEF MuNext
<1>3. ASSUME NEW c \in MuClients,
             \/ V2S3Create(c) \/ V2CosCreate(c) \/ V2MinioCreate(c) \/ V2LocalMultipart(c)
             \/ V2S3Complete(c) \/ V2CosComplete(c) \/ V2MinioComplete(c)
             \/ V2S3Abort(c) \/ V2CosAbort(c) \/ V2MinioAbort(c)
             \/ \E n \in MuNumbers :
                  V2S3UploadPart(c, n) \/ V2CosUploadPart(c, n) \/ V2MinioUploadPart(c, n)
      PROVE  MuNext
  BY <1>3, Zenon
     DEF MuNext, V2S3Create, V2CosCreate, V2MinioCreate, V2LocalMultipart, V2S3Complete,
         V2CosComplete, V2MinioComplete, V2S3Abort, V2CosAbort, V2MinioAbort, V2S3UploadPart,
         V2CosUploadPart, V2MinioUploadPart
<1>4. ASSUME NEW c \in MuClients, NEW m \in {"GET", "PUT"}, NEW n \in 0..MuParts,
             HandOut(c, V2Signed(m, c, n))
      PROVE  MuNext
  BY <1>1, <1>4, Zenon DEF MuNext
<1> QED BY <1>2, <1>3, <1>4, Zenon DEF MuV2Next

\* CompleteMultipartUpload: however uploads to one key, failing calls, aborts and
\* part URLs interleave, the object is all the parts of one client or what one URL
\* brought, for any number of clients and parts and in both generations of the
\* back ends.
THEOREM ObjectNeverMixed == MuSpec \/ MuV2Spec => []MultipartNotMixed
<1>1. MuInv => MultipartNotMixed
  BY DEF MuInv
<1>2. MuSpec => []MultipartNotMixed
  BY <1>1, MuInvInit, MuStep, PTL DEF MuSpec
<1>3. MuV2Spec => []MultipartNotMixed
  BY <1>1, MuInvInit, MuStep, MuV2Moves, PTL DEF MuV2Spec
<1> QED BY <1>2, <1>3

-----------------------------------------------------------------------------
(* Job rows.                                                               *)

\* The row, the copies that workers hold and the last answer are coherent; a
\* copy that is about to be saved is settled.
JbRows ==
  /\ Coherent(jbRow)
  /\ \A w \in JbWorkers :
       /\ jbPc[w] # "idle" => Coherent(jbCopy[w]) /\ jbCopy[w].status # "none"
       /\ jbPc[w] = "save" => jbCopy[w].status \in {"success", "failed"}
  /\ jbSeen.url => jbSeen.status = "success" /\ jbSeen.msg = << >>

JbInv == JbTypeOK /\ JbRows

Settled(r) == r.status \in {"success", "failed"}

\* A coherent row without a status is no row.
LEMMA JbNoRow ==
  ASSUME NEW r \in JobRows, Coherent(r), r # NoRow
  PROVE  r.status # "none"
BY DEF JobRows, Coherent, NoRow

\* The constant rows.
LEMMA JbConstants ==
  /\ NoRow \in JobRows /\ NewRow \in JobRows /\ Coherent(NoRow) /\ Coherent(NewRow)
  /\ NewRow.status = "pending"
<1>1. << >> \in Seq(JobErrors)
  OBVIOUS
<1> QED BY <1>1, Zenon DEF NoRow, NewRow, JobRows, JobStatus, Coherent

\* A row that the monitor has timed out is settled and coherent.
LEMMA JbTimedOut ==
  ASSUME NEW r \in JobRows
  PROVE  TimedOut(r) \in JobRows /\ Coherent(TimedOut(r)) /\ Settled(TimedOut(r))
<1>1. <<"timeout">> \in Seq(JobErrors) /\ <<"timeout">> # << >>
  BY DEF JobErrors
<1>2. TimedOut(r) \in JobRows
  BY <1>1, Zenon DEF TimedOut, JobRows, JobStatus
<1>3. TimedOut(r).status = "failed" /\ TimedOut(r).msg = <<"timeout">>
  BY DEF TimedOut, JobRows
<1> QED BY <1>1, <1>2, <1>3 DEF Coherent, Settled

\* A failure is recorded with its message.
LEMMA JbFailed ==
  ASSUME NEW r \in JobRows, NEW m \in Seq(JobErrors)
  PROVE  LET f == [r EXCEPT !.status = "failed", !.msg = Append(m, "error")]
         IN  f \in JobRows /\ Coherent(f) /\ Settled(f)
<1> DEFINE f == [r EXCEPT !.status = "failed", !.msg = Append(m, "error")]
<1>1. Append(m, "error") \in Seq(JobErrors) /\ Append(m, "error") # << >>
  BY DEF JobErrors
<1>2. f \in JobRows
  BY <1>1, Zenon DEF JobRows, JobStatus
<1>3. f.status = "failed" /\ f.msg = Append(m, "error")
  BY DEF JobRows
<1> HIDE DEF f
<1>4. Coherent(f) /\ Settled(f)
  BY <1>1, <1>3 DEF Coherent, Settled
<1> QED BY <1>2, <1>4 DEF f

\* The output changes nothing else of a settled row.
LEMMA JbWithOutput ==
  ASSUME NEW r \in JobRows, Coherent(r), Settled(r), NEW o \in BOOLEAN
  PROVE  WithOutput(r, o) \in JobRows /\ Coherent(WithOutput(r, o)) /\ Settled(WithOutput(r, o))
BY Zenon DEF WithOutput, JobRows, JobStatus, Coherent, Settled

\* exportjob.UpdateJobStatus settles the copy, whatever it was.
LEMMA JbExportResult ==
  ASSUME NEW r \in JobRows, Coherent(r), r.status # "none", jbKind = "export",
         NEW late \in BOOLEAN, NEW failed \in BOOLEAN, NEW o \in BOOLEAN
  PROVE  LET x == ExportResult(r, late, failed, o)
         IN  x \in JobRows /\ Coherent(x) /\ Settled(x)
<1> DEFINE q == IF late THEN TimedOut(r) ELSE r
           t == IF failed THEN [q EXCEPT !.status = "failed", !.msg = Append(@, "error")]
                ELSE IF q.status = "pending" THEN [q EXCEPT !.status = "success"] ELSE q
<1>1. q \in JobRows /\ Coherent(q) /\ q.status # "none"
  BY JbTimedOut DEF Settled
<1> HIDE DEF q
<1>2. t \in JobRows /\ Coherent(t) /\ Settled(t)
  <2>1. CASE failed
    <3>1. q.msg \in Seq(JobErrors)
      BY <1>1 DEF JobRows
    <3>2. t = [q EXCEPT !.status = "failed", !.msg = Append(q.msg, "error")]
      BY <2>1, <1>1 DEF JobRows
    <3> QED BY <1>1, <3>1, <3>2, JbFailed, Zenon
  <2>2. CASE ~failed /\ q.status = "pending"
    <3>1. t = [status |-> "success", msg |-> q.msg, out |-> q.out]
      BY <1>1, <2>2 DEF JobRows
    <3> QED BY <1>1, <2>2, <3>1, Zenon DEF JobRows, JobStatus, Coherent, Settled
  <2>3. CASE ~failed /\ q.status # "pending"
    BY <1>1, <2>3, Zenon DEF JobRows, JobStatus, Settled
  <2> QED BY <2>1, <2>2, <2>3
<1> HIDE DEF t
<1>3. WithOutput(t, o) \in JobRows /\ Coherent(WithOutput(t, o)) /\ Settled(WithOutput(t, o))
  BY <1>2, JbWithOutput, Zenon
<1> QED BY <1>3 DEF ExportResult, t, q

\* No step but the creation of a row does anything but settle it.
LEMMA JbRowStep ==
  ASSUME JbInv, [JbNext]_jobVars
  PROVE  /\ jbKind' = jbKind
         /\ \/ jbRow' = jbRow
            \/ jbRow = NoRow /\ jbRow' = NewRow
            \/ jbRow' \in JobRows /\ Coherent(jbRow') /\ Settled(jbRow')
<1>t. jbRow \in JobRows /\ jbCopy \in [JbWorkers -> JobRows] /\ jbMon \subseteq JobRows
      /\ jbPc \in [JbWorkers -> {"idle", "got", "save"}]
  BY Zenon DEF JbInv, JbTypeOK
<1>k. jbKind' = jbKind
  BY Zenon DEF JbNext, CreateExportJob, CreateAsyncJob, MonitorExportJobRoutine, repairTimeoutJobs,
         checkTimeoutJob, DetailExportJob, BatchGetJobByUUIDs, JobTimePasses, GetJobByUUID,
         ExportSave, CronTick, CronFinish, ExportDecide, AsyncUpdate, jobVars
<1>1. CASE CreateExportJob \/ CreateAsyncJob \/ \E w \in JbWorkers : CronTick(w)
  BY <1>1, <1>k, Zenon DEF CreateExportJob, CreateAsyncJob, CronTick
<1>2. CASE \/ repairTimeoutJobs \/ DetailExportJob \/ BatchGetJobByUUIDs \/ JobTimePasses
           \/ UNCHANGED jobVars
           \/ \E w \in JbWorkers :
                GetJobByUUID(w) \/ \E failed, output \in BOOLEAN : ExportDecide(w, failed, output)
  BY <1>2, <1>k, Zenon DEF repairTimeoutJobs, DetailExportJob, BatchGetJobByUUIDs, JobTimePasses, jobVars,
                    GetJobByUUID, ExportDecide
<1>3. CASE checkTimeoutJob
  BY <1>3, <1>k, <1>t, JbTimedOut, Zenon DEF checkTimeoutJob
<1>4. ASSUME NEW w \in JbWorkers, ExportSave(w)
      PROVE  \/ jbRow' = jbRow
             \/ jbRow' \in JobRows /\ Coherent(jbRow') /\ Settled(jbRow')
  BY <1>4, <1>t DEF ExportSave, JbGo, JbInv, JbRows, Settled
<1>5. ASSUME NEW w \in JbWorkers, CronFinish(w)
      PROVE  \/ jbRow' = jbRow
             \/ jbRow' \in JobRows /\ Coherent(jbRow') /\ Settled(jbRow')
  <2> DEFINE ok == [NewRow EXCEPT !.status = "success", !.out = TRUE]
             bad == [NewRow EXCEPT !.status = "failed", !.msg = <<"error">>]
  <2>1. jbRow' \in {ok, bad} \/ jbRow' = jbRow
    BY <1>5 DEF CronFinish
  <2>0. << >> \in Seq(JobErrors)
    OBVIOUS
  <2>2. ok \in JobRows /\ Coherent(ok) /\ Settled(ok)
    BY <2>0, ZenonT(20) DEF NewRow, NoRow, JobRows, JobStatus, Coherent, Settled
  <2>3. <<"error">> \in Seq(JobErrors) /\ <<"error">> # << >>
    BY DEF JobErrors
  <2>4. bad \in JobRows /\ Coherent(bad) /\ Settled(bad)
    BY <2>3, Zenon DEF NewRow, NoRow, JobRows, JobStatus, Coherent, Settled
  <2> QED BY <2>1, <2>2, <2>4
<1>6. ASSUME NEW w \in JbWorkers, NEW failed \in BOOLEAN, NEW output \in BOOLEAN,
             AsyncUpdate(w, failed, output)
      PROVE  \/ jbRow' = jbRow
             \/ jbRow' \in JobRows /\ Coherent(jbRow') /\ Settled(jbRow')
  <2> DEFINE r == [jbRow EXCEPT !.status = IF failed THEN "failed" ELSE "success",
                                !.msg = IF failed THEN Append(jbCopy[w].msg, "error")
                                        ELSE jbRow.msg]
  <2>1. jbKind = "async" /\ jbRow' \in {WithOutput(r, output), jbRow}
    BY <1>6 DEF AsyncUpdate
  <2>2. r \in JobRows /\ Coherent(r) /\ Settled(r)
    <3>1. CASE failed
      <4>1. jbCopy[w].msg \in Seq(JobErrors)
        BY <1>t DEF JobRows
      <4>2. r = [jbRow EXCEPT !.status = "failed", !.msg = Append(jbCopy[w].msg, "error")]
        BY <3>1
      <4> QED BY <1>t, <4>1, <4>2, JbFailed, Zenon
    <3>2. CASE ~failed
      BY <1>t, <2>1, <3>2, Zenon DEF JobRows, JobStatus, Coherent, Settled
    <3> QED BY <3>1, <3>2, Zenon
  <2> HIDE DEF r
  <2> QED BY <2>1, <2>2, JbWithOutput
<1> QED BY <1>k, <1>1, <1>2, <1>3, <1>4, <1>5, <1>6, Zenon DEF JbNext, MonitorExportJobRoutine

\* A settled job is never pending again, and the row stays coherent.
LEMMA JbRowKept ==
  ASSUME JbInv, [JbNext]_jobVars
  PROVE  /\ jbRow' \in JobRows /\ Coherent(jbRow)'
         /\ jbRow.status \notin {"none", "pending"} => jbRow'.status \in {"success", "failed"}
<1>t. jbRow \in JobRows /\ Coherent(jbRow)
  BY DEF JbInv, JbTypeOK, JbRows
<1>1. jbKind' = jbKind
  BY JbRowStep
<1>2. CASE jbRow' = jbRow
  BY <1>t, <1>1, <1>2 DEF Coherent, JobRows, JobStatus
<1>3. CASE jbRow = NoRow /\ jbRow' = NewRow
  BY <1>1, <1>3, JbConstants DEF Coherent, NoRow
<1>4. CASE jbRow' \in JobRows /\ Coherent(jbRow') /\ Settled(jbRow')
  BY <1>1, <1>4 DEF Coherent, Settled
<1> QED BY <1>2, <1>3, <1>4, JbRowStep

\* What a worker holds, and where it is.
JbHolds(pc, copy) ==
  /\ pc \in [JbWorkers -> {"idle", "got", "save"}] /\ copy \in [JbWorkers -> JobRows]
  /\ \A w \in JbWorkers :
       /\ pc[w] # "idle" => Coherent(copy[w]) /\ copy[w].status # "none"
       /\ pc[w] = "save" => copy[w].status \in {"success", "failed"}

\* The copies stay coherent, and are settled when they are saved.
LEMMA JbCopyStep ==
  ASSUME JbInv, [JbNext]_jobVars
  PROVE  JbHolds(jbPc', jbCopy')
<1>t. JbHolds(jbPc, jbCopy) /\ jbRow \in JobRows /\ Coherent(jbRow) /\ jbLate \in BOOLEAN
  BY DEF JbInv, JbTypeOK, JbRows, JbHolds
<1>1. CASE UNCHANGED <<jbPc, jbCopy>>
  BY <1>1, <1>t
<1>2. ASSUME NEW w \in JbWorkers, NEW r \in JobRows, Coherent(r), r.status # "none",
             NEW pc \in {"got", "save"}, pc = "save" => r.status \in {"success", "failed"},
             jbPc' = [jbPc EXCEPT ![w] = pc], jbCopy' = [jbCopy EXCEPT ![w] = r]
      PROVE  JbHolds(jbPc', jbCopy')
  BY <1>2, <1>t DEF JbHolds
<1>3. ASSUME NEW w \in JbWorkers, jbPc' = [jbPc EXCEPT ![w] = "idle"],
             jbCopy' = [jbCopy EXCEPT ![w] = NoRow]
      PROVE  JbHolds(jbPc', jbCopy')
  BY <1>3, <1>t, JbConstants DEF JbHolds
<1>4. ASSUME NEW w \in JbWorkers, GetJobByUUID(w)
      PROVE  JbHolds(jbPc', jbCopy')
  <2>1. jbPc' = [jbPc EXCEPT ![w] = "got"] /\ jbCopy' = [jbCopy EXCEPT ![w] = jbRow] /\ jbRow # NoRow
    BY <1>4 DEF GetJobByUUID, JbGo
  <2>2. jbRow.status # "none"
    BY <1>t, <2>1, JbNoRow
  <2> QED BY <1>2, <1>t, <2>1, <2>2, Zenon
<1>5. ASSUME NEW w \in JbWorkers, CronTick(w)
      PROVE  JbHolds(jbPc', jbCopy')
  <2>1. jbPc' = [jbPc EXCEPT ![w] = "got"] /\ jbCopy' = [jbCopy EXCEPT ![w] = NewRow]
    BY <1>5 DEF CronTick, JbGo
  <2> QED BY <1>2, <2>1, JbConstants, Zenon
<1>6. ASSUME NEW w \in JbWorkers, NEW failed \in BOOLEAN, NEW output \in BOOLEAN,
             ExportDecide(w, failed, output)
      PROVE  JbHolds(jbPc', jbCopy')
  <2> DEFINE x == ExportResult(jbCopy[w], jbLate, failed, output)
  <2>1. /\ jbKind = "export" /\ jbPc[w] = "got" /\ jbPc' = [jbPc EXCEPT ![w] = "save"]
        /\ jbCopy' = [jbCopy EXCEPT ![w] = x]
    BY <1>6, <1>t DEF ExportDecide, JbGo, JbHolds
  <2>2. jbCopy[w] \in JobRows /\ Coherent(jbCopy[w]) /\ jbCopy[w].status # "none"
    BY <1>t, <2>1 DEF JbHolds
  <2>3. x \in JobRows /\ Coherent(x) /\ Settled(x)
    BY <1>t, <2>1, <2>2, JbExportResult
  <2>4. x.status \in {"success", "failed"} /\ x.status # "none"
    BY <2>3 DEF Settled
  <2> HIDE DEF x
  <2> QED BY <1>2, <2>1, <2>3, <2>4, Zenon
<1>7. ASSUME NEW w \in JbWorkers,
             \/ ExportSave(w) \/ CronFinish(w)
             \/ \E failed, output \in BOOLEAN : AsyncUpdate(w, failed, output)
      PROVE  JbHolds(jbPc', jbCopy')
  <2>1. jbPc' = [jbPc EXCEPT ![w] = "idle"] /\ jbCopy' = [jbCopy EXCEPT ![w] = NoRow]
    BY <1>7, Zenon DEF ExportSave, CronFinish, AsyncUpdate, JbGo
  <2> QED BY <1>3, <2>1, Zenon
<1>8. CASE \/ CreateExportJob \/ CreateAsyncJob \/ MonitorExportJobRoutine
           \/ DetailExportJob \/ BatchGetJobByUUIDs \/ JobTimePasses \/ UNCHANGED jobVars
  <2>1. UNCHANGED <<jbPc, jbCopy>>
    BY <1>8, Zenon DEF CreateExportJob, CreateAsyncJob, MonitorExportJobRoutine, repairTimeoutJobs,
                checkTimeoutJob, DetailExportJob, BatchGetJobByUUIDs, JobTimePasses, jobVars
  <2> QED BY <1>1, <2>1, Zenon
<1> QED BY <1>4, <1>5, <1>6, <1>7, <1>8 DEF JbNext

\* The monitor, the clock and the answers.
LEMMA JbRestStep ==
  ASSUME JbInv, [JbNext]_jobVars
  PROVE  /\ jbTimed' \in BOOLEAN /\ jbLate' \in BOOLEAN /\ jbMon' \subseteq JobRows
         /\ jbCalls' \in 0..JbMaxCalls /\ jbSeen' \in JobAnswers
         /\ jbSeen'.url => jbSeen'.status = "success" /\ jbSeen'.msg = << >>
<1>t. /\ jbTimed \in BOOLEAN /\ jbLate \in BOOLEAN /\ jbMon \subseteq JobRows /\ jbRow \in JobRows
      /\ jbCalls \in 0..JbMaxCalls /\ jbSeen \in JobAnswers /\ Coherent(jbRow)
      /\ jbSeen.url => jbSeen.status = "success" /\ jbSeen.msg = << >>
  BY DEF JbInv, JbTypeOK, JbRows
<1>1. jbTimed' \in BOOLEAN /\ jbLate' \in BOOLEAN
  BY <1>t, ZenonT(60)
     DEF JbNext, CreateExportJob, CreateAsyncJob, MonitorExportJobRoutine, repairTimeoutJobs,
         checkTimeoutJob, DetailExportJob, BatchGetJobByUUIDs, JobTimePasses, GetJobByUUID,
         ExportSave, CronTick, CronFinish, ExportDecide, AsyncUpdate, jobVars
<1>2. jbMon' \subseteq JobRows
  BY <1>t, Zenon DEF JbNext, CreateExportJob, CreateAsyncJob, MonitorExportJobRoutine, repairTimeoutJobs,
         checkTimeoutJob, DetailExportJob, BatchGetJobByUUIDs, JobTimePasses, GetJobByUUID,
         ExportSave, CronTick, CronFinish, ExportDecide, AsyncUpdate, jobVars
<1>3. jbCalls' \in 0..JbMaxCalls
  <2>1. jbCalls' = jbCalls \/ (jbCalls > 0 /\ jbCalls' = jbCalls - 1)
    BY Zenon DEF JbNext, CreateExportJob, CreateAsyncJob, MonitorExportJobRoutine, repairTimeoutJobs,
         checkTimeoutJob, DetailExportJob, BatchGetJobByUUIDs, JobTimePasses, GetJobByUUID,
         ExportSave, CronTick, CronFinish, ExportDecide, AsyncUpdate, jobVars
  <2> QED BY <1>t, <2>1, JbAssumption, SMTT(60)
<1>4. CASE UNCHANGED jbSeen
  BY <1>t, <1>1, <1>2, <1>3, <1>4, Zenon
<1>5. CASE DetailExportJob
  <2>1. /\ jbKind = "export"
        /\ jbSeen' = [status |-> jbRow.status, msg |-> jbRow.msg,
                      url |-> jbRow.out /\ jbRow.status = "success"]
    BY <1>5, Zenon DEF DetailExportJob
  <2>2. (jbRow.out /\ jbRow.status = "success") \in BOOLEAN
    BY Zenon
  <2>3. jbSeen' \in JobAnswers
    BY <1>t, <2>1, <2>2, Zenon DEF JobAnswers, JobRows
  <2>4. jbSeen'.url => jbSeen'.status = "success" /\ jbSeen'.msg = << >>
    BY <1>t, <2>1, Zenon DEF Coherent
  <2> QED BY <1>1, <1>2, <1>3, <2>3, <2>4, Zenon
<1>6. CASE BatchGetJobByUUIDs
  <2>1. jbSeen' = [status |-> jbRow.status, msg |-> jbRow.msg, url |-> FALSE]
    BY <1>6 DEF BatchGetJobByUUIDs
  <2>2. jbSeen' \in JobAnswers /\ ~jbSeen'.url
    BY <1>t, <2>1 DEF JobAnswers, JobRows
  <2> QED BY <1>1, <1>2, <1>3, <2>2
<1>7. UNCHANGED jbSeen \/ DetailExportJob \/ BatchGetJobByUUIDs
  BY Zenon DEF JbNext, CreateExportJob, CreateAsyncJob, MonitorExportJobRoutine, repairTimeoutJobs,
         checkTimeoutJob, JobTimePasses, GetJobByUUID,
         ExportSave, CronTick, CronFinish, ExportDecide, AsyncUpdate, jobVars
<1> QED BY <1>4, <1>5, <1>6, <1>7, Zenon

\* Every step on a job row keeps the invariant.
LEMMA JbInvStep == JbInv /\ [JbNext]_jobVars => JbInv'
<1> SUFFICES ASSUME JbInv, [JbNext]_jobVars PROVE JbInv'
  OBVIOUS
<1>1. jbKind' = jbKind /\ jbKind \in {"export", "async", "cron"}
  BY JbRowStep, Zenon DEF JbInv, JbTypeOK
<1>2. \A r : Coherent(r) => Coherent(r)'
  BY <1>1, Zenon DEF Coherent
<1>3. jbRow' \in JobRows /\ Coherent(jbRow)'
  BY JbRowKept, Zenon
<1>4. JbTypeOK'
  BY <1>1, <1>3, JbCopyStep, JbRestStep, Zenon DEF JbTypeOK, JbHolds
<1>5. \A w \in JbWorkers :
        /\ jbPc'[w] # "idle" => Coherent(jbCopy[w])' /\ jbCopy'[w].status # "none"
        /\ jbPc'[w] = "save" => jbCopy'[w].status \in {"success", "failed"}
  BY <1>1, JbCopyStep, Zenon DEF JbHolds, Coherent
<1>6. JbRows'
  BY <1>3, <1>5, JbRestStep, Zenon DEF JbRows
<1> QED BY <1>4, <1>6, Zenon DEF JbInv

\* No row, no copy and no answer to begin with.
LEMMA JbInvInit == JbInit => JbInv
<1> SUFFICES ASSUME JbInit PROVE JbInv
  OBVIOUS
<1>1. NoRow \in JobRows /\ Coherent(NoRow)
  BY JbConstants
<1>2. jbTimed \in BOOLEAN /\ jbLate \in BOOLEAN
  BY Zenon DEF JbInit
<1>3. jbSeen \in JobAnswers /\ ~jbSeen.url
  BY SMTT(60) DEF JbInit, JobAnswers, JobStatus
<1>4. jbCalls \in 0..JbMaxCalls
  BY JbAssumption, SMTT(60) DEF JbInit
<1>5. JbTypeOK
  BY <1>1, <1>2, <1>3, <1>4, Zenon DEF JbInit, JbTypeOK
<1>6. JbRows
  BY <1>1, <1>3 DEF JbInit, JbRows
<1> QED BY <1>5, <1>6, Zenon DEF JbInv

\* However updates, the timeout monitor and stale copies overlap, a job row is
\* one outcome and never pending again once it is settled, for any number of
\* workers and calls (job_update.go:12-47, job_monitor.go:38-69).
THEOREM JobsStayCoherent == JbSpec => JobRowsCoherent
<1>1. JbInv /\ [JbNext]_jobVars =>
        [/\ Coherent(jbRow')
         /\ jbSeen'.url => jbSeen'.status = "success" /\ jbSeen'.msg = << >>
         /\ jbRow.status \notin {"none", "pending"} => jbRow'.status \in {"success", "failed"}
        ]_jobVars
  <2> SUFFICES ASSUME JbInv, [JbNext]_jobVars
               PROVE  /\ Coherent(jbRow')
                      /\ jbSeen'.url => jbSeen'.status = "success" /\ jbSeen'.msg = << >>
                      /\ jbRow.status \notin {"none", "pending"} =>
                           jbRow'.status \in {"success", "failed"}
    BY Zenon
  <2>1. jbKind' = jbKind /\ Coherent(jbRow)'
    BY JbRowStep, JbRowKept, Zenon
  <2>2. Coherent(jbRow')
    BY <2>1, Zenon DEF Coherent
  <2> QED BY <2>2, JbRowKept, JbRestStep, Zenon
<1> QED BY <1>1, JbInvInit, JbInvStep, PTL DEF JbSpec, JobRowsCoherent

-----------------------------------------------------------------------------
(* Settings behind a cache.                                                *)

SgEntries == [val : SgValues, over : BOOLEAN, ver : 0..SgMaxVersion]

\* A value is encrypted at most once, and only that of a secret is.
SgOnce(v) == v.enc \in {0, 1} /\ (~sgSecret => v.enc = 0)

SgClear == SgOnce(sgRow) /\ SgOnce(sgCache.val) /\ \A p \in SgProcs : SgOnce(sgVal[p])

\* A cached value is the row, unless a writer has still to drop it or the
\* history variable says that it came or stayed late.
SgCached ==
  ~sgRaced /\ Entry /\ (\A p \in SgWriters : sgPc[p] \notin {"delete", "other"}) =>
    sgCache.val = sgRow

\* A read that has a value has one that is not older than its start.
SgRead ==
  /\ \A p \in SgProcs : sgStart[p] =< sgRow.n
  /\ \A p \in SgReaders : sgPc[p] \in {"put", "update", "done"} => sgVal[p].n >= sgStart[p]

SgInv == SgTypeOK /\ SgClear /\ SgCached /\ SgRead

\* The value of an absent row and the absent entry.
LEMMA SgConstants ==
  /\ NoVal \in SgValues /\ Blank(NoVal) /\ NoVal.n = 0 /\ NoVal.enc = 0
  /\ NoEntry \in SgEntries /\ NoEntry.val = NoVal
BY SgAssumption, SMTT(60) DEF NoVal, NoEntry, SgValues, SgEntries, Blank

\* An empty cache has no value, and a value that is found is the cached one.
LEMMA SgFound ==
  ASSUME SgTypeOK, ~Blank(CacheGet)
  PROVE  Entry /\ CacheGet = sgCache.val
<1>1. Blank(NoVal) /\ NoEntry.val = NoVal
  BY SgConstants, Zenon
<1>2. CASE sgKind = "memory"
  BY <1>1, <1>2, SMTT(30) DEF CacheGet, MemoryGet
<1>3. CASE sgKind = "mysql"
  <2>1. CacheGet = MysqlGet
    BY <1>3, SMTT(30) DEF CacheGet
  <2> QED BY <1>1, <2>1, Zenon DEF MysqlGet, Entry
<1>4. CASE sgKind = "redis"
  <2>1. CacheGet = RedisGet
    BY <1>4, SMTT(30) DEF CacheGet
  <2> QED BY <1>1, <2>1, Zenon DEF RedisGet, Entry
<1> QED BY <1>2, <1>3, <1>4, Zenon DEF SgTypeOK

\* What a write stores.
LEMMA SgWritten ==
  ASSUME SgTypeOK, sgRow.n < SgMaxWrites, NEW x \in SgInputs, Write(x)
  PROVE  sgRow' \in SgValues /\ sgRow'.n = sgRow.n + 1 /\ SgOnce(sgRow')
<1> DEFINE r == [n |-> sgRow.n + 1, text |-> x.text, enc |-> x.enc]
<1>1. sgRow.n + 1 \in 0..SgMaxWrites
  BY SgAssumption, SMTT(60) DEF SgTypeOK, SgValues
<1>2. x.text \in {"none", "word"} /\ x.enc \in {0, 1} /\ (~sgSecret => x.enc = 0)
  BY SMTT(60) DEF SgInputs
<1>3. r \in SgValues /\ r.n = sgRow.n + 1 /\ r.enc = x.enc
  BY <1>1, <1>2, SMTT(60) DEF SgValues
<1> HIDE DEF r
<1>4. sgRow' = BeforeSave(r)
  BY Zenon DEF Write, r
<1>5. CASE sgRow' = r
  BY <1>2, <1>3, <1>5, Zenon DEF SgOnce
<1>6. CASE sgSecret /\ r.enc = 0 /\ sgRow' = [r EXCEPT !.enc = @ + 1]
  <2>1. sgRow' \in SgValues /\ sgRow'.n = r.n /\ sgRow'.enc = 1
    BY <1>3, <1>6, SMTT(60) DEF SgValues
  <2> QED BY <1>3, <1>6, <2>1, Zenon DEF SgOnce
<1>7. r.enc > 0 \/ r.enc = 0
  BY <1>2, <1>3, SMTT(30)
<1> QED BY <1>4, <1>5, <1>6, <1>7, Zenon DEF BeforeSave, EncryptSecret

\* A failure left is a natural number less.
LEMMA SgFaultsLeft ==
  ASSUME SgTypeOK, UNCHANGED sgFaults \/ SgFault
  PROVE  sgFaults' \in 0..SgMaxFaults
<1>1. sgFaults \in 0..SgMaxFaults
  BY Zenon DEF SgTypeOK
<1> QED BY <1>1, SgAssumption, SMTT(30) DEF SgFault

\* A step of one reader on its own variables, with a value not older than its
\* start, keeps the invariant.
LEMMA SgReaderStep ==
  ASSUME SgInv, NEW p \in SgReaders, UNCHANGED <<sgKind, sgSecret, sgRow, sgCache, sgVer, sgKey, sgRaced>>,
         NEW y \in {"idle", "db", "put", "done"}, sgPc[p] \in {"idle", "db", "done"},
         sgPc' = [sgPc EXCEPT ![p] = y], sgFaults' \in 0..SgMaxFaults,
         NEW v \in SgValues, SgOnce(v), NEW k \in 0..SgMaxWrites, k =< sgRow.n,
         y \in {"put", "done"} => v.n >= k,
         sgVal' = [sgVal EXCEPT ![p] = v], sgStart' = [sgStart EXCEPT ![p] = k]
  PROVE  SgInv'
<1>t. SgTypeOK /\ SgClear /\ SgCached /\ SgRead /\ p \in SgProcs
  BY Zenon DEF SgInv, SgProcs
<1>1. /\ \A q \in SgProcs : q # p =>
           sgPc'[q] = sgPc[q] /\ sgVal'[q] = sgVal[q] /\ sgStart'[q] = sgStart[q]
      /\ sgPc'[p] = y /\ sgVal'[p] = v /\ sgStart'[p] = k
  BY <1>t, Zenon DEF SgTypeOK
<1>2. SgTypeOK'
  <2>1. y \in SgPcs
    BY SMTT(30) DEF SgPcs
  <2> QED BY <1>t, <2>1, Zenon DEF SgTypeOK
<1>3. SgClear'
  BY <1>t, <1>1, Zenon DEF SgClear, SgOnce
<1>4. SgCached'
  <2>1. \A q \in SgProcs : sgPc'[q] \notin {"delete", "other"} => sgPc[q] \notin {"delete", "other"}
    <3>1. sgPc[p] \notin {"delete", "other"}
      BY SMTT(30)
    <3> QED BY <1>1, <3>1, Zenon
  <2> QED BY <1>t, <2>1, Zenon DEF SgCached, Entry, SgProcs
<1>5. SgRead'
  <2>1. \A q \in SgProcs : sgStart'[q] =< sgRow'.n
    BY <1>t, <1>1, Zenon DEF SgRead
  <2>2. \A q \in SgReaders : sgPc'[q] \in {"put", "update", "done"} => sgVal'[q].n >= sgStart'[q]
    <3>1. y \in {"put", "update", "done"} => y \in {"put", "done"}
      BY SMTT(30)
    <3> QED BY <1>t, <1>1, <3>1, Zenon DEF SgRead, SgProcs
  <2> QED BY <2>1, <2>2, Zenon DEF SgRead
<1> QED BY <1>2, <1>3, <1>4, <1>5, Zenon DEF SgInv

\* The steps of a reader on its own variables.
LEMMA SgGetStep ==
  ASSUME SgInv, NEW p \in SgReaders, Get(p) \/ GetRow(p) \/ GetReturn(p)
  PROVE  SgInv'
<1>t. SgTypeOK /\ SgClear /\ SgCached /\ SgRead /\ p \in SgProcs
  BY Zenon DEF SgInv, SgProcs
<1>r. /\ sgRow \in SgValues /\ sgRow.n \in 0..SgMaxWrites /\ sgRow.n \in Nat
      /\ 0 \in 0..SgMaxWrites /\ 0 =< sgRow.n /\ sgRow.n =< sgRow.n /\ sgRow.n >= sgRow.n
  BY <1>t, SgAssumption, SMTT(60) DEF SgTypeOK, SgValues
<1>o. SgOnce(sgRow) /\ SgOnce(sgCache.val) /\ SgOnce(sgVal[p]) /\ sgVal[p] \in SgValues
      /\ sgStart[p] \in 0..SgMaxWrites /\ sgStart[p] =< sgRow.n
  BY <1>t, Zenon DEF SgClear, SgTypeOK, SgRead
<1>s. sgVal = [sgVal EXCEPT ![p] = sgVal[p]] /\ sgStart = [sgStart EXCEPT ![p] = sgStart[p]]
  BY <1>t, Zenon DEF SgTypeOK
<1>0. UNCHANGED <<sgKind, sgSecret, sgRow, sgCache, sgVer, sgKey, sgRaced>>
  BY Zenon DEF Get, GetRow, GetReturn
<1>f. sgFaults' \in 0..SgMaxFaults
  <2>1. UNCHANGED sgFaults \/ SgFault
    BY Zenon DEF Get, GetRow, GetReturn
  <2> QED BY <1>t, <2>1, SgFaultsLeft, Zenon
<1>1. CASE Get(p)
  <2>1. CASE ~Blank(CacheGet) /\ SgGo(p, "idle", "done") /\ sgVal' = [sgVal EXCEPT ![p] = CacheGet]
             /\ sgStart' = [sgStart EXCEPT ![p] = IF Writing \/ sgRaced THEN 0 ELSE sgRow.n]
    <3> DEFINE k == IF Writing \/ sgRaced THEN 0 ELSE sgRow.n
    <3>1. Entry /\ CacheGet = sgCache.val
      BY <1>t, <2>1, SgFound, Zenon
    <3>2. sgCache.val \in SgValues /\ sgCache.val.n \in Nat
      <4>1. sgCache.val \in SgValues
        BY <1>t, SMTT(30) DEF SgTypeOK
      <4> QED BY <4>1, SgAssumption, SMTT(30) DEF SgValues
    <3>3. k \in 0..SgMaxWrites /\ k =< sgRow.n
      BY <1>r, Zenon
    <3>4. sgCache.val.n >= k
      <4>1. CASE Writing \/ sgRaced
        <5>1. k = 0
          BY <4>1, Zenon
        <5> QED BY <3>2, <5>1, SMTT(30)
      <4>2. CASE ~Writing /\ ~sgRaced
        <5>1. \A q \in SgWriters : sgPc[q] = "idle"
          BY <4>2, Zenon DEF Writing
        <5>2. \A q \in SgWriters : sgPc[q] \notin {"delete", "other"}
          BY <5>1, SMTT(30)
        <5>3. sgCache.val = sgRow /\ k = sgRow.n
          BY <1>t, <3>1, <4>2, <5>2, Zenon DEF SgCached
        <5> QED BY <1>r, <5>3, Zenon
      <4> QED BY <4>1, <4>2, Zenon
    <3>5. sgStart' = [sgStart EXCEPT ![p] = k]
      BY <2>1, Zenon
    <3> HIDE DEF k
    <3>6. sgPc[p] \in {"idle", "db", "done"} /\ sgPc' = [sgPc EXCEPT ![p] = "done"]
          /\ sgVal' = [sgVal EXCEPT ![p] = sgCache.val]
      BY <2>1, <3>1, Zenon DEF SgGo
    <3> QED BY <1>0, <1>f, <1>o, <3>2, <3>3, <3>4, <3>5, <3>6, SgReaderStep, Zenon
  <2>2. CASE SgGo(p, "idle", "db") /\ UNCHANGED sgVal
             /\ sgStart' = [sgStart EXCEPT ![p] = IF Writing THEN 0 ELSE sgRow.n]
    <3> DEFINE k == IF Writing THEN 0 ELSE sgRow.n
    <3>1. k \in 0..SgMaxWrites /\ k =< sgRow.n
      BY <1>r, Zenon
    <3>2. sgStart' = [sgStart EXCEPT ![p] = k]
      BY <2>2, Zenon
    <3> HIDE DEF k
    <3>3. sgPc[p] \in {"idle", "db", "done"} /\ sgPc' = [sgPc EXCEPT ![p] = "db"]
          /\ sgVal' = [sgVal EXCEPT ![p] = sgVal[p]]
      BY <1>s, <2>2, Zenon DEF SgGo
    <3>4. "db" \notin {"put", "done"}
      BY SMTT(30)
    <3> QED BY <1>0, <1>f, <1>o, <3>1, <3>2, <3>3, <3>4, SgReaderStep, Zenon
  <2> QED BY <1>1, <2>1, <2>2, Zenon DEF Get
<1>2. CASE GetRow(p)
  <2>1. CASE sgVal' = [sgVal EXCEPT ![p] = sgRow] /\ UNCHANGED sgStart
             /\ SgGo(p, "db", IF Blank(sgRow) THEN "done" ELSE "put")
    <3>1. PICK y \in {"done", "put"} : sgPc' = [sgPc EXCEPT ![p] = y]
      BY <2>1, Zenon DEF SgGo
    <3>2. sgPc[p] \in {"idle", "db", "done"} /\ y \in {"idle", "db", "put", "done"}
      BY <2>1, Zenon DEF SgGo
    <3>3. sgRow.n >= sgStart[p]
      BY <1>o, <1>r, SMTT(30)
    <3>4. sgVal' = [sgVal EXCEPT ![p] = sgRow] /\ sgStart' = [sgStart EXCEPT ![p] = sgStart[p]]
      BY <1>s, <2>1, Zenon
    <3> QED BY <1>0, <1>f, <1>o, <1>r, <3>1, <3>2, <3>3, <3>4, SgReaderStep, Zenon
  <2>2. CASE SgGo(p, "db", "idle") /\ UNCHANGED sgVal /\ sgStart' = [sgStart EXCEPT ![p] = 0]
    <3>1. sgPc[p] \in {"idle", "db", "done"} /\ sgPc' = [sgPc EXCEPT ![p] = "idle"]
          /\ sgVal' = [sgVal EXCEPT ![p] = sgVal[p]]
      BY <1>s, <2>2, Zenon DEF SgGo
    <3>2. "idle" \notin {"put", "done"}
      BY SMTT(30)
    <3> QED BY <1>0, <1>f, <1>o, <1>r, <2>2, <3>1, <3>2, SgReaderStep, Zenon
  <2> QED BY <1>2, <2>1, <2>2, Zenon DEF GetRow
<1>3. CASE GetReturn(p)
  <2>1. sgPc[p] \in {"idle", "db", "done"} /\ sgPc' = [sgPc EXCEPT ![p] = "idle"]
        /\ sgVal' = [sgVal EXCEPT ![p] = NoVal] /\ sgStart' = [sgStart EXCEPT ![p] = 0]
    BY <1>3, Zenon DEF GetReturn, SgGo
  <2>2. NoVal \in SgValues /\ SgOnce(NoVal)
    BY SgConstants, SMTT(30) DEF SgOnce
  <2>3. "idle" \notin {"put", "done"}
    BY SMTT(30)
  <2> QED BY <1>0, <1>f, <1>r, <2>1, <2>2, <2>3, SgReaderStep, Zenon
<1> QED BY <1>1, <1>2, <1>3, Zenon

\* The steps by which a reader puts the row it has read into the cache: the
\* history variable tells when it is no longer the row.
LEMMA SgPutStep ==
  ASSUME SgInv, NEW p \in SgReaders, CacheSet(p) \/ MysqlSetRead(p) \/ MysqlSetWrite(p)
  PROVE  SgInv'
<1>t. SgTypeOK /\ SgClear /\ SgCached /\ SgRead
  BY Zenon DEF SgInv
<1>p. p \in SgProcs /\ sgVal[p] \in SgValues /\ sgCache \in SgEntries /\ SgOnce(sgVal[p])
  BY <1>t, Zenon DEF SgProcs, SgTypeOK, SgEntries, SgClear
<1>0. UNCHANGED <<sgKind, sgSecret, sgRow, sgVal, sgStart, sgKey>>
  BY Zenon DEF CacheSet, MysqlSetRead, MysqlSetWrite
<1>1. /\ sgPc[p] \in {"put", "update"}
      /\ \E y \in {"update", "done"} : sgPc' = [sgPc EXCEPT ![p] = y]
  BY Zenon DEF CacheSet, MysqlSetRead, MysqlSetWrite, SgGo
<1>2. \/ sgCache' = sgCache /\ sgRaced' = sgRaced
      \/ sgCache' \in SgEntries /\ sgCache'.val = sgVal[p] /\ sgRaced' = (sgVal[p] # sgRow)
  <2>1. CASE CacheSet(p)
    <3> DEFINE e == [val |-> sgVal[p], over |-> FALSE, ver |-> 0]
    <3>1. e \in SgEntries /\ e.val = sgVal[p]
      BY <1>p, SgAssumption, SMTT(60) DEF SgEntries
    <3>2. (sgCache' = sgCache /\ sgRaced' = sgRaced) \/ (sgCache' = e /\ Late(p))
      BY <2>1, Zenon DEF CacheSet, MemoryCacheSet, RedisCacheSet, Stored
    <3> HIDE DEF e
    <3> QED BY <3>1, <3>2, Zenon DEF Late
  <2>2. CASE MysqlSetRead(p)
    BY <2>2, Zenon DEF MysqlSetRead
  <2>3. CASE MysqlSetWrite(p)
    <3> DEFINE e == [val |-> sgVal[p], over |-> FALSE, ver |-> sgVer[p] + 1]
    <3>1. CASE sgVer[p] = sgCache.ver /\ sgCache.ver < SgMaxVersion
      <4>1. e \in SgEntries /\ e.val = sgVal[p]
        BY <1>p, <3>1, SgAssumption, SMTT(60) DEF SgEntries
      <4>2. sgCache' = e /\ Late(p)
        BY <2>3, <3>1, Zenon DEF MysqlSetWrite
      <4> HIDE DEF e
      <4> QED BY <4>1, <4>2, Zenon DEF Late
    <3>2. CASE ~(sgVer[p] = sgCache.ver /\ sgCache.ver < SgMaxVersion)
      BY <2>3, <3>2, Zenon DEF MysqlSetWrite
    <3> QED BY <3>1, <3>2, Zenon
  <2> QED BY <2>1, <2>2, <2>3, Zenon
<1>3. sgFaults' \in 0..SgMaxFaults
  <2>1. UNCHANGED sgFaults \/ SgFault
    BY Zenon DEF CacheSet, MemoryCacheSet, RedisCacheSet, MysqlSetRead, MysqlSetWrite
  <2> QED BY <1>t, <2>1, SgFaultsLeft, Zenon
<1>4. sgVer' \in [SgProcs -> 0..SgMaxVersion]
  <2>1. \/ sgVer' = sgVer \/ sgVer' = [sgVer EXCEPT ![p] = 0]
        \/ sgVer' = [sgVer EXCEPT ![p] = sgCache.ver]
    BY Zenon DEF CacheSet, MysqlSetRead, MysqlSetWrite
  <2>2. 0 \in 0..SgMaxVersion /\ sgCache.ver \in 0..SgMaxVersion
    BY <1>p, SgAssumption, SMTT(60) DEF SgEntries
  <2> QED BY <1>t, <1>p, <2>1, <2>2, Zenon DEF SgTypeOK
<1>5. sgPc' \in [SgProcs -> SgPcs]
  <2>1. \A y \in {"update", "done"} : y \in SgPcs
    BY SMTT(30) DEF SgPcs
  <2> QED BY <1>t, <1>p, <1>1, <2>1, Zenon DEF SgTypeOK
<1>6. sgRaced' \in BOOLEAN
  <2>1. sgRaced \in BOOLEAN
    BY <1>t, Zenon DEF SgTypeOK
  <2> QED BY <1>2, <2>1, Zenon
<1>7. sgCache' \in SgEntries
  BY <1>2, <1>p, Zenon
<1>8. SgTypeOK'
  BY <1>0, <1>t, <1>3, <1>4, <1>5, <1>6, <1>7, Zenon DEF SgTypeOK, SgEntries
<1>9. SgClear'
  BY <1>0, <1>t, <1>p, <1>2, Zenon DEF SgClear, SgOnce
<1>10. SgCached'
  <2>1. CASE sgCache' = sgCache /\ sgRaced' = sgRaced
    <3>1. sgPc[p] \notin {"delete", "other"}
      BY <1>1, SMTT(30)
    <3>2. \A q \in SgProcs : sgPc'[q] \notin {"delete", "other"} => sgPc[q] \notin {"delete", "other"}
      BY <1>t, <1>p, <1>1, <3>1, Zenon DEF SgTypeOK
    <3> QED BY <1>0, <1>t, <2>1, <3>2, Zenon DEF SgCached, Entry, SgProcs
  <2>2. CASE sgCache'.val = sgVal[p] /\ sgRaced' = (sgVal[p] # sgRow)
    BY <1>0, <2>2, Zenon DEF SgCached
  <2> QED BY <1>2, <2>1, <2>2, Zenon
<1>11. SgRead'
  <2>1. sgPc[p] \in {"put", "update", "done"}
    BY <1>1, SMTT(30)
  <2>2. \A q \in SgReaders : sgPc'[q] \in {"put", "update", "done"} =>
                               sgPc[q] \in {"put", "update", "done"}
    BY <1>t, <1>p, <1>1, <2>1, Zenon DEF SgTypeOK, SgProcs
  <2> QED BY <1>0, <1>t, <2>2, Zenon DEF SgRead
<1> QED BY <1>8, <1>9, <1>10, <1>11, Zenon DEF SgInv

\* What a step of a writer leaves to the readers.
LEMMA SgWriterPc ==
  ASSUME SgInv, NEW p \in SgWriters, NEW y \in {"idle", "upsert", "delete", "other"},
         sgPc' = [sgPc EXCEPT ![p] = y], UNCHANGED <<sgVal, sgStart>>,
         sgRow' \in SgValues, sgRow'.n >= sgRow.n
  PROVE  SgRead' /\ sgPc' \in [SgProcs -> SgPcs]
<1>t. SgTypeOK /\ SgRead /\ p \in SgProcs
  BY Zenon DEF SgInv, SgProcs
<1>1. y \notin {"put", "update", "done"} /\ y \in SgPcs
  BY SMTT(30) DEF SgPcs
<1>2. \A q \in SgReaders : sgPc'[q] \in {"put", "update", "done"} => sgPc[q] = sgPc'[q]
  BY <1>t, <1>1, Zenon DEF SgTypeOK, SgProcs
<1>3. sgRow.n \in Nat /\ sgRow'.n \in Nat
  BY <1>t, SgAssumption, SMTT(30) DEF SgTypeOK, SgValues
<1>4. \A q \in SgProcs : sgStart[q] \in Nat
  <2>1. \A k \in 0..SgMaxWrites : k \in Nat
    BY SgAssumption, SMTT(30)
  <2> QED BY <1>t, <2>1, Zenon DEF SgTypeOK
<1>5. \A q \in SgProcs : sgStart'[q] =< sgRow'.n
  <2>1. \A q \in SgProcs : sgStart[q] =< sgRow.n
    BY <1>t, Zenon DEF SgRead
  <2>2. \A q \in SgProcs : sgStart[q] =< sgRow'.n
    BY <1>3, <1>4, <2>1, SMTT(30)
  <2> QED BY <2>2, Zenon
<1>6. SgRead'
  BY <1>t, <1>2, <1>5, Zenon DEF SgRead
<1> QED BY <1>t, <1>1, <1>6, Zenon DEF SgTypeOK

\* The entry is dropped, or stays and the history variable says whether it is late.
LEMMA SgDropStep ==
  ASSUME SgInv, NEW p \in SgWriters, UpsertSetting(p) \/ UpdatesDelete(p)
  PROVE  SgInv'
<1>t. SgTypeOK /\ SgClear /\ SgCached /\ SgRead
  BY Zenon DEF SgInv
<1>0. UNCHANGED <<sgKind, sgSecret, sgRow, sgVal, sgVer, sgStart, sgKey>>
      /\ \E y \in {"idle", "upsert"} : sgPc' = [sgPc EXCEPT ![p] = y]
  BY Zenon DEF UpsertSetting, UpdatesDelete, SgGo
<1>1. (sgCache' = NoEntry /\ sgRaced' = FALSE) \/ Left
  BY Zenon DEF UpsertSetting, UpdatesDelete, CacheDelete, MemoryCacheDelete, MysqlCacheDelete,
         RedisCacheDelete, Dropped, DropFails
<1>2. sgRaced' \in BOOLEAN
  <2>1. sgRaced \in BOOLEAN
    BY <1>t, Zenon DEF SgTypeOK
  <2> QED BY <1>1, <2>1, Zenon DEF Left
<1>3. sgFaults' \in 0..SgMaxFaults
  <2>1. UNCHANGED sgFaults \/ SgFault
    BY Zenon DEF UpsertSetting, UpdatesDelete, CacheDelete, MemoryCacheDelete, MysqlCacheDelete,
           RedisCacheDelete, Dropped, DropFails
  <2> QED BY <1>t, <2>1, SgFaultsLeft, Zenon
<1>4. sgRow \in SgValues /\ sgRow.n >= sgRow.n
  BY <1>t, SgAssumption, SMTT(30) DEF SgTypeOK, SgValues
<1>5. SgRead' /\ sgPc' \in [SgProcs -> SgPcs]
  <2>1. PICK y \in {"idle", "upsert"} : sgPc' = [sgPc EXCEPT ![p] = y]
    BY <1>0, Zenon
  <2>2. y \in {"idle", "upsert", "delete", "other"}
    BY Zenon
  <2>3. sgRow' \in SgValues /\ sgRow'.n >= sgRow.n /\ UNCHANGED <<sgVal, sgStart>>
    BY <1>0, <1>4, Zenon
  <2> QED BY <2>1, <2>2, <2>3, SgWriterPc, Zenon
<1>6. sgCache' \in SgEntries
  <2>1. sgCache \in SgEntries
    BY <1>t, Zenon DEF SgTypeOK, SgEntries
  <2> QED BY <1>1, <2>1, SgConstants, Zenon DEF Left
<1>7. SgTypeOK'
  BY <1>0, <1>t, <1>2, <1>3, <1>5, <1>6, Zenon DEF SgTypeOK, SgEntries
<1>8. SgClear'
  <2>1. SgOnce(NoEntry.val)
    BY SgConstants, SMTT(30) DEF SgOnce
  <2> QED BY <1>0, <1>1, <1>t, <2>1, Zenon DEF SgClear, SgOnce, Left
<1>9. SgCached'
  BY <1>0, <1>1, Zenon DEF SgCached, Entry, Left
<1> QED BY <1>5, <1>7, <1>8, <1>9, Zenon DEF SgInv

\* The row is written, or the write fails.
LEMMA SgWriteStep ==
  ASSUME SgInv, NEW p \in SgWriters, NEW x \in SgInputs,
         UpsertCreate(p, x) \/ \E named \in BOOLEAN : Updates(p, x, named)
  PROVE  SgInv'
<1>t. SgTypeOK /\ SgClear /\ SgCached /\ SgRead /\ p \in SgProcs
  BY Zenon DEF SgInv, SgProcs
<1>0. UNCHANGED <<sgKind, sgSecret, sgCache, sgVal, sgVer, sgStart, sgKey>>
  BY Zenon DEF UpsertCreate, Updates
<1>1. sgRow' \in SgValues /\ sgRow'.n >= sgRow.n /\ SgOnce(sgRow')
  <2>0. sgRow \in SgValues /\ sgRow.n \in Nat /\ SgOnce(sgRow)
    BY <1>t, SgAssumption, SMTT(60) DEF SgTypeOK, SgValues, SgClear
  <2>1. CASE sgRow' = sgRow
    <3>1. sgRow.n >= sgRow.n
      BY <2>0, SMTT(30)
    <3> QED BY <2>0, <2>1, <3>1, Zenon DEF SgOnce
  <2>2. CASE sgRow.n < SgMaxWrites /\ Write(x)
    <3>1. sgRow' \in SgValues /\ sgRow'.n = sgRow.n + 1 /\ SgOnce(sgRow')
      BY <2>2, <1>t, SgWritten, Zenon
    <3>2. sgRow'.n >= sgRow.n
      BY <2>0, <3>1, SMTT(30)
    <3> QED BY <3>1, <3>2, Zenon
  <2> QED BY <2>1, <2>2, Zenon DEF UpsertCreate, Updates
<1>2. sgRaced' \in BOOLEAN
  <2>1. sgRaced' = sgRaced \/ sgRaced' = Entry
    BY Zenon DEF UpsertCreate, Updates
  <2>2. sgRaced \in BOOLEAN /\ Entry \in BOOLEAN
    BY <1>t, Zenon DEF SgTypeOK, Entry
  <2> QED BY <2>1, <2>2, Zenon
<1>3. sgFaults' \in 0..SgMaxFaults
  <2>1. UNCHANGED sgFaults \/ SgFault
    BY Zenon DEF UpsertCreate, Updates
  <2> QED BY <1>t, <2>1, SgFaultsLeft, Zenon
<1>4. PICK y \in {"idle", "delete", "other"} : sgPc' = [sgPc EXCEPT ![p] = y]
  BY Zenon DEF UpsertCreate, Updates, SgGo
<1>5. SgRead' /\ sgPc' \in [SgProcs -> SgPcs]
  <2>1. y \in {"idle", "upsert", "delete", "other"}
    BY Zenon
  <2>2. UNCHANGED <<sgVal, sgStart>>
    BY <1>0, Zenon
  <2> QED BY <1>1, <1>4, <2>1, <2>2, SgWriterPc, Zenon
<1>6. SgTypeOK'
  BY <1>0, <1>t, <1>1, <1>2, <1>3, <1>5, Zenon DEF SgTypeOK
<1>7. SgClear'
  BY <1>0, <1>t, <1>1, Zenon DEF SgClear, SgOnce
<1>8. SgCached'
  <2>1. CASE UpsertCreate(p, x) /\ sgRow' = sgRow /\ sgRaced' = sgRaced
    <3>1. sgPc[p] = "upsert"
      BY <2>1, Zenon DEF UpsertCreate, SgGo
    <3>2. sgPc[p] \notin {"delete", "other"}
      BY <3>1, SMTT(30)
    <3>3. \A q \in SgProcs : sgPc'[q] \notin {"delete", "other"} => sgPc[q] \notin {"delete", "other"}
      BY <1>t, <1>4, <3>2, Zenon DEF SgTypeOK
    <3> QED BY <1>0, <1>t, <2>1, <3>3, Zenon DEF SgCached, Entry, SgProcs
  <2>2. CASE sgRaced' = Entry
    BY <1>0, <2>2, Zenon DEF SgCached, Entry
  <2>3. CASE \E named \in BOOLEAN : Updates(p, x, named)
    <3>1. sgPc'[p] \in {"delete", "other"}
      BY <1>t, <2>3, Zenon DEF Updates, SgGo, SgTypeOK
    <3> QED BY <3>1, Zenon DEF SgCached
  <2> QED BY <2>1, <2>2, <2>3, Zenon DEF UpsertCreate
<1> QED BY <1>5, <1>6, <1>7, <1>8, Zenon DEF SgInv

\* An entry expires.
LEMMA SgExpireStep == SgInv /\ SgExpire => SgInv'
<1> SUFFICES ASSUME SgInv, SgExpire PROVE SgInv'
  OBVIOUS
<1>t. SgTypeOK /\ SgClear /\ SgCached /\ SgRead
  BY Zenon DEF SgInv
<1>0. UNCHANGED <<sgKind, sgSecret, sgRow, sgPc, sgVal, sgVer, sgStart, sgKey, sgFaults>> /\ Entry
  BY Zenon DEF SgExpire
<1>1. \/ sgCache' = NoEntry /\ sgRaced' = FALSE
      \/ sgCache' \in SgEntries /\ sgCache'.val = sgCache.val /\ sgRaced' = sgRaced
  <2>1. sgCache \in SgEntries
    BY <1>t, Zenon DEF SgTypeOK, SgEntries
  <2>2. [sgCache EXCEPT !.over = TRUE] \in SgEntries
        /\ [sgCache EXCEPT !.over = TRUE].val = sgCache.val
    BY <2>1, Zenon DEF SgEntries
  <2> QED BY <2>2, Zenon DEF SgExpire
<1>2. SgTypeOK'
  <2>1. sgCache' \in SgEntries
    BY <1>1, SgConstants, Zenon
  <2>2. sgRaced' \in BOOLEAN
    BY <1>1, <1>t, Zenon DEF SgTypeOK
  <2> QED BY <1>0, <1>t, <2>1, <2>2, Zenon DEF SgTypeOK, SgEntries
<1>3. SgClear'
  <2>1. SgOnce(NoEntry.val)
    BY SgConstants, SMTT(30) DEF SgOnce
  <2> QED BY <1>0, <1>1, <1>t, <2>1, Zenon DEF SgClear, SgOnce
<1>4. SgCached'
  BY <1>0, <1>1, <1>t, Zenon DEF SgCached, Entry
<1>5. SgRead'
  BY <1>0, <1>t, Zenon DEF SgRead
<1> QED BY <1>2, <1>3, <1>4, <1>5, Zenon DEF SgInv

\* The key is replaced, or an update fails before it has written anything.
LEMMA SgAsideStep ==
  ASSUME SgInv, SetSecretAESKey \/ \E p \in SgWriters : UpdatesFails(p)
  PROVE  SgInv'
<1>t. SgTypeOK /\ SgClear /\ SgCached /\ SgRead
  BY Zenon DEF SgInv
<1>0. UNCHANGED <<sgKind, sgSecret, sgRow, sgCache, sgPc, sgVal, sgVer, sgStart, sgRaced>> /\ SgFault
      /\ (sgKey' = ~sgKey \/ sgKey' = sgKey)
  BY Zenon DEF SetSecretAESKey, UpdatesFails
<1>1. sgFaults' \in 0..SgMaxFaults
  BY <1>0, <1>t, SgFaultsLeft, Zenon
<1>2. sgKey' \in BOOLEAN
  BY <1>0, <1>t, Zenon DEF SgTypeOK
<1>3. SgTypeOK'
  BY <1>0, <1>1, <1>2, <1>t, Zenon DEF SgTypeOK
<1> QED BY <1>0, <1>3, <1>t, Zenon DEF SgInv, SgClear, SgOnce, SgCached, SgRead, Entry

\* Every step of readers and writers keeps the invariant.
LEMMA SgInvStep == SgInv /\ [SgNext]_settingVars => SgInv'
<1> SUFFICES ASSUME SgInv, [SgNext]_settingVars PROVE SgInv'
  OBVIOUS
<1>1. CASE UNCHANGED settingVars
  BY <1>1, Zenon DEF settingVars, SgInv, SgTypeOK, SgClear, SgOnce, SgCached, SgRead, Entry
<1>2. CASE SgNext
  BY <1>2, SgGetStep, SgPutStep, SgDropStep, SgWriteStep, SgExpireStep, SgAsideStep, Zenon DEF SgNext
<1> QED BY <1>1, <1>2, Zenon

\* Nothing is cached and nobody reads to begin with.
LEMMA SgInvInit == SgInit => SgInv
<1> SUFFICES ASSUME SgInit PROVE SgInv
  OBVIOUS
<1>1. sgRow = NoVal /\ sgCache = NoEntry /\ sgRow \in SgValues /\ sgCache \in SgEntries
      /\ sgCache.val = NoVal /\ \A q \in SgProcs : sgVal[q] = NoVal
  BY SgConstants, Zenon DEF SgInit
<1>2. sgSecret \in BOOLEAN /\ sgRaced \in BOOLEAN /\ sgKey \in BOOLEAN
  BY Zenon DEF SgInit
<1>3. sgFaults \in 0..SgMaxFaults /\ sgVer \in [SgProcs -> 0..SgMaxVersion]
      /\ sgStart \in [SgProcs -> 0..SgMaxWrites] /\ sgVal \in [SgProcs -> SgValues]
      /\ sgPc \in [SgProcs -> SgPcs]
  BY SgAssumption, SgConstants, SMTT(60) DEF SgInit, SgPcs
<1>4. SgTypeOK
  BY <1>1, <1>2, <1>3, Zenon DEF SgInit, SgTypeOK, SgEntries
<1>5. SgClear
  <2>1. SgOnce(NoVal)
    BY SgConstants, SMTT(30) DEF SgOnce
  <2> QED BY <1>1, <2>1, Zenon DEF SgClear
<1>6. SgCached
  BY <1>1, Zenon DEF SgCached, Entry
<1>7. SgRead
  <2>1. \A q \in SgProcs : sgStart[q] = 0 /\ sgPc[q] = "idle"
    BY Zenon DEF SgInit
  <2> QED BY <1>1, <2>1, SgConstants, SMTT(60) DEF SgRead, SgProcs
<1> QED BY <1>4, <1>5, <1>6, <1>7, Zenon DEF SgInv

\* A Get that begins when no write is going on is never behind the last write
\* unless it is served a copy that came or stayed late, every other copy is the
\* row once the writes are done, and a reader gets the text that was written
\* unless the key became unusable; for any number of readers, writers, writes and
\* failures, over each cache (setting.go:53-71, 122-163, 219-242).
THEOREM SettingsStayFresh == SgSpec => []SettingsFresh
<1>1. SgInv => SettingsFresh
  <2> SUFFICES ASSUME SgInv PROVE SettingsFresh
    OBVIOUS
  <2>1. Entry /\ ~sgRaced /\ ~Writing => sgCache.val = sgRow
    <3> SUFFICES ASSUME Entry, ~sgRaced, ~Writing PROVE sgCache.val = sgRow
      OBVIOUS
    <3>1. \A q \in SgWriters : sgPc[q] = "idle"
      BY Zenon DEF Writing
    <3>2. \A q \in SgWriters : sgPc[q] \notin {"delete", "other"}
      BY <3>1, SMTT(30)
    <3> QED BY <3>2, Zenon DEF SgInv, SgCached
  <2>2. ASSUME NEW p \in SgReaders, sgPc[p] = "done"
        PROVE  /\ sgVal[p].n >= sgStart[p]
               /\ sgKey \/ sgVal[p].enc = 0 => SecretValue(sgVal[p]) = [sgVal[p] EXCEPT !.enc = 0]
    <3>1. sgVal[p].n >= sgStart[p]
      BY <2>2, Zenon DEF SgInv, SgRead
    <3>2. sgVal[p] \in SgValues /\ sgVal[p].enc \in {0, 1} /\ (~sgSecret => sgVal[p].enc = 0)
      BY Zenon DEF SgInv, SgTypeOK, SgClear, SgOnce, SgProcs
    <3>3. CASE sgVal[p].enc = 0
      <4>1. sgVal[p] = [sgVal[p] EXCEPT !.enc = 0]
        BY <3>2, <3>3, Zenon DEF SgValues
      <4>2. SecretValue(sgVal[p]) = sgVal[p]
        BY <3>3, Zenon DEF SecretValue, DecryptSecret
      <4> QED BY <3>1, <4>1, <4>2, Zenon
    <3>4. CASE sgKey /\ sgVal[p].enc = 1
      <4>1. SecretValue(sgVal[p]) =
              [sgVal[p] EXCEPT !.enc = @ - 1, !.text = IF sgKey THEN @ ELSE "ciphertext"]
        <5>1. sgSecret /\ sgVal[p].enc # 0
          BY <3>2, <3>4, SMTT(30)
        <5> QED BY <5>1, Zenon DEF SecretValue, DecryptSecret
      <4>2. SecretValue(sgVal[p]) = [sgVal[p] EXCEPT !.enc = 0]
        <5>1. sgVal[p].enc - 1 = 0
          BY <3>4, SMTT(30)
        <5>2. SecretValue(sgVal[p]) = [sgVal[p] EXCEPT !.enc = 0, !.text = sgVal[p].text]
          BY <3>4, <4>1, <5>1, Zenon
        <5>3. \A v \in SgValues : [v EXCEPT !.enc = 0, !.text = v.text] = [v EXCEPT !.enc = 0]
          BY Zenon DEF SgValues
        <5> QED BY <3>2, <5>2, <5>3, Zenon
      <4> QED BY <3>1, <4>2, Zenon
    <3>5. sgVal[p].enc = 0 \/ sgVal[p].enc = 1
      BY <3>2, Zenon
    <3> QED BY <3>1, <3>3, <3>4, <3>5, Zenon
  <2> QED BY <2>1, <2>2, Zenon DEF SettingsFresh
<1> QED BY <1>1, SgInvInit, SgInvStep, PTL DEF SgSpec

-----------------------------------------------------------------------------
(* Metrics: a manager has cached what its registry has registered, under   *)
(* the name and labels it was made for.                                    *)

MxInv ==
  /\ mxStd \in Registries /\ mxMgr \in [MxManagers -> {0} \cup Registries]
  /\ mxReg \in [Registries -> SUBSET Vecs] /\ DOMAIN mxVecs = MxManagers
  /\ \A m \in MxManagers : \A c \in mxVecs[m] :
       /\ mxMgr[m] # 0 /\ c.vec \in mxReg[mxMgr[m]]
       /\ c.key = <<c.vec.name, c.vec.keys>>
  /\ MetricsExposed

\* No manager has cached anything to begin with.
LEMMA MxInvInit == MxInit => MxInv
<1> SUFFICES ASSUME MxInit PROVE MxInv
  OBVIOUS
<1>1. 1 \in Registries
  BY MxAssumption, SMTT(60) DEF Registries
<1>2. /\ mxMgr \in [MxManagers -> {0} \cup Registries] /\ mxReg \in [Registries -> SUBSET Vecs]
      /\ DOMAIN mxVecs = MxManagers /\ \A m \in MxManagers : mxVecs[m] = {}
  BY <1>1, Zenon DEF MxInit
<1>3. MetricsExposed /\ mxStd = 1
  BY Zenon DEF MxInit, MetricsExposed
<1> QED BY <1>1, <1>2, <1>3, Zenon DEF MxInv

\* An operation finds its vector in the cache, or registers and caches it.
LEMMA MxUse ==
  ASSUME MxInv, NEW m \in MxManagers, NEW kind \in Kinds, NEW n \in MxNames, NEW keys \in MxLabels,
         NEW up, NEW x, Start(m), autoRegister(m, kind, n, keys), Use(m, kind, n, keys, up, x)
  PROVE  MxInv'
<1> DEFINE g == mxMgr[m]
           key == <<n, keys>>
           new == [kind |-> kind, name |-> n, keys |-> keys]
           old == {c \in mxVecs[m] : c.vec.kind = kind /\ c.key = key}
<1>1. g \in Registries /\ mxStd' = mxStd /\ mxMgr' = mxMgr
  BY Zenon DEF MxInv, Start
<1>2. new \in Vecs /\ new.name = n /\ new.keys = keys
  BY Zenon DEF Vecs
<1>3. PICK vec \in IF old # {} THEN {c.vec : c \in old} ELSE {new} :
        mxPanic' = (mxPanic \/ vec.keys # keys) /\ mxLost' = (mxLost \/ vec \notin mxReg'[g])
  BY Zenon DEF Use, Returned, Cached, getLabelKey, Vec
<1>4. \/ old # {} /\ UNCHANGED <<mxVecs, mxReg>>
      \/ /\ old = {}
         /\ mxVecs' = [mxVecs EXCEPT ![m] = @ \cup {[key |-> key, vec |-> new]}]
         /\ mxReg' = [mxReg EXCEPT ![g] = @ \cup {new}]
  BY Zenon DEF autoRegister, Cached, getLabelKey, Vec
<1> HIDE DEF new
<1>5. CASE old # {} /\ UNCHANGED <<mxVecs, mxReg>>
  <2>1. PICK c \in old : vec = c.vec
    BY <1>3, <1>5, Zenon
  <2>2. vec \in mxReg[g] /\ <<n, keys>> = <<vec.name, vec.keys>>
    BY <2>1, Zenon DEF MxInv
  <2>3. vec.keys = keys /\ vec \in mxReg'[g]
    BY <1>5, <2>2, Zenon
  <2>4. MetricsExposed'
    BY <1>3, <2>3, Zenon DEF MxInv, MetricsExposed
  <2> QED BY <1>1, <1>5, <2>4, Zenon DEF MxInv
<1>6. CASE /\ old = {}
           /\ mxVecs' = [mxVecs EXCEPT ![m] = @ \cup {[key |-> key, vec |-> new]}]
           /\ mxReg' = [mxReg EXCEPT ![g] = @ \cup {new}]
  <2>1. mxReg' \in [Registries -> SUBSET Vecs] /\ mxReg'[g] = mxReg[g] \cup {new}
    BY <1>1, <1>2, <1>6, Zenon DEF MxInv
  <2>2. \A h \in Registries : mxReg[h] \subseteq mxReg'[h]
    BY <1>1, <1>6, Zenon DEF MxInv
  <2>3. /\ DOMAIN mxVecs' = MxManagers /\ mxVecs'[m] = mxVecs[m] \cup {[key |-> key, vec |-> new]}
        /\ \A p \in MxManagers \ {m} : mxVecs'[p] = mxVecs[p]
    BY <1>6, Zenon DEF MxInv
  <2>4. vec = new /\ new.keys = keys /\ new.name = n
    BY <1>2, <1>3, <1>6, Zenon
  <2>5. MetricsExposed'
    BY <1>3, <2>1, <2>4, ZenonT(60) DEF MxInv, MetricsExposed
  <2>6. ASSUME NEW p \in MxManagers, NEW c \in mxVecs[p]
        PROVE  mxMgr'[p] # 0 /\ c.vec \in mxReg'[mxMgr'[p]] /\ c.key = <<c.vec.name, c.vec.keys>>
    <3>1. mxMgr[p] # 0 /\ c.vec \in mxReg[mxMgr[p]] /\ c.key = <<c.vec.name, c.vec.keys>>
      BY <2>6, Zenon DEF MxInv
    <3>2. mxMgr[p] \in Registries
      BY <3>1, Zenon DEF MxInv
    <3> QED BY <1>1, <2>2, <3>1, <3>2, Zenon
  <2>7. ASSUME NEW c, c = [key |-> key, vec |-> new]
        PROVE  mxMgr'[m] # 0 /\ c.vec \in mxReg'[mxMgr'[m]] /\ c.key = <<c.vec.name, c.vec.keys>>
    BY <1>1, <2>1, <2>4, <2>7 DEF Start
  <2>8. \A p \in MxManagers : \A c \in mxVecs'[p] :
          mxMgr'[p] # 0 /\ c.vec \in mxReg'[mxMgr'[p]] /\ c.key = <<c.vec.name, c.vec.keys>>
    BY <2>3, <2>6, <2>7, Zenon
  <2>9. mxStd' \in Registries /\ mxMgr' \in [MxManagers -> {0} \cup Registries]
    BY <1>1, Zenon DEF MxInv
  <2> QED BY <2>1, <2>3, <2>5, <2>8, <2>9, Zenon DEF MxInv
<1> QED BY <1>4, <1>5, <1>6, Zenon

\* Every operation of every manager keeps the invariant.
LEMMA MxStep == MxInv /\ [MxNext]_metricVars => MxInv'
<1> SUFFICES ASSUME MxInv, [MxNext]_metricVars PROVE MxInv'
  OBVIOUS
<1>1. CASE UNCHANGED metricVars
  BY <1>1, Zenon DEF metricVars, MxInv, MetricsExposed
<1>2. ASSUME NEW p \in MxManagers, NEW g \in Registries, mxStd' \in Registries,
             mxMgr' = [mxMgr EXCEPT ![p] = g], mxVecs' = [mxVecs EXCEPT ![p] = {}],
             UNCHANGED <<mxReg, mxLost, mxPanic>>
      PROVE  MxInv'
  <2>1. /\ mxMgr' \in [MxManagers -> {0} \cup Registries] /\ DOMAIN mxVecs' = MxManagers
        /\ mxVecs'[p] = {}
        /\ \A m \in MxManagers \ {p} : mxMgr'[m] = mxMgr[m] /\ mxVecs'[m] = mxVecs[m]
    BY <1>2, Zenon DEF MxInv
  <2>2. MetricsExposed'
    BY <1>2, Zenon DEF MxInv, MetricsExposed
  <2> QED BY <1>2, <2>1, <2>2, ZenonT(60) DEF MxInv
<1>3. CASE InitMetrics
  <2>1. mxStd + 1 \in Registries
    BY <1>3, MxAssumption DEF InitMetrics, MxInv, Registries
  <2> QED BY <1>2, <1>3, <2>1, MxAssumption, Zenon DEF InitMetrics
<1>4. ASSUME NEW m \in MxManagers, NewEasyMetrics(m) PROVE MxInv'
  BY <1>2, <1>4, Zenon DEF NewEasyMetrics, MxInv
<1>5. ASSUME NEW m \in MxManagers, NEW n \in MxNames, NEW keys \in MxLabels,
             \/ CounterInc(m, n, keys) \/ CounterAdd(m, n, keys)
             \/ GaugeSet(m, n, keys) \/ GaugeInc(m, n, keys)
             \/ GaugeDec(m, n, keys) \/ GaugeAdd(m, n, keys)
             \/ HistogramObserve(m, n, keys) \/ SummaryObserve(m, n, keys)
      PROVE  MxInv'
  <2>1. PICK kind \in Kinds, up \in BOOLEAN, x \in {1, 2, -1, -2} :
          Start(m) /\ autoRegister(m, kind, n, keys) /\ Use(m, kind, n, keys, up, x)
    BY <1>5, Zenon DEF CounterInc, CounterAdd, GaugeSet, GaugeInc, GaugeDec, GaugeAdd, HistogramObserve,
                SummaryObserve, autoRegisterCounter, autoRegisterGauge, autoRegisterHistogram,
                autoRegisterSummary, Kinds
  <2> QED BY <2>1, MxUse
<1> QED BY <1>1, <1>3, <1>4, <1>5, Zenon DEF MxNext

-----------------------------------------------------------------------------
(* Storagers and connections: without a race one caller at a time makes a  *)
(* storager, and none when there is one.                                   *)

RgInv ==
  /\ rgPc \in [RgLoaders -> {"idle", "new", "store"}] /\ DOMAIN rgHas = RgLoaders
  /\ ~rgRaced =>
       /\ \A k, l \in RgLoaders : rgPc[k] # "idle" /\ rgPc[l] # "idle" => k = l
       /\ rgStorer # NoStorer => \A l \in RgLoaders : rgPc[l] = "idle"
       /\ rgOut \subseteq {rgStorer}
  /\ \A s \in rgOut \cup {rgStorer} :
       s # NoStorer /\ rgPart = "storage/v2" => s.kind \in rgDrivers
  /\ NoStorer \notin rgOut
  /\ \A l \in RgLoaders : rgPc[l] = "store" =>
       rgHas[l] # NoStorer /\ (rgPart = "storage/v2" => rgHas[l].kind \in rgDrivers)

\* No storager and no connection to begin with.
LEMMA RgInvInit == RgInit => RgInv
BY DEF RgInit, RgInv

\* The invariant implies StoragersShared.
LEMMA RgInvImplies == RgInv => StoragersShared
<1> SUFFICES ASSUME RgInv PROVE StoragersShared
  OBVIOUS
<1>1. ~rgRaced => \A s, t \in rgOut : s = t
  BY DEF RgInv
<1>2. \A s \in rgOut : s # NoStorer /\ (rgPart = "storage/v2" => s.kind \in rgDrivers)
  BY Zenon DEF RgInv
<1> QED BY <1>1, <1>2, Zenon DEF StoragersShared

\* The steps of LoadStorager keep the invariant.
LEMMA RgStorage ==
  ASSUME RgInv, StoragerCall
  PROVE  RgInv'
<1>1. ASSUME NEW k, Register(k) PROVE RgInv'
  BY <1>1, Zenon DEF RgInv, Register, dbVarsOfRegistry
<1>2. ASSUME NEW c, ConfEdited(c) PROVE RgInv'
  BY <1>2, Zenon DEF RgInv, ConfEdited, dbVarsOfRegistry
<1>3. ASSUME NEW l \in RgLoaders, LoadStorager(l) PROVE RgInv'
  <2>0. /\ rgPc[l] = "idle" /\ UNCHANGED <<rgPart, rgDrivers, rgStorer, rgHas>>
    BY <1>3, Zenon DEF LoadStorager, dbVarsOfRegistry
  <2>1. CASE rgStorer # NoStorer
    <3>1. rgOut' = rgOut \cup {rgStorer} /\ UNCHANGED <<rgPc, rgRaced>>
      BY <1>3, <2>1, Zenon DEF LoadStorager
    <3> QED BY <2>0, <2>1, <3>1, Zenon DEF RgInv
  <2>2. CASE rgStorer = NoStorer
    <3>1. /\ rgPc' = [rgPc EXCEPT ![l] = "new"] /\ rgOut' = rgOut
          /\ rgRaced' = (rgRaced \/ \E k \in RgLoaders : rgPc[k] # "idle")
      BY <1>3, <2>2, Zenon DEF LoadStorager
    <3>2. /\ rgPc' \in [RgLoaders -> {"idle", "new", "store"}] /\ rgPc'[l] = "new"
          /\ \A k \in RgLoaders \ {l} : rgPc'[k] = rgPc[k]
      BY <3>1, Zenon DEF RgInv
    <3>3. ASSUME ~rgRaced'
          PROVE  /\ \A j, k \in RgLoaders : rgPc'[j] # "idle" /\ rgPc'[k] # "idle" => j = k
                 /\ rgOut' \subseteq {rgStorer'}
      BY <2>0, <3>1, <3>2, <3>3, ZenonT(60) DEF RgInv
    <3>4. \A k \in RgLoaders : rgPc'[k] = "store" => rgPc[k] = "store"
      BY <3>2
    <3> QED BY <2>0, <2>2, <3>1, <3>2, <3>3, <3>4, Zenon DEF RgInv
  <2> QED BY <2>1, <2>2, Zenon
<1>4. ASSUME NEW l \in RgLoaders, NewStorage(l) \/ NewStorageV2(l) PROVE RgInv'
  <2>0. /\ rgPc[l] = "new"
        /\ UNCHANGED <<rgPart, rgDrivers, rgStorer, rgRaced, rgOut>>
    BY <1>4, SMTT(60) DEF NewStorage, NewStorageV2, dbVarsOfRegistry
  <2>1. CASE MakesNothing(l)
    <3>1. /\ rgPc' \in [RgLoaders -> {"idle", "new", "store"}] /\ rgHas' = rgHas
          /\ \A k \in RgLoaders : rgPc'[k] = "idle" \/ rgPc'[k] = rgPc[k]
      BY <2>1 DEF MakesNothing, RgInv
    <3> QED BY <2>0, <3>1, SMTT(60) DEF RgInv
  <2>2. ASSUME NEW kind, Makes(l, kind), rgPart = "storage/v2" => kind \in rgDrivers
        PROVE  RgInv'
    <3>1. /\ rgPc' \in [RgLoaders -> {"idle", "new", "store"}] /\ rgPc'[l] = "store"
          /\ \A k \in RgLoaders \ {l} : rgPc'[k] = rgPc[k]
      BY <2>2, Zenon DEF Makes, RgInv
    <3>2. /\ DOMAIN rgHas' = RgLoaders /\ rgHas'[l].kind = kind /\ kind # "none"
          /\ \A k \in RgLoaders \ {l} : rgHas'[k] = rgHas[k]
      BY <2>2, Zenon DEF Makes, RgInv
    <3>3. rgHas'[l] # NoStorer
      <4>1. NoStorer.kind = "none"
        BY Zenon DEF NoStorer
      <4> QED BY <3>2, <4>1, Zenon
    <3>4. \A k \in RgLoaders : rgPc'[k] # "idle" => rgPc[k] # "idle"
      BY <2>0, <3>1, Zenon
    <3> QED BY <2>0, <2>2, <3>1, <3>2, <3>3, <3>4, ZenonT(60) DEF RgInv
  <2> QED BY <1>4, <2>1, <2>2, SMTT(60) DEF NewStorage, NewStorageV2
<1>5. ASSUME NEW l \in RgLoaders, StoreStorager(l) PROVE RgInv'
  <2>0. /\ rgPc[l] = "store" /\ rgStorer' = rgHas[l] /\ rgOut' = rgOut \cup {rgHas[l]}
        /\ UNCHANGED <<rgPart, rgDrivers, rgRaced>>
    BY <1>5, Zenon DEF StoreStorager, dbVarsOfRegistry
  <2>1. /\ rgPc' \in [RgLoaders -> {"idle", "new", "store"}] /\ rgPc'[l] = "idle"
        /\ \A k \in RgLoaders \ {l} : rgPc'[k] = rgPc[k] /\ rgHas'[k] = rgHas[k]
        /\ DOMAIN rgHas' = RgLoaders
    BY <1>5, Zenon DEF StoreStorager, RgInv
  <2>2. rgHas[l] # NoStorer /\ (rgPart = "storage/v2" => rgHas[l].kind \in rgDrivers)
    BY <2>0, Zenon DEF RgInv
  <2>3. ASSUME ~rgRaced'
        PROVE  (\A k \in RgLoaders : rgPc'[k] = "idle") /\ rgOut' \subseteq {rgStorer'}
    BY <2>0, <2>1, <2>3, ZenonT(60) DEF RgInv
  <2> QED BY <2>0, <2>1, <2>2, <2>3, Zenon DEF RgInv
<1> QED BY <1>1, <1>2, <1>3, <1>4, <1>5, Zenon DEF StoragerCall

\* So does every step on the two registries.
LEMMA RgStep == RgInv /\ [RgNext]_registryVars => RgInv'
<1> SUFFICES ASSUME RgInv, [RgNext]_registryVars PROVE RgInv'
  OBVIOUS
<1>1. CASE UNCHANGED registryVars
  BY <1>1, Zenon DEF registryVars, RgInv
<1>2. CASE StoragerCall
  BY <1>2, RgStorage, Zenon
<1>3. CASE ConnectionCall
  <2>1. UNCHANGED storerVars
    BY <1>3, Zenon DEF ConnectionCall, InitMultiDBConn, InitDBConn, InitMultiStep, RegistryDB
  <2> QED BY <2>1, Zenon DEF storerVars, RgInv
<1> QED BY <1>1, <1>2, <1>3, Zenon DEF RgNext

\* Connections are numbered as they are made, and of each name that InitDBConn was
\* given the map has one that it opened, no older than its last.
RgServed(name) ==
  \E a \in DOMAIN rgLast :
    /\ Named(a) = Named(name) /\ rgLast[name] =< rgLast[a]
    /\ Named(name) \in DOMAIN rgDbs /\ rgDbs[Named(name)] = rgLast[a]

RgConns ==
  /\ rgMade \in Nat /\ \A a \in DOMAIN rgLast : rgLast[a] \in Nat /\ rgLast[a] =< rgMade
  /\ \A name \in DOMAIN rgLast : RgServed(name)

\* InitDBConn opens a connection for a name.
LEMMA RgOpened ==
  ASSUME RgConns, NEW name, Opened(name)
  PROVE  RgConns'
<1>1. /\ rgMade' = rgMade + 1 /\ rgDbs' = Put(rgDbs, Named(name), rgMade')
      /\ rgLast' = Put(rgLast, name, rgMade')
  BY Zenon DEF Opened, NewConn
<1>2. /\ DOMAIN rgDbs' = DOMAIN rgDbs \cup {Named(name)} /\ rgDbs'[Named(name)] = rgMade'
      /\ \A d \in DOMAIN rgDbs \ {Named(name)} : rgDbs'[d] = rgDbs[d]
  BY <1>1, Zenon DEF Put
<1>3. /\ DOMAIN rgLast' = DOMAIN rgLast \cup {name} /\ rgLast'[name] = rgMade'
      /\ \A d \in DOMAIN rgLast \ {name} : rgLast'[d] = rgLast[d]
  BY <1>1, Zenon DEF Put
<1>4. /\ rgMade \in Nat /\ rgMade' \in Nat
      /\ \A a \in DOMAIN rgLast : rgLast[a] \in Nat /\ rgLast[a] =< rgMade
  BY <1>1 DEF RgConns
<1>5. \A a \in DOMAIN rgLast' : rgLast'[a] \in Nat /\ rgLast'[a] =< rgMade'
  <2> SUFFICES ASSUME NEW a \in DOMAIN rgLast' PROVE rgLast'[a] \in Nat /\ rgLast'[a] =< rgMade'
    OBVIOUS
  <2>1. CASE a = name
    BY <1>3, <1>4, <2>1
  <2>2. CASE a # name
    <3>1. a \in DOMAIN rgLast /\ rgLast'[a] = rgLast[a]
      BY <1>3, <2>2, Zenon
    <3> QED BY <1>1, <1>4, <3>1
  <2> QED BY <2>1, <2>2
<1>6. ASSUME NEW b \in DOMAIN rgLast' PROVE RgServed(b)'
  <2>1. CASE Named(b) = Named(name)
    <3>1. name \in DOMAIN rgLast' /\ rgLast'[b] =< rgLast'[name]
      BY <1>3, <1>5, Zenon
    <3> QED BY <1>2, <1>3, <2>1, <3>1, Zenon DEF RgServed
  <2>2. CASE Named(b) # Named(name)
    <3>1. b \in DOMAIN rgLast /\ rgLast'[b] = rgLast[b]
      BY <1>3, <2>2, Zenon
    <3>2. PICK a \in DOMAIN rgLast :
            /\ Named(a) = Named(b) /\ rgLast[b] =< rgLast[a]
            /\ Named(b) \in DOMAIN rgDbs /\ rgDbs[Named(b)] = rgLast[a]
      BY <3>1, Zenon DEF RgConns, RgServed
    <3>3. a # name /\ a \in DOMAIN rgLast' /\ rgLast'[a] = rgLast[a]
      BY <1>3, <2>2, <3>2, Zenon
    <3>4. Named(b) \in DOMAIN rgDbs' /\ rgDbs'[Named(b)] = rgDbs[Named(b)]
      BY <1>2, <2>2, <3>2, Zenon
    <3> QED BY <3>1, <3>2, <3>3, <3>4, Zenon DEF RgServed
  <2> QED BY <2>1, <2>2, Zenon
<1> QED BY <1>4, <1>5, <1>6, Zenon DEF RgConns

\* Every step keeps the connections.
LEMMA RgConnsStep == RgConns /\ [RgNext]_registryVars => RgConns'
<1> SUFFICES ASSUME RgConns, [RgNext]_registryVars PROVE RgConns'
  OBVIOUS
<1>1. ASSUME UNCHANGED <<rgDbs, rgLast>>, rgMade' \in {rgMade, rgMade + 1} PROVE RgConns'
  <2>1. rgMade' \in Nat /\ rgMade =< rgMade'
    BY <1>1 DEF RgConns
  <2>2. \A a \in DOMAIN rgLast : rgLast[a] \in Nat /\ rgLast[a] =< rgMade'
    BY <1>1, <2>1 DEF RgConns
  <2>3. \A name \in DOMAIN rgLast : RgServed(name)'
    BY <1>1, Zenon DEF RgConns, RgServed
  <2> QED BY <1>1, <2>1, <2>2, <2>3, Zenon DEF RgConns
<1>2. CASE UNCHANGED registryVars
  BY <1>1, <1>2, Zenon DEF registryVars
<1>3. CASE StoragerCall
  BY <1>1, <1>3, Zenon DEF StoragerCall, Register, ConfEdited, LoadStorager, NewStorage, NewStorageV2,
     Makes, MakesNothing, StoreStorager, dbVarsOfRegistry
<1>4. ASSUME NEW name, InitDBConn(name) PROVE RgConns'
  BY <1>4, RgOpened, Zenon DEF InitDBConn
<1>5. ASSUME NEW name, InitMultiStep(name) PROVE RgConns'
  BY <1>1, <1>5, RgOpened, Zenon DEF InitMultiStep
<1>6. CASE InitMultiDBConn
  BY <1>1, <1>6, Zenon DEF InitMultiDBConn
<1>7. ASSUME NEW name, RegistryDB(name) PROVE RgConns'
  <2>1. /\ name \notin DOMAIN rgDbs /\ rgMade' = rgMade + 1 /\ rgLast' = rgLast
        /\ rgDbs' = Put(rgDbs, name, rgMade')
    BY <1>7, Zenon DEF RegistryDB, NewConn
  <2>2. DOMAIN rgDbs \subseteq DOMAIN rgDbs' /\ \A d \in DOMAIN rgDbs : rgDbs'[d] = rgDbs[d]
    BY <2>1, Zenon DEF Put
  <2>3. rgMade' \in Nat /\ \A a \in DOMAIN rgLast : rgLast[a] \in Nat /\ rgLast[a] =< rgMade'
    BY <2>1 DEF RgConns
  <2>4. \A b \in DOMAIN rgLast : RgServed(b)'
    BY <2>1, <2>2, Zenon DEF RgConns, RgServed
  <2> QED BY <2>1, <2>3, <2>4, Zenon DEF RgConns
<1> QED BY <1>2, <1>3, <1>4, <1>5, <1>6, <1>7, Zenon DEF RgNext, ConnectionCall

\* It holds at the start, and gives the property.
LEMMA RgConnsHold == (RgInit => RgConns) /\ (RgConns => ConnectionsKept)
<1>1. ASSUME RgInit PROVE RgConns
  <2>1. rgMade = 0 /\ DOMAIN rgLast = {}
    BY <1>1 DEF RgInit
  <2> QED BY <2>1 DEF RgConns
<1>2. ASSUME RgConns PROVE ConnectionsKept
  BY <1>2, Zenon DEF RgConns, RgServed, ConnectionsKept, DB
<1> QED BY <1>1, <1>2, Zenon

-----------------------------------------------------------------------------
\* What is registered under a name is what that name gives afterwards, for any
\* managers, metrics, callers and databases (easy_metrics.go:71-190,
\* storage.go:112-155, storager.go:44-95, manager.go:17-61).
THEOREM NamesKeepTheirMeaning == MxSpec /\ RgSpec => []RegistriesSound
<1>1. MxInit => MxInv
  BY MxInvInit
<1>2. MxInv /\ [MxNext]_metricVars => MxInv'
  BY MxStep, Zenon
<1>3. MxInv => MetricsExposed
  BY Zenon DEF MxInv
<1>4. RgInit => RgInv
  BY RgInvInit
<1>5. RgInv /\ [RgNext]_registryVars => RgInv'
  BY RgStep
<1>6. RgInv => StoragersShared
  BY RgInvImplies
<1>7. (RgInit => RgConns) /\ (RgConns => ConnectionsKept)
  BY RgConnsHold, Zenon
<1>8. RgConns /\ [RgNext]_registryVars => RgConns'
  BY RgConnsStep
<1> QED BY <1>1, <1>2, <1>3, <1>4, <1>5, <1>6, <1>7, <1>8, PTL DEF MxSpec, RgSpec, RegistriesSound
=============================================================================
