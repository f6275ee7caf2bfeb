------------------------------ MODULE Multipart ------------------------------
(***************************************************************************)
(* The multipart calls of the back ends of package storage for one key:    *)
(* Create, UploadPart, Complete and AbortMultipartUpload, and URLs that    *)
(* let others upload.  Clients run side by side; the service (external)    *)
(* names every part it receives by a new ETag and completes an upload only *)
(* with the ETags it holds, in ascending order of their numbers.           *)
(***************************************************************************)
EXTENDS Integers, Sequences, FiniteSets

CONSTANTS MuClients, \* clients, each with one upload to the same key
          MuParts,   \* parts of a file
          MuMaxTags  \* bound: parts the service receives

ASSUME MuAssumption == MuParts \in Nat \ {0} /\ MuMaxTags \in Nat

VARIABLES muKind, \* which back end
          muOpen, \* for each client's upload: the ETags of its parts, 0 for none
          muMine, \* the ETags a client has collected, by part number
          muPc,   \* where each client is
          muTags, \* ETags given so far
          muObj,  \* the object: the ETags of its parts, << >> for no object
          muUrls, \* URLs handed out
          muDone  \* history: what each client completed, << >> for nothing

multiVars == <<muKind, muOpen, muMine, muPc, muTags, muObj, muUrls, muDone>>

MuNumbers == 1..MuParts
NoParts == [n \in MuNumbers |-> 0]
Closed == [n \in MuNumbers |-> -1]
Url(m, c, n) == [method |-> m, upload |-> c, part |-> n]

MuTypeOK ==
  /\ muKind \in {"s3", "cos", "minio", "local"}
  /\ muOpen \in [MuClients -> [MuNumbers -> -1..MuMaxTags]]
  /\ muMine \in [MuClients -> [MuNumbers -> 0..MuMaxTags]]
  /\ muPc \in [MuClients -> {"new", "open", "completed", "aborted", "refused"}]
  /\ muTags \in 0..MuMaxTags /\ muObj \in Seq(0..MuMaxTags)
  /\ muDone \in [MuClients -> Seq(0..MuMaxTags)]

MuInit ==
  /\ muKind \in {"s3", "cos", "minio", "local"}
  /\ muOpen = [c \in MuClients |-> Closed]
  /\ muMine = [c \in MuClients |-> NoParts]
  /\ muPc = [c \in MuClients |-> "new"] /\ muTags = 0 /\ muObj = << >>
  /\ muUrls = {} /\ muDone = [c \in MuClients |-> << >>]

-----------------------------------------------------------------------------
(* The service, external. *)

NewUpload(c) ==
  /\ muPc[c] = "new"
  /\ muPc' = [muPc EXCEPT ![c] = "open"]
  /\ muOpen' = [muOpen EXCEPT ![c] = NoParts]
  /\ UNCHANGED <<muKind, muMine, muTags, muObj, muUrls, muDone>>

PutPart(c, n) ==
  /\ muOpen[c] # Closed /\ muTags < MuMaxTags
  /\ muTags' = muTags + 1
  /\ muOpen' = [muOpen EXCEPT ![c][n] = muTags + 1]

\* Parts that are missing, or were sent again since the client got its ETag,
\* are refused.
Assembles(c, tags) ==
  muOpen[c] # Closed /\ \A n \in DOMAIN tags : tags[n] # 0 /\ tags[n] = muOpen[c][n]

Assemble(c, tags) ==
  /\ Assembles(c, tags)
  /\ muOpen' = [muOpen EXCEPT ![c] = Closed]
  /\ muObj' = tags

Discard(c) ==
  /\ muPc[c] = "open"
  /\ muOpen[c] # Closed /\ muOpen' = [muOpen EXCEPT ![c] = Closed]
  /\ muPc' = [muPc EXCEPT ![c] = "aborted"]
  /\ muMine' = [muMine EXCEPT ![c] = NoParts]
  /\ UNCHANGED <<muKind, muTags, muObj, muUrls, muDone>>

-----------------------------------------------------------------------------
(* The calls of each back end. *)

S3CreateMultipartUpload(c) == muKind = "s3" /\ NewUpload(c)
CosCreateMultipartUpload(c) == muKind = "cos" /\ NewUpload(c)
MinioCreateMultipartUpload(c) == muKind = "minio" /\ NewUpload(c)

\* The local back end refuses every multipart call.
LocalMultipart(c) ==
  /\ muKind = "local" /\ muPc[c] = "new" /\ muPc' = [muPc EXCEPT ![c] = "refused"]
  /\ UNCHANGED <<muKind, muOpen, muMine, muTags, muObj, muUrls, muDone>>

\* A call that returns an error has changed nothing: the upload is still open, and
\* the client may call again, abort it or leave it there.
CallFails(c) == muPc[c] = "open" /\ UNCHANGED multiVars

\* UploadPart returns the ETag, which the client keeps.  MinIO's client library
\* refuses the size -1 that both generations pass, so no part is ever sent to it.
SendPart(c, n) ==
  /\ muPc[c] = "open" /\ PutPart(c, n)
  /\ muMine' = [muMine EXCEPT ![c][n] = muTags + 1]
  /\ UNCHANGED <<muKind, muPc, muObj, muUrls, muDone>>

S3UploadPart(c, n) == muKind = "s3" /\ (SendPart(c, n) \/ CallFails(c))
CosUploadPart(c, n) == muKind = "cos" /\ (SendPart(c, n) \/ CallFails(c))
MinioUploadPart(c, n) == muKind = "minio" /\ CallFails(c)

\* The list of parts is passed on as it is.
Assembled(c, tags) ==
  /\ muPc[c] = "open" /\ Assemble(c, tags)
  /\ muPc' = [muPc EXCEPT ![c] = "completed"]
  /\ muDone' = [muDone EXCEPT ![c] = muMine[c]]
  /\ muMine' = [muMine EXCEPT ![c] = NoParts]
  /\ UNCHANGED <<muKind, muTags, muUrls>>

Complete(c, tags) == Assembled(c, tags) \/ CallFails(c)

\* The assumption on clients: they complete with an ETag for every part, or, with
\* MinIO, without any.
Collected(c) == \A n \in MuNumbers : muMine[c][n] # 0

CompleteWithServerList(c) == muKind = "s3" /\ Collected(c) /\ Complete(c, muOpen[c])
S3CompleteMultipartUpload(c) == muKind = "s3" /\ Collected(c) /\ Complete(c, muMine[c])
CosCompleteMultipartUpload(c) == muKind = "cos" /\ Collected(c) /\ Complete(c, muMine[c])
MinioCompleteMultipartUpload(c) == muKind = "minio" /\ Complete(c, muMine[c])

S3AbortMultipartUpload(c) == muKind = "s3" /\ Discard(c)
CosAbortMultipartUpload(c) == muKind = "cos" /\ Discard(c)
MinioAbortMultipartUpload(c) == muKind = "minio" /\ Discard(c)

\* GeneratePresignedURL: S3 signs what was asked for, COS only a part upload,
\* MinIO and local nothing.  Part 0 stands for the whole object.
S3GeneratePresignedURL(m, c, n) ==
  IF m = "GET" THEN {Url("GET", c, 0)} ELSE {Url("PUT", c, n)}
CosGeneratePresignedURL(m, c, n) == IF n = 0 THEN {} ELSE {Url("PUT", c, n)}
MinioGeneratePresignedURL(m, c, n) == {}
LocalGeneratePresignedURL(m, c, n) == {}

\* GetPresignedURL, for the whole object: MinIO signs GET whatever is asked,
\* and the URL of the local back end is empty.
S3GetPresignedURL(m, c) == {Url(m, c, 0)}
CosGetPresignedURL(m, c) == {Url(m, c, 0)}
MinioGetPresignedURL(m, c) == {Url("GET", c, 0)}
LocalGetPresignedURL(m, c) == {}

Signed(m, c, n) ==
  CASE muKind = "s3" -> S3GeneratePresignedURL(m, c, n) \cup S3GetPresignedURL(m, c)
    [] muKind = "cos" -> CosGeneratePresignedURL(m, c, n) \cup CosGetPresignedURL(m, c)
    [] muKind = "minio" -> MinioGeneratePresignedURL(m, c, n) \cup MinioGetPresignedURL(m, c)
    [] muKind = "local" -> LocalGeneratePresignedURL(m, c, n) \cup LocalGetPresignedURL(m, c)

HandOut(c, urls) ==
  /\ muPc[c] = "open" /\ muUrls = {}
  /\ \E u \in urls : muUrls' = {u}
  /\ UNCHANGED <<muKind, muOpen, muMine, muPc, muTags, muObj, muDone>>

\* External: whoever holds a URL uses it, once.  A part sent this way leaves
\* the client to whom the upload belongs with an old ETag or none.
UseUrl(u) ==
  /\ u \in muUrls /\ muUrls' = {}
  /\ \/ u.method = "GET" /\ UNCHANGED <<muOpen, muTags, muObj>>
     \/ u.method = "PUT" /\ u.part # 0 /\ PutPart(u.upload, u.part) /\ UNCHANGED muObj
     \/ /\ u.method = "PUT" /\ u.part = 0 /\ muTags < MuMaxTags
        /\ muTags' = muTags + 1 /\ muObj' = <<muTags + 1>> /\ UNCHANGED muOpen
  /\ UNCHANGED <<muKind, muMine, muPc, muDone>>

MuNext ==
  \/ \E c \in MuClients :
       \/ S3CreateMultipartUpload(c) \/ CosCreateMultipartUpload(c)
       \/ MinioCreateMultipartUpload(c) \/ LocalMultipart(c)
       \/ \E n \in MuNumbers : S3UploadPart(c, n) \/ CosUploadPart(c, n) \/ MinioUploadPart(c, n)
       \/ S3CompleteMultipartUpload(c) \/ CosCompleteMultipartUpload(c)
       \/ MinioCompleteMultipartUpload(c)
       \/ S3AbortMultipartUpload(c) \/ CosAbortMultipartUpload(c)
       \/ MinioAbortMultipartUpload(c)
       \/ \E m \in {"GET", "PUT"}, n \in 0..MuParts : HandOut(c, Signed(m, c, n))
  \/ \E u \in muUrls : UseUrl(u)

MuSpec == MuInit /\ [][MuNext]_multiVars

\* The object is never a mixture: it is what one client sent, all the parts of
\* that client in their order, or what one URL for the whole object brought,
\* however uploads to the key and part URLs interleave.
MultipartNotMixed ==
  \/ Len(muObj) =< 1
  \/ \E c \in MuClients : muDone[c] = muObj /\ muPc[c] = "completed"
=============================================================================
