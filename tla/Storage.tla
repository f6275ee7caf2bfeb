------------------------------- MODULE Storage -------------------------------
(***************************************************************************)
(* The back ends of package storage (s3.go, tencent_cos.go, minoss.go,     *)
(* localdir.go): Save, DeleteFile, CopyDir and UploadDirectory on one      *)
(* bucket or directory, while another client saves and deletes.  A key is  *)
(* a sequence of characters, because the stores compare string prefixes    *)
(* and not paths; characters are numbers, 0 is '/', and they sort as the   *)
(* listings do.  The content of an object is named by the key it was first *)
(* saved under.  A copy of a directory is a list of things still to do,    *)
(* one request to the store each.                                          *)
(***************************************************************************)
EXTENDS Integers, Sequences, FiniteSets, SequencesExt

CONSTANTS StFiles,    \* sets of keys that may exist when the call begins
          StCopies,   \* pairs of paths given to CopyDir
          StUploads,  \* relative paths in the local tree of UploadDirectory
          StOthers,   \* keys the other client saves and deletes
          StPage,     \* entries on a page of a listing (1000 in the services)
          StMaxLen,   \* longest key the store accepts
          StMaxOps    \* bound: requests of the other client

ASSUME StAssumption == StPage \in Nat \ {0} /\ StMaxLen \in Nat /\ StMaxOps \in Nat

VARIABLES stKind,    \* which back end
          stObj,     \* the objects or files: a function on the keys present
          stDirs,    \* directories of the local back end
          stCall,    \* the call in progress
          stTodo,    \* its requests still to come, in order
          stResult,  \* how it ended
          stOps,     \* requests of the other client left
          stSnap,    \* history: the objects when the call began
          stTouched, \* history: keys the other client touched since then
          stShort    \* history: a listing was longer than a page and cut off

storageVars == <<stKind, stObj, stDirs, stCall, stTodo, stResult, stOps,
                 stSnap, stTouched, stShort>>

Slash == 0
NewContent == <<99>>
Partial == << >>

WithSlash(p) == IF p # << >> /\ Last(p) = Slash THEN p ELSE Append(p, Slash)
Clean(p) == IF p # << >> /\ Last(p) = Slash THEN Front(p) ELSE p
TrimPrefix(k, p) == SubSeq(k, Len(p) + 1, Len(k))

\* path.Join of two relative paths without empty or dot elements.
Join(d, r) ==
  LET rel == Clean(IF r # << >> /\ Head(r) = Slash THEN Tail(r) ELSE r)
  IN  IF rel = << >> THEN Clean(d) ELSE WithSlash(d) \o rel

\* The order of a listing: bytewise.
Before(k, l) ==
  \/ IsStrictPrefix(k, l)
  \/ \E i \in DOMAIN k \cap DOMAIN l :
       k[i] < l[i] /\ SubSeq(k, 1, i - 1) = SubSeq(l, 1, i - 1)

Parents(k) == {SubSeq(k, 1, i - 1) : i \in {j \in DOMAIN k : k[j] = Slash}}

With(k, c) == [x \in DOMAIN stObj \cup {k} |-> IF x = k THEN c ELSE stObj[x]]
Without(k) == [x \in DOMAIN stObj \ {k} |-> stObj[x]]

NoCall == [op |-> "none", src |-> << >>, dest |-> << >>]
Todo(do, from, to) == [do |-> do, from |-> from, to |-> to, after |-> << >>]

StTypeOK ==
  /\ stKind \in {"s3", "cos", "minio", "local"}
  /\ \A k \in DOMAIN stObj : Len(k) =< StMaxLen
  /\ stResult \in {"none", "ok", "error"}
  /\ \A i \in DOMAIN stTodo : stTodo[i].do \in {"list", "copy", "put"}
  /\ stOps \in 0..StMaxOps /\ stShort \in BOOLEAN
  /\ DOMAIN stObj \cap stDirs = {}

StInit ==
  /\ stKind \in {"s3", "cos", "minio", "local"}
  /\ \E F \in StFiles : stObj = [k \in F |-> k]
  /\ stDirs = UNION {Parents(k) : k \in DOMAIN stObj}
  /\ stCall = NoCall /\ stTodo = << >> /\ stResult = "none" /\ stOps = StMaxOps
  /\ stSnap = stObj /\ stTouched = {} /\ stShort = FALSE

-----------------------------------------------------------------------------
(* Save and DeleteFile, as the other client or UploadDirectory calls them. *)

S3Save(k, c) == Len(k) =< StMaxLen /\ stObj' = With(k, c) /\ UNCHANGED stDirs
CosSave(k, c) == Len(k) =< StMaxLen /\ stObj' = With(k, c) /\ UNCHANGED stDirs

\* PutObject stores fi.Size bytes, and nothing sets fi.Size: a caller that
\* leaves it at zero stores an empty object.
MinioSave(k, c) ==
  /\ Len(k) =< StMaxLen
  /\ stObj' = With(k, c) \/ stObj' = With(k, Partial)
  /\ UNCHANGED stDirs

\* MkdirAll, Create, io.Copy: the last may stop half way.
LocalSave(k, c) ==
  /\ Len(k) =< StMaxLen /\ k \notin stDirs /\ Parents(k) \cap DOMAIN stObj = {}
  /\ stDirs' = stDirs \cup Parents(k)
  /\ stObj' = With(k, c) \/ stObj' = With(k, Partial)

\* Deleting a missing object succeeds, a missing file is an error.
S3Delete(k) == stObj' = Without(k)
CosDelete(k) == stObj' = Without(k)
MinioDelete(k) == stObj' = Without(k)
LocalDelete(k) == k \in DOMAIN stObj /\ stObj' = Without(k)

\* ReadFile: the content, or nothing; only the local back end cleans the path.
Content(k) == IF k \in DOMAIN stObj THEN {stObj[k]} ELSE {}
S3ReadFile(k) == Content(k)
CosReadFile(k) == Content(k)
MinioReadFile(k) == Content(k)
LocalReadFile(k) == Content(Clean(k))
ReadFile(k) ==
  CASE stKind = "s3" -> S3ReadFile(k) [] stKind = "cos" -> CosReadFile(k)
    [] stKind = "minio" -> MinioReadFile(k) [] stKind = "local" -> LocalReadFile(k)

SaveAny(k, c) ==
  \/ stKind = "s3" /\ S3Save(k, c)
  \/ stKind = "cos" /\ CosSave(k, c)
  \/ stKind = "minio" /\ MinioSave(k, c)
  \/ stKind = "local" /\ LocalSave(k, c)

DeleteAny(k) ==
  \/ stKind = "s3" /\ S3Delete(k)
  \/ stKind = "cos" /\ CosDelete(k)
  \/ stKind = "minio" /\ MinioDelete(k)
  \/ stKind = "local" /\ LocalDelete(k)

\* The other client saves or deletes while the call is in progress.
OtherClient(k, Save(_, _), Delete(_)) ==
  /\ stTodo # << >> /\ stOps > 0 /\ stOps' = stOps - 1
  /\ Save(k, NewContent) \/ (Delete(k) /\ UNCHANGED stDirs)
  /\ stTouched' = stTouched \cup {k}
  /\ UNCHANGED <<stKind, stCall, stTodo, stResult, stSnap, stShort>>

-----------------------------------------------------------------------------
(* CopyDir of one file: the last request of a call may end it. *)

\* Go on with the rest of the list; the call returns nil after the last one.
Continue(more) ==
  /\ stTodo' = more \o Tail(stTodo)
  /\ stResult' = IF stTodo' = << >> THEN "ok" ELSE "none"

Fail == stTodo' = << >> /\ stResult' = "error"

CopyKey(from, to) ==
  /\ from \in DOMAIN stObj /\ Len(to) =< StMaxLen
  /\ stObj' = With(to, stObj[from]) /\ UNCHANGED stDirs

\* copyObject of each back end.  S3 skips a copy onto itself; the services of
\* the others accept or refuse it.
S3copyObject(from, to) ==
  IF from = to THEN UNCHANGED <<stObj, stDirs>> ELSE CopyKey(from, to)

CoscopyObject(from, to) == CopyKey(from, to)
MiniocopyObject(from, to) == CopyKey(from, to)

\* copyFile: Create truncates, so a file copied onto itself ends up empty.
LocalcopyFile(from, to) ==
  /\ from \in DOMAIN stObj /\ Len(to) =< StMaxLen /\ to \notin stDirs
  /\ Parents(to) \cap DOMAIN stObj = {}
  /\ stDirs' = stDirs \cup Parents(to)
  /\ stObj' = With(to, IF from = to THEN Partial ELSE stObj[from])

\* Or it stops after MkdirAll, or half way in the new file.
LocalcopyFails(from, to) ==
  /\ stKind = "local" /\ Len(to) =< StMaxLen /\ to \notin stDirs
  /\ Parents(to) \cap DOMAIN stObj = {} /\ stDirs' = stDirs \cup Parents(to)
  /\ stObj' = stObj \/ (from \in DOMAIN stObj /\ stObj' = With(to, Partial))

CopyOne(it) ==
  \/ stKind = "s3" /\ S3copyObject(it.from, it.to)
  \/ stKind = "cos" /\ CoscopyObject(it.from, it.to)
  \/ stKind = "minio" /\ MiniocopyObject(it.from, it.to)
  \/ stKind = "local" /\ LocalcopyFile(it.from, it.to)

-----------------------------------------------------------------------------
(* copyDirectory: one listing, which yields copies and further listings. *)

Keys(prefix) == {k \in DOMAIN stObj : IsPrefix(prefix, k)}
Sorted(S) == SetToSortSeq(S, Before)
Cut(s) == SubSeq(s, 1, IF Len(s) < StPage THEN Len(s) ELSE StPage)

\* A page of the recursive listing after the last key of the page before.
PageAfter(it) == {k \in Keys(it.from) : it.after = << >> \/ Before(it.after, k)}

S3copyDirectoryOnePage(it) ==
  LET page == Cut(Sorted(PageAfter(it)))
      copies == [i \in DOMAIN page |->
                   Todo("copy", page[i], Join(it.to, TrimPrefix(page[i], it.from)))]
  IN  /\ Continue(SelectSeq(copies, LAMBDA x : x.to # it.to))
      /\ UNCHANGED <<stDirs, stShort>>

\* S3: the paginator goes on while a page was full; a key that maps to the
\* destination itself is skipped.
S3copyDirectory(it) ==
  LET all == Sorted(PageAfter(it))
      page == Cut(all)
      copies == [i \in DOMAIN page |->
                   Todo("copy", page[i], Join(it.to, TrimPrefix(page[i], it.from)))]
  IN  /\ Continue(SelectSeq(copies, LAMBDA x : x.to # it.to)
                    \o IF page = all THEN << >> ELSE <<[it EXCEPT !.after = Last(page)]>>)
      /\ UNCHANGED <<stDirs, stShort>>

\* MinIO: the channel of ListObjects pages in the same way.
MiniocopyDirectory(it) ==
  LET all == Sorted(PageAfter(it))
      page == Cut(all)
      copies == [i \in DOMAIN page |->
                   Todo("copy", page[i], Join(it.to, TrimPrefix(page[i], it.from)))]
  IN  /\ Continue(copies
                    \o IF page = all THEN << >> ELSE <<[it EXCEPT !.after = Last(page)]>>)
      /\ UNCHANGED <<stDirs, stShort>>

\* COS: Delimiter '/' folds the keys of a sub-folder into one common prefix,
\* which is listed in turn; only the first page is asked for.
CoscopyDirectory(it) ==
  LET rest(k) == TrimPrefix(k, it.from)
      fold(k) == IF Slash \notin ToSet(rest(k)) THEN k
                 ELSE it.from \o SubSeq(rest(k), 1, SelectInSeq(rest(k), LAMBDA x : x = Slash))
      all == Sorted({fold(k) : k \in Keys(it.from)})
      page == Cut(all)
      sub(p) == p \notin DOMAIN stObj
      files == SelectSeq(page, LAMBDA p : ~sub(p))
      folders == SelectSeq(page, LAMBDA p : sub(p))
      todo(s, do) == [i \in DOMAIN s |-> Todo(do, s[i], Join(it.to, TrimPrefix(s[i], it.from)))]
  IN  /\ Continue(todo(files, "copy") \o todo(folders, "list"))
      /\ stShort' = (stShort \/ page # all)
      /\ UNCHANGED stDirs

\* Local: the destination is made first, then the entries are read in order.
LocalcopyDirectory(it) ==
  LET child(k) == /\ IsStrictPrefix(WithSlash(it.from), k)
                  /\ Slash \notin ToSet(TrimPrefix(k, WithSlash(it.from)))
      made == stDirs \cup {it.to} \cup Parents(it.to)
      entries == Sorted({k \in DOMAIN stObj \cup made : child(k)})
      to(k) == WithSlash(it.to) \o TrimPrefix(k, WithSlash(it.from))
  IN  /\ Len(it.to) =< StMaxLen /\ DOMAIN stObj \cap made = {}
      /\ stDirs' = made
      /\ Continue([i \in DOMAIN entries |->
                     Todo(IF entries[i] \in made THEN "list" ELSE "copy", entries[i], to(entries[i]))])
      /\ UNCHANGED stShort

ListOne(it) ==
  \/ stKind = "s3" /\ S3copyDirectory(it)
  \/ stKind = "cos" /\ CoscopyDirectory(it)
  \/ stKind = "minio" /\ MiniocopyDirectory(it)
  \/ stKind = "local" /\ LocalcopyDirectory(it)

-----------------------------------------------------------------------------
(* The calls. *)

\* isDirectory: an object store takes a path without an object for a folder.
S3isDirectory(p) == p \notin DOMAIN stObj
CosisDirectory(p) == p \notin DOMAIN stObj
MinioisDirectory(p) == p \notin DOMAIN stObj

Begin(call, todo) ==
  /\ stCall = NoCall /\ stCall' = call /\ stTodo' = todo
  /\ stResult' = IF todo = << >> THEN "ok" ELSE "none"
  /\ stSnap' = stObj
  /\ UNCHANGED <<stKind, stObj, stDirs, stOps, stTouched, stShort>>

ObjectCopyDir(kind, src, dest, isDir) ==
  /\ stKind = kind /\ src # << >> /\ dest # << >>
  /\ Begin([op |-> "copy", src |-> src, dest |-> dest],
           <<Todo(IF isDir THEN "list" ELSE "copy", src, dest)>>)

S3CopyDir(src, dest) == ObjectCopyDir("s3", src, dest, S3isDirectory(src))
CosCopyDir(src, dest) == ObjectCopyDir("cos", src, dest, CosisDirectory(src))
MinioCopyDir(src, dest) == ObjectCopyDir("minio", src, dest, MinioisDirectory(src))

\* The local CopyDir cleans both paths and refuses a missing source.
LocalCopyDir(src, dest) ==
  /\ stKind = "local" /\ Clean(src) \in DOMAIN stObj \cup stDirs
  /\ Begin([op |-> "copy", src |-> Clean(src), dest |-> Clean(dest)],
           <<Todo(IF Clean(src) \in stDirs THEN "list" ELSE "copy", Clean(src), Clean(dest))>>)

\* Only S3 implements UploadDirectory: it saves the files of the tree in the
\* order of the walk.
UploadDirectory(dest) ==
  /\ stKind = "s3"
  /\ Begin([op |-> "upload", src |-> << >>, dest |-> dest],
           [i \in DOMAIN Sorted(StUploads) |->
              Todo("put", << >>, Join(dest, Sorted(StUploads)[i]))])

\* One request of the call in progress; the back end gives the three kinds.
StStepWith(List(_), Copy(_), Save(_, _)) ==
  /\ stTodo # << >>
  /\ LET it == Head(stTodo) IN
     \/ it.do = "list" /\ List(it) /\ UNCHANGED stObj
     \/ it.do = "copy" /\ Copy(it) /\ Continue(<< >>) /\ UNCHANGED stShort
     \/ it.do = "put" /\ Save(it.to, NewContent) /\ Continue(<< >>) /\ UNCHANGED stShort
  /\ UNCHANGED <<stKind, stCall, stOps, stSnap, stTouched>>

\* Any request may fail, and ends the call with an error; what was copied or
\* saved before stays, and of a local file perhaps a part.
StFail ==
  /\ stTodo # << >> /\ Fail
  /\ LET it == Head(stTodo)
     IN  UNCHANGED <<stObj, stDirs>> \/ (it.do = "copy" /\ LocalcopyFails(it.from, it.to))
  /\ UNCHANGED <<stKind, stCall, stOps, stSnap, stTouched, stShort>>

StNext ==
  \/ \E c \in StCopies :
       \/ S3CopyDir(c[1], c[2]) \/ CosCopyDir(c[1], c[2])
       \/ MinioCopyDir(c[1], c[2]) \/ LocalCopyDir(c[1], c[2])
  \/ \E c \in StCopies : UploadDirectory(c[2])
  \/ \E k \in StOthers : OtherClient(k, SaveAny, DeleteAny)
  \/ StStepWith(ListOne, CopyOne, SaveAny) \/ StFail

StSpec == StInit /\ [][StNext]_storageVars

-----------------------------------------------------------------------------
Inside(p, k) == IsPrefix(WithSlash(p), k)

\* Where CopyDir puts a key it lists.
Target(k) == Join(stCall.dest, TrimPrefix(k, stCall.src))
Listed == {k \in DOMAIN stSnap : IsPrefix(stCall.src, k)}

CopiedDir == stCall.op = "copy" /\ stResult = "ok" /\ stCall.src \notin DOMAIN stSnap

\* When CopyDir returns nil, every file that was in the folder and that nobody
\* touched is at the destination with its content.  Exceptions the code has: a
\* destination inside the source, a COS folder longer than a page, and a key
\* outside the folder that starts with the same letters and so is copied over
\* a file of the folder (s3.go:322-348, tencent_cos.go:304-342,
\* minoss.go:190-215, localdir.go:179-211).
CopyDirComplete ==
  CopiedDir /\ ~stShort /\ ~IsPrefix(stCall.src, stCall.dest) =>
    \A k \in DOMAIN stSnap :
      /\ Inside(stCall.src, k) /\ {k, Target(k)} \cap stTouched = {}
      /\ \A l \in Listed \cup stTouched : Target(l) = Target(k) => l = k
      => ReadFile(Target(k)) = {stSnap[k]}

\* The same without the last exception, as s3.go:321 promises it.
CopyDirWhole ==
  CopiedDir /\ ~stShort /\ ~IsPrefix(stCall.src, stCall.dest) =>
    \A k \in DOMAIN stSnap :
      Inside(stCall.src, k) /\ {k, Target(k)} \cap stTouched = {} =>
        ReadFile(Target(k)) = {stSnap[k]}

\* Copying and uploading change only what lies under the destination: every
\* other file keeps its content, whatever fails on the way, unless a local
\* file is copied onto itself.
CopyDirKeepsRest ==
  stCall.op # "none" /\ stCall.src # stCall.dest =>
    \A k \in DOMAIN stSnap :
      k \notin stTouched /\ k # stCall.dest /\ ~Inside(stCall.dest, k) =>
        ReadFile(k) = {stSnap[k]}

\* CopyDir and UploadDirectory do what they report and nothing besides:
\* CopyDirComplete and CopyDirKeepsRest together.
CopyDirRight == CopyDirComplete /\ CopyDirKeepsRest
=============================================================================
