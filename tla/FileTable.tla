------------------------------ MODULE FileTable ------------------------------
(***************************************************************************)
(* The table of uploaded files: the writers of storage/fileinfo.go and the *)
(* query object of storage/fileinfo_query.go.  A value is <<type, n>>, with*)
(* <<"text", 0>> the empty string and <<"nil", 0>> the untyped nil.  A     *)
(* FileQuery wraps one gorm statement, which every call changes in place:  *)
(* conditions add up, and what First leaves behind stays.                  *)
(***************************************************************************)
EXTENDS Integers, FiniteSets, SequencesExt

CONSTANTS FtFiles,     \* rows to save, as [column -> value]
          FtArgs,      \* arguments <<column, value>> of conditions
          FtPages,     \* arguments <<limit, offset>> of LimitOffset
          FtMaxRows, FtMaxWrites, FtMaxCalls \* bounds: rows, other writes, calls that build a query

ASSUME FtAssumption == FtMaxRows \in Nat /\ FtMaxWrites \in Nat /\ FtMaxCalls \in Nat

VARIABLES ftRows,   \* the rows, by ID: columns, copy_number, whether deleted_at is set
          ftQuery,  \* the statement of a FileQuery
          ftAsked,  \* history: the conditions asked of it, as they were written
          ftOne,    \* history: which of First and Last ran on it first
          ftWrites, ftCalls, \* what is left of the bounds
          ftOut     \* the last answer, and the rows it should be about

fileVars == <<ftRows, ftQuery, ftAsked, ftOne, ftWrites, ftCalls, ftOut>>
tableVars == <<ftRows, ftWrites>>
queryVars == <<ftQuery, ftAsked, ftOne, ftCalls>>

NoQuery == [conds |-> {}, order |-> "none", limit |-> 0, offset |-> 0,
            raise |-> FALSE, err |-> FALSE, ordered |-> FALSE, paged |-> FALSE]
NoFiles == [op |-> "none", rows |-> << >>, n |-> 0, err |-> FALSE, wanted |-> {},
            free |-> FALSE, unpaged |-> FALSE, one |-> "none", failed |-> FALSE]

FtTypeOK ==
  /\ Len(ftRows) =< FtMaxRows /\ ftOne \in {"none", "first", "last"}
  /\ \A i \in DOMAIN ftRows : /\ ftRows[i].file \in FtFiles /\ ftRows[i].dead \in BOOLEAN
                              /\ ftRows[i].copies \in 1..FtMaxRows /\ ftRows[i].status \in 1..2
  /\ ftQuery.order \in {"none", "asc", "desc"} /\ ftQuery.limit \in Nat
  /\ ftWrites \in 0..FtMaxWrites /\ ftCalls \in 0..FtMaxCalls
  /\ ftOut.wanted \subseteq 1..FtMaxRows /\ ftOut.err \in BOOLEAN

FtInit ==
  /\ ftRows = << >> /\ ftQuery = NoQuery /\ ftAsked = {} /\ ftOne = "none"
  /\ ftWrites = FtMaxWrites /\ ftCalls = FtMaxCalls /\ ftOut = NoFiles

Column(r, col) == IF col = "status" THEN <<"text", r.status>> ELSE r.file[col]
LiveFiles == {i \in DOMAIN ftRows : ~ftRows[i].dead}
SameContent(f, g) == f.hash = g.hash /\ f.size = g.size

-----------------------------------------------------------------------------
(* Writers. *)

\* A transaction: the row, and its copy number in every row of the same
\* content, deleted ones included; or nothing of it.
SaveCopyFile(f, n) ==
  LET row == [file |-> f, status |-> 1, copies |-> n, dead |-> FALSE] IN
  /\ Len(ftRows) < FtMaxRows
  /\ \/ ftRows' = Append([i \in DOMAIN ftRows |->
                            IF SameContent(ftRows[i].file, f)
                            THEN [ftRows[i] EXCEPT !.copies = n] ELSE ftRows[i]], row)
     \/ UNCHANGED ftRows
  /\ UNCHANGED <<queryVars, ftWrites, ftOut>>

UpdateFileByID(id, status) ==
  /\ ftWrites > 0 /\ ftWrites' = ftWrites - 1
  /\ ftRows' = [i \in DOMAIN ftRows |-> IF i = id /\ i \in LiveFiles
                                        THEN [ftRows[i] EXCEPT !.status = status]
                                        ELSE ftRows[i]]
  /\ UNCHANGED <<queryVars, ftOut>>

\* External: a caller deletes a row, which keeps it with deleted_at.
FileDeleted(id) ==
  /\ ftWrites > 0 /\ ftWrites' = ftWrites - 1
  /\ id \in LiveFiles /\ ftRows' = [ftRows EXCEPT ![id].dead = TRUE]
  /\ UNCHANGED <<queryVars, ftOut>>

-----------------------------------------------------------------------------
(* Single reads: the first live row that matches. *)

GetFirst(S) ==
  /\ ftOut' = [NoFiles EXCEPT !.op = "get", !.err = (S = {}), !.wanted = S,
                 !.rows = IF S = {} THEN << >>
                          ELSE <<CHOOSE i \in S : \A j \in S : i =< j>>]
  /\ UNCHANGED <<queryVars, tableVars>>

FilesMatching(col, v) == {i \in LiveFiles : Column(ftRows[i], col) = v}

GetFileByChunkHash(hash, size) == GetFirst(FilesMatching("chunk_hash", hash) \cap FilesMatching("size", size))
GetFileByHash(hash) == GetFirst(FilesMatching("hash", hash))
GetFileByPublicURL(url) == GetFirst(FilesMatching("url", url))
\* The ID 0 is not found without asking.
GetCompanyFileByID(company, id) == GetFirst(FilesMatching("company", company) \cap {id})
GetFileByID(id) == GetFirst(LiveFiles \cap {id})

-----------------------------------------------------------------------------
(* FileQuery. *)

\* LIKE on texts: <<"text", 2>> contains <<"text", 1>>.  IN with the list of one
\* value and the zero of its type.
Meets(r, c) ==
  LET v == Column(r, c.col) IN
  CASE c.op = "eq" -> v = c.val [] c.op = "ne" -> v # c.val
    [] c.op = "like" -> v[2] >= c.val[2]
    [] c.op = "in" -> v \in {c.val, <<c.val[1], 0>>}
    [] c.op = "gt" -> v[2] > c.val[2] [] c.op = "lt" -> v[2] < c.val[2]

NewFileQuery ==
  /\ ftQuery' = NoQuery /\ ftAsked' = {} /\ ftOne' = "none" /\ ftCalls' = FtMaxCalls
  /\ UNCHANGED <<tableVars, ftOut>>

\* A condition that is dropped when its value counts as absent.
Where(how, col, val, absent) ==
  LET c == [op |-> IF how = "shortcut" THEN "eq" ELSE how, col |-> col, val |-> val] IN
  /\ ftCalls > 0 /\ ftCalls' = ftCalls - 1
  /\ ftQuery' = IF absent THEN ftQuery ELSE [ftQuery EXCEPT !.conds = @ \cup {c}]
  /\ ftAsked' = ftAsked \cup {<<how, c>>}
  /\ UNCHANGED <<tableVars, ftOne, ftOut>>

Nil == <<"nil", 0>>
EmptyText == <<"text", 0>>
Zero == <<"num", 0>>

Eq(col, v) == Where("eq", col, v, v \in {Nil, EmptyText})
Ne(col, v) == Where("ne", col, v, v \in {Nil, EmptyText})
Gt(col, v) == Where("gt", col, v, v = Nil)
Lt(col, v) == Where("lt", col, v, v = Nil)
Like(col, v) == v[1] = "text" /\ Where("like", col, v, v = EmptyText)
In(col, v) == Where("in", col, v, FALSE)
\* Company, Uin, Purpose, Status, Hash and StoragePath.
Shortcut(col, v) == v # Nil /\ Where("shortcut", col, v, v \in {Zero, EmptyText})

\* OrderBy on the ID; the first order that is asked for decides.
OrderBy(desc) ==
  /\ ftCalls > 0 /\ ftCalls' = ftCalls - 1
  /\ ftQuery' = [ftQuery EXCEPT !.ordered = TRUE,
                   !.order = IF @ # "none" THEN @ ELSE IF desc THEN "desc" ELSE "asc"]
  /\ UNCHANGED <<tableVars, ftAsked, ftOne, ftOut>>

LimitOffset(limit, offset) ==
  /\ ftCalls > 0 /\ ftCalls' = ftCalls - 1
  /\ ftQuery' = [ftQuery EXCEPT !.limit = IF limit > 0 THEN limit ELSE @,
                                !.offset = IF offset > 0 THEN offset ELSE @,
                                !.paged = @ \/ limit > 0 \/ offset > 0]
  /\ UNCHANGED <<tableVars, ftAsked, ftOne, ftOut>>

Found(q) == {i \in LiveFiles : \A c \in q.conds : Meets(ftRows[i], c)}

\* What a reader of the calls expects: a condition without a value is no
\* condition, and every other one counts.
Wanted ==
  LET Absent(how, v) ==
        CASE how \in {"eq", "ne", "like"} -> v \in {Nil, EmptyText}
          [] how \in {"gt", "lt"} -> v = Nil
          [] how = "shortcut" -> v \in {EmptyText, Zero}
          [] how = "in" -> FALSE
  IN  {i \in LiveFiles : \A a \in ftAsked : Absent(a[1], a[2].val) \/ Meets(ftRows[i], a[2])}

\* The rows of the statement, in any order that its ORDER BY allows.
Listings(q) ==
  {SubSeq(s, q.offset + 1,
          IF q.limit > 0 /\ q.offset + q.limit < Len(s) THEN q.offset + q.limit ELSE Len(s)) :
     s \in {t \in SetToSeqs(Found(q)) :
              \A i, j \in DOMAIN t : i < j => /\ q.order = "asc" => t[i] < t[j]
                                              /\ q.order = "desc" => t[i] > t[j]}}

FileAnswer(op, s, n, err) ==
  [op |-> op, rows |-> s, n |-> n, err |-> err, wanted |-> Wanted,
   free |-> ~ftQuery.ordered, unpaged |-> ~ftQuery.paged, one |-> ftOne,
   failed |-> ftQuery.err]

\* Run the statement q: MySQL refuses OFFSET without LIMIT, and after an error
\* gorm does not run it any more.
RunQuery(op, q) ==
  /\ ftOne' = IF ftOne = "none" /\ op \in {"first", "last"} THEN op ELSE ftOne
  /\ IF q.err
     THEN ftQuery' = q /\ ftOut' = FileAnswer(op, << >>, 0, TRUE)
     ELSE IF q.offset > 0 /\ q.limit = 0
     THEN ftQuery' = [q EXCEPT !.err = TRUE] /\ ftOut' = FileAnswer(op, << >>, 0, TRUE)
     ELSE \E s \in Listings(q) :
            LET bad == s = << >> /\ q.raise
            IN  ftQuery' = [q EXCEPT !.err = bad] /\ ftOut' = FileAnswer(op, s, Len(s), bad)
  /\ UNCHANGED <<tableVars, ftAsked, ftCalls>>

OneRow(order) ==
  [ftQuery EXCEPT !.limit = 1, !.raise = TRUE, !.order = IF @ = "none" THEN order ELSE @]
FileQueryFirst == RunQuery("first", OneRow("asc"))
FileQueryLast == RunQuery("last", OneRow("desc"))
FileQueryList == RunQuery("list", ftQuery)

\* Count drops the order; LIMIT and OFFSET apply to its single row.
FileQueryCount ==
  /\ LET gone == ftQuery.offset > 0
         bad == ftQuery.err \/ (gone /\ (ftQuery.raise \/ ftQuery.limit = 0))
     IN  /\ ftQuery' = [ftQuery EXCEPT !.err = bad]
         /\ ftOut' = FileAnswer("count", << >>,
                            IF bad \/ gone THEN 0 ELSE Cardinality(Found(ftQuery)), bad)
  /\ UNCHANGED <<tableVars, ftAsked, ftOne, ftCalls>>

\* The caller has the answer.
AnswerTaken == ftOut # NoFiles /\ ftOut' = NoFiles /\ UNCHANGED <<tableVars, queryVars>>

FtWrite ==
  \/ \E f \in FtFiles : SaveCopyFile(f, Len(ftRows) + 1)
  \/ \E id \in 1..FtMaxRows : UpdateFileByID(id, 2) \/ FileDeleted(id)

FtGet ==
  \/ \E id \in 1..FtMaxRows : GetFileByID(id)
  \/ \E f \in FtFiles :
       \/ GetFileByHash(f.hash) \/ GetFileByChunkHash(f.chunk_hash, f.size)
       \/ GetFileByPublicURL(f.url)
       \/ \E id \in 1..FtMaxRows : GetCompanyFileByID(f.company, id)

FtAsk ==
  \/ \E a \in FtArgs :
       \/ Eq(a[1], a[2]) \/ Ne(a[1], a[2]) \/ Gt(a[1], a[2]) \/ Lt(a[1], a[2])
       \/ Like(a[1], a[2]) \/ In(a[1], a[2]) \/ Shortcut(a[1], a[2])
  \/ NewFileQuery \/ FileQueryFirst \/ FileQueryLast \/ FileQueryList \/ FileQueryCount
  \/ \E desc \in BOOLEAN : OrderBy(desc)
  \/ \E p \in FtPages : LimitOffset(p[1], p[2])

\* The single reads do not touch the query, so it is enough to make them while
\* it is new.
FtNext ==
  \/ AnswerTaken
  \/ ftOut = NoFiles /\ (FtWrite \/ FtAsk)
  \/ ftOut = NoFiles /\ ftCalls = FtMaxCalls /\ ftOne = "none" /\ FtGet

FtSpec == FtInit /\ [][FtNext]_fileVars

\* Rows of the same content agree on their number of copies, as long as
\* SaveCopyFile alone writes it (fileinfo.go:149-172).
CopiesAgree ==
  \A i, j \in DOMAIN ftRows :
    SameContent(ftRows[i].file, ftRows[j].file) => ftRows[i].copies = ftRows[j].copies

\* An answer without an error is about live rows that meet every condition that
\* was asked for with a value, in whatever order the calls came and however often
\* the query object ran before.  Without a page, Count is their number, and List
\* has all of them on an object that never ran First or Last; on one that did it
\* has one of them, and whichever of First and Last ran first without an order
\* decides for both whether the lowest or the highest ID comes.  Without a page it
\* is an error only that there are none, or an earlier error of the same object
\* (fileinfo_query.go:22-162).
FilesFound ==
  LET o == ftOut
      end == IF o.one = "none" THEN o.op ELSE o.one
  IN
  /\ CopiesAgree
  /\ o.err /\ o.unpaged => o.failed \/ o.wanted = {}
  /\ ~o.err => Range(o.rows) \subseteq o.wanted
  /\ ~o.err /\ o.unpaged =>
       /\ o.op = "list" => IF o.one = "none" THEN Range(o.rows) = o.wanted ELSE Len(o.rows) = 1
       /\ o.op = "count" => o.n = Cardinality(o.wanted)
       /\ o.op \in {"first", "last"} /\ o.free =>
            \A i \in o.wanted : IF end = "first" THEN o.rows[1] =< i ELSE o.rows[1] >= i
=============================================================================
