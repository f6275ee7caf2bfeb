----------------------------- MODULE PromptStore -----------------------------
(***************************************************************************)
(* Prompts and their versions: the two DAOs of prompt/model/dao.go on the  *)
(* tables core_prompt and core_prompt_version, and Renderer.RenderByCode   *)
(* (prompt/renderer.go), which reads one table after the other.  A row is  *)
(* [key, ref, st, del]: the code of a prompt (unique, deleted rows         *)
(* included) or the prompt of a version, the latest version of a prompt,   *)
(* its status (0 is disabled), and whether deleted_at is set.  "" and 0    *)
(* are the zero values that gorm treats as not given.                      *)
(***************************************************************************)
EXTENDS Integers, FiniteSets, Sequences, Functions

CONSTANTS PdKeys,   \* codes of prompts; versions use them for their prompts
          PdConds,  \* conditions that callers give
          PdMaxId,  \* bound: rows of a table
          PdMaxOps  \* bound: writes

ASSUME PdAssumption == PdMaxId \in Nat /\ PdMaxOps \in Nat

VARIABLES pdRows,  \* [table -> [id -> row]]
          pdOps,   \* writes left
          pdWay,   \* the way of the last step, with the IDs and codes an upsert names
          pdAns,   \* the list that this step has read, with its condition
          pdPage,  \* GetPageListByCond after its count: table and condition
          pdLook,  \* RenderByCode: the version it is about to read, 0 for none
          pdDrawn  \* the version that RenderByCode has rendered in this step

promptVars == <<pdRows, pdOps, pdWay, pdAns, pdPage, pdLook, pdDrawn>>

Tables == {"prompt", "version"}
Ids(t) == DOMAIN pdRows[t]
Row(k, r, s) == [key |-> k, ref |-> r, st |-> s, del |-> FALSE]
Rows == [key : PdKeys, ref : Nat, st : {0, 1}, del : BOOLEAN]
Plain == [how |-> "plain", ids |-> {}, keys |-> {}]
NoAns == [t |-> "prompt", ids |-> << >>, deleted |-> FALSE, limit |-> 0]
NoAnswer == pdAns' = NoAns /\ pdDrawn' = {}

PdTypeOK ==
  /\ pdRows \in [Tables -> Seq(Rows)] /\ \A t \in Tables : Len(pdRows[t]) =< PdMaxId
  /\ pdOps \in 0..PdMaxOps /\ pdWay.how \in {"plain", "upsert", "unscoped"}
  /\ pdAns.t \in Tables /\ pdPage \subseteq [t : Tables, c : PdConds] /\ pdLook \in Nat

PdInit ==
  /\ pdRows = [t \in Tables |-> << >>] /\ pdOps = PdMaxOps /\ pdWay = Plain
  /\ pdAns = NoAns /\ pdPage = {} /\ pdLook = 0 /\ pdDrawn = {}

\* The rows a statement may touch: gorm adds "deleted_at IS NULL" unless the
\* statement is Unscoped.
NotScoped(r, isDelete) == TRUE
Scoped(r, isDelete) == isDelete \/ ~r.del

\* BuildCondition: a zero field adds no condition; Status is an IN list.
PromptCondition(i, r, c) ==
  /\ Scoped(r, c.isDelete) /\ c.id \in {0, i} /\ c.key \in {"", r.key}
  /\ c.st # {} => r.st \in c.st
VersionCondition(i, r, c) ==
  Scoped(r, c.isDelete) /\ c.id \in {0, i} /\ c.key \in {"", r.key}
BuildCondition(t, i, r, c) ==
  IF t = "prompt" THEN PromptCondition(i, r, c) ELSE VersionCondition(i, r, c)

Empty(t, c) == c.id = 0 /\ c.key = "" /\ (t = "prompt" => c.st = {})
Matching(t, c) == {i \in Ids(t) : BuildCondition(t, i, pdRows[t][i], c)}

\* The unique index on code counts deleted rows too.
Unique(t, rows) == t = "prompt" => \A i, j \in DOMAIN rows : rows[i].key = rows[j].key => i = j

Store(t, rows, way) ==
  /\ pdOps > 0 /\ pdOps' = pdOps - 1 /\ Unique(t, rows) /\ Len(rows) =< PdMaxId
  /\ pdRows' = [pdRows EXCEPT ![t] = rows] /\ pdWay' = way
  /\ NoAnswer /\ UNCHANGED <<pdPage, pdLook>>

\* Create gives a zero status the default of its column, 1.
Inserted(t, r) == IF t = "prompt" THEN [r EXCEPT !.st = 1] ELSE r

\* Create and CreateBatch: one statement, all rows or none.
CreateBatch(t, batch) ==
  batch # << >> /\ Store(t, pdRows[t] \o [i \in DOMAIN batch |-> Inserted(t, batch[i])], Plain)

Change(t, ids, New(_), way) ==
  /\ ids \cap Ids(t) # {}
  /\ Store(t, [i \in Ids(t) |-> IF i \in ids THEN New(pdRows[t][i]) ELSE pdRows[t][i]], way)

Live(t, ids) == {i \in Ids(t) \cap ids : Scoped(pdRows[t][i], FALSE)}

\* UpdateByID writes the non-zero fields of the entity, UpdateMap every field
\* of the map.
UpdateByID(t, id, e) ==
  Change(t, Live(t, {id}),
         LAMBDA r : [r EXCEPT !.key = IF e.key = "" THEN @ ELSE e.key,
                              !.ref = IF e.ref = 0 THEN @ ELSE e.ref,
                              !.st = IF e.st = 0 THEN @ ELSE e.st], Plain)
UpdateMap(t, id, st) == Change(t, Live(t, {id}), LAMBDA r : [r EXCEPT !.st = st], Plain)

\* UpdateMapBatch: a condition that selects nothing in particular is an error.
UpdateMapBatch(t, c, st) ==
  /\ ~Empty(t, c)
  /\ Change(t, Matching(t, c), LAMBDA r : [r EXCEPT !.st = st],
            IF c.isDelete THEN [Plain EXCEPT !.how = "unscoped"] ELSE Plain)

\* One row of an upsert: a row that has its ID or, of prompts, its code gets every
\* column of it, deleted_at included; MySQL looks at every unique index, whatever
\* columns are named as the conflict.
Saved(t, rows, e) ==
  LET hit == {i \in DOMAIN rows : i = e.id \/ (t = "prompt" /\ rows[i].key = e.row.key)}
  IN  IF hit = {} THEN Append(rows, Inserted(t, e.row))
      ELSE [i \in DOMAIN rows |-> IF i \in hit THEN Inserted(t, e.row) ELSE rows[i]]

\* SaveBatchOnConflict, of one row or two, which go in one after the other, both
\* or none: without conflict columns an insert, with them an upsert.  Callers take
\* an ID from a row that they have read, or give none.
SaveBatchOnConflict(t, batch, onConflict) ==
  LET n == Len(batch)
      first == Saved(t, pdRows[t], batch[1])
      way == [how |-> "upsert", ids |-> {batch[i].id : i \in 1..n},
              keys |-> {batch[i].row.key : i \in 1..n}]
  IN  /\ \A i \in 1..n : batch[i].id \in Ids(t) \cup {0}
      /\ IF onConflict
         THEN Unique(t, first) /\ Store(t, IF n = 1 THEN first ELSE Saved(t, first, batch[2]), way)
         ELSE /\ \A i \in 1..n : batch[i].id = 0
              /\ CreateBatch(t, [i \in 1..n |-> batch[i].row])

\* Sets deleted_at of rows that are not deleted yet.
DeleteByIDs(t, ids) == ids # {} /\ Change(t, Live(t, ids), LAMBDA r : [r EXCEPT !.del = TRUE], Plain)

Answer(t, ids, c, limit) ==
  /\ pdAns' = [t |-> t, ids |-> ids, deleted |-> c.isDelete, limit |-> limit]
  /\ pdDrawn' = {} /\ pdWay' = Plain /\ UNCHANGED <<pdRows, pdOps, pdLook>>
ById(ids) == CHOOSE s \in [1..Cardinality(ids) -> ids] :
               \A i, j \in DOMAIN s : i < j => s[i] < s[j]

\* One query each; a query for one row keeps one of those that match.
GetListByCond(t, c) ==
  Answer(t, ById(Matching(t, c)), c, 0) /\ UNCHANGED pdPage
GetByCond(t, c) ==
  /\ \/ Matching(t, c) = {} /\ Answer(t, << >>, c, 0)
     \/ \E i \in Matching(t, c) : Answer(t, <<i>>, c, 0)
  /\ UNCHANGED pdPage
ByKey(k) == [id |-> 0, key |-> k, st |-> {}, isDelete |-> FALSE]
GetByIDs(t, ids) ==
  ids # {} /\ Answer(t, ById(Live(t, ids)), ByKey(""), 0) /\ UNCHANGED pdPage

\* GetPageListByCond counts first and then reads a page (readers do not meet
\* each other, so one is followed at a time).
PageCount(t, c) ==
  /\ pdPage = {} /\ pdLook = 0 /\ pdPage' = {[t |-> t, c |-> c]}
  /\ pdWay' = Plain /\ NoAnswer /\ UNCHANGED <<pdRows, pdOps, pdLook>>

PageFind(limit, offset) ==
  /\ pdPage' = {} /\ (limit = 0 => offset = 0)
  /\ \E p \in pdPage :
       LET all == ById(Matching(p.t, p.c))
           last == IF limit = 0 \/ offset + limit > Len(all) THEN Len(all) ELSE offset + limit
       IN  Answer(p.t, SubSeq(all, offset + 1, last), p.c, limit)

\* MySQL refuses OFFSET without LIMIT.
PageFails(limit, offset) ==
  /\ pdPage # {} /\ limit = 0 /\ offset > 0 /\ pdPage' = {}
  /\ pdWay' = Plain /\ NoAnswer /\ UNCHANGED <<pdRows, pdOps, pdLook>>

\* RenderByCode: GetByCode; a missing row, a disabled prompt or one without a
\* version is an error.
RenderByCode(code) ==
  /\ pdLook = 0 /\ pdPage = {} /\ pdWay' = Plain
  /\ \E i \in Live("prompt", Ids("prompt")) :
       /\ pdRows["prompt"][i].key = code /\ pdRows["prompt"][i].st # 0
       /\ pdRows["prompt"][i].ref # 0 /\ pdLook' = pdRows["prompt"][i].ref
  /\ NoAnswer /\ UNCHANGED <<pdRows, pdOps, pdPage>>

\* ... then the version, by its ID.
RenderVersion ==
  /\ pdLook # 0 /\ pdLook' = 0 /\ pdWay' = Plain
  /\ pdDrawn' = {pdRows["version"][i] : i \in Live("version", {pdLook})}
  /\ pdAns' = NoAns /\ UNCHANGED <<pdRows, pdOps, pdPage>>

-----------------------------------------------------------------------------
\* The rows and batches that callers save.
Entries == {[id |-> i, row |-> Row(k, 0, 0)] : i \in 0..PdMaxId, k \in PdKeys}
Batches == {<<e>> : e \in Entries} \cup {<<e, f>> : e, f \in Entries}

(* The methods of PromptDao ... *)

PromptDaoCreate(r) == CreateBatch("prompt", <<r>>)
PromptDaoCreateBatch(batch) == CreateBatch("prompt", batch)
PromptDaoGetByID(i) == GetByIDs("prompt", {i})
PromptDaoGetByIDs(ids) == GetByIDs("prompt", ids)
PromptDaoUpdateByID(i, e) == UpdateByID("prompt", i, e)
PromptDaoUpdateMap(i, st) == UpdateMap("prompt", i, st)
PromptDaoUpdateMapBatch(c, st) == UpdateMapBatch("prompt", c, st)
PromptDaoSaveBatch(batch, onConflict) == SaveBatchOnConflict("prompt", batch, onConflict)
PromptDaoDelete(i) == DeleteByIDs("prompt", {i})
PromptDaoDeleteByIDs(ids) == DeleteByIDs("prompt", ids)
PromptDaoGetByCond(c) == GetByCond("prompt", c)
PromptDaoGetByCode(code) == GetByCond("prompt", ByKey(code))
PromptDaoGetListByCond(c) == GetListByCond("prompt", c)
PromptDaoCountByCond(c) == GetListByCond("prompt", c)

PromptDao ==
  \/ \E k, l \in PdKeys : PromptDaoCreateBatch(<<Row(k, 0, 1), Row(l, 1, 1)>>)
  \/ \E k \in PdKeys : PromptDaoCreate(Row(k, 1, 0)) \/ PromptDaoGetByCode(k)
  \/ \E batch \in Batches, b \in BOOLEAN : PromptDaoSaveBatch(batch, b)
  \/ \E i \in 1..PdMaxId :
       PromptDaoUpdateByID(i, Row("", 2, 0)) \/ PromptDaoUpdateMap(i, 0)
         \/ PromptDaoDelete(i) \/ PromptDaoGetByID(i)
  \/ \E ids \in SUBSET (1..PdMaxId) : PromptDaoDeleteByIDs(ids) \/ PromptDaoGetByIDs(ids)
  \/ \E c \in PdConds :
       PromptDaoGetByCond(c) \/ PromptDaoGetListByCond(c) \/ PromptDaoCountByCond(c)
         \/ PageCount("prompt", c) \/ PromptDaoUpdateMapBatch(c, 0)

(* ... and of PromptVersionDao. *)

VersionDaoCreate(r) == CreateBatch("version", <<r>>)
VersionDaoCreateBatch(batch) == CreateBatch("version", batch)
VersionDaoGetByID(i) == GetByIDs("version", {i})
VersionDaoGetByIDs(ids) == GetByIDs("version", ids)
VersionDaoUpdateByID(i, e) == UpdateByID("version", i, e)
VersionDaoUpdateMap(i, st) == UpdateMap("version", i, st)
VersionDaoUpdateMapBatch(c, st) == UpdateMapBatch("version", c, st)
VersionDaoSaveBatch(batch, onConflict) == SaveBatchOnConflict("version", batch, onConflict)
VersionDaoDelete(i) == DeleteByIDs("version", {i})
VersionDaoDeleteByIDs(ids) == DeleteByIDs("version", ids)
VersionDaoGetByCond(c) == GetByCond("version", c)
VersionDaoGetListByPromptID(k) == GetListByCond("version", ByKey(k))
VersionDaoGetListByCond(c) == GetListByCond("version", c)
VersionDaoCountByCond(c) == GetListByCond("version", c)

VersionDao ==
  \/ \E k, l \in PdKeys : VersionDaoCreateBatch(<<Row(k, 0, 1), Row(l, 1, 1)>>)
  \/ \E k \in PdKeys : VersionDaoCreate(Row(k, 1, 0)) \/ VersionDaoGetListByPromptID(k)
  \/ \E batch \in Batches, b \in BOOLEAN : VersionDaoSaveBatch(batch, b)
  \/ \E i \in 1..PdMaxId :
       VersionDaoUpdateByID(i, Row("", 2, 0)) \/ VersionDaoUpdateMap(i, 0)
         \/ VersionDaoDelete(i) \/ VersionDaoGetByID(i)
  \/ \E ids \in SUBSET (1..PdMaxId) : VersionDaoDeleteByIDs(ids) \/ VersionDaoGetByIDs(ids)
  \/ \E c \in PdConds :
       VersionDaoGetByCond(c) \/ VersionDaoGetListByCond(c) \/ VersionDaoCountByCond(c)
         \/ PageCount("version", c) \/ VersionDaoUpdateMapBatch(c, 0)

\* The answer of the last call is taken before the next step, which does not
\* depend on it.
Quiet == pdAns = NoAns /\ pdDrawn = {} /\ pdWay = Plain
ReadReturns ==
  /\ ~Quiet /\ NoAnswer /\ pdWay' = Plain /\ UNCHANGED <<pdRows, pdOps, pdPage, pdLook>>

PdCall ==
  \/ RenderVersion \/ \E limit, offset \in 0..1 : PageFind(limit, offset) \/ PageFails(limit, offset)
  \/ \E k \in PdKeys : RenderByCode(k)
  \/ PromptDao \/ VersionDao

PdNext == ReadReturns \/ (Quiet /\ PdCall)

PdSpec == PdInit /\ [][PdNext]_promptVars

\* What a step of that way may do to a deleted row, of which it makes r.
Spared(t, i, r, way) ==
  \/ r = pdRows[t][i]
  \/ way.how = "unscoped" /\ r.del
  \/ way.how = "upsert" /\ (i \in way.ids \/ (t = "prompt" /\ pdRows[t][i].key \in way.keys))

\* What a step does to deleted rows, with the list and the version it returns.
DeletedStep ==
  /\ \A t \in Tables : \A i \in Ids(t) :
       pdRows[t][i].del => Spared(t, i, pdRows'[t][i], pdWay')
  /\ \A i \in Range(pdAns'.ids) : pdRows[pdAns'.t][i].del => pdAns'.deleted
  /\ pdAns'.limit = 0 \/ Len(pdAns'.ids) =< pdAns'.limit
  /\ \A r \in pdDrawn' : ~r.del

\* A deleted prompt or version stays as it was when it was deleted: no insert,
\* update by ID or second delete touches it.  Only an upsert that names it brings
\* it back, by its ID or, a prompt, by its code, and no other row of the same batch
\* does; and an update that asks for deleted rows leaves it deleted.  No list holds
\* it unless asked to, no page is longer than its limit, and the version that
\* RenderByCode renders is not deleted when it is read; its prompt was not when it
\* was read, and may be by then (dao.go:71-296, 324-533, renderer.go:19-51).
DeletedStaysDeleted == [][DeletedStep]_promptVars
=============================================================================
