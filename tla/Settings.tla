------------------------------- MODULE Settings -------------------------------
(***************************************************************************)
(* One setting (settings/setting.go): its row, the cache in front of it    *)
(* and the goroutines or processes that read and write it.  The cache is   *)
(* one of cache/memory, cache/mysql and cache/redis.  A value is the       *)
(* number of the write that made it, the text meant (a word or none) and   *)
(* how many times that text is encrypted.                                  *)
(***************************************************************************)
EXTENDS Integers, FiniteSets

CONSTANTS SgReaders, SgWriters,
          SgMaxWrites,  \* bound: writes of the row
          SgMaxVersion, \* bound: versions of a row of the MySQL cache
          SgMaxFaults   \* bound: failing requests to the cache or the database

ASSUME SgAssumption == SgMaxWrites \in Nat /\ SgMaxVersion \in Nat /\ SgMaxFaults \in Nat

VARIABLES sgKind,   \* "memory", "mysql" or "redis"
          sgSecret, \* the value type is secret or password
          sgRow,    \* the row
          sgCache,  \* the cached entry: value, whether its time is over, version
          sgPc, sgVal, sgVer, sgStart, \* of each process
          sgKey,    \* the cipher accepts secretAESKey: 16, 24 or 32 bytes
          sgFaults, \* failures left
          sgRaced   \* history: the entry of the cache was put in or left there late

settingVars == <<sgKind, sgSecret, sgRow, sgCache, sgPc, sgVal, sgVer, sgStart, sgKey,
                 sgFaults, sgRaced>>

SgProcs == SgReaders \cup SgWriters
NoVal == [n |-> 0, text |-> "none", enc |-> 0]
NoEntry == [val |-> NoVal, over |-> FALSE, ver |-> 0]
SgValues == [n : 0..SgMaxWrites, text : {"none", "word"}, enc : 0..2]
SgPcs == {"idle", "db", "put", "update", "done", "upsert", "delete", "other"}

\* The value column is the empty string.
Blank(v) == v.text = "none" /\ v.enc = 0

\* A text with the prefix of encrypted ones stays as it is, and so does one that
\* the cipher refuses to encrypt.
EncryptSecret(v) == IF v.enc > 0 \/ ~sgKey THEN v ELSE [v EXCEPT !.enc = @ + 1]

\* A text that cannot be decrypted comes out as the ciphertext without its prefix.
DecryptSecret(v) ==
  IF v.enc = 0 THEN v
  ELSE [v EXCEPT !.enc = @ - 1, !.text = IF sgKey THEN @ ELSE "ciphertext"]

\* The hook that runs on Create and on Updates.
BeforeSave(v) == IF sgSecret THEN EncryptSecret(v) ELSE v

\* What GetValue makes of a row or of a cached copy of one.
SecretValue(v) == IF sgSecret THEN DecryptSecret(v) ELSE v

SgTypeOK ==
  /\ sgKind \in {"memory", "mysql", "redis"} /\ sgSecret \in BOOLEAN
  /\ sgRaced \in BOOLEAN /\ sgKey \in BOOLEAN
  /\ sgRow \in SgValues
  /\ sgCache \in [val : SgValues, over : BOOLEAN, ver : 0..SgMaxVersion]
  /\ sgPc \in [SgProcs -> SgPcs] /\ sgVal \in [SgProcs -> SgValues]
  /\ sgVer \in [SgProcs -> 0..SgMaxVersion] /\ sgStart \in [SgProcs -> 0..SgMaxWrites]
  /\ sgFaults \in 0..SgMaxFaults

SgInit ==
  /\ sgKind \in {"memory", "mysql", "redis"} /\ sgSecret \in BOOLEAN
  /\ sgRow = NoVal /\ sgCache = NoEntry /\ sgRaced = FALSE /\ sgKey \in BOOLEAN
  /\ sgPc = [p \in SgProcs |-> "idle"] /\ sgVal = [p \in SgProcs |-> NoVal]
  /\ sgVer = [p \in SgProcs |-> 0] /\ sgStart = [p \in SgProcs |-> 0]
  /\ sgFaults = SgMaxFaults

SgGo(p, from, to) == sgPc[p] = from /\ sgPc' = [sgPc EXCEPT ![p] = to]
SgFault == sgFaults > 0 /\ sgFaults' = sgFaults - 1
Writing == \E p \in SgWriters : sgPc[p] # "idle"
Entry == sgCache # NoEntry

\* What the cache answers to Get: memory.go assigns its own parameter, so the
\* caller sees nothing; mysql.go refuses an entry whose time is not over and
\* serves one whose time is.
MemoryGet == NoVal
MysqlGet == IF sgCache.over THEN sgCache.val ELSE NoVal
RedisGet == sgCache.val
CacheGet == CASE sgKind = "memory" -> MemoryGet
              [] sgKind = "mysql" -> MysqlGet
              [] sgKind = "redis" -> RedisGet

\* Get: a cached value that is not empty is the answer, unless the cache fails.
Get(p) ==
  /\ \/ /\ ~Blank(CacheGet) /\ SgGo(p, "idle", "done") /\ UNCHANGED sgFaults
        /\ sgVal' = [sgVal EXCEPT ![p] = CacheGet]
        /\ sgStart' = [sgStart EXCEPT ![p] = IF Writing \/ sgRaced THEN 0 ELSE sgRow.n]
     \/ /\ SgGo(p, "idle", "db") /\ UNCHANGED sgVal
        /\ IF Blank(CacheGet) THEN UNCHANGED sgFaults ELSE SgFault
        /\ sgStart' = [sgStart EXCEPT ![p] = IF Writing THEN 0 ELSE sgRow.n]
  /\ UNCHANGED <<sgKind, sgSecret, sgRow, sgCache, sgVer, sgKey, sgRaced>>

\* Otherwise the row is, and it is put into the cache unless it is empty.
GetRow(p) ==
  /\ \/ /\ sgRow.n > 0 /\ SgGo(p, "db", IF Blank(sgRow) THEN "done" ELSE "put")
        /\ sgVal' = [sgVal EXCEPT ![p] = sgRow] /\ UNCHANGED <<sgFaults, sgStart>>
     \/ /\ SgGo(p, "db", "idle") /\ UNCHANGED sgVal
        /\ sgStart' = [sgStart EXCEPT ![p] = 0]
        /\ IF sgRow.n = 0 THEN UNCHANGED sgFaults ELSE SgFault
  /\ UNCHANGED <<sgKind, sgSecret, sgRow, sgCache, sgVer, sgKey, sgRaced>>

Late(p) == sgRaced' = (sgVal[p] # sgRow)

Stored(p) == sgCache' = [val |-> sgVal[p], over |-> FALSE, ver |-> 0] /\ Late(p)

MemoryCacheSet(p) == sgKind = "memory" /\ Stored(p) /\ UNCHANGED sgFaults
RedisCacheSet(p) ==
  /\ sgKind = "redis"
  /\ \/ Stored(p) /\ UNCHANGED sgFaults
     \/ SgFault /\ UNCHANGED <<sgCache, sgRaced>>

\* Set of the memory and the Redis cache; Get does not look at its error.
CacheSet(p) ==
  /\ SgGo(p, "put", "done")
  /\ MemoryCacheSet(p) \/ RedisCacheSet(p)
  /\ UNCHANGED <<sgKind, sgSecret, sgRow, sgVal, sgVer, sgStart, sgKey>>

\* Set of the MySQL cache: getCacheVal, and then Create when there was no row
\* or an update of the row that has the version it read.
MysqlSetRead(p) ==
  /\ sgKind = "mysql" /\ SgGo(p, "put", "update")
  /\ sgVer' = [sgVer EXCEPT ![p] = sgCache.ver]
  /\ UNCHANGED <<sgKind, sgSecret, sgRow, sgCache, sgVal, sgStart, sgKey, sgFaults, sgRaced>>

MysqlSetWrite(p) ==
  /\ SgGo(p, "update", "done")
  /\ IF sgVer[p] = sgCache.ver /\ sgCache.ver < SgMaxVersion
     THEN sgCache' = [val |-> sgVal[p], over |-> FALSE, ver |-> sgVer[p] + 1] /\ Late(p)
     ELSE UNCHANGED <<sgCache, sgRaced>>
  /\ sgVer' = [sgVer EXCEPT ![p] = 0]
  /\ UNCHANGED <<sgKind, sgSecret, sgRow, sgVal, sgStart, sgKey, sgFaults>>

GetReturn(p) ==
  /\ SgGo(p, "done", "idle")
  /\ sgVal' = [sgVal EXCEPT ![p] = NoVal] /\ sgStart' = [sgStart EXCEPT ![p] = 0]
  /\ UNCHANGED <<sgKind, sgSecret, sgRow, sgCache, sgVer, sgKey, sgFaults, sgRaced>>

Dropped == sgCache' = NoEntry /\ sgRaced' = FALSE /\ UNCHANGED sgFaults

\* The entry stays, with a value that is perhaps no longer the row.
Left == sgRaced' = (sgRaced \/ (Entry /\ sgCache.val # sgRow)) /\ UNCHANGED sgCache
DropFails == Entry /\ SgFault /\ Left

MemoryCacheDelete == sgKind = "memory" /\ Dropped
MysqlCacheDelete == sgKind = "mysql" /\ (Dropped \/ DropFails)
RedisCacheDelete == sgKind = "redis" /\ (Dropped \/ DropFails)

\* Delete from the cache; its error is not looked at.
CacheDelete == MemoryCacheDelete \/ MysqlCacheDelete \/ RedisCacheDelete

Write(x) == sgRow' = BeforeSave([n |-> sgRow.n + 1, text |-> x.text, enc |-> x.enc])

\* UpsertSetting: the cached copy goes first, the row is written after that.
UpsertSetting(p) ==
  /\ SgGo(p, "idle", "upsert") /\ CacheDelete
  /\ UNCHANGED <<sgKind, sgSecret, sgRow, sgVal, sgVer, sgStart, sgKey>>

UpsertCreate(p, x) ==
  /\ SgGo(p, "upsert", "idle")
  /\ \/ sgRow.n < SgMaxWrites /\ Write(x) /\ sgRaced' = Entry /\ UNCHANGED sgFaults
     \/ SgFault /\ UNCHANGED <<sgRow, sgRaced>>
  /\ UNCHANGED <<sgKind, sgSecret, sgCache, sgVal, sgVer, sgStart, sgKey>>

\* Updates: the row is written first, and the cached copy goes after that.  An
\* item with an ID is found by it; named says whether it has group and key too,
\* which name the copy.
Updates(p, x, named) ==
  /\ SgGo(p, "idle", IF named THEN "delete" ELSE "other")
  /\ sgRow.n > 0 /\ sgRow.n < SgMaxWrites /\ Write(x)
  /\ UNCHANGED <<sgKind, sgSecret, sgCache, sgVal, sgVer, sgStart, sgKey, sgFaults, sgRaced>>

UpdatesFails(p) ==
  /\ sgPc[p] = "idle" /\ sgRow.n > 0 /\ SgFault
  /\ UNCHANGED <<sgKind, sgSecret, sgRow, sgCache, sgPc, sgVal, sgVer, sgStart, sgKey, sgRaced>>

UpdatesKeepsCopy(p) ==
  /\ SgGo(p, "delete", "idle")
  /\ UNCHANGED <<sgKind, sgSecret, sgRow, sgCache, sgVal, sgVer, sgStart, sgKey, sgFaults, sgRaced>>

UpdatesDelete(p) ==
  /\ \/ SgGo(p, "delete", "idle") /\ CacheDelete
     \/ SgGo(p, "other", "idle") /\ Left /\ UNCHANGED sgFaults
  /\ UNCHANGED <<sgKind, sgSecret, sgRow, sgVal, sgVer, sgStart, sgKey>>

\* The key is replaced by one that the cipher takes, or by one that it does not
\* (that another key of the right length decrypts to something else is left out).
SetSecretAESKey ==
  /\ sgSecret /\ SgFault /\ sgKey' = ~sgKey
  /\ UNCHANGED <<sgKind, sgSecret, sgRow, sgCache, sgPc, sgVal, sgVer, sgStart, sgRaced>>

\* External: five minutes pass over the entry; Redis drops it then.
SgExpire ==
  /\ Entry /\ ~sgCache.over
  /\ IF sgKind = "redis" THEN sgCache' = NoEntry /\ sgRaced' = FALSE
     ELSE sgCache' = [sgCache EXCEPT !.over = TRUE] /\ UNCHANGED sgRaced
  /\ UNCHANGED <<sgKind, sgSecret, sgRow, sgPc, sgVal, sgVer, sgStart, sgKey, sgFaults>>

\* What callers write: a text, or for a secret also one encrypted before.
SgInputs ==
  {[text |-> "none", enc |-> 0], [text |-> "word", enc |-> 0]} \cup
  {x \in {[text |-> "word", enc |-> 1]} : sgSecret}

SgNext ==
  \/ SgExpire \/ SetSecretAESKey
  \/ \E p \in SgReaders : Get(p) \/ GetRow(p) \/ CacheSet(p) \/ MysqlSetRead(p)
                          \/ MysqlSetWrite(p) \/ GetReturn(p)
  \/ \E p \in SgWriters : UpsertSetting(p) \/ UpdatesDelete(p) \/ UpdatesFails(p)
       \/ \E x \in SgInputs :
            UpsertCreate(p, x) \/ \E named \in BOOLEAN : Updates(p, x, named)

SgSpec == SgInit /\ [][SgNext]_settingVars

\* A Get that begins when no write is going on answers with the value of the
\* last write or a later one, unless it is served a copy that a reader put back
\* after the writer had dropped it, that a writer wrote under, or that outlived a
\* failing delete or an update by ID alone.  The harm ends with that copy: every
\* other copy is the row once the writes are done.  And a reader gets the text
\* that was written, decrypted once, encrypted by the caller or by BeforeSave or
\* stored in clear because the cipher refused the key, unless the key is unusable
\* when an encrypted value is read (setting.go:53-71, 122-163, 219-242).
SettingsFresh ==
  /\ Entry /\ ~sgRaced /\ ~Writing => sgCache.val = sgRow
  /\ \A p \in SgReaders : sgPc[p] = "done" =>
       /\ sgVal[p].n >= sgStart[p]
       /\ sgKey \/ sgVal[p].enc = 0 => SecretValue(sgVal[p]) = [sgVal[p] EXCEPT !.enc = 0]
=============================================================================
