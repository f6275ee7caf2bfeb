------------------------------ MODULE SSEStream ------------------------------
(***************************************************************************)
(* One stream of apis/sseclient: writers, a reader that takes the history  *)
(* with ReadMessages and goes on with BlockRead, and Stop and Close, over  *)
(* the Redis store (redis.go) or the one in memory (memory.go).  Messages  *)
(* are numbered in the order they were written; a Redis entry ID is that   *)
(* number, a position of the memory list is counted from 0.                *)
(***************************************************************************)
EXTENDS Integers, Sequences, Functions

CONSTANTS SseWriters,  \* goroutines that call WriteMessage
          SseMaxMsgs,  \* bound: messages written
          SseMaxRetry  \* blockMaxRetry

ASSUME SseAssumption == SseMaxMsgs \in Nat /\ SseMaxRetry \in Nat

VARIABLES sseKind,    \* which store New chose
          sseList,    \* the messages under the write key; << >> for no key
          sseNum,     \* messages written so far
          sseStop,    \* the stop signal is set
          sseWriter,  \* where each WriteMessage is
          sseStopper, \* where the call of Stop is
          sseReader,  \* where the reader is
          sseFrom,    \* the reader's nextID; -1 for the empty string
          sseQuiet,   \* timeoutCount
          sseSeen,    \* messages the reader was given
          sseBare,    \* history: ReadMessages found no message
          sseCut,     \* history: the list was dropped since the reader began
          sseGrace    \* history: writers past their check when Stop set the signal

sseVars == <<sseKind, sseList, sseNum, sseStop, sseWriter, sseStopper,
             sseReader, sseFrom, sseQuiet, sseSeen, sseBare, sseCut, sseGrace>>

sseStore == <<sseKind, sseList, sseNum, sseStop>>
sseReading == <<sseReader, sseFrom, sseQuiet, sseSeen, sseBare>>

SseTypeOK ==
  /\ sseKind \in {"redis", "memory"}
  /\ sseList \in Seq(1..SseMaxMsgs) /\ sseNum \in 0..SseMaxMsgs
  /\ sseStop \in BOOLEAN /\ sseCut \in BOOLEAN /\ sseBare \in BOOLEAN
  /\ sseWriter \in [SseWriters -> {"idle", "checked"}]
  /\ sseStopper \in {"none", "set", "stopped"}
  /\ sseReader \in {"none", "listing", "check", "read", "ended", "failed"}
  /\ sseFrom \in -1..SseMaxMsgs /\ sseQuiet \in 0..SseMaxRetry
  /\ sseSeen \in Seq(1..SseMaxMsgs)
  /\ sseGrace \subseteq SseWriters

SseInit ==
  /\ sseKind \in {"redis", "memory"}
  /\ sseList = << >> /\ sseNum = 0 /\ sseStop = FALSE
  /\ sseWriter = [w \in SseWriters |-> "idle"] /\ sseStopper = "none"
  /\ sseReader = "none" /\ sseFrom = -1 /\ sseQuiet = 0 /\ sseSeen = << >>
  /\ sseBare = FALSE /\ sseCut = FALSE /\ sseGrace = {}

\* Exist(stopKey): Set of the memory store writes signals, but its Exist
\* looks into dataMap, which never has a stop key.
MemoryExist == FALSE
RedisExist == sseStop
SseExist == IF sseKind = "redis" THEN RedisExist ELSE MemoryExist

SseAppend ==
  sseNum < SseMaxMsgs /\ sseNum' = sseNum + 1 /\ sseList' = Append(sseList, sseNum + 1)

\* The append under the lock.
MemoryWriteMessage == sseKind = "memory" /\ SseAppend

\* XADD, after which EXPIRE may fail; or XADD fails.
RedisWriteMessage ==
  sseKind = "redis" /\ (SseAppend \/ UNCHANGED <<sseNum, sseList>>)

SseCheckSkipped(w) ==
  /\ sseWriter[w] = "idle" /\ sseNum < SseMaxMsgs
  /\ sseWriter' = [sseWriter EXCEPT ![w] = "checked"]
  /\ UNCHANGED <<sseStore, sseReading, sseStopper, sseCut, sseGrace>>

\* WriteMessage asks for the stop signal first ...
SseWriteCheck(w) ==
  /\ sseWriter[w] = "idle" /\ sseNum < SseMaxMsgs /\ ~SseExist
  /\ sseWriter' = [sseWriter EXCEPT ![w] = "checked"]
  /\ UNCHANGED <<sseStore, sseReading, sseStopper, sseCut, sseGrace>>

\* ... and writes, however the event then fares on the writer's own
\* connection.
SseWrite(w) ==
  /\ sseWriter[w] = "checked"
  /\ sseWriter' = [sseWriter EXCEPT ![w] = "idle"]
  /\ MemoryWriteMessage \/ RedisWriteMessage
  /\ sseGrace' = sseGrace \ {w}
  /\ UNCHANGED <<sseKind, sseStop, sseReading, sseStopper, sseCut>>

SseDrop == sseList' = << >> /\ sseCut' = (sseReader # "none")

MemoryDelete == sseKind = "memory" /\ SseDrop
RedisDelete == sseKind = "redis" /\ (SseDrop \/ UNCHANGED <<sseList, sseCut>>)

MemorySet == sseKind = "memory" /\ sseStop' = TRUE
RedisSet == sseKind = "redis" /\ sseStop' = TRUE

\* Stop sets the signal ...
SseStopSet ==
  /\ sseStopper = "none" /\ sseStopper' = "set"
  /\ MemorySet \/ RedisSet
  /\ sseGrace' = {w \in SseWriters : sseWriter[w] = "checked"}
  /\ UNCHANGED <<sseKind, sseList, sseNum, sseWriter, sseReading, sseCut>>

\* ... and deletes the messages.
SseStopDelete ==
  /\ sseStopper = "set" /\ sseStopper' = "stopped"
  /\ MemoryDelete \/ RedisDelete
  /\ UNCHANGED <<sseKind, sseNum, sseStop, sseWriter, sseReading, sseGrace>>

SseClose ==
  /\ sseList # << >>
  /\ MemoryDelete \/ RedisDelete
  /\ UNCHANGED <<sseKind, sseNum, sseStop, sseWriter, sseStopper, sseReading, sseGrace>>

\* The messages expire, in Redis by themselves (external) and in memory at the
\* next read, which drops the signal with them; in Redis the signal lives
\* twice as long.
SseExpire ==
  /\ \/ sseList # << >> /\ SseDrop /\ sseStop' = (sseKind = "redis" /\ sseStop)
     \/ /\ sseKind = "redis" /\ sseStop /\ sseList = << >>
        /\ sseStop' = FALSE /\ UNCHANGED <<sseList, sseCut>>
  /\ UNCHANGED <<sseKind, sseNum, sseWriter, sseStopper, sseReading, sseGrace>>

\* ReadMessages in memory: the position of the last message, and all of them.
MemoryReadMessages ==
  /\ sseKind = "memory" /\ sseReader = "none" /\ sseReader' = "check"
  /\ sseFrom' = Len(sseList) - 1 /\ sseSeen' = sseList /\ sseBare' = (sseList = << >>)
  /\ UNCHANGED <<sseStore, sseWriter, sseStopper, sseQuiet, sseCut, sseGrace>>

\* ReadMessages in Redis finds the latest ID ...
RedisReadLatest ==
  /\ sseKind = "redis" /\ sseReader = "none" /\ sseBare' = (sseList = << >>)
  /\ \/ sseReader' = "failed" /\ UNCHANGED sseFrom
     \/ /\ sseReader' = IF sseList = << >> THEN "check" ELSE "listing"
        /\ sseFrom' = IF sseList = << >> THEN -1 ELSE sseList[Len(sseList)]
  /\ UNCHANGED <<sseStore, sseWriter, sseStopper, sseQuiet, sseSeen, sseCut, sseGrace>>

\* ... and, with a second command, the entries up to it: the first ones, as IDs
\* grow along the list.
RedisReadRange ==
  /\ sseReader = "listing"
  /\ \/ sseReader' = "failed" /\ UNCHANGED sseSeen
     \/ /\ sseReader' = "check"
        /\ sseSeen' = Restrict(sseList, {i \in DOMAIN sseList : sseList[i] =< sseFrom})
  /\ UNCHANGED <<sseStore, sseWriter, sseStopper, sseFrom, sseQuiet, sseBare, sseCut, sseGrace>>

\* The head of BlockRead's loop: stopped, timed out often enough, or the
\* context is done; Exist may fail in Redis, and XREAD refuses an empty ID.
SseBlockCheck ==
  /\ sseReader = "check"
  /\ \/ sseReader' = "ended"
     \/ sseReader' = "failed" /\ sseKind = "redis"
     \/ /\ sseReader' = "read" /\ ~SseExist /\ sseQuiet < SseMaxRetry
        /\ sseKind = "redis" => sseFrom # -1
  /\ UNCHANGED <<sseStore, sseWriter, sseStopper, sseFrom, sseQuiet, sseSeen, sseBare, sseCut,
                 sseGrace>>

\* ReadAfterID: the first later entry and its ID, or nothing, which is how an
\* XREAD that timed out ends.  The memory store reads an empty ID as
\* position 0.
RedisReadAfterID ==
  LET later == {m \in Range(sseList) : m > sseFrom}
  IN  {[id |-> m, msg |-> m] : m \in {k \in later : \A l \in later : k =< l}}

MemoryReadAfterID ==
  LET idx == IF sseFrom = -1 THEN 0 ELSE sseFrom
  IN  IF idx + 1 >= Len(sseList) THEN {} ELSE {[id |-> idx + 1, msg |-> sseList[idx + 2]]}

ReadAfterID == IF sseKind = "redis" THEN RedisReadAfterID ELSE MemoryReadAfterID

\* Mutant: the position is not moved on.
SseBlockReadAgain ==
  /\ sseReader = "read" /\ Len(sseSeen) < SseMaxMsgs
  /\ sseReader' = "check" /\ UNCHANGED sseFrom
  /\ \/ ReadAfterID = {} /\ sseQuiet' = sseQuiet + 1 /\ UNCHANGED sseSeen
     \/ \E r \in ReadAfterID : sseSeen' = Append(sseSeen, r.msg) /\ sseQuiet' = 0
  /\ UNCHANGED <<sseStore, sseWriter, sseStopper, sseBare, sseCut, sseGrace>>

\* The rest of the loop: nothing came until the block timed out, or a message,
\* which is sent to the reader; the read and the send may fail.
SseBlockRead ==
  /\ sseReader = "read"
  /\ \/ /\ ReadAfterID = {} /\ sseReader' = "check"
        /\ sseQuiet' = sseQuiet + 1 /\ UNCHANGED <<sseFrom, sseSeen>>
     \/ \E r \in ReadAfterID :
          /\ sseReader' = "check" /\ sseQuiet' = 0
          /\ sseSeen' = Append(sseSeen, r.msg) /\ sseFrom' = r.id
     \/ /\ sseKind = "redis" \/ ReadAfterID # {}
        /\ sseReader' = "failed" /\ UNCHANGED <<sseFrom, sseQuiet, sseSeen>>
  /\ UNCHANGED <<sseStore, sseWriter, sseStopper, sseBare, sseCut, sseGrace>>

SseNext ==
  \/ \E w \in SseWriters : SseWriteCheck(w) \/ SseWrite(w)
  \/ SseStopSet \/ SseStopDelete \/ SseClose \/ SseExpire
  \/ MemoryReadMessages \/ RedisReadLatest \/ RedisReadRange
  \/ SseBlockCheck \/ SseBlockRead

SseSpec == SseInit /\ [][SseNext]_sseVars

\* How many messages of the stream a reader never gets: the memory store reads the
\* empty ID that ReadMessages returns for an empty stream as position 0, and goes
\* on behind it.
SseSkipped == IF sseKind = "memory" /\ sseBare THEN 1 ELSE 0

\* The reader is given every message once and in order: what ReadMessages
\* returned and what BlockRead added are the messages of the stream from its first
\* one on, without a gap, as long as the stream was not dropped meanwhile
\* (client.go:145-191, redis.go:44-99).  A reader of the memory store that found
\* no message with ReadMessages gets them from the second one on (memory.go:80-84).
ReaderMissesNothing ==
  /\ \A i, j \in DOMAIN sseSeen : i < j => sseSeen[i] < sseSeen[j]
  /\ ~sseCut => \A i \in DOMAIN sseSeen : /\ i + SseSkipped \in DOMAIN sseList
                                         /\ sseSeen[i] = sseList[i + SseSkipped]

\* After Stop has set the signal in Redis, the stream grows only by writers
\* that had asked for the signal before (client.go:106-115).
StopStopsWriters ==
  [][sseKind = "redis" /\ sseStop /\ sseStop' /\ sseNum' > sseNum =>
       \E w \in sseGrace : sseWriter[w] = "checked" /\ sseWriter'[w] = "idle"]_sseVars
=============================================================================
