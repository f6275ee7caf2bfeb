------------------------------ MODULE RedisCache ------------------------------
(***************************************************************************)
(* The Redis helpers of dbtools/redispool/redis_cache.go on one key of each*)
(* type: a string, two lists, a sorted set with one member that is counted *)
(* up, or a hash.  A command runs and is answered, runs and its answer is *)
(* lost, or does not run: the last two are an error to the caller.         *)
(***************************************************************************)
EXTENDS Integers, Sequences, FiniteSets

CONSTANTS RcMaxPush,  \* bound: values pushed, numbered in this order
          RcMaxScore, \* bound: calls of ZIncrBy
          RcMaxFaults \* bound: answers lost and commands not run

ASSUME RcAssumption == RcMaxPush \in Nat /\ RcMaxScore \in Nat /\ RcMaxFaults \in Nat

VARIABLES rcType,   \* the type of the key that is used: "string", "list", "zset" or "hash"
          rcStr,    \* the string key: "none", or what it holds
          rcList,   \* the lists "src" and "dst", from the left
          rcScore,  \* the score of the member, -1 without it
          rcHash,   \* [field -> value], partial
          rcPushed, \* values pushed so far
          rcTaken,  \* history: values an RPop returned or an LRem removed
          rcLost,   \* history: values an RPop took whose answer was lost
          rcTries, rcHits, \* history: calls of ZIncrBy, those that returned no error
          rcPc,     \* IsExistKey is between its two commands
          rcGone,   \* history: the key went away, or TTL failed, meanwhile
          rcFaults, \* faults left
          rcOut     \* the last answer

cacheVars == <<rcType, rcStr, rcList, rcScore, rcHash, rcPushed, rcTaken, rcLost, rcTries,
               rcHits, rcPc, rcGone, rcFaults, rcOut>>

NoReply == [op |-> "none", ok |-> TRUE, val |-> << >>]
Said(op, ok, val) == rcOut' = [op |-> op, ok |-> ok, val |-> val]

RcTypeOK ==
  /\ rcStr \in {"none", "text", "json"} /\ rcScore \in -1..RcMaxScore
  /\ \A l \in {"src", "dst"} : rcList[l] \in Seq(1..RcMaxPush)
  /\ rcPushed \in 0..RcMaxPush /\ rcTaken \subseteq 1..RcMaxPush
  /\ rcLost \subseteq 1..RcMaxPush /\ rcTries \in 0..RcMaxScore /\ rcHits \in 0..RcMaxScore
  /\ rcPc \in BOOLEAN /\ rcGone \in BOOLEAN /\ rcFaults \in 0..RcMaxFaults

RcInit ==
  /\ rcType \in {"string", "list", "zset", "hash"}
  /\ rcStr = "none" /\ rcList = [l \in {"src", "dst"} |-> << >>] /\ rcScore = -1
  /\ rcHash = << >> /\ rcPushed = 0 /\ rcTaken = {} /\ rcLost = {} /\ rcTries = 0
  /\ rcHits = 0 /\ rcPc = FALSE /\ rcGone = FALSE /\ rcFaults = RcMaxFaults
  /\ rcOut = NoReply

stringVars == <<rcStr, rcPc, rcGone>>
listVars == <<rcList, rcPushed, rcTaken, rcLost>>
scoreVars == <<rcScore, rcTries, rcHits>>

Fails == rcFaults > 0 /\ rcFaults' = rcFaults - 1
\* A command that writes vars: Ran says what it does, with or without an answer.
Command(op, val, vars, Ran(_)) ==
  \/ Ran(TRUE) /\ Said(op, TRUE, val) /\ UNCHANGED rcFaults
  \/ Fails /\ Said(op, FALSE, << >>) /\ (Ran(FALSE) \/ UNCHANGED vars)
\* A command that only reads vars.
Reads(op, val, vars) ==
  /\ (Said(op, TRUE, val) /\ UNCHANGED rcFaults) \/ (Fails /\ Said(op, FALSE, << >>))
  /\ UNCHANGED vars
Refused(op, vars) == Said(op, FALSE, << >>) /\ UNCHANGED <<rcFaults, vars>>

-----------------------------------------------------------------------------
(* The string key.  While IsExistKey is between its commands, rcGone notes that the key went. *)

Becomes(val) ==
  /\ rcStr' = val /\ rcGone' = (rcGone \/ (rcPc /\ val = "none")) /\ UNCHANGED rcPc

SetEx == Command("set", << >>, stringVars, LAMBDA ok : Becomes("text"))
SetNX == Command("setnx", <<rcStr = "none">>, stringVars,
                 LAMBDA ok : Becomes(IF rcStr = "none" THEN "text" ELSE rcStr))
DelString == Command("del", << >>, stringVars, LAMBDA ok : Becomes("none"))
\* External: the key expires.
StringExpires == rcStr # "none" /\ Becomes("none") /\ UNCHANGED <<rcFaults, rcOut>>

\* A value that JSON cannot write is an error before anything is sent, ...
SetJSON == \/ Command("set", << >>, stringVars, LAMBDA ok : Becomes("json"))
           \/ Refused("set", stringVars)
\* ... and so is what JSON cannot read after it was received.
GetJSON == IF rcStr = "json" THEN Reads("json", <<rcStr>>, stringVars)
                             ELSE Refused("json", stringVars)
\* A key that is not there is the error redis.Nil.
GetString == IF rcStr # "none" THEN Reads("get", <<rcStr>>, stringVars)
                               ELSE Refused("get", stringVars)

\* IsExistKey: EXISTS, which counts as FALSE when it fails, ...
IsExist ==
  /\ ~rcPc /\ UNCHANGED rcStr
  /\ \/ rcStr # "none" /\ rcPc' = TRUE /\ rcGone' = FALSE /\ rcOut' = NoReply
        /\ UNCHANGED rcFaults
     \/ /\ (rcStr = "none" /\ UNCHANGED rcFaults) \/ Fails
        /\ Said("exists", TRUE, <<FALSE, "-2">>) /\ UNCHANGED <<rcPc, rcGone>>

\* ... and TTL, which is 0 when it fails and -2 for a key that has gone.
TTL ==
  /\ rcPc /\ rcPc' = FALSE /\ UNCHANGED rcStr
  /\ \/ /\ Said("exists", TRUE, <<TRUE, IF rcStr = "none" THEN "-2" ELSE "left">>)
        /\ UNCHANGED <<rcFaults, rcGone>>
     \/ Fails /\ Said("exists", TRUE, <<TRUE, "0">>) /\ rcGone' = TRUE

StringCall ==
  \/ SetEx \/ SetNX \/ DelString \/ StringExpires \/ SetJSON \/ GetJSON \/ GetString
  \/ IsExist \/ TTL

-----------------------------------------------------------------------------
(* The lists. *)

Rightmost(l) == rcList[l][Len(rcList[l])]
WithoutRightmost(l) == SubSeq(rcList[l], 1, Len(rcList[l]) - 1)

LPush ==
  /\ rcPushed < RcMaxPush
  /\ Command("lpush", << >>, listVars, LAMBDA ok :
       /\ rcList' = [rcList EXCEPT !["src"] = <<rcPushed + 1>> \o @]
       /\ rcPushed' = rcPushed + 1 /\ UNCHANGED <<rcTaken, rcLost>>)

RPop(l) ==
  LET v == Rightmost(l) IN
  IF rcList[l] = << >> THEN Refused("rpop", listVars)
  ELSE Command("rpop", <<v>>, listVars, LAMBDA ok :
         /\ rcList' = [rcList EXCEPT ![l] = WithoutRightmost(l)]
         /\ rcTaken' = IF ok THEN rcTaken \cup {v} ELSE rcTaken
         /\ rcLost' = IF ok THEN rcLost ELSE rcLost \cup {v}
         /\ UNCHANGED rcPushed)

RPopLPush ==
  IF rcList["src"] = << >> THEN Refused("rpoplpush", listVars)
  ELSE Command("rpoplpush", <<Rightmost("src")>>, listVars, LAMBDA ok :
         /\ rcList' = [rcList EXCEPT !["src"] = WithoutRightmost("src"),
                                     !["dst"] = <<Rightmost("src")>> \o @]
         /\ UNCHANGED <<rcPushed, rcTaken, rcLost>>)

\* LRem of a value that was moved and is done: whatever the count, there is at
\* most one.
LRem(v) ==
  LET dst == rcList["dst"]
      at == {i \in DOMAIN dst : dst[i] = v}
  IN  Command("lrem", <<Cardinality(at)>>, listVars, LAMBDA ok :
        \/ at = {} /\ UNCHANGED listVars
        \/ \E i \in at :
             /\ rcList' = [rcList EXCEPT !["dst"] = SubSeq(dst, 1, i - 1) \o SubSeq(dst, i + 1, Len(dst))]
             /\ rcTaken' = rcTaken \cup {v} /\ UNCHANGED <<rcPushed, rcLost>>)

ListCall == LPush \/ RPop("src") \/ RPop("dst") \/ RPopLPush \/ \E v \in 1..rcPushed : LRem(v)

-----------------------------------------------------------------------------
(* The sorted set: one member, counted up. *)

ZAddMember ==
  rcScore = -1 /\ Command("zadd", <<1>>, scoreVars, LAMBDA ok :
                     rcScore' = 0 /\ UNCHANGED <<rcTries, rcHits>>)

\* ZIncrBy by 1, which creates a member that is not there with 0.
ZIncrBy ==
  LET new == IF rcScore = -1 THEN 1 ELSE rcScore + 1
      Ran(ok) == rcScore' = new /\ rcHits' = IF ok THEN rcHits + 1 ELSE rcHits
  IN  /\ rcTries < RcMaxScore /\ rcTries' = rcTries + 1
      /\ Command("zincrby", <<new>>, <<rcScore, rcHits>>, Ran)

\* ZRem ends the count.
ZRemMember ==
  Command("zrem", <<IF rcScore = -1 THEN 0 ELSE 1>>, scoreVars, LAMBDA ok :
            rcScore' = -1 /\ rcTries' = 0 /\ rcHits' = 0)

Members(min) == IF rcScore = -1 \/ rcScore < min THEN << >> ELSE <<rcScore>>
ZCount == Reads("zcount", <<Len(Members(0))>>, scoreVars)
ZRange == Reads("zrange", Members(0), scoreVars)
ZRangeByScore(min) == Reads("zrange", Members(min), scoreVars)

ScoreCall ==
  ZAddMember \/ ZIncrBy \/ ZRemMember \/ ZCount \/ ZRange \/ ZRangeByScore(1)

-----------------------------------------------------------------------------
(* The hash. *)

WithField(f, v) == [g \in DOMAIN rcHash \cup {f} |-> IF g = f THEN v ELSE rcHash[g]]

HSet(f, v) == Command("hset", << >>, rcHash, LAMBDA ok : rcHash' = WithField(f, v))
HSetNX(f, v) ==
  Command("hsetnx", <<f \notin DOMAIN rcHash>>, rcHash, LAMBDA ok :
            rcHash' = IF f \in DOMAIN rcHash THEN rcHash ELSE WithField(f, v))
HDel(f) ==
  Command("hdel", << >>, rcHash, LAMBDA ok :
            rcHash' = [g \in DOMAIN rcHash \ {f} |-> rcHash[g]])
HGet(f) == IF f \in DOMAIN rcHash THEN Reads("hget", <<rcHash[f]>>, rcHash)
                                  ELSE Refused("hget", rcHash)
HExists(f) == Reads("hexists", <<f \in DOMAIN rcHash>>, rcHash)

HashCall == \E f \in {"f", "g"} : HSet(f, 1) \/ HSetNX(f, 2) \/ HDel(f) \/ HGet(f) \/ HExists(f)

-----------------------------------------------------------------------------
RcNext ==
  \/ rcType = "string" /\ StringCall /\ UNCHANGED <<rcType, listVars, scoreVars, rcHash>>
  \/ rcType = "list" /\ ListCall /\ UNCHANGED <<rcType, stringVars, scoreVars, rcHash>>
  \/ rcType = "zset" /\ ScoreCall /\ UNCHANGED <<rcType, stringVars, listVars, rcHash>>
  \/ rcType = "hash" /\ HashCall /\ UNCHANGED <<rcType, stringVars, listVars, scoreVars>>

RcSpec == RcInit /\ [][RcNext]_cacheVars

\* A value that was pushed is in one place and leaves in the order it came:
\* waiting in one list, moved to the other by RPopLPush, taken by RPop or LRem,
\* or lost with the answer of an RPop, never with that of an RPopLPush; and a
\* value is only ever ahead of those that were pushed after it.  A count is at
\* least the ZIncrBy calls that returned no error and at most all of them.
\* IsExistKey reports a key with -2 or 0 as its time left only when the key went
\* away, or TTL failed, between its two commands (redis_cache.go:34-129 and
\* 263-271).
ListsKeep ==
  LET src == rcList["src"]
      dst == rcList["dst"]
      In(s) == {s[i] : i \in DOMAIN s}
  IN  /\ In(src) \cup In(dst) \cup rcTaken \cup rcLost = 1..rcPushed
      /\ In(src) \cap In(dst) = {} /\ (In(src) \cup In(dst)) \cap (rcTaken \cup rcLost) = {}
      /\ \A s \in {src, dst} : \A i, j \in DOMAIN s : i < j => s[i] > s[j]
      /\ \A v \in In(src), w \in 1..rcPushed \ In(src) : w < v
      /\ rcScore # -1 => rcHits =< rcScore /\ rcScore =< rcTries
      /\ rcOut.op = "exists" => (rcOut.val[1] /\ rcOut.val[2] # "left" => rcGone)
=============================================================================
