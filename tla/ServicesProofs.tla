--------------------------- MODULE ServicesProofs ---------------------------
(***************************************************************************)
(* Proofs about request and reply and about event streams, for any calls,  *)
(* messages and readers, and about the six components of MCServices        *)
(* together; GoroutineProofs has the other four.                           *)
(***************************************************************************)
EXTENDS MCServices, GoroutineProofs, SequenceTheorems

(***************************************************************************)
(* Request and reply.                                                      *)
(***************************************************************************)
RqTakers(m) == {c \in RqCalls : rqGot[c] = m}
RqHeld(m) == IF rqHand.msg = m THEN 1 ELSE 0

\* A reply is in the reply queue, in the consumer's hands, with a call, or lost.
RqCounted ==
  \A m \in RqCalls :
    /\ IsFiniteSet(RqTakers(m))
    /\ Cardinality(RqTakers(m)) + rqWire[m] + RqHeld(m) =< rqSent[m]

\* The consumer holds a reply together with a channel registered under its ID,
\* and a call has got nothing before it returns.
RqMatched ==
  /\ rqHand # RqEmpty =>
       /\ rqHand.msg \in RqCalls /\ rqHand.ch \in RqCalls
       /\ RqCorrID[rqHand.ch] = RqCorrID[rqHand.msg]
  /\ \A c \in RqCalls :
       rqGot[c] # RqNone =>
         /\ rqPc[c] \in {"return", "close", "returned"}
         /\ RqCorrID[rqGot[c]] = RqCorrID[c]

\* An entry of responseCh belongs to a call that has not yet deleted it.
RqRegistered ==
  /\ \A c \in rqClosed : rqPc[c] = "returned"
  /\ \A i \in RqIds : rqCh[i] # RqNone =>
       /\ RqCorrID[rqCh[i]] = i
       /\ rqPc[rqCh[i]] \in {"registered", "published", "waiting", "return"}

RqInv == RqTypeOK /\ RqMatched /\ RqRegistered /\ RqCounted

\* Every step of request and reply keeps the types.
LEMMA RqTypeStep == RqTypeOK /\ [RqNext]_rpcVars => RqTypeOK'
<1> SUFFICES ASSUME RqTypeOK, [RqNext]_rpcVars PROVE RqTypeOK'
  BY Zenon
<1> USE RqAssumption DEF RqTypeOK, RqGo
<1>1. ASSUME NEW c \in RqCalls, SendRequest(c) PROVE RqTypeOK'
  BY <1>1, Zenon DEF SendRequest
<1>2. ASSUME NEW c \in RqCalls, Publish(c) PROVE RqTypeOK'
  BY <1>2, Zenon DEF Publish
<1>3. ASSUME NEW c \in RqCalls, AwaitReply(c) \/ RequestTimeout(c) PROVE RqTypeOK'
  BY <1>3, ZenonT(60) DEF AwaitReply, RequestTimeout
<1>4. ASSUME NEW c \in RqCalls, Unregister(c) PROVE RqTypeOK'
  BY <1>4, Zenon DEF Unregister
<1>5. ASSUME NEW c \in RqCalls, CloseCh(c) PROVE RqTypeOK'
  BY <1>5, Zenon DEF CloseCh
<1>6. ASSUME NEW c \in RqCalls, RemoteReply(c) PROVE RqTypeOK'
  BY <1>6, SMTT(60) DEF RemoteReply
<1>7. ASSUME NEW c \in RqCalls, ConsumeReply(c) PROVE RqTypeOK'
  BY <1>7, SMTT(60) DEF ConsumeReply, RqEmpty
<1>8. CASE DeliverReply
  BY <1>8, ZenonT(60) DEF DeliverReply, RqEmpty
<1>9. CASE UNCHANGED rpcVars
  BY <1>9 DEF rpcVars
<1> QED BY <1>1, <1>2, <1>3, <1>4, <1>5, <1>6, <1>7, <1>8, <1>9, ZenonT(60) DEF RqNext, RqCallStep

\* Every step keeps replies with the calls of their correlation ID.
LEMMA RqMatchedStep ==
  RqTypeOK /\ RqMatched /\ RqRegistered /\ [RqNext]_rpcVars => RqMatched'
<1> SUFFICES ASSUME RqTypeOK, RqMatched, RqRegistered, [RqNext]_rpcVars PROVE RqMatched'
  OBVIOUS
<1> USE RqAssumption DEF RqTypeOK, RqMatched, RqGo
<1>1. ASSUME NEW c \in RqCalls, SendRequest(c) PROVE RqMatched'
  BY <1>1 DEF SendRequest
<1>2. ASSUME NEW c \in RqCalls, Publish(c) PROVE RqMatched'
  BY <1>2 DEF Publish
<1>3. ASSUME NEW c \in RqCalls, AwaitReply(c) \/ RequestTimeout(c) PROVE RqMatched'
  BY <1>3 DEF AwaitReply, RequestTimeout
<1>4. ASSUME NEW c \in RqCalls, Unregister(c) PROVE RqMatched'
  BY <1>4 DEF Unregister
<1>5. ASSUME NEW c \in RqCalls, CloseCh(c) PROVE RqMatched'
  BY <1>5 DEF CloseCh
<1>6. ASSUME NEW c \in RqCalls, RemoteReply(c) PROVE RqMatched'
  BY <1>6 DEF RemoteReply
<1>7. ASSUME NEW c \in RqCalls, ConsumeReply(c) PROVE RqMatched'
  BY <1>7 DEF ConsumeReply, RqRegistered, RqEmpty
<1>8. CASE DeliverReply
  <2>1. rqHand.ch \in RqCalls /\ rqHand.msg \in RqCalls
        /\ RqCorrID[rqHand.ch] = RqCorrID[rqHand.msg]
    BY <1>8 DEF DeliverReply
  <2>2. \A c \in RqCalls : rqGot'[c] # RqNone =>
          /\ rqPc'[c] \in {"return", "close", "returned"}
          /\ RqCorrID[rqGot'[c]] = RqCorrID[c]
    BY <1>8, <2>1, ZenonT(60) DEF DeliverReply
  <2> QED BY <1>8, <2>2 DEF DeliverReply
<1>9. CASE UNCHANGED rpcVars
  BY <1>9 DEF rpcVars
<1> QED BY <1>1, <1>2, <1>3, <1>4, <1>5, <1>6, <1>7, <1>8, <1>9, SMTT(60) DEF RqNext, RqCallStep

\* An entry goes with its call, or before it when a later call took the ID over.
LEMMA RqRegisteredStep == RqTypeOK /\ RqRegistered /\ [RqNext]_rpcVars => RqRegistered'
<1> SUFFICES ASSUME RqTypeOK, RqRegistered, [RqNext]_rpcVars PROVE RqRegistered'
  OBVIOUS
<1> USE RqAssumption DEF RqTypeOK, RqRegistered, RqGo
<1>1. ASSUME NEW c \in RqCalls, SendRequest(c) PROVE RqRegistered'
  BY <1>1 DEF SendRequest
<1>2. ASSUME NEW c \in RqCalls, Publish(c) PROVE RqRegistered'
  BY <1>2 DEF Publish
<1>3. ASSUME NEW c \in RqCalls, AwaitReply(c) \/ RequestTimeout(c) PROVE RqRegistered'
  BY <1>3 DEF AwaitReply, RequestTimeout
<1>4. ASSUME NEW c \in RqCalls, Unregister(c) PROVE RqRegistered'
  BY <1>4 DEF Unregister
<1>5. ASSUME NEW c \in RqCalls, CloseCh(c) PROVE RqRegistered'
  BY <1>5, SMTT(60) DEF CloseCh
<1>6. ASSUME NEW c \in RqCalls, RemoteReply(c) \/ ConsumeReply(c) PROVE RqRegistered'
  BY <1>6 DEF RemoteReply, ConsumeReply
<1>7. CASE DeliverReply
  <2>1. UNCHANGED <<rqCh, rqClosed>>
    BY <1>7 DEF DeliverReply
  <2>2. \A c \in RqCalls : \/ rqPc'[c] = rqPc[c]
                           \/ rqPc[c] = "waiting" /\ rqPc'[c] = "return"
    <3>1. CASE UNCHANGED rqPc
      BY <3>1
    <3>2. CASE rqPc[rqHand.ch] = "waiting" /\ rqPc' = [rqPc EXCEPT ![rqHand.ch] = "return"]
      <4> HIDE DEF RqRegistered
      <4> QED BY <3>2
    <3> QED BY <1>7, <3>1, <3>2, ZenonT(60) DEF DeliverReply
  <2> QED BY <2>1, <2>2
<1>8. CASE UNCHANGED rpcVars
  BY <1>8, SMTT(60) DEF rpcVars
<1> QED BY <1>1, <1>2, <1>3, <1>4, <1>5, <1>6, <1>7, <1>8, SMTT(60) DEF RqNext, RqCallStep

\* No step gives out more replies to a request than the remote side sent.
LEMMA RqCountedStep ==
  RqTypeOK /\ RqMatched /\ RqCounted /\ [RqNext]_rpcVars => RqCounted'
<1> SUFFICES ASSUME RqTypeOK, RqMatched, RqCounted, [RqNext]_rpcVars,
                    NEW m \in RqCalls
             PROVE  /\ IsFiniteSet(RqTakers(m)')
                    /\ Cardinality(RqTakers(m)') + rqWire'[m] + RqHeld(m)' =< rqSent'[m]
  BY DEF RqCounted
<1>0. /\ IsFiniteSet(RqTakers(m)) /\ Cardinality(RqTakers(m)) \in Nat
      /\ Cardinality(RqTakers(m)) + rqWire[m] + RqHeld(m) =< rqSent[m]
      /\ rqWire[m] \in Nat /\ rqSent[m] \in Nat /\ m # RqNone
  BY FS_CardinalityType, RqAssumption, SMTT(60) DEF RqCounted, RqTypeOK
<1>1. CASE UNCHANGED <<rqGot, rqSent, rqWire, rqHand>>
  <2>1. RqTakers(m)' = RqTakers(m) /\ RqHeld(m)' = RqHeld(m)
    BY <1>1, SMTT(60) DEF RqTakers, RqHeld
  <2> QED BY <1>0, <1>1, <2>1
<1>2. ASSUME NEW c \in RqCalls, RemoteReply(c)
      PROVE  /\ IsFiniteSet(RqTakers(m)')
             /\ Cardinality(RqTakers(m)') + rqWire'[m] + RqHeld(m)' =< rqSent'[m]
  <2>1. RqTakers(m)' = RqTakers(m) /\ RqHeld(m)' = RqHeld(m) /\ RqHeld(m) \in Nat
    BY <1>2 DEF RemoteReply, RqTakers, RqHeld
  <2>2. \/ rqSent'[m] = rqSent[m] /\ rqWire'[m] = rqWire[m]
        \/ rqSent'[m] = rqSent[m] + 1 /\ rqWire'[m] = rqWire[m] + 1
    BY <1>2, SMTT(60) DEF RemoteReply, RqTypeOK
  <2> QED BY <1>0, <2>1, <2>2
<1>3. ASSUME NEW c \in RqCalls, ConsumeReply(c)
      PROVE  /\ IsFiniteSet(RqTakers(m)')
             /\ Cardinality(RqTakers(m)') + rqWire'[m] + RqHeld(m)' =< rqSent'[m]
  <2>1. RqTakers(m)' = RqTakers(m) /\ RqHeld(m) = 0 /\ rqSent' = rqSent
    BY <1>0, <1>3 DEF ConsumeReply, RqTakers, RqHeld, RqEmpty
  <2>2. \/ c = m /\ rqWire'[m] = rqWire[m] - 1 /\ rqWire[m] > 0 /\ RqHeld(m)' \in {0, 1}
        \/ c # m /\ rqWire'[m] = rqWire[m] /\ RqHeld(m)' = 0
    BY <1>0, <1>3, Zenon DEF ConsumeReply, RqTypeOK, RqHeld, RqEmpty
  <2> QED BY <1>0, <2>1, <2>2, SMTT(60)
<1>4. ASSUME DeliverReply
      PROVE  /\ IsFiniteSet(RqTakers(m)')
             /\ Cardinality(RqTakers(m)') + rqWire'[m] + RqHeld(m)' =< rqSent'[m]
  <2>1. RqHeld(m)' = 0 /\ rqSent' = rqSent /\ rqWire' = rqWire
    BY <1>0, <1>4, SMTT(60) DEF DeliverReply, RqHeld, RqEmpty
  <2>2. CASE UNCHANGED rqGot
    <3>1. RqTakers(m)' = RqTakers(m) /\ RqHeld(m) \in {0, 1}
      BY <2>2 DEF RqTakers, RqHeld
    <3> QED BY <1>0, <2>1, <3>1
  <2>3. CASE rqPc[rqHand.ch] = "waiting"
             /\ rqGot' = [rqGot EXCEPT ![rqHand.ch] = rqHand.msg]
    <3> DEFINE c == rqHand.ch
    <3>1. c \in RqCalls /\ rqGot[c] = RqNone
      BY <1>4, <2>3, SMTT(60) DEF DeliverReply, RqMatched
    <3>2. CASE rqHand.msg = m
      <4>1. RqTakers(m)' = RqTakers(m) \cup {c} /\ c \notin RqTakers(m) /\ RqHeld(m) = 1
        BY <1>0, <2>3, <3>1, <3>2, SMTT(60) DEF RqTakers, RqHeld, RqTypeOK
      <4>2. IsFiniteSet(RqTakers(m)') /\ Cardinality(RqTakers(m)') = Cardinality(RqTakers(m)) + 1
        BY <1>0, <4>1, FS_AddElement, SMTT(60)
      <4> QED BY <1>0, <2>1, <4>1, <4>2, SMTT(60)
    <3>3. CASE rqHand.msg # m
      <4>1. RqTakers(m)' = RqTakers(m) /\ RqHeld(m) = 0
        BY <1>0, <2>3, <3>1, <3>3, SMTT(60) DEF RqTakers, RqHeld, RqTypeOK
      <4> QED BY <1>0, <2>1, <4>1, SMTT(60)
    <3> QED BY <3>2, <3>3, SMTT(60)
  <2> QED BY <1>4, <2>2, <2>3, ZenonT(60) DEF DeliverReply
<1>5. ASSUME NEW c \in RqCalls, SendRequest(c) \/ RqCallStep(c)
      PROVE  UNCHANGED <<rqGot, rqSent, rqWire, rqHand>>
  BY <1>5 DEF SendRequest, RqCallStep, Publish, AwaitReply, RequestTimeout, Unregister, CloseCh
<1>6. UNCHANGED rpcVars => UNCHANGED <<rqGot, rqSent, rqWire, rqHand>>
  BY DEF rpcVars
<1> QED BY <1>1, <1>2, <1>3, <1>4, <1>5, <1>6, SMTT(60) DEF RqNext

\* The inductive invariant says what RepliesMatch does.
LEMMA RqInvRepliesMatch == RqInv => RepliesMatch
<1> SUFFICES ASSUME RqInv PROVE RepliesMatch
  OBVIOUS
<1>1. ASSUME NEW c \in RqCalls, rqGot[c] # RqNone
      PROVE  /\ RqCorrID[rqGot[c]] = RqCorrID[c]
             /\ Cardinality({d \in RqCalls : rqGot[d] = rqGot[c]}) =< rqSent[rqGot[c]]
  <2> DEFINE m == rqGot[c]
  <2>1. m \in RqCalls /\ RqCorrID[m] = RqCorrID[c]
    BY <1>1, Zenon DEF RqInv, RqTypeOK, RqMatched
  <2>2. Cardinality(RqTakers(m)) \in Nat /\ RqHeld(m) \in Nat
        /\ rqWire[m] \in Nat /\ rqSent[m] \in Nat
        /\ Cardinality(RqTakers(m)) + rqWire[m] + RqHeld(m) =< rqSent[m]
    BY <2>1, FS_CardinalityType, ZenonT(60) DEF RqInv, RqCounted, RqTypeOK, RqHeld
  <2>3. Cardinality(RqTakers(m)) =< rqSent[m]
    BY <2>2, SMTT(60)
  <2> QED BY <2>1, <2>3, Zenon DEF RqTakers
<1>2. ASSUME NEW i \in RqIds, rqCh[i] # RqNone
      PROVE  /\ RqCorrID[rqCh[i]] = i
             /\ rqPc[rqCh[i]] \in {"registered", "published", "waiting", "return"}
             /\ rqCh[i] \notin rqClosed
  BY <1>2, Zenon DEF RqInv, RqRegistered
<1> QED BY <1>1, <1>2 DEF RepliesMatch

\* No call and no reply to begin with.
LEMMA RqInvInit == RqInit => RqInv
<1> SUFFICES ASSUME RqInit PROVE RqInv
  BY Zenon
<1>1. RqTypeOK /\ RqMatched /\ RqRegistered
  BY RqAssumption, SMTT(60) DEF RqInit, RqTypeOK, RqMatched, RqRegistered, RqEmpty
<1>2. ASSUME NEW m \in RqCalls
      PROVE  /\ IsFiniteSet(RqTakers(m))
             /\ Cardinality(RqTakers(m)) + rqWire[m] + RqHeld(m) =< rqSent[m]
  <2>1. RqTakers(m) = {} /\ rqWire[m] = 0 /\ rqSent[m] = 0 /\ RqHeld(m) = 0
    BY RqAssumption, Zenon DEF RqInit, RqTakers, RqHeld, RqEmpty
  <2> QED BY <2>1, FS_EmptySet, SMTT(60)
<1> QED BY <1>1, <1>2, Zenon DEF RqInv, RqCounted

\* Every step of request and reply keeps the invariant.
LEMMA RqInvStep == RqInv /\ [RqNext]_rpcVars => RqInv'
  BY RqTypeStep, RqMatchedStep, RqRegisteredStep, RqCountedStep, Zenon DEF RqInv

\* SendRequest and ConsumeReplyRoutine: a call returns only replies with its
\* correlation ID, no reply is given out twice, and responseCh has no closed
\* channel, for any calls, IDs, number of replies and reuse of IDs.
THEOREM RepliesAlwaysMatch == RqSpec => []RepliesMatch
<1>1. RqInit => RqInv
  BY RqInvInit, Zenon
<1>2. RqInv /\ [RqNext]_rpcVars => RqInv'
  BY RqInvStep, Zenon
<1>3. RqInv => RepliesMatch
  BY RqInvRepliesMatch, Zenon
<1> QED BY <1>1, <1>2, <1>3, PTL DEF RqSpec

(***************************************************************************)
(* Event streams.                                                          *)
(***************************************************************************)
\* The list holds the last messages, numbered without a gap.
SseListed ==
  /\ Len(sseList) =< sseNum
  /\ \A i \in 1..Len(sseList) : sseList[i] = sseNum - Len(sseList) + i

\* The last message the reader's position stands for: an entry ID in Redis, a
\* place in the list in memory.
SseReach == IF sseKind = "redis" THEN sseFrom ELSE sseNum - Len(sseList) + sseFrom + 1

\* Where the reader is, and what it was given so far: growing numbers up to its
\* position and, if the list was not dropped meanwhile, all of them from the
\* first one on.
SseRead ==
  /\ sseReader \in {"none", "listing"} => sseSeen = << >>
  /\ sseReader = "none" => sseFrom = -1
  /\ sseReader = "listing" => sseKind = "redis" /\ sseFrom # -1
  /\ sseReader = "read" => sseQuiet < SseMaxRetry /\ (sseKind = "redis" => sseFrom # -1)
  /\ sseFrom = -1 => sseSeen = << >>
  /\ \A i \in 1..Len(sseSeen) : sseSeen[i] =< SseReach
  /\ \A i, j \in 1..Len(sseSeen) : i < j => sseSeen[i] < sseSeen[j]
  /\ ~sseCut =>
       /\ \A i \in 2..Len(sseSeen) : sseSeen[i] = sseSeen[i - 1] + 1
       /\ sseSeen # << >> => sseSeen[Len(sseSeen)] = SseReach
       /\ sseKind = "redis" /\ sseFrom # -1 =>
            sseNum - Len(sseList) =< sseFrom /\ sseFrom =< sseNum

\* Where in the stream the reader began: while the list was not dropped, what it
\* was given is the list from its beginning on, less what it skipped.
SseFirst ==
  ~sseCut =>
    /\ SseReach =< sseNum
    /\ sseReader = "listing" => sseNum - Len(sseList) < sseFrom
    /\ sseReader \in {"check", "read"} /\ sseSeen = << >> => sseFrom = -1 /\ sseBare
    /\ \A i \in 1..Len(sseSeen) : sseSeen[i] = sseNum - Len(sseList) + SseSkipped + i

\* Once the signal is set in Redis, the writers past their check are those that
\* were past it when Stop set it.
SseStopped ==
  sseKind = "redis" /\ sseStop =>
    \A w \in SseWriters : sseWriter[w] = "checked" => w \in sseGrace

SseInv == SseTypeOK /\ SseListed /\ SseRead /\ SseFirst /\ SseStopped

\* What ReadMessages returns in Redis is the part of the list up to the latest
\* ID: a prefix, and the whole of it as long as the list was not dropped.
LEMMA SseUpTo ==
  ASSUME SseTypeOK, SseListed, sseFrom \in Nat,
         NEW seen, seen = Restrict(sseList, {i \in DOMAIN sseList : sseList[i] =< sseFrom})
  PROVE  /\ seen \in Seq(1..SseMaxMsgs) /\ Len(seen) =< Len(sseList)
         /\ \A i \in 1..Len(seen) : seen[i] = sseNum - Len(sseList) + i /\ seen[i] =< sseFrom
         /\ sseFrom =< sseNum /\ seen # << >> => seen[Len(seen)] = sseFrom
<1> DEFINE L == Len(sseList)
           N == 1..SseMaxMsgs
           room == sseFrom - (sseNum - L)
           k == IF room < 0 THEN 0 ELSE IF room > L THEN L ELSE room
<1>1. L \in Nat /\ sseNum \in Nat /\ DOMAIN sseList = 1..L /\ sseList \in [1..L -> N]
  BY SseAssumption, SMTT(60) DEF SseTypeOK
<1>2. k \in 0..L
  BY <1>1, SMTT(60)
<1>3. \A i \in 1..L : sseList[i] =< sseFrom <=> i =< k
  BY <1>1, SMTT(60) DEF SseListed
<1>4. {i \in DOMAIN sseList : sseList[i] =< sseFrom} = 1..k
  BY <1>1, <1>2, <1>3, SMTT(60)
<1>5. seen = [i \in 1..k |-> sseList[i]]
  BY <1>4, Zenon DEF Restrict
<1> HIDE DEF k
<1>6. seen \in [1..k -> N] /\ k \in Nat
  BY <1>1, <1>2, <1>5, SMTT(60)
<1>7. seen \in Seq(N) /\ Len(seen) = k
  <2>1. seen \in Seq(N)
    BY <1>6, SeqDef, Zenon
  <2>2. DOMAIN seen = 1..k /\ DOMAIN seen = 1..Len(seen) /\ Len(seen) \in Nat
    BY <1>6, <2>1, LenProperties, SMTT(60)
  <2>3. Len(seen) = k
    BY <1>6, <2>2
  <2> QED BY <2>1, <2>3, Zenon
<1>8. ASSUME NEW i \in 1..k PROVE seen[i] = sseNum - L + i /\ seen[i] =< sseFrom
  <2>1. i \in 1..L /\ i =< k /\ seen[i] = sseList[i]
    BY <1>1, <1>2, <1>5, SMTT(60)
  <2>2. sseList[i] = sseNum - L + i
    BY <2>1 DEF SseListed
  <2> QED BY <1>3, <2>1, <2>2, SMTT(60)
<1>9. ASSUME sseFrom =< sseNum, seen # << >> PROVE seen[Len(seen)] = sseFrom
  <2>1. k # 0
    BY <1>7, <1>9, EmptySeq, SMTT(60)
  <2>2. k = room
    BY <1>1, <1>9, <2>1, SMTT(60) DEF k
  <2>3. k \in 1..k
    BY <1>2, <2>1
  <2>4. seen[k] = sseNum - L + k
    BY <1>8, <2>3, SMTT(60)
  <2> QED BY <1>1, <1>7, <2>2, <2>4, SMTT(60)
<1> QED BY <1>2, <1>7, <1>8, <1>9, SMTT(60)

\* The stores: a list that grows at its end, or is dropped.
LEMMA SseStoreStep ==
  ASSUME SseTypeOK, SseListed, [SseNext]_sseVars
  PROVE  /\ SseListed' /\ sseKind' = sseKind
         /\ sseList' \in Seq(1..SseMaxMsgs) /\ sseNum' \in 0..SseMaxMsgs
         /\ \/ sseNum' - Len(sseList') = sseNum - Len(sseList) /\ sseNum' >= sseNum
               /\ sseCut' = sseCut
            \/ sseNum' = sseNum /\ sseList' = << >> /\ sseCut' = (sseReader # "none")
<1>0. Len(sseList) \in Nat /\ sseNum \in Nat /\ sseKind' = sseKind
  <2>1. Len(sseList) \in Nat /\ sseNum \in Nat
    BY SMTT(60) DEF SseTypeOK
  <2>2. sseKind' = sseKind
    BY ZenonT(60) DEF SseNext, SseWriteCheck, SseWrite, SseStopSet, SseStopDelete, SseClose,
           SseExpire, MemoryReadMessages, RedisReadLatest, RedisReadRange, SseBlockCheck,
           SseBlockRead, sseVars, sseStore
  <2> QED BY <2>1, <2>2, Zenon
<1>1. CASE UNCHANGED <<sseList, sseNum, sseCut>>
  BY <1>0, <1>1, SMTT(60) DEF SseTypeOK, SseListed
<1>2. CASE SseAppend /\ UNCHANGED sseCut
  <2>1. /\ sseNum' = sseNum + 1 /\ sseNum < SseMaxMsgs
        /\ sseList' = Append(sseList, sseNum + 1)
    BY <1>2 DEF SseAppend
  <2>2. sseNum + 1 \in 1..SseMaxMsgs
    BY <1>0, <2>1, SseAssumption, SMTT(60)
  <2>3. /\ sseList' \in Seq(1..SseMaxMsgs) /\ Len(sseList') = Len(sseList) + 1
        /\ \A i \in 1..Len(sseList) : sseList'[i] = sseList[i]
        /\ sseList'[Len(sseList) + 1] = sseNum + 1
    BY <2>1, <2>2, SMTT(60) DEF SseTypeOK
  <2>4. SseListed'
    BY <1>0, <2>1, <2>3, SMTT(60) DEF SseListed
  <2> QED BY <1>0, <1>2, <2>1, <2>2, <2>3, <2>4, SMTT(60)
<1>3. CASE SseDrop /\ UNCHANGED sseNum
  <2>1. sseList' = << >> /\ sseCut' = (sseReader # "none")
    BY <1>3, ZenonT(60) DEF SseDrop
  <2> QED BY <1>0, <1>3, <2>1, EmptySeq, SMTT(60) DEF SseListed, SseTypeOK
<1>4. \/ UNCHANGED <<sseList, sseNum, sseCut>>
      \/ SseAppend /\ UNCHANGED sseCut
      \/ SseDrop /\ UNCHANGED sseNum
  BY Zenon DEF SseNext, SseWriteCheck, SseWrite, SseStopSet, SseStopDelete, SseClose,
         SseExpire, MemoryReadMessages, RedisReadLatest, RedisReadRange, SseBlockCheck,
         SseBlockRead, MemoryWriteMessage, RedisWriteMessage, MemoryDelete, RedisDelete,
         sseVars, sseStore
<1> QED BY <1>1, <1>2, <1>3, <1>4, SMTT(60)

\* A step of a store leaves the reader what it has.
LEMMA SseStoreKeepsRead ==
  ASSUME SseTypeOK, SseListed, SseRead, [SseNext]_sseVars, UNCHANGED sseReading
  PROVE  SseRead'
<1>0. UNCHANGED <<sseReader, sseFrom, sseQuiet, sseSeen>> /\ sseKind' = sseKind
  BY SseStoreStep, ZenonT(60) DEF sseReading
<1>t. /\ Len(sseList) \in Nat /\ sseNum \in Nat /\ sseFrom \in Int /\ sseFrom >= -1
      /\ Len(sseSeen) \in Nat /\ \A i \in 1..Len(sseSeen) : sseSeen[i] \in Nat
      /\ sseNum' \in Nat /\ Len(sseList') \in Nat /\ Len(sseList') =< sseNum'
      /\ Len(sseList) =< sseNum
  <2>1. sseList' \in Seq(1..SseMaxMsgs) /\ sseNum' \in 0..SseMaxMsgs /\ SseListed'
    BY SseStoreStep, Zenon
  <2> QED BY <2>1, SseAssumption, SMTT(60) DEF SseTypeOK, SseListed
<1>1. CASE sseNum' - Len(sseList') = sseNum - Len(sseList) /\ sseNum' >= sseNum
           /\ sseCut' = sseCut
  <2>1. SseReach' = SseReach
    BY <1>0, <1>1, <1>t, ZenonT(60) DEF SseReach
  <2>2. sseFrom =< sseNum => sseFrom =< sseNum'
    BY <1>1, <1>t, SMTT(60)
  <2> QED BY <1>0, <1>1, <2>1, <2>2, ZenonT(60) DEF SseRead
<1>2. CASE sseNum' = sseNum /\ sseList' = << >> /\ sseCut' = (sseReader # "none")
  <2>1. SseReach' >= SseReach /\ SseReach \in Int /\ SseReach' \in Int
    BY <1>0, <1>2, <1>t, SMTT(60) DEF SseReach
  <2>2. \A i \in 1..Len(sseSeen) : sseSeen[i] =< SseReach'
    BY <1>t, <2>1, SMTT(60) DEF SseRead
  <2>3. ~sseCut' => sseSeen = << >> /\ sseFrom = -1
    BY <1>2, ZenonT(60) DEF SseRead
  <2> QED BY <1>0, <2>2, <2>3, SMTT(60) DEF SseRead
<1> QED BY <1>1, <1>2, SseStoreStep, ZenonT(60)

\* Messages numbered without a gap grow, each by one.
LEMMA SseRun ==
  ASSUME NEW q, NEW n \in Nat, NEW z \in Int, \A i \in 1..n : q[i] = z + i
  PROVE  /\ \A i \in 1..n : q[i] =< z + n
         /\ \A i, j \in 1..n : i < j => q[i] < q[j]
         /\ \A i \in 2..n : q[i] = q[i - 1] + 1
<1>1. ASSUME NEW i \in 1..n PROVE q[i] =< z + n
  BY <1>1
<1>2. ASSUME NEW i \in 1..n, NEW j \in 1..n, i < j PROVE q[i] < q[j]
  BY <1>2
<1>3. ASSUME NEW i \in 2..n PROVE q[i] = q[i - 1] + 1
  <2>1. i - 1 \in 1..n /\ i \in 1..n
    OBVIOUS
  <2>2. q[i] = z + i /\ q[i - 1] = z + (i - 1)
    BY <2>1, SMTT(60)
  <2> QED BY <2>2
<1> QED BY <1>1, <1>2, <1>3, SMTT(60)

\* A message given to the reader continues what it has.
LEMMA SseGiven ==
  ASSUME SseTypeOK, SseRead, NEW m \in 1..SseMaxMsgs, SseReach < m,
         ~sseCut /\ sseSeen # << >> => m = SseReach + 1
  PROVE  LET seen == Append(sseSeen, m) IN
         /\ seen \in Seq(1..SseMaxMsgs) /\ seen # << >> /\ Len(seen) \in Nat
         /\ seen[Len(seen)] = m
         /\ \A i \in 1..Len(seen) : seen[i] =< m
         /\ \A i, j \in 1..Len(seen) : i < j => seen[i] < seen[j]
         /\ ~sseCut => \A i \in 2..Len(seen) : seen[i] = seen[i - 1] + 1
<1> DEFINE n == Len(sseSeen)
           seen == Append(sseSeen, m)
<1>1. /\ n \in Nat /\ seen \in Seq(1..SseMaxMsgs) /\ Len(seen) = n + 1
      /\ \A i \in 1..n : seen[i] = sseSeen[i] /\ sseSeen[i] \in Nat
      /\ seen[n + 1] = m /\ m \in Nat /\ seen # << >>
  <2>1. /\ n \in Nat /\ seen \in Seq(1..SseMaxMsgs) /\ Len(seen) = n + 1
        /\ seen[n + 1] = m /\ \A i \in 1..n : seen[i] = sseSeen[i]
    BY DEF SseTypeOK
  <2>2. \A i \in 1..n : sseSeen[i] \in 1..SseMaxMsgs
    BY ElementOfSeq, Zenon DEF SseTypeOK
  <2>3. seen # << >>
    BY <2>1, EmptySeq, SMTT(60)
  <2> QED BY <2>1, <2>2, <2>3, SMTT(60)
<1>2. SseReach \in Int
  BY DEF SseReach, SseTypeOK
<1>3. \A i \in 1..n : sseSeen[i] < m
  BY <1>1, <1>2, SMTT(60) DEF SseRead
<1>4. \A i, j \in 1..n : i < j => sseSeen[i] < sseSeen[j]
  BY SMTT(60) DEF SseRead
<1>5. ASSUME ~sseCut, NEW i \in 2..(n + 1) PROVE seen[i] = seen[i - 1] + 1
  <2>1. CASE i \in 2..n
    BY <1>1, <1>5, <2>1, SMTT(60) DEF SseRead
  <2>2. CASE i = n + 1
    <3>1. sseSeen # << >> /\ n \in 1..n
      BY <1>1, <1>5, <2>2, SMTT(60)
    <3>2. sseSeen[n] = SseReach /\ m = SseReach + 1
      BY <1>5, <3>1 DEF SseRead
    <3> QED BY <1>1, <2>2, <3>1, <3>2, SMTT(60)
  <2> QED BY <1>1, <2>1, <2>2, SMTT(60)
<1> HIDE DEF seen
<1>6. \A i \in 1..(n + 1) : seen[i] =< m
  BY <1>1, <1>3, SMTT(60)
<1>7. ASSUME NEW i \in 1..(n + 1), NEW j \in 1..(n + 1), i < j PROVE seen[i] < seen[j]
  <2>1. i \in 1..n
    BY <1>1, <1>7, SMTT(60)
  <2>2. CASE j \in 1..n
    BY <1>1, <1>4, <1>7, <2>1, <2>2, ZenonT(60)
  <2>3. CASE j = n + 1
    BY <1>1, <1>3, <2>1, <2>3, ZenonT(60)
  <2> QED BY <1>1, <2>2, <2>3, SMTT(60)
<1> QED BY <1>1, <1>5, <1>6, <1>7, SMTT(60) DEF seen

\* A step of the reader keeps its types and what it has.
LEMMA SseReaderStep ==
  ASSUME SseTypeOK, SseListed, SseRead,
         MemoryReadMessages \/ RedisReadLatest \/ RedisReadRange \/ SseBlockCheck \/ SseBlockRead
  PROVE  /\ SseRead'
         /\ sseReader' \in {"none", "listing", "check", "read", "ended", "failed"}
         /\ sseFrom' \in -1..SseMaxMsgs /\ sseQuiet' \in 0..SseMaxRetry
         /\ sseSeen' \in Seq(1..SseMaxMsgs)
<1> DEFINE Goal == /\ SseRead'
                   /\ sseReader' \in {"none", "listing", "check", "read", "ended", "failed"}
                   /\ sseFrom' \in -1..SseMaxMsgs /\ sseQuiet' \in 0..SseMaxRetry
                   /\ sseSeen' \in Seq(1..SseMaxMsgs)
<1>0. UNCHANGED <<sseKind, sseList, sseNum, sseCut>>
  BY Zenon DEF MemoryReadMessages, RedisReadLatest, RedisReadRange, SseBlockCheck, SseBlockRead, sseStore
<1>t. /\ Len(sseList) \in Nat /\ sseNum \in 0..SseMaxMsgs /\ SseMaxMsgs \in Nat
      /\ sseFrom \in -1..SseMaxMsgs /\ Len(sseList) =< sseNum
      /\ \A i \in 1..Len(sseList) : sseList[i] \in 1..SseMaxMsgs
      /\ sseKind \in {"redis", "memory"} /\ sseQuiet \in 0..SseMaxRetry /\ SseMaxRetry \in Nat
  BY SseAssumption, SMTT(60) DEF SseTypeOK, SseListed
<1>1. CASE MemoryReadMessages
  <2>1. /\ sseKind = "memory" /\ sseReader' = "check" /\ sseSeen' = sseList
        /\ sseFrom' = Len(sseList) - 1 /\ sseQuiet' = sseQuiet
    BY <1>1, Zenon DEF MemoryReadMessages
  <2>2. SseReach' = sseNum
    BY <1>0, <1>t, <2>1, SMTT(60) DEF SseReach
  <2>3. sseList # << >> => Len(sseList) \in 1..Len(sseList)
    BY <1>t, SMTT(60) DEF SseTypeOK
  <2>4. \A i \in 1..Len(sseList) : sseList[i] = sseNum - Len(sseList) + i
    BY ZenonT(60) DEF SseListed
  <2>5. /\ \A i \in 1..Len(sseList) : sseList[i] =< sseNum
        /\ \A i, j \in 1..Len(sseList) : i < j => sseList[i] < sseList[j]
        /\ \A i \in 2..Len(sseList) : sseList[i] = sseList[i - 1] + 1
        /\ sseList # << >> => sseList[Len(sseList)] = sseNum
    BY <1>t, <2>3, <2>4, SseRun, SMTT(60)
  <2>6. sseFrom' = -1 => sseList = << >>
    BY <1>t, <2>1, SMTT(60) DEF SseTypeOK
  <2>7. SseRead'
    BY <1>0, <2>1, <2>2, <2>5, <2>6, ZenonT(60) DEF SseRead
  <2> QED BY <1>t, <2>1, <2>7, SMTT(60) DEF SseTypeOK
<1>2. CASE RedisReadLatest
  <2>1. /\ sseSeen' = << >> /\ sseKind = "redis" /\ sseQuiet' = sseQuiet
        /\ Len(sseSeen') = 0 /\ sseSeen' \in Seq(1..SseMaxMsgs)
    BY <1>2, EmptySeq, ZenonT(60) DEF RedisReadLatest, SseRead
  <2>2. sseReader' \in {"failed", "check", "listing"} /\ sseReader = "none"
    BY <1>2, ZenonT(60) DEF RedisReadLatest
  <2>3. \/ sseFrom' = -1 /\ sseReader' # "listing"
        \/ sseFrom' = sseNum /\ sseFrom' # -1
    BY <1>2, <1>t, SMTT(60) DEF RedisReadLatest, SseRead, SseListed, SseTypeOK
  <2>4. SseRead'
    BY <1>0, <1>t, <2>1, <2>2, <2>3, SMTT(60) DEF SseRead
  <2> QED BY <1>t, <2>1, <2>2, <2>3, <2>4, SMTT(60)
<1>3. CASE RedisReadRange
  <2>1. /\ sseReader = "listing" /\ sseKind = "redis" /\ sseFrom \in Nat
        /\ sseFrom' = sseFrom /\ sseQuiet' = sseQuiet /\ sseReader' \in {"failed", "check"}
    BY <1>3, <1>t, SMTT(60) DEF RedisReadRange, SseRead
  <2>2. SseReach' = sseFrom
    BY <1>0, <2>1, Zenon DEF SseReach
  <2>3. CASE UNCHANGED sseSeen
    <3>1. sseSeen = << >>
      BY <2>1, ZenonT(60) DEF SseRead
    <3>2. SseRead'
      BY <1>0, <2>1, <2>3, <3>1, SMTT(60) DEF SseRead
    <3> QED BY <1>t, <2>1, <2>3, <3>2, ZenonT(60) DEF SseTypeOK
  <2>4. CASE sseSeen' = Restrict(sseList, {i \in DOMAIN sseList : sseList[i] =< sseFrom})
    <3>1. /\ sseSeen' \in Seq(1..SseMaxMsgs) /\ Len(sseSeen') =< Len(sseList)
          /\ \A i \in 1..Len(sseSeen') : /\ sseSeen'[i] = sseNum - Len(sseList) + i
                                         /\ sseSeen'[i] =< sseFrom
          /\ sseFrom =< sseNum /\ sseSeen' # << >> => sseSeen'[Len(sseSeen')] = sseFrom
      BY <2>1, <2>4, SseUpTo, ZenonT(60)
    <3>2. Len(sseSeen') \in Nat
      BY <3>1, SMTT(60)
    <3>3. /\ \A i, j \in 1..Len(sseSeen') : i < j => sseSeen'[i] < sseSeen'[j]
          /\ \A i \in 2..Len(sseSeen') : sseSeen'[i] = sseSeen'[i - 1] + 1
      <4>1. \A i \in 1..Len(sseSeen') : sseSeen'[i] = sseNum - Len(sseList) + i
        BY <3>1
      <4>2. sseNum - Len(sseList) \in Int
        BY <1>t
      <4> QED BY <3>2, <4>1, <4>2, SseRun, ZenonT(60)
    <3>4. ~sseCut => sseNum - Len(sseList) =< sseFrom /\ sseFrom =< sseNum
      BY <2>1, Zenon DEF SseRead
    <3>5. SseRead'
      BY <1>0, <2>1, <2>2, <3>1, <3>3, <3>4, ZenonT(60) DEF SseRead
    <3> QED BY <1>t, <2>1, <3>1, <3>5, ZenonT(60)
  <2> QED BY <1>3, <2>3, <2>4, ZenonT(60) DEF RedisReadRange
<1>4. CASE SseBlockCheck
  <2>1. UNCHANGED <<sseFrom, sseQuiet, sseSeen>> /\ SseReach' = SseReach
    BY <1>0, <1>4, Zenon DEF SseBlockCheck, SseReach
  <2>2. /\ sseReader' \in {"ended", "failed", "read"}
        /\ sseReader' = "read" => sseQuiet < SseMaxRetry /\ (sseKind = "redis" => sseFrom # -1)
    BY <1>4, Zenon DEF SseBlockCheck
  <2>3. SseRead'
    BY <1>0, <2>1, <2>2, Zenon DEF SseRead
  <2> QED BY <1>t, <2>1, <2>2, <2>3, ZenonT(60) DEF SseTypeOK
<1>5. CASE SseBlockRead
  <2>1. sseReader = "read" /\ sseQuiet < SseMaxRetry /\ (sseKind = "redis" => sseFrom # -1)
    BY <1>5, ZenonT(60) DEF SseBlockRead, SseRead
  <2>2. CASE UNCHANGED <<sseFrom, sseSeen>> /\ sseReader' \in {"check", "failed"}
             /\ sseQuiet' \in {sseQuiet, sseQuiet + 1}
    <3>1. SseReach' = SseReach
      BY <1>0, <2>2, Zenon DEF SseReach
    <3>2. SseRead'
      BY <1>0, <2>2, <3>1, Zenon DEF SseRead
    <3> QED BY <1>t, <2>1, <2>2, <3>2, SMTT(60) DEF SseTypeOK
  <2>3. ASSUME NEW r \in ReadAfterID, sseReader' = "check", sseQuiet' = 0,
               sseSeen' = Append(sseSeen, r.msg), sseFrom' = r.id
        PROVE  Goal
    <3>1. /\ r.msg \in 1..SseMaxMsgs /\ SseReach < r.msg /\ r.msg = SseReach'
          /\ r.id \in 0..SseMaxMsgs
          /\ ~sseCut /\ sseSeen # << >> => r.msg = SseReach + 1
          /\ sseKind = "redis" => r.id =< sseNum /\ sseFrom =< r.id
      <4>1. CASE sseKind = "redis"
        <5>1. PICK i \in 1..Len(sseList) :
                /\ r.msg = sseList[i] /\ r.id = sseList[i] /\ sseList[i] > sseFrom
                /\ \A j \in 1..Len(sseList) : sseList[j] > sseFrom => sseList[i] =< sseList[j]
          <6> DEFINE later == {m \in Range(sseList) : m > sseFrom}
          <6>1. r \in {[id |-> m, msg |-> m] : m \in {k \in later : \A l \in later : k =< l}}
            BY <4>1, ZenonT(60) DEF ReadAfterID, RedisReadAfterID
          <6>2. PICK m \in later : r.id = m /\ r.msg = m /\ \A l \in later : m =< l
            BY <6>1, SMTT(60)
          <6>3. DOMAIN sseList = 1..Len(sseList)
            BY LenProperties, Zenon DEF SseTypeOK
          <6>4. PICK i \in 1..Len(sseList) : m = sseList[i]
            BY <6>2, <6>3, Zenon DEF Range
          <6>5. \A j \in 1..Len(sseList) : sseList[j] > sseFrom => sseList[j] \in later
            BY <6>3, Zenon DEF Range
          <6> QED BY <6>2, <6>4, <6>5, Zenon
        <5>2. sseList[i] = sseNum - Len(sseList) + i
          BY Zenon DEF SseListed
        <5>3. SseReach = sseFrom /\ SseReach' = r.id
          BY <1>0, <2>3, <4>1, ZenonT(60) DEF SseReach
        <5>4. ASSUME ~sseCut PROVE r.msg = sseFrom + 1
          <6>1. sseNum - Len(sseList) =< sseFrom
            BY <2>1, <4>1, <5>4, ZenonT(60) DEF SseRead
          <6> DEFINE j == sseFrom + 1 - (sseNum - Len(sseList))
          <6>2. j \in 1..Len(sseList)
            BY <1>t, <5>1, <5>2, <6>1, SMTT(60)
          <6>3. sseList[j] = sseFrom + 1
            BY <1>t, <6>2, SMTT(60) DEF SseListed
          <6> HIDE DEF j
          <6>4. sseList[i] =< sseFrom + 1
            BY <1>t, <5>1, <6>2, <6>3, SMTT(60)
          <6> QED BY <1>t, <5>1, <6>4, SMTT(60)
        <5> QED BY <1>t, <4>1, <5>1, <5>2, <5>3, <5>4, SMTT(60)
      <4>2. CASE sseKind = "memory"
        <5> DEFINE idx == IF sseFrom = -1 THEN 0 ELSE sseFrom
        <5>1. r.id = idx + 1 /\ r.msg = sseList[idx + 2] /\ idx + 1 < Len(sseList)
          BY <1>t, <2>3, <4>2, SMTT(60) DEF ReadAfterID, MemoryReadAfterID
        <5>2. sseList[idx + 2] = sseNum - Len(sseList) + idx + 2
          BY <1>t, <5>1, SMTT(60) DEF SseListed
        <5>3. SseReach = sseNum - Len(sseList) + sseFrom + 1
              /\ SseReach' = sseNum - Len(sseList) + idx + 2
          BY <1>0, <1>t, <2>3, <4>2, <5>1, SMTT(60) DEF SseReach
        <5>4. sseSeen # << >> => idx = sseFrom
          BY <1>t, Zenon DEF SseRead
        <5> QED BY <1>t, <4>2, <5>1, <5>2, <5>3, <5>4, SMTT(60)
      <4> QED BY <1>t, <4>1, <4>2, ZenonT(60)
    <3> DEFINE seen == Append(sseSeen, r.msg)
    <3>2. /\ seen \in Seq(1..SseMaxMsgs) /\ seen # << >>
          /\ seen[Len(seen)] = r.msg
          /\ \A i \in 1..Len(seen) : seen[i] =< r.msg
          /\ \A i, j \in 1..Len(seen) : i < j => seen[i] < seen[j]
          /\ ~sseCut => \A i \in 2..Len(seen) : seen[i] = seen[i - 1] + 1
      BY <3>1, SseGiven, ZenonT(60)
    <3>3. sseSeen' = seen /\ sseFrom' # -1 /\ sseFrom' \in Int
      BY <2>3, <3>1, SMTT(60)
    <3> HIDE DEF seen
    <3>4. ~sseCut /\ sseKind = "redis" => sseNum - Len(sseList) =< sseFrom'
      <4>1. ~sseCut /\ sseKind = "redis" => sseNum - Len(sseList) =< sseFrom
        BY <2>1, Zenon DEF SseRead
      <4> QED BY <1>t, <2>3, <3>1, <4>1, SMTT(60)
    <3>5. SseRead'
      BY <1>0, <2>3, <3>1, <3>2, <3>3, <3>4, ZenonT(60) DEF SseRead
    <3>6. sseFrom' \in -1..SseMaxMsgs /\ sseQuiet' \in 0..SseMaxRetry
      BY <1>t, <2>3, <3>1, SMTT(60)
    <3> QED BY <2>3, <3>2, <3>3, <3>5, <3>6, ZenonT(60)
  <2>4. \/ /\ UNCHANGED <<sseFrom, sseSeen>> /\ sseReader' \in {"check", "failed"}
           /\ sseQuiet' \in {sseQuiet, sseQuiet + 1}
        \/ \E r \in ReadAfterID :
             sseReader' = "check" /\ sseQuiet' = 0 /\ sseSeen' = Append(sseSeen, r.msg)
             /\ sseFrom' = r.id
    BY <1>5, Zenon DEF SseBlockRead
  <2> QED BY <2>2, <2>3, <2>4, ZenonT(60)
<1> QED BY <1>1, <1>2, <1>3, <1>4, <1>5, ZenonT(60)

\* A message that BlockRead finds is in the list, and for a reader that has none yet
\* it is the second one.
LEMMA SseFound ==
  ASSUME SseTypeOK, SseListed, SseRead, SseFirst, ~sseCut, sseReader = "read",
         NEW r \in ReadAfterID
  PROVE  /\ sseKind = "redis" => r.id \in Int /\ r.id =< sseNum
         /\ sseKind = "memory" => r.id \in Int /\ r.id < Len(sseList)
         /\ sseSeen = << >> => sseKind = "memory" /\ r.msg = sseNum - Len(sseList) + 2
<1>t. /\ Len(sseList) \in Nat /\ sseNum \in Nat /\ sseFrom \in Int /\ sseFrom >= -1
      /\ sseKind \in {"redis", "memory"} /\ DOMAIN sseList = 1..Len(sseList)
  BY SseAssumption, SMTT(60) DEF SseTypeOK
<1>1. sseSeen = << >> => sseKind = "memory" /\ sseFrom = -1
  BY <1>t, Zenon DEF SseRead, SseFirst
<1>2. CASE sseKind = "redis"
  <2>1. r \in RedisReadAfterID
    BY <1>2, Zenon DEF ReadAfterID
  <2>2. PICK m \in Range(sseList) : r.id = m
    BY <2>1, SMTT(60) DEF RedisReadAfterID
  <2>3. PICK i \in 1..Len(sseList) : m = sseList[i]
    BY <1>t, <2>2, Zenon DEF Range
  <2>4. sseList[i] = sseNum - Len(sseList) + i
    BY <2>3, Zenon DEF SseListed
  <2>5. r.id \in Int /\ r.id =< sseNum
    BY <1>t, <2>2, <2>3, <2>4, SMTT(60)
  <2>6. sseKind # "memory"
    BY <1>2
  <2> QED BY <1>1, <2>5, <2>6, Zenon
<1>3. CASE sseKind = "memory"
  <2> DEFINE idx == IF sseFrom = -1 THEN 0 ELSE sseFrom
  <2>1. r.id = idx + 1 /\ r.msg = sseList[idx + 2] /\ idx + 1 < Len(sseList)
    BY <1>t, <1>3, SMTT(60) DEF ReadAfterID, MemoryReadAfterID
  <2>2. sseList[idx + 2] = sseNum - Len(sseList) + idx + 2
    BY <1>t, <2>1, SMTT(60) DEF SseListed
  <2>3. sseKind # "redis"
    BY <1>3
  <2>4. sseFrom = -1 => r.msg = sseNum - Len(sseList) + 2
    BY <1>t, <2>1, <2>2, SMTT(60)
  <2>5. r.id \in Int /\ r.id < Len(sseList)
    BY <1>t, <2>1, SMTT(60)
  <2> QED BY <1>1, <2>3, <2>4, <2>5, Zenon
<1> QED BY <1>t, <1>2, <1>3, Zenon

\* A step of a store or of the reader keeps where the reader began.
LEMMA SseFirstStep ==
  ASSUME SseTypeOK, SseListed, SseRead, SseFirst, [SseNext]_sseVars, ~sseCut'
  PROVE  SseFirst'
<1>t. /\ Len(sseList) \in Nat /\ sseNum \in Nat /\ sseFrom \in Int /\ sseFrom >= -1
      /\ Len(sseSeen) \in Nat /\ sseKind \in {"redis", "memory"} /\ sseKind' = sseKind
      /\ DOMAIN sseList = 1..Len(sseList)
  <2>1. sseKind' = sseKind
    BY SseStoreStep, Zenon
  <2> QED BY <2>1, SseAssumption, SMTT(60) DEF SseTypeOK
<1>1. CASE UNCHANGED sseReading
  <2>0. UNCHANGED <<sseReader, sseFrom, sseQuiet, sseSeen, sseBare>> /\ SseSkipped' = SseSkipped
    BY <1>t, <1>1, Zenon DEF sseReading, SseSkipped
  <2>t. sseNum' \in Nat /\ Len(sseList') \in Nat
    <3>1. sseList' \in Seq(1..SseMaxMsgs) /\ sseNum' \in 0..SseMaxMsgs
      BY SseStoreStep, Zenon
    <3> QED BY <3>1, SseAssumption, SMTT(60)
  <2>1. CASE sseNum' - Len(sseList') = sseNum - Len(sseList) /\ sseNum' >= sseNum
             /\ sseCut' = sseCut
    <3>1. SseReach' = SseReach /\ SseReach \in Int
      BY <1>t, <2>0, <2>1, SMTT(60) DEF SseReach
    <3>2. SseReach =< sseNum => SseReach' =< sseNum'
      BY <1>t, <2>t, <2>1, <3>1, SMTT(60)
    <3> QED BY <2>0, <2>1, <3>2, Zenon DEF SseFirst
  <2>2. CASE sseNum' = sseNum /\ sseList' = << >> /\ sseCut' = (sseReader # "none")
    <3>1. sseReader = "none" /\ sseFrom = -1 /\ sseSeen = << >>
      BY <2>2, Zenon DEF SseRead
    <3>2. SseReach' =< sseNum'
      BY <1>t, <2>0, <2>2, <3>1, SMTT(60) DEF SseReach
    <3>3. Len(sseSeen') = 0 /\ sseReader' = "none"
      BY <2>0, <3>1, EmptySeq, Zenon
    <3> QED BY <3>2, <3>3, SMTT(60) DEF SseFirst
  <2> QED BY <2>1, <2>2, SseStoreStep, Zenon
<1>2. CASE MemoryReadMessages \/ RedisReadLatest \/ RedisReadRange \/ SseBlockCheck \/ SseBlockRead
  <2>a. UNCHANGED <<sseList, sseNum, sseCut>>
    BY <1>2, Zenon DEF MemoryReadMessages, RedisReadLatest, RedisReadRange, SseBlockCheck,
                       SseBlockRead, sseStore
  <2>0. UNCHANGED <<sseList, sseNum, sseCut>> /\ ~sseCut
    BY <2>a, Zenon
  <2>1. CASE MemoryReadMessages
    <3>1. /\ sseKind = "memory" /\ sseReader' = "check" /\ sseSeen' = sseList
          /\ sseFrom' = Len(sseList) - 1 /\ sseBare' = (sseList = << >>)
      BY <2>1, Zenon DEF MemoryReadMessages
    <3>2. SseReach' = sseNum
      BY <1>t, <2>0, <3>1, SMTT(60) DEF SseReach
    <3>3. sseList = << >> => Len(sseList) = 0
      BY EmptySeq, Zenon
    <3>4. sseList # << >> => SseSkipped' = 0
      BY <3>1, Zenon DEF SseSkipped
    <3>5. \A i \in 1..Len(sseList) : sseList[i] = sseNum - Len(sseList) + SseSkipped' + i
      <4>1. CASE sseList = << >>
        BY <3>3, <4>1, SMTT(60)
      <4>2. CASE sseList # << >>
        <5>1. SseSkipped' = 0 /\ \A i \in 1..Len(sseList) : sseList[i] = sseNum - Len(sseList) + i
          BY <3>4, <4>2, Zenon DEF SseListed
        <5> QED BY <1>t, <5>1, SMTT(60)
      <4> QED BY <4>1, <4>2
    <3>6. ASSUME sseList = << >> PROVE sseFrom' = -1 /\ sseBare'
      <4>1. sseFrom' = Len(sseList) - 1 /\ Len(sseList) = 0
        BY <3>1, <3>3, <3>6, Zenon
      <4>2. sseBare'
        BY <3>1, <3>6, Zenon
      <4> QED BY <4>1, <4>2, SMTT(60)
    <3>7. SseReach' =< sseNum
      BY <1>t, <3>2
    <3> QED BY <2>0, <3>1, <3>5, <3>6, <3>7, Zenon DEF SseFirst
  <2>2. CASE RedisReadLatest
    <3>1. sseKind = "redis" /\ sseSeen' = << >> /\ Len(sseSeen') = 0 /\ sseFrom = -1
      BY <2>2, EmptySeq, Zenon DEF RedisReadLatest, SseRead
    <3>2. \/ sseReader' = "failed" /\ sseFrom' = -1
          \/ sseReader' = "check" /\ sseFrom' = -1 /\ sseBare'
          \/ sseReader' = "listing" /\ sseList # << >> /\ sseFrom' = sseList[Len(sseList)]
      BY <2>2, <3>1, Zenon DEF RedisReadLatest
    <3>3. sseList # << >> => Len(sseList) >= 1 /\ sseList[Len(sseList)] = sseNum
      BY <1>t, SMTT(60) DEF SseListed, SseTypeOK
    <3>4. SseReach' = sseFrom'
      BY <1>t, <3>1, Zenon DEF SseReach
    <3>5. sseFrom' = -1 \/ sseFrom' = sseNum
      BY <3>2, <3>3, Zenon
    <3>6. SseReach' =< sseNum
      BY <1>t, <3>4, <3>5, SMTT(60)
    <3>7. sseReader' = "listing" => sseNum - Len(sseList) < sseFrom'
      BY <1>t, <3>2, <3>3, SMTT(60)
    <3>8. sseReader' \in {"check", "read"} => sseFrom' = -1 /\ sseBare'
      BY <3>2, Zenon
    <3>9. \A i \in 1..Len(sseSeen') : FALSE
      BY <3>1, SMTT(60)
    <3> QED BY <2>0, <3>6, <3>7, <3>8, <3>9, Zenon DEF SseFirst
  <2>3. CASE RedisReadRange
    <3>1. /\ sseReader = "listing" /\ sseKind = "redis" /\ sseFrom \in Nat
          /\ sseFrom' = sseFrom /\ sseReader' \in {"failed", "check"}
      BY <1>t, <2>3, SMTT(60) DEF RedisReadRange, SseRead
    <3>2. SseReach' =< sseNum /\ sseNum - Len(sseList) < sseFrom
      BY <1>t, <2>0, <3>1, Zenon DEF SseReach, SseFirst
    <3>3. CASE UNCHANGED sseSeen /\ sseReader' = "failed"
      <4>1. Len(sseSeen') = 0
        BY <3>1, <3>3, EmptySeq, Zenon DEF SseRead
      <4>2. \A i \in 1..Len(sseSeen') : FALSE
        BY <4>1, SMTT(60)
      <4> QED BY <2>0, <3>2, <3>3, <4>2, Zenon DEF SseFirst
    <3>4. CASE sseSeen' = Restrict(sseList, {i \in DOMAIN sseList : sseList[i] =< sseFrom})
               /\ sseReader' = "check"
      <4>1. \A i \in 1..Len(sseSeen') : sseSeen'[i] = sseNum - Len(sseList) + i
        BY <3>1, <3>4, SseUpTo, Zenon
      <4>2. SseSkipped' = 0
        BY <1>t, <3>1, Zenon DEF SseSkipped
      <4>3. \A i \in 1..Len(sseSeen') : sseSeen'[i] = sseNum - Len(sseList) + SseSkipped' + i
        BY <1>t, <4>1, <4>2, SMTT(60)
      <4>4. 1 \in DOMAIN sseList /\ sseList[1] =< sseFrom
        <5>1. SseReach' = sseFrom
          BY <1>t, <3>1, Zenon DEF SseReach
        <5>2. 1 \in 1..Len(sseList)
          BY <1>t, <3>1, <3>2, <5>1, SMTT(60)
        <5>3. sseList[1] = sseNum - Len(sseList) + 1
          BY <5>2, Zenon DEF SseListed
        <5> QED BY <1>t, <3>1, <3>2, <5>2, <5>3, SMTT(60)
      <4>5. 1 \in DOMAIN sseSeen'
        BY <3>4, <4>4, Zenon DEF Restrict
      <4>6. sseSeen' # << >>
        BY <4>5, SMTT(60)
      <4> QED BY <2>0, <3>2, <3>4, <4>3, <4>6, Zenon DEF SseFirst
    <3> QED BY <2>3, <3>3, <3>4, Zenon DEF RedisReadRange
  <2>4. CASE SseBlockCheck
    <3>1. /\ UNCHANGED <<sseFrom, sseSeen, sseBare>> /\ SseReach' = SseReach
          /\ SseSkipped' = SseSkipped /\ sseReader = "check" /\ sseReader' # "listing"
      BY <1>t, <2>0, <2>4, Zenon DEF SseBlockCheck, SseReach, SseSkipped
    <3> QED BY <2>0, <3>1, Zenon DEF SseFirst
  <2>5. CASE SseBlockRead
    <3>0. sseReader = "read" /\ sseReader' # "listing" /\ SseSkipped' = SseSkipped
      BY <1>t, <2>5, Zenon DEF SseBlockRead, SseSkipped
    <3>1. CASE UNCHANGED <<sseFrom, sseSeen>>
      <4>1. SseReach' = SseReach /\ sseBare' = sseBare
        BY <1>t, <2>0, <2>5, <3>1, Zenon DEF SseReach, SseBlockRead
      <4> QED BY <2>0, <3>0, <3>1, <4>1, Zenon DEF SseFirst
    <3>2. ASSUME NEW r \in ReadAfterID, sseSeen' = Append(sseSeen, r.msg), sseFrom' = r.id
          PROVE  SseFirst'
      <4>1. /\ sseKind = "redis" => r.id \in Int /\ r.id =< sseNum
            /\ sseKind = "memory" => r.id \in Int /\ r.id < Len(sseList)
            /\ sseSeen = << >> => sseKind = "memory" /\ r.msg = sseNum - Len(sseList) + 2
        BY <2>0, <3>0, SseFound, Zenon
      <4>2. SseReach' =< sseNum
        BY <1>t, <2>0, <3>2, <4>1, SMTT(60) DEF SseReach
      <4>3. /\ sseSeen' \in Seq(1..SseMaxMsgs) /\ sseSeen' # << >>
            /\ \A i \in 2..Len(sseSeen') : sseSeen'[i] = sseSeen'[i - 1] + 1
        BY <1>2, <2>0, <3>2, SseReaderStep, SMTT(60) DEF SseRead
      <4> DEFINE n == Len(sseSeen)
                 z == sseNum - Len(sseList) + SseSkipped
      <4>4. /\ Len(sseSeen') = n + 1 /\ sseSeen'[n + 1] = r.msg
            /\ \A i \in 1..n : sseSeen'[i] = sseSeen[i]
        <5>1. sseSeen \in Seq(1..SseMaxMsgs) /\ r.msg \in 1..SseMaxMsgs
          BY <3>2, <4>3, SMTT(60) DEF SseTypeOK
        <5> QED BY <3>2, <5>1, SMTT(60)
      <4>5. z \in Int /\ n \in Nat
        BY <1>t DEF SseSkipped
      <4>6. \A i \in 1..n : sseSeen[i] = z + i
        BY <2>0, Zenon DEF SseFirst
      <4>7. r.msg = z + (n + 1)
        <5>1. CASE sseSeen = << >>
          <6>1. n = 0 /\ SseSkipped = 1
            BY <2>0, <3>0, <4>1, <5>1, EmptySeq, Zenon DEF SseSkipped, SseFirst
          <6> QED BY <1>t, <4>1, <5>1, <6>1, SMTT(60)
        <5>2. CASE sseSeen # << >>
          <6>1. n >= 1
            BY <4>5, <5>2, SMTT(60) DEF SseTypeOK
          <6>2. sseSeen'[n + 1] = sseSeen'[n] + 1 /\ sseSeen'[n] = z + n
            BY <4>3, <4>4, <4>5, <4>6, <6>1, SMTT(60)
          <6> QED BY <4>4, <4>5, <6>2, SMTT(60)
        <5> QED BY <5>1, <5>2
      <4> HIDE DEF n, z
      <4>8. \A i \in 1..(n + 1) : sseSeen'[i] = z + i
        <5> SUFFICES ASSUME NEW i \in 1..(n + 1) PROVE sseSeen'[i] = z + i
          OBVIOUS
        <5>1. i \in 1..n \/ i = n + 1
          BY <4>5
        <5> QED BY <4>4, <4>6, <4>7, <5>1, Zenon
      <4>9. \A i \in 1..Len(sseSeen') : sseSeen'[i] = sseNum' - Len(sseList') + SseSkipped' + i
        BY <2>0, <3>0, <4>4, <4>8, Zenon DEF z
      <4> QED BY <2>0, <3>0, <4>2, <4>3, <4>9, Zenon DEF SseFirst
    <3> QED BY <2>5, <3>1, <3>2, Zenon DEF SseBlockRead
  <2> QED BY <1>2, <2>1, <2>2, <2>3, <2>4, <2>5, Zenon
<1>3. \/ UNCHANGED sseReading
      \/ MemoryReadMessages \/ RedisReadLatest \/ RedisReadRange \/ SseBlockCheck \/ SseBlockRead
  BY Zenon DEF SseNext, SseWriteCheck, SseWrite, SseStopSet, SseStopDelete, SseClose, SseExpire,
         sseVars, sseReading
<1> QED BY <1>1, <1>2, <1>3, Zenon

\* The signal, the writers and their grace.
LEMMA SseWriterStep ==
  ASSUME SseTypeOK, SseStopped, [SseNext]_sseVars
  PROVE  /\ SseStopped'
         /\ sseStop' \in BOOLEAN /\ sseWriter' \in [SseWriters -> {"idle", "checked"}]
         /\ sseStopper' \in {"none", "set", "stopped"} /\ sseGrace' \subseteq SseWriters
<1> USE DEF SseTypeOK, SseStopped, sseStore, sseReading
<1>1. ASSUME NEW w \in SseWriters, SseWriteCheck(w)
      PROVE  /\ SseStopped'
             /\ sseStop' \in BOOLEAN /\ sseWriter' \in [SseWriters -> {"idle", "checked"}]
             /\ sseStopper' \in {"none", "set", "stopped"} /\ sseGrace' \subseteq SseWriters
  BY <1>1, Zenon DEF SseWriteCheck, SseExist, RedisExist
<1>2. ASSUME NEW w \in SseWriters, SseWrite(w)
      PROVE  /\ SseStopped'
             /\ sseStop' \in BOOLEAN /\ sseWriter' \in [SseWriters -> {"idle", "checked"}]
             /\ sseStopper' \in {"none", "set", "stopped"} /\ sseGrace' \subseteq SseWriters
  BY <1>2, Zenon DEF SseWrite
<1>3. CASE SseStopSet
  BY <1>3, ZenonT(60) DEF SseStopSet, MemorySet, RedisSet
<1>4. CASE SseStopDelete \/ SseClose
  BY <1>4, SMTT(60) DEF SseStopDelete, SseClose
<1>5. CASE SseExpire
  <2>1. UNCHANGED <<sseKind, sseWriter, sseStopper, sseGrace>>
    BY <1>5, SMTT(60) DEF SseExpire
  <2>2. \/ sseStop' = (sseKind = "redis" /\ sseStop)
        \/ sseStop' = FALSE
    BY <1>5 DEF SseExpire
  <2>3. sseStop' \in BOOLEAN
    BY <2>2, Zenon
  <2>4. sseStop' => sseStop
    BY <2>2, ZenonT(60)
  <2>5. SseStopped'
    BY <2>1, <2>4, SMTT(60)
  <2> QED BY <2>1, <2>3, <2>5, SMTT(60)
<1>6. CASE \/ MemoryReadMessages \/ RedisReadLatest \/ RedisReadRange
           \/ SseBlockCheck \/ SseBlockRead \/ UNCHANGED sseVars
  <2>1. UNCHANGED <<sseKind, sseStop, sseWriter, sseStopper, sseGrace>>
    BY <1>6 DEF MemoryReadMessages, RedisReadLatest, RedisReadRange, SseBlockCheck, SseBlockRead,
                sseVars
  <2> QED BY <2>1, SMTT(60)
<1> QED BY <1>1, <1>2, <1>3, <1>4, <1>5, <1>6, ZenonT(60) DEF SseNext

\* An empty stream without a reader.
LEMMA SseInvInit == SseInit => SseInv
<1> SUFFICES ASSUME SseInit PROVE SseInv
  OBVIOUS
<1>1. SseTypeOK
  <2>1. sseStop \in BOOLEAN /\ sseCut \in BOOLEAN /\ sseBare \in BOOLEAN
    BY Zenon DEF SseInit
  <2>2. /\ sseWriter \in [SseWriters -> {"idle", "checked"}] /\ sseGrace \subseteq SseWriters
        /\ sseStopper \in {"none", "set", "stopped"} /\ sseKind \in {"redis", "memory"}
        /\ sseReader \in {"none", "listing", "check", "read", "ended", "failed"}
    BY DEF SseInit
  <2>3. sseNum \in 0..SseMaxMsgs /\ sseFrom \in -1..SseMaxMsgs /\ sseQuiet \in 0..SseMaxRetry
    BY SseAssumption, SMTT(60) DEF SseInit
  <2>4. sseList \in Seq(1..SseMaxMsgs) /\ sseSeen \in Seq(1..SseMaxMsgs)
    BY EmptySeq, ZenonT(60) DEF SseInit
  <2> QED BY <2>1, <2>2, <2>3, <2>4, SMTT(60) DEF SseTypeOK
<1>2. SseListed /\ SseRead /\ SseStopped
  BY EmptySeq, SMTT(60) DEF SseInit, SseListed, SseRead, SseStopped
<1>3. SseFirst
  <2>1. /\ sseNum = 0 /\ sseFrom = -1 /\ Len(sseList) = 0 /\ Len(sseSeen) = 0
        /\ sseReader = "none"
    BY EmptySeq, Zenon DEF SseInit
  <2> QED BY <2>1, SMTT(60) DEF SseFirst, SseReach
<1> QED BY <1>1, <1>2, <1>3, Zenon DEF SseInv

\* Every step of an event stream keeps the invariant.
LEMMA SseInvStep == SseInv /\ [SseNext]_sseVars => SseInv'
<1> SUFFICES ASSUME SseInv, [SseNext]_sseVars PROVE SseInv'
  BY Zenon
<1>0. SseTypeOK /\ SseListed /\ SseRead /\ SseFirst /\ SseStopped
  BY Zenon DEF SseInv
<1>1. /\ SseListed' /\ sseKind' = sseKind
      /\ sseList' \in Seq(1..SseMaxMsgs) /\ sseNum' \in 0..SseMaxMsgs
      /\ sseCut' \in BOOLEAN
  <2>1. sseCut' = sseCut \/ sseCut' = (sseReader # "none")
    BY <1>0, SseStoreStep, Zenon
  <2>2. sseCut' \in BOOLEAN
    BY <1>0, <2>1, ZenonT(60) DEF SseTypeOK
  <2> QED BY <1>0, <2>2, SseStoreStep, Zenon
<1>2. /\ SseStopped'
      /\ sseStop' \in BOOLEAN /\ sseWriter' \in [SseWriters -> {"idle", "checked"}]
      /\ sseStopper' \in {"none", "set", "stopped"} /\ sseGrace' \subseteq SseWriters
  BY <1>0, SseWriterStep, SMTT(60)
<1>3. /\ SseRead'
      /\ sseReader' \in {"none", "listing", "check", "read", "ended", "failed"}
      /\ sseFrom' \in -1..SseMaxMsgs /\ sseQuiet' \in 0..SseMaxRetry
      /\ sseSeen' \in Seq(1..SseMaxMsgs)
  <2>1. CASE UNCHANGED sseReading
    <3>1. SseRead'
      BY <1>0, <2>1, SseStoreKeepsRead, SMTT(60)
    <3> QED BY <1>0, <2>1, <3>1, SMTT(60) DEF sseReading, SseTypeOK
  <2>2. CASE MemoryReadMessages \/ RedisReadLatest \/ RedisReadRange \/ SseBlockCheck \/ SseBlockRead
    BY <1>0, <2>2, SseReaderStep, SMTT(60)
  <2>3. \/ UNCHANGED sseReading
        \/ MemoryReadMessages \/ RedisReadLatest \/ RedisReadRange \/ SseBlockCheck \/ SseBlockRead
    BY DEF SseNext, SseWriteCheck, SseWrite, SseStopSet, SseStopDelete, SseClose, SseExpire,
           sseVars, sseReading
  <2> QED BY <2>1, <2>2, <2>3, SMTT(60)
<1>4. SseTypeOK'
  <2>1. sseBare' = sseBare \/ sseBare' = (sseList = << >>)
    BY Zenon DEF SseNext, SseWriteCheck, SseWrite, SseStopSet, SseStopDelete, SseClose, SseExpire,
           MemoryReadMessages, RedisReadLatest, RedisReadRange, SseBlockCheck, SseBlockRead,
           sseVars, sseReading
  <2>2. sseBare' \in BOOLEAN
    BY <1>0, <2>1, Zenon DEF SseTypeOK
  <2> QED BY <1>0, <1>1, <1>2, <1>3, <2>2, ZenonT(60) DEF SseTypeOK
<1>5. SseFirst'
  BY <1>0, SseFirstStep, Zenon DEF SseFirst
<1> QED BY <1>1, <1>2, <1>3, <1>4, <1>5, ZenonT(60) DEF SseInv

\* ReadMessages and BlockRead: a reader is given messages in order and once and,
\* unless the stream is dropped under it, the messages of the stream from the first
\* one on, without a gap, for any number of writers, messages and retries, over
\* either store; in memory, a reader that found the stream empty gets them from
\* the second one on.
THEOREM NothingIsMissed == SseSpec => []ReaderMissesNothing
<1>1. SseInit => SseInv
  BY SseInvInit
<1>2. SseInv /\ [SseNext]_sseVars => SseInv'
  BY SseInvStep, Zenon
<1>3. SseInv => ReaderMissesNothing
  <2> SUFFICES ASSUME SseInv PROVE ReaderMissesNothing
    OBVIOUS
  <2>1. /\ DOMAIN sseSeen = 1..Len(sseSeen) /\ DOMAIN sseList = 1..Len(sseList)
        /\ Len(sseList) \in Nat /\ sseNum \in Nat /\ sseFrom \in Int /\ SseSkipped \in {0, 1}
    BY SseAssumption DEF SseInv, SseTypeOK, SseSkipped
  <2>2. \A i, j \in 1..Len(sseSeen) : i < j => sseSeen[i] < sseSeen[j]
    BY Zenon DEF SseInv, SseRead
  <2>3. ASSUME ~sseCut, NEW i \in 1..Len(sseSeen)
        PROVE  i + SseSkipped \in 1..Len(sseList) /\ sseSeen[i] = sseList[i + SseSkipped]
    <3>1. /\ sseSeen[i] = sseNum - Len(sseList) + SseSkipped + i
          /\ sseSeen[i] =< SseReach /\ SseReach =< sseNum
      BY <2>3, Zenon DEF SseInv, SseRead, SseFirst
    <3>2. SseReach \in Int
      BY <2>1 DEF SseReach
    <3>3. i + SseSkipped \in 1..Len(sseList)
      BY <2>1, <3>1, <3>2, SMTT(60)
    <3>4. sseList[i + SseSkipped] = sseNum - Len(sseList) + (i + SseSkipped)
      BY <3>3, Zenon DEF SseInv, SseListed
    <3> QED BY <2>1, <3>1, <3>3, <3>4, SMTT(60)
  <2> QED BY <2>1, <2>2, <2>3, Zenon DEF ReaderMissesNothing
<1> QED BY <1>1, <1>2, <1>3, PTL DEF SseSpec

\* Stop over Redis: from the signal on, the stream grows only by writers that
\* had asked for the signal before it was set.
THEOREM StopEndsWriting == SseSpec => StopStopsWriters
<1>1. SseInit => SseInv
  BY SseInvInit
<1>2. SseInv /\ [SseNext]_sseVars => SseInv'
  BY SseInvStep, Zenon
<1>3. SseInv /\ [SseNext]_sseVars =>
        [sseKind = "redis" /\ sseStop /\ sseStop' /\ sseNum' > sseNum =>
           \E w \in sseGrace : sseWriter[w] = "checked" /\ sseWriter'[w] = "idle"]_sseVars
  <2> SUFFICES ASSUME SseInv, SseNext, sseKind = "redis", sseStop, sseNum' > sseNum
               PROVE  \E w \in sseGrace : sseWriter[w] = "checked" /\ sseWriter'[w] = "idle"
    BY ZenonT(60)
  <2>1. sseNum' # sseNum
    BY SMTT(60) DEF SseInv, SseTypeOK
  <2>2. PICK w \in SseWriters : SseWrite(w)
    BY <2>1, ZenonT(60) DEF SseNext, SseWriteCheck, SseStopSet, SseStopDelete, SseClose, SseExpire,
                MemoryReadMessages, RedisReadLatest, RedisReadRange, SseBlockCheck,
                SseBlockRead, sseStore
  <2>3. sseWriter[w] = "checked" /\ sseWriter'[w] = "idle"
    BY <2>2, SMTT(60) DEF SseWrite, SseInv, SseTypeOK
  <2> QED BY <2>3 DEF SseInv, SseStopped
<1> QED BY <1>1, <1>2, <1>3, PTL DEF SseSpec, StopStopsWriters

-----------------------------------------------------------------------------
(* The six components together.                                            *)

\* A step of the composition is, for each component, one of its steps or none.
LEMMA SvStep ==
  [SvNext]_svVars => /\ [LockNext]_lockVars /\ [CqNext]_queueVars /\ [RqNext]_rpcVars
                     /\ [LcNext]_lifeVars /\ [SseNext]_sseVars /\ [RtNext]_routineVars
<1> SUFFICES ASSUME [SvNext]_svVars
             PROVE  /\ [LockNext]_lockVars /\ [CqNext]_queueVars /\ [RqNext]_rpcVars
                    /\ [LcNext]_lifeVars /\ [SseNext]_sseVars /\ [RtNext]_routineVars
  OBVIOUS
<1>1. CASE SvNext
  BY <1>1, ZenonT(60) DEF SvNext
<1>2. CASE UNCHANGED svVars
  BY <1>2 DEF svVars
<1> QED BY <1>1, <1>2, SMTT(60)

SvInv == LockInv /\ CqInv /\ RqInv /\ LcInv /\ SseInv /\ RtInv

\* The six components keep their invariants, whichever runs.
LEMMA SvInvariant == SvSpec => []SvInv
<1>1. SvInit => LockInit /\ CqInit /\ RqInit /\ LcInit /\ SseInit /\ RtInit
  BY DEF SvInit
<1> QED BY <1>1, SvStep, LockInvInit, LockInvStep, CqInitInv, CqInvStep, RqInvInit, RqInvStep,
           LcInvInit, LcInvStep, SseInvInit, SseInvStep, RtInvInit, RtInvStep, PTL DEF SvSpec, SvInv

\* Every variable of the six components keeps its type, whatever the sets of
\* clients, tasks, calls, closers and writers are.
THEOREM ServicesTypeCorrect == SvSpec => []ServicesTypeOK
<1>1. SvInv => ServicesTypeOK
  BY SMTT(60) DEF SvInv, LockInv, CqInv, RqInv, LcInv, SseInv, RtInv, ServicesTypeOK
<1> QED BY <1>1, SvInvariant, PTL

\* A process that exits with code 0 has run its closers, and a task service
\* that is stopped has no goroutine left (lifecycle.go:100-147,
\* worker.go:110-203).
THEOREM ShutdownLeavesNothing == SvSpec => []ShutdownSound
<1>1. SvInv => ShutdownSound
  BY LcInvZero, RtInvStopped DEF SvInv, ShutdownSound
<1> QED BY <1>1, SvInvariant, PTL
=============================================================================
