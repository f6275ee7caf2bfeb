------------------------------- MODULE RPCQueue -------------------------------
(***************************************************************************)
(* Request and reply over RabbitMQ, queue/rpcqueue/controller.go.  Each    *)
(* call of SendRequest has its own channel, named here by the call itself; *)
(* responseCh maps a correlation ID to a channel.  The broker and the      *)
(* remote side are external: replies may be missing, late or repeated.     *)
(***************************************************************************)
EXTENDS Integers, FiniteSets

CONSTANTS RqCalls,   \* calls of SendRequest
          RqIds,     \* correlation IDs
          RqCorrID,  \* the ID of each call; the caller may reuse one
          RqReplies, \* bound: replies the remote side sends in all
          RqNone     \* no channel

ASSUME RqAssumption ==
  RqCorrID \in [RqCalls -> RqIds] /\ RqReplies \in Nat /\ RqNone \notin RqCalls

VARIABLES rqCh,     \* responseCh
          rqPc,     \* where each call is
          rqGot,    \* the request whose reply the call returned
          rqClosed, \* calls whose channel is closed
          rqSent,   \* replies sent to each request
          rqWire,   \* replies in the reply queue, by the request they answer
          rqHand,   \* the reply the consumer holds, and the channel it found
          rqAlive,  \* the process has not panicked
          rqLeft    \* replies the remote side may still send

rpcVars == <<rqCh, rqPc, rqGot, rqClosed, rqSent, rqWire, rqHand, rqAlive, rqLeft>>

RqEmpty == [msg |-> RqNone, ch |-> RqNone]

RqTypeOK ==
  /\ rqCh \in [RqIds -> RqCalls \cup {RqNone}]
  /\ rqPc \in [RqCalls -> {"new", "registered", "published", "waiting",
                            "return", "close", "returned"}]
  /\ rqGot \in [RqCalls -> RqCalls \cup {RqNone}]
  /\ rqClosed \subseteq RqCalls
  /\ rqSent \in [RqCalls -> Nat] /\ rqWire \in [RqCalls -> Nat]
  /\ rqHand \in [msg : RqCalls \cup {RqNone}, ch : RqCalls \cup {RqNone}]
  /\ rqAlive \in BOOLEAN /\ rqLeft \in 0..RqReplies

RqInit ==
  /\ rqCh = [i \in RqIds |-> RqNone] /\ rqPc = [c \in RqCalls |-> "new"]
  /\ rqGot = [c \in RqCalls |-> RqNone] /\ rqClosed = {}
  /\ rqSent = [c \in RqCalls |-> 0] /\ rqWire = [c \in RqCalls |-> 0]
  /\ rqHand = RqEmpty /\ rqAlive = TRUE /\ rqLeft = RqReplies

RqGo(c, from, to) ==
  rqAlive /\ rqPc[c] = from /\ rqPc' = [rqPc EXCEPT ![c] = to]

\* SendRequest makes its channel and registers it under the lock.
SendRequest(c) ==
  /\ RqGo(c, "new", "registered")
  /\ rqCh' = [rqCh EXCEPT ![RqCorrID[c]] = c]
  /\ UNCHANGED <<rqGot, rqClosed, rqSent, rqWire, rqHand, rqAlive, rqLeft>>

\* Marshal and Publish: an error returns.
Publish(c) ==
  /\ \/ RqGo(c, "registered", "published")
     \/ RqGo(c, "registered", "return")
  /\ UNCHANGED <<rqCh, rqGot, rqClosed, rqSent, rqWire, rqHand, rqAlive, rqLeft>>

\* The call reaches its select; only now can it receive.
AwaitReply(c) ==
  /\ RqGo(c, "published", "waiting")
  /\ UNCHANGED <<rqCh, rqGot, rqClosed, rqSent, rqWire, rqHand, rqAlive, rqLeft>>

RequestNoTimeout(c) ==
  /\ FALSE /\ RqGo(c, "waiting", "return")
  /\ UNCHANGED <<rqCh, rqGot, rqClosed, rqSent, rqWire, rqHand, rqAlive, rqLeft>>

\* The timer of the select.
RequestTimeout(c) ==
  /\ RqGo(c, "waiting", "return")
  /\ UNCHANGED <<rqCh, rqGot, rqClosed, rqSent, rqWire, rqHand, rqAlive, rqLeft>>

\* The deferred function: delete the ID's entry, whoever registered it ...
Unregister(c) ==
  /\ RqGo(c, "return", "close")
  /\ rqCh' = [rqCh EXCEPT ![RqCorrID[c]] = RqNone]
  /\ UNCHANGED <<rqGot, rqClosed, rqSent, rqWire, rqHand, rqAlive, rqLeft>>

\* ... then, outside the lock, close the channel.
CloseCh(c) ==
  /\ RqGo(c, "close", "returned")
  /\ rqClosed' = rqClosed \cup {c}
  /\ UNCHANGED <<rqCh, rqGot, rqSent, rqWire, rqHand, rqAlive, rqLeft>>

\* External: the remote side answers a published request, perhaps again.
RemoteReply(c) ==
  /\ rqAlive /\ rqPc[c] \notin {"new", "registered"}
  /\ rqLeft > 0 /\ rqLeft' = rqLeft - 1
  /\ rqSent' = [rqSent EXCEPT ![c] = @ + 1]
  /\ rqWire' = [rqWire EXCEPT ![c] = @ + 1]
  /\ UNCHANGED <<rqCh, rqPc, rqGot, rqClosed, rqHand, rqAlive>>

ConsumeAnyReply(m) ==
  /\ rqAlive /\ rqHand = RqEmpty /\ rqWire[m] > 0
  /\ rqWire' = [rqWire EXCEPT ![m] = @ - 1]
  /\ \E i \in RqIds : rqHand' = IF rqCh[i] = RqNone THEN RqEmpty
                                ELSE [msg |-> m, ch |-> rqCh[i]]
  /\ UNCHANGED <<rqCh, rqPc, rqGot, rqClosed, rqSent, rqAlive, rqLeft>>

\* ConsumeReplyRoutine takes a reply and looks its channel up under the lock;
\* a reply without an entry is dropped.
ConsumeReply(m) ==
  /\ rqAlive /\ rqHand = RqEmpty /\ rqWire[m] > 0
  /\ rqWire' = [rqWire EXCEPT ![m] = @ - 1]
  /\ rqHand' = IF rqCh[RqCorrID[m]] = RqNone THEN RqEmpty
               ELSE [msg |-> m, ch |-> rqCh[RqCorrID[m]]]
  /\ UNCHANGED <<rqCh, rqPc, rqGot, rqClosed, rqSent, rqAlive, rqLeft>>

\* Its select: a send to a channel closed since the lookup panics, a call in
\* its select gets the reply, and any other reply is dropped.
DeliverReply ==
  /\ rqAlive /\ rqHand # RqEmpty
  /\ LET c == rqHand.ch IN
     \/ /\ c \in rqClosed
        /\ rqAlive' = FALSE /\ UNCHANGED <<rqPc, rqGot>>
     \/ /\ rqPc[c] = "waiting"
        /\ rqPc' = [rqPc EXCEPT ![c] = "return"]
        /\ rqGot' = [rqGot EXCEPT ![c] = rqHand.msg] /\ UNCHANGED rqAlive
     \/ /\ c \notin rqClosed /\ rqPc[c] # "waiting"
        /\ UNCHANGED <<rqPc, rqGot, rqAlive>>
  /\ rqHand' = RqEmpty
  /\ UNCHANGED <<rqCh, rqClosed, rqSent, rqWire, rqLeft>>

RqCallStep(c) ==
  Publish(c) \/ AwaitReply(c) \/ RequestTimeout(c) \/ Unregister(c) \/ CloseCh(c)

RqNext ==
  \/ \E c \in RqCalls :
       SendRequest(c) \/ RqCallStep(c) \/ RemoteReply(c) \/ ConsumeReply(c)
  \/ DeliverReply

\* A goroutine in the middle of a call goes on, and timers fire.  Nothing is
\* assumed of the broker or of the consumer.
RqFairness == \A c \in RqCalls : WF_rpcVars(RqCallStep(c))

RqSpec == RqInit /\ [][RqNext]_rpcVars /\ RqFairness

\* Every call that started returns, with a reply or an error, or the process
\* has panicked (controller.go:103-108).
RequestReturns ==
  \A c \in RqCalls :
    rqPc[c] = "registered" ~> (rqPc[c] = "returned" \/ ~rqAlive)

\* A call returns only replies that carry its correlation ID, a reply is given
\* to at most one call, and no channel outlives its call: an entry of
\* responseCh is the channel of a call still in progress under that ID, so a
\* lookup never finds a closed one.  Late and repeated replies and reused IDs
\* do not change that (controller.go:75-127).
RepliesMatch ==
  /\ \A c \in RqCalls : rqGot[c] # RqNone =>
       /\ RqCorrID[rqGot[c]] = RqCorrID[c]
       /\ Cardinality({d \in RqCalls : rqGot[d] = rqGot[c]}) =< rqSent[rqGot[c]]
  /\ \A i \in RqIds : rqCh[i] # RqNone =>
       /\ RqCorrID[rqCh[i]] = i
       /\ rqPc[rqCh[i]] \in {"registered", "published", "waiting", "return"}
       /\ rqCh[i] \notin rqClosed
=============================================================================
