------------------------------ MODULE LLMStream ------------------------------
(***************************************************************************)
(* handleStream of llm/provider/openai/stream.go: it receives the chunks   *)
(* of a chat completion, puts the pieces of the tool calls together and    *)
(* hands every chunk to the handler, until the stream ends or fails or the *)
(* handler has had enough.  The service is external: a chunk brings a      *)
(* piece of one call, of a call without an index, or text, and it may say  *)
(* that the tool calls are finished.  Pieces are numbered.                 *)
(***************************************************************************)
EXTENDS Integers, SequencesExt

CONSTANTS LsCalls,   \* indices of tool calls
          LsMaxRecv  \* bound: chunks of a stream

ASSUME LsAssumption == LsMaxRecv \in Nat

VARIABLES lsPc,    \* "recv", "nil" or "error": handleStream runs or has returned
          lsCache, \* toolCallCache: the pieces of each call, << >> for no entry
          lsSent,  \* history: the pieces that came with an index
          lsRecv,  \* chunks received
          lsChunk, \* the tool calls of the chunk the handler got last
          lsKind,  \* what it got: "none", "chunk", "flush", "done" or "error"
          lsOver   \* history: the service had said before that the calls are finished

streamVars == <<lsPc, lsCache, lsSent, lsRecv, lsChunk, lsKind, lsOver>>

NoPieces == [c \in LsCalls |-> << >>]
Pieces == Seq(1..LsMaxRecv)

LsTypeOK ==
  /\ lsPc \in {"recv", "nil", "error"} /\ lsRecv \in 0..LsMaxRecv
  /\ lsCache \in [LsCalls -> Pieces] /\ lsSent \in [LsCalls -> Pieces]
  /\ lsChunk \in Seq(Pieces) /\ lsKind \in {"none", "chunk", "flush", "done", "error"}
  /\ lsOver \in BOOLEAN

LsInit ==
  /\ lsPc = "recv" /\ lsCache = NoPieces /\ lsSent = NoPieces /\ lsRecv = 0
  /\ lsChunk = << >> /\ lsKind = "none" /\ lsOver = FALSE

\* The lists that may come out: the order in which Go walks a map is open.
flushToolCallCache(cache) ==
  {[i \in DOMAIN order |-> cache[order[i]]] :
     order \in SetToSeqs({c \in LsCalls : cache[c] # << >>})}

\* A new entry, or the piece at the end of the entry.
mergeStreamToolCalls(cache, c, piece) == [cache EXCEPT ![c] = Append(@, piece)]

\* The handler says whether it wants more.
Hand(kind) ==
  lsKind' = kind /\ lsPc' \in {"recv", "nil"} /\ lsOver' = (lsOver \/ lsKind = "flush")

\* A chunk with a piece of a call, which may finish the calls.
RecvPiece(c) ==
  /\ lsPc = "recv" /\ lsRecv < LsMaxRecv /\ lsRecv' = lsRecv + 1
  /\ lsCache' = mergeStreamToolCalls(lsCache, c, lsRecv + 1)
  /\ lsSent' = [lsSent EXCEPT ![c] = Append(@, lsRecv + 1)]
  /\ lsChunk' \in flushToolCallCache(lsCache')
  /\ Hand("chunk") \/ Hand("flush")

\* A piece without an index is skipped.
RecvNoIndex ==
  /\ lsPc = "recv" /\ lsRecv < LsMaxRecv /\ lsRecv' = lsRecv + 1
  /\ lsChunk' \in flushToolCallCache(lsCache) /\ Hand("chunk") /\ UNCHANGED <<lsCache, lsSent>>

\* Text, or the end of the tool calls: the calls are handed out, and stay in the
\* cache, which the comment of flushToolCallCache says is emptied.
RecvOther ==
  /\ lsPc = "recv" /\ lsRecv < LsMaxRecv /\ lsRecv' = lsRecv + 1
  /\ \/ lsChunk' = << >> /\ Hand("chunk")
     \/ lsChunk' \in flushToolCallCache(lsCache) /\ Hand("flush")
  /\ UNCHANGED <<lsCache, lsSent>>

\* The end of the stream, or an error, which the handler may take for itself.
RecvEnd ==
  /\ lsPc = "recv" /\ lsChunk' = << >>
  /\ \/ lsKind' = "done" /\ lsPc' = "nil"
     \/ lsKind' = "error" /\ lsPc' \in {"nil", "error"}
  /\ UNCHANGED <<lsCache, lsSent, lsRecv, lsOver>>

LsNext == (\E c \in LsCalls : RecvPiece(c)) \/ RecvNoIndex \/ RecvOther \/ RecvEnd

LsSpec == LsInit /\ [][LsNext]_streamVars

\* Whatever order the pieces of several calls come in, a chunk with tool calls
\* has every call once, with all its pieces so far in the order they came; a
\* call whose pieces have no index is not there.  This is claimed up to the chunk
\* that finishes the calls: "输出缓存中完整的 ToolCall 结果并清空缓存" (stream.go:90)
\* says that a later one begins anew, but nothing empties the cache, and it has the
\* old calls too (stream.go:51-97).
ToolCallsWhole ==
  ~lsOver /\ (lsKind = "flush" \/ lsChunk # << >>) =>
    /\ Range(lsChunk) = {lsSent[c] : c \in {d \in LsCalls : lsSent[d] # << >>}}
    /\ IsInjective(lsChunk)
=============================================================================
