---------------------------- MODULE ScrollSearch ----------------------------
(***************************************************************************)
(* ScrollAll of dbtools/estool/scroll.go: it searches an Elasticsearch     *)
(* index, pages through the hits with a scroll context that the service    *)
(* keeps for it, and appends them to the caller's slice.  The service is   *)
(* external: a context sees the index as it was when it was opened, every  *)
(* answer may carry a new ID for it, and it is released by that ID only.   *)
(***************************************************************************)
EXTENDS Integers, FiniteSets, SequencesExt

CONSTANTS ScMaxDocs,  \* bound: documents that match
          ScMaxSize,  \* bound: documents of a page
          ScMaxIds    \* bound: IDs the service gives

ASSUME ScAssumption == ScMaxDocs \in Nat /\ ScMaxSize \in Nat /\ ScMaxIds \in Nat \ {0}

VARIABLES scIn,     \* the call: documents, an undecodable one, sizes, Total
          scPc,     \* "start", "append", "scroll", "clear" or "end"
          scPos,    \* hits the context has given
          scOpen,   \* ID of the context at the service, 0 for none
          scID,     \* scrollID
          scIds,    \* IDs given so far
          scHits,   \* the hits of the last answer
          scOut,    \* the caller's slice
          scDone,   \* the context of the call is done
          scResult, \* "none", "ok" or "error"
          scFault   \* history: a request failed

scrollVars == <<scIn, scPc, scPos, scOpen, scID, scIds, scHits, scOut, scDone, scResult, scFault>>

\* The size in the query goes before the option.
getSizeFromDSL(in) == in.querySize
ScrollSize(in) == IF getSizeFromDSL(in) > 0 THEN getSizeFromDSL(in) ELSE in.scrollSize
ScCalls == [docs : 0..ScMaxDocs, bad : 0..1, querySize : 0..ScMaxSize,
            scrollSize : {0, 1}, total : 0..(ScMaxDocs + 1)]

ScTypeOK ==
  /\ scIn \in ScCalls /\ scPc \in {"start", "append", "scroll", "clear", "end"}
  /\ scPos \in 0..ScMaxDocs /\ {scOpen, scID, scIds} \subseteq 0..ScMaxIds
  /\ {scHits, scOut} \subseteq Seq(1..ScMaxDocs) /\ scDone \in BOOLEAN
  /\ scResult \in {"none", "ok", "error"} /\ scFault \in BOOLEAN

ScInit ==
  /\ scIn \in ScCalls /\ scPc = "start" /\ scPos = 0 /\ scOpen = 0 /\ scID = 0 /\ scIds = 0
  /\ scHits = << >> /\ scOut = << >> /\ scDone = FALSE /\ scResult = "none" /\ scFault = FALSE

\* The caller's context ends; requests fail from then on.
ScCancel ==
  /\ scPc # "end" /\ ~scDone /\ scDone' = TRUE
  /\ UNCHANGED <<scIn, scPc, scPos, scOpen, scID, scIds, scHits, scOut, scResult, scFault>>

\* External: the next page, under the same ID or a new one.
Page(id) ==
  LET last == Min({scPos + ScrollSize(scIn), scIn.docs})
  IN  /\ scHits' = [i \in 1..(last - scPos) |-> scPos + i] /\ scPos' = last
      /\ scOpen' = id /\ scID' = id /\ scIds' = Max({scIds, id})

Failed(next) ==
  /\ scPc' = next /\ scResult' = "error" /\ scFault' = TRUE
  /\ UNCHANGED <<scPos, scID, scHits>>

\* The first search opens the context.  An answer that cannot be read leaves
\* it open, and there is no ID to release it by.
initialSearch ==
  /\ scPc = "start"
  /\ \/ /\ ~scDone /\ ScrollSize(scIn) > 0 /\ Page(1)
        /\ scPc' = "append" /\ UNCHANGED <<scResult, scFault>>
     \/ Failed("end") /\ scOpen' \in {0, 1} /\ scIds' = scOpen'
  /\ UNCHANGED <<scIn, scOut, scDone>>

\* Stop with nil; the deferred clearScroll follows.
Finish == scPc' = "clear" /\ scResult' = "ok"

\* No more than Total documents in all; a Total of zero is no limit.
BatchCount ==
  IF scIn.total > 0 THEN Min({Len(scHits), scIn.total - Len(scOut)}) ELSE Len(scHits)

\* Documents before one that cannot be decoded stay in the slice.
appendHitsToSlice ==
  LET take == SubSeq(scHits, 1, BatchCount)
      good == SelectSeq(take, LAMBDA d : scIn.bad = 0 \/ d < scIn.docs)
  IN  /\ scPc = "append" /\ scOut' = scOut \o good
      /\ IF good # take THEN scPc' = "clear" /\ scResult' = "error"
         ELSE IF scIn.total > 0 /\ Len(scOut') >= scIn.total THEN Finish
         ELSE IF scHits = << >> THEN Finish
         ELSE scPc' = "scroll" /\ UNCHANGED scResult
      /\ UNCHANGED <<scIn, scPos, scOpen, scID, scIds, scHits, scDone, scFault>>

\* Nothing more is asked for once the context is done; the request fails when
\* the service has dropped the context after ScrollTime.
continueScroll ==
  /\ scPc = "scroll"
  /\ \/ scDone /\ scPc' = "clear" /\ scResult' = "error"
        /\ UNCHANGED <<scPos, scOpen, scID, scIds, scHits, scFault>>
     \/ ~scDone /\ \E id \in scID..Min({scID + 1, ScMaxIds}) : Page(id)
        /\ scPc' = "append" /\ UNCHANGED <<scResult, scFault>>
     \/ ~scDone /\ Failed("clear") /\ scOpen' \in {0, scOpen} /\ UNCHANGED scIds
  /\ UNCHANGED <<scIn, scOut, scDone>>

\* With the same context: when it is done the request is not sent.
clearScroll ==
  /\ scPc = "clear" /\ scPc' = "end"
  /\ \/ ~scDone /\ scOpen' = (IF scID = scOpen THEN 0 ELSE scOpen) /\ UNCHANGED scFault
     \/ scFault' = TRUE /\ UNCHANGED scOpen
  /\ UNCHANGED <<scIn, scPos, scID, scIds, scHits, scOut, scDone, scResult>>

ScNext == ScCancel \/ initialSearch \/ appendHitsToSlice \/ continueScroll \/ clearScroll

ScSpec == ScInit /\ [][ScNext]_scrollVars

\* When ScrollAll returns nil the slice holds the matching documents, each
\* once and in order, up to Total of them; before, and after an error, it
\* holds the first few of them.  The context at the service is released unless
\* a request failed (scroll.go:92-205).
ScrollComplete ==
  /\ scOut = [i \in 1..Len(scOut) |-> i] /\ (scIn.total > 0 => Len(scOut) =< scIn.total)
  /\ scPc = "end" /\ scResult = "ok" =>
       Len(scOut) = IF scIn.total > 0 THEN Min({scIn.total, scIn.docs}) ELSE scIn.docs
  /\ scPc = "end" /\ ~scFault => scOpen = 0
=============================================================================
