------------------------------ MODULE MCStores ------------------------------
(***************************************************************************)
(* Model checking of the components that keep state for others and of the  *)
(* conversions: the pools of services and of ports, the storage back ends  *)
(* of both generations, multipart and resumable uploads, the table of      *)
(* files, job tables, settings behind their caches, the Redis helpers, the *)
(* registries, the statistics manager, scroll searches, streams of tool    *)
(* calls, metrics, prompts, and money.  They share no state: an initial    *)
(* choice says which of them a behaviour runs, and the others stay in one  *)
(* of their initial states.                                                *)
(***************************************************************************)
EXTENDS Keepers, Registries, MCStorage, StorageV2, MultipartV2, Uploader, FileTable,
        JobTables, Settings, StatManager, ScrollSearch, LLMStream, PromptStore, PromptRender, Money

VARIABLE sxMode

sxVars == <<sxMode, poolVars, portVars, storageVars, multiVars,
            uploadVars, jobVars, settingVars, statVars, scrollVars,
            streamVars, metricVars, promptVars, renderVars,
            fileVars, cacheVars, registryVars, moneyVars>>

-----------------------------------------------------------------------------
(* Values of the constants. *)

MCPoolConfs == {[sv |-> 1], [sv |-> 2]}
MCMxLabels == {{}, {"k"}}
MCPpRanges == {<<3, 4>>, <<4, 2>>, <<-1, 4>>, <<3, 8>>, <<-1, 1>>}

Cond(i, k, s, d) == [id |-> i, key |-> k, st |-> s, isDelete |-> d]
MCPdConds ==
  {Cond(0, "", {}, FALSE), Cond(1, "", {}, FALSE), Cond(0, "a", {0, 1}, TRUE)}

\* Templates {{.x}}, {{.x.y}}, {{$.x}}, {{if .x}}{{.y}}{{end}}, {{Upper .x}} and
\* {{(.y).x}}.
FieldNode(n) == Node("field", << >>, n)
ListNode(k) == Node("list", k, << >>)
Action(k) == Node("action", <<Node("pipe", <<Node("command", k, << >>)>>, << >>)>>, << >>)
MCPrTemplates ==
  { ListNode(<< >>),
    ListNode(<<Action(<<FieldNode(<<"x">>)>>)>>),
    ListNode(<<Action(<<FieldNode(<<"x", "y">>)>>)>>),
    ListNode(<<Action(<<Node("variable", << >>, <<"$", "x">>)>>)>>),
    ListNode(<<Node("branch", <<Action(<<FieldNode(<<"x">>)>>),
                                ListNode(<<Action(<<FieldNode(<<"y">>)>>)>>)>>, << >>)>>),
    ListNode(<<Action(<<Node("function", << >>, << >>), FieldNode(<<"x">>)>>)>>),
    ListNode(<<Action(<<Node("chain", <<Action(<<FieldNode(<<"y">>)>>)>>, <<"x">>)>>)>>) }

Key(n, t, r, d, mn, mx, v) ==
  [name |-> n, type |-> t, required |-> r, default |-> d, min |-> mn, max |-> mx, values |-> v]
ValueOf(t, n) == [ty |-> t, n |-> n]
KeysOfX == {Key("x", t, r, d, mn, {2}, {2}) : t \in EnumTypes \cup {"date"}, r \in BOOLEAN,
                                             d \in {PrNil, ValueOf("int", 3)}, mn \in {{}, {1}}}
MCPrKeyLists ==
  {<< >>} \cup {<<k>> : k \in KeysOfX} \cup
  {<<k, Key("y", t, FALSE, ValueOf("string", 1), {}, {0}, {})>> : k \in KeysOfX, t \in {"string", "date"}}
MCPrInputs ==
  {<< >>} \cup
  [{"x"} -> {PrNil} \cup {ValueOf(t, n) : t \in {"string", "int", "float64", "bool", "list"},
                                     n \in {0, 2, 3, 5}}]

FileOf(c, h) ==
  [company |-> <<"num", c>>, size |-> <<"num", 1>>, url |-> <<"text", h>>,
   hash |-> <<"text", h>>, chunk_hash |-> <<"text", h>>]
MCFtFiles == {FileOf(1, 1), FileOf(2, 2)}
MCFtArgs == {<<"company", <<"num", 1>>>>, <<"hash", <<"text", 0>>>>}
MCFtPages == {<<1, 0>>, <<0, 1>>}

\* Every pattern of zeros up to a hundred million yuan.
MCMnDigits ==
  {<<"0">>} \cup UNION {{d \in [1..n -> {"0", "3"}] : d[1] # "0"} : n \in 1..11}
MCMnAmounts == -16..16

-----------------------------------------------------------------------------
SxInit ==
  /\ sxMode \in {"pool", "ports", "storage", "storage2", "multipart", "multipart2", "upload",
                 "files", "jobs", "settings", "cache", "registries", "stat", "scroll", "stream",
                 "metrics", "prompts", "render", "money"}
  /\ PoolInit /\ PpInit /\ UpInit /\ FtInit /\ SaInit /\ LsInit /\ MxInit /\ PdInit
  /\ StInit /\ (sxMode \notin {"storage", "storage2"} =>
                  stKind = "s3" /\ DOMAIN stObj = {KeyABX})
  /\ MuInit /\ (sxMode \notin {"multipart", "multipart2"} => muKind = "s3")
  /\ JbInit /\ (sxMode # "jobs" => jbKind = "export")
  /\ SgInit /\ (sgSecret \/ sgKey) /\ (sxMode # "settings" => sgKind = "memory" /\ ~sgSecret)
  /\ RcInit /\ (sxMode # "cache" => rcType = "string")
  /\ RgInit /\ (sxMode # "registries" => rgPart = "dbs" /\ rgConf = {"s3"})
  /\ ScInit /\ (sxMode # "scroll" => scIn.docs + scIn.bad + scIn.querySize
                                       + scIn.scrollSize + scIn.total = 0)
  /\ IF sxMode = "render" THEN PrInit ELSE prIn = << >> /\ prOut = NotCalled
  /\ IF sxMode = "money" THEN MnInit ELSE mnIn = NotAsked /\ mnOut = NotAsked

\* A step of one component leaves the others alone.
OthersKeep ==
  /\ UNCHANGED sxMode
  /\ sxMode # "pool" => UNCHANGED poolVars
  /\ sxMode # "ports" => UNCHANGED portVars
  /\ sxMode \notin {"storage", "storage2"} => UNCHANGED storageVars
  /\ sxMode \notin {"multipart", "multipart2"} => UNCHANGED multiVars
  /\ sxMode # "upload" => UNCHANGED uploadVars
  /\ sxMode # "files" => UNCHANGED fileVars
  /\ sxMode # "jobs" => UNCHANGED jobVars
  /\ sxMode # "settings" => UNCHANGED settingVars
  /\ sxMode # "cache" => UNCHANGED cacheVars
  /\ sxMode # "registries" => UNCHANGED registryVars
  /\ sxMode # "stat" => UNCHANGED statVars
  /\ sxMode # "scroll" => UNCHANGED scrollVars
  /\ sxMode # "stream" => UNCHANGED streamVars
  /\ sxMode # "metrics" => UNCHANGED metricVars
  /\ sxMode # "prompts" => UNCHANGED promptVars
  /\ sxMode # "render" => UNCHANGED renderVars
  /\ sxMode # "money" => UNCHANGED moneyVars

SxNext ==
  \/ sxMode = "pool" /\ PoolNext /\ OthersKeep
  \/ sxMode = "ports" /\ PpNext /\ OthersKeep
  \/ sxMode = "storage" /\ StNext /\ OthersKeep
  \/ sxMode = "storage2" /\ StV2Next /\ OthersKeep
  \/ sxMode = "multipart" /\ MuNext /\ OthersKeep
  \/ sxMode = "multipart2" /\ MuV2Next /\ OthersKeep
  \/ sxMode = "upload" /\ UpNext /\ OthersKeep
  \/ sxMode = "files" /\ FtNext /\ OthersKeep
  \/ sxMode = "jobs" /\ JbNext /\ OthersKeep
  \/ sxMode = "settings" /\ SgNext /\ OthersKeep
  \/ sxMode = "cache" /\ RcNext /\ OthersKeep
  \/ sxMode = "registries" /\ RgNext /\ OthersKeep
  \/ sxMode = "stat" /\ SaNext /\ OthersKeep
  \/ sxMode = "scroll" /\ ScNext /\ OthersKeep
  \/ sxMode = "stream" /\ LsNext /\ OthersKeep
  \/ sxMode = "metrics" /\ MxNext /\ OthersKeep
  \/ sxMode = "prompts" /\ PdNext /\ OthersKeep
  \/ sxMode = "render" /\ PrNext /\ OthersKeep
  \/ sxMode = "money" /\ MnNext /\ OthersKeep

\* The processes, clients, workers, readers and loaders of a component are
\* interchangeable.  They are the same two model values in every component, of
\* which a behaviour runs one, so one permutation swaps them everywhere.
SxSymmetry == Permutations(MuClients)

SxSpec == SxInit /\ [][SxNext]_sxVars

\* Every variable of the components keeps its type.
StoresTypeOK ==
  /\ PoolTypeOK /\ PpTypeOK /\ StTypeOK /\ MuTypeOK /\ UpTypeOK /\ JbTypeOK /\ SgTypeOK
  /\ SaTypeOK /\ ScTypeOK /\ LsTypeOK /\ MxTypeOK /\ PdTypeOK /\ PrTypeOK
  /\ FtTypeOK /\ RcTypeOK /\ RgTypeOK /\ MnTypeOK

\* A result that is collected piece by piece is whole when it is handed out:
\* the statistics of Execute, the documents of ScrollAll, the tool calls of
\* handleStream, and the rows of a FileQuery (StatComplete, ScrollComplete,
\* ToolCallsWhole, FilesFound).
ResultsComplete == StatComplete /\ ScrollComplete /\ ToolCallsWhole /\ FilesFound

\* What is rendered says what it was made from: prompts (RenderSound), and
\* amounts in digits and capitals (MoneyRight).
ConversionsSound == RenderSound /\ MoneyRight
=============================================================================
