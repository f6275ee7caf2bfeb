----------------------------- MODULE PromptRender -----------------------------
(***************************************************************************)
(* ValidateAndRender (prompt/model/render.go) on small templates.  A       *)
(* template is the tree that text/template parses: lists, actions, fields, *)
(* variables, if/range/with (one shape), calls of functions, chains as in  *)
(* (pipe).Name, and template calls.  A value is [ty, n]: its Go type and a *)
(* number: the length of a string or list, the integer, the halves of a    *)
(* float64, or the choice of an enum.  The empty list is the empty         *)
(* content; a call that reaches Execute ends with what Execute is given.   *)
(***************************************************************************)
EXTENDS Integers, Sequences, FiniteSetsExt

CONSTANTS PrTemplates, \* trees
          PrKeyLists,  \* sequences of declared keys
          PrInputs,    \* [name -> value] functions
          PrNil        \* the untyped nil

VARIABLES prIn,  \* the call: template, keys and values
          prOut  \* its result

renderVars == <<prIn, prOut>>

Node(kind, kids, names) == [kind |-> kind, kids |-> kids, names |-> names]

RECURSIVE walkAST(_)
RECURSIVE walkShallow(_)

walkShallow(node) ==
  CASE node.kind \in {"list", "action", "pipe", "command"} ->
         UNION {walkShallow(node.kids[i]) : i \in DOMAIN node.kids}
    [] node.kind = "field" -> {node.names[i] : i \in DOMAIN node.names}
    [] OTHER -> {}

\* The names of fields and variables; "$" at the start of a variable is
\* skipped; chains, template calls and everything else are not looked into.
walkAST(node) ==
  CASE node.kind \in {"list", "action", "pipe", "command", "branch"} ->
         UNION {walkAST(node.kids[i]) : i \in DOMAIN node.kids}
    [] node.kind = "field" -> {node.names[i] : i \in DOMAIN node.names}
    [] node.kind = "variable" ->
         {node.names[i] : i \in {j \in DOMAIN node.names : ~(j = 1 /\ node.names[j] = "$")}}
    [] OTHER -> {}

RECURSIVE Calls(_)
Calls(node) == node.kind = "function" \/ \E i \in DOMAIN node.kids : Calls(node.kids[i])

RenderError(why) == [err |-> why, vals |-> << >>]

\* ExtractVariableNames parses without DefaultFuncMap, so a template that calls
\* one of its functions does not parse.
ExtractVariableNames(content) == walkAST(content)
ExtractFails(content) == Calls(content)

EnumTypes == {"string", "int", "enum", "bool", "float", "list"}
isValidEnumType(t) == t \in EnumTypes

KeyNames(keys) == {keys[i].name : i \in DOMAIN keys}

\* ParseVariableKeys: "" when content and declarations agree, or the error.
ParseVariableKeys(content, keys) ==
  CASE content.kids = << >> -> "empty"
    [] ExtractFails(content) -> "parse"
    [] ~(ExtractVariableNames(content) \subseteq KeyNames(keys)) -> "undeclared"
    [] \E i \in DOMAIN keys : ~isValidEnumType(keys[i].type) -> "keytype"
    [] OTHER -> ""

GoTypes == [string |-> {"string"}, int |-> {"int", "int64", "float64"}, enum |-> {"string"},
            bool |-> {"bool"}, float |-> {"float64"}, list |-> {"list"}]

\* An "int" key converts: int(v) of a float64 cuts towards zero.
Converted(key, v) ==
  IF key.type # "int" THEN v
  ELSE [ty |-> "int", n |-> CASE v.ty # "float64" -> v.n
                              [] v.n >= 0 -> v.n \div 2
                              [] OTHER -> -((-v.n) \div 2)]

\* A bound of the key in the unit of the value's number.
Bound(key, m) == IF key.type = "float" THEN 2 * m ELSE m

\* The checks of one value that is given; max 0 is "no limit" for lengths, and
\* a bound of an integer or a float may be absent.
ValueError(key, v) ==
  CASE v.ty \notin GoTypes[key.type] -> "type"
    [] key.type \in {"string", "list"} /\ key.max # {} /\ \E m \in key.max : m > 0 /\ v.n > m -> "long"
    [] /\ key.type \in {"int", "float"}
       /\ \/ \E m \in key.min : Converted(key, v).n < Bound(key, m)
          \/ \E m \in key.max : Converted(key, v).n > Bound(key, m) -> "range"
    [] key.type = "enum" /\ v.n \notin key.values -> "enum"
    [] OTHER -> ""

Given(vals, key) == key.name \in DOMAIN vals /\ vals[key.name] # PrNil

KeyError(key, vals) ==
  IF Given(vals, key) THEN ValueError(key, vals[key.name])
  ELSE IF key.required THEN "missing" ELSE ""

\* ValidatePromptValue: the first key that fails decides; a missing optional
\* value is its default, which is not checked.
ValidatePromptValue(keys, vals) ==
  LET bad == {i \in DOMAIN keys : KeyError(keys[i], vals) # ""}
      has == {i \in DOMAIN keys : Given(vals, keys[i]) \/ keys[i].default # PrNil}
      Value(n) == LET i == Max({i \in has : keys[i].name = n})
                  IN  IF Given(vals, keys[i]) THEN Converted(keys[i], vals[n])
                      ELSE keys[i].default
  IN  IF bad # {} THEN RenderError(KeyError(keys[Min(bad)], vals))
      ELSE [err |-> "", vals |-> [n \in {keys[i].name : i \in has} |-> Value(n)]]

ValidateAndRender(in) ==
  LET parsed == ParseVariableKeys(in.content, in.keys)
  IN  IF parsed # "" THEN RenderError(parsed) ELSE ValidatePromptValue(in.keys, in.vals)

NotCalled == RenderError("none")

PrInit ==
  /\ prIn \in [content : PrTemplates, keys : PrKeyLists, vals : PrInputs]
  /\ prOut = NotCalled

RenderPrompt == prOut = NotCalled /\ prOut' = ValidateAndRender(prIn) /\ UNCHANGED prIn

PrNext == RenderPrompt

PrTypeOK == prOut.err \in {"none", "", "empty", "parse", "undeclared", "keytype",
                           "type", "long", "range", "enum", "missing"}

RECURSIVE Mentions(_)
Mentions(node) == {node.names[i] : i \in DOMAIN node.names} \cup
                  UNION {Mentions(node.kids[i]) : i \in DOMAIN node.kids}
RECURSIVE Has(_, _)
Has(node, kinds) == node.kind \in kinds \/ \E i \in DOMAIN node.kids : Has(node.kids[i], kinds)

\* What is rendered was declared and checked: of a template without chains and
\* template calls every name that occurs, in whatever branch, is a declared
\* key; every required key has a value; and every value that the caller gave has
\* the Go type of its key, lies between its bounds, is not longer than it allows,
\* and is one of its choices.  A default is not checked (render.go:39-258).
RenderSound ==
  prOut.err = "" =>
    /\ Has(prIn.content, {"chain", "template"})
         \/ Mentions(prIn.content) \subseteq KeyNames(prIn.keys) \cup {"$"}
    /\ \A i \in DOMAIN prIn.keys : prIn.keys[i].required =>
         prIn.keys[i].name \in DOMAIN prOut.vals
    /\ \A i \in DOMAIN prIn.keys : LET k == prIn.keys[i] IN
         Given(prIn.vals, k) =>
           /\ prOut.vals[k.name].ty \in GoTypes[k.type]
           /\ k.type = "int" => prOut.vals[k.name].ty = "int"
           /\ k.type \in {"int", "float"} =>
                /\ \A m \in k.max : prOut.vals[k.name].n =< Bound(k, m)
                /\ \A m \in k.min : prOut.vals[k.name].n >= Bound(k, m)
           /\ k.type \in {"string", "list"} => \A m \in k.max \ {0} : prOut.vals[k.name].n =< m
           /\ k.type = "enum" => prOut.vals[k.name].n \in k.values
=============================================================================
