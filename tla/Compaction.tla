----------------------------- MODULE Compaction -----------------------------
(***************************************************************************)
(* What compactTool (metadata.go) makes of a tool: shorten on its          *)
(* description and the walk of shortenSchema over its two schemas.         *)
(*                                                                         *)
(* A JSON value is a record of its kind, of its text if it is a string     *)
(* ("short", within description_limit, "long", or "cut", a long one that   *)
(* was shortened), and of its values by key or by index.                   *)
(***************************************************************************)
EXTENDS Naturals, Sequences

CONSTANTS
  JSON,      \* the values that encoding/json decodes, and those shortened
  Height(_)  \* how deep one of them is nested

Empty == <<>>
Value(type, text, parts) == [type |-> type, text |-> text, parts |-> parts]
Null == Value("null", "", Empty)
Text(text) == Value("text", text, Empty)

Shorten(text) == IF text = "long" THEN "cut" ELSE text

\* A value is nested deeper than the values it holds, and stays a value if
\* these are exchanged for others as deep as they may be.
Among(w, v) == w \in JSON /\ Height(w) <= Height(v)
Within(w, v) == w \in JSON /\ Height(w) < Height(v)
Parts(v) == [DOMAIN v.parts -> {w \in JSON : Within(w, v)}]

ASSUME JSONAssumption ==
  \A v \in JSON :
    /\ Height(v) \in Nat /\ v = Value(v.type, v.text, v.parts)
    /\ \A k \in DOMAIN v.parts : Within(v.parts[k], v)
    /\ v.type = "text" => v.parts = Empty /\ Among(Text(Shorten(v.text)), v)
    /\ \A parts \in Parts(v) : Among(Value(v.type, v.text, parts), v)

\* Keywords with schemas by name, and with a schema or a list of schemas.
MapKeys ==
  {"properties", "patternProperties", "$defs", "definitions", "dependentSchemas", "dependencies"}
SchemaKeys ==
  {"items", "additionalProperties", "unevaluatedProperties", "unevaluatedItems", "contains",
   "propertyNames", "if", "then", "else", "not", "contentSchema", "allOf", "anyOf", "oneOf",
   "prefixItems"}

\* One call of shortenSchema; f stands for the calls it makes itself.
Each(f, w) == Value(w.type, w.text, [k \in DOMAIN w.parts |-> f[w.parts[k]]])
Member(f, k, w) ==
  CASE k = "description" /\ w.type = "text" -> Text(Shorten(w.text))
    [] k \in MapKeys /\ w.type = "object" -> Each(f, w)
    [] k \in SchemaKeys /\ w.type = "array" -> Each(f, w)
    [] k \in SchemaKeys /\ w.type # "array" -> f[w]
    [] OTHER -> w
Walked(f, v) ==
  IF v.type # "object" THEN v
  ELSE Value(v.type, v.text, [k \in DOMAIN v.parts |-> Member(f, k, v.parts[k])])

ShortenSchema[v \in JSON] == Walked(ShortenSchema, v)

CompactToolInput(tool) ==
  [text |-> Shorten(tool.text), input |-> ShortenSchema[tool.input], output |-> tool.output]
CompactTool(tool) ==
  [text |-> Shorten(tool.text), input |-> ShortenSchema[tool.input],
   output |-> ShortenSchema[tool.output]]

-----------------------------------------------------------------------------
(* What it ought to do, by the texts in a value and the paths to them.  A  *)
(* step of a path goes from an object or an array to one of its values.    *)

Step(of, key) == [of |-> of, key |-> key]
Entry(path, text) == [path |-> path, text |-> text]

Beneath(step, entries) == {Entry(<<step>> \o t.path, t.text) : t \in entries}
TextsIn(f, v) ==
  IF v.type = "text" THEN {Entry(Empty, v.text)}
  ELSE UNION {Beneath(Step(v.type, k), f[v.parts[k]]) : k \in DOMAIN v.parts}

Texts[v \in JSON] == TextsIn(Texts, v)

\* JSON Schema's meaning of the keywords above: if a schema is found after i
\* steps of path p then another one is after j.
SchemaStep(p, i, j) ==
  /\ p[i + 1].of = "object"
  /\ \/ j = i + 1 /\ p[i + 1].key \in SchemaKeys
     \/ j = i + 2 /\ p[i + 1].key \in SchemaKeys /\ p[i + 2].of = "array"
     \/ j = i + 2 /\ p[i + 1].key \in MapKeys /\ p[i + 2].of = "object"

SchemaFrom(p, m, n) ==
  \E S \in SUBSET (m..n) :
    m \in S /\ \A i \in S \ {n} : \E j \in S : SchemaStep(p, i, j)

IsGuidance(p) ==
  /\ Len(p) > 0 /\ p[Len(p)] = Step("object", "description")
  /\ SchemaFrom(p, 0, Len(p) - 1)

Guided(t) == Entry(t.path, IF IsGuidance(t.path) THEN Shorten(t.text) ELSE t.text)

\* v is w with its guidance within the limit, and with nothing else changed.
WellCompacted(v, w) == Texts[v] = {Guided(t) : t \in Texts[w]}
=============================================================================
