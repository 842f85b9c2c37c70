----------------------------- MODULE MCEndpoint -----------------------------
(***************************************************************************)
(* Tools to try Endpoint on: a long text under every chain of at most      *)
(* Depth keywords and lists.  The walk treats the keys of an object one by *)
(* one.                                                                    *)
(***************************************************************************)
EXTENDS Endpoint

CONSTANT Depth

Keywords == {"description", "properties", "items", "default"}

Object(key, v) == Value("object", "", [k \in {key} |-> v])
Array(v) == Value("array", "", [k \in {"0"} |-> v])

Chains(leaves) ==
  LET chain[n \in 0..Depth] ==
        IF n = 0 THEN leaves
        ELSE leaves \cup {Object(k, v) : k \in Keywords, v \in chain[n - 1]}
             \cup {Array(v) : v \in chain[n - 1]}
  IN chain[Depth]

Values == Chains({Null, Text("long"), Text("cut")})
Decoded == Values

RECURSIVE Nesting(_)
Nesting(v) ==
  IF v.parts = Empty THEN 0
  ELSE 1 + Nesting(v.parts[CHOOSE k \in DOMAIN v.parts : TRUE])

Tool(text, input, output) == [text |-> text, input |-> input, output |-> output]
Plain(text) == Tool(text, Null, Null)

PlainTools == {Plain("short"), Plain("long")}
SchemaTools ==
  LET schemas == {v \in Chains({Text("long")}) : v.type = "object"}
  IN {Tool("long", v, Null) : v \in schemas} \cup {Tool("short", Null, v) : v \in schemas}
ShortTool == Plain("short")
=============================================================================
