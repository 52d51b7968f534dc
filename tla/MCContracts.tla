---------------------------- MODULE MCContracts ----------------------------
(***************************************************************************)
(* Values of every kind, at the bounds of the checks; nodes with every     *)
(* criterion, and with every operation and combination of its arguments.   *)
(***************************************************************************)
EXTENDS ContractPromises, FiniteSets, TLC

Value(kind, text, number, length, blank, matched, items) ==
  [kind |-> kind, text |-> text, number |-> number, length |-> length, blank |-> blank,
   matched |-> matched, items |-> items]

Text(text, length, blank, matched) == Value("string", text, 0, length, blank, matched, {})
Number(kind, n) == Value(kind, "", n, 0, FALSE, {}, {})

MCPatterns == {"p"}
Array(text, items) == Value("array", text, 0, Cardinality(items), FALSE, {}, items)

\* "xxxx" is longer than MAX_TEXT_CHARS, 3 here.
Strings == {Text("", 0, TRUE, {}), Text(" ", 1, TRUE, {}), Text("p", 1, FALSE, {"p"}),
            Text("string", 2, FALSE, {}), Text("(", 1, FALSE, {}), Text("xxxx", 4, FALSE, {"p"})}
Numbers == {Number("integer", n) : n \in -1..4} \cup {Number("float", 1)}
             \cup {Number("boolean", n) : n \in 0..1}
MCValues ==
  Strings \cup Numbers \cup
  {Number("null", 0), Array("", {}), Array("mixed", {Number("integer", 1), Text("p", 1, FALSE, {"p"})}),
   Array("steps", {Text("strip", 2, FALSE, {})}),
   Value("object", "", 0, 0, FALSE, {}, {}), Value("object", "one", 0, 1, FALSE, {}, {})}

MCNames == {"value", "other"}

Output(type, required) == [type |-> type, required |-> required]

\* Agent nodes: each criterion, sound or not, on an output of each type.
AgentNodes ==
  [operation : {None},
   outputs : {[n \in {"value"} |-> Output(t, r)] : t \in {"any", "integer", "number"}, r \in BOOLEAN},
   criteria : {{[output |-> o, check |-> c, value |-> v]} :
                 o \in {"value", "absent"}, c \in Plain \cup Valued \cup {"unknown"}, v \in MCValues \cup {None}}]

Optional(arg, limits) == {<<>>} \cup {arg :> l : l \in limits}

Args ==
  {a @@ b @@ c @@ d :
     a \in Optional("type", {Text("string", 2, FALSE, {}), Text("p", 1, FALSE, {"p"})}),
     b \in Optional("non_empty", {Number("boolean", 0), Number("boolean", 1), Number("null", 0)}),
     c \in Optional("min_length", {Number("integer", n) : n \in {-1, 1, 2}})
             \cup Optional("max_length", {Number("integer", n) : n \in {1, 3}} \cup {Number("float", 1)}),
     d \in Optional("pattern", {Text("p", 1, FALSE, {"p"}), Text("(", 1, FALSE, {})})}

MCOperations ==
  {[op |-> "require", args |-> a] : a \in Args}
    \cup {[op |-> o, args |-> <<>>] : o \in {"identity", "measure", "compare", "text_transform", "unknown"}}
    \cup {[op |-> "compare", args |-> "expected" :> v] : v \in {Number("integer", 1), Number("boolean", 1)}}
    \cup {[op |-> "text_transform", args |-> "steps" :> v] : v \in {a \in MCValues : a.kind = "array"}}

Judged == [output |-> "value", check |-> "non_empty", value |-> None]

\* Builtin nodes: all outputs of the operation, one, or one that it does not make.
BuiltinNodes ==
  UNION {{[operation |-> o, outputs |-> [n \in names |-> Output(type, TRUE)],
           criteria |-> IF "value" \in names THEN {Judged} ELSE {}] :
            type \in {"any", "integer"},
            names \in {{"value"}, {"length", "words"}, {"matches"}, {"value", "valid"}, {"other"}, {}}} :
         o \in MCOperations}

MCDeclared == AgentNodes \cup BuiltinNodes
=============================================================================
