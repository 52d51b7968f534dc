------------------------------ MODULE Contracts ------------------------------
(***************************************************************************)
(* What a node's outputs must be (ge_runtime/contracts.py), and where they *)
(* come from: the builtin operations (executors.py) or a submission.  One  *)
(* node is followed from its declaration through admission and one attempt *)
(* to the verification of what was booked (engine.py _complete_attempt,    *)
(* verify).  RunEngine has the rest of a run, and its ValidOutputs are the *)
(* outputs this module accepts.                                            *)
(*                                                                         *)
(* A value is a record of what the checks can tell: its kind, its number   *)
(* or text (two values of a kind are equal when these are), its length, if *)
(* it is blank, the patterns that match all of it, an array's items.       *)
(***************************************************************************)
EXTENDS Integers

CONSTANTS
  Values,    \* JSON values
  Declared,  \* nodes that may be declared: operation, outputs, criteria
  Names,     \* names of outputs
  None,      \* an absent value
  Patterns,  \* texts that re.compile accepts and that are not too long
  MAX_TEXT_CHARS, MAX_MATCH_INPUT_CHARS

\* The model has the values that operations make of the ones it has.
ASSUME ContractAssumption ==
  /\ None \notin Values /\ \A v \in Values : v.length \in Nat /\ v.number \in Int
  /\ \A v \in Values : v.kind = "boolean" => v.number \in {0, 1}
  /\ \A b \in {0, 1} : \E v \in Values : v.kind = "boolean" /\ v.number = b
  /\ \A v \in Values : \E n \in Values : n.kind = "integer" /\ n.number = v.length
  /\ \A d \in Declared : d.operation # None =>
       \A a \in DOMAIN d.operation.args : d.operation.args[a] \in Values

\* Both modules allow 100_000 characters.
ASSUME SameBounds == MAX_TEXT_CHARS = MAX_MATCH_INPUT_CHARS

VARIABLES
  node,    \* the declaration
  stage,   \* how far it is
  inputs,  \* the resolved inputs of its attempt
  result,  \* what the executor returned, or the submission said
  booked   \* the outputs the run's state holds (None: none)

vars == <<node, stage, inputs, result, booked>>

-----------------------------------------------------------------------------
(* Types and success criteria. *)

KindsOf ==
  [string |-> {"string"}, boolean |-> {"boolean"}, integer |-> {"integer"},
   number |-> {"integer", "float"}, object |-> {"object"}, array |-> {"array"},
   any |-> {"string", "boolean", "integer", "float", "object", "array", "null"}]

VALUE_TYPES == DOMAIN KindsOf

is_type(v, type) == type \in VALUE_TYPES /\ v.kind \in KindsOf[type]

Sized(v)    == v.kind \in {"string", "array", "object"}
IsNumber(v) == v.kind \in {"integer", "float"}
Ordered(v)  == v.kind \in {"integer", "float", "boolean"}  \* Python compares it with a number
IsLength(v) == v.kind = "integer" /\ v.number >= 0
IsPattern(v) == v.kind = "string" /\ v.text \in Patterns

\* "type(a) is type(b) and a == b"
Same(a, b) == a.kind = b.kind /\ a.text = b.text /\ a.number = b.number

IsTrue(v)  == v.kind = "boolean" /\ v.number = 1
IsFalse(v) == v.kind = "boolean" /\ v.number = 0

Plain   == {"non_empty", "true", "false"}
Valued  == {"equals", "not_equals", "matches", "min_length", "max_length", "min", "max", "type", "in"}

CriterionErrors_AnyBound(c, outputs) ==
  \/ c.output \notin outputs \/ c.check \notin Plain \cup Valued
  \/ c.check \in Valued /\ c.value = None
  \/ c.check \in Plain /\ c.value # None
  \/ c.check = "matches" /\ ~IsPattern(c.value)
  \/ c.check \in {"min_length", "max_length"} /\ ~IsLength(c.value)
  \/ c.check = "type" /\ ~(c.value.kind = "string" /\ c.value.text \in VALUE_TYPES)
  \/ c.check = "in" /\ c.value.kind # "array"

\* criterion_errors: what admission refuses in a criterion.
CriterionErrors(c, outputs) ==
  \/ c.output \notin outputs \/ c.check \notin Plain \cup Valued
  \/ c.check \in Valued /\ c.value = None
  \/ c.check \in Plain /\ c.value # None
  \/ c.check = "matches" /\ ~IsPattern(c.value)
  \/ c.check \in {"min_length", "max_length"} /\ ~IsLength(c.value)
  \/ c.check \in {"min", "max"} /\ ~IsNumber(c.value)
  \/ c.check = "type" /\ ~(c.value.kind = "string" /\ c.value.text \in VALUE_TYPES)
  \/ c.check = "in" /\ c.value.kind # "array"

\* Where evaluating a check would raise: an operand that Python cannot compile, compare
\* or iterate. evaluate_criterion answers "failed" there.
Raises(c, actual) ==
  \/ /\ c.check = "matches" /\ ~IsPattern(c.value)
     /\ actual.kind = "string" /\ actual.length <= MAX_MATCH_INPUT_CHARS
  \/ c.check \in {"min_length", "max_length"} /\ Sized(actual) /\ ~Ordered(c.value)
  \/ c.check \in {"min", "max"} /\ IsNumber(actual) /\ ~Ordered(c.value)
  \/ c.check = "in" /\ ~Sized(c.value)

NonEmpty(v) == IF v.kind = "string" THEN ~v.blank
               ELSE v.kind # "null" /\ ~(Sized(v) /\ v.length = 0)

Holds(c, actual) ==
  CASE c.check = "non_empty"  -> NonEmpty(actual)
    [] c.check = "true"       -> IsTrue(actual)
    [] c.check = "false"      -> IsFalse(actual)
    [] c.check = "equals"     -> Same(actual, c.value)
    [] c.check = "not_equals" -> ~Same(actual, c.value)
    [] c.check = "matches"    -> /\ actual.kind = "string" /\ actual.length <= MAX_MATCH_INPUT_CHARS
                                 /\ c.value.text \in actual.matched
    [] c.check = "min_length" -> Sized(actual) /\ actual.length >= c.value.number
    [] c.check = "max_length" -> Sized(actual) /\ actual.length <= c.value.number
    [] c.check = "min"        -> IsNumber(actual) /\ actual.number >= c.value.number
    [] c.check = "max"        -> IsNumber(actual) /\ actual.number <= c.value.number
    [] c.check = "type"       -> is_type(actual, c.value.text)
    [] c.check = "in"         -> \E item \in c.value.items : Same(actual, item)

\* evaluate_criterion.
Passes(c, outputs) ==
  /\ c.output \in DOMAIN outputs
  /\ ~Raises(c, outputs[c.output]) /\ Holds(c, outputs[c.output])

\* output_contract_errors.
OutputErrors(declared, outputs) ==
  \/ \E n \in DOMAIN outputs : n \notin DOMAIN declared
  \/ \E n \in DOMAIN declared :
       IF n \in DOMAIN outputs THEN ~is_type(outputs[n], declared[n].type) ELSE declared[n].required

-----------------------------------------------------------------------------
(* The builtin operations. *)

Accepts == [identity |-> {}, measure |-> {}, text_transform |-> {"steps"}, compare |-> {"expected"},
            require |-> {"type", "non_empty", "min_length", "max_length", "pattern"}]

Produces == [identity |-> {"value"}, measure |-> {"length", "words"}, text_transform |-> {"value"},
             compare |-> {"matches", "value", "expected"}, require |-> {"value", "valid"}]

\* The lists of text steps are the arrays whose text is "steps".
IsSteps(v) == v.kind = "array" /\ v.text = "steps"

OperationErrors(o) ==
  \/ o.op \notin DOMAIN Accepts
  \/ ~(DOMAIN o.args \subseteq Accepts[o.op])
  \/ /\ o.op = "require"
     /\ \E a \in DOMAIN o.args :
          \/ a = "type" /\ ~(o.args[a].kind = "string" /\ o.args[a].text \in VALUE_TYPES)
          \/ a \in {"min_length", "max_length"} /\ ~IsLength(o.args[a])
          \/ a = "non_empty" /\ o.args[a].kind # "boolean"
          \/ a = "pattern" /\ ~IsPattern(o.args[a])
  \/ o.op = "text_transform" /\ ~("steps" \in DOMAIN o.args /\ IsSteps(o.args.steps))

IsEmpty_UnlessSpaces(v) == v.kind = "null" \/ (Sized(v) /\ v.length = 0)

IsEmpty(v) ==
  \/ v.kind = "null"
  \/ v.kind = "string" /\ v.blank
  \/ v.kind \in {"array", "object"} /\ v.length = 0

\* _op_require: what is wrong with the value, argument by argument.
Problem(arg, limit, v) ==
  CASE arg = "type"       -> ~is_type(v, limit.text)
    [] arg = "non_empty"  -> IsTrue(limit) /\ IsEmpty(v)
    [] arg = "min_length" -> ~(Sized(v) /\ v.length >= limit.number)
    [] arg = "max_length" -> ~(Sized(v) /\ v.length <= limit.number)
    [] arg = "pattern"    -> ~(v.kind = "string" /\ v.length <= MAX_TEXT_CHARS /\ limit.text \in v.matched)

Boolean(b) == {v \in Values : IF b THEN IsTrue(v) ELSE IsFalse(v)}

\* What the handlers may return for their inputs: sets of outputs, none where they fail. The
\* text a transformation makes, and the words measured, are left open.
Returned(o, in) ==
  CASE o.op = "identity" -> [value : {in.value}]
    [] o.op = "require" ->
         IF \E a \in DOMAIN o.args : Problem(a, o.args[a], in.value) THEN {}
         ELSE [value : {in.value}, valid : Boolean(TRUE)]
    [] o.op = "text_transform" ->
         IF in.value.kind # "string" \/ in.value.length > MAX_TEXT_CHARS THEN {}
         ELSE [value : {v \in Values : v.kind = "string"}]
    [] o.op = "compare" ->
         LET expected == IF "expected" \in DOMAIN in THEN in.expected ELSE o.args.expected
         IN  [matches : Boolean(Same(in.value, expected)), value : {in.value}, expected : {expected}]
    [] o.op = "measure" ->
         IF ~Sized(in.value) THEN {}
         ELSE [length : {v \in Values : v.kind = "integer" /\ v.number = in.value.length},
               words : {v \in Values : IsLength(v)}]

Reads(o) == IF o.op = "compare" THEN {"value", "expected"} ELSE {"value"}

Runnable(o, in) ==
  /\ ~OperationErrors(o) /\ "value" \in DOMAIN in
  /\ o.op = "compare" => "expected" \in DOMAIN in \cup DOMAIN o.args

Kept_All(outputs, declared) == outputs

\* An operation may produce more than the node declares: only declared outputs leave it.
Kept(outputs, declared) == [n \in DOMAIN outputs \cap DOMAIN declared |-> outputs[n]]

-----------------------------------------------------------------------------
Builtin == node.operation # None

NodeErrors ==
  \/ \E c \in node.criteria : CriterionErrors(c, DOMAIN node.outputs)
  \/ /\ Builtin
     /\ \/ OperationErrors(node.operation)
        \/ ~(DOMAIN node.outputs \subseteq Produces[node.operation.op])

Nothing == [outcome |-> "none", outputs |-> None]
Success(outputs) == [outcome |-> "SUCCESS", outputs |-> outputs]
Failure(outcome) == [outcome |-> outcome, outputs |-> None]

Init ==
  /\ node \in Declared /\ stage = "declared"
  /\ inputs = None /\ result = Nothing /\ booked = None

\* admit: a node with errors never runs.
Admit ==
  /\ stage = "declared" /\ stage' = IF NodeErrors THEN "rejected" ELSE "admitted"
  /\ UNCHANGED <<node, inputs, result, booked>>

\* BuiltinExecutor.execute.
Execute ==
  /\ stage = "admitted" /\ Builtin /\ stage' = "returned"
  /\ \E present \in SUBSET Reads(node.operation) : \E in \in [present -> Values] :
       /\ inputs' = in
       /\ LET made == IF Runnable(node.operation, in) THEN Returned(node.operation, in) ELSE {}
          IN  IF made = {} THEN result' = Failure("NON_RETRYABLE_FAILURE")
              ELSE \E out \in made : result' = Success(Kept(out, node.outputs))
  /\ UNCHANGED <<node, booked>>

\* submit: outputs by name, or something else, or a report of failure.
Submit ==
  /\ stage = "admitted" /\ ~Builtin /\ stage' = "returned"
  /\ \/ \E given \in SUBSET Names : \E out \in [given -> Values] : result' = Success(out)
     \/ result' \in {Failure("NON_RETRYABLE_FAILURE"), Failure("RETRYABLE_FAILURE")}
  /\ UNCHANGED <<node, inputs, booked>>

Accepted == ~OutputErrors(node.outputs, result.outputs)
            /\ \A c \in node.criteria : Passes(c, result.outputs)

Complete_ByContract ==
  /\ stage = "returned" /\ UNCHANGED <<node, inputs, result>>
  /\ IF result.outcome = "SUCCESS" /\ ~OutputErrors(node.outputs, result.outputs)
     THEN stage' = "booked" /\ booked' = result.outputs
     ELSE stage' = "failed" /\ UNCHANGED booked

\* _complete_attempt: "an executor reporting success is never enough".
Complete ==
  /\ stage = "returned" /\ UNCHANGED <<node, inputs, result>>
  /\ IF result.outcome = "SUCCESS" /\ Accepted
     THEN stage' = "booked" /\ booked' = result.outputs
     ELSE stage' = "failed" /\ UNCHANGED booked

\* verify: the stored outputs are checked again; empty ones count as none.
Confirmed ==
  /\ ~OutputErrors(node.outputs, booked)
  /\ \A c \in node.criteria : Passes(c, booked)

Verify ==
  /\ stage = "booked" /\ stage' = IF Confirmed THEN "verified" ELSE "refuted"
  /\ UNCHANGED <<node, inputs, result, booked>>

Next == Admit \/ Execute \/ Submit \/ Complete \/ Verify

Spec == Init /\ [][Next]_vars
=============================================================================
