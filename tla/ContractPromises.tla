-------------------------- MODULE ContractPromises --------------------------
(***************************************************************************)
(* What admission, the executors and the checks promise each other about a *)
(* node's outputs.                                                         *)
(***************************************************************************)
EXTENDS Contracts

Attempted == stage \notin {"declared", "rejected"}

\* The inductive invariant: what runs was admitted without errors, and what is booked is a
\* success that met the output contract and every criterion, so verify, which checks the
\* stored outputs again, never refutes it (_complete_attempt, verify).
ContractInvariant ==
  /\ node \in Declared
  /\ stage \in {"declared", "rejected", "admitted", "returned", "failed", "booked", "verified"}
  /\ Attempted => ~NodeErrors
  /\ stage \in {"booked", "verified"} =>
       result.outcome = "SUCCESS" /\ booked = result.outputs /\ Accepted

\* No criterion that was admitted can raise when it is evaluated, whatever the executor or
\* the submission delivers: criterion_errors leaves evaluate_criterion nothing to catch.
AdmittedCriteriaNeverRaise ==
  Attempted => \A c \in node.criteria, v \in Values : ~Raises(c, v)

\* A builtin that succeeds delivers each output the node declares and no other: admission
\* compared names with what the operation produces (spec.py:286), the executor drops the
\* rest (executors.py:189), and the output contract is checked in a third place.
BuiltinDeliversDeclared ==
  Attempted /\ Builtin /\ result.outcome = "SUCCESS" => DOMAIN result.outputs = DOMAIN node.outputs

Criterion(check, value) == [output |-> "value", check |-> check, value |-> value]

\* The criterion that says the same as an argument of "require".
Counterpart(arg, limit) ==
  CASE arg = "type"       -> Criterion("type", limit)
    [] arg = "non_empty"  -> Criterion("non_empty", None)
    [] arg = "min_length" -> Criterion("min_length", limit)
    [] arg = "max_length" -> Criterion("max_length", limit)
    [] arg = "pattern"    -> Criterion("matches", limit)

\* The operations "require" and "compare" judge a value exactly as the success criteria of
\* the same name do, which are written apart from them (executors.py _op_require,
\* _op_compare, _is_empty; contracts.py evaluate_criterion).
OperationsAgreeWithCriteria ==
  Attempted /\ Builtin /\ inputs # None /\ "value" \in DOMAIN inputs =>
    LET o == node.operation
        given == [value |-> inputs.value]
    IN  /\ o.op = "require" =>
             (result.outcome = "SUCCESS" <=>
                \A a \in DOMAIN o.args :
                  (a = "non_empty" /\ IsFalse(o.args[a])) \/ Passes(Counterpart(a, o.args[a]), given))
        /\ o.op = "compare" /\ result.outcome = "SUCCESS" /\ "matches" \in DOMAIN result.outputs =>
             LET expected == IF "expected" \in DOMAIN inputs THEN inputs.expected ELSE o.args.expected
             IN  IsTrue(result.outputs.matches) <=> Passes(Criterion("equals", expected), given)
=============================================================================
