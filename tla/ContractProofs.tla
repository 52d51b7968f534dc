---------------------------- MODULE ContractProofs ----------------------------
(***************************************************************************)
(* Proofs about node contracts, for every set of values, of declarations   *)
(* and of patterns.  The invariant is strengthened by Delivered: from the  *)
(* moment a builtin returned, its result is still what the operation makes *)
(* of the inputs that were recorded.                                       *)
(***************************************************************************)
EXTENDS ContractPromises, TLAPS

Made == IF Runnable(node.operation, inputs) THEN Returned(node.operation, inputs) ELSE {}

Delivered ==
  \/ Made = {} /\ result = Failure("NON_RETRYABLE_FAILURE")
  \/ \E out \in Made : result = Success(Kept(out, node.outputs))

Unexecuted == inputs = None /\ result = Nothing

ExecutionInvariant ==
  /\ ContractInvariant
  /\ stage \in {"declared", "rejected", "admitted"} => Unexecuted
  /\ stage \in {"returned", "failed", "booked", "verified"} /\ Builtin => Delivered

-----------------------------------------------------------------------------
LEMMA InitExecution == Init => ExecutionInvariant
  BY DEF Init, ExecutionInvariant, ContractInvariant, Unexecuted, Attempted

LEMMA StepExecution == ExecutionInvariant /\ [Next]_vars => ExecutionInvariant'
<1> SUFFICES ASSUME ExecutionInvariant, [Next]_vars PROVE ExecutionInvariant'
  OBVIOUS
<1> USE DEF ExecutionInvariant, ContractInvariant, Unexecuted, Attempted, NodeErrors, Builtin
<1>1. CASE Admit
  BY <1>1 DEF Admit
<1>2. CASE Execute
  <2>1. /\ stage = "admitted" /\ Builtin /\ stage' = "returned"
        /\ UNCHANGED <<node, booked>>
    BY <1>2 DEF Execute
  <2>2. Delivered'
    <3>1. LET made == IF Runnable(node.operation, inputs') THEN Returned(node.operation, inputs') ELSE {}
          IN  IF made = {} THEN result' = Failure("NON_RETRYABLE_FAILURE")
              ELSE \E out \in made : result' = Success(Kept(out, node.outputs))
      BY <1>2 DEF Execute
    <3>2. Made' = IF Runnable(node.operation, inputs') THEN Returned(node.operation, inputs') ELSE {}
      BY <2>1 DEF Made
    <3> QED BY <2>1, <3>1, <3>2 DEF Delivered
  <2> QED BY <2>1, <2>2
<1>3. CASE Submit
  BY <1>3 DEF Submit
<1>4. CASE Complete
  <2>1. stage = "returned" /\ stage' \in {"booked", "failed"} /\ UNCHANGED <<node, inputs, result>>
    BY <1>4 DEF Complete
  <2>2. stage' = "booked" =>
          result.outcome = "SUCCESS" /\ Accepted /\ booked' = result.outputs
    BY <1>4 DEF Complete
  <2>3. Delivered => Delivered'
    BY <2>1 DEF Delivered, Made
  <2>4. Accepted => Accepted'
    BY <2>1 DEF Accepted
  <2> QED BY <2>1, <2>2, <2>3, <2>4
<1>5. CASE Verify
  <2>1. stage = "booked" /\ UNCHANGED <<node, inputs, result, booked>>
    BY <1>5 DEF Verify
  <2>2. Confirmed
    BY <2>1 DEF Confirmed, Accepted
  <2>3. stage' = "verified"
    BY <1>5, <2>2 DEF Verify
  <2>4. (Delivered => Delivered') /\ (Accepted => Accepted')
    BY <2>1 DEF Delivered, Made, Accepted
  <2> QED BY <2>1, <2>3, <2>4
<1>6. CASE UNCHANGED vars
  <2>1. (Delivered => Delivered') /\ (Accepted => Accepted')
    BY <1>6 DEF vars, Delivered, Made, Accepted
  <2> QED BY <1>6, <2>1 DEF vars
<1> QED BY <1>1, <1>2, <1>3, <1>4, <1>5, <1>6 DEF Next

\* The strengthened invariant holds in every state.
THEOREM ExecutionInductive == Spec => []ExecutionInvariant
  BY InitExecution, StepExecution, PTL DEF Spec

\* Nothing runs that was declared with errors, and what is booked, and what verify confirms,
\* met the output contract and every criterion (admit, _complete_attempt, verify).
THEOREM BookedWasAccepted == Spec => []ContractInvariant
<1>1. ExecutionInvariant => ContractInvariant
  BY DEF ExecutionInvariant
<1> QED BY <1>1, ExecutionInductive, PTL

-----------------------------------------------------------------------------
(* Criteria that were admitted. *)

LEMMA SoundCriterion ==
  ASSUME NEW c, NEW outputs, NEW v, ~CriterionErrors(c, outputs)
  PROVE  ~Raises(c, v)
  BY DEF CriterionErrors, Raises, IsLength, IsNumber, Ordered, Sized, Plain, Valued

\* No criterion that was admitted raises, whatever value it is evaluated on
\* (contracts.py criterion_errors and evaluate_criterion).
THEOREM CriteriaNeverRaise == Spec => []AdmittedCriteriaNeverRaise
<1>1. ExecutionInvariant => AdmittedCriteriaNeverRaise
  BY SoundCriterion DEF ExecutionInvariant, ContractInvariant, AdmittedCriteriaNeverRaise, NodeErrors
<1> QED BY <1>1, ExecutionInductive, PTL

-----------------------------------------------------------------------------
(* What the builtin operations return. *)

LEMMA ReturnedNames ==
  ASSUME NEW o, NEW in, o.op \in DOMAIN Accepts, NEW out \in Returned(o, in)
  PROVE  DOMAIN out = Produces[o.op]
<1>1. CASE o.op = "identity" BY <1>1 DEF Returned, Produces
<1>2. CASE o.op = "measure"
  <2>1. Sized(in.value)
    BY <1>2 DEF Returned
  <2>2. Returned(o, in) = [length : {v \in Values : v.kind = "integer" /\ v.number = in.value.length},
                           words : {v \in Values : IsLength(v)}]
    BY <1>2, <2>1 DEF Returned
  <2>3. DOMAIN out = {"length", "words"}
    BY <2>2
  <2> QED BY <1>2, <2>3 DEF Produces
<1>3. CASE o.op = "text_transform" BY <1>3 DEF Returned, Produces
<1>4. CASE o.op = "compare" BY <1>4 DEF Returned, Produces
<1>5. CASE o.op = "require"
  <2>1. ~ \E a \in DOMAIN o.args : Problem(a, o.args[a], in.value)
    BY <1>5 DEF Returned
  <2>2. Returned(o, in) = [value : {in.value}, valid : Boolean(TRUE)]
    BY <1>5, <2>1 DEF Returned
  <2>3. DOMAIN out = {"value", "valid"}
    BY <2>2
  <2> QED BY <1>5, <2>3 DEF Produces
<1> QED BY <1>1, <1>2, <1>3, <1>4, <1>5 DEF Accepts

LEMMA DeliveredDeclared ==
  ASSUME ~NodeErrors, Builtin, Delivered, result.outcome = "SUCCESS"
  PROVE  DOMAIN result.outputs = DOMAIN node.outputs
<1>1. /\ node.operation.op \in DOMAIN Accepts
      /\ DOMAIN node.outputs \subseteq Produces[node.operation.op]
  BY DEF NodeErrors, OperationErrors
<1>2. PICK out \in Made : result = Success(Kept(out, node.outputs))
  BY DEF Delivered, Failure
<1>3. out \in Returned(node.operation, inputs)
  BY DEF Made
<1>4. DOMAIN out = Produces[node.operation.op]
  BY <1>1, <1>3, ReturnedNames
<1>5. result.outputs = [n \in DOMAIN out \cap DOMAIN node.outputs |-> out[n]]
  BY <1>2 DEF Success, Kept
<1>6. DOMAIN result.outputs = DOMAIN out \cap DOMAIN node.outputs
  BY <1>5
<1> QED BY <1>1, <1>4, <1>6

\* A builtin that succeeds delivers exactly the outputs its node declares
\* (executors.py BuiltinExecutor.execute; spec.py _normalize_node).
THEOREM BuiltinsDeliver == Spec => []BuiltinDeliversDeclared
<1>1. ExecutionInvariant => BuiltinDeliversDeclared
  <2> SUFFICES ASSUME ExecutionInvariant, Attempted, Builtin, result.outcome = "SUCCESS"
               PROVE  DOMAIN result.outputs = DOMAIN node.outputs
    BY DEF BuiltinDeliversDeclared
  <2>1. stage # "admitted"
    BY DEF ExecutionInvariant, Unexecuted, Nothing
  <2>2. ~NodeErrors /\ Delivered
    BY <2>1 DEF ExecutionInvariant, ContractInvariant, Attempted
  <2> QED BY <2>2, DeliveredDeclared
<1> QED BY <1>1, ExecutionInductive, PTL

-----------------------------------------------------------------------------
(* The operations and the criteria of the same name. *)

LEMMA ProblemIsFailedCriterion ==
  ASSUME NEW o, o.op = "require", ~OperationErrors(o),
         NEW a \in DOMAIN o.args, o.args[a] \in Values, NEW v
  PROVE  Problem(a, o.args[a], v) <=>
           ~((a = "non_empty" /\ IsFalse(o.args[a]))
             \/ Passes(Counterpart(a, o.args[a]), [value |-> v]))
<1> DEFINE limit == o.args[a]
<1>1. a \in {"type", "non_empty", "min_length", "max_length", "pattern"}
  BY DEF OperationErrors, Accepts
<1>2. ASSUME NEW check, NEW value
      PROVE  Passes(Criterion(check, value), [value |-> v]) <=>
               ~Raises(Criterion(check, value), v) /\ Holds(Criterion(check, value), v)
  <2>1. Criterion(check, value).output = "value"
    BY DEF Criterion
  <2>2. DOMAIN [value |-> v] = {"value"} /\ [value |-> v]["value"] = v
    OBVIOUS
  <2> QED BY <2>1, <2>2 DEF Passes
<1>3. CASE a = "type"
  <2>1. Counterpart(a, limit) = Criterion("type", limit)
    BY <1>3 DEF Counterpart
  <2>2. ~Raises(Criterion("type", limit), v)
    BY DEF Raises, Criterion
  <2>3. Holds(Criterion("type", limit), v) <=> is_type(v, limit.text)
    BY DEF Holds, Criterion
  <2>4. Problem(a, limit, v) <=> ~is_type(v, limit.text)
    BY <1>3 DEF Problem
  <2> QED BY <1>2, <1>3, <2>1, <2>2, <2>3, <2>4
<1>4. CASE a = "non_empty"
  <2>1. limit.kind = "boolean"
    BY <1>4 DEF OperationErrors
  <2>2. NonEmpty(v) <=> ~IsEmpty(v)
    BY DEF NonEmpty, IsEmpty, Sized
  <2>3. Counterpart(a, limit) = Criterion("non_empty", None)
    BY <1>4 DEF Counterpart
  <2>4. ~Raises(Criterion("non_empty", None), v)
    BY DEF Raises, Criterion
  <2>5. Holds(Criterion("non_empty", None), v) <=> NonEmpty(v)
    BY DEF Holds, Criterion
  <2>6. Problem(a, limit, v) <=> IsTrue(limit) /\ IsEmpty(v)
    BY <1>4 DEF Problem
  <2>7. IsTrue(limit) <=> ~IsFalse(limit)
    BY <2>1, ContractAssumption DEF IsTrue, IsFalse
  <2> QED BY <1>2, <1>4, <2>2, <2>3, <2>4, <2>5, <2>6, <2>7
<1>5. CASE a \in {"min_length", "max_length"}
  <2>1. Ordered(limit)
    BY <1>5 DEF OperationErrors, IsLength, Ordered
  <2>2. Counterpart(a, limit) = Criterion(a, limit)
    BY <1>5 DEF Counterpart
  <2>3. ~Raises(Criterion(a, limit), v)
    BY <1>5, <2>1 DEF Raises, Criterion
  <2>4. Holds(Criterion(a, limit), v) <=> ~Problem(a, limit, v)
    BY <1>5 DEF Holds, Criterion, Problem
  <2> QED BY <1>2, <1>5, <2>2, <2>3, <2>4
<1>6. CASE a = "pattern"
  <2>1. IsPattern(limit)
    BY <1>6 DEF OperationErrors
  <2>2. Counterpart(a, limit) = Criterion("matches", limit)
    BY <1>6 DEF Counterpart
  <2>3. ~Raises(Criterion("matches", limit), v)
    BY <2>1 DEF Raises, Criterion
  <2>4. Holds(Criterion("matches", limit), v) <=> ~Problem(a, limit, v)
    BY <1>6, SameBounds DEF Holds, Criterion, Problem
  <2> QED BY <1>2, <1>6, <2>2, <2>3, <2>4
<1> QED BY <1>1, <1>3, <1>4, <1>5, <1>6

LEMMA MadeUnlessProblem ==
  ASSUME NEW o, o.op = "require", NEW in
  PROVE  Returned(o, in) # {} <=> ~ \E a \in DOMAIN o.args : Problem(a, o.args[a], in.value)
<1>1. CASE \E a \in DOMAIN o.args : Problem(a, o.args[a], in.value)
  BY <1>1 DEF Returned
<1>2. CASE ~ \E a \in DOMAIN o.args : Problem(a, o.args[a], in.value)
  <2>1. PICK t \in Values : t.kind = "boolean" /\ t.number = 1
    BY ContractAssumption
  <2>2. t \in Boolean(TRUE)
    BY <2>1 DEF Boolean, IsTrue
  <2>3. Returned(o, in) = [value : {in.value}, valid : Boolean(TRUE)]
    BY <1>2 DEF Returned
  <2>4. [value |-> in.value, valid |-> t] \in Returned(o, in)
    BY <2>2, <2>3
  <2> QED BY <1>2, <2>4
<1> QED BY <1>1, <1>2

LEMMA RequireAgrees ==
  ASSUME ~NodeErrors, node \in Declared, Builtin, Delivered, "value" \in DOMAIN inputs,
         node.operation.op = "require"
  PROVE  result.outcome = "SUCCESS" <=>
           \A a \in DOMAIN node.operation.args :
             \/ a = "non_empty" /\ IsFalse(node.operation.args[a])
             \/ Passes(Counterpart(a, node.operation.args[a]), [value |-> inputs.value])
<1> DEFINE o == node.operation
<1>1. ~OperationErrors(o) /\ Runnable(o, inputs)
  BY DEF NodeErrors, Runnable
<1>2. Made = Returned(o, inputs)
  BY <1>1 DEF Made
<1>3. result.outcome = "SUCCESS" <=> Made # {}
  BY DEF Delivered, Success, Failure
<1>4. \A a \in DOMAIN o.args : o.args[a] \in Values
  BY ContractAssumption DEF Builtin
<1>5. \A a \in DOMAIN o.args :
        Problem(a, o.args[a], inputs.value) <=>
          ~((a = "non_empty" /\ IsFalse(o.args[a]))
            \/ Passes(Counterpart(a, o.args[a]), [value |-> inputs.value]))
  BY <1>1, <1>4, ProblemIsFailedCriterion
<1>6. Made # {} <=> ~ \E a \in DOMAIN o.args : Problem(a, o.args[a], inputs.value)
  BY <1>2, MadeUnlessProblem
<1> QED BY <1>3, <1>5, <1>6

LEMMA CompareAgrees ==
  ASSUME Builtin, Delivered, node.operation.op = "compare",
         result.outcome = "SUCCESS", "matches" \in DOMAIN result.outputs, NEW expected,
         expected = IF "expected" \in DOMAIN inputs THEN inputs.expected ELSE node.operation.args.expected
  PROVE  IsTrue(result.outputs.matches) <=>
           Passes(Criterion("equals", expected), [value |-> inputs.value])
<1>1. PICK out \in Made : result = Success(Kept(out, node.outputs))
  BY DEF Delivered, Failure
<1>2. out \in Returned(node.operation, inputs)
  BY <1>1 DEF Made
<1>3. out \in [matches : Boolean(Same(inputs.value, expected)), value : {inputs.value},
               expected : {expected}]
  BY <1>2 DEF Returned
<1>4. result.outputs.matches = out.matches
  BY <1>1 DEF Success, Kept
<1>5. out.matches \in Boolean(Same(inputs.value, expected))
  BY <1>3
<1>6. IsTrue(out.matches) <=> Same(inputs.value, expected)
  BY <1>5 DEF Boolean, IsTrue, IsFalse
<1>7. Passes(Criterion("equals", expected), [value |-> inputs.value]) <=> Same(inputs.value, expected)
  <2>1. ~Raises(Criterion("equals", expected), inputs.value)
    BY DEF Raises, Criterion
  <2>2. Holds(Criterion("equals", expected), inputs.value) <=> Same(inputs.value, expected)
    BY DEF Holds, Criterion
  <2>3. Criterion("equals", expected).output = "value"
    BY DEF Criterion
  <2> QED BY <2>1, <2>2, <2>3 DEF Passes
<1> QED BY <1>4, <1>6, <1>7

\* The operations judge a value as the criteria of the same name do (executors.py
\* _op_require, _op_compare, _is_empty; contracts.py evaluate_criterion).
THEOREM OperationsAgree == Spec => []OperationsAgreeWithCriteria
<1>1. ExecutionInvariant => OperationsAgreeWithCriteria
  <2> SUFFICES ASSUME ExecutionInvariant, Attempted, Builtin, inputs # None, "value" \in DOMAIN inputs
               PROVE  OperationsAgreeWithCriteria
    BY DEF OperationsAgreeWithCriteria
  <2>1. stage # "admitted"
    BY DEF ExecutionInvariant, Unexecuted
  <2>2. ~NodeErrors /\ Delivered /\ node \in Declared
    BY <2>1 DEF ExecutionInvariant, ContractInvariant, Attempted
  <2> QED BY <2>2, RequireAgrees, CompareAgrees DEF OperationsAgreeWithCriteria
<1> QED BY <1>1, ExecutionInductive, PTL
=============================================================================
