------------------------------ MODULE RunRecord ------------------------------
(***************************************************************************)
(* The run state of ge_runtime/engine.py (what state.json holds) and the   *)
(* engine's helpers as functions from one run record to the next: gates,   *)
(* readiness, completion of an attempt, failure, recovery, settlement and  *)
(* verification.  RunEngine runs them in the order the code does.          *)
(*                                                                         *)
(* Left out of the record because nothing below depends on it: messages,   *)
(* timestamps, per-attempt history, resolved inputs and the gate named in  *)
(* a hold.                                                                 *)
(***************************************************************************)
EXTENDS GraphSpec

NodeTerminal == {"SUCCEEDED", "FAILED", "BLOCKED", "SKIPPED"}
NodeStatus   == {"PENDING", "READY", "RUNNING"} \cup NodeTerminal
RunTerminal  == {"SUCCEEDED", "FAILED", "CANCELLED"}
RunStatus    == {"DRAFT", "APPROVED", "RUNNING", "WAITING"} \cup RunTerminal
Waits        == {"none", "approval", "submission", "review", "attention"}
PlanApproval == {"none", "APPROVED", "DENIED", "NOT_REQUIRED"}
Decisions    == {"none", "APPROVED", "DENIED"}

\* The outcomes the engine tells apart: TIMEOUT counts as RETRYABLE_FAILURE,
\* every other failure as NON_RETRYABLE_FAILURE.
Outcomes == {"SUCCESS", "RETRYABLE_FAILURE", "NON_RETRYABLE_FAILURE"}

NodeState == [status : NodeStatus, wait : Waits, attempts : Nat,
              outputs : Outputs \cup {NoOutput}]
GateState == [decision : Decisions, binding : Outputs \cup {NoOutput}]

\* A hold is <<kind, node>>; the run-level holds name no node.
Holds == ((Waits \ {"none"}) \X Nodes) \cup {<<"budget">>, <<"deadlocked">>}

Run == [status : RunStatus, plan : PlanApproval, stopped : BOOLEAN,
        gates : [Gates -> GateState], nodes : [Nodes -> NodeState],
        holds : SUBSET Holds, verification : {"none", "VERIFIED", "NOT_VERIFIED"}]

Results == {[outcome |-> "SUCCESS", outputs |-> o] : o \in Outputs}
             \cup [outcome : Outcomes \ {"SUCCESS"}, outputs : {NoOutput}]

-----------------------------------------------------------------------------
(* Creation.                                                               *)

\* The state create() saves: DRAFT, or APPROVED when no plan approval is required.
NewRun(status, plan) ==
  [status |-> status, plan |-> plan, stopped |-> FALSE,
   gates |-> [g \in Gates |-> [decision |-> "none", binding |-> NoOutput]],
   nodes |-> [n \in Nodes |-> [status |-> "PENDING", wait |-> "none",
                               attempts |-> 0, outputs |-> NoOutput]],
   holds |-> {}, verification |-> "none"]

Open(r, n) == r.nodes[n].status \notin NodeTerminal

PlanCleared(r) == r.plan \in {"APPROVED", "NOT_REQUIRED"}

-----------------------------------------------------------------------------
(* Gates.                                                                  *)

\* What an approval of g is bound to besides the (immutable) spec, run and gate:
\* a review also binds the outputs reviewed.
Binding(r, g) == IF GateType[g] = "review" THEN r.nodes[GateNode[g]].outputs ELSE NoOutput

Decided(r, g, decision) ==
  [r EXCEPT !.gates[g] = [decision |-> decision, binding |-> Binding(r, g)]]

Approved(r, g) == r.gates[g] = [decision |-> "APPROVED", binding |-> Binding(r, g)]

PendingGates_FirstOnly(r, n, type) ==
  {g \in GatesOf(n, type) : GateRank[g] = 1 /\ ~Approved(r, g)}

\* The gates of n still to be approved; _pending_gate returns the first of them.
PendingGates(r, n, type) == {g \in GatesOf(n, type) : ~Approved(r, g)}

IsPendingGate(r, g) ==
  LET pending == PendingGates(r, GateNode[g], GateType[g])
  IN  g \in pending /\ \A h \in pending : GateRank[g] <= GateRank[h]

Denied(r, n) == \E g \in Gates : GateNode[g] = n /\ r.gates[g].decision = "DENIED"

-----------------------------------------------------------------------------
(* Readiness, failure, completion.                                         *)

Skipped_AsCancelled(s) == [s EXCEPT !.status = "CANCELLED", !.wait = "none"]

Skipped(s) == [s EXCEPT !.status = "SKIPPED", !.wait = "none"]

SkipOpenNodes(r) ==
  [r EXCEPT !.nodes = [n \in Nodes |-> IF Open(r, n) THEN Skipped(r.nodes[n]) ELSE r.nodes[n]]]

BadDependency_Unfinished(r, n) == \E d \in DependsOn[n] : r.nodes[d].status # "SUCCEEDED"

BadDependency(r, n) == \E d \in DependsOn[n] : r.nodes[d].status \in {"FAILED", "BLOCKED", "SKIPPED"}

DependenciesMet_Any(r, n) ==
  DependsOn[n] = {} \/ \E d \in DependsOn[n] : r.nodes[d].status = "SUCCEEDED"

DependenciesMet(r, n) == \A d \in DependsOn[n] : r.nodes[d].status = "SUCCEEDED"

\* _refresh_readiness for one node.
Refreshed(r, n) ==
  LET s == r.nodes[n]
  IN  CASE s.status \notin {"PENDING", "READY"} -> s
        [] s.status \in {"PENDING", "READY"} /\ r.stopped -> Skipped(s)
        [] s.status \in {"PENDING", "READY"} /\ ~r.stopped /\ BadDependency(r, n) ->
             [s EXCEPT !.status = "BLOCKED", !.wait = "none"]
        [] s.status = "PENDING" /\ ~r.stopped /\ DependenciesMet(r, n) -> [s EXCEPT !.status = "READY"]
        [] OTHER -> s

\* A node fails: _record_failure with its caller's FAILED.  on_failure: stop
\* also ends every other node that is waiting while RUNNING.
FailNode(r, n) ==
  LET stops == n \in StopOnFailure
      swept(m) == stops /\ r.nodes[m].status = "RUNNING"
                        /\ r.nodes[m].wait \in {"submission", "attention", "review"}
  IN  [r EXCEPT !.stopped = @ \/ stops,
                !.nodes = [m \in Nodes |->
                    IF m = n THEN [r.nodes[m] EXCEPT !.status = "FAILED", !.wait = "none"]
                    ELSE IF swept(m) THEN Skipped(r.nodes[m]) ELSE r.nodes[m]]]

\* An attempt of n begins.
Started(r, n) ==
  [r EXCEPT !.nodes[n].status = "RUNNING", !.nodes[n].wait = "none", !.nodes[n].attempts = @ + 1]

RetryAllowed_OneMore(r, n, outcome) ==
  /\ outcome = "RETRYABLE_FAILURE" /\ r.nodes[n].attempts <= MaxAttempts[n]
  /\ n \in Idempotent /\ n \notin SideEffects

RetryAllowed(r, n, outcome) ==
  /\ outcome = "RETRYABLE_FAILURE"
  /\ r.nodes[n].attempts < MaxAttempts[n]
  /\ n \in Idempotent /\ n \notin SideEffects

Outcome_AsReported(result) == result.outcome

\* A reported success still has to meet the output contract and the criteria.
Outcome(result) ==
  IF result.outcome = "SUCCESS" /\ result.outputs \notin ValidOutputs
  THEN "RETRYABLE_FAILURE" ELSE result.outcome

\* _complete_attempt.
CompleteAttempt(r, n, result) ==
  LET outcome == Outcome(result)
      stored  == [r EXCEPT !.nodes[n].outputs = result.outputs]
  IN  CASE outcome = "SUCCESS" /\ PendingGates(stored, n, "review") # {} ->
             [stored EXCEPT !.nodes[n].wait = "review"]
        [] outcome = "SUCCESS" /\ PendingGates(stored, n, "review") = {} ->
             [stored EXCEPT !.nodes[n].status = "SUCCEEDED"]
        [] outcome # "SUCCESS" /\ RetryAllowed(r, n, outcome) ->
             [r EXCEPT !.nodes[n].status = "READY"]
        [] OTHER -> FailNode(r, n)

-----------------------------------------------------------------------------
(* Recovery, settlement, verification.                                     *)

Interrupted_Waiting(r, n) ==
  r.nodes[n].status = "RUNNING" /\ r.nodes[n].wait \in {"none", "submission"}

\* RUNNING on disk with nobody waiting for it: the process died under it.
Interrupted(r, n) == r.nodes[n].status = "RUNNING" /\ r.nodes[n].wait = "none"

Recovered_Replaying(r) ==
  [r EXCEPT !.nodes = [n \in Nodes |->
      IF Interrupted(r, n) THEN [r.nodes[n] EXCEPT !.status = "READY"] ELSE r.nodes[n]]]

\* resume() re-queues interrupted safe nodes and holds the others for the operator.
Recovered(r) ==
  [r EXCEPT !.nodes = [n \in Nodes |->
      IF ~Interrupted(r, n) THEN r.nodes[n]
      ELSE IF n \in Unsafe THEN [r.nodes[n] EXCEPT !.wait = "attention"]
      ELSE [r.nodes[n] EXCEPT !.status = "READY"]]]

HoldsOf_IgnoringAttention(r, exhausted) ==
  LET waiting == {n \in Nodes : r.nodes[n].wait \notin {"none", "attention"}}
      held    == {<<r.nodes[n].wait, n>> : n \in waiting}
                   \cup (IF exhausted THEN {<<"budget">>} ELSE {})
  IN  IF held = {} THEN {<<"deadlocked">>} ELSE held

HoldsOf(r, exhausted) ==
  LET waiting == {n \in Nodes : r.nodes[n].wait # "none"}
      held    == {<<r.nodes[n].wait, n>> : n \in waiting}
                   \cup (IF exhausted THEN {<<"budget">>} ELSE {})
  IN  IF held = {} THEN {<<"deadlocked">>} ELSE held

FinalStatus_AnySuccess(r) ==
  IF \E n \in Nodes : r.nodes[n].status = "SUCCEEDED" THEN "SUCCEEDED" ELSE "FAILED"

FinalStatus(r) ==
  IF \A n \in Nodes : r.nodes[n].status = "SUCCEEDED" THEN "SUCCEEDED" ELSE "FAILED"

\* _settle after its refresh of readiness.
Settled(r, exhausted) ==
  CASE r.status \in RunTerminal -> [r EXCEPT !.holds = {}]
    [] r.status \notin RunTerminal /\ (\A n \in Nodes : ~Open(r, n)) ->
         [r EXCEPT !.status = FinalStatus(r), !.holds = {}]
    [] OTHER -> [r EXCEPT !.status = "WAITING", !.holds = HoldsOf(r, exhausted)]

\* The checks of verify(), apart from the trace chain and the state checksum,
\* which are the store's.
Verifies(r) ==
  /\ r.status = "SUCCEEDED"
  /\ PlanCleared(r)
  /\ \A n \in Nodes : r.nodes[n].status = "SUCCEEDED" /\ r.nodes[n].outputs \in ValidOutputs
  /\ \A g \in Gates : Approved(r, g)
=============================================================================
