------------------------------ MODULE RunProofs ------------------------------
(***************************************************************************)
(* Proofs about RunEngine, for every graph that satisfies the assumptions  *)
(* of GraphSpec and every value of the bounds.                             *)
(***************************************************************************)
EXTENDS RunPromises, TLAPS

-----------------------------------------------------------------------------
(* The helpers of RunRecord keep a run record a run record.                *)

\* A change of one node's status, wait, attempts or outputs keeps the record's type.
LEMMA NodeUpdateType ==
  ASSUME NEW r \in Run, NEW n \in Nodes, NEW s \in NodeState
  PROVE  [r EXCEPT !.nodes[n] = s] \in Run
BY DEF Run

\* _skip_open_nodes.
LEMMA SkipOpenNodesType ==
  ASSUME NEW r \in Run
  PROVE  SkipOpenNodes(r) \in Run
<1>1. \A n \in Nodes : r.nodes[n] \in NodeState
  BY DEF Run
<1>2. \A s \in NodeState : Skipped(s) \in NodeState
  BY DEF Skipped, NodeState, NodeStatus, NodeTerminal, Waits
<1>3. [n \in Nodes |-> IF Open(r, n) THEN Skipped(r.nodes[n]) ELSE r.nodes[n]] \in [Nodes -> NodeState]
  BY <1>1, <1>2
<1> QED
  BY <1>3 DEF SkipOpenNodes, Run

\* _record_failure.
LEMMA FailNodeType ==
  ASSUME NEW r \in Run, NEW n \in Nodes
  PROVE  FailNode(r, n) \in Run
<1>1. \A m \in Nodes : r.nodes[m] \in NodeState
  BY DEF Run
<1>2. \A s \in NodeState : /\ Skipped(s) \in NodeState
                           /\ [s EXCEPT !.status = "FAILED", !.wait = "none"] \in NodeState
  BY DEF Skipped, NodeState, NodeStatus, NodeTerminal, Waits
<1>3. FailNode(r, n).nodes \in [Nodes -> NodeState]
  BY <1>1, <1>2 DEF FailNode, Run
<1>4. FailNode(r, n).stopped \in BOOLEAN
  BY DEF FailNode, Run
<1> QED
  BY <1>3, <1>4 DEF FailNode, Run

\* _refresh_readiness, one node.
LEMMA RefreshedType ==
  ASSUME NEW r \in Run, NEW n \in Nodes
  PROVE  Refreshed(r, n) \in NodeState
<1>1. r.nodes[n] \in NodeState
  BY DEF Run
<1> QED
  BY <1>1 DEF Refreshed, Skipped, NodeState, NodeStatus, NodeTerminal, Waits

\* Counting an attempt.
LEMMA AttemptCounted ==
  ASSUME NEW t \in NodeState
  PROVE  [t EXCEPT !.attempts = @ + 1] \in NodeState
<1>1. t.attempts + 1 \in Nat
  BY DEF NodeState
<1> QED
  BY <1>1 DEF NodeState

\* The start of an attempt, as _advance writes it ahead.
LEMMA StartedType ==
  ASSUME NEW r \in Run, NEW n \in Nodes, NEW x, x = Started(r, n)
  PROVE  /\ x \in Run /\ x.nodes[n].status = "RUNNING" /\ x.nodes[n].wait = "none"
         /\ x.status = r.status /\ x.plan = r.plan /\ x.gates = r.gates
         /\ \A m \in Nodes \ {n} : x.nodes[m] = r.nodes[m]
<1>1. r.nodes[n] \in NodeState
  BY DEF Run
<1>2. [[r.nodes[n] EXCEPT !.status = "RUNNING"] EXCEPT !.wait = "none"] \in NodeState
  BY <1>1 DEF NodeState, NodeStatus, Waits
<1>3. x.nodes[n] = [[[r.nodes[n] EXCEPT !.status = "RUNNING"] EXCEPT !.wait = "none"] EXCEPT !.attempts = @ + 1]
  BY DEF Run, Started
<1>4. x.nodes[n] \in NodeState
  BY <1>2, <1>3, AttemptCounted
<1>5. x.nodes = [r.nodes EXCEPT ![n] = x.nodes[n]] /\ x = [r EXCEPT !.nodes = x.nodes]
  BY DEF Run, Started
<1>6. x \in Run
  BY <1>4, <1>5 DEF Run
<1>7. x.nodes[n].status = "RUNNING" /\ x.nodes[n].wait = "none"
  BY <1>1, <1>3 DEF NodeState
<1>8. /\ x.status = r.status /\ x.plan = r.plan /\ x.gates = r.gates
      /\ \A m \in Nodes \ {n} : x.nodes[m] = r.nodes[m]
  BY <1>5 DEF Run
<1> QED
  BY <1>6, <1>7, <1>8

\* The state create() saves.
LEMMA NewRunType ==
  ASSUME NEW status \in RunStatus, NEW plan \in PlanApproval
  PROVE  NewRun(status, plan) \in Run
<1>1. [status |-> "PENDING", wait |-> "none", attempts |-> 0, outputs |-> NoOutput] \in NodeState
  BY DEF NodeState, NodeStatus, Waits
<1>2. [decision |-> "none", binding |-> NoOutput] \in GateState
  BY DEF GateState, Decisions
<1> QED
  BY <1>1, <1>2 DEF NewRun, Run

\* Recording a decision; a gate belongs to a node, whose outputs may be bound.
LEMMA DecidedType ==
  ASSUME NEW r \in Run, NEW g \in Gates, NEW decision \in {"APPROVED", "DENIED"}
  PROVE  /\ Decided(r, g, decision) \in Run
         /\ Decided(r, g, decision).nodes = r.nodes
         /\ Decided(r, g, decision).status = r.status
         /\ Decided(r, g, decision).plan = r.plan
         /\ Decided(r, g, decision).gates =
              [r.gates EXCEPT ![g] = [decision |-> decision, binding |-> Binding(r, g)]]
<1>1. GateNode[g] \in Nodes
  BY GateAssumption
<1>2. r.nodes[GateNode[g]] \in NodeState
  BY <1>1 DEF Run
<1>3. Binding(r, g) \in Outputs \cup {NoOutput}
  BY <1>2 DEF Binding, NodeState
<1>4. [decision |-> decision, binding |-> Binding(r, g)] \in GateState
  BY <1>3 DEF GateState, Decisions
<1> QED
  BY <1>4 DEF Decided, Run

\* _complete_attempt.
LEMMA CompleteAttemptType ==
  ASSUME NEW r \in Run, NEW n \in Nodes, NEW result \in Results
  PROVE  CompleteAttempt(r, n, result) \in Run
<1>1. result.outputs \in Outputs \cup {NoOutput}
  BY DEF Results
<1>2. r.nodes[n] \in NodeState
  BY DEF Run
<1> DEFINE s == [r.nodes[n] EXCEPT !.outputs = result.outputs]
<1>3. s \in NodeState /\ [s EXCEPT !.wait = "review"] \in NodeState /\ [s EXCEPT !.status = "SUCCEEDED"] \in NodeState
  BY <1>1, <1>2 DEF NodeState, NodeStatus, NodeTerminal, Waits
<1>4. [r.nodes[n] EXCEPT !.status = "READY"] \in NodeState
  BY <1>2 DEF NodeState, NodeStatus
<1>5. FailNode(r, n) \in Run
  BY FailNodeType
<1> QED
  BY <1>3, <1>4, <1>5 DEF CompleteAttempt, Run

\* A decided gate and its node.
LEMMA GateDecidedType ==
  ASSUME NEW r \in Run, NEW g \in Gates, NEW decision \in {"APPROVED", "DENIED"}
  PROVE  GateDecided(r, g, decision) \in Run
<1> DEFINE n == GateNode[g]
           d == Decided(r, g, decision)
<1>1. n \in Nodes /\ GateType[g] \in GateTypes
  BY GateAssumption
<1>2. d \in Run
  BY DecidedType
<1>3. FailNode(d, n) \in Run
  BY <1>1, <1>2, FailNodeType
<1>4. d.nodes[n] \in NodeState
  BY <1>1, <1>2 DEF Run
<1>5. /\ [d.nodes[n] EXCEPT !.wait = "none"] \in NodeState
      /\ [[d.nodes[n] EXCEPT !.wait = "none"] EXCEPT !.status = "SUCCEEDED"] \in NodeState
  BY <1>4 DEF NodeState, NodeStatus, NodeTerminal, Waits
<1>6. /\ [d EXCEPT !.nodes[n].wait = "none"] \in Run
      /\ [d EXCEPT !.nodes[n].wait = "none", !.nodes[n].status = "SUCCEEDED"] \in Run
  BY <1>1, <1>2, <1>5 DEF Run
<1> QED
  BY <1>1, <1>2, <1>3, <1>6 DEF GateDecided, GateTypes

\* resume()'s recovery.
LEMMA RecoveredType ==
  ASSUME NEW r \in Run
  PROVE  Recovered(r) \in Run
<1>1. \A n \in Nodes : r.nodes[n] \in NodeState
  BY DEF Run
<1>2. \A s \in NodeState : /\ [s EXCEPT !.wait = "attention"] \in NodeState
                           /\ [s EXCEPT !.status = "READY"] \in NodeState
  BY DEF NodeState, NodeStatus, Waits
<1> QED
  BY <1>1, <1>2 DEF Recovered, Run

\* _settle.
LEMMA SettledType ==
  ASSUME NEW r \in Run, NEW x \in BOOLEAN
  PROVE  Settled(r, x) \in Run
<1>1. HoldsOf(r, x) \subseteq Holds
  BY DEF HoldsOf, Holds, Run, NodeState
<1>2. FinalStatus(r) \in RunStatus
  BY DEF FinalStatus, RunStatus, RunTerminal
<1> QED
  BY <1>1, <1>2 DEF Settled, Run, RunStatus

-----------------------------------------------------------------------------
(* Type correctness.                                                       *)

\* A position in the order names a node.
LEMMA CurrentIsNode ==
  /\ N \in Nat
  /\ \A i \in 1..N : Order[i] \in Nodes
BY OrderAssumption DEF N

\* Where _advance begins.
LEMMA BeginAdvanceType ==
  ASSUME BeginAdvance
  PROVE  /\ pc' = "refresh" /\ pc' \in PCs /\ cursor' \in 1..(N + 1)
         /\ left' \in Nat /\ progress' \in BOOLEAN /\ exhausted' \in BOOLEAN
<1>1. left' \in Nat
  BY BoundAssumption DEF BeginAdvance
<1>2. cursor' \in 1..(N + 1)
  BY CurrentIsNode DEF BeginAdvance
<1>3. pc' = "refresh" /\ pc' \in PCs
  BY DEF BeginAdvance, PCs
<1>4. progress' \in BOOLEAN /\ exhausted' \in BOOLEAN
  BY DEF BeginAdvance
<1> QED
  BY <1>1, <1>2, <1>3, <1>4

\* Where _settle begins.
LEMMA BeginSettleType ==
  ASSUME TypeOK, BeginSettle
  PROVE  /\ pc' = "resettle" /\ pc' \in PCs /\ cursor' \in 1..(N + 1)
         /\ left' \in Nat /\ progress' \in BOOLEAN /\ exhausted' \in BOOLEAN
<1>1. cursor' \in 1..(N + 1)
  BY CurrentIsNode DEF BeginSettle
<1>2. pc' = "resettle" /\ pc' \in PCs
  BY DEF BeginSettle, PCs
<1> QED
  BY <1>1, <1>2 DEF BeginSettle, TypeOK

\* What an operation finds in memory and on disk stays of the right shape.
LEMMA TypeInit == Init => TypeOK
<1> SUFFICES ASSUME Init PROVE TypeOK
  OBVIOUS
<1>2. pc \in PCs /\ ~(pc \in {"ahead", "call"})
  BY DEF Init, PCs
<1>3. progress \in BOOLEAN /\ exhausted \in BOOLEAN
  BY DEF Init
<1>1. NewRun("DRAFT", "none") \in Run /\ NewRun("APPROVED", "NOT_REQUIRED") \in Run
  BY NewRunType DEF RunStatus, PlanApproval
<1> QED
  BY <1>1, <1>2, <1>3, CurrentIsNode DEF Init, TypeOK

\* The operator's requests keep the types.
LEMMA TypeRequest == TypeOK /\ Request => TypeOK'
<1> SUFFICES ASSUME TypeOK, Request PROVE TypeOK'
  OBVIOUS

<1>1. ASSUME NEW decision \in {"APPROVED", "DENIED"}, DecidePlan(decision) PROVE TypeOK'
  <2>1. SkipOpenNodes(disk) \in Run
    BY SkipOpenNodesType DEF TypeOK
  <2>2. mem' \in Run
    BY <1>1, <2>1 DEF DecidePlan, TypeOK, Run, RunStatus, RunTerminal, PlanApproval
  <2> QED
    BY <1>1, <2>2 DEF DecidePlan, TypeOK, PCs, loop, env
<1>2. ASSUME NEW decision \in {"APPROVED", "DENIED"}, NEW g \in Gates, DecideGate(g, decision) PROVE TypeOK'
  <2>1. mem' \in Run
    BY <1>2, GateDecidedType DEF DecideGate, TypeOK
  <2> QED
    BY <1>2, <2>1, BeginAdvanceType, BeginSettleType DEF DecideGate, TypeOK, env
<1>3. ASSUME NEW n \in Nodes, NEW result \in Results, Submit(n, result) PROVE TypeOK'
  <2>0. /\ disk.nodes[n] \in NodeState
        /\ [disk.nodes[n] EXCEPT !.wait = "none"] \in NodeState
    BY DEF TypeOK, Run, NodeState, Waits
  <2>1. [disk EXCEPT !.nodes[n].wait = "none"] \in Run
    BY <2>0 DEF TypeOK, Run
  <2>2. mem' \in Run
    BY <1>3, <2>1, CompleteAttemptType DEF Submit
  <2> QED
    BY <1>3, <2>2, BeginAdvanceType DEF Submit, TypeOK, env
<1>4. ASSUME NEW n \in Nodes, RetryNode(n) PROVE TypeOK'
  <2>1. disk.nodes[n] \in NodeState
    BY DEF TypeOK, Run
  <2>2. [[disk.nodes[n] EXCEPT !.wait = "none"] EXCEPT !.status = "READY"] \in NodeState
    BY <2>1 DEF NodeState, NodeStatus, Waits
  <2>3. mem' \in Run
    BY <1>4, <2>2 DEF RetryNode, TypeOK, Run, RunStatus
  <2> QED
    BY <1>4, <2>3, BeginAdvanceType DEF RetryNode, TypeOK, env
<1>5. CASE Execute
  <2>1. mem' \in Run
    BY <1>5 DEF Execute, TypeOK, Run, RunStatus
  <2> QED
    BY <1>5, <2>1, BeginAdvanceType DEF Execute, TypeOK, env
<1>6. CASE Resume
  <2>1. Recovered(disk) \in Run
    BY RecoveredType DEF TypeOK
  <2>2. mem' \in Run
    BY <1>6, <2>1 DEF Resume, Run, RunStatus
  <2>3. CASE disk.status = "DRAFT"
    BY <1>6, <2>2, <2>3 DEF Resume, TypeOK, PCs, loop, env
  <2>4. CASE disk.status # "DRAFT"
    BY <1>6, <2>2, <2>4, BeginAdvanceType DEF Resume, TypeOK, env
  <2> QED
    BY <2>3, <2>4
<1>7. CASE Cancel
  <2>1. SkipOpenNodes(disk) \in Run
    BY SkipOpenNodesType DEF TypeOK
  <2>2. mem' \in Run
    BY <1>7, <2>1 DEF Cancel, Run, RunStatus, RunTerminal
  <2> QED
    BY <1>7, <2>2 DEF Cancel, TypeOK, PCs, loop, env
<1>8. CASE Verify
  <2>1. mem' \in Run
    BY <1>8 DEF Verify, TypeOK, Run
  <2> QED
    BY <1>8, <2>1 DEF Verify, TypeOK, PCs, loop, env
<1> QED
  BY <1>1, <1>2, <1>3, <1>4, <1>5, <1>6, <1>7, <1>8 DEF Request

\* Leaving an operation.
LEMMA ReleaseType ==
  ASSUME disk' \in Run, Release
  PROVE  /\ mem' \in Run /\ pc' = "idle" /\ pc' \in PCs /\ cursor' \in 1..(N + 1)
         /\ left' \in Nat /\ progress' \in BOOLEAN /\ exhausted' \in BOOLEAN
<1>1. cursor' \in 1..(N + 1) /\ left' \in Nat
  BY CurrentIsNode DEF Release
<1>2. pc' = "idle" /\ pc' \in PCs
  BY DEF Release, PCs
<1>3. progress' \in BOOLEAN /\ exhausted' \in BOOLEAN
  BY DEF Release
<1> QED
  BY <1>1, <1>2, <1>3 DEF Release

\* The steps taken at a node.
LEMMA TypeVisit == TypeOK /\ VisitNode => TypeOK'
<1> DEFINE n == Current
<1> SUFFICES ASSUME TypeOK, VisitNode PROVE TypeOK'
  OBVIOUS
<1>n. /\ cursor \in 1..N
      /\ cursor + 1 \in 1..(N + 1)
      /\ n \in Nodes
      /\ mem \in Run
      /\ mem.nodes[n] \in NodeState
  BY CurrentIsNode DEF VisitNode, TypeOK, HoldForApproval, RefuseNode, ExecutorMissing, StartNode,
     DeferNode, RunBuiltin, AtNode, Visiting, Current, Run
<1>1. CASE HoldForApproval(n)
  <2>1. [mem.nodes[n] EXCEPT !.wait = "approval"] \in NodeState
    BY <1>n DEF NodeState, Waits
  <2>2. mem' \in Run
    BY <1>1, <1>n, <2>1 DEF HoldForApproval, Run
  <2> QED
    BY <1>1, <1>n, <2>2 DEF HoldForApproval, AtNode, Visiting, TypeOK, env
<1>2. CASE RefuseNode(n)
  <2>1. [mem.nodes[n] EXCEPT !.wait = "none"] \in NodeState
    BY <1>n DEF NodeState, Waits
  <2>2. [mem EXCEPT !.nodes[n].wait = "none"] \in Run
    BY <1>n, <2>1 DEF Run
  <2>3. mem' \in Run
    BY <1>2, <1>n, <2>2, FailNodeType DEF RefuseNode
  <2>4. progress' \in BOOLEAN
    BY <1>2 DEF RefuseNode
  <2> QED
    BY <1>2, <1>n, <2>3, <2>4 DEF RefuseNode, AtNode, Visiting, TypeOK, env
<1>3. CASE ExecutorMissing(n)
  BY <1>3, ReleaseType DEF ExecutorMissing, TypeOK, env
<1>4. CASE StartNode(n)
  <2>1. mem' \in Run
    BY <1>4, <1>n, StartedType DEF StartNode
  <2>3. left' \in Nat
    BY <1>4 DEF StartNode, AtNode, TypeOK
  <2>4. pc' \in PCs
    BY <1>4 DEF StartNode, PCs
  <2> QED
    BY <1>4, <1>n, <2>1, <2>3, <2>4 DEF StartNode, TypeOK, env
<1>5. CASE DeferNode(n)
  <2>1. [mem.nodes[n] EXCEPT !.wait = "submission"] \in NodeState
    BY <1>n DEF NodeState, Waits
  <2>0. mem' = [mem EXCEPT !.nodes[n].wait = "submission"]
    BY <1>5 DEF DeferNode
  <2>2. mem' \in Run
    BY <1>n, <2>0, <2>1 DEF Run
  <2>3. pc' \in PCs /\ pc' = "visit" /\ progress' \in BOOLEAN
    BY <1>5 DEF DeferNode, Invoke, PCs
  <2>4. authorised' \subseteq Nodes /\ replayed' \subseteq Nodes
    BY <1>5, <1>n DEF DeferNode, Invoke, TypeOK
  <2> QED
    BY <1>5, <1>n, <2>2, <2>3, <2>4 DEF DeferNode, Invoke, TypeOK, env
<1>6. ASSUME NEW result \in Results, RunBuiltin(n, result) PROVE TypeOK'
  <2>1. mem' \in Run
    BY <1>6, <1>n, CompleteAttemptType DEF RunBuiltin
  <2>2. pc' \in PCs /\ pc' = "visit" /\ progress' \in BOOLEAN
    BY <1>6 DEF RunBuiltin, Invoke, PCs
  <2>3. authorised' \subseteq Nodes /\ replayed' \subseteq Nodes
    BY <1>6, <1>n DEF RunBuiltin, Invoke, TypeOK
  <2> QED
    BY <1>6, <1>n, <2>1, <2>2, <2>3 DEF RunBuiltin, Invoke, TypeOK, env
<1> QED
  BY <1>1, <1>2, <1>3, <1>4, <1>5, <1>6 DEF VisitNode

\* The engine's other steps.
LEMMA TypeStep == TypeOK /\ Step => TypeOK'
<1> SUFFICES ASSUME TypeOK, Step PROVE TypeOK'
  OBVIOUS
<1>1. CASE RefreshNode
  <2>1. cursor \in 1..N /\ cursor + 1 \in 1..(N + 1) /\ Current \in Nodes
    BY <1>1, CurrentIsNode DEF RefreshNode, TypeOK, Current
  <2>2. Refreshed(mem, Current) \in NodeState
    BY <2>1, RefreshedType DEF TypeOK
  <2>3. mem' \in Run
    BY <1>1, <2>1, <2>2, NodeUpdateType DEF RefreshNode, TypeOK
  <2>4. pc \notin {"ahead", "call"}
    BY <1>1 DEF RefreshNode
  <2> QED
    BY <1>1, <2>1, <2>3, <2>4 DEF RefreshNode, TypeOK, env
<1>2. CASE BeginPass
  BY <1>2, CurrentIsNode DEF BeginPass, TypeOK, PCs, env
<1>3. CASE PassOver
  <2>1. cursor + 1 \in 1..(N + 1)
    BY <1>3, CurrentIsNode DEF PassOver, Visiting, TypeOK
  <2> QED
    BY <1>3, <2>1 DEF PassOver, Visiting, TypeOK, env
<1>4. CASE StopOnBudget
  <2>1. exhausted' \in BOOLEAN
    BY <1>4 DEF StopOnBudget
  <2>2. pc' \in PCs /\ cursor' \in 1..(N + 1)
    BY <1>4, CurrentIsNode DEF StopOnBudget, PCs
  <2> QED
    BY <1>4, <2>1, <2>2 DEF StopOnBudget, TypeOK, env
<1>5. CASE VisitNode
  BY <1>5, TypeVisit
<1>6. CASE WriteAhead
  BY <1>6 DEF WriteAhead, TypeOK, PCs, loop, env
<1>7. CASE EndPass
  <2>1. progress' \in BOOLEAN
    BY <1>7 DEF EndPass
  <2>2. pc' \in PCs /\ pc' \notin {"ahead", "call"} /\ cursor' \in 1..(N + 1)
    BY <1>7, CurrentIsNode DEF EndPass, PCs
  <2> QED
    BY <1>7, <2>1, <2>2 DEF EndPass, TypeOK, env
<1>8. CASE Settle
  <2>1. mem' \in Run
    BY <1>8, SettledType DEF Settle, TypeOK
  <2> QED
    BY <1>8, <2>1 DEF Settle, TypeOK, PCs, loop, env
<1>9. CASE Save
  BY <1>9, ReleaseType DEF Save, TypeOK, env
<1>10. CASE Attest
  BY <1>10 DEF Attest, TypeOK, PCs, loop, env
<1>11. CASE RecordCreation
  BY <1>11, ReleaseType DEF RecordCreation, TypeOK, env
<1> QED
  BY <1>1, <1>2, <1>3, <1>4, <1>5, <1>6, <1>7, <1>8, <1>9, <1>10, <1>11 DEF Step

\* Every step of the specification keeps the types.
LEMMA TypeNext == TypeOK /\ [Next]_vars => TypeOK'
<1> SUFFICES ASSUME TypeOK, [Next]_vars PROVE TypeOK'
  OBVIOUS
<1>1. CASE Request
  BY <1>1, TypeRequest
<1>2. CASE Step
  BY <1>2, TypeStep
<1>3. CASE Crash
  BY <1>3, ReleaseType DEF Crash, TypeOK
<1>4. CASE Reconfigure
  BY <1>4 DEF Reconfigure, TypeOK, loop
<1>5. CASE UNCHANGED vars
  BY <1>5 DEF vars, loop, env, TypeOK
<1> QED
  BY <1>1, <1>2, <1>3, <1>4, <1>5 DEF Next

\* Every state of the engine is well typed: what it saves, after whatever sequence of
\* requests, crashes and configuration changes, is a run record state.json can hold.
THEOREM TypeCorrect == Spec => []TypeOK
  BY TypeInit, TypeNext, PTL DEF Spec
=============================================================================
