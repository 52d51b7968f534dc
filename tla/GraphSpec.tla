------------------------------ MODULE GraphSpec ------------------------------
(***************************************************************************)
(* The admitted graph a run executes: what admit() in ge_runtime/spec.py   *)
(* returns, as constants.  The assumptions are the rules admission         *)
(* enforces (a topological order, the governance rules on retries, side    *)
(* effects and gates); the engine never re-checks them while it runs.      *)
(***************************************************************************)
EXTENDS Naturals, Sequences

CONSTANTS
  Nodes,          \* node ids
  Order,          \* Nodes in execution order (GraphSpec.order)
  DependsOn,      \* DependsOn[n]: the nodes n waits for
  Executor,       \* Executor[n]: "builtin" (synchronous) or "agent" (deferred)
  Idempotent,     \* nodes with idempotent: true
  SideEffects,    \* nodes with side_effects: true
  MaxAttempts,    \* MaxAttempts[n]: retry.max_attempts
  StopOnFailure,  \* nodes with on_failure: stop (the others say continue)
  Gates,          \* all gates of all nodes
  GateNode,       \* GateNode[g]: the node g guards
  GateType,       \* GateType[g]: "approval" (before) or "review" (after)
  GateRank,       \* GateRank[g]: position of g in its node's gate list
  Outputs,        \* what an executor or a submission may deliver
  ValidOutputs,   \* those meeting the output contract and every criterion
  NoOutput,       \* no outputs stored
  Mistyped        \* nodes whose resolved inputs may violate the input contract

Executors == {"builtin", "agent"}
GateTypes == {"approval", "review"}

\* A node that must never run twice on the engine's own initiative.
Unsafe == {n \in Nodes : n \notin Idempotent \/ n \in SideEffects}

GatesOf(n, type) == {g \in Gates : GateNode[g] = n /\ GateType[g] = type}

\* admit, find_cycle and topological_order: there is a node, each stands once in the
\* order, dependencies first.
ASSUME OrderAssumption ==
  /\ Nodes # {}
  /\ Order \in Seq(Nodes)
  /\ \A n \in Nodes : \E i \in DOMAIN Order : Order[i] = n
  /\ \A i, j \in DOMAIN Order : Order[i] = Order[j] => i = j
  /\ DependsOn \in [Nodes -> SUBSET Nodes]
  /\ \A i, j \in DOMAIN Order : Order[j] \in DependsOn[Order[i]] => j < i

\* _normalize_node: field domains and the governance invariants.
ASSUME NodeAssumption ==
  /\ Executor \in [Nodes -> Executors]
  /\ MaxAttempts \in [Nodes -> 1..5]
  /\ Idempotent \subseteq Nodes /\ SideEffects \subseteq Nodes
  /\ StopOnFailure \subseteq Nodes /\ Mistyped \subseteq Nodes
  /\ \A n \in Nodes : MaxAttempts[n] > 1 => n \in Idempotent \ SideEffects
  /\ \A n \in SideEffects : Executor[n] # "builtin" /\ GatesOf(n, "approval") # {}

\* _normalize_gates: each gate belongs to one node and has a place in its list.
ASSUME GateAssumption ==
  /\ GateNode \in [Gates -> Nodes]
  /\ GateType \in [Gates -> GateTypes]
  /\ GateRank \in [Gates -> Nat]
  /\ \A g, h \in Gates : GateNode[g] = GateNode[h] /\ GateRank[g] = GateRank[h] => g = h

ASSUME OutputAssumption ==
  /\ ValidOutputs \subseteq Outputs
  /\ NoOutput \notin Outputs
=============================================================================
