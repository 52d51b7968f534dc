---------------------------- MODULE SpecAdmission ----------------------------
(***************************************************************************)
(* Admission of a graph spec (ge_runtime/spec.py): admit() normalises and  *)
(* checks what was submitted, looks for a dependency cycle depth first     *)
(* (find_cycle), follows each node's dependencies to decide what it may    *)
(* read (ancestors), asks the executor catalog, and puts the nodes in      *)
(* execution order (topological_order).  The loops and the recursion are   *)
(* steps here: one per dependency looked at, one per node taken.           *)
(*                                                                         *)
(* The engine stores the normalised spec and admits it again, with the     *)
(* default catalog, each time it loads the run: Load.                      *)
(*                                                                         *)
(* A field of the wrong shape, or unknown, only counts as an error: all    *)
(* such defects of a node or a spec are its field "malformed".             *)
(***************************************************************************)
EXTENDS Naturals, Sequences

CONSTANTS
  Submissions,     \* specs that may be submitted
  None,            \* an absent value (Python's None)
  MaxNodes,        \* MAX_NODES
  Capabilities,    \* CAPABILITIES
  CapabilitiesOf,  \* CapabilitiesOf[e]: what executor e of the catalog can do
  Produced         \* Produced[op]: the outputs of builtin operation op

IsSeq(s) == s \in Seq({s[i] : i \in DOMAIN s})

Get(mapping, field, default) == IF field \in DOMAIN mapping THEN mapping[field] ELSE default

\* A list of nodes and a list of dependencies are lists; anything else is "malformed".
ASSUME SubmissionAssumption ==
  \A s \in Submissions :
    IsSeq(s.nodes) /\ \A i \in DOMAIN s.nodes : IsSeq(Get(s.nodes[i], "depends_on", <<>>))

\* default_catalog: the builtin executor and the agent.
ASSUME CatalogAssumption == DOMAIN CapabilitiesOf = {"builtin", "agent"}

VARIABLES
  raw,        \* the spec admit() was given
  stored,     \* what an earlier admission stored: its nodes and order (None: nothing)
  phase,      \* how far admit() is
  verdict,    \* the error raised, or "ADMITTED"
  nodes,      \* the normalised nodes, in declaration order
  root,       \* find_cycle: the node its loop is at
  color, stack, next,  \* find_cycle: visited nodes, recursion, dependencies looked at
  cycle,      \* the cycle reported
  at, seen, pending, broken,  \* the input checks: node, its ancestors so far, errors
  remaining, order            \* topological_order: open dependencies, nodes taken

vars == <<raw, stored, phase, verdict, nodes, root, color, stack, next, cycle,
          at, seen, pending, broken, remaining, order>>

-----------------------------------------------------------------------------
(* Normalising a node. *)

DefaultRequires(executor) ==
  CASE executor = "builtin" -> {"compute.pure"}
    [] executor = "agent"   -> {"agent.reasoning"}
    [] OTHER                -> {}

\* What _normalize_node returns.
Normalize(r) ==
  LET executor == Get(r, "executor", "")
  IN  [id                |-> r.id,
       executor          |-> executor,
       depends_on        |-> Get(r, "depends_on", <<>>),
       requires          |-> Get(r, "requires", DefaultRequires(executor)),
       operation         |-> Get(r, "operation", None),
       inputs            |-> Get(r, "inputs", {}),
       outputs           |-> Get(r, "outputs", {}),
       max_attempts      |-> Get(r, "max_attempts", 1),
       side_effects      |-> Get(r, "side_effects", FALSE),
       idempotent        |-> Get(r, "idempotent", executor = "builtin"),
       on_failure        |-> Get(r, "on_failure", "stop"),
       gates             |-> Get(r, "gates", {}),
       rollback_boundary |-> Get(r, "rollback_boundary", None)]

\* The rules on operations: a builtin node names one that makes what it declares, has
\* the input "value" and no side effects; no other node has an operation.
OperationValid(n) ==
  IF n.executor = "builtin"
  THEN /\ n.operation \in DOMAIN Produced /\ n.outputs \subseteq Produced[n.operation]
       /\ \E i \in n.inputs : i.name = "value"
       /\ ~n.side_effects
  ELSE n.operation = None

GovernanceErrors_EffectsOnly(n) ==
  n.side_effects /\ ("approval" \notin n.gates \/ n.rollback_boundary = None)

\* The governance invariants: nothing that may have an effect is repeated or unapproved.
GovernanceErrors(n) ==
  \/ n.max_attempts > 1 /\ (~n.idempotent \/ n.side_effects)
  \/ n.side_effects /\ ("approval" \notin n.gates \/ n.rollback_boundary = None)

NodeErrors(n) ==
  \/ n.executor = ""
  \/ \E i, j \in DOMAIN n.depends_on : i # j /\ n.depends_on[i] = n.depends_on[j]
  \/ ~(n.requires \subseteq Capabilities)
  \/ n.max_attempts \notin 1..5
  \/ ~OperationValid(n)
  \/ GovernanceErrors(n)

IdsOf(list) == {list[i].id : i \in DOMAIN list}

GraphErrors_OperationGiven(spec, list) ==
  \/ spec.malformed \/ \E i \in DOMAIN spec.nodes : "malformed" \in DOMAIN spec.nodes[i]
  \/ Len(list) \notin 1..MaxNodes
  \/ \E i, j \in DOMAIN list : i # j /\ list[i].id = list[j].id
  \/ \E i \in DOMAIN list :
       \/ NodeErrors(list[i])
       \/ "operation" \in DOMAIN spec.nodes[i] /\ list[i].executor # "builtin"
       \/ \E k \in DOMAIN list[i].depends_on : list[i].depends_on[k] \notin IdsOf(list)

\* What is wrong with a spec before any traversal.
GraphErrors(spec, list) ==
  \/ spec.malformed \/ \E i \in DOMAIN spec.nodes : "malformed" \in DOMAIN spec.nodes[i]
  \/ Len(list) \notin 1..MaxNodes
  \/ \E i, j \in DOMAIN list : i # j /\ list[i].id = list[j].id
  \/ \E i \in DOMAIN list : NodeErrors(list[i])
  \/ \E i \in DOMAIN list : \E k \in DOMAIN list[i].depends_on :
       list[i].depends_on[k] \notin IdsOf(list)

Ids       == IdsOf(nodes)
NodeOf(n) == CHOOSE r \in {nodes[i] : i \in DOMAIN nodes} : r.id = n
Deps(n)   == NodeOf(n).depends_on
DepSet(n) == {Deps(n)[k] : k \in DOMAIN Deps(n)}

-----------------------------------------------------------------------------
Init ==
  /\ raw \in Submissions /\ stored = None
  /\ phase = "structure" /\ verdict = "none" /\ nodes = <<>>
  /\ root = 1 /\ color = <<>> /\ stack = <<>> /\ next = <<>> /\ cycle = <<>>
  /\ at = 1 /\ seen = {} /\ pending = <<>> /\ broken = FALSE
  /\ remaining = <<>> /\ order = <<>>

searching == <<root, color, stack, next, cycle>>
wiring    == <<at, seen, pending, broken>>
sorting   == <<remaining, order>>

\* admit raises, or returns.
End(result) == phase' = "done" /\ verdict' = result

\* The first pass of admit: everything that needs no traversal.
Normalized == [i \in DOMAIN raw.nodes |-> Normalize(raw.nodes[i])]

RejectStructure ==
  /\ phase = "structure" /\ GraphErrors(raw, Normalized)
  /\ End("GRAPH_INVALID")
  /\ UNCHANGED <<raw, stored, nodes, searching, wiring, sorting>>

AcceptStructure ==
  /\ phase = "structure" /\ ~GraphErrors(raw, Normalized)
  /\ phase' = "cycle" /\ nodes' = Normalized
  /\ color' = [n \in IdsOf(Normalized) |-> "white"] /\ next' = [n \in IdsOf(Normalized) |-> 1]
  /\ UNCHANGED <<raw, stored, verdict, root, stack, cycle, wiring, sorting>>

-----------------------------------------------------------------------------
(* find_cycle: a loop over the nodes calls visit() for those not visited   *)
(* when it comes to them, and visit() for the dependencies it meets that   *)
(* are not visited.                                                        *)

Top == stack[Len(stack)]

Visit(n) == color' = [color EXCEPT ![n] = "grey"] /\ stack' = Append(stack, n)

StartVisit ==
  /\ phase = "cycle" /\ stack = <<>>
  /\ root \in DOMAIN nodes /\ color[nodes[root].id] = "white"
  /\ Visit(nodes[root].id) /\ root' = root + 1
  /\ UNCHANGED <<raw, stored, phase, verdict, nodes, next, cycle, wiring, sorting>>

PassRoot ==
  /\ phase = "cycle" /\ stack = <<>>
  /\ root \in DOMAIN nodes /\ color[nodes[root].id] # "white"
  /\ root' = root + 1
  /\ UNCHANGED <<raw, stored, phase, verdict, nodes, color, stack, next, cycle, wiring, sorting>>

\* The dependency visit() looks at next, if any is left.
Looking    == phase = "cycle" /\ stack # <<>> /\ next[Top] \in DOMAIN Deps(Top)
Dependency == Deps(Top)[next[Top]]

Descend ==
  /\ Looking /\ color[Dependency] = "white"
  /\ Visit(Dependency)
  /\ next' = [next EXCEPT ![Top] = @ + 1]
  /\ UNCHANGED <<raw, stored, phase, verdict, nodes, root, cycle, wiring, sorting>>

SkipDependency ==
  /\ Looking /\ color[Dependency] = "black"
  /\ next' = [next EXCEPT ![Top] = @ + 1]
  /\ UNCHANGED <<raw, stored, phase, verdict, nodes, root, color, stack, cycle, wiring, sorting>>

ReportCycle_FromBottom ==
  /\ Looking /\ color[Dependency] = "grey"
  /\ cycle' = Append(stack, Dependency)
  /\ End("DEPENDENCY_CYCLE")
  /\ UNCHANGED <<raw, stored, nodes, root, color, stack, next, wiring, sorting>>

\* The stack from the dependency on, and the dependency again.
ReportCycle ==
  /\ Looking /\ color[Dependency] = "grey"
  /\ \E i \in DOMAIN stack :
       /\ stack[i] = Dependency /\ \A j \in 1..(i - 1) : stack[j] # Dependency
       /\ cycle' = Append(SubSeq(stack, i, Len(stack)), Dependency)
  /\ End("DEPENDENCY_CYCLE")
  /\ UNCHANGED <<raw, stored, nodes, root, color, stack, next, wiring, sorting>>

Retreat ==
  /\ phase = "cycle" /\ stack # <<>> /\ next[Top] \notin DOMAIN Deps(Top)
  /\ color' = [color EXCEPT ![Top] = "black"]
  /\ stack' = SubSeq(stack, 1, Len(stack) - 1)
  /\ UNCHANGED <<raw, stored, phase, verdict, nodes, root, next, cycle, wiring, sorting>>

\* No cycle: on to the inputs of the first node.
SearchOver ==
  /\ phase = "cycle" /\ stack = <<>> /\ root \notin DOMAIN nodes
  /\ phase' = "inputs" /\ pending' = nodes[1].depends_on
  /\ UNCHANGED <<raw, stored, verdict, nodes, searching, at, seen, broken, sorting>>

-----------------------------------------------------------------------------
(* The inputs of each node, against its ancestors. *)

NextAncestor == pending[Len(pending)]
Rest         == SubSeq(pending, 1, Len(pending) - 1)

SkipAncestor_Peeking ==
  /\ phase = "inputs" /\ pending # <<>> /\ NextAncestor \in seen
  /\ UNCHANGED vars

SkipAncestor ==
  /\ phase = "inputs" /\ pending # <<>> /\ NextAncestor \in seen
  /\ pending' = Rest
  /\ UNCHANGED <<raw, stored, phase, verdict, nodes, searching, at, seen, broken, sorting>>

AddAncestor_ParentsOnly ==
  /\ phase = "inputs" /\ pending # <<>> /\ NextAncestor \notin seen
  /\ seen' = seen \cup {NextAncestor} /\ pending' = Rest
  /\ UNCHANGED <<raw, stored, phase, verdict, nodes, searching, at, broken, sorting>>

AddAncestor ==
  /\ phase = "inputs" /\ pending # <<>> /\ NextAncestor \notin seen
  /\ seen' = seen \cup {NextAncestor} /\ pending' = Rest \o Deps(NextAncestor)
  /\ UNCHANGED <<raw, stored, phase, verdict, nodes, searching, at, broken, sorting>>

InputError_AnyNode(i, upstream) ==
  IF i.from[1] = "graph.inputs"
  THEN i.required /\ i.from[2] \notin raw.inputs
  ELSE i.from[1] \notin Ids \/ i.from[2] \notin NodeOf(i.from[1]).outputs

\* An input reads a graph input, or an output of an upstream node: from = <<where, name>>.
InputError(i, upstream) ==
  IF i.from[1] = "graph.inputs"
  THEN i.required /\ i.from[2] \notin raw.inputs
  ELSE i.from[1] \notin upstream \/ i.from[2] \notin NodeOf(i.from[1]).outputs

CheckInputs ==
  /\ phase = "inputs" /\ pending = <<>> /\ at \in DOMAIN nodes
  /\ broken' = (broken \/ \E i \in nodes[at].inputs : InputError(i, seen))
  /\ at' = at + 1 /\ seen' = {}
  /\ pending' = IF at + 1 \in DOMAIN nodes THEN nodes[at + 1].depends_on ELSE <<>>
  /\ UNCHANGED <<raw, stored, phase, verdict, nodes, searching, sorting>>

RejectInputs ==
  /\ phase = "inputs" /\ at \notin DOMAIN nodes /\ broken
  /\ End("GRAPH_INVALID")
  /\ UNCHANGED <<raw, stored, nodes, searching, wiring, sorting>>

AcceptInputs ==
  /\ phase = "inputs" /\ at \notin DOMAIN nodes /\ ~broken
  /\ phase' = "executors"
  /\ UNCHANGED <<raw, stored, verdict, nodes, searching, wiring, sorting>>

-----------------------------------------------------------------------------
(* The executors, and the execution order. *)

\* ExecutorCatalog.get, and the capabilities of what it returns.
Available(n) ==
  /\ n.executor \in DOMAIN CapabilitiesOf \ raw.disabled
  /\ n.requires \subseteq CapabilitiesOf[n.executor]

RejectExecutors ==
  /\ phase = "executors" /\ \E i \in DOMAIN nodes : ~Available(nodes[i])
  /\ End("EXECUTOR_UNAVAILABLE")
  /\ UNCHANGED <<raw, stored, nodes, searching, wiring, sorting>>

AcceptExecutors ==
  /\ phase = "executors" /\ \A i \in DOMAIN nodes : Available(nodes[i])
  /\ phase' = "order" /\ remaining' = [n \in Ids |-> DepSet(n)]
  /\ UNCHANGED <<raw, stored, verdict, nodes, searching, wiring, order>>

Ready == {n \in DOMAIN remaining : remaining[n] = {}}

Take(n) ==
  /\ order' = Append(order, n)
  /\ remaining' = [m \in DOMAIN remaining \ {n} |-> remaining[m] \ {n}]

TakeNext_Any ==
  /\ phase = "order" /\ Ready # {} /\ \E n \in Ready : Take(n)
  /\ UNCHANGED <<raw, stored, phase, verdict, nodes, searching, wiring>>

\* The first ready node in declaration order. With none ready, topological_order raises.
TakeNext ==
  /\ phase = "order" /\ DOMAIN remaining # {}
  /\ IF Ready = {}
     THEN End("DEPENDENCY_CYCLE") /\ UNCHANGED sorting
     ELSE /\ \E i \in DOMAIN nodes :
               /\ nodes[i].id \in Ready /\ \A j \in 1..(i - 1) : nodes[j].id \notin Ready
               /\ Take(nodes[i].id)
          /\ UNCHANGED <<phase, verdict>>
  /\ UNCHANGED <<raw, stored, nodes, searching, wiring>>

Admit ==
  /\ phase = "order" /\ DOMAIN remaining = {}
  /\ End("ADMITTED")
  /\ UNCHANGED <<raw, stored, nodes, searching, wiring, sorting>>

-----------------------------------------------------------------------------
\* RunEngine.load: the stored spec is admitted again, with the default catalog.
Load ==
  /\ phase = "done" /\ verdict = "ADMITTED" /\ stored = None
  /\ stored' = [nodes |-> nodes, order |-> order]
  /\ raw' = [malformed |-> FALSE, inputs |-> raw.inputs, nodes |-> nodes, disabled |-> {}]
  /\ phase' = "structure" /\ verdict' = "none" /\ nodes' = <<>>
  /\ root' = 1 /\ color' = <<>> /\ stack' = <<>> /\ next' = <<>> /\ cycle' = <<>>
  /\ at' = 1 /\ seen' = {} /\ pending' = <<>> /\ broken' = FALSE
  /\ remaining' = <<>> /\ order' = <<>>

Proceed ==
  \/ RejectStructure \/ AcceptStructure
  \/ StartVisit \/ PassRoot \/ Descend \/ SkipDependency \/ ReportCycle \/ Retreat \/ SearchOver
  \/ SkipAncestor \/ AddAncestor \/ CheckInputs \/ RejectInputs \/ AcceptInputs
  \/ RejectExecutors \/ AcceptExecutors \/ TakeNext \/ Admit

Next == Proceed \/ Load

Spec == Init /\ [][Next]_vars

\* admit() runs to its end once called; nobody has to load what it stored.
FairSpec == Spec /\ WF_vars(Proceed)
=============================================================================
