-------------------------- MODULE AdmissionPromises --------------------------
(***************************************************************************)
(* What admit() promises of every spec it is given, stated apart from its  *)
(* loops: over sets of nodes closed under "depends on".                    *)
(***************************************************************************)
EXTENDS SpecAdmission, FiniteSets

Closed(S) == \A n \in S : DepSet(n) \subseteq S

\* There is a cycle iff, in some set of nodes, each depends on another of the set.
HasCycle == \E C \in (SUBSET Ids) \ {{}} : \A n \in C : DepSet(n) \cap C # {}

\* The nodes upstream of n: in every closed set that holds n's dependencies.
Upstream(n) == {m \in Ids : \A S \in SUBSET Ids : DepSet(n) \subseteq S /\ Closed(S) => m \in S}

\* The variables range over what admit() can hold in them; before the first pass, nothing.
TypeOK ==
  /\ phase \in {"structure", "cycle", "inputs", "executors", "order", "done"}
  /\ verdict \in {"none", "GRAPH_INVALID", "DEPENDENCY_CYCLE", "EXECUTOR_UNAVAILABLE", "ADMITTED"}
  /\ phase = "done" <=> verdict # "none"
  /\ IsSeq(raw.nodes)
  /\ \A i \in DOMAIN raw.nodes : IsSeq(Get(raw.nodes[i], "depends_on", <<>>))
  /\ IsSeq(nodes) /\ \A n \in Ids : Deps(n) \in Seq(Ids)
  /\ nodes # <<>> =>
       color \in [Ids -> {"white", "grey", "black"}] /\ next \in [Ids -> Nat \ {0}]
  /\ root \in Nat \ {0} /\ stack \in Seq(Ids) /\ cycle \in Seq(Ids)
  /\ at \in Nat \ {0} /\ seen \subseteq Ids /\ pending \in Seq(Ids) /\ broken \in BOOLEAN
  /\ order \in Seq(Ids)
  /\ phase = "order" => DOMAIN remaining \subseteq Ids /\ remaining \in [DOMAIN remaining -> SUBSET Ids]

\* The nodes admission walked over, and what it should have found there.
Miswired == \E i \in DOMAIN nodes : \E input \in nodes[i].inputs :
              InputError(input, Upstream(nodes[i].id))

AllAvailable == \A i \in DOMAIN nodes : Available(nodes[i])

\* The verdict is that of the rules, taken in the order in which admit() applies them and
\* whatever order the search took: a cycle is reported exactly when there is one, an input
\* is refused exactly when it is not fed by a graph input or an upstream output, and nothing
\* is admitted that an enabled executor cannot do (spec.py admit, find_cycle, ancestors;
\* ExecutorCatalog.get).  This is not the documented order: ARCHITECTURE.md:49-53 and
\* spec.py:7 put an input that reads no upstream node with the structural errors, before
\* cycles; admit() looks for cycles first, so a graph with both is a DEPENDENCY_CYCLE.
VerdictExact ==
  phase = "done" =>
    verdict = CASE nodes = <<>>                             -> "GRAPH_INVALID"
                [] nodes # <<>> /\ HasCycle                 -> "DEPENDENCY_CYCLE"
                [] nodes # <<>> /\ ~HasCycle /\ Miswired    -> "GRAPH_INVALID"
                [] nodes # <<>> /\ ~HasCycle /\ ~Miswired   ->
                     IF AllAvailable THEN "ADMITTED" ELSE "EXECUTOR_UNAVAILABLE"

\* The cycle an operator is shown is one: it ends where it begins, names no other node
\* twice, and each node depends on the next (find_cycle).
CycleReal ==
  cycle # <<>> =>
    /\ Len(cycle) > 1 /\ cycle[1] = cycle[Len(cycle)]
    /\ \A i \in 1..(Len(cycle) - 1) : cycle[i + 1] \in DepSet(cycle[i])
    /\ \A i, j \in 1..(Len(cycle) - 1) : cycle[i] = cycle[j] => i = j

Before(m, n) == \E i, j \in DOMAIN order : i < j /\ order[i] = m /\ order[j] = n

\* In an admitted graph every value a node reads comes from a node that is executed
\* before it: the reads are checked over the dependencies, the order is made from them
\* (ancestors, topological_order; RunEngine resolves inputs without checking again).
ReadsFromEarlier ==
  verdict = "ADMITTED" =>
    \A i \in DOMAIN nodes : \A input \in nodes[i].inputs :
      input.from[1] # "graph.inputs" => Before(input.from[1], nodes[i].id)

\* Ties in the execution order go to the node declared first: a node declared before its
\* predecessors in the order stands behind them only because of a dependency among them
\* (topological_order: "ties broken by declaration order").
DeclarationOrderKept ==
  \A i, j \in DOMAIN order :
    (i < j /\ \E a, b \in DOMAIN nodes : a < b /\ nodes[a].id = order[j] /\ nodes[b].id = order[i])
      => \E k \in i..(j - 1) : order[k] \in DepSet(order[j])

\* Admission of n nodes is over after a number of steps that n bounds, whatever cycle the
\* graph has: the search comes to each node once, leaves it once and looks at each
\* dependency once, an
\* ancestor walk collects a node once, and the sort takes a node once.
Size        == Len(raw.nodes)
Unvisited   == {n \in Ids : color[n] = "white"}
StillToLook == IF stack = <<>> THEN {} ELSE next[Top]..Len(Deps(Top))
RootsLeft   == Size + 1 - root
SearchLeft  == (2 * Size + 2) * Cardinality(Unvisited) + (Size + 1) * Len(stack)
               + Cardinality(StillToLook) + RootsLeft
WalkCost   == (Size + 1) * (Size + 1)
WalksLeft   == WalkCost * (Size + 1 - at) + (Size + 1) * Cardinality(Ids \ seen) + Len(pending)
SortLeft    == Size + 3

AdmissionLeft ==
  CASE phase = "structure" -> SortLeft + WalkCost * (Size + 1) + ((2 * Size + 2) * Size + Size) + 1
    [] phase = "cycle"     -> SortLeft + WalkCost * (Size + 1) + SearchLeft
    [] phase = "inputs"    -> SortLeft + WalksLeft
    [] phase = "executors" -> Size + 2
    [] phase = "order"     -> Cardinality(DOMAIN remaining) + 1
    [] phase = "done"      -> 0

AdmissionBounded == [][Proceed => AdmissionLeft' \in 0..(AdmissionLeft - 1)]_vars

-----------------------------------------------------------------------------
(* The inductive invariant behind these promises.                          *)

\* Past the first pass the nodes are the normalised ones, and they break no rule.
RulesHeld == nodes # <<>> => nodes = Normalized /\ ~GraphErrors(raw, nodes)

Begun  == nodes # <<>>
Blacks == {n \in Ids : color[n] = "black"}

\* find_cycle: the unfinished nodes are those of the recursion, which follows dependencies.
PathGrey ==
  /\ \A n \in Ids : color[n] = "grey" <=> \E i \in DOMAIN stack : stack[i] = n
  /\ \A i, j \in DOMAIN stack : stack[i] = stack[j] => i = j
  /\ \A i \in DOMAIN stack : i < Len(stack) => stack[i + 1] \in DepSet(stack[i])

\* A dependency that was looked at is finished, or is the next node of the recursion.
LookedAt ==
  /\ \A n \in Ids : color[n] = "white" => next[n] = 1
  /\ \A n \in Ids : \A k \in DOMAIN Deps(n) : k < next[n] =>
       \/ color[Deps(n)[k]] = "black"
       \/ \E i \in DOMAIN stack : i < Len(stack) /\ stack[i] = n /\ stack[i + 1] = Deps(n)[k]

\* Finished nodes depend on finished ones only, and not in a circle.
BlackAcyclic ==
  /\ Closed(Blacks)
  /\ \A C \in SUBSET Blacks : C # {} => \E n \in C : DepSet(n) \cap C = {}

\* The loop of find_cycle leaves no node unvisited behind it.
RootInvariant ==
  /\ ~Begun => root = 1
  /\ Begun => root <= Len(nodes) + 1 /\ \A j \in 1..(root - 1) : color[nodes[j].id] # "white"

SearchInvariant ==
  /\ phase = "structure" => ~Begun /\ stack = <<>> /\ cycle = <<>>
  /\ phase \notin {"structure", "done"} => Begun
  /\ Begun => PathGrey /\ LookedAt /\ BlackAcyclic
  /\ Begun /\ phase # "cycle" /\ cycle = <<>> => Blacks = Ids
  /\ cycle # <<>> => phase = "done" /\ verdict = "DEPENDENCY_CYCLE"
  /\ verdict = "DEPENDENCY_CYCLE" => cycle # <<>>

\* The ancestor walk: nothing but ancestors is collected, and what is not yet collected can
\* still be reached from what is pending.
ElementsOf(s) == {s[k] : k \in DOMAIN s}
Reached       == seen \cup ElementsOf(pending)

WalkInvariant ==
  at \in DOMAIN nodes =>
    /\ Reached \subseteq Upstream(nodes[at].id)
    /\ DepSet(nodes[at].id) \subseteq Reached
    /\ \A m \in seen : DepSet(m) \subseteq Reached

\* broken says what the nodes walked so far deserve.
MiswiredBefore(k) == \E i \in 1..(k - 1) : \E input \in nodes[i].inputs :
                       InputError(input, Upstream(nodes[i].id))

WiringInvariant ==
  /\ phase \in {"structure", "cycle"} => at = 1 /\ seen = {} /\ ~broken
  /\ phase = "inputs" => at <= Len(nodes) + 1 /\ WalkInvariant /\ (broken <=> MiswiredBefore(at))
  /\ phase \in {"executors", "order"} \/ verdict \in {"EXECUTOR_UNAVAILABLE", "ADMITTED"} => Begun /\ ~Miswired
  /\ Begun /\ verdict = "GRAPH_INVALID" => Miswired

DeclaredBefore(m, n) == \E a, b \in DOMAIN nodes : a < b /\ nodes[a].id = m /\ nodes[b].id = n

\* topological_order: each node is taken once and after its dependencies, and a node
\* passed over for a later one has a dependency not taken by then.
OrderInvariant ==
  /\ \A i, j \in DOMAIN order : order[i] = order[j] => i = j
  /\ \A j \in DOMAIN order : \A d \in DepSet(order[j]) : \E i \in DOMAIN order : i < j /\ order[i] = d
  /\ \A i \in DOMAIN order : \A m \in Ids :
       DeclaredBefore(m, order[i]) /\ (\A k \in 1..(i - 1) : order[k] # m) =>
         \E d \in DepSet(m) : \A k \in 1..(i - 1) : order[k] # d

\* What remains to be taken lacks only what remains.
RemainingInvariant ==
  /\ DOMAIN remaining = Ids \ ElementsOf(order)
  /\ \A m \in DOMAIN remaining : remaining[m] = DepSet(m) \cap DOMAIN remaining

SortInvariant ==
  /\ phase \in {"structure", "cycle", "inputs", "executors"} => order = <<>>
  /\ phase = "order" => RemainingInvariant
  /\ OrderInvariant
  /\ verdict = "ADMITTED" => Ids = ElementsOf(order)
  /\ phase = "order" \/ verdict = "ADMITTED" => AllAvailable
  /\ verdict = "EXECUTOR_UNAVAILABLE" => ~AllAvailable

AdmissionInvariant ==
  TypeOK /\ RulesHeld /\ RootInvariant /\ SearchInvariant /\ WiringInvariant /\ SortInvariant

-----------------------------------------------------------------------------
\* The engine's view of the admitted spec, and what it assumes of it.
GatesOfNodes == UNION {{<<nodes[i].id, type>> : type \in nodes[i].gates} : i \in DOMAIN nodes}

Engine == INSTANCE GraphSpec WITH
  Nodes <- Ids, Order <- order, DependsOn <- [n \in Ids |-> DepSet(n)],
  Executor <- [n \in Ids |-> NodeOf(n).executor],
  Idempotent <- {n \in Ids : NodeOf(n).idempotent},
  SideEffects <- {n \in Ids : NodeOf(n).side_effects},
  MaxAttempts <- [n \in Ids |-> NodeOf(n).max_attempts],
  StopOnFailure <- {n \in Ids : NodeOf(n).on_failure = "stop"},
  Gates <- GatesOfNodes, GateNode <- [g \in GatesOfNodes |-> g[1]],
  GateType <- [g \in GatesOfNodes |-> g[2]], GateRank <- [g \in GatesOfNodes |-> 0],
  Outputs <- {}, ValidOutputs <- {}, NoOutput <- None, Mistyped <- {}

\* Whatever is admitted meets the two assumptions of GraphSpec on the order and the nodes,
\* under which the run engine is modelled and proved: one place per node in the order,
\* dependencies first; retries only of idempotent nodes; side effects only behind an approval
\* gate and never on the builtin executor.  Those on the places of gates in their lists and
\* on outputs are not about admission: here a node's gates are a set of types.
EngineAssumptionsMet ==
  verdict = "ADMITTED" => Engine!OrderAssumption /\ Engine!NodeAssumption

\* A stored spec is admitted again with the same nodes in the same order, so its digest
\* still matches: loading a run never finds it corrupt for the rules' own sake
\* (RunEngine.load compares the digest of the re-admitted spec).
Readmitted ==
  phase = "done" /\ stored # None =>
    verdict = "ADMITTED" /\ nodes = stored.nodes /\ order = stored.order

\* Admission comes to an end: the search, the ancestor walks and the sort are bounded by
\* the graph, whatever cycle it has (no recursion guard in find_cycle or ancestors).
AdmissionEnds == <>[](phase = "done")
=============================================================================
