--------------------------- MODULE AdmissionProofs ---------------------------
(***************************************************************************)
(* Proofs about SpecAdmission: the traversals of admit() are right for     *)
(* every submission, whatever its graph.                                   *)
(***************************************************************************)
EXTENDS Readmission, FiniteSetTheorems, TLAPS

\* What is computed from the nodes alone stays while they do.
LEMMA NodesFrame ==
  ASSUME nodes' = nodes
  PROVE  /\ Ids' = Ids
         /\ \A n : NodeOf(n)' = NodeOf(n) /\ Deps(n)' = Deps(n) /\ DepSet(n)' = DepSet(n)
         /\ \A n : Upstream(n)' = Upstream(n)
         /\ \A m, n : DeclaredBefore(m, n)' = DeclaredBefore(m, n)
<1>1. Ids' = Ids
  BY DEF Ids, IdsOf
<1>2. \A n : NodeOf(n)' = NodeOf(n) /\ Deps(n)' = Deps(n) /\ DepSet(n)' = DepSet(n)
  BY DEF NodeOf, Deps, DepSet
<1>3. \A n : Upstream(n)' = Upstream(n)
  BY <1>1, <1>2 DEF Upstream, Closed
<1>4. \A m, n : DeclaredBefore(m, n)' = DeclaredBefore(m, n)
  BY DEF DeclaredBefore
<1> QED
  BY <1>1, <1>2, <1>3, <1>4

\* With ids of their own, the node an id stands for is the one that has it.
LEMMA NodeOfId ==
  ASSUME \A i, j \in DOMAIN nodes : nodes[i].id = nodes[j].id => i = j,
         NEW i \in DOMAIN nodes
  PROVE  NodeOf(nodes[i].id) = nodes[i] /\ nodes[i].id \in Ids
<1>1. nodes[i] \in {nodes[j] : j \in DOMAIN nodes}
  OBVIOUS
<1>2. \A r \in {nodes[j] : j \in DOMAIN nodes} : r.id = nodes[i].id => r = nodes[i]
  OBVIOUS
<1> QED
  BY <1>1, <1>2 DEF NodeOf, Ids, IdsOf

LEMMA DepSetOfDeps ==
  ASSUME NEW n, Deps(n) \in Seq(Ids)
  PROVE  DepSet(n) \subseteq Ids
  BY DEF DepSet

LEMMA InitTyped == Init => AdmissionInvariant
<1> SUFFICES ASSUME Init PROVE AdmissionInvariant
  OBVIOUS
<1> USE DEF Init
<1>1. Ids = {}
  BY DEF Ids, IdsOf
<1>2. TypeOK
  <2>1. IsSeq(raw.nodes) /\ \A i \in DOMAIN raw.nodes : IsSeq(Get(raw.nodes[i], "depends_on", <<>>))
    BY SubmissionAssumption
  <2>2. IsSeq(nodes)
    BY DEF IsSeq
  <2>3. <<>> \in Seq(Ids)
    OBVIOUS
  <2>4. /\ phase = "structure" /\ verdict = "none" /\ nodes = <<>>
        /\ seen \subseteq Ids /\ at \in Nat \ {0} /\ root = 1 /\ \A n \in Ids : Deps(n) \in Seq(Ids)
    BY <1>1
  <2>6. broken \in BOOLEAN
    BY Zenon
  <2>5. stack \in Seq(Ids) /\ cycle \in Seq(Ids) /\ pending \in Seq(Ids) /\ order \in Seq(Ids)
    BY <2>3
  <2> HIDE DEF Init
  <2> QED
    BY <2>1, <2>2, <2>4, <2>5, <2>6 DEF TypeOK
<1>3. RulesHeld /\ RootInvariant
  BY DEF RulesHeld, RootInvariant, Begun
<1>4. SearchInvariant
  BY DEF SearchInvariant, Begun
<1>5. WiringInvariant
  BY DEF WiringInvariant, Begun
<1>6. SortInvariant
  BY DEF SortInvariant, OrderInvariant
<1> QED
  BY <1>2, <1>3, <1>4, <1>5, <1>6 DEF AdmissionInvariant

-----------------------------------------------------------------------------
(* The first pass.                                                         *)

\* Normalising keeps lists lists, and the dependencies under their name.
LEMMA NormalizedLists ==
  ASSUME IsSeq(raw.nodes),
         \A i \in DOMAIN raw.nodes : IsSeq(Get(raw.nodes[i], "depends_on", <<>>))
  PROVE  /\ IsSeq(Normalized)
         /\ \A i \in DOMAIN Normalized :
              /\ IsSeq(Normalized[i].depends_on)
              /\ Get(Normalized[i], "depends_on", <<>>) = Normalized[i].depends_on
<1>1. PICK k \in Nat : DOMAIN raw.nodes = 1..k
  BY DEF IsSeq
<1>2. DOMAIN Normalized = 1..k
  BY <1>1 DEF Normalized
<1>3. IsSeq(Normalized)
  BY <1>1, <1>2 DEF Normalized, IsSeq
<1>4. ASSUME NEW i \in DOMAIN Normalized
      PROVE  /\ Normalized[i].depends_on = Get(raw.nodes[i], "depends_on", <<>>)
             /\ "depends_on" \in DOMAIN Normalized[i]
  BY <1>1, <1>2 DEF Normalized, Normalize
<1> QED
  BY <1>1, <1>2, <1>3, <1>4 DEF Get

\* What the first pass has established of the nodes it hands on.
LEMMA AcceptedNodes ==
  ASSUME NEW list, IsSeq(list), ~GraphErrors(raw, list)
  PROVE  /\ list # <<>>
         /\ \A i, j \in DOMAIN list : list[i].id = list[j].id => i = j
         /\ \A i \in DOMAIN list : \A k \in DOMAIN list[i].depends_on :
              list[i].depends_on[k] \in IdsOf(list)
  BY DEF GraphErrors, IsSeq

LEMMA UniqueIds ==
  ASSUME TypeOK, RulesHeld, nodes # <<>>
  PROVE  \A i, j \in DOMAIN nodes : nodes[i].id = nodes[j].id => i = j
  BY AcceptedNodes DEF TypeOK, RulesHeld

LEMMA AcceptTyped ==
  ASSUME TypeOK, AcceptStructure
  PROVE  /\ IsSeq(nodes') /\ \A n \in Ids' : Deps(n)' \in Seq(Ids') 
         /\ \A i, j \in DOMAIN nodes' : nodes'[i].id = nodes'[j].id => i = j
         /\ nodes' # <<>>
<1>1. nodes' = Normalized /\ IsSeq(Normalized) /\ Ids' = IdsOf(Normalized)
  BY NormalizedLists DEF TypeOK, AcceptStructure, Ids
<1>2. /\ Normalized # <<>>
      /\ \A i, j \in DOMAIN Normalized : Normalized[i].id = Normalized[j].id => i = j
      /\ \A i \in DOMAIN Normalized : \A k \in DOMAIN Normalized[i].depends_on :
           Normalized[i].depends_on[k] \in IdsOf(Normalized)
  BY <1>1, AcceptedNodes DEF AcceptStructure
<1>3. ASSUME NEW n \in Ids' PROVE Deps(n)' \in Seq(Ids')
  <2>1. PICK i \in DOMAIN Normalized : Normalized[i].id = n
    BY <1>1 DEF IdsOf
  <2>2. NodeOf(n)' = Normalized[i]
    <3>1. Normalized[i] \in {Normalized[j] : j \in DOMAIN Normalized}
      OBVIOUS
    <3>2. \A r \in {Normalized[j] : j \in DOMAIN Normalized} : r.id = n => r = Normalized[i]
      BY <1>2, <2>1
    <3> QED
      BY <1>1, <2>1, <3>1, <3>2 DEF NodeOf
  <2>3. Deps(n)' = Normalized[i].depends_on
    BY <2>2 DEF Deps
  <2>4. IsSeq(Normalized[i].depends_on)
    BY NormalizedLists DEF TypeOK
  <2> QED
    BY <1>1, <1>2, <2>3, <2>4 DEF IsSeq
<1> QED
  BY <1>1, <1>2, <1>3

-----------------------------------------------------------------------------
(* Types.                                                                  *)

\* A step that keeps the nodes and moves within the typed values.
LEMMA TypedStep ==
  ASSUME TypeOK, nodes' = nodes, raw' = raw,
         phase' \in {"cycle", "inputs", "executors", "order", "done"},
         verdict' \in {"none", "GRAPH_INVALID", "DEPENDENCY_CYCLE", "EXECUTOR_UNAVAILABLE", "ADMITTED"},
         phase' = "done" <=> verdict' # "none",
         nodes # <<>> => /\ color' \in [Ids -> {"white", "grey", "black"}]
                         /\ next' \in [Ids -> Nat \ {0}],
         root' \in Nat \ {0}, stack' \in Seq(Ids), cycle' \in Seq(Ids),
         at' \in Nat \ {0}, seen' \subseteq Ids, pending' \in Seq(Ids), broken' \in BOOLEAN,
         order' \in Seq(Ids),
         phase' = "order" => /\ DOMAIN remaining' \subseteq Ids
                             /\ remaining' \in [DOMAIN remaining' -> SUBSET Ids]
  PROVE  TypeOK'
<1>1. /\ IsSeq(raw.nodes)' /\ (\A i \in DOMAIN raw.nodes : IsSeq(Get(raw.nodes[i], "depends_on", <<>>)))'
      /\ IsSeq(nodes)'
  BY DEF TypeOK
<1>2. Ids' = Ids /\ \A n \in Ids' : Deps(n)' \in Seq(Ids')
  BY NodesFrame DEF TypeOK
<1> QED
  BY <1>1, <1>2 DEF TypeOK

LEMMA TopTyped ==
  ASSUME TypeOK, stack # <<>>
  PROVE  /\ Top \in Ids /\ Len(stack) \in DOMAIN stack /\ Deps(Top) \in Seq(Ids)
         /\ SubSeq(stack, 1, Len(stack) - 1) \in Seq(Ids)
         /\ \A k \in DOMAIN Deps(Top) : Deps(Top)[k] \in Ids /\ Deps(Top)[k] \in DepSet(Top)
<1>1. Top \in Ids /\ Len(stack) \in DOMAIN stack /\ SubSeq(stack, 1, Len(stack) - 1) \in Seq(Ids)
  BY DEF TypeOK, Top
<1>2. Deps(Top) \in Seq(Ids)
  BY <1>1 DEF TypeOK
<1> QED
  BY <1>1, <1>2 DEF DepSet

LEMMA SearchTyped ==
  ASSUME TypeOK, nodes # <<>>,
         StartVisit \/ PassRoot \/ Descend \/ SkipDependency \/ ReportCycle \/ Retreat
  PROVE  TypeOK'
<1> USE DEF searching, wiring, sorting
<1>1. CASE StartVisit
  <2>1. root \in DOMAIN nodes /\ Visit(nodes[root].id) /\ root' \in Nat \ {0}
    BY <1>1 DEF StartVisit, TypeOK
  <2>2. nodes[root].id \in Ids
    BY <2>1 DEF Ids, IdsOf
  <2>3. color' \in [Ids -> {"white", "grey", "black"}] /\ stack' \in Seq(Ids)
    BY <2>1, <2>2 DEF Visit, TypeOK
  <2> QED
    BY <1>1, <2>1, <2>3, TypedStep DEF StartVisit, TypeOK
<1>2. CASE Descend
  <2>1. Top \in Ids /\ Dependency \in Ids
    BY <1>2, TopTyped DEF Descend, Looking, Dependency
  <2>2. color' \in [Ids -> {"white", "grey", "black"}] /\ next' \in [Ids -> Nat \ {0}] /\ stack' \in Seq(Ids)
    BY <1>2, <2>1 DEF Descend, Visit, TypeOK
  <2> QED
    BY <1>2, <2>2, TypedStep DEF Descend, Looking, TypeOK
<1>3. CASE SkipDependency
  <2>1. Top \in Ids
    BY <1>3, TopTyped DEF SkipDependency, Looking
  <2>2. next' \in [Ids -> Nat \ {0}]
    BY <1>3, <2>1 DEF SkipDependency, TypeOK
  <2> QED
    BY <1>3, <2>2, TypedStep DEF SkipDependency, Looking, TypeOK
<1>4. CASE ReportCycle
  <2>1. Dependency \in Ids
    BY <1>4, TopTyped DEF ReportCycle, Looking, Dependency
  <2>2. PICK i \in DOMAIN stack : cycle' = Append(SubSeq(stack, i, Len(stack)), Dependency)
    BY <1>4 DEF ReportCycle
  <2>3. stack \in Seq(Ids) /\ i \in 1..Len(stack)
    BY DEF TypeOK
  <2>4. SubSeq(stack, i, Len(stack)) \in Seq(Ids)
    BY <2>3
  <2>5. cycle' \in Seq(Ids)
    BY <2>1, <2>2, <2>4
  <2> QED
    BY <1>4, <2>5, TypedStep DEF ReportCycle, Looking, End, TypeOK
<1>5. CASE Retreat
  <2>1. Top \in Ids /\ stack' \in Seq(Ids)
    BY <1>5, TopTyped DEF Retreat
  <2>2. color' \in [Ids -> {"white", "grey", "black"}]
    BY <1>5, <2>1 DEF Retreat, TypeOK
  <2> QED
    BY <1>5, <2>1, <2>2, TypedStep DEF Retreat, TypeOK
<1>6. CASE PassRoot
  BY <1>6, TypedStep DEF PassRoot, TypeOK
<1> QED
  BY <1>1, <1>2, <1>3, <1>4, <1>5, <1>6

LEMMA DepsOfNode ==
  ASSUME TypeOK, RulesHeld, nodes # <<>>, NEW i \in DOMAIN nodes
  PROVE  /\ nodes[i].id \in Ids /\ NodeOf(nodes[i].id) = nodes[i]
         /\ Deps(nodes[i].id) = nodes[i].depends_on /\ nodes[i].depends_on \in Seq(Ids)
<1>1. nodes[i].id \in Ids /\ NodeOf(nodes[i].id) = nodes[i]
  BY UniqueIds, NodeOfId
<1> QED
  BY <1>1 DEF Deps, TypeOK

LEMMA WiringTyped ==
  ASSUME TypeOK, RulesHeld, nodes # <<>>,
         SearchOver \/ SkipAncestor \/ AddAncestor \/ CheckInputs \/ RejectInputs \/ AcceptInputs
  PROVE  TypeOK'
<1> USE DEF searching, wiring, sorting
<1>1. IsSeq(nodes) /\ 1 \in DOMAIN nodes
  BY DEF TypeOK, IsSeq
<1>2. CASE SearchOver
  <2>1. pending' \in Seq(Ids)
    BY <1>1, <1>2, DepsOfNode DEF SearchOver
  <2> QED
    BY <1>2, <2>1, TypedStep DEF SearchOver, TypeOK
<1>3. pending # <<>> => Rest \in Seq(Ids) /\ NextAncestor \in Ids
  BY DEF Rest, NextAncestor, TypeOK
<1>4. CASE SkipAncestor
  BY <1>3, <1>4, TypedStep DEF SkipAncestor, TypeOK
<1>5. CASE AddAncestor
  <2>1. pending' \in Seq(Ids) /\ seen' \subseteq Ids
    BY <1>3, <1>5 DEF AddAncestor, TypeOK
  <2> QED
    BY <1>5, <2>1, TypedStep DEF AddAncestor, TypeOK
<1>6. CASE CheckInputs
  <2>1. pending' \in Seq(Ids)
    BY <1>6, DepsOfNode DEF CheckInputs
  <2>2. broken' \in BOOLEAN
    BY <1>6, Zenon DEF CheckInputs
  <2>3. at' \in Nat \ {0} /\ seen' \subseteq Ids
    BY <1>6 DEF CheckInputs, TypeOK
  <2> QED
    BY <1>6, <2>1, <2>2, <2>3, TypedStep DEF CheckInputs, TypeOK
<1>7. CASE RejectInputs
  BY <1>7, TypedStep DEF RejectInputs, End, TypeOK
<1>8. CASE AcceptInputs
  BY <1>8, TypedStep DEF AcceptInputs, TypeOK
<1> QED
  BY <1>2, <1>4, <1>5, <1>6, <1>7, <1>8

LEMMA SortTyped ==
  ASSUME TypeOK, RulesHeld, nodes # <<>>,
         RejectExecutors \/ AcceptExecutors \/ TakeNext \/ Admit
  PROVE  TypeOK'
<1> USE DEF searching, wiring, sorting
<1>1. CASE RejectExecutors
  BY <1>1, TypedStep DEF RejectExecutors, End, TypeOK
<1>2. CASE AcceptExecutors
  <2>1. DOMAIN remaining' \subseteq Ids /\ remaining' \in [DOMAIN remaining' -> SUBSET Ids]
    BY <1>2, DepSetOfDeps DEF AcceptExecutors, TypeOK
  <2> QED
    BY <1>2, <2>1, TypedStep DEF AcceptExecutors, TypeOK
<1>3. CASE TakeNext
  <2>1. CASE Ready = {}
    BY <1>3, <2>1, TypedStep DEF TakeNext, End, TypeOK
  <2>2. CASE Ready # {}
    <3>1. PICK i \in DOMAIN nodes : Take(nodes[i].id)
      BY <1>3, <2>2 DEF TakeNext
    <3>2. nodes[i].id \in Ids
      BY DEF Ids, IdsOf
    <3>3. order' \in Seq(Ids)
      BY <3>1, <3>2 DEF Take, TypeOK
    <3>4. DOMAIN remaining' \subseteq Ids /\ remaining' \in [DOMAIN remaining' -> SUBSET Ids]
      BY <1>3, <3>1 DEF Take, TakeNext, TypeOK
    <3> QED
      BY <1>3, <2>2, <3>3, <3>4, TypedStep DEF TakeNext, TypeOK
  <2> QED
    BY <2>1, <2>2
<1>4. CASE Admit
  BY <1>4, TypedStep DEF Admit, End, TypeOK
<1> QED
  BY <1>1, <1>2, <1>3, <1>4

LEMMA FirstPassTyped ==
  ASSUME TypeOK, SearchInvariant, WiringInvariant, SortInvariant, RejectStructure \/ AcceptStructure
  PROVE  TypeOK'
<1> USE DEF searching, wiring, sorting
<1>1. CASE RejectStructure
  <2>1. nodes = <<>>
    BY <1>1 DEF RejectStructure, SearchInvariant, Begun
  <2> QED
    BY <1>1, <2>1, TypedStep DEF RejectStructure, End, TypeOK
<1>2. CASE AcceptStructure
  <2>1. /\ IsSeq(nodes') /\ (\A n \in Ids : Deps(n) \in Seq(Ids))'
        /\ nodes' # <<>>
    BY <1>2, AcceptTyped
  <2>2. Ids' = IdsOf(Normalized)
    BY <1>2 DEF AcceptStructure, Ids
  <2>3. color' \in [Ids' -> {"white", "grey", "black"}] /\ next' \in [Ids' -> Nat \ {0}]
    BY <1>2, <2>2 DEF AcceptStructure
  <2>4. /\ stack' = <<>> /\ cycle' = <<>> /\ order' = <<>> /\ pending' = pending /\ at' = 1 /\ seen' = {}
    BY <1>2 DEF AcceptStructure, SearchInvariant, WiringInvariant, SortInvariant
  <2>5. pending' \in Seq(Ids')
    <3>1. Ids = {}
      BY <1>2 DEF AcceptStructure, SearchInvariant, Begun, Ids, IdsOf
    <3>2. pending \in Seq({}) /\ {} \subseteq Ids'
      BY <3>1 DEF TypeOK
    <3> QED
      BY <1>2, <3>2 DEF AcceptStructure
  <2>6. broken' \in BOOLEAN /\ phase' = "cycle" /\ verdict' = "none" /\ raw' = raw
    BY <1>2 DEF AcceptStructure, TypeOK
  <2>8. root' \in Nat \ {0}
    BY <1>2 DEF AcceptStructure, TypeOK
  <2>7. (\A j \in DOMAIN raw.nodes : IsSeq(Get(raw.nodes[j], "depends_on", <<>>)))' /\ IsSeq(raw.nodes)'
    BY <2>6 DEF TypeOK
  <2> QED
    BY <2>1, <2>3, <2>4, <2>5, <2>6, <2>7, <2>8 DEF TypeOK
<1> QED
  BY <1>1, <1>2

LEMMA Reset ==
  ASSUME AdmissionInvariant, Load
  PROVE  AdmissionInvariant'
<1>1. /\ nodes' = <<>> /\ phase' = "structure" /\ verdict' = "none" /\ at' = 1 /\ seen' = {}
      /\ stack' = <<>> /\ cycle' = <<>> /\ pending' = <<>> /\ order' = <<>> /\ raw'.nodes = nodes
      /\ root' = 1
  BY DEF Load
<1>2. broken' = FALSE
  BY DEF Load
<1>3. Ids' = {}
  BY <1>1 DEF Ids, IdsOf
<1>4. TypeOK'
  <2>1. IsSeq(raw.nodes)'
    BY <1>1 DEF AdmissionInvariant, TypeOK
  <2>2. nodes # <<>> /\ nodes = Normalized
    BY DEF AdmissionInvariant, RulesHeld, WiringInvariant, Begun, Load
  <2>3. (\A i \in DOMAIN raw.nodes : IsSeq(Get(raw.nodes[i], "depends_on", <<>>)))'
    BY <1>1, <2>2, NormalizedLists DEF AdmissionInvariant, TypeOK
  <2>4. IsSeq(nodes)'
    BY <1>1 DEF IsSeq
  <2>5. <<>> \in Seq(Ids')
    OBVIOUS
  <2>6. broken' \in BOOLEAN
    BY <1>2, Zenon
  <2> QED
    BY <1>1, <1>3, <2>1, <2>3, <2>4, <2>5, <2>6 DEF TypeOK
<1>5. RulesHeld' /\ RootInvariant'
  BY <1>1 DEF RulesHeld, RootInvariant, Begun
<1>6. SearchInvariant'
  BY <1>1 DEF SearchInvariant, Begun
<1>7. WiringInvariant'
  BY <1>1, <1>2 DEF WiringInvariant, Begun
<1>8. SortInvariant'
  BY <1>1 DEF SortInvariant, OrderInvariant
<1> QED
  BY <1>4, <1>5, <1>6, <1>7, <1>8 DEF AdmissionInvariant

LEMMA BegunActions ==
  ASSUME AdmissionInvariant,
         \/ StartVisit \/ PassRoot \/ Descend \/ SkipDependency \/ ReportCycle \/ Retreat \/ SearchOver
         \/ SkipAncestor \/ AddAncestor \/ CheckInputs \/ RejectInputs \/ AcceptInputs
         \/ RejectExecutors \/ AcceptExecutors \/ TakeNext \/ Admit
  PROVE  /\ nodes # <<>> /\ nodes' = nodes /\ raw' = raw
         /\ phase \notin {"structure", "done"} /\ phase' # "structure" /\ cycle = <<>> /\ verdict = "none"
<1>1. phase \notin {"structure", "done"} /\ nodes' = nodes /\ raw' = raw
  BY DEF StartVisit, PassRoot, Descend, SkipDependency, ReportCycle, Looking, Retreat, SearchOver,
         SkipAncestor, AddAncestor, CheckInputs, RejectInputs, AcceptInputs,
         RejectExecutors, AcceptExecutors, TakeNext, Admit, End
<1>2. phase' # "structure"
  BY <1>1 DEF StartVisit, PassRoot, Descend, SkipDependency, ReportCycle, Looking, Retreat, SearchOver,
         SkipAncestor, AddAncestor, CheckInputs, RejectInputs, AcceptInputs,
         RejectExecutors, AcceptExecutors, TakeNext, Admit, End
<1> QED
  BY <1>1, <1>2 DEF AdmissionInvariant, TypeOK, SearchInvariant, Begun

LEMMA TypePreserved ==
  ASSUME AdmissionInvariant, [Next]_vars
  PROVE  TypeOK'
<1> USE DEF AdmissionInvariant
<1>1. CASE UNCHANGED vars
  BY <1>1, NodesFrame DEF TypeOK, vars
<1>2. CASE RejectStructure \/ AcceptStructure
  BY <1>2, FirstPassTyped
<1>3. CASE Load
  BY <1>3, Reset
<1>4. CASE StartVisit \/ PassRoot \/ Descend \/ SkipDependency \/ ReportCycle \/ Retreat
  BY <1>4, BegunActions, SearchTyped
<1>5. CASE SearchOver \/ SkipAncestor \/ AddAncestor \/ CheckInputs \/ RejectInputs \/ AcceptInputs
  BY <1>5, BegunActions, WiringTyped
<1>6. CASE RejectExecutors \/ AcceptExecutors \/ TakeNext \/ Admit
  BY <1>6, BegunActions, SortTyped
<1> QED
  BY <1>1, <1>2, <1>3, <1>4, <1>5, <1>6 DEF Next, Proceed

LEMMA RulesPreserved ==
  ASSUME AdmissionInvariant, [Next]_vars
  PROVE  RulesHeld'
<1> USE DEF AdmissionInvariant
<1>1. CASE nodes' = nodes /\ raw' = raw
  BY <1>1 DEF RulesHeld, Normalized
<1>2. CASE RejectStructure
  BY <1>1, <1>2 DEF RejectStructure
<1>3. CASE AcceptStructure
  BY <1>3 DEF AcceptStructure, RulesHeld, Normalized
<1>4. CASE Load
  BY <1>4, Reset
<1> QED
  BY <1>1, <1>2, <1>3, <1>4, BegunActions DEF Next, Proceed, vars

-----------------------------------------------------------------------------
(* find_cycle.                                                             *)

LEMMA VisitKeeps ==
  ASSUME TypeOK, nodes # <<>>, PathGrey, LookedAt, BlackAcyclic,
         nodes' = nodes, NEW n \in Ids, color[n] = "white", Visit(n),
         \/ stack = <<>> /\ next' = next
         \/ stack # <<>> /\ Looking /\ n = Dependency /\ next' = [next EXCEPT ![Top] = @ + 1]
  PROVE  PathGrey' /\ LookedAt' /\ BlackAcyclic'
<1>1. Ids' = Ids /\ (\A m : Deps(m)' = Deps(m) /\ DepSet(m)' = DepSet(m)) /\ \A m \in Ids : Deps(m) \in Seq(Ids)
  BY NodesFrame DEF TypeOK
<1>2. /\ color \in [Ids -> {"white", "grey", "black"}] /\ next \in [Ids -> Nat \ {0}] /\ stack \in Seq(Ids)
      /\ color' = [color EXCEPT ![n] = "grey"] /\ stack' = Append(stack, n)
  BY DEF TypeOK, Visit
<1>3. /\ DOMAIN stack' = 1..(Len(stack) + 1) /\ Len(stack') = Len(stack) + 1
      /\ stack'[Len(stack) + 1] = n /\ \A i \in DOMAIN stack : stack'[i] = stack[i]
      /\ DOMAIN stack = 1..Len(stack) /\ Len(stack) \in Nat
  BY <1>2
<1>4. \A i \in DOMAIN stack : stack[i] # n
  BY <1>2 DEF PathGrey
<1>5. stack # <<>> => /\ Top \in Ids /\ Top = stack[Len(stack)] /\ Len(stack) \in DOMAIN stack
                      /\ Deps(Top) \in Seq(Ids) /\ next[Top] \in DOMAIN Deps(Top) /\ Deps(Top)[next[Top]] = n
                      /\ n \in DepSet(Top)
  BY TopTyped DEF Top, Looking, Dependency
<1>6. PathGrey'
  <2>1. \A m \in Ids' : color'[m] = "grey" <=> \E i \in DOMAIN stack' : stack'[i] = m
    BY <1>1, <1>2, <1>3 DEF PathGrey
  <2>2. \A i, j \in DOMAIN stack' : stack'[i] = stack'[j] => i = j
    BY <1>3, <1>4 DEF PathGrey
  <2>3. (\A i \in DOMAIN stack : i < Len(stack) => stack[i + 1] \in DepSet(stack[i]))'
    <3> SUFFICES ASSUME NEW i \in DOMAIN stack', i < Len(stack')
                 PROVE  stack'[i + 1] \in DepSet(stack'[i])
      BY <1>1
    <3>1. CASE i < Len(stack)
      BY <1>3, <3>1 DEF PathGrey
    <3>2. CASE i = Len(stack)
      BY <1>3, <1>5, <3>2
    <3> QED
      BY <1>3, <3>1, <3>2
  <2> QED
    BY <2>1, <2>2, <2>3 DEF PathGrey
<1>7. LookedAt'
  <2>1. \A m \in Ids' : color'[m] = "white" => next'[m] = 1
    <3> SUFFICES ASSUME NEW m \in Ids, color'[m] = "white" PROVE next'[m] = 1
      BY <1>1
    <3>1. color[m] = "white" /\ m # n
      BY <1>2
    <3>2. stack # <<>> => m # Top
      BY <1>5, <3>1 DEF PathGrey
    <3> QED
      BY <1>2, <3>1, <3>2 DEF LookedAt
  <2>2. ASSUME NEW m \in Ids, NEW k \in DOMAIN Deps(m), k < next'[m]
        PROVE  \/ color'[Deps(m)[k]] = "black"
               \/ \E i \in DOMAIN stack' : i < Len(stack') /\ stack'[i] = m /\ stack'[i + 1] = Deps(m)[k]
    <3>1. CASE k < next[m]
      <4>1. CASE color[Deps(m)[k]] = "black"
        <5>1. Deps(m)[k] \in Ids
          BY DEF TypeOK
        <5> QED
          BY <1>2, <4>1, <5>1
      <4>2. CASE \E i \in DOMAIN stack : i < Len(stack) /\ stack[i] = m /\ stack[i + 1] = Deps(m)[k]
        BY <1>3, <4>2
      <4> QED
        BY <3>1, <4>1, <4>2 DEF LookedAt
    <3>2. CASE ~(k < next[m])
      <4>1. stack # <<>> /\ m = Top /\ k = next[m]
        <5>1. Deps(m) \in Seq(Ids) /\ next[m] \in Nat /\ k \in Nat
          BY <1>1, <1>2, SMTT(40)
        <5> QED
          BY <1>2, <1>5, <2>2, <3>2, <5>1, SMTT(40)
      <4>2. /\ Len(stack) \in DOMAIN stack' /\ Len(stack) < Len(stack') /\ stack'[Len(stack)] = m
            /\ stack'[Len(stack) + 1] = Deps(m)[k]
        BY <1>3, <1>5, <4>1
      <4> QED
        BY <4>2
    <3> QED
      BY <3>1, <3>2
  <2>3. ASSUME NEW m \in Ids', NEW k \in DOMAIN Deps(m)', k < next'[m]
        PROVE  \/ color'[Deps(m)'[k]] = "black"
               \/ \E i \in DOMAIN stack' : i < Len(stack') /\ stack'[i] = m /\ stack'[i + 1] = Deps(m)'[k]
    <3>1. Deps(m)' = Deps(m) /\ m \in Ids
      BY <1>1
    <3> QED
      BY <2>2, <2>3, <3>1
  <2> QED
    BY <2>1, <2>3 DEF LookedAt
<1>8. BlackAcyclic'
  <2>1. Blacks' = Blacks
    BY <1>1, <1>2 DEF Blacks
  <2> QED
    BY <1>1, <2>1 DEF BlackAcyclic, Closed
<1> QED
  BY <1>6, <1>7, <1>8

\* A dependency that is finished is passed over.
LEMMA SkipKeeps ==
  ASSUME TypeOK, nodes # <<>>, PathGrey, LookedAt, BlackAcyclic, SkipDependency
  PROVE  PathGrey' /\ LookedAt' /\ BlackAcyclic'
<1>1. nodes' = nodes /\ color' = color /\ stack' = stack /\ next' = [next EXCEPT ![Top] = @ + 1]
  BY DEF SkipDependency
<1>2. Ids' = Ids /\ (\A m : Deps(m)' = Deps(m) /\ DepSet(m)' = DepSet(m)) /\ \A m \in Ids : Deps(m) \in Seq(Ids)
  BY <1>1, NodesFrame DEF TypeOK
<1>3. /\ Top \in Ids /\ Top = stack[Len(stack)] /\ Len(stack) \in DOMAIN stack
      /\ color[Deps(Top)[next[Top]]] = "black" /\ next \in [Ids -> Nat \ {0}]
  BY TopTyped DEF SkipDependency, Looking, Dependency, Top, TypeOK
<1>4. PathGrey'
  BY <1>1, <1>2 DEF PathGrey
<1>5. BlackAcyclic'
  <2>1. Blacks' = Blacks
    BY <1>1, <1>2 DEF Blacks
  <2> QED
    BY <1>2, <2>1 DEF BlackAcyclic, Closed
<1>6. LookedAt'
  <2>1. ASSUME NEW m \in Ids', color'[m] = "white" PROVE next'[m] = 1
    <3>1. m # Top
      BY <1>1, <1>2, <1>3, <2>1 DEF PathGrey
    <3> QED
      BY <1>1, <1>2, <1>3, <2>1, <3>1 DEF LookedAt
  <2>2. ASSUME NEW m \in Ids', NEW k \in DOMAIN Deps(m)', k < next'[m]
        PROVE  \/ color'[Deps(m)'[k]] = "black"
               \/ \E i \in DOMAIN stack' : i < Len(stack') /\ stack'[i] = m /\ stack'[i + 1] = Deps(m)'[k]
    <3>1. Deps(m)' = Deps(m) /\ m \in Ids /\ Deps(m) \in Seq(Ids) /\ k \in Nat /\ next[m] \in Nat
      BY <1>2, <1>3, SMTT(40)
    <3>2. CASE k < next[m]
      BY <1>1, <3>1, <3>2 DEF LookedAt
    <3>3. CASE ~(k < next[m])
      <4>1. m = Top /\ k = next[m]
        BY <1>1, <1>3, <2>2, <3>1, <3>3
      <4> QED
        BY <1>1, <1>3, <3>1, <4>1
    <3> QED
      BY <3>2, <3>3
  <2> QED
    BY <2>1, <2>2 DEF LookedAt
<1> QED
  BY <1>4, <1>5, <1>6

\* A visit returns: all its dependencies are finished, and so is the node.
LEMMA RetreatKeeps ==
  ASSUME TypeOK, nodes # <<>>, PathGrey, LookedAt, BlackAcyclic, Retreat
  PROVE  PathGrey' /\ LookedAt' /\ BlackAcyclic'
<1>1. /\ nodes' = nodes /\ next' = next /\ color' = [color EXCEPT ![Top] = "black"]
      /\ stack' = SubSeq(stack, 1, Len(stack) - 1)
  BY DEF Retreat
<1>2. Ids' = Ids /\ (\A m : Deps(m)' = Deps(m) /\ DepSet(m)' = DepSet(m)) /\ \A m \in Ids : Deps(m) \in Seq(Ids)
  BY <1>1, NodesFrame DEF TypeOK
<1>3. /\ Top \in Ids /\ Top = stack[Len(stack)] /\ Len(stack) \in DOMAIN stack
      /\ next[Top] \notin DOMAIN Deps(Top) /\ next \in [Ids -> Nat \ {0}] /\ stack \in Seq(Ids)
      /\ color \in [Ids -> {"white", "grey", "black"}]
  BY TopTyped DEF Retreat, Top, TypeOK
<1>4. /\ DOMAIN stack = 1..Len(stack) /\ Len(stack) \in Nat \ {0} /\ Len(stack') = Len(stack) - 1
      /\ DOMAIN stack' = 1..(Len(stack) - 1) /\ \A i \in DOMAIN stack' : stack'[i] = stack[i]
  <2>1. DOMAIN stack = 1..Len(stack) /\ Len(stack) \in Nat \ {0}
    BY <1>3
  <2>2. 1 \in 1..(Len(stack) + 1) /\ Len(stack) - 1 \in Nat /\ 0 <= Len(stack) - 1
    BY <2>1
  <2>3. Len(stack') = Len(stack) - 1 /\ DOMAIN stack' = 1..(Len(stack) - 1)
    BY <1>1, <1>3, <2>1, <2>2
  <2>4. ASSUME NEW i \in 1..(Len(stack) - 1) PROVE stack'[i] = stack[i]
    BY <1>1, <1>3, <2>1, <2>4
  <2> QED
    BY <2>1, <2>3, <2>4
<1>9. color[Top] = "grey" /\ \A i \in DOMAIN stack : stack[i] = Top => i = Len(stack)
  BY <1>3 DEF PathGrey
<1>5. \A k \in DOMAIN Deps(Top) : color[Deps(Top)[k]] = "black"
  <2> SUFFICES ASSUME NEW k \in DOMAIN Deps(Top) PROVE color[Deps(Top)[k]] = "black"
    OBVIOUS
  <2>1. k < next[Top]
    <3>1. Deps(Top) \in Seq(Ids) /\ next[Top] \in Nat \ {0} /\ next[Top] \notin DOMAIN Deps(Top)
      BY <1>2, <1>3
    <3> QED
      BY <3>1
  <2>2. ~\E i \in DOMAIN stack : i < Len(stack) /\ stack[i] = Top /\ stack[i + 1] = Deps(Top)[k]
    BY <1>4, <1>9
  <2> QED
    BY <1>3, <2>1, <2>2 DEF LookedAt
<1>6. PathGrey'
  <2>1. ASSUME NEW m \in Ids' PROVE color'[m] = "grey" <=> \E i \in DOMAIN stack' : stack'[i] = m
    <3>1. m \in Ids /\ DOMAIN stack = DOMAIN stack' \cup {Len(stack)} /\ Len(stack) \notin DOMAIN stack'
      BY <1>2, <1>4
    <3>2. CASE m = Top
      BY <1>1, <1>3, <1>4, <1>9, <3>1, <3>2
    <3>3. CASE m # Top
      <4>1. color'[m] = color[m]
        BY <1>1, <1>3, <3>1, <3>3
      <4>2. (\E i \in DOMAIN stack : stack[i] = m) <=> \E i \in DOMAIN stack' : stack'[i] = m
        BY <1>3, <1>4, <3>1, <3>3
      <4> QED
        BY <3>1, <4>1, <4>2 DEF PathGrey
    <3> QED
      BY <3>2, <3>3
  <2>2. \A i, j \in DOMAIN stack' : stack'[i] = stack'[j] => i = j
    BY <1>4 DEF PathGrey
  <2>3. ASSUME NEW i \in DOMAIN stack', i < Len(stack') PROVE stack'[i + 1] \in (DepSet(stack[i]))'
    <3>1. i \in DOMAIN stack /\ i < Len(stack) /\ stack'[i + 1] = stack[i + 1] /\ stack'[i] = stack[i]
      BY <1>4, <2>3
    <3> QED
      BY <1>2, <3>1 DEF PathGrey
  <2> QED
    BY <2>1, <2>2, <2>3 DEF PathGrey
<1>7. LookedAt'
  <2>1. ASSUME NEW m \in Ids', color'[m] = "white" PROVE next'[m] = 1
    BY <1>1, <1>2, <1>3, <2>1 DEF LookedAt
  <2>2. ASSUME NEW m \in Ids', NEW k \in DOMAIN Deps(m)', k < next'[m]
        PROVE  \/ color'[Deps(m)'[k]] = "black"
               \/ \E i \in DOMAIN stack' : i < Len(stack') /\ stack'[i] = m /\ stack'[i + 1] = Deps(m)'[k]
    <3>1. Deps(m)' = Deps(m) /\ m \in Ids /\ Deps(m)[k] \in Ids /\ k < next[m] /\ k \in DOMAIN Deps(m)
      BY <1>1, <1>2, <2>2
    <3>2. CASE color[Deps(m)[k]] = "black"
      BY <1>1, <1>3, <3>1, <3>2
    <3>3. CASE \E i \in DOMAIN stack : i < Len(stack) /\ stack[i] = m /\ stack[i + 1] = Deps(m)[k]
      <4>1. PICK i \in DOMAIN stack : i < Len(stack) /\ stack[i] = m /\ stack[i + 1] = Deps(m)[k]
        BY <3>3
      <4>2. CASE i + 1 = Len(stack)
        BY <1>1, <1>3, <3>1, <4>1, <4>2
      <4>3. CASE i + 1 # Len(stack)
        BY <1>4, <3>1, <4>1, <4>3
      <4> QED
        BY <4>2, <4>3
    <3> QED
      BY <3>1, <3>2, <3>3 DEF LookedAt
  <2> QED
    BY <2>1, <2>2 DEF LookedAt
<1>8. BlackAcyclic'
  <2>1. Blacks' = Blacks \cup {Top} /\ Top \notin Blacks
    BY <1>1, <1>2, <1>3, <1>9 DEF Blacks
  <2>2. DepSet(Top) \subseteq Blacks
    BY <1>2, <1>3, <1>5 DEF DepSet, Blacks
  <2>3. Closed(Blacks)'
    BY <1>2, <2>1, <2>2 DEF BlackAcyclic, Closed
  <2>4. ASSUME NEW C \in SUBSET Blacks', C # {} PROVE \E n \in C : DepSet(n) \cap C = {}
    <3>1. CASE C \ {Top} = {}
      BY <2>1, <2>2, <2>4, <3>1
    <3>2. CASE C \ {Top} # {}
      <4>1. PICK n \in C \ {Top} : DepSet(n) \cap (C \ {Top}) = {}
        BY <2>1, <3>2 DEF BlackAcyclic
      <4>2. n \in Blacks /\ DepSet(n) \subseteq Blacks
        BY <2>1 DEF BlackAcyclic, Closed
      <4> QED
        BY <2>1, <4>1, <4>2
    <3> QED
      BY <3>1, <3>2
  <2> QED
    BY <1>2, <2>3, <2>4 DEF BlackAcyclic
<1> QED
  BY <1>6, <1>7, <1>8

LEMMA SearchFrame ==
  ASSUME nodes' = nodes, color' = color, stack' = stack, next' = next,
         PathGrey, LookedAt, BlackAcyclic
  PROVE  PathGrey' /\ LookedAt' /\ BlackAcyclic' /\ Blacks' = Blacks
<1>1. Ids' = Ids /\ \A m : Deps(m)' = Deps(m) /\ DepSet(m)' = DepSet(m)
  BY NodesFrame
<1>2. PathGrey'
  BY <1>1 DEF PathGrey
<1>3. LookedAt'
  BY <1>1 DEF LookedAt
<1>4. Blacks' = Blacks
  BY <1>1 DEF Blacks
<1>5. BlackAcyclic'
  BY <1>1, <1>4 DEF BlackAcyclic, Closed
<1> QED
  BY <1>2, <1>3, <1>4, <1>5

\* Once every node is finished there is no cycle.
LEMMA SearchedAcyclic ==
  ASSUME SearchInvariant, nodes # <<>>, phase # "cycle", cycle = <<>>
  PROVE  /\ \A C \in SUBSET Ids : C # {} => \E n \in C : DepSet(n) \cap C = {}
         /\ ~HasCycle
<1>1. \A C \in SUBSET Ids : C # {} => \E n \in C : DepSet(n) \cap C = {}
  BY DEF SearchInvariant, Begun, BlackAcyclic
<1> QED
  BY <1>1 DEF HasCycle

\* topological_order always has a node to take.
LEMMA NeverStuck ==
  ASSUME AdmissionInvariant, phase = "order", DOMAIN remaining # {}
  PROVE  Ready # {}
<1>1. nodes # <<>> /\ cycle = <<>>
  BY DEF AdmissionInvariant, SearchInvariant, Begun
<1>2. /\ DOMAIN remaining \in SUBSET Ids
      /\ \A m \in DOMAIN remaining : remaining[m] = DepSet(m) \cap DOMAIN remaining
  BY DEF AdmissionInvariant, SortInvariant, RemainingInvariant
<1>3. PICK n \in DOMAIN remaining : DepSet(n) \cap DOMAIN remaining = {}
  BY <1>1, <1>2, SearchedAcyclic DEF AdmissionInvariant
<1> QED
  BY <1>2, <1>3 DEF Ready

\* The loop of find_cycle is over once it has come to every node.
LEMMA NoneUnvisited ==
  ASSUME TypeOK, RootInvariant, nodes # <<>>, root \notin DOMAIN nodes
  PROVE  \A n \in Ids : color[n] # "white"
<1>1. DOMAIN nodes = 1..Len(nodes) /\ Len(nodes) \in Nat /\ root \in Nat \ {0}
  BY DEF TypeOK, IsSeq
<1>2. root = Len(nodes) + 1
  BY <1>1 DEF RootInvariant, Begun
<1>3. \A j \in DOMAIN nodes : color[nodes[j].id] # "white"
  BY <1>1, <1>2 DEF RootInvariant, Begun
<1> QED
  BY <1>3 DEF Ids, IdsOf

\* A node that was visited stays visited, and the loop goes on only behind such nodes.
LEMMA RootKept ==
  ASSUME TypeOK, RootInvariant, nodes # <<>>, nodes' = nodes,
         \A n \in Ids : color[n] # "white" => color'[n] # "white",
         \/ root' = root
         \/ (root' = root + 1 /\ root \in DOMAIN nodes /\ color'[nodes[root].id] # "white")
  PROVE  RootInvariant'
<1>1. DOMAIN nodes = 1..Len(nodes) /\ Len(nodes) \in Nat /\ root \in Nat \ {0}
  BY DEF TypeOK, IsSeq
<1>2. root <= Len(nodes) + 1 /\ \A j \in 1..(root - 1) : color[nodes[j].id] # "white"
  BY DEF RootInvariant, Begun
<1>3. \A j \in 1..(root - 1) : j \in DOMAIN nodes /\ nodes[j].id \in Ids
  BY <1>1, <1>2 DEF Ids, IdsOf
<1>4. \A j \in 1..(root - 1) : color'[nodes[j].id] # "white"
  BY <1>2, <1>3
<1>5. CASE root' = root
  BY <1>2, <1>4, <1>5 DEF RootInvariant, Begun
<1>6. CASE root' = root + 1 /\ root \in DOMAIN nodes /\ color'[nodes[root].id] # "white"
  <2>1. \A j \in 1..(root' - 1) : color'[nodes[j].id] # "white"
    BY <1>1, <1>4, <1>6
  <2>2. root' <= Len(nodes) + 1
    BY <1>1, <1>6
  <2> QED
    BY <2>1, <2>2 DEF RootInvariant, Begun
<1> QED
  BY <1>5, <1>6

LEMMA RootPreserved ==
  ASSUME AdmissionInvariant, [Next]_vars
  PROVE  RootInvariant'
<1> USE DEF AdmissionInvariant
<1>0. color \in [Ids -> {"white", "grey", "black"}] \/ nodes = <<>>
  BY DEF TypeOK
<1>1. CASE UNCHANGED vars
  BY <1>1 DEF vars, RootInvariant, Begun
<1>2. CASE RejectStructure
  BY <1>2 DEF RejectStructure, searching, RootInvariant, Begun
<1>3. CASE AcceptStructure
  <2>1. root' = 1
    BY <1>3 DEF AcceptStructure, SearchInvariant, RootInvariant
  <2>2. Len(nodes') \in Nat
    BY <1>3, AcceptTyped DEF IsSeq
  <2> QED
    BY <2>1, <2>2 DEF RootInvariant
<1>4. CASE Load
  BY <1>4, Reset
<1>5. CASE StartVisit \/ Descend
  <2>1. PICK n \in Ids : color' = [color EXCEPT ![n] = "grey"] /\ (root' = root \/ n = nodes[root].id)
    <3>1. CASE StartVisit
      BY <3>1 DEF StartVisit, Visit, Ids, IdsOf
    <3>2. CASE Descend
      <4>1. Dependency \in Ids
        BY <3>2, TopTyped DEF Descend, Looking, Dependency
      <4> QED
        BY <3>2, <4>1 DEF Descend, Visit
    <3> QED
      BY <1>5, <3>1, <3>2
  <2>2. nodes # <<>> /\ nodes' = nodes
    BY <1>5, BegunActions
  <2>3. root' = root \/ (root' = root + 1 /\ root \in DOMAIN nodes)
    BY <1>5 DEF StartVisit, Descend
  <2>4. color'[n] # "white" /\ \A m \in Ids : color[m] # "white" => color'[m] # "white"
    BY <1>0, <2>1, <2>2
  <2> QED
    BY <2>1, <2>2, <2>3, <2>4, RootKept
<1>6. CASE Retreat
  <2>1. nodes # <<>> /\ nodes' = nodes /\ root' = root /\ color' = [color EXCEPT ![Top] = "black"]
    BY <1>6, BegunActions DEF Retreat
  <2>2. \A m \in Ids : color[m] # "white" => color'[m] # "white"
    BY <1>0, <2>1
  <2> QED
    BY <2>1, <2>2, RootKept
<1>7. CASE PassRoot
  <2>1. nodes # <<>> /\ nodes' = nodes /\ root' = root + 1 /\ color' = color
        /\ root \in DOMAIN nodes /\ color[nodes[root].id] # "white"
    BY <1>7, BegunActions DEF PassRoot
  <2> QED
    BY <2>1, RootKept
<1>8. CASE \/ SkipDependency \/ ReportCycle \/ SearchOver
           \/ SkipAncestor \/ AddAncestor \/ CheckInputs \/ RejectInputs \/ AcceptInputs
           \/ RejectExecutors \/ AcceptExecutors \/ TakeNext \/ Admit
  <2>1. nodes # <<>> /\ nodes' = nodes
    BY <1>8, BegunActions
  <2>2. color' = color /\ root' = root
    BY <1>8 DEF SkipDependency, ReportCycle, SearchOver, SkipAncestor, AddAncestor, CheckInputs, RejectInputs,
                AcceptInputs, RejectExecutors, AcceptExecutors, TakeNext, Admit, searching
  <2> QED
    BY <2>1, <2>2, RootKept
<1> QED
  BY <1>1, <1>2, <1>3, <1>4, <1>5, <1>6, <1>7, <1>8 DEF Next, Proceed

LEMMA SearchPreserved ==
  ASSUME AdmissionInvariant, [Next]_vars
  PROVE  SearchInvariant'
<1> USE DEF AdmissionInvariant
<1>1. CASE UNCHANGED vars
  <2>1. /\ nodes' = nodes /\ color' = color /\ stack' = stack /\ next' = next
        /\ cycle' = cycle /\ phase' = phase /\ verdict' = verdict
    BY <1>1 DEF vars
  <2>2. Ids' = Ids
    BY <2>1, NodesFrame
  <2>3. Begun => PathGrey' /\ LookedAt' /\ BlackAcyclic' /\ Blacks' = Blacks
    BY <2>1, SearchFrame DEF SearchInvariant
  <2> QED
    BY <2>1, <2>2, <2>3 DEF SearchInvariant, Begun
<1>2. CASE RejectStructure
  BY <1>2 DEF RejectStructure, searching, End, SearchInvariant, Begun
<1>3. CASE AcceptStructure
  <2>1. /\ nodes' = Normalized /\ nodes' # <<>> /\ stack' = <<>> /\ cycle' = <<>> /\ phase' = "cycle" /\ verdict' = "none"
        /\ \A n \in Ids' : color'[n] = "white" /\ next'[n] = 1 /\ Deps(n)' \in Seq(Ids')
    <3>1. nodes' = Normalized /\ phase' = "cycle" /\ verdict' = "none" /\ stack' = <<>> /\ cycle' = <<>>
      BY <1>3 DEF AcceptStructure, SearchInvariant, TypeOK
    <3>2. nodes' # <<>> /\ \A n \in Ids' : Deps(n)' \in Seq(Ids')
      BY <1>3, AcceptTyped
    <3>3. Ids' = IdsOf(Normalized)
      BY <3>1 DEF Ids
    <3>4. \A n \in Ids' : color'[n] = "white" /\ next'[n] = 1
      BY <1>3, <3>3 DEF AcceptStructure
    <3> QED
      BY <3>1, <3>2, <3>4
  <2>2. PathGrey' /\ LookedAt'
    BY <2>1 DEF PathGrey, LookedAt
  <2>3. BlackAcyclic'
    <3>1. Blacks' = {}
      BY <2>1 DEF Blacks
    <3> QED
      BY <3>1 DEF BlackAcyclic, Closed
  <2> QED
    BY <2>1, <2>2, <2>3 DEF SearchInvariant, Begun
<1>4. CASE Load
  BY <1>4, Reset
<1>5. CASE StartVisit \/ PassRoot \/ Descend \/ SkipDependency \/ Retreat
  <2>1. /\ nodes # <<>> /\ nodes' = nodes /\ phase' = "cycle" /\ verdict' = "none" /\ cycle' = <<>>
        /\ PathGrey /\ LookedAt /\ BlackAcyclic
    BY <1>5, BegunActions DEF StartVisit, PassRoot, Descend, SkipDependency, Retreat, Looking, SearchInvariant, Begun
  <2>2. PathGrey' /\ LookedAt' /\ BlackAcyclic'
    <3>1. CASE StartVisit
      <4>1. root \in DOMAIN nodes /\ color[nodes[root].id] = "white" /\ Visit(nodes[root].id)
        BY <3>1 DEF StartVisit
      <4>2. nodes[root].id \in Ids
        BY <4>1 DEF Ids, IdsOf
      <4> QED
        BY <2>1, <3>1, <4>1, <4>2, VisitKeeps DEF StartVisit
    <3>2. CASE Descend
      <4>1. Dependency \in Ids
        BY <3>2, TopTyped DEF Descend, Looking, Dependency
      <4> QED
        BY <2>1, <3>2, <4>1, VisitKeeps DEF Descend, Looking
    <3>3. CASE SkipDependency
      BY <2>1, <3>3, SkipKeeps
    <3>4. CASE Retreat
      BY <2>1, <3>4, RetreatKeeps
    <3>5. CASE PassRoot
      <4>1. color' = color /\ stack' = stack /\ next' = next
        BY <3>5 DEF PassRoot
      <4> QED
        BY <2>1, <4>1, SearchFrame
    <3> QED
      BY <1>5, <3>1, <3>2, <3>3, <3>4, <3>5
  <2> QED
    BY <2>1, <2>2 DEF SearchInvariant, Begun
<1>6. CASE ReportCycle
  <2>1. /\ nodes # <<>> /\ nodes' = nodes /\ color' = color /\ stack' = stack /\ next' = next
        /\ phase' = "done" /\ verdict' = "DEPENDENCY_CYCLE" /\ PathGrey /\ LookedAt /\ BlackAcyclic
    BY <1>6, BegunActions DEF ReportCycle, End, SearchInvariant, Begun
  <2>2. cycle' # <<>>
    <3>1. PICK i \in DOMAIN stack : cycle' = Append(SubSeq(stack, i, Len(stack)), Dependency)
      BY <1>6 DEF ReportCycle
    <3>2. stack \in Seq(Ids) /\ i \in 1..Len(stack)
      BY DEF TypeOK
    <3>3. SubSeq(stack, i, Len(stack)) \in Seq(Ids)
      BY <3>2
    <3> QED
      BY <3>1, <3>3
  <2> QED
    BY <2>1, <2>2, SearchFrame DEF SearchInvariant, Begun
<1>7. CASE SearchOver
  <2>1. /\ nodes # <<>> /\ nodes' = nodes /\ color' = color /\ stack' = stack /\ next' = next /\ stack = <<>>
        /\ phase' = "inputs" /\ verdict' = "none" /\ cycle' = <<>> /\ PathGrey /\ LookedAt /\ BlackAcyclic
        /\ \A n \in Ids : color[n] # "white"
    BY <1>7, BegunActions, NoneUnvisited DEF SearchOver, searching, SearchInvariant, Begun
  <2>2. Blacks = Ids
    BY <2>1 DEF TypeOK, PathGrey, Blacks
  <2>3. Ids' = Ids
    BY <2>1, NodesFrame
  <2> QED
    BY <2>1, <2>2, <2>3, SearchFrame DEF SearchInvariant, Begun
<1>8. CASE \/ SkipAncestor \/ AddAncestor \/ CheckInputs \/ RejectInputs \/ AcceptInputs
           \/ RejectExecutors \/ AcceptExecutors \/ TakeNext \/ Admit
  <2>1. nodes # <<>> /\ nodes' = nodes /\ phase' # "structure" /\ cycle = <<>> /\ phase # "cycle"
    BY <1>8, BegunActions DEF SkipAncestor, AddAncestor, CheckInputs, RejectInputs, AcceptInputs,
                              RejectExecutors, AcceptExecutors, TakeNext, Admit
  <2>2. color' = color /\ stack' = stack /\ next' = next /\ cycle' = cycle
    BY <1>8 DEF SkipAncestor, AddAncestor, CheckInputs, RejectInputs, AcceptInputs,
                RejectExecutors, AcceptExecutors, TakeNext, Admit, searching
  <2>3. phase' # "cycle"
    BY <1>8, <2>1 DEF SkipAncestor, AddAncestor, CheckInputs, RejectInputs, AcceptInputs,
                      RejectExecutors, AcceptExecutors, TakeNext, Admit, End
  <2>4. verdict' # "DEPENDENCY_CYCLE"
    <3>1. verdict = "none"
      BY <1>8, BegunActions
    <3>2. CASE TakeNext
      BY <3>1, <3>2, NeverStuck DEF TakeNext
    <3> QED
      BY <1>8, <3>1, <3>2 DEF SkipAncestor, AddAncestor, CheckInputs, RejectInputs, AcceptInputs,
                              RejectExecutors, AcceptExecutors, Admit, End
  <2>5. Ids' = Ids
    BY <2>1, NodesFrame
  <2>6. PathGrey /\ LookedAt /\ BlackAcyclic /\ Blacks = Ids
    BY <2>1 DEF SearchInvariant, Begun
  <2> QED
    BY <2>1, <2>2, <2>3, <2>4, <2>5, <2>6, SearchFrame DEF SearchInvariant, Begun
<1> QED
  BY <1>1, <1>2, <1>3, <1>4, <1>5, <1>6, <1>7, <1>8 DEF Next, Proceed

-----------------------------------------------------------------------------
(* The inputs.                                                             *)

\* The nodes upstream of n are the smallest closed set around its dependencies.
LEMMA UpstreamSmallest ==
  ASSUME \A m \in Ids : Deps(m) \in Seq(Ids), NEW n \in Ids
  PROVE  /\ DepSet(n) \subseteq Upstream(n) /\ Closed(Upstream(n)) /\ Upstream(n) \subseteq Ids
         /\ \A S \in SUBSET Ids : DepSet(n) \subseteq S /\ Closed(S) => Upstream(n) \subseteq S
<1>1. \A m \in Ids : DepSet(m) \subseteq Ids
  BY DepSetOfDeps
<1>2. Closed(Upstream(n))
  BY <1>1 DEF Upstream, Closed
<1>3. DepSet(n) \subseteq Upstream(n)
  BY <1>1 DEF Upstream
<1> QED
  BY <1>2, <1>3 DEF Upstream

LEMMA WiringFrame ==
  ASSUME nodes' = nodes, raw' = raw
  PROVE  /\ Miswired' = Miswired /\ Begun' = Begun
         /\ at' = at => MiswiredBefore(at)' = MiswiredBefore(at)
         /\ at' = at /\ seen' = seen /\ pending' = pending => WalkInvariant' = WalkInvariant
<1>1. /\ Ids' = Ids
      /\ \A n : NodeOf(n)' = NodeOf(n) /\ DepSet(n)' = DepSet(n) /\ Upstream(n)' = Upstream(n)
  BY NodesFrame
<1>2. \A i, u : InputError(i, u)' = InputError(i, u)
  BY <1>1 DEF InputError
<1>3. Miswired' = Miswired /\ (at' = at => MiswiredBefore(at)' = MiswiredBefore(at))
  BY <1>1, <1>2 DEF Miswired, MiswiredBefore
<1>4. at' = at /\ seen' = seen /\ pending' = pending => WalkInvariant' = WalkInvariant
  BY <1>1 DEF WalkInvariant, Reached
<1> QED
  BY <1>3, <1>4 DEF Begun

\* A step that leaves the walk alone.
LEMMA WiringKept ==
  ASSUME AdmissionInvariant, nodes' = nodes, raw' = raw,
         at' = at, seen' = seen, pending' = pending, broken' = broken,
         phase' = phase, verdict' = verdict
  PROVE  WiringInvariant'
<1>1. (broken' <=> MiswiredBefore(at)') <=> (broken <=> MiswiredBefore(at))
  BY WiringFrame, Zenon
<1> QED
  BY <1>1, WiringFrame DEF AdmissionInvariant, WiringInvariant

\* The walk has collected every ancestor once nothing is pending.
LEMMA WalkComplete ==
  ASSUME AdmissionInvariant, phase = "inputs", pending = <<>>, at \in DOMAIN nodes
  PROVE  seen = Upstream(nodes[at].id)
<1>1. Reached = seen
  BY DEF Reached, ElementsOf
<1>2. nodes[at].id \in Ids /\ seen \subseteq Ids
  BY DEF Ids, IdsOf, AdmissionInvariant, TypeOK
<1>3. Closed(seen) /\ DepSet(nodes[at].id) \subseteq seen /\ seen \subseteq Upstream(nodes[at].id)
  BY <1>1 DEF Closed, AdmissionInvariant, WiringInvariant, WalkInvariant
<1> QED
  BY <1>2, <1>3, UpstreamSmallest DEF AdmissionInvariant, TypeOK

\* A walk begins with the dependencies of its node pending.
LEMMA WalkBegins ==
  ASSUME TypeOK', nodes' # <<>>, seen' = {},
         at' \in DOMAIN nodes' => DepSet(nodes[at].id)' = ElementsOf(pending')
  PROVE  WalkInvariant'
<1> SUFFICES ASSUME at' \in DOMAIN nodes'
             PROVE  /\ (Reached \subseteq Upstream(nodes[at].id))' /\ (DepSet(nodes[at].id) \subseteq Reached)'
                    /\ (\A m \in seen : DepSet(m) \subseteq Reached)'
  BY DEF WalkInvariant
<1>1. Reached' = DepSet(nodes[at].id)'
  BY DEF Reached
<1>2. nodes'[at'].id \in Ids' /\ \A m \in Ids' : Deps(m)' \in Seq(Ids')
  BY DEF Ids, IdsOf, TypeOK
<1>3. \A m \in Ids' : DepSet(m)' \subseteq Ids'
  BY <1>2 DEF DepSet
<1>4. DepSet(nodes[at].id)' \subseteq Upstream(nodes[at].id)'
  BY <1>2, <1>3 DEF Upstream
<1> QED
  BY <1>1, <1>4

\* The last pending node leaves the pending ones; the others stay.
LEMMA PendingSplit ==
  ASSUME TypeOK, pending # <<>>
  PROVE  /\ Rest \in Seq(Ids) /\ NextAncestor \in Ids
         /\ ElementsOf(pending) = ElementsOf(Rest) \cup {NextAncestor}
<1>1. pending \in Seq(Ids) /\ Len(pending) \in Nat \ {0} /\ DOMAIN pending = 1..Len(pending)
  BY DEF TypeOK
<1>2. Rest \in Seq(Ids) /\ NextAncestor \in Ids
  BY <1>1 DEF Rest, NextAncestor
<1>3. DOMAIN Rest = 1..(Len(pending) - 1)
  <2>1. 1 \in 1..(Len(pending) + 1) /\ Len(pending) - 1 \in Nat /\ 0 <= Len(pending) - 1
    BY <1>1
  <2> QED
    BY <1>1, <2>1 DEF Rest
<1>4. ASSUME NEW k \in 1..(Len(pending) - 1) PROVE Rest[k] = pending[k]
  BY <1>1, <1>4 DEF Rest
<1>5. DOMAIN pending = DOMAIN Rest \cup {Len(pending)}
  BY <1>1, <1>3
<1> QED
  BY <1>2, <1>3, <1>4, <1>5 DEF NextAncestor, ElementsOf

LEMMA ConcatRange ==
  ASSUME NEW S, NEW s \in Seq(S), NEW t \in Seq(S)
  PROVE  ElementsOf(s \o t) = ElementsOf(s) \cup ElementsOf(t)
<1>1. /\ DOMAIN (s \o t) = 1..(Len(s) + Len(t)) /\ DOMAIN s = 1..Len(s) /\ DOMAIN t = 1..Len(t)
      /\ Len(s) \in Nat /\ Len(t) \in Nat
  OBVIOUS
<1>2. \A k \in DOMAIN s : k \in DOMAIN (s \o t) /\ (s \o t)[k] = s[k]
  BY <1>1
<1>3. \A k \in DOMAIN t : k + Len(s) \in DOMAIN (s \o t) /\ (s \o t)[k + Len(s)] = t[k]
  BY <1>1
<1>4. ASSUME NEW k \in DOMAIN (s \o t), k \notin DOMAIN s
      PROVE  \E j \in DOMAIN t : (s \o t)[k] = t[j]
  <2>1. k - Len(s) \in DOMAIN t
    BY <1>1, <1>4
  <2>2. (s \o t)[k] = t[k - Len(s)]
    BY <1>1, <1>4
  <2> QED
    BY <2>1, <2>2
<1>5. ASSUME NEW k \in DOMAIN (s \o t)
      PROVE  (s \o t)[k] \in {s[j] : j \in DOMAIN s} \cup {t[j] : j \in DOMAIN t}
  BY <1>2, <1>4
<1>6. ASSUME NEW j \in DOMAIN s PROVE s[j] \in {(s \o t)[k] : k \in DOMAIN (s \o t)}
  BY <1>2
<1>7. ASSUME NEW j \in DOMAIN t PROVE t[j] \in {(s \o t)[k] : k \in DOMAIN (s \o t)}
  BY <1>3
<1> QED
  BY <1>5, <1>6, <1>7, Zenon DEF ElementsOf

LEMMA WalkSteps ==
  ASSUME AdmissionInvariant, nodes # <<>>, SkipAncestor \/ AddAncestor
  PROVE  WalkInvariant'
<1>1. /\ nodes' = nodes /\ at' = at /\ pending # <<>> /\ TypeOK /\ RulesHeld
      /\ at \in DOMAIN nodes =>
           /\ Reached \subseteq Upstream(nodes[at].id) /\ DepSet(nodes[at].id) \subseteq Reached
           /\ \A m \in seen : DepSet(m) \subseteq Reached
  BY DEF SkipAncestor, AddAncestor, AdmissionInvariant, WiringInvariant, WalkInvariant
<1>2. /\ Rest \in Seq(Ids) /\ NextAncestor \in Ids
      /\ Reached = seen \cup ElementsOf(Rest) \cup {NextAncestor}
  BY <1>1, PendingSplit DEF Reached
<1>3. Ids' = Ids /\ \A n : DepSet(n)' = DepSet(n) /\ Upstream(n)' = Upstream(n)
  BY <1>1, NodesFrame
<1>4. CASE SkipAncestor
  <2>1. Reached' = Reached /\ seen' = seen
    BY <1>2, <1>4 DEF SkipAncestor, Reached
  <2> QED
    BY <1>1, <1>3, <2>1 DEF WalkInvariant
<1>5. CASE AddAncestor
  <2>1. Deps(NextAncestor) \in Seq(Ids)
    BY <1>1, <1>2 DEF TypeOK
  <2>2. ElementsOf(pending') = ElementsOf(Rest) \cup DepSet(NextAncestor)
    <3>1. pending' = Rest \o Deps(NextAncestor)
      BY <1>5 DEF AddAncestor
    <3>2. Rest \in Seq(Ids)
      BY <1>2
    <3>3. DepSet(NextAncestor) = ElementsOf(Deps(NextAncestor))
      BY DEF DepSet, ElementsOf
    <3> QED
      BY <2>1, <3>1, <3>2, <3>3, ConcatRange
  <2>3. Reached' = Reached \cup DepSet(NextAncestor) /\ seen' = seen \cup {NextAncestor}
    BY <1>2, <1>5, <2>2 DEF AddAncestor, Reached
  <2>4. ASSUME at \in DOMAIN nodes PROVE DepSet(NextAncestor) \subseteq Upstream(nodes[at].id)
    <3>1. NextAncestor \in Upstream(nodes[at].id) /\ nodes[at].id \in Ids
      BY <1>1, <1>2, <2>4 DEF Ids, IdsOf
    <3> QED
      BY <1>1, <3>1, UpstreamSmallest DEF TypeOK, Closed
  <2> QED
    BY <1>1, <1>3, <2>3, <2>4 DEF WalkInvariant
<1> QED
  BY <1>4, <1>5

LEMMA WiringPreserved ==
  ASSUME AdmissionInvariant, [Next]_vars
  PROVE  WiringInvariant'
<1> USE DEF AdmissionInvariant
<1>0. TypeOK'
  BY TypePreserved
<1>1. CASE UNCHANGED vars
  BY <1>1, WiringKept DEF vars
<1>2. CASE Load
  BY <1>2, Reset
<1>3. CASE RejectStructure
  <2>1. /\ nodes' = <<>> /\ phase' = "done" /\ verdict' = "GRAPH_INVALID"
    BY <1>3 DEF RejectStructure, SearchInvariant, Begun, End
  <2> QED
    BY <2>1 DEF WiringInvariant, Begun
<1>4. CASE AcceptStructure
  <2>1. /\ phase' = "cycle" /\ verdict' = "none" /\ at' = 1 /\ seen' = {} /\ broken' = broken /\ ~broken
    BY <1>4 DEF AcceptStructure, wiring, WiringInvariant, TypeOK
  <2> QED
    BY <2>1 DEF WiringInvariant
<1>5. CASE StartVisit \/ PassRoot \/ Descend \/ SkipDependency \/ Retreat \/ ReportCycle
  <2>1. /\ nodes # <<>> /\ nodes' = nodes /\ raw' = raw /\ at' = at /\ seen' = seen /\ broken' = broken
        /\ pending' = pending /\ phase = "cycle" /\ verdict = "none"
    BY <1>5, BegunActions DEF StartVisit, PassRoot, Descend, SkipDependency, Retreat, ReportCycle, Looking, wiring
  <2>2. CASE ReportCycle
    BY <2>2 DEF ReportCycle, End, WiringInvariant
  <2>3. CASE ~ReportCycle
    <3>1. phase' = "cycle" /\ verdict' = "none"
      BY <1>5, <2>1, <2>3 DEF StartVisit, PassRoot, Descend, SkipDependency, Retreat
    <3> QED
      BY <2>1, <3>1 DEF WiringInvariant
  <2> QED
    BY <2>2, <2>3
<1>6. CASE SearchOver
  <2>1. /\ nodes # <<>> /\ nodes' = nodes /\ raw' = raw /\ at' = 1 /\ seen' = {} /\ ~broken'
        /\ phase' = "inputs" /\ verdict' = "none" /\ pending' = nodes[1].depends_on
    BY <1>6, BegunActions DEF SearchOver, WiringInvariant
  <2>2. 1 \in DOMAIN nodes /\ Len(nodes) \in Nat
    BY <2>1 DEF TypeOK, IsSeq
  <2>3. DepSet(nodes[1].id) = ElementsOf(pending')
    BY <2>1, <2>2, DepsOfNode DEF DepSet, ElementsOf
  <2>4. DepSet(nodes[at].id)' = DepSet(nodes[1].id)
    BY <2>1, NodesFrame
  <2>5. WalkInvariant'
    BY <1>0, <2>1, <2>3, <2>4, WalkBegins
  <2>6. ~MiswiredBefore(at)'
    BY <2>1 DEF MiswiredBefore
  <2>7. at' <= Len(nodes') + 1
    BY <2>1, <2>2
  <2> QED
    BY <2>1, <2>5, <2>6, <2>7 DEF WiringInvariant
<1>7. CASE SkipAncestor \/ AddAncestor
  <2>1. /\ nodes # <<>> /\ nodes' = nodes /\ raw' = raw /\ phase = "inputs" /\ phase' = "inputs"
        /\ verdict' = "none" /\ at' = at /\ broken' = broken
    BY <1>7, BegunActions DEF SkipAncestor, AddAncestor
  <2>2. WalkInvariant'
    BY <1>7, <2>1, WalkSteps
  <2>3. (broken' <=> MiswiredBefore(at)') <=> (broken <=> MiswiredBefore(at))
    BY <2>1, WiringFrame, Zenon
  <2> QED
    BY <2>1, <2>2, <2>3 DEF WiringInvariant
<1>8. CASE CheckInputs
  <2>1. /\ nodes # <<>> /\ nodes' = nodes /\ raw' = raw /\ phase = "inputs" /\ phase' = "inputs"
        /\ verdict' = "none" /\ at' = at + 1 /\ at \in DOMAIN nodes /\ pending = <<>> /\ seen' = {}
        /\ at \in Nat \ {0} /\ IsSeq(nodes)
    BY <1>8, BegunActions DEF CheckInputs, TypeOK
  <2>2. seen = Upstream(nodes[at].id)
    BY <2>1, WalkComplete
  <2>3. WalkInvariant'
    <3>1. ASSUME at' \in DOMAIN nodes'
          PROVE  DepSet(nodes[at].id)' = ElementsOf(pending')
      <4>1. pending' = nodes[at + 1].depends_on /\ at + 1 \in DOMAIN nodes
        BY <1>8, <2>1, <3>1 DEF CheckInputs
      <4>2. DepSet(nodes[at + 1].id) = ElementsOf(pending')
        BY <2>1, <4>1, DepsOfNode DEF DepSet, ElementsOf
      <4> QED
        BY <2>1, <4>2, NodesFrame
    <3> QED
      BY <1>0, <2>1, <3>1, WalkBegins
  <2>4. broken' <=> (broken \/ \E input \in nodes[at].inputs : InputError(input, seen))
    BY <1>8, Zenon DEF CheckInputs
  <2>5. MiswiredBefore(at)' <=> MiswiredBefore(at + 1)
    <3>1. \A i, u : InputError(i, u)' = InputError(i, u)
      BY <2>1, NodesFrame DEF InputError
    <3> QED
      BY <2>1, <3>1, NodesFrame DEF MiswiredBefore
  <2>6. MiswiredBefore(at + 1) <=> MiswiredBefore(at) \/ \E input \in nodes[at].inputs : InputError(input, seen)
    <3>1. 1..((at + 1) - 1) = (1..(at - 1)) \cup {at}
      BY <2>1
    <3> QED
      BY <2>2, <3>1 DEF MiswiredBefore
  <2>7. broken' <=> MiswiredBefore(at)'
    <3>1. broken <=> MiswiredBefore(at)
      BY <2>1 DEF WiringInvariant
    <3> QED
      BY <2>4, <2>5, <2>6, <3>1, Zenon
  <2>8. at' <= Len(nodes') + 1
    BY <2>1 DEF IsSeq
  <2> QED
    BY <2>1, <2>3, <2>7, <2>8 DEF WiringInvariant
<1>9. CASE RejectInputs \/ AcceptInputs
  <2>1. /\ nodes # <<>> /\ nodes' = nodes /\ raw' = raw /\ phase = "inputs" /\ verdict = "none"
        /\ at \notin DOMAIN nodes /\ at \in Nat \ {0} /\ IsSeq(nodes) /\ at <= Len(nodes) + 1
    BY <1>9, BegunActions DEF RejectInputs, AcceptInputs, TypeOK, WiringInvariant
  <2>2. 1..(at - 1) = DOMAIN nodes
    BY <2>1 DEF IsSeq
  <2>3. broken <=> Miswired
    BY <2>1, <2>2 DEF WiringInvariant, MiswiredBefore, Miswired
  <2>4. Miswired' = Miswired /\ Begun' = Begun
    BY <2>1, WiringFrame
  <2>5. CASE RejectInputs
    <3>1. phase' = "done" /\ verdict' = "GRAPH_INVALID"
      BY <2>5 DEF RejectInputs, End
    <3>2. Miswired
      BY <2>3, <2>5, Zenon DEF RejectInputs
    <3> QED
      BY <2>4, <3>1, <3>2 DEF WiringInvariant
  <2>6. CASE AcceptInputs
    <3>1. phase' = "executors" /\ verdict' = "none"
      BY <2>1, <2>6 DEF AcceptInputs
    <3>2. ~Miswired
      BY <2>3, <2>6, Zenon DEF AcceptInputs
    <3> QED
      BY <2>1, <2>4, <3>1, <3>2 DEF WiringInvariant, Begun
  <2> QED
    BY <1>9, <2>5, <2>6
<1>10. CASE RejectExecutors \/ AcceptExecutors \/ TakeNext \/ Admit
  <2>1. /\ nodes # <<>> /\ nodes' = nodes /\ raw' = raw /\ phase \in {"executors", "order"} /\ verdict = "none"
    BY <1>10, BegunActions DEF RejectExecutors, AcceptExecutors, TakeNext, Admit
  <2>2. ~Miswired /\ Begun
    BY <2>1 DEF WiringInvariant
  <2>3. Miswired' = Miswired /\ Begun' = Begun
    BY <2>1, WiringFrame
  <2>4. phase' \notin {"structure", "cycle", "inputs"} /\ verdict' # "GRAPH_INVALID"
    BY <1>10, <2>1 DEF RejectExecutors, AcceptExecutors, TakeNext, Admit, End
  <2> QED
    BY <2>2, <2>3, <2>4 DEF WiringInvariant
<1> QED
  BY <1>1, <1>2, <1>3, <1>4, <1>5, <1>6, <1>7, <1>8, <1>9, <1>10 DEF Next, Proceed

-----------------------------------------------------------------------------
(* The execution order.                                                    *)

LEMMA SortFrame ==
  ASSUME nodes' = nodes, raw' = raw, order' = order, OrderInvariant
  PROVE  /\ OrderInvariant' /\ AllAvailable' = AllAvailable /\ Ids' = Ids
         /\ remaining' = remaining => RemainingInvariant' = RemainingInvariant
<1>1. /\ Ids' = Ids
      /\ \A n : DepSet(n)' = DepSet(n)
      /\ \A m, n : DeclaredBefore(m, n)' = DeclaredBefore(m, n)
  BY NodesFrame
<1>2. OrderInvariant'
  BY <1>1 DEF OrderInvariant
<1>3. AllAvailable' = AllAvailable
  BY DEF AllAvailable, Available
<1>4. remaining' = remaining => RemainingInvariant' = RemainingInvariant
  BY <1>1 DEF RemainingInvariant
<1> QED
  BY <1>1, <1>2, <1>3, <1>4

\* Taking the first ready node in declaration order.
LEMMA TakeKeeps ==
  ASSUME AdmissionInvariant, nodes' = nodes, phase = "order",
         NEW i \in DOMAIN nodes, nodes[i].id \in Ready, Take(nodes[i].id),
         \A j \in 1..(i - 1) : nodes[j].id \notin Ready
  PROVE  OrderInvariant' /\ RemainingInvariant'
<1> DEFINE n == nodes[i].id
<1>1. /\ nodes # <<>> /\ order \in Seq(Ids) /\ n \in Ids /\ DOMAIN nodes = 1..Len(nodes) /\ Len(nodes) \in Nat
      /\ RemainingInvariant /\ OrderInvariant /\ TypeOK /\ RulesHeld
  <2>1. TypeOK /\ RulesHeld /\ RemainingInvariant /\ OrderInvariant /\ nodes # <<>>
    BY DEF AdmissionInvariant, SortInvariant, SearchInvariant, Begun
  <2>2. DOMAIN nodes = 1..Len(nodes) /\ Len(nodes) \in Nat
    BY <2>1 DEF TypeOK, IsSeq
  <2>3. order \in Seq(Ids) /\ n \in Ids
    BY <2>1 DEF TypeOK, Ids, IdsOf
  <2> QED
    BY <2>1, <2>2, <2>3
<1>2. /\ Ids' = Ids
      /\ \A m : DepSet(m)' = DepSet(m)
      /\ \A l, m : DeclaredBefore(l, m)' = DeclaredBefore(l, m)
  BY NodesFrame
<1>3. \A m \in Ids : DepSet(m) \subseteq Ids
  BY DepSetOfDeps DEF AdmissionInvariant, TypeOK
<1>4. /\ n \in DOMAIN remaining /\ remaining[n] = {} /\ n \notin ElementsOf(order)
      /\ DepSet(n) \subseteq ElementsOf(order)
  <2>1. n \in DOMAIN remaining /\ remaining[n] = {}
    BY DEF Ready
  <2> QED
    BY <1>1, <1>3, <2>1 DEF RemainingInvariant
<1>5. /\ Len(order) \in Nat /\ DOMAIN order = 1..Len(order) /\ DOMAIN order' = 1..(Len(order) + 1)
      /\ order'[Len(order) + 1] = n /\ \A k \in 1..Len(order) : order'[k] = order[k]
  BY <1>1 DEF Take
<1>6. ElementsOf(order') = ElementsOf(order) \cup {n}
  <2>1. DOMAIN order' = DOMAIN order \cup {Len(order) + 1}
    BY <1>5
  <2> QED
    BY <1>5, <2>1 DEF ElementsOf
<1>7. RemainingInvariant'
  <2>1. DOMAIN remaining' = DOMAIN remaining \ {n} /\ \A m \in DOMAIN remaining' : remaining'[m] = remaining[m] \ {n}
    BY DEF Take
  <2>2. DOMAIN remaining' = Ids \ ElementsOf(order')
    BY <1>1, <1>6, <2>1 DEF RemainingInvariant
  <2>3. \A m \in DOMAIN remaining' : remaining'[m] = DepSet(m) \cap DOMAIN remaining'
    BY <1>1, <2>1 DEF RemainingInvariant
  <2> QED
    BY <1>2, <2>2, <2>3 DEF RemainingInvariant
<1>8. ASSUME NEW j, NEW k, j \in DOMAIN order', k \in DOMAIN order', order'[j] = order'[k] PROVE j = k
  BY <1>1, <1>4, <1>5, <1>8 DEF OrderInvariant, ElementsOf
<1>9. ASSUME NEW j \in DOMAIN order', NEW d \in DepSet(order'[j])
      PROVE  \E k \in DOMAIN order' : k < j /\ order'[k] = d
  <2>1. CASE j \in DOMAIN order
    <3>1. PICK k \in DOMAIN order : k < j /\ order[k] = d
      BY <1>1, <1>5, <1>9, <2>1 DEF OrderInvariant
    <3> QED
      BY <1>5, <3>1
  <2>2. CASE j = Len(order) + 1
    <3>1. PICK k \in DOMAIN order : order[k] = d
      BY <1>4, <1>5, <1>9, <2>2 DEF ElementsOf
    <3> QED
      BY <1>5, <2>2, <3>1
  <2> QED
    BY <1>5, <2>1, <2>2
<1>10. ASSUME NEW j \in DOMAIN order', NEW m \in Ids, DeclaredBefore(m, order'[j]),
              \A k \in 1..(j - 1) : order'[k] # m
       PROVE  \E d \in DepSet(m) : \A k \in 1..(j - 1) : order'[k] # d
  <2>1. CASE j \in DOMAIN order
    <3>1. order'[j] = order[j] /\ \A k \in 1..(j - 1) : order'[k] = order[k]
      BY <1>5, <2>1
    <3>2. DeclaredBefore(m, order[j]) /\ \A k \in 1..(j - 1) : order[k] # m
      BY <1>10, <3>1
    <3>3. \A p \in DOMAIN order : \A q \in Ids :
            DeclaredBefore(q, order[p]) /\ (\A k \in 1..(p - 1) : order[k] # q)
              => \E d \in DepSet(q) : \A k \in 1..(p - 1) : order[k] # d
      BY <1>1 DEF OrderInvariant
    <3>4. PICK d \in DepSet(m) : \A k \in 1..(j - 1) : order[k] # d
      BY <2>1, <3>2, <3>3, Zenon
    <3> QED
      BY <3>1, <3>4
  <2>2. CASE j = Len(order) + 1
    <3>1. \A k \in DOMAIN order : order[k] # m
      BY <1>5, <1>10, <2>2
    <3>2. m \in DOMAIN remaining
      BY <1>1, <3>1 DEF RemainingInvariant, ElementsOf
    <3>3. PICK a \in DOMAIN nodes, b \in DOMAIN nodes : a < b /\ nodes[a].id = m /\ nodes[b].id = n
      BY <1>5, <1>10, <2>2 DEF DeclaredBefore
    <3>4. b = i
      BY <1>1, <3>3, UniqueIds
    <3>5. a \in 1..(i - 1)
      BY <1>1, <3>3, <3>4
    <3>6. m \notin Ready
      BY <3>3, <3>5
    <3>7. PICK d \in DepSet(m) : d \in DOMAIN remaining
      BY <1>1, <3>2, <3>6 DEF Ready, RemainingInvariant
    <3>8. d \notin ElementsOf(order)
      BY <1>1, <3>7 DEF RemainingInvariant
    <3>9. \A k \in 1..(j - 1) : order'[k] # d
      BY <1>5, <2>2, <3>8 DEF ElementsOf
    <3> QED
      BY <3>7, <3>9
  <2> QED
    BY <1>5, <2>1, <2>2
<1>11. OrderInvariant'
  BY <1>2, <1>8, <1>9, <1>10 DEF OrderInvariant
<1> QED
  BY <1>7, <1>11

LEMMA SortPreserved ==
  ASSUME AdmissionInvariant, [Next]_vars
  PROVE  SortInvariant'
<1> USE DEF AdmissionInvariant
<1>1. CASE UNCHANGED vars
  <2>1. /\ nodes' = nodes /\ raw' = raw /\ order' = order /\ remaining' = remaining
        /\ phase' = phase /\ verdict' = verdict
    BY <1>1 DEF vars
  <2> QED
    BY <2>1, SortFrame DEF SortInvariant
<1>2. CASE Load
  BY <1>2, Reset
<1>3. CASE RejectStructure
  <2>1. order' = <<>> /\ phase' = "done" /\ verdict' = "GRAPH_INVALID"
    BY <1>3 DEF RejectStructure, SortInvariant, sorting, End
  <2> QED
    BY <2>1 DEF SortInvariant, OrderInvariant
<1>4. CASE AcceptStructure
  <2>1. order' = <<>> /\ phase' = "cycle" /\ verdict' = "none"
    BY <1>4 DEF AcceptStructure, SortInvariant, sorting, TypeOK
  <2> QED
    BY <2>1 DEF SortInvariant, OrderInvariant
<1>5. CASE \/ StartVisit \/ PassRoot \/ Descend \/ SkipDependency \/ Retreat \/ ReportCycle \/ SearchOver
           \/ SkipAncestor \/ AddAncestor \/ CheckInputs \/ RejectInputs \/ AcceptInputs
  <2>1. /\ nodes' = nodes /\ raw' = raw /\ order' = order /\ verdict = "none" /\ phase \in {"cycle", "inputs"}
    BY <1>5, BegunActions DEF StartVisit, PassRoot, Descend, SkipDependency, Retreat, ReportCycle, Looking, SearchOver,
         SkipAncestor, AddAncestor, CheckInputs, RejectInputs, AcceptInputs, sorting
  <2>2. phase' # "order" /\ verdict' \notin {"ADMITTED", "EXECUTOR_UNAVAILABLE"}
    BY <1>5, <2>1 DEF StartVisit, PassRoot, Descend, SkipDependency, Retreat, ReportCycle, SearchOver,
         SkipAncestor, AddAncestor, CheckInputs, RejectInputs, AcceptInputs, End
  <2>3. order = <<>> /\ OrderInvariant'
    BY <2>1, SortFrame DEF SortInvariant
  <2> QED
    BY <2>1, <2>2, <2>3 DEF SortInvariant
<1>6. CASE RejectExecutors \/ AcceptExecutors
  <2>1. /\ nodes # <<>> /\ nodes' = nodes /\ raw' = raw /\ order' = order /\ order = <<>> /\ verdict = "none"
        /\ OrderInvariant /\ TypeOK
    BY <1>6, BegunActions DEF RejectExecutors, AcceptExecutors, sorting, SortInvariant
  <2>2. OrderInvariant' /\ AllAvailable' = AllAvailable /\ Ids' = Ids /\ \A m : DepSet(m)' = DepSet(m)
    BY <2>1, SortFrame, NodesFrame
  <2>3. CASE RejectExecutors
    <3>1. phase' = "done" /\ verdict' = "EXECUTOR_UNAVAILABLE" /\ ~AllAvailable
      BY <2>3 DEF RejectExecutors, End, AllAvailable
    <3> QED
      BY <2>1, <2>2, <3>1 DEF SortInvariant
  <2>4. CASE AcceptExecutors
    <3>1. /\ phase' = "order" /\ verdict' = "none" /\ AllAvailable /\ DOMAIN remaining' = Ids
          /\ \A m \in Ids : remaining'[m] = DepSet(m)
      BY <2>1, <2>4 DEF AcceptExecutors, AllAvailable
    <3>2. \A m \in Ids : DepSet(m) \subseteq Ids
      BY <2>1, DepSetOfDeps DEF TypeOK
    <3>3. RemainingInvariant'
      BY <2>1, <2>2, <3>1, <3>2 DEF RemainingInvariant, ElementsOf
    <3> QED
      BY <2>1, <2>2, <3>1, <3>3 DEF SortInvariant
  <2> QED
    BY <1>6, <2>3, <2>4
<1>7. CASE TakeNext
  <2>1. /\ nodes' = nodes /\ raw' = raw /\ phase = "order" /\ verdict = "none" /\ AllAvailable /\ OrderInvariant
        /\ Ready # {}
    BY <1>7, BegunActions, NeverStuck DEF TakeNext, SortInvariant
  <2>2. PICK i \in DOMAIN nodes :
          nodes[i].id \in Ready /\ Take(nodes[i].id) /\ \A j \in 1..(i - 1) : nodes[j].id \notin Ready
    BY <1>7, <2>1 DEF TakeNext
  <2>3. OrderInvariant' /\ RemainingInvariant'
    BY <2>1, <2>2, TakeKeeps
  <2>4. phase' = "order" /\ verdict' = "none"
    BY <1>7, <2>1 DEF TakeNext
  <2>5. AllAvailable' = AllAvailable
    BY <2>1 DEF AllAvailable, Available
  <2> QED
    BY <2>1, <2>3, <2>4, <2>5 DEF SortInvariant
<1>8. CASE Admit
  <2>1. /\ nodes' = nodes /\ raw' = raw /\ order' = order /\ phase = "order" /\ DOMAIN remaining = {}
        /\ phase' = "done" /\ verdict' = "ADMITTED" /\ AllAvailable /\ OrderInvariant /\ RemainingInvariant
    BY <1>8, BegunActions DEF Admit, End, sorting, SortInvariant
  <2>2. ElementsOf(order) \subseteq Ids
    BY DEF TypeOK, ElementsOf
  <2>3. Ids = ElementsOf(order)
    BY <2>1, <2>2 DEF RemainingInvariant
  <2>4. Ids' = Ids /\ ElementsOf(order)' = ElementsOf(order) /\ OrderInvariant' /\ AllAvailable' = AllAvailable
    BY <2>1, SortFrame DEF ElementsOf
  <2> QED
    BY <2>1, <2>3, <2>4 DEF SortInvariant
<1> QED
  BY <1>1, <1>2, <1>3, <1>4, <1>5, <1>6, <1>7, <1>8 DEF Next, Proceed

-----------------------------------------------------------------------------
(* The theorems.                                                           *)

\* Every state of every admission satisfies the invariant of its loops.
THEOREM AdmissionInductive == Spec => []AdmissionInvariant
<1>1. AdmissionInvariant /\ [Next]_vars => AdmissionInvariant'
  BY TypePreserved, RulesPreserved, RootPreserved, SearchPreserved, WiringPreserved, SortPreserved
  DEF AdmissionInvariant
<1> QED
  BY InitTyped, <1>1, PTL DEF Spec

LEMMA CycleRealPreserved ==
  ASSUME AdmissionInvariant, CycleReal, [Next]_vars
  PROVE  CycleReal'
<1> USE DEF AdmissionInvariant
<1>1. CASE cycle' = <<>>
  BY <1>1 DEF CycleReal
<1>2. CASE nodes' = nodes /\ cycle' = cycle
  <2>1. \A n : DepSet(n)' = DepSet(n)
    BY <1>2, NodesFrame
  <2> QED
    BY <1>2, <2>1 DEF CycleReal
<1>3. CASE ReportCycle
  <2>1. /\ nodes # <<>> /\ nodes' = nodes /\ stack # <<>> /\ stack \in Seq(Ids) /\ PathGrey
        /\ next[Top] \in DOMAIN Deps(Top)
    BY <1>3, BegunActions DEF ReportCycle, Looking, SearchInvariant, Begun, TypeOK
  <2>2. PICK i \in DOMAIN stack :
          stack[i] = Dependency /\ cycle' = Append(SubSeq(stack, i, Len(stack)), Dependency)
    BY <1>3 DEF ReportCycle
  <2>3. /\ \A n : DepSet(n)' = DepSet(n)
        /\ Dependency \in DepSet(Top) /\ Top = stack[Len(stack)] /\ Dependency \in Ids
    BY <2>1, NodesFrame, TopTyped DEF Dependency, Top
  <2> DEFINE n == Len(stack) - i + 1
  <2>4. i \in Nat \ {0} /\ Len(stack) \in Nat /\ i <= Len(stack) /\ n \in Nat \ {0} /\ DOMAIN stack = 1..Len(stack)
    BY <2>1
  <2>5. /\ SubSeq(stack, i, Len(stack)) \in Seq(Ids) /\ Len(SubSeq(stack, i, Len(stack))) = n
        /\ \A k \in 1..n : SubSeq(stack, i, Len(stack))[k] = stack[k + i - 1]
    BY <2>1, <2>4
  <2>6. Len(cycle') = n + 1 /\ cycle'[n + 1] = Dependency /\ \A k \in 1..n : cycle'[k] = stack[k + i - 1]
    BY <2>2, <2>3, <2>4, <2>5
  <2>7. cycle'[1] = Dependency
    BY <2>2, <2>4, <2>6
  <2>8. ASSUME NEW k \in 1..n PROVE (cycle[k + 1] \in DepSet(cycle[k]))'
    <3>1. CASE k = n
      <4>1. cycle'[k] = Top /\ cycle'[k + 1] = Dependency
        BY <2>3, <2>4, <2>6, <3>1
      <4> QED
        BY <2>3, <4>1
    <3>2. CASE k < n
      <4>1. cycle'[k] = stack[k + i - 1] /\ cycle'[k + 1] = stack[(k + i - 1) + 1] /\ k + i - 1 \in DOMAIN stack
            /\ k + i - 1 < Len(stack)
        <5>1. k + 1 \in 1..n /\ (k + 1) + i - 1 = (k + i - 1) + 1 /\ k + i - 1 \in 1..Len(stack) /\ k + i - 1 < Len(stack)
          BY <2>4, <3>2
        <5>2. cycle'[k + 1] = stack[(k + 1) + i - 1] /\ cycle'[k] = stack[k + i - 1]
          BY <2>6, <5>1
        <5> QED
          BY <2>4, <5>1, <5>2
      <4> QED
        BY <2>1, <2>3, <4>1 DEF PathGrey
    <3> QED
      BY <2>4, <3>1, <3>2
  <2>9. ASSUME NEW k \in 1..n, NEW l \in 1..n, cycle'[k] = cycle'[l] PROVE k = l
    <3>1. k + i - 1 \in DOMAIN stack /\ l + i - 1 \in DOMAIN stack /\ stack[k + i - 1] = stack[l + i - 1]
      BY <2>4, <2>6, <2>9
    <3> QED
      BY <2>1, <2>4, <3>1 DEF PathGrey
  <2> QED
    BY <2>4, <2>6, <2>7, <2>8, <2>9 DEF CycleReal
<1>4. CASE UNCHANGED vars
  BY <1>2, <1>4 DEF vars
<1>5. CASE RejectStructure \/ AcceptStructure
  BY <1>1, <1>5 DEF RejectStructure, AcceptStructure, searching, SearchInvariant
<1>6. CASE Load
  BY <1>1, <1>6 DEF Load
<1>7. CASE \/ StartVisit \/ PassRoot \/ Descend \/ SkipDependency \/ Retreat \/ SearchOver
           \/ SkipAncestor \/ AddAncestor \/ CheckInputs \/ RejectInputs \/ AcceptInputs
           \/ RejectExecutors \/ AcceptExecutors \/ TakeNext \/ Admit
  BY <1>2, <1>7 DEF StartVisit, PassRoot, Descend, SkipDependency, Retreat, SearchOver,
         SkipAncestor, AddAncestor, CheckInputs, RejectInputs, AcceptInputs,
         RejectExecutors, AcceptExecutors, TakeNext, Admit, searching
<1> QED
  BY <1>3, <1>4, <1>5, <1>6, <1>7 DEF Next, Proceed

\* find_cycle reports a cycle of the graph: it ends where it begins, repeats no other
\* node, and each of its nodes depends on the next.
THEOREM CycleIsReal == Spec => []CycleReal
<1>1. Init => CycleReal
  BY DEF Init, CycleReal
<1>2. AdmissionInvariant /\ CycleReal /\ [Next]_vars => CycleReal'
  BY CycleRealPreserved
<1> QED
  BY <1>1, <1>2, AdmissionInductive, PTL DEF Spec

\* admit() raises the error the graph deserves, or admits it, whatever the order in which
\* find_cycle and ancestors walk it.
THEOREM AdmissionExact == Spec => []VerdictExact
<1>1. AdmissionInvariant /\ CycleReal => VerdictExact
  <2> SUFFICES ASSUME AdmissionInvariant, CycleReal, phase = "done" PROVE VerdictExact
    BY DEF VerdictExact
  <2> USE DEF AdmissionInvariant
  <2>1. verdict \in {"GRAPH_INVALID", "DEPENDENCY_CYCLE", "EXECUTOR_UNAVAILABLE", "ADMITTED"}
    BY DEF TypeOK
  <2>2. CASE nodes = <<>>
    <3>1. cycle = <<>>
      BY <2>2 DEF TypeOK, Ids, IdsOf
    <3> QED
      BY <2>1, <2>2, <3>1 DEF VerdictExact, SearchInvariant, WiringInvariant, Begun
  <2>3. CASE nodes # <<>> /\ cycle = <<>>
    <3>1. ~HasCycle
      BY <2>3, SearchedAcyclic
    <3>2. verdict # "DEPENDENCY_CYCLE"
      BY <2>3 DEF SearchInvariant
    <3>3. /\ verdict \in {"EXECUTOR_UNAVAILABLE", "ADMITTED"} => ~Miswired
          /\ verdict = "GRAPH_INVALID" => Miswired
      BY <2>3 DEF WiringInvariant, Begun
    <3>4. /\ verdict = "ADMITTED" => AllAvailable
          /\ verdict = "EXECUTOR_UNAVAILABLE" => ~AllAvailable
      BY DEF SortInvariant
    <3> QED
      BY <2>1, <2>3, <3>1, <3>2, <3>3, <3>4 DEF VerdictExact
  <2>4. CASE nodes # <<>> /\ cycle # <<>>
    <3>1. verdict = "DEPENDENCY_CYCLE"
      BY <2>4 DEF SearchInvariant
    <3>2. HasCycle
      <4> DEFINE n == Len(cycle) - 1
                 C == {cycle[k] : k \in 1..n}
      <4>1. /\ n \in Nat \ {0} /\ cycle[1] = cycle[n + 1] /\ cycle \in Seq(Ids) /\ Len(cycle) = n + 1
            /\ \A k \in 1..n : cycle[k + 1] \in DepSet(cycle[k])
        BY <2>4 DEF CycleReal, TypeOK
      <4>2. C \in (SUBSET Ids) \ {{}}
        <5>1. cycle[1] \in C /\ \A k \in 1..n : cycle[k] \in Ids
          BY <4>1
        <5> QED
          BY <5>1
      <4>3. ASSUME NEW k \in 1..n PROVE DepSet(cycle[k]) \cap C # {}
        <5>1. cycle[k + 1] \in C
          <6>1. CASE k = n
            <7>1. 1 \in 1..n /\ cycle[k + 1] = cycle[1]
              BY <4>1, <6>1
            <7> QED
              BY <7>1
          <6>2. CASE k < n
            <7>1. k + 1 \in 1..n
              BY <4>1, <6>2
            <7> QED
              BY <7>1
          <6>3. k = n \/ k < n
            <7>1. k \in Nat /\ k <= n /\ n \in Nat
              BY <4>1
            <7> QED
              BY <7>1
          <6> QED
            BY <6>1, <6>2, <6>3
        <5> QED
          BY <4>1, <5>1
      <4>4. \A m \in C : DepSet(m) \cap C # {}
        BY <4>3
      <4> QED
        BY <4>2, <4>4 DEF HasCycle
    <3> QED
      BY <2>4, <3>1, <3>2 DEF VerdictExact
  <2> QED
    BY <2>2, <2>3, <2>4
<1> QED
  BY <1>1, AdmissionInductive, CycleIsReal, PTL

\* What an admitted node reads was produced before it: its ancestors precede it.
THEOREM ReadsAreOrdered == Spec => []ReadsFromEarlier
<1>1. AdmissionInvariant => ReadsFromEarlier
  <2> SUFFICES ASSUME AdmissionInvariant, verdict = "ADMITTED", NEW i \in DOMAIN nodes,
                      NEW input \in nodes[i].inputs, input.from[1] # "graph.inputs"
               PROVE  Before(input.from[1], nodes[i].id)
    BY DEF ReadsFromEarlier
  <2> USE DEF AdmissionInvariant
  <2>1. /\ TypeOK /\ OrderInvariant /\ Ids = ElementsOf(order) /\ ~Miswired
    BY DEF SortInvariant, WiringInvariant
  <2>2. input.from[1] \in Upstream(nodes[i].id) /\ nodes[i].id \in Ids
    BY <2>1 DEF Miswired, InputError, Ids, IdsOf
  <2>3. PICK j \in DOMAIN order : order[j] = nodes[i].id
    BY <2>1, <2>2 DEF ElementsOf
  <2>4. DOMAIN order = 1..Len(order) /\ Len(order) \in Nat
    BY <2>1 DEF TypeOK
  <2> DEFINE S == {order[k] : k \in 1..(j - 1)}
  <2>5. S \in SUBSET Ids
    BY <2>1, <2>4, SMTT(40) DEF TypeOK
  <2>6. ASSUME NEW l \in DOMAIN order, l <= j PROVE DepSet(order[l]) \subseteq S
    <3> SUFFICES ASSUME NEW d \in DepSet(order[l]) PROVE d \in S
      OBVIOUS
    <3>1. PICK k \in DOMAIN order : k < l /\ order[k] = d
      BY <2>1 DEF OrderInvariant
    <3>2. k \in 1..(j - 1)
      BY <2>4, <2>6, <3>1
    <3> QED
      BY <3>1, <3>2
  <2>7. DepSet(nodes[i].id) \subseteq S
    BY <2>3, <2>4, <2>6
  <2>8. Closed(S)
    <3> SUFFICES ASSUME NEW k \in 1..(j - 1) PROVE DepSet(order[k]) \subseteq S
      BY DEF Closed
    <3> QED
      BY <2>4, <2>6
  <2>9. input.from[1] \in S
    BY <2>2, <2>5, <2>7, <2>8 DEF Upstream
  <2>10. PICK k \in 1..(j - 1) : order[k] = input.from[1]
    BY <2>9
  <2>11. k \in DOMAIN order /\ k < j
    BY <2>4
  <2> QED
    BY <2>3, <2>10, <2>11 DEF Before
<1> QED
  BY <1>1, AdmissionInductive, PTL

\* Ties in the execution order are broken by declaration order.
THEOREM DeclarationBreaksTies == Spec => []DeclarationOrderKept
<1>1. AdmissionInvariant => DeclarationOrderKept
  <2> SUFFICES ASSUME AdmissionInvariant, NEW i \in DOMAIN order, NEW j \in DOMAIN order, i < j,
                      DeclaredBefore(order[j], order[i])
               PROVE  \E k \in i..(j - 1) : order[k] \in DepSet(order[j])
    BY DEF DeclarationOrderKept, DeclaredBefore
  <2>1. OrderInvariant /\ order \in Seq(Ids) /\ DOMAIN order = 1..Len(order)
    BY DEF AdmissionInvariant, SortInvariant, TypeOK
  <2>2. order[j] \in Ids /\ \A k \in 1..(i - 1) : order[k] # order[j]
    BY <2>1 DEF OrderInvariant
  <2>3. PICK d \in DepSet(order[j]) : \A k \in 1..(i - 1) : order[k] # d
    BY <2>1, <2>2 DEF OrderInvariant
  <2>4. PICK k \in DOMAIN order : k < j /\ order[k] = d
    BY <2>1 DEF OrderInvariant
  <2>5. k \in i..(j - 1)
    BY <2>1, <2>3, <2>4
  <2> QED
    BY <2>4, <2>5
<1> QED
  BY <1>1, AdmissionInductive, PTL

\* An admitted graph meets the assumptions of the run engine's model on the order and on the
\* nodes (those on the places of gates and on outputs are not about admission): what its
\* theorems take for granted of a graph is what admission grants.
THEOREM AdmittedMeetsAssumptions == Spec => []EngineAssumptionsMet
<1>1. AdmissionInvariant => EngineAssumptionsMet
  <2> SUFFICES ASSUME AdmissionInvariant, verdict = "ADMITTED"
               PROVE  Engine!OrderAssumption /\ Engine!NodeAssumption
    BY DEF EngineAssumptionsMet
  <2>1. /\ TypeOK /\ OrderInvariant /\ Ids = ElementsOf(order) /\ AllAvailable /\ nodes # <<>> /\ RulesHeld
        /\ ~GraphErrors(raw, nodes)
    BY DEF AdmissionInvariant, SortInvariant, WiringInvariant, RulesHeld, Begun
  <2>2. \A n \in Ids : DepSet(n) \subseteq Ids
    BY <2>1, DepSetOfDeps DEF TypeOK
  <2>3. Engine!OrderAssumption
    <3>1. Ids # {}
      <4>1. 1 \in DOMAIN nodes
        BY <2>1 DEF TypeOK, IsSeq
      <4> QED
        BY <2>1, <4>1, DepsOfNode
    <3>2. \A n \in Ids : \E i \in DOMAIN order : order[i] = n
      BY <2>1 DEF ElementsOf
    <3>3. [n \in Ids |-> DepSet(n)] \in [Ids -> SUBSET Ids]
      BY <2>2
    <3>4. ASSUME NEW i \in DOMAIN order, NEW j \in DOMAIN order,
                 order[j] \in [n \in Ids |-> DepSet(n)][order[i]]
          PROVE  j < i
      <4>1. order[i] \in Ids /\ order[j] \in DepSet(order[i])
        BY <2>1, <3>4 DEF ElementsOf
      <4>2. PICK k \in DOMAIN order : k < i /\ order[k] = order[j]
        BY <2>1, <4>1 DEF OrderInvariant
      <4> QED
        BY <2>1, <4>2 DEF OrderInvariant
    <3> QED
      BY <2>1, <3>1, <3>2, <3>3, <3>4 DEF Engine!OrderAssumption, OrderInvariant, TypeOK
  <2>4. ASSUME NEW n \in Ids
        PROVE  /\ NodeOf(n).executor \in {"builtin", "agent"} /\ NodeOf(n).max_attempts \in 1..5
               /\ NodeOf(n).max_attempts > 1 => NodeOf(n).idempotent /\ ~NodeOf(n).side_effects
               /\ NodeOf(n).side_effects => NodeOf(n).executor # "builtin" /\ "approval" \in NodeOf(n).gates
    <3>1. PICK i \in DOMAIN nodes : nodes[i].id = n
      BY DEF Ids, IdsOf
    <3>2. NodeOf(n) = nodes[i] /\ ~NodeErrors(nodes[i]) /\ Available(nodes[i])
      BY <2>1, <3>1, DepsOfNode DEF GraphErrors, AllAvailable
    <3> QED
      BY <3>2, CatalogAssumption DEF NodeErrors, GovernanceErrors, OperationValid, Available
  <2>5. Engine!NodeAssumption
    <3>1. ASSUME NEW n \in Ids, NodeOf(n).side_effects
          PROVE  <<n, "approval">> \in {g \in GatesOfNodes : g[1] = n /\ g[2] = "approval"}
      <4>1. PICK i \in DOMAIN nodes : nodes[i].id = n
        BY DEF Ids, IdsOf
      <4>2. NodeOf(n) = nodes[i] /\ "approval" \in nodes[i].gates
        BY <2>1, <2>4, <3>1, <4>1, DepsOfNode
      <4> QED
        BY <4>1, <4>2 DEF GatesOfNodes
    <3>2. \A g \in GatesOfNodes :
            [h \in GatesOfNodes |-> h[1]][g] = g[1] /\ [h \in GatesOfNodes |-> h[2]][g] = g[2]
      OBVIOUS
    <3>3. \A n \in {m \in Ids : NodeOf(m).side_effects} : Engine!GatesOf(n, "approval") # {}
      BY <3>1, <3>2 DEF Engine!GatesOf
    <3>4. /\ [n \in Ids |-> NodeOf(n).executor] \in [Ids -> Engine!Executors]
          /\ [n \in Ids |-> NodeOf(n).max_attempts] \in [Ids -> 1..5]
      BY <2>4 DEF Engine!Executors
    <3>5. \A n \in Ids : [m \in Ids |-> NodeOf(m).max_attempts][n] > 1 =>
            n \in {m \in Ids : NodeOf(m).idempotent} \ {m \in Ids : NodeOf(m).side_effects}
      BY <2>4
    <3>6. \A n \in {m \in Ids : NodeOf(m).side_effects} : [m \in Ids |-> NodeOf(m).executor][n] # "builtin"
      BY <2>4
    <3> QED
      BY <3>3, <3>4, <3>5, <3>6 DEF Engine!NodeAssumption
  <2> QED
    BY <2>3, <2>5
<1> QED
  BY <1>1, AdmissionInductive, PTL

-----------------------------------------------------------------------------
(* Loading a run admits its spec again.                                    *)

\* While the nodes are the stored ones, what is true of the one is true of the other.
LEMMA KeptIsCurrent ==
  nodes = stored.nodes =>
    /\ Kept!Ids = Ids /\ \A n : Kept!DepSet(n) = DepSet(n)
    /\ \A m, n : Kept!DeclaredBefore(m, n) <=> DeclaredBefore(m, n)
    /\ (Kept!HasCycle <=> HasCycle) /\ (Kept!Miswired <=> Miswired)
    /\ (Kept!AllAvailable <=> AllAvailable)
<1> SUFFICES ASSUME nodes = stored.nodes
             PROVE  /\ Kept!Ids = Ids /\ \A n : Kept!DepSet(n) = DepSet(n)
                    /\ \A m, n : Kept!DeclaredBefore(m, n) <=> DeclaredBefore(m, n)
                    /\ (Kept!HasCycle <=> HasCycle) /\ (Kept!Miswired <=> Miswired)
                    /\ (Kept!AllAvailable <=> AllAvailable)
  OBVIOUS
<1>1. Kept!Ids = Ids
  BY DEF Ids, IdsOf, Kept!Ids, Kept!IdsOf
<1>2. \A n : Kept!NodeOf(n) = NodeOf(n)
  BY DEF NodeOf, Kept!NodeOf
<1>3. \A n : Kept!DepSet(n) = DepSet(n)
  BY <1>2 DEF Deps, DepSet, Kept!Deps, Kept!DepSet
<1>4. Kept!HasCycle <=> HasCycle
  BY <1>1, <1>3 DEF HasCycle, Kept!HasCycle
<1>5. \A n : Kept!Upstream(n) = Upstream(n)
  BY <1>1, <1>3 DEF Upstream, Kept!Upstream, Closed, Kept!Closed
<1>6. Kept!Miswired <=> Miswired
  BY <1>1, <1>2, <1>5 DEF Miswired, Kept!Miswired, InputError, Kept!InputError
<1>7. Kept!AllAvailable <=> AllAvailable
  BY DEF AllAvailable, Kept!AllAvailable, Available, Kept!Available
<1>8. \A m, n : Kept!DeclaredBefore(m, n) <=> DeclaredBefore(m, n)
  BY DEF DeclaredBefore, Kept!DeclaredBefore
<1> QED
  BY <1>1, <1>3, <1>4, <1>6, <1>7, <1>8

\* What is stored is not touched by admit().
LEMMA KeptStays ==
  ASSUME StoredIsAdmissible, stored' = stored, raw' = raw
  PROVE  StoredIsAdmissible'
<1>1. Kept!Ids' = Kept!Ids
  BY DEF Kept!Ids, Kept!IdsOf
<1>2. \A n : Kept!NodeOf(n)' = Kept!NodeOf(n)
  BY DEF Kept!NodeOf
<1>3. \A n : Kept!DepSet(n)' = Kept!DepSet(n)
  BY <1>2 DEF Kept!Deps, Kept!DepSet
<1>4. Kept!HasCycle' <=> Kept!HasCycle
  BY <1>1, <1>3 DEF Kept!HasCycle
<1>5. \A n : Kept!Upstream(n)' = Kept!Upstream(n)
  BY <1>1, <1>3 DEF Kept!Upstream, Kept!Closed
<1>6. Kept!Miswired' <=> Kept!Miswired
  BY <1>1, <1>2, <1>5 DEF Kept!Miswired, Kept!InputError
<1>7. Kept!AllAvailable' <=> Kept!AllAvailable
  BY DEF Kept!AllAvailable, Kept!Available
<1>8. \A m, n : Kept!DeclaredBefore(m, n)' <=> Kept!DeclaredBefore(m, n)
  BY DEF Kept!DeclaredBefore
<1>9. Kept!OrderInvariant => Kept!OrderInvariant'
  BY <1>1, <1>3, <1>8 DEF Kept!OrderInvariant
<1>10. ElementsOf(stored.order)' = ElementsOf(stored.order)
  BY DEF ElementsOf
<1> QED
  BY <1>1, <1>4, <1>6, <1>7, <1>9, <1>10 DEF StoredIsAdmissible

\* What was admitted is what is stored.
LEMMA KeptAtLoad ==
  ASSUME Load, AdmissionInvariant
  PROVE  StoredIsAdmissible'
<1>0. /\ stored' = [nodes |-> nodes, order |-> order] /\ raw'.inputs = raw.inputs /\ raw'.disabled = {}
      /\ verdict = "ADMITTED" /\ phase = "done"
  BY DEF Load
<1>a. stored'.nodes = nodes /\ stored'.order = order
  BY <1>0
<1>1. Kept!Ids' = Ids
  BY <1>a DEF Kept!Ids, Kept!IdsOf, Ids, IdsOf
<1>2. \A n : Kept!NodeOf(n)' = NodeOf(n)
  BY <1>a DEF Kept!NodeOf, NodeOf
<1>3. \A n : Kept!DepSet(n)' = DepSet(n)
  BY <1>2 DEF Kept!Deps, Kept!DepSet, Deps, DepSet
<1>4. Kept!HasCycle' <=> HasCycle
  BY <1>1, <1>3 DEF Kept!HasCycle, HasCycle
<1>5. \A n : Kept!Upstream(n)' = Upstream(n)
  BY <1>1, <1>3 DEF Kept!Upstream, Kept!Closed, Upstream, Closed
<1>6. Kept!Miswired' <=> Miswired
  BY <1>0, <1>a, <1>1, <1>2, <1>5 DEF Kept!Miswired, Kept!InputError, Miswired, InputError
<1>7. AllAvailable => Kept!AllAvailable'
  BY <1>0, <1>a DEF Kept!AllAvailable, Kept!Available, AllAvailable, Available
<1>8. \A m, n : Kept!DeclaredBefore(m, n)' <=> DeclaredBefore(m, n)
  BY <1>a DEF Kept!DeclaredBefore, DeclaredBefore
<1>9. OrderInvariant => Kept!OrderInvariant'
  BY <1>a, <1>1, <1>3, <1>8 DEF Kept!OrderInvariant, OrderInvariant
<1>10. ElementsOf(stored.order)' = ElementsOf(order)
  BY <1>a DEF ElementsOf
<1>11. ~HasCycle /\ ~Miswired /\ AllAvailable /\ OrderInvariant /\ Ids = ElementsOf(order) /\ order \in Seq(Ids)
  <2>1. nodes # <<>> /\ ~Miswired
    BY <1>0 DEF AdmissionInvariant, WiringInvariant, Begun
  <2>2. cycle = <<>>
    BY <1>0 DEF AdmissionInvariant, SearchInvariant
  <2>3. ~HasCycle
    BY <1>0, <2>1, <2>2, SearchedAcyclic DEF AdmissionInvariant
  <2>4. AllAvailable /\ OrderInvariant /\ Ids = ElementsOf(order) /\ order \in Seq(Ids)
    BY <1>0 DEF AdmissionInvariant, SortInvariant, TypeOK
  <2> QED
    BY <2>1, <2>3, <2>4
<1> QED
  BY <1>a, <1>1, <1>4, <1>6, <1>7, <1>9, <1>10, <1>11 DEF StoredIsAdmissible

Fields == {"id", "executor", "depends_on", "requires", "operation", "inputs", "outputs", "max_attempts",
           "side_effects", "idempotent", "on_failure", "gates", "rollback_boundary"}

\* Of a node that gives every field, normalisation keeps every field.
LEMMA NormalizeWhole ==
  ASSUME NEW n, DOMAIN n = Fields
  PROVE  Normalize(n) = [id |-> n.id, executor |-> n.executor, depends_on |-> n.depends_on, requires |-> n.requires,
                         operation |-> n.operation, inputs |-> n.inputs, outputs |-> n.outputs,
                         max_attempts |-> n.max_attempts, side_effects |-> n.side_effects, idempotent |-> n.idempotent,
                         on_failure |-> n.on_failure, gates |-> n.gates, rollback_boundary |-> n.rollback_boundary]
  BY DEF Normalize, Get, Fields

\* A normalised node has every field, so that normalising it again changes nothing.
LEMMA NormalizeTwice ==
  ASSUME NEW r, NEW n, n = Normalize(r)
  PROVE  Normalize(n) = n /\ "malformed" \notin DOMAIN n
<1>1. DOMAIN n = Fields
  BY DEF Normalize, Fields
<1> DEFINE same == [id |-> n.id, executor |-> n.executor, depends_on |-> n.depends_on, requires |-> n.requires,
                    operation |-> n.operation, inputs |-> n.inputs, outputs |-> n.outputs,
                    max_attempts |-> n.max_attempts, side_effects |-> n.side_effects, idempotent |-> n.idempotent,
                    on_failure |-> n.on_failure, gates |-> n.gates, rollback_boundary |-> n.rollback_boundary]
<1>2. n = same
  BY DEF Normalize
<1>3. Normalize(n) = same
  BY <1>1, NormalizeWhole
<1>4. "malformed" \notin DOMAIN n
  BY <1>1 DEF Fields
<1> QED
  BY <1>2, <1>3, <1>4

\* What is loaded breaks no rule: it was checked as it is.
LEMMA NormalAtLoad ==
  ASSUME Load, AdmissionInvariant
  PROVE  StoredIsNormal'
<1>1. /\ raw' = [malformed |-> FALSE, inputs |-> raw.inputs, nodes |-> nodes, disabled |-> {}]
      /\ stored' = [nodes |-> nodes, order |-> order]
  BY DEF Load
<1>2. nodes # <<>> /\ nodes = Normalized /\ ~GraphErrors(raw, nodes) /\ IsSeq(nodes)
  BY DEF Load, AdmissionInvariant, WiringInvariant, RulesHeld, TypeOK, Begun
<1>3. \A i \in DOMAIN nodes : Normalize(nodes[i]) = nodes[i] /\ "malformed" \notin DOMAIN nodes[i]
  <2>1. \A i \in DOMAIN nodes : nodes[i] = Normalize(raw.nodes[i])
    BY <1>2 DEF Normalized
  <2> QED
    BY <2>1, NormalizeTwice
<1>4. raw'.nodes = nodes /\ raw'.malformed = FALSE /\ raw'.disabled = {} /\ stored'.nodes = nodes
  BY <1>1
<1>5. Normalized' = nodes
  <2>1. Normalized' = [i \in DOMAIN nodes |-> Normalize(nodes[i])]
    BY <1>4 DEF Normalized
  <2>2. nodes = [i \in DOMAIN nodes |-> nodes[i]]
    BY <1>2 DEF IsSeq
  <2> QED
    BY <1>3, <2>1, <2>2
<1>6. ~GraphErrors(raw', nodes)
  BY <1>2, <1>3, <1>4 DEF GraphErrors
<1> QED
  BY <1>4, <1>5, <1>6 DEF StoredIsNormal

\* A step of admit() on what is stored: the rules hold there, and were found to.
LEMMA NormalStays ==
  ASSUME StoredIsNormal, stored' = stored, raw' = raw
  PROVE  StoredIsNormal'
<1>1. Normalized' = Normalized
  BY DEF Normalized
<1> QED
  BY <1>1 DEF StoredIsNormal

\* The next node taken is the one that stands there in what is stored.
LEMMA TakeRepeats ==
  ASSUME AdmissionInvariant, ReadmissionInvariant, stored # None, nodes = stored.nodes, phase = "order",
         NEW i \in DOMAIN nodes, nodes[i].id \in Ready, \A j \in 1..(i - 1) : nodes[j].id \notin Ready
  PROVE  /\ Len(order) + 1 \in DOMAIN stored.order
         /\ stored.order[Len(order) + 1] = nodes[i].id
<1> DEFINE n == nodes[i].id
           k == Len(order) + 1
           kept == stored.order
<1>1. /\ TypeOK /\ RulesHeld /\ nodes # <<>> /\ RemainingInvariant /\ DOMAIN nodes = 1..Len(nodes) /\ Len(nodes) \in Nat
      /\ order \in Seq(Ids) /\ DOMAIN order = 1..Len(order) /\ Len(order) \in Nat
  <2>1. TypeOK /\ RulesHeld /\ RemainingInvariant /\ nodes # <<>>
    BY DEF AdmissionInvariant, SortInvariant, SearchInvariant, Begun
  <2>2. DOMAIN nodes = 1..Len(nodes) /\ Len(nodes) \in Nat
    BY <2>1 DEF TypeOK, IsSeq
  <2>3. order \in Seq(Ids)
    BY <2>1 DEF TypeOK
  <2>4. DOMAIN order = 1..Len(order) /\ Len(order) \in Nat
    BY <2>3
  <2> QED
    BY <2>1, <2>2, <2>3, <2>4
<1>2. /\ kept \in Seq(Ids) /\ Ids = ElementsOf(kept) /\ Kept!OrderInvariant
      /\ \A j \in DOMAIN order : j \in DOMAIN kept /\ order[j] = kept[j]
  BY KeptIsCurrent DEF ReadmissionInvariant, StoredIsAdmissible, OrderRepeats
<1>3. DOMAIN kept = 1..Len(kept) /\ Len(kept) \in Nat
  BY <1>2
<1>4. /\ \A l, m \in DOMAIN kept : kept[l] = kept[m] => l = m
      /\ \A m \in DOMAIN kept : \A d \in DepSet(kept[m]) : \E l \in DOMAIN kept : l < m /\ kept[l] = d
  <2>1. \A m : Kept!DepSet(m) = DepSet(m)
    BY KeptIsCurrent
  <2>2. \A l, m \in DOMAIN kept : kept[l] = kept[m] => l = m
    BY <1>2 DEF Kept!OrderInvariant
  <2>3. \A m \in DOMAIN kept : \A d \in Kept!DepSet(kept[m]) : \E l \in DOMAIN kept : l < m /\ kept[l] = d
    BY <1>2 DEF Kept!OrderInvariant
  <2> QED
    BY <2>1, <2>2, <2>3
<1>5. ASSUME NEW p \in DOMAIN kept, NEW m \in Ids, DeclaredBefore(m, kept[p]), \A l \in 1..(p - 1) : kept[l] # m
      PROVE  \E d \in DepSet(m) : \A l \in 1..(p - 1) : kept[l] # d
  <2>1. m \in Kept!Ids /\ Kept!DeclaredBefore(m, kept[p]) /\ Kept!DepSet(m) = DepSet(m)
    BY <1>5, KeptIsCurrent
  <2> QED
    BY <1>2, <1>5, <2>1 DEF Kept!OrderInvariant
<1>6. /\ n \in Ids /\ n \in DOMAIN remaining /\ n \notin ElementsOf(order) /\ DepSet(n) \cap DOMAIN remaining = {}
  BY <1>1 DEF Ready, RemainingInvariant
<1> HIDE DEF n, kept, k
<1>7. PICK p \in DOMAIN kept : kept[p] = n
  BY <1>2, <1>6 DEF ElementsOf
<1>8. p \notin DOMAIN order
  BY <1>2, <1>6, <1>7 DEF ElementsOf
<1>9. k \in DOMAIN kept /\ k \in Nat /\ k >= 1 /\ DOMAIN order = 1..(k - 1)
  BY <1>1, <1>3, <1>7, <1>8 DEF k
<1>10. ElementsOf(order) = {kept[l] : l \in 1..(k - 1)}
  BY <1>2, <1>9 DEF ElementsOf
<1>11. kept[k] \in Ids /\ kept[k] \notin ElementsOf(order)
  <2>1. \A l \in 1..(k - 1) : l \in DOMAIN kept /\ l # k
    BY <1>2, <1>9
  <2> QED
    BY <1>2, <1>4, <1>9, <1>10, <2>1 DEF ElementsOf
<1>12. kept[k] \in Ready
  <2>1. kept[k] \in DOMAIN remaining
    BY <1>1, <1>11 DEF RemainingInvariant
  <2>2. ASSUME NEW d \in DepSet(kept[k]) PROVE d \in ElementsOf(order)
    <3>1. PICK l \in DOMAIN kept : l < k /\ kept[l] = d
      BY <1>4, <1>9
    <3>2. l \in 1..(k - 1)
      BY <1>3, <1>9, <3>1
    <3> QED
      BY <1>10, <3>1, <3>2
  <2> QED
    BY <1>1, <2>1, <2>2 DEF RemainingInvariant, Ready
<1>13. PICK j \in DOMAIN nodes : nodes[j].id = kept[k]
  BY <1>11 DEF Ids, IdsOf
<1>14. j >= i
  BY <1>1, <1>12, <1>13
<1>15. CASE j > i
  <2>1. DeclaredBefore(n, kept[k])
    BY <1>13, <1>15 DEF DeclaredBefore, n
  <2>2. \A l \in 1..(k - 1) : kept[l] # n
    BY <1>6, <1>10
  <2>3. PICK d \in DepSet(n) : \A l \in 1..(k - 1) : kept[l] # d
    BY <1>5, <1>6, <1>9, <2>1, <2>2
  <2>4. d \notin ElementsOf(order) /\ d \in Ids
    BY <1>1, <1>6, <1>10, <2>3, DepSetOfDeps DEF TypeOK
  <2>5. d \in DOMAIN remaining
    BY <1>1, <2>4 DEF RemainingInvariant
  <2> QED
    BY <1>6, <2>3, <2>5
<1>16. CASE j = i
  BY <1>9, <1>13, <1>16 DEF n, k, kept
<1> QED
  BY <1>1, <1>14, <1>15, <1>16

LEMMA ReadmissionPreserved ==
  ASSUME AdmissionInvariant, ReadmissionInvariant, [Next]_vars
  PROVE  ReadmissionInvariant'
<1> SUFFICES ASSUME stored' # None PROVE ReadmissionInvariant'
  BY DEF ReadmissionInvariant
<1>1. CASE Load
  <2>1. phase' = "structure" /\ order' = <<>>
    BY <1>1 DEF Load
  <2>2. OrderRepeats'
    BY <2>1 DEF OrderRepeats
  <2> QED
    BY <1>1, <2>1, <2>2, KeptAtLoad, NormalAtLoad DEF ReadmissionInvariant
<1>2. CASE ~Load
  <2>1. stored' = stored /\ raw' = raw
    BY <1>2, BegunActions DEF Next, Proceed, RejectStructure, AcceptStructure, vars, StartVisit, PassRoot, Descend,
       SkipDependency, ReportCycle, Retreat, SearchOver, SkipAncestor, AddAncestor, CheckInputs, RejectInputs,
       AcceptInputs, RejectExecutors, AcceptExecutors, TakeNext, Admit
  <2>2. stored # None /\ StoredIsNormal /\ StoredIsAdmissible /\ (phase # "structure" => nodes = stored.nodes) /\ OrderRepeats
    BY <2>1 DEF ReadmissionInvariant
  <2>3. StoredIsNormal' /\ StoredIsAdmissible'
    BY <2>1, <2>2, NormalStays, KeptStays
  <2>4. phase' # "structure" => nodes' = stored.nodes
    <3>1. CASE RejectStructure
      BY <2>2, <3>1 DEF RejectStructure, StoredIsNormal
    <3>2. CASE AcceptStructure
      BY <2>2, <3>2 DEF AcceptStructure, StoredIsNormal
    <3>3. CASE UNCHANGED vars
      BY <2>2, <3>3 DEF vars
    <3>4. CASE \/ StartVisit \/ PassRoot \/ Descend \/ SkipDependency \/ ReportCycle \/ Retreat \/ SearchOver
               \/ SkipAncestor \/ AddAncestor \/ CheckInputs \/ RejectInputs \/ AcceptInputs
               \/ RejectExecutors \/ AcceptExecutors \/ TakeNext \/ Admit
      BY <2>2, <3>4, BegunActions
    <3> QED
      BY <1>2, <3>1, <3>2, <3>3, <3>4 DEF Next, Proceed
  <2>5. OrderRepeats'
    <3>1. CASE order' = order
      BY <2>1, <2>2, <3>1 DEF OrderRepeats
    <3>2. CASE order' # order
      <4>1. TakeNext
        BY <1>2, <3>2 DEF Next, Proceed, vars, RejectStructure, AcceptStructure, StartVisit, PassRoot, Descend,
           SkipDependency, ReportCycle, Retreat, SearchOver, SkipAncestor, AddAncestor, CheckInputs, RejectInputs,
           AcceptInputs, RejectExecutors, AcceptExecutors, Admit, sorting
      <4>2. PICK i \in DOMAIN nodes :
              nodes[i].id \in Ready /\ Take(nodes[i].id) /\ \A j \in 1..(i - 1) : nodes[j].id \notin Ready
        BY <3>2, <4>1 DEF TakeNext, sorting
      <4>3. phase = "order" /\ nodes = stored.nodes
        BY <2>2, <4>1 DEF TakeNext
      <4>4. Len(order) + 1 \in DOMAIN stored.order /\ stored.order[Len(order) + 1] = nodes[i].id
        BY <2>2, <4>2, <4>3, TakeRepeats
      <4>5. order \in Seq(Ids) /\ nodes[i].id \in Ids /\ order' = Append(order, nodes[i].id)
        BY <4>2 DEF AdmissionInvariant, TypeOK, Take, Ids, IdsOf
      <4>6. /\ DOMAIN order' = DOMAIN order \cup {Len(order) + 1}
            /\ order'[Len(order) + 1] = nodes[i].id /\ \A j \in DOMAIN order : order'[j] = order[j]
        BY <4>5
      <4> QED
        BY <2>1, <2>2, <4>4, <4>6 DEF OrderRepeats
    <3> QED
      BY <3>1, <3>2
  <2> QED
    BY <2>1, <2>3, <2>4, <2>5 DEF ReadmissionInvariant
<1> QED
  BY <1>1, <1>2

\* A second admission goes the way of the first.
THEOREM ReadmissionHolds == Spec => []ReadmissionInvariant
<1>1. Init => ReadmissionInvariant
  BY DEF Init, ReadmissionInvariant
<1>2. AdmissionInvariant /\ ReadmissionInvariant /\ [Next]_vars => ReadmissionInvariant'
  BY ReadmissionPreserved
<1> QED
  BY <1>1, <1>2, AdmissionInductive, PTL DEF Spec

\* Loading a run never finds its spec corrupt for the rules' own sake: what was admitted
\* once is admitted again, with the same nodes in the same order.
THEOREM StoredSpecsAreReadmitted == Spec => []Readmitted
<1>1. AdmissionInvariant /\ ReadmissionInvariant /\ VerdictExact => Readmitted
  <2> SUFFICES ASSUME AdmissionInvariant, ReadmissionInvariant, VerdictExact, phase = "done", stored # None
               PROVE  verdict = "ADMITTED" /\ nodes = stored.nodes /\ order = stored.order
    BY DEF Readmitted
  <2>1. nodes = stored.nodes /\ StoredIsNormal /\ StoredIsAdmissible /\ OrderRepeats
    BY DEF ReadmissionInvariant
  <2>2. ~HasCycle /\ ~Miswired /\ AllAvailable /\ stored.order \in Seq(Ids) /\ Ids = ElementsOf(stored.order)
    BY <2>1, KeptIsCurrent DEF StoredIsAdmissible
  <2>3. nodes # <<>>
    <3>1. IsSeq(nodes) /\ ~GraphErrors(raw, nodes)
      BY <2>1 DEF AdmissionInvariant, TypeOK, StoredIsNormal
    <3> QED
      BY <3>1, AcceptedNodes
  <2>4. verdict = "ADMITTED"
    BY <2>2, <2>3 DEF VerdictExact
  <2>5. order \in Seq(Ids) /\ Ids = ElementsOf(order)
    BY <2>4 DEF AdmissionInvariant, SortInvariant, TypeOK
  <2>6. DOMAIN stored.order = DOMAIN order
    <3>1. ASSUME NEW p \in DOMAIN stored.order PROVE p \in DOMAIN order
      <4>1. stored.order[p] \in ElementsOf(order)
        BY <2>2, <2>5 DEF ElementsOf
      <4>2. PICK l \in DOMAIN order : order[l] = stored.order[p]
        BY <4>1 DEF ElementsOf
      <4>3. l \in DOMAIN stored.order /\ stored.order[l] = stored.order[p]
        BY <2>1, <4>2 DEF OrderRepeats
      <4>4. l = p
        BY <2>1, <4>3 DEF StoredIsAdmissible, Kept!OrderInvariant
      <4> QED
        BY <4>4
    <3> QED
      BY <2>1, <3>1 DEF OrderRepeats
  <2>7. order = stored.order
    <3>1. order = [l \in DOMAIN order |-> order[l]] /\ stored.order = [l \in DOMAIN stored.order |-> stored.order[l]]
      BY <2>2, <2>5
    <3>2. \A l \in DOMAIN order : order[l] = stored.order[l]
      BY <2>1 DEF OrderRepeats
    <3> QED
      BY <2>6, <3>1, <3>2
  <2> QED
    BY <2>1, <2>4, <2>7
<1> QED
  BY <1>1, AdmissionInductive, AdmissionExact, ReadmissionHolds, PTL

-----------------------------------------------------------------------------
(* Admission is over after a bounded number of steps.                      *)

\* What a number of visits, walks or looks is charged.
LEMMA Charged ==
  ASSUME NEW c \in Nat, NEW x \in Nat, NEW y \in Nat
  PROVE  /\ c * x \in Nat
         /\ x <= y => c * x <= c * y
         /\ x + 1 <= y => c * x + c <= c * y
<1>1. ASSUME x <= y PROVE c * x <= c * y
  <2>1. y - x \in Nat /\ y = x + (y - x)
    BY <1>1
  <2>2. PICK d \in Nat : y = x + d
    BY <2>1
  <2>3. c * y = c * x + c * d /\ c * d \in Nat
    BY <2>2
  <2> QED
    BY <2>3
<1>2. ASSUME x + 1 <= y PROVE c * x + c <= c * y
  <2>1. y - x - 1 \in Nat /\ y = x + 1 + (y - x - 1)
    BY <1>2
  <2>2. PICK d \in Nat : y = x + 1 + d
    BY <2>1
  <2>3. c * y = c * x + c + c * d /\ c * d \in Nat
    BY <2>2
  <2> QED
    BY <2>3
<1> QED
  BY <1>1, <1>2

\* A set of ids is finite, and no larger than the list of nodes; no list of dependencies
\* is longer, because it names none twice.
Sized == /\ Size \in Nat \ {0} /\ DOMAIN nodes = 1..Size
         /\ \A S \in SUBSET Ids : /\ IsFiniteSet(S) /\ Cardinality(S) \in Nat /\ Cardinality(S) <= Size
         /\ \A n \in Ids : Deps(n) \in Seq(Ids) /\ Len(Deps(n)) \in Nat /\ Len(Deps(n)) <= Size

LEMMA NodesSized == AdmissionInvariant /\ nodes # <<>> => Sized
<1> SUFFICES ASSUME AdmissionInvariant, nodes # <<>> PROVE Sized
  OBVIOUS
<1> USE DEF AdmissionInvariant
<1>1. nodes = Normalized /\ ~GraphErrors(raw, nodes) /\ IsSeq(raw.nodes) /\ IsSeq(nodes)
  BY DEF RulesHeld, TypeOK
<1>2. Size \in Nat /\ DOMAIN nodes = 1..Size
  BY <1>1 DEF Normalized, IsSeq, Size
<1>3. Size \in Nat \ {0}
  <2>1. DOMAIN nodes # {}
    BY <1>1 DEF IsSeq
  <2> QED
    BY <1>2, <2>1
<1>4. [i \in 1..Size |-> nodes[i].id] \in Surjection(1..Size, Ids)
  BY <1>2 DEF Surjection, Ids, IdsOf
<1>5. IsFiniteSet(1..Size) /\ Cardinality(1..Size) = Size
  BY <1>3, FS_Interval
<1>6. IsFiniteSet(Ids) /\ Cardinality(Ids) <= Size /\ Cardinality(Ids) \in Nat
  BY <1>4, <1>5, FS_Surjection, FS_CardinalityType
<1>7. ASSUME NEW S \in SUBSET Ids
      PROVE  IsFiniteSet(S) /\ Cardinality(S) \in Nat /\ Cardinality(S) <= Size
  <2>1. IsFiniteSet(S) /\ Cardinality(S) <= Cardinality(Ids)
    BY <1>6, FS_Subset
  <2>2. Cardinality(S) \in Nat
    BY <2>1, FS_CardinalityType
  <2> QED
    BY <1>3, <1>6, <2>1, <2>2
<1>8. ASSUME NEW n \in Ids
      PROVE  Deps(n) \in Seq(Ids) /\ Len(Deps(n)) \in Nat /\ Len(Deps(n)) <= Size
  <2>1. Deps(n) \in Seq(Ids)
    BY DEF TypeOK
  <2>2. PICK i \in DOMAIN nodes : n = nodes[i].id
    BY DEF Ids, IdsOf
  <2>3. Deps(n) = nodes[i].depends_on
    BY <2>2, DepsOfNode
  <2>4. ~NodeErrors(nodes[i])
    BY <1>1 DEF GraphErrors
  <2>5. \A j, k \in DOMAIN Deps(n) : Deps(n)[j] = Deps(n)[k] => j = k
    BY <2>3, <2>4 DEF NodeErrors
  <2>6. Len(Deps(n)) \in Nat /\ DOMAIN Deps(n) = 1..Len(Deps(n))
    BY <2>1
  <2>7. [k \in 1..Len(Deps(n)) |-> Deps(n)[k]] \in Injection(1..Len(Deps(n)), Ids)
    BY <2>1, <2>5, <2>6 DEF Injection, IsInjective
  <2>8. Cardinality(1..Len(Deps(n))) = Len(Deps(n))
    BY <2>6, FS_Interval
  <2>9. Cardinality(1..Len(Deps(n))) <= Cardinality(Ids)
    BY <1>6, <2>7, FS_Injection
  <2> QED
    BY <1>3, <1>6, <2>1, <2>6, <2>8, <2>9
<1> QED
  BY <1>2, <1>3, <1>7, <1>8 DEF Sized

\* Places left in a list.
LEMMA PlacesLeft ==
  ASSUME NEW x \in Nat \ {0}, NEW y \in Nat
  PROVE  /\ Cardinality(x..y) \in 0..y
         /\ x <= y => Cardinality((x + 1)..y) + 1 <= Cardinality(x..y)
<1>1. /\ Cardinality(x..y) = IF x > y THEN 0 ELSE y - x + 1
      /\ Cardinality((x + 1)..y) = IF x + 1 > y THEN 0 ELSE y - (x + 1) + 1
  BY FS_Interval
<1> QED
  BY <1>1

\* What is left of the search, in nodes and dependencies.
SearchSized == /\ Cardinality(Unvisited) \in 0..Size /\ Len(stack) \in Nat
               /\ Cardinality(StillToLook) \in 0..Size /\ RootsLeft \in 0..Size

LEMMA SearchIsSized == AdmissionInvariant /\ nodes # <<>> => SearchSized
<1> SUFFICES ASSUME AdmissionInvariant, nodes # <<>> PROVE SearchSized
  OBVIOUS
<1>1. Sized
  BY NodesSized
<1>2. Cardinality(Unvisited) \in 0..Size
  <2>1. Unvisited \in SUBSET Ids
    BY DEF Unvisited
  <2> QED
    BY <1>1, <2>1 DEF Sized
<1>3. Len(stack) \in Nat
  BY DEF AdmissionInvariant, TypeOK
<1>4. Cardinality(StillToLook) \in 0..Size
  <2>1. CASE stack = <<>>
    BY <1>1, <2>1, FS_EmptySet DEF StillToLook, Sized
  <2>2. CASE stack # <<>>
    <3>1. Top \in Ids /\ next[Top] \in Nat \ {0}
      BY <2>2, TopTyped DEF AdmissionInvariant, TypeOK
    <3>2. Len(Deps(Top)) \in Nat /\ Len(Deps(Top)) <= Size /\ Size \in Nat
      BY <1>1, <3>1 DEF Sized
    <3>3. StillToLook = next[Top]..Len(Deps(Top))
      BY <2>2 DEF StillToLook
    <3>4. Cardinality(StillToLook) \in 0..Len(Deps(Top))
      BY <3>1, <3>2, <3>3, PlacesLeft
    <3> QED
      BY <3>2, <3>4
  <2> QED
    BY <2>1, <2>2
<1>5. RootsLeft \in 0..Size
  <2>1. root \in Nat \ {0} /\ root <= Size + 1 /\ Size \in Nat
    BY <1>1 DEF AdmissionInvariant, TypeOK, RootInvariant, Begun, Sized
  <2> QED
    BY <2>1 DEF RootsLeft
<1> QED
  BY <1>2, <1>3, <1>4, <1>5 DEF SearchSized

\* The cost of the search, in numbers.
SearchCost(n, w, s, l) == (2 * n + 2) * w + (n + 1) * s + l

LEMMA BothFall ==
  ASSUME NEW a \in Nat, NEW b \in Nat, NEW c \in Nat, NEW d \in Nat,
         (b < a /\ d <= c) \/ (b = a /\ d < c)
  PROVE  b + d < a + c
OBVIOUS

LEMMA SearchCostCounted ==
  ASSUME NEW n \in Nat, NEW w \in Nat, NEW s \in Nat, NEW l \in Nat
  PROVE  SearchCost(n, w, s, l) \in Nat
<1>1. 2 * n + 2 \in Nat /\ n + 1 \in Nat
  OBVIOUS
<1>2. (2 * n + 2) * w \in Nat /\ (n + 1) * s \in Nat
  BY <1>1, Charged
<1> QED
  BY <1>2 DEF SearchCost

LEMMA SearchCosts ==
  ASSUME NEW n \in Nat, NEW w \in Nat, NEW s \in Nat, NEW l \in Nat,
         NEW v \in Nat, NEW t \in Nat, NEW m \in Nat,
         \/ v + 1 <= w /\ t = s + 1 /\ m <= n
         \/ v <= w /\ t <= s /\ m + 1 <= l
         \/ v <= w /\ t + 1 <= s /\ m <= n
  PROVE  /\ SearchCost(n, w, s, l) \in Nat /\ SearchCost(n, v, t, m) \in Nat
         /\ SearchCost(n, v, t, m) < SearchCost(n, w, s, l)
<1> DEFINE b == n + 1
           a == 2 * n + 2
<1>1. a \in Nat /\ b \in Nat /\ a = b + n + 1 /\ b = n + 1
  OBVIOUS
<1> HIDE DEF a, b
<1>2. a * w \in Nat /\ a * v \in Nat /\ b * s \in Nat /\ b * t \in Nat
  BY <1>1, Charged
<1>3. CASE v + 1 <= w /\ t = s + 1 /\ m <= n
  <2>1. a * v + a <= a * w
    BY <1>1, <1>3, Charged
  <2>2. b * t = b * s + b
    BY <1>1, <1>3
  <2>3. a * v + b * t + m < a * w + b * s + l
    BY <1>1, <1>2, <1>3, <2>1, <2>2
  <2> QED
    BY <1>2, <2>3 DEF SearchCost, a, b
<1>4. CASE v <= w /\ t <= s /\ m + 1 <= l
  <2>1. a * v <= a * w /\ b * t <= b * s
    BY <1>1, <1>4, Charged
  <2>2. a * v + b * t + m < a * w + b * s + l
    BY <1>2, <1>4, <2>1
  <2> QED
    BY <1>2, <2>2 DEF SearchCost, a, b
<1>5. CASE v <= w /\ t + 1 <= s /\ m <= n
  <2>1. a * v <= a * w /\ b * t + b <= b * s
    BY <1>1, <1>5, Charged
  <2>2. a * v + b * t + m < a * w + b * s + l
    BY <1>1, <1>2, <1>5, <2>1
  <2> QED
    BY <1>2, <2>2 DEF SearchCost, a, b
<1> QED
  BY <1>3, <1>4, <1>5

\* The measure of the search falls with each of its steps.
LEMMA SearchShortens ==
  ASSUME AdmissionInvariant, AdmissionInvariant', nodes # <<>>,
         StartVisit \/ PassRoot \/ Descend \/ SkipDependency \/ Retreat
  PROVE  phase = "cycle" /\ phase' = "cycle" /\ Size' = Size /\ SearchLeft' < SearchLeft
<1>n. phase = "cycle" /\ phase' = "cycle" /\ nodes' = nodes /\ raw' = raw
  BY DEF StartVisit, PassRoot, Descend, SkipDependency, Retreat, Looking
<1>f. Size' = Size /\ Ids' = Ids /\ \A n : Deps(n)' = Deps(n)
  BY <1>n, NodesFrame DEF Size
<1>s. Sized /\ SearchSized
  BY NodesSized, SearchIsSized
<1>t. (AdmissionInvariant /\ nodes # <<>>)' => SearchSized'
  BY SearchIsSized, PTL
<1>u. /\ Size \in Nat /\ Cardinality(Unvisited) \in Nat /\ Len(stack) \in Nat /\ Cardinality(StillToLook) \in Nat
      /\ Cardinality(Unvisited') \in Nat /\ Len(stack') \in Nat
      /\ Cardinality(StillToLook') \in Nat /\ Cardinality(StillToLook') <= Size
      /\ RootsLeft \in Nat /\ RootsLeft' \in Nat
  <2>1. SearchSized'
    BY <1>n, <1>t
  <2>2. Cardinality(Unvisited') \in 0..Size /\ Len(stack') \in Nat /\ Cardinality(StillToLook') \in 0..Size
        /\ RootsLeft' \in 0..Size
    BY <1>f, <2>1 DEF SearchSized
  <2> QED
    BY <1>s, <2>2 DEF Sized, SearchSized
<1> DEFINE cost == SearchCost(Size, Cardinality(Unvisited), Len(stack), Cardinality(StillToLook))
           costThen == SearchCost(Size, Cardinality(Unvisited'), Len(stack'), Cardinality(StillToLook'))
<1>c. SearchLeft = cost + RootsLeft
  BY DEF SearchLeft, SearchCost
<1>d. SearchLeft' = costThen + RootsLeft'
  BY <1>f DEF SearchLeft, SearchCost
<1> HIDE DEF cost, costThen
<1>e. ASSUME cost \in Nat, costThen \in Nat, costThen < cost, root' = root \/ root' = root + 1
      PROVE  SearchLeft' < SearchLeft
  <2>1. RootsLeft' <= RootsLeft
    <3>1. Size \in Nat /\ root \in Nat
      BY <1>u DEF AdmissionInvariant, TypeOK
    <3> QED
      BY <1>e, <1>f, <3>1 DEF RootsLeft
  <2> QED
    BY <1>c, <1>d, <1>e, <1>u, <2>1, BothFall
<1>v. ASSUME NEW n \in Ids, color[n] = "white", Visit(n)
      PROVE  Cardinality(Unvisited') + 1 <= Cardinality(Unvisited) /\ Len(stack') = Len(stack) + 1
  <2>1. color \in [Ids -> {"white", "grey", "black"}] /\ stack \in Seq(Ids)
    BY DEF AdmissionInvariant, TypeOK
  <2>2. Unvisited' = Unvisited \ {n} /\ n \in Unvisited
    BY <1>f, <1>v, <2>1 DEF Unvisited, Visit
  <2>3. IsFiniteSet(Unvisited)
    BY <1>s DEF Sized, Unvisited
  <2>4. Cardinality(Unvisited') = Cardinality(Unvisited) - 1
    BY <2>2, <2>3, FS_RemoveElement
  <2>5. Len(stack') = Len(stack) + 1
    BY <1>v, <2>1 DEF Visit
  <2> QED
    BY <1>u, <2>4, <2>5
<1>1. CASE StartVisit
  <2>1. root \in DOMAIN nodes /\ color[nodes[root].id] = "white" /\ Visit(nodes[root].id) /\ root' = root + 1
    BY <1>1 DEF StartVisit
  <2>2. nodes[root].id \in Ids
    BY <2>1 DEF Ids, IdsOf
  <2>3. Cardinality(Unvisited') + 1 <= Cardinality(Unvisited) /\ Len(stack') = Len(stack) + 1
    BY <1>v, <2>1, <2>2
  <2>4. cost \in Nat /\ costThen \in Nat /\ costThen < cost
    BY <1>u, <2>3, SearchCosts DEF cost, costThen
  <2> QED
    BY <1>n, <1>f, <1>e, <2>1, <2>4
<1>2. CASE Descend
  <2>1. Dependency \in Ids /\ color[Dependency] = "white" /\ Visit(Dependency)
    BY <1>2, TopTyped DEF Descend, Looking, Dependency, AdmissionInvariant
  <2>2. Cardinality(Unvisited') + 1 <= Cardinality(Unvisited) /\ Len(stack') = Len(stack) + 1
    BY <1>v, <2>1
  <2>3. cost \in Nat /\ costThen \in Nat /\ costThen < cost
    BY <1>u, <2>2, SearchCosts DEF cost, costThen
  <2> QED
    BY <1>2, <1>n, <1>f, <1>e, <2>3 DEF Descend
<1>3. CASE SkipDependency
  <2>1. /\ stack # <<>> /\ stack' = stack /\ color' = color /\ next' = [next EXCEPT ![Top] = @ + 1]
        /\ next[Top] \in DOMAIN Deps(Top)
    BY <1>3 DEF SkipDependency, Looking
  <2>2. Top \in Ids /\ Top' = Top /\ next[Top] \in Nat \ {0} /\ next \in [Ids -> Nat \ {0}]
    BY <2>1, TopTyped DEF AdmissionInvariant, TypeOK, Top
  <2>3. Unvisited' = Unvisited /\ Len(stack') = Len(stack)
    BY <1>f, <2>1 DEF Unvisited
  <2>4. Deps(Top) \in Seq(Ids) /\ Len(Deps(Top)) \in Nat
    BY <1>s, <2>2 DEF Sized
  <2>5. next[Top] \in 1..Len(Deps(Top))
    BY <2>1, <2>4
  <2>6. StillToLook = next[Top]..Len(Deps(Top))
    BY <2>1 DEF StillToLook
  <2>7. StillToLook' = (next[Top] + 1)..Len(Deps(Top))
    <3>1. next'[Top] = next[Top] + 1
      BY <2>1, <2>2
    <3>2. StillToLook' = next'[Top']..Len(Deps(Top'))
      BY <1>f, <2>1 DEF StillToLook
    <3> QED
      BY <2>2, <3>1, <3>2
  <2>8. next[Top] <= Len(Deps(Top))
    BY <2>4, <2>5
  <2>9. Cardinality((next[Top] + 1)..Len(Deps(Top))) + 1 <= Cardinality(next[Top]..Len(Deps(Top)))
    BY <2>2, <2>4, <2>8, PlacesLeft
  <2>10. Cardinality(StillToLook') + 1 <= Cardinality(StillToLook)
    BY <2>6, <2>7, <2>9
  <2>11. Cardinality(Unvisited') <= Cardinality(Unvisited) /\ Len(stack') <= Len(stack)
    BY <1>u, <2>3
  <2>12. cost \in Nat /\ costThen \in Nat /\ costThen < cost
    BY <1>u, <2>10, <2>11, SearchCosts DEF cost, costThen
  <2> QED
    BY <1>3, <1>n, <1>f, <1>e, <2>12 DEF SkipDependency
<1>4. CASE Retreat
  <2>1. stack # <<>> /\ color' = [color EXCEPT ![Top] = "black"] /\ stack' = SubSeq(stack, 1, Len(stack) - 1)
    BY <1>4 DEF Retreat
  <2>2. stack \in Seq(Ids) /\ color \in [Ids -> {"white", "grey", "black"}] /\ Top \in Ids
    BY <2>1, TopTyped DEF AdmissionInvariant, TypeOK
  <2>3. Len(stack') + 1 <= Len(stack)
    BY <2>1, <2>2
  <2>4. Unvisited' \subseteq Unvisited
    BY <1>f, <2>1, <2>2 DEF Unvisited
  <2>5. IsFiniteSet(Unvisited)
    BY <1>s DEF Sized, Unvisited
  <2>6. Cardinality(Unvisited') <= Cardinality(Unvisited)
    BY <2>4, <2>5, FS_Subset
  <2>7. cost \in Nat /\ costThen \in Nat /\ costThen < cost
    BY <1>u, <2>3, <2>6, SearchCosts DEF cost, costThen
  <2> QED
    BY <1>4, <1>n, <1>f, <1>e, <2>7 DEF Retreat
<1>5. CASE PassRoot
  <2>1. stack = <<>> /\ stack' = stack /\ color' = color /\ root' = root + 1
    BY <1>5 DEF PassRoot
  <2>2. Unvisited' = Unvisited /\ StillToLook' = StillToLook
    BY <1>f, <2>1 DEF Unvisited, StillToLook
  <2>3. cost \in Nat /\ costThen = cost
    BY <1>u, <2>1, <2>2, SearchCostCounted DEF cost, costThen
  <2>4. RootsLeft' < RootsLeft
    <3>1. Size \in Nat /\ root \in Nat
      BY <1>u DEF AdmissionInvariant, TypeOK
    <3> QED
      BY <1>f, <2>1, <3>1 DEF RootsLeft
  <2> QED
    BY <1>n, <1>f, <1>c, <1>d, <1>u, <2>3, <2>4, BothFall
<1> QED
  BY <1>1, <1>2, <1>3, <1>4, <1>5

\* The cost of the ancestor walks, in numbers: k nodes to walk from, u ancestors to
\* collect, l pending.
WalkingCost(n, k, u, l) == (n + 1) * (n + 1) * k + (n + 1) * u + l

LEMMA WalkingCosts ==
  ASSUME NEW n \in Nat, NEW k \in Nat, NEW u \in Nat, NEW l \in Nat,
         NEW h \in Nat, NEW v \in Nat, NEW m \in Nat,
         \/ h = k /\ v <= u /\ m + 1 <= l
         \/ h = k /\ v + 1 <= u /\ m + 1 <= l + n
         \/ h + 1 = k /\ v <= n /\ m <= n
  PROVE  /\ WalkingCost(n, k, u, l) \in Nat /\ WalkingCost(n, h, v, m) \in Nat
         /\ WalkingCost(n, h, v, m) < WalkingCost(n, k, u, l)
<1> DEFINE b == n + 1
           p == b * b
<1>1. b \in Nat /\ p \in Nat /\ b = n + 1
  OBVIOUS
<1>0. /\ WalkingCost(n, k, u, l) = p * k + b * u + l
      /\ WalkingCost(n, h, v, m) = p * h + b * v + m
  BY DEF WalkingCost
<1>p. p = b * b
  OBVIOUS
<1> HIDE DEF b, p
<1>2. p * k \in Nat /\ p * h \in Nat /\ b * u \in Nat /\ b * v \in Nat
  BY <1>1, Charged
<1>3. CASE h = k /\ v <= u /\ m + 1 <= l
  <2>1. b * v <= b * u
    BY <1>1, <1>3, Charged
  <2> QED
    BY <1>0, <1>2, <1>3, <2>1
<1>4. CASE h = k /\ v + 1 <= u /\ m + 1 <= l + n
  <2>1. b * v + b <= b * u
    BY <1>1, <1>4, Charged
  <2> QED
    BY <1>0, <1>1, <1>2, <1>4, <2>1
<1>5. CASE h + 1 = k /\ v <= n /\ m <= n
  <2>1. p * h + p = p * k
    BY <1>1, <1>5
  <2>2. v + 1 <= b
    BY <1>1, <1>5
  <2>3. b * v + b <= b * b
    BY <1>1, <2>2, Charged
  <2>4. b * v + b <= p
    BY <1>p, <2>3
  <2> QED
    BY <1>0, <1>1, <1>2, <1>5, <2>1, <2>4
<1> QED
  BY <1>3, <1>4, <1>5

\* What is left of the walks.
WalksSized == at \in 1..(Size + 1) /\ Cardinality(Ids \ seen) \in 0..Size /\ Len(pending) \in Nat

LEMMA WalksAreSized == AdmissionInvariant /\ phase = "inputs" => Sized /\ WalksSized
<1> SUFFICES ASSUME AdmissionInvariant, phase = "inputs" PROVE Sized /\ WalksSized
  OBVIOUS
<1>1. nodes # <<>>
  BY DEF AdmissionInvariant, SearchInvariant, Begun
<1>2. Sized
  BY <1>1, NodesSized
<1>3. nodes \in Seq({nodes[i] : i \in DOMAIN nodes})
  BY DEF AdmissionInvariant, TypeOK, IsSeq
<1>4. Len(nodes) = Size
  BY <1>2, <1>3 DEF Sized
<1>5. at \in Nat \ {0} /\ at <= Len(nodes) + 1 /\ Len(pending) \in Nat
  BY DEF AdmissionInvariant, TypeOK, WiringInvariant
<1>6. Cardinality(Ids \ seen) \in 0..Size
  BY <1>2 DEF Sized
<1> QED
  BY <1>2, <1>4, <1>5, <1>6 DEF WalksSized, Sized

\* The list of dependencies of the node in place i.
LEMMA ListSized ==
  ASSUME AdmissionInvariant, nodes # <<>>, NEW i \in DOMAIN nodes
  PROVE  Len(nodes[i].depends_on) \in Nat /\ Len(nodes[i].depends_on) <= Size
<1>1. nodes[i].id \in Ids /\ Deps(nodes[i].id) = nodes[i].depends_on
  BY DepsOfNode DEF AdmissionInvariant
<1> QED
  BY <1>1, NodesSized DEF Sized

LEMMA PlaceWithin ==
  ASSUME NEW n \in Nat, NEW x \in 1..(n + 1), NEW y \in 0..n
  PROVE  x \in Nat /\ n + 1 - x \in Nat /\ y \in Nat /\ y <= n
OBVIOUS

\* The measure of the walks falls with each of their steps.
LEMMA WalksShorten ==
  ASSUME AdmissionInvariant, AdmissionInvariant', SkipAncestor \/ AddAncestor \/ CheckInputs
  PROVE  phase = "inputs" /\ phase' = "inputs" /\ Size' = Size /\ WalksLeft' < WalksLeft
<1>n. phase = "inputs" /\ phase' = "inputs" /\ nodes' = nodes /\ raw' = raw
  BY DEF SkipAncestor, AddAncestor, CheckInputs
<1>f. Size' = Size /\ Ids' = Ids
  BY <1>n, NodesFrame DEF Size
<1>s. Sized /\ WalksSized
  BY <1>n, WalksAreSized
<1>t. (AdmissionInvariant /\ phase = "inputs")' => Sized' /\ WalksSized'
  BY WalksAreSized, PTL
<1>u. /\ Size \in Nat /\ Size + 1 - at \in Nat /\ Cardinality(Ids \ seen) \in Nat /\ Len(pending) \in Nat
      /\ Size + 1 - at' \in Nat /\ Cardinality(Ids \ seen') \in Nat /\ Cardinality(Ids \ seen') <= Size
      /\ Len(pending') \in Nat /\ at \in Nat /\ at' \in Nat
  <2>1. at' \in 1..(Size + 1) /\ Cardinality(Ids \ seen') \in 0..Size /\ Len(pending') \in Nat
    BY <1>f, <1>n, <1>t DEF WalksSized
  <2>2. Size \in Nat /\ at \in 1..(Size + 1) /\ Cardinality(Ids \ seen) \in 0..Size /\ Len(pending) \in Nat
    BY <1>s DEF Sized, WalksSized
  <2>3. /\ at \in Nat /\ Size + 1 - at \in Nat /\ Cardinality(Ids \ seen) \in Nat
    BY <2>2, PlaceWithin
  <2>4. /\ at' \in Nat /\ Size + 1 - at' \in Nat
        /\ Cardinality(Ids \ seen') \in Nat /\ Cardinality(Ids \ seen') <= Size
    BY <2>1, <2>2, PlaceWithin
  <2> QED
    BY <2>1, <2>2, <2>3, <2>4
<1>c. WalksLeft = WalkingCost(Size, Size + 1 - at, Cardinality(Ids \ seen), Len(pending))
  BY DEF WalksLeft, WalkCost, WalkingCost
<1>d. WalksLeft' = WalkingCost(Size, Size + 1 - at', Cardinality(Ids \ seen'), Len(pending'))
  BY <1>f DEF WalksLeft, WalkCost, WalkingCost
<1>p. pending \in Seq(Ids)
  BY DEF AdmissionInvariant, TypeOK
<1>1. CASE SkipAncestor
  <2>1. pending # <<>> /\ pending' = SubSeq(pending, 1, Len(pending) - 1) /\ seen' = seen /\ at' = at
    BY <1>1 DEF SkipAncestor, Rest
  <2>2. Len(pending') + 1 <= Len(pending)
    BY <1>p, <2>1
  <2>3. Cardinality(Ids \ seen') <= Cardinality(Ids \ seen) /\ Size + 1 - at' = Size + 1 - at
    BY <1>u, <2>1
  <2> QED
    BY <1>n, <1>f, <1>u, <1>c, <1>d, <2>2, <2>3, WalkingCosts
<1>2. CASE AddAncestor
  <2>1. /\ pending # <<>> /\ NextAncestor \notin seen /\ seen' = seen \cup {NextAncestor} /\ at' = at
        /\ pending' = SubSeq(pending, 1, Len(pending) - 1) \o Deps(NextAncestor)
    BY <1>2 DEF AddAncestor, Rest
  <2>2. NextAncestor \in Ids
    BY <1>p, <2>1 DEF NextAncestor
  <2>3. Deps(NextAncestor) \in Seq(Ids) /\ Len(Deps(NextAncestor)) \in Nat /\ Len(Deps(NextAncestor)) <= Size
    BY <1>s, <2>2 DEF Sized
  <2>4. Len(pending') = Len(pending) - 1 + Len(Deps(NextAncestor))
    BY <1>p, <2>1, <2>3
  <2>5. Ids \ seen' = (Ids \ seen) \ {NextAncestor} /\ NextAncestor \in Ids \ seen
    BY <2>1, <2>2
  <2>6. IsFiniteSet(Ids \ seen)
    BY <1>s DEF Sized
  <2>7. Cardinality(Ids \ seen') = Cardinality(Ids \ seen) - 1
    BY <2>5, <2>6, FS_RemoveElement
  <2>8. Len(pending') + 1 <= Len(pending) + Size /\ Cardinality(Ids \ seen') + 1 <= Cardinality(Ids \ seen)
    BY <1>u, <2>3, <2>4, <2>7
  <2>9. Size + 1 - at' = Size + 1 - at
    BY <2>1
  <2> QED
    BY <1>n, <1>f, <1>u, <1>c, <1>d, <2>8, <2>9, WalkingCosts
<1>3. CASE CheckInputs
  <2>1. /\ at' = at + 1
        /\ pending' = IF at + 1 \in DOMAIN nodes THEN nodes[at + 1].depends_on ELSE <<>>
    BY <1>3 DEF CheckInputs
  <2>2. Len(pending') <= Size
    <3>1. CASE at + 1 \in DOMAIN nodes
      <4>1. nodes # <<>>
        BY <1>n DEF AdmissionInvariant, SearchInvariant, Begun
      <4> QED
        BY <2>1, <3>1, <4>1, ListSized
    <3>2. CASE at + 1 \notin DOMAIN nodes
      <4>1. Len(pending') = 0
        BY <2>1, <3>2
      <4> QED
        BY <1>u, <4>1
    <3> QED
      BY <3>1, <3>2
  <2>3. (Size + 1 - at') + 1 = Size + 1 - at
    BY <1>u, <2>1
  <2> QED
    BY <1>n, <1>f, <1>u, <1>c, <1>d, <2>2, <2>3, WalkingCosts
<1> QED
  BY <1>1, <1>2, <1>3

\* The limits of what each phase has left.
WalksCeiling  == WalkCost * (Size + 1)
SearchCeiling == (2 * Size + 2) * Size + Size

LEMMA Ceilings ==
  ASSUME Size \in Nat
  PROVE  WalkCost \in Nat /\ WalksCeiling \in Nat /\ SearchCeiling \in Nat /\ SortLeft \in Nat /\ SortLeft = Size + 3
<1>1. WalkCost \in Nat /\ Size + 1 \in Nat /\ 2 * Size + 2 \in Nat
  BY DEF WalkCost
<1>2. WalkCost * (Size + 1) \in Nat /\ (2 * Size + 2) * Size \in Nat
  BY <1>1, Charged
<1> QED
  BY <1>1, <1>2 DEF WalksCeiling, SearchCeiling, SortLeft

LEMMA LeftInPhase ==
  /\ phase = "structure" => AdmissionLeft = SortLeft + WalksCeiling + SearchCeiling + 1
  /\ phase = "cycle"     => AdmissionLeft = SortLeft + WalksCeiling + SearchLeft
  /\ phase = "inputs"    => AdmissionLeft = SortLeft + WalksLeft
  /\ phase = "executors" => AdmissionLeft = Size + 2
  /\ phase = "order"     => AdmissionLeft = Cardinality(DOMAIN remaining) + 1
  /\ phase = "done"      => AdmissionLeft = 0
<1> USE DEF AdmissionLeft
<1>1. phase = "structure" => AdmissionLeft = SortLeft + WalksCeiling + SearchCeiling + 1
  BY DEF WalksCeiling, SearchCeiling
<1>2. phase = "cycle" => AdmissionLeft = SortLeft + WalksCeiling + SearchLeft
  BY DEF WalksCeiling
<1> QED
  BY <1>1, <1>2

\* The measures of the search and of the walks are numbers.
LEMMA SearchCounted == AdmissionInvariant /\ nodes # <<>> => SearchLeft \in Nat
<1> SUFFICES ASSUME AdmissionInvariant, nodes # <<>> PROVE SearchLeft \in Nat
  OBVIOUS
<1>1. /\ Size \in Nat /\ Cardinality(Unvisited) \in Nat /\ Len(stack) \in Nat
      /\ Cardinality(StillToLook) \in Nat /\ RootsLeft \in Nat
  BY NodesSized, SearchIsSized DEF Sized, SearchSized
<1>2. 2 * Size + 2 \in Nat /\ Size + 1 \in Nat
  BY <1>1
<1>3. (2 * Size + 2) * Cardinality(Unvisited) \in Nat /\ (Size + 1) * Len(stack) \in Nat
  BY <1>1, <1>2, Charged
<1> QED
  BY <1>1, <1>3 DEF SearchLeft

LEMMA WalksCounted == AdmissionInvariant /\ phase = "inputs" => WalksLeft \in Nat
<1> SUFFICES ASSUME AdmissionInvariant, phase = "inputs" PROVE WalksLeft \in Nat
  OBVIOUS
<1>1. Sized /\ WalksSized
  BY WalksAreSized
<1>2. /\ Size \in Nat /\ at \in 1..(Size + 1) /\ Cardinality(Ids \ seen) \in 0..Size /\ Len(pending) \in Nat
  BY <1>1 DEF Sized, WalksSized
<1>3. Size + 1 - at \in Nat /\ Cardinality(Ids \ seen) \in Nat
  BY <1>2, PlaceWithin
<1>4. WalkCost \in Nat /\ Size + 1 \in Nat
  BY <1>2, Ceilings
<1>5. WalkCost * (Size + 1 - at) \in Nat /\ (Size + 1) * Cardinality(Ids \ seen) \in Nat
  BY <1>3, <1>4, Charged
<1> QED
  BY <1>2, <1>5 DEF WalksLeft

\* What is left is a number, and none only at the end.
LEMMA AdmissionCounted == AdmissionInvariant => AdmissionLeft \in Nat /\ (phase # "done" => AdmissionLeft > 0)
<1> SUFFICES ASSUME AdmissionInvariant PROVE AdmissionLeft \in Nat /\ (phase # "done" => AdmissionLeft > 0)
  OBVIOUS
<1>s. Size \in Nat
  BY DEF AdmissionInvariant, TypeOK, IsSeq, Size
<1>b. phase \notin {"structure", "done"} => nodes # <<>>
  BY DEF AdmissionInvariant, SearchInvariant, Begun
<1>c. WalksCeiling \in Nat /\ SearchCeiling \in Nat /\ SortLeft \in Nat /\ SortLeft = Size + 3
  BY <1>s, Ceilings
<1>1. CASE phase = "structure"
  BY <1>s, <1>c, <1>1, LeftInPhase
<1>2. CASE phase = "cycle"
  <2>1. SearchLeft \in Nat
    BY <1>b, <1>2, SearchCounted
  <2> QED
    BY <1>s, <1>c, <1>2, <2>1, LeftInPhase
<1>3. CASE phase = "inputs"
  <2>1. WalksLeft \in Nat
    BY <1>3, WalksCounted
  <2> QED
    BY <1>s, <1>c, <1>3, <2>1, LeftInPhase
<1>4. CASE phase = "executors"
  BY <1>s, <1>4, LeftInPhase
<1>5. CASE phase = "order"
  <2>1. DOMAIN remaining \in SUBSET Ids
    BY <1>5 DEF AdmissionInvariant, TypeOK
  <2>2. Cardinality(DOMAIN remaining) \in Nat
    BY <1>b, <1>5, <2>1, NodesSized DEF Sized
  <2> QED
    BY <1>5, <2>2, LeftInPhase
<1>6. CASE phase = "done"
  BY <1>6, LeftInPhase
<1> QED
  BY <1>1, <1>2, <1>3, <1>4, <1>5, <1>6 DEF AdmissionInvariant, TypeOK

LEMMA SumFalls ==
  ASSUME NEW k \in Nat, NEW x \in Nat, NEW y \in Nat, y < x
  PROVE  k + y < k + x
OBVIOUS

\* An end leaves nothing to do.
LEMMA EndsWithNothing == ASSUME NEW result, End(result) PROVE AdmissionLeft' = 0
<1>1. phase' = "done"
  BY DEF End
<1>2. (phase = "done" => AdmissionLeft = 0)'
  BY LeftInPhase, PTL
<1> QED
  BY <1>1, <1>2

\* The search begins with every node unvisited, and the walks with the first node.
LEMMA PhaseShortens ==
  ASSUME AdmissionInvariant, AdmissionInvariant',
         AcceptStructure \/ SearchOver \/ AcceptInputs \/ AcceptExecutors
  PROVE  AdmissionLeft' < AdmissionLeft
<1>r. raw' = raw /\ Size' = Size /\ SortLeft' = SortLeft /\ WalksCeiling' = WalksCeiling /\ SearchCeiling' = SearchCeiling
  BY DEF AcceptStructure, SearchOver, AcceptInputs, AcceptExecutors, Size, SortLeft, WalksCeiling, SearchCeiling, WalkCost
<1>s. Size \in Nat
  BY DEF AdmissionInvariant, TypeOK, IsSeq, Size
<1>c. WalksCeiling \in Nat /\ SearchCeiling \in Nat /\ SortLeft \in Nat /\ SortLeft = Size + 3 /\ WalkCost \in Nat
  BY <1>s, Ceilings
<1>1. CASE AcceptStructure
  <2>1. phase = "structure" /\ phase' = "cycle" /\ stack' = <<>>
    BY <1>1 DEF AcceptStructure, AdmissionInvariant, SearchInvariant
  <2>2. nodes' # <<>>
    BY <2>1 DEF AdmissionInvariant, SearchInvariant, Begun
  <2>3. (AdmissionInvariant /\ nodes # <<>>)' => (SearchSized /\ SearchLeft \in Nat)'
    BY SearchIsSized, SearchCounted, PTL
  <2>4. Cardinality(Unvisited') \in 0..Size /\ RootsLeft' \in 0..Size /\ SearchLeft' \in Nat
    BY <1>r, <2>2, <2>3 DEF SearchSized
  <2>5. StillToLook' = {} /\ Len(stack') = 0
    BY <2>1 DEF StillToLook
  <2>6. Cardinality(StillToLook') = 0
    BY <2>5, FS_EmptySet
  <2>7. SearchLeft' = (2 * Size + 2) * Cardinality(Unvisited') + (Size + 1) * 0 + 0 + RootsLeft'
    BY <1>r, <2>5, <2>6 DEF SearchLeft
  <2>8. Cardinality(Unvisited') \in Nat /\ Cardinality(Unvisited') <= Size /\ 2 * Size + 2 \in Nat
    BY <1>s, <2>4
  <2>9. /\ (2 * Size + 2) * Cardinality(Unvisited') <= (2 * Size + 2) * Size
        /\ (2 * Size + 2) * Cardinality(Unvisited') \in Nat
    BY <1>s, <2>8, Charged
  <2>10. SearchLeft' <= SearchCeiling
    BY <1>s, <2>4, <2>7, <2>9 DEF SearchCeiling
  <2>11. AdmissionLeft = SortLeft + WalksCeiling + SearchCeiling + 1
    BY <2>1, LeftInPhase
  <2>12. (phase = "cycle" => AdmissionLeft = SortLeft + WalksCeiling + SearchLeft)'
    BY LeftInPhase, PTL
  <2>13. AdmissionLeft' = SortLeft + WalksCeiling + SearchLeft'
    BY <1>r, <2>1, <2>12
  <2> QED
    BY <1>c, <2>4, <2>10, <2>11, <2>13
<1>2. CASE SearchOver
  <2>1. /\ phase = "cycle" /\ phase' = "inputs" /\ nodes # <<>> /\ nodes' = nodes /\ at' = 1 /\ seen' = {}
        /\ pending' = nodes[1].depends_on
    BY <1>2 DEF SearchOver, AdmissionInvariant, SearchInvariant, WiringInvariant, Begun
  <2>2. Sized
    BY <2>1, NodesSized
  <2>3. 1 \in DOMAIN nodes
    BY <2>2 DEF Sized
  <2>4. Len(pending') \in Nat /\ Len(pending') <= Size
    BY <2>1, <2>3, ListSized
  <2>5. Ids' = Ids /\ Ids \ seen' = Ids
    BY <2>1, NodesFrame
  <2>6. Cardinality(Ids) \in Nat /\ Cardinality(Ids) <= Size
    BY <2>2 DEF Sized
  <2>7. WalksLeft' = WalkingCost(Size, Size, Cardinality(Ids), Len(pending'))
    <3>1. WalksLeft' = WalkingCost(Size', Size' + 1 - at', Cardinality(Ids' \ seen'), Len(pending'))
      BY DEF WalksLeft, WalkCost, WalkingCost
    <3>2. Size + 1 - 1 = Size
      BY <1>s
    <3> QED
      BY <1>r, <2>1, <2>5, <3>1, <3>2
  <2>8. WalksCeiling = WalkingCost(Size, Size + 1, 0, 0)
    <3>1. WalkingCost(Size, Size + 1, 0, 0) = (Size + 1) * (Size + 1) * (Size + 1) + (Size + 1) * 0 + 0
      BY DEF WalkingCost
    <3>2. WalksCeiling = (Size + 1) * (Size + 1) * (Size + 1)
      BY DEF WalksCeiling, WalkCost
    <3>3. WalksCeiling \in Nat /\ (Size + 1) * 0 = 0
      BY <1>s, <1>c
    <3> QED
      BY <3>1, <3>2, <3>3
  <2>9. WalkingCost(Size, Size, Cardinality(Ids), Len(pending')) < WalkingCost(Size, Size + 1, 0, 0)
    <3>1. Size + 1 \in Nat /\ 0 \in Nat
      BY <1>s
    <3> QED
      BY <1>s, <2>4, <2>6, <3>1, WalkingCosts
  <2>10. WalksLeft' \in Nat /\ SearchLeft \in Nat
    <3>1. (AdmissionInvariant /\ phase = "inputs")' => (WalksLeft \in Nat)'
      BY WalksCounted, PTL
    <3> QED
      BY <2>1, <3>1, SearchCounted
  <2>11. AdmissionLeft = SortLeft + WalksCeiling + SearchLeft
    BY <2>1, LeftInPhase
  <2>12. (phase = "inputs" => AdmissionLeft = SortLeft + WalksLeft)'
    BY LeftInPhase, PTL
  <2>13. AdmissionLeft' = SortLeft + WalksLeft'
    BY <1>r, <2>1, <2>12
  <2>14. WalksLeft' < WalksCeiling
    BY <2>7, <2>8, <2>9
  <2> QED
    BY <1>c, <2>10, <2>11, <2>13, <2>14
<1>3. CASE AcceptInputs
  <2>1. phase = "inputs" /\ phase' = "executors"
    BY <1>3 DEF AcceptInputs
  <2>2. AdmissionLeft = SortLeft + WalksLeft /\ WalksLeft \in Nat
    BY <2>1, LeftInPhase, WalksCounted
  <2>3. (phase = "executors" => AdmissionLeft = Size + 2)'
    BY LeftInPhase, PTL
  <2>4. AdmissionLeft' = Size + 2
    BY <1>r, <2>1, <2>3
  <2> QED
    BY <1>s, <1>c, <2>2, <2>4
<1>4. CASE AcceptExecutors
  <2>1. phase = "executors" /\ phase' = "order" /\ DOMAIN remaining' = Ids
    BY <1>4 DEF AcceptExecutors
  <2>2. nodes # <<>>
    BY <2>1 DEF AdmissionInvariant, SearchInvariant, Begun
  <2>3. Cardinality(Ids) \in Nat /\ Cardinality(Ids) <= Size
    BY <2>2, NodesSized DEF Sized
  <2>4. AdmissionLeft = Size + 2
    BY <2>1, LeftInPhase
  <2>5. (phase = "order" => AdmissionLeft = Cardinality(DOMAIN remaining) + 1)'
    BY LeftInPhase, PTL
  <2>6. AdmissionLeft' = Cardinality(Ids) + 1
    BY <2>1, <2>5
  <2> QED
    BY <1>s, <2>3, <2>4, <2>6
<1> QED
  BY <1>1, <1>2, <1>3, <1>4

\* The sort takes a node off what remains.
LEMMA SortShortens ==
  ASSUME AdmissionInvariant, TakeNext
  PROVE  AdmissionLeft' < AdmissionLeft
<1>1. phase = "order" /\ nodes # <<>> /\ DOMAIN remaining \in SUBSET Ids
  BY DEF TakeNext, AdmissionInvariant, SearchInvariant, Begun, TypeOK
<1>2. IsFiniteSet(DOMAIN remaining) /\ Cardinality(DOMAIN remaining) \in Nat
  BY <1>1, NodesSized DEF Sized
<1>3. AdmissionLeft = Cardinality(DOMAIN remaining) + 1
  BY <1>1, LeftInPhase
<1>4. CASE Ready = {}
  <2>1. AdmissionLeft' = 0
    BY <1>4, EndsWithNothing DEF TakeNext
  <2> QED
    BY <1>2, <1>3, <2>1
<1>5. CASE Ready # {}
  <2>1. PICK i \in DOMAIN nodes : nodes[i].id \in Ready /\ Take(nodes[i].id)
    BY <1>5 DEF TakeNext
  <2>2. nodes[i].id \in DOMAIN remaining /\ DOMAIN remaining' = DOMAIN remaining \ {nodes[i].id}
    BY <2>1 DEF Ready, Take
  <2>3. Cardinality(DOMAIN remaining') = Cardinality(DOMAIN remaining) - 1
    BY <1>2, <2>2, FS_RemoveElement
  <2>4. phase' = "order"
    BY <1>1, <1>5 DEF TakeNext
  <2>5. (phase = "order" => AdmissionLeft = Cardinality(DOMAIN remaining) + 1)'
    BY LeftInPhase, PTL
  <2>6. AdmissionLeft' = Cardinality(DOMAIN remaining')  + 1
    BY <2>4, <2>5
  <2> QED
    BY <1>2, <1>3, <2>3, <2>6
<1> QED
  BY <1>4, <1>5

\* Admission makes no more steps than its first pass announces, and each of them leaves
\* fewer: no cycle among the dependencies keeps find_cycle, ancestors or topological_order
\* going.
THEOREM AdmissionIsBounded == Spec => AdmissionBounded
<1>1. AdmissionInvariant /\ AdmissionInvariant' /\ [Next]_vars
        => [Proceed => AdmissionLeft' \in 0..(AdmissionLeft - 1)]_vars
  <2> SUFFICES ASSUME AdmissionInvariant, AdmissionInvariant', Proceed
               PROVE  AdmissionLeft' \in 0..(AdmissionLeft - 1)
    OBVIOUS
  <2>1. AdmissionLeft \in Nat /\ (phase # "done" => AdmissionLeft > 0)
    BY AdmissionCounted
  <2>2. AdmissionInvariant' => (AdmissionLeft \in Nat)'
    BY AdmissionCounted, PTL
  <2>3. AdmissionLeft' < AdmissionLeft
    <3>1. CASE RejectStructure \/ ReportCycle \/ RejectInputs \/ RejectExecutors \/ Admit
      <4>1. AdmissionLeft' = 0
        BY <3>1, EndsWithNothing DEF RejectStructure, ReportCycle, RejectInputs, RejectExecutors, Admit
      <4>2. phase # "done"
        BY <3>1 DEF RejectStructure, ReportCycle, Looking, RejectInputs, RejectExecutors, Admit
      <4> QED
        BY <2>1, <4>1, <4>2
    <3>2. CASE AcceptStructure \/ SearchOver \/ AcceptInputs \/ AcceptExecutors
      BY <3>2, PhaseShortens
    <3>3. CASE StartVisit \/ PassRoot \/ Descend \/ SkipDependency \/ Retreat
      <4>1. phase = "cycle" /\ phase' = "cycle" /\ raw' = raw
        BY <3>3 DEF StartVisit, PassRoot, Descend, SkipDependency, Retreat, Looking
      <4>2. nodes # <<>>
        BY <4>1 DEF AdmissionInvariant, SearchInvariant, Begun
      <4>3. SearchLeft' < SearchLeft
        BY <3>3, <4>2, SearchShortens
      <4>4. SortLeft' = SortLeft /\ WalksCeiling' = WalksCeiling
        BY <4>1 DEF SortLeft, WalksCeiling, WalkCost, Size
      <4>5. AdmissionLeft = SortLeft + WalksCeiling + SearchLeft
        BY <4>1, LeftInPhase
      <4>6. (phase = "cycle" => AdmissionLeft = SortLeft + WalksCeiling + SearchLeft)'
        BY LeftInPhase, PTL
      <4>7. AdmissionLeft' = SortLeft + WalksCeiling + SearchLeft'
        BY <4>1, <4>4, <4>6
      <4>8. Size \in Nat
        BY DEF AdmissionInvariant, TypeOK, IsSeq, Size
      <4>9. SortLeft + WalksCeiling \in Nat
        BY <4>8, Ceilings
      <4>10. (AdmissionInvariant /\ nodes # <<>>)' => (SearchLeft \in Nat)'
        BY SearchCounted, PTL
      <4>11. nodes' # <<>>
        BY <4>1 DEF AdmissionInvariant, SearchInvariant, Begun
      <4>12. SearchLeft \in Nat /\ SearchLeft' \in Nat
        BY <4>2, <4>10, <4>11, SearchCounted
      <4> QED
        BY <4>3, <4>5, <4>7, <4>9, <4>12, SumFalls
    <3>4. CASE SkipAncestor \/ AddAncestor \/ CheckInputs
      <4>1. phase = "inputs" /\ phase' = "inputs" /\ Size' = Size /\ WalksLeft' < WalksLeft
        BY <3>4, WalksShorten
      <4>2. AdmissionLeft = SortLeft + WalksLeft
        BY <4>1, LeftInPhase
      <4>3. (phase = "inputs" => AdmissionLeft = SortLeft + WalksLeft)'
        BY LeftInPhase, PTL
      <4>4. AdmissionLeft' = SortLeft + WalksLeft'
        BY <4>1, <4>3 DEF SortLeft
      <4>5. Size \in Nat
        BY DEF AdmissionInvariant, TypeOK, IsSeq, Size
      <4>6. SortLeft \in Nat
        BY <4>5, Ceilings
      <4>7. (AdmissionInvariant /\ phase = "inputs")' => (WalksLeft \in Nat)'
        BY WalksCounted, PTL
      <4>8. WalksLeft \in Nat /\ WalksLeft' \in Nat
        BY <4>1, <4>7, WalksCounted
      <4> QED
        BY <4>1, <4>2, <4>4, <4>6, <4>8, SumFalls
    <3>5. CASE TakeNext
      BY <3>5, SortShortens
    <3> QED
      BY <3>1, <3>2, <3>3, <3>4, <3>5 DEF Proceed
  <2> QED
    BY <2>1, <2>2, <2>3
<1> QED
  BY <1>1, AdmissionInductive, PTL DEF Spec, AdmissionBounded
=============================================================================
