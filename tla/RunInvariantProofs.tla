------------------------- MODULE RunInvariantProofs -------------------------
(***************************************************************************)
(* RunInvariant is inductive, and with it the promises about starting      *)
(* nodes hold for every graph.  A record stays Coherent when each node     *)
(* makes a safe move; one lemma per helper shows that it does.             *)
(***************************************************************************)
EXTENDS RunProofs

\* n may be started, or has been.
Admitted(r, n) == Begun(r, n) \/ r.nodes[n].status = "READY"

\* From r to q node n moves only as a coherent record allows.
SafeMove(r, q, n) ==
  /\ q.nodes[n].wait = "approval" => q.nodes[n].status = "READY"
  /\ q.nodes[n].wait \in {"submission", "review", "attention"} => q.nodes[n].status = "RUNNING"
  /\ r.nodes[n].status = "SUCCEEDED" => q.nodes[n].status = "SUCCEEDED"
  /\ Admitted(q, n) => Admitted(r, n) \/ (PlanCleared(r) /\ DependenciesMet(r, n))
  /\ Begun(q, n) => \/ Begun(r, n)
                    \/ \A g \in GatesOf(n, "approval") : r.gates[g].decision = "APPROVED"

\* A run's own status and plan agree.
PlanStanding(r) ==
  /\ r.status = "DRAFT" => r.plan = "none"
  /\ r.status \notin {"DRAFT", "CANCELLED"} => PlanCleared(r)

-----------------------------------------------------------------------------
(* Coherence of one record.                                                *)

\* Safe moves of the nodes keep a record coherent.
LEMMA CoherentMove ==
  ASSUME NEW r \in Run, NEW q \in Run, Coherent(r),
         PlanStanding(q), PlanCleared(r) => PlanCleared(q), q.gates = r.gates,
         \A n \in Nodes : SafeMove(r, q, n)
  PROVE  Coherent(q)
<1>1. DependsOn \in [Nodes -> SUBSET Nodes]
  BY OrderAssumption
<1>2. ASSUME NEW n \in Nodes, Admitted(r, n)
      PROVE  PlanCleared(r) /\ DependenciesMet(r, n)
  BY <1>2 DEF Coherent, Admitted, DependenciesMet
<1>3. ASSUME NEW n \in Nodes, Admitted(q, n)
      PROVE  PlanCleared(q) /\ \A d \in DependsOn[n] : q.nodes[d].status = "SUCCEEDED"
  <2>1. PlanCleared(r) /\ DependenciesMet(r, n)
    BY <1>2, <1>3 DEF SafeMove
  <2> QED
    BY <1>1, <2>1 DEF DependenciesMet, SafeMove
<1>4. ASSUME NEW n \in Nodes, Begun(q, n), NEW g \in GatesOf(n, "approval")
      PROVE  q.gates[g].decision = "APPROVED"
  BY <1>4 DEF SafeMove, Coherent
<1> QED
  BY <1>3, <1>4 DEF Coherent, SafeMove, PlanStanding, Admitted

\* A node that does not move moves safely.
LEMMA StayingIsSafe ==
  ASSUME NEW r, NEW q, Coherent(r), NEW n \in Nodes, q.nodes[n] = r.nodes[n]
  PROVE  SafeMove(r, q, n)
BY DEF SafeMove, Coherent, Admitted, Begun

\* _record_failure, of a node that has not succeeded.
LEMMA FailNodeKeeps ==
  ASSUME NEW r \in Run, Coherent(r), NEW n \in Nodes, r.nodes[n].status # "SUCCEEDED"
  PROVE  /\ Coherent(FailNode(r, n))
         /\ FailNode(r, n).status = r.status
         /\ FailNode(r, n).nodes[n].status = "FAILED"
         /\ \A m \in Nodes : FailNode(r, n).nodes[m].status \in {"PENDING", "READY"}
                               => r.nodes[m].status = FailNode(r, n).nodes[m].status
<1> DEFINE q == FailNode(r, n)
<1>1. q \in Run
  BY FailNodeType
<1>2. q.status = r.status /\ q.plan = r.plan /\ q.gates = r.gates
  BY DEF FailNode, Run
<1>3. ASSUME NEW m \in Nodes
      PROVE  /\ q.nodes[m].attempts = r.nodes[m].attempts
             /\ \/ m # n /\ q.nodes[m] = r.nodes[m]
                \/ m = n /\ q.nodes[m].status = "FAILED" /\ q.nodes[m].wait = "none"
                \/ m # n /\ r.nodes[m].status = "RUNNING"
                   /\ q.nodes[m].status = "SKIPPED" /\ q.nodes[m].wait = "none"
  <2>1. r.nodes[m] \in NodeState
    BY DEF Run
  <2> QED
    BY <2>1 DEF FailNode, Skipped, Run, NodeState
<1>4. ASSUME NEW m \in Nodes PROVE SafeMove(r, q, m)
  <2>1. CASE q.nodes[m] = r.nodes[m]
    BY <2>1, StayingIsSafe
  <2>2. CASE q.nodes[m].status \in {"FAILED", "SKIPPED"} /\ q.nodes[m].wait = "none"
    BY <1>3, <2>2 DEF SafeMove, Admitted, Begun
  <2> QED
    BY <1>3, <2>1, <2>2
<1>5. PlanStanding(q) /\ (PlanCleared(r) => PlanCleared(q))
  BY <1>2 DEF PlanStanding, PlanCleared, Coherent
<1>6. Coherent(q)
  BY <1>1, <1>2, <1>4, <1>5, CoherentMove
<1> QED
  BY <1>2, <1>3, <1>6

\* _skip_open_nodes, then CANCELLED: cancel, or a plan denied before anything ran.
LEMMA SkippedCoherent ==
  ASSUME NEW r \in Run, Coherent(r), NEW q \in Run,
         q.nodes = SkipOpenNodes(r).nodes, q.gates = r.gates,
         q.status = "CANCELLED", PlanCleared(r) => PlanCleared(q)
  PROVE  Coherent(q) /\ \A n \in Nodes : q.nodes[n].status \in NodeTerminal
<1>1. ASSUME NEW n \in Nodes
      PROVE  \/ q.nodes[n] = r.nodes[n] /\ q.nodes[n].status \in NodeTerminal
             \/ /\ r.nodes[n].status \notin NodeTerminal
                /\ q.nodes[n].status = "SKIPPED" /\ q.nodes[n].wait = "none"
                /\ q.nodes[n].attempts = r.nodes[n].attempts
  <2>1. r.nodes[n] \in NodeState
    BY DEF Run
  <2>2. q.nodes[n] = IF Open(r, n) THEN Skipped(r.nodes[n]) ELSE r.nodes[n]
    BY DEF SkipOpenNodes, Run
  <2> QED
    BY <2>1, <2>2 DEF Open, Skipped, NodeState
<1>2. ASSUME NEW n \in Nodes PROVE SafeMove(r, q, n)
  <2>1. CASE q.nodes[n] = r.nodes[n]
    BY <2>1, StayingIsSafe
  <2>2. CASE r.nodes[n].status \notin NodeTerminal /\ q.nodes[n].status = "SKIPPED"
    BY <1>1, <2>2 DEF SafeMove, Admitted, Begun, NodeTerminal
  <2> QED
    BY <1>1, <2>1, <2>2
<1>3. PlanStanding(q)
  BY DEF PlanStanding
<1>4. Coherent(q)
  BY <1>2, <1>3, CoherentMove
<1> QED
  BY <1>1, <1>4 DEF NodeTerminal

\* _refresh_readiness of one node of a started run.
LEMMA RefreshedKeeps ==
  ASSUME NEW r \in Run, Coherent(r), NEW n \in Nodes, r.status \notin {"DRAFT", "CANCELLED"},
         NEW q, q = [r EXCEPT !.nodes[n] = Refreshed(r, n)]
  PROVE  /\ Coherent(q)
         /\ q.nodes[n].status \in {"PENDING", "READY"} => r.nodes[n].status \in {"PENDING", "READY"}
<1>1. Refreshed(r, n) \in NodeState /\ r.nodes[n] \in NodeState
  BY RefreshedType DEF Run
<1>2. q \in Run
  BY <1>1, NodeUpdateType
<1>3. /\ q.nodes[n] = Refreshed(r, n) /\ \A m \in Nodes \ {n} : q.nodes[m] = r.nodes[m]
      /\ q.status = r.status /\ q.plan = r.plan /\ q.gates = r.gates
  BY DEF Run
<1>4. PlanCleared(r)
  BY DEF Coherent
<1> DEFINE s == r.nodes[n]
           t == Refreshed(r, n)
<1>5. \/ t = s
      \/ s.status \in {"PENDING", "READY"} /\ t.status \in {"SKIPPED", "BLOCKED"}
         /\ t.wait = "none" /\ t.attempts = s.attempts
      \/ s.status = "PENDING" /\ DependenciesMet(r, n) /\ t.status = "READY"
         /\ t.wait = s.wait /\ t.attempts = s.attempts
  <2>1. CASE s.status \notin {"PENDING", "READY"}
    BY <2>1 DEF Refreshed
  <2>2. CASE s.status \in {"PENDING", "READY"} /\ r.stopped
    <3>1. t = Skipped(s)
      BY <2>2, SMT DEF Refreshed
    <3> QED
      BY <1>1, <2>2, <3>1 DEF Skipped, NodeState
  <2>3. CASE s.status \in {"PENDING", "READY"} /\ ~r.stopped /\ BadDependency(r, n)
    <3>1. t = [s EXCEPT !.status = "BLOCKED", !.wait = "none"]
      <4>1. ~DependenciesMet(r, n)
        BY <2>3 DEF BadDependency, DependenciesMet
      <4> QED
        BY <2>3, <4>1, SMT DEF Refreshed
    <3> QED
      BY <1>1, <2>3, <3>1 DEF NodeState
  <2>4. CASE /\ s.status \in {"PENDING", "READY"} /\ ~r.stopped /\ ~BadDependency(r, n)
             /\ s.status = "PENDING" /\ DependenciesMet(r, n)
    <3>1. t = [s EXCEPT !.status = "READY"]
      BY <2>4, SMT DEF Refreshed
    <3> QED
      BY <1>1, <2>4, <3>1 DEF NodeState
  <2>5. CASE /\ s.status \in {"PENDING", "READY"} /\ ~r.stopped /\ ~BadDependency(r, n)
             /\ ~(s.status = "PENDING" /\ DependenciesMet(r, n))
    BY <2>5, SMT DEF Refreshed
  <2> QED
    BY <2>1, <2>2, <2>3, <2>4, <2>5
<1>6. SafeMove(r, q, n)
  <2>1. CASE t = s
    BY <1>3, <2>1, StayingIsSafe
  <2>2. CASE s.status \in {"PENDING", "READY"} /\ t.status \in {"SKIPPED", "BLOCKED"}
             /\ t.wait = "none" /\ t.attempts = s.attempts
    BY <1>3, <2>2 DEF SafeMove, Admitted, Begun
  <2>3. CASE s.status = "PENDING" /\ DependenciesMet(r, n) /\ t.status = "READY"
             /\ t.wait = s.wait /\ t.attempts = s.attempts
    <3>1. t.wait \notin {"submission", "review", "attention"}
      BY <2>3 DEF Coherent
    <3> QED
      BY <1>3, <1>4, <2>3, <3>1 DEF SafeMove, Admitted, Begun
  <2> QED
    BY <1>5, <2>1, <2>2, <2>3
<1>7. \A m \in Nodes : SafeMove(r, q, m)
  BY <1>3, <1>6, StayingIsSafe
<1>8. Coherent(q)
  <2>1. PlanStanding(q) /\ (PlanCleared(r) => PlanCleared(q))
    BY <1>3 DEF PlanStanding, PlanCleared, Coherent
  <2> QED
    BY <1>2, <1>3, <1>7, <2>1, CoherentMove
<1> QED
  BY <1>3, <1>5, <1>8

\* _complete_attempt of a running node nobody waits for: it succeeds, waits for its
\* review, fails or, only when it is safe to repeat, is READY again.
LEMMA CompleteAttemptKeeps ==
  ASSUME NEW r \in Run, Coherent(r), NEW n \in Nodes, NEW result \in Results,
         r.nodes[n].status = "RUNNING", r.nodes[n].wait = "none",
         NEW q, q = CompleteAttempt(r, n, result)
  PROVE  /\ Coherent(q) /\ q.status = r.status
         /\ \A m \in Nodes : q.nodes[m].status \in {"PENDING", "READY"} =>
              r.nodes[m].status \in {"PENDING", "READY"} \/ (m = n /\ n \notin Unsafe)
<1> DEFINE stored == [r EXCEPT !.nodes[n].outputs = result.outputs]
           outcome == Outcome(result)
<1>1. q \in Run /\ r.nodes[n] \in NodeState
  BY CompleteAttemptType DEF Run
<1>2. CASE q = FailNode(r, n)
  BY <1>2, FailNodeKeeps
<1>3. ASSUME q # FailNode(r, n)
      PROVE  /\ q.status = r.status /\ q.plan = r.plan /\ q.gates = r.gates
             /\ \A m \in Nodes \ {n} : q.nodes[m] = r.nodes[m]
             /\ q.nodes[n].attempts = r.nodes[n].attempts
             /\ \/ q.nodes[n].status = "RUNNING" /\ q.nodes[n].wait = "review"
                \/ q.nodes[n].status = "SUCCEEDED" /\ q.nodes[n].wait = "none"
                \/ q.nodes[n].status = "READY" /\ q.nodes[n].wait = "none" /\ n \notin Unsafe
  <2>1. CASE outcome = "SUCCESS" /\ PendingGates(stored, n, "review") # {}
    <3>1. q = [stored EXCEPT !.nodes[n].wait = "review"]
      BY <2>1 DEF CompleteAttempt
    <3> QED
      BY <1>1, <3>1 DEF Run, NodeState
  <2>2. CASE outcome = "SUCCESS" /\ PendingGates(stored, n, "review") = {}
    <3>1. q = [stored EXCEPT !.nodes[n].status = "SUCCEEDED"]
      BY <2>2 DEF CompleteAttempt
    <3> QED
      BY <1>1, <3>1 DEF Run, NodeState
  <2>3. CASE outcome # "SUCCESS" /\ RetryAllowed(r, n, outcome)
    <3>1. q = [r EXCEPT !.nodes[n].status = "READY"]
      BY <2>3 DEF CompleteAttempt
    <3>2. n \notin Unsafe
      BY <2>3 DEF RetryAllowed, Unsafe
    <3> QED
      BY <1>1, <3>1, <3>2 DEF Run, NodeState
  <2>4. CASE outcome # "SUCCESS" /\ ~RetryAllowed(r, n, outcome)
    <3>1. q = FailNode(r, n)
      BY <2>4 DEF CompleteAttempt
    <3> QED
      BY <1>3, <3>1
  <2> QED
    BY <2>1, <2>2, <2>3, <2>4
<1>4. CASE q # FailNode(r, n)
  <2>1. SafeMove(r, q, n)
    BY <1>3, <1>4 DEF SafeMove, Admitted, Begun
  <2>2. \A m \in Nodes : SafeMove(r, q, m)
    BY <1>3, <1>4, <2>1, StayingIsSafe
  <2>3. PlanStanding(q) /\ (PlanCleared(r) => PlanCleared(q))
    BY <1>3, <1>4 DEF PlanStanding, PlanCleared, Coherent
  <2>4. Coherent(q)
    BY <1>1, <1>3, <1>4, <2>2, <2>3, CoherentMove
  <2> QED
    BY <1>3, <1>4, <2>4
<1> QED
  BY <1>2, <1>4

\* resume()'s recovery: interrupted nodes stay admitted, unsafe ones stay RUNNING.
LEMMA RecoveredKeeps ==
  ASSUME NEW r \in Run, Coherent(r), NEW q, q = Recovered(r)
  PROVE  /\ Coherent(q) /\ q.status = r.status
         /\ \A m \in Nodes : q.nodes[m].status \in {"PENDING", "READY"} =>
              r.nodes[m].status \in {"PENDING", "READY"} \/ m \notin Unsafe
<1>1. q \in Run
  BY RecoveredType
<1>2. q.status = r.status /\ q.plan = r.plan /\ q.gates = r.gates
  BY DEF Recovered, Run
<1>3. ASSUME NEW m \in Nodes
      PROVE  \/ q.nodes[m] = r.nodes[m]
             \/ /\ r.nodes[m].status = "RUNNING" /\ r.nodes[m].wait = "none"
                /\ q.nodes[m].attempts = r.nodes[m].attempts
                /\ \/ q.nodes[m].status = "RUNNING" /\ q.nodes[m].wait = "attention"
                   \/ q.nodes[m].status = "READY" /\ q.nodes[m].wait = "none" /\ m \notin Unsafe
  <2>1. r.nodes[m] \in NodeState
    BY DEF Run
  <2>2. q.nodes[m] = IF ~Interrupted(r, m) THEN r.nodes[m]
                     ELSE IF m \in Unsafe THEN [r.nodes[m] EXCEPT !.wait = "attention"]
                     ELSE [r.nodes[m] EXCEPT !.status = "READY"]
    BY DEF Recovered, Run
  <2> QED
    BY <2>1, <2>2 DEF Interrupted, NodeState
<1>4. ASSUME NEW m \in Nodes PROVE SafeMove(r, q, m)
  <2>1. CASE q.nodes[m] = r.nodes[m]
    BY <2>1, StayingIsSafe
  <2>2. CASE q.nodes[m] # r.nodes[m]
    BY <1>3, <2>2 DEF SafeMove, Admitted, Begun
  <2> QED
    BY <2>1, <2>2
<1>5. PlanStanding(q) /\ (PlanCleared(r) => PlanCleared(q))
  BY <1>2 DEF PlanStanding, PlanCleared, Coherent
<1>6. Coherent(q)
  BY <1>1, <1>2, <1>4, <1>5, CoherentMove
<1> QED
  BY <1>2, <1>3, <1>6

\* An approval gate still pending belongs to a node that never started.
LEMMA PendingMeansUnbegun ==
  ASSUME NEW r \in Run, Coherent(r), NEW g \in Gates, GateType[g] = "approval", IsPendingGate(r, g)
  PROVE  ~Begun(r, GateNode[g])
<1> SUFFICES ASSUME Begun(r, GateNode[g]) PROVE FALSE
  OBVIOUS
<1>1. GateNode[g] \in Nodes /\ g \in GatesOf(GateNode[g], "approval")
  BY GateAssumption DEF GatesOf
<1>2. r.gates[g].decision = "APPROVED" /\ r.gates[g].binding = NoOutput
  BY <1>1 DEF Coherent
<1>3. r.gates[g] = [decision |-> "APPROVED", binding |-> NoOutput]
  BY <1>2 DEF Run, GateState
<1>4. Approved(r, g)
  BY <1>3 DEF Approved, Binding
<1> QED
  BY <1>4 DEF IsPendingGate, PendingGates

\* Recording a decision on a gate that awaits one.
LEMMA DecidedCoherent ==
  ASSUME NEW r \in Run, Coherent(r), NEW g \in Gates, IsPendingGate(r, g),
         NEW decision \in {"APPROVED", "DENIED"}
  PROVE  Coherent(Decided(r, g, decision))
<1> DEFINE d == Decided(r, g, decision)
<1>1. /\ d \in Run /\ d.nodes = r.nodes /\ d.status = r.status /\ d.plan = r.plan
      /\ d.gates = [r.gates EXCEPT ![g] = [decision |-> decision, binding |-> Binding(r, g)]]
  BY DecidedType, ZenonT(60)
<1>2. r.gates \in [Gates -> GateState]
  BY DEF Run
<1>3. ASSUME NEW h \in Gates, GateType[h] = "approval" PROVE d.gates[h].binding = NoOutput
  <2>1. CASE h = g
    BY <1>1, <1>2, <1>3, <2>1 DEF Binding
  <2>2. CASE h # g
    BY <1>1, <1>2, <1>3, <2>2 DEF Coherent
  <2> QED
    BY <2>1, <2>2
<1>4. ASSUME NEW n \in Nodes, Begun(d, n), NEW h \in GatesOf(n, "approval")
      PROVE  d.gates[h].decision = "APPROVED"
  <2>1. Begun(r, n) /\ h \in Gates /\ GateNode[h] = n /\ GateType[h] = "approval"
    BY <1>1, <1>4 DEF Begun, GatesOf
  <2>2. h # g
    BY <2>1, PendingMeansUnbegun
  <2>3. r.gates[h].decision = "APPROVED"
    BY <2>1, <1>4 DEF Coherent
  <2> QED
    BY <1>1, <1>2, <2>1, <2>2, <2>3
<1> QED
  BY <1>1, <1>3, <1>4 DEF Coherent, PlanCleared, Begun

\* decide() on a gate: the node waiting for it goes on, fails or completes.
LEMMA GateDecidedKeeps ==
  ASSUME NEW r \in Run, Coherent(r), NEW g \in Gates, AwaitsDecision(r, g),
         NEW decision \in {"APPROVED", "DENIED"}, NEW q, q = GateDecided(r, g, decision)
  PROVE  /\ Coherent(q) /\ q.status = r.status
         /\ \A m \in Nodes : q.nodes[m].status \in {"PENDING", "READY"} =>
              r.nodes[m].status \in {"PENDING", "READY"}
<1> DEFINE n == GateNode[g]
           d == Decided(r, g, decision)
<1>1. n \in Nodes /\ GateType[g] \in {"approval", "review"}
  BY GateAssumption DEF GateTypes
<1>2. d \in Run /\ Coherent(d) /\ d.nodes = r.nodes /\ d.status = r.status /\ d.plan = r.plan
  BY DecidedType, DecidedCoherent, ZenonT(60) DEF AwaitsDecision
<1>3. d.nodes[n].wait = GateType[g] /\ d.nodes[n] \in NodeState
  BY <1>1, <1>2 DEF AwaitsDecision, Run
<1>4. /\ d.nodes[n].status \in {"READY", "RUNNING"}
      /\ GateType[g] = "review" => d.nodes[n].status = "RUNNING"
  BY <1>1, <1>2, <1>3 DEF Coherent
<1>5. CASE q = FailNode(d, n)
  BY <1>1, <1>2, <1>4, <1>5, FailNodeKeeps
<1>6. CASE q = d
  BY <1>2, <1>6
<1>7. ASSUME \/ q = [d EXCEPT !.nodes[n].wait = "none"]
             \/ GateType[g] = "review" /\ q = [d EXCEPT !.nodes[n].wait = "none", !.nodes[n].status = "SUCCEEDED"]
      PROVE  /\ Coherent(q) /\ q.status = r.status
             /\ \A m \in Nodes : q.nodes[m].status \in {"PENDING", "READY"} =>
                  r.nodes[m].status \in {"PENDING", "READY"}
  <2>1. q \in Run
    BY GateDecidedType
  <2>2. /\ q.status = d.status /\ q.plan = d.plan /\ q.gates = d.gates
        /\ \A m \in Nodes \ {n} : q.nodes[m] = d.nodes[m]
        /\ q.nodes[n].wait = "none" /\ q.nodes[n].attempts = d.nodes[n].attempts
        /\ \/ q.nodes[n].status = d.nodes[n].status
           \/ q.nodes[n].status = "SUCCEEDED" /\ d.nodes[n].status = "RUNNING"
    <3>1. CASE q = [d EXCEPT !.nodes[n].wait = "none"]
      BY <1>1, <1>2, <1>3, <3>1 DEF Run, NodeState
    <3>2. CASE GateType[g] = "review" /\ q = [d EXCEPT !.nodes[n].wait = "none", !.nodes[n].status = "SUCCEEDED"]
      BY <1>1, <1>2, <1>3, <1>4, <3>2 DEF Run, NodeState
    <3> QED
      BY <1>7, <3>1, <3>2
  <2>3. SafeMove(d, q, n)
    BY <2>2 DEF SafeMove, Admitted, Begun
  <2>4. \A m \in Nodes : SafeMove(d, q, m)
    BY <1>2, <2>2, <2>3, StayingIsSafe
  <2>5. PlanStanding(q) /\ (PlanCleared(d) => PlanCleared(q))
    BY <1>2, <2>2 DEF PlanStanding, PlanCleared, Coherent
  <2>6. Coherent(q)
    BY <1>2, <2>1, <2>2, <2>4, <2>5, CoherentMove
  <2> QED
    BY <1>2, <2>2, <2>6
<1>8. \/ q = FailNode(d, n) \/ q = d \/ q = [d EXCEPT !.nodes[n].wait = "none"]
      \/ GateType[g] = "review" /\ q = [d EXCEPT !.nodes[n].wait = "none", !.nodes[n].status = "SUCCEEDED"]
  BY <1>1 DEF GateDecided
<1> QED
  BY <1>5, <1>6, <1>7, <1>8

-----------------------------------------------------------------------------
(* RunInvariant is inductive.                                              *)

\* The initial records have started nothing.
LEMMA InvariantInit == Init => RunInvariant
<1> SUFFICES ASSUME Init PROVE RunInvariant
  OBVIOUS
<1>1. Coherent(NewRun("DRAFT", "none")) /\ Coherent(NewRun("APPROVED", "NOT_REQUIRED"))
  BY DEF Coherent, NewRun, Begun, PlanCleared
<1>2. Coherent(disk) /\ Coherent(mem)
  BY <1>1 DEF Init
<1>3. OrderStanding(disk) /\ OrderStanding(mem)
  BY DEF Init, OrderStanding, Unsafe
<1> QED
  BY <1>2, <1>3 DEF Init, RunInvariant

\* A request begins: the disk still holds what was loaded, memory the record to work on.
LEMMA RequestBegins ==
  ASSUME RunInvariant, pc = "idle", disk' = disk, Coherent(mem'),
         authorised \subseteq authorised', replayed' = replayed,
         \A m \in Unsafe : mem'.nodes[m].status \in {"PENDING", "READY"} =>
           disk.nodes[m].status \in {"PENDING", "READY"} \/ m \in authorised',
         pc' \in {"save", "attest", "refresh", "resettle"},
         pc' \in {"refresh", "resettle"} => mem'.status \notin {"DRAFT", "CANCELLED"}
  PROVE  RunInvariant'
<1>1. \A m \in Unsafe : disk.nodes[m].status \in {"PENDING", "READY"} => m \in authorised'
  BY DEF RunInvariant, OrderStanding
<1>2. Coherent(disk')
  BY DEF RunInvariant
<1> QED
  BY <1>1, <1>2 DEF RunInvariant, OrderStanding

\* A run some node of which is admitted is no longer a draft.
LEMMA AdmittedMeansPlanned ==
  ASSUME NEW r \in Run, Coherent(r), NEW n \in Nodes, Admitted(r, n)
  PROVE  r.status # "DRAFT"
<1>1. PlanCleared(r)
  BY DEF Coherent, Admitted
<1> QED
  BY <1>1 DEF Coherent, PlanCleared

\* The operator's requests keep the invariant.
LEMMA InvariantRequest == TypeOK /\ RunInvariant /\ Request => RunInvariant'
<1> SUFFICES ASSUME TypeOK, RunInvariant, Request PROVE RunInvariant'
  OBVIOUS
<1>t. disk \in Run /\ Coherent(disk) /\ Unsafe \subseteq Nodes
  BY DEF TypeOK, RunInvariant, Unsafe
<1>1. ASSUME NEW decision \in {"APPROVED", "DENIED"}, DecidePlan(decision) PROVE RunInvariant'
  <2>1. pc = "idle" /\ disk' = disk /\ authorised' = authorised /\ replayed' = replayed /\ pc' = "save"
        /\ disk.status = "DRAFT" /\ disk.plan = "none" /\ mem' \in Run
    BY <1>t, <1>1, TypeRequest DEF DecidePlan, Requested, Coherent, Request, TypeOK
  <2>2. CASE decision = "APPROVED"
    <3>1. mem' = [disk EXCEPT !.status = "APPROVED", !.plan = "APPROVED"]
      BY <1>1, <2>2 DEF DecidePlan
    <3>2. /\ mem'.nodes = disk.nodes /\ mem'.gates = disk.gates
          /\ mem'.status = "APPROVED" /\ mem'.plan = "APPROVED"
      BY <1>t, <3>1 DEF Run
    <3>3. Coherent(mem')
      BY <1>t, <3>2 DEF Coherent, PlanCleared, Begun
    <3> QED
      BY <2>1, <3>2, <3>3, RequestBegins
  <2>3. CASE decision = "DENIED"
    <3>1. mem' = [SkipOpenNodes(disk) EXCEPT !.status = "CANCELLED", !.plan = "DENIED"]
      BY <1>1, <2>3 DEF DecidePlan
    <3>2. mem'.nodes = SkipOpenNodes(disk).nodes /\ mem'.gates = disk.gates /\ mem'.status = "CANCELLED"
      BY <1>t, <3>1 DEF Run, SkipOpenNodes
    <3>3. ~PlanCleared(disk)
      BY <2>1 DEF PlanCleared
    <3>4. Coherent(mem') /\ \A n \in Nodes : mem'.nodes[n].status \in NodeTerminal
      BY <1>t, <2>1, <3>2, <3>3, SkippedCoherent
    <3> QED
      BY <1>t, <2>1, <3>4, RequestBegins DEF NodeTerminal
  <2> QED
    BY <2>2, <2>3
<1>2. ASSUME NEW decision \in {"APPROVED", "DENIED"}, NEW g \in Gates, DecideGate(g, decision)
      PROVE  RunInvariant'
  <2>1. pc = "idle" /\ disk' = disk /\ authorised' = authorised /\ replayed' = replayed
        /\ AwaitsDecision(disk, g) /\ mem' = GateDecided(disk, g, decision)
        /\ pc' \in {"refresh", "resettle"}
    BY <1>2 DEF DecideGate, Requested, BeginAdvance, BeginSettle
  <2>2. /\ Coherent(mem') /\ mem'.status = disk.status
        /\ \A m \in Nodes : mem'.nodes[m].status \in {"PENDING", "READY"} =>
             disk.nodes[m].status \in {"PENDING", "READY"}
    BY <1>t, <2>1, GateDecidedKeeps
  <2>3. disk.status \notin {"DRAFT", "CANCELLED"}
    <3>1. GateNode[g] \in Nodes /\ disk.nodes[GateNode[g]].wait \in {"approval", "review"}
      BY <2>1, GateAssumption DEF AwaitsDecision, GateTypes
    <3>2. Admitted(disk, GateNode[g])
      BY <1>t, <3>1 DEF Coherent, Admitted, Begun
    <3> QED
      BY <1>t, <2>1, <3>1, <3>2, AdmittedMeansPlanned DEF AwaitsDecision, RunTerminal
  <2> QED
    BY <1>t, <2>1, <2>2, <2>3, RequestBegins
<1>3. ASSUME NEW n \in Nodes, NEW result \in Results, Submit(n, result) PROVE RunInvariant'
  <2> DEFINE r == [disk EXCEPT !.nodes[n].wait = "none"]
  <2>1. pc = "idle" /\ disk' = disk /\ authorised' = authorised /\ replayed' = replayed
        /\ AwaitsSubmission(disk, n) /\ mem' = CompleteAttempt(r, n, result) /\ pc' = "refresh"
    BY <1>3 DEF Submit, Requested, BeginAdvance
  <2>2. disk.nodes[n] \in NodeState /\ disk.nodes[n].status = "RUNNING"
    BY <1>t, <2>1 DEF AwaitsSubmission, Run
  <2>3. [disk.nodes[n] EXCEPT !.wait = "none"] \in NodeState
    BY <2>2 DEF NodeState, Waits
  <2>4. /\ r \in Run /\ r.status = disk.status /\ r.plan = disk.plan /\ r.gates = disk.gates
        /\ \A m \in Nodes \ {n} : r.nodes[m] = disk.nodes[m]
        /\ r.nodes[n].status = "RUNNING" /\ r.nodes[n].wait = "none"
        /\ r.nodes[n].attempts = disk.nodes[n].attempts
    BY <1>t, <2>2, <2>3 DEF Run, NodeState
  <2>5. SafeMove(disk, r, n)
    BY <2>2, <2>4 DEF SafeMove, Admitted, Begun
  <2>6. \A m \in Nodes : SafeMove(disk, r, m)
    BY <1>t, <2>4, <2>5, StayingIsSafe
  <2>7. Coherent(r)
    <3>1. PlanStanding(r) /\ (PlanCleared(disk) => PlanCleared(r))
      BY <1>t, <2>4 DEF PlanStanding, PlanCleared, Coherent
    <3> QED
      BY <1>t, <2>4, <2>6, <3>1, CoherentMove
  <2> HIDE DEF r
  <2>8. /\ Coherent(mem') /\ mem'.status = r.status
        /\ \A m \in Nodes : mem'.nodes[m].status \in {"PENDING", "READY"} =>
             r.nodes[m].status \in {"PENDING", "READY"} \/ (m = n /\ n \notin Unsafe)
    BY <2>1, <2>4, <2>7, CompleteAttemptKeeps
  <2>9. disk.status \notin {"DRAFT", "CANCELLED"}
    BY <1>t, <2>1, <2>2, AdmittedMeansPlanned DEF Admitted, Begun, AwaitsSubmission, RunTerminal
  <2>10. \A m \in Unsafe : mem'.nodes[m].status \in {"PENDING", "READY"} =>
           disk.nodes[m].status \in {"PENDING", "READY"}
    BY <1>t, <2>4, <2>8
  <2> QED
    BY <2>1, <2>4, <2>8, <2>9, <2>10, RequestBegins
<1>4. ASSUME NEW n \in Nodes, RetryNode(n) PROVE RunInvariant'
  <2>1. pc = "idle" /\ disk' = disk /\ authorised' = authorised \cup {n} /\ replayed' = replayed
        /\ disk.nodes[n].wait = "attention" /\ pc' = "refresh"
        /\ mem' = [disk EXCEPT !.status = "RUNNING", !.nodes[n].wait = "none", !.nodes[n].status = "READY"]
    BY <1>4 DEF RetryNode, Requested, BeginAdvance
  <2>2. disk.nodes[n] \in NodeState /\ disk.nodes[n].status = "RUNNING"
    BY <1>t, <2>1 DEF Coherent, Run
  <2>3. mem' \in Run
    BY <1>4, TypeRequest DEF Request, TypeOK
  <2>4. /\ mem'.status = "RUNNING" /\ mem'.plan = disk.plan /\ mem'.gates = disk.gates
        /\ \A m \in Nodes \ {n} : mem'.nodes[m] = disk.nodes[m]
        /\ mem'.nodes[n].status = "READY" /\ mem'.nodes[n].wait = "none"
        /\ mem'.nodes[n].attempts = disk.nodes[n].attempts
    BY <1>t, <2>1, <2>2 DEF Run, NodeState
  <2>5. SafeMove(disk, mem', n)
    BY <2>2, <2>4 DEF SafeMove, Admitted, Begun
  <2>6. \A m \in Nodes : SafeMove(disk, mem', m)
    BY <1>t, <2>4, <2>5, StayingIsSafe
  <2>7. Coherent(mem')
    <3>1. PlanCleared(disk)
      BY <1>t, <2>2 DEF Coherent, Begun
    <3>2. PlanStanding(mem') /\ PlanCleared(mem')
      BY <2>4, <3>1 DEF PlanStanding, PlanCleared
    <3> QED
      BY <1>t, <2>3, <2>4, <2>6, <3>2, CoherentMove
  <2> QED
    BY <1>t, <2>1, <2>4, <2>7, RequestBegins
<1>5. CASE Execute
  <2>1. pc = "idle" /\ disk' = disk /\ authorised' = authorised /\ replayed' = replayed
        /\ disk.status \notin {"DRAFT", "CANCELLED"} /\ mem' = [disk EXCEPT !.status = "RUNNING"]
        /\ pc' = "refresh"
    BY <1>5 DEF Execute, Requested, BeginAdvance, RunTerminal
  <2>2. /\ mem'.nodes = disk.nodes /\ mem'.gates = disk.gates /\ mem'.plan = disk.plan
        /\ mem'.status = "RUNNING"
    BY <1>t, <2>1 DEF Run
  <2>3. Coherent(mem')
    BY <1>t, <2>1, <2>2 DEF Coherent, PlanCleared, Begun
  <2> QED
    BY <2>1, <2>2, <2>3, RequestBegins
<1>6. CASE Resume
  <2> DEFINE r == Recovered(disk)
  <2>1. pc = "idle" /\ disk' = disk /\ authorised' = authorised /\ replayed' = replayed
        /\ disk.status # "CANCELLED"
    BY <1>6 DEF Resume, Requested, RunTerminal
  <2>2. /\ r \in Run /\ Coherent(r) /\ r.status = disk.status
        /\ \A m \in Nodes : r.nodes[m].status \in {"PENDING", "READY"} =>
             disk.nodes[m].status \in {"PENDING", "READY"} \/ m \notin Unsafe
    BY <1>t, RecoveredType, RecoveredKeeps
  <2>3. CASE disk.status = "DRAFT"
    <3>1. mem' = r /\ pc' = "save"
      BY <1>6, <2>3 DEF Resume
    <3> QED
      BY <1>t, <2>1, <2>2, <3>1, RequestBegins
  <2>4. CASE disk.status # "DRAFT"
    <3>1. mem' = [r EXCEPT !.status = "RUNNING"] /\ pc' = "refresh"
      BY <1>6, <2>4 DEF Resume, BeginAdvance
    <3>2. /\ mem'.nodes = r.nodes /\ mem'.gates = r.gates /\ mem'.plan = r.plan /\ mem'.status = "RUNNING"
      BY <2>2, <3>1 DEF Run
    <3>3. Coherent(mem')
      BY <2>1, <2>2, <2>4, <3>2 DEF Coherent, PlanCleared, Begun
    <3> QED
      BY <1>t, <2>1, <2>2, <3>1, <3>2, <3>3, RequestBegins
  <2> QED
    BY <2>3, <2>4
<1>7. CASE Cancel
  <2>1. pc = "idle" /\ disk' = disk /\ authorised' = authorised /\ replayed' = replayed /\ pc' = "save"
        /\ mem' = [SkipOpenNodes(disk) EXCEPT !.status = "CANCELLED", !.holds = {}]
    BY <1>7 DEF Cancel, Requested
  <2>2. mem' \in Run
    BY <1>7, TypeRequest DEF Request, TypeOK
  <2>3. /\ mem'.nodes = SkipOpenNodes(disk).nodes /\ mem'.gates = disk.gates
        /\ mem'.status = "CANCELLED" /\ mem'.plan = disk.plan
    BY <1>t, <2>1 DEF Run, SkipOpenNodes
  <2>4. Coherent(mem') /\ \A n \in Nodes : mem'.nodes[n].status \in NodeTerminal
    BY <1>t, <2>2, <2>3, SkippedCoherent DEF PlanCleared
  <2> QED
    BY <1>t, <2>1, <2>4, RequestBegins DEF NodeTerminal
<1>8. CASE Verify
  <2>1. pc = "idle" /\ disk' = disk /\ authorised' = authorised /\ replayed' = replayed /\ pc' = "attest"
        /\ mem' = [disk EXCEPT !.verification = receipt']
    BY <1>8 DEF Verify, Requested
  <2>2. /\ mem'.nodes = disk.nodes /\ mem'.gates = disk.gates /\ mem'.plan = disk.plan
        /\ mem'.status = disk.status
    BY <1>t, <2>1 DEF Run
  <2>3. Coherent(mem')
    BY <1>t, <2>2 DEF Coherent, PlanCleared, Begun
  <2> QED
    BY <2>1, <2>2, <2>3, RequestBegins
<1> QED
  BY <1>1, <1>2, <1>3, <1>4, <1>5, <1>6, <1>7, <1>8 DEF Request

\* The operation goes on in memory.
LEMMA WorkGoesOn ==
  ASSUME RunInvariant, disk' = disk, authorised' = authorised, replayed' = replayed, Coherent(mem'),
         \A m \in Unsafe : mem'.nodes[m].status \in {"PENDING", "READY"} =>
           mem.nodes[m].status \in {"PENDING", "READY"},
         pc' \in {"refresh", "visit", "resettle", "save"},
         pc' # "save" => mem'.status \notin {"DRAFT", "CANCELLED"}
  PROVE  RunInvariant'
<1>1. /\ \A m \in Unsafe : disk.nodes[m].status \in {"PENDING", "READY"} => m \in authorised
      /\ \A m \in Unsafe : mem.nodes[m].status \in {"PENDING", "READY"} => m \in authorised
  BY DEF RunInvariant, OrderStanding
<1>2. Coherent(disk')
  BY DEF RunInvariant
<1> QED
  BY <1>1, <1>2 DEF RunInvariant, OrderStanding

\* The operation ends, or dies, leaving on disk what was there or what it saved.
LEMMA WorkEnds ==
  ASSUME RunInvariant, Release, disk' \in {disk, mem}, authorised' = authorised, replayed' = replayed
  PROVE  RunInvariant'
<1>1. Coherent(disk') /\ mem' = disk' /\ pc' = "idle"
  BY DEF RunInvariant, Release
<1>2. \A m \in Unsafe : disk'.nodes[m].status \in {"PENDING", "READY"} => m \in authorised
  BY DEF RunInvariant, OrderStanding
<1> QED
  BY <1>1, <1>2 DEF RunInvariant, OrderStanding

\* A change of n's wait alone, while it is READY.
LEMMA WaitKeeps ==
  ASSUME NEW r \in Run, Coherent(r), NEW n \in Nodes, r.nodes[n].status = "READY",
         NEW wait \in {"none", "approval"}, NEW q, q = [r EXCEPT !.nodes[n].wait = wait]
  PROVE  /\ q \in Run /\ Coherent(q) /\ q.status = r.status
         /\ \A m \in Nodes : q.nodes[m].status = r.nodes[m].status
<1>1. r.nodes[n] \in NodeState /\ [r.nodes[n] EXCEPT !.wait = wait] \in NodeState
  BY DEF Run, NodeState, Waits
<1>2. /\ q \in Run /\ q.status = r.status /\ q.plan = r.plan /\ q.gates = r.gates
      /\ \A m \in Nodes \ {n} : q.nodes[m] = r.nodes[m]
      /\ q.nodes[n].status = "READY" /\ q.nodes[n].wait = wait
      /\ q.nodes[n].attempts = r.nodes[n].attempts
  BY <1>1 DEF Run, NodeState
<1>3. SafeMove(r, q, n)
  BY <1>2 DEF SafeMove, Admitted, Begun
<1>4. \A m \in Nodes : SafeMove(r, q, m)
  BY <1>2, <1>3, StayingIsSafe
<1>5. PlanStanding(q) /\ (PlanCleared(r) => PlanCleared(q))
  BY <1>2 DEF PlanStanding, PlanCleared, Coherent
<1>6. Coherent(q)
  BY <1>2, <1>4, <1>5, CoherentMove
<1> QED
  BY <1>2, <1>6

\* Starting a cleared READY node.
LEMMA StartedKeeps ==
  ASSUME NEW r \in Run, Coherent(r), NEW n \in Nodes, r.nodes[n].status = "READY",
         PendingGates(r, n, "approval") = {}, NEW q \in Run,
         q.status = r.status, q.plan = r.plan, q.gates = r.gates,
         q.nodes[n].status = "RUNNING", q.nodes[n].wait = "none",
         \A m \in Nodes \ {n} : q.nodes[m] = r.nodes[m]
  PROVE  Coherent(q)
<1>1. ASSUME NEW g \in GatesOf(n, "approval") PROVE r.gates[g].decision = "APPROVED"
  <2>1. Approved(r, g)
    BY DEF PendingGates
  <2>2. r.gates[g] = [decision |-> "APPROVED", binding |-> Binding(r, g)]
    BY <2>1 DEF Approved
  <2> QED
    BY <2>2
<1>2. SafeMove(r, q, n)
  BY <1>1 DEF SafeMove, Admitted, Begun
<1>3. \A m \in Nodes : SafeMove(r, q, m)
  BY <1>2, StayingIsSafe
<1>4. PlanStanding(q) /\ (PlanCleared(r) => PlanCleared(q))
  BY DEF PlanStanding, PlanCleared, Coherent
<1> QED
  BY <1>3, <1>4, CoherentMove

\* _settle of a started run.
LEMMA SettledKeeps ==
  ASSUME NEW r \in Run, Coherent(r), r.status \notin {"DRAFT", "CANCELLED"}, NEW x, NEW q, q = Settled(r, x)
  PROVE  Coherent(q) /\ q.nodes = r.nodes
<1>1. /\ q.nodes = r.nodes /\ q.gates = r.gates /\ q.plan = r.plan
      /\ q.status \notin {"DRAFT", "CANCELLED"}
  <2>1. CASE r.status \in RunTerminal
    BY <2>1 DEF Settled, Run
  <2>2. CASE r.status \notin RunTerminal /\ \A n \in Nodes : ~Open(r, n)
    <3>1. q = [r EXCEPT !.status = FinalStatus(r), !.holds = {}]
      BY <2>2 DEF Settled
    <3>2. FinalStatus(r) \in {"SUCCEEDED", "FAILED"}
      BY DEF FinalStatus
    <3> QED
      BY <3>1, <3>2 DEF Run
  <2>3. CASE r.status \notin RunTerminal /\ ~(\A n \in Nodes : ~Open(r, n))
    <3>1. q = [r EXCEPT !.status = "WAITING", !.holds = HoldsOf(r, x)]
      BY <2>3 DEF Settled
    <3> QED
      BY <3>1 DEF Run
  <2> QED
    BY <2>1, <2>2, <2>3
<1> QED
  BY <1>1 DEF Coherent, PlanCleared, Begun

\* The steps taken at a node keep the invariant.
LEMMA InvariantVisit == TypeOK /\ RunInvariant /\ VisitNode => RunInvariant'
<1> DEFINE n == Current
<1> SUFFICES ASSUME TypeOK, RunInvariant, VisitNode PROVE RunInvariant'
  OBVIOUS
<1>t. /\ cursor \in 1..N /\ n \in Nodes /\ mem \in Run /\ Coherent(mem) /\ Unsafe \subseteq Nodes
      /\ mem.nodes[n] \in NodeState
  BY CurrentIsNode DEF VisitNode, TypeOK, RunInvariant, HoldForApproval, RefuseNode, ExecutorMissing,
     StartNode, DeferNode, RunBuiltin, AtNode, Visiting, Current, Unsafe, Run
<1>v. AtNode => pc = "visit" /\ mem.nodes[n].status = "READY" /\ mem.status \notin {"DRAFT", "CANCELLED"}
  BY DEF AtNode, Visiting, Visitable, RunInvariant
<1>c. pc = "call" => /\ mem.nodes[n].status = "RUNNING" /\ mem.nodes[n].wait = "none"
                     /\ disk = mem /\ (n \in Unsafe => n \in authorised)
                     /\ mem.status \notin {"DRAFT", "CANCELLED"}
  BY DEF RunInvariant
<1> HIDE DEF n
<1>1. CASE HoldForApproval(n)
  <2>1. AtNode /\ mem' = [mem EXCEPT !.nodes[n].wait = "approval"] /\ pc' = "visit"
        /\ disk' = disk /\ authorised' = authorised /\ replayed' = replayed
    BY <1>1, <1>v DEF HoldForApproval
  <2>2. /\ Coherent(mem') /\ mem'.status = mem.status
        /\ \A m \in Nodes : mem'.nodes[m].status = mem.nodes[m].status
    BY <1>t, <1>v, <2>1, WaitKeeps
  <2> QED
    BY <1>t, <1>v, <2>1, <2>2, WorkGoesOn
<1>2. CASE RefuseNode(n)
  <2> DEFINE r == [mem EXCEPT !.nodes[n].wait = "none"]
  <2>1. AtNode /\ mem' = FailNode(r, n) /\ pc' = "visit"
        /\ disk' = disk /\ authorised' = authorised /\ replayed' = replayed
    BY <1>2, <1>v DEF RefuseNode
  <2>2. /\ r \in Run /\ Coherent(r) /\ r.status = mem.status
        /\ \A m \in Nodes : r.nodes[m].status = mem.nodes[m].status
    BY <1>t, <1>v, <2>1, WaitKeeps
  <2> HIDE DEF r
  <2>3. /\ Coherent(mem') /\ mem'.status = r.status
        /\ \A m \in Nodes : mem'.nodes[m].status \in {"PENDING", "READY"} =>
             r.nodes[m].status = mem'.nodes[m].status
    BY <1>t, <1>v, <2>1, <2>2, FailNodeKeeps
  <2> QED
    BY <1>t, <1>v, <2>1, <2>2, <2>3, WorkGoesOn
<1>3. CASE ExecutorMissing(n)
  BY <1>3, WorkEnds DEF ExecutorMissing
<1>4. CASE StartNode(n)
  <2>1. AtNode /\ PendingGates(mem, n, "approval") = {} /\ pc' = "ahead" /\ cursor' = cursor
        /\ disk' = disk /\ authorised' = authorised /\ replayed' = replayed
    BY <1>4 DEF StartNode, Cleared
  <2>2. /\ Coherent(mem') /\ mem'.status = mem.status
        /\ mem'.nodes[n].status = "RUNNING" /\ mem'.nodes[n].wait = "none"
        /\ \A m \in Nodes \ {n} : mem'.nodes[m] = mem.nodes[m]
    <3>1. /\ mem' \in Run /\ mem'.nodes[n].status = "RUNNING" /\ mem'.nodes[n].wait = "none"
          /\ mem'.status = mem.status /\ mem'.plan = mem.plan /\ mem'.gates = mem.gates
          /\ \A m \in Nodes \ {n} : mem'.nodes[m] = mem.nodes[m]
      BY <1>4, <1>t, StartedType DEF StartNode
    <3> QED
      BY <1>t, <1>v, <2>1, <3>1, StartedKeeps
  <2>3. n \in Unsafe => n \in authorised
    BY <1>v, <2>1 DEF RunInvariant, OrderStanding
  <2>4. /\ \A m \in Unsafe : disk'.nodes[m].status \in {"PENDING", "READY"} => m \in authorised'
        /\ \A m \in Unsafe : mem'.nodes[m].status \in {"PENDING", "READY"} => m \in authorised'
    BY <1>t, <2>1, <2>2, <2>3 DEF RunInvariant, OrderStanding
  <2>5. Coherent(disk') /\ Current' = n
    BY <2>1 DEF RunInvariant, n, Current
  <2> QED
    BY <1>v, <2>1, <2>2, <2>3, <2>4, <2>5 DEF RunInvariant, OrderStanding
<1>5. CASE DeferNode(n)
  <2>1. pc = "call" /\ mem' = [mem EXCEPT !.nodes[n].wait = "submission"] /\ pc' = "visit"
        /\ disk' = disk /\ authorised' = authorised \ {n}
        /\ replayed' = (IF n \in authorised THEN replayed ELSE replayed \cup {n})
    BY <1>5 DEF DeferNode, Invoke
  <2>2. [mem.nodes[n] EXCEPT !.wait = "submission"] \in NodeState
    BY <1>t DEF NodeState, Waits
  <2>3. /\ mem' \in Run /\ mem'.status = mem.status /\ mem'.plan = mem.plan /\ mem'.gates = mem.gates
        /\ \A m \in Nodes \ {n} : mem'.nodes[m] = mem.nodes[m]
        /\ mem'.nodes[n].status = "RUNNING" /\ mem'.nodes[n].wait = "submission"
        /\ mem'.nodes[n].attempts = mem.nodes[n].attempts
    BY <1>t, <1>c, <2>1, <2>2 DEF Run, NodeState
  <2>4. SafeMove(mem, mem', n)
    BY <1>c, <2>1, <2>3 DEF SafeMove, Admitted, Begun
  <2>5. \A m \in Nodes : SafeMove(mem, mem', m)
    BY <1>t, <2>3, <2>4, StayingIsSafe
  <2>6. Coherent(mem')
    <3>1. PlanStanding(mem') /\ (PlanCleared(mem) => PlanCleared(mem'))
      BY <1>t, <2>3 DEF PlanStanding, PlanCleared, Coherent
    <3> QED
      BY <1>t, <2>3, <2>5, <3>1, CoherentMove
  <2>7. /\ \A m \in Unsafe : disk'.nodes[m].status \in {"PENDING", "READY"} => m \in authorised'
        /\ \A m \in Unsafe : mem'.nodes[m].status \in {"PENDING", "READY"} => m \in authorised'
    BY <1>t, <1>c, <2>1, <2>3 DEF RunInvariant, OrderStanding
  <2>8. replayed' \cap Unsafe = {}
    BY <1>c, <2>1 DEF RunInvariant
  <2> QED
    BY <1>t, <1>c, <2>1, <2>3, <2>6, <2>7, <2>8 DEF RunInvariant, OrderStanding
<1>6. ASSUME NEW result \in Results, RunBuiltin(n, result) PROVE RunInvariant'
  <2>1. pc = "call" /\ mem' = CompleteAttempt(mem, n, result) /\ pc' = "visit"
        /\ disk' = disk /\ authorised' = authorised \ {n}
        /\ replayed' = (IF n \in authorised THEN replayed ELSE replayed \cup {n})
    BY <1>6 DEF RunBuiltin, Invoke
  <2>2. /\ Coherent(mem') /\ mem'.status = mem.status
        /\ \A m \in Nodes : mem'.nodes[m].status \in {"PENDING", "READY"} =>
             mem.nodes[m].status \in {"PENDING", "READY"} \/ (m = n /\ n \notin Unsafe)
    BY <1>t, <1>c, <2>1, CompleteAttemptKeeps
  <2>3. /\ \A m \in Unsafe : disk'.nodes[m].status \in {"PENDING", "READY"} => m \in authorised'
        /\ \A m \in Unsafe : mem'.nodes[m].status \in {"PENDING", "READY"} => m \in authorised'
    BY <1>t, <1>c, <2>1, <2>2 DEF RunInvariant, OrderStanding
  <2>4. replayed' \cap Unsafe = {}
    BY <1>c, <2>1 DEF RunInvariant
  <2> QED
    BY <1>t, <1>c, <2>1, <2>2, <2>3, <2>4 DEF RunInvariant, OrderStanding
<1> QED
  BY <1>1, <1>2, <1>3, <1>4, <1>5, <1>6 DEF VisitNode, n

\* The engine's other steps keep the invariant.
LEMMA InvariantStep == TypeOK /\ RunInvariant /\ Step => RunInvariant'
<1> SUFFICES ASSUME TypeOK, RunInvariant, Step PROVE RunInvariant'
  OBVIOUS
<1>t. mem \in Run /\ Coherent(mem) /\ Unsafe \subseteq Nodes
  BY DEF TypeOK, RunInvariant, Unsafe
<1>s. pc \notin {"idle", "create", "save", "attest"} => mem.status \notin {"DRAFT", "CANCELLED"}
  BY DEF RunInvariant
<1>1. CASE RefreshNode
  <2>1. Current \in Nodes
    BY <1>1, CurrentIsNode DEF RefreshNode, TypeOK, Current
  <2>2. /\ disk' = disk /\ authorised' = authorised /\ replayed' = replayed
        /\ pc' = pc /\ pc \in {"refresh", "resettle"}
        /\ mem' = [mem EXCEPT !.nodes[Current] = Refreshed(mem, Current)]
    BY <1>1 DEF RefreshNode
  <2>3. /\ Coherent(mem')
        /\ mem'.nodes[Current].status \in {"PENDING", "READY"} =>
             mem.nodes[Current].status \in {"PENDING", "READY"}
    BY <1>t, <1>s, <2>1, <2>2, RefreshedKeeps, ZenonT(60)
  <2>4. mem'.status = mem.status /\ \A m \in Nodes \ {Current} : mem'.nodes[m] = mem.nodes[m]
    BY <1>t, <2>1, <2>2 DEF Run
  <2> QED
    BY <1>t, <1>s, <2>2, <2>3, <2>4, WorkGoesOn
<1>2. CASE BeginPass \/ PassOver \/ StopOnBudget \/ EndPass
  <2>1. /\ disk' = disk /\ authorised' = authorised /\ replayed' = replayed /\ mem' = mem
        /\ pc \in {"refresh", "visit"} /\ pc' \in {"refresh", "visit", "resettle"}
    BY <1>2 DEF BeginPass, PassOver, StopOnBudget, EndPass, Visiting
  <2> QED
    BY <1>t, <1>s, <2>1, WorkGoesOn
<1>3. CASE VisitNode
  BY <1>3, InvariantVisit
<1>4. CASE WriteAhead
  <2>1. pc = "ahead" /\ pc' = "call" /\ disk' = mem /\ mem' = mem /\ cursor' = cursor
        /\ authorised' = authorised /\ replayed' = replayed
    BY <1>4 DEF WriteAhead, loop
  <2>2. Current' = Current
    BY <2>1 DEF Current
  <2> QED
    BY <1>t, <1>s, <2>1, <2>2 DEF RunInvariant, OrderStanding
<1>5. CASE Settle
  <2>1. /\ disk' = disk /\ authorised' = authorised /\ replayed' = replayed
        /\ pc = "resettle" /\ pc' = "save" /\ mem' = Settled(mem, exhausted)
    BY <1>5 DEF Settle
  <2>2. Coherent(mem') /\ mem'.nodes = mem.nodes
    BY <1>t, <1>s, <2>1, SettledKeeps
  <2> QED
    BY <2>1, <2>2, WorkGoesOn
<1>6. CASE Save
  BY <1>6, WorkEnds DEF Save
<1>7. CASE Attest
  <2>1. /\ disk' = disk /\ authorised' = authorised /\ replayed' = replayed /\ mem' = mem /\ pc' = "save"
    BY <1>7 DEF Attest
  <2> QED
    BY <1>t, <2>1, WorkGoesOn
<1>8. CASE RecordCreation
  BY <1>8, WorkEnds DEF RecordCreation
<1> QED
  BY <1>1, <1>2, <1>3, <1>4, <1>5, <1>6, <1>7, <1>8 DEF Step

\* RunInvariant holds of every state of every run.
THEOREM InvariantHolds == Spec => []RunInvariant
<1>1. TypeOK /\ RunInvariant /\ [Next]_vars => RunInvariant'
  <2> SUFFICES ASSUME TypeOK, RunInvariant, [Next]_vars PROVE RunInvariant'
    OBVIOUS
  <2>1. CASE Request
    BY <2>1, InvariantRequest
  <2>2. CASE Step
    BY <2>2, InvariantStep
  <2>3. CASE Crash
    BY <2>3, WorkEnds DEF Crash
  <2>4. CASE Reconfigure \/ UNCHANGED vars
    <3>1. /\ disk' = disk /\ mem' = mem /\ pc' = pc /\ cursor' = cursor
          /\ authorised' = authorised /\ replayed' = replayed
      BY <2>4 DEF Reconfigure, vars, loop
    <3>2. Current' = Current
      BY <3>1 DEF Current
    <3> QED
      BY <3>1, <3>2 DEF RunInvariant, OrderStanding
  <2> QED
    BY <2>1, <2>2, <2>3, <2>4 DEF Next
<1> QED
  BY <1>1, InvariantInit, TypeCorrect, PTL DEF Spec

-----------------------------------------------------------------------------
(* What follows from it.                                                   *)

\* No node of any graph starts before its plan, its dependencies and its approval gates
\* are cleared, however its run is interrupted, recovered and retried.
THEOREM StartsAreCleared == Spec => []StartedOnlyWhenCleared
<1>1. RunInvariant => StartedOnlyWhenCleared
  BY DEF RunInvariant, Coherent, Begun, StartedOnlyWhenCleared
<1> QED
  BY <1>1, InvariantHolds, PTL

\* No executor is invoked on an attempt that is not on disk.
THEOREM AttemptsAreWrittenAhead == Spec => []WrittenAhead
<1>1. RunInvariant => WrittenAhead
  BY DEF RunInvariant, WrittenAhead
<1> QED
  BY <1>1, InvariantHolds, PTL

\* Crashes, resumes and failing attempts never replay a node that is not safe to repeat.
THEOREM UnsafeNodesAreNotReplayed == Spec => []NoAutoReplay
<1>1. RunInvariant => NoAutoReplay
  BY DEF RunInvariant, NoAutoReplay
<1> QED
  BY <1>1, InvariantHolds, PTL
=============================================================================
