---------------------------- MODULE OutcomeProofs ----------------------------
(***************************************************************************)
(* OutcomeInvariant is inductive beside RunInvariant, and with it the      *)
(* promises about how runs and nodes end hold for every graph.  A record   *)
(* stays Sound when the run and each node make a move the events account   *)
(* for; one lemma per helper of the engine shows that it does.             *)
(***************************************************************************)
EXTENDS RunInvariantProofs, RunRefinement, FiniteSetTheorems

\* From r to q node n moves soundly: what ended stays, what ends now does so with a
\* reason and, where the trace has one, with its event.
NodeMove(r, q, n, events) ==
  /\ ~Open(r, n) => q.nodes[n] = r.nodes[n]
  /\ q.nodes[n].wait = "review" => q.nodes[n].outputs \in ValidOutputs
  /\ Open(r, n) /\ q.nodes[n].status = "SUCCEEDED" =>
       q.nodes[n].outputs \in ValidOutputs /\ \A g \in Gates : GateNode[g] = n => Approved(q, g)
  /\ Open(r, n) /\ q.nodes[n].status = "BLOCKED" => BadDependency(r, n)
  /\ Open(r, n) /\ q.nodes[n].status = "SKIPPED" => q.stopped \/ q.status = "CANCELLED"
  /\ \/ q.nodes[n].attempts = r.nodes[n].attempts
     \/ /\ q.nodes[n].attempts = r.nodes[n].attempts + 1
        /\ <<"node.started", n, q.nodes[n].attempts>> \in events
  /\ Open(r, n) => StatusEvent(q, n) \subseteq events

\* The run's own fields move soundly.
RunMove(r, q, events) ==
  /\ r.stopped => q.stopped
  /\ q.stopped => r.stopped \/ \E m \in StopOnFailure : q.nodes[m].status = "FAILED"
  /\ q.verification = r.verification
  /\ \A g \in Gates : ~Open(r, GateNode[g]) => q.gates[g] = r.gates[g]
  /\ \A g \in Gates : \/ q.gates[g].decision = r.gates[g].decision
                      \/ <<"approval.decided", g, q.gates[g].decision>> \in events
  /\ q.plan = r.plan \/ <<"approval.decided", "plan", q.plan>> \in events

\* q follows the open run r: still open itself, or cancelled.
Follows(r, q, events) ==
  /\ r.status \notin RunTerminal
  /\ RunMove(r, q, events) /\ \A n \in Nodes : NodeMove(r, q, n, events)
  /\ \/ q.status \notin RunTerminal /\ (q.status = "DRAFT" => q.holds = {})
     \/ /\ q.status = "CANCELLED" /\ EndsTruthfully(q)
        /\ <<"run.cancelled">> \in events \/ q.plan = "DENIED"

\* Sound(r) with the events named.
SoundBy(r, events) ==
  /\ Explained(r) /\ FailureBehind(r) /\ EndsTruthfully(r) /\ Delivered(r) /\ Recorded(r, events)
  /\ r.status = "DRAFT" => r.holds = {}
  /\ r.verification = "VERIFIED" => Verifies(r)

-----------------------------------------------------------------------------
(* Sound records.                                                          *)

\* Finished nodes and their gates are left as they are.
LEMMA FollowsKeepsEnded ==
  ASSUME NEW r \in Run, NEW q \in Run, NEW events, Follows(r, q, events), NEW n \in Nodes, ~Open(r, n)
  PROVE  q.nodes[n] = r.nodes[n]
BY DEF Follows, NodeMove

\* The nodes that did not run stay explained.
LEMMA FollowsExplained ==
  ASSUME NEW r \in Run, NEW q \in Run, NEW before, NEW events, SoundBy(r, before), Follows(r, q, events)
  PROVE  Explained(q) /\ FailureBehind(q)
<1>1. \A m \in Nodes : ~Open(r, m) => q.nodes[m] = r.nodes[m]
  BY FollowsKeepsEnded
<1>2. \A m \in Nodes : r.nodes[m].status \in NodeTerminal => ~Open(r, m)
  BY DEF Open
<1>3. \A m \in Nodes : r.nodes[m].status \in NodeTerminal => q.nodes[m] = r.nodes[m]
  BY <1>1, <1>2
<1>4. StopOnFailure \subseteq Nodes /\ DependsOn \in [Nodes -> SUBSET Nodes]
  BY NodeAssumption, OrderAssumption
<1>5. /\ Explained(r) /\ FailureBehind(r) /\ r.status # "CANCELLED"
      /\ \A n \in Nodes : NodeMove(r, q, n, events)
      /\ r.stopped => q.stopped
      /\ q.stopped => r.stopped \/ \E m \in StopOnFailure : q.nodes[m].status = "FAILED"
  BY DEF SoundBy, Follows, RunMove, RunTerminal
<1>6. q.stopped => \E m \in StopOnFailure : q.nodes[m].status = "FAILED"
  <2>1. CASE r.stopped
    <3>1. PICK m \in StopOnFailure : r.nodes[m].status = "FAILED"
      BY <1>5, <2>1 DEF FailureBehind
    <3>2. q.nodes[m].status = "FAILED"
      BY <1>3, <1>4, <3>1 DEF NodeTerminal
    <3> QED
      BY <3>2
  <2> QED
    BY <1>5, <2>1
<1>7. ASSUME NEW n \in Nodes, q.nodes[n].status = "BLOCKED"
      PROVE  \E d \in DependsOn[n] : q.nodes[d].status \in {"FAILED", "BLOCKED", "SKIPPED"}
  <2>1. \E d \in DependsOn[n] : r.nodes[d].status \in {"FAILED", "BLOCKED", "SKIPPED"}
    <3>1. CASE Open(r, n)
      BY <1>5, <1>7, <3>1 DEF NodeMove, BadDependency
    <3>2. CASE ~Open(r, n)
      <4>1. r.nodes[n].status = "BLOCKED"
        BY <1>1, <1>7, <3>2
      <4> QED
        BY <1>5, <4>1 DEF Explained
    <3> QED
      BY <3>1, <3>2
  <2>2. PICK d \in DependsOn[n] : r.nodes[d].status \in {"FAILED", "BLOCKED", "SKIPPED"}
    BY <2>1
  <2>3. d \in Nodes /\ q.nodes[d] = r.nodes[d]
    BY <1>3, <1>4, <2>2 DEF NodeTerminal
  <2> QED
    BY <2>2, <2>3
<1>8. ASSUME NEW n \in Nodes, q.nodes[n].status = "BLOCKED" PROVE \E m \in Nodes : q.nodes[m].status = "FAILED"
  <2>1. PICK d \in DependsOn[n] : r.nodes[d].status \in {"FAILED", "BLOCKED", "SKIPPED"}
    <3>1. CASE Open(r, n)
      BY <1>5, <1>8, <3>1 DEF NodeMove, BadDependency
    <3>2. CASE ~Open(r, n)
      <4>1. r.nodes[n].status = "BLOCKED"
        BY <1>1, <1>8, <3>2
      <4> QED
        BY <1>5, <4>1 DEF Explained
    <3> QED
      BY <3>1, <3>2
  <2>2. \E m \in Nodes : r.nodes[m].status = "FAILED"
    <3>1. d \in Nodes
      BY <1>4
    <3>2. CASE r.nodes[d].status = "SKIPPED"
      BY <1>4, <1>5, <3>1, <3>2 DEF Explained
    <3>3. CASE r.nodes[d].status = "BLOCKED"
      BY <1>5, <3>1, <3>3 DEF FailureBehind
    <3> QED
      BY <2>1, <3>1, <3>2, <3>3
  <2> QED
    BY <1>3, <2>2 DEF NodeTerminal
<1>9. ASSUME NEW n \in Nodes, q.nodes[n].status = "SKIPPED", q.status # "CANCELLED" PROVE q.stopped
  <2>1. CASE Open(r, n)
    BY <1>5, <1>9, <2>1 DEF NodeMove
  <2>2. CASE ~Open(r, n)
    <3>1. r.nodes[n].status = "SKIPPED"
      BY <1>1, <1>9, <2>2
    <3> QED
      BY <1>5, <3>1 DEF Explained
  <2> QED
    BY <2>1, <2>2
<1> QED
  BY <1>6, <1>7, <1>8, <1>9 DEF Explained, FailureBehind

\* Deliveries stay valid and approved.
LEMMA FollowsDelivered ==
  ASSUME NEW r \in Run, NEW q \in Run, NEW before, NEW events, SoundBy(r, before), Follows(r, q, events)
  PROVE  Delivered(q)
<1>1. /\ Delivered(r) /\ \A n \in Nodes : NodeMove(r, q, n, events)
      /\ \A g \in Gates : ~Open(r, GateNode[g]) => q.gates[g] = r.gates[g]
  BY DEF SoundBy, Follows, RunMove
<1>2. ASSUME NEW n \in Nodes, q.nodes[n].status = "SUCCEEDED"
      PROVE  q.nodes[n].outputs \in ValidOutputs /\ \A g \in Gates : GateNode[g] = n => Approved(q, g)
  <2>1. CASE Open(r, n)
    BY <1>1, <1>2, <2>1 DEF NodeMove
  <2>2. CASE ~Open(r, n)
    <3>1. q.nodes[n] = r.nodes[n]
      BY <1>1, <2>2 DEF NodeMove
    <3>2. r.nodes[n].outputs \in ValidOutputs /\ \A g \in Gates : GateNode[g] = n => Approved(r, g)
      BY <1>1, <1>2, <3>1 DEF Delivered
    <3>3. ASSUME NEW g \in Gates, GateNode[g] = n PROVE Approved(q, g)
      <4>1. q.gates[g] = r.gates[g] /\ Approved(r, g)
        BY <1>1, <2>2, <3>2, <3>3
      <4>2. Binding(q, g) = Binding(r, g)
        BY <3>1, <3>3 DEF Binding
      <4> QED
        BY <4>1, <4>2 DEF Approved
    <3> QED
      BY <3>1, <3>2, <3>3
  <2> QED
    BY <2>1, <2>2
<1>3. \A n \in Nodes : q.nodes[n].wait = "review" => q.nodes[n].outputs \in ValidOutputs
  BY <1>1 DEF NodeMove
<1> QED
  BY <1>2, <1>3 DEF Delivered

\* The events account for the record moved to.
LEMMA FollowsRecorded ==
  ASSUME NEW r \in Run, NEW q \in Run, NEW before, NEW events, before \subseteq events,
         SoundBy(r, before), Follows(r, q, events)
  PROVE  Recorded(q, events)
<1>1. /\ Recorded(r, before) /\ \A n \in Nodes : NodeMove(r, q, n, events)
      /\ RunMove(r, q, events)
  BY DEF SoundBy, Follows
<1>2. ASSUME NEW n \in Nodes, NEW a \in 1..q.nodes[n].attempts
      PROVE  <<"node.started", n, a>> \in events
  <2>1. r.nodes[n] \in NodeState /\ r.nodes[n].attempts \in Nat
    BY DEF Run, NodeState
  <2>2. \/ q.nodes[n].attempts = r.nodes[n].attempts
        \/ /\ q.nodes[n].attempts = r.nodes[n].attempts + 1
           /\ <<"node.started", n, q.nodes[n].attempts>> \in events
    BY <1>1 DEF NodeMove
  <2>3. a \in 1..r.nodes[n].attempts \/ (a = q.nodes[n].attempts /\ <<"node.started", n, q.nodes[n].attempts>> \in events)
    BY <2>1, <2>2
  <2>4. CASE a \in 1..r.nodes[n].attempts
    <3>1. <<"node.started", n, a>> \in before
      BY <1>1, <2>4, Zenon DEF Recorded
    <3> QED
      BY <3>1
  <2> QED
    BY <2>3, <2>4, Zenon
<1>3. ASSUME NEW n \in Nodes PROVE StatusEvent(q, n) \subseteq events
  <2>1. CASE Open(r, n)
    BY <1>1, <2>1 DEF NodeMove
  <2>2. CASE ~Open(r, n)
    <3>1. q.nodes[n] = r.nodes[n]
      BY <1>1, <2>2 DEF NodeMove
    <3>2. StatusEvent(q, n) = StatusEvent(r, n)
      BY <3>1, Zenon DEF StatusEvent
    <3>3. StatusEvent(r, n) \subseteq before
      BY <1>1 DEF Recorded
    <3> QED
      BY <3>2, <3>3
  <2> QED
    BY <2>1, <2>2
<1>4. ASSUME NEW g \in Gates, q.gates[g].decision # "none"
      PROVE  <<"approval.decided", g, q.gates[g].decision>> \in events
  <2>1. CASE q.gates[g].decision = r.gates[g].decision
    <3>1. <<"approval.decided", g, r.gates[g].decision>> \in before
      BY <1>1, <1>4, <2>1, Zenon DEF Recorded
    <3> QED
      BY <2>1, <3>1, Zenon
  <2> QED
    BY <1>1, <2>1, Zenon DEF RunMove
<1>5. ASSUME q.plan \in {"APPROVED", "DENIED"} PROVE <<"approval.decided", "plan", q.plan>> \in events
  <2>1. CASE q.plan = r.plan
    <3>1. <<"approval.decided", "plan", r.plan>> \in before
      BY <1>1, <1>5, <2>1, Zenon DEF Recorded
    <3> QED
      BY <2>1, <3>1, Zenon
  <2> QED
    BY <1>1, <2>1, Zenon DEF RunMove
<1>6. q.status \notin {"SUCCEEDED", "FAILED"} /\ (q.status = "CANCELLED" => <<"run.cancelled">> \in events \/ q.plan = "DENIED")
  BY DEF Follows, RunTerminal
<1>7. FinishedEvent(q) \subseteq events
  BY <1>6 DEF FinishedEvent
<1> QED
  BY <1>2, <1>3, <1>4, <1>5, <1>6, <1>7, Zenon DEF Recorded

\* A record that soundly follows a sound one is sound.
LEMMA FollowsSound ==
  ASSUME NEW r \in Run, NEW q \in Run, NEW before, NEW events, before \subseteq events,
         SoundBy(r, before), Follows(r, q, events)
  PROVE  SoundBy(q, events) /\ \A n \in Nodes : ~Open(r, n) => q.nodes[n] = r.nodes[n]
<1>1. Explained(q) /\ FailureBehind(q)
  BY FollowsExplained
<1>2. Delivered(q)
  BY FollowsDelivered
<1>3. Recorded(q, events)
  BY FollowsRecorded
<1>4. EndsTruthfully(q) /\ (q.status = "DRAFT" => q.holds = {})
  BY DEF Follows, EndsTruthfully, RunTerminal
<1>5. q.verification # "VERIFIED"
  <2>1. r.status # "SUCCEEDED" /\ q.verification = r.verification
    BY DEF Follows, RunMove, RunTerminal
  <2>2. r.verification # "VERIFIED"
    BY <2>1 DEF SoundBy, Verifies
  <2> QED
    BY <2>1, <2>2
<1> QED
  BY <1>1, <1>2, <1>3, <1>4, <1>5, FollowsKeepsEnded DEF SoundBy

-----------------------------------------------------------------------------
(* The moves of one node.                                                  *)

\* A node that does not move.
LEMMA NodeStays ==
  ASSUME NEW r, NEW q, NEW before, NEW events, before \subseteq events, SoundBy(r, before),
         NEW n \in Nodes, q.nodes[n] = r.nodes[n]
  PROVE  NodeMove(r, q, n, events)
<1>1. StatusEvent(q, n) \subseteq events
  <2>1. StatusEvent(q, n) = StatusEvent(r, n)
    BY Zenon DEF StatusEvent
  <2>2. StatusEvent(r, n) \subseteq before
    BY DEF SoundBy, Recorded
  <2> QED
    BY <2>1, <2>2
<1>2. q.nodes[n].wait = "review" => q.nodes[n].outputs \in ValidOutputs
  BY DEF SoundBy, Delivered
<1>3. Open(r, n) => q.nodes[n].status \notin NodeTerminal
  BY DEF Open
<1> QED
  BY <1>1, <1>2, <1>3 DEF NodeMove, NodeTerminal

\* An open node that stays open, for something else than a review.
LEMMA NodeGoesOn ==
  ASSUME NEW r, NEW q, NEW events, NEW n \in Nodes, Open(r, n), Open(q, n),
         q.nodes[n].wait # "review", q.nodes[n].attempts = r.nodes[n].attempts
  PROVE  NodeMove(r, q, n, events)
<1>1. q.nodes[n].status \notin {"SUCCEEDED", "FAILED", "BLOCKED", "SKIPPED"}
  BY DEF Open, NodeTerminal
<1>2. StatusEvent(q, n) = {}
  BY <1>1 DEF StatusEvent
<1> QED
  BY <1>1, <1>2 DEF NodeMove

\* An open node that fails, with its event.
LEMMA NodeFails ==
  ASSUME NEW r, NEW q, NEW events, NEW n \in Nodes, Open(r, n),
         q.nodes[n].status = "FAILED", q.nodes[n].wait = "none",
         q.nodes[n].attempts = r.nodes[n].attempts, StatusEvent(q, n) \subseteq events
  PROVE  NodeMove(r, q, n, events)
BY DEF NodeMove

\* An open node that is skipped or blocked for a reason.
LEMMA NodeUnrun ==
  ASSUME NEW r, NEW q, NEW events, NEW n \in Nodes, Open(r, n), q.nodes[n].wait = "none",
         q.nodes[n].attempts = r.nodes[n].attempts,
         \/ q.nodes[n].status = "BLOCKED" /\ BadDependency(r, n)
         \/ q.nodes[n].status = "SKIPPED" /\ (q.stopped \/ q.status = "CANCELLED")
  PROVE  NodeMove(r, q, n, events)
<1>1. StatusEvent(q, n) = {}
  BY DEF StatusEvent
<1> QED
  BY <1>1 DEF NodeMove

\* What holds of a run's own fields when an operation leaves them alone.
LEMMA RunStays ==
  ASSUME NEW r, NEW q, NEW events, q.stopped = r.stopped, q.verification = r.verification,
         q.gates = r.gates, q.plan = r.plan
  PROVE  RunMove(r, q, events)
BY DEF RunMove

-----------------------------------------------------------------------------
(* The engine's helpers.                                                   *)

\* _record_failure of an open node.
LEMMA FailNodeSound ==
  ASSUME NEW r \in Run, NEW before, NEW events, before \subseteq events, SoundBy(r, before),
         r.status \notin RunTerminal, r.status = "DRAFT" => r.holds = {},
         NEW n \in Nodes, Open(r, n), NEW q, q = FailNode(r, n), StatusEvent(q, n) \subseteq events
  PROVE  Follows(r, q, events) /\ q \in Run /\ q.status = r.status
<1>1. q \in Run
  BY FailNodeType
<1>2. /\ q.status = r.status /\ q.plan = r.plan /\ q.gates = r.gates /\ q.holds = r.holds
      /\ q.verification = r.verification
      /\ q.stopped = (r.stopped \/ n \in StopOnFailure)
  BY DEF FailNode, Run
<1>3. ASSUME NEW m \in Nodes
      PROVE  \/ m # n /\ q.nodes[m] = r.nodes[m]
             \/ m = n /\ q.nodes[m].status = "FAILED" /\ q.nodes[m].wait = "none"
                /\ q.nodes[m].attempts = r.nodes[m].attempts
             \/ m # n /\ r.nodes[m].status = "RUNNING" /\ n \in StopOnFailure
                /\ q.nodes[m].status = "SKIPPED" /\ q.nodes[m].wait = "none"
                /\ q.nodes[m].attempts = r.nodes[m].attempts
  <2>1. r.nodes[m] \in NodeState
    BY DEF Run
  <2> QED
    BY <2>1 DEF FailNode, Skipped, Run, NodeState
<1>4. ASSUME NEW m \in Nodes PROVE NodeMove(r, q, m, events)
  <2>1. CASE q.nodes[m] = r.nodes[m]
    BY <2>1, NodeStays
  <2>2. CASE m = n /\ q.nodes[m].status = "FAILED"
    BY <1>3, <2>2, NodeFails
  <2>3. CASE q.nodes[m].status = "SKIPPED" /\ r.nodes[m].status = "RUNNING" /\ n \in StopOnFailure /\ m # n
    <3>1. Open(r, m)
      BY <2>3 DEF Open, NodeTerminal
    <3> QED
      BY <1>2, <1>3, <2>3, <3>1, NodeUnrun
  <2> QED
    BY <1>3, <2>1, <2>2, <2>3
<1>5. n \in StopOnFailure => q.nodes[n].status = "FAILED"
  BY <1>3
<1>6. RunMove(r, q, events)
  BY <1>2, <1>5 DEF RunMove
<1> QED
  BY <1>1, <1>2, <1>4, <1>6 DEF Follows

\* _skip_open_nodes, then CANCELLED.
LEMMA SkippedSound ==
  ASSUME NEW r \in Run, Coherent(r), NEW before, NEW events, before \subseteq events, SoundBy(r, before),
         r.status \notin RunTerminal, NEW q \in Run, q.nodes = SkipOpenNodes(r).nodes,
         q.gates = r.gates, q.stopped = r.stopped, q.verification = r.verification,
         q.status = "CANCELLED", q.holds = {},
         q.plan = r.plan \/ <<"approval.decided", "plan", q.plan>> \in events,
         <<"run.cancelled">> \in events \/ q.plan = "DENIED"
  PROVE  Follows(r, q, events)
<1>1. ASSUME NEW n \in Nodes
      PROVE  \/ ~Open(r, n) /\ q.nodes[n] = r.nodes[n] /\ q.nodes[n].wait = "none"
             \/ /\ Open(r, n) /\ q.nodes[n].status = "SKIPPED" /\ q.nodes[n].wait = "none"
                /\ q.nodes[n].attempts = r.nodes[n].attempts
  <2>1. r.nodes[n] \in NodeState
    BY DEF Run
  <2>2. q.nodes[n] = IF Open(r, n) THEN Skipped(r.nodes[n]) ELSE r.nodes[n]
    BY DEF SkipOpenNodes, Run
  <2>3. CASE Open(r, n)
    BY <2>1, <2>2, <2>3 DEF Skipped, NodeState
  <2>4. CASE ~Open(r, n)
    <3>1. r.nodes[n].status \in NodeTerminal
      BY <2>4 DEF Open
    <3>2. r.nodes[n].wait = "none"
      BY <2>1, <3>1 DEF Coherent, NodeTerminal, NodeState, Waits
    <3> QED
      BY <2>2, <2>4, <3>2
  <2> QED
    BY <2>3, <2>4
<1>2. ASSUME NEW n \in Nodes PROVE NodeMove(r, q, n, events)
  <2>1. CASE q.nodes[n] = r.nodes[n]
    BY <2>1, NodeStays
  <2>2. CASE Open(r, n) /\ q.nodes[n].status = "SKIPPED"
    BY <1>1, <2>2, NodeUnrun
  <2> QED
    BY <1>1, <2>1, <2>2
<1>3. RunMove(r, q, events)
  BY DEF RunMove
<1>4. \A n \in Nodes : ~Open(q, n) /\ q.nodes[n].wait = "none"
  BY <1>1 DEF Open, NodeTerminal
<1>5. EndsTruthfully(q)
  BY <1>4 DEF EndsTruthfully
<1> QED
  BY <1>2, <1>3, <1>5 DEF Follows

\* A change of open nodes among the open statuses, with the run's status.
LEMMA OpenNodesSound ==
  ASSUME NEW r \in Run, NEW before, NEW events, before \subseteq events, SoundBy(r, before),
         r.status \notin RunTerminal, NEW q, q.status \notin RunTerminal,
         q.status = "DRAFT" => r.status = "DRAFT", q.holds = r.holds, q.plan = r.plan, q.gates = r.gates,
         q.stopped = r.stopped, q.verification = r.verification,
         \A n \in Nodes : \/ q.nodes[n] = r.nodes[n]
                          \/ /\ Open(r, n) /\ Open(q, n) /\ q.nodes[n].wait # "review"
                             /\ q.nodes[n].attempts = r.nodes[n].attempts
  PROVE  Follows(r, q, events)
<1>1. \A n \in Nodes : NodeMove(r, q, n, events)
  BY NodeStays, NodeGoesOn
<1>2. RunMove(r, q, events)
  BY RunStays
<1>3. q.status = "DRAFT" => q.holds = {}
  BY DEF SoundBy
<1> QED
  BY <1>1, <1>2, <1>3 DEF Follows

\* _refresh_readiness of one node.
LEMMA RefreshedSound ==
  ASSUME NEW r \in Run, NEW before, SoundBy(r, before),
         r.status \notin RunTerminal, NEW n \in Nodes, NEW q, q = [r EXCEPT !.nodes[n] = Refreshed(r, n)]
  PROVE  Follows(r, q, before) /\ q \in Run /\ q.status = r.status
<1> DEFINE s == r.nodes[n]
           t == Refreshed(r, n)
<1>1. t \in NodeState /\ s \in NodeState
  BY RefreshedType DEF Run
<1>2. q \in Run
  BY <1>1, NodeUpdateType
<1>3. /\ q.nodes[n] = t /\ \A m \in Nodes \ {n} : q.nodes[m] = r.nodes[m]
      /\ q.status = r.status /\ q.plan = r.plan /\ q.gates = r.gates /\ q.holds = r.holds
      /\ q.stopped = r.stopped /\ q.verification = r.verification
  BY DEF Run
<1>4. \/ t = s
      \/ s.status \in {"PENDING", "READY"} /\ r.stopped /\ t = Skipped(s)
      \/ s.status \in {"PENDING", "READY"} /\ BadDependency(r, n) /\ t = [s EXCEPT !.status = "BLOCKED", !.wait = "none"]
      \/ s.status = "PENDING" /\ t = [s EXCEPT !.status = "READY"] /\ DependenciesMet(r, n)
  BY SMTT(40) DEF Refreshed
<1>5. NodeMove(r, q, n, before)
  <2>1. CASE t = s
    BY <1>3, <2>1, NodeStays
  <2>2. CASE s.status \in {"PENDING", "READY"} /\ r.stopped /\ t = Skipped(s)
    <3>1. t.status = "SKIPPED" /\ t.wait = "none" /\ t.attempts = s.attempts
      BY <1>1, <2>2 DEF Skipped, NodeState
    <3>2. Open(r, n)
      BY <2>2 DEF Open, NodeTerminal
    <3> QED
      BY <1>3, <2>2, <3>1, <3>2, NodeUnrun
  <2>3. CASE s.status \in {"PENDING", "READY"} /\ BadDependency(r, n) /\ t = [s EXCEPT !.status = "BLOCKED", !.wait = "none"]
    <3>1. t.status = "BLOCKED" /\ t.wait = "none" /\ t.attempts = s.attempts
      BY <1>1, <2>3 DEF NodeState
    <3>2. Open(r, n)
      BY <2>3 DEF Open, NodeTerminal
    <3> QED
      BY <1>3, <2>3, <3>1, <3>2, NodeUnrun
  <2>4. CASE s.status = "PENDING" /\ t = [s EXCEPT !.status = "READY"]
    <3>1. t.status = "READY" /\ t.wait = s.wait /\ t.attempts = s.attempts /\ t.outputs = s.outputs
      BY <1>1, <2>4 DEF NodeState
    <3>2. Open(r, n) /\ Open(q, n)
      BY <1>3, <2>4, <3>1 DEF Open, NodeTerminal
    <3>3. StatusEvent(q, n) = {}
      BY <1>3, <3>1 DEF StatusEvent
    <3>4. t.wait = "review" => t.outputs \in ValidOutputs
      BY <3>1 DEF SoundBy, Delivered
    <3> QED
      BY <1>3, <3>1, <3>2, <3>3, <3>4 DEF NodeMove
  <2> QED
    BY <1>4, <2>1, <2>2, <2>3, <2>4
<1>6. \A m \in Nodes : NodeMove(r, q, m, before)
  BY <1>3, <1>5, NodeStays
<1>7. RunMove(r, q, before)
  BY <1>3, RunStays
<1> QED
  BY <1>2, <1>3, <1>6, <1>7 DEF Follows, SoundBy

\* resume()'s recovery, and the status it sets.
LEMMA RecoveredSound ==
  ASSUME NEW r \in Run, NEW before, SoundBy(r, before), r.status \notin RunTerminal,
         NEW q, q = Recovered(r)
  PROVE  Follows(r, q, before) /\ q \in Run /\ q.status = r.status
<1>1. q \in Run
  BY RecoveredType
<1>2. /\ q.status = r.status /\ q.plan = r.plan /\ q.gates = r.gates /\ q.holds = r.holds
      /\ q.stopped = r.stopped /\ q.verification = r.verification
  BY DEF Recovered, Run
<1>3. ASSUME NEW m \in Nodes
      PROVE  \/ q.nodes[m] = r.nodes[m]
             \/ /\ Open(r, m) /\ Open(q, m) /\ q.nodes[m].wait # "review"
                /\ q.nodes[m].attempts = r.nodes[m].attempts
  <2>1. r.nodes[m] \in NodeState
    BY DEF Run
  <2>2. q.nodes[m] = IF ~Interrupted(r, m) THEN r.nodes[m]
                     ELSE IF m \in Unsafe THEN [r.nodes[m] EXCEPT !.wait = "attention"]
                     ELSE [r.nodes[m] EXCEPT !.status = "READY"]
    BY DEF Recovered, Run
  <2> QED
    BY <2>1, <2>2 DEF Interrupted, NodeState, Open, NodeTerminal
<1> QED
  BY <1>1, <1>2, <1>3, OpenNodesSound

\* A running node whose reviews are all approved has every gate approved.
LEMMA AllGatesApproved ==
  ASSUME NEW r \in Run, Coherent(r), NEW n \in Nodes, r.nodes[n].status = "RUNNING",
         NEW x, x.gates = r.gates, PendingGates(x, n, "review") = {},
         NEW q, q.gates = r.gates, q.nodes[n].outputs = x.nodes[n].outputs
  PROVE  \A g \in Gates : GateNode[g] = n => Approved(q, g)
<1> SUFFICES ASSUME NEW g \in Gates, GateNode[g] = n PROVE Approved(q, g)
  OBVIOUS
<1>1. GateType[g] \in {"approval", "review"}
  BY GateAssumption DEF GateTypes
<1>2. CASE GateType[g] = "approval"
  <2>1. r.gates[g].decision = "APPROVED" /\ r.gates[g].binding = NoOutput
    BY <1>2 DEF Coherent, Begun, GatesOf
  <2>2. r.gates[g] \in GateState
    BY DEF Run
  <2>3. q.gates[g] = [decision |-> "APPROVED", binding |-> NoOutput]
    BY <2>1, <2>2 DEF GateState
  <2> QED
    BY <1>2, <2>3 DEF Approved, Binding
<1>3. CASE GateType[g] = "review"
  <2>1. Approved(x, g)
    BY <1>3 DEF PendingGates, GatesOf
  <2>2. Binding(q, g) = Binding(x, g)
    BY <1>3 DEF Binding
  <2> QED
    BY <2>1, <2>2 DEF Approved
<1> QED
  BY <1>1, <1>2, <1>3

\* _complete_attempt of a running node.
LEMMA CompleteAttemptSound ==
  ASSUME NEW r \in Run, Coherent(r), NEW before, NEW events, before \subseteq events, SoundBy(r, before),
         r.status \notin RunTerminal, NEW n \in Nodes, NEW result \in Results,
         r.nodes[n].status = "RUNNING", r.nodes[n].wait = "none",
         NEW q, q = CompleteAttempt(r, n, result), StatusEvent(q, n) \subseteq events
  PROVE  Follows(r, q, events) /\ q \in Run /\ q.status = r.status
<1> DEFINE stored == [r EXCEPT !.nodes[n].outputs = result.outputs]
           outcome == Outcome(result)
<1>1. q \in Run /\ r.nodes[n] \in NodeState
  BY CompleteAttemptType DEF Run
<1>2. Open(r, n) /\ (r.status = "DRAFT" => r.holds = {})
  BY DEF Open, NodeTerminal, SoundBy
<1>3. outcome = "SUCCESS" => result.outputs \in ValidOutputs
  BY DEF Outcome
<1>4. /\ stored.gates = r.gates /\ stored.nodes[n].outputs = result.outputs
  BY <1>1 DEF Run, NodeState
<1>5. ASSUME /\ q.status = r.status /\ q.plan = r.plan /\ q.gates = r.gates /\ q.holds = r.holds
             /\ q.stopped = r.stopped /\ q.verification = r.verification
             /\ \A m \in Nodes \ {n} : q.nodes[m] = r.nodes[m],
             NodeMove(r, q, n, events)
      PROVE  Follows(r, q, events) /\ q.status = r.status
  <2>1. \A m \in Nodes : NodeMove(r, q, m, events)
    BY <1>5, NodeStays
  <2>2. RunMove(r, q, events)
    BY <1>5, RunStays
  <2> QED
    BY <1>2, <1>5, <2>1, <2>2 DEF Follows
<1>6. CASE outcome = "SUCCESS" /\ PendingGates(stored, n, "review") # {}
  <2>1. q = [stored EXCEPT !.nodes[n].wait = "review"]
    BY <1>6 DEF CompleteAttempt
  <2>2. /\ q.status = r.status /\ q.plan = r.plan /\ q.gates = r.gates /\ q.holds = r.holds
        /\ q.stopped = r.stopped /\ q.verification = r.verification
        /\ \A m \in Nodes \ {n} : q.nodes[m] = r.nodes[m]
        /\ q.nodes[n].status = "RUNNING" /\ q.nodes[n].wait = "review"
        /\ q.nodes[n].outputs = result.outputs /\ q.nodes[n].attempts = r.nodes[n].attempts
    BY <1>1, <2>1 DEF Run, NodeState
  <2>3. NodeMove(r, q, n, events)
    BY <1>3, <1>6, <2>2 DEF NodeMove, Open, NodeTerminal
  <2> QED
    BY <1>1, <1>5, <2>2, <2>3
<1>7. CASE outcome = "SUCCESS" /\ PendingGates(stored, n, "review") = {}
  <2>1. q = [stored EXCEPT !.nodes[n].status = "SUCCEEDED"]
    BY <1>7 DEF CompleteAttempt
  <2>2. /\ q.status = r.status /\ q.plan = r.plan /\ q.gates = r.gates /\ q.holds = r.holds
        /\ q.stopped = r.stopped /\ q.verification = r.verification
        /\ \A m \in Nodes \ {n} : q.nodes[m] = r.nodes[m]
        /\ q.nodes[n].status = "SUCCEEDED" /\ q.nodes[n].wait = "none"
        /\ q.nodes[n].outputs = result.outputs /\ q.nodes[n].attempts = r.nodes[n].attempts
    BY <1>1, <2>1 DEF Run, NodeState
  <2> HIDE DEF stored
  <2>3. \A g \in Gates : GateNode[g] = n => Approved(q, g)
    BY <1>4, <1>7, <2>2, AllGatesApproved
  <2>4. NodeMove(r, q, n, events)
    BY <1>2, <1>3, <1>7, <2>2, <2>3 DEF NodeMove
  <2> QED
    BY <1>1, <1>5, <2>2, <2>4
<1>8. CASE outcome # "SUCCESS" /\ RetryAllowed(r, n, outcome)
  <2>1. q = [r EXCEPT !.nodes[n].status = "READY"]
    BY <1>8 DEF CompleteAttempt
  <2>2. /\ q.status = r.status /\ q.plan = r.plan /\ q.gates = r.gates /\ q.holds = r.holds
        /\ q.stopped = r.stopped /\ q.verification = r.verification
        /\ \A m \in Nodes \ {n} : q.nodes[m] = r.nodes[m]
        /\ q.nodes[n].status = "READY" /\ q.nodes[n].wait = "none"
        /\ q.nodes[n].attempts = r.nodes[n].attempts
    BY <1>1, <2>1 DEF Run, NodeState
  <2>3. Open(q, n)
    BY <2>2 DEF Open, NodeTerminal
  <2>4. NodeMove(r, q, n, events)
    BY <1>2, <2>2, <2>3, NodeGoesOn
  <2> QED
    BY <1>1, <1>5, <2>2, <2>4
<1>9. CASE outcome # "SUCCESS" /\ ~RetryAllowed(r, n, outcome)
  <2>1. q = FailNode(r, n)
    BY <1>9 DEF CompleteAttempt
  <2> QED
    BY <1>2, <2>1, FailNodeSound
<1> QED
  BY <1>6, <1>7, <1>8, <1>9

\* decide on a gate its node waits on, with the events it records.
Deciding(r, before, g, decision, q, events) ==
  /\ r \in Run /\ Coherent(r) /\ SoundBy(r, before) /\ before \subseteq events
  /\ g \in Gates /\ AwaitsDecision(r, g) /\ decision \in {"APPROVED", "DENIED"}
  /\ q = GateDecided(r, g, decision)
  /\ <<"approval.decided", g, decision>> \in events /\ StatusEvent(q, GateNode[g]) \subseteq events

LEMMA GateDecidedSound ==
  ASSUME NEW r, NEW before, NEW g, NEW decision, NEW q, NEW events,
         Deciding(r, before, g, decision, q, events)
  PROVE  /\ SoundBy(q, events) /\ q \in Run /\ q.status = r.status
         /\ \A m \in Nodes : ~Open(r, m) => q.nodes[m] = r.nodes[m]
<1> USE DEF Deciding
<1> DEFINE n == GateNode[g]
           d == Decided(r, g, decision)
<1>1. n \in Nodes /\ GateType[g] \in {"approval", "review"}
  BY GateAssumption DEF GateTypes
<1>2. d \in Run /\ d.nodes = r.nodes /\ d.status = r.status /\ d.plan = r.plan
      /\ d.gates = [r.gates EXCEPT ![g] = [decision |-> decision, binding |-> Binding(r, g)]]
  BY DecidedType, ZenonT(60)
<1>3. Coherent(d)
  BY DecidedCoherent, ZenonT(60) DEF AwaitsDecision
<1>4. d.holds = r.holds /\ d.stopped = r.stopped /\ d.verification = r.verification
  BY DEF Decided, Run
<1>5. r.status \notin RunTerminal /\ r.nodes[n].wait = GateType[g]
  BY DEF AwaitsDecision
<1> HIDE DEF d
<1>6. /\ d.nodes[n].status \in {"READY", "RUNNING"} /\ Open(r, n) /\ Open(d, n)
      /\ GateType[g] = "review" => d.nodes[n].status = "RUNNING"
  BY <1>1, <1>2, <1>3, <1>5 DEF Coherent, Open, NodeTerminal
<1>7. Follows(r, d, events)
  <2>1. \A m \in Nodes : NodeMove(r, d, m, events)
    BY <1>2, NodeStays
  <2>2. \A h \in Gates : d.gates[h] = IF h = g THEN [decision |-> decision, binding |-> Binding(r, g)] ELSE r.gates[h]
    BY <1>2 DEF Run
  <2>3. RunMove(r, d, events)
    <3>1. \A h \in Gates : ~Open(r, GateNode[h]) => d.gates[h] = r.gates[h]
      BY <1>6, <2>2
    <3>2. \A h \in Gates : \/ d.gates[h].decision = r.gates[h].decision
                           \/ <<"approval.decided", h, d.gates[h].decision>> \in events
      <4> SUFFICES ASSUME NEW h \in Gates, d.gates[h].decision # r.gates[h].decision
                   PROVE <<"approval.decided", h, d.gates[h].decision>> \in events
        OBVIOUS
      <4>1. h = g /\ d.gates[h].decision = decision
        BY <2>2
      <4> QED
        BY <4>1, Zenon
    <3> QED
      BY <1>2, <1>4, <3>1, <3>2 DEF RunMove
  <2> QED
    BY <1>2, <1>4, <1>5, <2>1, <2>3 DEF Follows, SoundBy
<1>8. SoundBy(d, events) /\ \A m \in Nodes : Open(d, m) = Open(r, m)
  BY <1>2, <1>7, FollowsSound DEF Open
<1>9. CASE q = FailNode(d, n)
  <2>1. Follows(d, q, events) /\ q \in Run /\ q.status = d.status
    BY <1>1, <1>2, <1>5, <1>6, <1>8, <1>9, FailNodeSound DEF SoundBy
  <2> QED
    BY <1>2, <1>8, <2>1, FollowsSound
<1>10. CASE q = d
  BY <1>2, <1>8, <1>10
<1>11. ASSUME \/ q = [d EXCEPT !.nodes[n].wait = "none"]
              \/ GateType[g] = "review" /\ q = [d EXCEPT !.nodes[n].wait = "none", !.nodes[n].status = "SUCCEEDED"]
                 /\ PendingGates(d, n, "review") = {}
       PROVE  Follows(d, q, events) /\ q \in Run /\ q.status = r.status
  <2>1. q \in Run
    BY GateDecidedType
  <2>2. d.nodes[n] \in NodeState
    BY <1>1, <1>2 DEF Run
  <2>3. /\ q.status = d.status /\ q.plan = d.plan /\ q.gates = d.gates /\ q.holds = d.holds
        /\ q.stopped = d.stopped /\ q.verification = d.verification
        /\ \A m \in Nodes \ {n} : q.nodes[m] = d.nodes[m]
        /\ q.nodes[n].wait = "none" /\ q.nodes[n].attempts = d.nodes[n].attempts
        /\ q.nodes[n].outputs = d.nodes[n].outputs
        /\ \/ q.nodes[n].status = d.nodes[n].status
           \/ /\ q.nodes[n].status = "SUCCEEDED" /\ GateType[g] = "review"
              /\ PendingGates(d, n, "review") = {}
    <3>1. CASE q = [d EXCEPT !.nodes[n].wait = "none"]
      BY <1>1, <1>2, <2>2, <3>1 DEF Run, NodeState
    <3>2. CASE GateType[g] = "review" /\ q = [d EXCEPT !.nodes[n].wait = "none", !.nodes[n].status = "SUCCEEDED"]
               /\ PendingGates(d, n, "review") = {}
      BY <1>1, <1>2, <2>2, <3>2 DEF Run, NodeState
    <3> QED
      BY <1>11, <3>1, <3>2
  <2>4. NodeMove(d, q, n, events)
    <3>1. CASE q.nodes[n].status = d.nodes[n].status
      <4>1. Open(q, n)
        BY <1>6, <3>1 DEF Open
      <4> QED
        BY <1>1, <1>6, <2>3, <4>1, NodeGoesOn
    <3>2. CASE q.nodes[n].status = "SUCCEEDED" /\ GateType[g] = "review" /\ PendingGates(d, n, "review") = {}
      <4>1. \A h \in Gates : GateNode[h] = n => Approved(q, h)
        BY <1>1, <1>2, <1>3, <1>6, <2>3, <3>2, AllGatesApproved
      <4>2. q.nodes[n].outputs \in ValidOutputs
        BY <1>1, <1>2, <1>5, <1>8, <2>3, <3>2 DEF SoundBy, Delivered
      <4> QED
        BY <1>6, <2>3, <3>2, <4>1, <4>2 DEF NodeMove
    <3> QED
      BY <2>3, <3>1, <3>2
  <2>5. \A m \in Nodes : NodeMove(d, q, m, events)
    BY <1>8, <2>3, <2>4, NodeStays
  <2>6. RunMove(d, q, events)
    BY <2>3, RunStays
  <2> QED
    BY <1>2, <1>5, <1>8, <2>1, <2>3, <2>5, <2>6 DEF Follows, SoundBy
<1>12. \/ q = FailNode(d, n) \/ q = d \/ q = [d EXCEPT !.nodes[n].wait = "none"]
       \/ GateType[g] = "review" /\ q = [d EXCEPT !.nodes[n].wait = "none", !.nodes[n].status = "SUCCEEDED"]
          /\ PendingGates(d, n, "review") = {}
  BY <1>1 DEF GateDecided, d
<1> QED
  <2>1. CASE q = FailNode(d, n) \/ q = d
    BY <1>9, <1>10, <2>1
  <2>2. CASE Follows(d, q, events) /\ q \in Run /\ q.status = r.status
    BY <1>2, <1>8, <2>2, FollowsSound
  <2> QED
    BY <1>11, <1>12, <2>1, <2>2

\* A change of n's wait alone, while it is READY or a running attempt goes to the agent.
LEMMA WaitSound ==
  ASSUME NEW r \in Run, NEW before, SoundBy(r, before), r.status \notin RunTerminal,
         NEW n \in Nodes, r.nodes[n].status \in {"READY", "RUNNING"},
         NEW wait \in {"none", "approval", "submission"}, NEW q, q = [r EXCEPT !.nodes[n].wait = wait]
  PROVE  /\ Follows(r, q, before) /\ q \in Run /\ q.status = r.status
         /\ q.nodes[n].status = r.nodes[n].status /\ q.nodes[n].wait = wait
<1>1. r.nodes[n] \in NodeState /\ [r.nodes[n] EXCEPT !.wait = wait] \in NodeState
  BY DEF Run, NodeState, Waits
<1>2. /\ q \in Run /\ q.status = r.status /\ q.plan = r.plan /\ q.gates = r.gates /\ q.holds = r.holds
      /\ q.stopped = r.stopped /\ q.verification = r.verification
      /\ \A m \in Nodes \ {n} : q.nodes[m] = r.nodes[m]
      /\ q.nodes[n].status = r.nodes[n].status /\ q.nodes[n].wait = wait
      /\ q.nodes[n].attempts = r.nodes[n].attempts
  BY <1>1 DEF Run, NodeState
<1>3. Open(r, n) /\ Open(q, n) /\ q.nodes[n].wait # "review"
  BY <1>2 DEF Open, NodeTerminal
<1> QED
  BY <1>2, <1>3, OpenNodesSound

\* The start of an attempt, with its event.
LEMMA StartedSound ==
  ASSUME NEW r \in Run, NEW before, SoundBy(r, before),
         r.status \notin RunTerminal, NEW n \in Nodes, r.nodes[n].status = "READY",
         NEW q, q = Started(r, n),
         NEW events, events = before \cup {<<"node.started", n, q.nodes[n].attempts>>}
  PROVE  Follows(r, q, events) /\ q \in Run /\ q.status = r.status
<1>1. /\ q \in Run /\ q.nodes[n].status = "RUNNING" /\ q.nodes[n].wait = "none"
      /\ q.status = r.status /\ q.plan = r.plan /\ q.gates = r.gates
      /\ \A m \in Nodes \ {n} : q.nodes[m] = r.nodes[m]
  BY StartedType
<1>2. q.holds = r.holds /\ q.stopped = r.stopped /\ q.verification = r.verification
  BY DEF Started, Run
<1>3. q.nodes[n].attempts = r.nodes[n].attempts + 1
  <2>1. r.nodes[n] \in NodeState
    BY DEF Run
  <2>2. q.nodes[n] = [[[r.nodes[n] EXCEPT !.status = "RUNNING"] EXCEPT !.wait = "none"] EXCEPT !.attempts = @ + 1]
    BY DEF Run, Started
  <2> QED
    BY <2>1, <2>2 DEF NodeState
<1>4. Open(r, n) /\ StatusEvent(q, n) = {}
  BY <1>1 DEF Open, NodeTerminal, StatusEvent
<1>5. NodeMove(r, q, n, events)
  BY <1>1, <1>3, <1>4 DEF NodeMove
<1>6. \A m \in Nodes : NodeMove(r, q, m, events)
  BY <1>1, <1>5, NodeStays
<1>7. RunMove(r, q, events)
  BY <1>1, <1>2, RunStays
<1> QED
  BY <1>1, <1>2, <1>6, <1>7 DEF Follows, SoundBy

\* More events account for as much.
LEMMA MoreEvents ==
  ASSUME NEW r, NEW before, NEW events, before \subseteq events, SoundBy(r, before)
  PROVE  SoundBy(r, events)
<1>1. Recorded(r, before)
  BY DEF SoundBy
<1>2. Recorded(r, events)
  BY <1>1 DEF Recorded
<1> QED
  BY <1>2 DEF SoundBy

\* The holds of a settlement are the waits of its nodes.
LEMMA HoldsAreWaits ==
  ASSUME NEW r, NEW x, NEW n \in Nodes, NEW kind \in Waits \ {"none"}
  PROVE  <<kind, n>> \in HoldsOf(r, x) <=> r.nodes[n].wait = kind
<1> DEFINE waiting == {m \in Nodes : r.nodes[m].wait # "none"}
           listed == {<<r.nodes[m].wait, m>> : m \in waiting}
           held == listed \cup (IF x THEN {<<"budget">>} ELSE {})
<1>1. <<kind, n>> # <<"budget">> /\ <<kind, n>> # <<"deadlocked">>
  OBVIOUS
<1>2. <<kind, n>> \in listed <=> r.nodes[n].wait = kind
  <2>1. ASSUME <<kind, n>> \in listed PROVE r.nodes[n].wait = kind
    <3>1. PICK m \in waiting : <<kind, n>> = <<r.nodes[m].wait, m>>
      BY <2>1
    <3> QED
      BY <3>1
  <2>2. ASSUME r.nodes[n].wait = kind PROVE <<kind, n>> \in listed
    BY <2>2
  <2> QED
    BY <2>1, <2>2
<1>3. <<kind, n>> \in held <=> <<kind, n>> \in listed
  BY <1>1
<1>4. HoldsOf(r, x) = IF held = {} THEN {<<"deadlocked">>} ELSE held
  BY DEF HoldsOf
<1> HIDE DEF held, listed
<1> QED
  BY <1>1, <1>2, <1>3, <1>4

\* _settle of an open run.
LEMMA SettledSound ==
  ASSUME NEW r \in Run, Coherent(r), NEW before, NEW events, before \subseteq events, SoundBy(r, before),
         r.status \notin RunTerminal, r.status # "DRAFT", NEW x \in BOOLEAN, NEW q, q = Settled(r, x),
         FinishedEvent(q) \subseteq events
  PROVE  SoundBy(q, events) /\ q \in Run /\ q.nodes = r.nodes /\ HoldsMatch(q)
<1>1. q \in Run
  BY SettledType
<1>2. /\ q.nodes = r.nodes /\ q.gates = r.gates /\ q.plan = r.plan /\ q.stopped = r.stopped
      /\ q.verification = r.verification
      /\ \/ /\ q.status \in {"SUCCEEDED", "FAILED"} /\ q.holds = {} /\ q.status = FinalStatus(r)
            /\ \A n \in Nodes : ~Open(r, n)
         \/ q.status = "WAITING" /\ q.holds = HoldsOf(r, x)
  <2>1. CASE \A n \in Nodes : ~Open(r, n)
    <3>1. q = [r EXCEPT !.status = FinalStatus(r), !.holds = {}]
      BY <2>1 DEF Settled
    <3>2. FinalStatus(r) \in {"SUCCEEDED", "FAILED"}
      BY DEF FinalStatus
    <3> QED
      BY <2>1, <3>1, <3>2 DEF Run
  <2>2. CASE ~(\A n \in Nodes : ~Open(r, n))
    <3>1. q = [r EXCEPT !.status = "WAITING", !.holds = HoldsOf(r, x)]
      BY <2>2 DEF Settled
    <3> QED
      BY <3>1 DEF Run
  <2> QED
    BY <2>1, <2>2
<1>3. Explained(r) /\ FailureBehind(r) /\ Delivered(r) /\ Recorded(r, before) /\ r.status # "CANCELLED"
  BY DEF SoundBy, RunTerminal
<1>4. Explained(q) /\ FailureBehind(q)
  BY <1>2, <1>3 DEF Explained, FailureBehind
<1>5. Delivered(q)
  <2>1. \A g \in Gates : Approved(q, g) = Approved(r, g)
    BY <1>2 DEF Approved, Binding
  <2> QED
    BY <1>2, <1>3, <2>1 DEF Delivered
<1>6. Recorded(q, events)
  <2>1. \A n \in Nodes : StatusEvent(q, n) = StatusEvent(r, n)
    BY <1>2, Zenon DEF StatusEvent
  <2>2. Recorded(r, events)
    BY MoreEvents DEF SoundBy
  <2>3. q.status # "CANCELLED"
    BY <1>2
  <2> QED
    BY <1>2, <2>1, <2>2, <2>3, Zenon DEF Recorded
<1>7. EndsTruthfully(q)
  <2> SUFFICES ASSUME q.status \in RunTerminal PROVE EndsTruthfully(q)
    BY DEF EndsTruthfully
  <2>1. q.holds = {} /\ q.status = FinalStatus(r) /\ \A n \in Nodes : r.nodes[n].status \in NodeTerminal
    BY <1>2 DEF Open, RunTerminal
  <2>2. \A n \in Nodes : r.nodes[n].wait = "none"
    <3> SUFFICES ASSUME NEW n \in Nodes PROVE r.nodes[n].wait = "none"
      OBVIOUS
    <3>1. r.nodes[n] \in NodeState
      BY DEF Run
    <3> QED
      BY <2>1, <3>1 DEF Coherent, NodeTerminal, NodeState, Waits
  <2>3. CASE \A n \in Nodes : r.nodes[n].status = "SUCCEEDED"
    BY <1>2, <2>1, <2>2, <2>3 DEF EndsTruthfully, FinalStatus, Open
  <2>4. CASE ~(\A n \in Nodes : r.nodes[n].status = "SUCCEEDED")
    <3>1. PICK n \in Nodes : r.nodes[n].status \in {"FAILED", "BLOCKED", "SKIPPED"}
      BY <2>1, <2>4 DEF NodeTerminal
    <3>2. \E m \in Nodes : r.nodes[m].status = "FAILED"
      <4>1. CASE r.nodes[n].status = "BLOCKED"
        BY <1>3, <4>1 DEF FailureBehind
      <4>2. CASE r.nodes[n].status = "SKIPPED"
        BY <1>3, <4>2, NodeAssumption DEF Explained
      <4> QED
        BY <3>1, <4>1, <4>2
    <3>3. q.status = "FAILED"
      BY <2>1, <2>4 DEF FinalStatus
    <3> QED
      BY <1>2, <2>1, <2>2, <3>2, <3>3 DEF EndsTruthfully, Open
  <2> QED
    BY <2>3, <2>4
<1>8. q.verification # "VERIFIED" /\ q.status # "DRAFT"
  BY <1>2 DEF SoundBy, Verifies, RunTerminal
<1>9. HoldsMatch(q)
  <2> SUFFICES ASSUME q.status = "WAITING", NEW n \in Nodes, NEW kind \in Waits \ {"none"}
               PROVE  <<kind, n>> \in q.holds <=> q.nodes[n].wait = kind
    BY DEF HoldsMatch
  <2>1. q.holds = HoldsOf(r, x)
    BY <1>2
  <2>2. <<kind, n>> \in HoldsOf(r, x) <=> r.nodes[n].wait = kind
    BY HoldsAreWaits
  <2> QED
    BY <1>2, <2>1, <2>2, Zenon
<1> QED
  BY <1>1, <1>2, <1>4, <1>5, <1>6, <1>7, <1>8, <1>9 DEF SoundBy

-----------------------------------------------------------------------------
(* OutcomeInvariant is inductive.                                          *)

\* The initial records: nothing has ended, nothing is held, nothing happened.
LEMMA OutcomeInit == Init => OutcomeInvariant
<1> SUFFICES ASSUME Init PROVE OutcomeInvariant
  OBVIOUS
<1>1. ASSUME NEW status \in {"DRAFT", "APPROVED"}, NEW plan \in {"none", "NOT_REQUIRED"},
             NEW r, r = NewRun(status, plan)
      PROVE  SoundBy(r, {}) /\ HoldsMatch(r) /\ r.status \notin RunTerminal /\ \A n \in Nodes : Open(r, n)
  <2>1. /\ \A n \in Nodes : r.nodes[n].status = "PENDING" /\ r.nodes[n].wait = "none" /\ r.nodes[n].attempts = 0
        /\ \A g \in Gates : r.gates[g].decision = "none"
        /\ r.status = status /\ r.plan = plan /\ r.holds = {} /\ r.stopped = FALSE /\ r.verification = "none"
    BY <1>1 DEF NewRun
  <2>2. Explained(r) /\ FailureBehind(r) /\ EndsTruthfully(r) /\ Delivered(r) /\ HoldsMatch(r)
    BY <1>1, <2>1 DEF Explained, FailureBehind, EndsTruthfully, Delivered, HoldsMatch, RunTerminal
  <2>3. \A n \in Nodes : StatusEvent(r, n) = {} /\ Open(r, n)
    BY <2>1 DEF StatusEvent, Open, NodeTerminal
  <2>4. FinishedEvent(r) = {} /\ r.plan \notin {"APPROVED", "DENIED"} /\ r.status # "CANCELLED"
    BY <1>1, <2>1 DEF FinishedEvent
  <2>5. \A n \in Nodes : 1..r.nodes[n].attempts = {}
    <3>1. 1..0 = {}
      OBVIOUS
    <3> QED
      BY <2>1, <3>1
  <2>6. Recorded(r, {})
    BY <2>1, <2>3, <2>4, <2>5 DEF Recorded
  <2> QED
    BY <1>1, <2>1, <2>2, <2>3, <2>6 DEF SoundBy, RunTerminal
<1>2. /\ SoundBy(disk, {}) /\ HoldsMatch(disk) /\ disk.status \notin RunTerminal
      /\ mem = disk /\ trace = {} /\ receipt = "none" /\ pc = "create"
  BY <1>1 DEF Init
<1>3. Sound(disk) /\ Sound(mem)
  BY <1>2 DEF SoundBy, Sound
<1> QED
  BY <1>2, <1>3 DEF OutcomeInvariant

\* What the invariant says of the records, in the form the lemmas take.
LEMMA SoundRecords ==
  ASSUME TypeOK, RunInvariant, OutcomeInvariant
  PROVE  /\ disk \in Run /\ mem \in Run /\ Coherent(disk) /\ Coherent(mem)
         /\ SoundBy(disk, trace) /\ SoundBy(mem, trace)
         /\ pc = "idle" => mem = disk
         /\ pc \notin {"idle", "create", "save", "attest"} => /\ mem.status \notin RunTerminal \cup {"DRAFT"}
                                                              /\ disk.status \notin RunTerminal
<1>1. Sound(disk) /\ Sound(mem)
  BY DEF OutcomeInvariant
<1>2. SoundBy(disk, trace) /\ SoundBy(mem, trace)
  BY <1>1 DEF Sound, SoundBy
<1> QED
  BY <1>2 DEF OutcomeInvariant, RunInvariant, TypeOK

\* A request begins on an open run.
LEMMA RequestSound ==
  ASSUME TypeOK, RunInvariant, OutcomeInvariant, pc = "idle", disk.status \notin RunTerminal,
         disk' = disk, receipt' = receipt, trace \subseteq trace', SoundBy(mem', trace'),
         \A n \in Nodes : ~Open(disk, n) => mem'.nodes[n] = disk.nodes[n],
         \/ pc' \in {"refresh", "resettle"} /\ mem'.status \notin RunTerminal
         \/ pc' = "save" /\ HoldsMatch(mem')
  PROVE  OutcomeInvariant'
<1>1. SoundBy(disk, trace')
  BY SoundRecords, MoreEvents
<1>2. Sound(disk)' /\ Sound(mem)'
  BY <1>1 DEF Sound, SoundBy
<1>3. HoldsMatch(disk) /\ (receipt = "VERIFIED" => Verifies(disk))
  BY DEF OutcomeInvariant
<1> QED
  BY <1>2, <1>3 DEF OutcomeInvariant

\* The operation goes on.
LEMMA WorkSound ==
  ASSUME TypeOK, RunInvariant, OutcomeInvariant, pc \notin {"idle", "create", "save", "attest"},
         disk' = disk, receipt' = receipt, trace \subseteq trace', SoundBy(mem', trace'),
         \A n \in Nodes : ~Open(mem, n) => mem'.nodes[n] = mem.nodes[n],
         \/ pc' \in {"refresh", "visit", "ahead", "resettle"} /\ mem'.status \notin RunTerminal
         \/ pc' = "save" /\ HoldsMatch(mem')
  PROVE  OutcomeInvariant'
<1>1. SoundBy(disk, trace') /\ disk.status \notin RunTerminal
  BY SoundRecords, MoreEvents
<1>2. Sound(disk)' /\ Sound(mem)'
  BY <1>1 DEF Sound, SoundBy
<1>3. HoldsMatch(disk) /\ (receipt = "VERIFIED" => Verifies(disk))
  BY DEF OutcomeInvariant
<1>4. ASSUME NEW n \in Nodes, ~Open(disk, n) PROVE mem'.nodes[n] = disk.nodes[n]
  <2>1. mem.nodes[n] = disk.nodes[n]
    BY <1>4 DEF OutcomeInvariant
  <2>2. ~Open(mem, n)
    BY <1>4, <2>1 DEF Open
  <2> QED
    BY <2>1, <2>2
<1> QED
  BY <1>1, <1>2, <1>3, <1>4 DEF OutcomeInvariant

\* It ends without a save: the process died, an executor was missing, or the run was created.
LEMMA WorkLost ==
  ASSUME TypeOK, RunInvariant, OutcomeInvariant, disk' = disk, Release,
         trace \subseteq trace', receipt' = receipt
  PROVE  OutcomeInvariant'
<1>1. mem' = disk /\ pc' = "idle" /\ disk \in Run
  BY SoundRecords DEF Release
<1>4. SoundBy(disk, trace')
  BY SoundRecords, MoreEvents
<1>2. Sound(disk)' /\ Sound(mem)'
  BY <1>1, <1>4 DEF Sound, SoundBy
<1>3. mem' = [disk' EXCEPT !.verification = mem'.verification]
  BY <1>1 DEF Run
<1> QED
  BY <1>1, <1>2, <1>3 DEF OutcomeInvariant

\* The operator's requests keep the invariant.
LEMMA OutcomeRequest == TypeOK /\ RunInvariant /\ OutcomeInvariant /\ Request => OutcomeInvariant'
<1> SUFFICES ASSUME TypeOK, RunInvariant, OutcomeInvariant, Request PROVE OutcomeInvariant'
  OBVIOUS
<1>t. /\ disk \in Run /\ Coherent(disk) /\ SoundBy(disk, trace) /\ HoldsMatch(disk)
      /\ EndsTruthfully(disk)
  BY SoundRecords DEF OutcomeInvariant, SoundBy
<1>u. mem' \in Run
  BY TypeRequest DEF TypeOK
<1>1. ASSUME NEW decision \in {"APPROVED", "DENIED"}, DecidePlan(decision) PROVE OutcomeInvariant'
  <2>1. /\ pc = "idle" /\ disk' = disk /\ receipt' = receipt /\ pc' = "save" /\ disk.status = "DRAFT"
        /\ trace' = trace \cup {<<"approval.decided", "plan", decision>>}
    BY <1>1 DEF DecidePlan, Requested
  <2>2. trace \subseteq trace' /\ <<"approval.decided", "plan", decision>> \in trace'
    BY <2>1
  <2>3. disk.status \notin RunTerminal /\ disk.holds = {}
    BY <1>t, <2>1 DEF RunTerminal, SoundBy
  <2>4. CASE decision = "APPROVED"
    <3>1. mem' = [disk EXCEPT !.status = "APPROVED", !.plan = "APPROVED"]
      BY <1>1, <2>4 DEF DecidePlan
    <3>2. /\ mem'.nodes = disk.nodes /\ mem'.gates = disk.gates /\ mem'.stopped = disk.stopped
          /\ mem'.verification = disk.verification /\ mem'.holds = disk.holds
          /\ mem'.status = "APPROVED" /\ mem'.plan = "APPROVED"
      BY <1>t, <3>1 DEF Run
    <3>3. \A n \in Nodes : NodeMove(disk, mem', n, trace')
      BY <1>t, <2>2, <3>2, NodeStays
    <3>4. RunMove(disk, mem', trace')
      BY <2>2, <2>4, <3>2 DEF RunMove
    <3>5. Follows(disk, mem', trace') /\ HoldsMatch(mem')
      BY <2>3, <3>2, <3>3, <3>4 DEF Follows, HoldsMatch, RunTerminal
    <3> QED
      BY <1>t, <1>u, <2>1, <2>2, <2>3, <3>5, FollowsSound, RequestSound
  <2>5. CASE decision = "DENIED"
    <3>1. mem' = [SkipOpenNodes(disk) EXCEPT !.status = "CANCELLED", !.plan = "DENIED"]
      BY <1>1, <2>5 DEF DecidePlan
    <3>2. /\ mem'.nodes = SkipOpenNodes(disk).nodes /\ mem'.gates = disk.gates
          /\ mem'.stopped = disk.stopped /\ mem'.verification = disk.verification
          /\ mem'.holds = disk.holds /\ mem'.status = "CANCELLED" /\ mem'.plan = "DENIED"
      BY <1>t, <3>1 DEF Run, SkipOpenNodes
    <3>3. Follows(disk, mem', trace') /\ HoldsMatch(mem')
      BY <1>t, <1>u, <2>2, <2>3, <2>5, <3>2, SkippedSound DEF HoldsMatch
    <3> QED
      BY <1>t, <1>u, <2>1, <2>2, <2>3, <3>3, FollowsSound, RequestSound
  <2> QED
    BY <2>4, <2>5
<1>2. ASSUME NEW decision \in {"APPROVED", "DENIED"}, NEW g \in Gates, DecideGate(g, decision)
      PROVE  OutcomeInvariant'
  <2>1. /\ pc = "idle" /\ disk' = disk /\ receipt' = receipt /\ pc' \in {"refresh", "resettle"}
        /\ AwaitsDecision(disk, g) /\ mem' = GateDecided(disk, g, decision)
        /\ trace' = trace \cup {<<"approval.decided", g, decision>>} \cup StatusEvent(mem', GateNode[g])
    BY <1>2 DEF DecideGate, Requested, BeginAdvance, BeginSettle
  <2>2. /\ trace \subseteq trace' /\ <<"approval.decided", g, decision>> \in trace'
        /\ StatusEvent(mem', GateNode[g]) \subseteq trace'
    BY <2>1
  <2>3. disk.status \notin RunTerminal
    BY <2>1 DEF AwaitsDecision
  <2>4. /\ SoundBy(mem', trace') /\ mem'.status = disk.status
        /\ \A m \in Nodes : ~Open(disk, m) => mem'.nodes[m] = disk.nodes[m]
    <3>1. Deciding(disk, trace, g, decision, mem', trace')
      BY <1>t, <2>1, <2>2 DEF Deciding
    <3> QED
      BY <3>1, GateDecidedSound
  <2> QED
    BY <2>1, <2>2, <2>3, <2>4, RequestSound
<1>3. CASE Execute
  <2>1. /\ pc = "idle" /\ disk' = disk /\ receipt' = receipt /\ pc' = "refresh" /\ trace' = trace
        /\ disk.status \notin RunTerminal /\ mem' = [disk EXCEPT !.status = "RUNNING"]
    BY <1>3 DEF Execute, Requested, BeginAdvance
  <2>2. /\ mem'.nodes = disk.nodes /\ mem'.gates = disk.gates /\ mem'.stopped = disk.stopped
        /\ mem'.verification = disk.verification /\ mem'.holds = disk.holds
        /\ mem'.status = "RUNNING" /\ mem'.plan = disk.plan
    BY <1>t, <2>1 DEF Run
  <2>3. Follows(disk, mem', trace)
    BY <1>t, <2>1, <2>2, OpenNodesSound DEF RunTerminal
  <2> QED
    BY <1>t, <1>u, <2>1, <2>2, <2>3, FollowsSound, RequestSound DEF RunTerminal
<1>4. ASSUME NEW n \in Nodes, NEW result \in Results, Submit(n, result) PROVE OutcomeInvariant'
  <2> DEFINE r == [disk EXCEPT !.nodes[n].wait = "none"]
  <2>1. /\ pc = "idle" /\ disk' = disk /\ receipt' = receipt /\ pc' = "refresh"
        /\ trace' = trace \cup StatusEvent(mem', n)
        /\ disk.status \notin RunTerminal /\ disk.nodes[n].status = "RUNNING"
        /\ disk.nodes[n].wait = "submission" /\ mem' = CompleteAttempt(r, n, result)
    BY <1>4 DEF Submit, Requested, BeginAdvance, AwaitsSubmission
  <2>2. /\ Follows(disk, r, trace) /\ r \in Run /\ r.status = disk.status
        /\ r.nodes[n].status = "RUNNING" /\ r.nodes[n].wait = "none"
    BY <1>t, <2>1, WaitSound
  <2>3. Coherent(r)
    <3>1. /\ r.plan = disk.plan /\ r.gates = disk.gates
          /\ \A m \in Nodes \ {n} : r.nodes[m] = disk.nodes[m]
          /\ r.nodes[n].attempts = disk.nodes[n].attempts
      <4>1. disk.nodes[n] \in NodeState
        BY <1>t DEF Run
      <4> QED
        BY <1>t, <4>1 DEF Run, NodeState
    <3> HIDE DEF r
    <3>2. SafeMove(disk, r, n)
      BY <2>1, <2>2, <3>1 DEF SafeMove, Admitted, Begun
    <3>3. \A m \in Nodes : SafeMove(disk, r, m)
      BY <1>t, <3>1, <3>2, StayingIsSafe
    <3>4. PlanStanding(r) /\ (PlanCleared(disk) => PlanCleared(r))
      BY <1>t, <2>2, <3>1 DEF PlanStanding, PlanCleared, Coherent
    <3> QED
      BY <1>t, <2>2, <3>1, <3>3, <3>4, CoherentMove
  <2> HIDE DEF r
  <2>4. SoundBy(r, trace) /\ \A m \in Nodes : ~Open(disk, m) => r.nodes[m] = disk.nodes[m]
    BY <1>t, <2>2, FollowsSound
  <2>5. trace \subseteq trace' /\ StatusEvent(mem', n) \subseteq trace'
    BY <2>1
  <2>6. Follows(r, mem', trace') /\ mem'.status = r.status
    BY <2>1, <2>2, <2>3, <2>4, <2>5, CompleteAttemptSound
  <2>7. SoundBy(mem', trace') /\ \A m \in Nodes : ~Open(r, m) => mem'.nodes[m] = r.nodes[m]
    BY <1>u, <2>2, <2>4, <2>5, <2>6, FollowsSound
  <2>8. \A m \in Nodes : ~Open(disk, m) => mem'.nodes[m] = disk.nodes[m]
    BY <2>4, <2>7 DEF Open
  <2> QED
    BY <2>1, <2>2, <2>5, <2>6, <2>7, <2>8, RequestSound
<1>5. CASE Resume
  <2>1. /\ pc = "idle" /\ disk' = disk /\ receipt' = receipt /\ trace' = trace
        /\ disk.status \notin RunTerminal
        /\ \/ disk.status = "DRAFT" /\ mem' = Recovered(disk) /\ pc' = "save"
           \/ mem' = [Recovered(disk) EXCEPT !.status = "RUNNING"] /\ pc' = "refresh"
    BY <1>5 DEF Resume, Requested, BeginAdvance
  <2>2. PICK r : r = Recovered(disk)
    OBVIOUS
  <2>3. Follows(disk, r, trace) /\ r \in Run /\ r.status = disk.status
    BY <1>t, <2>1, <2>2, RecoveredSound
  <2>4. SoundBy(r, trace) /\ \A m \in Nodes : ~Open(disk, m) => r.nodes[m] = disk.nodes[m]
    BY <1>t, <2>3, FollowsSound
  <2>5. CASE disk.status = "DRAFT" /\ mem' = r /\ pc' = "save"
    <3>1. HoldsMatch(mem')
      BY <2>3, <2>5 DEF HoldsMatch
    <3> QED
      BY <2>1, <2>4, <2>5, <3>1, RequestSound
  <2>6. CASE mem' = [r EXCEPT !.status = "RUNNING"] /\ pc' = "refresh"
    <3>1. /\ mem'.nodes = r.nodes /\ mem'.gates = r.gates /\ mem'.stopped = r.stopped
          /\ mem'.verification = r.verification /\ mem'.holds = r.holds
          /\ mem'.status = "RUNNING" /\ mem'.plan = r.plan
      BY <2>3, <2>6 DEF Run
    <3>2. Follows(r, mem', trace)
      BY <2>1, <2>3, <2>4, <3>1, OpenNodesSound DEF RunTerminal
    <3>3. SoundBy(mem', trace')
      BY <1>u, <2>1, <2>3, <2>4, <3>2, FollowsSound
    <3> QED
      BY <2>1, <2>4, <2>6, <3>1, <3>3, RequestSound DEF RunTerminal
  <2> QED
    BY <2>1, <2>2, <2>5, <2>6
<1>6. ASSUME NEW n \in Nodes, RetryNode(n) PROVE OutcomeInvariant'
  <2>1. /\ pc = "idle" /\ disk' = disk /\ receipt' = receipt /\ pc' = "refresh" /\ trace' = trace
        /\ disk.nodes[n].wait = "attention"
        /\ mem' = [disk EXCEPT !.status = "RUNNING", !.nodes[n].wait = "none", !.nodes[n].status = "READY"]
    BY <1>6 DEF RetryNode, Requested, BeginAdvance
  <2>2. disk.nodes[n].status = "RUNNING" /\ disk.nodes[n] \in NodeState
    BY <1>t, <2>1 DEF Coherent, Run
  <2>3. Open(disk, n) /\ disk.status \notin RunTerminal
    BY <1>t, <2>2 DEF Open, NodeTerminal, EndsTruthfully
  <2>4. /\ mem'.gates = disk.gates /\ mem'.stopped = disk.stopped
        /\ mem'.verification = disk.verification /\ mem'.holds = disk.holds
        /\ mem'.status = "RUNNING" /\ mem'.plan = disk.plan
        /\ \A m \in Nodes \ {n} : mem'.nodes[m] = disk.nodes[m]
        /\ mem'.nodes[n].status = "READY" /\ mem'.nodes[n].wait = "none"
        /\ mem'.nodes[n].attempts = disk.nodes[n].attempts
    BY <1>t, <2>1, <2>2 DEF Run, NodeState
  <2>5. Open(mem', n)
    BY <2>4 DEF Open, NodeTerminal
  <2>6. Follows(disk, mem', trace)
    BY <1>t, <2>3, <2>4, <2>5, OpenNodesSound DEF RunTerminal
  <2> QED
    BY <1>t, <1>u, <2>1, <2>3, <2>4, <2>6, FollowsSound, RequestSound DEF RunTerminal
<1>7. CASE Cancel
  <2>1. /\ pc = "idle" /\ disk' = disk /\ receipt' = receipt /\ pc' = "save" /\ disk.status \notin RunTerminal
        /\ trace' = trace \cup {<<"run.cancelled">>}
        /\ mem' = [SkipOpenNodes(disk) EXCEPT !.status = "CANCELLED", !.holds = {}]
    BY <1>7 DEF Cancel, Requested
  <2>2. trace \subseteq trace' /\ <<"run.cancelled">> \in trace'
    BY <2>1
  <2>3. /\ mem'.nodes = SkipOpenNodes(disk).nodes /\ mem'.gates = disk.gates
        /\ mem'.stopped = disk.stopped /\ mem'.verification = disk.verification
        /\ mem'.holds = {} /\ mem'.status = "CANCELLED" /\ mem'.plan = disk.plan
    BY <1>t, <2>1 DEF Run, SkipOpenNodes
  <2>4. Follows(disk, mem', trace') /\ HoldsMatch(mem')
    BY <1>t, <1>u, <2>1, <2>2, <2>3, SkippedSound DEF HoldsMatch
  <2>5. SoundBy(mem', trace') /\ \A n \in Nodes : ~Open(disk, n) => mem'.nodes[n] = disk.nodes[n]
    BY <1>t, <1>u, <2>2, <2>4, FollowsSound
  <2> QED
    BY <2>1, <2>2, <2>4, <2>5, RequestSound
<1>8. CASE Verify
  <2>1. /\ pc = "idle" /\ disk' = disk /\ trace' = trace /\ pc' = "attest"
        /\ receipt' = (IF Verifies(disk) THEN "VERIFIED" ELSE "NOT_VERIFIED")
        /\ mem' = [disk EXCEPT !.verification = receipt']
    BY <1>8 DEF Verify, Requested
  <2>2. /\ mem'.nodes = disk.nodes /\ mem'.gates = disk.gates /\ mem'.stopped = disk.stopped
        /\ mem'.holds = disk.holds /\ mem'.status = disk.status /\ mem'.plan = disk.plan
        /\ mem'.verification = receipt' /\ mem' = [disk EXCEPT !.verification = mem'.verification]
    BY <1>t, <2>1 DEF Run
  <2>3. receipt' = "VERIFIED" => Verifies(disk)
    BY <2>1
  <2>4. \A g \in Gates : Approved(mem', g) = Approved(disk, g)
    BY <2>2 DEF Approved, Binding
  <2>5. Verifies(disk) => Verifies(mem')
    BY <2>2, <2>4 DEF Verifies, PlanCleared
  <2>6. Explained(mem') /\ FailureBehind(mem') /\ EndsTruthfully(mem')
    BY <1>t, <2>2 DEF SoundBy, Explained, FailureBehind, EndsTruthfully, Open
  <2>7. Delivered(mem')
    BY <1>t, <2>2, <2>4 DEF SoundBy, Delivered
  <2>8. Recorded(mem', trace)
    <3>1. \A n \in Nodes : StatusEvent(mem', n) = StatusEvent(disk, n)
      BY <2>2, Zenon DEF StatusEvent
    <3>2. FinishedEvent(mem') = FinishedEvent(disk)
      BY <2>2, Zenon DEF FinishedEvent
    <3> QED
      BY <1>t, <2>2, <3>1, <3>2, Zenon DEF SoundBy, Recorded
  <2>9. Sound(mem)'
    BY <1>t, <2>1, <2>2, <2>3, <2>5, <2>6, <2>7, <2>8 DEF SoundBy, Sound
  <2>10. Sound(disk)' /\ HoldsMatch(mem')
    BY <1>t, <2>1, <2>2 DEF SoundBy, Sound, HoldsMatch, Interrupted
  <2> QED
    BY <1>t, <2>1, <2>2, <2>3, <2>9, <2>10 DEF OutcomeInvariant
<1> QED
  BY <1>1, <1>2, <1>3, <1>4, <1>5, <1>6, <1>7, <1>8 DEF Request

\* The steps taken at a node keep the invariant.
LEMMA OutcomeVisit == TypeOK /\ RunInvariant /\ OutcomeInvariant /\ VisitNode => OutcomeInvariant'
<1> DEFINE n == Current
<1> SUFFICES ASSUME TypeOK, RunInvariant, OutcomeInvariant, VisitNode PROVE OutcomeInvariant'
  OBVIOUS
<1>t. n \in Nodes /\ mem \in Run /\ Coherent(mem) /\ SoundBy(mem, trace)
  BY SoundRecords, CurrentIsNode DEF VisitNode, TypeOK, HoldForApproval, RefuseNode, ExecutorMissing,
     StartNode, DeferNode, RunBuiltin, AtNode, Visiting, Current
<1>o. pc \notin {"idle", "create", "save", "attest"} => mem.status \notin RunTerminal \cup {"DRAFT"}
  BY SoundRecords
<1>v. AtNode => pc = "visit" /\ mem.nodes[n].status = "READY" /\ mem.status \notin RunTerminal \cup {"DRAFT"}
  BY <1>o DEF AtNode, Visiting, Visitable
<1>c. pc = "call" => /\ mem.nodes[n].status = "RUNNING" /\ mem.nodes[n].wait = "none"
                     /\ mem.status \notin RunTerminal \cup {"DRAFT"}
  BY <1>o DEF RunInvariant
<1> HIDE DEF n
<1>u. TypeOK'
  BY TypeVisit
<1>1. CASE HoldForApproval(n)
  <2>1. /\ AtNode /\ mem' = [mem EXCEPT !.nodes[n].wait = "approval"] /\ pc' = "visit"
        /\ disk' = disk /\ receipt' = receipt /\ trace' = trace
    BY <1>1, <1>v DEF HoldForApproval
  <2>2. Follows(mem, mem', trace) /\ mem' \in Run /\ mem'.status = mem.status
    BY <1>t, <1>v, <2>1, WaitSound
  <2> QED
    BY <1>t, <1>v, <2>1, <2>2, FollowsSound, WorkSound
<1>2. CASE RefuseNode(n)
  <2> DEFINE r == [mem EXCEPT !.nodes[n].wait = "none"]
  <2>1. /\ AtNode /\ mem' = FailNode(r, n) /\ pc' = "visit" /\ disk' = disk /\ receipt' = receipt
        /\ trace' = trace \cup StatusEvent(mem', n)
    BY <1>2, <1>v DEF RefuseNode
  <2>2. Follows(mem, r, trace) /\ r \in Run /\ r.status = mem.status /\ r.nodes[n].status = "READY"
    BY <1>t, <1>v, <2>1, WaitSound
  <2> HIDE DEF r
  <2>3. SoundBy(r, trace) /\ \A m \in Nodes : ~Open(mem, m) => r.nodes[m] = mem.nodes[m]
    BY <1>t, <2>2, FollowsSound
  <2>4. trace \subseteq trace' /\ StatusEvent(mem', n) \subseteq trace' /\ Open(r, n) /\ r.status \notin RunTerminal \cup {"DRAFT"}
    BY <1>v, <2>1, <2>2 DEF Open, NodeTerminal
  <2>5. Follows(r, mem', trace') /\ mem' \in Run /\ mem'.status = r.status
    BY <1>t, <2>1, <2>2, <2>3, <2>4, FailNodeSound
  <2>6. SoundBy(mem', trace') /\ \A m \in Nodes : ~Open(r, m) => mem'.nodes[m] = r.nodes[m]
    BY <2>2, <2>3, <2>4, <2>5, FollowsSound
  <2>7. \A m \in Nodes : ~Open(mem, m) => mem'.nodes[m] = mem.nodes[m]
    BY <2>3, <2>6 DEF Open
  <2> QED
    BY <1>v, <2>1, <2>2, <2>4, <2>5, <2>6, <2>7, WorkSound
<1>3. CASE ExecutorMissing(n)
  BY <1>3, WorkLost DEF ExecutorMissing
<1>4. CASE StartNode(n)
  <2>1. /\ AtNode /\ mem' = Started(mem, n) /\ pc' = "ahead" /\ disk' = disk /\ receipt' = receipt
        /\ trace' = trace \cup {<<"node.started", n, mem'.nodes[n].attempts>>}
    BY <1>4 DEF StartNode
  <2>2. trace \subseteq trace'
    BY <2>1
  <2>3. Follows(mem, mem', trace') /\ mem' \in Run /\ mem'.status = mem.status
    BY <1>t, <1>v, <2>1, <2>2, StartedSound
  <2> QED
    BY <1>t, <1>v, <2>1, <2>2, <2>3, FollowsSound, WorkSound
<1>5. CASE DeferNode(n)
  <2>1. /\ pc = "call" /\ mem' = [mem EXCEPT !.nodes[n].wait = "submission"] /\ pc' = "visit"
        /\ disk' = disk /\ receipt' = receipt /\ trace' = trace
    BY <1>5 DEF DeferNode, Invoke
  <2>2. Follows(mem, mem', trace) /\ mem' \in Run /\ mem'.status = mem.status
    BY <1>t, <1>c, <2>1, WaitSound
  <2> QED
    BY <1>t, <1>c, <2>1, <2>2, FollowsSound, WorkSound
<1>6. ASSUME NEW result \in Results, RunBuiltin(n, result) PROVE OutcomeInvariant'
  <2>1. /\ pc = "call" /\ mem' = CompleteAttempt(mem, n, result) /\ pc' = "visit"
        /\ disk' = disk /\ receipt' = receipt /\ trace' = trace \cup StatusEvent(mem', n)
    BY <1>6 DEF RunBuiltin, Invoke
  <2>2. trace \subseteq trace' /\ StatusEvent(mem', n) \subseteq trace'
    BY <2>1
  <2>3. Follows(mem, mem', trace') /\ mem' \in Run /\ mem'.status = mem.status
    BY <1>t, <1>c, <2>1, <2>2, CompleteAttemptSound
  <2> QED
    BY <1>t, <1>c, <2>1, <2>2, <2>3, FollowsSound, WorkSound
<1> QED
  BY <1>1, <1>2, <1>3, <1>4, <1>5, <1>6 DEF VisitNode, n

\* The engine's other steps keep the invariant.
LEMMA OutcomeStep == TypeOK /\ RunInvariant /\ OutcomeInvariant /\ Step => OutcomeInvariant'
<1> SUFFICES ASSUME TypeOK, RunInvariant, OutcomeInvariant, Step PROVE OutcomeInvariant'
  OBVIOUS
<1>t. /\ mem \in Run /\ Coherent(mem) /\ SoundBy(mem, trace)
      /\ pc \notin {"idle", "create", "save", "attest"} => /\ mem.status \notin RunTerminal \cup {"DRAFT"}
                                                           /\ disk.status \notin RunTerminal
  BY SoundRecords
<1>1. CASE RefreshNode
  <2>1. Current \in Nodes
    BY <1>1, CurrentIsNode DEF RefreshNode, TypeOK, Current
  <2>2. /\ disk' = disk /\ receipt' = receipt /\ trace' = trace
        /\ pc' = pc /\ pc \in {"refresh", "resettle"}
        /\ mem' = [mem EXCEPT !.nodes[Current] = Refreshed(mem, Current)]
    BY <1>1 DEF RefreshNode
  <2>3. Follows(mem, mem', trace) /\ mem' \in Run /\ mem'.status = mem.status
    BY <1>t, <2>1, <2>2, RefreshedSound
  <2> QED
    BY <1>t, <2>2, <2>3, FollowsSound, WorkSound
<1>2. CASE BeginPass \/ PassOver \/ StopOnBudget \/ EndPass
  <2>1. /\ disk' = disk /\ receipt' = receipt /\ trace' = trace /\ mem' = mem
        /\ pc \in {"refresh", "visit"} /\ pc' \in {"refresh", "visit", "resettle"}
    BY <1>2 DEF BeginPass, PassOver, StopOnBudget, EndPass, Visiting
  <2> QED
    BY <1>t, <2>1, WorkSound
<1>3. CASE VisitNode
  BY <1>3, OutcomeVisit
<1>4. CASE WriteAhead
  <2>1. /\ pc = "ahead" /\ pc' = "call" /\ disk' = mem /\ mem' = mem /\ receipt' = receipt /\ trace' = trace
    BY <1>4 DEF WriteAhead
  <2>2. Sound(mem) /\ mem.status \notin RunTerminal /\ disk.status \notin RunTerminal
    BY <1>t, <2>1 DEF OutcomeInvariant
  <2>3. receipt # "VERIFIED"
    BY <2>2 DEF OutcomeInvariant, Verifies, RunTerminal
  <2>4. Interrupted(mem, Current) /\ Current \in Nodes
    BY <2>1, CurrentIsNode DEF RunInvariant, Interrupted, TypeOK, Current
  <2>5. HoldsMatch(mem)
    BY <2>4 DEF HoldsMatch
  <2>6. Sound(disk)' /\ Sound(mem)'
    BY <2>1, <2>2 DEF Sound
  <2> QED
    BY <2>1, <2>2, <2>3, <2>5, <2>6 DEF OutcomeInvariant
<1>5. CASE Settle
  <2>1. /\ disk' = disk /\ receipt' = receipt /\ trace' = trace \cup FinishedEvent(mem')
        /\ pc = "resettle" /\ pc' = "save" /\ mem' = Settled(mem, exhausted)
    BY <1>5 DEF Settle
  <2>2. trace \subseteq trace' /\ FinishedEvent(mem') \subseteq trace' /\ exhausted \in BOOLEAN
    BY <2>1 DEF TypeOK
  <2>3. SoundBy(mem', trace') /\ mem'.nodes = mem.nodes /\ HoldsMatch(mem')
    BY <1>t, <2>1, <2>2, SettledSound
  <2> QED
    BY <2>1, <2>2, <2>3, WorkSound
<1>6. CASE Save
  <2>1. /\ pc = "save" /\ disk' = mem /\ mem' = mem /\ pc' = "idle" /\ receipt' = receipt /\ trace' = trace
    BY <1>6 DEF Save, Release
  <2>2. Sound(disk)' /\ Sound(mem)'
    BY <2>1 DEF OutcomeInvariant, Sound
  <2>3. HoldsMatch(mem)
    BY <2>1 DEF OutcomeInvariant
  <2>4. mem' = [disk' EXCEPT !.verification = mem'.verification]
    BY <1>t, <2>1 DEF Run
  <2>5. receipt = "VERIFIED" => Verifies(mem)
    <3> SUFFICES ASSUME Verifies(disk), mem = [disk EXCEPT !.verification = mem.verification] PROVE Verifies(mem)
      BY DEF OutcomeInvariant, Verifies, RunTerminal
    <3>1. mem.nodes = disk.nodes /\ mem.gates = disk.gates /\ mem.status = disk.status /\ mem.plan = disk.plan
      BY DEF TypeOK, Run
    <3>2. \A g \in Gates : Approved(mem, g) = Approved(disk, g)
      BY <3>1 DEF Approved, Binding
    <3> QED
      BY <3>1, <3>2 DEF Verifies, PlanCleared
  <2> QED
    BY <2>1, <2>2, <2>3, <2>4, <2>5 DEF OutcomeInvariant
<1>7. CASE Attest
  <2>1. /\ pc = "attest" /\ pc' = "save" /\ disk' = disk /\ mem' = mem /\ receipt' = receipt
        /\ trace \subseteq trace'
    BY <1>7 DEF Attest
  <2>2. SoundBy(disk, trace') /\ SoundBy(mem, trace')
    BY <2>1, SoundRecords, MoreEvents
  <2>3. Sound(disk)' /\ Sound(mem)'
    BY <2>1, <2>2 DEF SoundBy, Sound
  <2> QED
    BY <2>1, <2>3 DEF OutcomeInvariant
<1>8. CASE RecordCreation
  BY <1>8, WorkLost DEF RecordCreation
<1> QED
  BY <1>1, <1>2, <1>3, <1>4, <1>5, <1>6, <1>7, <1>8 DEF Step

\* Every step of a run keeps the invariant.
LEMMA OutcomeNext == TypeOK /\ RunInvariant /\ OutcomeInvariant /\ [Next]_vars => OutcomeInvariant'
<1> SUFFICES ASSUME TypeOK, RunInvariant, OutcomeInvariant, [Next]_vars PROVE OutcomeInvariant'
  OBVIOUS
<1>1. CASE Request
  BY <1>1, OutcomeRequest
<1>2. CASE Step
  BY <1>2, OutcomeStep
<1>3. CASE Crash
  BY <1>3, WorkLost DEF Crash
<1>4. CASE Reconfigure \/ UNCHANGED vars
  <2>1. disk' = disk /\ mem' = mem /\ pc' = pc /\ receipt' = receipt /\ trace' = trace
    BY <1>4 DEF Reconfigure, vars
  <2>2. Sound(disk)' /\ Sound(mem)'
    BY <2>1 DEF OutcomeInvariant, Sound
  <2> QED
    BY <2>1, <2>2 DEF OutcomeInvariant
<1> QED
  BY <1>1, <1>2, <1>3, <1>4 DEF Next

\* OutcomeInvariant holds of every state of every run.
THEOREM OutcomeHolds == Spec => []OutcomeInvariant
  BY OutcomeInit, OutcomeNext, TypeCorrect, InvariantHolds, PTL DEF Spec

-----------------------------------------------------------------------------
(* What follows from it.                                                   *)

\* A finished run has nothing open, waiting or held, and its verdict is that of its nodes.
THEOREM VerdictsAreTruthful == Spec => []VerdictTruthful
<1>1. OutcomeInvariant => VerdictTruthful
  BY DEF OutcomeInvariant, Sound, VerdictTruthful
<1> QED
  BY <1>1, OutcomeHolds, PTL

\* Every node that ended without running is below a failure, or was skipped by one or by
\* the cancellation.
THEOREM UnrunNodesAreExplained == Spec => []UnrunExplained
<1>1. OutcomeInvariant => UnrunExplained
  BY DEF OutcomeInvariant, Sound, UnrunExplained
<1> QED
  BY <1>1, OutcomeHolds, PTL

\* What settlement calls SUCCEEDED passes verification: valid outputs, every gate
\* approved and bound to the outputs that are stored.
THEOREM SucceededRunsVerify == Spec => []SucceededRunVerifies
<1>1. TypeOK /\ RunInvariant /\ OutcomeInvariant => SucceededRunVerifies
  <2> SUFFICES ASSUME TypeOK, RunInvariant, OutcomeInvariant, disk.status = "SUCCEEDED" PROVE Verifies(disk)
    BY DEF SucceededRunVerifies
  <2>1. Delivered(disk) /\ EndsTruthfully(disk) /\ Coherent(disk)
    BY DEF OutcomeInvariant, Sound, RunInvariant
  <2>2. \A n \in Nodes : disk.nodes[n].status = "SUCCEEDED"
    BY <2>1 DEF EndsTruthfully, RunTerminal
  <2>3. \A g \in Gates : Approved(disk, g)
    BY <2>1, <2>2, GateAssumption DEF Delivered
  <2>4. PlanCleared(disk)
    BY <2>1 DEF Coherent
  <2> QED
    BY <2>1, <2>2, <2>3, <2>4 DEF Verifies, Delivered
<1> QED
  BY <1>1, OutcomeHolds, InvariantHolds, TypeCorrect, PTL

\* No receipt says VERIFIED of a run that does not verify.
THEOREM ReceiptsAreTruthful == Spec => []ReceiptTruthful
<1>1. OutcomeInvariant => ReceiptTruthful
  BY DEF OutcomeInvariant, Sound, ReceiptTruthful
<1> QED
  BY <1>1, OutcomeHolds, PTL

\* The holds a waiting run lists are those of its nodes.
THEOREM HoldsAreCurrent == Spec => []HoldsCurrent
<1>1. OutcomeInvariant => HoldsCurrent
  BY DEF OutcomeInvariant, HoldsCurrent
<1> QED
  BY <1>1, OutcomeHolds, PTL

\* Whatever was decided or happened since the run was created has its event in the trace; the
\* creation itself has, unless a process died between the save of create and its event.
THEOREM TraceAccountsForState == Spec => []TraceCoversState
<1> DEFINE Created == <<"run.created">> \in trace \/ pc = "create" \/ crashes > 0
<1>1. OutcomeInvariant /\ Created => TraceCoversState
  BY DEF OutcomeInvariant, Sound, TraceCoversState
<1>2. Init => Created
  BY DEF Init
<1>3. TypeOK /\ Created /\ [Next]_vars => Created'
  <2> SUFFICES ASSUME TypeOK, Created, [Next]_vars PROVE Created'
    OBVIOUS
  <2>1. CASE RecordCreation
    BY <2>1 DEF RecordCreation
  <2>2. CASE Crash
    BY <2>2 DEF Crash, TypeOK
  <2>3. CASE Request \/ Reconfigure \/ UNCHANGED vars
    <3>1. trace \subseteq trace' /\ crashes' = crashes
      BY <2>3 DEF Request, DecidePlan, DecideGate, Submit, RetryNode, Execute, Resume, Cancel, Verify,
         Reconfigure, vars, env
    <3>2. pc = "create" => pc' = "create"
      BY <2>3 DEF Request, DecidePlan, DecideGate, Submit, RetryNode, Execute, Resume, Cancel, Verify,
         Requested, Reconfigure, vars
    <3> QED
      BY <3>1, <3>2
  <2>4. CASE Step /\ ~RecordCreation
    <3>1. trace \subseteq trace' /\ crashes' = crashes /\ pc # "create"
      BY <2>4 DEF Step, RefreshNode, BeginPass, PassOver, StopOnBudget, WriteAhead, EndPass, Settle, Save, Attest,
         VisitNode, HoldForApproval, RefuseNode, ExecutorMissing, StartNode, DeferNode, RunBuiltin, AtNode,
         Visiting, env
    <3> QED
      BY <3>1
  <2> QED
    BY <2>1, <2>2, <2>3, <2>4 DEF Next
<1> QED
  BY <1>1, <1>2, <1>3, TypeCorrect, OutcomeHolds, PTL DEF Spec

\* A finished run and a finished node are left as they are by every later operation.
THEOREM FinishedStaysFinished == Spec => FinalStays
<1> DEFINE Kept == /\ disk.status \in RunTerminal => disk'.status = disk.status /\ disk'.nodes = disk.nodes
                   /\ \A n \in Nodes : disk.nodes[n].status \in NodeTerminal => disk'.nodes[n] = disk.nodes[n]
<1>1. TypeOK /\ RunInvariant /\ OutcomeInvariant /\ [Next]_vars => [Kept]_disk
  <2> SUFFICES ASSUME TypeOK, RunInvariant, OutcomeInvariant, [Next]_vars, disk' # disk PROVE Kept
    OBVIOUS
  <2>1. disk' = mem
    <3>1. CASE Request
      BY <3>1 DEF Request, DecidePlan, DecideGate, Submit, RetryNode, Execute, Resume, Cancel, Verify
    <3>2. CASE Step
      BY <3>2 DEF Step, RefreshNode, BeginPass, PassOver, StopOnBudget, WriteAhead, EndPass, Settle, Save, Attest,
         RecordCreation, VisitNode, HoldForApproval, RefuseNode, ExecutorMissing, StartNode, DeferNode, RunBuiltin
    <3>3. CASE Crash \/ Reconfigure \/ UNCHANGED vars
      BY <3>3 DEF Crash, Reconfigure, vars
    <3> QED
      BY <3>1, <3>2, <3>3 DEF Next
  <2>2. \A n \in Nodes : ~Open(disk, n) => mem.nodes[n] = disk.nodes[n]
    BY DEF OutcomeInvariant
  <2>3. disk.status \in RunTerminal => mem.status = disk.status /\ mem.nodes = disk.nodes
    <3> SUFFICES ASSUME mem = [disk EXCEPT !.verification = mem.verification]
                 PROVE mem.status = disk.status /\ mem.nodes = disk.nodes
      BY DEF OutcomeInvariant
    <3> QED
      BY DEF TypeOK, Run
  <2> QED
    BY <2>1, <2>2, <2>3 DEF Open
<1> QED
  BY <1>1, OutcomeHolds, InvariantHolds, TypeCorrect, PTL DEF Spec, FinalStays

-----------------------------------------------------------------------------
(* What an idle run waits for.                                             *)

\* The helpers of an attempt leave the run's status and holds as they are.
LEMMA FailNodeStanding ==
  ASSUME NEW r \in Run, NEW n \in Nodes, NEW q, q = FailNode(r, n)
  PROVE  q.status = r.status /\ q.holds = r.holds
BY DEF FailNode, Run

\* _complete_attempt.
LEMMA CompleteAttemptStanding ==
  ASSUME NEW r \in Run, NEW n \in Nodes, NEW result \in Results, NEW q, q = CompleteAttempt(r, n, result)
  PROVE  q.status = r.status /\ q.holds = r.holds
<1>1. \A x \in Run : FailNode(x, n).status = x.status /\ FailNode(x, n).holds = x.holds
  BY FailNodeStanding
<1> QED
  BY <1>1 DEF CompleteAttempt, Run

\* What decide does to a gate's node.
LEMMA GateDecidedStanding ==
  ASSUME NEW r \in Run, NEW g \in Gates, NEW decision \in {"APPROVED", "DENIED"}, NEW q, q = GateDecided(r, g, decision)
  PROVE  q.status = r.status /\ q.holds = r.holds
<1> DEFINE d == Decided(r, g, decision)
<1>1. d \in Run /\ d.status = r.status /\ d.holds = r.holds
  BY DecidedType DEF Decided, Run
<1>2. GateNode[g] \in Nodes /\ GateType[g] \in GateTypes
  BY GateAssumption
<1>3. FailNode(d, GateNode[g]).status = d.status /\ FailNode(d, GateNode[g]).holds = d.holds
  BY <1>1, <1>2, FailNodeStanding
<1> HIDE DEF d
<1>4. q \in {d, FailNode(d, GateNode[g]), [d EXCEPT !.nodes[GateNode[g]].wait = "none"],
             [d EXCEPT !.nodes[GateNode[g]].wait = "none", !.nodes[GateNode[g]].status = "SUCCEEDED"]}
  BY <1>2 DEF GateDecided, d, GateTypes
<1> QED
  BY <1>1, <1>3, <1>4 DEF Run

\* q is r after the refresh of n.
RefreshedAt(r, q, n) == q = [r EXCEPT !.nodes[n] = Refreshed(r, n)]

\* _refresh_readiness of one node completes no dependency, and leaves that node PENDING
\* only below a dependency that is still open.
LEMMA RefreshedWaits ==
  ASSUME NEW r \in Run, NEW n \in Nodes, NEW q, RefreshedAt(r, q, n)
  PROVE  /\ q.status = r.status /\ q.holds = r.holds
         /\ \A m \in Nodes \ {n} : q.nodes[m] = r.nodes[m]
         /\ q.nodes[n].status = "SUCCEEDED" <=> r.nodes[n].status = "SUCCEEDED"
         /\ q.nodes[n].status = "PENDING" => /\ r.nodes[n].status = "PENDING" /\ ~DependenciesMet(r, n)
                                             /\ ~BadDependency(r, n)
         /\ q.nodes[n].status = "READY" => q.nodes[n] = r.nodes[n] \/ ~NotYet(r, n)
<1>1. Refreshed(r, n) \in NodeState /\ r.nodes[n] \in NodeState
  BY RefreshedType DEF Run
<1>2. /\ q.status = r.status /\ q.holds = r.holds /\ q.nodes[n] = Refreshed(r, n)
      /\ \A m \in Nodes \ {n} : q.nodes[m] = r.nodes[m]
  BY DEF RefreshedAt, Run
<1> DEFINE s == r.nodes[n]
           t == Refreshed(r, n)
<1>3. CASE s.status \notin {"PENDING", "READY"}
  BY <1>2, <1>3 DEF Refreshed
<1>4. CASE s.status \in {"PENDING", "READY"} /\ r.stopped
  <2>1. t = Skipped(s)
    BY <1>4, SMT DEF Refreshed
  <2>2. t.status = "SKIPPED"
    BY <1>1, <2>1 DEF Skipped, NodeState
  <2> QED
    BY <1>2, <1>4, <2>2
<1>5. CASE s.status \in {"PENDING", "READY"} /\ ~r.stopped /\ BadDependency(r, n)
  <2>1. t = [s EXCEPT !.status = "BLOCKED", !.wait = "none"]
    <3>1. ~DependenciesMet(r, n)
      BY <1>5 DEF BadDependency, DependenciesMet
    <3> QED
      BY <1>5, <3>1, SMT DEF Refreshed
  <2>2. t.status = "BLOCKED"
    BY <1>1, <2>1 DEF NodeState
  <2> QED
    BY <1>2, <1>5, <2>2
<1>6. CASE s.status = "PENDING" /\ ~r.stopped /\ ~BadDependency(r, n) /\ DependenciesMet(r, n)
  <2>1. t = [s EXCEPT !.status = "READY"]
    BY <1>6, SMT DEF Refreshed
  <2>2. t.status = "READY"
    BY <1>1, <2>1 DEF NodeState
  <2> QED
    BY <1>2, <1>6, <2>2 DEF NotYet
<1>7. CASE /\ s.status \in {"PENDING", "READY"} /\ ~r.stopped /\ ~BadDependency(r, n)
           /\ ~(s.status = "PENDING" /\ DependenciesMet(r, n))
  <2>1. t = s
    BY <1>7, SMT DEF Refreshed
  <2> QED
    BY <1>2, <1>7, <2>1
<1> QED
  BY <1>3, <1>4, <1>5, <1>6, <1>7

\* So a node that could not be READY cannot after the refresh of any node.
LEMMA RefreshKeepsNotYet ==
  ASSUME NEW r \in Run, NEW n \in Nodes, NEW q, RefreshedAt(r, q, n)
  PROVE  NotYet(q, n) /\ \A m \in Nodes : NotYet(r, m) => NotYet(q, m)
<1>1. DependsOn \in [Nodes -> SUBSET Nodes]
  BY OrderAssumption
<1>2. /\ \A m \in Nodes \ {n} : q.nodes[m] = r.nodes[m]
      /\ q.nodes[n].status = "SUCCEEDED" <=> r.nodes[n].status = "SUCCEEDED"
      /\ q.nodes[n].status = "PENDING" => r.nodes[n].status = "PENDING" /\ ~DependenciesMet(r, n)
  BY RefreshedWaits
<1>3. \A m \in Nodes : DependenciesMet(q, m) <=> DependenciesMet(r, m)
  BY <1>1, <1>2 DEF DependenciesMet
<1> QED
  BY <1>2, <1>3 DEF NotYet

\* The refresh of _settle leaves no READY node unheld.
LEMMA RefreshKeepsHeld ==
  ASSUME NEW r \in Run, NEW n \in Nodes, NEW q, RefreshedAt(r, q, n), NotYet(r, n)
  PROVE  \A m \in Nodes : HeldIfReady(r, m) => HeldIfReady(q, m)
<1>1. /\ \A m \in Nodes \ {n} : q.nodes[m] = r.nodes[m]
      /\ q.nodes[n].status = "READY" => q.nodes[n] = r.nodes[n] \/ ~NotYet(r, n)
  BY RefreshedWaits
<1> QED
  BY <1>1 DEF HeldIfReady

\* Nor a PENDING node with nothing open before it: its open dependency is earlier in the
\* order, and is READY, RUNNING or itself behind one that is.
LEMMA RefreshLeavesBehind ==
  ASSUME NEW r \in Run, NEW i \in 1..N, NEW q, RefreshedAt(r, q, Order[i]),
         \A k \in 1..(i - 1) : BehindAnother(r, k)
  PROVE  \A k \in 1..i : BehindAnother(q, k)
<1>1. N \in Nat /\ \A k \in 1..N : Order[k] \in Nodes
  BY CurrentIsNode
<1>2. /\ \A k \in 1..N : Order[k] = Order[i] => k = i
      /\ \A m \in Nodes : \E k \in 1..N : Order[k] = m
      /\ \A k, l \in 1..N : Order[l] \in DependsOn[Order[k]] => l < k
      /\ DependsOn \in [Nodes -> SUBSET Nodes]
  BY OrderAssumption DEF N
<1>3. \A k \in 1..(i - 1) : q.nodes[Order[k]] = r.nodes[Order[k]]
  <2>1. \A m \in Nodes \ {Order[i]} : q.nodes[m] = r.nodes[m]
    BY <1>1, RefreshedWaits
  <2> QED
    BY <1>1, <1>2, <2>1
<1>4. ASSUME NEW k \in 1..(i - 1) PROVE BehindAnother(q, k)
  <2>1. \A l \in 1..(k - 1) : l \in 1..(i - 1)
    BY <1>1
  <2> QED
    BY <1>3, <2>1 DEF BehindAnother
<1>5. ASSUME q.nodes[Order[i]].status = "PENDING"
      PROVE  \E l \in 1..(i - 1) : q.nodes[Order[l]].status \in {"READY", "RUNNING"}
  <2>1. ~DependenciesMet(r, Order[i]) /\ ~BadDependency(r, Order[i])
    BY <1>1, <1>5, RefreshedWaits
  <2>2. PICK d \in DependsOn[Order[i]] : r.nodes[d].status \notin {"SUCCEEDED", "FAILED", "BLOCKED", "SKIPPED"}
    BY <2>1 DEF DependenciesMet, BadDependency
  <2>3. PICK k \in 1..N : Order[k] = d
    BY <1>1, <1>2
  <2>4. k \in 1..(i - 1)
    BY <1>1, <1>2, <2>2, <2>3
  <2>5. r.nodes[Order[k]].status \in {"PENDING", "READY", "RUNNING"}
    <3>1. r.nodes[d] \in NodeState
      BY <1>1, <2>3 DEF Run
    <3> QED
      BY <2>2, <2>3, <3>1 DEF NodeState, NodeStatus, NodeTerminal
  <2>6. CASE r.nodes[Order[k]].status = "PENDING"
    <3>1. PICK l \in 1..(k - 1) : r.nodes[Order[l]].status \in {"READY", "RUNNING"}
      BY <2>4, <2>6 DEF BehindAnother
    <3>2. l \in 1..(i - 1)
      BY <1>1, <2>4
    <3> QED
      BY <1>3, <3>1, <3>2
  <2> QED
    BY <1>3, <2>4, <2>5, <2>6
<1>6. BehindAnother(q, i)
  BY <1>5 DEF BehindAnother
<1>7. \A k \in 1..i : k = i \/ k \in 1..(i - 1)
  BY <1>1
<1> QED
  BY <1>4, <1>6, <1>7

\* _settle names what the run waits for: the only open node that is not waiting is one
\* whose attempt was cut short.
LEMMA SettledSaysWhy ==
  ASSUME NEW r \in Run, r.status \notin RunTerminal, NEW x \in BOOLEAN,
         ~x => \A n \in Nodes : HeldIfReady(r, n), \A i \in 1..N : BehindAnother(r, i),
         NEW q, q = Settled(r, x)
  PROVE  SaysWhy(q) /\ q.status # "APPROVED"
<1>1. N \in Nat /\ (\A i \in 1..N : Order[i] \in Nodes) /\ \A m \in Nodes : \E k \in 1..N : Order[k] = m
  BY CurrentIsNode, OrderAssumption DEF N
<1>2. CASE \A n \in Nodes : ~Open(r, n)
  <2>1. q = [r EXCEPT !.status = FinalStatus(r), !.holds = {}]
    BY <1>2 DEF Settled
  <2>2. q.status \in {"SUCCEEDED", "FAILED"}
    BY <2>1 DEF FinalStatus, Run
  <2> QED
    BY <2>2 DEF SaysWhy
<1>3. CASE \E n \in Nodes : Open(r, n)
  <2>1. q = [r EXCEPT !.status = "WAITING", !.holds = HoldsOf(r, x)]
    BY <1>3 DEF Settled
  <2>2. q.status = "WAITING" /\ q.holds = HoldsOf(r, x) /\ q.nodes = r.nodes
    BY <2>1 DEF Run
  <2>3. HoldsOf(r, x) # {}
    BY DEF HoldsOf
  <2>4. ASSUME <<"deadlocked">> \in HoldsOf(r, x) PROVE ~x /\ \A n \in Nodes : r.nodes[n].wait = "none"
    <3> DEFINE held == {<<r.nodes[n].wait, n>> : n \in {m \in Nodes : r.nodes[m].wait # "none"}}
                         \cup (IF x THEN {<<"budget">>} ELSE {})
    <3>1. <<"deadlocked">> \notin held
      OBVIOUS
    <3>2. held = {}
      BY <2>4, <3>1 DEF HoldsOf
    <3> QED
      BY <3>2
  <2>5. ASSUME <<"deadlocked">> \in HoldsOf(r, x) PROVE \E n \in Nodes : Interrupted(r, n)
    <3>1. PICK n \in Nodes : Open(r, n)
      BY <1>3
    <3>2. \A m \in Nodes : r.nodes[m].wait = "none" /\ r.nodes[m].status # "READY"
      BY <2>4, <2>5 DEF HeldIfReady
    <3>3. PICK i \in 1..N : Order[i] = n
      BY <1>1
    <3>4. r.nodes[n].status \in {"PENDING", "READY", "RUNNING"}
      <4>1. r.nodes[n] \in NodeState
        BY DEF Run
      <4> QED
        BY <3>1, <4>1 DEF Open, NodeState, NodeStatus, NodeTerminal
    <3>5. CASE r.nodes[n].status = "PENDING"
      <4>1. PICK j \in 1..(i - 1) : r.nodes[Order[j]].status \in {"READY", "RUNNING"}
        BY <3>3, <3>5 DEF BehindAnother
      <4>2. j \in 1..N
        BY <1>1
      <4>3. Order[j] \in Nodes
        BY <1>1, <4>2
      <4>4. Interrupted(r, Order[j])
        BY <3>2, <4>1, <4>3 DEF Interrupted
      <4> QED
        BY <4>3, <4>4
    <3>6. CASE r.nodes[n].status = "RUNNING"
      BY <3>2, <3>6 DEF Interrupted
    <3> QED
      BY <3>2, <3>4, <3>5, <3>6
  <2> QED
    BY <2>2, <2>3, <2>5 DEF SaysWhy, Interrupted
<1> QED
  BY <1>2, <1>3

\* The invariant holds of a run that has just been created.
LEMMA WaitInit == Init => WaitInvariant
<1> SUFFICES ASSUME Init PROVE WaitInvariant
  OBVIOUS
<1>1. PICK status \in {"DRAFT", "APPROVED"}, plan \in {"none", "NOT_REQUIRED"} : disk = NewRun(status, plan)
  BY DEF Init
<1>2. mem = disk /\ pc = "create" /\ disk.status = status /\ \A n \in Nodes : disk.nodes[n].wait = "none"
  BY <1>1 DEF Init, NewRun
<1> QED
  BY <1>2 DEF WaitInvariant, SaysWhy, NothingWaits, LoopInvariant

\* A request that goes on to _advance.
LEMMA RequestAdvances ==
  ASSUME WaitInvariant, disk' = disk, pc' = "refresh", cursor' = 1,
         mem'.status \in {"RUNNING", "WAITING"}, mem'.status = "WAITING" => mem'.holds # {}
  PROVE  WaitInvariant'
<1>1. 1..(cursor' - 1) = {}
  OBVIOUS
<1>2. LoopInvariant'
  BY <1>1 DEF LoopInvariant
<1>3. NothingWaits(mem')
  BY DEF NothingWaits
<1> QED
  BY <1>2, <1>3 DEF WaitInvariant

\* A request that ends with a save.
LEMMA RequestSaves ==
  ASSUME WaitInvariant, disk' = disk, pc' \in {"save", "attest"}, SaysWhy(mem'), NothingWaits(mem')
  PROVE  WaitInvariant'
<1>1. LoopInvariant'
  BY DEF LoopInvariant
<1> QED
  BY <1>1 DEF WaitInvariant

\* Nothing waits before the plan is decided and the run executed.
LEMMA WaitsMeanExecuted ==
  ASSUME TypeOK, RunInvariant, WaitInvariant, NEW n \in Nodes, disk.nodes[n].wait # "none",
         disk.status \notin RunTerminal
  PROVE  disk.status \in {"RUNNING", "WAITING"} /\ (disk.status = "WAITING" => disk.holds # {})
<1>1. Coherent(disk) /\ NothingWaits(disk) /\ SaysWhy(disk) /\ disk \in Run
  BY DEF RunInvariant, WaitInvariant, TypeOK
<1>2. disk.nodes[n].wait \in {"approval", "submission", "review", "attention"}
  BY <1>1 DEF Run, NodeState, Waits
<1>3. Begun(disk, n) \/ disk.nodes[n].status = "READY"
  BY <1>1, <1>2 DEF Coherent, Begun
<1>4. PlanCleared(disk)
  BY <1>1, <1>3 DEF Coherent
<1>5. disk.status # "DRAFT"
  BY <1>1, <1>4 DEF Coherent, PlanCleared
<1>6. disk.status # "APPROVED"
  BY <1>1 DEF NothingWaits
<1>7. disk.status \in RunStatus
  BY <1>1 DEF Run
<1> QED
  BY <1>1, <1>5, <1>6, <1>7 DEF RunStatus, SaysWhy

\* The operator's requests keep the invariant.
LEMMA WaitRequest == TypeOK /\ RunInvariant /\ WaitInvariant /\ Request => WaitInvariant'
<1> SUFFICES ASSUME TypeOK, RunInvariant, WaitInvariant, Request PROVE WaitInvariant'
  OBVIOUS
<1>t. disk \in Run /\ Coherent(disk) /\ SaysWhy(disk) /\ NothingWaits(disk)
  BY DEF TypeOK, RunInvariant, WaitInvariant
<1>1. ASSUME NEW decision \in {"APPROVED", "DENIED"}, DecidePlan(decision) PROVE WaitInvariant'
  <2>1. disk' = disk /\ pc' = "save" /\ disk.status = "DRAFT"
    BY <1>1 DEF DecidePlan
  <2>2. CASE decision = "APPROVED"
    <3>1. mem' = [disk EXCEPT !.status = "APPROVED", !.plan = "APPROVED"]
      BY <1>1, <2>2 DEF DecidePlan
    <3>2. mem'.status = "APPROVED" /\ mem'.nodes = disk.nodes
      BY <1>t, <3>1 DEF Run
    <3>3. ASSUME NEW n \in Nodes PROVE disk.nodes[n].wait = "none"
      <4>1. disk.nodes[n].wait \in Waits
        BY <1>t DEF Run, NodeState
      <4>2. ~PlanCleared(disk)
        BY <1>t, <2>1 DEF Coherent, PlanCleared
      <4> QED
        BY <1>t, <4>1, <4>2 DEF Coherent, Begun, Waits
    <3> QED
      BY <2>1, <3>2, <3>3, RequestSaves DEF SaysWhy, NothingWaits
  <2>3. CASE decision = "DENIED"
    <3>1. mem'.status = "CANCELLED"
      BY <1>1, <1>t, <2>3 DEF DecidePlan, SkipOpenNodes, Run
    <3> QED
      BY <2>1, <3>1, RequestSaves DEF SaysWhy, NothingWaits
  <2> QED
    BY <2>2, <2>3
<1>2. ASSUME NEW decision \in {"APPROVED", "DENIED"}, NEW g \in Gates, DecideGate(g, decision)
      PROVE  WaitInvariant'
  <2>1. GateNode[g] \in Nodes /\ GateType[g] # "none"
    BY GateAssumption DEF GateTypes
  <2>2. /\ disk' = disk /\ mem' = GateDecided(disk, g, decision)
        /\ disk.status \notin RunTerminal /\ disk.nodes[GateNode[g]].wait = GateType[g]
        /\ disk.status \in {"RUNNING", "WAITING"} => BeginAdvance
    BY <1>2 DEF DecideGate, AwaitsDecision
  <2>3. disk.status \in {"RUNNING", "WAITING"} /\ (disk.status = "WAITING" => disk.holds # {})
    BY <2>1, <2>2, WaitsMeanExecuted
  <2>4. mem'.status = disk.status /\ mem'.holds = disk.holds
    BY <1>t, <2>2, GateDecidedStanding
  <2> QED
    BY <2>2, <2>3, <2>4, RequestAdvances DEF BeginAdvance
<1>3. CASE Execute
  <2>1. disk' = disk /\ mem' = [disk EXCEPT !.status = "RUNNING"] /\ pc' = "refresh" /\ cursor' = 1
    BY <1>3 DEF Execute, BeginAdvance
  <2>2. mem'.status = "RUNNING"
    BY <1>t, <2>1 DEF Run
  <2> QED
    BY <2>1, <2>2, RequestAdvances
<1>4. ASSUME NEW n \in Nodes, NEW result \in Results, Submit(n, result) PROVE WaitInvariant'
  <2>1. PICK r : r = [disk EXCEPT !.nodes[n].wait = "none"]
    OBVIOUS
  <2>2. /\ disk' = disk /\ pc' = "refresh" /\ cursor' = 1 /\ mem' = CompleteAttempt(r, n, result)
        /\ disk.status \notin RunTerminal /\ disk.nodes[n].wait # "none"
    BY <1>4, <2>1 DEF Submit, AwaitsSubmission, BeginAdvance
  <2>3. disk.nodes[n] \in NodeState /\ [disk.nodes[n] EXCEPT !.wait = "none"] \in NodeState
    BY <1>t DEF Run, NodeState, Waits
  <2>4. r \in Run /\ r.status = disk.status /\ r.holds = disk.holds
    BY <1>t, <2>1, <2>3 DEF Run
  <2>5. mem'.status = r.status /\ mem'.holds = r.holds
    BY <2>2, <2>4, CompleteAttemptStanding
  <2> QED
    BY <2>2, <2>4, <2>5, WaitsMeanExecuted, RequestAdvances
<1>5. CASE Resume
  <2>1. /\ disk' = disk /\ disk.status \notin RunTerminal
        /\ \/ disk.status = "DRAFT" /\ mem' = Recovered(disk) /\ pc' = "save"
           \/ mem' = [Recovered(disk) EXCEPT !.status = "RUNNING"] /\ pc' = "refresh" /\ cursor' = 1
    BY <1>5 DEF Resume, BeginAdvance
  <2>2. Recovered(disk) \in Run /\ Recovered(disk).status = disk.status
    BY <1>t, RecoveredType DEF Recovered, Run
  <2>3. CASE disk.status = "DRAFT" /\ mem' = Recovered(disk) /\ pc' = "save"
    BY <2>1, <2>2, <2>3, RequestSaves DEF SaysWhy, NothingWaits
  <2>4. CASE mem' = [Recovered(disk) EXCEPT !.status = "RUNNING"] /\ pc' = "refresh" /\ cursor' = 1
    <3>1. mem'.status = "RUNNING"
      BY <2>2, <2>4 DEF Run
    <3> QED
      BY <2>1, <2>4, <3>1, RequestAdvances
  <2> QED
    BY <2>1, <2>3, <2>4
<1>6. ASSUME NEW n \in Nodes, RetryNode(n) PROVE WaitInvariant'
  <2>1. /\ disk' = disk /\ pc' = "refresh" /\ cursor' = 1
        /\ mem' = [disk EXCEPT !.status = "RUNNING", !.nodes[n].wait = "none", !.nodes[n].status = "READY"]
    BY <1>6 DEF RetryNode, BeginAdvance
  <2>2. mem'.status = "RUNNING"
    BY <1>t, <2>1 DEF Run
  <2> QED
    BY <2>1, <2>2, RequestAdvances
<1>7. CASE Cancel
  <2>1. disk' = disk /\ pc' = "save" /\ mem' = [SkipOpenNodes(disk) EXCEPT !.status = "CANCELLED", !.holds = {}]
    BY <1>7 DEF Cancel
  <2>2. mem'.status = "CANCELLED"
    BY <1>t, <2>1 DEF SkipOpenNodes, Run
  <2> QED
    BY <2>1, <2>2, RequestSaves DEF SaysWhy, NothingWaits
<1>8. CASE Verify
  <2>1. disk' = disk /\ pc' = "attest" /\ mem' = [disk EXCEPT !.verification = receipt']
    BY <1>8 DEF Verify
  <2>2. mem'.status = disk.status /\ mem'.nodes = disk.nodes /\ mem'.holds = disk.holds
    BY <1>t, <2>1 DEF Run
  <2>3. SaysWhy(mem') /\ NothingWaits(mem')
    BY <1>t, <2>2 DEF SaysWhy, NothingWaits, Interrupted
  <2> QED
    BY <2>1, <2>3, RequestSaves
<1> QED
  BY <1>1, <1>2, <1>3, <1>4, <1>5, <1>6, <1>7, <1>8 DEF Request

\* An operation in progress that changes neither disk nor the run's standing.
LEMMA WorkWaits ==
  ASSUME WaitInvariant, disk' = disk, pc \notin {"idle", "create", "save", "attest"}, pc' \notin {"idle", "create", "save", "attest"},
         mem'.status = mem.status, mem'.holds = mem.holds, LoopInvariant'
  PROVE  WaitInvariant'
BY DEF WaitInvariant, NothingWaits

\* A step that leaves memory as the disk has it.
LEMMA WorkDropped ==
  ASSUME WaitInvariant, disk' = disk, Release
  PROVE  WaitInvariant'
<1>1. mem' = disk /\ pc' = "idle"
  BY DEF Release
<1>2. LoopInvariant'
  BY <1>1 DEF LoopInvariant
<1> QED
  BY <1>1, <1>2 DEF WaitInvariant

\* The steps taken at a node keep the invariant.
LEMMA WaitVisit == TypeOK /\ RunInvariant /\ WaitInvariant /\ VisitNode => WaitInvariant'
<1> DEFINE n == Current
<1> SUFFICES ASSUME TypeOK, RunInvariant, WaitInvariant, VisitNode PROVE WaitInvariant'
  OBVIOUS
<1>t. n \in Nodes /\ mem \in Run
  BY CurrentIsNode DEF VisitNode, TypeOK, HoldForApproval, RefuseNode, ExecutorMissing,
     StartNode, DeferNode, RunBuiltin, AtNode, Visiting, Current
<1>n. mem.nodes[n] \in NodeState /\ \A w \in Waits : [mem.nodes[n] EXCEPT !.wait = w] \in NodeState
  BY <1>t DEF Run, NodeState
<1>w. \A w \in Waits : LET r == [mem EXCEPT !.nodes[n].wait = w]
                       IN  /\ r \in Run /\ r.status = mem.status /\ r.holds = mem.holds
                           /\ r.nodes[n].status = mem.nodes[n].status /\ r.nodes[n].wait = w
                           /\ \A m \in Nodes \ {n} : r.nodes[m] = mem.nodes[m]
  BY <1>t, <1>n DEF Run, NodeState
<1>1. CASE HoldForApproval(n)
  <2>1. /\ pc = "visit" /\ cursor <= N /\ cursor' = cursor + 1 /\ pc' = pc /\ progress' = progress
        /\ disk' = disk /\ mem' = [mem EXCEPT !.nodes[n].wait = "approval"] /\ cursor \in Nat
        /\ n = Order[cursor]
    BY <1>1 DEF HoldForApproval, AtNode, Visiting, TypeOK, n, Current
  <2>2. /\ mem'.status = mem.status /\ mem'.holds = mem.holds
        /\ mem'.nodes[n].status = mem.nodes[n].status /\ mem'.nodes[n].wait = "approval"
        /\ \A m \in Nodes \ {n} : mem'.nodes[m] = mem.nodes[m]
    BY <1>w, <2>1 DEF Waits
  <2>3. ASSUME NEW m \in Nodes, NotYet(mem, m) PROVE NotYet(mem', m)
    <3>1. \A l \in Nodes : mem'.nodes[l].status = mem.nodes[l].status
      BY <2>2
    <3>2. DependsOn[m] \subseteq Nodes
      BY OrderAssumption
    <3> QED
      BY <2>3, <3>1, <3>2 DEF NotYet, DependenciesMet
  <2>4. ASSUME NEW m \in Nodes, HeldIfReady(mem, m) \/ m = n PROVE HeldIfReady(mem', m)
    BY <2>2, <2>4 DEF HeldIfReady
  <2>5. \A i \in 1..(cursor' - 1) : Order[i] \in Nodes /\ (i \in 1..(cursor - 1) \/ Order[i] = n)
    BY <2>1, CurrentIsNode
  <2>6. LoopInvariant'
    <3>1. LoopInvariant
      BY DEF WaitInvariant
    <3> QED
      BY <2>1, <2>3, <2>4, <2>5, <3>1 DEF LoopInvariant
  <2> QED
    BY <2>1, <2>2, <2>6, WorkWaits
<1>2. CASE RefuseNode(n)
  <2>1. PICK r : r = [mem EXCEPT !.nodes[n].wait = "none"]
    OBVIOUS
  <2>2. /\ pc = "visit" /\ pc' = pc /\ progress' = TRUE /\ disk' = disk /\ mem' = FailNode(r, n)
    BY <1>2, <2>1 DEF RefuseNode, AtNode, Visiting
  <2>3. r \in Run /\ r.status = mem.status /\ r.holds = mem.holds
    BY <1>w, <2>1 DEF Waits
  <2>4. mem'.status = r.status /\ mem'.holds = r.holds
    BY <1>t, <2>2, <2>3, FailNodeStanding
  <2>5. LoopInvariant'
    BY <2>2 DEF LoopInvariant
  <2> QED
    BY <2>2, <2>3, <2>4, <2>5, WorkWaits
<1>3. CASE ExecutorMissing(n)
  BY <1>3, WorkDropped DEF ExecutorMissing
<1>4. CASE StartNode(n)
  <2>1. pc = "visit" /\ pc' = "ahead" /\ disk' = disk /\ mem' = Started(mem, n)
    BY <1>4 DEF StartNode, AtNode, Visiting
  <2>2. mem'.status = mem.status /\ mem'.holds = mem.holds
    BY <1>t, <2>1 DEF Started, Run
  <2>3. LoopInvariant'
    BY <2>1 DEF LoopInvariant
  <2> QED
    BY <2>1, <2>2, <2>3, WorkWaits
<1>5. CASE DeferNode(n)
  <2>1. /\ pc = "call" /\ pc' = "visit" /\ progress' = TRUE /\ disk' = disk
        /\ mem' = [mem EXCEPT !.nodes[n].wait = "submission"]
    BY <1>5 DEF DeferNode, Invoke
  <2>2. mem'.status = mem.status /\ mem'.holds = mem.holds
    BY <1>w, <2>1 DEF Waits
  <2>3. LoopInvariant'
    BY <2>1 DEF LoopInvariant
  <2> QED
    BY <2>1, <2>2, <2>3, WorkWaits
<1>6. ASSUME NEW result \in Results, RunBuiltin(n, result) PROVE WaitInvariant'
  <2>1. pc = "call" /\ pc' = "visit" /\ progress' = TRUE /\ disk' = disk /\ mem' = CompleteAttempt(mem, n, result)
    BY <1>6 DEF RunBuiltin, Invoke
  <2>2. mem'.status = mem.status /\ mem'.holds = mem.holds
    BY <1>t, <2>1, CompleteAttemptStanding
  <2>3. LoopInvariant'
    BY <2>1 DEF LoopInvariant
  <2> QED
    BY <2>1, <2>2, <2>3, WorkWaits
<1> QED
  BY <1>1, <1>2, <1>3, <1>4, <1>5, <1>6 DEF VisitNode, n

\* One node of the refresh, in _advance or in _settle.
LEMMA WaitRefresh == TypeOK /\ RunInvariant /\ WaitInvariant /\ RefreshNode => WaitInvariant'
<1> SUFFICES ASSUME TypeOK, RunInvariant, WaitInvariant, RefreshNode PROVE WaitInvariant'
  OBVIOUS
<1>1. /\ pc' = pc /\ pc \in {"refresh", "resettle"} /\ cursor \in 1..N /\ cursor' = cursor + 1
      /\ disk' = disk /\ exhausted' = exhausted /\ mem \in Run /\ N \in Nat
      /\ mem' = [mem EXCEPT !.nodes[Order[cursor]] = Refreshed(mem, Order[cursor])]
  BY CurrentIsNode DEF RefreshNode, TypeOK, Current
<1>2. /\ Order[cursor] \in Nodes /\ RefreshedAt(mem, mem', Order[cursor])
      /\ \A i \in 1..N : Order[i] \in Nodes
  BY <1>1, CurrentIsNode DEF RefreshedAt
<1>3. NotYet(mem', Order[cursor]) /\ \A m \in Nodes : NotYet(mem, m) => NotYet(mem', m)
  BY <1>1, <1>2, RefreshKeepsNotYet
<1>4. mem'.status = mem.status /\ mem'.holds = mem.holds
  BY <1>1, <1>2, RefreshedWaits
<1>5. LoopInvariant
  BY DEF WaitInvariant
<1>6. CASE pc = "refresh"
  <2>1. \A i \in 1..(cursor' - 1) : i \in 1..N /\ (i = cursor \/ i \in 1..(cursor - 1))
    BY <1>1
  <2>2. LoopInvariant'
    BY <1>1, <1>2, <1>3, <1>5, <1>6, <2>1 DEF LoopInvariant
  <2> QED
    BY <1>1, <1>4, <2>2, WorkWaits
<1>7. CASE pc = "resettle"
  <2>1. \A k \in 1..cursor : BehindAnother(mem', k)
    <3>1. \A k \in 1..(cursor - 1) : BehindAnother(mem, k)
      BY <1>5, <1>7 DEF LoopInvariant
    <3> QED
      BY <1>1, <1>2, <3>1, RefreshLeavesBehind
  <2>2. cursor' - 1 = cursor
    BY <1>1
  <2>3. ASSUME ~exhausted PROVE \A m \in Nodes : NotYet(mem', m) /\ HeldIfReady(mem', m)
    <3>1. \A m \in Nodes : NotYet(mem, m) /\ HeldIfReady(mem, m)
      BY <1>5, <1>7, <2>3 DEF LoopInvariant
    <3>2. \A m \in Nodes : HeldIfReady(mem, m) => HeldIfReady(mem', m)
      BY <1>1, <1>2, <3>1, RefreshKeepsHeld
    <3> QED
      BY <1>3, <3>1, <3>2
  <2>4. LoopInvariant'
    BY <1>1, <1>7, <2>1, <2>2, <2>3 DEF LoopInvariant
  <2> QED
    BY <1>1, <1>4, <1>7, <2>4, WorkWaits
<1> QED
  BY <1>1, <1>6, <1>7

\* The engine's other steps keep the invariant.
LEMMA WaitStep == TypeOK /\ RunInvariant /\ WaitInvariant /\ Step => WaitInvariant'
<1> SUFFICES ASSUME TypeOK, RunInvariant, WaitInvariant, Step PROVE WaitInvariant'
  OBVIOUS
<1>t. /\ mem \in Run /\ LoopInvariant /\ N \in Nat /\ cursor \in 1..(N + 1)
      /\ progress \in BOOLEAN /\ exhausted \in BOOLEAN
  BY CurrentIsNode DEF TypeOK, WaitInvariant
<1>o. (\A i \in 1..N : Order[i] \in Nodes) /\ \A n \in Nodes : \E i \in 1..N : Order[i] = n
  BY CurrentIsNode, OrderAssumption DEF N
<1>e. cursor > N => 1..(cursor - 1) = 1..N
  BY <1>t
<1>1. CASE BeginPass
  <2>1. /\ pc = "refresh" /\ cursor > N /\ pc' = "visit" /\ cursor' = 1
        /\ disk' = disk /\ mem' = mem
    BY <1>1 DEF BeginPass
  <2>2. \A n \in Nodes : NotYet(mem, n)
    <3>1. \A i \in 1..N : NotYet(mem, Order[i])
      BY <1>t, <1>e, <2>1 DEF LoopInvariant
    <3> QED
      BY <1>o, <3>1
  <2>3. LoopInvariant'
    BY <2>1, <2>2 DEF LoopInvariant
  <2> QED
    BY <2>1, <2>3, WorkWaits
<1>2. CASE PassOver
  <2>1. /\ pc = "visit" /\ cursor <= N /\ pc' = pc /\ cursor' = cursor + 1 /\ disk' = disk /\ mem' = mem
        /\ progress' = progress /\ exhausted' = exhausted /\ ~Visitable(Order[cursor])
    BY <1>2 DEF PassOver, Visiting, Current
  <2>2. HeldIfReady(mem, Order[cursor])
    BY <2>1 DEF Visitable, HeldIfReady
  <2>3. \A i \in 1..(cursor' - 1) : i = cursor \/ i \in 1..(cursor - 1)
    BY <1>t, <2>1
  <2>4. LoopInvariant'
    BY <1>t, <2>1, <2>2, <2>3 DEF LoopInvariant
  <2> QED
    BY <2>1, <2>4, WorkWaits
<1>3. CASE StopOnBudget
  <2>1. pc = "visit" /\ pc' = "resettle" /\ cursor' = 1 /\ exhausted' = TRUE /\ disk' = disk /\ mem' = mem
    BY <1>3 DEF StopOnBudget, Visiting
  <2>2. LoopInvariant'
    BY <2>1 DEF LoopInvariant
  <2> QED
    BY <2>1, <2>2, WorkWaits
<1>4. CASE EndPass
  <2>1. /\ pc = "visit" /\ cursor > N /\ cursor' = 1 /\ exhausted' = exhausted /\ disk' = disk /\ mem' = mem
        /\ IF progress THEN pc' = "refresh" ELSE pc' = "resettle"
    BY <1>4 DEF EndPass
  <2>2. ASSUME ~progress PROVE \A n \in Nodes : NotYet(mem, n) /\ HeldIfReady(mem, n)
    <3>1. (\A n \in Nodes : NotYet(mem, n)) /\ \A i \in 1..N : HeldIfReady(mem, Order[i])
      BY <1>t, <1>e, <2>1, <2>2 DEF LoopInvariant
    <3> QED
      BY <1>o, <3>1
  <2>3. pc' \in {"refresh", "resettle"} /\ (pc' = "resettle" => ~progress)
    BY <1>t, <2>1
  <2>4. LoopInvariant'
    BY <2>1, <2>2, <2>3 DEF LoopInvariant
  <2> QED
    BY <2>1, <2>3, <2>4, WorkWaits
<1>5. CASE WriteAhead
  <2>1. pc = "ahead" /\ pc' = "call" /\ disk' = mem /\ mem' = mem
    BY <1>5 DEF WriteAhead
  <2>2. /\ mem.status \in {"RUNNING", "WAITING"} /\ (mem.status = "WAITING" => mem.holds # {})
        /\ NothingWaits(mem)
    BY <2>1 DEF WaitInvariant
  <2>3. Interrupted(mem, Current) /\ Current \in Nodes
    BY <2>1, CurrentIsNode DEF RunInvariant, Interrupted, TypeOK, Current
  <2>4. SaysWhy(mem)
    BY <2>2, <2>3 DEF SaysWhy
  <2>5. LoopInvariant'
    BY <2>1 DEF LoopInvariant
  <2> QED
    BY <2>1, <2>2, <2>4, <2>5 DEF WaitInvariant
<1>6. CASE Settle
  <2>1. pc = "resettle" /\ cursor > N /\ pc' = "save" /\ disk' = disk /\ mem' = Settled(mem, exhausted)
    BY <1>6 DEF Settle
  <2>2. mem.status \in {"RUNNING", "WAITING"}
    BY <2>1 DEF WaitInvariant
  <2>3. /\ ~exhausted => \A n \in Nodes : HeldIfReady(mem, n)
        /\ \A i \in 1..N : BehindAnother(mem, i)
    BY <1>t, <1>e, <2>1 DEF LoopInvariant
  <2>4. SaysWhy(mem') /\ mem'.status # "APPROVED"
    BY <1>t, <2>1, <2>2, <2>3, SettledSaysWhy DEF RunTerminal
  <2>5. LoopInvariant'
    BY <2>1 DEF LoopInvariant
  <2> QED
    BY <2>1, <2>4, <2>5, RequestSaves DEF NothingWaits
<1>7. CASE Save
  <2>1. pc = "save" /\ disk' = mem /\ mem' = mem /\ pc' = "idle"
    BY <1>7 DEF Save, Release
  <2>2. LoopInvariant'
    BY <2>1 DEF LoopInvariant
  <2> QED
    BY <2>1, <2>2 DEF WaitInvariant
<1>8. CASE Attest
  <2>1. pc = "attest" /\ pc' = "save" /\ disk' = disk /\ mem' = mem
    BY <1>8 DEF Attest
  <2>2. SaysWhy(mem) /\ NothingWaits(mem)
    BY <2>1 DEF WaitInvariant
  <2> QED
    BY <2>1, <2>2, RequestSaves
<1>9. CASE RecordCreation
  BY <1>9, WorkDropped DEF RecordCreation
<1> QED
  BY <1>1, <1>2, <1>3, <1>4, <1>5, <1>6, <1>7, <1>8, <1>9, WaitRefresh, WaitVisit DEF Step

\* Every step of a run keeps the invariant.
LEMMA WaitNext == TypeOK /\ RunInvariant /\ WaitInvariant /\ [Next]_vars => WaitInvariant'
<1> SUFFICES ASSUME TypeOK, RunInvariant, WaitInvariant, [Next]_vars PROVE WaitInvariant'
  OBVIOUS
<1>1. CASE Crash
  BY <1>1, WorkDropped DEF Crash
<1>2. CASE Reconfigure \/ UNCHANGED vars
  <2>1. /\ disk' = disk /\ mem' = mem /\ pc' = pc /\ cursor' = cursor
        /\ progress' = progress /\ exhausted' = exhausted
    BY <1>2 DEF Reconfigure, vars, loop
  <2>2. LoopInvariant'
    BY <2>1 DEF WaitInvariant, LoopInvariant
  <2> QED
    BY <2>1, <2>2 DEF WaitInvariant
<1> QED
  BY <1>1, <1>2, WaitRequest, WaitStep DEF Next

\* WaitInvariant holds of every state of every run.
THEOREM WaitHolds == Spec => []WaitInvariant
  BY WaitInit, WaitNext, TypeCorrect, InvariantHolds, PTL DEF Spec

\* An idle unfinished run names what it waits for, and reports a deadlock only while a
\* node's attempt is interrupted: in a graph without cycles there is no other.
THEOREM WaitsAreExplained == Spec => []WaitExplained
<1>1. WaitInvariant => WaitExplained
  BY DEF WaitInvariant, WaitExplained
<1> QED
  BY <1>1, WaitHolds, PTL

-----------------------------------------------------------------------------
(* The engine implements RunLifecycle.                                     *)

\* One step of an operation moves a node from status x to status y.
StatusStep(x, y) ==
  \/ y = x
  \/ x \in {"PENDING", "READY"} /\ y \in {"READY", "FAILED", "SKIPPED"}
  \/ x = "PENDING" /\ y = "BLOCKED"
  \/ x = "RUNNING" /\ y \in {"READY", "SUCCEEDED", "FAILED", "SKIPPED"}

\* The helpers move the nodes so, and begin no attempt.
Advances(r, q) ==
  \A n \in Nodes : /\ StatusStep(r.nodes[n].status, q.nodes[n].status)
                   /\ q.nodes[n].attempts = r.nodes[n].attempts

\* Statuses that stay.
LEMMA SameNodesAdvance ==
  ASSUME NEW r, NEW q, \A n \in Nodes : q.nodes[n].status = r.nodes[n].status /\ q.nodes[n].attempts = r.nodes[n].attempts
  PROVE  Advances(r, q)
BY DEF Advances, StatusStep

\* What has moved on from the disk may move on further.
LEMMA MovedFurther ==
  ASSUME NEW r, NEW m, NEW q, Advances(m, q), NEW n \in Nodes, MovedOn(r, m, n)
  PROVE  MovedOn(r, q, n)
<1>1. /\ MayBecome(r.nodes[n].status, m.nodes[n].status) /\ StatusStep(m.nodes[n].status, q.nodes[n].status)
      /\ q.nodes[n].attempts = m.nodes[n].attempts /\ m.nodes[n].attempts = r.nodes[n].attempts
  BY DEF Advances, MovedOn
<1>2. \A x, y, z : MayBecome(x, y) /\ StatusStep(y, z) => MayBecome(x, z)
  BY DEF MayBecome, StatusStep
<1> QED
  BY <1>1, <1>2 DEF MovedOn

\* An operation that has just loaded the disk.
LEMMA MovedAtFirst ==
  ASSUME NEW r, NEW q, Advances(r, q), NEW n \in Nodes
  PROVE  MovedOn(r, q, n)
<1>1. \A x, y : StatusStep(x, y) => MayBecome(x, y)
  BY DEF StatusStep, MayBecome
<1> QED
  BY <1>1 DEF Advances, MovedOn

\* _record_failure of a node that is READY or RUNNING.
LEMMA FailNodeAdvances ==
  ASSUME NEW r \in Run, NEW n \in Nodes, r.nodes[n].status \in {"READY", "RUNNING"}, NEW q, q = FailNode(r, n)
  PROVE  Advances(r, q)
<1>1. ASSUME NEW m \in Nodes
      PROVE  /\ q.nodes[m].attempts = r.nodes[m].attempts
             /\ \/ q.nodes[m].status = r.nodes[m].status
                \/ m = n /\ q.nodes[m].status = "FAILED"
                \/ r.nodes[m].status = "RUNNING" /\ q.nodes[m].status = "SKIPPED"
  <2>1. r.nodes[m] \in NodeState
    BY DEF Run
  <2> QED
    BY <2>1 DEF FailNode, Skipped, Run, NodeState
<1> QED
  BY <1>1 DEF Advances, StatusStep

\* Other fields of a node.
LEMMA NodeEditAdvances ==
  ASSUME NEW r \in Run, NEW n \in Nodes, NEW q, \A m \in Nodes \ {n} : q.nodes[m] = r.nodes[m],
         StatusStep(r.nodes[n].status, q.nodes[n].status), q.nodes[n].attempts = r.nodes[n].attempts
  PROVE  Advances(r, q)
BY DEF Advances, StatusStep

\* _complete_attempt.
LEMMA CompleteAttemptAdvances ==
  ASSUME NEW r \in Run, NEW n \in Nodes, NEW result \in Results, r.nodes[n].status = "RUNNING",
         NEW q, q = CompleteAttempt(r, n, result)
  PROVE  Advances(r, q)
<1> DEFINE stored == [r EXCEPT !.nodes[n].outputs = result.outputs]
           outcome == Outcome(result)
<1>1. r.nodes[n] \in NodeState
  BY DEF Run
<1>2. CASE outcome = "SUCCESS" /\ PendingGates(stored, n, "review") # {}
  <2>1. q = [stored EXCEPT !.nodes[n].wait = "review"]
    BY <1>2 DEF CompleteAttempt
  <2>2. /\ \A m \in Nodes \ {n} : q.nodes[m] = r.nodes[m]
        /\ q.nodes[n].status = "RUNNING" /\ q.nodes[n].attempts = r.nodes[n].attempts
    BY <1>1, <2>1 DEF Run, NodeState
  <2> QED
    BY <2>2, NodeEditAdvances DEF StatusStep
<1>3. CASE outcome = "SUCCESS" /\ PendingGates(stored, n, "review") = {}
  <2>1. q = [stored EXCEPT !.nodes[n].status = "SUCCEEDED"]
    BY <1>3 DEF CompleteAttempt
  <2>2. /\ \A m \in Nodes \ {n} : q.nodes[m] = r.nodes[m]
        /\ q.nodes[n].status = "SUCCEEDED" /\ q.nodes[n].attempts = r.nodes[n].attempts
    BY <1>1, <2>1 DEF Run, NodeState
  <2> QED
    BY <2>2, NodeEditAdvances DEF StatusStep
<1>4. CASE outcome # "SUCCESS" /\ RetryAllowed(r, n, outcome)
  <2>1. q = [r EXCEPT !.nodes[n].status = "READY"]
    BY <1>4 DEF CompleteAttempt
  <2>2. /\ \A m \in Nodes \ {n} : q.nodes[m] = r.nodes[m]
        /\ q.nodes[n].status = "READY" /\ q.nodes[n].attempts = r.nodes[n].attempts
    BY <1>1, <2>1 DEF Run, NodeState
  <2> QED
    BY <2>2, NodeEditAdvances DEF StatusStep
<1>5. CASE outcome # "SUCCESS" /\ ~RetryAllowed(r, n, outcome)
  <2>1. q = FailNode(r, n)
    BY <1>5 DEF CompleteAttempt
  <2> QED
    BY <2>1, FailNodeAdvances
<1> QED
  BY <1>2, <1>3, <1>4, <1>5

\* What decide does to the node that waits for the gate.
LEMMA GateDecidedAdvances ==
  ASSUME NEW r \in Run, Coherent(r), NEW g \in Gates, AwaitsDecision(r, g), NEW decision \in {"APPROVED", "DENIED"},
         NEW q, q = GateDecided(r, g, decision)
  PROVE  Advances(r, q)
<1> DEFINE n == GateNode[g]
           d == Decided(r, g, decision)
<1>1. n \in Nodes /\ GateType[g] \in GateTypes
  BY GateAssumption
<1>2. d \in Run /\ d.nodes = r.nodes
  BY DecidedType
<1>3. d.nodes[n] \in NodeState /\ r.nodes[n].wait = GateType[g]
  BY <1>1, <1>2 DEF Run, AwaitsDecision
<1>4. /\ r.nodes[n].status \in {"READY", "RUNNING"}
      /\ GateType[g] = "review" => r.nodes[n].status = "RUNNING"
  BY <1>1, <1>3 DEF Coherent, GateTypes
<1> HIDE DEF d, n
<1>5. \/ q = FailNode(d, n) \/ q = d \/ q = [d EXCEPT !.nodes[n].wait = "none"]
      \/ GateType[g] = "review" /\ q = [d EXCEPT !.nodes[n].wait = "none", !.nodes[n].status = "SUCCEEDED"]
  BY <1>1 DEF GateDecided, GateTypes, d, n
<1>6. CASE q = FailNode(d, n)
  <2>1. Advances(d, q)
    <3>1. d.nodes[n].status \in {"READY", "RUNNING"}
      BY <1>2, <1>4
    <3> QED
      BY <1>1, <1>2, <1>6, <3>1, FailNodeAdvances
  <2> QED
    BY <1>2, <2>1 DEF Advances
<1>7. CASE q = d
  BY <1>2, <1>7, SameNodesAdvance
<1>8. CASE q = [d EXCEPT !.nodes[n].wait = "none"]
  <2>1. /\ \A m \in Nodes \ {n} : q.nodes[m] = r.nodes[m]
        /\ q.nodes[n].status = r.nodes[n].status /\ q.nodes[n].attempts = r.nodes[n].attempts
    BY <1>1, <1>2, <1>3, <1>8 DEF Run, NodeState
  <2> QED
    BY <1>1, <2>1, NodeEditAdvances DEF StatusStep
<1>9. CASE GateType[g] = "review" /\ q = [d EXCEPT !.nodes[n].wait = "none", !.nodes[n].status = "SUCCEEDED"]
  <2>1. /\ \A m \in Nodes \ {n} : q.nodes[m] = r.nodes[m]
        /\ q.nodes[n].status = "SUCCEEDED" /\ q.nodes[n].attempts = r.nodes[n].attempts
    BY <1>1, <1>2, <1>3, <1>9 DEF Run, NodeState
  <2>2. StatusStep(r.nodes[n].status, q.nodes[n].status)
    BY <1>4, <1>9, <2>1 DEF StatusStep
  <2> QED
    BY <1>1, <2>1, <2>2, NodeEditAdvances
<1> QED
  BY <1>5, <1>6, <1>7, <1>8, <1>9

\* resume()'s recovery.
LEMMA RecoveredAdvances ==
  ASSUME NEW r \in Run, NEW q, q = Recovered(r)
  PROVE  Advances(r, q)
<1>1. ASSUME NEW n \in Nodes
      PROVE  /\ q.nodes[n].attempts = r.nodes[n].attempts
             /\ \/ q.nodes[n].status = r.nodes[n].status
                \/ r.nodes[n].status = "RUNNING" /\ q.nodes[n].status = "READY"
  <2>1. r.nodes[n] \in NodeState
    BY DEF Run
  <2>2. q.nodes[n] = IF ~Interrupted(r, n) THEN r.nodes[n]
                     ELSE IF n \in Unsafe THEN [r.nodes[n] EXCEPT !.wait = "attention"]
                     ELSE [r.nodes[n] EXCEPT !.status = "READY"]
    BY DEF Recovered, Run
  <2> QED
    BY <2>1, <2>2 DEF Interrupted, NodeState
<1> QED
  BY <1>1 DEF Advances, StatusStep

\* _refresh_readiness of one node: one that is READY has no bad dependency.
LEMMA RefreshedAdvances ==
  ASSUME NEW r \in Run, Coherent(r), NEW n \in Nodes, NEW q, RefreshedAt(r, q, n)
  PROVE  Advances(r, q)
<1>1. Refreshed(r, n) \in NodeState /\ r.nodes[n] \in NodeState
  BY RefreshedType DEF Run
<1>2. q.nodes[n] = Refreshed(r, n) /\ \A m \in Nodes \ {n} : q.nodes[m] = r.nodes[m]
  BY DEF RefreshedAt, Run
<1> DEFINE s == r.nodes[n]
           t == Refreshed(r, n)
<1>3. StatusStep(s.status, t.status) /\ t.attempts = s.attempts
  <2>1. CASE s.status \notin {"PENDING", "READY"}
    BY <2>1 DEF Refreshed, StatusStep
  <2>2. CASE s.status \in {"PENDING", "READY"} /\ r.stopped
    <3>1. t = Skipped(s)
      BY <2>2, SMT DEF Refreshed
    <3> QED
      BY <1>1, <2>2, <3>1 DEF Skipped, NodeState, StatusStep
  <2>3. CASE s.status \in {"PENDING", "READY"} /\ ~r.stopped /\ BadDependency(r, n)
    <3>1. ~DependenciesMet(r, n)
      BY <2>3 DEF BadDependency, DependenciesMet
    <3>2. s.status = "PENDING"
      BY <2>3, <3>1 DEF Coherent, DependenciesMet
    <3>3. t = [s EXCEPT !.status = "BLOCKED", !.wait = "none"]
      BY <2>3, <3>1, SMT DEF Refreshed
    <3> QED
      BY <1>1, <3>2, <3>3 DEF NodeState, StatusStep
  <2>4. CASE s.status = "PENDING" /\ ~r.stopped /\ ~BadDependency(r, n) /\ DependenciesMet(r, n)
    <3>1. t = [s EXCEPT !.status = "READY"]
      BY <2>4, SMT DEF Refreshed
    <3> QED
      BY <1>1, <2>4, <3>1 DEF NodeState, StatusStep
  <2>5. CASE /\ s.status \in {"PENDING", "READY"} /\ ~r.stopped /\ ~BadDependency(r, n)
             /\ ~(s.status = "PENDING" /\ DependenciesMet(r, n))
    <3>1. t = s
      BY <2>5, SMT DEF Refreshed
    <3> QED
      BY <3>1 DEF StatusStep
  <2> QED
    BY <2>1, <2>2, <2>3, <2>4, <2>5
<1> QED
  BY <1>2, <1>3, NodeEditAdvances

\* Waiting, or no longer.
LEMMA WaitAdvances ==
  ASSUME NEW r \in Run, NEW n \in Nodes, NEW w \in Waits, NEW q, q = [r EXCEPT !.nodes[n].wait = w]
  PROVE  Advances(r, q) /\ q \in Run /\ q.nodes[n].status = r.nodes[n].status
<1>1. r.nodes[n] \in NodeState /\ [r.nodes[n] EXCEPT !.wait = w] \in NodeState
  BY DEF Run, NodeState
<1>2. /\ q.nodes[n].status = r.nodes[n].status /\ q.nodes[n].attempts = r.nodes[n].attempts
      /\ \A m \in Nodes \ {n} : q.nodes[m] = r.nodes[m]
  BY <1>1 DEF Run, NodeState
<1>3. q \in Run
  BY <1>1, NodeUpdateType DEF Run
<1>4. \A m \in Nodes : q.nodes[m].status = r.nodes[m].status /\ q.nodes[m].attempts = r.nodes[m].attempts
  BY <1>2
<1>5. Advances(r, q)
  BY ONLY <1>4, SameNodesAdvance
<1> QED
  BY <1>2, <1>3, <1>5

\* _skip_open_nodes.
LEMMA SkippedAdvances ==
  ASSUME NEW r \in Run, Coherent(r), NEW q, q.nodes = SkipOpenNodes(r).nodes
  PROVE  Advances(r, q)
<1>1. ASSUME NEW n \in Nodes
      PROVE  /\ q.nodes[n].attempts = r.nodes[n].attempts
             /\ \/ q.nodes[n].status = r.nodes[n].status
                \/ r.nodes[n].status \in {"PENDING", "READY", "RUNNING"} /\ q.nodes[n].status = "SKIPPED"
  <2>1. r.nodes[n] \in NodeState
    BY DEF Run
  <2>2. q.nodes[n] = IF Open(r, n) THEN Skipped(r.nodes[n]) ELSE r.nodes[n]
    BY DEF SkipOpenNodes, Run
  <2> QED
    BY <2>1, <2>2 DEF Open, Skipped, NodeState, NodeStatus
<1> QED
  BY <1>1 DEF Advances, StatusStep

\* A run that has just been created.
LEMMA LifecycleInit == Init => LifecycleInvariant
<1> SUFFICES ASSUME Init PROVE LifecycleInvariant
  OBVIOUS
<1>1. mem = disk /\ pc = "create"
  BY DEF Init
<1> QED
  BY <1>1 DEF LifecycleInvariant, MovedOn, MayBecome

\* A request goes on to _advance or _settle, or prepares the save that concludes it.
LEMMA RequestMoves ==
  ASSUME RunInvariant, pc = "idle", disk' = disk, Advances(disk, mem'), pc' # "ahead",
         pc' \notin {"idle", "create", "save", "attest"} => Working(disk),
         pc' \in {"save", "attest"} => Concludes(disk, mem')
  PROVE  LifecycleInvariant'
<1>1. \A n \in Nodes : MovedOn(disk, mem', n)
  BY MovedAtFirst
<1> QED
  BY <1>1 DEF LifecycleInvariant

\* The operation goes on.
LEMMA WorkMoves ==
  ASSUME LifecycleInvariant, disk' = disk, pc \notin {"idle", "create", "ahead", "save", "attest"}, Advances(mem, mem'),
         pc' # "ahead", pc' \in {"save", "attest"} => Concludes(disk, mem')
  PROVE  LifecycleInvariant'
<1>1. \A n \in Nodes : MovedOn(disk, mem, n)
  BY DEF LifecycleInvariant
<1>2. \A n \in Nodes : MovedOn(disk, mem', n)
  BY <1>1, MovedFurther
<1> QED
  BY <1>2 DEF LifecycleInvariant

\* Memory equals the disk again: after a save, a crash, or a missing executor.
LEMMA MovesEnd ==
  ASSUME mem' = disk', pc' = "idle"
  PROVE  LifecycleInvariant'
BY DEF LifecycleInvariant, MovedOn, MayBecome

\* A run some node of which waits is being worked on.
LEMMA WaitingIsWorking ==
  ASSUME TypeOK, RunInvariant, OutcomeInvariant, WaitInvariant, NEW n \in Nodes, disk.nodes[n].wait # "none"
  PROVE  Working(disk)
<1>1. disk.status \notin RunTerminal
  BY DEF OutcomeInvariant, Sound, EndsTruthfully
<1> QED
  BY <1>1, WaitsMeanExecuted DEF Working

\* The operator's requests.
LEMMA LifecycleRequest ==
  TypeOK /\ RunInvariant /\ OutcomeInvariant /\ WaitInvariant /\ LifecycleInvariant /\ Request => LifecycleInvariant'
<1> SUFFICES ASSUME TypeOK, RunInvariant, OutcomeInvariant, WaitInvariant, Request PROVE LifecycleInvariant'
  OBVIOUS
<1>t. disk \in Run /\ Coherent(disk) /\ disk.status \in RunStatus
  BY DEF TypeOK, RunInvariant, Run
<1>w. disk.status \notin RunTerminal \cup {"DRAFT"} => Working(disk)
  BY <1>t DEF Working, RunStatus
<1>1. ASSUME NEW decision \in {"APPROVED", "DENIED"}, DecidePlan(decision) PROVE LifecycleInvariant'
  <2>1. pc = "idle" /\ disk' = disk /\ pc' = "save" /\ disk.status = "DRAFT"
    BY <1>1 DEF DecidePlan, Requested
  <2>2. CASE decision = "APPROVED"
    <3>1. mem' = [disk EXCEPT !.status = "APPROVED", !.plan = "APPROVED"]
      BY <1>1, <2>2 DEF DecidePlan
    <3>2. mem'.status = "APPROVED" /\ mem'.nodes = disk.nodes
      BY <1>t, <3>1 DEF Run
    <3>3. Concludes(disk, mem') /\ Advances(disk, mem')
      BY <2>1, <3>2, SameNodesAdvance DEF Concludes
    <3> QED
      BY <2>1, <3>3, RequestMoves
  <2>3. CASE decision = "DENIED"
    <3>1. mem' = [SkipOpenNodes(disk) EXCEPT !.status = "CANCELLED", !.plan = "DENIED"]
      BY <1>1, <2>3 DEF DecidePlan
    <3>2. mem'.status = "CANCELLED" /\ mem'.nodes = SkipOpenNodes(disk).nodes
      BY <1>t, <3>1 DEF Run, SkipOpenNodes
    <3>3. Concludes(disk, mem') /\ Advances(disk, mem')
      BY <1>t, <2>1, <3>2, SkippedAdvances DEF Concludes, RunTerminal
    <3> QED
      BY <2>1, <3>3, RequestMoves
  <2> QED
    BY <2>2, <2>3
<1>2. ASSUME NEW decision \in {"APPROVED", "DENIED"}, NEW g \in Gates, DecideGate(g, decision)
      PROVE  LifecycleInvariant'
  <2>1. /\ pc = "idle" /\ disk' = disk /\ pc' \in {"refresh", "resettle"} /\ AwaitsDecision(disk, g)
        /\ mem' = GateDecided(disk, g, decision)
    BY <1>2 DEF DecideGate, Requested, BeginAdvance, BeginSettle
  <2>2. GateNode[g] \in Nodes /\ disk.nodes[GateNode[g]].wait # "none"
    BY <2>1, GateAssumption DEF AwaitsDecision, GateTypes
  <2>3. Advances(disk, mem')
    BY <1>t, <2>1, GateDecidedAdvances
  <2>4. Working(disk)
    BY <2>2, WaitingIsWorking
  <2> QED
    BY <2>1, <2>3, <2>4, RequestMoves
<1>3. CASE Execute
  <2>1. /\ pc = "idle" /\ disk' = disk /\ pc' = "refresh" /\ mem' = [disk EXCEPT !.status = "RUNNING"]
        /\ disk.status \notin RunTerminal \cup {"DRAFT"}
    BY <1>3 DEF Execute, Requested, BeginAdvance
  <2>2. mem'.nodes = disk.nodes
    BY <1>t, <2>1 DEF Run
  <2>3. Advances(disk, mem')
    BY <2>2, SameNodesAdvance
  <2> QED
    BY <1>w, <2>1, <2>3, RequestMoves
<1>4. ASSUME NEW n \in Nodes, NEW result \in Results, Submit(n, result) PROVE LifecycleInvariant'
  <2>1. PICK r : r = [disk EXCEPT !.nodes[n].wait = "none"]
    OBVIOUS
  <2>2. /\ pc = "idle" /\ disk' = disk /\ pc' = "refresh" /\ mem' = CompleteAttempt(r, n, result)
        /\ disk.nodes[n].status = "RUNNING" /\ disk.nodes[n].wait = "submission"
    BY <1>4, <2>1 DEF Submit, Requested, AwaitsSubmission, BeginAdvance
  <2>3. Advances(disk, r) /\ r \in Run /\ r.nodes[n].status = "RUNNING"
    BY <1>t, <2>1, <2>2, WaitAdvances DEF Waits
  <2>4. \A m \in Nodes : r.nodes[m].status = disk.nodes[m].status /\ r.nodes[m].attempts = disk.nodes[m].attempts
    BY <1>t, <2>1 DEF Run, NodeState
  <2>5. Advances(r, mem')
    BY <2>2, <2>3, CompleteAttemptAdvances
  <2>6. Advances(disk, mem')
    BY <2>4, <2>5 DEF Advances
  <2>7. Working(disk)
    BY <2>2, WaitingIsWorking
  <2> QED
    BY <2>2, <2>6, <2>7, RequestMoves
<1>5. CASE Resume
  <2>1. PICK r : r = Recovered(disk)
    OBVIOUS
  <2>2. /\ pc = "idle" /\ disk' = disk /\ disk.status \notin RunTerminal
        /\ \/ disk.status = "DRAFT" /\ mem' = r /\ pc' = "save"
           \/ disk.status # "DRAFT" /\ mem' = [r EXCEPT !.status = "RUNNING"] /\ pc' = "refresh"
    BY <1>5, <2>1 DEF Resume, Requested, BeginAdvance
  <2>3. Advances(disk, r) /\ r \in Run /\ r.status = disk.status
    BY <1>t, <2>1, RecoveredAdvances, RecoveredType DEF Recovered, Run
  <2>4. CASE disk.status = "DRAFT" /\ mem' = r /\ pc' = "save"
    <3>1. \A n \in Nodes : ~Interrupted(disk, n)
      BY <1>t, <2>4 DEF Coherent, Begun, Interrupted, PlanCleared
    <3>2. r.nodes = disk.nodes
      BY <1>t, <2>1, <3>1 DEF Recovered, Run
    <3>3. Concludes(disk, mem')
      BY <2>3, <2>4, <3>2 DEF Concludes
    <3> QED
      BY <2>2, <2>3, <2>4, <3>3, RequestMoves
  <2>5. CASE disk.status # "DRAFT" /\ mem' = [r EXCEPT !.status = "RUNNING"] /\ pc' = "refresh"
    <3>1. mem'.nodes = r.nodes
      BY <2>3, <2>5 DEF Run
    <3>2. Advances(disk, mem')
      BY <2>3, <3>1 DEF Advances
    <3> QED
      BY <1>w, <2>2, <2>5, <3>2, RequestMoves
  <2> QED
    BY <2>2, <2>4, <2>5
<1>6. ASSUME NEW n \in Nodes, RetryNode(n) PROVE LifecycleInvariant'
  <2>1. /\ pc = "idle" /\ disk' = disk /\ pc' = "refresh" /\ disk.nodes[n].wait = "attention"
        /\ mem' = [disk EXCEPT !.status = "RUNNING", !.nodes[n].wait = "none", !.nodes[n].status = "READY"]
    BY <1>6 DEF RetryNode, Requested, BeginAdvance
  <2>2. disk.nodes[n].status = "RUNNING" /\ disk.nodes[n] \in NodeState
    BY <1>t, <2>1 DEF Coherent, Run
  <2>3. /\ \A m \in Nodes \ {n} : mem'.nodes[m] = disk.nodes[m]
        /\ mem'.nodes[n].status = "READY" /\ mem'.nodes[n].attempts = disk.nodes[n].attempts
    BY <1>t, <2>1, <2>2 DEF Run, NodeState
  <2>4. StatusStep(disk.nodes[n].status, mem'.nodes[n].status)
    BY <2>2, <2>3 DEF StatusStep
  <2>5. Advances(disk, mem')
    BY <1>t, <2>3, <2>4, NodeEditAdvances
  <2>6. Working(disk)
    BY <2>1, WaitingIsWorking
  <2> QED
    BY <2>1, <2>5, <2>6, RequestMoves
<1>7. CASE Cancel
  <2>1. /\ pc = "idle" /\ disk' = disk /\ pc' = "save" /\ disk.status \notin RunTerminal
        /\ mem' = [SkipOpenNodes(disk) EXCEPT !.status = "CANCELLED", !.holds = {}]
    BY <1>7 DEF Cancel, Requested
  <2>2. mem'.status = "CANCELLED" /\ mem'.nodes = SkipOpenNodes(disk).nodes
    BY <1>t, <2>1 DEF Run, SkipOpenNodes
  <2>3. Concludes(disk, mem') /\ Advances(disk, mem')
    BY <1>t, <2>1, <2>2, SkippedAdvances DEF Concludes
  <2> QED
    BY <2>1, <2>3, RequestMoves
<1>8. CASE Verify
  <2>1. pc = "idle" /\ disk' = disk /\ pc' = "attest" /\ mem' = [disk EXCEPT !.verification = receipt']
    BY <1>8 DEF Verify, Requested
  <2>2. mem'.status = disk.status /\ mem'.nodes = disk.nodes
    BY <1>t, <2>1 DEF Run
  <2>3. Concludes(disk, mem') /\ Advances(disk, mem')
    BY <2>2, SameNodesAdvance DEF Concludes
  <2> QED
    BY <2>1, <2>3, RequestMoves
<1> QED
  BY <1>1, <1>2, <1>3, <1>4, <1>5, <1>6, <1>7, <1>8 DEF Request

\* The steps taken at a node.
LEMMA LifecycleVisit ==
  TypeOK /\ RunInvariant /\ LifecycleInvariant /\ VisitNode => LifecycleInvariant'
<1> DEFINE n == Current
<1> SUFFICES ASSUME TypeOK, RunInvariant, LifecycleInvariant, VisitNode PROVE LifecycleInvariant'
  OBVIOUS
<1>t. n \in Nodes /\ mem \in Run
  BY CurrentIsNode DEF VisitNode, TypeOK, HoldForApproval, RefuseNode, ExecutorMissing,
     StartNode, DeferNode, RunBuiltin, AtNode, Visiting, Current
<1>1. CASE HoldForApproval(n)
  <2>1. pc = "visit" /\ pc' = pc /\ disk' = disk /\ mem' = [mem EXCEPT !.nodes[n].wait = "approval"]
    BY <1>1 DEF HoldForApproval, AtNode, Visiting
  <2>2. Advances(mem, mem')
    BY <1>t, <2>1, WaitAdvances DEF Waits
  <2> QED
    BY <2>1, <2>2, WorkMoves
<1>2. CASE RefuseNode(n)
  <2>1. PICK r : r = [mem EXCEPT !.nodes[n].wait = "none"]
    OBVIOUS
  <2>2. /\ pc = "visit" /\ pc' = pc /\ disk' = disk /\ mem' = FailNode(r, n) /\ mem.nodes[n].status = "READY"
    BY <1>2, <2>1 DEF RefuseNode, AtNode, Visiting, Visitable
  <2>3. r \in Run /\ r.nodes[n].status = "READY"
    BY <1>t, <2>1, <2>2, WaitAdvances DEF Waits
  <2>4. \A m \in Nodes : r.nodes[m].status = mem.nodes[m].status /\ r.nodes[m].attempts = mem.nodes[m].attempts
    BY <1>t, <2>1 DEF Run, NodeState
  <2>5. Advances(r, mem')
    BY <1>t, <2>2, <2>3, FailNodeAdvances
  <2>6. Advances(mem, mem')
    BY <2>4, <2>5 DEF Advances
  <2> QED
    BY <2>2, <2>6, WorkMoves
<1>3. CASE ExecutorMissing(n)
  BY <1>3, MovesEnd DEF ExecutorMissing, Release
<1>4. CASE StartNode(n)
  <2>1. /\ pc = "visit" /\ pc' = "ahead" /\ disk' = disk /\ cursor' = cursor /\ mem' = Started(mem, n)
        /\ mem.nodes[n].status = "READY"
    BY <1>4 DEF StartNode, AtNode, Visiting, Visitable
  <2>2. \A m \in Nodes : MovedOn(disk, mem, m)
    BY <2>1 DEF LifecycleInvariant
  <2>3. disk.nodes[n].status \in {"PENDING", "READY", "RUNNING"} /\ mem.nodes[n].attempts = disk.nodes[n].attempts
    BY <1>t, <2>1, <2>2 DEF MovedOn, MayBecome
  <2>4. /\ mem'.nodes[n].attempts = mem.nodes[n].attempts + 1
        /\ \A m \in Nodes \ {n} : mem'.nodes[m] = mem.nodes[m]
    BY <1>t, <2>1 DEF Started, Run, NodeState
  <2>5. \A m \in Nodes : m = n \/ MovedOn(disk, mem', m)
    BY <2>2, <2>4 DEF MovedOn
  <2>6. Current' = n /\ Working(disk)
    BY <2>1 DEF Current, LifecycleInvariant
  <2> HIDE DEF n
  <2> QED
    BY <2>1, <2>3, <2>4, <2>5, <2>6 DEF LifecycleInvariant
<1>5. CASE DeferNode(n)
  <2>1. pc = "call" /\ pc' = "visit" /\ disk' = disk /\ mem' = [mem EXCEPT !.nodes[n].wait = "submission"]
    BY <1>5 DEF DeferNode, Invoke
  <2>2. Advances(mem, mem')
    BY <1>t, <2>1, WaitAdvances DEF Waits
  <2> QED
    BY <2>1, <2>2, WorkMoves
<1>6. ASSUME NEW result \in Results, RunBuiltin(n, result) PROVE LifecycleInvariant'
  <2>1. pc = "call" /\ pc' = "visit" /\ disk' = disk /\ mem' = CompleteAttempt(mem, n, result)
    BY <1>6 DEF RunBuiltin, Invoke
  <2>2. mem.nodes[n].status = "RUNNING"
    BY <2>1 DEF RunInvariant
  <2>3. Advances(mem, mem')
    BY <1>t, <2>1, <2>2, CompleteAttemptAdvances
  <2> QED
    BY <2>1, <2>3, WorkMoves
<1> QED
  BY <1>1, <1>2, <1>3, <1>4, <1>5, <1>6 DEF VisitNode, n

\* The engine's other steps.
LEMMA LifecycleStep ==
  TypeOK /\ RunInvariant /\ OutcomeInvariant /\ WaitInvariant /\ LifecycleInvariant /\ Step => LifecycleInvariant'
<1> SUFFICES ASSUME TypeOK, RunInvariant, OutcomeInvariant, WaitInvariant, LifecycleInvariant, Step
             PROVE  LifecycleInvariant'
  OBVIOUS
<1>t. mem \in Run /\ Coherent(mem)
  BY DEF TypeOK, RunInvariant
<1>1. CASE RefreshNode
  <2>1. /\ pc' = pc /\ pc \in {"refresh", "resettle"} /\ disk' = disk /\ cursor \in 1..N /\ N \in Nat
        /\ mem' = [mem EXCEPT !.nodes[Order[cursor]] = Refreshed(mem, Order[cursor])]
    BY <1>1, CurrentIsNode DEF RefreshNode, TypeOK, Current
  <2>2. Order[cursor] \in Nodes /\ RefreshedAt(mem, mem', Order[cursor])
    BY <2>1, CurrentIsNode DEF RefreshedAt
  <2>3. Advances(mem, mem')
    BY <1>t, <2>2, RefreshedAdvances
  <2> QED
    BY <2>1, <2>3, WorkMoves
<1>2. CASE BeginPass \/ PassOver \/ StopOnBudget \/ EndPass
  <2>1. /\ pc \in {"refresh", "visit"} /\ pc' \in {"refresh", "visit", "resettle"}
        /\ disk' = disk /\ mem' = mem
    BY <1>2 DEF BeginPass, PassOver, StopOnBudget, EndPass, Visiting
  <2>2. Advances(mem, mem')
    BY <2>1, SameNodesAdvance
  <2> QED
    BY <2>1, <2>2, WorkMoves
<1>3. CASE VisitNode
  BY <1>3, LifecycleVisit
<1>4. CASE WriteAhead
  <2>1. pc = "ahead" /\ pc' = "call" /\ disk' = mem /\ mem' = mem
    BY <1>4 DEF WriteAhead
  <2>2. Working(mem)
    BY <2>1 DEF WaitInvariant, Working
  <2> QED
    BY <2>1, <2>2 DEF LifecycleInvariant, MovedOn, MayBecome
<1>5. CASE Settle
  <2>1. pc = "resettle" /\ pc' = "save" /\ disk' = disk /\ mem' = Settled(mem, exhausted)
    BY <1>5 DEF Settle
  <2>2. mem.status \notin RunTerminal /\ Working(disk)
    BY <2>1 DEF OutcomeInvariant, LifecycleInvariant
  <2>3. CASE \A n \in Nodes : ~Open(mem, n)
    <3>1. mem' = [mem EXCEPT !.status = FinalStatus(mem), !.holds = {}]
      BY <2>1, <2>2, <2>3 DEF Settled
    <3>2. mem'.status = FinalStatus(mem) /\ mem'.nodes = mem.nodes
      BY <1>t, <3>1 DEF Run
    <3>3. FinalStatus(mem') = FinalStatus(mem) /\ \A n \in Nodes : ~Open(mem', n)
      BY <2>3, <3>2 DEF FinalStatus, Open
    <3>4. Concludes(disk, mem') /\ Advances(mem, mem')
      BY <2>2, <3>2, <3>3, SameNodesAdvance DEF Concludes
    <3> QED
      BY <2>1, <3>4, WorkMoves
  <2>4. CASE ~ \A n \in Nodes : ~Open(mem, n)
    <3>1. mem' = [mem EXCEPT !.status = "WAITING", !.holds = HoldsOf(mem, exhausted)]
      BY <2>1, <2>2, <2>4 DEF Settled
    <3>2. mem'.status = "WAITING" /\ mem'.nodes = mem.nodes
      BY <1>t, <3>1 DEF Run
    <3>3. Concludes(disk, mem') /\ Advances(mem, mem')
      BY <2>2, <3>2, SameNodesAdvance DEF Concludes
    <3> QED
      BY <2>1, <3>3, WorkMoves
  <2> QED
    BY <2>3, <2>4
<1>6. CASE Save
  BY <1>6, MovesEnd DEF Save, Release
<1>7. CASE Attest
  <2>1. pc = "attest" /\ pc' = "save" /\ disk' = disk /\ mem' = mem
    BY <1>7 DEF Attest
  <2> QED
    BY <2>1 DEF LifecycleInvariant, MovedOn
<1>8. CASE RecordCreation
  BY <1>8, MovesEnd DEF RecordCreation, Release
<1> QED
  BY <1>1, <1>2, <1>3, <1>4, <1>5, <1>6, <1>7, <1>8 DEF Step

\* Every step of the engine.
LEMMA LifecycleNext ==
  /\ TypeOK /\ RunInvariant /\ OutcomeInvariant /\ WaitInvariant
  /\ LifecycleInvariant /\ [Next]_vars
  => LifecycleInvariant'
<1> SUFFICES ASSUME TypeOK, RunInvariant, OutcomeInvariant, WaitInvariant, LifecycleInvariant, [Next]_vars
             PROVE  LifecycleInvariant'
  OBVIOUS
<1>1. CASE Request
  BY <1>1, LifecycleRequest
<1>2. CASE Step
  BY <1>2, LifecycleStep
<1>3. CASE Crash
  BY <1>3, MovesEnd DEF Crash, Release
<1>4. CASE Reconfigure \/ UNCHANGED vars
  <2>1. disk' = disk /\ mem' = mem /\ pc' = pc /\ cursor' = cursor
    BY <1>4 DEF Reconfigure, vars, loop
  <2>2. Current' = Current
    BY <2>1 DEF Current
  <2> QED
    BY <2>1, <2>2 DEF LifecycleInvariant
<1> QED
  BY <1>1, <1>2, <1>3, <1>4 DEF Next

\* Memory is never more than one attempt ahead of the disk, and every save is one the
\* lifecycle allows.
THEOREM LifecycleHolds == Spec => []LifecycleInvariant
BY TypeCorrect, InvariantHolds, OutcomeHolds, WaitHolds, LifecycleInit, LifecycleNext, PTL DEF Spec

\* How the lifecycle sees a node that has moved on.
LEMMA MovedMaps ==
  ASSUME NEW n \in Nodes, MovedOn(disk, disk', n)
  PROVE  /\ Lifecycle!NodeMove(n)
         /\ LifecycleNode(disk.nodes[n]) = "TODO" => LifecycleNode(disk'.nodes[n]) # "RUNNING"
<1>1. MayBecome(disk.nodes[n].status, disk'.nodes[n].status)
  BY DEF MovedOn
<1>2. /\ LifecycleNode(disk.nodes[n]) = (IF disk.nodes[n].status \in {"PENDING", "READY"} THEN "TODO"
                                         ELSE disk.nodes[n].status)
      /\ LifecycleNode(disk'.nodes[n]) = (IF disk'.nodes[n].status \in {"PENDING", "READY"} THEN "TODO"
                                          ELSE disk'.nodes[n].status)
  BY DEF LifecycleNode
<1>3. \/ LifecycleNode(disk'.nodes[n]) = LifecycleNode(disk.nodes[n])
      \/ /\ LifecycleNode(disk.nodes[n]) = "TODO"
         /\ LifecycleNode(disk'.nodes[n]) \in {"FAILED", "BLOCKED", "SKIPPED"}
      \/ /\ LifecycleNode(disk.nodes[n]) = "RUNNING"
         /\ LifecycleNode(disk'.nodes[n]) \in {"TODO", "SUCCEEDED", "FAILED", "SKIPPED"}
  BY <1>1, <1>2 DEF MayBecome
<1> QED
  BY <1>3 DEF Lifecycle!NodeMove

\* How the lifecycle sees a run that is being worked on, and a node's final statuses.
LEMMA WorkingMaps ==
  ASSUME NEW r, Working(r)
  PROVE  LifecycleStatus(r) \in {"APPROVED", "ACTIVE"}
BY DEF Working, LifecycleStatus

LEMMA FinalMaps ==
  ASSUME NEW r \in Run, NEW n \in Nodes
  PROVE  /\ Open(r, n) <=> LifecycleNode(r.nodes[n]) \notin Lifecycle!NodeFinal
         /\ ~Open(r, n) => LifecycleNode(r.nodes[n]) = r.nodes[n].status
         /\ LifecycleNode(r.nodes[n]) = "SUCCEEDED" <=> r.nodes[n].status = "SUCCEEDED"
<1>1. r.nodes[n].status \in NodeStatus
  BY DEF Run, NodeState
<1> QED
  BY <1>1 DEF Open, LifecycleNode, Lifecycle!NodeFinal, NodeStatus, NodeTerminal

\* The first save of a run is an initial state of the lifecycle.
LEMMA InitMaps == Init => Lifecycle!Init
<1> SUFFICES ASSUME Init PROVE Lifecycle!Init
  OBVIOUS
<1>1. disk.status \in {"DRAFT", "APPROVED"} /\ \A n \in Nodes : disk.nodes[n].status = "PENDING" /\ disk.nodes[n].attempts = 0
  BY DEF Init, NewRun
<1>2. LifecycleStatus(disk) \in {"DRAFT", "APPROVED"} /\ \A n \in Nodes : LifecycleNode(disk.nodes[n]) = "TODO"
  BY <1>1 DEF LifecycleStatus, LifecycleNode
<1> QED
  BY <1>1, <1>2 DEF Lifecycle!Init

\* The save that ends an operation.
LEMMA SaveMaps ==
  ASSUME TypeOK, LifecycleInvariant, Save
  PROVE  [Lifecycle!Next]_(Lifecycle!view)
<1>1. /\ pc = "save" /\ disk' = mem /\ disk \in Run /\ mem \in Run
  BY DEF Save, TypeOK
<1>2. Concludes(disk, disk') /\ \A n \in Nodes : MovedOn(disk, disk', n)
  BY <1>1 DEF LifecycleInvariant
<1>3. \A n \in Nodes : /\ Lifecycle!NodeMove(n)
                       /\ LifecycleNode(disk.nodes[n]) = "TODO" => LifecycleNode(disk'.nodes[n]) # "RUNNING"
  BY <1>2, MovedMaps
<1>4. [n \in Nodes |-> disk'.nodes[n].attempts] = [n \in Nodes |-> disk.nodes[n].attempts]
  BY <1>2 DEF MovedOn
<1>5. CASE disk'.status \in {disk.status, IF disk.status = "DRAFT" THEN "APPROVED" ELSE disk.status}
           /\ disk'.nodes = disk.nodes
  <2>1. CASE disk'.status = disk.status
    <3>1. LifecycleStatus(disk') = LifecycleStatus(disk)
      BY <2>1 DEF LifecycleStatus
    <3> QED
      BY <1>5, <3>1 DEF Lifecycle!view
  <2>2. CASE disk.status = "DRAFT" /\ disk'.status = "APPROVED"
    <3>1. LifecycleStatus(disk) = "DRAFT" /\ LifecycleStatus(disk') = "APPROVED"
      BY <2>2 DEF LifecycleStatus
    <3>2. Lifecycle!Approve
      BY <1>5, <3>1 DEF Lifecycle!Approve
    <3> QED
      BY <3>2 DEF Lifecycle!Next
  <2> QED
    BY <1>5, <2>1, <2>2
<1>6. CASE /\ disk.status \notin RunTerminal /\ disk'.status = "CANCELLED"
           /\ disk'.nodes = SkipOpenNodes(disk).nodes
  <2>1. LifecycleStatus(disk) \notin Lifecycle!RunFinal /\ LifecycleStatus(disk') = "CANCELLED"
    BY <1>6 DEF LifecycleStatus, RunTerminal, Lifecycle!RunFinal
  <2>2. ASSUME NEW n \in Nodes
        PROVE  LifecycleNode(disk'.nodes[n]) = IF LifecycleNode(disk.nodes[n]) \in Lifecycle!NodeFinal
                                               THEN LifecycleNode(disk.nodes[n]) ELSE "SKIPPED"
    <3>1. disk.nodes[n] \in NodeState
      BY <1>1 DEF Run
    <3>2. disk'.nodes[n] = IF Open(disk, n) THEN Skipped(disk.nodes[n]) ELSE disk.nodes[n]
      BY <1>1, <1>6 DEF SkipOpenNodes, Run
    <3>3. LifecycleNode(Skipped(disk.nodes[n])) = "SKIPPED"
      BY <3>1 DEF LifecycleNode, Skipped, NodeState
    <3> QED
      BY <1>1, <3>2, <3>3, FinalMaps
  <2>3. Lifecycle!Abandon
    BY <1>4, <2>1, <2>2 DEF Lifecycle!Abandon
  <2> QED
    BY <2>3 DEF Lifecycle!Next
<1>7. CASE Working(disk) /\ disk'.status = "WAITING"
  <2>1. LifecycleStatus(disk) \in {"APPROVED", "ACTIVE"} /\ LifecycleStatus(disk') = "ACTIVE"
    BY <1>7, WorkingMaps DEF LifecycleStatus
  <2>2. Lifecycle!Work
    BY <1>3, <1>4, <2>1 DEF Lifecycle!Work
  <2> QED
    BY <2>2 DEF Lifecycle!Next
<1>8. CASE Working(disk) /\ disk'.status = FinalStatus(disk') /\ \A n \in Nodes : ~Open(disk', n)
  <2>1. LifecycleStatus(disk) \in {"APPROVED", "ACTIVE"}
    BY <1>8, WorkingMaps
  <2>2. \A n \in Nodes : /\ LifecycleNode(disk'.nodes[n]) \in Lifecycle!NodeFinal
                         /\ LifecycleNode(disk'.nodes[n]) = "SUCCEEDED" <=> disk'.nodes[n].status = "SUCCEEDED"
    BY <1>1, <1>8, FinalMaps
  <2>3. LifecycleStatus(disk') = IF \A n \in Nodes : LifecycleNode(disk'.nodes[n]) = "SUCCEEDED"
                                 THEN "SUCCEEDED" ELSE "FAILED"
    BY <1>8, <2>2 DEF LifecycleStatus, FinalStatus
  <2>4. Lifecycle!Finish
    BY <1>3, <1>4, <2>1, <2>2, <2>3 DEF Lifecycle!Finish
  <2> QED
    BY <2>4 DEF Lifecycle!Next
<1> QED
  BY <1>2, <1>5, <1>6, <1>7, <1>8 DEF Concludes

\* The save that begins an attempt.
LEMMA WriteAheadMaps ==
  ASSUME TypeOK, RunInvariant, WaitInvariant, LifecycleInvariant, WriteAhead
  PROVE  Lifecycle!Next
<1>1. pc = "ahead" /\ disk' = mem /\ disk \in Run /\ mem \in Run /\ Current \in Nodes
  BY CurrentIsNode DEF WriteAhead, TypeOK, Current
<1>c. PICK c \in Nodes : c = Current
  BY <1>1
<1>2. /\ disk.nodes[c].status \in {"PENDING", "READY", "RUNNING"} /\ disk'.nodes[c].status = "RUNNING"
      /\ disk'.nodes[c].attempts = disk.nodes[c].attempts + 1
      /\ \A n \in Nodes \ {c} : MovedOn(disk, disk', n)
      /\ Working(disk) /\ disk'.status \in {"RUNNING", "WAITING"}
  BY <1>1, <1>c DEF LifecycleInvariant, RunInvariant, WaitInvariant
<1>3. \A d \in DependsOn[c] : d \in Nodes /\ disk'.nodes[d].status = "SUCCEEDED"
  <2>1. Begun(mem, c) /\ Coherent(mem) /\ DependsOn[c] \subseteq Nodes
    BY <1>1, <1>2, OrderAssumption DEF Begun, RunInvariant
  <2> QED
    BY <1>1, <2>1 DEF Coherent
<1>4. \A n \in Nodes \ {c} :
        /\ Lifecycle!NodeMove(n)
        /\ LifecycleNode(disk.nodes[n]) = "TODO" => LifecycleNode(disk'.nodes[n]) # "RUNNING"
  BY <1>2, MovedMaps
<1>5. /\ LifecycleNode(disk.nodes[c]) \in {"TODO", "RUNNING"} /\ LifecycleNode(disk'.nodes[c]) = "RUNNING"
      /\ \A d \in DependsOn[c] : LifecycleNode(disk'.nodes[d]) = "SUCCEEDED"
  BY <1>2, <1>3 DEF LifecycleNode
<1>6. [n \in Nodes |-> disk'.nodes[n].attempts]
        = [[n \in Nodes |-> disk.nodes[n].attempts] EXCEPT ![c] = @ + 1]
  BY <1>1, <1>2 DEF MovedOn
<1>7. Lifecycle!NodeMove(c)
  BY <1>1, <1>5 DEF Lifecycle!NodeMove
<1>8. Lifecycle!Begins(c)
  BY <1>1, <1>3, <1>5, <1>6 DEF Lifecycle!Begins, Lifecycle!NodeFinal
<1>9. LifecycleStatus(disk) \in {"APPROVED", "ACTIVE"} /\ LifecycleStatus(disk') = "ACTIVE"
  BY <1>2, WorkingMaps DEF LifecycleStatus
<1>10. Lifecycle!Work
  <2>1. \A n \in Nodes : Lifecycle!NodeMove(n)
    BY <1>4, <1>7
  <2>2. \A m \in Nodes \ {c} : [n \in Nodes |-> LifecycleNode(disk.nodes[n])][m] = "TODO"
                                => [n \in Nodes |-> LifecycleNode(disk'.nodes[n])][m] # "RUNNING"
    BY <1>4
  <2>3. \E n \in Nodes : Lifecycle!Begins(n)
          /\ \A m \in Nodes \ {n} : [l \in Nodes |-> LifecycleNode(disk.nodes[l])][m] = "TODO"
                                  => [l \in Nodes |-> LifecycleNode(disk'.nodes[l])][m] # "RUNNING"
    BY <1>8, <2>2
  <2> QED
    BY <1>9, <2>1, <2>3, Zenon DEF Lifecycle!Work
<1> QED
  BY <1>10 DEF Lifecycle!Next

\* Every step of the engine is one of the lifecycle or leaves the file alone.
LEMMA StepMaps ==
  ASSUME TypeOK, RunInvariant, WaitInvariant, LifecycleInvariant, [Next]_vars
  PROVE  [Lifecycle!Next]_(Lifecycle!view)
<1>1. CASE Save
  BY <1>1, SaveMaps
<1>2. CASE WriteAhead
  BY <1>2, WriteAheadMaps
<1>3. CASE UNCHANGED disk
  BY <1>3 DEF Lifecycle!view
<1>4. Save \/ WriteAhead \/ UNCHANGED disk
  BY DEF Next, Request, Step, VisitNode, Crash, Reconfigure, vars, DecidePlan, DecideGate, Execute, Submit,
         Resume, RetryNode, Cancel, Verify, RefreshNode, BeginPass, PassOver, StopOnBudget, EndPass,
         HoldForApproval, RefuseNode, ExecutorMissing, StartNode, DeferNode, RunBuiltin, Settle, Attest,
         RecordCreation
<1> QED
  BY <1>1, <1>2, <1>3, <1>4

\* The engine implements the lifecycle: whatever a reader of state.json may see, however the
\* operations interleave with crashes, follows RunLifecycle.
THEOREM EngineImplementsLifecycle == Spec => ImplementsLifecycle
<1>1. Init => Lifecycle!Init
  BY InitMaps
<1>2. TypeOK /\ RunInvariant /\ WaitInvariant /\ LifecycleInvariant /\ [Next]_vars
      => [Lifecycle!Next]_(Lifecycle!view)
  BY StepMaps
<1> QED
  BY <1>1, <1>2, TypeCorrect, InvariantHolds, WaitHolds, LifecycleHolds, PTL
     DEF Spec, ImplementsLifecycle, Lifecycle!Spec

-----------------------------------------------------------------------------
(* Attempts beyond max_attempts.                                           *)

\* A helper counts no attempt, and makes a node startable or re-queueable only with an
\* attempt of its own to spare.
Spares(r, q) ==
  \A n \in Nodes :
    /\ q.nodes[n].attempts = r.nodes[n].attempts
    /\ q.nodes[n].attempts < MaxAttempts[n]
       \/ /\ Startable(q.nodes[n]) => Startable(r.nodes[n])
          /\ Requeueable(q.nodes[n]) => Requeueable(r.nodes[n])

\* Every node of r that resume or retry_node may re-queue has an attempt left, node skip aside.
RequeuesWithin(r, slack, skip) ==
  \A n \in Nodes : n = skip \/ (Requeueable(r.nodes[n]) => r.nodes[n].attempts < MaxAttempts[n] + slack)

\* No node.
Nobody == CHOOSE n : n \notin Nodes

LEMMA AttemptsAreCounted ==
  ASSUME NEW r \in Run, NEW n \in Nodes
  PROVE  r.nodes[n].attempts \in Nat /\ MaxAttempts[n] \in Nat /\ MaxAttempts[n] >= 1
BY NodeAssumption DEF Run, NodeState

LEMMA SameNodesSpare ==
  ASSUME NEW r, NEW q, q.nodes = r.nodes
  PROVE  Spares(r, q)
BY DEF Spares

\* Bounds carry over to what a helper makes of the run.
LEMMA SparesKeeps ==
  ASSUME NEW r \in Run, NEW q \in Run, Spares(r, q), NEW slack \in Nat, AttemptsWithin(r, slack)
  PROVE  /\ AttemptsWithin(q, slack)
         /\ \A skip : RequeuesWithin(r, slack, skip) => RequeuesWithin(q, slack, skip)
<1>1. ASSUME NEW n \in Nodes
      PROVE  /\ q.nodes[n].attempts <= MaxAttempts[n] + slack
             /\ Startable(q.nodes[n]) => q.nodes[n].attempts < MaxAttempts[n] + slack
             /\ \A skip : RequeuesWithin(r, slack, skip) =>
                  n = skip \/ (Requeueable(q.nodes[n]) => q.nodes[n].attempts < MaxAttempts[n] + slack)
  <2> DEFINE a == r.nodes[n].attempts
             M == MaxAttempts[n]
  <2>1. a \in Nat /\ M \in Nat
    BY AttemptsAreCounted
  <2>2. q.nodes[n].attempts = a /\ a <= M + slack
    BY DEF Spares, AttemptsWithin
  <2>3. CASE a < M
    <3>1. a < M + slack
      BY <2>1, <2>3
    <3> QED
      BY <2>2, <3>1
  <2>4. CASE /\ Startable(q.nodes[n]) => Startable(r.nodes[n])
             /\ Requeueable(q.nodes[n]) => Requeueable(r.nodes[n])
    BY <2>2, <2>4 DEF AttemptsWithin, RequeuesWithin
  <2> QED
    BY <2>2, <2>3, <2>4 DEF Spares
<1> QED
  BY <1>1 DEF AttemptsWithin, RequeuesWithin

\* More slack, more room: what was within a bound is below the next.
LEMMA WithinMore ==
  ASSUME NEW r \in Run, NEW k \in Nat, NEW l \in Nat, AttemptsWithin(r, k), k <= l
  PROVE  /\ AttemptsWithin(r, l)
         /\ k < l => \A skip : RequeuesWithin(r, l, skip)
         /\ \A skip : RequeuesWithin(r, k, skip) => RequeuesWithin(r, l, skip)
<1>1. ASSUME NEW n \in Nodes
      PROVE  /\ r.nodes[n].attempts <= MaxAttempts[n] + l
             /\ r.nodes[n].attempts < MaxAttempts[n] + k => r.nodes[n].attempts < MaxAttempts[n] + l
             /\ k < l => r.nodes[n].attempts < MaxAttempts[n] + l
  <2>1. r.nodes[n].attempts \in Nat /\ MaxAttempts[n] \in Nat /\ r.nodes[n].attempts <= MaxAttempts[n] + k
    BY AttemptsAreCounted DEF AttemptsWithin
  <2> QED
    BY <2>1
<1> QED
  BY <1>1 DEF AttemptsWithin, RequeuesWithin

\* One node is edited so that it is neither startable nor re-queueable, or is as much as before.
LEMMA NodeEditSpares ==
  ASSUME NEW r \in Run, NEW n \in Nodes, NEW q, \A m \in Nodes \ {n} : q.nodes[m] = r.nodes[m],
         q.nodes[n].attempts = r.nodes[n].attempts,
         Startable(q.nodes[n]) => Startable(r.nodes[n]),
         Requeueable(q.nodes[n]) => Requeueable(r.nodes[n])
  PROVE  Spares(r, q)
BY DEF Spares

LEMMA FailNodeSpares ==
  ASSUME NEW r \in Run, NEW n \in Nodes, NEW q, q = FailNode(r, n)
  PROVE  Spares(r, q)
<1>1. ASSUME NEW m \in Nodes
      PROVE  /\ q.nodes[m].attempts = r.nodes[m].attempts
             /\ q.nodes[m] = r.nodes[m] \/ q.nodes[m].status \in {"FAILED", "SKIPPED"}
  <2>1. r.nodes[m] \in NodeState
    BY DEF Run
  <2> QED
    BY <2>1 DEF FailNode, Skipped, Run, NodeState
<1>2. \A s : s.status \in {"FAILED", "SKIPPED"} => ~Startable(s) /\ ~Requeueable(s)
  BY DEF Startable, Requeueable
<1> QED
  BY <1>1, <1>2 DEF Spares

\* A failed attempt is repeated only below max_attempts.
LEMMA CompleteAttemptSpares ==
  ASSUME NEW r \in Run, NEW n \in Nodes, NEW result \in Results, r.nodes[n].status = "RUNNING",
         NEW q, q = CompleteAttempt(r, n, result)
  PROVE  /\ Spares(r, q)
         /\ q.nodes[n].attempts < MaxAttempts[n] \/ ~(Startable(q.nodes[n]) \/ Requeueable(q.nodes[n]))
<1> DEFINE stored == [r EXCEPT !.nodes[n].outputs = result.outputs]
           outcome == Outcome(result)
<1>1. r.nodes[n] \in NodeState
  BY DEF Run
<1>2. CASE outcome = "SUCCESS" /\ PendingGates(stored, n, "review") # {}
  <2>1. q = [stored EXCEPT !.nodes[n].wait = "review"]
    BY <1>2 DEF CompleteAttempt
  <2>2. /\ \A m \in Nodes \ {n} : q.nodes[m] = r.nodes[m]
        /\ q.nodes[n].status = "RUNNING" /\ q.nodes[n].wait = "review"
        /\ q.nodes[n].attempts = r.nodes[n].attempts
    BY <1>1, <2>1 DEF Run, NodeState
  <2>3. ~Startable(q.nodes[n]) /\ ~Requeueable(q.nodes[n])
    BY <2>2 DEF Startable, Requeueable
  <2> QED
    BY <2>2, <2>3, NodeEditSpares
<1>3. CASE outcome = "SUCCESS" /\ PendingGates(stored, n, "review") = {}
  <2>1. q = [stored EXCEPT !.nodes[n].status = "SUCCEEDED"]
    BY <1>3 DEF CompleteAttempt
  <2>2. /\ \A m \in Nodes \ {n} : q.nodes[m] = r.nodes[m]
        /\ q.nodes[n].status = "SUCCEEDED" /\ q.nodes[n].attempts = r.nodes[n].attempts
    BY <1>1, <2>1 DEF Run, NodeState
  <2>3. ~Startable(q.nodes[n]) /\ ~Requeueable(q.nodes[n])
    BY <2>2 DEF Startable, Requeueable
  <2> QED
    BY <2>2, <2>3, NodeEditSpares
<1>4. CASE outcome # "SUCCESS" /\ RetryAllowed(r, n, outcome)
  <2>1. q = [r EXCEPT !.nodes[n].status = "READY"] /\ r.nodes[n].attempts < MaxAttempts[n]
    BY <1>4 DEF CompleteAttempt, RetryAllowed
  <2>2. /\ \A m \in Nodes \ {n} : q.nodes[m] = r.nodes[m]
        /\ q.nodes[n].attempts = r.nodes[n].attempts
    BY <1>1, <2>1 DEF Run, NodeState
  <2> QED
    BY <2>1, <2>2 DEF Spares
<1>5. CASE outcome # "SUCCESS" /\ ~RetryAllowed(r, n, outcome)
  <2>1. q = FailNode(r, n)
    BY <1>5 DEF CompleteAttempt
  <2>2. q.nodes[n].status = "FAILED"
    <3>1. q.nodes[n] = [r.nodes[n] EXCEPT !.status = "FAILED", !.wait = "none"]
      BY <2>1 DEF FailNode, Run
    <3> QED
      BY <1>1, <3>1 DEF NodeState
  <2>3. ~Startable(q.nodes[n]) /\ ~Requeueable(q.nodes[n])
    BY <2>2 DEF Startable, Requeueable
  <2> QED
    BY <2>1, <2>3, FailNodeSpares
<1> QED
  BY <1>2, <1>3, <1>4, <1>5

LEMMA GateDecidedSpares ==
  ASSUME NEW r \in Run, Coherent(r), NEW g \in Gates, AwaitsDecision(r, g), NEW decision \in {"APPROVED", "DENIED"},
         NEW q, q = GateDecided(r, g, decision)
  PROVE  Spares(r, q)
<1> DEFINE n == GateNode[g]
           d == Decided(r, g, decision)
<1>1. n \in Nodes /\ GateType[g] \in GateTypes
  BY GateAssumption
<1>2. d \in Run /\ d.nodes = r.nodes
  BY DecidedType
<1>3. d.nodes[n] \in NodeState /\ r.nodes[n].wait = GateType[g]
  BY <1>1, <1>2 DEF Run, AwaitsDecision
<1>4. GateType[g] = "approval" => r.nodes[n].status = "READY"
  BY <1>1, <1>3 DEF Coherent
<1> HIDE DEF d, n
<1>5. \/ q = FailNode(d, n) \/ q = d
      \/ GateType[g] = "approval" /\ q = [d EXCEPT !.nodes[n].wait = "none"]
      \/ GateType[g] = "review" /\ q = [d EXCEPT !.nodes[n].wait = "none", !.nodes[n].status = "SUCCEEDED"]
  BY <1>1 DEF GateDecided, GateTypes, d, n
<1>6. CASE q = FailNode(d, n)
  <2>1. Spares(d, q)
    BY <1>1, <1>2, <1>6, FailNodeSpares
  <2> QED
    BY <1>2, <2>1 DEF Spares
<1>7. CASE q = d
  BY <1>2, <1>7, SameNodesSpare
<1>8. CASE GateType[g] = "approval" /\ q = [d EXCEPT !.nodes[n].wait = "none"]
  <2>1. /\ \A m \in Nodes \ {n} : q.nodes[m] = r.nodes[m]
        /\ q.nodes[n].status = r.nodes[n].status /\ q.nodes[n].attempts = r.nodes[n].attempts
    BY <1>1, <1>2, <1>3, <1>8 DEF Run, NodeState
  <2>2. Startable(r.nodes[n]) /\ ~Requeueable(q.nodes[n])
    BY <1>4, <1>8, <2>1 DEF Startable, Requeueable
  <2> QED
    BY <1>1, <2>1, <2>2, NodeEditSpares
<1>9. CASE GateType[g] = "review" /\ q = [d EXCEPT !.nodes[n].wait = "none", !.nodes[n].status = "SUCCEEDED"]
  <2>1. /\ \A m \in Nodes \ {n} : q.nodes[m] = r.nodes[m]
        /\ q.nodes[n].status = "SUCCEEDED" /\ q.nodes[n].attempts = r.nodes[n].attempts
    BY <1>1, <1>2, <1>3, <1>9 DEF Run, NodeState
  <2>2. ~Startable(q.nodes[n]) /\ ~Requeueable(q.nodes[n])
    BY <2>1 DEF Startable, Requeueable
  <2> QED
    BY <1>1, <2>1, <2>2, NodeEditSpares
<1> QED
  BY <1>5, <1>6, <1>7, <1>8, <1>9

LEMMA RefreshedSpares ==
  ASSUME NEW r \in Run, NEW n \in Nodes, NEW q, RefreshedAt(r, q, n)
  PROVE  Spares(r, q)
<1>1. Refreshed(r, n) \in NodeState /\ r.nodes[n] \in NodeState
  BY RefreshedType DEF Run
<1>2. q.nodes[n] = Refreshed(r, n) /\ \A m \in Nodes \ {n} : q.nodes[m] = r.nodes[m]
  BY DEF RefreshedAt, Run
<1> DEFINE s == r.nodes[n]
           t == Refreshed(r, n)
<1>3. t = s \/ (s.status \in {"PENDING", "READY"} /\ t.attempts = s.attempts
                  /\ t.status \in {"READY", "BLOCKED", "SKIPPED"})
  <2>1. CASE s.status \notin {"PENDING", "READY"}
    BY <2>1 DEF Refreshed
  <2>2. CASE s.status \in {"PENDING", "READY"} /\ r.stopped
    <3>1. t = Skipped(s)
      BY <2>2, SMT DEF Refreshed
    <3> QED
      BY <1>1, <2>2, <3>1 DEF Skipped, NodeState
  <2>3. CASE s.status \in {"PENDING", "READY"} /\ ~r.stopped /\ BadDependency(r, n)
    <3>1. t = [s EXCEPT !.status = "BLOCKED", !.wait = "none"]
      <4>1. ~DependenciesMet(r, n)
        BY <2>3 DEF BadDependency, DependenciesMet
      <4> QED
        BY <2>3, <4>1, SMT DEF Refreshed
    <3> QED
      BY <1>1, <2>3, <3>1 DEF NodeState
  <2>4. CASE s.status = "PENDING" /\ ~r.stopped /\ ~BadDependency(r, n) /\ DependenciesMet(r, n)
    <3>1. t = [s EXCEPT !.status = "READY"]
      BY <2>4, SMT DEF Refreshed
    <3> QED
      BY <1>1, <2>4, <3>1 DEF NodeState
  <2>5. CASE /\ s.status \in {"PENDING", "READY"} /\ ~r.stopped /\ ~BadDependency(r, n)
             /\ ~(s.status = "PENDING" /\ DependenciesMet(r, n))
    BY <2>5, SMT DEF Refreshed
  <2> QED
    BY <2>1, <2>2, <2>3, <2>4, <2>5
<1>4. t.attempts = s.attempts /\ (Startable(t) => Startable(s)) /\ (Requeueable(t) => Requeueable(s))
  BY <1>3 DEF Startable, Requeueable
<1> HIDE DEF s, t
<1> QED
  BY <1>2, <1>4, NodeEditSpares DEF s, t

LEMMA SkippedSpares ==
  ASSUME NEW r \in Run, NEW q, q.nodes = SkipOpenNodes(r).nodes
  PROVE  Spares(r, q)
<1>1. ASSUME NEW n \in Nodes
      PROVE  /\ q.nodes[n].attempts = r.nodes[n].attempts
             /\ q.nodes[n] = r.nodes[n] \/ q.nodes[n].status = "SKIPPED"
  <2>1. r.nodes[n] \in NodeState
    BY DEF Run
  <2>2. q.nodes[n] = IF Open(r, n) THEN Skipped(r.nodes[n]) ELSE r.nodes[n]
    BY DEF SkipOpenNodes, Run
  <2> QED
    BY <2>1, <2>2 DEF Skipped, NodeState
<1>2. \A s : s.status = "SKIPPED" => ~Startable(s) /\ ~Requeueable(s)
  BY DEF Startable, Requeueable
<1> QED
  BY <1>1, <1>2 DEF Spares

\* resume() re-queues or holds interrupted nodes: each needs an attempt to spare.
LEMMA RecoveredWithin ==
  ASSUME NEW r \in Run, NEW slack \in Nat, AttemptsWithin(r, slack), RequeuesWithin(r, slack, Nobody),
         NEW q, q.nodes = Recovered(r).nodes
  PROVE  AttemptsWithin(q, slack) /\ RequeuesWithin(q, slack, Nobody)
<1>1. ASSUME NEW n \in Nodes
      PROVE  /\ q.nodes[n].attempts = r.nodes[n].attempts
             /\ q.nodes[n] = r.nodes[n] \/ Requeueable(r.nodes[n])
  <2>1. r.nodes[n] \in NodeState
    BY DEF Run
  <2>2. q.nodes[n] = IF ~Interrupted(r, n) THEN r.nodes[n]
                     ELSE IF n \in Unsafe THEN [r.nodes[n] EXCEPT !.wait = "attention"]
                     ELSE [r.nodes[n] EXCEPT !.status = "READY"]
    BY DEF Recovered, Run
  <2> QED
    BY <2>1, <2>2 DEF Interrupted, Requeueable, NodeState
<1>2. \A n \in Nodes : n # Nobody
  BY NoSetContainsEverything DEF Nobody
<1> QED
  BY <1>1, <1>2 DEF AttemptsWithin, RequeuesWithin

\* Preflight does not look at what is closed: it stays as it is while an operation works, and
\* what the operation closes only helps it.
LEMMA PreflightStays ==
  ASSUME OutcomeInvariant, TypeOK, Preflight(disk)
  PROVE  Preflight(mem)
<1>1. \A n \in Nodes : Open(mem, n) => Open(disk, n)
  BY DEF OutcomeInvariant, Open
<1> QED
  BY <1>1 DEF Preflight

LEMMA PreflightAtFirst == enabled = Executors => Preflight(disk)
BY NodeAssumption DEF Preflight

LEMMA SlackIsNat ==
  ASSUME TypeOK, enabled = Executors \/ reconfigs > 0
  PROVE  Slack \in Nat
<1>1. crashes \in Nat /\ reconfigs \in Nat
  BY DEF TypeOK
<1>2. CASE Preflight(disk)
  BY <1>1, <1>2 DEF Slack
<1>3. CASE ~Preflight(disk)
  <2>1. reconfigs > 0
    BY <1>3, PreflightAtFirst
  <2> QED
    BY <1>1, <1>3, <2>1 DEF Slack
<1> QED
  BY <1>2, <1>3

\* The node whose attempt is being made, if any, is not waiting to be re-queued.
Attempting == IF pc \in {"ahead", "call"} THEN Current ELSE Nobody

LEMMA AttemptInvariantSays ==
  AttemptInvariant <=> /\ enabled = Executors \/ reconfigs > 0
                       /\ AttemptsWithin(disk, Slack) /\ AttemptsWithin(mem, Slack)
                       /\ Preflight(disk) => RequeuesWithin(mem, Slack, Attempting)
<1>1. \A n \in Nodes : n # Nobody
  BY NoSetContainsEverything DEF Nobody
<1> QED
  BY <1>1 DEF AttemptInvariant, RequeuesWithin, Attempting

LEMMA AttemptsStand ==
  ASSUME enabled' = Executors \/ reconfigs' > 0,
         AttemptsWithin(disk', Slack'), AttemptsWithin(mem', Slack'),
         Preflight(disk)' => RequeuesWithin(mem', Slack', Attempting')
  PROVE  AttemptInvariant'
<1>1. AttemptInvariant' <=> /\ (enabled = Executors \/ reconfigs > 0)'
                            /\ AttemptsWithin(disk, Slack)' /\ AttemptsWithin(mem, Slack)'
                            /\ Preflight(disk)' => RequeuesWithin(mem, Slack, Attempting)'
  BY AttemptInvariantSays, PTL
<1> QED
  BY <1>1

\* The operation goes on, or begins; the disk and the configuration stay.
LEMMA AttemptsGoOn ==
  ASSUME AttemptInvariant, disk' = disk, UNCHANGED env, AttemptsWithin(mem', Slack),
         Preflight(disk) => RequeuesWithin(mem', Slack, Attempting')
  PROVE  AttemptInvariant'
<1>1. enabled' = enabled /\ crashes' = crashes /\ reconfigs' = reconfigs
  BY DEF env
<1>2. Preflight(disk)' = Preflight(disk)
  BY <1>1 DEF Preflight, Open
<1>3. Slack' = Slack
  BY <1>1, <1>2 DEF Slack
<1>4. (enabled = Executors \/ reconfigs > 0) /\ AttemptsWithin(disk, Slack)
  BY AttemptInvariantSays
<1> QED
  BY <1>1, <1>2, <1>3, <1>4, AttemptsStand

\* A helper has edited the record, and no attempt is being made.
LEMMA AttemptsSpared ==
  ASSUME TypeOK, TypeOK', AttemptInvariant, disk' = disk, UNCHANGED env, Spares(mem, mem'),
         Attempting' = Attempting
  PROVE  AttemptInvariant'
<1>1. Slack \in Nat /\ mem \in Run /\ mem' \in Run
  BY SlackIsNat, AttemptInvariantSays DEF TypeOK
<1>2. AttemptsWithin(mem, Slack) /\ (Preflight(disk) => RequeuesWithin(mem, Slack, Attempting))
  BY AttemptInvariantSays
<1>3. /\ AttemptsWithin(mem', Slack)
      /\ \A skip : RequeuesWithin(mem, Slack, skip) => RequeuesWithin(mem', Slack, skip)
  BY <1>1, <1>2, SparesKeeps
<1>4. Preflight(disk) => RequeuesWithin(mem', Slack, Attempting')
  BY <1>2, <1>3
<1> QED
  BY <1>3, <1>4, AttemptsGoOn

\* The attempt of n is over: n itself has one to spare, or need not.
LEMMA AttemptOver ==
  ASSUME NEW r, NEW slack, NEW n, RequeuesWithin(r, slack, n),
         Requeueable(r.nodes[n]) => r.nodes[n].attempts < MaxAttempts[n] + slack
  PROVE  RequeuesWithin(r, slack, Nobody)
BY DEF RequeuesWithin

\* The disk takes over memory, or memory the disk, with more slack wherever it is needed.
LEMMA AttemptsWithMoreSlack ==
  ASSUME TypeOK, TypeOK', AttemptInvariant, enabled' = Executors \/ reconfigs' > 0,
         disk' \in {disk, mem}, mem' = disk', Slack <= Slack',
         Preflight(disk)' => Slack < Slack'
  PROVE  AttemptInvariant'
<1>1. Slack \in Nat /\ disk \in Run /\ mem \in Run
  BY SlackIsNat, AttemptInvariantSays DEF TypeOK
<1>2. Slack' \in Nat
  <2>1. TypeOK /\ (enabled = Executors \/ reconfigs > 0) => Slack \in Nat
    BY SlackIsNat
  <2>2. (TypeOK /\ (enabled = Executors \/ reconfigs > 0) => Slack \in Nat)'
    BY SlackIsNat, PTL
  <2> QED
    BY <2>2
<1>3. AttemptsWithin(disk, Slack) /\ AttemptsWithin(mem, Slack)
  BY AttemptInvariantSays
<1>4. AttemptsWithin(disk', Slack) /\ disk' \in Run
  BY <1>1, <1>3
<1>5. /\ AttemptsWithin(disk', Slack')
      /\ Slack < Slack' => \A skip : RequeuesWithin(disk', Slack', skip)
  BY <1>1, <1>2, <1>4, WithinMore
<1> QED
  BY <1>5, AttemptsStand

\* Init: nothing has been attempted.
LEMMA AttemptInit == Init => AttemptInvariant
<1> SUFFICES ASSUME Init PROVE AttemptInvariant
  OBVIOUS
<1>1. mem = disk /\ enabled = Executors
  BY DEF Init
<1>2. disk \in Run /\ \A n \in Nodes : disk.nodes[n].attempts = 0
  BY TypeInit DEF Init, NewRun, TypeOK
<1>3. Slack \in Nat
  BY <1>1, TypeInit, SlackIsNat
<1>4. ASSUME NEW n \in Nodes PROVE disk.nodes[n].attempts < MaxAttempts[n] /\ MaxAttempts[n] \in Nat
  BY <1>2, AttemptsAreCounted
<1>5. ASSUME NEW n \in Nodes
      PROVE  /\ disk.nodes[n].attempts < MaxAttempts[n] + Slack
             /\ disk.nodes[n].attempts <= MaxAttempts[n] + Slack
  <2>1. disk.nodes[n].attempts \in Nat
    BY <1>2, AttemptsAreCounted
  <2> QED
    BY <1>3, <1>4, <2>1
<1>6. AttemptsWithin(disk, Slack) /\ RequeuesWithin(disk, Slack, Attempting)
  BY <1>5 DEF AttemptsWithin, RequeuesWithin
<1> QED
  BY <1>1, <1>6, AttemptInvariantSays

\* The operator's requests.
LEMMA AttemptRequest ==
  TypeOK /\ TypeOK' /\ RunInvariant /\ AttemptInvariant /\ Request => AttemptInvariant'
<1> SUFFICES ASSUME TypeOK, TypeOK', RunInvariant, AttemptInvariant, Request PROVE AttemptInvariant'
  OBVIOUS
<1>t. disk \in Run /\ Coherent(disk) /\ mem' \in Run /\ Slack \in Nat
  BY SlackIsNat, AttemptInvariantSays DEF TypeOK, RunInvariant
<1>a. ASSUME pc = "idle", disk' = disk, UNCHANGED env, pc' \notin {"ahead", "call"}, Spares(disk, mem')
      PROVE  AttemptInvariant'
  <2>1. mem = disk /\ Attempting' = Attempting
    BY <1>a DEF RunInvariant, Attempting
  <2> QED
    BY <1>a, <2>1, AttemptsSpared
<1>b. ASSUME pc = "idle", disk' = disk, UNCHANGED env, pc' \notin {"ahead", "call"}, AttemptsWithin(mem', Slack),
             Preflight(disk) => RequeuesWithin(mem', Slack, Nobody)
      PROVE  AttemptInvariant'
  <2>1. Attempting' = Nobody
    BY <1>b DEF Attempting
  <2> QED
    BY <1>b, <2>1, AttemptsGoOn
<1>c. pc = "idle" => /\ AttemptsWithin(disk, Slack)
                     /\ Preflight(disk) => RequeuesWithin(disk, Slack, Nobody)
  BY AttemptInvariantSays DEF RunInvariant, Attempting
<1>1. ASSUME NEW decision \in {"APPROVED", "DENIED"}, DecidePlan(decision) PROVE AttemptInvariant'
  <2>1. pc = "idle" /\ disk' = disk /\ UNCHANGED env /\ pc' = "save"
    BY <1>1 DEF DecidePlan, Requested
  <2>2. mem'.nodes = disk.nodes \/ mem'.nodes = SkipOpenNodes(disk).nodes
    <3>1. \/ mem' = [disk EXCEPT !.status = "APPROVED", !.plan = decision]
          \/ mem' = [SkipOpenNodes(disk) EXCEPT !.status = "CANCELLED", !.plan = decision]
      BY <1>1 DEF DecidePlan
    <3> QED
      BY <1>t, <3>1 DEF Run, SkipOpenNodes
  <2>3. Spares(disk, mem')
    BY <1>t, <2>2, SameNodesSpare, SkippedSpares
  <2> QED
    BY <1>a, <2>1, <2>3
<1>2. ASSUME NEW decision \in {"APPROVED", "DENIED"}, NEW g \in Gates, DecideGate(g, decision)
      PROVE  AttemptInvariant'
  <2>1. /\ pc = "idle" /\ disk' = disk /\ UNCHANGED env /\ pc' \in {"refresh", "resettle"}
        /\ AwaitsDecision(disk, g) /\ mem' = GateDecided(disk, g, decision)
    BY <1>2 DEF DecideGate, Requested, BeginAdvance, BeginSettle
  <2>2. Spares(disk, mem')
    BY <1>t, <2>1, GateDecidedSpares
  <2> QED
    BY <1>a, <2>1, <2>2
<1>3. CASE Execute
  <2>1. pc = "idle" /\ disk' = disk /\ UNCHANGED env /\ pc' = "refresh" /\ mem' = [disk EXCEPT !.status = "RUNNING"]
    BY <1>3 DEF Execute, Requested, BeginAdvance
  <2>2. Spares(disk, mem')
    <3>1. mem'.nodes = disk.nodes
      BY <1>t, <2>1 DEF Run
    <3> QED
      BY <3>1, SameNodesSpare
  <2> QED
    BY <1>a, <2>1, <2>2
<1>4. ASSUME NEW n \in Nodes, NEW result \in Results, Submit(n, result) PROVE AttemptInvariant'
  <2>1. PICK r : r = [disk EXCEPT !.nodes[n].wait = "none"]
    OBVIOUS
  <2>2. /\ pc = "idle" /\ disk' = disk /\ UNCHANGED env /\ pc' = "refresh" /\ mem' = CompleteAttempt(r, n, result)
        /\ disk.nodes[n].status = "RUNNING"
    BY <1>4, <2>1 DEF Submit, Requested, AwaitsSubmission, BeginAdvance
  <2>3. r \in Run /\ r.nodes[n].status = "RUNNING"
    BY <1>t, <2>1, <2>2, WaitAdvances DEF Waits
  <2>4. /\ r.nodes[n].attempts = disk.nodes[n].attempts
        /\ \A m \in Nodes \ {n} : r.nodes[m] = disk.nodes[m]
    BY <1>t, <2>1 DEF Run, NodeState
  <2>5. ~Startable(r.nodes[n])
    BY <2>3 DEF Startable
  <2>6. AttemptsWithin(r, Slack) /\ (Preflight(disk) => RequeuesWithin(r, Slack, n))
    <3>1. AttemptsWithin(disk, Slack) /\ (Preflight(disk) => RequeuesWithin(disk, Slack, Nobody))
      BY <1>c, <2>2
    <3>2. AttemptsWithin(r, Slack)
      BY <2>4, <2>5, <3>1 DEF AttemptsWithin
    <3>3. \A m \in Nodes : m # Nobody
      BY NoSetContainsEverything DEF Nobody
    <3>4. Preflight(disk) => RequeuesWithin(r, Slack, n)
      BY <2>4, <3>1, <3>3 DEF RequeuesWithin
    <3> QED
      BY <3>2, <3>4
  <2>7. /\ Spares(r, mem')
        /\ mem'.nodes[n].attempts < MaxAttempts[n] \/ ~Requeueable(mem'.nodes[n])
    BY <2>2, <2>3, CompleteAttemptSpares
  <2>8. AttemptsWithin(mem', Slack) /\ (Preflight(disk) => RequeuesWithin(mem', Slack, n))
    BY <1>t, <2>3, <2>6, <2>7, SparesKeeps
  <2>9. Requeueable(mem'.nodes[n]) => mem'.nodes[n].attempts < MaxAttempts[n] + Slack
    BY <1>t, <2>7, AttemptsAreCounted
  <2>10. Preflight(disk) => RequeuesWithin(mem', Slack, Nobody)
    BY <2>8, <2>9, AttemptOver
  <2> QED
    BY <1>b, <2>2, <2>8, <2>10
<1>5. CASE Resume
  <2>1. PICK r : r = Recovered(disk)
    OBVIOUS
  <2>2. /\ pc = "idle" /\ disk' = disk /\ UNCHANGED env
        /\ \/ disk.status = "DRAFT" /\ mem' = r /\ pc' = "save"
           \/ Preflight(disk) /\ mem' = [r EXCEPT !.status = "RUNNING"] /\ pc' = "refresh"
    BY <1>5, <2>1 DEF Resume, Requested, BeginAdvance
  <2>3. r \in Run
    BY <1>t, <2>1, RecoveredType
  <2>4. CASE disk.status = "DRAFT" /\ mem' = r /\ pc' = "save"
    <3>1. \A n \in Nodes : ~Interrupted(disk, n)
      BY <1>t, <2>4 DEF Coherent, Begun, Interrupted, PlanCleared
    <3>2. r.nodes = disk.nodes
      BY <1>t, <2>1, <3>1 DEF Recovered, Run
    <3>3. Spares(disk, mem')
      BY <2>4, <3>2, SameNodesSpare
    <3> QED
      BY <1>a, <2>2, <2>4, <3>3
  <2>5. CASE Preflight(disk) /\ mem' = [r EXCEPT !.status = "RUNNING"] /\ pc' = "refresh"
    <3>1. mem'.nodes = Recovered(disk).nodes
      BY <2>1, <2>3, <2>5 DEF Run
    <3>2. AttemptsWithin(mem', Slack) /\ RequeuesWithin(mem', Slack, Nobody)
      BY <1>t, <1>c, <2>2, <2>5, <3>1, RecoveredWithin
    <3> QED
      BY <1>b, <2>2, <2>5, <3>2
  <2> QED
    BY <2>2, <2>4, <2>5
<1>6. ASSUME NEW n \in Nodes, RetryNode(n) PROVE AttemptInvariant'
  <2>1. /\ pc = "idle" /\ disk' = disk /\ UNCHANGED env /\ pc' = "refresh" /\ disk.nodes[n].wait = "attention"
        /\ mem' = [disk EXCEPT !.status = "RUNNING", !.nodes[n].wait = "none", !.nodes[n].status = "READY"]
        /\ Preflight(disk)
    BY <1>6 DEF RetryNode, Requested, BeginAdvance
  <2>2. disk.nodes[n].status = "RUNNING" /\ disk.nodes[n] \in NodeState
    BY <1>t, <2>1 DEF Coherent, Run
  <2>3. /\ \A m \in Nodes \ {n} : mem'.nodes[m] = disk.nodes[m]
        /\ mem'.nodes[n].status = "READY" /\ mem'.nodes[n].attempts = disk.nodes[n].attempts
    BY <1>t, <2>1, <2>2 DEF Run, NodeState
  <2>4. Requeueable(disk.nodes[n]) /\ ~Requeueable(mem'.nodes[n])
    BY <2>1, <2>2, <2>3 DEF Requeueable
  <2>5. n # Nobody
    BY NoSetContainsEverything DEF Nobody
  <2>6. disk.nodes[n].attempts < MaxAttempts[n] + Slack
    BY <1>c, <2>1, <2>4, <2>5 DEF RequeuesWithin
  <2>7. AttemptsWithin(mem', Slack) /\ RequeuesWithin(mem', Slack, Nobody)
    <3>1. AttemptsWithin(disk, Slack) /\ RequeuesWithin(disk, Slack, Nobody)
      BY <1>c, <2>1
    <3> QED
      BY <2>3, <2>4, <2>6, <3>1 DEF AttemptsWithin, RequeuesWithin
  <2> QED
    BY <1>b, <2>1, <2>7
<1>7. CASE Cancel
  <2>1. pc = "idle" /\ disk' = disk /\ UNCHANGED env /\ pc' = "save"
        /\ mem' = [SkipOpenNodes(disk) EXCEPT !.status = "CANCELLED", !.holds = {}]
    BY <1>7 DEF Cancel, Requested
  <2>2. mem'.nodes = SkipOpenNodes(disk).nodes
    BY <1>t, <2>1 DEF Run, SkipOpenNodes
  <2>3. Spares(disk, mem')
    BY <1>t, <2>2, SkippedSpares
  <2> QED
    BY <1>a, <2>1, <2>3
<1>8. CASE Verify
  <2>1. pc = "idle" /\ disk' = disk /\ UNCHANGED env /\ pc' = "attest" /\ mem' = [disk EXCEPT !.verification = receipt']
    BY <1>8 DEF Verify, Requested
  <2>2. Spares(disk, mem')
    <3>1. mem'.nodes = disk.nodes
      BY <1>t, <2>1 DEF Run
    <3> QED
      BY <3>1, SameNodesSpare
  <2> QED
    BY <1>a, <2>1, <2>2
<1> QED
  BY <1>1, <1>2, <1>3, <1>4, <1>5, <1>6, <1>7, <1>8 DEF Request

\* The steps taken at a node.
LEMMA AttemptVisit ==
  TypeOK /\ TypeOK' /\ RunInvariant /\ OutcomeInvariant /\ AttemptInvariant /\ VisitNode => AttemptInvariant'
<1> DEFINE n == Current
<1> SUFFICES ASSUME TypeOK, TypeOK', RunInvariant, OutcomeInvariant, AttemptInvariant, VisitNode PROVE AttemptInvariant'
  OBVIOUS
<1>t. n \in Nodes /\ disk \in Run /\ mem \in Run /\ mem' \in Run /\ Slack \in Nat
  <2>1. n \in Nodes
    BY CurrentIsNode DEF VisitNode, TypeOK, HoldForApproval, RefuseNode, ExecutorMissing,
       StartNode, DeferNode, RunBuiltin, AtNode, Visiting, Current
  <2> QED
    BY <2>1, SlackIsNat, AttemptInvariantSays DEF TypeOK
<1>a. AttemptsWithin(mem, Slack) /\ (Preflight(disk) => RequeuesWithin(mem, Slack, Attempting))
  BY AttemptInvariantSays
<1>1. CASE HoldForApproval(n)
  <2>1. /\ pc = "visit" /\ pc' = pc /\ disk' = disk /\ UNCHANGED env
        /\ mem' = [mem EXCEPT !.nodes[n].wait = "approval"]
    BY <1>1 DEF HoldForApproval, AtNode, Visiting
  <2>2. /\ \A m \in Nodes \ {n} : mem'.nodes[m] = mem.nodes[m]
        /\ mem'.nodes[n].attempts = mem.nodes[n].attempts
        /\ mem'.nodes[n].status = mem.nodes[n].status /\ mem'.nodes[n].wait = "approval"
    BY <1>t, <2>1 DEF Run, NodeState
  <2>3. (Startable(mem'.nodes[n]) => Startable(mem.nodes[n])) /\ ~Requeueable(mem'.nodes[n])
    BY <2>2 DEF Startable, Requeueable
  <2>4. Spares(mem, mem')
    BY <1>t, <2>2, <2>3, NodeEditSpares
  <2>5. Attempting' = Attempting
    BY <2>1 DEF Attempting
  <2> QED
    BY <2>1, <2>4, <2>5, AttemptsSpared
<1>2. CASE RefuseNode(n)
  <2>1. PICK r : r = [mem EXCEPT !.nodes[n].wait = "none"]
    OBVIOUS
  <2>2. /\ pc = "visit" /\ pc' = pc /\ disk' = disk /\ UNCHANGED env /\ mem' = FailNode(r, n)
        /\ mem.nodes[n].status = "READY"
    BY <1>2, <2>1 DEF RefuseNode, AtNode, Visiting, Visitable
  <2>3. r \in Run
    BY <1>t, <2>1, WaitAdvances DEF Waits
  <2>4. /\ \A m \in Nodes \ {n} : r.nodes[m] = mem.nodes[m]
        /\ r.nodes[n].attempts = mem.nodes[n].attempts /\ r.nodes[n].status = "READY"
    BY <1>t, <2>1, <2>2 DEF Run, NodeState
  <2>5. Startable(mem.nodes[n]) /\ ~Requeueable(r.nodes[n])
    BY <2>2, <2>4 DEF Startable, Requeueable
  <2>6. Spares(mem, r)
    BY <1>t, <2>4, <2>5, NodeEditSpares
  <2>7. Spares(r, mem')
    BY <1>t, <2>2, <2>3, FailNodeSpares
  <2>8. Spares(mem, mem')
    <3> SUFFICES ASSUME NEW m \in Nodes
                 PROVE  /\ mem'.nodes[m].attempts = mem.nodes[m].attempts
                        /\ \/ mem'.nodes[m].attempts < MaxAttempts[m]
                           \/ /\ Startable(mem'.nodes[m]) => Startable(mem.nodes[m])
                              /\ Requeueable(mem'.nodes[m]) => Requeueable(mem.nodes[m])
      BY DEF Spares
    <3> QED
      BY <2>6, <2>7 DEF Spares
  <2>9. Attempting' = Attempting
    BY <2>2 DEF Attempting
  <2> QED
    BY <2>2, <2>8, <2>9, AttemptsSpared
<1>3. CASE ExecutorMissing(n)
  <2>1. /\ disk' = disk /\ mem' = disk /\ pc' = "idle" /\ UNCHANGED env
        /\ Executor[n] \notin enabled /\ mem.nodes[n].status = "READY"
    BY <1>3 DEF ExecutorMissing, Release, AtNode, Visitable
  <2>2. Open(mem, n)
    BY <2>1 DEF Open, NodeTerminal
  <2>3. Open(disk, n)
    BY <1>t, <2>2 DEF OutcomeInvariant, Open
  <2>4. ~Preflight(disk)
    BY <1>t, <2>1, <2>3 DEF Preflight
  <2>5. AttemptsWithin(disk, Slack)
    BY AttemptInvariantSays
  <2>6. AttemptsWithin(mem', Slack)
    BY <2>1, <2>5
  <2> QED
    BY <2>1, <2>4, <2>6, AttemptsGoOn
<1>4. CASE StartNode(n)
  <2>1. /\ pc = "visit" /\ pc' = "ahead" /\ disk' = disk /\ UNCHANGED env /\ cursor' = cursor
        /\ mem' = Started(mem, n) /\ mem.nodes[n].status = "READY"
    BY <1>4 DEF StartNode, AtNode, Visiting, Visitable
  <2>2. /\ mem'.nodes[n].attempts = mem.nodes[n].attempts + 1 /\ mem'.nodes[n].status = "RUNNING"
        /\ \A m \in Nodes \ {n} : mem'.nodes[m] = mem.nodes[m]
    BY <1>t, <2>1 DEF Started, Run, NodeState
  <2>3. Attempting' = n /\ Attempting = Nobody
    BY <2>1 DEF Attempting, Current
  <2> HIDE DEF n
  <2>4. Startable(mem.nodes[n]) /\ ~Startable(mem'.nodes[n])
    BY <2>1, <2>2 DEF Startable
  <2>5. mem'.nodes[n].attempts <= MaxAttempts[n] + Slack
    <3>1. mem.nodes[n].attempts < MaxAttempts[n] + Slack
      BY <1>t, <1>a, <2>4 DEF AttemptsWithin
    <3>2. mem.nodes[n].attempts \in Nat /\ MaxAttempts[n] \in Nat
      BY <1>t, AttemptsAreCounted
    <3> QED
      BY <1>t, <2>2, <3>1, <3>2
  <2>6. AttemptsWithin(mem', Slack)
    BY <1>a, <2>2, <2>4, <2>5 DEF AttemptsWithin
  <2>7. Preflight(disk) => RequeuesWithin(mem', Slack, n)
    <3>1. \A m \in Nodes : m # Nobody
      BY NoSetContainsEverything DEF Nobody
    <3> QED
      BY <1>a, <2>2, <2>3, <3>1 DEF RequeuesWithin
  <2> QED
    BY <2>1, <2>3, <2>6, <2>7, AttemptsGoOn
<1>5. CASE DeferNode(n)
  <2>1. /\ pc = "call" /\ pc' = "visit" /\ disk' = disk /\ UNCHANGED env
        /\ mem' = [mem EXCEPT !.nodes[n].wait = "submission"]
    BY <1>5 DEF DeferNode, Invoke
  <2>2. /\ \A m \in Nodes \ {n} : mem'.nodes[m] = mem.nodes[m]
        /\ mem'.nodes[n].attempts = mem.nodes[n].attempts
        /\ mem'.nodes[n].status = mem.nodes[n].status /\ mem'.nodes[n].wait = "submission"
    BY <1>t, <2>1 DEF Run, NodeState
  <2>3. (Startable(mem'.nodes[n]) => Startable(mem.nodes[n])) /\ ~Requeueable(mem'.nodes[n])
    BY <2>2 DEF Startable, Requeueable
  <2>4. Spares(mem, mem')
    BY <1>t, <2>2, <2>3, NodeEditSpares
  <2>5. Attempting = n /\ Attempting' = Nobody
    BY <2>1 DEF Attempting
  <2>6. AttemptsWithin(mem', Slack) /\ (Preflight(disk) => RequeuesWithin(mem', Slack, n))
    BY <1>t, <1>a, <2>4, <2>5, SparesKeeps
  <2>7. Preflight(disk) => RequeuesWithin(mem', Slack, Nobody)
    BY <2>3, <2>6, AttemptOver
  <2> QED
    BY <2>1, <2>5, <2>6, <2>7, AttemptsGoOn
<1>6. ASSUME NEW result \in Results, RunBuiltin(n, result) PROVE AttemptInvariant'
  <2>1. pc = "call" /\ pc' = "visit" /\ disk' = disk /\ UNCHANGED env /\ mem' = CompleteAttempt(mem, n, result)
    BY <1>6 DEF RunBuiltin, Invoke
  <2>2. mem.nodes[n].status = "RUNNING"
    BY <2>1 DEF RunInvariant
  <2>3. /\ Spares(mem, mem')
        /\ mem'.nodes[n].attempts < MaxAttempts[n] \/ ~Requeueable(mem'.nodes[n])
    BY <1>t, <2>1, <2>2, CompleteAttemptSpares
  <2>4. Attempting = n /\ Attempting' = Nobody
    BY <2>1 DEF Attempting
  <2> HIDE DEF n
  <2>5. AttemptsWithin(mem', Slack) /\ (Preflight(disk) => RequeuesWithin(mem', Slack, n))
    BY <1>t, <1>a, <2>3, <2>4, SparesKeeps
  <2>6. Requeueable(mem'.nodes[n]) => mem'.nodes[n].attempts < MaxAttempts[n] + Slack
    BY <1>t, <2>3, AttemptsAreCounted
  <2>7. Preflight(disk) => RequeuesWithin(mem', Slack, Nobody)
    BY <2>5, <2>6, AttemptOver
  <2> QED
    BY <2>1, <2>4, <2>5, <2>7, AttemptsGoOn
<1> QED
  BY <1>1, <1>2, <1>3, <1>4, <1>5, <1>6 DEF VisitNode, n

\* The disk takes over memory: Preflight can only come to hold, which is slack gained.
LEMMA AttemptsSaved ==
  ASSUME TypeOK, TypeOK', OutcomeInvariant, AttemptInvariant, disk' = mem, mem' = mem, UNCHANGED env,
         Attempting' = Attempting
  PROVE  AttemptInvariant'
<1>1. enabled' = enabled /\ crashes' = crashes /\ reconfigs' = reconfigs
  BY DEF env
<1>2. Preflight(disk)' <=> Preflight(mem)
  BY <1>1 DEF Preflight, Open
<1>3. Slack = crashes + reconfigs - (IF Preflight(disk) THEN 0 ELSE 1) /\ crashes \in Nat /\ reconfigs \in Nat
  BY DEF Slack, TypeOK
<1>4. Slack' = crashes + reconfigs - (IF Preflight(mem) THEN 0 ELSE 1)
  BY <1>1, <1>2 DEF Slack
<1>5. enabled' = Executors \/ reconfigs' > 0
  BY <1>1, AttemptInvariantSays
<1>6. CASE Preflight(disk)
  <2>1. Preflight(mem)
    BY <1>6, PreflightStays
  <2>2. Slack' = Slack
    BY <1>3, <1>4, <1>6, <2>1
  <2>3. AttemptsWithin(mem, Slack) /\ RequeuesWithin(mem, Slack, Attempting)
    BY <1>6, AttemptInvariantSays
  <2>4. AttemptsWithin(disk', Slack') /\ AttemptsWithin(mem', Slack') /\ RequeuesWithin(mem', Slack', Attempting')
    BY <2>2, <2>3
  <2> QED
    BY <1>5, <2>4, AttemptsStand
<1>7. CASE ~Preflight(disk)
  <2>1. Slack <= Slack' /\ (Preflight(disk)' => Slack < Slack')
    BY <1>2, <1>3, <1>4, <1>7
  <2> QED
    BY <1>5, <2>1, AttemptsWithMoreSlack
<1> QED
  BY <1>6, <1>7

\* The engine's other steps.
LEMMA AttemptStep ==
  TypeOK /\ TypeOK' /\ RunInvariant /\ OutcomeInvariant /\ AttemptInvariant /\ Step => AttemptInvariant'
<1> SUFFICES ASSUME TypeOK, TypeOK', RunInvariant, OutcomeInvariant, AttemptInvariant, Step PROVE AttemptInvariant'
  OBVIOUS
<1>t. mem \in Run
  BY DEF TypeOK
<1>1. CASE RefreshNode
  <2>1. /\ pc' = pc /\ pc \in {"refresh", "resettle"} /\ disk' = disk /\ UNCHANGED env /\ cursor \in 1..N /\ N \in Nat
        /\ mem' = [mem EXCEPT !.nodes[Order[cursor]] = Refreshed(mem, Order[cursor])]
    BY <1>1, CurrentIsNode DEF RefreshNode, TypeOK, Current
  <2>2. Order[cursor] \in Nodes /\ RefreshedAt(mem, mem', Order[cursor])
    BY <2>1, CurrentIsNode DEF RefreshedAt
  <2>3. Spares(mem, mem')
    BY <1>t, <2>2, RefreshedSpares
  <2>4. Attempting' = Attempting
    BY <2>1 DEF Attempting
  <2> QED
    BY <2>1, <2>3, <2>4, AttemptsSpared
<1>2. CASE BeginPass \/ PassOver \/ StopOnBudget \/ EndPass \/ Attest
  <2>1. pc \notin {"ahead", "call"} /\ pc' \notin {"ahead", "call"} /\ disk' = disk /\ mem' = mem /\ UNCHANGED env
    BY <1>2 DEF BeginPass, PassOver, StopOnBudget, EndPass, Attest, Visiting
  <2>2. Spares(mem, mem')
    BY <2>1, SameNodesSpare
  <2>3. Attempting' = Attempting
    BY <2>1 DEF Attempting
  <2> QED
    BY <2>1, <2>2, <2>3, AttemptsSpared
<1>3. CASE VisitNode
  BY <1>3, AttemptVisit
<1>4. CASE WriteAhead
  <2>1. pc = "ahead" /\ pc' = "call" /\ disk' = mem /\ mem' = mem /\ UNCHANGED env /\ cursor' = cursor
    BY <1>4 DEF WriteAhead, loop
  <2>2. Attempting' = Attempting
    BY <2>1 DEF Attempting, Current
  <2> QED
    BY <2>1, <2>2, AttemptsSaved
<1>5. CASE Settle
  <2>1. pc = "resettle" /\ pc' = "save" /\ disk' = disk /\ UNCHANGED env /\ mem' = Settled(mem, exhausted)
    BY <1>5 DEF Settle
  <2>2. mem'.nodes = mem.nodes
    BY <1>t, <2>1 DEF Settled, Run
  <2>3. Spares(mem, mem') /\ Attempting' = Attempting
    BY <2>1, <2>2, SameNodesSpare DEF Attempting
  <2> QED
    BY <2>1, <2>3, AttemptsSpared
<1>6. CASE Save
  <2>1. pc = "save" /\ pc' = "idle" /\ disk' = mem /\ mem' = mem /\ UNCHANGED env
    BY <1>6 DEF Save, Release
  <2>2. Attempting' = Attempting
    BY <2>1 DEF Attempting
  <2> QED
    BY <2>1, <2>2, AttemptsSaved
<1>7. CASE RecordCreation
  <2>1. pc = "create" /\ pc' = "idle" /\ disk' = disk /\ mem' = mem /\ UNCHANGED env
    BY <1>7 DEF RecordCreation, Release, RunInvariant
  <2>2. Spares(mem, mem') /\ Attempting' = Attempting
    BY <2>1, SameNodesSpare DEF Attempting
  <2> QED
    BY <2>1, <2>2, AttemptsSpared
<1> QED
  BY <1>1, <1>2, <1>3, <1>4, <1>5, <1>6, <1>7 DEF Step

\* Crashes and changes of the configuration, which bring slack.
LEMMA AttemptCrash ==
  TypeOK /\ TypeOK' /\ AttemptInvariant /\ Crash => AttemptInvariant'
<1> SUFFICES ASSUME TypeOK, TypeOK', AttemptInvariant, Crash PROVE AttemptInvariant'
  OBVIOUS
<1>1. /\ crashes' = crashes + 1 /\ disk' = disk /\ mem' = disk'
      /\ enabled' = enabled /\ reconfigs' = reconfigs
  BY DEF Crash, Release
<1>2. Preflight(disk)' <=> Preflight(disk)
  BY <1>1 DEF Preflight, Open
<1>3. Slack = crashes + reconfigs - (IF Preflight(disk) THEN 0 ELSE 1) /\ crashes \in Nat /\ reconfigs \in Nat
  BY DEF Slack, TypeOK
<1>4. Slack' = crashes + 1 + reconfigs - (IF Preflight(disk) THEN 0 ELSE 1)
  BY <1>1, <1>2 DEF Slack
<1>5. Slack < Slack' /\ Slack <= Slack'
  BY <1>3, <1>4
<1>6. enabled' = Executors \/ reconfigs' > 0
  BY <1>1, AttemptInvariantSays
<1> QED
  BY <1>1, <1>5, <1>6, AttemptsWithMoreSlack

LEMMA AttemptReconfigure ==
  TypeOK /\ TypeOK' /\ RunInvariant /\ AttemptInvariant /\ Reconfigure => AttemptInvariant'
<1> SUFFICES ASSUME TypeOK, TypeOK', RunInvariant, AttemptInvariant, Reconfigure PROVE AttemptInvariant'
  OBVIOUS
<1>1. /\ reconfigs' = reconfigs + 1 /\ crashes' = crashes /\ disk' = disk /\ mem' = mem /\ mem = disk
  BY DEF Reconfigure, RunInvariant
<1>2. Slack = crashes + reconfigs - (IF Preflight(disk) THEN 0 ELSE 1) /\ crashes \in Nat /\ reconfigs \in Nat
  BY DEF Slack, TypeOK
<1>3. Slack' = crashes + (reconfigs + 1) - (IF Preflight(disk)' THEN 0 ELSE 1)
  BY <1>1 DEF Slack
<1>4. Slack <= Slack' /\ (Preflight(disk)' => Slack < Slack')
  <2>1. CASE Preflight(disk)'
    BY <1>2, <1>3, <2>1
  <2>2. CASE ~Preflight(disk)'
    BY <1>2, <1>3, <2>2
  <2> QED
    BY <2>1, <2>2
<1>5. reconfigs' > 0
  BY <1>1, <1>2
<1> QED
  BY <1>1, <1>4, <1>5, AttemptsWithMoreSlack

LEMMA AttemptNext ==
  TypeOK /\ TypeOK' /\ RunInvariant /\ OutcomeInvariant /\ AttemptInvariant /\ [Next]_vars => AttemptInvariant'
<1> SUFFICES ASSUME TypeOK, TypeOK', RunInvariant, OutcomeInvariant, AttemptInvariant, [Next]_vars
             PROVE  AttemptInvariant'
  OBVIOUS
<1>1. CASE UNCHANGED vars
  <2>1. disk' = disk /\ mem' = mem /\ pc' = pc /\ cursor' = cursor /\ UNCHANGED env
    BY <1>1 DEF vars, loop
  <2>2. Spares(mem, mem') /\ Attempting' = Attempting
    BY <2>1, SameNodesSpare DEF Attempting, Current
  <2> QED
    BY <2>1, <2>2, AttemptsSpared
<1> QED
  BY <1>1, AttemptRequest, AttemptStep, AttemptCrash, AttemptReconfigure DEF Next

\* The inductive invariant of attempts: within max_attempts, but for those that crashes and
\* changes of the configuration cut short.
THEOREM AttemptsHold == Spec => []AttemptInvariant
BY TypeCorrect, InvariantHolds, OutcomeHolds, AttemptInit, AttemptNext, PTL DEF Spec

\* No node is attempted beyond max_attempts but for a crash or a disabled executor: what
\* resume re-queues and retry_node orders again is never more than was cut short.
THEOREM AttemptsAreAccountedFor == Spec => []AttemptsAccounted
<1>1. TypeOK /\ AttemptInvariant => AttemptsAccounted
  <2> SUFFICES ASSUME TypeOK, AttemptInvariant, NEW n \in Nodes
               PROVE  disk.nodes[n].attempts <= MaxAttempts[n] + crashes + reconfigs
    BY DEF AttemptsAccounted
  <2>1. disk.nodes[n].attempts \in Nat /\ MaxAttempts[n] \in Nat /\ crashes \in Nat /\ reconfigs \in Nat
    BY AttemptsAreCounted DEF TypeOK
  <2>2. disk.nodes[n].attempts <= MaxAttempts[n] + Slack
    BY AttemptInvariantSays DEF AttemptsWithin
  <2>3. Slack \in Nat /\ Slack <= crashes + reconfigs
    BY <2>1, SlackIsNat, AttemptInvariantSays DEF Slack
  <2> QED
    BY <2>1, <2>2, <2>3
<1> QED
  BY <1>1, TypeCorrect, AttemptsHold, PTL

-----------------------------------------------------------------------------
(* The number of steps of an operation is bounded.                         *)

\* A graph has no more nodes than its order has places, and a run no more open ones.
LEMMA OpenNodesCounted ==
  ASSUME NEW r
  PROVE  /\ IsFiniteSet(OpenNodes(r)) /\ Cardinality(OpenNodes(r)) \in Nat
         /\ Cardinality(OpenNodes(r)) <= N
<1>1. N \in Nat /\ \A i \in 1..N : Order[i] \in Nodes
  BY CurrentIsNode
<1>2. \A n \in Nodes : \E i \in 1..N : Order[i] = n
  <2>1. DOMAIN Order = 1..N
    BY OrderAssumption DEF N
  <2> QED
    BY <2>1, OrderAssumption
<1>3. [i \in 1..N |-> Order[i]] \in Surjection(1..N, Nodes)
  BY <1>1, <1>2 DEF Surjection
<1>4. IsFiniteSet(1..N) /\ Cardinality(1..N) = N
  BY <1>1, FS_Interval
<1>5. IsFiniteSet(Nodes) /\ Cardinality(Nodes) <= N
  BY <1>3, <1>4, FS_Surjection
<1>6. OpenNodes(r) \subseteq Nodes
  BY DEF OpenNodes
<1>7. Cardinality(OpenNodes(r)) \in Nat /\ Cardinality(Nodes) \in Nat
  BY <1>5, <1>6, FS_Subset, FS_CardinalityType
<1> QED
  BY <1>1, <1>5, <1>6, <1>7, FS_Subset

\* A node that has ended stays so: there are never more open nodes than there were.
LEMMA NoMoreOpen ==
  ASSUME NEW r, NEW q, Advances(r, q)
  PROVE  OpenNodes(q) \subseteq OpenNodes(r) /\ Cardinality(OpenNodes(q)) <= Cardinality(OpenNodes(r))
<1>1. ASSUME NEW n \in Nodes, Open(q, n) PROVE Open(r, n)
  BY <1>1 DEF Advances, StatusStep, Open, NodeTerminal
<1>2. OpenNodes(q) \subseteq OpenNodes(r)
  BY <1>1 DEF OpenNodes
<1> QED
  BY <1>2, OpenNodesCounted, FS_Subset

\* There is one fewer when an open node ends.
LEMMA OneFewerOpen ==
  ASSUME NEW r, NEW q, Advances(r, q), NEW n \in Nodes, Open(r, n), ~Open(q, n)
  PROVE  Cardinality(OpenNodes(q)) + 1 <= Cardinality(OpenNodes(r))
<1>1. OpenNodes(q) \subseteq OpenNodes(r) /\ Cardinality(OpenNodes(q)) <= Cardinality(OpenNodes(r))
  BY NoMoreOpen
<1>2. n \in OpenNodes(r) /\ n \notin OpenNodes(q)
  BY DEF OpenNodes
<1>3. Cardinality(OpenNodes(r)) # Cardinality(OpenNodes(q))
  BY <1>1, <1>2, OpenNodesCounted, FS_Subset
<1> QED
  BY <1>1, <1>3, OpenNodesCounted

\* The same nodes are open when only other fields change.
LEMMA SameOpen ==
  ASSUME NEW r, NEW q, \A n \in Nodes : q.nodes[n].status = r.nodes[n].status
  PROVE  OpenNodes(q) = OpenNodes(r)
BY DEF OpenNodes, Open

\* What a number of passes is charged.
LEMMA Charged ==
  ASSUME NEW c \in Nat, NEW x \in Nat, NEW y \in Nat
  PROVE  /\ c * x \in Nat
         /\ x <= y => c * x <= c * y
         /\ x + 1 <= y => c * x + c <= c * y
<1>1. ASSUME x <= y PROVE c * x <= c * y
  <2>1. y - x \in Nat /\ y = x + (y - x)
    BY <1>1
  <2>2. PICK d \in Nat : y = x + d
    BY <2>1
  <2>3. c * y = c * x + c * d /\ c * d \in Nat
    BY <2>2
  <2> QED
    BY <2>3
<1>2. ASSUME x + 1 <= y PROVE c * x + c <= c * y
  <2>1. y - x - 1 \in Nat /\ y = x + 1 + (y - x - 1)
    BY <1>2
  <2>2. PICK d \in Nat : y = x + 1 + d
    BY <2>1
  <2>3. c * y = c * x + c + c * d /\ c * d \in Nat
    BY <2>2
  <2> QED
    BY <2>3
<1> QED
  BY <1>1, <1>2

\* A pass costs less than what it is charged.
LEMMA FewerSteps ==
  ASSUME NEW n \in Nat, NEW s \in Nat, NEW t \in Nat, NEW p \in Nat, NEW q \in Nat,
         (q <= p /\ t < s) \/ (q + 1 <= p /\ t < s + (4 * n + 2))
  PROVE  n + 2 + t + (4 * n + 2) * q < n + 2 + s + (4 * n + 2) * p
<1> DEFINE c == 4 * n + 2
<1>1. c \in Nat
  OBVIOUS
<1> HIDE DEF c
<1>2. CASE q <= p /\ t < s
  <2>1. c * q <= c * p /\ c * q \in Nat /\ c * p \in Nat
    BY <1>1, <1>2, Charged
  <2> QED
    BY <1>2, <2>1 DEF c
<1>3. CASE q + 1 <= p /\ t < s + c
  <2>1. c * q + c <= c * p /\ c * q \in Nat /\ c * p \in Nat
    BY <1>1, <1>3, Charged
  <2> QED
    BY <1>1, <1>3, <2>1 DEF c
<1> QED
  BY <1>2, <1>3 DEF c

\* In the middle of _advance the measure is the steps left of the pass, and those of the
\* passes that may follow.
AtWork == pc \in {"refresh", "visit", "ahead", "call"}

LEMMA StepsAtWork ==
  TypeOK /\ AtWork => /\ N \in Nat /\ StepsInPass \in Nat \ {0} /\ Passes \in Nat
                      /\ StepsToEnd = N + 2 + StepsInPass + (4 * N + 2) * Passes
<1> SUFFICES ASSUME TypeOK, AtWork
             PROVE  /\ N \in Nat /\ StepsInPass \in Nat \ {0} /\ Passes \in Nat
                    /\ StepsToEnd = N + 2 + StepsInPass + (4 * N + 2) * Passes
  OBVIOUS
<1>1. N \in Nat /\ cursor \in 1..(N + 1) /\ left \in Nat /\ (pc \in {"ahead", "call"} => cursor <= N)
  BY CurrentIsNode DEF TypeOK
<1>2. StepsInPass \in Nat \ {0}
  <2>1. CASE pc = "refresh"
    BY <1>1, <2>1 DEF StepsInPass
  <2>2. CASE pc = "visit"
    BY <1>1, <2>2 DEF StepsInPass
  <2>3. CASE pc = "ahead"
    BY <1>1, <2>3 DEF StepsInPass
  <2>4. CASE pc = "call"
    BY <1>1, <2>4 DEF StepsInPass
  <2> QED
    BY <2>1, <2>2, <2>3, <2>4 DEF AtWork
<1>3. Passes \in Nat
  <2>1. Cardinality(OpenNodes(mem)) \in Nat
    BY OpenNodesCounted
  <2> QED
    BY <1>1, <2>1 DEF Passes
<1>4. StepsToEnd = N + 2 + StepsInPass + PassSteps * Passes
  BY DEF StepsToEnd, AtWork
<1> QED
  BY <1>1, <1>2, <1>3, <1>4 DEF PassSteps

\* A step of the pass, or the step to a pass that has been charged for.
LEMMA WorkShortens ==
  ASSUME TypeOK, TypeOK', AtWork, AtWork',
         \/ Passes' <= Passes /\ StepsInPass' < StepsInPass
         \/ Passes' + 1 <= Passes /\ StepsInPass' < StepsInPass + (4 * N + 2)
  PROVE  StepsToEnd' < StepsToEnd
<1>1. /\ N \in Nat /\ StepsInPass \in Nat /\ Passes \in Nat
      /\ StepsToEnd = N + 2 + StepsInPass + (4 * N + 2) * Passes
  BY StepsAtWork
<1>2. (TypeOK /\ AtWork)' => (/\ N \in Nat /\ StepsInPass \in Nat \ {0} /\ Passes \in Nat
                              /\ StepsToEnd = N + 2 + StepsInPass + (4 * N + 2) * Passes)'
  BY StepsAtWork, PTL
<1>3. StepsInPass' \in Nat /\ Passes' \in Nat /\ StepsToEnd' = N + 2 + StepsInPass' + (4 * N + 2) * Passes'
  BY <1>2 DEF N
<1> HIDE DEF N, StepsInPass, Passes, StepsToEnd
<1> QED
  BY <1>1, <1>3, FewerSteps

\* A step that leaves _advance.
LEMMA WorkLeaves ==
  ASSUME TypeOK, AtWork, StepsToEnd' <= N + 2, StepsToEnd' \in Nat
  PROVE  StepsToEnd' < StepsToEnd
<1>1. /\ N \in Nat /\ StepsInPass \in Nat \ {0} /\ Passes \in Nat
      /\ StepsToEnd = N + 2 + StepsInPass + (4 * N + 2) * Passes
  BY StepsAtWork
<1>2. (4 * N + 2) * Passes \in Nat
  BY <1>1
<1> QED
  BY <1>1, <1>2

\* Memory that an action edits holds no more open nodes than before.
LEMMA PassesStand ==
  ASSUME TypeOK, TypeOK', Advances(mem, mem'), left' <= left,
         (progress' \/ pc' \in {"ahead", "call"}) => (progress \/ pc \in {"ahead", "call"})
  PROVE  Passes' <= Passes
<1>1. /\ Cardinality(OpenNodes(mem')) <= Cardinality(OpenNodes(mem))
      /\ Cardinality(OpenNodes(mem')) \in Nat /\ Cardinality(OpenNodes(mem)) \in Nat
  BY NoMoreOpen, OpenNodesCounted
<1>2. left \in Nat /\ left' \in Nat
  BY DEF TypeOK
<1>3. Passes' = left' + Cardinality(OpenNodes(mem')) + (IF progress' \/ pc' \in {"ahead", "call"} THEN 1 ELSE 0)
  BY DEF Passes, OpenNodes, Open
<1> QED
  BY <1>1, <1>2, <1>3 DEF Passes

\* The steps at a node.
LEMMA VisitShortens ==
  ASSUME TypeOK, TypeOK', RunInvariant, VisitNode
  PROVE  StepsToEnd' < StepsToEnd
<1> DEFINE n == Current
<1>n. /\ N \in Nat /\ cursor \in 1..N /\ n \in Nodes /\ mem \in Run /\ mem.nodes[n] \in NodeState
      /\ AtWork /\ left \in Nat /\ progress \in BOOLEAN
  BY CurrentIsNode DEF VisitNode, TypeOK, HoldForApproval, RefuseNode, ExecutorMissing, StartNode,
     DeferNode, RunBuiltin, AtNode, Visiting, Current, Run, AtWork
<1>1. CASE HoldForApproval(n)
  <2>1. /\ pc = "visit" /\ pc' = "visit" /\ cursor' = cursor + 1 /\ progress' = progress /\ left' = left
        /\ mem' = [mem EXCEPT !.nodes[n].wait = "approval"]
    BY <1>1 DEF HoldForApproval, AtNode, Visiting
  <2>2. Advances(mem, mem')
    BY <1>n, <2>1, WaitAdvances DEF Waits
  <2>3. Passes' <= Passes
    BY <1>n, <2>1, <2>2, PassesStand
  <2>4. StepsInPass' < StepsInPass
    BY <1>n, <2>1 DEF StepsInPass, N
  <2> QED
    BY <1>n, <2>1, <2>3, <2>4, WorkShortens DEF AtWork
<1>2. CASE RefuseNode(n)
  <2> DEFINE r == [mem EXCEPT !.nodes[n].wait = "none"]
  <2>1. /\ pc = "visit" /\ pc' = "visit" /\ cursor' = cursor + 1 /\ progress' = TRUE /\ left' = left
        /\ mem' = FailNode(r, n) /\ mem.nodes[n].status = "READY"
    BY <1>2 DEF RefuseNode, AtNode, Visiting, Visitable
  <2>2. Advances(mem, r) /\ r \in Run /\ r.nodes[n].status = "READY"
    BY <1>n, <2>1, WaitAdvances DEF Waits
  <2>3. Advances(r, mem')
    BY <1>n, <2>1, <2>2, FailNodeAdvances
  <2>4. mem'.nodes[n].status = "FAILED"
    BY <1>n, <2>1, <2>2 DEF FailNode, Run, NodeState
  <2> HIDE DEF r, n
  <2>5. Cardinality(OpenNodes(r)) <= Cardinality(OpenNodes(mem))
    BY <2>2, NoMoreOpen
  <2>6. Cardinality(OpenNodes(mem')) + 1 <= Cardinality(OpenNodes(r))
    <3>1. Open(r, n) /\ ~Open(mem', n)
      BY <2>2, <2>4 DEF Open, NodeTerminal
    <3> QED
      BY <1>n, <2>3, <3>1, OneFewerOpen
  <2>7. /\ Cardinality(OpenNodes(mem')) \in Nat /\ Cardinality(OpenNodes(mem)) \in Nat
        /\ Cardinality(OpenNodes(r)) \in Nat
    BY OpenNodesCounted
  <2>8. Passes' = left + Cardinality(OpenNodes(mem')) + 1
    BY <2>1 DEF Passes, OpenNodes, Open
  <2>9. Passes' <= Passes
    BY <1>n, <2>5, <2>6, <2>7, <2>8 DEF Passes
  <2>10. StepsInPass' < StepsInPass
    BY <1>n, <2>1 DEF StepsInPass, N
  <2> QED
    BY <1>n, <2>1, <2>9, <2>10, WorkShortens DEF AtWork
<1>3. CASE ExecutorMissing(n)
  <2>1. pc' = "idle"
    BY <1>3 DEF ExecutorMissing, Release
  <2>2. StepsToEnd' = 0
    BY <2>1 DEF StepsToEnd
  <2> QED
    BY <1>n, <2>2, WorkLeaves
<1>4. CASE StartNode(n)
  <2>1. /\ pc = "visit" /\ pc' = "ahead" /\ cursor' = cursor /\ progress' = progress /\ left' = left - 1
        /\ left > 0 /\ mem' = Started(mem, n) /\ mem.nodes[n].status = "READY"
    BY <1>4 DEF StartNode, AtNode, Visiting, Visitable
  <2>2. /\ mem'.nodes[n].status = "RUNNING" /\ \A m \in Nodes \ {n} : mem'.nodes[m] = mem.nodes[m]
    BY <1>n, <2>1, StartedType
  <2>3. OpenNodes(mem') = OpenNodes(mem)
    BY <2>1, <2>2 DEF OpenNodes, Open, NodeTerminal
  <2>4. Cardinality(OpenNodes(mem)) \in Nat
    BY OpenNodesCounted
  <2>5. Passes' = left - 1 + Cardinality(OpenNodes(mem')) + 1
    BY <2>1 DEF Passes, OpenNodes, Open
  <2>6. Passes' <= Passes
    BY <1>n, <2>1, <2>3, <2>4, <2>5 DEF Passes
  <2>7. StepsInPass' < StepsInPass
    BY <1>n, <2>1 DEF StepsInPass, N
  <2> QED
    BY <1>n, <2>1, <2>6, <2>7, WorkShortens DEF AtWork
<1>5. CASE DeferNode(n)
  <2>1. /\ pc = "call" /\ pc' = "visit" /\ cursor' = cursor + 1 /\ progress' = TRUE /\ left' = left
        /\ mem' = [mem EXCEPT !.nodes[n].wait = "submission"]
    BY <1>5 DEF DeferNode, Invoke
  <2>2. Advances(mem, mem')
    BY <1>n, <2>1, WaitAdvances DEF Waits
  <2>3. Passes' <= Passes
    BY <1>n, <2>1, <2>2, PassesStand
  <2>4. StepsInPass' < StepsInPass
    BY <1>n, <2>1 DEF StepsInPass, N
  <2> QED
    BY <1>n, <2>1, <2>3, <2>4, WorkShortens DEF AtWork
<1>6. ASSUME NEW result \in Results, RunBuiltin(n, result)
      PROVE  StepsToEnd' < StepsToEnd
  <2>1. /\ pc = "call" /\ pc' = "visit" /\ cursor' = cursor + 1 /\ progress' = TRUE /\ left' = left
        /\ mem' = CompleteAttempt(mem, n, result)
    BY <1>6 DEF RunBuiltin, Invoke
  <2>2. Advances(mem, mem')
    BY <1>n, <2>1, CompleteAttemptAdvances DEF RunInvariant
  <2>3. Passes' <= Passes
    BY <1>n, <2>1, <2>2, PassesStand
  <2>4. StepsInPass' < StepsInPass
    BY <1>n, <2>1 DEF StepsInPass, N
  <2> QED
    BY <1>n, <2>1, <2>3, <2>4, WorkShortens DEF AtWork
<1> QED
  BY <1>1, <1>2, <1>3, <1>4, <1>5, <1>6 DEF VisitNode

\* Every step of an operation brings its end nearer.
LEMMA StepShortens ==
  ASSUME TypeOK, TypeOK', RunInvariant, Step
  PROVE  StepsToEnd' < StepsToEnd
<1>n. N \in Nat /\ cursor \in 1..(N + 1) /\ left \in Nat
  BY CurrentIsNode DEF TypeOK
<1>1. CASE RefreshNode
  <2>1. /\ pc \in {"refresh", "resettle"} /\ pc' = pc /\ cursor' = cursor + 1 /\ cursor <= N
        /\ progress' = progress /\ left' = left
    BY <1>1 DEF RefreshNode
  <2>2. CASE pc = "resettle"
    <3>1. StepsToEnd' = N + 3 - (cursor + 1)
      BY <2>1, <2>2 DEF StepsToEnd, N
    <3>2. StepsToEnd = N + 3 - cursor
      BY <2>2 DEF StepsToEnd
    <3> QED
      BY <1>n, <3>1, <3>2
  <2>3. CASE pc = "refresh"
    <3>1. Current \in Nodes /\ RefreshedAt(mem, mem', Current)
      BY <1>1, <1>n, CurrentIsNode DEF RefreshNode, Current, RefreshedAt
    <3>2. Advances(mem, mem')
      BY <3>1, RefreshedAdvances DEF TypeOK, RunInvariant
    <3>3. Passes' <= Passes
      BY <1>n, <2>1, <2>3, <3>2, PassesStand
    <3>4. StepsInPass' < StepsInPass
      BY <1>n, <2>1, <2>3 DEF StepsInPass, N
    <3> QED
      BY <2>1, <2>3, <3>3, <3>4, WorkShortens DEF AtWork
  <2> QED
    BY <2>1, <2>2, <2>3
<1>2. CASE BeginPass
  <2>1. /\ pc = "refresh" /\ pc' = "visit" /\ cursor > N /\ cursor' = 1
        /\ progress' = progress /\ left' = left /\ mem' = mem
    BY <1>2 DEF BeginPass
  <2>2. Advances(mem, mem')
    BY <2>1, SameNodesAdvance
  <2>3. Passes' <= Passes
    BY <1>n, <2>1, <2>2, PassesStand
  <2>4. StepsInPass' < StepsInPass
    BY <1>n, <2>1 DEF StepsInPass, N
  <2> QED
    BY <2>1, <2>3, <2>4, WorkShortens DEF AtWork
<1>3. CASE PassOver
  <2>1. /\ pc = "visit" /\ pc' = "visit" /\ cursor <= N /\ cursor' = cursor + 1
        /\ progress' = progress /\ left' = left /\ mem' = mem
    BY <1>3 DEF PassOver, Visiting
  <2>2. Advances(mem, mem')
    BY <2>1, SameNodesAdvance
  <2>3. Passes' <= Passes
    BY <1>n, <2>1, <2>2, PassesStand
  <2>4. StepsInPass' < StepsInPass
    BY <1>n, <2>1 DEF StepsInPass, N
  <2> QED
    BY <2>1, <2>3, <2>4, WorkShortens DEF AtWork
<1>4. CASE StopOnBudget
  <2>1. pc = "visit" /\ pc' = "resettle" /\ cursor' = 1
    BY <1>4 DEF StopOnBudget, Visiting
  <2>2. StepsToEnd' = N + 2
    BY <1>n, <2>1 DEF StepsToEnd, N
  <2> QED
    BY <1>n, <2>1, <2>2, WorkLeaves DEF AtWork
<1>5. CASE VisitNode
  BY <1>5, VisitShortens
<1>6. CASE WriteAhead
  <2>1. /\ pc = "ahead" /\ pc' = "call" /\ cursor' = cursor
        /\ progress' = progress /\ left' = left /\ mem' = mem
    BY <1>6 DEF WriteAhead, loop
  <2>2. Advances(mem, mem')
    BY <2>1, SameNodesAdvance
  <2>3. Passes' <= Passes
    BY <1>n, <2>1, <2>2, PassesStand
  <2>4. StepsInPass' < StepsInPass
    BY <1>n, <2>1 DEF StepsInPass, N
  <2> QED
    BY <2>1, <2>3, <2>4, WorkShortens DEF AtWork
<1>7. CASE EndPass
  <2>1. /\ pc = "visit" /\ cursor > N /\ cursor' = 1 /\ progress' = FALSE /\ left' = left /\ mem' = mem
        /\ IF progress THEN pc' = "refresh" ELSE pc' = "resettle"
    BY <1>7 DEF EndPass
  <2>2. CASE progress
    <3>1. Cardinality(OpenNodes(mem)) \in Nat
      BY OpenNodesCounted
    <3>2. Passes' = left + Cardinality(OpenNodes(mem)) /\ Passes = left + Cardinality(OpenNodes(mem)) + 1
      BY <1>n, <2>1, <2>2, <3>1 DEF Passes, OpenNodes, Open
    <3>3. Passes' + 1 <= Passes
      BY <1>n, <3>1, <3>2
    <3>4. StepsInPass' < StepsInPass + (4 * N + 2)
      BY <1>n, <2>1, <2>2 DEF StepsInPass, N
    <3> QED
      BY <2>1, <2>2, <3>3, <3>4, WorkShortens DEF AtWork
  <2>3. CASE ~progress
    <3>1. StepsToEnd' = N + 2
      BY <1>n, <2>1, <2>3 DEF StepsToEnd, N
    <3> QED
      BY <1>n, <2>1, <3>1, WorkLeaves DEF AtWork
  <2> QED
    BY <2>2, <2>3
<1>8. CASE Settle
  <2>1. pc = "resettle" /\ cursor > N /\ pc' = "save"
    BY <1>8 DEF Settle
  <2>2. StepsToEnd' = 1 /\ StepsToEnd = N + 3 - cursor
    BY <2>1 DEF StepsToEnd
  <2> QED
    BY <1>n, <2>2
<1>9. CASE Save
  <2>1. pc = "save" /\ pc' = "idle"
    BY <1>9 DEF Save, Release
  <2> QED
    BY <2>1 DEF StepsToEnd
<1>10. CASE Attest
  <2>1. pc = "attest" /\ pc' = "save"
    BY <1>10 DEF Attest
  <2> QED
    BY <2>1 DEF StepsToEnd
<1>11. CASE RecordCreation
  <2>1. pc = "create" /\ pc' = "idle"
    BY <1>11 DEF RecordCreation, Release
  <2> QED
    BY <2>1 DEF StepsToEnd
<1> QED
  BY <1>1, <1>2, <1>3, <1>4, <1>5, <1>6, <1>7, <1>8, <1>9, <1>10, <1>11 DEF Step

\* A request begins no further from its end than its budget and its graph allow.
LEMMA RequestBounded ==
  ASSUME TypeOK, TypeOK', Request
  PROVE  StepsToEnd' <= N + 2 + PassSteps * (MaxSteps + N + 1)
<1>n. N \in Nat /\ MaxSteps \in Nat
  BY CurrentIsNode, BoundAssumption
<1>1. /\ PassSteps = 4 * N + 2 /\ (4 * N + 2) * (MaxSteps + N + 1) \in Nat
      /\ (4 * N + 2) * (MaxSteps + N + 1) >= 4 * N + 2
  <2>1. (4 * N + 2) * (MaxSteps + N + 1) = (4 * N + 2) * (MaxSteps + N) + (4 * N + 2)
    BY <1>n
  <2>2. (4 * N + 2) * (MaxSteps + N) \in Nat
    BY <1>n
  <2> QED
    BY <1>n, <2>1, <2>2 DEF PassSteps
<1>2. pc' \in {"save", "attest"} \/ BeginAdvance \/ BeginSettle
  BY DEF Request, DecidePlan, DecideGate, Submit, RetryNode, Execute, Resume, Cancel, Verify
<1>3. CASE pc' \in {"save", "attest"}
  <2>1. StepsToEnd' <= 2
    BY <1>3 DEF StepsToEnd
  <2>2. StepsToEnd' \in Nat
    BY <1>3 DEF StepsToEnd
  <2> QED
    BY <1>n, <1>1, <2>1, <2>2
<1>4. CASE BeginSettle
  <2>1. pc' = "resettle" /\ cursor' = 1
    BY <1>4 DEF BeginSettle
  <2>2. StepsToEnd' = N + 2
    BY <1>n, <2>1 DEF StepsToEnd, N
  <2> QED
    BY <1>n, <1>1, <2>2
<1>5. CASE BeginAdvance
  <2>1. pc' = "refresh" /\ cursor' = 1 /\ progress' = FALSE /\ left' = MaxSteps
    BY <1>5 DEF BeginAdvance
  <2>2. Cardinality(OpenNodes(mem')) \in Nat /\ Cardinality(OpenNodes(mem')) <= N
    BY OpenNodesCounted
  <2>3. Passes' = MaxSteps + Cardinality(OpenNodes(mem'))
    BY <1>n, <2>1, <2>2 DEF Passes, OpenNodes, Open
  <2>4. StepsInPass' = 4 * N + 2
    BY <1>n, <2>1 DEF StepsInPass, N
  <2>5. (TypeOK /\ AtWork)' => (/\ N \in Nat /\ StepsInPass \in Nat \ {0} /\ Passes \in Nat
                                /\ StepsToEnd = N + 2 + StepsInPass + (4 * N + 2) * Passes)'
    BY StepsAtWork, PTL
  <2>6. Passes' \in Nat /\ StepsToEnd' = N + 2 + (4 * N + 2) + (4 * N + 2) * Passes'
    BY <2>1, <2>4, <2>5 DEF AtWork, N
  <2>7. Passes' + 1 <= MaxSteps + N + 1
    BY <1>n, <2>2, <2>3
  <2>8. 4 * N + 2 \in Nat /\ MaxSteps + N + 1 \in Nat
    BY <1>n
  <2>9. /\ (4 * N + 2) * Passes' + (4 * N + 2) <= (4 * N + 2) * (MaxSteps + N + 1)
        /\ (4 * N + 2) * Passes' \in Nat
    BY ONLY <2>6, <2>7, <2>8, Charged
  <2>10. N + 2 + (4 * N + 2) + (4 * N + 2) * Passes' <= N + 2 + PassSteps * (MaxSteps + N + 1)
    BY ONLY <1>n, <1>1, <2>9
  <2> QED
    BY <2>6, <2>10
<1> QED
  BY <1>2, <1>3, <1>4, <1>5

\* The steps to the end are a natural number.
LEMMA StepsAreCounted == TypeOK => StepsToEnd \in Nat
<1> SUFFICES ASSUME TypeOK PROVE StepsToEnd \in Nat
  OBVIOUS
<1>1. CASE AtWork
  <2>1. /\ N \in Nat /\ StepsInPass \in Nat \ {0} /\ Passes \in Nat
        /\ StepsToEnd = N + 2 + StepsInPass + (4 * N + 2) * Passes
    BY <1>1, StepsAtWork
  <2>2. (4 * N + 2) * Passes \in Nat
    BY <2>1, Charged
  <2> QED
    BY <2>1, <2>2
<1>2. CASE pc = "resettle"
  <2>1. N \in Nat /\ cursor \in 1..(N + 1)
    BY CurrentIsNode DEF TypeOK
  <2>2. StepsToEnd = N + 3 - cursor
    BY <1>2 DEF StepsToEnd
  <2> QED
    BY <2>1, <2>2
<1>3. CASE pc \in {"idle", "create", "save", "attest"}
  BY <1>3 DEF StepsToEnd
<1> QED
  BY <1>1, <1>2, <1>3 DEF TypeOK, PCs, AtWork

\* An operation is over after a number of steps that its budget and the size of its graph
\* bound, whatever its graph, its gates and the results of its attempts.
THEOREM OperationsAreBounded == Spec => OperationsBounded
<1>1. TypeOK /\ TypeOK' /\ RunInvariant /\ [Next]_vars =>
        [/\ pc = "idle" /\ pc' # "idle" => StepsToEnd' <= N + 2 + PassSteps * (MaxSteps + N + 1)
         /\ Step => StepsToEnd' \in 0..(StepsToEnd - 1)]_vars
  <2> SUFFICES ASSUME TypeOK, TypeOK', RunInvariant, Next
               PROVE  /\ pc = "idle" /\ pc' # "idle" => StepsToEnd' <= N + 2 + PassSteps * (MaxSteps + N + 1)
                      /\ Step => StepsToEnd' \in 0..(StepsToEnd - 1)
    OBVIOUS
  <2>1. Step => StepsToEnd' \in 0..(StepsToEnd - 1)
    <3>1. StepsToEnd \in Nat
      BY StepsAreCounted
    <3>2. TypeOK' => (StepsToEnd \in Nat)'
      BY StepsAreCounted, PTL
    <3>3. StepsToEnd' \in Nat
      BY <3>2
    <3>4. Step => StepsToEnd' < StepsToEnd
      BY StepShortens
    <3> QED
      BY <3>1, <3>3, <3>4
  <2>2. Step => pc # "idle"
    BY DEF Step, RefreshNode, BeginPass, PassOver, StopOnBudget, VisitNode, WriteAhead, EndPass, Settle,
       Save, Attest, HoldForApproval, RefuseNode, ExecutorMissing, StartNode, DeferNode, RunBuiltin,
       AtNode, Visiting, RecordCreation
  <2>3. Crash => pc # "idle"
    BY DEF Crash
  <2>4. Reconfigure => pc' = pc
    BY DEF Reconfigure
  <2> QED
    BY <2>1, <2>2, <2>3, <2>4, RequestBounded DEF Next
<1> QED
  BY <1>1, TypeCorrect, InvariantHolds, PTL DEF OperationsBounded, Spec

-----------------------------------------------------------------------------
(* Stopped runs.                                                           *)

\* The invariant holds of a run that has just been created.
LEMMA StopInit == Init => StopInvariant
<1> SUFFICES ASSUME Init PROVE StopInvariant
  OBVIOUS
<1>1. mem = disk /\ pc = "create" /\ ~disk.stopped
  BY DEF Init, NewRun
<1> QED
  BY <1>1 DEF StopInvariant, StopSettled

\* An operation that works on: only what a refresh has passed is promised.
LEMMA StopWorks ==
  ASSUME StopInvariant, RunInvariant', disk' = disk, pc' \notin {"idle", "create", "save", "attest"},
         pc' \in {"refresh", "resettle"} /\ mem'.stopped =>
           \A i \in 1..(cursor' - 1) : mem'.nodes[Order[i]].status \notin {"PENDING", "READY"}
  PROVE  StopInvariant'
<1>1. mem'.status # "DRAFT"
  BY DEF RunInvariant
<1> QED
  BY <1>1 DEF StopInvariant

\* One that goes on to _advance or to _settle has refreshed nothing yet.
LEMMA StopBegins ==
  ASSUME StopInvariant, RunInvariant', disk' = disk, pc' \in {"refresh", "resettle"}, cursor' = 1
  PROVE  StopInvariant'
<1>1. 1..(cursor' - 1) = {}
  OBVIOUS
<1> QED
  BY <1>1, StopWorks

\* One that goes on to _save.
LEMMA StopSaves ==
  ASSUME StopInvariant, disk' = disk, pc' \in {"save", "attest"}, StopSettled(mem'),
         mem'.status = "DRAFT" => ~mem'.stopped
  PROVE  StopInvariant'
BY DEF StopInvariant

\* A crash and an exception leave what is on disk.
LEMMA StopDropped ==
  ASSUME StopInvariant, disk' = disk, Release
  PROVE  StopInvariant'
BY DEF StopInvariant, Release

\* Denying the plan and cancelling leave nothing to start.
LEMMA SkippedStartNothing ==
  ASSUME NEW r \in Run, NEW q, q.nodes = SkipOpenNodes(r).nodes
  PROVE  NothingToStart(q)
<1> SUFFICES ASSUME NEW n \in Nodes PROVE q.nodes[n].status \notin {"PENDING", "READY"}
  BY DEF NothingToStart
<1>1. r.nodes[n] \in NodeState
  BY DEF Run
<1>2. q.nodes[n] = IF Open(r, n) THEN Skipped(r.nodes[n]) ELSE r.nodes[n]
  BY DEF SkipOpenNodes, Run
<1>3. Skipped(r.nodes[n]).status = "SKIPPED"
  BY <1>1 DEF Skipped, NodeState
<1> QED
  BY <1>2, <1>3 DEF Open, NodeTerminal

\* The operator's requests keep the invariant.
LEMMA StopRequest == TypeOK /\ StopInvariant /\ RunInvariant' /\ Request => StopInvariant'
<1> SUFFICES ASSUME TypeOK, StopInvariant, RunInvariant', Request PROVE StopInvariant'
  OBVIOUS
<1>t. disk \in Run /\ StopSettled(disk) /\ (disk.status = "DRAFT" => ~disk.stopped)
  BY DEF TypeOK, StopInvariant
<1>1. ASSUME NEW decision \in {"APPROVED", "DENIED"}, DecidePlan(decision) PROVE StopInvariant'
  <2>1. disk' = disk /\ pc' = "save" /\ ~disk.stopped
    BY <1>t, <1>1 DEF DecidePlan
  <2>2. CASE decision = "APPROVED"
    <3>1. mem' = [disk EXCEPT !.status = "APPROVED", !.plan = decision]
      BY <1>1, <2>2 DEF DecidePlan
    <3>2. ~mem'.stopped
      BY <1>t, <2>1, <3>1 DEF Run
    <3> QED
      BY <2>1, <3>2, StopSaves DEF StopSettled
  <2>3. CASE decision = "DENIED"
    <3>1. mem' = [SkipOpenNodes(disk) EXCEPT !.status = "CANCELLED", !.plan = decision]
      BY <1>1, <2>3 DEF DecidePlan
    <3>2. mem'.status = "CANCELLED" /\ mem'.nodes = SkipOpenNodes(disk).nodes
      BY <1>t, <3>1, SkipOpenNodesType DEF Run
    <3>3. StopSettled(mem')
      BY <1>t, <3>2, SkippedStartNothing DEF StopSettled
    <3> QED
      BY <2>1, <3>2, <3>3, StopSaves
  <2> QED
    BY <2>2, <2>3
<1>2. ASSUME NEW g \in Gates, NEW decision \in {"APPROVED", "DENIED"}, DecideGate(g, decision)
      PROVE  StopInvariant'
  <2>1. disk' = disk /\ pc' \in {"refresh", "resettle"} /\ cursor' = 1
    BY <1>2 DEF DecideGate, BeginAdvance, BeginSettle
  <2> QED
    BY <2>1, StopBegins
<1>3. CASE \/ Execute
           \/ \E n \in Nodes, result \in Results : Submit(n, result)
           \/ \E n \in Nodes : RetryNode(n)
  <2>1. disk' = disk /\ BeginAdvance
    BY <1>3 DEF Execute, Submit, RetryNode
  <2> QED
    BY <2>1, StopBegins DEF BeginAdvance
<1>4. CASE Resume
  <2>1. CASE disk.status = "DRAFT"
    <3>1. disk' = disk /\ pc' = "save" /\ mem' = Recovered(disk) /\ ~disk.stopped
      BY <1>t, <1>4, <2>1 DEF Resume
    <3>2. ~mem'.stopped
      BY <1>t, <3>1 DEF Recovered, Run
    <3> QED
      BY <3>1, <3>2, StopSaves DEF StopSettled
  <2>2. CASE disk.status # "DRAFT"
    BY <1>4, <2>2, StopBegins DEF Resume, BeginAdvance
  <2> QED
    BY <2>1, <2>2
<1>5. CASE Cancel
  <2>1. /\ disk' = disk /\ pc' = "save"
        /\ mem' = [SkipOpenNodes(disk) EXCEPT !.status = "CANCELLED", !.holds = {}]
    BY <1>5 DEF Cancel
  <2>2. mem'.status = "CANCELLED" /\ mem'.nodes = SkipOpenNodes(disk).nodes
    BY <1>t, <2>1, SkipOpenNodesType DEF Run
  <2>3. StopSettled(mem')
    BY <1>t, <2>2, SkippedStartNothing DEF StopSettled
  <2> QED
    BY <2>1, <2>2, <2>3, StopSaves
<1>6. CASE Verify
  <2>1. disk' = disk /\ pc' = "attest" /\ mem' = [disk EXCEPT !.verification = receipt']
    BY <1>6 DEF Verify
  <2>2. mem'.status = disk.status /\ mem'.stopped = disk.stopped /\ mem'.nodes = disk.nodes
    BY <1>t, <2>1 DEF Run
  <2>3. StopSettled(mem')
    BY <1>t, <2>2 DEF StopSettled, NothingToStart, Interrupted
  <2> QED
    BY <1>t, <2>1, <2>2, <2>3, StopSaves
<1> QED
  BY <1>1, <1>2, <1>3, <1>4, <1>5, <1>6 DEF Request

\* One node of a refresh of a stopped run.
LEMMA RefreshedStops ==
  ASSUME NEW r \in Run, NEW n \in Nodes, NEW q, RefreshedAt(r, q, n)
  PROVE  /\ q.stopped = r.stopped
         /\ \A m \in Nodes \ {n} : q.nodes[m] = r.nodes[m]
         /\ r.stopped => q.nodes[n].status \notin {"PENDING", "READY"}
<1>1. /\ q.stopped = r.stopped /\ q.nodes[n] = Refreshed(r, n)
      /\ \A m \in Nodes \ {n} : q.nodes[m] = r.nodes[m]
  BY DEF RefreshedAt, Run
<1>2. r.nodes[n] \in NodeState
  BY DEF Run
<1>3. CASE r.nodes[n].status \notin {"PENDING", "READY"}
  BY <1>1, <1>3 DEF Refreshed
<1>4. CASE r.nodes[n].status \in {"PENDING", "READY"} /\ r.stopped
  <2>1. Refreshed(r, n) = Skipped(r.nodes[n])
    BY <1>4, SMT DEF Refreshed
  <2>2. q.nodes[n].status = "SKIPPED"
    BY <1>1, <1>2, <2>1 DEF Skipped, NodeState
  <2> QED
    BY <1>1, <2>2
<1> QED
  BY <1>1, <1>3, <1>4

\* The engine's steps keep the invariant.
LEMMA StopStep == TypeOK /\ RunInvariant /\ StopInvariant /\ RunInvariant' /\ Step => StopInvariant'
<1> SUFFICES ASSUME TypeOK, RunInvariant, StopInvariant, RunInvariant', Step PROVE StopInvariant'
  OBVIOUS
<1>t. mem \in Run /\ N \in Nat /\ cursor \in 1..(N + 1)
  BY CurrentIsNode DEF TypeOK
<1>o. (\A i \in 1..N : Order[i] \in Nodes) /\ \A n \in Nodes : \E i \in 1..N : Order[i] = n
  BY CurrentIsNode, OrderAssumption DEF N
<1>1. CASE RefreshNode
  <2>1. /\ pc' = pc /\ pc \in {"refresh", "resettle"} /\ cursor \in 1..N /\ cursor' = cursor + 1 /\ disk' = disk
        /\ mem' = [mem EXCEPT !.nodes[Order[cursor]] = Refreshed(mem, Order[cursor])]
    BY <1>1, <1>t DEF RefreshNode, Current
  <2>2. RefreshedAt(mem, mem', Order[cursor]) /\ Order[cursor] \in Nodes
    BY <1>o, <2>1 DEF RefreshedAt
  <2>3. /\ mem'.stopped = mem.stopped
        /\ \A m \in Nodes \ {Order[cursor]} : mem'.nodes[m] = mem.nodes[m]
        /\ mem.stopped => mem'.nodes[Order[cursor]].status \notin {"PENDING", "READY"}
    BY <1>t, <2>2, RefreshedStops
  <2>4. \A i \in 1..(cursor' - 1) : Order[i] \in Nodes /\ (Order[i] = Order[cursor] \/ i \in 1..(cursor - 1))
    BY <1>t, <1>o, <2>1
  <2>5. mem.stopped => \A i \in 1..(cursor - 1) : mem.nodes[Order[i]].status \notin {"PENDING", "READY"}
    BY <2>1 DEF StopInvariant
  <2>6. mem'.stopped => \A i \in 1..(cursor' - 1) : mem'.nodes[Order[i]].status \notin {"PENDING", "READY"}
    BY <2>3, <2>4, <2>5
  <2> QED
    BY <2>1, <2>6, StopWorks
<1>2. CASE BeginPass \/ PassOver
  <2>1. disk' = disk /\ pc' = "visit"
    BY <1>2 DEF BeginPass, PassOver, Visiting
  <2> QED
    BY <2>1, StopWorks
<1>3. CASE StopOnBudget \/ EndPass
  <2>1. disk' = disk /\ pc' \in {"refresh", "resettle"} /\ cursor' = 1
    BY <1>3 DEF StopOnBudget, EndPass
  <2> QED
    BY <2>1, StopBegins
<1>4. CASE VisitNode
  <2>1. CASE ExecutorMissing(Current)
    BY <2>1, StopDropped DEF ExecutorMissing
  <2>2. CASE ~ExecutorMissing(Current)
    <3>1. disk' = disk /\ pc' \in {"visit", "ahead"}
      BY <1>4, <2>2 DEF VisitNode, HoldForApproval, RefuseNode, StartNode, DeferNode, RunBuiltin,
         Invoke, AtNode, Visiting
    <3> QED
      BY <3>1, StopWorks
  <2> QED
    BY <2>1, <2>2
<1>5. CASE WriteAhead
  <2>1. pc = "ahead" /\ pc' = "call" /\ disk' = mem /\ mem' = mem
    BY <1>5 DEF WriteAhead
  <2>2. Interrupted(mem, Current) /\ mem.status # "DRAFT"
    BY <2>1 DEF RunInvariant, Interrupted
  <2>3. Current \in Nodes
    BY <2>1, CurrentIsNode DEF TypeOK, Current
  <2> QED
    BY <2>1, <2>2, <2>3 DEF StopInvariant, StopSettled
<1>6. CASE Settle
  <2>1. pc = "resettle" /\ cursor > N /\ pc' = "save" /\ disk' = disk /\ mem' = Settled(mem, exhausted)
    BY <1>6 DEF Settle
  <2>2. mem.status # "DRAFT"
    BY <2>1 DEF RunInvariant
  <2>3. mem'.status # "DRAFT" /\ mem'.nodes = mem.nodes /\ mem'.stopped = mem.stopped
    BY <1>t, <2>1, <2>2 DEF Settled, FinalStatus, Run
  <2>4. ASSUME mem.stopped PROVE NothingToStart(mem')
    <3>1. \A i \in 1..N : mem.nodes[Order[i]].status \notin {"PENDING", "READY"}
      BY <1>t, <2>1, <2>4 DEF StopInvariant
    <3> QED
      BY <1>o, <2>3, <3>1 DEF NothingToStart
  <2> QED
    BY <2>1, <2>3, <2>4, StopSaves DEF StopSettled
<1>7. CASE Save
  BY <1>7 DEF Save, Release, StopInvariant
<1>8. CASE Attest
  <2>1. pc = "attest" /\ pc' = "save" /\ disk' = disk /\ mem' = mem
    BY <1>8 DEF Attest
  <2>2. StopSettled(mem) /\ (mem.status = "DRAFT" => ~mem.stopped)
    BY <2>1 DEF StopInvariant
  <2> QED
    BY <2>1, <2>2, StopSaves
<1>9. CASE RecordCreation
  BY <1>9, StopDropped DEF RecordCreation
<1> QED
  BY <1>1, <1>2, <1>3, <1>4, <1>5, <1>6, <1>7, <1>8, <1>9 DEF Step

\* Every step of a run keeps the invariant.
LEMMA StopNext == TypeOK /\ RunInvariant /\ RunInvariant' /\ StopInvariant /\ [Next]_vars => StopInvariant'
<1> SUFFICES ASSUME TypeOK, RunInvariant, RunInvariant', StopInvariant, [Next]_vars PROVE StopInvariant'
  OBVIOUS
<1>1. CASE Crash
  BY <1>1, StopDropped DEF Crash
<1>2. CASE Reconfigure \/ UNCHANGED vars
  <2>1. disk' = disk /\ mem' = mem /\ pc' = pc /\ cursor' = cursor
    BY <1>2 DEF Reconfigure, vars, loop
  <2> QED
    BY <2>1 DEF StopInvariant
<1> QED
  BY <1>1, <1>2, StopRequest, StopStep DEF Next

\* A stopped run on disk has nothing left to start, unless it is written in the middle of an
\* attempt: on_failure: stop leaves no PENDING or READY node for a later operation to find.
THEOREM StoppedRunsStartNothing == Spec => []StopLeavesNothing
<1>1. StopInvariant => StopLeavesNothing
  BY DEF StopInvariant, StopLeavesNothing
<1>2. Spec => []StopInvariant
  BY StopInit, StopNext, TypeCorrect, InvariantHolds, PTL DEF Spec
<1> QED
  BY <1>1, <1>2, PTL

-----------------------------------------------------------------------------
(* Denials.                                                                *)

\* q is r with the same decisions, its nodes moved on.
SameDecisions(r, q) == q.gates = r.gates /\ Advances(r, q)

\* What has failed stays failed, so that denials stay carried out.
LEMMA DenialsKept ==
  ASSUME NEW r, NEW q, SameDecisions(r, q), NEW g \in Gates, r.gates[g].decision = "DENIED",
         r.nodes[GateNode[g]].status = "FAILED"
  PROVE  q.nodes[GateNode[g]].status = "FAILED"
<1>1. GateNode[g] \in Nodes
  BY GateAssumption
<1> QED
  BY <1>1 DEF SameDecisions, Advances, StatusStep

\* A denied plan is the coherence of the record.
LEMMA PlanDenied ==
  ASSUME NEW r \in Run, Coherent(r), r.plan = "DENIED"
  PROVE  r.status = "CANCELLED"
BY DEF Coherent, PlanCleared

\* So an operation that keeps the decisions keeps the invariant.
LEMMA DenialWorks ==
  ASSUME DenialInvariant, TypeOK', RunInvariant', disk' = disk, SameDecisions(mem, mem')
  PROVE  DenialInvariant'
<1>1. CarriedOut(disk) /\ CarriedOut(mem)
  BY DEF DenialInvariant, DenialsCarriedOut
<1>2. mem' \in Run /\ Coherent(mem')
  BY DEF TypeOK, RunInvariant
<1>3. mem'.gates = mem.gates
  BY DEF SameDecisions
<1>4. \A g \in Gates : mem'.gates[g].decision = "DENIED" => mem'.nodes[GateNode[g]].status = "FAILED"
  BY <1>1, <1>3, DenialsKept DEF CarriedOut
<1>5. CarriedOut(mem')
  BY <1>2, <1>4, PlanDenied DEF CarriedOut
<1> QED
  BY <1>1, <1>3, <1>5 DEF DenialInvariant, DenialsCarriedOut

\* One that ends, or is cut off.
LEMMA DenialSaved ==
  ASSUME DenialInvariant, disk' \in {disk, mem}, mem' = disk'
  PROVE  DenialInvariant'
BY DEF DenialInvariant, DenialsCarriedOut

\* _record_failure is no decision.
LEMMA FailNodeGates ==
  ASSUME NEW r \in Run, NEW n \in Nodes
  PROVE  FailNode(r, n).gates = r.gates
BY DEF FailNode, Run

\* It ends its node.
LEMMA FailNodeFails ==
  ASSUME NEW r \in Run, NEW n \in Nodes
  PROVE  FailNode(r, n).nodes[n].status = "FAILED"
<1>1. r.nodes[n] \in NodeState
  BY DEF Run
<1> QED
  BY <1>1 DEF FailNode, Run, NodeState

\* _complete_attempt is no decision either.
LEMMA CompleteAttemptGates ==
  ASSUME NEW r \in Run, NEW n \in Nodes, NEW result \in Results
  PROVE  CompleteAttempt(r, n, result).gates = r.gates
BY FailNodeGates DEF CompleteAttempt, Run

\* A decision on a gate: its node waits for it, so it has not been denied before; denied
\* now, it fails.
LEMMA GateDecidedOnce ==
  ASSUME NEW r \in Run, Coherent(r), CarriedOut(r), NEW g \in Gates, AwaitsDecision(r, g),
         NEW decision \in {"APPROVED", "DENIED"}, NEW q, q = GateDecided(r, g, decision)
  PROVE  /\ \A h \in Gates : q.gates[h].decision = "DENIED" => q.nodes[GateNode[h]].status = "FAILED"
         /\ \A h \in Gates : r.gates[h].decision = "DENIED" => q.gates[h] = r.gates[h]
<1> DEFINE n == GateNode[g]
           d == Decided(r, g, decision)
<1>1. n \in Nodes /\ GateType[g] \in GateTypes /\ \A h \in Gates : GateNode[h] \in Nodes
  BY GateAssumption
<1>2. d \in Run /\ d.nodes = r.nodes
  BY DecidedType
<1>3. d.gates[g].decision = decision /\ \A h \in Gates \ {g} : d.gates[h] = r.gates[h]
  BY DEF Decided, Run
<1>4. r.nodes[n].status \in {"READY", "RUNNING"}
  <2>1. r.nodes[n].wait = GateType[g]
    BY DEF AwaitsDecision
  <2> QED
    BY <1>1, <2>1 DEF Coherent, GateTypes
<1>5. r.gates[g].decision # "DENIED"
  BY <1>4 DEF CarriedOut
<1>6. q.gates = d.gates
  <2>1. q \in {d, FailNode(d, n), [d EXCEPT !.nodes[n].wait = "none"],
               [d EXCEPT !.nodes[n].wait = "none", !.nodes[n].status = "SUCCEEDED"]}
    BY <1>1 DEF GateDecided, GateTypes
  <2>2. FailNode(d, n).gates = d.gates
    BY <1>1, <1>2, FailNodeGates
  <2> HIDE DEF d, n
  <2> QED
    BY <1>2, <2>1, <2>2 DEF Run
<1>7. decision = "DENIED" => q.nodes[n].status = "FAILED"
  <2> SUFFICES ASSUME decision = "DENIED" PROVE q.nodes[n].status = "FAILED"
    OBVIOUS
  <2>1. q = FailNode(d, n)
    BY DEF GateDecided
  <2> HIDE DEF d, n
  <2> QED
    BY <1>1, <1>2, <2>1, FailNodeFails
<1>8. Advances(r, q)
  BY GateDecidedAdvances
<1>9. ASSUME NEW h \in Gates \ {g}, r.gates[h].decision = "DENIED" PROVE q.nodes[GateNode[h]].status = "FAILED"
  <2>1. r.nodes[GateNode[h]].status = "FAILED"
    BY <1>9 DEF CarriedOut
  <2> QED
    BY <1>1, <1>8, <2>1 DEF Advances, StatusStep
<1> HIDE DEF d, n
<1> QED
  BY <1>3, <1>5, <1>6, <1>7, <1>9 DEF n

\* The operator's requests keep the invariant.
LEMMA DenialRequest ==
  TypeOK /\ RunInvariant /\ DenialInvariant /\ TypeOK' /\ RunInvariant' /\ Request => DenialInvariant'
<1> SUFFICES ASSUME TypeOK, RunInvariant, DenialInvariant, TypeOK', RunInvariant', Request PROVE DenialInvariant'
  OBVIOUS
<1>t. /\ disk \in Run /\ Coherent(disk) /\ CarriedOut(disk) /\ mem' \in Run /\ Coherent(mem')
      /\ pc = "idle" => mem = disk
  BY DEF TypeOK, RunInvariant, DenialInvariant, DenialsCarriedOut
<1>s. ASSUME pc = "idle", disk' = disk, SameDecisions(disk, mem') PROVE DenialInvariant'
  BY <1>t, <1>s, DenialWorks
<1>1. ASSUME NEW decision \in {"APPROVED", "DENIED"}, DecidePlan(decision) PROVE DenialInvariant'
  <2>1. pc = "idle" /\ disk' = disk
    BY <1>1 DEF DecidePlan, Requested
  <2>2. CASE decision = "APPROVED"
    <3>1. mem' = [disk EXCEPT !.status = "APPROVED", !.plan = decision]
      BY <1>1, <2>2 DEF DecidePlan
    <3>2. mem'.gates = disk.gates /\ mem'.nodes = disk.nodes
      BY <1>t, <3>1 DEF Run
    <3> QED
      BY <1>s, <2>1, <3>2, SameNodesAdvance DEF SameDecisions
  <2>3. CASE decision = "DENIED"
    <3>1. mem' = [SkipOpenNodes(disk) EXCEPT !.status = "CANCELLED", !.plan = decision]
      BY <1>1, <2>3 DEF DecidePlan
    <3>2. mem'.gates = disk.gates /\ mem'.nodes = SkipOpenNodes(disk).nodes
      BY <1>t, <3>1 DEF Run, SkipOpenNodes
    <3> QED
      BY <1>s, <1>t, <2>1, <3>2, SkippedAdvances DEF SameDecisions
  <2> QED
    BY <2>2, <2>3
<1>2. ASSUME NEW decision \in {"APPROVED", "DENIED"}, NEW g \in Gates, DecideGate(g, decision)
      PROVE  DenialInvariant'
  <2>1. disk' = disk /\ AwaitsDecision(disk, g) /\ mem' = GateDecided(disk, g, decision)
    BY <1>2 DEF DecideGate
  <2>2. /\ \A h \in Gates : mem'.gates[h].decision = "DENIED" => mem'.nodes[GateNode[h]].status = "FAILED"
        /\ \A h \in Gates : disk.gates[h].decision = "DENIED" => mem'.gates[h] = disk.gates[h]
    BY <1>t, <2>1, GateDecidedOnce
  <2>3. CarriedOut(mem')
    BY <1>t, <2>2, PlanDenied DEF CarriedOut
  <2> QED
    BY <1>t, <2>1, <2>2, <2>3 DEF DenialInvariant, DenialsCarriedOut
<1>3. CASE Execute \/ Verify
  <2>1. /\ pc = "idle" /\ disk' = disk
        /\ mem' = [disk EXCEPT !.status = "RUNNING"] \/ mem' = [disk EXCEPT !.verification = receipt']
    BY <1>3 DEF Execute, Verify, Requested
  <2>2. mem'.gates = disk.gates /\ mem'.nodes = disk.nodes
    BY <1>t, <2>1 DEF Run
  <2> QED
    BY <1>s, <2>1, <2>2, SameNodesAdvance DEF SameDecisions
<1>4. ASSUME NEW n \in Nodes, NEW result \in Results, Submit(n, result) PROVE DenialInvariant'
  <2>1. PICK r : r = [disk EXCEPT !.nodes[n].wait = "none"]
    OBVIOUS
  <2>2. /\ pc = "idle" /\ disk' = disk /\ mem' = CompleteAttempt(r, n, result) /\ disk.nodes[n].status = "RUNNING"
    BY <1>4, <2>1 DEF Submit, Requested, AwaitsSubmission
  <2>3. Advances(disk, r) /\ r \in Run /\ r.nodes[n].status = "RUNNING"
    BY <1>t, <2>1, <2>2, WaitAdvances DEF Waits
  <2>4. /\ \A m \in Nodes : r.nodes[m].status = disk.nodes[m].status /\ r.nodes[m].attempts = disk.nodes[m].attempts
        /\ r.gates = disk.gates
    BY <1>t, <2>1 DEF Run, NodeState
  <2>5. Advances(r, mem') /\ mem'.gates = r.gates
    BY <2>2, <2>3, CompleteAttemptAdvances, CompleteAttemptGates
  <2>6. SameDecisions(disk, mem')
    BY <2>4, <2>5 DEF Advances, SameDecisions
  <2> QED
    BY <1>s, <2>2, <2>6
<1>5. CASE Resume
  <2>1. PICK r : r = Recovered(disk)
    OBVIOUS
  <2>2. pc = "idle" /\ disk' = disk /\ (mem' = r \/ mem' = [r EXCEPT !.status = "RUNNING"])
    BY <1>5, <2>1 DEF Resume, Requested
  <2>3. Advances(disk, r) /\ r \in Run
    BY <1>t, <2>1, RecoveredAdvances, RecoveredType
  <2>4. r.gates = disk.gates
    BY <1>t, <2>1 DEF Recovered, Run
  <2>5. mem'.nodes = r.nodes /\ mem'.gates = r.gates
    BY <2>2, <2>3 DEF Run
  <2>6. SameDecisions(disk, mem')
    BY <2>3, <2>4, <2>5 DEF Advances, SameDecisions
  <2> QED
    BY <1>s, <2>2, <2>6
<1>6. ASSUME NEW n \in Nodes, RetryNode(n) PROVE DenialInvariant'
  <2>1. /\ pc = "idle" /\ disk' = disk /\ disk.nodes[n].wait = "attention"
        /\ mem' = [disk EXCEPT !.status = "RUNNING", !.nodes[n].wait = "none", !.nodes[n].status = "READY"]
    BY <1>6 DEF RetryNode, Requested
  <2>2. disk.nodes[n].status = "RUNNING" /\ disk.nodes[n] \in NodeState
    BY <1>t, <2>1 DEF Coherent, Run
  <2>3. /\ \A m \in Nodes \ {n} : mem'.nodes[m] = disk.nodes[m]
        /\ mem'.nodes[n].status = "READY" /\ mem'.nodes[n].attempts = disk.nodes[n].attempts
        /\ mem'.gates = disk.gates
    BY <1>t, <2>1, <2>2 DEF Run, NodeState
  <2>4. StatusStep(disk.nodes[n].status, mem'.nodes[n].status)
    BY <2>2, <2>3 DEF StatusStep
  <2>5. Advances(disk, mem')
    BY <1>t, <2>3, <2>4, NodeEditAdvances
  <2> QED
    BY <1>s, <2>1, <2>3, <2>5 DEF SameDecisions
<1>7. CASE Cancel
  <2>1. /\ pc = "idle" /\ disk' = disk
        /\ mem' = [SkipOpenNodes(disk) EXCEPT !.status = "CANCELLED", !.holds = {}]
    BY <1>7 DEF Cancel, Requested
  <2>2. mem'.gates = disk.gates /\ mem'.nodes = SkipOpenNodes(disk).nodes
    BY <1>t, <2>1 DEF Run, SkipOpenNodes
  <2> QED
    BY <1>s, <1>t, <2>1, <2>2, SkippedAdvances DEF SameDecisions
<1> QED
  BY <1>1, <1>2, <1>3, <1>4, <1>5, <1>6, <1>7 DEF Request

\* The steps taken at a node.
LEMMA DenialVisit ==
  TypeOK /\ RunInvariant /\ DenialInvariant /\ TypeOK' /\ RunInvariant' /\ VisitNode => DenialInvariant'
<1> DEFINE n == Current
<1> SUFFICES ASSUME TypeOK, RunInvariant, DenialInvariant, TypeOK', RunInvariant', VisitNode PROVE DenialInvariant'
  OBVIOUS
<1>t. n \in Nodes /\ mem \in Run
  BY CurrentIsNode DEF VisitNode, TypeOK, HoldForApproval, RefuseNode, ExecutorMissing,
     StartNode, DeferNode, RunBuiltin, AtNode, Visiting, Current
<1>1. ASSUME NEW w \in Waits, disk' = disk, mem' = [mem EXCEPT !.nodes[n].wait = w] PROVE DenialInvariant'
  <2>1. Advances(mem, mem')
    BY <1>t, <1>1, WaitAdvances
  <2>2. mem'.gates = mem.gates
    BY <1>t, <1>1 DEF Run
  <2> QED
    BY <1>1, <2>1, <2>2, DenialWorks DEF SameDecisions
<1>2. CASE HoldForApproval(n)
  <2>1. disk' = disk /\ mem' = [mem EXCEPT !.nodes[n].wait = "approval"] /\ "approval" \in Waits
    BY <1>2 DEF HoldForApproval, Waits
  <2> QED
    BY <1>1, <2>1
<1>3. CASE DeferNode(n)
  <2>1. disk' = disk /\ mem' = [mem EXCEPT !.nodes[n].wait = "submission"] /\ "submission" \in Waits
    BY <1>3 DEF DeferNode, Waits
  <2> QED
    BY <1>1, <2>1
<1>4. CASE RefuseNode(n)
  <2>1. PICK r : r = [mem EXCEPT !.nodes[n].wait = "none"]
    OBVIOUS
  <2>2. disk' = disk /\ mem' = FailNode(r, n) /\ mem.nodes[n].status = "READY"
    BY <1>4, <2>1 DEF RefuseNode, AtNode, Visitable
  <2>3. r \in Run /\ r.nodes[n].status = "READY"
    BY <1>t, <2>1, <2>2, WaitAdvances DEF Waits
  <2>4. /\ \A m \in Nodes : r.nodes[m].status = mem.nodes[m].status /\ r.nodes[m].attempts = mem.nodes[m].attempts
        /\ r.gates = mem.gates
    BY <1>t, <2>1 DEF Run, NodeState
  <2>5. Advances(r, mem') /\ mem'.gates = r.gates
    BY <1>t, <2>2, <2>3, FailNodeAdvances, FailNodeGates
  <2>6. SameDecisions(mem, mem')
    BY <2>4, <2>5 DEF Advances, SameDecisions
  <2> QED
    BY <2>2, <2>6, DenialWorks
<1>5. CASE ExecutorMissing(n)
  BY <1>5, DenialSaved DEF ExecutorMissing, Release
<1>6. CASE StartNode(n)
  <2>1. disk' = disk /\ mem' = Started(mem, n) /\ mem.nodes[n].status = "READY"
    BY <1>6 DEF StartNode, AtNode, Visitable
  <2>2. mem'.gates = mem.gates /\ \A m \in Nodes \ {n} : mem'.nodes[m] = mem.nodes[m]
    BY <1>t, <2>1 DEF Started, Run
  <2>3. \A g \in Gates : mem.gates[g].decision = "DENIED" => GateNode[g] \in Nodes \ {n}
    BY <2>1, GateAssumption DEF DenialInvariant, DenialsCarriedOut, CarriedOut
  <2>4. CarriedOut(mem) /\ CarriedOut(disk) /\ mem' \in Run /\ Coherent(mem')
    BY DEF DenialInvariant, DenialsCarriedOut, TypeOK, RunInvariant
  <2>5. CarriedOut(mem')
    BY <2>2, <2>3, <2>4, PlanDenied DEF CarriedOut
  <2> QED
    BY <2>1, <2>2, <2>4, <2>5 DEF DenialInvariant, DenialsCarriedOut
<1>7. ASSUME NEW result \in Results, RunBuiltin(n, result) PROVE DenialInvariant'
  <2>1. pc = "call" /\ disk' = disk /\ mem' = CompleteAttempt(mem, n, result)
    BY <1>7 DEF RunBuiltin
  <2>2. mem.nodes[n].status = "RUNNING"
    BY <2>1 DEF RunInvariant
  <2>3. Advances(mem, mem') /\ mem'.gates = mem.gates
    BY <1>t, <2>1, <2>2, CompleteAttemptAdvances, CompleteAttemptGates
  <2> QED
    BY <2>1, <2>3, DenialWorks DEF SameDecisions
<1> QED
  BY <1>2, <1>3, <1>4, <1>5, <1>6, <1>7 DEF VisitNode, n

\* The engine's other steps.
LEMMA DenialStep ==
  TypeOK /\ RunInvariant /\ DenialInvariant /\ TypeOK' /\ RunInvariant' /\ Step => DenialInvariant'
<1> SUFFICES ASSUME TypeOK, RunInvariant, DenialInvariant, TypeOK', RunInvariant', Step PROVE DenialInvariant'
  OBVIOUS
<1>t. mem \in Run /\ Coherent(mem)
  BY DEF TypeOK, RunInvariant
<1>1. CASE RefreshNode
  <2>1. /\ disk' = disk /\ cursor \in 1..N /\ N \in Nat
        /\ mem' = [mem EXCEPT !.nodes[Order[cursor]] = Refreshed(mem, Order[cursor])]
    BY <1>1, CurrentIsNode DEF RefreshNode, TypeOK, Current
  <2>2. Order[cursor] \in Nodes /\ RefreshedAt(mem, mem', Order[cursor])
    BY <2>1, CurrentIsNode DEF RefreshedAt
  <2>3. Advances(mem, mem')
    BY <1>t, <2>2, RefreshedAdvances
  <2>4. mem'.gates = mem.gates
    BY <1>t, <2>1 DEF Run
  <2> QED
    BY <2>1, <2>3, <2>4, DenialWorks DEF SameDecisions
<1>2. CASE BeginPass \/ PassOver \/ StopOnBudget \/ EndPass \/ Attest
  <2>1. disk' = disk /\ mem' = mem
    BY <1>2 DEF BeginPass, PassOver, StopOnBudget, EndPass, Attest
  <2> QED
    BY <2>1 DEF DenialInvariant, DenialsCarriedOut
<1>3. CASE VisitNode
  BY <1>3, DenialVisit
<1>4. CASE WriteAhead \/ Save
  <2>1. disk' = mem /\ mem' = disk'
    BY <1>4 DEF WriteAhead, Save, Release
  <2> QED
    BY <2>1, DenialSaved
<1>5. CASE Settle
  <2>1. disk' = disk /\ mem' = Settled(mem, exhausted)
    BY <1>5 DEF Settle
  <2>2. mem'.gates = mem.gates /\ mem'.nodes = mem.nodes
    BY <1>t, <2>1 DEF Settled, Run
  <2> QED
    BY <2>1, <2>2, SameNodesAdvance, DenialWorks DEF SameDecisions
<1>6. CASE RecordCreation
  BY <1>6, DenialSaved DEF RecordCreation, Release
<1> QED
  BY <1>1, <1>2, <1>3, <1>4, <1>5, <1>6 DEF Step

\* A denied plan or gate is carried out wherever it is recorded, in memory and on disk:
\* the run is cancelled, the node has failed.
THEOREM DenialsAreCarriedOut == Spec => []DenialsCarriedOut /\ DenialsStand
<1>1. Init => DenialInvariant
  <2> SUFFICES ASSUME Init PROVE DenialInvariant
    OBVIOUS
  <2>1. mem = disk /\ disk.plan # "DENIED" /\ \A g \in Gates : disk.gates[g].decision # "DENIED"
    BY DEF Init, NewRun
  <2> QED
    BY <2>1 DEF DenialInvariant, DenialsCarriedOut, CarriedOut
<1>2. TypeOK /\ RunInvariant /\ TypeOK' /\ RunInvariant' /\ DenialInvariant /\ [Next]_vars => DenialInvariant'
  <2> SUFFICES ASSUME TypeOK, RunInvariant, TypeOK', RunInvariant', DenialInvariant, [Next]_vars
               PROVE  DenialInvariant'
    OBVIOUS
  <2>1. CASE Crash
    BY <2>1, DenialSaved DEF Crash, Release
  <2>2. CASE Reconfigure \/ UNCHANGED vars
    <3>1. disk' = disk /\ mem' = mem
      BY <2>2 DEF Reconfigure, vars
    <3> QED
      BY <3>1 DEF DenialInvariant, DenialsCarriedOut
  <2> QED
    BY <2>1, <2>2, DenialRequest, DenialStep DEF Next
<1>3. DenialInvariant => DenialsCarriedOut
  BY DEF DenialInvariant
<1>4. TypeOK /\ DenialInvariant /\ [Next]_vars =>
        [\A g \in Gates : disk.gates[g].decision = "DENIED" => disk'.gates[g] = disk.gates[g]]_vars
  <2> SUFFICES ASSUME DenialInvariant, Next
               PROVE  \A g \in Gates : disk.gates[g].decision = "DENIED" => disk'.gates[g] = disk.gates[g]
    OBVIOUS
  <2>1. disk' \in {disk, mem}
    BY DEF Next, Request, DecidePlan, DecideGate, Submit, RetryNode, Execute, Resume, Cancel, Verify, Crash,
       Reconfigure, Step, RefreshNode, BeginPass, PassOver, StopOnBudget, VisitNode, HoldForApproval, RefuseNode,
       ExecutorMissing, StartNode, DeferNode, RunBuiltin, WriteAhead, EndPass, Settle, Save, Attest, RecordCreation
  <2> QED
    BY <2>1 DEF DenialInvariant
<1>5. Spec => []DenialInvariant
  BY <1>1, <1>2, TypeCorrect, InvariantHolds, PTL DEF Spec
<1> QED
  BY <1>3, <1>4, <1>5, TypeCorrect, PTL DEF Spec, DenialsStand
=============================================================================
