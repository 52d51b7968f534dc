----------------------------- MODULE RunPromises -----------------------------
(***************************************************************************)
(* What a run promises its operator, on the state that survives a crash:   *)
(* properties of RunEngine.                                                *)
(***************************************************************************)
EXTENDS RunEngine, FiniteSets

\* The variables range over what the code can store in them.
TypeOK ==
  /\ disk \in Run /\ mem \in Run
  /\ receipt \in {"none", "VERIFIED", "NOT_VERIFIED"}
  /\ pc \in PCs /\ cursor \in 1..(N + 1) /\ (pc \in {"ahead", "call"} => cursor <= N)
  /\ progress \in BOOLEAN /\ left \in Nat /\ exhausted \in BOOLEAN
  /\ enabled \subseteq Executors
  /\ crashes \in Nat /\ reconfigs \in Nat
  /\ authorised \subseteq Nodes /\ replayed \subseteq Nodes

\* A node was started only with its plan approved, every dependency succeeded and
\* every approval gate approved, however the run was interrupted and recovered.
StartedOnlyWhenCleared ==
  \A n \in Nodes : disk.nodes[n].attempts > 0 =>
    /\ PlanCleared(disk)
    /\ \A d \in DependsOn[n] : disk.nodes[d].status = "SUCCEEDED"
    /\ \A g \in GatesOf(n, "approval") : disk.gates[g].decision = "APPROVED"

\* When an executor is invoked the attempt it works on is on disk as RUNNING.
WrittenAhead ==
  pc = "call" => /\ disk.nodes[Current].status = "RUNNING"
                 /\ disk.nodes[Current].attempts = mem.nodes[Current].attempts

\* A non-idempotent or side-effecting node is invoked at most once per order of the
\* operator: crashes, resumes and failing attempts never replay it.
NoAutoReplay == replayed \cap Unsafe = {}

\* A finished run is finished for good, and so is a finished node: no late decision,
\* submission, retry or recovery moves them.
FinalStays ==
  [][/\ disk.status \in RunTerminal => /\ disk'.status = disk.status
                                       /\ disk'.nodes = disk.nodes
     /\ \A n \in Nodes : disk.nodes[n].status \in NodeTerminal => disk'.nodes[n] = disk.nodes[n]]_disk

\* A finished run has no open or waiting node and no hold, and its verdict is that of
\* its nodes: all of them succeeded, or one of them failed.
EndsTruthfully(r) ==
  r.status \in RunTerminal =>
    /\ r.holds = {}
    /\ \A n \in Nodes : ~Open(r, n) /\ r.nodes[n].wait = "none"
    /\ r.status = "SUCCEEDED" => \A n \in Nodes : r.nodes[n].status = "SUCCEEDED"
    /\ r.status = "FAILED" => \E n \in Nodes : r.nodes[n].status = "FAILED"

VerdictTruthful == EndsTruthfully(disk)

\* Every node that ended without running is accounted for: BLOCKED below a node that
\* did not succeed, SKIPPED because a failure stopped the run or it was cancelled.
Explained(r) ==
  \A n \in Nodes :
    /\ r.nodes[n].status = "BLOCKED" =>
         \E d \in DependsOn[n] : r.nodes[d].status \in {"FAILED", "BLOCKED", "SKIPPED"}
    /\ r.nodes[n].status = "SKIPPED" =>
         \/ r.status = "CANCELLED"
         \/ r.stopped /\ \E m \in StopOnFailure : r.nodes[m].status = "FAILED"

UnrunExplained == Explained(disk)

\* What settlement (finished runs) and verification demand agree: a run the engine
\* calls SUCCEEDED always passes verify, with every gate bound to the stored outputs.
SucceededRunVerifies == disk.status = "SUCCEEDED" => Verifies(disk)

\* A positive receipt is never ahead of the run it certifies.
ReceiptTruthful ==
  receipt = "VERIFIED" \/ disk.verification = "VERIFIED" => Verifies(disk)

\* An idle unfinished run says what it waits for.  It reports a deadlock only while a
\* node is interrupted (then resume re-queues or holds it), never for any other reason.
SaysWhy(r) ==
  r.status = "WAITING" =>
    /\ r.holds # {}
    /\ <<"deadlocked">> \in r.holds => \E n \in Nodes : Interrupted(r, n)

WaitExplained == pc = "idle" => SaysWhy(disk)

\* What an idle WAITING run lists is what its nodes wait for, no more and no less, unless an
\* attempt was interrupted: the write-ahead save keeps the holds of the settlement before,
\* and only resume or the next settlement makes them current again (_settle, _save).
HoldsMatch(r) ==
  r.status = "WAITING" /\ (\A n \in Nodes : ~Interrupted(r, n)) =>
    \A n \in Nodes, kind \in Waits \ {"none"} :
      <<kind, n>> \in r.holds <=> r.nodes[n].wait = kind

HoldsCurrent == pc = "idle" => HoldsMatch(disk)

\* A node is attempted beyond max_attempts only where an attempt was cut short, by a crash or
\* by an operation that raised on a disabled executor: resume re-queues such attempts without
\* counting them, and retry_node orders one more (resume, retry_node, _complete_attempt).
AttemptsAccounted ==
  \A n \in Nodes : disk.nodes[n].attempts <= MaxAttempts[n] + crashes + reconfigs

\* An operation is over after a bounded number of steps: a further pass of _advance costs an
\* attempt of the budget or ends a node, and nothing else makes the loop go round (the
\* progress flag of _advance, max_steps).
OpenNodes(r) == {n \in Nodes : Open(r, n)}
PassSteps    == 4 * N + 2
Passes       == left + Cardinality(OpenNodes(mem)) + (IF progress \/ pc \in {"ahead", "call"} THEN 1 ELSE 0)

StepsInPass ==
  CASE pc = "refresh" -> 4 * N + 3 - cursor
    [] pc = "visit"   -> 3 * (N + 1 - cursor) + 1
    [] pc = "ahead"   -> 3 * (N + 1 - cursor)
    [] pc = "call"    -> 3 * (N + 1 - cursor) - 1
    [] OTHER          -> 0

StepsToEnd ==
  CASE pc = "idle"     -> 0
    [] pc \in {"create", "save"} -> 1
    [] pc = "attest"   -> 2
    [] pc = "resettle" -> N + 3 - cursor
    [] OTHER           -> N + 2 + StepsInPass + PassSteps * Passes

OperationsBounded ==
  [][/\ pc = "idle" /\ pc' # "idle" => StepsToEnd' <= N + 2 + PassSteps * (MaxSteps + N + 1)
     /\ Step => StepsToEnd' \in 0..(StepsToEnd - 1)]_vars

\* The trace accounts for the state: whatever was decided or happened to a node, a gate or
\* the run since its creation has its event in the trace, wherever a crash fell: operations
\* append before they save.
Recorded(r, events) ==
  /\ \A n \in Nodes :
       /\ \A a \in 1..r.nodes[n].attempts : <<"node.started", n, a>> \in events
       /\ StatusEvent(r, n) \subseteq events
  /\ \A g \in Gates : r.gates[g].decision # "none" =>
       <<"approval.decided", g, r.gates[g].decision>> \in events
  /\ r.plan \in {"APPROVED", "DENIED"} => <<"approval.decided", "plan", r.plan>> \in events
  /\ FinishedEvent(r) \subseteq events
  /\ r.status = "CANCELLED" => <<"run.cancelled">> \in events \/ r.plan = "DENIED"

\* create alone saves first: run.created follows at once, or the process died inside create.
TraceCoversState ==
  /\ Recorded(disk, trace)
  /\ <<"run.created">> \in trace \/ pc = "create" \/ crashes > 0

\* Every operation ends and lets go of the run's lock: the advance loop terminates.
OperationEnds == (pc # "idle") ~> (pc = "idle")

-----------------------------------------------------------------------------
(* The inductive invariant behind StartedOnlyWhenCleared, WrittenAhead and *)
(* NoAutoReplay.                                                           *)

\* A node of r has been given leave to start.
Begun(r, n) == r.nodes[n].status \in {"RUNNING", "SUCCEEDED"} \/ r.nodes[n].attempts > 0

\* What every run record the engine handles satisfies, in memory and on disk.
Coherent(r) ==
  /\ r.status = "DRAFT" => r.plan = "none"
  /\ r.status \notin {"DRAFT", "CANCELLED"} => PlanCleared(r)
  /\ \A g \in Gates : GateType[g] = "approval" => r.gates[g].binding = NoOutput
  /\ \A n \in Nodes :
       /\ r.nodes[n].wait = "approval" => r.nodes[n].status = "READY"
       /\ r.nodes[n].wait \in {"submission", "review", "attention"} => r.nodes[n].status = "RUNNING"
       /\ Begun(r, n) \/ r.nodes[n].status = "READY" =>
            PlanCleared(r) /\ \A d \in DependsOn[n] : r.nodes[d].status = "SUCCEEDED"
       /\ Begun(r, n) => \A g \in GatesOf(n, "approval") : r.gates[g].decision = "APPROVED"

\* A node that may yet be started of the engine's own accord has an order to spend.
OrderStanding(r) ==
  \A n \in Unsafe : r.nodes[n].status \in {"PENDING", "READY"} => n \in authorised

\* The invariant: coherence of both records, the place the operation has reached, and
\* the orders of unsafe nodes.
RunInvariant ==
  /\ Coherent(disk) /\ Coherent(mem)
  /\ OrderStanding(disk) /\ OrderStanding(mem)
  /\ pc \in {"idle", "create"} => mem = disk
  /\ pc \notin {"idle", "create", "save", "attest"} => mem.status \notin {"DRAFT", "CANCELLED"}
  /\ pc \in {"ahead", "call"} => /\ mem.nodes[Current].status = "RUNNING"
                                 /\ mem.nodes[Current].wait = "none"
                                 /\ Current \in Unsafe => Current \in authorised
  /\ pc = "call" => disk = mem
  /\ replayed \cap Unsafe = {}

-----------------------------------------------------------------------------
(* The inductive invariant behind the promises about how runs and nodes    *)
(* end: FinalStays, VerdictTruthful, UnrunExplained, SucceededRunVerifies, *)
(* ReceiptTruthful, HoldsCurrent and TraceCoversState.                     *)

\* A node that did not run traces back to one that failed.
FailureBehind(r) ==
  /\ r.stopped => \E m \in StopOnFailure : r.nodes[m].status = "FAILED"
  /\ (\E n \in Nodes : r.nodes[n].status = "BLOCKED") => \E m \in Nodes : r.nodes[m].status = "FAILED"

\* Outputs under review or accepted are valid, and accepted under the gates' approval.
Delivered(r) ==
  \A n \in Nodes :
    /\ r.nodes[n].status = "SUCCEEDED" \/ r.nodes[n].wait = "review" => r.nodes[n].outputs \in ValidOutputs
    /\ r.nodes[n].status = "SUCCEEDED" => \A g \in Gates : GateNode[g] = n => Approved(r, g)

\* What every run record, in memory and on disk, satisfies beside Coherent.
Sound(r) ==
  /\ Explained(r) /\ FailureBehind(r) /\ EndsTruthfully(r) /\ Delivered(r) /\ Recorded(r, trace)
  /\ r.status = "DRAFT" => r.holds = {}
  /\ r.verification = "VERIFIED" => Verifies(r)

\* The invariant: both records are sound; memory has moved on from the disk without
\* touching what ended there; only verify works on a finished run.
OutcomeInvariant ==
  /\ Sound(disk) /\ Sound(mem)
  /\ \A n \in Nodes : ~Open(disk, n) => mem.nodes[n] = disk.nodes[n]
  /\ disk.status \in RunTerminal => /\ pc \in {"idle", "create", "attest", "save"}
                                    /\ mem = [disk EXCEPT !.verification = mem.verification]
  /\ pc \notin {"idle", "create", "save", "attest"} => mem.status \notin RunTerminal
  /\ receipt = "VERIFIED" => Verifies(disk)
  /\ HoldsMatch(disk) /\ (pc \in {"save", "attest"} => HoldsMatch(mem))

-----------------------------------------------------------------------------
(* The inductive invariant behind WaitExplained: how far the loops of an   *)
(* operation have got, so that what _settle finds open is waiting.         *)

\* A PENDING node has a dependency that did not succeed.
NotYet(r, n) == r.nodes[n].status = "PENDING" => ~DependenciesMet(r, n)

\* A READY node is held.
HeldIfReady(r, n) == r.nodes[n].status = "READY" => r.nodes[n].wait # "none"

\* The node in place i is not PENDING, or an earlier one has begun or may.
BehindAnother(r, i) ==
  r.nodes[Order[i]].status = "PENDING" =>
    \E j \in 1..(i - 1) : r.nodes[Order[j]].status \in {"READY", "RUNNING"}

\* A refresh leaves no PENDING node that could be READY; a pass that makes no progress leaves
\* no READY node that is not held; so the refresh of _settle finds nothing to make READY.
LoopInvariant ==
  /\ pc = "refresh" => \A i \in 1..(cursor - 1) : NotYet(mem, Order[i])
  /\ (pc = "visit" /\ ~progress) => /\ \A n \in Nodes : NotYet(mem, n)
                                   /\ \A i \in 1..(cursor - 1) : HeldIfReady(mem, Order[i])
  /\ (pc = "resettle" /\ ~exhausted) => \A n \in Nodes : NotYet(mem, n) /\ HeldIfReady(mem, n)
  /\ pc = "resettle" => \A i \in 1..(cursor - 1) : BehindAnother(mem, i)

\* Nothing waits before the first execute.
NothingWaits(r) == r.status = "APPROVED" => \A n \in Nodes : r.nodes[n].wait = "none"

WaitInvariant ==
  /\ SaysWhy(disk) /\ (pc \in {"save", "attest"} => SaysWhy(mem))
  /\ NothingWaits(disk) /\ NothingWaits(mem)
  /\ pc \notin {"idle", "create", "save", "attest"} => /\ mem.status \in {"RUNNING", "WAITING"}
                                                       /\ mem.status = "WAITING" => mem.holds # {}
  /\ LoopInvariant

-----------------------------------------------------------------------------
(* The inductive invariant behind AttemptsAccounted.                       *)

\* The attempts that crashes and changes of the configuration account for.  The last change
\* counts only once the executors are all available again: until then nothing is re-queued.
Slack == crashes + reconfigs - (IF Preflight(disk) THEN 0 ELSE 1)

\* What the next pass of _advance, or resume or retry_node before it, may start.
Startable(s)   == s.status \in {"PENDING", "READY"}
Requeueable(s) == s.status = "RUNNING" /\ s.wait \in {"none", "attention"}

AttemptsWithin(r, slack) ==
  \A n \in Nodes : /\ r.nodes[n].attempts <= MaxAttempts[n] + slack
                   /\ Startable(r.nodes[n]) => r.nodes[n].attempts < MaxAttempts[n] + slack

\* The invariant: attempts are within their bound, and one is left to every node that may
\* be started or, while the executors are available, re-queued.
AttemptInvariant ==
  /\ enabled = Executors \/ reconfigs > 0
  /\ AttemptsWithin(disk, Slack) /\ AttemptsWithin(mem, Slack)
  /\ Preflight(disk) => \A n \in Nodes :
       \/ pc \in {"ahead", "call"} /\ n = Current
       \/ Requeueable(mem.nodes[n]) => mem.nodes[n].attempts < MaxAttempts[n] + Slack

-----------------------------------------------------------------------------
(* What the documents say and the code does not keep.                      *)

\* "on_failure: stop skips remaining work": once such a failure is recorded no node
\* starts.  The pass that met the failure still starts the nodes that were READY.
StopSkipsRemaining ==
  [][mem.stopped => \A n \in Nodes : mem'.nodes[n].attempts <= mem.nodes[n].attempts]_mem

\* What the code keeps of it: an operation that ends on a stopped run leaves no node to start,
\* so that none starts later; only an attempt cut short can leave one on disk, which the next
\* operation skips (_refresh_readiness, called before every pass and again by _settle).
NothingToStart(r) == \A n \in Nodes : r.nodes[n].status \notin {"PENDING", "READY"}

StopSettled(r) == r.stopped /\ (\A n \in Nodes : ~Interrupted(r, n)) => NothingToStart(r)

StopLeavesNothing == StopSettled(disk)

\* The inductive invariant behind it: what a refresh has passed on a stopped run is not to
\* start, and no run is stopped before its plan is decided.
StopInvariant ==
  /\ StopSettled(disk) /\ (pc \in {"save", "attest"} => StopSettled(mem))
  /\ disk.status = "DRAFT" => ~disk.stopped
  /\ mem.status = "DRAFT" => ~mem.stopped
  /\ pc \in {"refresh", "resettle"} /\ mem.stopped =>
       \A i \in 1..(cursor - 1) : mem.nodes[Order[i]].status \notin {"PENDING", "READY"}

\* What is denied is carried out: the run whose plan was denied is cancelled, the node whose
\* gate was denied has failed (decide).  Decision and consequence are in one save, so that the
\* engine never meets a READY node with a denied gate, though _advance looks for one.
CarriedOut(r) ==
  /\ r.plan = "DENIED" => r.status = "CANCELLED"
  /\ \A g \in Gates : r.gates[g].decision = "DENIED" => r.nodes[GateNode[g]].status = "FAILED"

\* So it is on disk and in the memory of every operation.
DenialsCarriedOut == CarriedOut(disk) /\ CarriedOut(mem)

\* A denial is the last word on its gate: no later decision, submission, retry, recovery or
\* crash takes it back.
DenialsStand ==
  [][\A g \in Gates : disk.gates[g].decision = "DENIED" => disk'.gates[g] = disk.gates[g]]_vars

\* The inductive invariant behind both: no operation takes a denial back.
DenialInvariant ==
  /\ DenialsCarriedOut
  /\ \A g \in Gates : disk.gates[g].decision = "DENIED" => mem.gates[g] = disk.gates[g]
=============================================================================
