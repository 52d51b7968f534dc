------------------------------ MODULE RunEngine ------------------------------
(***************************************************************************)
(* One run of ge_runtime/engine.py: create, and the operator's requests    *)
(* (decide, execute, submit, resume, retry_node, cancel, verify), each     *)
(* carried out under the run's lock as a sequence of steps between durable *)
(* writes, and a process that may die between any two of them.             *)
(*                                                                         *)
(* disk is state.json, trace the set of trace events; mem is the copy of   *)
(* the state an operation has loaded and edits.  The lock makes operations *)
(* on one run follow each other, so pc is the place reached by the one in  *)
(* progress and "idle" when there is none; mem then equals disk.           *)
(*                                                                         *)
(* The first state is inside create, between the save of the new run and   *)
(* its first event (create).  Each other operation loads, checks and       *)
(* applies its decision in one step, then goes through _advance (refresh,  *)
(* visit, ahead, call), _settle (resettle) and _save (save).               *)
(***************************************************************************)
EXTENDS RunRecord

CONSTANTS
  Requests,      \* the operations the operator uses in this instance
  MaxSteps,      \* max_steps: attempts one operation may start
  MaxCrashes,    \* bound on process deaths
  MaxReconfigs   \* bound on changes of disabled_executors

ASSUME BoundAssumption ==
  /\ Requests \subseteq {"decide", "execute", "submit", "resume", "retry", "cancel", "verify"}
  /\ MaxSteps \in Nat /\ MaxSteps >= 1
  /\ MaxCrashes \in Nat /\ MaxReconfigs \in Nat

VARIABLES
  disk,        \* the run state on disk
  trace,       \* events appended to trace.jsonl (those the properties use)
  receipt,     \* verdict of the last receipt.json
  mem,         \* the run state of the operation in progress
  pc,          \* where it is
  cursor,      \* position in Order of its current loop
  progress,    \* the progress flag of _advance
  left,        \* steps left in its budget
  exhausted,   \* state["budget_exhausted"]
  enabled,     \* executors not disabled by the configuration
  crashes, reconfigs,   \* bounds
  authorised,  \* history: nodes whose next start the graph or the operator ordered
  replayed     \* history: nodes whose executor was invoked without such an order

loop == <<cursor, progress, left, exhausted>>
env  == <<enabled, crashes, reconfigs>>
vars == <<disk, trace, receipt, mem, pc, loop, env, authorised, replayed>>

PCs == {"idle", "create", "refresh", "visit", "ahead", "call", "resettle", "save", "attest"}

N == Len(Order)
Current == Order[cursor]

-----------------------------------------------------------------------------
(* Creation: the state is saved, its event comes after (RecordCreation).   *)

Init ==
  /\ disk \in {NewRun("DRAFT", "none"), NewRun("APPROVED", "NOT_REQUIRED")}
  /\ mem = disk /\ trace = {} /\ receipt = "none" /\ pc = "create"
  /\ cursor = 1 /\ progress = FALSE /\ left = 0 /\ exhausted = FALSE
  /\ enabled = Executors /\ crashes = 0 /\ reconfigs = 0
  /\ authorised = Nodes /\ replayed = {}

-----------------------------------------------------------------------------
(* Frames shared by the operations.                                        *)

Requested(op) == op \in Requests /\ pc = "idle"

\* The executors of all unfinished nodes are available (_preflight_executors).
Preflight(r) == \A n \in Nodes : Open(r, n) => Executor[n] \in enabled

BeginAdvance ==
  /\ pc' = "refresh" /\ cursor' = 1 /\ progress' = FALSE
  /\ left' = MaxSteps /\ exhausted' = FALSE

BeginSettle ==
  /\ pc' = "resettle" /\ cursor' = 1 /\ UNCHANGED <<progress, left, exhausted>>

\* Leave the operation with what is on disk: mem is discarded.
Release ==
  /\ mem' = disk' /\ pc' = "idle"
  /\ cursor' = 1 /\ progress' = FALSE /\ left' = 0 /\ exhausted' = FALSE

\* The second write of create.
RecordCreation ==
  /\ pc = "create"
  /\ trace' = trace \cup {<<"run.created">>}
  /\ disk' = disk /\ Release
  /\ UNCHANGED <<receipt, env, authorised, replayed>>

\* The trace event of a node's new status, if it has one.
StatusEvent(r, n) ==
  CASE r.nodes[n].status = "SUCCEEDED" -> {<<"node.succeeded", n, r.nodes[n].attempts>>}
    [] r.nodes[n].status = "FAILED" -> {<<"node.failed", n>>}
    [] OTHER -> {}

-----------------------------------------------------------------------------
(* decide                                                                  *)

DecidePlan(decision) ==
  /\ Requested("decide") /\ disk.status = "DRAFT"
  /\ mem' = IF decision = "APPROVED" THEN [disk EXCEPT !.status = "APPROVED", !.plan = decision]
            ELSE [SkipOpenNodes(disk) EXCEPT !.status = "CANCELLED", !.plan = decision]
  /\ trace' = trace \cup {<<"approval.decided", "plan", decision>>}
  /\ pc' = "save"
  /\ UNCHANGED <<disk, receipt, loop, env, authorised, replayed>>

\* What an approval or a denial of g does to its node.
GateDecided(r, g, decision) ==
  LET n == GateNode[g]
      decided == Decided(r, g, decision)
  IN  CASE decision = "DENIED" -> FailNode(decided, n)
        [] decision = "APPROVED" /\ PendingGates(decided, n, GateType[g]) # {} -> decided
        [] decision = "APPROVED" /\ PendingGates(decided, n, GateType[g]) = {} /\ GateType[g] = "approval" ->
             [decided EXCEPT !.nodes[n].wait = "none"]
        [] decision = "APPROVED" /\ PendingGates(decided, n, GateType[g]) = {} /\ GateType[g] = "review" ->
             [decided EXCEPT !.nodes[n].wait = "none", !.nodes[n].status = "SUCCEEDED"]

AwaitsDecision_AnyTime(r, g) == r.status \notin RunTerminal /\ r.status # "DRAFT"

\* The gate must be the one its node is waiting on.
AwaitsDecision(r, g) ==
  /\ r.status \notin RunTerminal
  /\ r.nodes[GateNode[g]].wait = GateType[g]
  /\ IsPendingGate(r, g)

DecideGate(g, decision) ==
  /\ Requested("decide") /\ AwaitsDecision(disk, g)
  /\ mem' = GateDecided(disk, g, decision)
  /\ trace' = trace \cup {<<"approval.decided", g, decision>>} \cup StatusEvent(mem', GateNode[g])
  /\ IF disk.status \in {"RUNNING", "WAITING"} THEN BeginAdvance ELSE BeginSettle
  /\ UNCHANGED <<disk, receipt, env, authorised, replayed>>

-----------------------------------------------------------------------------
(* execute, submit, resume, retry_node, cancel                             *)

Execute ==
  /\ Requested("execute") /\ disk.status \notin RunTerminal \cup {"DRAFT"} /\ Preflight(disk)
  /\ mem' = [disk EXCEPT !.status = "RUNNING"]
  /\ BeginAdvance
  /\ UNCHANGED <<disk, trace, receipt, env, authorised, replayed>>

AwaitsSubmission(r, n) ==
  /\ r.status \notin RunTerminal
  /\ r.nodes[n].status = "RUNNING" /\ r.nodes[n].wait = "submission"

Submit(n, result) ==
  /\ Requested("submit") /\ AwaitsSubmission(disk, n)
  /\ mem' = CompleteAttempt([disk EXCEPT !.nodes[n].wait = "none"], n, result)
  /\ trace' = trace \cup StatusEvent(mem', n)
  /\ BeginAdvance
  /\ UNCHANGED <<disk, receipt, env, authorised, replayed>>

Resume ==
  /\ Requested("resume") /\ disk.status \notin RunTerminal
  /\ IF disk.status = "DRAFT"
     THEN mem' = Recovered(disk) /\ pc' = "save" /\ UNCHANGED loop
     ELSE Preflight(disk) /\ mem' = [Recovered(disk) EXCEPT !.status = "RUNNING"]
          /\ BeginAdvance
  /\ UNCHANGED <<disk, trace, receipt, env, authorised, replayed>>

\* No check that the run is still open: only the node's hold is looked at.
RetryNode(n) ==
  /\ Requested("retry") /\ disk.nodes[n].wait = "attention"
  /\ Preflight(disk)
  /\ mem' = [disk EXCEPT !.status = "RUNNING", !.nodes[n].wait = "none", !.nodes[n].status = "READY"]
  /\ authorised' = authorised \cup {n}
  /\ BeginAdvance
  /\ UNCHANGED <<disk, trace, receipt, env, replayed>>

Cancel_Always ==
  /\ Requested("cancel")
  /\ mem' = [SkipOpenNodes(disk) EXCEPT !.status = "CANCELLED", !.holds = {}]
  /\ trace' = trace \cup {<<"run.cancelled">>}
  /\ pc' = "save"
  /\ UNCHANGED <<disk, receipt, loop, env, authorised, replayed>>

Cancel ==
  /\ Requested("cancel") /\ disk.status \notin RunTerminal
  /\ mem' = [SkipOpenNodes(disk) EXCEPT !.status = "CANCELLED", !.holds = {}]
  /\ trace' = trace \cup {<<"run.cancelled">>}
  /\ pc' = "save"
  /\ UNCHANGED <<disk, receipt, loop, env, authorised, replayed>>

-----------------------------------------------------------------------------
(* verify: receipt, trace event, state.                                    *)

Verify ==
  /\ Requested("verify")
  /\ receipt' = IF Verifies(disk) THEN "VERIFIED" ELSE "NOT_VERIFIED"
  /\ mem' = [disk EXCEPT !.verification = receipt']
  /\ pc' = "attest"
  /\ UNCHANGED <<disk, trace, loop, env, authorised, replayed>>

Attest ==
  /\ pc = "attest" /\ pc' = "save"
  /\ trace' = trace \cup {<<"run.verified", mem.verification>>}
  /\ UNCHANGED <<disk, receipt, mem, loop, env, authorised, replayed>>

-----------------------------------------------------------------------------
(* _advance: a refresh of readiness, then a visit to every node in order,  *)
(* again as long as the last pass made progress.                           *)

\* One node of _refresh_readiness, called by _advance and again by _settle.
RefreshNode ==
  /\ pc \in {"refresh", "resettle"} /\ cursor <= N
  /\ mem' = [mem EXCEPT !.nodes[Current] = Refreshed(mem, Current)]
  /\ cursor' = cursor + 1
  /\ UNCHANGED <<disk, trace, receipt, pc, progress, left, exhausted, env, authorised, replayed>>

BeginPass ==
  /\ pc = "refresh" /\ cursor > N
  /\ pc' = "visit" /\ cursor' = 1
  /\ UNCHANGED <<disk, trace, receipt, mem, progress, left, exhausted, env, authorised, replayed>>

Visitable(n) == mem.nodes[n].status = "READY" /\ mem.nodes[n].wait # "attention"

Visiting == pc = "visit" /\ cursor <= N

PassOver ==
  /\ Visiting /\ ~Visitable(Current)
  /\ cursor' = cursor + 1
  /\ UNCHANGED <<disk, trace, receipt, mem, pc, progress, left, exhausted, env, authorised, replayed>>

\* Visiting a READY node: the budget is looked at before anything else.
AtNode == Visiting /\ Visitable(Current) /\ left > 0

StopOnBudget ==
  /\ Visiting /\ Visitable(Current) /\ left = 0
  /\ exhausted' = TRUE /\ pc' = "resettle" /\ cursor' = 1
  /\ UNCHANGED <<disk, trace, receipt, mem, progress, left, env, authorised, replayed>>

HoldForApproval_CountingProgress(n) ==
  /\ AtNode /\ ~Denied(mem, n) /\ PendingGates(mem, n, "approval") # {}
  /\ mem' = [mem EXCEPT !.nodes[n].wait = "approval"]
  /\ cursor' = cursor + 1 /\ progress' = TRUE
  /\ UNCHANGED <<disk, trace, receipt, pc, left, exhausted, env, authorised, replayed>>

HoldForApproval(n) ==
  /\ AtNode /\ ~Denied(mem, n) /\ PendingGates(mem, n, "approval") # {}
  /\ mem' = [mem EXCEPT !.nodes[n].wait = "approval"]
  /\ cursor' = cursor + 1
  /\ UNCHANGED <<disk, trace, receipt, pc, progress, left, exhausted, env, authorised, replayed>>

Cleared(n) == ~Denied(mem, n) /\ PendingGates(mem, n, "approval") = {}

\* A denied gate or inputs that violate their contract end the node unstarted.
RefuseNode(n) ==
  /\ AtNode /\ (Denied(mem, n) \/ (Cleared(n) /\ n \in Mistyped))
  /\ mem' = FailNode([mem EXCEPT !.nodes[n].wait = "none"], n)
  /\ trace' = trace \cup StatusEvent(mem', n)
  /\ cursor' = cursor + 1 /\ progress' = TRUE
  /\ UNCHANGED <<disk, receipt, pc, left, exhausted, env, authorised, replayed>>

\* The executor was disabled since the run last checked: the operation raises
\* and what it held in memory is lost, as in a crash.
ExecutorMissing(n) ==
  /\ AtNode /\ Cleared(n) /\ Executor[n] \notin enabled
  /\ disk' = disk /\ Release
  /\ UNCHANGED <<trace, receipt, env, authorised, replayed>>

StartNode_Unsaved(n) ==
  /\ AtNode /\ Cleared(n) /\ Executor[n] \in enabled
  /\ mem' = Started(mem, n)
  /\ trace' = trace \cup {<<"node.started", n, mem'.nodes[n].attempts>>}
  /\ left' = left - 1 /\ pc' = "call"
  /\ UNCHANGED <<disk, receipt, cursor, progress, exhausted, env, authorised, replayed>>

StartNode(n) ==
  /\ AtNode /\ Cleared(n) /\ Executor[n] \in enabled
  /\ mem' = Started(mem, n)
  /\ trace' = trace \cup {<<"node.started", n, mem'.nodes[n].attempts>>}
  /\ left' = left - 1 /\ pc' = "ahead"
  /\ UNCHANGED <<disk, receipt, cursor, progress, exhausted, env, authorised, replayed>>

\* The write-ahead save: the attempt is durable before its executor is called.
WriteAhead ==
  /\ pc = "ahead" /\ pc' = "call"
  /\ disk' = mem
  /\ UNCHANGED <<trace, receipt, mem, loop, env, authorised, replayed>>

\* The order to run n is spent by invoking its executor.
Invoke(n) ==
  /\ authorised' = authorised \ {n}
  /\ replayed' = IF n \in authorised THEN replayed ELSE replayed \cup {n}
  /\ pc' = "visit" /\ cursor' = cursor + 1 /\ progress' = TRUE

\* A deferred executor: the work order is open to whoever does agent work.
DeferNode(n) ==
  /\ pc = "call" /\ Executor[n] = "agent"
  /\ mem' = [mem EXCEPT !.nodes[n].wait = "submission"]
  /\ Invoke(n)
  /\ UNCHANGED <<disk, trace, receipt, left, exhausted, env>>

\* The builtin executor runs and returns (an exception counts as a
\* NON_RETRYABLE_FAILURE); dying under it is Crash at "call" or after this step.
RunBuiltin(n, result) ==
  /\ pc = "call" /\ Executor[n] = "builtin"
  /\ mem' = CompleteAttempt(mem, n, result)
  /\ trace' = trace \cup StatusEvent(mem', n)
  /\ Invoke(n)
  /\ UNCHANGED <<disk, receipt, left, exhausted, env>>

EndPass ==
  /\ pc = "visit" /\ cursor > N
  /\ IF progress THEN pc' = "refresh" ELSE pc' = "resettle"
  /\ cursor' = 1 /\ progress' = FALSE
  /\ UNCHANGED <<disk, trace, receipt, mem, left, exhausted, env, authorised, replayed>>

-----------------------------------------------------------------------------
(* _settle and _save                                                       *)

FinishedEvent(r) == IF r.status \in {"SUCCEEDED", "FAILED"} THEN {<<"run.finished", r.status>>} ELSE {}

Settle_Silently ==
  /\ pc = "resettle" /\ cursor > N
  /\ mem' = Settled(mem, exhausted)
  /\ pc' = "save"
  /\ UNCHANGED <<disk, trace, receipt, loop, env, authorised, replayed>>

Settle ==
  /\ pc = "resettle" /\ cursor > N
  /\ mem' = Settled(mem, exhausted)
  /\ trace' = trace \cup FinishedEvent(mem')
  /\ pc' = "save"
  /\ UNCHANGED <<disk, receipt, loop, env, authorised, replayed>>

Save ==
  /\ pc = "save"
  /\ disk' = mem /\ Release
  /\ UNCHANGED <<trace, receipt, env, authorised, replayed>>

-----------------------------------------------------------------------------
(* The environment.                                                        *)

\* The process dies; the operating system drops the lock with it.
Crash ==
  /\ pc # "idle" /\ crashes < MaxCrashes
  /\ crashes' = crashes + 1
  /\ disk' = disk /\ Release
  /\ UNCHANGED <<trace, receipt, enabled, reconfigs, authorised, replayed>>

\* disabled_executors is edited; every operation reads it afresh when it begins.
Reconfigure ==
  /\ pc = "idle" /\ reconfigs < MaxReconfigs
  /\ enabled' \in SUBSET Executors \ {enabled} /\ reconfigs' = reconfigs + 1
  /\ UNCHANGED <<disk, trace, receipt, mem, pc, loop, crashes, authorised, replayed>>

Request ==
  \/ \E decision \in {"APPROVED", "DENIED"} :
       DecidePlan(decision) \/ \E g \in Gates : DecideGate(g, decision)
  \/ \E n \in Nodes, result \in Results : Submit(n, result)
  \/ \E n \in Nodes : RetryNode(n)
  \/ Execute \/ Resume \/ Cancel \/ Verify

VisitNode ==
  \/ HoldForApproval(Current) \/ RefuseNode(Current) \/ ExecutorMissing(Current)
  \/ StartNode(Current) \/ DeferNode(Current)
  \/ \E result \in Results : RunBuiltin(Current, result)

Step ==
  \/ RecordCreation \/ RefreshNode \/ BeginPass \/ PassOver \/ StopOnBudget \/ VisitNode \/ WriteAhead
  \/ EndPass \/ Settle \/ Save \/ Attest

Next == Request \/ Step \/ Crash \/ Reconfigure

Spec == Init /\ [][Next]_vars

\* An operation that holds the lock runs to its end: the engine's loops wait for
\* nothing.  Nothing is assumed of the operator, of crashes or of the configuration.
FairSpec == Spec /\ WF_vars(Step)
=============================================================================
