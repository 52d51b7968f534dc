# Graph Engineering: a verification project in TLA+

This directory models `hermes-graph-engineering` from the admission of a graph to the verification of
its run, with the host that drives it, the files it lives in and the installation it is loaded from.
TLC checks the models on small instances; TLAPS proves their main safety properties for every
instance. The code is under `src/src/` (packages `ge_runtime`, the engine, and `ge_hermes`, its Hermes plugin) and
`src/scripts/`.

## 1. The system

A *graph* is a list of nodes with dependencies, each executed by a pure `builtin` operation or by
an `agent` (work done outside, delivered later). Graphs carry governance: the operator approves
the plan, approval gates before and review gates after nodes; nodes with effects are never
repeated by the system itself. A *run* executes one graph; its whole state is in the profile's
directory, so that it survives the death of any process.

| Component | State | Operations | Modelled by |
|---|---|---|---|
| Graph specification (`spec.py`) | none: from YAML/JSON to an admitted graph | admit, find_cycle, ancestors, topological_order; admitted again at each load | `SpecAdmission`; what the engine assumes of it: `GraphSpec` |
| Contracts (`contracts.py`) | none | output contracts, success criteria | `Contracts` |
| Executors (`executors.py`) | none (the catalog knows what is disabled) | get, the builtin operations | `Contracts` (outputs), `RunEngine` (outcomes) |
| Run engine (`engine.py`, `states.py`) | one record per run: run, node and gate status, holds, verdict | create, decide, execute, submit, resume, retry_node, cancel, verify | `RunRecord`, `RunEngine`, `RunLifecycle`, `RunRefinement` |
| Run store (`store.py`, `_fs.py`, `trace_jsonl.py`) | `state.json`, `trace.jsonl`, `receipt.json`, `.lock` | lock, save, load, append_trace, read_trace, verify_trace | `RunStore`, `ExclusiveRegister`; the order of writes in `RunEngine` |
| Dispatcher, guard, service, host (`dispatch.py`, `guard.py`, `service.py`, `host.py`) | the lease in process memory; claims and releases in the trace | drive, claim, release, submit | `Dispatch` |
| Commands and tool (`commands.py`, `tool.py`) | none | operator commands; tool actions with their guards | `Dispatch` (who may start what, and when) |
| Installer (`scripts/install_plugin.py`) | the plugin directory and its backups | install, reinstall, uninstall, purge, rollback | `Installer` |
| Multi-profile loader (`resources/plugin_init.py.tmpl`) | the process's module table | import, reuse or refuse; reload | `ProfileLoader` |
| Analysis, templates, reports, adapter protocols, configuration parsing, checks | none | pure functions, I/O | not modelled (section 8) |

**How they interact.** Commands and tool actions build an engine from the current configuration
and call one operation on it. Every operation takes the run's lock (a thread lock and a lock file,
released by the operating system when the process dies), loads the state, admits the stored graph again, changes its copy in
memory, appends trace events as it goes and replaces `state.json` atomically: once before every
attempt (the write-ahead save) and once at its end. Only `create` saves first and appends its event (`run.created`) after. After `run` and `resume` the service may
*drive* the run: under a lease of the process it reads the state without the lock, claims the
first open work order by a trace event, has the host execute it and submits the result. The plugin
itself is a directory that the installer replaces by renames, and that a gateway may load for several
profiles into one process.

**What is hard.** A process may die between any two writes, so the state on disk lags behind memory
and behind the trace; recovery must tell what may be repeated. A pass over the graph changes what
the rest of the pass may do. Decisions, submissions and retries arrive in any order and late. Several
processes may drive the same run, and the drive reads without the lock, waits with a timeout and
may lose its host at any point. Writes and renames fail half-way, and so may undoing them. The same graph is walked
three times, and the same judgements are written twice, by code that must agree.

**What makes each component correct.**

- *Specification*: a cycle is reported exactly when there is one, and is one; what a node reads is there before it
  runs; ties go to the declaration; what is admitted is what the engine relies on, and is admitted again.
- *Contracts, executors*: what is booked met its contract and criteria; what was admitted cannot raise, and can be delivered.
- *Engine*: nothing starts before it is cleared; nothing with effects is repeated unasked; final is
  final; the verdict and the receipt are true; a waiting run says what it waits for; the trace is
  never behind the state, except between the two writes of `create`; every operation ends.
- *Dispatcher*: one worker per attempt of a node with effects, whoever drives; its result is booked
  on the attempt it worked on; the lease is not lost and not shared; a drive ends.
- *Store*: a reader sees the old or the new state and no other; no update is lost; a trace that verifies is complete;
  no error leaves a lock behind.
- *Installer, loader*: nothing is lost that rollback would not bring back; a failed install is undone, or what it replaced
  is kept as the newest backup; no half of a tree is found or kept; what is served is what is installed.

## 2. The modules

**Admission.** `SpecAdmission` is `admit`: `RejectStructure` and `AcceptStructure` normalise and apply the rules (`NodeErrors`, `GovernanceErrors`,
`GraphErrors`), then the loops and the recursion are steps: `StartVisit`, `PassRoot`, `Descend`, `SkipDependency`, `Retreat`, `ReportCycle`
and `SearchOver` for `find_cycle`, `AddAncestor`, `SkipAncestor` and `CheckInputs` for the input rules, `RejectExecutors` and
`AcceptExecutors` for the catalog, `TakeNext` for `topological_order`.
`Load` admits again what was stored. A field of the wrong shape is one defect, `malformed`. `AdmissionPromises` states what admission promises over
sets of nodes closed under dependency, apart from its loops, and instantiates `GraphSpec` with its result. `Readmission` states them of what is
stored, by an instance, for the second admission. `GraphSpec` declares the
admitted graph as constants; its assumptions are what the run engine relies on.

**Contracts.** `Contracts` follows one node from its declaration (`Admit`) through an attempt by a builtin
(`Execute`, with each operation) or by a submission (`Submit`) to `Complete` and `Verify`. A value is a record of what checks can tell: kind, number, text,
length, blank, the patterns it matches, its items. `ContractPromises` states the properties. `RunEngine`'s `ValidOutputs` are the outputs
it accepts.

**The run.** `RunRecord` is the run state and the engine's helpers as functions from record to record:
`Refreshed` is `_refresh_readiness` for one node, `CompleteAttempt` is `_complete_attempt`,
`FailNode` is `_record_failure`, `Recovered` the loop of `resume`, `Settled` is `_settle`,
`Verifies` the checks of `verify`, `PendingGates` and `Binding` the gate helpers.

`RunEngine` is the state machine. `disk` is `state.json`, `mem` the copy the operation in progress
has loaded, `trace` the set of appended events, `receipt` the verdict of `receipt.json`. `pc` is
where the operation is: `idle` (nobody holds the lock); `create` (the new run is saved, `RecordCreation` appends its event; a crash may come first); `refresh`, `visit`, `ahead`, `call` (the
loop of `_advance`, before and after its write-ahead save); `resettle` (the refresh of `_settle`);
`attest` and `save`. An operation's load, checks and own decision are one action (`DecideGate`,
`Submit`, `Resume`...); then each iteration of the loops is one (`RefreshNode`, `HoldForApproval`,
`RefuseNode`, `StartNode`, `WriteAhead`, `RunBuiltin`, `DeferNode`, `EndPass`, `Settle`, `Save`). `Crash`
can fall between any two of them: memory is lost, disk, trace and receipt stay. `Reconfigure`
changes `disabled_executors` between operations. `authorised` and `replayed` are history: orders of
the graph or the operator to run a node, and invocations without one.

`RunPromises` states the properties and the inductive invariant. `RunLifecycle` is the abstract
specification: what a reader of `state.json` may rely on, without loops, gates, holds or lock.
`RunRefinement` maps the engine to it, and says how far the memory of an operation may have moved on from its disk.

**Dispatch.** `Dispatch` composes `RunEngine` with callers in processes. A caller asks the engine (tool actions
after the check of the lease, operator commands without), is its `client` while the operation
runs, and then may drive: `AcquireLease`, `TakeOrder` (the lock-free read), `Claim` or `NoClaim`
(under the lock), `Launch` or `HostUnavailable`, `SubmitResult`, `SubmitRefused`, `HostDeclined`,
`ReleaseClaim`, `LockTimeout`. `ProcessDies` takes all callers of a process, its lease and, when one
of them was the client, the engine's memory. `launched` and `booked` are history.

**Store.** `RunStore` has callers in processes and the files of one run. A caller takes the thread lock, opens and locks the lock file,
loads or creates, appends and saves, and unlocks; each of these may time out or fail, and then leaves through the `finally` blocks.
`state.json` is its version and whether it is whole; a temporary file is written in two steps before it is renamed. `trace.jsonl`
is the sequence of lines as `splitlines` gives them, with the event that each holds, what it names as predecessor, and whether it can be parsed; an append may be cut short
by a failure or a death, glue its line to a torn one, or be split by a Unicode separator. Readers load without the lock. `ExclusiveRegister` is
the abstraction: one holder advances a version. `StorePromises` states the rest.

**Installation.** `Installer` has a target, backups and a command per home; a command goes from stage to stage by renames (`MoveAway`, `SwapIn`,
`SetAside`, `PutBack`; `Remove`, `PurgeFile`; `Displace`, `Restore`), each of which may fail, and the undo too, and dies anywhere (`CommandDies`). After the swap the tree in place verifies (`Verified`), does not and is set aside, or
its check raises, which nothing catches: it stays, unverified (`CheckRaises`).
Three files stand for a tree: those by which it is recognised, fingerprinted and loaded. `live`, `prior`, `outcome` and `cut` are history.
`ProfileLoader` adds the gateway: `Import`, `Reuse` and `Refuse` are the three ways through `_bind_bundled_packages`. `InstallationPromises` states what both promise.

The `MC` modules define the instances. `RunProofs` (types), `RunInvariantProofs` (starts), `OutcomeProofs` (ends, waits, the lifecycle, attempts, bounds, stops, denials),
`DispatchProofs`, `AdmissionProofs`, `ContractProofs`, `StoreProofs` and `InstallationProofs` hold the theorems.

**Abstractions.** Messages, timestamps, inputs and per-attempt history are left out of the run record.
Outputs are model values there, valid or not. `TIMEOUT` counts as a retryable failure, the other failing
outcomes as non-retryable, as the engine treats them. Appends to the trace that follow each other
without a save between them are one step of `RunEngine`, and events no property speaks of are left out. Whether resolved inputs break
their contract is a choice for the nodes in `Mistyped`. An executor's call and its return are one
step: dying under the call leaves the same disk as dying before or after it. A preflight that fails only
appends a trace event, which is no step here. Branches the engine cannot reach (`_denied_gate` on
a READY node, `_settle` of a finished run) are kept in the guards and fire in no run by themselves. In
`Dispatch` a reply the host garbled, a timeout and a rejected task are one outcome, a failure
reported to the engine; a worker that calls the tool without the propagated context is one
more tool caller; the configuration changes only while nobody is at work, because a command reads it
once and drives with what it read. What a text transformation writes is any value of its kind. A rename is atomic and durable.
Backups are in the order in which they were made: their stamps are taken to grow, so a clock that is set back between two commands is left out. In admission the gates of a node are a set of types.

## 3. The runs

| Run | Expected | What it shows |
|---|---|---|
| `release` | pass | Two nodes in a row: a builtin check with two attempts, then an agent node with side effects, an approval gate and two reviews; valid and invalid outputs; all operations; two crashes. Finished runs and nodes stay as they are (`FinalStays`), their verdict is true (`VerdictTruthful`), a run called SUCCEEDED passes `verify` (`SucceededRunVerifies`), no positive receipt is ahead of its run (`ReceiptTruthful`), every operation ends (`OperationEnds`). |
| `fork` | pass | Four nodes with a join, two unsafe nodes, a retry, both failure policies, mistyped inputs, one crash, one configuration change, a step budget that runs out. Starts are cleared (`StartedOnlyWhenCleared`) and on disk (`WrittenAhead`), unsafe nodes are not replayed (`NoAutoReplay`), attempts beyond the maximum were interrupted ones (`AttemptsAccounted`), nodes that did not run say why (`UnrunExplained`), a waiting run says what for (`WaitExplained`) and, unless an attempt was interrupted, lists exactly what its nodes wait for (`HoldsCurrent`), the trace covers the state but for the event of an interrupted creation (`TraceCoversState`), an operation is over after a bounded number of its steps (`OperationsBounded`) and the engine implements `RunLifecycle` (`ImplementsLifecycle`). |
| `dispatch` | pass | Three callers in two processes and one node that must not be repeated; drives, manual submissions, recovery and retry, a process death at any point, a configuration change, unavailable hosts, lock timeouts. At most one worker per attempt (`WorkerNotReplayed`), its result on that attempt (`ResultsOfTheirAttempt`), the lease held exactly during a drive (`LeaseExact`), and every drive ends (`DrivesEnd`). |
| `admission` | pass | Every graph of three nodes, self-loops included, with reads between them; single nodes with every combination of the fields that rules relate; lists that are no graph. The verdict is that of the rules in the order in which the code applies them (`VerdictExact`), cycles are real (`CycleReal`), reads come from earlier nodes (`ReadsFromEarlier`), ties go to the declaration (`DeclarationOrderKept`), the engine's assumptions are met (`EngineAssumptionsMet`), stored specs are admitted again (`Readmitted`), admission ends (`AdmissionEnds`). |
| `store` | pass | Two callers in a gateway and one in a command line; texts with a separator, a failing write, a death, timeouts. Readers see whole states (`ReadersSeeWhole`), the store is an exclusively advanced register (`AdvancesExclusively`), a trace that verifies is complete (`VerifiedTraceComplete`), operations end without a lock (`OperationsEnd`). |
| `installation` | pass | Two homes, two releases, five commands, two deaths, two failures, a gateway restarted between installations. A check after the swap may fail or raise. The newest backup is what was in place whenever nothing is (`RollbackRecovers`), a failed install is undone or what it replaced is kept (`InstallUndoneOrKept`), a rollback restores the newest backup (`RollbackRestores`), only a purge that was cut short leaves half of a tree (`TreesWhole`), and with the gateway stopped during installations what is served is what is installed (`ServedAsInstalled`). |
| `contracts` | pass | Agent nodes with every criterion, builtin nodes with every operation and combination of arguments, values of every kind and at the bounds. What is booked was accepted (`ContractInvariant`), admitted criteria cannot raise (`AdmittedCriteriaNeverRaise`), builtins deliver what is declared (`BuiltinDeliversDeclared`), operations and criteria of the same name judge alike (`OperationsAgreeWithCriteria`). |
| `stop_skips` | violation | A failure with `on_failure: stop` does not stop the nodes that were READY in the same pass. |
| `one_dispatch` | violation | Two processes of one profile dispatch at the same time. |
| `trace_torn` | violation | A death in the middle of an append leaves a run that no operation can continue. |
| `trace_split` | violation | An event whose text has a Unicode line separator cannot be read back. |
| `mixed_versions` | violation | Installations under a running gateway make one process serve two versions. |

The five violations are disagreements between what the repository's documents say and what the code does;
PROJECT.json quotes both. None contradicts the properties that pass: a node started after
a stopping failure was cleared; two processes that dispatch together are kept from the same unsafe attempt by the claims
under the run's lock; a torn or split trace never verifies; versions are not mixed when the gateway is stopped while
installations change, which is more than the documents ask for (install everywhere, then restart).

Other differences met while modelling are not runs of their own: most because no sentence promises the contrary exactly enough, the order of admission's
errors because the run `admission` checks the order that the code follows:

- After a crash the holds of a WAITING run may be those of an earlier settlement (README.md:352); `HoldsCurrent` says when.
- Recovery attempts an idempotent node more often than `max_attempts` (dispatch.py:114 tells the worker "attempt %s of at most %s"); `AttemptsAccounted` says by how much.
- A tool action that passed its check of the lease goes on when another caller takes the lease just then (ARCHITECTURE.md:140: "refused for every caller"); `WorkerNotReplayed` and `ResultsOfTheirAttempt` hold nevertheless.
- ARCHITECTURE.md:49-53 lists "dangling or non-upstream input references" among the structural problems that are rejected before cycles, and spec.py:7 says
  "structural problems (`GRAPH_INVALID`) first, then `DEPENDENCY_CYCLE`". `admit` checks input references after cycles (spec.py:446, 454), so a graph that is cyclic and badly wired
  is a `DEPENDENCY_CYCLE`. Code and documents disagree; `VerdictExact` follows the code.
- The installer knows two ends after its swap, verified and "failed verification (rolled back)" (install_plugin.py:310). `check_tree` may also raise after the swap (install_plugin.py:304), and then the new tree stays; `InstallUndoneOrKept` says what is kept.
- Admission compares the names of a builtin's outputs with what the operation produces, not the types: a `measure` node that declares `length` a string is admitted and always fails.
- Values that cannot be hashed or encoded (a list as `check`, a YAML date, a lone surrogate) leave `admit` or `submit` as a TypeError or UnicodeEncodeError.

**Bounds.** `MaxCrashes` (1 or 2), `MaxReconfigs`, `MaxSteps` (the code's `max_steps`), `MaxDrives`,
`MaxDeaths`, `MaxDispatches`, `MaxFailures`, `MaxSaves`, `MaxEvents` and `MaxCommands` are guards of the actions they bound; nothing else is cut off. Every hazard
of the run takes one interruption and one recovery to show; `release` has two crashes so that recovery is
itself interrupted. `MaxSteps` is 2 for the four nodes of the fork and 3 for the release, so
that budgets both suffice and run out. In `dispatch` three drives allow a
release, a second claim and a third party that must respect it. Three nodes make cycles of every length up to three, chains, forks, joins and ties in the order;
`admission` has no bound besides `MaxNodes`. In `store` three callers make both locks contended, and two saves, three events and one death make a line torn, glued to and
followed; in `installation` five commands allow an interrupted rollback after an interrupted reinstall and the rollback of both. The theorems have none of these bounds.
Finished runs have no further step when
`verify` is not among the requests, and dispatch, admission, installation and a contract's node end with their bounds or their work: those runs do not check deadlock. `release` and `store`, where something is always
possible, do.

**Fairness.** `FairSpec` of `RunEngine` assumes weak fairness of `Step`: the engine's loops compute and write, they
wait for nothing. Builtins are pure and return. Nothing is assumed of requests, crashes and
configuration. `FairDispatchSpec` adds weak fairness of each caller's drive: the host's wait loop ends at the node's deadline (`host.py`) and
a wait for the run's lock times out (`store.py`), so a drive can always move. Callers
never have to ask for anything. In `RunStore` a caller that has begun an operation goes on, since both waits have timeouts; nothing makes one begin. In `SpecAdmission`
only `admit`'s own steps (`Proceed`) are fair: nobody has to load a stored spec.

## 4. What is proved

*The run*, for every graph that satisfies the assumptions of `GraphSpec`, every budget and number of crashes:

1. `TypeCorrect`: `Spec => []TypeOK`, with one lemma for each helper of `RunRecord`.
2. `InvariantHolds`: `Spec => []RunInvariant`. `StartedOnlyWhenCleared` is not inductive: an attempt starts from
   memory, long after the gates were looked at, and `refresh` relies on what earlier passes made READY. The
   invariant therefore says of *both* records (`Coherent`): where a wait may stand; that a node which is READY or
   has begun has its plan cleared and its dependencies succeeded; that one that has begun has its gates
   approved. `OrderStanding` says that an unsafe node which could still start has an unspent order. The rest ties memory
   to disk by `pc`: equal when idle and at `call`. Each helper is shown to move a
   record only *safely* (no success is undone, no node begins, no order appears); the one step that begins
   a node, `StartNode`, has a lemma of its own.
3. `StartsAreCleared`, `AttemptsAreWrittenAhead`, `UnsafeNodesAreNotReplayed` follow from it.
4. How runs end: `OutcomeHolds`. The invariant (`OutcomeInvariant`) says of both records that whatever is over has its reason
   in the record, that a settled run has nothing open, and that memory never touches what has ended on disk; that holds are those of the
   nodes; that no positive receipt is ahead of its run; that the trace covers what was decided or happened, in memory and on disk, since the creation. From it `VerdictsAreTruthful`,
   `UnrunNodesAreExplained`, `ReceiptsAreTruthful`, `HoldsAreCurrent`, `TraceAccountsForState`, `FinishedStaysFinished`, and
   `SucceededRunsVerify`: settlement and verification, written apart, agree.
5. `WaitHolds` and `WaitsAreExplained`: `WaitInvariant` says what a pass of the loops has left behind up to the place it has
   reached. Why nothing but an interrupted attempt can deadlock is an argument on the order: the first open node
   has its dependencies decided.
6. `EngineImplementsLifecycle`, the refinement. Between two saves an operation makes many moves, the lifecycle sees one. `LifecycleInvariant`
   says what those amount to, node by node (`MovedOn`), at each `pc`.
7. `AttemptsAreAccountedFor`: `AttemptInvariant` gives the run a slack, its crashes and reconfigurations, less one while an executor is
   missing; a node that may be started, or queued again by `resume`, has an attempt left within it.
8. `OperationsAreBounded`: each step of an operation brings down `StepsToEnd`, which starts no higher than what budget and graph
   fix. A pass that repeats needs progress, and progress is charged: a started attempt costs a step of the budget, a refused or finished node
   is one open node fewer. Counting a hold as progress would break it, which is what its mutant does.
9. `StoppedRunsStartNothing`: `StopInvariant` says what a refresh of a stopped run has passed. A stop reaches only later passes (run
   `stop_skips`); the theorem says how far what is left reaches: not beyond the operation, unless it is cut off inside an attempt.
10. `DenialsAreCarriedOut`: a denial and what it does are one save, and `decide` only takes a decision that its node waits for; so a denied gate
   stays denied and its node FAILED. It is also why the branch of `_advance` for a READY node with a denied gate is never taken.

*The dispatched run*, for any callers and processes:

1. `DispatchInvariantHolds` and `LeaseIsExact`: the lease argument needs who the engine's client is (`ClientKnown`), because
   the engine's return decides whether its caller is still driving.
2. `DispatchImplementsRun`: every step of a dispatched run is a step of `RunEngine` or leaves the run alone; so
   `DispatchedRunKeepsPromises` and `DispatchedRunEndsTruthfully`: the theorems about the run hold whoever drives.
3. `WorkersAreNotReplayed`. `ClaimInvariant`: claims of an attempt are numbered by their count, each belongs to one drive, which releases
   it or launches on it; so two that are not released cannot be of the same unsafe attempt.
4. `ResultsStayWithTheirAttempt`. A submission does not name its attempt; `OrderInvariant` shows that it need not for a node with effects: an
   attempt once handed out on disk is the node's last, whatever recovery and retries do, and every order in flight names it.
5. `DrivesAreBounded`: `max_dispatches` bounds a drive also when submissions fail and nodes are tried again, and whatever others do to the run meanwhile.

*Admission*, for any submissions and catalog. `AdmissionInvariant` has a part per loop. `find_cycle`: the grey nodes are the recursion's path, which follows
dependencies; a dependency that was looked at is black or next on the path; no set of black nodes is circular (that is what makes the
absence of a reported cycle mean there is none); no white node is left behind the place the loop over all nodes has reached. `ancestors`: what is seen or pending lies in every closed set, and includes the dependencies of what was seen. `topological_order`:
what remains lacks only what remains. From it `AdmissionExact`, `CycleIsReal`, `ReadsAreOrdered`, `DeclarationBreaksTies`; and `AdmittedMeetsAssumptions`: of the
assumptions of the run's theorems, `OrderAssumption` and `NodeAssumption` hold of every admitted graph. (`GateAssumption` and `OutputAssumption` say how the model of the run
names gates, their places and outputs; they are not about admission.) `StoredSpecsAreReadmitted` takes the two admissions together:
normalising a normalised node changes nothing, what the first admission found is true of the stored nodes (`ReadmissionInvariant`), and a second sort
cannot take another node than the first did, because each choice is forced by the declaration. `AdmissionIsBounded`: the loops end also on graphs with
cycles, because a node is passed as a root once, turned grey once, pending once and taken once; the measure `AdmissionLeft` counts what is left of each, and its bound is a function of the size of the spec.

*Contracts*, for any values, patterns and declarations: `CriteriaNeverRaise`, `BuiltinsDeliver`, `OperationsAgree`, by cases over checks and operations; `BookedWasAccepted` from an invariant
that keeps what the result was when it was booked.

*The store*, for any callers, processes and numbers of deaths and failures. `StoreInvariant`: who holds which lock at which point; a holder's base is the stored version,
its temporary file the successor; a file that may be renamed is whole; the ids of lines ascend and none is missing where no line is damaged. From it `ReadsAreWhole`, `VerifiedIsComplete` and
`ExclusiveAdvance`, the refinement of `ExclusiveRegister`. `NoLockIsLeft`: whichever way a caller left, it holds nothing. `TailIsCurrent`: what a caller read of the trace is its
end until it appends. `OnlyTornAppendsDamage`: a trace that verifies stays so, up to torn appends and separators: those two findings are the only ways to lose it.

*Installation*, for any homes, releases, commands, deaths and failures. The invariant says, for each home, what each stage has in place, in the backups and in
`prior` (`Progress`), and that the newest backup is what was in place whenever nothing is (`Held`). A step concerns one home (`OneHome`), so that each action has a lemma
about its home only. From it the promises of the installer, `RollbackAlwaysRecovers`, `FailureIsUndoneOrKept`, `RollbackRestoresNewest` and `NoHalfTrees`, and `InstallationTyped`. An install that fails after the swap
without undoing it (the undo fails, `check_tree` raises, the log cannot be written) is not undone; what is proved is that what it replaced is the newest backup. `ServedWhatIsInstalled` adds that a running gateway means no command is at work, and that modules and handlers are those of what is installed.

The assumptions used are those of `GraphSpec`, `BoundAssumption`, `DispatchAssumption`, `SubmissionAssumption`, `CatalogAssumption`, `ContractAssumption`, `SameBounds`, `StoreAssumption`,
`NoneAssumption` and `PackagesAssumption`; TLC evaluates them in the runs.

## 5. What is only model-checked

The liveness properties: `OperationEnds`, `DrivesEnd`, `AdmissionEnds`, `OperationsEnd`. They need fairness and `ENABLED`, which are out of the
prover's reach. Their safety halves are theorems: the steps of an operation, a drive and an admission are bounded (`OperationsAreBounded`,
`DrivesAreBounded`, `AdmissionIsBounded`) and no caller keeps a lock (`NoLockIsLeft`); what remains to TLC is that the next step is
possible and taken. Every safety property and action property of a passing run is a theorem.

`AdmissionBounded`, `DrivesBounded`, `NoLockLeft`, `TailCurrent`, `OnlyTornAppendsBreak`, `StopLeavesNothing`,
`DenialsCarriedOut`, `DenialsStand` and the invariants of the other proofs
are proved and are not properties of a run.

## 6. Hazards

PROJECT.json lists them at their lines with the properties that cover them. One has none: a purge that is cut short leaves half of a tree, which a later command
may keep and a rollback restore (install_plugin.py:330); the code allows it, and `TreesWhole` says that nothing else does. With the gateway stopped a manifest cannot change under loaded packages (plugin_init.py.tmpl:49), so only the violated `OneVersion` is about that hazard. Late results of idempotent nodes may be booked on a newer attempt (a submission does not name its attempt); the
documents promise nothing there, and for nodes with effects `ResultsOfTheirAttempt` shows that it cannot happen. A home on which two installers work at once is outside the
model: nothing in the code prevents it, and nothing promises it.

## 7. What is left

Composing `RunStore` with `RunEngine` instead of abstracting one in the other: the engine's `Save` is atomic because `RunStore` shows it, and the step from
one to the other is an argument in this file, not a refinement. The same holds of `Contracts` and the engine's `ValidOutputs`.

## 8. Not modelled, and why

Parsing specifications, the shape checks of single fields, text transformations, task text and extraction of outputs, templates,
analysis, views, reports, configuration and argument parsing are pure functions of their input with no state: unit tests reach them.
Adapter protocols declare interfaces. The boundary check and the host probe scan files and a host's interface during
development. Loss of a rename at a power failure is a matter of the file system. Two installers at once on one home, run ids and the listing of runs, and
the checksum of `state.json` (a file is whole or it is not) are left out.
