------------------------------ MODULE Dispatch ------------------------------
(***************************************************************************)
(* Autonomous execution of one run's agent nodes by the host               *)
(* (ge_hermes/dispatch.py, guard.py, service.py), composed with the run    *)
(* itself (RunEngine): several callers, in one or more host processes that *)
(* share the profile's state directory, work the run with operator         *)
(* commands and tool actions, and drive it.                                *)
(*                                                                         *)
(* A drive holds the dispatch lease of its process and loops: read the     *)
(* run, claim its first work order (a trace event), have a worker do it,   *)
(* submit.  Only the claim and the engine's operations hold the run's      *)
(* lock; state.json is read without it.                                    *)
(*                                                                         *)
(* Trace events of dispatch are kept apart from those of the engine, and   *)
(* only as a set: node, attempt and dispatch number identify each.         *)
(***************************************************************************)
EXTENDS RunPromises, FiniteSets

CONSTANTS
  Callers,        \* turns, commands and workers that call the plugin
  NoCaller,
  ProcessOf,      \* ProcessOf[c]: the host process c runs in
  ToolCallers,    \* those using the ge_graph tool; the others are operator commands
  MaxDispatches,  \* max_dispatches of one drive
  MaxDrives,      \* bound on drives
  MaxDeaths       \* bound on processes dying

Processes == {ProcessOf[c] : c \in Callers}

ASSUME DispatchAssumption ==
  /\ NoCaller \notin Callers /\ ToolCallers \subseteq Callers
  /\ MaxDispatches \in Nat \ {0} /\ MaxDrives \in Nat
  /\ MaxDeaths \in Nat /\ MaxDeaths <= MaxCrashes

VARIABLES
  caller,    \* caller[c]: where c is, and the order and count of its drive
  lease,     \* lease[p]: _LEASES of process p holds this state directory
  client,    \* who is in the engine, holding the run's lock
  claims,    \* node.dispatched events, as <<node, attempt, dispatch>>
  releases,  \* node.dispatch_released events
  drives, deaths,   \* bounds
  launched,  \* history: dispatches on which a worker began
  booked     \* history: <<node, attempt worked on, attempt credited>>

dispatch == <<caller, lease, client, claims, releases, drives, deaths, launched, booked>>

\* Away from the engine; "checked" is a tool action past enforce_not_dispatching.
Stages == {"off", "checked", "operating", "starting", "lease",
           "load", "claim", "host", "release", "working", "submitting"}

Driving(c) == caller[c].at \in {"load", "claim", "host", "release", "working", "submitting"}

NoOrder == [node |-> Order[1], attempt |-> 0, number |-> 0]
Off     == [at |-> "off", order |-> NoOrder, count |-> 0]

\* Any caller may create the run: no lease is asked for.
DispatchInit ==
  /\ Init
  /\ client \in Callers
  /\ caller = [c \in Callers |-> IF c = client THEN [Off EXCEPT !.at = "operating"] ELSE Off]
  /\ lease = [p \in Processes |-> FALSE]
  /\ claims = {} /\ releases = {} /\ drives = 0 /\ deaths = 0
  /\ launched = {} /\ booked = {}

Goto(c, stage) == caller' = [caller EXCEPT ![c].at = stage]

-----------------------------------------------------------------------------
(* Requests: tool actions check the lease first, operator commands do not. *)

\* enforce_not_dispatching.
CheckLease(c) ==
  /\ c \in ToolCallers /\ caller[c].at = "off" /\ ~lease[ProcessOf[c]]
  /\ Goto(c, "checked")
  /\ UNCHANGED <<vars, lease, client, claims, releases, drives, deaths, launched, booked>>

MayRequest(c) == caller[c].at = (IF c \in ToolCallers THEN "checked" ELSE "off")

\* run and resume: the engine's operation first, then the drive.
StartDrive(c) ==
  /\ MayRequest(c) /\ drives < MaxDrives
  /\ Execute \/ Resume
  /\ client' = c /\ Goto(c, "starting") /\ drives' = drives + 1
  /\ UNCHANGED <<lease, claims, releases, deaths, launched, booked>>

\* What only an operator may ask for.
OperatorRequest ==
  \/ \E decision \in {"APPROVED", "DENIED"} :
       DecidePlan(decision) \/ \E g \in Gates : DecideGate(g, decision)
  \/ \E n \in Nodes : RetryNode(n)
  \/ Cancel

Operate(c) ==
  /\ MayRequest(c)
  /\ \/ Verify \/ (\E n \in Nodes, result \in Results : Submit(n, result))
     \/ c \notin ToolCallers /\ OperatorRequest
  /\ client' = c /\ Goto(c, "operating")
  /\ UNCHANGED <<lease, claims, releases, drives, deaths, launched, booked>>

\* The operation raised before it changed anything (wrong state, lock not obtained).
Refused(c) ==
  /\ caller[c].at = "checked" /\ Goto(c, "off")
  /\ UNCHANGED <<vars, lease, client, claims, releases, drives, deaths, launched, booked>>

\* The drive, or the operation, is over; a drive leaves exclusive_dispatch.
Leave(c) ==
  /\ caller' = [caller EXCEPT ![c] = Off]
  /\ lease' = [lease EXCEPT ![ProcessOf[c]] = @ /\ ~Driving(c)]

\* The engine works for its client; when it returns the client goes on.
EngineWorks == Step /\ pc' # "idle" /\ UNCHANGED dispatch

EngineReturns ==
  /\ Save \/ RecordCreation
  /\ CASE caller[client].at = "operating"  -> Leave(client)
       [] caller[client].at = "starting"   -> Goto(client, "lease") /\ UNCHANGED lease
       [] caller[client].at = "submitting" -> Goto(client, "load") /\ UNCHANGED lease
  /\ client' = NoCaller
  /\ UNCHANGED <<claims, releases, drives, deaths, launched, booked>>

EngineRaises ==
  /\ ExecutorMissing(Current)
  /\ Leave(client) /\ client' = NoCaller
  /\ UNCHANGED <<claims, releases, drives, deaths, launched, booked>>

-----------------------------------------------------------------------------
(* The drive. A caller whose wait for the run's lock times out raises out  *)
(* of the drive.                                                           *)

\* exclusive_dispatch.
AcquireLease(c) ==
  /\ caller[c].at = "lease" /\ ~lease[ProcessOf[c]]
  /\ lease' = [lease EXCEPT ![ProcessOf[c]] = TRUE]
  /\ Goto(c, "load")
  /\ UNCHANGED <<vars, client, claims, releases, drives, deaths, launched, booked>>

\* Autonomous execution is off, nothing is pending, the host cannot execute, or the
\* lease is held by another caller.
NoDrive(c) ==
  /\ caller[c].at = "lease" /\ Goto(c, "off")
  /\ UNCHANGED <<vars, lease, client, claims, releases, drives, deaths, launched, booked>>

\* pending_work: the nodes awaiting a submission.
PendingWork(r) == {n \in Nodes : r.nodes[n].status = "RUNNING" /\ r.nodes[n].wait = "submission"}

\* The first work order in execution order.
FirstOrder(r, n) ==
  \E i \in 1..N : Order[i] = n /\ n \in PendingWork(r) /\ \A j \in 1..(i - 1) : Order[j] \notin PendingWork(r)

StopDrive_WaitingForWork(c) ==
  /\ caller[c].at = "load"
  /\ disk.status \in RunTerminal \cup {"DRAFT"} \/ caller[c].count > 0
  /\ Leave(c)
  /\ UNCHANGED <<vars, client, claims, releases, drives, deaths, launched, booked>>

\* Nothing to dispatch, or a budget of the drive is spent: steps, or (after a first
\* dispatch) time.
StopDrive(c) ==
  /\ caller[c].at = "load"
  /\ \/ disk.status \in RunTerminal \cup {"DRAFT"} \/ PendingWork(disk) = {}
     \/ caller[c].count > 0
  /\ Leave(c)
  /\ UNCHANGED <<vars, client, claims, releases, drives, deaths, launched, booked>>

TakeOrder(c, n) ==
  /\ caller[c].at = "load" /\ disk.status \notin RunTerminal \cup {"DRAFT"}
  /\ FirstOrder(disk, n) /\ caller[c].count < MaxDispatches
  /\ caller' = [caller EXCEPT ![c].at = "claim",
                  ![c].order = [node |-> n, attempt |-> disk.nodes[n].attempts, number |-> 0]]
  /\ UNCHANGED <<vars, lease, client, claims, releases, drives, deaths, launched, booked>>

EventsOf(events, order) == {e \in events : e[1] = order.node /\ e[2] = order.attempt}

\* The run has moved on since the order was read.
Moved(order) ==
  order.node \notin PendingWork(disk) \/ disk.nodes[order.node].attempts # order.attempt

MayHaveRun_UnlessReleased(order) ==
  EventsOf(claims, order) # {} /\ EventsOf(releases, order) = {}

\* A claim without a release: a worker may have begun and never finished.
MayHaveRun(order) ==
  Cardinality(EventsOf(claims, order)) > Cardinality(EventsOf(releases, order))

\* Under the run's lock.
Claim(c) ==
  LET order  == caller[c].order
      number == Cardinality(EventsOf(claims, order)) + 1
  IN  /\ caller[c].at = "claim" /\ pc = "idle"
      /\ ~Moved(order) /\ ~(MayHaveRun(order) /\ order.node \in Unsafe)
      /\ claims' = claims \cup {<<order.node, order.attempt, number>>}
      /\ caller' = [caller EXCEPT ![c].at = "host", ![c].order.number = number, ![c].count = @ + 1]
      /\ UNCHANGED <<vars, lease, client, releases, drives, deaths, launched, booked>>

\* The run has moved, or the node is held rather than replayed.
NoClaim(c) ==
  LET order == caller[c].order
  IN  /\ caller[c].at = "claim" /\ pc = "idle"
      /\ Moved(order) \/ (MayHaveRun(order) /\ order.node \in Unsafe)
      /\ Leave(c)
      /\ UNCHANGED <<vars, client, claims, releases, drives, deaths, launched, booked>>

\* The host starts a worker; from here on it may have had its effect.
Launch(c) ==
  /\ caller[c].at = "host" /\ Goto(c, "working")
  /\ launched' = launched \cup {<<caller[c].order.node, caller[c].order.attempt, caller[c].order.number>>}
  /\ UNCHANGED <<vars, lease, client, claims, releases, drives, deaths, booked>>

\* EXECUTOR_UNAVAILABLE: nothing was started.
HostUnavailable(c) ==
  /\ caller[c].at = "host" /\ Goto(c, "release")
  /\ UNCHANGED <<vars, lease, client, claims, releases, drives, deaths, launched, booked>>

ReleaseClaim(c) ==
  /\ caller[c].at = "release" /\ pc = "idle"
  /\ releases' = releases
       \cup {<<caller[c].order.node, caller[c].order.attempt, caller[c].order.number>>}
  /\ Leave(c)
  /\ UNCHANGED <<vars, client, claims, drives, deaths, launched, booked>>

\* CANCELLED or GOVERNANCE_BLOCKED: the node is left waiting, the claim stands.
HostDeclined(c) ==
  /\ caller[c].at = "working" /\ Leave(c)
  /\ UNCHANGED <<vars, client, claims, releases, drives, deaths, launched, booked>>

\* What a drive submits: outputs, or a failure (of the worker, of the host, a timeout or
\* an unusable reply), which counts as retryable.
WorkerResults ==
  {r \in Results : r.outcome \in {"SUCCESS", "RETRYABLE_FAILURE"}}

\* Nothing in a submission says which attempt it answers.
SubmitResult(c, result) ==
  LET order == caller[c].order
  IN  /\ caller[c].at = "working" /\ Submit(order.node, result)
      /\ client' = c /\ Goto(c, "submitting")
      /\ booked' = booked \cup {<<order.node, order.attempt, disk.nodes[order.node].attempts>>}
      /\ UNCHANGED <<lease, claims, releases, drives, deaths, launched>>

\* INVALID_TRANSITION: somebody answered for the node, or the run is over.
SubmitRefused(c) ==
  /\ caller[c].at = "working" /\ pc = "idle" /\ ~AwaitsSubmission(disk, caller[c].order.node)
  /\ Leave(c)
  /\ UNCHANGED <<vars, client, claims, releases, drives, deaths, launched, booked>>

WaitsForLock(c) == caller[c].at \in {"claim", "release", "working"} /\ pc # "idle"

LockTimeout_KeepingLease(c) ==
  /\ WaitsForLock(c) /\ Goto(c, "off")
  /\ UNCHANGED <<vars, lease, client, claims, releases, drives, deaths, launched, booked>>

\* RUN_LOCKED: an operation of somebody else outlasts the wait.
LockTimeout(c) ==
  /\ WaitsForLock(c) /\ Leave(c)
  /\ UNCHANGED <<vars, client, claims, releases, drives, deaths, launched, booked>>

Drive(c) ==
  \/ AcquireLease(c) \/ NoDrive(c) \/ StopDrive(c) \/ Claim(c) \/ NoClaim(c)
  \/ Launch(c) \/ HostUnavailable(c) \/ ReleaseClaim(c) \/ HostDeclined(c)
  \/ SubmitRefused(c) \/ LockTimeout(c)
  \/ \E n \in Nodes : TakeOrder(c, n)
  \/ \E result \in WorkerResults : SubmitResult(c, result)

-----------------------------------------------------------------------------
(* The environment.                                                        *)

\* A process dies with all its callers; its lease was only in its memory, and the run's
\* lock is free again.
ProcessDies(p) ==
  /\ deaths < MaxDeaths /\ deaths' = deaths + 1
  /\ caller' = [c \in Callers |-> IF ProcessOf[c] = p THEN Off ELSE caller[c]]
  /\ lease' = [lease EXCEPT ![p] = FALSE]
  /\ IF client # NoCaller /\ ProcessOf[client] = p
     THEN Crash /\ client' = NoCaller
     ELSE UNCHANGED <<vars, client>>
  /\ UNCHANGED <<claims, releases, drives, launched, booked>>

\* A command reads the configuration when it begins and drives with it to its end.
ConfigChanges == (\A c \in Callers : caller[c].at = "off") /\ Reconfigure /\ UNCHANGED dispatch

Asks(c) == CheckLease(c) \/ StartDrive(c) \/ Operate(c)

DispatchNext ==
  \/ \E c \in Callers : Asks(c) \/ Refused(c) \/ Drive(c)
  \/ EngineWorks \/ EngineReturns \/ EngineRaises
  \/ \E p \in Processes : ProcessDies(p)
  \/ ConfigChanges

allvars == <<vars, dispatch>>

DispatchSpec == DispatchInit /\ [][DispatchNext]_allvars

\* The engine's operations end (see RunEngine); a drive moves on: the host answers within
\* the node's timeout and a wait for the lock is bounded. Nothing obliges a caller to ask.
FairDispatchSpec ==
  /\ DispatchSpec
  /\ WF_allvars(EngineWorks \/ EngineReturns \/ EngineRaises)
  /\ \A c \in Callers : WF_allvars(Drive(c))

-----------------------------------------------------------------------------
(* Properties.                                                             *)

\* The variables range over what the code can store in them.
DispatchTypeOK ==
  /\ caller \in [Callers -> [at : Stages, count : Nat,
                             order : [node : Nodes, attempt : Nat, number : Nat]]]
  /\ lease \in [Processes -> BOOLEAN]
  /\ client \in Callers \cup {NoCaller}
  /\ claims \subseteq Nodes \X Nat \X Nat /\ IsFiniteSet(claims)

\* Somebody holds the run's lock exactly while an operation is on, and waits for it.
ClientKnown ==
  /\ pc = "idle" <=> client = NoCaller
  /\ client # NoCaller => caller[client].at \in {"operating", "starting", "submitting"}

\* A worker is started at most once on an attempt of a node with effects: whichever
\* processes drive the run, die or find their host unavailable.
WorkerNotReplayed ==
  \A w, x \in launched : w[1] \in Unsafe /\ w[1] = x[1] /\ w[2] = x[2] => w = x

\* What a worker did on an attempt of a node with effects is never booked on another
\* attempt, although a submission does not name its attempt.
ResultsOfTheirAttempt == \A b \in booked : b[1] \in Unsafe => b[2] = b[3]

\* The lease is held exactly while a drive of the process is on, and there is one such
\* drive at most: no second one enters and no exit, by any error path, leaves it behind.
LeaseExact ==
  /\ \A c, e \in Callers : Driving(c) /\ Driving(e) /\ ProcessOf[c] = ProcessOf[e] => c = e
  /\ \A p \in Processes : lease[p] <=> \E c \in Callers : ProcessOf[c] = p /\ Driving(c)

\* The inductive invariant behind LeaseExact.
DispatchInvariant == DispatchTypeOK /\ ClientKnown /\ LeaseExact

\* A drive that has claimed an attempt and has not ended it.
Holding(c) == caller[c].at \in {"host", "release", "working"}

ClaimOf(c) == <<caller[c].order.node, caller[c].order.attempt, caller[c].order.number>>

\* The inductive invariant behind WorkerNotReplayed: claims are numbered by their count, each
\* belongs to one drive, and an unsafe attempt has at most one that was not released.
ClaimInvariant ==
  /\ releases \subseteq claims /\ launched \subseteq claims \ releases
  /\ \A e \in claims : e[3] <= Cardinality(EventsOf(claims, [node |-> e[1], attempt |-> e[2]]))
  /\ \A e, f \in claims \ releases : e[1] \in Unsafe /\ e[1] = f[1] /\ e[2] = f[2] => e = f
  /\ \A c \in Callers : Holding(c) =>
       /\ ClaimOf(c) \in claims \ releases
       /\ caller[c].at \in {"host", "release"} => ClaimOf(c) \notin launched
  /\ \A c, e \in Callers : Holding(c) /\ Holding(e) /\ ClaimOf(c) = ClaimOf(e) => c = e

\* The attempt of n is no longer the engine's to repeat: it is open to a worker, under review,
\* or over.
Handed(r, n) ==
  \/ ~Open(r, n)
  \/ r.nodes[n].status = "RUNNING" /\ r.nodes[n].wait \in {"submission", "review"}

KeepsHanded(r, q) ==
  \A n \in Unsafe : Handed(r, n) => Handed(q, n) /\ q.nodes[n].attempts = r.nodes[n].attempts

\* The inductive invariant behind ResultsOfTheirAttempt: an unsafe attempt that was handed out
\* on disk is the node's last, in memory and for every drive that took its order.
OrderInvariant ==
  /\ KeepsHanded(disk, mem)
  /\ \A c \in Callers : caller[c].at = "claim" \/ Holding(c) =>
       LET order == caller[c].order
       IN  order.node \in Unsafe =>
             Handed(disk, order.node) /\ disk.nodes[order.node].attempts = order.attempt
  /\ ResultsOfTheirAttempt

\* Every drive ends, however others use the run meanwhile: MaxDrives of them may begin, and
\* in the end none is on.
DrivesEnd == <>[](\A c \in Callers : caller[c].at # "lease" /\ ~Driving(c))

\* What a drive has left, at most: after its start and its lease, for each dispatch reading
\* the run, the claim, the host, the worker and the submission.
DriveLeft(c) ==
  LET rounds == 6 * (MaxDispatches - caller[c].count)
  IN  CASE caller[c].at = "starting"   -> rounds + 3
        [] caller[c].at = "lease"      -> rounds + 2
        [] caller[c].at = "load"       -> rounds + 1
        [] caller[c].at = "claim"      -> rounds
        [] caller[c].at = "host"       -> rounds + 5
        [] caller[c].at = "working"    -> rounds + 4
        [] caller[c].at = "submitting" -> rounds + 3
        [] caller[c].at = "release"    -> rounds + 2
        [] OTHER                       -> 0

\* max_dispatches bounds a drive, also one whose submissions fail and whose node is tried
\* again: each of its steps leaves it fewer, and nothing that others, the engine or the
\* environment do gives it more (drive: "if dispatches >= self.max_dispatches").
DrivesBounded ==
  [][\A c \in Callers :
       /\ Drive(c) => DriveLeft(c)' \in 0..(DriveLeft(c) - 1)
       /\ DriveLeft(c)' > DriveLeft(c) => StartDrive(c)]_allvars

\* The inductive invariant behind DrivesBounded: only a drive has dispatched anything, and an
\* order is taken only with dispatches left.
DriveCounted ==
  \A c \in Callers :
    /\ caller[c].count <= MaxDispatches
    /\ caller[c].at = "claim" => caller[c].count < MaxDispatches
    /\ ~Driving(c) => caller[c].count = 0

\* "one dispatch per profile at a time": the lease is in the memory of one process.
OneDispatchAtATime == Cardinality({c \in Callers : Driving(c)}) <= 1
=============================================================================
