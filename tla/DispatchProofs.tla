--------------------------- MODULE DispatchProofs ---------------------------
(***************************************************************************)
(* Theorems about Dispatch, for every graph, any callers and processes:    *)
(* drivers use the run only through its engine, so that what is proved of  *)
(* RunEngine holds while it is dispatched; the lease is exact; no unsafe   *)
(* worker is launched twice for an attempt; and a worker's result reaches  *)
(* only the attempt it was ordered for.                                    *)
(***************************************************************************)
EXTENDS Dispatch, OutcomeProofs, FiniteSetTheorems

\* A step of the engine itself is only taken while an operation is on.
LEMMA StepIsBusy == Step => pc # "idle"
BY DEF Step, RefreshNode, BeginPass, PassOver, StopOnBudget, VisitNode, WriteAhead, EndPass, Settle, Save,
       Attest, RecordCreation, HoldForApproval, RefuseNode, ExecutorMissing, StartNode, DeferNode, RunBuiltin, AtNode, Visiting

\* What a caller may ask of the engine is a request of RunEngine.
LEMMA AskedIsRequest ==
  ASSUME NEW c, StartDrive(c) \/ Operate(c) \/ \E result \in WorkerResults : SubmitResult(c, result),
         caller \in [Callers -> [at : Stages, count : Nat,
                                 order : [node : Nodes, attempt : Nat, number : Nat]]],
         c \in Callers
  PROVE  Request /\ pc = "idle" /\ pc' # "idle"
<1>1. Request
  BY DEF StartDrive, Operate, OperatorRequest, SubmitResult, WorkerResults, Request
<1>2. pc = "idle" /\ pc' # "idle"
  <2> SUFFICES ASSUME Request PROVE pc = "idle" /\ pc' # "idle"
    BY <1>1
  <2>1. ASSUME NEW decision, DecidePlan(decision) PROVE pc = "idle" /\ pc' # "idle"
    BY <2>1 DEF DecidePlan, Requested
  <2>2. ASSUME NEW decision, NEW g, DecideGate(g, decision) PROVE pc = "idle" /\ pc' # "idle"
    BY <2>2 DEF DecideGate, Requested, BeginAdvance, BeginSettle
  <2>3. ASSUME NEW n, NEW result, Submit(n, result) PROVE pc = "idle" /\ pc' # "idle"
    BY <2>3 DEF Submit, Requested, BeginAdvance
  <2>4. ASSUME NEW n, RetryNode(n) PROVE pc = "idle" /\ pc' # "idle"
    BY <2>4 DEF RetryNode, Requested, BeginAdvance
  <2>5. CASE Execute
    BY <2>5 DEF Execute, Requested, BeginAdvance
  <2>6. CASE Resume
    BY <2>6 DEF Resume, Requested, BeginAdvance
  <2>7. CASE Cancel \/ Verify
    BY <2>7 DEF Cancel, Verify, Requested
  <2> QED
    BY <2>1, <2>2, <2>3, <2>4, <2>5, <2>6, <2>7 DEF Request
<1> QED
  BY <1>1, <1>2

-----------------------------------------------------------------------------
(* A dispatched run is a run.                                              *)

\* What a drive does by itself, away from the engine.
DriveAlone(c) ==
  \/ AcquireLease(c) \/ NoDrive(c) \/ StopDrive(c) \/ Claim(c) \/ NoClaim(c)
  \/ Launch(c) \/ HostUnavailable(c) \/ ReleaseClaim(c) \/ HostDeclined(c)
  \/ SubmitRefused(c) \/ LockTimeout(c) \/ \E n \in Nodes : TakeOrder(c, n)

\* It leaves the run and the engine's client alone.
LEMMA AloneIsAside ==
  ASSUME NEW c, DriveAlone(c) \/ CheckLease(c) \/ Refused(c)
  PROVE  UNCHANGED <<vars, client>>
BY DEF DriveAlone, AcquireLease, NoDrive, StopDrive, Claim, NoClaim, Launch, HostUnavailable, ReleaseClaim,
       HostDeclined, SubmitRefused, LockTimeout, TakeOrder, CheckLease, Refused

\* The cases of a step.
LEMMA DispatchCases ==
  ASSUME DispatchNext
  PROVE  \/ \E c \in Callers : CheckLease(c) \/ Refused(c) \/ DriveAlone(c)
         \/ \E c \in Callers : StartDrive(c)
         \/ \E c \in Callers : Operate(c)
         \/ \E c \in Callers, result \in WorkerResults : SubmitResult(c, result)
         \/ EngineWorks \/ EngineReturns \/ EngineRaises
         \/ \E p \in Processes : ProcessDies(p)
         \/ ConfigChanges
BY DEF DispatchNext, Asks, Drive, DriveAlone

\* Every step of a dispatched run is a step of RunEngine or leaves the run alone.
LEMMA DispatchIsRunStep ==
  ASSUME DispatchTypeOK, DispatchNext
  PROVE  [Next]_vars
<1>1. ASSUME NEW c \in Callers, CheckLease(c) \/ Refused(c) \/ DriveAlone(c) PROVE [Next]_vars
  BY <1>1, AloneIsAside
<1>2. ASSUME NEW c \in Callers, StartDrive(c) \/ Operate(c) \/ \E result \in WorkerResults : SubmitResult(c, result)
      PROVE [Next]_vars
  BY <1>2, AskedIsRequest DEF Next, DispatchTypeOK
<1>3. CASE EngineWorks
  BY <1>3 DEF EngineWorks, Next
<1>4. CASE EngineReturns
  BY <1>4 DEF EngineReturns, Next, Step
<1>5. CASE EngineRaises
  BY <1>5 DEF EngineRaises, Next, Step, VisitNode
<1>6. ASSUME NEW p \in Processes, ProcessDies(p) PROVE [Next]_vars
  <2>1. Crash \/ UNCHANGED vars
    BY <1>6 DEF ProcessDies
  <2> QED
    BY <2>1 DEF Next
<1>7. CASE ConfigChanges
  BY <1>7 DEF ConfigChanges, Next
<1> QED
  BY <1>1, <1>2, <1>3, <1>4, <1>5, <1>6, <1>7, DispatchCases

-----------------------------------------------------------------------------
(* The lease.                                                              *)

Orders == [node : Nodes, attempt : Nat, number : Nat]

LEMMA OffType == Off \in [at : Stages, count : Nat, order : Orders] /\ Off.at = "off"
<1>1. Order[1] \in Nodes
  BY OrderAssumption
<1> QED
  BY <1>1 DEF Off, NoOrder, Orders, Stages

\* Where a step leaves a caller that it does not move.
LEMMA GotoType ==
  ASSUME DispatchTypeOK, NEW c \in Callers, NEW stage \in Stages, Goto(c, stage)
  PROVE  /\ caller' \in [Callers -> [at : Stages, count : Nat, order : Orders]]
         /\ caller'[c].at = stage
         /\ \A e \in Callers \ {c} : caller'[e] = caller[e]
BY DEF DispatchTypeOK, Goto, Orders

LEMMA LeaveType ==
  ASSUME DispatchTypeOK, NEW c \in Callers, Leave(c)
  PROVE  /\ caller' \in [Callers -> [at : Stages, count : Nat, order : Orders]]
         /\ lease' \in [Processes -> BOOLEAN]
         /\ caller'[c].at = "off"
         /\ \A e \in Callers \ {c} : caller'[e] = caller[e]
         /\ lease'[ProcessOf[c]] <=> lease[ProcessOf[c]] /\ ~Driving(c)
         /\ \A p \in Processes \ {ProcessOf[c]} : lease'[p] = lease[p]
<1>1. ProcessOf[c] \in Processes
  BY DEF Processes
<1> QED
  BY <1>1, OffType DEF DispatchTypeOK, Leave, Orders

\* The exclusiveness of the lease is kept by whoever neither enters nor leaves a drive.
LEMMA LeaseKept ==
  ASSUME DispatchTypeOK, LeaseExact, UNCHANGED lease,
         \A e \in Callers : Driving(e)' <=> Driving(e)
  PROVE  LeaseExact'
BY DEF LeaseExact

\* It is kept by whoever leaves.
LEMMA LeaseLeft ==
  ASSUME DispatchTypeOK, LeaseExact, NEW c \in Callers, Leave(c)
  PROVE  LeaseExact'
<1>1. ~Driving(c)' /\ \A e \in Callers \ {c} : Driving(e)' <=> Driving(e)
  BY LeaveType DEF Driving
<1>2. \A p \in Processes \ {ProcessOf[c]} : lease'[p] <=> lease[p]
  BY LeaveType
<1>3. lease'[ProcessOf[c]] <=> lease[ProcessOf[c]] /\ ~Driving(c)
  BY LeaveType
<1>4. ASSUME NEW p \in Processes
      PROVE  lease'[p] <=> \E e \in Callers : ProcessOf[e] = p /\ Driving(e)'
  <2>1. CASE p # ProcessOf[c]
    BY <1>1, <1>2, <2>1 DEF LeaseExact
  <2>2. CASE p = ProcessOf[c] /\ Driving(c)
    BY <1>1, <1>3, <2>2 DEF LeaseExact
  <2>3. CASE p = ProcessOf[c] /\ ~Driving(c)
    BY <1>1, <1>3, <2>3 DEF LeaseExact
  <2> QED
    BY <2>1, <2>2, <2>3
<1>5. \A e, f \in Callers : Driving(e)' /\ Driving(f)' /\ ProcessOf[e] = ProcessOf[f] => e = f
  BY <1>1 DEF LeaseExact
<1> QED
  BY <1>4, <1>5 DEF LeaseExact

\* Claims are numbered: the count of a finite set of events.
LEMMA ClaimCount ==
  ASSUME IsFiniteSet(claims), NEW order
  PROVE  Cardinality(EventsOf(claims, order)) \in Nat
BY FS_Subset, FS_CardinalityType DEF EventsOf

\* What a drive does by itself keeps the invariant.
LEMMA AloneKeepsInvariant ==
  ASSUME DispatchInvariant, TypeOK, NEW c \in Callers, CheckLease(c) \/ Refused(c) \/ DriveAlone(c)
  PROVE  DispatchInvariant'
<1> USE DEF DispatchInvariant
<1>1. UNCHANGED <<pc, client>>
  BY AloneIsAside DEF vars
<1>2. caller[c].at \notin {"operating", "starting", "submitting"}
      /\ \A e \in Callers \ {c} : caller'[e] = caller[e]
  BY LeaveType, GotoType DEF DriveAlone, AcquireLease, NoDrive, StopDrive, Claim, NoClaim, Launch, HostUnavailable,
     ReleaseClaim, HostDeclined, SubmitRefused, LockTimeout, TakeOrder, CheckLease, Refused, Goto, Stages,
     WaitsForLock, DispatchTypeOK
<1>3. ClientKnown'
  BY <1>1, <1>2 DEF ClientKnown, DispatchTypeOK
<1>4. CASE StopDrive(c) \/ NoClaim(c) \/ ReleaseClaim(c) \/ HostDeclined(c) \/ SubmitRefused(c) \/ LockTimeout(c)
  <2>1. Leave(c) /\ UNCHANGED claims
    BY <1>4 DEF StopDrive, NoClaim, ReleaseClaim, HostDeclined, SubmitRefused, LockTimeout
  <2> QED
    BY <2>1, <1>1, <1>3, LeaveType, LeaseLeft DEF DispatchTypeOK, Orders
<1>5. CASE CheckLease(c) \/ Refused(c) \/ NoDrive(c)
  <2>1. (Goto(c, "off") \/ Goto(c, "checked")) /\ UNCHANGED <<lease, claims>> /\ ~Driving(c)
    BY <1>5 DEF CheckLease, Refused, NoDrive, Driving
  <2>2. DispatchTypeOK' /\ \A e \in Callers : Driving(e)' <=> Driving(e)
    BY <1>1, <2>1, GotoType DEF DispatchTypeOK, Orders, Stages, Driving
  <2> QED
    BY <1>3, <2>1, <2>2, LeaseKept
<1>6. CASE Launch(c) \/ HostUnavailable(c)
  <2>1. (Goto(c, "working") \/ Goto(c, "release")) /\ UNCHANGED <<lease, claims>> /\ Driving(c)
    BY <1>6 DEF Launch, HostUnavailable, Driving
  <2>2. DispatchTypeOK' /\ \A e \in Callers : Driving(e)' <=> Driving(e)
    BY <1>1, <2>1, GotoType DEF DispatchTypeOK, Orders, Stages, Driving
  <2> QED
    BY <1>3, <2>1, <2>2, LeaseKept
<1>7. CASE AcquireLease(c)
  <2>1. Goto(c, "load") /\ UNCHANGED claims /\ ~Driving(c) /\ ProcessOf[c] \in Processes
        /\ lease[ProcessOf[c]] = FALSE /\ lease' = [lease EXCEPT ![ProcessOf[c]] = TRUE]
    BY <1>7 DEF AcquireLease, Driving, Processes, DispatchTypeOK
  <2>2. DispatchTypeOK'
    BY <1>1, <2>1, GotoType DEF DispatchTypeOK, Orders, Stages
  <2>3. Driving(c)' /\ \A e \in Callers \ {c} : Driving(e)' <=> Driving(e)
    BY <2>1, GotoType DEF Driving, Stages
  <2>4. \A e \in Callers : ProcessOf[e] = ProcessOf[c] => ~Driving(e)
    BY <2>1 DEF LeaseExact
  <2>5. LeaseExact'
    BY <2>1, <2>3, <2>4 DEF LeaseExact, DispatchTypeOK
  <2> QED
    BY <1>3, <2>2, <2>5
<1>8. CASE Claim(c)
  <2> DEFINE number == Cardinality(EventsOf(claims, caller[c].order)) + 1
             claim  == <<caller[c].order.node, caller[c].order.attempt, number>>
  <2>1. number \in Nat
    BY ClaimCount DEF DispatchTypeOK
  <2>2. claims' = claims \cup {claim} /\ UNCHANGED lease /\ caller[c].at = "claim"
        /\ caller' = [caller EXCEPT ![c].at = "host", ![c].order.number = number, ![c].count = @ + 1]
    BY <1>8 DEF Claim
  <2> HIDE DEF number
  <2>3. claim \in Nodes \X Nat \X Nat
    BY <2>1 DEF DispatchTypeOK
  <2>4. claims' \subseteq Nodes \X Nat \X Nat /\ IsFiniteSet(claims')
    BY <2>2, <2>3, FS_AddElement DEF DispatchTypeOK
  <2>5. caller' \in [Callers -> [at : Stages, count : Nat, order : Orders]] /\ caller'[c].at = "host"
    BY <2>1, <2>2 DEF DispatchTypeOK, Orders, Stages
  <2>6. DispatchTypeOK' /\ \A e \in Callers : Driving(e)' <=> Driving(e)
    BY <1>1, <1>2, <2>2, <2>4, <2>5 DEF DispatchTypeOK, Orders, Driving
  <2> QED
    BY <1>3, <2>2, <2>6, LeaseKept
<1>9. ASSUME NEW n \in Nodes, TakeOrder(c, n) PROVE DispatchInvariant'
  <2>1. disk.nodes[n].attempts \in Nat
    BY DEF TypeOK, Run, NodeState
  <2>2. UNCHANGED <<lease, claims>> /\ caller[c].at = "load"
        /\ caller' = [caller EXCEPT ![c].at = "claim",
                        ![c].order = [node |-> n, attempt |-> disk.nodes[n].attempts, number |-> 0]]
    BY <1>9 DEF TakeOrder
  <2>3. caller' \in [Callers -> [at : Stages, count : Nat, order : Orders]] /\ caller'[c].at = "claim"
    BY <2>1, <2>2 DEF DispatchTypeOK, Orders, Stages
  <2>4. DispatchTypeOK' /\ \A e \in Callers : Driving(e)' <=> Driving(e)
    BY <1>1, <1>2, <2>2, <2>3 DEF DispatchTypeOK, Orders, Driving
  <2> QED
    BY <1>3, <2>2, <2>4, LeaseKept
<1> QED
  BY <1>4, <1>5, <1>6, <1>7, <1>8, <1>9 DEF DriveAlone

\* Whoever asks the engine becomes its client.
LEMMA AskKeepsInvariant ==
  ASSUME DispatchInvariant, NEW c \in Callers,
         StartDrive(c) \/ Operate(c) \/ \E result \in WorkerResults : SubmitResult(c, result)
  PROVE  DispatchInvariant'
<1> USE DEF DispatchInvariant
<1>1. pc = "idle" /\ pc' # "idle"
  BY AskedIsRequest DEF DispatchTypeOK
<1>2. client' = c /\ client = NoCaller /\ UNCHANGED <<lease, claims>>
  BY <1>1 DEF StartDrive, Operate, SubmitResult, ClientKnown
<1>3. \E stage \in {"operating", "starting", "submitting"} :
        Goto(c, stage) /\ (stage = "submitting" <=> Driving(c))
  BY DEF StartDrive, Operate, SubmitResult, MayRequest, Driving
<1>4. PICK stage \in {"operating", "starting", "submitting"} :
        Goto(c, stage) /\ (stage = "submitting" <=> Driving(c))
  BY <1>3
<1>5. DispatchTypeOK' /\ caller'[c].at = stage /\ \A e \in Callers : Driving(e)' <=> Driving(e)
  BY <1>2, <1>4, GotoType DEF DispatchTypeOK, Orders, Stages, Driving
<1>6. ClientKnown'
  BY <1>1, <1>2, <1>5, DispatchAssumption DEF ClientKnown
<1> QED
  BY <1>2, <1>5, <1>6, LeaseKept

\* The engine's return, or its error, moves its client on.
LEMMA ReturnKeepsInvariant ==
  ASSUME DispatchInvariant, EngineReturns \/ EngineRaises
  PROVE  DispatchInvariant'
<1> USE DEF DispatchInvariant
<1>1. pc # "idle" /\ pc' = "idle" /\ client' = NoCaller /\ UNCHANGED claims
  BY DEF EngineReturns, EngineRaises, Save, RecordCreation, Release, ExecutorMissing, AtNode, Visiting
<1>2. client \in Callers /\ caller[client].at \in {"operating", "starting", "submitting"}
  BY <1>1 DEF ClientKnown, DispatchTypeOK
<1>3. ClientKnown'
  BY <1>1 DEF ClientKnown
<1>4. CASE Leave(client)
  BY <1>1, <1>2, <1>3, <1>4, LeaveType, LeaseLeft DEF DispatchTypeOK, Orders
<1>5. CASE EngineReturns /\ ~Leave(client)
  <2>1. \E stage \in {"lease", "load"} :
          Goto(client, stage) /\ (stage = "load" <=> Driving(client)) /\ UNCHANGED lease
    BY <1>2, <1>5 DEF EngineReturns, Driving
  <2>2. PICK stage \in {"lease", "load"} :
          Goto(client, stage) /\ (stage = "load" <=> Driving(client)) /\ UNCHANGED lease
    BY <2>1
  <2>3. DispatchTypeOK' /\ \A e \in Callers : Driving(e)' <=> Driving(e)
    BY <1>1, <1>2, <2>2, GotoType DEF DispatchTypeOK, Orders, Stages, Driving
  <2> QED
    BY <1>3, <2>2, <2>3, LeaseKept
<1> QED
  BY <1>4, <1>5 DEF EngineRaises

\* A process takes its callers and its lease with it.
LEMMA DeathKeepsInvariant ==
  ASSUME DispatchInvariant, NEW p \in Processes, ProcessDies(p)
  PROVE  DispatchInvariant'
<1> USE DEF DispatchInvariant
<1>1. /\ caller' = [c \in Callers |-> IF ProcessOf[c] = p THEN Off ELSE caller[c]]
      /\ lease' = [lease EXCEPT ![p] = FALSE] /\ UNCHANGED claims
  BY DEF ProcessDies
<1>2. /\ \/ client # NoCaller /\ ProcessOf[client] = p /\ client' = NoCaller /\ pc' = "idle"
         \/ ~(client # NoCaller /\ ProcessOf[client] = p) /\ client' = client /\ pc' = pc
  BY DEF ProcessDies, Crash, Release, vars
<1>3. DispatchTypeOK'
  BY <1>1, <1>2, OffType DEF DispatchTypeOK, Orders
<1>4. \A c \in Callers : Driving(c)' <=> Driving(c) /\ ProcessOf[c] # p
  BY <1>1, OffType DEF Driving
<1>5. LeaseExact'
  BY <1>1, <1>4 DEF LeaseExact, DispatchTypeOK
<1>6. ClientKnown'
  BY <1>1, <1>2 DEF ClientKnown, DispatchTypeOK
<1> QED
  BY <1>3, <1>5, <1>6

\* The invariant is inductive, given that the run is well typed.
LEMMA DispatchInvariantStep ==
  ASSUME DispatchInvariant, TypeOK, [DispatchNext]_allvars
  PROVE  DispatchInvariant'
<1>1. CASE UNCHANGED allvars
  BY <1>1 DEF allvars, vars, dispatch, DispatchInvariant, DispatchTypeOK, ClientKnown, LeaseExact, Driving
<1>2. CASE EngineWorks
  <2>1. pc # "idle" /\ pc' # "idle" /\ UNCHANGED dispatch
    BY <1>2, StepIsBusy DEF EngineWorks
  <2> QED
    BY <2>1 DEF dispatch, DispatchInvariant, DispatchTypeOK, ClientKnown, LeaseExact, Driving
<1>3. CASE ConfigChanges
  <2>1. pc' = pc /\ UNCHANGED dispatch
    BY <1>3 DEF ConfigChanges, Reconfigure
  <2> QED
    BY <2>1 DEF dispatch, DispatchInvariant, DispatchTypeOK, ClientKnown, LeaseExact, Driving
<1>4. CASE DispatchNext /\ ~EngineWorks /\ ~ConfigChanges
  BY <1>4, DispatchCases, AloneKeepsInvariant, AskKeepsInvariant, ReturnKeepsInvariant, DeathKeepsInvariant
<1> QED
  BY <1>1, <1>2, <1>3, <1>4

\* A run begins with its creator in the engine and nobody driving.
LEMMA CallersAtFirst ==
  ASSUME DispatchInit
  PROVE  /\ client \in Callers /\ caller[client].at = "operating"
         /\ caller \in [Callers -> [at : {"off", "operating"}, count : {0}, order : Orders]]
<1>1. Off \in [at : {"off"}, count : {0}, order : Orders]
  BY OffType DEF Off, Orders
<1>2. [Off EXCEPT !.at = "operating"] \in [at : {"operating"}, count : {0}, order : Orders]
  BY <1>1
<1>3. [Off EXCEPT !.at = "operating"].at = "operating"
  BY <1>2
<1> HIDE DEF Off
<1> QED
  BY <1>1, <1>2, <1>3 DEF DispatchInit

LEMMA DispatchInvariantInit == DispatchInit => DispatchInvariant
<1> SUFFICES ASSUME DispatchInit PROVE DispatchInvariant
  OBVIOUS
<1>1. DispatchTypeOK
  <2>1. caller \in [Callers -> [at : Stages, count : Nat, order : Orders]]
    BY CallersAtFirst DEF Stages
  <2> QED
    BY <2>1, FS_EmptySet DEF DispatchInit, DispatchTypeOK, Orders
<1>2. \A c \in Callers : ~Driving(c)
  BY CallersAtFirst DEF Driving
<1>3. LeaseExact
  BY <1>2 DEF DispatchInit, LeaseExact
<1>4. ClientKnown
  BY CallersAtFirst, DispatchAssumption DEF DispatchInit, Init, ClientKnown
<1> QED
  BY <1>1, <1>3, <1>4 DEF DispatchInvariant

-----------------------------------------------------------------------------

\* The invariant of dispatch holds together with the typing of the run it is about.
THEOREM DispatchInvariantHolds == DispatchSpec => [](DispatchInvariant /\ TypeOK)
<1>1. DispatchInit => DispatchInvariant /\ TypeOK
  BY DispatchInvariantInit, TypeInit DEF DispatchInit
<1>2. DispatchInvariant /\ TypeOK /\ [DispatchNext]_allvars => (DispatchInvariant /\ TypeOK)'
  <2> SUFFICES ASSUME DispatchInvariant, TypeOK, [DispatchNext]_allvars
               PROVE  DispatchInvariant' /\ TypeOK'
    OBVIOUS
  <2>1. [Next]_vars
    BY DispatchIsRunStep DEF DispatchInvariant, allvars
  <2> QED
    BY <2>1, DispatchInvariantStep, TypeNext
<1> QED
  BY <1>1, <1>2, PTL DEF DispatchSpec

\* The lease is held exactly while a drive is on, in every process, whichever way the
\* drives end.
THEOREM LeaseIsExact == DispatchSpec => []LeaseExact
<1>1. DispatchInvariant => LeaseExact
  BY DEF DispatchInvariant
<1> QED
  BY <1>1, DispatchInvariantHolds, PTL

\* A dispatched run is a run of RunEngine: drivers change it through the engine only.
THEOREM DispatchImplementsRun == DispatchSpec => Spec
<1>1. DispatchInit => Init
  BY DEF DispatchInit
<1>2. DispatchInvariant /\ [DispatchNext]_allvars => [Next]_vars
  BY DispatchIsRunStep DEF DispatchInvariant, allvars
<1> QED
  BY <1>1, <1>2, DispatchInvariantHolds, PTL DEF DispatchSpec, Spec

\* So what is proved of a run holds whoever drives it: starts are cleared and written
\* ahead, unsafe nodes are not replayed.
THEOREM DispatchedRunKeepsPromises ==
  DispatchSpec => []StartedOnlyWhenCleared /\ []WrittenAhead /\ []NoAutoReplay
BY DispatchImplementsRun, StartsAreCleared, AttemptsAreWrittenAhead, UnsafeNodesAreNotReplayed

-----------------------------------------------------------------------------
(* Claims and workers.                                                     *)

\* A step that touches neither claims nor workers, after which nobody holds what he did not.
LEMMA HeldAsBefore ==
  ASSUME ClaimInvariant, UNCHANGED <<claims, releases, launched>>,
         \A c \in Callers : Holding(c)' => /\ Holding(c) /\ caller'[c].order = caller[c].order
                                           /\ caller'[c].at = "host" => caller[c].at = "host"
                                           /\ caller'[c].at = "release" => caller[c].at \in {"host", "release"}
  PROVE  ClaimInvariant'
<1>1. \A c \in Callers : Holding(c)' => Holding(c) /\ ClaimOf(c)' = ClaimOf(c)
  BY DEF ClaimOf
<1>2. \A c \in Callers : Holding(c)' => /\ ClaimOf(c)' \in (claims \ releases)'
                                        /\ caller'[c].at \in {"host", "release"} => ClaimOf(c)' \notin launched'
  BY <1>1 DEF ClaimInvariant
<1>3. \A c, e \in Callers : Holding(c)' /\ Holding(e)' /\ ClaimOf(c)' = ClaimOf(e)' => c = e
  BY <1>1 DEF ClaimInvariant
<1>4. \A e \in claims' : e[3] <= Cardinality(EventsOf(claims', [node |-> e[1], attempt |-> e[2]]))
  BY DEF ClaimInvariant
<1> QED
  BY <1>2, <1>3, <1>4 DEF ClaimInvariant

\* The events of an attempt.
LEMMA EventsAt ==
  ASSUME NEW events, NEW order
  PROVE  EventsOf(events, order) = EventsOf(events, [node |-> order.node, attempt |-> order.attempt])
BY DEF EventsOf

\* A claim gets a number of its own.
LEMMA ClaimIsNew ==
  ASSUME ClaimInvariant, DispatchTypeOK, NEW order,
         NEW number, number = Cardinality(EventsOf(claims, order)) + 1
  PROVE  <<order.node, order.attempt, number>> \notin claims
<1>1. Cardinality(EventsOf(claims, order)) \in Nat
  BY ClaimCount DEF DispatchTypeOK
<1>2. SUFFICES ASSUME <<order.node, order.attempt, number>> \in claims PROVE FALSE
  OBVIOUS
<1>3. number <= Cardinality(EventsOf(claims, [node |-> order.node, attempt |-> order.attempt]))
  BY <1>2 DEF ClaimInvariant
<1> QED
  BY <1>1, <1>3, EventsAt

\* When no claim of an attempt is without its release, all its claims are released.
LEMMA NoneRan ==
  ASSUME ClaimInvariant, DispatchTypeOK, NEW order, ~MayHaveRun(order)
  PROVE  EventsOf(claims, order) \subseteq releases
<1> DEFINE C == EventsOf(claims, order)
           R == EventsOf(releases, order)
<1>1. R \subseteq C /\ R \subseteq releases
  BY DEF ClaimInvariant, EventsOf
<1>2. IsFiniteSet(C)
  BY FS_Subset DEF DispatchTypeOK, EventsOf
<1>3. Cardinality(C) \in Nat /\ Cardinality(R) \in Nat /\ ~(Cardinality(C) > Cardinality(R))
  BY <1>1, <1>2, FS_Subset, FS_CardinalityType DEF MayHaveRun
<1> HIDE DEF C, R
<1>4. Cardinality(R) <= Cardinality(C) /\ (Cardinality(C) = Cardinality(R) => C = R)
  BY <1>1, <1>2, FS_Subset
<1>5. C = R
  BY <1>3, <1>4
<1> QED
  BY <1>1, <1>5 DEF C

\* One more claim: every number stays below the count.
LEMMA CountedOnwards ==
  ASSUME ClaimInvariant, DispatchTypeOK, NEW order,
         NEW number, number = Cardinality(EventsOf(claims, order)) + 1,
         NEW more, more = claims \cup {<<order.node, order.attempt, number>>},
         NEW e \in more
  PROVE  e[3] <= Cardinality(EventsOf(more, [node |-> e[1], attempt |-> e[2]]))
<1> DEFINE claim == <<order.node, order.attempt, number>>
           at(x) == [node |-> x[1], attempt |-> x[2]]
<1>1. IsFiniteSet(more) /\ claim \notin claims
  BY ClaimIsNew, FS_AddElement DEF DispatchTypeOK
<1>2. CASE e \in claims
  <2>1. e[3] <= Cardinality(EventsOf(claims, at(e))) /\ e[3] \in Nat
    BY <1>2 DEF ClaimInvariant, DispatchTypeOK
  <2>2. EventsOf(claims, at(e)) \subseteq EventsOf(more, at(e)) /\ IsFiniteSet(EventsOf(more, at(e)))
    <3>1. EventsOf(more, at(e)) \subseteq more
      BY DEF EventsOf
    <3> QED
      BY <1>1, <3>1, FS_Subset DEF EventsOf
  <2> HIDE DEF at
  <2>3. /\ Cardinality(EventsOf(claims, at(e))) <= Cardinality(EventsOf(more, at(e)))
        /\ Cardinality(EventsOf(claims, at(e))) \in Nat /\ Cardinality(EventsOf(more, at(e))) \in Nat
    BY <2>2, FS_Subset, FS_CardinalityType
  <2>4. e[3] <= Cardinality(EventsOf(more, at(e)))
    BY <2>1, <2>3
  <2> QED
    BY <2>4 DEF at
<1>3. CASE e = claim
  <2> DEFINE C == EventsOf(claims, order)
  <2>1. EventsOf(more, at(e)) = C \cup {claim} /\ claim \notin C
    BY <1>1, <1>3 DEF EventsOf
  <2>2. IsFiniteSet(C) /\ C \subseteq claims
    BY FS_Subset DEF DispatchTypeOK, EventsOf
  <2>3. Cardinality(C) \in Nat /\ number = Cardinality(C) + 1
    BY <2>2, FS_CardinalityType
  <2> HIDE DEF C
  <2>4. Cardinality(C \cup {claim}) = Cardinality(C) + 1
    BY <2>1, <2>2, FS_AddElement
  <2> QED
    BY <1>3, <2>1, <2>3, <2>4
<1> QED
  BY <1>2, <1>3

\* Claim: the one step that makes a holder.
LEMMA ClaimKeeps ==
  ASSUME ClaimInvariant, DispatchTypeOK, NEW c \in Callers, Claim(c)
  PROVE  ClaimInvariant'
<1> DEFINE order  == caller[c].order
           number == Cardinality(EventsOf(claims, order)) + 1
           claim  == <<order.node, order.attempt, number>>
<1>1. /\ ~(MayHaveRun(order) /\ order.node \in Unsafe)
      /\ claims' = claims \cup {claim} /\ UNCHANGED <<releases, launched>>
      /\ caller' = [caller EXCEPT ![c].at = "host", ![c].order.number = number, ![c].count = @ + 1]
  BY DEF Claim
<1>2. claim \notin claims
  BY ClaimIsNew
<1>3. \A e \in claims' : e[3] <= Cardinality(EventsOf(claims', [node |-> e[1], attempt |-> e[2]]))
  BY <1>1, CountedOnwards
<1>4. ASSUME order.node \in Unsafe, NEW e \in claims \ releases PROVE ~(e[1] = order.node /\ e[2] = order.attempt)
  <2>1. EventsOf(claims, order) \subseteq releases
    BY <1>1, <1>4, NoneRan
  <2> QED
    BY <1>4, <2>1 DEF EventsOf
<1> HIDE DEF number
<1>5. /\ Holding(c)' /\ ClaimOf(c)' = claim
      /\ \A e \in Callers \ {c} : caller'[e] = caller[e]
  BY <1>1 DEF DispatchTypeOK, Holding, ClaimOf
<1> HIDE DEF claim, order
<1>6. \A e \in Callers \ {c} : (Holding(e)' <=> Holding(e)) /\ ClaimOf(e)' = ClaimOf(e)
  BY <1>5 DEF Holding, ClaimOf
<1>7. claim \notin releases /\ claim \notin launched
  BY <1>2 DEF ClaimInvariant
<1>8. releases' \subseteq claims' /\ launched' \subseteq claims' \ releases'
  BY <1>1 DEF ClaimInvariant
<1>9. \A e, f \in claims' \ releases' : e[1] \in Unsafe /\ e[1] = f[1] /\ e[2] = f[2] => e = f
  <2>1. claim[1] = order.node /\ claim[2] = order.attempt
    BY DEF claim
  <2>2. claims' = claims \cup {claim} /\ releases' = releases
    BY <1>1
  <2> SUFFICES ASSUME NEW e \in claims' \ releases', NEW f \in claims' \ releases',
                      e[1] \in Unsafe, e[1] = f[1], e[2] = f[2]
               PROVE  e = f
    OBVIOUS
  <2>3. CASE e \in claims /\ f \in claims
    BY <2>2, <2>3 DEF ClaimInvariant
  <2>4. CASE e = claim /\ f \in claims
    BY <1>4, <2>1, <2>2, <2>4
  <2>5. CASE e \in claims /\ f = claim
    BY <1>4, <2>1, <2>2, <2>5
  <2> QED
    BY <2>2, <2>3, <2>4, <2>5
<1>10. \A e \in Callers : Holding(e)' =>
         /\ ClaimOf(e)' \in claims' \ releases'
         /\ caller'[e].at \in {"host", "release"} => ClaimOf(e)' \notin launched'
  <2>1. claims' = claims \cup {claim} /\ releases' = releases /\ launched' = launched
    BY <1>1
  <2> SUFFICES ASSUME NEW e \in Callers, Holding(e)'
               PROVE  /\ ClaimOf(e)' \in claims' \ releases'
                      /\ caller'[e].at \in {"host", "release"} => ClaimOf(e)' \notin launched'
    OBVIOUS
  <2>2. CASE e = c
    BY <1>5, <1>7, <2>1, <2>2
  <2>3. CASE e # c
    <3>1. Holding(e) /\ ClaimOf(e)' = ClaimOf(e) /\ caller'[e] = caller[e]
      BY <1>5, <1>6, <2>3
    <3>2. /\ ClaimOf(e) \in claims \ releases
          /\ caller[e].at \in {"host", "release"} => ClaimOf(e) \notin launched
      BY <3>1 DEF ClaimInvariant
    <3> QED
      BY <2>1, <3>1, <3>2
  <2> QED
    BY <2>2, <2>3
<1>11. \A e, f \in Callers : Holding(e)' /\ Holding(f)' /\ ClaimOf(e)' = ClaimOf(f)' => e = f
  BY <1>2, <1>5, <1>6 DEF ClaimInvariant
<1> QED
  BY <1>3, <1>8, <1>9, <1>10, <1>11 DEF ClaimInvariant

\* Launch: the worker is that of the claim its drive holds.
LEMMA LaunchKeeps ==
  ASSUME ClaimInvariant, DispatchTypeOK, NEW c \in Callers, Launch(c)
  PROVE  ClaimInvariant'
<1>1. /\ caller[c].at = "host" /\ Goto(c, "working") /\ UNCHANGED <<claims, releases>>
      /\ launched' = launched \cup {ClaimOf(c)}
  BY DEF Launch, ClaimOf
<1>2. /\ caller'[c].at = "working" /\ caller'[c].order = caller[c].order
      /\ \A e \in Callers \ {c} : caller'[e] = caller[e]
  BY <1>1 DEF Goto, DispatchTypeOK
<1>3. \A e \in Callers : (Holding(e)' <=> Holding(e)) /\ ClaimOf(e)' = ClaimOf(e)
  BY <1>1, <1>2 DEF Holding, ClaimOf
<1>4. Holding(c) /\ ClaimOf(c) \in claims \ releases
  BY <1>1 DEF Holding, ClaimInvariant
<1>5. \A e \in Callers : Holding(e)' =>
        /\ ClaimOf(e)' \in claims' \ releases'
        /\ caller'[e].at \in {"host", "release"} => ClaimOf(e)' \notin launched'
  BY <1>1, <1>2, <1>3, <1>4 DEF ClaimInvariant
<1>6. /\ releases' \subseteq claims' /\ launched' \subseteq claims' \ releases'
      /\ \A e, f \in claims' \ releases' : e[1] \in Unsafe /\ e[1] = f[1] /\ e[2] = f[2] => e = f
      /\ \A e, f \in Callers : Holding(e)' /\ Holding(f)' /\ ClaimOf(e)' = ClaimOf(f)' => e = f
  BY <1>1, <1>3, <1>4 DEF ClaimInvariant
<1>7. \A e \in claims' : e[3] <= Cardinality(EventsOf(claims', [node |-> e[1], attempt |-> e[2]]))
  BY <1>1 DEF ClaimInvariant
<1> QED
  BY <1>5, <1>6, <1>7 DEF ClaimInvariant

\* ReleaseClaim: no worker began on the claim, and nobody else holds it.
LEMMA ReleaseKeeps ==
  ASSUME ClaimInvariant, DispatchTypeOK, NEW c \in Callers, ReleaseClaim(c)
  PROVE  ClaimInvariant'
<1>1. /\ caller[c].at = "release" /\ Leave(c) /\ UNCHANGED <<claims, launched>>
      /\ releases' = releases \cup {ClaimOf(c)}
  BY DEF ReleaseClaim, ClaimOf
<1>2. caller'[c].at = "off" /\ \A e \in Callers \ {c} : caller'[e] = caller[e]
  BY <1>1, LeaveType
<1>3. ~Holding(c)' /\ \A e \in Callers \ {c} : (Holding(e)' <=> Holding(e)) /\ ClaimOf(e)' = ClaimOf(e)
  BY <1>2 DEF Holding, ClaimOf
<1>4. Holding(c) /\ ClaimOf(c) \in claims \ releases /\ ClaimOf(c) \notin launched
  BY <1>1 DEF Holding, ClaimInvariant
<1>5. \A e \in Callers : Holding(e)' =>
        /\ ClaimOf(e)' \in claims' \ releases'
        /\ caller'[e].at \in {"host", "release"} => ClaimOf(e)' \notin launched'
  BY <1>1, <1>2, <1>3, <1>4 DEF ClaimInvariant
<1>6. /\ releases' \subseteq claims' /\ launched' \subseteq claims' \ releases'
      /\ \A e, f \in claims' \ releases' : e[1] \in Unsafe /\ e[1] = f[1] /\ e[2] = f[2] => e = f
      /\ \A e, f \in Callers : Holding(e)' /\ Holding(f)' /\ ClaimOf(e)' = ClaimOf(f)' => e = f
  BY <1>1, <1>3, <1>4 DEF ClaimInvariant
<1>7. \A e \in claims' : e[3] <= Cardinality(EventsOf(claims', [node |-> e[1], attempt |-> e[2]]))
  BY <1>1 DEF ClaimInvariant
<1> QED
  BY <1>5, <1>6, <1>7 DEF ClaimInvariant

\* Where the steps of dispatch put the callers: every caller but one stays, and that one
\* becomes a holder only by Claim.
LEMMA OthersStay ==
  ASSUME DispatchInvariant, NEW c \in Callers,
         \/ CheckLease(c) \/ Refused(c) \/ DriveAlone(c) \/ StartDrive(c) \/ Operate(c)
         \/ \E result \in WorkerResults : SubmitResult(c, result)
         \/ c = client /\ (EngineReturns \/ EngineRaises),
         ~Claim(c), ~Launch(c), ~ReleaseClaim(c)
  PROVE  /\ UNCHANGED <<claims, releases, launched>>
         /\ \A e \in Callers \ {c} : caller'[e] = caller[e]
         /\ \/ caller'[c].at \in {"off", "checked", "operating", "starting", "lease", "load", "claim", "submitting"}
            \/ caller[c].at = "host" /\ caller'[c].at = "release" /\ caller'[c].order = caller[c].order
<1>t. DispatchTypeOK /\ ClientKnown
  BY DEF DispatchInvariant
<1>1. CASE HostUnavailable(c)
  BY <1>t, <1>1 DEF HostUnavailable, Goto, DispatchTypeOK
<1>2. ASSUME NEW n \in Nodes, TakeOrder(c, n)
      PROVE  /\ UNCHANGED <<claims, releases, launched>> /\ caller'[c].at = "claim"
             /\ \A e \in Callers \ {c} : caller'[e] = caller[e]
  BY <1>t, <1>2 DEF TakeOrder, DispatchTypeOK
<1>3. CASE StopDrive(c) \/ NoClaim(c) \/ HostDeclined(c) \/ SubmitRefused(c) \/ LockTimeout(c)
  <2>1. Leave(c) /\ UNCHANGED <<claims, releases, launched>>
    BY <1>3 DEF StopDrive, NoClaim, HostDeclined, SubmitRefused, LockTimeout
  <2> QED
    BY <1>t, <2>1, LeaveType
<1>4. CASE CheckLease(c) \/ Refused(c) \/ NoDrive(c) \/ AcquireLease(c)
  <2>1. /\ UNCHANGED <<claims, releases, launched>>
        /\ Goto(c, "off") \/ Goto(c, "checked") \/ Goto(c, "load")
    BY <1>4 DEF CheckLease, Refused, NoDrive, AcquireLease
  <2> QED
    BY <1>t, <2>1, GotoType DEF Stages
<1>5. CASE StartDrive(c) \/ Operate(c) \/ \E result \in WorkerResults : SubmitResult(c, result)
  <2>1. /\ UNCHANGED <<claims, releases, launched>>
        /\ Goto(c, "starting") \/ Goto(c, "operating") \/ Goto(c, "submitting")
    BY <1>5 DEF StartDrive, Operate, SubmitResult
  <2> QED
    BY <1>t, <2>1, GotoType DEF Stages
<1>6. CASE c = client /\ (EngineReturns \/ EngineRaises)
  <2>1. UNCHANGED <<claims, releases, launched>>
    BY <1>6 DEF EngineReturns, EngineRaises
  <2>2. caller[client].at \in {"operating", "starting", "submitting"}
    <3>1. pc # "idle"
      BY <1>6 DEF EngineReturns, EngineRaises, Save, RecordCreation, ExecutorMissing, AtNode, Visiting
    <3> QED
      BY <1>t, <1>6, <3>1, DispatchAssumption DEF ClientKnown
  <2>3. Leave(c) \/ Goto(c, "lease") \/ Goto(c, "load")
    BY <1>6, <2>2 DEF EngineReturns, EngineRaises
  <2>4. CASE Leave(c)
    BY <1>t, <2>1, <2>4, LeaveType
  <2>5. CASE Goto(c, "lease") \/ Goto(c, "load")
    BY <1>t, <2>1, <2>5, GotoType DEF Stages
  <2> QED
    BY <2>3, <2>4, <2>5
<1> QED
  BY <1>1, <1>2, <1>3, <1>4, <1>5, <1>6 DEF DriveAlone

\* The claims invariant is inductive.
LEMMA ClaimStep ==
  ASSUME ClaimInvariant, DispatchInvariant, [DispatchNext]_allvars
  PROVE  ClaimInvariant'
<1>t. DispatchTypeOK /\ ClientKnown
  BY DEF DispatchInvariant
<1>1. ASSUME NEW c \in Callers,
             \/ CheckLease(c) \/ Refused(c) \/ DriveAlone(c) \/ StartDrive(c) \/ Operate(c)
             \/ \E result \in WorkerResults : SubmitResult(c, result)
             \/ c = client /\ (EngineReturns \/ EngineRaises)
      PROVE  ClaimInvariant'
  <2>1. CASE Claim(c) \/ Launch(c) \/ ReleaseClaim(c)
    BY <1>t, <2>1, ClaimKeeps, LaunchKeeps, ReleaseKeeps
  <2>2. CASE ~Claim(c) /\ ~Launch(c) /\ ~ReleaseClaim(c)
    <3>1. /\ UNCHANGED <<claims, releases, launched>>
          /\ \A e \in Callers \ {c} : caller'[e] = caller[e]
          /\ \/ caller'[c].at \in {"off", "checked", "operating", "starting", "lease", "load", "claim", "submitting"}
             \/ caller[c].at = "host" /\ caller'[c].at = "release" /\ caller'[c].order = caller[c].order
      BY <1>1, <2>2, OthersStay
    <3> QED
      BY <3>1, HeldAsBefore DEF Holding
  <2> QED
    BY <2>1, <2>2
<1>2. CASE EngineReturns \/ EngineRaises
  <2>1. client \in Callers
    <3>1. pc # "idle"
      BY <1>2 DEF EngineReturns, EngineRaises, Save, RecordCreation, ExecutorMissing, AtNode, Visiting
    <3> QED
      BY <1>t, <3>1 DEF ClientKnown, DispatchTypeOK
  <2> QED
    BY <1>1, <1>2, <2>1
<1>3. CASE EngineWorks \/ ConfigChanges \/ UNCHANGED allvars
  <2>1. UNCHANGED <<caller, claims, releases, launched>>
    BY <1>3 DEF EngineWorks, ConfigChanges, allvars, dispatch
  <2> QED
    BY <2>1, HeldAsBefore DEF Holding
<1>4. ASSUME NEW p \in Processes, ProcessDies(p) PROVE ClaimInvariant'
  <2>1. /\ caller' = [c \in Callers |-> IF ProcessOf[c] = p THEN Off ELSE caller[c]]
        /\ UNCHANGED <<claims, releases, launched>>
    BY <1>4 DEF ProcessDies
  <2>2. \A c \in Callers : Holding(c)' => caller'[c] = caller[c]
    BY <2>1, OffType DEF Holding
  <2> QED
    BY <2>1, <2>2, HeldAsBefore DEF Holding
<1> QED
  BY <1>1, <1>2, <1>3, <1>4, DispatchCases

LEMMA ClaimInit == DispatchInit => ClaimInvariant
<1> SUFFICES ASSUME DispatchInit PROVE ClaimInvariant
  OBVIOUS
<1>1. claims = {} /\ releases = {} /\ launched = {} /\ \A c \in Callers : ~Holding(c)
  BY CallersAtFirst DEF DispatchInit, Holding
<1> QED
  BY <1>1 DEF ClaimInvariant

\* At most one worker begins on an attempt of a node with effects, whichever processes drive
\* the run, die, time out or find their host unavailable.
THEOREM WorkersAreNotReplayed == DispatchSpec => []WorkerNotReplayed
<1>1. ClaimInvariant => WorkerNotReplayed
  BY DEF ClaimInvariant, WorkerNotReplayed
<1>2. DispatchInit => ClaimInvariant
  BY ClaimInit
<1>3. ClaimInvariant /\ DispatchInvariant /\ [DispatchNext]_allvars => ClaimInvariant'
  BY ClaimStep
<1> QED
  BY <1>1, <1>2, <1>3, DispatchInvariantHolds, PTL DEF DispatchSpec

-----------------------------------------------------------------------------
(* Orders and results.                                                     *)

\* A step that leaves every node alone that was handed out.
LEMMA HandedStays ==
  ASSUME NEW r, NEW q, \A n \in Unsafe : Handed(r, n) => q.nodes[n] = r.nodes[n]
  PROVE  KeepsHanded(r, q)
BY DEF KeepsHanded, Handed, Open

LEMMA HandedFurther ==
  ASSUME NEW r, NEW m, NEW q, KeepsHanded(r, m), KeepsHanded(m, q)
  PROVE  KeepsHanded(r, q)
BY DEF KeepsHanded

\* One node changes that was not handed out.
LEMMA EditKeepsHanded ==
  ASSUME NEW r, NEW n \in Nodes, NEW q, \A m \in Nodes \ {n} : q.nodes[m] = r.nodes[m], ~Handed(r, n)
  PROVE  KeepsHanded(r, q)
<1>1. Unsafe \subseteq Nodes
  BY DEF Unsafe
<1> QED
  BY <1>1, HandedStays

\* A node that fails is over, and so are those it takes along.
LEMMA FailNodeKeepsHanded ==
  ASSUME NEW r \in Run, NEW n \in Nodes, NEW q, q = FailNode(r, n)
  PROVE  KeepsHanded(r, q) /\ Handed(q, n) /\ q.nodes[n].attempts = r.nodes[n].attempts
<1>1. ASSUME NEW m \in Nodes
      PROVE  /\ q.nodes[m].attempts = r.nodes[m].attempts
             /\ (q.nodes[m] = r.nodes[m] /\ m # n) \/ q.nodes[m].status \in {"FAILED", "SKIPPED"}
  <2>1. r.nodes[m] \in NodeState
    BY DEF Run
  <2> QED
    BY <2>1 DEF FailNode, Skipped, Run, NodeState
<1>2. \A m \in Nodes : q.nodes[m].status \in {"FAILED", "SKIPPED"} => Handed(q, m)
  BY DEF Handed, Open, NodeTerminal
<1>3. KeepsHanded(r, q)
  <2>1. ASSUME NEW m \in Unsafe, Handed(r, m) PROVE Handed(q, m) /\ q.nodes[m].attempts = r.nodes[m].attempts
    <3>1. m \in Nodes
      BY DEF Unsafe
    <3>2. q.nodes[m] = r.nodes[m] => Handed(q, m)
      BY <2>1 DEF Handed, Open
    <3> QED
      BY <1>1, <1>2, <3>1, <3>2
  <2> QED
    BY <2>1 DEF KeepsHanded
<1> QED
  BY <1>1, <1>2, <1>3

\* A node that delivers is handed out still, for review, or over.
LEMMA DeliveryKeepsHanded ==
  ASSUME NEW r, NEW n \in Nodes, NEW q, \A m \in Nodes \ {n} : q.nodes[m] = r.nodes[m],
         q.nodes[n].attempts = r.nodes[n].attempts,
         q.nodes[n].status = "SUCCEEDED" \/ (q.nodes[n].status = "RUNNING" /\ q.nodes[n].wait = "review")
  PROVE  KeepsHanded(r, q) /\ Handed(q, n)
<1>1. Handed(q, n)
  BY DEF Handed, Open, NodeTerminal
<1>2. ASSUME NEW m \in Unsafe, Handed(r, m) PROVE Handed(q, m) /\ q.nodes[m].attempts = r.nodes[m].attempts
  <2>1. m \in Nodes
    BY DEF Unsafe
  <2>2. m # n => Handed(q, m)
    BY <1>2, <2>1 DEF Handed, Open
  <2> QED
    BY <1>1, <2>1, <2>2
<1> QED
  BY <1>1, <1>2 DEF KeepsHanded

\* The attempt of an unsafe node that delivers, or fails, is never repeated.
LEMMA CompleteAttemptKeepsHanded ==
  ASSUME NEW r \in Run, NEW n \in Nodes, NEW result \in Results, r.nodes[n].status = "RUNNING",
         NEW q, q = CompleteAttempt(r, n, result)
  PROVE  /\ KeepsHanded(r, q)
         /\ n \in Unsafe => Handed(q, n) /\ q.nodes[n].attempts = r.nodes[n].attempts
<1> DEFINE stored == [r EXCEPT !.nodes[n].outputs = result.outputs]
           outcome == Outcome(result)
<1>1. r.nodes[n] \in NodeState
  BY DEF Run
<1>2. CASE outcome = "SUCCESS" /\ PendingGates(stored, n, "review") # {}
  <2>1. q = [stored EXCEPT !.nodes[n].wait = "review"]
    BY <1>2 DEF CompleteAttempt
  <2>2. /\ \A m \in Nodes \ {n} : q.nodes[m] = r.nodes[m]
        /\ q.nodes[n].status = "RUNNING" /\ q.nodes[n].attempts = r.nodes[n].attempts /\ q.nodes[n].wait = "review"
    BY <1>1, <2>1 DEF Run, NodeState
  <2> QED
    BY <2>2, DeliveryKeepsHanded
<1>3. CASE outcome = "SUCCESS" /\ PendingGates(stored, n, "review") = {}
  <2>1. q = [stored EXCEPT !.nodes[n].status = "SUCCEEDED"]
    BY <1>3 DEF CompleteAttempt
  <2>2. /\ \A m \in Nodes \ {n} : q.nodes[m] = r.nodes[m]
        /\ q.nodes[n].status = "SUCCEEDED" /\ q.nodes[n].attempts = r.nodes[n].attempts
    BY <1>1, <2>1 DEF Run, NodeState
  <2> QED
    BY <2>2, DeliveryKeepsHanded
<1>4. CASE outcome # "SUCCESS" /\ RetryAllowed(r, n, outcome)
  <2>1. q = [r EXCEPT !.nodes[n].status = "READY"]
    BY <1>4 DEF CompleteAttempt
  <2>2. \A m \in Nodes \ {n} : q.nodes[m] = r.nodes[m]
    BY <2>1 DEF Run
  <2>3. n \notin Unsafe
    BY <1>4 DEF RetryAllowed, Unsafe
  <2>4. \A m \in Unsafe : q.nodes[m] = r.nodes[m]
    BY <2>2, <2>3 DEF Unsafe
  <2> QED
    BY <2>3, <2>4, HandedStays
<1>5. CASE outcome # "SUCCESS" /\ ~RetryAllowed(r, n, outcome)
  <2>1. q = FailNode(r, n)
    BY <1>5 DEF CompleteAttempt
  <2> QED
    BY <2>1, FailNodeKeepsHanded
<1> QED
  BY <1>2, <1>3, <1>4, <1>5

\* A decision leaves alone what is handed out, or ends it.
LEMMA GateDecidedKeepsHanded ==
  ASSUME NEW r \in Run, Coherent(r), NEW g \in Gates, AwaitsDecision(r, g), NEW decision \in {"APPROVED", "DENIED"},
         NEW q, q = GateDecided(r, g, decision)
  PROVE  KeepsHanded(r, q)
<1> DEFINE n == GateNode[g]
           d == Decided(r, g, decision)
<1>1. n \in Nodes /\ GateType[g] \in GateTypes
  BY GateAssumption
<1>2. d \in Run /\ d.nodes = r.nodes
  BY DecidedType
<1>3. d.nodes[n] \in NodeState /\ r.nodes[n].wait = GateType[g]
  BY <1>1, <1>2 DEF Run, AwaitsDecision
<1>4. GateType[g] = "approval" => r.nodes[n].status = "READY"
  BY <1>1, <1>3 DEF Coherent
<1> HIDE DEF d, n
<1>5. \/ q = FailNode(d, n) \/ q = d
      \/ GateType[g] = "approval" /\ q = [d EXCEPT !.nodes[n].wait = "none"]
      \/ GateType[g] = "review" /\ q = [d EXCEPT !.nodes[n].wait = "none", !.nodes[n].status = "SUCCEEDED"]
  BY <1>1 DEF GateDecided, GateTypes, d, n
<1>6. CASE q = FailNode(d, n)
  <2>1. KeepsHanded(d, q)
    BY <1>1, <1>2, <1>6, FailNodeKeepsHanded
  <2> QED
    BY <1>2, <2>1 DEF KeepsHanded, Handed, Open
<1>7. CASE q = d
  BY <1>2, <1>7, HandedStays
<1>8. CASE GateType[g] = "approval" /\ q = [d EXCEPT !.nodes[n].wait = "none"]
  <2>1. \A m \in Nodes \ {n} : q.nodes[m] = r.nodes[m]
    BY <1>2, <1>8 DEF Run
  <2>2. ~Handed(r, n)
    BY <1>4, <1>8 DEF Handed, Open, NodeTerminal
  <2> QED
    BY <1>1, <2>1, <2>2, EditKeepsHanded
<1>9. CASE GateType[g] = "review" /\ q = [d EXCEPT !.nodes[n].wait = "none", !.nodes[n].status = "SUCCEEDED"]
  <2>1. /\ \A m \in Nodes \ {n} : q.nodes[m] = r.nodes[m]
        /\ q.nodes[n].status = "SUCCEEDED" /\ q.nodes[n].attempts = r.nodes[n].attempts
    BY <1>1, <1>2, <1>3, <1>9 DEF Run, NodeState
  <2> QED
    BY <1>1, <2>1, DeliveryKeepsHanded
<1> QED
  BY <1>5, <1>6, <1>7, <1>8, <1>9

\* Nor do recovery, cancellation and refresh take back what was handed out.
LEMMA SweepsKeepHanded ==
  ASSUME NEW r \in Run
  PROVE  KeepsHanded(r, Recovered(r)) /\ KeepsHanded(r, SkipOpenNodes(r))
<1>1. Unsafe \subseteq Nodes
  BY DEF Unsafe
<1>2. KeepsHanded(r, Recovered(r))
  <2>1. ASSUME NEW n \in Unsafe, Handed(r, n) PROVE Recovered(r).nodes[n] = r.nodes[n]
    <3>1. ~Interrupted(r, n)
      BY <2>1 DEF Handed, Open, Interrupted, NodeTerminal
    <3>2. n \in Nodes
      BY <1>1
    <3>3. Recovered(r).nodes[n] = IF ~Interrupted(r, n) THEN r.nodes[n]
                                  ELSE IF n \in Unsafe THEN [r.nodes[n] EXCEPT !.wait = "attention"]
                                  ELSE [r.nodes[n] EXCEPT !.status = "READY"]
      BY <3>2 DEF Recovered, Run
    <3> QED
      BY <3>1, <3>3
  <2> QED
    BY <2>1, HandedStays
<1>3. KeepsHanded(r, SkipOpenNodes(r))
  <2>1. ASSUME NEW n \in Unsafe, Handed(r, n)
        PROVE  Handed(SkipOpenNodes(r), n) /\ SkipOpenNodes(r).nodes[n].attempts = r.nodes[n].attempts
    <3>1. r.nodes[n] \in NodeState /\ n \in Nodes
      BY <1>1 DEF Run
    <3>2. SkipOpenNodes(r).nodes[n] = IF Open(r, n) THEN Skipped(r.nodes[n]) ELSE r.nodes[n]
      BY <3>1 DEF SkipOpenNodes, Run
    <3>3. /\ SkipOpenNodes(r).nodes[n].attempts = r.nodes[n].attempts
          /\ \/ SkipOpenNodes(r).nodes[n].status = "SKIPPED"
             \/ ~Open(r, n) /\ SkipOpenNodes(r).nodes[n] = r.nodes[n]
      BY <3>1, <3>2 DEF Skipped, NodeState
    <3>4. ~Open(SkipOpenNodes(r), n)
      BY <3>3 DEF Open, NodeTerminal
    <3> QED
      BY <3>3, <3>4 DEF Handed
  <2> QED
    BY <2>1 DEF KeepsHanded
<1> QED
  BY <1>2, <1>3

LEMMA RefreshKeepsHanded ==
  ASSUME NEW r \in Run, NEW n \in Nodes, NEW q, RefreshedAt(r, q, n)
  PROVE  KeepsHanded(r, q)
<1>1. q.nodes[n] = Refreshed(r, n) /\ \A m \in Nodes \ {n} : q.nodes[m] = r.nodes[m]
  BY DEF RefreshedAt, Run
<1>2. CASE r.nodes[n].status \in {"PENDING", "READY"}
  <2>1. ~Handed(r, n)
    BY <1>2 DEF Handed, Open, NodeTerminal
  <2> QED
    BY <1>1, <2>1, EditKeepsHanded
<1>3. CASE r.nodes[n].status \notin {"PENDING", "READY"}
  <2>1. q.nodes[n] = r.nodes[n]
    BY <1>1, <1>3 DEF Refreshed
  <2>2. \A m \in Unsafe : q.nodes[m] = r.nodes[m]
    BY <1>1, <2>1 DEF Unsafe
  <2> QED
    BY <2>2, HandedStays
<1> QED
  BY <1>2, <1>3

\* A request leaves what was handed out on disk as it is, or ends it.
LEMMA RequestKeepsHanded ==
  ASSUME TypeOK, RunInvariant, Request
  PROVE  disk' = disk /\ KeepsHanded(disk, mem')
<1>t. disk \in Run /\ Coherent(disk)
  BY DEF TypeOK, RunInvariant
<1>n. \A q : q.nodes = disk.nodes => KeepsHanded(disk, q)
  BY HandedStays
<1>1. ASSUME NEW decision \in {"APPROVED", "DENIED"}, DecidePlan(decision) PROVE disk' = disk /\ KeepsHanded(disk, mem')
  <2>1. CASE decision = "APPROVED"
    <3>1. disk' = disk /\ mem' = [disk EXCEPT !.status = "APPROVED", !.plan = "APPROVED"]
      BY <1>1, <2>1 DEF DecidePlan
    <3>2. mem'.nodes = disk.nodes
      BY <1>t, <3>1 DEF Run
    <3> QED
      BY <1>n, <3>1, <3>2
  <2>2. CASE decision = "DENIED"
    <3>1. disk' = disk /\ mem' = [SkipOpenNodes(disk) EXCEPT !.status = "CANCELLED", !.plan = "DENIED"]
      BY <1>1, <2>2 DEF DecidePlan
    <3>2. mem'.nodes = SkipOpenNodes(disk).nodes
      BY <1>t, <3>1 DEF Run, SkipOpenNodes
    <3> QED
      BY <1>t, <3>1, <3>2, SweepsKeepHanded DEF KeepsHanded, Handed, Open
  <2> QED
    BY <2>1, <2>2
<1>2. ASSUME NEW decision \in {"APPROVED", "DENIED"}, NEW g \in Gates, DecideGate(g, decision)
      PROVE  disk' = disk /\ KeepsHanded(disk, mem')
  <2>1. disk' = disk /\ AwaitsDecision(disk, g) /\ mem' = GateDecided(disk, g, decision)
    BY <1>2 DEF DecideGate
  <2> QED
    BY <1>t, <2>1, GateDecidedKeepsHanded
<1>3. CASE Execute
  <2>1. disk' = disk /\ mem' = [disk EXCEPT !.status = "RUNNING"]
    BY <1>3 DEF Execute
  <2>2. mem'.nodes = disk.nodes
    BY <1>t, <2>1 DEF Run
  <2> QED
    BY <1>n, <2>1, <2>2
<1>4. ASSUME NEW n \in Nodes, NEW result \in Results, Submit(n, result) PROVE disk' = disk /\ KeepsHanded(disk, mem')
  <2>1. PICK r : r = [disk EXCEPT !.nodes[n].wait = "none"]
    OBVIOUS
  <2>2. disk' = disk /\ mem' = CompleteAttempt(r, n, result) /\ disk.nodes[n].status = "RUNNING"
    BY <1>4, <2>1 DEF Submit, AwaitsSubmission
  <2>3. r \in Run /\ r.nodes[n].status = "RUNNING"
    BY <1>t, <2>1, <2>2, WaitAdvances DEF Waits
  <2>4. /\ r.nodes[n].attempts = disk.nodes[n].attempts
        /\ \A m \in Nodes \ {n} : r.nodes[m] = disk.nodes[m]
    BY <1>t, <2>1 DEF Run, NodeState
  <2>5. /\ KeepsHanded(r, mem')
        /\ n \in Unsafe => Handed(mem', n) /\ mem'.nodes[n].attempts = r.nodes[n].attempts
    BY <2>2, <2>3, CompleteAttemptKeepsHanded
  <2>6. \A m \in Unsafe : m \in Nodes /\ (m # n /\ Handed(disk, m) => Handed(r, m))
    BY <2>4 DEF Unsafe, Handed, Open
  <2> QED
    BY <2>2, <2>4, <2>5, <2>6 DEF KeepsHanded
<1>5. CASE Resume
  <2>1. PICK r : r = Recovered(disk)
    OBVIOUS
  <2>2. disk' = disk /\ (mem' = r \/ mem' = [r EXCEPT !.status = "RUNNING"])
    BY <1>5, <2>1 DEF Resume
  <2>3. KeepsHanded(disk, r) /\ r \in Run
    BY <1>t, <2>1, SweepsKeepHanded, RecoveredType
  <2>4. mem'.nodes = r.nodes
    BY <2>2, <2>3 DEF Run
  <2> QED
    BY <2>2, <2>3, <2>4 DEF KeepsHanded, Handed, Open
<1>6. ASSUME NEW n \in Nodes, RetryNode(n) PROVE disk' = disk /\ KeepsHanded(disk, mem')
  <2>1. /\ disk' = disk /\ disk.nodes[n].wait = "attention"
        /\ mem' = [disk EXCEPT !.status = "RUNNING", !.nodes[n].wait = "none", !.nodes[n].status = "READY"]
    BY <1>6 DEF RetryNode
  <2>2. \A m \in Nodes \ {n} : mem'.nodes[m] = disk.nodes[m]
    BY <1>t, <2>1 DEF Run
  <2>3. disk.nodes[n].status = "RUNNING"
    BY <1>t, <2>1 DEF Coherent
  <2>4. ~Handed(disk, n)
    BY <2>1, <2>3 DEF Handed, Open, NodeTerminal
  <2>5. KeepsHanded(disk, mem')
    BY <2>2, <2>4, EditKeepsHanded
  <2> QED
    BY <2>1, <2>5
<1>7. CASE Cancel
  <2>1. disk' = disk /\ mem' = [SkipOpenNodes(disk) EXCEPT !.status = "CANCELLED", !.holds = {}]
    BY <1>7 DEF Cancel
  <2>2. mem'.nodes = SkipOpenNodes(disk).nodes
    BY <1>t, <2>1 DEF Run, SkipOpenNodes
  <2> QED
    BY <1>t, <2>1, <2>2, SweepsKeepHanded DEF KeepsHanded, Handed, Open
<1>8. CASE Verify
  <2>1. disk' = disk /\ mem' = [disk EXCEPT !.verification = receipt']
    BY <1>8 DEF Verify
  <2>2. mem'.nodes = disk.nodes
    BY <1>t, <2>1 DEF Run
  <2> QED
    BY <1>n, <2>1, <2>2
<1> QED
  BY <1>1, <1>2, <1>3, <1>4, <1>5, <1>6, <1>7, <1>8 DEF Request

\* So does the engine at a node.
LEMMA VisitKeepsHanded ==
  ASSUME TypeOK, RunInvariant, VisitNode
  PROVE  disk' = disk /\ (KeepsHanded(mem, mem') \/ mem' = disk)
<1> DEFINE n == Current
<1>t. n \in Nodes /\ mem \in Run
  BY CurrentIsNode DEF VisitNode, TypeOK, HoldForApproval, RefuseNode, ExecutorMissing,
     StartNode, DeferNode, RunBuiltin, AtNode, Visiting, Current
<1>r. mem.nodes[n].status = "READY" => ~Handed(mem, n)
  BY DEF Handed, Open, NodeTerminal
<1>1. CASE HoldForApproval(n)
  <2>1. disk' = disk /\ mem' = [mem EXCEPT !.nodes[n].wait = "approval"] /\ mem.nodes[n].status = "READY"
    BY <1>1 DEF HoldForApproval, AtNode, Visitable
  <2>2. \A m \in Nodes \ {n} : mem'.nodes[m] = mem.nodes[m]
    BY <1>t, <2>1 DEF Run
  <2>3. ~Handed(mem, n)
    BY <1>r, <2>1
  <2>4. KeepsHanded(mem, mem')
    BY <1>t, <2>2, <2>3, EditKeepsHanded
  <2> QED
    BY <2>1, <2>4
<1>2. CASE RefuseNode(n)
  <2>1. PICK r : r = [mem EXCEPT !.nodes[n].wait = "none"]
    OBVIOUS
  <2>2. disk' = disk /\ mem' = FailNode(r, n) /\ mem.nodes[n].status = "READY"
    BY <1>2, <2>1 DEF RefuseNode, AtNode, Visitable
  <2>3. r \in Run /\ \A m \in Nodes \ {n} : r.nodes[m] = mem.nodes[m]
    <3>1. r \in Run
      BY <1>t, <2>1, WaitAdvances DEF Waits
    <3> QED
      BY <1>t, <2>1, <3>1 DEF Run
  <2>4. KeepsHanded(mem, r) /\ KeepsHanded(r, mem')
    BY <1>t, <1>r, <2>2, <2>3, EditKeepsHanded, FailNodeKeepsHanded
  <2> QED
    BY <2>2, <2>4, HandedFurther
<1>3. CASE ExecutorMissing(n)
  BY <1>3 DEF ExecutorMissing, Release
<1>4. CASE StartNode(n)
  <2>1. disk' = disk /\ mem' = Started(mem, n) /\ mem.nodes[n].status = "READY"
    BY <1>4 DEF StartNode, AtNode, Visitable
  <2>2. \A m \in Nodes \ {n} : mem'.nodes[m] = mem.nodes[m]
    BY <1>t, <2>1 DEF Started, Run
  <2> QED
    BY <1>t, <1>r, <2>1, <2>2, EditKeepsHanded
<1>5. CASE DeferNode(n)
  <2>1. pc = "call" /\ disk' = disk /\ mem' = [mem EXCEPT !.nodes[n].wait = "submission"]
    BY <1>5 DEF DeferNode
  <2>2. \A m \in Nodes \ {n} : mem'.nodes[m] = mem.nodes[m]
    BY <1>t, <2>1 DEF Run
  <2>3. mem.nodes[n].status = "RUNNING" /\ mem.nodes[n].wait = "none"
    BY <2>1 DEF RunInvariant
  <2>4. ~Handed(mem, n)
    BY <2>3 DEF Handed, Open, NodeTerminal
  <2>5. KeepsHanded(mem, mem')
    BY <1>t, <2>2, <2>4, EditKeepsHanded
  <2> QED
    BY <2>1, <2>5
<1>6. ASSUME NEW result \in Results, RunBuiltin(n, result) PROVE disk' = disk /\ KeepsHanded(mem, mem')
  <2>1. pc = "call" /\ disk' = disk /\ mem' = CompleteAttempt(mem, n, result)
    BY <1>6 DEF RunBuiltin
  <2>2. mem.nodes[n].status = "RUNNING"
    BY <2>1 DEF RunInvariant
  <2> QED
    BY <1>t, <2>1, <2>2, CompleteAttemptKeepsHanded
<1> QED
  BY <1>1, <1>2, <1>3, <1>4, <1>5, <1>6 DEF VisitNode, n

\* And every step of the engine, on disk and in memory.
LEMMA RunKeepsHanded ==
  ASSUME TypeOK, RunInvariant, OutcomeInvariant, KeepsHanded(disk, mem), [Next]_vars
  PROVE  KeepsHanded(disk', mem') /\ KeepsHanded(disk, disk')
<1>t. mem \in Run
  BY DEF TypeOK
<1>s. \A q : KeepsHanded(q, q)
  BY HandedStays
<1>w. disk' = disk /\ KeepsHanded(mem, mem') => KeepsHanded(disk', mem') /\ KeepsHanded(disk, disk')
  BY <1>s, HandedFurther
<1>1. CASE Request
  BY <1>1, <1>s, RequestKeepsHanded
<1>2. CASE VisitNode
  <2>1. disk' = disk /\ (KeepsHanded(mem, mem') \/ mem' = disk)
    BY <1>2, VisitKeepsHanded
  <2> QED
    BY <1>s, <1>w, <2>1
<1>3. CASE RefreshNode
  <2>1. /\ disk' = disk /\ cursor \in 1..N /\ N \in Nat
        /\ mem' = [mem EXCEPT !.nodes[Order[cursor]] = Refreshed(mem, Order[cursor])]
    BY <1>3, CurrentIsNode DEF RefreshNode, TypeOK, Current
  <2>2. Order[cursor] \in Nodes /\ RefreshedAt(mem, mem', Order[cursor])
    BY <2>1, CurrentIsNode DEF RefreshedAt
  <2> QED
    BY <1>t, <1>w, <2>1, <2>2, RefreshKeepsHanded
<1>4. CASE BeginPass \/ PassOver \/ StopOnBudget \/ EndPass \/ Attest \/ Reconfigure \/ UNCHANGED vars
  <2>1. disk' = disk /\ mem' = mem
    BY <1>4 DEF BeginPass, PassOver, StopOnBudget, EndPass, Attest, Reconfigure, vars
  <2> QED
    BY <1>s, <1>w, <2>1
<1>5. CASE WriteAhead \/ Save \/ Crash \/ RecordCreation
  <2>1. mem' = disk' /\ (disk' = mem \/ disk' = disk)
    BY <1>5 DEF WriteAhead, Save, Crash, RecordCreation, Release
  <2> QED
    BY <1>s, <2>1
<1>6. CASE Settle
  <2>1. disk' = disk /\ mem' = Settled(mem, exhausted)
    BY <1>6 DEF Settle
  <2>2. mem'.nodes = mem.nodes
    BY <1>t, <2>1 DEF Settled, Run
  <2> QED
    BY <1>w, <2>1, <2>2, HandedStays
<1> QED
  BY <1>1, <1>2, <1>3, <1>4, <1>5, <1>6 DEF Next, Step

\* Drives keep their orders, or take one that is open on disk.
LEMMA OrdersAsBefore ==
  ASSUME OrderInvariant, KeepsHanded(disk', mem'), KeepsHanded(disk, disk'),
         \A c \in Callers : caller'[c].at = "claim" \/ Holding(c)' =>
           \/ /\ caller[c].at = "claim" \/ Holding(c)
              /\ caller'[c].order.node = caller[c].order.node
              /\ caller'[c].order.attempt = caller[c].order.attempt
           \/ /\ Handed(disk', caller'[c].order.node)
              /\ disk'.nodes[caller'[c].order.node].attempts = caller'[c].order.attempt,
         \A b \in booked' \ booked : b[1] \in Unsafe => b[2] = b[3]
  PROVE  OrderInvariant'
<1>1. ResultsOfTheirAttempt'
  BY DEF OrderInvariant, ResultsOfTheirAttempt
<1>2. ASSUME NEW c \in Callers, caller'[c].at = "claim" \/ Holding(c)', caller'[c].order.node \in Unsafe
      PROVE  Handed(disk', caller'[c].order.node) /\ disk'.nodes[caller'[c].order.node].attempts = caller'[c].order.attempt
  <2>1. CASE /\ caller[c].at = "claim" \/ Holding(c)
             /\ caller'[c].order.node = caller[c].order.node
             /\ caller'[c].order.attempt = caller[c].order.attempt
    <3>1. Handed(disk, caller[c].order.node) /\ disk.nodes[caller[c].order.node].attempts = caller[c].order.attempt
      BY <1>2, <2>1 DEF OrderInvariant
    <3> QED
      BY <1>2, <2>1, <3>1 DEF KeepsHanded
  <2> QED
    BY <1>2, <2>1
<1> QED
  BY <1>1, <1>2 DEF OrderInvariant

\* Where a caller's order comes from.
LEMMA OrdersStay ==
  ASSUME DispatchInvariant, NEW c \in Callers,
         \/ CheckLease(c) \/ Refused(c) \/ DriveAlone(c) \/ StartDrive(c) \/ Operate(c)
         \/ \E result \in WorkerResults : SubmitResult(c, result)
         \/ c = client /\ (EngineReturns \/ EngineRaises),
         NEW e \in Callers, caller'[e].at = "claim" \/ Holding(e)'
  PROVE  \/ /\ caller[e].at = "claim" \/ Holding(e)
            /\ caller'[e].order.node = caller[e].order.node
            /\ caller'[e].order.attempt = caller[e].order.attempt
         \/ e = c /\ \E n \in Nodes : TakeOrder(c, n)
<1>t. DispatchTypeOK
  BY DEF DispatchInvariant
<1>1. CASE Claim(c)
  <2> DEFINE number == Cardinality(EventsOf(claims, caller[c].order)) + 1
  <2>1. /\ caller[c].at = "claim"
        /\ caller' = [caller EXCEPT ![c].at = "host", ![c].order.number = number, ![c].count = @ + 1]
    BY <1>1 DEF Claim
  <2> HIDE DEF number
  <2>2. /\ caller'[c].order.node = caller[c].order.node /\ caller'[c].order.attempt = caller[c].order.attempt
        /\ \A f \in Callers \ {c} : caller'[f] = caller[f]
    BY <1>t, <2>1 DEF DispatchTypeOK
  <2> QED
    BY <2>1, <2>2 DEF Holding
<1>2. CASE Launch(c)
  <2>1. /\ caller[c].at = "host" /\ caller'[c].order = caller[c].order
        /\ \A f \in Callers \ {c} : caller'[f] = caller[f]
    BY <1>t, <1>2 DEF Launch, Goto, DispatchTypeOK
  <2> QED
    BY <2>1 DEF Holding
<1>3. CASE ReleaseClaim(c)
  <2>1. caller'[c].at = "off" /\ \A f \in Callers \ {c} : caller'[f] = caller[f]
    BY <1>t, <1>3, LeaveType DEF ReleaseClaim
  <2> QED
    BY <2>1 DEF Holding
<1>4. CASE \E n \in Nodes : TakeOrder(c, n)
  <2>1. \A f \in Callers \ {c} : caller'[f] = caller[f]
    BY <1>t, <1>4 DEF TakeOrder, DispatchTypeOK
  <2> QED
    BY <1>4, <2>1 DEF Holding
<1>5. CASE ~Claim(c) /\ ~Launch(c) /\ ~ReleaseClaim(c) /\ ~\E n \in Nodes : TakeOrder(c, n)
  <2>1. /\ \A f \in Callers \ {c} : caller'[f] = caller[f]
        /\ \/ caller'[c].at \in {"off", "checked", "operating", "starting", "lease", "load", "claim", "submitting"}
           \/ caller[c].at = "host" /\ caller'[c].at = "release" /\ caller'[c].order = caller[c].order
    BY <1>5, OthersStay
  <2>2. \/ Leave(c)
        \/ \E stage \in {"off", "checked", "operating", "starting", "lease", "load", "release", "submitting"} :
             Goto(c, stage)
    <3>1. CASE CheckLease(c) \/ Refused(c) \/ NoDrive(c) \/ AcquireLease(c) \/ HostUnavailable(c)
      BY <3>1 DEF CheckLease, Refused, NoDrive, AcquireLease, HostUnavailable
    <3>2. CASE StopDrive(c) \/ NoClaim(c) \/ HostDeclined(c) \/ SubmitRefused(c) \/ LockTimeout(c)
      BY <3>2 DEF StopDrive, NoClaim, HostDeclined, SubmitRefused, LockTimeout
    <3>3. CASE StartDrive(c) \/ Operate(c) \/ \E result \in WorkerResults : SubmitResult(c, result)
      BY <3>3 DEF StartDrive, Operate, SubmitResult
    <3>4. CASE c = client /\ (EngineReturns \/ EngineRaises)
      <4>1. caller[client].at \in {"operating", "starting", "submitting"}
        <5>1. pc # "idle"
          BY <3>4 DEF EngineReturns, EngineRaises, Save, RecordCreation, ExecutorMissing, AtNode, Visiting
        <5> QED
          BY <3>4, <5>1, DispatchAssumption DEF DispatchInvariant, ClientKnown
      <4> QED
        BY <3>4, <4>1 DEF EngineReturns, EngineRaises
    <3> QED
      BY <1>5, <3>1, <3>2, <3>3, <3>4 DEF DriveAlone
  <2>3. caller'[c].at # "claim"
    BY <1>t, <2>2, LeaveType, GotoType DEF Stages
  <2> QED
    BY <2>1, <2>3 DEF Holding
<1> QED
  BY <1>1, <1>2, <1>3, <1>4, <1>5

\* The orders invariant is inductive.
LEMMA OrderStep ==
  ASSUME OrderInvariant, DispatchInvariant, TypeOK, RunInvariant, OutcomeInvariant, [DispatchNext]_allvars
  PROVE  OrderInvariant'
<1>t. DispatchTypeOK /\ ClientKnown
  BY DEF DispatchInvariant
<1>k. KeepsHanded(disk', mem') /\ KeepsHanded(disk, disk')
  <2>1. [Next]_vars
    BY <1>t, DispatchIsRunStep DEF allvars
  <2> QED
    BY <2>1, RunKeepsHanded DEF OrderInvariant
<1>1. ASSUME NEW c \in Callers,
             \/ CheckLease(c) \/ Refused(c) \/ DriveAlone(c) \/ StartDrive(c) \/ Operate(c)
             \/ \E result \in WorkerResults : SubmitResult(c, result)
             \/ c = client /\ (EngineReturns \/ EngineRaises)
      PROVE  OrderInvariant'
  <2>1. ASSUME NEW n \in Nodes, TakeOrder(c, n)
        PROVE  /\ Handed(disk', caller'[c].order.node)
               /\ disk'.nodes[caller'[c].order.node].attempts = caller'[c].order.attempt
    <3>1. /\ disk' = disk /\ n \in PendingWork(disk)
          /\ caller'[c].order = [node |-> n, attempt |-> disk.nodes[n].attempts, number |-> 0]
      BY <1>t, <2>1 DEF TakeOrder, FirstOrder, DispatchTypeOK, vars
    <3>2. Handed(disk, n)
      BY <3>1 DEF PendingWork, Handed
    <3> QED
      BY <3>1, <3>2
  <2>2. \A e \in Callers : caller'[e].at = "claim" \/ Holding(e)' =>
           \/ /\ caller[e].at = "claim" \/ Holding(e)
              /\ caller'[e].order.node = caller[e].order.node
              /\ caller'[e].order.attempt = caller[e].order.attempt
           \/ /\ Handed(disk', caller'[e].order.node)
              /\ disk'.nodes[caller'[e].order.node].attempts = caller'[e].order.attempt
    BY <1>1, <2>1, OrdersStay
  <2>3. ASSUME NEW b \in booked' \ booked, b[1] \in Unsafe PROVE b[2] = b[3]
    <3>1. PICK result \in WorkerResults : SubmitResult(c, result)
      BY <1>1, <2>3 DEF CheckLease, Refused, DriveAlone, AcquireLease, NoDrive, StopDrive, Claim, NoClaim, Launch,
           HostUnavailable, ReleaseClaim, HostDeclined, SubmitRefused, LockTimeout, TakeOrder, StartDrive, Operate,
           EngineReturns, EngineRaises
    <3>2. /\ caller[c].at = "working"
          /\ b = <<caller[c].order.node, caller[c].order.attempt, disk.nodes[caller[c].order.node].attempts>>
      BY <2>3, <3>1 DEF SubmitResult
    <3> QED
      BY <2>3, <3>2 DEF OrderInvariant, Holding
  <2> QED
    BY <1>k, <2>2, <2>3, OrdersAsBefore
<1>2. CASE EngineReturns \/ EngineRaises
  <2>1. client \in Callers
    <3>1. pc # "idle"
      BY <1>2 DEF EngineReturns, EngineRaises, Save, RecordCreation, ExecutorMissing, AtNode, Visiting
    <3> QED
      BY <1>t, <3>1 DEF ClientKnown, DispatchTypeOK
  <2> QED
    BY <1>1, <1>2, <2>1
<1>3. CASE EngineWorks \/ ConfigChanges \/ UNCHANGED allvars
  <2>1. UNCHANGED <<caller, booked>>
    BY <1>3 DEF EngineWorks, ConfigChanges, allvars, dispatch
  <2> QED
    BY <1>k, <2>1, OrdersAsBefore DEF Holding
<1>4. ASSUME NEW p \in Processes, ProcessDies(p) PROVE OrderInvariant'
  <2>1. /\ caller' = [c \in Callers |-> IF ProcessOf[c] = p THEN Off ELSE caller[c]]
        /\ booked' = booked
    BY <1>4 DEF ProcessDies
  <2>2. \A c \in Callers : caller'[c].at = "claim" \/ Holding(c)' => caller'[c] = caller[c]
    BY <2>1, OffType DEF Holding
  <2> QED
    BY <1>k, <2>1, <2>2, OrdersAsBefore DEF Holding
<1> QED
  BY <1>1, <1>2, <1>3, <1>4, DispatchCases

LEMMA OrderInit == DispatchInit => OrderInvariant
<1> SUFFICES ASSUME DispatchInit PROVE OrderInvariant
  OBVIOUS
<1>1. mem = disk /\ booked = {} /\ \A c \in Callers : ~Holding(c) /\ caller[c].at # "claim"
  BY CallersAtFirst DEF DispatchInit, Init, Holding
<1> QED
  BY <1>1, HandedStays DEF OrderInvariant, ResultsOfTheirAttempt

\* What a worker did on an attempt of a node with effects is booked on that attempt, although
\* submissions do not name their attempt: an attempt once handed out is the node's last.
THEOREM ResultsStayWithTheirAttempt == DispatchSpec => []ResultsOfTheirAttempt
<1>1. OrderInvariant => ResultsOfTheirAttempt
  BY DEF OrderInvariant
<1>2. DispatchInit => OrderInvariant
  BY OrderInit
<1>3. OrderInvariant /\ DispatchInvariant /\ TypeOK /\ RunInvariant /\ OutcomeInvariant /\ [DispatchNext]_allvars
      => OrderInvariant'
  BY OrderStep
<1>4. DispatchSpec => []RunInvariant /\ []OutcomeInvariant
  BY DispatchImplementsRun, InvariantHolds, OutcomeHolds
<1> QED
  BY <1>1, <1>2, <1>3, <1>4, DispatchInvariantHolds, PTL DEF DispatchSpec

\* Whoever reads state.json of a dispatched run sees a lifecycle, and what the engine promises
\* about verdicts, receipts, nodes that did not run, denials, waits, stops, attempts and the trace
\* holds whoever drives; so does the bound on its operations.
THEOREM DispatchedRunEndsTruthfully ==
  DispatchSpec => /\ ImplementsLifecycle /\ FinalStays
                  /\ []VerdictTruthful /\ []ReceiptTruthful /\ []SucceededRunVerifies
                  /\ []UnrunExplained /\ []HoldsCurrent /\ []WaitExplained /\ []StopLeavesNothing
                  /\ []DenialsCarriedOut /\ DenialsStand
                  /\ []AttemptsAccounted /\ []TraceCoversState /\ OperationsBounded
<1>1. Spec => /\ ImplementsLifecycle /\ FinalStays
              /\ []VerdictTruthful /\ []ReceiptTruthful /\ []SucceededRunVerifies
  BY EngineImplementsLifecycle, FinishedStaysFinished, VerdictsAreTruthful, ReceiptsAreTruthful,
     SucceededRunsVerify
<1>2. Spec => []UnrunExplained /\ []HoldsCurrent /\ []WaitExplained /\ []StopLeavesNothing
  BY UnrunNodesAreExplained, HoldsAreCurrent, WaitsAreExplained, StoppedRunsStartNothing
<1>3. Spec => []AttemptsAccounted /\ []TraceCoversState /\ OperationsBounded
  BY AttemptsAreAccountedFor, TraceAccountsForState, OperationsAreBounded
<1>4. Spec => []DenialsCarriedOut /\ DenialsStand
  BY DenialsAreCarriedOut
<1> QED
  BY <1>1, <1>2, <1>3, <1>4, DispatchImplementsRun

-----------------------------------------------------------------------------
(* A drive is over after a bounded number of its own steps.                *)

\* What a drive has left where it is, by the dispatches it has left.
LEMMA LeftAt ==
  ASSUME DispatchTypeOK, DriveCounted, NEW c \in Callers
  PROVE  \E k \in Nat :
           /\ k = MaxDispatches - caller[c].count
           /\ caller[c].at = "starting"   => DriveLeft(c) = 6 * k + 3
           /\ caller[c].at = "lease"      => DriveLeft(c) = 6 * k + 2
           /\ caller[c].at = "load"       => DriveLeft(c) = 6 * k + 1
           /\ caller[c].at = "claim"      => DriveLeft(c) = 6 * k /\ k > 0
           /\ caller[c].at = "host"       => DriveLeft(c) = 6 * k + 5
           /\ caller[c].at = "working"    => DriveLeft(c) = 6 * k + 4
           /\ caller[c].at = "submitting" => DriveLeft(c) = 6 * k + 3
           /\ caller[c].at = "release"    => DriveLeft(c) = 6 * k + 2
           /\ caller[c].at \in {"off", "checked", "operating"} => DriveLeft(c) = 0
<1>1. caller[c].count \in Nat /\ MaxDispatches \in Nat /\ caller[c].count <= MaxDispatches
  BY DispatchAssumption DEF DispatchTypeOK, DriveCounted
<1>2. MaxDispatches - caller[c].count \in Nat
  BY <1>1
<1>3. caller[c].at = "claim" => MaxDispatches - caller[c].count > 0
  BY <1>1 DEF DriveCounted
<1> WITNESS MaxDispatches - caller[c].count \in Nat
<1> QED
  BY <1>3 DEF DriveLeft

\* So what is left is a number.
LEMMA LeftIsNat ==
  ASSUME DispatchTypeOK, DriveCounted, NEW c \in Callers
  PROVE  DriveLeft(c) \in Nat
<1>1. caller[c].at \in Stages
  BY DEF DispatchTypeOK
<1> QED
  BY <1>1, LeftAt DEF Stages

\* A caller that stays where it was has as much left; one that is off has nothing.
LEMMA StayedLeft ==
  ASSUME NEW c \in Callers, caller'[c] = caller[c]
  PROVE  DriveLeft(c)' = DriveLeft(c)
BY DEF DriveLeft

LEMMA OffLeft ==
  ASSUME NEW c \in Callers, caller'[c].at \in {"off", "operating"}
  PROVE  DriveLeft(c)' = 0
BY DEF DriveLeft

\* Counting dispatches: by whom a step moves, where to, and whether it claims.
LEMMA CountKept ==
  ASSUME DispatchTypeOK, DriveCounted,
         \A c \in Callers :
           \/ caller'[c] = caller[c]
           \/ caller'[c] = Off
           \/ /\ caller'[c].count = caller[c].count
              /\ caller'[c].at = "claim" => caller[c].count < MaxDispatches
              /\ Driving(c) => Driving(c)'
           \/ /\ caller'[c].count = caller[c].count + 1 /\ caller'[c].at = "host"
              /\ caller[c].count < MaxDispatches
  PROVE  DriveCounted'
<1> SUFFICES ASSUME NEW c \in Callers
             PROVE  /\ caller'[c].count <= MaxDispatches
                    /\ caller'[c].at = "claim" => caller'[c].count < MaxDispatches
                    /\ ~Driving(c)' => caller'[c].count = 0
  BY DEF DriveCounted
<1>0. caller[c].count \in Nat /\ MaxDispatches \in Nat
  BY DispatchAssumption DEF DispatchTypeOK
<1>1. CASE caller'[c] = caller[c]
  BY <1>1 DEF DriveCounted, Driving
<1>2. CASE caller'[c] = Off
  BY <1>0, <1>2 DEF Off
<1>3. CASE /\ caller'[c].count = caller[c].count
           /\ caller'[c].at = "claim" => caller[c].count < MaxDispatches
           /\ Driving(c) => Driving(c)'
  BY <1>3 DEF DriveCounted
<1>4. CASE /\ caller'[c].count = caller[c].count + 1 /\ caller'[c].at = "host"
           /\ caller[c].count < MaxDispatches
  BY <1>0, <1>4 DEF Driving
<1> QED
  BY <1>1, <1>2, <1>3, <1>4

\* What Goto and Leave do to the counts.
LEMMA GotoMoves ==
  ASSUME DispatchTypeOK, NEW c \in Callers, NEW stage, Goto(c, stage)
  PROVE  /\ caller'[c].at = stage /\ caller'[c].count = caller[c].count
         /\ \A e \in Callers \ {c} : caller'[e] = caller[e]
BY DEF DispatchTypeOK, Goto

LEMMA LeaveMoves ==
  ASSUME DispatchTypeOK, NEW c \in Callers, Leave(c)
  PROVE  caller'[c] = Off /\ \A e \in Callers \ {c} : caller'[e] = caller[e]
BY DEF DispatchTypeOK, Leave

\* Where a step of a drive takes its caller, and what it does to the count.
LEMMA DriveMoves ==
  ASSUME DispatchTypeOK, DriveCounted, NEW c \in Callers, Drive(c)
  PROVE  /\ \A e \in Callers \ {c} : caller'[e] = caller[e]
         /\ \/ /\ caller[c].at \in {"lease", "load", "claim", "host", "release", "working"}
               /\ caller'[c] = Off \/ (caller'[c].at = "off" /\ caller'[c].count = 0)
            \/ /\ caller'[c].count = caller[c].count
               /\ <<caller[c].at, caller'[c].at>> \in
                    {<<"lease", "load">>, <<"load", "claim">>, <<"host", "working">>,
                     <<"host", "release">>, <<"working", "submitting">>}
               /\ caller'[c].at = "claim" => caller[c].count < MaxDispatches
            \/ /\ caller[c].at = "claim" /\ caller'[c].at = "host" /\ caller'[c].count = caller[c].count + 1
<1>1. CASE StopDrive(c) \/ NoClaim(c) \/ ReleaseClaim(c) \/ HostDeclined(c) \/ SubmitRefused(c) \/ LockTimeout(c)
  <2>1. Leave(c) /\ caller[c].at \in {"lease", "load", "claim", "host", "release", "working"}
    BY <1>1 DEF StopDrive, NoClaim, ReleaseClaim, HostDeclined, SubmitRefused, LockTimeout, WaitsForLock
  <2> QED
    BY <2>1, LeaveMoves
<1>2. CASE NoDrive(c)
  <2>1. caller[c].at = "lease" /\ Goto(c, "off")
    BY <1>2 DEF NoDrive
  <2>2. caller[c].count = 0
    BY <2>1 DEF DriveCounted, Driving
  <2> QED
    BY <2>1, <2>2, GotoMoves
<1>3. CASE AcquireLease(c)
  <2>1. caller[c].at = "lease" /\ Goto(c, "load")
    BY <1>3 DEF AcquireLease
  <2> QED
    BY <2>1, GotoMoves
<1>4. CASE Launch(c)
  <2>1. caller[c].at = "host" /\ Goto(c, "working")
    BY <1>4 DEF Launch
  <2> QED
    BY <2>1, GotoMoves
<1>5. CASE HostUnavailable(c)
  <2>1. caller[c].at = "host" /\ Goto(c, "release")
    BY <1>5 DEF HostUnavailable
  <2> QED
    BY <2>1, GotoMoves
<1>6. ASSUME NEW n \in Nodes, TakeOrder(c, n)
      PROVE  /\ \A e \in Callers \ {c} : caller'[e] = caller[e]
             /\ caller[c].at = "load" /\ caller'[c].at = "claim" /\ caller'[c].count = caller[c].count
             /\ caller[c].count < MaxDispatches
  BY <1>6 DEF TakeOrder, DispatchTypeOK
<1>7. ASSUME NEW result \in WorkerResults, SubmitResult(c, result)
      PROVE  /\ \A e \in Callers \ {c} : caller'[e] = caller[e]
             /\ caller[c].at = "working" /\ caller'[c].at = "submitting" /\ caller'[c].count = caller[c].count
  <2>1. caller[c].at = "working" /\ Goto(c, "submitting")
    BY <1>7 DEF SubmitResult
  <2> QED
    BY <2>1, GotoMoves
<1>8. CASE Claim(c)
  <2>1. /\ caller[c].at = "claim"
        /\ caller' = [caller EXCEPT ![c].at = "host",
                        ![c].order.number = Cardinality(EventsOf(claims, caller[c].order)) + 1, ![c].count = @ + 1]
    BY <1>8 DEF Claim
  <2> QED
    BY <2>1 DEF DispatchTypeOK
<1> QED
  BY <1>1, <1>2, <1>3, <1>4, <1>5, <1>6, <1>7, <1>8 DEF Drive

\* A step of a drive leaves it fewer, and all counts in order.
LEMMA DriveShortens ==
  ASSUME DispatchTypeOK, DispatchTypeOK', DriveCounted, NEW c \in Callers, Drive(c)
  PROVE  DriveCounted' /\ DriveLeft(c)' < DriveLeft(c) /\ \A e \in Callers \ {c} : DriveLeft(e)' = DriveLeft(e)
<1>m. /\ \A e \in Callers \ {c} : caller'[e] = caller[e]
      /\ \/ /\ caller[c].at \in {"lease", "load", "claim", "host", "release", "working"}
            /\ caller'[c] = Off \/ (caller'[c].at = "off" /\ caller'[c].count = 0)
         \/ /\ caller'[c].count = caller[c].count
            /\ <<caller[c].at, caller'[c].at>> \in
                 {<<"lease", "load">>, <<"load", "claim">>, <<"host", "working">>,
                  <<"host", "release">>, <<"working", "submitting">>}
            /\ caller'[c].at = "claim" => caller[c].count < MaxDispatches
         \/ /\ caller[c].at = "claim" /\ caller'[c].at = "host" /\ caller'[c].count = caller[c].count + 1
  BY DriveMoves
<1>k. caller[c].count \in Nat /\ caller[c].count <= MaxDispatches /\ MaxDispatches \in Nat
  BY DispatchAssumption DEF DispatchTypeOK, DriveCounted
<1>0. DriveCounted'
  <2>1. ASSUME NEW e \in Callers, e # c
        PROVE  caller'[e] = caller[e]
    BY <1>m, <2>1
  <2>2. /\ caller'[c].count <= MaxDispatches
        /\ caller'[c].at = "claim" => caller'[c].count < MaxDispatches
        /\ ~Driving(c)' => caller'[c].count = 0
    <3>1. CASE caller'[c] = Off \/ (caller'[c].at = "off" /\ caller'[c].count = 0)
      BY <1>k, <3>1 DEF Off
    <3>2. CASE /\ caller'[c].count = caller[c].count
               /\ <<caller[c].at, caller'[c].at>> \in
                    {<<"lease", "load">>, <<"load", "claim">>, <<"host", "working">>,
                     <<"host", "release">>, <<"working", "submitting">>}
               /\ caller'[c].at = "claim" => caller[c].count < MaxDispatches
      BY <1>k, <3>2 DEF Driving
    <3>3. CASE caller[c].at = "claim" /\ caller'[c].at = "host" /\ caller'[c].count = caller[c].count + 1
      <4>1. caller[c].count < MaxDispatches
        BY <3>3 DEF DriveCounted
      <4> QED
        BY <1>k, <3>3, <4>1 DEF Driving
    <3> QED
      BY <1>m, <3>1, <3>2, <3>3
  <2> QED
    BY <2>1, <2>2 DEF DriveCounted, Driving
<1>1. PICK k \in Nat :
           /\ k = MaxDispatches - caller[c].count
           /\ caller[c].at = "starting"   => DriveLeft(c) = 6 * k + 3
           /\ caller[c].at = "lease"      => DriveLeft(c) = 6 * k + 2
           /\ caller[c].at = "load"       => DriveLeft(c) = 6 * k + 1
           /\ caller[c].at = "claim"      => DriveLeft(c) = 6 * k /\ k > 0
           /\ caller[c].at = "host"       => DriveLeft(c) = 6 * k + 5
           /\ caller[c].at = "working"    => DriveLeft(c) = 6 * k + 4
           /\ caller[c].at = "submitting" => DriveLeft(c) = 6 * k + 3
           /\ caller[c].at = "release"    => DriveLeft(c) = 6 * k + 2
           /\ caller[c].at \in {"off", "checked", "operating"} => DriveLeft(c) = 0
  BY LeftAt
<1>2. CASE /\ caller[c].at \in {"lease", "load", "claim", "host", "release", "working"}
           /\ caller'[c] = Off \/ (caller'[c].at = "off" /\ caller'[c].count = 0)
  <2>1. DriveLeft(c)' = 0
    BY <1>2, OffLeft DEF Off
  <2>2. DriveLeft(c) > 0
    BY <1>1, <1>2
  <2> QED
    BY <1>0, <1>m, <2>1, <2>2, StayedLeft
<1>3. CASE /\ caller'[c].count = caller[c].count
           /\ <<caller[c].at, caller'[c].at>> \in
                {<<"lease", "load">>, <<"load", "claim">>, <<"host", "working">>,
                 <<"host", "release">>, <<"working", "submitting">>}
  <2>1. /\ caller'[c].at = "load"       => DriveLeft(c)' = 6 * k + 1
        /\ caller'[c].at = "claim"      => DriveLeft(c)' = 6 * k
        /\ caller'[c].at = "working"    => DriveLeft(c)' = 6 * k + 4
        /\ caller'[c].at = "submitting" => DriveLeft(c)' = 6 * k + 3
        /\ caller'[c].at = "release"    => DriveLeft(c)' = 6 * k + 2
    BY <1>1, <1>3 DEF DriveLeft
  <2>2. DriveLeft(c)' < DriveLeft(c)
    BY <1>1, <1>3, <2>1
  <2> QED
    BY <1>0, <1>m, <2>2, StayedLeft
<1>4. CASE caller[c].at = "claim" /\ caller'[c].at = "host" /\ caller'[c].count = caller[c].count + 1
  <2>1. DriveLeft(c)' = 6 * (MaxDispatches - (caller[c].count + 1)) + 5
    BY <1>4 DEF DriveLeft
  <2>2. DriveLeft(c) = 6 * k /\ k = MaxDispatches - caller[c].count /\ k > 0
    BY <1>1, <1>4
  <2>3. DriveLeft(c)' < DriveLeft(c)
    BY <1>k, <2>1, <2>2
  <2> QED
    BY <1>0, <1>m, <2>3, StayedLeft
<1> QED
  BY <1>m, <1>2, <1>3, <1>4

\* Nothing that the others, the engine or the environment do gives a drive more to do.
LEMMA OthersLeave ==
  ASSUME DispatchInvariant, DriveCounted, [DispatchNext]_allvars, \A c \in Callers : ~Drive(c)
  PROVE  DriveCounted' /\ \A c \in Callers : DriveLeft(c)' > DriveLeft(c) => StartDrive(c)
<1> USE DEF DispatchInvariant
<1>n. \A c \in Callers : DriveLeft(c) \in Nat
  BY LeftIsNat
<1>a. ASSUME UNCHANGED caller PROVE DriveCounted' /\ \A c \in Callers : DriveLeft(c)' = DriveLeft(c)
  BY <1>a, CountKept, StayedLeft
<1>g. ASSUME NEW c \in Callers, NEW stage \in {"off", "checked", "operating"}, Goto(c, stage), ~Driving(c)
      PROVE  DriveCounted' /\ \A e \in Callers : ~(DriveLeft(e)' > DriveLeft(e))
  <2>1. /\ caller'[c].at = stage /\ caller'[c].count = caller[c].count
        /\ \A e \in Callers \ {c} : caller'[e] = caller[e]
    BY <1>g, GotoMoves
  <2>2. DriveCounted'
    BY <1>g, <2>1, CountKept
  <2>3. DriveLeft(c)' = 0
    BY <2>1 DEF DriveLeft
  <2>4. \A e \in Callers \ {c} : DriveLeft(e)' = DriveLeft(e)
    BY <2>1, StayedLeft
  <2> QED
    BY <1>n, <2>2, <2>3, <2>4
<1>l. ASSUME NEW S \in SUBSET Callers, \A c \in S : caller'[c] = Off, \A c \in Callers \ S : caller'[c] = caller[c]
      PROVE  DriveCounted' /\ \A e \in Callers : ~(DriveLeft(e)' > DriveLeft(e))
  <2>1. DriveCounted'
    BY <1>l, CountKept
  <2>2. \A e \in S : DriveLeft(e)' = 0
    BY <1>l, OffLeft DEF Off
  <2>3. \A e \in Callers \ S : DriveLeft(e)' = DriveLeft(e)
    BY <1>l, StayedLeft
  <2> QED
    BY <1>n, <2>1, <2>2, <2>3
<1>1. ASSUME NEW c \in Callers, CheckLease(c) \/ Refused(c) \/ Operate(c)
      PROVE  DriveCounted' /\ \A e \in Callers : ~(DriveLeft(e)' > DriveLeft(e))
  <2>1. (Goto(c, "off") \/ Goto(c, "checked") \/ Goto(c, "operating")) /\ ~Driving(c)
    BY <1>1 DEF CheckLease, Refused, Operate, MayRequest, Driving
  <2> QED
    BY <1>g, <2>1
<1>2. ASSUME NEW c \in Callers, StartDrive(c)
      PROVE  DriveCounted' /\ \A e \in Callers : DriveLeft(e)' > DriveLeft(e) => StartDrive(e)
  <2>1. Goto(c, "starting") /\ ~Driving(c)
    BY <1>2 DEF StartDrive, MayRequest, Driving
  <2>2. /\ caller'[c].at = "starting" /\ caller'[c].count = caller[c].count
        /\ \A e \in Callers \ {c} : caller'[e] = caller[e]
    BY <2>1, GotoMoves
  <2>3. DriveCounted'
    BY <2>1, <2>2, CountKept
  <2>4. \A e \in Callers \ {c} : DriveLeft(e)' = DriveLeft(e)
    BY <2>2, StayedLeft
  <2> QED
    BY <1>n, <1>2, <2>3, <2>4
<1>3. CASE EngineReturns \/ EngineRaises
  <2>1. client \in Callers /\ caller[client].at \in {"operating", "starting", "submitting"}
    <3>1. pc # "idle"
      BY <1>3 DEF EngineReturns, EngineRaises, Save, RecordCreation, ExecutorMissing, AtNode, Visiting
    <3> QED
      BY <3>1 DEF ClientKnown, DispatchTypeOK
  <2>2. PICK c \in Callers : c = client /\ caller[c].at \in {"operating", "starting", "submitting"}
    BY <2>1
  <2>3. \/ Leave(c)
        \/ caller[c].at = "starting" /\ Goto(c, "lease")
        \/ caller[c].at = "submitting" /\ Goto(c, "load")
    BY <1>3, <2>2 DEF EngineReturns, EngineRaises
  <2>4. CASE Leave(c)
    <3>1. caller'[c] = Off /\ \A e \in Callers \ {c} : caller'[e] = caller[e]
      BY <2>4, LeaveMoves
    <3>2. {c} \in SUBSET Callers /\ \A e \in {c} : caller'[e] = Off
      BY <3>1
    <3> QED
      BY <1>l, <3>1, <3>2
  <2>5. CASE \/ caller[c].at = "starting" /\ Goto(c, "lease")
             \/ caller[c].at = "submitting" /\ Goto(c, "load")
    <3>2. /\ caller'[c].at \in {"lease", "load"} /\ caller'[c].count = caller[c].count
          /\ caller'[c].at = "lease" => caller[c].at = "starting"
          /\ caller'[c].at = "load" => caller[c].at = "submitting"
          /\ \A e \in Callers \ {c} : caller'[e] = caller[e]
      BY <2>5, GotoMoves
    <3>3. Driving(c) => Driving(c)'
      BY <3>2 DEF Driving
    <3>4. DriveCounted'
      BY <3>2, <3>3, CountKept
    <3>5. caller[c].count \in Nat /\ MaxDispatches \in Nat /\ caller[c].count <= MaxDispatches
      BY DispatchAssumption DEF DispatchTypeOK, DriveCounted
    <3>6. ~(DriveLeft(c)' > DriveLeft(c))
      <4>1. CASE caller'[c].at = "lease"
        BY <3>2, <3>5, <4>1 DEF DriveLeft
      <4>2. CASE caller'[c].at = "load"
        BY <3>2, <3>5, <4>2 DEF DriveLeft
      <4> QED
        BY <3>2, <4>1, <4>2
    <3>7. \A e \in Callers \ {c} : DriveLeft(e)' = DriveLeft(e)
      BY <3>2, StayedLeft
    <3> QED
      BY <1>n, <3>4, <3>6, <3>7
  <2> QED
    BY <2>3, <2>4, <2>5
<1>4. ASSUME NEW p \in Processes, ProcessDies(p)
      PROVE  DriveCounted' /\ \A e \in Callers : ~(DriveLeft(e)' > DriveLeft(e))
  <2> DEFINE S == {c \in Callers : ProcessOf[c] = p}
  <2>1. caller' = [c \in Callers |-> IF ProcessOf[c] = p THEN Off ELSE caller[c]]
    BY <1>4 DEF ProcessDies
  <2>2. S \in SUBSET Callers /\ (\A c \in S : caller'[c] = Off) /\ \A c \in Callers \ S : caller'[c] = caller[c]
    BY <2>1
  <2> HIDE DEF S
  <2> QED
    BY <1>l, <2>2
<1>5. CASE EngineWorks \/ ConfigChanges \/ UNCHANGED allvars
  <2>1. UNCHANGED caller
    BY <1>5 DEF EngineWorks, ConfigChanges, allvars, dispatch
  <2> QED
    BY <1>a, <1>n, <2>1
<1> QED
  BY <1>1, <1>2, <1>3, <1>4, <1>5 DEF DispatchNext, Asks

\* A drive makes at most as many steps as max_dispatches allows, and nothing that happens
\* meanwhile, a failed submission or a retry of its node included, gives it more.
THEOREM DrivesAreBounded == DispatchSpec => DrivesBounded
<1>1. DispatchInit => DriveCounted
  <2> SUFFICES ASSUME DispatchInit, NEW c \in Callers
               PROVE  /\ caller[c].count <= MaxDispatches
                      /\ caller[c].at = "claim" => caller[c].count < MaxDispatches
                      /\ ~Driving(c) => caller[c].count = 0
    BY DEF DriveCounted
  <2>1. caller[c].count = 0 /\ caller[c].at \in {"off", "operating"}
    BY CallersAtFirst
  <2> QED
    BY <2>1, DispatchAssumption
<1>2. /\ DispatchInvariant /\ DispatchInvariant' /\ DriveCounted /\ [DispatchNext]_allvars => DriveCounted'
      /\ DispatchInvariant /\ DispatchInvariant' /\ DriveCounted /\ [DispatchNext]_allvars
           => [\A c \in Callers : /\ Drive(c) => DriveLeft(c)' \in 0..(DriveLeft(c) - 1)
                                  /\ DriveLeft(c)' > DriveLeft(c) => StartDrive(c)]_allvars
  <2> SUFFICES ASSUME DispatchInvariant, DispatchInvariant', DriveCounted, [DispatchNext]_allvars
               PROVE  /\ DriveCounted'
                      /\ \A c \in Callers : /\ Drive(c) => DriveLeft(c)' \in 0..(DriveLeft(c) - 1)
                                            /\ DriveLeft(c)' > DriveLeft(c) => StartDrive(c)
    OBVIOUS
  <2>t. DispatchTypeOK /\ DispatchTypeOK'
    BY DEF DispatchInvariant
  <2>n. \A c \in Callers : DriveLeft(c) \in Nat
    BY <2>t, LeftIsNat
  <2>p. ASSUME DriveCounted', NEW c \in Callers PROVE DriveLeft(c)' \in Nat
    <3>1. /\ caller'[c].count \in Nat /\ MaxDispatches \in Nat /\ caller'[c].count <= MaxDispatches
          /\ caller'[c].at \in Stages
      BY <2>t, <2>p, DispatchAssumption DEF DispatchTypeOK, DriveCounted
    <3>2. MaxDispatches - caller'[c].count \in Nat
      BY <3>1
    <3> QED
      BY <3>1, <3>2 DEF DriveLeft
  <2>1. CASE \E c \in Callers : Drive(c)
    <3>1. PICK c \in Callers : Drive(c)
      BY <2>1
    <3>2. DriveCounted' /\ DriveLeft(c)' < DriveLeft(c) /\ \A e \in Callers \ {c} : DriveLeft(e)' = DriveLeft(e)
      BY <2>t, <3>1, DriveShortens
    <3>3. ASSUME NEW e \in Callers, Drive(e) PROVE DriveLeft(e)' < DriveLeft(e)
      BY <2>t, <3>3, DriveShortens
    <3>4. \A e \in Callers : DriveLeft(e)' \in Nat
      BY <2>p, <3>2
    <3>5. \A e \in Callers : Drive(e) => DriveLeft(e)' \in 0..(DriveLeft(e) - 1)
      BY <2>n, <3>3, <3>4
    <3>6. \A e \in Callers : ~(DriveLeft(e)' > DriveLeft(e))
      BY <2>n, <3>2, <3>4
    <3> QED
      BY <3>2, <3>5, <3>6
  <2>2. CASE \A c \in Callers : ~Drive(c)
    BY <2>2, OthersLeave
  <2> QED
    BY <2>1, <2>2
<1> QED
  BY <1>1, <1>2, DispatchInvariantHolds, PTL DEF DispatchSpec, DrivesBounded
=============================================================================
