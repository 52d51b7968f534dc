---------------------------- MODULE RunRefinement ----------------------------
(***************************************************************************)
(* RunEngine implements RunLifecycle: the refinement mapping reads the     *)
(* lifecycle off the state on disk.                                        *)
(***************************************************************************)
EXTENDS RunPromises

LifecycleStatus(r) == IF r.status \in {"RUNNING", "WAITING"} THEN "ACTIVE" ELSE r.status

LifecycleNode(s) == IF s.status \in {"PENDING", "READY"} THEN "TODO" ELSE s.status

Lifecycle ==
  INSTANCE RunLifecycle WITH
    status   <- LifecycleStatus(disk),
    node     <- [n \in Nodes |-> LifecycleNode(disk.nodes[n])],
    attempts <- [n \in Nodes |-> disk.nodes[n].attempts]

\* Every save of the engine is a step of the lifecycle: no attempt is skipped over, none
\* begins before its dependencies are done, and final states are final.
ImplementsLifecycle == Lifecycle!Spec

-----------------------------------------------------------------------------
(* The inductive invariant behind ImplementsLifecycle: how far memory has  *)
(* moved on from the disk.                                                 *)

\* A node that is x on disk may be y in memory, no attempt of it having begun since.
MayBecome(x, y) ==
  \/ y = x
  \/ x \in {"PENDING", "READY"} /\ y \in {"READY", "FAILED", "BLOCKED", "SKIPPED"}
  \/ x = "RUNNING" /\ y \in {"READY", "SUCCEEDED", "FAILED", "SKIPPED"}

MovedOn(r, q, n) ==
  MayBecome(r.nodes[n].status, q.nodes[n].status) /\ q.nodes[n].attempts = r.nodes[n].attempts

Working(r) == r.status \in {"APPROVED", "RUNNING", "WAITING"}

\* What the save that ends an operation makes of r.
Concludes(r, q) ==
  \/ q.status \in {r.status, IF r.status = "DRAFT" THEN "APPROVED" ELSE r.status} /\ q.nodes = r.nodes
  \/ r.status \notin RunTerminal /\ q.status = "CANCELLED" /\ q.nodes = SkipOpenNodes(r).nodes
  \/ Working(r) /\ q.status = "WAITING"
  \/ Working(r) /\ q.status = FinalStatus(q) /\ \A n \in Nodes : ~Open(q, n)

LifecycleInvariant ==
  /\ \A n \in Nodes : (pc = "ahead" /\ n = Current) \/ MovedOn(disk, mem, n)
  /\ pc = "ahead" => /\ disk.nodes[Current].status \in {"PENDING", "READY", "RUNNING"}
                     /\ mem.nodes[Current].attempts = disk.nodes[Current].attempts + 1
  /\ pc \notin {"idle", "create", "save", "attest"} => Working(disk)
  /\ pc \in {"save", "attest"} => Concludes(disk, mem)
=============================================================================
