---------------------------- MODULE RunLifecycle ----------------------------
(***************************************************************************)
(* What a run promises whoever reads its state.json, without the engine's  *)
(* loops, gates, holds or lock: which states of the run and of its nodes   *)
(* may follow each other on disk, and when.                                *)
(*                                                                         *)
(* One step is one replacement of the file.  Several nodes may move in it, *)
(* but at most one attempt begins, so that no attempt ever runs unseen;    *)
(* RunEngine implements this module (RunRefinement).                       *)
(***************************************************************************)
EXTENDS Naturals

CONSTANTS Nodes, DependsOn

VARIABLES
  status,    \* of the run, as in state.json; RUNNING and WAITING are both "ACTIVE"
  node,      \* node[n]: "TODO" (PENDING or READY), "RUNNING" or a final status
  attempts   \* attempts[n]: attempts begun so far

view == <<status, node, attempts>>

NodeFinal == {"SUCCEEDED", "FAILED", "BLOCKED", "SKIPPED"}
RunFinal  == {"SUCCEEDED", "FAILED", "CANCELLED"}

Init ==
  /\ status \in {"DRAFT", "APPROVED"}
  /\ node = [n \in Nodes |-> "TODO"]
  /\ attempts = [n \in Nodes |-> 0]

\* How one node may move between two versions of the file.
NodeMove(n) ==
  \/ node'[n] = node[n]
  \/ node[n] = "TODO" /\ node'[n] \in {"RUNNING", "FAILED", "BLOCKED", "SKIPPED"}
  \/ node[n] = "RUNNING" /\ node'[n] \in {"TODO", "SUCCEEDED", "FAILED", "SKIPPED"}

\* A new attempt of n: its dependencies have succeeded and n is shown RUNNING.
Begins(n) ==
  /\ attempts' = [attempts EXCEPT ![n] = @ + 1]
  /\ node[n] \notin NodeFinal /\ node'[n] = "RUNNING"
  /\ \A d \in DependsOn[n] : node'[d] = "SUCCEEDED"

\* The plan is decided, nothing has run.
Approve == status = "DRAFT" /\ status' = "APPROVED" /\ UNCHANGED <<node, attempts>>

\* The engine works on the run: only now may nodes move.
Work ==
  /\ status \in {"APPROVED", "ACTIVE"} /\ status' = "ACTIVE"
  /\ \A n \in Nodes : NodeMove(n)
  /\ \/ attempts' = attempts
        /\ \A n \in Nodes : node[n] = "TODO" => node'[n] # "RUNNING"
     \/ \E n \in Nodes : Begins(n)
          /\ \A m \in Nodes \ {n} : node[m] = "TODO" => node'[m] # "RUNNING"

\* Every node is final and the run takes their verdict.
Finish ==
  /\ status \in {"APPROVED", "ACTIVE"}
  /\ \A n \in Nodes : NodeMove(n) /\ node'[n] \in NodeFinal
  /\ status' = IF \A n \in Nodes : node'[n] = "SUCCEEDED" THEN "SUCCEEDED" ELSE "FAILED"
  /\ UNCHANGED attempts

\* Cancelled, or its plan denied: whatever was open is skipped.
Abandon ==
  /\ status \notin RunFinal /\ status' = "CANCELLED"
  /\ node' = [n \in Nodes |-> IF node[n] \in NodeFinal THEN node[n] ELSE "SKIPPED"]
  /\ UNCHANGED attempts

Next == Approve \/ Work \/ Finish \/ Abandon

Spec == Init /\ [][Next]_view
=============================================================================
