----------------------------- MODULE Readmission -----------------------------
(***************************************************************************)
(* Why a stored spec is admitted again: what its first admission found of  *)
(* its graph is true of the stored nodes, and the second admission cannot  *)
(* find anything else.  The inductive invariant behind Readmitted.         *)
(***************************************************************************)
EXTENDS AdmissionPromises

\* The promises, of what is stored.
Kept == INSTANCE AdmissionPromises WITH nodes <- stored.nodes, order <- stored.order

\* Loading hands admit() what it normalised itself, which breaks no rule.
StoredIsNormal ==
  /\ raw.nodes = stored.nodes /\ Normalized = stored.nodes
  /\ ~GraphErrors(raw, stored.nodes) /\ raw.disabled = {}

StoredIsAdmissible ==
  /\ ~Kept!HasCycle /\ ~Kept!Miswired /\ Kept!AllAvailable
  /\ stored.order \in Seq(Kept!Ids) /\ Kept!Ids = ElementsOf(stored.order) /\ Kept!OrderInvariant

\* The nodes taken so far stand where they are stored.
OrderRepeats ==
  \A i \in DOMAIN order : i \in DOMAIN stored.order /\ order[i] = stored.order[i]

ReadmissionInvariant ==
  stored # None =>
    /\ StoredIsNormal /\ StoredIsAdmissible
    /\ phase # "structure" => nodes = stored.nodes
    /\ OrderRepeats
=============================================================================
