-------------------------- MODULE ExclusiveRegister --------------------------
(***************************************************************************)
(* What the run store promises those who keep to "lock, load, save,        *)
(* unlock" (ge_runtime/store.py): state.json behaves like a register that  *)
(* one holder at a time may advance, from the version it holds, and that   *)
(* no failure, timeout or death of a process sets back.                    *)
(***************************************************************************)
EXTENDS Naturals

CONSTANTS Threads, None

VARIABLES holder, version

Init == holder = None /\ version = 0

Enter(t) == holder = None /\ holder' = t /\ UNCHANGED version

\* The holder saves the successor of what is stored.
Advance(t) == holder = t /\ version' = version + 1 /\ UNCHANGED holder

\* It unlocks, or its process dies.
Leave(t) == holder = t /\ holder' = None /\ UNCHANGED version

Next == \E t \in Threads : Enter(t) \/ Advance(t) \/ Leave(t)

Spec == Init /\ [][Next]_<<holder, version>>
=============================================================================
