---------------------------- MODULE StorePromises ----------------------------
(***************************************************************************)
(* What the run store promises its callers.                                *)
(***************************************************************************)
EXTENDS RunStore

Inside(t) == at[t] \in {"locked", "loaded", "append", "save", "write", "unlock"}

Lines == [seq : Nat, prev : Nat, id : Nat, readable : BOOLEAN]

TypeOK ==
  /\ at \in [Threads -> Stages]
  /\ threadLock \in [Processes -> Threads \cup {None}] /\ fileLock \in Threads \cup {None}
  /\ file = None \/ file \in [version : Nat, whole : BOOLEAN]
  /\ DOMAIN temp = Threads
  /\ base \in [Threads -> Nat] /\ saves \in Nat
  /\ tail \in [Threads -> [seq : Nat, id : Nat]]
  /\ lines \in Seq(Lines) /\ issued \in Nat /\ acked \in Seq(Nat)
  /\ ended \in BOOLEAN /\ misread \in BOOLEAN

\* The locks are held by those who are between taking and releasing them.
LocksHeld ==
  /\ \A t \in Threads :
       Inside(t) \/ at[t] \in {"open", "file", "leave"} => threadLock[ProcessOf[t]] = t
  /\ \A t \in Threads : Inside(t) <=> fileLock = t

StoredVersion == IF file = None THEN 0 ELSE file.version

\* What the holder goes on from is what is stored, and a temporary file is its successor.
NothingLost ==
  \A t \in Threads :
    /\ at[t] \in {"loaded", "append", "save", "write"} => base[t] = StoredVersion
    /\ at[t] = "write" => temp[t] \in [version : {base[t] + 1}, whole : BOOLEAN]

\* Nothing but a finished temporary file is promoted.
OnlyWhole == (file # None => file.whole) /\ ~misread

\* Events are written in the order of their ids; where no line is damaged, none is missing.
TraceInOrder ==
  /\ ~ended => lines # <<>>
  /\ \A i \in DOMAIN lines : lines[i].id <= issued
  /\ \A k \in DOMAIN acked : acked[k] <= issued
  /\ \A k, l \in DOMAIN acked : k < l => acked[k] < acked[l]
  /\ (\A i \in DOMAIN lines : lines[i].readable) =>
       /\ \A i, j \in DOMAIN lines : i < j => lines[i].id < lines[j].id
       /\ \A k \in DOMAIN acked : \E j \in DOMAIN lines : lines[j].id = acked[k]

StoreInvariant == TypeOK /\ LocksHeld /\ NothingLost /\ OnlyWhole /\ TraceInOrder

\* Whoever reads the state, with the lock or without, sees a complete version: never the
\* temporary file, never half of a replacement (atomic_write_text, load).
ReadersSeeWhole == ~misread

\* A trace that verifies holds every event whose append returned, once and in order, each
\* bound to the one before: torn, glued or split lines never go unnoticed (verify_trace).
VerifiedTraceComplete ==
  Verifies =>
    \A i \in DOMAIN acked : \E j \in DOMAIN lines :
      /\ lines[j].id = acked[i]
      /\ \A k \in DOMAIN acked, l \in DOMAIN lines : lines[l].id = acked[k] => (k < i <=> l < j)

\* The state file is a register advanced by one holder at a time: no update is lost, none
\* is made outside the lock, and deaths, failures and timeouts never set it back (lock, save).
Register == INSTANCE ExclusiveRegister WITH
  holder  <- fileLock,
  version <- StoredVersion
AdvancesExclusively == Register!Spec

\* Every operation comes back to its caller, with a result or an error, and then holds
\* neither lock: a timeout or a failed write never leaves a lock behind (lock's finally).
OperationsEnd ==
  \A t \in Threads :
    at[t] # "idle" ~> (at[t] = "idle" /\ fileLock # t /\ threadLock[ProcessOf[t]] # t)

\* The safety half of it: a caller that is not between taking a lock and giving it back
\* does not hold it, whichever error path brought it there.
NoLockLeft ==
  \A t \in Threads : at[t] \in {"idle", "thread"} => fileLock # t /\ threadLock[ProcessOf[t]] # t

\* Whoever is about to append goes on from the last line there is: no event is added
\* between reading the tail and writing after it (append_trace, under the lock).
TailCurrent ==
  \A t \in Threads : at[t] = "append" =>
    /\ TailReadable
    /\ tail[t] = IF lines = <<>> THEN NoTail ELSE [seq |-> Last.seq, id |-> Last.id]

Intact == ended /\ Verifies

\* A trace that verifies goes on verifying, however callers take turns: with no separator in
\* the events, only an append that fails or dies in the middle can damage it (append_trace).
OnlyTornAppendsBreak ==
  [][Intact /\ ~Intact' /\ "separator" \notin Texts =>
       \E t \in Threads :
         \/ EmitFails(t)
         \/ at[t] = "append" /\ ProcessDies(ProcessOf[t])]_vars

\* A run whose state is stored can be worked on: its next event can be appended
\* (README.md:31 "a run survives restarts and can be resumed safely").
RunSurvivesRestart == file # None => TailReadable

\* An event whose append returned is read back (trace_jsonl.py:3 "Each event is written as
\* one canonical JSON line").
EventsReadBack ==
  \A i \in DOMAIN acked : \E j \in DOMAIN lines : lines[j].id = acked[i] /\ lines[j].readable
=============================================================================
