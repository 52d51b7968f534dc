------------------------------ MODULE RunStore ------------------------------
(***************************************************************************)
(* The files of one run and the callers that share them                    *)
(* (ge_runtime/store.py, _fs.py, adapters/defaults/trace_jsonl.py): the    *)
(* lock (a lock among the threads of a process, then an OS file lock), the *)
(* state file replaced by renaming a temporary file, the trace appended    *)
(* line by line.  Writes fail, and processes die, between any two steps.   *)
(*                                                                         *)
(* A caller's operation is the engine's: lock; load (or create); append    *)
(* events and save, several times; unlock (RunEngine has what it decides). *)
(* The state is its version: a save stores the successor of the version    *)
(* the operation loaded, or saved last.                                    *)
(***************************************************************************)
EXTENDS Naturals, Sequences

CONSTANTS
  Threads, ProcessOf,  \* callers, and the process each runs in
  None,
  Texts,               \* what events carry: "plain", "separator" (a Unicode line separator)
  MaxSaves, MaxEvents, MaxDeaths, MaxFailures  \* bounds on what the model does

ASSUME StoreAssumption == None \notin Threads \cup [version : Nat, whole : BOOLEAN]

Processes == {ProcessOf[t] : t \in Threads}

VARIABLES
  at,          \* at[t]: where caller t is
  threadLock,  \* threadLock[p]: holder of the process's lock for the run
  fileLock,    \* holder of the OS lock on .lock
  file,        \* state.json: its version, and whether it is complete (None: absent)
  temp,        \* temp[t]: the temporary file t is writing
  base,        \* base[t]: the version t loaded or saved last
  tail,        \* tail[t]: seq and id of the last event t read, before it appends
  lines,       \* trace.jsonl, as it is split into lines when read
  ended,       \* the last line ends with a newline
  issued,      \* events so far (an event's id stands for its hash)
  acked,       \* history: events whose append returned, in order
  saves,       \* history: saves that replaced the state
  misread,     \* history: some load found a state file that was not whole
  deaths, failures  \* bounds

locks == <<threadLock, fileLock>>
state == <<file, temp, base, saves, misread>>
trace == <<tail, lines, ended, issued, acked>>
vars  == <<at, locks, state, trace, deaths, failures>>

Stages == {"idle", "thread", "open", "file", "locked", "loaded", "append", "save", "write", "unlock", "leave"}
NoTail == [seq |-> 0, id |-> 0]

Init ==
  /\ at = [t \in Threads |-> "idle"]
  /\ threadLock = [p \in Processes |-> None] /\ fileLock = None
  /\ file = None /\ temp = [t \in Threads |-> None] /\ base = [t \in Threads |-> 0]
  /\ tail = [t \in Threads |-> NoTail]
  /\ lines = <<>> /\ ended = TRUE /\ issued = 0 /\ acked = <<>>
  /\ saves = 0 /\ misread = FALSE /\ deaths = 0 /\ failures = 0

Goto(t, stage) == at' = [at EXCEPT ![t] = stage]

\* An OSError: disk full, permissions.
Fails == failures < MaxFailures /\ failures' = failures + 1

-----------------------------------------------------------------------------
(* lock().                                                                 *)

Begin(t) ==
  /\ at[t] = "idle" /\ Goto(t, "thread")
  /\ UNCHANGED <<locks, state, trace, deaths, failures>>

AcquireThreadLock(t) ==
  /\ at[t] = "thread" /\ threadLock[ProcessOf[t]] = None
  /\ threadLock' = [threadLock EXCEPT ![ProcessOf[t]] = t] /\ Goto(t, "open")
  /\ UNCHANGED <<fileLock, state, trace, deaths, failures>>

\* RUN_LOCKED: busy in this process.
ThreadLockTimeout(t) ==
  /\ at[t] = "thread" /\ threadLock[ProcessOf[t]] # None
  /\ Goto(t, "idle")
  /\ UNCHANGED <<locks, state, trace, deaths, failures>>

OpenLockFile(t) ==
  /\ at[t] = "open"
  /\ \/ Goto(t, "file") /\ UNCHANGED failures
     \/ Fails /\ Goto(t, "leave")
  /\ UNCHANGED <<locks, state, trace, deaths>>

AcquireFileLock_Unchecked(t) ==
  /\ at[t] = "file"
  /\ fileLock' = t /\ Goto(t, "locked")
  /\ UNCHANGED <<threadLock, state, trace, deaths, failures>>

AcquireFileLock(t) ==
  /\ at[t] = "file" /\ fileLock = None
  /\ fileLock' = t /\ Goto(t, "locked")
  /\ UNCHANGED <<threadLock, state, trace, deaths, failures>>

FileLockTimeout_KeepsThreadLock(t) ==
  /\ at[t] = "file" /\ fileLock # None /\ Goto(t, "idle")
  /\ UNCHANGED <<locks, state, trace, deaths, failures>>

\* RUN_LOCKED: locked by another process at the last try.
FileLockTimeout(t) ==
  /\ at[t] = "file" /\ fileLock # None /\ Goto(t, "leave")
  /\ UNCHANGED <<locks, state, trace, deaths, failures>>

\* The operation's own variables go with it.
Unlock(t) ==
  /\ at[t] = "unlock" /\ fileLock' = None /\ Goto(t, "leave")
  /\ base' = [base EXCEPT ![t] = 0] /\ tail' = [tail EXCEPT ![t] = NoTail]
  /\ UNCHANGED <<threadLock, file, temp, saves, misread, lines, ended, issued, acked, deaths, failures>>

LeaveThreadLock(t) ==
  /\ at[t] = "leave" /\ Goto(t, "idle")
  /\ threadLock' = [threadLock EXCEPT ![ProcessOf[t]] = None]
  /\ UNCHANGED <<fileLock, state, trace, deaths, failures>>

-----------------------------------------------------------------------------
(* load() and save().                                                      *)

\* What a load says of the file it opens: STATE_CORRUPT unless it is whole.
Read == misread' = (misread \/ (file # None /\ ~file.whole))

\* Without the lock: status, explain, a drive looking for work.
Peek(t) ==
  /\ at[t] = "idle" /\ file # None /\ Read
  /\ UNCHANGED <<at, locks, file, temp, base, saves, trace, deaths, failures>>

Load(t) ==
  /\ at[t] = "locked" /\ file # None /\ Read
  /\ base' = [base EXCEPT ![t] = file.version]
  /\ Goto(t, IF file.whole THEN "loaded" ELSE "unlock")
  /\ UNCHANGED <<locks, file, temp, saves, trace, deaths, failures>>

\* create: the state is saved before the first event.
Create(t) ==
  /\ at[t] = "locked" /\ file = None
  /\ base' = [base EXCEPT ![t] = 0] /\ Goto(t, "save")
  /\ UNCHANGED <<locks, file, temp, saves, misread, trace, deaths, failures>>

\* The operation is refused, or it is done.
Finish(t) ==
  /\ at[t] = "loaded" /\ Goto(t, "unlock")
  /\ UNCHANGED <<locks, state, trace, deaths, failures>>

BeginSave(t) ==
  /\ at[t] = "loaded" /\ saves < MaxSaves /\ Goto(t, "save")
  /\ UNCHANGED <<locks, state, trace, deaths, failures>>

MakeTemp_InPlace(t) ==
  /\ at[t] = "save" /\ Goto(t, "write")
  /\ file' = [version |-> base[t] + 1, whole |-> FALSE]
  /\ temp' = [temp EXCEPT ![t] = [version |-> base[t] + 1, whole |-> TRUE]]
  /\ UNCHANGED <<locks, base, saves, misread, trace, deaths, failures>>

\* atomic_write_text: a temporary file first, written and synced ...
MakeTemp(t) ==
  /\ at[t] = "save"
  /\ \/ /\ Goto(t, "write") /\ UNCHANGED failures
        /\ \E whole \in BOOLEAN : temp' = [temp EXCEPT ![t] = [version |-> base[t] + 1, whole |-> whole]]
     \/ Fails /\ Goto(t, "unlock") /\ UNCHANGED temp
  /\ UNCHANGED <<locks, file, base, saves, misread, trace, deaths>>

WriteTemp(t) ==
  /\ at[t] = "write" /\ ~temp[t].whole
  /\ \/ temp' = [temp EXCEPT ![t].whole = TRUE] /\ UNCHANGED <<at, failures>>
     \/ Fails /\ Goto(t, "unlock") /\ temp' = [temp EXCEPT ![t] = None]
  /\ UNCHANGED <<locks, file, base, saves, misread, trace, deaths>>

\* ... then promoted. The operation goes on with what it saved.
Replace(t) ==
  /\ at[t] = "write" /\ temp[t].whole
  /\ file' = temp[t] /\ temp' = [temp EXCEPT ![t] = None] /\ saves' = saves + 1
  /\ base' = [base EXCEPT ![t] = temp[t].version] /\ Goto(t, "loaded")
  /\ UNCHANGED <<locks, misread, trace, deaths, failures>>

-----------------------------------------------------------------------------
(* append_trace(), and what a failed or interrupted one leaves behind.     *)

Last == lines[Len(lines)]

\* The tail is what the last line says; an unreadable one is STATE_CORRUPT.
TailReadable == lines = <<>> \/ Last.readable

ReadTail(t) ==
  /\ at[t] = "loaded" /\ issued < MaxEvents
  /\ IF TailReadable
     THEN /\ tail' = [tail EXCEPT ![t] =
                IF lines = <<>> THEN NoTail ELSE [seq |-> Last.seq, id |-> Last.id]]
          /\ Goto(t, "append")
     ELSE Goto(t, "unlock") /\ UNCHANGED tail
  /\ UNCHANGED <<locks, state, lines, ended, issued, acked, deaths, failures>>

Line(t, readable) ==
  [seq |-> tail[t].seq + 1, prev |-> tail[t].id, id |-> issued + 1, readable |-> readable]

\* How a write may end: all of it, nothing, a part, or all but the newline.
Cuts == {"whole", "nothing", "torn", "no newline"}

\* The trace once the event's bytes are added to it: they continue a last line that has no
\* newline, and text with a line separator is read as two lines, neither of them JSON.
Written(t, text, cut) ==
  IF ~ended THEN [lines EXCEPT ![Len(lines)].readable = FALSE]
  ELSE IF text = "separator" THEN lines \o <<Line(t, FALSE), Line(t, FALSE)>>
  ELSE Append(lines, Line(t, cut # "torn"))

Add(t, text, cut) ==
  IF cut = "nothing" THEN UNCHANGED <<lines, ended>>
  ELSE lines' = Written(t, text, cut) /\ ended' = (cut = "whole")

Emit(t) ==
  /\ at[t] = "append" /\ Goto(t, "loaded")
  /\ \E text \in Texts : Add(t, text, "whole")
  /\ issued' = issued + 1 /\ acked' = Append(acked, issued + 1)
  /\ tail' = [tail EXCEPT ![t] = NoTail]
  /\ UNCHANGED <<locks, state, deaths, failures>>

\* TRACE_WRITE_FAILED.
EmitFails(t) ==
  /\ at[t] = "append" /\ Fails /\ Goto(t, "unlock")
  /\ \E text \in Texts, cut \in Cuts : Add(t, text, cut)
  /\ issued' = issued + 1
  /\ UNCHANGED <<locks, state, tail, acked, deaths>>

-----------------------------------------------------------------------------
(* verify_trace: every line readable, numbered, and bound to the one before. *)

Verifies_ButLast ==
  \A i \in DOMAIN lines : i < Len(lines) =>
    /\ lines[i].readable /\ lines[i].seq = i
    /\ lines[i].prev = IF i = 1 THEN 0 ELSE lines[i - 1].id

Verifies ==
  \A i \in DOMAIN lines :
    /\ lines[i].readable /\ lines[i].seq = i
    /\ lines[i].prev = IF i = 1 THEN 0 ELSE lines[i - 1].id

-----------------------------------------------------------------------------
\* A process dies: the OS frees its lock, a write in progress stops anywhere; its threads
\* stand for those of its successor from then on. Temporary files stay, unused.
ProcessDies(p) ==
  LET dead == {t \in Threads : ProcessOf[t] = p}
  IN  /\ deaths < MaxDeaths /\ \E t \in dead : at[t] # "idle"
      /\ deaths' = deaths + 1
      /\ at' = [t \in Threads |-> IF t \in dead THEN "idle" ELSE at[t]]
      /\ threadLock' = [threadLock EXCEPT ![p] = None]
      /\ fileLock' = IF fileLock \in dead THEN None ELSE fileLock
      /\ temp' = [t \in Threads |-> IF t \in dead THEN None ELSE temp[t]]
      /\ base' = [t \in Threads |-> IF t \in dead THEN 0 ELSE base[t]]
      /\ tail' = [t \in Threads |-> IF t \in dead THEN NoTail ELSE tail[t]]
      /\ IF \E t \in dead : at[t] = "append"
         THEN /\ \E t \in dead, text \in Texts, cut \in Cuts : at[t] = "append" /\ Add(t, text, cut)
              /\ issued' = issued + 1
         ELSE UNCHANGED <<lines, ended, issued>>
      /\ UNCHANGED <<file, saves, misread, acked, failures>>

\* What a caller goes on to do by itself once it has begun.
Continue(t) ==
  \/ AcquireThreadLock(t) \/ ThreadLockTimeout(t) \/ OpenLockFile(t)
  \/ AcquireFileLock(t) \/ FileLockTimeout(t) \/ Unlock(t) \/ LeaveThreadLock(t)
  \/ Load(t) \/ Create(t) \/ Finish(t) \/ BeginSave(t) \/ MakeTemp(t) \/ WriteTemp(t) \/ Replace(t)
  \/ ReadTail(t) \/ Emit(t) \/ EmitFails(t)

Next ==
  \/ \E t \in Threads : Begin(t) \/ Peek(t) \/ Continue(t)
  \/ \E p \in Processes : ProcessDies(p)

Spec == Init /\ [][Next]_vars

\* A thread that has begun an operation goes on with it.
FairSpec == Spec /\ \A t \in Threads : WF_vars(Continue(t))
=============================================================================
