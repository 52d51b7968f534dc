----------------------------- MODULE StoreProofs -----------------------------
(***************************************************************************)
(* Proofs about RunStore: for any callers, processes and bounds, the run   *)
(* store is an exclusive register, its readers see whole states, and a     *)
(* trace that verifies is complete.                                        *)
(***************************************************************************)
EXTENDS StorePromises, TLAPS

LEMMA InitHolds == Init => StoreInvariant
<1> SUFFICES ASSUME Init PROVE StoreInvariant
  OBVIOUS
<1>1. TypeOK
  <2>1. misread \in BOOLEAN /\ ended \in BOOLEAN
    BY Zenon DEF Init
  <2>2. lines \in Seq(Lines) /\ acked \in Seq(Nat)
    BY DEF Init
  <2> QED
    BY <2>1, <2>2 DEF Init, TypeOK, Stages, NoTail
<1>2. LocksHeld /\ NothingLost
  BY StoreAssumption DEF Init, LocksHeld, NothingLost, Inside
<1>3. OnlyWhole
  BY DEF Init, OnlyWhole
<1>4. TraceInOrder
  BY DEF Init, TraceInOrder
<1> QED
  BY <1>1, <1>2, <1>3, <1>4 DEF StoreInvariant

-----------------------------------------------------------------------------
(* The trace.                                                              *)

LEMMA Appended ==
  ASSUME TypeOK
  PROVE  /\ DOMAIN Append(acked, issued + 1) = 1..(Len(acked) + 1)
         /\ Append(acked, issued + 1)[Len(acked) + 1] = issued + 1
         /\ \A k \in DOMAIN acked : Append(acked, issued + 1)[k] = acked[k]
         /\ Append(acked, issued + 1) \in Seq(Nat)
<1>1. acked \in Seq(Nat) /\ issued + 1 \in Nat
  BY DEF TypeOK
<1> QED
  BY <1>1

\* However a write ends, what it leaves keeps the trace in order.
LEMMA AddKeeps ==
  ASSUME TypeOK, TraceInOrder, NEW t \in Threads, NEW text, NEW cut, Add(t, text, cut),
         issued' = issued + 1,
         acked' = acked \/ (cut = "whole" /\ acked' = Append(acked, issued + 1))
  PROVE  TraceInOrder' /\ lines' \in Seq(Lines) /\ ended' \in BOOLEAN
<1>1. /\ lines \in Seq(Lines) /\ acked \in Seq(Nat) /\ issued \in Nat /\ tail[t] \in [seq : Nat, id : Nat]
      /\ DOMAIN lines = 1..Len(lines) /\ Len(lines) \in Nat /\ \A i \in DOMAIN lines : lines[i] \in Lines
      /\ DOMAIN acked = 1..Len(acked) /\ Len(acked) \in Nat /\ \A k \in DOMAIN acked : acked[k] \in Nat
  BY DEF TypeOK
<1>2. /\ \A k \in DOMAIN acked : acked[k] <= issued
      /\ \A k, l \in DOMAIN acked : k < l => acked[k] < acked[l]
      /\ \A i \in DOMAIN lines : lines[i].id \in Nat /\ lines[i].id <= issued
  BY <1>1 DEF TraceInOrder, Lines
<1>3. ended' \in BOOLEAN
  <2>1. CASE cut = "nothing"
    BY <2>1 DEF Add, TypeOK
  <2>2. CASE cut # "nothing"
    BY <2>2, Zenon DEF Add
  <2> QED
    BY <2>1, <2>2
<1>4. /\ \A k \in DOMAIN acked' : acked'[k] <= issued'
      /\ \A k, l \in DOMAIN acked' : k < l => acked'[k] < acked'[l]
  <2>1. CASE acked' = acked
    <3>1. \A k \in DOMAIN acked : acked[k] <= issued + 1
      BY <1>1, <1>2
    <3> QED
      BY <1>2, <2>1, <3>1
  <2>2. CASE acked' = Append(acked, issued + 1)
    <3>1. /\ DOMAIN acked' = 1..(Len(acked) + 1) /\ acked'[Len(acked) + 1] = issued + 1
          /\ \A k \in DOMAIN acked : acked'[k] = acked[k]
      BY <2>2, Appended
    <3>2. \A k \in DOMAIN acked' : acked'[k] <= issued + 1
      BY <1>1, <1>2, <3>1
    <3>3. ASSUME NEW k \in DOMAIN acked', NEW l \in DOMAIN acked', k < l PROVE acked'[k] < acked'[l]
      <4>1. k \in DOMAIN acked /\ acked[k] \in Nat
        BY <1>1, <3>1, <3>3
      <4>2. CASE l \in DOMAIN acked
        BY <1>2, <3>1, <3>3, <4>1, <4>2
      <4>3. CASE l = Len(acked) + 1
        <5>1. acked[k] <= issued /\ acked'[k] = acked[k] /\ acked'[l] = issued + 1
          BY <1>2, <3>1, <4>1, <4>3
        <5> QED
          BY <1>1, <4>1, <5>1
      <4> QED
        BY <1>1, <3>1, <4>2, <4>3, SMTT(40)
    <3> QED
      BY <3>2, <3>3
  <2> QED
    BY <2>1, <2>2
\* What is left to show of the lines, in each way a write may end.
<1>5. SUFFICES /\ lines' \in Seq(Lines) /\ (~ended' => lines' # <<>>)
               /\ \A i \in DOMAIN lines' : lines'[i].id <= issued'
               /\ (\A i \in DOMAIN lines' : lines'[i].readable) =>
                    /\ \A i, j \in DOMAIN lines' : i < j => lines'[i].id < lines'[j].id
                    /\ \A k \in DOMAIN acked' : \E j \in DOMAIN lines' : lines'[j].id = acked'[k]
  BY <1>3, <1>4 DEF TraceInOrder
<1>6. CASE cut = "nothing"
  <2>1. acked' = acked /\ lines' = lines /\ ended' = ended
    BY <1>6 DEF Add
  <2>2. \A i \in DOMAIN lines : lines[i].id <= issued + 1
    BY <1>1, <1>2
  <2> QED
    BY <1>1, <2>1, <2>2 DEF TraceInOrder
<1>7. \A readable \in BOOLEAN : Line(t, readable) \in Lines /\ Line(t, readable).id = issued + 1
                                /\ Line(t, readable).readable = readable
  BY <1>1 DEF Line, Lines
<1>8. CASE cut # "nothing" /\ ~ended
  <2>1. lines' = [lines EXCEPT ![Len(lines)].readable = FALSE] /\ lines # <<>>
    BY <1>8 DEF Add, Written, TraceInOrder
  <2>2. Len(lines) \in DOMAIN lines /\ DOMAIN lines' = DOMAIN lines
    BY <1>1, <2>1
  <2>3. ASSUME NEW i \in DOMAIN lines PROVE lines'[i] \in Lines /\ lines'[i].id = lines[i].id
    <3>1. lines'[i] = lines[i] \/ lines'[i] = [lines[i] EXCEPT !.readable = FALSE]
      BY <1>1, <2>1
    <3>2. lines[i] \in Lines
      BY <1>1
    <3> QED
      BY <3>1, <3>2 DEF Lines
  <2>4. lines'[Len(lines)].readable = FALSE
    <3>1. lines[Len(lines)] \in Lines /\ lines'[Len(lines)] = [lines[Len(lines)] EXCEPT !.readable = FALSE]
      BY <1>1, <2>1, <2>2
    <3> QED
      BY <3>1 DEF Lines
  <2>5. lines' \in Seq(Lines) /\ lines' # <<>>
    <3>1. lines' \in [1..Len(lines) -> Lines]
      BY <1>1, <2>1, <2>2, <2>3
    <3> QED
      BY <1>1, <2>2, <3>1, SMTT(40)
  <2>6. \A i \in DOMAIN lines' : lines'[i].id <= issued'
    BY <1>1, <1>2, <2>2, <2>3
  <2> QED
    BY <2>2, <2>4, <2>5, <2>6
<1>9. CASE cut # "nothing" /\ ended /\ text = "separator"
  <2> DEFINE half == Line(t, FALSE)
  <2>1. lines' = lines \o <<half, half>>
    BY <1>9 DEF Add, Written
  <2>2. half \in Lines /\ half.id = issued + 1 /\ half.readable = FALSE
    BY <1>7
  <2> HIDE DEF half
  <2>3. /\ lines' \in Seq(Lines) /\ DOMAIN lines' = 1..(Len(lines) + 2)
        /\ lines'[Len(lines) + 1] = half /\ lines'[Len(lines) + 2] = half
        /\ \A i \in DOMAIN lines : lines'[i] = lines[i]
    BY <1>1, <2>1, <2>2
  <2>4. \A i \in DOMAIN lines' : i \in DOMAIN lines \/ lines'[i] = half
    BY <1>1, <2>3
  <2>5. \A i \in DOMAIN lines' : lines'[i].id <= issued'
    BY <1>1, <1>2, <2>2, <2>3, <2>4, SMTT(40)
  <2>6. Len(lines) + 1 \in DOMAIN lines' /\ ~lines'[Len(lines) + 1].readable
    BY <1>1, <2>2, <2>3
  <2>7. lines' # <<>>
    BY <1>1, <2>3
  <2> QED
    BY <2>3, <2>5, <2>6, <2>7
<1>10. CASE cut # "nothing" /\ ended /\ text # "separator"
  <2> DEFINE line == Line(t, cut # "torn")
  <2>1. lines' = Append(lines, line)
    BY <1>10 DEF Add, Written
  <2>2. line \in Lines /\ line.id = issued + 1
    <3>1. (cut # "torn") \in BOOLEAN
      BY Zenon
    <3> QED
      BY <1>7, <3>1
  <2> HIDE DEF line
  <2>3. /\ lines' \in Seq(Lines) /\ DOMAIN lines' = 1..(Len(lines) + 1) /\ lines'[Len(lines) + 1] = line
        /\ \A i \in DOMAIN lines : i \in DOMAIN lines' /\ lines'[i] = lines[i]
    BY <1>1, <2>1, <2>2
  <2>4. \A i \in DOMAIN lines' : i \in DOMAIN lines \/ i = Len(lines) + 1
    BY <1>1, <2>3
  <2>5. \A i \in DOMAIN lines' : lines'[i].id <= issued'
    BY <1>1, <1>2, <2>2, <2>3, <2>4, SMTT(40)
  <2>6. lines' # <<>>
    BY <1>1, <2>3
  <2>7. ASSUME \A i \in DOMAIN lines' : lines'[i].readable
        PROVE  /\ \A i, j \in DOMAIN lines' : i < j => lines'[i].id < lines'[j].id
               /\ \A k \in DOMAIN acked' : \E j \in DOMAIN lines' : lines'[j].id = acked'[k]
    <3>1. \A i \in DOMAIN lines : lines[i].readable
      BY <2>3, <2>7
    <3>2. /\ \A i, j \in DOMAIN lines : i < j => lines[i].id < lines[j].id
          /\ \A k \in DOMAIN acked : \E j \in DOMAIN lines : lines[j].id = acked[k]
      BY <3>1 DEF TraceInOrder
    <3>3. \A i, j \in DOMAIN lines' : i < j => lines'[i].id < lines'[j].id
      <4> SUFFICES ASSUME NEW i \in DOMAIN lines', NEW j \in DOMAIN lines', i < j
                   PROVE  lines'[i].id < lines'[j].id
        OBVIOUS
      <4>1. i \in DOMAIN lines /\ lines'[i].id = lines[i].id /\ lines[i].id \in Nat /\ lines[i].id <= issued
        BY <1>1, <1>2, <2>3
      <4>2. CASE j \in DOMAIN lines
        BY <2>3, <3>2, <4>1, <4>2
      <4>3. CASE j = Len(lines) + 1
        BY <1>1, <2>2, <2>3, <4>1, <4>3
      <4> QED
        BY <2>4, <4>2, <4>3
    <3>4. \A k \in DOMAIN acked : \E j \in DOMAIN lines' : lines'[j].id = acked[k]
      BY <2>3, <3>2
    <3>5. CASE acked' = Append(acked, issued + 1)
      <4>1. /\ DOMAIN acked' = 1..(Len(acked) + 1) /\ acked'[Len(acked) + 1] = issued + 1
            /\ \A k \in DOMAIN acked : acked'[k] = acked[k]
        BY <3>5, Appended
      <4>2. Len(lines) + 1 \in DOMAIN lines' /\ lines'[Len(lines) + 1].id = issued + 1
        BY <1>1, <2>2, <2>3
      <4>3. \A k \in DOMAIN acked' : k \in DOMAIN acked \/ acked'[k] = issued + 1
        BY <1>1, <4>1
      <4> QED
        BY <3>3, <3>4, <4>1, <4>2, <4>3
    <3> QED
      BY <3>3, <3>4, <3>5
  <2> QED
    BY <2>3, <2>5, <2>6, <2>7
<1> QED
  BY <1>6, <1>8, <1>9, <1>10

-----------------------------------------------------------------------------
(* Types.                                                                  *)

\* A step that leaves the trace alone.
LEMMA TraceFrame ==
  ASSUME lines' = lines, ended' = ended, issued' = issued, acked' = acked, TraceInOrder
  PROVE  TraceInOrder'
  BY DEF TraceInOrder

\* A load, or a look without the lock, finds the state whole.
LEMMA ReadsWhole ==
  ASSUME TypeOK, OnlyWhole, Read
  PROVE  ~misread' /\ misread' \in BOOLEAN
<1>1. ~misread /\ ~(file # None /\ ~file.whole)
  BY DEF OnlyWhole
<1>2. misread' <=> (misread \/ (file # None /\ ~file.whole))
  BY Zenon DEF Read
<1>3. misread' \in BOOLEAN
  BY Zenon DEF Read
<1> QED
  BY <1>1, <1>2, <1>3, Zenon

LEMMA ThreadProcess ==
  ASSUME NEW t \in Threads PROVE ProcessOf[t] \in Processes
  BY DEF Processes

LEMMA TypePreserved ==
  ASSUME StoreInvariant, [Next]_vars
  PROVE  TypeOK' /\ TraceInOrder'
<1> USE DEF StoreInvariant, locks, state, trace, Goto, Stages
<1>1. CASE UNCHANGED vars
  BY <1>1, TraceFrame DEF vars, TypeOK
<1>2. ASSUME NEW t \in Threads,
             \/ Begin(t) \/ AcquireThreadLock(t) \/ ThreadLockTimeout(t) \/ OpenLockFile(t)
             \/ AcquireFileLock(t) \/ FileLockTimeout(t) \/ LeaveThreadLock(t) \/ Finish(t) \/ BeginSave(t)
      PROVE  TypeOK' /\ TraceInOrder'
  <2>1. UNCHANGED <<state, trace>>
    BY <1>2 DEF Begin, AcquireThreadLock, ThreadLockTimeout, OpenLockFile, AcquireFileLock,
                FileLockTimeout, LeaveThreadLock, Finish, BeginSave
  <2>2. at' \in [Threads -> Stages]
    BY <1>2 DEF Begin, AcquireThreadLock, ThreadLockTimeout, OpenLockFile, AcquireFileLock,
                FileLockTimeout, LeaveThreadLock, Finish, BeginSave, TypeOK
  <2>3. threadLock' \in [Processes -> Threads \cup {None}] /\ fileLock' \in Threads \cup {None}
    <3>1. threadLock \in [Processes -> Threads \cup {None}] /\ fileLock \in Threads \cup {None}
      BY DEF TypeOK
    <3>2. CASE AcquireThreadLock(t) \/ LeaveThreadLock(t)
      BY <3>1, <3>2, ThreadProcess DEF AcquireThreadLock, LeaveThreadLock
    <3>3. CASE AcquireFileLock(t)
      BY <3>1, <3>3 DEF AcquireFileLock
    <3>4. CASE UNCHANGED locks
      BY <3>1, <3>4
    <3> QED
      BY <1>2, <3>2, <3>3, <3>4 DEF Begin, ThreadLockTimeout, OpenLockFile, FileLockTimeout, Finish, BeginSave
  <2> QED
    BY <2>1, <2>2, <2>3, TraceFrame DEF TypeOK
<1>3. ASSUME NEW t \in Threads, Unlock(t) PROVE TypeOK' /\ TraceInOrder'
  <2>1. base' \in [Threads -> Nat] /\ tail' \in [Threads -> [seq : Nat, id : Nat]]
    BY <1>3 DEF Unlock, NoTail, TypeOK
  <2> QED
    BY <1>3, <2>1, TraceFrame DEF Unlock, TypeOK
<1>4. ASSUME NEW t \in Threads, Peek(t) PROVE TypeOK' /\ TraceInOrder'
  <2>1. misread' \in BOOLEAN
    BY <1>4, ReadsWhole DEF Peek
  <2> QED
    BY <1>4, <2>1, TraceFrame DEF Peek, TypeOK
<1>5. ASSUME NEW t \in Threads, Load(t) PROVE TypeOK' /\ TraceInOrder'
  <2>1. misread' \in BOOLEAN
    BY <1>5, ReadsWhole DEF Load
  <2>2. base' \in [Threads -> Nat] /\ at' \in [Threads -> Stages]
    BY <1>5 DEF Load, TypeOK
  <2> QED
    BY <1>5, <2>1, <2>2, TraceFrame DEF Load, TypeOK
<1>6. ASSUME NEW t \in Threads, Create(t) PROVE TypeOK' /\ TraceInOrder'
  <2>1. base' \in [Threads -> Nat] /\ at' \in [Threads -> Stages]
    BY <1>6 DEF Create, TypeOK
  <2> QED
    BY <1>6, <2>1, TraceFrame DEF Create, TypeOK
<1>7. ASSUME NEW t \in Threads, MakeTemp(t) \/ WriteTemp(t) PROVE TypeOK' /\ TraceInOrder'
  <2>1. UNCHANGED <<locks, file, base, saves, misread, trace>>
    BY <1>7 DEF MakeTemp, WriteTemp
  <2>2. DOMAIN temp' = Threads /\ at' \in [Threads -> Stages]
    BY <1>7 DEF MakeTemp, WriteTemp, TypeOK
  <2> QED
    BY <2>1, <2>2, TraceFrame DEF TypeOK
<1>8. ASSUME NEW t \in Threads, Replace(t) PROVE TypeOK' /\ TraceInOrder'
  <2>1. temp[t] \in [version : Nat, whole : BOOLEAN]
    BY <1>8 DEF Replace, NothingLost, TypeOK
  <2>2. /\ file' \in [version : Nat, whole : BOOLEAN] /\ base' \in [Threads -> Nat] /\ saves' \in Nat
        /\ DOMAIN temp' = Threads /\ at' \in [Threads -> Stages]
    BY <1>8, <2>1 DEF Replace, TypeOK
  <2> QED
    BY <1>8, <2>2, TraceFrame DEF Replace, TypeOK
<1>9. ASSUME NEW t \in Threads, ReadTail(t) PROVE TypeOK' /\ TraceInOrder'
  <2>1. lines # <<>> => [seq |-> Last.seq, id |-> Last.id] \in [seq : Nat, id : Nat]
    <3>1. lines # <<>> => Last \in Lines
      BY DEF TypeOK, Last
    <3> QED
      BY <3>1 DEF Lines
  <2>2. at' \in [Threads -> Stages] /\ tail \in [Threads -> [seq : Nat, id : Nat]] /\ NoTail \in [seq : Nat, id : Nat]
    BY <1>9, ZenonT(60) DEF ReadTail, NoTail, TypeOK
  <2>3. tail' \in [Threads -> [seq : Nat, id : Nat]]
    BY <1>9, <2>1, <2>2 DEF ReadTail
  <2> QED
    BY <1>9, <2>2, <2>3, TraceFrame DEF ReadTail, TypeOK
<1>10. ASSUME NEW t \in Threads, Emit(t) PROVE TypeOK' /\ TraceInOrder'
  <2>1. PICK text \in Texts : Add(t, text, "whole")
    BY <1>10 DEF Emit
  <2>2. issued' = issued + 1 /\ acked' = Append(acked, issued + 1)
    BY <1>10 DEF Emit
  <2>3. TraceInOrder' /\ lines' \in Seq(Lines) /\ ended' \in BOOLEAN
    BY <2>1, <2>2, AddKeeps
  <2>4. /\ issued' \in Nat /\ acked' \in Seq(Nat) /\ tail' \in [Threads -> [seq : Nat, id : Nat]]
        /\ at' \in [Threads -> Stages]
    BY <1>10, <2>2, Appended DEF Emit, NoTail, TypeOK
  <2> QED
    BY <1>10, <2>3, <2>4 DEF Emit, TypeOK
<1>11. ASSUME NEW t \in Threads, EmitFails(t) PROVE TypeOK' /\ TraceInOrder'
  <2>1. PICK text \in Texts, cut \in Cuts : Add(t, text, cut)
    BY <1>11 DEF EmitFails
  <2>2. TraceInOrder' /\ lines' \in Seq(Lines) /\ ended' \in BOOLEAN
    BY <1>11, <2>1, AddKeeps DEF EmitFails
  <2>3. issued' \in Nat /\ at' \in [Threads -> Stages]
    BY <1>11 DEF EmitFails, TypeOK
  <2> QED
    BY <1>11, <2>2, <2>3 DEF EmitFails, TypeOK
<1>12. ASSUME NEW p \in Processes, ProcessDies(p) PROVE TypeOK' /\ TraceInOrder'
  <2> DEFINE dead == {t \in Threads : ProcessOf[t] = p}
  <2>1. /\ at' \in [Threads -> Stages] /\ threadLock' \in [Processes -> Threads \cup {None}]
        /\ fileLock' \in Threads \cup {None} /\ DOMAIN temp' = Threads /\ base' \in [Threads -> Nat]
        /\ tail' \in [Threads -> [seq : Nat, id : Nat]]
        /\ file' = file /\ saves' = saves /\ misread' = misread /\ acked' = acked
    BY <1>12 DEF ProcessDies, NoTail, TypeOK
  <2>2. CASE \E t \in dead : at[t] = "append"
    <3>1. PICK t \in dead, text \in Texts, cut \in Cuts : Add(t, text, cut)
      BY <1>12, <2>2 DEF ProcessDies
    <3>2. issued' = issued + 1 /\ acked' = acked
      BY <1>12, <2>2 DEF ProcessDies
    <3>3. TraceInOrder' /\ lines' \in Seq(Lines) /\ ended' \in BOOLEAN
      BY <3>1, <3>2, AddKeeps
    <3>4. issued' \in Nat /\ acked' \in Seq(Nat) /\ misread' \in BOOLEAN /\ saves' \in Nat
          /\ (file' = None \/ file' \in [version : Nat, whole : BOOLEAN])
      BY <2>1, <3>2 DEF TypeOK
    <3> QED
      BY <2>1, <3>3, <3>4 DEF TypeOK
  <2>3. CASE ~\E t \in dead : at[t] = "append"
    <3>1. lines' = lines /\ ended' = ended /\ issued' = issued /\ acked' = acked
      BY <1>12, <2>3 DEF ProcessDies
    <3> QED
      BY <2>1, <3>1, TraceFrame DEF TypeOK
  <2> QED
    BY <2>2, <2>3
<1> QED
  BY <1>1, <1>2, <1>3, <1>4, <1>5, <1>6, <1>7, <1>8, <1>9, <1>10, <1>11, <1>12 DEF Next, Continue

-----------------------------------------------------------------------------
(* The locks, and what their holder knows.                                 *)

\* A caller that goes on where the locks stay with whoever held them.
LEMMA LocksFrame ==
  ASSUME TypeOK, LocksHeld, NEW t \in Threads, UNCHANGED locks,
         NEW stage, at' = [at EXCEPT ![t] = stage],
         stage \in {"locked", "loaded", "append", "save", "write", "unlock"} <=> Inside(t),
         stage \in {"open", "file", "leave"} => Inside(t) \/ at[t] \in {"open", "file", "leave"}
  PROVE  LocksHeld'
<1>1. /\ threadLock' = threadLock /\ fileLock' = fileLock
      /\ at' \in [Threads -> {at[u] : u \in Threads} \cup {stage}] /\ at'[t] = stage
      /\ \A u \in Threads : u # t => at'[u] = at[u]
  BY DEF TypeOK, locks
<1>2. \A u \in Threads : Inside(u)' <=> Inside(u)
  BY <1>1 DEF Inside
<1>3. \A u \in Threads : at'[u] \in {"open", "file", "leave"} => Inside(u) \/ at[u] \in {"open", "file", "leave"}
  BY <1>1
<1> QED
  BY <1>1, <1>2, <1>3 DEF LocksHeld

\* Between taking and releasing the thread lock, a caller is alone in its process.
LEMMA LocksPreserved ==
  ASSUME StoreInvariant, [Next]_vars
  PROVE  LocksHeld'
<1> USE DEF StoreInvariant
<1>1. CASE UNCHANGED vars
  BY <1>1 DEF vars, locks, LocksHeld, Inside
<1>2. ASSUME NEW t \in Threads, Begin(t) \/ Peek(t) \/ ThreadLockTimeout(t) PROVE LocksHeld'
  <2>1. UNCHANGED locks /\ \A u \in Threads : at'[u] = at[u] \/ (at'[u] \in {"idle", "thread"} /\ ~Inside(u))
    BY <1>2 DEF Begin, Peek, ThreadLockTimeout, Goto, TypeOK, Inside
  <2> QED
    BY <2>1 DEF LocksHeld, Inside, locks
<1>3. ASSUME NEW t \in Threads, AcquireThreadLock(t) PROVE LocksHeld'
  <2>1. /\ at[t] = "thread" /\ at' = [at EXCEPT ![t] = "open"] /\ fileLock' = fileLock
        /\ threadLock[ProcessOf[t]] = None /\ threadLock' = [threadLock EXCEPT ![ProcessOf[t]] = t]
        /\ at \in [Threads -> Stages] /\ threadLock \in [Processes -> Threads \cup {None}]
    BY <1>3 DEF AcquireThreadLock, Goto, TypeOK
  <2>2. \A u \in Threads : Inside(u)' <=> Inside(u)
    BY <2>1 DEF Inside
  <2>3. ASSUME NEW u \in Threads, Inside(u)' \/ at'[u] \in {"open", "file", "leave"}
        PROVE  threadLock'[ProcessOf[u]] = u
    <3>1. CASE u = t
      BY <2>1, <3>1, ThreadProcess
    <3>2. CASE u # t
      <4>1. Inside(u) \/ at[u] \in {"open", "file", "leave"}
        BY <2>1, <2>2, <2>3, <3>2
      <4>2. threadLock[ProcessOf[u]] = u /\ u # None
        BY <4>1, StoreAssumption DEF LocksHeld
      <4>3. ProcessOf[u] # ProcessOf[t]
        BY <2>1, <4>2
      <4> QED
        BY <2>1, <4>2, <4>3, ThreadProcess
    <3> QED
      BY <3>1, <3>2
  <2> QED
    BY <2>1, <2>2, <2>3 DEF LocksHeld
<1>4. ASSUME NEW t \in Threads, LeaveThreadLock(t) PROVE LocksHeld'
  <2>1. /\ at[t] = "leave" /\ at' = [at EXCEPT ![t] = "idle"] /\ fileLock' = fileLock
        /\ threadLock' = [threadLock EXCEPT ![ProcessOf[t]] = None]
        /\ at \in [Threads -> Stages] /\ threadLock \in [Processes -> Threads \cup {None}]
    BY <1>4 DEF LeaveThreadLock, Goto, TypeOK
  <2>2. \A u \in Threads : Inside(u)' <=> Inside(u)
    BY <2>1 DEF Inside
  <2>3. ASSUME NEW u \in Threads, Inside(u)' \/ at'[u] \in {"open", "file", "leave"}
        PROVE  threadLock'[ProcessOf[u]] = u
    <3>1. u # t
      BY <2>1, <2>3 DEF Inside
    <3>2. Inside(u) \/ at[u] \in {"open", "file", "leave"}
      BY <2>1, <2>2, <2>3, <3>1
    <3>3. threadLock[ProcessOf[u]] = u /\ threadLock[ProcessOf[t]] = t
      BY <2>1, <3>2 DEF LocksHeld
    <3>4. ProcessOf[u] # ProcessOf[t]
      BY <3>1, <3>3
    <3> QED
      BY <2>1, <3>3, <3>4, ThreadProcess
  <2> QED
    BY <2>1, <2>2, <2>3 DEF LocksHeld
<1>5. ASSUME NEW t \in Threads, AcquireFileLock(t) PROVE LocksHeld'
  <2>1. /\ at[t] = "file" /\ at' = [at EXCEPT ![t] = "locked"] /\ threadLock' = threadLock
        /\ fileLock = None /\ fileLock' = t /\ at \in [Threads -> Stages]
    BY <1>5 DEF AcquireFileLock, Goto, TypeOK
  <2>2. \A u \in Threads : ~Inside(u)
    BY <2>1, StoreAssumption DEF LocksHeld
  <2>3. \A u \in Threads : Inside(u)' <=> u = t
    BY <2>1, <2>2 DEF Inside
  <2>4. \A u \in Threads : at'[u] \in {"open", "file", "leave"} => at[u] \in {"open", "file", "leave"}
    BY <2>1
  <2> QED
    BY <2>1, <2>3, <2>4 DEF LocksHeld
<1>6. ASSUME NEW t \in Threads, Unlock(t) PROVE LocksHeld'
  <2>1. /\ at[t] = "unlock" /\ at' = [at EXCEPT ![t] = "leave"] /\ threadLock' = threadLock
        /\ fileLock' = None /\ at \in [Threads -> Stages]
    BY <1>6 DEF Unlock, Goto, TypeOK
  <2>2. fileLock = t
    BY <2>1 DEF LocksHeld, Inside
  <2>3. \A u \in Threads : Inside(u) => u = t
    BY <2>2 DEF LocksHeld
  <2>4. \A u \in Threads : ~Inside(u)'
    BY <2>1, <2>3 DEF Inside
  <2>5. \A u \in Threads : at'[u] \in {"open", "file", "leave"} => Inside(u) \/ at[u] \in {"open", "file", "leave"}
    BY <2>1 DEF Inside
  <2> QED
    BY <2>1, <2>4, <2>5, StoreAssumption DEF LocksHeld
<1>7. ASSUME NEW t \in Threads, OpenLockFile(t) \/ FileLockTimeout(t) PROVE LocksHeld'
  <2>1. /\ UNCHANGED locks /\ ~Inside(t) /\ at[t] \in {"open", "file"}
        /\ \E stage \in {"file", "leave"} : at' = [at EXCEPT ![t] = stage]
    BY <1>7 DEF OpenLockFile, FileLockTimeout, Goto, Inside
  <2> QED
    BY <2>1, LocksFrame
<1>8. ASSUME NEW t \in Threads,
             \/ Load(t) \/ Create(t) \/ Finish(t) \/ BeginSave(t) \/ MakeTemp(t)
             \/ Replace(t) \/ ReadTail(t) \/ Emit(t) \/ EmitFails(t)
      PROVE  LocksHeld'
  <2>1. UNCHANGED locks /\ Inside(t)
    BY <1>8 DEF Load, Create, Finish, BeginSave, MakeTemp, Replace, ReadTail, Emit, EmitFails, Inside, locks
  <2>2. \E stage \in {"loaded", "append", "save", "write", "unlock"} : at' = [at EXCEPT ![t] = stage]
    BY <1>8 DEF Load, Create, Finish, BeginSave, MakeTemp, Replace, ReadTail, Emit, EmitFails, Goto
  <2> QED
    BY <2>1, <2>2, LocksFrame
<1>9. ASSUME NEW t \in Threads, WriteTemp(t) PROVE LocksHeld'
  <2>1. UNCHANGED locks /\ Inside(t) /\ (at' = at \/ at' = [at EXCEPT ![t] = "unlock"])
    BY <1>9 DEF WriteTemp, Goto, Inside
  <2>2. CASE at' = at
    BY <2>1, <2>2 DEF LocksHeld, Inside, locks
  <2> QED
    BY <2>1, <2>2, LocksFrame
<1>10. ASSUME NEW p \in Processes, ProcessDies(p) PROVE LocksHeld'
  <2> DEFINE dead == {t \in Threads : ProcessOf[t] = p}
  <2>1. /\ \A u \in Threads : at'[u] = IF u \in dead THEN "idle" ELSE at[u]
        /\ threadLock' = [threadLock EXCEPT ![p] = None]
        /\ fileLock' = IF fileLock \in dead THEN None ELSE fileLock
    BY <1>10 DEF ProcessDies
  <2>2. ASSUME NEW u \in Threads, Inside(u)' \/ at'[u] \in {"open", "file", "leave"}
        PROVE  threadLock'[ProcessOf[u]] = u
    <3>1. u \notin dead /\ at'[u] = at[u]
      BY <2>1, <2>2 DEF Inside
    <3>2. threadLock[ProcessOf[u]] = u
      BY <2>2, <3>1 DEF LocksHeld, Inside
    <3> QED
      BY <2>1, <3>1, <3>2, ThreadProcess DEF TypeOK
  <2>3. ASSUME NEW u \in Threads PROVE Inside(u)' <=> fileLock' = u
    <3>1. CASE u \in dead
      BY <2>1, <3>1, StoreAssumption DEF Inside
    <3>2. CASE u \notin dead
      BY <2>1, <3>2, StoreAssumption DEF Inside, LocksHeld
    <3> QED
      BY <3>1, <3>2
  <2> QED
    BY <2>2, <2>3 DEF LocksHeld
<1> QED
  BY <1>1, <1>2, <1>3, <1>4, <1>5, <1>6, <1>7, <1>8, <1>9, <1>10 DEF Next, Continue

\* Whoever has left the lock has nothing to say of the state.
LEMMA OneHolder ==
  ASSUME LocksHeld, NEW t \in Threads, Inside(t)
  PROVE  fileLock = t /\ \A u \in Threads : u # t => ~Inside(u)
<1>1. fileLock = t
  BY DEF LocksHeld
<1>2. ASSUME NEW u \in Threads, Inside(u) PROVE u = t
  BY <1>1, <1>2 DEF LocksHeld
<1> QED
  BY <1>1, <1>2

Working == {"loaded", "append", "save", "write"}

\* A caller that stays out of the state, its file and its temporary file.
LEMMA StateFrame ==
  ASSUME TypeOK, NothingLost, OnlyWhole, NEW t \in Threads,
         file' = file, temp' = temp, base' = base, misread' = misread,
         at' = at \/ \E stage : /\ at' = [at EXCEPT ![t] = stage]
                                /\ stage \in Working => at[t] \in Working
                                /\ stage = "write" => at[t] = "write"
  PROVE  NothingLost' /\ OnlyWhole'
<1>1. OnlyWhole'
  <2>1. (file' # None => file'.whole) /\ (misread' <=> misread)
    BY Zenon DEF OnlyWhole
  <2> QED
    BY <2>1 DEF OnlyWhole
<1>2. StoredVersion' = StoredVersion
  BY DEF StoredVersion
<1>3. ASSUME NEW u \in Threads
      PROVE  /\ at'[u] \in Working => at[u] \in Working
             /\ at'[u] = "write" => at[u] = "write"
  BY DEF TypeOK
<1> QED
  BY <1>1, <1>2, <1>3 DEF NothingLost, Working

LEMMA StatePreserved ==
  ASSUME StoreInvariant, [Next]_vars
  PROVE  NothingLost' /\ OnlyWhole'
<1> USE DEF StoreInvariant, Working
<1>1. CASE UNCHANGED vars
  BY <1>1 DEF vars, state, NothingLost, OnlyWhole, StoredVersion
<1>2. ASSUME NEW t \in Threads,
             \/ Begin(t) \/ AcquireThreadLock(t) \/ ThreadLockTimeout(t) \/ OpenLockFile(t)
             \/ AcquireFileLock(t) \/ FileLockTimeout(t) \/ LeaveThreadLock(t) \/ Finish(t) \/ BeginSave(t)
             \/ ReadTail(t) \/ Emit(t) \/ EmitFails(t)
      PROVE  NothingLost' /\ OnlyWhole'
  <2>1. file' = file /\ temp' = temp /\ base' = base /\ misread' = misread
    BY <1>2 DEF Begin, AcquireThreadLock, ThreadLockTimeout, OpenLockFile, AcquireFileLock,
                FileLockTimeout, LeaveThreadLock, Finish, BeginSave, ReadTail, Emit, EmitFails, state
  <2>2. \E stage : /\ at' = [at EXCEPT ![t] = stage]
                   /\ stage \in Working => at[t] \in Working
                   /\ stage = "write" => at[t] = "write"
    <3>1. CASE Begin(t) \/ AcquireThreadLock(t) \/ ThreadLockTimeout(t) \/ LeaveThreadLock(t) \/ AcquireFileLock(t)
      BY <3>1 DEF Begin, AcquireThreadLock, ThreadLockTimeout, LeaveThreadLock, AcquireFileLock, Goto
    <3>2. CASE OpenLockFile(t) \/ FileLockTimeout(t)
      BY <3>2 DEF OpenLockFile, FileLockTimeout, Goto
    <3>3. CASE Finish(t) \/ BeginSave(t) \/ ReadTail(t) \/ Emit(t) \/ EmitFails(t)
      BY <3>3 DEF Finish, BeginSave, ReadTail, Emit, EmitFails, Goto
    <3> QED
      BY <1>2, <3>1, <3>2, <3>3
  <2> QED
    BY <2>1, <2>2, StateFrame
<1>3. ASSUME NEW t \in Threads, Unlock(t) PROVE NothingLost' /\ OnlyWhole'
  <2>1. /\ at' = [at EXCEPT ![t] = "leave"] /\ base' = [base EXCEPT ![t] = 0]
        /\ file' = file /\ temp' = temp /\ misread' = misread
    BY <1>3 DEF Unlock, Goto
  <2>2. \A u \in Threads : u # t => at'[u] = at[u] /\ base'[u] = base[u]
    BY <2>1 DEF TypeOK
  <2>3. at'[t] = "leave"
    BY <2>1 DEF TypeOK
  <2> QED
    BY <2>1, <2>2, <2>3 DEF NothingLost, OnlyWhole, StoredVersion
<1>4. ASSUME NEW t \in Threads, Peek(t) PROVE NothingLost' /\ OnlyWhole'
  <2>1. ~misread'
    BY <1>4, ReadsWhole DEF Peek
  <2>2. at' = at /\ file' = file /\ temp' = temp /\ base' = base
    BY <1>4 DEF Peek
  <2> QED
    BY <2>1, <2>2 DEF NothingLost, OnlyWhole, StoredVersion
<1>5. ASSUME NEW t \in Threads, Load(t) PROVE NothingLost' /\ OnlyWhole'
  <2>1. ~misread'
    BY <1>5, ReadsWhole DEF Load
  <2>2. /\ file # None /\ file' = file /\ temp' = temp /\ base' = [base EXCEPT ![t] = file.version]
        /\ at' = [at EXCEPT ![t] = "loaded"]
    BY <1>5 DEF Load, Goto, OnlyWhole
  <2>3. \A u \in Threads : u # t => at'[u] = at[u] /\ base'[u] = base[u]
    BY <2>2 DEF TypeOK
  <2>4. at'[t] = "loaded" /\ base'[t] = file.version
    BY <2>2 DEF TypeOK
  <2> QED
    BY <2>1, <2>2, <2>3, <2>4 DEF NothingLost, OnlyWhole, StoredVersion
<1>6. ASSUME NEW t \in Threads, Create(t) PROVE NothingLost' /\ OnlyWhole'
  <2>1. /\ file = None /\ file' = file /\ temp' = temp /\ base' = [base EXCEPT ![t] = 0]
        /\ at' = [at EXCEPT ![t] = "save"] /\ misread' = misread
    BY <1>6 DEF Create, Goto
  <2>2. \A u \in Threads : u # t => at'[u] = at[u] /\ base'[u] = base[u]
    BY <2>1 DEF TypeOK
  <2>3. at'[t] = "save" /\ base'[t] = 0
    BY <2>1 DEF TypeOK
  <2> QED
    BY <2>1, <2>2, <2>3 DEF NothingLost, OnlyWhole, StoredVersion
<1>7. ASSUME NEW t \in Threads, MakeTemp(t) \/ WriteTemp(t) PROVE NothingLost' /\ OnlyWhole'
  <2>1. /\ file' = file /\ base' = base /\ misread' = misread /\ at[t] \in {"save", "write"}
        /\ \A u \in Threads : u # t => at'[u] = at[u] /\ temp'[u] = temp[u]
    BY <1>7 DEF MakeTemp, WriteTemp, Goto, TypeOK
  <2>2. at'[t] \in {"unlock", "write"}
    BY <1>7 DEF MakeTemp, WriteTemp, Goto, TypeOK
  <2>3. at'[t] = "write" => temp'[t] \in [version : {base[t] + 1}, whole : BOOLEAN]
    <3>1. CASE MakeTemp(t)
      BY <3>1 DEF MakeTemp, Goto, TypeOK
    <3>2. CASE WriteTemp(t)
      <4>1. temp[t] \in [version : {base[t] + 1}, whole : BOOLEAN]
        BY <3>2 DEF WriteTemp, NothingLost
      <4>2. at'[t] = "write" => temp' = [temp EXCEPT ![t].whole = TRUE]
        BY <3>2 DEF WriteTemp, Goto, TypeOK
      <4>3. at'[t] = "write" => temp'[t] = [temp[t] EXCEPT !.whole = TRUE]
        BY <4>2 DEF TypeOK
      <4>4. [temp[t] EXCEPT !.whole = TRUE] \in [version : {base[t] + 1}, whole : BOOLEAN]
        BY <4>1
      <4> QED
        BY <4>3, <4>4
    <3> QED
      BY <1>7, <3>1, <3>2
  <2> QED
    BY <2>1, <2>2, <2>3 DEF NothingLost, OnlyWhole, StoredVersion
<1>8. ASSUME NEW t \in Threads, Replace(t) PROVE NothingLost' /\ OnlyWhole'
  <2>1. /\ at[t] = "write" /\ temp[t] \in [version : {base[t] + 1}, whole : BOOLEAN] /\ temp[t].whole
        /\ file' = temp[t] /\ base' = [base EXCEPT ![t] = temp[t].version]
        /\ at' = [at EXCEPT ![t] = "loaded"] /\ misread' = misread
    BY <1>8 DEF Replace, Goto, NothingLost
  <2>2. \A u \in Threads : u # t => at'[u] = at[u] /\ ~Inside(u)
    BY <2>1, OneHolder DEF Inside, TypeOK
  <2>3. at'[t] = "loaded" /\ base'[t] = temp[t].version
    BY <2>1 DEF TypeOK
  <2>4. \A u \in Threads : u # t => at'[u] \notin Working
    BY <2>2 DEF Inside
  <2>5. file' # None => StoredVersion' = temp[t].version
    BY <2>1 DEF StoredVersion
  <2>6. file' # None
    BY <2>1, StoreAssumption DEF TypeOK
  <2> QED
    BY <2>1, <2>3, <2>4, <2>5, <2>6 DEF NothingLost, OnlyWhole
<1>9. ASSUME NEW p \in Processes, ProcessDies(p) PROVE NothingLost' /\ OnlyWhole'
  <2>1. file' = file /\ misread' = misread
    BY <1>9 DEF ProcessDies
  <2>2. \A u \in Threads :
          at'[u] = "idle" \/ (at'[u] = at[u] /\ base'[u] = base[u] /\ temp'[u] = temp[u])
    BY <1>9 DEF ProcessDies
  <2> QED
    BY <2>1, <2>2 DEF NothingLost, OnlyWhole, StoredVersion
<1> QED
  BY <1>1, <1>2, <1>3, <1>4, <1>5, <1>6, <1>7, <1>8, <1>9 DEF Next, Continue

-----------------------------------------------------------------------------
(* The theorems.                                                           *)

\* Every reachable state of the store satisfies the invariant.
THEOREM StoreInductive == Spec => []StoreInvariant
<1>1. StoreInvariant /\ [Next]_vars => StoreInvariant'
  BY TypePreserved, LocksPreserved, StatePreserved DEF StoreInvariant
<1> QED
  BY InitHolds, <1>1, PTL DEF Spec

\* Whoever reads state.json, with the lock or without, never sees half of a replacement.
THEOREM ReadsAreWhole == Spec => []ReadersSeeWhole
<1>1. StoreInvariant => ReadersSeeWhole
  BY DEF StoreInvariant, OnlyWhole, ReadersSeeWhole
<1> QED
  BY <1>1, StoreInductive, PTL

\* A trace that verifies holds every acknowledged event, in order, however often writes
\* failed or processes died while appending.
THEOREM VerifiedIsComplete == Spec => []VerifiedTraceComplete
<1>1. StoreInvariant => VerifiedTraceComplete
  <2> SUFFICES ASSUME StoreInvariant, Verifies, NEW i \in DOMAIN acked
               PROVE  \E j \in DOMAIN lines :
                        /\ lines[j].id = acked[i]
                        /\ \A k \in DOMAIN acked, l \in DOMAIN lines :
                             lines[l].id = acked[k] => (k < i <=> l < j)
    BY DEF VerifiedTraceComplete
  <2>1. /\ \A n, m \in DOMAIN lines : n < m => lines[n].id < lines[m].id
        /\ \A k \in DOMAIN acked : \E j \in DOMAIN lines : lines[j].id = acked[k]
        /\ \A k, l \in DOMAIN acked : k < l => acked[k] < acked[l]
    BY DEF StoreInvariant, TraceInOrder, Verifies
  <2>2. /\ \A n \in DOMAIN lines : n \in Nat /\ lines[n].id \in Nat
        /\ \A k \in DOMAIN acked : k \in Nat /\ acked[k] \in Nat
    <3>1. lines \in Seq(Lines) /\ acked \in Seq(Nat)
      BY DEF StoreInvariant, TypeOK
    <3>2. /\ \A n \in DOMAIN lines : n \in Nat /\ lines[n] \in Lines
          /\ \A k \in DOMAIN acked : k \in Nat /\ acked[k] \in Nat
      BY <3>1
    <3> QED
      BY <3>2 DEF Lines
  <2>3. PICK j \in DOMAIN lines : lines[j].id = acked[i]
    BY <2>1
  <2>4. ASSUME NEW k \in DOMAIN acked, NEW l \in DOMAIN lines, lines[l].id = acked[k]
        PROVE  k < i <=> l < j
    <3>1. k < i <=> acked[k] < acked[i]
      BY <2>1, <2>2
    <3>2. l < j <=> lines[l].id < lines[j].id
      BY <2>1, <2>2
    <3> QED
      BY <2>3, <2>4, <3>1, <3>2
  <2> QED
    BY <2>3, <2>4
<1> QED
  BY <1>1, StoreInductive, PTL

\* Each step of the store is one of the register's, or leaves holder and version alone.
LEMMA StepRefines ==
  ASSUME StoreInvariant, [Next]_vars
  PROVE  [Register!Next]_<<fileLock, StoredVersion>>
<1> USE DEF StoreInvariant
<1>1. CASE UNCHANGED vars
  BY <1>1 DEF vars, locks, state, StoredVersion
<1>2. ASSUME NEW t \in Threads, AcquireFileLock(t) PROVE Register!Enter(t)
  BY <1>2 DEF AcquireFileLock, Register!Enter, StoredVersion, state
<1>3. ASSUME NEW t \in Threads, Unlock(t) PROVE Register!Leave(t)
  <2>1. fileLock = t
    BY <1>3 DEF Unlock, LocksHeld, Inside
  <2> QED
    BY <1>3, <2>1 DEF Unlock, Register!Leave, StoredVersion
<1>4. ASSUME NEW t \in Threads, Replace(t) PROVE Register!Advance(t)
  <2>1. /\ at[t] = "write" /\ temp[t] \in [version : {base[t] + 1}, whole : BOOLEAN]
        /\ file' = temp[t] /\ fileLock' = fileLock /\ base[t] = StoredVersion /\ base[t] \in Nat
    BY <1>4 DEF Replace, NothingLost, locks, TypeOK
  <2>2. fileLock = t
    BY <2>1 DEF LocksHeld, Inside
  <2>3. file' # None /\ file'.version = base[t] + 1
    BY <2>1, StoreAssumption
  <2>4. StoredVersion' = StoredVersion + 1
    BY <2>1, <2>3 DEF StoredVersion
  <2> QED
    BY <2>1, <2>2, <2>4 DEF Register!Advance
<1>5. ASSUME NEW t \in Threads,
             \/ Begin(t) \/ Peek(t) \/ AcquireThreadLock(t) \/ ThreadLockTimeout(t) \/ OpenLockFile(t)
             \/ FileLockTimeout(t) \/ LeaveThreadLock(t) \/ Load(t) \/ Create(t) \/ Finish(t) \/ BeginSave(t)
             \/ MakeTemp(t) \/ WriteTemp(t) \/ ReadTail(t) \/ Emit(t) \/ EmitFails(t)
      PROVE  UNCHANGED <<fileLock, StoredVersion>>
  <2>1. fileLock' = fileLock /\ file' = file
    BY <1>5 DEF Begin, Peek, AcquireThreadLock, ThreadLockTimeout, OpenLockFile, FileLockTimeout,
                LeaveThreadLock, Load, Create, Finish, BeginSave, MakeTemp, WriteTemp, ReadTail,
                Emit, EmitFails, locks, state
  <2> QED
    BY <2>1 DEF StoredVersion
<1>6. ASSUME NEW p \in Processes, ProcessDies(p)
      PROVE  UNCHANGED <<fileLock, StoredVersion>> \/ \E t \in Threads : Register!Leave(t)
  <2>1. file' = file /\ (fileLock' = fileLock \/ (fileLock' = None /\ fileLock \in Threads))
    BY <1>6 DEF ProcessDies
  <2> QED
    BY <2>1 DEF Register!Leave, StoredVersion
<1> QED
  BY <1>1, <1>2, <1>3, <1>4, <1>5, <1>6 DEF Next, Continue, Register!Next

\* The store implements the register: one holder at a time advances the state from the
\* version it holds, and no timeout, failure or death sets it back.
THEOREM ExclusiveAdvance == Spec => AdvancesExclusively
<1>1. Init => Register!Init
  BY DEF Init, Register!Init, StoredVersion
<1> QED
  BY <1>1, StepRefines, StoreInductive, PTL DEF Spec, AdvancesExclusively, Register!Spec

-----------------------------------------------------------------------------
(* Nothing is left behind, and nothing is added behind an appender's back. *)

\* The lock of a process is left as it is by a step of a thread that neither takes nor
\* leaves it.
LEMMA NoLockFrame ==
  ASSUME TypeOK, NoLockLeft, NEW t \in Threads, UNCHANGED threadLock,
         fileLock' \in {fileLock, None},
         at' = at \/ \E stage \in Stages :
           /\ at' = [at EXCEPT ![t] = stage]
           /\ stage \in {"idle", "thread"} => at[t] \in {"idle", "thread"}
  PROVE  NoLockLeft'
<1>1. \A u \in Threads : at'[u] \in {"idle", "thread"} => at[u] \in {"idle", "thread"}
  BY DEF TypeOK
<1>2. \A u \in Threads : u # None
  BY StoreAssumption
<1> QED
  BY <1>1, <1>2 DEF NoLockLeft

LEMMA NoLockPreserved ==
  ASSUME StoreInvariant, NoLockLeft, [Next]_vars
  PROVE  NoLockLeft'
<1> USE DEF StoreInvariant
<1>1. CASE UNCHANGED vars
  BY <1>1 DEF vars, locks, NoLockLeft
<1>2. ASSUME NEW t \in Threads,
             \/ Begin(t) \/ Peek(t) \/ ThreadLockTimeout(t) \/ OpenLockFile(t) \/ FileLockTimeout(t) \/ Unlock(t)
             \/ Load(t) \/ Create(t) \/ Finish(t) \/ BeginSave(t) \/ MakeTemp(t) \/ WriteTemp(t) \/ Replace(t)
             \/ ReadTail(t) \/ Emit(t) \/ EmitFails(t)
      PROVE  NoLockLeft'
  <2>1. UNCHANGED threadLock /\ fileLock' \in {fileLock, None}
    BY <1>2 DEF Begin, Peek, ThreadLockTimeout, OpenLockFile, FileLockTimeout, Unlock, Load, Create, Finish,
                BeginSave, MakeTemp, WriteTemp, Replace, ReadTail, Emit, EmitFails, locks
  <2>2. at' = at \/ \E stage \in Stages :
           /\ at' = [at EXCEPT ![t] = stage]
           /\ stage \in {"idle", "thread"} => at[t] \in {"idle", "thread"}
    BY <1>2 DEF Begin, Peek, ThreadLockTimeout, OpenLockFile, FileLockTimeout, Unlock, Load, Create, Finish,
                BeginSave, MakeTemp, WriteTemp, Replace, ReadTail, Emit, EmitFails, Goto, Stages
  <2> QED
    BY <2>1, <2>2, NoLockFrame
<1>3. ASSUME NEW t \in Threads, AcquireThreadLock(t) PROVE NoLockLeft'
  <2>1. /\ at' = [at EXCEPT ![t] = "open"] /\ fileLock' = fileLock /\ at \in [Threads -> Stages]
        /\ threadLock' = [threadLock EXCEPT ![ProcessOf[t]] = t]
        /\ threadLock \in [Processes -> Threads \cup {None}]
    BY <1>3 DEF AcquireThreadLock, Goto, TypeOK
  <2> QED
    BY <2>1, ThreadProcess DEF NoLockLeft
<1>4. ASSUME NEW t \in Threads, LeaveThreadLock(t) PROVE NoLockLeft'
  <2>1. /\ at' = [at EXCEPT ![t] = "idle"] /\ fileLock' = fileLock /\ at \in [Threads -> Stages] /\ at[t] = "leave"
        /\ threadLock' = [threadLock EXCEPT ![ProcessOf[t]] = None]
        /\ threadLock \in [Processes -> Threads \cup {None}]
    BY <1>4 DEF LeaveThreadLock, Goto, TypeOK
  <2>2. fileLock # t
    BY <2>1 DEF LocksHeld, Inside
  <2>3. \A u \in Threads : u # None
    BY StoreAssumption
  <2> QED
    BY <2>1, <2>2, <2>3, ThreadProcess DEF NoLockLeft
<1>5. ASSUME NEW t \in Threads, AcquireFileLock(t) PROVE NoLockLeft'
  <2>1. at' = [at EXCEPT ![t] = "locked"] /\ fileLock' = t /\ threadLock' = threadLock /\ at \in [Threads -> Stages]
    BY <1>5 DEF AcquireFileLock, Goto, TypeOK
  <2> QED
    BY <2>1 DEF NoLockLeft
<1>6. ASSUME NEW p \in Processes, ProcessDies(p) PROVE NoLockLeft'
  <2> DEFINE dead == {t \in Threads : ProcessOf[t] = p}
  <2>1. /\ at' = [t \in Threads |-> IF t \in dead THEN "idle" ELSE at[t]]
        /\ threadLock' = [threadLock EXCEPT ![p] = None]
        /\ fileLock' = IF fileLock \in dead THEN None ELSE fileLock
    BY <1>6 DEF ProcessDies
  <2>2. \A t \in Threads : t # None
    BY StoreAssumption
  <2>3. threadLock \in [Processes -> Threads \cup {None}]
    BY DEF TypeOK
  <2>4. ASSUME NEW t \in Threads, at'[t] \in {"idle", "thread"}
        PROVE  fileLock' # t /\ threadLock'[ProcessOf[t]] # t
    <3>1. CASE t \in dead
      BY <2>1, <2>2, <2>3, <3>1
    <3>2. CASE t \notin dead
      <4>1. fileLock # t /\ threadLock[ProcessOf[t]] # t /\ ProcessOf[t] # p
        BY <2>1, <2>4, <3>2 DEF NoLockLeft
      <4> QED
        BY <2>1, <2>2, <2>3, <4>1, ThreadProcess
    <3> QED
      BY <3>1, <3>2
  <2> QED
    BY <2>4 DEF NoLockLeft
<1> QED
  BY <1>1, <1>2, <1>3, <1>4, <1>5, <1>6 DEF Next, Continue

\* A caller that is out of an operation, or still waits for its turn, holds neither lock:
\* no timeout, failed write or damaged file leaves one behind.
THEOREM NoLockIsLeft == Spec => []NoLockLeft
<1>1. Init => NoLockLeft
  <2> SUFFICES ASSUME Init PROVE NoLockLeft
    OBVIOUS
  <2>1. \A t \in Threads : t # None
    BY StoreAssumption
  <2> QED
    BY <2>1, ThreadProcess DEF Init, NoLockLeft
<1> QED
  BY <1>1, NoLockPreserved, StoreInductive, PTL DEF Spec

\* A step of somebody who is not about to append, on a trace that stays.
LEMMA TailFrame ==
  ASSUME TypeOK, TailCurrent, UNCHANGED lines,
         \A u \in Threads : at'[u] = "append" => at[u] = "append" /\ tail'[u] = tail[u]
  PROVE  TailCurrent'
BY DEF TailCurrent, TailReadable, Last

\* Nobody else is about to append while somebody is, or once he has.
LEMMA OneAppender ==
  ASSUME StoreInvariant, NEW t \in Threads, at[t] = "append"
  PROVE  \A u \in Threads : u # t => at[u] # "append"
<1>1. LocksHeld /\ Inside(t)
  BY DEF StoreInvariant, Inside
<1> QED
  BY <1>1, OneHolder DEF Inside

LEMMA TailPreserved ==
  ASSUME StoreInvariant, TailCurrent, [Next]_vars
  PROVE  TailCurrent'
<1>t. TypeOK
  BY DEF StoreInvariant
<1>y. at \in [Threads -> Stages] /\ tail \in [Threads -> [seq : Nat, id : Nat]]
  BY <1>t DEF TypeOK
<1>1. CASE UNCHANGED vars
  BY <1>1, <1>t, TailFrame DEF vars, trace
<1>2. ASSUME NEW t \in Threads,
             \/ Begin(t) \/ Peek(t) \/ AcquireThreadLock(t) \/ ThreadLockTimeout(t) \/ OpenLockFile(t)
             \/ AcquireFileLock(t) \/ FileLockTimeout(t) \/ LeaveThreadLock(t)
             \/ Load(t) \/ Create(t) \/ Finish(t) \/ BeginSave(t) \/ MakeTemp(t) \/ WriteTemp(t) \/ Replace(t)
      PROVE  TailCurrent'
  <2>1. lines' = lines /\ tail' = tail
    BY <1>2 DEF Begin, Peek, AcquireThreadLock, ThreadLockTimeout, OpenLockFile, AcquireFileLock, FileLockTimeout,
                LeaveThreadLock, Load, Create, Finish, BeginSave, MakeTemp, WriteTemp, Replace, trace
  <2>2. at' = at \/ \E stage \in Stages \ {"append"} : at' = [at EXCEPT ![t] = stage]
    BY <1>2 DEF Begin, Peek, AcquireThreadLock, ThreadLockTimeout, OpenLockFile, AcquireFileLock, FileLockTimeout,
                LeaveThreadLock, Load, Create, Finish, BeginSave, MakeTemp, WriteTemp, Replace, Goto, Stages
  <2>3. \A u \in Threads : at'[u] = "append" => at[u] = "append"
    BY <1>y, <2>2
  <2> QED
    BY <1>t, <2>1, <2>3, TailFrame
<1>3. ASSUME NEW t \in Threads, Unlock(t) PROVE TailCurrent'
  <2>1. /\ lines' = lines /\ tail' = [tail EXCEPT ![t] = NoTail] /\ at' = [at EXCEPT ![t] = "leave"]
    BY <1>3 DEF Unlock, Goto
  <2>2. \A u \in Threads : at'[u] = "append" => at[u] = "append" /\ tail'[u] = tail[u]
    BY <1>y, <2>1
  <2> QED
    BY <1>t, <2>1, <2>2, TailFrame
<1>4. ASSUME NEW t \in Threads, ReadTail(t) PROVE TailCurrent'
  <2>1. /\ lines' = lines /\ at[t] = "loaded"
        /\ \/ /\ TailReadable /\ at' = [at EXCEPT ![t] = "append"]
              /\ tail' = [tail EXCEPT ![t] = IF lines = <<>> THEN NoTail ELSE [seq |-> Last.seq, id |-> Last.id]]
           \/ tail' = tail /\ at' = [at EXCEPT ![t] = "unlock"]
    BY <1>4 DEF ReadTail, Goto
  <2>2. TailReadable' <=> TailReadable
    BY <2>1 DEF TailReadable, Last
  <2>3. Last' = Last
    BY <2>1 DEF Last
  <2>4. ASSUME NEW u \in Threads, at'[u] = "append"
        PROVE  /\ TailReadable
               /\ tail'[u] = IF lines = <<>> THEN NoTail ELSE [seq |-> Last.seq, id |-> Last.id]
    <3>1. CASE u = t
      BY <1>y, <2>1, <2>4, <3>1
    <3>2. CASE u # t
      <4>1. at[u] = "append" /\ tail'[u] = tail[u]
        BY <1>y, <2>1, <2>4, <3>2
      <4> QED
        BY <4>1 DEF TailCurrent
    <3> QED
      BY <3>1, <3>2
  <2> QED
    BY <2>1, <2>2, <2>3, <2>4 DEF TailCurrent
<1>5. ASSUME NEW t \in Threads, Emit(t) \/ EmitFails(t) PROVE TailCurrent'
  <2>1. at[t] = "append" /\ (at' = [at EXCEPT ![t] = "loaded"] \/ at' = [at EXCEPT ![t] = "unlock"])
    BY <1>5 DEF Emit, EmitFails, Goto
  <2>2. \A u \in Threads : u # t => at[u] # "append"
    BY <2>1, OneAppender
  <2>3. \A u \in Threads : at'[u] # "append"
    BY <1>y, <2>1, <2>2
  <2> QED
    BY <2>3 DEF TailCurrent
<1>6. ASSUME NEW p \in Processes, ProcessDies(p) PROVE TailCurrent'
  <2> DEFINE dead == {t \in Threads : ProcessOf[t] = p}
  <2>1. /\ at' = [t \in Threads |-> IF t \in dead THEN "idle" ELSE at[t]]
        /\ tail' = [t \in Threads |-> IF t \in dead THEN NoTail ELSE tail[t]]
        /\ (\E t \in dead : at[t] = "append") \/ lines' = lines
    BY <1>6 DEF ProcessDies
  <2>2. CASE \E t \in dead : at[t] = "append"
    <3>1. PICK t \in dead : at[t] = "append"
      BY <2>2
    <3>2. \A u \in Threads : u # t => at[u] # "append"
      BY <3>1, OneAppender
    <3>3. \A u \in Threads : at'[u] # "append"
      BY <2>1, <3>1, <3>2
    <3> QED
      BY <3>3 DEF TailCurrent
  <2>3. CASE lines' = lines
    <3>1. \A u \in Threads : at'[u] = "append" => at[u] = "append" /\ tail'[u] = tail[u]
      BY <2>1
    <3> QED
      BY <1>t, <2>3, <3>1, TailFrame
  <2> QED
    BY <2>1, <2>2, <2>3
<1> QED
  BY <1>1, <1>2, <1>3, <1>4, <1>5, <1>6 DEF Next, Continue

\* Whoever is about to append still has the trace's last line: nobody adds an event between
\* the reading of the tail and the write.
THEOREM TailIsCurrent == Spec => []TailCurrent
<1>1. Init => TailCurrent
  BY DEF Init, TailCurrent
<1> QED
  BY <1>1, TailPreserved, StoreInductive, PTL DEF Spec

LEMMA LineAdded ==
  ASSUME NEW s \in Seq(Lines), NEW line \in Lines
  PROVE  /\ DOMAIN Append(s, line) = 1..(Len(s) + 1) /\ Append(s, line)[Len(s) + 1] = line
         /\ \A i \in DOMAIN s : Append(s, line)[i] = s[i]
OBVIOUS

\* A whole line after an intact trace keeps it intact.
LEMMA EmitKeepsIntact ==
  ASSUME StoreInvariant, TailCurrent, Intact, NEW t \in Threads, Emit(t), "separator" \notin Texts
  PROVE  Intact'
<1>1. /\ lines \in Seq(Lines) /\ issued \in Nat /\ tail[t] \in [seq : Nat, id : Nat]
      /\ DOMAIN lines = 1..Len(lines) /\ Len(lines) \in Nat
  BY DEF StoreInvariant, TypeOK
<1>2. lines' = Append(lines, Line(t, TRUE)) /\ ended'
  <2>1. PICK text \in Texts : Add(t, text, "whole")
    BY DEF Emit
  <2>2. lines' = Written(t, text, "whole") /\ ended'
    BY <2>1 DEF Add
  <2>3. Written(t, text, "whole") = Append(lines, Line(t, TRUE))
    BY DEF Written, Intact
  <2> QED
    BY <2>2, <2>3
<1>3. tail[t] = IF lines = <<>> THEN NoTail ELSE [seq |-> Last.seq, id |-> Last.id]
  BY DEF Emit, TailCurrent
<1>4. Line(t, TRUE).seq = Len(lines) + 1 /\ Line(t, TRUE).readable
      /\ Line(t, TRUE).prev = IF Len(lines) + 1 = 1 THEN 0 ELSE lines[Len(lines)].id
  <2>1. CASE lines = <<>>
    BY <1>3, <2>1 DEF Line, NoTail
  <2>2. CASE lines # <<>>
    <3>1. Len(lines) \in DOMAIN lines /\ Len(lines) > 0
      BY <1>1, <2>2
    <3>2. Last.seq = Len(lines)
      BY <3>1 DEF Intact, Verifies, Last
    <3>3. tail[t].seq = Last.seq /\ tail[t].id = Last.id
      BY <1>3, <2>2
    <3> QED
      BY <1>1, <3>1, <3>2, <3>3 DEF Line, Last
  <2> QED
    BY <2>1, <2>2
<1>5. /\ DOMAIN lines' = 1..(Len(lines) + 1) /\ lines'[Len(lines) + 1] = Line(t, TRUE)
      /\ \A i \in DOMAIN lines : lines'[i] = lines[i]
  <2>1. Line(t, TRUE) \in Lines
    BY <1>1 DEF Line, Lines
  <2> QED
    BY <1>1, <1>2, <2>1, LineAdded
<1>6. ASSUME NEW i \in DOMAIN lines'
      PROVE  /\ lines'[i].readable /\ lines'[i].seq = i
             /\ lines'[i].prev = IF i = 1 THEN 0 ELSE lines'[i - 1].id
  <2>1. CASE i \in DOMAIN lines
    <3>1. i # 1 => i - 1 \in DOMAIN lines
      BY <1>1, <2>1
    <3>2. lines[i].readable /\ lines[i].seq = i /\ lines[i].prev = IF i = 1 THEN 0 ELSE lines[i - 1].id
      BY <2>1 DEF Intact, Verifies
    <3> QED
      BY <1>5, <2>1, <3>1, <3>2
  <2>2. CASE i \notin DOMAIN lines
    <3>1. i = Len(lines) + 1
      BY <1>1, <1>5, <2>2
    <3>2. i # 1 => i - 1 = Len(lines) /\ i - 1 \in DOMAIN lines
      BY <1>1, <3>1
    <3> QED
      BY <1>4, <1>5, <3>1, <3>2
  <2> QED
    BY <2>1, <2>2
<1> QED
  BY <1>2, <1>6 DEF Intact, Verifies

\* While no event carries a separator, a trace that verifies is damaged by nothing but an
\* append that failed or died in the middle.
THEOREM OnlyTornAppendsDamage == Spec => OnlyTornAppendsBreak
<1> DEFINE Torn == \E t \in Threads : \/ EmitFails(t)
                                      \/ at[t] = "append" /\ ProcessDies(ProcessOf[t])
<1>1. StoreInvariant /\ TailCurrent /\ [Next]_vars => [Intact /\ ~Intact' /\ "separator" \notin Texts => Torn]_vars
  <2> SUFFICES ASSUME StoreInvariant, TailCurrent, Next, Intact, ~Intact', "separator" \notin Texts
               PROVE  Torn
    OBVIOUS
  <2>0. lines' # lines \/ ended' # ended
    BY DEF Intact, Verifies
  <2>1. ASSUME NEW t \in Threads, Begin(t) \/ Peek(t) \/ Continue(t) PROVE EmitFails(t)
    <3>1. Emit(t) \/ EmitFails(t)
      BY <2>0, <2>1 DEF Begin, Peek, Continue, AcquireThreadLock, ThreadLockTimeout, OpenLockFile, AcquireFileLock,
         FileLockTimeout, Unlock, LeaveThreadLock, Load, Create, Finish, BeginSave, MakeTemp, WriteTemp, Replace,
         ReadTail, trace
    <3> QED
      BY <3>1, EmitKeepsIntact
  <2>2. ASSUME NEW p \in Processes, ProcessDies(p)
        PROVE  \E t \in Threads : at[t] = "append" /\ ProcessDies(ProcessOf[t])
    <3>1. PICK t \in {u \in Threads : ProcessOf[u] = p} : at[t] = "append"
      BY <2>0, <2>2 DEF ProcessDies
    <3> QED
      BY <2>2, <3>1
  <2> QED
    BY <2>1, <2>2 DEF Next
<1> QED
  BY <1>1, StoreInductive, TailIsCurrent, PTL DEF Spec, OnlyTornAppendsBreak
=============================================================================
