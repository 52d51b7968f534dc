-------------------------- MODULE InstallationProofs --------------------------
(***************************************************************************)
(* Proofs about the installer and the loader, for any homes and releases   *)
(* and any number of commands, deaths and failures.                        *)
(***************************************************************************)
EXTENDS InstallationPromises, SequenceTheorems, TLAPS

Moved    == {"moved", "swapped", "aside", "displaced"}
Stages   == {"off", "staged", "unmoved", "purging"} \cup Moved
StagesOf(action) ==
  CASE action = "none"      -> {"off"}
    [] action = "install"   -> {"staged", "moved", "swapped", "aside"}
    [] action = "uninstall" -> {"unmoved"}
    [] action = "purge"     -> {"purging"}
    [] action = "rollback"  -> {"unmoved", "displaced"}

Progresses ==
  [action : {"none", "install", "uninstall", "purge", "rollback"}, at : Stages,
   version : Versions \cup {None}, latest : Nat]

Typed ==
  /\ target \in [Homes -> Tree \cup {None}] /\ live \in [Homes -> Tree \cup {None}]
  /\ backups \in [Homes -> Seq(Tree)]
  /\ cmd \in [Homes -> Progresses]
  /\ prior \in [Homes -> [target : Tree \cup {None}, backups : Seq(Tree)]]
  /\ outcome \in [Homes -> Outcomes \cup {None}] /\ cut \in [Homes -> BOOLEAN]

\* Nothing is lost if the command stops here: what was in place is the newest backup.
Held(h) == live[h] # None => /\ backups[h] # <<>> /\ Newest(h) = live[h]
                             /\ "plugin.yaml" \in Newest(h).files

\* The backups once the command has moved the target away.
WithDisplaced(p) == IF p.target = None THEN p.backups ELSE Append(p.backups, p.target)

\* What holds at each stage of a command.
Progress(h) ==
  /\ cmd[h].at \in StagesOf(cmd[h].action)
  /\ cmd[h].at # "off" => outcome[h] = None
  /\ cmd[h].action = "install" => cmd[h].version \in Versions
  /\ cmd[h].at \in {"staged", "unmoved"} =>
       /\ target[h] = prior[h].target /\ backups[h] = prior[h].backups
       /\ target[h] # None => live[h] = target[h] /\ "plugin.yaml" \in target[h].files
       /\ cmd[h].action = "uninstall" => target[h] # None
       /\ cmd[h].action = "rollback" => backups[h] # <<>>
  /\ cmd[h].at = "purging" => target[h] # None /\ live[h] = None
  /\ cmd[h].at \in Moved =>
       /\ backups[h] = WithDisplaced(prior[h]) /\ Held(h)
       /\ IF cmd[h].at = "swapped" THEN target[h] # None ELSE target[h] = None
  /\ IF cmd[h].at = "displaced"
     THEN prior[h].backups # <<>> /\ cmd[h].latest = Len(prior[h].backups)
     ELSE cmd[h].latest = 0

\* The promises, for one home.
Recovers(h) == target[h] = None => Held(h)

Undone(h) ==
  outcome[h] # None /\ outcome[h].action = "install" =>
    IF outcome[h].result = "failed"
    THEN target[h] = prior[h].target /\ backups[h] = prior[h].backups
    ELSE backups[h] = WithDisplaced(prior[h])

Restores(h) ==
  outcome[h] \in [action : {"rollback"}, result : {"done", "unlogged"}] =>
    LET n == Len(prior[h].backups)
    IN  /\ target[h] = prior[h].backups[n]
        /\ backups[h] = SubSeq(prior[h].backups, 1, n - 1)
                          \o (IF prior[h].target = None THEN <<>> ELSE <<prior[h].target>>)

Whole(h) ==
  ~cut[h] =>
    /\ target[h] # None /\ cmd[h].at # "purging" => target[h].files = Files
    /\ \A i \in DOMAIN backups[h] : backups[h][i].files = Files

HomeInv(h) == Progress(h) /\ Recovers(h) /\ Undone(h) /\ Restores(h) /\ Whole(h)

InstallationInvariant == Typed /\ \A h \in Homes : HomeInv(h)

-----------------------------------------------------------------------------
(* Sequences of trees. *)

LEMMA Appending ==
  ASSUME NEW b \in Seq(Tree), NEW t \in Tree
  PROVE  /\ Append(b, t) \in Seq(Tree) /\ Append(b, t) # <<>>
         /\ Len(Append(b, t)) = Len(b) + 1 /\ Append(b, t)[Len(b) + 1] = t
         /\ \A i \in 1..Len(b) : Append(b, t)[i] = b[i]
         /\ SubSeq(Append(b, t), 1, Len(b)) = b
         /\ \A n \in 0..Len(b) : SubSeq(Append(b, t), 1, n) = SubSeq(b, 1, n)
         /\ SubSeq(Append(b, t), Len(b) + 1, Len(b) + 1) = <<t>>
<1> DEFINE c == Append(b, t)
<1>1. /\ c \in Seq(Tree) /\ c # <<>> /\ Len(c) = Len(b) + 1 /\ c[Len(b) + 1] = t
      /\ Len(b) \in Nat /\ \A i \in 1..Len(b) : c[i] = b[i] /\ b[i] \in Tree
  OBVIOUS
<1> HIDE DEF c
<1>2. \A n \in 0..Len(b) : SubSeq(c, 1, n) = SubSeq(b, 1, n)
  <2> SUFFICES ASSUME NEW n \in 0..Len(b) PROVE SubSeq(c, 1, n) = SubSeq(b, 1, n)
    OBVIOUS
  <2>1. /\ SubSeq(c, 1, n) \in Seq(Tree) /\ Len(SubSeq(c, 1, n)) = n
        /\ \A i \in 1..n : SubSeq(c, 1, n)[i] = c[i]
    BY <1>1
  <2>2. /\ SubSeq(b, 1, n) \in Seq(Tree) /\ Len(SubSeq(b, 1, n)) = n
        /\ \A i \in 1..n : SubSeq(b, 1, n)[i] = b[i]
    BY <1>1
  <2>3. \A i \in 1..n : SubSeq(c, 1, n)[i] = SubSeq(b, 1, n)[i]
    BY <1>1, <2>1, <2>2
  <2> HIDE DEF c
  <2> QED BY <2>1, <2>2, <2>3, SeqEqual
<1>3. SubSeq(b, 1, Len(b)) = b
  BY SubSeqFull
<1>4. SubSeq(c, 1, Len(b)) = b
  BY <1>1, <1>2, <1>3
<1>5. SubSeq(c, Len(b) + 1, Len(b) + 1) = <<t>>
  <2> DEFINE s == SubSeq(c, Len(b) + 1, Len(b) + 1)
  <2>1. s \in Seq(Tree) /\ Len(s) = 1 /\ s[1] = t
    BY <1>1
  <2>2. <<t>> \in Seq(Tree) /\ Len(<<t>>) = 1 /\ <<t>>[1] = t
    OBVIOUS
  <2> HIDE DEF s
  <2>3. s = <<t>>
    BY <2>1, <2>2, SeqEqual
  <2> QED BY <2>3 DEF s
<1> QED BY <1>1, <1>2, <1>4, <1>5 DEF c

LEMMA NewestAppended ==
  ASSUME NEW b \in Seq(Tree), NEW t \in Tree
  PROVE  Append(b, t) # <<>> /\ Append(b, t)[Len(Append(b, t))] = t
<1>1. /\ Append(b, t) # <<>> /\ Len(Append(b, t)) = Len(b) + 1 /\ Append(b, t)[Len(b) + 1] = t
  BY Appending
<1> QED BY <1>1

LEMMA NoneDistinct ==
  /\ None \notin Tree /\ None \notin Versions
  /\ None \notin [action : {"rollback"}, result : {"done", "unlogged"}]
<1>1. [action : {"rollback"}, result : {"done", "unlogged"}] \subseteq Outcomes
  BY DEF Outcomes
<1> QED BY <1>1, NoneAssumption

-----------------------------------------------------------------------------
(* A step concerns one home. *)

Still(k) ==
  /\ target'[k] = target[k] /\ backups'[k] = backups[k] /\ cmd'[k] = cmd[k]
  /\ live'[k] = live[k] /\ prior'[k] = prior[k] /\ outcome'[k] = outcome[k] /\ cut'[k] = cut[k]

LEMMA StillKeeps ==
  ASSUME NEW k \in Homes, HomeInv(k), Still(k)
  PROVE  HomeInv(k)'
<1> USE DEF Still
<1>1. Progress(k)'
  BY DEF HomeInv, Progress, WithDisplaced, Held, Newest
<1>2. Recovers(k)'
  BY DEF HomeInv, Recovers, Held, Newest
<1>3. Undone(k)' /\ Restores(k)' /\ Whole(k)'
  BY DEF HomeInv, Undone, WithDisplaced, Restores, Whole
<1> QED BY <1>1, <1>2, <1>3 DEF HomeInv

LEMMA OneHome ==
  ASSUME InstallationInvariant, NEW h \in Homes, Typed', HomeInv(h)', \A k \in Homes \ {h} : Still(k)
  PROVE  InstallationInvariant'
  BY StillKeeps DEF InstallationInvariant

\* A command passes check() and begins.
LEMMA BeginKeeps ==
  ASSUME InstallationInvariant, NEW h \in Homes, NEW action, NEW version \in Versions \cup {None}, NEW stage,
         Begin(h, action, version, stage),
         \/ action = "install" /\ stage = "staged" /\ version \in Versions
         \/ action = "uninstall" /\ stage = "unmoved" /\ target[h] # None
         \/ action = "rollback" /\ stage = "unmoved" /\ backups[h] # <<>>
         \/ action = "purge" /\ stage = "purging" /\ target[h] # None
  PROVE  InstallationInvariant'
<1> USE DEF InstallationInvariant
<1>1. /\ UNCHANGED <<target, backups, cut>> /\ cmd[h].at = "off"
      /\ cmd' = [cmd EXCEPT ![h] = [Off EXCEPT !.action = action, !.at = stage, !.version = version]]
      /\ prior' = [prior EXCEPT ![h] = [target |-> target[h], backups |-> backups[h]]]
      /\ outcome' = [outcome EXCEPT ![h] = None]
      /\ live' = [live EXCEPT ![h] = IF action = "purge" THEN None
                                     ELSE IF target[h] # None THEN target[h] ELSE @]
      /\ target[h] # None => "plugin.yaml" \in target[h].files
  BY DEF Begin, Recognised
<1>2. /\ target'[h] = target[h] /\ backups'[h] = backups[h] /\ cut'[h] = cut[h] /\ outcome'[h] = None
      /\ cmd'[h] = [action |-> action, at |-> stage, version |-> version, latest |-> 0]
      /\ prior'[h] = [target |-> target[h], backups |-> backups[h]]
      /\ live'[h] = IF action = "purge" THEN None ELSE IF target[h] # None THEN target[h] ELSE live[h]
  BY <1>1 DEF Typed, Off
<1>3. Typed'
  BY <1>1 DEF Typed, Progresses, Off, Stages, Moved
<1>4. \A k \in Homes \ {h} : Still(k)
  BY <1>1 DEF Still, Typed
<1>5. Progress(h)'
  <2>1. stage \in StagesOf(action) /\ stage \notin Moved \cup {"off"}
    BY DEF StagesOf, Moved
  <2>2. target[h] # None /\ action # "purge" => live'[h] = target[h]
    BY <1>2
  <2>3. /\ cmd'[h].at = stage /\ cmd'[h].action = action /\ cmd'[h].version = version
        /\ cmd'[h].latest = 0 /\ prior'[h].target = target[h] /\ prior'[h].backups = backups[h]
    BY <1>2
  <2>4. stage \in {"staged", "unmoved"} =>
          /\ target'[h] # None => live'[h] = target'[h] /\ "plugin.yaml" \in target'[h].files
          /\ action = "uninstall" => target'[h] # None
          /\ action = "rollback" => backups'[h] # <<>>
    BY <1>1, <1>2, <2>2
  <2>5. stage = "purging" => target'[h] # None /\ live'[h] = None
    BY <1>2
  <2> HIDE DEF InstallationInvariant
  <2> QED BY <1>2, <2>1, <2>3, <2>4, <2>5 DEF Progress
<1>6. Recovers(h)'
  BY <1>2 DEF HomeInv, Recovers, Held, Newest
<1>7. Undone(h)' /\ Restores(h)'
  BY <1>2, NoneDistinct DEF Undone, Restores
<1>8. Whole(h)'
  BY <1>1, <1>2 DEF HomeInv, Whole
<1> QED BY <1>3, <1>4, <1>5, <1>6, <1>7, <1>8, OneHome DEF HomeInv

-----------------------------------------------------------------------------
(* How commands end. *)

LEMMA Ended ==
  ASSUME Typed, NEW h \in Homes, NEW result \in {"done", "unlogged", "unverified", "failed", "failed twice"},
         cmd[h].action # "none", End(h, result)
  PROVE  /\ cmd'[h] = Off /\ outcome'[h] = [action |-> cmd[h].action, result |-> result]
         /\ cmd' = [cmd EXCEPT ![h] = Off]
         /\ outcome' = [outcome EXCEPT ![h] = [action |-> cmd[h].action, result |-> result]]
         /\ outcome' \in [Homes -> Outcomes \cup {None}]
         /\ cmd' \in [Homes -> Progresses]
         /\ \A k \in Homes \ {h} : cmd'[k] = cmd[k] /\ outcome'[k] = outcome[k]
<1>1. /\ cmd' = [cmd EXCEPT ![h] = Off]
      /\ outcome' = [outcome EXCEPT ![h] = [action |-> cmd[h].action, result |-> result]]
  BY DEF End
<1>2. /\ cmd \in [Homes -> Progresses]
      /\ outcome \in [Homes -> Outcomes \cup {None}]
  BY DEF Typed
<1>3. Off \in Progresses
  BY DEF Off, Stages, Progresses
<1>4. [action |-> cmd[h].action, result |-> result] \in Outcomes
  BY <1>2 DEF Outcomes, Progresses
<1> QED BY <1>1, <1>2, <1>3, <1>4

LEMMA Resting ==
  ASSUME NEW h \in Homes, cmd'[h] = Off, Recovers(h)', Undone(h)', Restores(h)', Whole(h)'
  PROVE  HomeInv(h)'
<1>1. Progress(h)'
  BY DEF Progress, StagesOf, Off, Moved
<1> QED BY <1>1 DEF HomeInv

\* An outcome that promises nothing.
LEMMA Unpromising ==
  ASSUME NEW h \in Homes, NEW action, NEW result, outcome'[h] = [action |-> action, result |-> result],
         action # "install",
         ~(action = "rollback" /\ result \in {"done", "unlogged"})
  PROVE  Undone(h)' /\ Restores(h)'
<1>1. outcome'[h].action = action /\ outcome'[h].result = result
  OBVIOUS
<1>2. outcome'[h] \notin [action : {"rollback"}, result : {"done", "unlogged"}]
  BY <1>1
<1> QED BY <1>1, <1>2 DEF Undone, Restores

\* An install that is not undone keeps what it replaced.
LEMMA Keeping ==
  ASSUME NEW h \in Homes, NEW result, outcome'[h] = [action |-> "install", result |-> result],
         result # "failed", backups'[h] = WithDisplaced(prior'[h])
  PROVE  Undone(h)' /\ Restores(h)'
<1>1. outcome'[h].action = "install" /\ outcome'[h].result = result
  OBVIOUS
<1>2. outcome'[h] \notin [action : {"rollback"}, result : {"done", "unlogged"}]
  BY <1>1
<1> QED BY <1>1, <1>2 DEF Undone, WithDisplaced, Restores

\* What the stage of a command says of it.
LEMMA AtStage ==
  ASSUME InstallationInvariant, NEW h \in Homes
  PROVE  /\ cmd[h].at \in {"staged", "moved", "swapped", "aside"} => cmd[h].action = "install"
         /\ cmd[h].at = "unmoved" => cmd[h].action \in {"uninstall", "rollback"}
         /\ cmd[h].at = "purging" => cmd[h].action = "purge"
         /\ cmd[h].at = "displaced" => cmd[h].action = "rollback"
         /\ cmd[h].at # "off" => cmd[h].action # "none"
<1>1. /\ cmd[h].action \in {"none", "install", "uninstall", "purge", "rollback"}
      /\ cmd[h].at \in StagesOf(cmd[h].action)
  BY DEF InstallationInvariant, HomeInv, Progress, Typed, Progresses
<1> QED BY <1>1 DEF StagesOf

\* A command that ends without touching a tree, leaving what Recovers and Whole ask for.
LEMMA GivesUp ==
  ASSUME InstallationInvariant, NEW h \in Homes, NEW result \in {"failed", "failed twice"},
         cmd[h].at # "off", End(h, result), UNCHANGED <<target, backups, live, prior>>,
         cut' \in [Homes -> BOOLEAN], \A k \in Homes \ {h} : cut'[k] = cut[k], cut[h] => cut'[h],
         cmd[h].at = "purging" => cut'[h],
         \/ cmd[h].at = "staged" /\ result = "failed"
         \/ cmd[h].action # "install" /\ result = "failed"
         \/ cmd[h].at \in Moved /\ cmd[h].action = "install" /\ result = "failed twice"
  PROVE  InstallationInvariant'
<1>1. cmd[h].action # "none"
  BY AtStage
<1>2. /\ cmd'[h] = Off /\ outcome'[h] = [action |-> cmd[h].action, result |-> result]
      /\ outcome' \in [Homes -> Outcomes \cup {None}]
      /\ cmd' \in [Homes -> Progresses]
      /\ \A k \in Homes \ {h} : cmd'[k] = cmd[k] /\ outcome'[k] = outcome[k]
  <2>1. Typed /\ result \in {"done", "unlogged", "unverified", "failed", "failed twice"}
    BY DEF InstallationInvariant
  <2> HIDE DEF InstallationInvariant
  <2> QED BY <1>1, <2>1, Ended, ZenonT(60)
<1>3. Typed'
  BY <1>2 DEF InstallationInvariant, Typed
<1>4. \A k \in Homes \ {h} : Still(k)
  BY <1>2 DEF Still
<1>5. Recovers(h)'
  BY DEF InstallationInvariant, HomeInv, Recovers, Held, Newest
<1>6. Undone(h)' /\ Restores(h)'
  <2>1. CASE cmd[h].action = "install" /\ result = "failed"
    <3>1. target[h] = prior[h].target /\ backups[h] = prior[h].backups
      BY <2>1 DEF InstallationInvariant, HomeInv, Progress
    <3> QED BY <1>2, <2>1, <3>1 DEF Undone, Restores
  <2>2. CASE cmd[h].action # "install"
    BY <1>2, <2>2, Unpromising
  <2>3. CASE cmd[h].at \in Moved /\ cmd[h].action = "install" /\ result = "failed twice"
    <3>1. backups'[h] = WithDisplaced(prior'[h])
      BY <2>3 DEF InstallationInvariant, HomeInv, Progress, WithDisplaced
    <3> QED BY <1>2, <2>3, <3>1, Keeping
  <2>4. cmd[h].at = "staged" => cmd[h].action = "install"
    BY AtStage
  <2> QED BY <2>1, <2>2, <2>3, <2>4
<1>7. Whole(h)'
  BY <1>2 DEF InstallationInvariant, HomeInv, Whole, Off
<1>8. HomeInv(h)'
  BY <1>2, <1>5, <1>6, <1>7, Resting
<1> QED BY <1>3, <1>4, <1>8, OneHome

LEMMA RefusedKeeps ==
  ASSUME InstallationInvariant, NEW h \in Homes,
         StageRejected(h) \/ MoveRefused(h) \/ RestoreFails(h) \/ PurgeFails(h)
  PROVE  InstallationInvariant'
<1>1. cut \in [Homes -> BOOLEAN]
  BY DEF InstallationInvariant, Typed
<1>2. CASE StageRejected(h)
  BY <1>1, <1>2, GivesUp DEF StageRejected, Raise
<1>3. CASE MoveRefused(h)
  BY <1>1, <1>3, AtStage, GivesUp DEF MoveRefused, Raise
<1>4. CASE RestoreFails(h)
  BY <1>1, <1>4, AtStage, GivesUp DEF RestoreFails, Raise
<1>5. CASE PurgeFails(h)
  BY <1>1, <1>5, AtStage, GivesUp DEF PurgeFails, Raise
<1> QED BY <1>2, <1>3, <1>4, <1>5

LEMMA DiesKeeps ==
  ASSUME InstallationInvariant, NEW h \in Homes, CommandDies(h)
  PROVE  InstallationInvariant'
<1>1. /\ cmd[h].at # "off" /\ cmd' = [cmd EXCEPT ![h] = Off]
      /\ cut' = [cut EXCEPT ![h] = @ \/ cmd[h].at = "purging"]
      /\ UNCHANGED <<target, backups, live, prior, outcome>>
  BY DEF CommandDies
<1>2. outcome[h] = None
  BY <1>1 DEF InstallationInvariant, HomeInv, Progress
<1>3. Typed'
  BY <1>1 DEF InstallationInvariant, Typed, Progresses, Off, Stages
<1>4. \A k \in Homes \ {h} : Still(k)
  BY <1>1 DEF InstallationInvariant, Typed, Still
<1>5. cmd'[h] = Off /\ (cut[h] \/ cmd[h].at = "purging" => cut'[h])
  BY <1>1 DEF InstallationInvariant, Typed
<1>6. Recovers(h)'
  BY <1>1 DEF InstallationInvariant, HomeInv, Recovers, Held, Newest
<1>7. Undone(h)' /\ Restores(h)'
  BY <1>1, <1>2, NoneDistinct DEF Undone, Restores
<1>8. Whole(h)'
  BY <1>1, <1>5 DEF InstallationInvariant, HomeInv, Whole, Off
<1>9. HomeInv(h)'
  BY <1>5, <1>6, <1>7, <1>8, Resting
<1> QED BY <1>3, <1>4, <1>9, OneHome

-----------------------------------------------------------------------------
(* Moving the installed tree away, and putting a tree in its place. *)

LEMMA Displacing ==
  ASSUME InstallationInvariant, NEW h \in Homes, NEW stage \in {"moved", "displaced"}, NEW latest \in Nat,
         cmd[h].at \in {"staged", "unmoved"}, stage \in StagesOf(cmd[h].action),
         latest = IF stage = "displaced" THEN Len(backups[h]) ELSE 0,
         cmd' = [cmd EXCEPT ![h].at = stage, ![h].latest = latest],
         target' = [target EXCEPT ![h] = None],
         backups' = IF target[h] = None THEN backups ELSE [backups EXCEPT ![h] = Append(@, target[h])],
         UNCHANGED <<live, prior, outcome, cut>>
  PROVE  InstallationInvariant'
<1>1. /\ Typed /\ HomeInv(h) /\ Progress(h) /\ target[h] \in Tree \cup {None} /\ backups[h] \in Seq(Tree)
      /\ cmd[h] \in Progresses /\ prior[h].backups \in Seq(Tree) /\ Len(backups[h]) \in Nat
  BY DEF InstallationInvariant, HomeInv, Typed
<1>2. /\ target'[h] = None /\ live'[h] = live[h] /\ prior'[h] = prior[h] /\ outcome'[h] = outcome[h]
      /\ cut'[h] = cut[h] /\ cmd'[h] = [cmd[h] EXCEPT !.at = stage, !.latest = latest]
      /\ backups'[h] = IF target[h] = None THEN backups[h] ELSE Append(backups[h], target[h])
  BY <1>1 DEF Typed
<1>3. /\ cmd'[h].at = stage /\ cmd'[h].latest = latest /\ cmd'[h].action = cmd[h].action
      /\ cmd'[h].version = cmd[h].version /\ cmd'[h] \in Progresses
  <2>1. stage \in Stages
    BY DEF Stages, Moved
  <2>2. cmd[h] \in Progresses /\ cmd'[h] = [cmd[h] EXCEPT !.at = stage, !.latest = latest]
    BY <1>1, <1>2
  <2>3. latest \in Nat
    OBVIOUS
  <2> DEFINE c == cmd[h]
             d == cmd'[h]
  <2>4. c \in Progresses /\ d = [c EXCEPT !.at = stage, !.latest = latest]
    BY <2>2
  <2> HIDE DEF c, d
  <2>5. d.at = stage /\ d.latest = latest /\ d.action = c.action /\ d.version = c.version
    BY <2>4 DEF Progresses
  <2>6. d \in Progresses
    BY <2>1, <2>3, <2>4 DEF Progresses
  <2> QED BY <2>5, <2>6 DEF c, d
<1>4. backups'[h] \in Seq(Tree)
  BY <1>1, <1>2
<1>5. Typed'
  <2>1. backups' \in [Homes -> Seq(Tree)]
    BY <1>1, <1>2, <1>4 DEF Typed
  <2>2. cmd' \in [Homes -> Progresses]
    BY <1>1, <1>3, <1>2 DEF Typed
  <2> QED BY <1>1, <2>1, <2>2 DEF Typed
<1>6. \A k \in Homes \ {h} : Still(k)
  BY <1>1 DEF Still, Typed
<1>7. /\ target[h] = prior[h].target /\ backups[h] = prior[h].backups
      /\ outcome[h] = None /\ (cmd[h].action = "rollback" => backups[h] # <<>>)
      /\ cmd[h].action = "install" => cmd[h].version \in Versions
      /\ target[h] # None => live[h] = target[h] /\ "plugin.yaml" \in target[h].files
  BY <1>1 DEF Progress
<1>8. Held(h)'
  <2>1. CASE target[h] = None
    <3>1. Held(h)
      BY <1>1, <2>1 DEF HomeInv, Recovers
    <3> QED BY <1>2, <2>1, <3>1 DEF Held, Newest
  <2>2. CASE target[h] # None
    <3>1. /\ Append(backups[h], target[h]) # <<>>
          /\ Append(backups[h], target[h])[Len(Append(backups[h], target[h]))] = target[h]
      BY <1>1, <2>2, NewestAppended
    <3> QED BY <1>2, <1>7, <2>2, <3>1 DEF Held, Newest
  <2> QED BY <2>1, <2>2
<1>9. Progress(h)'
  <2>1. backups'[h] = WithDisplaced(prior'[h])
    BY <1>2, <1>7 DEF WithDisplaced
  <2>2. stage = "displaced" => cmd[h].action = "rollback"
    BY <1>1 DEF StagesOf, Progresses
  <2> QED BY <1>2, <1>3, <1>7, <1>8, <2>1, <2>2 DEF Progress, Moved
<1>10. Whole(h)'
  <2>1. CASE target[h] = None
    BY <1>1, <1>2, <2>1 DEF HomeInv, Whole
  <2>2. CASE target[h] # None
    <3>1. /\ DOMAIN Append(backups[h], target[h]) = 1..(Len(backups[h]) + 1)
          /\ \A i \in 1..Len(backups[h]) : Append(backups[h], target[h])[i] = backups[h][i]
          /\ Append(backups[h], target[h])[Len(backups[h]) + 1] = target[h]
      BY <1>1, <2>2
    <3>2. ~cut[h] => /\ target[h].files = Files
                     /\ \A i \in 1..Len(backups[h]) : backups[h][i].files = Files
      BY <1>1, <2>2 DEF HomeInv, Whole
    <3>3. ~cut[h] => \A i \in 1..(Len(backups[h]) + 1) : Append(backups[h], target[h])[i].files = Files
      BY <1>1, <3>1, <3>2
    <3> QED BY <1>2, <2>2, <3>1, <3>3 DEF Whole
  <2> QED BY <2>1, <2>2
<1>11. Recovers(h)' /\ Undone(h)' /\ Restores(h)'
  BY <1>2, <1>7, <1>8, NoneDistinct DEF Recovers, Undone, Restores
<1> QED BY <1>5, <1>6, <1>9, <1>10, <1>11, OneHome DEF HomeInv

LEMMA MoveAwayKeeps ==
  ASSUME InstallationInvariant, NEW h \in Homes, MoveAway(h)
  PROVE  InstallationInvariant'
<1>1. /\ cmd[h].at = "staged" /\ cmd' = [cmd EXCEPT ![h].at = "moved"]
      /\ backups' = IF target[h] = None THEN backups ELSE [backups EXCEPT ![h] = Append(@, target[h])]
      /\ target' = [target EXCEPT ![h] = None] /\ UNCHANGED <<live, prior, outcome, cut>>
  BY DEF MoveAway, Goto
<1>2. cmd[h].action = "install" /\ cmd[h].latest = 0 /\ cmd \in [Homes -> Progresses]
  BY <1>1, AtStage DEF InstallationInvariant, HomeInv, Progress, Typed
<1>3. [cmd[h] EXCEPT !.at = "moved"] = [cmd[h] EXCEPT !.at = "moved", !.latest = 0]
  BY <1>2 DEF Progresses
<1>4. cmd' = [cmd EXCEPT ![h].at = "moved", ![h].latest = 0]
  BY <1>1, <1>2, <1>3
<1>5. "moved" \in StagesOf(cmd[h].action)
  BY <1>2 DEF StagesOf
<1> QED BY <1>1, <1>4, <1>5, Displacing

LEMMA DisplaceKeeps ==
  ASSUME InstallationInvariant, NEW h \in Homes, Displace(h)
  PROVE  InstallationInvariant'
<1>1. /\ cmd[h].at = "unmoved" /\ cmd[h].action = "rollback"
      /\ cmd' = [cmd EXCEPT ![h].at = "displaced", ![h].latest = Len(backups[h])]
      /\ backups' = IF target[h] = None THEN backups ELSE [backups EXCEPT ![h] = Append(@, target[h])]
      /\ target' = [target EXCEPT ![h] = None] /\ UNCHANGED <<live, prior, outcome, cut>>
  BY DEF Displace
<1>2. "displaced" \in StagesOf(cmd[h].action) /\ Len(backups[h]) \in Nat
  BY <1>1 DEF StagesOf, InstallationInvariant, Typed
<1> QED BY <1>1, <1>2, Displacing

LEMMA Going ==
  ASSUME Typed, NEW h \in Homes, NEW stage \in Stages, Goto(h, stage)
  PROVE  /\ cmd'[h].at = stage /\ cmd'[h].latest = cmd[h].latest
         /\ cmd'[h].action = cmd[h].action /\ cmd'[h].version = cmd[h].version
         /\ cmd' \in [Homes -> Progresses] /\ \A k \in Homes \ {h} : cmd'[k] = cmd[k]
<1>1. cmd \in [Homes -> Progresses] /\ cmd' = [cmd EXCEPT ![h].at = stage]
  BY DEF Typed, Goto
<1> DEFINE d == [cmd[h] EXCEPT !.at = stage]
<1>2. d \in Progresses /\ d.at = stage /\ d.latest = cmd[h].latest
      /\ d.action = cmd[h].action /\ d.version = cmd[h].version
  BY <1>1 DEF Progresses
<1>3. cmd' = [cmd EXCEPT ![h] = d]
  BY <1>1
<1> HIDE DEF d
<1> QED BY <1>1, <1>2, <1>3

\* The new tree is put in the place that was made for it, or set aside again.
LEMMA SwapInKeeps ==
  ASSUME InstallationInvariant, NEW h \in Homes, SwapIn(h)
  PROVE  InstallationInvariant'
<1>1. /\ Typed /\ Progress(h) /\ cmd[h].at = "moved" /\ Goto(h, "swapped") /\ "swapped" \in Stages
      /\ target' = [target EXCEPT ![h] = [version |-> cmd[h].version, files |-> Files]]
      /\ UNCHANGED <<backups, live, prior, outcome, cut>>
  BY DEF SwapIn, InstallationInvariant, HomeInv, Stages, Moved
<1>2. /\ cmd'[h].at = "swapped" /\ cmd'[h].latest = cmd[h].latest
      /\ cmd'[h].action = cmd[h].action /\ cmd'[h].version = cmd[h].version
      /\ cmd' \in [Homes -> Progresses] /\ \A k \in Homes \ {h} : cmd'[k] = cmd[k]
  BY <1>1, Going
<1>3. cmd[h].action = "install" /\ cmd[h].version \in Versions
  BY <1>1, AtStage DEF Progress
<1>4. target'[h] = [version |-> cmd[h].version, files |-> Files] /\ target'[h] \in Tree /\ target'[h].files = Files
  BY <1>1, <1>3 DEF Typed, Tree
<1>5. target'[h] # None
  BY <1>4, NoneDistinct
<1>6. Typed'
  BY <1>1, <1>2, <1>4 DEF Typed
<1>7. \A k \in Homes \ {h} : Still(k)
  BY <1>1, <1>2 DEF Still, Typed
<1>8. Progress(h)'
  <2>1. Held(h)' /\ backups'[h] = WithDisplaced(prior'[h])
    BY <1>1 DEF Progress, Moved, Held, Newest, WithDisplaced
  <2>2. outcome'[h] = None /\ cmd[h].latest = 0
    BY <1>1 DEF Progress
  <2> QED BY <1>2, <1>3, <1>5, <2>1, <2>2 DEF Progress, StagesOf, Moved
<1>9. Recovers(h)' /\ Undone(h)' /\ Restores(h)'
  <2>1. outcome'[h] = None
    BY <1>1 DEF Progress
  <2> QED BY <1>5, <2>1, NoneDistinct DEF Recovers, Undone, Restores
<1>10. Whole(h)'
  BY <1>1, <1>4 DEF InstallationInvariant, HomeInv, Whole
<1> QED BY <1>6, <1>7, <1>8, <1>9, <1>10, OneHome DEF HomeInv

LEMMA SetAsideKeeps ==
  ASSUME InstallationInvariant, NEW h \in Homes, SetAside(h)
  PROVE  InstallationInvariant'
<1>1. /\ Typed /\ Progress(h) /\ cmd[h].at = "swapped" /\ cut \in [Homes -> BOOLEAN]
      /\ UNCHANGED <<backups, live, prior, cut>>
  BY DEF SetAside, InstallationInvariant, HomeInv, Typed
<1>2. CASE UNCHANGED target /\ Strand(h)
  BY <1>1, <1>2, AtStage, GivesUp DEF Strand, Moved
<1>3. CASE Goto(h, "aside") /\ UNCHANGED outcome /\ target' = [target EXCEPT ![h] = None]
  <2>1. "aside" \in Stages
    BY DEF Stages, Moved
  <2>2. /\ cmd'[h].at = "aside" /\ cmd'[h].latest = cmd[h].latest
        /\ cmd'[h].action = cmd[h].action /\ cmd'[h].version = cmd[h].version
        /\ cmd' \in [Homes -> Progresses] /\ \A k \in Homes \ {h} : cmd'[k] = cmd[k]
    BY <1>1, <1>3, <2>1, Going
  <2>3. target'[h] = None
    BY <1>1, <1>3 DEF Typed
  <2>4. Typed'
    BY <1>1, <1>3, <2>2 DEF Typed
  <2>5. \A k \in Homes \ {h} : Still(k)
    BY <1>1, <1>3, <2>2 DEF Still, Typed
  <2>6. Held(h)' /\ backups'[h] = WithDisplaced(prior'[h])
    BY <1>1 DEF Progress, Moved, Held, Newest, WithDisplaced
  <2>7. outcome'[h] = None /\ cmd[h].latest = 0 /\ cmd[h].action = "install" /\ cmd[h].version \in Versions
    BY <1>1, <1>3, AtStage DEF Progress
  <2>8. Progress(h)'
    BY <2>2, <2>3, <2>6, <2>7 DEF Progress, StagesOf, Moved
  <2>9. Recovers(h)' /\ Undone(h)' /\ Restores(h)'
    BY <2>6, <2>7, NoneDistinct DEF Recovers, Undone, Restores
  <2>10. Whole(h)'
    BY <1>1, <2>3 DEF InstallationInvariant, HomeInv, Whole
  <2> QED BY <2>4, <2>5, <2>8, <2>9, <2>10, OneHome DEF HomeInv
<1> QED BY <1>2, <1>3 DEF SetAside

LEMMA PutBackFacts ==
  ASSUME NEW b \in Seq(Tree), NEW t \in Tree, NEW c, c = Append(b, t)
  PROVE  c[Len(c)] = t /\ SubSeq(c, 1, Len(c) - 1) = b
<1>1. Len(c) = Len(b) + 1 /\ c[Len(b) + 1] = t /\ SubSeq(c, 1, Len(b)) = b /\ Len(b) \in Nat
  BY Appending
<1>2. Len(c) - 1 = Len(b)
  BY <1>1
<1> QED BY <1>1, <1>2

LEMMA BackupRestored ==
  ASSUME InstallationInvariant, NEW h \in Homes, cmd[h].at \in {"moved", "aside"},
         RestoreBackup(h), Raise(h), UNCHANGED <<live, prior, cut>>
  PROVE  InstallationInvariant'
<1>1. /\ Typed /\ Progress(h) /\ target[h] = None /\ backups[h] = WithDisplaced(prior[h]) /\ Held(h)
      /\ prior[h].target \in Tree \cup {None} /\ prior[h].backups \in Seq(Tree) /\ backups[h] \in Seq(Tree)
  BY DEF InstallationInvariant, HomeInv, Progress, Moved, Typed
<1>2. cmd[h].action = "install" /\ cmd[h].action # "none"
  BY AtStage
<1>3. /\ cmd'[h] = Off /\ outcome'[h] = [action |-> "install", result |-> "failed"]
      /\ outcome' \in [Homes -> Outcomes \cup {None}] /\ cmd' \in [Homes -> Progresses]
      /\ \A k \in Homes \ {h} : cmd'[k] = cmd[k] /\ outcome'[k] = outcome[k]
  BY <1>1, <1>2, Ended DEF Raise
<1>4. /\ target'[h] = prior[h].target /\ backups'[h] = prior[h].backups
      /\ target' \in [Homes -> Tree \cup {None}] /\ backups' \in [Homes -> Seq(Tree)]
      /\ \A k \in Homes \ {h} : target'[k] = target[k] /\ backups'[k] = backups[k]
  <2>1. CASE prior[h].target = None
    <3>1. UNCHANGED <<target, backups>>
      BY <2>1 DEF RestoreBackup, Replaced
    <3> QED BY <1>1, <2>1, <3>1 DEF WithDisplaced, Typed
  <2>2. CASE prior[h].target # None
    <3>1. /\ target' = [target EXCEPT ![h] = Newest(h)]
          /\ backups' = [backups EXCEPT ![h] = Older(h)]
      BY <2>2 DEF RestoreBackup, Replaced
    <3>2. prior[h].target \in Tree /\ backups[h] = Append(prior[h].backups, prior[h].target)
      BY <1>1, <2>2 DEF WithDisplaced
    <3>3. Newest(h) = prior[h].target /\ Older(h) = prior[h].backups
      BY <1>1, <3>2, PutBackFacts DEF Newest, Older
    <3> QED BY <1>1, <3>1, <3>2, <3>3 DEF Typed
  <2> QED BY <2>1, <2>2
<1>5. Typed'
  BY <1>1, <1>3, <1>4 DEF Typed
<1>6. \A k \in Homes \ {h} : Still(k)
  BY <1>3, <1>4 DEF Still
<1>7. Recovers(h)'
  <2>1. CASE prior[h].target = None
    BY <1>1, <1>4, <2>1 DEF WithDisplaced, Held, Newest, Recovers
  <2>2. CASE prior[h].target # None
    BY <1>4, <2>2 DEF Recovers
  <2> QED BY <2>1, <2>2
<1>8. Undone(h)' /\ Restores(h)'
  BY <1>3, <1>4 DEF Undone, Restores
<1>9. Whole(h)'
  <2> SUFFICES ASSUME ~cut[h] PROVE Whole(h)'
    BY DEF Whole
  <2>1. \A i \in DOMAIN backups[h] : backups[h][i].files = Files
    BY DEF InstallationInvariant, HomeInv, Whole
  <2>2. CASE prior[h].target = None
    BY <1>1, <1>4, <2>1, <2>2 DEF WithDisplaced, Whole
  <2>3. CASE prior[h].target # None
    <3> DEFINE b == prior[h].backups
               t == prior[h].target
    <3>1. b \in Seq(Tree) /\ t \in Tree /\ backups[h] = Append(b, t)
      BY <1>1, <2>3 DEF WithDisplaced
    <3> HIDE DEF b, t
    <3>2. /\ DOMAIN backups[h] = 1..(Len(b) + 1) /\ backups[h][Len(b) + 1] = t /\ DOMAIN b = 1..Len(b)
          /\ Len(b) \in Nat /\ \A i \in 1..Len(b) : backups[h][i] = b[i]
      BY <3>1, Appending
    <3>3. t.files = Files /\ \A i \in DOMAIN b : b[i].files = Files
      BY <2>1, <3>2
    <3>4. backups'[h] = b /\ target'[h] = t
      BY <1>4 DEF b, t
    <3> QED BY <3>3, <3>4 DEF Whole
  <2> QED BY <2>2, <2>3
<1>10. HomeInv(h)'
  BY <1>3, <1>7, <1>8, <1>9, Resting
<1> QED BY <1>5, <1>6, <1>10, OneHome

LEMMA SwapFailsKeeps ==
  ASSUME InstallationInvariant, NEW h \in Homes, SwapFails(h)
  PROVE  InstallationInvariant'
<1>1. cmd[h].at = "moved" /\ cut \in [Homes -> BOOLEAN] /\ UNCHANGED <<live, prior, cut>>
  BY DEF SwapFails, InstallationInvariant, Typed
<1>2. CASE RestoreBackup(h) /\ Raise(h)
  BY <1>1, <1>2, BackupRestored
<1>3. CASE Strand(h) /\ UNCHANGED <<target, backups>>
  BY <1>1, <1>3, AtStage, GivesUp DEF Strand, Moved
<1> QED BY <1>2, <1>3 DEF SwapFails

LEMMA PutBackKeeps ==
  ASSUME InstallationInvariant, NEW h \in Homes, PutBack(h)
  PROVE  InstallationInvariant'
<1>1. cmd[h].at = "aside" /\ cut \in [Homes -> BOOLEAN] /\ UNCHANGED <<live, prior, cut>>
  BY DEF PutBack, InstallationInvariant, Typed
<1>2. CASE RestoreBackup(h) /\ Raise(h)
  BY <1>1, <1>2, BackupRestored
<1>3. CASE Strand(h) /\ UNCHANGED <<target, backups>>
  BY <1>1, <1>3, AtStage, GivesUp DEF Strand, Moved
<1> QED BY <1>2, <1>3 DEF PutBack

-----------------------------------------------------------------------------
(* Commands that return. *)

LEMMA DoneEnds ==
  ASSUME Typed, NEW h \in Homes, Done(h), cmd[h].action # "none"
  PROVE  \E result \in {"done", "unlogged"} :
           /\ cmd'[h] = Off /\ outcome'[h] = [action |-> cmd[h].action, result |-> result]
           /\ outcome' \in [Homes -> Outcomes \cup {None}] /\ cmd' \in [Homes -> Progresses]
           /\ \A k \in Homes \ {h} : cmd'[k] = cmd[k] /\ outcome'[k] = outcome[k]
<1>1. CASE End(h, "done")
  BY <1>1, Ended
<1>2. CASE End(h, "unlogged")
  BY <1>2, Ended
<1> QED BY <1>1, <1>2 DEF Done

\* The new tree stays in place, verified or not.
LEMMA Staying ==
  ASSUME InstallationInvariant, NEW h \in Homes, NEW result \in {"done", "unlogged", "unverified"},
         cmd[h].at = "swapped", End(h, result),
         live' = [live EXCEPT ![h] = target[h]], UNCHANGED <<target, backups, prior, cut>>
  PROVE  InstallationInvariant'
<1>1. Typed /\ Progress(h)
  BY DEF InstallationInvariant, HomeInv
<1>2. /\ cmd[h].action = "install" /\ target[h] # None
      /\ backups[h] = WithDisplaced(prior[h])
  BY <1>1, AtStage DEF Progress, Moved
<1>3. /\ cmd'[h] = Off /\ outcome'[h] = [action |-> "install", result |-> result]
      /\ outcome' \in [Homes -> Outcomes \cup {None}] /\ cmd' \in [Homes -> Progresses]
      /\ \A k \in Homes \ {h} : cmd'[k] = cmd[k] /\ outcome'[k] = outcome[k]
  BY <1>1, <1>2, Ended
<1>4. Typed'
  BY <1>1, <1>3 DEF Typed
<1>5. \A k \in Homes \ {h} : Still(k)
  BY <1>1, <1>3 DEF Still, Typed
<1>6. Undone(h)' /\ Restores(h)'
  <2>1. backups'[h] = WithDisplaced(prior'[h])
    BY <1>2 DEF WithDisplaced
  <2> QED BY <1>3, <2>1, Keeping
<1>7. Recovers(h)' /\ Whole(h)'
  BY <1>2, <1>3 DEF Recovers, InstallationInvariant, HomeInv, Whole, Off
<1>8. HomeInv(h)'
  BY <1>3, <1>6, <1>7, Resting
<1> QED BY <1>4, <1>5, <1>8, OneHome

LEMMA CheckedKeeps ==
  ASSUME InstallationInvariant, NEW h \in Homes, Verified(h) \/ CheckRaises(h)
  PROVE  InstallationInvariant'
<1>1. CASE Verified(h)
  BY <1>1, Staying DEF Verified, Done
<1>2. CASE CheckRaises(h)
  BY <1>2, Staying DEF CheckRaises
<1> QED BY <1>1, <1>2

LEMMA RemoveKeeps ==
  ASSUME InstallationInvariant, NEW h \in Homes, Remove(h)
  PROVE  InstallationInvariant'
<1>1. /\ Typed /\ Progress(h) /\ cmd[h].at = "unmoved" /\ cmd[h].action = "uninstall" /\ Done(h)
      /\ backups' = [backups EXCEPT ![h] = Append(@, target[h])]
      /\ target' = [target EXCEPT ![h] = None] /\ live' = [live EXCEPT ![h] = None]
      /\ UNCHANGED <<prior, cut>>
  BY DEF Remove, InstallationInvariant, HomeInv
<1>2. target[h] \in Tree /\ backups[h] \in Seq(Tree)
  BY <1>1 DEF Progress, Typed
<1>3. PICK result \in {"done", "unlogged"} :
        /\ cmd'[h] = Off /\ outcome'[h] = [action |-> cmd[h].action, result |-> result]
        /\ outcome' \in [Homes -> Outcomes \cup {None}] /\ cmd' \in [Homes -> Progresses]
        /\ \A k \in Homes \ {h} : cmd'[k] = cmd[k] /\ outcome'[k] = outcome[k]
  BY <1>1, DoneEnds
<1>4. /\ target'[h] = None /\ live'[h] = None /\ backups'[h] = Append(backups[h], target[h])
      /\ Append(backups[h], target[h]) \in Seq(Tree)
  BY <1>1, <1>2 DEF Typed
<1>5. Typed'
  BY <1>1, <1>3, <1>4 DEF Typed
<1>6. \A k \in Homes \ {h} : Still(k)
  BY <1>1, <1>3 DEF Still, Typed
<1>7. Undone(h)' /\ Restores(h)'
  BY <1>1, <1>3, Unpromising
<1>8. Recovers(h)'
  BY <1>4 DEF Recovers, Held
<1>9. Whole(h)'
  <2> SUFFICES ASSUME ~cut[h] PROVE Whole(h)'
    BY <1>1 DEF Whole
  <2>1. target[h].files = Files /\ \A i \in DOMAIN backups[h] : backups[h][i].files = Files
    BY <1>1, <1>2, NoneDistinct DEF InstallationInvariant, HomeInv, Whole
  <2> DEFINE b == backups[h]
             t == target[h]
  <2>2. b \in Seq(Tree) /\ t \in Tree
    BY <1>2
  <2> HIDE DEF b, t
  <2>3. /\ DOMAIN Append(b, t) = 1..(Len(b) + 1) /\ Append(b, t)[Len(b) + 1] = t /\ DOMAIN b = 1..Len(b)
        /\ Len(b) \in Nat /\ \A i \in 1..Len(b) : Append(b, t)[i] = b[i]
    BY <2>2
  <2>4. \A i \in DOMAIN Append(b, t) : Append(b, t)[i].files = Files
    BY <2>1, <2>3 DEF b, t
  <2> QED BY <1>4, <2>4 DEF Whole, b, t
<1>10. HomeInv(h)'
  BY <1>3, <1>7, <1>8, <1>9, Resting
<1> QED BY <1>5, <1>6, <1>10, OneHome

LEMMA PurgeFileKeeps ==
  ASSUME InstallationInvariant, NEW h \in Homes, PurgeFile(h)
  PROVE  InstallationInvariant'
<1>1. PICK f \in target[h].files : target' = [target EXCEPT ![h].files = @ \ {f}]
  BY DEF PurgeFile
<1>2. /\ Typed /\ Progress(h) /\ cmd[h].at = "purging"
      /\ UNCHANGED <<cmd, backups, live, prior, outcome, cut>>
  BY DEF PurgeFile, InstallationInvariant, HomeInv
<1>3. cmd[h].action = "purge"
  BY <1>2, AtStage
<1>4. target[h] \in Tree /\ live[h] = None /\ outcome[h] = None /\ cmd[h].latest = 0
  BY <1>2 DEF Progress, Typed
<1>5. target'[h] \in Tree
  BY <1>1, <1>2, <1>4 DEF Typed, Tree
<1>6. target'[h] # None
  BY <1>5, NoneDistinct
<1>7. Typed'
  BY <1>1, <1>2, <1>5 DEF Typed
<1>8. \A k \in Homes \ {h} : Still(k)
  BY <1>1, <1>2 DEF Still, Typed
<1>9. Progress(h)'
  BY <1>2, <1>3, <1>4, <1>6 DEF Progress, StagesOf, Moved
<1>10. Recovers(h)' /\ Undone(h)' /\ Restores(h)'
  BY <1>2, <1>4, <1>6, NoneDistinct DEF Recovers, Undone, Restores
<1>11. Whole(h)'
  BY <1>2 DEF InstallationInvariant, HomeInv, Whole
<1> QED BY <1>7, <1>8, <1>9, <1>10, <1>11, OneHome DEF HomeInv

LEMMA PurgedKeeps ==
  ASSUME InstallationInvariant, NEW h \in Homes, Purged(h)
  PROVE  InstallationInvariant'
<1>1. /\ Typed /\ Progress(h) /\ cmd[h].at = "purging" /\ Done(h)
      /\ target' = [target EXCEPT ![h] = None] /\ UNCHANGED <<backups, live, prior, cut>>
  BY DEF Purged, InstallationInvariant, HomeInv
<1>2. cmd[h].action = "purge" /\ live[h] = None
  BY <1>1, AtStage DEF Progress
<1>3. PICK result \in {"done", "unlogged"} :
        /\ cmd'[h] = Off /\ outcome'[h] = [action |-> cmd[h].action, result |-> result]
        /\ outcome' \in [Homes -> Outcomes \cup {None}] /\ cmd' \in [Homes -> Progresses]
        /\ \A k \in Homes \ {h} : cmd'[k] = cmd[k] /\ outcome'[k] = outcome[k]
  BY <1>1, <1>2, DoneEnds
<1>4. target'[h] = None
  BY <1>1 DEF Typed
<1>5. Typed'
  BY <1>1, <1>3 DEF Typed
<1>6. \A k \in Homes \ {h} : Still(k)
  BY <1>1, <1>3 DEF Still, Typed
<1>7. Undone(h)' /\ Restores(h)'
  BY <1>2, <1>3, Unpromising
<1>8. Recovers(h)' /\ Whole(h)'
  BY <1>1, <1>2, <1>4 DEF Recovers, Held, InstallationInvariant, HomeInv, Whole
<1>9. HomeInv(h)'
  BY <1>3, <1>7, <1>8, Resting
<1> QED BY <1>5, <1>6, <1>9, OneHome

\* The first n - 1 elements.
LEMMA Front ==
  ASSUME NEW b \in Seq(Tree), NEW m \in Nat, m <= Len(b)
  PROVE  /\ SubSeq(b, 1, m) \in Seq(Tree) /\ Len(SubSeq(b, 1, m)) = m
         /\ \A i \in 1..m : SubSeq(b, 1, m)[i] = b[i]
<1>1. \A i \in 1..m : b[i] \in Tree
  OBVIOUS
<1> QED BY <1>1

Without(c, i) == SubSeq(c, 1, i - 1) \o SubSeq(c, i + 1, Len(c))

\* The backups once the newest was exchanged for the displaced tree, if there is one.
Exchanged(p) ==
  SubSeq(p.backups, 1, Len(p.backups) - 1) \o (IF p.target = None THEN <<>> ELSE <<p.target>>)

LEMMA TakenOff ==
  ASSUME NEW p, p.backups \in Seq(Tree), p.backups # <<>>, p.target = None
  PROVE  /\ Without(WithDisplaced(p), Len(p.backups)) = Exchanged(p) /\ Exchanged(p) \in Seq(Tree)
         /\ \A i \in DOMAIN Exchanged(p) :
              \E j \in DOMAIN WithDisplaced(p) : Exchanged(p)[i] = WithDisplaced(p)[j]
<1> DEFINE b     == p.backups
           n     == Len(b)
           front == SubSeq(b, 1, n - 1)
<1>0. b \in Seq(Tree) /\ b # <<>> /\ WithDisplaced(p) = b /\ Exchanged(p) = front \o <<>>
  BY DEF WithDisplaced, Exchanged
<1> HIDE DEF b
<1>1. n \in Nat \ {0} /\ n - 1 \in Nat /\ n - 1 <= Len(b) /\ DOMAIN b = 1..n
  BY <1>0
<1>2. front \in Seq(Tree) /\ Len(front) = n - 1 /\ \A i \in 1..(n - 1) : front[i] = b[i]
  BY <1>0, <1>1, Front
<1>3. SubSeq(b, n + 1, n) = <<>>
  BY <1>1, SubSeqEmpty
<1>5. Without(b, n) = front \o <<>>
  BY <1>3 DEF Without
<1> HIDE DEF front
<1>6. front \o <<>> = front
  BY <1>2, ConcatEmptySeq
<1>7. \A i \in DOMAIN front : \E j \in DOMAIN b : front[i] = b[j]
  BY <1>1, <1>2
<1> QED BY <1>0, <1>2, <1>5, <1>6, <1>7 DEF b

LEMMA TakenOut ==
  ASSUME NEW p, p.backups \in Seq(Tree), p.backups # <<>>, p.target \in Tree
  PROVE  /\ Without(WithDisplaced(p), Len(p.backups)) = Exchanged(p) /\ Exchanged(p) \in Seq(Tree)
         /\ \A i \in DOMAIN Exchanged(p) :
              \E j \in DOMAIN WithDisplaced(p) : Exchanged(p)[i] = WithDisplaced(p)[j]
<1> DEFINE b     == p.backups
           t     == p.target
           c     == WithDisplaced(p)
           n     == Len(b)
           front == SubSeq(b, 1, n - 1)
           rest  == front \o <<t>>
<1>0. b \in Seq(Tree) /\ b # <<>> /\ t \in Tree /\ c = Append(b, t) /\ Exchanged(p) = rest
  BY NoneDistinct DEF WithDisplaced, Exchanged
<1> HIDE DEF b, t, c
<1>1. /\ c \in Seq(Tree) /\ Len(c) = n + 1 /\ c[n + 1] = t
      /\ \A i \in 1..n : c[i] = b[i]
      /\ \A m \in 0..n : SubSeq(c, 1, m) = SubSeq(b, 1, m)
      /\ SubSeq(c, n + 1, n + 1) = <<t>>
  BY <1>0, Appending
<1>2. n \in Nat \ {0} /\ n - 1 \in Nat /\ n - 1 <= Len(b) /\ n - 1 \in 0..n
  BY <1>0
<1>3. front \in Seq(Tree) /\ Len(front) = n - 1 /\ \A i \in 1..(n - 1) : front[i] = b[i]
  BY <1>0, <1>2, Front
<1>4. DOMAIN c = 1..(n + 1)
  BY <1>1, <1>2
<1>5. SubSeq(c, 1, n - 1) = front /\ SubSeq(c, n + 1, Len(c)) = <<t>>
  BY <1>1, <1>2
<1>7. Without(c, n) = rest
  BY <1>5 DEF Without
<1> HIDE DEF front
<1>8. /\ rest \in Seq(Tree) /\ Len(rest) = n /\ rest[n] = t
      /\ \A i \in 1..(n - 1) : rest[i] = front[i]
  BY <1>0, <1>2, <1>3, SMTT(40)
<1> HIDE DEF rest
<1>9. \A i \in DOMAIN rest : \E j \in DOMAIN c : rest[i] = c[j]
  <2> SUFFICES ASSUME NEW i \in 1..n PROVE \E j \in DOMAIN c : rest[i] = c[j]
    BY <1>8
  <2>1. CASE i = n
    BY <1>1, <1>2, <1>4, <1>8, <2>1
  <2>2. CASE i # n
    <3>1. i \in 1..(n - 1) /\ i \in DOMAIN c
      BY <1>2, <1>4, <2>2
    <3> QED BY <1>1, <1>3, <1>8, <3>1
  <2> QED BY <2>1, <2>2
<1> QED BY <1>0, <1>7, <1>8, <1>9 DEF b, c

\* What Restore leaves: the newest backup of before, and the rest of the backups.
LEMMA RestoredTrees ==
  ASSUME InstallationInvariant, NEW h \in Homes, cmd[h].at = "displaced"
  PROVE  /\ cmd[h].latest \in DOMAIN backups[h] /\ backups[h][cmd[h].latest] \in Tree
         /\ backups[h][cmd[h].latest] = prior[h].backups[Len(prior[h].backups)]
         /\ Without(backups[h], cmd[h].latest) = Exchanged(prior[h])
         /\ Without(backups[h], cmd[h].latest) \in Seq(Tree)
         /\ \A i \in DOMAIN Without(backups[h], cmd[h].latest) :
              \E j \in DOMAIN backups[h] : Without(backups[h], cmd[h].latest)[i] = backups[h][j]
<1> DEFINE p == prior[h]
<1>1. p.backups \in Seq(Tree) /\ p.target \in Tree \cup {None}
  BY DEF InstallationInvariant, Typed
<1>2. p.backups # <<>> /\ cmd[h].latest = Len(p.backups) /\ backups[h] = WithDisplaced(p)
  <2>1. Progress(h)
    BY DEF InstallationInvariant, HomeInv
  <2> QED BY <2>1 DEF Progress, Moved
<1> HIDE DEF p
<1>3. /\ Len(p.backups) \in DOMAIN WithDisplaced(p) /\ p.backups[Len(p.backups)] \in Tree
      /\ WithDisplaced(p)[Len(p.backups)] = p.backups[Len(p.backups)]
  <2> DEFINE b == p.backups
             t == p.target
  <2>1. Len(b) \in Nat \ {0} /\ Len(b) \in DOMAIN b /\ b[Len(b)] \in Tree
    BY <1>1, <1>2
  <2>2. t # None => /\ DOMAIN Append(b, t) = 1..(Len(b) + 1)
                    /\ Append(b, t)[Len(b)] = b[Len(b)]
    BY <1>1, <2>1, Appending
  <2> QED BY <2>1, <2>2 DEF WithDisplaced
<1>4. /\ Without(WithDisplaced(p), Len(p.backups)) = Exchanged(p) /\ Exchanged(p) \in Seq(Tree)
      /\ \A i \in DOMAIN Exchanged(p) :
           \E j \in DOMAIN WithDisplaced(p) : Exchanged(p)[i] = WithDisplaced(p)[j]
  <2>1. CASE p.target = None
    BY <1>1, <1>2, <2>1, TakenOff
  <2>2. CASE p.target # None
    BY <1>1, <1>2, <2>2, TakenOut
  <2> QED BY <2>1, <2>2
<1> QED BY <1>2, <1>3, <1>4 DEF p

LEMMA RestoreKeeps ==
  ASSUME InstallationInvariant, NEW h \in Homes, Restore(h)
  PROVE  InstallationInvariant'
<1> DEFINE rest == Without(backups[h], cmd[h].latest)
           back == backups[h][cmd[h].latest]
<1>1. /\ Typed /\ HomeInv(h) /\ cmd[h].at = "displaced" /\ Done(h)
      /\ target' = [target EXCEPT ![h] = back]
      /\ backups' = [backups EXCEPT ![h] = rest]
      /\ live' = [live EXCEPT ![h] = back] /\ UNCHANGED <<prior, cut>>
  BY DEF Restore, InstallationInvariant, Without
<1>2. cmd[h].action = "rollback"
  BY <1>1, AtStage
<1>3. PICK result \in {"done", "unlogged"} :
        /\ cmd'[h] = Off /\ outcome'[h] = [action |-> cmd[h].action, result |-> result]
        /\ outcome' \in [Homes -> Outcomes \cup {None}] /\ cmd' \in [Homes -> Progresses]
        /\ \A k \in Homes \ {h} : cmd'[k] = cmd[k] /\ outcome'[k] = outcome[k]
  BY <1>1, <1>2, DoneEnds
<1>4. /\ cmd[h].latest \in DOMAIN backups[h] /\ back \in Tree
      /\ back = prior[h].backups[Len(prior[h].backups)]
      /\ rest = Exchanged(prior[h])
      /\ rest \in Seq(Tree)
      /\ \A i \in DOMAIN rest : \E j \in DOMAIN backups[h] : rest[i] = backups[h][j]
  BY <1>1, RestoredTrees
<1>5. cmd[h].latest \in DOMAIN backups[h] /\ back = backups[h][cmd[h].latest]
  BY <1>4
<1> HIDE DEF rest, back
<1>6. target'[h] = back /\ backups'[h] = rest /\ live'[h] = back
  BY <1>1 DEF Typed
<1>7. Typed'
  BY <1>1, <1>3, <1>4 DEF Typed
<1>8. \A k \in Homes \ {h} : Still(k)
  BY <1>1, <1>3 DEF Still, Typed
<1>9. Recovers(h)'
  BY <1>4, <1>6, NoneDistinct DEF Recovers
<1>10. Undone(h)'
  <2>1. outcome'[h].action = "rollback"
    BY <1>2, <1>3
  <2> QED BY <2>1 DEF Undone
<1>11. Restores(h)'
  BY <1>1, <1>4, <1>6 DEF Restores, Exchanged
<1>12. Whole(h)'
  <2>1. ~cut[h] => \A i \in DOMAIN backups[h] : backups[h][i].files = Files
    BY <1>1 DEF HomeInv, Whole
  <2>2. ~cut[h] => back.files = Files /\ \A i \in DOMAIN rest : rest[i].files = Files
    BY <1>4, <1>5, <2>1
  <2> QED BY <1>1, <1>6, <2>2 DEF Whole
<1>13. HomeInv(h)'
  BY <1>3, <1>9, <1>10, <1>11, <1>12, Resting
<1> QED BY <1>7, <1>8, <1>13, OneHome

-----------------------------------------------------------------------------
(* Every step. *)

LEMMA CommandKeeps ==
  ASSUME InstallationInvariant, NEW h \in Homes, Commands(h)
  PROVE  InstallationInvariant'
<1>1. CASE BeginInstall(h)
  BY <1>1, BeginKeeps DEF BeginInstall
<1>2. CASE BeginUninstall(h)
  BY <1>2, BeginKeeps DEF BeginUninstall
<1>3. CASE BeginPurge(h)
  BY <1>3, BeginKeeps DEF BeginPurge
<1>4. CASE BeginRollback(h)
  BY <1>4, BeginKeeps DEF BeginRollback
<1> QED BY <1>1, <1>2, <1>3, <1>4 DEF Commands

LEMMA WorkKeeps ==
  ASSUME InstallationInvariant, NEW h \in Homes, Works(h)
  PROVE  InstallationInvariant'
<1>1. CASE StageRejected(h) \/ MoveRefused(h) \/ RestoreFails(h) \/ PurgeFails(h)
  BY <1>1, RefusedKeeps
<1>2. CASE MoveAway(h)
  BY <1>2, MoveAwayKeeps
<1>3. CASE SwapIn(h)
  BY <1>3, SwapInKeeps
<1>4. CASE SwapFails(h)
  BY <1>4, SwapFailsKeeps
<1>5. CASE Verified(h) \/ CheckRaises(h)
  BY <1>5, CheckedKeeps
<1>6. CASE SetAside(h)
  BY <1>6, SetAsideKeeps
<1>7. CASE PutBack(h)
  BY <1>7, PutBackKeeps
<1>8. CASE Remove(h)
  BY <1>8, RemoveKeeps
<1>9. CASE PurgeFile(h)
  BY <1>9, PurgeFileKeeps
<1>10. CASE Purged(h)
  BY <1>10, PurgedKeeps
<1>11. CASE Displace(h)
  BY <1>11, DisplaceKeeps
<1>12. CASE Restore(h)
  BY <1>12, RestoreKeeps
<1>13. CASE CommandDies(h)
  BY <1>13, DiesKeeps
<1> QED
  BY <1>1, <1>2, <1>3, <1>4, <1>5, <1>6, <1>7, <1>8, <1>9, <1>10, <1>11, <1>12, <1>13 DEF Works

LEMMA UnchangedKeeps ==
  ASSUME InstallationInvariant, UNCHANGED installation
  PROVE  InstallationInvariant'
<1>1. Typed'
  BY DEF InstallationInvariant, Typed, installation
<1>2. \A h \in Homes : HomeInv(h) /\ Still(h)
  BY DEF InstallationInvariant, Still, installation
<1> QED BY <1>1, <1>2, StillKeeps DEF InstallationInvariant

LEMMA InstallationStep ==
  ASSUME InstallationInvariant, [Next]_vars
  PROVE  InstallationInvariant'
<1>1. ASSUME NEW h \in Homes, Command(h) PROVE InstallationInvariant'
  BY <1>1, CommandKeeps DEF Command
<1>2. ASSUME NEW h \in Homes, Work(h) PROVE InstallationInvariant'
  BY <1>2, WorkKeeps DEF Work
<1>3. CASE UNCHANGED installation
  BY <1>3, UnchangedKeeps
<1> QED
  BY <1>1, <1>2, <1>3 DEF Next, Import, Reuse, Refuse, Start, Stop, vars

LEMMA InstallationInit ==
  ASSUME Init
  PROVE  InstallationInvariant
<1>1. /\ target = [h \in Homes |-> None] /\ backups = [h \in Homes |-> <<>>]
      /\ cmd = [h \in Homes |-> Off] /\ live = [h \in Homes |-> None]
      /\ prior = [h \in Homes |-> [target |-> None, backups |-> <<>>]]
      /\ outcome = [h \in Homes |-> None] /\ cut = [h \in Homes |-> FALSE]
  BY DEF Init, InstallerInit
<1>2. Off \in Progresses
  BY DEF Off, Progresses, Stages
<1>3. Typed
  BY <1>1, <1>2 DEF Typed
<1>4. ASSUME NEW h \in Homes PROVE HomeInv(h)
  <2>1. /\ target[h] = None /\ backups[h] = <<>> /\ live[h] = None /\ outcome[h] = None
        /\ cmd[h].action = "none" /\ cmd[h].at = "off" /\ cmd[h].latest = 0
    BY <1>1 DEF Off
  <2>2. Progress(h)
    BY <2>1 DEF Progress, StagesOf, Moved
  <2>3. Recovers(h)
    BY <2>1 DEF Recovers, Held
  <2>4. Undone(h) /\ Restores(h)
    BY <2>1, NoneDistinct DEF Undone, Restores
  <2>5. DOMAIN backups[h] = {}
    BY <2>1
  <2>6. Whole(h)
    BY <2>1, <2>5 DEF Whole
  <2> QED BY <2>2, <2>3, <2>4, <2>6 DEF HomeInv
<1> QED BY <1>3, <1>4 DEF InstallationInvariant

\* The invariant the promises rest on: what holds of each home at each stage of a command.
THEOREM InstallationInductive == Spec => []InstallationInvariant
<1> QED BY InstallationInit, InstallationStep, PTL DEF Spec

\* Whatever dies or fails between the two renames of install or rollback, the newest backup
\* is what was in place, and rollback accepts it.
THEOREM RollbackAlwaysRecovers == Spec => []RollbackRecovers
<1>1. InstallationInvariant => RollbackRecovers
  BY DEF InstallationInvariant, HomeInv, Recovers, Held, RollbackRecovers
<1> QED BY <1>1, InstallationInductive, PTL

\* An install that fails and undoes its work leaves the home as it was; one that cannot or
\* does not undo it - the undoing fails, check_tree raises after the swap, the log cannot be
\* written - leaves what it replaced as the newest backup.
THEOREM FailureIsUndoneOrKept == Spec => []InstallUndoneOrKept
<1>1. InstallationInvariant => InstallUndoneOrKept
  BY DEF InstallationInvariant, HomeInv, Undone, WithDisplaced, InstallUndoneOrKept
<1> QED BY <1>1, InstallationInductive, PTL

\* A rollback restores the newest backup and keeps what it displaced.
THEOREM RollbackRestoresNewest == Spec => []RollbackRestores
<1>1. InstallationInvariant => RollbackRestores
  <2> SUFFICES ASSUME InstallationInvariant, NEW h \in Homes, NEW result \in {"done", "unlogged"},
                      outcome[h] = [action |-> "rollback", result |-> result]
               PROVE  LET n == Len(prior[h].backups)
                      IN  /\ target[h] = prior[h].backups[n]
                          /\ backups[h] = SubSeq(prior[h].backups, 1, n - 1)
                               \o (IF prior[h].target = None THEN <<>> ELSE <<prior[h].target>>)
    BY DEF RollbackRestores
  <2>1. Restores(h)
    BY DEF InstallationInvariant, HomeInv
  <2>2. outcome[h] \in [action : {"rollback"}, result : {"done", "unlogged"}]
    OBVIOUS
  <2> QED BY <2>1, <2>2 DEF Restores
<1> QED BY <1>1, InstallationInductive, PTL

\* Neither Hermes nor rollback ever finds half of a tree, unless a purge was cut short.
THEOREM NoHalfTrees == Spec => []TreesWhole
<1>1. InstallationInvariant => TreesWhole
  BY DEF InstallationInvariant, HomeInv, Whole, TreesWhole
<1> QED BY <1>1, InstallationInductive, PTL

-----------------------------------------------------------------------------
(* The types, with the loader's. *)

LoaderTyped ==
  /\ modules = None \/ modules \in Packages
  /\ served \in [Homes -> Versions \cup {None}] /\ running \in BOOLEAN

LEMMA LoaderStep ==
  ASSUME InstallationInvariant, LoaderTyped, [Next]_vars
  PROVE  LoaderTyped'
<1>1. ASSUME NEW h \in Homes, Import(h) PROVE LoaderTyped'
  <2>1. target[h].version \in Versions
    BY <1>1 DEF Import, Loadable, InstallationInvariant, Typed, Tree
  <2> QED BY <1>1, <2>1 DEF Import, LoaderTyped, Packages
<1>2. ASSUME NEW h \in Homes, Reuse(h) PROVE LoaderTyped'
  BY <1>2 DEF Reuse, Foreign, LoaderTyped, Packages
<1>3. ASSUME NEW h \in Homes, Refuse(h) PROVE LoaderTyped'
  BY <1>3 DEF Refuse, LoaderTyped
<1> QED
  BY <1>1, <1>2, <1>3 DEF Next, Command, Work, Start, Stop, vars, loader, LoaderTyped

LEMMA LatestIsThere ==
  ASSUME InstallationInvariant, NEW h \in Homes
  PROVE  cmd[h].latest <= Len(backups[h])
<1>1. Progress(h) /\ backups[h] \in Seq(Tree)
  BY DEF InstallationInvariant, HomeInv, Typed
<1>2. CASE cmd[h].at = "displaced"
  <2>1. cmd[h].latest \in DOMAIN backups[h]
    BY <1>2, RestoredTrees
  <2> QED BY <1>1, <2>1
<1>3. CASE cmd[h].at # "displaced"
  BY <1>1, <1>3 DEF Progress
<1> QED BY <1>2, <1>3

\* Type correctness: the backup rollback has chosen is there until it is restored.
THEOREM InstallationTyped == Spec => []TypeOK
<1>1. Init => LoaderTyped
  BY DEF Init, LoaderTyped
<1>2. InstallationInvariant /\ LoaderTyped /\ [Next]_vars => LoaderTyped'
  BY LoaderStep
<1>3. InstallationInvariant /\ LoaderTyped => TypeOK
  BY LatestIsThere DEF InstallationInvariant, Typed, LoaderTyped, TypeOK
<1> QED BY <1>1, <1>2, <1>3, InstallationInductive, PTL DEF Spec

-----------------------------------------------------------------------------
(* The gateway, stopped while an installation changes. *)

Loaded ==
  /\ modules # None => /\ modules.home \in Homes /\ target[modules.home] # None
                       /\ modules.version = target[modules.home].version
  /\ \A h \in Homes : served[h] # None =>
       /\ modules # None /\ target[h] # None
       /\ served[h] = modules.version /\ served[h] = target[h].version

ServingInvariant ==
  /\ served \in [Homes -> Versions \cup {None}]
  /\ running => \A h \in Homes : cmd[h].at = "off"
  /\ ~running => modules = None /\ served = [h \in Homes |-> None]
  /\ Loaded

LEMMA WorkNeedsCommand ==
  ASSUME NEW h \in Homes, Works(h)
  PROVE  cmd[h].at # "off"
  BY DEF Works, StageRejected, MoveAway, MoveRefused, SwapIn, SwapFails, Verified, CheckRaises,
         SetAside, PutBack,
         Remove, PurgeFile, Purged, PurgeFails, Displace, Restore, RestoreFails, CommandDies

LEMMA ServingStep ==
  ASSUME Disciplined, InstallationInvariant, ServingInvariant, [Next]_vars
  PROVE  ServingInvariant'
<1>1. ASSUME NEW h \in Homes, Command(h) \/ Work(h) PROVE ServingInvariant'
  <2>1. ~running /\ UNCHANGED loader
    BY <1>1, WorkNeedsCommand DEF Command, Work, ServingInvariant
  <2> QED BY <2>1, NoneDistinct DEF ServingInvariant, Loaded, loader
<1>2. ASSUME NEW h \in Homes, Import(h) PROVE ServingInvariant'
  <2>1. /\ running /\ target[h] # None /\ (modules = None \/ modules.home = h)
        /\ modules' = [home |-> h, version |-> target[h].version]
        /\ served' = [served EXCEPT ![h] = target[h].version]
        /\ UNCHANGED <<target, cmd, running>>
    BY <1>2 DEF Import, Loadable, Foreign, installation
  <2>2. target[h].version \in Versions
    BY <2>1 DEF InstallationInvariant, Typed, Tree
  <2>3. modules'.home = h /\ modules'.version = target[h].version /\ target'[h] = target[h]
    BY <2>1
  <2>4. ASSUME NEW k \in Homes, served'[k] # None
        PROVE  target[k] # None /\ served'[k] = target[k].version /\ served'[k] = target[h].version
    <3>1. CASE k = h
      BY <2>1, <3>1 DEF ServingInvariant
    <3>2. CASE k # h
      <4>1. served'[k] = served[k]
        BY <2>1, <3>2 DEF ServingInvariant
      <4> QED BY <2>1, <2>4, <4>1 DEF ServingInvariant, Loaded
    <3> QED BY <3>1, <3>2
  <2>5. modules' # None
    BY <2>1, <2>2, PackagesAssumption DEF Packages
  <2>6. Loaded'
    BY <2>1, <2>3, <2>4, <2>5 DEF Loaded
  <2>7. served' \in [Homes -> Versions \cup {None}]
    BY <2>1, <2>2 DEF ServingInvariant
  <2> QED BY <2>1, <2>6, <2>7 DEF ServingInvariant
<1>3. ASSUME NEW h \in Homes, Reuse(h) PROVE ServingInvariant'
  <2>1. /\ running /\ target[h] # None /\ modules # None
        /\ Fingerprint(h) # None /\ Fingerprint(modules.home) = Fingerprint(h)
        /\ served' = [served EXCEPT ![h] = modules.version]
        /\ UNCHANGED <<target, cmd, running, modules>>
    BY <1>3 DEF Reuse, Loadable, Foreign, Identical, installation
  <2>2. modules.version = target[h].version
    BY <2>1 DEF Fingerprint, ServingInvariant, Loaded
  <2>3. target[h].version \in Versions
    BY <2>1 DEF InstallationInvariant, Typed, Tree
  <2>4. served' \in [Homes -> Versions \cup {None}]
    BY <2>1, <2>2, <2>3 DEF ServingInvariant
  <2>5. served'[h] = modules.version /\ \A k \in Homes \ {h} : served'[k] = served[k]
    BY <2>1 DEF ServingInvariant
  <2>6. Loaded'
    BY <2>1, <2>2, <2>5 DEF Loaded, ServingInvariant
  <2> QED BY <2>1, <2>4, <2>6 DEF ServingInvariant
<1>4. ASSUME NEW h \in Homes, Refuse(h) PROVE ServingInvariant'
  <2>1. /\ running /\ served' = [served EXCEPT ![h] = None]
        /\ UNCHANGED <<target, cmd, running, modules>>
    BY <1>4 DEF Refuse, installation
  <2>2. served'[h] = None /\ \A k \in Homes \ {h} : served'[k] = served[k]
    BY <2>1 DEF ServingInvariant
  <2>3. Loaded'
    BY <2>1, <2>2 DEF Loaded, ServingInvariant
  <2>4. served' \in [Homes -> Versions \cup {None}]
    BY <2>1 DEF ServingInvariant
  <2> QED BY <2>1, <2>3, <2>4 DEF ServingInvariant
<1>5. CASE Start
  BY <1>5 DEF Start, ServingInvariant, Loaded, installation
<1>6. CASE Stop
  <2>1. modules' = None /\ served' = [h \in Homes |-> None] /\ ~running'
    BY <1>6 DEF Stop
  <2>2. \A h \in Homes : served'[h] = None
    BY <2>1
  <2> QED BY <2>1, <2>2 DEF ServingInvariant, Loaded
<1>7. CASE UNCHANGED vars
  BY <1>7 DEF vars, loader, installation, ServingInvariant, Loaded
<1> QED BY <1>1, <1>2, <1>3, <1>4, <1>5, <1>6, <1>7 DEF Next

\* With the gateway stopped while installations change (more than the documented "install into
\* every profile, then restart"), no two versions are ever served by one process, and each
\* profile is served by what is installed in it.
THEOREM ServedWhatIsInstalled == Disciplined /\ Spec => []ServedAsInstalled
<1>1. Init => ServingInvariant
  BY DEF Init, ServingInvariant, Loaded
<1>2. Disciplined /\ InstallationInvariant /\ ServingInvariant /\ [Next]_vars => ServingInvariant'
  BY ServingStep
<1>3. ServingInvariant => ServedAsInstalled
  BY DEF ServingInvariant, Loaded, ServedAsInstalled, OneVersion
<1>4. ASSUME Disciplined PROVE Spec => []ServedAsInstalled
  <2>1. InstallationInvariant /\ ServingInvariant /\ [Next]_vars => ServingInvariant'
    BY <1>2, <1>4
  <2> QED BY <1>1, <1>3, <2>1, InstallationInductive, PTL DEF Spec
<1> QED BY <1>4
=============================================================================
