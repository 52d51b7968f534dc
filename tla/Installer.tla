------------------------------ MODULE Installer ------------------------------
(***************************************************************************)
(* The installer of the directory plugin (scripts/install_plugin.py).  A   *)
(* home has the installed tree (target) and its backups, oldest first; a   *)
(* command stages a tree, and replaces the target by renaming directories. *)
(* Commands die, and renames and verifications fail, between any two       *)
(* steps; one command at a time works on a home.                           *)
(*                                                                         *)
(* Of a tree's files the model keeps three: plugin.yaml, by which check()  *)
(* and rollback recognise an installation; the install manifest; lib.      *)
(***************************************************************************)
EXTENDS Naturals, Sequences

CONSTANTS
  Homes,
  None,
  Versions,       \* releases that may be installed
  MaxCommands, MaxDeaths, MaxFailures  \* bounds

Files == {"plugin.yaml", "manifest", "lib"}

Tree     == [version : Versions, files : SUBSET Files]
Outcomes == [action : {"install", "uninstall", "purge", "rollback"},
             result : {"done", "unlogged", "unverified", "failed", "failed twice"}]

ASSUME NoneAssumption == None \notin Versions \cup Tree \cup Outcomes

VARIABLES
  target,   \* target[h]: the tree below plugins/ (None: absent)
  backups,  \* backups[h]: trees below backups/, ordered by their stamp (taken to grow: a
            \* clock set back between two commands is left out)
  cmd,      \* cmd[h]: the command at work on h, and how far it is
  live,     \* history: the tree in place when the last command began, or that it left
  prior,    \* history: target and backups when the last command began
  outcome,  \* history: how the last command ended (None: it is under way, or it died)
  cut,      \* history: a purge of h was interrupted
  commands, deaths, failures  \* bounds

installation == <<target, backups, cmd, live, prior, outcome, cut, commands, deaths, failures>>

Off == [action |-> "none", at |-> "off", version |-> None, latest |-> 0]

InstallerInit ==
  /\ target = [h \in Homes |-> None] /\ backups = [h \in Homes |-> <<>>]
  /\ cmd = [h \in Homes |-> Off] /\ live = [h \in Homes |-> None]
  /\ prior = [h \in Homes |-> [target |-> None, backups |-> <<>>]]
  /\ outcome = [h \in Homes |-> None] /\ cut = [h \in Homes |-> FALSE]
  /\ commands = 0 /\ deaths = 0 /\ failures = 0

Newest(h) == backups[h][Len(backups[h])]
Older(h)  == SubSeq(backups[h], 1, Len(backups[h]) - 1)

\* check: what is there must be an installation of this plugin.
Recognised(h) == target[h] # None => "plugin.yaml" \in target[h].files

Goto(h, stage) == cmd' = [cmd EXCEPT ![h].at = stage]

Fails == failures < MaxFailures /\ failures' = failures + 1
FailsTwice == failures + 1 < MaxFailures /\ failures' = failures + 2

\* How a command ends.
End(h, result) ==
  /\ cmd' = [cmd EXCEPT ![h] = Off]
  /\ outcome' = [outcome EXCEPT ![h] = [action |-> cmd[h].action, result |-> result]]

\* It raises; what it does to undo its work may fail in its turn.
Raise(h)  == End(h, "failed")
Strand(h) == End(h, "failed twice")

\* It returns, unless writing to the install log fails: it raises, with its work done.
Done(h) ==
  \/ End(h, "done") /\ UNCHANGED failures
  \/ End(h, "unlogged") /\ Fails

-----------------------------------------------------------------------------
\* A command passes check(); refused, it would change nothing.
Begin(h, action, version, stage) ==
  /\ cmd[h].at = "off" /\ commands < MaxCommands /\ Recognised(h)
  /\ commands' = commands + 1
  /\ cmd' = [cmd EXCEPT ![h] = [Off EXCEPT !.action = action, !.at = stage, !.version = version]]
  /\ prior' = [prior EXCEPT ![h] = [target |-> target[h], backups |-> backups[h]]]
  /\ outcome' = [outcome EXCEPT ![h] = None]
  /\ live' = [live EXCEPT ![h] = IF action = "purge" THEN None
                               ELSE IF target[h] # None THEN target[h] ELSE @]
  /\ UNCHANGED <<target, backups, cut, deaths, failures>>

\* install, reinstall: the tree is staged and verified aside.
BeginInstall(h) == \E v \in Versions : Begin(h, "install", v, "staged")

\* It does not verify, or staging or verifying it raises: the home is untouched.
StageRejected(h) ==
  /\ cmd[h].at = "staged" /\ Fails /\ Raise(h)
  /\ UNCHANGED <<target, backups, live, prior, cut, commands, deaths>>

\* What is installed becomes the newest backup.
MoveAway(h) ==
  /\ cmd[h].at = "staged" /\ Goto(h, "moved")
  /\ backups' = IF target[h] = None THEN backups
                ELSE [backups EXCEPT ![h] = Append(@, target[h])]
  /\ target' = [target EXCEPT ![h] = None]
  /\ UNCHANGED <<live, prior, outcome, cut, commands, deaths, failures>>

\* The rename of the target fails (its files are in use), and nothing has changed.
MoveRefused(h) ==
  /\ cmd[h].at \in {"staged", "unmoved"} /\ target[h] # None /\ Fails /\ Raise(h)
  /\ UNCHANGED <<target, backups, live, prior, cut, commands, deaths>>

SwapIn_Copying(h) ==
  /\ cmd[h].at = "moved" /\ Goto(h, "swapped")
  /\ \E copied \in SUBSET Files : target' = [target EXCEPT ![h] = [version |-> cmd[h].version, files |-> copied]]
  /\ UNCHANGED <<backups, live, prior, outcome, cut, commands, deaths, failures>>

SwapIn(h) ==
  /\ cmd[h].at = "moved" /\ Goto(h, "swapped")
  /\ target' = [target EXCEPT ![h] = [version |-> cmd[h].version, files |-> Files]]
  /\ UNCHANGED <<backups, live, prior, outcome, cut, commands, deaths, failures>>

Replaced(h) == prior[h].target # None

RestoreBackup(h) ==
  IF Replaced(h)
  THEN target' = [target EXCEPT ![h] = Newest(h)] /\ backups' = [backups EXCEPT ![h] = Older(h)]
  ELSE UNCHANGED <<target, backups>>

SwapFails_KeepsBackup(h) ==
  /\ cmd[h].at = "moved" /\ Fails /\ Raise(h)
  /\ UNCHANGED <<target, backups, live, prior, cut, commands, deaths>>

\* os.replace raises: the backup is put back.
SwapFails(h) ==
  /\ cmd[h].at = "moved"
  /\ \/ Fails /\ RestoreBackup(h) /\ Raise(h)
     \/ FailsTwice /\ Replaced(h) /\ Strand(h) /\ UNCHANGED <<target, backups>>
  /\ UNCHANGED <<live, prior, cut, commands, deaths>>

Verified(h) ==
  /\ cmd[h].at = "swapped" /\ Done(h)
  /\ live' = [live EXCEPT ![h] = target[h]]
  /\ UNCHANGED <<target, backups, prior, cut, commands, deaths>>

\* check_tree raises instead of reporting (a file it cannot read, a probe that prints
\* nothing): nothing catches that, and the new tree stays in place, unverified.
CheckRaises(h) ==
  /\ cmd[h].at = "swapped" /\ Fails /\ End(h, "unverified")
  /\ live' = [live EXCEPT ![h] = target[h]]
  /\ UNCHANGED <<target, backups, prior, cut, commands, deaths>>

\* The installed tree does not verify: it is set aside ...
SetAside(h) ==
  /\ cmd[h].at = "swapped"
  /\ \/ /\ Fails /\ Goto(h, "aside") /\ UNCHANGED outcome
        /\ target' = [target EXCEPT ![h] = None]
     \/ FailsTwice /\ Strand(h) /\ UNCHANGED target
  /\ UNCHANGED <<backups, live, prior, cut, commands, deaths>>

\* ... and the backup is put back.
PutBack(h) ==
  /\ cmd[h].at = "aside"
  /\ \/ RestoreBackup(h) /\ Raise(h) /\ UNCHANGED failures
     \/ Fails /\ Replaced(h) /\ Strand(h) /\ UNCHANGED <<target, backups>>
  /\ UNCHANGED <<live, prior, cut, commands, deaths>>

-----------------------------------------------------------------------------
\* uninstall keeps the tree as a backup, or purges it file by file.
BeginUninstall(h) ==
  /\ target[h] # None /\ "manifest" \in target[h].files
  /\ Begin(h, "uninstall", None, "unmoved")

Remove(h) ==
  /\ cmd[h].action = "uninstall" /\ cmd[h].at = "unmoved" /\ Done(h)
  /\ backups' = [backups EXCEPT ![h] = Append(@, target[h])]
  /\ target' = [target EXCEPT ![h] = None] /\ live' = [live EXCEPT ![h] = None]
  /\ UNCHANGED <<prior, cut, commands, deaths>>

BeginPurge(h) ==
  /\ target[h] # None /\ "manifest" \in target[h].files
  /\ Begin(h, "purge", None, "purging")

PurgeFile(h) ==
  /\ cmd[h].at = "purging" /\ UNCHANGED cmd
  /\ \E f \in target[h].files : target' = [target EXCEPT ![h].files = @ \ {f}]
  /\ UNCHANGED <<backups, live, prior, outcome, cut, commands, deaths, failures>>

Purged(h) ==
  /\ cmd[h].at = "purging" /\ target[h].files = {} /\ Done(h)
  /\ target' = [target EXCEPT ![h] = None]
  /\ UNCHANGED <<backups, live, prior, cut, commands, deaths>>

\* A file cannot be removed: rmtree stops there.
PurgeFails(h) ==
  /\ cmd[h].at = "purging" /\ Fails /\ Raise(h)
  /\ cut' = [cut EXCEPT ![h] = TRUE]
  /\ UNCHANGED <<target, backups, live, prior, commands, deaths>>

-----------------------------------------------------------------------------
\* rollback: the newest backup is chosen before the installed tree becomes a newer one.
\* What it restores is not verified.
BeginRollback(h) ==
  /\ backups[h] # <<>> /\ "plugin.yaml" \in Newest(h).files
  /\ Begin(h, "rollback", None, "unmoved")

Displace_Later(h) ==
  /\ cmd[h].action = "rollback" /\ cmd[h].at = "unmoved"
  /\ cmd' = [cmd EXCEPT ![h].at = "displaced", ![h].latest = Len(backups[h])]
  /\ target' = [target EXCEPT ![h] = None]
  /\ UNCHANGED <<backups, live, prior, outcome, cut, commands, deaths, failures>>

Displace_ChosenAfter(h) ==
  /\ cmd[h].action = "rollback" /\ cmd[h].at = "unmoved"
  /\ backups' = IF target[h] = None THEN backups
                ELSE [backups EXCEPT ![h] = Append(@, target[h])]
  /\ cmd' = [cmd EXCEPT ![h].at = "displaced", ![h].latest = Len(backups'[h])]
  /\ target' = [target EXCEPT ![h] = None]
  /\ UNCHANGED <<live, prior, outcome, cut, commands, deaths, failures>>

Displace(h) ==
  /\ cmd[h].action = "rollback" /\ cmd[h].at = "unmoved"
  /\ cmd' = [cmd EXCEPT ![h].at = "displaced", ![h].latest = Len(backups[h])]
  /\ backups' = IF target[h] = None THEN backups
                ELSE [backups EXCEPT ![h] = Append(@, target[h])]
  /\ target' = [target EXCEPT ![h] = None]
  /\ UNCHANGED <<live, prior, outcome, cut, commands, deaths, failures>>

Restore(h) ==
  LET i == cmd[h].latest
  IN  /\ cmd[h].at = "displaced" /\ Done(h)
      /\ target' = [target EXCEPT ![h] = backups[h][i]]
      /\ backups' = [backups EXCEPT ![h] = SubSeq(@, 1, i - 1) \o SubSeq(@, i + 1, Len(@))]
      /\ live' = [live EXCEPT ![h] = backups[h][i]]
      /\ UNCHANGED <<prior, cut, commands, deaths>>

\* os.replace raises: nothing puts the displaced tree back.
RestoreFails(h) ==
  /\ cmd[h].at = "displaced" /\ Fails /\ Raise(h)
  /\ UNCHANGED <<target, backups, live, prior, cut, commands, deaths>>

-----------------------------------------------------------------------------
CommandDies(h) ==
  /\ cmd[h].at # "off" /\ deaths < MaxDeaths /\ deaths' = deaths + 1
  /\ cmd' = [cmd EXCEPT ![h] = Off]
  /\ cut' = [cut EXCEPT ![h] = @ \/ cmd[h].at = "purging"]
  /\ UNCHANGED <<target, backups, live, prior, outcome, commands, failures>>

Commands(h) == BeginInstall(h) \/ BeginUninstall(h) \/ BeginPurge(h) \/ BeginRollback(h)

Works(h) ==
  \/ StageRejected(h) \/ MoveAway(h) \/ MoveRefused(h) \/ SwapIn(h) \/ SwapFails(h)
  \/ Verified(h) \/ CheckRaises(h) \/ SetAside(h) \/ PutBack(h)
  \/ Remove(h) \/ PurgeFile(h) \/ Purged(h) \/ PurgeFails(h)
  \/ Displace(h) \/ Restore(h) \/ RestoreFails(h)
  \/ CommandDies(h)
=============================================================================
