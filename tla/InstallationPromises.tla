------------------------ MODULE InstallationPromises ------------------------
(***************************************************************************)
(* What the installer and the multi-profile loader promise an operator.    *)
(***************************************************************************)
EXTENDS ProfileLoader

TypeOK ==
  /\ \A h \in Homes : target[h] \in Tree \cup {None} /\ live[h] \in Tree \cup {None}
  /\ \A h \in Homes : backups[h] \in Seq(Tree)
  /\ \A h \in Homes : cmd[h].latest <= Len(backups[h])
  /\ cut \in [Homes -> BOOLEAN]
  /\ modules = None \/ modules \in Packages
  /\ served \in [Homes -> Versions \cup {None}] /\ running \in BOOLEAN

\* However a command ended, died or failed: if no plugin is in place although none was
\* removed, the newest backup is what was in place, and rollback accepts it (install and
\* rollback between their two renames).
RollbackRecovers ==
  \A h \in Homes : target[h] = None /\ live[h] # None =>
    backups[h] # <<>> /\ Newest(h) = live[h] /\ "plugin.yaml" \in Newest(h).files

\* An install that fails and undoes its work leaves the home as it was, backups included
\* (install: a staged or installed tree that does not verify, a rename that fails).  However
\* else one ends that did not die - undoing it fails too, verifying the tree in place raises
\* and nothing undoes the swap, the log cannot be written, or it succeeds - what it replaced
\* is the newest backup, after the older ones, whatever tree is now in place.
InstallUndoneOrKept ==
  \A h \in Homes : outcome[h] # None /\ outcome[h].action = "install" =>
    IF outcome[h].result = "failed"
    THEN target[h] = prior[h].target /\ backups[h] = prior[h].backups
    ELSE backups[h] = IF prior[h].target = None THEN prior[h].backups
                      ELSE Append(prior[h].backups, prior[h].target)

\* A rollback restores the newest backup there was when it began, whatever it displaces,
\* and the next rollback would bring back what this one displaced (rollback), whether or
\* not it could be logged.
RollbackRestores ==
  \A h \in Homes, result \in {"done", "unlogged"} :
    outcome[h] = [action |-> "rollback", result |-> result] =>
    LET n == Len(prior[h].backups)
    IN  /\ target[h] = prior[h].backups[n]
        /\ backups[h] = SubSeq(prior[h].backups, 1, n - 1)
                          \o (IF prior[h].target = None THEN <<>> ELSE <<prior[h].target>>)

\* Hermes never finds half of a tree, and none is kept as a backup for rollback to restore
\* unverified, unless a purge is under way or was cut short.
TreesWhole ==
  \A h \in Homes : ~cut[h] =>
    /\ target[h] # None /\ cmd[h].at # "purging" => target[h].files = Files
    /\ \A i \in DOMAIN backups[h] : backups[h][i].files = Files

\* Different versions are never mixed in one process (ARCHITECTURE.md:188).
OneVersion == \A h, k \in Homes : served[h] # None /\ served[k] # None => served[h] = served[k]

\* And each profile is served by the version installed in it, when the gateway is stopped
\* while installations change (plugin_init.py.tmpl, _bind_bundled_packages).
ServedAsInstalled ==
  OneVersion /\ \A h \in Homes : served[h] # None => target[h] # None /\ served[h] = target[h].version
=============================================================================
