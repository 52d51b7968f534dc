---------------------------- MODULE ProfileLoader ----------------------------
(***************************************************************************)
(* A gateway that loads the plugin of several profile homes into one       *)
(* process (ge_hermes/resources/plugin_init.py.tmpl), composed with the    *)
(* installer that changes those homes.  The packages ge_runtime and        *)
(* ge_hermes exist once in the process; a second profile reuses them when  *)
(* the two installations have the same fingerprint, read from their        *)
(* manifests on disk.  The gateway may reload a profile's plugin.          *)
(*                                                                         *)
(* sys.path needs no variable: an entry is added only when no package is   *)
(* loaded, so that it holds one installation's lib at a time.              *)
(***************************************************************************)
EXTENDS Installer

CONSTANT
  Disciplined  \* the gateway is stopped while an installation changes

Packages == [home : Homes, version : Versions]

ASSUME PackagesAssumption == None \notin Packages

VARIABLES
  running,  \* the gateway is up
  modules,  \* the packages in sys.modules: the home they came from, their version
  served    \* served[h]: the version behind the handlers registered for h

loader == <<running, modules, served>>
vars   == <<installation, loader>>

Init ==
  /\ InstallerInit
  /\ running = FALSE /\ modules = None /\ served = [h \in Homes |-> None]

Command(h) ==
  /\ Commands(h) /\ (Disciplined => ~running)
  /\ UNCHANGED loader

Work(h) == Works(h) /\ UNCHANGED loader

Start ==
  /\ ~running /\ (Disciplined => \A h \in Homes : cmd[h].at = "off")
  /\ running' = TRUE
  /\ UNCHANGED <<installation, modules, served>>

Stop ==
  /\ running /\ running' = FALSE
  /\ modules' = None /\ served' = [h \in Homes |-> None]
  /\ UNCHANGED installation

Fingerprint(h) ==
  IF target[h] = None THEN None
  ELSE IF "manifest" \in target[h].files THEN target[h].version ELSE None

Loadable(h) == running /\ target[h] # None /\ "lib" \in target[h].files

Foreign(h) == modules # None /\ modules.home # h

Identical_Unread(h) == Fingerprint(h) # None

Identical(h) == Fingerprint(h) # None /\ Fingerprint(modules.home) = Fingerprint(h)

\* No package is loaded, or this home's own, which are dropped and imported again.
Import(h) ==
  /\ Loadable(h) /\ ~Foreign(h)
  /\ modules' = [home |-> h, version |-> target[h].version]
  /\ served' = [served EXCEPT ![h] = target[h].version]
  /\ UNCHANGED <<installation, running>>

Reuse(h) ==
  /\ Loadable(h) /\ Foreign(h) /\ Identical(h)
  /\ served' = [served EXCEPT ![h] = modules.version]
  /\ UNCHANGED <<installation, running, modules>>

\* PLUGIN_CONFIGURATION_INVALID: the profile shows the plugin as not loaded.
Refuse(h) ==
  /\ running /\ target[h] # None
  /\ "lib" \in target[h].files => Foreign(h) /\ ~Identical(h)
  /\ served' = [served EXCEPT ![h] = None]
  /\ UNCHANGED <<installation, running, modules>>

Next ==
  \/ \E h \in Homes : Command(h) \/ Work(h) \/ Import(h) \/ Reuse(h) \/ Refuse(h)
  \/ Start \/ Stop

Spec == Init /\ [][Next]_vars
=============================================================================
