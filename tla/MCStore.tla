------------------------------- MODULE MCStore -------------------------------
(***************************************************************************)
(* Two callers in a gateway and one in a command line, on one run.         *)
(***************************************************************************)
EXTENDS StorePromises, TLC

CONSTANTS turn, worker, command, gateway, cli

MCProcessOf == (turn :> gateway) @@ (worker :> gateway) @@ (command :> cli)
=============================================================================
