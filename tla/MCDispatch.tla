---------------------------- MODULE MCDispatch ----------------------------
(***************************************************************************)
(* One agent node that must not be repeated and three callers in two       *)
(* processes, on which TLC runs Dispatch.                                  *)
(***************************************************************************)
EXTENDS Dispatch, TLC

CONSTANTS send, tool, tool2, operator, gateway, cli, good, approve

SendNodes     == {send}
SendOrder     == <<send>>
SendDependsOn == (send :> {})
SendExecutor  == (send :> "agent")
SendAttempts  == (send :> 1)

\* send waits for an approval, or for nothing.
SendGateNode == (approve :> send)
SendGateType == (approve :> "approval")
SendGateRank == (approve :> 1)
MCNoGate     == <<>>

\* A gateway and a command line that share the profile's directory.
TwoProcesses == (tool :> gateway) @@ (tool2 :> gateway) @@ (operator :> cli)
=============================================================================
