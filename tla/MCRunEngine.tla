---------------------------- MODULE MCRunEngine ----------------------------
(***************************************************************************)
(* Small graphs on which TLC runs RunEngine.                               *)
(***************************************************************************)
EXTENDS RunRefinement, TLC

CONSTANTS a, b, c, d,       \* nodes
          g1, g2, g3,    \* gates
          good, other, bad

\* Release: a checks, b deploys what a produced (side effects, so an approval gate;
\* two reviews of the outputs), both stop the run on failure.
ReleaseNodes     == {a, b}
ReleaseOrder     == <<a, b>>
ReleaseDependsOn == (a :> {}) @@ (b :> {a})
ReleaseExecutor  == (a :> "builtin") @@ (b :> "agent")
ReleaseAttempts  == (a :> 2) @@ (b :> 1)
ReleaseGates     == {g1, g2, g3}
ReleaseGateNode  == (g1 :> b) @@ (g2 :> b) @@ (g3 :> b)
ReleaseGateType  == (g1 :> "approval") @@ (g2 :> "review") @@ (g3 :> "review")
ReleaseGateRank  == (g1 :> 1) @@ (g2 :> 2) @@ (g3 :> 3)

\* Fork: an agent node with retries and a review, beside it a non-idempotent builtin, an
\* agent node with side effects behind two approval gates, and a node joining the first two.
ForkNodes     == {a, b, c, d}
ForkOrder     == <<b, a, d, c>>
ForkDependsOn == (a :> {}) @@ (b :> {}) @@ (c :> {a, b}) @@ (d :> {b})
ForkExecutor  == (a :> "agent") @@ (b :> "builtin") @@ (c :> "builtin") @@ (d :> "agent")
ForkAttempts  == (a :> 2) @@ (b :> 1) @@ (c :> 1) @@ (d :> 1)
ForkGates     == {g1, g2, g3}
ForkGateNode  == (g1 :> a) @@ (g2 :> d) @@ (g3 :> d)
ForkGateType  == (g1 :> "review") @@ (g2 :> "approval") @@ (g3 :> "approval")
ForkGateRank  == (g1 :> 1) @@ (g2 :> 1) @@ (g3 :> 2)
=============================================================================
