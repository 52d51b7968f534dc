----------------------------- MODULE MCAdmission -----------------------------
(***************************************************************************)
(* The specs on which TLC runs admission: every dependency graph of three  *)
(* agent nodes, one of which may read another, and single nodes with every *)
(* combination of the fields the rules relate.                             *)
(***************************************************************************)
EXTENDS Readmission, TLC

CONSTANTS a, b, c, unknown

MCCapabilities == {"compute.pure", "agent.reasoning", "agent.tools"}
MCCapabilitiesOf == "builtin" :> {"compute.pure"} @@ "agent" :> {"agent.reasoning", "agent.tools"}
MCProduced == "measure" :> {"length"}

Spec1(list, inputs, disabled) ==
  [malformed |-> FALSE, nodes |-> list, inputs |-> inputs, disabled |-> disabled]

Agent(n, deps, inputs) ==
  [id |-> n, executor |-> "agent", depends_on |-> deps, inputs |-> inputs, outputs |-> {"out"}]
Reads(n, output) == {[name |-> "value", from |-> <<n, output>>, required |-> TRUE]}

\* Every graph of three nodes, self-loops included; node b may read a or c.
DepLists == {<<>>} \cup {<<m>> : m \in {a, b, c}}
              \cup {<<p[1], p[2]>> : p \in {q \in {a, b, c} \X {a, b, c} : q[1] # q[2]}}
Shapes ==
  {Spec1(<<Agent(a, p, {}), Agent(b, q, reads), Agent(c, r, {})>>, {}, {}) :
     p, q, r \in DepLists, reads \in {{}, Reads(a, "out"), Reads(c, "out")}}

\* Inputs: from the graph, from outputs that are not declared, from unknown nodes.
Source(where, name, required) == {[name |-> "value", from |-> <<where, name>>, required |-> required]}
Wirings ==
  {Spec1(<<Agent(a, <<>>, {}), Agent(b, <<a>>, reads)>>, given, off) :
     reads \in {Source(w, k, required) : w \in {"graph.inputs", a, unknown}, k \in {"out", "text"},
                                         required \in BOOLEAN},
     given \in {{}, {"text"}}, off \in {{}, {"agent"}}}

\* Fields that may be absent.
Optional(field, values) == {<<>>} \cup {field :> v : v \in values}
RuleNodes ==
  {[id |-> a] @@ e @@ o @@ i @@ s @@ m @@ d @@ g @@ k @@ q :
     e \in Optional("executor", {"agent", "builtin", "shell"}),
     o \in Optional("operation", {None, "measure"}),
     i \in Optional("inputs", {Source("graph.inputs", "text", FALSE)}),
     s \in Optional("side_effects", {TRUE}),
     m \in Optional("max_attempts", {0, 2, 6}),
     d \in Optional("idempotent", BOOLEAN),
     g \in Optional("gates", {{"review"}, {"approval"}}),
     k \in Optional("rollback_boundary", {"here"}),
     q \in Optional("requires", {{"agent.tools"}, {"teleport"}})}
Rules == {Spec1(<<n>>, {}, {}) : n \in RuleNodes}

\* Lists that are no graph: empty, too long, ids twice, dependencies unknown or twice.
Defects ==
  {Spec1(list, {}, {}) : list \in
     {<<>>, <<Agent(a, <<>>, {}), Agent(a, <<>>, {})>>, <<Agent(a, <<unknown>>, {})>>,
      <<Agent(a, <<>>, {}), Agent(b, <<a, a>>, {})>>,
      <<Agent(a, <<>>, {}), Agent(b, <<>>, {}), Agent(c, <<>>, {}), Agent(unknown, <<>>, {})>>,
      <<Agent(a, <<>>, {}) @@ [malformed |-> TRUE]>>}}
  \cup {[Spec1(<<Agent(a, <<>>, {})>>, {}, {}) EXCEPT !.malformed = TRUE]}

MCSubmissions == Shapes \cup Wirings \cup Rules \cup Defects
=============================================================================
