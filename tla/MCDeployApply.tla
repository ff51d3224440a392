---------------------------- MODULE MCDeployApply ----------------------------
(* A project with two Agents, a model one of them reads and the source of    *)
(* that model, and what people make of it.                                   *)
EXTENDS DeployApply, TLC

CONSTANTS a, b, m, u, dev, stage, prod, agentA, agentB, table, raw, elsewhere

MCDatabaseOf ==
  (agentA :> dev) @@ (agentB :> dev) @@ (table :> dev) @@ (raw :> dev) @@ (elsewhere :> prod)

Agent(at, parents, stages) ==
  [kind |-> "agent", at |-> at, parents |-> parents, stages |-> stages]
Relation(kind, at, parents) ==
  [kind |-> kind, at |-> at, parents |-> parents, stages |-> {}]

Reviewed ==
  (a :> Agent(agentA, {m}, {stage})) @@ (b :> Agent(agentB, {}, {}))
    @@ (m :> Relation("model", table, {u})) @@ (u :> Relation("source", raw, {}))

\* The Agent gets another name; two Agents exchange theirs.
Renamed == [Reviewed EXCEPT ![a].at = elsewhere]
Exchanged == [Reviewed EXCEPT ![a].at = agentB, ![b].at = agentA]
\* The Agent becomes a table, or is gone.
NoAgent == [Reviewed EXCEPT ![a] = Relation("model", agentA, {m})]
Gone == [Reviewed EXCEPT ![a] = Relation("absent", agentA, {})]
\* The other Agent becomes an ancestor; it may be disabled.
AgentAncestor == [Reviewed EXCEPT ![m].parents = {u, b}]
DisabledAncestor == [AgentAncestor EXCEPT ![b].kind = "disabled_agent"]
\* The model reads a model in another database.
MovedUpstream == [Reviewed EXCEPT ![u] = Relation("model", elsewhere, {})]

Projects ==
  {Reviewed, Renamed, Exchanged, NoAgent, Gone, AgentAncestor, DisabledAncestor,
   MovedUpstream}
\* A parse for another target resolves other names.
OtherTargets == {Renamed, MovedUpstream}

Deploy(agents, databases) ==
  [agents |-> agents, databases |-> databases, targetAllowed |-> TRUE]
Requests ==
  {Deploy({a}, {dev, stage}), Deploy({a, b}, {dev, stage}),
   Deploy({a, b}, {dev, stage, prod}),
   [Deploy({a}, {dev, stage}) EXCEPT !.targetAllowed = FALSE]}
=============================================================================
