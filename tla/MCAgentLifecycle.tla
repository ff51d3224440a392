-------------------------- MODULE MCAgentLifecycle --------------------------
(* Small sets of commands for TLC.  A deploy of content c, a promotion or    *)
(* rollback of an alias to VERSION$v, a drop.                                *)
EXTENDS AgentLifecycle, TLC

CONSTANTS p1, p2, cA, cB, latest, production

DeployOf(c, f) ==
  [kind |-> "deploy", content |-> c, force |-> f, alias |-> latest,
   version |-> 0, setDefault |-> FALSE]
RouteTo(a, v, d) ==
  [kind |-> "route", content |-> cA, force |-> FALSE, alias |-> a,
   version |-> v, setDefault |-> d]
Drop ==
  [kind |-> "drop", content |-> cA, force |-> FALSE, alias |-> latest,
   version |-> 0, setDefault |-> FALSE]

Deploys == {DeployOf(cA, FALSE), DeployOf(cB, FALSE)}

\* Deploys of two contents, promotions and rollbacks of a custom alias, with and
\* without DEFAULT, drops.
SerialCommands ==
  Deploys \cup {RouteTo(production, 1, TRUE), RouteTo(production, 2, TRUE),
                RouteTo(production, 2, FALSE), Drop}

\* Deploys, one of them with force_agent_recreate, and two operators who promote
\* the same alias to different versions.
ConflictingCommands ==
  {DeployOf(cA, FALSE), DeployOf(cB, TRUE),
   RouteTo(production, 1, TRUE), RouteTo(production, 2, TRUE)}

\* Another operator rolls back the alias the deploys move forward.
OverlappingCommands == ConflictingCommands \cup {RouteTo(latest, 1, TRUE)}

Symmetry == Permutations({p1, p2})
=============================================================================
