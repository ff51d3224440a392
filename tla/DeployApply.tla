----------------------------- MODULE DeployApply -----------------------------
(***************************************************************************)
(* One `agent deploy --apply` over several Agents (deployment.py): parse   *)
(* the dbt project, select the Agents, walk their dependencies, compare    *)
(* the databases with the allowlist, upload skills, run `dbt build`, and   *)
(* read from its output what became of every planned Agent.                *)
(*                                                                         *)
(* The plan is made of the manifest; dbt parses the project again.  In     *)
(* between people edit the project, and other commands write manifests to  *)
(* the same path.  dbt runs independent nodes side by side; each may fail, *)
(* and dbt, or the command with the dbt under it, can be killed.           *)
(*                                                                         *)
(* Skill folders are SkillStage's subject and the statements of one        *)
(* Agent's deploy AgentLifecycle's: an upload is one step here, and an     *)
(* Agent's deploy is three.  What the macros refuse on their own (targets, *)
(* databases, skills) is a deploy that fails.                              *)
(***************************************************************************)
EXTENDS Integers, FiniteSets

CONSTANTS
  Node,        \* dbt resources, by unique_id
  Place,       \* three-part physical names of relations and Agents
  Database,
  DatabaseOf,  \* the database of each place
  Graphs,      \* what the dbt project may look like, one after the other
  Elsewhere,   \* what other commands may write to the manifest path
  Request,     \* the deploys people ask for
  MaxDeploys,  \* bound: deploys started
  MaxChanges   \* bound: edits of the project and manifests of other commands

Kind == {"agent", "disabled_agent", "model", "source", "absent"}
AgentPhase == {"version_committed", "live_reconciled"}

\* A node of the graph; `stages` are the databases of its declared skills' stages.
Resource == [kind : Kind, at : Place, parents : SUBSET Node, stages : SUBSET Database]

ASSUME PlacesAreInDatabases == DatabaseOf \in [Place -> Database]
ASSUME GraphsAreKnown ==
  /\ Graphs \subseteq [Node -> Resource] /\ Graphs # {}
  /\ Elsewhere \subseteq [Node -> Resource]
ASSUME RequestsAreKnown ==
  Request \subseteq [agents : SUBSET Node, databases : SUBSET Database,
                     targetAllowed : BOOLEAN]
ASSUME BoundsAreNatural == MaxDeploys \in Nat /\ MaxChanges \in Nat

VARIABLES
  project,  \* the dbt project, as it would parse now
  manifest, \* the graph in target/manifest.json
  cmd,      \* the running `agent deploy`
  build,    \* the `dbt build` it runs
  effects,  \* what this deploy did to Agents and relations
  report,   \* what it reported last
  seen,     \* graphs of the project and of written manifests since it started
  deploys, changes

counters == <<deploys, changes>>
vars == <<project, manifest, cmd, build, effects, report, seen, counters>>
-----------------------------------------------------------------------------
Databases(places) == {DatabaseOf[p] : p \in places}
Agents(graph) == {n \in Node : graph[n].kind = "agent"}
IsAgent(resource) == resource.kind \in {"agent", "disabled_agent"}

\* What `+fqn:<agent>` selects: the named nodes that exist and their ancestors,
\* the least set that holds them and is closed under parents.
Closed(graph, nodes) == \A n \in nodes : graph[n].parents \subseteq nodes
Ancestry(graph, nodes) ==
  {n \in Node : \A S \in SUBSET Node : nodes \subseteq S /\ Closed(graph, S) => n \in S}
Selection(graph, nodes) ==
  {n \in Ancestry(graph, {m \in nodes : graph[m].kind # "absent"}) :
     graph[n].kind \notin {"source", "absent"}}

NoGraph == <<>>
NoRequest == [agents |-> {}, databases |-> {}, targetAllowed |-> FALSE]
Idle == [pc |-> "idle", request |-> NoRequest, rewritten |-> FALSE, graph |-> NoGraph,
         pending |-> {}, visited |-> {}, uploads |-> {}]
NoBuild == [graph |-> NoGraph, todo |-> {}, active |-> [n \in Node |-> "no"],
            done |-> {}, bad |-> {}, log |-> {}]
NoEffects == [agents |-> {}, relations |-> {}, stages |-> {}]
NoReport == [status |-> "none", agents |-> {}, phases |-> {}]

At(step) == cmd.pc = step
Planned(n) == cmd.graph[n].at

\* The handler emits its result, or an error on the way to it.
End(status, phases) ==
  /\ report' = [status |-> status, agents |-> {Planned(n) : n \in cmd.request.agents},
                phases |-> phases]
  /\ cmd' = [cmd EXCEPT !.pc = "idle"]
Refuse ==
  /\ report' = [NoReport EXCEPT !.status = "refused"]
  /\ cmd' = [cmd EXCEPT !.pc = "idle"]
  /\ UNCHANGED <<project, manifest, build, effects, seen, counters>>
Step(c) ==
  /\ cmd' = c
  /\ UNCHANGED <<project, manifest, build, effects, report, seen, counters>>
-----------------------------------------------------------------------------
(* fresh_manifest. *)

StartDeploy ==
  /\ At("idle")
  /\ deploys < MaxDeploys
  /\ deploys' = deploys + 1
  /\ \E r \in Request : cmd' = [Idle EXCEPT !.pc = "parse", !.request = r]
  /\ build' = NoBuild
  /\ effects' = NoEffects
  /\ report' = NoReport
  /\ seen' = {project}
  /\ UNCHANGED <<project, manifest, changes>>

\* dbt parse exits 0 and writes the manifest.
ParseWrites ==
  /\ At("parse")
  /\ manifest' = project
  /\ cmd' = [cmd EXCEPT !.pc = "load", !.rewritten = TRUE]
  /\ UNCHANGED <<project, build, effects, report, seen, counters>>

\* dbt parse exits 0 and writes nothing, or fails.
ParseWritesNothing == At("parse") /\ Step([cmd EXCEPT !.pc = "load"])
ParseFails == At("parse") /\ Refuse

\* Slip: the exit status of dbt parse is enough.
LoadUnchecked == At("load") /\ Step([cmd EXCEPT !.pc = "select", !.graph = manifest])

\* The file has another stamp than before the parse.
Load ==
  /\ At("load")
  /\ cmd.rewritten
  /\ Step([cmd EXCEPT !.pc = "select", !.graph = manifest])

LoadStale == At("load") /\ ~cmd.rewritten /\ Refuse
-----------------------------------------------------------------------------
(* build_deploy_plan and validate_deploy_plan. *)

\* select_agents: requested Agents exist; no two enabled Agents share a name.
Selectable(graph, nodes) ==
  /\ nodes \subseteq Agents(graph)
  /\ \A n, m \in Agents(graph) : graph[n].at = graph[m].at => n = m

Select ==
  /\ At("select")
  /\ IF Selectable(cmd.graph, cmd.request.agents)
     THEN Step([cmd EXCEPT !.pc = "walk", !.pending = cmd.request.agents])
     ELSE Refuse

\* Slip: only what an Agent reads itself is looked at.
WalkToDirectParents ==
  /\ At("walk")
  /\ \E n \in cmd.pending :
       IF n \in cmd.visited THEN Step([cmd EXCEPT !.pending = @ \ {n}])
       ELSE IF IsAgent(cmd.graph[n]) /\ n \notin cmd.request.agents THEN Refuse
       ELSE Step([cmd EXCEPT !.pending = (@ \ {n}) \cup
                    IF n \in cmd.request.agents THEN cmd.graph[n].parents ELSE {},
                             !.visited = @ \cup {n}])

\* Slip: a node that was visited stays pending.
WalkWithoutPop ==
  /\ At("walk")
  /\ \E n \in cmd.pending :
       IF n \in cmd.visited THEN Step(cmd)
       ELSE IF IsAgent(cmd.graph[n]) /\ n \notin cmd.request.agents THEN Refuse
       ELSE Step([cmd EXCEPT !.pending = (@ \ {n}) \cup cmd.graph[n].parents,
                             !.visited = @ \cup {n}])

\* _dependency_databases, one turn of its loop.
Walk ==
  /\ At("walk")
  /\ \E n \in cmd.pending :
       IF n \in cmd.visited THEN Step([cmd EXCEPT !.pending = @ \ {n}])
       ELSE IF IsAgent(cmd.graph[n]) /\ n \notin cmd.request.agents THEN Refuse
       ELSE Step([cmd EXCEPT !.pending = (@ \ {n}) \cup cmd.graph[n].parents,
                             !.visited = @ \cup {n}])

Stages == UNION {cmd.graph[n].stages : n \in cmd.request.agents}
ResourceDatabases ==
  Databases({cmd.graph[n].at : n \in {m \in cmd.visited : cmd.graph[m].kind # "absent"}})
    \cup Stages

Validate ==
  /\ At("walk")
  /\ cmd.pending = {}
  /\ IF cmd.request.targetAllowed /\ ResourceDatabases \subseteq cmd.request.databases
     THEN Step([cmd EXCEPT !.pc = "upload", !.uploads = Stages])
     ELSE Refuse

\* A skill folder, or the connection, is missing.
PlanFails == At("walk") /\ cmd.pending = {} /\ Refuse
-----------------------------------------------------------------------------
(* apply_deploy_plan. *)

Upload ==
  /\ At("upload")
  /\ \E d \in cmd.uploads :
       /\ effects' = [effects EXCEPT !.stages = @ \cup {d}]
       /\ cmd' = [cmd EXCEPT !.uploads = @ \ {d}]
  /\ UNCHANGED <<project, manifest, build, report, seen, counters>>

UploadFails ==
  /\ At("upload")
  /\ \E d \in cmd.uploads :
       effects' \in {effects, [effects EXCEPT !.stages = @ \cup {d}]}
  /\ End("partial_failure", {})
  /\ UNCHANGED <<project, manifest, build, seen, counters>>

\* run_dbt_build; dbt parses the project as it is now.
StartBuild ==
  /\ At("upload")
  /\ cmd.uploads = {}
  /\ cmd' = [cmd EXCEPT !.pc = "build"]
  /\ build' = [NoBuild EXCEPT !.graph = project,
                              !.todo = Selection(project, cmd.request.agents)]
  /\ UNCHANGED <<project, manifest, effects, report, seen, counters>>

Parents(n) == build.graph[n].parents
Ready(n) ==
  /\ At("build") /\ n \in build.todo
  /\ Parents(n) \cap (build.todo \cup build.bad) = {}
  /\ \A m \in Parents(n) : build.active[m] = "no"
Active(n, step) == At("build") /\ build.active[n] = step

Running(b, e) ==
  /\ build' = b /\ effects' = e
  /\ UNCHANGED <<project, manifest, cmd, report, seen, counters>>
Begins(n) == [build EXCEPT !.todo = @ \ {n}]
Fails(b, n) == [b EXCEPT !.active[n] = "no", !.bad = @ \cup {n}]

\* An ordinary model is built, or fails with or without an effect.
RunModel(n) ==
  /\ Ready(n)
  /\ ~IsAgent(build.graph[n])
  /\ LET written == [effects EXCEPT !.relations = @ \cup {build.graph[n].at}]
     IN  \/ Running([Begins(n) EXCEPT !.done = @ \cup {n}], written)
         \/ \E e \in {effects, written} : Running(Fails(Begins(n), n), e)

\* Slip: the approved names are a list, not a map.
ApprovedName(n) == \E m \in cmd.request.agents : build.graph[n].at = Planned(m)

\* cortex_agent: the resolved name is the one approved for this unique_id.
Approved(n) == n \in cmd.request.agents /\ build.graph[n].at = Planned(n)

StartAgent(n) ==
  /\ Ready(n)
  /\ IsAgent(build.graph[n])
  /\ Running(IF Approved(n) THEN [Begins(n) EXCEPT !.active[n] = "commit"]
             ELSE Fails(Begins(n), n), effects)

\* A phase takes effect and is logged; or fails, or its acknowledgement is lost.
Phase(n, phase, next) ==
  LET item == <<phase, build.graph[n].at>>
      done == [effects EXCEPT !.agents = @ \cup {item}]
  IN  \/ Running([build EXCEPT !.active[n] = next, !.log = @ \cup {item}], done)
      \/ \E e \in {effects, done} : Running(Fails(build, n), e)

\* Slip: an unchanged Agent is left alone, LIVE included.
CommitOrReturn(n) ==
  /\ Active(n, "commit")
  /\ \/ Phase(n, "version_committed", "live")
     \/ Running([build EXCEPT !.active[n] = "finish"], effects)

CommitAgent(n) ==
  /\ Active(n, "commit")
  /\ \/ Phase(n, "version_committed", "live")
     \/ Running([build EXCEPT !.active[n] = "live"], effects) \* unchanged content

ReconcileLive(n) == Active(n, "live") /\ Phase(n, "live_reconciled", "finish")

\* Comment, profile and post-hooks.
FinishAgent(n) ==
  /\ Active(n, "finish")
  /\ \/ Running([build EXCEPT !.active[n] = "no", !.done = @ \cup {n}], effects)
     \/ Running(Fails(build, n), effects)

\* dbt skips what depends on a failed node.
Skip(n) ==
  /\ At("build") /\ n \in build.todo
  /\ Parents(n) \cap build.bad # {}
  /\ Running(Fails(Begins(n), n), effects)

BuildEnded == build.todo = {} /\ \A n \in Node : build.active[n] = "no"

\* Slip: phases are told apart by name only.
PhasesByName == {item \in build.log : item = CHOOSE i \in build.log : i[1] = item[1]}

\* _dbt_phases.
Phases == build.log
\* Slip: the exit status of dbt is enough.
NothingMissing == {}

Missing == {n \in cmd.request.agents : <<"live_reconciled", Planned(n)>> \notin Phases}

Collect ==
  /\ At("build")
  /\ BuildEnded
  /\ End(IF build.bad = {} /\ Missing = {} THEN "verified" ELSE "partial_failure", Phases)
  /\ UNCHANGED <<project, manifest, build, effects, seen, counters>>

\* dbt cannot parse, or is killed: it exits with an error.
BuildDies ==
  /\ At("build")
  /\ End("partial_failure", Phases)
  /\ UNCHANGED <<project, manifest, build, effects, seen, counters>>

\* The command is killed, with its dbt.
Killed ==
  /\ ~At("idle")
  /\ cmd' = [cmd EXCEPT !.pc = "idle"]
  /\ UNCHANGED <<project, manifest, build, effects, report, seen, counters>>
-----------------------------------------------------------------------------
(* Other people. *)

EditProject ==
  /\ changes < MaxChanges
  /\ changes' = changes + 1
  /\ project' \in Graphs
  /\ seen' = seen \cup {project'}
  /\ UNCHANGED <<manifest, cmd, build, effects, report, deploys>>

AnotherWritesManifest ==
  /\ changes < MaxChanges
  /\ changes' = changes + 1
  /\ manifest' \in Elsewhere
  /\ seen' = seen \cup {manifest'}
  /\ cmd' = [cmd EXCEPT !.rewritten = TRUE]
  /\ UNCHANGED <<project, build, effects, report, deploys>>

Rest == At("idle") /\ deploys = MaxDeploys /\ UNCHANGED vars

Python ==
  \/ ParseWrites \/ ParseWritesNothing \/ ParseFails \/ Load \/ LoadStale
  \/ Select \/ Walk \/ Validate \/ PlanFails
  \/ Upload \/ UploadFails \/ StartBuild \/ Collect
Dbt ==
  \E n \in Node :
    RunModel(n) \/ StartAgent(n) \/ CommitAgent(n) \/ ReconcileLive(n)
      \/ FinishAgent(n) \/ Skip(n)

Init ==
  /\ project \in Graphs /\ manifest \in Graphs \cup {NoGraph}
  /\ cmd = Idle /\ build = NoBuild /\ effects = NoEffects /\ report = NoReport
  /\ seen = {}
  /\ deploys = 0 /\ changes = 0

Next ==
  \/ StartDeploy \/ Python \/ Dbt \/ BuildDies \/ Killed
  \/ EditProject \/ AnotherWritesManifest \/ Rest

Spec == Init /\ [][Next]_vars
\* Both processes are sequential code that goes on while it lives.
FairSpec == Spec /\ WF_vars(Python) /\ WF_vars(Dbt)
-----------------------------------------------------------------------------
(* Properties. *)

Graph == [Node -> Resource]
Item == AgentPhase \X Place
Steps == {"idle", "parse", "load", "select", "walk", "upload", "build"}
Status == {"none", "refused", "partial_failure", "verified"}
Loaded == cmd.pc \in {"select", "walk", "upload", "build"}

CmdType ==
  [pc : Steps, request : Request \cup {NoRequest}, rewritten : BOOLEAN,
   graph : Graph \cup {NoGraph}, pending : SUBSET Node, visited : SUBSET Node,
   uploads : SUBSET Database]
BuildType ==
  [graph : Graph \cup {NoGraph}, todo : SUBSET Node,
   active : [Node -> {"no", "commit", "live", "finish"}],
   done : SUBSET Node, bad : SUBSET Node, log : SUBSET Item]
EffectsType == [agents : SUBSET Item, relations : SUBSET Place, stages : SUBSET Database]
ReportType == [status : Status, agents : SUBSET Place, phases : SUBSET Item]

\* Types; a command that went past the parse has a manifest, a build a graph.
TypeOK ==
  /\ project \in Graph /\ manifest \in Graph \cup {NoGraph} /\ seen \subseteq Graph
  /\ cmd \in CmdType /\ build \in BuildType
  /\ effects \in EffectsType /\ report \in ReportType
  /\ deploys \in 0..MaxDeploys /\ changes \in 0..MaxChanges
  /\ Loaded => cmd.graph \in Graph
  /\ At("build") => build.graph \in Graph

\* A plan is made of what the project was, or of what another command wrote,
\* since the deploy began: never of a manifest that was left behind, also when
\* dbt parse exits 0 without writing one.
PlanIsFresh == Loaded => cmd.graph \in seen

\* VERIFIED means that this deploy itself reconciled LIVE of every planned Agent,
\* whatever became of the project between the plan and the build.
VerifiedReconciled ==
  report.status = "verified" =>
    \A p \in report.agents : <<"live_reconciled", p>> \in effects.agents

\* The Agents a deploy changes are the approved ones, each under the name and by
\* the node it was approved with, in allowed databases: an edit of the project,
\* or the manifest of another target, redirects nothing and adds no Agent.
OnlyApprovedAgents ==
  \A item \in effects.agents :
    \E n \in cmd.request.agents :
      /\ item[2] = Planned(n) /\ item[2] = build.graph[n].at
      /\ DatabaseOf[item[2]] \in cmd.request.databases

\* Skills go to allowed databases only; and so does every model that dbt builds
\* for the Agents, unless the project changed after the plan was made.
ReviewedResources ==
  /\ effects.stages \subseteq cmd.request.databases
  /\ build.graph = cmd.graph => Databases(effects.relations) \subseteq cmd.request.databases

\* A report names real effects only; an effect it leaves out is of an Agent whose
\* node failed, and every other Agent's phases survive that failure.
NothingHidden ==
  report.status \in {"verified", "partial_failure"} =>
    /\ report.phases \subseteq effects.agents
    /\ \A item \in effects.agents \ report.phases :
         \E n \in build.bad : build.graph[n].at = item[2]

\* A build in which nothing failed, of the project that was planned, is verified:
\* also when an Agent was up to date already.
CleanIsVerified ==
  [][Collect /\ build.bad = {} /\ build.graph = cmd.graph
       => report'.status = "verified"]_vars

\* A deploy ends: the walk over the graph does, and dbt runs or skips every node.
DeployEnds == ~At("idle") ~> At("idle")
=============================================================================
