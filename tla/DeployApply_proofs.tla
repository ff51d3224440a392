------------------------- MODULE DeployApply_proofs -------------------------
(***************************************************************************)
(* Theorems about DeployApply for every project, every request and every   *)
(* bound.                                                                  *)
(***************************************************************************)
EXTENDS DeployApply, TLAPS

-----------------------------------------------------------------------------
(* The inductive invariant. *)

\* What is written between the start and the load is seen, and so is the plan.
Fresh ==
  /\ cmd.pc # "idle" => project \in seen
  /\ cmd.pc \in {"parse", "load"} /\ cmd.rewritten => manifest \in seen
  /\ Loaded => cmd.graph \in seen

\* Nothing is built before the build.
Untouched ==
  cmd.pc \notin {"idle", "build"} =>
    build = NoBuild /\ effects.agents = {} /\ effects.relations = {}

\* The walk leaves out nothing it has reached.
Walked ==
  /\ cmd.pc \in {"parse", "load", "select"} => cmd.visited = {}
  /\ cmd.pc = "walk" =>
       /\ cmd.request.agents \subseteq cmd.pending \cup cmd.visited
       /\ \A n \in cmd.visited : cmd.graph[n].parents \subseteq cmd.pending \cup cmd.visited

Existing ==
  cmd.pc \in {"walk", "upload", "build"} => cmd.request.agents \subseteq Agents(cmd.graph)

\* What a validated plan may touch is allowed.
Validated ==
  cmd.pc \in {"upload", "build"} =>
    /\ \A n \in cmd.request.agents : DatabaseOf[Planned(n)] \in cmd.request.databases
    /\ \A n \in Selection(cmd.graph, cmd.request.agents) :
         DatabaseOf[Planned(n)] \in cmd.request.databases
    /\ cmd.uploads \subseteq cmd.request.databases

\* A running build: every selected node is somewhere, Agents that run are approved,
\* and no Agent is done without LIVE.
Scheduled ==
  cmd.pc = "build" =>
    LET selection == Selection(build.graph, cmd.request.agents)
        active == {n \in Node : build.active[n] # "no"}
    IN  /\ build.todo \subseteq selection
        /\ selection \subseteq build.todo \cup active \cup build.done \cup build.bad
        /\ \A n \in active : Approved(n)
        /\ \A n \in Node :
             build.active[n] = "finish" \/ (n \in build.done /\ IsAgent(build.graph[n]))
               => <<"live_reconciled", build.graph[n].at>> \in build.log

LogSound ==
  /\ build.log \subseteq effects.agents
  /\ \A item \in effects.agents \ build.log :
       \E n \in build.bad : build.graph[n].at = item[2]

ReportSound ==
  /\ report.status # "none" => cmd.pc = "idle"
  /\ report.status \in {"verified", "partial_failure"} => report.phases = build.log
  /\ report.status = "verified" =>
       \A p \in report.agents : <<"live_reconciled", p>> \in report.phases

Typed == TypeOK /\ Fresh

SafeInv ==
  /\ Typed /\ Untouched /\ Walked /\ Existing /\ Validated /\ Scheduled
  /\ LogSound /\ ReportSound /\ OnlyApprovedAgents /\ ReviewedResources
-----------------------------------------------------------------------------
(* Type correctness. *)

LEMMA NullsTyped ==
  /\ Idle \in CmdType /\ NoBuild \in BuildType
  /\ NoEffects \in EffectsType /\ NoReport \in ReportType
  BY DEF Idle, CmdType, NoBuild, BuildType, NoEffects, EffectsType, NoReport, ReportType,
         Steps, Status

\* What the type invariant says of the fields that are used.
LEMMA CmdTyped ==
  ASSUME TypeOK
  PROVE  /\ cmd.pc \in Steps
         /\ cmd.request \in Request \cup {NoRequest}
         /\ cmd.request.agents \subseteq Node
         /\ cmd.request.databases \subseteq Database
         /\ cmd.pending \subseteq Node /\ cmd.visited \subseteq Node
         /\ cmd.uploads \subseteq Database
  BY RequestsAreKnown DEF TypeOK, CmdType, NoRequest

LEMMA BuildTyped ==
  ASSUME TypeOK
  PROVE  /\ build.todo \subseteq Node /\ build.done \subseteq Node
         /\ build.bad \subseteq Node /\ build.log \subseteq Item
         /\ build.active \in [Node -> {"no", "commit", "live", "finish"}]
  BY DEF TypeOK, BuildType

LEMMA ResourceTyped ==
  ASSUME NEW g \in Graph, NEW n \in Node
  PROVE  /\ g[n].at \in Place /\ g[n].parents \subseteq Node
         /\ g[n].stages \subseteq Database /\ DatabaseOf[g[n].at] \in Database
  BY PlacesAreInDatabases DEF Graph, Resource

LEMMA InitTyped == Init => Typed
<1> SUFFICES ASSUME Init PROVE Typed
  OBVIOUS
<1>1. Idle.pc = "idle" /\ ~Idle.rewritten
  BY DEF Idle
<1>2. TypeOK
  BY <1>1, NullsTyped, GraphsAreKnown, BoundsAreNatural
     DEF Init, TypeOK, Loaded, At, Graph
<1> QED BY <1>1, <1>2 DEF Init, Typed, Fresh, Loaded

\* The steps of the command that only change its own variables.
LEMMA StepTyped ==
  ASSUME Typed, NEW c \in CmdType, Step(c), c.pc # "idle" => cmd.pc # "idle",
         c.pc \in {"parse", "load"} =>
           cmd.pc \in {"parse", "load"} /\ c.rewritten = cmd.rewritten,
         c.pc \in {"select", "walk", "upload", "build"} => c.graph \in seen,
         c.pc # "build"
  PROVE  Typed'
<1>1. c.pc \in {"select", "walk", "upload", "build"} => c.graph \in Graph
  BY DEF Typed, TypeOK
<1>2. TypeOK'
  BY <1>1 DEF Step, Typed, TypeOK, Loaded, At, counters
<1>3. Fresh'
  BY DEF Step, Typed, Fresh, Loaded
<1> QED BY <1>2, <1>3 DEF Typed

\* The steps that end the command.
LEMMA EndTyped ==
  ASSUME Typed, cmd' = [cmd EXCEPT !.pc = "idle"],
         build' = build, report' \in ReportType, effects' \in EffectsType,
         UNCHANGED <<project, manifest, seen, counters>>
  PROVE  Typed'
<1>1. cmd' \in CmdType /\ cmd'.pc = "idle"
  BY DEF Typed, TypeOK, CmdType, Steps
<1>2. TypeOK'
  BY <1>1 DEF Typed, TypeOK, Loaded, At, counters
<1>3. Fresh'
  BY <1>1 DEF Fresh, Loaded
<1> QED BY <1>2, <1>3 DEF Typed

LEMMA RefuseTyped ==
  ASSUME Typed, Refuse
  PROVE  Typed'
<1>1. report' \in ReportType /\ effects' \in EffectsType
  BY NullsTyped DEF Refuse, ReportType, NoReport, Status, Typed, TypeOK
<1> QED BY <1>1, EndTyped DEF Refuse

LEMMA ReportTyped ==
  ASSUME Typed, Loaded, NEW status \in Status, NEW phases \in SUBSET Item,
         End(status, phases), build' = build, effects' \in EffectsType,
         UNCHANGED <<project, manifest, seen, counters>>
  PROVE  Typed'
<1>1. \A n \in cmd.request.agents : Planned(n) \in Place
  BY CmdTyped, ResourceTyped DEF Typed, TypeOK, Planned
<1>2. report' \in ReportType
  BY <1>1 DEF End, ReportType
<1> QED BY <1>2, EndTyped DEF End

\* The steps of dbt.
LEMMA RunningTyped ==
  ASSUME Typed, At("build"), NEW b \in BuildType, b.graph = build.graph,
         NEW e \in EffectsType, Running(b, e)
  PROVE  Typed'
<1>1. TypeOK'
  BY DEF Running, Typed, TypeOK, Loaded, At, counters
<1>2. Fresh'
  BY DEF Running, Typed, Fresh, Loaded
<1> QED BY <1>1, <1>2 DEF Typed

LEMMA PhaseTyped ==
  ASSUME Typed, At("build"), NEW n \in Node, NEW phase \in AgentPhase,
         NEW next \in {"live", "finish"}, Phase(n, phase, next)
  PROVE  Typed'
<1> DEFINE item == <<phase, build.graph[n].at>>
           done == [effects EXCEPT !.agents = @ \cup {item}]
           after == [build EXCEPT !.active[n] = next, !.log = @ \cup {item}]
<1>1. item \in Item
  BY ResourceTyped DEF Typed, TypeOK, Item
<1>2. Running(after, done) \/ \E e \in {effects, done} : Running(Fails(build, n), e)
  BY DEF Phase
<1> HIDE DEF item
<1>3. build \in BuildType /\ effects \in EffectsType
  BY DEF Typed, TypeOK
<1>4. done \in EffectsType
  BY <1>1, <1>3 DEF EffectsType
<1>5. Fails(build, n) \in BuildType /\ Fails(build, n).graph = build.graph
  BY <1>3 DEF BuildType, Fails
<1>6. after \in BuildType /\ after.graph = build.graph
  <2>1. next \in {"no", "commit", "live", "finish"}
    OBVIOUS
  <2>2. [build.active EXCEPT ![n] = next] \in [Node -> {"no", "commit", "live", "finish"}]
    BY <1>3, <2>1 DEF BuildType
  <2>3. build.log \cup {item} \in SUBSET Item
    BY <1>1, <1>3 DEF BuildType
  <2>4. after = [build EXCEPT !.active = [build.active EXCEPT ![n] = next],
                              !.log = build.log \cup {item}]
    OBVIOUS
  <2> QED BY <1>3, <2>2, <2>3, <2>4 DEF BuildType
<1> HIDE DEF after, done
<1> QED BY <1>2, <1>3, <1>4, <1>5, <1>6, RunningTyped

LEMMA DbtTyped ==
  ASSUME Typed, NEW n \in Node,
         \/ RunModel(n) \/ StartAgent(n) \/ CommitAgent(n) \/ ReconcileLive(n)
         \/ FinishAgent(n) \/ Skip(n)
  PROVE  Typed'
<1>1. At("build")
  BY DEF RunModel, StartAgent, CommitAgent, ReconcileLive, FinishAgent, Skip, Ready, Active
<1>2. build \in BuildType /\ effects \in EffectsType /\ build.graph \in Graph
  BY <1>1 DEF Typed, TypeOK
<1>3. build.graph[n].at \in Place
  BY <1>2, ResourceTyped
<1>4. /\ Fails(build, n) \in BuildType /\ Fails(build, n).graph = build.graph
      /\ Fails(Begins(n), n) \in BuildType /\ Fails(Begins(n), n).graph = build.graph
  BY <1>2 DEF BuildType, Fails, Begins
<1>5. CASE RunModel(n)
  <2>1. [effects EXCEPT !.relations = @ \cup {build.graph[n].at}] \in EffectsType
    BY <1>2, <1>3 DEF EffectsType
  <2>2. /\ [Begins(n) EXCEPT !.done = @ \cup {n}] \in BuildType
        /\ [Begins(n) EXCEPT !.done = @ \cup {n}].graph = build.graph
    BY <1>2 DEF BuildType, Begins
  <2> QED BY <1>1, <1>2, <1>4, <1>5, <2>1, <2>2, RunningTyped DEF RunModel
<1>6. CASE StartAgent(n)
  <2>1. /\ [Begins(n) EXCEPT !.active[n] = "commit"] \in BuildType
        /\ [Begins(n) EXCEPT !.active[n] = "commit"].graph = build.graph
    BY <1>2 DEF BuildType, Begins
  <2> QED BY <1>1, <1>2, <1>4, <1>6, <2>1, RunningTyped DEF StartAgent
<1>7. CASE CommitAgent(n)
  <2>1. /\ [build EXCEPT !.active[n] = "live"] \in BuildType
        /\ [build EXCEPT !.active[n] = "live"].graph = build.graph
    BY <1>2 DEF BuildType
  <2> QED BY <1>1, <1>2, <1>7, <2>1, RunningTyped, PhaseTyped DEF CommitAgent, AgentPhase
<1>8. CASE ReconcileLive(n)
  BY <1>1, <1>8, PhaseTyped DEF ReconcileLive, AgentPhase
<1>9. CASE FinishAgent(n)
  <2>1. /\ [build EXCEPT !.active[n] = "no", !.done = @ \cup {n}] \in BuildType
        /\ [build EXCEPT !.active[n] = "no", !.done = @ \cup {n}].graph = build.graph
    BY <1>2 DEF BuildType
  <2> QED BY <1>1, <1>2, <1>4, <1>9, <2>1, RunningTyped DEF FinishAgent
<1>10. CASE Skip(n)
  BY <1>1, <1>2, <1>4, <1>10, RunningTyped DEF Skip
<1> QED BY <1>5, <1>6, <1>7, <1>8, <1>9, <1>10

LEMMA PythonTyped ==
  ASSUME Typed, Python
  PROVE  Typed'
<1> USE DEF At
<1>1. cmd \in CmdType
  BY DEF Typed, TypeOK
<1>2. CASE ParseWrites
  <2>1. cmd' \in CmdType /\ cmd'.pc = "load"
    BY <1>1, <1>2 DEF ParseWrites, CmdType, Steps
  <2>2. TypeOK'
    BY <1>2, <2>1 DEF ParseWrites, Typed, TypeOK, Loaded, counters
  <2>3. Fresh'
    BY <1>2, <2>1 DEF ParseWrites, Typed, Fresh, Loaded
  <2> QED BY <2>2, <2>3 DEF Typed
<1>3. CASE ParseWritesNothing
  <2>1. [cmd EXCEPT !.pc = "load"] \in CmdType
    BY <1>1 DEF CmdType, Steps
  <2>2. /\ [cmd EXCEPT !.pc = "load"].pc = "load"
        /\ [cmd EXCEPT !.pc = "load"].rewritten = cmd.rewritten
    BY <1>1 DEF CmdType
  <2> QED BY <1>3, <2>1, <2>2, StepTyped DEF ParseWritesNothing
<1>4. CASE Load
  <2> DEFINE c == [cmd EXCEPT !.pc = "select", !.graph = manifest]
  <2>1. c \in CmdType /\ c.pc = "select" /\ c.graph = manifest
    BY <1>1 DEF CmdType, Steps, Typed, TypeOK
  <2>2. manifest \in seen
    BY <1>4 DEF Load, Typed, Fresh
  <2> HIDE DEF c
  <2>3. Step(c) /\ cmd.pc = "load"
    BY <1>4 DEF Load, c
  <2> QED BY <2>1, <2>2, <2>3, StepTyped
<1>5. CASE Select
  <2> DEFINE c == [cmd EXCEPT !.pc = "walk", !.pending = cmd.request.agents]
  <2>1. c \in CmdType /\ c.pc = "walk" /\ c.graph = cmd.graph
    BY <1>1, CmdTyped DEF CmdType, Steps, Typed
  <2>2. cmd.pc = "select" /\ cmd.graph \in seen
    BY <1>5 DEF Select, Typed, Fresh, Loaded
  <2>3. Step(c) \/ Refuse
    BY <1>5 DEF Select
  <2> HIDE DEF c
  <2> QED BY <2>1, <2>2, <2>3, StepTyped, RefuseTyped
<1>6. CASE Walk
  <2>1. cmd.pc = "walk" /\ cmd.graph \in seen /\ cmd.graph \in Graph
    BY <1>6 DEF Walk, Typed, Fresh, Loaded, TypeOK
  <2>2. PICK n \in cmd.pending :
          \/ Step([cmd EXCEPT !.pending = @ \ {n}])
          \/ Refuse
          \/ Step([cmd EXCEPT !.pending = (@ \ {n}) \cup cmd.graph[n].parents,
                              !.visited = @ \cup {n}])
    BY <1>6 DEF Walk
  <2>3. n \in Node /\ cmd.graph[n].parents \subseteq Node
    BY <2>1, <2>2, CmdTyped, ResourceTyped DEF Typed
  <2> DEFINE c1 == [cmd EXCEPT !.pending = @ \ {n}]
             c2 == [cmd EXCEPT !.pending = (@ \ {n}) \cup cmd.graph[n].parents,
                               !.visited = @ \cup {n}]
  <2>4. c1 \in CmdType /\ c1.pc = "walk" /\ c1.graph = cmd.graph
    BY <1>1, <2>1 DEF CmdType
  <2>5. c2 \in CmdType /\ c2.pc = "walk" /\ c2.graph = cmd.graph
    BY <1>1, <2>1, <2>3 DEF CmdType
  <2> HIDE DEF c1, c2
  <2>6. Step(c1) \/ Refuse \/ Step(c2)
    BY <2>2 DEF c1, c2
  <2> QED BY <2>1, <2>4, <2>5, <2>6, StepTyped, RefuseTyped
<1>7. CASE Validate
  <2> DEFINE c == [cmd EXCEPT !.pc = "upload", !.uploads = Stages]
  <2>1. cmd.pc = "walk" /\ cmd.graph \in seen /\ cmd.graph \in Graph
    BY <1>7 DEF Validate, Typed, Fresh, Loaded, TypeOK
  <2>2. Stages \subseteq Database
    BY <2>1, CmdTyped, ResourceTyped DEF Stages, Typed
  <2>3. c \in CmdType /\ c.pc = "upload" /\ c.graph = cmd.graph
    BY <1>1, <2>2 DEF CmdType, Steps
  <2>4. Step(c) \/ Refuse
    BY <1>7 DEF Validate
  <2> HIDE DEF c
  <2> QED BY <2>1, <2>3, <2>4, StepTyped, RefuseTyped
<1>8. CASE Upload
  <2>1. PICK d \in cmd.uploads : /\ effects' = [effects EXCEPT !.stages = @ \cup {d}]
                                 /\ cmd' = [cmd EXCEPT !.uploads = @ \ {d}]
    BY <1>8 DEF Upload
  <2>2. cmd' \in CmdType /\ cmd'.pc = "upload" /\ cmd'.graph = cmd.graph /\ cmd.pc = "upload"
    BY <1>1, <1>8, <2>1 DEF Upload, CmdType
  <2>3. effects' \in EffectsType
    BY <2>1, CmdTyped DEF Typed, TypeOK, EffectsType
  <2>4. TypeOK'
    BY <1>8, <2>2, <2>3 DEF Upload, Typed, TypeOK, Loaded, counters
  <2>5. Fresh'
    BY <1>8, <2>2 DEF Upload, Typed, Fresh, Loaded
  <2> QED BY <2>4, <2>5 DEF Typed
<1>9. CASE UploadFails
  <2>1. effects' \in EffectsType
    BY <1>9, CmdTyped DEF UploadFails, Typed, TypeOK, EffectsType
  <2> QED BY <1>9, <2>1, ReportTyped DEF UploadFails, Loaded, Status
<1>10. CASE StartBuild
  <2>1. cmd' \in CmdType /\ cmd'.pc = "build" /\ cmd'.graph = cmd.graph /\ cmd.pc = "upload"
    BY <1>1, <1>10 DEF StartBuild, CmdType, Steps
  <2>2. build' \in BuildType /\ build'.graph = project
    BY <1>10, NullsTyped DEF StartBuild, BuildType, Typed, TypeOK, Selection, Ancestry
  <2>3. TypeOK'
    BY <1>10, <2>1, <2>2 DEF StartBuild, Typed, TypeOK, Loaded, counters
  <2>4. Fresh'
    BY <1>10, <2>1 DEF StartBuild, Typed, Fresh, Loaded
  <2> QED BY <2>3, <2>4 DEF Typed
<1>11. CASE Collect
  <2>1. Phases \subseteq Item
    BY BuildTyped DEF Phases, Typed
  <2>2. effects' \in EffectsType
    BY <1>11 DEF Collect, Typed, TypeOK
  <2> QED BY <1>11, <2>1, <2>2, ReportTyped DEF Collect, Loaded, Status
<1>12. CASE ParseFails \/ LoadStale \/ PlanFails
  BY <1>12, RefuseTyped DEF ParseFails, LoadStale, PlanFails
<1> QED BY <1>2, <1>3, <1>4, <1>5, <1>6, <1>7, <1>8, <1>9, <1>10, <1>11, <1>12 DEF Python

LEMMA NextTyped ==
  ASSUME Typed, [Next]_vars
  PROVE  Typed'
<1> USE DEF At
<1>1. cmd \in CmdType
  BY DEF Typed, TypeOK
<1>2. CASE StartDeploy
  <2>1. PICK r \in Request : cmd' = [Idle EXCEPT !.pc = "parse", !.request = r]
    BY <1>2 DEF StartDeploy
  <2>2. cmd' \in CmdType /\ cmd'.pc = "parse" /\ ~cmd'.rewritten
    BY <2>1 DEF Idle, CmdType, Steps
  <2>3. TypeOK'
    BY <1>2, <2>2, NullsTyped, BoundsAreNatural
       DEF StartDeploy, Typed, TypeOK, Loaded, counters
  <2>4. Fresh'
    BY <1>2, <2>2 DEF StartDeploy, Fresh, Loaded
  <2> QED BY <2>3, <2>4 DEF Typed
<1>3. CASE BuildDies
  <2>1. Phases \subseteq Item
    BY BuildTyped DEF Phases, Typed
  <2>2. effects' \in EffectsType
    BY <1>3 DEF BuildDies, Typed, TypeOK
  <2> QED BY <1>3, <2>1, <2>2, ReportTyped DEF BuildDies, Loaded, Status
<1>4. CASE Killed
  BY <1>4, EndTyped DEF Killed, Typed, TypeOK
<1>5. CASE EditProject
  <2>1. project' \in Graph /\ seen' \subseteq Graph
    BY <1>5, GraphsAreKnown DEF EditProject, Typed, TypeOK, Graph
  <2>2. TypeOK'
    BY <1>5, <2>1, BoundsAreNatural DEF EditProject, Typed, TypeOK, Loaded
  <2>3. Fresh'
    BY <1>5 DEF EditProject, Typed, Fresh, Loaded
  <2> QED BY <2>2, <2>3 DEF Typed
<1>6. CASE AnotherWritesManifest
  <2>1. manifest' \in Graph /\ seen' \subseteq Graph
    BY <1>6, GraphsAreKnown DEF AnotherWritesManifest, Typed, TypeOK, Graph
  <2>2. cmd' \in CmdType /\ cmd'.pc = cmd.pc /\ cmd'.graph = cmd.graph
    BY <1>1, <1>6 DEF AnotherWritesManifest, CmdType
  <2>3. TypeOK'
    BY <1>6, <2>1, <2>2, BoundsAreNatural DEF AnotherWritesManifest, Typed, TypeOK, Loaded
  <2>4. Fresh'
    BY <1>6, <2>2 DEF AnotherWritesManifest, Typed, Fresh, Loaded
  <2> QED BY <2>3, <2>4 DEF Typed
<1>7. CASE UNCHANGED vars
  BY <1>7 DEF vars, counters, Typed, TypeOK, Fresh, Loaded
<1> QED BY <1>2, <1>3, <1>4, <1>5, <1>6, <1>7, PythonTyped, DbtTyped DEF Next, Dbt, Rest

\* Every variable keeps its type, whatever people do to the project and the manifest.
THEOREM TypeCorrect == Spec => []TypeOK
<1>1. Init => Typed
  BY InitTyped
<1>2. Typed /\ [Next]_vars => Typed'
  BY NextTyped
<1>3. Typed => TypeOK
  BY DEF Typed
<1> QED BY <1>1, <1>2, <1>3, PTL DEF Spec

\* No plan is made of a manifest that was left behind.
THEOREM FreshCorrect == Spec => []PlanIsFresh
<1>1. Init => Typed
  BY InitTyped
<1>2. Typed /\ [Next]_vars => Typed'
  BY NextTyped
<1>3. Typed => PlanIsFresh
  BY DEF Typed, Fresh, PlanIsFresh
<1> QED BY <1>1, <1>2, <1>3, PTL DEF Spec
-----------------------------------------------------------------------------
(* The walk and what dbt selects. *)

\* A set that holds the Agents and the parents of all its members holds all that
\* dbt builds for them: the least such set is part of it.
LEMMA ClosedCoversSelection ==
  ASSUME NEW g, NEW agents, NEW S \in SUBSET Node, agents \subseteq S, Closed(g, S)
  PROVE  Selection(g, agents) \subseteq S
<1>1. {m \in agents : g[m].kind # "absent"} \subseteq S
  OBVIOUS
<1> QED BY <1>1 DEF Selection, Ancestry

LEMMA SelectsNamed ==
  ASSUME NEW g, NEW agents \in SUBSET Node, NEW n \in agents,
         g[n].kind \notin {"source", "absent"}
  PROVE  n \in Selection(g, agents)
  BY DEF Selection, Ancestry

-----------------------------------------------------------------------------
(* Steps before the build, and steps that end the deploy. *)

LEMMA StepSafe ==
  ASSUME SafeInv, Typed', cmd.pc \notin {"idle", "build"}, cmd'.pc \notin {"idle", "build"},
         UNCHANGED <<build, report>>,
         effects'.agents = effects.agents, effects'.relations = effects.relations,
         effects'.stages \subseteq cmd'.request.databases,
         Walked', Existing', Validated'
  PROVE  SafeInv'
<1>1. build' = NoBuild /\ effects'.agents = {} /\ effects'.relations = {}
  BY DEF SafeInv, Untouched
<1>2. Untouched' /\ Scheduled'
  BY <1>1 DEF Untouched, Scheduled
<1>3. LogSound'
  BY <1>1 DEF LogSound, NoBuild
<1>4. ReportSound'
  BY DEF SafeInv, ReportSound
<1>5. OnlyApprovedAgents' /\ ReviewedResources'
  BY <1>1 DEF OnlyApprovedAgents, ReviewedResources, Databases
<1> QED BY <1>2, <1>3, <1>4, <1>5 DEF SafeInv

\* A step that changes the command only, and not its request.
LEMMA PlanningSafe ==
  ASSUME SafeInv, Typed', NEW c, Step(c), cmd.pc \notin {"idle", "build"},
         c.pc \notin {"idle", "build"}, c.request = cmd.request,
         Walked', Existing', Validated'
  PROVE  SafeInv'
<1>1. effects.stages \subseteq cmd.request.databases
  BY DEF SafeInv, ReviewedResources
<1> QED BY <1>1, StepSafe DEF Step

LEMMA EndSafe ==
  ASSUME SafeInv, Typed', cmd' = [cmd EXCEPT !.pc = "idle"], build' = build,
         effects'.agents = effects.agents, effects'.relations = effects.relations,
         effects'.stages \subseteq cmd.request.databases, ReportSound'
  PROVE  SafeInv'
<1>1. cmd'.pc = "idle" /\ cmd'.graph = cmd.graph /\ cmd'.request = cmd.request
  BY DEF SafeInv, Typed, TypeOK, CmdType
<1>2. Untouched' /\ Walked' /\ Existing' /\ Validated' /\ Scheduled'
  BY <1>1 DEF Untouched, Walked, Existing, Validated, Scheduled
<1>3. LogSound'
  BY DEF SafeInv, LogSound
<1>4. OnlyApprovedAgents' /\ ReviewedResources'
  BY <1>1 DEF SafeInv, OnlyApprovedAgents, ReviewedResources, Planned
<1> QED BY <1>2, <1>3, <1>4 DEF SafeInv

LEMMA RefuseSafe ==
  ASSUME SafeInv, Typed', Refuse
  PROVE  SafeInv'
<1>1. report'.status = "refused"
  BY DEF Refuse, NoReport
<1>2. cmd'.pc = "idle"
  BY DEF Refuse, SafeInv, Typed, TypeOK, CmdType
<1>3. ReportSound'
  BY <1>1, <1>2 DEF ReportSound
<1> QED BY <1>3, EndSafe DEF Refuse, SafeInv, ReviewedResources

\* The deploy reports a failure.
LEMMA FailureSafe ==
  ASSUME SafeInv, Typed', End("partial_failure", build.log), build' = build,
         effects'.agents = effects.agents, effects'.relations = effects.relations,
         effects'.stages \subseteq cmd.request.databases
  PROVE  SafeInv'
<1>1. report'.status = "partial_failure" /\ report'.phases = build'.log
  BY DEF End
<1>2. cmd'.pc = "idle"
  BY DEF End, SafeInv, Typed, TypeOK, CmdType
<1>3. ReportSound'
  BY <1>1, <1>2 DEF ReportSound
<1> QED BY <1>3, EndSafe DEF End

LEMMA WalkSafe ==
  ASSUME SafeInv, Typed', Walk
  PROVE  SafeInv'
<1>1. cmd \in CmdType /\ cmd.pc = "walk"
  BY DEF Walk, At, SafeInv, Typed, TypeOK
<1>2. PICK n \in cmd.pending :
        \/ n \in cmd.visited /\ Step([cmd EXCEPT !.pending = @ \ {n}])
        \/ Refuse
        \/ Step([cmd EXCEPT !.pending = (@ \ {n}) \cup cmd.graph[n].parents,
                            !.visited = @ \cup {n}])
  BY DEF Walk
<1>3. CASE n \in cmd.visited /\ Step([cmd EXCEPT !.pending = @ \ {n}])
  <2>1. /\ cmd'.pc = "walk" /\ cmd'.graph = cmd.graph /\ cmd'.request = cmd.request
        /\ cmd'.pending = cmd.pending \ {n} /\ cmd'.visited = cmd.visited
    BY <1>1, <1>3 DEF Step, CmdType
  <2>2. Walked' /\ Existing' /\ Validated'
    BY <1>1, <1>3, <2>1 DEF SafeInv, Walked, Existing, Validated
  <2> QED BY <1>1, <1>3, <2>1, <2>2, PlanningSafe DEF Step
<1>4. CASE Step([cmd EXCEPT !.pending = (@ \ {n}) \cup cmd.graph[n].parents,
                            !.visited = @ \cup {n}])
  <2>1. /\ cmd'.pc = "walk" /\ cmd'.graph = cmd.graph /\ cmd'.request = cmd.request
        /\ cmd'.pending = (cmd.pending \ {n}) \cup cmd.graph[n].parents
        /\ cmd'.visited = cmd.visited \cup {n}
    BY <1>1, <1>4 DEF Step, CmdType
  <2>2. Walked' /\ Existing' /\ Validated'
    BY <1>1, <2>1 DEF SafeInv, Walked, Existing, Validated
  <2> QED BY <1>1, <1>4, <2>1, <2>2, PlanningSafe DEF Step
<1> QED BY <1>2, <1>3, <1>4, RefuseSafe

\* The heart of ReviewedResources: with nothing pending, what was visited is closed,
\* so it covers what dbt will build of the same graph.
LEMMA ValidateSafe ==
  ASSUME SafeInv, Typed', Validate
  PROVE  SafeInv'
<1>1. cmd \in CmdType /\ cmd.pc = "walk" /\ cmd.pending = {}
  BY DEF Validate, At, SafeInv, Typed, TypeOK
<1>2. CASE Refuse
  BY <1>2, RefuseSafe
<1>3. CASE /\ ResourceDatabases \subseteq cmd.request.databases
           /\ Step([cmd EXCEPT !.pc = "upload", !.uploads = Stages])
  <2>1. /\ cmd'.pc = "upload" /\ cmd'.graph = cmd.graph /\ cmd'.request = cmd.request
        /\ cmd'.uploads = Stages
    BY <1>1, <1>3 DEF Step, CmdType
  <2>2. cmd.request.agents \subseteq cmd.visited /\ Closed(cmd.graph, cmd.visited)
    BY <1>1 DEF SafeInv, Walked, Closed
  <2>3. Selection(cmd.graph, cmd.request.agents) \subseteq cmd.visited
    BY <2>2, ClosedCoversSelection, CmdTyped DEF SafeInv, Typed
  <2>4. \A n \in cmd.visited :
          cmd.graph[n].kind # "absent" => DatabaseOf[Planned(n)] \in cmd.request.databases
    BY <1>3 DEF ResourceDatabases, Databases, Planned
  <2>5. \A n \in cmd.request.agents : cmd.graph[n].kind = "agent"
    BY <1>1 DEF SafeInv, Existing, Agents
  <2>6. Stages \subseteq cmd.request.databases
    BY <1>3 DEF ResourceDatabases
  <2>7. Validated'
    BY <2>1, <2>2, <2>3, <2>4, <2>5, <2>6 DEF Validated, Planned, Selection
  <2>8. Walked' /\ Existing'
    BY <1>1, <2>1 DEF SafeInv, Walked, Existing
  <2> QED BY <1>1, <1>3, <2>1, <2>7, <2>8, PlanningSafe DEF Step
<1> QED BY <1>2, <1>3 DEF Validate

LEMMA UploadSafe ==
  ASSUME SafeInv, Typed', Upload
  PROVE  SafeInv'
<1>1. cmd \in CmdType /\ effects \in EffectsType /\ cmd.pc = "upload"
  BY DEF Upload, At, SafeInv, Typed, TypeOK
<1>2. PICK d \in cmd.uploads : /\ effects' = [effects EXCEPT !.stages = @ \cup {d}]
                               /\ cmd' = [cmd EXCEPT !.uploads = @ \ {d}]
  BY DEF Upload
<1>3. /\ cmd'.pc = "upload" /\ cmd'.graph = cmd.graph /\ cmd'.request = cmd.request
      /\ cmd'.uploads \subseteq cmd.uploads
  BY <1>1, <1>2 DEF CmdType
<1>4. /\ effects'.agents = effects.agents /\ effects'.relations = effects.relations
      /\ effects'.stages = effects.stages \cup {d}
  BY <1>1, <1>2 DEF EffectsType
<1>5. effects'.stages \subseteq cmd'.request.databases
  BY <1>1, <1>2, <1>3, <1>4 DEF SafeInv, Validated, ReviewedResources
<1>6. Walked' /\ Existing' /\ Validated'
  BY <1>1, <1>3 DEF SafeInv, Walked, Existing, Validated, Planned
<1> QED BY <1>1, <1>3, <1>4, <1>5, <1>6, StepSafe DEF Upload

LEMMA UploadFailsSafe ==
  ASSUME SafeInv, Typed', UploadFails
  PROVE  SafeInv'
<1>1. effects \in EffectsType /\ cmd.pc = "upload"
  BY DEF UploadFails, At, SafeInv, Typed, TypeOK
<1>2. PICK d \in cmd.uploads : effects' \in {effects, [effects EXCEPT !.stages = @ \cup {d}]}
  BY DEF UploadFails
<1>3. /\ effects'.agents = effects.agents /\ effects'.relations = effects.relations
      /\ effects'.stages \subseteq effects.stages \cup {d}
  BY <1>1, <1>2 DEF EffectsType
<1>4. effects'.stages \subseteq cmd.request.databases
  BY <1>1, <1>2, <1>3 DEF SafeInv, Validated, ReviewedResources
<1>5. build.log = {}
  BY <1>1 DEF SafeInv, Untouched, NoBuild
<1> QED BY <1>3, <1>4, <1>5, FailureSafe DEF UploadFails

LEMMA StartBuildSafe ==
  ASSUME SafeInv, Typed', StartBuild
  PROVE  SafeInv'
<1>1. cmd \in CmdType /\ cmd.pc = "upload"
  BY DEF StartBuild, At, SafeInv, Typed, TypeOK
<1>2. cmd'.pc = "build" /\ cmd'.graph = cmd.graph /\ cmd'.request = cmd.request
      /\ cmd'.uploads = cmd.uploads
  BY <1>1 DEF StartBuild, CmdType
<1>3. /\ build'.graph = project /\ build'.todo = Selection(project, cmd.request.agents)
      /\ build'.active = [n \in Node |-> "no"] /\ build'.done = {} /\ build'.log = {}
  BY DEF StartBuild, NoBuild
<1>4. effects.agents = {} /\ effects.relations = {} /\ effects' = effects
  BY <1>1 DEF StartBuild, SafeInv, Untouched
<1>5. Scheduled'
  BY <1>2, <1>3 DEF Scheduled
<1>6. Untouched' /\ Walked' /\ Existing' /\ Validated'
  BY <1>1, <1>2 DEF SafeInv, Untouched, Walked, Existing, Validated, Planned
<1>7. LogSound'
  BY <1>3, <1>4 DEF LogSound
<1>8. ReportSound'
  BY <1>1 DEF StartBuild, SafeInv, ReportSound
<1>9. OnlyApprovedAgents' /\ ReviewedResources'
  BY <1>2, <1>4 DEF SafeInv, OnlyApprovedAgents, ReviewedResources, Databases
<1> QED BY <1>5, <1>6, <1>7, <1>8, <1>9 DEF SafeInv

LEMMA CollectSafe ==
  ASSUME SafeInv, Typed', Collect
  PROVE  SafeInv'
<1>1. /\ report'.agents = {Planned(n) : n \in cmd.request.agents}
      /\ report'.phases = build'.log
      /\ report'.status = "verified" => Missing = {}
      /\ report'.status \in {"verified", "partial_failure"}
  BY DEF Collect, End, Phases
<1>2. cmd'.pc = "idle"
  BY DEF Collect, End, SafeInv, Typed, TypeOK, CmdType
<1>3. build' = build
  BY DEF Collect
<1>4. ReportSound'
  BY <1>1, <1>2, <1>3 DEF ReportSound, Missing, Phases
<1> QED BY <1>3, <1>4, EndSafe DEF Collect, End, SafeInv, ReviewedResources

LEMMA PythonSafe ==
  ASSUME SafeInv, Typed', Python
  PROVE  SafeInv'
<1> USE DEF At
<1>1. cmd \in CmdType
  BY DEF SafeInv, Typed, TypeOK
<1>2. CASE ParseWrites
  <2>1. /\ cmd'.pc = "load" /\ cmd'.request = cmd.request /\ cmd.pc = "parse"
        /\ cmd'.visited = cmd.visited
    BY <1>1, <1>2 DEF ParseWrites, CmdType
  <2>2. Walked' /\ Existing' /\ Validated'
    BY <2>1 DEF SafeInv, Walked, Existing, Validated
  <2>3. effects' = effects /\ UNCHANGED <<build, report>>
    BY <1>2 DEF ParseWrites
  <2> QED BY <2>1, <2>2, <2>3, StepSafe DEF SafeInv, ReviewedResources
<1>3. CASE ParseWritesNothing
  <2> DEFINE c == [cmd EXCEPT !.pc = "load"]
  <2>1. /\ c.pc = "load" /\ c.request = cmd.request /\ c.visited = cmd.visited
        /\ cmd.pc = "parse" /\ Step(c)
    BY <1>1, <1>3 DEF ParseWritesNothing, CmdType
  <2>2. Walked' /\ Existing' /\ Validated'
    BY <2>1 DEF Step, SafeInv, Walked, Existing, Validated
  <2> HIDE DEF c
  <2> QED BY <2>1, <2>2, PlanningSafe
<1>4. CASE Load
  <2> DEFINE c == [cmd EXCEPT !.pc = "select", !.graph = manifest]
  <2>1. /\ c.pc = "select" /\ c.request = cmd.request /\ c.visited = cmd.visited
        /\ cmd.pc = "load" /\ Step(c)
    BY <1>1, <1>4 DEF Load, CmdType
  <2>2. Walked' /\ Existing' /\ Validated'
    BY <2>1 DEF Step, SafeInv, Walked, Existing, Validated
  <2> HIDE DEF c
  <2> QED BY <2>1, <2>2, PlanningSafe
<1>5. CASE Select
  <2>1. CASE Refuse
    BY <2>1, RefuseSafe
  <2>2. CASE /\ Selectable(cmd.graph, cmd.request.agents)
             /\ Step([cmd EXCEPT !.pc = "walk", !.pending = cmd.request.agents])
    <3> DEFINE c == [cmd EXCEPT !.pc = "walk", !.pending = cmd.request.agents]
    <3>1. /\ c.pc = "walk" /\ c.request = cmd.request /\ c.graph = cmd.graph
          /\ c.pending = cmd.request.agents /\ c.visited = cmd.visited
      BY <1>1 DEF CmdType
    <3>2. cmd.pc = "select" /\ Step(c)
      BY <1>5, <2>2 DEF Select
    <3> HIDE DEF c
    <3>3. cmd.visited = {}
      BY <3>2 DEF SafeInv, Walked
    <3>4. Walked' /\ Existing' /\ Validated'
      BY <2>2, <3>1, <3>2, <3>3 DEF Step, Walked, Existing, Validated, Selectable
    <3> QED BY <3>1, <3>2, <3>4, PlanningSafe
  <2> QED BY <1>5, <2>1, <2>2 DEF Select
<1>6. CASE ParseFails \/ LoadStale \/ PlanFails
  BY <1>6, RefuseSafe DEF ParseFails, LoadStale, PlanFails
<1> QED BY <1>2, <1>3, <1>4, <1>5, <1>6, WalkSafe, ValidateSafe, UploadSafe, UploadFailsSafe,
           StartBuildSafe, CollectSafe DEF Python
-----------------------------------------------------------------------------
(* Steps of dbt. *)

\* Where a node is in the build: waiting, running, built, or failed and skipped.
Placed(b, n) == n \in b.todo \/ b.active[n] # "no" \/ n \in b.done \/ n \in b.bad

\* When one node moves, the others stay scheduled.
LEMMA ScheduledMoves ==
  ASSUME SafeInv, cmd.pc = "build", cmd' = cmd, NEW n \in Node, NEW b, build' = b,
         b.graph = build.graph, build.log \subseteq b.log, b.todo \subseteq build.todo,
         \A m \in Node \ {n} :
           /\ Placed(build, m) => Placed(b, m)
           /\ b.active[m] = build.active[m]
           /\ m \in b.done => m \in build.done,
         Placed(b, n),
         b.active[n] # "no" => Approved(n),
         b.active[n] = "finish" \/ (n \in b.done /\ IsAgent(build.graph[n])) =>
           <<"live_reconciled", build.graph[n].at>> \in b.log
  PROVE  Scheduled'
<1> DEFINE S == Selection(build.graph, cmd.request.agents)
<1>1. S' = S /\ S \subseteq Node
  BY DEF Selection, Ancestry
<1>2. \A m \in S : Placed(build, m)
  BY <1>1 DEF SafeInv, Scheduled, Placed
<1>3. \A m \in S : Placed(b, m)
  BY <1>1, <1>2
<1>4. b.todo \subseteq S
  BY DEF SafeInv, Scheduled
<1>5. \A m \in Node : b.active[m] # "no" => Approved(m)
  BY DEF SafeInv, Scheduled
<1>6. \A m \in Node : b.active[m] # "no" => Approved(m)'
  BY <1>5 DEF Approved, Planned
<1>7. \A m \in Node :
        b.active[m] = "finish" \/ (m \in b.done /\ IsAgent(build.graph[m])) =>
          <<"live_reconciled", build.graph[m].at>> \in b.log
  BY DEF SafeInv, Scheduled
<1> HIDE DEF S
<1> QED BY <1>1, <1>3, <1>4, <1>6, <1>7 DEF Scheduled, Placed, S

\* A step that has no effect on Agents or relations.
LEMMA MoveSafe ==
  ASSUME SafeInv, Typed', cmd.pc = "build", NEW b, Running(b, effects),
         b.graph = build.graph, b.log = build.log, build.bad \subseteq b.bad, Scheduled'
  PROVE  SafeInv'
<1>1. cmd' = cmd /\ build' = b /\ effects' = effects /\ report' = report
  BY DEF Running
<1>2. Untouched' /\ Walked' /\ Existing' /\ Validated'
  BY <1>1 DEF SafeInv, Untouched, Walked, Existing, Validated, Planned
<1>3. LogSound'
  BY <1>1 DEF SafeInv, LogSound
<1>4. ReportSound'
  BY <1>1 DEF SafeInv, ReportSound
<1>5. OnlyApprovedAgents' /\ ReviewedResources'
  BY <1>1 DEF SafeInv, OnlyApprovedAgents, ReviewedResources, Planned
<1> QED BY <1>2, <1>3, <1>4, <1>5 DEF SafeInv

\* A node that waits, or runs, fails or is skipped.
LEMMA FailureScheduled ==
  ASSUME SafeInv, cmd.pc = "build", cmd' = cmd, NEW n \in Node,
         NEW b \in {build, Begins(n)}, build' = Fails(b, n)
  PROVE  /\ Scheduled'
         /\ build'.graph = build.graph /\ build'.log = build.log
         /\ build'.bad = build.bad \cup {n}
<1>1. build \in BuildType
  BY DEF SafeInv, Typed, TypeOK
<1>2. /\ b.graph = build.graph /\ b.log = build.log /\ b.active = build.active
      /\ b.done = build.done /\ b.bad = build.bad /\ b.todo \in {build.todo, build.todo \ {n}}
      /\ b \in BuildType
  BY <1>1 DEF Begins, BuildType
<1> DEFINE f == Fails(b, n)
<1>3. /\ f.graph = build.graph /\ f.log = build.log /\ f.todo = b.todo
      /\ f.active = [build.active EXCEPT ![n] = "no"]
      /\ f.done = build.done /\ f.bad = build.bad \cup {n}
  BY <1>2 DEF Fails, BuildType
<1>4. f.active[n] = "no" /\ \A m \in Node \ {n} : f.active[m] = build.active[m]
  BY <1>1, <1>3 DEF BuildType
<1>5. build' = f
  OBVIOUS
<1>6. n \in f.done /\ IsAgent(build.graph[n]) =>
        <<"live_reconciled", build.graph[n].at>> \in f.log
  BY <1>3 DEF SafeInv, Scheduled
<1> HIDE DEF f
<1>7. Placed(f, n) /\ \A m \in Node \ {n} : Placed(build, m) => Placed(f, m)
  BY <1>2, <1>3, <1>4 DEF Placed
<1>8. Scheduled'
  BY <1>2, <1>3, <1>4, <1>5, <1>6, <1>7, ScheduledMoves
<1> QED BY <1>3, <1>5, <1>8

LEMMA FailureMoves ==
  ASSUME SafeInv, Typed', cmd.pc = "build", NEW n \in Node,
         NEW b \in {build, Begins(n)}, Running(Fails(b, n), effects)
  PROVE  SafeInv'
<1>1. cmd' = cmd /\ build' = Fails(b, n)
  BY DEF Running
<1>2. /\ Scheduled' /\ build'.graph = build.graph /\ build'.log = build.log
      /\ build'.bad = build.bad \cup {n}
  BY <1>1, FailureScheduled
<1> QED BY <1>1, <1>2, MoveSafe

\* An Agent's phase takes effect, and is logged or the node fails.
LEMMA PhaseSafe ==
  ASSUME SafeInv, Typed', cmd.pc = "build", NEW n \in Node, build.active[n] # "no",
         NEW phase \in AgentPhase, NEW next \in {"live", "finish"},
         next = "finish" => phase = "live_reconciled", Phase(n, phase, next)
  PROVE  SafeInv'
<1> DEFINE item == <<phase, build.graph[n].at>>
           done == [effects EXCEPT !.agents = @ \cup {item}]
           after == [build EXCEPT !.active[n] = next, !.log = @ \cup {item}]
<1>1. build \in BuildType /\ effects \in EffectsType
  BY DEF SafeInv, Typed, TypeOK
<1>2. /\ done.agents = effects.agents \cup {item}
      /\ done.relations = effects.relations /\ done.stages = effects.stages
  BY <1>1 DEF EffectsType
<1>3. Approved(n) /\ DatabaseOf[Planned(n)] \in cmd.request.databases
  BY DEF SafeInv, Scheduled, Validated, Approved
<1>4. item[2] = Planned(n) /\ item[2] = build.graph[n].at /\ n \in cmd.request.agents
  BY <1>3 DEF Approved
<1>5. /\ cmd' = cmd /\ report' = report /\ effects' \in {effects, done}
      /\ \/ build' = after /\ effects' = done
         \/ build' = Fails(build, n)
  BY DEF Phase, Running
<1>6. /\ after.graph = build.graph /\ after.log = build.log \cup {item}
      /\ after.todo = build.todo /\ after.done = build.done /\ after.bad = build.bad
      /\ after.active = [build.active EXCEPT ![n] = next]
  BY <1>1 DEF BuildType
<1>7. after.active[n] = next /\ \A m \in Node \ {n} : after.active[m] = build.active[m]
  BY <1>1, <1>6 DEF BuildType
<1>8. Scheduled' /\ build'.graph = build.graph
  <2>1. CASE build' = Fails(build, n)
    BY <1>5, <2>1, FailureScheduled
  <2>2. CASE build' = after
    <3>1. after.active[n] = "finish" => <<"live_reconciled", build.graph[n].at>> \in after.log
      BY <1>6, <1>7
    <3>2. n \in after.done /\ IsAgent(build.graph[n]) =>
            <<"live_reconciled", build.graph[n].at>> \in after.log
      BY <1>6 DEF SafeInv, Scheduled
    <3> HIDE DEF after, item
    <3>3. Placed(after, n) /\ \A m \in Node \ {n} : Placed(build, m) => Placed(after, m)
      BY <1>6, <1>7 DEF Placed
    <3> QED BY <1>3, <1>5, <1>6, <1>7, <2>2, <3>1, <3>2, <3>3, ScheduledMoves
  <2> QED BY <1>5, <2>1, <2>2
<1> HIDE DEF after, done
<1>9. LogSound'
  <2>1. CASE build' = after /\ effects' = done
    <3> HIDE DEF item
    <3> QED BY <1>2, <1>6, <2>1 DEF SafeInv, LogSound
  <2>2. CASE build' = Fails(build, n)
    <3>1. build'.log = build.log /\ build'.bad = build.bad \cup {n}
      BY <1>5, <2>2, FailureScheduled
    <3>2. effects'.agents \subseteq effects.agents \cup {item} /\ effects.agents \subseteq effects'.agents
      BY <1>2, <1>5
    <3> HIDE DEF item
    <3> QED BY <1>4, <1>8, <3>1, <3>2 DEF SafeInv, LogSound
  <2> QED BY <1>5, <2>1, <2>2
<1>10. Untouched' /\ Walked' /\ Existing' /\ Validated'
  BY <1>5 DEF SafeInv, Untouched, Walked, Existing, Validated, Planned
<1>11. ReportSound'
  BY <1>5 DEF SafeInv, ReportSound
<1>12. OnlyApprovedAgents'
  <2>1. effects'.agents \subseteq effects.agents \cup {item}
    BY <1>2, <1>5
  <2> HIDE DEF item
  <2> QED BY <1>3, <1>4, <1>5, <1>8, <2>1 DEF SafeInv, OnlyApprovedAgents, Planned
<1>13. ReviewedResources'
  BY <1>2, <1>5, <1>8 DEF SafeInv, ReviewedResources
<1> QED BY <1>8, <1>9, <1>10, <1>11, <1>12, <1>13 DEF SafeInv

\* A model that dbt builds is one of the selection, hence in an allowed database if
\* the selection is of the graph that was planned.
LEMMA RunModelSafe ==
  ASSUME SafeInv, Typed', NEW n \in Node, RunModel(n)
  PROVE  SafeInv'
<1> DEFINE written == [effects EXCEPT !.relations = @ \cup {build.graph[n].at}]
           after == [Begins(n) EXCEPT !.done = @ \cup {n}]
<1>1. build \in BuildType /\ effects \in EffectsType
  BY DEF SafeInv, Typed, TypeOK
<1>2. cmd.pc = "build" /\ n \in build.todo /\ ~IsAgent(build.graph[n])
  BY DEF RunModel, Ready, At
<1>3. /\ written.agents = effects.agents /\ written.stages = effects.stages
      /\ written.relations = effects.relations \cup {build.graph[n].at}
  BY <1>1 DEF EffectsType
<1>4. /\ cmd' = cmd /\ report' = report /\ effects' \in {effects, written}
      /\ build' = after \/ build' = Fails(Begins(n), n)
  BY DEF RunModel, Running
<1>5. /\ after.graph = build.graph /\ after.log = build.log /\ after.active = build.active
      /\ after.todo = build.todo \ {n} /\ after.done = build.done \cup {n}
      /\ after.bad = build.bad
  BY <1>1 DEF BuildType, Begins
<1>6. /\ Scheduled' /\ build'.graph = build.graph /\ build'.log = build.log
      /\ build.bad \subseteq build'.bad
  <2>1. CASE build' = Fails(Begins(n), n)
    BY <1>2, <1>4, <2>1, FailureScheduled
  <2>2. CASE build' = after
    <3>1. after.active[n] # "no" => Approved(n)
      BY <1>2, <1>5 DEF SafeInv, Scheduled
    <3>2. after.active[n] = "finish" => <<"live_reconciled", build.graph[n].at>> \in after.log
      BY <1>2, <1>5 DEF SafeInv, Scheduled
    <3> HIDE DEF after
    <3>3. Placed(after, n) /\ \A m \in Node \ {n} : Placed(build, m) => Placed(after, m)
      BY <1>5 DEF Placed
    <3> QED BY <1>2, <1>4, <1>5, <2>2, <3>1, <3>2, <3>3, ScheduledMoves
  <2> QED BY <1>4, <2>1, <2>2
<1> HIDE DEF after, written
<1>7. LogSound'
  BY <1>3, <1>4, <1>6 DEF SafeInv, LogSound
<1>8. Untouched' /\ Walked' /\ Existing' /\ Validated' /\ ReportSound'
  BY <1>2, <1>4 DEF SafeInv, Untouched, Walked, Existing, Validated, ReportSound, Planned
<1>9. OnlyApprovedAgents'
  BY <1>3, <1>4, <1>6 DEF SafeInv, OnlyApprovedAgents, Planned
<1>10. ReviewedResources'
  <2>1. effects'.stages \subseteq cmd.request.databases
    BY <1>3, <1>4 DEF SafeInv, ReviewedResources
  <2>2. build.graph = cmd.graph => DatabaseOf[build.graph[n].at] \in cmd.request.databases
    BY <1>2 DEF SafeInv, Scheduled, Validated, Planned
  <2>3. build.graph = cmd.graph => Databases(effects'.relations) \subseteq cmd.request.databases
    BY <1>3, <1>4, <2>2 DEF SafeInv, ReviewedResources, Databases
  <2> QED BY <1>4, <1>6, <2>1, <2>3 DEF ReviewedResources
<1> QED BY <1>6, <1>7, <1>8, <1>9, <1>10 DEF SafeInv

LEMMA DbtSafe ==
  ASSUME SafeInv, Typed', NEW n \in Node,
         \/ RunModel(n) \/ StartAgent(n) \/ CommitAgent(n) \/ ReconcileLive(n)
         \/ FinishAgent(n) \/ Skip(n)
  PROVE  SafeInv'
<1>1. build \in BuildType
  BY DEF SafeInv, Typed, TypeOK
<1>2. cmd.pc = "build"
  BY DEF RunModel, StartAgent, CommitAgent, ReconcileLive, FinishAgent, Skip, Ready, Active, At
<1>3. CASE StartAgent(n)
  <2> DEFINE b == [Begins(n) EXCEPT !.active[n] = "commit"]
  <2>1. n \in build.todo /\ IsAgent(build.graph[n])
    BY <1>3 DEF StartAgent, Ready
  <2>2. /\ b.graph = build.graph /\ b.log = build.log /\ b.todo = build.todo \ {n}
        /\ b.active = [build.active EXCEPT ![n] = "commit"]
        /\ b.done = build.done /\ b.bad = build.bad
    BY <1>1 DEF BuildType, Begins
  <2>3. b.active[n] = "commit" /\ \A m \in Node \ {n} : b.active[m] = build.active[m]
    BY <1>1, <2>2 DEF BuildType
  <2>4. n \in b.done /\ IsAgent(build.graph[n]) =>
          <<"live_reconciled", build.graph[n].at>> \in b.log
    BY <1>2, <2>2 DEF SafeInv, Scheduled
  <2>5. (Approved(n) /\ Running(b, effects)) \/ Running(Fails(Begins(n), n), effects)
    BY <1>3 DEF StartAgent
  <2> HIDE DEF b
  <2>6. Placed(b, n) /\ \A m \in Node \ {n} : Placed(build, m) => Placed(b, m)
    BY <2>2, <2>3 DEF Placed
  <2>7. CASE Approved(n) /\ Running(b, effects)
    <3>1. cmd' = cmd /\ build' = b
      BY <2>7 DEF Running
    <3>2. Scheduled'
      BY <1>2, <2>2, <2>3, <2>4, <2>6, <2>7, <3>1, ScheduledMoves
    <3> QED BY <1>2, <2>2, <2>7, <3>2, MoveSafe
  <2> QED BY <1>2, <2>5, <2>7, FailureMoves
<1>4. CASE CommitAgent(n)
  <2> DEFINE b == [build EXCEPT !.active[n] = "live"]
  <2>1. build.active[n] = "commit"
    BY <1>4 DEF CommitAgent, Active
  <2>2. /\ b.graph = build.graph /\ b.log = build.log /\ b.todo = build.todo
        /\ b.active = [build.active EXCEPT ![n] = "live"]
        /\ b.done = build.done /\ b.bad = build.bad
    BY <1>1 DEF BuildType
  <2>3. b.active[n] = "live" /\ \A m \in Node \ {n} : b.active[m] = build.active[m]
    BY <1>1, <2>2 DEF BuildType
  <2>4. n \in b.done /\ IsAgent(build.graph[n]) =>
          <<"live_reconciled", build.graph[n].at>> \in b.log
    BY <1>2, <2>2 DEF SafeInv, Scheduled
  <2>5. Phase(n, "version_committed", "live") \/ Running(b, effects)
    BY <1>4 DEF CommitAgent
  <2> HIDE DEF b
  <2>6. Placed(b, n) /\ \A m \in Node \ {n} : Placed(build, m) => Placed(b, m)
    BY <2>2, <2>3 DEF Placed
  <2>7. CASE Running(b, effects)
    <3>1. cmd' = cmd /\ build' = b
      BY <2>7 DEF Running
    <3>2. Approved(n)
      BY <1>2, <2>1 DEF SafeInv, Scheduled
    <3>3. Scheduled'
      BY <1>2, <2>2, <2>3, <2>4, <2>6, <3>1, <3>2, ScheduledMoves
    <3> QED BY <1>2, <2>2, <2>7, <3>3, MoveSafe
  <2> QED BY <1>2, <2>1, <2>5, <2>7, PhaseSafe DEF AgentPhase
<1>5. CASE ReconcileLive(n)
  BY <1>2, <1>5, PhaseSafe DEF ReconcileLive, Active, AgentPhase
<1>6. CASE FinishAgent(n)
  <2> DEFINE b == [build EXCEPT !.active[n] = "no", !.done = @ \cup {n}]
  <2>1. build.active[n] = "finish"
    BY <1>6 DEF FinishAgent, Active
  <2>2. /\ b.graph = build.graph /\ b.log = build.log /\ b.todo = build.todo
        /\ b.active = [build.active EXCEPT ![n] = "no"]
        /\ b.done = build.done \cup {n} /\ b.bad = build.bad
    BY <1>1 DEF BuildType
  <2>3. b.active[n] = "no" /\ \A m \in Node \ {n} : b.active[m] = build.active[m]
    BY <1>1, <2>2 DEF BuildType
  <2>4. <<"live_reconciled", build.graph[n].at>> \in b.log
    BY <1>2, <2>1, <2>2 DEF SafeInv, Scheduled
  <2>5. Running(b, effects) \/ Running(Fails(build, n), effects)
    BY <1>6 DEF FinishAgent
  <2> HIDE DEF b
  <2>6. Placed(b, n) /\ \A m \in Node \ {n} : Placed(build, m) => Placed(b, m)
    BY <2>2, <2>3 DEF Placed
  <2>7. CASE Running(b, effects)
    <3>1. cmd' = cmd /\ build' = b
      BY <2>7 DEF Running
    <3>2. Scheduled'
      BY <1>2, <2>2, <2>3, <2>4, <2>6, <3>1, ScheduledMoves
    <3> QED BY <1>2, <2>2, <2>7, <3>2, MoveSafe
  <2> QED BY <1>2, <2>5, <2>7, FailureMoves
<1>7. CASE Skip(n)
  BY <1>2, <1>7, FailureMoves DEF Skip
<1> QED BY <1>3, <1>4, <1>5, <1>6, <1>7, RunModelSafe
-----------------------------------------------------------------------------
(* The invariant. *)

LEMMA InitSafe == Init => SafeInv
<1> SUFFICES ASSUME Init PROVE SafeInv
  OBVIOUS
<1>1. /\ cmd.pc = "idle" /\ build.log = {} /\ effects.agents = {}
      /\ effects.relations = {} /\ effects.stages = {} /\ report.status = "none"
  BY DEF Init, Idle, NoBuild, NoEffects, NoReport
<1>2. Untouched /\ Walked /\ Existing /\ Validated /\ Scheduled /\ LogSound /\ ReportSound
  BY <1>1 DEF Untouched, Walked, Existing, Validated, Scheduled, LogSound, ReportSound
<1>3. OnlyApprovedAgents /\ ReviewedResources
  BY <1>1 DEF OnlyApprovedAgents, ReviewedResources, Databases
<1> QED BY <1>2, <1>3, InitTyped DEF SafeInv

\* Steps of other people: they change nothing the invariant speaks of.
LEMMA OthersSafe ==
  ASSUME SafeInv, Typed', UNCHANGED <<build, effects, report>>,
         cmd' \in {cmd, [cmd EXCEPT !.rewritten = TRUE]}
  PROVE  SafeInv'
<1>1. /\ cmd'.pc = cmd.pc /\ cmd'.request = cmd.request /\ cmd'.graph = cmd.graph
      /\ cmd'.pending = cmd.pending /\ cmd'.visited = cmd.visited
      /\ cmd'.uploads = cmd.uploads
  BY DEF SafeInv, Typed, TypeOK, CmdType
<1>2. Untouched' /\ Walked' /\ Existing' /\ Validated'
  BY <1>1 DEF SafeInv, Untouched, Walked, Existing, Validated, Planned
<1>3. Scheduled'
  BY <1>1 DEF SafeInv, Scheduled, Approved, Planned
<1>4. LogSound' /\ ReportSound'
  BY <1>1 DEF SafeInv, LogSound, ReportSound
<1>5. OnlyApprovedAgents' /\ ReviewedResources'
  BY <1>1 DEF SafeInv, OnlyApprovedAgents, ReviewedResources, Planned
<1> QED BY <1>2, <1>3, <1>4, <1>5 DEF SafeInv

LEMMA StartDeploySafe ==
  ASSUME SafeInv, Typed', StartDeploy
  PROVE  SafeInv'
<1>1. cmd'.pc = "parse" /\ cmd'.visited = {}
  BY DEF StartDeploy, Idle
<1>2. build' = NoBuild /\ build'.log = {}
  BY DEF StartDeploy, NoBuild
<1>3. effects'.agents = {} /\ effects'.relations = {} /\ effects'.stages = {}
  BY DEF StartDeploy, NoEffects
<1>4. report'.status = "none"
  BY DEF StartDeploy, NoReport
<1>5. Untouched' /\ Walked' /\ Existing' /\ Validated' /\ Scheduled'
  BY <1>1, <1>2, <1>3 DEF Untouched, Walked, Existing, Validated, Scheduled
<1>6. LogSound' /\ ReportSound'
  BY <1>2, <1>3, <1>4 DEF LogSound, ReportSound
<1>7. OnlyApprovedAgents' /\ ReviewedResources'
  BY <1>3 DEF OnlyApprovedAgents, ReviewedResources, Databases
<1> QED BY <1>5, <1>6, <1>7 DEF SafeInv

LEMMA KilledSafe ==
  ASSUME SafeInv, Typed', Killed
  PROVE  SafeInv'
<1>1. report' = report /\ report.status = "none"
  BY DEF Killed, At, SafeInv, ReportSound
<1>2. ReportSound'
  BY <1>1 DEF ReportSound
<1> QED BY <1>2, EndSafe DEF Killed, SafeInv, ReviewedResources

LEMMA NextSafe ==
  ASSUME SafeInv, [Next]_vars
  PROVE  SafeInv'
<1>1. Typed'
  BY NextTyped DEF SafeInv
<1>2. CASE BuildDies
  BY <1>1, <1>2, FailureSafe DEF BuildDies, Phases, SafeInv, ReviewedResources
<1>3. CASE EditProject \/ AnotherWritesManifest \/ UNCHANGED vars
  BY <1>1, <1>3, OthersSafe DEF EditProject, AnotherWritesManifest, vars
<1> QED BY <1>1, <1>2, <1>3, StartDeploySafe, PythonSafe, DbtSafe, KilledSafe DEF Next, Dbt, Rest

\* The inductive invariant: what was approved, walked, validated and logged fits together.
THEOREM SafeCorrect == Spec => []SafeInv
<1> QED BY InitSafe, NextSafe, PTL DEF Spec

\* VERIFIED is never said of an Agent whose LIVE this deploy did not reconcile.
THEOREM VerifiedCorrect == Spec => []VerifiedReconciled
<1>1. SafeInv => VerifiedReconciled
  BY DEF SafeInv, ReportSound, LogSound, VerifiedReconciled
<1> QED BY <1>1, SafeCorrect, PTL

\* No Agent changes but those that were approved, under their approved names.
THEOREM ApprovedCorrect == Spec => []OnlyApprovedAgents
<1>1. SafeInv => OnlyApprovedAgents
  BY DEF SafeInv
<1> QED BY <1>1, SafeCorrect, PTL

\* Skills go to allowed databases; and so does what dbt builds of the planned graph.
THEOREM ReviewedCorrect == Spec => []ReviewedResources
<1>1. SafeInv => ReviewedResources
  BY DEF SafeInv
<1> QED BY <1>1, SafeCorrect, PTL

\* Reports name real effects, and leave out those of failed nodes only.
THEOREM HiddenCorrect == Spec => []NothingHidden
<1>1. SafeInv => NothingHidden
  BY DEF SafeInv, ReportSound, LogSound, NothingHidden
<1> QED BY <1>1, SafeCorrect, PTL

LEMMA CleanCollect ==
  ASSUME SafeInv, Collect, build.bad = {}, build.graph = cmd.graph
  PROVE  report'.status = "verified"
<1>1. cmd.pc = "build" /\ BuildEnded
  BY DEF Collect, At
<1>2. \A n \in cmd.request.agents : n \in Node /\ cmd.graph[n].kind = "agent"
  BY <1>1 DEF SafeInv, Existing, Agents
<1>3. \A n \in cmd.request.agents : n \in Selection(cmd.graph, cmd.request.agents)
  BY <1>2, SelectsNamed
<1>4. \A n \in cmd.request.agents : n \in build.done
  BY <1>1, <1>2, <1>3 DEF SafeInv, Scheduled, BuildEnded
<1>5. \A n \in cmd.request.agents : <<"live_reconciled", Planned(n)>> \in build.log
  BY <1>1, <1>2, <1>4 DEF SafeInv, Scheduled, IsAgent, Planned
<1>6. Missing = {}
  BY <1>5 DEF Missing, Phases
<1> QED BY <1>6 DEF Collect, End

\* When nothing fails and nobody edits the project, the deploy is verified.
THEOREM CleanCorrect == Spec => CleanIsVerified
<1>1. SafeInv /\ [Next]_vars =>
        [Collect /\ build.bad = {} /\ build.graph = cmd.graph
           => report'.status = "verified"]_vars
  BY CleanCollect
<1> QED BY <1>1, SafeCorrect, PTL DEF Spec, CleanIsVerified
=============================================================================
