# Verification of dbt-cortex-agent

`dbt-cortex-agent` is a dbt package (SQL macros and a materialization) with a
Python command line around it.  It deploys Snowflake Cortex Agents, routes
aliases between their versions, stages the skill files they use, and evaluates
them.  Agent DDL is not transactional, several operators may act on one Agent,
and almost every statement may fail after it took effect.  That is what the
modules here are about.

Paths below are relative to the repository root; `pkg/` stands for
`src/dbt_cortex_agent/`.

## 1. Inventory

| Part | Where | State it keeps | Operations | Interacts with |
|---|---|---|---|---|
| Agent lifecycle | `macros/cortex_agents/agent_render.sql`, `agent_versioning.sql`, `macros/materializations/cortex_agent.sql`, `pkg/lifecycle.py` | the native Agent: versions with comments, aliases, explicit DEFAULT, LIVE draft, object comment; in a command: target, alias owner it expects, phases reported | deploy, promote, rollback, drop, status | native statements one at a time; `run-operation` calls from Python |
| Skill stage | `pkg/skills.py`, `pkg/commands/skill.py` | folders on a Snowflake stage, named after a content digest or mutable; a scratch copy; the inventory with sizes and hashes | plan, upload (list, copy, read back), print the digests | the deploy passes digests to dbt, which refuses skills without SKILL.md and hashes the staged files |
| Deploy orchestration | `pkg/deployment.py`, `pkg/domain.py` | the plan; the nodes of a `dbt build` and what its output says of several Agents | select, walk the dependencies, validate, upload, build, collect | manifest, skill stage, Agent lifecycle through `dbt build` |
| Evaluation run | `pkg/eval/lifecycle.py`, `pkg/eval/results.py` | candidate and diagnostic artifacts; the pinned or observed version; a dataset snapshot | start, poll, retry, fetch, build and write a candidate | Agent DEFAULT, dataset table, native evaluation run |
| Evaluation verification, baselines | `pkg/eval/verify.py`, `baseline.py`, `compare.py`, `gate.py` | result files, baseline files; the previewed plans; the report | verify several suites, accept a baseline, compare | evaluation run, through files; dbt for every plan |
| Gate and scoring | `pkg/eval/gate.py`, `results.py` | none | pure functions | evaluation run |
| Native evaluation macros | `macros/cortex_agents/eval_run.sql`, `eval_render.sql` | native run state | start, poll, results, gate | the dbt-only route of evaluation |
| Invocation, event stream | `pkg/invoke.py`, `pkg/commands/agent.py`, `skill.py` | a buffer, counters, an event list; a deadline; the raw-event artifact | frame, collect, invoke, smoke | an HTTP stream; others that write to the same artifact |
| Manifest handling | `pkg/manifest.py`, `commands/common.py` | `target/manifest.json` | refresh, select, resolve | every plan |
| Initialization, scaffold | `pkg/init.py`, `scaffold.py` | project files | create, append | none |
| Dataset, question policy | `pkg/eval/dataset.py`, `question_policy.py` | none | validate records | none |
| Configuration | `pkg/config.py`, `execution_context.py` | none | resolve settings | every command |
| Diagnostics, command line | `pkg/doctor.py`, `cli.py`, `artifacts.py` | none | parse, format | every command |
| Live proof | `scripts/verify_live_multi_database.py` | the attestation file of a job; reserved objects in shared databases | preflight, deploy, promote, roll back, retire, clean up, clean up later | dbt, the CLI and Snowflake; jobs that overlap |
| Release, qualification | other `scripts/` | release files | build, qualify | outside the package |

What makes each part hard, and what makes it correct:

* **Agent lifecycle.**  A deploy is up to eleven statements.  Each may fail, or
  take effect while its acknowledgement is lost, or be the last one the process
  issues.  Correct means: a version's hash comment tells the truth; a retry
  neither commits content twice nor builds on an interrupted creation; a pinned
  DEFAULT survives later deploys; what a command reports is so; one clean retry
  finishes the job.
* **Skill stage.**  Uploads are interrupted, overlap, or meet a folder that
  already holds files.  Correct means: a deploy only goes ahead on a complete
  folder, and a hash names what was staged.
* **Deploy orchestration.**  The plan is made of one parse, the build of another;
  one Agent of several fails; a dependency's database is missed.  Correct means:
  what is deployed is what was approved, in allowed databases; VERIFIED is reported
  only when every planned Agent was reconciled; no durable effect goes unreported
  without a failed node.
* **Evaluation run.**  DEFAULT and the dataset move while a run takes minutes.
  Correct means: a passing candidate measured the version and the dataset it
  names; retries are bounded and never mix two datasets; artifacts are never
  overwritten.
* **Verification and baselines.**  Minutes pass between preview, build, evaluation
  and gate of each suite, in which suites are edited, judges roll forward, baselines
  are accepted, overwritten, torn or gone, and candidates are written by others.
  Correct means: a suite that is reported as passed earned it under the plan that
  was previewed; a report accounts for every suite and every candidate paid for;
  a baseline passes its own gate and is replaced by `--force` only.
* **Event stream.**  Bounds of events come in three forms; streams end, break off,
  exceed limits or fall silent anywhere.  Correct means: nothing passes that was not
  answered without error; the artifact holds exactly the events that came; the
  report stops at the first failure; a command ends.
* **Live proof.**  Jobs share databases and reserved names, are killed anywhere, and
  their statements outlive them.  Correct means: no job drops what was there before
  it; what it made can be dropped later; a completed cleanup left nothing.
* **Manifest.**  A plan is made from a manifest an earlier command left behind;
  modelled with the deploy, which is the command it endangers most.
* **Initialization.**  Files are written one by one and in place: a failure leaves
  the rest unwritten.

## 2. Plan

The modules, in the order in which they are written.  The Agent comes first:
everything else exists to change it or to judge it.

| # | Module | Subject | State |
|---|---|---|---|
| 1 | `AgentLifecycle`, `VersionHistory` | statements of deploy, route and drop; the abstract history of versions they implement | modelled, checked, proved |
| 2 | `EvalRun` | one evaluation against a moving Agent, a moving dataset, a shared run name | modelled, checked, proved |
| 3 | `SkillStage` | publishing skills, interrupted and overlapping, and what a build reads | modelled, checked, proved |
| 4 | `DeployApply` | one `agent deploy --apply` over several Agents: freshness of the manifest, the dependency walk against what dbt selects, drift of the project between plan and build, phases and report | modelled, checked, proved |
| 5 | `Verification` | eval verify over several suites, eval run beside it, accept-baseline; gates and comparison as operators | modelled, checked, proved |
| 6 | `Invocation` | smokes: framing, limits and deadline of an event stream, the artifact, the report over several checks | modelled, checked, proved |
| 7 | `LiveProof` | the multi-database proof and its cleanups, with statements that outlive their process | modelled, checked, proved |

What is left is small or has no protocol, see section 7.  The modules are not
composed further: each summarizes in one step what another one details (a deploy
in `LiveProof` and `DeployApply` is `AgentLifecycle`'s, an upload `SkillStage`'s, an
evaluation in `Verification` is `EvalRun`'s), and relies only on what is checked
there.

Abstract specifications.  `VersionHistory` is the one the code has: versions are
appended, get their label once and keep it.  For the other parts the promise is a
relation between an outcome and the world at another time, which an invariant with
history variables states more directly than a second machine would.

Every component module is written to be proved about: parameters are CONSTANTS
with named assumptions, an action is one operation, invariants are conjunctions
of named parts, and no operator is RECURSIVE.  Definitions
introduced by a comment "Slip:" are mutated forms of the definition below them,
used to show that a property notices the mistake; no specification uses them.

## 3. Modules and the code

### AgentLifecycle (with VersionHistory)

State: the native Agent as `DESCRIBE AGENT` and `SHOW VERSIONS` present it
(`versions`, `aliases`, `pinned`, `draft`, `marker`), and the local variables of
each running command (`run`) and its last report.  One action is one native
statement, or one inspection, of `cortex_agent__apply_deploy`,
`cortex_agent__reconcile_live`, `cortex_agent__route_alias_for_fqn`,
`cortex_agent__route_default`, `cortex_agent__drop` and of the Python
`apply_route_plan` and `drop_agent` around them; the action names follow the
statements.  Every statement can take effect, fail, or take effect while its
acknowledgement is lost, and a process can be killed between any two.

`content` is the pair (specification, staged skill hash), which a deploy computes
before it touches the Agent; a `label` is the pair of hashes in a version
comment.  `version_state` is read at one instant.  The native semantics (which
alias a SET displaces, what COMMIT does to LIVE and to DEFAULT) are those of the
simulator in `tests/test_deployment.py:31-130` and of the macros that rely on
them; they are marked external in the map.  An adopted Agent, one the package
did not create, starts with content `Foreign`.

### EvalRun

State: the Agent's versions and DEFAULT, the dataset table, the staged config and
the native runs of the service, each client's `run_evaluation`, and the artifacts
on disk.  One action is one statement of the client (provenance reads,
`validate_table`, config upload, START, poll, fetch, the drift checks, the
artifact), or one step of the service (ingest, invoke, complete in part, fail),
or one of other people (commit, move DEFAULT, rebuild the dataset).

A dataset is a generation number; the comparison in the code is of a mapping, and
a table that changes back within a run is outside what
`docs/guides/evaluations.md:236` promises.  START on a name that exists may be
refused or replace the run; the service's choice is left open.  Which trace the
service shows is complete unless `TraceLag`.  `DESCRIBE AGENT` and `SHOW VERSIONS`
of one provenance read are one action: versions never go away.  The verdict of
thresholds and judges is a nondeterministic `good`.

### SkillStage

State: the skill folders of each client's checkout (`local`), the stage
(`stage`), the command each client runs (`run`), the `dbt_vars` that were printed
and are used (`printed`), and the Agent's versions with the paths and the hash
they carry.  `verified` is a history variable: the folders some client reported
as uploaded, reused or overwritten.  One action is one LIST, one inventory copy,
one file of `snow stage copy`, one readiness check, one hash, one commit.
`StartBuild` is a `dbt build` outside `agent deploy`.

A digest is injective (it is the content itself; the code keeps 64 bits of
SHA-256).  The inventory, and the copy to the scratch folder, are read at one
instant each; edits happen between them.  The LISTs of several skills in the
readiness check, and in the hash, are one action, since files never go away.  `skill plan` is an upload that
stops at once: it prints the same `dbt_vars`.
`PlaceFile` touches only folders no client has verified: the code cannot protect
a verified folder from other writers, and says so (`skills.py:334`).  The search
for a managed version and the commit are one step here; `AgentLifecycle` refines
it.  `UnchangedCommitsNothing` is about builds without `force_agent_recreate`.

### DeployApply

State: the dbt project as it would parse now, the manifest file, the running
command with its plan (`cmd`), the `dbt build` it runs (`build`: nodes that wait,
run, are done or failed, and the phases its output shows), and the last report.
`effects` (what this deploy really did) and `seen` (graphs that were current
since it began) are history variables.  The actions follow `fresh_manifest`,
`select_agents`, `_dependency_databases` (one action is one turn of its loop),
`validate_deploy_plan`, `apply_deploy_plan` and `_handle_deploy`; those of a node
follow dbt's scheduler, which is external, and the materialization.

A project is a graph of nodes with a kind, a three-part name and parents.
`parents` stands for `parent_map` and `depends_on` together, of which the code
follows both.  The graphs of dbt are acyclic; the theorems do not need that.
An upload is one step (`SkillStage` has the files), an Agent's deploy three
(`AgentLifecycle` has the statements); of the four phases the materialization
logs, the two kept are the first durable one and the one that counts for VERIFIED.
What the macros refuse by themselves is a deploy that fails.  A deploy without
`--agent` behaves like one that names every enabled Agent.  A command is killed
together with its dbt.  What a failing upload may change and the order in which
dbt runs independent nodes are left open.

### Verification

State: the policies of the suites in the working tree (`project`), the judge that
metrics resolve to, candidate files by suite and run name, the baseline files, and
the processes: verifies, evaluations of `eval run`, acceptances.  One action is one
read or write of a file, one rendered plan, or one finished evaluation, in the order
of `verify_evaluations` and `accept_baseline`.  What a gate computes
(`eligibility_failures`, `threshold_failures`, `question_failures`, `suite_change`,
`compare_results`) are operators on artifacts, the same ones in verify and in the
acceptance.

A policy is what a suite signs; its plan is the policy, since signature and identity
change with it.  The content of the dataset is not in the signature
(`pkg/eval/lifecycle.py:103-232`), so edits of questions are not edits of the plan.
A score is the average of a metric.

An artifact says who judged it only as far as the traces had arrived:
`_observed_run` records no judge for a metric without spans (`lifecycle.py:539-541`),
one of the two where the default rolled under the run, and artifacts from before judges
were observed have no such field.  `judges` is that record and `scoredBy` the truth,
which no operator of the code reads.  `JudgesChanged` compares the records as
`compare.py:17-23` does: two unknown judges are equal, and without the field on one
side the declared selectors decide, which are equal when the policies are.
`PassedIsEarned` is about `scoredBy`, and speaks of the metrics for which at least one
of the two records names a judge; a judge stands for its name and version.  `absent` is
a history variable too: whether there was a file when the baseline was looked for.

What makes this part subtle is in the code as it is: the baseline is looked up when the plan is previewed, again before the gate,
and read after that (`verify.py:106`, `:184`); `accept_baseline` looks for the file
and opens it later (`baseline.py:64`, `:69`), so two first acceptances may both
write; a file that was truncated and never filled is read as an error, never as
"no baseline"; an evaluation of `eval run` may put another candidate under the name,
which only `_bind_candidate` notices.

### Invocation

State: the commands (`client`: what remains to be checked, the connection, the data
lines and the name that are pending, the events that were accepted, the deadline,
the report) and the artifacts (`file`).  One action is one phase (connect, open,
finish, close), one line read, one step of `_write_raw_events`, or one verdict.
`lines` is a history variable: the stream as it came in.  `Framed` and `Answered`
state what such a stream says, read as a whole; the reader of the code goes line by
line, and `PassIsAnswered` and `EvidenceKept` compare the two: TLC on every stream up
to the bound, the theorems on every stream.

A line is told apart by what the reader makes of it.  Limits count lines and events;
the code counts bytes too, with the same outcome.  The artifact is created
exclusively, but not filled in one step: a process that dies in between leaves it
torn, and it then refuses later commands, which `EvidenceKept` allows.

### LiveProof

State: the reserved objects with their versions, DEFAULT and alias (`object`), the
attestation of each job (`disk`), its process (`proc`), and the statements that
outlived a process (`orphans`).  `older` and `by` of an object, its `late`, and
`harmed` are history variables.  One action is one statement, one look, or one write
of the attestation, in the order of `run` and its finally blocks, `_record_cleanup`
and `--cleanup-only`.

The scripts of the proof are data (`Commands`, `LifecycleCommands`, `GuardedDrops`),
translated one step for one command; commands that change nothing reserved are one
`Local`.  A failed command may have had statements under way, which land at any
later time: dbt outlives its parent.  A timeout is recorded as an unknown state, an
ordinary failure and a KeyboardInterrupt are not, as in the code.  The status of an
attestation follows from its two parts and is left out.

## 4. Runs

| Run | Question | Result and instance |
|---|---|---|
| `serial` | do labels stay true, is content committed once, is an interrupted creation left alone, do promises about DEFAULT survive, are reports true, does one clean retry finish, do the statements implement `VersionHistory` | holds; 6 commands (deploys of two contents, promotions and rollbacks with and without DEFAULT, drops), 3 faults, 2 processes that share a concurrency key |
| `overlapping` | what holds when the key is not respected; does every command end | `PromiseKept` (no drops among the commands), `CommandsEnd`; 3 commands (a plain and a forced deploy, conflicting promotions, a rollback of the alias that deploys move), no faults |
| `overlapping_routes` | does a completed promotion own its alias | violated, see 5 |
| `eval_shared_name` | can two clients under one name and a DEFAULT that moves both ways pass a candidate for the wrong version; the types | no; 2 versions, 2 clients |
| `eval_drift` | with lagging traces, a DEFAULT that moves forward and a dataset that is rebuilt: does anything pass on the wrong version or questions; do artifacts hold the rows of the run they name, and stay; is a running evaluation never retried; does an evaluation end although the service may never answer | no; yes; 1 client, 2 evaluations under one name, 2 versions, 2 dataset generations, 1 retry, 2 polls |
| `skill_overlap` | do versions keep their text, does unchanged content commit nothing | holds; 1 skill of 2 files with 2 texts, 2 clients, 3 commands, 1 edit at any moment, 1 file placed by hand |
| `skill_modes` | two skills in either mode, the second one failing: do versions keep their text, does a folder gain listed files only | holds; 2 commands, 1 edit |
| `skill_vars` | is a digest only supplied after verification | violated, see 5 |
| `deploy_drift` | is what a deploy changes what was approved, is VERIFIED earned, is nothing durable hidden, is the manifest fresh, does the deploy end, whatever happens to the project between plan and build | holds; 2 Agents, a model and its source, 8 graphs, 4 requests, 1 edit of the project or foreign manifest at any moment, any failures and kills |
| `verify_gates` | is what passes earned under the previewed plan, does a report account for everything, do baselines gate themselves and stay without `--force` | holds; 2 suites of 2 and 1 policies, the first with a baseline from before that records its judge, records none or has no record, a metric that need not be scored, 3 kinds of outcome and 1, 2 judges, 1 verify, 1 other evaluation, 2 acceptances, 2 events of others in all |
| `smokes` | does nothing pass that was not answered, do artifacts hold the events, do reports stop at the first failure, do commands end | holds; every stream of up to 4 lines over 2 names, 3 texts, bounds and marks, 2 events at most; an agent smoke or a skill smoke of 2 checks, and another smoke on the same path |
| `live_proof` | does no job drop what is older, is a completed cleanup complete, is what a job made authorized on disk, does nothing follow an unknown state | holds; 2 jobs, one that cleans up by itself, 3 commands, 3 events (proofs begun, faults, objects of others) |

Why the bounds are enough to be interesting.  *Lifecycle*: the shortest ways into
the states the comments in the code worry about take one interrupted deploy, one
deploy of other content and one retry, with at most one fault each; six commands
and three faults leave room for a drop and a route between them.  Two contents are
what "the other specification" needs.  In `overlapping` a process that is killed is
one that takes no further step, which every safety property covers already.  *Evaluation*: one retry and two polls reach
every branch of `poll`; two versions and two clients are what "the wrong version"
needs; one rebuild at any moment is what "rebuilt after the snapshot" needs.
*Skills*: an interrupted upload, another one of the same digest and a deploy are
three commands; two files are needed for a partial folder; two texts for a
foreign one.  *Deploys*: two Agents are needed for an exchange of names and for one that fails
beside another; a node with a parent of its own for a walk that stops early; the
graphs cover a renamed, exchanged, vanished, replaced and upstream Agent and a
model that moves to another database; deploys are independent of each other but
for the manifest, whose first value is arbitrary.  *Verification*: two suites
are needed for one that fails beside one that was paid for, and the second one gets a
baseline only by an acceptance (`MCInit`); one roll of the judge, before or under an evaluation,
whose record may show it or not; two events for an edit
that is undone, or an acceptance that overlaps another.  *Streams*: four lines hold
a name, both halves of an object and what ends them, or an error before an answer;
one event less than that fits the limit.  *Live proof*: an overlap needs two jobs, a
cleanup overtaken by others a third event; a fault, an orphan that lands and a later
cleanup fit in the rest.  Each property has a mutated definition of the code that violates it
inside the same bounds.  `MaxCommands`, `MaxFaults`, `MaxEvaluations`, `MaxEdits`,
`MaxPlaced`, `MaxVersion`, `MaxSource`, `MaxDeploys`, `MaxChanges`, `MaxVerifies`,
`Judges` and `MaxEvents` (of `Verification` and `LiveProof`) are the only bounds; the
theorems hold for every value of them.  `MaxStream` and `MaxEvents` of `Invocation`
are limits of the code, with small values.

Symmetry is declared over processes, clients or acceptances, and over skill texts,
but in no run that checks liveness.  Deadlock is checked in the runs of the
lifecycle, the evaluations, the skills and the deploys: `Rest` is enabled there only
when every command has ended and no more may start.  In the other three a system at
rest has no step, and deadlock is not checked.

Fairness.  `CommandsEnd`, `EvaluationsEnd` and `DeployEnds` assume weak fairness of the next
step of each process that runs a command: a Python process, or a dbt node, is
sequential code that goes on as long as it lives, and every native statement
returns or times out.  Nothing is assumed of the evaluation service, of operators
or of faults.  Under this assumption `EvaluationsEnd` is a statement about the
poll bound and the retry bound, not about the service.  `DeployEnds` has one
assumption for the command and one for dbt's threads, and says that the walk over
the graph is finite and that no node waits for a failed one.  `InvocationsEnd` assumes
that the clock runs (`Expire`) and that a client goes on with what it does alone;
of the service nothing, not even that it closes a stream.  A line that trickles in
byte by byte is excluded, as `docs/reference/cli.md:187-190` says.

## 5. What the runs disagree with

* **`overlapping_routes`** (`pkg/lifecycle.py:208`).  `apply_route_plan` returns
  `completed` with the inspection made after the DEFAULT phase; that phase checks
  DEFAULT only.  When another operator moves the alias between the alias phase
  and the DEFAULT phase, a completed report shows the alias on the other
  version.  `docs/guides/lifecycle.md:136-137` and REQ-025 line 22 say the final
  owner is verified and conflicts are detected.
* **`skill_vars`** (`pkg/commands/skill.py:105`).  `skill plan`, and a `skill
  upload` that failed, print the same `dbt_vars` as one that succeeded, although
  `agent_render.sql:88-89` says the digest is supplied after the folder was
  uploaded and verified.  Given to a direct `dbt build`, whose readiness check
  asks for `SKILL.md` only, they commit a version over a partial folder, whose
  text changes when the upload is completed.

Documented limits that the models confirm, and that are no findings: two deploys
that ignore the shared concurrency key (`docs/guides/developer-ci-workflow.md:312`)
can label one specification with the hash of another
(`docs/guides/lifecycle.md:99-100` claims no recovery for concurrent writers), and
a promise about DEFAULT does not survive an overlapping drop.  An edit of a skill
under its own upload can leave a content folder that later uploads refuse.  Two
first acceptances of a baseline may overlap, and the later one wins
(`ReplacedByForce` names the case).  The baseline state in a report is that of the
plan, also when the gate found another one.  Where traces lag, two artifacts that
record no judge compare as equal (`pkg/eval/compare.py:17-23`), and so does any
artifact with a baseline from before judges were observed: a pass is then no proof of
a common judge, and `PassedIsEarned` claims none (`JudgeKnown`).  Where the default
rolled under a run, the record names one of two judges, and a pass says that this one
scored on both sides, not that no other did.  In the live proof,
two overlapping jobs may drop what the other made after they began: only objects older
than a job are protected from it (`DropsNothingOlder`), the rest is left to the shared
concurrency group.  There, too, an
object of a statement that outlived a failed or interrupted command may appear after
a completed cleanup; after a timeout it cannot, because no cleanup completes
(`CompletedLeavesNothing` names the cases).

## 6. Proofs

The theorems hold for every set of processes, clients, contents, files and for
every bound, under the named assumptions of the modules only; an additional
hypothesis is written in the theorem.

| Module | Theorem | Says |
|---|---|---|
| `AgentLifecycle_proofs` | `TypeCorrect` | types, overlapping or not |
| | `SerialCorrect` | the inductive invariant under a shared key |
| | `LabelsAreTrue`, `ContentCommittedOnce`, `PromisesAreKept` | three safety properties under the key; the second without `force_agent_recreate` |
| | `TruthCorrect` | the stronger invariant under the key: what running commands can show |
| | `ReportsAreTrue`, `RetriesConverge` | reports are facts; one clean retry finishes the job |
| | `CompletedRoutesOwnTheirAlias` | under the key, what `overlapping_routes` shows violated without it |
| | `PromisesSurviveOverlap` | `PromiseKept` for commands that overlap, fail and are killed, without drops (`NoDrops`) |
| `VersionHistory_proofs` | `HistoryImplemented` | the statements implement the abstract history |
| | `UnfinishedIsFrozen` | the action property about interrupted creations |
| `EvalRun_proofs` | `TypeCorrect`, `SafeCorrect` | types; the inductive invariant |
| | `NamedRunCorrect`, `SnapshotCorrect`, `MeasuredCorrect` | rows of the named run; the snapshot; the version, with complete traces |
| | `OwnCorrect`, `NothingAbandoned`, `EvidenceCorrect` | while no two running evaluations share a name (`NamesApart`): no second run beside a running one; artifacts stay |
| | `MeasuredDespiteLag` | the version, with lagging traces: `NamesApart`, no rollback of DEFAULT, more than one version to begin with |
| `SkillStage_proofs` | `TypeCorrect`, `SafeCorrect` | types; the inductive invariant |
| | `TextIsKept`, `NothingNewForUnchanged` | when only vars of successful uploads are used |
| | `OnlyInventoriedCorrect` | content folders gain listed files only, whatever is edited |
| | `CompletableCorrect` | an interrupted upload can be completed (`InterruptedIsCompletable`), when nothing is edited under it; proved only, no run checks it |
| `DeployApply_proofs` | `TypeCorrect`, `SafeCorrect` | types; the inductive invariant |
| | `FreshCorrect` | no plan of a manifest that was left behind |
| | `VerifiedCorrect`, `CleanCorrect` | VERIFIED is earned; a clean build earns it |
| | `ApprovedCorrect`, `ReviewedCorrect` | only approved Agents; only allowed databases, for every graph |
| | `HiddenCorrect` | reports are true, and complete but for failed nodes |
| `Verification_proofs` | `TypeCorrect` | types |
| | `PassesAreEarned` | what is reported as passed was earned, under the previewed plan and against a baseline with a judge in common wherever one is known, and without a baseline only if there was no file |
| | `BaselinesAreSound` | baselines pass their own gate |
| | `NothingReplacedUnasked` | a baseline is replaced by `--force`, or in a race of first acceptances |
| | `ReportsAreTrue` | a report accounts for every suite and every candidate paid for |
| `Invocation_proofs` | `SmokeReports` | reports stop at the first failure and are VERIFIED only if every check passed, for every stream |
| | `PassesAreAnswered` | what counts as passed is answered by the stream, read as a whole, whatever its lines and limits |
| | `EvidenceIsKept` | the events of every stream, broken off or not, are what its lines say; an artifact that was written holds them for good |
| | `ArtifactsAreKept` | the half of it about files, as an invariant (`ArtifactsKept`) |
| `LiveProof_proofs` | `TypeCorrect` | types, and that cleanups are authorized |
| | `OldObjectsAreSafe` | nothing older than a job is dropped or replaced for it |
| | `CleanupIsPossible` | what a job made, its attestation lets it drop |
| | `UnknownStateFreezes` | an unknown state ends all changes of a job |
| | `CompletionIsClean` | a completed proof retired its Agents; a completed cleanup left nothing |

How the arguments go.

* *Lifecycle.*  `LabelTruth` alone is not inductive: a deploy labels the newest
  version on the belief that it committed it.  `SerialInv` therefore adds what a
  running command may believe at each of its steps (the draft holds its
  specification after MODIFY LIVE, the newest version is its own after COMMIT, no
  version carries its label before), which only the shared key makes true, and
  that an unlabelled first version with the creation marker is the sign of an
  interrupted creation.  The refinement maps each native statement to a step of
  `VersionHistory` or to a stutter; the invariant supplies that COMMIT never
  repeats a content.

  Reports are about the end of a command, so `ReportTruth` and `RetryConverges` need
  an invariant about its middle.  `TruthInv` says of every running command what it
  can show for the phases it has listed (`DeployCourse`, `RouteCourse`,
  `DropCourse`: the version has its label once the phase says `version`, the alias
  is on the target once it says `alias`, and so on), and that its status is a
  failure only if it met a fault, an unfinished creation or a missing version.
  `Heard` adds that nothing happens between the end of a command and its report, so
  a report is about the Agent as it still is.  `OwnerShown` does the same for the
  inspection that a completed route returns.

  `PromisesSurviveOverlap` has an invariant of its own, since without the key nothing
  of `SerialInv` is true.  `PromiseInv` only keeps what no step but a drop takes
  away: an Agent whose DEFAULT is explicit stays one, a promise is the DEFAULT that
  was set last, and a route that is about to promise has an explicit DEFAULT to see.  `NoDrops` cannot be
  removed: a route that is overtaken by a drop and a creation promises the version of
  an Agent that nothing pins.
* *Evaluation.*  `SafeInv` follows the data: native runs are sound (what a run
  ingested lies between the table at START and now, and its trace lists its
  invocations), so what a client holds of its run is sound at each step, so the
  candidate it writes is.  `Onward` states what anybody's step may do to a run
  that a client watches; it makes the argument independent of who shares a name.

  Three results need `NamesApart`, stated as a temporal hypothesis because a name may
  be used again later.  Names carry the second at which an evaluation began, so it
  says that two evaluations of one Agent and suite do not begin in the same second,
  nor are given one name while both run; `eval_shared_name` is the run without it.
  `OwnInv` then says that what a client has given up waiting for, or has seen end, no
  longer invokes the Agent (`Settled`, `OwnSound`), and that nobody can write the
  artifact whose absence a client has looked up.  `LagInv` follows the version: a
  client's config is the one it staged, DEFAULT only moves forward, and so what two
  equal provenance reads enclose was scored on one version, whatever the trace
  omits.  If the Agent begins with one version, an unversioned request can reach its
  LIVE draft, and a commit during the run lets those rows pass as VERSION$1: that is
  why `MeasuredDespiteLag` has `1 \notin FirstVersions`.
* *Skills.*  `VersionsKeepTheirText` is about folders of versions; `SafeInv` is
  about every folder that was ever reported as verified.  A verified folder holds
  what it is named after, and stays so because a copy without overwrite can only
  add files the digest lists, all of which are there.  Clients, printed vars and
  versions name verified folders only.  Uniqueness of versions follows because
  what is hashed is then a function of the paths.

* *Deploy.*  `ReviewedResources` compares two traversals of one graph: the walk of
  the command and dbt's own selection.  The invariant of the walk (`Walked`: the
  parents of what was visited are visited or pending) makes the visited set closed
  under parents once nothing is pending; dbt's selection is the least closed set
  with the Agents in it, so it is covered (`ClosedCoversSelection`).  `Scheduled`
  follows each selected node through the build, says that running Agents are
  approved ones, and that none is done without LIVE in the log; VERIFIED, and its
  converse `CleanIsVerified`, follow from it.

* *Verification.*  The invariant follows an artifact: whatever is filed was built by
  `build_candidate` (`Filed`), what an acceptance holds is eligible and of its suite
  (`AcceptsOK`), so baselines are; `EligibleGatesItself` shows that an eligible
  artifact does not regress against itself.  For a verify, `OK` says at each step
  what it has bound so far: the plan rendered after the build is the previewed one,
  and a loaded candidate has its suite, policy and version; `Earned` is stable
  afterwards, since results keep copies of what was compared.  Every artifact, whoever
  wrote it, records for a metric a judge that scored it or none (`Candidates`), so
  records that agree on a judge have it in common (`SameRecordsSameJudges`); the
  baseline that was looked for and not found was not there (`absent`).  `Awaited` says what
  an acceptance found when it decided to write, which is all that protects a
  baseline from being replaced.  `ReportInv` is about the list of results: while a
  verify goes on, exactly the suites before the current one have results, all of them
  decided and their candidates named, and a failure fills in the rest as `not_run`.
* *Smokes.*  The report is a counter of checks: those verified are a prefix of those
  opened, at most one ahead, and a command that is under way has one left
  (`Undecided`, `OpenedOnce`, `Reported`); what the stream held does not matter for
  that.  `ArtifactInv` is about the
  files: each one that is being filled has one writer and is torn until it is done
  (`Filling`), which is what creating it exclusively is for, so no other command can
  reach what was saved.
* *Streams.*  `Framed` says what a stream means by looking at all of it: for each bound,
  the data since the bound before and the name before it, unless the stream was over
  earlier.  The reader has two registers and a list.  `Streamed` relates them: at the
  end of the lines so far the registers are what the definitions say of the next
  bound, the list is `Framed`, nothing was over.  One more line keeps this
  (`LineStays`, `BoundStays`, `BoundEnds`), because it changes nothing that was said
  before it (`DataAppend`, `NameAppend`, `EventsAppend`, `FramedAppend`) and moves the
  definitions at the end as it moves the registers (`SinceNext`, `DataNext`,
  `NameNext`, `FramedNext`).  `Completed` is what is left of it when the answer is
  complete, and `Effect` what a step does to it.  `Limits` is about the one line that
  brings two events: the limit cuts before the second, so what is kept is still what
  the lines said.  Two facts are proved by induction, which the library offers for
  predicates only: `LeastOf` and `SetInduction` give it for sets of numbers, from
  the well-founded order of finite sets; with them `FlattenAppend` says what the
  library's `FlattenSeq`, a recursive function, does with one more sequence, and
  `LatestIn` that a bounded set has a latest element.
* *Live proof.*  `MutationsAreAuthorized` is strengthened to statements: whatever is
  still under way for a job is authorized by its file (`Authority`).
  `DropsNothingOlder` needs that an authorization was only ever given when nothing
  older was left (`Clearance`): between the preflight's looks, what is older lies
  ahead of it (`Ahead`), no step of anybody adds something older than a job that has
  begun, and a job with a file never begins again.  `ActorsStay` is the one argument
  for all actions: only actors, jobs that are authorized and clear, change objects.
  `UnknownFreezes` follows from what a process may believe (`ProcOK`).
  `CompletedLeavesNothing` is about an ending again: `Tight` says where in the script
  a process is (`Course`) and which names a cleanup has found free since its own drops
  (`Closing`).  A proof completes only after its last two commands dropped both
  Agents, with no failure and nothing under way; a name that was found free stays free
  of what the job made, because a job in doubt cannot complete and nothing of it is
  under way otherwise but what a failure or a kill left.

Only model-checked: liveness (`CommandsEnd`, `EvaluationsEnd`, `DeployEnds`,
`InvocationsEnd`), which is out of the prover's reach.  Every other property that a run
checks is a theorem, some with a hypothesis that the table above names; without its
hypothesis `NoRunAbandoned`, `EvidenceKept` of the evaluation and
`PassedMeasuredIntended` with lagging traces are checked in `eval_drift`, where one
client makes `NamesApart` true.
The two violations are of course not theorems: `TextIsKept` names the hypothesis
that `skill_vars` drops, `CompletedRoutesOwnTheirAlias` the one that
`overlapping_routes` drops.

## 7. Not modelled

* Identity checks on names, profile and comment text, pre- and post-hooks, MCP
  attachment, the specification itself: rendering and data selection.
* The helper call with `reconcile_alias=false`; statements that take effect on the
  server long after their client died.
* Plan rendering of evaluations, a judge that rolls under an `eval run` (`Verification`
  lets it roll under a verify), torn writes of the artifacts in `EvalRun`; clients
  that share an artifact directory are in `Verification` only, where a candidate that
  another one replaced is not gated.
* `eval gate` and `eval compare`, which print `Compare` of two files; the shape
  checks of artifacts, which are "readable or not" here; scores below the average of
  a metric; a checkout that brings another baseline rather than none.
* Git skills, symlink and naming checks of the skill inventory, the stage
  preflight, stage paths shared by several Agents.
* The dry run and `--no-parse` of a deploy, selector text and the prefixes it may
  match, a dbt that outlives its killed command.
* Answer text, SQL, charts and metadata of an invocation, the HTTP request, and the
  resolution of names before the first call.
* The native evaluation macros: START, STATUS until a terminal token, one table, one
  query; `EvalRun` has the service behind them.  They read DEFAULT when they write
  the rows (`eval_run.sql:73`), so a promotion during the run stamps another version;
  the route is offered without baselines (`docs/guides/evaluations.md:304-308`).
* Initialization and scaffold: one process computes texts and writes files one by
  one; what may be wrong is in the text.
* Dataset validation, configuration, diagnostics, argument parsing: functions
  without state, resolution of settings and I/O.
* `run_mutation_gate.py`, `release_preflight.py`, `verify_installed_wheel.py`: tools
  that build and inspect files in sequence, with no shared state.
