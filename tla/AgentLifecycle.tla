--------------------------- MODULE AgentLifecycle ---------------------------
(***************************************************************************)
(* One Snowflake Agent object and the commands that change it: a deploy    *)
(* (the cortex_agent materialization), a route (agent promote / agent      *)
(* rollback) and a drop (agent drop).  Agent DDL is not transactional: a   *)
(* command is a sequence of separate statements, each of which may fail,   *)
(* take effect without its acknowledgement arriving, or be the last one    *)
(* before the process dies.  One action is one statement (or one           *)
(* inspection, which reads the Agent at one instant).                      *)
(*                                                                         *)
(* A version's content stands for the pair (specification, staged skill    *)
(* hash) a deploy computes before it touches the Agent; a label is the     *)
(* pair of hashes in a version comment, NoContent when there is none.      *)
(***************************************************************************)
EXTENDS Integers, Sequences

CONSTANTS
  Process,       \* operating-system processes that run commands
  Content,       \* what a deploy may ask for
  Foreign,       \* content of an Agent that was not created by the package
  NoContent,     \* no label, no LIVE draft
  Alias,         \* routing aliases of the Agent
  ModelAlias,    \* the alias the model deploys under (meta.deploy_alias)
  Command,       \* the commands operators issue
  NoCommand,
  Exclusive,     \* TRUE: commands share a concurrency key and never overlap
  MaxCommands,   \* bound: commands issued in a behaviour
  MaxFaults      \* bound: failed statements, lost acknowledgements and kills

CommandType ==
  [kind : {"deploy", "route", "drop"}, content : Content, force : BOOLEAN,
   alias : Alias, version : Nat, setDefault : BOOLEAN]

ASSUME ModelAliasIsAlias == ModelAlias \in Alias
ASSUME NoContentIsNew == NoContent \notin Content \cup {Foreign}
ASSUME ForeignIsNew == Foreign \notin Content
ASSUME CommandIsTyped == Command \subseteq CommandType
ASSUME NoCommandIsNew == NoCommand \notin Command
ASSUME DeployRoutesModelAlias ==
  \A c \in Command : c.kind = "deploy" => c.alias = ModelAlias
ASSUME ExclusiveIsBoolean == Exclusive \in BOOLEAN
ASSUME BoundsAreNat == MaxCommands \in Nat /\ MaxFaults \in Nat

VARIABLES
  (* the native Agent object; it exists iff it has a version *)
  versions,  \* VERSION$1, VERSION$2, ... each with its content and its label
  aliases,   \* the version each alias points at, 0 for none
  pinned,    \* the explicit DEFAULT_VERSION, 0 while DEFAULT follows LAST
  draft,     \* the specification in the LIVE draft, NoContent without a draft
  marker,    \* is the object comment still the one CREATE AGENT wrote
  (* the commands *)
  run,       \* what each process is executing
  report,    \* what the last command to end told its operator
  (* history and bounds *)
  promise,   \* the version a completed --set-default promised to keep serving
  started,   \* commands issued so far
  faults     \* faults so far

agentVars == <<versions, aliases, pinned, draft, marker>>
vars == <<agentVars, run, report, promise, started, faults>>
-----------------------------------------------------------------------------
(* The Agent as DESCRIBE AGENT and SHOW VERSIONS present it. *)

Exists == versions # <<>>
Last == Len(versions)

DefaultVersion == IF pinned # 0 THEN pinned ELSE Last

\* Slip: looking for the requested content only where DEFAULT points.
ManagedByDefault(c) ==
  {v \in DOMAIN versions : v = DefaultVersion /\ versions[v].label = c}

Managed(c) == {v \in DOMAIN versions : versions[v].label = c}

\* CREATE wrote the marker and nobody recorded what VERSION$1 was made from.
Unfinished == Exists /\ marker /\ versions[1].label = NoContent
-----------------------------------------------------------------------------
(* The state of a command and the ways it moves on. *)

Step ==
  {"exists", "guard", "managed", "compare", "create", "created", "draft",
   "addDraft", "spec", "commit", "label", "current", "before", "unset", "set",
   "after", "live", "addLive", "verifyLive", "comment", "profile", "plan",
   "defaultBefore", "setDefault", "defaultAfter", "inspect", "inventory",
   "drop", "absent"}

Phase ==
  {"version_committed", "metadata_reconciled", "alias_reconciled",
   "live_reconciled", "alias", "default", "drop"}

\* clean: no fault has struck this command so far.
Idle == [pc |-> "idle", cmd |-> NoCommand, target |-> 0, expected |-> 0,
         planned |-> 0, phases |-> {}, clean |-> TRUE]

NoReport == [cmd |-> NoCommand, status |-> "none", phases |-> {}, owner |-> 0,
             clean |-> FALSE]

At(p, step) == run[p].pc = step
Goto(p, step) == [run[p] EXCEPT !.pc = step]
Reached(r, phase) == [r EXCEPT !.phases = @ \cup {phase}]

\* The command goes on with local state r.
Continue(p, r) ==
  /\ run' = [run EXCEPT ![p] = r]
  /\ UNCHANGED <<report, faults>>

\* The command ends and reports; owner is the alias owner its result shows.
Finish(p, status, phases, clean) ==
  /\ run' = [run EXCEPT ![p] = Idle]
  /\ report' = [cmd |-> run[p].cmd, status |-> status, phases |-> phases,
                owner |-> aliases[run[p].cmd.alias], clean |-> clean]

\* apply_route_plan catches what route_alias and route_default raise and
\* inspects the Agent before it reports; it does not catch the plan read.
Caught == {"before", "unset", "set", "after",
           "defaultBefore", "setDefault", "defaultAfter"}

Raise(p, clean) ==
  IF run[p].cmd.kind = "route" /\ run[p].pc \in Caught
  THEN /\ run' = [run EXCEPT ![p] = [Goto(p, "inspect") EXCEPT !.clean = clean]]
       /\ UNCHANGED report
  ELSE Finish(p, IF run[p].cmd.kind = "drop" THEN "partial_failure" ELSE "failed",
              run[p].phases, clean)

\* The code or Snowflake refuses: nothing changes and the command raises.
Refuse(p) == /\ Raise(p, run[p].clean)
             /\ UNCHANGED <<agentVars, promise, started, faults>>

\* An inspection succeeds: the Agent is as it was.
Inspect(p, r) == /\ Continue(p, r)
                 /\ UNCHANGED <<agentVars, promise, started>>

\* A statement took effect: its acknowledgement arrives, or it is lost.
Issue(p, r) ==
  /\ \/ Continue(p, r)
     \/ /\ faults < MaxFaults
        /\ faults' = faults + 1
        /\ Raise(p, FALSE)
  /\ UNCHANGED started
-----------------------------------------------------------------------------
(* Deploy: the materialization from agent_exists to SET PROFILE. *)

AgentExists(p) ==
  /\ At(p, "exists")
  /\ Inspect(p, Goto(p, IF Exists THEN "guard" ELSE "create"))

\* Slip: an Agent that exists is taken to be complete.
AssertCreationUnchecked(p) ==
  /\ At(p, "guard")
  /\ IF Exists
     THEN Inspect(p, Goto(p, IF run[p].cmd.force THEN "draft" ELSE "managed"))
     ELSE Refuse(p)

AssertCreationComplete(p) ==
  /\ At(p, "guard")
  /\ IF Exists /\ ~Unfinished
     THEN Inspect(p, Goto(p, IF run[p].cmd.force THEN "draft" ELSE "managed"))
     ELSE Refuse(p)

\* The newest version labelled with the requested content, whatever DEFAULT is.
FindManagedVersion(p) ==
  /\ At(p, "managed")
  /\ \/ ~Exists /\ Refuse(p)
     \/ Exists /\ Managed(run[p].cmd.content) = {} /\ Inspect(p, Goto(p, "draft"))
     \/ \E v \in Managed(run[p].cmd.content) :
          /\ \A w \in Managed(run[p].cmd.content) : w <= v
          /\ Inspect(p, [Goto(p, "compare") EXCEPT !.target = v])

\* Slip: unchanged content is taken to mean an unchanged alias.
CompareAliasSkipped(p) ==
  /\ At(p, "compare")
  /\ IF ~Exists THEN Refuse(p) ELSE Inspect(p, Goto(p, "live"))

CompareAlias(p) ==
  LET owner == aliases[ModelAlias] IN
  /\ At(p, "compare")
  /\ IF ~Exists THEN Refuse(p)
     ELSE Inspect(p, [Goto(p, IF owner = run[p].target THEN "live" ELSE "before")
                        EXCEPT !.expected = owner])

CreateAgent(p) ==
  /\ At(p, "create")
  /\ \/ Exists /\ Refuse(p)
     \/ /\ ~Exists
        /\ versions' = <<[content |-> run[p].cmd.content, label |-> NoContent]>>
        /\ aliases' = [a \in Alias |-> 0]
        /\ pinned' = 0
        /\ draft' = NoContent
        /\ marker' = TRUE
        /\ promise' = 0
        /\ Issue(p, Goto(p, "created"))

DescribeCreated(p) ==
  /\ At(p, "created")
  /\ IF ~Exists THEN Refuse(p)
     ELSE Inspect(p, Reached([Goto(p, "label") EXCEPT !.target = DefaultVersion],
                             "version_committed"))

\* Slip: a draft that is there is committed as it is.
CheckDraftReuses(p) ==
  /\ At(p, "draft")
  /\ IF ~Exists THEN Refuse(p)
     ELSE Inspect(p, Goto(p, IF draft = NoContent THEN "addDraft" ELSE "commit"))

CheckDraft(p) ==
  /\ At(p, "draft")
  /\ IF ~Exists THEN Refuse(p)
     ELSE Inspect(p, Goto(p, IF draft = NoContent THEN "addDraft" ELSE "spec"))

\* ADD LIVE VERSION FROM LAST, before a COMMIT and in reconcile_live.
AddLiveVersion(p) ==
  /\ At(p, "addDraft") \/ At(p, "addLive")
  /\ \/ (~Exists \/ draft # NoContent) /\ Refuse(p)
     \/ /\ Exists /\ draft = NoContent
        /\ draft' = versions[Last].content
        /\ Issue(p, Goto(p, IF At(p, "addDraft") THEN "spec" ELSE "verifyLive"))
        /\ UNCHANGED <<versions, aliases, pinned, marker, promise>>

ModifyLiveVersion(p) ==
  /\ At(p, "spec")
  /\ \/ draft = NoContent /\ Refuse(p)
     \/ /\ draft # NoContent
        /\ draft' = run[p].cmd.content
        /\ Issue(p, Goto(p, "commit"))
        /\ UNCHANGED <<versions, aliases, pinned, marker, promise>>

\* Slip: the label is left to the statement after COMMIT.
CommitUnlabelled(p) ==
  /\ At(p, "commit")
  /\ \/ draft = NoContent /\ Refuse(p)
     \/ /\ draft # NoContent
        /\ versions' = Append(versions, [content |-> draft, label |-> NoContent])
        /\ draft' = NoContent
        /\ Issue(p, Reached([Goto(p, "label") EXCEPT !.target = Last + 1],
                            "version_committed"))
        /\ UNCHANGED <<aliases, pinned, marker, promise>>

\* COMMIT COMMENT: the version gets its label in the statement that creates it.
CommitVersion(p) ==
  /\ At(p, "commit")
  /\ \/ draft = NoContent /\ Refuse(p)
     \/ /\ draft # NoContent
        /\ versions' = Append(versions, [content |-> draft,
                                         label |-> run[p].cmd.content])
        /\ draft' = NoContent
        /\ Issue(p, Reached([Goto(p, "label") EXCEPT !.target = Last + 1],
                            "version_committed"))
        /\ UNCHANGED <<aliases, pinned, marker, promise>>

SetVersionComment(p) ==
  /\ At(p, "label")
  /\ \/ run[p].target \notin DOMAIN versions /\ Refuse(p)
     \/ /\ run[p].target \in DOMAIN versions
        /\ versions' = [versions EXCEPT ![run[p].target].label = run[p].cmd.content]
        /\ Issue(p, Reached(Goto(p, "current"), "metadata_reconciled"))
        /\ UNCHANGED <<aliases, pinned, draft, marker, promise>>

DescribeCurrentAliases(p) ==
  /\ At(p, "current")
  /\ IF ~Exists THEN Refuse(p)
     ELSE Inspect(p, [Goto(p, "before") EXCEPT !.expected = aliases[ModelAlias]])

\* Slip: ADD LIVE is issued over a draft that exists.
CheckLiveAlwaysAdds(p) ==
  /\ At(p, "live")
  /\ IF ~Exists THEN Refuse(p) ELSE Inspect(p, Goto(p, "addLive"))

CheckLive(p) ==
  /\ At(p, "live")
  /\ IF ~Exists THEN Refuse(p)
     ELSE Inspect(p, Goto(p, IF draft = NoContent THEN "addLive" ELSE "verifyLive"))

VerifyLive(p) ==
  /\ At(p, "verifyLive")
  /\ IF draft = NoContent THEN Refuse(p)
     ELSE Inspect(p, Reached(Goto(p, "comment"), "live_reconciled"))

\* SET COMMENT replaces the comment that marked the creation.
SetAgentComment(p) ==
  /\ At(p, "comment")
  /\ \/ ~Exists /\ Refuse(p)
     \/ /\ Exists
        /\ marker' = FALSE
        /\ Issue(p, Goto(p, "profile"))
        /\ UNCHANGED <<versions, aliases, pinned, draft, promise>>

\* The profile itself is not modelled; the node has succeeded after it.
SetProfile(p) ==
  /\ At(p, "profile")
  /\ IF ~Exists THEN Refuse(p)
     ELSE /\ Finish(p, "completed", run[p].phases, run[p].clean)
          /\ UNCHANGED <<agentVars, promise, started, faults>>
-----------------------------------------------------------------------------
(* route_alias_for_fqn: shared by deploys and by routes. *)

AliasStep(owner, target) ==
  IF owner = target THEN "after" ELSE IF owner = 0 THEN "set" ELSE "unset"

RouteBefore(p) ==
  LET owner == aliases[run[p].cmd.alias] IN
  /\ At(p, "before")
  /\ IF run[p].target \in DOMAIN versions /\ owner = run[p].expected
     THEN Inspect(p, Goto(p, AliasStep(owner, run[p].target)))
     ELSE Refuse(p)

UnsetAlias(p) ==
  /\ At(p, "unset")
  /\ \/ run[p].expected \notin DOMAIN versions /\ Refuse(p)
     \/ /\ run[p].expected \in DOMAIN versions
        /\ aliases' = [a \in Alias |->
                         IF aliases[a] = run[p].expected THEN 0 ELSE aliases[a]]
        /\ Issue(p, Goto(p, "set"))
        /\ UNCHANGED <<versions, pinned, draft, marker, promise>>

\* A version carries one custom alias: SET ALIAS displaces the one it has.
SetAlias(p) ==
  /\ At(p, "set")
  /\ \/ run[p].target \notin DOMAIN versions /\ Refuse(p)
     \/ /\ run[p].target \in DOMAIN versions
        /\ aliases' = [a \in Alias |->
                         IF a = run[p].cmd.alias THEN run[p].target
                         ELSE IF aliases[a] = run[p].target THEN 0 ELSE aliases[a]]
        /\ Issue(p, Goto(p, "after"))
        /\ UNCHANGED <<versions, pinned, draft, marker, promise>>

\* Slip: the postcondition is awaited instead of checked.
RouteAfterPolls(p) ==
  /\ At(p, "after")
  /\ \/ aliases[run[p].cmd.alias] # run[p].target /\ UNCHANGED vars
     \/ /\ aliases[run[p].cmd.alias] = run[p].target
        /\ \/ /\ run[p].cmd.kind = "deploy"
              /\ Inspect(p, Reached(Goto(p, "live"), "alias_reconciled"))
           \/ /\ run[p].cmd.kind = "route" /\ run[p].cmd.setDefault
              /\ Inspect(p, Reached(Goto(p, "defaultBefore"), "alias"))
           \/ /\ run[p].cmd.kind = "route" /\ ~run[p].cmd.setDefault
              /\ Finish(p, "completed", {"alias"}, run[p].clean)
              /\ UNCHANGED <<agentVars, promise, started, faults>>

RouteAfter(p) ==
  /\ At(p, "after")
  /\ \/ aliases[run[p].cmd.alias] # run[p].target /\ Refuse(p)
     \/ /\ aliases[run[p].cmd.alias] = run[p].target
        /\ \/ /\ run[p].cmd.kind = "deploy"
              /\ Inspect(p, Reached(Goto(p, "live"), "alias_reconciled"))
           \/ /\ run[p].cmd.kind = "route" /\ run[p].cmd.setDefault
              /\ Inspect(p, Reached(Goto(p, "defaultBefore"), "alias"))
           \/ /\ run[p].cmd.kind = "route" /\ ~run[p].cmd.setDefault
              /\ Finish(p, "completed", {"alias"}, run[p].clean)
              /\ UNCHANGED <<agentVars, promise, started, faults>>
-----------------------------------------------------------------------------
(* Route: apply_route_plan around route_alias and route_default. *)

ReadPlannedState(p) ==
  /\ At(p, "plan")
  /\ Inspect(p, [Goto(p, "before") EXCEPT !.expected = aliases[run[p].cmd.alias],
                                          !.planned = DefaultVersion])

\* Slip (released once, as 0.0.10): SET is skipped when DEFAULT already matches.
DefaultBeforeSkipsEqual(p) ==
  /\ At(p, "defaultBefore")
  /\ IF run[p].target \in DOMAIN versions /\ DefaultVersion = run[p].planned
     THEN Inspect(p, Goto(p, IF DefaultVersion = run[p].target THEN "defaultAfter"
                             ELSE "setDefault"))
     ELSE Refuse(p)

DefaultBefore(p) ==
  /\ At(p, "defaultBefore")
  /\ IF run[p].target \in DOMAIN versions /\ DefaultVersion = run[p].planned
     THEN Inspect(p, Goto(p, "setDefault"))
     ELSE Refuse(p)

\* Issued even when DEFAULT already resolves to the target.
SetDefaultVersion(p) ==
  /\ At(p, "setDefault")
  /\ \/ run[p].target \notin DOMAIN versions /\ Refuse(p)
     \/ /\ run[p].target \in DOMAIN versions
        /\ pinned' = run[p].target
        /\ promise' = 0
        /\ Issue(p, Goto(p, "defaultAfter"))
        /\ UNCHANGED <<versions, aliases, draft, marker>>

DefaultAfter(p) ==
  /\ At(p, "defaultAfter")
  /\ \/ DefaultVersion # run[p].target /\ Refuse(p)
     \/ /\ DefaultVersion = run[p].target
        /\ promise' = run[p].target
        /\ Finish(p, "completed", run[p].phases \cup {"default"}, run[p].clean)
        /\ UNCHANGED <<agentVars, started, faults>>

\* _inspect_state: the report is the same whether or not it can be read.
InspectFailure(p) ==
  /\ At(p, "inspect")
  /\ Finish(p, "partial_failure", run[p].phases, run[p].clean)
  /\ UNCHANGED <<agentVars, promise, started, faults>>
-----------------------------------------------------------------------------
(* Drop: cortex_agent__drop and the evidence drop_agent keeps of it. *)

\* Slip: the evidence claims the drop before the statement is acknowledged.
TakeInventoryClaims(p) ==
  /\ At(p, "inventory")
  /\ Inspect(p, Reached(Goto(p, "drop"), "drop"))

TakeInventory(p) ==
  /\ At(p, "inventory")
  /\ Inspect(p, Goto(p, "drop"))

DropAgent(p) ==
  /\ At(p, "drop")
  /\ versions' = <<>>
  /\ aliases' = [a \in Alias |-> 0]
  /\ pinned' = 0
  /\ draft' = NoContent
  /\ marker' = FALSE
  /\ promise' = 0
  /\ Issue(p, Reached(Goto(p, "absent"), "drop"))

VerifyAbsent(p) ==
  /\ At(p, "absent")
  /\ IF Exists THEN Refuse(p)
     ELSE /\ Finish(p, "completed", run[p].phases, run[p].clean)
          /\ UNCHANGED <<agentVars, promise, started, faults>>
-----------------------------------------------------------------------------
FirstStep(c) == CASE c.kind = "deploy" -> "exists"
                  [] c.kind = "route"  -> "plan"
                  [] c.kind = "drop"   -> "inventory"

\* An operator or a CI job starts a command.
StartCommand(p) ==
  /\ At(p, "idle")
  /\ Exclusive => \A q \in Process : At(q, "idle")
  /\ started < MaxCommands
  /\ \E c \in Command :
       run' = [run EXCEPT ![p] = [Idle EXCEPT !.pc = FirstStep(c), !.cmd = c,
                                              !.target = c.version]]
  /\ report' = NoReport
  /\ started' = started + 1
  /\ UNCHANGED <<agentVars, promise, faults>>

\* A statement or an inspection fails and nothing happened on the server.
StatementFails(p) ==
  /\ run[p].pc \in Step \ {"inspect"}
  /\ faults < MaxFaults
  /\ faults' = faults + 1
  /\ Raise(p, FALSE)
  /\ UNCHANGED <<agentVars, promise, started>>

\* The process is killed: nobody gets a report.
Kill(p) ==
  /\ run[p].pc \in Step
  /\ faults < MaxFaults
  /\ faults' = faults + 1
  /\ run' = [run EXCEPT ![p] = Idle]
  /\ UNCHANGED <<agentVars, report, promise, started>>

DeployStep(p) ==
  \/ AgentExists(p) \/ AssertCreationComplete(p) \/ FindManagedVersion(p)
  \/ CompareAlias(p) \/ CreateAgent(p) \/ DescribeCreated(p) \/ CheckDraft(p)
  \/ AddLiveVersion(p) \/ ModifyLiveVersion(p) \/ CommitVersion(p)
  \/ SetVersionComment(p) \/ DescribeCurrentAliases(p) \/ CheckLive(p)
  \/ VerifyLive(p) \/ SetAgentComment(p) \/ SetProfile(p)

RouteStep(p) ==
  \/ RouteBefore(p) \/ UnsetAlias(p) \/ SetAlias(p) \/ RouteAfter(p)
  \/ ReadPlannedState(p) \/ DefaultBefore(p) \/ SetDefaultVersion(p)
  \/ DefaultAfter(p) \/ InspectFailure(p)

DropStep(p) == TakeInventory(p) \/ DropAgent(p) \/ VerifyAbsent(p)

CommandStep(p) == DeployStep(p) \/ RouteStep(p) \/ DropStep(p)

\* Every command has ended and the operators issue no other.
Rest ==
  /\ started = MaxCommands
  /\ \A p \in Process : At(p, "idle")
  /\ UNCHANGED vars

\* No Agent yet, or one the package did not create, with or without a draft.
Init ==
  /\ \/ versions = <<>> /\ draft = NoContent
     \/ /\ versions = <<[content |-> Foreign, label |-> NoContent]>>
        /\ draft \in {NoContent, Foreign}
  /\ aliases = [a \in Alias |-> 0]
  /\ pinned = 0
  /\ marker = FALSE
  /\ run = [p \in Process |-> Idle]
  /\ report = NoReport
  /\ promise = 0
  /\ started = 0
  /\ faults = 0

Next ==
  \/ \E p \in Process :
       StartCommand(p) \/ CommandStep(p) \/ StatementFails(p) \/ Kill(p)
  \/ Rest

\* A command that is running is executed to its end unless a fault stops it.
Fairness == \A p \in Process : WF_vars(CommandStep(p))

Spec == Init /\ [][Next]_vars
FairSpec == Spec /\ Fairness
-----------------------------------------------------------------------------
(* Properties. *)

Reports(kind) == report.cmd # NoCommand /\ report.cmd.kind = kind

VersionType == [content : Content \cup {Foreign}, label : Content \cup {NoContent}]

RunType == [pc : Step \cup {"idle"}, cmd : Command \cup {NoCommand}, target : Nat,
            expected : Nat, planned : Nat, phases : SUBSET Phase, clean : BOOLEAN]

ReportType ==
  [cmd : Command \cup {NoCommand}, phases : SUBSET Phase, owner : Nat, clean : BOOLEAN,
   status : {"none", "completed", "failed", "partial_failure"}]

AgentTyped ==
  /\ versions \in Seq(VersionType)
  /\ aliases \in [Alias -> Nat]
  /\ pinned \in Nat
  /\ draft \in Content \cup {Foreign, NoContent}
  /\ marker \in BOOLEAN

CommandsTyped ==
  /\ run \in [Process -> RunType]
  /\ \A p \in Process : run[p].pc # "idle" => run[p].cmd \in Command

\* Every variable has its type, and a process that is not idle runs a command.
TypeOK ==
  /\ AgentTyped
  /\ CommandsTyped
  /\ report \in ReportType
  /\ promise \in Nat
  /\ started \in 0..MaxCommands
  /\ faults \in 0..MaxFaults

\* A label says what the version was made from: a version that carries the
\* hashes of some content was committed, or created, with that content, however
\* many deploys died between MODIFY LIVE, COMMIT and the comment.
LabelTruth ==
  \A v \in DOMAIN versions :
    versions[v].label # NoContent => versions[v].label = versions[v].content

\* Content is committed at most once: a retry after any interruption (a lost
\* COMMIT acknowledgement included), a rollback or a return to older content
\* reuses the managed version (without force_agent_recreate).
NoDuplicateManaged ==
  \A v, w \in DOMAIN versions :
    versions[v].label # NoContent /\ versions[v].label = versions[w].label => v = w

\* An Agent whose creation was interrupted before VERSION$1 was labelled is not
\* built upon: no version, content or draft changes until it is dropped.
UnfinishedFrozen ==
  [][Unfinished => \/ versions' = <<>>
                   \/ /\ UNCHANGED <<draft, marker>>
                      /\ Len(versions') = Len(versions)
                      /\ versions'[1].content = versions[1].content]_vars

\* A version that a completed --set-default reported as serving keeps serving:
\* no later deploy, COMMIT, alias route, failure or kill moves DEFAULT, until a
\* later DEFAULT statement or a drop.
PromiseKept == promise # 0 => DefaultVersion = promise

\* What a deploy reports is so: each phase it names has its effect on the Agent,
\* and a completed deploy left the model alias on the newest version made from
\* the requested content, a LIVE draft, and no creation marker.
DeployReportTruth ==
  LET c == report.cmd.content IN
  Reports("deploy") =>
    /\ "version_committed" \in report.phases =>
         \E v \in DOMAIN versions : versions[v].content = c
    /\ "metadata_reconciled" \in report.phases => Managed(c) # {}
    /\ "alias_reconciled" \in report.phases => aliases[ModelAlias] \in Managed(c)
    /\ "live_reconciled" \in report.phases => draft # NoContent
    /\ report.status = "completed" =>
         /\ "live_reconciled" \in report.phases
         /\ aliases[ModelAlias] \in Managed(c)
         /\ \A v \in Managed(c) : v <= aliases[ModelAlias]
         /\ versions[aliases[ModelAlias]].content = c
         /\ ~marker

\* What a route reports is so: the alias points at the target as soon as the
\* report counts the alias phase, also when the DEFAULT phase then failed, and
\* DEFAULT is pinned, not merely equal, once the report counts that phase.
RouteReportTruth ==
  Reports("route") =>
    /\ "alias" \in report.phases => aliases[report.cmd.alias] = report.cmd.version
    /\ "default" \in report.phases => pinned = report.cmd.version
    /\ report.status = "completed" =>
         /\ "alias" \in report.phases
         /\ report.cmd.setDefault => "default" \in report.phases

\* A drop claims completion only for a drop that happened, and success only
\* when the Agent is gone.
DropReportTruth ==
  Reports("drop") /\ ("drop" \in report.phases \/ report.status = "completed")
    => ~Exists

\* Every report tells what happened to the Agent, whichever faults the command
\* met on the way.
ReportTruth == DeployReportTruth /\ RouteReportTruth /\ DropReportTruth

\* One undisturbed retry is enough: whatever state earlier failures, lost
\* acknowledgements and kills left behind, a command that runs without a fault
\* completes, unless it deploys onto an unfinished creation or routes to a
\* version that does not exist.
RetryConverges ==
  report.cmd # NoCommand /\ report.clean =>
    \/ report.status = "completed"
    \/ report.cmd.kind = "deploy" /\ Unfinished
    \/ report.cmd.kind = "route" /\ report.cmd.version \notin DOMAIN versions

\* A route that completes shows its operator the alias on the version it was
\* asked to move it to.
CompletedRouteOwnsAlias ==
  Reports("route") /\ report.status = "completed" => report.owner = report.cmd.version

\* Every command comes to an end: no state of the Agent makes one hang.
CommandsEnd == \A p \in Process : ~At(p, "idle") ~> At(p, "idle")
-----------------------------------------------------------------------------
(* The statements implement the version history: behind all the partial        *)
(* states, an operator sees each content published once and pins kept.         *)

History == INSTANCE VersionHistory
  WITH Content <- Content \cup {Foreign},
       history <- [v \in DOMAIN versions |-> versions[v].content],
       pin <- pinned,
       routes <- aliases

\* Commands under a shared concurrency key, without force_agent_recreate,
\* change the Agent only as the version history allows, statement by statement.
ImplementsHistory == History!HSpec
=============================================================================
