----------------------- MODULE AgentLifecycle_proofs -----------------------
(***************************************************************************)
(* Theorems about AgentLifecycle for every set of processes, contents,     *)
(* aliases and commands and for every bound.                               *)
(***************************************************************************)
EXTENDS AgentLifecycle, SequenceTheorems, TLAPS

-----------------------------------------------------------------------------
(* Type correctness.  The lemmas say what the ways a command moves on do to  *)
(* the commands' own state; an action is then one of them plus its effect on *)
(* the Agent.                                                                *)

CommandDone == {"none", "completed", "failed", "partial_failure"}

LEMMA IdleTyped == Idle \in RunType /\ Idle.pc = "idle"
  BY BoundsAreNat DEF Idle, RunType, Step, Phase

LEMMA GotoTyped ==
  ASSUME TypeOK, NEW p \in Process, NEW s \in Step, run[p].pc # "idle"
  PROVE  /\ Goto(p, s) \in RunType
         /\ Goto(p, s) = [run[p] EXCEPT !.pc = s]
         /\ Goto(p, s).cmd \in Command
         /\ run[p].cmd \in CommandType
  BY CommandIsTyped DEF TypeOK, CommandsTyped, RunType, Goto

LEMMA ContinueTyped ==
  ASSUME TypeOK, NEW p \in Process, NEW r \in RunType, r.cmd \in Command,
         Continue(p, r)
  PROVE  CommandsTyped' /\ report' \in ReportType /\ faults' \in 0..MaxFaults
  BY DEF TypeOK, CommandsTyped, Continue

LEMMA FinishTyped ==
  ASSUME TypeOK, NEW p \in Process, run[p].pc # "idle",
         NEW status \in CommandDone, NEW phases \in SUBSET Phase,
         NEW clean \in BOOLEAN, Finish(p, status, phases, clean)
  PROVE  CommandsTyped' /\ report' \in ReportType
<1>1. run[p].cmd \in Command /\ run[p].cmd.alias \in Alias
  BY CommandIsTyped DEF TypeOK, CommandsTyped, CommandType
<1>2. aliases[run[p].cmd.alias] \in Nat
  BY <1>1 DEF TypeOK, AgentTyped
<1>3. report' \in ReportType
  BY <1>1, <1>2 DEF Finish, ReportType, CommandDone
<1>4. CommandsTyped'
  BY IdleTyped DEF Finish, TypeOK, CommandsTyped
<1> QED BY <1>3, <1>4

LEMMA RaiseTyped ==
  ASSUME TypeOK, NEW p \in Process, run[p].pc # "idle", NEW clean \in BOOLEAN,
         Raise(p, clean)
  PROVE  CommandsTyped' /\ report' \in ReportType
<1>1. CASE run[p].cmd.kind = "route" /\ run[p].pc \in Caught
  <2> DEFINE r == [Goto(p, "inspect") EXCEPT !.clean = clean]
  <2>0. Goto(p, "inspect") \in RunType /\ Goto(p, "inspect").cmd \in Command
    BY GotoTyped DEF Step
  <2>1. r \in RunType /\ r.cmd \in Command
    BY <2>0 DEF RunType
  <2>2. run' = [run EXCEPT ![p] = r] /\ UNCHANGED report
    BY <1>1 DEF Raise
  <2> QED BY <2>1, <2>2 DEF TypeOK, CommandsTyped
<1>2. CASE ~(run[p].cmd.kind = "route" /\ run[p].pc \in Caught)
  <2>1. run[p].phases \in SUBSET Phase
    BY DEF TypeOK, CommandsTyped, RunType
  <2> QED BY <1>2, <2>1, FinishTyped DEF Raise, CommandDone
<1> QED BY <1>1, <1>2

LEMMA RefuseTyped ==
  ASSUME TypeOK, NEW p \in Process, run[p].pc # "idle", Refuse(p)
  PROVE  TypeOK'
<1>1. run[p].clean \in BOOLEAN
  BY DEF TypeOK, CommandsTyped, RunType
<1>2. CommandsTyped' /\ report' \in ReportType
  BY <1>1, RaiseTyped DEF Refuse
<1> QED BY <1>2 DEF Refuse, TypeOK, AgentTyped, agentVars

LEMMA InspectTyped ==
  ASSUME TypeOK, NEW p \in Process, NEW r \in RunType, r.cmd \in Command,
         Inspect(p, r)
  PROVE  TypeOK'
<1>1. CommandsTyped' /\ report' \in ReportType /\ faults' \in 0..MaxFaults
  BY ContinueTyped DEF Inspect
<1> QED BY <1>1 DEF Inspect, TypeOK, AgentTyped, agentVars

LEMMA IssueTyped ==
  ASSUME TypeOK, NEW p \in Process, run[p].pc # "idle", NEW r \in RunType,
         r.cmd \in Command, Issue(p, r)
  PROVE  /\ CommandsTyped'
         /\ report' \in ReportType
         /\ started' \in 0..MaxCommands
         /\ faults' \in 0..MaxFaults
<1>1. started' \in 0..MaxCommands
  BY DEF Issue, TypeOK
<1>2. CASE Continue(p, r)
  BY <1>1, <1>2, ContinueTyped
<1>3. CASE faults < MaxFaults /\ faults' = faults + 1 /\ Raise(p, FALSE)
  <2>1. faults' \in 0..MaxFaults
    BY <1>3, BoundsAreNat DEF TypeOK
  <2> QED BY <1>1, <1>3, <2>1, RaiseTyped
<1> QED BY <1>2, <1>3 DEF Issue

LEMMA ReachedTyped ==
  ASSUME NEW r \in RunType, NEW phase \in Phase
  PROVE  /\ Reached(r, phase) \in RunType
         /\ Reached(r, phase).cmd = r.cmd
  BY DEF Reached, RunType

LEMMA VersionNumbersTyped ==
  ASSUME TypeOK
  PROVE  /\ Last \in Nat
         /\ DOMAIN versions = 1..Last
         /\ DefaultVersion \in Nat
         /\ Exists => Last \in DOMAIN versions
         /\ \A a \in Alias : aliases[a] \in Nat
<1>1. Last \in Nat /\ DOMAIN versions = 1..Last
  BY LenProperties DEF TypeOK, AgentTyped, Last
<1>2. Exists => Last # 0
  BY EmptySeq DEF TypeOK, AgentTyped, Last, Exists
<1>3. DefaultVersion \in Nat
  BY <1>1 DEF DefaultVersion, TypeOK, AgentTyped
<1> QED BY <1>1, <1>2, <1>3 DEF TypeOK, AgentTyped

LEMMA AliasStepTyped ==
  ASSUME NEW owner, NEW target
  PROVE  AliasStep(owner, target) \in {"after", "set", "unset"}
  BY DEF AliasStep

\* An action that only looks at the Agent keeps the types.
LEMMA DeployInspectionsTyped ==
  ASSUME TypeOK, NEW p \in Process,
         \/ AgentExists(p) \/ AssertCreationComplete(p) \/ FindManagedVersion(p)
         \/ CompareAlias(p) \/ DescribeCreated(p) \/ CheckDraft(p)
         \/ DescribeCurrentAliases(p) \/ CheckLive(p) \/ VerifyLive(p) \/ SetProfile(p)
  PROVE  TypeOK'
<1>0. run[p] \in RunType
  BY DEF TypeOK, CommandsTyped
<1>1. CASE AgentExists(p)
  <2>1. PICK s \in {"guard", "create"} : Inspect(p, Goto(p, s))
    BY <1>1 DEF AgentExists
  <2> QED BY <1>1, <2>1, GotoTyped, InspectTyped DEF AgentExists, At, Step
<1>2. CASE AssertCreationComplete(p)
  <2>1. Refuse(p) \/ \E s \in {"draft", "managed"} : Inspect(p, Goto(p, s))
    BY <1>2 DEF AssertCreationComplete
  <2> QED BY <1>2, <2>1, GotoTyped, InspectTyped, RefuseTyped
          DEF AssertCreationComplete, At, Step
<1>3. CASE FindManagedVersion(p)
  <2>1. \/ Refuse(p) \/ Inspect(p, Goto(p, "draft"))
        \/ \E v \in Nat : Inspect(p, [Goto(p, "compare") EXCEPT !.target = v])
    <3>1. Managed(run[p].cmd.content) \subseteq Nat
      BY VersionNumbersTyped DEF Managed
    <3> QED BY <1>3, <3>1 DEF FindManagedVersion
  <2>2. "compare" \in Step /\ "draft" \in Step /\ run[p].pc # "idle"
    BY <1>3 DEF FindManagedVersion, At, Step
  <2>3. ASSUME NEW v \in Nat
        PROVE  /\ [Goto(p, "compare") EXCEPT !.target = v] \in RunType
               /\ [Goto(p, "compare") EXCEPT !.target = v].cmd \in Command
    <3>1. Goto(p, "compare") \in RunType /\ Goto(p, "compare").cmd \in Command
      BY <2>2, GotoTyped
    <3> QED BY <3>1 DEF RunType
  <2> QED BY <2>1, <2>2, <2>3, GotoTyped, InspectTyped, RefuseTyped
<1>4. CASE CompareAlias(p)
  <2>1. "live" \in Step /\ "before" \in Step /\ run[p].pc # "idle"
    BY <1>4 DEF CompareAlias, At, Step
  <2>2. \/ Refuse(p)
        \/ \E s \in {"live", "before"} :
             Inspect(p, [Goto(p, s) EXCEPT !.expected = aliases[ModelAlias]])
    BY <1>4 DEF CompareAlias
  <2>3. ASSUME NEW s \in {"live", "before"}
        PROVE  /\ [Goto(p, s) EXCEPT !.expected = aliases[ModelAlias]] \in RunType
               /\ [Goto(p, s) EXCEPT !.expected = aliases[ModelAlias]].cmd \in Command
    <3>1. Goto(p, s) \in RunType /\ Goto(p, s).cmd \in Command
      BY <2>1, GotoTyped
    <3>2. aliases[ModelAlias] \in Nat
      BY ModelAliasIsAlias, VersionNumbersTyped
    <3> QED BY <3>1, <3>2 DEF RunType
  <2> QED BY <2>1, <2>2, <2>3, InspectTyped, RefuseTyped
<1>5. CASE DescribeCreated(p)
  <2> DEFINE r == [Goto(p, "label") EXCEPT !.target = DefaultVersion]
  <2>1. "label" \in Step /\ "version_committed" \in Phase /\ run[p].pc # "idle"
    BY <1>5 DEF DescribeCreated, At, Step, Phase
  <2>2. Goto(p, "label") \in RunType /\ Goto(p, "label").cmd \in Command
    BY <2>1, GotoTyped
  <2>3. r \in RunType /\ r.cmd \in Command
    BY <2>2, VersionNumbersTyped DEF RunType
  <2>4. Refuse(p) \/ Inspect(p, Reached(r, "version_committed"))
    BY <1>5 DEF DescribeCreated
  <2>5. Reached(r, "version_committed") \in RunType
        /\ Reached(r, "version_committed").cmd \in Command
    BY <2>1, <2>3, ReachedTyped
  <2> QED BY <2>1, <2>4, <2>5, InspectTyped, RefuseTyped
<1>6. CASE CheckDraft(p)
  <2>1. Refuse(p) \/ \E s \in {"addDraft", "spec"} : Inspect(p, Goto(p, s))
    BY <1>6 DEF CheckDraft
  <2> QED BY <1>6, <2>1, GotoTyped, InspectTyped, RefuseTyped DEF CheckDraft, At, Step
<1>7. CASE DescribeCurrentAliases(p)
  <2> DEFINE r == [Goto(p, "before") EXCEPT !.expected = aliases[ModelAlias]]
  <2>1. "before" \in Step /\ run[p].pc # "idle"
    BY <1>7 DEF DescribeCurrentAliases, At, Step
  <2>2. Goto(p, "before") \in RunType /\ Goto(p, "before").cmd \in Command
    BY <2>1, GotoTyped
  <2>3. r \in RunType /\ r.cmd \in Command
    BY <2>2, ModelAliasIsAlias, VersionNumbersTyped DEF RunType
  <2>4. Refuse(p) \/ Inspect(p, r)
    BY <1>7 DEF DescribeCurrentAliases
  <2> QED BY <2>1, <2>3, <2>4, InspectTyped, RefuseTyped
<1>8. CASE CheckLive(p)
  <2>1. Refuse(p) \/ \E s \in {"addLive", "verifyLive"} : Inspect(p, Goto(p, s))
    BY <1>8 DEF CheckLive
  <2> QED BY <1>8, <2>1, GotoTyped, InspectTyped, RefuseTyped DEF CheckLive, At, Step
<1>9. CASE VerifyLive(p)
  <2>1. "comment" \in Step /\ "live_reconciled" \in Phase /\ run[p].pc # "idle"
    BY <1>9 DEF VerifyLive, At, Step, Phase
  <2>2. Goto(p, "comment") \in RunType /\ Goto(p, "comment").cmd \in Command
    BY <2>1, GotoTyped
  <2>3. Refuse(p) \/ Inspect(p, Reached(Goto(p, "comment"), "live_reconciled"))
    BY <1>9 DEF VerifyLive
  <2> QED BY <2>1, <2>2, <2>3, ReachedTyped, InspectTyped, RefuseTyped
<1>10. CASE SetProfile(p)
  <2>1. \/ Refuse(p)
        \/ /\ Finish(p, "completed", run[p].phases, run[p].clean)
           /\ UNCHANGED <<agentVars, promise, started, faults>>
    BY <1>10 DEF SetProfile
  <2>2. run[p].pc # "idle" /\ run[p].phases \in SUBSET Phase /\ run[p].clean \in BOOLEAN
    BY <1>0, <1>10 DEF SetProfile, At, RunType
  <2>3. ASSUME Finish(p, "completed", run[p].phases, run[p].clean)
        PROVE  CommandsTyped' /\ report' \in ReportType
    BY <2>2, <2>3, FinishTyped DEF CommandDone
  <2> QED BY <2>1, <2>2, <2>3, RefuseTyped DEF TypeOK, AgentTyped, agentVars
<1> QED BY <1>1, <1>2, <1>3, <1>4, <1>5, <1>6, <1>7, <1>8, <1>9, <1>10

LEMMA DeployStatementsTyped ==
  ASSUME TypeOK, NEW p \in Process,
         \/ CreateAgent(p) \/ AddLiveVersion(p) \/ ModifyLiveVersion(p)
         \/ CommitVersion(p) \/ SetVersionComment(p) \/ SetAgentComment(p)
  PROVE  TypeOK'
<1>1. run[p].pc # "idle"
  BY DEF CreateAgent, AddLiveVersion, ModifyLiveVersion, CommitVersion,
         SetVersionComment, SetAgentComment, At
<1>2. run[p].cmd.content \in Content
  BY <1>1, CommandIsTyped DEF TypeOK, CommandsTyped, CommandType
<1>3. SUFFICES ASSUME ~Refuse(p)  PROVE TypeOK'
  BY <1>1, RefuseTyped
<1>4. \A s \in Step :
        /\ Goto(p, s) \in RunType /\ Goto(p, s).cmd \in Command
        /\ \A phase \in Phase : /\ Reached(Goto(p, s), phase) \in RunType
                                /\ Reached(Goto(p, s), phase).cmd \in Command
  BY <1>1, GotoTyped, ReachedTyped
\* It remains to look at the Agent.
<1>5. ASSUME NEW r \in RunType, r.cmd \in Command, Issue(p, r), AgentTyped',
             promise' \in Nat
      PROVE  TypeOK'
  BY <1>1, <1>5, IssueTyped DEF TypeOK
<1>6. CASE CreateAgent(p)
  <2>1. AgentTyped' /\ promise' \in Nat
    <3> DEFINE new == [content |-> run[p].cmd.content, label |-> NoContent]
    <3>1. new \in VersionType
      BY <1>2 DEF VersionType
    <3>2. versions' = <<new>>
      BY <1>3, <1>6 DEF CreateAgent
    <3> HIDE DEF new
    <3>3. versions' \in Seq(VersionType)
      BY <3>1, <3>2
    <3>4. /\ aliases' = [a \in Alias |-> 0] /\ pinned' = 0 /\ draft' = NoContent
          /\ marker' = TRUE /\ promise' = 0
      BY <1>3, <1>6 DEF CreateAgent
    <3> QED BY <3>3, <3>4 DEF AgentTyped
  <2>2. "created" \in Step /\ Issue(p, Goto(p, "created"))
    BY <1>3, <1>6 DEF CreateAgent, Step
  <2> QED BY <1>4, <1>5, <2>1, <2>2
<1>7. CASE AddLiveVersion(p)
  <2>1. versions[Last].content \in Content \cup {Foreign}
    <3>1. Exists /\ Last \in 1..Len(versions)
      BY <1>3, <1>7, VersionNumbersTyped DEF AddLiveVersion, Last
    <3>2. versions[Last] \in VersionType
      BY <3>1, ElementOfSeq DEF TypeOK, AgentTyped
    <3> QED BY <3>2 DEF VersionType
  <2>2. AgentTyped' /\ promise' \in Nat
    BY <1>3, <1>7, <2>1 DEF AddLiveVersion, AgentTyped, TypeOK
  <2>3. \E s \in Step : Issue(p, Goto(p, s))
    BY <1>3, <1>7 DEF AddLiveVersion, Step
  <2> QED BY <1>4, <1>5, <2>2, <2>3
<1>8. CASE ModifyLiveVersion(p)
  <2>1. AgentTyped' /\ promise' \in Nat
    BY <1>2, <1>3, <1>8 DEF ModifyLiveVersion, AgentTyped, TypeOK
  <2> QED BY <1>3, <1>4, <1>5, <1>8, <2>1 DEF ModifyLiveVersion, Step
<1>9. CASE CommitVersion(p)
  <2> DEFINE new == [content |-> draft, label |-> run[p].cmd.content]
             r == [Goto(p, "label") EXCEPT !.target = Last + 1]
  <2>1. draft # NoContent /\ versions' = Append(versions, new)
    BY <1>3, <1>9 DEF CommitVersion
  <2>2. new \in VersionType
    BY <1>2, <2>1 DEF VersionType, TypeOK, AgentTyped
  <2>3. versions' \in Seq(VersionType)
    BY <2>1, <2>2, AppendProperties DEF TypeOK, AgentTyped
  <2>4. AgentTyped' /\ promise' \in Nat
    BY <1>3, <1>9, <2>3 DEF CommitVersion, AgentTyped, TypeOK
  <2>5. r \in RunType /\ r.cmd \in Command
    <3>1. Goto(p, "label") \in RunType /\ Goto(p, "label").cmd \in Command
      BY <1>1, GotoTyped DEF Step
    <3>2. Last + 1 \in Nat
      BY VersionNumbersTyped
    <3> QED BY <3>1, <3>2 DEF RunType
  <2>6. /\ Reached(r, "version_committed") \in RunType
        /\ Reached(r, "version_committed").cmd \in Command
    BY <2>5, ReachedTyped DEF Phase
  <2>7. Issue(p, Reached(r, "version_committed"))
    BY <1>3, <1>9 DEF CommitVersion
  <2> QED BY <1>5, <2>4, <2>6, <2>7
<1>10. CASE SetVersionComment(p)
  <2> DEFINE t == run[p].target
             new == [versions[t] EXCEPT !.label = run[p].cmd.content]
  <2>1. t \in 1..Len(versions) /\ versions' = [versions EXCEPT ![t] = new]
    BY <1>3, <1>10, VersionNumbersTyped DEF SetVersionComment, Last
  <2>2. versions[t] \in VersionType
    BY <2>1, ElementOfSeq DEF TypeOK, AgentTyped
  <2>3. new \in VersionType
    BY <1>2, <2>2 DEF VersionType
  <2>4. versions' \in Seq(VersionType)
    BY <2>1, <2>3, ExceptSeq DEF TypeOK, AgentTyped
  <2>5. AgentTyped' /\ promise' \in Nat
    BY <1>3, <1>10, <2>4 DEF SetVersionComment, AgentTyped, TypeOK
  <2>6. Issue(p, Reached(Goto(p, "current"), "metadata_reconciled"))
    BY <1>3, <1>10 DEF SetVersionComment
  <2> QED BY <1>4, <1>5, <2>5, <2>6 DEF Step, Phase
<1>11. CASE SetAgentComment(p)
  <2>1. AgentTyped' /\ promise' \in Nat
    BY <1>3, <1>11 DEF SetAgentComment, AgentTyped, TypeOK
  <2> QED BY <1>3, <1>4, <1>5, <1>11, <2>1 DEF SetAgentComment, Step
<1> QED BY <1>6, <1>7, <1>8, <1>9, <1>10, <1>11

LEMMA RouteStepTyped ==
  ASSUME TypeOK, NEW p \in Process, RouteStep(p)
  PROVE  TypeOK'
<1>1. run[p].pc # "idle"
  BY DEF RouteStep, RouteBefore, UnsetAlias, SetAlias, RouteAfter, ReadPlannedState,
         DefaultBefore, SetDefaultVersion, DefaultAfter, InspectFailure, At
<1>2. /\ run[p] \in RunType /\ run[p].cmd \in Command
      /\ run[p].cmd.alias \in Alias /\ run[p].target \in Nat
  BY <1>1, CommandIsTyped DEF TypeOK, CommandsTyped, CommandType, RunType
<1>3. SUFFICES ASSUME ~Refuse(p)  PROVE TypeOK'
  BY <1>1, RefuseTyped
<1>4. \A s \in Step :
        /\ Goto(p, s) \in RunType /\ Goto(p, s).cmd \in Command
        /\ \A phase \in Phase : /\ Reached(Goto(p, s), phase) \in RunType
                                /\ Reached(Goto(p, s), phase).cmd \in Command
  BY <1>1, GotoTyped, ReachedTyped
<1>5. ASSUME NEW r \in RunType, r.cmd \in Command, Issue(p, r), AgentTyped',
             promise' \in Nat
      PROVE  TypeOK'
  BY <1>1, <1>5, IssueTyped DEF TypeOK
<1>6. ASSUME NEW status \in CommandDone, NEW phases \in SUBSET Phase,
             Finish(p, status, phases, run[p].clean),
             UNCHANGED <<agentVars, started, faults>>, promise' \in Nat
      PROVE  TypeOK'
  <2>1. CommandsTyped' /\ report' \in ReportType
    BY <1>1, <1>2, <1>6, FinishTyped DEF RunType
  <2> QED BY <1>6, <2>1 DEF TypeOK, AgentTyped, agentVars
<1>7. CASE RouteBefore(p)
  <2>1. \E s \in {"after", "set", "unset"} : Inspect(p, Goto(p, s))
    BY <1>3, <1>7, AliasStepTyped DEF RouteBefore
  <2> QED BY <1>4, <2>1, InspectTyped DEF Step
<1>8. CASE UnsetAlias(p)
  <2>1. AgentTyped' /\ promise' \in Nat
    BY <1>3, <1>8 DEF UnsetAlias, AgentTyped, TypeOK
  <2>2. Issue(p, Goto(p, "set"))
    BY <1>3, <1>8 DEF UnsetAlias
  <2> QED BY <1>4, <1>5, <2>1, <2>2 DEF Step
<1>9. CASE SetAlias(p)
  <2>1. AgentTyped' /\ promise' \in Nat
    BY <1>2, <1>3, <1>9 DEF SetAlias, AgentTyped, TypeOK
  <2>2. Issue(p, Goto(p, "after"))
    BY <1>3, <1>9 DEF SetAlias
  <2> QED BY <1>4, <1>5, <2>1, <2>2 DEF Step
<1>10. CASE RouteAfter(p)
  <2>1. \/ Inspect(p, Reached(Goto(p, "live"), "alias_reconciled"))
        \/ Inspect(p, Reached(Goto(p, "defaultBefore"), "alias"))
        \/ /\ Finish(p, "completed", {"alias"}, run[p].clean)
           /\ UNCHANGED <<agentVars, promise, started, faults>>
    BY <1>3, <1>10 DEF RouteAfter
  <2>2. CASE Inspect(p, Reached(Goto(p, "live"), "alias_reconciled"))
    BY <1>4, <2>2, InspectTyped DEF Step, Phase
  <2>3. CASE Inspect(p, Reached(Goto(p, "defaultBefore"), "alias"))
    BY <1>4, <2>3, InspectTyped DEF Step, Phase
  <2>4. CASE /\ Finish(p, "completed", {"alias"}, run[p].clean)
             /\ UNCHANGED <<agentVars, promise, started, faults>>
    BY <1>6, <2>4 DEF CommandDone, Phase, TypeOK
  <2> QED BY <2>1, <2>2, <2>3, <2>4
<1>11. CASE ReadPlannedState(p)
  <2> DEFINE r == [Goto(p, "before") EXCEPT !.expected = aliases[run[p].cmd.alias],
                                            !.planned = DefaultVersion]
  <2>1. Goto(p, "before") \in RunType /\ Goto(p, "before").cmd \in Command
    BY <1>4 DEF Step
  <2>2. r \in RunType /\ r.cmd \in Command
    BY <1>2, <2>1, VersionNumbersTyped DEF RunType
  <2>3. Inspect(p, r)
    BY <1>11 DEF ReadPlannedState
  <2> QED BY <2>2, <2>3, InspectTyped
<1>12. CASE DefaultBefore(p)
  <2>1. Inspect(p, Goto(p, "setDefault"))
    BY <1>3, <1>12 DEF DefaultBefore
  <2> QED BY <1>4, <2>1, InspectTyped DEF Step
<1>13. CASE SetDefaultVersion(p)
  <2>1. AgentTyped' /\ promise' \in Nat
    BY <1>2, <1>3, <1>13 DEF SetDefaultVersion, AgentTyped, TypeOK
  <2>2. Issue(p, Goto(p, "defaultAfter"))
    BY <1>3, <1>13 DEF SetDefaultVersion
  <2> QED BY <1>4, <1>5, <2>1, <2>2 DEF Step
<1>14. CASE DefaultAfter(p)
  <2>1. run[p].phases \cup {"default"} \in SUBSET Phase
    BY <1>2 DEF RunType, Phase
  <2>2. /\ Finish(p, "completed", run[p].phases \cup {"default"}, run[p].clean)
        /\ UNCHANGED <<agentVars, started, faults>> /\ promise' \in Nat
    BY <1>2, <1>3, <1>14 DEF DefaultAfter
  <2> QED BY <1>6, <2>1, <2>2 DEF CommandDone
<1>15. CASE InspectFailure(p)
  <2>1. run[p].phases \in SUBSET Phase
    BY <1>2 DEF RunType
  <2>2. /\ Finish(p, "partial_failure", run[p].phases, run[p].clean)
        /\ UNCHANGED <<agentVars, started, faults>> /\ promise' \in Nat
    BY <1>15 DEF InspectFailure, TypeOK
  <2> QED BY <1>6, <2>1, <2>2 DEF CommandDone
<1> QED BY <1>7, <1>8, <1>9, <1>10, <1>11, <1>12, <1>13, <1>14, <1>15 DEF RouteStep

LEMMA DropStepTyped ==
  ASSUME TypeOK, NEW p \in Process, DropStep(p)
  PROVE  TypeOK'
<1>1. run[p].pc # "idle"
  BY DEF DropStep, TakeInventory, DropAgent, VerifyAbsent, At
<1>2. /\ Goto(p, "drop") \in RunType /\ Goto(p, "drop").cmd \in Command
      /\ Goto(p, "absent") \in RunType /\ Goto(p, "absent").cmd \in Command
  BY <1>1, GotoTyped DEF Step
<1>3. CASE TakeInventory(p)
  BY <1>2, <1>3, InspectTyped DEF TakeInventory
<1>4. CASE DropAgent(p)
  <2> DEFINE r == Reached(Goto(p, "absent"), "drop")
  <2>1. r \in RunType /\ r.cmd \in Command
    BY <1>2, ReachedTyped DEF Phase
  <2>2. Issue(p, r)
    BY <1>4 DEF DropAgent
  <2>3. versions' \in Seq(VersionType)
    BY <1>4, EmptySeq DEF DropAgent
  <2>4. AgentTyped' /\ promise' \in Nat
    BY <1>4, <2>3 DEF DropAgent, AgentTyped
  <2> HIDE DEF r
  <2> QED BY <1>1, <2>1, <2>2, <2>4, IssueTyped DEF TypeOK
<1>5. CASE VerifyAbsent(p)
  <2>1. CASE Refuse(p)
    BY <1>1, <2>1, RefuseTyped
  <2>2. CASE ~Refuse(p)
    <3>1. run[p].phases \in SUBSET Phase /\ run[p].clean \in BOOLEAN
      BY DEF TypeOK, CommandsTyped, RunType
    <3>2. /\ Finish(p, "completed", run[p].phases, run[p].clean)
          /\ UNCHANGED <<agentVars, promise, started, faults>>
      BY <1>5, <2>2 DEF VerifyAbsent
    <3>3. CommandsTyped' /\ report' \in ReportType
      BY <1>1, <3>1, <3>2, FinishTyped DEF CommandDone
    <3> QED BY <3>2, <3>3 DEF TypeOK, AgentTyped, agentVars
  <2> QED BY <2>1, <2>2
<1> QED BY <1>3, <1>4, <1>5 DEF DropStep

LEMMA TypeOKInit == Init => TypeOK
<1> SUFFICES ASSUME Init  PROVE TypeOK
  OBVIOUS
<1>1. versions \in Seq(VersionType)
  <2> DEFINE adopted == [content |-> Foreign, label |-> NoContent]
  <2>1. adopted \in VersionType
    BY DEF VersionType
  <2>2. versions = <<>> \/ versions = <<adopted>>
    BY DEF Init
  <2> HIDE DEF adopted
  <2>3. CASE versions = <<>>
    BY <2>3, EmptySeq
  <2>4. CASE versions = <<adopted>>
    BY <2>1, <2>4
  <2> QED BY <2>2, <2>3, <2>4
<1>2. AgentTyped
  BY <1>1 DEF Init, AgentTyped
<1>3. CommandsTyped
  <2>1. run = [p \in Process |-> Idle]
    BY DEF Init
  <2> QED BY <2>1, IdleTyped DEF CommandsTyped
<1>4. report \in ReportType
  BY DEF Init, NoReport, ReportType
<1> QED BY <1>2, <1>3, <1>4, BoundsAreNat DEF Init, TypeOK

LEMMA TypeOKNext == TypeOK /\ [Next]_vars => TypeOK'
<1> SUFFICES ASSUME TypeOK, [Next]_vars  PROVE TypeOK'
  OBVIOUS
<1>1. ASSUME NEW p \in Process, StartCommand(p)  PROVE TypeOK'
  <2>1. PICK c \in Command :
          run' = [run EXCEPT ![p] = [Idle EXCEPT !.pc = FirstStep(c), !.cmd = c,
                                                 !.target = c.version]]
    BY <1>1 DEF StartCommand
  <2> DEFINE r == [Idle EXCEPT !.pc = FirstStep(c), !.cmd = c, !.target = c.version]
  <2>2. c.kind \in {"deploy", "route", "drop"} /\ c.version \in Nat
    BY CommandIsTyped DEF CommandType
  <2>3. FirstStep(c) \in Step
    BY <2>2 DEF FirstStep, Step
  <2>4. r \in RunType /\ r.cmd = c
    BY <2>2, <2>3, IdleTyped DEF RunType
  <2>5. CommandsTyped'
    <3>1. run' = [run EXCEPT ![p] = r]
      BY <2>1
    <3> HIDE DEF r
    <3> QED BY <2>4, <3>1 DEF TypeOK, CommandsTyped
  <2>6. report' \in ReportType
    BY <1>1 DEF StartCommand, NoReport, ReportType
  <2>7. started' \in 0..MaxCommands
    BY <1>1, BoundsAreNat DEF StartCommand, TypeOK
  <2> QED BY <1>1, <2>5, <2>6, <2>7 DEF StartCommand, TypeOK, AgentTyped, agentVars
<1>2. ASSUME NEW p \in Process, CommandStep(p)  PROVE TypeOK'
  BY <1>2, DeployInspectionsTyped, DeployStatementsTyped, RouteStepTyped, DropStepTyped
     DEF CommandStep, DeployStep
<1>3. ASSUME NEW p \in Process, StatementFails(p)  PROVE TypeOK'
  <2>1. CommandsTyped' /\ report' \in ReportType
    BY <1>3, RaiseTyped DEF StatementFails, Step
  <2>2. faults' \in 0..MaxFaults
    BY <1>3, BoundsAreNat DEF StatementFails, TypeOK
  <2> QED BY <1>3, <2>1, <2>2 DEF StatementFails, TypeOK, AgentTyped, agentVars
<1>4. ASSUME NEW p \in Process, Kill(p)  PROVE TypeOK'
  <2>1. CommandsTyped'
    BY <1>4, IdleTyped DEF Kill, TypeOK, CommandsTyped
  <2>2. faults' \in 0..MaxFaults
    BY <1>4, BoundsAreNat DEF Kill, TypeOK
  <2> QED BY <1>4, <2>1, <2>2 DEF Kill, TypeOK, AgentTyped, agentVars
<1>5. CASE UNCHANGED vars
  BY <1>5 DEF vars, agentVars, TypeOK, AgentTyped, CommandsTyped
<1> QED BY <1>1, <1>2, <1>3, <1>4, <1>5 DEF Next, Rest

\* In every behaviour, interleaved and interrupted in any way, every variable has
\* its type and every process that is not idle is executing an issued command.
THEOREM TypeCorrect == Spec => []TypeOK
<1>1. Init => TypeOK
  BY TypeOKInit
<1>2. TypeOK /\ [Next]_vars => TypeOK'
  BY TypeOKNext
<1> QED BY <1>1, <1>2, PTL DEF Spec

-----------------------------------------------------------------------------
(* Commands that share a concurrency key.  Each of them leaves the Agent in a *)
(* state from which the next one, with no memory of the first, is safe: that  *)
(* is AgentSound.  While one runs, Progress says what its later statements    *)
(* rely on; since no other command runs, nothing disturbs it.                 *)

OneCommand ==
  \A p, q \in Process : ~At(p, "idle") /\ ~At(q, "idle") => p = q

NoForce == \A c \in Command : ~c.force

\* A pin names a version, and a promise is kept by a pin.
PinsHold ==
  /\ pinned # 0 => pinned \in DOMAIN versions
  /\ promise # 0 => pinned = promise

\* Only VERSION$1 may lack a label: of an adopted Agent, or of a creation that
\* the marker still shows.
Recorded ==
  \A v \in DOMAIN versions :
    versions[v].label = NoContent =>
      v = 1 /\ (marker \/ versions[v].content = Foreign)

\* Aliases name versions, no two the same one.
Routed ==
  /\ \A a \in Alias : aliases[a] # 0 => aliases[a] \in DOMAIN versions
  /\ \A a, b \in Alias : aliases[a] = aliases[b] /\ aliases[a] # 0 => a = b

AgentSound ==
  /\ PinsHold
  /\ LabelTruth
  /\ Recorded
  /\ Routed
  /\ NoForce => NoDuplicateManaged

\* A deploy past these steps builds on a complete Agent ...
PastGuard ==
  {"managed", "compare", "draft", "addDraft", "spec", "commit", "current",
   "live", "addLive", "verifyLive", "comment", "profile"}
\* ... also while it routes its alias.
Routing == {"before", "unset", "set", "after"}
\* The steps that lead to a COMMIT.
Committing == {"draft", "addDraft", "spec", "commit"}

Progress(p) ==
  LET r == run[p] IN
  /\ r.pc \in PastGuard => ~Unfinished
  /\ r.pc \in Routing /\ r.cmd.kind = "deploy" => ~Unfinished
  /\ r.pc = "plan" => r.cmd.kind = "route"
  /\ r.pc \in Committing /\ ~r.cmd.force => Managed(r.cmd.content) = {}
  /\ r.pc = "commit" => draft = r.cmd.content
  /\ r.pc = "created" =>
       Last = 1 /\ pinned = 0 /\ versions[1].content = r.cmd.content
  /\ r.pc = "label" =>
       /\ r.target \in DOMAIN versions
       /\ versions[r.target].content = r.cmd.content
       /\ \/ Last = 1
          \/ versions[r.target].label = r.cmd.content /\ ~Unfinished
  /\ r.pc = "defaultAfter" => pinned = r.target

SerialInv ==
  /\ TypeOK
  /\ OneCommand
  /\ AgentSound
  /\ \A p \in Process : Progress(p)

\* The command ends, or (a route) is about to inspect what it left.
Stops(p) ==
  \E r \in RunType : r.pc \in {"idle", "inspect"} /\ run' = [run EXCEPT ![p] = r]

LEMMA RaiseStops ==
  ASSUME TypeOK, NEW p \in Process, run[p].pc # "idle", NEW clean \in BOOLEAN,
         Raise(p, clean)
  PROVE  Stops(p)
<1>1. CASE run[p].cmd.kind = "route" /\ run[p].pc \in Caught
  <2> DEFINE r == [Goto(p, "inspect") EXCEPT !.clean = clean]
  <2>1. Goto(p, "inspect") \in RunType /\ Goto(p, "inspect").pc = "inspect"
    BY GotoTyped DEF Step, TypeOK, CommandsTyped, RunType
  <2>2. r \in RunType /\ r.pc = "inspect"
    BY <2>1 DEF RunType
  <2> QED BY <1>1, <2>2 DEF Raise, Stops
<1>2. CASE ~(run[p].cmd.kind = "route" /\ run[p].pc \in Caught)
  BY <1>2, IdleTyped DEF Raise, Finish, Stops
<1> QED BY <1>1, <1>2

LEMMA RefuseStops ==
  ASSUME TypeOK, NEW p \in Process, run[p].pc # "idle", Refuse(p)
  PROVE  Stops(p) /\ UNCHANGED <<agentVars, promise>>
<1>1. run[p].clean \in BOOLEAN
  BY DEF TypeOK, CommandsTyped, RunType
<1> QED BY <1>1, RaiseStops DEF Refuse

LEMMA IssueMoves ==
  ASSUME TypeOK, NEW p \in Process, run[p].pc # "idle", NEW r, Issue(p, r)
  PROVE  run' = [run EXCEPT ![p] = r] \/ Stops(p)
  BY RaiseStops DEF Issue, Continue

\* What Goto and Reached leave alone.
LEMMA NextState ==
  ASSUME TypeOK, NEW p \in Process, NEW s
  PROVE  /\ Goto(p, s).pc = s
         /\ Goto(p, s).cmd = run[p].cmd
         /\ Goto(p, s).target = run[p].target
         /\ Goto(p, s).phases = run[p].phases
  BY DEF TypeOK, CommandsTyped, RunType, Goto

LEMMA ReachedState ==
  ASSUME NEW r \in RunType, NEW phase
  PROVE  /\ Reached(r, phase).pc = r.pc
         /\ Reached(r, phase).cmd = r.cmd
         /\ Reached(r, phase).target = r.target
         /\ Reached(r, phase).phases = r.phases \cup {phase}
  BY DEF RunType, Reached

\* While p runs, nobody else does, before and after its step.
LEMMA MovePreserves ==
  ASSUME SerialInv, NEW p \in Process, run[p].pc # "idle", NEW r,
         run' = [run EXCEPT ![p] = r], Progress(p)', AgentSound', TypeOK'
  PROVE  SerialInv'
<1>1. \A q \in Process : q # p => run'[q].pc = "idle"
  BY DEF SerialInv, OneCommand, At, TypeOK, CommandsTyped
<1>2. OneCommand'
  BY <1>1 DEF OneCommand, At
<1>3. ASSUME NEW q \in Process, q # p  PROVE Progress(q)'
  BY <1>1, <1>3 DEF Progress, PastGuard, Routing, Committing
<1> QED BY <1>2, <1>3 DEF SerialInv

LEMMA StopPreserves ==
  ASSUME SerialInv, NEW p \in Process, run[p].pc # "idle", Stops(p), AgentSound',
         TypeOK'
  PROVE  SerialInv'
<1>1. PICK r \in RunType :
        r.pc \in {"idle", "inspect"} /\ run' = [run EXCEPT ![p] = r]
  BY DEF Stops
<1>2. run'[p].pc \in {"idle", "inspect"}
  BY <1>1 DEF SerialInv, TypeOK, CommandsTyped
<1>3. Progress(p)'
  BY <1>2 DEF Progress, PastGuard, Routing, Committing
<1> QED BY <1>1, <1>3, MovePreserves

\* A step that leaves the Agent alone leaves it sound.
LEMMA SameAgentSound ==
  ASSUME AgentSound, UNCHANGED <<agentVars, promise>>
  PROVE  AgentSound'
  BY DEF AgentSound, PinsHold, LabelTruth, Recorded, Routed, NoDuplicateManaged,
         agentVars

LEMMA InspectEffect ==
  ASSUME TypeOK, NEW p \in Process, NEW r, Inspect(p, r)
  PROVE  /\ run' = [run EXCEPT ![p] = r] /\ run'[p] = r
         /\ UNCHANGED <<agentVars, promise, versions, pinned, draft, marker>>
         /\ Last' = Last /\ (Unfinished' <=> Unfinished)
  BY DEF TypeOK, CommandsTyped, Inspect, Continue, agentVars, Last, Unfinished, Exists

LEMMA InspectPreserves ==
  ASSUME SerialInv, NEW p \in Process, run[p].pc # "idle", NEW r, Inspect(p, r),
         Progress(p)', TypeOK'
  PROVE  SerialInv'
<1>1. run' = [run EXCEPT ![p] = r] /\ AgentSound'
  BY InspectEffect, SameAgentSound DEF SerialInv
<1> QED BY <1>1, MovePreserves

LEMMA RefusePreserves ==
  ASSUME SerialInv, NEW p \in Process, run[p].pc # "idle", Refuse(p), TypeOK'
  PROVE  SerialInv'
<1>1. Stops(p) /\ AgentSound'
  BY RefuseStops, SameAgentSound DEF SerialInv
<1> QED BY <1>1, StopPreserves

LEMMA FinishPreserves ==
  ASSUME SerialInv, NEW p \in Process, run[p].pc # "idle", NEW status, NEW phases,
         NEW clean, Finish(p, status, phases, clean), UNCHANGED <<agentVars, promise>>,
         TypeOK'
  PROVE  SerialInv'
<1>1. Stops(p)
  BY IdleTyped DEF Finish, Stops
<1> QED BY <1>1, SameAgentSound, StopPreserves DEF SerialInv

LEMMA DeployInspectionsSerial ==
  ASSUME SerialInv, NEW p \in Process, TypeOK',
         \/ AgentExists(p) \/ AssertCreationComplete(p) \/ FindManagedVersion(p)
         \/ CompareAlias(p) \/ DescribeCreated(p) \/ CheckDraft(p)
         \/ DescribeCurrentAliases(p) \/ CheckLive(p) \/ VerifyLive(p) \/ SetProfile(p)
  PROVE  SerialInv'
<1>1. run[p].pc # "idle" /\ TypeOK /\ Progress(p) /\ run[p] \in RunType
  BY DEF AgentExists, AssertCreationComplete, FindManagedVersion, CompareAlias,
         DescribeCreated, CheckDraft, DescribeCurrentAliases, CheckLive, VerifyLive,
         SetProfile, At, SerialInv, TypeOK, CommandsTyped
<1>2. SUFFICES ASSUME ~Refuse(p)  PROVE SerialInv'
  BY <1>1, RefusePreserves
<1>3. CASE AgentExists(p)
  <2>1. PICK s \in {"guard", "create"} : Inspect(p, Goto(p, s))
    BY <1>3 DEF AgentExists
  <2>2. run'[p].pc = s
    BY <1>1, <2>1, InspectEffect, NextState
  <2>3. Progress(p)'
    BY <2>2 DEF Progress, PastGuard, Routing, Committing
  <2> QED BY <1>1, <2>1, <2>3, InspectPreserves
<1>4. CASE AssertCreationComplete(p)
  <2>1. PICK s \in {"draft", "managed"} :
          Inspect(p, Goto(p, s)) /\ ~Unfinished /\ (s = "draft" => run[p].cmd.force)
    BY <1>2, <1>4 DEF AssertCreationComplete
  <2>2. run'[p].pc = s /\ run'[p].cmd = run[p].cmd /\ ~Unfinished'
    BY <1>1, <2>1, InspectEffect, NextState
  <2>3. Progress(p)'
    BY <2>1, <2>2 DEF Progress, PastGuard, Routing, Committing
  <2> QED BY <1>1, <2>1, <2>3, InspectPreserves
<1>5. CASE FindManagedVersion(p)
  <2>1. ~Unfinished
    BY <1>1, <1>5 DEF FindManagedVersion, At, Progress, PastGuard
  <2>2. CASE Managed(run[p].cmd.content) = {} /\ Inspect(p, Goto(p, "draft"))
    <3>1. /\ run'[p].pc = "draft" /\ run'[p].cmd = run[p].cmd /\ ~Unfinished'
          /\ versions' = versions
      BY <1>1, <2>1, <2>2, InspectEffect, NextState
    <3>2. Managed(run[p].cmd.content)' = {}
      BY <2>2, <3>1 DEF Managed
    <3>3. Progress(p)'
      BY <3>1, <3>2 DEF Progress, PastGuard, Routing, Committing
    <3> QED BY <1>1, <2>2, <3>3, InspectPreserves
  <2>3. ASSUME NEW v, Inspect(p, [Goto(p, "compare") EXCEPT !.target = v])
        PROVE  SerialInv'
    <3>0. [Goto(p, "compare") EXCEPT !.target = v].pc = "compare"
      BY <1>1 DEF RunType, Goto
    <3>1. run'[p].pc = "compare" /\ ~Unfinished'
      BY <1>1, <2>1, <2>3, <3>0, InspectEffect
    <3>2. Progress(p)'
      BY <3>1 DEF Progress, PastGuard, Routing, Committing
    <3> QED BY <1>1, <2>3, <3>2, InspectPreserves
  <2> QED BY <1>2, <1>5, <2>2, <2>3 DEF FindManagedVersion
<1>6. CASE CompareAlias(p)
  <2>1. PICK s \in {"live", "before"} :
          Inspect(p, [Goto(p, s) EXCEPT !.expected = aliases[ModelAlias]])
    BY <1>2, <1>6 DEF CompareAlias
  <2>2. ~Unfinished
    BY <1>1, <1>6 DEF CompareAlias, At, Progress, PastGuard
  <2>3. [Goto(p, s) EXCEPT !.expected = aliases[ModelAlias]].pc = s
    BY <1>1 DEF RunType, Goto
  <2>4. run'[p].pc = s /\ ~Unfinished'
    BY <1>1, <2>1, <2>2, <2>3, InspectEffect
  <2>5. Progress(p)'
    BY <2>4 DEF Progress, PastGuard, Routing, Committing
  <2> QED BY <1>1, <2>1, <2>5, InspectPreserves
<1>7. CASE DescribeCreated(p)
  <2> DEFINE r == [Goto(p, "label") EXCEPT !.target = DefaultVersion]
  <2>1. Exists /\ Inspect(p, Reached(r, "version_committed"))
    BY <1>2, <1>7 DEF DescribeCreated
  <2>2. Last = 1 /\ pinned = 0 /\ versions[1].content = run[p].cmd.content
    BY <1>1, <1>7 DEF DescribeCreated, At, Progress
  <2>3. r \in RunType /\ r.pc = "label" /\ r.cmd = run[p].cmd /\ r.target = 1
    <3>1. Goto(p, "label") \in RunType
      BY <1>1, GotoTyped DEF Step
    <3>2. DefaultVersion = 1
      BY <2>2 DEF DefaultVersion
    <3> QED BY <1>1, <3>1, <3>2, NextState DEF RunType
  <2> HIDE DEF r
  <2>4. /\ run'[p].pc = "label" /\ run'[p].cmd = run[p].cmd /\ run'[p].target = 1
        /\ Last' = 1 /\ versions' = versions
    BY <1>1, <2>1, <2>2, <2>3, InspectEffect, ReachedState
  <2>5. 1 \in DOMAIN versions'
    BY <1>1, <2>2, <2>4, VersionNumbersTyped
  <2>6. Progress(p)'
    BY <2>2, <2>4, <2>5 DEF Progress, PastGuard, Routing, Committing
  <2> QED BY <1>1, <2>1, <2>6, InspectPreserves
<1>8. CASE CheckDraft(p)
  <2>1. PICK s \in {"addDraft", "spec"} : Inspect(p, Goto(p, s))
    BY <1>2, <1>8 DEF CheckDraft
  <2>2. /\ ~Unfinished
        /\ ~run[p].cmd.force => Managed(run[p].cmd.content) = {}
    BY <1>1, <1>8 DEF CheckDraft, At, Progress, PastGuard, Committing
  <2>3. /\ run'[p].pc = s /\ run'[p].cmd = run[p].cmd /\ ~Unfinished'
        /\ versions' = versions
    BY <1>1, <2>1, <2>2, InspectEffect, NextState
  <2>4. ~run'[p].cmd.force => Managed(run[p].cmd.content)' = {}
    BY <2>2, <2>3 DEF Managed
  <2>5. Progress(p)'
    BY <2>2, <2>3, <2>4 DEF Progress, PastGuard, Routing, Committing
  <2> QED BY <1>1, <2>1, <2>5, InspectPreserves
<1>9. CASE DescribeCurrentAliases(p)
  <2>1. Inspect(p, [Goto(p, "before") EXCEPT !.expected = aliases[ModelAlias]])
    BY <1>2, <1>9 DEF DescribeCurrentAliases
  <2>2. ~Unfinished
    BY <1>1, <1>9 DEF DescribeCurrentAliases, At, Progress, PastGuard
  <2>3. [Goto(p, "before") EXCEPT !.expected = aliases[ModelAlias]].pc = "before"
    BY <1>1 DEF RunType, Goto
  <2>4. run'[p].pc = "before" /\ ~Unfinished'
    BY <1>1, <2>1, <2>2, <2>3, InspectEffect
  <2>5. Progress(p)'
    BY <2>4 DEF Progress, PastGuard, Routing, Committing
  <2> QED BY <1>1, <2>1, <2>5, InspectPreserves
<1>10. CASE CheckLive(p)
  <2>1. PICK s \in {"addLive", "verifyLive"} : Inspect(p, Goto(p, s))
    BY <1>2, <1>10 DEF CheckLive
  <2>2. ~Unfinished
    BY <1>1, <1>10 DEF CheckLive, At, Progress, PastGuard
  <2>3. run'[p].pc = s /\ ~Unfinished'
    BY <1>1, <2>1, <2>2, InspectEffect, NextState
  <2>4. Progress(p)'
    BY <2>3 DEF Progress, PastGuard, Routing, Committing
  <2> QED BY <1>1, <2>1, <2>4, InspectPreserves
<1>11. CASE VerifyLive(p)
  <2>1. Inspect(p, Reached(Goto(p, "comment"), "live_reconciled"))
    BY <1>2, <1>11 DEF VerifyLive
  <2>2. ~Unfinished
    BY <1>1, <1>11 DEF VerifyLive, At, Progress, PastGuard
  <2>3. Goto(p, "comment") \in RunType
    BY <1>1, GotoTyped DEF Step
  <2>4. run'[p].pc = "comment" /\ ~Unfinished'
    BY <1>1, <2>1, <2>2, <2>3, InspectEffect, NextState, ReachedState
  <2>5. Progress(p)'
    BY <2>4 DEF Progress, PastGuard, Routing, Committing
  <2> QED BY <1>1, <2>1, <2>5, InspectPreserves
<1>12. CASE SetProfile(p)
  <2>1. /\ Finish(p, "completed", run[p].phases, run[p].clean)
        /\ UNCHANGED <<agentVars, promise, started, faults>>
    BY <1>2, <1>12 DEF SetProfile
  <2> QED BY <1>1, <2>1, FinishPreserves
<1> QED BY <1>3, <1>4, <1>5, <1>6, <1>7, <1>8, <1>9, <1>10, <1>11, <1>12

LEMMA IssuePreserves ==
  ASSUME SerialInv, NEW p \in Process, run[p].pc # "idle", NEW r, Issue(p, r),
         AgentSound', TypeOK', run'[p] = r => Progress(p)'
  PROVE  SerialInv'
<1>1. CASE run' = [run EXCEPT ![p] = r]
  <2>1. run'[p] = r
    BY <1>1 DEF SerialInv, TypeOK, CommandsTyped
  <2> QED BY <1>1, <2>1, MovePreserves
<1>2. CASE Stops(p)
  BY <1>2, StopPreserves
<1> QED BY <1>1, <1>2, IssueMoves DEF SerialInv

\* A freshly created Agent is sound: its only version is unlabelled and marked.
LEMMA CreateAgentSerial ==
  ASSUME SerialInv, NEW p \in Process, TypeOK', CreateAgent(p)
  PROVE  SerialInv'
<1>1. run[p].pc # "idle" /\ TypeOK /\ run[p] \in RunType /\ run[p].cmd \in Command
  BY DEF CreateAgent, At, SerialInv, TypeOK, CommandsTyped
<1>2. SUFFICES ASSUME ~Refuse(p)  PROVE SerialInv'
  BY <1>1, RefusePreserves
<1> DEFINE new == [content |-> run[p].cmd.content, label |-> NoContent]
<1>3. versions' = <<new>> /\ Issue(p, Goto(p, "created"))
  BY <1>2 DEF CreateAgent
<1>4. /\ aliases' = [a \in Alias |-> 0] /\ pinned' = 0 /\ marker' = TRUE
      /\ promise' = 0
  BY <1>2 DEF CreateAgent
<1>5. new.content = run[p].cmd.content /\ new.label = NoContent
  OBVIOUS
<1> HIDE DEF new
<1>6. Len(versions') = 1 /\ DOMAIN versions' = {1} /\ versions'[1] = new
  BY <1>3
<1>7. AgentSound'
  BY <1>4, <1>5, <1>6
     DEF AgentSound, PinsHold, LabelTruth, Recorded, Routed, NoDuplicateManaged
<1>8. ASSUME run'[p] = Goto(p, "created")  PROVE Progress(p)'
  <2>1. run'[p].pc = "created" /\ run'[p].cmd = run[p].cmd
    BY <1>1, <1>8, NextState
  <2> QED BY <1>4, <1>5, <1>6, <2>1 DEF Progress, PastGuard, Routing, Committing, Last
<1> QED BY <1>1, <1>3, <1>7, <1>8, IssuePreserves

\* Statements that touch the draft or the marker only.
LEMMA DraftStatementsSerial ==
  ASSUME SerialInv, NEW p \in Process, TypeOK',
         AddLiveVersion(p) \/ ModifyLiveVersion(p) \/ SetAgentComment(p)
  PROVE  SerialInv'
<1>1. run[p].pc # "idle" /\ TypeOK /\ run[p] \in RunType
  BY DEF AddLiveVersion, ModifyLiveVersion, SetAgentComment, At, SerialInv, TypeOK,
         CommandsTyped
<1>2. SUFFICES ASSUME ~Refuse(p)  PROVE SerialInv'
  BY <1>1, RefusePreserves
<1>3. ~Unfinished /\ Progress(p)
  BY DEF AddLiveVersion, ModifyLiveVersion, SetAgentComment, At, SerialInv, Progress,
         PastGuard
<1>4. CASE AddLiveVersion(p) \/ ModifyLiveVersion(p)
  <2>1. UNCHANGED <<versions, aliases, pinned, marker, promise>>
    BY <1>2, <1>4 DEF AddLiveVersion, ModifyLiveVersion
  <2>2. AgentSound'
    BY <2>1 DEF SerialInv, AgentSound, PinsHold, LabelTruth, Recorded, Routed,
                NoDuplicateManaged
  <2>3. ~Unfinished'
    BY <1>3, <2>1 DEF Unfinished, Exists
  <2>4. CASE AddLiveVersion(p)
    <3>1. PICK s \in {"spec", "verifyLive"} :
            Issue(p, Goto(p, s)) /\ (s = "spec" => At(p, "addDraft"))
      BY <1>2, <2>4 DEF AddLiveVersion
    <3>2. ASSUME run'[p] = Goto(p, s)  PROVE Progress(p)'
      <4>1. run'[p].pc = s /\ run'[p].cmd = run[p].cmd
        BY <1>1, <3>2, NextState
      <4>2. s = "spec" /\ ~run'[p].cmd.force => Managed(run[p].cmd.content)' = {}
        BY <1>3, <2>1, <3>1, <4>1 DEF Progress, At, Committing, Managed
      <4> QED BY <2>3, <4>1, <4>2 DEF Progress, PastGuard, Routing, Committing
    <3> QED BY <1>1, <2>2, <3>1, <3>2, IssuePreserves
  <2>5. CASE ModifyLiveVersion(p)
    <3>1. Issue(p, Goto(p, "commit")) /\ draft' = run[p].cmd.content /\ At(p, "spec")
      BY <1>2, <2>5 DEF ModifyLiveVersion
    <3>2. ASSUME run'[p] = Goto(p, "commit")  PROVE Progress(p)'
      <4>1. run'[p].pc = "commit" /\ run'[p].cmd = run[p].cmd
        BY <1>1, <3>2, NextState
      <4>2. ~run'[p].cmd.force => Managed(run[p].cmd.content)' = {}
        BY <1>3, <2>1, <3>1, <4>1 DEF Progress, At, Committing, Managed
      <4> QED BY <2>3, <3>1, <4>1, <4>2 DEF Progress, PastGuard, Routing, Committing
    <3> QED BY <1>1, <2>2, <3>1, <3>2, IssuePreserves
  <2> QED BY <1>4, <2>4, <2>5
<1>5. CASE SetAgentComment(p)
  <2>1. /\ UNCHANGED <<versions, aliases, pinned, draft, promise>>
        /\ marker' = FALSE /\ Issue(p, Goto(p, "profile"))
    BY <1>2, <1>5 DEF SetAgentComment
  <2>2. Recorded'
    <3>1. ASSUME NEW v \in DOMAIN versions, versions[v].label = NoContent
          PROVE  v = 1 /\ versions[v].content = Foreign
      <4>1. v = 1 /\ (marker \/ versions[v].content = Foreign)
        BY <3>1 DEF SerialInv, AgentSound, Recorded
      <4>2. Exists
        BY <3>1 DEF Exists
      <4> QED BY <1>3, <3>1, <4>1, <4>2 DEF Unfinished
    <3> QED BY <2>1, <3>1 DEF Recorded
  <2>3. AgentSound'
    BY <2>1, <2>2 DEF SerialInv, AgentSound, PinsHold, LabelTruth, Routed,
                      NoDuplicateManaged
  <2>4. ASSUME run'[p] = Goto(p, "profile")  PROVE Progress(p)'
    <3>1. run'[p].pc = "profile" /\ ~Unfinished'
      BY <1>1, <2>1, <2>4, NextState DEF Unfinished
    <3> QED BY <3>1 DEF Progress, PastGuard, Routing, Committing
  <2> QED BY <1>1, <2>1, <2>3, <2>4, IssuePreserves
<1> QED BY <1>4, <1>5

\* COMMIT appends the requested content under its own label; no other version
\* carries that label, or the deploy would have reused it.
LEMMA CommitVersionSerial ==
  ASSUME SerialInv, NEW p \in Process, TypeOK', CommitVersion(p)
  PROVE  SerialInv'
<1>1. /\ run[p].pc = "commit" /\ TypeOK /\ run[p] \in RunType
      /\ run[p].cmd \in Command /\ run[p].cmd.content \in Content
  BY CommandIsTyped DEF CommitVersion, At, SerialInv, TypeOK, CommandsTyped, CommandType
<1>2. SUFFICES ASSUME ~Refuse(p)  PROVE SerialInv'
  BY <1>1, RefusePreserves
<1> DEFINE c == run[p].cmd.content
           new == [content |-> draft, label |-> c]
           r == [Goto(p, "label") EXCEPT !.target = Last + 1]
<1>3. /\ ~Unfinished /\ draft = c /\ (~run[p].cmd.force => Managed(c) = {})
  BY <1>1 DEF SerialInv, Progress, PastGuard, Committing
<1>4. /\ versions' = Append(versions, new)
      /\ Issue(p, Reached(r, "version_committed"))
      /\ UNCHANGED <<aliases, pinned, marker, promise>>
  BY <1>2 DEF CommitVersion
<1>5. new.content = c /\ new.label = c /\ new \in VersionType
  BY <1>1, <1>3 DEF VersionType
<1>6. r \in RunType /\ r.pc = "label" /\ r.cmd = run[p].cmd /\ r.target = Last + 1
  <2>1. Last + 1 \in Nat
    BY <1>1, VersionNumbersTyped
  <2> QED BY <1>1, <2>1 DEF RunType, Goto, Step
<1> HIDE DEF new, r
<1>7. /\ Last \in Nat /\ DOMAIN versions = 1..Last
      /\ DOMAIN versions' = 1..(Last + 1) /\ Last' = Last + 1
      /\ versions'[Last + 1] = new
      /\ \A v \in 1..Last : versions'[v] = versions[v]
  <2>1. versions \in Seq(VersionType)
    BY <1>1 DEF TypeOK, AgentTyped
  <2>2. /\ Len(versions') = Len(versions) + 1 /\ versions' \in Seq(VersionType)
        /\ versions'[Len(versions) + 1] = new
        /\ \A v \in 1..Len(versions) : versions'[v] = versions[v]
    BY <1>4, <1>5, <2>1, AppendProperties
  <2>3. DOMAIN versions' = 1..Len(versions')
    BY <2>2, LenProperties
  <2> QED BY <1>1, <2>2, <2>3, VersionNumbersTyped DEF Last
<1>8. ~Unfinished'
  <2>1. CASE Exists
    <3>1. 1 \in 1..Last
      BY <1>1, <1>7, <2>1, VersionNumbersTyped
    <3> QED BY <1>3, <1>4, <1>7, <2>1, <3>1 DEF Unfinished
  <2>2. CASE ~Exists
    <3>1. Last = 0
      BY <2>2 DEF Exists, Last
    <3> QED BY <1>1, <1>5, <1>7, <3>1, NoContentIsNew DEF Unfinished
  <2> QED BY <2>1, <2>2
<1>9. AgentSound'
  <2>1. PinsHold'
    BY <1>4, <1>7 DEF SerialInv, AgentSound, PinsHold
  <2>2. LabelTruth'
    BY <1>5, <1>7 DEF SerialInv, AgentSound, LabelTruth
  <2>3. Recorded'
    BY <1>1, <1>4, <1>5, <1>7, NoContentIsNew DEF SerialInv, AgentSound, Recorded
  <2>4. Routed'
    BY <1>4, <1>7 DEF SerialInv, AgentSound, Routed
  <2>5. NoForce => NoDuplicateManaged'
    <3>1. SUFFICES ASSUME NoForce  PROVE NoDuplicateManaged'
      OBVIOUS
    <3>2. \A v \in 1..Last : versions[v].label # c
      BY <1>1, <1>3, <1>7, <3>1 DEF NoForce, Managed
    <3>3. NoDuplicateManaged
      BY <3>1 DEF SerialInv, AgentSound
    <3> QED BY <1>5, <1>7, <3>2, <3>3 DEF NoDuplicateManaged
  <2> QED BY <2>1, <2>2, <2>3, <2>4, <2>5 DEF AgentSound
<1>10. ASSUME run'[p] = Reached(r, "version_committed")  PROVE Progress(p)'
  <2>1. run'[p].pc = "label" /\ run'[p].cmd = run[p].cmd /\ run'[p].target = Last + 1
    BY <1>6, <1>10, ReachedState
  <2> QED BY <1>5, <1>7, <1>8, <2>1 DEF Progress, PastGuard, Routing, Committing
<1> QED BY <1>1, <1>4, <1>9, <1>10, IssuePreserves

\* The comment labels the version just committed or created; a committed version
\* already carries this label.
LEMMA SetVersionCommentSerial ==
  ASSUME SerialInv, NEW p \in Process, TypeOK', SetVersionComment(p)
  PROVE  SerialInv'
<1>1. /\ run[p].pc = "label" /\ TypeOK /\ run[p] \in RunType
      /\ run[p].cmd.content \in Content
  BY CommandIsTyped
     DEF SetVersionComment, At, SerialInv, TypeOK, CommandsTyped, CommandType
<1>2. SUFFICES ASSUME ~Refuse(p)  PROVE SerialInv'
  BY <1>1, RefusePreserves
<1> DEFINE c == run[p].cmd.content
           t == run[p].target
           r == Reached(Goto(p, "current"), "metadata_reconciled")
<1>3. /\ t \in DOMAIN versions /\ versions' = [versions EXCEPT ![t].label = c]
      /\ Issue(p, r)
      /\ UNCHANGED <<aliases, pinned, draft, marker, promise>>
  BY <1>2 DEF SetVersionComment
<1>4. /\ versions[t].content = c
      /\ Last = 1 \/ (versions[t].label = c /\ ~Unfinished)
  BY <1>1 DEF SerialInv, Progress
<1>5. r.pc = "current"
  <2>1. Goto(p, "current") \in RunType /\ Goto(p, "current").pc = "current"
    BY <1>1 DEF RunType, Goto, Step
  <2> QED BY <2>1, ReachedState
<1> HIDE DEF r
<1>6. /\ DOMAIN versions' = DOMAIN versions /\ DOMAIN versions = 1..Last
      /\ \A v \in DOMAIN versions :
           /\ versions'[v].content = versions[v].content
           /\ versions'[v].label = IF v = t THEN c ELSE versions[v].label
  <2>1. /\ versions \in [1..Last -> VersionType] /\ DOMAIN versions = 1..Last
    BY <1>1, LenProperties DEF TypeOK, AgentTyped, Last
  <2> QED BY <1>3, <2>1 DEF VersionType
<1>7. ~Unfinished'
  <2>1. versions'[1].label # NoContent \/ ~Unfinished
    BY <1>1, <1>3, <1>4, <1>6, NoContentIsNew
  <2>2. ASSUME Unfinished'  PROVE Unfinished
    <3>1. versions # <<>> /\ 1 \in DOMAIN versions
      BY <1>1, <1>3, VersionNumbersTyped DEF Exists
    <3> QED BY <1>1, <1>3, <1>6, <2>2, <3>1, NoContentIsNew DEF Unfinished, Exists
  <2> QED BY <2>1, <2>2 DEF Unfinished
<1>8. AgentSound'
  <2>1. PinsHold' /\ Routed'
    BY <1>3, <1>6 DEF SerialInv, AgentSound, PinsHold, Routed
  <2>2. LabelTruth'
    BY <1>4, <1>6 DEF SerialInv, AgentSound, LabelTruth
  <2>3. Recorded'
    BY <1>1, <1>3, <1>6, NoContentIsNew DEF SerialInv, AgentSound, Recorded
  <2>4. NoForce => NoDuplicateManaged'
    <3>1. CASE Last = 1
      BY <1>6, <3>1 DEF NoDuplicateManaged
    <3>2. CASE versions[t].label = c
      BY <1>6, <3>2 DEF SerialInv, AgentSound, NoDuplicateManaged
    <3> QED BY <1>4, <3>1, <3>2
  <2> QED BY <2>1, <2>2, <2>3, <2>4 DEF AgentSound
<1>9. ASSUME run'[p] = r  PROVE Progress(p)'
  BY <1>5, <1>7, <1>9 DEF Progress, PastGuard, Routing, Committing
<1> QED BY <1>1, <1>3, <1>8, <1>9, IssuePreserves

\* Statements on aliases: the versions stay, and no two aliases meet.
LEMMA AliasStatementsSerial ==
  ASSUME SerialInv, NEW p \in Process, TypeOK', UnsetAlias(p) \/ SetAlias(p)
  PROVE  SerialInv'
<1>1. /\ run[p].pc \in {"unset", "set"} /\ TypeOK /\ run[p] \in RunType
      /\ run[p].cmd.alias \in Alias
  BY CommandIsTyped DEF UnsetAlias, SetAlias, At, SerialInv, TypeOK, CommandsTyped,
                        CommandType
<1>2. SUFFICES ASSUME ~Refuse(p)  PROVE SerialInv'
  BY <1>1, RefusePreserves
<1>3. UNCHANGED <<versions, pinned, draft, marker, promise>>
  BY <1>2 DEF UnsetAlias, SetAlias
<1>4. PICK s \in {"set", "after"} : Issue(p, Goto(p, s))
  BY <1>2 DEF UnsetAlias, SetAlias
<1>5. Routed'
  <2>1. Routed /\ aliases \in [Alias -> Nat]
    BY <1>1 DEF SerialInv, AgentSound, TypeOK, AgentTyped
  <2>2. CASE UnsetAlias(p)
    BY <1>2, <1>3, <2>1, <2>2 DEF UnsetAlias, Routed
  <2>3. CASE SetAlias(p)
    BY <1>1, <1>2, <1>3, <2>1, <2>3 DEF SetAlias, Routed
  <2> QED BY <2>2, <2>3
<1>6. AgentSound'
  BY <1>3, <1>5
     DEF SerialInv, AgentSound, PinsHold, LabelTruth, Recorded, NoDuplicateManaged
<1>7. ASSUME run'[p] = Goto(p, s)  PROVE Progress(p)'
  <2>1. run'[p].pc = s /\ run'[p].cmd = run[p].cmd
    BY <1>1, <1>7, NextState
  <2>2. run[p].cmd.kind = "deploy" => ~Unfinished
    BY <1>1 DEF SerialInv, Progress, Routing
  <2>3. Unfinished' <=> Unfinished
    BY <1>3 DEF Unfinished, Exists
  <2> QED BY <2>1, <2>2, <2>3 DEF Progress, PastGuard, Routing, Committing
<1> QED BY <1>1, <1>4, <1>6, <1>7, IssuePreserves

LEMMA RouteInspectionsSerial ==
  ASSUME SerialInv, NEW p \in Process, TypeOK',
         RouteBefore(p) \/ RouteAfter(p) \/ ReadPlannedState(p) \/ DefaultBefore(p)
           \/ InspectFailure(p)
  PROVE  SerialInv'
<1>1. run[p].pc # "idle" /\ TypeOK /\ run[p] \in RunType /\ Progress(p)
  BY DEF RouteBefore, RouteAfter, ReadPlannedState, DefaultBefore, InspectFailure, At,
         SerialInv, TypeOK, CommandsTyped
<1>2. SUFFICES ASSUME ~Refuse(p)  PROVE SerialInv'
  BY <1>1, RefusePreserves
<1>3. CASE RouteBefore(p)
  <2>1. PICK s \in {"after", "set", "unset"} : Inspect(p, Goto(p, s))
    BY <1>2, <1>3, AliasStepTyped DEF RouteBefore
  <2>2. run[p].cmd.kind = "deploy" => ~Unfinished
    BY <1>1, <1>3 DEF RouteBefore, At, Progress, Routing
  <2>3. /\ run'[p].pc = s /\ run'[p].cmd = run[p].cmd
        /\ run[p].cmd.kind = "deploy" => ~Unfinished'
    BY <1>1, <2>1, <2>2, InspectEffect, NextState
  <2>4. Progress(p)'
    BY <2>3 DEF Progress, PastGuard, Routing, Committing
  <2> QED BY <1>1, <2>1, <2>4, InspectPreserves
<1>4. CASE RouteAfter(p)
  <2>1. CASE /\ run[p].cmd.kind = "deploy"
             /\ Inspect(p, Reached(Goto(p, "live"), "alias_reconciled"))
    <3>1. ~Unfinished
      BY <1>1, <1>4, <2>1 DEF RouteAfter, At, Progress, Routing
    <3>2. Goto(p, "live") \in RunType /\ Goto(p, "live").pc = "live"
      BY <1>1 DEF RunType, Goto, Step
    <3>3. run'[p].pc = "live" /\ ~Unfinished'
      BY <1>1, <2>1, <3>1, <3>2, InspectEffect, ReachedState
    <3>4. Progress(p)'
      BY <3>3 DEF Progress, PastGuard, Routing, Committing
    <3> QED BY <1>1, <2>1, <3>4, InspectPreserves
  <2>2. CASE Inspect(p, Reached(Goto(p, "defaultBefore"), "alias"))
    <3>1. Goto(p, "defaultBefore") \in RunType
          /\ Goto(p, "defaultBefore").pc = "defaultBefore"
      BY <1>1 DEF RunType, Goto, Step
    <3>2. run'[p].pc = "defaultBefore"
      BY <1>1, <2>2, <3>1, InspectEffect, ReachedState
    <3>3. Progress(p)'
      BY <3>2 DEF Progress, PastGuard, Routing, Committing
    <3> QED BY <1>1, <2>2, <3>3, InspectPreserves
  <2>3. CASE /\ Finish(p, "completed", {"alias"}, run[p].clean)
             /\ UNCHANGED <<agentVars, promise, started, faults>>
    BY <1>1, <2>3, FinishPreserves
  <2> QED BY <1>2, <1>4, <2>1, <2>2, <2>3 DEF RouteAfter
<1>5. CASE ReadPlannedState(p)
  <2> DEFINE r == [Goto(p, "before") EXCEPT !.expected = aliases[run[p].cmd.alias],
                                            !.planned = DefaultVersion]
  <2>1. Inspect(p, r)
    BY <1>5 DEF ReadPlannedState
  <2>2. run[p].cmd.kind = "route"
    BY <1>1, <1>5 DEF ReadPlannedState, At, Progress
  <2>3. r.pc = "before" /\ r.cmd.kind = "route"
    BY <1>1, <2>2 DEF RunType, Goto
  <2> HIDE DEF r
  <2>4. run'[p].pc = "before" /\ run'[p].cmd.kind = "route"
    BY <1>1, <2>1, <2>3, InspectEffect
  <2>5. Progress(p)'
    BY <2>4 DEF Progress, PastGuard, Routing, Committing
  <2> QED BY <1>1, <2>1, <2>5, InspectPreserves
<1>6. CASE DefaultBefore(p)
  <2>1. Inspect(p, Goto(p, "setDefault"))
    BY <1>2, <1>6 DEF DefaultBefore
  <2>2. run'[p].pc = "setDefault"
    BY <1>1, <2>1, InspectEffect, NextState
  <2>3. Progress(p)'
    BY <2>2 DEF Progress, PastGuard, Routing, Committing
  <2> QED BY <1>1, <2>1, <2>3, InspectPreserves
<1>7. CASE InspectFailure(p)
  BY <1>1, <1>7, FinishPreserves DEF InspectFailure
<1> QED BY <1>3, <1>4, <1>5, <1>6, <1>7

\* SET DEFAULT_VERSION pins; only the command that pinned may promise.
LEMMA DefaultSerial ==
  ASSUME SerialInv, NEW p \in Process, TypeOK', SetDefaultVersion(p) \/ DefaultAfter(p)
  PROVE  SerialInv'
<1>1. run[p].pc # "idle" /\ TypeOK /\ run[p] \in RunType
  BY DEF SetDefaultVersion, DefaultAfter, At, SerialInv, TypeOK, CommandsTyped
<1>2. SUFFICES ASSUME ~Refuse(p)  PROVE SerialInv'
  BY <1>1, RefusePreserves
<1>3. CASE SetDefaultVersion(p)
  <2>1. /\ run[p].target \in DOMAIN versions
        /\ pinned' = run[p].target /\ promise' = 0
        /\ Issue(p, Goto(p, "defaultAfter"))
        /\ UNCHANGED <<versions, aliases, draft, marker>>
    BY <1>2, <1>3 DEF SetDefaultVersion
  <2>2. AgentSound'
    BY <2>1 DEF SerialInv, AgentSound, PinsHold, LabelTruth, Recorded, Routed,
                NoDuplicateManaged
  <2>3. ASSUME run'[p] = Goto(p, "defaultAfter")  PROVE Progress(p)'
    <3>1. run'[p].pc = "defaultAfter" /\ run'[p].target = run[p].target
      BY <1>1, <2>3, NextState
    <3> QED BY <2>1, <3>1 DEF Progress, PastGuard, Routing, Committing
  <2> QED BY <1>1, <2>1, <2>2, <2>3, IssuePreserves
<1>4. CASE DefaultAfter(p)
  <2>1. /\ promise' = run[p].target
        /\ Finish(p, "completed", run[p].phases \cup {"default"}, run[p].clean)
        /\ UNCHANGED <<agentVars, started, faults>>
    BY <1>2, <1>4 DEF DefaultAfter
  <2>2. pinned = run[p].target
    BY <1>4 DEF DefaultAfter, At, SerialInv, Progress
  <2>3. AgentSound'
    BY <2>1, <2>2 DEF SerialInv, AgentSound, PinsHold, LabelTruth, Recorded, Routed,
                      NoDuplicateManaged, agentVars
  <2>4. Stops(p)
    BY <2>1, IdleTyped DEF Finish, Stops
  <2> QED BY <1>1, <2>3, <2>4, StopPreserves
<1> QED BY <1>3, <1>4

LEMMA DropStepSerial ==
  ASSUME SerialInv, NEW p \in Process, TypeOK', DropStep(p)
  PROVE  SerialInv'
<1>1. run[p].pc # "idle" /\ TypeOK /\ run[p] \in RunType
  BY DEF DropStep, TakeInventory, DropAgent, VerifyAbsent, At, SerialInv, TypeOK,
         CommandsTyped
<1>2. CASE TakeInventory(p)
  <2>1. Inspect(p, Goto(p, "drop"))
    BY <1>2 DEF TakeInventory
  <2>2. run'[p].pc = "drop"
    BY <1>1, <2>1, InspectEffect, NextState
  <2>3. Progress(p)'
    BY <2>2 DEF Progress, PastGuard, Routing, Committing
  <2> QED BY <1>1, <2>1, <2>3, InspectPreserves
<1>3. CASE DropAgent(p)
  <2> DEFINE r == Reached(Goto(p, "absent"), "drop")
  <2>1. Issue(p, r) /\ versions' = <<>> /\ aliases' = [a \in Alias |-> 0]
        /\ pinned' = 0 /\ promise' = 0
    BY <1>3 DEF DropAgent
  <2>2. r.pc = "absent"
    <3>1. Goto(p, "absent") \in RunType /\ Goto(p, "absent").pc = "absent"
      BY <1>1 DEF RunType, Goto, Step
    <3> QED BY <3>1, ReachedState
  <2> HIDE DEF r
  <2>3. DOMAIN versions' = {}
    BY <2>1
  <2>4. AgentSound'
    BY <2>1, <2>3 DEF AgentSound, PinsHold, LabelTruth, Recorded, Routed,
                      NoDuplicateManaged
  <2>5. ASSUME run'[p] = r  PROVE Progress(p)'
    BY <2>2, <2>5 DEF Progress, PastGuard, Routing, Committing
  <2> QED BY <1>1, <2>1, <2>4, <2>5, IssuePreserves
<1>4. CASE VerifyAbsent(p)
  <2>1. CASE Refuse(p)
    BY <1>1, <2>1, RefusePreserves
  <2>2. CASE ~Refuse(p)
    <3>1. /\ Finish(p, "completed", run[p].phases, run[p].clean)
          /\ UNCHANGED <<agentVars, promise, started, faults>>
      BY <1>4, <2>2 DEF VerifyAbsent
    <3> QED BY <1>1, <3>1, FinishPreserves
  <2> QED BY <2>1, <2>2
<1> QED BY <1>2, <1>3, <1>4 DEF DropStep

LEMMA SerialInit == Init => SerialInv
<1> SUFFICES ASSUME Init  PROVE SerialInv
  OBVIOUS
<1>1. TypeOK
  BY TypeOKInit
<1>2. /\ run = [p \in Process |-> Idle] /\ pinned = 0 /\ promise = 0
      /\ aliases = [a \in Alias |-> 0]
  BY DEF Init
<1>3. OneCommand
  BY <1>2, IdleTyped DEF OneCommand, At
<1>4. \A p \in Process : Progress(p)
  BY <1>2, IdleTyped DEF Progress, PastGuard, Routing, Committing
<1>5. AgentSound
  <2>1. CASE versions = <<>>
    <3>1. DOMAIN versions = {}
      BY <2>1
    <3> QED BY <1>2, <3>1 DEF AgentSound, PinsHold, LabelTruth, Recorded, Routed,
                              NoDuplicateManaged
  <2>2. CASE versions = <<[content |-> Foreign, label |-> NoContent]>>
    <3>1. /\ DOMAIN versions = {1} /\ versions[1].label = NoContent
          /\ versions[1].content = Foreign
      BY <2>2
    <3> QED BY <1>2, <3>1 DEF AgentSound, PinsHold, LabelTruth, Recorded, Routed,
                              NoDuplicateManaged
  <2> QED BY <2>1, <2>2 DEF Init
<1> QED BY <1>1, <1>3, <1>4, <1>5 DEF SerialInv

LEMMA SerialNext == Exclusive /\ SerialInv /\ [Next]_vars => SerialInv'
<1> SUFFICES ASSUME Exclusive, SerialInv, [Next]_vars  PROVE SerialInv'
  OBVIOUS
<1>1. TypeOK /\ TypeOK'
  BY TypeOKNext DEF SerialInv
<1>2. ASSUME NEW p \in Process, StartCommand(p)  PROVE SerialInv'
  <2>1. PICK c \in Command :
          run' = [run EXCEPT ![p] = [Idle EXCEPT !.pc = FirstStep(c), !.cmd = c,
                                                 !.target = c.version]]
    BY <1>2 DEF StartCommand
  <2> DEFINE r == [Idle EXCEPT !.pc = FirstStep(c), !.cmd = c, !.target = c.version]
  <2>2. r.pc = FirstStep(c) /\ r.cmd = c
    BY DEF Idle
  <2> HIDE DEF r
  <2>3. run' = [run EXCEPT ![p] = r]
    BY <2>1 DEF r
  <2>4. run'[p] = r /\ \A q \in Process : q # p => run'[q].pc = "idle"
    BY <1>1, <1>2, <2>3 DEF StartCommand, At, TypeOK, CommandsTyped
  <2>5. c.kind \in {"deploy", "route", "drop"}
    BY CommandIsTyped DEF CommandType
  <2>6. r.pc \in {"exists", "plan", "inventory"} /\ (r.pc = "plan" => r.cmd.kind = "route")
    BY <2>2, <2>5 DEF FirstStep
  <2>7. Progress(p)'
    BY <2>4, <2>6 DEF Progress, PastGuard, Routing, Committing
  <2>8. \A q \in Process : Progress(q)'
    BY <2>4, <2>7 DEF Progress, PastGuard, Routing, Committing
  <2>9. OneCommand'
    BY <2>4 DEF OneCommand, At
  <2>10. AgentSound'
    BY <1>2, SameAgentSound DEF StartCommand, SerialInv
  <2> QED BY <1>1, <2>8, <2>9, <2>10 DEF SerialInv
<1>3. ASSUME NEW p \in Process, CommandStep(p)  PROVE SerialInv'
  BY <1>1, <1>3, DeployInspectionsSerial, CreateAgentSerial, DraftStatementsSerial,
     CommitVersionSerial, SetVersionCommentSerial, AliasStatementsSerial,
     RouteInspectionsSerial, DefaultSerial, DropStepSerial
     DEF CommandStep, DeployStep, RouteStep
<1>4. ASSUME NEW p \in Process, StatementFails(p)  PROVE SerialInv'
  <2>1. run[p].pc # "idle" /\ Raise(p, FALSE) /\ UNCHANGED <<agentVars, promise>>
    BY <1>4 DEF StatementFails, Step
  <2>2. Stops(p)
    BY <1>1, <2>1, RaiseStops
  <2> QED BY <1>1, <2>1, <2>2, SameAgentSound, StopPreserves DEF SerialInv
<1>5. ASSUME NEW p \in Process, Kill(p)  PROVE SerialInv'
  <2>1. /\ run[p].pc # "idle" /\ run' = [run EXCEPT ![p] = Idle]
        /\ UNCHANGED <<agentVars, promise>>
    BY <1>5 DEF Kill, Step
  <2>2. Stops(p)
    BY <2>1, IdleTyped DEF Stops
  <2> QED BY <1>1, <2>1, <2>2, SameAgentSound, StopPreserves DEF SerialInv
<1>6. CASE UNCHANGED vars
  <2>1. AgentSound'
    BY <1>6, SameAgentSound DEF SerialInv, vars
  <2>2. OneCommand' /\ \A p \in Process : Progress(p)'
    BY <1>6 DEF SerialInv, OneCommand, At, vars, agentVars, Progress, PastGuard, Routing,
                Committing, Unfinished, Exists, Last, Managed
  <2> QED BY <1>1, <2>1, <2>2 DEF SerialInv
<1> QED BY <1>2, <1>3, <1>4, <1>5, <1>6 DEF Next, Rest

\* Under a shared concurrency key the Agent is sound after every statement, every
\* failure, every lost acknowledgement and every kill.
THEOREM SerialCorrect == ASSUME Exclusive PROVE Spec => []SerialInv
<1>1. Init => SerialInv
  BY SerialInit
<1>2. SerialInv /\ [Next]_vars => SerialInv'
  BY SerialNext
<1> QED BY <1>1, <1>2, PTL DEF Spec

\* Labels never lie, so a deploy that finds its content's label finds the content.
THEOREM LabelsAreTrue == ASSUME Exclusive PROVE Spec => []LabelTruth
<1>1. SerialInv => LabelTruth
  BY DEF SerialInv, AgentSound
<1> QED BY <1>1, SerialCorrect, PTL

\* Without force_agent_recreate no retry, rollback or return to older content
\* commits a content twice.
THEOREM ContentCommittedOnce ==
  ASSUME Exclusive, NoForce PROVE Spec => []NoDuplicateManaged
<1>1. SerialInv => NoDuplicateManaged
  BY DEF SerialInv, AgentSound
<1> QED BY <1>1, SerialCorrect, PTL

\* The version a completed --set-default reported keeps serving.
THEOREM PromisesAreKept == ASSUME Exclusive PROVE Spec => []PromiseKept
<1>1. SerialInv => PromiseKept
  BY DEF SerialInv, AgentSound, PinsHold, PromiseKept, DefaultVersion
<1> QED BY <1>1, SerialCorrect, PTL
-----------------------------------------------------------------------------
(* What a command reports.  Under a shared concurrency key a report is about   *)
(* the Agent as it still is: the next command erases it before it changes      *)
(* anything.  OnCourse says what a command that is running has to show for its *)
(* phases, and why nothing but a fault, an unfinished creation or a missing    *)
(* version makes it fail.                                                      *)

DeployAt ==
  {"exists", "create", "guard", "managed", "compare", "created", "draft", "addDraft",
   "spec", "commit", "label", "current", "before", "unset", "set", "after", "live",
   "addLive", "verifyLive", "comment", "profile"}
RouteAt ==
  {"plan", "before", "unset", "set", "after", "defaultBefore", "setDefault",
   "defaultAfter", "inspect"}
DropAt == {"inventory", "drop", "absent"}

\* The steps of a deploy that has its model alias where it should be.
Aliased == {"live", "addLive", "verifyLive", "comment", "profile"}
\* The steps of a route that has its alias where it should be.
Defaulting == {"defaultBefore", "setDefault", "defaultAfter"}

HasContent(c) == \E v \in DOMAIN versions : versions[v].content = c
Newest(v, c) == v \in Managed(c) /\ \A w \in Managed(c) : w <= v

DeployCourse(r) ==
  LET c == r.cmd.content IN
  /\ r.pc \in DeployAt
  /\ r.pc \in DeployAt \ {"exists", "create"} => Exists
  /\ r.pc = "create" => ~Exists
  /\ r.pc \in {"addDraft", "addLive"} => draft = NoContent
  /\ r.pc \in {"spec", "verifyLive", "comment", "profile"} => draft # NoContent
  /\ r.pc = "label" => r.target = Last
  /\ r.pc \in {"compare", "current"} \cup Routing \cup Aliased => Newest(r.target, c)
  /\ r.pc \in {"before", "unset"} => r.expected = aliases[ModelAlias]
  /\ r.pc = "unset" => aliases[ModelAlias] # 0
  /\ r.pc \in {"after"} \cup Aliased => aliases[ModelAlias] = r.target
  /\ r.pc = "profile" => ~marker
  /\ "version_committed" \in r.phases => HasContent(c)
  /\ "metadata_reconciled" \in r.phases => Managed(c) # {}
  /\ "alias_reconciled" \in r.phases => r.pc \in Aliased
  /\ "live_reconciled" \in r.phases <=> r.pc \in {"comment", "profile"}

RouteCourse(r) ==
  LET owner == aliases[r.cmd.alias] IN
  /\ r.pc \in RouteAt
  /\ r.target = r.cmd.version
  /\ r.pc \in {"before", "unset"} => r.expected = owner
  /\ r.pc = "unset" => owner # 0
  /\ r.pc \in {"before", "unset", "set", "after", "defaultBefore"} =>
       r.planned = DefaultVersion
  /\ r.pc \in {"unset", "set", "after"} \cup Defaulting => r.target \in DOMAIN versions
  /\ r.pc \in {"after"} \cup Defaulting => owner = r.target
  /\ r.pc \in Defaulting => "alias" \in r.phases
  /\ "alias" \in r.phases => r.pc \in Defaulting \cup {"inspect"} /\ owner = r.target
  /\ "default" \notin r.phases
  /\ r.pc = "inspect" /\ r.clean => r.target \notin DOMAIN versions

DropCourse(r) ==
  /\ r.pc \in DropAt
  /\ r.pc = "absent" => ~Exists
  /\ "drop" \in r.phases => r.pc = "absent"

OnCourse(r) ==
  /\ r.cmd.kind = "deploy" => DeployCourse(r)
  /\ r.cmd.kind = "route" => RouteCourse(r)
  /\ r.cmd.kind = "drop" => DropCourse(r)

\* Nobody hears of a command before it has ended.
Heard ==
  /\ ReportTruth /\ RetryConverges
  /\ (\E p \in Process : ~At(p, "idle")) => report.cmd = NoCommand

TruthInv == Heard /\ \A p \in Process : ~At(p, "idle") => OnCourse(run[p])

\* The phases of a command that is running are facts.
Claims(r) ==
  LET c == r.cmd.content IN
  /\ r.cmd.kind = "deploy" =>
       /\ "version_committed" \in r.phases => HasContent(c)
       /\ "metadata_reconciled" \in r.phases => Managed(c) # {}
       /\ "alias_reconciled" \in r.phases => aliases[ModelAlias] \in Managed(c)
       /\ "live_reconciled" \in r.phases => draft # NoContent
  /\ r.cmd.kind = "route" =>
       /\ "alias" \in r.phases => aliases[r.cmd.alias] = r.cmd.version
       /\ "default" \notin r.phases
  /\ r.cmd.kind = "drop" => ("drop" \in r.phases => ~Exists)

\* The only reasons for which a command fails without a fault.
Excused(r) ==
  \/ r.cmd.kind = "deploy" /\ Unfinished
  \/ r.cmd.kind = "route" /\ r.cmd.version \notin DOMAIN versions

LEMMA CourseClaims ==
  ASSUME NEW r, OnCourse(r)
  PROVE  Claims(r)
<1>1. r.cmd.kind = "deploy" /\ "alias_reconciled" \in r.phases =>
        aliases[ModelAlias] \in Managed(r.cmd.content)
  BY DEF OnCourse, DeployCourse, Newest
<1> QED BY <1>1 DEF OnCourse, DeployCourse, RouteCourse, DropCourse, Claims

\* What a command knows of the Agent stays true as long as the Agent is left alone.
LEMMA SameCourse ==
  ASSUME NEW r, UNCHANGED agentVars
  PROVE  /\ OnCourse(r) => OnCourse(r)'
         /\ Claims(r) => Claims(r)'
         /\ Excused(r) => Excused(r)'
<1>1. /\ \A c : Managed(c)' = Managed(c) /\ HasContent(c)' = HasContent(c)
      /\ Exists' = Exists /\ Unfinished' = Unfinished /\ Last' = Last
      /\ DefaultVersion' = DefaultVersion
      /\ UNCHANGED <<versions, aliases, draft, marker>>
  BY DEF agentVars, Managed, HasContent, Exists, Unfinished, Last, DefaultVersion
<1>2. \A v, c : Newest(v, c)' = Newest(v, c)
  BY <1>1 DEF Newest
<1> QED BY <1>1, <1>2 DEF OnCourse, DeployCourse, RouteCourse, DropCourse, Claims, Excused

\* The state of a command that is running.
LEMMA RunningState ==
  ASSUME SerialInv, TruthInv, NEW p \in Process, run[p].pc # "idle"
  PROVE  /\ run[p] \in RunType /\ OnCourse(run[p]) /\ Progress(p) /\ Claims(run[p])
         /\ run[p].cmd \in Command /\ run[p].cmd \in CommandType
         /\ run[p].cmd.kind \in {"deploy", "route", "drop"}
         /\ run[p].cmd.content \in Content /\ run[p].cmd.content # NoContent
         /\ run[p].cmd.alias \in Alias
         /\ run[p].cmd.kind = "deploy" => run[p].cmd.alias = ModelAlias
         /\ report.cmd = NoCommand
<1>1. run[p] \in RunType /\ run[p].cmd \in Command /\ Progress(p)
  BY DEF SerialInv, TypeOK, CommandsTyped
<1>2. run[p].cmd \in CommandType
  BY <1>1, CommandIsTyped
<1>3. OnCourse(run[p]) /\ report.cmd = NoCommand
  BY DEF TruthInv, Heard, At
<1>4. Claims(run[p])
  BY <1>3, CourseClaims
<1>5. run[p].cmd.content \in Content
  BY <1>2 DEF CommandType
<1>6. run[p].cmd.content # NoContent
  BY <1>5, NoContentIsNew
<1>7. run[p].cmd.kind = "deploy" => run[p].cmd.alias = ModelAlias
  BY <1>1, DeployRoutesModelAlias
<1> QED BY <1>1, <1>2, <1>3, <1>4, <1>5, <1>6, <1>7 DEF CommandType

LEMMA GoesOnTruth ==
  ASSUME SerialInv, TruthInv, NEW p \in Process, run[p].pc # "idle",
         NEW r, run' = [run EXCEPT ![p] = r], report' = report, OnCourse(r)'
  PROVE  TruthInv'
<1>1. run'[p] = r /\ \A q \in Process : q # p => run'[q].pc = "idle"
  BY DEF SerialInv, OneCommand, At, TypeOK, CommandsTyped
<1>2. report'.cmd = NoCommand
  BY RunningState
<1>3. Heard'
  BY <1>2 DEF Heard, ReportTruth, DeployReportTruth, RouteReportTruth, DropReportTruth,
              Reports, RetryConverges
<1> QED BY <1>1, <1>3 DEF TruthInv, At

LEMMA EndsTruth ==
  ASSUME SerialInv, TruthInv, NEW p \in Process, run[p].pc # "idle",
         run' = [run EXCEPT ![p] = Idle], ReportTruth', RetryConverges'
  PROVE  TruthInv'
<1>1. \A q \in Process : run'[q].pc = "idle"
  BY IdleTyped DEF SerialInv, OneCommand, At, TypeOK, CommandsTyped
<1> QED BY <1>1 DEF TruthInv, Heard, At

\* Only a route that inspects what it left goes on after an error.
LEMMA RaiseTruth ==
  ASSUME SerialInv, TruthInv, NEW p \in Process, NEW o, o = run[p],
         o.pc \notin {"idle", "inspect"}, NEW clean \in BOOLEAN, Raise(p, clean),
         Claims(o)', clean => Excused(o)'
  PROVE  TruthInv'
<1>0. /\ o \in RunType /\ OnCourse(o) /\ o.cmd \in Command
      /\ o.cmd.kind \in {"deploy", "route", "drop"} /\ report.cmd = NoCommand
      /\ run[p].pc # "idle"
  BY RunningState
<1>1. CASE o.cmd.kind = "route" /\ o.pc \in Caught
  <2>1. PICK r : r = [Goto(p, "inspect") EXCEPT !.clean = clean]
    OBVIOUS
  <2>2. run' = [run EXCEPT ![p] = r] /\ report' = report
    BY <1>1, <2>1 DEF Raise
  <2>3. Goto(p, "inspect") = [o EXCEPT !.pc = "inspect"]
    BY DEF Goto
  <2>4. /\ r.pc = "inspect" /\ r.cmd = o.cmd /\ r.target = o.target
        /\ r.phases = o.phases /\ r.clean = clean
    BY <1>0, <2>1, <2>3 DEF RunType
  <2>5. o.target = o.cmd.version
    BY <1>0, <1>1 DEF OnCourse, RouteCourse
  <2>6. RouteCourse(r)'
    BY <1>1, <2>4, <2>5 DEF RouteCourse, RouteAt, Defaulting, Claims, Excused
  <2>7. OnCourse(r)'
    BY <1>1, <2>4, <2>6 DEF OnCourse
  <2> QED BY <1>0, <2>2, <2>7, GoesOnTruth
<1>2. CASE ~(o.cmd.kind = "route" /\ o.pc \in Caught)
  <2>1. PICK status \in {"failed", "partial_failure"} : Finish(p, status, o.phases, clean)
    BY <1>2 DEF Raise
  <2>2. /\ run' = [run EXCEPT ![p] = Idle]
        /\ report'.cmd = o.cmd /\ report'.status \in {"failed", "partial_failure"}
        /\ report'.phases = o.phases /\ report'.clean = clean
    BY <2>1 DEF Finish
  <2>3. ReportTruth'
    BY <2>2 DEF ReportTruth, DeployReportTruth, RouteReportTruth, DropReportTruth, Reports,
                Claims, HasContent
  <2>4. RetryConverges'
    BY <2>2 DEF RetryConverges, Excused
  <2> QED BY <1>0, <2>2, <2>3, <2>4, EndsTruth
<1> QED BY <1>1, <1>2

LEMMA RefuseTruth ==
  ASSUME SerialInv, TruthInv, NEW p \in Process, run[p].pc \notin {"idle", "inspect"},
         Refuse(p), run[p].clean => Excused(run[p])
  PROVE  TruthInv'
<1>1. PICK o : o = run[p]
  OBVIOUS
<1>2. o.clean \in BOOLEAN /\ Claims(o)
  BY <1>1, RunningState DEF RunType
<1>3. PICK clean \in BOOLEAN : clean = o.clean
  BY <1>2
<1>4. Raise(p, clean) /\ UNCHANGED agentVars
  BY <1>1, <1>3 DEF Refuse
<1>5. Claims(o)' /\ (clean => Excused(o)')
  BY <1>1, <1>2, <1>3, <1>4, SameCourse
<1> QED BY <1>1, <1>4, <1>5, RaiseTruth

LEMMA InspectTruth ==
  ASSUME SerialInv, TruthInv, NEW p \in Process, run[p].pc # "idle",
         NEW r, Inspect(p, r), OnCourse(r)
  PROVE  TruthInv'
<1>1. OnCourse(r)'
  BY SameCourse DEF Inspect
<1> QED BY <1>1, GoesOnTruth DEF Inspect, Continue

LEMMA IssueTruth ==
  ASSUME SerialInv, TruthInv, NEW p \in Process, NEW o, o = run[p],
         o.pc \notin {"idle", "inspect"}, NEW r, Issue(p, r), OnCourse(r)', Claims(o)'
  PROVE  TruthInv'
<1>1. CASE Continue(p, r)
  BY <1>1, GoesOnTruth DEF Continue
<1>2. CASE Raise(p, FALSE)
  BY <1>2, RaiseTruth
<1> QED BY <1>1, <1>2 DEF Issue

\* What Goto and Reached leave alone, continued.
LEMMA NextFields ==
  ASSUME NEW p \in Process, run[p] \in RunType, NEW s
  PROVE  LET o == run[p]
             r == Goto(p, s) IN
         /\ r.pc = s /\ r.cmd = o.cmd /\ r.target = o.target /\ r.expected = o.expected
         /\ r.planned = o.planned /\ r.phases = o.phases /\ r.clean = o.clean
         /\ \A phase : LET q == Reached(r, phase) IN
              /\ q.pc = s /\ q.cmd = o.cmd /\ q.target = o.target
              /\ q.expected = o.expected /\ q.planned = o.planned /\ q.clean = o.clean
              /\ q.phases = o.phases \cup {phase}
<1> DEFINE o == run[p]
           r == Goto(p, s)
<1>1. r = [o EXCEPT !.pc = s]
  BY DEF Goto
<1>2. /\ r.pc = s /\ r.cmd = o.cmd /\ r.target = o.target /\ r.expected = o.expected
      /\ r.planned = o.planned /\ r.phases = o.phases /\ r.clean = o.clean
  BY <1>1 DEF RunType
<1>3. ASSUME NEW phase
      PROVE  LET q == Reached(r, phase) IN
             /\ q.pc = s /\ q.cmd = o.cmd /\ q.target = o.target
             /\ q.expected = o.expected /\ q.planned = o.planned /\ q.clean = o.clean
             /\ q.phases = o.phases \cup {phase}
  BY <1>1 DEF RunType, Reached
<1> QED BY <1>2, <1>3

\* The step a command is at tells what kind of command it is.
LEMMA KindOfStep ==
  ASSUME SerialInv, TruthInv, NEW p \in Process, run[p].pc # "idle"
  PROVE  LET o == run[p] IN
         /\ o.pc \in DeployAt \ Routing => o.cmd.kind = "deploy" /\ DeployCourse(o)
         /\ o.pc \in RouteAt \ Routing => o.cmd.kind = "route" /\ RouteCourse(o)
         /\ o.pc \in DropAt => o.cmd.kind = "drop" /\ DropCourse(o)
         /\ o.pc \in Routing => \/ o.cmd.kind = "deploy" /\ DeployCourse(o)
                                \/ o.cmd.kind = "route" /\ RouteCourse(o)
<1> DEFINE o == run[p]
<1>1. OnCourse(o) /\ o.cmd.kind \in {"deploy", "route", "drop"}
  BY RunningState
<1> HIDE DEF o
<1>2. /\ o.cmd.kind = "deploy" => o.pc \in DeployAt
      /\ o.cmd.kind = "route" => o.pc \in RouteAt
      /\ o.cmd.kind = "drop" => o.pc \in DropAt
  BY <1>1 DEF OnCourse, DeployCourse, RouteCourse, DropCourse
<1>3. /\ o.pc \in DeployAt \ Routing => o.cmd.kind = "deploy"
      /\ o.pc \in RouteAt \ Routing => o.cmd.kind = "route"
      /\ o.pc \in DropAt => o.cmd.kind = "drop"
      /\ o.pc \in Routing => o.cmd.kind \in {"deploy", "route"}
  BY <1>1, <1>2 DEF DeployAt, RouteAt, DropAt, Routing
<1>4. /\ o.pc \in DeployAt \ Routing => o.cmd.kind = "deploy" /\ DeployCourse(o)
      /\ o.pc \in RouteAt \ Routing => o.cmd.kind = "route" /\ RouteCourse(o)
      /\ o.pc \in DropAt => o.cmd.kind = "drop" /\ DropCourse(o)
      /\ o.pc \in Routing => \/ o.cmd.kind = "deploy" /\ DeployCourse(o)
                             \/ o.cmd.kind = "route" /\ RouteCourse(o)
  BY <1>1, <1>3 DEF OnCourse
<1> QED BY <1>4 DEF o

\* A deploy that only looks at the Agent: it fails for an unfinished creation alone,
\* and what it reads stays so until it acts on it.
LEMMA DeployInspectionsTruth ==
  ASSUME SerialInv, TruthInv, NEW p \in Process,
         \/ AgentExists(p) \/ AssertCreationComplete(p) \/ FindManagedVersion(p)
         \/ CompareAlias(p) \/ DescribeCreated(p) \/ CheckDraft(p)
         \/ DescribeCurrentAliases(p) \/ CheckLive(p) \/ VerifyLive(p)
  PROVE  TruthInv'
<1>1. PICK o : o = run[p]
  OBVIOUS
<1>2. /\ o.pc \in DeployAt \ Routing /\ o.pc # "idle" /\ o.pc # "inspect"
      /\ o.pc \notin {"exists", "create"} \/ AgentExists(p)
  BY <1>1 DEF AgentExists, AssertCreationComplete, FindManagedVersion, CompareAlias,
              DescribeCreated, CheckDraft, DescribeCurrentAliases, CheckLive, VerifyLive,
              At, DeployAt, Routing
<1>3. /\ o.cmd.kind = "deploy" /\ DeployCourse(o)
      /\ o \in RunType /\ Progress(p)
  BY <1>1, <1>2, RunningState, KindOfStep
<1>4. AgentExists(p) \/ Exists
  BY <1>2, <1>3 DEF DeployCourse, Routing
<1>5. ASSUME Refuse(p), Unfinished  PROVE TruthInv'
  BY <1>1, <1>2, <1>3, <1>5, RefuseTruth DEF Excused
<1>6. ASSUME NEW r, Inspect(p, r), r.cmd = o.cmd, DeployCourse(r)  PROVE TruthInv'
  <2>1. OnCourse(r)
    BY <1>3, <1>6 DEF OnCourse
  <2> QED BY <1>1, <1>2, <1>6, <2>1, InspectTruth
<1>7. ASSUME NEW s
      PROVE  LET r == Goto(p, s) IN
             /\ r.pc = s /\ r.cmd = o.cmd /\ r.target = o.target
             /\ r.expected = o.expected /\ r.phases = o.phases
             /\ \A phase : LET q == Reached(r, phase) IN
                  /\ q.pc = s /\ q.cmd = o.cmd /\ q.target = o.target
                  /\ q.expected = o.expected /\ q.phases = o.phases \cup {phase}
  BY <1>1, <1>3, NextFields
<1> DEFINE c == o.cmd.content
<1>8. CASE AgentExists(p)
  <2>1. PICK s : s = IF Exists THEN "guard" ELSE "create"
    OBVIOUS
  <2>2. PICK r : r = Goto(p, s)
    OBVIOUS
  <2>3. o.pc = "exists" /\ Inspect(p, r)
    BY <1>1, <1>8, <2>1, <2>2 DEF AgentExists, At
  <2>4. r.pc = s /\ r.cmd = o.cmd /\ r.phases = o.phases
    BY <1>7, <2>2
  <2>5. DeployCourse(r)
    BY <1>3, <2>1, <2>3, <2>4 DEF DeployCourse, DeployAt, Aliased, Routing
  <2> QED BY <1>6, <2>3, <2>4, <2>5
<1>9. CASE AssertCreationComplete(p)
  <2>1. CASE Unfinished
    BY <1>5, <1>9, <2>1 DEF AssertCreationComplete
  <2>2. CASE ~Unfinished
    <3>1. PICK s \in {"draft", "managed"} : o.pc = "guard" /\ Inspect(p, Goto(p, s))
      BY <1>1, <1>4, <1>9, <2>2 DEF AssertCreationComplete, AgentExists, At
    <3>2. PICK r : r = Goto(p, s)
      OBVIOUS
    <3>3. r.pc = s /\ r.cmd = o.cmd /\ r.phases = o.phases
      BY <1>7, <3>2
    <3>4. DeployCourse(r)
      BY <1>3, <3>1, <3>3 DEF DeployCourse, DeployAt, Aliased, Routing
    <3> QED BY <1>6, <3>1, <3>2, <3>3, <3>4
  <2> QED BY <2>1, <2>2
<1>10. CASE FindManagedVersion(p)
  <2>0. o.pc = "managed" /\ Exists
    BY <1>1, <1>4, <1>10 DEF FindManagedVersion, AgentExists, At
  <2>1. CASE Inspect(p, Goto(p, "draft"))
    <3>1. PICK r : r = Goto(p, "draft")
      OBVIOUS
    <3>2. r.pc = "draft" /\ r.cmd = o.cmd /\ r.phases = o.phases
      BY <1>7, <3>1
    <3>3. DeployCourse(r)
      BY <1>3, <2>0, <3>2 DEF DeployCourse, DeployAt, Aliased, Routing
    <3> QED BY <1>6, <2>1, <3>1, <3>2, <3>3
  <2>2. ASSUME NEW v \in Managed(c), \A w \in Managed(c) : w <= v,
               Inspect(p, [Goto(p, "compare") EXCEPT !.target = v])
        PROVE  TruthInv'
    <3>1. PICK r : r = [Goto(p, "compare") EXCEPT !.target = v]
      OBVIOUS
    <3>2. r.pc = "compare" /\ r.cmd = o.cmd /\ r.phases = o.phases /\ r.target = v
      BY <1>1, <1>3, <3>1 DEF Goto, RunType
    <3>3. Newest(v, c)
      BY <2>2 DEF Newest
    <3>4. DeployCourse(r)
      BY <1>3, <2>0, <3>2, <3>3 DEF DeployCourse, DeployAt, Aliased, Routing
    <3> QED BY <1>6, <2>2, <3>1, <3>2, <3>4
  <2> QED BY <1>1, <1>10, <2>0, <2>1, <2>2 DEF FindManagedVersion
<1>11. CASE CompareAlias(p)
  <2>1. PICK s : s = IF aliases[ModelAlias] = o.target THEN "live" ELSE "before"
    OBVIOUS
  <2>2. PICK r : r = [Goto(p, s) EXCEPT !.expected = aliases[ModelAlias]]
    OBVIOUS
  <2>3. o.pc = "compare" /\ Exists
    BY <1>1, <1>4, <1>11 DEF CompareAlias, AgentExists, At
  <2>4. Inspect(p, r)
    BY <1>1, <1>11, <2>1, <2>2, <2>3 DEF CompareAlias
  <2>5. /\ r.pc = s /\ r.cmd = o.cmd /\ r.phases = o.phases /\ r.target = o.target
        /\ r.expected = aliases[ModelAlias]
    BY <1>1, <1>3, <2>2 DEF Goto, RunType
  <2>6. DeployCourse(r)
    BY <1>3, <2>1, <2>3, <2>5 DEF DeployCourse, DeployAt, Aliased, Routing
  <2> QED BY <1>6, <2>4, <2>5, <2>6
<1>12. CASE DescribeCreated(p)
  <2>1. PICK q : q = [Goto(p, "label") EXCEPT !.target = DefaultVersion]
    OBVIOUS
  <2>2. PICK r : r = Reached(q, "version_committed")
    OBVIOUS
  <2>3. o.pc = "created" /\ Exists
    BY <1>1, <1>4, <1>12 DEF DescribeCreated, AgentExists, At
  <2>4. Inspect(p, r)
    BY <1>12, <2>1, <2>2, <2>3 DEF DescribeCreated
  <2>5. Last = 1 /\ DefaultVersion = Last /\ HasContent(c)
    <3>1. Last = 1 /\ pinned = 0 /\ versions[1].content = c
      BY <1>1, <1>3, <2>3 DEF Progress
    <3>2. 1 \in DOMAIN versions
      BY <2>3, <3>1, VersionNumbersTyped DEF SerialInv
    <3> QED BY <3>1, <3>2 DEF DefaultVersion, HasContent
  <2>6. /\ r.pc = "label" /\ r.cmd = o.cmd /\ r.target = Last
        /\ r.phases = o.phases \cup {"version_committed"}
    <3>1. q.pc = "label" /\ q.cmd = o.cmd /\ q.target = DefaultVersion /\ q.phases = o.phases
      BY <1>1, <1>3, <2>1 DEF Goto, RunType
    <3>2. q \in RunType
      <4>1. DefaultVersion \in Nat
        BY <2>5
      <4> QED BY <1>1, <1>3, <2>1, <4>1 DEF Goto, RunType, Step
    <3> QED BY <2>2, <2>5, <3>1, <3>2, ReachedState
  <2>7. DeployCourse(r)
    BY <1>3, <2>3, <2>5, <2>6 DEF DeployCourse, DeployAt, Aliased, Routing
  <2> QED BY <1>6, <2>4, <2>6, <2>7
<1>13. CASE CheckDraft(p)
  <2>1. PICK s : s = IF draft = NoContent THEN "addDraft" ELSE "spec"
    OBVIOUS
  <2>2. PICK r : r = Goto(p, s)
    OBVIOUS
  <2>3. o.pc = "draft" /\ Exists
    BY <1>1, <1>4, <1>13 DEF CheckDraft, AgentExists, At
  <2>4. Inspect(p, r)
    BY <1>13, <2>1, <2>2, <2>3 DEF CheckDraft
  <2>5. r.pc = s /\ r.cmd = o.cmd /\ r.phases = o.phases
    BY <1>7, <2>2
  <2>6. DeployCourse(r)
    BY <1>3, <2>1, <2>3, <2>5 DEF DeployCourse, DeployAt, Aliased, Routing
  <2> QED BY <1>6, <2>4, <2>5, <2>6
<1>14. CASE DescribeCurrentAliases(p)
  <2>2. PICK r : r = [Goto(p, "before") EXCEPT !.expected = aliases[ModelAlias]]
    OBVIOUS
  <2>3. o.pc = "current" /\ Exists
    BY <1>1, <1>4, <1>14 DEF DescribeCurrentAliases, AgentExists, At
  <2>4. Inspect(p, r)
    BY <1>14, <2>2, <2>3 DEF DescribeCurrentAliases
  <2>5. /\ r.pc = "before" /\ r.cmd = o.cmd /\ r.phases = o.phases
        /\ r.target = o.target /\ r.expected = aliases[ModelAlias]
    BY <1>1, <1>3, <2>2 DEF Goto, RunType
  <2>6. DeployCourse(r)
    BY <1>3, <2>3, <2>5 DEF DeployCourse, DeployAt, Aliased, Routing
  <2> QED BY <1>6, <2>4, <2>5, <2>6
<1>15. CASE CheckLive(p)
  <2>1. PICK s : s = IF draft = NoContent THEN "addLive" ELSE "verifyLive"
    OBVIOUS
  <2>2. PICK r : r = Goto(p, s)
    OBVIOUS
  <2>3. o.pc = "live" /\ Exists
    BY <1>1, <1>4, <1>15 DEF CheckLive, AgentExists, At
  <2>4. Inspect(p, r)
    BY <1>15, <2>1, <2>2, <2>3 DEF CheckLive
  <2>5. r.pc = s /\ r.cmd = o.cmd /\ r.phases = o.phases /\ r.target = o.target
    BY <1>7, <2>2
  <2>6. DeployCourse(r)
    BY <1>3, <2>1, <2>3, <2>5 DEF DeployCourse, DeployAt, Aliased, Routing
  <2> QED BY <1>6, <2>4, <2>5, <2>6
<1>16. CASE VerifyLive(p)
  <2>2. PICK r : r = Reached(Goto(p, "comment"), "live_reconciled")
    OBVIOUS
  <2>3. o.pc = "verifyLive" /\ Exists
    BY <1>1, <1>4, <1>16 DEF VerifyLive, AgentExists, At
  <2>4. draft # NoContent
    BY <1>3, <2>3 DEF DeployCourse
  <2>5. Inspect(p, r)
    BY <1>16, <2>2, <2>4 DEF VerifyLive
  <2>6. /\ r.pc = "comment" /\ r.cmd = o.cmd /\ r.target = o.target
        /\ r.phases = o.phases \cup {"live_reconciled"}
    BY <1>7, <2>2
  <2>7. DeployCourse(r)
    BY <1>3, <2>3, <2>4, <2>6 DEF DeployCourse, DeployAt, Aliased, Routing
  <2> QED BY <1>6, <2>5, <2>6, <2>7
<1> QED BY <1>8, <1>9, <1>10, <1>11, <1>12, <1>13, <1>14, <1>15, <1>16

\* A deploy that completes leaves its alias on the newest version of its content.
LEMMA SetProfileTruth ==
  ASSUME SerialInv, TruthInv, NEW p \in Process, SetProfile(p)
  PROVE  TruthInv'
<1>1. PICK o : o = run[p]
  OBVIOUS
<1>2. o.pc = "profile"
  BY <1>1 DEF SetProfile, At
<1>3. /\ o.cmd.kind = "deploy" /\ DeployCourse(o) /\ Claims(o)
      /\ o.cmd.content # NoContent /\ run[p].pc # "idle"
  BY <1>1, <1>2, RunningState, KindOfStep DEF DeployAt, Routing
<1> DEFINE c == o.cmd.content
<1>4. /\ Exists /\ Newest(o.target, c) /\ aliases[ModelAlias] = o.target /\ ~marker
      /\ "live_reconciled" \in o.phases
  BY <1>2, <1>3 DEF DeployCourse, DeployAt, Aliased, Routing
<1>5. /\ Finish(p, "completed", o.phases, o.clean)
      /\ UNCHANGED <<agentVars, promise, started, faults>>
  BY <1>1, <1>4 DEF SetProfile
<1>6. /\ run' = [run EXCEPT ![p] = Idle] /\ report'.cmd = o.cmd
      /\ report'.status = "completed" /\ report'.phases = o.phases
  BY <1>1, <1>5 DEF Finish
<1>7. /\ UNCHANGED <<versions, aliases, draft, marker>>
      /\ Managed(c)' = Managed(c) /\ HasContent(c)' = HasContent(c)
  BY <1>5 DEF agentVars, Managed, HasContent
<1>8. /\ aliases[ModelAlias] \in Managed(c)
      /\ \A w \in Managed(c) : w <= aliases[ModelAlias]
      /\ versions[aliases[ModelAlias]].content = c
  <2>1. o.target \in Managed(c) /\ \A w \in Managed(c) : w <= o.target
    BY <1>4 DEF Newest
  <2>2. o.target \in DOMAIN versions /\ versions[o.target].label = c
    BY <2>1 DEF Managed
  <2>3. versions[o.target].content = c
    BY <1>3, <2>2 DEF SerialInv, AgentSound, LabelTruth
  <2> QED BY <1>4, <2>1, <2>3
<1>9. ReportTruth'
  <2>1. /\ "version_committed" \in o.phases => HasContent(c)
        /\ "metadata_reconciled" \in o.phases => Managed(c) # {}
        /\ draft # NoContent
    BY <1>2, <1>3 DEF DeployCourse, DeployAt, Routing
  <2>2. DeployReportTruth'
    BY <1>4, <1>6, <1>7, <1>8, <2>1 DEF DeployReportTruth, Reports, HasContent
  <2> QED BY <1>3, <1>6, <2>2 DEF ReportTruth, RouteReportTruth, DropReportTruth, Reports
<1>10. RetryConverges'
  BY <1>6 DEF RetryConverges
<1> QED BY <1>3, <1>6, <1>9, <1>10, EndsTruth

\* A statement of a deploy.
LEMMA DeployIssueTruth ==
  ASSUME SerialInv, TruthInv, NEW p \in Process, NEW o, o = run[p],
         o.pc \notin {"idle", "inspect"}, o.cmd.kind = "deploy",
         NEW r, r.cmd = o.cmd, Issue(p, r), DeployCourse(r)', Claims(o)'
  PROVE  TruthInv'
<1>1. OnCourse(r)'
  BY DEF OnCourse
<1> QED BY <1>1, IssueTruth

LEMMA CreateAgentTruth ==
  ASSUME SerialInv, TruthInv, NEW p \in Process, CreateAgent(p)
  PROVE  TruthInv'
<1>1. PICK o : o = run[p]
  OBVIOUS
<1>2. o.pc = "create"
  BY <1>1 DEF CreateAgent, At
<1>3. o.cmd.kind = "deploy" /\ DeployCourse(o) /\ o \in RunType
  BY <1>1, <1>2, RunningState, KindOfStep DEF DeployAt, Routing
<1> DEFINE c == o.cmd.content
<1>4. /\ "version_committed" \notin o.phases /\ "metadata_reconciled" \notin o.phases
      /\ "alias_reconciled" \notin o.phases /\ "live_reconciled" \notin o.phases
      /\ ~Exists
  <2>1. ~Exists
    BY <1>2, <1>3 DEF DeployCourse
  <2>2. ~HasContent(c) /\ Managed(c) = {}
    BY <2>1 DEF HasContent, Managed, Exists
  <2> QED BY <1>2, <1>3, <2>1, <2>2 DEF DeployCourse, Aliased
<1>5. PICK r : r = Goto(p, "created")
  OBVIOUS
<1>6. Issue(p, r) /\ versions' # <<>>
  BY <1>4, <1>5 DEF CreateAgent
<1>7. r.pc = "created" /\ r.cmd = o.cmd /\ r.phases = o.phases
  BY <1>1, <1>3, <1>5, NextFields
<1>8. DeployCourse(r)'
  BY <1>4, <1>6, <1>7 DEF DeployCourse, DeployAt, Aliased, Routing, Exists
<1>9. Claims(o)'
  BY <1>3, <1>4 DEF Claims
<1> QED BY <1>1, <1>2, <1>3, <1>6, <1>7, <1>8, <1>9, DeployIssueTruth

\* ADD LIVE, MODIFY LIVE and SET COMMENT leave versions and aliases alone.
LEMMA DraftStatementsTruth ==
  ASSUME SerialInv, TruthInv, NEW p \in Process,
         AddLiveVersion(p) \/ ModifyLiveVersion(p) \/ SetAgentComment(p)
  PROVE  TruthInv'
<1>1. PICK o : o = run[p]
  OBVIOUS
<1>2. o.pc \in {"addDraft", "addLive", "spec", "comment"}
  BY <1>1 DEF AddLiveVersion, ModifyLiveVersion, SetAgentComment, At
<1>3. /\ o.cmd.kind = "deploy" /\ DeployCourse(o) /\ Claims(o) /\ o \in RunType
      /\ o.cmd.content # NoContent /\ Exists
  <2>1. /\ o.cmd.kind = "deploy" /\ DeployCourse(o) /\ Claims(o) /\ o \in RunType
        /\ o.cmd.content # NoContent
    BY <1>1, <1>2, RunningState, KindOfStep DEF DeployAt, Routing
  <2> QED BY <1>2, <2>1 DEF DeployCourse, DeployAt
<1> DEFINE c == o.cmd.content
<1>4. SUFFICES ASSUME UNCHANGED <<versions, aliases>>, draft' # NoContent,
                      NEW s \in {"spec", "verifyLive", "commit", "profile"},
                      Issue(p, Goto(p, s)),
                      s = "verifyLive" => o.pc = "addLive",
                      s = "profile" => ~marker' /\ o.pc = "comment",
                      s \in {"spec", "commit"} => o.pc \in {"addDraft", "spec"}
               PROVE  TruthInv'
  <2>1. CASE AddLiveVersion(p)
    <3>1. draft = NoContent /\ o.pc \in {"addDraft", "addLive"}
      BY <1>1, <1>3, <2>1 DEF AddLiveVersion, At, DeployCourse
    <3>2. versions[Last].content # NoContent
      <4>1. Last \in DOMAIN versions /\ versions \in Seq(VersionType)
        BY <1>3, VersionNumbersTyped DEF SerialInv, TypeOK, AgentTyped
      <4>2. versions[Last] \in VersionType
        BY <4>1, ElementOfSeq, LenProperties
      <4> QED BY <4>2, NoContentIsNew DEF VersionType
    <3>3. PICK s \in {"spec", "verifyLive"} :
            /\ Issue(p, Goto(p, s))
            /\ s = "verifyLive" => o.pc = "addLive"
            /\ s = "spec" => o.pc = "addDraft"
      BY <1>1, <1>3, <2>1, <3>1 DEF AddLiveVersion, At
    <3>4. UNCHANGED <<versions, aliases>> /\ draft' # NoContent
      BY <1>3, <2>1, <3>1, <3>2 DEF AddLiveVersion
    <3> QED BY <1>4, <3>1, <3>3, <3>4
  <2>2. CASE ModifyLiveVersion(p)
    <3>1. draft # NoContent /\ o.pc = "spec"
      BY <1>1, <1>3, <2>2 DEF ModifyLiveVersion, At, DeployCourse
    <3>2. /\ UNCHANGED <<versions, aliases>> /\ draft' # NoContent
          /\ Issue(p, Goto(p, "commit"))
      BY <1>1, <1>3, <2>2, <3>1 DEF ModifyLiveVersion
    <3> QED BY <1>4, <3>1, <3>2
  <2>3. CASE SetAgentComment(p)
    <3>1. draft # NoContent /\ o.pc = "comment"
      BY <1>1, <1>3, <2>3 DEF SetAgentComment, At, DeployCourse
    <3>2. /\ UNCHANGED <<versions, aliases>> /\ draft' # NoContent /\ ~marker'
          /\ Issue(p, Goto(p, "profile"))
      BY <1>3, <2>3, <3>1 DEF SetAgentComment
    <3> QED BY <1>4, <3>1, <3>2
  <2> QED BY <2>1, <2>2, <2>3
<1>5. PICK r : r = Goto(p, s)
  OBVIOUS
<1>6. r.pc = s /\ r.cmd = o.cmd /\ r.phases = o.phases /\ r.target = o.target
  BY <1>1, <1>3, <1>5, NextFields
<1>7. /\ Managed(c)' = Managed(c) /\ HasContent(c)' = HasContent(c)
      /\ Exists' /\ Newest(o.target, c)' = Newest(o.target, c)
  BY <1>3, <1>4 DEF Managed, HasContent, Exists, Newest
<1>8. DeployCourse(r)'
  BY <1>2, <1>3, <1>4, <1>6, <1>7 DEF DeployCourse, DeployAt, Aliased, Routing
<1>9. Claims(o)'
  BY <1>3, <1>4, <1>7 DEF Claims
<1> QED BY <1>1, <1>2, <1>3, <1>4, <1>5, <1>6, <1>8, <1>9, DeployIssueTruth

\* COMMIT leaves a version of the requested content, the last one.
LEMMA CommitVersionTruth ==
  ASSUME SerialInv, TruthInv, NEW p \in Process, CommitVersion(p)
  PROVE  TruthInv'
<1>1. PICK o : o = run[p]
  OBVIOUS
<1>2. o.pc = "commit"
  BY <1>1 DEF CommitVersion, At
<1>3. /\ o.cmd.kind = "deploy" /\ DeployCourse(o) /\ Claims(o) /\ o \in RunType
      /\ o.cmd.content # NoContent /\ o.cmd.content \in Content /\ Progress(p)
      /\ TypeOK
  BY <1>1, <1>2, RunningState, KindOfStep DEF DeployAt, Routing, SerialInv
<1> DEFINE c == o.cmd.content
           new == [content |-> draft, label |-> c]
<1>4. draft = c
  BY <1>1, <1>2, <1>3 DEF Progress
<1>5. PICK q : q = [Goto(p, "label") EXCEPT !.target = Last + 1]
  OBVIOUS
<1>6. PICK r : r = Reached(q, "version_committed")
  OBVIOUS
<1>7. /\ versions' = Append(versions, new) /\ Issue(p, r)
      /\ UNCHANGED aliases
  BY <1>1, <1>3, <1>4, <1>5, <1>6 DEF CommitVersion
<1>8. new.content = c /\ new.label = c /\ new \in VersionType
  BY <1>3, <1>4 DEF VersionType
<1> HIDE DEF new
<1>9. /\ Last' = Last + 1 /\ DOMAIN versions' = 1..(Last + 1) /\ Last \in Nat
      /\ DOMAIN versions = 1..Last /\ versions'[Last + 1] = new
      /\ \A v \in 1..Last : versions'[v] = versions[v]
  <2>1. versions \in Seq(VersionType)
    BY <1>3 DEF TypeOK, AgentTyped
  <2>2. /\ Len(versions') = Len(versions) + 1 /\ versions' \in Seq(VersionType)
        /\ versions'[Len(versions) + 1] = new
        /\ \A v \in 1..Len(versions) : versions'[v] = versions[v]
    BY <1>7, <1>8, <2>1, AppendProperties
  <2>3. DOMAIN versions' = 1..Len(versions')
    BY <2>2, LenProperties
  <2> QED BY <1>3, <2>2, <2>3, VersionNumbersTyped DEF Last
<1>10. HasContent(c)' /\ Managed(c)' # {} /\ Exists'
  <2>1. Last + 1 \in DOMAIN versions'
    BY <1>9
  <2>2. versions' # <<>>
    BY <2>1
  <2> QED BY <1>8, <1>9, <2>1, <2>2 DEF HasContent, Managed, Exists
<1>11. /\ r.pc = "label" /\ r.cmd = o.cmd /\ r.target = Last + 1
       /\ r.phases = o.phases \cup {"version_committed"}
  <2>1. Last + 1 \in Nat
    BY <1>9
  <2>2. /\ q.pc = "label" /\ q.cmd = o.cmd /\ q.target = Last + 1
        /\ q.phases = o.phases /\ q \in RunType
    BY <1>1, <1>3, <1>5, <2>1 DEF RunType, Goto, Step
  <2> QED BY <1>6, <2>2, ReachedState
<1>12. "alias_reconciled" \notin o.phases /\ "live_reconciled" \notin o.phases
  BY <1>2, <1>3 DEF DeployCourse, Aliased
<1>13. DeployCourse(r)'
  BY <1>9, <1>10, <1>11, <1>12 DEF DeployCourse, DeployAt, Aliased, Routing
<1>14. Claims(o)'
  BY <1>3, <1>10, <1>12 DEF Claims
<1> QED BY <1>1, <1>2, <1>3, <1>7, <1>11, <1>13, <1>14, DeployIssueTruth

\* The comment makes the last version the newest one with the requested label.
LEMMA SetVersionCommentTruth ==
  ASSUME SerialInv, TruthInv, NEW p \in Process, SetVersionComment(p)
  PROVE  TruthInv'
<1>1. PICK o : o = run[p]
  OBVIOUS
<1>2. o.pc = "label"
  BY <1>1 DEF SetVersionComment, At
<1>3. /\ o.cmd.kind = "deploy" /\ DeployCourse(o) /\ Claims(o) /\ o \in RunType
      /\ TypeOK
  BY <1>1, <1>2, RunningState, KindOfStep DEF DeployAt, Routing, SerialInv
<1> DEFINE c == o.cmd.content
           t == o.target
<1>4. t = Last /\ Exists
  BY <1>2, <1>3 DEF DeployCourse, DeployAt
<1>5. DOMAIN versions = 1..Last /\ Last \in Nat /\ t \in DOMAIN versions
  BY <1>3, <1>4, VersionNumbersTyped
<1>6. PICK q : q = Goto(p, "current")
  OBVIOUS
<1>7. PICK r : r = Reached(q, "metadata_reconciled")
  OBVIOUS
<1>8. /\ versions' = [versions EXCEPT ![t].label = c] /\ Issue(p, r)
      /\ UNCHANGED <<aliases, draft, marker>>
  BY <1>1, <1>5, <1>6, <1>7 DEF SetVersionComment
<1>9. /\ DOMAIN versions' = DOMAIN versions
      /\ \A v \in DOMAIN versions :
           /\ versions'[v].content = versions[v].content
           /\ versions'[v].label = IF v = t THEN c ELSE versions[v].label
  <2>1. /\ versions \in [1..Last -> VersionType] /\ DOMAIN versions = 1..Last
    BY <1>3, LenProperties DEF TypeOK, AgentTyped, Last
  <2> QED BY <1>8, <2>1 DEF VersionType
<1>10. Newest(t, c)' /\ Managed(c)' # {} /\ HasContent(c)' = HasContent(c) /\ Exists'
  <2>1. t \in Managed(c)' /\ \A w \in Managed(c)' : w <= t
    BY <1>4, <1>5, <1>9 DEF Managed
  <2>2. HasContent(c)' = HasContent(c)
    BY <1>9 DEF HasContent
  <2>3. Exists'
    BY <1>5, <1>9 DEF Exists
  <2> QED BY <2>1, <2>2, <2>3 DEF Newest
<1>11. /\ r.pc = "current" /\ r.cmd = o.cmd /\ r.target = t
       /\ r.phases = o.phases \cup {"metadata_reconciled"}
  BY <1>1, <1>3, <1>6, <1>7, NextFields
<1>12. /\ "alias_reconciled" \notin o.phases /\ "live_reconciled" \notin o.phases
       /\ "version_committed" \in o.phases => HasContent(c)
  BY <1>2, <1>3 DEF DeployCourse, Aliased
<1>13. DeployCourse(r)'
  BY <1>10, <1>11, <1>12 DEF DeployCourse, DeployAt, Aliased, Routing
<1>14. Claims(o)'
  BY <1>3, <1>10, <1>12 DEF Claims
<1> QED BY <1>1, <1>2, <1>3, <1>8, <1>11, <1>13, <1>14, DeployIssueTruth

\* UNSET and SET ALIAS, of a deploy or of a route.
LEMMA AliasStatementsTruth ==
  ASSUME SerialInv, TruthInv, NEW p \in Process, UnsetAlias(p) \/ SetAlias(p)
  PROVE  TruthInv'
<1>1. PICK o : o = run[p]
  OBVIOUS
<1>2. /\ o.pc \in {"unset", "set"}
      /\ UnsetAlias(p) => o.pc = "unset"
      /\ SetAlias(p) => o.pc = "set"
  BY <1>1 DEF UnsetAlias, SetAlias, At
<1>3. /\ \/ o.cmd.kind = "deploy" /\ DeployCourse(o)
         \/ o.cmd.kind = "route" /\ RouteCourse(o)
      /\ Claims(o) /\ o \in RunType /\ o.cmd.alias \in Alias
      /\ o.cmd.kind = "deploy" => o.cmd.alias = ModelAlias
      /\ Routed /\ aliases \in [Alias -> Nat]
  BY <1>1, <1>2, RunningState, KindOfStep
     DEF Routing, SerialInv, AgentSound, TypeOK, AgentTyped
<1> DEFINE a == o.cmd.alias
           c == o.cmd.content
<1>4. o.target \in DOMAIN versions
  BY <1>2, <1>3 DEF DeployCourse, RouteCourse, Newest, Managed, Routing
<1>5. UnsetAlias(p) => o.expected = aliases[a] /\ o.expected \in DOMAIN versions
  BY <1>2, <1>3, ModelAliasIsAlias DEF DeployCourse, RouteCourse, Routed
<1>6. PICK s : s = IF o.pc = "unset" THEN "set" ELSE "after"
  OBVIOUS
<1>7. PICK r : r = Goto(p, s)
  OBVIOUS
<1>8. /\ Issue(p, r) /\ UNCHANGED <<versions, pinned, draft, marker>>
      /\ o.pc = "set" => aliases'[a] = o.target
  <2>1. CASE UnsetAlias(p)
    BY <1>1, <1>2, <1>5, <1>6, <1>7, <2>1 DEF UnsetAlias
  <2>2. CASE SetAlias(p)
    BY <1>1, <1>2, <1>3, <1>4, <1>6, <1>7, <2>2 DEF SetAlias
  <2> QED BY <2>1, <2>2
<1>9. /\ r.pc = s /\ r.cmd = o.cmd /\ r.target = o.target /\ r.phases = o.phases
      /\ r.planned = o.planned
  BY <1>1, <1>3, <1>7, NextFields
<1>10. /\ Managed(c)' = Managed(c) /\ HasContent(c)' = HasContent(c)
       /\ Exists' = Exists /\ Newest(o.target, c)' = Newest(o.target, c)
       /\ DefaultVersion' = DefaultVersion
  BY <1>8 DEF Managed, HasContent, Exists, Newest, DefaultVersion, Last
<1>11. CASE o.cmd.kind = "deploy"
  <2>1. DeployCourse(o)
    BY <1>3, <1>11
  <2>2. "alias_reconciled" \notin o.phases
    BY <1>2, <2>1 DEF DeployCourse, Aliased
  <2>3. DeployCourse(r)'
    BY <1>2, <1>3, <1>6, <1>8, <1>9, <1>10, <1>11, <2>1
       DEF DeployCourse, DeployAt, Aliased, Routing
  <2>4. Claims(o)'
    BY <1>3, <1>8, <1>10, <1>11, <2>2 DEF Claims
  <2> QED BY <1>1, <1>2, <1>8, <1>9, <1>11, <2>3, <2>4, DeployIssueTruth
<1>12. CASE o.cmd.kind = "route"
  <2>1. RouteCourse(o)
    BY <1>3, <1>12
  <2>2. "alias" \notin o.phases /\ "default" \notin o.phases
    BY <1>2, <2>1 DEF RouteCourse, Defaulting
  <2>3. RouteCourse(r)'
    BY <1>2, <1>3, <1>6, <1>8, <1>9, <1>10, <1>12, <2>1
       DEF RouteCourse, RouteAt, Defaulting
  <2>4. Claims(o)'
    BY <1>12, <2>2 DEF Claims
  <2>5. OnCourse(r)'
    BY <1>9, <1>12, <2>3 DEF OnCourse
  <2> QED BY <1>1, <1>2, <1>8, <2>4, <2>5, IssueTruth
<1> QED BY <1>3, <1>11, <1>12

\* The alias route, of a deploy or of a route.
LEMMA RouteBeforeTruth ==
  ASSUME SerialInv, TruthInv, NEW p \in Process, RouteBefore(p)
  PROVE  TruthInv'
<1>1. PICK o : o = run[p]
  OBVIOUS
<1>2. o.pc = "before"
  BY <1>1 DEF RouteBefore, At
<1>3. /\ \/ o.cmd.kind = "deploy" /\ DeployCourse(o)
         \/ o.cmd.kind = "route" /\ RouteCourse(o)
      /\ o \in RunType
      /\ o.cmd.kind = "deploy" => o.cmd.alias = ModelAlias
  BY <1>1, <1>2, RunningState, KindOfStep DEF Routing
<1> DEFINE owner == aliases[o.cmd.alias]
<1>4. owner = o.expected
  BY <1>2, <1>3 DEF DeployCourse, RouteCourse
<1>5. CASE o.target \notin DOMAIN versions
  <2>1. o.cmd.kind = "route" /\ o.target = o.cmd.version
    BY <1>2, <1>3, <1>5 DEF DeployCourse, RouteCourse, Newest, Managed, Routing
  <2>2. Refuse(p) /\ Excused(o)
    BY <1>1, <1>5, <2>1 DEF RouteBefore, Excused
  <2> QED BY <1>1, <1>2, <2>2, RefuseTruth
<1>6. CASE o.target \in DOMAIN versions
  <2>1. PICK s : s = AliasStep(owner, o.target)
    OBVIOUS
  <2>2. PICK r : r = Goto(p, s)
    OBVIOUS
  <2>3. Inspect(p, r)
    BY <1>1, <1>4, <1>6, <2>1, <2>2 DEF RouteBefore
  <2>4. /\ r.pc = s /\ r.cmd = o.cmd /\ r.target = o.target /\ r.expected = o.expected
        /\ r.planned = o.planned /\ r.phases = o.phases
    BY <1>1, <1>3, <2>2, NextFields
  <2>5. /\ s \in {"after", "set", "unset"}
        /\ s = "after" => owner = o.target
        /\ s = "unset" => owner # 0
    BY <2>1 DEF AliasStep
  <2>6. o.cmd.kind = "deploy" => DeployCourse(r)
    BY <1>2, <1>3, <1>4, <2>4, <2>5 DEF DeployCourse, DeployAt, Aliased, Routing
  <2>7. o.cmd.kind = "route" => RouteCourse(r)
    BY <1>2, <1>3, <1>4, <1>6, <2>4, <2>5 DEF RouteCourse, RouteAt, Defaulting
  <2>8. OnCourse(r)
    BY <1>3, <2>4, <2>6, <2>7 DEF OnCourse
  <2> QED BY <1>1, <1>2, <2>3, <2>8, InspectTruth
<1> QED BY <1>5, <1>6

LEMMA RouteAfterTruth ==
  ASSUME SerialInv, TruthInv, NEW p \in Process, RouteAfter(p)
  PROVE  TruthInv'
<1>1. PICK o : o = run[p]
  OBVIOUS
<1>2. o.pc = "after"
  BY <1>1 DEF RouteAfter, At
<1>3. /\ \/ o.cmd.kind = "deploy" /\ DeployCourse(o)
         \/ o.cmd.kind = "route" /\ RouteCourse(o)
      /\ o \in RunType
      /\ o.cmd.kind = "deploy" => o.cmd.alias = ModelAlias
  BY <1>1, <1>2, RunningState, KindOfStep DEF Routing
<1>4. aliases[o.cmd.alias] = o.target
  BY <1>2, <1>3 DEF DeployCourse, RouteCourse
<1>5. CASE /\ o.cmd.kind = "deploy"
           /\ Inspect(p, Reached(Goto(p, "live"), "alias_reconciled"))
  <2>1. PICK r : r = Reached(Goto(p, "live"), "alias_reconciled")
    OBVIOUS
  <2>2. /\ r.pc = "live" /\ r.cmd = o.cmd /\ r.target = o.target
        /\ r.phases = o.phases \cup {"alias_reconciled"}
    BY <1>1, <1>3, <2>1, NextFields
  <2>3. DeployCourse(r)
    BY <1>2, <1>3, <1>4, <1>5, <2>2 DEF DeployCourse, DeployAt, Aliased, Routing
  <2>4. OnCourse(r)
    BY <1>5, <2>2, <2>3 DEF OnCourse
  <2> QED BY <1>1, <1>2, <1>5, <2>1, <2>4, InspectTruth
<1>6. CASE /\ o.cmd.kind = "route"
           /\ Inspect(p, Reached(Goto(p, "defaultBefore"), "alias"))
  <2>1. PICK r : r = Reached(Goto(p, "defaultBefore"), "alias")
    OBVIOUS
  <2>2. /\ r.pc = "defaultBefore" /\ r.cmd = o.cmd /\ r.target = o.target
        /\ r.planned = o.planned /\ r.phases = o.phases \cup {"alias"}
    BY <1>1, <1>3, <2>1, NextFields
  <2>3. RouteCourse(r)
    BY <1>2, <1>3, <1>4, <1>6, <2>2 DEF RouteCourse, RouteAt, Defaulting
  <2>4. OnCourse(r)
    BY <1>6, <2>2, <2>3 DEF OnCourse
  <2> QED BY <1>1, <1>2, <1>6, <2>1, <2>4, InspectTruth
<1>7. CASE /\ o.cmd.kind = "route" /\ ~o.cmd.setDefault
           /\ Finish(p, "completed", {"alias"}, o.clean)
           /\ UNCHANGED agentVars
  <2>1. /\ run' = [run EXCEPT ![p] = Idle] /\ report'.cmd = o.cmd
        /\ report'.status = "completed" /\ report'.phases = {"alias"}
    BY <1>1, <1>7 DEF Finish
  <2>2. aliases' = aliases /\ o.target = o.cmd.version
    BY <1>3, <1>7 DEF agentVars, RouteCourse
  <2>3. RouteReportTruth'
    BY <1>4, <1>7, <2>1, <2>2 DEF RouteReportTruth
  <2>4. ReportTruth' /\ RetryConverges'
    BY <1>7, <2>1, <2>3
       DEF ReportTruth, DeployReportTruth, DropReportTruth, Reports, RetryConverges
  <2> QED BY <1>1, <1>2, <2>1, <2>4, EndsTruth
<1> QED BY <1>1, <1>4, <1>5, <1>6, <1>7 DEF RouteAfter

LEMMA RouteInspectionsTruth ==
  ASSUME SerialInv, TruthInv, NEW p \in Process, ReadPlannedState(p) \/ DefaultBefore(p)
  PROVE  TruthInv'
<1>1. PICK o : o = run[p]
  OBVIOUS
<1>2. o.pc \in {"plan", "defaultBefore"}
  BY <1>1 DEF ReadPlannedState, DefaultBefore, At
<1>3. o.cmd.kind = "route" /\ RouteCourse(o) /\ o \in RunType
  BY <1>1, <1>2, RunningState, KindOfStep DEF RouteAt, Routing
<1>4. ASSUME NEW r, Inspect(p, r), r.cmd = o.cmd, RouteCourse(r)  PROVE TruthInv'
  <2>1. OnCourse(r)
    BY <1>3, <1>4 DEF OnCourse
  <2> QED BY <1>1, <1>2, <1>4, <2>1, InspectTruth
<1>5. CASE ReadPlannedState(p)
  <2>1. PICK r : r = [Goto(p, "before") EXCEPT !.expected = aliases[run[p].cmd.alias],
                                               !.planned = DefaultVersion]
    OBVIOUS
  <2>2. o.pc = "plan" /\ Inspect(p, r)
    BY <1>1, <1>5, <2>1 DEF ReadPlannedState, At
  <2>3. /\ r.pc = "before" /\ r.cmd = o.cmd /\ r.target = o.target /\ r.phases = o.phases
        /\ r.expected = aliases[o.cmd.alias] /\ r.planned = DefaultVersion
    BY <1>1, <1>3, <2>1 DEF Goto, RunType
  <2>4. RouteCourse(r)
    BY <1>3, <2>2, <2>3 DEF RouteCourse, RouteAt, Defaulting
  <2> QED BY <1>4, <2>2, <2>3, <2>4
<1>6. CASE DefaultBefore(p)
  <2>1. o.pc = "defaultBefore"
    BY <1>1, <1>6 DEF DefaultBefore, At
  <2>2. o.target \in DOMAIN versions /\ DefaultVersion = o.planned
    BY <1>3, <2>1 DEF RouteCourse, Defaulting
  <2>3. PICK r : r = Goto(p, "setDefault")
    OBVIOUS
  <2>4. Inspect(p, r)
    BY <1>1, <1>6, <2>2, <2>3 DEF DefaultBefore
  <2>5. /\ r.pc = "setDefault" /\ r.cmd = o.cmd /\ r.target = o.target
        /\ r.phases = o.phases
    BY <1>1, <1>3, <2>3, NextFields
  <2>6. RouteCourse(r)
    BY <1>3, <2>1, <2>5 DEF RouteCourse, RouteAt, Defaulting
  <2> QED BY <1>4, <2>4, <2>5, <2>6
<1> QED BY <1>5, <1>6

LEMMA SetDefaultVersionTruth ==
  ASSUME SerialInv, TruthInv, NEW p \in Process, SetDefaultVersion(p)
  PROVE  TruthInv'
<1>1. PICK o : o = run[p]
  OBVIOUS
<1>2. o.pc = "setDefault"
  BY <1>1 DEF SetDefaultVersion, At
<1>3. o.cmd.kind = "route" /\ RouteCourse(o) /\ Claims(o) /\ o \in RunType
  BY <1>1, <1>2, RunningState, KindOfStep DEF RouteAt, Routing
<1>4. PICK r : r = Goto(p, "defaultAfter")
  OBVIOUS
<1>5. o.target \in DOMAIN versions
  BY <1>2, <1>3 DEF RouteCourse, Defaulting
<1>6. Issue(p, r) /\ UNCHANGED <<versions, aliases>>
  BY <1>1, <1>4, <1>5 DEF SetDefaultVersion
<1>7. /\ r.pc = "defaultAfter" /\ r.cmd = o.cmd /\ r.target = o.target
      /\ r.phases = o.phases
  BY <1>1, <1>3, <1>4, NextFields
<1>8. RouteCourse(r)'
  BY <1>2, <1>3, <1>6, <1>7 DEF RouteCourse, RouteAt, Defaulting
<1>9. OnCourse(r)' /\ Claims(o)'
  BY <1>3, <1>6, <1>7, <1>8 DEF OnCourse, Claims
<1> QED BY <1>1, <1>2, <1>6, <1>9, IssueTruth

\* A route that completes with --set-default has pinned what it reports.
LEMMA DefaultAfterTruth ==
  ASSUME SerialInv, TruthInv, NEW p \in Process, DefaultAfter(p)
  PROVE  TruthInv'
<1>1. PICK o : o = run[p]
  OBVIOUS
<1>2. o.pc = "defaultAfter"
  BY <1>1 DEF DefaultAfter, At
<1>3. /\ o.cmd.kind = "route" /\ RouteCourse(o) /\ o \in RunType /\ Progress(p) /\ TypeOK
  BY <1>1, <1>2, RunningState, KindOfStep DEF RouteAt, Routing, SerialInv
<1>4. /\ pinned = o.target /\ o.target \in DOMAIN versions
      /\ aliases[o.cmd.alias] = o.target /\ "alias" \in o.phases
      /\ o.target = o.cmd.version
  BY <1>1, <1>2, <1>3 DEF Progress, RouteCourse, Defaulting
<1>5. DefaultVersion = o.target
  <2>1. o.target # 0
    BY <1>3, <1>4, VersionNumbersTyped
  <2> QED BY <1>4, <2>1 DEF DefaultVersion
<1>6. /\ Finish(p, "completed", o.phases \cup {"default"}, o.clean)
      /\ UNCHANGED agentVars
  BY <1>1, <1>5 DEF DefaultAfter, Refuse
<1>7. /\ run' = [run EXCEPT ![p] = Idle] /\ report'.cmd = o.cmd
      /\ report'.status = "completed" /\ report'.phases = o.phases \cup {"default"}
      /\ UNCHANGED <<pinned, aliases>>
  BY <1>1, <1>6 DEF Finish, agentVars
<1>8. RouteReportTruth'
  BY <1>4, <1>7 DEF RouteReportTruth
<1>9. ReportTruth' /\ RetryConverges'
  BY <1>3, <1>7, <1>8
     DEF ReportTruth, DeployReportTruth, DropReportTruth, Reports, RetryConverges
<1> QED BY <1>1, <1>2, <1>7, <1>9, EndsTruth

\* A route inspects what it left only after a fault, or for a missing version.
LEMMA InspectFailureTruth ==
  ASSUME SerialInv, TruthInv, NEW p \in Process, InspectFailure(p)
  PROVE  TruthInv'
<1>1. PICK o : o = run[p]
  OBVIOUS
<1>2. o.pc = "inspect"
  BY <1>1 DEF InspectFailure, At
<1>3. o.cmd.kind = "route" /\ RouteCourse(o)
  BY <1>1, <1>2, RunningState, KindOfStep DEF RouteAt, Routing
<1>4. /\ run' = [run EXCEPT ![p] = Idle] /\ report'.cmd = o.cmd
      /\ report'.status = "partial_failure" /\ report'.phases = o.phases
      /\ report'.clean = o.clean /\ UNCHANGED <<versions, aliases>>
  BY <1>1 DEF InspectFailure, Finish, agentVars
<1>5. /\ "alias" \in o.phases => aliases[o.cmd.alias] = o.cmd.version
      /\ "default" \notin o.phases
      /\ o.clean => o.cmd.version \notin DOMAIN versions
  BY <1>2, <1>3 DEF RouteCourse
<1>6. ReportTruth'
  BY <1>3, <1>4, <1>5
     DEF ReportTruth, RouteReportTruth, DeployReportTruth, DropReportTruth, Reports
<1>7. RetryConverges'
  BY <1>3, <1>4, <1>5 DEF RetryConverges
<1> QED BY <1>1, <1>2, <1>4, <1>6, <1>7, EndsTruth

LEMMA DropStepTruth ==
  ASSUME SerialInv, TruthInv, NEW p \in Process, DropStep(p)
  PROVE  TruthInv'
<1>1. PICK o : o = run[p]
  OBVIOUS
<1>2. o.pc \in {"inventory", "drop", "absent"}
  BY <1>1 DEF DropStep, TakeInventory, DropAgent, VerifyAbsent, At
<1>3. o.cmd.kind = "drop" /\ DropCourse(o) /\ o \in RunType
  BY <1>1, <1>2, RunningState, KindOfStep DEF DropAt
<1>4. CASE TakeInventory(p)
  <2>1. PICK r : r = Goto(p, "drop")
    OBVIOUS
  <2>2. r.pc = "drop" /\ r.cmd = o.cmd /\ r.phases = o.phases
    BY <1>1, <1>3, <2>1, NextFields
  <2>3. o.pc = "inventory" /\ Inspect(p, r)
    BY <1>1, <1>4, <2>1 DEF TakeInventory, At
  <2>4. DropCourse(r)
    BY <1>3, <2>2, <2>3 DEF DropCourse, DropAt
  <2>5. OnCourse(r)
    BY <1>3, <2>2, <2>4 DEF OnCourse
  <2> QED BY <1>1, <1>2, <2>3, <2>5, InspectTruth
<1>5. CASE DropAgent(p)
  <2>1. PICK r : r = Reached(Goto(p, "absent"), "drop")
    OBVIOUS
  <2>2. r.pc = "absent" /\ r.cmd = o.cmd /\ r.phases = o.phases \cup {"drop"}
    BY <1>1, <1>3, <2>1, NextFields
  <2>3. /\ o.pc = "drop" /\ Issue(p, r) /\ versions' = <<>>
    BY <1>1, <1>5, <2>1 DEF DropAgent, At
  <2>4. ~Exists'
    BY <2>3 DEF Exists
  <2>5. DropCourse(r)'
    BY <2>2, <2>4 DEF DropCourse, DropAt
  <2>6. OnCourse(r)' /\ Claims(o)'
    BY <1>3, <2>2, <2>4, <2>5 DEF OnCourse, Claims
  <2> QED BY <1>1, <1>2, <2>3, <2>6, IssueTruth
<1>6. CASE VerifyAbsent(p)
  <2>1. o.pc = "absent" /\ ~Exists
    BY <1>1, <1>3, <1>6 DEF VerifyAbsent, At, DropCourse
  <2>2. /\ run' = [run EXCEPT ![p] = Idle] /\ report'.cmd = o.cmd
        /\ report'.status = "completed" /\ versions' = versions
    BY <1>1, <1>6, <2>1 DEF VerifyAbsent, Finish, agentVars
  <2>3. ReportTruth' /\ RetryConverges'
    BY <1>3, <2>1, <2>2
       DEF ReportTruth, RouteReportTruth, DeployReportTruth, DropReportTruth, Reports,
           RetryConverges, Exists
  <2> QED BY <1>1, <1>2, <2>2, <2>3, EndsTruth
<1> QED BY <1>4, <1>5, <1>6 DEF DropStep

LEMMA TruthInit == Init => TruthInv
<1> SUFFICES ASSUME Init  PROVE TruthInv
  OBVIOUS
<1>1. report.cmd = NoCommand /\ \A p \in Process : At(p, "idle")
  BY IdleTyped DEF Init, NoReport, At
<1> QED BY <1>1 DEF TruthInv, Heard, ReportTruth, RouteReportTruth, DeployReportTruth,
                    DropReportTruth, Reports, RetryConverges

LEMMA TruthNext == Exclusive /\ SerialInv /\ TruthInv /\ [Next]_vars => TruthInv'
<1> SUFFICES ASSUME Exclusive, SerialInv, TruthInv, [Next]_vars  PROVE TruthInv'
  OBVIOUS
<1>1. ASSUME NEW p \in Process, StartCommand(p)  PROVE TruthInv'
  <2>1. PICK c \in Command :
          run' = [run EXCEPT ![p] = [Idle EXCEPT !.pc = FirstStep(c), !.cmd = c,
                                                 !.target = c.version]]
    BY <1>1 DEF StartCommand
  <2>2. PICK r : r = [Idle EXCEPT !.pc = FirstStep(c), !.cmd = c, !.target = c.version]
    OBVIOUS
  <2>3. r.pc = FirstStep(c) /\ r.cmd = c /\ r.target = c.version /\ r.phases = {}
    BY <2>2 DEF Idle
  <2>4. run'[p] = r /\ \A q \in Process : q # p => run'[q].pc = "idle"
    BY <1>1, <2>1, <2>2 DEF StartCommand, At, SerialInv, TypeOK, CommandsTyped
  <2>5. c.kind \in {"deploy", "route", "drop"}
    BY CommandIsTyped DEF CommandType
  <2>6. /\ c.kind = "deploy" => r.pc = "exists"
        /\ c.kind = "route" => r.pc = "plan"
        /\ c.kind = "drop" => r.pc = "inventory"
    BY <2>3, <2>5 DEF FirstStep
  <2>7. OnCourse(r)'
    <3>1. c.kind = "deploy" => DeployCourse(r)'
      BY <2>3, <2>6 DEF DeployCourse, DeployAt, Aliased, Routing
    <3>2. c.kind = "route" => RouteCourse(r)'
      BY <2>3, <2>6 DEF RouteCourse, RouteAt, Defaulting
    <3>3. c.kind = "drop" => DropCourse(r)'
      BY <2>3, <2>6 DEF DropCourse, DropAt
    <3> QED BY <2>3, <3>1, <3>2, <3>3 DEF OnCourse
  <2>8. report'.cmd = NoCommand
    BY <1>1 DEF StartCommand, NoReport
  <2>9. Heard'
    BY <2>8 DEF Heard, ReportTruth, RouteReportTruth, DeployReportTruth, DropReportTruth,
                Reports, RetryConverges
  <2> QED BY <2>4, <2>7, <2>9 DEF TruthInv, At
<1>2. ASSUME NEW p \in Process, CommandStep(p)  PROVE TruthInv'
  BY <1>2, DeployInspectionsTruth, SetProfileTruth, CreateAgentTruth,
     DraftStatementsTruth, CommitVersionTruth, SetVersionCommentTruth,
     AliasStatementsTruth, RouteBeforeTruth, RouteAfterTruth, RouteInspectionsTruth,
     SetDefaultVersionTruth, DefaultAfterTruth, InspectFailureTruth, DropStepTruth
     DEF CommandStep, DeployStep, RouteStep
<1>3. ASSUME NEW p \in Process, StatementFails(p)  PROVE TruthInv'
  <2>1. PICK o : o = run[p]
    OBVIOUS
  <2>2. o.pc \notin {"idle", "inspect"} /\ Raise(p, FALSE) /\ UNCHANGED agentVars
    BY <1>3, <2>1 DEF StatementFails, Step
  <2>3. Claims(o)
    BY <2>1, <2>2, RunningState
  <2>4. Claims(o)'
    BY <2>2, <2>3, SameCourse
  <2> QED BY <2>1, <2>2, <2>4, RaiseTruth
<1>4. ASSUME NEW p \in Process, Kill(p)  PROVE TruthInv'
  <2>1. run[p].pc # "idle" /\ run' = [run EXCEPT ![p] = Idle] /\ report' = report
    BY <1>4 DEF Kill, Step
  <2>2. report'.cmd = NoCommand
    BY <2>1, RunningState
  <2>3. ReportTruth' /\ RetryConverges'
    BY <2>2 DEF ReportTruth, RouteReportTruth, DeployReportTruth, DropReportTruth,
                Reports, RetryConverges
  <2> QED BY <2>1, <2>3, EndsTruth
<1>5. CASE UNCHANGED vars
  <2>1. UNCHANGED agentVars /\ UNCHANGED <<run, report>>
    BY <1>5 DEF vars
  <2>2. ASSUME NEW p \in Process, ~At(p, "idle")'  PROVE OnCourse(run[p])'
    <3>1. PICK r : r = run[p]
      OBVIOUS
    <3>2. OnCourse(r)
      BY <2>1, <2>2, <3>1 DEF TruthInv, At
    <3>3. OnCourse(r)'
      BY <2>1, <3>2, SameCourse
    <3> QED BY <2>1, <3>1, <3>3
  <2>3. Heard'
    <3>1. /\ UNCHANGED <<versions, aliases, pinned, draft, marker, report, run>>
          /\ \A c : Managed(c)' = Managed(c)
          /\ Exists' = Exists /\ Unfinished' = Unfinished
      BY <2>1 DEF agentVars, Managed, Exists, Unfinished
    <3>2. ReportTruth'
      BY <3>1 DEF TruthInv, Heard, ReportTruth, RouteReportTruth, DeployReportTruth,
                  DropReportTruth, Reports
    <3>3. RetryConverges'
      BY <3>1 DEF TruthInv, Heard, RetryConverges
    <3> QED BY <3>1, <3>2, <3>3 DEF TruthInv, Heard, At
  <2> QED BY <2>2, <2>3 DEF TruthInv
<1> QED BY <1>1, <1>2, <1>3, <1>4, <1>5 DEF Next, Rest

\* What holds of every command under a shared concurrency key, and what each one
\* that is running will be able to show for its report.
THEOREM TruthCorrect == ASSUME Exclusive PROVE Spec => [](SerialInv /\ TruthInv)
<1>1. Init => SerialInv /\ TruthInv
  BY SerialInit, TruthInit
<1>2. SerialInv /\ TruthInv /\ [Next]_vars => SerialInv' /\ TruthInv'
  BY SerialNext, TruthNext
<1> QED BY <1>1, <1>2, PTL DEF Spec

\* Every report of a deploy, a route or a drop tells what happened to the Agent,
\* whichever statements failed or lost their acknowledgement.
THEOREM ReportsAreTrue == ASSUME Exclusive PROVE Spec => []ReportTruth
<1>1. TruthInv => ReportTruth
  BY DEF TruthInv, Heard
<1> QED BY <1>1, TruthCorrect, PTL

\* Whatever earlier failures, lost acknowledgements and kills left behind, one
\* command without a fault completes, unless it deploys onto an unfinished creation
\* or routes to a version that does not exist.
THEOREM RetriesConverge == ASSUME Exclusive PROVE Spec => []RetryConverges
<1>1. TruthInv => RetryConverges
  BY DEF TruthInv, Heard
<1> QED BY <1>1, TruthCorrect, PTL

\* How a step can end a command: not at all, with a failure, or by looking at the
\* Agent once more and showing the alias owner it sees.
Told ==
  \/ report' = report
  \/ report'.status \in {"failed", "partial_failure"}
  \/ UNCHANGED agentVars /\ report'.owner = aliases[report'.cmd.alias]

LEMMA RaiseTold ==
  ASSUME NEW p \in Process, NEW clean, Raise(p, clean)
  PROVE  Told
  BY DEF Raise, Finish, Told

LEMMA StepTold ==
  ASSUME NEW p \in Process, CommandStep(p)
  PROVE  Told
<1>1. ASSUME Refuse(p)  PROVE Told
  BY <1>1, RaiseTold DEF Refuse
<1>2. ASSUME NEW r, Inspect(p, r)  PROVE Told
  BY <1>2 DEF Inspect, Continue, Told
<1>3. ASSUME NEW r, Issue(p, r)  PROVE Told
  BY <1>3, RaiseTold DEF Issue, Continue, Told
<1>4. ASSUME NEW status, NEW phases, NEW clean, Finish(p, status, phases, clean),
             UNCHANGED agentVars
      PROVE  Told
  BY <1>4 DEF Finish, Told
<1>5. CASE \/ AgentExists(p) \/ AssertCreationComplete(p) \/ FindManagedVersion(p)
           \/ CompareAlias(p) \/ DescribeCreated(p) \/ CheckDraft(p)
           \/ DescribeCurrentAliases(p) \/ CheckLive(p) \/ VerifyLive(p) \/ SetProfile(p)
  BY <1>1, <1>2, <1>4, <1>5
     DEF AgentExists, AssertCreationComplete, FindManagedVersion, CompareAlias,
         DescribeCreated, CheckDraft, DescribeCurrentAliases, CheckLive, VerifyLive,
         SetProfile
<1>6. CASE \/ CreateAgent(p) \/ AddLiveVersion(p) \/ ModifyLiveVersion(p)
           \/ CommitVersion(p) \/ SetVersionComment(p) \/ SetAgentComment(p)
  BY <1>1, <1>3, <1>6 DEF CreateAgent, AddLiveVersion, ModifyLiveVersion, CommitVersion,
                          SetVersionComment, SetAgentComment
<1>7. CASE RouteStep(p)
  BY <1>1, <1>2, <1>3, <1>4, <1>7
     DEF RouteStep, RouteBefore, UnsetAlias, SetAlias, RouteAfter, ReadPlannedState,
         DefaultBefore, SetDefaultVersion, DefaultAfter, InspectFailure
<1>8. CASE DropStep(p)
  BY <1>1, <1>2, <1>3, <1>4, <1>8 DEF DropStep, TakeInventory, DropAgent, VerifyAbsent
<1> QED BY <1>5, <1>6, <1>7, <1>8 DEF CommandStep, DeployStep

\* The owner that a completed command showed still owns the alias.
OwnerShown ==
  report.cmd # NoCommand /\ report.status = "completed" =>
    report.owner = aliases[report.cmd.alias]

LEMMA OwnerShownNext ==
  Exclusive /\ SerialInv /\ TruthInv /\ OwnerShown /\ [Next]_vars => OwnerShown'
<1> SUFFICES ASSUME Exclusive, SerialInv, TruthInv, OwnerShown, [Next]_vars
             PROVE  OwnerShown'
  OBVIOUS
<1>1. ASSUME NEW p \in Process, run[p].pc # "idle", Told  PROVE OwnerShown'
  <2>1. report.cmd = NoCommand
    BY <1>1, RunningState
  <2>2. CASE report' = report
    BY <2>1, <2>2 DEF OwnerShown
  <2>3. CASE report'.status \in {"failed", "partial_failure"}
    BY <2>3 DEF OwnerShown
  <2>4. CASE UNCHANGED agentVars /\ report'.owner = aliases[report'.cmd.alias]
    BY <2>4 DEF OwnerShown, agentVars
  <2> QED BY <1>1, <2>2, <2>3, <2>4 DEF Told
<1>2. ASSUME NEW p \in Process, StartCommand(p)  PROVE OwnerShown'
  BY <1>2 DEF StartCommand, NoReport, OwnerShown
<1>3. ASSUME NEW p \in Process, CommandStep(p)  PROVE OwnerShown'
  <2>1. run[p].pc # "idle"
    BY <1>3 DEF CommandStep, DeployStep, RouteStep, DropStep, AgentExists,
       AssertCreationComplete, FindManagedVersion, CompareAlias, CreateAgent,
       DescribeCreated, CheckDraft, AddLiveVersion, ModifyLiveVersion, CommitVersion,
       SetVersionComment, DescribeCurrentAliases, CheckLive, VerifyLive,
       SetAgentComment, SetProfile, RouteBefore, UnsetAlias, SetAlias, RouteAfter,
       ReadPlannedState, DefaultBefore, SetDefaultVersion, DefaultAfter,
       InspectFailure, TakeInventory, DropAgent, VerifyAbsent, At
  <2> QED BY <1>1, <1>3, <2>1, StepTold
<1>4. ASSUME NEW p \in Process, StatementFails(p)  PROVE OwnerShown'
  <2>1. run[p].pc # "idle" /\ Raise(p, FALSE)
    BY <1>4 DEF StatementFails, Step
  <2> QED BY <1>1, <2>1, RaiseTold
<1>5. ASSUME NEW p \in Process, Kill(p)  PROVE OwnerShown'
  <2>1. run[p].pc # "idle" /\ report' = report
    BY <1>5 DEF Kill, Step
  <2> QED BY <1>1, <2>1 DEF Told
<1>6. CASE UNCHANGED vars
  BY <1>6 DEF vars, agentVars, OwnerShown
<1> QED BY <1>2, <1>3, <1>4, <1>5, <1>6 DEF Next, Rest

\* Under a shared concurrency key a route that completes shows the alias on the
\* version it was asked to move it to; without the key another command can move the
\* alias away before the result is read.
THEOREM CompletedRoutesOwnTheirAlias ==
  ASSUME Exclusive PROVE Spec => []CompletedRouteOwnsAlias
<1>1. Init => OwnerShown
  BY DEF Init, NoReport, OwnerShown
<1>2. SerialInv /\ TruthInv /\ OwnerShown /\ [Next]_vars => OwnerShown'
  BY OwnerShownNext
<1>3. TruthInv /\ OwnerShown => CompletedRouteOwnsAlias
  BY DEF TruthInv, Heard, ReportTruth, RouteReportTruth, OwnerShown,
         CompletedRouteOwnsAlias, Reports
<1> QED BY <1>1, <1>2, <1>3, TruthCorrect, PTL DEF Spec

-----------------------------------------------------------------------------
(* Commands that overlap.  Of everything above only the promise survives: no   *)
(* deploy and no route takes a pin back, whatever the interleaving, so DEFAULT *)
(* follows the last SET DEFAULT_VERSION.  (A drop does take it back: a route   *)
(* it overtakes may promise the version of an Agent created meanwhile, which   *)
(* nothing pins.)                                                              *)

NoDrops == \A c \in Command : c.kind # "drop"

PinsKept ==
  /\ pinned # 0 => Exists
  /\ promise # 0 => pinned = promise

PromiseInv ==
  /\ TypeOK
  /\ PinsKept
  /\ \A p \in Process : /\ run[p].pc \notin DropAt
                        /\ run[p].pc = "defaultAfter" => pinned # 0

LEMMA OverlapMoves ==
  ASSUME PromiseInv, TypeOK', NEW p \in Process, NEW r, run' = [run EXCEPT ![p] = r],
         r.pc \notin DropAt, r.pc = "defaultAfter" => pinned' # 0,
         PinsKept', pinned # 0 => pinned' # 0
  PROVE  PromiseInv'
<1>1. run'[p] = r /\ \A q \in Process : q # p => run'[q] = run[q]
  BY DEF PromiseInv, TypeOK, CommandsTyped
<1> QED BY <1>1 DEF PromiseInv

\* A command that stops, or goes on to a step that needs no pin.
LEMMA OverlapGoesOn ==
  ASSUME PromiseInv, TypeOK', NEW p \in Process, run[p].pc # "idle",
         NEW r, r.pc \notin DropAt \cup {"defaultAfter"},
         run' = [run EXCEPT ![p] = r] \/ Stops(p),
         PinsKept', pinned # 0 => pinned' # 0
  PROVE  PromiseInv'
<1>1. CASE run' = [run EXCEPT ![p] = r]
  BY <1>1, OverlapMoves
<1>2. CASE Stops(p)
  <2>1. PICK q \in RunType :
          q.pc \in {"idle", "inspect"} /\ run' = [run EXCEPT ![p] = q]
    BY <1>2 DEF Stops
  <2> QED BY <2>1, OverlapMoves DEF DropAt
<1> QED BY <1>1, <1>2

LEMMA SamePins ==
  ASSUME PinsKept, UNCHANGED <<versions, pinned, promise>>
  PROVE  PinsKept'
  BY DEF PinsKept, Exists

LEMMA OverlapStops ==
  ASSUME PromiseInv, TypeOK', NEW p \in Process, run[p].pc # "idle", Stops(p),
         UNCHANGED <<versions, pinned, promise>>
  PROVE  PromiseInv'
<1>1. PinsKept'
  BY SamePins DEF PromiseInv
<1>2. PICK r : r = Idle
  OBVIOUS
<1>3. r.pc \notin DropAt \cup {"defaultAfter"}
  BY <1>2, IdleTyped DEF DropAt
<1> QED BY <1>1, <1>3, OverlapGoesOn

LEMMA OverlapRefuses ==
  ASSUME PromiseInv, TypeOK', NEW p \in Process, run[p].pc # "idle", Refuse(p)
  PROVE  PromiseInv'
  BY RefuseStops, OverlapStops DEF PromiseInv, agentVars

LEMMA OverlapInspects ==
  ASSUME PromiseInv, TypeOK', NEW p \in Process, run[p].pc # "idle", NEW r,
         Inspect(p, r), r.pc \notin DropAt \cup {"defaultAfter"}
  PROVE  PromiseInv'
<1>1. PinsKept'
  BY SamePins DEF PromiseInv, Inspect, agentVars
<1> QED BY <1>1, OverlapGoesOn DEF Inspect, Continue, agentVars

LEMMA OverlapFinishes ==
  ASSUME PromiseInv, TypeOK', NEW p \in Process, run[p].pc # "idle",
         NEW status, NEW phases, NEW clean, Finish(p, status, phases, clean),
         UNCHANGED <<agentVars, promise>>
  PROVE  PromiseInv'
<1>1. Stops(p)
  BY IdleTyped DEF Finish, Stops
<1> QED BY <1>1, OverlapStops DEF agentVars

LEMMA OverlapIssues ==
  ASSUME PromiseInv, TypeOK', NEW p \in Process, run[p].pc # "idle", NEW r,
         Issue(p, r), r.pc \notin DropAt \cup {"defaultAfter"}, PinsKept',
         pinned # 0 => pinned' # 0
  PROVE  PromiseInv'
<1>1. run' = [run EXCEPT ![p] = r] \/ Stops(p)
  BY IssueMoves DEF PromiseInv
<1> QED BY <1>1, OverlapGoesOn

LEMMA OverlapInspections ==
  ASSUME PromiseInv, TypeOK', NEW p \in Process,
         \/ AgentExists(p) \/ AssertCreationComplete(p) \/ FindManagedVersion(p)
         \/ CompareAlias(p) \/ DescribeCreated(p) \/ CheckDraft(p)
         \/ DescribeCurrentAliases(p) \/ CheckLive(p) \/ VerifyLive(p) \/ SetProfile(p)
         \/ RouteBefore(p) \/ RouteAfter(p) \/ ReadPlannedState(p) \/ DefaultBefore(p)
         \/ InspectFailure(p)
  PROVE  PromiseInv'
<1>1. run[p].pc # "idle" /\ TypeOK /\ run[p] \in RunType
  BY DEF AgentExists, AssertCreationComplete, FindManagedVersion, CompareAlias,
         DescribeCreated, CheckDraft, DescribeCurrentAliases, CheckLive, VerifyLive,
         SetProfile, RouteBefore, RouteAfter, ReadPlannedState, DefaultBefore,
         InspectFailure, At, PromiseInv, TypeOK, CommandsTyped
<1>2. ASSUME Refuse(p)  PROVE PromiseInv'
  BY <1>1, <1>2, OverlapRefuses
<1>3. ASSUME NEW status, NEW phases, NEW clean, Finish(p, status, phases, clean),
             UNCHANGED <<agentVars, promise>>
      PROVE  PromiseInv'
  BY <1>1, <1>3, OverlapFinishes
<1> DEFINE Steps == (Step \ DropAt) \ {"defaultAfter"}
<1>4. ASSUME NEW s \in Steps, Inspect(p, Goto(p, s))  PROVE PromiseInv'
  <2>1. Goto(p, s).pc = s
    BY <1>1, NextState
  <2> QED BY <1>1, <1>4, <2>1, OverlapInspects
<1>5. ASSUME NEW s \in Steps, NEW phase, Inspect(p, Reached(Goto(p, s), phase))
      PROVE  PromiseInv'
  <2>1. Goto(p, s) \in RunType /\ Goto(p, s).pc = s
    BY <1>1, GotoTyped, NextState
  <2>2. Reached(Goto(p, s), phase).pc = s
    BY <2>1, ReachedState
  <2> QED BY <1>1, <1>5, <2>2, OverlapInspects
<1>6. ASSUME NEW s \in Steps, NEW v, Inspect(p, [Goto(p, s) EXCEPT !.expected = v])
      PROVE  PromiseInv'
  <2>1. [Goto(p, s) EXCEPT !.expected = v].pc = s
    BY <1>1 DEF RunType, Goto
  <2> QED BY <1>1, <1>6, <2>1, OverlapInspects
<1>7. ASSUME NEW s \in Steps, NEW v, Inspect(p, [Goto(p, s) EXCEPT !.target = v])
      PROVE  PromiseInv'
  <2>1. [Goto(p, s) EXCEPT !.target = v].pc = s
    BY <1>1 DEF RunType, Goto
  <2> QED BY <1>1, <1>7, <2>1, OverlapInspects
<1>8. {"guard", "create", "managed", "draft", "compare", "live", "before", "label",
       "addDraft", "spec", "addLive", "verifyLive", "comment", "after", "set", "unset",
       "defaultBefore", "setDefault"} \subseteq Steps
  BY DEF Step, DropAt
<1> HIDE DEF Steps
<1>9. CASE AgentExists(p) \/ AssertCreationComplete(p) \/ CheckDraft(p) \/ CheckLive(p)
  BY <1>2, <1>4, <1>8, <1>9
     DEF AgentExists, AssertCreationComplete, CheckDraft, CheckLive
<1>10. CASE FindManagedVersion(p)
  BY <1>2, <1>4, <1>7, <1>8, <1>10 DEF FindManagedVersion
<1>11. CASE CompareAlias(p) \/ DescribeCurrentAliases(p)
  BY <1>2, <1>6, <1>8, <1>11 DEF CompareAlias, DescribeCurrentAliases
<1>12. CASE DescribeCreated(p)
  <2>1. SUFFICES ASSUME ~Refuse(p)  PROVE PromiseInv'
    BY <1>2
  <2>2. PICK r : r = [Goto(p, "label") EXCEPT !.target = DefaultVersion]
    OBVIOUS
  <2>3. Inspect(p, Reached(r, "version_committed"))
    BY <1>12, <2>1, <2>2 DEF DescribeCreated
  <2>4. r \in RunType /\ r.pc = "label"
    <3>1. DefaultVersion \in Nat
      BY <1>1, VersionNumbersTyped
    <3> QED BY <1>1, <2>2, <3>1 DEF RunType, Goto, Step
  <2>5. Reached(r, "version_committed").pc = "label"
    BY <2>4, ReachedState
  <2> QED BY <1>1, <2>3, <2>5, OverlapInspects DEF DropAt
<1>13. CASE VerifyLive(p)
  BY <1>2, <1>5, <1>8, <1>13 DEF VerifyLive
<1>14. CASE SetProfile(p)
  BY <1>2, <1>3, <1>14 DEF SetProfile
<1>15. CASE RouteBefore(p)
  <2>1. \A owner, target : AliasStep(owner, target) \in Steps
    BY <1>8, AliasStepTyped
  <2> QED BY <1>2, <1>4, <1>15, <2>1 DEF RouteBefore
<1>16. CASE RouteAfter(p)
  BY <1>2, <1>3, <1>5, <1>8, <1>16 DEF RouteAfter
<1>17. CASE ReadPlannedState(p)
  <2>1. PICK r : r = [Goto(p, "before") EXCEPT !.expected = aliases[run[p].cmd.alias],
                                               !.planned = DefaultVersion]
    OBVIOUS
  <2>2. r.pc = "before"
    BY <1>1, <2>1 DEF RunType, Goto
  <2>3. Inspect(p, r)
    BY <1>17, <2>1 DEF ReadPlannedState
  <2> QED BY <1>1, <2>2, <2>3, OverlapInspects DEF DropAt
<1>18. CASE DefaultBefore(p)
  BY <1>2, <1>4, <1>8, <1>18 DEF DefaultBefore
<1>19. CASE InspectFailure(p)
  BY <1>3, <1>19 DEF InspectFailure
<1> QED BY <1>9, <1>10, <1>11, <1>12, <1>13, <1>14, <1>15, <1>16, <1>17, <1>18, <1>19

\* The statements that do not name DEFAULT: the Agent still exists afterwards.
LEMMA OverlapStatements ==
  ASSUME PromiseInv, TypeOK', NEW p \in Process,
         \/ CreateAgent(p) \/ AddLiveVersion(p) \/ ModifyLiveVersion(p)
         \/ CommitVersion(p) \/ SetVersionComment(p) \/ SetAgentComment(p)
         \/ UnsetAlias(p) \/ SetAlias(p)
  PROVE  PromiseInv'
<1>1. run[p].pc # "idle" /\ TypeOK /\ run[p] \in RunType /\ PinsKept
  BY DEF CreateAgent, AddLiveVersion, ModifyLiveVersion, CommitVersion,
         SetVersionComment, SetAgentComment, UnsetAlias, SetAlias, At, PromiseInv,
         TypeOK, CommandsTyped
<1>2. SUFFICES ASSUME ~Refuse(p)  PROVE PromiseInv'
  BY <1>1, OverlapRefuses
<1>3. PICK r : Issue(p, r) /\ r.pc \notin DropAt \cup {"defaultAfter"}
  <2>1. \A s : Goto(p, s).pc = s
    BY <1>1, NextState
  <2>2. CASE CreateAgent(p)
    BY <1>2, <2>1, <2>2 DEF CreateAgent, DropAt
  <2>3. CASE AddLiveVersion(p)
    BY <1>2, <2>1, <2>3 DEF AddLiveVersion, DropAt
  <2>4. CASE ModifyLiveVersion(p)
    BY <1>2, <2>1, <2>4 DEF ModifyLiveVersion, DropAt
  <2>5. CASE SetAgentComment(p)
    BY <1>2, <2>1, <2>5 DEF SetAgentComment, DropAt
  <2>6. CASE UnsetAlias(p)
    BY <1>2, <2>1, <2>6 DEF UnsetAlias, DropAt
  <2>7. CASE SetAlias(p)
    BY <1>2, <2>1, <2>7 DEF SetAlias, DropAt
  <2>8. CASE SetVersionComment(p)
    <3>1. PICK q : q = Goto(p, "current")
      OBVIOUS
    <3>2. q \in RunType /\ q.pc = "current"
      BY <1>1, <3>1 DEF RunType, Goto, Step
    <3>3. Reached(q, "metadata_reconciled").pc = "current"
      BY <3>2, ReachedState
    <3> QED BY <1>2, <2>8, <3>1, <3>3 DEF SetVersionComment, DropAt
  <2>9. CASE CommitVersion(p)
    <3>1. PICK q : q = [Goto(p, "label") EXCEPT !.target = Last + 1]
      OBVIOUS
    <3>2. Last + 1 \in Nat
      BY <1>1, VersionNumbersTyped
    <3>3. q \in RunType /\ q.pc = "label"
      BY <1>1, <3>1, <3>2 DEF RunType, Goto, Step
    <3>4. Reached(q, "version_committed").pc = "label"
      BY <3>3, ReachedState
    <3> QED BY <1>2, <2>9, <3>1, <3>4 DEF CommitVersion, DropAt
  <2> QED BY <2>2, <2>3, <2>4, <2>5, <2>6, <2>7, <2>8, <2>9
<1>4. PinsKept' /\ (pinned # 0 => pinned' # 0)
  <2>1. CASE CreateAgent(p)
    <3>1. ~Exists /\ pinned' = 0 /\ promise' = 0
      BY <1>2, <2>1 DEF CreateAgent
    <3> QED BY <1>1, <3>1 DEF PinsKept
  <2>2. CASE CommitVersion(p)
    <3>1. /\ UNCHANGED <<pinned, promise>>
          /\ versions' = Append(versions, [content |-> draft,
                                           label |-> run[p].cmd.content])
      BY <1>2, <2>2 DEF CommitVersion
    <3>2. versions' # <<>>
      BY <1>1, <3>1 DEF TypeOK, AgentTyped
    <3> QED BY <1>1, <3>1, <3>2 DEF PinsKept, Exists
  <2>3. CASE SetVersionComment(p)
    <3>1. /\ UNCHANGED <<pinned, promise>> /\ run[p].target \in DOMAIN versions
          /\ DOMAIN versions' = DOMAIN versions
      BY <1>2, <2>3 DEF SetVersionComment
    <3>2. versions' # <<>>
      BY <3>1
    <3> QED BY <1>1, <3>1, <3>2 DEF PinsKept, Exists
  <2>4. CASE \/ AddLiveVersion(p) \/ ModifyLiveVersion(p) \/ SetAgentComment(p)
             \/ UnsetAlias(p) \/ SetAlias(p)
    <3>1. UNCHANGED <<versions, pinned, promise>>
      BY <1>2, <2>4
         DEF AddLiveVersion, ModifyLiveVersion, SetAgentComment, UnsetAlias, SetAlias
    <3> QED BY <1>1, <3>1, SamePins
  <2> QED BY <2>1, <2>2, <2>3, <2>4
<1> QED BY <1>1, <1>3, <1>4, OverlapIssues

\* SET DEFAULT_VERSION pins an existing version, and a route promises only what it
\* sees served after somebody has pinned.
LEMMA OverlapDefault ==
  ASSUME PromiseInv, TypeOK', NEW p \in Process, SetDefaultVersion(p) \/ DefaultAfter(p)
  PROVE  PromiseInv'
<1>1. run[p].pc # "idle" /\ TypeOK /\ PinsKept
  BY DEF SetDefaultVersion, DefaultAfter, At, PromiseInv
<1>2. SUFFICES ASSUME ~Refuse(p)  PROVE PromiseInv'
  BY <1>1, OverlapRefuses
<1>3. CASE SetDefaultVersion(p)
  <2>1. PICK r : r = Goto(p, "defaultAfter")
    OBVIOUS
  <2>2. /\ run[p].target \in DOMAIN versions
        /\ pinned' = run[p].target /\ promise' = 0 /\ versions' = versions
        /\ Issue(p, r)
    BY <1>2, <1>3, <2>1 DEF SetDefaultVersion
  <2>3. pinned' # 0
    BY <1>1, <2>2, VersionNumbersTyped
  <2>4. PinsKept'
    BY <2>2 DEF PinsKept, Exists
  <2>5. r.pc = "defaultAfter"
    BY <1>1, <2>1, NextState
  <2>6. CASE run' = [run EXCEPT ![p] = r]
    BY <2>3, <2>4, <2>5, <2>6, OverlapMoves DEF DropAt
  <2>7. CASE Stops(p)
    <3>1. PICK q \in RunType :
            q.pc \in {"idle", "inspect"} /\ run' = [run EXCEPT ![p] = q]
      BY <2>7 DEF Stops
    <3> QED BY <2>3, <2>4, <3>1, OverlapMoves DEF DropAt
  <2> QED BY <1>1, <2>2, <2>6, <2>7, IssueMoves
<1>4. CASE DefaultAfter(p)
  <2>1. /\ DefaultVersion = run[p].target /\ promise' = run[p].target
        /\ Finish(p, "completed", run[p].phases \cup {"default"}, run[p].clean)
        /\ UNCHANGED agentVars
    BY <1>2, <1>4 DEF DefaultAfter
  <2>2. pinned # 0
    BY <1>4 DEF DefaultAfter, At, PromiseInv
  <2>3. PinsKept'
    BY <1>1, <2>1, <2>2 DEF PinsKept, DefaultVersion, agentVars, Exists
  <2>4. PICK r : r = Idle
    OBVIOUS
  <2>5. r.pc = "idle" /\ run' = [run EXCEPT ![p] = r]
    BY <2>1, <2>4, IdleTyped DEF Finish
  <2> QED BY <2>1, <2>2, <2>3, <2>5, OverlapMoves DEF DropAt, agentVars
<1> QED BY <1>3, <1>4

LEMMA PromiseNext == NoDrops /\ PromiseInv /\ [Next]_vars => PromiseInv'
<1> SUFFICES ASSUME NoDrops, PromiseInv, [Next]_vars  PROVE PromiseInv'
  OBVIOUS
<1>1. TypeOK /\ TypeOK'
  BY TypeOKNext DEF PromiseInv
<1>2. ASSUME NEW p \in Process, StartCommand(p)  PROVE PromiseInv'
  <2>1. PICK c \in Command :
          run' = [run EXCEPT ![p] = [Idle EXCEPT !.pc = FirstStep(c), !.cmd = c,
                                                 !.target = c.version]]
    BY <1>2 DEF StartCommand
  <2>2. PICK r : r = [Idle EXCEPT !.pc = FirstStep(c), !.cmd = c, !.target = c.version]
    OBVIOUS
  <2>3. c.kind \in {"deploy", "route"}
    BY CommandIsTyped DEF CommandType, NoDrops
  <2>4. r.pc \in {"exists", "plan"}
    BY <2>2, <2>3 DEF Idle, FirstStep
  <2>5. UNCHANGED <<versions, pinned, promise>> /\ run' = [run EXCEPT ![p] = r]
    BY <1>2, <2>1, <2>2 DEF StartCommand, agentVars
  <2>6. PinsKept'
    BY <2>5, SamePins DEF PromiseInv
  <2> QED BY <1>1, <2>4, <2>5, <2>6, OverlapMoves DEF DropAt
<1>3. ASSUME NEW p \in Process, CommandStep(p)  PROVE PromiseInv'
  <2>1. ~DropStep(p)
    BY DEF DropStep, TakeInventory, DropAgent, VerifyAbsent, At, PromiseInv, DropAt
  <2> QED BY <1>1, <1>3, <2>1, OverlapInspections, OverlapStatements, OverlapDefault
          DEF CommandStep, DeployStep, RouteStep
<1>4. ASSUME NEW p \in Process, StatementFails(p)  PROVE PromiseInv'
  <2>1. /\ run[p].pc # "idle" /\ Raise(p, FALSE)
        /\ UNCHANGED <<versions, pinned, promise>>
    BY <1>4 DEF StatementFails, Step, agentVars
  <2>2. Stops(p)
    BY <1>1, <2>1, RaiseStops
  <2> QED BY <1>1, <2>1, <2>2, OverlapStops
<1>5. ASSUME NEW p \in Process, Kill(p)  PROVE PromiseInv'
  <2>1. /\ run[p].pc # "idle" /\ run' = [run EXCEPT ![p] = Idle]
        /\ UNCHANGED <<versions, pinned, promise>>
    BY <1>5 DEF Kill, Step, agentVars
  <2>2. Stops(p)
    BY <2>1, IdleTyped DEF Stops
  <2> QED BY <1>1, <2>1, <2>2, OverlapStops
<1>6. CASE UNCHANGED vars
  BY <1>1, <1>6 DEF vars, agentVars, PromiseInv, PinsKept, Exists
<1> QED BY <1>2, <1>3, <1>4, <1>5, <1>6 DEF Next, Rest

\* The version a completed --set-default reported keeps serving also when deploys,
\* promotions and rollbacks overlap in any way, fail and are killed.
THEOREM PromisesSurviveOverlap == ASSUME NoDrops PROVE Spec => []PromiseKept
<1>1. Init => PromiseInv
  BY TypeOKInit, IdleTyped DEF Init, PromiseInv, PinsKept, DropAt
<1>2. PromiseInv /\ [Next]_vars => PromiseInv'
  BY PromiseNext
<1>3. PromiseInv => PromiseKept
  BY DEF PromiseInv, PinsKept, PromiseKept, DefaultVersion
<1> QED BY <1>1, <1>2, <1>3, PTL DEF Spec
=============================================================================
