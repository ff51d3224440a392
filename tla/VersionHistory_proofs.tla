----------------------- MODULE VersionHistory_proofs -----------------------
(***************************************************************************)
(* The statements of serialized commands implement VersionHistory: every   *)
(* step of AgentLifecycle is a step of the history or leaves it alone.     *)
(* And a creation that was interrupted is left as it is.                   *)
(***************************************************************************)
EXTENDS AgentLifecycle_proofs

Contents == Content \cup {Foreign}
TheHistory == [v \in DOMAIN versions |-> versions[v].content]

LEMMA HistoryTyped ==
  ASSUME TypeOK
  PROVE  /\ TheHistory \in Seq(Contents)
         /\ Len(TheHistory) = Last
         /\ DOMAIN TheHistory = 1..Last
         /\ Last \in Nat
         /\ \A v \in 1..Last : TheHistory[v] = versions[v].content
<1>1. Last \in Nat /\ DOMAIN versions = 1..Last /\ versions \in [1..Last -> VersionType]
  BY LenProperties DEF TypeOK, AgentTyped, Last
<1>2. TheHistory \in [1..Last -> Contents]
  BY <1>1 DEF TheHistory, Contents, VersionType
<1>3. TheHistory \in Seq(Contents)
  BY <1>1, <1>2, SeqDef
<1>4. DOMAIN TheHistory = 1..Last /\ DOMAIN TheHistory = 1..Len(TheHistory)
  BY <1>1, <1>3, LenProperties DEF TheHistory
<1>5. Len(TheHistory) \in Nat
  BY <1>3, LenProperties
<1>6. Len(TheHistory) = Last
  BY <1>1, <1>4, <1>5
<1> QED BY <1>1, <1>3, <1>4, <1>6 DEF TheHistory

\* Two typed Agents with equally many versions of the same contents have one history.
LEMMA SameHistory ==
  ASSUME TypeOK, TypeOK', Last' = Last,
         \A v \in 1..Last : versions'[v].content = versions[v].content
  PROVE  TheHistory' = TheHistory
<1>1. DOMAIN versions = 1..Last /\ DOMAIN versions' = 1..Last
  BY LenProperties DEF TypeOK, AgentTyped, Last
<1> QED BY <1>1 DEF TheHistory

LEMMA LongerHistory ==
  ASSUME TypeOK, TypeOK', Last' = Last + 1,
         \A v \in 1..Last : versions'[v].content = versions[v].content,
         NEW c \in Contents, versions'[Last + 1].content = c
  PROVE  TheHistory' = Append(TheHistory, c)
<1>1. /\ TheHistory \in Seq(Contents) /\ Len(TheHistory) = Last /\ Last \in Nat
      /\ \A v \in 1..Last : TheHistory[v] = versions[v].content
  BY HistoryTyped
<1>2. /\ TheHistory' \in Seq(Contents) /\ Len(TheHistory') = Last + 1
      /\ \A v \in 1..(Last + 1) : TheHistory'[v] = versions'[v].content
  <2>1. (/\ TheHistory \in Seq(Contents)
         /\ Len(TheHistory) = Last
         /\ \A v \in 1..Last : TheHistory[v] = versions[v].content)'
    BY HistoryTyped, PTL
  <2> QED BY <2>1 DEF Contents
<1> DEFINE h == Append(TheHistory, c)
<1>3. /\ h \in Seq(Contents) /\ Len(h) = Last + 1 /\ h[Last + 1] = c
      /\ \A v \in 1..Last : h[v] = TheHistory[v]
  BY <1>1, AppendProperties
<1> HIDE DEF h
<1>4. \A v \in 1..(Last + 1) : TheHistory'[v] = h[v]
  BY <1>1, <1>2, <1>3
<1>5. TheHistory' = h
  BY <1>2, <1>3, <1>4, SeqEqual
<1> QED BY <1>5 DEF h

\* Nothing the history shows has changed.
LEMMA Unseen ==
  ASSUME UNCHANGED <<versions, pinned, aliases>>
  PROVE  UNCHANGED History!hvars
  BY DEF History!hvars, TheHistory

LEMMA CreateAgentPublishes ==
  ASSUME SerialInv, TypeOK', NEW p \in Process, CreateAgent(p)
  PROVE  [History!HNext]_(History!hvars)
<1>1. /\ TypeOK /\ PinsHold /\ Routed /\ run[p].cmd.content \in Contents
  BY CommandIsTyped DEF SerialInv, AgentSound, CreateAgent, At, TypeOK, CommandsTyped,
                        CommandType, Contents
<1>2. CASE Refuse(p)
  BY <1>2, Unseen DEF Refuse, agentVars
<1>3. CASE ~Refuse(p)
  <2> DEFINE c == run[p].cmd.content
             new == [content |-> c, label |-> NoContent]
  <2>1. /\ versions = <<>> /\ versions' = <<new>>
        /\ aliases' = [a \in Alias |-> 0] /\ pinned' = 0
    BY <1>3 DEF CreateAgent, Exists
  <2>2. new.content = c
    OBVIOUS
  <2> HIDE DEF new
  <2>3. Last = 0 /\ Last' = 1 /\ versions'[1].content = c /\ DOMAIN versions = {}
    BY <2>1, <2>2 DEF Last
  <2>4. TheHistory' = Append(TheHistory, c)
    BY <1>1, <2>3, LongerHistory
  <2>5. pinned = 0 /\ aliases = [a \in Alias |-> 0]
    BY <1>1, <2>3 DEF PinsHold, Routed, TypeOK, AgentTyped
  <2>6. \A v \in DOMAIN TheHistory : TheHistory[v] # c
    BY <2>3 DEF TheHistory
  <2>7. History!Publish
    BY <1>1, <2>1, <2>4, <2>5, <2>6 DEF History!Publish, TheHistory, Contents
  <2> QED BY <2>7 DEF History!HNext
<1> QED BY <1>2, <1>3

\* The content that is committed is new: had a version been made from it, its
\* label would say so and the deploy would have reused it.
LEMMA CommitVersionPublishes ==
  ASSUME NoForce, SerialInv, TypeOK', NEW p \in Process, CommitVersion(p)
  PROVE  [History!HNext]_(History!hvars)
<1>1. /\ TypeOK /\ run[p].cmd \in Command /\ run[p].cmd.content \in Content
      /\ run[p].pc = "commit" /\ Progress(p)
  BY CommandIsTyped DEF SerialInv, CommitVersion, At, TypeOK, CommandsTyped, CommandType
<1>2. CASE Refuse(p)
  BY <1>2, Unseen DEF Refuse, agentVars
<1>3. CASE ~Refuse(p)
  <2> DEFINE c == run[p].cmd.content
             new == [content |-> draft, label |-> c]
  <2>1. versions' = Append(versions, new) /\ UNCHANGED <<pinned, aliases>>
    BY <1>3 DEF CommitVersion
  <2>2. draft = c /\ Managed(c) = {} /\ ~Unfinished
    BY <1>1 DEF Progress, PastGuard, Committing, NoForce
  <2>3. new \in VersionType /\ new.content = c
    BY <1>1, <2>2 DEF VersionType
  <2> HIDE DEF new
  <2>4. /\ Last \in Nat /\ Last' = Last + 1 /\ DOMAIN versions = 1..Last
        /\ versions'[Last + 1].content = c
        /\ \A v \in 1..Last : versions'[v].content = versions[v].content
    BY <1>1, <2>1, <2>3, AppendProperties, LenProperties DEF TypeOK, AgentTyped, Last
  <2>5. TheHistory' = Append(TheHistory, c)
    BY <1>1, <2>4, LongerHistory DEF Contents
  <2>6. ASSUME NEW v \in 1..Last  PROVE versions[v].content # c
    <3>1. versions[v].label # c
      BY <2>2, <2>4 DEF Managed
    <3>2. versions[v].label = NoContent => versions[v].content = Foreign
      <4>1. versions[v].label = NoContent =>
              v = 1 /\ (marker \/ versions[v].content = Foreign)
        BY <2>4 DEF SerialInv, AgentSound, Recorded
      <4>2. Exists
        BY <2>4 DEF Exists
      <4> QED BY <2>2, <4>1, <4>2 DEF Unfinished
    <3>3. versions[v].label # NoContent => versions[v].label = versions[v].content
      BY <2>4 DEF SerialInv, AgentSound, LabelTruth
    <3> QED BY <1>1, <3>1, <3>2, <3>3, ForeignIsNew
  <2>7. \A v \in DOMAIN TheHistory : TheHistory[v] # c
    BY <2>4, <2>6 DEF TheHistory
  <2>8. History!Publish
    BY <1>1, <2>1, <2>5, <2>7 DEF History!Publish, TheHistory, Contents
  <2> QED BY <2>8 DEF History!HNext
<1> QED BY <1>2, <1>3

LEMMA SetVersionCommentUnseen ==
  ASSUME SerialInv, TypeOK', NEW p \in Process, SetVersionComment(p)
  PROVE  UNCHANGED History!hvars
<1>1. CASE Refuse(p)
  BY <1>1, Unseen DEF Refuse, agentVars
<1>2. CASE ~Refuse(p)
  <2> DEFINE t == run[p].target
  <2>1. /\ t \in DOMAIN versions
        /\ versions' = [versions EXCEPT ![t].label = run[p].cmd.content]
        /\ UNCHANGED <<pinned, aliases>>
    BY <1>2 DEF SetVersionComment
  <2>2. TypeOK /\ Last \in Nat /\ versions \in [1..Last -> VersionType]
    BY LenProperties DEF SerialInv, TypeOK, AgentTyped, Last
  <2>3. /\ DOMAIN versions' = 1..Last
        /\ \A v \in 1..Last : versions'[v].content = versions[v].content
    BY <2>1, <2>2 DEF VersionType
  <2>4. Last' = Last
    <3>1. Last' \in Nat /\ DOMAIN versions' = 1..Last'
      BY LenProperties DEF TypeOK, AgentTyped, Last
    <3> QED BY <2>2, <2>3, <3>1
  <2>5. TheHistory' = TheHistory
    BY <2>2, <2>3, <2>4, SameHistory
  <2> QED BY <2>1, <2>5 DEF History!hvars, TheHistory
<1> QED BY <1>1, <1>2

LEMMA AliasStatementReroutes ==
  ASSUME SerialInv, SerialInv', NEW p \in Process, UnsetAlias(p) \/ SetAlias(p)
  PROVE  [History!HNext]_(History!hvars)
<1>1. CASE Refuse(p)
  BY <1>1, Unseen DEF Refuse, agentVars
<1>2. CASE ~Refuse(p)
  <2>1. UNCHANGED <<versions, pinned>>
    BY <1>2 DEF UnsetAlias, SetAlias
  <2>2. /\ TypeOK /\ TypeOK' /\ Routed' /\ Len(TheHistory) = Last /\ Last \in Nat
        /\ DOMAIN versions = 1..Last
    BY HistoryTyped, VersionNumbersTyped DEF SerialInv, AgentSound
  <2>3. aliases' \in [Alias -> 0..Last]
    BY <2>1, <2>2 DEF Routed, TypeOK, AgentTyped
  <2>4. \A a, b \in Alias : aliases'[a] = aliases'[b] /\ aliases'[a] # 0 => a = b
    BY <2>2 DEF Routed
  <2>5. TheHistory' = TheHistory
    BY <2>1 DEF TheHistory
  <2>6. History!Reroute
    BY <2>1, <2>2, <2>3, <2>4, <2>5 DEF History!Reroute, History!WellRouted, TheHistory
  <2> QED BY <2>6 DEF History!HNext
<1> QED BY <1>1, <1>2

LEMMA SetDefaultPins ==
  ASSUME SerialInv, NEW p \in Process, SetDefaultVersion(p)
  PROVE  [History!HNext]_(History!hvars)
<1>1. CASE Refuse(p)
  BY <1>1, Unseen DEF Refuse, agentVars
<1>2. CASE ~Refuse(p)
  <2>1. /\ pinned' \in DOMAIN versions /\ UNCHANGED <<versions, aliases>>
    BY <1>2 DEF SetDefaultVersion
  <2>2. History!Pin
    BY <2>1 DEF History!Pin
  <2> QED BY <2>2 DEF History!HNext
<1> QED BY <1>1, <1>2

LEMMA DropAgentRetires ==
  ASSUME NEW p \in Process, DropAgent(p)
  PROVE  History!HNext
<1>1. versions' = <<>> /\ aliases' = [a \in Alias |-> 0] /\ pinned' = 0
  BY DEF DropAgent
<1>2. TheHistory' = <<>>
  BY <1>1 DEF TheHistory
<1> QED BY <1>1, <1>2 DEF History!HNext, History!Retire, History!Released, TheHistory

\* Every other step leaves versions, pin and aliases alone.
LEMMA OtherStepsUnseen ==
  ASSUME NEW p \in Process,
         \/ StartCommand(p) \/ StatementFails(p) \/ Kill(p)
         \/ AgentExists(p) \/ AssertCreationComplete(p) \/ FindManagedVersion(p)
         \/ CompareAlias(p) \/ DescribeCreated(p) \/ CheckDraft(p)
         \/ DescribeCurrentAliases(p) \/ CheckLive(p) \/ VerifyLive(p) \/ SetProfile(p)
         \/ AddLiveVersion(p) \/ ModifyLiveVersion(p) \/ SetAgentComment(p)
         \/ RouteBefore(p) \/ RouteAfter(p) \/ ReadPlannedState(p) \/ DefaultBefore(p)
         \/ DefaultAfter(p) \/ InspectFailure(p) \/ TakeInventory(p) \/ VerifyAbsent(p)
  PROVE  UNCHANGED <<versions, pinned, aliases>>
  BY DEF StartCommand, StatementFails, Kill, AgentExists, AssertCreationComplete,
         FindManagedVersion, CompareAlias, DescribeCreated, CheckDraft,
         DescribeCurrentAliases, CheckLive, VerifyLive, SetProfile, AddLiveVersion,
         ModifyLiveVersion, SetAgentComment, RouteBefore, RouteAfter, ReadPlannedState,
         DefaultBefore, DefaultAfter, InspectFailure, TakeInventory, VerifyAbsent,
         Refuse, Inspect, agentVars

LEMMA HistoryInit == Init => History!HInit
<1> SUFFICES ASSUME Init  PROVE History!HInit
  OBVIOUS
<1>1. pinned = 0 /\ aliases = [a \in Alias |-> 0]
  BY DEF Init
<1>2. CASE versions = <<>>
  <2>1. TheHistory = <<>>
    BY <1>2 DEF TheHistory
  <2> QED BY <1>1, <2>1 DEF History!HInit, History!Released, TheHistory
<1>3. CASE versions = <<[content |-> Foreign, label |-> NoContent]>>
  <2>1. DOMAIN versions = 1..1 /\ versions[1].content = Foreign
    BY <1>3
  <2>2. TheHistory = <<Foreign>>
    BY <2>1 DEF TheHistory
  <2> QED BY <1>1, <2>2 DEF History!HInit, History!Released, TheHistory
<1> QED BY <1>2, <1>3 DEF Init

LEMMA HistoryNext ==
  Exclusive /\ NoForce /\ SerialInv /\ [Next]_vars => [History!HNext]_(History!hvars)
<1> SUFFICES ASSUME Exclusive, NoForce, SerialInv, [Next]_vars
             PROVE  [History!HNext]_(History!hvars)
  OBVIOUS
<1>1. SerialInv' /\ TypeOK'
  BY SerialNext DEF SerialInv
<1>2. CASE UNCHANGED vars
  BY <1>2, Unseen DEF vars, agentVars
<1>3. ASSUME NEW p \in Process, StartCommand(p) \/ CommandStep(p) \/ StatementFails(p) \/ Kill(p)
      PROVE  [History!HNext]_(History!hvars)
  BY <1>1, <1>3, CreateAgentPublishes, CommitVersionPublishes, SetVersionCommentUnseen,
     AliasStatementReroutes, SetDefaultPins, DropAgentRetires, OtherStepsUnseen, Unseen
     DEF CommandStep, DeployStep, RouteStep, DropStep
<1> QED BY <1>2, <1>3 DEF Next, Rest

\* Serialized commands without force_agent_recreate implement the version history:
\* behind every partial state an operator may observe, each content was published
\* once, a pin moves only by a DEFAULT statement, aliases name existing versions.
THEOREM HistoryImplemented ==
  ASSUME Exclusive, NoForce PROVE Spec => ImplementsHistory
<1>1. Init => History!HInit
  BY HistoryInit
<1>2. SerialInv /\ [Next]_vars => [History!HNext]_(History!hvars)
  BY HistoryNext
<1> QED BY <1>1, <1>2, SerialCorrect, PTL DEF Spec, ImplementsHistory, History!HSpec

-----------------------------------------------------------------------------
(* An interrupted creation. *)

Frozen ==
  \/ versions' = <<>>
  \/ /\ UNCHANGED <<draft, marker>>
     /\ Len(versions') = Len(versions)
     /\ versions'[1].content = versions[1].content

LEMMA StatementsFrozen ==
  ASSUME SerialInv, Unfinished, NEW p \in Process, CommandStep(p)
  PROVE  Frozen
<1>1. Exists /\ Progress(p) /\ TypeOK
  BY DEF Unfinished, SerialInv
<1>2. CASE UNCHANGED <<versions, draft, marker>>
  BY <1>2 DEF Frozen
<1>3. CASE Refuse(p)
  BY <1>2, <1>3 DEF Refuse, agentVars
<1>4. CASE CreateAgent(p)
  BY <1>1, <1>3, <1>4 DEF CreateAgent
<1>5. CASE \/ AddLiveVersion(p) \/ ModifyLiveVersion(p) \/ CommitVersion(p)
           \/ SetAgentComment(p)
  BY <1>1, <1>5
     DEF AddLiveVersion, ModifyLiveVersion, CommitVersion, SetAgentComment, At, Progress,
         PastGuard
<1>6. CASE SetVersionComment(p) /\ ~Refuse(p)
  <2> DEFINE t == run[p].target
  <2>1. /\ t \in DOMAIN versions
        /\ versions' = [versions EXCEPT ![t].label = run[p].cmd.content]
        /\ UNCHANGED <<draft, marker>>
    BY <1>6 DEF SetVersionComment
  <2>2. /\ versions \in Seq(VersionType) /\ DOMAIN versions = 1..Len(versions)
        /\ 1 \in DOMAIN versions
    BY <1>1, VersionNumbersTyped, LenProperties DEF TypeOK, AgentTyped, Last
  <2>3. run[p].cmd.content \in Content
    BY <1>6, CommandIsTyped DEF SetVersionComment, At, SerialInv, TypeOK, CommandsTyped,
                                CommandType
  <2> DEFINE new == [versions[t] EXCEPT !.label = run[p].cmd.content]
  <2>4. new \in VersionType /\ new.content = versions[t].content
    <3>1. versions[t] \in VersionType
      BY <2>1, <2>2, ElementOfSeq
    <3> QED BY <2>3, <3>1 DEF VersionType
  <2>5. versions' = [versions EXCEPT ![t] = new]
    BY <2>1
  <2> HIDE DEF new
  <2>6. /\ Len(versions') = Len(versions)
        /\ \A v \in DOMAIN versions : versions'[v] = IF v = t THEN new ELSE versions[v]
    BY <2>1, <2>2, <2>4, <2>5, ExceptSeq
  <2> QED BY <2>1, <2>2, <2>4, <2>6 DEF Frozen
<1>7. CASE DropAgent(p)
  BY <1>7 DEF DropAgent, Frozen
<1>8. CASE \/ AgentExists(p) \/ AssertCreationComplete(p) \/ FindManagedVersion(p)
           \/ CompareAlias(p) \/ DescribeCreated(p) \/ CheckDraft(p)
           \/ DescribeCurrentAliases(p) \/ CheckLive(p) \/ VerifyLive(p) \/ SetProfile(p)
           \/ RouteStep(p) \/ TakeInventory(p) \/ VerifyAbsent(p)
  <2>1. UNCHANGED <<versions, draft, marker>>
    BY <1>8
       DEF AgentExists, AssertCreationComplete, FindManagedVersion, CompareAlias,
           DescribeCreated, CheckDraft, DescribeCurrentAliases, CheckLive, VerifyLive,
           SetProfile, RouteStep, RouteBefore, UnsetAlias, SetAlias, RouteAfter,
           ReadPlannedState, DefaultBefore, SetDefaultVersion, DefaultAfter,
           InspectFailure, TakeInventory, VerifyAbsent, Refuse, Inspect, agentVars
  <2> QED BY <1>2, <2>1
<1> QED BY <1>3, <1>4, <1>5, <1>6, <1>7, <1>8 DEF CommandStep, DeployStep, DropStep

\* An Agent whose creation was interrupted before VERSION$1 was labelled is not
\* built upon until it is dropped.
THEOREM UnfinishedIsFrozen == ASSUME Exclusive PROVE Spec => UnfinishedFrozen
<1>1. SerialInv /\ [Next]_vars => [Unfinished => Frozen]_vars
  <2> SUFFICES ASSUME SerialInv, Next, Unfinished  PROVE Frozen
    BY DEF Frozen
  <2>1. ASSUME NEW p \in Process, StartCommand(p) \/ StatementFails(p) \/ Kill(p)
        PROVE  Frozen
    BY <2>1 DEF StartCommand, StatementFails, Kill, agentVars, Frozen
  <2>2. CASE UNCHANGED vars
    BY <2>2 DEF vars, agentVars, Frozen
  <2> QED BY <2>1, <2>2, StatementsFrozen DEF Next, Rest
<1> QED BY <1>1, SerialCorrect, PTL DEF Spec, UnfinishedFrozen, Frozen
=============================================================================
