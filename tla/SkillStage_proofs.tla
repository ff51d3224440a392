------------------------- MODULE SkillStage_proofs -------------------------
(***************************************************************************)
(* Theorems about SkillStage for every set of clients, files and texts and *)
(* for every bound.                                                        *)
(***************************************************************************)
EXTENDS SkillStage, TLAPS

-----------------------------------------------------------------------------
(* Type correctness. *)

LEMMA NullsTyped ==
  /\ Nothing \in Listing
  /\ Nothing \notin Content
  /\ 1 \in Skill
  /\ Idle \in RunType
<1>1. Nothing \in Listing
  BY DEF Nothing, Listing
<1>2. Nothing[SkillMd] = Absent
  BY FilesAreFinite DEF Nothing
<1>3. 1 \in Skill
  BY BoundsAreNatural DEF Skill
<1>4. Idle \in RunType
  <2> HIDE DEF Nothing, Skill
  <2> QED BY <1>1, <1>3 DEF Idle, RunType, Mode
<1> QED BY <1>1, <1>2, <1>3, <1>4 DEF Content

LEMMA PathTyped ==
  ASSUME NEW r \in RunType, NEW s \in Skill
  PROVE  /\ Path(r, s) \in Folder
         /\ Path(r, s).skill = s
         /\ Path(r, s).content = IF r.mode[s] = "immutable" THEN r.plan[s] ELSE Nothing
  BY DEF Path, Folder, RunType

LEMMA DigestsTyped ==
  ASSUME NEW r \in RunType
  PROVE  Digests(r) \in [Skill -> Content \cup {Nothing}]
  BY PathTyped DEF Digests, RunType

LEMMA StagedTyped ==
  ASSUME NEW r \in RunType, NEW s \in Skill
  PROVE  Staged(r, s) \subseteq Entry
  BY DEF Staged, Listed, Entry

\* What the type invariant says of a running client.
LEMMA RunningTyped ==
  ASSUME TypeOK, NEW c \in Client
  PROVE  /\ run[c] \in RunType
         /\ run[c].skill \in Skill
         /\ Current(c) \in Folder
         /\ Planned(c) \in Content \cup {Nothing}
         /\ stage[Current(c)] \in Listing
<1>1. run[c] \in RunType
  BY DEF TypeOK
<1>2. run[c].skill \in Skill /\ run[c].plan \in [Skill -> Content \cup {Nothing}]
  BY <1>1 DEF RunType
<1>3. Current(c) \in Folder
  BY <1>1, <1>2, PathTyped DEF Current
<1> QED BY <1>1, <1>2, <1>3 DEF TypeOK, Planned

\* A client that goes on to a well-typed state leaves the others where they are.
LEMMA ContinueTyped ==
  ASSUME TypeOK, NEW c \in Client, NEW r \in RunType, Continue(c, r),
         InStep(r)
  PROVE  /\ run' \in [Client -> RunType]
         /\ \A d \in Client : InStep(run'[d])
         /\ run'[c] = r
         /\ \A d \in Client : d # c => run'[d] = run[d]
  BY DEF TypeOK, Continue

LEMMA EndTyped ==
  ASSUME TypeOK, NEW c \in Client, End(c)
  PROVE  /\ run' \in [Client -> RunType]
         /\ \A d \in Client : InStep(run'[d])
         /\ run'[c] = Idle
         /\ \A d \in Client : d # c => run'[d] = run[d]
<1>1. Idle \in RunType /\ InStep(Idle)
  BY NullsTyped DEF Idle, InStep, Publishing
<1> QED BY <1>1, ContinueTyped DEF End

LEMMA OutputTyped ==
  ASSUME TypeOK, NEW r \in RunType, NEW result, Output(result, r)
  PROVE  printed' \subseteq [Skill -> Content \cup {Nothing}]
  BY DigestsTyped DEF TypeOK, Output

LEMMA RefuseTyped ==
  ASSUME TypeOK, NEW c \in Client, Refuse(c)
  PROVE  TypeOK'
<1>1. printed' \subseteq [Skill -> Content \cup {Nothing}]
  BY RunningTyped, OutputTyped DEF Refuse, TypeOK
<1>2. UNCHANGED <<local, stage, verified, versions, commands, edits, placed>>
  BY DEF Refuse, counters
<1>3. End(c)
  BY DEF Refuse
<1> QED BY <1>1, <1>2, <1>3, EndTyped DEF TypeOK

\* A step that only moves its client.
Moves(c, r) == Continue(c, r) /\ UNCHANGED <<local, stage, verified, printed, versions, counters>>

LEMMA MovesTyped ==
  ASSUME TypeOK, NEW c \in Client, NEW r \in RunType, Moves(c, r),
         InStep(r)
  PROVE  TypeOK'
<1>1. UNCHANGED <<local, stage, verified, printed, versions, commands, edits, placed>>
  BY DEF Moves, counters
<1> QED BY <1>1, ContinueTyped DEF Moves, TypeOK

LEMMA PublishTyped ==
  ASSUME NEW r \in RunType, NEW s \in Skill
  PROVE  /\ Publish(r, s) \in RunType
         /\ Publish(r, s).pc \in {"list", "take"}
         /\ Publish(r, s).pc = "list" => r.mode[s] = "immutable"
         /\ Publish(r, s).skill = s
         /\ Publish(r, s).mode = r.mode
         /\ Publish(r, s).plan = r.plan
  BY DEF Publish, RunType, Publishing

LEMMA PcTyped ==
  ASSUME NEW r \in RunType, NEW pc \in Publishing \cup Building
  PROVE  /\ [r EXCEPT !.pc = pc] \in RunType
         /\ [r EXCEPT !.pc = pc].pc = pc
         /\ [r EXCEPT !.pc = pc].skill = r.skill
         /\ [r EXCEPT !.pc = pc].mode = r.mode
         /\ [r EXCEPT !.pc = pc].plan = r.plan
  BY DEF RunType

LEMMA BuildsTyped ==
  ASSUME NEW r \in RunType, NEW pc \in Building
  PROVE  [r EXCEPT !.pc = pc] \in RunType /\ InStep([r EXCEPT !.pc = pc])
<1> DEFINE q == [r EXCEPT !.pc = pc]
<1>1. q \in RunType /\ q.pc = pc
  BY PcTyped
<1>2. pc \notin Publishing
  BY DEF Building, Publishing
<1> HIDE DEF q
<1>3. InStep(q)
  BY <1>1, <1>2 DEF InStep, Publishing
<1> QED BY <1>1, <1>3 DEF q

LEMMA ReportTyped ==
  ASSUME TypeOK, NEW c \in Client, run[c].pc \in Publishing, Report(c)
  PROVE  TypeOK'
<1>0. UNCHANGED <<local, stage, versions, commands, edits, placed>>
  BY DEF Report, counters
<1>1. verified' \subseteq Folder
  BY RunningTyped DEF Report, TypeOK
<1>2. CASE run[c].skill < Skills /\ Continue(c, Publish(run[c], run[c].skill + 1))
           /\ UNCHANGED printed
  <2>1. run[c].skill + 1 \in Skill /\ run[c] \in RunType
    BY <1>2, RunningTyped, BoundsAreNatural DEF Skill
  <2>2. Publish(run[c], run[c].skill + 1) \in RunType
        /\ InStep(Publish(run[c], run[c].skill + 1))
    <3>1. run[c].plan \in [Skill -> Content]
      BY DEF TypeOK, InStep
    <3> HIDE DEF Skill
    <3> QED BY <2>1, <3>1, PublishTyped DEF InStep
  <2> QED BY <1>0, <1>1, <1>2, <2>2, ContinueTyped DEF TypeOK
<1>3. CASE Output("applied", run[c]) /\ End(c)
  <2>1. printed' \subseteq [Skill -> Content \cup {Nothing}]
    BY <1>3, RunningTyped, OutputTyped
  <2> QED BY <1>0, <1>1, <1>3, <2>1, EndTyped DEF TypeOK
<1>4. CASE Continue(c, [run[c] EXCEPT !.pc = "ready"]) /\ UNCHANGED printed
  <2>1. [run[c] EXCEPT !.pc = "ready"] \in RunType
        /\ InStep([run[c] EXCEPT !.pc = "ready"])
    BY RunningTyped, BuildsTyped DEF Building
  <2> QED BY <1>0, <1>1, <1>4, <2>1, ContinueTyped DEF TypeOK
<1> QED BY <1>2, <1>3, <1>4 DEF Report, Published

LEMMA ListFolderTyped ==
  ASSUME TypeOK, NEW c \in Client, ListFolder(c)
  PROVE  TypeOK'
<1>0. run[c].pc \in Publishing
  BY DEF ListFolder, At, Publishing
<1>1. [run[c] EXCEPT !.pc = "take"] \in RunType
      /\ InStep([run[c] EXCEPT !.pc = "take"])
  <2> DEFINE q == [run[c] EXCEPT !.pc = "take"]
  <2>1. q \in RunType /\ q.pc = "take" /\ q.plan = run[c].plan
    BY RunningTyped, PcTyped DEF Publishing
  <2>2. run[c].plan \in [Skill -> Content]
    BY <1>0 DEF TypeOK, InStep
  <2> HIDE DEF q
  <2>3. InStep(q)
    BY <2>1, <2>2 DEF InStep
  <2> QED BY <2>1, <2>3 DEF q
<1>2. Report(c) \/ Refuse(c) \/ Moves(c, [run[c] EXCEPT !.pc = "take"])
  BY DEF ListFolder, Moves
<1> QED BY <1>0, <1>1, <1>2, ReportTyped, RefuseTyped, MovesTyped
\* The state a client copies from, and the state after one file of the copy.
Taken(c) ==
  [run[c] EXCEPT !.pc = "copy", !.remaining = Inventoried(c),
     !.scratch = [f \in File |-> IF f \in Inventoried(c) THEN Here(c)[f] ELSE Absent]]

Copied(c, f) ==
  [run[c] EXCEPT !.remaining = @ \ {f}, !.pc = IF LastFile(c, f) THEN "readBack" ELSE "copy"]

LEMMA TakenTyped ==
  ASSUME TypeOK, NEW c \in Client
  PROVE  /\ Taken(c) \in RunType
         /\ Taken(c).pc = "copy" /\ Taken(c).remaining = Files(Planned(c))
         /\ Taken(c).scratch =
              [f \in File |-> IF f \in Files(Planned(c)) THEN Here(c)[f] ELSE Absent]
         /\ Taken(c).skill = run[c].skill
         /\ Taken(c).mode = run[c].mode
         /\ Taken(c).plan = run[c].plan
<1> DEFINE copy == [f \in File |-> IF f \in Inventoried(c) THEN Here(c)[f] ELSE Absent]
<1>1. run[c] \in RunType /\ run[c].skill \in Skill
  BY RunningTyped
<1>2. Here(c) \in Listing
  BY <1>1 DEF Here, TypeOK, Content
<1>3. copy \in Listing
  BY <1>2 DEF Listing
<1>4. Inventoried(c) \subseteq File /\ Inventoried(c) = Files(Planned(c))
  BY DEF Inventoried, Files
<1>5. Taken(c) = [run[c] EXCEPT !.pc = "copy", !.remaining = Inventoried(c), !.scratch = copy]
  BY DEF Taken
<1> HIDE DEF copy
<1>6. /\ Taken(c) \in RunType
      /\ Taken(c).pc = "copy" /\ Taken(c).remaining = Inventoried(c)
      /\ Taken(c).scratch = copy
      /\ Taken(c).skill = run[c].skill
      /\ Taken(c).mode = run[c].mode
      /\ Taken(c).plan = run[c].plan
  BY <1>1, <1>3, <1>4, <1>5 DEF RunType, Publishing
<1> QED BY <1>4, <1>6 DEF copy

LEMMA TakeFilesTyped ==
  ASSUME TypeOK, NEW c \in Client, TakeFiles(c)
  PROVE  TypeOK'
<1>1. CASE Refuse(c)
  BY <1>1, RefuseTyped
<1>2. CASE Inventoried(c) \subseteq Files(Here(c)) /\ Moves(c, Taken(c))
  <2>1. InStep(Taken(c))
    <3>1. run[c].plan \in [Skill -> Content]
      BY DEF TypeOK, InStep, TakeFiles, At, Publishing
    <3>2. SkillMd \in Files(Planned(c))
      BY <3>1, RunningTyped, FilesAreFinite DEF Planned, Content, Files
    <3> QED BY <3>1, <3>2, TakenTyped DEF InStep
  <2> QED BY <1>2, <2>1, TakenTyped, MovesTyped
<1> QED BY <1>1, <1>2 DEF TakeFiles, Moves, Taken

LEMMA CopiedTyped ==
  ASSUME TypeOK, NEW c \in Client, NEW f \in run[c].remaining
  PROVE  /\ Copied(c, f) \in RunType
         /\ Copied(c, f).pc = IF run[c].remaining = {f} THEN "readBack" ELSE "copy"
         /\ Copied(c, f).remaining = run[c].remaining \ {f}
         /\ Copied(c, f).scratch = run[c].scratch
         /\ Copied(c, f).skill = run[c].skill
         /\ Copied(c, f).mode = run[c].mode
         /\ Copied(c, f).plan = run[c].plan
  BY RunningTyped DEF Copied, LastFile, RunType, Publishing

\* What one file of a copy does to the stage.
LEMMA CopyStores ==
  ASSUME TypeOK, NEW c \in Client, NEW f \in run[c].remaining,
         stage' = IF KeepsFile(c, f) THEN stage
                  ELSE [stage EXCEPT ![Current(c)][f] = run[c].scratch[f]]
  PROVE  /\ stage' \in [Folder -> Listing]
         /\ \A folder \in Folder : folder # Current(c) => stage'[folder] = stage[folder]
         /\ \A g \in File : g # f => stage'[Current(c)][g] = stage[Current(c)][g]
         /\ stage'[Current(c)][f] = IF KeepsFile(c, f) THEN stage[Current(c)][f]
                                    ELSE run[c].scratch[f]
<1>1. /\ Current(c) \in Folder /\ f \in File /\ run[c].scratch \in Listing
      /\ stage \in [Folder -> Listing]
  BY RunningTyped DEF RunType, TypeOK
<1>2. run[c].scratch[f] \in Text \cup {Absent}
  BY <1>1 DEF Listing
<1> QED BY <1>1, <1>2 DEF Listing

LEMMA CopyFileTyped ==
  ASSUME TypeOK, NEW c \in Client, CopyFile(c)
  PROVE  TypeOK'
<1>1. PICK f \in run[c].remaining :
        /\ stage' = IF KeepsFile(c, f) THEN stage
                    ELSE [stage EXCEPT ![Current(c)][f] = run[c].scratch[f]]
        /\ Continue(c, Copied(c, f))
  BY DEF CopyFile, Copied
<1>2. stage' \in [Folder -> Listing]
  BY <1>1, CopyStores
<1>3. InStep(Copied(c, f))
  <2>1. run[c].plan \in [Skill -> Content]
    BY DEF TypeOK, InStep, CopyFile, At, Publishing
  <2>2. run[c].remaining # {f} => run[c].remaining \ {f} # {}
    OBVIOUS
  <2> QED BY <2>1, <2>2, CopiedTyped DEF InStep
<1>4. UNCHANGED <<local, verified, printed, versions, commands, edits, placed>>
  BY DEF CopyFile, counters
<1> QED BY <1>1, <1>2, <1>3, <1>4, CopiedTyped, ContinueTyped DEF TypeOK

LEMMA ReadBackTyped ==
  ASSUME TypeOK, NEW c \in Client, ReadBack(c)
  PROVE  TypeOK'
<1>1. run[c].pc \in Publishing
  BY DEF ReadBack, At, Publishing
<1> QED BY <1>1, ReportTyped, RefuseTyped DEF ReadBack

\* The state a command starts in.
Started(command, mode, plan) ==
  [Idle EXCEPT !.command = command, !.mode = mode, !.plan = plan]

Built(mode, plan) ==
  [Idle EXCEPT !.pc = "ready", !.command = "build", !.mode = mode, !.plan = plan]

LEMMA StartedTyped ==
  ASSUME NEW command \in Command, NEW mode \in [Skill -> Mode],
         NEW plan \in [Skill -> Content \cup {Nothing}]
  PROVE  /\ Started(command, mode, plan) \in RunType
         /\ Started(command, mode, plan).mode = mode
         /\ Started(command, mode, plan).plan = plan
         /\ Built(mode, plan) \in RunType
         /\ Built(mode, plan).pc = "ready"
         /\ Built(mode, plan).mode = mode
         /\ Built(mode, plan).plan = plan
<1>1. Idle \in RunType
  BY NullsTyped
<1> HIDE DEF Idle
<1> QED BY <1>1 DEF Started, Built, RunType, Building, Command

LEMMA StartPublishingTyped ==
  ASSUME TypeOK, NEW c \in Client, StartPublishing(c)
  PROVE  TypeOK'
<1>1. PICK command \in {"deploy", "upload"}, mode \in [Skill -> Modes] :
        Continue(c, Publish(Started(command, mode, local[c]), 1))
  BY DEF StartPublishing, Started
<1>2. /\ command \in Command /\ mode \in [Skill -> Mode]
      /\ local[c] \in [Skill -> Content]
      /\ local[c] \in [Skill -> Content \cup {Nothing}]
  BY ChoicesAreKnown DEF TypeOK, Command
<1>3. /\ Publish(Started(command, mode, local[c]), 1) \in RunType
      /\ InStep(Publish(Started(command, mode, local[c]), 1))
  <2> DEFINE q == Started(command, mode, local[c])
  <2>1. q \in RunType /\ q.plan = local[c] /\ 1 \in Skill
    BY <1>2, StartedTyped, NullsTyped
  <2> HIDE DEF q
  <2>2. /\ Publish(q, 1) \in RunType
        /\ Publish(q, 1).pc \in {"list", "take"} /\ Publish(q, 1).plan = local[c]
    BY <2>1, PublishTyped
  <2>3. InStep(Publish(q, 1))
    BY <1>2, <2>2 DEF InStep
  <2> QED BY <2>2, <2>3 DEF q
<1>4. commands' \in 0..MaxCommands
  BY BoundsAreNatural DEF TypeOK, StartPublishing
<1>5. UNCHANGED <<local, stage, verified, printed, versions, edits, placed>>
  BY DEF StartPublishing
<1> QED BY <1>1, <1>3, <1>4, <1>5, ContinueTyped DEF TypeOK

LEMMA StartBuildTyped ==
  ASSUME TypeOK, NEW c \in Client, StartBuild(c)
  PROVE  TypeOK'
<1>1. PICK digests \in printed \cup {[s \in Skill |-> Nothing]},
           mode \in [Skill -> Modes] : Continue(c, Built(mode, digests))
  BY DEF StartBuild, Built
<1>2. mode \in [Skill -> Mode] /\ digests \in [Skill -> Content \cup {Nothing}]
  BY ChoicesAreKnown DEF TypeOK
<1>3. Built(mode, digests) \in RunType /\ InStep(Built(mode, digests))
  BY <1>2, StartedTyped DEF InStep, Publishing, Command
<1>4. commands' \in 0..MaxCommands
  BY BoundsAreNatural DEF TypeOK, StartBuild
<1>5. UNCHANGED <<local, stage, verified, printed, versions, edits, placed>>
  BY DEF StartBuild
<1> QED BY <1>1, <1>3, <1>4, <1>5, ContinueTyped DEF TypeOK

LEMMA CheckReadyTyped ==
  ASSUME TypeOK, NEW c \in Client, CheckReady(c)
  PROVE  TypeOK'
<1>1. /\ [run[c] EXCEPT !.pc = "hash"] \in RunType
      /\ InStep([run[c] EXCEPT !.pc = "hash"])
  BY RunningTyped, BuildsTyped DEF Building
<1>2. Refuse(c) \/ Moves(c, [run[c] EXCEPT !.pc = "hash"])
  BY DEF CheckReady, Moves
<1> QED BY <1>1, <1>2, RefuseTyped, MovesTyped

\* The state in which a client has hashed the folders its specification names.
HashedState(c) ==
  [run[c] EXCEPT !.pc = "commit", !.hash = UNION {Staged(run[c], s) : s \in Skill}]

LEMMA HashedTyped ==
  ASSUME TypeOK, NEW c \in Client
  PROVE  /\ HashedState(c) \in RunType
         /\ HashedState(c).pc = "commit"
         /\ HashedState(c).hash = UNION {Staged(run[c], s) : s \in Skill}
         /\ HashedState(c).mode = run[c].mode
         /\ HashedState(c).plan = run[c].plan
<1> DEFINE hash == UNION {Staged(run[c], s) : s \in Skill}
<1>1. run[c] \in RunType
  BY RunningTyped
<1>2. hash \in SUBSET Entry
  BY <1>1, StagedTyped
<1>3. HashedState(c) = [run[c] EXCEPT !.pc = "commit", !.hash = hash]
  BY DEF HashedState
<1> HIDE DEF hash
<1>4. /\ HashedState(c) \in RunType
      /\ HashedState(c).pc = "commit" /\ HashedState(c).hash = hash
      /\ HashedState(c).mode = run[c].mode
      /\ HashedState(c).plan = run[c].plan
  BY <1>1, <1>2, <1>3 DEF RunType, Building
<1> QED BY <1>4 DEF hash

LEMMA HashSkillsTyped ==
  ASSUME TypeOK, NEW c \in Client, HashSkills(c)
  PROVE  TypeOK'
<1>1. Moves(c, HashedState(c))
  BY DEF HashSkills, Moves, HashedState
<1>2. InStep(HashedState(c))
  BY HashedTyped DEF InStep, Publishing
<1> QED BY <1>1, <1>2, HashedTyped, MovesTyped

LEMMA NewVersionTyped ==
  ASSUME TypeOK, NEW c \in Client
  PROVE  NewVersion(c) \in VersionType
<1>1. run[c] \in RunType
  BY RunningTyped
<1>2. [s \in Skill |-> Path(run[c], s)] \in [Skill -> Folder]
  BY <1>1, PathTyped
<1>3. run[c].hash \in SUBSET Entry
  BY <1>1 DEF RunType
<1> QED BY <1>2, <1>3 DEF NewVersion, VersionType

LEMMA CommitVersionTyped ==
  ASSUME TypeOK, NEW c \in Client, CommitVersion(c)
  PROVE  TypeOK'
<1>1. versions' \in Seq(VersionType)
  BY NewVersionTyped DEF TypeOK, CommitVersion
<1>2. UNCHANGED <<local, stage, verified, printed, commands, edits, placed>> /\ End(c)
  BY DEF CommitVersion, counters
<1> QED BY <1>1, <1>2, EndTyped DEF TypeOK

LEMMA StopTyped ==
  ASSUME TypeOK, NEW c \in Client, Stop(c)
  PROVE  TypeOK'
<1>1. Refuse(c) \/ Moves(c, Idle)
  BY DEF Stop, Moves, End
<1>2. Idle \in RunType /\ InStep(Idle)
  BY NullsTyped DEF Idle, InStep, Publishing
<1> QED BY <1>1, <1>2, RefuseTyped, MovesTyped

LEMMA EditTyped ==
  ASSUME TypeOK, NEW c \in Client, Edit(c)
  PROVE  TypeOK'
<1>1. PICK s \in Skill, content \in Content : local' = [local EXCEPT ![c][s] = content]
  BY DEF Edit
<1>2. local' \in [Client -> [Skill -> Content]]
  BY <1>1 DEF TypeOK
<1>3. edits' \in 0..MaxEdits
  BY BoundsAreNatural DEF TypeOK, Edit
<1>4. UNCHANGED <<stage, run, verified, printed, versions, commands, placed>>
  BY DEF Edit
<1> QED BY <1>2, <1>3, <1>4 DEF TypeOK

LEMMA PlaceFileTyped ==
  ASSUME TypeOK, PlaceFile
  PROVE  TypeOK'
<1>1. PICK folder \in Folder, f \in File, t \in Text :
        stage' = [stage EXCEPT ![folder][f] = t]
  BY DEF PlaceFile
<1>2. stage' \in [Folder -> Listing]
  BY <1>1 DEF TypeOK, Listing
<1>3. placed' \in 0..MaxPlaced
  BY BoundsAreNatural DEF TypeOK, PlaceFile
<1>4. UNCHANGED <<local, run, verified, printed, versions, commands, edits>>
  BY DEF PlaceFile
<1> QED BY <1>2, <1>3, <1>4 DEF TypeOK

LEMMA NextTyped ==
  ASSUME TypeOK, [Next]_vars
  PROVE  TypeOK'
<1>1. CASE UNCHANGED vars
  BY <1>1 DEF vars, counters, TypeOK
<1>2. ASSUME NEW c \in Client,
             \/ StartPublishing(c) \/ StartBuild(c)
             \/ ClientStep(c) \/ Stop(c) \/ Edit(c)
      PROVE  TypeOK'
  BY <1>2, StartPublishingTyped, StartBuildTyped, ListFolderTyped,
     TakeFilesTyped, CopyFileTyped, ReadBackTyped, CheckReadyTyped, HashSkillsTyped,
     CommitVersionTyped, StopTyped, EditTyped
     DEF ClientStep
<1> QED BY <1>1, <1>2, PlaceFileTyped DEF Next, Rest

LEMMA InitTyped ==
  ASSUME Init
  PROVE  TypeOK
<1>1. local \in [Client -> [Skill -> Content]]
  BY DEF Init
<1>2. stage \in [Folder -> Listing]
  BY NullsTyped DEF Init
<1>3. run \in [Client -> RunType] /\ \A c \in Client : InStep(run[c])
  <2>1. Idle \in RunType /\ InStep(Idle)
    BY NullsTyped DEF Idle, InStep, Publishing
  <2> HIDE DEF Idle
  <2> QED BY <2>1 DEF Init
<1>4. versions \in Seq(VersionType)
  BY DEF Init
<1> QED BY <1>1, <1>2, <1>3, <1>4, BoundsAreNatural DEF Init, TypeOK

\* Every variable keeps its type whatever clients overlap and are interrupted, and
\* a copy ends with its last file.
THEOREM TypeCorrect == Spec => []TypeOK
<1>1. Init => TypeOK
  BY InitTyped
<1>2. TypeOK /\ [Next]_vars => TypeOK'
  BY NextTyped
<1> QED BY <1>1, <1>2, PTL DEF Spec
-----------------------------------------------------------------------------
(* The inductive invariant. *)

\* What a version hashes when all folders it names hold what they are named after.
Full(path) ==
  {e \in Folder \X File \X Text :
     (\E s \in Skill : e[1] = path[s]) /\ e[1].content[e[2]] = e[3]}

Named(path, hash) == (\A s \in Skill : Frozen(path[s])) => hash = Full(path)

Paths(r) == [s \in Skill |-> Path(r, s)]

\* A client copies planned files only, has known the folders of the skills behind
\* it, and builds with known content folders.
Sound(r, known) ==
  /\ r.pc = "copy" => r.remaining \subseteq Files(r.plan[r.skill])
  /\ r.pc \in Publishing => \A s \in Skill : s < r.skill => Path(r, s) \in known
  /\ r.pc \in Building => \A s \in Skill : Frozen(Path(r, s)) => Path(r, s) \in known
  /\ r.pc = "commit" => Named(Paths(r), r.hash)

StageSound ==
  \A folder \in verified : Frozen(folder) => stage[folder] = folder.content

ClientsSound == \A c \in Client : Sound(run[c], verified)

PrintedSound ==
  \A d \in printed, s \in Skill : d[s] # Nothing => [skill |-> s, content |-> d[s]] \in verified

VersionsSound ==
  \A n \in 1..Len(versions) :
    /\ \A s \in Skill : Frozen(versions[n].path[s]) => versions[n].path[s] \in verified
    /\ Named(versions[n].path, versions[n].hash)

VersionsDiffer == \A m, n \in 1..Len(versions) : versions[m] = versions[n] => m = n

SafeInv ==
  /\ TypeOK /\ StageSound /\ ClientsSound /\ PrintedSound
  /\ VersionsSound /\ VersionsDiffer

LEMMA IdleSound ==
  ASSUME NEW known
  PROVE  Sound(Idle, known)
<1>1. Idle.pc = "idle"
  BY DEF Idle
<1> QED BY <1>1 DEF Sound, Publishing, Building

LEMMA SoundGrows ==
  ASSUME NEW r, NEW known, NEW more, known \subseteq more, Sound(r, known)
  PROVE  Sound(r, more)
  BY DEF Sound

\* Clients stay sound when one of them goes on to a sound state.
LEMMA ClientGoesOn ==
  ASSUME ClientsSound, NEW c \in Client, NEW r, Sound(r, verified'), run'[c] = r,
         \A d \in Client : d # c => run'[d] = run[d], verified \subseteq verified'
  PROVE  ClientsSound'
<1> SUFFICES ASSUME NEW d \in Client PROVE Sound(run'[d], verified')
  BY DEF ClientsSound
<1>1. CASE d = c
  BY <1>1
<1>2. CASE d # c
  <2>1. Sound(run[d], verified)
    BY DEF ClientsSound
  <2> QED BY <1>2, <2>1, SoundGrows
<1> QED BY <1>1, <1>2

LEMMA MovesSound ==
  ASSUME SafeInv, TypeOK', NEW c \in Client, NEW r \in RunType, Moves(c, r),
         Sound(r, verified)
  PROVE  SafeInv'
<1>1. UNCHANGED <<local, stage, verified, printed, versions>>
  BY DEF Moves
<1>2. run' = [run EXCEPT ![c] = r] /\ run \in [Client -> RunType]
  BY DEF Moves, Continue, SafeInv, TypeOK
<1>3. ClientsSound'
  <2>1. run'[c] = r /\ \A d \in Client : d # c => run'[d] = run[d]
    BY <1>2
  <2>2. Sound(r, verified')
    BY <1>1
  <2> QED BY <1>1, <2>1, <2>2, ClientGoesOn DEF SafeInv
<1> QED BY <1>1, <1>3
        DEF SafeInv, StageSound, PrintedSound, VersionsSound, VersionsDiffer

\* Digests printed by a command that failed are not trusted.
LEMMA RefuseSound ==
  ASSUME Trusted \subseteq {"applied"}, SafeInv, TypeOK', NEW c \in Client, Refuse(c)
  PROVE  SafeInv'
<1>1. Moves(c, Idle)
  BY DEF Refuse, Moves, Output, End
<1> QED BY <1>1, IdleSound, NullsTyped, MovesSound

\* A frozen current folder is the folder of an immutable skill, named after the plan.
LEMMA CurrentFrozen ==
  ASSUME TypeOK, NEW c \in Client, Frozen(Current(c))
  PROVE  Immutable(c) /\ Current(c).content = Planned(c)
<1>1. /\ run[c] \in RunType /\ run[c].skill \in Skill
      /\ Current(c) = Path(run[c], run[c].skill)
  BY RunningTyped DEF Current
<1> QED BY <1>1, PathTyped DEF Frozen, Immutable, Planned

LEMMA SamePaths ==
  ASSUME NEW r, NEW q, q.mode = r.mode, q.plan = r.plan
  PROVE  /\ \A s \in Skill : Path(q, s) = Path(r, s)
         /\ Paths(q) = Paths(r)
  BY DEF Path, Paths

LEMMA ReportSound ==
  ASSUME SafeInv, TypeOK', NEW c \in Client, run[c].pc \in Publishing, Report(c),
         Frozen(Current(c)) => stage[Current(c)] = Current(c).content
  PROVE  SafeInv'
<1>1. /\ UNCHANGED <<local, stage, versions>>
      /\ verified' = verified \cup {Current(c)}
      /\ verified \subseteq verified'
  BY DEF Report
<1>2. StageSound'
  BY <1>1 DEF SafeInv, StageSound
<1>3. VersionsSound' /\ VersionsDiffer'
  BY <1>1 DEF SafeInv, VersionsSound, VersionsDiffer
<1>4. /\ TypeOK /\ run[c] \in RunType
      /\ run[c].skill \in Skill /\ Skill = 1..Skills /\ Skills \in Nat
  BY RunningTyped, BoundsAreNatural DEF SafeInv, Skill
<1>5. \A s \in Skill : s <= run[c].skill => Path(run[c], s) \in verified'
  <2> SUFFICES ASSUME NEW s \in Skill, s <= run[c].skill
               PROVE  Path(run[c], s) \in verified'
    OBVIOUS
  <2>1. CASE s = run[c].skill
    BY <1>1, <2>1 DEF Current
  <2>2. CASE s < run[c].skill
    BY <1>1, <2>2 DEF SafeInv, ClientsSound, Sound
  <2> QED BY <1>4, <2>1, <2>2
<1>6. CASE run[c].skill < Skills /\ Continue(c, Publish(run[c], run[c].skill + 1))
           /\ UNCHANGED printed
  <2> DEFINE q == Publish(run[c], run[c].skill + 1)
  <2>1. run[c].skill + 1 \in Skill
    BY <1>4, <1>6
  <2>2. /\ q \in RunType /\ q.pc \in {"list", "take"}
        /\ q.skill = run[c].skill + 1
        /\ q.mode = run[c].mode /\ q.plan = run[c].plan
    <3>1. run[c] \in RunType
      BY <1>4
    <3> QED BY <2>1, <3>1, PublishTyped
  <2>3. run'[c] = q /\ \A d \in Client : d # c => run'[d] = run[d]
    BY <1>6 DEF Continue, SafeInv, TypeOK
  <2> HIDE DEF q
  <2>4. Sound(q, verified')
    <3>1. \A s \in Skill : s < q.skill => s <= run[c].skill
      BY <1>4, <2>2
    <3>2. \A s \in Skill : Path(q, s) = Path(run[c], s)
      BY <2>2, SamePaths
    <3>3. q.pc \notin Building /\ q.pc # "copy" /\ q.pc # "commit"
      BY <2>2 DEF Building
    <3> QED BY <1>5, <3>1, <3>2, <3>3 DEF Sound
  <2>5. ClientsSound'
    BY <1>1, <2>3, <2>4, ClientGoesOn DEF SafeInv
  <2>6. PrintedSound'
    BY <1>1, <1>6 DEF SafeInv, PrintedSound
  <2> QED BY <1>2, <1>3, <2>5, <2>6 DEF SafeInv
<1>7. ASSUME run[c].skill = Skills
      PROVE  \A s \in Skill : Path(run[c], s) \in verified'
  BY <1>4, <1>5, <1>7
<1>8. CASE run[c].skill = Skills /\ Output("applied", run[c]) /\ End(c)
  <2>1. run'[c] = Idle /\ \A d \in Client : d # c => run'[d] = run[d]
    BY <1>4, <1>8, EndTyped
  <2>2. ClientsSound'
    BY <1>1, <2>1, IdleSound, ClientGoesOn DEF SafeInv
  <2>3. \A s \in Skill : [skill |-> s, content |-> Digests(run[c])[s]] \in verified'
    <3>1. \A s \in Skill : Path(run[c], s) \in verified'
      BY <1>7, <1>8
    <3>2. \A s \in Skill : [skill |-> s, content |-> Digests(run[c])[s]] = Path(run[c], s)
      BY DEF Digests, Path
    <3> QED BY <3>1, <3>2
  <2>4. \A d \in printed' : d \in printed \/ d = Digests(run[c])
    BY <1>8 DEF Output
  <2>5. PrintedSound'
    BY <1>1, <2>3, <2>4 DEF SafeInv, PrintedSound
  <2> QED BY <1>2, <1>3, <2>2, <2>5 DEF SafeInv
<1>9. CASE run[c].skill = Skills /\ Continue(c, [run[c] EXCEPT !.pc = "ready"])
           /\ UNCHANGED printed
  <2> DEFINE q == [run[c] EXCEPT !.pc = "ready"]
  <2>1. q \in RunType /\ q.pc = "ready" /\ q.mode = run[c].mode /\ q.plan = run[c].plan
    BY <1>4, PcTyped DEF Building
  <2>2. run'[c] = q /\ \A d \in Client : d # c => run'[d] = run[d]
    BY <1>9 DEF Continue, SafeInv, TypeOK
  <2> HIDE DEF q
  <2>3. Sound(q, verified')
    <3>1. \A s \in Skill : Path(q, s) \in verified'
      BY <1>7, <1>9, <2>1, SamePaths
    <3> QED BY <2>1, <3>1 DEF Sound, Publishing
  <2>4. ClientsSound'
    BY <1>1, <2>2, <2>3, ClientGoesOn DEF SafeInv
  <2>5. PrintedSound'
    BY <1>1, <1>9 DEF SafeInv, PrintedSound
  <2> QED BY <1>2, <1>3, <2>4, <2>5 DEF SafeInv
<1> QED BY <1>6, <1>8, <1>9 DEF Report, Published

LEMMA ListFolderSound ==
  ASSUME Trusted \subseteq {"applied"}, SafeInv, TypeOK', NEW c \in Client, ListFolder(c)
  PROVE  SafeInv'
<1>1. TypeOK /\ run[c].pc = "list"
  BY DEF SafeInv, ListFolder, At
<1>2. CASE Refuse(c)
  BY <1>2, RefuseSound
<1>3. CASE stage[Current(c)] = Planned(c) /\ Report(c)
  BY <1>1, <1>3, CurrentFrozen, ReportSound DEF Publishing
<1>4. CASE Moves(c, [run[c] EXCEPT !.pc = "take"])
  <2> DEFINE q == [run[c] EXCEPT !.pc = "take"]
  <2>1. /\ q \in RunType /\ q.pc = "take" /\ q.skill = run[c].skill
        /\ q.mode = run[c].mode /\ q.plan = run[c].plan
    BY <1>1, RunningTyped, PcTyped DEF Publishing
  <2>2. Sound(run[c], verified)
    BY DEF SafeInv, ClientsSound
  <2> HIDE DEF q
  <2>3. \A s \in Skill : Path(q, s) = Path(run[c], s)
    BY <2>1, SamePaths
  <2>4. Sound(q, verified)
    BY <1>1, <2>1, <2>2, <2>3 DEF Sound, Publishing, Building
  <2>5. Moves(c, q)
    BY <1>4 DEF q
  <2> QED BY <2>1, <2>4, <2>5, MovesSound
<1> QED BY <1>2, <1>3, <1>4 DEF ListFolder, Moves

LEMMA TakeFilesSound ==
  ASSUME Trusted \subseteq {"applied"}, SafeInv, TypeOK', NEW c \in Client, TakeFiles(c)
  PROVE  SafeInv'
<1>1. TypeOK /\ run[c].pc = "take"
  BY DEF SafeInv, TakeFiles, At
<1>2. CASE Refuse(c)
  BY <1>2, RefuseSound
<1>3. CASE Moves(c, Taken(c))
  <2>1. /\ Taken(c) \in RunType /\ Taken(c).pc = "copy"
        /\ Taken(c).remaining = Files(Planned(c)) /\ Taken(c).skill = run[c].skill
        /\ Taken(c).mode = run[c].mode /\ Taken(c).plan = run[c].plan
    BY <1>1, TakenTyped
  <2>2. Sound(run[c], verified)
    BY DEF SafeInv, ClientsSound
  <2>3. \A s \in Skill : Path(Taken(c), s) = Path(run[c], s)
    BY <2>1, SamePaths
  <2>4. Sound(Taken(c), verified)
    BY <1>1, <2>1, <2>2, <2>3 DEF Sound, Publishing, Building, Planned
  <2> QED BY <1>3, <2>1, <2>4, MovesSound
<1> QED BY <1>2, <1>3 DEF TakeFiles, Moves, Taken

\* A copy completes folders and never changes what a verified one holds.
LEMMA CopyFileSound ==
  ASSUME SafeInv, TypeOK', NEW c \in Client, CopyFile(c)
  PROVE  SafeInv'
<1>1. PICK f \in run[c].remaining :
        /\ stage' = IF KeepsFile(c, f) THEN stage
                    ELSE [stage EXCEPT ![Current(c)][f] = run[c].scratch[f]]
        /\ Continue(c, Copied(c, f))
  BY DEF CopyFile, Copied
<1>2. UNCHANGED <<local, verified, printed, versions>>
  BY DEF CopyFile
<1>3. TypeOK /\ run[c].pc = "copy" /\ Sound(run[c], verified)
  BY DEF SafeInv, ClientsSound, CopyFile, At
<1>4. f \in Files(Planned(c))
  BY <1>3 DEF Sound, Planned
<1>5. StageSound'
  <2> SUFFICES ASSUME NEW folder \in verified, Frozen(folder)
               PROVE  stage'[folder] = folder.content
    BY <1>2 DEF StageSound
  <2>1. stage[folder] = folder.content /\ folder \in Folder
    BY <1>3 DEF SafeInv, StageSound, TypeOK
  <2>2. CASE folder # Current(c)
    BY <1>1, <1>3, <2>1, <2>2, CopyStores
  <2>3. CASE folder = Current(c)
    <3>1. Immutable(c) /\ stage[Current(c)] = Planned(c)
      BY <1>3, <2>1, <2>3, CurrentFrozen
    <3>2. KeepsFile(c, f)
      BY <1>4, <3>1 DEF KeepsFile, Files
    <3> QED BY <1>1, <2>1, <3>2
  <2> QED BY <2>2, <2>3
<1>6. ClientsSound'
  <2> DEFINE q == Copied(c, f)
  <2>1. /\ q \in RunType /\ q.pc \in {"copy", "readBack"}
        /\ q.remaining \subseteq run[c].remaining /\ q.skill = run[c].skill
        /\ q.mode = run[c].mode /\ q.plan = run[c].plan
    BY <1>3, CopiedTyped
  <2>2. run'[c] = q /\ \A d \in Client : d # c => run'[d] = run[d]
    BY <1>1, <1>3 DEF Continue, TypeOK
  <2> HIDE DEF q
  <2>3. \A s \in Skill : Path(q, s) = Path(run[c], s)
    BY <2>1, SamePaths
  <2>4. Sound(q, verified')
    BY <1>2, <1>3, <2>1, <2>3 DEF Sound, Publishing, Building
  <2> QED BY <1>2, <2>2, <2>4, ClientGoesOn DEF SafeInv
<1> QED BY <1>2, <1>5, <1>6
        DEF SafeInv, PrintedSound, VersionsSound, VersionsDiffer

\* An immutable skill that reads back holds exactly its plan.
LEMMA ReadBackSound ==
  ASSUME Trusted \subseteq {"applied"}, SafeInv, TypeOK', NEW c \in Client, ReadBack(c)
  PROVE  SafeInv'
<1>1. TypeOK /\ run[c].pc \in Publishing
  BY DEF SafeInv, ReadBack, At, Publishing
<1>2. CASE Refuse(c)
  BY <1>2, RefuseSound
<1>3. CASE ReadsBack(c) /\ Report(c)
  <2>1. ASSUME Frozen(Current(c))
        PROVE  stage[Current(c)] = Current(c).content
    <3>1. Immutable(c) /\ Current(c).content = Planned(c)
      BY <1>1, <2>1, CurrentFrozen
    <3>2. stage[Current(c)] \in Listing /\ Planned(c) \in Listing
      BY <1>1, RunningTyped, NullsTyped DEF Content
    <3>3. \A f \in File : stage[Current(c)][f] = Planned(c)[f]
      <4> TAKE f \in File
      <4>1. CASE f \in Files(Planned(c))
        BY <1>3, <4>1 DEF ReadsBack
      <4>2. CASE f \notin Files(Planned(c))
        BY <1>3, <3>1, <4>2 DEF ReadsBack, Files
      <4> QED BY <4>1, <4>2
    <3> QED BY <3>1, <3>2, <3>3 DEF Listing
  <2> QED BY <1>1, <1>3, <2>1, ReportSound
<1> QED BY <1>2, <1>3 DEF ReadBack

LEMMA StartPublishingSound ==
  ASSUME SafeInv, TypeOK', NEW c \in Client, StartPublishing(c)
  PROVE  SafeInv'
<1>1. PICK command \in {"deploy", "upload"}, mode \in [Skill -> Modes] :
        Continue(c, Publish(Started(command, mode, local[c]), 1))
  BY DEF StartPublishing, Started
<1>2. UNCHANGED <<stage, verified, printed, versions>> /\ TypeOK
  BY DEF StartPublishing, SafeInv
<1> DEFINE q == Publish(Started(command, mode, local[c]), 1)
<1>3. q.pc \in {"list", "take"} /\ q.skill = 1
  <2>1. /\ command \in Command /\ mode \in [Skill -> Mode]
        /\ local[c] \in [Skill -> Content \cup {Nothing}]
    BY <1>2, ChoicesAreKnown DEF TypeOK, Command
  <2>2. Started(command, mode, local[c]) \in RunType /\ 1 \in Skill
    BY <2>1, StartedTyped, NullsTyped
  <2> QED BY <2>2, PublishTyped
<1>4. run'[c] = q /\ \A d \in Client : d # c => run'[d] = run[d]
  BY <1>1, <1>2 DEF Continue, TypeOK
<1> HIDE DEF q
<1>5. Sound(q, verified')
  <2>1. \A s \in Skill : ~(s < 1)
    BY BoundsAreNatural DEF Skill
  <2> QED BY <1>3, <2>1 DEF Sound, Building
<1>6. ClientsSound'
  BY <1>2, <1>4, <1>5, ClientGoesOn DEF SafeInv
<1> QED BY <1>2, <1>6
        DEF SafeInv, StageSound, PrintedSound, VersionsSound, VersionsDiffer

\* A direct build names content folders its vars name, and those are known.
LEMMA StartBuildSound ==
  ASSUME SafeInv, TypeOK', NEW c \in Client, StartBuild(c)
  PROVE  SafeInv'
<1>1. PICK digests \in printed \cup {[s \in Skill |-> Nothing]},
           mode \in [Skill -> Modes] : Continue(c, Built(mode, digests))
  BY DEF StartBuild, Built
<1>2. UNCHANGED <<stage, verified, printed, versions>> /\ TypeOK
  BY DEF StartBuild, SafeInv
<1> DEFINE q == Built(mode, digests)
<1>3. q.pc = "ready" /\ q.mode = mode /\ q.plan = digests
  <2>1. mode \in [Skill -> Mode] /\ digests \in [Skill -> Content \cup {Nothing}]
    BY <1>2, ChoicesAreKnown DEF TypeOK
  <2> QED BY <2>1, StartedTyped DEF Command
<1>4. run'[c] = q /\ \A d \in Client : d # c => run'[d] = run[d]
  BY <1>1, <1>2 DEF Continue, TypeOK
<1> HIDE DEF q
<1>5. Sound(q, verified')
  <2>1. ASSUME NEW s \in Skill, Frozen(Path(q, s))
        PROVE  Path(q, s) \in verified'
    <3>1. /\ Path(q, s) = [skill |-> s, content |-> digests[s]]
          /\ digests[s] # Nothing
      BY <1>3, <2>1 DEF Path, Frozen
    <3>2. digests \in printed
      BY <3>1
    <3> QED BY <1>2, <3>1, <3>2 DEF SafeInv, PrintedSound
  <2> QED BY <1>3, <2>1 DEF Sound, Publishing
<1>6. ClientsSound'
  BY <1>2, <1>4, <1>5, ClientGoesOn DEF SafeInv
<1> QED BY <1>2, <1>6
        DEF SafeInv, StageSound, PrintedSound, VersionsSound, VersionsDiffer

LEMMA CheckReadySound ==
  ASSUME Trusted \subseteq {"applied"}, SafeInv, TypeOK', NEW c \in Client, CheckReady(c)
  PROVE  SafeInv'
<1> DEFINE q == [run[c] EXCEPT !.pc = "hash"]
<1>1. run[c].pc = "ready" /\ Sound(run[c], verified) /\ TypeOK
  BY DEF SafeInv, ClientsSound, CheckReady, At
<1>2. /\ q \in RunType /\ q.pc = "hash"
      /\ q.mode = run[c].mode /\ q.plan = run[c].plan
  BY <1>1, RunningTyped, PcTyped DEF Building
<1>3. Refuse(c) \/ Moves(c, q)
  BY DEF CheckReady, Moves
<1> HIDE DEF q
<1>4. \A s \in Skill : Path(q, s) = Path(run[c], s)
  BY <1>2, SamePaths
<1>5. Sound(q, verified)
  BY <1>1, <1>2, <1>4 DEF Sound, Publishing, Building
<1> QED BY <1>2, <1>3, <1>5, RefuseSound, MovesSound

\* What a client hashes when every skill is immutable is what its paths name.
LEMMA HashIsFull ==
  ASSUME SafeInv, NEW c \in Client, run[c].pc = "hash"
  PROVE  Named(Paths(run[c]), UNION {Staged(run[c], s) : s \in Skill})
<1> SUFFICES ASSUME \A s \in Skill : Frozen(Path(run[c], s))
             PROVE  UNION {Staged(run[c], s) : s \in Skill} = Full(Paths(run[c]))
  BY DEF Named, Paths
<1>1. run[c] \in RunType /\ Sound(run[c], verified)
  BY RunningTyped DEF SafeInv, ClientsSound
<1>2. ASSUME NEW s \in Skill
      PROVE  /\ Path(run[c], s) \in Folder
             /\ stage[Path(run[c], s)] = Path(run[c], s).content
             /\ Listed(run[c], s) = {Path(run[c], s)}
  <2>1. Path(run[c], s) \in verified
    BY <1>1 DEF Sound, Building
  <2>2. /\ Path(run[c], s) \in Folder /\ Path(run[c], s).skill = s
        /\ run[c].mode[s] = "immutable"
    BY <1>1, PathTyped DEF Frozen
  <2> QED BY <2>1, <2>2 DEF SafeInv, StageSound, Listed
<1>3. ASSUME NEW s \in Skill
      PROVE  Staged(run[c], s) =
               {e \in Folder \X File \X Text :
                  e[1] = Path(run[c], s) /\ e[1].content[e[2]] = e[3]}
  <2>1. Staged(run[c], s) =
          {e \in {Path(run[c], s)} \X File \X Text : stage[e[1]][e[2]] = e[3]}
    BY <1>2 DEF Staged
  <2> QED BY <1>2, <2>1
<1> QED BY <1>3 DEF Full, Paths

LEMMA HashSkillsSound ==
  ASSUME SafeInv, TypeOK', NEW c \in Client, HashSkills(c)
  PROVE  SafeInv'
<1> DEFINE q == HashedState(c)
<1>1. run[c].pc = "hash" /\ Sound(run[c], verified) /\ TypeOK
  BY DEF SafeInv, ClientsSound, HashSkills, At
<1>2. Moves(c, q)
  BY DEF HashSkills, Moves, HashedState
<1>3. /\ q \in RunType /\ q.pc = "commit"
      /\ q.hash = UNION {Staged(run[c], s) : s \in Skill}
      /\ q.mode = run[c].mode /\ q.plan = run[c].plan
  BY <1>1, HashedTyped
<1> HIDE DEF q
<1>4. (\A s \in Skill : Path(q, s) = Path(run[c], s)) /\ Paths(q) = Paths(run[c])
  BY <1>3, SamePaths
<1>5. Named(Paths(q), q.hash)
  BY <1>1, <1>3, <1>4, HashIsFull
<1>6. Sound(q, verified)
  BY <1>1, <1>3, <1>4, <1>5 DEF Sound, Publishing, Building
<1> QED BY <1>2, <1>3, <1>6, MovesSound

LEMMA CommitVersionSound ==
  ASSUME SafeInv, TypeOK', NEW c \in Client, CommitVersion(c)
  PROVE  SafeInv'
<1>1. UNCHANGED <<local, stage, verified, printed>> /\ End(c) /\ TypeOK
  BY DEF CommitVersion, SafeInv
<1>2. run[c].pc = "commit" /\ Sound(run[c], verified)
  BY DEF SafeInv, ClientsSound, CommitVersion, At
<1>3. ClientsSound'
  BY <1>1, EndTyped, IdleSound, ClientGoesOn DEF SafeInv
<1>4. VersionsSound' /\ VersionsDiffer'
  <2>1. CASE versions' = versions
    BY <1>1, <2>1 DEF SafeInv, VersionsSound, VersionsDiffer
  <2>2. CASE ~Known(NewVersion(c)) /\ versions' = Append(versions, NewVersion(c))
    <3> DEFINE new == NewVersion(c)
    <3>1. new.path = Paths(run[c]) /\ new.hash = run[c].hash
      BY DEF NewVersion, Paths
    <3>2. /\ \A s \in Skill : Frozen(new.path[s]) => new.path[s] \in verified
          /\ Named(new.path, new.hash)
      BY <1>2, <3>1 DEF Sound, Building, Paths
    <3>3. \A n \in 1..Len(versions) : versions[n] # new
      BY <2>2 DEF Known
    <3>4. versions \in Seq(VersionType) /\ new \in VersionType
      BY <1>1, NewVersionTyped DEF TypeOK
    <3> HIDE DEF new
    <3>5. versions' = Append(versions, new)
      BY <2>2 DEF new
    <3>6. /\ Len(versions) \in Nat /\ Len(versions') = Len(versions) + 1
          /\ versions'[Len(versions) + 1] = new
          /\ \A n \in 1..Len(versions) : versions'[n] = versions[n]
      BY <3>4, <3>5
    <3>7. VersionsSound'
      BY <1>1, <3>2, <3>6 DEF SafeInv, VersionsSound
    <3>8. VersionsDiffer'
      BY <3>3, <3>6 DEF SafeInv, VersionsDiffer
    <3> QED BY <3>7, <3>8
  <2> QED BY <2>1, <2>2 DEF CommitVersion
<1> QED BY <1>1, <1>3, <1>4 DEF SafeInv, StageSound, PrintedSound

LEMMA StopSound ==
  ASSUME Trusted \subseteq {"applied"}, SafeInv, TypeOK', NEW c \in Client, Stop(c)
  PROVE  SafeInv'
<1>1. Refuse(c) \/ Moves(c, Idle)
  BY DEF Stop, Moves, End
<1> QED BY <1>1, RefuseSound, MovesSound, IdleSound, NullsTyped

LEMMA PlaceFileSound ==
  ASSUME SafeInv, TypeOK', PlaceFile
  PROVE  SafeInv'
<1>1. PICK folder \in Folder \ verified, f \in File, t \in Text :
        stage' = [stage EXCEPT ![folder][f] = t]
  BY DEF PlaceFile
<1>2. UNCHANGED <<local, run, verified, printed, versions>>
  BY DEF PlaceFile
<1>3. \A known \in verified : stage'[known] = stage[known]
  BY <1>1 DEF SafeInv, TypeOK
<1> QED BY <1>2, <1>3
        DEF SafeInv, StageSound, ClientsSound, PrintedSound, VersionsSound, VersionsDiffer

LEMMA NextSound ==
  ASSUME Trusted \subseteq {"applied"}, SafeInv, [Next]_vars
  PROVE  SafeInv'
<1>1. TypeOK'
  BY NextTyped DEF SafeInv
<1>2. CASE UNCHANGED <<stage, run, verified, printed, versions>>
  BY <1>1, <1>2
     DEF SafeInv, StageSound, ClientsSound, PrintedSound, VersionsSound, VersionsDiffer
<1>3. ASSUME NEW c \in Client, StartPublishing(c) \/ StartBuild(c) \/ ClientStep(c) \/ Stop(c)
      PROVE  SafeInv'
  BY <1>1, <1>3, StartPublishingSound, StartBuildSound, ListFolderSound, TakeFilesSound,
     CopyFileSound, ReadBackSound, CheckReadySound, HashSkillsSound, CommitVersionSound,
     StopSound
     DEF ClientStep
<1>4. ASSUME NEW c \in Client, Edit(c)
      PROVE  SafeInv'
  BY <1>2, <1>4 DEF Edit
<1> QED BY <1>1, <1>2, <1>3, <1>4, PlaceFileSound DEF Next, Rest, vars

\* The invariant the theorems below rest on, where only the vars of uploads that
\* succeeded are given to direct builds.
THEOREM SafeCorrect == Trusted \subseteq {"applied"} => (Spec => []SafeInv)
<1> SUFFICES ASSUME Trusted \subseteq {"applied"} PROVE Spec => []SafeInv
  OBVIOUS
<1>1. Init => SafeInv
  <2> SUFFICES ASSUME Init PROVE SafeInv
    OBVIOUS
  <2>1. ClientsSound
    BY IdleSound DEF Init, ClientsSound
  <2> QED BY <2>1, InitTyped
          DEF Init, SafeInv, StageSound, PrintedSound, VersionsSound, VersionsDiffer
<1>2. SafeInv /\ [Next]_vars => SafeInv'
  BY NextSound
<1> QED BY <1>1, <1>2, PTL DEF Spec

\* Immutable skills of committed versions keep their text, whatever number of
\* clients upload, deploy, edit and are interrupted in whatever order.
THEOREM TextIsKept == Trusted \subseteq {"applied"} => (Spec => []VersionsKeepTheirText)
<1> SUFFICES ASSUME Trusted \subseteq {"applied"} PROVE Spec => []VersionsKeepTheirText
  OBVIOUS
<1>1. SafeInv => VersionsKeepTheirText
  BY DEF SafeInv, StageSound, VersionsSound, VersionsKeepTheirText
<1> QED BY <1>1, SafeCorrect, PTL

\* Unchanged immutable skills commit no second version: all their hashes agree.
THEOREM NothingNewForUnchanged ==
  Trusted \subseteq {"applied"} => (Spec => []UnchangedCommitsNothing)
<1> SUFFICES ASSUME Trusted \subseteq {"applied"} PROVE Spec => []UnchangedCommitsNothing
  OBVIOUS
<1>1. SafeInv => UnchangedCommitsNothing
  <2> SUFFICES ASSUME SafeInv, NEW m \in 1..Len(versions), NEW n \in 1..Len(versions),
                      versions[m].path = versions[n].path,
                      \A s \in Skill : Frozen(versions[m].path[s])
               PROVE  m = n
    BY DEF UnchangedCommitsNothing
  <2>1. versions[m].hash = versions[n].hash
    BY DEF SafeInv, VersionsSound, Named
  <2>2. versions[m] \in VersionType /\ versions[n] \in VersionType
    BY DEF SafeInv, TypeOK
  <2>3. versions[m] = versions[n]
    BY <2>1, <2>2 DEF VersionType
  <2> QED BY <2>3 DEF SafeInv, VersionsDiffer
<1> QED BY <1>1, SafeCorrect, PTL
-----------------------------------------------------------------------------
(* What uploads do to content folders. *)

\* A client copies planned files only; where folders are not edited under a running
\* upload, it copies what it planned.
CopySound(r, mine) ==
  /\ r.pc = "copy" => r.remaining \subseteq Files(r.plan[r.skill])
  /\ ~EditsAnytime /\ r.pc \in Publishing => r.plan = mine
  /\ ~EditsAnytime /\ r.pc = "copy" =>
       \A f \in r.remaining : r.scratch[f] = r.plan[r.skill][f]

CopiesSound == \A c \in Client : CopySound(run[c], local[c])

FilesInv ==
  /\ TypeOK /\ CopiesSound
  /\ MaxPlaced = 0 /\ ~EditsAnytime => InterruptedIsCompletable

LEMMA QuietCopySound ==
  ASSUME NEW r, NEW mine, r.pc \notin Publishing
  PROVE  CopySound(r, mine)
  BY DEF CopySound, Publishing

LEMMA FilesStay ==
  ASSUME FilesInv, TypeOK', UNCHANGED stage, CopiesSound'
  PROVE  FilesInv'
  BY DEF FilesInv, InterruptedIsCompletable

\* A step of one client that leaves the stage and the checkouts alone.
LEMMA FilesGoOn ==
  ASSUME FilesInv, TypeOK', NEW c \in Client, NEW r, Continue(c, r),
         UNCHANGED <<local, stage>>, CopySound(r, local[c])
  PROVE  FilesInv'
<1>1. run'[c] = r /\ \A d \in Client : d # c => run'[d] = run[d]
  BY DEF Continue, FilesInv, TypeOK
<1>2. ASSUME NEW d \in Client
      PROVE  CopySound(run'[d], local'[d])
  <2>1. CopySound(run[d], local[d]) /\ local' = local
    BY DEF FilesInv, CopiesSound
  <2> QED BY <1>1, <2>1
<1>3. CopiesSound'
  BY <1>2 DEF CopiesSound
<1> QED BY <1>3, FilesStay

LEMMA EndFiles ==
  ASSUME FilesInv, TypeOK', NEW c \in Client, End(c), UNCHANGED <<local, stage>>
  PROVE  FilesInv'
<1>1. Idle.pc \notin Publishing
  BY DEF Idle, Publishing
<1> QED BY <1>1, QuietCopySound, FilesGoOn DEF End

LEMMA BuildsFiles ==
  ASSUME FilesInv, TypeOK', NEW c \in Client, NEW r, r.pc \in Building,
         Continue(c, r), UNCHANGED <<local, stage>>
  PROVE  FilesInv'
<1>1. r.pc \notin Publishing
  BY DEF Building, Publishing
<1> QED BY <1>1, QuietCopySound, FilesGoOn

\* Going on to another skill, or to the copy of this one, keeps the plan.
LEMMA PlansFiles ==
  ASSUME FilesInv, TypeOK', NEW c \in Client, run[c].pc \in Publishing, NEW r,
         r.pc \in {"list", "take"}, r.plan = run[c].plan,
         Continue(c, r), UNCHANGED <<local, stage>>
  PROVE  FilesInv'
<1>1. CopySound(run[c], local[c])
  BY DEF FilesInv, CopiesSound
<1>2. CopySound(r, local[c])
  BY <1>1 DEF CopySound
<1> QED BY <1>2, FilesGoOn

LEMMA ReportFiles ==
  ASSUME FilesInv, TypeOK', NEW c \in Client, run[c].pc \in Publishing, Report(c)
  PROVE  FilesInv'
<1>1. UNCHANGED <<local, stage>> /\ TypeOK
  BY DEF Report, FilesInv
<1>2. CASE run[c].skill < Skills /\ Continue(c, Publish(run[c], run[c].skill + 1))
  <2> DEFINE q == Publish(run[c], run[c].skill + 1)
  <2>1. q.pc \in {"list", "take"} /\ q.plan = run[c].plan
    <3>1. run[c].skill + 1 \in Skill
      BY <1>1, <1>2, RunningTyped, BoundsAreNatural DEF Skill
    <3>2. run[c] \in RunType
      BY <1>1, RunningTyped
    <3> QED BY <3>1, <3>2, PublishTyped
  <2>2. Continue(c, q)
    BY <1>2
  <2> HIDE DEF q
  <2> QED BY <1>1, <2>1, <2>2, PlansFiles
<1>3. CASE End(c)
  BY <1>1, <1>3, EndFiles
<1>4. CASE Continue(c, [run[c] EXCEPT !.pc = "ready"])
  <2> DEFINE q == [run[c] EXCEPT !.pc = "ready"]
  <2>1. q.pc \in Building
    BY <1>1, RunningTyped, PcTyped DEF Building
  <2>2. Continue(c, q)
    BY <1>4
  <2> HIDE DEF q
  <2> QED BY <1>1, <2>1, <2>2, BuildsFiles
<1> QED BY <1>2, <1>3, <1>4 DEF Report, Published

LEMMA RefuseFiles ==
  ASSUME FilesInv, TypeOK', NEW c \in Client, Refuse(c)
  PROVE  FilesInv'
  BY EndFiles DEF Refuse

LEMMA ListFolderFiles ==
  ASSUME FilesInv, TypeOK', NEW c \in Client, ListFolder(c)
  PROVE  FilesInv'
<1>1. run[c].pc \in Publishing /\ TypeOK
  BY DEF ListFolder, At, Publishing, FilesInv
<1>2. CASE Report(c)
  BY <1>1, <1>2, ReportFiles
<1>3. CASE Refuse(c)
  BY <1>3, RefuseFiles
<1>4. CASE Moves(c, [run[c] EXCEPT !.pc = "take"])
  <2> DEFINE q == [run[c] EXCEPT !.pc = "take"]
  <2>1. q.pc \in {"list", "take"} /\ q.plan = run[c].plan
    BY <1>1, RunningTyped, PcTyped DEF Publishing
  <2>2. Continue(c, q) /\ UNCHANGED <<local, stage>>
    BY <1>4 DEF Moves
  <2> HIDE DEF q
  <2> QED BY <1>1, <2>1, <2>2, PlansFiles
<1> QED BY <1>2, <1>3, <1>4 DEF ListFolder, Moves

LEMMA TakeFilesFiles ==
  ASSUME FilesInv, TypeOK', NEW c \in Client, TakeFiles(c)
  PROVE  FilesInv'
<1>1. /\ run[c].pc = "take" /\ CopySound(run[c], local[c]) /\ TypeOK
      /\ run[c].skill \in Skill
  BY RunningTyped DEF TakeFiles, At, FilesInv, CopiesSound
<1>2. CASE Refuse(c)
  BY <1>2, RefuseFiles
<1>3. CASE Moves(c, Taken(c))
  <2>1. /\ Taken(c).pc = "copy" /\ Taken(c).skill = run[c].skill
        /\ Taken(c).plan = run[c].plan
        /\ Taken(c).remaining = Files(Planned(c))
        /\ Taken(c).scratch =
             [f \in File |-> IF f \in Files(Planned(c)) THEN Here(c)[f] ELSE Absent]
    BY <1>1, TakenTyped
  <2>2. Planned(c) = run[c].plan[run[c].skill] /\ Here(c) = local[c][run[c].skill]
    BY DEF Planned, Here
  <2>3. ~EditsAnytime => run[c].plan = local[c]
    BY <1>1 DEF CopySound, Publishing
  <2>4. \A f \in Taken(c).remaining : Taken(c).scratch[f] = Here(c)[f]
    BY <2>1 DEF Files
  <2>5. CopySound(Taken(c), local[c])
    BY <2>1, <2>2, <2>3, <2>4 DEF CopySound
  <2> QED BY <1>3, <2>5, FilesGoOn DEF Moves
<1> QED BY <1>2, <1>3 DEF TakeFiles, Moves, Taken

\* One file of a copy adds a planned file, and where nobody edits, as planned.
LEMMA CopyAddsPlanned ==
  ASSUME FilesInv, NEW c \in Client, CopyFile(c)
  PROVE  \A folder \in Folder, g \in File :
           \/ stage'[folder][g] = stage[folder][g]
           \/ /\ Frozen(folder) => g \in Files(folder.content)
              /\ Frozen(folder) /\ ~EditsAnytime => stage'[folder][g] = folder.content[g]
<1>1. PICK f \in run[c].remaining :
        stage' = IF KeepsFile(c, f) THEN stage
                 ELSE [stage EXCEPT ![Current(c)][f] = run[c].scratch[f]]
  BY DEF CopyFile
<1>2. TypeOK /\ run[c].pc = "copy" /\ CopySound(run[c], local[c])
  BY DEF CopyFile, At, FilesInv, CopiesSound
<1>3. f \in Files(Planned(c)) /\ (~EditsAnytime => run[c].scratch[f] = Planned(c)[f])
  BY <1>2 DEF CopySound, Planned
<1>4. /\ \A folder \in Folder : folder # Current(c) => stage'[folder] = stage[folder]
      /\ \A g \in File : g # f => stage'[Current(c)][g] = stage[Current(c)][g]
      /\ \/ stage'[Current(c)][f] = stage[Current(c)][f]
         \/ stage'[Current(c)][f] = run[c].scratch[f]
  BY <1>1, <1>2, CopyStores
<1>5. Frozen(Current(c)) => Current(c).content = Planned(c)
  BY <1>2, CurrentFrozen
<1> QED BY <1>3, <1>4, <1>5

LEMMA CopyFileFiles ==
  ASSUME FilesInv, TypeOK', NEW c \in Client, CopyFile(c)
  PROVE  FilesInv'
<1>1. PICK f \in run[c].remaining : Continue(c, Copied(c, f))
  BY DEF CopyFile, Copied
<1>2. /\ TypeOK /\ run[c].pc = "copy" /\ local' = local
      /\ CopySound(run[c], local[c])
  BY DEF CopyFile, At, FilesInv, CopiesSound
<1>6. ASSUME MaxPlaced = 0, ~EditsAnytime
      PROVE  InterruptedIsCompletable'
  <2> SUFFICES ASSUME NEW folder \in Folder, Frozen(folder), NEW g \in File,
                      stage'[folder][g] # Absent
               PROVE  stage'[folder][g] = folder.content[g]
    BY DEF InterruptedIsCompletable, Files
  <2>1. stage[folder][g] # Absent => stage[folder][g] = folder.content[g]
    BY <1>6 DEF FilesInv, InterruptedIsCompletable, Files
  <2> QED BY <1>6, <2>1, CopyAddsPlanned
<1>7. CopiesSound'
  <2> DEFINE q == Copied(c, f)
  <2>1. /\ q.pc \in {"copy", "readBack"} /\ q.remaining \subseteq run[c].remaining
        /\ q.scratch = run[c].scratch /\ q.skill = run[c].skill /\ q.plan = run[c].plan
    BY <1>2, CopiedTyped
  <2>2. run'[c] = q /\ \A d \in Client : d # c => run'[d] = run[d]
    BY <1>1, <1>2 DEF Continue, TypeOK
  <2> HIDE DEF q
  <2>3. CopySound(q, local[c])
    BY <1>2, <2>1 DEF CopySound, Publishing
  <2>4. ASSUME NEW d \in Client
        PROVE  CopySound(run'[d], local'[d])
    <3>1. CopySound(run[d], local[d])
      BY DEF FilesInv, CopiesSound
    <3> QED BY <1>2, <2>2, <2>3, <3>1
  <2> QED BY <2>4 DEF CopiesSound
<1> QED BY <1>6, <1>7 DEF FilesInv

LEMMA ReadBackFiles ==
  ASSUME FilesInv, TypeOK', NEW c \in Client, ReadBack(c)
  PROVE  FilesInv'
<1>1. run[c].pc \in Publishing
  BY DEF ReadBack, At, Publishing
<1> QED BY <1>1, ReportFiles, RefuseFiles DEF ReadBack

LEMMA StartPublishingFiles ==
  ASSUME FilesInv, TypeOK', NEW c \in Client, StartPublishing(c)
  PROVE  FilesInv'
<1>1. PICK command \in {"deploy", "upload"}, mode \in [Skill -> Modes] :
        Continue(c, Publish(Started(command, mode, local[c]), 1))
  BY DEF StartPublishing, Started
<1>2. UNCHANGED <<local, stage>> /\ TypeOK
  BY DEF StartPublishing, FilesInv
<1> DEFINE q == Publish(Started(command, mode, local[c]), 1)
<1>3. q.pc \in {"list", "take"} /\ q.plan = local[c]
  <2>1. /\ command \in Command /\ mode \in [Skill -> Mode]
        /\ local[c] \in [Skill -> Content \cup {Nothing}]
    BY <1>2, ChoicesAreKnown DEF TypeOK, Command
  <2>2. /\ Started(command, mode, local[c]) \in RunType /\ 1 \in Skill
        /\ Started(command, mode, local[c]).plan = local[c]
    BY <2>1, StartedTyped, NullsTyped
  <2> QED BY <2>2, PublishTyped
<1>4. Continue(c, q)
  BY <1>1
<1> HIDE DEF q
<1>5. CopySound(q, local[c])
  BY <1>3 DEF CopySound
<1> QED BY <1>2, <1>4, <1>5, FilesGoOn

LEMMA BuildFiles ==
  ASSUME FilesInv, TypeOK', NEW c \in Client,
         StartBuild(c) \/ CheckReady(c) \/ HashSkills(c) \/ CommitVersion(c)
  PROVE  FilesInv'
<1>1. TypeOK
  BY DEF FilesInv
<1>2. CASE StartBuild(c)
  <2>1. PICK digests \in printed \cup {[s \in Skill |-> Nothing]},
             mode \in [Skill -> Modes] : Continue(c, Built(mode, digests))
    BY <1>2 DEF StartBuild, Built
  <2>2. Built(mode, digests).pc \in Building
    BY DEF Built, Idle, Building
  <2> QED BY <1>2, <2>1, <2>2, BuildsFiles DEF StartBuild
<1>3. CASE CheckReady(c)
  <2> DEFINE q == [run[c] EXCEPT !.pc = "hash"]
  <2>1. q.pc \in Building
    BY <1>1, RunningTyped, PcTyped DEF Building
  <2>2. Refuse(c) \/ (Continue(c, q) /\ UNCHANGED <<local, stage>>)
    BY <1>3 DEF CheckReady
  <2> HIDE DEF q
  <2> QED BY <2>1, <2>2, RefuseFiles, BuildsFiles
<1>4. CASE HashSkills(c)
  <2>1. HashedState(c).pc \in Building
    BY <1>1, HashedTyped DEF Building
  <2> QED BY <1>4, <2>1, BuildsFiles DEF HashSkills, HashedState
<1>5. CASE CommitVersion(c)
  BY <1>5, EndFiles DEF CommitVersion
<1> QED BY <1>2, <1>3, <1>4, <1>5

LEMMA EditFiles ==
  ASSUME FilesInv, TypeOK', NEW c \in Client, Edit(c)
  PROVE  FilesInv'
<1>1. UNCHANGED <<stage, run>> /\ (EditsAnytime \/ run[c].pc = "idle")
      /\ \A d \in Client : d # c => local'[d] = local[d]
  BY DEF Edit, At, FilesInv, TypeOK
<1>2. ASSUME NEW d \in Client
      PROVE  CopySound(run'[d], local'[d])
  <2>1. CopySound(run[d], local[d])
    BY DEF FilesInv, CopiesSound
  <2> QED BY <1>1, <2>1 DEF CopySound, Publishing
<1>3. CopiesSound'
  BY <1>2 DEF CopiesSound
<1> QED BY <1>1, <1>3, FilesStay

LEMMA PlaceFileFiles ==
  ASSUME FilesInv, TypeOK', PlaceFile
  PROVE  FilesInv'
<1>1. MaxPlaced # 0
  BY DEF PlaceFile, FilesInv, TypeOK
<1>2. CopiesSound'
  BY DEF FilesInv, CopiesSound, PlaceFile
<1> QED BY <1>1, <1>2 DEF FilesInv

LEMMA NextFiles ==
  ASSUME FilesInv, [Next]_vars
  PROVE  FilesInv'
<1>1. TypeOK'
  BY NextTyped DEF FilesInv
<1>2. CASE UNCHANGED <<local, stage, run>>
  BY <1>1, <1>2, FilesStay DEF FilesInv, CopiesSound
<1>3. ASSUME NEW c \in Client, Stop(c)
      PROVE  FilesInv'
  BY <1>1, <1>3, RefuseFiles, EndFiles DEF Stop
<1>4. ASSUME NEW c \in Client,
             StartPublishing(c) \/ StartBuild(c) \/ ClientStep(c) \/ Edit(c)
      PROVE  FilesInv'
  BY <1>1, <1>4, StartPublishingFiles, BuildFiles, ListFolderFiles, TakeFilesFiles,
     CopyFileFiles, ReadBackFiles, EditFiles
     DEF ClientStep
<1> QED BY <1>1, <1>2, <1>3, <1>4, PlaceFileFiles DEF Next, Rest, vars

LEMMA FilesCorrect == Spec => []FilesInv
<1>1. Init => FilesInv
  <2> SUFFICES ASSUME Init PROVE FilesInv
    OBVIOUS
  <2>1. CopiesSound
    <3>1. Idle.pc \notin Publishing
      BY DEF Idle, Publishing
    <3> QED BY <3>1, QuietCopySound DEF Init, CopiesSound
  <2>2. \A folder \in Folder, f \in File : stage[folder][f] = Absent
    BY DEF Init, Nothing
  <2> QED BY <2>1, <2>2, InitTyped DEF FilesInv, InterruptedIsCompletable, Files
<1>2. FilesInv /\ [Next]_vars => FilesInv'
  BY NextFiles
<1> QED BY <1>1, <1>2, PTL DEF Spec

\* Of all steps only copies, and files placed by hand, add files to the stage.
LEMMA StageChanges ==
  ASSUME [Next]_vars
  PROVE  \/ UNCHANGED stage
         \/ placed' = placed + 1
         \/ \E c \in Client : CopyFile(c)
  BY DEF Next, Rest, vars, ClientStep, StartPublishing, StartBuild, ListFolder,
         TakeFiles, ReadBack, CheckReady, HashSkills, CommitVersion, Stop, Edit,
         PlaceFile, Report, Refuse

\* Uploads add no file to a content folder that its digest does not list, even when
\* files appear in the local folder under them.
THEOREM OnlyInventoriedCorrect == Spec => OnlyInventoriedFiles
<1> DEFINE Adds ==
      placed' = placed =>
        \A folder \in Folder : Frozen(folder) =>
          Files(stage'[folder]) \subseteq Files(stage[folder]) \cup Files(folder.content)
<1>1. FilesInv /\ [Next]_vars => [Adds]_vars
  <2> SUFFICES ASSUME FilesInv, [Next]_vars, placed' = placed,
                      NEW folder \in Folder, Frozen(folder),
                      NEW g \in File, stage'[folder][g] # Absent
               PROVE  stage[folder][g] # Absent \/ g \in Files(folder.content)
    BY DEF Files
  <2>1. CASE UNCHANGED stage
    BY <2>1
  <2>2. ASSUME NEW c \in Client, CopyFile(c)
        PROVE  stage[folder][g] # Absent \/ g \in Files(folder.content)
    BY <2>2, CopyAddsPlanned
  <2>3. placed' # placed + 1
    BY DEF FilesInv, TypeOK
  <2> QED BY <2>1, <2>2, <2>3, StageChanges
<1> QED BY <1>1, FilesCorrect, PTL DEF Spec, OnlyInventoriedFiles

\* When nobody edits a skill under its upload, and nobody places files by hand,
\* every interrupted upload leaves a folder that the next one can complete.
THEOREM CompletableCorrect ==
  MaxPlaced = 0 /\ ~EditsAnytime => (Spec => []InterruptedIsCompletable)
<1> SUFFICES ASSUME MaxPlaced = 0, ~EditsAnytime PROVE Spec => []InterruptedIsCompletable
  OBVIOUS
<1>1. FilesInv => InterruptedIsCompletable
  BY DEF FilesInv
<1> QED BY <1>1, FilesCorrect, PTL
=============================================================================
