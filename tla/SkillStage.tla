----------------------------- MODULE SkillStage -----------------------------
(***************************************************************************)
(* Skills are folders of files on a stage.  An Agent version stores the    *)
(* path of each folder and reads whatever is there when it is invoked.     *)
(* `agent deploy` and `skill upload` publish the local folders, read them  *)
(* back, and only then have dbt commit a version (skills.py).              *)
(*                                                                         *)
(* An immutable skill goes to a folder named after a digest of its files,  *)
(* an overwrite skill to one mutable folder.  Clients work from checkouts  *)
(* of their own, are interrupted anywhere, and overlap.  One action is one *)
(* stage operation, and a copy is one action per file.                     *)
(*                                                                         *)
(* A digest is the content it is taken of.  The preflight DESCRIBE STAGE   *)
(* changes nothing and is not modelled, nor is the removal of old folders. *)
(* Builds run without force_agent_recreate, which AgentLifecycle models.   *)
(* `skill plan` prints what an upload stopped at once prints, and is the   *)
(* same step here.                                                         *)
(***************************************************************************)
EXTENDS Integers, Sequences, FiniteSets

CONSTANTS
  Client,       \* processes that upload, deploy or build
  Skills,       \* number of skills of the Agent, published in this order
  File,         \* file names in a skill folder
  Text,         \* what a file may hold
  Absent,       \* no such file
  Modes,        \* the modes skills may be declared with
  Trusted,      \* the outputs whose dbt_vars somebody gives to a direct build
  EditsAnytime, \* TRUE: files may be edited between the plan and the copy
  MaxCommands,  \* bound: commands started
  MaxEdits,     \* bound: edits of local folders
  MaxPlaced     \* bound: files placed on the stage by hand

SkillMd == "SKILL.md"
Skill == 1..Skills
Mode == {"immutable", "overwrite"}
Result == {"applied", "failed"}

ASSUME BoundsAreNatural ==
  /\ Skills \in Nat \ {0}
  /\ MaxCommands \in Nat /\ MaxEdits \in Nat /\ MaxPlaced \in Nat
ASSUME FilesAreFinite == IsFiniteSet(File) /\ SkillMd \in File
ASSUME AbsentIsNoText == Absent \notin Text
ASSUME ChoicesAreKnown ==
  Modes \subseteq Mode /\ Trusted \subseteq Result /\ EditsAnytime \in BOOLEAN

Listing == [File -> Text \cup {Absent}]
Content == {l \in Listing : l[SkillMd] # Absent}
Nothing == [f \in File |-> Absent]
Files(listing) == {f \in File : listing[f] # Absent}

\* A content folder is named after its content, the mutable folder after nothing.
Folder == [skill : Skill, content : Content \cup {Nothing}]

VARIABLES
  local,    \* the skill folders in each client's checkout
  stage,    \* what each folder on the stage holds
  run,      \* the command each client is executing
  verified, \* folders a client has reported as uploaded, reused or overwritten
  printed,  \* the dbt_vars outputs somebody goes on to use
  versions, \* the Agent's versions: the folders they name, the hash they carry
  commands, edits, placed

counters == <<commands, edits, placed>>
vars == <<local, stage, run, verified, printed, versions, counters>>
-----------------------------------------------------------------------------
Idle == [pc |-> "idle", command |-> "none", mode |-> [s \in Skill |-> "immutable"],
         plan |-> [s \in Skill |-> Nothing], skill |-> 1, scratch |-> Nothing,
         remaining |-> {}, hash |-> {}]

At(c, step) == run[c].pc = step
Continue(c, r) == run' = [run EXCEPT ![c] = r]
End(c) == Continue(c, Idle)

\* Slip: the digest is taken of SKILL.md only.
PathBySkillMd(r, s) ==
  [skill |-> s,
   content |-> IF r.mode[s] = "immutable" THEN [Nothing EXCEPT ![SkillMd] = r.plan[s][SkillMd]]
               ELSE Nothing]

\* deployed_path.
Path(r, s) ==
  [skill |-> s, content |-> IF r.mode[s] = "immutable" THEN r.plan[s] ELSE Nothing]

Current(c) == Path(run[c], run[c].skill)
Planned(c) == run[c].plan[run[c].skill]
Immutable(c) == run[c].mode[run[c].skill] = "immutable"

\* skill_digests, as printed with the given result.
Digests(r) == [s \in Skill |-> Path(r, s).content]
Output(result, r) ==
  printed' = IF result \in Trusted THEN printed \cup {Digests(r)} ELSE printed

\* The command ends with an error; `skill upload` prints its dbt_vars all the same.
Refuse(c) ==
  /\ IF run[c].command = "upload" THEN Output("failed", run[c]) ELSE UNCHANGED printed
  /\ End(c)
  /\ UNCHANGED <<local, stage, verified, versions, counters>>

\* An overwrite skill is copied at once, an immutable one only where needed.
Publish(r, s) ==
  [r EXCEPT !.pc = IF r.mode[s] = "immutable" THEN "list" ELSE "take", !.skill = s]
-----------------------------------------------------------------------------
(* upload_skills. *)

\* build_upload_plan: the digest is taken of the files as they are now.
StartPublishing(c) ==
  /\ At(c, "idle")
  /\ commands < MaxCommands
  /\ commands' = commands + 1
  /\ \E command \in {"deploy", "upload"}, mode \in [Skill -> Modes] :
       Continue(c, Publish([Idle EXCEPT !.command = command, !.mode = mode,
                                        !.plan = local[c]], 1))
  /\ UNCHANGED <<local, stage, verified, printed, versions, edits, placed>>

\* Slip: dbt runs as soon as the first skill is published.
PublishedFirst(c) ==
  \/ /\ run[c].skill < Skills /\ run[c].command = "upload"
     /\ Continue(c, Publish(run[c], run[c].skill + 1))
     /\ UNCHANGED printed
  \/ /\ run[c].skill = Skills /\ run[c].command = "upload"
     /\ Output("applied", run[c])
     /\ End(c)
  \/ /\ run[c].command = "deploy"
     /\ Continue(c, [run[c] EXCEPT !.pc = "ready"])
     /\ UNCHANGED printed

\* The folder of this skill is as planned: report it, and go on.
Published(c) ==
  \/ /\ run[c].skill < Skills
     /\ Continue(c, Publish(run[c], run[c].skill + 1))
     /\ UNCHANGED printed
  \/ /\ run[c].skill = Skills /\ run[c].command = "upload"
     /\ Output("applied", run[c])
     /\ End(c)
  \/ /\ run[c].skill = Skills /\ run[c].command = "deploy"
     /\ Continue(c, [run[c] EXCEPT !.pc = "ready"])
     /\ UNCHANGED printed

Report(c) ==
  /\ verified' = verified \cup {Current(c)}
  /\ Published(c)
  /\ UNCHANGED <<local, stage, versions, counters>>

\* Files in the folder that are not what the plan wants there.
Conflicting(c) == {f \in Files(stage[Current(c)]) : stage[Current(c)][f] # Planned(c)[f]}

ListFolder(c) ==
  /\ At(c, "list")
  /\ \/ stage[Current(c)] = Planned(c) /\ Report(c)
     \/ stage[Current(c)] # Planned(c) /\ Conflicting(c) # {} /\ Refuse(c)
     \/ /\ stage[Current(c)] # Planned(c) /\ Conflicting(c) = {}
        /\ Continue(c, [run[c] EXCEPT !.pc = "take"])
        /\ UNCHANGED <<local, stage, verified, printed, versions, counters>>

Here(c) == local[c][run[c].skill]

\* Slip: the folder is uploaded as it is, with files the inventory does not list.
InventoriedByNow(c) == Files(Here(c))

Inventoried(c) == Files(Planned(c))

\* The inventoried files are copied to a scratch folder, as they are by now.
TakeFiles(c) ==
  LET wanted == Inventoried(c) IN
  /\ At(c, "take")
  /\ \/ ~(wanted \subseteq Files(Here(c))) /\ Refuse(c)
     \/ /\ wanted \subseteq Files(Here(c))
        /\ Continue(c, [run[c] EXCEPT
             !.pc = "copy", !.remaining = wanted,
             !.scratch = [f \in File |-> IF f \in wanted THEN Here(c)[f] ELSE Absent]])
        /\ UNCHANGED <<local, stage, verified, printed, versions, counters>>

\* Slip: --overwrite in either mode.
KeepsFileNever(c, f) == FALSE

\* --no-overwrite keeps a file that is there.
KeepsFile(c, f) == Immutable(c) /\ stage[Current(c)][f] # Absent

LastFile(c, f) == run[c].remaining = {f}

\* snow stage copy --parallel: the files arrive in any order.
CopyFile(c) ==
  /\ At(c, "copy")
  /\ \E f \in run[c].remaining :
       /\ stage' = IF KeepsFile(c, f) THEN stage
                   ELSE [stage EXCEPT ![Current(c)][f] = run[c].scratch[f]]
       /\ Continue(c, [run[c] EXCEPT
            !.remaining = @ \ {f},
            !.pc = IF LastFile(c, f) THEN "readBack" ELSE "copy"])
  /\ UNCHANGED <<local, verified, printed, versions, counters>>

\* _verify: every file of the plan, and in a content folder no other.
ReadsBack(c) ==
  /\ \A f \in Files(Planned(c)) : stage[Current(c)][f] = Planned(c)[f]
  /\ Immutable(c) => Files(stage[Current(c)]) \subseteq Files(Planned(c))

ReadBack(c) ==
  /\ At(c, "readBack")
  /\ \/ ReadsBack(c) /\ Report(c)
     \/ ~ReadsBack(c) /\ Refuse(c)
-----------------------------------------------------------------------------
(* dbt build: the materialization, as far as it reads the stage. *)

\* A build outside `agent deploy`: an immutable skill needs a digest from its vars.
StartBuild(c) ==
  /\ At(c, "idle")
  /\ commands < MaxCommands
  /\ commands' = commands + 1
  /\ \E digests \in printed \cup {[s \in Skill |-> Nothing]}, mode \in [Skill -> Modes] :
       /\ \A s \in Skill : mode[s] = "immutable" => digests[s] # Nothing
       /\ Continue(c, [Idle EXCEPT !.pc = "ready", !.command = "build",
                                   !.mode = mode, !.plan = digests])
  /\ UNCHANGED <<local, stage, verified, printed, versions, edits, placed>>

\* Slip: everything below the base path is listed, other content folders too.
ListedBase(r, s) == {p \in Folder : p.skill = s}

\* LIST of a skill's path: content folders lie below the mutable folder.
Listed(r, s) ==
  {p \in Folder : p.skill = s /\ (r.mode[s] = "immutable" => p = Path(r, s))}

\* assert_staged_skills_ready: one LIST per skill; files never go away.
CheckReady(c) ==
  LET ready == \A s \in Skill : \E p \in Listed(run[c], s) : stage[p][SkillMd] # Absent IN
  /\ At(c, "ready")
  /\ \/ ~ready /\ Refuse(c)
     \/ /\ ready
        /\ Continue(c, [run[c] EXCEPT !.pc = "hash"])
        /\ UNCHANGED <<local, stage, verified, printed, versions, counters>>

Staged(r, s) ==
  {e \in Listed(r, s) \X File \X Text : stage[e[1]][e[2]] = e[3]}

\* skills_hash: name, size and md5 of every staged file.
HashSkills(c) ==
  /\ At(c, "hash")
  /\ Continue(c, [run[c] EXCEPT !.pc = "commit",
                                !.hash = UNION {Staged(run[c], s) : s \in Skill}])
  /\ UNCHANGED <<local, stage, verified, printed, versions, counters>>

NewVersion(c) == [path |-> [s \in Skill |-> Path(run[c], s)], hash |-> run[c].hash]

Known(v) == \E n \in 1..Len(versions) : versions[n] = v

\* A version with these paths and this hash is reused, else one is committed.
CommitVersion(c) ==
  /\ At(c, "commit")
  /\ versions' = IF Known(NewVersion(c)) THEN versions ELSE Append(versions, NewVersion(c))
  /\ End(c)
  /\ UNCHANGED <<local, stage, verified, printed, counters>>
-----------------------------------------------------------------------------
\* Killed, or stopped by an error or a timeout.
Stop(c) ==
  /\ ~At(c, "idle")
  /\ \/ Refuse(c)
     \/ End(c) /\ UNCHANGED <<local, stage, verified, printed, versions, counters>>

Edit(c) ==
  /\ edits < MaxEdits
  /\ EditsAnytime \/ At(c, "idle")
  /\ edits' = edits + 1
  /\ \E s \in Skill, content \in Content :
       content # local[c][s] /\ local' = [local EXCEPT ![c][s] = content]
  /\ UNCHANGED <<stage, run, verified, printed, versions, commands, placed>>

\* Somebody puts a file into a content folder nobody has verified yet.
PlaceFile ==
  /\ placed < MaxPlaced
  /\ placed' = placed + 1
  /\ \E folder \in Folder \ verified, f \in File, t \in Text :
       stage' = [stage EXCEPT ![folder][f] = t]
  /\ UNCHANGED <<local, run, verified, printed, versions, commands, edits>>

ClientStep(c) ==
  \/ ListFolder(c) \/ TakeFiles(c) \/ CopyFile(c) \/ ReadBack(c)
  \/ CheckReady(c) \/ HashSkills(c) \/ CommitVersion(c)

\* Nobody runs a command any more.
Rest ==
  /\ commands = MaxCommands
  /\ \A c \in Client : At(c, "idle")
  /\ UNCHANGED vars

\* Everybody starts from one commit.
Init ==
  /\ \E content \in [Skill -> Content] : local = [c \in Client |-> content]
  /\ stage = [folder \in Folder |-> Nothing]
  /\ run = [c \in Client |-> Idle]
  /\ verified = {} /\ printed = {} /\ versions = <<>>
  /\ commands = 0 /\ edits = 0 /\ placed = 0

Next ==
  \/ \E c \in Client : \/ StartPublishing(c) \/ StartBuild(c)
                       \/ ClientStep(c) \/ Stop(c) \/ Edit(c)
  \/ PlaceFile
  \/ Rest

Spec == Init /\ [][Next]_vars
-----------------------------------------------------------------------------
(* Properties. *)

Publishing == {"list", "take", "copy", "readBack"}
Building == {"ready", "hash", "commit"}
Command == {"deploy", "upload", "build"}
Entry == Folder \X File \X Text

RunType ==
  [pc : Publishing \cup Building \cup {"idle"}, command : Command \cup {"none"},
   mode : [Skill -> Mode], plan : [Skill -> Content \cup {Nothing}], skill : Skill,
   scratch : Listing, remaining : SUBSET File, hash : SUBSET Entry]

VersionType == [path : [Skill -> Folder], hash : SUBSET Entry]

\* A client that publishes has a plan for every skill, and one that copies has a
\* file left to copy.
InStep(r) ==
  /\ r.pc \in Publishing => r.plan \in [Skill -> Content]
  /\ r.pc = "copy" => r.remaining # {}

\* Every variable has its type, and every client what its step needs.
TypeOK ==
  /\ local \in [Client -> [Skill -> Content]]
  /\ stage \in [Folder -> Listing]
  /\ run \in [Client -> RunType]
  /\ \A c \in Client : InStep(run[c])
  /\ verified \subseteq Folder
  /\ printed \subseteq [Skill -> Content \cup {Nothing}]
  /\ versions \in Seq(VersionType)
  /\ commands \in 0..MaxCommands /\ edits \in 0..MaxEdits /\ placed \in 0..MaxPlaced

Frozen(folder) == folder.content # Nothing

\* A version with an immutable skill reads, for as long as it exists, exactly the
\* files its path names, so that a rollback restores the text: whatever uploads are
\* interrupted or overlap, whoever edits files under a running upload.
VersionsKeepTheirText ==
  \A n \in 1..Len(versions), s \in Skill :
    LET folder == versions[n].path[s] IN
    Frozen(folder) => stage[folder] = folder.content

\* A redeploy of unchanged immutable skills commits no version, whatever else was
\* uploaded or deployed in between.
UnchangedCommitsNothing ==
  \A m, n \in 1..Len(versions) :
    /\ versions[m].path = versions[n].path
    /\ \A s \in Skill : Frozen(versions[m].path[s])
    => m = n

\* Nothing but a file placed by hand adds to a content folder what its digest does
\* not list, although files may appear in a checkout after the digest was taken.
OnlyInventoriedFiles ==
  [][placed' = placed =>
       \A folder \in Folder : Frozen(folder) =>
         Files(stage'[folder]) \subseteq Files(stage[folder]) \cup Files(folder.content)]_vars

\* What an interrupted upload leaves behind can be completed: no content folder ever
\* holds a file that its digest does not name.
InterruptedIsCompletable ==
  \A folder \in Folder : Frozen(folder) =>
    \A f \in Files(stage[folder]) : stage[folder][f] = folder.content[f]
=============================================================================
