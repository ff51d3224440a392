------------------------------ MODULE LiveProof ------------------------------
(***************************************************************************)
(* The protected multi-database proof (verify_live_multi_database.py): a   *)
(* job deploys, promotes, rolls back and retires two Agents under reserved *)
(* names in shared databases, and afterwards drops what may be left.  The  *)
(* only thing that tells the objects of a job from somebody else's is its  *)
(* attestation file: cleanup is authorized by an inventory that found no   *)
(* reserved object, before the first mutation.                             *)
(*                                                                         *)
(* A job is an artifact directory; it runs one process at a time, the      *)
(* proof and then `--cleanup-only` any number of times.  The release and   *)
(* the scheduled workflow share no concurrency group, so jobs overlap.     *)
(* One action is one statement, or one write of the file.  A statement     *)
(* whose process failed, timed out or died may still take effect later,    *)
(* with those the command had yet to send: dbt outlives its parent.        *)
(*                                                                         *)
(* A revision of the Agent model is a number, and so is a version.  How    *)
(* deploy and promote work inside is the subject of AgentLifecycle.        *)
(***************************************************************************)
EXTENDS Integers, Sequences, FiniteSets

CONSTANTS
  Job,         \* artifact directories
  WithCleanup, \* the jobs whose proof runs with --cleanup
  MaxCommands, \* bound: processes started
  MaxEvents    \* bound: proofs begun, faults, and objects others create, together

ASSUME CleanupsAreJobs == WithCleanup \subseteq Job
ASSUME BoundsAreNatural == MaxCommands \in Nat /\ MaxEvents \in Nat

Others == "others"
ASSUME OthersIsNoJob == Others \notin Job

Absent == [by |-> "nobody"]
NoFile == [proof |-> "no file"]
Torn == [proof |-> "torn"]

VARIABLES
  object,   \* the reserved objects
  disk,     \* the attestation of each job
  proc,     \* the process of each job
  orphans,  \* statements that outlived their process
  harmed,   \* objects that were dropped or replaced, and by which job
  commands, events

counters == <<commands, events>>
vars == <<object, disk, proc, orphans, harmed, counters>>
-----------------------------------------------------------------------------
(* What a proof sends. *)

Agent == {"agentA", "agentB"}

\* The names _proof_inventory looks for; scratch stands for the two dbt leaves.
InventoryOrder == <<"agentA", "agentB", "view", "table", "scratch">>
Name == {InventoryOrder[i] : i \in DOMAIN InventoryOrder}

\* Slip: the preflight looks for the Agents only.
AgentsOnly == <<"agentA", "agentB">>

\* What the preflight looks for.
PreflightNames == InventoryOrder

CleanupOrder == <<"agentA", "agentB", "table", "view">>

Step(act, on, n, k) == [act |-> act, on |-> on, n |-> n, k |-> k]
Local == Step("local", {}, 0, 0)

Commands ==
  << Local,                                             \* venv, install, deps, validate
     Step("deploy", Agent, 1, 0),
     Step("first", Agent, 0, 0),
     Step("smoke", Agent, 0, 0),                        \* and eval verify, a preview
     Step("deploy", Agent, 1, 0),
     Step("second", Agent, 0, 0) >>

\* Each mutation of the Agent is followed by a look at its k versions, all
\* traffic on version n.
LifecycleCommands ==
  LET A == {"agentA"} IN
  << Step("promote", A, 1, 0), Step("route", A, 1, 1),
     Step("deploy", A, 2, 0),  Step("route", A, 1, 2),
     Step("smoke", A, 2, 0),
     Step("promote", A, 2, 0), Step("route", A, 2, 2),
     Step("promote", A, 1, 0), Step("route", A, 1, 2),  \* rollback
     Step("smoke", A, 1, 0),
     Step("deploy", A, 2, 0),  Step("route", A, 1, 2),
     Step("promote", A, 2, 0), Step("route", A, 2, 2),
     Step("final", A, 2, 2) >>                          \* and agent versions

\* Slip: only the first Agent is retired.
RetireFirst == << Step("retire", {"agentA"}, 0, 0) >>

GuardedDrops == << Step("retire", {"agentA"}, 0, 0), Step("retire", {"agentB"}, 0, 0) >>

\* The virtual environment comes first; Local is any number of commands that
\* change nothing of what is reserved.
Script == Commands \o LifecycleCommands \o GuardedDrops

Effect(kind, on, n) == [kind |-> kind, on |-> on, n |-> n]
Drop(name) == Effect("drop", name, 0)

\* The statements of a command that change something, in order.
Sends(step) ==
  CASE step.act = "deploy" /\ step.on = Agent ->
         << Effect("create", "view", 0), Effect("create", "agentA", step.n),
            Effect("create", "agentB", step.n) >>
    [] step.act = "deploy" /\ step.on # Agent ->
         << Effect("create", "view", 0), Effect("create", "agentA", step.n) >>
    [] step.act = "promote" ->
         << Effect("alias", "agentA", step.n), Effect("default", "agentA", step.n) >>
    [] step.act = "retire" -> << Drop(CHOOSE a \in step.on : TRUE) >>
    [] OTHER -> <<>>

Exists(name) == object[name] # Absent
Versions(name) == object[name].versions
Default(o) == IF o.default = 0 THEN Len(o.versions) ELSE o.default
Observed(name) == LET o == object[name] IN <<o.versions, Default(o), o.production>>

\* A promotion of an Agent or version that is not there is refused.
Possible(e) ==
  e.kind \in {"alias", "default"} => Exists(e.on) /\ e.n <= Len(Versions(e.on))

\* late: what became of the process that sent the statement.
Fresh(job, e, late) ==
  [by |-> job, older |-> {}, late |-> late, default |-> 0, production |-> 0,
   versions |-> IF e.on \in Agent THEN <<e.n>> ELSE <<>>]

\* The view is created or replaced.  A deploy commits a revision once.
After(job, e, late) ==
  LET o == object[e.on] IN
  CASE e.kind = "drop" -> Absent
    [] e.kind = "alias" -> [o EXCEPT !.production = e.n]
    [] e.kind = "default" -> [o EXCEPT !.default = e.n]
    [] e.kind = "create" /\ (e.on \notin Agent \/ ~Exists(e.on)) -> Fresh(job, e, late)
    [] e.kind = "create" /\ e.on \in Agent /\ Exists(e.on) ->
         IF \E v \in DOMAIN o.versions : o.versions[v] = e.n THEN o
         ELSE [o EXCEPT !.versions = Append(@, e.n)]

Destroys(e) == Exists(e.on) /\ (e.kind = "drop" \/ e.on = "view")

\* The statement takes effect.
Apply(job, e, late) ==
  /\ object' = [object EXCEPT ![e.on] = After(job, e, late)]
  /\ harmed' = IF Destroys(e)
               THEN harmed \cup {[job |-> job, older |-> object[e.on].older]}
               ELSE harmed
-----------------------------------------------------------------------------
(* The attestation and the process.  The status of a file follows from the two *)
(* it has for proof and cleanup and is left out, with everything observed.     *)

NewAttestation(proof) ==
  [proof |-> proof, cleanup |-> "not_requested", authorized |-> FALSE,
   unknown |-> FALSE]

Idle == [pc |-> "idle", only |-> FALSE, clean |-> FALSE, step |-> 1, todo |-> <<>>,
         left |-> <<>>, failures |-> FALSE, seen |-> <<>>,
         att |-> NewAttestation("planned")]

At(j, pc) == proc[j].pc = pc
Written(j) == disk[j] \notin {NoFile, Torn}
Continue(j, p) == proc' = [proc EXCEPT ![j] = p]

\* _record_cleanup, up to its first statement.
RecordCleanup(p) ==
  IF p.att.unknown \/ ~p.att.authorized
  THEN [p EXCEPT !.pc = "write", !.att.cleanup = "not_authorized"]
  ELSE [p EXCEPT !.pc = "identify", !.att.cleanup = "planned"]

Finally(p) ==
  LET q == [p EXCEPT !.todo = <<>>, !.left = <<>>, !.seen = <<>>, !.step = 1]
  IN IF p.clean THEN RecordCleanup(q) ELSE [q EXCEPT !.pc = "write"]

InProof(p) == p.pc \in {"session", "preflight", "authorize", "step"}
InCleanup(p) == p.pc \in {"identify", "drop", "recheck"}

\* An exception: of the proof, or of its cleanup.
Fails(p, unknown) ==
  LET q == [p EXCEPT !.att.unknown = @ \/ unknown] IN
  IF InProof(p) THEN Finally([q EXCEPT !.att.proof = "failed"])
  ELSE [q EXCEPT !.pc = "write", !.left = <<>>, !.failures = FALSE,
                 !.att.cleanup = "failed"]

GoTo(p, i) ==
  IF i > Len(Script)
  THEN Finally([p EXCEPT !.att.proof = "completed"])
  ELSE [p EXCEPT !.step = i, !.todo = Sends(Script[i])]
-----------------------------------------------------------------------------
(* Starting. *)

\* Objects the job finds were made before it: older.
StartProof(j) ==
  /\ At(j, "idle") /\ commands < MaxCommands /\ events < MaxEvents
  /\ disk[j] = NoFile
  /\ Continue(j, [Idle EXCEPT !.pc = "session", !.clean = j \in WithCleanup])
  /\ object' = [n \in Name |-> IF Exists(n) THEN [object[n] EXCEPT !.older = @ \cup {j}]
                               ELSE Absent]
  /\ commands' = commands + 1 /\ events' = events + 1
  /\ UNCHANGED <<disk, orphans, harmed>>

\* A torn file cannot be read back: nothing happens.
StartCleanupOnly(j) ==
  /\ At(j, "idle") /\ commands < MaxCommands
  /\ disk[j] # Torn
  /\ LET att == IF disk[j] = NoFile THEN NewAttestation("not_started") ELSE disk[j] IN
     Continue(j, RecordCleanup([Idle EXCEPT !.only = TRUE, !.clean = TRUE, !.att = att]))
  /\ commands' = commands + 1
  /\ UNCHANGED <<object, disk, orphans, harmed, events>>

\* Without --apply the file is written all the same, and nothing else.
Preview(j) ==
  /\ At(j, "idle") /\ commands < MaxCommands
  /\ disk[j] = NoFile
  /\ \E proof \in {"planned", "not_started"}, cleanup \in {"not_requested", "planned"} :
       disk' = [disk EXCEPT ![j] = [NewAttestation(proof) EXCEPT !.cleanup = cleanup]]
  /\ commands' = commands + 1
  /\ UNCHANGED <<object, proc, orphans, harmed, events>>
-----------------------------------------------------------------------------
(* The proof. *)

Unchanged == UNCHANGED <<object, disk, orphans, harmed, counters>>

\* _verify_identity.
VerifySession(j) ==
  /\ At(j, "session")
  /\ Continue(j, [proc[j] EXCEPT !.pc = "preflight", !.left = PreflightNames])
  /\ Unchanged

\* One SHOW of _proof_inventory.  What is read after an object was found has no
\* effect and is left out.
Inspect(j, next) ==
  LET p == proc[j] IN
  /\ IF Exists(Head(p.left)) THEN Continue(j, Fails(p, FALSE))
     ELSE IF Len(p.left) = 1 THEN Continue(j, [next EXCEPT !.left = <<>>])
     ELSE Continue(j, [p EXCEPT !.left = Tail(@)])
  /\ Unchanged

Preflight(j) ==
  At(j, "preflight") /\ Inspect(j, [proc[j] EXCEPT !.pc = "authorize"])

\* Slip: the file is left to the end of the proof.
AuthorizeInMemory(j) ==
  /\ At(j, "authorize")
  /\ Continue(j, GoTo([proc[j] EXCEPT !.pc = "step", !.att.authorized = TRUE], 1))
  /\ UNCHANGED <<object, disk, orphans, harmed, counters>>

Authorize(j) ==
  /\ At(j, "authorize")
  /\ LET p == [proc[j] EXCEPT !.pc = "step", !.att.authorized = TRUE] IN
     /\ disk' = [disk EXCEPT ![j] = p.att]
     /\ Continue(j, GoTo(p, 1))
  /\ UNCHANGED <<object, orphans, harmed, counters>>

\* The next statement of the command that is running.  The command ends with
\* its last one: a failure after it is a failure before it, and an orphan.
Send(j) ==
  LET p == proc[j] IN
  /\ At(j, "step") /\ p.todo # <<>>
  /\ IF Possible(Head(p.todo))
     THEN /\ Apply(j, Head(p.todo), "no")
          /\ Continue(j, IF Len(p.todo) = 1 THEN GoTo(p, p.step + 1)
                         ELSE [p EXCEPT !.todo = Tail(@)])
     ELSE /\ Continue(j, Fails(p, FALSE))
          /\ UNCHANGED <<object, harmed>>
  /\ UNCHANGED <<disk, orphans, counters>>

\* _assert_route_state, _assert_lifecycle_state.
Postcondition(step) ==
  /\ Exists("agentA")
  /\ Len(Versions("agentA")) = step.k
  /\ Default(object["agentA"]) = step.n
  /\ object["agentA"].production = step.n

\* What a smoke test or a look at the Agents needs to find.
Holds(p, step) ==
  /\ \A a \in step.on : Exists(a) /\ step.n <= Len(Versions(a))
  /\ step.act \in {"route", "final"} => Postcondition(step)
  /\ step.act = "second" => p.seen = [a \in step.on |-> Observed(a)]

\* A step that changes nothing.  first_state is kept until second_state has
\* been compared with it.
Look(j) ==
  LET p == proc[j]
      step == Script[p.step]
  IN
  /\ At(j, "step") /\ p.todo = <<>>
  /\ Continue(j, IF Holds(p, step)
                 THEN GoTo([p EXCEPT !.seen = CASE step.act = "first" ->
                                                     [a \in step.on |-> Observed(a)]
                                                [] step.act = "second" -> <<>>
                                                [] OTHER -> @],
                           p.step + 1)
                 ELSE Fails(p, FALSE))
  /\ Unchanged
-----------------------------------------------------------------------------
(* The cleanup. *)

IdentifyForCleanup(j) ==
  /\ At(j, "identify")
  /\ Continue(j, [proc[j] EXCEPT !.pc = "drop", !.left = CleanupOrder])
  /\ Unchanged

\* After the last drop: give up when one failed, look when none did.
Dropped(p) ==
  IF Len(p.left) > 1 THEN [p EXCEPT !.left = Tail(@)]
  ELSE IF p.failures THEN Fails(p, FALSE)
  ELSE [p EXCEPT !.pc = "recheck", !.left = InventoryOrder]

DropReserved(j) ==
  LET p == proc[j] IN
  /\ At(j, "drop")
  /\ Apply(j, Drop(Head(p.left)), "no")
  /\ Continue(j, Dropped(p))
  /\ UNCHANGED <<disk, orphans, counters>>

Recheck(j) ==
  /\ At(j, "recheck")
  /\ Inspect(j, [proc[j] EXCEPT !.pc = "write", !.att.cleanup = "completed"])

WriteAttestation(j) ==
  /\ At(j, "write")
  /\ disk' = [disk EXCEPT ![j] = proc[j].att]
  /\ Continue(j, Idle)
  /\ UNCHANGED <<object, orphans, harmed, counters>>
-----------------------------------------------------------------------------
(* Faults. *)

InFlight(p) ==
  IF p.pc = "drop" THEN << Drop(Head(p.left)) >> ELSE p.todo

\* The statements that are under way, or yet to be sent, may still be executed.
Abandon(j, cause) ==
  /\ events < MaxEvents
  /\ events' = events + 1
  /\ orphans' = orphans \cup
       IF InFlight(proc[j]) = <<>> THEN {}
       ELSE {[job |-> j, todo |-> InFlight(proc[j]), cause |-> cause]}
  /\ UNCHANGED <<object, harmed, commands>>

Working(p) == (InProof(p) /\ p.pc # "authorize") \/ InCleanup(p)

\* A command ends with an error, or the session is not the expected one.  A
\* failed drop does not keep cleanup from the next one.
StatementFails(j) ==
  LET p == proc[j] IN
  /\ Working(p)
  /\ Abandon(j, "failure")
  /\ Continue(j, IF p.pc = "drop" THEN Dropped([p EXCEPT !.failures = TRUE])
                 ELSE Fails(p, FALSE))
  /\ UNCHANGED disk

\* Slip: a drop that timed out is one more failed drop.
TimeoutContinues(p) ==
  IF p.pc = "drop" THEN Dropped([p EXCEPT !.failures = TRUE, !.att.unknown = TRUE])
  ELSE Fails(p, TRUE)

TimesOut(p) == Fails(p, TRUE)

\* UnknownServerState.
StatementTimesOut(j) ==
  /\ Working(proc[j])
  /\ Abandon(j, "timeout")
  /\ Continue(j, TimesOut(proc[j]))
  /\ UNCHANGED disk

\* KeyboardInterrupt is no Exception: the proof keeps its status, and the
\* finally blocks run, except that cleanup inside a proof has none of its own.
Interrupt(j) ==
  LET p == proc[j] IN
  /\ Working(p)
  /\ Abandon(j, "kill")
  /\ Continue(j, IF InProof(p) THEN Finally(p)
                 ELSE IF p.only THEN [p EXCEPT !.pc = "write", !.left = <<>>, !.failures = FALSE]
                 ELSE Idle)
  /\ UNCHANGED disk

\* The file is opened for writing: at the authorization, after each look at the
\* routing, and at the end.
Writing(p) ==
  \/ p.pc \in {"authorize", "write"}
  \/ p.pc = "step" /\ p.todo = <<>> /\ Script[p.step].act = "route"

\* A timeout that was not written down is forgotten.
Kill(j) ==
  LET p == proc[j]
      left == IF InFlight(p) = <<>> THEN {}
              ELSE {[job |-> j, todo |-> InFlight(p), cause |-> "kill"]}
  IN
  /\ p.pc # "idle"
  /\ events < MaxEvents
  /\ events' = events + 1
  /\ orphans' = left \cup
       {IF o.job = j /\ o.cause = "timeout" /\ ~(Written(j) /\ disk[j].unknown)
        THEN [o EXCEPT !.cause = "kill"] ELSE o : o \in orphans}
  /\ disk' \in {disk} \cup IF Writing(p) THEN {[disk EXCEPT ![j] = Torn]} ELSE {}
  /\ Continue(j, Idle)
  /\ UNCHANGED <<object, harmed, commands>>

\* The server, or a dbt without a parent, gets round to a statement.
Lands(o) ==
  LET rest == Tail(o.todo) IN
  /\ orphans' = (orphans \ {o}) \cup
       IF rest = <<>> \/ ~Possible(Head(o.todo)) THEN {} ELSE {[o EXCEPT !.todo = rest]}
  /\ IF Possible(Head(o.todo)) THEN Apply(o.job, Head(o.todo), o.cause)
     ELSE UNCHANGED <<object, harmed>>
  /\ UNCHANGED <<disk, proc, counters>>

\* Somebody else takes a reserved name, or gives one up.
CreateForeign(n) ==
  /\ ~Exists(n) /\ events < MaxEvents
  /\ events' = events + 1
  /\ object' = [object EXCEPT ![n] = Fresh(Others, Effect("create", n, 1), "no")]
  /\ UNCHANGED <<disk, proc, orphans, harmed, commands>>

DropForeign(n) ==
  /\ Exists(n) /\ object[n].by = Others
  /\ object' = [object EXCEPT ![n] = Absent]
  /\ UNCHANGED <<disk, proc, orphans, harmed, counters>>
-----------------------------------------------------------------------------
Init ==
  /\ object = [n \in Name |-> Absent]
  /\ disk = [j \in Job |-> NoFile]
  /\ proc = [j \in Job |-> Idle]
  /\ orphans = {}
  /\ harmed = {}
  /\ commands = 0 /\ events = 0

ProofStep(j) ==
  \/ VerifySession(j) \/ Preflight(j) \/ Authorize(j) \/ Send(j) \/ Look(j)
CleanupStep(j) ==
  \/ IdentifyForCleanup(j) \/ DropReserved(j) \/ Recheck(j) \/ WriteAttestation(j)
Fault(j) == StatementFails(j) \/ StatementTimesOut(j) \/ Interrupt(j) \/ Kill(j)

Next ==
  \/ \E j \in Job : \/ StartProof(j) \/ StartCleanupOnly(j) \/ Preview(j)
                    \/ ProofStep(j) \/ CleanupStep(j) \/ Fault(j)
  \/ \E o \in orphans : Lands(o)
  \/ \E n \in Name : CreateForeign(n) \/ DropForeign(n)

Spec == Init /\ [][Next]_vars
-----------------------------------------------------------------------------
(* Properties. *)

Attestation ==
  [proof : {"planned", "not_started", "completed", "failed"},
   cleanup : {"not_requested", "not_authorized", "planned", "completed", "failed"},
   authorized : BOOLEAN, unknown : BOOLEAN]

Object ==
  [by : Job \cup {Others}, older : SUBSET Job, late : {"no", "failure", "timeout", "kill"},
   versions : Seq(0..2), default : 0..2, production : 0..2]

TypeOK ==
  /\ \A n \in Name : object[n] = Absent \/ object[n] \in Object
  /\ \A j \in Job : disk[j] \in Attestation \cup {NoFile, Torn}
  /\ \A j \in Job : /\ proc[j].att \in Attestation
                    /\ At(j, "step") => proc[j].step \in DOMAIN Script
                    /\ InCleanup(proc[j]) => proc[j].att.authorized
  /\ \A o \in orphans : o.todo # <<>>

\* Nothing that existed when a proof began is ever dropped or replaced on its
\* behalf: not by its commands, not by a cleanup that other jobs and people have
\* overtaken, and not by a statement that outlived its process.
DropsNothingOlder == \A h \in harmed : h.job \notin h.older

\* A completed proof has retired its Agents.  A completed cleanup means that
\* nothing the job made is left, and nothing will come: only a statement whose
\* command failed or was killed can still surprise it, a timed-out one cannot.
CompletedLeavesNothing ==
  \A j \in Job, n \in Name :
    Written(j) /\ Exists(n) /\ object[n].by = j =>
      /\ disk[j].proof = "completed" => n \notin Agent
      /\ disk[j].cleanup = "completed" => object[n].late \in {"failure", "kill"}

\* Whatever a job made, its file lets a later --cleanup-only drop it, wherever
\* the proof was killed, unless the file itself was torn.
MutationsAreAuthorized ==
  \A j \in Job, n \in Name :
    Exists(n) /\ object[n].by = j => disk[j] = Torn \/ (Written(j) /\ disk[j].authorized)

Unknown(j) == proc[j].att.unknown \/ (Written(j) /\ disk[j].unknown)

\* Once a job knows that the state of the server is unknown, no process of it
\* changes an object any more: neither the rest of a cleanup nor a later one.
UnknownFreezes ==
  [][\A j \in Job : Unknown(j) /\ proc'[j] # proc[j] => object' = object]_vars
=============================================================================
