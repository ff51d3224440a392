------------------------------- MODULE EvalRun -------------------------------
(***************************************************************************)
(* run_evaluation: a client starts a paid native evaluation of an Agent,   *)
(* polls it, retries it, fetches its rows, and writes a candidate.  While  *)
(* it does so, for minutes, other people commit versions, move DEFAULT and *)
(* rebuild the dataset table, and another client may use the same run name *)
(* (names carry the agent, the suite and the second, not the version).     *)
(* One action is one statement of the client, or one step of the service.  *)
(*                                                                         *)
(* The dataset table is a generation number: two generations differ in the *)
(* (input, test type, reference) mapping a snapshot compares.  A rebuild   *)
(* that yields the same mapping is no step, and one that returns to an     *)
(* earlier mapping is outside the promise (docs/guides/evaluations.md:236) *)
(* and outside the model.                                                  *)
(***************************************************************************)
EXTENDS Integers, FiniteSets

CONSTANTS
  Client,         \* processes that run evaluations
  BaseName,       \* run names given or generated
  Request,        \* what --version may ask for, Unpinned without it
  FirstVersions,  \* how many versions the Agent may have at first
  MaxVersion,     \* bound: committed versions
  MaxSource,      \* bound: dataset generations
  Malformed,      \* generations that are no valid mapping
  Retries,        \* --transient-retries
  PollAttempts,   \* --poll-attempts
  MaxEvaluations, \* bound: evaluations started in a behaviour
  TraceLag,       \* TRUE: run traces may be read before they are complete
  Rollbacks       \* TRUE: DEFAULT may move to an older version

\* The value of a request without --version, and the trace name of LIVE.
Unpinned == 0
Live == 0
NotIngested == -1

Version == 1..MaxVersion
RunId == BaseName \X (0..Retries)

ASSUME BoundsArePositive ==
  /\ MaxVersion \in Nat \ {0} /\ FirstVersions \subseteq Version /\ MaxSource \in Nat
  /\ Retries \in Nat /\ PollAttempts \in Nat \ {0} /\ MaxEvaluations \in Nat
ASSUME RequestIsVersion == Request \subseteq Version \cup {Unpinned}
ASSUME MalformedIsGeneration == Malformed \subseteq 0..MaxSource
ASSUME SwitchesAreBoolean == TraceLag \in BOOLEAN /\ Rollbacks \in BOOLEAN

VARIABLES
  (* what other people change *)
  committed,   \* the Agent has VERSION$1 .. VERSION$committed
  default,     \* the version DEFAULT resolves to
  source,      \* the generation of the dataset table
  (* the service *)
  staged,      \* the version each staged config file asks for
  native,      \* the native runs by name
  (* the clients and what they leave on disk *)
  ev,          \* the evaluation each client is executing
  candidates,  \* candidate artifacts
  diagnostics, \* the runs a diagnostic artifact was written for
  issued       \* evaluations started so far

agentVars == <<committed, default, source>>
serviceVars == <<staged, native>>
diskVars == <<candidates, diagnostics>>
vars == <<agentVars, serviceVars, ev, diskVars, issued>>
-----------------------------------------------------------------------------
(* The state of a native run, of an evaluation, and of an artifact. *)

\* traced: the versions in the spans under this run name, whoever started it.
NoRun == [status |-> "absent", requested |-> Unpinned, ingested |-> NotIngested,
          invoked |-> {}, traced |-> {}, complete |-> FALSE, transient |-> FALSE]

NoRows == [of |-> -1, by |-> {}, from |-> NotIngested, complete |-> FALSE]

Idle == [pc |-> "idle", base |-> "", request |-> Unpinned, retry |-> 0, polls |-> 0,
         initial |-> 0, snapshot |-> 0, pre |-> 0, post |-> 0, seen |-> {},
         status |-> "unstarted", observed |-> "absent", transient |-> FALSE,
         rows |-> NoRows, changed |-> FALSE]

At(c, step) == ev[c].pc = step
Run(c) == <<ev[c].base, ev[c].retry>>
Goto(c, step) == [ev[c] EXCEPT !.pc = step]
Continue(c, e) == ev' = [ev EXCEPT ![c] = e]

\* The evaluation ends, with or without an artifact.
End(c) == ev' = [ev EXCEPT ![c] = Idle]

\* A client's own step leaves the Agent and the dataset alone.
ReadOnly == UNCHANGED <<agentVars, serviceVars, diskVars, issued>>

Refuse(c) == End(c) /\ ReadOnly
-----------------------------------------------------------------------------
(* run_evaluation, up to START. *)

StartEvaluation(c) ==
  /\ At(c, "idle")
  /\ issued < MaxEvaluations
  /\ issued' = issued + 1
  /\ \E b \in BaseName, r \in Request :
       Continue(c, [Idle EXCEPT !.pc = "initial", !.base = b, !.request = r])
  /\ UNCHANGED <<agentVars, serviceVars, diskVars>>

InitialProvenance(c) ==
  /\ At(c, "initial")
  /\ Continue(c, [Goto(c, "validate") EXCEPT !.initial = default])
  /\ ReadOnly

ValidateTable(c) ==
  /\ At(c, "validate")
  /\ \/ source \in Malformed /\ Refuse(c)
     \/ /\ source \notin Malformed
        /\ Continue(c, [Goto(c, "upload") EXCEPT !.snapshot = source])
        /\ ReadOnly

\* The config file is named after the run and overwrites the one that is there.
UploadConfig(c) ==
  /\ At(c, "upload")
  /\ staged' = [staged EXCEPT ![Run(c)] = ev[c].request]
  /\ Continue(c, Goto(c, "preStart"))
  /\ UNCHANGED <<agentVars, native, diskVars, issued>>

\* DESCRIBE AGENT, and SHOW VERSIONS for a pinned run: versions never go away,
\* so the two reads are one.
PreStartProvenance(c) ==
  /\ At(c, "preStart")
  /\ \/ ev[c].request # Unpinned /\ ev[c].request > committed /\ Refuse(c)
     \/ ev[c].request = Unpinned /\ default # ev[c].initial /\ Refuse(c)
     \/ /\ IF ev[c].request # Unpinned THEN ev[c].request <= committed
                                       ELSE default = ev[c].initial
        /\ Continue(c, [Goto(c, "recheck") EXCEPT !.pre = default])
        /\ ReadOnly

RecheckSource(c) ==
  /\ At(c, "recheck")
  /\ \/ source # ev[c].snapshot /\ Refuse(c)
     \/ /\ source = ev[c].snapshot
        /\ Continue(c, Goto(c, "start"))
        /\ ReadOnly

\* A run of this name may exist.  The service then refuses, or starts afresh
\* with the spans of the earlier run still recorded under the name.
StartRun(c) ==
  /\ At(c, "start")
  /\ \/ native[Run(c)].status # "absent" /\ Refuse(c)
     \/ /\ native' = [native EXCEPT ![Run(c)] =
                        [NoRun EXCEPT !.status = "running",
                                      !.requested = staged[Run(c)],
                                      !.traced = native[Run(c)].traced]]
        /\ Continue(c, [Goto(c, "poll") EXCEPT !.polls = 0, !.status = "unstarted",
                                               !.observed = "absent",
                                               !.transient = FALSE])
        /\ UNCHANGED <<agentVars, staged, diskVars, issued>>
-----------------------------------------------------------------------------
(* poll, _fetch_rows, and the decision to retry. *)

\* What polling makes of the last status: rows are worth reading after success
\* or after a partial completion.
Polled(c, status, observed, transient) ==
  [Goto(c, IF status = "completed" \/ observed = "partial" THEN "fetch" ELSE "drift")
     EXCEPT !.status = status, !.observed = observed, !.transient = transient]

\* STATUS may return no row.
StatusRow(c) == {native[Run(c)].status, "absent"}

\* Slip: one attempt too many.
LastPollOneMore(e) == e.polls = PollAttempts

LastPoll(e) == e.polls + 1 = PollAttempts

\* Slip: an answer that is not terminal does not use up an attempt.
PollAgainForever(c, observed) == [ev[c] EXCEPT !.observed = observed]

PollAgain(c, observed) == [ev[c] EXCEPT !.polls = @ + 1, !.observed = observed]

\* Slip: the details of the last answer are kept, and may read "timed out".
TimeoutKeepsDetails(c, observed) == Polled(c, "timeout", observed, TRUE)

Timeout(c, observed) == Polled(c, "timeout", observed, FALSE)

Poll(c) ==
  /\ At(c, "poll")
  /\ \E answer \in StatusRow(c) :
       LET observed == IF answer = "absent" THEN ev[c].observed ELSE answer
           terminal == answer \in {"completed", "failed"}
       IN
       \/ /\ terminal
          /\ Continue(c, Polled(c, answer, answer, native[Run(c)].transient))
       \/ ~terminal /\ ~LastPoll(ev[c]) /\ Continue(c, PollAgain(c, observed))
       \/ ~terminal /\ LastPoll(ev[c]) /\ Continue(c, Timeout(c, observed))
  /\ ReadOnly

\* Slip: rows that were complete once are not read again.
RowsReadOnce(c, complete) ==
  IF ev[c].rows.complete THEN ev[c].rows
  ELSE [of |-> ev[c].retry, by |-> native[Run(c)].invoked,
        from |-> native[Run(c)].ingested, complete |-> complete]

Rows(c, complete) ==
  [of |-> ev[c].retry, by |-> native[Run(c)].invoked, from |-> native[Run(c)].ingested,
   complete |-> complete]

\* Completeness is judged on what the reads return, which may be less than the
\* service has; a row whose input is not in the snapshot is an error.
FetchRows(c) ==
  /\ At(c, "fetch")
  /\ \/ native[Run(c)].ingested # ev[c].snapshot /\ Refuse(c)
     \/ /\ \E complete \in {FALSE, native[Run(c)].complete} :
             LET rows == Rows(c, complete) IN
             Continue(c, [Goto(c, "drift") EXCEPT
               !.rows = rows,
               !.status = IF @ = "completed" /\ ~rows.complete THEN "incomplete" ELSE @])
        /\ ReadOnly

Succeeded(e) == e.status = "completed"

Retryable(e) == e.observed = "partial" \/ e.status = "incomplete" \/ e.transient

\* Slip: drift is looked at before a retry and not recorded with the rows.
SourceChangedBeforeRetry(e) == ~Succeeded(e) /\ source # e.snapshot

SourceChanged(e) == source # e.snapshot

\* After every attempt: go on with the rows, give up, or try again under the
\* next name.
CheckSourceDrift(c) ==
  LET e == [ev[c] EXCEPT !.changed = SourceChanged(ev[c])] IN
  /\ At(c, "drift")
  /\ \/ /\ Succeeded(e)
        /\ Continue(c, [e EXCEPT !.pc = "post"])
     \/ /\ ~Succeeded(e) /\ (e.changed \/ ~Retryable(e) \/ e.retry = Retries)
        /\ Continue(c, [e EXCEPT !.pc = "diagnose",
                                 !.status = IF e.changed THEN "sourceChanged" ELSE @])
     \/ /\ ~Succeeded(e) /\ ~e.changed /\ Retryable(e) /\ e.retry < Retries
        /\ Continue(c, [e EXCEPT !.pc = "upload", !.retry = @ + 1])
  /\ ReadOnly
-----------------------------------------------------------------------------
(* The artifacts. *)

WriteDiagnostic(c) ==
  /\ At(c, "diagnose")
  /\ \/ Run(c) \in diagnostics /\ Refuse(c)
     \/ /\ Run(c) \notin diagnostics
        /\ diagnostics' = diagnostics \cup {Run(c)}
        /\ End(c)
        /\ UNCHANGED <<agentVars, serviceVars, candidates, issued>>

PostCompletion(c) ==
  /\ At(c, "post")
  /\ Continue(c, [Goto(c, "observe") EXCEPT !.post = default])
  /\ ReadOnly

\* _observed_run: the versions in the spans recorded under the run name.
ObserveRun(c) ==
  LET traced == native[Run(c)].traced IN
  /\ At(c, "observe")
  /\ \E seen \in IF TraceLag THEN SUBSET traced ELSE {traced} :
       Continue(c, [Goto(c, "check") EXCEPT !.seen = seen])
  /\ ReadOnly

Intended(e) == IF e.request # Unpinned THEN e.request ELSE e.pre

\* Slip: a pinned run is taken to have scored what its config asked for.
VersionMismatchUnpinned(e) == e.request = Unpinned /\ e.seen # {Intended(e)}

\* None observed, several, or another one: the result is indeterminate.
VersionMismatch(e) == e.seen # {Intended(e)}

\* Slip: DEFAULT at START is compared with DEFAULT before the snapshot.
DefaultDriftBeforeStart(e) == e.request = Unpinned /\ e.initial # e.pre

DefaultDrift(e) == e.request = Unpinned /\ e.pre # e.post

\* good: the scores meet the thresholds and the question floors.
BuildCandidate(c, good) ==
  LET e == ev[c] IN
  [run |-> Run(c), intended |-> Intended(e), rows |-> e.rows, snapshot |-> e.snapshot,
   passed |-> good /\ ~e.changed /\ ~DefaultDrift(e) /\ ~VersionMismatch(e)]

HasCandidate(run) == \E a \in candidates : a.run = run

\* Slip: the artifact of an earlier run of this name is replaced.
CheckCandidateOverwrites(c) ==
  /\ At(c, "check")
  /\ Continue(c, Goto(c, "write"))
  /\ ReadOnly

CheckCandidate(c) ==
  /\ At(c, "check")
  /\ \/ HasCandidate(Run(c)) /\ Refuse(c)
     \/ /\ ~HasCandidate(Run(c))
        /\ Continue(c, Goto(c, "write"))
        /\ ReadOnly

WriteCandidate(c) ==
  /\ At(c, "write")
  /\ \E good \in BOOLEAN :
       candidates' = {a \in candidates : a.run # Run(c)} \cup {BuildCandidate(c, good)}
  /\ End(c)
  /\ UNCHANGED <<agentVars, serviceVars, diagnostics, issued>>

\* A statement fails, or the process is killed.
Stop(c) ==
  /\ ~At(c, "idle")
  /\ Refuse(c)
-----------------------------------------------------------------------------
(* The service executes a run.  Every part of this is external to the package. *)

NativeStep(id, run) ==
  /\ native' = [native EXCEPT ![id] = run]
  /\ UNCHANGED <<agentVars, staged, ev, diskVars, issued>>

\* START has the dataset ingested some time later.
Ingest(id) ==
  /\ native[id].status = "running" /\ native[id].ingested = NotIngested
  /\ NativeStep(id, [native[id] EXCEPT !.ingested = source])

\* An unversioned request reaches LIVE while the Agent has one version, DEFAULT
\* after that, at the moment of each invocation.
Invoke(id) ==
  LET version == IF native[id].requested # Unpinned THEN native[id].requested
                 ELSE IF committed = 1 THEN Live ELSE default
  IN
  /\ native[id].status = "running" /\ native[id].ingested # NotIngested
  /\ version \notin native[id].invoked
  /\ NativeStep(id, [native[id] EXCEPT !.invoked = @ \cup {version},
                                       !.traced = @ \cup {version}])

\* Invocations end, all of them or some; scores may stay incomplete.
EndInvocations(id) ==
  /\ native[id].status = "running" /\ native[id].invoked # {}
  /\ \E status \in {"partial", "completed"}, complete \in BOOLEAN :
       NativeStep(id, [native[id] EXCEPT !.status = status, !.complete = complete])

CompletePartial(id) ==
  /\ native[id].status = "partial"
  /\ NativeStep(id, [native[id] EXCEPT !.status = "completed"])

FailRun(id) ==
  /\ native[id].status \in {"running", "partial"}
  /\ \E transient \in BOOLEAN :
       NativeStep(id, [native[id] EXCEPT !.status = "failed", !.transient = transient])

Service ==
  \E id \in RunId : \/ Ingest(id) \/ Invoke(id) \/ EndInvocations(id)
                    \/ CompletePartial(id) \/ FailRun(id)
-----------------------------------------------------------------------------
(* Other people. *)

\* A deploy commits a version; DEFAULT follows unless it is pinned.
CommitVersion ==
  /\ committed < MaxVersion
  /\ committed' = committed + 1
  /\ default' \in {default, committed'}
  /\ UNCHANGED <<source, serviceVars, ev, diskVars, issued>>

MoveDefault ==
  /\ default' \in 1..committed
  /\ default' # default
  /\ Rollbacks \/ default' > default
  /\ UNCHANGED <<committed, source, serviceVars, ev, diskVars, issued>>

RebuildSource ==
  /\ source < MaxSource
  /\ source' = source + 1
  /\ UNCHANGED <<committed, default, serviceVars, ev, diskVars, issued>>

Others == CommitVersion \/ MoveDefault \/ RebuildSource
-----------------------------------------------------------------------------
ClientStep(c) ==
  \/ InitialProvenance(c) \/ ValidateTable(c) \/ UploadConfig(c)
  \/ PreStartProvenance(c) \/ RecheckSource(c) \/ StartRun(c)
  \/ Poll(c) \/ FetchRows(c) \/ CheckSourceDrift(c) \/ WriteDiagnostic(c)
  \/ PostCompletion(c) \/ ObserveRun(c) \/ CheckCandidate(c) \/ WriteCandidate(c)

\* Nobody evaluates any more.
Rest ==
  /\ issued = MaxEvaluations
  /\ \A c \in Client : At(c, "idle")
  /\ UNCHANGED vars

Init ==
  /\ committed \in FirstVersions
  /\ default \in 1..committed
  /\ source = 0
  /\ staged = [id \in RunId |-> Unpinned]
  /\ native = [id \in RunId |-> NoRun]
  /\ ev = [c \in Client |-> Idle]
  /\ candidates = {}
  /\ diagnostics = {}
  /\ issued = 0

Next ==
  \/ \E c \in Client : StartEvaluation(c) \/ ClientStep(c) \/ Stop(c)
  \/ Service
  \/ Others
  \/ Rest

Spec == Init /\ [][Next]_vars

\* A client that is running goes on; the service owes it nothing.
FairSpec == Spec /\ \A c \in Client : WF_vars(ClientStep(c))
-----------------------------------------------------------------------------
(* Properties. *)

Step == {"initial", "validate", "upload", "preStart", "recheck", "start", "poll",
         "fetch", "drift", "diagnose", "post", "observe", "check", "write"}

Outcome == {"completed", "failed", "timeout", "incomplete", "sourceChanged"}
RunStatus == {"absent", "running", "partial", "completed", "failed"}
Seen == Version \cup {Live}
Generation == 0..MaxSource

RunType ==
  [status : RunStatus, requested : Request \cup {Unpinned},
   ingested : Generation \cup {NotIngested}, invoked : SUBSET Seen,
   traced : SUBSET Seen, complete : BOOLEAN, transient : BOOLEAN]

RowsType ==
  [of : (0..Retries) \cup {-1}, by : SUBSET Seen, from : Generation \cup {NotIngested},
   complete : BOOLEAN]

EvalType ==
  [pc : Step \cup {"idle"}, base : BaseName \cup {""}, request : Request \cup {Unpinned},
   retry : 0..Retries, polls : 0..PollAttempts - 1, initial : Version \cup {0},
   snapshot : Generation, pre : Version \cup {0}, post : Version \cup {0},
   seen : SUBSET Seen, status : Outcome \cup {"unstarted"}, observed : RunStatus,
   transient : BOOLEAN, rows : RowsType, changed : BOOLEAN]

CandidateType ==
  [run : RunId, intended : Version \cup {0}, rows : RowsType, snapshot : Generation,
   passed : BOOLEAN]

\* Every variable has its type, and a client that is not idle evaluates under a
\* base name.
TypeOK ==
  /\ committed \in Version /\ default \in Version /\ source \in Generation
  /\ staged \in [RunId -> Request \cup {Unpinned}]
  /\ native \in [RunId -> RunType]
  /\ ev \in [Client -> EvalType]
  /\ \A c \in Client : ~At(c, "idle") => ev[c].base \in BaseName
  /\ candidates \subseteq CandidateType
  /\ diagnostics \subseteq RunId
  /\ issued \in 0..MaxEvaluations

\* A candidate that passes was scored on the version it stands for and on no
\* other, although DEFAULT moved during the run, another client overwrote the
\* staged config, or took over the run name.
PassedMeasuredIntended ==
  \A a \in candidates : a.passed => a.rows.by = {a.intended}

\* A candidate that passes was scored on the dataset its snapshot describes,
\* although the table was rebuilt before, between or after the retries.
PassedOnSnapshot ==
  \A a \in candidates : a.passed => a.rows.from = a.snapshot

\* The rows of a candidate are complete and come from the run it is named
\* after, not from an earlier attempt that completed in part.
RowsOfNamedRun ==
  \A a \in candidates : a.rows.complete /\ a.rows.of = a.run[2]

\* An evaluation does not pay for a second run while the first still invokes
\* the Agent: what it gave up waiting for it does not retry.
NoRunAbandoned ==
  \A c \in Client : ~At(c, "idle") =>
    \A r \in 0..ev[c].retry - 1 : native[<<ev[c].base, r>>].status # "running"

\* Evidence is not overwritten, by a retry, by a later evaluation under the same
\* name, or by the same evaluation after a crash.
EvidenceKept ==
  [][candidates \subseteq candidates' /\ diagnostics \subseteq diagnostics']_vars

\* Every evaluation comes to an end, also when the service never answers with
\* a terminal status.
EvaluationsEnd == \A c \in Client : []<>At(c, "idle")
=============================================================================
