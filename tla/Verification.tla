---------------------------- MODULE Verification ----------------------------
(***************************************************************************)
(* eval verify, eval run and eval accept-baseline over one project and one *)
(* artifact directory.  A verify previews its suites and then takes them   *)
(* one by one: build the model, render the plan again, evaluate for        *)
(* minutes, load the candidate, gate it against the baseline that is there *)
(* by then.  Meanwhile the project is edited, baselines are accepted or go *)
(* away with a checkout, judges roll forward, and an eval run may write    *)
(* under the same run name.                                                *)
(*                                                                         *)
(* A policy is what a suite signs: thresholds, tolerances and question     *)
(* floors.  A plan is its policy: the signature and the identity change    *)
(* with it.  A score stands for the average of a metric.  How one          *)
(* evaluation goes about its work is the subject of EvalRun.               *)
(***************************************************************************)
EXTENDS Integers, FiniteSets

CONSTANTS
  Verifier, Runner, Accepter, \* processes
  Suite,            \* numbers, in the order of the sorted selections
  RunName,
  Metric,
  OptionalMetric,   \* the tool metrics: no score when no question is in scope
  MaxScore,
  Outcome,          \* what an evaluation of each suite may come back with
  Policies,         \* what each suite may sign
  DefaultTolerance, \* 0.01
  Judges,           \* bound: the judges that metrics resolve to in turn
  Requests,         \* what --version may ask for, 0 without it
  MaxVerifies,      \* bound: verify commands
  MaxEvents         \* bound: all that others do, together

Score == 0..MaxScore
PartialScores == UNION {[M -> Score] : M \in SUBSET Metric}

ASSUME SuitesAreNumbers == Suite \subseteq Nat \ {0} /\ IsFiniteSet(Suite)
ASSUME OptionalIsMetric == OptionalMetric \subseteq Metric
ASSUME ScoresAreNatural == MaxScore \in Nat /\ DefaultTolerance \in Nat
ASSUME PolicyType ==
  Policies \in [Suite -> SUBSET [thresholds : PartialScores, tolerances : PartialScores,
                                 floors : BOOLEAN]]
\* validate_observations: every metric is scored, but for the optional ones.
Complete(o) == Metric \ OptionalMetric \subseteq DOMAIN o.scores

ASSUME OutcomeType ==
  \A s \in Suite :
    /\ Outcome[s] \subseteq [scores : PartialScores, floorsMet : BOOLEAN,
                             status : {"completed", "indeterminate"}]
    /\ \A o \in Outcome[s] : Complete(o)
ASSUME RequestsExist == Requests # {}
ASSUME BoundsAreNatural == MaxVerifies \in Nat /\ MaxEvents \in Nat /\ Judges \in Nat

\* The plans that _plan_from_payload lets through.
Policy == UNION {Policies[s] : s \in Suite}

NoFile == [status |-> "no file"]
Torn == [status |-> "torn"]

VARIABLES
  project,    \* the policy of each suite in the working tree
  judge,      \* the judge in use
  files,      \* candidate artifacts, by suite and run name
  baseline,   \* the baseline file of each suite
  verify, run, accept, \* the processes
  bounds      \* what may still happen

world == <<project, judge>>
disk == <<files, baseline>>
vars == <<world, disk, verify, run, accept, bounds>>
-----------------------------------------------------------------------------
(* Artifacts and what a gate makes of them. *)

\* Per metric, the judges that scored it: two, when a default rolled under the run.
Scorings == [Metric -> SUBSET (0..Judges)]

\* observed_metric_judges: per metric the judge that the trace shows, or none where
\* its spans had not arrived.  Artifacts from before judges were observed have no
\* such field, here the function without a domain.
Records(scoring) ==
  {f \in [Metric -> SUBSET (0..Judges)] :
     \A m \in Metric : f[m] = {} \/ \E j \in scoring[m] : f[m] = {j}}

NoField == [m \in {} |-> {}]

\* `scoredBy` is what is true of the scores; no file says so and no gate reads it.
Candidates ==
  {c \in [suite : Suite, policy : Policy, requested : Requests,
          scoredBy : Scorings, judges : Scorings \cup {NoField},
          scores : PartialScores, floorsMet : BOOLEAN,
          status : {"completed", "indeterminate"}, passed : BOOLEAN] :
     c.judges = NoField \/ c.judges \in Records(c.scoredBy)}

Readable(file) == file \notin {NoFile, Torn}

\* threshold_failures
MeetsThresholds(a) ==
  \A m \in DOMAIN a.policy.thresholds :
    m \in DOMAIN a.scores /\ a.scores[m] >= a.policy.thresholds[m]

\* question_failures: a v3 artifact keeps its rows, so floors can be replayed.
MeetsFloors(a) == a.policy.floors => a.floorsMet

ScoresTolerances(a) == DOMAIN a.policy.tolerances \subseteq DOMAIN a.scores

\* eligibility_failures
Eligible(a) ==
  /\ a.status = "completed" /\ a.passed
  /\ MeetsThresholds(a) /\ MeetsFloors(a) /\ ScoresTolerances(a)

Gated(p) == DOMAIN p.thresholds \cup DOMAIN p.tolerances

Tolerance(p, m) == IF m \in DOMAIN p.tolerances THEN p.tolerances[m] ELSE DefaultTolerance

\* Slip: selectors are compared as declared, which the signature covers anyway.
DeclaredJudgesChanged(b, c) == FALSE

\* _judges_changed: the records decide where both have the field, and two judges
\* that were not seen are equal.  Otherwise the declared selectors do, which the
\* signature, and so the policy, covers.
JudgesChanged(b, c) == NoField \notin {b.judges, c.judges} /\ b.judges # c.judges

\* suite_change
Comparable(b, c) == b.policy = c.policy /\ ~JudgesChanged(b, c)

\* A gated metric that is no longer scored has regressed too.
Regressed(b, c, m) ==
  /\ m \in DOMAIN b.scores
  /\ m \in DOMAIN c.scores => c.scores[m] - b.scores[m] < -Tolerance(b.policy, m)

\* compare_results
Compare(b, c) ==
  /\ Comparable(b, c)
  /\ \A m \in Gated(b.policy) : ~Regressed(b, c, m)
  /\ Eligible(b) /\ Eligible(c)

\* build_candidate: every failure makes passed false.
Candidate(s, p, requested, scoring, judges, o) ==
  LET scored == [suite |-> s, policy |-> p, requested |-> requested,
                 scoredBy |-> scoring, judges |-> judges, scores |-> o.scores,
                 floorsMet |-> p.floors => o.floorsMet, status |-> o.status,
                 passed |-> o.status = "completed"]
  IN [scored EXCEPT !.passed = Eligible(scored)]

\* Each metric was scored by judges in use since the evaluation began.
ScoringsSince(since) == [Metric -> (SUBSET (since..judge)) \ {{}}]

\* An evaluation of suite s under policy p, and what _observed_run saw of it.
Evaluations(s, p, requested, since) ==
  UNION {{Candidate(s, p, requested, scoring, judges, o) :
            judges \in Records(scoring), o \in Outcome[s]} :
         scoring \in ScoringsSince(since)}
-----------------------------------------------------------------------------
(* eval verify. *)

NotRun == [execution |-> "not_run", gate |-> "not_run", passed |-> "null",
           candidate |-> NoFile, against |-> NoFile, absent |-> FALSE]

NoVerify ==
  [pc |-> "idle", selected |-> {}, requested |-> 0, apply |-> FALSE, plan |-> <<>>,
   at |-> 0, current |-> [floors |-> FALSE], since |-> 0, name |-> "", candidate |-> NoFile,
   found |-> FALSE, absent |-> FALSE, paid |-> {}, results |-> <<>>, outcome |-> "none"]

At(v, step) == verify[v].pc = step
Spend(bound) == bounds[bound] > 0 /\ bounds' = [bounds EXCEPT ![bound] = @ - 1]

Step(v, record) == verify' = [verify EXCEPT ![v] = record]
Goto(v, step) == Step(v, [verify[v] EXCEPT !.pc = step])
First(S) == CHOOSE s \in S : \A t \in S : s <= t

\* What is left of a command is its report; `paid` is what it spent money on.
End(v, outcome) ==
  [NoVerify EXCEPT !.pc = "ended", !.outcome = outcome,
     !.selected = verify[v].selected, !.requested = verify[v].requested,
     !.plan = verify[v].plan, !.paid = verify[v].paid, !.results = verify[v].results]

\* An error before the loop: no report is printed.
Refuse(v) == Step(v, End(v, "refused"))

StartVerify(v) ==
  /\ verify[v].pc \in {"idle", "ended"}
  /\ Spend("verifies")
  /\ \E S \in (SUBSET Suite) \ {{}}, r \in Requests, apply \in BOOLEAN :
       Step(v, [NoVerify EXCEPT !.pc = "plan", !.selected = S, !.requested = r,
                                !.apply = apply, !.at = First(S)])
  /\ UNCHANGED <<world, disk, run, accept>>

\* The suites that come after the current one.
Later(v) == {s \in verify[v].selected : s > verify[v].at}

\* build_plan: dbt renders the plan from the working tree as it is now.
Rendered(s) == project[s]

\* build_verify_selections takes one suite after another.
PlanSuite(v) ==
  /\ At(v, "plan")
  /\ \/ Refuse(v)
     \/ LET planned == [s \in DOMAIN verify[v].plan \cup {verify[v].at} |->
                          IF s = verify[v].at THEN Rendered(s) ELSE verify[v].plan[s]]
        IN Step(v, [verify[v] EXCEPT
                      !.plan = planned,
                      !.pc = IF Later(v) = {} THEN "authorize" ELSE "plan",
                      !.at = IF Later(v) = {} THEN First(verify[v].selected)
                                              ELSE First(Later(v))])
  /\ UNCHANGED <<world, disk, run, accept, bounds>>

\* Without --apply the plan is the report.
Authorize(v) ==
  /\ At(v, "authorize")
  /\ \/ ~verify[v].apply /\ Step(v, End(v, "planned"))
     \/ verify[v].apply /\ Refuse(v)
     \/ verify[v].apply /\ Goto(v, "build")
  /\ UNCHANGED <<world, disk, run, accept, bounds>>

\* The report so far, with the result of the current suite.
ResultsUpTo(v, result) ==
  [s \in DOMAIN verify[v].results \cup {verify[v].at} |->
     IF s = verify[v].at THEN result ELSE verify[v].results[s]]

\* The report after a controlled error: suites after the failed one are not run.
ResultsAfter(v, result) ==
  [s \in DOMAIN verify[v].results \cup {verify[v].at} \cup Later(v) |->
     IF s = verify[v].at THEN result
     ELSE IF s \in Later(v) THEN NotRun ELSE verify[v].results[s]]

Fail(v, execution, gate, candidate) ==
  Step(v, [End(v, "infrastructure_failed") EXCEPT
             !.results = ResultsAfter(v, [NotRun EXCEPT !.execution = execution, !.gate = gate,
                                                        !.candidate = candidate])])

FailBefore(v) == Fail(v, "failed", "not_run", NoFile)

\* The signature and the identity are those of the preview.
PlanUnchanged(v) == Rendered(verify[v].at) = verify[v].plan[verify[v].at]

\* run_dbt_build and render_plan: the build itself changes nothing here.
\* What is evaluated is the plan rendered now; the preview stays what it was.
BuildAndRender(v) ==
  /\ At(v, "build")
  /\ \/ FailBefore(v)
     \/ ~PlanUnchanged(v) /\ FailBefore(v)
     \/ /\ PlanUnchanged(v)
        /\ Step(v, [verify[v] EXCEPT !.pc = "evaluate", !.since = judge,
                                     !.current = Rendered(verify[v].at)])
  /\ UNCHANGED <<world, disk, run, accept, bounds>>

\* run_evaluation, to the check that no candidate has the name.
Evaluate(v) ==
  LET s == verify[v].at IN
  /\ At(v, "evaluate")
  /\ \/ FailBefore(v)
     \/ \E n \in RunName, c \in Evaluations(s, verify[v].current, verify[v].requested,
                                           verify[v].since) :
          /\ files[s][n] = NoFile
          /\ Step(v, [verify[v] EXCEPT !.pc = "write", !.since = 0, !.name = n,
                                       !.candidate = c])
  /\ UNCHANGED <<world, disk, run, accept, bounds>>

Put(s, n, artifact) == files' = [files EXCEPT ![s][n] = artifact]

WriteCandidate(v) ==
  /\ At(v, "write")
  /\ Put(verify[v].at, verify[v].name, verify[v].candidate)
  /\ Step(v, [verify[v] EXCEPT !.pc = "load", !.paid = @ \cup {verify[v].at}])
  /\ UNCHANGED <<world, baseline, run, accept, bounds>>

\* _bind_candidate
Bound(v, c) ==
  /\ c.suite = verify[v].at
  /\ c.policy = verify[v].current
  /\ c.requested = verify[v].requested

\* baseline.is_file(): a torn file is one.
HasBaseline(s) == baseline[s] # NoFile

\* load_result and _bind_candidate: from here on the candidate is in memory.
\* The baseline is looked for now, whatever the plan listed; `absent` is what
\* there was to be found.
LoadCandidate(v) ==
  LET c == files[verify[v].at][verify[v].name] IN
  /\ At(v, "load")
  /\ \/ /\ \/ ~Readable(c)
           \/ Readable(c) /\ ~Bound(v, c)
        /\ Fail(v, "completed", "error", verify[v].candidate)
     \/ /\ Readable(c)
        /\ Bound(v, c)
        /\ Step(v, [verify[v] EXCEPT !.pc = "gate", !.candidate = c,
                                     !.found = HasBaseline(verify[v].at),
                                     !.absent = baseline[verify[v].at] = NoFile])
  /\ UNCHANGED <<world, disk, run, accept, bounds>>

Verdict(v, b) ==
  IF verify[v].found THEN Compare(b, verify[v].candidate)
                     ELSE Eligible(verify[v].candidate)

AnyFailed(results) == \E s \in DOMAIN results : results[s].passed = "false"

\* The suite is decided; go on with the next one, or report.
Decide(v, passed) ==
  LET s == verify[v].at
      results == ResultsUpTo(v, [execution |-> "completed",
                                 gate |-> IF passed THEN "passed" ELSE "failed",
                                 passed |-> IF passed THEN "true" ELSE "false",
                                 candidate |-> verify[v].candidate,
                                 against |-> IF verify[v].found THEN baseline[s] ELSE NoFile,
                                 absent |-> verify[v].absent])
      next == [verify[v] EXCEPT !.results = results, !.current = NoVerify.current,
                                !.since = 0, !.name = "", !.candidate = NoFile,
                                !.found = FALSE, !.absent = FALSE]
  IN IF Later(v) # {}
     THEN Step(v, [next EXCEPT !.pc = "build", !.at = First(Later(v))])
     ELSE Step(v, [End(v, IF AnyFailed(results) THEN "quality_failed" ELSE "passed")
                     EXCEPT !.results = results])

Gate(v) ==
  LET b == baseline[verify[v].at] IN
  /\ At(v, "gate")
  /\ IF verify[v].found /\ ~Readable(b)
     THEN Fail(v, "completed", "error", verify[v].candidate)
     ELSE Decide(v, Verdict(v, b))
  /\ UNCHANGED <<world, disk, run, accept, bounds>>
-----------------------------------------------------------------------------
(* eval run: the same evaluation, with a run name of the caller's choice. *)

NoRun == [pc |-> "idle", suite |-> 0, name |-> "", candidate |-> NoFile]

EvaluateAlone(r) ==
  /\ run[r].pc = "idle"
  /\ Spend("events")
  /\ \E s \in Suite, n \in RunName, q \in Requests :
       \E c \in Evaluations(s, Rendered(s), q, judge) :
         /\ files[s][n] = NoFile
         /\ run' = [run EXCEPT ![r] = [pc |-> "write", suite |-> s, name |-> n,
                                       candidate |-> c]]
  /\ UNCHANGED <<world, disk, verify, accept>>

WriteAlone(r) ==
  /\ run[r].pc = "write"
  /\ Put(run[r].suite, run[r].name, run[r].candidate)
  /\ run' = [run EXCEPT ![r] = NoRun]
  /\ UNCHANGED <<world, baseline, verify, accept, bounds>>
-----------------------------------------------------------------------------
(* eval accept-baseline --apply. *)

NoAccept == [pc |-> "idle", suite |-> 0, artifact |-> NoFile, force |-> FALSE,
             before |-> NoFile]

Accepting(a, step) == accept[a].pc = step
GotoAccept(a, step) == accept' = [accept EXCEPT ![a].pc = step]
EndAccept(a) == accept' = [accept EXCEPT ![a] = NoAccept]
SetBaseline(s, content) == baseline' = [baseline EXCEPT ![s] = content]

\* Slip: anything that completed may become a baseline.
AcceptableIfCompleted(c) == c.status = "completed"

\* build_baseline refuses what no gate would pass.
Acceptable(c) == Eligible(c)

\* build_baseline; `before` is what the person who accepts can have seen.
StartAccept(a) ==
  /\ Accepting(a, "idle")
  /\ Spend("events")
  /\ \E s \in Suite, n \in RunName, force \in BOOLEAN :
       /\ Readable(files[s][n])
       /\ Acceptable(files[s][n])
       /\ accept' = [accept EXCEPT ![a] =
                       [pc |-> "check", suite |-> s, artifact |-> files[s][n],
                        force |-> force, before |-> baseline[s]]]
  /\ UNCHANGED <<world, disk, verify, run>>

\* Slip: an existing baseline is replaced without --force.
MayWriteAlways(a) == TRUE

MayWrite(a) == baseline[accept[a].suite] = NoFile \/ accept[a].force

CheckExisting(a) ==
  /\ Accepting(a, "check")
  /\ IF MayWrite(a) THEN GotoAccept(a, "open") ELSE EndAccept(a)
  /\ UNCHANGED <<world, disk, verify, run, bounds>>

\* write_text truncates the file and then fills it.
OpenBaseline(a) ==
  /\ Accepting(a, "open")
  /\ SetBaseline(accept[a].suite, Torn)
  /\ GotoAccept(a, "fill")
  /\ UNCHANGED <<world, files, verify, run, bounds>>

\* Over what another process filled in since, the shorter text leaves a rest.
FillBaseline(a) ==
  LET s == accept[a].suite IN
  /\ Accepting(a, "fill")
  /\ \/ SetBaseline(s, accept[a].artifact)
     \/ Readable(baseline[s]) /\ SetBaseline(s, Torn)
  /\ EndAccept(a)
  /\ UNCHANGED <<world, files, verify, run, bounds>>
-----------------------------------------------------------------------------
(* Faults, and what other people do. *)

KillVerify(v) ==
  /\ verify[v].pc \notin {"idle", "ended"}
  /\ Spend("events")
  /\ \/ files' = files
     \/ At(v, "write") /\ Put(verify[v].at, verify[v].name, Torn)
  /\ Step(v, [NoVerify EXCEPT !.pc = "ended", !.outcome = "killed"])
  /\ UNCHANGED <<world, baseline, run, accept>>

KillAccept(a) ==
  /\ ~Accepting(a, "idle")
  /\ Spend("events")
  /\ EndAccept(a)
  /\ UNCHANGED <<world, disk, verify, run>>

EditSuite ==
  /\ Spend("events")
  /\ \E s \in Suite : \E p \in Policies[s] \ {project[s]} :
       project' = [project EXCEPT ![s] = p]
  /\ UNCHANGED <<judge, disk, verify, run, accept>>

\* A default judge is deprecated and the next one takes its place.
RollJudge ==
  /\ judge < Judges
  /\ Spend("events")
  /\ judge' = judge + 1
  /\ UNCHANGED <<project, disk, verify, run, accept>>

\* A checkout of a branch that has no baseline for the suite: what somebody saw
\* there before is gone.
CheckoutWithout ==
  /\ Spend("events")
  /\ \E s \in Suite :
       /\ Readable(baseline[s]) /\ SetBaseline(s, NoFile)
       /\ accept' = [a \in Accepter |->
            [accept[a] EXCEPT !.before = IF accept[a].suite = s THEN NoFile ELSE @]]
  /\ UNCHANGED <<world, files, verify, run>>
-----------------------------------------------------------------------------
\* Baselines accepted before the story begins, under the policy it begins with and
\* for one version: no gate looks at the version of a baseline.  Some are older than
\* the record of judges.
Earlier(s) ==
  LET accepted == {c \in Evaluations(s, project[s], CHOOSE q \in Requests : TRUE, 0) :
                     Eligible(c)}
  IN accepted \cup {[c EXCEPT !.judges = NoField] : c \in accepted}

Init ==
  /\ project \in {f \in [Suite -> Policy] : \A s \in Suite : f[s] \in Policies[s]}
  /\ judge = 0
  /\ files = [s \in Suite |-> [n \in RunName |-> NoFile]]
  /\ \E b \in [Suite -> {NoFile} \cup UNION {Earlier(s) : s \in Suite}] :
       /\ baseline = b
       /\ \A s \in Suite : b[s] \in {NoFile} \cup Earlier(s)
  /\ verify = [v \in Verifier |-> NoVerify]
  /\ run = [r \in Runner |-> NoRun]
  /\ accept = [a \in Accepter |-> NoAccept]
  /\ bounds = [verifies |-> MaxVerifies, events |-> MaxEvents]

VerifyStep(v) ==
  \/ StartVerify(v) \/ PlanSuite(v) \/ Authorize(v) \/ BuildAndRender(v)
  \/ Evaluate(v) \/ WriteCandidate(v) \/ LoadCandidate(v) \/ Gate(v) \/ KillVerify(v)

AcceptStep(a) ==
  StartAccept(a) \/ CheckExisting(a) \/ OpenBaseline(a) \/ FillBaseline(a) \/ KillAccept(a)

Next ==
  \/ \E v \in Verifier : VerifyStep(v)
  \/ \E r \in Runner : EvaluateAlone(r) \/ WriteAlone(r)
  \/ \E a \in Accepter : AcceptStep(a)
  \/ EditSuite \/ RollJudge \/ CheckoutWithout

Spec == Init /\ [][Next]_vars
-----------------------------------------------------------------------------
(* Properties. *)

Files == Candidates \cup {NoFile, Torn}
Outcomes == {"none", "refused", "planned", "infrastructure_failed", "quality_failed",
             "passed", "killed"}

Plans == UNION {[S -> Policy] : S \in SUBSET Suite}
Result ==
  [execution : {"not_run", "failed", "completed"},
   gate : {"not_run", "error", "failed", "passed"},
   passed : {"null", "true", "false"}, candidate : Files, against : Files,
   absent : BOOLEAN]

VerifyType(reports) ==
  [pc : {"idle", "plan", "authorize", "build", "evaluate", "write", "load", "gate", "ended"},
   selected : SUBSET Suite, requested : Requests \cup {0}, apply : BOOLEAN,
   plan : Plans, at : Suite \cup {0}, current : Policy \cup {NoVerify.current},
   since : 0..Judges, name : RunName \cup {""}, candidate : Files,
   found : BOOLEAN, absent : BOOLEAN, paid : SUBSET Suite, results : reports, outcome : Outcomes]

RunType ==
  [pc : {"idle", "write"}, suite : Suite \cup {0}, name : RunName \cup {""},
   candidate : Files]

AcceptType ==
  [pc : {"idle", "check", "open", "fill"}, suite : Suite \cup {0}, artifact : Files,
   force : BOOLEAN, before : Files]

\* Reports and files have the shape the commands give them.
TypeOK ==
  /\ project \in [Suite -> Policy] /\ judge \in 0..Judges
  /\ files \in [Suite -> [RunName -> Files]]
  /\ baseline \in [Suite -> Files]
  /\ \A v \in Verifier : \E S \in SUBSET Suite : verify[v] \in VerifyType([S -> Result])
  /\ run \in [Runner -> RunType]
  /\ accept \in [Accepter -> AcceptType]

NoWorse(b, c) ==
  \A m \in Gated(b.policy) \cap DOMAIN b.scores :
    m \in DOMAIN c.scores /\ b.scores[m] <= c.scores[m] + Tolerance(b.policy, m)

\* A judge of the metric is known: both artifacts have the field, and the traces of
\* at least one had arrived.
JudgeKnown(b, c, m) ==
  m \in DOMAIN b.judges \cap DOMAIN c.judges /\ b.judges[m] \cup c.judges[m] # {}

\* The scores of a metric have a judge in common, where a judge is known.  That is
\* all the code can tell (compare.py:17-23): it takes two artifacts without a known
\* judge for comparable, and one that two judges scored for the work of either.
SameJudges(b, c) ==
  \A m \in Metric : JudgeKnown(b, c, m) => b.scoredBy[m] \cap c.scoredBy[m] # {}

\* A suite that a verify reports as passed (verify.py:222) was scored under the
\* plan that was previewed, for the version asked for, meets its thresholds and
\* floors, and is no worse than the baseline it was gated against, which had the
\* same policy and, where any is known, the same judges.  It was gated without a
\* baseline only if there was no file, not even a torn one.  All that whatever
\* was edited, accepted, removed or written under its name in the meantime.
PassedIsEarned ==
  \A v \in Verifier : \A s \in DOMAIN verify[v].results :
    LET r == verify[v].results[s]
        c == r.candidate IN
    r.passed = "true" =>
      /\ c.suite = s /\ c.policy = verify[v].plan[s] /\ c.requested = verify[v].requested
      /\ c.status = "completed"
      /\ MeetsThresholds(c) /\ MeetsFloors(c)
      /\ r.against = NoFile => r.absent
      /\ r.against # NoFile =>
           /\ r.against.policy = c.policy
           /\ SameJudges(r.against, c) /\ NoWorse(r.against, c)

Reported(v) == verify[v].outcome \in {"passed", "quality_failed", "infrastructure_failed"}

Failing(v) == {s \in verify[v].selected : verify[v].results[s].execution = "failed"
                                        \/ verify[v].results[s].gate = "error"}

\* A report covers every suite that was selected and names every candidate that
\* was paid for; it stops at the first suite with an error, and its outcome is
\* passed only if every suite passed (docs/reference/cli.md:235-241).
ReportTruth ==
  \A v \in Verifier : Reported(v) =>
    LET results == verify[v].results IN
    /\ DOMAIN results = verify[v].selected
    /\ {s \in verify[v].selected : results[s].candidate # NoFile} = verify[v].paid
    /\ verify[v].outcome = "passed" <=> \A s \in verify[v].selected : results[s].passed = "true"
    /\ verify[v].outcome = "infrastructure_failed" <=> Failing(v) # {}
    /\ \A s \in Failing(v), t \in verify[v].selected :
         /\ t < s => results[t].passed # "null"
         /\ t > s => results[t] = NotRun

\* A baseline that can be read gates itself: it was copied from a candidate that
\* no gate refuses (baseline.py:13), and is filed under its own suite.
BaselinesPassThemselves ==
  \A s \in Suite : Readable(baseline[s]) =>
    baseline[s].suite = s /\ Compare(baseline[s], baseline[s])

Replaced(s) == Readable(baseline[s]) /\ baseline'[s] \notin {baseline[s], NoFile}

\* A baseline is replaced only by an acceptance with --force, or by one that
\* began when this baseline was not there yet: baseline.py:64 looks for the file
\* and opens it later, so two first acceptances may overlap.
ReplacedByForce ==
  [][\A s \in Suite : Replaced(s) =>
       \E a \in Accepter : /\ accept[a].suite = s /\ accept'[a] # accept[a]
                           /\ accept[a].force \/ accept[a].before # baseline[s]]_vars
=============================================================================
