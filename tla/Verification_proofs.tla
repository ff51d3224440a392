------------------------- MODULE Verification_proofs -------------------------
(***************************************************************************)
(* Theorems about Verification for every set of suites, policies, outcomes *)
(* and processes and for every bound.                                      *)
(***************************************************************************)
EXTENDS Verification, WellFoundedInduction, TLAPS

-----------------------------------------------------------------------------
(* Suites are taken in the order of their numbers. *)

LEMMA LeastExists ==
  ASSUME NEW S \in SUBSET Nat, S # {}
  PROVE  \E x \in S : \A y \in S : x <= y
<1> DEFINE R == OpToRel(<, Nat)
<1>1. IsWellFoundedOn(R, Nat)
  BY ONLY NatLessThanWellFounded, Zenon
<1>2. \A x, y \in Nat : y < x => <<y, x>> \in R
  BY DEF OpToRel
<1> HIDE DEF R
<1>3. PICK x \in S : \A y \in S : ~ (<<y, x>> \in R)
  BY <1>1, WFMin
<1>4. \A y \in S : ~(y < x)
  BY <1>2, <1>3
<1>5. x \in Nat /\ \A y \in S : y \in Nat
  OBVIOUS
<1>6. \A y \in S : x <= y
  BY <1>4, <1>5
<1> QED BY <1>6

LEMMA FirstIsMember ==
  ASSUME NEW S \in SUBSET Suite, S # {}
  PROVE  First(S) \in S
<1>1. S \in SUBSET Nat
  BY SuitesAreNumbers
<1>2. \E x \in S : \A y \in S : x <= y
  BY <1>1, LeastExists
<1> QED BY <1>2 DEF First

-----------------------------------------------------------------------------
(* Candidates and what a gate makes of them. *)

LEMMA PoliciesTyped ==
  ASSUME NEW p \in Policy
  PROVE  /\ p.thresholds \in PartialScores /\ p.tolerances \in PartialScores
         /\ p.floors \in BOOLEAN
  BY PolicyType DEF Policy

LEMMA ScoresAreIntegers ==
  ASSUME NEW f \in PartialScores, NEW m \in DOMAIN f
  PROVE  f[m] \in Nat
<1>1. PICK M \in SUBSET Metric : f \in [M -> Score]
  BY DEF PartialScores
<1>2. f[m] \in Score
  BY <1>1
<1> QED BY <1>2, ScoresAreNatural DEF Score

LEMMA TolerancesAreNatural ==
  ASSUME NEW p \in Policy, NEW m
  PROVE  Tolerance(p, m) \in Nat
  BY PoliciesTyped, ScoresAreIntegers, ScoresAreNatural DEF Tolerance

LEMMA CandidatesAreReadable ==
  ASSUME NEW c \in Candidates
  PROVE  c # NoFile /\ c # Torn /\ Readable(c)
<1>1. c.status \in {"completed", "indeterminate"}
  BY DEF Candidates
<1>2. NoFile.status = "no file" /\ Torn.status = "torn"
  BY DEF NoFile, Torn
<1> QED BY <1>1, <1>2 DEF Readable

\* What _regressed says, the other way round.
LEMMA NotRegressedIsNoWorse ==
  ASSUME NEW b \in Candidates, NEW c \in Candidates,
         \A m \in Gated(b.policy) : ~Regressed(b, c, m)
  PROVE  NoWorse(b, c)
<1>1. b.policy \in Policy /\ b.scores \in PartialScores /\ c.scores \in PartialScores
  BY DEF Candidates
<1> SUFFICES ASSUME NEW m \in Gated(b.policy) \cap DOMAIN b.scores
             PROVE  /\ m \in DOMAIN c.scores
                    /\ b.scores[m] <= c.scores[m] + Tolerance(b.policy, m)
  BY DEF NoWorse
<1>2. m \in DOMAIN c.scores /\ ~(c.scores[m] - b.scores[m] < -Tolerance(b.policy, m))
  BY DEF Regressed
<1>3. b.scores[m] \in Nat /\ c.scores[m] \in Nat /\ Tolerance(b.policy, m) \in Nat
  BY <1>1, <1>2, ScoresAreIntegers, TolerancesAreNatural
<1> QED BY <1>2, <1>3

\* A candidate that no gate refuses passes against itself.
LEMMA EligibleGatesItself ==
  ASSUME NEW b \in Candidates, Eligible(b)
  PROVE  Compare(b, b)
<1>1. b.policy \in Policy /\ b.scores \in PartialScores
  BY DEF Candidates
<1>2. ASSUME NEW m \in Gated(b.policy) PROVE ~Regressed(b, b, m)
  <2>1. Tolerance(b.policy, m) \in Nat
    BY <1>1, TolerancesAreNatural
  <2>2. m \in DOMAIN b.scores => b.scores[m] \in Nat
    BY <1>1, ScoresAreIntegers
  <2> QED BY <2>1, <2>2 DEF Regressed
<1> QED BY <1>2 DEF Compare, Comparable, JudgesChanged

\* build_candidate.
LEMMA CandidateTyped ==
  ASSUME NEW s \in Suite, NEW p \in Policy, NEW q \in Requests, NEW scoring \in Scorings,
         NEW judges \in Records(scoring), NEW o \in Outcome[s]
  PROVE  LET c == Candidate(s, p, q, scoring, judges, o) IN
         c \in Candidates /\ c.suite = s
<1> DEFINE done == o.status = "completed"
           met == p.floors => o.floorsMet
           scored == [suite |-> s, policy |-> p, requested |-> q, scoredBy |-> scoring,
                      judges |-> judges, scores |-> o.scores, floorsMet |-> met,
                      status |-> o.status, passed |-> done]
           good == Eligible(scored)
<1>1. /\ done \in BOOLEAN /\ met \in BOOLEAN
      /\ o.scores \in PartialScores /\ o.status \in {"completed", "indeterminate"}
  BY OutcomeType
<1>2. good \in BOOLEAN
  BY Zenon DEF Eligible
<1>3. Candidate(s, p, q, scoring, judges, o) = [scored EXCEPT !.passed = good]
  BY Zenon DEF Candidate
<1>4. judges \in Scorings
  BY DEF Records, Scorings
<1> HIDE DEF good, done, met
<1>5. scored \in Candidates
  BY <1>1, <1>4 DEF Candidates
<1>6. [scored EXCEPT !.passed = good] \in Candidates
  BY <1>1, <1>2, <1>4 DEF Candidates
<1>7. [scored EXCEPT !.passed = good].suite = s
  OBVIOUS
<1> QED BY <1>3, <1>6, <1>7

LEMMA EvaluationsTyped ==
  ASSUME NEW s \in Suite, NEW p \in Policy, NEW q \in Requests, judge \in 0..Judges,
         NEW since \in 0..Judges, NEW c \in Evaluations(s, p, q, since)
  PROVE  c \in Candidates /\ c.suite = s
<1>1. PICK scoring \in ScoringsSince(since) :
        c \in {Candidate(s, p, q, scoring, judges, o) :
                 judges \in Records(scoring), o \in Outcome[s]}
  BY DEF Evaluations
<1> PICK judges \in Records(scoring), o \in Outcome[s] :
      c = Candidate(s, p, q, scoring, judges, o)
  BY <1>1
<1>2. scoring \in Scorings
  <2>1. since..judge \subseteq 0..Judges
    BY BoundsAreNatural
  <2> QED BY <2>1 DEF Scorings, ScoringsSince
<1> QED BY <1>2, CandidateTyped

\* An artifact from before judges were observed is no less eligible.
LEMMA WithoutFieldTyped ==
  ASSUME NEW c \in Candidates, Eligible(c)
  PROVE  LET old == [c EXCEPT !.judges = NoField] IN
         old \in Candidates /\ old.suite = c.suite /\ Eligible(old)
<1> DEFINE old == [c EXCEPT !.judges = NoField]
<1>1. /\ old.suite = c.suite /\ old.policy = c.policy /\ old.requested = c.requested
      /\ old.scoredBy = c.scoredBy /\ old.judges = NoField /\ old.scores = c.scores
      /\ old.floorsMet = c.floorsMet /\ old.status = c.status /\ old.passed = c.passed
  BY DEF Candidates
<1>2. old \in Candidates
  BY DEF Candidates
<1> HIDE DEF old
<1>3. Eligible(old)
  BY <1>1 DEF Eligible, MeetsThresholds, MeetsFloors, ScoresTolerances
<1> QED BY <1>1, <1>2, <1>3 DEF old

\* A judge that is in the records of both scored for both.
LEMMA SameRecordsSameJudges ==
  ASSUME NEW b \in Candidates, NEW c \in Candidates, ~JudgesChanged(b, c)
  PROVE  SameJudges(b, c)
<1> SUFFICES ASSUME NEW m \in Metric, JudgeKnown(b, c, m)
             PROVE  b.scoredBy[m] \cap c.scoredBy[m] # {}
  BY DEF SameJudges
<1>1. b.judges # NoField /\ c.judges # NoField
  BY DEF JudgeKnown, NoField
<1>2. /\ b.judges \in Records(b.scoredBy) /\ c.judges \in Records(c.scoredBy)
      /\ b.judges = c.judges
  BY <1>1 DEF Candidates, JudgesChanged
<1>3. b.judges[m] # {} /\ c.judges[m] = b.judges[m]
  BY <1>2 DEF JudgeKnown
<1>4. PICK j \in b.scoredBy[m] : b.judges[m] = {j}
  BY <1>2, <1>3 DEF Records
<1>5. PICK k \in c.scoredBy[m] : c.judges[m] = {k}
  BY <1>2, <1>3 DEF Records
<1> QED BY <1>3, <1>4, <1>5
-----------------------------------------------------------------------------
(* The inductive invariant.                                                    *)

WorldOK == project \in [Suite -> Policy] /\ judge \in 0..Judges

\* A file that can be read holds a candidate of the suite it is filed under.
Filed(s, f) == f \in Files /\ (Readable(f) => f \in Candidates /\ f.suite = s)

FilesOK ==
  /\ files \in [Suite -> [RunName -> Files]]
  /\ \A s \in Suite, n \in RunName : Filed(s, files[s][n])

\* As a baseline it holds one that no gate refuses.
BaselineOK ==
  /\ baseline \in [Suite -> Files]
  /\ \A s \in Suite : /\ Filed(s, baseline[s])
                      /\ Readable(baseline[s]) => Eligible(baseline[s])

RunsOK ==
  /\ run \in [Runner -> RunType]
  /\ \A r \in Runner : run[r].pc = "write" =>
       /\ run[r].suite \in Suite /\ run[r].name \in RunName
       /\ run[r].candidate \in Candidates /\ run[r].candidate.suite = run[r].suite

AcceptsOK ==
  /\ accept \in [Accepter -> AcceptType]
  /\ \A a \in Accepter : accept[a].pc # "idle" =>
       /\ accept[a].suite \in Suite /\ accept[a].artifact \in Candidates
       /\ accept[a].artifact.suite = accept[a].suite /\ Eligible(accept[a].artifact)

\* Without --force: a baseline that was there at the start is not yet gone at the
\* check, so an acceptance that got past the check began without one.
Awaited ==
  \A a \in Accepter : ~accept[a].force /\ Readable(accept[a].before) =>
    /\ accept[a].pc = "check" => baseline[accept[a].suite] # NoFile
    /\ accept[a].pc \notin {"open", "fill"}

Reports == UNION {[S -> Result] : S \in SUBSET Suite}

\* PassedIsEarned of one suite of one report.
Earned(x, s) ==
  LET r == x.results[s]
      c == r.candidate IN
  r.passed = "true" =>
    /\ c.suite = s /\ c.policy = x.plan[s] /\ c.requested = x.requested
    /\ c.status = "completed"
    /\ MeetsThresholds(c) /\ MeetsFloors(c)
    /\ r.against = NoFile => r.absent
    /\ r.against # NoFile =>
         /\ r.against.policy = c.policy
         /\ SameJudges(r.against, c) /\ NoWorse(r.against, c)

\* The candidate of a suite is under way.
Busy == {"evaluate", "write", "load", "gate"}

OK(x) ==
  /\ x.pc \notin {"idle", "ended"} =>
       x.at \in x.selected /\ x.at \in Suite /\ x.requested \in Requests
  /\ x.pc = "plan" => DOMAIN x.results = {}
  /\ x.pc \in Busy => x.current \in Policy /\ x.current = x.plan[x.at]
  /\ x.pc \in {"write", "load", "gate"} => x.name \in RunName /\ x.candidate \in Candidates
  /\ x.pc \in {"write", "gate"} => x.candidate.suite = x.at
  /\ x.pc = "gate" => /\ x.candidate.policy = x.plan[x.at]
                      /\ x.candidate.requested = x.requested
                      /\ x.found \/ x.absent
  /\ \A s \in DOMAIN x.results : Earned(x, s)

VerifiesOK ==
  /\ verify \in [Verifier -> VerifyType(Reports)]
  /\ \A v \in Verifier : OK(verify[v])

Inv == WorldOK /\ FilesOK /\ BaselineOK /\ RunsOK /\ AcceptsOK /\ Awaited /\ VerifiesOK

-----------------------------------------------------------------------------
(* Steps of a verify. *)

LEMMA NullsTyped ==
  /\ NoFile \in Files /\ Torn \in Files
  /\ ~Readable(NoFile) /\ ~Readable(Torn) /\ NoFile # Torn
  /\ NotRun \in Result /\ NotRun.passed = "null"
  /\ <<>> \in Plans /\ <<>> \in Reports /\ DOMAIN <<>> = {}
  /\ 0 \in 0..Judges
<1>1. /\ NoFile \in Files /\ Torn \in Files
      /\ ~Readable(NoFile) /\ ~Readable(Torn)
  BY DEF Files, Readable
<1>2. NoFile # Torn
  BY DEF NoFile, Torn
<1>3. NotRun \in Result /\ NotRun.passed = "null"
  BY <1>1 DEF NotRun, Result
<1>4. <<>> \in [{} -> Policy] /\ <<>> \in [{} -> Result] /\ DOMAIN <<>> = {}
  OBVIOUS
<1>5. {} \in SUBSET Suite
  OBVIOUS
<1>6. <<>> \in Plans
  BY <1>4, <1>5 DEF Plans
<1>7. <<>> \in Reports
  BY <1>4, <1>5 DEF Reports
<1>8. 0 \in 0..Judges
  BY BoundsAreNatural
<1> QED BY <1>1, <1>2, <1>3, <1>4, <1>6, <1>7, <1>8

LEMMA NoVerifyTyped == NoVerify \in VerifyType(Reports)
  BY NullsTyped DEF NoVerify, VerifyType, Outcomes

LEMMA StepOK ==
  ASSUME VerifiesOK, NEW v \in Verifier, NEW e \in VerifyType(Reports), OK(e), Step(v, e)
  PROVE  VerifiesOK'
<1>1. verify' = [verify EXCEPT ![v] = e]
  BY DEF Step
<1>2. verify' \in [Verifier -> VerifyType(Reports)]
  BY <1>1 DEF VerifiesOK
<1>3. \A w \in Verifier : verify'[w] = e \/ verify'[w] = verify[w]
  BY <1>1 DEF VerifiesOK
<1> QED BY <1>2, <1>3 DEF VerifiesOK

\* The fields that Earned reads.
LEMMA EarnedKept ==
  ASSUME NEW x, NEW e, NEW s, Earned(x, s), e.results[s] = x.results[s],
         e.plan = x.plan, e.requested = x.requested
  PROVE  Earned(e, s)
  BY DEF Earned

\* A command that ends keeps its plan, what was asked for and its results.
LEMMA EndTyped ==
  ASSUME VerifiesOK, NEW v \in Verifier, NEW outcome \in Outcomes
  PROVE  LET e == End(v, outcome) IN
         /\ e \in VerifyType(Reports) /\ e.pc = "ended"
         /\ e.plan = verify[v].plan /\ e.requested = verify[v].requested
         /\ e.results = verify[v].results
<1>1. verify[v] \in VerifyType(Reports)
  BY DEF VerifiesOK
<1>2. End(v, outcome) \in VerifyType(Reports)
  BY <1>1, NoVerifyTyped DEF End, VerifyType
<1>3. /\ End(v, outcome).pc = "ended"
      /\ End(v, outcome).plan = verify[v].plan
      /\ End(v, outcome).requested = verify[v].requested
      /\ End(v, outcome).results = verify[v].results
  BY DEF End, NoVerify
<1> QED BY <1>2, <1>3

LEMMA EndOK ==
  ASSUME VerifiesOK, NEW v \in Verifier, NEW outcome \in Outcomes, Step(v, End(v, outcome))
  PROVE  VerifiesOK'
<1> DEFINE e == End(v, outcome)
<1>1. /\ e \in VerifyType(Reports) /\ e.pc = "ended"
      /\ e.plan = verify[v].plan /\ e.requested = verify[v].requested
      /\ e.results = verify[v].results
  BY EndTyped
<1>2. Step(v, e)
  OBVIOUS
<1> HIDE DEF e
<1>3. \A s \in DOMAIN e.results : Earned(e, s)
  BY <1>1, EarnedKept DEF VerifiesOK, OK
<1>4. OK(e)
  BY <1>1, <1>3 DEF OK, Busy
<1> QED BY <1>1, <1>2, <1>4, StepOK

\* A step on the way of a verify that leaves its results, plan and request alone.
LEMMA GoOnOK ==
  ASSUME VerifiesOK, NEW v \in Verifier, NEW e \in VerifyType(Reports), Step(v, e),
         e.plan = verify[v].plan, e.requested = verify[v].requested,
         e.results = verify[v].results, e.at \in Suite, e.requested \in Requests,
         e.at \in e.selected,
         e.pc # "plan",
         e.pc \in Busy => e.current \in Policy /\ e.current = e.plan[e.at],
         e.pc \in {"write", "load", "gate"} => e.name \in RunName /\ e.candidate \in Candidates,
         e.pc \in {"write", "gate"} => e.candidate.suite = e.at,
         e.pc = "gate" => /\ e.candidate.policy = e.plan[e.at]
                          /\ e.candidate.requested = e.requested
                          /\ e.found \/ e.absent
  PROVE  VerifiesOK'
<1>1. \A s \in DOMAIN e.results : Earned(e, s)
  BY EarnedKept DEF VerifiesOK, OK
<1>2. OK(e)
  BY <1>1 DEF OK
<1> QED BY <1>2, StepOK

LEMMA StartVerifyOK == ASSUME VerifiesOK, NEW v \in Verifier, StartVerify(v) PROVE VerifiesOK'
<1>1. PICK S \in (SUBSET Suite) \ {{}}, r \in Requests, apply \in BOOLEAN :
        Step(v, [NoVerify EXCEPT !.pc = "plan", !.selected = S, !.requested = r,
                                 !.apply = apply, !.at = First(S)])
  BY DEF StartVerify
<1> DEFINE e == [NoVerify EXCEPT !.pc = "plan", !.selected = S, !.requested = r,
                                 !.apply = apply, !.at = First(S)]
<1>2. First(S) \in S /\ First(S) \in Suite /\ S \in SUBSET Suite
  BY FirstIsMember
<1>3. e \in VerifyType(Reports)
  <2>1. First(S) \in Suite \cup {0} /\ r \in Requests \cup {0}
    BY <1>2
  <2> QED BY <1>2, <2>1, NoVerifyTyped DEF VerifyType
<1>4. /\ e.pc = "plan" /\ e.at = First(S) /\ e.requested = r /\ e.results = <<>>
      /\ e.selected = S
  BY DEF NoVerify
<1>5. Step(v, e)
  BY <1>1
<1> HIDE DEF e
<1>6. OK(e)
  BY <1>2, <1>4, NullsTyped DEF OK, Busy
<1> QED BY <1>3, <1>5, <1>6, StepOK

LEMMA LaterTyped ==
  ASSUME VerifiesOK, NEW v \in Verifier
  PROVE  /\ Later(v) \in SUBSET verify[v].selected
         /\ verify[v].selected \in SUBSET Suite
         /\ Later(v) # {} => First(Later(v)) \in verify[v].selected
         /\ verify[v].selected # {} => First(verify[v].selected) \in verify[v].selected
<1>1. verify[v].selected \in SUBSET Suite
  BY DEF VerifiesOK, VerifyType
<1>2. Later(v) \in SUBSET verify[v].selected
  BY <1>1 DEF Later
<1> QED BY <1>1, <1>2, FirstIsMember

LEMMA RefuseOK == ASSUME VerifiesOK, NEW v \in Verifier, Refuse(v) PROVE VerifiesOK'
<1>1. "refused" \in Outcomes
  BY DEF Outcomes
<1> QED BY <1>1, EndOK DEF Refuse

LEMMA PlanSuiteOK ==
  ASSUME WorldOK, VerifiesOK, NEW v \in Verifier, PlanSuite(v)
  PROVE  VerifiesOK'
<1> DEFINE x == verify[v]
           planned == [s \in DOMAIN x.plan \cup {x.at} |->
                         IF s = x.at THEN Rendered(s) ELSE x.plan[s]]
           more == [x EXCEPT !.plan = planned, !.pc = "plan", !.at = First(Later(v))]
           last == [x EXCEPT !.plan = planned, !.pc = "authorize", !.at = First(x.selected)]
<1>1. x \in VerifyType(Reports) /\ OK(x) /\ x.pc = "plan"
  BY DEF VerifiesOK, PlanSuite, At
<1>2. x.at \in Suite /\ x.requested \in Requests /\ DOMAIN x.results = {}
  BY <1>1 DEF OK
<1>3. planned \in Plans
  <2>1. PICK S \in SUBSET Suite : x.plan \in [S -> Policy]
    BY <1>1 DEF VerifyType, Plans
  <2>2. Rendered(x.at) \in Policy
    BY <1>2 DEF Rendered, WorldOK
  <2>3. planned \in [S \cup {x.at} -> Policy]
    BY <2>1, <2>2
  <2> QED BY <1>2, <2>3 DEF Plans
<1> HIDE DEF planned
<1>4. CASE Refuse(v)
  BY <1>4, RefuseOK
<1>5. /\ x.selected \in SUBSET Suite /\ x.selected # {}
      /\ First(x.selected) \in x.selected
      /\ Later(v) # {} => First(Later(v)) \in x.selected
  <2>1. x.at \in x.selected
    BY <1>1 DEF OK
  <2> QED BY <2>1, LaterTyped
<1>6. Refuse(v) \/ Step(v, [x EXCEPT !.plan = planned,
                                     !.pc = IF Later(v) = {} THEN "authorize" ELSE "plan",
                                     !.at = IF Later(v) = {} THEN First(x.selected)
                                                             ELSE First(Later(v))])
  BY DEF PlanSuite, planned
<1>7. CASE Later(v) # {} /\ Step(v, more)
  <2>1. more \in VerifyType(Reports)
    BY <1>1, <1>3, <1>5, <1>7 DEF VerifyType
  <2>2. /\ more.pc = "plan" /\ more.at = First(Later(v)) /\ more.requested = x.requested
        /\ more.results = x.results /\ more.selected = x.selected
    BY <1>1 DEF VerifyType
  <2> HIDE DEF more
  <2>3. OK(more)
    BY <1>2, <1>5, <1>7, <2>2 DEF OK, Busy
  <2> QED BY <1>7, <2>1, <2>3, StepOK
<1>8. CASE Later(v) = {} /\ Step(v, last)
  <2>1. last \in VerifyType(Reports)
    BY <1>1, <1>3, <1>5 DEF VerifyType
  <2>2. /\ last.pc = "authorize" /\ last.at = First(x.selected)
        /\ last.requested = x.requested
        /\ last.results = x.results /\ last.selected = x.selected
    BY <1>1 DEF VerifyType
  <2> HIDE DEF last
  <2>3. OK(last)
    BY <1>2, <1>5, <2>2 DEF OK, Busy
  <2> QED BY <1>8, <2>1, <2>3, StepOK
<1>9. CASE Later(v) # {}
  BY <1>4, <1>6, <1>7, <1>9
<1>10. CASE Later(v) = {}
  BY <1>4, <1>6, <1>8, <1>10
<1> QED BY <1>9, <1>10

LEMMA AuthorizeOK == ASSUME VerifiesOK, NEW v \in Verifier, Authorize(v) PROVE VerifiesOK'
<1> DEFINE x == verify[v]
           e == [x EXCEPT !.pc = "build"]
<1>1. x \in VerifyType(Reports) /\ OK(x) /\ x.pc = "authorize"
  BY DEF VerifiesOK, Authorize, At
<1>2. Step(v, End(v, "planned")) \/ Refuse(v) \/ Step(v, e)
  BY DEF Authorize, Goto
<1>3. "planned" \in Outcomes
  BY DEF Outcomes
<1>4. CASE Step(v, e)
  <2>1. e \in VerifyType(Reports)
    BY <1>1 DEF VerifyType
  <2>2. /\ e.pc = "build" /\ e.plan = x.plan /\ e.requested = x.requested
        /\ e.results = x.results /\ e.at = x.at /\ e.selected = x.selected
    BY <1>1 DEF VerifyType
  <2> HIDE DEF e
  <2>3. e.at \in Suite /\ e.at \in e.selected /\ e.requested \in Requests
    BY <1>1, <2>2 DEF OK
  <2> QED BY <1>4, <2>1, <2>2, <2>3, GoOnOK DEF Busy
<1> QED BY <1>2, <1>3, <1>4, EndOK, RefuseOK

\* A report after a controlled error adds nothing that passed.
LEMMA FailTyped ==
  ASSUME VerifiesOK, NEW v \in Verifier, verify[v].at \in Suite, NEW result \in Result
  PROVE  ResultsAfter(v, result) \in Reports
<1> DEFINE x == verify[v]
           S == DOMAIN x.results \cup {x.at} \cup Later(v)
<1>1. PICK T \in SUBSET Suite : x.results \in [T -> Result]
  <2>1. x \in VerifyType(Reports)
    BY DEF VerifiesOK
  <2>2. x.results \in Reports
    BY <2>1 DEF VerifyType
  <2> QED BY <2>2 DEF Reports
<1>2. S \in SUBSET Suite /\ DOMAIN x.results = T
  BY <1>1, LaterTyped
<1>3. \A s \in S : (IF s = x.at THEN result
                    ELSE IF s \in Later(v) THEN NotRun ELSE x.results[s]) \in Result
  BY <1>1, NullsTyped
<1>4. ResultsAfter(v, result) =
        [s \in S |-> IF s = x.at THEN result
                     ELSE IF s \in Later(v) THEN NotRun ELSE x.results[s]]
  BY DEF ResultsAfter
<1> HIDE DEF S
<1>5. ResultsAfter(v, result) \in [S -> Result]
  BY <1>3, <1>4
<1> QED BY <1>2, <1>5 DEF Reports

LEMMA FailOK ==
  ASSUME VerifiesOK, NEW v \in Verifier, verify[v].at \in Suite,
         NEW execution \in {"failed", "completed"}, NEW gate \in {"not_run", "error"},
         NEW candidate \in Files, Fail(v, execution, gate, candidate)
  PROVE  VerifiesOK'
<1> DEFINE x == verify[v]
           ended == End(v, "infrastructure_failed")
           result == [NotRun EXCEPT !.execution = execution, !.gate = gate,
                                    !.candidate = candidate]
           results == ResultsAfter(v, result)
           e == [ended EXCEPT !.results = results]
<1>1. "infrastructure_failed" \in Outcomes
  BY DEF Outcomes
<1>2. /\ ended \in VerifyType(Reports) /\ ended.pc = "ended"
      /\ ended.plan = x.plan /\ ended.requested = x.requested
  BY <1>1, EndTyped
<1>3. result \in Result /\ result.passed = "null"
  BY NullsTyped DEF Result
<1>4. Step(v, e)
  BY DEF Fail
<1> HIDE DEF result, ended
<1>5. results \in Reports
  <2>1. result \in Result
    BY <1>3
  <2> QED BY <2>1, FailTyped
<1>6. \A s \in DOMAIN results :
        \/ results[s].passed = "null"
        \/ s \in DOMAIN x.results /\ results[s] = x.results[s]
  <2>1. DOMAIN results = DOMAIN x.results \cup {x.at} \cup Later(v)
    BY DEF ResultsAfter
  <2>2. \A s \in DOMAIN results :
          results[s] = IF s = x.at THEN result
                       ELSE IF s \in Later(v) THEN NotRun ELSE x.results[s]
    BY DEF ResultsAfter
  <2> QED BY <1>3, <2>1, <2>2, NullsTyped
<1> HIDE DEF results
<1>7. e \in VerifyType(Reports)
  BY <1>2, <1>5 DEF VerifyType
<1>8. /\ e.pc = "ended" /\ e.plan = x.plan /\ e.requested = x.requested
      /\ e.results = results
  BY <1>2 DEF VerifyType
<1> HIDE DEF e
<1>9. \A s \in DOMAIN e.results : Earned(e, s)
  <2> SUFFICES ASSUME NEW s \in DOMAIN results PROVE Earned(e, s)
    BY <1>8
  <2>1. CASE results[s].passed = "null"
    BY <1>8, <2>1 DEF Earned
  <2>2. CASE s \in DOMAIN x.results /\ results[s] = x.results[s]
    <3>1. Earned(x, s)
      BY <2>2 DEF VerifiesOK, OK
    <3> QED BY <1>8, <2>2, <3>1, EarnedKept
  <2> QED BY <1>6, <2>1, <2>2
<1>10. OK(e)
  BY <1>8, <1>9 DEF OK, Busy
<1> QED BY <1>4, <1>7, <1>10, StepOK

LEMMA BuildAndRenderOK ==
  ASSUME WorldOK, VerifiesOK, NEW v \in Verifier, BuildAndRender(v)
  PROVE  VerifiesOK'
<1> DEFINE x == verify[v]
           e == [x EXCEPT !.pc = "evaluate", !.since = judge, !.current = Rendered(x.at)]
<1>1. x \in VerifyType(Reports) /\ OK(x) /\ x.pc = "build"
  BY DEF VerifiesOK, BuildAndRender, At
<1>2. x.at \in Suite /\ x.at \in x.selected /\ x.requested \in Requests
  BY <1>1 DEF OK
<1>3. FailBefore(v) \/ (PlanUnchanged(v) /\ Step(v, e))
  BY DEF BuildAndRender
<1>4. CASE FailBefore(v)
  BY <1>2, <1>4, NullsTyped, FailOK DEF FailBefore
<1>5. CASE PlanUnchanged(v) /\ Step(v, e)
  <2>1. /\ Rendered(x.at) \in Policy /\ Rendered(x.at) = x.plan[x.at]
        /\ judge \in 0..Judges
    BY <1>2, <1>5 DEF Rendered, WorldOK, PlanUnchanged
  <2>2. e \in VerifyType(Reports)
    BY <1>1, <2>1 DEF VerifyType
  <2>3. /\ e.pc = "evaluate" /\ e.plan = x.plan /\ e.requested = x.requested
        /\ e.results = x.results /\ e.at = x.at /\ e.selected = x.selected
        /\ e.current = Rendered(x.at)
    BY <1>1 DEF VerifyType
  <2> HIDE DEF e
  <2> QED BY <1>2, <1>5, <2>1, <2>2, <2>3, GoOnOK
<1> QED BY <1>3, <1>4, <1>5

LEMMA EvaluateOK ==
  ASSUME WorldOK, VerifiesOK, NEW v \in Verifier, Evaluate(v)
  PROVE  VerifiesOK'
<1> DEFINE x == verify[v]
           e(n, c) == [x EXCEPT !.pc = "write", !.since = 0, !.name = n, !.candidate = c]
<1>1. x \in VerifyType(Reports) /\ OK(x) /\ x.pc = "evaluate"
  BY DEF VerifiesOK, Evaluate, At
<1>2. /\ x.at \in Suite /\ x.at \in x.selected /\ x.requested \in Requests
      /\ x.current \in Policy /\ x.current = x.plan[x.at] /\ x.since \in 0..Judges
  BY <1>1 DEF OK, Busy, VerifyType
<1>3. CASE FailBefore(v)
  BY <1>2, <1>3, NullsTyped, FailOK DEF FailBefore
<1>4. ASSUME NEW n \in RunName, NEW c \in Evaluations(x.at, x.current, x.requested, x.since),
             Step(v, e(n, c))
      PROVE  VerifiesOK'
  <2>1. c \in Candidates /\ c.suite = x.at
    BY <1>2, EvaluationsTyped DEF WorldOK
  <2>2. c \in Files
    BY <2>1 DEF Files
  <2>3. e(n, c) \in VerifyType(Reports)
    BY <1>1, <2>2, NullsTyped DEF VerifyType
  <2>4. /\ e(n, c).pc = "write" /\ e(n, c).plan = x.plan /\ e(n, c).requested = x.requested
        /\ e(n, c).results = x.results /\ e(n, c).at = x.at
        /\ e(n, c).selected = x.selected
        /\ e(n, c).current = x.current /\ e(n, c).name = n /\ e(n, c).candidate = c
    BY <1>1 DEF VerifyType
  <2> HIDE DEF e
  <2> QED BY <1>2, <1>4, <2>1, <2>3, <2>4, GoOnOK
<1> QED BY <1>3, <1>4 DEF Evaluate

LEMMA WriteCandidateOK ==
  ASSUME VerifiesOK, NEW v \in Verifier, WriteCandidate(v)
  PROVE  VerifiesOK'
<1> DEFINE x == verify[v]
           e == [x EXCEPT !.pc = "load", !.paid = @ \cup {x.at}]
<1>1. x \in VerifyType(Reports) /\ OK(x) /\ x.pc = "write"
  BY DEF VerifiesOK, WriteCandidate, At
<1>2. /\ x.at \in Suite /\ x.at \in x.selected /\ x.requested \in Requests
      /\ x.current \in Policy /\ x.current = x.plan[x.at]
      /\ x.name \in RunName /\ x.candidate \in Candidates
  BY <1>1 DEF OK, Busy
<1>3. Step(v, e)
  BY DEF WriteCandidate
<1>4. e \in VerifyType(Reports)
  <2>1. x.paid \cup {x.at} \in SUBSET Suite
    BY <1>1, <1>2 DEF VerifyType
  <2> QED BY <1>1, <2>1 DEF VerifyType
<1>5. /\ e.pc = "load" /\ e.plan = x.plan /\ e.requested = x.requested
      /\ e.results = x.results /\ e.at = x.at /\ e.selected = x.selected
      /\ e.current = x.current /\ e.name = x.name /\ e.candidate = x.candidate
  BY <1>1 DEF VerifyType
<1> HIDE DEF e
<1> QED BY <1>2, <1>3, <1>4, <1>5, GoOnOK

LEMMA LoadCandidateOK ==
  ASSUME FilesOK, VerifiesOK, NEW v \in Verifier, LoadCandidate(v)
  PROVE  VerifiesOK'
<1> DEFINE x == verify[v]
           c == files[x.at][x.name]
           found == HasBaseline(x.at)
           absent == baseline[x.at] = NoFile
           e == [x EXCEPT !.pc = "gate", !.candidate = c, !.found = found,
                          !.absent = absent]
<1>1. x \in VerifyType(Reports) /\ OK(x) /\ x.pc = "load"
  BY DEF VerifiesOK, LoadCandidate, At
<1>2. /\ x.at \in Suite /\ x.at \in x.selected /\ x.requested \in Requests
      /\ x.current \in Policy /\ x.current = x.plan[x.at]
      /\ x.name \in RunName /\ x.candidate \in Files
  BY <1>1 DEF OK, Busy, Files
<1>3. \/ Fail(v, "completed", "error", x.candidate)
      \/ Readable(c) /\ Bound(v, c) /\ Step(v, e)
  BY DEF LoadCandidate
<1>4. CASE Fail(v, "completed", "error", x.candidate)
  BY <1>2, <1>4, FailOK
<1>5. CASE Readable(c) /\ Bound(v, c) /\ Step(v, e)
  <2>1. found \in BOOLEAN /\ absent \in BOOLEAN /\ (found \/ absent)
    BY DEF HasBaseline
  <2>2. c \in Candidates /\ c \in Files
    BY <1>2, <1>5 DEF FilesOK, Filed
  <2>3. c.suite = x.at /\ c.policy = x.plan[x.at] /\ c.requested = x.requested
    BY <1>2, <1>5 DEF Bound
  <2> HIDE DEF c, found, absent
  <2>4. e \in VerifyType(Reports)
    BY <1>1, <2>1, <2>2 DEF VerifyType
  <2>5. /\ e.pc = "gate" /\ e.plan = x.plan /\ e.requested = x.requested
        /\ e.results = x.results /\ e.at = x.at /\ e.selected = x.selected
        /\ e.current = x.current /\ e.name = x.name /\ e.candidate = c
        /\ e.found = found /\ e.absent = absent
    BY <1>1 DEF VerifyType
  <2> HIDE DEF e
  <2> QED BY <1>2, <1>5, <2>1, <2>2, <2>3, <2>4, <2>5, GoOnOK
<1> QED BY <1>3, <1>4, <1>5

\* A suite that Decide reports as passed is earned.
LEMMA DecideOK ==
  ASSUME BaselineOK, VerifiesOK, NEW v \in Verifier, verify[v].pc = "gate",
         LET b == baseline[verify[v].at] IN
         /\ ~(verify[v].found /\ ~Readable(b))
         /\ Decide(v, Verdict(v, b))
  PROVE  VerifiesOK'
<1> DEFINE x == verify[v]
           c == x.candidate
           b == baseline[x.at]
           passed == Verdict(v, b)
           result == [execution |-> "completed",
                      gate |-> IF passed THEN "passed" ELSE "failed",
                      passed |-> IF passed THEN "true" ELSE "false",
                      candidate |-> c,
                      against |-> IF x.found THEN b ELSE NoFile,
                      absent |-> x.absent]
           results == ResultsUpTo(v, result)
<1>1. x \in VerifyType(Reports) /\ OK(x) /\ x.pc = "gate"
  BY DEF VerifiesOK
<1>2. /\ x.at \in Suite /\ x.at \in x.selected /\ x.requested \in Requests
      /\ c \in Candidates /\ c.suite = x.at /\ c.policy = x.plan[x.at]
      /\ c.requested = x.requested /\ (x.found \/ x.absent) /\ x.absent \in BOOLEAN
  BY <1>1 DEF OK, Busy, VerifyType
<1>3. b \in Files /\ (x.found => b \in Candidates)
  BY <1>2 DEF BaselineOK, Filed
<1>4. /\ result.passed = "true" => passed
      /\ result.candidate = c /\ result.against = IF x.found THEN b ELSE NoFile
      /\ result.absent = x.absent
  OBVIOUS
<1>5. result \in Result
  BY <1>2, <1>3, NullsTyped DEF Result, Files
<1>6. passed =>
        /\ c.status = "completed" /\ MeetsThresholds(c) /\ MeetsFloors(c)
        /\ x.found => b.policy = c.policy /\ SameJudges(b, c) /\ NoWorse(b, c)
  <2>1. passed => IF x.found THEN Compare(b, c) ELSE Eligible(c)
    BY DEF Verdict
  <2> HIDE DEF passed, result
  <2>2. passed => Eligible(c)
    BY <2>1 DEF Compare
  <2>3. passed /\ x.found => Comparable(b, c) /\ NoWorse(b, c)
    BY <1>2, <1>3, <2>1, NotRegressedIsNoWorse DEF Compare
  <2>4. passed /\ x.found => b.policy = c.policy /\ SameJudges(b, c)
    BY <1>2, <1>3, <2>3, SameRecordsSameJudges DEF Comparable
  <2> QED BY <2>2, <2>3, <2>4 DEF Eligible
<1> HIDE DEF passed, result
<1>7. /\ results \in Reports
      /\ \A s \in DOMAIN results : \/ s = x.at /\ results[s] = result
                                   \/ s \in DOMAIN x.results /\ results[s] = x.results[s]
  <2> DEFINE S == DOMAIN x.results \cup {x.at}
  <2>1. x.results \in Reports
    BY <1>1 DEF VerifyType
  <2>2. PICK T \in SUBSET Suite : x.results \in [T -> Result]
    BY <2>1 DEF Reports
  <2>3. S \in SUBSET Suite /\ DOMAIN x.results = T
    BY <1>2, <2>2
  <2>4. results = [s \in S |-> IF s = x.at THEN result ELSE x.results[s]]
    BY DEF ResultsUpTo
  <2>5. \A s \in S : (IF s = x.at THEN result ELSE x.results[s]) \in Result
    BY <1>5, <2>2
  <2> HIDE DEF S, results
  <2>6. results \in [S -> Result]
    BY <2>4, <2>5
  <2>7. \A s \in S : \/ s = x.at /\ results[s] = result
                     \/ s \in DOMAIN x.results /\ results[s] = x.results[s]
    BY <2>4 DEF S
  <2> QED BY <2>3, <2>6, <2>7 DEF Reports
<1> DEFINE cleared == [x EXCEPT !.results = results, !.current = NoVerify.current,
                                !.since = 0, !.name = "", !.candidate = NoFile,
                                !.found = FALSE, !.absent = FALSE]
           outcome == IF AnyFailed(results) THEN "quality_failed" ELSE "passed"
           ended == End(v, outcome)
           more == [cleared EXCEPT !.pc = "build", !.at = First(Later(v))]
           last == [ended EXCEPT !.results = results]
<1>8. IF Later(v) # {} THEN Step(v, more) ELSE Step(v, last)
  BY DEF Decide, passed, result
<1> HIDE DEF results
<1>9. ASSUME NEW e, e.results = results, e.plan = x.plan, e.requested = x.requested
      PROVE  \A s \in DOMAIN e.results : Earned(e, s)
  <2> SUFFICES ASSUME NEW s \in DOMAIN results PROVE Earned(e, s)
    BY <1>9
  <2>1. CASE s = x.at /\ results[s] = result
    <3>1. /\ e.results[s].candidate = c
          /\ e.results[s].against = (IF x.found THEN b ELSE NoFile)
          /\ e.results[s].passed = "true" => passed
          /\ e.results[s].absent = x.absent
      BY <1>4, <1>9, <2>1
    <3> HIDE DEF c, b
    <3>2. passed /\ (IF x.found THEN b ELSE NoFile) # NoFile => x.found
      OBVIOUS
    <3>3. (IF x.found THEN b ELSE NoFile) = NoFile => x.absent
      BY <1>2, <1>3, CandidatesAreReadable
    <3> QED BY <1>2, <1>6, <1>9, <2>1, <3>1, <3>2, <3>3 DEF Earned
  <2>2. CASE s \in DOMAIN x.results /\ results[s] = x.results[s]
    BY <1>1, <1>9, <2>2, EarnedKept DEF OK
  <2> QED BY <1>7, <2>1, <2>2
<1>10. CASE Later(v) # {} /\ Step(v, more)
  <2>1. First(Later(v)) \in x.selected /\ First(Later(v)) \in Suite
    BY <1>10, LaterTyped
  <2>2. cleared \in VerifyType(Reports)
    BY <1>1, <1>7, NullsTyped DEF VerifyType
  <2>3. /\ cleared.results = results /\ cleared.plan = x.plan
        /\ cleared.requested = x.requested /\ cleared.selected = x.selected
    BY <1>1 DEF VerifyType
  <2> HIDE DEF cleared
  <2>4. more \in VerifyType(Reports)
    BY <2>1, <2>2 DEF VerifyType
  <2>5. /\ more.pc = "build" /\ more.at = First(Later(v)) /\ more.results = results
        /\ more.plan = x.plan /\ more.requested = x.requested
        /\ more.selected = x.selected
    BY <2>2, <2>3 DEF VerifyType
  <2> HIDE DEF more
  <2>6. OK(more)
    BY <1>2, <1>9, <2>1, <2>5 DEF OK, Busy
  <2> QED BY <1>10, <2>4, <2>6, StepOK
<1>11. CASE Later(v) = {} /\ Step(v, last)
  <2>1. outcome \in Outcomes
    BY DEF Outcomes
  <2> HIDE DEF outcome
  <2>2. /\ ended \in VerifyType(Reports) /\ ended.pc = "ended"
        /\ ended.plan = x.plan /\ ended.requested = x.requested
    BY <2>1, EndTyped
  <2> HIDE DEF ended
  <2>3. last \in VerifyType(Reports)
    BY <1>7, <2>2 DEF VerifyType
  <2>4. /\ last.pc = "ended" /\ last.results = results /\ last.plan = x.plan
        /\ last.requested = x.requested
    BY <2>2 DEF VerifyType
  <2> HIDE DEF last
  <2>5. OK(last)
    BY <1>9, <2>4 DEF OK, Busy
  <2> QED BY <1>11, <2>3, <2>5, StepOK
<1>12. CASE Later(v) # {}
  BY <1>8, <1>10, <1>12
<1>13. CASE Later(v) = {}
  BY <1>8, <1>11, <1>13
<1> QED BY <1>12, <1>13

LEMMA GateOK ==
  ASSUME BaselineOK, VerifiesOK, NEW v \in Verifier, Gate(v)
  PROVE  VerifiesOK'
<1>1. verify[v].pc = "gate" /\ verify[v].at \in Suite /\ verify[v].candidate \in Files
  BY DEF VerifiesOK, VerifyType, OK, Gate, At, Files
<1>2. CASE verify[v].found /\ ~Readable(baseline[verify[v].at])
  <2>1. Fail(v, "completed", "error", verify[v].candidate)
    BY <1>2 DEF Gate
  <2> QED BY <1>1, <2>1, FailOK
<1>3. CASE ~(verify[v].found /\ ~Readable(baseline[verify[v].at]))
  <2>1. Decide(v, Verdict(v, baseline[verify[v].at]))
    BY <1>3 DEF Gate
  <2> QED BY <1>1, <1>3, <2>1, DecideOK
<1> QED BY <1>2, <1>3

LEMMA KillVerifyOK == ASSUME VerifiesOK, NEW v \in Verifier, KillVerify(v) PROVE VerifiesOK'
<1> DEFINE e == [NoVerify EXCEPT !.pc = "ended", !.outcome = "killed"]
<1>1. e \in VerifyType(Reports)
  BY NoVerifyTyped DEF VerifyType, Outcomes
<1>2. e.pc = "ended" /\ e.results = <<>>
  BY DEF NoVerify
<1>3. Step(v, e)
  BY DEF KillVerify
<1> HIDE DEF e
<1>4. OK(e)
  BY <1>2, NullsTyped DEF OK, Busy
<1> QED BY <1>1, <1>3, <1>4, StepOK
-----------------------------------------------------------------------------
(* The files. *)

LEMMA PutOK ==
  ASSUME FilesOK, NEW s \in Suite, NEW n \in RunName, NEW f, Filed(s, f), Put(s, n, f)
  PROVE  FilesOK'
<1>1. files' = [files EXCEPT ![s][n] = f] /\ f \in Files
  BY DEF Put, Filed
<1>2. files' \in [Suite -> [RunName -> Files]]
  BY <1>1 DEF FilesOK
<1>3. ASSUME NEW t \in Suite, NEW m \in RunName
      PROVE  files'[t][m] = files[t][m] \/ (t = s /\ files'[t][m] = f)
  BY <1>1 DEF FilesOK
<1>4. \A t \in Suite, m \in RunName : Filed(t, files'[t][m])
  BY <1>3 DEF FilesOK
<1> QED BY <1>2, <1>4 DEF FilesOK

LEMMA SetBaselineOK ==
  ASSUME BaselineOK, NEW s \in Suite, NEW f, Filed(s, f), Readable(f) => Eligible(f),
         SetBaseline(s, f)
  PROVE  BaselineOK'
<1>1. baseline' = [baseline EXCEPT ![s] = f] /\ f \in Files
  BY DEF SetBaseline, Filed
<1>2. baseline' \in [Suite -> Files]
  BY <1>1 DEF BaselineOK
<1>3. \A t \in Suite : baseline'[t] = baseline[t] \/ (t = s /\ baseline'[t] = f)
  BY <1>1 DEF BaselineOK
<1>4. \A t \in Suite : /\ Filed(t, baseline'[t])
                       /\ Readable(baseline'[t]) => Eligible(baseline'[t])
  BY <1>3 DEF BaselineOK
<1> QED BY <1>2, <1>4 DEF BaselineOK

LEMMA NullsFiled ==
  ASSUME NEW s
  PROVE  Filed(s, NoFile) /\ Filed(s, Torn)
  BY NullsTyped DEF Filed

\* The candidates of verifies and runs.
LEMMA FilesKept ==
  ASSUME Inv, [Next]_vars
  PROVE  FilesOK'
<1>1. CASE UNCHANGED files
  BY <1>1 DEF Inv, FilesOK
<1>2. ASSUME NEW v \in Verifier, WriteCandidate(v) PROVE FilesOK'
  <2> DEFINE x == verify[v]
  <2>1. x.at \in Suite /\ x.name \in RunName /\ x.candidate \in Candidates
        /\ x.candidate.suite = x.at
    BY <1>2 DEF Inv, VerifiesOK, OK, WriteCandidate, At
  <2>2. Filed(x.at, x.candidate)
    BY <2>1 DEF Filed, Files
  <2>3. Put(x.at, x.name, x.candidate)
    BY <1>2 DEF WriteCandidate
  <2> QED BY <2>1, <2>2, <2>3, PutOK DEF Inv
<1>3. ASSUME NEW v \in Verifier, At(v, "write"), Put(verify[v].at, verify[v].name, Torn)
      PROVE  FilesOK'
  <2>1. verify[v].at \in Suite /\ verify[v].name \in RunName
    BY <1>3 DEF Inv, VerifiesOK, OK, At
  <2> QED BY <1>3, <2>1, NullsFiled, PutOK DEF Inv
<1>4. ASSUME NEW r \in Runner, WriteAlone(r) PROVE FilesOK'
  <2>1. /\ run[r].suite \in Suite /\ run[r].name \in RunName
        /\ run[r].candidate \in Candidates /\ run[r].candidate.suite = run[r].suite
    BY <1>4 DEF Inv, RunsOK, WriteAlone
  <2>2. Filed(run[r].suite, run[r].candidate)
    BY <2>1 DEF Filed, Files
  <2>3. Put(run[r].suite, run[r].name, run[r].candidate)
    BY <1>4 DEF WriteAlone
  <2> QED BY <2>1, <2>2, <2>3, PutOK DEF Inv
<1>5. ASSUME NEW v \in Verifier, VerifyStep(v) PROVE FilesOK'
  <2>1. CASE KillVerify(v)
    BY <1>1, <1>3, <2>1 DEF KillVerify
  <2>2. CASE StartVerify(v) \/ PlanSuite(v) \/ Authorize(v) \/ BuildAndRender(v)
             \/ Evaluate(v) \/ LoadCandidate(v) \/ Gate(v)
    BY <1>1, <2>2 DEF StartVerify, PlanSuite, Authorize, BuildAndRender, Evaluate,
       LoadCandidate, Gate, disk
  <2> QED BY <1>2, <1>5, <2>1, <2>2 DEF VerifyStep
<1>6. ASSUME NEW a \in Accepter, AcceptStep(a) PROVE UNCHANGED files
  BY <1>6 DEF AcceptStep, StartAccept, CheckExisting, OpenBaseline, FillBaseline,
     KillAccept, disk
<1>7. ASSUME NEW r \in Runner, EvaluateAlone(r) PROVE UNCHANGED files
  BY <1>7 DEF EvaluateAlone, disk
<1>8. CASE EditSuite \/ RollJudge \/ CheckoutWithout
  BY <1>1, <1>8 DEF EditSuite, RollJudge, CheckoutWithout, disk
<1>9. CASE UNCHANGED vars
  BY <1>1, <1>9 DEF vars, disk
<1> QED BY <1>1, <1>4, <1>5, <1>6, <1>7, <1>8, <1>9 DEF Next

\* What acceptances make of the baselines.
LEMMA BaselineKept ==
  ASSUME Inv, [Next]_vars
  PROVE  BaselineOK'
<1>1. CASE UNCHANGED baseline
  BY <1>1 DEF Inv, BaselineOK
<1>2. ASSUME NEW a \in Accepter, OpenBaseline(a) PROVE BaselineOK'
  <2>1. accept[a].suite \in Suite
    BY <1>2 DEF Inv, AcceptsOK, OpenBaseline, Accepting
  <2> QED BY <1>2, <2>1, NullsTyped, NullsFiled, SetBaselineOK DEF Inv, OpenBaseline
<1>3. ASSUME NEW a \in Accepter, FillBaseline(a) PROVE BaselineOK'
  <2> DEFINE s == accept[a].suite
             c == accept[a].artifact
  <2>1. s \in Suite /\ c \in Candidates /\ c.suite = s /\ Eligible(c)
    BY <1>3 DEF Inv, AcceptsOK, FillBaseline, Accepting
  <2>2. Filed(s, c)
    BY <2>1 DEF Filed, Files
  <2>3. SetBaseline(s, c) \/ SetBaseline(s, Torn)
    BY <1>3 DEF FillBaseline
  <2> QED BY <2>1, <2>2, <2>3, NullsTyped, NullsFiled, SetBaselineOK DEF Inv
<1>4. CASE CheckoutWithout
  <2>1. PICK s \in Suite : SetBaseline(s, NoFile)
    BY <1>4 DEF CheckoutWithout
  <2> QED BY <2>1, NullsTyped, NullsFiled, SetBaselineOK DEF Inv
<1>5. ASSUME NEW v \in Verifier, VerifyStep(v) PROVE UNCHANGED baseline
  BY <1>5 DEF VerifyStep, StartVerify, PlanSuite, Authorize, BuildAndRender, Evaluate,
     WriteCandidate, LoadCandidate, Gate, KillVerify, disk
<1>6. ASSUME NEW a \in Accepter, AcceptStep(a) PROVE BaselineOK'
  <2>1. CASE StartAccept(a) \/ CheckExisting(a) \/ KillAccept(a)
    BY <1>1, <2>1 DEF StartAccept, CheckExisting, KillAccept, disk
  <2> QED BY <1>2, <1>3, <1>6, <2>1 DEF AcceptStep
<1>7. ASSUME NEW r \in Runner, EvaluateAlone(r) \/ WriteAlone(r) PROVE UNCHANGED baseline
  BY <1>7 DEF EvaluateAlone, WriteAlone, disk
<1>8. CASE EditSuite \/ RollJudge
  BY <1>1, <1>8 DEF EditSuite, RollJudge, disk
<1>9. CASE UNCHANGED vars
  BY <1>1, <1>9 DEF vars, disk
<1> QED BY <1>1, <1>4, <1>5, <1>6, <1>7, <1>8, <1>9 DEF Next
-----------------------------------------------------------------------------
(* The other processes. *)

LEMMA WorldKept ==
  ASSUME Inv, [Next]_vars
  PROVE  WorldOK'
<1>1. CASE UNCHANGED world
  BY <1>1 DEF Inv, WorldOK, world
<1>2. CASE EditSuite
  <2> PICK s \in Suite : \E p \in Policies[s] : project' = [project EXCEPT ![s] = p]
    BY <1>2 DEF EditSuite
  <2>1. PICK p \in Policies[s] : project' = [project EXCEPT ![s] = p]
    OBVIOUS
  <2>2. p \in Policy
    BY <2>1 DEF Policy
  <2>3. UNCHANGED judge
    BY <1>2 DEF EditSuite
  <2> QED BY <2>1, <2>2, <2>3 DEF Inv, WorldOK
<1>3. CASE RollJudge
  BY <1>3, BoundsAreNatural DEF Inv, WorldOK, RollJudge
<1>4. ASSUME NEW v \in Verifier, VerifyStep(v) PROVE UNCHANGED world
  BY <1>4 DEF VerifyStep, StartVerify, PlanSuite, Authorize, BuildAndRender, Evaluate,
     WriteCandidate, LoadCandidate, Gate, KillVerify
<1>5. ASSUME NEW a \in Accepter, AcceptStep(a) PROVE UNCHANGED world
  BY <1>5 DEF AcceptStep, StartAccept, CheckExisting, OpenBaseline, FillBaseline, KillAccept
<1>6. ASSUME NEW r \in Runner, EvaluateAlone(r) \/ WriteAlone(r) PROVE UNCHANGED world
  BY <1>6 DEF EvaluateAlone, WriteAlone
<1>7. CASE CheckoutWithout
  BY <1>1, <1>7 DEF CheckoutWithout
<1>8. CASE UNCHANGED vars
  BY <1>1, <1>8 DEF vars
<1> QED BY <1>1, <1>2, <1>3, <1>4, <1>5, <1>6, <1>7, <1>8 DEF Next

LEMMA RunsKept ==
  ASSUME Inv, [Next]_vars
  PROVE  RunsOK'
<1>1. CASE UNCHANGED run
  BY <1>1 DEF Inv, RunsOK
<1>2. NoRun \in RunType /\ NoRun.pc = "idle"
  BY NullsTyped DEF NoRun, RunType
<1>3. ASSUME NEW r \in Runner, EvaluateAlone(r) PROVE RunsOK'
  <2>1. PICK s \in Suite, n \in RunName, q \in Requests :
          \E c \in Evaluations(s, Rendered(s), q, judge) :
            run' = [run EXCEPT ![r] = [pc |-> "write", suite |-> s, name |-> n,
                                       candidate |-> c]]
    BY <1>3 DEF EvaluateAlone
  <2>2. PICK c \in Evaluations(s, Rendered(s), q, judge) :
          run' = [run EXCEPT ![r] = [pc |-> "write", suite |-> s, name |-> n,
                                     candidate |-> c]]
    BY <2>1
  <2>3. Rendered(s) \in Policy /\ judge \in 0..Judges
    BY DEF Rendered, Inv, WorldOK
  <2>4. c \in Candidates /\ c.suite = s
    BY <2>3, EvaluationsTyped
  <2> DEFINE e == [pc |-> "write", suite |-> s, name |-> n, candidate |-> c]
  <2>5. e \in RunType
    BY <2>4 DEF RunType, Files
  <2>6. /\ e.suite \in Suite /\ e.name \in RunName
        /\ e.candidate \in Candidates /\ e.candidate.suite = e.suite
    BY <2>4
  <2>7. run' = [run EXCEPT ![r] = e]
    BY <2>2
  <2> HIDE DEF e
  <2>8. run' \in [Runner -> RunType]
    BY <2>5, <2>7 DEF Inv, RunsOK
  <2>9. \A t \in Runner : run'[t] = e \/ run'[t] = run[t]
    BY <2>7 DEF Inv, RunsOK
  <2> QED BY <2>6, <2>8, <2>9 DEF Inv, RunsOK
<1>4. ASSUME NEW r \in Runner, WriteAlone(r) PROVE RunsOK'
  <2>1. run' = [run EXCEPT ![r] = NoRun]
    BY <1>4 DEF WriteAlone
  <2> QED BY <1>2, <2>1 DEF Inv, RunsOK
<1>5. ASSUME NEW v \in Verifier, VerifyStep(v) PROVE UNCHANGED run
  BY <1>5 DEF VerifyStep, StartVerify, PlanSuite, Authorize, BuildAndRender, Evaluate,
     WriteCandidate, LoadCandidate, Gate, KillVerify
<1>6. ASSUME NEW a \in Accepter, AcceptStep(a) PROVE UNCHANGED run
  BY <1>6 DEF AcceptStep, StartAccept, CheckExisting, OpenBaseline, FillBaseline, KillAccept
<1>7. CASE EditSuite \/ RollJudge \/ CheckoutWithout
  BY <1>1, <1>7 DEF EditSuite, RollJudge, CheckoutWithout
<1>8. CASE UNCHANGED vars
  BY <1>1, <1>8 DEF vars
<1> QED BY <1>1, <1>3, <1>4, <1>5, <1>6, <1>7, <1>8 DEF Next

LEMMA NoAcceptTyped == NoAccept \in AcceptType /\ NoAccept.pc = "idle" /\ ~Readable(NoAccept.before)
  BY NullsTyped DEF NoAccept, AcceptType

LEMMA AcceptsKept ==
  ASSUME Inv, [Next]_vars
  PROVE  AcceptsOK'
<1>1. CASE UNCHANGED accept
  BY <1>1 DEF Inv, AcceptsOK
<1>2. ASSUME NEW a \in Accepter, EndAccept(a) PROVE AcceptsOK'
  BY <1>2, NoAcceptTyped DEF Inv, AcceptsOK, EndAccept
<1>3. ASSUME NEW a \in Accepter, NEW place \in {"open", "fill"}, GotoAccept(a, place),
             accept[a].pc # "idle"
      PROVE  AcceptsOK'
  BY <1>3 DEF Inv, AcceptsOK, GotoAccept, AcceptType
<1>4. ASSUME NEW a \in Accepter, StartAccept(a) PROVE AcceptsOK'
  <2>1. PICK s \in Suite, n \in RunName, force \in BOOLEAN :
          /\ Readable(files[s][n]) /\ Acceptable(files[s][n])
          /\ accept' = [accept EXCEPT ![a] =
                          [pc |-> "check", suite |-> s, artifact |-> files[s][n],
                           force |-> force, before |-> baseline[s]]]
    BY <1>4 DEF StartAccept
  <2> DEFINE f == files[s][n]
             e == [pc |-> "check", suite |-> s, artifact |-> f, force |-> force,
                   before |-> baseline[s]]
  <2>2. f \in Candidates /\ f \in Files /\ f.suite = s /\ Eligible(f)
    BY <2>1 DEF Inv, FilesOK, Filed, Acceptable
  <2>3. baseline[s] \in Files
    BY DEF Inv, BaselineOK
  <2>4. accept' = [accept EXCEPT ![a] = e]
    BY <2>1
  <2> HIDE DEF f
  <2>5. e \in AcceptType
    BY <2>2, <2>3 DEF AcceptType
  <2>6. /\ e.suite \in Suite /\ e.artifact \in Candidates
        /\ e.artifact.suite = e.suite /\ Eligible(e.artifact)
    BY <2>2
  <2> HIDE DEF e
  <2> QED BY <2>4, <2>5, <2>6 DEF Inv, AcceptsOK
<1>5. CASE CheckoutWithout
  <2>1. PICK s \in Suite :
          accept' = [a \in Accepter |->
            [accept[a] EXCEPT !.before = IF accept[a].suite = s THEN NoFile ELSE @]]
    BY <1>5 DEF CheckoutWithout
  <2>2. ASSUME NEW a \in Accepter
        PROVE  /\ accept'[a] \in AcceptType
               /\ accept'[a].pc = accept[a].pc /\ accept'[a].suite = accept[a].suite
               /\ accept'[a].artifact = accept[a].artifact
    BY <2>1, NullsTyped DEF Inv, AcceptsOK, AcceptType
  <2>3. accept' \in [Accepter -> AcceptType]
    BY <2>1, <2>2
  <2> QED BY <2>2, <2>3 DEF Inv, AcceptsOK
<1>6. ASSUME NEW a \in Accepter, AcceptStep(a) PROVE AcceptsOK'
  <2>1. CASE CheckExisting(a)
    BY <1>2, <1>3, <2>1 DEF CheckExisting, Accepting
  <2>2. CASE OpenBaseline(a)
    BY <1>3, <2>2 DEF OpenBaseline, Accepting
  <2>3. CASE FillBaseline(a) \/ KillAccept(a)
    BY <1>2, <2>3 DEF FillBaseline, KillAccept
  <2> QED BY <1>4, <1>6, <2>1, <2>2, <2>3 DEF AcceptStep
<1>7. ASSUME NEW v \in Verifier, VerifyStep(v) PROVE UNCHANGED accept
  BY <1>7 DEF VerifyStep, StartVerify, PlanSuite, Authorize, BuildAndRender, Evaluate,
     WriteCandidate, LoadCandidate, Gate, KillVerify
<1>8. ASSUME NEW r \in Runner, EvaluateAlone(r) \/ WriteAlone(r) PROVE UNCHANGED accept
  BY <1>8 DEF EvaluateAlone, WriteAlone
<1>9. CASE EditSuite \/ RollJudge
  BY <1>1, <1>9 DEF EditSuite, RollJudge
<1>10. CASE UNCHANGED vars
  BY <1>1, <1>10 DEF vars
<1> QED BY <1>1, <1>5, <1>6, <1>7, <1>8, <1>9, <1>10 DEF Next

\* A step of one acceptance that removes no baseline.
LEMMA AwaitedStep ==
  ASSUME Inv, NEW a \in Accepter, NEW e, accept' = [accept EXCEPT ![a] = e],
         \A s \in Suite : baseline[s] # NoFile => baseline'[s] # NoFile,
         ~e.force /\ Readable(e.before) =>
           /\ e.pc = "check" => baseline'[e.suite] # NoFile
           /\ e.pc \notin {"open", "fill"}
  PROVE  Awaited'
<1> SUFFICES ASSUME NEW d \in Accepter, ~accept'[d].force, Readable(accept'[d].before)
             PROVE  /\ accept'[d].pc = "check" => baseline'[accept'[d].suite] # NoFile
                    /\ accept'[d].pc \notin {"open", "fill"}
  BY DEF Awaited
<1>1. CASE d = a
  <2>1. accept'[d] = e
    BY <1>1 DEF Inv, AcceptsOK
  <2> QED BY <2>1
<1>2. CASE d # a
  <2>1. accept'[d] = accept[d]
    BY <1>2 DEF Inv, AcceptsOK
  <2>2. accept[d].pc = "check" => accept[d].suite \in Suite
    BY DEF Inv, AcceptsOK
  <2> QED BY <2>1, <2>2 DEF Inv, Awaited
<1> QED BY <1>1, <1>2

LEMMA AwaitedKept ==
  ASSUME Inv, [Next]_vars
  PROVE  Awaited'
<1>1. CASE UNCHANGED <<baseline, accept>>
  BY <1>1 DEF Inv, Awaited
<1>2. ASSUME NEW a \in Accepter, EndAccept(a),
             \A s \in Suite : baseline[s] # NoFile => baseline'[s] # NoFile
      PROVE  Awaited'
  BY <1>2, NoAcceptTyped, AwaitedStep DEF EndAccept
<1>3. ASSUME NEW a \in Accepter, StartAccept(a) PROVE Awaited'
  <2>1. PICK s \in Suite, n \in RunName, force \in BOOLEAN :
          accept' = [accept EXCEPT ![a] =
                       [pc |-> "check", suite |-> s, artifact |-> files[s][n],
                        force |-> force, before |-> baseline[s]]]
    BY <1>3 DEF StartAccept
  <2> DEFINE e == [pc |-> "check", suite |-> s, artifact |-> files[s][n],
                   force |-> force, before |-> baseline[s]]
  <2>2. UNCHANGED baseline
    BY <1>3 DEF StartAccept, disk
  <2>3. Readable(e.before) => baseline'[e.suite] # NoFile
    BY <2>2 DEF Readable
  <2>4. accept' = [accept EXCEPT ![a] = e] /\ e.pc = "check"
    BY <2>1
  <2> HIDE DEF e
  <2> QED BY <2>2, <2>3, <2>4, AwaitedStep
<1>4. ASSUME NEW a \in Accepter, CheckExisting(a) PROVE Awaited'
  <2> DEFINE e == [accept[a] EXCEPT !.pc = "open"]
  <2>1. UNCHANGED baseline /\ accept[a].pc = "check"
    BY <1>4 DEF CheckExisting, Accepting, disk
  <2>2. CASE MayWrite(a) /\ accept' = [accept EXCEPT ![a] = e]
    <3>1. e.pc = "open" /\ e.force = accept[a].force /\ e.before = accept[a].before
      BY DEF Inv, AcceptsOK, AcceptType
    <3>2. e.force \/ ~Readable(e.before)
      BY <2>1, <2>2, <3>1 DEF Inv, Awaited, MayWrite
    <3> HIDE DEF e
    <3> QED BY <2>1, <2>2, <3>1, <3>2, AwaitedStep
  <2>3. CASE EndAccept(a)
    BY <1>2, <2>1, <2>3
  <2> QED BY <1>4, <2>2, <2>3 DEF CheckExisting, GotoAccept
<1>5. ASSUME NEW a \in Accepter, OpenBaseline(a) PROVE Awaited'
  <2> DEFINE e == [accept[a] EXCEPT !.pc = "fill"]
  <2>1. accept[a].suite \in Suite /\ accept[a].pc = "open"
    BY <1>5 DEF Inv, AcceptsOK, OpenBaseline, Accepting
  <2>2. \A s \in Suite : baseline'[s] \in {baseline[s], Torn}
    BY <1>5 DEF OpenBaseline, SetBaseline, Inv, BaselineOK
  <2>3. e.force = accept[a].force /\ e.before = accept[a].before
    BY DEF Inv, AcceptsOK, AcceptType
  <2>4. e.force \/ ~Readable(e.before)
    BY <2>1, <2>3 DEF Inv, Awaited
  <2>5. accept' = [accept EXCEPT ![a] = e]
    BY <1>5 DEF OpenBaseline, GotoAccept
  <2> HIDE DEF e
  <2> QED BY <2>2, <2>4, <2>5, NullsTyped, AwaitedStep
<1>6. ASSUME NEW a \in Accepter, FillBaseline(a) PROVE Awaited'
  <2>1. accept[a].artifact \in Candidates
    BY <1>6 DEF Inv, AcceptsOK, FillBaseline, Accepting
  <2>2. \A s \in Suite : baseline'[s] \in {baseline[s], accept[a].artifact, Torn}
    BY <1>6 DEF FillBaseline, SetBaseline, Inv, BaselineOK
  <2>3. EndAccept(a)
    BY <1>6 DEF FillBaseline
  <2> QED BY <1>2, <2>1, <2>2, <2>3, NullsTyped, CandidatesAreReadable
<1>7. ASSUME NEW a \in Accepter, KillAccept(a) PROVE Awaited'
  BY <1>2, <1>7 DEF KillAccept, disk
<1>8. CASE CheckoutWithout
  <2>1. PICK s \in Suite :
          /\ SetBaseline(s, NoFile)
          /\ accept' = [a \in Accepter |->
               [accept[a] EXCEPT !.before = IF accept[a].suite = s THEN NoFile ELSE @]]
    BY <1>8 DEF CheckoutWithout
  <2>2. \A t \in Suite : t # s => baseline'[t] = baseline[t]
    BY <2>1 DEF SetBaseline, Inv, BaselineOK
  <2> SUFFICES ASSUME NEW d \in Accepter, ~accept'[d].force, Readable(accept'[d].before)
               PROVE  /\ accept'[d].pc = "check" => baseline'[accept'[d].suite] # NoFile
                      /\ accept'[d].pc \notin {"open", "fill"}
    BY DEF Awaited
  <2>3. /\ accept'[d].pc = accept[d].pc /\ accept'[d].suite = accept[d].suite
        /\ accept'[d].force = accept[d].force
        /\ accept'[d].before = IF accept[d].suite = s THEN NoFile ELSE accept[d].before
    BY <2>1 DEF Inv, AcceptsOK, AcceptType
  <2>4. accept[d].suite # s /\ accept'[d].before = accept[d].before
    BY <2>3, NullsTyped
  <2>5. accept[d].pc = "check" => accept[d].suite \in Suite
    BY DEF Inv, AcceptsOK
  <2> QED BY <2>2, <2>3, <2>4, <2>5 DEF Inv, Awaited
<1>9. ASSUME NEW a \in Accepter, AcceptStep(a) PROVE Awaited'
  BY <1>3, <1>4, <1>5, <1>6, <1>7, <1>9 DEF AcceptStep
<1>10. ASSUME NEW v \in Verifier, VerifyStep(v) PROVE UNCHANGED <<baseline, accept>>
  BY <1>10 DEF VerifyStep, StartVerify, PlanSuite, Authorize, BuildAndRender, Evaluate,
     WriteCandidate, LoadCandidate, Gate, KillVerify, disk
<1>11. ASSUME NEW r \in Runner, EvaluateAlone(r) \/ WriteAlone(r)
       PROVE  UNCHANGED <<baseline, accept>>
  BY <1>11 DEF EvaluateAlone, WriteAlone, disk
<1>12. CASE EditSuite \/ RollJudge
  BY <1>1, <1>12 DEF EditSuite, RollJudge, disk
<1>13. CASE UNCHANGED vars
  BY <1>1, <1>13 DEF vars, disk
<1> QED BY <1>1, <1>8, <1>9, <1>10, <1>11, <1>12, <1>13 DEF Next

LEMMA VerifiesKept ==
  ASSUME Inv, [Next]_vars
  PROVE  VerifiesOK'
<1>1. CASE UNCHANGED verify
  BY <1>1 DEF Inv, VerifiesOK
<1>2. ASSUME NEW v \in Verifier, VerifyStep(v) PROVE VerifiesOK'
  BY <1>2, StartVerifyOK, PlanSuiteOK, AuthorizeOK, BuildAndRenderOK, EvaluateOK,
     WriteCandidateOK, LoadCandidateOK, GateOK, KillVerifyOK DEF Inv, VerifyStep
<1>3. ASSUME NEW a \in Accepter, AcceptStep(a) PROVE UNCHANGED verify
  BY <1>3 DEF AcceptStep, StartAccept, CheckExisting, OpenBaseline, FillBaseline, KillAccept
<1>4. ASSUME NEW r \in Runner, EvaluateAlone(r) \/ WriteAlone(r) PROVE UNCHANGED verify
  BY <1>4 DEF EvaluateAlone, WriteAlone
<1>5. CASE EditSuite \/ RollJudge \/ CheckoutWithout
  BY <1>1, <1>5 DEF EditSuite, RollJudge, CheckoutWithout
<1>6. CASE UNCHANGED vars
  BY <1>1, <1>6 DEF vars
<1> QED BY <1>1, <1>2, <1>3, <1>4, <1>5, <1>6 DEF Next
-----------------------------------------------------------------------------
(* Theorems. *)

LEMMA InitOK == Init => Inv
<1> SUFFICES ASSUME Init PROVE Inv
  OBVIOUS
<1>1. WorldOK
  <2>1. \A s \in Suite : Policies[s] \subseteq Policy
    BY DEF Policy
  <2> QED BY <2>1, BoundsAreNatural DEF Init, WorldOK
<1>2. FilesOK
  BY NullsTyped, NullsFiled DEF Init, FilesOK
<1>3. BaselineOK
  <2>1. PICK b \in [Suite -> {NoFile} \cup UNION {Earlier(s) : s \in Suite}] :
          baseline = b /\ \A s \in Suite : b[s] \in {NoFile} \cup Earlier(s)
    BY DEF Init
  <2>2. ASSUME NEW s \in Suite
        PROVE  /\ Filed(s, baseline[s]) /\ baseline[s] \in Files
               /\ Readable(baseline[s]) => Eligible(baseline[s])
    <3>1. CASE baseline[s] = NoFile
      BY <3>1, NullsTyped, NullsFiled
    <3>2. CASE baseline[s] \in Earlier(s)
      <4> DEFINE q == CHOOSE q \in Requests : TRUE
      <4>1. q \in Requests
        BY RequestsExist
      <4>2. 0 \in 0..Judges
        BY BoundsAreNatural
      <4>3. PICK c \in Evaluations(s, project[s], q, 0) :
              /\ Eligible(c)
              /\ baseline[s] = c \/ baseline[s] = [c EXCEPT !.judges = NoField]
        BY <3>2 DEF Earlier
      <4> HIDE DEF q
      <4>4. c \in Candidates /\ c.suite = s
        BY <1>1, <4>1, <4>2, EvaluationsTyped DEF WorldOK
      <4>5. /\ baseline[s] \in Candidates /\ baseline[s].suite = s
            /\ Eligible(baseline[s])
        BY <4>3, <4>4, WithoutFieldTyped
      <4> QED BY <4>5 DEF Filed, Files
    <3> QED BY <2>1, <3>1, <3>2
  <2>3. baseline \in [Suite -> Files]
    BY <2>1, <2>2
  <2> QED BY <2>2, <2>3 DEF BaselineOK
<1>4. RunsOK
  <2>1. NoRun \in RunType /\ NoRun.pc = "idle"
    BY NullsTyped DEF NoRun, RunType
  <2> QED BY <2>1 DEF Init, RunsOK
<1>5. AcceptsOK /\ Awaited
  BY NoAcceptTyped DEF Init, AcceptsOK, Awaited
<1>6. VerifiesOK
  <2>1. NoVerify.pc = "idle" /\ NoVerify.results = <<>>
    BY DEF NoVerify
  <2>2. OK(NoVerify)
    BY <2>1, NullsTyped DEF OK, Busy
  <2> QED BY <2>2, NoVerifyTyped DEF Init, VerifiesOK
<1> QED BY <1>1, <1>2, <1>3, <1>4, <1>5, <1>6 DEF Inv

LEMMA Invariance == Spec => []Inv
<1>1. Inv /\ [Next]_vars => Inv'
  BY WorldKept, FilesKept, BaselineKept, RunsKept, AcceptsKept, AwaitedKept, VerifiesKept
     DEF Inv
<1> QED BY <1>1, InitOK, PTL DEF Spec

\* Reports, files and processes have the shape the commands give them
\* (eval/lifecycle.py, eval/results.py), for any number of suites and runs.
THEOREM TypeCorrect == Spec => []TypeOK
<1>1. Inv => TypeOK
  <2> SUFFICES ASSUME Inv PROVE TypeOK
    OBVIOUS
  <2>1. ASSUME NEW v \in Verifier
        PROVE  \E S \in SUBSET Suite : verify[v] \in VerifyType([S -> Result])
    <3>1. verify[v] \in VerifyType(Reports)
      BY DEF Inv, VerifiesOK
    <3>2. verify[v].results \in Reports
      BY <3>1 DEF VerifyType
    <3>3. PICK S \in SUBSET Suite : verify[v].results \in [S -> Result]
      BY <3>2 DEF Reports
    <3>4. verify[v] \in VerifyType([S -> Result])
      BY <3>1, <3>3 DEF VerifyType
    <3> QED BY <3>4
  <2> QED BY <2>1 DEF Inv, WorldOK, FilesOK, BaselineOK, RunsOK, AcceptsOK, TypeOK
<1> QED BY <1>1, Invariance, PTL

\* A suite that eval verify reports as passed (eval/verify.py:222) was earned by
\* the candidate it names, under the previewed plan and against the baseline it
\* was gated with, which shares a judge of every metric for which one is known; it
\* was gated without one only if there was no file.  All that however edits,
\* acceptances, checkouts, judges and other runs interleave.
THEOREM PassesAreEarned == Spec => []PassedIsEarned
<1>1. Inv => PassedIsEarned
  BY DEF Inv, VerifiesOK, OK, Earned, PassedIsEarned
<1> QED BY <1>1, Invariance, PTL

\* Every baseline that can be read passes its own gate (eval/baseline.py:13-36).
THEOREM BaselinesAreSound == Spec => []BaselinesPassThemselves
<1>1. Inv => BaselinesPassThemselves
  <2> SUFFICES ASSUME Inv, NEW s \in Suite, Readable(baseline[s])
               PROVE  baseline[s].suite = s /\ Compare(baseline[s], baseline[s])
    BY DEF BaselinesPassThemselves
  <2>1. baseline[s] \in Candidates /\ baseline[s].suite = s /\ Eligible(baseline[s])
    BY DEF Inv, BaselineOK, Filed
  <2> QED BY <2>1, EligibleGatesItself
<1> QED BY <1>1, Invariance, PTL

\* No baseline is replaced but with --force, or by an acceptance that began before
\* the baseline was there (eval/baseline.py:64), for any number of acceptances.
THEOREM NothingReplacedUnasked == Spec => ReplacedByForce
<1> DEFINE Step1 == \A s \in Suite : Replaced(s) =>
              \E a \in Accepter : /\ accept[a].suite = s /\ accept'[a] # accept[a]
                                  /\ accept[a].force \/ accept[a].before # baseline[s]
<1>1. ASSUME Inv, Next PROVE Step1
  <2> SUFFICES ASSUME NEW s \in Suite, Replaced(s)
               PROVE  \E a \in Accepter :
                        /\ accept[a].suite = s /\ accept'[a] # accept[a]
                        /\ accept[a].force \/ accept[a].before # baseline[s]
    OBVIOUS
  <2>1. Readable(baseline[s]) /\ baseline'[s] # baseline[s] /\ baseline'[s] # NoFile
    BY DEF Replaced
  <2>2. ASSUME NEW a \in Accepter, accept[a].pc \in {"open", "fill"}, accept[a].suite = s,
               accept'[a].pc # accept[a].pc
        PROVE  \E d \in Accepter :
                 /\ accept[d].suite = s /\ accept'[d] # accept[d]
                 /\ accept[d].force \/ accept[d].before # baseline[s]
    <3>1. accept[a].force \/ ~Readable(accept[a].before)
      BY <2>2, <1>1 DEF Inv, Awaited
    <3>2. accept[a].force \/ accept[a].before # baseline[s]
      BY <2>1, <3>1
    <3> QED BY <2>2, <3>2
  <2>3. ASSUME NEW a \in Accepter, OpenBaseline(a)
        PROVE  /\ accept[a].pc = "open" /\ accept'[a].pc = "fill"
               /\ accept[a].suite = s
    <3>1. accept'[a].pc = "fill" /\ accept[a].pc = "open"
      BY <1>1, <2>3 DEF OpenBaseline, GotoAccept, Accepting, Inv, AcceptsOK, AcceptType
    <3>2. accept[a].suite = s
      BY <1>1, <2>1, <2>3 DEF OpenBaseline, SetBaseline, Inv, BaselineOK
    <3> QED BY <3>1, <3>2
  <2>4. ASSUME NEW a \in Accepter, FillBaseline(a)
        PROVE  /\ accept[a].pc = "fill" /\ accept'[a].pc = "idle"
               /\ accept[a].suite = s
    <3>1. accept'[a].pc = "idle" /\ accept[a].pc = "fill"
      BY <1>1, <2>4, NoAcceptTyped DEF FillBaseline, EndAccept, Accepting, Inv, AcceptsOK
    <3>2. accept[a].suite = s
      BY <1>1, <2>1, <2>4 DEF FillBaseline, SetBaseline, Inv, BaselineOK
    <3> QED BY <3>1, <3>2
  <2>5. ~CheckoutWithout
    <3> SUFFICES ASSUME CheckoutWithout PROVE FALSE
      OBVIOUS
    <3>1. PICK t \in Suite : SetBaseline(t, NoFile)
      BY DEF CheckoutWithout
    <3> QED BY <1>1, <2>1, <3>1 DEF SetBaseline, Inv, BaselineOK
  <2>6. ASSUME NEW v \in Verifier PROVE ~VerifyStep(v)
    BY <2>1 DEF VerifyStep, StartVerify, PlanSuite, Authorize, BuildAndRender, Evaluate,
       WriteCandidate, LoadCandidate, Gate, KillVerify, disk
  <2>7. ASSUME NEW r \in Runner PROVE ~EvaluateAlone(r) /\ ~WriteAlone(r)
    BY <2>1 DEF EvaluateAlone, WriteAlone, disk
  <2>8. ASSUME NEW a \in Accepter
        PROVE  ~StartAccept(a) /\ ~CheckExisting(a) /\ ~KillAccept(a)
    BY <2>1 DEF StartAccept, CheckExisting, KillAccept, disk
  <2>9. ~EditSuite /\ ~RollJudge
    BY <2>1 DEF EditSuite, RollJudge, disk
  <2>10. PICK a \in Accepter : OpenBaseline(a) \/ FillBaseline(a)
    BY <1>1, <2>5, <2>6, <2>7, <2>8, <2>9 DEF Next, AcceptStep
  <2> QED BY <2>2, <2>3, <2>4, <2>10
<1>2. Inv /\ [Next]_vars => [Step1]_vars
  BY <1>1
<1> HIDE DEF Step1
<1>3. Spec => [][Step1]_vars
  BY <1>2, Invariance, PTL DEF Spec
<1> QED BY <1>3 DEF Step1, ReplacedByForce
-----------------------------------------------------------------------------
(* The report of a verify.  While it goes on, the suites before the current one *)
(* are decided and paid for, and those after it have no result.                 *)

Decided(r) ==
  /\ r.execution = "completed" /\ r.gate \in {"passed", "failed"}
  /\ r.passed \in {"true", "false"} /\ r.candidate # NoFile

Conclusive == {"passed", "quality_failed", "infrastructure_failed"}

Troubled(x) ==
  {s \in x.selected : x.results[s].execution = "failed" \/ x.results[s].gate = "error"}

\* ReportTruth of one report.
Truthful(x) ==
  /\ DOMAIN x.results = x.selected
  /\ {s \in x.selected : x.results[s].candidate # NoFile} = x.paid
  /\ x.outcome = "passed" <=> \A s \in x.selected : x.results[s].passed = "true"
  /\ x.outcome = "infrastructure_failed" <=> Troubled(x) # {}
  /\ \A s \in Troubled(x), t \in x.selected :
       /\ t < s => x.results[t].passed # "null"
       /\ t > s => x.results[t] = NotRun

\* The candidate of the current suite is on disk.
PaidNow(x) == IF x.pc \in {"load", "gate"} THEN {x.at} ELSE {}

Looping == {"build"} \cup Busy

Progress(x) ==
  /\ x.pc # "ended" => x.outcome = "none"
  /\ x.pc \in {"plan", "authorize"} => x.paid = {} /\ DOMAIN x.results = {}
  /\ x.pc = "authorize" => \A s \in x.selected : x.at <= s
  /\ x.pc \in Looping =>
       /\ DOMAIN x.results = {s \in x.selected : s < x.at}
       /\ \A s \in DOMAIN x.results : Decided(x.results[s])
       /\ x.paid = DOMAIN x.results \cup PaidNow(x)
  /\ x.outcome \in Conclusive => Truthful(x)

ReportInv == \A v \in Verifier : Progress(verify[v])

LEMMA FirstIsLeast ==
  ASSUME NEW S \in SUBSET Suite, S # {}
  PROVE  \A t \in S : First(S) <= t
<1>1. S \in SUBSET Nat
  BY SuitesAreNumbers
<1>2. \E x \in S : \A y \in S : x <= y
  BY <1>1, LeastExists
<1> QED BY <1>2 DEF First

LEMMA ProgressStep ==
  ASSUME VerifiesOK, ReportInv, NEW v \in Verifier, NEW e, Progress(e), Step(v, e)
  PROVE  ReportInv'
<1>1. verify' = [verify EXCEPT ![v] = e]
  BY DEF Step
<1>2. \A w \in Verifier : verify'[w] = e \/ verify'[w] = verify[w]
  BY <1>1 DEF VerifiesOK
<1> QED BY <1>2 DEF ReportInv

\* A command that ends without a verdict.
LEMMA EndProgress ==
  ASSUME VerifiesOK, ReportInv, NEW v \in Verifier, NEW outcome \in {"refused", "planned"},
         Step(v, End(v, outcome))
  PROVE  ReportInv'
<1> DEFINE e == End(v, outcome)
<1>1. e.pc = "ended" /\ e.outcome = outcome
  BY DEF End, NoVerify
<1>2. Step(v, e)
  OBVIOUS
<1> HIDE DEF e
<1>3. Progress(e)
  BY <1>1 DEF Progress, Looping, Busy, Conclusive
<1> QED BY <1>2, <1>3, ProgressStep

LEMMA EndFields ==
  ASSUME NEW v \in Verifier, NEW outcome
  PROVE  LET e == End(v, outcome) IN
         /\ e.pc = "ended" /\ e.outcome = outcome /\ e.selected = verify[v].selected
         /\ e.paid = verify[v].paid /\ e.results = verify[v].results
  BY DEF End, NoVerify

\* The loop with the current suite under way: a step that adds no result.
LEMMA GoOnProgress ==
  ASSUME VerifiesOK, ReportInv, NEW v \in Verifier, NEW e, Step(v, e),
         verify[v].pc \in Looping, e.pc \in Looping,
         e.outcome = verify[v].outcome, e.selected = verify[v].selected,
         e.at = verify[v].at, e.results = verify[v].results,
         e.paid = DOMAIN e.results \cup PaidNow(e)
  PROVE  ReportInv'
<1>1. Progress(verify[v])
  BY DEF ReportInv
<1>2. e.outcome = "none"
  BY <1>1 DEF Progress, Looping, Busy
<1>3. Progress(e)
  BY <1>1, <1>2 DEF Progress, Looping, Busy, Conclusive
<1> QED BY <1>3, ProgressStep

LEMMA StartVerifyProgress ==
  ASSUME VerifiesOK, ReportInv, NEW v \in Verifier, StartVerify(v)
  PROVE  ReportInv'
<1>1. PICK S \in (SUBSET Suite) \ {{}}, r \in Requests, apply \in BOOLEAN :
        Step(v, [NoVerify EXCEPT !.pc = "plan", !.selected = S, !.requested = r,
                                 !.apply = apply, !.at = First(S)])
  BY DEF StartVerify
<1> DEFINE e == [NoVerify EXCEPT !.pc = "plan", !.selected = S, !.requested = r,
                                 !.apply = apply, !.at = First(S)]
<1>2. e.pc = "plan" /\ e.outcome = "none" /\ e.paid = {} /\ e.results = <<>>
  BY DEF NoVerify
<1>3. Step(v, e)
  BY <1>1
<1> HIDE DEF e
<1>4. Progress(e)
  BY <1>2, NullsTyped DEF Progress, Looping, Busy, Conclusive
<1> QED BY <1>3, <1>4, ProgressStep

LEMMA PlanSuiteProgress ==
  ASSUME VerifiesOK, ReportInv, NEW v \in Verifier, PlanSuite(v)
  PROVE  ReportInv'
<1> DEFINE x == verify[v]
           planned == [s \in DOMAIN x.plan \cup {x.at} |->
                         IF s = x.at THEN Rendered(s) ELSE x.plan[s]]
           pc == IF Later(v) = {} THEN "authorize" ELSE "plan"
           at == IF Later(v) = {} THEN First(x.selected) ELSE First(Later(v))
           e == [x EXCEPT !.plan = planned, !.pc = pc, !.at = at]
<1>1. x \in VerifyType(Reports) /\ OK(x) /\ Progress(x) /\ x.pc = "plan"
  BY DEF VerifiesOK, ReportInv, PlanSuite, At
<1>2. x.outcome = "none" /\ x.paid = {} /\ DOMAIN x.results = {}
  BY <1>1 DEF Progress
<1>3. x.selected \in SUBSET Suite /\ x.selected # {}
  BY <1>1 DEF OK, VerifyType
<1>4. Refuse(v) \/ Step(v, e)
  BY DEF PlanSuite
<1>5. CASE Refuse(v)
  BY <1>5, EndProgress DEF Refuse
<1>6. CASE Step(v, e)
  <2>1. pc \in {"plan", "authorize"} /\ (pc = "authorize" => at = First(x.selected))
    OBVIOUS
  <2> HIDE DEF planned, pc, at
  <2>2. /\ e.pc = pc /\ e.at = at /\ e.outcome = "none" /\ e.paid = {}
        /\ e.results = x.results /\ e.selected = x.selected
    BY <1>1, <1>2 DEF VerifyType
  <2> HIDE DEF e
  <2>3. Progress(e)
    BY <1>2, <1>3, <2>1, <2>2, FirstIsLeast DEF Progress, Looping, Busy, Conclusive
  <2> QED BY <1>6, <2>3, ProgressStep
<1> QED BY <1>4, <1>5, <1>6

LEMMA AuthorizeProgress ==
  ASSUME VerifiesOK, ReportInv, NEW v \in Verifier, Authorize(v)
  PROVE  ReportInv'
<1> DEFINE x == verify[v]
           e == [x EXCEPT !.pc = "build"]
<1>1. x \in VerifyType(Reports) /\ OK(x) /\ Progress(x) /\ x.pc = "authorize"
  BY DEF VerifiesOK, ReportInv, Authorize, At
<1>2. /\ x.outcome = "none" /\ x.paid = {} /\ DOMAIN x.results = {}
      /\ \A s \in x.selected : x.at <= s
  BY <1>1 DEF Progress
<1>3. x.at \in Nat /\ x.selected \in SUBSET Nat
  <2>1. x.at \in Suite /\ x.selected \in SUBSET Suite
    BY <1>1 DEF OK, VerifyType
  <2> QED BY <2>1, SuitesAreNumbers
<1>4. Step(v, End(v, "planned")) \/ Refuse(v) \/ Step(v, e)
  BY DEF Authorize, Goto
<1>5. CASE Step(v, e)
  <2>1. /\ e.pc = "build" /\ e.at = x.at /\ e.outcome = "none" /\ e.paid = {}
        /\ e.results = x.results /\ e.selected = x.selected
    BY <1>1, <1>2 DEF VerifyType
  <2> HIDE DEF e
  <2>2. {s \in e.selected : s < e.at} = {}
    <3>1. ASSUME NEW s \in x.selected PROVE ~(s < x.at)
      BY <1>2, <1>3
    <3> QED BY <2>1, <3>1
  <2>3. Progress(e)
    BY <1>2, <2>1, <2>2 DEF Progress, PaidNow, Looping, Busy, Conclusive
  <2> QED BY <1>5, <2>3, ProgressStep
<1> QED BY <1>4, <1>5, EndProgress DEF Refuse

\* The report after a controlled error: the current suite alone has it, those
\* before it are decided and those after it are not run.
LEMMA FailProgress ==
  ASSUME VerifiesOK, ReportInv, NEW v \in Verifier, verify[v].pc \in Looping,
         NEW execution \in {"failed", "completed"}, NEW gate \in {"not_run", "error"},
         execution = "failed" \/ gate = "error",
         NEW candidate, candidate # NoFile <=> PaidNow(verify[v]) # {},
         Fail(v, execution, gate, candidate)
  PROVE  ReportInv'
<1> DEFINE x == verify[v]
           ended == End(v, "infrastructure_failed")
           result == [NotRun EXCEPT !.execution = execution, !.gate = gate,
                                    !.candidate = candidate]
           results == ResultsAfter(v, result)
           e == [ended EXCEPT !.results = results]
<1>1. x \in VerifyType(Reports) /\ OK(x) /\ Progress(x)
  BY DEF VerifiesOK, ReportInv
<1>2. x.at \in x.selected /\ x.selected \in SUBSET Nat
  <2>1. x.at \in x.selected /\ x.selected \in SUBSET Suite
    BY <1>1 DEF OK, Looping, Busy, VerifyType
  <2> QED BY <2>1, SuitesAreNumbers
<1>3. /\ DOMAIN x.results = {s \in x.selected : s < x.at}
      /\ \A s \in DOMAIN x.results : Decided(x.results[s])
      /\ x.paid = DOMAIN x.results \cup PaidNow(x)
  BY <1>1 DEF Progress
<1>4. /\ result.execution = execution /\ result.gate = gate
      /\ result.candidate = candidate /\ result.passed = "null"
  BY DEF NotRun
<1>5. NotRun.execution = "not_run" /\ NotRun.gate = "not_run" /\ NotRun.candidate = NoFile
      /\ NotRun.passed = "null"
  BY DEF NotRun
<1>6. /\ ended.pc = "ended" /\ ended.outcome = "infrastructure_failed"
      /\ ended.selected = x.selected /\ ended.paid = x.paid
      /\ ended = [ended EXCEPT !.results = ended.results]
      /\ ended \in VerifyType(Reports)
  <2>1. ended \in VerifyType(Reports)
    BY EndTyped DEF Outcomes
  <2>2. /\ ended.pc = "ended" /\ ended.outcome = "infrastructure_failed"
        /\ ended.selected = x.selected /\ ended.paid = x.paid
    BY EndFields
  <2> HIDE DEF ended
  <2>3. ended = [ended EXCEPT !.results = ended.results]
    BY <2>1 DEF VerifyType
  <2> QED BY <2>1, <2>2, <2>3
<1>7. Step(v, e)
  BY DEF Fail
<1> HIDE DEF result, ended
<1>8. Later(v) = {s \in x.selected : s > x.at}
  BY DEF Later
<1>9. /\ DOMAIN results = x.selected
      /\ results[x.at] = result
      /\ \A s \in x.selected : s < x.at => results[s] = x.results[s]
      /\ \A s \in x.selected : s > x.at => results[s] = NotRun
  <2> DEFINE S == DOMAIN x.results \cup {x.at} \cup Later(v)
  <2>1. S = x.selected
    <3>1. \A s \in x.selected : s < x.at \/ s = x.at \/ s > x.at
      BY <1>2
    <3> QED BY <1>2, <1>3, <1>8, <3>1
  <2>2. results = [s \in S |-> IF s = x.at THEN result
                               ELSE IF s \in Later(v) THEN NotRun ELSE x.results[s]]
    BY DEF ResultsAfter
  <2> HIDE DEF S, results
  <2>3. \A s \in x.selected : s < x.at => s # x.at /\ s \notin Later(v)
    BY <1>2, <1>8
  <2>4. \A s \in x.selected : s > x.at => s # x.at /\ s \in Later(v)
    BY <1>2, <1>8
  <2> QED BY <1>2, <2>1, <2>2, <2>3, <2>4
<1> HIDE DEF results
<1>10. /\ e.pc = "ended" /\ e.outcome = "infrastructure_failed" /\ e.selected = x.selected
       /\ e.paid = x.paid /\ e.results = results
  BY <1>6 DEF VerifyType
<1> HIDE DEF e
<1>11. \A s \in x.selected :
         /\ s < x.at => Decided(results[s])
         /\ s < x.at \/ s = x.at \/ s > x.at
  BY <1>2, <1>3, <1>9
<1>12. Troubled(e) = {x.at}
  <2>1. ASSUME NEW s \in x.selected, s # x.at
        PROVE  results[s].execution # "failed" /\ results[s].gate # "error"
    <3>1. CASE s < x.at
      BY <1>11, <3>1 DEF Decided
    <3>2. CASE s > x.at
      BY <1>5, <1>9, <3>2
    <3> QED BY <1>11, <2>1, <3>1, <3>2
  <2>2. results[x.at].execution = "failed" \/ results[x.at].gate = "error"
    BY <1>4, <1>9
  <2> QED BY <1>2, <1>10, <2>1, <2>2 DEF Troubled
<1>13. {s \in e.selected : e.results[s].candidate # NoFile} = e.paid
  <2>1. ASSUME NEW s \in x.selected, s < x.at
        PROVE  results[s].candidate # NoFile /\ s \in x.paid
    BY <1>3, <1>11, <2>1 DEF Decided
  <2>2. results[x.at].candidate # NoFile <=> x.at \in x.paid
    <3>1. x.at \notin DOMAIN x.results
      BY <1>2, <1>3
    <3> QED BY <1>3, <1>4, <1>9, <3>1 DEF PaidNow
  <2>3. ASSUME NEW s \in x.selected, s > x.at
        PROVE  results[s].candidate = NoFile /\ s \notin x.paid
    <3>1. s # x.at /\ ~(s < x.at)
      BY <1>2, <2>3
    <3>2. s \notin x.paid
      BY <1>3, <3>1 DEF PaidNow
    <3> QED BY <1>5, <1>9, <2>3, <3>2
  <2>4. x.paid \in SUBSET x.selected
    BY <1>2, <1>3 DEF PaidNow
  <2> QED BY <1>10, <1>11, <2>1, <2>2, <2>3, <2>4
<1>14. Truthful(e)
  <2>1. ~(\A s \in e.selected : e.results[s].passed = "true")
    BY <1>2, <1>4, <1>9, <1>10
  <2>2. ASSUME NEW s \in Troubled(e), NEW t \in e.selected
        PROVE  /\ t < s => e.results[t].passed # "null"
               /\ t > s => e.results[t] = NotRun
    BY <1>9, <1>10, <1>11, <1>12, <2>2 DEF Decided
  <2>3. e.outcome # "passed" /\ Troubled(e) # {} /\ DOMAIN e.results = e.selected
    BY <1>9, <1>10, <1>12
  <2> QED BY <1>10, <1>13, <2>1, <2>2, <2>3 DEF Truthful
<1>15. Progress(e)
  BY <1>10, <1>14 DEF Progress, Looping, Busy
<1> QED BY <1>7, <1>15, ProgressStep

LEMMA BuildAndRenderProgress ==
  ASSUME VerifiesOK, ReportInv, NEW v \in Verifier, BuildAndRender(v)
  PROVE  ReportInv'
<1> DEFINE x == verify[v]
           e == [x EXCEPT !.pc = "evaluate", !.since = judge, !.current = Rendered(x.at)]
<1>1. x \in VerifyType(Reports) /\ Progress(x) /\ x.pc = "build"
  BY DEF VerifiesOK, ReportInv, BuildAndRender, At
<1>2. PaidNow(x) = {} /\ x.pc \in Looping /\ x.paid = DOMAIN x.results
  BY <1>1 DEF PaidNow, Looping, Progress
<1>3. FailBefore(v) \/ Step(v, e)
  BY DEF BuildAndRender
<1>4. CASE FailBefore(v)
  BY <1>2, <1>4, FailProgress DEF FailBefore
<1>5. CASE Step(v, e)
  <2>1. /\ e.pc = "evaluate" /\ e.outcome = x.outcome /\ e.selected = x.selected
        /\ e.at = x.at /\ e.results = x.results /\ e.paid = x.paid
    BY <1>1 DEF VerifyType
  <2> HIDE DEF e
  <2>2. PaidNow(e) = {} /\ e.pc \in Looping
    BY <2>1 DEF PaidNow, Looping, Busy
  <2> QED BY <1>2, <1>5, <2>1, <2>2, GoOnProgress
<1> QED BY <1>3, <1>4, <1>5

LEMMA EvaluateProgress ==
  ASSUME VerifiesOK, ReportInv, NEW v \in Verifier, Evaluate(v)
  PROVE  ReportInv'
<1> DEFINE x == verify[v]
           e(n, c) == [x EXCEPT !.pc = "write", !.since = 0, !.name = n, !.candidate = c]
<1>1. x \in VerifyType(Reports) /\ Progress(x) /\ x.pc = "evaluate"
  BY DEF VerifiesOK, ReportInv, Evaluate, At
<1>2. PaidNow(x) = {} /\ x.pc \in Looping /\ x.paid = DOMAIN x.results
  BY <1>1 DEF PaidNow, Looping, Busy, Progress
<1>3. CASE FailBefore(v)
  BY <1>2, <1>3, FailProgress DEF FailBefore
<1>4. ASSUME NEW n \in RunName, NEW c, Step(v, e(n, c))
      PROVE  ReportInv'
  <2>1. /\ e(n, c).pc = "write" /\ e(n, c).outcome = x.outcome
        /\ e(n, c).selected = x.selected /\ e(n, c).at = x.at
        /\ e(n, c).results = x.results /\ e(n, c).paid = x.paid
    BY <1>1 DEF VerifyType
  <2> HIDE DEF e
  <2>2. PaidNow(e(n, c)) = {} /\ e(n, c).pc \in Looping
    BY <2>1 DEF PaidNow, Looping, Busy
  <2> QED BY <1>2, <1>4, <2>1, <2>2, GoOnProgress
<1> QED BY <1>3, <1>4 DEF Evaluate

LEMMA WriteCandidateProgress ==
  ASSUME VerifiesOK, ReportInv, NEW v \in Verifier, WriteCandidate(v)
  PROVE  ReportInv'
<1> DEFINE x == verify[v]
           e == [x EXCEPT !.pc = "load", !.paid = @ \cup {x.at}]
<1>1. x \in VerifyType(Reports) /\ Progress(x) /\ x.pc = "write"
  BY DEF VerifiesOK, ReportInv, WriteCandidate, At
<1>2. PaidNow(x) = {} /\ x.pc \in Looping /\ x.paid = DOMAIN x.results
  BY <1>1 DEF PaidNow, Looping, Busy, Progress
<1>3. Step(v, e)
  BY DEF WriteCandidate
<1>4. /\ e.pc = "load" /\ e.outcome = x.outcome /\ e.selected = x.selected
      /\ e.at = x.at /\ e.results = x.results /\ e.paid = x.paid \cup {x.at}
  BY <1>1 DEF VerifyType
<1> HIDE DEF e
<1>5. PaidNow(e) = {x.at} /\ e.pc \in Looping
  BY <1>4 DEF PaidNow, Looping, Busy
<1> QED BY <1>2, <1>3, <1>4, <1>5, GoOnProgress

LEMMA LoadCandidateProgress ==
  ASSUME VerifiesOK, ReportInv, NEW v \in Verifier, LoadCandidate(v)
  PROVE  ReportInv'
<1> DEFINE x == verify[v]
           c == files[x.at][x.name]
           found == HasBaseline(x.at)
           absent == baseline[x.at] = NoFile
           e == [x EXCEPT !.pc = "gate", !.candidate = c, !.found = found,
                          !.absent = absent]
<1>1. x \in VerifyType(Reports) /\ OK(x) /\ Progress(x) /\ x.pc = "load"
  BY DEF VerifiesOK, ReportInv, LoadCandidate, At
<1>2. /\ PaidNow(x) = {x.at} /\ x.pc \in Looping
      /\ x.paid = DOMAIN x.results \cup {x.at}
  BY <1>1 DEF PaidNow, Looping, Busy, Progress
<1>3. x.candidate # NoFile
  BY <1>1, CandidatesAreReadable DEF OK
<1>4. Fail(v, "completed", "error", x.candidate) \/ Step(v, e)
  BY DEF LoadCandidate
<1>5. CASE Fail(v, "completed", "error", x.candidate)
  BY <1>2, <1>3, <1>5, FailProgress
<1>6. CASE Step(v, e)
  <2> HIDE DEF c, found, absent
  <2>1. /\ e.pc = "gate" /\ e.outcome = x.outcome /\ e.selected = x.selected
        /\ e.at = x.at /\ e.results = x.results /\ e.paid = x.paid
    BY <1>1 DEF VerifyType
  <2> HIDE DEF e
  <2>2. PaidNow(e) = {x.at} /\ e.pc \in Looping
    BY <2>1 DEF PaidNow, Looping, Busy
  <2> QED BY <1>2, <1>6, <2>1, <2>2, GoOnProgress
<1> QED BY <1>4, <1>5, <1>6

\* The current suite is decided: the next one is taken, or the report is complete.
LEMMA DecideProgress ==
  ASSUME VerifiesOK, ReportInv, NEW v \in Verifier, verify[v].pc = "gate",
         NEW passed \in BOOLEAN, Decide(v, passed)
  PROVE  ReportInv'
<1> DEFINE x == verify[v]
           result == [execution |-> "completed",
                      gate |-> IF passed THEN "passed" ELSE "failed",
                      passed |-> IF passed THEN "true" ELSE "false",
                      candidate |-> x.candidate,
                      against |-> IF x.found THEN baseline[x.at] ELSE NoFile,
                      absent |-> x.absent]
           results == ResultsUpTo(v, result)
           cleared == [x EXCEPT !.results = results, !.current = NoVerify.current,
                                !.since = 0, !.name = "", !.candidate = NoFile,
                                !.found = FALSE, !.absent = FALSE]
           outcome == IF AnyFailed(results) THEN "quality_failed" ELSE "passed"
           ended == End(v, outcome)
           more == [cleared EXCEPT !.pc = "build", !.at = First(Later(v))]
           last == [ended EXCEPT !.results = results]
<1>1. x \in VerifyType(Reports) /\ OK(x) /\ Progress(x) /\ x.pc \in Looping
  BY DEF VerifiesOK, ReportInv, Looping, Busy
<1>2. x.at \in x.selected /\ x.selected \in SUBSET Nat /\ x.selected \in SUBSET Suite
  <2>1. x.at \in x.selected /\ x.selected \in SUBSET Suite
    BY <1>1 DEF OK, VerifyType
  <2> QED BY <2>1, SuitesAreNumbers
<1>3. /\ DOMAIN x.results = {s \in x.selected : s < x.at}
      /\ \A s \in DOMAIN x.results : Decided(x.results[s])
      /\ x.paid = DOMAIN x.results \cup {x.at}
      /\ x.outcome = "none"
  BY <1>1 DEF Progress, PaidNow
<1>4. Decided(result)
  BY <1>1, CandidatesAreReadable DEF OK, Decided
<1>5. IF Later(v) # {} THEN Step(v, more) ELSE Step(v, last)
  BY DEF Decide
<1> HIDE DEF result
<1>6. /\ DOMAIN results = x.paid
      /\ \A s \in DOMAIN results : Decided(results[s])
  <2> DEFINE S == DOMAIN x.results \cup {x.at}
  <2>1. results = [s \in S |-> IF s = x.at THEN result ELSE x.results[s]]
    BY DEF ResultsUpTo
  <2> HIDE DEF results
  <2>2. DOMAIN results = S
    BY <2>1
  <2>3. \A s \in S : results[s] = result \/ (s \in DOMAIN x.results /\ results[s] = x.results[s])
    BY <2>1
  <2> QED BY <1>3, <1>4, <2>2, <2>3
<1> HIDE DEF results
<1>7. Later(v) = {s \in x.selected : s > x.at}
  BY DEF Later
<1>8. CASE Later(v) # {} /\ Step(v, more)
  <2> DEFINE next == First(Later(v))
  <2>1. next \in Later(v) /\ \A t \in Later(v) : next <= t
    BY <1>2, <1>7, <1>8, FirstIsMember, FirstIsLeast
  <2> HIDE DEF next
  <2>2. x.paid = {s \in x.selected : s < next}
    <3>1. ASSUME NEW s \in x.selected PROVE s < next <=> s < x.at \/ s = x.at
      <4>1. next \in Nat /\ next > x.at
        BY <1>2, <1>7, <2>1
      <4>2. CASE s > x.at
        <5>1. next <= s
          BY <1>7, <2>1, <4>2
        <5> QED BY <1>2, <4>1, <4>2, <5>1
      <4>3. CASE ~(s > x.at)
        BY <1>2, <4>1, <4>3
      <4> QED BY <4>2, <4>3
    <3> QED BY <1>2, <1>3, <3>1
  <2>3. more = [x EXCEPT !.results = results, !.current = NoVerify.current, !.since = 0,
                         !.name = "", !.candidate = NoFile, !.found = FALSE,
                         !.absent = FALSE, !.pc = "build", !.at = next]
    BY <1>1 DEF VerifyType, next
  <2> HIDE DEF more
  <2>4. /\ more.pc = "build" /\ more.at = next /\ more.results = results
        /\ more.paid = x.paid /\ more.outcome = "none" /\ more.selected = x.selected
    BY <1>1, <1>3, <2>3 DEF VerifyType
  <2>5. Progress(more)
    BY <1>6, <2>2, <2>4 DEF Progress, PaidNow, Looping, Busy, Conclusive
  <2> QED BY <1>8, <2>5, ProgressStep
<1>9. CASE Later(v) = {} /\ Step(v, last)
  <2>1. x.paid = x.selected
    <3>1. \A s \in x.selected : s < x.at \/ s = x.at
      BY <1>2, <1>7, <1>9
    <3> QED BY <1>2, <1>3, <3>1
  <2>2. outcome \in {"quality_failed", "passed"}
        /\ (outcome = "quality_failed" <=> AnyFailed(results))
    OBVIOUS
  <2> HIDE DEF outcome
  <2>3. /\ ended.pc = "ended" /\ ended.outcome = outcome /\ ended.selected = x.selected
        /\ ended.paid = x.paid /\ "results" \in DOMAIN ended
    BY EndFields DEF End, NoVerify
  <2> HIDE DEF ended
  <2>4. /\ last.pc = "ended" /\ last.outcome = outcome /\ last.selected = x.selected
        /\ last.paid = x.selected /\ last.results = results
    BY <2>1, <2>3
  <2> HIDE DEF last
  <2>5. Troubled(last) = {}
    BY <1>6, <2>1, <2>4 DEF Troubled, Decided
  <2>6. outcome = "passed" <=> \A s \in x.selected : results[s].passed = "true"
    <3>1. \A s \in x.selected : results[s].passed \in {"true", "false"}
      BY <1>6, <2>1 DEF Decided
    <3> QED BY <1>6, <2>1, <2>2, <3>1 DEF AnyFailed
  <2>7. {s \in x.selected : results[s].candidate # NoFile} = x.selected
    BY <1>6, <2>1 DEF Decided
  <2>8. Truthful(last)
    BY <1>6, <2>1, <2>2, <2>4, <2>5, <2>6, <2>7 DEF Truthful
  <2>9. Progress(last)
    BY <2>4, <2>8 DEF Progress, Looping, Busy
  <2> QED BY <1>9, <2>9, ProgressStep
<1>10. CASE Later(v) # {}
  BY <1>5, <1>8, <1>10
<1>11. CASE Later(v) = {}
  BY <1>5, <1>9, <1>11
<1> QED BY <1>10, <1>11

LEMMA GateProgress ==
  ASSUME VerifiesOK, ReportInv, NEW v \in Verifier, Gate(v)
  PROVE  ReportInv'
<1> DEFINE x == verify[v]
           b == baseline[x.at]
           passed == Verdict(v, b)
<1>1. OK(x) /\ x.pc = "gate"
  BY DEF VerifiesOK, Gate, At
<1>2. PaidNow(x) # {} /\ x.pc \in Looping /\ x.candidate # NoFile
  BY <1>1, CandidatesAreReadable DEF OK, PaidNow, Looping, Busy
<1>3. Fail(v, "completed", "error", x.candidate) \/ Decide(v, passed)
  BY DEF Gate
<1>4. passed \in BOOLEAN
  BY Zenon DEF Verdict, Compare, Eligible
<1> HIDE DEF passed
<1> QED BY <1>1, <1>2, <1>3, <1>4, FailProgress, DecideProgress

LEMMA KillVerifyProgress ==
  ASSUME VerifiesOK, ReportInv, NEW v \in Verifier, KillVerify(v)
  PROVE  ReportInv'
<1> DEFINE e == [NoVerify EXCEPT !.pc = "ended", !.outcome = "killed"]
<1>1. e.pc = "ended" /\ e.outcome = "killed" /\ Step(v, e)
  BY DEF NoVerify, KillVerify
<1> HIDE DEF e
<1>2. Progress(e)
  BY <1>1 DEF Progress, Looping, Busy, Conclusive
<1> QED BY <1>1, <1>2, ProgressStep

LEMMA ReportKept ==
  ASSUME Inv, ReportInv, [Next]_vars
  PROVE  ReportInv'
<1>1. CASE UNCHANGED verify
  BY <1>1 DEF ReportInv
<1>2. ASSUME NEW v \in Verifier, VerifyStep(v) PROVE ReportInv'
  BY <1>2, StartVerifyProgress, PlanSuiteProgress, AuthorizeProgress,
     BuildAndRenderProgress, EvaluateProgress, WriteCandidateProgress,
     LoadCandidateProgress, GateProgress, KillVerifyProgress DEF Inv, VerifyStep
<1>3. ASSUME NEW a \in Accepter, AcceptStep(a) PROVE UNCHANGED verify
  BY <1>3 DEF AcceptStep, StartAccept, CheckExisting, OpenBaseline, FillBaseline, KillAccept
<1>4. ASSUME NEW r \in Runner, EvaluateAlone(r) \/ WriteAlone(r) PROVE UNCHANGED verify
  BY <1>4 DEF EvaluateAlone, WriteAlone
<1>5. CASE EditSuite \/ RollJudge \/ CheckoutWithout
  BY <1>1, <1>5 DEF EditSuite, RollJudge, CheckoutWithout
<1>6. CASE UNCHANGED vars
  BY <1>1, <1>6 DEF vars
<1> QED BY <1>1, <1>2, <1>3, <1>4, <1>5, <1>6 DEF Next

\* A report of eval verify covers the suites selected and names every candidate
\* paid for, stops at the first suite with an error, and says passed only when
\* every suite passed (eval/verify.py:147-243), for any number of suites.
THEOREM ReportsAreTrue == Spec => []ReportTruth
<1>1. Init => ReportInv
  <2>1. NoVerify.pc = "idle" /\ NoVerify.outcome = "none"
    BY DEF NoVerify
  <2>2. Progress(NoVerify)
    BY <2>1 DEF Progress, Looping, Busy, Conclusive
  <2> QED BY <2>2 DEF Init, ReportInv
<1>2. Inv /\ ReportInv /\ [Next]_vars => ReportInv'
  BY ReportKept
<1>3. ReportInv => ReportTruth
  BY DEF ReportInv, Progress, Truthful, Troubled, Failing, Conclusive, Reported, ReportTruth
<1> QED BY <1>1, <1>2, <1>3, Invariance, PTL DEF Spec
=============================================================================
