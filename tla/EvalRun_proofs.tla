--------------------------- MODULE EvalRun_proofs ---------------------------
(***************************************************************************)
(* Theorems about EvalRun for every set of clients, run names and requests *)
(* and for every bound.                                                    *)
(***************************************************************************)
EXTENDS EvalRun, TLAPS

-----------------------------------------------------------------------------
(* Type correctness. *)

LEMMA NullsTyped ==
  /\ NoRun \in RunType
  /\ NoRows \in RowsType
  /\ Idle \in EvalType
<1>1. NoRun \in RunType
  BY DEF NoRun, RunType, RunStatus, NotIngested
<1>2. NoRows \in RowsType
  BY DEF NoRows, RowsType, NotIngested
<1>3. /\ 0 \in 0..Retries /\ 0 \in 0..PollAttempts - 1 /\ 0 \in Generation
      /\ "absent" \in RunStatus
  BY BoundsArePositive DEF Generation, RunStatus
<1>4. Idle \in EvalType
  <2> HIDE DEF NoRows
  <2> QED BY <1>2, <1>3 DEF Idle, EvalType
<1> QED BY <1>1, <1>2, <1>4

\* What the type invariant says of a client that is running.
LEMMA RunningTyped ==
  ASSUME TypeOK, NEW c \in Client, ~At(c, "idle")
  PROVE  /\ ev[c] \in EvalType
         /\ ev[c].base \in BaseName
         /\ Run(c) \in RunId
         /\ native[Run(c)] \in RunType
<1>1. ev[c] \in EvalType /\ ev[c].base \in BaseName
  BY DEF TypeOK
<1>2. Run(c) \in RunId
  BY <1>1 DEF Run, RunId, EvalType
<1> QED BY <1>1, <1>2 DEF TypeOK

LEMMA GotoTyped ==
  ASSUME NEW c \in Client, ev[c] \in EvalType, NEW s \in Step
  PROVE  Goto(c, s) \in EvalType /\ Goto(c, s).base = ev[c].base
  BY DEF Goto, EvalType

LEMMA FieldsTyped ==
  ASSUME NEW e \in EvalType
  PROVE  /\ \A v \in Version : /\ [e EXCEPT !.initial = v] \in EvalType
                               /\ [e EXCEPT !.pre = v] \in EvalType
                               /\ [e EXCEPT !.post = v] \in EvalType
         /\ \A g \in Generation : [e EXCEPT !.snapshot = g] \in EvalType
         /\ \A o \in RunStatus :
              /\ [e EXCEPT !.polls = 0, !.status = "unstarted", !.observed = o,
                           !.transient = FALSE] \in EvalType
              /\ \A n \in 0..PollAttempts - 1 :
                   [e EXCEPT !.polls = n, !.observed = o] \in EvalType
<1>1. 0 \in 0..PollAttempts - 1
  BY BoundsArePositive
<1>2. \A v \in Version : /\ [e EXCEPT !.initial = v] \in EvalType
                         /\ [e EXCEPT !.pre = v] \in EvalType
                         /\ [e EXCEPT !.post = v] \in EvalType
  BY DEF EvalType
<1>3. \A g \in Generation : [e EXCEPT !.snapshot = g] \in EvalType
  BY DEF EvalType
<1>4. \A o \in RunStatus :
        [e EXCEPT !.polls = 0, !.status = "unstarted", !.observed = o,
                  !.transient = FALSE] \in EvalType
  BY <1>1 DEF EvalType
<1>5. \A o \in RunStatus, n \in 0..PollAttempts - 1 :
        [e EXCEPT !.polls = n, !.observed = o] \in EvalType
  BY DEF EvalType
<1> QED BY <1>2, <1>3, <1>4, <1>5

LEMMA FieldsKept ==
  ASSUME NEW e \in EvalType
  PROVE  /\ \A v \in Version : /\ [e EXCEPT !.initial = v].base = e.base
                               /\ [e EXCEPT !.pre = v].base = e.base
                               /\ [e EXCEPT !.post = v].base = e.base
         /\ \A g \in Generation : [e EXCEPT !.snapshot = g].base = e.base
         /\ \A o \in RunStatus :
              /\ [e EXCEPT !.polls = 0, !.status = "unstarted", !.observed = o,
                           !.transient = FALSE].base = e.base
              /\ \A n \in 0..PollAttempts - 1 :
                   [e EXCEPT !.polls = n, !.observed = o].base = e.base
  BY DEF EvalType

\* Whatever else a step does, it leaves the clients well typed when it takes one
\* of them to a well-typed state.
LEMMA ContinueTyped ==
  ASSUME TypeOK, NEW c \in Client, NEW e \in EvalType, e.base \in BaseName,
         Continue(c, e)
  PROVE  /\ ev' \in [Client -> EvalType]
         /\ \A d \in Client : ev'[d].pc # "idle" => ev'[d].base \in BaseName
  BY DEF TypeOK, Continue, At

LEMMA EndTyped ==
  ASSUME TypeOK, NEW c \in Client, End(c)
  PROVE  /\ ev' \in [Client -> EvalType]
         /\ \A d \in Client : ev'[d].pc # "idle" => ev'[d].base \in BaseName
<1>1. Idle \in EvalType /\ Idle.pc = "idle"
  BY NullsTyped DEF Idle
<1> QED BY <1>1 DEF TypeOK, End, At

LEMMA ReadTyped ==
  ASSUME TypeOK, ReadOnly, ev' \in [Client -> EvalType],
         \A d \in Client : ev'[d].pc # "idle" => ev'[d].base \in BaseName
  PROVE  TypeOK'
  BY DEF TypeOK, ReadOnly, agentVars, serviceVars, diskVars, At

LEMMA RefuseTyped ==
  ASSUME TypeOK, NEW c \in Client, Refuse(c)
  PROVE  TypeOK'
  BY EndTyped, ReadTyped DEF Refuse

LEMMA InspectTyped ==
  ASSUME TypeOK, NEW c \in Client, NEW e \in EvalType, e.base \in BaseName,
         Continue(c, e), ReadOnly
  PROVE  TypeOK'
  BY ContinueTyped, ReadTyped

LEMMA PolledTyped ==
  ASSUME TypeOK, NEW c \in Client, ~At(c, "idle"), NEW status \in Outcome,
         NEW observed \in RunStatus, NEW transient \in BOOLEAN
  PROVE  /\ Polled(c, status, observed, transient) \in EvalType
         /\ Polled(c, status, observed, transient).base = ev[c].base
<1> DEFINE s == IF status = "completed" \/ observed = "partial" THEN "fetch" ELSE "drift"
<1>1. s \in Step
  BY DEF Step
<1>2. ev[c] \in EvalType
  BY RunningTyped
<1>3. Goto(c, s) \in EvalType /\ Goto(c, s).base = ev[c].base
  BY <1>1, <1>2, GotoTyped
<1> HIDE DEF s
<1>4. Polled(c, status, observed, transient) =
        [Goto(c, s) EXCEPT !.status = status, !.observed = observed,
                           !.transient = transient]
  BY DEF Polled, s
<1> QED BY <1>3, <1>4 DEF EvalType

LEMMA StartEvaluationTyped ==
  ASSUME TypeOK, NEW c \in Client, StartEvaluation(c)
  PROVE  TypeOK'
<1>1. PICK b \in BaseName, r \in Request :
        Continue(c, [Idle EXCEPT !.pc = "initial", !.base = b, !.request = r])
  BY DEF StartEvaluation
<1> DEFINE e == [Idle EXCEPT !.pc = "initial", !.base = b, !.request = r]
<1>2. e \in EvalType /\ e.base \in BaseName
  <2>1. Idle \in EvalType
    BY NullsTyped
  <2> HIDE DEF Idle
  <2> QED BY <2>1 DEF EvalType, Step
<1>3. issued' \in 0..MaxEvaluations
  BY BoundsArePositive DEF StartEvaluation, TypeOK
<1> HIDE DEF e
<1>4. Continue(c, e)
  BY <1>1 DEF e
<1> QED BY <1>2, <1>3, <1>4, ContinueTyped
        DEF StartEvaluation, TypeOK, agentVars, serviceVars, diskVars, At

LEMMA PreparationTyped ==
  ASSUME TypeOK, NEW c \in Client,
         \/ InitialProvenance(c) \/ ValidateTable(c)
         \/ PreStartProvenance(c) \/ RecheckSource(c)
  PROVE  TypeOK'
<1>0. /\ ~At(c, "idle")
      /\ \A s \in Step : Goto(c, s) \in EvalType /\ Goto(c, s).base \in BaseName
  <2>1. ~At(c, "idle")
    BY DEF InitialProvenance, ValidateTable, PreStartProvenance, RecheckSource, At
  <2> QED BY <2>1, RunningTyped, GotoTyped
<1>1. default \in Version /\ source \in Generation
  BY DEF TypeOK
<1>2. CASE InitialProvenance(c)
  <2> DEFINE e == [Goto(c, "validate") EXCEPT !.initial = default]
  <2>0. Goto(c, "validate") \in EvalType /\ Goto(c, "validate").base \in BaseName
    BY <1>0 DEF Step
  <2>1. e \in EvalType /\ e.base \in BaseName
    BY <1>1, <2>0, FieldsTyped, FieldsKept
  <2> HIDE DEF e
  <2>2. Continue(c, e) /\ ReadOnly
    BY <1>2 DEF InitialProvenance, e
  <2> QED BY <2>1, <2>2, InspectTyped
<1>3. CASE ValidateTable(c)
  <2> DEFINE e == [Goto(c, "upload") EXCEPT !.snapshot = source]
  <2>0. Goto(c, "upload") \in EvalType /\ Goto(c, "upload").base \in BaseName
    BY <1>0 DEF Step
  <2>1. e \in EvalType /\ e.base \in BaseName
    BY <1>1, <2>0, FieldsTyped, FieldsKept
  <2> HIDE DEF e
  <2>2. Refuse(c) \/ (Continue(c, e) /\ ReadOnly)
    BY <1>3 DEF ValidateTable, e
  <2> QED BY <2>1, <2>2, InspectTyped, RefuseTyped
<1>4. CASE PreStartProvenance(c)
  <2> DEFINE e == [Goto(c, "recheck") EXCEPT !.pre = default]
  <2>0. Goto(c, "recheck") \in EvalType /\ Goto(c, "recheck").base \in BaseName
    BY <1>0 DEF Step
  <2>1. e \in EvalType /\ e.base \in BaseName
    BY <1>1, <2>0, FieldsTyped, FieldsKept
  <2> HIDE DEF e
  <2>2. Refuse(c) \/ (Continue(c, e) /\ ReadOnly)
    BY <1>4 DEF PreStartProvenance, e
  <2> QED BY <2>1, <2>2, InspectTyped, RefuseTyped
<1>5. CASE RecheckSource(c)
  <2>1. Goto(c, "start") \in EvalType /\ Goto(c, "start").base \in BaseName
    BY <1>0 DEF Step
  <2>2. Refuse(c) \/ (Continue(c, Goto(c, "start")) /\ ReadOnly)
    BY <1>5 DEF RecheckSource
  <2> QED BY <2>1, <2>2, InspectTyped, RefuseTyped
<1> QED BY <1>2, <1>3, <1>4, <1>5

LEMMA UploadConfigTyped ==
  ASSUME TypeOK, NEW c \in Client, UploadConfig(c)
  PROVE  TypeOK'
<1>1. ~At(c, "idle")
  BY DEF UploadConfig, At
<1>2. /\ ev[c] \in EvalType /\ Run(c) \in RunId
      /\ Goto(c, "preStart") \in EvalType /\ Goto(c, "preStart").base \in BaseName
  BY <1>1, RunningTyped, GotoTyped DEF Step
<1>3. staged' \in [RunId -> Request \cup {Unpinned}]
  BY <1>2 DEF UploadConfig, TypeOK, EvalType
<1>4. Continue(c, Goto(c, "preStart"))
  BY DEF UploadConfig
<1> QED BY <1>2, <1>3, <1>4, ContinueTyped
        DEF UploadConfig, TypeOK, agentVars, diskVars, At

LEMMA StartRunTyped ==
  ASSUME TypeOK, NEW c \in Client, StartRun(c)
  PROVE  TypeOK'
<1>1. ~At(c, "idle")
  BY DEF StartRun, At
<1>2. CASE Refuse(c)
  BY <1>2, RefuseTyped
<1>3. CASE ~Refuse(c)
  <2> DEFINE r == [NoRun EXCEPT !.status = "running", !.requested = staged[Run(c)],
                                !.traced = native[Run(c)].traced]
             e == [Goto(c, "poll") EXCEPT !.polls = 0, !.status = "unstarted",
                                          !.observed = "absent", !.transient = FALSE]
  <2>1. /\ Run(c) \in RunId /\ native[Run(c)] \in RunType
        /\ staged[Run(c)] \in Request \cup {Unpinned}
        /\ Goto(c, "poll") \in EvalType /\ Goto(c, "poll").base \in BaseName
    BY <1>1, RunningTyped, GotoTyped DEF TypeOK, Step
  <2>2. r \in RunType
    <3>1. NoRun \in RunType
      BY NullsTyped
    <3> HIDE DEF NoRun
    <3> QED BY <2>1, <3>1 DEF RunType, RunStatus
  <2>3. e \in EvalType /\ e.base \in BaseName
    BY <2>1, FieldsTyped, FieldsKept DEF RunStatus
  <2> HIDE DEF r, e
  <2>4. /\ native' = [native EXCEPT ![Run(c)] = r] /\ Continue(c, e)
        /\ UNCHANGED <<agentVars, staged, diskVars, issued>>
    BY <1>3 DEF StartRun, r, e
  <2>5. native' \in [RunId -> RunType]
    BY <2>1, <2>2, <2>4 DEF TypeOK
  <2> QED BY <2>3, <2>4, <2>5, ContinueTyped DEF TypeOK, agentVars, diskVars, At
<1> QED BY <1>2, <1>3

LEMMA PollTyped ==
  ASSUME TypeOK, NEW c \in Client, Poll(c)
  PROVE  TypeOK'
<1>1. ~At(c, "idle")
  BY DEF Poll, At
<1>2. /\ ev[c] \in EvalType /\ ev[c].base \in BaseName /\ native[Run(c)] \in RunType
  BY <1>1, RunningTyped
<1>3. PICK answer \in StatusRow(c) :
        LET observed == IF answer = "absent" THEN ev[c].observed ELSE answer
            terminal == answer \in {"completed", "failed"}
        IN
        \/ /\ terminal
           /\ Continue(c, Polled(c, answer, answer, native[Run(c)].transient))
        \/ ~terminal /\ ~LastPoll(ev[c]) /\ Continue(c, PollAgain(c, observed))
        \/ ~terminal /\ LastPoll(ev[c]) /\ Continue(c, Timeout(c, observed))
  BY DEF Poll
<1> DEFINE observed == IF answer = "absent" THEN ev[c].observed ELSE answer
<1>4. /\ answer \in RunStatus /\ observed \in RunStatus
      /\ native[Run(c)].transient \in BOOLEAN
  BY <1>2 DEF StatusRow, RunType, EvalType, RunStatus
<1>5. ReadOnly
  BY DEF Poll
<1> HIDE DEF observed
<1>6. CASE answer \in {"completed", "failed"}
            /\ Continue(c, Polled(c, answer, answer, native[Run(c)].transient))
  <2>1. answer \in Outcome
    BY <1>6 DEF Outcome
  <2> QED BY <1>1, <1>2, <1>4, <1>5, <1>6, <2>1, PolledTyped, InspectTyped
<1>7. CASE ~LastPoll(ev[c]) /\ Continue(c, PollAgain(c, observed))
  <2> DEFINE n == ev[c].polls + 1
  <2>1. n \in 0..PollAttempts - 1
    <3>1. ev[c].polls \in 0..PollAttempts - 1
      BY <1>2 DEF EvalType
    <3>2. ev[c].polls + 1 # PollAttempts
      BY <1>7 DEF LastPoll
    <3> QED BY <3>1, <3>2, BoundsArePositive
  <2> HIDE DEF n
  <2>2. PollAgain(c, observed) \in EvalType /\ PollAgain(c, observed).base \in BaseName
    <3>1. PollAgain(c, observed)
            = [ev[c] EXCEPT !.polls = n, !.observed = observed]
      BY DEF PollAgain, n
    <3>2. [ev[c] EXCEPT !.polls = n, !.observed = observed] \in EvalType
      BY <1>2, <1>4, <2>1, FieldsTyped
    <3>3. [ev[c] EXCEPT !.polls = n, !.observed = observed].base = ev[c].base
      BY <1>2, <1>4, <2>1, FieldsKept
    <3> QED BY <1>2, <3>1, <3>2, <3>3
  <2> QED BY <1>5, <1>7, <2>2, InspectTyped
<1>8. CASE Continue(c, Timeout(c, observed))
  <2>1. Timeout(c, observed) \in EvalType /\ Timeout(c, observed).base \in BaseName
    BY <1>1, <1>2, <1>4, PolledTyped DEF Timeout, Outcome
  <2> QED BY <1>5, <1>8, <2>1, InspectTyped
<1> QED BY <1>3, <1>6, <1>7, <1>8 DEF observed

LEMMA RowsTyped ==
  ASSUME TypeOK, NEW c \in Client, ~At(c, "idle"), NEW complete \in BOOLEAN
  PROVE  /\ Rows(c, complete) \in RowsType
         /\ Rows(c, complete).complete = complete
  BY RunningTyped DEF Rows, RowsType, EvalType, RunType

LEMMA FetchRowsTyped ==
  ASSUME TypeOK, NEW c \in Client, FetchRows(c)
  PROVE  TypeOK'
<1>1. ~At(c, "idle")
  BY DEF FetchRows, At
<1>2. CASE Refuse(c)
  BY <1>2, RefuseTyped
<1>3. CASE ~Refuse(c)
  <2>1. native[Run(c)].complete \in BOOLEAN /\ ReadOnly
    BY <1>1, <1>3, RunningTyped DEF RunType, FetchRows
  <2>2. PICK complete \in {FALSE, native[Run(c)].complete} :
          Continue(c, [Goto(c, "drift") EXCEPT
            !.rows = Rows(c, complete),
            !.status = IF @ = "completed" /\ ~Rows(c, complete).complete
                       THEN "incomplete" ELSE @])
    BY <1>3 DEF FetchRows
  <2> DEFINE g == Goto(c, "drift")
             rows == Rows(c, complete)
             e == [g EXCEPT !.rows = rows,
                            !.status = IF @ = "completed" /\ ~rows.complete
                                       THEN "incomplete" ELSE @]
  <2>3. g \in EvalType /\ g.base \in BaseName
    BY <1>1, RunningTyped, GotoTyped DEF Step
  <2>4. rows \in RowsType
    BY <1>1, <2>1, RowsTyped
  <2> HIDE DEF g, rows
  <2>5. e \in EvalType /\ e.base \in BaseName
    BY <2>3, <2>4 DEF EvalType, Outcome
  <2>6. Continue(c, e)
    BY <2>2 DEF g, rows
  <2> HIDE DEF e
  <2> QED BY <2>1, <2>5, <2>6, InspectTyped
<1> QED BY <1>2, <1>3

LEMMA CheckSourceDriftTyped ==
  ASSUME TypeOK, NEW c \in Client, CheckSourceDrift(c)
  PROVE  TypeOK'
<1>1. ~At(c, "idle") /\ ReadOnly
  BY DEF CheckSourceDrift, At
<1> DEFINE e == [ev[c] EXCEPT !.changed = SourceChanged(ev[c])]
<1>2. e \in EvalType /\ e.base \in BaseName
  <2>1. ev[c] \in EvalType /\ ev[c].base \in BaseName
    BY <1>1, RunningTyped
  <2>2. SourceChanged(ev[c]) \in BOOLEAN
    BY DEF SourceChanged
  <2> HIDE DEF SourceChanged
  <2> QED BY <2>1, <2>2 DEF EvalType
<1>3. \/ Continue(c, [e EXCEPT !.pc = "post"])
      \/ Continue(c, [e EXCEPT !.pc = "diagnose",
                               !.status = IF e.changed THEN "sourceChanged" ELSE @])
      \/ e.retry < Retries /\ Continue(c, [e EXCEPT !.pc = "upload", !.retry = @ + 1])
  BY DEF CheckSourceDrift
<1> HIDE DEF e
<1>4. CASE Continue(c, [e EXCEPT !.pc = "post"])
  <2>1. [e EXCEPT !.pc = "post"] \in EvalType /\ [e EXCEPT !.pc = "post"].base \in BaseName
    BY <1>2 DEF EvalType, Step
  <2> QED BY <1>1, <1>4, <2>1, InspectTyped
<1>5. CASE Continue(c, [e EXCEPT !.pc = "diagnose",
                                 !.status = IF e.changed THEN "sourceChanged" ELSE @])
  <2> DEFINE f == [e EXCEPT !.pc = "diagnose",
                            !.status = IF e.changed THEN "sourceChanged" ELSE @]
  <2>1. f \in EvalType /\ f.base \in BaseName
    <3> DEFINE status == IF e.changed THEN "sourceChanged" ELSE e.status
    <3>1. status \in Outcome \cup {"unstarted"}
      BY <1>2 DEF EvalType, Outcome
    <3>2. f = [e EXCEPT !.pc = "diagnose", !.status = status]
      BY <1>2 DEF EvalType
    <3> HIDE DEF status, f
    <3> QED BY <1>2, <3>1, <3>2 DEF EvalType, Step
  <2> HIDE DEF f
  <2>2. Continue(c, f)
    BY <1>5 DEF f
  <2> QED BY <1>1, <2>1, <2>2, InspectTyped
<1>6. CASE e.retry < Retries /\ Continue(c, [e EXCEPT !.pc = "upload", !.retry = @ + 1])
  <2> DEFINE f == [e EXCEPT !.pc = "upload", !.retry = @ + 1]
  <2>1. e.retry \in 0..Retries
    BY <1>2 DEF EvalType
  <2>2. e.retry + 1 \in 0..Retries
    BY <1>6, <2>1, BoundsArePositive
  <2>3. f \in EvalType /\ f.base \in BaseName
    BY <1>2, <2>2 DEF EvalType, Step
  <2> HIDE DEF f
  <2>4. Continue(c, f)
    BY <1>6 DEF f
  <2> QED BY <1>1, <2>3, <2>4, InspectTyped
<1> QED BY <1>3, <1>4, <1>5, <1>6

LEMMA ArtifactsTyped ==
  ASSUME TypeOK, NEW c \in Client,
         \/ WriteDiagnostic(c) \/ PostCompletion(c) \/ ObserveRun(c)
         \/ CheckCandidate(c) \/ WriteCandidate(c)
  PROVE  TypeOK'
<1>0. /\ ~At(c, "idle")
      /\ ev[c] \in EvalType /\ Run(c) \in RunId /\ native[Run(c)] \in RunType
      /\ \A s \in Step : Goto(c, s) \in EvalType /\ Goto(c, s).base \in BaseName
  <2>1. ~At(c, "idle")
    BY DEF WriteDiagnostic, PostCompletion, ObserveRun, CheckCandidate, WriteCandidate, At
  <2> QED BY <2>1, RunningTyped, GotoTyped
<1>1. CASE WriteDiagnostic(c)
  <2>1. CASE Refuse(c)
    BY <2>1, RefuseTyped
  <2>2. CASE ~Refuse(c)
    <3>1. End(c) /\ diagnostics' \subseteq RunId
      BY <1>0, <1>1, <2>2 DEF WriteDiagnostic, TypeOK
    <3> QED BY <1>1, <2>2, <3>1, EndTyped
            DEF WriteDiagnostic, TypeOK, agentVars, serviceVars, At
  <2> QED BY <2>1, <2>2
<1>2. CASE PostCompletion(c)
  <2> DEFINE e == [Goto(c, "observe") EXCEPT !.post = default]
  <2>1. default \in Version /\ Goto(c, "observe") \in EvalType
        /\ Goto(c, "observe").base \in BaseName
    BY <1>0 DEF TypeOK, Step
  <2>2. e \in EvalType /\ e.base \in BaseName
    BY <2>1, FieldsTyped, FieldsKept
  <2> HIDE DEF e
  <2>3. Continue(c, e) /\ ReadOnly
    BY <1>2 DEF PostCompletion, e
  <2> QED BY <2>2, <2>3, InspectTyped
<1>3. CASE ObserveRun(c)
  <2>1. PICK seen \in SUBSET native[Run(c)].traced :
          Continue(c, [Goto(c, "check") EXCEPT !.seen = seen])
    BY <1>3 DEF ObserveRun
  <2> DEFINE g == Goto(c, "check")
             e == [g EXCEPT !.seen = seen]
  <2>2. g \in EvalType /\ g.base \in BaseName /\ seen \in SUBSET Seen
    BY <1>0 DEF RunType, Step
  <2> HIDE DEF g
  <2>3. e \in EvalType /\ e.base \in BaseName
    BY <2>2 DEF EvalType
  <2>4. Continue(c, e) /\ ReadOnly
    BY <1>3, <2>1 DEF ObserveRun, g
  <2> HIDE DEF e
  <2> QED BY <2>3, <2>4, InspectTyped
<1>4. CASE CheckCandidate(c)
  <2>1. Goto(c, "write") \in EvalType /\ Goto(c, "write").base \in BaseName
    BY <1>0 DEF Step
  <2>2. Refuse(c) \/ (Continue(c, Goto(c, "write")) /\ ReadOnly)
    BY <1>4 DEF CheckCandidate
  <2> QED BY <2>1, <2>2, InspectTyped, RefuseTyped
<1>5. CASE WriteCandidate(c)
  <2>1. PICK good \in BOOLEAN :
          candidates' = {a \in candidates : a.run # Run(c)} \cup {BuildCandidate(c, good)}
    BY <1>5 DEF WriteCandidate
  <2>2. BuildCandidate(c, good) \in CandidateType
    <3>1. ev[c].rows \in RowsType /\ ev[c].snapshot \in Generation
      BY <1>0 DEF EvalType
    <3>2. Intended(ev[c]) \in Version \cup {0}
      BY <1>0, RequestIsVersion DEF EvalType, Intended, Unpinned
    <3> DEFINE passed == good /\ ~ev[c].changed /\ ~DefaultDrift(ev[c])
                         /\ ~VersionMismatch(ev[c])
    <3>3. passed \in BOOLEAN
      OBVIOUS
    <3> HIDE DEF passed
    <3>4. BuildCandidate(c, good)
            = [run |-> Run(c), intended |-> Intended(ev[c]), rows |-> ev[c].rows,
               snapshot |-> ev[c].snapshot, passed |-> passed]
      BY DEF BuildCandidate, passed
    <3> QED BY <1>0, <3>1, <3>2, <3>3, <3>4 DEF CandidateType
  <2>3. candidates' \subseteq CandidateType
    BY <2>1, <2>2 DEF TypeOK
  <2>4. End(c)
    BY <1>5 DEF WriteCandidate
  <2> QED BY <1>5, <2>3, <2>4, EndTyped
          DEF WriteCandidate, TypeOK, agentVars, serviceVars, At
<1> QED BY <1>1, <1>2, <1>3, <1>4, <1>5

LEMMA ServiceTyped ==
  ASSUME TypeOK, Service
  PROVE  TypeOK'
<1>1. PICK id \in RunId : \/ Ingest(id) \/ Invoke(id) \/ EndInvocations(id)
                          \/ CompletePartial(id) \/ FailRun(id)
  BY DEF Service
<1> DEFINE old == native[id]
<1>2. old \in RunType /\ source \in Generation
  BY DEF TypeOK
<1>3. \E run \in RunType : NativeStep(id, run)
  <2>1. CASE Ingest(id)
    <3>1. NativeStep(id, [old EXCEPT !.ingested = source])
      BY <2>1 DEF Ingest
    <3> HIDE DEF old
    <3>2. [old EXCEPT !.ingested = source] \in RunType
      BY <1>2 DEF RunType
    <3> QED BY <3>1, <3>2
  <2>2. CASE Invoke(id)
    <3> DEFINE version == IF native[id].requested # Unpinned THEN native[id].requested
                          ELSE IF committed = 1 THEN Live ELSE default
    <3>1. NativeStep(id, [old EXCEPT !.invoked = @ \cup {version},
                                     !.traced = @ \cup {version}])
      BY <2>2 DEF Invoke
    <3>2. version \in Seen
      BY <1>2, RequestIsVersion DEF TypeOK, RunType, Seen, Unpinned, Live
    <3> HIDE DEF old, version
    <3>3. [old EXCEPT !.invoked = @ \cup {version},
                      !.traced = @ \cup {version}] \in RunType
      BY <1>2, <3>2 DEF RunType
    <3> QED BY <3>1, <3>3
  <2>3. CASE EndInvocations(id)
    <3>1. PICK status \in {"partial", "completed"}, complete \in BOOLEAN :
            NativeStep(id, [old EXCEPT !.status = status, !.complete = complete])
      BY <2>3 DEF EndInvocations
    <3> HIDE DEF old
    <3>2. [old EXCEPT !.status = status, !.complete = complete] \in RunType
      BY <1>2 DEF RunType, RunStatus
    <3> QED BY <3>1, <3>2
  <2>4. CASE CompletePartial(id)
    <3>1. NativeStep(id, [old EXCEPT !.status = "completed"])
      BY <2>4 DEF CompletePartial
    <3> HIDE DEF old
    <3>2. [old EXCEPT !.status = "completed"] \in RunType
      BY <1>2 DEF RunType, RunStatus
    <3> QED BY <3>1, <3>2
  <2>5. CASE FailRun(id)
    <3>1. PICK transient \in BOOLEAN :
            NativeStep(id, [old EXCEPT !.status = "failed", !.transient = transient])
      BY <2>5 DEF FailRun
    <3> HIDE DEF old
    <3>2. [old EXCEPT !.status = "failed", !.transient = transient] \in RunType
      BY <1>2 DEF RunType, RunStatus
    <3> QED BY <3>1, <3>2
  <2> QED BY <1>1, <2>1, <2>2, <2>3, <2>4, <2>5
<1> QED BY <1>3 DEF NativeStep, TypeOK, agentVars, diskVars, At

LEMMA OthersTyped ==
  ASSUME TypeOK, Others
  PROVE  TypeOK'
<1>1. committed' \in Version /\ default' \in Version /\ source' \in Generation
  BY BoundsArePositive
     DEF TypeOK, Others, CommitVersion, MoveDefault, RebuildSource, Version, Generation
<1> QED BY <1>1
        DEF TypeOK, Others, CommitVersion, MoveDefault, RebuildSource, serviceVars,
            diskVars, At

LEMMA NextTyped ==
  ASSUME TypeOK, [Next]_vars
  PROVE  TypeOK'
<1>1. ASSUME NEW c \in Client, StartEvaluation(c) \/ ClientStep(c) \/ Stop(c)
      PROVE  TypeOK'
  BY <1>1, StartEvaluationTyped, PreparationTyped, UploadConfigTyped, StartRunTyped,
     PollTyped, FetchRowsTyped, CheckSourceDriftTyped, ArtifactsTyped, RefuseTyped
     DEF ClientStep, Stop
<1>2. CASE UNCHANGED vars
  BY <1>2 DEF vars, agentVars, serviceVars, diskVars, TypeOK, At
<1> QED BY <1>1, <1>2, ServiceTyped, OthersTyped DEF Next, Rest

LEMMA InitTyped ==
  ASSUME Init
  PROVE  TypeOK
<1>1. committed \in Version /\ default \in Version /\ source \in Generation
  BY BoundsArePositive DEF Init, Version, Generation
<1>2. /\ native \in [RunId -> RunType] /\ ev \in [Client -> EvalType]
      /\ \A c \in Client : At(c, "idle")
  <2>1. Idle.pc = "idle"
    BY DEF Idle
  <2> QED BY <2>1, NullsTyped DEF Init, At
<1>3. issued \in 0..MaxEvaluations
  BY BoundsArePositive DEF Init
<1> QED BY <1>1, <1>2, <1>3 DEF Init, TypeOK

\* The type invariant holds in every interleaving of clients, service and other
\* people.
THEOREM TypeCorrect == Spec => []TypeOK
<1>1. Init => TypeOK
  BY InitTyped
<1>2. TypeOK /\ [Next]_vars => TypeOK'
  BY NextTyped
<1> QED BY <1>1, <1>2, PTL DEF Spec
-----------------------------------------------------------------------------
(* The inductive invariant.  A candidate is sound because the evaluation that  *)
(* wrote it was, and that because the native run it read was.                  *)

RunSound(run, src) ==
  /\ run.ingested <= src
  /\ run.invoked \subseteq run.traced
  /\ run.invoked # {} => run.ingested # NotIngested
  /\ run.complete => run.invoked # {}

Scored == {"post", "observe", "check", "write"}

HasRows(e) == e.pc \in Scored \/ (e.pc = "drift" /\ e.status = "completed")

RowsSound(e, run, src) ==
  /\ e.rows.complete
  /\ e.rows.of = e.retry
  /\ e.rows.by # {}
  /\ e.rows.by \subseteq run.traced
  /\ e.snapshot <= e.rows.from
  /\ e.rows.from <= src

EvalSound(e, run, src) ==
  /\ e.pc \notin {"idle", "initial", "validate"} => e.snapshot <= src
  /\ e.pc \in {"poll", "fetch"} =>
       run.ingested = NotIngested \/ e.snapshot <= run.ingested
  /\ HasRows(e) => RowsSound(e, run, src)
  /\ e.pc \in Scored /\ ~e.changed => e.rows.from = e.snapshot
  /\ ~TraceLag /\ e.pc \in {"check", "write"} => e.rows.by \subseteq e.seen

CandidateSound(a) ==
  /\ a.rows.complete
  /\ a.rows.of = a.run[2]
  /\ a.passed => a.rows.from = a.snapshot
  /\ ~TraceLag /\ a.passed => a.rows.by = {a.intended}

RunsSound == \A id \in RunId : RunSound(native[id], source)
EvalsSound ==
  \A c \in Client : ~At(c, "idle") => EvalSound(ev[c], native[Run(c)], source)
CandidatesSound == \A a \in candidates : CandidateSound(a)

SafeInv == TypeOK /\ RunsSound /\ EvalsSound /\ CandidatesSound

\* What a step of anybody does to a run some client is watching: its spans stay,
\* and its dataset stays, is forgotten with a new START, or is ingested now.
Onward(run, run2, src) ==
  /\ run.traced \subseteq run2.traced
  /\ run2.ingested \in {run.ingested, NotIngested, src}

LEMMA EvalOnward ==
  ASSUME NEW e \in EvalType, e.pc # "idle", NEW run \in RunType, NEW run2 \in RunType,
         NEW src \in Generation, NEW src2 \in Generation, src <= src2,
         EvalSound(e, run, src), Onward(run, run2, src)
  PROVE  EvalSound(e, run2, src2)
<1>1. /\ e.snapshot \in Int /\ e.rows.from \in Int /\ src \in Int /\ src2 \in Int
      /\ run.ingested \in Int /\ run2.ingested \in Int
  <2>1. e.snapshot \in Generation /\ e.rows \in RowsType
    BY DEF EvalType
  <2>2. e.rows.from \in Generation \cup {NotIngested}
    BY <2>1 DEF RowsType
  <2>3. /\ run.ingested \in Generation \cup {NotIngested}
        /\ run2.ingested \in Generation \cup {NotIngested}
    BY DEF RunType
  <2>4. Generation \subseteq Int /\ NotIngested \in Int
    BY BoundsArePositive DEF Generation, NotIngested
  <2> QED BY <2>1, <2>2, <2>3, <2>4
<1>2. e.pc \notin {"idle", "initial", "validate"} => e.snapshot <= src2
  BY <1>1 DEF EvalSound
<1>3. e.pc \in {"poll", "fetch"} =>
        run2.ingested = NotIngested \/ e.snapshot <= run2.ingested
  BY <1>1 DEF EvalSound, Onward
<1>4. HasRows(e) => RowsSound(e, run2, src2)
  BY <1>1 DEF EvalSound, Onward, RowsSound
<1> QED BY <1>2, <1>3, <1>4 DEF EvalSound

\* A step that changes no client: every client's evaluation stays sound.
LEMMA WatchersStaySound ==
  ASSUME TypeOK, TypeOK', EvalsSound, UNCHANGED ev, source <= source',
         \A id \in RunId : Onward(native[id], native'[id], source)
  PROVE  EvalsSound'
<1> SUFFICES ASSUME NEW c \in Client, ~At(c, "idle")
             PROVE  EvalSound(ev[c], native'[Run(c)], source')
  BY DEF EvalsSound, At, Run
<1>1. /\ ev[c] \in EvalType /\ Run(c) \in RunId /\ native[Run(c)] \in RunType
      /\ native'[Run(c)] \in RunType /\ source \in Generation /\ source' \in Generation
  BY RunningTyped DEF TypeOK
<1> QED BY <1>1, EvalOnward DEF EvalsSound, At

\* A step of client c: c's new state has to be shown sound, the others' is.
LEMMA OthersStaySound ==
  ASSUME TypeOK, TypeOK', EvalsSound, NEW c \in Client, NEW e, ev' = [ev EXCEPT ![c] = e],
         UNCHANGED source,
         \A id \in RunId : Onward(native[id], native'[id], source),
         e.pc # "idle" => EvalSound(e, native'[<<e.base, e.retry>>], source)
  PROVE  EvalsSound'
<1> SUFFICES ASSUME NEW d \in Client, ev'[d].pc # "idle"
             PROVE  EvalSound(ev'[d], native'[<<ev'[d].base, ev'[d].retry>>], source)
  BY DEF EvalsSound, At, Run
<1>1. CASE d = c
  BY <1>1 DEF TypeOK
<1>2. CASE d # c
  <2>1. ev'[d] = ev[d] /\ ~At(d, "idle")
    BY <1>2 DEF TypeOK, At
  <2>2. /\ ev[d] \in EvalType /\ Run(d) \in RunId /\ native[Run(d)] \in RunType
        /\ native'[Run(d)] \in RunType /\ source \in Generation /\ source <= source
    BY <2>1, RunningTyped, BoundsArePositive DEF TypeOK, Generation
  <2>3. EvalSound(ev[d], native'[Run(d)], source)
    BY <2>1, <2>2, EvalOnward DEF EvalsSound
  <2> QED BY <2>1, <2>3 DEF Run
<1> QED BY <1>1, <1>2

LEMMA SameRunsOnward ==
  ASSUME TypeOK, UNCHANGED native
  PROVE  \A id \in RunId : Onward(native[id], native'[id], source)
  BY DEF Onward

\* The runs, the dataset and the artifacts are as they were.
LEMMA ReadSound ==
  ASSUME SafeInv, TypeOK', NEW c \in Client, NEW e, Continue(c, e), ReadOnly,
         e.pc # "idle" => EvalSound(e, native[<<e.base, e.retry>>], source)
  PROVE  SafeInv'
<1>1. UNCHANGED <<native, source, candidates>> /\ ev' = [ev EXCEPT ![c] = e]
  BY DEF ReadOnly, agentVars, serviceVars, diskVars, Continue
<1>2. EvalsSound'
  <2>1. e.pc # "idle" => EvalSound(e, native'[<<e.base, e.retry>>], source)
    BY <1>1
  <2> QED BY <1>1, <2>1, OthersStaySound, SameRunsOnward DEF SafeInv
<1>3. RunsSound' /\ CandidatesSound'
  BY <1>1 DEF SafeInv, RunsSound, CandidatesSound
<1> QED BY <1>2, <1>3 DEF SafeInv

LEMMA RefuseSound ==
  ASSUME SafeInv, TypeOK', NEW c \in Client, Refuse(c)
  PROVE  SafeInv'
<1>1. Continue(c, Idle) /\ ReadOnly
  BY DEF Refuse, End, Continue
<1>2. Idle.pc = "idle"
  BY DEF Idle
<1> QED BY <1>1, <1>2, ReadSound

\* Before a run has rows to show, an evaluation owes only that its snapshot is
\* not newer than the table.
LEMMA UnscoredSound ==
  ASSUME NEW e, NEW run, NEW src,
         e.pc \notin {"poll", "fetch", "drift"} \cup Scored,
         e.pc \in {"idle", "initial", "validate"} \/ e.snapshot <= src
  PROVE  EvalSound(e, run, src)
  BY DEF EvalSound, HasRows, Scored

\* The facts about a client's evaluation the lemmas below start from.
LEMMA ClientFacts ==
  ASSUME SafeInv, NEW c \in Client, ~At(c, "idle")
  PROVE  /\ ev[c] \in EvalType /\ Run(c) \in RunId
         /\ native[Run(c)] \in RunType /\ RunSound(native[Run(c)], source)
         /\ EvalSound(ev[c], native[Run(c)], source)
         /\ source \in Int /\ ev[c].snapshot \in Int
         /\ native[Run(c)].ingested \in Int /\ ev[c].rows.from \in Int
<1>1. /\ ev[c] \in EvalType /\ Run(c) \in RunId /\ native[Run(c)] \in RunType
      /\ source \in Generation
  BY RunningTyped DEF SafeInv, TypeOK
<1>2. RunSound(native[Run(c)], source) /\ EvalSound(ev[c], native[Run(c)], source)
  BY <1>1 DEF SafeInv, RunsSound, EvalsSound
<1>3. ev[c].snapshot \in Generation /\ ev[c].rows \in RowsType
  BY <1>1 DEF EvalType
<1>4. /\ ev[c].rows.from \in Generation \cup {NotIngested}
      /\ native[Run(c)].ingested \in Generation \cup {NotIngested}
  BY <1>1, <1>3 DEF RowsType, RunType
<1>5. Generation \subseteq Int /\ NotIngested \in Int
  BY BoundsArePositive DEF Generation, NotIngested
<1> QED BY <1>1, <1>2, <1>3, <1>4, <1>5

\* Only the place changes.
LEMMA GotoFacts ==
  ASSUME NEW c \in Client, ev[c] \in EvalType, NEW s \in Step
  PROVE  /\ Goto(c, s) \in EvalType
         /\ Goto(c, s).pc = s
         /\ Goto(c, s).base = ev[c].base /\ Goto(c, s).retry = ev[c].retry
         /\ Goto(c, s).request = ev[c].request
         /\ Goto(c, s).snapshot = ev[c].snapshot
         /\ Goto(c, s).pre = ev[c].pre /\ Goto(c, s).post = ev[c].post
         /\ Goto(c, s).rows = ev[c].rows /\ Goto(c, s).status = ev[c].status
         /\ Goto(c, s).seen = ev[c].seen /\ Goto(c, s).changed = ev[c].changed
         /\ Run(c) = <<Goto(c, s).base, Goto(c, s).retry>>
  BY DEF Goto, EvalType, Run

LEMMA StartEvaluationSound ==
  ASSUME SafeInv, TypeOK', NEW c \in Client, StartEvaluation(c)
  PROVE  SafeInv'
<1>1. PICK b \in BaseName, r \in Request :
        Continue(c, [Idle EXCEPT !.pc = "initial", !.base = b, !.request = r])
  BY DEF StartEvaluation
<1> DEFINE e == [Idle EXCEPT !.pc = "initial", !.base = b, !.request = r]
<1>2. e.pc = "initial"
  BY DEF Idle
<1> HIDE DEF e
<1>3. EvalSound(e, native'[<<e.base, e.retry>>], source)
  BY <1>2, UnscoredSound DEF Scored
<1>4. /\ ev' = [ev EXCEPT ![c] = e]
      /\ UNCHANGED <<native, source, candidates>>
  BY <1>1 DEF StartEvaluation, Continue, agentVars, serviceVars, diskVars, e
<1>5. EvalsSound'
  BY <1>3, <1>4, OthersStaySound, SameRunsOnward DEF SafeInv
<1> QED BY <1>4, <1>5 DEF SafeInv, RunsSound, CandidatesSound

LEMMA PreparationSound ==
  ASSUME SafeInv, TypeOK', NEW c \in Client,
         \/ InitialProvenance(c) \/ ValidateTable(c)
         \/ PreStartProvenance(c) \/ RecheckSource(c)
  PROVE  SafeInv'
<1>1. ~At(c, "idle")
  BY DEF InitialProvenance, ValidateTable, PreStartProvenance, RecheckSource, At
<1>2. /\ ev[c] \in EvalType /\ source \in Int
      /\ EvalSound(ev[c], native[Run(c)], source)
  BY <1>1, ClientFacts
<1>3. CASE InitialProvenance(c)
  <2> DEFINE g == Goto(c, "validate")
             e == [g EXCEPT !.initial = default]
  <2>1. g \in EvalType /\ g.pc = "validate"
    BY <1>2, GotoFacts DEF Step
  <2> HIDE DEF g
  <2>2. e.pc = "validate"
    BY <2>1 DEF EvalType
  <2>3. Continue(c, e) /\ ReadOnly
    BY <1>3 DEF InitialProvenance, g
  <2> HIDE DEF e
  <2>4. EvalSound(e, native[<<e.base, e.retry>>], source)
    BY <2>2, UnscoredSound DEF Scored
  <2> QED BY <2>3, <2>4, ReadSound
<1>4. CASE ValidateTable(c)
  <2> DEFINE g == Goto(c, "upload")
             e == [g EXCEPT !.snapshot = source]
  <2>1. g \in EvalType /\ g.pc = "upload"
    BY <1>2, GotoFacts DEF Step
  <2> HIDE DEF g
  <2>2. e.pc = "upload" /\ e.snapshot = source
    BY <2>1 DEF EvalType
  <2>3. Refuse(c) \/ (Continue(c, e) /\ ReadOnly)
    BY <1>4 DEF ValidateTable, g
  <2> HIDE DEF e
  <2>4. EvalSound(e, native[<<e.base, e.retry>>], source)
    <3>1. e.snapshot <= source
      BY <1>2, <2>2
    <3> QED BY <2>2, <3>1, UnscoredSound DEF Scored
  <2> QED BY <2>3, <2>4, ReadSound, RefuseSound
<1>5. CASE PreStartProvenance(c)
  <2> DEFINE g == Goto(c, "recheck")
             e == [g EXCEPT !.pre = default]
  <2>1. g \in EvalType /\ g.pc = "recheck" /\ g.snapshot <= source
    <3>1. ev[c].snapshot <= source
      BY <1>2, <1>5 DEF EvalSound, PreStartProvenance, At
    <3> QED BY <1>2, <3>1, GotoFacts DEF Step
  <2> HIDE DEF g
  <2>2. e.pc = "recheck" /\ e.snapshot <= source
    BY <2>1 DEF EvalType
  <2>3. Refuse(c) \/ (Continue(c, e) /\ ReadOnly)
    BY <1>5 DEF PreStartProvenance, g
  <2> HIDE DEF e
  <2>4. EvalSound(e, native[<<e.base, e.retry>>], source)
    BY <2>2, UnscoredSound DEF Scored
  <2> QED BY <2>3, <2>4, ReadSound, RefuseSound
<1>6. CASE RecheckSource(c)
  <2> DEFINE e == Goto(c, "start")
  <2>1. e.pc = "start" /\ e.snapshot <= source
    <3>1. ev[c].snapshot <= source
      BY <1>2, <1>6 DEF EvalSound, RecheckSource, At
    <3> QED BY <1>2, <3>1, GotoFacts DEF Step
  <2>2. Refuse(c) \/ (Continue(c, e) /\ ReadOnly)
    BY <1>6 DEF RecheckSource
  <2> HIDE DEF e
  <2>3. EvalSound(e, native[<<e.base, e.retry>>], source)
    BY <2>1, UnscoredSound DEF Scored
  <2> QED BY <2>2, <2>3, ReadSound, RefuseSound
<1> QED BY <1>3, <1>4, <1>5, <1>6

LEMMA UploadConfigSound ==
  ASSUME SafeInv, TypeOK', NEW c \in Client, UploadConfig(c)
  PROVE  SafeInv'
<1> DEFINE e == Goto(c, "preStart")
<1>1. ~At(c, "idle")
  BY DEF UploadConfig, At
<1>2. e.pc = "preStart" /\ e.snapshot <= source
  <2>1. ev[c] \in EvalType /\ ev[c].snapshot <= source
    BY <1>1, ClientFacts DEF EvalSound, UploadConfig, At
  <2> QED BY <2>1, GotoFacts DEF Step
<1>3. ev' = [ev EXCEPT ![c] = e] /\ UNCHANGED <<native, source, candidates>>
  BY DEF UploadConfig, Continue, agentVars, diskVars
<1> HIDE DEF e
<1>4. EvalSound(e, native'[<<e.base, e.retry>>], source)
  BY <1>2, UnscoredSound DEF Scored
<1>5. EvalsSound'
  BY <1>3, <1>4, OthersStaySound, SameRunsOnward DEF SafeInv
<1> QED BY <1>3, <1>5 DEF SafeInv, RunsSound, CandidatesSound

LEMMA StartRunSound ==
  ASSUME SafeInv, TypeOK', NEW c \in Client, StartRun(c)
  PROVE  SafeInv'
<1>1. ~At(c, "idle")
  BY DEF StartRun, At
<1>2. CASE Refuse(c)
  BY <1>2, RefuseSound
<1>3. CASE ~Refuse(c)
  <2> DEFINE r == [NoRun EXCEPT !.status = "running", !.requested = staged[Run(c)],
                                !.traced = native[Run(c)].traced]
             g == Goto(c, "poll")
             e == [g EXCEPT !.polls = 0, !.status = "unstarted",
                            !.observed = "absent", !.transient = FALSE]
  <2>1. /\ native' = [native EXCEPT ![Run(c)] = r] /\ ev' = [ev EXCEPT ![c] = e]
        /\ UNCHANGED <<source, candidates>>
    BY <1>3 DEF StartRun, Continue, agentVars, diskVars
  <2>2. /\ r.ingested = NotIngested /\ r.invoked = {} /\ ~r.complete
        /\ r.traced = native[Run(c)].traced
    BY DEF NoRun
  <2>3. Run(c) \in RunId /\ source \in Generation /\ ev[c] \in EvalType
        /\ native \in [RunId -> RunType]
    BY <1>1, ClientFacts DEF SafeInv, TypeOK
  <2>4. NotIngested <= source
    BY <2>3, BoundsArePositive DEF Generation, NotIngested
  <2>5. g \in EvalType /\ g.pc = "poll" /\ g.snapshot <= source
        /\ Run(c) = <<g.base, g.retry>>
    <3>1. ev[c].snapshot <= source
      BY <1>1, ClientFacts DEF EvalSound, StartRun, At
    <3> QED BY <2>3, <3>1, GotoFacts DEF Step
  <2> HIDE DEF r, g
  <2>6. e.pc = "poll" /\ e.snapshot <= source /\ <<e.base, e.retry>> = Run(c)
    BY <2>5 DEF EvalType
  <2> HIDE DEF e
  <2>7. \A id \in RunId : Onward(native[id], native'[id], source)
    BY <2>1, <2>2, <2>3 DEF Onward
  <2>8. EvalSound(e, native'[<<e.base, e.retry>>], source)
    <3>1. native'[<<e.base, e.retry>>].ingested = NotIngested
      BY <2>1, <2>2, <2>3, <2>6
    <3> QED BY <2>6, <3>1 DEF EvalSound, HasRows, Scored
  <2>9. EvalsSound'
    BY <2>1, <2>7, <2>8, OthersStaySound DEF SafeInv
  <2>10. RunsSound'
    <3> SUFFICES ASSUME NEW id \in RunId PROVE RunSound(native'[id], source)
      BY <2>1 DEF RunsSound
    <3>1. CASE id = Run(c)
      BY <2>1, <2>2, <2>3, <2>4, <3>1 DEF RunSound
    <3>2. CASE id # Run(c)
      BY <2>1, <2>3, <3>2 DEF SafeInv, RunsSound
    <3> QED BY <3>1, <3>2
  <2> QED BY <2>1, <2>9, <2>10 DEF SafeInv, CandidatesSound
<1> QED BY <1>2, <1>3

\* Polling tells fetching or drift: fetching when the run is said to be complete.
LEMMA PolledFacts ==
  ASSUME NEW c \in Client, ev[c] \in EvalType, NEW status, NEW observed, NEW transient
  PROVE  LET e == Polled(c, status, observed, transient) IN
         /\ e.pc = IF status = "completed" \/ observed = "partial" THEN "fetch" ELSE "drift"
         /\ e.status = status
         /\ e.snapshot = ev[c].snapshot
         /\ Run(c) = <<e.base, e.retry>>
<1> DEFINE s == IF status = "completed" \/ observed = "partial" THEN "fetch" ELSE "drift"
           g == Goto(c, s)
<1>1. /\ g \in EvalType /\ g.pc = s /\ g.snapshot = ev[c].snapshot
      /\ Run(c) = <<g.base, g.retry>>
  <2>1. s \in Step
    BY DEF Step
  <2> HIDE DEF s
  <2> QED BY <2>1, GotoFacts
<1>2. Polled(c, status, observed, transient)
        = [g EXCEPT !.status = status, !.observed = observed, !.transient = transient]
  BY DEF Polled
<1> HIDE DEF g, s
<1>3. LET e == Polled(c, status, observed, transient) IN
      /\ e.pc = s /\ e.status = status /\ e.snapshot = ev[c].snapshot
      /\ Run(c) = <<e.base, e.retry>>
  BY <1>1, <1>2 DEF EvalType
<1> QED BY <1>3 DEF s

LEMMA PollSound ==
  ASSUME SafeInv, TypeOK', NEW c \in Client, Poll(c)
  PROVE  SafeInv'
<1>1. ~At(c, "idle") /\ ReadOnly
  BY DEF Poll, At
<1>2. /\ ev[c] \in EvalType /\ ev[c].snapshot <= source
      /\ native[Run(c)].ingested = NotIngested \/ ev[c].snapshot <= native[Run(c)].ingested
  BY <1>1, ClientFacts DEF EvalSound, Poll, At
<1>3. ASSUME NEW status, NEW observed, NEW transient,
             Continue(c, Polled(c, status, observed, transient))
      PROVE  SafeInv'
  <2> DEFINE e == Polled(c, status, observed, transient)
  <2>1. /\ e.pc = "fetch" \/ (e.pc = "drift" /\ e.status # "completed")
        /\ e.snapshot = ev[c].snapshot /\ Run(c) = <<e.base, e.retry>>
    BY <1>2, PolledFacts
  <2> HIDE DEF e
  <2>2. EvalSound(e, native[<<e.base, e.retry>>], source)
    BY <1>2, <2>1 DEF EvalSound, HasRows, Scored
  <2>3. Continue(c, e)
    BY <1>3 DEF e
  <2> QED BY <1>1, <2>2, <2>3, ReadSound
<1>4. ASSUME NEW observed, Continue(c, PollAgain(c, observed))
      PROVE  SafeInv'
  <2> DEFINE e == PollAgain(c, observed)
  <2>1. /\ e.pc = "poll" /\ e.snapshot = ev[c].snapshot
        /\ Run(c) = <<e.base, e.retry>>
    <3>1. ev[c].pc = "poll"
      BY DEF Poll, At
    <3> QED BY <1>2, <3>1 DEF PollAgain, EvalType, Run
  <2> HIDE DEF e
  <2>2. EvalSound(e, native[<<e.base, e.retry>>], source)
    BY <1>2, <2>1 DEF EvalSound, HasRows, Scored
  <2>3. Continue(c, e)
    BY <1>4 DEF e
  <2> QED BY <1>1, <2>2, <2>3, ReadSound
<1> QED BY <1>3, <1>4 DEF Poll, Timeout

LEMMA FetchRowsSound ==
  ASSUME SafeInv, TypeOK', NEW c \in Client, FetchRows(c)
  PROVE  SafeInv'
<1>1. ~At(c, "idle")
  BY DEF FetchRows, At
<1>2. CASE Refuse(c)
  BY <1>2, RefuseSound
<1>3. CASE ~Refuse(c)
  <2>1. PICK complete \in {FALSE, native[Run(c)].complete} :
          Continue(c, [Goto(c, "drift") EXCEPT
            !.rows = Rows(c, complete),
            !.status = IF @ = "completed" /\ ~Rows(c, complete).complete
                       THEN "incomplete" ELSE @])
    BY <1>3 DEF FetchRows
  <2> DEFINE g == Goto(c, "drift")
             run == native[Run(c)]
             rows == Rows(c, complete)
             e == [g EXCEPT !.rows = rows,
                            !.status = IF @ = "completed" /\ ~rows.complete
                                       THEN "incomplete" ELSE @]
  <2>2. /\ g \in EvalType /\ g.pc = "drift" /\ g.snapshot = ev[c].snapshot
        /\ Run(c) = <<g.base, g.retry>> /\ g.retry = ev[c].retry
    BY <1>1, ClientFacts, GotoFacts DEF Step
  <2>3. /\ rows.of = g.retry /\ rows.by = run.invoked /\ rows.from = run.ingested
        /\ rows.complete = complete
    BY <2>2 DEF Rows
  <2>4. Continue(c, e) /\ ReadOnly
    BY <1>3, <2>1 DEF FetchRows
  <2>5. /\ RunSound(run, source)
        /\ run.ingested = NotIngested \/ ev[c].snapshot <= run.ingested
        /\ ev[c].snapshot <= source
    BY <1>1, ClientFacts DEF EvalSound, FetchRows, At
  <2> HIDE DEF g, rows
  <2>6. /\ e.pc = "drift" /\ e.snapshot = ev[c].snapshot /\ e.rows = rows
        /\ e.retry = g.retry /\ Run(c) = <<e.base, e.retry>>
        /\ e.status = "completed" => rows.complete
    BY <2>2 DEF EvalType
  <2> HIDE DEF e
  <2>7. HasRows(e) => RowsSound(e, run, source)
    <3> SUFFICES ASSUME HasRows(e) PROVE RowsSound(e, run, source)
      OBVIOUS
    <3>1. complete /\ run.complete
      BY <2>1, <2>3, <2>6 DEF HasRows, Scored
    <3>2. run.invoked # {} /\ run.invoked \subseteq run.traced
          /\ run.ingested # NotIngested /\ run.ingested <= source
      BY <2>5, <3>1 DEF RunSound
    <3>3. e.snapshot <= run.ingested
      BY <2>5, <2>6, <3>2
    <3> QED BY <2>3, <2>6, <3>1, <3>2, <3>3 DEF RowsSound
  <2>8. EvalSound(e, native[<<e.base, e.retry>>], source)
    BY <2>5, <2>6, <2>7 DEF EvalSound, Scored
  <2> QED BY <2>4, <2>8, ReadSound
<1> QED BY <1>2, <1>3

LEMMA CheckSourceDriftSound ==
  ASSUME SafeInv, TypeOK', NEW c \in Client, CheckSourceDrift(c)
  PROVE  SafeInv'
<1> DEFINE e == [ev[c] EXCEPT !.changed = SourceChanged(ev[c])]
<1>1. ~At(c, "idle") /\ ReadOnly /\ ev[c].pc = "drift"
  BY DEF CheckSourceDrift, At
<1>2. /\ ev[c] \in EvalType /\ ev[c].snapshot <= source
      /\ HasRows(ev[c]) => RowsSound(ev[c], native[Run(c)], source)
  BY <1>1, ClientFacts DEF EvalSound
<1>3. /\ e \in EvalType /\ e.pc = "drift" /\ e.status = ev[c].status
      /\ e.snapshot = ev[c].snapshot /\ e.rows = ev[c].rows /\ e.retry = ev[c].retry
      /\ Run(c) = <<e.base, e.retry>>
      /\ e.changed = (source # e.snapshot)
  BY <1>1, <1>2 DEF EvalType, SourceChanged, Run
<1>4. \/ /\ e.status = "completed"
         /\ Continue(c, [e EXCEPT !.pc = "post"])
      \/ Continue(c, [e EXCEPT !.pc = "diagnose",
                               !.status = IF e.changed THEN "sourceChanged" ELSE @])
      \/ Continue(c, [e EXCEPT !.pc = "upload", !.retry = @ + 1])
  BY DEF CheckSourceDrift, Succeeded
<1> HIDE DEF e
<1>5. CASE e.status = "completed" /\ Continue(c, [e EXCEPT !.pc = "post"])
  <2> DEFINE f == [e EXCEPT !.pc = "post"]
  <2>1. /\ f.pc = "post" /\ f.snapshot = e.snapshot /\ f.rows = e.rows
        /\ f.retry = e.retry /\ f.changed = e.changed /\ <<f.base, f.retry>> = Run(c)
    BY <1>3 DEF EvalType
  <2>2. RowsSound(ev[c], native[Run(c)], source)
    BY <1>1, <1>2, <1>3, <1>5 DEF HasRows
  <2> HIDE DEF f
  <2>3. RowsSound(f, native[Run(c)], source)
    BY <1>3, <2>1, <2>2 DEF RowsSound
  <2>4. ~f.changed => f.rows.from = f.snapshot
    <3> SUFFICES ASSUME ~f.changed PROVE f.rows.from = f.snapshot
      OBVIOUS
    <3>1. f.snapshot = source
      BY <1>3, <2>1
    <3>2. f.snapshot <= f.rows.from /\ f.rows.from <= source
      BY <2>3 DEF RowsSound
    <3>3. f.rows.from \in Int /\ source \in Int
      BY <1>1, <1>3, <2>1, ClientFacts
    <3> QED BY <3>1, <3>2, <3>3
  <2>5. EvalSound(f, native[<<f.base, f.retry>>], source)
    BY <1>2, <1>3, <2>1, <2>3, <2>4 DEF EvalSound, Scored
  <2>6. Continue(c, f)
    BY <1>5 DEF f
  <2> QED BY <1>1, <2>5, <2>6, ReadSound
<1>6. ASSUME NEW f, Continue(c, f), f.pc \in {"diagnose", "upload"},
             f.snapshot = e.snapshot
      PROVE  SafeInv'
  <2>1. EvalSound(f, native[<<f.base, f.retry>>], source)
    BY <1>2, <1>3, <1>6, UnscoredSound DEF Scored
  <2> QED BY <1>1, <1>6, <2>1, ReadSound
<1>7. CASE Continue(c, [e EXCEPT !.pc = "diagnose",
                                 !.status = IF e.changed THEN "sourceChanged" ELSE @])
  <2> DEFINE f == [e EXCEPT !.pc = "diagnose",
                            !.status = IF e.changed THEN "sourceChanged" ELSE @]
  <2>1. f.pc = "diagnose" /\ f.snapshot = e.snapshot
    BY <1>3 DEF EvalType
  <2> QED BY <1>6, <1>7, <2>1
<1>8. CASE Continue(c, [e EXCEPT !.pc = "upload", !.retry = @ + 1])
  <2> DEFINE f == [e EXCEPT !.pc = "upload", !.retry = @ + 1]
  <2>1. f.pc = "upload" /\ f.snapshot = e.snapshot
    BY <1>3 DEF EvalType
  <2> QED BY <1>6, <1>8, <2>1
<1> QED BY <1>4, <1>5, <1>7, <1>8

\* A step of a scored evaluation that keeps its rows.
LEMMA ScoredSound ==
  ASSUME NEW e, NEW f, NEW run, NEW src, EvalSound(e, run, src),
         e.pc \in {"post", "observe", "check"}, f.pc \in {"observe", "check", "write"},
         f.rows = e.rows, f.retry = e.retry, f.snapshot = e.snapshot,
         f.changed = e.changed,
         ~TraceLag /\ f.pc \in {"check", "write"} => e.rows.by \subseteq f.seen
  PROVE  EvalSound(f, run, src)
<1>1. RowsSound(e, run, src)
  BY DEF EvalSound, HasRows, Scored
<1>2. RowsSound(f, run, src)
  BY <1>1 DEF RowsSound
<1> QED BY <1>2 DEF EvalSound, Scored

LEMMA ObservationSound ==
  ASSUME SafeInv, TypeOK', NEW c \in Client,
         PostCompletion(c) \/ ObserveRun(c) \/ CheckCandidate(c)
  PROVE  SafeInv'
<1>1. ~At(c, "idle")
  BY DEF PostCompletion, ObserveRun, CheckCandidate, At
<1>2. ev[c] \in EvalType /\ EvalSound(ev[c], native[Run(c)], source)
  BY <1>1, ClientFacts
<1>3. CASE PostCompletion(c)
  <2> DEFINE g == Goto(c, "observe")
             f == [g EXCEPT !.post = default]
  <2>1. /\ g \in EvalType /\ g.pc = "observe" /\ g.rows = ev[c].rows
        /\ g.retry = ev[c].retry /\ g.snapshot = ev[c].snapshot
        /\ g.changed = ev[c].changed /\ <<g.base, g.retry>> = Run(c)
    BY <1>2, GotoFacts DEF Step
  <2> HIDE DEF g
  <2>2. /\ f.pc = "observe" /\ f.rows = ev[c].rows
        /\ f.retry = ev[c].retry /\ f.snapshot = ev[c].snapshot
        /\ f.changed = ev[c].changed /\ <<f.base, f.retry>> = Run(c)
    BY <2>1 DEF EvalType
  <2>3. Continue(c, f) /\ ReadOnly
    BY <1>3 DEF PostCompletion, g
  <2> HIDE DEF f
  <2>4. EvalSound(f, native[Run(c)], source)
    BY <1>2, <1>3, <2>2, ScoredSound DEF PostCompletion, At
  <2> QED BY <2>2, <2>3, <2>4, ReadSound
<1>4. CASE ObserveRun(c)
  <2>1. PICK seen \in IF TraceLag THEN SUBSET native[Run(c)].traced
                                  ELSE {native[Run(c)].traced} :
          Continue(c, [Goto(c, "check") EXCEPT !.seen = seen])
    BY <1>4 DEF ObserveRun
  <2> DEFINE g == Goto(c, "check")
             f == [g EXCEPT !.seen = seen]
  <2>2. /\ g \in EvalType /\ g.pc = "check" /\ g.rows = ev[c].rows
        /\ g.retry = ev[c].retry /\ g.snapshot = ev[c].snapshot
        /\ g.changed = ev[c].changed /\ <<g.base, g.retry>> = Run(c)
    BY <1>2, GotoFacts DEF Step
  <2> HIDE DEF g
  <2>3. /\ f.pc = "check" /\ f.rows = ev[c].rows /\ f.seen = seen
        /\ f.retry = ev[c].retry /\ f.snapshot = ev[c].snapshot
        /\ f.changed = ev[c].changed /\ <<f.base, f.retry>> = Run(c)
    BY <2>2 DEF EvalType
  <2>4. Continue(c, f) /\ ReadOnly
    BY <1>4, <2>1 DEF ObserveRun, g
  <2> HIDE DEF f
  <2>5. ~TraceLag => ev[c].rows.by \subseteq f.seen
    <3>1. RowsSound(ev[c], native[Run(c)], source)
      BY <1>2, <1>4 DEF EvalSound, HasRows, Scored, ObserveRun, At
    <3> QED BY <2>1, <2>3, <3>1 DEF RowsSound
  <2>6. EvalSound(f, native[Run(c)], source)
    BY <1>2, <1>4, <2>3, <2>5, ScoredSound DEF ObserveRun, At
  <2> QED BY <2>3, <2>4, <2>6, ReadSound
<1>5. CASE CheckCandidate(c)
  <2> DEFINE f == Goto(c, "write")
  <2>1. /\ f.pc = "write" /\ f.rows = ev[c].rows /\ f.seen = ev[c].seen
        /\ f.retry = ev[c].retry /\ f.snapshot = ev[c].snapshot
        /\ f.changed = ev[c].changed /\ <<f.base, f.retry>> = Run(c)
    BY <1>2, GotoFacts DEF Step
  <2>2. Refuse(c) \/ (Continue(c, f) /\ ReadOnly)
    BY <1>5 DEF CheckCandidate
  <2> HIDE DEF f
  <2>3. ~TraceLag => ev[c].rows.by \subseteq f.seen
    BY <1>2, <1>5, <2>1 DEF EvalSound, CheckCandidate, At
  <2>4. EvalSound(f, native[Run(c)], source)
    BY <1>2, <1>5, <2>1, <2>3, ScoredSound DEF CheckCandidate, At
  <2> QED BY <2>1, <2>2, <2>4, ReadSound, RefuseSound
<1> QED BY <1>3, <1>4, <1>5

\* The client is done; nobody else's run is touched.
LEMMA EndSound ==
  ASSUME SafeInv, TypeOK', NEW c \in Client, End(c), UNCHANGED <<native, source>>,
         CandidatesSound'
  PROVE  SafeInv'
<1>1. Idle.pc = "idle"
  BY DEF Idle
<1>2. ev' = [ev EXCEPT ![c] = Idle]
  BY DEF End
<1> HIDE DEF Idle
<1>3. EvalsSound'
  BY <1>1, <1>2, OthersStaySound, SameRunsOnward DEF SafeInv
<1> QED BY <1>3 DEF SafeInv, RunsSound

LEMMA WriteDiagnosticSound ==
  ASSUME SafeInv, TypeOK', NEW c \in Client, WriteDiagnostic(c)
  PROVE  SafeInv'
<1>1. CASE Refuse(c)
  BY <1>1, RefuseSound
<1>2. CASE ~Refuse(c)
  <2>1. End(c) /\ UNCHANGED <<native, source, candidates>>
    BY <1>2 DEF WriteDiagnostic, agentVars, serviceVars
  <2> QED BY <2>1, EndSound DEF SafeInv, CandidatesSound
<1> QED BY <1>1, <1>2

\* What passes was scored on the snapshot and, if the trace is complete, on the
\* intended version only.
LEMMA BuildCandidateSound ==
  ASSUME SafeInv, NEW c \in Client, At(c, "write"), NEW good \in BOOLEAN
  PROVE  CandidateSound(BuildCandidate(c, good))
<1> DEFINE a == BuildCandidate(c, good)
<1>1. ~At(c, "idle") /\ ev[c].pc = "write"
  BY DEF At
<1>2. EvalSound(ev[c], native[Run(c)], source)
  BY <1>1, ClientFacts
<1>3. RowsSound(ev[c], native[Run(c)], source)
  BY <1>1, <1>2 DEF EvalSound, HasRows, Scored
<1>4. /\ a.run = <<ev[c].base, ev[c].retry>> /\ a.rows = ev[c].rows
      /\ a.snapshot = ev[c].snapshot /\ a.intended = Intended(ev[c])
      /\ a.passed => ~ev[c].changed /\ ev[c].seen = {Intended(ev[c])}
  BY DEF BuildCandidate, Run, VersionMismatch
<1> HIDE DEF a
<1>5. a.run[2] = ev[c].retry
  BY <1>4
<1>6. a.passed => a.rows.from = a.snapshot
  BY <1>1, <1>2, <1>4 DEF EvalSound, Scored
<1>7. ~TraceLag /\ a.passed => a.rows.by = {a.intended}
  <2>1. ~TraceLag => ev[c].rows.by \subseteq ev[c].seen
    BY <1>1, <1>2 DEF EvalSound
  <2> QED BY <1>3, <1>4, <2>1 DEF RowsSound
<1>8. a.rows.complete /\ a.rows.of = ev[c].retry
  BY <1>3, <1>4 DEF RowsSound
<1>9. CandidateSound(a)
  BY <1>5, <1>6, <1>7, <1>8 DEF CandidateSound
<1> QED BY <1>9 DEF a

LEMMA WriteCandidateSound ==
  ASSUME SafeInv, TypeOK', NEW c \in Client, WriteCandidate(c)
  PROVE  SafeInv'
<1>1. PICK good \in BOOLEAN :
        candidates' = {a \in candidates : a.run # Run(c)} \cup {BuildCandidate(c, good)}
  BY DEF WriteCandidate
<1>2. CandidateSound(BuildCandidate(c, good))
  BY BuildCandidateSound DEF WriteCandidate
<1> HIDE DEF BuildCandidate
<1>3. \A a \in candidates' : CandidateSound(a)
  BY <1>1, <1>2 DEF SafeInv, CandidatesSound
<1>4. End(c) /\ UNCHANGED <<native, source>>
  BY DEF WriteCandidate, agentVars, serviceVars
<1> QED BY <1>3, <1>4, EndSound DEF CandidatesSound

LEMMA NativeStepSound ==
  ASSUME SafeInv, TypeOK', NEW id \in RunId, NEW run, NativeStep(id, run),
         RunSound(run, source), Onward(native[id], run, source)
  PROVE  SafeInv'
<1>1. /\ native' = [native EXCEPT ![id] = run] /\ native \in [RunId -> RunType]
      /\ UNCHANGED <<source, ev, candidates>>
  BY DEF NativeStep, agentVars, diskVars, SafeInv, TypeOK
<1>2. source <= source'
  <2>1. source \in Generation
    BY DEF SafeInv, TypeOK
  <2> QED BY <1>1, <2>1, BoundsArePositive DEF Generation
<1>3. \A i \in RunId : Onward(native[i], native'[i], source)
  BY <1>1 DEF Onward
<1>4. EvalsSound'
  BY <1>1, <1>2, <1>3, WatchersStaySound DEF SafeInv
<1>5. RunsSound'
  BY <1>1 DEF SafeInv, RunsSound
<1> QED BY <1>1, <1>4, <1>5 DEF SafeInv, CandidatesSound

LEMMA ServiceSound ==
  ASSUME SafeInv, TypeOK', Service
  PROVE  SafeInv'
<1>1. PICK id \in RunId : \/ Ingest(id) \/ Invoke(id) \/ EndInvocations(id)
                          \/ CompletePartial(id) \/ FailRun(id)
  BY DEF Service
<1> DEFINE old == native[id]
<1>2. old \in RunType /\ RunSound(old, source)
  BY DEF SafeInv, TypeOK, RunsSound
<1>3. \E run : NativeStep(id, run) /\ RunSound(run, source) /\ Onward(old, run, source)
  <2>1. CASE Ingest(id)
    <3> DEFINE run == [old EXCEPT !.ingested = source]
    <3>1. NativeStep(id, run)
      BY <2>1 DEF Ingest
    <3>2. source # NotIngested /\ source <= source
      BY BoundsArePositive DEF SafeInv, TypeOK, Generation, NotIngested
    <3> HIDE DEF old
    <3>3. RunSound(run, source) /\ Onward(old, run, source)
      BY <1>2, <3>2 DEF RunType, RunSound, Onward
    <3> QED BY <3>1, <3>3
  <2>2. CASE Invoke(id)
    <3> DEFINE version == IF native[id].requested # Unpinned THEN native[id].requested
                          ELSE IF committed = 1 THEN Live ELSE default
               run == [old EXCEPT !.invoked = @ \cup {version},
                                  !.traced = @ \cup {version}]
    <3>1. NativeStep(id, run) /\ old.ingested # NotIngested
      BY <2>2 DEF Invoke
    <3> HIDE DEF old, version
    <3>2. RunSound(run, source) /\ Onward(old, run, source)
      BY <1>2, <3>1 DEF RunType, RunSound, Onward
    <3> QED BY <3>1, <3>2
  <2>3. CASE EndInvocations(id)
    <3>1. PICK status \in {"partial", "completed"}, complete \in BOOLEAN :
            NativeStep(id, [old EXCEPT !.status = status, !.complete = complete])
      BY <2>3 DEF EndInvocations
    <3> DEFINE run == [old EXCEPT !.status = status, !.complete = complete]
    <3>2. old.invoked # {}
      BY <2>3 DEF EndInvocations
    <3> HIDE DEF old
    <3>3. RunSound(run, source) /\ Onward(old, run, source)
      BY <1>2, <3>2 DEF RunType, RunSound, Onward
    <3> QED BY <3>1, <3>3
  <2>4. CASE CompletePartial(id)
    <3> DEFINE run == [old EXCEPT !.status = "completed"]
    <3>1. NativeStep(id, run)
      BY <2>4 DEF CompletePartial
    <3> HIDE DEF old
    <3>2. RunSound(run, source) /\ Onward(old, run, source)
      BY <1>2 DEF RunType, RunSound, Onward
    <3> QED BY <3>1, <3>2
  <2>5. CASE FailRun(id)
    <3>1. PICK transient \in BOOLEAN :
            NativeStep(id, [old EXCEPT !.status = "failed", !.transient = transient])
      BY <2>5 DEF FailRun
    <3> DEFINE run == [old EXCEPT !.status = "failed", !.transient = transient]
    <3> HIDE DEF old
    <3>2. RunSound(run, source) /\ Onward(old, run, source)
      BY <1>2 DEF RunType, RunSound, Onward
    <3> QED BY <3>1, <3>2
  <2> QED BY <1>1, <2>1, <2>2, <2>3, <2>4, <2>5
<1> QED BY <1>3, NativeStepSound

LEMMA OthersSound ==
  ASSUME SafeInv, TypeOK', Others
  PROVE  SafeInv'
<1>1. UNCHANGED <<native, ev, candidates>>
  BY DEF Others, CommitVersion, MoveDefault, RebuildSource, serviceVars, diskVars
<1>2. source \in Int /\ source' \in Int /\ source <= source'
  <2>1. source \in Generation /\ (source' = source \/ source' = source + 1)
    BY DEF SafeInv, TypeOK, Others, CommitVersion, MoveDefault, RebuildSource
  <2> QED BY <2>1, BoundsArePositive DEF Generation
<1>3. EvalsSound'
  BY <1>1, <1>2, SameRunsOnward, WatchersStaySound DEF SafeInv
<1>4. RunsSound'
  <2> SUFFICES ASSUME NEW id \in RunId PROVE RunSound(native[id], source')
    BY <1>1 DEF RunsSound
  <2>1. RunSound(native[id], source) /\ native[id] \in RunType
    BY DEF SafeInv, RunsSound, TypeOK
  <2>2. native[id].ingested \in Int
    <3>1. native[id].ingested \in Generation \cup {NotIngested}
      BY <2>1 DEF RunType
    <3> QED BY <3>1, BoundsArePositive DEF Generation, NotIngested
  <2>3. native[id].ingested <= source'
    BY <1>2, <2>1, <2>2 DEF RunSound
  <2> QED BY <2>1, <2>3 DEF RunSound
<1> QED BY <1>1, <1>3, <1>4 DEF SafeInv, CandidatesSound

LEMMA NextSound ==
  ASSUME SafeInv, [Next]_vars
  PROVE  SafeInv'
<1>1. TypeOK'
  BY NextTyped DEF SafeInv
<1>2. ASSUME NEW c \in Client, StartEvaluation(c) \/ ClientStep(c) \/ Stop(c)
      PROVE  SafeInv'
  BY <1>1, <1>2, StartEvaluationSound, PreparationSound, UploadConfigSound,
     StartRunSound, PollSound, FetchRowsSound, CheckSourceDriftSound,
     WriteDiagnosticSound, ObservationSound, WriteCandidateSound, RefuseSound
     DEF ClientStep, Stop
<1>3. CASE UNCHANGED vars
  <2>1. UNCHANGED <<native, source, ev, candidates>>
    BY <1>3 DEF vars, agentVars, serviceVars, diskVars
  <2> QED BY <1>1, <2>1
          DEF SafeInv, RunsSound, EvalsSound, CandidatesSound, At, Run
<1> QED BY <1>1, <1>2, <1>3, ServiceSound, OthersSound DEF Next, Rest

\* The invariant the theorems below rest on: runs, running evaluations and
\* artifacts are sound.
THEOREM SafeCorrect == Spec => []SafeInv
<1>1. Init => SafeInv
  <2> SUFFICES ASSUME Init PROVE SafeInv
    OBVIOUS
  <2>1. RunsSound
    <3>1. NoRun.ingested = NotIngested /\ NoRun.invoked = {} /\ ~NoRun.complete
          /\ NoRun.traced = {}
      BY DEF NoRun
    <3>2. source = 0 /\ \A id \in RunId : native[id] = NoRun
      BY DEF Init
    <3>3. NotIngested <= 0
      BY DEF NotIngested
    <3> HIDE DEF NoRun, NotIngested
    <3> QED BY <3>1, <3>2, <3>3 DEF RunsSound, RunSound
  <2>2. EvalsSound
    <3>1. Idle.pc = "idle"
      BY DEF Idle
    <3> QED BY <3>1 DEF Init, EvalsSound, At
  <2>3. CandidatesSound
    BY DEF Init, CandidatesSound
  <2> QED BY <2>1, <2>2, <2>3, InitTyped DEF SafeInv
<1>2. SafeInv /\ [Next]_vars => SafeInv'
  BY NextSound
<1> QED BY <1>1, <1>2, PTL DEF Spec

\* Whatever clients, service and other people do, a candidate holds complete rows
\* of the run it is named after.
THEOREM NamedRunCorrect == Spec => []RowsOfNamedRun
<1>1. SafeInv => RowsOfNamedRun
  BY DEF SafeInv, CandidatesSound, CandidateSound, RowsOfNamedRun
<1> QED BY <1>1, SafeCorrect, PTL

\* A candidate that passes was scored on its snapshot, however often the dataset
\* table was rebuilt and however often the evaluation was retried.
THEOREM SnapshotCorrect == Spec => []PassedOnSnapshot
<1>1. SafeInv => PassedOnSnapshot
  BY DEF SafeInv, CandidatesSound, CandidateSound, PassedOnSnapshot
<1> QED BY <1>1, SafeCorrect, PTL

\* When run traces are complete by the time they are read, the trace check alone
\* keeps a candidate from passing for a version that was not measured, wherever
\* DEFAULT moves, rollbacks included, and whoever shares the run name.
THEOREM MeasuredCorrect == ~TraceLag => (Spec => []PassedMeasuredIntended)
<1> SUFFICES ASSUME ~TraceLag PROVE Spec => []PassedMeasuredIntended
  OBVIOUS
<1>1. SafeInv => PassedMeasuredIntended
  BY DEF SafeInv, CandidatesSound, CandidateSound, PassedMeasuredIntended
<1> QED BY <1>1, SafeCorrect, PTL
-----------------------------------------------------------------------------
(* Clients that do not share run names.  Names carry the agent, the suite and  *)
(* the second, so two evaluations have the same one only when they begin in    *)
(* the same second or are given it; a name may be used again afterwards.       *)

NamesApart ==
  \A c, d \in Client :
    c # d /\ ~At(c, "idle") /\ ~At(d, "idle") => ev[c].base # ev[d].base

\* What a client makes of its run is settled: the run it fetches from, and the
\* run it may retry, has stopped.
Settled(e, run) ==
  /\ e.pc = "poll" /\ e.observed \in {"partial", "completed", "failed"} =>
       run.status # "running"
  /\ e.pc = "fetch" => run.status # "running"
  /\ e.pc = "drift" /\ Retryable(e) => run.status # "running"

OwnSound(c) ==
  /\ \A r \in 0..ev[c].retry - 1 : native[<<ev[c].base, r>>].status # "running"
  /\ Settled(ev[c], native[Run(c)])
  /\ At(c, "write") => ~HasCandidate(Run(c))

OwnInv == TypeOK /\ \A c \in Client : ~At(c, "idle") => OwnSound(c)

\* A client that takes no step, and whose runs nobody starts, stays sound.
LEMMA OwnKept ==
  ASSUME TypeOK, NEW c \in Client, ~At(c, "idle"), OwnSound(c), ev'[c] = ev[c],
         \A r \in 0..Retries : native[<<ev[c].base, r>>].status # "running" =>
                               native'[<<ev[c].base, r>>].status # "running",
         \A a \in candidates' : a \in candidates \/ a.run # Run(c)
  PROVE  OwnSound(c)'
<1>1. ev[c].retry \in 0..Retries
  BY RunningTyped DEF EvalType
<1>2. \A r \in 0..ev[c].retry - 1 : r \in 0..Retries
  BY <1>1, BoundsArePositive
<1>3. \A r \in 0..ev[c].retry - 1 : native'[<<ev[c].base, r>>].status # "running"
  BY <1>2 DEF OwnSound
<1>4. native[Run(c)].status # "running" => native'[Run(c)].status # "running"
  BY <1>1 DEF Run
<1>5. Settled(ev[c], native'[Run(c)])
  BY <1>4 DEF OwnSound, Settled
<1>6. At(c, "write") => ~HasCandidate(Run(c))'
  BY DEF OwnSound, HasCandidate, Run, At
<1> QED BY <1>3, <1>5, <1>6 DEF OwnSound, Run, At

\* A client changes its own run and its own artifacts only.
LEMMA StepsOnOwn ==
  ASSUME TypeOK, NEW d \in Client, ClientStep(d) \/ Stop(d)
  PROVE  /\ ~At(d, "idle")
         /\ \A c \in Client \ {d} : ev'[c] = ev[c]
         /\ \A id \in RunId : id # Run(d) => native'[id] = native[id]
         /\ \A a \in candidates' : a \in candidates \/ a.run = Run(d)
<1>1. ~At(d, "idle")
  BY DEF ClientStep, Stop, InitialProvenance, ValidateTable, UploadConfig,
         PreStartProvenance, RecheckSource, StartRun, Poll, FetchRows,
         CheckSourceDrift, WriteDiagnostic, PostCompletion, ObserveRun,
         CheckCandidate, WriteCandidate, At
<1>2. \A c \in Client \ {d} : ev'[c] = ev[c]
  <2>1. \E e : ev' = [ev EXCEPT ![d] = e]
    BY DEF ClientStep, Stop, InitialProvenance, ValidateTable, UploadConfig,
           PreStartProvenance, RecheckSource, StartRun, Poll, FetchRows,
           CheckSourceDrift, WriteDiagnostic, PostCompletion, ObserveRun,
           CheckCandidate, WriteCandidate, Refuse, End, Continue
  <2> QED BY <2>1 DEF TypeOK
<1>3. \A id \in RunId : id # Run(d) => native'[id] = native[id]
  <2>1. CASE StartRun(d)
    BY <2>1 DEF StartRun, Refuse, ReadOnly, serviceVars, TypeOK
  <2>2. CASE ~StartRun(d)
    BY <2>2 DEF ClientStep, Stop, InitialProvenance, ValidateTable, UploadConfig,
           PreStartProvenance, RecheckSource, Poll, FetchRows,
           CheckSourceDrift, WriteDiagnostic, PostCompletion, ObserveRun,
           CheckCandidate, WriteCandidate, Refuse, ReadOnly, serviceVars
  <2> QED BY <2>1, <2>2
<1>4. \A a \in candidates' : a \in candidates \/ a.run = Run(d)
  <2>1. CASE WriteCandidate(d)
    <3>1. PICK good \in BOOLEAN :
            candidates' = {a \in candidates : a.run # Run(d)} \cup {BuildCandidate(d, good)}
      BY <2>1 DEF WriteCandidate
    <3>2. BuildCandidate(d, good).run = Run(d)
      BY DEF BuildCandidate
    <3> HIDE DEF BuildCandidate
    <3> QED BY <3>1, <3>2
  <2>2. CASE ~WriteCandidate(d)
    BY <2>2 DEF ClientStep, Stop, InitialProvenance, ValidateTable, UploadConfig,
           PreStartProvenance, RecheckSource, StartRun, Poll, FetchRows,
           CheckSourceDrift, WriteDiagnostic, PostCompletion, ObserveRun,
           CheckCandidate, Refuse, ReadOnly, diskVars
  <2> QED BY <2>1, <2>2
<1> QED BY <1>1, <1>2, <1>3, <1>4

LEMMA OthersStayOwn ==
  ASSUME OwnInv, NamesApart, NEW d \in Client, ClientStep(d) \/ Stop(d),
         NEW c \in Client, c # d, ~At(c, "idle")
  PROVE  OwnSound(c)'
<1>1. TypeOK /\ OwnSound(c)
  BY DEF OwnInv
<1>2. /\ ~At(d, "idle") /\ ev'[c] = ev[c]
      /\ \A id \in RunId : id # Run(d) => native'[id] = native[id]
      /\ \A a \in candidates' : a \in candidates \/ a.run = Run(d)
  BY <1>1, StepsOnOwn
<1>3. ev[c].base # ev[d].base /\ ev[c].base \in BaseName
  BY <1>1, <1>2, RunningTyped DEF NamesApart
<1>4. Run(c) # Run(d) /\ \A r : <<ev[c].base, r>> # Run(d)
  BY <1>3 DEF Run
<1>5. \A r \in 0..Retries : native'[<<ev[c].base, r>>] = native[<<ev[c].base, r>>]
  <2>1. \A r \in 0..Retries : <<ev[c].base, r>> \in RunId
    BY <1>3 DEF RunId
  <2> QED BY <1>2, <1>4, <2>1
<1> QED BY <1>1, <1>2, <1>4, <1>5, OwnKept

\* A step of c itself: it ends, or its new state is to be shown sound.
LEMMA OwnStep ==
  ASSUME OwnInv, TypeOK', NamesApart, NEW c \in Client, ClientStep(c) \/ Stop(c),
         At(c, "idle")' \/ OwnSound(c)'
  PROVE  OwnInv'
<1> SUFFICES ASSUME NEW d \in Client, ~At(d, "idle")' PROVE OwnSound(d)'
  BY DEF OwnInv
<1>1. CASE d = c
  BY <1>1
<1>2. CASE d # c
  <2>1. ev'[d] = ev[d]
    BY <1>2, StepsOnOwn DEF OwnInv
  <2>2. ~At(d, "idle")
    BY <2>1 DEF At
  <2> QED BY <1>2, <2>2, OthersStayOwn
<1> QED BY <1>1, <1>2

\* A step of c that only moves on: its earlier runs are the same ones.
LEMMA OwnContinues ==
  ASSUME OwnInv, NEW c \in Client, ~At(c, "idle"), NEW e, Continue(c, e),
         e.base = ev[c].base, e.retry = ev[c].retry, UNCHANGED <<native, candidates>>,
         Settled(e, native[Run(c)]),
         e.pc = "write" => ~HasCandidate(Run(c))
  PROVE  OwnSound(c)'
<1>1. ev'[c] = e /\ OwnSound(c)
  BY DEF OwnInv, TypeOK, Continue
<1> QED BY <1>1 DEF OwnSound, Run, At, HasCandidate

LEMMA EndsIdle ==
  ASSUME TypeOK, NEW c \in Client, End(c)
  PROVE  At(c, "idle")'
<1>1. Idle.pc = "idle"
  BY DEF Idle
<1> QED BY <1>1 DEF End, TypeOK, At

LEMMA ReadFrame ==
  ASSUME ReadOnly
  PROVE  UNCHANGED <<committed, default, source, staged, native, candidates, diagnostics>>
  BY DEF ReadOnly, agentVars, serviceVars, diskVars
\* A step of c that moves on to a place where nothing is asked of its run.
LEMMA QuietOwn ==
  ASSUME OwnInv, TypeOK', NamesApart, NEW c \in Client, ClientStep(c), NEW e,
         Continue(c, e), e.base = ev[c].base, e.retry = ev[c].retry,
         e.pc \notin {"poll", "fetch", "drift"},
         e.pc = "write" => ~HasCandidate(Run(c)), UNCHANGED <<native, candidates>>
  PROVE  OwnInv'
<1>1. ~At(c, "idle")
  BY StepsOnOwn DEF OwnInv
<1>2. Settled(e, native[Run(c)])
  BY DEF Settled
<1>3. OwnSound(c)'
  BY <1>1, <1>2, OwnContinues
<1> QED BY <1>3, OwnStep

LEMMA QuietStepsOwn ==
  ASSUME OwnInv, TypeOK', NamesApart, NEW c \in Client,
         \/ InitialProvenance(c) \/ ValidateTable(c) \/ UploadConfig(c)
         \/ PreStartProvenance(c) \/ RecheckSource(c) \/ WriteDiagnostic(c)
         \/ PostCompletion(c) \/ ObserveRun(c) \/ CheckCandidate(c)
  PROVE  OwnInv'
<1>1. ev[c] \in EvalType /\ ClientStep(c)
  <2>1. ClientStep(c)
    BY DEF ClientStep
  <2> QED BY <2>1, StepsOnOwn, RunningTyped DEF OwnInv
<1>2. CASE End(c)
  BY <1>1, <1>2, EndsIdle, OwnStep DEF OwnInv
<1>3. CASE ~End(c)
  <2>1. UNCHANGED <<native, candidates>>
    BY <1>3, ReadFrame
       DEF InitialProvenance, ValidateTable, UploadConfig, PreStartProvenance,
           RecheckSource, WriteDiagnostic, PostCompletion, ObserveRun,
           CheckCandidate, Refuse, diskVars, serviceVars
  <2>2. CASE InitialProvenance(c)
    <3> DEFINE e == [Goto(c, "validate") EXCEPT !.initial = default]
    <3>1. e.base = ev[c].base /\ e.retry = ev[c].retry /\ e.pc = "validate"
      BY <1>1 DEF Goto, EvalType
    <3>2. Continue(c, e)
      BY <1>3, <2>2 DEF InitialProvenance, Refuse
    <3> HIDE DEF e
    <3> QED BY <1>1, <2>1, <3>1, <3>2, QuietOwn
  <2>3. CASE ValidateTable(c)
    <3> DEFINE e == [Goto(c, "upload") EXCEPT !.snapshot = source]
    <3>1. e.base = ev[c].base /\ e.retry = ev[c].retry /\ e.pc = "upload"
      BY <1>1 DEF Goto, EvalType
    <3>2. Continue(c, e)
      BY <1>3, <2>3 DEF ValidateTable, Refuse
    <3> HIDE DEF e
    <3> QED BY <1>1, <2>1, <3>1, <3>2, QuietOwn
  <2>4. CASE UploadConfig(c)
    <3> DEFINE e == Goto(c, "preStart")
    <3>1. e.base = ev[c].base /\ e.retry = ev[c].retry /\ e.pc = "preStart"
      BY <1>1 DEF Goto, EvalType
    <3>2. Continue(c, e)
      BY <1>3, <2>4 DEF UploadConfig, Refuse
    <3> HIDE DEF e
    <3> QED BY <1>1, <2>1, <3>1, <3>2, QuietOwn
  <2>5. CASE PreStartProvenance(c)
    <3> DEFINE e == [Goto(c, "recheck") EXCEPT !.pre = default]
    <3>1. e.base = ev[c].base /\ e.retry = ev[c].retry /\ e.pc = "recheck"
      BY <1>1 DEF Goto, EvalType
    <3>2. Continue(c, e)
      BY <1>3, <2>5 DEF PreStartProvenance, Refuse
    <3> HIDE DEF e
    <3> QED BY <1>1, <2>1, <3>1, <3>2, QuietOwn
  <2>6. CASE RecheckSource(c)
    <3> DEFINE e == Goto(c, "start")
    <3>1. e.base = ev[c].base /\ e.retry = ev[c].retry /\ e.pc = "start"
      BY <1>1 DEF Goto, EvalType
    <3>2. Continue(c, e)
      BY <1>3, <2>6 DEF RecheckSource, Refuse
    <3> HIDE DEF e
    <3> QED BY <1>1, <2>1, <3>1, <3>2, QuietOwn
  <2>7. CASE PostCompletion(c)
    <3> DEFINE e == [Goto(c, "observe") EXCEPT !.post = default]
    <3>1. e.base = ev[c].base /\ e.retry = ev[c].retry /\ e.pc = "observe"
      BY <1>1 DEF Goto, EvalType
    <3>2. Continue(c, e)
      BY <1>3, <2>7 DEF PostCompletion, Refuse
    <3> HIDE DEF e
    <3> QED BY <1>1, <2>1, <3>1, <3>2, QuietOwn
  <2>8. CASE CheckCandidate(c)
    <3> DEFINE e == Goto(c, "write")
    <3>1. e.base = ev[c].base /\ e.retry = ev[c].retry /\ e.pc = "write"
      BY <1>1 DEF Goto, EvalType
    <3>2. Continue(c, e) /\ ~HasCandidate(Run(c))
      BY <1>3, <2>8 DEF CheckCandidate, Refuse
    <3> HIDE DEF e
    <3> QED BY <1>1, <2>1, <3>1, <3>2, QuietOwn
  <2>9. CASE ObserveRun(c)
    <3>1. PICK seen : Continue(c, [Goto(c, "check") EXCEPT !.seen = seen])
      BY <2>9 DEF ObserveRun
    <3> DEFINE e == [Goto(c, "check") EXCEPT !.seen = seen]
    <3>2. e.base = ev[c].base /\ e.retry = ev[c].retry /\ e.pc = "check"
      BY <1>1 DEF Goto, EvalType
    <3>3. Continue(c, e)
      BY <3>1
    <3> HIDE DEF e
    <3> QED BY <1>1, <2>1, <3>2, <3>3, QuietOwn
  <2>10. ~WriteDiagnostic(c)
    BY <1>3 DEF WriteDiagnostic, Refuse
  <2> QED BY <2>2, <2>3, <2>4, <2>5, <2>6, <2>7, <2>8, <2>9, <2>10
<1> QED BY <1>2, <1>3

\* The run is started again under the name, or for the first time: none of its
\* earlier attempts is touched.
LEMMA StartRunOwn ==
  ASSUME OwnInv, TypeOK', NamesApart, NEW c \in Client, StartRun(c)
  PROVE  OwnInv'
<1>1. ~At(c, "idle") /\ ClientStep(c) /\ ev[c] \in EvalType /\ ev[c].base \in BaseName
  <2>1. ~At(c, "idle")
    BY DEF StartRun, At
  <2> QED BY <2>1, RunningTyped DEF OwnInv, ClientStep
<1>2. CASE End(c)
  BY <1>1, <1>2, EndsIdle, OwnStep DEF OwnInv
<1>3. CASE ~End(c)
  <2> DEFINE e == [Goto(c, "poll") EXCEPT !.polls = 0, !.status = "unstarted",
                                          !.observed = "absent", !.transient = FALSE]
  <2>1. Continue(c, e)
    BY <1>3 DEF StartRun, Refuse
  <2>2. /\ e.base = ev[c].base /\ e.retry = ev[c].retry /\ e.pc = "poll"
        /\ e.observed = "absent"
    BY <1>1 DEF Goto, EvalType
  <2> HIDE DEF e
  <2>3. ev'[c] = e /\ OwnSound(c)
    BY <1>1, <2>1 DEF Continue, OwnInv, TypeOK
  <2>4. \A r \in 0..ev[c].retry - 1 :
          native'[<<ev[c].base, r>>] = native[<<ev[c].base, r>>]
    <3>1. ev[c].retry \in 0..Retries
      BY <1>1 DEF EvalType
    <3> SUFFICES ASSUME NEW r \in 0..ev[c].retry - 1
                 PROVE  native'[<<ev[c].base, r>>] = native[<<ev[c].base, r>>]
      OBVIOUS
    <3>2. r # ev[c].retry /\ r \in 0..Retries
      BY <3>1, BoundsArePositive
    <3>3. <<ev[c].base, r>> \in RunId /\ <<ev[c].base, r>> # Run(c)
      BY <1>1, <3>2 DEF RunId, Run
    <3> QED BY <1>1, <3>3, StepsOnOwn DEF OwnInv
  <2>5. OwnSound(c)'
    BY <2>2, <2>3, <2>4 DEF OwnSound, Settled, At
  <2> QED BY <1>1, <2>5, OwnStep
<1> QED BY <1>2, <1>3

\* What polling ends with says whether the run has stopped: a timeout does only
\* when the run was last seen partly complete, and is not transient.
LEMMA PollOwn ==
  ASSUME OwnInv, TypeOK', NamesApart, NEW c \in Client, Poll(c)
  PROVE  OwnInv'
<1>1. ~At(c, "idle") /\ ClientStep(c) /\ ev[c] \in EvalType /\ ev[c].pc = "poll"
      /\ UNCHANGED <<native, candidates>>
  <2>1. ~At(c, "idle") /\ ev[c].pc = "poll"
    BY DEF Poll, At
  <2> QED BY <2>1, RunningTyped, ReadFrame DEF OwnInv, ClientStep, Poll
<1> DEFINE run == native[Run(c)]
           done == {"partial", "completed", "failed"}
<1>2. ev[c].observed \in done => run.status # "running"
  BY <1>1 DEF OwnInv, OwnSound, Settled
<1>3. PICK answer \in StatusRow(c) :
        LET observed == IF answer = "absent" THEN ev[c].observed ELSE answer
            terminal == answer \in {"completed", "failed"}
        IN
        \/ /\ terminal
           /\ Continue(c, Polled(c, answer, answer, native[Run(c)].transient))
        \/ ~terminal /\ ~LastPoll(ev[c]) /\ Continue(c, PollAgain(c, observed))
        \/ ~terminal /\ LastPoll(ev[c]) /\ Continue(c, Timeout(c, observed))
  BY DEF Poll
<1> DEFINE observed == IF answer = "absent" THEN ev[c].observed ELSE answer
<1>4. observed \in done => run.status # "running"
  BY <1>2 DEF StatusRow
<1> HIDE DEF observed
<1>5. ASSUME NEW status, NEW seen, NEW transient,
             Continue(c, Polled(c, status, seen, transient)),
             status # "incomplete",
             status = "completed" \/ seen = "partial" \/ transient => run.status # "running"
      PROVE  OwnInv'
  <2> DEFINE e == Polled(c, status, seen, transient)
             s == IF status = "completed" \/ seen = "partial" THEN "fetch" ELSE "drift"
  <2>1. /\ e.base = ev[c].base /\ e.retry = ev[c].retry /\ e.pc = s
        /\ e.status = status /\ e.observed = seen /\ e.transient = transient
    BY <1>1 DEF Polled, Goto, EvalType
  <2> HIDE DEF e
  <2>2. Settled(e, run)
    BY <1>5, <2>1 DEF Settled, Retryable
  <2>3. Continue(c, e)
    BY <1>5 DEF e
  <2>4. OwnSound(c)'
    BY <1>1, <2>1, <2>2, <2>3, OwnContinues
  <2> QED BY <1>1, <2>4, OwnStep
<1>6. CASE answer \in {"completed", "failed"}
            /\ Continue(c, Polled(c, answer, answer, native[Run(c)].transient))
  <2>1. run.status # "running" /\ answer # "incomplete"
    BY <1>6 DEF StatusRow
  <2> QED BY <1>5, <1>6, <2>1
<1>7. CASE Continue(c, PollAgain(c, observed))
  <2> DEFINE e == PollAgain(c, observed)
  <2>1. /\ e.base = ev[c].base /\ e.retry = ev[c].retry /\ e.pc = "poll"
        /\ e.observed = observed
    BY <1>1 DEF PollAgain, EvalType
  <2> HIDE DEF e
  <2>2. Settled(e, run)
    BY <1>4, <2>1 DEF Settled
  <2>3. Continue(c, e)
    BY <1>7 DEF e
  <2>4. OwnSound(c)'
    BY <1>1, <2>1, <2>2, <2>3, OwnContinues
  <2> QED BY <1>1, <2>4, OwnStep
<1>8. CASE Continue(c, Timeout(c, observed))
  BY <1>4, <1>5, <1>8 DEF Timeout
<1> QED BY <1>3, <1>6, <1>7, <1>8 DEF observed

LEMMA FetchRowsOwn ==
  ASSUME OwnInv, TypeOK', NamesApart, NEW c \in Client, FetchRows(c)
  PROVE  OwnInv'
<1>1. /\ ~At(c, "idle") /\ ClientStep(c) /\ ev[c] \in EvalType
      /\ native[Run(c)].status # "running"
  <2>1. ~At(c, "idle") /\ ev[c].pc = "fetch"
    BY DEF FetchRows, At
  <2> QED BY <2>1, RunningTyped DEF OwnInv, ClientStep, OwnSound, Settled
<1>2. CASE End(c)
  BY <1>1, <1>2, EndsIdle, OwnStep DEF OwnInv
<1>3. CASE ~End(c)
  <2>1. PICK rows, status :
          Continue(c, [Goto(c, "drift") EXCEPT !.rows = rows, !.status = status])
    <3>1. PICK complete :
            Continue(c, [Goto(c, "drift") EXCEPT
              !.rows = Rows(c, complete),
              !.status = IF @ = "completed" /\ ~Rows(c, complete).complete
                         THEN "incomplete" ELSE @])
      BY <1>3 DEF FetchRows, Refuse
    <3> QED BY <3>1
  <2> DEFINE e == [Goto(c, "drift") EXCEPT !.rows = rows, !.status = status]
  <2>2. e.base = ev[c].base /\ e.retry = ev[c].retry /\ e.pc = "drift"
    BY <1>1 DEF Goto, EvalType
  <2>3. Continue(c, e) /\ UNCHANGED <<native, candidates>>
    BY <1>3, <2>1, ReadFrame DEF FetchRows, Refuse
  <2> HIDE DEF e
  <2>4. Settled(e, native[Run(c)])
    BY <1>1 DEF Settled
  <2>5. OwnSound(c)'
    BY <1>1, <2>2, <2>3, <2>4, OwnContinues
  <2> QED BY <1>1, <2>5, OwnStep
<1> QED BY <1>2, <1>3

\* A retry leaves a run behind that is not running.
LEMMA CheckSourceDriftOwn ==
  ASSUME OwnInv, TypeOK', NamesApart, NEW c \in Client, CheckSourceDrift(c)
  PROVE  OwnInv'
<1> DEFINE e == [ev[c] EXCEPT !.changed = SourceChanged(ev[c])]
<1>1. /\ ~At(c, "idle") /\ ClientStep(c) /\ ev[c] \in EvalType /\ ev[c].pc = "drift"
      /\ UNCHANGED <<native, candidates>> /\ OwnSound(c)
  <2>1. ~At(c, "idle") /\ ev[c].pc = "drift"
    BY DEF CheckSourceDrift, At
  <2> QED BY <2>1, RunningTyped, ReadFrame DEF OwnInv, ClientStep, CheckSourceDrift
<1>2. e \in EvalType /\ e.base = ev[c].base /\ e.retry = ev[c].retry
  <2>1. SourceChanged(ev[c]) \in BOOLEAN
    BY DEF SourceChanged
  <2> HIDE DEF SourceChanged
  <2> QED BY <1>1, <2>1 DEF EvalType
<1>3. Retryable(e) => Retryable(ev[c])
  BY <1>1 DEF EvalType, Retryable
<1>4. \/ Continue(c, [e EXCEPT !.pc = "post"])
      \/ Continue(c, [e EXCEPT !.pc = "diagnose",
                               !.status = IF e.changed THEN "sourceChanged" ELSE @])
      \/ Retryable(e) /\ Continue(c, [e EXCEPT !.pc = "upload", !.retry = @ + 1])
  BY DEF CheckSourceDrift
<1> HIDE DEF e
<1>5. ASSUME NEW f, Continue(c, f), f.base = ev[c].base, f.retry = ev[c].retry,
             f.pc \in {"post", "diagnose"}
      PROVE  OwnInv'
  <2>1. Settled(f, native[Run(c)]) /\ f.pc # "write"
    BY <1>5 DEF Settled
  <2>2. OwnSound(c)'
    BY <1>1, <1>5, <2>1, OwnContinues
  <2> QED BY <1>1, <2>2, OwnStep
<1>6. CASE Retryable(e) /\ Continue(c, [e EXCEPT !.pc = "upload", !.retry = @ + 1])
  <2> DEFINE f == [e EXCEPT !.pc = "upload", !.retry = @ + 1]
  <2>1. f.base = ev[c].base /\ f.retry = ev[c].retry + 1 /\ f.pc = "upload"
    BY <1>2 DEF EvalType
  <2> HIDE DEF f
  <2>2. ev'[c] = f
    BY <1>1, <1>6 DEF Continue, OwnInv, TypeOK, f
  <2>3. native[<<ev[c].base, ev[c].retry>>].status # "running"
    BY <1>1, <1>3, <1>6 DEF OwnSound, Settled, Run
  <2>4. \A r \in 0..f.retry - 1 : native'[<<f.base, r>>].status # "running"
    <3> SUFFICES ASSUME NEW r \in 0..f.retry - 1
                 PROVE  native[<<ev[c].base, r>>].status # "running"
      BY <1>1, <2>1
    <3>1. r = ev[c].retry \/ r \in 0..ev[c].retry - 1
      <4>1. ev[c].retry \in 0..Retries
        BY <1>1 DEF EvalType
      <4> QED BY <2>1, <4>1, BoundsArePositive
    <3> QED BY <1>1, <2>3, <3>1 DEF OwnSound
  <2>5. OwnSound(c)'
    BY <2>1, <2>2, <2>4 DEF OwnSound, Settled, At
  <2> QED BY <1>1, <2>5, OwnStep
<1>7. CASE Continue(c, [e EXCEPT !.pc = "post"])
  <2> DEFINE f == [e EXCEPT !.pc = "post"]
  <2>1. f.base = ev[c].base /\ f.retry = ev[c].retry /\ f.pc = "post"
    BY <1>2 DEF EvalType
  <2> HIDE DEF f
  <2> QED BY <1>5, <1>7, <2>1 DEF f
<1>8. CASE Continue(c, [e EXCEPT !.pc = "diagnose",
                                 !.status = IF e.changed THEN "sourceChanged" ELSE @])
  <2> DEFINE f == [e EXCEPT !.pc = "diagnose",
                            !.status = IF e.changed THEN "sourceChanged" ELSE @]
  <2>1. f.base = ev[c].base /\ f.retry = ev[c].retry /\ f.pc = "diagnose"
    BY <1>2 DEF EvalType
  <2>2. Continue(c, f)
    BY <1>8
  <2> HIDE DEF f
  <2> QED BY <1>5, <2>1, <2>2
<1> QED BY <1>4, <1>6, <1>7, <1>8

LEMMA WriteCandidateOwn ==
  ASSUME OwnInv, TypeOK', NamesApart, NEW c \in Client, WriteCandidate(c) \/ Stop(c)
  PROVE  OwnInv'
<1>1. End(c) /\ (ClientStep(c) \/ Stop(c))
  BY DEF WriteCandidate, Stop, Refuse, ClientStep
<1> QED BY <1>1, EndsIdle, OwnStep DEF OwnInv

LEMMA StartEvaluationOwn ==
  ASSUME OwnInv, TypeOK', NEW c \in Client, StartEvaluation(c)
  PROVE  OwnInv'
<1> SUFFICES ASSUME NEW d \in Client, ~At(d, "idle")' PROVE OwnSound(d)'
  BY DEF OwnInv
<1>1. PICK b \in BaseName, r \in Request :
        Continue(c, [Idle EXCEPT !.pc = "initial", !.base = b, !.request = r])
  BY DEF StartEvaluation
<1> DEFINE e == [Idle EXCEPT !.pc = "initial", !.base = b, !.request = r]
<1>2. e.pc = "initial" /\ e.retry = 0
  BY DEF Idle
<1>3. Continue(c, e) /\ UNCHANGED <<native, candidates>>
  BY <1>1 DEF StartEvaluation, serviceVars, diskVars
<1> HIDE DEF e
<1>4. CASE d = c
  <2>1. ev'[c] = e
    BY <1>3 DEF Continue, OwnInv, TypeOK
  <2> QED BY <1>2, <1>4, <2>1 DEF OwnSound, Settled, At
<1>5. CASE d # c
  <2>1. ev'[d] = ev[d] /\ ~At(d, "idle")
    BY <1>3, <1>5 DEF Continue, OwnInv, TypeOK, At
  <2> QED BY <1>3, <2>1, OwnKept DEF OwnInv
<1> QED BY <1>4, <1>5

\* The service and other people never make a run run again.
LEMMA EnvironmentOwn ==
  ASSUME OwnInv, TypeOK', Service \/ Others \/ UNCHANGED vars
  PROVE  OwnInv'
<1>1. UNCHANGED <<ev, candidates>>
  BY DEF Service, Ingest, Invoke, EndInvocations, CompletePartial, FailRun, NativeStep,
         Others, CommitVersion, MoveDefault, RebuildSource, diskVars, vars
<1>2. \A id \in RunId : native[id].status # "running" => native'[id].status # "running"
  <2>1. CASE Service
    <3>1. PICK id \in RunId : \/ Ingest(id) \/ Invoke(id) \/ EndInvocations(id)
                              \/ CompletePartial(id) \/ FailRun(id)
      BY <2>1 DEF Service
    <3>2. \E run : /\ native' = [native EXCEPT ![id] = run]
                   /\ native[id].status # "running" => run.status # "running"
      <4>1. native[id] \in RunType
        BY DEF OwnInv, TypeOK
      <4>2. CASE native[id].status = "running"
        BY <3>1, <4>2 DEF Ingest, Invoke, EndInvocations, CompletePartial, FailRun, NativeStep
      <4>3. CASE native[id].status # "running"
        <5>1. CompletePartial(id) \/ FailRun(id)
          BY <3>1, <4>3 DEF Ingest, Invoke, EndInvocations
        <5>2. CASE CompletePartial(id)
          <6> DEFINE run == [native[id] EXCEPT !.status = "completed"]
          <6>1. run.status # "running"
            BY <4>1 DEF RunType
          <6>2. native' = [native EXCEPT ![id] = run]
            BY <5>2 DEF CompletePartial, NativeStep
          <6> HIDE DEF run
          <6> QED BY <6>1, <6>2
        <5>3. CASE FailRun(id)
          <6>1. PICK transient \in BOOLEAN :
                  NativeStep(id, [native[id] EXCEPT !.status = "failed",
                                                    !.transient = transient])
            BY <5>3 DEF FailRun
          <6> DEFINE run == [native[id] EXCEPT !.status = "failed",
                                               !.transient = transient]
          <6>2. run.status # "running"
            BY <4>1 DEF RunType
          <6>3. native' = [native EXCEPT ![id] = run]
            BY <6>1 DEF NativeStep
          <6> HIDE DEF run
          <6> QED BY <6>2, <6>3
        <5> QED BY <5>1, <5>2, <5>3
      <4> QED BY <4>2, <4>3
    <3> QED BY <3>2 DEF OwnInv, TypeOK
  <2>2. CASE Others \/ UNCHANGED vars
    <3>1. UNCHANGED native
      BY <2>2 DEF Others, CommitVersion, MoveDefault, RebuildSource, serviceVars, vars
    <3> QED BY <3>1
  <2> QED BY <2>1, <2>2
<1> SUFFICES ASSUME NEW c \in Client, ~At(c, "idle")' PROVE OwnSound(c)'
  BY DEF OwnInv
<1>3. ~At(c, "idle") /\ ev'[c] = ev[c] /\ TypeOK /\ OwnSound(c)
  BY <1>1 DEF At, OwnInv
<1>4. \A r \in 0..Retries : <<ev[c].base, r>> \in RunId
  BY <1>3, RunningTyped DEF RunId
<1> QED BY <1>1, <1>2, <1>3, <1>4, OwnKept

LEMMA NextOwn ==
  ASSUME OwnInv, NamesApart, [Next]_vars
  PROVE  OwnInv'
<1>1. TypeOK'
  BY NextTyped DEF OwnInv
<1>2. ASSUME NEW c \in Client, StartEvaluation(c) \/ ClientStep(c) \/ Stop(c)
      PROVE  OwnInv'
  BY <1>1, <1>2, StartEvaluationOwn, QuietStepsOwn, StartRunOwn, PollOwn, FetchRowsOwn,
     CheckSourceDriftOwn, WriteCandidateOwn DEF ClientStep
<1> QED BY <1>1, <1>2, EnvironmentOwn DEF Next, Rest

\* The inductive invariant of evaluations that do not share names.
THEOREM OwnCorrect == Spec /\ []NamesApart => []OwnInv
<1>1. Init => OwnInv
  <2>1. Idle.pc = "idle"
    BY DEF Idle
  <2> QED BY <2>1, InitTyped DEF Init, OwnInv, At
<1>2. OwnInv /\ NamesApart /\ [Next]_vars => OwnInv'
  BY NextOwn
<1> QED BY <1>1, <1>2, PTL DEF Spec

\* As long as no two evaluations use one name at the same time, no evaluation
\* pays for a retry while a run it started still invokes the Agent.
THEOREM NothingAbandoned == Spec /\ []NamesApart => []NoRunAbandoned
<1>1. OwnInv => NoRunAbandoned
  BY DEF OwnInv, OwnSound, NoRunAbandoned
<1> QED BY <1>1, OwnCorrect, PTL

\* As long as no two evaluations use one name at the same time, artifacts are
\* never overwritten, although existence is looked up one step before the write.
THEOREM EvidenceCorrect == Spec /\ []NamesApart => EvidenceKept
<1>1. OwnInv /\ [Next]_vars
        => candidates \subseteq candidates' /\ diagnostics \subseteq diagnostics'
  <2> SUFFICES ASSUME OwnInv, [Next]_vars
               PROVE  candidates \subseteq candidates' /\ diagnostics \subseteq diagnostics'
    OBVIOUS
  <2>1. ASSUME NEW c \in Client, WriteCandidate(c)
        PROVE  candidates \subseteq candidates' /\ diagnostics \subseteq diagnostics'
    <3>1. ~HasCandidate(Run(c))
      BY <2>1 DEF WriteCandidate, OwnInv, OwnSound, At
    <3> QED BY <2>1, <3>1 DEF WriteCandidate, HasCandidate
  <2>2. ASSUME NEW c \in Client, (ClientStep(c) /\ ~WriteCandidate(c)) \/ Stop(c)
        PROVE  candidates \subseteq candidates' /\ diagnostics \subseteq diagnostics'
    BY <2>2 DEF ClientStep, Stop, InitialProvenance, ValidateTable, UploadConfig,
           PreStartProvenance, RecheckSource, StartRun, Poll, FetchRows,
           CheckSourceDrift, WriteDiagnostic, PostCompletion, ObserveRun,
           CheckCandidate, Refuse, ReadOnly, diskVars
  <2>3. CASE \/ Service \/ Others \/ UNCHANGED vars
             \/ \E c \in Client : StartEvaluation(c)
    BY <2>3 DEF Service, Ingest, Invoke, EndInvocations, CompletePartial, FailRun,
           NativeStep, Others, CommitVersion, MoveDefault, RebuildSource,
           StartEvaluation, diskVars, vars
  <2> QED BY <2>1, <2>2, <2>3 DEF Next, Rest
<1> QED BY <1>1, OwnCorrect, PTL DEF Spec, EvidenceKept
-----------------------------------------------------------------------------
(* Traces that lag.  What a trace does not show is known from DEFAULT: it only *)
(* moves forward, and it was the same before START and after completion.  With *)
(* a single version an unversioned request reaches LIVE, which no look at      *)
(* DEFAULT tells from VERSION$1; so the Agent has several.                     *)

\* Nothing but the intended version is in by, or the version of DEFAULT, def,
\* gives it away.
Measures(e, by, def) ==
  IF e.request # Unpinned THEN by \subseteq {e.request}
  ELSE e.pre <= def /\ (def = e.pre => by \subseteq {e.pre})

Intact(e, run, config, def) ==
  /\ e.pc \in {"preStart", "recheck", "start"} => config = e.request
  /\ e.pc \in {"recheck", "start"} => Measures(e, {}, def)
  /\ e.pc \in {"poll", "fetch"} =>
       run.requested = e.request /\ Measures(e, run.invoked, def)
  /\ e.pc = "post" \/ (e.pc = "drift" /\ e.status = "completed") =>
       Measures(e, e.rows.by, def)
  /\ e.pc \in {"observe", "check", "write"} => Measures(e, e.rows.by, e.post)

AllIntact ==
  \A c \in Client : ~At(c, "idle") =>
    Intact(ev[c], native[Run(c)], staged[Run(c)], default)

LagInv ==
  /\ SafeInv
  /\ committed > 1 /\ default <= committed
  /\ AllIntact
  /\ PassedMeasuredIntended

\* The invocations of a run add what DEFAULT resolves to, or what was asked for.
LEMMA IntactOnward ==
  ASSUME NEW e \in EvalType, NEW run, NEW run2, NEW config, NEW def \in Version,
         NEW def2 \in Version, Intact(e, run, config, def), def <= def2,
         run2 = run \/ (/\ run2.requested = run.requested
                        /\ run2.invoked \subseteq run.invoked \cup
                             {IF run.requested # Unpinned THEN run.requested ELSE def}
                        /\ def2 = def)
  PROVE  Intact(e, run2, config, def2)
<1>1. def \in Int /\ def2 \in Int /\ e.pre \in Int
  <2>1. e.pre \in Version \cup {0}
    BY DEF EvalType
  <2> QED BY <2>1, BoundsArePositive DEF Version
<1>2. ASSUME NEW by, Measures(e, by, def)
      PROVE  Measures(e, by, def2)
  BY <1>1, <1>2 DEF Measures
<1>3. CASE run2 = run
  BY <1>2, <1>3 DEF Intact
<1>4. CASE run2 # run
  <2>1. /\ run2.requested = run.requested /\ def2 = def
        /\ run2.invoked \subseteq run.invoked \cup
             {IF run.requested # Unpinned THEN run.requested ELSE def}
    BY <1>4
  <2>2. run.requested = e.request /\ Measures(e, run.invoked, def)
          => Measures(e, run2.invoked, def)
    BY <2>1 DEF Measures
  <2> QED BY <2>1, <2>2 DEF Intact
<1> QED BY <1>3, <1>4

LEMMA StagedOnOwn ==
  ASSUME TypeOK, NEW d \in Client, ClientStep(d) \/ Stop(d)
  PROVE  /\ \A id \in RunId : id # Run(d) => staged'[id] = staged[id]
         /\ UNCHANGED <<committed, default>>
<1>1. CASE UploadConfig(d)
  BY <1>1 DEF UploadConfig, TypeOK, agentVars
<1>2. CASE ~UploadConfig(d)
  BY <1>2 DEF ClientStep, Stop, InitialProvenance, ValidateTable,
         PreStartProvenance, RecheckSource, StartRun, Poll, FetchRows,
         CheckSourceDrift, WriteDiagnostic, PostCompletion, ObserveRun,
         CheckCandidate, WriteCandidate, Refuse, ReadOnly, agentVars, serviceVars
<1> QED BY <1>1, <1>2

\* A step of client c that writes no candidate: c's new state has to be shown
\* intact, the others' is.
LEMMA IntactStep ==
  ASSUME LagInv, SafeInv', NamesApart, NEW c \in Client, ClientStep(c) \/ Stop(c),
         NEW e, ev' = [ev EXCEPT ![c] = e],
         e.pc = "idle" \/ (/\ e.base = ev[c].base
                           /\ e.retry = ev[c].retry \/ e.pc = "upload"
                           /\ Intact(e, native'[Run(c)], staged'[Run(c)], default)),
         PassedMeasuredIntended'
  PROVE  LagInv'
<1>0. TypeOK
  BY DEF LagInv, SafeInv
<1>1. UNCHANGED <<committed, default>>
  BY <1>0, StagedOnOwn
<1>2. AllIntact'
  <2> SUFFICES ASSUME NEW d \in Client, ~At(d, "idle")'
               PROVE  Intact(ev'[d], native'[<<ev'[d].base, ev'[d].retry>>],
                             staged'[<<ev'[d].base, ev'[d].retry>>], default)
    BY <1>1 DEF AllIntact, Run
  <2>1. CASE d = c
    <3>1. ev'[c] = e /\ e.pc # "idle"
      BY <1>0, <2>1 DEF TypeOK, At
    <3>2. CASE e.retry = ev[c].retry
      BY <2>1, <3>1, <3>2 DEF Run
    <3>3. CASE e.pc = "upload"
      BY <2>1, <3>1, <3>3 DEF Intact
    <3> QED BY <3>1, <3>2, <3>3
  <2>2. CASE d # c
    <3>1. ev'[d] = ev[d] /\ ~At(d, "idle") /\ ~At(c, "idle")
      BY <1>0, <2>2, StepsOnOwn DEF At
    <3>2. Run(d) \in RunId /\ Run(d) # Run(c)
      BY <1>0, <2>2, <3>1, RunningTyped DEF NamesApart, Run
    <3>3. native'[Run(d)] = native[Run(d)] /\ staged'[Run(d)] = staged[Run(d)]
      BY <1>0, <3>2, StepsOnOwn, StagedOnOwn
    <3>4. Intact(ev[d], native[Run(d)], staged[Run(d)], default)
      BY <3>1 DEF LagInv, AllIntact
    <3> QED BY <3>1, <3>3, <3>4 DEF Run
  <2> QED BY <2>1, <2>2
<1> QED BY <1>1, <1>2 DEF LagInv

\* The same for a step that changes nothing but c's own place and notes.
LEMMA IntactReads ==
  ASSUME LagInv, SafeInv', NamesApart, NEW c \in Client, ClientStep(c) \/ Stop(c),
         ReadOnly, NEW e, Continue(c, e), e.base = ev[c].base,
         e.retry = ev[c].retry \/ e.pc = "upload",
         Intact(e, native[Run(c)], staged[Run(c)], default)
  PROVE  LagInv'
<1>1. UNCHANGED <<native, staged, candidates>> /\ ev' = [ev EXCEPT ![c] = e]
  BY ReadFrame DEF Continue
<1>2. PassedMeasuredIntended'
  BY <1>1 DEF LagInv, PassedMeasuredIntended
<1>3. Intact(e, native'[Run(c)], staged'[Run(c)], default)
  BY <1>1
<1> QED BY <1>1, <1>2, <1>3, IntactStep

LEMMA RefuseIntact ==
  ASSUME LagInv, SafeInv', NamesApart, NEW c \in Client, ClientStep(c) \/ Stop(c),
         End(c), UNCHANGED candidates
  PROVE  LagInv'
<1>1. Idle.pc = "idle" /\ ev' = [ev EXCEPT ![c] = Idle]
  BY DEF Idle, End
<1>2. PassedMeasuredIntended'
  BY DEF LagInv, PassedMeasuredIntended
<1> HIDE DEF Idle
<1> QED BY <1>1, <1>2, IntactStep

\* What the lemmas below start from.
LEMMA LagFacts ==
  ASSUME LagInv, NEW c \in Client, ClientStep(c)
  PROVE  /\ ~At(c, "idle") /\ ev[c] \in EvalType /\ Run(c) \in RunId /\ TypeOK
         /\ native[Run(c)] \in RunType
         /\ Intact(ev[c], native[Run(c)], staged[Run(c)], default)
         /\ default \in Int
<1>1. TypeOK
  BY DEF LagInv, SafeInv
<1>2. ~At(c, "idle")
  BY <1>1, StepsOnOwn
<1>3. default \in Int
  BY <1>1, BoundsArePositive DEF TypeOK, Version
<1> QED BY <1>1, <1>2, <1>3, RunningTyped DEF LagInv, AllIntact

LEMMA BeforeStartIntact ==
  ASSUME LagInv, SafeInv', NamesApart, NEW c \in Client,
         \/ InitialProvenance(c) \/ ValidateTable(c)
         \/ PreStartProvenance(c) \/ RecheckSource(c)
  PROVE  LagInv'
<1>0. ClientStep(c)
  BY DEF ClientStep
<1>1. /\ ev[c] \in EvalType /\ default \in Int
      /\ Intact(ev[c], native[Run(c)], staged[Run(c)], default)
  BY <1>0, LagFacts
<1>2. CASE End(c)
  <2>1. UNCHANGED candidates
    BY ReadFrame DEF InitialProvenance, ValidateTable, PreStartProvenance,
                     RecheckSource, Refuse
  <2> QED BY <1>0, <1>2, <2>1, RefuseIntact
<1>3. CASE ~End(c)
  <2>1. ReadOnly
    BY <1>3 DEF InitialProvenance, ValidateTable, PreStartProvenance, RecheckSource, Refuse
  <2>2. CASE InitialProvenance(c)
    <3> DEFINE e == [Goto(c, "validate") EXCEPT !.initial = default]
    <3>1. e.base = ev[c].base /\ e.retry = ev[c].retry /\ e.pc = "validate"
      BY <1>1 DEF Goto, EvalType
    <3>2. Continue(c, e)
      BY <2>2 DEF InitialProvenance
    <3> HIDE DEF e
    <3> QED BY <1>0, <2>1, <3>1, <3>2, IntactReads DEF Intact
  <2>3. CASE ValidateTable(c)
    <3> DEFINE e == [Goto(c, "upload") EXCEPT !.snapshot = source]
    <3>1. e.base = ev[c].base /\ e.retry = ev[c].retry /\ e.pc = "upload"
      BY <1>1 DEF Goto, EvalType
    <3>2. Continue(c, e)
      BY <1>3, <2>3 DEF ValidateTable, Refuse
    <3> HIDE DEF e
    <3> QED BY <1>0, <2>1, <3>1, <3>2, IntactReads DEF Intact
  <2>4. CASE PreStartProvenance(c)
    <3> DEFINE e == [Goto(c, "recheck") EXCEPT !.pre = default]
    <3>1. /\ e.base = ev[c].base /\ e.retry = ev[c].retry /\ e.pc = "recheck"
          /\ e.request = ev[c].request /\ e.pre = default
      BY <1>1 DEF Goto, EvalType
    <3>2. Continue(c, e)
      BY <1>3, <2>4 DEF PreStartProvenance, Refuse
    <3>3. staged[Run(c)] = ev[c].request
      BY <1>1, <2>4 DEF Intact, PreStartProvenance, At
    <3> HIDE DEF e
    <3>4. Intact(e, native[Run(c)], staged[Run(c)], default)
      BY <1>1, <3>1, <3>3 DEF Intact, Measures
    <3> QED BY <1>0, <2>1, <3>1, <3>2, <3>4, IntactReads
  <2>5. CASE RecheckSource(c)
    <3> DEFINE e == Goto(c, "start")
    <3>1. /\ e.base = ev[c].base /\ e.retry = ev[c].retry /\ e.pc = "start"
          /\ e.request = ev[c].request /\ e.pre = ev[c].pre
      BY <1>1 DEF Goto, EvalType
    <3>2. Continue(c, e)
      BY <1>3, <2>5 DEF RecheckSource, Refuse
    <3>3. staged[Run(c)] = ev[c].request /\ Measures(ev[c], {}, default)
      BY <1>1, <2>5 DEF Intact, RecheckSource, At
    <3> HIDE DEF e
    <3>4. Intact(e, native[Run(c)], staged[Run(c)], default)
      BY <3>1, <3>3 DEF Intact, Measures
    <3> QED BY <1>0, <2>1, <3>1, <3>2, <3>4, IntactReads
  <2> QED BY <2>2, <2>3, <2>4, <2>5
<1> QED BY <1>2, <1>3

LEMMA UploadConfigIntact ==
  ASSUME LagInv, SafeInv', NamesApart, NEW c \in Client, UploadConfig(c)
  PROVE  LagInv'
<1>0. ClientStep(c)
  BY DEF ClientStep
<1>1. ev[c] \in EvalType /\ Run(c) \in RunId /\ TypeOK
  BY <1>0, LagFacts
<1> DEFINE e == Goto(c, "preStart")
<1>2. /\ e.base = ev[c].base /\ e.retry = ev[c].retry /\ e.pc = "preStart"
      /\ e.request = ev[c].request
  BY <1>1 DEF Goto, EvalType
<1>3. ev' = [ev EXCEPT ![c] = e]
  BY DEF UploadConfig, Continue
<1>4. staged'[Run(c)] = ev[c].request
  BY <1>1 DEF UploadConfig, TypeOK
<1>5. PassedMeasuredIntended'
  BY DEF LagInv, PassedMeasuredIntended, UploadConfig, diskVars
<1> HIDE DEF e
<1>6. Intact(e, native'[Run(c)], staged'[Run(c)], default)
  BY <1>2, <1>4 DEF Intact
<1> QED BY <1>0, <1>2, <1>3, <1>5, <1>6, IntactStep

\* The config of a name no other client uses still asks for the version.
LEMMA StartRunIntact ==
  ASSUME LagInv, SafeInv', NamesApart, NEW c \in Client, StartRun(c)
  PROVE  LagInv'
<1>0. ClientStep(c)
  BY DEF ClientStep
<1>1. /\ ev[c] \in EvalType /\ Run(c) \in RunId /\ TypeOK
      /\ Intact(ev[c], native[Run(c)], staged[Run(c)], default)
  BY <1>0, LagFacts
<1>2. CASE Refuse(c)
  BY <1>0, <1>2, ReadFrame, RefuseIntact DEF Refuse
<1>3. CASE ~Refuse(c)
  <2> DEFINE r == [NoRun EXCEPT !.status = "running", !.requested = staged[Run(c)],
                                !.traced = native[Run(c)].traced]
             e == [Goto(c, "poll") EXCEPT !.polls = 0, !.status = "unstarted",
                                          !.observed = "absent", !.transient = FALSE]
  <2>1. native' = [native EXCEPT ![Run(c)] = r] /\ ev' = [ev EXCEPT ![c] = e]
    BY <1>3 DEF StartRun, Continue
  <2>2. r.requested = staged[Run(c)] /\ r.invoked = {}
    BY DEF NoRun
  <2>3. /\ e.base = ev[c].base /\ e.retry = ev[c].retry /\ e.pc = "poll"
        /\ e.request = ev[c].request /\ e.pre = ev[c].pre
    BY <1>1 DEF Goto, EvalType
  <2> HIDE DEF r, e
  <2>4. staged[Run(c)] = ev[c].request /\ Measures(ev[c], {}, default)
    BY <1>1 DEF Intact, StartRun, At
  <2>5. native'[Run(c)] = r
    BY <1>1, <2>1 DEF TypeOK
  <2>6. Intact(e, native'[Run(c)], staged'[Run(c)], default)
    BY <2>2, <2>3, <2>4, <2>5 DEF Intact, Measures
  <2>7. PassedMeasuredIntended'
    BY <1>3 DEF LagInv, PassedMeasuredIntended, StartRun, diskVars
  <2> QED BY <1>0, <2>1, <2>3, <2>6, <2>7, IntactStep
<1> QED BY <1>2, <1>3

LEMMA PollIntact ==
  ASSUME LagInv, SafeInv', NamesApart, NEW c \in Client, Poll(c)
  PROVE  LagInv'
<1>0. ClientStep(c) /\ ReadOnly
  BY DEF ClientStep, Poll
<1>1. /\ ev[c] \in EvalType /\ ev[c].pc = "poll"
      /\ native[Run(c)].requested = ev[c].request
      /\ Measures(ev[c], native[Run(c)].invoked, default)
  BY <1>0, LagFacts DEF Poll, At, Intact
<1>2. ASSUME NEW e, Continue(c, e), e.base = ev[c].base, e.retry = ev[c].retry,
             e.request = ev[c].request, e.pre = ev[c].pre,
             e.pc \in {"poll", "fetch"} \/ (e.pc = "drift" /\ e.status # "completed")
      PROVE  LagInv'
  <2>1. Intact(e, native[Run(c)], staged[Run(c)], default)
    BY <1>1, <1>2 DEF Intact, Measures
  <2> QED BY <1>0, <1>2, <2>1, IntactReads
<1>3. ASSUME NEW status, NEW observed, NEW transient,
             Continue(c, Polled(c, status, observed, transient))
      PROVE  LagInv'
  <2> DEFINE e == Polled(c, status, observed, transient)
  <2>1. e.pc = "fetch" \/ (e.pc = "drift" /\ e.status # "completed")
    BY <1>1, PolledFacts
  <2>2. /\ e.base = ev[c].base /\ e.retry = ev[c].retry
        /\ e.request = ev[c].request /\ e.pre = ev[c].pre
    BY <1>1 DEF Polled, Goto, EvalType
  <2> HIDE DEF e
  <2> QED BY <1>2, <1>3, <2>1, <2>2 DEF e
<1>4. ASSUME NEW observed, Continue(c, PollAgain(c, observed))
      PROVE  LagInv'
  <2> DEFINE e == PollAgain(c, observed)
  <2>1. /\ e.base = ev[c].base /\ e.retry = ev[c].retry /\ e.pc = "poll"
        /\ e.request = ev[c].request /\ e.pre = ev[c].pre
    BY <1>1 DEF PollAgain, EvalType
  <2> HIDE DEF e
  <2> QED BY <1>2, <1>4, <2>1 DEF e
<1> QED BY <1>3, <1>4 DEF Poll, Timeout

LEMMA FetchRowsIntact ==
  ASSUME LagInv, SafeInv', NamesApart, NEW c \in Client, FetchRows(c)
  PROVE  LagInv'
<1>0. ClientStep(c)
  BY DEF ClientStep
<1>1. ev[c] \in EvalType /\ Measures(ev[c], native[Run(c)].invoked, default)
  BY <1>0, LagFacts DEF FetchRows, At, Intact
<1>2. CASE Refuse(c)
  BY <1>0, <1>2, ReadFrame, RefuseIntact DEF Refuse
<1>3. CASE ~Refuse(c)
  <2>1. PICK complete \in {FALSE, native[Run(c)].complete} :
          Continue(c, [Goto(c, "drift") EXCEPT
            !.rows = Rows(c, complete),
            !.status = IF @ = "completed" /\ ~Rows(c, complete).complete
                       THEN "incomplete" ELSE @])
    BY <1>3 DEF FetchRows
  <2> DEFINE g == Goto(c, "drift")
             rows == Rows(c, complete)
             e == [g EXCEPT !.rows = rows,
                            !.status = IF @ = "completed" /\ ~rows.complete
                                       THEN "incomplete" ELSE @]
  <2>2. rows.by = native[Run(c)].invoked
    BY DEF Rows
  <2>3. g \in EvalType /\ g.base = ev[c].base /\ g.retry = ev[c].retry /\ g.pc = "drift"
        /\ g.request = ev[c].request /\ g.pre = ev[c].pre
    BY <1>1, GotoFacts DEF Step
  <2>4. Continue(c, e) /\ ReadOnly
    BY <1>3, <2>1 DEF FetchRows
  <2> HIDE DEF g, rows
  <2>5. /\ e.base = ev[c].base /\ e.retry = ev[c].retry /\ e.pc = "drift"
        /\ e.request = ev[c].request /\ e.pre = ev[c].pre /\ e.rows = rows
    BY <2>3 DEF EvalType
  <2> HIDE DEF e
  <2>6. Intact(e, native[Run(c)], staged[Run(c)], default)
    BY <1>1, <2>2, <2>5 DEF Intact, Measures
  <2> QED BY <1>0, <2>4, <2>5, <2>6, IntactReads
<1> QED BY <1>2, <1>3

LEMMA CheckSourceDriftIntact ==
  ASSUME LagInv, SafeInv', NamesApart, NEW c \in Client, CheckSourceDrift(c)
  PROVE  LagInv'
<1> DEFINE e == [ev[c] EXCEPT !.changed = SourceChanged(ev[c])]
<1>0. ClientStep(c) /\ ReadOnly
  BY DEF ClientStep, CheckSourceDrift
<1>1. /\ ev[c] \in EvalType /\ ev[c].pc = "drift"
      /\ ev[c].status = "completed" => Measures(ev[c], ev[c].rows.by, default)
  BY <1>0, LagFacts DEF CheckSourceDrift, At, Intact
<1>2. /\ e \in EvalType /\ e.base = ev[c].base /\ e.retry = ev[c].retry
      /\ e.status = ev[c].status /\ e.rows = ev[c].rows
      /\ e.request = ev[c].request /\ e.pre = ev[c].pre
  <2>1. SourceChanged(ev[c]) \in BOOLEAN
    BY DEF SourceChanged
  <2> HIDE DEF SourceChanged
  <2> QED BY <1>1, <2>1 DEF EvalType
<1>3. \/ /\ e.status = "completed"
         /\ Continue(c, [e EXCEPT !.pc = "post"])
      \/ Continue(c, [e EXCEPT !.pc = "diagnose",
                               !.status = IF e.changed THEN "sourceChanged" ELSE @])
      \/ Continue(c, [e EXCEPT !.pc = "upload", !.retry = @ + 1])
  BY DEF CheckSourceDrift, Succeeded
<1> HIDE DEF e
<1>4. CASE e.status = "completed" /\ Continue(c, [e EXCEPT !.pc = "post"])
  <2> DEFINE f == [e EXCEPT !.pc = "post"]
  <2>1. /\ f.base = ev[c].base /\ f.retry = ev[c].retry /\ f.pc = "post"
        /\ f.request = ev[c].request /\ f.pre = ev[c].pre /\ f.rows = ev[c].rows
    BY <1>2 DEF EvalType
  <2>2. Continue(c, f)
    BY <1>4
  <2> HIDE DEF f
  <2>3. Intact(f, native[Run(c)], staged[Run(c)], default)
    BY <1>1, <1>2, <1>4, <2>1 DEF Intact, Measures
  <2> QED BY <1>0, <2>1, <2>2, <2>3, IntactReads
<1>5. CASE Continue(c, [e EXCEPT !.pc = "diagnose",
                                 !.status = IF e.changed THEN "sourceChanged" ELSE @])
  <2> DEFINE f == [e EXCEPT !.pc = "diagnose",
                            !.status = IF e.changed THEN "sourceChanged" ELSE @]
  <2>1. f.base = ev[c].base /\ f.retry = ev[c].retry /\ f.pc = "diagnose"
    BY <1>2 DEF EvalType
  <2>2. Continue(c, f)
    BY <1>5
  <2> HIDE DEF f
  <2> QED BY <1>0, <2>1, <2>2, IntactReads DEF Intact
<1>6. CASE Continue(c, [e EXCEPT !.pc = "upload", !.retry = @ + 1])
  <2> DEFINE f == [e EXCEPT !.pc = "upload", !.retry = @ + 1]
  <2>1. f.base = ev[c].base /\ f.pc = "upload"
    BY <1>2 DEF EvalType
  <2>2. Continue(c, f)
    BY <1>6
  <2> HIDE DEF f
  <2> QED BY <1>0, <2>1, <2>2, IntactReads DEF Intact
<1> QED BY <1>3, <1>4, <1>5, <1>6

LEMMA ObservationIntact ==
  ASSUME LagInv, SafeInv', NamesApart, NEW c \in Client,
         PostCompletion(c) \/ ObserveRun(c) \/ CheckCandidate(c)
  PROVE  LagInv'
<1>0. ClientStep(c)
  BY DEF ClientStep
<1>1. /\ ev[c] \in EvalType
      /\ Intact(ev[c], native[Run(c)], staged[Run(c)], default)
  BY <1>0, LagFacts
<1>2. CASE PostCompletion(c)
  <2> DEFINE e == [Goto(c, "observe") EXCEPT !.post = default]
  <2>1. /\ e.base = ev[c].base /\ e.retry = ev[c].retry /\ e.pc = "observe"
        /\ e.request = ev[c].request /\ e.pre = ev[c].pre /\ e.rows = ev[c].rows
        /\ e.post = default
    BY <1>1 DEF Goto, EvalType
  <2>2. Continue(c, e) /\ ReadOnly
    BY <1>2 DEF PostCompletion
  <2> HIDE DEF e
  <2>3. Measures(ev[c], ev[c].rows.by, default)
    BY <1>1, <1>2 DEF Intact, PostCompletion, At
  <2>4. Intact(e, native[Run(c)], staged[Run(c)], default)
    BY <2>1, <2>3 DEF Intact, Measures
  <2> QED BY <1>0, <2>1, <2>2, <2>4, IntactReads
<1>3. ASSUME NEW e, Continue(c, e), ReadOnly,
             e.base = ev[c].base, e.retry = ev[c].retry, e.pc \in {"check", "write"},
             e.request = ev[c].request, e.pre = ev[c].pre, e.rows = ev[c].rows,
             e.post = ev[c].post, ev[c].pc \in {"observe", "check"}
      PROVE  LagInv'
  <2>1. Intact(e, native[Run(c)], staged[Run(c)], default)
    BY <1>1, <1>3 DEF Intact, Measures
  <2> QED BY <1>0, <1>3, <2>1, IntactReads
<1>4. CASE ObserveRun(c)
  <2>1. PICK seen : Continue(c, [Goto(c, "check") EXCEPT !.seen = seen])
    BY <1>4 DEF ObserveRun
  <2> DEFINE e == [Goto(c, "check") EXCEPT !.seen = seen]
  <2>2. /\ e.base = ev[c].base /\ e.retry = ev[c].retry /\ e.pc = "check"
        /\ e.request = ev[c].request /\ e.pre = ev[c].pre /\ e.rows = ev[c].rows
        /\ e.post = ev[c].post
    BY <1>1 DEF Goto, EvalType
  <2>3. Continue(c, e) /\ ReadOnly /\ ev[c].pc = "observe"
    BY <1>4, <2>1 DEF ObserveRun, At
  <2> HIDE DEF e
  <2> QED BY <1>3, <2>2, <2>3
<1>5. CASE CheckCandidate(c)
  <2>1. CASE Refuse(c)
    BY <1>0, <2>1, ReadFrame, RefuseIntact DEF Refuse
  <2>2. CASE ~Refuse(c)
    <3> DEFINE e == Goto(c, "write")
    <3>1. /\ e.base = ev[c].base /\ e.retry = ev[c].retry /\ e.pc = "write"
          /\ e.request = ev[c].request /\ e.pre = ev[c].pre /\ e.rows = ev[c].rows
          /\ e.post = ev[c].post
      BY <1>1 DEF Goto, EvalType
    <3>2. Continue(c, e) /\ ReadOnly /\ ev[c].pc = "check"
      BY <1>5, <2>2 DEF CheckCandidate, At
    <3> HIDE DEF e
    <3> QED BY <1>3, <3>1, <3>2
  <2> QED BY <2>1, <2>2
<1> QED BY <1>2, <1>4, <1>5

\* What passes has rows of the intended version only, whatever the trace showed:
\* DEFAULT after completion is what it was before START.
LEMMA WriteIntact ==
  ASSUME LagInv, SafeInv', NamesApart, NEW c \in Client, WriteCandidate(c)
  PROVE  LagInv'
<1>0. ClientStep(c) /\ End(c) /\ ev[c].pc = "write"
  BY DEF ClientStep, WriteCandidate, At
<1>1. /\ ~At(c, "idle") /\ ev[c] \in EvalType
      /\ Measures(ev[c], ev[c].rows.by, ev[c].post)
  BY <1>0, LagFacts DEF Intact
<1>2. ev[c].rows.by # {}
  <2>1. EvalSound(ev[c], native[Run(c)], source)
    BY <1>1, ClientFacts DEF LagInv
  <2> QED BY <1>0, <2>1 DEF EvalSound, HasRows, Scored, RowsSound
<1>3. PICK good \in BOOLEAN :
        candidates' = {a \in candidates : a.run # Run(c)} \cup {BuildCandidate(c, good)}
  BY DEF WriteCandidate
<1> DEFINE a == BuildCandidate(c, good)
<1>4. a.passed => a.rows.by = {a.intended}
  <2>1. /\ a.rows = ev[c].rows /\ a.intended = Intended(ev[c])
        /\ a.passed => ~DefaultDrift(ev[c])
    BY DEF BuildCandidate
  <2> HIDE DEF a
  <2> QED BY <1>1, <1>2, <2>1 DEF Measures, Intended, DefaultDrift
<1> HIDE DEF a
<1>5. PassedMeasuredIntended'
  BY <1>3, <1>4 DEF LagInv, PassedMeasuredIntended, a
<1>6. Idle.pc = "idle" /\ ev' = [ev EXCEPT ![c] = Idle]
  BY <1>0 DEF Idle, End
<1> HIDE DEF Idle
<1> QED BY <1>0, <1>5, <1>6, IntactStep

LEMMA StopIntact ==
  ASSUME LagInv, SafeInv', NamesApart, NEW c \in Client, Stop(c) \/ WriteDiagnostic(c)
  PROVE  LagInv'
<1>1. (ClientStep(c) \/ Stop(c)) /\ End(c) /\ UNCHANGED candidates
  BY ReadFrame DEF Stop, WriteDiagnostic, Refuse, ClientStep
<1> QED BY <1>1, RefuseIntact

LEMMA StartEvaluationIntact ==
  ASSUME LagInv, SafeInv', NEW c \in Client, StartEvaluation(c)
  PROVE  LagInv'
<1>1. PICK b \in BaseName, r \in Request :
        Continue(c, [Idle EXCEPT !.pc = "initial", !.base = b, !.request = r])
  BY DEF StartEvaluation
<1> DEFINE e == [Idle EXCEPT !.pc = "initial", !.base = b, !.request = r]
<1>2. e.pc = "initial"
  BY DEF Idle
<1>3. /\ Continue(c, e)
      /\ UNCHANGED <<native, staged, committed, default, candidates>>
  BY <1>1 DEF StartEvaluation, agentVars, serviceVars, diskVars
<1> HIDE DEF e
<1>4. AllIntact'
  <2> SUFFICES ASSUME NEW d \in Client, ~At(d, "idle")'
               PROVE  Intact(ev'[d], native[<<ev'[d].base, ev'[d].retry>>],
                             staged[<<ev'[d].base, ev'[d].retry>>], default)
    BY <1>3 DEF AllIntact, Run
  <2>1. CASE d = c
    <3>1. ev'[d] = e
      BY <1>3, <2>1 DEF Continue, LagInv, SafeInv, TypeOK
    <3> QED BY <1>2, <3>1 DEF Intact
  <2>2. CASE d # c
    <3>1. ev'[d] = ev[d] /\ ~At(d, "idle")
      BY <1>3, <2>2 DEF Continue, LagInv, SafeInv, TypeOK, At
    <3> QED BY <3>1 DEF LagInv, AllIntact, Run
  <2> QED BY <2>1, <2>2
<1>5. PassedMeasuredIntended'
  BY <1>3 DEF LagInv, PassedMeasuredIntended
<1> QED BY <1>3, <1>4, <1>5 DEF LagInv

\* The service adds to a run what Measures allows; other people move DEFAULT on.
LEMMA EnvironmentIntact ==
  ASSUME LagInv, SafeInv', ~Rollbacks, Service \/ Others \/ UNCHANGED vars
  PROVE  LagInv'
<1>1. UNCHANGED <<ev, staged, candidates>>
  BY DEF Service, Ingest, Invoke, EndInvocations, CompletePartial, FailRun, NativeStep,
         Others, CommitVersion, MoveDefault, RebuildSource, diskVars, serviceVars, vars
<1>2. /\ TypeOK /\ TypeOK' /\ committed \in Int /\ default \in Int
      /\ committed > 1 /\ default <= committed
  BY BoundsArePositive DEF LagInv, SafeInv, TypeOK, Version
<1>3. committed' > 1 /\ default <= default' /\ default' <= committed'
  <2>1. CASE CommitVersion
    BY <1>2, <2>1 DEF CommitVersion
  <2>2. CASE MoveDefault
    BY <1>2, <2>2 DEF MoveDefault
  <2>3. CASE UNCHANGED <<committed, default>>
    BY <1>2, <2>3
  <2>4. CommitVersion \/ MoveDefault \/ UNCHANGED <<committed, default>>
    BY DEF Service, Ingest, Invoke, EndInvocations, CompletePartial, FailRun, NativeStep,
           Others, RebuildSource, agentVars, vars
  <2> QED BY <2>1, <2>2, <2>3, <2>4
<1>4. \A id \in RunId :
        native'[id] = native[id]
        \/ /\ native'[id].requested = native[id].requested
           /\ native'[id].invoked \subseteq native[id].invoked \cup
                {IF native[id].requested # Unpinned THEN native[id].requested ELSE default}
           /\ default' = default
  <2>1. CASE Service
    <3>1. PICK id \in RunId : \/ Ingest(id) \/ Invoke(id) \/ EndInvocations(id)
                              \/ CompletePartial(id) \/ FailRun(id)
      BY <2>1 DEF Service
    <3> DEFINE old == native[id]
               version == IF old.requested # Unpinned THEN old.requested ELSE default
    <3>2. old \in RunType /\ committed # 1
      BY <1>2 DEF TypeOK
    <3>3. \E run : /\ NativeStep(id, run) /\ run.requested = old.requested
                   /\ run.invoked \subseteq old.invoked \cup {version}
      <4>1. CASE Ingest(id)
        <5> DEFINE run == [old EXCEPT !.ingested = source]
        <5>1. NativeStep(id, run)
          BY <4>1 DEF Ingest
        <5> HIDE DEF old
        <5>2. run.requested = old.requested /\ run.invoked = old.invoked
          BY <3>2 DEF RunType
        <5> QED BY <5>1, <5>2
      <4>2. CASE Invoke(id)
        <5> DEFINE run == [old EXCEPT !.invoked = @ \cup {version},
                                      !.traced = @ \cup {version}]
        <5>1. NativeStep(id, run)
          BY <3>2, <4>2 DEF Invoke
        <5> HIDE DEF old, version
        <5>2. run.requested = old.requested /\ run.invoked = old.invoked \cup {version}
          BY <3>2 DEF RunType
        <5> QED BY <5>1, <5>2
      <4>3. CASE EndInvocations(id)
        <5>1. PICK status \in {"partial", "completed"}, complete \in BOOLEAN :
                NativeStep(id, [old EXCEPT !.status = status, !.complete = complete])
          BY <4>3 DEF EndInvocations
        <5> DEFINE run == [old EXCEPT !.status = status, !.complete = complete]
        <5> HIDE DEF old
        <5>2. run.requested = old.requested /\ run.invoked = old.invoked
          BY <3>2 DEF RunType
        <5> QED BY <5>1, <5>2
      <4>4. CASE CompletePartial(id)
        <5> DEFINE run == [old EXCEPT !.status = "completed"]
        <5>1. NativeStep(id, run)
          BY <4>4 DEF CompletePartial
        <5> HIDE DEF old
        <5>2. run.requested = old.requested /\ run.invoked = old.invoked
          BY <3>2 DEF RunType
        <5> QED BY <5>1, <5>2
      <4>5. CASE FailRun(id)
        <5>1. PICK transient \in BOOLEAN :
                NativeStep(id, [old EXCEPT !.status = "failed", !.transient = transient])
          BY <4>5 DEF FailRun
        <5> DEFINE run == [old EXCEPT !.status = "failed", !.transient = transient]
        <5> HIDE DEF old
        <5>2. run.requested = old.requested /\ run.invoked = old.invoked
          BY <3>2 DEF RunType
        <5> QED BY <5>1, <5>2
      <4> QED BY <3>1, <4>1, <4>2, <4>3, <4>4, <4>5
    <3>4. PICK run : /\ NativeStep(id, run) /\ run.requested = old.requested
                     /\ run.invoked \subseteq old.invoked \cup {version}
      BY <3>3
    <3> SUFFICES ASSUME NEW i \in RunId, native'[i] # native[i]
                 PROVE  /\ native'[i].requested = native[i].requested
                        /\ native'[i].invoked \subseteq native[i].invoked \cup
                             {IF native[i].requested # Unpinned
                              THEN native[i].requested ELSE default}
                        /\ default' = default
      OBVIOUS
    <3>5. i = id /\ native'[i] = run /\ default' = default
      BY <1>2, <3>4 DEF NativeStep, TypeOK, agentVars
    <3> QED BY <3>4, <3>5
  <2>2. CASE Others \/ UNCHANGED vars
    <3>1. UNCHANGED native
      BY <2>2 DEF Others, CommitVersion, MoveDefault, RebuildSource, serviceVars, vars
    <3> QED BY <3>1
  <2> QED BY <2>1, <2>2
<1>5. AllIntact'
  <2> SUFFICES ASSUME NEW c \in Client, ~At(c, "idle")
               PROVE  Intact(ev[c], native'[Run(c)], staged[Run(c)], default')
    BY <1>1 DEF AllIntact, Run, At
  <2>1. ev[c] \in EvalType /\ Run(c) \in RunId
    BY <1>2, RunningTyped
  <2>2. Intact(ev[c], native[Run(c)], staged[Run(c)], default)
    BY DEF LagInv, AllIntact
  <2>3. default \in Version /\ default' \in Version
    BY <1>2 DEF TypeOK
  <2> QED BY <1>3, <1>4, <2>1, <2>2, <2>3, IntactOnward
<1>6. PassedMeasuredIntended'
  BY <1>1 DEF LagInv, PassedMeasuredIntended
<1> QED BY <1>3, <1>5, <1>6 DEF LagInv

LEMMA NextIntact ==
  ASSUME LagInv, NamesApart, ~Rollbacks, [Next]_vars
  PROVE  LagInv'
<1>1. SafeInv'
  BY NextSound DEF LagInv
<1>2. ASSUME NEW c \in Client, StartEvaluation(c) \/ ClientStep(c) \/ Stop(c)
      PROVE  LagInv'
  BY <1>1, <1>2, StartEvaluationIntact, BeforeStartIntact, UploadConfigIntact,
     StartRunIntact, PollIntact, FetchRowsIntact, CheckSourceDriftIntact,
     ObservationIntact, WriteIntact, StopIntact DEF ClientStep
<1> QED BY <1>1, <1>2, EnvironmentIntact DEF Next, Rest

\* Also when traces lag, a candidate passes for the version it was scored on
\* only, provided that DEFAULT does not return to an older version, that no other
\* evaluation uses the run name at the same time, and that the Agent does not
\* begin with a single version.
THEOREM MeasuredDespiteLag ==
  ~Rollbacks /\ 1 \notin FirstVersions
    => (Spec /\ []NamesApart => []PassedMeasuredIntended)
<1> SUFFICES ASSUME ~Rollbacks, 1 \notin FirstVersions
             PROVE  Spec /\ []NamesApart => []PassedMeasuredIntended
  OBVIOUS
<1>1. Init => committed > 1 /\ default <= committed /\ AllIntact /\ PassedMeasuredIntended
  <2> SUFFICES ASSUME Init
               PROVE  committed > 1 /\ default <= committed /\ AllIntact
                      /\ PassedMeasuredIntended
    OBVIOUS
  <2>1. committed > 1 /\ default <= committed
    BY BoundsArePositive DEF Init, Version
  <2>2. AllIntact
    <3>1. Idle.pc = "idle"
      BY DEF Idle
    <3> QED BY <3>1 DEF Init, AllIntact, At
  <2>3. PassedMeasuredIntended
    BY DEF Init, PassedMeasuredIntended
  <2> QED BY <2>1, <2>2, <2>3
<1>2. Init /\ SafeInv => LagInv
  BY <1>1 DEF LagInv
<1>3. LagInv /\ NamesApart /\ [Next]_vars => LagInv'
  BY NextIntact
<1>4. LagInv => PassedMeasuredIntended
  BY DEF LagInv
<1> QED BY <1>2, <1>3, <1>4, SafeCorrect, PTL DEF Spec
=============================================================================
