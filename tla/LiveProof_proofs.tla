-------------------------- MODULE LiveProof_proofs --------------------------
(***************************************************************************)
(* Theorems about LiveProof for every set of jobs and for every bound.     *)
(***************************************************************************)
EXTENDS LiveProof, SequenceTheorems, TLAPS

-----------------------------------------------------------------------------
(* The commands of a proof. *)

StepType ==
  {s \in [act : {"local", "deploy", "first", "smoke", "second", "promote", "route",
                 "final", "retire"},
          on : SUBSET Agent, n : 0..2, k : 0..2] : s.act = "retire" => s.on # {}}

EffectType == [kind : {"create", "drop", "alias", "default"}, on : Name, n : 0..2]

LEMMA NamesTyped ==
  /\ Agent \subseteq Name
  /\ {"view", "table", "scratch"} \subseteq Name
  /\ InventoryOrder \in Seq(Name) /\ InventoryOrder # <<>>
  /\ CleanupOrder \in Seq(Name) /\ CleanupOrder # <<>>
<1>1. DOMAIN InventoryOrder = 1..5
  BY DEF InventoryOrder
<1>2. /\ InventoryOrder[1] = "agentA" /\ InventoryOrder[2] = "agentB"
      /\ InventoryOrder[3] = "view" /\ InventoryOrder[4] = "table"
      /\ InventoryOrder[5] = "scratch"
  BY DEF InventoryOrder
<1>3. Agent \subseteq Name /\ {"view", "table", "scratch"} \subseteq Name
  BY <1>1, <1>2 DEF Name, Agent
<1>4. InventoryOrder \in Seq(Name) /\ InventoryOrder # <<>>
  BY <1>3 DEF InventoryOrder, Agent
<1>5. CleanupOrder \in Seq(Name) /\ CleanupOrder # <<>>
  BY <1>3 DEF CleanupOrder, Agent
<1> QED BY <1>3, <1>4, <1>5

LEMMA ScriptTyped == Script \in Seq(StepType)
<1> DEFINE A == {"agentA"}
<1>1. /\ Agent \in SUBSET Agent /\ A \in SUBSET Agent /\ {} \in SUBSET Agent
      /\ {"agentB"} \in SUBSET Agent /\ A # {} /\ {"agentB"} # {} /\ Agent # {}
  BY DEF Agent
<1> HIDE DEF A
<1>2. \A act \in {"local", "deploy", "first", "smoke", "second", "promote", "route", "final"},
        on \in SUBSET Agent, n \in 0..2, k \in 0..2 : Step(act, on, n, k) \in StepType
  BY DEF Step, StepType
<1>3. Commands \in Seq(StepType)
  <2>1. /\ Local \in StepType /\ Step("deploy", Agent, 1, 0) \in StepType
        /\ Step("first", Agent, 0, 0) \in StepType
        /\ Step("smoke", Agent, 0, 0) \in StepType
        /\ Step("second", Agent, 0, 0) \in StepType
    BY <1>1, <1>2 DEF Local
  <2> QED BY <2>1 DEF Commands
<1>4. LifecycleCommands \in Seq(StepType)
  <2>1. \A n \in 0..2 : /\ Step("promote", A, n, 0) \in StepType
                        /\ Step("deploy", A, n, 0) \in StepType
                        /\ Step("smoke", A, n, 0) \in StepType
    BY <1>1, <1>2
  <2>2. \A n \in 0..2, k \in 0..2 : /\ Step("route", A, n, k) \in StepType
                                    /\ Step("final", A, n, k) \in StepType
    BY <1>1, <1>2
  <2> QED BY <2>1, <2>2 DEF LifecycleCommands, A
<1>5. GuardedDrops \in Seq(StepType)
  <2>1. \A on \in {A, {"agentB"}} : Step("retire", on, 0, 0) \in StepType
    BY <1>1 DEF Step, StepType
  <2> QED BY <2>1 DEF GuardedDrops, A
<1> QED BY <1>3, <1>4, <1>5, ConcatProperties DEF Script

LEMMA SendsTyped ==
  ASSUME NEW step \in StepType
  PROVE  Sends(step) \in Seq(EffectType)
<1>1. step.n \in 0..2 /\ step.on \in SUBSET Agent
  BY DEF StepType
<1>2. \A kind \in {"create", "drop", "alias", "default"}, on \in Name, n \in 0..2 :
        Effect(kind, on, n) \in EffectType
  BY DEF Effect, EffectType
<1>3. /\ Effect("create", "view", 0) \in EffectType
      /\ \A a \in Agent : \A kind \in {"create", "drop", "alias", "default"} :
           Effect(kind, a, step.n) \in EffectType /\ Effect(kind, a, 0) \in EffectType
  BY <1>1, <1>2, NamesTyped
<1>4. "agentA" \in Agent /\ "agentB" \in Agent
  BY DEF Agent
<1>5. step.act = "retire" => (CHOOSE a \in step.on : TRUE) \in Agent
  BY <1>1 DEF StepType
<1>6. CASE step.act = "deploy" /\ step.on = Agent
  BY <1>3, <1>4, <1>6 DEF Sends
<1>7. CASE step.act = "deploy" /\ step.on # Agent
  BY <1>3, <1>4, <1>7 DEF Sends
<1>8. CASE step.act = "promote"
  BY <1>3, <1>4, <1>8 DEF Sends
<1>9. CASE step.act = "retire"
  <2>1. Sends(step) = << Drop(CHOOSE a \in step.on : TRUE) >>
    BY <1>9 DEF Sends
  <2>2. Drop(CHOOSE a \in step.on : TRUE) \in EffectType
    BY <1>3, <1>5, <1>9 DEF Drop
  <2> QED BY <2>1, <2>2
<1>10. CASE step.act \notin {"deploy", "promote", "retire"}
  BY <1>10, EmptySeq DEF Sends
<1> QED BY <1>6, <1>7, <1>8, <1>9, <1>10

-----------------------------------------------------------------------------
(* One process and its file.                                                   *)

ProcType(seen) ==
  [pc : {"idle", "session", "preflight", "authorize", "step", "identify", "drop",
         "recheck", "write"},
   only : BOOLEAN, clean : BOOLEAN, step : Nat, todo : Seq(EffectType),
   left : Seq(Name), failures : BOOLEAN, seen : {seen}, att : Attestation]

Typed(p) ==
  /\ p \in ProcType(p.seen)
  /\ p.pc = "step" => p.step \in 1..Len(Script)
  /\ p.pc \in {"preflight", "drop", "recheck"} => p.left # <<>>
  /\ p.todo # <<>> => p.pc = "step"

Recorded(d) == d \notin {NoFile, Torn} /\ d.authorized
Frozen(d) == d \notin {NoFile, Torn} /\ d.unknown

\* What a process knows of the authorization is what its file says; it works only
\* as long as no state is unknown, and changes objects only when authorized.
ProcOK(d, p) ==
  /\ Typed(p)
  /\ p.pc = "idle" => p = Idle
  /\ p.pc # "idle" => d # Torn /\ (p.att.authorized <=> Recorded(d))
  /\ p.pc \in {"session", "preflight", "authorize"} => d = NoFile
  /\ InProof(p) \/ InCleanup(p) => ~p.att.unknown /\ ~Frozen(d)
  /\ p.pc = "step" \/ InCleanup(p) => p.att.authorized

LEMMA NoFilesTyped ==
  /\ NoFile # Torn
  /\ \A a \in Attestation : a # NoFile /\ a # Torn
<1>1. NoFile.proof = "no file" /\ Torn.proof = "torn"
  BY DEF NoFile, Torn
<1>2. \A a \in Attestation : a.proof \notin {"no file", "torn"}
  BY DEF Attestation
<1> QED BY <1>1, <1>2

LEMMA AttestationsTyped ==
  ASSUME NEW proof \in {"planned", "not_started", "completed", "failed"}
  PROVE  /\ NewAttestation(proof) \in Attestation
         /\ NewAttestation(proof).authorized = FALSE
         /\ NewAttestation(proof).unknown = FALSE
  BY DEF NewAttestation, Attestation

LEMMA IdleTyped == Typed(Idle) /\ Idle.pc = "idle"
<1>1. <<>> \in Seq(EffectType) /\ <<>> \in Seq(Name)
  BY EmptySeq
<1>2. NewAttestation("planned") \in Attestation
  BY AttestationsTyped
<1> HIDE DEF NewAttestation
<1> QED BY <1>1, <1>2 DEF Idle, Typed, ProcType

\* A process on its way out: to its cleanup, or to its file.
Leaves(p, r) ==
  /\ Typed(r) /\ r.pc \in {"write", "identify"}
  /\ r.att.authorized <=> p.att.authorized
  /\ r.pc = "identify" => r.att.authorized /\ ~r.att.unknown

LEMMA LeavesOK ==
  ASSUME NEW d, NEW p, NEW r, ProcOK(d, p), p.pc # "idle", Leaves(p, r),
         InProof(p) \/ InCleanup(p)
  PROVE  ProcOK(d, r)
  BY DEF ProcOK, Leaves, InProof, InCleanup

LEMMA RecordCleanupLeaves ==
  ASSUME NEW p, p \in ProcType(p.seen), p.todo = <<>>
  PROVE  Leaves(p, RecordCleanup(p))
<1> DEFINE no == [p EXCEPT !.pc = "write", !.att.cleanup = "not_authorized"]
           yes == [p EXCEPT !.pc = "identify", !.att.cleanup = "planned"]
<1>1. p \in ProcType(p.seen) /\ p.att \in Attestation
  BY DEF ProcType
<1>2. /\ [p.att EXCEPT !.cleanup = "not_authorized"] \in Attestation
      /\ [p.att EXCEPT !.cleanup = "not_authorized"].authorized = p.att.authorized
      /\ [p.att EXCEPT !.cleanup = "not_authorized"].unknown = p.att.unknown
      /\ [p.att EXCEPT !.cleanup = "planned"] \in Attestation
      /\ [p.att EXCEPT !.cleanup = "planned"].authorized = p.att.authorized
      /\ [p.att EXCEPT !.cleanup = "planned"].unknown = p.att.unknown
  BY <1>1 DEF Attestation
<1>3. CASE p.att.unknown \/ ~p.att.authorized
  <2>1. RecordCleanup(p) = no
    BY <1>3 DEF RecordCleanup
  <2>2. no \in ProcType(p.seen)
    BY <1>1, <1>2 DEF ProcType
  <2>3. /\ no.pc = "write" /\ no.todo = p.todo /\ no.seen = p.seen
        /\ no.att.authorized = p.att.authorized
    BY <1>1, <1>2 DEF ProcType
  <2> HIDE DEF no
  <2> QED BY <2>1, <2>2, <2>3 DEF Leaves, Typed
<1>4. CASE ~(p.att.unknown \/ ~p.att.authorized)
  <2>1. RecordCleanup(p) = yes
    BY <1>4 DEF RecordCleanup
  <2>2. yes \in ProcType(p.seen)
    BY <1>1, <1>2 DEF ProcType
  <2>3. /\ yes.pc = "identify" /\ yes.todo = p.todo /\ yes.seen = p.seen
        /\ yes.att.authorized = p.att.authorized /\ yes.att.unknown = p.att.unknown
    BY <1>1, <1>2 DEF ProcType
  <2> HIDE DEF yes
  <2> QED BY <1>4, <2>1, <2>2, <2>3 DEF Leaves, Typed
<1> QED BY <1>3, <1>4


LEMMA FinallyLeaves ==
  ASSUME NEW p, p \in ProcType(p.seen)
  PROVE  Leaves(p, Finally(p))
<1> DEFINE q == [p EXCEPT !.todo = <<>>, !.left = <<>>, !.seen = <<>>, !.step = 1]
           w == [q EXCEPT !.pc = "write"]
<1>1. <<>> \in Seq(EffectType) /\ <<>> \in Seq(Name)
  BY EmptySeq
<1>2. /\ q \in ProcType(q.seen) /\ q.todo = <<>> /\ q.att = p.att /\ q.clean = p.clean
  BY <1>1 DEF ProcType
<1>3. Finally(p) = IF p.clean THEN RecordCleanup(q) ELSE w
  BY DEF Finally
<1> HIDE DEF q
<1>4. Leaves(q, RecordCleanup(q))
  BY <1>2, RecordCleanupLeaves
<1>5. w \in ProcType(w.seen) /\ w.pc = "write" /\ w.todo = <<>> /\ w.att = q.att
  BY <1>2 DEF ProcType
<1> HIDE DEF w
<1>6. Leaves(q, w)
  BY <1>5 DEF Leaves, Typed
<1>7. Leaves(q, Finally(p))
  BY <1>3, <1>4, <1>6
<1> QED BY <1>2, <1>7 DEF Leaves

LEMMA FailsLeaves ==
  ASSUME NEW p, Typed(p), InProof(p) \/ InCleanup(p), NEW unknown \in BOOLEAN
  PROVE  Leaves(p, Fails(p, unknown))
<1> DEFINE known == p.att.unknown \/ unknown
           q == [p EXCEPT !.att.unknown = @ \/ unknown]
           f == [q EXCEPT !.att.proof = "failed"]
           w == [q EXCEPT !.pc = "write", !.left = <<>>, !.failures = FALSE,
                          !.att.cleanup = "failed"]
<1>1. p \in ProcType(p.seen) /\ p.att \in Attestation /\ known \in BOOLEAN
  BY DEF Typed, ProcType
<1>2. Fails(p, unknown) = IF InProof(p) THEN Finally(f) ELSE w
  BY DEF Fails
<1>q. q = [p EXCEPT !.att.unknown = known]
  OBVIOUS
<1> HIDE DEF known, q
<1>3. /\ [p.att EXCEPT !.unknown = known] \in Attestation
      /\ [p.att EXCEPT !.unknown = known].authorized = p.att.authorized
  BY <1>1 DEF Attestation
<1>4. /\ q \in ProcType(q.seen) /\ q.pc = p.pc /\ q.todo = p.todo
      /\ q.att \in Attestation /\ q.att.authorized = p.att.authorized
  BY <1>1, <1>3, <1>q DEF ProcType
<1>5. CASE InProof(p)
  <2>2. /\ [q.att EXCEPT !.proof = "failed"] \in Attestation
        /\ [q.att EXCEPT !.proof = "failed"].authorized = q.att.authorized
    BY <1>4 DEF Attestation
  <2>3. f \in ProcType(f.seen) /\ f.att.authorized = q.att.authorized
    BY <1>4, <2>2 DEF ProcType
  <2> HIDE DEF f
  <2>4. Leaves(f, Finally(f))
    BY <2>3, FinallyLeaves
  <2> QED BY <1>2, <1>4, <1>5, <2>3, <2>4 DEF Leaves
<1>6. CASE ~InProof(p)
  <2>1. q.todo = <<>>
    BY <1>4, <1>6 DEF InProof, Typed
  <2>2. /\ [q.att EXCEPT !.cleanup = "failed"] \in Attestation
        /\ [q.att EXCEPT !.cleanup = "failed"].authorized = q.att.authorized
    BY <1>4 DEF Attestation
  <2>3. /\ w \in ProcType(w.seen) /\ w.pc = "write" /\ w.todo = q.todo
        /\ w.att.authorized = q.att.authorized
    BY <1>4, <2>2, EmptySeq DEF ProcType
  <2> HIDE DEF w
  <2> QED BY <1>2, <1>4, <1>6, <2>1, <2>3 DEF Leaves, Typed
<1> QED BY <1>5, <1>6

\* The next step of the script, or the end of the proof.
LEMMA GoToOK ==
  ASSUME NEW p, p \in ProcType(p.seen), p.pc = "step", NEW i \in Nat \ {0}
  PROVE  LET r == GoTo(p, i) IN
         \/ Typed(r) /\ r.pc = "step" /\ r.att = p.att
         \/ Leaves(p, r)
<1> DEFINE f == [p EXCEPT !.att.proof = "completed"]
           g == [p EXCEPT !.step = i, !.todo = Sends(Script[i])]
<1>1. CASE i > Len(Script)
  <2>1. p.att \in Attestation
    BY DEF ProcType
  <2>2. /\ [p.att EXCEPT !.proof = "completed"] \in Attestation
        /\ [p.att EXCEPT !.proof = "completed"].authorized = p.att.authorized
    BY <2>1 DEF Attestation
  <2>3. f \in ProcType(f.seen) /\ f.att.authorized = p.att.authorized
    BY <2>2 DEF ProcType
  <2>4. GoTo(p, i) = Finally(f)
    BY <1>1 DEF GoTo
  <2> HIDE DEF f
  <2>5. Leaves(f, Finally(f))
    BY <2>3, FinallyLeaves
  <2> QED BY <2>3, <2>4, <2>5 DEF Leaves
<1>2. CASE ~(i > Len(Script))
  <2>1. i \in 1..Len(Script) /\ Script[i] \in StepType
    BY <1>2, ScriptTyped
  <2>2. Sends(Script[i]) \in Seq(EffectType)
    BY <2>1, SendsTyped
  <2>3. GoTo(p, i) = g
    BY <1>2 DEF GoTo
  <2>4. g \in ProcType(g.seen) /\ g.pc = "step" /\ g.att = p.att /\ g.step = i
    BY <2>1, <2>2 DEF ProcType
  <2> HIDE DEF g
  <2> QED BY <2>1, <2>3, <2>4 DEF Typed
<1> QED BY <1>1, <1>2

LEMMA TailsLeft ==
  ASSUME NEW S, NEW s \in Seq(S), s # <<>>
  PROVE  /\ Head(s) \in S /\ Tail(s) \in Seq(S) /\ Len(s) \in Nat
         /\ Len(s) # 1 => Tail(s) # <<>>
         /\ Len(s) > 1 => Tail(s) # <<>>
<1>1. Head(s) \in S /\ Tail(s) \in Seq(S) /\ Len(Tail(s)) = Len(s) - 1
  BY HeadTailProperties
<1>2. Len(s) \in Nat /\ Len(<<>>) = 0
  BY LenProperties, EmptySeq
<1> QED BY <1>1, <1>2

LEMMA DroppedOK ==
  ASSUME NEW p, Typed(p), p.pc = "drop"
  PROVE  LET r == Dropped(p) IN
         \/ Typed(r) /\ r.pc \in {"drop", "recheck"} /\ r.att = p.att
         \/ Leaves(p, r)
<1>1. p \in ProcType(p.seen) /\ p.left # <<>> /\ p.left \in Seq(Name) /\ p.todo = <<>>
  BY DEF Typed, ProcType
<1>2. CASE Len(p.left) > 1
  <2>1. PICK s \in Seq(Name) : s = p.left
    BY <1>1
  <2>2. Tail(s) \in Seq(Name) /\ (Len(s) > 1 => Tail(s) # <<>>)
    BY <1>1, <2>1, TailsLeft
  <2>3. Tail(p.left) \in Seq(Name) /\ Tail(p.left) # <<>>
    BY <1>2, <2>1, <2>2
  <2> DEFINE r == [p EXCEPT !.left = Tail(@)]
  <2>4. r \in ProcType(r.seen) /\ r.pc = "drop" /\ r.left # <<>> /\ r.todo = <<>> /\ r.att = p.att
    BY <1>1, <2>3 DEF ProcType
  <2>5. Dropped(p) = r
    BY <1>2 DEF Dropped
  <2> HIDE DEF r
  <2> QED BY <2>4, <2>5 DEF Typed
<1>3. CASE ~(Len(p.left) > 1) /\ p.failures
  <2>1. Leaves(p, Fails(p, FALSE))
    BY FailsLeaves DEF InCleanup
  <2> QED BY <1>3, <2>1 DEF Dropped
<1>4. CASE ~(Len(p.left) > 1) /\ ~p.failures
  <2> DEFINE r == [p EXCEPT !.pc = "recheck", !.left = InventoryOrder]
  <2>1. /\ r \in ProcType(r.seen) /\ r.pc = "recheck" /\ r.left = InventoryOrder
        /\ r.todo = <<>> /\ r.att = p.att
    BY <1>1, NamesTyped DEF ProcType
  <2>2. Dropped(p) = r
    BY <1>4 DEF Dropped
  <2> HIDE DEF r
  <2> QED BY <2>1, <2>2, NamesTyped DEF Typed
<1> QED BY <1>2, <1>3, <1>4

-----------------------------------------------------------------------------
(* All processes and files.                                                    *)

File == Attestation \cup {NoFile, Torn}

Files ==
  /\ disk \in [Job -> File]
  /\ proc = [j \in Job |-> proc[j]]
  /\ \A j \in Job : ProcOK(disk[j], proc[j])

\* No process but those that are past the inventory has moved.
PastPreflight ==
  \A i \in Job : proc'[i] = proc[i] \/ proc'[i].pc \notin {"preflight", "authorize"}

LEMMA OneProcess ==
  ASSUME Files, NEW j \in Job, NEW d \in File, NEW r, ProcOK(d, r),
         proc' = [proc EXCEPT ![j] = r], disk' = [disk EXCEPT ![j] = d]
  PROVE  /\ Files'
         /\ r.pc \notin {"preflight", "authorize"} => PastPreflight
<1>1. disk' \in [Job -> File] /\ proc' = [i \in Job |-> proc'[i]]
  BY DEF Files
<1>2. \A i \in Job : i # j => proc'[i] = proc[i] /\ disk'[i] = disk[i]
  BY DEF Files
<1>3. proc'[j] = r /\ disk'[j] = d
  BY DEF Files
<1>4. \A i \in Job : ProcOK(disk'[i], proc'[i])
  BY <1>2, <1>3 DEF Files
<1>5. Files'
  BY <1>1, <1>4 DEF Files, File, Attestation, NoFile, Torn
<1> QED BY <1>2, <1>3, <1>5 DEF PastPreflight

\* The same, when the file is left alone.
LEMMA OneProcessOnly ==
  ASSUME Files, NEW j \in Job, NEW r, ProcOK(disk[j], r),
         Continue(j, r), disk' = disk
  PROVE  /\ Files'
         /\ r.pc \notin {"preflight", "authorize"} => PastPreflight
<1>1. disk[j] \in File /\ disk' = [disk EXCEPT ![j] = disk[j]]
  BY DEF Files
<1> QED BY <1>1, OneProcess DEF Continue

\* Leaving is always possible.
LEMMA OneLeaves ==
  ASSUME Files, NEW j \in Job, NEW r, Leaves(proc[j], r),
         InProof(proc[j]) \/ InCleanup(proc[j]), Continue(j, r), disk' = disk
  PROVE  Files' /\ PastPreflight
<1>1. ProcOK(disk[j], proc[j]) /\ proc[j].pc # "idle"
  BY DEF Files, InProof, InCleanup
<1>2. ProcOK(disk[j], r)
  BY <1>1, LeavesOK
<1>3. r.pc \notin {"preflight", "authorize"}
  BY DEF Leaves
<1> QED BY <1>2, <1>3, OneProcessOnly

\* Nor is going on with the same knowledge.
LEMMA OneGoesOn ==
  ASSUME Files, NEW j \in Job, NEW r, Typed(r), r.att = proc[j].att,
         \/ proc[j].pc = "step" /\ r.pc = "step"
         \/ InCleanup(proc[j]) /\ r.pc \in {"drop", "recheck"},
         Continue(j, r), disk' = disk
  PROVE  Files' /\ PastPreflight
<1>1. ProcOK(disk[j], proc[j])
  BY DEF Files
<1>2. ProcOK(disk[j], r) /\ r.pc \notin {"preflight", "authorize"}
  BY <1>1 DEF ProcOK, InProof, InCleanup
<1> QED BY <1>2, OneProcessOnly

-----------------------------------------------------------------------------
(* What each action does to the processes and the files.                       *)

LEMMA StartProofFiles ==
  ASSUME Files, NEW j \in Job, StartProof(j)
  PROVE  Files' /\ PastPreflight
<1> DEFINE r == [Idle EXCEPT !.pc = "session", !.clean = j \in WithCleanup]
           c == j \in WithCleanup
<1>1. Idle \in ProcType(Idle.seen) /\ Idle.todo = <<>>
  BY IdleTyped DEF Typed, Idle
<1>2. c \in BOOLEAN /\ r = [Idle EXCEPT !.pc = "session", !.clean = c]
  OBVIOUS
<1>3. Idle.att = NewAttestation("planned")
  BY DEF Idle
<1> HIDE DEF c, r
<1>4. r \in ProcType(r.seen) /\ r.pc = "session" /\ r.todo = <<>> /\ r.att = Idle.att
  BY <1>1, <1>2 DEF ProcType
<1>5. disk[j] = NoFile /\ Continue(j, r) /\ disk' = disk
  BY DEF StartProof, r
<1>6. ~r.att.authorized /\ ~r.att.unknown
  BY <1>3, <1>4, AttestationsTyped
<1>7. ProcOK(disk[j], r)
  BY <1>4, <1>5, <1>6, NoFilesTyped DEF ProcOK, Typed, Recorded, Frozen, InCleanup
<1> QED BY <1>4, <1>5, <1>7, OneProcessOnly

LEMMA StartCleanupOnlyFiles ==
  ASSUME Files, NEW j \in Job, StartCleanupOnly(j)
  PROVE  Files' /\ PastPreflight
<1> DEFINE att == IF disk[j] = NoFile THEN NewAttestation("not_started") ELSE disk[j]
           q == [Idle EXCEPT !.only = TRUE, !.clean = TRUE, !.att = att]
           r == RecordCleanup(q)
<1>1. disk[j] # Torn /\ Continue(j, r) /\ disk' = disk
  BY DEF StartCleanupOnly
<1>2. /\ att \in Attestation
      /\ att.authorized <=> Recorded(disk[j])
      /\ ~att.unknown => ~Frozen(disk[j])
  <2>1. CASE disk[j] = NoFile
    BY <2>1, AttestationsTyped DEF Recorded, Frozen
  <2>2. CASE disk[j] # NoFile
    BY <1>1, <2>2 DEF Files, File, Recorded, Frozen
  <2> QED BY <2>1, <2>2
<1> HIDE DEF att
<1>3. Idle \in ProcType(Idle.seen) /\ Idle.todo = <<>>
  BY IdleTyped DEF Typed, Idle
<1>4. q \in ProcType(q.seen) /\ q.todo = <<>> /\ q.att = att
  BY <1>2, <1>3 DEF ProcType
<1> HIDE DEF q
<1>5. Leaves(q, r)
  BY <1>4, RecordCleanupLeaves
<1>6. r.pc = "identify" => ~q.att.unknown
  BY <1>4 DEF RecordCleanup, ProcType
<1> HIDE DEF r
<1>7. ProcOK(disk[j], r)
  BY <1>1, <1>2, <1>4, <1>5, <1>6 DEF ProcOK, Leaves, InProof, InCleanup
<1> QED BY <1>1, <1>5, <1>7, OneProcessOnly DEF Leaves

LEMMA PreviewFiles ==
  ASSUME Files, NEW j \in Job, Preview(j)
  PROVE  /\ Files' /\ PastPreflight
         /\ \A i \in Job : Recorded(disk'[i]) <=> Recorded(disk[i])
         /\ \A i \in Job : disk'[i] = Torn <=> disk[i] = Torn
<1>1. disk[j] = NoFile /\ proc[j].pc = "idle" /\ proc' = proc
  BY DEF Preview, At
<1>2. PICK proof \in {"planned", "not_started"} :
        \E cleanup \in {"not_requested", "planned"} :
          disk' = [disk EXCEPT ![j] = [NewAttestation(proof) EXCEPT !.cleanup = cleanup]]
  BY DEF Preview
<1>3. PICK cleanup \in {"not_requested", "planned"} :
        disk' = [disk EXCEPT ![j] = [NewAttestation(proof) EXCEPT !.cleanup = cleanup]]
  BY <1>2
<1> DEFINE d == [NewAttestation(proof) EXCEPT !.cleanup = cleanup]
<1>4. d \in Attestation /\ ~d.authorized
  BY AttestationsTyped DEF Attestation
<1> HIDE DEF d
<1>5. disk' = [disk EXCEPT ![j] = d]
  BY <1>3 DEF d
<1>6. d # NoFile /\ d # Torn /\ d \in File
  BY <1>4, NoFilesTyped DEF File
<1>7. ProcOK(disk[j], proc[j]) /\ proc[j] = Idle
  BY <1>1 DEF Files, ProcOK
<1>8. ProcOK(d, proc[j])
  BY <1>1, <1>7 DEF ProcOK, InProof, InCleanup
<1>9. proc' = [proc EXCEPT ![j] = proc[j]]
  BY <1>1 DEF Files
<1>10. Files'
  BY <1>5, <1>6, <1>8, <1>9, OneProcess
<1>11. \A i \in Job : disk'[i] = IF i = j THEN d ELSE disk[i]
  BY <1>5 DEF Files
<1> QED BY <1>1, <1>4, <1>6, <1>10, <1>11, NoFilesTyped DEF Recorded, PastPreflight

LEMMA VerifySessionFiles ==
  ASSUME Files, NEW j \in Job, VerifySession(j)
  PROVE  Files'
<1> DEFINE p == proc[j]
           r == [p EXCEPT !.pc = "preflight", !.left = PreflightNames]
<1>1. p.pc = "session" /\ Continue(j, r) /\ disk' = disk
  BY DEF VerifySession, Unchanged, At
<1>2. ProcOK(disk[j], p) /\ Typed(p)
  BY DEF Files, ProcOK
<1> HIDE DEF p
<1>3. p \in ProcType(p.seen) /\ p.todo = <<>>
  BY <1>1, <1>2 DEF Typed
<1>4. PreflightNames \in Seq(Name) /\ PreflightNames # <<>>
  BY NamesTyped DEF PreflightNames
<1>5. /\ r \in ProcType(r.seen) /\ r.pc = "preflight" /\ r.left # <<>>
      /\ r.todo = <<>> /\ r.att = p.att
  BY <1>3, <1>4 DEF ProcType
<1> HIDE DEF r
<1>6. ProcOK(disk[j], r)
  BY <1>1, <1>2, <1>5 DEF ProcOK, Typed, InProof, InCleanup
<1> QED BY <1>1, <1>6, OneProcessOnly

\* A look that finds nothing goes on to the next name, or to next.
LEMMA InspectFiles ==
  ASSUME Files, NEW j \in Job, NEW next, proc[j].pc \in {"preflight", "recheck"},
         ProcOK(disk[j], [next EXCEPT !.left = <<>>]), Inspect(j, next)
  PROVE  /\ Files'
         /\ \/ PastPreflight
            \/ ~Exists(Head(proc[j].left)) /\ Len(proc[j].left) = 1
            \/ proc[j].pc = "preflight"
<1> DEFINE p == proc[j]
           r == [p EXCEPT !.left = Tail(@)]
<1>1. ProcOK(disk[j], p) /\ Typed(p) /\ disk' = disk
  BY DEF Files, ProcOK, Inspect, Unchanged
<1>2. CASE Exists(Head(p.left))
  <2>1. Continue(j, Fails(p, FALSE))
    BY <1>2 DEF Inspect
  <2>2. Leaves(p, Fails(p, FALSE))
    BY <1>1, FailsLeaves DEF InProof, InCleanup
  <2>3. InProof(proc[j]) \/ InCleanup(proc[j])
    BY DEF InProof, InCleanup
  <2> QED BY <1>1, <2>1, <2>2, <2>3, OneLeaves
<1>3. CASE ~Exists(Head(p.left)) /\ Len(p.left) = 1
  <2>1. Continue(j, [next EXCEPT !.left = <<>>])
    BY <1>3 DEF Inspect
  <2> QED BY <1>1, <1>3, <2>1, OneProcessOnly
<1>4. CASE ~Exists(Head(p.left)) /\ Len(p.left) # 1
  <2>1. Continue(j, r)
    BY <1>4 DEF Inspect
  <2> HIDE DEF p
  <2>2. p.pc \in {"preflight", "recheck"}
    BY DEF p
  <2>3. p \in ProcType(p.seen) /\ p.left # <<>> /\ p.left \in Seq(Name) /\ p.todo = <<>>
    BY <1>1, <2>2 DEF Typed, ProcType
  <2>4. Tail(p.left) \in Seq(Name) /\ Tail(p.left) # <<>>
    BY <1>4, <2>3, TailsLeft
  <2>5. /\ r \in ProcType(r.seen) /\ r.pc = p.pc /\ r.left # <<>> /\ r.todo = <<>>
        /\ r.att = p.att
    BY <2>3, <2>4 DEF ProcType
  <2> HIDE DEF r
  <2>6. ProcOK(disk[j], r)
    BY <1>1, <2>2, <2>5 DEF ProcOK, Typed, InProof, InCleanup
  <2>7. r.pc \in {"preflight", "authorize"} => proc[j].pc = "preflight"
    BY <2>2, <2>5 DEF p
  <2> QED BY <1>1, <2>1, <2>6, <2>7, OneProcessOnly
<1> QED BY <1>2, <1>3, <1>4

LEMMA PreflightFiles ==
  ASSUME Files, NEW j \in Job, Preflight(j)
  PROVE  Files'
<1> DEFINE p == proc[j]
           next == [p EXCEPT !.pc = "authorize"]
           r == [next EXCEPT !.left = <<>>]
<1>1. p.pc = "preflight" /\ Inspect(j, next)
  BY DEF Preflight, At
<1>2. ProcOK(disk[j], p) /\ Typed(p)
  BY DEF Files, ProcOK
<1>3. proc[j].pc \in {"preflight", "recheck"}
  BY <1>1
<1> HIDE DEF p
<1>4. p \in ProcType(p.seen) /\ p.todo = <<>>
  BY <1>1, <1>2 DEF Typed
<1>5. r \in ProcType(r.seen) /\ r.pc = "authorize" /\ r.todo = <<>> /\ r.att = p.att
  BY <1>4, EmptySeq DEF ProcType
<1>6. ProcOK(disk[j], r)
  <2> HIDE DEF r
  <2> QED BY <1>1, <1>2, <1>5 DEF ProcOK, Typed, InProof, InCleanup
<1> HIDE DEF next
<1> QED BY <1>1, <1>3, <1>6, InspectFiles

LEMMA AuthorizeFiles ==
  ASSUME Files, NEW j \in Job, Authorize(j)
  PROVE  /\ Files' /\ PastPreflight
         /\ Recorded(disk'[j])
         /\ \A i \in Job : i # j => disk'[i] = disk[i]
<1> DEFINE p == proc[j]
           d == [p.att EXCEPT !.authorized = TRUE]
           q == [p EXCEPT !.pc = "step", !.att.authorized = TRUE]
           r == GoTo(q, 1)
<1>1. /\ p.pc = "authorize" /\ disk' = [disk EXCEPT ![j] = q.att]
      /\ proc' = [proc EXCEPT ![j] = r]
  BY DEF Authorize, At, Continue
<1>2. ProcOK(disk[j], p) /\ p \in ProcType(p.seen) /\ p.att \in Attestation
  BY DEF Files, ProcOK, Typed, ProcType
<1>3. ~p.att.unknown
  BY <1>1, <1>2 DEF ProcOK, InProof
<1> HIDE DEF p
<1>4. d \in Attestation /\ d.authorized /\ ~d.unknown
  BY <1>2, <1>3 DEF Attestation
<1>5. q \in ProcType(q.seen) /\ q.pc = "step" /\ q.att = d
  BY <1>2, <1>4 DEF ProcType
<1> HIDE DEF d, q
<1>6. \/ Typed(r) /\ r.pc = "step" /\ r.att = q.att
      \/ Leaves(q, r)
  BY <1>5, GoToOK
<1> HIDE DEF r
<1>7. Recorded(d) /\ ~Frozen(d) /\ d # Torn /\ d \in File
  BY <1>4, NoFilesTyped DEF Recorded, Frozen, File
<1>8. ProcOK(d, r) /\ r.pc \notin {"preflight", "authorize"}
  BY <1>4, <1>5, <1>6, <1>7 DEF ProcOK, Leaves, InProof, InCleanup
<1>9. disk' = [disk EXCEPT ![j] = d]
  BY <1>1, <1>5
<1>10. disk'[j] = d /\ \A i \in Job : i # j => disk'[i] = disk[i]
  BY <1>9 DEF Files
<1> QED BY <1>1, <1>7, <1>8, <1>9, <1>10, OneProcess

LEMMA GoToFiles ==
  ASSUME Files, NEW j \in Job, NEW q, NEW i \in Nat \ {0}, proc[j].pc = "step",
         q \in ProcType(q.seen), q.pc = "step", q.att = proc[j].att,
         Continue(j, GoTo(q, i)), disk' = disk
  PROVE  Files' /\ PastPreflight
<1> DEFINE r == GoTo(q, i)
<1>1. \/ Typed(r) /\ r.pc = "step" /\ r.att = q.att
      \/ Leaves(q, r)
  BY GoToOK
<1>2. Continue(j, r)
  OBVIOUS
<1> HIDE DEF r
<1>3. CASE Typed(r) /\ r.pc = "step" /\ r.att = q.att
  BY <1>2, <1>3, OneGoesOn
<1>4. CASE Leaves(q, r)
  <2>1. Leaves(proc[j], r) /\ InProof(proc[j])
    BY <1>4 DEF Leaves, InProof
  <2> QED BY <1>2, <2>1, OneLeaves
<1> QED BY <1>1, <1>3, <1>4

LEMMA FailsFiles ==
  ASSUME Files, NEW j \in Job, InProof(proc[j]) \/ InCleanup(proc[j]),
         NEW unknown \in BOOLEAN, Continue(j, Fails(proc[j], unknown)), disk' = disk
  PROVE  Files' /\ PastPreflight
<1>1. Typed(proc[j])
  BY DEF Files, ProcOK
<1>2. Leaves(proc[j], Fails(proc[j], unknown))
  BY <1>1, FailsLeaves
<1> QED BY <1>2, OneLeaves

LEMMA SendFiles ==
  ASSUME Files, NEW j \in Job, Send(j)
  PROVE  Files' /\ PastPreflight
<1> DEFINE p == proc[j]
           t == [p EXCEPT !.todo = Tail(@)]
<1>1. p.pc = "step" /\ p.todo # <<>> /\ disk' = disk
  BY DEF Send, At
<1>2. p \in ProcType(p.seen) /\ Typed(p)
  BY DEF Files, ProcOK, Typed
<1>3. p.step + 1 \in Nat \ {0}
  BY <1>2 DEF ProcType
<1>4. CASE ~Possible(Head(p.todo))
  <2>1. Continue(j, Fails(p, FALSE))
    BY <1>4 DEF Send
  <2> QED BY <1>1, <2>1, FailsFiles DEF InProof
<1>5. CASE Possible(Head(p.todo)) /\ Len(p.todo) = 1
  <2>1. Continue(j, GoTo(p, p.step + 1))
    BY <1>5 DEF Send
  <2> QED BY <1>1, <1>2, <1>3, <2>1, GoToFiles
<1>6. CASE Possible(Head(p.todo)) /\ Len(p.todo) # 1
  <2>1. Continue(j, t)
    BY <1>6 DEF Send
  <2> HIDE DEF p
  <2>2. p.todo \in Seq(EffectType)
    BY <1>2 DEF ProcType
  <2>3. Tail(p.todo) \in Seq(EffectType)
    BY <1>1, <2>2, TailsLeft
  <2>4. t \in ProcType(t.seen) /\ t.pc = "step" /\ t.step = p.step /\ t.att = p.att
    BY <1>1, <1>2, <2>3 DEF ProcType
  <2> HIDE DEF t
  <2>5. Typed(t)
    BY <1>1, <1>2, <2>4 DEF Typed
  <2>6. p = proc[j]
    BY DEF p
  <2> QED BY <1>1, <2>1, <2>4, <2>5, <2>6, OneGoesOn
<1> QED BY <1>4, <1>5, <1>6

LEMMA LookFiles ==
  ASSUME Files, NEW j \in Job, Look(j)
  PROVE  Files' /\ PastPreflight
<1> DEFINE p == proc[j]
           step == Script[p.step]
           seen == CASE step.act = "first" -> [a \in step.on |-> Observed(a)]
                     [] step.act = "second" -> <<>>
                     [] OTHER -> p.seen
           q == [p EXCEPT !.seen = seen]
<1>1. p.pc = "step" /\ disk' = disk
  BY DEF Look, At, Unchanged
<1>2. Continue(j, IF Holds(p, step) THEN GoTo(q, p.step + 1) ELSE Fails(p, FALSE))
  BY DEF Look
<1> HIDE DEF seen, step
<1>3. p \in ProcType(p.seen)
  BY DEF Files, ProcOK, Typed
<1>4. p.step + 1 \in Nat \ {0}
  BY <1>3 DEF ProcType
<1>5. CASE Holds(p, step)
  <2>1. Continue(j, GoTo(q, p.step + 1))
    BY <1>2, <1>5
  <2>2. q \in ProcType(q.seen) /\ q.pc = p.pc /\ q.att = p.att
    BY <1>3 DEF ProcType
  <2> HIDE DEF q
  <2> QED BY <1>1, <1>4, <2>1, <2>2, GoToFiles
<1>6. CASE ~Holds(p, step)
  <2>1. Continue(j, Fails(p, FALSE))
    BY <1>2, <1>6
  <2> QED BY <1>1, <2>1, FailsFiles DEF InProof
<1> QED BY <1>5, <1>6

LEMMA IdentifyFiles ==
  ASSUME Files, NEW j \in Job, IdentifyForCleanup(j)
  PROVE  Files' /\ PastPreflight
<1> DEFINE p == proc[j]
           r == [p EXCEPT !.pc = "drop", !.left = CleanupOrder]
<1>1. p.pc = "identify" /\ Continue(j, r) /\ disk' = disk /\ p = proc[j]
  BY DEF IdentifyForCleanup, At, Unchanged
<1>2. Typed(p)
  BY DEF Files, ProcOK
<1> HIDE DEF p
<1>3. /\ r \in ProcType(r.seen) /\ r.pc = "drop" /\ r.left # <<>> /\ r.todo = p.todo
      /\ r.att = p.att
  BY <1>2, NamesTyped DEF ProcType, Typed
<1> HIDE DEF r
<1>4. Typed(r) /\ InCleanup(p)
  BY <1>1, <1>2, <1>3 DEF Typed, InCleanup
<1> QED BY <1>1, <1>3, <1>4, OneGoesOn

LEMMA DroppedFiles ==
  ASSUME Files, NEW j \in Job, NEW q, proc[j].pc = "drop", Typed(q), q.pc = "drop",
         q.att = proc[j].att, Continue(j, Dropped(q)), disk' = disk
  PROVE  Files' /\ PastPreflight
<1> DEFINE r == Dropped(q)
<1>1. \/ Typed(r) /\ r.pc \in {"drop", "recheck"} /\ r.att = q.att
      \/ Leaves(q, r)
  BY DroppedOK
<1>2. Continue(j, r) /\ InCleanup(proc[j])
  BY DEF InCleanup
<1> HIDE DEF r
<1>3. CASE Typed(r) /\ r.pc \in {"drop", "recheck"} /\ r.att = q.att
  BY <1>2, <1>3, OneGoesOn
<1>4. CASE Leaves(q, r)
  <2>1. Leaves(proc[j], r)
    BY <1>4 DEF Leaves
  <2> QED BY <1>2, <2>1, OneLeaves
<1> QED BY <1>1, <1>3, <1>4

LEMMA DropReservedFiles ==
  ASSUME Files, NEW j \in Job, DropReserved(j)
  PROVE  Files' /\ PastPreflight
<1>1. proc[j].pc = "drop" /\ disk' = disk /\ Continue(j, Dropped(proc[j]))
  BY DEF DropReserved, At
<1>2. Typed(proc[j])
  BY DEF Files, ProcOK
<1> QED BY <1>1, <1>2, DroppedFiles

LEMMA RecheckFiles ==
  ASSUME Files, NEW j \in Job, Recheck(j)
  PROVE  Files' /\ PastPreflight
<1> DEFINE p == proc[j]
           next == [p EXCEPT !.pc = "write", !.att.cleanup = "completed"]
           r == [next EXCEPT !.left = <<>>]
<1>1. p.pc = "recheck" /\ Inspect(j, next)
  BY DEF Recheck, At
<1>2. ProcOK(disk[j], p) /\ Typed(p)
  BY DEF Files, ProcOK
<1>3. proc[j].pc \in {"preflight", "recheck"}
  BY <1>1
<1> HIDE DEF p
<1>4. p \in ProcType(p.seen) /\ p.todo = <<>> /\ p.att \in Attestation
  BY <1>1, <1>2 DEF Typed, ProcType
<1>5. /\ [p.att EXCEPT !.cleanup = "completed"] \in Attestation
      /\ [p.att EXCEPT !.cleanup = "completed"].authorized = p.att.authorized
  BY <1>4 DEF Attestation
<1>6. /\ r \in ProcType(r.seen) /\ r.pc = "write" /\ r.todo = <<>>
      /\ r.att.authorized = p.att.authorized
  BY <1>4, <1>5, EmptySeq DEF ProcType
<1>7. ProcOK(disk[j], r)
  <2> HIDE DEF r
  <2> QED BY <1>1, <1>2, <1>6 DEF ProcOK, Typed, InProof, InCleanup
<1> HIDE DEF next
<1>8. \/ PastPreflight
      \/ ~Exists(Head(proc[j].left)) /\ Len(proc[j].left) = 1
  BY <1>1, <1>3, <1>7, InspectFiles DEF p
<1>9. CASE ~Exists(Head(proc[j].left)) /\ Len(proc[j].left) = 1
  <2>1. Continue(j, r) /\ disk' = disk
    BY <1>1, <1>9 DEF Inspect, Unchanged
  <2> HIDE DEF r
  <2> QED BY <1>6, <1>7, <2>1, OneProcessOnly
<1> QED BY <1>1, <1>3, <1>7, <1>8, <1>9, InspectFiles

LEMMA IdleOK ==
  ASSUME NEW d \in File
  PROVE  ProcOK(d, Idle)
  BY IdleTyped DEF ProcOK, InProof, InCleanup

LEMMA WriteFiles ==
  ASSUME Files, NEW j \in Job, WriteAttestation(j)
  PROVE  /\ Files' /\ PastPreflight /\ disk[j] # Torn
         /\ Recorded(disk'[j]) <=> Recorded(disk[j])
         /\ \A i \in Job : i # j => disk'[i] = disk[i]
<1>1. /\ proc[j].pc = "write" /\ proc' = [proc EXCEPT ![j] = Idle]
      /\ disk' = [disk EXCEPT ![j] = proc[j].att]
  BY DEF WriteAttestation, At, Continue
<1>2. ProcOK(disk[j], proc[j]) /\ proc[j].att \in Attestation
  BY DEF Files, ProcOK, Typed, ProcType
<1>3. proc[j].att \in File
  BY <1>2 DEF File
<1>4. Files' /\ PastPreflight
  BY <1>1, <1>3, IdleOK, IdleTyped, OneProcess
<1>5. disk'[j] = proc[j].att /\ \A i \in Job : i # j => disk'[i] = disk[i]
  BY <1>1 DEF Files
<1> QED BY <1>1, <1>2, <1>4, <1>5, NoFilesTyped DEF ProcOK, Recorded

LEMMA StatementFailsFiles ==
  ASSUME Files, NEW j \in Job, StatementFails(j)
  PROVE  Files' /\ PastPreflight
<1> DEFINE p == proc[j]
           q == [p EXCEPT !.failures = TRUE]
<1>1. /\ disk' = disk /\ (InProof(p) \/ InCleanup(p))
      /\ Continue(j, IF p.pc = "drop" THEN Dropped(q) ELSE Fails(p, FALSE))
  BY DEF StatementFails, Working
<1>2. Typed(p)
  BY DEF Files, ProcOK
<1>3. CASE p.pc = "drop"
  <2>1. /\ q \in ProcType(q.seen) /\ q.pc = "drop" /\ q.left = p.left /\ q.todo = p.todo
        /\ q.att = p.att
    BY <1>2, <1>3 DEF Typed, ProcType
  <2>2. Continue(j, Dropped(q))
    BY <1>1, <1>3
  <2> HIDE DEF q
  <2>3. Typed(q)
    BY <1>2, <1>3, <2>1 DEF Typed
  <2> QED BY <1>1, <1>3, <2>1, <2>2, <2>3, DroppedFiles
<1>4. CASE p.pc # "drop"
  <2>1. Continue(j, Fails(p, FALSE))
    BY <1>1, <1>4
  <2> QED BY <1>1, <2>1, FailsFiles
<1> QED BY <1>3, <1>4

LEMMA TimesOutFiles ==
  ASSUME Files, NEW j \in Job, StatementTimesOut(j)
  PROVE  Files' /\ PastPreflight
  BY FailsFiles DEF StatementTimesOut, TimesOut, Working

LEMMA InterruptFiles ==
  ASSUME Files, NEW j \in Job, Interrupt(j)
  PROVE  Files' /\ PastPreflight
<1> DEFINE p == proc[j]
           w == [p EXCEPT !.pc = "write", !.left = <<>>, !.failures = FALSE]
<1>1. /\ disk' = disk /\ (InProof(p) \/ InCleanup(p))
      /\ Continue(j, IF InProof(p) THEN Finally(p) ELSE IF p.only THEN w ELSE Idle)
  BY DEF Interrupt, Working
<1>2. Typed(p)
  BY DEF Files, ProcOK
<1>3. CASE InProof(p)
  <2>1. Continue(j, Finally(p))
    BY <1>1, <1>3
  <2>2. Leaves(p, Finally(p))
    BY <1>2, FinallyLeaves DEF Typed
  <2> QED BY <1>1, <2>1, <2>2, OneLeaves
<1>4. CASE ~InProof(p) /\ p.only
  <2>1. /\ w \in ProcType(w.seen) /\ w.pc = "write" /\ w.todo = p.todo /\ w.att = p.att
    BY <1>2, EmptySeq DEF Typed, ProcType
  <2>2. p.todo = <<>> /\ Continue(j, w)
    BY <1>1, <1>2, <1>4 DEF Typed, InProof
  <2> HIDE DEF w
  <2>3. Leaves(p, w)
    BY <2>1, <2>2 DEF Leaves, Typed
  <2> QED BY <1>1, <2>2, <2>3, OneLeaves
<1>5. CASE ~InProof(p) /\ ~p.only
  <2>1. Continue(j, Idle)
    BY <1>1, <1>5
  <2>2. ProcOK(disk[j], Idle) /\ Idle.pc \notin {"preflight", "authorize"}
    BY IdleOK, IdleTyped DEF Files
  <2> QED BY <1>1, <2>1, <2>2, OneProcessOnly
<1> QED BY <1>3, <1>4, <1>5

LEMMA KillFiles ==
  ASSUME Files, NEW j \in Job, Kill(j)
  PROVE  /\ Files' /\ PastPreflight
         /\ \A i \in Job : disk'[i] = disk[i] \/ disk'[i] = Torn
<1>1. PICK d \in File : disk' = [disk EXCEPT ![j] = d] /\ (d = disk[j] \/ d = Torn)
  <2>1. disk' = disk \/ disk' = [disk EXCEPT ![j] = Torn]
    BY DEF Kill
  <2>2. disk = [disk EXCEPT ![j] = disk[j]] /\ disk[j] \in File /\ Torn \in File
    BY DEF Files, File
  <2> QED BY <2>1, <2>2
<1>2. proc' = [proc EXCEPT ![j] = Idle]
  BY DEF Kill, Continue
<1>3. \A i \in Job : disk'[i] = disk[i] \/ disk'[i] = Torn
  BY <1>1 DEF Files
<1> QED BY <1>1, <1>2, <1>3, IdleOK, IdleTyped, OneProcess

-----------------------------------------------------------------------------
(* The reserved objects.                                                       *)

Late == {"no", "failure", "timeout", "kill"}

Objects == object \in [Name -> Object \cup {Absent}]

LEMMA AfterTyped ==
  ASSUME Objects, NEW j \in Job, NEW e \in EffectType, NEW late \in Late, Possible(e)
  PROVE  LET o == After(j, e, late) IN
         /\ o \in Object \cup {Absent}
         /\ o # Absent =>
              \/ o.by = j /\ o.older = {}
              \/ Exists(e.on) /\ o.by = object[e.on].by /\ o.older = object[e.on].older
<1> DEFINE was == object[e.on]
           o == After(j, e, late)
<1>1. /\ e.on \in Name /\ e.n \in 0..2 /\ e.kind \in {"create", "drop", "alias", "default"}
      /\ was \in Object \cup {Absent} /\ (Exists(e.on) => was \in Object)
  BY DEF EffectType, Objects, Exists
<1>2. CASE e.kind = "drop"
  BY <1>2 DEF After
<1>3. CASE e.kind = "alias"
  <2> DEFINE new == [was EXCEPT !.production = e.n]
  <2>1. o = new /\ Exists(e.on)
    BY <1>3 DEF After, Possible
  <2>2. new \in Object /\ new.by = was.by /\ new.older = was.older
    BY <1>1, <2>1 DEF Object
  <2> QED BY <2>1, <2>2
<1>4. CASE e.kind = "default"
  <2> DEFINE new == [was EXCEPT !.default = e.n]
  <2>1. o = new /\ Exists(e.on)
    BY <1>4 DEF After, Possible
  <2>2. new \in Object /\ new.by = was.by /\ new.older = was.older
    BY <1>1, <2>1 DEF Object
  <2> QED BY <2>1, <2>2
<1>5. CASE e.kind = "create" /\ (e.on \notin Agent \/ ~Exists(e.on))
  <2>1. o = Fresh(j, e, late)
    BY <1>5 DEF After
  <2> DEFINE v == IF e.on \in Agent THEN <<e.n>> ELSE <<>>
             new == [by |-> j, older |-> {}, late |-> late, default |-> 0,
                     production |-> 0, versions |-> v]
  <2>2. v \in Seq(0..2)
    <3>1. <<e.n>> \in Seq(0..2) /\ <<>> \in Seq(0..2)
      BY <1>1, EmptySeq
    <3> QED BY <3>1
  <2>3. Fresh(j, e, late) = new
    BY DEF Fresh
  <2> HIDE DEF v
  <2>4. new \in Object /\ new.by = j /\ new.older = {}
    BY <2>2 DEF Object, Late
  <2> QED BY <2>1, <2>3, <2>4
<1>6. CASE e.kind = "create" /\ e.on \in Agent /\ Exists(e.on)
  <2> DEFINE new == [was EXCEPT !.versions = Append(@, e.n)]
  <2>1. o = was \/ o = new
    BY <1>6 DEF After
  <2>2. was \in Object /\ was.versions \in Seq(0..2)
    BY <1>1, <1>6 DEF Object
  <2>3. Append(was.versions, e.n) \in Seq(0..2)
    BY <1>1, <2>2, AppendProperties
  <2>4. new \in Object /\ new.by = was.by /\ new.older = was.older
    BY <2>2, <2>3 DEF Object
  <2> QED BY <1>6, <2>1, <2>2, <2>4
<1> QED BY <1>1, <1>2, <1>3, <1>4, <1>5, <1>6

-----------------------------------------------------------------------------
(* The inductive invariant.  Whatever a job has made, and whatever is still    *)
(* under way on its behalf, its file records the authorization; and the        *)
(* authorization was given when nothing older than the job was left.           *)

Auth(j) == disk[j] = Torn \/ Recorded(disk[j])

Clear(j) == \A n \in Name : Exists(n) => j \notin object[n].older

\* The jobs on whose behalf an object may change.
Actors == {j \in Job : Auth(j) /\ Clear(j)}

Orphan == {o \in [job : Job, todo : Seq(EffectType), cause : Late] : o.todo # <<>>}

Authority ==
  /\ \A j \in Job, n \in Name : Exists(n) /\ object[n].by = j => Auth(j)
  /\ \A o \in orphans : o \in Orphan /\ o.job \in Actors

\* The preflight has yet to look at everything older that is there.
Ahead(j) ==
  \A n \in Name : Exists(n) /\ j \in object[n].older =>
    \E i \in 1..Len(proc[j].left) : proc[j].left[i] = n

Clearance ==
  /\ \A j \in Job : /\ Recorded(disk[j]) \/ proc[j].pc = "authorize" => Clear(j)
                    /\ proc[j].pc = "preflight" => Ahead(j)
  /\ DropsNothingOlder

Inv == Files /\ Objects /\ Authority /\ Clearance

\* No file loses an authorization, and none gains one without the inventory.
Steady ==
  /\ PastPreflight
  /\ \A i \in Job : /\ Auth(i) => Auth(i)'
                    /\ Recorded(disk'[i]) => Recorded(disk[i]) \/ proc[i].pc = "authorize"

\* Objects are changed, and left to change, by actors only.
ByActors ==
  /\ \A n \in Name : Exists(n)' =>
       \/ Exists(n) /\ object'[n].by = object[n].by /\ object'[n].older = object[n].older
       \/ object'[n].by \in Actors \cup {Others} /\ object'[n].older = {}
  /\ \A h \in harmed' : h \notin harmed =>
       h.job \in Actors /\ \E n \in Name : Exists(n) /\ h.older = object[n].older
  /\ \A o \in orphans' : o \in Orphan /\ o.job \in Actors

LEMMA ActorsStay ==
  ASSUME Inv, Steady, ByActors
  PROVE  Authority' /\ Clearance'
<1>1. \A j \in Job : Clear(j) => Clear(j)'
  BY DEF ByActors, Clear
<1>2. Actors \subseteq Actors'
  BY <1>1 DEF Steady, Actors
<1>3. Authority'
  <2>1. \A j \in Job, n \in Name : Exists(n)' /\ object'[n].by = j => Auth(j)'
    <3> SUFFICES ASSUME NEW j \in Job, NEW n \in Name, Exists(n)', object'[n].by = j
                 PROVE  Auth(j)'
      OBVIOUS
    <3>1. CASE Exists(n) /\ object'[n].by = object[n].by
      BY <3>1 DEF Inv, Authority, Steady
    <3>2. CASE object'[n].by \in Actors \cup {Others}
      BY <3>2, OthersIsNoJob DEF Actors, Steady
    <3> QED BY <3>1, <3>2 DEF ByActors
  <2>2. \A o \in orphans' : o \in Orphan /\ o.job \in Actors'
    BY <1>2 DEF ByActors
  <2> QED BY <2>1, <2>2 DEF Authority, Orphan, EffectType, Late
<1>4. ASSUME NEW j \in Job
      PROVE  /\ Recorded(disk'[j]) \/ proc'[j].pc = "authorize" => Clear(j)'
             /\ proc'[j].pc = "preflight" => Ahead(j)'
  <2>1. Recorded(disk[j]) \/ proc[j].pc = "authorize" => Clear(j)'
    BY <1>1 DEF Inv, Clearance
  <2>2. Recorded(disk'[j]) \/ proc'[j].pc = "authorize" =>
          Recorded(disk[j]) \/ proc[j].pc = "authorize"
    BY DEF Steady, PastPreflight
  <2>3. ASSUME proc'[j].pc = "preflight"
        PROVE  Ahead(j)'
    <3>1. proc'[j] = proc[j] /\ Ahead(j)
      BY <2>3 DEF Steady, PastPreflight, Inv, Clearance
    <3>2. \A n \in Name : Exists(n)' /\ j \in object'[n].older =>
            Exists(n) /\ j \in object[n].older
      BY DEF ByActors
    <3> QED BY <3>1, <3>2 DEF Ahead
  <2> QED BY <2>1, <2>2, <2>3
<1>5. DropsNothingOlder'
  <2> SUFFICES ASSUME NEW h \in harmed'
               PROVE  h.job \notin h.older
    BY DEF DropsNothingOlder
  <2>1. CASE h \in harmed
    BY <2>1 DEF Inv, Clearance, DropsNothingOlder
  <2>2. CASE h \notin harmed
    BY <2>2 DEF ByActors, Actors, Clear
  <2> QED BY <2>1, <2>2
<1>6. Clearance'
  BY <1>4, <1>5 DEF Clearance, Recorded, Clear, Ahead
<1> QED BY <1>3, <1>6

\* A process that is at work on its script or its cleanup is an actor.
LEMMA WorkersAct ==
  ASSUME Inv, NEW j \in Job, proc[j].pc = "step" \/ InCleanup(proc[j])
  PROVE  j \in Actors
<1>1. ProcOK(disk[j], proc[j])
  BY DEF Inv, Files
<1>2. Recorded(disk[j])
  BY <1>1 DEF ProcOK, InCleanup
<1> QED BY <1>2 DEF Inv, Clearance, Actors, Auth

\* Nothing happens to the objects.
LEMMA QuietIsByActors ==
  ASSUME Inv, object' = object, harmed' = harmed,
         \A o \in orphans' : o \in Orphan /\ o.job \in Actors
  PROVE  ByActors /\ Objects'
  BY DEF Inv, Objects, ByActors, Exists, Object

LEMMA FilesOnlySteady ==
  ASSUME PastPreflight, disk' = disk
  PROVE  Steady
  BY DEF Steady, Auth, Recorded

LEMMA ApplyByActors ==
  ASSUME Inv, NEW j \in Actors, NEW e \in EffectType, NEW late \in Late, Possible(e),
         Apply(j, e, late), \A o \in orphans' : o \in Orphan /\ o.job \in Actors
  PROVE  ByActors /\ Objects'
<1> DEFINE o == After(j, e, late)
<1>1. j \in Job /\ e.on \in Name
  BY DEF Actors, EffectType
<1>2. /\ o \in Object \cup {Absent}
      /\ o # Absent => \/ o.by = j /\ o.older = {}
                       \/ Exists(e.on) /\ o.by = object[e.on].by /\ o.older = object[e.on].older
  BY <1>1, AfterTyped DEF Inv
<1>3. object' = [object EXCEPT ![e.on] = o]
  BY DEF Apply
<1> HIDE DEF o
<1>4. Objects'
  BY <1>1, <1>2, <1>3 DEF Inv, Objects, Object
<1>5. object'[e.on] = o /\ \A n \in Name : n # e.on => object'[n] = object[n]
  BY <1>1, <1>3 DEF Inv, Objects
<1>6. ASSUME NEW n \in Name, Exists(n)'
      PROVE  \/ Exists(n) /\ object'[n].by = object[n].by /\ object'[n].older = object[n].older
             \/ object'[n].by \in Actors \cup {Others} /\ object'[n].older = {}
  BY <1>2, <1>5, <1>6 DEF Exists
<1>7. ASSUME NEW h \in harmed', h \notin harmed
      PROVE  h.job \in Actors /\ \E n \in Name : Exists(n) /\ h.older = object[n].older
  <2>1. Destroys(e) /\ h = [job |-> j, older |-> object[e.on].older]
    BY <1>7 DEF Apply
  <2> QED BY <1>1, <2>1 DEF Destroys
<1> QED BY <1>4, <1>6, <1>7 DEF ByActors

-----------------------------------------------------------------------------
(* Every action keeps it.                                                      *)

\* An action that leaves objects and statements alone.
LEMMA QuietKeeps ==
  ASSUME Inv, Files', Steady, UNCHANGED <<object, harmed, orphans>>
  PROVE  Inv'
<1>1. ByActors /\ Objects'
  BY QuietIsByActors DEF Inv, Authority
<1> QED BY <1>1, ActorsStay DEF Inv

LEMMA StartProofKeeps ==
  ASSUME Inv, NEW j \in Job, StartProof(j)
  PROVE  Inv'
<1>1. Files' /\ PastPreflight
  BY StartProofFiles DEF Inv
<1>2. /\ disk' = disk /\ orphans' = orphans /\ harmed' = harmed /\ disk[j] = NoFile
      /\ \A n \in Name : object'[n] = IF Exists(n)
                                      THEN [object[n] EXCEPT !.older = @ \cup {j}] ELSE Absent
      /\ object' = [n \in Name |-> object'[n]]
  BY DEF StartProof
<1>3. \A n \in Name : Exists(n) =>
        LET o == object'[n] IN
        /\ o \in Object /\ o.by = object[n].by /\ o.older = object[n].older \cup {j}
  <2> SUFFICES ASSUME NEW n \in Name, Exists(n)
               PROVE  /\ object'[n] \in Object /\ object'[n].by = object[n].by
                      /\ object'[n].older = object[n].older \cup {j}
    OBVIOUS
  <2>1. object[n] \in Object /\ object'[n] = [object[n] EXCEPT !.older = @ \cup {j}]
    BY <1>2 DEF Inv, Objects, Exists
  <2> QED BY <2>1 DEF Object
<1>4. \A n \in Name : Exists(n)' => Exists(n)
  BY <1>2 DEF Exists
<1>5. Objects'
  BY <1>2, <1>3 DEF Objects, Object
<1>6. ~Auth(j) /\ \A i \in Job : Auth(i)' <=> Auth(i)
  BY <1>2, NoFilesTyped DEF Auth, Recorded
<1>7. \A i \in Job : i # j /\ Clear(i) => Clear(i)'
  BY <1>3, <1>4 DEF Clear
<1>8. \A i \in Actors : i \in Actors'
  BY <1>6, <1>7 DEF Actors
<1>9. Authority'
  <2>1. \A i \in Job, n \in Name : Exists(n)' /\ object'[n].by = i => Auth(i)'
    BY <1>3, <1>4, <1>6 DEF Inv, Authority
  <2>2. \A o \in orphans' : o \in Orphan /\ o.job \in Actors'
    BY <1>2, <1>8 DEF Inv, Authority
  <2> QED BY <2>1, <2>2 DEF Authority, Orphan, EffectType, Late
<1>10. proc'[j].pc \notin {"authorize", "preflight"} /\ ~Recorded(disk'[j])
  <2>1. disk'[j] = NoFile
    BY <1>2
  <2>2. proc'[j] = [Idle EXCEPT !.pc = "session", !.clean = j \in WithCleanup]
    BY DEF StartProof, Continue, Inv, Files
  <2>3. proc'[j].pc = "session"
    BY <2>2 DEF Idle
  <2> QED BY <2>1, <2>3 DEF Recorded
<1>11. \A i \in Job : i # j => proc'[i] = proc[i]
  BY DEF StartProof, Continue, Inv, Files
<1>12. \A i \in Job : /\ Recorded(disk'[i]) \/ proc'[i].pc = "authorize" => Clear(i)'
                      /\ proc'[i].pc = "preflight" => Ahead(i)'
  <2> SUFFICES ASSUME NEW i \in Job, i # j
               PROVE  /\ Recorded(disk'[i]) \/ proc'[i].pc = "authorize" => Clear(i)'
                      /\ proc'[i].pc = "preflight" => Ahead(i)'
    BY <1>10
  <2>1. Recorded(disk'[i]) \/ proc'[i].pc = "authorize" => Clear(i)
    BY <1>2, <1>11 DEF Inv, Clearance
  <2>2. proc'[i].pc = "preflight" => Ahead(i)'
    <3>1. \A n \in Name : Exists(n)' /\ i \in object'[n].older =>
            Exists(n) /\ i \in object[n].older
      BY <1>3, <1>4
    <3> QED BY <1>11, <3>1 DEF Inv, Clearance, Ahead
  <2> QED BY <1>7, <2>1, <2>2
<1>13. Clearance'
  <2>1. DropsNothingOlder'
    BY <1>2 DEF Inv, Clearance, DropsNothingOlder
  <2> QED BY <1>12, <2>1 DEF Clearance, Recorded, Clear, Ahead
<1> QED BY <1>1, <1>5, <1>9, <1>13 DEF Inv

\* A look of the preflight, at least at one name.
LEMMA LooksKeep ==
  ASSUME Inv, NEW j \in Job, Files', UNCHANGED <<object, disk, orphans, harmed>>,
         \A i \in Job : i # j => proc'[i] = proc[i],
         proc'[j].pc = "authorize" => Clear(j),
         proc'[j].pc = "preflight" => Ahead(j)'
  PROVE  Inv'
<1>1. Objects'
  BY DEF Inv, Objects, Object
<1>2. Authority'
  <2>1. Actors' = Actors
    BY DEF Actors, Auth, Recorded, Clear, Exists
  <2>2. \A o \in orphans' : o \in Orphan /\ o.job \in Actors'
    BY <2>1 DEF Inv, Authority
  <2> QED BY <2>2 DEF Inv, Authority, Auth, Recorded, Exists, Orphan, EffectType, Late
<1>3. ASSUME NEW i \in Job, i # j
      PROVE  /\ Recorded(disk'[i]) \/ proc'[i].pc = "authorize" => Clear(i)'
             /\ proc'[i].pc = "preflight" => Ahead(i)'
  BY <1>3 DEF Inv, Clearance, Clear, Ahead, Exists
<1>4. Recorded(disk'[j]) \/ proc'[j].pc = "authorize" => Clear(j)'
  BY DEF Inv, Clearance, Clear, Exists
<1>5. \A i \in Job : /\ Recorded(disk'[i]) \/ proc'[i].pc = "authorize" => Clear(i)'
                     /\ proc'[i].pc = "preflight" => Ahead(i)'
  BY <1>3, <1>4
<1>6. DropsNothingOlder'
  BY DEF Inv, Clearance, DropsNothingOlder
<1>7. Clearance'
  BY <1>5, <1>6 DEF Clearance, Recorded, Clear, Ahead
<1> QED BY <1>1, <1>2, <1>7 DEF Inv

LEMMA VerifySessionKeeps ==
  ASSUME Inv, NEW j \in Job, VerifySession(j)
  PROVE  Inv'
<1>1. Files' /\ UNCHANGED <<object, disk, orphans, harmed>>
  BY VerifySessionFiles DEF Inv, VerifySession, Unchanged
<1>2. /\ proc'[j] = [proc[j] EXCEPT !.pc = "preflight", !.left = PreflightNames]
      /\ \A i \in Job : i # j => proc'[i] = proc[i]
  BY DEF VerifySession, Continue, Inv, Files
<1>3. proc[j] \in ProcType(proc[j].seen)
  BY DEF Inv, Files, ProcOK, Typed
<1>4. proc'[j].pc = "preflight" /\ proc'[j].left = InventoryOrder
  BY <1>2, <1>3 DEF PreflightNames, ProcType
<1>5. \A n \in Name : \E i \in 1..Len(InventoryOrder) : InventoryOrder[i] = n
  <2>1. DOMAIN InventoryOrder = 1..Len(InventoryOrder)
    BY NamesTyped
  <2> QED BY <2>1 DEF Name
<1>6. Ahead(j)'
  BY <1>4, <1>5 DEF Ahead
<1> QED BY <1>1, <1>2, <1>4, <1>6, LooksKeep

LEMMA PreflightKeeps ==
  ASSUME Inv, NEW j \in Job, Preflight(j)
  PROVE  Inv'
<1> DEFINE p == proc[j]
           r == [p EXCEPT !.pc = "authorize", !.left = <<>>]
           t == [p EXCEPT !.left = Tail(@)]
<1>1. Files' /\ UNCHANGED <<object, disk, orphans, harmed>> /\ p.pc = "preflight"
  BY PreflightFiles DEF Inv, Preflight, Inspect, Unchanged, At
<1>2. /\ p \in ProcType(p.seen) /\ p.left \in Seq(Name) /\ p.left # <<>>
      /\ Ahead(j) /\ Files
  BY <1>1 DEF Inv, Files, ProcOK, Typed, ProcType, Clearance
<1>3. CASE Exists(Head(p.left))
  <2>1. Continue(j, Fails(p, FALSE))
    BY <1>3 DEF Preflight, Inspect
  <2>2. PastPreflight
    BY <1>1, <1>2, <2>1, FailsFiles DEF InProof
  <2> QED BY <1>1, <2>2, FilesOnlySteady, QuietKeeps
<1>4. CASE ~Exists(Head(p.left)) /\ Len(p.left) = 1
  <2>1. proc' = [proc EXCEPT ![j] = r]
    BY <1>4 DEF Preflight, Inspect, Continue
  <2>2. r.pc = "authorize"
    BY <1>2 DEF ProcType
  <2> HIDE DEF r
  <2>3. proc'[j].pc = "authorize" /\ \A i \in Job : i # j => proc'[i] = proc[i]
    BY <1>2, <2>1, <2>2 DEF Files
  <2>4. Clear(j)
    <3>1. \A i \in 1..Len(p.left) : p.left[i] = Head(p.left)
      BY <1>2, <1>4
    <3> QED BY <1>2, <1>4, <3>1 DEF Ahead, Clear
  <2> QED BY <1>1, <2>3, <2>4, LooksKeep
<1>5. CASE ~Exists(Head(p.left)) /\ Len(p.left) # 1
  <2>1. proc' = [proc EXCEPT ![j] = t]
    BY <1>5 DEF Preflight, Inspect, Continue
  <2>2. t.pc = "preflight" /\ t.left = Tail(p.left)
    BY <1>1, <1>2 DEF ProcType
  <2> HIDE DEF t
  <2>3. /\ proc'[j].pc = "preflight" /\ proc'[j].left = Tail(p.left)
        /\ \A i \in Job : i # j => proc'[i] = proc[i]
    BY <1>2, <2>1, <2>2 DEF Files
  <2>4. ASSUME NEW i \in 1..Len(p.left), Exists(p.left[i])
        PROVE  \E k \in 1..Len(Tail(p.left)) : Tail(p.left)[k] = p.left[i]
    <3> DEFINE s == p.left
    <3>1. s \in Seq(Name) /\ s # <<>> /\ i \in 1..Len(s) /\ (i = 1 => s[i] = Head(s))
      BY <1>2
    <3>2. i # 1
      BY <1>5, <2>4, <3>1
    <3> HIDE DEF s
    <3>3. i - 1 \in 1..Len(Tail(s)) /\ Tail(s)[i - 1] = s[i]
      BY <3>1, <3>2, HeadTailProperties, LenProperties
    <3> QED BY <3>3 DEF s
  <2>5. Ahead(j)'
    <3> SUFFICES ASSUME NEW n \in Name, Exists(n), j \in object[n].older
                 PROVE  \E k \in 1..Len(Tail(p.left)) : Tail(p.left)[k] = n
      BY <1>1, <2>3 DEF Ahead, Exists
    <3>1. PICK i \in 1..Len(p.left) : p.left[i] = n
      BY <1>2 DEF Ahead
    <3> QED BY <2>4, <3>1
  <2> QED BY <1>1, <2>3, <2>5, LooksKeep
<1> QED BY <1>3, <1>4, <1>5

LEMMA AuthorizeKeeps ==
  ASSUME Inv, NEW j \in Job, Authorize(j)
  PROVE  Inv'
<1>1. /\ Files' /\ PastPreflight /\ Recorded(disk'[j])
      /\ \A i \in Job : i # j => disk'[i] = disk[i]
  BY AuthorizeFiles DEF Inv
<1>2. proc[j].pc = "authorize" /\ UNCHANGED <<object, orphans, harmed>>
  BY DEF Authorize, At
<1>3. Steady
  BY <1>1, <1>2 DEF Steady, Auth, Recorded
<1> QED BY <1>1, <1>2, <1>3, QuietKeeps

LEMMA PreviewKeeps ==
  ASSUME Inv, NEW j \in Job, Preview(j)
  PROVE  Inv'
<1>1. /\ Files' /\ PastPreflight
      /\ \A i \in Job : Recorded(disk'[i]) <=> Recorded(disk[i])
      /\ \A i \in Job : disk'[i] = Torn <=> disk[i] = Torn
  BY PreviewFiles DEF Inv
<1>2. Steady
  BY <1>1 DEF Steady, Auth, Recorded
<1> QED BY <1>1, <1>2, QuietKeeps DEF Preview

LEMMA WriteKeeps ==
  ASSUME Inv, NEW j \in Job, WriteAttestation(j)
  PROVE  Inv'
<1>1. /\ Files' /\ PastPreflight /\ disk[j] # Torn
      /\ Recorded(disk'[j]) <=> Recorded(disk[j])
      /\ \A i \in Job : i # j => disk'[i] = disk[i]
  BY WriteFiles DEF Inv
<1>2. Steady
  BY <1>1 DEF Steady, Auth, Recorded
<1> QED BY <1>1, <1>2, QuietKeeps DEF WriteAttestation

\* What a process does that changes its own state only.
LEMMA AloneKeeps ==
  ASSUME Inv, NEW j \in Job,
         StartCleanupOnly(j) \/ Look(j) \/ IdentifyForCleanup(j) \/ Recheck(j)
  PROVE  Inv'
<1>1. UNCHANGED <<object, disk, orphans, harmed>>
  BY DEF StartCleanupOnly, Look, IdentifyForCleanup, Recheck, Inspect, Unchanged
<1>2. Files' /\ PastPreflight
  BY StartCleanupOnlyFiles, LookFiles, IdentifyFiles, RecheckFiles DEF Inv
<1> QED BY <1>1, <1>2, FilesOnlySteady, QuietKeeps

\* An actor sends a statement.
LEMMA AppliesKeep ==
  ASSUME Inv, Files', Steady, NEW j \in Actors, NEW e \in EffectType, NEW late \in Late,
         Possible(e), Apply(j, e, late), \A o \in orphans' : o \in Orphan /\ o.job \in Actors
  PROVE  Inv'
  BY ApplyByActors, ActorsStay DEF Inv

LEMMA SendKeeps ==
  ASSUME Inv, NEW j \in Job, Send(j)
  PROVE  Inv'
<1> DEFINE p == proc[j]
           e == Head(p.todo)
<1>1. Files' /\ PastPreflight
  BY SendFiles DEF Inv
<1>2. p.pc = "step" /\ p.todo # <<>> /\ disk' = disk /\ orphans' = orphans
  BY DEF Send, At
<1>3. p.todo \in Seq(EffectType)
  BY DEF Inv, Files, ProcOK, Typed, ProcType
<1>4. e \in EffectType
  BY <1>2, <1>3, TailsLeft
<1>5. j \in Actors /\ Steady
  BY <1>1, <1>2, WorkersAct, FilesOnlySteady
<1> HIDE DEF e
<1>6. CASE Possible(e)
  <2>1. Apply(j, e, "no") /\ "no" \in Late
    BY <1>6 DEF Send, e, Late
  <2>2. \A o \in orphans' : o \in Orphan /\ o.job \in Actors
    BY <1>2 DEF Inv, Authority
  <2> QED BY <1>1, <1>4, <1>5, <1>6, <2>1, <2>2, AppliesKeep
<1>7. CASE ~Possible(e)
  <2>1. UNCHANGED <<object, harmed>>
    BY <1>7 DEF Send, e
  <2> QED BY <1>1, <1>2, <1>5, <2>1, QuietKeeps
<1> QED BY <1>6, <1>7

LEMMA DropsTyped ==
  ASSUME NEW n \in Name
  PROVE  Drop(n) \in EffectType /\ Possible(Drop(n))
  BY DEF Drop, Effect, EffectType, Possible

LEMMA DropReservedKeeps ==
  ASSUME Inv, NEW j \in Job, DropReserved(j)
  PROVE  Inv'
<1> DEFINE p == proc[j]
           e == Drop(Head(p.left))
<1>1. Files' /\ PastPreflight
  BY DropReservedFiles DEF Inv
<1>2. p.pc = "drop" /\ disk' = disk /\ orphans' = orphans /\ Apply(j, e, "no")
  BY DEF DropReserved, At
<1>3. p.left \in Seq(Name) /\ p.left # <<>>
  BY <1>2 DEF Inv, Files, ProcOK, Typed, ProcType
<1>4. e \in EffectType /\ Possible(e)
  BY <1>3, TailsLeft, DropsTyped
<1>5. j \in Actors /\ Steady
  BY <1>1, <1>2, WorkersAct, FilesOnlySteady DEF InCleanup
<1>6. \A o \in orphans' : o \in Orphan /\ o.job \in Actors
  BY <1>2 DEF Inv, Authority
<1> HIDE DEF e
<1> QED BY <1>1, <1>2, <1>4, <1>5, <1>6, AppliesKeep DEF Late

\* A process is stopped, and leaves at most the statements it had under way.
LEMMA InFlightTyped ==
  ASSUME Inv, NEW j \in Job, InFlight(proc[j]) # <<>>
  PROVE  j \in Actors /\ InFlight(proc[j]) \in Seq(EffectType)
<1> DEFINE p == proc[j]
<1>1. /\ p.left \in Seq(Name) /\ p.todo \in Seq(EffectType)
      /\ p.pc = "drop" => p.left # <<>>
      /\ p.todo # <<>> => p.pc = "step"
  BY DEF Inv, Files, ProcOK, Typed, ProcType
<1>2. CASE p.pc = "drop"
  <2>1. Drop(Head(p.left)) \in EffectType
    BY <1>1, <1>2, TailsLeft, DropsTyped
  <2> QED BY <1>2, <2>1, WorkersAct DEF InFlight, InCleanup
<1>3. CASE p.pc # "drop"
  BY <1>1, <1>3, WorkersAct DEF InFlight
<1> QED BY <1>2, <1>3

LEMMA AbandonsKeep ==
  ASSUME Inv, NEW j \in Job, Files', PastPreflight, disk' = disk,
         NEW cause \in Late, Abandon(j, cause)
  PROVE  Inv'
<1> DEFINE todo == InFlight(proc[j])
           new == [job |-> j, todo |-> todo, cause |-> cause]
<1>1. /\ orphans' = orphans \cup IF todo = <<>> THEN {} ELSE {new}
      /\ UNCHANGED <<object, harmed>>
  BY DEF Abandon
<1>2. todo # <<>> => j \in Actors /\ todo \in Seq(EffectType)
  BY InFlightTyped
<1> HIDE DEF todo
<1>3. todo # <<>> => new \in Orphan /\ new.job = j
  BY <1>2 DEF Orphan
<1> HIDE DEF new
<1>4. \A o \in orphans' : o \in Orphan /\ o.job \in Actors
  BY <1>1, <1>2, <1>3 DEF Inv, Authority
<1> QED BY <1>1, <1>4, QuietIsByActors, FilesOnlySteady, ActorsStay DEF Inv

LEMMA FaultsKeep ==
  ASSUME Inv, NEW j \in Job, StatementFails(j) \/ StatementTimesOut(j) \/ Interrupt(j)
  PROVE  Inv'
<1>1. disk' = disk
  BY DEF StatementFails, StatementTimesOut, Interrupt
<1>2. Files' /\ PastPreflight
  BY StatementFailsFiles, TimesOutFiles, InterruptFiles DEF Inv
<1>3. PICK cause \in Late : Abandon(j, cause)
  BY DEF StatementFails, StatementTimesOut, Interrupt, Late
<1> QED BY <1>1, <1>2, <1>3, AbandonsKeep

LEMMA KillKeeps ==
  ASSUME Inv, NEW j \in Job, Kill(j)
  PROVE  Inv'
<1> DEFINE todo == InFlight(proc[j])
           new == [job |-> j, todo |-> todo, cause |-> "kill"]
           Forgets(o) == o.job = j /\ o.cause = "timeout" /\ ~(Written(j) /\ disk[j].unknown)
           Later(o) == [o EXCEPT !.cause = "kill"]
<1>1. /\ Files' /\ PastPreflight
      /\ \A i \in Job : disk'[i] = disk[i] \/ disk'[i] = Torn
  BY KillFiles DEF Inv
<1>2. /\ orphans' = (IF todo = <<>> THEN {} ELSE {new}) \cup
                      {IF Forgets(o) THEN Later(o) ELSE o : o \in orphans}
      /\ UNCHANGED <<object, harmed>>
  BY DEF Kill
<1>3. todo # <<>> => j \in Actors /\ todo \in Seq(EffectType)
  BY InFlightTyped
<1>4. \A o \in Orphan : Later(o) \in Orphan /\ Later(o).job = o.job
  BY DEF Orphan, Late
<1> HIDE DEF todo, Forgets, Later
<1>5. todo # <<>> => new \in Orphan /\ new.job = j
  BY <1>3 DEF Orphan, Late
<1> HIDE DEF new
<1>6. ASSUME NEW o \in orphans'
      PROVE  o \in Orphan /\ o.job \in Actors
  <2>1. CASE todo # <<>> /\ o = new
    BY <1>3, <1>5, <2>1
  <2>2. CASE \E old \in orphans : o = old \/ o = Later(old)
    <3>1. PICK old \in orphans : o = old \/ o = Later(old)
      BY <2>2
    <3>2. old \in Orphan /\ old.job \in Actors
      BY DEF Inv, Authority
    <3> QED BY <1>4, <3>1, <3>2
  <2> QED BY <1>2, <2>1, <2>2
<1>7. Steady
  BY <1>1, NoFilesTyped DEF Steady, Auth, Recorded
<1> QED BY <1>1, <1>2, <1>6, <1>7, QuietIsByActors, ActorsStay DEF Inv

\* The processes and the files stay as they are.
LEMMA FilesStay ==
  ASSUME Inv, UNCHANGED <<disk, proc>>
  PROVE  Files' /\ Steady
<1>1. Files'
  BY DEF Inv, Files, File, Attestation, NoFile, Torn
<1>2. PastPreflight
  BY DEF PastPreflight
<1> QED BY <1>1, <1>2, FilesOnlySteady

LEMMA LandsKeeps ==
  ASSUME Inv, NEW o \in orphans, Lands(o)
  PROVE  Inv'
<1> DEFINE e == Head(o.todo)
           rest == Tail(o.todo)
           r == [o EXCEPT !.todo = rest]
<1>1. Files' /\ Steady
  BY FilesStay DEF Lands
<1>2. o \in Orphan /\ o.job \in Actors
  BY DEF Inv, Authority
<1>3. o.todo \in Seq(EffectType) /\ o.todo # <<>> /\ o.cause \in Late
  BY <1>2 DEF Orphan
<1>4. e \in EffectType /\ rest \in Seq(EffectType)
  BY <1>3, TailsLeft
<1>5. orphans' = (orphans \ {o}) \cup IF rest = <<>> \/ ~Possible(e) THEN {} ELSE {r}
  BY DEF Lands
<1>6. IF Possible(e) THEN Apply(o.job, e, o.cause) ELSE UNCHANGED <<object, harmed>>
  BY DEF Lands
<1> HIDE DEF e, rest
<1>7. rest # <<>> => r \in Orphan /\ r.job = o.job
  BY <1>2, <1>4 DEF Orphan
<1> HIDE DEF r
<1>8. \A x \in orphans' : x \in Orphan /\ x.job \in Actors
  BY <1>2, <1>5, <1>7 DEF Inv, Authority
<1>9. CASE Possible(e)
  BY <1>1, <1>2, <1>3, <1>4, <1>6, <1>8, <1>9, AppliesKeep
<1>10. CASE ~Possible(e)
  BY <1>1, <1>6, <1>8, <1>10, QuietIsByActors, ActorsStay DEF Inv
<1> QED BY <1>9, <1>10

\* Others have no attestation, and do not count what was there before.
LEMMA ForeignKeeps ==
  ASSUME Inv, NEW n \in Name, CreateForeign(n) \/ DropForeign(n)
  PROVE  Inv'
<1> DEFINE new == [by |-> Others, older |-> {}, late |-> "no", default |-> 0,
                   production |-> 0, versions |-> IF n \in Agent THEN <<1>> ELSE <<>>]
<1>1. Files' /\ Steady /\ UNCHANGED <<orphans, harmed>>
  BY FilesStay DEF CreateForeign, DropForeign
<1>2. new \in Object /\ new.by = Others /\ new.older = {}
  <2> DEFINE v == IF n \in Agent THEN <<1>> ELSE <<>>
             same == [by |-> Others, older |-> {}, late |-> "no", default |-> 0,
                      production |-> 0, versions |-> v]
  <2>1. v \in Seq(0..2)
    <3>1. <<1>> \in Seq(0..2) /\ <<>> \in Seq(0..2)
      BY EmptySeq
    <3> QED BY <3>1
  <2>2. new = same
    OBVIOUS
  <2> HIDE DEF v, new
  <2>3. same \in Object /\ same.by = Others /\ same.older = {}
    BY <2>1 DEF Object
  <2> QED BY <2>2, <2>3
<1>3. object' = [object EXCEPT ![n] = new] \/ object' = [object EXCEPT ![n] = Absent]
  BY DEF CreateForeign, DropForeign, Fresh, Effect
<1> HIDE DEF new
<1>4. Objects'
  BY <1>2, <1>3 DEF Inv, Objects, Object
<1>5. \A m \in Name : object'[m] \in {object[m], new, Absent}
  BY <1>3 DEF Inv, Objects
<1>6. \A m \in Name : Exists(m)' =>
        \/ Exists(m) /\ object'[m].by = object[m].by /\ object'[m].older = object[m].older
        \/ object'[m].by \in Actors \cup {Others} /\ object'[m].older = {}
  BY <1>2, <1>5 DEF Exists
<1>7. ByActors
  BY <1>1, <1>6 DEF ByActors, Inv, Authority
<1> QED BY <1>1, <1>4, <1>7, ActorsStay DEF Inv

LEMMA InitInv == Init => Inv
<1> SUFFICES ASSUME Init
             PROVE  Inv
  OBVIOUS
<1>1. /\ \A n \in Name : object[n] = Absent
      /\ \A j \in Job : disk[j] = NoFile /\ proc[j] = Idle
      /\ harmed = {} /\ orphans = {}
  BY DEF Init
<1>2. Files
  <2>1. NoFile \in File
    BY DEF File
  <2> QED BY <1>1, <2>1, IdleOK DEF Init, Files
<1>3. Objects /\ Authority
  BY <1>1 DEF Init, Objects, Authority, Exists
<1>4. Clearance
  <2>1. \A j \in Job : proc[j].pc = "idle" /\ Clear(j)
    BY <1>1, IdleTyped DEF Clear, Exists
  <2> QED BY <1>1, <2>1 DEF Clearance, DropsNothingOlder
<1> QED BY <1>2, <1>3, <1>4 DEF Inv

LEMMA NextInv == Inv /\ [Next]_vars => Inv'
<1> SUFFICES ASSUME Inv, [Next]_vars
             PROVE  Inv'
  OBVIOUS
<1>1. CASE UNCHANGED vars
  <2>1. UNCHANGED <<object, disk, proc, orphans, harmed>>
    BY <1>1 DEF vars
  <2> QED BY <2>1, FilesStay, QuietKeeps
<1>2. ASSUME NEW j \in Job, StartProof(j) \/ StartCleanupOnly(j) \/ Preview(j)
      PROVE  Inv'
  BY <1>2, StartProofKeeps, AloneKeeps, PreviewKeeps
<1>3. ASSUME NEW j \in Job, ProofStep(j)
      PROVE  Inv'
  BY <1>3, VerifySessionKeeps, PreflightKeeps, AuthorizeKeeps, SendKeeps, AloneKeeps
     DEF ProofStep
<1>4. ASSUME NEW j \in Job, CleanupStep(j)
      PROVE  Inv'
  BY <1>4, AloneKeeps, DropReservedKeeps, WriteKeeps DEF CleanupStep
<1>5. ASSUME NEW j \in Job, Fault(j)
      PROVE  Inv'
  BY <1>5, FaultsKeep, KillKeeps DEF Fault
<1>6. ASSUME NEW o \in orphans, Lands(o)
      PROVE  Inv'
  BY <1>6, LandsKeeps
<1>7. ASSUME NEW n \in Name, CreateForeign(n) \/ DropForeign(n)
      PROVE  Inv'
  BY <1>7, ForeignKeeps
<1> QED BY <1>1, <1>2, <1>3, <1>4, <1>5, <1>6, <1>7 DEF Next

LEMMA Invariance == Spec => []Inv
  BY InitInv, NextInv, PTL DEF Spec

-----------------------------------------------------------------------------
(* The theorems.                                                               *)

\* The reserved objects, the attestations and the processes are what the model
\* says they are; what is left of a command is never nothing.
THEOREM TypeCorrect == Spec => []TypeOK
<1>1. Inv => TypeOK
  <2> SUFFICES ASSUME Inv
               PROVE  TypeOK
    OBVIOUS
  <2>1. \A n \in Name : object[n] = Absent \/ object[n] \in Object
    BY DEF Inv, Objects
  <2>2. \A j \in Job : disk[j] \in Attestation \cup {NoFile, Torn}
    BY DEF Inv, Files, File
  <2>3. ASSUME NEW j \in Job
        PROVE  /\ proc[j].att \in Attestation
               /\ At(j, "step") => proc[j].step \in DOMAIN Script
               /\ InCleanup(proc[j]) => proc[j].att.authorized
    <3>1. ProcOK(disk[j], proc[j])
      BY DEF Inv, Files
    <3>2. DOMAIN Script = 1..Len(Script)
      BY ScriptTyped
    <3> QED BY <3>1, <3>2 DEF ProcOK, Typed, ProcType, At
  <2>4. \A o \in orphans : o.todo # <<>>
    BY DEF Inv, Authority, Orphan
  <2> QED BY <2>1, <2>2, <2>3, <2>4 DEF TypeOK
<1> QED BY <1>1, Invariance, PTL

\* However many jobs overlap, and whatever outlives its process, nothing that was
\* there before a proof is dropped or replaced on the proof's behalf.
THEOREM OldObjectsAreSafe == Spec => []DropsNothingOlder
<1>1. Inv => DropsNothingOlder
  BY DEF Inv, Clearance
<1> QED BY <1>1, Invariance, PTL

\* Whatever a job made, its attestation authorizes a later cleanup to drop it.
THEOREM CleanupIsPossible == Spec => []MutationsAreAuthorized
<1>1. Inv => MutationsAreAuthorized
  BY DEF Inv, Authority, MutationsAreAuthorized, Auth, Recorded, Written
<1> QED BY <1>1, Invariance, PTL

\* A job that knows of a statement of unknown fate changes no object any more.
THEOREM UnknownStateFreezes == Spec => UnknownFreezes
<1> DEFINE Freeze == \A j \in Job : Unknown(j) /\ proc'[j] # proc[j] => object' = object
<1>1. Inv /\ [Next]_vars => [Freeze]_vars
  <2> SUFFICES ASSUME Inv, Next, NEW j \in Job, Unknown(j), proc'[j] # proc[j]
               PROVE  object' = object
    OBVIOUS
  <2>1. ProcOK(disk[j], proc[j]) /\ (Frozen(disk[j]) <=> Written(j) /\ disk[j].unknown)
    BY DEF Inv, Files, Frozen, Written
  <2>2. ~(InProof(proc[j]) \/ InCleanup(proc[j]))
    BY <2>1 DEF ProcOK, Unknown
  <2>3. CASE \E i \in Job : StartProof(i)
    <3>1. PICK i \in Job : StartProof(i)
      BY <2>3
    <3>2. i = j
      BY <3>1 DEF StartProof, Continue, Inv, Files
    <3>3. disk[j] = NoFile /\ proc[j] = Idle
      BY <2>1, <3>1, <3>2 DEF StartProof, At, ProcOK
    <3>4. Idle.att = NewAttestation("planned")
      BY DEF Idle
    <3>5. ~proc[j].att.unknown
      BY <3>3, <3>4, AttestationsTyped
    <3> QED BY <3>3, <3>5 DEF Unknown, Written
  <2>4. CASE \E i \in Job : Send(i) \/ DropReserved(i)
    <3>1. PICK i \in Job : Send(i) \/ DropReserved(i)
      BY <2>4
    <3>2. i = j
      BY <3>1 DEF Send, DropReserved, Continue, Inv, Files
    <3> QED BY <2>2, <3>1, <3>2 DEF Send, DropReserved, At, InProof, InCleanup
  <2>5. CASE \E i \in Job : StartCleanupOnly(i) \/ Preview(i) \/ VerifySession(i)
               \/ Preflight(i) \/ Authorize(i) \/ Look(i)
    BY <2>5 DEF StartCleanupOnly, Preview, VerifySession, Preflight, Authorize, Look,
                Inspect, Unchanged
  <2>6. CASE \E i \in Job : IdentifyForCleanup(i) \/ Recheck(i) \/ WriteAttestation(i)
               \/ Fault(i)
    BY <2>6 DEF IdentifyForCleanup, Recheck, WriteAttestation, Fault, StatementFails,
                StatementTimesOut, Interrupt, Kill, Abandon, Inspect, Unchanged
  <2>7. CASE proc' = proc
    BY <2>7
  <2> QED BY <2>3, <2>4, <2>5, <2>6, <2>7
          DEF Next, ProofStep, CleanupStep, Lands, CreateForeign, DropForeign
<1> QED BY <1>1, Invariance, PTL DEF Spec, UnknownFreezes
-----------------------------------------------------------------------------
(* What a proof leaves.  A proof is completed when the last of its commands     *)
(* has ended, and those are the two that retire the Agents; it has had no       *)
(* failure then, and nothing of it is under way.  A cleanup is completed when   *)
(* it has found every name free after its own drops.                            *)

\* A cleanup that lost track of a statement does not complete.
Sane(a) == a.unknown => a.cleanup # "completed"

Filed(d) == d \notin {NoFile, Torn}

\* What a process makes of its attestation, and where it is in the script.
Course(d, p) ==
  /\ Sane(p.att) /\ (Filed(d) => Sane(d))
  /\ p.pc # "write" => p.att.cleanup # "completed"
  /\ InProof(p) => p.att.proof # "completed"
  /\ p.pc = "step" => d.proof # "completed" /\ d.cleanup # "completed"
  /\ p.pc = "write" /\ Filed(d) /\ d.unknown => p.att.unknown
  /\ p.pc = "step" /\ p.step \in {22, 23} => p.todo = Sends(Script[p.step])

Retired(d, p) == (Filed(d) /\ d.proof = "completed") \/ p.att.proof = "completed"

Cleaned(d, p) ==
  \/ Filed(d) /\ d.cleanup = "completed"
  \/ p.pc = "write" /\ p.att.cleanup = "completed"

\* A job that cannot complete a cleanup any more.
Doubt(d, p) ==
  \/ d = Torn
  \/ /\ Filed(d) /\ d.cleanup # "completed"
     /\ d.unknown \/ (p.pc = "write" /\ p.att.unknown)

DropsOnly(o) == \A i \in 1..Len(o.todo) : o.todo[i].kind = "drop"

Made(j, n) == Exists(n) /\ object[n].by = j

\* The names that a cleanup has found free, since its own drops.
Rechecked(d, p, n) ==
  Cleaned(d, p) \/ (p.pc = "recheck" /\ \A i \in 1..Len(p.left) : p.left[i] # n)

Closing(j) ==
  LET d == disk[j]
      p == proc[j] IN
  /\ Retired(d, p) => \A n \in Agent : ~Made(j, n)
  /\ p.pc = "step" /\ p.step = 23 => ~Made(j, "agentA")
  /\ \A n \in Name : Made(j, n) /\ Rechecked(d, p, n) => object[n].late \in {"failure", "kill"}
  /\ \A o \in orphans : o.job = j =>
       /\ o.cause # "no" /\ p.pc # "step"
       /\ Retired(d, p) => DropsOnly(o)
       /\ o.cause = "timeout" => DropsOnly(o) \/ Doubt(d, p)

Tight == \A j \in Job : Course(disk[j], proc[j]) /\ Closing(j)

LEMMA ScriptEnds ==
  /\ Len(Script) = 23
  /\ Sends(Script[22]) = << Drop("agentA") >>
  /\ Sends(Script[23]) = << Drop("agentB") >>
<1> DEFINE A == {"agentA"}
           B == {"agentB"}
           CL == Commands \o LifecycleCommands
<1>1. /\ Agent \in SUBSET Agent /\ A \in SUBSET Agent /\ {} \in SUBSET Agent
      /\ B \in SUBSET Agent /\ A # {} /\ B # {}
  BY DEF Agent
<1>2. \A act \in {"local", "deploy", "first", "smoke", "second", "promote", "route", "final"},
        on \in SUBSET Agent, n \in 0..2, k \in 0..2 : Step(act, on, n, k) \in StepType
  BY DEF Step, StepType
<1>3. Commands \in Seq(StepType) /\ Len(Commands) = 6
  <2>1. /\ Local \in StepType /\ Step("deploy", Agent, 1, 0) \in StepType
        /\ Step("first", Agent, 0, 0) \in StepType
        /\ Step("smoke", Agent, 0, 0) \in StepType
        /\ Step("second", Agent, 0, 0) \in StepType
    BY <1>1, <1>2 DEF Local
  <2> QED BY <2>1 DEF Commands
<1>4. LifecycleCommands \in Seq(StepType) /\ Len(LifecycleCommands) = 15
  <2>1. \A n \in 0..2 : /\ Step("promote", A, n, 0) \in StepType
                        /\ Step("deploy", A, n, 0) \in StepType
                        /\ Step("smoke", A, n, 0) \in StepType
    BY <1>1, <1>2
  <2>2. \A n \in 0..2, k \in 0..2 : /\ Step("route", A, n, k) \in StepType
                                    /\ Step("final", A, n, k) \in StepType
    BY <1>1, <1>2
  <2> QED BY <2>1, <2>2 DEF LifecycleCommands
<1>5. /\ GuardedDrops \in Seq(StepType) /\ Len(GuardedDrops) = 2
      /\ GuardedDrops[1] = Step("retire", A, 0, 0)
      /\ GuardedDrops[2] = Step("retire", B, 0, 0)
  <2>1. \A on \in {A, B} : Step("retire", on, 0, 0) \in StepType
    BY <1>1 DEF Step, StepType
  <2> QED BY <2>1 DEF GuardedDrops
<1>6. CL \in Seq(StepType) /\ Len(CL) = 21
  <2>1. CL \in Seq(StepType) /\ Len(CL) = Len(Commands) + Len(LifecycleCommands)
    BY <1>3, <1>4, ConcatProperties, Zenon
  <2> QED BY <1>3, <1>4, <2>1
<1>7. Script = CL \o GuardedDrops
  BY DEF Script
<1> HIDE DEF CL
<1>8. Len(Script) = 23 /\ Script[22] = GuardedDrops[1] /\ Script[23] = GuardedDrops[2]
  <2> DEFINE G == GuardedDrops
  <2> DEFINE s == CL \o G
  <2>1. /\ Len(s) = Len(CL) + Len(G)
        /\ \A i \in 1..(Len(CL) + Len(G)) :
             s[i] = IF i <= Len(CL) THEN CL[i] ELSE G[i - Len(CL)]
    BY <1>5, <1>6, ConcatProperties, Zenon
  <2>2. Len(CL) = 21 /\ Len(G) = 2 /\ Script = s
    BY <1>5, <1>6, <1>7
  <2> HIDE DEF G, s
  <2>3. Len(s) = 23 /\ \A i \in 1..23 : s[i] = IF i <= 21 THEN CL[i] ELSE G[i - 21]
    BY <2>1, <2>2
  <2>5. s[22] = G[1] /\ s[23] = G[2]
    BY <2>3
  <2> QED BY <2>2, <2>3, <2>5 DEF G
<1>9. \A a : (CHOOSE x \in {a} : TRUE) = a
  OBVIOUS
<1>10. \A on : /\ Step("retire", on, 0, 0).act = "retire"
               /\ Step("retire", on, 0, 0).on = on
  BY DEF Step
<1>11. ASSUME NEW s \in StepType, s.act = "retire"
      PROVE  Sends(s) = << Drop(CHOOSE x \in s.on : TRUE) >>
  BY <1>11 DEF Sends
<1>12. /\ Step("retire", A, 0, 0) \in StepType /\ Step("retire", B, 0, 0) \in StepType
  BY <1>1 DEF Step, StepType
<1> QED BY <1>5, <1>8, <1>9, <1>10, <1>11, <1>12

-----------------------------------------------------------------------------
(* What becomes of the attestation of a process on its way out.                *)

LEMMA RecordCleanupAtt ==
  ASSUME NEW p, p \in ProcType(p.seen)
  PROVE  LET r == RecordCleanup(p) IN
         /\ r.att.proof = p.att.proof /\ r.att.unknown = p.att.unknown
         /\ r.att.cleanup \in {"not_authorized", "planned"}
         /\ r.pc \in {"write", "identify"} /\ (p.att.unknown => r.pc = "write")
<1> DEFINE no == [p EXCEPT !.pc = "write", !.att.cleanup = "not_authorized"]
           yes == [p EXCEPT !.pc = "identify", !.att.cleanup = "planned"]
<1>1. p.att \in Attestation
  BY DEF ProcType
<1>2. /\ no.att.proof = p.att.proof /\ no.att.unknown = p.att.unknown
      /\ no.att.cleanup = "not_authorized" /\ no.pc = "write"
      /\ yes.att.proof = p.att.proof /\ yes.att.unknown = p.att.unknown
      /\ yes.att.cleanup = "planned" /\ yes.pc = "identify"
  BY <1>1 DEF Attestation, ProcType
<1>3. RecordCleanup(p) = IF p.att.unknown \/ ~p.att.authorized THEN no ELSE yes
  BY DEF RecordCleanup
<1> HIDE DEF no, yes
<1> QED BY <1>2, <1>3

LEMMA FinallyAtt ==
  ASSUME NEW p, p \in ProcType(p.seen)
  PROVE  LET r == Finally(p) IN
         /\ r.att.proof = p.att.proof /\ r.att.unknown = p.att.unknown
         /\ r.att.cleanup \in {"not_authorized", "planned", p.att.cleanup}
         /\ r.pc \in {"write", "identify"} /\ (p.att.unknown => r.pc = "write")
<1> DEFINE q == [p EXCEPT !.todo = <<>>, !.left = <<>>, !.seen = <<>>, !.step = 1]
           w == [q EXCEPT !.pc = "write"]
<1>1. <<>> \in Seq(EffectType) /\ <<>> \in Seq(Name)
  BY EmptySeq
<1>2. q \in ProcType(q.seen) /\ q.att = p.att
  BY <1>1 DEF ProcType
<1>3. Finally(p) = IF p.clean THEN RecordCleanup(q) ELSE w
  BY DEF Finally
<1> HIDE DEF q
<1>4. w.pc = "write" /\ w.att = q.att
  BY <1>2 DEF ProcType
<1> HIDE DEF w
<1> QED BY <1>2, <1>3, <1>4, RecordCleanupAtt

LEMMA FailsAtt ==
  ASSUME NEW p, Typed(p), InProof(p) \/ InCleanup(p), NEW unknown \in BOOLEAN,
         p.att.cleanup # "completed"
  PROVE  LET r == Fails(p, unknown) IN
         /\ r.att.proof = IF InProof(p) THEN "failed" ELSE p.att.proof
         /\ r.att.unknown <=> (p.att.unknown \/ unknown)
         /\ r.att.cleanup # "completed"
         /\ r.pc \in {"write", "identify"} /\ (unknown => r.pc = "write")
<1> DEFINE known == p.att.unknown \/ unknown
           q == [p EXCEPT !.att.unknown = @ \/ unknown]
           f == [q EXCEPT !.att.proof = "failed"]
           w == [q EXCEPT !.pc = "write", !.left = <<>>, !.failures = FALSE,
                          !.att.cleanup = "failed"]
<1>1. p \in ProcType(p.seen) /\ p.att \in Attestation /\ known \in BOOLEAN
  BY DEF Typed, ProcType
<1>2. Fails(p, unknown) = IF InProof(p) THEN Finally(f) ELSE w
  BY DEF Fails
<1>3. q = [p EXCEPT !.att.unknown = known]
  OBVIOUS
<1>4. unknown => known
  OBVIOUS
<1>5. (p.att.unknown \/ unknown) <=> known
  OBVIOUS
<1> HIDE DEF known, q
<1>6. /\ [p.att EXCEPT !.unknown = known] \in Attestation
      /\ [p.att EXCEPT !.unknown = known].proof = p.att.proof
      /\ [p.att EXCEPT !.unknown = known].cleanup = p.att.cleanup
      /\ [p.att EXCEPT !.unknown = known].unknown = known
  BY <1>1 DEF Attestation
<1>7. /\ q \in ProcType(q.seen) /\ q.att \in Attestation
      /\ q.att.proof = p.att.proof /\ q.att.cleanup = p.att.cleanup /\ q.att.unknown = known
  BY <1>1, <1>3, <1>6 DEF ProcType
<1>8. CASE InProof(p)
  <2>1. /\ [q.att EXCEPT !.proof = "failed"] \in Attestation
        /\ [q.att EXCEPT !.proof = "failed"].unknown = q.att.unknown
        /\ [q.att EXCEPT !.proof = "failed"].cleanup = q.att.cleanup
        /\ [q.att EXCEPT !.proof = "failed"].proof = "failed"
    BY <1>7 DEF Attestation
  <2>2. /\ f \in ProcType(f.seen) /\ f.att.unknown = known
        /\ f.att.cleanup = p.att.cleanup /\ f.att.proof = "failed"
    BY <1>7, <2>1 DEF ProcType
  <2> HIDE DEF f
  <2> QED BY <1>2, <1>4, <1>5, <1>8, <2>2, FinallyAtt
<1>9. CASE ~InProof(p)
  <2>1. /\ w.att.unknown = known /\ w.att.cleanup = "failed" /\ w.att.proof = p.att.proof
        /\ w.pc = "write"
    BY <1>7 DEF Attestation, ProcType
  <2> HIDE DEF w
  <2> QED BY <1>2, <1>5, <1>9, <2>1
<1> QED BY <1>8, <1>9

LEMMA GoToAtt ==
  ASSUME NEW p, p \in ProcType(p.seen), p.pc = "step", NEW i \in Nat \ {0}
  PROVE  LET r == GoTo(p, i) IN
         \/ i <= 23 /\ r.pc = "step" /\ r.step = i /\ r.todo = Sends(Script[i]) /\ r.att = p.att
         \/ /\ i > 23 /\ r.att.proof = "completed" /\ r.att.unknown = p.att.unknown
            /\ r.att.cleanup \in {"not_authorized", "planned", p.att.cleanup}
            /\ r.pc \in {"write", "identify"}
<1> DEFINE f == [p EXCEPT !.att.proof = "completed"]
           g == [p EXCEPT !.step = i, !.todo = Sends(Script[i])]
<1>1. CASE i > 23
  <2>1. p.att \in Attestation
    BY DEF ProcType
  <2>2. /\ [p.att EXCEPT !.proof = "completed"] \in Attestation
        /\ [p.att EXCEPT !.proof = "completed"].unknown = p.att.unknown
        /\ [p.att EXCEPT !.proof = "completed"].cleanup = p.att.cleanup
        /\ [p.att EXCEPT !.proof = "completed"].proof = "completed"
    BY <2>1 DEF Attestation
  <2>3. /\ f \in ProcType(f.seen) /\ f.att.unknown = p.att.unknown
        /\ f.att.cleanup = p.att.cleanup /\ f.att.proof = "completed"
    BY <2>2 DEF ProcType
  <2>4. GoTo(p, i) = Finally(f)
    BY <1>1, ScriptEnds DEF GoTo
  <2> HIDE DEF f
  <2> QED BY <1>1, <2>3, <2>4, FinallyAtt
<1>2. CASE ~(i > 23)
  <2>1. GoTo(p, i) = g
    BY <1>2, ScriptEnds DEF GoTo
  <2>2. g.pc = "step" /\ g.att = p.att /\ g.step = i /\ g.todo = Sends(Script[i])
    BY DEF ProcType
  <2> HIDE DEF g
  <2> QED BY <1>2, <2>1, <2>2
<1> QED BY <1>1, <1>2

LEMMA DroppedAtt ==
  ASSUME NEW p, Typed(p), p.pc = "drop", p.att.cleanup # "completed"
  PROVE  LET r == Dropped(p) IN
         \/ r.pc = "drop" /\ r.att = p.att
         \/ r.pc = "recheck" /\ r.left = InventoryOrder /\ r.att = p.att
         \/ /\ r.pc \in {"write", "identify"} /\ r.att.proof = p.att.proof
            /\ r.att.unknown = p.att.unknown /\ r.att.cleanup # "completed"
<1> DEFINE t == [p EXCEPT !.left = Tail(@)]
           c == [p EXCEPT !.pc = "recheck", !.left = InventoryOrder]
           f == Fails(p, FALSE)
<1>1. Dropped(p) = t \/ Dropped(p) = c \/ Dropped(p) = f
  BY DEF Dropped
<1>2. t.pc = "drop" /\ t.att = p.att
  BY DEF Typed, ProcType
<1>3. c.pc = "recheck" /\ c.att = p.att /\ c.left = InventoryOrder
  BY DEF Typed, ProcType
<1>4. ~InProof(p) /\ InCleanup(p) /\ p.att.unknown \in BOOLEAN
  BY DEF InProof, InCleanup, Typed, ProcType, Attestation
<1>5. /\ f.pc \in {"write", "identify"} /\ f.att.proof = p.att.proof
      /\ f.att.unknown <=> p.att.unknown
      /\ f.att.cleanup # "completed"
  BY <1>4, FailsAtt
<1>6. f.att.unknown \in BOOLEAN
  <2>1. Leaves(p, f)
    BY <1>4, FailsLeaves
  <2> QED BY <2>1 DEF Leaves, Typed, ProcType, Attestation
<1> HIDE DEF t, c, f
<1> QED BY <1>1, <1>2, <1>3, <1>4, <1>5, <1>6

-----------------------------------------------------------------------------
(* What keeps Tight.                                                           *)

\* Nothing of job i comes up, and what is there of it was there.
NoNews(i) ==
  /\ \A n \in Name : Made(i, n)' => Made(i, n) /\ object'[n].late = object[n].late
  /\ \A o \in orphans' : o.job = i =>
       \E q \in orphans : q.job = i /\ q.cause = o.cause /\ (DropsOnly(q) => DropsOnly(o))

LEMMA BystanderKeeps ==
  ASSUME Tight, NEW i \in Job, disk'[i] = disk[i], proc'[i] = proc[i], NoNews(i)
  PROVE  Course(disk'[i], proc'[i]) /\ Closing(i)'
<1> DEFINE d == disk[i]
           p == proc[i]
<1>1. Course(d, p) /\ Closing(i)
  BY DEF Tight
<1>2. Course(disk'[i], proc'[i])
  BY <1>1
<1>3. Retired(d, p) => \A n \in Agent : ~Made(i, n)'
  BY <1>1, NamesTyped DEF Closing, NoNews
<1>4. p.pc = "step" /\ p.step = 23 => ~Made(i, "agentA")'
  <2>1. "agentA" \in Name
    BY NamesTyped DEF Agent
  <2> QED BY <1>1, <2>1 DEF Closing, NoNews
<1>5. \A n \in Name : Made(i, n)' /\ Rechecked(d, p, n) => object'[n].late \in {"failure", "kill"}
  BY <1>1 DEF Closing, NoNews
<1>6. \A o \in orphans' : o.job = i =>
        /\ o.cause # "no" /\ p.pc # "step"
        /\ Retired(d, p) => DropsOnly(o)
        /\ o.cause = "timeout" => DropsOnly(o) \/ Doubt(d, p)
  BY <1>1 DEF Closing, NoNews
<1> QED BY <1>2, <1>3, <1>4, <1>5, <1>6 DEF Closing

\* A job of which there is nothing yet.
LEMMA NewcomerCloses ==
  ASSUME NEW j \in Job, \A n \in Name : ~Made(j, n)', \A o \in orphans' : o.job # j
  PROVE  Closing(j)'
<1>1. "agentA" \in Name
  BY NamesTyped DEF Agent
<1> QED BY <1>1, NamesTyped DEF Closing

\* A step of a process that is not, or no longer, at its script.
LEMMA OwnCloses ==
  ASSUME Tight, NEW j \in Job, proc'[j].pc # "step",
         \A n \in Name : Made(j, n)' => Made(j, n) /\ object'[n].late = object[n].late,
         \A n \in Name : Rechecked(disk'[j], proc'[j], n) =>
           Rechecked(disk[j], proc[j], n) \/ ~Made(j, n),
         Retired(disk'[j], proc'[j]) => Retired(disk[j], proc[j]),
         \A o \in orphans' : o.job = j =>
           \/ /\ \E q \in orphans : q.job = j /\ q.cause = o.cause /\ (DropsOnly(q) => DropsOnly(o))
              /\ Doubt(disk[j], proc[j]) => Doubt(disk'[j], proc'[j])
           \/ /\ o.cause # "no"
              /\ DropsOnly(o) \/ ~Retired(disk'[j], proc'[j])
              /\ o.cause = "timeout" => DropsOnly(o) \/ Doubt(disk'[j], proc'[j])
  PROVE  Closing(j)'
<1> DEFINE d == disk[j]
           p == proc[j]
           e == disk'[j]
           r == proc'[j]
<1>1. Closing(j)
  BY DEF Tight
<1>2. Retired(e, r) => \A n \in Agent : ~Made(j, n)'
  BY <1>1, NamesTyped DEF Closing
<1>3. \A n \in Name : Made(j, n)' /\ Rechecked(e, r, n) => object'[n].late \in {"failure", "kill"}
  BY <1>1 DEF Closing
<1>4. \A o \in orphans' : o.job = j =>
        /\ o.cause # "no"
        /\ Retired(e, r) => DropsOnly(o)
        /\ o.cause = "timeout" => DropsOnly(o) \/ Doubt(e, r)
  BY <1>1 DEF Closing
<1> QED BY <1>2, <1>3, <1>4 DEF Closing

\* On its way out, or through its cleanup, a process keeps its course.
LEMMA CourseOut ==
  ASSUME NEW d, NEW p, NEW r, Course(d, p), ProcOK(d, p), InProof(p) \/ InCleanup(p),
         r.pc \in {"write", "identify", "drop", "recheck", "idle"}, r.att.cleanup # "completed"
  PROVE  Course(d, r)
  BY DEF Course, Sane, InProof, ProcOK, Frozen, Filed

\* One process moves.
LEMMA TightStep ==
  ASSUME Tight, NEW j \in Job,
         \A i \in Job : i # j => disk'[i] = disk[i] /\ proc'[i] = proc[i] /\ NoNews(i),
         Course(disk'[j], proc'[j]), Closing(j)'
  PROVE  Tight'
<1>1. \A i \in Job : Course(disk'[i], proc'[i]) /\ Closing(i)'
  BY BystanderKeeps
<1> QED BY <1>1 DEF Tight, Course, Sane, Filed, InProof

\* No object and no statement changes.
LEMMA QuietNoNews ==
  ASSUME object' = object, orphans' = orphans
  PROVE  \A i \in Job : NoNews(i)
  BY DEF NoNews, Made, Exists

\* A statement changes objects of others only by dropping them.
LEMMA AfterLate ==
  ASSUME Objects, NEW j \in Job, NEW e \in EffectType, NEW late, Possible(e)
  PROVE  LET o == After(j, e, late) IN
         /\ e.kind = "drop" => o = Absent
         /\ o # Absent =>
              \/ e.kind = "create" /\ o.by = j /\ o.late = late
              \/ Exists(e.on) /\ o.by = object[e.on].by /\ o.late = object[e.on].late
<1> DEFINE was == object[e.on]
           o == After(j, e, late)
<1>1. /\ e.on \in Name /\ e.kind \in {"create", "drop", "alias", "default"}
      /\ Exists(e.on) => was \in Object
  BY DEF EffectType, Objects, Exists
<1>2. CASE e.kind = "drop"
  BY <1>2 DEF After
<1>3. CASE e.kind = "alias"
  <2> DEFINE new == [was EXCEPT !.production = e.n]
  <2>1. o = new /\ Exists(e.on)
    BY <1>3 DEF After, Possible
  <2>2. new.by = was.by /\ new.late = was.late
    BY <1>1, <2>1 DEF Object
  <2> QED BY <1>3, <2>1, <2>2
<1>4. CASE e.kind = "default"
  <2> DEFINE new == [was EXCEPT !.default = e.n]
  <2>1. o = new /\ Exists(e.on)
    BY <1>4 DEF After, Possible
  <2>2. new.by = was.by /\ new.late = was.late
    BY <1>1, <2>1 DEF Object
  <2> QED BY <1>4, <2>1, <2>2
<1>5. CASE e.kind = "create" /\ (e.on \notin Agent \/ ~Exists(e.on))
  <2>1. o = Fresh(j, e, late)
    BY <1>5 DEF After
  <2>2. Fresh(j, e, late).by = j /\ Fresh(j, e, late).late = late
    BY DEF Fresh
  <2> QED BY <1>5, <2>1, <2>2
<1>6. CASE e.kind = "create" /\ e.on \in Agent /\ Exists(e.on)
  <2> DEFINE new == [was EXCEPT !.versions = Append(@, e.n)]
  <2>1. o = was \/ o = new
    BY <1>6 DEF After
  <2>2. new.by = was.by /\ new.late = was.late
    BY <1>1, <1>6 DEF Object
  <2> QED BY <1>6, <2>1, <2>2
<1> QED BY <1>1, <1>2, <1>3, <1>4, <1>5, <1>6

LEMMA ApplyNews ==
  ASSUME Objects, NEW j \in Job, NEW e \in EffectType, NEW late, Possible(e),
         Apply(j, e, late)
  PROVE  /\ \A n \in Name : Exists(n)' =>
              \/ e.kind = "create" /\ n = e.on /\ object'[n].by = j /\ object'[n].late = late
              \/ Exists(n) /\ object'[n].by = object[n].by /\ object'[n].late = object[n].late
         /\ e.kind = "drop" => object'[e.on] = Absent
<1> DEFINE o == After(j, e, late)
<1>1. /\ e.kind = "drop" => o = Absent
      /\ o # Absent =>
           \/ e.kind = "create" /\ o.by = j /\ o.late = late
           \/ Exists(e.on) /\ o.by = object[e.on].by /\ o.late = object[e.on].late
  BY AfterLate
<1>2. object' = [object EXCEPT ![e.on] = o] /\ e.on \in Name
  BY DEF Apply, EffectType
<1> HIDE DEF o
<1>3. object'[e.on] = o /\ \A n \in Name : n # e.on => object'[n] = object[n]
  BY <1>2 DEF Objects
<1> QED BY <1>1, <1>2, <1>3 DEF Exists

\* Nothing of a job is there before its authorization.
LEMMA NothingBefore ==
  ASSUME Inv, NEW j \in Job, disk[j] = NoFile
  PROVE  (\A n \in Name : ~Made(j, n)) /\ (\A o \in orphans : o.job # j)
<1>1. ~Auth(j)
  BY NoFilesTyped DEF Auth, Recorded
<1> QED BY <1>1 DEF Inv, Authority, Actors, Made

LEMMA AloneMoves ==
  ASSUME Inv, NEW j \in Job, NEW r, Continue(j, r)
  PROVE  proc'[j] = r /\ \A i \in Job : i # j => proc'[i] = proc[i]
  BY DEF Continue, Inv, Files

LEMMA IdleCourse ==
  /\ Idle.att.proof = "planned" /\ Idle.att.cleanup = "not_requested"
  /\ ~Idle.att.unknown /\ Idle.pc = "idle"
<1> QED BY DEF Idle, NewAttestation

LEMMA StartProofTight ==
  ASSUME Inv, Tight, NEW j \in Job, StartProof(j)
  PROVE  Tight'
<1> DEFINE c == j \in WithCleanup
           r == [Idle EXCEPT !.pc = "session", !.clean = c]
<1>1. /\ disk' = disk /\ disk[j] = NoFile /\ orphans' = orphans /\ Continue(j, r)
      /\ \A n \in Name : object'[n] = IF Exists(n)
                                      THEN [object[n] EXCEPT !.older = @ \cup {j}] ELSE Absent
  BY DEF StartProof
<1> HIDE DEF c
<1>2. r.pc = "session" /\ r.att = Idle.att
  BY DEF Idle
<1> HIDE DEF r
<1>3. /\ proc'[j] = r /\ \A i \in Job : i # j => proc'[i] = proc[i]
  BY <1>1, AloneMoves
<1>4. \A i \in Job, n \in Name : Made(i, n)' => Made(i, n) /\ object'[n].late = object[n].late
  <2> SUFFICES ASSUME NEW i \in Job, NEW n \in Name, Made(i, n)'
               PROVE  Made(i, n) /\ object'[n].late = object[n].late
    OBVIOUS
  <2>1. Exists(n) /\ object'[n] = [object[n] EXCEPT !.older = @ \cup {j}]
    BY <1>1 DEF Made, Exists
  <2>2. object[n] \in Object
    BY <2>1 DEF Inv, Objects, Exists
  <2>3. object'[n].by = object[n].by /\ object'[n].late = object[n].late
    BY <2>1, <2>2 DEF Object
  <2> QED BY <2>1, <2>3 DEF Made
<1>5. \A i \in Job : NoNews(i)
  BY <1>1, <1>4 DEF NoNews
<1>6. Closing(j)'
  <2>1. (\A n \in Name : ~Made(j, n)) /\ (\A o \in orphans : o.job # j)
    BY <1>1, NothingBefore
  <2> QED BY <1>1, <1>4, <2>1, NewcomerCloses
<1>7. Course(disk'[j], proc'[j])
  BY <1>1, <1>2, <1>3, IdleCourse DEF Course, Sane, Filed
<1> QED BY <1>1, <1>3, <1>5, <1>6, <1>7, TightStep

LEMMA PreviewTight ==
  ASSUME Inv, Tight, NEW j \in Job, Preview(j)
  PROVE  Tight'
<1>1. disk[j] = NoFile /\ proc[j].pc = "idle" /\ UNCHANGED <<object, proc, orphans>>
  BY DEF Preview, At
<1>2. PICK proof \in {"planned", "not_started"}, cleanup \in {"not_requested", "planned"} :
        disk' = [disk EXCEPT ![j] = [NewAttestation(proof) EXCEPT !.cleanup = cleanup]]
  BY DEF Preview
<1> DEFINE d == [NewAttestation(proof) EXCEPT !.cleanup = cleanup]
<1>3. ~d.unknown
  BY DEF NewAttestation
<1>4. disk'[j] = d /\ \A i \in Job : i # j => disk'[i] = disk[i]
  BY <1>2 DEF Inv, Files
<1> HIDE DEF d
<1>5. \A i \in Job : NoNews(i)
  BY <1>1, QuietNoNews
<1>6. Closing(j)'
  <2>1. (\A n \in Name : ~Made(j, n)) /\ (\A o \in orphans : o.job # j)
    BY <1>1, NothingBefore
  <2> QED BY <1>1, <2>1, NewcomerCloses DEF Made, Exists
<1>7. Course(disk'[j], proc'[j])
  BY <1>1, <1>3, <1>4 DEF Tight, Course, Sane, InProof
<1> QED BY <1>1, <1>4, <1>5, <1>6, <1>7, TightStep

\* A step before the authorization, which leaves files and objects alone.
LEMMA EarlyTight ==
  ASSUME Inv, Tight, NEW j \in Job, NEW r, disk[j] = NoFile, Continue(j, r),
         UNCHANGED <<object, disk, orphans>>, Course(disk[j], r)
  PROVE  Tight'
<1>1. /\ proc'[j] = r /\ \A i \in Job : i # j => proc'[i] = proc[i]
  BY AloneMoves
<1>2. \A i \in Job : NoNews(i)
  BY QuietNoNews
<1>3. Closing(j)'
  <2>1. (\A n \in Name : ~Made(j, n)) /\ (\A o \in orphans : o.job # j)
    BY NothingBefore
  <2> QED BY <2>1, NewcomerCloses DEF Made, Exists
<1> QED BY <1>1, <1>2, <1>3, TightStep

LEMMA VerifySessionTight ==
  ASSUME Inv, Tight, NEW j \in Job, VerifySession(j)
  PROVE  Tight'
<1> DEFINE p == proc[j]
           r == [p EXCEPT !.pc = "preflight", !.left = PreflightNames]
<1>1. p.pc = "session" /\ Continue(j, r) /\ UNCHANGED <<object, disk, orphans>>
  BY DEF VerifySession, Unchanged, At
<1>2. Course(disk[j], p) /\ ProcOK(disk[j], p)
  BY DEF Inv, Files, Tight
<1>3. disk[j] = NoFile
  BY <1>1, <1>2 DEF ProcOK
<1>4. r.pc = "preflight" /\ r.att = p.att
  BY <1>2 DEF ProcOK, Typed, ProcType
<1> HIDE DEF r
<1>5. Course(disk[j], r)
  BY <1>1, <1>2, <1>3, <1>4 DEF Course, InProof, Filed
<1> QED BY <1>1, <1>3, <1>5, EarlyTight

LEMMA PreflightTight ==
  ASSUME Inv, Tight, NEW j \in Job, Preflight(j)
  PROVE  Tight'
<1> DEFINE p == proc[j]
           f == Fails(p, FALSE)
           a == [p EXCEPT !.pc = "authorize", !.left = <<>>]
           t == [p EXCEPT !.left = Tail(@)]
<1>1. /\ p.pc = "preflight" /\ UNCHANGED <<object, disk, orphans>>
      /\ Continue(j, f) \/ Continue(j, a) \/ Continue(j, t)
  BY DEF Preflight, Inspect, Unchanged, At
<1>2. Course(disk[j], p) /\ ProcOK(disk[j], p) /\ Typed(p) /\ InProof(p)
  BY <1>1 DEF Inv, Files, Tight, ProcOK, InProof
<1>3. disk[j] = NoFile
  BY <1>1, <1>2 DEF ProcOK
<1>4. a.pc = "authorize" /\ a.att = p.att /\ t.pc = "preflight" /\ t.att = p.att
  BY <1>1, <1>2 DEF Typed, ProcType
<1>5. f.att.cleanup # "completed" /\ f.pc \in {"write", "identify"}
  BY <1>1, <1>2, FailsAtt DEF Course
<1> HIDE DEF a, t, f
<1>6. Course(disk[j], f)
  BY <1>2, <1>5, CourseOut
<1>7. Course(disk[j], a) /\ Course(disk[j], t)
  BY <1>2, <1>3, <1>4 DEF Course, InProof, Filed
<1> QED BY <1>1, <1>3, <1>6, <1>7, EarlyTight

LEMMA AuthorizeTight ==
  ASSUME Inv, Tight, NEW j \in Job, Authorize(j)
  PROVE  Tight'
<1> DEFINE p == proc[j]
           d == [p.att EXCEPT !.authorized = TRUE]
           q == [p EXCEPT !.pc = "step", !.att.authorized = TRUE]
           r == GoTo(q, 1)
<1>1. /\ p.pc = "authorize" /\ disk' = [disk EXCEPT ![j] = q.att] /\ Continue(j, r)
      /\ UNCHANGED <<object, orphans>>
  BY DEF Authorize, At
<1>2. /\ Course(disk[j], p) /\ ProcOK(disk[j], p) /\ p \in ProcType(p.seen)
      /\ p.att \in Attestation /\ InProof(p)
  BY <1>1 DEF Inv, Files, Tight, ProcOK, Typed, ProcType, InProof
<1>3. disk[j] = NoFile
  BY <1>1, <1>2 DEF ProcOK
<1> HIDE DEF p
<1>4. /\ d \in Attestation /\ d.proof = p.att.proof /\ d.cleanup = p.att.cleanup
      /\ d.unknown = p.att.unknown
  BY <1>2 DEF Attestation
<1>5. q \in ProcType(q.seen) /\ q.pc = "step" /\ q.att = d
  BY <1>2, <1>4 DEF ProcType
<1> HIDE DEF q
<1>6. r.pc = "step" /\ r.step = 1 /\ r.att = d
  BY <1>5, GoToAtt
<1> HIDE DEF r, d
<1>7. disk'[j] = d /\ \A i \in Job : i # j => disk'[i] = disk[i]
  BY <1>1, <1>5 DEF Inv, Files
<1>8. proc'[j] = r /\ \A i \in Job : i # j => proc'[i] = proc[i]
  BY <1>1, AloneMoves
<1>9. \A i \in Job : NoNews(i)
  BY <1>1, QuietNoNews
<1>10. Closing(j)'
  <2>1. (\A n \in Name : ~Made(j, n)) /\ (\A o \in orphans : o.job # j)
    BY <1>3, NothingBefore
  <2> QED BY <1>1, <2>1, NewcomerCloses DEF Made, Exists
<1>11. Course(d, r)
  BY <1>1, <1>2, <1>4, <1>6 DEF Course, Sane
<1> QED BY <1>7, <1>8, <1>9, <1>10, <1>11, TightStep

\* A step of the script.
LEMMA StepCloses ==
  ASSUME Inv, Tight, NEW j \in Job, proc[j].pc = "step", disk' = disk, orphans' = orphans,
         proc'[j].pc = "step" /\ proc'[j].step = 23 => ~Made(j, "agentA")',
         Retired(disk[j], proc'[j]) => \A n \in Agent : ~Made(j, n)',
         proc'[j].pc # "recheck", proc'[j].att.cleanup # "completed"
  PROVE  Closing(j)'
<1>1. /\ disk[j].cleanup # "completed"
      /\ \A o \in orphans : o.job # j
  BY DEF Tight, Course, Closing
<1>2. \A n \in Name : ~Rechecked(disk'[j], proc'[j], n)
  BY <1>1 DEF Rechecked, Cleaned
<1> QED BY <1>1, <1>2 DEF Closing

LEMMA ScriptState ==
  ASSUME Inv, Tight, NEW j \in Job, proc[j].pc = "step"
  PROVE  LET p == proc[j]
             d == disk[j] IN
         /\ Course(d, p) /\ ProcOK(d, p) /\ Typed(p) /\ p \in ProcType(p.seen) /\ InProof(p)
         /\ p.step \in 1..23 /\ p.att.proof # "completed" /\ p.att.cleanup # "completed"
         /\ ~Retired(d, p)
<1> DEFINE p == proc[j]
           d == disk[j]
<1>1. Course(d, p) /\ ProcOK(d, p) /\ Typed(p) /\ p \in ProcType(p.seen) /\ InProof(p)
  BY DEF Inv, Files, Tight, ProcOK, Typed, InProof
<1>2. p.step \in 1..23
  BY <1>1, ScriptEnds DEF Typed
<1> QED BY <1>1, <1>2 DEF Course, Retired

LEMMA GoToCourse ==
  ASSUME NEW d, NEW p, NEW q, NEW i \in Nat \ {0}, Course(d, p), ProcOK(d, p),
         p.pc = "step", q \in ProcType(q.seen), q.pc = "step", q.att = p.att
  PROVE  /\ Course(d, GoTo(q, i)) /\ GoTo(q, i).att.cleanup # "completed"
         /\ GoTo(q, i).pc # "recheck"
<1> DEFINE r == GoTo(q, i)
<1>1. \/ i <= 23 /\ r.pc = "step" /\ r.step = i /\ r.todo = Sends(Script[i]) /\ r.att = q.att
      \/ /\ i > 23 /\ r.att.proof = "completed" /\ r.att.unknown = q.att.unknown
         /\ r.att.cleanup \in {"not_authorized", "planned", q.att.cleanup}
         /\ r.pc \in {"write", "identify"}
  BY GoToAtt
<1> HIDE DEF r
<1>2. p.att.cleanup # "completed" /\ InProof(p)
  BY DEF Course, InProof
<1>3. CASE i <= 23 /\ r.pc = "step" /\ r.step = i /\ r.todo = Sends(Script[i]) /\ r.att = q.att
  <2>1. Course(d, r)
    BY <1>3 DEF Course, InProof
  <2> QED BY <1>2, <1>3, <2>1 DEF r
<1>4. CASE /\ r.att.cleanup \in {"not_authorized", "planned", q.att.cleanup}
           /\ r.pc \in {"write", "identify"}
  <2>1. Course(d, r)
    BY <1>2, <1>4, CourseOut
  <2> QED BY <1>2, <1>4, <2>1 DEF r
<1> QED BY <1>1, <1>3, <1>4

\* The last two commands drop the Agents.
LEMMA SendTight ==
  ASSUME Inv, Tight, NEW j \in Job, Send(j)
  PROVE  Tight'
<1> DEFINE p == proc[j]
           e == Head(p.todo)
           f == Fails(p, FALSE)
           g == GoTo(p, p.step + 1)
           t == [p EXCEPT !.todo = Tail(@)]
<1>1. p.pc = "step" /\ p.todo # <<>> /\ disk' = disk /\ orphans' = orphans
  BY DEF Send, At
<1>2. /\ Course(disk[j], p) /\ ProcOK(disk[j], p) /\ Typed(p) /\ p \in ProcType(p.seen)
      /\ InProof(p) /\ p.step \in 1..23
      /\ p.att.proof # "completed" /\ p.att.cleanup # "completed" /\ ~Retired(disk[j], p)
  BY <1>1, ScriptState
<1>3. p.todo \in Seq(EffectType) /\ e \in EffectType
  <2>1. p.todo \in Seq(EffectType)
    BY <1>2 DEF ProcType
  <2> QED BY <1>1, <2>1, TailsLeft
<1>4. CASE ~Possible(e)
  <2>1. Continue(j, f) /\ object' = object
    BY <1>4 DEF Send
  <2>2. f.att.proof = "failed" /\ f.att.cleanup # "completed" /\ f.pc \in {"write", "identify"}
    BY <1>2, FailsAtt
  <2> HIDE DEF f
  <2>3. proc'[j] = f /\ \A i \in Job : i # j => proc'[i] = proc[i]
    BY <2>1, AloneMoves
  <2>4. Course(disk'[j], proc'[j])
    BY <1>1, <1>2, <2>2, <2>3, CourseOut
  <2>5. ~Retired(disk[j], f)
    BY <1>2, <2>2 DEF Retired
  <2>6. Closing(j)'
    BY <1>1, <2>2, <2>3, <2>5, StepCloses
  <2> QED BY <1>1, <2>1, <2>3, <2>4, <2>6, QuietNoNews, TightStep
<1>5. CASE Possible(e)
  <2>1. Apply(j, e, "no")
    BY <1>5 DEF Send
  <2>2. /\ \A n \in Name : Exists(n)' =>
             \/ e.kind = "create" /\ n = e.on /\ object'[n].by = j /\ object'[n].late = "no"
             \/ Exists(n) /\ object'[n].by = object[n].by /\ object'[n].late = object[n].late
        /\ e.kind = "drop" => object'[e.on] = Absent
    <3>1. Objects
      BY DEF Inv
    <3> HIDE DEF e
    <3> QED BY <1>3, <1>5, <2>1, <3>1, ApplyNews
  <2>3. \A i \in Job : i # j => NoNews(i)
    BY <1>1, <2>2 DEF NoNews, Made
  <2>4. e.kind = "drop" => \A n \in Name : Made(j, n)' => Made(j, n)
    BY <2>2 DEF Made
  <2>5. CASE Len(p.todo) = 1
    <3>1. Continue(j, g)
      BY <1>5, <2>5 DEF Send
    <3>2. p.step + 1 \in Nat \ {0}
      BY <1>2
    <3>3. /\ Course(disk[j], g) /\ g.att.cleanup # "completed" /\ g.pc # "recheck"
      BY <1>1, <1>2, <3>2, GoToCourse
    <3>4. \/ p.step + 1 <= 23 /\ g.pc = "step" /\ g.step = p.step + 1 /\ g.att = p.att
          \/ p.step + 1 > 23 /\ g.pc \in {"write", "identify"}
      BY <1>1, <1>2, <3>2, GoToAtt
    <3> HIDE DEF g
    <3>5. proc'[j] = g /\ \A i \in Job : i # j => proc'[i] = proc[i]
      BY <3>1, AloneMoves
    <3>6. p.step = 22 => e = Drop("agentA")
      BY <1>1, <1>2, ScriptEnds DEF Course
    <3>7. p.step = 23 => e = Drop("agentB")
      BY <1>1, <1>2, ScriptEnds DEF Course
    <3>8. \A n : Drop(n).kind = "drop" /\ Drop(n).on = n
      BY DEF Drop, Effect
    <3> HIDE DEF e
    <3>9. g.pc = "step" /\ g.step = 23 => ~Made(j, "agentA")'
      <4>1. g.pc = "step" /\ g.step = 23 => p.step = 22
        BY <1>2, <3>4
      <4> QED BY <2>2, <3>6, <3>8, <4>1 DEF Made, Exists
    <3>10. ASSUME Retired(disk[j], g) PROVE \A n \in Agent : ~Made(j, n)'
      <4>1. p.step = 23
        <5>1. p.step + 1 > 23
          BY <1>2, <3>4, <3>10 DEF Retired
        <5> QED BY <1>2, <5>1
      <4>2. ~Made(j, "agentA") /\ "agentA" \in Name
        BY <1>1, <4>1, NamesTyped DEF Tight, Closing, Agent
      <4>3. ~Made(j, "agentA")' /\ ~Made(j, "agentB")'
        BY <2>2, <2>4, <3>7, <3>8, <4>1, <4>2 DEF Made, Exists
      <4> QED BY <4>3 DEF Agent
    <3>11. Closing(j)'
      BY <1>1, <3>3, <3>5, <3>9, <3>10, StepCloses
    <3> QED BY <1>1, <2>3, <3>3, <3>5, <3>11, TightStep
  <2>6. CASE Len(p.todo) # 1
    <3>1. Continue(j, t)
      BY <1>5, <2>6 DEF Send
    <3>2. t.pc = "step" /\ t.step = p.step /\ t.att = p.att
      BY <1>1, <1>2 DEF ProcType
    <3> HIDE DEF t
    <3>3. p.step \notin {22, 23}
      <4>1. \A x : Len(<<x>>) = 1
        OBVIOUS
      <4> QED BY <1>1, <1>2, <2>6, <4>1, ScriptEnds DEF Course
    <3>4. proc'[j] = t /\ \A i \in Job : i # j => proc'[i] = proc[i]
      BY <3>1, AloneMoves
    <3>5. Course(disk[j], t)
      BY <1>1, <1>2, <3>2, <3>3 DEF Course, InProof
    <3>6. ~Retired(disk[j], t)
      BY <1>2, <3>2 DEF Retired
    <3>7. Closing(j)'
      BY <1>1, <1>2, <3>2, <3>3, <3>4, <3>6, StepCloses
    <3> QED BY <1>1, <2>3, <3>4, <3>5, <3>7, TightStep
  <2> QED BY <2>5, <2>6
<1> QED BY <1>4, <1>5

LEMMA LookTight ==
  ASSUME Inv, Tight, NEW j \in Job, Look(j)
  PROVE  Tight'
<1> DEFINE p == proc[j]
           step == Script[p.step]
           seen == CASE step.act = "first" -> [a \in step.on |-> Observed(a)]
                     [] step.act = "second" -> <<>>
                     [] OTHER -> p.seen
           q == [p EXCEPT !.seen = seen]
           f == Fails(p, FALSE)
           g == GoTo(q, p.step + 1)
<1>1. /\ p.pc = "step" /\ p.todo = <<>> /\ UNCHANGED <<object, disk, orphans>>
  BY DEF Look, At, Unchanged
<1>2. Continue(j, IF Holds(p, step) THEN g ELSE f)
  BY DEF Look
<1>3. /\ Course(disk[j], p) /\ ProcOK(disk[j], p) /\ Typed(p) /\ p \in ProcType(p.seen)
      /\ InProof(p) /\ p.step \in 1..23
      /\ p.att.proof # "completed" /\ p.att.cleanup # "completed" /\ ~Retired(disk[j], p)
  BY <1>1, ScriptState
<1>4. p.step \notin {22, 23}
  <2>1. \A x : <<x>> # <<>>
    OBVIOUS
  <2> QED BY <1>1, <1>3, <2>1, ScriptEnds DEF Course
<1>5. p.step + 1 \in Nat \ {0} /\ p.step + 1 < 23
  BY <1>3, <1>4
<1> HIDE DEF seen, step
<1>6. q \in ProcType(q.seen) /\ q.pc = "step" /\ q.att = p.att
  BY <1>1, <1>3 DEF ProcType
<1> HIDE DEF q
<1>7. /\ Course(disk[j], g) /\ g.att.cleanup # "completed" /\ g.pc # "recheck"
  BY <1>1, <1>3, <1>5, <1>6, GoToCourse
<1>8. g.pc = "step" /\ g.step # 23 /\ g.att = p.att
  BY <1>5, <1>6, GoToAtt
<1>9. f.att.proof = "failed" /\ f.att.cleanup # "completed" /\ f.pc \in {"write", "identify"}
  BY <1>3, FailsAtt
<1> HIDE DEF f, g
<1>10. Course(disk[j], f)
  BY <1>3, <1>9, CourseOut
<1>11. ~Retired(disk[j], f) /\ ~Retired(disk[j], g)
  BY <1>3, <1>8, <1>9 DEF Retired
<1>12. ASSUME NEW r \in {f, g}, Continue(j, r) PROVE Tight'
  <2>1. proc'[j] = r /\ \A i \in Job : i # j => proc'[i] = proc[i]
    BY <1>12, AloneMoves
  <2>2. Closing(j)'
    BY <1>1, <1>7, <1>8, <1>9, <1>11, <2>1, StepCloses
  <2> QED BY <1>1, <1>7, <1>10, <2>1, <2>2, QuietNoNews, TightStep
<1> QED BY <1>2, <1>12

\* A process leaves its script, or goes on with its cleanup, and does not complete it.
LEMMA OutTight ==
  ASSUME Inv, Tight, NEW j \in Job, NEW r, Continue(j, r), disk' = disk,
         InProof(proc[j]) \/ InCleanup(proc[j]),
         r.pc \in {"write", "identify", "drop", "recheck", "idle"},
         r.att.cleanup # "completed",
         r.att.proof = "completed" => proc[j].att.proof = "completed",
         \A i \in Job, n \in Name : Made(i, n)' => Made(i, n) /\ object'[n].late = object[n].late,
         r.pc = "recheck" => \A n \in Name : (\A i \in 1..Len(r.left) : r.left[i] # n) =>
                               Rechecked(disk[j], proc[j], n) \/ ~Made(j, n),
         \A o \in orphans' :
           \/ o \in orphans
           \/ /\ o.job = j /\ o.cause # "no"
              /\ DropsOnly(o) \/ ~Retired(disk[j], r)
              /\ o.cause = "timeout" => DropsOnly(o) \/ Doubt(disk[j], r)
  PROVE  Tight'
<1> DEFINE d == disk[j]
           p == proc[j]
<1>1. Course(d, p) /\ ProcOK(d, p)
  BY DEF Inv, Files, Tight
<1>2. proc'[j] = r /\ \A i \in Job : i # j => proc'[i] = proc[i]
  BY AloneMoves
<1>3. \A i \in Job : i # j => NoNews(i)
  BY DEF NoNews
<1>4. Course(d, r)
  BY <1>1, CourseOut
<1>5. p.pc # "write"
  BY DEF InProof, InCleanup
<1>6. \A n \in Name : Rechecked(d, r, n) => Rechecked(d, p, n) \/ ~Made(j, n)
  BY DEF Rechecked, Cleaned
<1>7. Retired(d, r) => Retired(d, p)
  BY DEF Retired
<1>8. Doubt(d, p) => Doubt(d, r)
  BY <1>5 DEF Doubt
<1>9. \A o \in orphans' : o.job = j =>
        \/ /\ \E q \in orphans : q.job = j /\ q.cause = o.cause /\ (DropsOnly(q) => DropsOnly(o))
           /\ Doubt(d, p) => Doubt(d, r)
        \/ /\ o.cause # "no"
           /\ DropsOnly(o) \/ ~Retired(d, r)
           /\ o.cause = "timeout" => DropsOnly(o) \/ Doubt(d, r)
  BY <1>8
<1>10. Closing(j)'
  BY <1>2, <1>6, <1>7, <1>9, OwnCloses
<1> QED BY <1>2, <1>3, <1>4, <1>10, TightStep

LEMMA SameMade ==
  ASSUME object' = object
  PROVE  \A i \in Job, n \in Name : Made(i, n)' => Made(i, n) /\ object'[n].late = object[n].late
  BY DEF Made, Exists

LEMMA StartCleanupOnlyTight ==
  ASSUME Inv, Tight, NEW j \in Job, StartCleanupOnly(j)
  PROVE  Tight'
<1> DEFINE d == disk[j]
           a == IF d = NoFile THEN NewAttestation("not_started") ELSE d
           q == [Idle EXCEPT !.only = TRUE, !.clean = TRUE, !.att = a]
           r == RecordCleanup(q)
<1>1. /\ proc[j].pc = "idle" /\ d # Torn /\ UNCHANGED <<object, disk, orphans>>
      /\ Continue(j, r)
  BY DEF StartCleanupOnly, At
<1>2. Course(d, proc[j]) /\ d \in File
  BY DEF Inv, Files, Tight
<1>3. /\ a \in Attestation
      /\ a.proof = "completed" => Filed(d) /\ d.proof = "completed"
      /\ Filed(d) => a = d
  <2>1. /\ NewAttestation("not_started") \in Attestation
        /\ NewAttestation("not_started").proof = "not_started"
    BY AttestationsTyped DEF NewAttestation
  <2> HIDE DEF NewAttestation
  <2> QED BY <1>1, <1>2, <2>1 DEF File, Filed
<1> HIDE DEF a
<1>4. q \in ProcType(q.seen) /\ q.att = a
  <2>1. Idle \in ProcType(Idle.seen)
    BY IdleTyped DEF Typed
  <2> QED BY <1>3, <2>1 DEF ProcType
<1> HIDE DEF q
<1>5. /\ r.att.proof = a.proof /\ r.att.unknown = a.unknown
      /\ r.att.cleanup \in {"not_authorized", "planned"}
      /\ r.pc \in {"write", "identify"}
  BY <1>4, RecordCleanupAtt
<1> HIDE DEF r
<1>6. proc'[j] = r /\ \A i \in Job : i # j => proc'[i] = proc[i]
  BY <1>1, AloneMoves
<1>7. Course(d, r)
  BY <1>2, <1>3, <1>5 DEF Course, Sane, InProof
<1>8. \A n \in Name : Rechecked(d, r, n) => Rechecked(d, proc[j], n)
  BY <1>5 DEF Rechecked, Cleaned
<1>9. Retired(d, r) => Retired(d, proc[j])
  BY <1>3, <1>5 DEF Retired
<1>10. Doubt(d, proc[j]) => Doubt(d, r)
  BY <1>1 DEF Doubt
<1>11. Closing(j)'
  BY <1>1, <1>5, <1>6, <1>8, <1>9, <1>10, SameMade, OwnCloses
<1> QED BY <1>1, <1>6, <1>7, <1>11, QuietNoNews, TightStep

LEMMA IdentifyTight ==
  ASSUME Inv, Tight, NEW j \in Job, IdentifyForCleanup(j)
  PROVE  Tight'
<1> DEFINE p == proc[j]
           r == [p EXCEPT !.pc = "drop", !.left = CleanupOrder]
<1>1. p.pc = "identify" /\ UNCHANGED <<object, disk, orphans>> /\ Continue(j, r)
  BY DEF IdentifyForCleanup, At, Unchanged
<1>2. Course(disk[j], p) /\ Typed(p) /\ InCleanup(p)
  BY <1>1 DEF Inv, Files, Tight, ProcOK, InCleanup
<1>3. r.pc = "drop" /\ r.att = p.att
  BY <1>2 DEF Typed, ProcType
<1> HIDE DEF r
<1>4. r.att.cleanup # "completed"
  BY <1>1, <1>2, <1>3 DEF Course
<1> QED BY <1>1, <1>2, <1>3, <1>4, SameMade, OutTight

\* Every name is on the list that the cleanup rechecks.
LEMMA AllInventoried ==
  \A n \in Name : \E i \in 1..Len(InventoryOrder) : InventoryOrder[i] = n
  BY DEF Name, InventoryOrder

LEMMA DropReservedTight ==
  ASSUME Inv, Tight, NEW j \in Job, DropReserved(j)
  PROVE  Tight'
<1> DEFINE p == proc[j]
           e == Drop(Head(p.left))
           r == Dropped(p)
<1>1. p.pc = "drop" /\ disk' = disk /\ orphans' = orphans /\ Apply(j, e, "no") /\ Continue(j, r)
  BY DEF DropReserved, At
<1>2. Course(disk[j], p) /\ Typed(p) /\ InCleanup(p)
  BY <1>1 DEF Inv, Files, Tight, ProcOK, InCleanup
<1>3. p.left \in Seq(Name) /\ p.left # <<>> /\ Objects
  BY <1>1, <1>2 DEF Typed, ProcType, Inv
<1>4. e \in EffectType /\ Possible(e) /\ e.kind = "drop"
  BY <1>3, TailsLeft, DropsTyped DEF Drop, Effect
<1> HIDE DEF e
<1>5. \A n \in Name : Exists(n)' =>
        Exists(n) /\ object'[n].by = object[n].by /\ object'[n].late = object[n].late
  BY <1>1, <1>3, <1>4, ApplyNews
<1>6. \A i \in Job, n \in Name : Made(i, n)' => Made(i, n) /\ object'[n].late = object[n].late
  BY <1>5 DEF Made
<1>7. \/ r.pc = "drop" /\ r.att = p.att
      \/ r.pc = "recheck" /\ r.left = InventoryOrder /\ r.att = p.att
      \/ /\ r.pc \in {"write", "identify"} /\ r.att.proof = p.att.proof
         /\ r.att.unknown = p.att.unknown /\ r.att.cleanup # "completed"
  BY <1>1, <1>2, DroppedAtt DEF Course
<1> HIDE DEF r
<1>8. r.att.cleanup # "completed" /\ r.att.proof = p.att.proof
  BY <1>1, <1>2, <1>7 DEF Course
<1> QED BY <1>1, <1>2, <1>6, <1>7, <1>8, AllInventoried, OutTight

LEMMA RecheckTight ==
  ASSUME Inv, Tight, NEW j \in Job, Recheck(j)
  PROVE  Tight'
<1> DEFINE p == proc[j]
           d == disk[j]
           f == Fails(p, FALSE)
           t == [p EXCEPT !.left = Tail(@)]
           c == [p EXCEPT !.pc = "write", !.att.cleanup = "completed", !.left = <<>>]
<1>1. /\ p.pc = "recheck" /\ UNCHANGED <<object, disk, orphans>>
      /\ \/ Continue(j, f)
         \/ ~Exists(Head(p.left)) /\ Len(p.left) = 1 /\ Continue(j, c)
         \/ ~Exists(Head(p.left)) /\ Len(p.left) # 1 /\ Continue(j, t)
  BY DEF Recheck, Inspect, Unchanged, At
<1>2. Course(d, p) /\ Typed(p) /\ InCleanup(p) /\ ~InProof(p) /\ ProcOK(d, p)
  BY <1>1 DEF Inv, Files, Tight, ProcOK, InCleanup, InProof
<1>3. p.left \in Seq(Name) /\ p.left # <<>> /\ p.att \in Attestation /\ p.att.cleanup # "completed"
  BY <1>1, <1>2 DEF Typed, ProcType, Course
<1>4. CASE Continue(j, f)
  <2>1. /\ f.att.proof = p.att.proof /\ f.att.cleanup # "completed"
        /\ f.pc \in {"write", "identify"}
    BY <1>2, <1>3, FailsAtt
  <2> HIDE DEF f
  <2> QED BY <1>1, <1>2, <1>4, <2>1, SameMade, OutTight
<1>5. \A n \in Name : n # Head(p.left) =>
        \/ \E i \in 1..Len(p.left) : i > 1 /\ p.left[i] = n
        \/ Rechecked(d, p, n)
  <2>1. Head(p.left) = p.left[1]
    BY <1>3
  <2>2. \A i \in 1..Len(p.left) : i = 1 \/ i > 1
    BY <1>3
  <2> QED BY <1>1, <2>1, <2>2 DEF Rechecked
<1>6. CASE ~Exists(Head(p.left)) /\ Len(p.left) # 1 /\ Continue(j, t)
  <2>1. t.pc = "recheck" /\ t.att = p.att /\ t.left = Tail(p.left)
    BY <1>1, <1>2 DEF Typed, ProcType
  <2> HIDE DEF t
  <2>2. ASSUME NEW n \in Name, \A i \in 1..Len(t.left) : t.left[i] # n
        PROVE  Rechecked(d, p, n) \/ ~Made(j, n)
    <3>1. \A i \in 1..Len(p.left) : i > 1 => p.left[i] # n
      <4> SUFFICES ASSUME NEW i \in 1..Len(p.left), i > 1
                   PROVE  p.left[i] # n
        OBVIOUS
      <4>1. i - 1 \in 1..Len(Tail(p.left)) /\ Tail(p.left)[i - 1] = p.left[i]
        BY <1>3
      <4> QED BY <2>1, <2>2, <4>1
    <3> QED BY <1>5, <1>6, <3>1 DEF Made
  <2> QED BY <1>1, <1>2, <1>3, <1>6, <2>1, <2>2, SameMade, OutTight
<1>7. CASE ~Exists(Head(p.left)) /\ Len(p.left) = 1 /\ Continue(j, c)
  <2>1. /\ [p.att EXCEPT !.cleanup = "completed"].proof = p.att.proof
        /\ [p.att EXCEPT !.cleanup = "completed"].unknown = p.att.unknown
        /\ [p.att EXCEPT !.cleanup = "completed"].cleanup = "completed"
    BY <1>3 DEF Attestation
  <2>2. /\ c.pc = "write" /\ c.att.proof = p.att.proof /\ c.att.unknown = p.att.unknown
        /\ c.att.cleanup = "completed"
    BY <1>2, <2>1 DEF Typed, ProcType
  <2> HIDE DEF c
  <2>3. ~p.att.unknown /\ ~Frozen(d) /\ d # Torn
    BY <1>1, <1>2 DEF ProcOK
  <2>4. proc'[j] = c /\ \A i \in Job : i # j => proc'[i] = proc[i]
    BY <1>7, AloneMoves
  <2>5. Course(d, c)
    BY <1>2, <2>2, <2>3 DEF Course, Sane, InProof, Filed, Frozen
  <2>6. \A n \in Name : Rechecked(d, c, n) => Rechecked(d, p, n) \/ ~Made(j, n)
    BY <1>5, <1>7 DEF Made
  <2>7. Retired(d, c) => Retired(d, p)
    BY <2>2 DEF Retired
  <2>8. ~Doubt(d, p)
    BY <1>1, <2>3 DEF Doubt, Frozen, Filed
  <2>9. Closing(j)'
    BY <1>1, <2>2, <2>4, <2>6, <2>7, <2>8, SameMade, OwnCloses
  <2> QED BY <1>1, <2>4, <2>5, <2>9, QuietNoNews, TightStep
<1> QED BY <1>1, <1>4, <1>6, <1>7

LEMMA WriteTight ==
  ASSUME Inv, Tight, NEW j \in Job, WriteAttestation(j)
  PROVE  Tight'
<1> DEFINE p == proc[j]
           d == disk[j]
<1>1. /\ p.pc = "write" /\ UNCHANGED <<object, orphans>> /\ Continue(j, Idle)
      /\ disk' = [disk EXCEPT ![j] = p.att]
  BY DEF WriteAttestation, At
<1>2. Course(d, p) /\ ProcOK(d, p) /\ p.att \in Attestation
  BY DEF Inv, Files, Tight, ProcOK, Typed, ProcType
<1>3. Filed(p.att) /\ d # Torn
  BY <1>1, <1>2, NoFilesTyped DEF Filed, ProcOK
<1>4. disk'[j] = p.att /\ \A i \in Job : i # j => disk'[i] = disk[i]
  BY <1>1 DEF Inv, Files
<1>5. proc'[j] = Idle /\ \A i \in Job : i # j => proc'[i] = proc[i]
  BY <1>1, AloneMoves
<1>6. Course(p.att, Idle)
  BY <1>2, IdleCourse DEF Course, Sane, InProof
<1>7. \A n \in Name : Rechecked(p.att, Idle, n) => Rechecked(d, p, n)
  BY <1>1, IdleCourse DEF Rechecked, Cleaned
<1>8. Retired(p.att, Idle) => Retired(d, p)
  BY IdleCourse DEF Retired
<1>9. Doubt(d, p) => Doubt(p.att, Idle)
  BY <1>1, <1>2, <1>3 DEF Doubt, Course, Sane
<1>10. Closing(j)'
  BY <1>1, <1>4, <1>5, <1>7, <1>8, <1>9, IdleCourse, SameMade, OwnCloses
<1> QED BY <1>1, <1>4, <1>5, <1>6, <1>10, QuietNoNews, TightStep

\* What a fault leaves to happen: a drop, or the rest of a command of the script.
LEMMA Abandoned ==
  ASSUME Inv, Tight, NEW j \in Job, NEW cause \in {"failure", "timeout", "kill"},
         NEW o, o = [job |-> j, todo |-> InFlight(proc[j]), cause |-> cause],
         InFlight(proc[j]) # <<>>
  PROVE  /\ o.job = j /\ o.cause = cause
         /\ \/ proc[j].pc = "drop" /\ DropsOnly(o)
            \/ /\ proc[j].pc = "step" /\ proc[j].att.proof # "completed"
               /\ Filed(disk[j]) /\ disk[j].proof # "completed" /\ disk[j].cleanup # "completed"
<1> DEFINE p == proc[j]
           d == disk[j]
<1>1. Course(d, p) /\ ProcOK(d, p) /\ Typed(p)
  BY DEF Inv, Files, Tight, ProcOK
<1>2. o.job = j /\ o.cause = cause /\ o.todo = InFlight(p)
  OBVIOUS
<1>3. CASE p.pc = "drop"
  <2>1. o.todo = << Drop(Head(p.left)) >>
    BY <1>2, <1>3 DEF InFlight
  <2>2. Drop(Head(p.left)).kind = "drop"
    BY DEF Drop, Effect
  <2>3. \A i \in 1..Len(o.todo) : o.todo[i] = Drop(Head(p.left))
    BY <2>1
  <2> QED BY <1>2, <1>3, <2>2, <2>3 DEF DropsOnly
<1>4. CASE p.pc # "drop"
  <2>1. p.pc = "step" /\ InProof(p)
    BY <1>1, <1>4 DEF InFlight, Typed, InProof
  <2>2. Filed(d)
    BY <1>1, <2>1 DEF ProcOK, Recorded, Filed
  <2> QED BY <1>1, <1>2, <2>1, <2>2 DEF Course
<1> QED BY <1>3, <1>4

LEMMA StatementFailsTight ==
  ASSUME Inv, Tight, NEW j \in Job, StatementFails(j)
  PROVE  Tight'
<1> DEFINE p == proc[j]
           d == disk[j]
           q == [p EXCEPT !.failures = TRUE]
           f == Fails(p, FALSE)
           g == Dropped(q)
           todo == InFlight(p)
           new == [job |-> j, todo |-> todo, cause |-> "failure"]
<1>1. /\ disk' = disk /\ object' = object /\ (InProof(p) \/ InCleanup(p))
      /\ orphans' = orphans \cup IF todo = <<>> THEN {} ELSE {new}
      /\ Continue(j, IF p.pc = "drop" THEN g ELSE f)
  BY DEF StatementFails, Working, Abandon
<1>2. Course(d, p) /\ Typed(p) /\ p.att.cleanup # "completed"
  BY <1>1 DEF Inv, Files, Tight, ProcOK, InProof, InCleanup, Course
<1>3. /\ f.att.proof = IF InProof(p) THEN "failed" ELSE p.att.proof
      /\ f.att.cleanup # "completed" /\ f.pc \in {"write", "identify"}
  BY <1>1, <1>2, FailsAtt
<1>4. ASSUME p.pc = "drop"
      PROVE  /\ g.att.proof = p.att.proof /\ g.att.cleanup # "completed"
             /\ \/ g.pc \in {"drop", "write", "identify"}
                \/ g.pc = "recheck" /\ g.left = InventoryOrder
  <2>1. /\ q \in ProcType(q.seen) /\ q.pc = "drop" /\ q.left = p.left /\ q.todo = p.todo
        /\ q.att = p.att
    BY <1>2, <1>4 DEF Typed, ProcType
  <2> HIDE DEF q
  <2>2. Typed(q)
    BY <1>2, <1>4, <2>1 DEF Typed
  <2> QED BY <1>2, <2>1, <2>2, DroppedAtt
<1>5. todo # <<>> =>
        /\ new.job = j /\ new.cause = "failure"
        /\ \/ p.pc = "drop" /\ DropsOnly(new)
           \/ p.pc = "step" /\ d.proof # "completed"
  BY Abandoned
<1> HIDE DEF todo, new, f, g
<1>6. ASSUME NEW r, Continue(j, r), r = IF p.pc = "drop" THEN g ELSE f
      PROVE  Tight'
  <2>1. /\ r.pc \in {"write", "identify", "drop", "recheck"} /\ r.att.cleanup # "completed"
        /\ r.att.proof = "completed" => p.att.proof = "completed"
        /\ r.pc = "recheck" => r.left = InventoryOrder
        /\ p.pc = "step" => r.att.proof = "failed"
    BY <1>3, <1>4, <1>6 DEF InProof
  <2>2. \A o \in orphans' :
          \/ o \in orphans
          \/ /\ o.job = j /\ o.cause # "no"
             /\ DropsOnly(o) \/ ~Retired(d, r)
             /\ o.cause # "timeout"
    BY <1>1, <1>5, <2>1 DEF Retired
  <2> QED BY <1>1, <1>6, <2>1, <2>2, SameMade, AllInventoried, OutTight
<1> QED BY <1>1, <1>6

LEMMA StatementTimesOutTight ==
  ASSUME Inv, Tight, NEW j \in Job, StatementTimesOut(j)
  PROVE  Tight'
<1> DEFINE p == proc[j]
           d == disk[j]
           r == Fails(p, TRUE)
           todo == InFlight(p)
           new == [job |-> j, todo |-> todo, cause |-> "timeout"]
<1>1. /\ disk' = disk /\ object' = object /\ (InProof(p) \/ InCleanup(p))
      /\ orphans' = orphans \cup IF todo = <<>> THEN {} ELSE {new}
      /\ Continue(j, r)
  BY DEF StatementTimesOut, Working, Abandon, TimesOut
<1>2. Course(d, p) /\ Typed(p) /\ p.att.cleanup # "completed"
  BY <1>1 DEF Inv, Files, Tight, ProcOK, InProof, InCleanup, Course
<1>3. /\ r.att.proof = IF InProof(p) THEN "failed" ELSE p.att.proof
      /\ r.att.cleanup # "completed" /\ r.pc = "write" /\ r.att.unknown
  BY <1>1, <1>2, FailsAtt
<1>4. todo # <<>> =>
        /\ new.job = j /\ new.cause = "timeout"
        /\ \/ p.pc = "drop" /\ DropsOnly(new)
           \/ /\ p.pc = "step" /\ Filed(d) /\ d.proof # "completed"
              /\ d.cleanup # "completed"
  BY Abandoned
<1> HIDE DEF todo, new, r
<1>5. \A o \in orphans' :
        \/ o \in orphans
        \/ /\ o.job = j /\ o.cause # "no"
           /\ DropsOnly(o) \/ ~Retired(d, r)
           /\ o.cause = "timeout" => DropsOnly(o) \/ Doubt(d, r)
  <2>1. p.pc = "step" /\ Filed(d) /\ d.proof # "completed" /\ d.cleanup # "completed" =>
          ~Retired(d, r) /\ Doubt(d, r)
    BY <1>3 DEF Retired, Doubt, InProof
  <2> QED BY <1>1, <1>4, <2>1
<1> QED BY <1>1, <1>3, <1>5, SameMade, OutTight

LEMMA InterruptTight ==
  ASSUME Inv, Tight, NEW j \in Job, Interrupt(j)
  PROVE  Tight'
<1> DEFINE p == proc[j]
           d == disk[j]
           f == Finally(p)
           w == [p EXCEPT !.pc = "write", !.left = <<>>, !.failures = FALSE]
           todo == InFlight(p)
           new == [job |-> j, todo |-> todo, cause |-> "kill"]
<1>1. /\ disk' = disk /\ object' = object /\ (InProof(p) \/ InCleanup(p))
      /\ orphans' = orphans \cup IF todo = <<>> THEN {} ELSE {new}
      /\ Continue(j, IF InProof(p) THEN f ELSE IF p.only THEN w ELSE Idle)
  BY DEF Interrupt, Working, Abandon
<1>2. Course(d, p) /\ Typed(p) /\ p \in ProcType(p.seen) /\ p.att.cleanup # "completed"
  BY <1>1 DEF Inv, Files, Tight, ProcOK, InProof, InCleanup, Course, Typed
<1>3. /\ f.att.proof = p.att.proof
      /\ f.att.cleanup # "completed" /\ f.pc \in {"write", "identify"}
  BY <1>2, FinallyAtt
<1>4. w.pc = "write" /\ w.att = p.att
  BY <1>2 DEF ProcType
<1>5. todo # <<>> =>
        /\ new.job = j /\ new.cause = "kill"
        /\ \/ p.pc = "drop" /\ DropsOnly(new)
           \/ /\ p.pc = "step" /\ p.att.proof # "completed" /\ Filed(d)
              /\ d.proof # "completed"
  BY Abandoned
<1> HIDE DEF todo, new, f, w
<1>6. ASSUME NEW r, Continue(j, r), r \in {f, w, Idle}
      PROVE  Tight'
  <2>1. /\ r.pc \in {"write", "identify", "idle"} /\ r.att.cleanup # "completed"
        /\ r.att.proof = "completed" => p.att.proof = "completed"
    BY <1>2, <1>3, <1>4, <1>6, IdleCourse
  <2>2. \A o \in orphans' :
          \/ o \in orphans
          \/ /\ o.job = j /\ o.cause # "no"
             /\ DropsOnly(o) \/ ~Retired(d, r)
             /\ o.cause # "timeout"
    BY <1>1, <1>5, <2>1 DEF Retired
  <2> QED BY <1>1, <1>6, <2>1, <2>2, SameMade, OutTight
<1> QED BY <1>1, <1>6

\* A process that is killed takes a timeout with it that it has not written down.
LEMMA KillTight ==
  ASSUME Inv, Tight, NEW j \in Job, Kill(j)
  PROVE  Tight'
<1> DEFINE p == proc[j]
           d == disk[j]
           e == disk'[j]
           todo == InFlight(p)
           new == [job |-> j, todo |-> todo, cause |-> "kill"]
           Forgets(o) == o.job = j /\ o.cause = "timeout" /\ ~(Written(j) /\ disk[j].unknown)
           Later(o) == [o EXCEPT !.cause = "kill"]
<1>1. /\ orphans' = (IF todo = <<>> THEN {} ELSE {new}) \cup
                      {IF Forgets(o) THEN Later(o) ELSE o : o \in orphans}
      /\ object' = object /\ Continue(j, Idle)
  BY DEF Kill
<1>2. (e = d \/ e = Torn) /\ \A i \in Job : i # j => disk'[i] = disk[i]
  <2>1. disk' = disk \/ disk' = [disk EXCEPT ![j] = Torn]
    BY DEF Kill
  <2> QED BY <2>1 DEF Inv, Files
<1>3. proc'[j] = Idle /\ \A i \in Job : i # j => proc'[i] = proc[i]
  BY <1>1, AloneMoves
<1>4. Course(d, p) /\ Closing(j)
  BY DEF Tight
<1>5. todo # <<>> =>
        /\ new.job = j /\ new.cause = "kill"
        /\ \/ p.pc = "drop" /\ DropsOnly(new)
           \/ p.pc = "step" /\ Filed(d) /\ d.proof # "completed"
  BY Abandoned
<1>6. \A o \in orphans : /\ Later(o).job = o.job /\ Later(o).cause = "kill"
                         /\ Later(o).todo = o.todo
  BY DEF Inv, Authority, Orphan
<1>7. \A o : Forgets(o) <=> o.job = j /\ o.cause = "timeout" /\ ~(Filed(d) /\ d.unknown)
  BY DEF Written, Filed
<1> HIDE DEF todo, new, Forgets, Later
<1>8. \A n \in Name : Rechecked(e, Idle, n) => Rechecked(d, p, n)
  BY <1>2, IdleCourse DEF Rechecked, Cleaned, Filed
<1>9. Retired(e, Idle) => e = d /\ Filed(d) /\ d.proof = "completed"
  BY <1>2, IdleCourse DEF Retired, Filed
<1>10. ASSUME NEW o \in orphans', o.job = j
       PROVE  /\ o.cause # "no"
              /\ DropsOnly(o) \/ ~Retired(e, Idle)
              /\ o.cause = "timeout" => DropsOnly(o) \/ Doubt(e, Idle)
  <2>1. CASE todo # <<>> /\ o = new
    BY <1>5, <1>9, <2>1
  <2>2. CASE \E old \in orphans : o = IF Forgets(old) THEN Later(old) ELSE old
    <3>1. PICK old \in orphans : o = IF Forgets(old) THEN Later(old) ELSE old
      BY <2>2
    <3>2. old.job = j /\ (DropsOnly(old) => DropsOnly(o))
      BY <1>6, <1>10, <3>1 DEF DropsOnly
    <3>3. /\ old.cause # "no"
          /\ DropsOnly(old) \/ ~Retired(d, p)
          /\ old.cause = "timeout" => DropsOnly(old) \/ Doubt(d, p)
      BY <1>4, <3>2 DEF Closing
    <3>4. DropsOnly(o) \/ ~Retired(e, Idle)
      BY <1>9, <3>2, <3>3 DEF Retired
    <3>5. CASE Forgets(old)
      BY <1>6, <3>1, <3>4, <3>5
    <3>6. CASE ~Forgets(old)
      <4>1. o = old
        BY <3>1, <3>6
      <4>2. ASSUME o.cause = "timeout", Doubt(d, p) PROVE Doubt(e, Idle)
        <5>1. Filed(d) /\ d.unknown
          BY <1>7, <1>10, <3>6, <4>1, <4>2
        <5> QED BY <1>2, <4>2, <5>1 DEF Doubt, Filed
      <4> QED BY <3>3, <3>4, <4>1, <4>2
    <3> QED BY <3>5, <3>6
  <2> QED BY <1>1, <2>1, <2>2
<1>11. Closing(j)'
  <2>1. Retired(e, Idle) => Retired(d, p)
    BY <1>9 DEF Retired
  <2> QED BY <1>1, <1>3, <1>8, <1>10, <2>1, IdleCourse, SameMade, OwnCloses
<1>12. ASSUME NEW i \in Job, i # j PROVE NoNews(i)
  <2>1. \A o \in orphans' : o.job = i => o \in orphans
    BY <1>1, <1>5, <1>6, <1>7, <1>12
  <2> QED BY <1>1, <2>1, SameMade DEF NoNews
<1>13. Course(e, Idle)
  BY <1>2, <1>4, IdleCourse DEF Course, Sane, InProof, Filed
<1> QED BY <1>2, <1>3, <1>11, <1>12, <1>13, TightStep

\* A job that has found a name free knows of nothing that could still take it.
LEMMA RecheckedKnows ==
  ASSUME Inv, Tight, NEW j \in Job, NEW n, Rechecked(disk[j], proc[j], n)
  PROVE  ~Doubt(disk[j], proc[j])
<1>1. Course(disk[j], proc[j]) /\ ProcOK(disk[j], proc[j])
  BY DEF Inv, Files, Tight
<1>2. CASE Filed(disk[j]) /\ disk[j].cleanup = "completed"
  BY <1>2 DEF Doubt, Filed
<1>3. CASE proc[j].pc = "write" /\ proc[j].att.cleanup = "completed"
  BY <1>1, <1>3 DEF Doubt, Filed, Course, Sane, ProcOK
<1>4. CASE proc[j].pc = "recheck"
  BY <1>1, <1>4 DEF Doubt, Filed, Frozen, ProcOK, InCleanup
<1> QED BY <1>2, <1>3, <1>4 DEF Rechecked, Cleaned

LEMMA LandsTight ==
  ASSUME Inv, Tight, NEW o \in orphans, Lands(o)
  PROVE  Tight'
<1> DEFINE e == Head(o.todo)
           rest == Tail(o.todo)
           r == [o EXCEPT !.todo = rest]
           j == o.job
<1>1. /\ orphans' = (orphans \ {o}) \cup IF rest = <<>> \/ ~Possible(e) THEN {} ELSE {r}
      /\ IF Possible(e) THEN Apply(o.job, e, o.cause) ELSE UNCHANGED <<object, harmed>>
      /\ disk' = disk /\ proc' = proc
  BY DEF Lands
<1>2. o \in Orphan /\ o.job \in Job
  BY DEF Inv, Authority, Actors
<1>3. o.todo \in Seq(EffectType) /\ o.todo # <<>> /\ o.cause \in Late
  BY <1>2 DEF Orphan
<1>4. e \in EffectType /\ rest \in Seq(EffectType)
  BY <1>3, TailsLeft
<1>5. r.job = o.job /\ r.cause = o.cause /\ r.todo = rest
  BY <1>2 DEF Orphan
<1>6. DropsOnly(o) => DropsOnly(r) /\ e.kind = "drop"
  <2>1. e = o.todo[1] /\ 1 \in 1..Len(o.todo)
    BY <1>3
  <2>2. \A i \in 1..Len(rest) : rest[i] = o.todo[i + 1] /\ i + 1 \in 1..Len(o.todo)
    BY <1>3
  <2> HIDE DEF e, rest, r
  <2> QED BY <1>5, <2>1, <2>2 DEF DropsOnly
<1> HIDE DEF e, rest, r
<1>7. \A n \in Name : Exists(n)' =>
        \/ e.kind = "create" /\ object'[n].by = o.job /\ object'[n].late = o.cause
        \/ Exists(n) /\ object'[n].by = object[n].by /\ object'[n].late = object[n].late
  <2>1. Objects
    BY DEF Inv
  <2>2. CASE Possible(e)
    BY <1>1, <1>2, <1>4, <2>1, <2>2, ApplyNews
  <2>3. CASE ~Possible(e)
    BY <1>1, <2>3 DEF Exists
  <2> QED BY <2>2, <2>3
<1>8. \A x \in orphans' : \/ x \in orphans
                          \/ x.job = o.job /\ x.cause = o.cause /\ (DropsOnly(o) => DropsOnly(x))
  BY <1>1, <1>5, <1>6
<1>9. ASSUME NEW i \in Job, i # o.job \/ DropsOnly(o) PROVE NoNews(i)
  <2>1. \A n \in Name : Made(i, n)' => Made(i, n) /\ object'[n].late = object[n].late
    BY <1>6, <1>7, <1>9 DEF Made
  <2> QED BY <1>8, <2>1 DEF NoNews
<1>10. ASSUME NEW i \in Job, ~(i # o.job \/ DropsOnly(o))
       PROVE  Course(disk'[i], proc'[i]) /\ Closing(i)'
  <2> DEFINE d == disk[i]
             p == proc[i]
  <2>1. Course(d, p) /\ Closing(i)
    BY DEF Tight
  <2>2. /\ o.cause # "no" /\ p.pc # "step" /\ ~Retired(d, p)
        /\ o.cause = "timeout" => Doubt(d, p)
    BY <1>10, <2>1 DEF Closing
  <2>3. ASSUME NEW n \in Name, Made(i, n)', Rechecked(d, p, n)
        PROVE  object'[n].late \in {"failure", "kill"}
    <3>1. o.cause \in {"failure", "kill"}
      BY <1>3, <2>2, <2>3, RecheckedKnows DEF Late
    <3>2. CASE Exists(n) /\ object'[n].by = object[n].by /\ object'[n].late = object[n].late
      BY <2>1, <2>3, <3>2 DEF Closing, Made
    <3> QED BY <1>7, <2>3, <3>1, <3>2 DEF Made
  <2>4. \A x \in orphans' : x.job = i =>
          x.cause # "no" /\ (x.cause = "timeout" => DropsOnly(x) \/ Doubt(d, p))
    BY <1>8, <1>10, <2>1, <2>2 DEF Closing
  <2>5. Closing(i)'
    BY <1>1, <2>2, <2>3, <2>4 DEF Closing
  <2> QED BY <1>1, <2>1, <2>5
<1>11. \A i \in Job : Course(disk'[i], proc'[i]) /\ Closing(i)'
  BY <1>1, <1>9, <1>10, BystanderKeeps
<1> QED BY <1>11 DEF Tight, Course, Sane, Filed, InProof

\* What others do, nobody counts as his own.
LEMMA ForeignTight ==
  ASSUME Inv, Tight, NEW n \in Name, CreateForeign(n) \/ DropForeign(n)
  PROVE  Tight'
<1>1. UNCHANGED <<disk, proc, orphans>>
  BY DEF CreateForeign, DropForeign
<1>2. ASSUME NEW i \in Job, NEW m \in Name, Made(i, m)'
      PROVE  Made(i, m) /\ object'[m].late = object[m].late
  <2>1. CASE m # n
    <3>1. object'[m] = object[m]
      BY <2>1 DEF CreateForeign, DropForeign, Inv, Objects
    <3> QED BY <1>2, <3>1 DEF Made, Exists
  <2>2. CASE m = n
    <3>1. object'[n] = Absent \/ object'[n].by = Others
      BY DEF CreateForeign, DropForeign, Inv, Objects, Fresh
    <3> QED BY <1>2, <2>2, <3>1, OthersIsNoJob DEF Made, Exists
  <2> QED BY <2>1, <2>2
<1>3. \A i \in Job : NoNews(i)
  BY <1>1, <1>2 DEF NoNews
<1>4. \A i \in Job : Course(disk'[i], proc'[i]) /\ Closing(i)'
  BY <1>1, <1>3, BystanderKeeps
<1> QED BY <1>4 DEF Tight, Course, Sane, Filed, InProof

LEMMA InitTight == Init => Tight
<1> SUFFICES ASSUME Init PROVE Tight
  OBVIOUS
<1>1. /\ \A n \in Name : ~Exists(n)
      /\ \A j \in Job : disk[j] = NoFile /\ proc[j] = Idle
      /\ orphans = {}
  BY DEF Init, Exists
<1>2. \A j \in Job : Course(disk[j], proc[j])
  BY <1>1, IdleCourse DEF Course, Sane, Filed, InProof
<1>3. \A j \in Job : Closing(j)
  BY <1>1, IdleCourse, NamesTyped DEF Closing, Made
<1> QED BY <1>2, <1>3 DEF Tight

LEMMA NextTight == Inv /\ Tight /\ [Next]_vars => Tight'
<1> SUFFICES ASSUME Inv, Tight, [Next]_vars
             PROVE  Tight'
  OBVIOUS
<1>1. CASE UNCHANGED vars
  <2>1. UNCHANGED <<object, disk, proc, orphans>>
    BY <1>1 DEF vars
  <2>2. \A i \in Job : Course(disk'[i], proc'[i]) /\ Closing(i)'
    BY <2>1, QuietNoNews, BystanderKeeps
  <2> QED BY <2>2 DEF Tight, Course, Sane, Filed, InProof
<1>2. ASSUME NEW j \in Job, StartProof(j) \/ StartCleanupOnly(j) \/ Preview(j)
      PROVE  Tight'
  BY <1>2, StartProofTight, StartCleanupOnlyTight, PreviewTight
<1>3. ASSUME NEW j \in Job, ProofStep(j)
      PROVE  Tight'
  BY <1>3, VerifySessionTight, PreflightTight, AuthorizeTight, SendTight, LookTight
     DEF ProofStep
<1>4. ASSUME NEW j \in Job, CleanupStep(j)
      PROVE  Tight'
  BY <1>4, IdentifyTight, DropReservedTight, RecheckTight, WriteTight DEF CleanupStep
<1>5. ASSUME NEW j \in Job, Fault(j)
      PROVE  Tight'
  BY <1>5, StatementFailsTight, StatementTimesOutTight, InterruptTight, KillTight DEF Fault
<1>6. ASSUME NEW o \in orphans, Lands(o)
      PROVE  Tight'
  BY <1>6, LandsTight
<1>7. ASSUME NEW n \in Name, CreateForeign(n) \/ DropForeign(n)
      PROVE  Tight'
  BY <1>7, ForeignTight
<1> QED BY <1>1, <1>2, <1>3, <1>4, <1>5, <1>6, <1>7 DEF Next

\* Whenever the attestation of a job says that its proof is completed, its Agents
\* are gone; when it says that its cleanup is completed, nothing the job made is
\* left but what a statement brought back whose command had failed or was killed.
THEOREM CompletionIsClean == Spec => []CompletedLeavesNothing
<1>1. Tight => CompletedLeavesNothing
  <2> SUFFICES ASSUME Tight, NEW j \in Job, NEW n \in Name, Written(j), Exists(n),
                      object[n].by = j
               PROVE  /\ disk[j].proof = "completed" => n \notin Agent
                      /\ disk[j].cleanup = "completed" => object[n].late \in {"failure", "kill"}
    BY DEF CompletedLeavesNothing
  <2>1. Closing(j) /\ Filed(disk[j]) /\ Made(j, n)
    BY DEF Tight, Filed, Written, Made
  <2>2. disk[j].proof = "completed" => n \notin Agent
    BY <2>1 DEF Closing, Retired
  <2>3. disk[j].cleanup = "completed" => object[n].late \in {"failure", "kill"}
    BY <2>1 DEF Closing, Rechecked, Cleaned
  <2> QED BY <2>2, <2>3
<1>2. Init => Tight
  BY InitTight
<1>3. Inv /\ Tight /\ [Next]_vars => Tight'
  BY NextTight
<1> QED BY <1>1, <1>2, <1>3, Invariance, PTL DEF Spec
=============================================================================
