-------------------------- MODULE Invocation_proofs --------------------------
(***************************************************************************)
(* Theorems about Invocation for every set of clients, commands, tools and *)
(* answers and for every limit.                                            *)
(***************************************************************************)
EXTENDS Invocation, SequenceTheorems, FiniteSetTheorems, WellFoundedInduction, TLAPS

-----------------------------------------------------------------------------
(* The inductive invariant: a client between two calls has opened as many as   *)
(* were verified, and one more from the call to its verdict.                   *)

Asked == Tool \cup {AnyTool}
Event == [name : Name \cup {"message", "done"}, data : Seq(Text)]

Calling == {"connect", "open"}
Reading == {"stream", "finish", "close"}
Writing == {"check", "create", "fill", "verdict"}

CommandSet == [checks : Seq(Asked), path : Path \cup {NoPath}]

ClientType ==
  [pc : {"idle", "ended"} \cup Calling \cup Reading \cup Writing,
   command : CommandSet,
   verified : Nat, opened : Nat, saved : BOOLEAN,
   outcome : {"none", "refused", "passed", "failed", "killed"},
   lines : Seq(Line), reader : Event, events : Seq(Event),
   late : BOOLEAN, failed : BOOLEAN]

Asks(x) == Len(x.command.checks)

Undecided(x) == x.pc \notin {"idle", "ended"} => x.verified < Asks(x)

OpenedOnce(x) ==
  /\ x.pc \in Calling => x.opened = x.verified
  /\ x.pc \in Reading => x.opened = x.verified + 1 /\ ~x.failed
  /\ x.pc \in Writing =>
       /\ x.opened \in {x.verified, x.verified + 1}
       /\ ~x.failed => x.opened = x.verified + 1

Reported(x) ==
  /\ x.pc # "ended" => x.outcome = "none"
  /\ x.outcome \in {"passed", "failed"} =>
       /\ x.outcome = "passed" <=> x.verified = Asks(x)
       /\ x.outcome = "passed" => x.opened = Asks(x)
       /\ x.opened \in {x.verified, x.verified + 1}

OK(x) == x \in ClientType /\ Undecided(x) /\ OpenedOnce(x) /\ Reported(x)

CommandsOK == \A c \in Client : Command[c] \subseteq CommandSet

Inv ==
  /\ client \in [Client -> ClientType]
  /\ \A c \in Client : OK(client[c])

-----------------------------------------------------------------------------
(* Steps. *)

LEMMA BecomeOK ==
  ASSUME Inv, NEW c \in Client, NEW e, OK(e), Become(c, e)
  PROVE  Inv'
<1>1. e \in ClientType
  BY DEF OK
<1>2. client' = [client EXCEPT ![c] = e]
  BY DEF Become
<1>3. client' \in [Client -> ClientType]
  BY <1>1, <1>2 DEF Inv
<1>4. \A d \in Client : client'[d] = e \/ client'[d] = client[d]
  BY <1>2 DEF Inv
<1> QED BY <1>3, <1>4 DEF Inv

LEMMA ReaderTyped == Reader \in Event
  BY EmptySeq DEF Reader, Event

\* The parts of OK are about these fields alone.
LEMMA SameOK ==
  ASSUME NEW x, OK(x), NEW y \in ClientType,
         y.pc = x.pc, y.command = x.command, y.verified = x.verified,
         y.opened = x.opened, y.outcome = x.outcome, y.failed = x.failed
  PROVE  OK(y)
  BY DEF OK, Undecided, OpenedOnce, Reported, Asks

\* A step from one of the places of a running client to a later one.
LEMMA MovedOK ==
  ASSUME NEW x, OK(x), x.pc \notin {"idle", "ended"},
         NEW y \in ClientType, y.pc \notin {"idle", "ended"},
         y.command = x.command, y.verified = x.verified, y.outcome = x.outcome,
         OpenedOnce(y)
  PROVE  OK(y)
<1>1. Reported(y)
  BY DEF OK, Reported, Asks
<1>2. Undecided(y)
  BY DEF OK, Undecided, Asks
<1> QED BY <1>1, <1>2 DEF OK

LEMMA AfterCallWrites ==
  ASSUME NEW c \in Client
  PROVE  AfterCall(c) \in {"verdict", "check"}
  BY DEF AfterCall

LEMMA FailWithOK ==
  ASSUME Inv, NEW c \in Client, client[c].pc \in Calling \cup Reading,
         NEW events \in Seq(Event), FailWith(c, events)
  PROVE  Inv'
<1> DEFINE x == client[c]
           e == [x EXCEPT !.pc = AfterCall(c), !.failed = TRUE, !.events = events,
                          !.lines = <<>>, !.reader = Reader, !.late = FALSE]
<1>1. x \in ClientType /\ OK(x)
  BY DEF Inv
<1>2. AfterCall(c) \in {"verdict", "check"}
  BY AfterCallWrites
<1>3. Become(c, e)
  BY DEF FailWith
<1>4. <<>> \in Seq(Line)
  BY EmptySeq
<1>x. x.pc \in Calling \cup Reading
  OBVIOUS
<1> HIDE DEF x
<1>5. /\ e.pc \in {"verdict", "check"} /\ e.failed = TRUE /\ e.command = x.command
      /\ e.verified = x.verified /\ e.opened = x.opened /\ e.outcome = x.outcome
  BY <1>1, <1>2 DEF ClientType
<1>6. e \in ClientType
  BY <1>1, <1>2, <1>4, ReaderTyped DEF ClientType, Writing
<1> HIDE DEF e
<1>7. x.pc \notin {"idle", "ended"} /\ x.opened \in {x.verified, x.verified + 1}
  BY <1>1, <1>x DEF OK, OpenedOnce, Calling, Reading
<1>8. OpenedOnce(e)
  BY <1>5, <1>7 DEF OpenedOnce, Calling, Reading, Writing
<1>9. OK(e)
  BY <1>1, <1>5, <1>6, <1>7, <1>8, MovedOK
<1> QED BY <1>3, <1>9, BecomeOK

LEMMA FailOK ==
  ASSUME Inv, NEW c \in Client, client[c].pc \in Calling \cup Reading, Fail(c)
  PROVE  Inv'
<1>1. client[c].events \in Seq(Event)
  BY DEF Inv, ClientType
<1>2. FailWith(c, client[c].events)
  BY DEF Fail
<1> QED BY <1>1, <1>2, FailWithOK

\* A step within a call that opens nothing and decides nothing.
LEMMA GoOnOK ==
  ASSUME Inv, NEW c \in Client, NEW e \in ClientType, Become(c, e),
         e.command = client[c].command, e.verified = client[c].verified,
         e.opened = client[c].opened, e.outcome = client[c].outcome,
         e.failed = client[c].failed,
         \/ {client[c].pc, e.pc} \subseteq Calling
         \/ {client[c].pc, e.pc} \subseteq Reading
         \/ {client[c].pc, e.pc} \subseteq Writing
  PROVE  Inv'
<1> DEFINE x == client[c]
<1>1. OK(x)
  BY DEF Inv
<1>2. x.pc \notin {"idle", "ended"} /\ e.pc \notin {"idle", "ended"}
  BY DEF Calling, Reading, Writing
<1>3. OpenedOnce(e)
  BY <1>1 DEF OK, OpenedOnce, Calling, Reading, Writing
<1>4. OK(e)
  <2> HIDE DEF x
  <2>1. e.command = x.command /\ e.verified = x.verified /\ e.outcome = x.outcome
    BY DEF x
  <2> QED BY <1>1, <1>2, <1>3, <2>1, MovedOK
<1> QED BY <1>4, BecomeOK

LEMMA EndOK ==
  ASSUME Inv, NEW c \in Client, NEW outcome \in {"none", "refused", "passed", "failed", "killed"},
         NEW verified \in Nat, End(c, outcome, verified),
         outcome \in {"passed", "failed"} =>
           /\ outcome = "passed" <=> verified = Asks(client[c])
           /\ outcome = "passed" => client[c].opened = Asks(client[c])
           /\ client[c].opened \in {verified, verified + 1}
  PROVE  Inv'
<1> DEFINE x == client[c]
           kept == IF x.saved THEN x.events ELSE <<>>
           e == [Idle EXCEPT !.pc = "ended", !.outcome = outcome, !.verified = verified,
                             !.command = x.command, !.opened = x.opened,
                             !.saved = x.saved, !.events = kept]
<1>1. x \in ClientType
  BY DEF Inv
<1>2. Become(c, e)
  BY DEF End
<1>3. kept \in Seq(Event) /\ <<>> \in Seq(Line)
  BY <1>1, EmptySeq DEF ClientType
<1> HIDE DEF kept
<1>4. /\ e.pc = "ended" /\ e.outcome = outcome /\ e.verified = verified
      /\ e.command = x.command /\ e.opened = x.opened
  BY DEF Idle
<1>5. e \in ClientType
  BY <1>1, <1>3, ReaderTyped DEF Idle, ClientType
<1> HIDE DEF e
<1>6. OK(e)
  BY <1>4, <1>5 DEF OK, Undecided, OpenedOnce, Reported, Asks, Calling, Reading, Writing
<1> QED BY <1>2, <1>6, BecomeOK

LEMMA IdleTyped == ASSUME NEW k \in CommandSet PROVE [Idle EXCEPT !.command = k] \in ClientType
<1>1. <<>> \in Seq(Event) /\ <<>> \in Seq(Line)
  BY EmptySeq
<1> QED BY <1>1, ReaderTyped DEF Idle, ClientType

\* A command begins, or ends before it called anything.
LEMMA FreshOK ==
  ASSUME NEW e \in ClientType, e.verified = 0, e.opened = 0,
         e.pc \in {"idle", "ended", "connect"},
         e.pc # "ended" => e.outcome = "none",
         e.pc = "connect" => 0 < Asks(e),
         e.outcome = "passed" => Asks(e) = 0,
         e.outcome # "failed"
  PROVE  OK(e)
  BY DEF OK, Undecided, OpenedOnce, Reported, Asks, Calling, Reading, Writing

LEMMA BeginOK ==
  ASSUME Inv, NEW c \in Client, Begin(c)
  PROVE  Inv'
<1>1. PICK k \in Command[c] :
        \/ Become(c, [[Idle EXCEPT !.command = k] EXCEPT !.pc = "ended", !.outcome = "refused"])
        \/ Become(c, IF k.checks = <<>>
                     THEN [[Idle EXCEPT !.command = k] EXCEPT !.pc = "ended", !.outcome = "passed"]
                     ELSE [[Idle EXCEPT !.command = k] EXCEPT !.pc = "connect"])
  BY DEF Begin
<1>2. k \in CommandSet
  BY CommandType DEF CommandSet, Asked
<1>3. k.checks \in Seq(Asked) /\ Len(k.checks) \in Nat
  BY <1>2 DEF CommandSet
<1> DEFINE asked == [Idle EXCEPT !.command = k]
           refused == [asked EXCEPT !.pc = "ended", !.outcome = "refused"]
           passed == [asked EXCEPT !.pc = "ended", !.outcome = "passed"]
           connect == [asked EXCEPT !.pc = "connect"]
<1>4. asked \in ClientType
  BY <1>2, IdleTyped
<1>5. /\ asked.command = k /\ asked.verified = 0 /\ asked.opened = 0
      /\ asked.outcome = "none"
  BY DEF Idle
<1>6. Become(c, refused) \/ Become(c, IF k.checks = <<>> THEN passed ELSE connect)
  BY <1>1
<1> HIDE DEF asked
<1>7. CASE Become(c, refused)
  <2>1. refused \in ClientType
    BY <1>4 DEF ClientType
  <2>2. /\ refused.pc = "ended" /\ refused.outcome = "refused"
        /\ refused.verified = 0 /\ refused.opened = 0
    BY <1>4, <1>5 DEF ClientType
  <2> HIDE DEF refused
  <2>3. OK(refused)
    BY <2>1, <2>2, FreshOK
  <2> QED BY <1>7, <2>3, BecomeOK
<1>8. CASE k.checks = <<>> /\ Become(c, passed)
  <2>1. passed \in ClientType
    BY <1>4 DEF ClientType
  <2>2. /\ passed.pc = "ended" /\ passed.outcome = "passed" /\ passed.command = k
        /\ passed.verified = 0 /\ passed.opened = 0
    BY <1>4, <1>5 DEF ClientType
  <2> HIDE DEF passed
  <2>3. Asks(passed) = 0
    BY <1>8, <2>2, EmptySeq DEF Asks
  <2>4. OK(passed)
    BY <2>1, <2>2, <2>3, FreshOK
  <2> QED BY <1>8, <2>4, BecomeOK
<1>9. CASE k.checks # <<>> /\ Become(c, connect)
  <2>1. connect \in ClientType
    BY <1>4 DEF ClientType, Calling
  <2>2. /\ connect.pc = "connect" /\ connect.outcome = "none" /\ connect.command = k
        /\ connect.verified = 0 /\ connect.opened = 0
    BY <1>4, <1>5 DEF ClientType
  <2> HIDE DEF connect
  <2>3. 0 < Asks(connect)
    BY <1>3, <1>9, <2>2, EmptySeq DEF Asks
  <2>4. OK(connect)
    BY <2>1, <2>2, <2>3, FreshOK
  <2> QED BY <1>9, <2>4, BecomeOK
<1> QED BY <1>6, <1>7, <1>8, <1>9

LEMMA GotoOK ==
  ASSUME Inv, NEW c \in Client, NEW step, Goto(c, step),
         \/ {client[c].pc, step} \subseteq Calling
         \/ {client[c].pc, step} \subseteq Reading
         \/ {client[c].pc, step} \subseteq Writing
  PROVE  Inv'
<1> DEFINE e == [client[c] EXCEPT !.pc = step]
<1>1. client[c] \in ClientType
  BY DEF Inv
<1>2. e \in ClientType /\ e.pc = step
  BY <1>1 DEF ClientType
<1>3. /\ e.command = client[c].command /\ e.verified = client[c].verified
      /\ e.opened = client[c].opened /\ e.outcome = client[c].outcome
      /\ e.failed = client[c].failed
  BY <1>1 DEF ClientType
<1>4. Become(c, e)
  BY DEF Goto
<1> HIDE DEF e
<1> QED BY <1>2, <1>3, <1>4, GoOnOK

\* A step between two parts of an invocation: only the place changes, and
\* whether the invocation failed.
LEMMA TurnOK ==
  ASSUME Inv, NEW c \in Client, NEW e \in ClientType, Become(c, e),
         client[c].pc \in Calling \cup Reading \cup Writing,
         e.pc \in Calling \cup Reading \cup Writing,
         e.command = client[c].command, e.verified = client[c].verified,
         e.outcome = client[c].outcome, OpenedOnce(e)
  PROVE  Inv'
<1> DEFINE x == client[c]
<1>1. OK(x)
  BY DEF Inv
<1>2. x.pc \notin {"idle", "ended"} /\ e.pc \notin {"idle", "ended"}
  BY DEF Calling, Reading, Writing
<1>3. e.command = x.command /\ e.verified = x.verified /\ e.outcome = x.outcome
  OBVIOUS
<1> HIDE DEF x
<1>4. OK(e)
  BY <1>1, <1>2, <1>3, MovedOK
<1> QED BY <1>4, BecomeOK

LEMMA ConnectOK == ASSUME Inv, NEW c \in Client, Connect(c) PROVE Inv'
<1>1. client[c].pc \in Calling /\ {client[c].pc, "open"} \subseteq Calling
  BY DEF Connect, At, Calling
<1> QED BY <1>1, GotoOK, FailOK DEF Connect

LEMMA OpenOK == ASSUME Inv, NEW c \in Client, Open(c) PROVE Inv'
<1>1. client[c].pc \in Calling /\ client[c] \in ClientType
  BY DEF Open, At, Calling, Inv
<1>2. CASE Fail(c)
  BY <1>1, <1>2, FailOK
<1>3. ASSUME NEW pc \in {"stream", AfterCall(c)},
             Become(c, [client[c] EXCEPT !.pc = pc, !.opened = @ + 1,
                                         !.failed = pc # "stream"])
      PROVE  Inv'
  <2> DEFINE failed == pc # "stream"
             e == [client[c] EXCEPT !.pc = pc, !.opened = @ + 1, !.failed = failed]
  <2>1. pc \in {"stream", "verdict", "check"}
    BY AfterCallWrites
  <2>2. failed \in BOOLEAN /\ (failed <=> pc # "stream")
    OBVIOUS
  <2>3. Become(c, e)
    BY <1>3
  <2> HIDE DEF failed
  <2>4. e \in ClientType
    <3>1. client[c].opened + 1 \in Nat
      BY <1>1 DEF ClientType
    <3> QED BY <1>1, <2>1, <2>2, <3>1 DEF ClientType, Reading, Writing
  <2>5. /\ e.pc = pc /\ e.command = client[c].command
        /\ e.verified = client[c].verified /\ e.outcome = client[c].outcome
        /\ e.opened = client[c].opened + 1 /\ e.failed = failed
    BY <1>1 DEF ClientType
  <2> HIDE DEF e
  <2>6. client[c].opened = client[c].verified
    BY <1>1 DEF Inv, OK, OpenedOnce
  <2>7. OpenedOnce(e)
    BY <2>1, <2>2, <2>5, <2>6 DEF OpenedOnce, Calling, Reading, Writing
  <2>8. e.pc \in Reading \cup Writing
    BY <2>1, <2>5 DEF Reading, Writing
  <2> QED BY <1>1, <2>3, <2>4, <2>5, <2>7, <2>8, TurnOK
<1> QED BY <1>2, <1>3 DEF Open

-----------------------------------------------------------------------------
(* The stream. *)

LEMMA PendingTyped ==
  ASSUME NEW c \in Client, client[c] \in ClientType
  PROVE  Pending(c) \in Seq(Event)
<1>1. client[c].reader \in Event
  BY DEF ClientType
<1> QED BY <1>1, EmptySeq DEF Pending

LEMMA DoneTyped == Done \in Event
  BY EmptySeq DEF Done, Event

\* A step that stays in the stream, or finishes it.
LEMMA StreamOK ==
  ASSUME Inv, NEW c \in Client, client[c].pc \in Reading,
         NEW e \in ClientType, Become(c, e), e.pc \in Reading,
         e.command = client[c].command, e.verified = client[c].verified,
         e.opened = client[c].opened, e.outcome = client[c].outcome,
         e.failed = client[c].failed
  PROVE  Inv'
  BY GoOnOK

LEMMA LeastTyped ==
  ASSUME NEW m \in Nat, NEW n \in Nat
  PROVE  Least(m, n) \in 0..m
  BY DEF Least

LEMMA AcceptOK ==
  ASSUME Inv, NEW c \in Client, client[c].pc = "stream",
         NEW lines \in Seq(Line), NEW events \in Seq(Event), NEW reader \in Event,
         Accept(c, lines, events, reader)
  PROVE  Inv'
<1> DEFINE all == client[c].events \o events
           accepted == SubSeq(all, 1, Least(Len(all), MaxEvents))
           next == IF \E i \in DOMAIN events : Terminal(events[i]) THEN "finish" ELSE "stream"
           e == [client[c] EXCEPT !.lines = lines, !.events = all, !.reader = reader,
                                  !.pc = next]
<1>1. client[c] \in ClientType /\ client[c].pc \in Reading
  BY DEF Inv, Reading
<1>2. all \in Seq(Event)
  BY <1>1, ConcatProperties DEF ClientType
<1>3. accepted \in Seq(Event)
  <2>1. Len(all) \in Nat /\ MaxEvents \in Nat
    BY <1>2, LimitsAreNatural
  <2>2. Least(Len(all), MaxEvents) \in 0..Len(all)
    BY <2>1, LeastTyped
  <2> QED BY <1>2, <2>1, <2>2, SubSeqProperties
<1>4. next \in {"stream", "finish"}
  OBVIOUS
<1>5. Fail(c) \/ FailWith(c, accepted) \/ Become(c, e)
  BY DEF Accept
<1>6. CASE Fail(c)
  BY <1>1, <1>6, FailOK
<1>7. CASE FailWith(c, accepted)
  <2> HIDE DEF accepted
  <2> QED BY <1>1, <1>3, <1>7, FailWithOK
<1>8. CASE Become(c, e)
  <2> HIDE DEF all, next
  <2>1. e \in ClientType
    BY <1>1, <1>2, <1>4 DEF ClientType, Reading
  <2>2. /\ e.pc = next /\ e.command = client[c].command
        /\ e.verified = client[c].verified /\ e.opened = client[c].opened
        /\ e.outcome = client[c].outcome /\ e.failed = client[c].failed
    BY <1>1 DEF ClientType
  <2> HIDE DEF e
  <2> QED BY <1>1, <1>4, <1>8, <2>1, <2>2, StreamOK DEF Reading
<1> QED BY <1>5, <1>6, <1>7, <1>8

LEMMA ReadLineOK ==
  ASSUME Inv, NEW c \in Client, client[c].pc = "stream", NEW line \in Line,
         ReadLine(c, line)
  PROVE  Inv'
<1> DEFINE x == client[c]
           lines == Append(x.lines, line)
<1>1. x \in ClientType /\ x.pc \in Reading
  BY DEF Inv, Reading
<1>2. lines \in Seq(Line)
  BY <1>1, AppendProperties DEF ClientType
<1>3. Pending(c) \in Seq(Event) /\ Append(Pending(c), Done) \in Seq(Event)
  BY <1>1, PendingTyped, DoneTyped, AppendProperties
<1>4. line.kind \in {"other", "blank", "done", "event", "data"}
  BY DEF Line
<1> HIDE DEF lines
<1>5. CASE line.kind = "other"
  <2> DEFINE e == [x EXCEPT !.lines = lines]
  <2>1. Become(c, e)
    BY <1>5 DEF ReadLine, lines
  <2>2. e \in ClientType
    BY <1>1, <1>2 DEF ClientType
  <2>3. /\ e.pc = x.pc /\ e.command = x.command /\ e.verified = x.verified
        /\ e.opened = x.opened /\ e.outcome = x.outcome /\ e.failed = x.failed
    BY <1>1 DEF ClientType
  <2> HIDE DEF e
  <2> QED BY <1>1, <2>1, <2>2, <2>3, StreamOK
<1>6. CASE line.kind = "data"
  <2> DEFINE e == [x EXCEPT !.lines = lines, !.reader.data = Append(@, line.text)]
  <2>1. Become(c, e)
    BY <1>6 DEF ReadLine, lines
  <2>2. line.text \in Text
    BY <1>6 DEF Line
  <2>3. x.reader \in Event /\ Append(x.reader.data, line.text) \in Seq(Text)
    BY <1>1, <2>2, AppendProperties DEF ClientType, Event
  <2>4. [x.reader EXCEPT !.data = Append(@, line.text)] \in Event
    BY <2>3 DEF Event
  <2>5. e \in ClientType
    BY <1>1, <1>2, <2>4 DEF ClientType
  <2>6. /\ e.pc = x.pc /\ e.command = x.command /\ e.verified = x.verified
        /\ e.opened = x.opened /\ e.outcome = x.outcome /\ e.failed = x.failed
    BY <1>1 DEF ClientType
  <2> HIDE DEF e
  <2> QED BY <1>1, <2>1, <2>5, <2>6, StreamOK
<1>7. CASE line.kind = "blank"
  <2>1. Accept(c, lines, Pending(c), Reader)
    BY <1>7 DEF ReadLine, lines
  <2> QED BY <1>2, <1>3, <2>1, ReaderTyped, AcceptOK
<1>8. CASE line.kind = "event"
  <2>1. Accept(c, lines, Pending(c), [Reader EXCEPT !.name = line.name])
    BY <1>8 DEF ReadLine, lines
  <2>2. line.name \in Name
    BY <1>8 DEF Line
  <2>3. [Reader EXCEPT !.name = line.name] \in Event
    BY <2>2, ReaderTyped DEF Event
  <2> QED BY <1>2, <1>3, <2>1, <2>3, AcceptOK
<1>9. CASE line.kind = "done"
  <2>1. Accept(c, lines, Append(Pending(c), Done), x.reader)
    BY <1>9 DEF ReadLine, lines
  <2>2. x.reader \in Event
    BY <1>1 DEF ClientType
  <2> QED BY <1>2, <1>3, <2>1, <2>2, AcceptOK
<1> QED BY <1>4, <1>5, <1>6, <1>7, <1>8, <1>9

LEMMA ReadOK == ASSUME Inv, NEW c \in Client, Read(c) PROVE Inv'
<1>1. client[c].pc = "stream" /\ client[c].pc \in Calling \cup Reading
  BY DEF Read, At, Reading
<1>2. CASE Fail(c)
  BY <1>1, <1>2, FailOK
<1>3. ASSUME NEW line \in Answer[c], ReadLine(c, line) PROVE Inv'
  <2>1. line \in Line
    BY LinesAreLines
  <2> QED BY <1>1, <1>3, <2>1, ReadLineOK
<1> QED BY <1>2, <1>3 DEF Read

LEMMA EndOfStreamOK == ASSUME Inv, NEW c \in Client, EndOfStream(c) PROVE Inv'
<1> DEFINE all == client[c].events \o Pending(c)
           e == [client[c] EXCEPT !.pc = "finish", !.events = all]
<1>1. client[c] \in ClientType /\ client[c].pc \in Reading
  BY DEF Inv, EndOfStream, At, Reading
<1>2. all \in Seq(Event)
  BY <1>1, PendingTyped, ConcatProperties DEF ClientType
<1>3. Fail(c) \/ FailWith(c, all) \/ Become(c, e)
  BY DEF EndOfStream
<1> HIDE DEF all
<1>4. CASE Become(c, e)
  <2>1. e \in ClientType
    BY <1>1, <1>2 DEF ClientType, Reading
  <2>2. /\ e.pc = "finish" /\ e.command = client[c].command
        /\ e.verified = client[c].verified /\ e.opened = client[c].opened
        /\ e.outcome = client[c].outcome /\ e.failed = client[c].failed
    BY <1>1 DEF ClientType
  <2> HIDE DEF e
  <2>3. e.pc \in Reading
    BY <2>2 DEF Reading
  <2> QED BY <1>1, <1>4, <2>1, <2>2, <2>3, StreamOK
<1> QED BY <1>1, <1>2, <1>3, <1>4, FailOK, FailWithOK

LEMMA BreakOffOK == ASSUME Inv, NEW c \in Client, BreakOff(c) PROVE Inv'
  BY FailOK DEF BreakOff, At, Reading

LEMMA FinishOK == ASSUME Inv, NEW c \in Client, Finish(c) PROVE Inv'
<1> DEFINE e == [client[c] EXCEPT !.pc = "close", !.reader = Reader]
<1>1. client[c] \in ClientType /\ client[c].pc \in Reading
  BY DEF Inv, Finish, At, Reading
<1>2. Fail(c) \/ Become(c, e)
  BY DEF Finish
<1>3. CASE Become(c, e)
  <2>1. e \in ClientType
    BY <1>1, ReaderTyped DEF ClientType, Reading
  <2>2. /\ e.pc = "close" /\ e.command = client[c].command
        /\ e.verified = client[c].verified /\ e.opened = client[c].opened
        /\ e.outcome = client[c].outcome /\ e.failed = client[c].failed
    BY <1>1 DEF ClientType
  <2> HIDE DEF e
  <2>3. e.pc \in Reading
    BY <2>2 DEF Reading
  <2> QED BY <1>1, <1>3, <2>1, <2>2, <2>3, StreamOK
<1> QED BY <1>1, <1>2, <1>3, FailOK

LEMMA TimeOutOK == ASSUME Inv, NEW c \in Client, TimeOut(c) PROVE Inv'
  BY FailOK DEF TimeOut, At, Calling, Reading

\* From the end of a call to what comes after it.
LEMMA CleanUpOK == ASSUME Inv, NEW c \in Client, CleanUp(c) PROVE Inv'
<1> DEFINE e == [client[c] EXCEPT !.pc = AfterCall(c)]
<1>1. /\ client[c] \in ClientType /\ client[c].pc \in Reading
      /\ client[c].opened = client[c].verified + 1
  BY DEF Inv, CleanUp, At, Reading, OK, OpenedOnce
<1>2. Fail(c) \/ Become(c, e)
  BY DEF CleanUp, Goto
<1>3. CASE Become(c, e)
  <2>1. AfterCall(c) \in Writing
    BY AfterCallWrites DEF Writing
  <2>2. e \in ClientType
    BY <1>1, <2>1 DEF ClientType
  <2>3. /\ e.pc = AfterCall(c) /\ e.command = client[c].command
        /\ e.verified = client[c].verified /\ e.opened = client[c].opened
        /\ e.outcome = client[c].outcome
    BY <1>1 DEF ClientType
  <2> HIDE DEF e
  <2>4. OpenedOnce(e)
    BY <1>1, <2>1, <2>3 DEF OpenedOnce, Calling, Reading, Writing
  <2> QED BY <1>1, <1>3, <2>1, <2>2, <2>3, <2>4, TurnOK
<1> QED BY <1>1, <1>2, <1>3, FailOK

-----------------------------------------------------------------------------
(* The artifact and the report. *)

LEMMA UnsavedOK ==
  ASSUME Inv, NEW c \in Client, client[c].pc \in Writing, Unsaved(c)
  PROVE  Inv'
<1> DEFINE e == [client[c] EXCEPT !.pc = "verdict", !.failed = TRUE]
<1>1. /\ client[c] \in ClientType
      /\ client[c].opened \in {client[c].verified, client[c].verified + 1}
  BY DEF Inv, OK, OpenedOnce
<1>2. e \in ClientType
  BY <1>1 DEF ClientType, Writing
<1>3. /\ e.pc = "verdict" /\ e.failed = TRUE /\ e.command = client[c].command
      /\ e.verified = client[c].verified /\ e.opened = client[c].opened
      /\ e.outcome = client[c].outcome
  BY <1>1 DEF ClientType
<1>4. Become(c, e)
  BY DEF Unsaved
<1> HIDE DEF e
<1>5. OpenedOnce(e) /\ e.pc \in Writing
  BY <1>1, <1>3 DEF OpenedOnce, Calling, Reading, Writing
<1> QED BY <1>2, <1>3, <1>4, <1>5, TurnOK

LEMMA CheckTargetOK == ASSUME Inv, NEW c \in Client, CheckTarget(c) PROVE Inv'
<1>1. client[c].pc \in Writing /\ {client[c].pc, "create"} \subseteq Writing
  BY DEF CheckTarget, At, Writing
<1> QED BY <1>1, GotoOK, UnsavedOK DEF CheckTarget

LEMMA CreateOK == ASSUME Inv, NEW c \in Client, Create(c) PROVE Inv'
<1>1. client[c].pc \in Writing /\ {client[c].pc, "fill"} \subseteq Writing
  BY DEF Create, At, Writing
<1> QED BY <1>1, GotoOK, UnsavedOK DEF Create

LEMMA FillOK == ASSUME Inv, NEW c \in Client, Fill(c) PROVE Inv'
<1> DEFINE e == [client[c] EXCEPT !.pc = "verdict", !.saved = TRUE]
<1>1. client[c] \in ClientType /\ {client[c].pc, "verdict"} \subseteq Writing
  BY DEF Inv, Fill, At, Writing
<1>2. Become(c, e) \/ Unsaved(c)
  BY DEF Fill
<1>3. CASE Become(c, e)
  <2>1. e \in ClientType
    BY <1>1 DEF ClientType
  <2>2. /\ e.pc = "verdict" /\ e.command = client[c].command
        /\ e.verified = client[c].verified /\ e.opened = client[c].opened
        /\ e.outcome = client[c].outcome /\ e.failed = client[c].failed
    BY <1>1 DEF ClientType
  <2> HIDE DEF e
  <2> QED BY <1>1, <1>3, <2>1, <2>2, GoOnOK
<1> QED BY <1>1, <1>2, <1>3, UnsavedOK

\* The next check begins with as many calls as checks were verified.
LEMMA InvokeOK ==
  ASSUME Inv, NEW c \in Client, NEW verified \in Nat, Invoke(c, verified),
         client[c].opened = verified, verified < Asks(client[c])
  PROVE  Inv'
<1> DEFINE x == client[c]
           e == [Idle EXCEPT !.pc = "connect", !.command = x.command,
                             !.verified = verified, !.opened = x.opened]
<1>1. x \in ClientType
  BY DEF Inv
<1>2. Become(c, e)
  BY DEF Invoke
<1>3. <<>> \in Seq(Event) /\ <<>> \in Seq(Line)
  BY EmptySeq
<1>4. e \in ClientType
  BY <1>1, <1>3, ReaderTyped DEF Idle, ClientType, Calling
<1>5. /\ e.pc = "connect" /\ e.command = x.command /\ e.verified = verified
      /\ e.opened = verified /\ e.outcome = "none"
  BY DEF Idle
<1> HIDE DEF e
<1>6. OK(e)
  BY <1>4, <1>5 DEF OK, Undecided, OpenedOnce, Reported, Asks, Calling, Reading, Writing
<1> QED BY <1>2, <1>6, BecomeOK

LEMMA VerdictOK == ASSUME Inv, NEW c \in Client, Verdict(c) PROVE Inv'
<1> DEFINE x == client[c]
           good == ~x.failed /\ Selected(x.events, Check(c))
<1>1. /\ x.pc = "verdict" /\ x.verified \in Nat /\ x.opened \in Nat /\ Asks(x) \in Nat
      /\ x.verified < Asks(x) /\ x.opened \in {x.verified, x.verified + 1}
      /\ ~x.failed => x.opened = x.verified + 1
  <2>1. x.pc = "verdict" /\ x \in ClientType /\ OK(x)
    BY DEF Inv, Verdict, At
  <2>2. x.command.checks \in Seq(Asked)
    BY <2>1 DEF ClientType, CommandSet
  <2> HIDE DEF x
  <2> QED BY <2>1, <2>2 DEF OK, Undecided, OpenedOnce, Writing, Asks, ClientType
<1>2. CASE ~good
  <2>1. End(c, "failed", x.verified)
    BY <1>2 DEF Verdict
  <2> QED BY <1>1, <2>1, EndOK
<1>3. CASE good /\ x.verified + 1 < Asks(x)
  <2>1. Invoke(c, x.verified + 1)
    BY <1>3 DEF Verdict, Asks
  <2> QED BY <1>1, <1>3, <2>1, InvokeOK
<1>4. CASE good /\ ~(x.verified + 1 < Asks(x))
  <2>1. End(c, "passed", x.verified + 1)
    BY <1>4 DEF Verdict, Asks
  <2>2. x.verified + 1 = Asks(x) /\ x.opened = Asks(x)
    BY <1>1, <1>4
  <2> QED BY <1>1, <2>1, <2>2, EndOK
<1> QED BY <1>2, <1>3, <1>4

LEMMA ExpireOK == ASSUME Inv, NEW c \in Client, Expire(c) PROVE Inv'
<1> DEFINE e == [client[c] EXCEPT !.late = TRUE]
<1>1. client[c] \in ClientType /\ OK(client[c])
  BY DEF Inv
<1>2. e \in ClientType
  BY <1>1 DEF ClientType
<1>3. /\ e.pc = client[c].pc /\ e.command = client[c].command
      /\ e.verified = client[c].verified /\ e.opened = client[c].opened
      /\ e.outcome = client[c].outcome /\ e.failed = client[c].failed
  BY <1>1 DEF ClientType
<1>4. Become(c, e)
  BY DEF Expire
<1> HIDE DEF e
<1>5. OK(e)
  BY <1>1, <1>2, <1>3, SameOK
<1> QED BY <1>4, <1>5, BecomeOK

LEMMA KillOK == ASSUME Inv, NEW c \in Client, Kill(c) PROVE Inv'
<1>1. client[c].verified \in Nat
  BY DEF Inv, ClientType
<1> QED BY <1>1, EndOK DEF Kill
-----------------------------------------------------------------------------
(* Theorems. *)

LEMMA InitOK == Init => Inv
<1> SUFFICES ASSUME Init PROVE Inv
  OBVIOUS
<1>1. /\ <<>> \in Seq(Event) /\ <<>> \in Seq(Line) /\ <<>> \in Seq(Asked)
  BY EmptySeq
<1>2. Idle \in ClientType
  BY <1>1, ReaderTyped DEF Idle, ClientType, CommandSet
<1>3. Idle.pc = "idle" /\ Idle.verified = 0 /\ Idle.opened = 0 /\ Idle.outcome = "none"
  BY DEF Idle
<1>4. OK(Idle)
  BY <1>2, <1>3, FreshOK
<1> QED BY <1>2, <1>4 DEF Init, Inv

LEMMA NextOK == Inv /\ [Next]_vars => Inv'
<1> SUFFICES ASSUME Inv, [Next]_vars PROVE Inv'
  OBVIOUS
<1>1. CASE UNCHANGED vars
  BY <1>1 DEF Inv, vars
<1>2. ASSUME NEW c \in Client, ClientStep(c) PROVE Inv'
  BY <1>2, BeginOK, ConnectOK, OpenOK, ReadOK, EndOfStreamOK, BreakOffOK, TimeOutOK,
     FinishOK, CleanUpOK, CheckTargetOK, CreateOK, FillOK, VerdictOK, ExpireOK, KillOK
     DEF ClientStep, Alone
<1> QED BY <1>1, <1>2 DEF Next

LEMMA Invariance == Spec => []Inv
  BY InitOK, NextOK, PTL DEF Spec

\* The report of a smoke command (commands/agent.py:226-269, invoke.py:541-582)
\* names as verified exactly the checks before the first failure, and nothing was
\* called after it: for every number of commands and checks and whatever the
\* service answers.
THEOREM SmokeReports == Spec => []VerifiedTruth
<1>1. Inv => VerifiedTruth
  BY DEF Inv, OK, Reported, Asks, VerifiedTruth
<1> QED BY <1>1, Invariance, PTL
-----------------------------------------------------------------------------
(* The artifact.  open("xb") makes a path the writer's own: as long as a       *)
(* client fills its file nobody else does, and a file that holds events is     *)
(* never opened again.                                                         *)

PathOf(c) == client[c].command.path

\* Only a command that names a path writes one.
Named ==
  \A c \in Client :
    At(c, {"check", "create", "fill"}) \/ client[c].saved => PathOf(c) \in Path

\* Every file that is being written is written by one client.
Filling ==
  /\ \A c \in Client : At(c, {"fill"}) => file[PathOf(c)] = Torn
  /\ \A c, d \in Client :
       At(c, {"fill"}) /\ At(d, {"fill"}) /\ PathOf(c) = PathOf(d) => c = d

\* Only a client that waits for its verdict, or has ended, has saved anything.
SavedLast == \A c \in Client : client[c].saved => At(c, {"verdict", "ended"})

ArtifactInv ==
  /\ Inv
  /\ DOMAIN file = Path
  /\ Named /\ Filling /\ ArtifactsKept /\ SavedLast

LEMMA BecomeEffect ==
  ASSUME Inv, NEW c \in Client, NEW e, Become(c, e)
  PROVE  client'[c] = e /\ \A d \in Client \ {c} : client'[d] = client[d]
  BY DEF Inv, Become

\* A step of a client that leaves the files alone.
LEMMA QuietKeeps ==
  ASSUME ArtifactInv, Inv', file' = file, NEW c \in Client,
         \A d \in Client \ {c} : client'[d] = client[d],
         client'[c].pc # "fill",
         client'[c].pc \in {"check", "create"} => client'[c].command.path \in Path,
         client'[c].saved =>
           /\ client[c].saved /\ client'[c].events = client[c].events
           /\ client'[c].command = client[c].command
           /\ client'[c].pc \in {"verdict", "ended"}
  PROVE  ArtifactInv'
<1>1. Named' /\ SavedLast'
  BY DEF ArtifactInv, Named, SavedLast, At, PathOf
<1>2. Filling'
  BY DEF ArtifactInv, Filling, At, PathOf
<1>3. ArtifactsKept'
  BY DEF ArtifactInv, ArtifactsKept, PathOf
<1> QED BY <1>1, <1>2, <1>3 DEF ArtifactInv

\* A step within a call: nothing is saved yet.
InCall(c) ==
  /\ \A d \in Client \ {c} : client'[d] = client[d]
  /\ client'[c].saved = client[c].saved
  /\ client'[c].command = client[c].command
  /\ client'[c].pc \in Calling \cup Reading \cup {AfterCall(c)}

LEMMA InCallKeeps ==
  ASSUME ArtifactInv, Inv', file' = file, NEW c \in Client,
         client[c].pc \in Calling \cup Reading, InCall(c)
  PROVE  ArtifactInv'
<1>1. ~client[c].saved
  BY DEF ArtifactInv, SavedLast, At, Calling, Reading
<1>2. client[c].command.path \in Path \cup {NoPath}
  BY DEF ArtifactInv, Inv, ClientType, CommandSet
<1>3. AfterCall(c) \in {"verdict", "check"} /\ (AfterCall(c) = "check" => PathOf(c) \in Path)
  BY <1>2 DEF AfterCall, PathOf
<1>4. /\ client'[c].pc # "fill" /\ client'[c].pc # "create"
      /\ client'[c].pc = "check" => client'[c].command.path \in Path
  BY <1>3 DEF InCall, Calling, Reading, PathOf
<1> QED BY <1>1, <1>4, QuietKeeps DEF InCall

LEMMA FailWithInCall ==
  ASSUME Inv, NEW c \in Client, NEW events, FailWith(c, events)
  PROVE  InCall(c)
<1> DEFINE e == [client[c] EXCEPT !.pc = AfterCall(c), !.failed = TRUE, !.events = events,
                                  !.lines = <<>>, !.reader = Reader, !.late = FALSE]
<1>1. Become(c, e)
  BY DEF FailWith
<1>2. /\ e.saved = client[c].saved /\ e.command = client[c].command
      /\ e.pc = AfterCall(c)
  BY DEF Inv, ClientType
<1> HIDE DEF e
<1> QED BY <1>1, <1>2, BecomeEffect DEF InCall

LEMMA FailInCall ==
  ASSUME Inv, NEW c \in Client, Fail(c)
  PROVE  InCall(c)
  BY FailWithInCall DEF Fail

LEMMA BecomeInCall ==
  ASSUME Inv, NEW c \in Client, NEW e, Become(c, e), e.saved = client[c].saved,
         e.command = client[c].command, e.pc \in Calling \cup Reading \cup {AfterCall(c)}
  PROVE  InCall(c)
  BY BecomeEffect DEF InCall

LEMMA GotoInCall ==
  ASSUME Inv, NEW c \in Client, NEW s \in Calling \cup Reading \cup {AfterCall(c)},
         Goto(c, s)
  PROVE  InCall(c)
<1> DEFINE e == [client[c] EXCEPT !.pc = s]
<1>1. e.saved = client[c].saved /\ e.command = client[c].command /\ e.pc = s
  BY DEF Inv, ClientType
<1>2. Become(c, e)
  BY DEF Goto
<1> HIDE DEF e
<1> QED BY <1>1, <1>2, BecomeInCall

LEMMA AcceptInCall ==
  ASSUME Inv, NEW c \in Client, NEW lines, NEW events, NEW reader,
         Accept(c, lines, events, reader)
  PROVE  InCall(c)
<1> DEFINE all == client[c].events \o events
           next == IF \E i \in DOMAIN events : Terminal(events[i]) THEN "finish" ELSE "stream"
           e == [client[c] EXCEPT !.lines = lines, !.events = all, !.reader = reader,
                                  !.pc = next]
<1>1. Fail(c) \/ (\E kept : FailWith(c, kept)) \/ Become(c, e)
  BY DEF Accept
<1>2. next \in Reading
  BY DEF Reading
<1> HIDE DEF next, all
<1>3. e.saved = client[c].saved /\ e.command = client[c].command /\ e.pc = next
  BY DEF Inv, ClientType
<1> HIDE DEF e
<1>4. CASE Become(c, e)
  BY <1>2, <1>3, <1>4, BecomeInCall
<1> QED BY <1>1, <1>4, FailInCall, FailWithInCall

LEMMA ReadLineInCall ==
  ASSUME Inv, NEW c \in Client, client[c].pc = "stream", NEW line \in Line,
         ReadLine(c, line)
  PROVE  InCall(c)
<1>1. line.kind \in {"other", "blank", "done", "event", "data"}
  BY DEF Line
<1> DEFINE lines == Append(client[c].lines, line)
           data == [client[c].reader EXCEPT !.data = Append(@, line.text)]
           e == [client[c] EXCEPT !.lines = lines]
           f == [client[c] EXCEPT !.lines = lines, !.reader = data]
<1>2. /\ line.kind = "other" => Become(c, e)
      /\ line.kind = "data" => Become(c, f)
      /\ line.kind \in {"blank", "event", "done"} =>
           \E events, reader : Accept(c, lines, events, reader)
  BY <1>1 DEF ReadLine
<1>3. CASE line.kind \in {"blank", "event", "done"}
  BY <1>2, <1>3, AcceptInCall
<1> HIDE DEF lines, data
<1>4. /\ e.saved = client[c].saved /\ e.command = client[c].command /\ e.pc = "stream"
      /\ f.saved = client[c].saved /\ f.command = client[c].command /\ f.pc = "stream"
  BY DEF Inv, ClientType
<1> HIDE DEF e, f
<1> QED BY <1>1, <1>2, <1>3, <1>4, BecomeInCall DEF Reading

LEMMA CallsKeep ==
  ASSUME ArtifactInv, Inv', NEW c \in Client,
         \/ Connect(c) \/ Open(c) \/ Read(c) \/ EndOfStream(c) \/ BreakOff(c)
         \/ Finish(c) \/ CleanUp(c) \/ TimeOut(c)
  PROVE  ArtifactInv'
<1>1. Inv /\ file' = file /\ client[c].pc \in Calling \cup Reading
  BY DEF Connect, Open, Read, EndOfStream, BreakOff, Finish, CleanUp, TimeOut, At,
         Calling, Reading, ArtifactInv
<1>2. SUFFICES InCall(c)
  BY <1>1, InCallKeeps
<1>3. SUFFICES ASSUME ~Fail(c)  PROVE InCall(c)
  BY <1>1, FailInCall
<1>4. CASE Connect(c)
  BY <1>1, <1>3, <1>4, GotoInCall DEF Connect, Calling
<1>5. CASE Open(c)
  <2>1. PICK pc \in {"stream", AfterCall(c)} :
          Become(c, [client[c] EXCEPT !.pc = pc, !.opened = @ + 1, !.failed = pc # "stream"])
    BY <1>3, <1>5 DEF Open
  <2> DEFINE failed == pc # "stream"
             e == [client[c] EXCEPT !.pc = pc, !.opened = @ + 1, !.failed = failed]
  <2>2. Become(c, e)
    BY <2>1
  <2>3. failed \in BOOLEAN
    OBVIOUS
  <2> HIDE DEF failed
  <2>4. e.saved = client[c].saved /\ e.command = client[c].command /\ e.pc = pc
    BY <1>1 DEF Inv, ClientType
  <2> HIDE DEF e
  <2> QED BY <1>1, <2>2, <2>4, BecomeInCall DEF Reading
<1>6. CASE Read(c)
  <2>1. PICK line \in Answer[c] : ReadLine(c, line)
    BY <1>3, <1>6 DEF Read
  <2> QED BY <1>1, <1>6, <2>1, LinesAreLines, ReadLineInCall DEF Read, At
<1>7. CASE EndOfStream(c)
  <2> DEFINE all == client[c].events \o Pending(c)
             e == [client[c] EXCEPT !.pc = "finish", !.events = all]
  <2>1. FailWith(c, all) \/ Become(c, e)
    BY <1>3, <1>7 DEF EndOfStream
  <2> HIDE DEF all
  <2>2. e.saved = client[c].saved /\ e.command = client[c].command /\ e.pc = "finish"
    BY <1>1 DEF Inv, ClientType
  <2> HIDE DEF e
  <2> QED BY <1>1, <2>1, <2>2, FailWithInCall, BecomeInCall DEF Reading
<1>8. CASE Finish(c)
  <2> DEFINE e == [client[c] EXCEPT !.pc = "close", !.reader = Reader]
  <2>1. Become(c, e)
    BY <1>3, <1>8 DEF Finish
  <2>2. e.saved = client[c].saved /\ e.command = client[c].command /\ e.pc = "close"
    BY <1>1 DEF Inv, ClientType
  <2> HIDE DEF e
  <2> QED BY <1>1, <2>1, <2>2, BecomeInCall DEF Reading
<1>9. CASE CleanUp(c)
  BY <1>1, <1>3, <1>9, GotoInCall DEF CleanUp
<1> QED BY <1>3, <1>4, <1>5, <1>6, <1>7, <1>8, <1>9 DEF BreakOff, TimeOut

\* What End keeps of a client is its artifact, if it has one.
LEMMA EndKeeps ==
  ASSUME ArtifactInv, Inv', file' = file, NEW c \in Client, NEW outcome, NEW verified,
         End(c, outcome, verified)
  PROVE  ArtifactInv'
<1> DEFINE x == client[c]
           kept == IF x.saved THEN x.events ELSE <<>>
           e == [Idle EXCEPT !.pc = "ended", !.outcome = outcome, !.verified = verified,
                             !.command = x.command, !.opened = x.opened,
                             !.saved = x.saved, !.events = kept]
<1>1. Become(c, e)
  BY DEF End
<1>2. /\ e.pc = "ended" /\ e.command = x.command /\ e.saved = x.saved
      /\ e.saved => e.events = x.events
  BY DEF Idle
<1> HIDE DEF e
<1>3. client'[c] = e /\ \A d \in Client \ {c} : client'[d] = client[d]
  BY <1>1, BecomeEffect DEF ArtifactInv
<1> QED BY <1>2, <1>3, QuietKeeps

LEMMA UnsavedKeeps ==
  ASSUME ArtifactInv, Inv', file' = file, NEW c \in Client, ~client[c].saved, Unsaved(c)
  PROVE  ArtifactInv'
<1> DEFINE e == [client[c] EXCEPT !.pc = "verdict", !.failed = TRUE]
<1>1. Become(c, e)
  BY DEF Unsaved
<1>2. e.pc = "verdict" /\ e.saved = client[c].saved
  BY DEF ArtifactInv, Inv, ClientType
<1> HIDE DEF e
<1>3. client'[c] = e /\ \A d \in Client \ {c} : client'[d] = client[d]
  BY <1>1, BecomeEffect DEF ArtifactInv
<1> QED BY <1>2, <1>3, QuietKeeps

\* The three steps of write_raw_events.
LEMMA WritingKeeps ==
  ASSUME ArtifactInv, Inv', NEW c \in Client, CheckTarget(c) \/ Create(c) \/ Fill(c)
  PROVE  ArtifactInv'
<1> DEFINE x == client[c]
           q == x.command.path
<1>1. /\ Inv /\ x \in ClientType /\ x.pc \in {"check", "create", "fill"} /\ ~x.saved
      /\ q \in Path /\ DOMAIN file = Path
  BY DEF CheckTarget, Create, Fill, At, ArtifactInv, Inv, SavedLast, Named, PathOf
<1>2. SUFFICES ASSUME ~(Unsaved(c) /\ file' = file)  PROVE ArtifactInv'
  BY <1>1, UnsavedKeeps
<1>3. CASE CheckTarget(c)
  <2> DEFINE e == [x EXCEPT !.pc = "create"]
  <2>1. Become(c, e) /\ file' = file
    BY <1>2, <1>3 DEF CheckTarget, Goto
  <2>2. e.pc = "create" /\ e.command = x.command /\ e.saved = x.saved
    BY <1>1 DEF ClientType
  <2> HIDE DEF e
  <2>3. client'[c] = e /\ \A d \in Client \ {c} : client'[d] = client[d]
    BY <1>1, <2>1, BecomeEffect
  <2> QED BY <1>1, <2>1, <2>2, <2>3, QuietKeeps
<1>4. CASE Create(c)
  <2> DEFINE e == [x EXCEPT !.pc = "fill"]
  <2>1. Become(c, e) /\ file[q] = NoFile /\ file' = [file EXCEPT ![q] = Torn]
    BY <1>2, <1>4 DEF Create, Goto, MayCreate, Exists, SetFile
  <2>2. e.pc = "fill" /\ e.command = x.command /\ e.saved = x.saved
    BY <1>1 DEF ClientType
  <2> HIDE DEF e
  <2>3. client'[c] = e /\ \A d \in Client \ {c} : client'[d] = client[d]
    BY <1>1, <2>1, BecomeEffect
  <2>4. /\ file'[q] = Torn /\ DOMAIN file' = Path
        /\ \A w \in Path : w # q => file'[w] = file[w]
    BY <1>1, <2>1
  <2>5. ASSUME NEW d \in Client \ {c}, At(d, {"fill"}) \/ client[d].saved
        PROVE  PathOf(d) \in Path /\ PathOf(d) # q
    <3>1. file[PathOf(d)] = Torn \/ file[PathOf(d)] = Holding(client[d].events)
      BY <2>5 DEF ArtifactInv, Filling, ArtifactsKept, PathOf
    <3>2. file[PathOf(d)] # NoFile
      BY <3>1 DEF NoFile, Torn, Holding
    <3> QED BY <2>1, <2>5, <3>2 DEF ArtifactInv, Named, At
  <2>6. Named' /\ SavedLast'
    BY <1>1, <2>2, <2>3 DEF ArtifactInv, Named, SavedLast, At, PathOf
  <2>7. Filling'
    BY <1>1, <2>2, <2>3, <2>4, <2>5 DEF ArtifactInv, Filling, At, PathOf
  <2>8. ArtifactsKept'
    BY <1>1, <2>2, <2>3, <2>4, <2>5 DEF ArtifactInv, ArtifactsKept, PathOf
  <2> QED BY <2>4, <2>6, <2>7, <2>8 DEF ArtifactInv
<1>5. CASE Fill(c)
  <2> DEFINE e == [x EXCEPT !.pc = "verdict", !.saved = TRUE]
  <2>1. Become(c, e) /\ At(c, {"fill"}) /\ file' = [file EXCEPT ![q] = Holding(x.events)]
    BY <1>2, <1>5 DEF Fill, SetFile
  <2>2. /\ e.pc = "verdict" /\ e.command = x.command /\ e.saved = TRUE
        /\ e.events = x.events
    BY <1>1 DEF ClientType
  <2> HIDE DEF e
  <2>3. client'[c] = e /\ \A d \in Client \ {c} : client'[d] = client[d]
    BY <1>1, <2>1, BecomeEffect
  <2>4. /\ file'[q] = Holding(x.events) /\ DOMAIN file' = Path
        /\ \A w \in Path : w # q => file'[w] = file[w]
    BY <1>1, <2>1
  <2>5. ASSUME NEW d \in Client \ {c}, At(d, {"fill"}) \/ client[d].saved
        PROVE  PathOf(d) \in Path /\ PathOf(d) # q
    <3>1. PathOf(d) \in Path
      BY <2>5 DEF ArtifactInv, Named, At
    <3>2. CASE At(d, {"fill"})
      BY <2>1, <2>5, <3>1, <3>2 DEF ArtifactInv, Filling, PathOf
    <3>3. CASE client[d].saved
      <4>1. file[PathOf(d)] = Holding(client[d].events) /\ file[q] = Torn
        BY <2>1, <3>3 DEF ArtifactInv, Filling, ArtifactsKept, PathOf
      <4>2. file[PathOf(d)] # file[q]
        BY <4>1 DEF Torn, Holding
      <4> QED BY <3>1, <4>2
    <3> QED BY <2>5, <3>2, <3>3
  <2>6. Named' /\ SavedLast'
    BY <1>1, <2>2, <2>3 DEF ArtifactInv, Named, SavedLast, At, PathOf
  <2>7. Filling'
    BY <1>1, <2>2, <2>3, <2>4, <2>5 DEF ArtifactInv, Filling, At, PathOf
  <2>8. ArtifactsKept'
    BY <1>1, <2>2, <2>3, <2>4, <2>5 DEF ArtifactInv, ArtifactsKept, PathOf
  <2> QED BY <2>4, <2>6, <2>7, <2>8 DEF ArtifactInv
<1> QED BY <1>3, <1>4, <1>5

\* The steps between calls.
LEMMA BetweenCallsKeep ==
  ASSUME ArtifactInv, Inv', NEW c \in Client,
         Begin(c) \/ Verdict(c) \/ Expire(c) \/ Kill(c)
  PROVE  ArtifactInv'
<1>1. Inv /\ client[c] \in ClientType /\ file' = file
  BY DEF ArtifactInv, Inv, Begin, Verdict, Expire, Kill
<1>2. ASSUME NEW e, Become(c, e), ~e.saved, e.pc \notin {"check", "create", "fill"}
      PROVE  ArtifactInv'
  <2>1. client'[c] = e /\ \A d \in Client \ {c} : client'[d] = client[d]
    BY <1>1, <1>2, BecomeEffect
  <2> QED BY <1>1, <1>2, <2>1, QuietKeeps
<1>3. CASE Begin(c)
  <2>1. PICK k :
          \/ Become(c, [[Idle EXCEPT !.command = k] EXCEPT !.pc = "ended", !.outcome = "refused"])
          \/ Become(c, [[Idle EXCEPT !.command = k] EXCEPT !.pc = "ended", !.outcome = "passed"])
          \/ Become(c, [[Idle EXCEPT !.command = k] EXCEPT !.pc = "connect"])
    BY <1>3 DEF Begin
  <2> DEFINE asked == [Idle EXCEPT !.command = k]
             refused == [asked EXCEPT !.pc = "ended", !.outcome = "refused"]
             passed == [asked EXCEPT !.pc = "ended", !.outcome = "passed"]
             connect == [asked EXCEPT !.pc = "connect"]
  <2>2. /\ refused.saved = FALSE /\ refused.pc = "ended"
        /\ passed.saved = FALSE /\ passed.pc = "ended"
        /\ connect.saved = FALSE /\ connect.pc = "connect"
    BY DEF Idle
  <2>3. Become(c, refused) \/ Become(c, passed) \/ Become(c, connect)
    BY <2>1
  <2> HIDE DEF refused, passed, connect
  <2> QED BY <1>2, <2>2, <2>3
<1>4. CASE Verdict(c)
  <2>1. (\E outcome, verified : End(c, outcome, verified)) \/ \E verified : Invoke(c, verified)
    BY <1>4 DEF Verdict
  <2>2. ASSUME NEW verified, Invoke(c, verified)  PROVE ArtifactInv'
    <3> DEFINE e == [Idle EXCEPT !.pc = "connect", !.command = client[c].command,
                                 !.verified = verified, !.opened = client[c].opened]
    <3>1. Become(c, e)
      BY <2>2 DEF Invoke
    <3>2. e.saved = FALSE /\ e.pc = "connect"
      BY DEF Idle
    <3> HIDE DEF e
    <3> QED BY <1>2, <3>1, <3>2
  <2> QED BY <1>1, <2>1, <2>2, EndKeeps
<1>5. CASE Expire(c)
  <2> DEFINE e == [client[c] EXCEPT !.late = TRUE]
  <2>1. Become(c, e) /\ client[c].pc \in Calling \cup Reading
    BY <1>5 DEF Expire, At, Calling, Reading
  <2>2. e.saved = client[c].saved /\ e.command = client[c].command /\ e.pc = client[c].pc
    BY <1>1 DEF ClientType
  <2> HIDE DEF e
  <2>3. InCall(c)
    BY <1>1, <2>1, <2>2, BecomeInCall
  <2> QED BY <1>1, <2>1, <2>3, InCallKeeps
<1>6. CASE Kill(c)
  BY <1>1, <1>6, EndKeeps DEF Kill
<1> QED BY <1>3, <1>4, <1>5, <1>6

LEMMA ArtifactInit == Init => ArtifactInv
<1> SUFFICES ASSUME Init PROVE ArtifactInv
  OBVIOUS
<1>1. Idle.saved = FALSE /\ Idle.pc = "idle"
  BY DEF Idle
<1> QED BY <1>1, InitOK DEF Init, ArtifactInv, Named, Filling, ArtifactsKept, SavedLast, At

LEMMA ArtifactNext == ArtifactInv /\ [Next]_vars => ArtifactInv'
<1> SUFFICES ASSUME ArtifactInv, [Next]_vars PROVE ArtifactInv'
  OBVIOUS
<1>1. Inv'
  BY NextOK DEF ArtifactInv
<1>2. CASE UNCHANGED vars
  BY <1>1, <1>2
     DEF vars, ArtifactInv, Named, Filling, ArtifactsKept, SavedLast, At, PathOf
<1>3. ASSUME NEW c \in Client, ClientStep(c) PROVE ArtifactInv'
  BY <1>1, <1>3, CallsKeep, WritingKeeps, BetweenCallsKeep DEF ClientStep, Alone
<1> QED BY <1>2, <1>3 DEF Next

\* An artifact that a smoke command has written (invoke.py:317-327) holds the events
\* of that command's own stream from then on, however many commands write to the
\* same path and whichever of them is killed: the first half of EvidenceKept.
THEOREM ArtifactsAreKept == Spec => []ArtifactsKept
<1>1. Init => ArtifactInv
  BY ArtifactInit
<1>2. ArtifactInv /\ [Next]_vars => ArtifactInv'
  BY ArtifactNext
<1>3. ArtifactInv => ArtifactsKept
  BY DEF ArtifactInv
<1> QED BY <1>1, <1>2, <1>3, PTL DEF Spec
-----------------------------------------------------------------------------
(* Induction over the lines of a stream.  The theorems of the library take a   *)
(* predicate as a parameter; a set of natural numbers does as well, by the     *)
(* well-founded order of finite sets.                                          *)

\* A set of natural numbers that is not empty has a least element.
LEMMA LeastOf ==
  ASSUME NEW T \in SUBSET Nat, T # {}
  PROVE  \E m \in T : \A n \in T : m <= n
<1>1. PICK k \in T : TRUE
  OBVIOUS
<1> DEFINE S == 0..k
           R == StrictSubsetOrdering(S)
           U == {0..n : n \in {n \in T : n <= k}}
<1>2. IsWellFoundedOn(R, FiniteSubsetsOf(S))
  BY FS_StrictSubsetOrderingWellFounded
<1>3. U \subseteq FiniteSubsetsOf(S)
  <2>1. ASSUME NEW n \in T, n <= k PROVE 0..n \in FiniteSubsetsOf(S)
    <3>1. IsFiniteSet(0..n)
      BY <2>1, FS_Interval
    <3> QED BY <2>1, <3>1 DEF FiniteSubsetsOf
  <2> QED BY <2>1
<1>4. 0..k \in U
  OBVIOUS
<1> HIDE DEF R
<1>5. PICK X \in U : \A Y \in U : ~(<<Y, X>> \in R)
  <2> HIDE DEF U, S
  <2>1. U # {}
    BY <1>4
  <2> QED BY <1>2, <1>3, <2>1, WFMin
<1>6. PICK m \in T : X = 0..m /\ m <= k
  BY <1>5
<1>7. ASSUME NEW n \in T, n < m PROVE FALSE
  <2>1. 0..n \in U /\ 0..n \subseteq 0..m /\ m \notin 0..n /\ m \in 0..m
    BY <1>6, <1>7
  <2>2. 0..n \in SUBSET S /\ 0..m \in SUBSET S
    BY <1>6, <1>7
  <2>3. <<0..n, 0..m>> \in R
    BY <2>1, <2>2 DEF R, StrictSubsetOrdering
  <2> QED BY <1>5, <1>6, <2>1, <2>3
<1> QED BY <1>7

\* Induction: a set of natural numbers that holds 0 and every successor is Nat.
LEMMA SetInduction ==
  ASSUME NEW S, 0 \in S, \A n \in Nat : n \in S => n + 1 \in S
  PROVE  \A n \in Nat : n \in S
<1> DEFINE T == {n \in Nat : n \notin S}
<1> SUFFICES ASSUME T # {} PROVE FALSE
  OBVIOUS
<1>1. PICK m \in T : \A n \in T : m <= n
  <2> HIDE DEF T
  <2>1. T \in SUBSET Nat
    BY DEF T
  <2> QED BY <2>1, LeastOf
<1>2. m # 0 /\ m \in Nat
  OBVIOUS
<1>3. m - 1 \in Nat /\ m - 1 \in S
  BY <1>1, <1>2
<1> QED BY <1>1, <1>2, <1>3

\* FlattenSeq adds up the sequences from left to right.
SumsUp(f, seqs) ==
  f = [i \in 1..Len(seqs) |-> IF i = 1 THEN seqs[i] ELSE f[i-1] \o seqs[i]]

LEMMA SumsAt ==
  ASSUME NEW s, NEW f, SumsUp(f, s), NEW n \in Nat, n + 1 \in 1..Len(s)
  PROVE  f[n + 1] = IF n = 0 THEN s[n + 1] ELSE f[n] \o s[n + 1]
<1>1. \A i \in 1..Len(s) : f[i] = IF i = 1 THEN s[i] ELSE f[i - 1] \o s[i]
  BY DEF SumsUp
<1>2. n + 1 - 1 = n /\ (n + 1 = 1 <=> n = 0)
  OBVIOUS
<1> QED BY <1>1, <1>2

LEMMA SumsEqual ==
  ASSUME NEW s, NEW t, NEW f, NEW g, SumsUp(f, s), SumsUp(g, t),
         Len(s) \in Nat, Len(t) \in Nat, Len(s) <= Len(t), \A i \in 1..Len(s) : s[i] = t[i]
  PROVE  \A i \in 1..Len(s) : f[i] = g[i]
<1> DEFINE S == {n \in Nat : n \in 1..Len(s) => f[n] = g[n]}
<1>1. 0 \in S
  OBVIOUS
<1>2. ASSUME NEW n \in Nat, n \in S, n + 1 \in 1..Len(s)  PROVE f[n + 1] = g[n + 1]
  <2>1. n + 1 \in 1..Len(t) /\ s[n + 1] = t[n + 1]
    BY <1>2
  <2>2. f[n + 1] = IF n = 0 THEN s[n + 1] ELSE f[n] \o s[n + 1]
    BY <1>2, SumsAt
  <2>3. g[n + 1] = IF n = 0 THEN t[n + 1] ELSE g[n] \o t[n + 1]
    BY <2>1, SumsAt
  <2>4. n = 0 \/ f[n] = g[n]
    BY <1>2
  <2> QED BY <2>1, <2>2, <2>3, <2>4
<1>3. \A n \in Nat : n \in S
  <2>1. ASSUME NEW n \in Nat, n \in S  PROVE n + 1 \in S
    <3>1. n + 1 \in 1..Len(s) => f[n + 1] = g[n + 1]
      BY <1>2, <2>1
    <3> QED BY <3>1
  <2> HIDE DEF S
  <2> QED BY <1>1, <2>1, SetInduction
<1> QED BY <1>3

LEMMA SumsExist ==
  ASSUME NEW A, NEW s \in Seq(Seq(A))
  PROVE  \E f : SumsUp(f, s)
<1> DEFINE Upto(n, f) == f = [i \in 1..n |-> IF i = 1 THEN s[i] ELSE f[i-1] \o s[i]]
           S == {n \in Nat : \E f : Upto(n, f)}
<1>1. 0 \in S
  <2>1. Upto(0, <<>>)
    OBVIOUS
  <2> QED BY <2>1
<1>2. ASSUME NEW n \in Nat, n \in S  PROVE n + 1 \in S
  <2>1. PICK f : Upto(n, f)
    BY <1>2
  <2> DEFINE last == IF n = 0 THEN s[1] ELSE f[n] \o s[n + 1]
             g == [i \in 1..n + 1 |-> IF i = n + 1 THEN last ELSE f[i]]
  <2>2. ASSUME NEW i \in 1..n + 1
        PROVE  g[i] = IF i = 1 THEN s[i] ELSE g[i-1] \o s[i]
    <3>1. CASE i = n + 1
      BY <3>1
    <3>2. CASE i # n + 1
      <4>1. i \in 1..n /\ (i # 1 => i - 1 \in 1..n)
        BY <3>2
      <4>2. f[i] = IF i = 1 THEN s[i] ELSE f[i-1] \o s[i]
        BY <2>1, <4>1
      <4>3. g[i] = f[i] /\ (i # 1 => g[i-1] = f[i-1])
        BY <4>1
      <4> HIDE DEF g
      <4> QED BY <4>2, <4>3
    <3> QED BY <3>1, <3>2
  <2>3. Upto(n + 1, g)
    <3>1. g = [i \in 1..n + 1 |-> g[i]]
      OBVIOUS
    <3> HIDE DEF g
    <3> QED BY <2>2, <3>1
  <2>4. \E h : Upto(n + 1, h)
    <3> HIDE DEF g, Upto
    <3> QED BY <2>3
  <2> HIDE DEF Upto
  <2> QED BY <2>4
<1>3. \A n \in Nat : n \in S
  <2> HIDE DEF S
  <2> QED BY <1>1, <1>2, SetInduction
<1>4. Len(s) \in Nat
  OBVIOUS
<1>5. PICK f : Upto(Len(s), f)
  BY <1>3, <1>4
<1> QED BY <1>5 DEF SumsUp

Sums(s) == CHOOSE f : SumsUp(f, s)

LEMMA FlattenSums ==
  ASSUME NEW s, Len(s) # 0
  PROVE  Seqs!FlattenSeq(s) = Sums(s)[Len(s)]
  BY DEF Seqs!FlattenSeq, Sums, SumsUp

LEMMA FlattenNone == Seqs!FlattenSeq(<<>>) = <<>>
  BY DEF Seqs!FlattenSeq

LEMMA FlattenAppend ==
  ASSUME NEW A, NEW s \in Seq(Seq(A)), NEW e \in Seq(A)
  PROVE  Seqs!FlattenSeq(Append(s, e)) = Seqs!FlattenSeq(s) \o e
<1> DEFINE t == Append(s, e)
           f == Sums(s)
           g == Sums(t)
           n == Len(s)
<1>1. /\ t \in Seq(Seq(A)) /\ Len(t) = n + 1 /\ n \in Nat /\ t[n + 1] = e
      /\ \A i \in 1..n : t[i] = s[i]
  BY AppendProperties
<1> HIDE DEF t
<1>2. SumsUp(f, s) /\ SumsUp(g, t)
  <2> HIDE DEF n
  <2> QED BY <1>1, SumsExist DEF Sums
<1>3. Seqs!FlattenSeq(t) = g[n + 1]
  BY <1>1, FlattenSums
<1>4. n # 0 => Seqs!FlattenSeq(s) = f[n]
  BY FlattenSums
<1> HIDE DEF f, g
<1>5. CASE n = 0
  <2>1. g[1] = e
    BY <1>1, <1>2, <1>5 DEF SumsUp
  <2>2. s = <<>>
    BY <1>5, EmptySeq
  <2> QED BY <1>3, <1>5, <2>1, <2>2, FlattenNone DEF t
<1>6. CASE n # 0
  <2>1. g[n + 1] = g[n] \o e
    <3> HIDE DEF n
    <3>1. n + 1 \in 1..Len(t)
      BY <1>1
    <3>2. g[n + 1] = IF n = 0 THEN t[n + 1] ELSE g[n] \o t[n + 1]
      BY <1>1, <1>2, <3>1, SumsAt
    <3> QED BY <1>1, <1>6, <3>2
  <2>2. \A i \in 1..n : f[i] = g[i]
    <3> HIDE DEF n
    <3>1. n = Len(s)
      BY DEF n
    <3>2. Len(s) <= Len(t)
      BY <1>1, <3>1
    <3>3. \A i \in 1..Len(s) : s[i] = t[i]
      BY <1>1, <3>1
    <3>4. \A i \in 1..Len(s) : f[i] = g[i]
      <4>1. SumsUp(f, s) /\ SumsUp(g, t) /\ Len(s) \in Nat /\ Len(t) \in Nat
        BY <1>1, <1>2
      <4> HIDE DEF t
      <4> QED BY <4>1, <3>2, <3>3, SumsEqual
    <3> QED BY <3>1, <3>4
  <2>3. f[n] = g[n]
    BY <1>1, <1>6, <2>2
  <2> QED BY <1>3, <1>4, <1>6, <2>1, <2>3 DEF t
<1> QED BY <1>1, <1>5, <1>6

\* The greatest element of a set is its Latest.
LEMMA LatestOne ==
  ASSUME NEW S \in SUBSET Int, NEW m \in S, \A j \in S : j <= m
  PROVE  Latest(S) = m
<1>1. \A i \in S : (\A j \in S : j <= i) => i = m
  OBVIOUS
<1> QED BY <1>1 DEF Latest

LEMMA LatestIn ==
  ASSUME NEW S \in SUBSET Nat, S # {}, NEW n \in Nat, \A j \in S : j <= n
  PROVE  Latest(S) \in S /\ \A j \in S : j <= Latest(S)
<1> DEFINE T == {k \in 0..n : n - k \in S}
<1>1. T \in SUBSET Nat /\ T # {}
  <2>1. PICK j \in S : TRUE
    OBVIOUS
  <2>2. n - j \in 0..n /\ n - (n - j) = j
    BY <2>1
  <2>3. n - j \in T
    BY <2>1, <2>2
  <2>4. T \subseteq Nat
    OBVIOUS
  <2> HIDE DEF T
  <2> QED BY <2>3, <2>4
<1>2. PICK k \in T : \A l \in T : k <= l
  <2> HIDE DEF T
  <2> QED BY <1>1, LeastOf
<1>3. n - k \in S
  BY <1>2
<1>4. ASSUME NEW j \in S PROVE j <= n - k
  <2>1. j \in 0..n /\ n - j \in 0..n /\ n - (n - j) = j
    OBVIOUS
  <2>2. n - j \in T
    BY <2>1
  <2>3. k \in 0..n /\ k <= n - j
    BY <1>2, <2>2
  <2> QED BY <2>1, <2>3
<1> QED BY <1>3, <1>4, LatestOne

-----------------------------------------------------------------------------
(* One more line.  What was said up to a line does not change when another one *)
(* comes in.                                                                   *)

Bound == {"blank", "event", "done"}

LEMMA BoundsAre ==
  ASSUME NEW s \in Seq(Line)
  PROVE  /\ Bounds(s) \subseteq 1..Len(s) + 1
         /\ Len(s) + 1 \in Bounds(s)
         /\ \A i \in 1..Len(s) : i \in Bounds(s) <=> s[i].kind \in Bound
  BY DEF Bounds, Bound

LEMMA SinceIs ==
  ASSUME NEW s \in Seq(Line), NEW i \in Nat \ {0}
  PROVE  /\ Since(s, i) \in 0..i - 1
         /\ Since(s, i) = 0 \/ Since(s, i) \in Bounds(s)
         /\ \A j \in Bounds(s) : j < i => j <= Since(s, i)
<1> DEFINE S == {0} \cup {j \in Bounds(s) : j < i}
<1>1. S \in SUBSET Nat /\ S # {} /\ i - 1 \in Nat /\ \A j \in S : j <= i - 1
  BY BoundsAre
<1>2. Latest(S) \in S /\ \A j \in S : j <= Latest(S)
  <2> HIDE DEF S
  <2> QED BY <1>1, LatestIn
<1>3. Since(s, i) = Latest(S)
  BY DEF Since
<1> QED BY <1>1, <1>2, <1>3

LEMMA Appended ==
  ASSUME NEW s \in Seq(Line), NEW l \in Line
  PROVE  /\ Append(s, l) \in Seq(Line)
         /\ Len(s) \in Nat /\ Len(Append(s, l)) = Len(s) + 1
         /\ Append(s, l)[Len(s) + 1] = l
         /\ \A i \in 1..Len(s) : Append(s, l)[i] = s[i]
  BY AppendProperties

LEMMA BoundsAppend ==
  ASSUME NEW s \in Seq(Line), NEW l \in Line
  PROVE  /\ \A j \in 1..Len(s) : j \in Bounds(Append(s, l)) <=> j \in Bounds(s)
         /\ Len(s) + 1 \in Bounds(Append(s, l)) <=> l.kind \in Bound
<1> DEFINE t == Append(s, l)
<1>1. /\ t \in Seq(Line) /\ Len(s) \in Nat /\ Len(t) = Len(s) + 1
      /\ t[Len(s) + 1] = l /\ \A i \in 1..Len(s) : t[i] = s[i]
  BY Appended
<1> HIDE DEF t
<1>2. \A i \in 1..Len(t) : i \in Bounds(t) <=> t[i].kind \in Bound
  BY <1>1, BoundsAre
<1>3. \A i \in 1..Len(s) : i \in Bounds(s) <=> s[i].kind \in Bound
  BY BoundsAre
<1> QED BY <1>1, <1>2, <1>3 DEF t

LEMMA SinceAppend ==
  ASSUME NEW s \in Seq(Line), NEW l \in Line, NEW i \in 1..Len(s) + 1
  PROVE  Since(Append(s, l), i) = Since(s, i)
<1>1. Append(s, l) \in Seq(Line) /\ Len(s) \in Nat
  BY Appended
<1>2. \A j \in Nat : j < i =>
        (j \in Bounds(Append(s, l)) <=> j \in Bounds(s))
  <2>1. Bounds(s) \subseteq Nat \ {0} /\ Bounds(Append(s, l)) \subseteq Nat \ {0}
    <3>1. Bounds(s) \subseteq 1..Len(s) + 1
      BY BoundsAre
    <3>2. Bounds(Append(s, l)) \subseteq 1..Len(Append(s, l)) + 1
      BY <1>1, BoundsAre
    <3> QED BY <3>1, <3>2
  <2>2. ASSUME NEW j \in Nat \ {0}, j < i
        PROVE  j \in Bounds(Append(s, l)) <=> j \in Bounds(s)
    <3>1. j \in 1..Len(s)
      BY <1>1, <2>2
    <3> QED BY <3>1, BoundsAppend
  <2>3. 0 \notin Bounds(s) /\ 0 \notin Bounds(Append(s, l))
    BY <2>1
  <2> QED BY <2>2, <2>3
<1>3. {j \in Bounds(Append(s, l)) : j < i} = {j \in Bounds(s) : j < i}
  <2>1. Bounds(s) \subseteq 1..Len(s) + 1
    BY BoundsAre
  <2>2. Bounds(Append(s, l)) \subseteq 1..Len(Append(s, l)) + 1
    BY <1>1, BoundsAre
  <2>3. \A j \in Bounds(s) \cup Bounds(Append(s, l)) : j \in Nat
    BY <2>1, <2>2
  <2> QED BY <1>2, <2>3
<1> QED BY <1>3 DEF Since

LEMMA DataAppend ==
  ASSUME NEW s \in Seq(Line), NEW l \in Line, NEW i \in 1..Len(s) + 1
  PROVE  DataBefore(Append(s, l), i) = DataBefore(s, i)
<1> DEFINE t == Append(s, l)
           f == Since(s, i)
<1>1. \A k \in 1..Len(s) : t[k] = s[k]
  BY Appended
<1>2. f \in 0..i - 1 /\ Since(t, i) = f /\ Len(s) \in Nat
  BY SinceIs, SinceAppend
<1> HIDE DEF t, f
<1>3. \A k \in 1..i - 1 - f : f + k \in 1..Len(s)
  BY <1>2
<1>4. [k \in 1..i - 1 - f |-> TextOf(t[f + k])] = [k \in 1..i - 1 - f |-> TextOf(s[f + k])]
  BY <1>1, <1>3
<1>5. DataBefore(t, i) = Seqs!FlattenSeq([k \in 1..i - 1 - f |-> TextOf(t[f + k])])
  BY <1>2 DEF DataBefore
<1>6. DataBefore(s, i) = Seqs!FlattenSeq([k \in 1..i - 1 - f |-> TextOf(s[f + k])])
  BY DEF DataBefore, f
<1> QED BY <1>4, <1>5, <1>6 DEF t

LEMMA NameAppend ==
  ASSUME NEW s \in Seq(Line), NEW l \in Line, NEW i \in 1..Len(s) + 1
  PROVE  NameBefore(Append(s, l), i) = NameBefore(s, i)
<1> DEFINE t == Append(s, l)
           names(lines) == {j \in 1..i - 1 : /\ lines[j].kind = "event"
                                             /\ \A k \in j..i - 1 : lines[k].kind # "blank"}
<1>1. (\A k \in 1..Len(s) : t[k] = s[k]) /\ Len(s) \in Nat
  BY Appended
<1> HIDE DEF t
<1>2. \A k \in 1..i - 1 : t[k] = s[k]
  BY <1>1
<1>3. names(t) = names(s)
  <2>1. \A j \in 1..i - 1 : \A k \in j..i - 1 : k \in 1..i - 1
    OBVIOUS
  <2> QED BY <1>2, <2>1
<1>4. names(s) # {} => Latest(names(s)) \in 1..i - 1
  <2>1. names(s) \in SUBSET Nat /\ \A j \in names(s) : j <= i - 1 /\ j \in 1..i - 1
    OBVIOUS
  <2>2. i - 1 \in Nat
    BY <1>1
  <2> HIDE DEF names
  <2> QED BY <2>1, <2>2, LatestIn
<1>5. NameBefore(t, i) = IF names(t) = {} THEN "message" ELSE t[Latest(names(t))].name
  BY DEF NameBefore
<1>6. NameBefore(s, i) = IF names(s) = {} THEN "message" ELSE s[Latest(names(s))].name
  BY DEF NameBefore
<1> HIDE DEF names
<1>7. NameBefore(t, i) = NameBefore(s, i)
  BY <1>2, <1>3, <1>4, <1>5, <1>6
<1> QED BY <1>7 DEF t

LEMMA Extended ==
  ASSUME NEW T, NEW m \in Nat, NEW f \in [1..m + 1 -> T]
  PROVE  /\ [i \in 1..m |-> f[i]] \in Seq(T)
         /\ f = Append([i \in 1..m |-> f[i]], f[m + 1])
<1> DEFINE g == [i \in 1..m |-> f[i]]
           h == Append(g, f[m + 1])
<1>1. g \in [1..m -> T] /\ f[m + 1] \in T
  OBVIOUS
<1>2. g \in Seq(T) /\ f \in Seq(T) /\ Len(f) = m + 1 /\ Len(g) = m
  BY <1>1, SeqDef
<1>3. /\ h \in Seq(T) /\ Len(h) = m + 1
      /\ \A i \in 1..m : h[i] = g[i]
      /\ h[m + 1] = f[m + 1]
  <2> HIDE DEF g
  <2> QED BY <1>1, <1>2, AppendProperties
<1>4. \A i \in 1..m : g[i] = f[i]
  OBVIOUS
<1> HIDE DEF h, g
<1>5. \A i \in 1..m + 1 : f[i] = h[i]
  BY <1>3, <1>4
<1>6. f = h
  BY <1>2, <1>3, <1>5, SeqEqual
<1> QED BY <1>2, <1>6 DEF h, g

\* An event that ends at a bound, if there is one.
Entry(s, i) == [name |-> NameBefore(s, i), data |-> DataBefore(s, i)]
Entries(s) == {Entry(s, i) : i \in Nat} \cup {Done}
Waiting(s, i) == IF DataBefore(s, i) = <<>> THEN <<>> ELSE <<Entry(s, i)>>

LEMMA EventsAre ==
  ASSUME NEW s \in Seq(Line), NEW i \in Nat
  PROVE  /\ Waiting(s, i) \in Seq(Entries(s))
         /\ EventsAt(s, i) =
              IF i \in 1..Len(s) /\ s[i].kind = "done" THEN Append(Waiting(s, i), Done)
                                                       ELSE Waiting(s, i)
         /\ EventsAt(s, i) \in Seq(Entries(s))
         /\ Said(s, i) \in Seq(Entries(s))
<1> DEFINE A == Entries(s)
           w == Waiting(s, i)
<1>1. Entry(s, i) \in A /\ Done \in A
  BY DEF Entries
<1> HIDE DEF A
<1>2. <<>> \in Seq(A) /\ <<Entry(s, i)>> \in Seq(A) /\ <<Done>> \in Seq(A)
  BY <1>1
<1>3. w \in Seq(A)
  BY <1>2 DEF Waiting
<1>4. EventsAt(s, i) = w \o (IF i \in DOMAIN s /\ s[i].kind = "done" THEN <<Done>> ELSE <<>>)
  BY DEF EventsAt, Waiting, Entry
<1> HIDE DEF w
<1>5. w \o <<>> = w /\ w \o <<Done>> = Append(w, Done) /\ Append(w, Done) \in Seq(A)
  BY <1>1, <1>3, ConcatEmptySeq, AppendIsConcat, AppendProperties
<1>6. DOMAIN s = 1..Len(s)
  BY LenProperties
<1>7. EventsAt(s, i) = IF i \in 1..Len(s) /\ s[i].kind = "done" THEN Append(w, Done) ELSE w
  BY <1>4, <1>5, <1>6
<1>8. EventsAt(s, i) \in Seq(A)
  BY <1>3, <1>5, <1>7
<1>9. Said(s, i) \in Seq(A)
  BY <1>2, <1>8 DEF Said
<1> QED BY <1>3, <1>7, <1>8, <1>9 DEF A, w

\* One bound more.
LEMMA FramedNext ==
  ASSUME NEW s \in Seq(Line), NEW m \in Nat
  PROVE  Framed(s, m + 1) = Framed(s, m) \o Said(s, m + 1)
<1> DEFINE A == Entries(s)
           f == [i \in 1..m + 1 |-> Said(s, i)]
           g == [i \in 1..m |-> Said(s, i)]
<1>1. f \in [1..m + 1 -> Seq(A)] /\ Said(s, m + 1) \in Seq(A)
  <2> HIDE DEF A
  <2>1. \A i \in Nat : Said(s, i) \in Seq(A)
    BY EventsAre DEF A
  <2> QED BY <2>1
<1>2. f[m + 1] = Said(s, m + 1) /\ [i \in 1..m |-> f[i]] = g
  OBVIOUS
<1> HIDE DEF A, f
<1>3. g \in Seq(Seq(A)) /\ f = Append(g, Said(s, m + 1))
  <2>1. [i \in 1..m |-> f[i]] \in Seq(Seq(A)) /\ f = Append([i \in 1..m |-> f[i]], f[m + 1])
    BY <1>1, Extended
  <2> QED BY <1>2, <2>1
<1> HIDE DEF g
<1>4. Seqs!FlattenSeq(f) = Seqs!FlattenSeq(g) \o Said(s, m + 1)
  BY <1>1, <1>3, FlattenAppend
<1> QED BY <1>4 DEF Framed, f, g

LEMMA EventsAppend ==
  ASSUME NEW s \in Seq(Line), NEW l \in Line
  PROVE  /\ \A i \in 1..Len(s) : EventsAt(Append(s, l), i) = EventsAt(s, i)
         /\ EventsAt(s, Len(s) + 1) = Waiting(s, Len(s) + 1)
         /\ EventsAt(Append(s, l), Len(s) + 1) =
              IF l.kind = "done" THEN Append(Waiting(s, Len(s) + 1), Done)
                                 ELSE Waiting(s, Len(s) + 1)
<1> DEFINE t == Append(s, l)
<1>1. /\ t \in Seq(Line) /\ Len(s) \in Nat /\ Len(t) = Len(s) + 1
      /\ t[Len(s) + 1] = l /\ \A i \in 1..Len(s) : t[i] = s[i]
  BY Appended
<1>2. \A i \in 1..Len(s) + 1 : Waiting(t, i) = Waiting(s, i)
  BY DataAppend, NameAppend DEF Waiting, Entry
<1> HIDE DEF t
<1>3. ASSUME NEW i \in 1..Len(s)  PROVE EventsAt(t, i) = EventsAt(s, i)
  <2>1. i \in Nat /\ i \in 1..Len(t) /\ i \in 1..Len(s) + 1 /\ t[i] = s[i]
    BY <1>1
  <2>2. EventsAt(t, i) = IF t[i].kind = "done" THEN Append(Waiting(t, i), Done)
                                               ELSE Waiting(t, i)
    BY <1>1, <2>1, EventsAre
  <2>3. EventsAt(s, i) = IF s[i].kind = "done" THEN Append(Waiting(s, i), Done)
                                               ELSE Waiting(s, i)
    BY <1>1, <2>1, EventsAre
  <2> QED BY <1>2, <2>1, <2>2, <2>3
<1>4. /\ Len(s) + 1 \in Nat /\ Len(s) + 1 \notin 1..Len(s)
      /\ Len(s) + 1 \in 1..Len(t) /\ Len(s) + 1 \in 1..Len(s) + 1
  BY <1>1
<1>5. EventsAt(s, Len(s) + 1) = Waiting(s, Len(s) + 1)
  BY <1>4, EventsAre
<1>6. EventsAt(t, Len(s) + 1) =
        IF t[Len(s) + 1].kind = "done" THEN Append(Waiting(t, Len(s) + 1), Done)
                                       ELSE Waiting(t, Len(s) + 1)
  BY <1>1, <1>4, EventsAre
<1>7. EventsAt(t, Len(s) + 1) =
        IF l.kind = "done" THEN Append(Waiting(s, Len(s) + 1), Done)
                           ELSE Waiting(s, Len(s) + 1)
  BY <1>1, <1>2, <1>4, <1>6
<1> QED BY <1>3, <1>5, <1>7 DEF t

LEMMA FramedAppend ==
  ASSUME NEW s \in Seq(Line), NEW l \in Line
  PROVE  Framed(Append(s, l), Len(s)) = Framed(s, Len(s))
<1> DEFINE t == Append(s, l)
           n == Len(s)
<1>1. t \in Seq(Line) /\ n \in Nat
  BY Appended
<1>2. \A j \in Bounds(s) \cup Bounds(t) : j \in Nat \ {0}
  <2>1. Bounds(s) \subseteq 1..Len(s) + 1
    BY BoundsAre
  <2>2. Bounds(t) \subseteq 1..Len(t) + 1
    BY <1>1, BoundsAre
  <2> QED BY <2>1, <2>2
<1>3. \A j \in 1..n : j \in Bounds(t) <=> j \in Bounds(s)
  BY BoundsAppend
<1>4. \A j \in 1..n : EventsAt(t, j) = EventsAt(s, j)
  BY EventsAppend
<1> HIDE DEF t, n
<1>5. ASSUME NEW i \in 1..n  PROVE Said(t, i) = Said(s, i)
  <2>1. \A j \in Nat \ {0} : j < i => j \in 1..n
    BY <1>1
  <2>2. (\A j \in Bounds(t) : j < i => ~Over(EventsAt(t, j)))
          <=> (\A j \in Bounds(s) : j < i => ~Over(EventsAt(s, j)))
    BY <1>2, <1>3, <1>4, <2>1
  <2> QED BY <1>3, <1>4, <2>2 DEF Said
<1>6. [i \in 1..n |-> Said(t, i)] = [i \in 1..n |-> Said(s, i)]
  BY <1>5
<1> QED BY <1>6 DEF Framed, t, n

LEMMA SinceNext ==
  ASSUME NEW s \in Seq(Line), NEW l \in Line
  PROVE  Since(Append(s, l), Len(s) + 2) =
           IF l.kind \in Bound THEN Len(s) + 1 ELSE Since(s, Len(s) + 1)
<1> DEFINE t == Append(s, l)
           n == Len(s)
           S == {0} \cup {j \in Bounds(t) : j < n + 2}
           f == Since(s, n + 1)
<1>1. t \in Seq(Line) /\ n \in Nat /\ Len(t) = n + 1
  BY Appended
<1>2. /\ \A j \in 1..n : j \in Bounds(t) <=> j \in Bounds(s)
      /\ n + 1 \in Bounds(t) <=> l.kind \in Bound
  BY BoundsAppend
<1>3. Bounds(t) \subseteq 1..n + 2 /\ Bounds(s) \subseteq 1..n + 1
  <2>1. Bounds(s) \subseteq 1..Len(s) + 1
    BY BoundsAre
  <2>2. Bounds(t) \subseteq 1..Len(t) + 1
    BY <1>1, BoundsAre
  <2> QED BY <1>1, <2>1, <2>2
<1>4. /\ f \in 0..n
      /\ f = 0 \/ f \in Bounds(s)
      /\ \A j \in Bounds(s) : j < n + 1 => j <= f
  BY <1>1, SinceIs
<1>5. Since(t, n + 2) = Latest(S)
  BY DEF Since
<1> HIDE DEF t, n, f
<1>6. S \in SUBSET Int
  BY <1>3
<1>7. CASE l.kind \in Bound
  <2>1. n + 1 \in S /\ \A j \in S : j <= n + 1
    BY <1>1, <1>2, <1>3, <1>7
  <2> HIDE DEF S
  <2>2. Latest(S) = n + 1
    BY <1>6, <2>1, LatestOne
  <2> QED BY <1>5, <1>7, <2>2 DEF t, n
<1>8. CASE l.kind \notin Bound
  <2>1. f \in S
    BY <1>1, <1>2, <1>4
  <2>2. ASSUME NEW j \in S  PROVE j <= f
    <3>1. j = 0 \/ (j \in 1..n /\ j \in Bounds(t))
      BY <1>1, <1>2, <1>3, <1>8
    <3>2. j = 0 \/ (j \in 1..n /\ j \in Bounds(s))
      BY <1>2, <3>1
    <3> QED BY <1>1, <1>4, <3>2
  <2> HIDE DEF S
  <2>3. Latest(S) = f
    BY <1>6, <2>1, <2>2, LatestOne
  <2> QED BY <1>5, <1>8, <2>3 DEF t, n, f
<1> QED BY <1>7, <1>8

\* The texts of m lines from a bound on.
Texts(s, f, m) == [k \in 1..m |-> TextOf(s[f + k])]

LEMMA DataIs ==
  ASSUME NEW s, NEW i, NEW f, f = Since(s, i), NEW m, m = i - 1 - f
  PROVE  DataBefore(s, i) = Seqs!FlattenSeq(Texts(s, f, m))
  BY DEF DataBefore, Texts

LEMMA DataNext ==
  ASSUME NEW s \in Seq(Line), NEW l \in Line
  PROVE  DataBefore(Append(s, l), Len(s) + 2) =
           IF l.kind \in Bound THEN <<>> ELSE DataBefore(s, Len(s) + 1) \o TextOf(l)
<1> DEFINE t == Append(s, l)
           n == Len(s)
           g == Since(t, n + 2)
<1>1. /\ t \in Seq(Line) /\ n \in Nat /\ t[n + 1] = l
      /\ \A i \in 1..n : t[i] = s[i]
  BY Appended
<1>2. g = IF l.kind \in Bound THEN n + 1 ELSE Since(s, n + 1)
  BY SinceNext
<1>4. Since(s, n + 1) \in 0..n + 1 - 1
  BY <1>1, SinceIs
<1>5. g = Since(t, n + 2)
  OBVIOUS
<1> HIDE DEF t, n, g
<1>6. CASE l.kind \in Bound
  <2>1. 0 = n + 2 - 1 - g
    BY <1>1, <1>2, <1>6
  <2>2. Texts(t, g, 0) = <<>>
    BY DEF Texts
  <2>3. DataBefore(t, n + 2) = Seqs!FlattenSeq(Texts(t, g, 0))
    <3>1. PICK i : i = n + 2
      OBVIOUS
    <3>2. 0 = i - 1 - g
      BY <1>1, <1>2, <1>6, <3>1
    <3>4. g = Since(t, i)
      BY <1>5, <3>1
    <3>3. DataBefore(t, i) = Seqs!FlattenSeq(Texts(t, g, 0))
      BY <3>2, <3>4, DataIs
    <3> QED BY <3>1, <3>3
  <2> QED BY <1>6, <2>2, <2>3, FlattenNone DEF t, n
<1>7. CASE l.kind \notin Bound
  <2> DEFINE m == n - g
             f == Texts(t, g, m + 1)
             h == Texts(s, g, m)
  <2>1. /\ g = Since(s, n + 1) /\ g \in 0..n /\ m \in Nat /\ g + (m + 1) = n + 1
        /\ n + 2 - 1 - g = m + 1 /\ n + 1 - 1 - g = m
        /\ \A k \in 1..m + 1 : g + k \in 1..n + 1
        /\ \A k \in 1..m : g + k \in 1..n
    BY <1>1, <1>2, <1>4, <1>7
  <2>2. \A i \in 1..n + 1 : TextOf(t[i]) \in Seq(Text)
    <3>1. \A i \in 1..n + 1 : t[i] \in Line
      BY <1>1, ElementOfSeq, Appended DEF t, n
    <3>2. ASSUME NEW x \in Line  PROVE TextOf(x) \in Seq(Text)
      <4>1. x.kind = "data" => x.text \in Text
        BY DEF Line
      <4> QED BY <4>1 DEF TextOf
    <3> QED BY <3>1, <3>2
  <2> HIDE DEF m
  <2>3. f \in [1..m + 1 -> Seq(Text)] /\ f[m + 1] = TextOf(l)
    <3>1. \A k \in 1..m + 1 : TextOf(t[g + k]) \in Seq(Text)
      BY <2>1, <2>2
    <3>2. m + 1 \in 1..m + 1 /\ TextOf(t[g + (m + 1)]) = TextOf(l)
      <4>1. t[g + (m + 1)] = l
        BY <1>1, <2>1
      <4> QED BY <2>1, <4>1
    <3> QED BY <3>1, <3>2 DEF Texts
  <2>4. [k \in 1..m |-> f[k]] = h
    <3>1. ASSUME NEW k \in 1..m  PROVE f[k] = TextOf(s[g + k])
      <4>1. k \in 1..m + 1
        BY <2>1
      <4>2. t[g + k] = s[g + k]
        BY <1>1, <2>1
      <4>3. f[k] = TextOf(t[g + k])
        BY <4>1 DEF Texts
      <4> QED BY <4>2, <4>3
    <3> QED BY <3>1 DEF Texts
  <2>5. TextOf(l) \in Seq(Text)
    BY <2>1, <2>3
  <2>6. DataBefore(t, n + 2) = Seqs!FlattenSeq(f)
    <3>1. PICK i, k : i = n + 2 /\ k = m + 1
      OBVIOUS
    <3>2. k = i - 1 - g /\ g = Since(t, i)
      BY <1>1, <1>5, <2>1, <3>1
    <3>3. DataBefore(t, i) = Seqs!FlattenSeq(Texts(t, g, k))
      BY <3>2, DataIs
    <3> QED BY <3>1, <3>3
  <2>7. DataBefore(s, n + 1) = Seqs!FlattenSeq(h)
    <3>1. m = n + 1 - 1 - g
      BY <2>1
    <3> QED BY <2>1, <3>1, DataIs
  <2> HIDE DEF f
  <2>8. h \in Seq(Seq(Text)) /\ f = Append(h, TextOf(l))
    <3>1. [i \in 1..m |-> f[i]] \in Seq(Seq(Text)) /\ f = Append([i \in 1..m |-> f[i]], f[m + 1])
      BY <2>1, <2>3, Extended
    <3> QED BY <2>3, <2>4, <3>1
  <2> HIDE DEF h
  <2>9. Seqs!FlattenSeq(f) = Seqs!FlattenSeq(h) \o TextOf(l)
    BY <2>5, <2>8, FlattenAppend
  <2> QED BY <1>7, <2>6, <2>7, <2>9 DEF t, n
<1> QED BY <1>6, <1>7

\* The event lines that may name what ends after m lines.
Naming(s, m) ==
  {j \in 1..m : s[j].kind = "event" /\ \A k \in j..m : s[k].kind # "blank"}

LEMMA NameIs ==
  ASSUME NEW s, NEW i, NEW m, m = i - 1
  PROVE  NameBefore(s, i) =
           IF Naming(s, m) = {} THEN "message" ELSE s[Latest(Naming(s, m))].name
  BY DEF NameBefore, Naming

LEMMA NameNext ==
  ASSUME NEW s \in Seq(Line), NEW l \in Line
  PROVE  NameBefore(Append(s, l), Len(s) + 2) =
           CASE l.kind = "event" -> l.name
             [] l.kind = "blank" -> "message"
             [] OTHER -> NameBefore(s, Len(s) + 1)
<1> DEFINE t == Append(s, l)
           n == Len(s)
           S == Naming(s, n)
           T == Naming(t, n + 1)
<1>1. /\ n \in Nat /\ t[n + 1] = l
      /\ \A i \in 1..n : t[i] = s[i]
  BY Appended
<1>3. NameBefore(s, n + 1) = IF S = {} THEN "message" ELSE s[Latest(S)].name
  <2> HIDE DEF n
  <2>1. PICK i : i = n + 1
    OBVIOUS
  <2>2. n = i - 1
    BY <1>1, <2>1
  <2>3. NameBefore(s, i) = IF S = {} THEN "message" ELSE s[Latest(S)].name
    BY <2>2, NameIs
  <2> QED BY <2>1, <2>3
<1>4. NameBefore(t, n + 2) = IF T = {} THEN "message" ELSE t[Latest(T)].name
  <2> HIDE DEF n, t
  <2>1. PICK i, m : i = n + 2 /\ m = n + 1
    OBVIOUS
  <2>2. m = i - 1
    BY <1>1, <2>1
  <2>3. NameBefore(t, i) = IF Naming(t, m) = {} THEN "message" ELSE t[Latest(Naming(t, m))].name
    BY <2>2, NameIs
  <2> QED BY <2>1, <2>3
<1> HIDE DEF t, n
<1>5. CASE l.kind = "event"
  <2>1. n + 1 \in T
    BY <1>1, <1>5 DEF Naming
  <2>2. T \in SUBSET Int /\ \A j \in T : j <= n + 1
    BY <1>1 DEF Naming
  <2> HIDE DEF T
  <2>3. Latest(T) = n + 1
    BY <2>1, <2>2, LatestOne
  <2> QED BY <1>1, <1>4, <1>5, <2>1, <2>3 DEF t, n
<1>6. CASE l.kind = "blank"
  <2>1. \A j \in 1..n + 1 : n + 1 \in j..n + 1
    BY <1>1
  <2>2. T = {}
    BY <1>1, <1>6, <2>1 DEF Naming
  <2> QED BY <1>4, <1>6, <2>2 DEF t, n
<1>7. CASE l.kind \notin {"event", "blank"}
  <2>1. S = T
    <3>1. ASSUME NEW j \in 1..n
          PROVE  (\A k \in j..n + 1 : t[k].kind # "blank") <=> (\A k \in j..n : s[k].kind # "blank")
      <4>1. \A k \in j..n + 1 : k \in j..n \/ k = n + 1
        BY <1>1
      <4>2. \A k \in j..n : k \in j..n + 1 /\ k \in 1..n
        BY <1>1
      <4> QED BY <1>1, <1>7, <4>1, <4>2
    <3>2. n + 1 \notin T
      BY <1>1, <1>7 DEF Naming
    <3>3. \A j \in 1..n + 1 : j \in 1..n \/ j = n + 1
      BY <1>1
    <3>4. \A j \in 1..n : j \in 1..n + 1
      BY <1>1
    <3> QED BY <1>1, <3>1, <3>2, <3>3, <3>4 DEF Naming
  <2>2. S # {} => Latest(S) \in 1..n
    <3>1. S \in SUBSET Nat /\ S \subseteq 1..n /\ \A j \in S : j <= n
      BY <1>1 DEF Naming
    <3> HIDE DEF S
    <3> QED BY <1>1, <3>1, LatestIn
  <2> HIDE DEF S, T
  <2>3. NameBefore(t, n + 2) = NameBefore(s, n + 1)
    BY <1>1, <1>3, <1>4, <2>1, <2>2
  <2> QED BY <1>7, <2>3 DEF t, n
<1> QED BY <1>5, <1>6, <1>7

-----------------------------------------------------------------------------
(* A stream half read: the reader holds the data lines since the last bound,  *)
(* its name is theirs, and the events are what the lines before have said.    *)

Streamed(x) ==
  LET n == Len(x.lines) IN
  /\ x.reader.data = DataBefore(x.lines, n + 1)
  /\ x.reader.name = NameBefore(x.lines, n + 1)
  /\ \A j \in Bounds(x.lines) : j <= n => ~Over(EventsAt(x.lines, j))
  /\ x.events = Framed(x.lines, n)
  /\ Len(x.events) <= MaxEvents

\* A stream read to the event that completes the answer.
Completed(x) ==
  /\ x.events = Framed(x.lines, Len(x.lines) + 1)
  /\ \E i \in DOMAIN x.events : Terminal(x.events[i])

Passable(x) == x.pc = "close" \/ (x.pc \in Writing /\ ~x.failed)

StreamOf(x) ==
  /\ x.pc \in Calling => x.lines = <<>> /\ x.events = <<>> /\ x.reader = Reader
  /\ x.pc = "stream" => Streamed(x)
  /\ x.pc = "finish" \/ Passable(x) => Completed(x)
  /\ Passable(x) => ~Erred(x.events)

Held(x) == IF x.reader.data = <<>> THEN <<>> ELSE <<x.reader>>
Refused(x) == x.reader.data # <<>> /\ ~Object(x.reader.data)

LEMMA HeldTyped ==
  ASSUME NEW x \in ClientType
  PROVE  /\ Held(x) \in Seq(Event) /\ Len(Held(x)) \in 0..1
         /\ Append(Held(x), Done) \in Seq(Event)
         /\ Len(Append(Held(x), Done)) = Len(Held(x)) + 1
<1>1. x.reader \in Event /\ <<x.reader>> \in Seq(Event) /\ Len(<<x.reader>>) = 1
  BY DEF ClientType
<1>2. Held(x) \in Seq(Event) /\ Len(Held(x)) \in 0..1
  BY <1>1 DEF Held
<1> QED BY <1>2, DoneTyped, AppendProperties

\* What the reader holds is what the lines say at their end.
LEMMA HeldIsWaiting ==
  ASSUME NEW x \in ClientType, Streamed(x)
  PROVE  Held(x) = Waiting(x.lines, Len(x.lines) + 1)
<1>1. x.reader = [name |-> x.reader.name, data |-> x.reader.data]
  BY DEF ClientType, Event
<1> QED BY <1>1 DEF Held, Waiting, Entry, Streamed

LEMMA NotGarbled ==
  ASSUME NEW x \in ClientType, ~Refused(x)
  PROVE  ~Garbled(Held(x)) /\ ~Garbled(Append(Held(x), Done))
<1>1. CASE x.reader.data = <<>>
  <2>1. Held(x) = <<>> /\ Append(<<>>, Done) = <<Done>> /\ <<Done>>[1] = Done
    BY <1>1 DEF Held
  <2> HIDE DEF Done
  <2> QED BY <2>1 DEF Garbled
<1>2. CASE x.reader.data # <<>>
  <2>1. Held(x)[1] = x.reader /\ Append(Held(x), Done)[1] = x.reader
    <3>1. Held(x) = <<x.reader>>
      BY <1>2 DEF Held
    <3> QED BY <3>1
  <2>2. Object(x.reader.data)
    BY <1>2 DEF Refused
  <2> QED BY <2>1, <2>2 DEF Garbled
<1> QED BY <1>1, <1>2

\* The end of the lines so far, as a bound.
LEMMA EndSays ==
  ASSUME NEW x \in ClientType, Streamed(x), ~Refused(x)
  PROVE  Framed(x.lines, Len(x.lines) + 1) = x.events \o Held(x)
<1> DEFINE s == x.lines
           n == Len(s)
<1>1. s \in Seq(Line) /\ n \in Nat
  BY DEF ClientType
<1>2. x.events = Framed(s, n) /\ \A j \in Bounds(s) : j <= n => ~Over(EventsAt(s, j))
  BY DEF Streamed
<1>3. EventsAt(s, n + 1) = Held(x)
  <2>1. EventsAt(s, n + 1) = Waiting(s, n + 1)
    <3>1. n + 1 \in Nat /\ n + 1 \notin 1..n
      BY <1>1
    <3> HIDE DEF s, n
    <3> QED BY <1>1, <3>1, EventsAre DEF n
  <2> QED BY <2>1, HeldIsWaiting
<1> HIDE DEF s, n
<1>4. n + 1 \in Bounds(s) /\ Bounds(s) \subseteq 1..n + 1
  BY <1>1, BoundsAre DEF n
<1>5. \A j \in Bounds(s) : j < n + 1 => j <= n
  BY <1>1, <1>4
<1>6. Said(s, n + 1) = Held(x)
  BY <1>2, <1>3, <1>4, <1>5, NotGarbled DEF Said
<1>7. Framed(s, n + 1) = Framed(s, n) \o Said(s, n + 1)
  BY <1>1, FramedNext
<1> QED BY <1>2, <1>6, <1>7 DEF s, n

\* A line that ends an event.
LEMMA BoundSays ==
  ASSUME NEW x \in ClientType, Streamed(x), ~Refused(x),
         NEW l \in Line, l.kind \in Bound,
         NEW events,
         events = IF l.kind = "done" THEN Append(Held(x), Done) ELSE Held(x)
  PROVE  LET t == Append(x.lines, l)
             n == Len(x.lines) IN
         /\ Framed(t, n + 1) = x.events \o events
         /\ EventsAt(t, n + 1) = events /\ ~Garbled(events)
         /\ n + 1 \in Bounds(t)
         /\ \A j \in Bounds(t) : j <= n => ~Over(EventsAt(t, j))
<1> DEFINE s == x.lines
           t == Append(s, l)
           n == Len(s)
<1>1. s \in Seq(Line)
  BY DEF ClientType
<1>2. x.events = Framed(s, n) /\ \A j \in Bounds(s) : j <= n => ~Over(EventsAt(s, j))
  BY DEF Streamed
<1>3. Waiting(s, n + 1) = Held(x)
  BY HeldIsWaiting
<1> HIDE DEF s
<1>4. t \in Seq(Line) /\ n \in Nat /\ Len(t) = n + 1
  BY <1>1, Appended
<1>5. EventsAt(t, n + 1) = events
  BY <1>1, <1>3, EventsAppend
<1>6. \A j \in 1..n : EventsAt(t, j) = EventsAt(s, j) /\ (j \in Bounds(t) <=> j \in Bounds(s))
  BY <1>1, EventsAppend, BoundsAppend
<1>7. n + 1 \in Bounds(t)
  BY <1>1, BoundsAppend
<1>8. Framed(t, n) = Framed(s, n)
  BY <1>1, FramedAppend
<1>9. Bounds(t) \subseteq 1..n + 2
  <2>1. Bounds(t) \subseteq 1..Len(t) + 1
    BY <1>4, BoundsAre
  <2> QED BY <1>4, <2>1
<1> HIDE DEF t, n
<1>10. ASSUME NEW j \in Bounds(t), j <= n  PROVE ~Over(EventsAt(t, j))
  <2>1. j \in 1..n
    BY <1>4, <1>9, <1>10
  <2> QED BY <1>2, <1>6, <1>10, <2>1
<1>11. ~Garbled(events)
  BY NotGarbled
<1>12. Said(t, n + 1) = events
  <2>1. \A j \in Bounds(t) : j < n + 1 => j <= n
    BY <1>4, <1>9
  <2> QED BY <1>5, <1>7, <1>10, <1>11, <2>1 DEF Said
<1>13. Framed(t, n + 1) = Framed(t, n) \o Said(t, n + 1)
  BY <1>4, FramedNext
<1>14. Framed(t, n + 1) = x.events \o events
  BY <1>2, <1>8, <1>12, <1>13
<1> QED BY <1>5, <1>7, <1>10, <1>11, <1>14 DEF t, n, s

\* A line that ends an event, and not the stream.
LEMMA BoundStays ==
  ASSUME NEW x \in ClientType, Streamed(x), ~Refused(x),
         NEW l \in Line, l.kind \in {"blank", "event"},
         ~\E i \in DOMAIN Held(x) : Terminal(Held(x)[i]),
         NEW y, y.lines = Append(x.lines, l), y.events = x.events \o Held(x),
         Len(y.events) <= MaxEvents, y.reader.data = <<>>,
         y.reader.name = IF l.kind = "event" THEN l.name ELSE "message"
  PROVE  Streamed(y)
<1> DEFINE s == x.lines
           t == Append(s, l)
           n == Len(s)
<1>1. /\ s \in Seq(Line) /\ t \in Seq(Line)
      /\ n \in Nat /\ Len(t) = n + 1 /\ (n + 1) + 1 = n + 2 /\ l.kind \in Bound
  BY Appended DEF ClientType, Bound
<1>2. /\ Framed(t, n + 1) = x.events \o Held(x)
      /\ EventsAt(t, n + 1) = Held(x) /\ ~Garbled(Held(x))
      /\ \A j \in Bounds(t) : j <= n => ~Over(EventsAt(t, j))
  BY <1>1, BoundSays
<1>3. y.reader.data = DataBefore(t, n + 2)
  BY <1>1, DataNext
<1>4. y.reader.name = NameBefore(t, n + 2)
  BY <1>1, NameNext
<1>5. Bounds(t) \subseteq 1..n + 2
  <2>1. Bounds(t) \subseteq 1..Len(t) + 1
    BY <1>1, BoundsAre
  <2> HIDE DEF t
  <2> QED BY <1>1, <2>1
<1> HIDE DEF t, n
<1>6. ASSUME NEW j \in Bounds(t), j <= n + 1  PROVE ~Over(EventsAt(t, j))
  <2>1. CASE j <= n
    BY <1>2, <2>1
  <2>2. CASE j = n + 1
    BY <1>2, <2>2 DEF Over
  <2> QED BY <1>1, <1>5, <1>6, <2>1, <2>2
<1>7. y.lines = t
  BY DEF t
<1>8. y.events = Framed(t, n + 1)
  BY <1>2
<1> QED BY <1>1, <1>3, <1>4, <1>6, <1>7, <1>8 DEF Streamed

\* A line that completes the answer.
LEMMA BoundEnds ==
  ASSUME NEW x \in ClientType, Streamed(x), ~Refused(x),
         NEW l \in Line, l.kind \in Bound,
         NEW events \in Seq(Event),
         events = (IF l.kind = "done" THEN Append(Held(x), Done) ELSE Held(x)),
         \E i \in DOMAIN events : Terminal(events[i]),
         NEW y, y.lines = Append(x.lines, l), y.events = x.events \o events
  PROVE  Completed(y) /\ Framed(y.lines, Len(y.lines) + 1) = y.events
<1> DEFINE s == x.lines
           t == Append(s, l)
           n == Len(s)
<1>1. /\ s \in Seq(Line) /\ t \in Seq(Line) /\ x.events \in Seq(Event)
      /\ n \in Nat /\ Len(t) = n + 1
  BY Appended DEF ClientType
<1>2. /\ Framed(t, n + 1) = x.events \o events
      /\ EventsAt(t, n + 1) = events
      /\ n + 1 \in Bounds(t)
  BY BoundSays
<1> HIDE DEF t, n, s
<1>3. Over(EventsAt(t, n + 1)) /\ n + 1 < (n + 1) + 1 /\ n + 1 \in Nat
  <2>1. Over(events)
    BY DEF Over
  <2> QED BY <1>1, <1>2, <2>1
<1>4. Said(t, (n + 1) + 1) = <<>>
  BY <1>2, <1>3 DEF Said
<1>5. Framed(t, (n + 1) + 1) = Framed(t, n + 1) \o Said(t, (n + 1) + 1)
  BY <1>1, <1>3, FramedNext
<1>6. y.events \in Seq(Event) /\ y.events \o <<>> = y.events /\ y.lines = t
  BY <1>1, ConcatProperties, ConcatEmptySeq DEF t, s
<1>7. Framed(y.lines, Len(y.lines) + 1) = y.events
  BY <1>1, <1>2, <1>4, <1>5, <1>6
<1>8. \E i \in DOMAIN y.events : Terminal(y.events[i])
  <2>1. PICK i \in DOMAIN events : Terminal(events[i])
    OBVIOUS
  <2> DEFINE f == x.events
  <2>2. f \in Seq(Event) /\ Len(f) \in Nat /\ i \in 1..Len(events) /\ Len(events) \in Nat
    BY <1>1, <2>1
  <2>3. y.events = f \o events
    OBVIOUS
  <2> HIDE DEF f
  <2>4. Len(y.events) = Len(f) + Len(events) /\ y.events[Len(f) + i] = events[i]
    <3>1. PICK k : k = Len(f) + i
      OBVIOUS
    <3>2. /\ k \in 1..Len(f) + Len(events) /\ ~(k <= Len(f)) /\ k - Len(f) = i
      BY <2>2, <3>1
    <3>3. /\ Len(f \o events) = Len(f) + Len(events)
          /\ \A j \in 1..Len(f) + Len(events) :
               (f \o events)[j] = IF j <= Len(f) THEN f[j] ELSE events[j - Len(f)]
      BY <2>2, ConcatProperties
    <3>4. (f \o events)[k] = events[i]
      BY <3>2, <3>3
    <3> QED BY <2>3, <3>1, <3>3, <3>4
  <2>5. Len(f) + i \in DOMAIN y.events
    <3>1. DOMAIN y.events = 1..Len(y.events)
      BY <1>6
    <3>2. Len(f) + i \in 1..Len(f) + Len(events)
      BY <2>2
    <3> QED BY <2>4, <3>1, <3>2
  <2> QED BY <2>1, <2>4, <2>5
<1> QED BY <1>7, <1>8 DEF Completed

\* A line that ends nothing.
LEMMA LineStays ==
  ASSUME NEW x \in ClientType, Streamed(x),
         NEW l \in Line, l.kind \in {"other", "data"},
         NEW y, y.lines = Append(x.lines, l), y.events = x.events,
         y.reader.name = x.reader.name,
         y.reader.data = x.reader.data \o TextOf(l)
  PROVE  Streamed(y)
<1> DEFINE s == x.lines
           t == Append(s, l)
           n == Len(s)
<1>1. /\ s \in Seq(Line) /\ t \in Seq(Line) /\ x.events \in Seq(Event)
      /\ n \in Nat /\ Len(t) = n + 1 /\ (n + 1) + 1 = n + 2 /\ l.kind \notin Bound
  BY Appended DEF ClientType, Bound
<1>2. /\ x.reader.data = DataBefore(s, n + 1)
      /\ x.reader.name = NameBefore(s, n + 1)
      /\ \A j \in Bounds(s) : j <= n => ~Over(EventsAt(s, j))
      /\ x.events = Framed(s, n)
      /\ Len(x.events) <= MaxEvents
  BY DEF Streamed
<1> HIDE DEF s
<1>3. y.reader.data = DataBefore(t, n + 2)
  BY <1>1, <1>2, DataNext
<1>4. y.reader.name = NameBefore(t, n + 2)
  BY <1>1, <1>2, NameNext
<1>5. n + 1 \notin Bounds(t)
  BY <1>1, BoundsAppend
<1>6. \A j \in 1..n : EventsAt(t, j) = EventsAt(s, j) /\ (j \in Bounds(t) <=> j \in Bounds(s))
  BY <1>1, EventsAppend, BoundsAppend
<1>7. Framed(t, n) = Framed(s, n)
  BY <1>1, FramedAppend
<1>8. Bounds(t) \subseteq 1..n + 2
  <2>1. Bounds(t) \subseteq 1..Len(t) + 1
    BY <1>1, BoundsAre
  <2> HIDE DEF t
  <2> QED BY <1>1, <2>1
<1>9. y.lines = t
  BY DEF t, s
<1> HIDE DEF t, n
<1>10. ASSUME NEW j \in Bounds(t), j <= n + 1  PROVE ~Over(EventsAt(t, j))
  <2>1. j \in 1..n
    BY <1>1, <1>5, <1>8, <1>10
  <2> QED BY <1>2, <1>6, <1>10, <2>1
<1>11. Framed(t, n + 1) = x.events
  <2>1. Said(t, n + 1) = <<>>
    BY <1>5 DEF Said
  <2>2. Framed(t, n + 1) = Framed(t, n) \o Said(t, n + 1)
    BY <1>1, FramedNext
  <2> QED BY <1>1, <1>2, <1>7, <2>1, <2>2, ConcatEmptySeq
<1> QED BY <1>1, <1>2, <1>3, <1>4, <1>9, <1>10, <1>11 DEF Streamed

\* The limit cuts alike, whatever comes after it.
LEMMA Limits ==
  ASSUME NEW s \in Seq(Event), NEW e \in Event, NEW m \in Nat
  PROVE  /\ Len(s) <= m => SubSeq(s, 1, Least(Len(s), m)) = s
         /\ m <= Len(s) =>
              SubSeq(Append(s, e), 1, Least(Len(Append(s, e)), m)) = SubSeq(s, 1, Least(Len(s), m))
<1> DEFINE t == Append(s, e)
<1>1. /\ t \in Seq(Event) /\ Len(t) = Len(s) + 1 /\ Len(s) \in Nat
      /\ \A i \in 1..Len(s) : t[i] = s[i]
  BY AppendProperties
<1> HIDE DEF t
<1>2. ASSUME Len(s) <= m  PROVE SubSeq(s, 1, Least(Len(s), m)) = s
  <2>1. Least(Len(s), m) = Len(s)
    BY <1>2 DEF Least
  <2> QED BY <2>1, SubSeqFull
<1>3. ASSUME m <= Len(s)
      PROVE  SubSeq(t, 1, Least(Len(t), m)) = SubSeq(s, 1, Least(Len(s), m))
  <2>1. Least(Len(s), m) = m /\ Least(Len(t), m) = m
    BY <1>1, <1>3 DEF Least
  <2> DEFINE p == SubSeq(t, 1, m)
             q == SubSeq(s, 1, m)
  <2>2. /\ p \in Seq(Event) /\ Len(p) = m /\ \A i \in 1..m : p[i] = t[i]
        /\ q \in Seq(Event) /\ Len(q) = m /\ \A i \in 1..m : q[i] = s[i]
    <3>1. 1 \in 1..Len(s) + 1 /\ 1 \in 1..Len(t) + 1 /\ m \in 0..Len(s) /\ m \in 0..Len(t)
      BY <1>1, <1>3
    <3>2. m - 1 + 1 = m /\ \A i \in 1..m : 1 + i - 1 = i
      OBVIOUS
    <3> QED BY <1>1, <1>3
  <2> HIDE DEF p, q
  <2>3. \A i \in 1..m : p[i] = q[i]
    <3>1. \A i \in 1..m : i \in 1..Len(s)
      BY <1>1, <1>3
    <3> QED BY <1>1, <2>2, <3>1
  <2>4. p = q
    BY <2>2, <2>3, SeqEqual
  <2> QED BY <2>1, <2>4 DEF p, q
<1> QED BY <1>2, <1>3 DEF t

-----------------------------------------------------------------------------
(* What a step of a client does to its stream, to what it counts as passed    *)
(* and to what it keeps.                                                      *)

LinesFrom(x, y) == IF y.lines = <<>> THEN x.lines ELSE y.lines

Keeps(x, y) ==
  \E end \in {Len(LinesFrom(x, y)), Len(LinesFrom(x, y)) + 1} :
    y.events = Accepted(LinesFrom(x, y), end)

Effect(c) ==
  /\ \A d \in Client \ {c} : client'[d] = client[d]
  /\ StreamOf(client'[c])
  /\ client'[c].verified > client[c].verified => Answered(client[c].lines, Check(c))
  /\ client[c].pc = "stream" /\ client'[c].pc \notin {"stream", "ended"} =>
       Keeps(client[c], client'[c])

LEMMA EffectOf ==
  ASSUME Inv, NEW c \in Client, NEW e, Become(c, e), StreamOf(e),
         e.verified \in {0, client[c].verified},
         client[c].pc = "stream" /\ e.pc \notin {"stream", "ended"} => Keeps(client[c], e)
  PROVE  Effect(c)
<1>1. client'[c] = e /\ \A d \in Client \ {c} : client'[d] = client[d]
  BY BecomeEffect
<1>2. client[c].verified \in Nat
  BY DEF Inv, ClientType
<1>3. ~(e.verified > client[c].verified)
  BY <1>2
<1> QED BY <1>1, <1>3 DEF Effect

LEMMA FailWithEffect ==
  ASSUME Inv, NEW c \in Client, NEW events, FailWith(c, events),
         client[c].pc = "stream" =>
           \E end \in {Len(client[c].lines), Len(client[c].lines) + 1} :
             events = Accepted(client[c].lines, end)
  PROVE  Effect(c)
<1> DEFINE x == client[c]
           e == [x EXCEPT !.pc = AfterCall(c), !.failed = TRUE, !.events = events,
                          !.lines = <<>>, !.reader = Reader, !.late = FALSE]
<1>1. Become(c, e)
  BY DEF FailWith
<1>2. /\ e.pc \in Writing \ Calling /\ e.failed /\ e.events = events
      /\ e.lines = <<>> /\ e.verified = x.verified
      /\ e.pc \notin {"stream", "finish", "close"}
  BY AfterCallWrites DEF Inv, ClientType, Writing, Calling, AfterCall
<1> HIDE DEF e
<1>3. StreamOf(e)
  BY <1>2 DEF StreamOf, Passable
<1>4. x.pc = "stream" => Keeps(x, e)
  BY <1>2 DEF Keeps, LinesFrom
<1> QED BY <1>1, <1>2, <1>3, <1>4, EffectOf

\* Of a stream that breaks off, the events stay.
LEMMA FailEffect ==
  ASSUME Inv, NEW c \in Client, StreamOf(client[c]), Fail(c)
  PROVE  Effect(c)
<1> DEFINE x == client[c]
<1>1. x.events \in Seq(Event) /\ MaxEvents \in Nat
  BY LimitsAreNatural DEF Inv, ClientType
<1>2. x.pc = "stream" => x.events = Accepted(x.lines, Len(x.lines))
  <2>1. ASSUME x.pc = "stream"  PROVE x.events = Accepted(x.lines, Len(x.lines))
    <3>1. x.events = Framed(x.lines, Len(x.lines)) /\ Len(x.events) <= MaxEvents
      BY <2>1 DEF StreamOf, Streamed
    <3>2. SubSeq(x.events, 1, Least(Len(x.events), MaxEvents)) = x.events
      <4>1. PICK f \in Seq(Event) : f = x.events
        BY <1>1
      <4>2. SubSeq(f, 1, Least(Len(f), MaxEvents)) = f
        <5>1. Least(Len(f), MaxEvents) = Len(f)
          BY <3>1, <4>1 DEF Least
        <5> QED BY <5>1, SubSeqFull
      <4> QED BY <4>1, <4>2
    <3> QED BY <3>1, <3>2 DEF Accepted
  <2> QED BY <2>1
<1>3. FailWith(c, x.events)
  BY DEF Fail
<1> HIDE DEF x
<1>4. x.pc = "stream" => \E end \in {Len(x.lines), Len(x.lines) + 1} : x.events = Accepted(x.lines, end)
  BY <1>2
<1> QED BY <1>3, <1>4, FailWithEffect DEF x

\* A step that leaves the stream alone.
LEMMA QuietEffect ==
  ASSUME Inv, NEW c \in Client, StreamOf(client[c]), NEW e, Become(c, e),
         e.lines = client[c].lines, e.reader = client[c].reader,
         e.events = client[c].events, e.verified = client[c].verified,
         \/ e.pc = client[c].pc /\ e.failed = client[c].failed
         \/ client[c].pc = "connect" /\ e.pc = "open"
         \/ Passable(client[c]) /\ e.pc \in Writing
         \/ e.pc \in Writing /\ e.failed /\ client[c].pc # "stream"
  PROVE  Effect(c)
<1> DEFINE x == client[c]
<1>1. Streamed(e) <=> Streamed(x)
  BY DEF Streamed
<1>2. Completed(e) <=> Completed(x)
  BY DEF Completed
<1>3. Passable(x) => x.pc # "stream"
  BY DEF Passable, Writing
<1>4. StreamOf(e)
  BY <1>1, <1>2 DEF StreamOf, Passable, Calling, Writing
<1>5. x.pc = "stream" => e.pc = "stream"
  BY <1>3
<1> HIDE DEF x
<1> QED BY <1>4, <1>5, EffectOf DEF x

\* A line that ends an event.
LEMMA AcceptEffect ==
  ASSUME Inv, NEW c \in Client, StreamOf(client[c]), client[c].pc = "stream",
         NEW l \in Line, l.kind \in Bound,
         NEW events, NEW reader \in Event,
         events = (IF l.kind = "done" THEN Append(Held(client[c]), Done) ELSE Held(client[c])),
         l.kind # "done" =>
           reader.data = <<>> /\ reader.name = IF l.kind = "event" THEN l.name ELSE "message",
         Accept(c, Append(client[c].lines, l), events, reader)
  PROVE  Effect(c)
<1> DEFINE x == client[c]
           t == Append(x.lines, l)
           all == x.events \o events
           accepted == SubSeq(all, 1, Least(Len(all), MaxEvents))
           ended == \E i \in DOMAIN events : Terminal(events[i])
           next == IF ended THEN "finish" ELSE "stream"
           e == [x EXCEPT !.lines = t, !.events = all, !.reader = reader, !.pc = next]
<1>1. /\ x \in ClientType /\ x.events \in Seq(Event) /\ x.lines \in Seq(Line)
      /\ MaxEvents \in Nat /\ Streamed(x)
  BY LimitsAreNatural DEF Inv, ClientType, StreamOf
<1>2. events \in Seq(Event) /\ all \in Seq(Event) /\ t \in Seq(Line) /\ t # <<>>
  <2>1. events \in Seq(Event)
    BY <1>1, HeldTyped
  <2>2. t \in Seq(Line) /\ Len(t) = Len(x.lines) + 1 /\ Len(x.lines) \in Nat
    BY <1>1, Appended
  <2>3. t # <<>>
    BY <2>2
  <2> QED BY <1>1, <2>1, <2>2, <2>3, ConcatProperties
<1>3. CASE Fail(c)
  BY <1>3, FailEffect
<1>4. CASE ~Refused(x) /\ Len(all) > MaxEvents /\ FailWith(c, accepted)
  <2> DEFINE said == x.events \o Held(x)
  <2>1. said \in Seq(Event) /\ Framed(x.lines, Len(x.lines) + 1) = said
    BY <1>1, <1>4, HeldTyped, EndSays, ConcatProperties
  <2>2. accepted = SubSeq(said, 1, Least(Len(said), MaxEvents))
    <3>1. CASE l.kind = "done"
      <4>1. all = Append(said, Done)
        <5>1. Held(x) \in Seq(Event) /\ <<Done>> \in Seq(Event)
          BY <1>1, HeldTyped, DoneTyped
        <5>2. events = Held(x) \o <<Done>> /\ Append(said, Done) = said \o <<Done>>
          BY <1>1, <2>1, <3>1, <5>1, DoneTyped, AppendIsConcat
        <5>3. x.events \o (Held(x) \o <<Done>>) = (x.events \o Held(x)) \o <<Done>>
          <6>1. \A a, b, d \in Seq(Event) : a \o (b \o d) = (a \o b) \o d
            BY ConcatAssociative
          <6> QED BY <1>1, <5>1, <6>1
        <5> QED BY <5>2, <5>3
      <4> HIDE DEF all, said
      <4>2. MaxEvents <= Len(said)
        <5>1. Len(said) \in Nat /\ Len(Append(said, Done)) = Len(said) + 1
          BY <2>1, DoneTyped, AppendProperties
        <5> QED BY <1>1, <1>4, <4>1, <5>1
      <4> QED BY <1>1, <2>1, <4>1, <4>2, DoneTyped, Limits
    <3>2. CASE l.kind # "done"
      BY <3>2
    <3> QED BY <3>1, <3>2
  <2>3. accepted = Accepted(x.lines, Len(x.lines) + 1)
    BY <2>1, <2>2 DEF Accepted
  <2> HIDE DEF accepted, x
  <2>4. \E end \in {Len(x.lines), Len(x.lines) + 1} : accepted = Accepted(x.lines, end)
    BY <2>3
  <2> QED BY <1>4, <2>4, FailWithEffect DEF x
<1>5. CASE ~Refused(x) /\ ~(Len(all) > MaxEvents) /\ Become(c, e)
  <2>1. next \in {"finish", "stream"} /\ (next = "finish" <=> ended)
    OBVIOUS
  <2> HIDE DEF all, t, next, ended
  <2>2. /\ e.lines = t /\ e.events = all /\ e.reader = reader /\ e.pc = next
        /\ e.verified = x.verified
    BY <1>1 DEF ClientType
  <2> HIDE DEF e
  <2>3. Len(all) \in Nat /\ Len(all) <= MaxEvents
    BY <1>1, <1>2, <1>5
  <2>4. CASE ended
    <3>1. Completed(e) /\ Framed(e.lines, Len(e.lines) + 1) = e.events
      BY <1>1, <1>2, <1>5, <2>2, <2>4, BoundEnds DEF t, all, ended
    <3>2. StreamOf(e)
      BY <2>1, <2>2, <2>4, <3>1 DEF StreamOf, Passable, Calling, Writing
    <3>3. e.events = Accepted(e.lines, Len(e.lines) + 1)
      BY <1>1, <1>2, <2>2, <2>3, <3>1, DoneTyped, Limits DEF Accepted
    <3>4. Keeps(x, e)
      BY <1>2, <2>2, <3>3 DEF Keeps, LinesFrom
    <3> HIDE DEF x
    <3> QED BY <1>5, <2>2, <3>2, <3>4, EffectOf DEF x
  <2>5. CASE ~ended
    <3>1. l.kind # "done"
      <4>1. ASSUME l.kind = "done"  PROVE ended
        <5>1. /\ Len(events) \in Nat \ {0} /\ events[Len(events)] = Done
              /\ DOMAIN events = 1..Len(events)
          <6>1. Held(x) \in Seq(Event) /\ events = Append(Held(x), Done)
            BY <1>1, <4>1, HeldTyped
          <6> QED BY <1>2, <6>1, DoneTyped, AppendProperties
        <5>2. Terminal(Done)
          BY DEF Terminal, Done
        <5> QED BY <5>1, <5>2 DEF ended
      <4> QED BY <2>5, <4>1
    <3>2. l.kind \in {"blank", "event"} /\ events = Held(x)
      BY <3>1 DEF Bound
    <3>3. Streamed(e)
      BY <1>1, <1>5, <2>2, <2>3, <2>5, <3>1, <3>2, BoundStays DEF t, all, ended
    <3>4. StreamOf(e) /\ e.pc = "stream"
      BY <2>1, <2>2, <2>5, <3>3 DEF StreamOf, Passable, Calling, Writing
    <3> HIDE DEF x
    <3> QED BY <1>5, <2>2, <3>4, EffectOf DEF x
  <2> QED BY <2>4, <2>5
<1>6. Malformed(c) <=> Refused(x)
  BY DEF Malformed, Refused
<1> QED BY <1>3, <1>4, <1>5, <1>6 DEF Accept

LEMMA ReadLineEffect ==
  ASSUME Inv, NEW c \in Client, StreamOf(client[c]), client[c].pc = "stream",
         NEW l \in Line, ReadLine(c, l)
  PROVE  Effect(c)
<1> DEFINE x == client[c]
           t == Append(x.lines, l)
<1>1. x \in ClientType /\ x.reader \in Event /\ Streamed(x) /\ Pending(c) = Held(x)
  BY DEF Inv, ClientType, StreamOf, Pending, Held
<1>2. l.kind \in {"other", "blank", "done", "event", "data"}
  BY DEF Line
<1>3. CASE l.kind \in Bound
  <2> DEFINE events == IF l.kind = "done" THEN Append(Held(x), Done) ELSE Held(x)
  <2>1. PICK reader : /\ Accept(c, t, events, reader)
                      /\ reader = IF l.kind = "done" THEN x.reader
                                  ELSE IF l.kind = "event" THEN [Reader EXCEPT !.name = l.name]
                                  ELSE Reader
    BY <1>1, <1>3 DEF ReadLine, Bound
  <2>2. l.kind = "event" => l.name \in Name
    BY DEF Line
  <2>3. reader \in Event
    BY <1>1, <2>1, <2>2, ReaderTyped DEF Event
  <2>4. l.kind # "done" =>
          reader.data = <<>> /\ reader.name = IF l.kind = "event" THEN l.name ELSE "message"
    BY <2>1 DEF Reader
  <2> QED BY <1>3, <2>1, <2>3, <2>4, AcceptEffect
<1>4. CASE l.kind = "other"
  <2> DEFINE e == [x EXCEPT !.lines = t]
  <2>1. Become(c, e)
    BY <1>4 DEF ReadLine
  <2> HIDE DEF t
  <2>2. /\ e.lines = t /\ e.events = x.events /\ e.reader = x.reader /\ e.pc = x.pc
        /\ e.verified = x.verified
    BY <1>1 DEF ClientType
  <2>3. x.reader.data \in Seq(Text)
    BY <1>1 DEF Event
  <2>4. e.reader.data = x.reader.data \o TextOf(l) /\ e.reader.name = x.reader.name
    BY <1>4, <2>2, <2>3, ConcatEmptySeq DEF TextOf
  <2> HIDE DEF e
  <2>5. Streamed(e)
    BY <1>1, <1>4, <2>2, <2>4, LineStays DEF t
  <2>6. StreamOf(e)
    BY <2>2, <2>5 DEF StreamOf, Passable, Calling, Writing
  <2> HIDE DEF x
  <2> QED BY <2>1, <2>2, <2>6, EffectOf DEF x
<1>5. CASE l.kind = "data"
  <2> DEFINE e == [x EXCEPT !.lines = t, !.reader.data = Append(@, l.text)]
  <2>1. Become(c, e)
    BY <1>5 DEF ReadLine
  <2> HIDE DEF t
  <2>2. /\ e.lines = t /\ e.events = x.events /\ e.pc = x.pc /\ e.verified = x.verified
        /\ e.reader.data = Append(x.reader.data, l.text) /\ e.reader.name = x.reader.name
    BY <1>1 DEF ClientType, Event
  <2>3. x.reader.data \in Seq(Text) /\ l.text \in Text
    BY <1>1, <1>5 DEF Event, Line
  <2>4. e.reader.data = x.reader.data \o TextOf(l)
    BY <1>5, <2>2, <2>3, AppendIsConcat DEF TextOf
  <2> HIDE DEF e
  <2>5. Streamed(e)
    BY <1>1, <1>5, <2>2, <2>4, LineStays DEF t
  <2>6. StreamOf(e)
    BY <2>2, <2>5 DEF StreamOf, Passable, Calling, Writing
  <2> HIDE DEF x
  <2> QED BY <2>1, <2>2, <2>6, EffectOf DEF x
<1> QED BY <1>2, <1>3, <1>4, <1>5 DEF Bound

LEMMA ReadEffect ==
  ASSUME Inv, NEW c \in Client, StreamOf(client[c]), Read(c)
  PROVE  Effect(c)
<1>1. client[c].pc = "stream"
  BY DEF Read, At
<1>2. ASSUME NEW l \in Answer[c], ReadLine(c, l)  PROVE Effect(c)
  <2>1. l \in Line
    BY LinesAreLines
  <2> QED BY <1>1, <1>2, <2>1, ReadLineEffect
<1> QED BY <1>2, FailEffect DEF Read

\* At the end of the stream, what the reader holds is said still.
LEMMA EndOfStreamEffect ==
  ASSUME Inv, NEW c \in Client, StreamOf(client[c]), EndOfStream(c)
  PROVE  Effect(c)
<1> DEFINE x == client[c]
           all == x.events \o Held(x)
           e == [x EXCEPT !.pc = "finish", !.events = all]
<1>1. /\ x \in ClientType /\ x.events \in Seq(Event) /\ x.lines \in Seq(Line)
      /\ x.pc = "stream" /\ MaxEvents \in Nat /\ Streamed(x)
  BY LimitsAreNatural DEF Inv, ClientType, StreamOf, EndOfStream, At
<1>2. /\ Held(x) \in Seq(Event) /\ all \in Seq(Event) /\ Len(all) \in Nat
  <2>1. Held(x) \in Seq(Event)
    BY <1>1, HeldTyped
  <2>2. all \in Seq(Event)
    BY <1>1, <2>1, ConcatProperties
  <2> HIDE DEF all
  <2> QED BY <2>1, <2>2
<1>3. /\ Malformed(c) <=> Refused(x)
      /\ Pending(c) = Held(x)
  BY DEF Malformed, Refused, Pending, Held
<1>4. CASE Fail(c)
  BY <1>4, FailEffect
<1>5. ASSUME ~Refused(x), Len(all) <= MaxEvents
      PROVE  /\ Framed(x.lines, Len(x.lines) + 1) = all
             /\ all = Accepted(x.lines, Len(x.lines) + 1)
  <2>1. Framed(x.lines, Len(x.lines) + 1) = all
    BY <1>1, <1>5, EndSays
  <2> HIDE DEF all
  <2>2. SubSeq(all, 1, Least(Len(all), MaxEvents)) = all
    BY <1>1, <1>2, <1>5, DoneTyped, Limits
  <2> QED BY <2>1, <2>2 DEF Accepted
<1>6. CASE ~Refused(x) /\ Len(all) <= MaxEvents /\ FailWith(c, all)
  <2> HIDE DEF all, x
  <2>1. \E end \in {Len(x.lines), Len(x.lines) + 1} : all = Accepted(x.lines, end)
    BY <1>5, <1>6
  <2> QED BY <1>6, <2>1, FailWithEffect DEF x
<1>7. CASE /\ ~Refused(x) /\ Len(all) <= MaxEvents
           /\ Held(x) # <<>> /\ Terminal(x.reader) /\ Become(c, e)
  <2>1. \E i \in DOMAIN all : Terminal(all[i])
    <3>1. Held(x) = <<x.reader>> /\ Len(Held(x)) = 1 /\ Held(x)[1] = x.reader
      BY <1>7 DEF Held
    <3> DEFINE f == x.events
               h == Held(x)
    <3>2. f \in Seq(Event) /\ Len(f) \in Nat /\ h \in Seq(Event)
      BY <1>1, <1>2
    <3>3. Len(h) = 1 /\ Terminal(h[1])
      BY <1>7, <3>1
    <3>4. all = f \o h
      OBVIOUS
    <3> HIDE DEF f, h, all
    <3>5. PICK k : k = Len(f) + 1
      OBVIOUS
    <3>6. k \in 1..Len(f) + Len(h) /\ ~(k <= Len(f)) /\ k - Len(f) = 1
      BY <3>2, <3>3, <3>5
    <3>7. k \in 1..Len(all) /\ all[k] = h[1]
      BY <3>2, <3>4, <3>6, ConcatProperties
    <3>8. DOMAIN all = 1..Len(all)
      BY <1>2
    <3> QED BY <3>3, <3>7, <3>8
  <2> HIDE DEF all
  <2>2. /\ e.lines = x.lines /\ e.events = all /\ e.pc = "finish" /\ e.verified = x.verified
    BY <1>1 DEF ClientType
  <2> HIDE DEF e
  <2>3. Completed(e)
    BY <1>5, <1>7, <2>1, <2>2 DEF Completed
  <2>4. StreamOf(e)
    BY <2>2, <2>3 DEF StreamOf, Passable, Calling, Writing
  <2>5. Keeps(x, e)
    <3>1. LinesFrom(x, e) = x.lines
      BY <2>2 DEF LinesFrom
    <3> QED BY <1>5, <1>7, <2>2, <3>1 DEF Keeps
  <2> HIDE DEF x
  <2> QED BY <1>7, <2>2, <2>4, <2>5, EffectOf DEF x
<1>8. Len(all) > MaxEvents <=> ~(Len(all) <= MaxEvents)
  <2>1. \A m, n \in Nat : m > n <=> ~(m <= n)
    OBVIOUS
  <2> HIDE DEF all
  <2> QED BY <1>1, <1>2, <2>1
<1> QED BY <1>3, <1>4, <1>6, <1>7, <1>8 DEF EndOfStream

LEMMA NothingRead ==
  /\ DataBefore(<<>>, 1) = <<>> /\ NameBefore(<<>>, 1) = "message"
  /\ Framed(<<>>, 0) = <<>> /\ \A j \in Bounds(<<>>) : ~(j <= 0)
<1>1. PICK s \in Seq(Line) : s = <<>> /\ Len(s) = 0
  BY EmptySeq
<1>2. Bounds(s) \subseteq 1..1
  <2>1. Bounds(s) \subseteq 1..Len(s) + 1
    BY BoundsAre
  <2>2. Len(s) + 1 = 1
    BY <1>1
  <2> QED BY <2>1, <2>2
<1>3. DataBefore(s, 1) = <<>>
  <2>1. PICK i \in Nat \ {0} : i = 1
    OBVIOUS
  <2>2. Since(s, i) = 0 /\ 0 = i - 1 - 0
    <3>1. Since(s, i) \in 0..i - 1
      BY SinceIs
    <3> QED BY <2>1, <3>1
  <2>3. Texts(s, 0, 0) = <<>>
    BY DEF Texts
  <2>4. DataBefore(s, i) = Seqs!FlattenSeq(Texts(s, 0, 0))
    BY <2>2, DataIs
  <2> QED BY <2>1, <2>3, <2>4, FlattenNone
<1>4. NameBefore(s, 1) = "message"
  <2>1. PICK i : i = 1
    OBVIOUS
  <2>2. 0 = i - 1 /\ Naming(s, 0) = {}
    BY <2>1 DEF Naming
  <2>3. NameBefore(s, i) = "message"
    BY <2>2, NameIs
  <2> QED BY <2>1, <2>3
<1>5. Framed(s, 0) = <<>>
  <2>1. [i \in 1..0 |-> Said(s, i)] = <<>>
    OBVIOUS
  <2> QED BY <2>1, FlattenNone DEF Framed
<1> QED BY <1>1, <1>2, <1>3, <1>4, <1>5

LEMMA OpenEffect ==
  ASSUME Inv, NEW c \in Client, StreamOf(client[c]), Open(c)
  PROVE  Effect(c)
<1> DEFINE x == client[c]
<1>1. x \in ClientType /\ x.pc = "open" /\ MaxEvents \in Nat
  BY LimitsAreNatural DEF Inv, Open, At
<1>2. x.lines = <<>> /\ x.events = <<>> /\ x.reader = Reader
  BY <1>1 DEF StreamOf, Calling
<1>3. SUFFICES ASSUME ~Fail(c)  PROVE Effect(c)
  BY FailEffect
<1>4. PICK pc \in {"stream", AfterCall(c)} :
        Become(c, [x EXCEPT !.pc = pc, !.opened = @ + 1, !.failed = pc # "stream"])
  BY <1>3 DEF Open
<1> DEFINE failed == pc # "stream"
           e == [x EXCEPT !.pc = pc, !.opened = @ + 1, !.failed = failed]
<1>5. /\ e.pc = pc /\ e.lines = x.lines /\ e.events = x.events /\ e.reader = x.reader
      /\ e.verified = x.verified /\ e.failed = failed
  BY <1>1 DEF ClientType
<1>6. Become(c, e)
  BY <1>4
<1>7. pc \in {"stream", "verdict", "check"}
  BY DEF AfterCall
<1> HIDE DEF e
<1>8. pc = "stream" => Streamed(e)
  <2>1. e.lines = <<>> /\ e.events = <<>> /\ e.reader.data = <<>> /\ e.reader.name = "message"
    BY <1>2, <1>5 DEF Reader
  <2>2. Len(<<>>) = 0 /\ 0 + 1 = 1 /\ 0 <= MaxEvents
    BY <1>1
  <2>3. Streamed(e)
    BY <2>1, <2>2, NothingRead DEF Streamed
  <2> QED BY <2>3
<1>9. StreamOf(e)
  BY <1>5, <1>7, <1>8 DEF StreamOf, Passable, Calling, Writing
<1> QED BY <1>1, <1>5, <1>6, <1>9, EffectOf

\* Errors among the events are not passed over.
LEMMA FinishEffect ==
  ASSUME Inv, NEW c \in Client, StreamOf(client[c]), Finish(c)
  PROVE  Effect(c)
<1> DEFINE x == client[c]
           e == [x EXCEPT !.pc = "close", !.reader = Reader]
<1>1. x \in ClientType /\ x.pc = "finish" /\ Completed(x)
  BY DEF Inv, Finish, At, StreamOf
<1>2. SUFFICES ASSUME ~Fail(c)  PROVE Effect(c)
  BY FailEffect
<1>3. ~Erred(x.events) /\ Become(c, e)
  BY <1>2 DEF Finish
<1>4. /\ e.pc = "close" /\ e.lines = x.lines /\ e.events = x.events
      /\ e.verified = x.verified
  BY <1>1 DEF ClientType
<1> HIDE DEF e
<1>5. Completed(e)
  BY <1>1, <1>4 DEF Completed
<1>6. StreamOf(e)
  BY <1>3, <1>4, <1>5 DEF StreamOf, Passable, Calling, Writing
<1> QED BY <1>1, <1>3, <1>4, <1>6, EffectOf

LEMMA ConnectEffect ==
  ASSUME Inv, NEW c \in Client, StreamOf(client[c]), Connect(c)
  PROVE  Effect(c)
<1> DEFINE x == client[c]
           e == [x EXCEPT !.pc = "open"]
<1>1. x \in ClientType /\ x.pc = "connect"
  BY DEF Inv, Connect, At
<1>2. SUFFICES ASSUME ~Fail(c)  PROVE Effect(c)
  BY FailEffect
<1>3. Become(c, e)
  BY <1>2 DEF Connect, Goto
<1>4. /\ e.pc = "open" /\ e.lines = x.lines /\ e.events = x.events
      /\ e.reader = x.reader /\ e.verified = x.verified
  BY <1>1 DEF ClientType
<1> HIDE DEF e
<1> QED BY <1>1, <1>3, <1>4, QuietEffect

LEMMA CleanUpEffect ==
  ASSUME Inv, NEW c \in Client, StreamOf(client[c]), CleanUp(c)
  PROVE  Effect(c)
<1> DEFINE x == client[c]
           e == [x EXCEPT !.pc = AfterCall(c)]
<1>1. x \in ClientType /\ Passable(x)
  BY DEF Inv, CleanUp, At, Passable
<1>2. SUFFICES ASSUME ~Fail(c)  PROVE Effect(c)
  BY FailEffect
<1>3. Become(c, e)
  BY <1>2 DEF CleanUp, Goto
<1>4. /\ e.pc = AfterCall(c) /\ e.lines = x.lines /\ e.events = x.events
      /\ e.reader = x.reader /\ e.verified = x.verified
  BY <1>1 DEF ClientType
<1>5. AfterCall(c) \in Writing
  BY AfterCallWrites DEF Writing
<1> HIDE DEF e
<1> QED BY <1>1, <1>3, <1>4, <1>5, QuietEffect

\* The artifact is written after the stream.
LEMMA WritingEffect ==
  ASSUME Inv, NEW c \in Client, StreamOf(client[c]),
         CheckTarget(c) \/ Create(c) \/ Fill(c)
  PROVE  Effect(c)
<1> DEFINE x == client[c]
           create == [x EXCEPT !.pc = "create"]
           fill == [x EXCEPT !.pc = "fill"]
           saved == [x EXCEPT !.pc = "verdict", !.saved = TRUE]
           unsaved == [x EXCEPT !.pc = "verdict", !.failed = TRUE]
           Same(e) == /\ e.lines = x.lines /\ e.events = x.events
                      /\ e.reader = x.reader /\ e.verified = x.verified
<1>1. x \in ClientType /\ x.pc \in Writing /\ x.pc # "stream"
  BY DEF Inv, CheckTarget, Create, Fill, At, Writing
<1>2. Become(c, create) \/ Become(c, fill) \/ Become(c, saved) \/ Become(c, unsaved)
  BY DEF CheckTarget, Create, Fill, Goto, Unsaved
<1>3. /\ Same(create) /\ create.pc \in Writing /\ create.failed = x.failed
      /\ Same(fill) /\ fill.pc \in Writing /\ fill.failed = x.failed
      /\ Same(saved) /\ saved.pc \in Writing /\ saved.failed = x.failed
      /\ Same(unsaved) /\ unsaved.pc \in Writing /\ unsaved.failed = TRUE
  BY <1>1 DEF ClientType, Writing
<1>4. Passable(x) \/ x.failed
  BY <1>1 DEF Passable
<1> HIDE DEF create, fill, saved, unsaved
<1> QED BY <1>1, <1>2, <1>3, <1>4, QuietEffect

LEMMA EndEffect ==
  ASSUME Inv, NEW c \in Client, NEW outcome, NEW verified, End(c, outcome, verified),
         verified > client[c].verified => Answered(client[c].lines, Check(c))
  PROVE  Effect(c)
<1> DEFINE x == client[c]
           events == IF x.saved THEN x.events ELSE <<>>
           e == [Idle EXCEPT !.pc = "ended", !.outcome = outcome, !.verified = verified,
                             !.command = x.command, !.opened = x.opened,
                             !.saved = x.saved, !.events = events]
<1>1. Become(c, e)
  BY DEF End
<1>2. e.pc = "ended" /\ e.verified = verified
  BY DEF Idle
<1> HIDE DEF e
<1>3. StreamOf(e)
  BY <1>2 DEF StreamOf, Passable, Calling, Writing
<1> QED BY <1>1, <1>2, <1>3, BecomeEffect DEF Effect

\* A check is verified with what its stream has said.
LEMMA VerdictEffect ==
  ASSUME Inv, NEW c \in Client, StreamOf(client[c]), Verdict(c)
  PROVE  Effect(c)
<1> DEFINE x == client[c]
           good == ~x.failed /\ Selected(x.events, Check(c))
<1>1. x.pc = "verdict" /\ x.verified \in Nat
  BY DEF Inv, ClientType, Verdict, At
<1>2. good => Answered(x.lines, Check(c))
  <2>1. ASSUME good  PROVE Answered(x.lines, Check(c))
    <3>1. Completed(x) /\ ~Erred(x.events)
      BY <1>1, <2>1 DEF StreamOf, Passable, Writing
    <3> QED BY <2>1, <3>1 DEF Answered, Completed, Erred
  <2> QED BY <2>1
<1>3. CASE ~good
  <2>1. End(c, "failed", x.verified) /\ ~(x.verified > x.verified)
    BY <1>1, <1>3 DEF Verdict
  <2> QED BY <2>1, EndEffect
<1>4. CASE good /\ Invoke(c, x.verified + 1)
  <2> DEFINE e == [Idle EXCEPT !.pc = "connect", !.command = x.command,
                               !.verified = x.verified + 1, !.opened = x.opened]
  <2>1. Become(c, e)
    BY <1>4 DEF Invoke
  <2>2. e.pc = "connect" /\ e.lines = <<>> /\ e.events = <<>> /\ e.reader = Reader
    BY DEF Idle
  <2> HIDE DEF e
  <2>3. StreamOf(e)
    BY <2>2 DEF StreamOf, Passable, Calling, Writing
  <2> QED BY <1>1, <1>2, <1>4, <2>1, <2>3, BecomeEffect DEF Effect
<1>5. CASE good /\ End(c, "passed", x.verified + 1)
  BY <1>2, <1>5, EndEffect
<1> QED BY <1>3, <1>4, <1>5 DEF Verdict

LEMMA OtherEffect ==
  ASSUME Inv, NEW c \in Client, StreamOf(client[c]),
         Begin(c) \/ Expire(c) \/ Kill(c)
  PROVE  Effect(c)
<1> DEFINE x == client[c]
<1>1. x \in ClientType /\ x.verified \in Nat
  BY DEF Inv, ClientType
<1>2. CASE Begin(c)
  <2>1. PICK k :
          \/ Become(c, [[Idle EXCEPT !.command = k] EXCEPT !.pc = "ended", !.outcome = "refused"])
          \/ Become(c, [[Idle EXCEPT !.command = k] EXCEPT !.pc = "ended", !.outcome = "passed"])
          \/ Become(c, [[Idle EXCEPT !.command = k] EXCEPT !.pc = "connect"])
    BY <1>2 DEF Begin
  <2> DEFINE asked == [Idle EXCEPT !.command = k]
             refused == [asked EXCEPT !.pc = "ended", !.outcome = "refused"]
             passed == [asked EXCEPT !.pc = "ended", !.outcome = "passed"]
             connect == [asked EXCEPT !.pc = "connect"]
             Fresh(e) == /\ e.lines = <<>> /\ e.events = <<>> /\ e.reader = Reader
                         /\ e.pc \in {"ended", "connect"} /\ e.verified = 0
  <2>2. Fresh(refused) /\ Fresh(passed) /\ Fresh(connect)
    BY DEF Idle
  <2>3. Become(c, refused) \/ Become(c, passed) \/ Become(c, connect)
    BY <2>1
  <2>4. x.pc = "idle"
    BY <1>2 DEF Begin, At
  <2> HIDE DEF refused, passed, connect
  <2>5. PICK e : Become(c, e) /\ Fresh(e)
    BY <2>2, <2>3
  <2>6. StreamOf(e)
    BY <2>5 DEF StreamOf, Passable, Calling, Writing
  <2> QED BY <2>4, <2>5, <2>6, EffectOf
<1>3. CASE Expire(c)
  <2> DEFINE e == [x EXCEPT !.late = TRUE]
  <2>1. Become(c, e)
    BY <1>3 DEF Expire
  <2>2. /\ e.pc = x.pc /\ e.failed = x.failed /\ e.lines = x.lines /\ e.events = x.events
        /\ e.reader = x.reader /\ e.verified = x.verified
    BY <1>1 DEF ClientType
  <2> HIDE DEF e
  <2> QED BY <2>1, <2>2, QuietEffect
<1>4. CASE Kill(c)
  <2>1. ~(x.verified > x.verified)
    BY <1>1
  <2> QED BY <1>4, <2>1, EndEffect DEF Kill
<1> QED BY <1>2, <1>3, <1>4

LEMMA StepEffect ==
  ASSUME Inv, NEW c \in Client, StreamOf(client[c]), ClientStep(c)
  PROVE  Effect(c)
<1>1. BreakOff(c) \/ TimeOut(c) => Fail(c)
  BY DEF BreakOff, TimeOut
<1> QED BY <1>1, FailEffect, OtherEffect, ConnectEffect, OpenEffect, ReadEffect,
           EndOfStreamEffect, FinishEffect, CleanUpEffect, WritingEffect, VerdictEffect
           DEF ClientStep, Alone

StreamInv == Inv /\ \A c \in Client : StreamOf(client[c])

LEMMA StreamInit == Init => StreamInv
<1> SUFFICES ASSUME Init  PROVE StreamInv
  OBVIOUS
<1>1. Idle.pc = "idle"
  BY DEF Idle
<1>2. StreamOf(Idle)
  BY <1>1 DEF StreamOf, Passable, Calling, Writing
<1> QED BY <1>2, InitOK DEF Init, StreamInv

LEMMA StreamNext == StreamInv /\ [Next]_vars => StreamInv'
<1> SUFFICES ASSUME StreamInv, [Next]_vars  PROVE StreamInv'
  OBVIOUS
<1>1. Inv'
  BY NextOK DEF StreamInv
<1>2. CASE UNCHANGED vars
  BY <1>1, <1>2 DEF vars, StreamInv
<1>3. ASSUME NEW c \in Client, ClientStep(c)  PROVE StreamInv'
  <2>1. Effect(c)
    BY <1>3, StepEffect DEF StreamInv
  <2> QED BY <1>1, <2>1 DEF StreamInv, Effect
<1> QED BY <1>2, <1>3 DEF Next

\* A smoke command counts a check as verified (commands/agent.py:243,
\* invoke.py:581) only if the lines that came in, read as a whole, complete the
\* answer, report no error and use the tool or skill the check asked for: what the
\* reader has framed line by line, under its limits, is what the stream says.
THEOREM PassesAreAnswered == Spec => PassIsAnswered
<1> DEFINE P == \A c \in Client : client'[c].verified > client[c].verified =>
                  Answered(client[c].lines, Check(c))
<1>1. StreamInv /\ [Next]_vars => [P]_vars
  <2> SUFFICES ASSUME StreamInv, [Next]_vars, ~UNCHANGED vars  PROVE P
    OBVIOUS
  <2>1. PICK d \in Client : ClientStep(d)
    BY DEF Next
  <2>2. Effect(d)
    BY <2>1, StepEffect DEF StreamInv
  <2>3. ASSUME NEW c \in Client, client'[c].verified > client[c].verified
        PROVE  Answered(client[c].lines, Check(c))
    <3>1. client[c].verified \in Nat
      BY DEF StreamInv, Inv, ClientType
    <3>2. c = d
      BY <2>2, <2>3, <3>1 DEF Effect
    <3> QED BY <2>2, <2>3, <3>2 DEF Effect
  <2> QED BY <2>3
<1>2. Spec => [][P]_vars
  BY <1>1, StreamInit, StreamNext, PTL DEF Spec
<1> QED BY <1>2 DEF PassIsAnswered

\* A command that names an artifact leaves in it the events it accepted, as the
\* lines of its stream have said them up to where it stopped (invoke.py:317-327),
\* also when the stream broke off or a limit cut it, whoever writes to the path.
THEOREM EvidenceIsKept == Spec => EvidenceKept
<1> DEFINE P == /\ ArtifactsKept'
                /\ \A c \in Client :
                     At(c, {"stream"}) /\ client'[c].pc \notin {"stream", "ended"} =>
                       \E end \in {Len(LinesOf(c)), Len(LinesOf(c)) + 1} :
                         client'[c].events = Accepted(LinesOf(c), end)
<1>1. StreamInv /\ ArtifactInv /\ [Next]_vars => [P]_vars
  <2> SUFFICES ASSUME StreamInv, ArtifactInv, [Next]_vars, ~UNCHANGED vars  PROVE P
    OBVIOUS
  <2>1. PICK d \in Client : ClientStep(d)
    BY DEF Next
  <2>2. Effect(d)
    BY <2>1, StepEffect DEF StreamInv
  <2>3. ASSUME NEW c \in Client, At(c, {"stream"}), client'[c].pc \notin {"stream", "ended"}
        PROVE  \E end \in {Len(LinesOf(c)), Len(LinesOf(c)) + 1} :
                 client'[c].events = Accepted(LinesOf(c), end)
    <3>1. client[c].pc = "stream"
      BY <2>3 DEF At
    <3>2. c = d
      BY <2>2, <2>3, <3>1 DEF Effect
    <3>3. Keeps(client[c], client'[c])
      BY <2>2, <2>3, <3>1, <3>2 DEF Effect
    <3> QED BY <3>3 DEF Keeps, LinesFrom, LinesOf
  <2>4. ArtifactsKept'
    <3>1. ArtifactInv'
      BY ArtifactNext
    <3> QED BY <3>1 DEF ArtifactInv
  <2> QED BY <2>3, <2>4
<1>2. Init => ArtifactInv
  BY ArtifactInit
<1>3. Spec => [][P]_vars
  BY <1>1, <1>2, StreamInit, StreamNext, ArtifactNext, PTL DEF Spec
<1> QED BY <1>3 DEF EvidenceKept
=============================================================================
