----------------------------- MODULE Invocation -----------------------------
(***************************************************************************)
(* agent smoke and skill smoke: one invocation of an Agent per check, over *)
(* a stream of server-sent events, under a client deadline and limits, and *)
(* the artifact that keeps the accepted events.  Commands may share the    *)
(* path of that artifact.                                                  *)
(*                                                                         *)
(* A line of the stream is told apart by what the reader makes of it.  A   *)
(* data line is one of a few texts: the name of a tool, one half of an     *)
(* object, or an object whose status is not completed.  Bytes are counted  *)
(* in lines, and serialized events in events.                              *)
(***************************************************************************)
EXTENDS Naturals, Sequences

Seqs == INSTANCE SequencesExt

CONSTANTS
  Client,
  Command,   \* what each client may be asked to do
  Tool,
  AnyTool,   \* agent smoke without --expect-tool
  Path,
  NoPath,    \* without --raw-events, and always for skill smoke
  Name,      \* names of events
  Answer,    \* the lines the service may send to each client
  MaxStream, \* limit of the code: lines of one stream
  MaxEvents  \* limit of the code: events of one stream

Text == Tool \cup {"half", "unfinished"}

Line ==
  [kind : {"other", "blank", "done"}] \cup [kind : {"event"}, name : Name]
    \cup [kind : {"data"}, text : Text]

ASSUME CommandType ==
  \A c \in Client :
    /\ Command[c] \subseteq [checks : Seq(Tool \cup {AnyTool}), path : Path \cup {NoPath}]
    /\ \A k \in Command[c] : k.path # NoPath => Len(k.checks) = 1
ASSUME LinesAreLines == \A c \in Client : Answer[c] \subseteq Line
ASSUME NoPathIsNone == NoPath \notin Path
ASSUME LimitsAreNatural == {MaxStream, MaxEvents} \subseteq Nat

VARIABLES
  client, \* the commands
  file    \* the artifacts, by path

vars == <<client, file>>
-----------------------------------------------------------------------------
(* Events. *)

NoFile == [content |-> "none"]
Torn == [content |-> "torn"]
Holding(events) == [content |-> "events", events |-> events]

Done == [name |-> "done", data |-> <<>>]
Terminal(event) == event.name \in {"done", "response"}

\* json.loads of the joined data lines; anything else is no object.
Object(data) ==
  \/ data = <<"half", "half">>
  \/ Len(data) = 1 /\ data[1] # "half"

\* collect_agent_events
Erroneous(event) ==
  \/ event.name \in {"error", "response.error"}
  \/ event.name = "response" /\ event.data = <<"unfinished">>

\* Slip: errors are listed in the report and never raised.
ErredNever(events) == FALSE

Erred(events) == \E i \in DOMAIN events : Erroneous(events[i])

\* The tool, or the server skill, was used.
Selected(events, tool) ==
  tool = AnyTool
    \/ \E i \in DOMAIN events : events[i] = [name |-> "response.tool_use", data |-> <<tool>>]

-----------------------------------------------------------------------------
(* One invocation: connect, open, read, clean up. *)

Reader == [name |-> "message", data |-> <<>>]

Idle == [pc |-> "idle", command |-> [checks |-> <<>>, path |-> NoPath],
         verified |-> 0, opened |-> 0, saved |-> FALSE, outcome |-> "none",
         lines |-> <<>>, reader |-> Reader, events |-> <<>>, late |-> FALSE, failed |-> FALSE]

At(c, steps) == client[c].pc \in steps
Become(c, record) == client' = [client EXCEPT ![c] = record]
Goto(c, step) == Become(c, [client[c] EXCEPT !.pc = step])

\* Without a path there is nothing to write.
AfterCall(c) == IF client[c].command.path = NoPath THEN "verdict" ELSE "check"

\* A controlled error: of the stream, the events accepted so far are kept.
FailWith(c, events) ==
  Become(c, [client[c] EXCEPT !.pc = AfterCall(c), !.failed = TRUE, !.events = events,
                              !.lines = <<>>, !.reader = Reader, !.late = FALSE])
Fail(c) == FailWith(c, client[c].events)

\* What is left of a command is its report.
End(c, outcome, verified) ==
  Become(c, [Idle EXCEPT !.pc = "ended", !.outcome = outcome, !.verified = verified,
                         !.command = client[c].command, !.opened = client[c].opened,
                         !.saved = client[c].saved,
                         !.events = IF client[c].saved THEN client[c].events ELSE <<>>])

\* An artifact that exists is refused before anything is called.
Begin(c) ==
  /\ At(c, {"idle"})
  /\ \E k \in Command[c] :
       LET asked == [Idle EXCEPT !.command = k] IN
       \/ /\ k.path # NoPath
          /\ file[k.path] # NoFile
          /\ Become(c, [asked EXCEPT !.pc = "ended", !.outcome = "refused"])
       \/ /\ k.path # NoPath => file[k.path] = NoFile
          /\ Become(c, IF k.checks = <<>>
                       THEN [asked EXCEPT !.pc = "ended", !.outcome = "passed"]
                       ELSE [asked EXCEPT !.pc = "connect"])
  /\ UNCHANGED file

\* Slip: the deadline is never asked for.
InTimeAlways(c) == TRUE

\* _remaining
InTime(c) == ~client[c].late

Connect(c) ==
  /\ At(c, {"connect"})
  /\ \/ InTime(c) /\ Goto(c, "open")
     \/ Fail(c)
  /\ UNCHANGED file

\* From here on the call is paid for, whatever comes back.
Open(c) ==
  /\ At(c, {"open"})
  /\ \/ /\ InTime(c)
        /\ \E pc \in {"stream", AfterCall(c)} :
             Become(c, [client[c] EXCEPT !.pc = pc, !.opened = @ + 1,
                                         !.failed = pc # "stream"])
     \/ Fail(c)
  /\ UNCHANGED file

\* _frame_event: the data lines so far are an event, or nothing, or an error.
Malformed(c) == client[c].reader.data # <<>> /\ ~Object(client[c].reader.data)
Pending(c) == IF client[c].reader.data = <<>> THEN <<>> ELSE <<client[c].reader>>

Least(m, n) == IF m <= n THEN m ELSE n

\* frame_sse: events beyond the limit are not accepted.
Accept(c, lines, events, reader) ==
  LET all == client[c].events \o events
      accepted == SubSeq(all, 1, Least(Len(all), MaxEvents)) IN
  IF Malformed(c) THEN Fail(c)
  ELSE IF Len(all) > MaxEvents THEN FailWith(c, accepted)
  ELSE Become(c, [client[c] EXCEPT
         !.lines = lines, !.events = all, !.reader = reader,
         !.pc = IF \E i \in DOMAIN events : Terminal(events[i]) THEN "finish" ELSE "stream"])

\* _frame_sse, one line within the limit
ReadLine(c, line) ==
  LET reader == client[c].reader
      lines == Append(client[c].lines, line) IN
  CASE line.kind = "other" -> Become(c, [client[c] EXCEPT !.lines = lines])
    [] line.kind = "data" ->
         Become(c, [client[c] EXCEPT !.lines = lines, !.reader.data = Append(@, line.text)])
    [] line.kind = "blank" -> Accept(c, lines, Pending(c), Reader)
    [] line.kind = "event" -> Accept(c, lines, Pending(c), [Reader EXCEPT !.name = line.name])
    [] line.kind = "done" -> Accept(c, lines, Append(Pending(c), Done), reader)

\* _bounded_lines
Read(c) ==
  /\ At(c, {"stream"})
  /\ InTime(c)
  /\ Answer[c] # {}
  /\ IF Len(client[c].lines) = MaxStream THEN Fail(c)
                                         ELSE \E line \in Answer[c] : ReadLine(c, line)
  /\ UNCHANGED file

\* End of file: what is pending is an event still, and must be terminal.
EndOfStream(c) ==
  LET all == client[c].events \o Pending(c) IN
  /\ At(c, {"stream"})
  /\ InTime(c)
  /\ IF Malformed(c) \/ Len(all) > MaxEvents THEN Fail(c)
     ELSE IF Pending(c) # <<>> /\ Terminal(client[c].reader)
     THEN Become(c, [client[c] EXCEPT !.pc = "finish", !.events = all])
     ELSE FailWith(c, all)
  /\ UNCHANGED file

\* A read breaks off.
BreakOff(c) == At(c, {"stream"}) /\ Fail(c) /\ UNCHANGED file

\* Errors among the events are raised, and the clock is asked once more.
Finish(c) ==
  /\ At(c, {"finish"})
  /\ IF Erred(client[c].events) \/ ~InTime(c) THEN Fail(c)
     ELSE Become(c, [client[c] EXCEPT !.pc = "close", !.reader = Reader])
  /\ UNCHANGED file

\* Closing the response, the cursor and the connection may fail.
CleanUp(c) ==
  /\ At(c, {"close"})
  /\ \/ Goto(c, AfterCall(c))
     \/ Fail(c)
  /\ UNCHANGED file

\* Blocking calls return at the latest when the socket times out.
TimeOut(c) ==
  /\ At(c, {"connect", "open", "stream"})
  /\ ~InTime(c)
  /\ Fail(c)
  /\ UNCHANGED file
-----------------------------------------------------------------------------
(* write_raw_events *)

SetFile(c, content) == file' = [file EXCEPT ![client[c].command.path] = content]

\* The artifact was not written: one more error.
Unsaved(c) == Become(c, [client[c] EXCEPT !.pc = "verdict", !.failed = TRUE])

Exists(c) == file[client[c].command.path] # NoFile

CheckTarget(c) ==
  /\ At(c, {"check"})
  /\ \/ ~Exists(c) /\ Goto(c, "create")
     \/ Unsaved(c)
  /\ UNCHANGED file

\* Slip: a file created in the meantime is truncated.
MayCreateAlways(c) == TRUE

\* open("xb")
MayCreate(c) == ~Exists(c)

Create(c) ==
  /\ At(c, {"create"})
  /\ \/ MayCreate(c) /\ SetFile(c, Torn) /\ Goto(c, "fill")
     \/ Unsaved(c) /\ UNCHANGED file

Fill(c) ==
  /\ At(c, {"fill"})
  /\ \/ /\ SetFile(c, Holding(client[c].events))
        /\ Become(c, [client[c] EXCEPT !.pc = "verdict", !.saved = TRUE])
     \/ Unsaved(c) /\ UNCHANGED file
-----------------------------------------------------------------------------
(* The report. *)

Check(c) == client[c].command.checks[client[c].verified + 1]

\* invoke_agent for the next check.
Invoke(c, verified) ==
  Become(c, [Idle EXCEPT !.pc = "connect", !.command = client[c].command,
                         !.verified = verified, !.opened = client[c].opened])

\* Slip: a check that did not select its skill is passed over.
VerdictGoesOn(c) ==
  LET good == ~client[c].failed /\ Selected(client[c].events, Check(c))
      verified == client[c].verified + (IF good THEN 1 ELSE 0)
      k == client[c].command IN
  /\ At(c, {"verdict"})
  /\ IF client[c].opened < Len(k.checks)
     THEN Invoke(c, verified)
     ELSE End(c, IF good THEN "passed" ELSE "failed", verified)
  /\ UNCHANGED file

\* Every check has a deadline and a stream of its own; the first that fails is
\* the last.
Verdict(c) ==
  LET good == ~client[c].failed /\ Selected(client[c].events, Check(c))
      verified == client[c].verified + 1
      k == client[c].command IN
  /\ At(c, {"verdict"})
  /\ IF ~good THEN End(c, "failed", client[c].verified)
     ELSE IF verified < Len(k.checks)
     THEN Invoke(c, verified)
     ELSE End(c, "passed", verified)
  /\ UNCHANGED file
-----------------------------------------------------------------------------
Running(c) == ~At(c, {"idle", "ended"})

\* The deadline passes.
Expire(c) ==
  /\ At(c, {"connect", "open", "stream", "finish"})
  /\ ~client[c].late
  /\ Become(c, [client[c] EXCEPT !.late = TRUE])
  /\ UNCHANGED file

\* The process dies, or meets a defect of its own; an artifact may be half written.
Kill(c) ==
  /\ Running(c)
  /\ End(c, "killed", client[c].verified)
  /\ UNCHANGED file

Init ==
  /\ client = [c \in Client |-> Idle]
  /\ file = [p \in Path |-> NoFile]

\* What a client does without an answer from the service.
Alone(c) ==
  \/ TimeOut(c) \/ Finish(c) \/ CleanUp(c) \/ CheckTarget(c) \/ Create(c) \/ Fill(c)
  \/ Verdict(c)

ClientStep(c) ==
  \/ Begin(c) \/ Connect(c) \/ Open(c) \/ Read(c) \/ EndOfStream(c) \/ BreakOff(c)
  \/ Alone(c) \/ Expire(c) \/ Kill(c)

Next == \E c \in Client : ClientStep(c)

Spec == Init /\ [][Next]_vars

\* The clock runs and a client goes on with what it can do by itself; that the
\* service ever answers is not assumed.
FairSpec == Spec /\ \A c \in Client : WF_vars(Expire(c)) /\ WF_vars(Alone(c))
-----------------------------------------------------------------------------
(* What the lines of a stream say, read as a whole: data lines between two     *)
(* bounds are an event, named by the last event line before it.                *)

Bounds(lines) ==
  {i \in DOMAIN lines : lines[i].kind \in {"blank", "event", "done"}} \cup {Len(lines) + 1}

Latest(S) == CHOOSE i \in S : \A j \in S : j <= i

\* The bound before i, or the start of the stream.
Since(lines, i) == Latest({0} \cup {j \in Bounds(lines) : j < i})

TextOf(line) == IF line.kind = "data" THEN <<line.text>> ELSE <<>>

DataBefore(lines, i) ==
  LET from == Since(lines, i) IN
  Seqs!FlattenSeq([k \in 1..i - 1 - from |-> TextOf(lines[from + k])])

NameBefore(lines, i) ==
  LET names == {j \in 1..i - 1 : /\ lines[j].kind = "event"
                                 /\ \A k \in j..i - 1 : lines[k].kind # "blank"}
  IN IF names = {} THEN "message" ELSE lines[Latest(names)].name

\* What ends at bound i: no event or one, and the mark of the end.
EventsAt(lines, i) ==
  LET data == DataBefore(lines, i) IN
  (IF data = <<>> THEN <<>> ELSE <<[name |-> NameBefore(lines, i), data |-> data]>>)
    \o (IF i \in DOMAIN lines /\ lines[i].kind = "done" THEN <<Done>> ELSE <<>>)

Garbled(events) == events # <<>> /\ events[1] # Done /\ ~Object(events[1].data)

\* Nothing is read after a completed answer, or after what is no object.
Over(events) == Garbled(events) \/ \E k \in DOMAIN events : Terminal(events[k])

\* What bound i adds to the stream, unless it is over.
Said(lines, i) ==
  LET events == EventsAt(lines, i) IN
  IF /\ i \in Bounds(lines)
     /\ ~Garbled(events)
     /\ \A j \in Bounds(lines) : j < i => ~Over(EventsAt(lines, j))
  THEN events ELSE <<>>

\* The events up to bound `end`.
Framed(lines, end) == Seqs!FlattenSeq([i \in 1..end |-> Said(lines, i)])

\* What a check asks for.
Answered(lines, tool) ==
  LET events == Framed(lines, Len(lines) + 1) IN
  /\ \E i \in DOMAIN events : Terminal(events[i])
  /\ \A i \in DOMAIN events : ~Erroneous(events[i])
  /\ Selected(events, tool)

\* A check counts as passed (commands/agent.py:243, invoke.py:581) only if the
\* lines that came in, read as a whole, hold an event that completes the answer,
\* no error, and a use of the tool or skill that was asked for.
PassIsAnswered ==
  [][\A c \in Client : client'[c].verified > client[c].verified =>
       Answered(client[c].lines, Check(c))]_vars

\* What the limits let through of the lines, up to a bound.
Accepted(lines, end) ==
  SubSeq(Framed(lines, end), 1, Least(Len(Framed(lines, end)), MaxEvents))

\* The lines a step has read: after an error, those before it.
LinesOf(c) == IF client'[c].lines = <<>> THEN client[c].lines ELSE client'[c].lines

\* An artifact that a command has written is on its path, with the events that the
\* command accepted.
ArtifactsKept ==
  \A c \in Client :
    client[c].saved => file[client[c].command.path] = Holding(client[c].events)

\* A command that names an artifact leaves in it the events of its own stream, as
\* they came in, also of a stream that broke off, whoever writes to the same
\* path, then or later (docs/reference/cli.md:174-180).
EvidenceKept ==
  [][/\ ArtifactsKept'
     /\ \A c \in Client :
          At(c, {"stream"}) /\ client'[c].pc \notin {"stream", "ended"} =>
            \E end \in {Len(LinesOf(c)), Len(LinesOf(c)) + 1} :
              client'[c].events = Accepted(LinesOf(c), end)]_vars

\* A report names as verified exactly the checks before the first failure, all of
\* them if there is none; nothing was called after the failure and nothing twice
\* (docs/reference/cli.md:205-208).
VerifiedTruth ==
  \A c \in Client : client[c].outcome \in {"passed", "failed"} =>
    LET n == Len(client[c].command.checks) IN
    /\ client[c].outcome = "passed" <=> client[c].verified = n
    /\ client[c].outcome = "passed" => client[c].opened = n
    /\ client[c].opened \in {client[c].verified, client[c].verified + 1}

\* Every command ends, though the service may fall silent or send heartbeats for
\* ever: reads check the deadline and sockets time out (invoke.py:85-108).
InvocationsEnd == <>[](\A c \in Client : ~Running(c))
=============================================================================
