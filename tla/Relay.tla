--------------------------------- MODULE Relay ---------------------------------
(***************************************************************************)
(* The relay task of one streamed answer (relay.rs), spawned by            *)
(* relay_response (server/stream.rs): it selects between the upstream and  *)
(* its keepalive timer, and writes into a bounded pipe whose other end is  *)
(* the client's response body.                                             *)
(*                                                                         *)
(* The upstream sends lines, whole or in two pieces; data lines carry an   *)
(* event of SSETransformer.  It may fall silent at any point.  Which line  *)
(* it sends is chosen when the relay reads it: until then nothing depends  *)
(* on it.  A write of a frame (its "data: " lines, the blank line and the  *)
(* flush) is one step and takes one of Capacity places in the pipe.        *)
(***************************************************************************)
EXTENDS SSETransformer, FiniteSets, SequencesExt

CONSTANTS
  Sendable,   \* the kinds of events the upstream sends
  Keepalive,  \* the keepalive interval is not zero
  Capacity,   \* bound: frames in the pipe (64 KiB in the code)
  MaxLines    \* bound: lines the upstream sends

ASSUME RelayAssumption ==
  /\ Sendable \subseteq Kinds \ ItemKinds
  /\ Keepalive \in BOOLEAN
  /\ Capacity \in Nat \ {0} /\ MaxLines \in Nat

VARIABLES
  mode,      \* RelayMode: "rewrite" or "pass"
  lines,     \* the lines the upstream has sent
  sending,   \* the line it has sent one piece of
  upstream,  \* "open", "closed" or "broken"
  reader,    \* SseEventReader: a partial line, the data lines of an event, eof
  st,        \* the transformer
  pc,        \* "select", "write" or "ended"
  out,       \* the frames being written
  next,      \* pc after they are
  quiet,     \* the keepalive deadline (last_write + interval) has passed
  pipe,      \* frames in the pipe
  written,   \* every frame put into the pipe, pings excepted
  gone       \* the client has left: the pipe's other end is dropped

vars == <<mode, lines, sending, upstream, reader, st, pc, out, next, quiet, pipe, written, gone>>

NoEvent == Event("", NoItem, 0)
Line(k, e) == [kind |-> k, event |-> e]
Blank == Line("blank", NoEvent)
Ignored == Line("ignored", NoEvent)  \* a comment or a field other than data
NoLine == Line("", NoEvent)
Data(k, n) == Line("data", Event(k, NoItem, n))

\* What is written at once: one event, of one or more lines.
Done == <<Plain("[DONE]", 0)>>
Failed == <<Plain("error", 0)>>
Ping == <<Plain("ping", 0)>>

Events == {Event(k, NoItem, n) : k \in Sendable \union {"garbage"}, n \in 1..MaxLines}
DataLines == {Line("data", e) : e \in Events}

TypeOK ==
  /\ mode \in {"rewrite", "pass"} /\ upstream \in {"open", "closed", "broken"}
  /\ lines \in Seq(DataLines \union {Blank, Ignored}) /\ Len(lines) <= MaxLines
  /\ sending \in DataLines \union {NoLine}
  /\ reader.line \in {sending, NoLine} /\ reader.data \in Seq(Events) /\ reader.eof \in BOOLEAN
  /\ st \in Transformers
  /\ pc \in {"select", "write", "ended"} /\ next \in {"select", "ended"}
  /\ (out # <<>>) <=> (pc = "write")
  /\ quiet \in BOOLEAN /\ gone \in BOOLEAN
  /\ pipe \in 0..Capacity

Init ==
  /\ mode \in {"rewrite", "pass"}
  /\ lines = <<>> /\ sending = NoLine /\ upstream = "open"
  /\ reader = [line |-> NoLine, data |-> <<>>, eof |-> FALSE]
  /\ st = New
  /\ pc = "select" /\ out = <<>> /\ next = "select"
  /\ quiet = FALSE
  /\ pipe = 0 /\ written = <<>> /\ gone = FALSE

-----------------------------------------------------------------------------
(* What the loop body does with an event: each operator sets st, pc, out,  *)
(* next and quiet.                                                         *)

Writes(frames, then) == pc' = "write" /\ out' = frames /\ next' = then /\ UNCHANGED quiet
Loops == UNCHANGED <<pc, out, next, quiet>>
Ends == pc' = "ended" /\ out' = <<>> /\ next' = "ended" /\ UNCHANGED quiet

\* The lines of an event, joined and trimmed: more than one JSON document is none.
Joined(data) ==
  LET full == {j \in DOMAIN data : data[j].kind # "empty"}
  IN IF full = {} THEN data[1]
     ELSE IF \E j \in full : full = {j} THEN data[CHOOSE j \in full : TRUE]
     ELSE Event("garbage", NoItem, data[1].n)

\* Bug: an event that says nothing postpones the keepalive.
RewriteAndReset(data) ==
  LET r == Rewritten(st, Joined(data))
  IN /\ st' = r.st
     /\ CASE r.result = "emitted" -> Writes([j \in DOMAIN r.frames |-> <<r.frames[j]>>], "select")
          [] r.result = "swallowed" -> quiet' = FALSE /\ UNCHANGED <<pc, out, next>>
          [] r.result = "done" -> Writes(<<Done>>, "ended")
          [] r.result = "invalid" -> Writes(<<Failed, Done>>, "ended")

\* rewrite_sse_stream: nothing is read after [DONE] or an error.
Rewrite(data) ==
  LET r == Rewritten(st, Joined(data))
  IN /\ st' = r.st
     /\ CASE r.result = "emitted" -> Writes([j \in DOMAIN r.frames |-> <<r.frames[j]>>], "select")
          [] r.result = "swallowed" -> Loops
          [] r.result = "done" -> Writes(<<Done>>, "ended")
          [] r.result = "invalid" -> Writes(<<Failed, Done>>, "ended")

\* pass_through_sse_stream
Verbatim(data) == IF Joined(data).kind = "[DONE]" THEN <<Joined(data)>> ELSE data
Silence(data) == Len(data) = 1 /\ data[1].kind = "empty"
PassThrough(data) ==
  /\ IF Silence(data) THEN Loops ELSE Writes(<<Verbatim(data)>>, "select")
  /\ UNCHANGED st

Handle(data) == IF mode = "rewrite" THEN Rewrite(data) ELSE PassThrough(data)

\* Bug: the stream ends as the upstream did, without a sentinel.
NoMoreEventsBare == Ends /\ UNCHANGED st

\* next_event returns None
NoMoreEvents ==
  /\ IF mode = "rewrite" THEN Writes(<<Done>>, "ended") ELSE Ends
  /\ UNCHANGED st

-----------------------------------------------------------------------------
(* The select: the upstream *)

Selecting == pc = "select" /\ upstream = "open"

\* The first piece of a line stays in the reader when the select drops next_event.
ReadPiece(l) ==
  /\ Selecting /\ Len(lines) < MaxLines
  /\ sending = NoLine
  /\ sending' = l
  /\ reader' = [reader EXCEPT !.line = l]
  /\ UNCHANGED <<mode, lines, upstream, st, pc, out, next, quiet, pipe, written, gone>>

\* A line is complete.  Its second piece alone is no line the reader knows.
ReadLine(l) ==
  /\ Selecting /\ Len(lines) < MaxLines
  /\ sending \in {NoLine, l}
  /\ lines' = Append(lines, l) /\ sending' = NoLine
  /\ LET read == IF reader.line = sending THEN l ELSE Ignored
         data == IF read.kind = "data" THEN Append(reader.data, read.event) ELSE reader.data
     IN IF read.kind = "blank" /\ data # <<>>
        THEN Handle(data) /\ reader' = [reader EXCEPT !.line = NoLine, !.data = <<>>]
        ELSE Loops /\ UNCHANGED st /\ reader' = [reader EXCEPT !.line = NoLine, !.data = data]
  /\ UNCHANGED <<mode, upstream, pipe, written, gone>>

\* What an unterminated line can be: whole, cut in its payload, or before it.
Unterminated(l) ==
  IF l = NoLine THEN {Ignored} ELSE {l, Data("garbage", l.event.n), Ignored}

\* The upstream closes: an open event is flushed, with the line that has no end.
UpstreamCloses(l) ==
  /\ Selecting
  /\ upstream' = "closed"
  /\ l \in Unterminated(reader.line)
  /\ lines' = IF reader.line = NoLine THEN lines ELSE Append(lines, l)
  /\ sending' = NoLine
  /\ reader' = [line |-> NoLine, data |-> <<>>, eof |-> TRUE]
  /\ LET data == IF l.kind = "data" THEN Append(reader.data, l.event) ELSE reader.data
     IN IF data # <<>> THEN Handle(data) ELSE NoMoreEvents
  /\ UNCHANGED <<mode, pipe, written, gone>>

\* The event that was flushed has been dealt with.
AfterFlush ==
  /\ pc = "select" /\ reader.eof
  /\ NoMoreEvents
  /\ UNCHANGED <<mode, lines, sending, upstream, reader, pipe, written, gone>>

\* The connection breaks: what the reader holds is lost.
UpstreamBreaks ==
  /\ Selecting
  /\ upstream' = "broken" /\ sending' = NoLine
  /\ reader' = [reader EXCEPT !.line = NoLine, !.data = <<>>]
  /\ IF mode = "rewrite" THEN Writes(<<Failed, Done>>, "ended") ELSE Ends
  /\ UNCHANGED <<mode, lines, st, pipe, written, gone>>

-----------------------------------------------------------------------------
(* The select: the timer *)

\* Time matters only while the relay waits: a write resets it.
DeadlinePasses ==
  /\ pc = "select" /\ ~quiet
  /\ quiet' = TRUE
  /\ UNCHANGED <<mode, lines, sending, upstream, reader, st, pc, out, next, pipe, written, gone>>

\* Bug: the reader's partial line is dropped with next_event.
KeepAliveDropsLine ==
  /\ pc = "select" /\ quiet /\ Keepalive
  /\ pc' = "write" /\ out' = <<Ping>> /\ next' = "select"
  /\ reader' = [reader EXCEPT !.line = NoLine]
  /\ UNCHANGED <<mode, lines, sending, upstream, st, quiet, pipe, written, gone>>

\* Bug: a ping waits for the end of a line.
KeepAliveBetweenLines ==
  /\ pc = "select" /\ quiet /\ Keepalive /\ reader.line = NoLine
  /\ Writes(<<Ping>>, "select")
  /\ UNCHANGED <<mode, lines, sending, upstream, reader, st, pipe, written, gone>>

\* A zero interval disables the timer.
KeepAlive ==
  /\ pc = "select" /\ quiet /\ Keepalive
  /\ Writes(<<Ping>>, "select")
  /\ UNCHANGED <<mode, lines, sending, upstream, reader, st, pipe, written, gone>>

-----------------------------------------------------------------------------
(* The pipe *)

\* Bug: a write does not wait for room.
WriteUnbounded ==
  /\ pc = "write" /\ ~gone
  /\ pipe' = pipe + 1
  /\ written' = IF Head(out) = Ping THEN written ELSE Append(written, Head(out))
  /\ out' = Tail(out)
  /\ IF Tail(out) = <<>> THEN pc' = next /\ quiet' = FALSE ELSE UNCHANGED <<pc, quiet>>
  /\ UNCHANGED <<mode, lines, sending, upstream, reader, st, next, gone>>

\* write_data_frame; last_write is taken after the last frame of an event.
Write ==
  /\ pc = "write" /\ ~gone /\ pipe < Capacity
  /\ pipe' = pipe + 1
  /\ written' = IF Head(out) = Ping THEN written ELSE Append(written, Head(out))
  /\ out' = Tail(out)
  /\ IF Tail(out) = <<>> THEN pc' = next /\ quiet' = FALSE ELSE UNCHANGED <<pc, quiet>>
  /\ UNCHANGED <<mode, lines, sending, upstream, reader, st, next, gone>>

\* Bug: a ping that cannot be written is no error.
WriteFailsUnnoticed ==
  /\ pc = "write" /\ gone
  /\ out' = <<>>
  /\ IF out = <<Ping>> THEN pc' = "select" /\ UNCHANGED next
     ELSE pc' = "ended" /\ next' = "ended"
  /\ UNCHANGED <<mode, lines, sending, upstream, reader, st, quiet, pipe, written, gone>>

\* The client is gone: the relay returns, and drops the upstream with it.
WriteFails ==
  /\ pc = "write" /\ gone
  /\ Ends
  /\ UNCHANGED <<mode, lines, sending, upstream, reader, st, pipe, written, gone>>

ClientReads ==
  /\ pipe > 0
  /\ pipe' = pipe - 1
  /\ UNCHANGED <<mode, lines, sending, upstream, reader, st, pc, out, next, quiet, written, gone>>

\* hyper drops the body of a client that disconnects.
ClientLeaves ==
  /\ ~gone
  /\ gone' = TRUE /\ pipe' = 0
  /\ UNCHANGED <<mode, lines, sending, upstream, reader, st, pc, out, next, quiet, written>>

-----------------------------------------------------------------------------
Sent == {Blank, Ignored} \union {Data(k, Len(lines) + 1) : k \in Sendable}

Upstream ==
  \/ \E l \in Sent : (l.kind = "data" /\ ReadPiece(l)) \/ ReadLine(l)
  \/ \E l \in {Ignored} \union DataLines : UpstreamCloses(l)
  \/ UpstreamBreaks

Next ==
  \/ Upstream
  \/ AfterFlush \/ DeadlinePasses \/ KeepAlive
  \/ Write \/ WriteFails
  \/ ClientReads \/ ClientLeaves

\* The task and its timer run; the client reads on or leaves.  Nothing makes the
\* upstream send, or end.  AfterFlush and KeepAlive are branches of a select! that
\* polls them in random order: neither can starve the other.
Fairness ==
  /\ WF_vars(Write) /\ WF_vars(WriteFails) /\ WF_vars(DeadlinePasses)
  /\ SF_vars(AfterFlush) /\ SF_vars(KeepAlive)
  /\ WF_vars(ClientReads)

Spec == Init /\ [][Next]_vars
FairSpec == Spec /\ Fairness

-----------------------------------------------------------------------------
(* Properties *)

\* What a relay without a timer, a pipe and a client makes of the lines ls: the data
\* lines since a blank one, the transformer, what it has written, and whether that
\* ends the stream.  A recursive function, so that it can be reasoned about.
Account(d, s, fr, o) == [data |-> d, st |-> s, frames |-> fr, over |-> o]
Nothing == Account(<<>>, New, <<>>, FALSE)

\* The open event, translated or verbatim.
Translated(m, acc) ==
  LET r == Rewritten(acc.st, Joined(acc.data))
  IN IF acc.over \/ (m = "pass" /\ Silence(acc.data))
     THEN Account(<<>>, acc.st, acc.frames, acc.over)
     ELSE IF m = "pass" THEN Account(<<>>, acc.st, Append(acc.frames, Verbatim(acc.data)), FALSE)
     ELSE CASE r.result = "emitted" ->
                 Account(<<>>, r.st, acc.frames \o [j \in DOMAIN r.frames |-> <<r.frames[j]>>], FALSE)
            [] r.result = "swallowed" -> Account(<<>>, r.st, acc.frames, FALSE)
            [] r.result = "done" -> Account(<<>>, acc.st, Append(acc.frames, Done), TRUE)
            [] r.result = "invalid" -> Account(<<>>, acc.st, acc.frames \o <<Failed, Done>>, TRUE)

\* An event is the data lines between two blank ones.
Hear(m, acc, l) ==
  IF l.kind = "data" THEN Account(Append(acc.data, l.event), acc.st, acc.frames, acc.over)
  ELSE IF l.kind = "blank" /\ acc.data # <<>> THEN Translated(m, acc)
  ELSE acc

Heard(m, ls) ==
  LET heard[p \in 0..Len(ls)] == IF p = 0 THEN Nothing ELSE Hear(m, heard[p - 1], ls[p])
  IN heard[Len(ls)]

\* An upstream that closes ends its last event, too.
Told ==
  LET heard == Heard(mode, lines)
  IN IF upstream = "closed" /\ heard.data # <<>> THEN Translated(mode, heard) ELSE heard

Owed ==
  IF mode = "pass" \/ Told.over \/ upstream = "open" THEN Told.frames
  ELSE IF upstream = "broken" THEN Told.frames \o <<Failed, Done>>
  ELSE IF next = "select" THEN Told.frames
  ELSE Append(Told.frames, Done)

\* Whatever the timer and the pipe do in between, the client is written every
\* event of the upstream, translated or verbatim, in order and once: a ping does
\* not lose the line it interrupts, and an event without an end is flushed
\* (SseEventReader, relay.rs:78-154).
NothingLost ==
  ~gone => written \o (IF out = <<Ping>> THEN <<>> ELSE out) = Owed

\* Only bytes on their way to the client put the keepalive off: a stretch of
\* events that say nothing does not silence the stream (relay.rs:279-286).
OnlyWritesResetTheTimer == [][quiet /\ ~quiet' => pipe' > pipe]_vars

\* Every chat stream ends in exactly one [DONE], after a failure notice if
\* anything failed, and nothing follows it; nothing is added to a Responses
\* stream (relay.rs:13-31).
Contract == INSTANCE StreamContract WITH
  Sentinel <- Done, Failure <- Failed, over <- (pc = "ended")
KeepsStreamContract == Contract!Spec

\* A silent upstream does not make a silent stream: a waiting client is written
\* something, as often as the deadline passes (keepalive_deadline).
SilenceIsBroken == (pc = "select" /\ Keepalive) ~> (pipe > 0 \/ pc = "ended")

\* The task ends when its client has left, even if the upstream stays silent, and
\* when the upstream has ended (server/stream.rs:75-79).
RelayEnds == (upstream # "open" \/ (gone /\ Keepalive)) ~> (pc = "ended")
=============================================================================
