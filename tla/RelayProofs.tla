----------------------------- MODULE RelayProofs -----------------------------
(***************************************************************************)
(* Proofs about Relay, for any lines of any number, with or without a      *)
(* keepalive, and for a pipe of any capacity: its types (Inv), what resets *)
(* the keepalive, the stream contract, and that nothing is lost (HInv: the *)
(* relay's own state is the account of the lines it has read).             *)
(***************************************************************************)
EXTENDS Relay, WellFoundedInduction, TLAPS

Results == {"emitted", "swallowed", "done", "invalid"}

\* What an emitted frame is about, and what else is written at once: an event as it
\* came, or a ping.
Words == {"role", "text", "reasoning", "tool", "args", "tool_calls", "stop", "chunk"}
Emissions == [kind : Words, index : Int, item : Items \union {NoItem}, n : Int]
Said == {<<f>> : f \in Emissions} \union {s \in Seq(Events) : s # <<>>} \union {Ping}
Frames == Said \union {Done, Failed}

\* What is being written, and where the relay goes from there.
OutFits(p, o, then, m) ==
  /\ p = "write" => then \in {"select", "ended"}
  /\ p = "write" /\ then = "select" => o \in Seq(Said)
  /\ p = "write" /\ then = "ended" => m = "rewrite" /\ o \in {<<Failed, Done>>, <<Done>>}

Wrote(f) == \E j \in DOMAIN written : written[j] = f

\* The relay's own frames are the end of what is written.
EndsFit ==
  /\ written \in Seq(Frames)
  /\ Wrote(Done) => pc = "ended"
  /\ Wrote(Failed) => pc = "ended" \/ (pc = "write" /\ next = "ended" /\ out = <<Done>>)

\* A line the reader holds is one there is room for.
RoomForLine == sending # NoLine => Len(lines) < MaxLines

ReaderFits == reader \in [line : DataLines \union {NoLine}, data : Seq(Events), eof : BOOLEAN]

Inv == TypeOK /\ RoomForLine /\ ReaderFits /\ OutFits(pc, out, next, mode) /\ EndsFit

-----------------------------------------------------------------------------
(* The transformer *)

LEMMA EventsOf ==
  ASSUME NEW e \in Events
  PROVE  /\ e.kind \in Kinds \ ItemKinds /\ e.n \in 1..MaxLines /\ e.item = NoItem
         /\ e = Event(e.kind, NoItem, e.n)
  BY RelayAssumption DEF Events, Event, Kinds, ItemKinds

LEMMA JoinedIsEvent ==
  ASSUME NEW data \in Seq(Events), data # <<>>
  PROVE  Joined(data) \in Events
  <1> DEFINE full == {j \in DOMAIN data : data[j].kind # "empty"}
  <1>1. data[1] \in Events /\ 1 \in DOMAIN data
    OBVIOUS
  <1>2. Event("garbage", NoItem, data[1].n) \in Events
    BY <1>1, EventsOf DEF Events
  <1>3. CASE full = {}
    BY <1>1, <1>3 DEF Joined
  <1>4. CASE full # {} /\ \E j \in full : full = {j}
    <2>1. (CHOOSE j \in full : TRUE) \in DOMAIN data
      BY <1>4
    <2> QED
      BY <1>4, <2>1 DEF Joined
  <1>5. CASE full # {} /\ ~(\E j \in full : full = {j})
    BY <1>2, <1>5 DEF Joined
  <1> QED
    BY <1>3, <1>4, <1>5

\* One call of the transformer, on an event that is not about a tool call.
LEMMA RewrittenFits ==
  ASSUME NEW s \in Transformers, NEW e \in Events
  PROVE  LET r == Rewritten(s, e)
         IN /\ r.st \in Transformers
            /\ r.result \in Results
            /\ r.result = "emitted" => r.frames \in Seq(Emissions) /\ r.frames # <<>>
  <1>1. e.kind \in Kinds \ ItemKinds /\ e.n \in Int
    BY EventsOf, RelayAssumption
  <1>2. ASSUME NEW w \in Words, NEW n \in Int
        PROVE  Plain(w, n) \in Emissions
    BY DEF Plain, Frame, Emissions, NoIndex
  <1>3. CASE e.kind \in {"chunk", "untypedChunk"}
    <2>1. Plain("chunk", e.n) \in Emissions
      BY <1>1, <1>2 DEF Words
    <2> QED
      BY <1>3, <2>1 DEF Rewritten, Emitted, Results
  <1>4. CASE e.kind = "untyped"
    BY <1>4 DEF Rewritten, Silent, Results
  <1>5. CASE e.kind \in {"[DONE]", "garbage"}
    BY <1>5 DEF Rewritten, Transform, Silent, Results
  <1>6. CASE e.kind = "created"
    <2>1. New \in Transformers
      BY DEF New, Transformers
    <2> QED
      BY <1>6, <2>1 DEF Rewritten, Transform, Created, Silent, Results
  <1>7. CASE e.kind \in {"text", "reasoning"}
    <2>1. Plain(e.kind, e.n) \in Emissions /\ Plain("role", 0) \in Emissions
      BY <1>1, <1>2, <1>7 DEF Words
    <2>2. [s EXCEPT !.role = TRUE] \in Transformers
      BY DEF Transformers
    <2>3. Rewritten(s, e) = WithRole(s, Plain(e.kind, e.n))
      BY <1>7 DEF Rewritten, Transform
    <2> HIDE DEF Plain
    <2> QED
      BY <2>1, <2>2, <2>3 DEF WithRole, Emitted, Results
  <1>8. CASE e.kind = "completed"
    <2>1. Plain("tool_calls", 0) \in Emissions /\ Plain("stop", 0) \in Emissions
      BY <1>2 DEF Words
    <2>2. Rewritten(s, e) = Completed(s)
      BY <1>8 DEF Rewritten, Transform
    <2> QED
      BY <2>1, <2>2 DEF Completed, Emitted, Results
  <1>9. CASE e.kind \in {"failed", "incomplete", "error", "other", "empty"}
    BY <1>9 DEF Rewritten, Transform, Silent, Results
  <1> QED
    BY <1>1, <1>3, <1>4, <1>5, <1>6, <1>7, <1>8, <1>9 DEF Kinds, ItemKinds

\* The relay's own frames are no event and no emission.
LEMMA OwnFrames == Done \notin Said /\ Failed \notin Said /\ Done # Failed
  <1>1. Done[1].n = 0 /\ Failed[1].n = 0
    BY DEF Done, Failed, Plain, Frame
  <1>2. Done[1].kind = "[DONE]" /\ Failed[1].kind = "error" /\ Ping[1].kind = "ping"
    BY DEF Done, Failed, Ping, Plain, Frame
  <1>3. \A f \in Emissions : <<f>>[1].kind \in Words
    BY DEF Emissions
  <1>4. \A s \in Seq(Events) : s # <<>> => s[1].n \in 1..MaxLines
    BY EventsOf
  <1>5. {"[DONE]", "error", "ping"} \intersect Words = {}
    BY DEF Words
  <1> QED
    BY <1>1, <1>2, <1>3, <1>4, <1>5, RelayAssumption DEF Said

-----------------------------------------------------------------------------
(* The loop *)

\* What the loop may leave behind: types, and something to write iff it writes.
LoopFits ==
  /\ st \in Transformers
  /\ pc \in {"select", "write", "ended"} /\ next \in {"select", "ended"}
  /\ (out # <<>>) <=> (pc = "write")
  /\ quiet \in BOOLEAN
  /\ OutFits(pc, out, next, mode)

LEMMA WritesFit ==
  ASSUME TypeOK, NEW frames, NEW then \in {"select", "ended"}, Writes(frames, then),
         st' \in Transformers, mode' = mode, frames # <<>>,
         then = "select" => frames \in Seq(Said),
         then = "ended" => mode = "rewrite" /\ frames \in {<<Failed, Done>>, <<Done>>}
  PROVE  LoopFits' /\ pc' = "write" /\ quiet' = quiet
  BY DEF Writes, LoopFits, OutFits, TypeOK

LEMMA OwnFit == <<Done>> # <<>> /\ <<Failed, Done>> # <<>>
  OBVIOUS

\* One pass of the loop body.
LEMMA HandleFits ==
  ASSUME Inv, NEW data \in Seq(Events), data # <<>>, pc = "select", Handle(data), mode' = mode
  PROVE  LoopFits' /\ pc' \in {"select", "write"} /\ quiet' = quiet
  <1>0. TypeOK /\ st \in Transformers /\ Joined(data) \in Events
    BY JoinedIsEvent DEF Inv, TypeOK
  <1>l. ASSUME Loops, st' \in Transformers
        PROVE  LoopFits' /\ pc' = "select" /\ quiet' = quiet
    BY <1>0, <1>l DEF Loops, LoopFits, OutFits, TypeOK
  <1>1. CASE mode = "rewrite"
    <2> DEFINE r == Rewritten(st, Joined(data))
    <2>1. /\ st' = r.st /\ r.st \in Transformers /\ r.result \in Results
          /\ r.result = "emitted" => r.frames \in Seq(Emissions) /\ r.frames # <<>>
          /\ CASE r.result = "emitted" -> Writes([j \in DOMAIN r.frames |-> <<r.frames[j]>>], "select")
               [] r.result = "swallowed" -> Loops
               [] r.result = "done" -> Writes(<<Done>>, "ended")
               [] r.result = "invalid" -> Writes(<<Failed, Done>>, "ended")
      BY <1>0, <1>1, RewrittenFits DEF Handle, Rewrite
    <2> HIDE DEF r
    <2>2. CASE r.result = "emitted"
      <3> DEFINE f == [j \in DOMAIN r.frames |-> <<r.frames[j]>>]
      <3>1. r.frames \in Seq(Emissions) /\ r.frames # <<>>
        BY <2>1, <2>2
      <3>2. f \in Seq(Said) /\ f # <<>>
        <4>1. \A j \in 1..Len(r.frames) : <<r.frames[j]>> \in Said
          BY <3>1 DEF Said
        <4>2. DOMAIN r.frames = 1..Len(r.frames) /\ Len(r.frames) \in Nat \ {0}
          BY <3>1
        <4>3. f \in [1..Len(r.frames) -> Said] /\ DOMAIN f = 1..Len(r.frames)
          BY <4>1, <4>2
        <4>4. f \in Seq(Said) /\ Len(f) = Len(r.frames)
          <5> HIDE DEF f
          <5> QED
            BY <4>2, <4>3
        <4> HIDE DEF f
        <4> QED
          BY <4>2, <4>4
      <3>3. Writes(f, "select")
        BY <2>1, <2>2
      <3> HIDE DEF f
      <3> QED
        BY <1>0, <2>1, <3>2, <3>3, WritesFit
    <2>3. CASE r.result = "swallowed"
      BY <1>l, <2>1, <2>3
    <2>4. CASE r.result = "done"
      <3>1. Writes(<<Done>>, "ended")
        BY <2>1, <2>4
      <3> QED
        BY <1>0, <1>1, <2>1, <3>1, WritesFit, OwnFit
    <2>5. CASE r.result = "invalid"
      <3>1. Writes(<<Failed, Done>>, "ended")
        BY <2>1, <2>5
      <3> QED
        BY <1>0, <1>1, <2>1, <3>1, WritesFit, OwnFit
    <2> QED
      BY <2>1, <2>2, <2>3, <2>4, <2>5 DEF Results
  <1>2. CASE mode # "rewrite"
    <2>0. st' = st /\ (Loops \/ Writes(<<Verbatim(data)>>, "select"))
      BY <1>2 DEF Handle, PassThrough
    <2>1. CASE Loops
      BY <1>0, <1>l, <2>0, <2>1
    <2>2. CASE Writes(<<Verbatim(data)>>, "select")
      <3>1. Verbatim(data) \in Seq(Events) /\ Verbatim(data) # <<>>
        BY <1>0 DEF Verbatim
      <3>2. <<Verbatim(data)>> \in Seq(Said) /\ <<Verbatim(data)>> # <<>>
        BY <3>1 DEF Said
      <3> QED
        BY <1>0, <2>0, <2>2, <3>2, WritesFit
    <2> QED
      BY <2>0, <2>1, <2>2
  <1> QED
    BY <1>1, <1>2

\* The end of the upstream's events.
LEMMA EndFits ==
  ASSUME Inv, pc = "select", NoMoreEvents, mode' = mode
  PROVE  /\ LoopFits' /\ pc' \in {"write", "ended"} /\ quiet' = quiet
         /\ pc' = "ended" => mode = "pass"
  <1>0. TypeOK /\ st' \in Transformers
    BY DEF Inv, TypeOK, NoMoreEvents
  <1>1. CASE mode = "rewrite"
    <2>1. Writes(<<Done>>, "ended")
      BY <1>1 DEF NoMoreEvents
    <2> QED
      BY <1>0, <1>1, <2>1, WritesFit, OwnFit
  <1>2. CASE mode # "rewrite"
    BY <1>0, <1>2 DEF NoMoreEvents, Ends, LoopFits, OutFits, TypeOK
  <1> QED
    BY <1>1, <1>2

-----------------------------------------------------------------------------
(* The invariant *)

\* What the loop leaves alone.
OthersFit ==
  /\ mode \in {"rewrite", "pass"} /\ upstream \in {"open", "closed", "broken"}
  /\ lines \in Seq(DataLines \union {Blank, Ignored}) /\ Len(lines) <= MaxLines
  /\ sending \in DataLines \union {NoLine}
  /\ reader.line \in {sending, NoLine} /\ reader.data \in Seq(Events) /\ reader.eof \in BOOLEAN
  /\ gone \in BOOLEAN
  /\ pipe \in 0..Capacity
  /\ RoomForLine
  /\ ReaderFits

LEMMA InvParts == Inv <=> OthersFit /\ LoopFits /\ EndsFit
  BY DEF Inv, TypeOK, OthersFit, LoopFits

LEMMA InvPartsNext == OthersFit' /\ LoopFits' /\ EndsFit' => Inv'
  BY DEF Inv, TypeOK, OthersFit, LoopFits

\* Nothing of the relay's own has been written while it still selects.
LEMMA NoEndYet ==
  ASSUME Inv, pc = "select", written' = written
  PROVE  EndsFit'
  BY DEF Inv, EndsFit, Wrote

LEMMA LinesOf ==
  ASSUME NEW l \in DataLines
  PROVE  l.kind = "data" /\ l.event \in Events
  BY DEF DataLines, Line

LEMMA SentLines ==
  ASSUME Inv, Len(lines) < MaxLines, NEW l \in Sent
  PROVE  /\ l \in DataLines \union {Blank, Ignored}
         /\ l.kind = "data" <=> l \in DataLines
  <1>1. Len(lines) + 1 \in 1..MaxLines
    BY RelayAssumption DEF Inv, TypeOK
  <1>2. \A k \in Sendable : Data(k, Len(lines) + 1) \in DataLines
    <2> SUFFICES ASSUME NEW k \in Sendable
                 PROVE  Data(k, Len(lines) + 1) \in DataLines
      OBVIOUS
    <2>1. Event(k, NoItem, Len(lines) + 1) \in Events
      BY <1>1 DEF Events
    <2> QED
      BY <2>1 DEF Data, DataLines, Line
  <1>3. Blank.kind # "data" /\ Ignored.kind # "data"
    BY DEF Blank, Ignored, Line
  <1> QED
    BY <1>2, <1>3, LinesOf DEF Sent

LEMMA ReaderMoves ==
  ASSUME ReaderFits, NEW l \in DataLines \union {NoLine}, NEW data \in Seq(Events),
         reader' = [reader EXCEPT !.line = l, !.data = data]
  PROVE  /\ ReaderFits'
         /\ reader'.line = l /\ reader'.data = data /\ reader'.eof \in BOOLEAN
  BY DEF ReaderFits

LEMMA InvInit == Init => Inv
  <1> SUFFICES ASSUME Init
               PROVE  Inv
    OBVIOUS
  <1>1. New \in Transformers
    BY DEF New, Transformers
  <1>2. written \in Seq(Frames) /\ ~Wrote(Done) /\ ~Wrote(Failed)
    BY DEF Init, Wrote
  <1>3. LoopFits /\ EndsFit
    BY <1>1, <1>2 DEF Init, LoopFits, OutFits, EndsFit
  <1>4. OthersFit
    <2>1. /\ reader.line = NoLine /\ reader.data \in Seq(Events) /\ reader.eof \in BOOLEAN
          /\ ReaderFits
      BY DEF Init, ReaderFits
    <2>2. Len(lines) = 0 /\ lines \in Seq(DataLines \union {Blank, Ignored})
      BY DEF Init
    <2>3. 0 \in 0..Capacity /\ 0 <= MaxLines
      BY RelayAssumption
    <2>4. sending = NoLine /\ pipe = 0 /\ gone \in BOOLEAN /\ upstream = "open" /\ mode \in {"rewrite", "pass"}
      BY DEF Init
    <2> QED
      BY <2>1, <2>2, <2>3, <2>4 DEF OthersFit, RoomForLine
  <1> QED
    BY <1>3, <1>4, InvParts

LEMMA PieceKeeps ==
  ASSUME Inv, NEW l \in Sent, l.kind = "data", ReadPiece(l)
  PROVE  Inv'
  <1>1. l \in DataLines /\ Len(lines) < MaxLines
    BY SentLines DEF ReadPiece
  <1>2. OthersFit'
    <2>1. /\ ReaderFits' /\ reader'.line = l /\ reader'.data = reader.data
          /\ reader'.eof = reader.eof
      BY <1>1 DEF ReadPiece, Inv, ReaderFits
    <2> QED
      BY <1>1, <2>1, InvParts DEF ReadPiece, OthersFit, RoomForLine
  <1>3. LoopFits' /\ EndsFit'
    BY InvParts, NoEndYet DEF ReadPiece, Selecting, LoopFits
  <1> QED
    BY <1>2, <1>3, InvPartsNext

LEMMA LineKeeps ==
  ASSUME Inv, NEW l \in Sent, ReadLine(l)
  PROVE  Inv'
  <1> DEFINE read == IF reader.line = sending THEN l ELSE Ignored
             data == IF read.kind = "data" THEN Append(reader.data, read.event) ELSE reader.data
  <1>1. /\ Len(lines) < MaxLines /\ pc = "select" /\ UNCHANGED <<mode, upstream, pipe, written, gone>>
        /\ lines' = Append(lines, l) /\ sending' = NoLine
        /\ IF read.kind = "blank" /\ data # <<>>
           THEN Handle(data) /\ reader' = [reader EXCEPT !.line = NoLine, !.data = <<>>]
           ELSE Loops /\ UNCHANGED st /\ reader' = [reader EXCEPT !.line = NoLine, !.data = data]
    BY DEF ReadLine, Selecting
  <1>2. l \in DataLines \union {Blank, Ignored} /\ (l.kind = "data" => l.event \in Events)
    BY <1>1, SentLines, LinesOf
  <1>3. Ignored.kind = "ignored"
    BY DEF Ignored, Line
  <1>4. data \in Seq(Events)
    BY <1>2, <1>3 DEF Inv, TypeOK
  <1> HIDE DEF read, data
  <1>5. OthersFit'
    <2>1. lines' \in Seq(DataLines \union {Blank, Ignored}) /\ Len(lines') <= MaxLines
      <3>1. lines \in Seq(DataLines \union {Blank, Ignored}) /\ MaxLines \in Nat
        BY RelayAssumption DEF Inv, TypeOK
      <3> QED
        BY <1>1, <1>2, <3>1
    <2>2. /\ reader'.line = NoLine /\ reader'.data \in Seq(Events) /\ reader'.eof \in BOOLEAN
          /\ ReaderFits'
      <3>1. ASSUME NEW d \in Seq(Events), reader' = [reader EXCEPT !.line = NoLine, !.data = d]
            PROVE  /\ reader'.line = NoLine /\ reader'.data \in Seq(Events)
                   /\ reader'.eof \in BOOLEAN /\ ReaderFits'
        BY <3>1, ReaderMoves DEF Inv
      <3>2. <<>> \in Seq(Events)
        OBVIOUS
      <3> QED
        BY <1>1, <1>4, <3>1, <3>2
    <2> QED
      BY <1>1, <2>1, <2>2, InvParts DEF OthersFit, RoomForLine, ReaderFits
  <1>6. LoopFits'
    <2>1. CASE read.kind = "blank" /\ data # <<>>
      BY <1>1, <1>4, <2>1, HandleFits
    <2>2. CASE ~(read.kind = "blank" /\ data # <<>>)
      BY <1>1, <2>2, InvParts DEF Loops, LoopFits
    <2> QED
      BY <2>1, <2>2
  <1> QED
    BY <1>1, <1>5, <1>6, InvPartsNext, NoEndYet

LEMMA ClosesKeeps ==
  ASSUME Inv, NEW l \in {Ignored} \union DataLines, UpstreamCloses(l)
  PROVE  Inv'
  <1> DEFINE data == IF l.kind = "data" THEN Append(reader.data, l.event) ELSE reader.data
  <1>1. /\ pc = "select" /\ UNCHANGED <<mode, pipe, written, gone>> /\ upstream' = "closed"
        /\ lines' = IF reader.line = NoLine THEN lines ELSE Append(lines, l)
        /\ sending' = NoLine
        /\ reader' = [line |-> NoLine, data |-> <<>>, eof |-> TRUE]
        /\ IF data # <<>> THEN Handle(data) ELSE NoMoreEvents
    BY DEF UpstreamCloses, Selecting
  <1>2. l.kind = "data" => l.event \in Events
    BY LinesOf DEF Ignored, Line
  <1>3. data \in Seq(Events)
    BY <1>2 DEF Inv, TypeOK
  <1> HIDE DEF data
  <1>4. OthersFit'
    <2>1. lines' \in Seq(DataLines \union {Blank, Ignored}) /\ Len(lines') <= MaxLines
      BY <1>1, RelayAssumption DEF Inv, TypeOK, RoomForLine
    <2> QED
      BY <1>1, <2>1, InvParts DEF OthersFit, RoomForLine, ReaderFits
  <1>5. LoopFits'
    BY <1>1, <1>3, HandleFits, EndFits
  <1> QED
    BY <1>1, <1>4, <1>5, InvPartsNext, NoEndYet

LEMMA BreaksKeeps ==
  ASSUME Inv, UpstreamBreaks
  PROVE  Inv' /\ (pc' = "ended" => mode = "pass")
  <1>1. /\ pc = "select" /\ UNCHANGED <<mode, lines, st, pipe, written, gone>>
        /\ upstream' = "broken" /\ sending' = NoLine
        /\ reader' = [reader EXCEPT !.line = NoLine, !.data = <<>>]
    BY DEF UpstreamBreaks, Selecting
  <1>2. OthersFit'
    <2>1. /\ ReaderFits' /\ reader'.line = NoLine /\ reader'.data \in Seq(Events)
          /\ reader'.eof \in BOOLEAN
      <3>1. <<>> \in Seq(Events) /\ reader' = [reader EXCEPT !.line = NoLine, !.data = <<>>]
        BY <1>1
      <3> QED
        BY <3>1, ReaderMoves DEF Inv
    <2> QED
      BY <1>1, <2>1, InvParts DEF OthersFit, RoomForLine
  <1>3. LoopFits' /\ (pc' = "ended" => mode = "pass")
    <2>0. TypeOK /\ st' \in Transformers
      BY <1>1 DEF Inv, TypeOK
    <2>1. CASE mode = "rewrite"
      <3>1. Writes(<<Failed, Done>>, "ended")
        BY <2>1 DEF UpstreamBreaks
      <3> QED
        BY <1>1, <2>0, <2>1, <3>1, WritesFit, OwnFit
    <2>2. CASE mode # "rewrite"
      BY <1>1, <2>0, <2>2 DEF UpstreamBreaks, Ends, LoopFits, OutFits, TypeOK
    <2> QED
      BY <2>1, <2>2
  <1> QED
    BY <1>1, <1>2, <1>3, InvPartsNext, NoEndYet

\* The steps that touch neither the upstream nor what has been written.
LEMMA TimerKeeps ==
  ASSUME Inv, AfterFlush \/ DeadlinePasses \/ KeepAlive
  PROVE  Inv'
  <1>1. /\ pc = "select"
        /\ UNCHANGED <<mode, lines, sending, upstream, reader, pipe, written, gone>>
    BY DEF AfterFlush, DeadlinePasses, KeepAlive
  <1>2. OthersFit' /\ EndsFit'
    BY <1>1, InvParts, NoEndYet DEF OthersFit, RoomForLine, ReaderFits
  <1>3. LoopFits'
    <2>1. CASE AfterFlush
      BY <1>1, <2>1, EndFits DEF AfterFlush
    <2>2. CASE DeadlinePasses
      BY <1>1, <2>2, InvParts DEF DeadlinePasses, LoopFits, OutFits
    <2>3. CASE KeepAlive
      <3>1. <<Ping>> \in Seq(Said) /\ <<Ping>> # <<>>
        BY DEF Said
      <3>2. Writes(<<Ping>>, "select") /\ st' = st
        BY <2>3 DEF KeepAlive
      <3> QED
        BY <1>1, <3>1, <3>2, WritesFit DEF Inv, TypeOK
    <2> QED
      BY <2>1, <2>2, <2>3
  <1> QED
    BY <1>2, <1>3, InvPartsNext

-----------------------------------------------------------------------------
(* The pipe *)

\* What a write takes from the frames that are due.
LEMMA WriteCases ==
  ASSUME Inv, pc = "write"
  PROVE  /\ out # <<>> /\ Head(out) \in Frames
         /\ \/ next = "select" /\ Head(out) \in Said /\ Tail(out) \in Seq(Said)
            \/ next = "ended" /\ mode = "rewrite" /\ Head(out) = Failed /\ Tail(out) = <<Done>>
            \/ next = "ended" /\ mode = "rewrite" /\ Head(out) = Done /\ Tail(out) = <<>>
  <1>0. out # <<>> /\ next \in {"select", "ended"}
    BY DEF Inv, TypeOK
  <1>1. CASE next = "select"
    <2>1. out \in Seq(Said)
      BY <1>1 DEF Inv, OutFits
    <2> QED
      BY <1>0, <1>1, <2>1 DEF Frames
  <1>2. CASE next = "ended"
    <2>1. mode = "rewrite" /\ out \in {<<Failed, Done>>, <<Done>>}
      BY <1>2 DEF Inv, OutFits
    <2> QED
      <3>1. Head(<<Failed, Done>>) = Failed /\ Tail(<<Failed, Done>>) = <<Done>>
        OBVIOUS
      <3>2. Head(<<Done>>) = Done /\ Tail(<<Done>>) = <<>>
        OBVIOUS
      <3>3. Done \in Frames /\ Failed \in Frames
        BY DEF Frames
      <3> QED
        BY <1>0, <1>2, <2>1, <3>1, <3>2, <3>3
  <1> QED
    BY <1>0, <1>1, <1>2

\* One more frame in the pipe.
LEMMA AppendWrites ==
  ASSUME written \in Seq(Frames), NEW f \in Frames, written' = Append(written, f)
  PROVE  /\ written' \in Seq(Frames)
         /\ \A g : Wrote(g)' <=> Wrote(g) \/ f = g
         /\ Len(written') = Len(written) + 1 /\ Len(written') > 0
         /\ SubSeq(written', 1, Len(written)) = written
         /\ written'[Len(written')] = f
  <1>1. /\ written' \in Seq(Frames) /\ Len(written') = Len(written) + 1
        /\ written'[Len(written) + 1] = f /\ Len(written) \in Nat
        /\ DOMAIN written = 1..Len(written) /\ DOMAIN written' = 1..(Len(written) + 1)
        /\ \A j \in 1..Len(written) : written'[j] = written[j]
    OBVIOUS
  <1>2. ASSUME NEW g
        PROVE  Wrote(g)' <=> Wrote(g) \/ f = g
    BY <1>1 DEF Wrote
  <1>3. SubSeq(written', 1, Len(written)) = written
    BY <1>1
  <1> QED
    BY <1>1, <1>2, <1>3

LEMMA WriteKeeps ==
  ASSUME Inv, Write
  PROVE  Inv'
  <1>1. /\ pc = "write" /\ out' = Tail(out)
        /\ UNCHANGED <<mode, lines, sending, upstream, reader, st, next, gone>>
        /\ pipe < Capacity /\ pipe' = pipe + 1
        /\ written' = IF Head(out) = Ping THEN written ELSE Append(written, Head(out))
        /\ IF Tail(out) = <<>> THEN pc' = next /\ quiet' = FALSE ELSE UNCHANGED <<pc, quiet>>
    BY DEF Write
  <1>2. OthersFit'
    <2>1. pipe' \in 0..Capacity
      BY <1>1, RelayAssumption DEF Inv, TypeOK
    <2> QED
      BY <1>1, <2>1, InvParts DEF OthersFit, RoomForLine, ReaderFits
  <1>3. /\ \/ next = "select" /\ Head(out) \in Said /\ Tail(out) \in Seq(Said)
           \/ next = "ended" /\ mode = "rewrite" /\ Head(out) = Failed /\ Tail(out) = <<Done>>
           \/ next = "ended" /\ mode = "rewrite" /\ Head(out) = Done /\ Tail(out) = <<>>
        /\ Head(out) \in Frames
    BY <1>1, WriteCases
  <1>4. LoopFits'
    <2>1. st' \in Transformers /\ next' \in {"select", "ended"} /\ quiet' \in BOOLEAN
      BY <1>1 DEF Inv, TypeOK
    <2>2. CASE Tail(out) = <<>>
      <3>1. pc' = next /\ out' = <<>> /\ pc' # "write"
        BY <1>1, <1>3, <2>2
      <3> QED
        BY <1>1, <1>3, <2>1, <3>1 DEF LoopFits, OutFits
    <2>3. CASE Tail(out) # <<>>
      BY <1>1, <1>3, <2>1, <2>3 DEF LoopFits, OutFits
    <2> QED
      BY <2>2, <2>3
  <1>5. EndsFit'
    <2>0. written \in Seq(Frames) /\ ~Wrote(Done) /\ (Wrote(Failed) => next = "ended" /\ out = <<Done>>)
      BY <1>1 DEF Inv, EndsFit
    <2>1. written' \in Seq(Frames) /\ \A g : Wrote(g)' => Wrote(g) \/ Head(out) = g
      <3>1. CASE written' = written
        BY <2>0, <3>1 DEF Wrote
      <3>2. CASE written' = Append(written, Head(out))
        BY <1>3, <2>0, <3>2, AppendWrites
      <3> QED
        BY <1>1, <3>1, <3>2
    <2>2. Wrote(Done)' => pc' = "ended"
      BY <1>1, <1>3, <2>0, <2>1, OwnFrames
    <2>3. Wrote(Failed)' => pc' = "ended" \/ (pc' = "write" /\ next' = "ended" /\ out' = <<Done>>)
      <3>1. CASE Wrote(Failed)
        <4>1. Tail(<<Done>>) = <<>>
          OBVIOUS
        <4>2. next = "ended" /\ Tail(out) = <<>>
          BY <2>0, <3>1, <4>1
        <4> QED
          BY <1>1, <4>2
      <3>2. CASE Head(out) = Failed
        <4>1. next = "ended" /\ Tail(out) = <<Done>>
          BY <1>3, <3>2, OwnFrames
        <4> QED
          BY <1>1, <4>1
      <3> QED
        BY <2>1, <3>1, <3>2
    <2> QED
      BY <2>1, <2>2, <2>3 DEF EndsFit
  <1> QED
    BY <1>2, <1>4, <1>5, InvPartsNext

LEMMA ClientKeeps ==
  ASSUME Inv, WriteFails \/ ClientReads \/ ClientLeaves
  PROVE  Inv'
  <1>1. UNCHANGED <<mode, lines, sending, upstream, reader, st, written>>
    BY DEF WriteFails, ClientReads, ClientLeaves
  <1>2. pipe' \in 0..Capacity /\ gone' \in BOOLEAN
    <2>1. pipe \in 0..Capacity /\ gone \in BOOLEAN /\ Capacity \in Nat
      BY RelayAssumption DEF Inv, TypeOK
    <2>2. CASE WriteFails
      BY <2>1, <2>2 DEF WriteFails
    <2>3. CASE ClientReads
      BY <2>1, <2>3 DEF ClientReads
    <2>4. CASE ClientLeaves
      BY <2>1, <2>4 DEF ClientLeaves
    <2> QED
      BY <2>2, <2>3, <2>4
  <1>3. OthersFit'
    BY <1>1, <1>2, InvParts DEF OthersFit, RoomForLine, ReaderFits
  <1>4. LoopFits' /\ EndsFit'
    <2>1. CASE WriteFails
      BY <1>1, <2>1 DEF WriteFails, Ends, Inv, TypeOK, LoopFits, OutFits, EndsFit, Wrote
    <2>2. CASE UNCHANGED <<pc, out, next, quiet>>
      BY <1>1, <2>2, InvParts DEF LoopFits, OutFits, EndsFit, Wrote
    <2> QED
      BY <2>1, <2>2 DEF ClientReads, ClientLeaves
  <1> QED
    BY <1>3, <1>4, InvPartsNext

LEMMA InvNext == Inv /\ [Next]_vars => Inv'
  <1> SUFFICES ASSUME Inv, [Next]_vars
               PROVE  Inv'
    OBVIOUS
  <1>1. CASE Upstream
    BY <1>1, PieceKeeps, LineKeeps, ClosesKeeps, BreaksKeeps DEF Upstream
  <1>2. CASE UNCHANGED vars
    BY <1>2 DEF vars, Inv, TypeOK, RoomForLine, ReaderFits, OutFits, EndsFit, Wrote
  <1> QED
    BY <1>1, <1>2, TimerKeeps, WriteKeeps, ClientKeeps DEF Next

LEMMA InvAlways == Spec => []Inv
  BY InvInit, InvNext, PTL DEF Spec

\* For any lines, any pipe, with or without a keepalive: the reader, the transformer
\* and the loop stay in their types, and the loop writes iff it has something to write.
THEOREM RelayTypes == Spec => []TypeOK
  BY InvAlways, PTL DEF Inv

\* Reading postpones no deadline, whatever is read, and ends only a Responses stream.
LEMMA ReadingFits ==
  ASSUME Inv, Upstream \/ AfterFlush
  PROVE  quiet' = quiet /\ (pc' = "ended" => mode = "pass")
  <1>1. ASSUME NEW l \in Sent, ReadLine(l)
        PROVE  quiet' = quiet /\ (pc' = "ended" => mode = "pass")
    <2> DEFINE read == IF reader.line = sending THEN l ELSE Ignored
               data == IF read.kind = "data" THEN Append(reader.data, read.event) ELSE reader.data
    <2>1. /\ Len(lines) < MaxLines /\ pc = "select" /\ mode' = mode
          /\ (data # <<>> /\ Handle(data)) \/ Loops
      BY <1>1 DEF ReadLine, Selecting
    <2>2. data \in Seq(Events)
      <3>1. l.kind = "data" => l.event \in Events
        BY <2>1, SentLines, LinesOf
      <3>2. Ignored.kind = "ignored" /\ reader.data \in Seq(Events)
        BY DEF Ignored, Line, Inv, TypeOK
      <3> QED
        BY <3>1, <3>2
    <2> HIDE DEF read, data
    <2> QED
      BY <2>1, <2>2, HandleFits DEF Loops
  <1>2. ASSUME NEW l \in {Ignored} \union DataLines, UpstreamCloses(l)
        PROVE  quiet' = quiet /\ (pc' = "ended" => mode = "pass")
    <2> DEFINE data == IF l.kind = "data" THEN Append(reader.data, l.event) ELSE reader.data
    <2>1. /\ pc = "select" /\ mode' = mode
          /\ IF data # <<>> THEN Handle(data) ELSE NoMoreEvents
      BY <1>2 DEF UpstreamCloses, Selecting
    <2>2. data \in Seq(Events)
      <3>1. l.kind = "data" => l.event \in Events
        BY LinesOf DEF Ignored, Line
      <3>2. reader.data \in Seq(Events)
        BY DEF Inv, TypeOK
      <3> QED
        BY <3>1, <3>2
    <2> HIDE DEF data
    <2> QED
      BY <2>1, <2>2, HandleFits, EndFits
  <1>3. CASE UpstreamBreaks \/ \E l \in Sent : ReadPiece(l)
    <2>1. CASE UpstreamBreaks
      BY <2>1, BreaksKeeps DEF UpstreamBreaks, Writes, Ends
    <2>2. CASE \E l \in Sent : ReadPiece(l)
      BY <2>2 DEF ReadPiece, Selecting
    <2> QED
      BY <1>3, <2>1, <2>2
  <1>4. CASE AfterFlush
    BY <1>4, EndFits DEF AfterFlush
  <1> QED
    BY <1>1, <1>2, <1>3, <1>4 DEF Upstream

\* Only bytes on their way to the client put the keepalive off (relay.rs:279-286).
THEOREM WritesReset == Spec => OnlyWritesResetTheTimer
  <1>1. Inv /\ [Next]_vars => [quiet /\ ~quiet' => pipe' > pipe]_vars
    <2> SUFFICES ASSUME Inv, Next, quiet, ~quiet'
                 PROVE  pipe' > pipe
      OBVIOUS
    <2>1. CASE Write
      <3>1. pipe \in Int /\ pipe' = pipe + 1
        BY <2>1, RelayAssumption DEF Write, Inv, TypeOK
      <3> QED
        BY <3>1
    <2>2. CASE Upstream \/ AfterFlush
      BY <2>2, ReadingFits
    <2>3. CASE DeadlinePasses \/ KeepAlive \/ WriteFails \/ ClientReads \/ ClientLeaves
      BY <2>3 DEF DeadlinePasses, KeepAlive, WriteFails, Writes, Ends, ClientReads, ClientLeaves
    <2> QED
      BY <2>1, <2>2, <2>3 DEF Next
  <1> QED
    BY <1>1, InvAlways, PTL DEF Spec, OnlyWritesResetTheTimer

-----------------------------------------------------------------------------
(* The stream contract *)

LEMMA ContractHas == \A f : Contract!Has(f) <=> Wrote(f)
  BY DEF Contract!Has, Wrote

\* The end of a stream, as the contract sees it.
LEMMA Closing ==
  ASSUME pc # "ended", pc' = "ended", UNCHANGED <<mode, written, gone>>, mode = "pass" \/ gone
  PROVE  Contract!Next
  <1>1. Contract!Close
    BY DEF Contract!Close
  <1> QED
    BY <1>1 DEF Contract!Next

\* A write is the contract's, with the end of the stream if the sentinel was written;
\* a ping is nothing.
LEMMA WriteAsContract ==
  ASSUME Inv, Write
  PROVE  Contract!Next \/ UNCHANGED Contract!vars
  <1>1. /\ pc = "write" /\ UNCHANGED <<mode, gone, next>>
        /\ written' = IF Head(out) = Ping THEN written ELSE Append(written, Head(out))
        /\ IF Tail(out) = <<>> THEN pc' = next ELSE pc' = pc
    BY DEF Write
  <1>2. /\ \/ next = "select" /\ Head(out) \in Said
           \/ next = "ended" /\ mode = "rewrite" /\ Head(out) = Failed /\ Tail(out) = <<Done>>
           \/ next = "ended" /\ mode = "rewrite" /\ Head(out) = Done /\ Tail(out) = <<>>
        /\ Head(out) \in Frames
    BY <1>1, WriteCases
  <1>3. /\ written \in Seq(Frames) /\ ~Wrote(Done)
        /\ Wrote(Failed) => next = "ended" /\ out = <<Done>>
    BY <1>1 DEF Inv, EndsFit
  <1>4. Ping \in Said
    BY DEF Said
  <1>5. CASE Head(out) = Ping
    <2>1. next = "select"
      BY <1>2, <1>4, <1>5, OwnFrames
    <2>2. UNCHANGED <<mode, written, gone>> /\ pc' \in {"select", "write"}
      BY <1>1, <1>5, <2>1
    <2> QED
      BY <1>1, <2>2 DEF Contract!vars
  <1>6. CASE Head(out) # Ping
    <2> DEFINE f == Head(out)
    <2>1. /\ Len(written') = Len(written) + 1 /\ Len(written') > 0
          /\ SubSeq(written', 1, Len(written)) = written
          /\ written'[Len(written')] = f
      BY <1>1, <1>2, <1>3, <1>6, AppendWrites
    <2>2. f \in {Done, Failed} => mode = "rewrite"
      BY <1>2, OwnFrames
    <2>3. Wrote(Failed) => f = Done
      <3>1. Head(<<Done>>) = Done
        OBVIOUS
      <3> QED
        BY <1>3, <3>1
    <2> HIDE DEF f
    <2>4. Contract!Write
      BY <1>1, <1>3, <2>1, <2>2, <2>3, ContractHas DEF Contract!Write
    <2>5. pc' = "ended" => f = Done
      BY <1>1, <1>2 DEF f
    <2>6. Contract!Close \/ UNCHANGED (pc = "ended")
      <3>1. CASE pc' = "ended"
        BY <2>1, <2>5, <3>1 DEF Contract!Close
      <3>2. CASE pc' # "ended"
        BY <1>1, <3>2
      <3> QED
        BY <3>1, <3>2
    <2> QED
      BY <1>1, <2>4, <2>6 DEF Contract!Next
  <1> QED
    BY <1>5, <1>6

LEMMA ContractStep ==
  ASSUME Inv, [Next]_vars
  PROVE  Contract!Next \/ UNCHANGED Contract!vars
  <1>1. CASE Write
    BY <1>1, WriteAsContract
  <1>2. CASE ClientLeaves
    BY <1>2 DEF ClientLeaves, Contract!Next, Contract!Leave
  <1>3. CASE WriteFails
    BY <1>3, Closing DEF WriteFails, Ends
  <1>4. CASE UNCHANGED <<mode, written, gone>> /\ pc' # "ended" /\ pc # "ended"
    BY <1>4 DEF Contract!vars
  <1>5. CASE UNCHANGED <<mode, written, gone>> /\ pc' = pc
    BY <1>5 DEF Contract!vars
  <1>6. CASE UNCHANGED <<mode, written, gone>> /\ pc = "select" /\ pc' = "ended" /\ mode = "pass"
    BY <1>6, Closing
  <1>7. CASE Upstream \/ AfterFlush
    <2>1. UNCHANGED <<mode, written, gone>> /\ pc = "select"
      BY <1>7 DEF Upstream, AfterFlush, ReadPiece, ReadLine, UpstreamCloses, UpstreamBreaks, Selecting
    <2>2. pc' = "ended" => mode = "pass"
      BY <1>7, ReadingFits
    <2> QED
      BY <1>4, <1>6, <2>1, <2>2
  <1>8. CASE KeepAlive
    BY <1>4, <1>8 DEF KeepAlive, Writes
  <1>9. CASE DeadlinePasses \/ ClientReads \/ UNCHANGED vars
    BY <1>5, <1>9 DEF DeadlinePasses, ClientReads, vars
  <1> QED
    BY <1>1, <1>2, <1>3, <1>7, <1>8, <1>9 DEF Next

\* Every chat stream ends in one [DONE], last, after a failure notice if anything
\* failed, and a Responses stream has nothing of the relay's own (relay.rs:13-31):
\* for any lines, any pipe, and wherever the upstream or the client breaks off.
THEOREM RelayKeepsContract == Spec => KeepsStreamContract
  <1>1. Init => Contract!Init
    BY DEF Init, Contract!Init
  <1>2. Inv /\ [Next]_vars => [Contract!Next]_(Contract!vars)
    BY ContractStep
  <1> QED
    BY <1>1, <1>2, InvAlways, PTL DEF Spec, KeepsStreamContract, Contract!Spec

-----------------------------------------------------------------------------
(* What the lines read so far say: the recursive function of Heard,        *)
(* unfolded line by line.  Induction is on a set: a claim about numbers    *)
(* that fails has a least one it fails for.                                *)

\* A set of numbers with a member has a least one.
LEMMA Least ==
  ASSUME NEW T, T \subseteq Nat, T # {}
  PROVE  \E n \in T : \A k \in T : ~(k < n)
  <1>1. \E n \in T : \A k \in T : ~(<<k, n>> \in OpToRel(<, Nat))
    BY NatLessThanWellFounded, WFMin, Zenon
  <1>2. \A k, n \in Nat : k < n => <<k, n>> \in OpToRel(<, Nat)
    BY DEF OpToRel
  <1> QED
    BY <1>1, <1>2, Zenon

\* f tells what is heard of the first n lines of ls.
Tells(m, ls, n, f) ==
  f = [p \in 0..n |-> IF p = 0 THEN Nothing ELSE Hear(m, f[p - 1], ls[p])]

LEMMA TellsHas ==
  ASSUME NEW m, NEW ls, NEW n \in Nat, NEW f, Tells(m, ls, n, f)
  PROVE  /\ f[0] = Nothing
         /\ \A p \in 1..n : f[p] = Hear(m, f[p - 1], ls[p])
  <1> DEFINE at(p) == IF p = 0 THEN Nothing ELSE Hear(m, f[p - 1], ls[p])
  <1>1. \A p \in 0..n : f[p] = at(p)
    <2>1. f = [p \in 0..n |-> at(p)]
      BY Zenon DEF Tells
    <2> HIDE DEF at
    <2> QED
      BY <2>1
  <1>2. 0 \in 0..n /\ \A p \in 1..n : p \in 0..n /\ p # 0
    OBVIOUS
  <1>3. at(0) = Nothing /\ \A p : p # 0 => at(p) = Hear(m, f[p - 1], ls[p])
    OBVIOUS
  <1> HIDE DEF at
  <1> QED
    BY <1>1, <1>2, <1>3, Zenon

\* A function is built one line at a time.
LEMMA TellsAll ==
  ASSUME NEW m, NEW ls, NEW n \in Nat
  PROVE  \E f : Tells(m, ls, n, f)
  <1> DEFINE T == {k \in Nat : ~\E f : Tells(m, ls, k, f)}
  <1>1. SUFFICES T = {}
    BY Zenon
  <1>2. SUFFICES ASSUME NEW k \in T, \A j \in T : ~(j < k)
                 PROVE  FALSE
    BY Least, Zenon
  <1>3. CASE k = 0
    <2> DEFINE f == [p \in 0..0 |-> Nothing]
    <2>1. Tells(m, ls, 0, f)
      <3>1. \A p \in 0..0 : p = 0
        OBVIOUS
      <3>2. f = [p \in 0..0 |-> IF p = 0 THEN Nothing ELSE Hear(m, f[p - 1], ls[p])]
        BY <3>1, Zenon
      <3> QED
        BY <3>2, Zenon DEF Tells
    <2> QED
      BY <1>3, <2>1, Zenon
  <1>4. CASE k # 0
    <2>1. k \in Nat /\ k - 1 \in Nat /\ k - 1 < k /\ k - 1 \notin T
      BY <1>2, <1>4
    <2>2. PICK i \in Nat : i = k - 1
      BY <2>1
    <2>3. PICK f : Tells(m, ls, i, f)
      BY <2>1, <2>2, Zenon
    <2>4. f[0] = Nothing /\ \A p \in 1..i : f[p] = Hear(m, f[p - 1], ls[p])
      BY <2>3, TellsHas
    <2> DEFINE g == [p \in 0..k |-> IF p = k THEN Hear(m, f[k - 1], ls[k]) ELSE f[p]]
               at(p) == IF p = 0 THEN Nothing ELSE Hear(m, g[p - 1], ls[p])
    <2>5. ASSUME NEW p \in 0..k
          PROVE  g[p] = at(p)
      <3>1. CASE p = 0
        <4>1. g[0] = f[0]
          BY <1>4, <2>1
        <4> HIDE DEF g
        <4> QED
          BY <2>4, <3>1, <4>1, Zenon
      <3>2. CASE p = k
        <4>1. g[k] = Hear(m, f[k - 1], ls[k])
          BY <2>1
        <4>2. g[k - 1] = f[k - 1]
          BY <2>1, <1>4
        <4> HIDE DEF g
        <4> QED
          BY <1>4, <3>2, <4>1, <4>2, Zenon
      <3>3. CASE p # 0 /\ p # k
        <4>1. p \in 1..i
          BY <2>1, <2>2, <3>3
        <4>2. g[p] = f[p] /\ g[p - 1] = f[p - 1]
          BY <2>1, <3>3
        <4>3. f[p] = Hear(m, f[p - 1], ls[p])
          BY <4>1, <2>4
        <4> HIDE DEF g
        <4> QED
          BY <3>3, <4>2, <4>3, Zenon
      <3> QED
        BY <3>1, <3>2, <3>3
    <2>6. g = [p \in 0..k |-> g[p]]
      OBVIOUS
    <2>7. g = [p \in 0..k |-> at(p)]
      <3> HIDE DEF g, at
      <3> QED
        BY <2>5, <2>6, Zenon
    <2>8. Tells(m, ls, k, g)
      <3> HIDE DEF g
      <3> QED
        BY <2>7, Zenon DEF Tells
    <2> QED
      BY <1>2, <2>8, Zenon
  <1> QED
    BY <1>3, <1>4

\* What is heard of a line depends on the ones before it only.
LEMMA TellsAgree ==
  ASSUME NEW m, NEW ls, NEW ks, NEW n \in Nat, NEW f, NEW g,
         NEW i \in Nat, Tells(m, ls, n, f), Tells(m, ks, i, g), n <= i,
         \A p \in 1..n : ls[p] = ks[p]
  PROVE  \A p \in 0..n : f[p] = g[p]
  <1> DEFINE T == {p \in 0..n : f[p] # g[p]}
  <1>1. SUFFICES T = {}
    BY Zenon
  <1>2. SUFFICES ASSUME NEW p \in T, \A j \in T : ~(j < p)
                 PROVE  FALSE
    <2>1. T \subseteq Nat
      OBVIOUS
    <2> HIDE DEF T
    <2> QED
      BY <2>1, Least, Zenon
  <1>3. p \in 0..n /\ f[p] # g[p]
    BY <1>2
  <1>6. /\ f[0] = Nothing /\ \A q \in 1..n : f[q] = Hear(m, f[q - 1], ls[q])
        /\ g[0] = Nothing /\ \A q \in 1..i : g[q] = Hear(m, g[q - 1], ks[q])
    BY TellsHas
  <1>4. CASE p = 0
    BY <1>3, <1>4, <1>6, Zenon
  <1>5. CASE p # 0
    <2>1. p \in 1..n /\ p \in 1..i /\ p - 1 \in 0..n /\ p - 1 < p
      BY <1>3, <1>5
    <2>2. f[p - 1] = g[p - 1]
      BY <1>2, <2>1
    <2> QED
      BY <1>3, <1>6, <2>1, <2>2, Zenon
  <1> QED
    BY <1>4, <1>5

LEMMA HeardTells ==
  ASSUME NEW m, NEW S, NEW ls \in Seq(S)
  PROVE  \E f : Tells(m, ls, Len(ls), f) /\ Heard(m, ls) = f[Len(ls)]
  <1>1. Len(ls) \in Nat
    OBVIOUS
  <1> DEFINE heard == CHOOSE f : Tells(m, ls, Len(ls), f)
  <1>2. Tells(m, ls, Len(ls), heard)
    BY <1>1, TellsAll, Zenon
  <1>3. Heard(m, ls) = heard[Len(ls)]
    BY Zenon DEF Heard, Tells
  <1> QED
    BY <1>2, <1>3, Zenon

\* Lines are heard one after the other.
LEMMA HeardOneByOne ==
  ASSUME NEW m, NEW S, NEW ls \in Seq(S), NEW l \in S
  PROVE  /\ Heard(m, <<>>) = Nothing
         /\ Heard(m, Append(ls, l)) = Hear(m, Heard(m, ls), l)
  <1>1. <<>> \in Seq(S) /\ Len(<<>>) = 0 /\ 0 \in Nat
    OBVIOUS
  <1>2. Heard(m, <<>>) = Nothing
    <2>1. PICK f : Tells(m, <<>>, 0, f) /\ Heard(m, <<>>) = f[0]
      BY <1>1, HeardTells
    <2> QED
      BY <1>1, <2>1, TellsHas
  <1> DEFINE ks == Append(ls, l)
  <1>3. PICK n \in Nat : n = Len(ls)
    OBVIOUS
  <1>4. PICK i \in Nat : i = n + 1
    OBVIOUS
  <1>5. /\ n <= i /\ i \in 1..i /\ i - 1 = n /\ n \in 0..n
        /\ ks \in Seq(S) /\ Len(ks) = i /\ ks[i] = l /\ \A p \in 1..n : ls[p] = ks[p]
    BY <1>3, <1>4
  <1> HIDE DEF ks
  <1>6. PICK f : Tells(m, ls, n, f) /\ Heard(m, ls) = f[n]
    <2>1. \E f : Tells(m, ls, Len(ls), f) /\ Heard(m, ls) = f[Len(ls)]
      BY HeardTells, Zenon
    <2> QED
      BY <1>3, <2>1, Zenon
  <1>7. PICK g : Tells(m, ks, i, g) /\ Heard(m, ks) = g[i]
    <2>1. \E g : Tells(m, ks, Len(ks), g) /\ Heard(m, ks) = g[Len(ks)]
      BY <1>5, HeardTells, Zenon
    <2> QED
      BY <1>5, <2>1, Zenon
  <1>8. f[n] = g[n]
    <2>1. n <= i /\ (\A p \in 1..n : ls[p] = ks[p]) /\ Tells(m, ls, n, f) /\ Tells(m, ks, i, g)
      BY <1>5, <1>6, <1>7, Zenon
    <2>2. \A p \in 0..n : f[p] = g[p]
      BY <2>1, TellsAgree
    <2> QED
      BY <1>5, <2>2
  <1>9. g[i] = Hear(m, g[n], ks[i])
    <2>1. \A p \in 1..i : g[p] = Hear(m, g[p - 1], ks[p])
      BY <1>7, TellsHas
    <2> QED
      BY <1>5, <2>1
  <1>10. Heard(m, ks) = Hear(m, Heard(m, ls), l)
    BY <1>5, <1>6, <1>7, <1>8, <1>9, Zenon
  <1> QED
    BY <1>2, <1>10, Zenon DEF ks

-----------------------------------------------------------------------------
(* What the loop does with one event is what the account of it says.       *)

\* What an open event adds to an account, case by case.
AddsTo(told, r, s, fr) ==
  /\ r.result = "emitted" =>
       told = Account(<<>>, r.st, fr \o [j \in DOMAIN r.frames |-> <<r.frames[j]>>], FALSE)
  /\ r.result = "swallowed" => told = Account(<<>>, r.st, fr, FALSE)
  /\ r.result = "done" => told = Account(<<>>, s, Append(fr, Done), TRUE)
  /\ r.result = "invalid" => told = Account(<<>>, s, fr \o <<Failed, Done>>, TRUE)

LEMMA TranslatedCases ==
  ASSUME NEW d, NEW s, NEW fr, NEW r, r = Rewritten(s, Joined(d)), r.result \in Results
  PROVE  AddsTo(Translated("rewrite", Account(d, s, fr, FALSE)), r, s, fr)
  <1> DEFINE acc == Account(d, s, fr, FALSE)
             f == [j \in DOMAIN r.frames |-> <<r.frames[j]>>]
  <1>1. acc.data = d /\ acc.st = s /\ acc.frames = fr /\ acc.over = FALSE
    BY DEF Account
  <1> HIDE DEF acc
  <1>2. Translated("rewrite", acc) =
          CASE r.result = "emitted" -> Account(<<>>, r.st, fr \o f, FALSE)
            [] r.result = "swallowed" -> Account(<<>>, r.st, fr, FALSE)
            [] r.result = "done" -> Account(<<>>, s, Append(fr, Done), TRUE)
            [] r.result = "invalid" -> Account(<<>>, s, fr \o <<Failed, Done>>, TRUE)
    BY <1>1, Zenon DEF Translated
  <1> HIDE DEF f
  <1>3. /\ r.result = "emitted" => Translated("rewrite", acc) = Account(<<>>, r.st, fr \o f, FALSE)
        /\ r.result = "swallowed" => Translated("rewrite", acc) = Account(<<>>, r.st, fr, FALSE)
        /\ r.result = "done" => Translated("rewrite", acc) = Account(<<>>, s, Append(fr, Done), TRUE)
        /\ r.result = "invalid" => Translated("rewrite", acc) = Account(<<>>, s, fr \o <<Failed, Done>>, TRUE)
    BY <1>2 DEF Results
  <1> QED
    BY <1>3, Zenon DEF acc, f, AddsTo

\* A Responses stream has its events as they came.
LEMMA PassedCases ==
  ASSUME NEW d, NEW s, NEW fr
  PROVE  Translated("pass", Account(d, s, fr, FALSE))
           = Account(<<>>, s, IF Silence(d) THEN fr ELSE Append(fr, Verbatim(d)), FALSE)
  <1> DEFINE acc == Account(d, s, fr, FALSE)
  <1>1. acc.data = d /\ acc.st = s /\ acc.frames = fr /\ acc.over = FALSE
    BY DEF Account
  <1> HIDE DEF acc
  <1>2. Translated("pass", acc) =
          IF Silence(d) THEN Account(<<>>, s, fr, FALSE) ELSE Account(<<>>, s, Append(fr, Verbatim(d)), FALSE)
    BY <1>1, Zenon DEF Translated
  <1>3. CASE Silence(d)
    BY <1>2, <1>3, Zenon DEF acc
  <1>4. CASE ~Silence(d)
    BY <1>2, <1>4, Zenon DEF acc
  <1> QED
    BY <1>3, <1>4

Accounts == [data : Seq(Events), st : Transformers, frames : Seq(Frames), over : BOOLEAN]

LEMMA AccountFits ==
  ASSUME NEW d \in Seq(Events), NEW s \in Transformers, NEW fr \in Seq(Frames), NEW o \in BOOLEAN
  PROVE  /\ Account(d, s, fr, o) \in Accounts
         /\ Account(d, s, fr, o).data = d /\ Account(d, s, fr, o).st = s
         /\ Account(d, s, fr, o).frames = fr /\ Account(d, s, fr, o).over = o
  BY DEF Account, Accounts

\* Nothing but the timer writes a ping.
NoPing(o) == \A j \in DOMAIN o : o[j] # Ping

LEMMA NoPings ==
  /\ \A f \in Emissions : <<f>> # Ping
  /\ \A v \in Seq(Events) : v # <<>> => v # Ping
  /\ Done # Ping /\ Failed # Ping
  <1>1. Ping[1].kind = "ping" /\ Ping[1].n = 0 /\ Done[1].kind = "[DONE]" /\ Failed[1].kind = "error"
    BY DEF Done, Failed, Ping, Plain, Frame
  <1>2. \A f \in Emissions : <<f>>[1].kind \in Words
    BY DEF Emissions
  <1>3. \A v \in Seq(Events) : v # <<>> => v[1].n \in 1..MaxLines
    BY EventsOf
  <1>4. "ping" \notin Words
    BY DEF Words
  <1> QED
    BY <1>1, <1>2, <1>3, <1>4, RelayAssumption

\* What the loop does with an event is what the account of it has.
HandsOn(told) ==
  /\ told \in Accounts /\ told.data = <<>>
  /\ NoPing(out')
  /\ written \o out' = told.frames
  /\ pc' = "select" => next' = "select"
  /\ next' = "select" => ~told.over /\ (mode = "rewrite" => st' = told.st)
  /\ next' = "ended" => mode = "rewrite" /\ told.over

LEMMA Handing ==
  ASSUME NEW s \in Transformers, NEW fr \in Seq(Frames), NEW o \in BOOLEAN,
         NoPing(out'), written \o out' = fr, pc' = "select" => next' = "select",
         next' = "select" => ~o /\ (mode = "rewrite" => st' = s),
         next' = "ended" => mode = "rewrite" /\ o
  PROVE  HandsOn(Account(<<>>, s, fr, o))
  <1>1. <<>> \in Seq(Events)
    OBVIOUS
  <1>2. /\ Account(<<>>, s, fr, o) \in Accounts
        /\ Account(<<>>, s, fr, o).data = <<>> /\ Account(<<>>, s, fr, o).st = s
        /\ Account(<<>>, s, fr, o).frames = fr /\ Account(<<>>, s, fr, o).over = o
    BY <1>1 DEF Account, Accounts
  <1> QED
    BY <1>2, Zenon DEF HandsOn

LEMMA HandleHandsOn ==
  ASSUME Inv, NEW d \in Seq(Events), d # <<>>, NEW s \in Transformers,
         pc = "select", next = "select", mode = "rewrite" => s = st, Handle(d), mode' = mode
  PROVE  HandsOn(Translated(mode, Account(d, s, written, FALSE)))
  <1>0. /\ mode \in {"rewrite", "pass"} /\ st \in Transformers /\ out = <<>>
        /\ written \in Seq(Frames) /\ Joined(d) \in Events
    BY JoinedIsEvent DEF Inv, TypeOK, EndsFit
  <1>l. Loops => /\ out' = <<>> /\ pc' = "select" /\ next' = "select"
                 /\ NoPing(out') /\ written \o out' = written
    BY <1>0 DEF Loops, NoPing
  <1>1. CASE mode = "rewrite"
    <2> DEFINE r == Rewritten(st, Joined(d))
    <2>1. /\ st' = r.st /\ r.st \in Transformers /\ r.result \in Results
          /\ r.result = "emitted" => r.frames \in Seq(Emissions) /\ r.frames # <<>>
          /\ CASE r.result = "emitted" -> Writes([j \in DOMAIN r.frames |-> <<r.frames[j]>>], "select")
               [] r.result = "swallowed" -> Loops
               [] r.result = "done" -> Writes(<<Done>>, "ended")
               [] r.result = "invalid" -> Writes(<<Failed, Done>>, "ended")
      BY <1>0, <1>1, RewrittenFits DEF Handle, Rewrite
    <2>2. r = Rewritten(s, Joined(d))
      BY <1>1
    <2> HIDE DEF r
    <2> DEFINE f == [j \in DOMAIN r.frames |-> <<r.frames[j]>>]
               told == Translated(mode, Account(d, s, written, FALSE))
    <2>3. /\ r.result = "emitted" => told = Account(<<>>, r.st, written \o f, FALSE)
          /\ r.result = "swallowed" => told = Account(<<>>, r.st, written, FALSE)
          /\ r.result = "done" => told = Account(<<>>, s, Append(written, Done), TRUE)
          /\ r.result = "invalid" => told = Account(<<>>, s, written \o <<Failed, Done>>, TRUE)
      <3> DEFINE same == Translated("rewrite", Account(d, s, written, FALSE))
      <3>1. /\ r.result = "emitted" => same = Account(<<>>, r.st, written \o f, FALSE)
            /\ r.result = "swallowed" => same = Account(<<>>, r.st, written, FALSE)
            /\ r.result = "done" => same = Account(<<>>, s, Append(written, Done), TRUE)
            /\ r.result = "invalid" => same = Account(<<>>, s, written \o <<Failed, Done>>, TRUE)
        <4>1. r.result \in Results
          BY <2>1
        <4>2. AddsTo(same, r, s, written)
          BY <2>2, <4>1, TranslatedCases, Zenon
        <4> QED
          BY <4>2, Zenon DEF AddsTo
      <3> QED
        BY <1>1, <3>1, Zenon
    <2>d. Done \in Frames /\ Failed \in Frames
      BY DEF Frames
    <2>4. CASE r.result = "emitted"
      <3>1. Writes(f, "select") /\ r.frames \in Seq(Emissions)
        BY <2>1, <2>4
      <3>2. \A j \in 1..Len(r.frames) : <<r.frames[j]>> \in Frames /\ <<r.frames[j]>> # Ping
        BY <3>1, NoPings DEF Said, Frames
      <3>3. DOMAIN r.frames = 1..Len(r.frames) /\ Len(r.frames) \in Nat
        BY <3>1
      <3>4. f \in [1..Len(r.frames) -> Frames] /\ NoPing(f)
        BY <3>2, <3>3 DEF NoPing
      <3> HIDE DEF f
      <3>5. f \in Seq(Frames)
        BY <3>3, <3>4
      <3>6. out' = f /\ next' = "select" /\ pc' = "write"
        BY <3>1 DEF Writes
      <3>7. written \o f \in Seq(Frames) /\ told = Account(<<>>, r.st, written \o f, FALSE)
        <4>1. written \o f \in Seq(Frames)
          BY <1>0, <3>5
        <4> QED
          BY <2>3, <2>4, <4>1, Zenon DEF f
      <3> HIDE DEF told
      <3>8. HandsOn(Account(<<>>, r.st, written \o f, FALSE))
        BY <2>1, <3>4, <3>6, <3>7, Handing
      <3> QED
        BY <3>7, <3>8 DEF told
    <2>5. CASE r.result = "swallowed"
      <3>1. Loops /\ told = Account(<<>>, r.st, written, FALSE)
        BY <2>1, <2>3, <2>5
      <3> HIDE DEF told
      <3>2. HandsOn(Account(<<>>, r.st, written, FALSE))
        BY <1>0, <1>l, <2>1, <3>1, Handing
      <3> QED
        BY <3>1, <3>2 DEF told
    <2>6. CASE r.result = "done"
      <3>1. Writes(<<Done>>, "ended") /\ told = Account(<<>>, s, Append(written, Done), TRUE)
        BY <2>1, <2>3, <2>6
      <3> HIDE DEF told
      <3>2. out' = <<Done>> /\ next' = "ended" /\ pc' = "write"
        BY <3>1 DEF Writes
      <3>3. /\ Append(written, Done) \in Seq(Frames) /\ written \o <<Done>> = Append(written, Done)
            /\ NoPing(<<Done>>)
        BY <1>0, <2>d, NoPings DEF NoPing
      <3>4. HandsOn(Account(<<>>, s, Append(written, Done), TRUE))
        BY <1>1, <3>2, <3>3, Handing
      <3> QED
        BY <3>1, <3>4 DEF told
    <2>7. CASE r.result = "invalid"
      <3>1. Writes(<<Failed, Done>>, "ended") /\ told = Account(<<>>, s, written \o <<Failed, Done>>, TRUE)
        BY <2>1, <2>3, <2>7
      <3> HIDE DEF told
      <3>2. out' = <<Failed, Done>> /\ next' = "ended" /\ pc' = "write"
        BY <3>1 DEF Writes
      <3>3. written \o <<Failed, Done>> \in Seq(Frames) /\ NoPing(<<Failed, Done>>)
        BY <1>0, <2>d, NoPings DEF NoPing
      <3>4. HandsOn(Account(<<>>, s, written \o <<Failed, Done>>, TRUE))
        BY <1>1, <3>2, <3>3, Handing
      <3> QED
        BY <3>1, <3>4 DEF told
    <2> QED
      BY <2>1, <2>4, <2>5, <2>6, <2>7 DEF Results
  <1>2. CASE mode = "pass"
    <2> DEFINE told == Translated(mode, Account(d, s, written, FALSE))
    <2>1. told = Account(<<>>, s, IF Silence(d) THEN written ELSE Append(written, Verbatim(d)), FALSE)
      BY <1>2, PassedCases, Zenon
    <2>2. IF Silence(d) THEN Loops ELSE Writes(<<Verbatim(d)>>, "select")
      BY <1>2 DEF Handle, PassThrough
    <2> HIDE DEF told
    <2>3. CASE Silence(d)
      <3>1. told = Account(<<>>, s, written, FALSE) /\ Loops
        BY <2>1, <2>2, <2>3
      <3>2. HandsOn(Account(<<>>, s, written, FALSE))
        BY <1>0, <1>2, <1>l, <3>1, Handing
      <3> QED
        BY <3>1, <3>2 DEF told
    <2>4. CASE ~Silence(d)
      <3>1. told = Account(<<>>, s, Append(written, Verbatim(d)), FALSE) /\ Writes(<<Verbatim(d)>>, "select")
        BY <2>1, <2>2, <2>4
      <3>2. Verbatim(d) \in Seq(Events) /\ Verbatim(d) # <<>>
        BY <1>0 DEF Verbatim
      <3>3. Verbatim(d) \in Frames /\ Verbatim(d) # Ping
        BY <3>2, NoPings DEF Said, Frames
      <3>4. out' = <<Verbatim(d)>> /\ next' = "select" /\ pc' = "write"
        BY <3>1 DEF Writes
      <3>5. /\ Append(written, Verbatim(d)) \in Seq(Frames) /\ NoPing(<<Verbatim(d)>>)
            /\ written \o <<Verbatim(d)>> = Append(written, Verbatim(d))
        BY <1>0, <3>3 DEF NoPing
      <3>6. HandsOn(Account(<<>>, s, Append(written, Verbatim(d)), FALSE))
        BY <1>2, <3>4, <3>5, Handing
      <3> QED
        BY <3>1, <3>6 DEF told
    <2> QED
      BY <2>3, <2>4
  <1> QED
    BY <1>0, <1>1, <1>2

-----------------------------------------------------------------------------
(* Nothing is lost                                                         *)

\* Where the loop is, and what the reader has left of what it read.
Steady ==
  /\ pc = "select" => next = "select"
  /\ pc = "ended" => next = "ended"
  /\ reader.eof <=> upstream = "closed"
  /\ upstream = "open" => reader.line = sending
  /\ out = <<Ping>> \/ NoPing(out)

\* A client that is there has been written what the lines read so far owe it.
KeptUp ==
  /\ written \o (IF out = <<Ping>> THEN <<>> ELSE out) = Owed
  /\ next = "select" => ~Told.over /\ (mode = "rewrite" => st = Told.st)
  /\ upstream = "open" => Heard(mode, lines) \in Accounts /\ reader.data = Heard(mode, lines).data

HInv == Inv /\ (~gone => Steady /\ KeptUp)

\* What is owed depends on the lines, on how they ended, and on the sentinel.
LEMMA ToldSame ==
  ASSUME UNCHANGED <<mode, lines, upstream>>
  PROVE  /\ Told' = Told /\ Heard(mode, lines)' = Heard(mode, lines)
         /\ next' = next => Owed' = Owed
  BY DEF Told, Owed

LEMMA HInvInit == Init => HInv
  <1> SUFFICES ASSUME Init
               PROVE  HInv
    OBVIOUS
  <1>1. Inv
    BY InvInit
  <1>2. mode \in {"rewrite", "pass"} /\ lines = <<>> /\ upstream = "open" /\ written = <<>> /\ out = <<>>
    BY DEF Init
  <1>3. Heard(mode, lines) = Nothing
    <2>1. <<>> \in Seq({Blank}) /\ Blank \in {Blank}
      OBVIOUS
    <2> QED
      BY <1>2, <2>1, HeardOneByOne, Zenon
  <1>4. Told = Nothing
    BY <1>2, <1>3 DEF Told
  <1>5. /\ Nothing \in Accounts /\ Nothing.data = <<>> /\ Nothing.st = New
        /\ Nothing.frames = <<>> /\ Nothing.over = FALSE
    <2>1. New \in Transformers
      BY DEF New, Transformers
    <2> QED
      BY <2>1 DEF Nothing, Account, Accounts
  <1>6. Owed = <<>>
    BY <1>2, <1>4, <1>5 DEF Owed
  <1>7. Steady
    BY DEF Init, Steady, NoPing
  <1>8. KeptUp
    <2>1. written \o (IF out = <<Ping>> THEN <<>> ELSE out) = <<>>
      BY <1>2
    <2>2. reader.data = <<>> /\ st = New
      BY DEF Init
    <2> QED
      BY <1>3, <1>4, <1>5, <1>6, <2>1, <2>2 DEF KeptUp
  <1> QED
    BY <1>1, <1>7, <1>8 DEF HInv

\* The account of a relay that selects is the one it keeps itself.
LEMMA AccountKept ==
  ASSUME Inv, Steady, KeptUp, Selecting
  PROVE  \E s \in Transformers : /\ Heard(mode, lines) = Account(reader.data, s, written, FALSE)
                                 /\ mode = "rewrite" => s = st
  <1> DEFINE acc == Heard(mode, lines)
  <1>1. /\ pc = "select" /\ upstream = "open" /\ next = "select" /\ out = <<>>
        /\ written \in Seq(Frames)
    BY DEF Steady, Selecting, Inv, TypeOK, EndsFit
  <1>2. Told = acc
    BY <1>1 DEF Told
  <1>3. /\ acc \in Accounts /\ reader.data = acc.data /\ ~acc.over
        /\ mode = "rewrite" => st = acc.st
    BY <1>1, <1>2 DEF KeptUp
  <1>4. acc.frames = written
    <2>1. Owed = acc.frames
      BY <1>1, <1>2 DEF Owed
    <2>2. written \o <<>> = written /\ out # <<Ping>>
      BY <1>1
    <2> QED
      BY <1>1, <2>1, <2>2 DEF KeptUp
  <1> HIDE DEF acc
  <1>5. acc.st \in Transformers /\ acc = Account(acc.data, acc.st, acc.frames, acc.over) /\ acc.over = FALSE
    BY <1>3 DEF Accounts, Account
  <1>6. Heard(mode, lines) = Account(reader.data, acc.st, written, FALSE)
    BY <1>3, <1>4, <1>5, Zenon DEF acc
  <1> QED
    BY <1>3, <1>5, <1>6, Zenon

\* An event that is handed on leaves nothing behind.
LEMMA HandedOn ==
  ASSUME HandsOn(Told'), mode' = mode, written' = written, upstream' \in {"open", "closed"},
         next' \in {"select", "ended"},
         upstream' = "open" => Heard(mode, lines)' \in Accounts /\ reader'.data = (Heard(mode, lines)').data
  PROVE  KeptUp' /\ (pc' = "select" => next' = "select") /\ NoPing(out')
  <1>1. /\ NoPing(out') /\ written \o out' = Told'.frames
        /\ pc' = "select" => next' = "select"
        /\ next' = "select" => ~Told'.over /\ (mode = "rewrite" => st' = Told'.st)
        /\ next' = "ended" => mode = "rewrite" /\ Told'.over
    BY DEF HandsOn
  <1>2. out' # <<Ping>>
    BY <1>1 DEF NoPing
  <1>3. Owed' = Told'.frames
    BY <1>1 DEF Owed
  <1> QED
    BY <1>1, <1>2, <1>3 DEF KeptUp

\* A whole line is heard as the loop takes it: it opens, extends or ends an event.
LEMMA LineHeard ==
  ASSUME Inv, Steady, KeptUp, NEW l \in Sent, ReadLine(l)
  PROVE  Steady' /\ KeptUp'
  <1> DEFINE data == IF l.kind = "data" THEN Append(reader.data, l.event) ELSE reader.data
  <1>1. /\ Len(lines) < MaxLines /\ pc = "select" /\ upstream = "open" /\ next = "select"
        /\ UNCHANGED <<mode, upstream, pipe, written, gone>>
        /\ lines' = Append(lines, l) /\ sending' = NoLine /\ out = <<>> /\ NoPing(out)
    BY DEF ReadLine, Selecting, Steady, Inv, TypeOK, NoPing
  <1>2. /\ reader.line = sending /\ reader.eof = FALSE
        /\ reader.line \in DataLines \union {NoLine} /\ reader.data \in Seq(Events) /\ ReaderFits
    BY <1>1 DEF Steady, Inv, TypeOK
  <1>3. IF l.kind = "blank" /\ data # <<>>
        THEN Handle(data) /\ reader' = [reader EXCEPT !.line = NoLine, !.data = <<>>]
        ELSE Loops /\ UNCHANGED st /\ reader' = [reader EXCEPT !.line = NoLine, !.data = data]
    BY <1>2 DEF ReadLine
  <1>4. l \in DataLines \union {Blank, Ignored} /\ (l.kind = "data" => l.event \in Events)
    BY <1>1, SentLines, LinesOf
  <1>5. data \in Seq(Events) /\ Inv'
    BY <1>2, <1>4, LineKeeps
  <1>6. next' \in {"select", "ended"} /\ gone' = gone
    BY <1>1, <1>5 DEF Inv, TypeOK
  <1>7. Heard(mode, lines)' = Hear(mode, Heard(mode, lines), l)
    <2>1. lines \in Seq(DataLines \union {Blank, Ignored})
      BY DEF Inv, TypeOK
    <2> QED
      BY <1>1, <1>4, <2>1, HeardOneByOne
  <1>8. Told' = Heard(mode, lines)'
    BY <1>1 DEF Told
  <1> HIDE DEF data
  <1>9. ASSUME NEW d \in Seq(Events), reader' = [reader EXCEPT !.line = NoLine, !.data = d]
        PROVE  reader'.line = NoLine /\ reader'.data = d /\ reader'.eof = FALSE
    BY <1>2, <1>9 DEF ReaderFits
  <1>10. CASE l.kind = "blank" /\ data # <<>>
    <2>1. Handle(data) /\ reader' = [reader EXCEPT !.line = NoLine, !.data = <<>>]
      BY <1>3, <1>10
    <2>2. reader'.line = NoLine /\ reader'.data = <<>> /\ reader'.eof = FALSE
      <3>1. <<>> \in Seq(Events)
        OBVIOUS
      <3> QED
        BY <1>9, <2>1, <3>1
    <2>3. data = reader.data
      BY <1>10 DEF data
    <2>4. KeptUp' /\ (pc' = "select" => next' = "select") /\ NoPing(out')
      <3>1. PICK s \in Transformers : /\ Heard(mode, lines) = Account(data, s, written, FALSE)
                                      /\ mode = "rewrite" => s = st
        BY <1>1, <2>3, AccountKept DEF Selecting
      <3>2. HandsOn(Translated(mode, Account(data, s, written, FALSE)))
        BY <1>1, <1>5, <1>10, <2>1, <3>1, HandleHandsOn
      <3>3. Heard(mode, lines).data = data
        BY <3>1 DEF Account
      <3>4. Heard(mode, lines)' = Translated(mode, Account(data, s, written, FALSE))
        BY <1>7, <1>10, <3>1, <3>3 DEF Hear
      <3>5. HandsOn(Heard(mode, lines)')
        BY <3>2, <3>4, Zenon
      <3>6. Heard(mode, lines)' \in Accounts /\ (Heard(mode, lines)').data = <<>>
        BY <3>5 DEF HandsOn
      <3> QED
        BY <1>1, <1>6, <1>8, <2>2, <3>5, <3>6, HandedOn
    <2>5. pc' # "ended"
      BY <1>1, <1>5, <1>10, <2>1, HandleFits
    <2> QED
      BY <1>1, <2>2, <2>4, <2>5 DEF Steady
  <1>11. CASE ~(l.kind = "blank" /\ data # <<>>)
    <2>1. Loops /\ UNCHANGED st /\ reader' = [reader EXCEPT !.line = NoLine, !.data = data]
      BY <1>3, <1>11
    <2>2. reader'.line = NoLine /\ reader'.data = data /\ reader'.eof = FALSE
      BY <1>5, <1>9, <2>1
    <2>3. Steady'
      BY <1>1, <2>1, <2>2 DEF Loops, Steady
    <2>4. KeptUp'
      <3>1. PICK s \in Transformers : /\ Heard(mode, lines) = Account(reader.data, s, written, FALSE)
                                      /\ mode = "rewrite" => s = st
        BY <1>1, AccountKept DEF Selecting
      <3> DEFINE acc == Account(reader.data, s, written, FALSE)
      <3>2. acc.data = reader.data /\ acc.st = s /\ acc.frames = written /\ acc.over = FALSE
        BY DEF Account
      <3> HIDE DEF acc
      <3>3. Heard(mode, lines)' = Account(data, s, written, FALSE)
        <4>1. Heard(mode, lines)' = Hear(mode, acc, l)
          BY <1>7, <3>1, Zenon DEF acc
        <4>2. CASE l.kind = "data"
          BY <3>2, <4>1, <4>2, Zenon DEF Hear, data
        <4>3. CASE l.kind # "data"
          <5>1. data = reader.data
            BY <4>3 DEF data
          <5>2. Hear(mode, acc, l) = acc
            BY <1>11, <3>2, <4>3, <5>1 DEF Hear
          <5> QED
            BY <4>1, <5>1, <5>2, Zenon DEF acc
        <4> QED
          BY <4>2, <4>3
      <3>4. written \in Seq(Frames)
        BY DEF Inv, EndsFit
      <3>5. /\ Told' \in Accounts /\ Told'.data = data /\ Told'.st = s
            /\ Told'.frames = written /\ Told'.over = FALSE
        BY <1>5, <1>8, <3>3, <3>4 DEF Account, Accounts
      <3>6. Owed' = written
        BY <1>1, <3>5 DEF Owed
      <3>7. written' = written /\ out' = <<>> /\ next' = "select" /\ st' = st /\ mode' = mode
        BY <1>1, <2>1 DEF Loops
      <3>8. written \o <<>> = written
        BY <3>4
      <3> QED
        BY <1>8, <2>2, <3>1, <3>5, <3>6, <3>7, <3>8 DEF KeptUp
    <2> QED
      BY <2>3, <2>4
  <1> QED
    BY <1>10, <1>11

\* An upstream that closes ends the open event, with what there is of its last line.
LEMMA CloseHeard ==
  ASSUME Inv, Steady, KeptUp, NEW l \in {Ignored} \union DataLines, UpstreamCloses(l)
  PROVE  Steady' /\ KeptUp'
  <1> DEFINE data == IF l.kind = "data" THEN Append(reader.data, l.event) ELSE reader.data
  <1>1. /\ pc = "select" /\ upstream = "open" /\ next = "select" /\ upstream' = "closed"
        /\ UNCHANGED <<mode, pipe, written, gone>> /\ out = <<>> /\ written \in Seq(Frames)
        /\ lines' = IF reader.line = NoLine THEN lines ELSE Append(lines, l)
        /\ reader' = [line |-> NoLine, data |-> <<>>, eof |-> TRUE]
        /\ l \in Unterminated(reader.line)
        /\ IF data # <<>> THEN Handle(data) ELSE NoMoreEvents
    BY DEF UpstreamCloses, Selecting, Steady, Inv, TypeOK, EndsFit
  <1>2. \/ l.kind = "data" /\ l.event \in Events
        \/ l = Ignored /\ l.kind = "ignored"
    <2>1. Ignored.kind = "ignored"
      BY DEF Ignored, Line
    <2>2. CASE l \in DataLines
      BY <2>2, LinesOf
    <2>3. CASE l = Ignored
      BY <2>1, <2>3, Zenon
    <2> QED
      BY <2>2, <2>3
  <1>3. data \in Seq(Events) /\ reader.data \in Seq(Events) /\ Inv'
    BY <1>1, <1>2, ClosesKeeps DEF Inv, TypeOK
  <1>4. next' \in {"select", "ended"} /\ pc' \in {"select", "write", "ended"} /\ mode \in {"rewrite", "pass"}
    BY <1>3 DEF Inv, TypeOK
  <1>5. reader'.eof = TRUE
    BY <1>1
  <1>6. PICK s \in Transformers : /\ Heard(mode, lines) = Account(reader.data, s, written, FALSE)
                                  /\ mode = "rewrite" => s = st
    BY <1>1, AccountKept DEF Selecting
  <1> DEFINE acc == Account(reader.data, s, written, FALSE)
             last == Account(data, s, written, FALSE)
  <1>7. /\ acc.data = reader.data /\ acc.st = s /\ acc.frames = written /\ acc.over = FALSE
        /\ last.data = data /\ last.st = s /\ last.frames = written /\ last.over = FALSE
    BY DEF Account
  <1> HIDE DEF acc
  <1>8. Heard(mode, lines)' = last
    <2>1. CASE reader.line = NoLine
      <3>1. l = Ignored /\ lines' = lines
        BY <1>1, <2>1 DEF Unterminated
      <3>2. data = reader.data
        <4>1. Ignored.kind # "data"
          BY DEF Ignored, Line
        <4> QED
          BY <3>1, <4>1, Zenon
      <3> QED
        BY <1>1, <1>6, <3>1, <3>2
    <2>2. CASE reader.line # NoLine
      <3>1. Heard(mode, lines)' = Hear(mode, acc, l)
        <4>1. lines \in Seq(DataLines \union {Blank, Ignored}) /\ l \in DataLines \union {Blank, Ignored}
          BY DEF Inv, TypeOK
        <4>2. lines' = Append(lines, l)
          BY <1>1, <2>2
        <4>3. Heard(mode, Append(lines, l)) = Hear(mode, Heard(mode, lines), l)
          BY <4>1, HeardOneByOne
        <4> QED
          BY <1>1, <1>6, <4>2, <4>3 DEF acc
      <3>2. CASE l.kind = "data"
        BY <1>7, <3>1, <3>2, Zenon DEF Hear, data
      <3>3. CASE l.kind = "ignored"
        <4>1. data = reader.data /\ Hear(mode, acc, l) = acc
          BY <3>3 DEF Hear
        <4> QED
          BY <3>1, <4>1, Zenon DEF acc
      <3> QED
        BY <1>2, <3>2, <3>3
    <2> QED
      BY <2>1, <2>2
  <1> HIDE DEF data, last
  <1>9. CASE data # <<>>
    <2>1. HandsOn(Translated(mode, last))
      BY <1>1, <1>3, <1>6, <1>9, HandleHandsOn DEF last
    <2>2. Told' = Translated(mode, last)
      BY <1>1, <1>7, <1>8, <1>9 DEF Told
    <2>3. HandsOn(Told')
      BY <2>1, <2>2, Zenon
    <2>4. KeptUp' /\ (pc' = "select" => next' = "select") /\ NoPing(out')
      BY <1>1, <1>4, <2>3, HandedOn
    <2>5. pc' # "ended"
      BY <1>1, <1>3, <1>9, HandleFits
    <2> QED
      BY <1>1, <1>5, <2>4, <2>5 DEF Steady
  <1>10. CASE data = <<>>
    <2>1. Told' = last
      BY <1>1, <1>7, <1>8, <1>10 DEF Told
    <2>2. Told'.frames = written /\ Told'.over = FALSE
      BY <1>7, <2>1
    <2>3. NoMoreEvents
      BY <1>1, <1>10
    <2>4. CASE mode = "rewrite"
      <3>1. pc' = "write" /\ out' = <<Done>> /\ next' = "ended"
        BY <2>3, <2>4 DEF NoMoreEvents, Writes
      <3>2. Owed' = Append(written, Done)
        BY <1>1, <2>2, <2>4, <3>1 DEF Owed
      <3>3. written \o <<Done>> = Append(written, Done) /\ NoPing(out') /\ out' # <<Ping>>
        BY <1>1, <3>1, NoPings DEF NoPing
      <3> QED
        BY <1>1, <1>5, <3>1, <3>2, <3>3 DEF Steady, KeptUp
    <2>5. CASE mode = "pass"
      <3>1. pc' = "ended" /\ out' = <<>> /\ next' = "ended"
        BY <2>3, <2>5 DEF NoMoreEvents, Ends
      <3>2. Owed' = written
        BY <1>1, <2>2, <2>5 DEF Owed
      <3>3. written \o <<>> = written /\ NoPing(out') /\ out' # <<Ping>>
        BY <1>1, <3>1 DEF NoPing
      <3> QED
        BY <1>1, <1>5, <3>1, <3>2, <3>3 DEF Steady, KeptUp
    <2> QED
      BY <1>4, <2>4, <2>5
  <1> QED
    BY <1>9, <1>10

\* Nothing is due while the relay selects.
LEMMA AllWritten ==
  ASSUME Inv, Steady, KeptUp, pc = "select"
  PROVE  /\ next = "select" /\ out = <<>> /\ written = Owed
         /\ written \in Seq(Frames) /\ ~Told.over
         /\ mode = "rewrite" => st = Told.st
  <1>1. next = "select" /\ out = <<>> /\ written \in Seq(Frames)
    BY DEF Steady, Inv, TypeOK, EndsFit
  <1>2. written \o <<>> = written /\ out # <<Ping>>
    BY <1>1
  <1> QED
    BY <1>1, <1>2 DEF KeptUp

\* A break is told to the client of a chat stream, after all it was owed before.
LEMMA BreakHeard ==
  ASSUME Inv, Steady, KeptUp, UpstreamBreaks
  PROVE  Steady' /\ KeptUp'
  <1>1. /\ pc = "select" /\ upstream = "open" /\ upstream' = "broken"
        /\ reader' = [reader EXCEPT !.line = NoLine, !.data = <<>>]
        /\ UNCHANGED <<mode, lines, st, pipe, written, gone>> /\ mode \in {"rewrite", "pass"}
    BY DEF UpstreamBreaks, Selecting, Inv, TypeOK
  <1>2. next = "select" /\ out = <<>> /\ written = Owed /\ written \in Seq(Frames) /\ ~Told.over
    BY <1>1, AllWritten
  <1>3. Told' = Told /\ Told.frames = written
    BY <1>1, <1>2 DEF Told, Owed
  <1>4. reader'.eof = FALSE
    BY <1>1 DEF Steady, Inv, ReaderFits
  <1>5. CASE mode = "rewrite"
    <2>1. pc' = "write" /\ out' = <<Failed, Done>> /\ next' = "ended"
      BY <1>5 DEF UpstreamBreaks, Writes
    <2>2. Owed' = written \o <<Failed, Done>>
      BY <1>1, <1>2, <1>3, <1>5 DEF Owed
    <2>3. NoPing(out') /\ out' # <<Ping>>
      BY <2>1, NoPings DEF NoPing
    <2> QED
      BY <1>1, <1>4, <2>1, <2>2, <2>3 DEF Steady, KeptUp
  <1>6. CASE mode = "pass"
    <2>1. pc' = "ended" /\ out' = <<>> /\ next' = "ended"
      BY <1>6 DEF UpstreamBreaks, Ends
    <2>2. Owed' = written /\ written \o <<>> = written
      BY <1>1, <1>2, <1>3, <1>6 DEF Owed
    <2>3. NoPing(out') /\ out' # <<Ping>>
      BY <2>1 DEF NoPing
    <2> QED
      BY <1>1, <1>4, <2>1, <2>2, <2>3 DEF Steady, KeptUp
  <1> QED
    BY <1>1, <1>5, <1>6

\* The sentinel follows the event that was flushed.
LEMMA FlushHeard ==
  ASSUME Inv, Steady, KeptUp, AfterFlush
  PROVE  Steady' /\ KeptUp'
  <1>1. /\ pc = "select" /\ upstream = "closed" /\ mode \in {"rewrite", "pass"} /\ st' = st
        /\ UNCHANGED <<mode, lines, sending, upstream, reader, pipe, written, gone>> /\ NoMoreEvents
    BY DEF AfterFlush, NoMoreEvents, Steady, Inv, TypeOK
  <1>2. next = "select" /\ out = <<>> /\ written = Owed /\ written \in Seq(Frames) /\ ~Told.over
    BY <1>1, AllWritten
  <1>3. Told' = Told /\ Told.frames = written
    BY <1>1, <1>2, ToldSame DEF Owed
  <1>4. CASE mode = "rewrite"
    <2>1. pc' = "write" /\ out' = <<Done>> /\ next' = "ended"
      BY <1>1, <1>4 DEF NoMoreEvents, Writes
    <2>2. Owed' = Append(written, Done) /\ written \o <<Done>> = Append(written, Done)
      BY <1>1, <1>2, <1>3, <1>4, <2>1 DEF Owed
    <2>3. NoPing(out') /\ out' # <<Ping>>
      BY <2>1, NoPings DEF NoPing
    <2> QED
      BY <1>1, <2>1, <2>2, <2>3 DEF Steady, KeptUp
  <1>5. CASE mode = "pass"
    <2>1. pc' = "ended" /\ out' = <<>> /\ next' = "ended"
      BY <1>1, <1>5 DEF NoMoreEvents, Ends
    <2>2. Owed' = written /\ written \o <<>> = written
      BY <1>1, <1>2, <1>3, <1>5 DEF Owed
    <2>3. NoPing(out') /\ out' # <<Ping>>
      BY <2>1 DEF NoPing
    <2> QED
      BY <1>1, <2>1, <2>2, <2>3 DEF Steady, KeptUp
  <1> QED
    BY <1>1, <1>4, <1>5

\* The steps that read nothing whole and write no event.
LEMMA QuietHeard ==
  ASSUME Inv, Steady, KeptUp,
         (\E l \in Sent : ReadPiece(l)) \/ DeadlinePasses \/ KeepAlive \/ ClientReads \/ ClientLeaves
  PROVE  Steady' /\ KeptUp'
  <1>1. UNCHANGED <<mode, lines, upstream, st, next, written>> /\ Told' = Told /\ Owed' = Owed
        /\ Heard(mode, lines)' = Heard(mode, lines)
    <2>1. UNCHANGED <<mode, lines, upstream, st, written>>
      BY DEF ReadPiece, DeadlinePasses, KeepAlive, ClientReads, ClientLeaves
    <2>2. next' = next
      <3>1. KeepAlive => next' = next
        BY DEF KeepAlive, Writes, Steady
      <3> QED
        BY <3>1 DEF ReadPiece, DeadlinePasses, ClientReads, ClientLeaves
    <2> QED
      BY <2>1, <2>2, ToldSame
  <1>2. CASE \E l \in Sent : ReadPiece(l)
    <2>1. PICK l \in Sent : ReadPiece(l)
      BY <1>2
    <2>2. /\ sending' = l /\ reader' = [reader EXCEPT !.line = l] /\ UNCHANGED <<pc, out>>
      BY <2>1 DEF ReadPiece
    <2>3. reader'.line = l /\ reader'.data = reader.data /\ reader'.eof = reader.eof
      BY <2>2 DEF Inv, ReaderFits
    <2> QED
      BY <1>1, <2>2, <2>3 DEF Steady, KeptUp
  <1>3. CASE KeepAlive
    <2>1. pc = "select" /\ pc' = "write" /\ out' = <<Ping>> /\ UNCHANGED <<sending, reader>>
      BY <1>3 DEF KeepAlive, Writes
    <2>2. written \o <<>> = Owed
      BY <2>1, AllWritten
    <2> QED
      BY <1>1, <2>1, <2>2 DEF Steady, KeptUp
  <1>4. CASE DeadlinePasses \/ ClientReads \/ ClientLeaves
    <2>1. UNCHANGED <<sending, reader, pc, out>>
      BY <1>4 DEF DeadlinePasses, ClientReads, ClientLeaves
    <2> QED
      BY <1>1, <2>1 DEF Steady, KeptUp
  <1> QED
    BY <1>2, <1>3, <1>4

\* A write moves a frame from what is due to what is written.
LEMMA HeadAndRest ==
  ASSUME NEW S, NEW ws \in Seq(S), NEW o, o \in Seq(S), o # <<>>
  PROVE  Append(ws, Head(o)) \o Tail(o) = ws \o o
  <1>1. /\ Len(o) \in Nat \ {0} /\ Len(ws) \in Nat /\ Head(o) = o[1] /\ Head(o) \in S
        /\ Tail(o) \in Seq(S) /\ Len(Tail(o)) = Len(o) - 1
        /\ \A k \in 1..(Len(o) - 1) : Tail(o)[k] = o[k + 1]
    OBVIOUS
  <1> DEFINE a == Append(ws, Head(o)) \o Tail(o)
             b == ws \o o
  <1>2. a \in Seq(S) /\ b \in Seq(S) /\ Len(a) = Len(ws) + Len(o) /\ Len(b) = Len(ws) + Len(o)
    BY <1>1
  <1>3. ASSUME NEW k \in 1..(Len(ws) + Len(o))
        PROVE  a[k] = b[k]
    <2>1. CASE k <= Len(ws)
      BY <1>1, <2>1
    <2>2. CASE k = Len(ws) + 1
      BY <1>1, <2>2
    <2>3. CASE k > Len(ws) + 1
      BY <1>1, <2>3
    <2> QED
      BY <1>1, <2>1, <2>2, <2>3
  <1> HIDE DEF a, b
  <1>4. a = b
    BY <1>1, <1>2, <1>3
  <1> QED
    BY <1>4 DEF a, b

LEMMA WriteHeard ==
  ASSUME Inv, Steady, KeptUp, Write
  PROVE  Steady' /\ KeptUp'
  <1>1. /\ pc = "write" /\ out' = Tail(out)
        /\ UNCHANGED <<mode, lines, sending, upstream, reader, st, next, gone>>
        /\ written' = IF Head(out) = Ping THEN written ELSE Append(written, Head(out))
        /\ IF Tail(out) = <<>> THEN pc' = next ELSE pc' = pc
    BY DEF Write
  <1>2. Told' = Told /\ Owed' = Owed /\ Heard(mode, lines)' = Heard(mode, lines)
    BY <1>1, ToldSame
  <1>3. out # <<>> /\ out \in Seq(Frames) /\ written \in Seq(Frames) /\ next \in {"select", "ended"}
    <2>1. next = "select" => out \in Seq(Said)
      BY <1>1 DEF Inv, OutFits
    <2>2. next = "ended" => out \in {<<Failed, Done>>, <<Done>>}
      BY <1>1 DEF Inv, OutFits
    <2>3. Said \subseteq Frames /\ Done \in Frames /\ Failed \in Frames
      BY DEF Frames
    <2>4. out # <<>> /\ written \in Seq(Frames) /\ next \in {"select", "ended"}
      BY <1>1 DEF Inv, TypeOK, EndsFit
    <2>5. next = "select" => out \in Seq(Frames)
      BY <2>1, <2>3
    <2>6. <<Failed, Done>> \in Seq(Frames) /\ <<Done>> \in Seq(Frames)
      BY <2>3
    <2> QED
      BY <2>2, <2>4, <2>5, <2>6, Zenon
  <1>4. /\ pc' = "select" => next' = "select"
        /\ pc' = "ended" => next' = "ended"
    BY <1>1
  <1>5. CASE out = <<Ping>>
    <2>1. Head(out) = Ping /\ Tail(out) = <<>>
      BY <1>5
    <2>2. written' = written /\ out' = <<>> /\ out' # <<Ping>> /\ NoPing(out')
      BY <1>1, <2>1 DEF NoPing
    <2>3. written \o <<>> = Owed
      BY <1>5 DEF KeptUp
    <2> QED
      BY <1>1, <1>2, <1>4, <2>2, <2>3 DEF Steady, KeptUp
  <1>6. CASE out # <<Ping>>
    <2>1. NoPing(out)
      BY <1>6 DEF Steady
    <2>2. Head(out) # Ping /\ NoPing(Tail(out))
      BY <1>3, <2>1 DEF NoPing
    <2>3. out' # <<Ping>> /\ NoPing(out')
      <3>1. NoPing(out')
        BY <1>1, <2>2, Zenon
      <3> QED
        BY <3>1 DEF NoPing
    <2>4. written' \o out' = written \o out
      <3>1. written' = Append(written, Head(out))
        BY <1>1, <2>2
      <3> QED
        BY <1>1, <1>3, <3>1, HeadAndRest
    <2>5. written \o out = Owed
      BY <1>6 DEF KeptUp
    <2> QED
      BY <1>1, <1>2, <1>4, <2>3, <2>4, <2>5 DEF Steady, KeptUp
  <1> QED
    BY <1>5, <1>6

LEMMA HInvNext == HInv /\ [Next]_vars => HInv'
  <1> SUFFICES ASSUME HInv, [Next]_vars
               PROVE  HInv'
    OBVIOUS
  <1>1. Inv /\ Inv'
    BY InvNext DEF HInv
  <1> SUFFICES ASSUME ~gone'
               PROVE  Steady' /\ KeptUp'
    BY <1>1 DEF HInv
  <1>2. CASE UNCHANGED vars
    <2>1. ~gone /\ Told' = Told /\ Owed' = Owed /\ Heard(mode, lines)' = Heard(mode, lines)
      BY <1>2, ToldSame DEF vars
    <2> QED
      BY <1>2, <2>1 DEF vars, HInv, Steady, KeptUp
  <1>3. CASE Next
    <2>1. ~gone
      <3>1. ASSUME NEW l, ReadPiece(l) \/ ReadLine(l) \/ UpstreamCloses(l)
            PROVE  gone' = gone
        BY <3>1 DEF ReadPiece, ReadLine, UpstreamCloses
      <3> QED
        BY <1>3, <3>1 DEF Next, Upstream, UpstreamBreaks, AfterFlush, DeadlinePasses, KeepAlive,
                          Write, WriteFails, ClientReads, ClientLeaves
    <2>2. Steady /\ KeptUp
      BY <2>1 DEF HInv
    <2>3. CASE Upstream
      BY <1>1, <2>2, <2>3, LineHeard, CloseHeard, BreakHeard, QuietHeard DEF Upstream
    <2>4. CASE WriteFails
      BY <2>1, <2>4 DEF WriteFails
    <2> QED
      BY <1>1, <1>3, <2>2, <2>3, <2>4, FlushHeard, QuietHeard, WriteHeard DEF Next
  <1> QED
    BY <1>2, <1>3

\* For any lines of any number, cut anywhere, and wherever the timer and the pipe come
\* between: a client that is there is written every event of the upstream, translated
\* or verbatim, in order and once (SseEventReader, relay.rs:78-154).
THEOREM RelayLosesNothing == Spec => []NothingLost
  <1>1. HInv => NothingLost
    BY DEF HInv, KeptUp, NothingLost
  <1> QED
    BY <1>1, HInvInit, HInvNext, PTL DEF Spec
=============================================================================
