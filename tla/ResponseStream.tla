---------------------------- MODULE ResponseStream ----------------------------
(***************************************************************************)
(* One upstream event stream as its three readers understand it, each with *)
(* a transformer of its own:                                               *)
(*   streamed    rewrite_sse_stream (relay.rs), a streaming chat client    *)
(*   buffered    buffer_chat_completion (buffered.rs), a non-streaming one *)
(*   answered    buffer_responses_response (buffered.rs), /v1/responses    *)
(* fed in lockstep with any events in any order until the stream ends.     *)
(***************************************************************************)
EXTENDS SSETransformer, SequencesExt

CONSTANTS
  MaxEvents,  \* bound: the length of a stream
  MaxNoise    \* bound: the events of it that tell a buffering reader nothing

VARIABLES
  log,       \* the events of the stream so far
  ended,     \* the stream has ended
  streamed,  \* [st, frames, status] of the rewrite relay
  buffered,  \* [st, acc, status] of buffer_chat_completion
  answered   \* the status of buffer_responses_response

vars == <<log, ended, streamed, buffered, answered>>

\* An event of the stream may come without a sequence_number that fits an i64, and its
\* frames then say `"created":null`, or that number (transform/openai.rs:8).
Events ==
  {e \in [kind: Kinds, item: Items \union {NoItem}, n: Nat, numbered: BOOLEAN] :
     e.kind \in ItemKinds <=> e.item \in Items}
FrameKinds == {"role", "text", "reasoning", "tool", "args", "stop", "tool_calls", "chunk",
               "error", "[DONE]"}
Frames == [kind: FrameKinds, index: Nat \union {NoIndex}, item: Items \union {NoItem}, n: Nat]

\* The accumulators of buffer_chat_completion.
Call == [item: Items \union {NoItem}, arguments: Seq(Nat)]
NoCall == [item |-> NoItem, arguments |-> <<>>]
Accumulators == [content: Seq(Nat), reasoning: Seq(Nat), finish: {"", "stop", "tool_calls"},
                 calls: Seq(Call)]
Empty == [content |-> <<>>, reasoning |-> <<>>, finish |-> "", calls |-> <<>>]

Statuses == {"reading", "ok", "error"}
Answers == {"reading", "completed", "failed", "incomplete", "error"}

TypeOK ==
  /\ log \in Seq(Events) /\ \A p \in DOMAIN log : log[p].n = p
  /\ ended \in BOOLEAN
  /\ streamed \in [st: Transformers, frames: Seq(Frames), status: Statuses]
  /\ buffered \in [st: Transformers, acc: Accumulators, status: Statuses]
  /\ answered \in Answers
  /\ \A i \in Items : streamed.st.index[i] < streamed.st.nextIndex

Init ==
  /\ log = <<>>
  /\ ended = FALSE
  /\ streamed = [st |-> New, frames |-> <<>>, status |-> "reading"]
  /\ buffered = [st |-> New, acc |-> Empty, status |-> "reading"]
  /\ answered = "reading"

-----------------------------------------------------------------------------
(* The three readers, one event each *)

\* The relay stops at [DONE] and at an event it cannot transform.
Streamed(e) ==
  LET r == Rewritten(streamed.st, e)
  IN IF streamed.status # "reading" THEN streamed
     ELSE CASE r.result = "done" -> [streamed EXCEPT !.frames = Append(@, Plain("[DONE]", 0)), !.status = "ok"]
            [] r.result = "invalid" ->
                 [streamed EXCEPT !.frames = @ \o <<Plain("error", 0), Plain("[DONE]", 0)>>, !.status = "error"]
            [] r.result \in {"emitted", "swallowed"} ->
                 [streamed EXCEPT !.st = r.st, !.frames = @ \o r.frames]

\* `tool_calls.entry(tc.index).or_default()`: the calls by index, a gap is a NoCall.
CallAt(calls, index) == IF index < Len(calls) THEN calls[index + 1] ELSE NoCall
SetCall(calls, index, call) ==
  [k \in 1..(IF index < Len(calls) THEN Len(calls) ELSE index + 1) |->
     IF k = index + 1 THEN call ELSE CallAt(calls, k - 1)]

\* Bug: the arguments of a call replace what has been accumulated.
ArguedLast(calls, f) ==
  SetCall(calls, f.index, [CallAt(calls, f.index) EXCEPT !.arguments = <<f.n>>])

\* A frame about a call: an id overwrites, arguments accumulate.
Opened(calls, f) == SetCall(calls, f.index, [CallAt(calls, f.index) EXCEPT !.item = f.item])
Argued(calls, f) ==
  SetCall(calls, f.index, [CallAt(calls, f.index) EXCEPT !.arguments = Append(@, f.n)])

\* One emitted frame.
Accumulate(acc, f) ==
  CASE f.kind = "text" -> [acc EXCEPT !.content = Append(@, f.n)]
    [] f.kind = "reasoning" -> [acc EXCEPT !.reasoning = Append(@, f.n)]
    [] f.kind \in {"stop", "tool_calls"} -> [acc EXCEPT !.finish = f.kind]
    [] f.kind = "tool" -> [acc EXCEPT !.calls = Opened(@, f)]
    [] f.kind = "args" -> [acc EXCEPT !.calls = Argued(@, f)]
    [] f.kind = "role" -> acc

\* StreamingChunk.created takes no null: such a frame is skipped.
Parsed(e, frames) == IF e.numbered THEN frames ELSE <<>>

\* buffer_chat_completion reads past [DONE], and fails with the transformer.
Buffered(e) ==
  LET r == Transform(buffered.st, e)
  IN IF buffered.status # "reading" THEN buffered
     ELSE IF r.result = "invalid" THEN [buffered EXCEPT !.status = "error"]
     ELSE [buffered EXCEPT !.st = r.st, !.acc = FoldLeft(Accumulate, @, Parsed(e, r.frames))]

\* buffer_responses_response returns the first terminal response.
Answered(e) ==
  IF answered = "reading" /\ e.kind \in {"completed", "failed", "incomplete"} THEN e.kind
  ELSE answered

-----------------------------------------------------------------------------
\* The kinds that make frames of the transformer's: to the others a sequence_number
\* makes no difference.
Telling == {"text", "reasoning", "added", "args", "completed"}
NumberedOrNot(k) == IF k \in Telling THEN BOOLEAN ELSE {TRUE}

\* An event of kind k about item i.
StreamEvent(k, i, n, numbered) == [kind |-> k, item |-> i, n |-> n, numbered |-> numbered]

Noise == {p \in DOMAIN log : log[p].kind \notin Telling \union {"created"} \/ ~log[p].numbered}

Feed(k, i, numbered) ==
  /\ ~ended
  /\ Len(log) < MaxEvents
  /\ k \notin Telling \union {"created"} \/ ~numbered => Cardinality(Noise) < MaxNoise
  /\ LET e == StreamEvent(k, i, Len(log) + 1, numbered)
     IN /\ log' = Append(log, e)
        /\ streamed' = Streamed(e)
        /\ buffered' = Buffered(e)
        /\ answered' = Answered(e)
  /\ UNCHANGED ended

\* The upstream closes the stream, or the connection breaks.
End(cleanly) ==
  /\ ~ended
  /\ ended' = TRUE
  /\ streamed' =
       IF streamed.status # "reading" THEN streamed
       ELSE IF cleanly THEN [streamed EXCEPT !.frames = Append(@, Plain("[DONE]", 0)), !.status = "ok"]
       ELSE [streamed EXCEPT !.frames = @ \o <<Plain("error", 0), Plain("[DONE]", 0)>>, !.status = "error"]
  /\ buffered' =
       IF buffered.status # "reading" THEN buffered
       ELSE [buffered EXCEPT !.status = IF cleanly THEN "ok" ELSE "error"]
  /\ answered' = IF answered = "reading" THEN "error" ELSE answered
  /\ UNCHANGED log

Next ==
  \/ \E k \in Kinds \ ItemKinds : \E numbered \in NumberedOrNot(k) : Feed(k, NoItem, numbered)
  \/ \E k \in ItemKinds, i \in Items : \E numbered \in NumberedOrNot(k) : Feed(k, i, numbered)
  \/ \E cleanly \in BOOLEAN : End(cleanly)

Spec == Init /\ [][Next]_vars

-----------------------------------------------------------------------------
(* What the upstream said in the events s *)

\* The positions p and q are of one response.
SameResponse(s, p, q) == \A r \in (p + 1)..q : s[r].kind # "created"

\* p announces an item that its response has not announced before.
Announces(s, p) ==
  /\ s[p].kind = "added"
  /\ \A q \in 1..(p - 1) :
       SameResponse(s, q, p) => ~(s[q].kind = "added" /\ s[q].item = s[p].item)

\* The item at p has been announced to its response.
Known(s, p) ==
  \E q \in 1..(p - 1) : Announces(s, q) /\ s[q].item = s[p].item /\ SameResponse(s, q, p)

Speaks(s, p) ==
  \/ s[p].kind \in {"text", "reasoning", "added"}
  \/ s[p].kind = "args" /\ Known(s, p)

\* How many items the response of p has announced before p.
Place(s, p) == Cardinality({q \in 1..(p - 1) : Announces(s, q) /\ SameResponse(s, q, p)})

\* The index that the item at p, announced or argued for, has in its response.
AtIndex(s, p, k) ==
  \E q \in 1..p : /\ s[q].item = s[p].item /\ Announces(s, q)
                  /\ SameResponse(s, q, p) /\ Place(s, q) = k

\* The numbered events of a kind, and those of them that are about the index k.
Numbered(s, kind) == {p \in DOMAIN s : s[p].kind = kind /\ s[p].numbered}
NumberedAt(s, kind, k) == {p \in Numbered(s, kind) : AtIndex(s, p, k)}

\* The deltas of the item announced at p.
Own(s, p) == {q \in DOMAIN s : q > p /\ s[q].kind = "args" /\ s[q].item = s[p].item}

\* f, in the order of its domain, lists P: an event's payload is its position.
Lists(f, P) ==
  /\ {f[j] : j \in DOMAIN f} = P
  /\ \A j, k \in DOMAIN f : j < k => f[j] < f[k]

\* The events the relay has translated: none from a [DONE] or garbage on.
Heard ==
  [p \in {p \in DOMAIN log : \A q \in 1..p : log[q].kind \notin {"[DONE]", "garbage"}} |-> log[p]]

-----------------------------------------------------------------------------
(* Properties *)

\* The frames of the response that is being streamed: those from its role on.
Current(frames) ==
  {j \in DOMAIN frames : \A k \in DOMAIN frames : k > j => frames[k].kind # "role"}

\* The frames of that response that carry arguments of the call at index.
Carrying(frames, index) ==
  {j \in Current(frames) : frames[j].kind = "args" /\ frames[j].index = index}

\* However the deltas of several tool calls interleave, and whatever a call is
\* announced again for, a client that collects the frames by index gets each call
\* under one item with exactly the arguments the upstream sent for it, the calls
\* numbered in the order they were announced (transform/mod.rs:350-357, 399-402).
CallsReassemble ==
  LET heard == Heard
      frames == streamed.frames
  IN \A p \in DOMAIN heard :
       Announces(heard, p) /\ SameResponse(heard, p, Len(heard)) =>
         /\ Lists([j \in Carrying(frames, Place(heard, p)) |-> frames[j].n], Own(heard, p))
         /\ \A j \in Current(frames) :
              frames[j].kind = "tool" /\ frames[j].index = Place(heard, p) =>
                frames[j].item = heard[p].item

\* The assistant role opens every response of the stream that has something to
\* say, once, and no other (send_role, reset_response_state).
RoleOpensResponses ==
  LET heard == Heard
      speaking == {p \in DOMAIN heard : Speaks(heard, p)}
      opening == {p \in speaking : ~\E q \in speaking : q < p /\ SameResponse(heard, q, p)}
  IN Cardinality({j \in DOMAIN streamed.frames : streamed.frames[j].kind = "role"})
       = Cardinality(opening)

\* A response finishes with "tool_calls" exactly when it has announced a call: a
\* call of an earlier response on the same stream does not count
\* (saw_tool_calls, reset_response_state).
FinishNamesCalls ==
  LET heard == Heard
      frames == streamed.frames
      finished == {p \in DOMAIN heard : heard[p].kind = "completed"}
      finishes == {j \in DOMAIN frames : frames[j].kind \in {"stop", "tool_calls"}}
  IN /\ Cardinality(finishes) = Cardinality(finished)
     /\ \A p \in finished, j \in finishes :
          Cardinality({k \in finishes : k <= j}) = Cardinality({q \in finished : q <= p}) =>
            (frames[j].kind = "tool_calls"
               <=> \E q \in 1..p : heard[q].kind = "added" /\ SameResponse(heard, q, p))

\* What a buffering client gets is exactly what the numbered events of the whole
\* stream said: the content and the reasoning in the upstream's order, and at every
\* index the arguments of all calls that were given that index, under the item last
\* announced there, however calls and responses interleave and a [DONE] in between
\* notwithstanding (buffered.rs:10-11, 160-223).  What the other events said is lost
\* to it, an item they announce and its index in the count excepted.
BufferedIsWhatWasNumbered ==
  LET acc == buffered.acc
  IN buffered.status # "error" =>
       /\ Lists(acc.content, Numbered(log, "text"))
       /\ Lists(acc.reasoning, Numbered(log, "reasoning"))
       /\ \A k \in 0..(Len(log) - 1) :
            LET call == CallAt(acc.calls, k)
                openings == NumberedAt(log, "added", k)
            IN /\ Lists(call.arguments, NumberedAt(log, "args", k))
               /\ openings = {} => call.item = NoItem
               /\ \A p \in openings : (\A q \in openings : q <= p) => call.item = log[p].item
=============================================================================
