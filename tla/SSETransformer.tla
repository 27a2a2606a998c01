----------------------------- MODULE SSETransformer -----------------------------
(***************************************************************************)
(* SSETransformer (transform/mod.rs): one upstream Responses event in, a   *)
(* sequence of chat-completion frames and a verdict out.  The code's       *)
(* `&mut self` is the record `st`; Transform is a pure function of it and  *)
(* of the event.                                                           *)
(*                                                                         *)
(* An event is its kind, the tool item it is about and a number n that     *)
(* stands for its payload:                                                 *)
(*   created     response.created, well-formed or not: both reset          *)
(*   text        response.output_text.delta                                *)
(*   reasoning   response.reasoning*.delta of output 0, with some text     *)
(*   added, args a function_call item and a delta of its arguments         *)
(*   completed   response.completed with its response                      *)
(*   failed, incomplete, error    the terminal events the transformer does *)
(*               not know                                                  *)
(*   chunk, untypedChunk          a chat.completion.chunk with or without  *)
(*               a `type`                                                  *)
(*   other, untyped               any other JSON with or without a `type`, *)
(*               every event that is handled without a frame included      *)
(*   empty       a `data:` line with nothing behind it                     *)
(*   garbage     no JSON, or a delta with a field of the wrong type        *)
(*   [DONE]                                                                *)
(***************************************************************************)
EXTENDS Integers, Sequences

CONSTANTS
  Items,  \* ids of function-call items
  NoItem

ASSUME TransformerAssumption == NoItem \notin Items

Kinds == {"created", "text", "reasoning", "added", "args", "completed", "failed",
          "incomplete", "error", "chunk", "untypedChunk", "other", "untyped",
          "empty", "garbage", "[DONE]"}
ItemKinds == {"added", "args"}

Event(k, i, n) == [kind |-> k, item |-> i, n |-> n]

\* Frames: a role, a piece of content, a tool call's opening (it names the item),
\* a piece of its arguments, or a finish reason.
NoIndex == -1
Frame(k, index, i, n) == [kind |-> k, index |-> index, item |-> i, n |-> n]
Plain(k, n) == Frame(k, NoIndex, NoItem, n)

New == [role |-> FALSE, index |-> [i \in Items |-> NoIndex], nextIndex |-> 0, sawTools |-> FALSE]

Transformers == [role: BOOLEAN, index: [Items -> Nat \union {NoIndex}], nextIndex: Nat,
                 sawTools: BOOLEAN]

Emitted(st, frames) == [st |-> st, frames |-> frames, result |-> "emitted"]
Silent(st, result) == [st |-> st, frames |-> <<>>, result |-> result]

\* Bug: the role opens every frame that carries content.
WithRoleAlways(st, frame) == Emitted([st EXCEPT !.role = TRUE], <<Plain("role", 0), frame>>)

\* send_role: once per response, before the first frame that carries content.
WithRole(st, frame) ==
  Emitted([st EXCEPT !.role = TRUE],
          IF st.role THEN <<frame>> ELSE <<Plain("role", 0), frame>>)

\* Bug: an item that is announced twice gets a second index.
IndexedAnew(st, i) ==
  [st EXCEPT !.index[i] = st.nextIndex, !.nextIndex = st.nextIndex + 1, !.sawTools = TRUE]

\* An item keeps the index it was first given.
Indexed(st, i) ==
  IF st.index[i] # NoIndex THEN [st EXCEPT !.sawTools = TRUE]
  ELSE [st EXCEPT !.index[i] = st.nextIndex, !.nextIndex = st.nextIndex + 1, !.sawTools = TRUE]

\* handle_output_item_added
Added(st, e) ==
  LET indexed == Indexed(st, e.item)
  IN WithRole(indexed, Frame("tool", indexed.index[e.item], e.item, 0))

\* handle_function_call_args_delta: a delta for an unknown item says nothing.
Arguments(st, e) ==
  IF st.index[e.item] = NoIndex THEN Silent(st, "swallowed")
  ELSE WithRole(st, Frame("args", st.index[e.item], NoItem, e.n))

\* Bug: the reset forgets the index counter only.
CreatedKeepsIndex(st) == Silent([New EXCEPT !.index = st.index], "swallowed")

\* Bug: the reset leaves saw_tool_calls alone.
CreatedKeepsTools(st) == Silent([New EXCEPT !.sawTools = st.sawTools], "swallowed")

\* handle_created: a new response starts from nothing.
Created(st) == Silent(New, "swallowed")

\* handle_completed
Completed(st) ==
  Emitted(st, <<Plain(IF st.sawTools THEN "tool_calls" ELSE "stop", 0)>>)

Transform(st, e) ==
  CASE e.kind = "[DONE]" -> Silent(st, "done")
    [] e.kind \in {"garbage", "untyped", "untypedChunk"} -> Silent(st, "invalid")
    [] e.kind = "created" -> Created(st)
    [] e.kind \in {"text", "reasoning"} -> WithRole(st, Plain(e.kind, e.n))
    [] e.kind = "added" -> Added(st, e)
    [] e.kind = "args" -> Arguments(st, e)
    [] e.kind = "completed" -> Completed(st)
    [] e.kind \in {"failed", "incomplete", "error", "chunk", "other", "empty"} -> Silent(st, "swallowed")

\* What the rewrite relay makes of an event (relay.rs:258-310): an event without a
\* `type` is no error, and a chunk that is not the transformer's is passed on.
Rewritten(st, e) ==
  IF e.kind \in {"chunk", "untypedChunk"} THEN Emitted(st, <<Plain("chunk", e.n)>>)
  ELSE IF e.kind = "untyped" THEN Silent(st, "swallowed")
  ELSE Transform(st, e)
=============================================================================
