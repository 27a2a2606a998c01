----------------------------- MODULE RequestBody -----------------------------
(***************************************************************************)
(* What request.rs makes of the two kinds of request body, and the key     *)
(* conversation.rs gives the conversation one belongs to.                  *)
(*                                                                         *)
(* A text is the sequence of its fragments: the agent names the code looks *)
(* for, white space, and words that hold neither.  A content is a JSON     *)
(* string, an array of items (each its text, <<>> for an item that has     *)
(* none), null or absent, or anything else.  Hashes are taken to be        *)
(* injective.  Effort and backend model are ModelChoice's; a model here is *)
(* one that is known.                                                      *)
(***************************************************************************)
EXTENDS Integers, Sequences, SequencesExt

CONSTANTS
  Fragments,       \* the strings texts are made of
  NamesToReplace,  \* the sequence of the names that are rewritten, each a text
  InversePrompt,   \* INVERSE_PROMPT, a text
  InstructionsPrefix, \* CODEX_INSTRUCTIONS_PREFIX, a text
  Rendering        \* the compact JSON of a content that is no text, array or null

Texts == Seq(Fragments)
Blank == {" ", "\n", "\t"}

\* A name is not empty, begins and ends with no white space and holds no line break.
ASSUME TextsAssumption ==
  /\ {"Codex", "\n"} \subseteq Fragments
  /\ NamesToReplace \in Seq(Texts) /\ \A i \in DOMAIN NamesToReplace : NamesToReplace[i] # <<>>
  /\ \A i \in DOMAIN NamesToReplace :
       LET name == NamesToReplace[i]
       IN name[1] \notin Blank /\ name[Len(name)] \notin Blank /\ "\n" \notin Range(name)
  /\ InversePrompt \in Texts /\ InstructionsPrefix \in Texts /\ Rendering \in Texts

Text(words) == [form |-> "text", parts |-> <<words>>]
Items(texts) == [form |-> "items", parts |-> texts]
NoContent == [form |-> "none", parts |-> <<>>]
OtherContent == [form |-> "other", parts |-> <<>>]

Trim(text) ==
  LET ink == {i \in DOMAIN text : text[i] \notin Blank}
  IN IF ink = {} THEN <<>> ELSE SubSeq(text, Min(ink), Max(ink))

\* text.trim().is_empty()
IsBlank(text) == \A i \in DOMAIN text : text[i] \in Blank

\* messages or input is read only when it is an array.
Given(request) == IF request.asArray THEN request.messages ELSE <<>>

Each(Op(_), seq) == [i \in DOMAIN seq |-> Op(seq[i])]

\* The elements a loop does not pass over with continue.
Kept(seq, Test(_)) == FlattenSeq([i \in DOMAIN seq |-> IF Test(seq[i]) THEN <<seq[i]>> ELSE <<>>])

NonEmpty(texts) == Kept(texts, LAMBDA t : t # <<>>)

Join(texts, separator) ==
  FlattenSeq([i \in DOMAIN texts |-> IF i = 1 THEN texts[i] ELSE separator \o texts[i]])

\* A name is rewritten as soon as its last fragment is read.
Written(out, word, name) ==
  IF IsSuffix(name, Append(out, word))
    THEN Append(SubSeq(out, 1, Len(out) + 1 - Len(name)), "Codex")
    ELSE Append(out, word)

\* str::replace: every occurrence of a name, leftmost first.
Replaced(text, name) ==
  LET out[n \in 0..Len(text)] == IF n = 0 THEN <<>> ELSE Written(out[n - 1], text[n], name)
  IN out[Len(text)]

\* The names one after the other.
ReplaceNames(text) ==
  LET out[n \in 0..Len(NamesToReplace)] ==
        IF n = 0 THEN text ELSE Replaced(out[n - 1], NamesToReplace[n])
  IN out[Len(NamesToReplace)]

\* The part a message has in the instructions, if it is a system message with a text.
Instruction(m) ==
  IF m.role = "system" /\ NonEmpty(m.content.parts) # <<>>
    THEN <<Join(Each(ReplaceNames, NonEmpty(m.content.parts)), <<"\n">>)>> ELSE <<>>

\* Bug: the role of a message is not looked at.
EveryInstruction(messages) ==
  LET Part(m) == <<Join(Each(ReplaceNames, NonEmpty(m.content.parts)), <<"\n">>)>>
  IN Trim(Join(FlattenSeq(Each(Part, messages)), <<"\n", "\n">>))

\* extract_instructions: the text of every system message, wherever it stands.
Instructions(messages) == Trim(Join(FlattenSeq(Each(Instruction, messages)), <<"\n", "\n">>))

\* The messages with a text of the user to stop at; forms are the shapes of content
\* that are read.
Asking(messages, forms) ==
  {i \in DOMAIN messages :
     /\ messages[i].role = "user" /\ messages[i].content.form \in forms
     /\ \E j \in DOMAIN messages[i].content.parts : ~IsBlank(messages[i].content.parts[j])}

Question(content) ==
  ReplaceNames(content.parts[Min({j \in DOMAIN content.parts : ~IsBlank(content.parts[j])})])

\* Bug: the last message with a text of the user instead of the first.
LastUserText(messages, forms) ==
  IF Asking(messages, forms) = {} THEN <<>> ELSE Question(messages[Max(Asking(messages, forms))].content)

\* One loop of extract_first_user_text.
UserText(messages, forms) ==
  IF Asking(messages, forms) = {} THEN <<>> ELSE Question(messages[Min(Asking(messages, forms))].content)

\* extract_first_user_text: input is looked at before messages.
FirstUserText(input, messages) ==
  LET asked == UserText(input, {"items"})
  IN IF asked # <<>> THEN asked ELSE UserText(messages, {"text", "items"})

\* hash_to_uuid of derive_prompt_cache_key, <<>> for no key.
CacheKey(model, instructions, asked) ==
  <<model, "\n">> \o Trim(instructions) \o <<"\n">> \o Trim(asked)

-----------------------------------------------------------------------------
(* Chat completions *)

\* collect_text_segments: a string is trimmed, items are not.
Segments(content) ==
  Each(ReplaceNames,
       NonEmpty(IF content.form = "text" THEN <<Trim(content.parts[1])>> ELSE content.parts))

\* collect_tool_output
ToolOutput(content) ==
  CASE content.form = "text" -> content.parts[1]
    [] content.form = "other" -> Rendering
    [] OTHER -> Join(NonEmpty(content.parts), <<"\n">>)

\* The entries of input; a call and its output have neither role nor content.
Message(role, texts) == [type |-> "message", role |-> role, content |-> Items(texts)]
Call(id) == [type |-> "function_call", role |-> "", content |-> NoContent, call_id |-> id]
Output(id, text) ==
  [type |-> "function_call_output", role |-> "", content |-> NoContent, call_id |-> id,
   output |-> text]

Saying(m) ==
  IF Segments(m.content) = <<>> THEN <<>> ELSE <<Message(m.role, Segments(m.content))>>

\* Bug: an assistant without text is skipped as a user without text is.
EntriesOfSpeakers(m) ==
  CASE m.role = "user" -> Saying(m)
    [] m.role = "assistant" -> IF Saying(m) = <<>> THEN <<>> ELSE Saying(m) \o Each(Call, m.calls)
    [] m.role = "tool" /\ m.call # "" -> <<Output(m.call, ToolOutput(m.content))>>
    [] OTHER -> <<>>

\* One message of build_codex_input_messages.
Entries(m) ==
  CASE m.role = "user" -> Saying(m)
    [] m.role = "assistant" -> Saying(m) \o Each(Call, m.calls)
    [] m.role = "tool" /\ m.call # "" -> <<Output(m.call, ToolOutput(m.content))>>
    [] OTHER -> <<>>

\* build_codex_request_body: what of the body depends on the request.
ChatBody(request) ==
  LET input == <<Message("developer", <<InversePrompt>>),
                 Message("developer", <<Instructions(Given(request))>>)>>
               \o FlattenSeq(Each(Entries, Given(request)))
  IN [model |-> request.model,
      instructions |-> InstructionsPrefix,
      input |-> input,
      prompt_cache_key |-> CacheKey(request.model, InstructionsPrefix, FirstUserText(input, <<>>))]

-----------------------------------------------------------------------------
(* Responses *)

System(input) == Kept(input, LAMBDA m : m.role = "system")
Unsystem(input) == Kept(input, LAMBDA m : m.role # "system")

\* The system text: of the last system message, if its content is an array.
SystemText(input) ==
  IF System(input) = <<>> \/ Last(System(input)).content.form # "items" THEN <<>>
  ELSE Join(NonEmpty(Last(System(input)).content.parts), <<"\n", "\n">>)

\* sanitize_responses_input: only the items of an array are rewritten.
Sanitized(m) ==
  IF m.content.form # "items" THEN m
  ELSE [m EXCEPT !.content.parts = Each(ReplaceNames, @)]

Developer(text) == [role |-> "developer", content |-> Text(text), calls |-> <<>>, call |-> ""]

\* The developer message that carries the system text when the caller gave
\* instructions of its own.
Moved(instructions, system) ==
  IF instructions # <<>> /\ system # <<>> THEN <<Developer(ReplaceNames(system))>> ELSE <<>>

\* transform_responses_request_body.  An input that is no array is dropped, and an
\* empty one is sent as null, here <<>>.  A key the client gives is kept, also an empty
\* one; while one is derived the body still holds the client's messages, if it sent any.
ResponsesBody(request) ==
  LET given == Given(request)
      system == SystemText(given)
      own == Trim(request.instructions)
      instructions == IF own # <<>> THEN own ELSE ReplaceNames(system)
      input == Each(Sanitized, Moved(own, system) \o Unsystem(given))
  IN [model |-> request.model,
      instructions |-> instructions,
      input |-> input,
      prompt_cache_key |->
        IF request.cacheKey # <<>> THEN request.cacheKey[1]
        ELSE CacheKey(request.model, instructions, FirstUserText(input, request.aside))]

-----------------------------------------------------------------------------
(* conversation.rs *)

NoKey == [key |-> <<>>, source |-> "none"]

\* Bug: the two fields are joined as they are.
PlainPayload(instructions, asked) == instructions \o <<"\n">> \o asked

Digit == <<"0", "1", "2", "3", "4", "5", "6", "7", "8", "9">>

\* A number as format! writes it.
Decimal(number) ==
  LET digits[n \in 0..number] ==
        IF n < 10 THEN <<Digit[n + 1]>> ELSE Append(digits[n \div 10], Digit[(n % 10) + 1])
  IN digits[number]

\* A field behind its length, which is counted in fragments here.
Measured(text) == Decimal(Len(text)) \o <<":">> \o text

\* What is hashed.
Payload(instructions, asked) ==
  <<"instructions:">> \o Measured(instructions) \o <<"\n", "first_user:">> \o Measured(asked)

\* valid_explicit_key of the trimmed header: not empty, bounded, no control character.
ValidExplicitKey(key) == key # <<>> /\ "too long" \notin Range(key) /\ "\t" \notin Range(key)

\* resolve_conversation_key: messages and input are the two fields of the body it reads.
ConversationKey(header, messages, input) ==
  LET instructions == Instructions(messages)
      asked == Trim(FirstUserText(input, messages))
  IN IF ValidExplicitKey(Trim(header)) THEN [key |-> Trim(header), source |-> "explicit"]
     ELSE IF instructions = <<>> /\ asked = <<>> THEN NoKey
     ELSE [key |-> Payload(instructions, asked), source |-> "head_hash"]
=============================================================================
