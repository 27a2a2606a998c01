---------------------------- MODULE Conversation ----------------------------
(***************************************************************************)
(* A conversation with one of the two endpoints, turn by turn.  The        *)
(* endpoints keep nothing between the turns (store is false), so the       *)
(* client sends all that was said every time; a turn adds one message, or  *)
(* repeats the last request with another model.                            *)
(***************************************************************************)
EXTENDS RequestBody

CONSTANTS
  Models,       \* the models the client switches between
  Messages,     \* what one turn may add, per endpoint
  Instructions0,\* the values of the instructions field of a Responses request
  CacheKeys,    \* the values of its prompt_cache_key, <<key>>, or <<>> for none
  Asides,       \* per endpoint, the arrays in the field of the other one: the input of
                \* a chat, the messages of a Responses request
  Headers,      \* the values of x-conversation-id, <<>> for none
  MaxTurns      \* bound: messages of a conversation

\* A string is the one text of its content.
Contents ==
  {c \in [form : {"text", "items", "none", "other"}, parts : Seq(Texts)] :
     /\ c.form = "text" => Len(c.parts) = 1
     /\ c.form \in {"none", "other"} => c.parts = <<>>}

Chats == [role : STRING, content : Contents, calls : Seq(STRING), call : STRING]

ASSUME ConversationAssumption ==
  /\ Messages \in [{"chat", "responses"} -> SUBSET Chats]
  /\ Asides \in [{"chat", "responses"} -> SUBSET Seq(Chats)]
  /\ Instructions0 \subseteq Texts /\ Headers \subseteq Texts
  /\ CacheKeys \subseteq {key \in Seq(Texts) : Len(key) <= 1}

VARIABLES
  endpoint,      \* "chat" or "responses"
  header,        \* x-conversation-id of all its requests
  request,       \* the last request body of the client
  sent,          \* the body the proxy made of it
  conversation   \* the key the proxy resolved for it

vars == <<endpoint, header, request, sent, conversation>>

Body(r) == IF endpoint = "chat" THEN ChatBody(r) ELSE ResponsesBody(r)

\* The key is resolved from the body as the client sent it.
Key(r) ==
  IF endpoint = "chat" THEN ConversationKey(header, Given(r), r.aside)
  ELSE ConversationKey(header, r.aside, Given(r))

Init ==
  /\ endpoint \in {"chat", "responses"}
  /\ header \in Headers
  /\ request \in [model : Models, messages : {<<>>}, asArray : BOOLEAN, aside : Asides[endpoint],
                  instructions : Instructions0, cacheKey : CacheKeys]
  /\ endpoint = "chat" => request.instructions = <<>> /\ request.cacheKey = <<>>
  /\ sent = Body(request)
  /\ conversation = Key(request)

\* chat_completions, or responses behind a router
Handle(r) ==
  /\ request' = r
  /\ sent' = Body(r)
  /\ conversation' = Key(r)
  /\ UNCHANGED <<endpoint, header>>

\* Without an array there is at most the one message the client tried to say.
Turn ==
  /\ request.asArray \/ request.messages = <<>>
  /\ Len(request.messages) < MaxTurns
  /\ \E m \in Messages[endpoint] : Handle([request EXCEPT !.messages = Append(@, m)])

SwitchModel == \E model \in Models \ {request.model} : Handle([request EXCEPT !.model = model])

Next == Turn \/ SwitchModel

Spec == Init /\ [][Next]_vars

-----------------------------------------------------------------------------
(* Properties *)

\* The user has said something that the endpoint reads as text.
Opened ==
  \E i \in DOMAIN Given(request) :
    LET m == request.messages[i]
    IN /\ m.role = "user"
       /\ m.content.form \in IF endpoint = "chat" THEN {"text", "items"} ELSE {"items"}
       /\ \E j \in DOMAIN m.content.parts : ~IsBlank(m.content.parts[j])

Instructs == Len(request'.messages) > Len(request.messages) /\ Last(request'.messages).role = "system"

\* Once the user has spoken, no later turn and no other model moves a conversation to
\* another key, a new system message on chat completions excepted
\* (conversation.rs:16-19): the pin of the router is stored under it.
KeyOutlivesTurns ==
  [][Opened /\ ~(endpoint = "chat" /\ Instructs) => conversation' = conversation]_vars

\* A turn leaves the prompt cache of the upstream valid: the key derived for it stays
\* while the model does, a new system message on Responses excepted (request.rs:143-146).
CacheKeyOutlivesTurns ==
  [][Opened /\ request'.model = request.model /\ ~(endpoint = "responses" /\ Instructs)
     => sent'.prompt_cache_key = sent.prompt_cache_key]_vars

\* What identifies a conversation without a key of its own.
HeadOf(r) == <<Instructions(Given(r)), Trim(FirstUserText(r.aside, Given(r)))>>

\* Conversations of a system and a user message.
Opening(s, u, aside) == [request EXCEPT !.messages = <<s, u>>, !.aside = aside]
Openings ==
  {Opening(s, u, aside) :
     aside \in Asides["chat"],
     s \in {m \in Messages["chat"] : m.role = "system"},
     u \in {m \in Messages["chat"] : m.role = "user"}}

\* Two conversations have one key only if they begin with the same instructions and
\* the same words of the user, unless the client names the key (conversation.rs:84-85).
KeysTellHeadsApart ==
  (endpoint = "chat" /\ conversation.source = "head_hash") =>
    \A other \in Openings :
      Key(other) = conversation => HeadOf(other) = HeadOf(request)

\* The words of a text, the white space between them left out; of texts, as they are
\* given and with the names rewritten.
Ink(text) == Kept(text, LAMBDA w : w \notin Blank)
Inks(texts) == FlattenSeq(Each(Ink, texts))
Words(texts) == Inks(Each(ReplaceNames, texts))

Tagged(role, seq) == [i \in DOMAIN seq |-> <<role, seq[i]>>]

\* The messages of a request that the endpoint drops whole.  All of them if they are not
\* in an array; on chat completions those of a role it does not know and the outputs of
\* no call (request.rs:366-440); on Responses a system message that another one follows
\* or whose content is no array (request.rs:563-586).
Dropped(messages, i) ==
  \/ ~request.asArray
  \/ /\ endpoint = "chat"
     /\ \/ messages[i].role \notin {"system", "user", "assistant", "tool"}
        \/ messages[i].role = "tool" /\ messages[i].call = ""
  \/ /\ endpoint = "responses" /\ messages[i].role = "system"
     /\ \/ messages[i].content.form # "items"
        \/ \E j \in DOMAIN messages : i < j /\ messages[j].role = "system"

\* What a message of a chat says: the output of a tool keeps its names.
Said(m) ==
  CASE m.role = "user" -> Tagged("user", Words(m.content.parts))
    [] m.role = "assistant" -> Tagged("assistant", Words(m.content.parts)) \o Tagged("call", m.calls)
    [] OTHER ->
         <<<<"output", m.call>>>>
           \o Tagged("output", IF m.content.form = "other" THEN Ink(Rendering) ELSE Inks(m.content.parts))

\* An item of a Responses input as the upstream is to hear it: only the texts of an
\* array have their names rewritten.
Calls(m) == Tagged("call", m.calls) \o (IF m.call = "" THEN <<>> ELSE <<<<"item", m.call>>>>)
Received(m) == Tagged(m.role, Inks(m.content.parts)) \o Calls(m)
Meant(m) ==
  IF m.content.form = "items" THEN Tagged(m.role, Words(m.content.parts)) \o Calls(m) ELSE Received(m)

\* What the system orders and what everybody else says, the dropped messages apart.
Orders(messages) ==
  FlattenSeq([i \in DOMAIN messages |->
    IF messages[i].role = "system" /\ ~Dropped(messages, i) THEN Words(messages[i].content.parts)
    ELSE <<>>])
Spoken(messages) ==
  FlattenSeq([i \in DOMAIN messages |->
    IF messages[i].role = "system" \/ Dropped(messages, i) THEN <<>>
    ELSE IF endpoint = "chat" THEN Said(messages[i]) ELSE Meant(messages[i])])

\* What the upstream hears of an entry of a chat body.
Heard(entry) ==
  CASE entry.type = "message" -> Tagged(entry.role, Inks(entry.content.parts))
    [] entry.type = "function_call" -> <<<<"call", entry.call_id>>>>
    [] OTHER -> <<<<"output", entry.call_id>>>> \o Tagged("output", Ink(entry.output))

\* A developer message carries the orders, and all the rest follows it.
ChatSaysTheRest ==
  /\ Inks(sent.input[2].content.parts) = Orders(request.messages)
  /\ FlattenSeq(Each(Heard, SubSeq(sent.input, 3, Len(sent.input)))) = Spoken(request.messages)

\* The instructions of the client come first, then the orders, in the instructions or in
\* a message of their own, then all the rest.
ResponsesSayTheRest ==
  Tagged("developer", Ink(sent.instructions)) \o FlattenSeq(Each(Received, sent.input))
    = Tagged("developer", Ink(request.instructions) \o Orders(request.messages))
        \o Spoken(request.messages)

\* The messages Dropped names are lost, with all they say, and so is the field of the
\* other endpoint; nothing else is.  Whatever mixture of strings, items, empty texts,
\* calls and outputs the turns have, every word, call and output of the other messages
\* reaches the upstream once, in order and under its own role, names rewritten where
\* they are to be (request.rs:366-440, 548-606).
OnlyTheDroppedIsLost == IF endpoint = "chat" THEN ChatSaysTheRest ELSE ResponsesSayTheRest
=============================================================================
