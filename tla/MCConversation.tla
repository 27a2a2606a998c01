--------------------------- MODULE MCConversation ---------------------------
EXTENDS Conversation

MCFragments == STRING
MCNames == <<<<"Zed">>, <<"Roo">>, <<"GitHub", " ", "Copilot">>, <<"Copilot">>>>
MCInversePrompt == <<"be", " ", "Codex">>
MCPrefix == <<"You are">>
MCRendering == <<"{}">>

\* Two pairs of texts that are the same once joined by a line break.
Heads == {Text(<<"b">>), Text(<<"b", "\n", "b">>), Text(<<"a", "\n", "b">>), Text(<<"a">>)}
\* Names that overlap, an item without text, no content at all.
Odd == {Text(<<"GitHub", " ", "Copilot", " ">>), Items(<<<<>>, <<"Roo", "m">>>>), NoContent}

Msg(role, content) == [role |-> role, content |-> content, calls |-> <<>>, call |-> ""]
Calling(id) == [Msg("", NoContent) EXCEPT !.call = id]

MCMessages ==
  [chat |->
     {Msg("user", c) : c \in Heads \union Odd} \union {Msg("system", c) : c \in Heads \union Odd}
     \union {[Msg("assistant", c) EXCEPT !.calls = <<"c1", "c2">>] : c \in {NoContent, Text(<<"Zed">>)}}
     \union {[Msg("tool", Items(<<<<"a">>, <<>>, <<"b">>>>)) EXCEPT !.call = id] : id \in {"", "c1"}}
     \union {[Msg("tool", OtherContent) EXCEPT !.call = "c1"]}
     \union {Msg("developer", Text(<<"a">>))},
   responses |->
     {Msg(role, c) : role \in {"user", "system"},
                     c \in Odd \union {Text(<<"a">>), Items(<<<<" ">>, <<"a">>>>)}}
     \union {Msg("assistant", Items(<<<<"Roo">>>>)), Calling("c1"),
             Msg("system", Items(<<<<" ">>>>))}]

MCInstructions == {<<>>, <<"Zed", " ">>}
MCCacheKeys == {<<>>, <<<<>>>>, <<<<"own">>>>}
\* A user in the input of a chat; a system and a user in the messages of a Responses request.
MCAsides ==
  [chat |-> {<<>>, <<Msg("user", Items(<<<<"b">>>>))>>},
   responses |-> {<<>>, <<Msg("system", Text(<<"a">>)), Msg("user", Text(<<"b">>))>>}]
MCHeaders == {<<"id", "\t", "x">>, <<" ", "id">>}
=============================================================================
