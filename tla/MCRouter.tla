------------------------------- MODULE MCRouter -------------------------------
\* Router instances.  Plans are the sets of (account, model) pairs the accounts'
\* plans include.
EXTENDS Router, TLC

CONSTANTS m1, c1

\* Handlers are interchangeable.
AnyTask == Permutations(Tasks)

\* Concurrent turns of one conversation.
OneConversation == {<<c1, m1>>}

\* Requests without a key, with and without a model.
Keyless == {NoConversation} \X {m1, NoModel}

\* The plan of one account alone includes m1; any account serves a request
\* without a model.
OnlyEntitled(a) == {<<a, m1>>} \union (Account \X {NoModel})

\* Not the account pass 3 of pick falls back to ...
SecondEntitled == OnlyEntitled(1)

\* ... or just that one: a request may find every other account gated.
FirstEntitled == OnlyEntitled(0)
=============================================================================
