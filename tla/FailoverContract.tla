--------------------------- MODULE FailoverContract ---------------------------
(***************************************************************************)
(* What the router promises the client of one request, whatever happens to *)
(* cooldowns, pins and the other requests meanwhile: at most two attempts, *)
(* on different accounts, the second only after the first failed in a way  *)
(* another account might not; and an answer that is the last thing an      *)
(* account really said.                                                    *)
(***************************************************************************)
EXTENDS Integers, Sequences

CONSTANTS
  Requests,
  Accounts,
  Outcomes,     \* what an attempt can come to
  Retryable,    \* the outcomes another account might not have
  Unreachable,  \* the one outcome that is no response
  Internal,     \* the router's own 500
  Open,         \* no verdict yet
  Dropped       \* the client, or the router, went away

VARIABLES
  tried,   \* per request, its attempts in order: [account, outcome]
  verdict  \* per request, what became of it

vars == <<tried, verdict>>

Init ==
  /\ tried = [r \in Requests |-> <<>>]
  /\ verdict = [r \in Requests |-> Open]

\* A new request takes the place of one that has its verdict.
Accept(r) ==
  /\ verdict[r] # Open
  /\ verdict' = [verdict EXCEPT ![r] = Open]
  /\ UNCHANGED tried

MayTry(history, a) ==
  \/ history = <<>>
  \/ /\ Len(history) = 1
     /\ history[1].outcome \in Retryable
     /\ history[1].account # a

Attempt(r, a, o) ==
  /\ verdict[r] = Open
  /\ MayTry(tried[r], a)
  /\ tried' = [tried EXCEPT ![r] = Append(@, [account |-> a, outcome |-> o])]
  /\ UNCHANGED verdict

\* The last response an account gave, or the router's own error if none did.
Said(history) ==
  LET n == Len(history)
  IN IF history[n].outcome # Unreachable THEN history[n].outcome
     ELSE IF n = 2 /\ history[1].outcome # Unreachable THEN history[1].outcome
     ELSE Internal

Answer(r) ==
  /\ verdict[r] = Open
  /\ tried[r] # <<>>
  /\ verdict' = [verdict EXCEPT ![r] = Said(tried[r])]
  /\ tried' = [tried EXCEPT ![r] = <<>>]

Drop(gone) ==
  /\ \A r \in gone : verdict[r] = Open
  /\ verdict' = [r \in Requests |-> IF r \in gone THEN Dropped ELSE verdict[r]]
  /\ tried' = [r \in Requests |-> IF r \in gone THEN <<>> ELSE tried[r]]

Next ==
  \/ \E r \in Requests : Accept(r) \/ Answer(r)
  \/ \E r \in Requests, a \in Accounts, o \in Outcomes : Attempt(r, a, o)
  \/ \E gone \in SUBSET Requests : Drop(gone)

Spec == Init /\ [][Next]_vars
=============================================================================
