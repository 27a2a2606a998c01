----------------------------- MODULE PodContract -----------------------------
(***************************************************************************)
(* What a pod promises to whoever asks it, and to the upstream it asks in  *)
(* turn: the upstream is asked at most twice, a second time only after a   *)
(* 401, and a request gets at most one answer, whose status tells what     *)
(* went wrong on which side.                                               *)
(***************************************************************************)
EXTENDS Integers

CONSTANTS
  Clients,   \* the requests, one of each client
  Statuses   \* the statuses the upstream answers with

VARIABLES
  phase,    \* of a request: "idle", "local" or "data" while it is handled, "over"
  sends,    \* how often the upstream was asked for it
  waiting,  \* whether the upstream still owes its answer
  heard,    \* the status of the upstream's last answer, 0 for none
  answer    \* the status the request was answered with, 0 for none

vars == <<phase, sends, waiting, heard, answer>>

Init ==
  /\ phase = [c \in Clients |-> "idle"]
  /\ sends = [c \in Clients |-> 0]
  /\ waiting = [c \in Clients |-> FALSE]
  /\ heard = [c \in Clients |-> 0]
  /\ answer = [c \in Clients |-> 0]

Ask(c) ==
  /\ phase[c] = "idle"
  /\ \E kind \in {"local", "data"} : phase' = [phase EXCEPT ![c] = kind]
  /\ UNCHANGED <<sends, waiting, heard, answer>>

\* Once, and once more if the token was refused.
Send(c) ==
  /\ phase[c] = "data" /\ ~waiting[c]
  /\ sends[c] = 0 \/ (sends[c] = 1 /\ heard[c] = 401)
  /\ sends' = [sends EXCEPT ![c] = @ + 1]
  /\ waiting' = [waiting EXCEPT ![c] = TRUE]
  /\ heard' = [heard EXCEPT ![c] = 0]
  /\ UNCHANGED <<phase, answer>>

\* The upstream answers, or the connection to it fails.
Hear(c) ==
  /\ phase[c] = "data" /\ waiting[c]
  /\ \E status \in Statuses \union {0} : heard' = [heard EXCEPT ![c] = status]
  /\ waiting' = [waiting EXCEPT ![c] = FALSE]
  /\ UNCHANGED <<phase, sends, answer>>

\* 503 is for an upstream that cannot be reached and for credentials that cannot be
\* had; a first 401 is never passed on.
Allowed(c) ==
  IF phase[c] = "local" THEN {200, 400, 401, 404, 500}
  ELSE IF sends[c] = 0 THEN {400, 401, 500, 503}
  ELSE IF heard[c] = 0 \/ (sends[c] = 1 /\ heard[c] = 401) THEN {503}
  ELSE IF heard[c] < 400 THEN {200, heard[c], 500, 502}
  ELSE {heard[c], 502}

Answer(c) ==
  /\ phase[c] \in {"local", "data"} /\ ~waiting[c]
  /\ \E status \in Allowed(c) : answer' = [answer EXCEPT ![c] = status]
  /\ phase' = [phase EXCEPT ![c] = "over"]
  /\ UNCHANGED <<sends, waiting, heard>>

\* The client disconnects and its handler is dropped.
Leave(c) ==
  /\ phase[c] \in {"local", "data"}
  /\ phase' = [phase EXCEPT ![c] = "over"]
  /\ waiting' = [waiting EXCEPT ![c] = FALSE]
  /\ UNCHANGED <<sends, heard, answer>>

Next ==
  \E c \in Clients : Ask(c) \/ Send(c) \/ Hear(c) \/ Answer(c) \/ Leave(c)

Spec == Init /\ [][Next]_vars
=============================================================================
