------------------------------ MODULE Credentials ------------------------------
(***************************************************************************)
(* The OAuth credentials of one backend pod: OAuthFetcher (refresher.rs)   *)
(* over the auth.json file (fs.rs) and the token endpoint (oauth.rs), used *)
(* by request handlers (send_with_retry, upstream.rs), the 10-minute       *)
(* background refresh and the admin endpoints (admin.rs).                  *)
(*                                                                         *)
(* Every operation on the file runs under one async mutex, whose guard     *)
(* lives as long as the call: the mutex is free iff no task is Inside.  A  *)
(* task suspends at every await.  A dropped handler (its client went away) *)
(* frees the mutex at once, but a request it has sent to the endpoint and  *)
(* a rename it has handed to the blocking pool go on without it.           *)
(*                                                                         *)
(* Tokens are generations: the endpoint numbers what it mints.  A refresh  *)
(* token may be used once; exchanging it mints the next generation.        *)
(***************************************************************************)
EXTENDS Integers, FiniteSets

CONSTANTS
  Handlers,  \* request handlers
  Ticker,    \* the background refresh task
  Admin,     \* the caller of the admin endpoints
  MaxGen,    \* bound: the endpoint mints no more generations than these
  Faults     \* the failures that may happen

FaultKinds == {"lost",    \* the endpoint rotates, its reply is lost or refused
               "disk",    \* a file operation fails
               "cancel",  \* a handler is dropped
               "crash"}   \* the pod, or its node, dies

ASSUME CredentialsAssumption ==
  /\ Ticker \notin Handlers /\ Admin \notin Handlers /\ Ticker # Admin
  /\ MaxGen \in Nat \ {0}
  /\ Faults \subseteq FaultKinds

Tasks == Handlers \union {Ticker, Admin}

Gen == 1..MaxGen
None == 0
NoTokens == [access |-> None, refresh |-> None]  \* also: the file does not exist
Tokens == [access: Gen, refresh: Gen]

VARIABLES
  at,         \* where each task is
  op,         \* the fetcher operation it is in
  held,       \* the tokens it read from the file (`creds`, `current`)
  got,        \* the tokens it is about to persist
  token,      \* the access token it sends upstream
  rejected,   \* the access token of its first send, once that came back 401
  file,       \* auth.json, as a read sees it
  survivors,  \* what auth.json may hold after the node dies now
  minted,     \* endpoint: the newest generation
  live,       \* endpoint: the refresh tokens it would still accept
  due,        \* the access tokens within the 60-minute expiry buffer
  strayExchanges,  \* refresh tokens sent by a task that is gone
  strayWrites      \* renames handed over by a task that is gone

taskVars == <<at, op, held, got, token, rejected>>
diskVars == <<file, survivors, strayWrites>>
endpointVars == <<minted, live, due, strayExchanges>>
vars == <<at, op, held, got, token, rejected, file, survivors, minted, live, due,
          strayExchanges, strayWrites>>

Inside == {"read", "refresh", "stage", "rename", "sync"}   \* holding the mutex
Places == Inside \union {"idle", "waiting", "send"}
Ops == {"none", "get", "force", "tick", "push", "status"}
OpsOf(t) == IF t = Ticker THEN {"none", "tick"}
            ELSE IF t = Admin THEN {"none", "push", "status"} ELSE {"none", "get", "force"}

TypeOK ==
  /\ at \in [Tasks -> Places]
  /\ op \in [Tasks -> Ops]
  /\ \A t \in Tasks : op[t] \in OpsOf(t)
  /\ held \in [Tasks -> Tokens \union {NoTokens}]
  /\ got \in [Tasks -> Tokens \union {NoTokens}]
  /\ token \in [Tasks -> Gen \union {None}]
  /\ rejected \in [Tasks -> Gen \union {None}]
  /\ file \in Tokens \union {NoTokens}
  /\ survivors \in SUBSET (Tokens \union {NoTokens})
  /\ minted \in Gen
  /\ live \in SUBSET Gen
  /\ due \in SUBSET Gen
  /\ strayExchanges \in SUBSET Gen
  /\ strayWrites \in SUBSET Tokens

\* The volume is empty, or seeded with a login.
Init ==
  /\ at = [t \in Tasks |-> "idle"]
  /\ op = [t \in Tasks |-> "none"]
  /\ held = [t \in Tasks |-> NoTokens]
  /\ got = [t \in Tasks |-> NoTokens]
  /\ token = [t \in Tasks |-> None]
  /\ rejected = [t \in Tasks |-> None]
  /\ file \in {NoTokens, [access |-> 1, refresh |-> 1]}
  /\ survivors = {file}
  /\ minted = 1
  /\ live = {1}
  /\ due = {}
  /\ strayExchanges = {}
  /\ strayWrites = {}

-----------------------------------------------------------------------------
(* Operations begin and end *)

Goto(t, place) == at' = [at EXCEPT ![t] = place]
At(t, place) == at[t] = place

\* t asks for operation o and waits for the mutex.
Ask(t, o) ==
  /\ op' = [op EXCEPT ![t] = o]
  /\ Goto(t, "waiting")

\* The request, the tick or the call is over.
Finish(t) ==
  /\ Goto(t, "idle")
  /\ op' = [op EXCEPT ![t] = "none"]
  /\ held' = [held EXCEPT ![t] = NoTokens]
  /\ got' = [got EXCEPT ![t] = NoTokens]
  /\ token' = [token EXCEPT ![t] = None]
  /\ rejected' = [rejected EXCEPT ![t] = None]

\* get_credentials returns g to send_with_retry.
Return(t, g) ==
  /\ Goto(t, "send")
  /\ op' = [op EXCEPT ![t] = "none"]
  /\ held' = [held EXCEPT ![t] = NoTokens]
  /\ got' = [got EXCEPT ![t] = NoTokens]
  /\ token' = [token EXCEPT ![t] = g]
  /\ UNCHANGED rejected

\* refresh_credentials succeeded: send_with_retry asks for the credentials again.
GetAgain(t) ==
  /\ Ask(t, "get")
  /\ held' = [held EXCEPT ![t] = NoTokens]
  /\ got' = [got EXCEPT ![t] = NoTokens]
  /\ UNCHANGED <<token, rejected>>

Request(h) ==
  /\ At(h, "idle")
  /\ Ask(h, "get")
  /\ UNCHANGED <<held, got, token, rejected, diskVars, endpointVars>>

Tick ==
  /\ At(Ticker, "idle")
  /\ Ask(Ticker, "tick")
  /\ UNCHANGED <<held, got, token, rejected, diskVars, endpointVars>>

\* A token's lifetime may lie within the buffer from the start.
Mint(refreshTokens, lifetime) ==
  /\ minted < MaxGen
  /\ minted' = minted + 1
  /\ live' = refreshTokens
  /\ due' = IF lifetime = "short" THEN due \union {minted + 1} ELSE due

\* The operator logs in again, which starts a chain of tokens of its own, and
\* pushes it.
Push(lifetime) ==
  /\ At(Admin, "idle")
  /\ Mint(live \union {minted + 1}, lifetime)
  /\ Ask(Admin, "push")
  /\ got' = [got EXCEPT ![Admin] = [access |-> minted + 1, refresh |-> minted + 1]]
  /\ UNCHANGED <<held, token, rejected, diskVars, strayExchanges>>

Status ==
  /\ At(Admin, "idle")
  /\ Ask(Admin, "status")
  /\ UNCHANGED <<held, got, token, rejected, diskVars, endpointVars>>

\* Bug: the background refresh does not take the mutex.
AcquireUnlocked(t) ==
  /\ At(t, "waiting")
  /\ op[t] = "tick" \/ \A u \in Tasks : at[u] \notin Inside
  /\ Goto(t, "read")
  /\ UNCHANGED <<op, held, got, token, rejected, diskVars, endpointVars>>

\* tokio's mutex: one guard at a time.
Acquire(t) ==
  /\ At(t, "waiting")
  /\ \A u \in Tasks : at[u] \notin Inside
  /\ Goto(t, "read")
  /\ UNCHANGED <<op, held, got, token, rejected, diskVars, endpointVars>>

-----------------------------------------------------------------------------
(* Under the mutex *)

Readable == file # NoTokens
Expired(tokens) == tokens.access \in due     \* token_expired

\* get_credentials, check_and_refresh: nothing to refresh.
ReadFresh(t) ==
  /\ At(t, "read")
  /\ Readable /\ ~Expired(file)
  /\ \/ op[t] = "get" /\ Return(t, file.access)
     \/ op[t] = "tick" /\ Finish(t)
  /\ UNCHANGED <<diskVars, endpointVars>>

\* ... or refresh_credentials, which never asks whether it is needed.
ReadToRefresh(t) ==
  /\ At(t, "read")
  /\ Readable
  /\ op[t] = "force" \/ (op[t] \in {"get", "tick"} /\ Expired(file))
  /\ held' = [held EXCEPT ![t] = file]
  /\ Goto(t, "refresh")
  /\ UNCHANGED <<op, got, token, rejected, diskVars, endpointVars>>

ReadFails(t) ==
  /\ At(t, "read")
  /\ op[t] \in {"get", "tick", "force"}
  /\ ~Readable \/ "disk" \in Faults
  /\ Finish(t)
  /\ UNCHANGED <<diskVars, endpointVars>>

\* full_credentials, for /admin/credentials/status.
ReadStatus(t) ==
  /\ At(t, "read")
  /\ op[t] = "status"
  /\ Finish(t)
  /\ UNCHANGED <<diskVars, endpointVars>>

\* update_tokens: the file is created only if the push names a user.
AcceptPush(t, namesUser) ==
  /\ At(t, "read")
  /\ op[t] = "push"
  /\ IF Readable \/ namesUser
     THEN Goto(t, "stage") /\ UNCHANGED <<op, held, got, token, rejected>>
     ELSE Finish(t)
  /\ UNCHANGED <<diskVars, endpointVars>>

\* The endpoint accepts the refresh token and replies with new tokens; a
\* provider that does not rotate leaves refresh_token empty, and it is kept.
Refreshed(t, rotates, lifetime) ==
  LET r == held[t].refresh
      new == minted + 1
  IN /\ At(t, "refresh")
     /\ r \in live
     /\ Mint(IF rotates THEN (live \ {r}) \union {new} ELSE live, lifetime)
     /\ got' = [got EXCEPT ![t] = [access |-> new, refresh |-> IF rotates THEN new ELSE r]]
     /\ Goto(t, "stage")
     /\ UNCHANGED <<op, held, token, rejected, diskVars, strayExchanges>>

\* Bug: a refresh that failed is taken for one that succeeded.
WithoutNewTokensGoesOn(t) ==
  IF op[t] = "get" THEN Return(t, held[t].access) ELSE GetAgain(t)

\* No new tokens: get_credentials goes on with the stale one, the others fail.
WithoutNewTokens(t) ==
  IF op[t] = "get" THEN Return(t, held[t].access) ELSE Finish(t)

\* The endpoint refuses, or the request never reaches it.
RefreshFails(t) ==
  /\ At(t, "refresh")
  /\ WithoutNewTokens(t)
  /\ UNCHANGED <<diskVars, endpointVars>>

\* The endpoint rotates but the reply is lost, times out, does not parse, or is
\* refused for its non-positive lifetime (expires_at_from).
RefreshLost(t) ==
  /\ At(t, "refresh")
  /\ "lost" \in Faults
  /\ held[t].refresh \in live
  /\ Mint((live \ {held[t].refresh}) \union {minted + 1}, "long")
  /\ WithoutNewTokens(t)
  /\ UNCHANGED <<diskVars, strayExchanges>>

\* write_raw: the temporary file is written and synced, ...
Stage(t) ==
  /\ At(t, "stage")
  /\ Goto(t, "rename")
  /\ UNCHANGED <<op, held, got, token, rejected, diskVars, endpointVars>>

\* ... renamed over auth.json, ...
Rename(t) ==
  /\ At(t, "rename")
  /\ file' = got[t]
  /\ survivors' = survivors \union {got[t]}
  /\ Goto(t, "sync")
  /\ UNCHANGED <<op, held, got, token, rejected, strayWrites, endpointVars>>

Persisted(t) ==
  \/ op[t] = "get" /\ Return(t, got[t].access)
  \/ op[t] = "force" /\ GetAgain(t)
  \/ op[t] \in {"tick", "push"} /\ Finish(t)

\* Bug: the directory is not synced.
SyncNothing(t) ==
  /\ At(t, "sync")
  /\ Persisted(t)
  /\ UNCHANGED <<file, survivors, strayWrites, endpointVars>>

\* ... and the directory is synced: the rename is durable.
Sync(t) ==
  /\ At(t, "sync")
  /\ survivors' = {file}
  /\ Persisted(t)
  /\ UNCHANGED <<file, strayWrites, endpointVars>>

\* Bug: refresh_credentials, too, goes on with tokens it could not persist.
PersistFailsUnnoticed(t) ==
  /\ at[t] \in {"stage", "rename", "sync"}
  /\ "disk" \in Faults
  /\ IF op[t] = "get" THEN Return(t, got[t].access)
     ELSE IF op[t] = "force" THEN GetAgain(t) ELSE Finish(t)
  /\ UNCHANGED <<diskVars, endpointVars>>

\* get_credentials uses tokens it could not persist; the others report an error.
PersistFails(t) ==
  /\ at[t] \in {"stage", "rename", "sync"}
  /\ "disk" \in Faults
  /\ IF op[t] = "get" THEN Return(t, got[t].access) ELSE Finish(t)
  /\ UNCHANGED <<diskVars, endpointVars>>

-----------------------------------------------------------------------------
(* The request itself *)

\* Any answer but a 401, or the 401 that answers the retry, goes downstream.
Answered(h) ==
  /\ At(h, "send")
  /\ Finish(h)
  /\ UNCHANGED <<diskVars, endpointVars>>

\* Bug: a 401 asks for the credentials again without refreshing them.
UnauthorizedNoRefresh(h) ==
  /\ At(h, "send")
  /\ rejected[h] = None
  /\ rejected' = [rejected EXCEPT ![h] = token[h]]
  /\ token' = [token EXCEPT ![h] = None]
  /\ Ask(h, "get")
  /\ UNCHANGED <<held, got, diskVars, endpointVars>>

\* Bug: every 401 is retried, with whatever credentials there are by then.
UnauthorizedForever(h) ==
  /\ At(h, "send")
  /\ rejected' = [rejected EXCEPT ![h] = token[h]]
  /\ token' = [token EXCEPT ![h] = None]
  /\ Ask(h, "get")
  /\ UNCHANGED <<held, got, diskVars, endpointVars>>

\* The first 401.
Unauthorized(h) ==
  /\ At(h, "send")
  /\ rejected[h] = None
  /\ rejected' = [rejected EXCEPT ![h] = token[h]]
  /\ token' = [token EXCEPT ![h] = None]
  /\ Ask(h, "force")
  /\ UNCHANGED <<held, got, diskVars, endpointVars>>

-----------------------------------------------------------------------------
(* The environment *)

\* The clock reaches the expiry buffer of an access token.
Ages(g) ==
  /\ g \in 1..minted \ due
  /\ due' = due \union {g}
  /\ UNCHANGED <<taskVars, diskVars, minted, live, strayExchanges>>

\* A handler, or an admin call, is dropped at the await it is suspended in.
Cancel(t) ==
  /\ "cancel" \in Faults
  /\ t # Ticker
  /\ ~At(t, "idle")
  /\ strayExchanges' = IF At(t, "refresh") THEN strayExchanges \union {held[t].refresh}
                       ELSE strayExchanges
  /\ strayWrites' = IF At(t, "rename") THEN strayWrites \union {got[t]} ELSE strayWrites
  /\ Finish(t)
  /\ UNCHANGED <<file, survivors, minted, live, due>>

\* The request of a dropped task reaches the endpoint, which rotates for nobody.
StrayExchange(r) ==
  /\ strayExchanges' = strayExchanges \ {r}
  /\ IF r \in live THEN Mint((live \ {r}) \union {minted + 1}, "long")
     ELSE UNCHANGED <<minted, live, due>>
  /\ UNCHANGED <<taskVars, diskVars>>

\* The rename of a dropped task is carried out.
StrayWrite(tokens) ==
  /\ strayWrites' = strayWrites \ {tokens}
  /\ file' = tokens
  /\ survivors' = survivors \union {tokens}
  /\ UNCHANGED <<taskVars, endpointVars>>

\* The pod dies and starts again: the file is as it was, or, if the node died
\* with it, what had reached the disk.
Crash ==
  /\ "crash" \in Faults
  /\ at' = [t \in Tasks |-> "idle"]
  /\ op' = [t \in Tasks |-> "none"]
  /\ held' = [t \in Tasks |-> NoTokens]
  /\ got' = [t \in Tasks |-> NoTokens]
  /\ token' = [t \in Tasks |-> None]
  /\ rejected' = [t \in Tasks |-> None]
  /\ strayExchanges' = strayExchanges \union {held[t].refresh : t \in {u \in Tasks : At(u, "refresh")}}
  /\ strayWrites' = {}
  /\ \/ UNCHANGED <<file, survivors>>
     \/ file' \in survivors /\ survivors' = {file'}
  /\ UNCHANGED <<minted, live, due>>

-----------------------------------------------------------------------------
(* The specification *)

Locked(t) ==
  \/ ReadFresh(t) \/ ReadToRefresh(t) \/ ReadFails(t) \/ ReadStatus(t)
  \/ \E namesUser \in BOOLEAN : AcceptPush(t, namesUser)
  \/ \E rotates \in BOOLEAN, lifetime \in {"short", "long"} : Refreshed(t, rotates, lifetime)
  \/ RefreshFails(t) \/ RefreshLost(t)
  \/ Stage(t) \/ Rename(t) \/ Sync(t) \/ PersistFails(t)

Upstream(h) == Answered(h) \/ Unauthorized(h)

Arrivals ==
  \/ \E h \in Handlers : Request(h)
  \/ Tick
  \/ \E lifetime \in {"short", "long"} : Push(lifetime)
  \/ Status

Environment ==
  \/ \E g \in Gen : Ages(g)
  \/ \E t \in Tasks : Cancel(t)
  \/ \E r \in strayExchanges : StrayExchange(r)
  \/ \E tokens \in strayWrites : StrayWrite(tokens)
  \/ Crash

Next ==
  \/ Arrivals
  \/ \E t \in Tasks : Acquire(t) \/ Locked(t)
  \/ \E h \in Handlers : Upstream(h)
  \/ Environment

Spec == Init /\ [][Next]_vars

\* The mutex serves its waiters in order, so a task that waits gets it if it is
\* freed again and again; file operations end and the token request has a
\* timeout.  That the upstream answers is an assumption: there is no read timeout.
FairSpec ==
  /\ Spec
  /\ \A t \in Tasks : SF_vars(Acquire(t)) /\ WF_vars(Locked(t))
  /\ \A h \in Handlers : WF_vars(Upstream(h))

-----------------------------------------------------------------------------
(* Safety *)

\* "concurrent get_credentials calls during an expiry window produce a single
\* refresh" (refresher.rs:5): whoever refreshes because its token had run into the
\* buffer still finds that very token in the file, so nobody has refreshed it
\* meanwhile and no refresh token is spent twice.
RefreshesOnlyTheStale ==
  \A t \in Tasks :
    At(t, "refresh") /\ op[t] \in {"get", "tick"} => file = held[t] /\ Expired(file)

\* "retry exactly once" after a 401 (upstream.rs:124) is worth something: the
\* second send never carries the access token that was just rejected, whatever
\* fails in between and whoever else refreshes or pushes.
RetriesWithNewToken ==
  \A h \in Handlers : At(h, "send") /\ rejected[h] # None => token[h] # rejected[h]

\* While no operation is under way, the refresh token in the file is one the
\* endpoint accepts, and stays so if the node dies now (fs.rs:172: "this file holds
\* the only copy of the rotated refresh token").
ChainAtRest ==
  (\A t \in Tasks : at[t] \notin Inside)
    => \A tokens \in survivors : tokens = NoTokens \/ tokens.refresh \in live

\* refresh_credentials reports success (refresher.rs:206) only for tokens that were
\* written to the file and that the death of the node cannot take back, with a new
\* refresh token the endpoint accepts or the old one where it issued none, whichever
\* steps of earlier operations were lost, failed or cut short.  What the node keeps is
\* then those tokens, or older ones that the rename of a dropped handler put back.
ForcedRefreshIsDurable ==
  [][\A t \in Tasks :
       op[t] = "force" /\ at[t] \in Inside /\ at'[t] = "waiting"
         => /\ got[t] \in survivors
            /\ survivors' = {file'}
            /\ file' = got[t] \/ ("cancel" \in Faults /\ file'.access < got[t].access)
            /\ got[t].refresh \in live \union {held[t].refresh}]_vars

-----------------------------------------------------------------------------
(* Liveness *)

\* Every request, tick and admin call comes to an end: no operation keeps the
\* mutex, a retry takes it again without holding it, and no sequence of 401s keeps
\* a request alive (upstream.rs:127).
EverythingEnds == \A t \in Tasks : ~At(t, "idle") ~> At(t, "idle")

-----------------------------------------------------------------------------
(* What comments and documents of the repository say of it *)

\* "All credential operations run under one async mutex" (refresher.rs:4).
FileChangesUnderTheMutex ==
  [][file' # file => \E t \in Tasks : at[t] = "rename" /\ at'[t] = "sync"]_vars
=============================================================================
