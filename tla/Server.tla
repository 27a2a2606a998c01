------------------------------- MODULE Server -------------------------------
(***************************************************************************)
(* A process of the proxy from its start to its end: configuration and     *)
(* wiring (main.rs, config.rs), the routes and the admin gate (server/),   *)
(* the two handlers that call the upstream (chat.rs, responses.rs) with    *)
(* send_with_retry, the answer each gives, and the graceful shutdown.      *)
(*                                                                         *)
(* The pod's other parts are seen from outside: a credential call returns  *)
(* or fails (Credentials), a stream ends (Relay), a reader succeeds or     *)
(* fails (ResponseStream).  In router mode the data plane is Router's.     *)
(***************************************************************************)
EXTENDS Integers, Sequences, FiniteSets, Metrics

CONSTANTS
  Clients,    \* the clients, each with one request
  Requests,   \* what they may ask: [route, key, sound, stream]
  Statuses,   \* the statuses the upstream answers with
  Readings,   \* the quota headers it answers with
  Configs     \* what the process may be started with

DataRoutes == {"chat", "responses"}
GatedRoutes == DataRoutes \union {"credentials", "status"}
OpenRoutes == {"models", "health", "metrics"}
Routes == GatedRoutes \union OpenRoutes \union {"other"}

Request ==
  [route : Routes, key : {"right", "wrong", "none"}, sound : BOOLEAN, stream : BOOLEAN]

Config ==
  [mode : {"backend", "router"}, store : {"env", "fs"}, path : {"none", "relative", "absolute"},
   home : BOOLEAN, keepalive : Nat, ttl : Nat, version : {"blank", "control", "plain"},
   accounts : {"bad", "good"}, redis : {"none", "down", "up"}, key : {"none", "blank", "set"},
   port : {"free", "taken"}]

ASSUME ServerAssumption ==
  /\ Requests \subseteq Request
  /\ Configs \subseteq Config
  /\ Statuses \subseteq 200..599
  /\ Readings \subseteq Headers

VARIABLES
  process,   \* "starting", "refused", "serving", "stopping" or "exited"
  app,       \* AppState, what of it is decided by the configuration
  gauges,    \* the registry behind /metrics
  pc,        \* where the handler of a client's request is
  request,   \* what each client asked
  sends,     \* how often the upstream was asked for it
  up,        \* the last answer of the upstream: [status, sse], status 0 for none
  answer     \* what the client was answered: [status, sse], status 0 for nothing yet

vars == <<process, app, gauges, pc, request, sends, up, answer>>

NoApp == [mode |-> "backend", store |-> "env", keepalive |-> 0, ttl |-> 0, key |-> FALSE,
          affinity |-> FALSE, ticker |-> FALSE]
NoRequest == [route |-> "other", key |-> "none", sound |-> FALSE, stream |-> FALSE]
Nothing == [status |-> 0, sse |-> FALSE]

Init ==
  /\ process = "starting"
  /\ app = NoApp
  /\ gauges = Unset
  /\ pc = [c \in Clients |-> "idle"]
  /\ request = [c \in Clients |-> NoRequest]
  /\ sends = [c \in Clients |-> 0]
  /\ up = [c \in Clients |-> Nothing]
  /\ answer = [c \in Clients |-> Nothing]

-----------------------------------------------------------------------------
(* Start *)

\* What clap accepts.
Parses(config) == config.keepalive >= 1 /\ config.ttl >= 1 /\ config.version = "plain"

\* Where the file store keeps its tokens: never under the working directory.
HasPath(config) == config.path = "absolute" \/ (config.path = "none" /\ config.home)

\* The rest of main: the store, the account pool, the port.
Wires(config) ==
  /\ (config.mode = "backend" /\ config.store = "fs") => HasPath(config)
  /\ config.mode = "router" => config.accounts = "good"
  /\ config.port = "free"

\* AppState; a Redis that does not answer leaves the router without affinity.
App(config) ==
  [mode |-> config.mode, store |-> IF config.mode = "router" THEN "env" ELSE config.store,
   keepalive |-> config.keepalive, ttl |-> config.ttl, key |-> config.key = "set",
   affinity |-> config.mode = "router" /\ config.redis = "up",
   ticker |-> config.mode = "backend" /\ config.store = "fs"]

Start ==
  /\ process = "starting"
  /\ \E config \in Configs :
       IF Parses(config) /\ Wires(config)
         THEN process' = "serving" /\ app' = App(config)
         ELSE process' = "refused" /\ app' = NoApp
  /\ UNCHANGED <<gauges, pc, request, sends, up, answer>>

-----------------------------------------------------------------------------
(* Requests *)

\* Where a handler waits for something, and may be dropped.
Suspended == {"admin", "token", "sent", "refresh", "mirroring", "buffering", "streaming"}
InFlight(c) == pc[c] \in Suspended \union {"asked", "heard"}

Answered(c, status, sse) ==
  /\ answer' = [answer EXCEPT ![c] = [status |-> status, sse |-> sse]]
  /\ pc' = [pc EXCEPT ![c] = "over"]

Goes(c, to) == pc' = [pc EXCEPT ![c] = to] /\ UNCHANGED answer

\* A client connects; the listener is closed once the process stops.
Ask(c) ==
  /\ process = "serving" /\ pc[c] = "idle"
  /\ \E r \in Requests :
       /\ app.mode = "router" => r.route \notin DataRoutes
       /\ request' = [request EXCEPT ![c] = r]
  /\ Goes(c, "asked")
  /\ UNCHANGED <<process, app, gauges, sends, up>>

\* The gated routes there are: a router has no credentials to look after.
Gated(route) == route \in GatedRoutes /\ (app.mode = "router" => route \in DataRoutes)

\* admin_auth, 0 to let the request through
Gate(r) ==
  IF ~Gated(r.route) THEN 0 ELSE IF ~app.key THEN 500 ELSE IF r.key # "right" THEN 401 ELSE 0

\* The handlers that answer at once, a push without its fields included.
AtOnce(r) ==
  CASE r.route \in OpenRoutes -> 200
    [] r.route = "other" \/ app.mode = "router" -> 404
    [] OTHER -> 400

AwaitsStore(r) ==
  app.mode = "backend" /\ (r.route = "status" \/ (r.route = "credentials" /\ r.sound))

\* The gate, the routes, and the handlers up to their first await.
Enter(c) ==
  LET r == request[c]
  IN /\ pc[c] = "asked"
     /\ \/ Gate(r) # 0 /\ Answered(c, Gate(r), FALSE)
        \/ Gate(r) = 0 /\ r.route \in DataRoutes /\ ~r.sound /\ Answered(c, 400, FALSE)
        \/ Gate(r) = 0 /\ r.route \in DataRoutes /\ r.sound /\ Goes(c, "token")
        \/ Gate(r) = 0 /\ r.route \notin DataRoutes /\ AwaitsStore(r) /\ Goes(c, "admin")
        \/ Gate(r) = 0 /\ r.route \notin DataRoutes /\ ~AwaitsStore(r)
             /\ Answered(c, AtOnce(r), FALSE)
     /\ UNCHANGED <<process, app, gauges, request, sends, up>>

\* update_credentials and credentials_status, when the store has returned: a push
\* fails in the static store, the status is told whatever the store says.
Admin(c) ==
  /\ pc[c] = "admin"
  /\ \E status \in IF request[c].route = "status" THEN {200}
                    ELSE IF app.store = "env" THEN {400} ELSE {200, 500} :
       Answered(c, status, FALSE)
  /\ UNCHANGED <<process, app, gauges, request, sends, up>>

\* get_credentials has returned, before either send; the static store never fails.
Token(c) ==
  /\ pc[c] = "token"
  /\ \/ /\ sends' = [sends EXCEPT ![c] = @ + 1]
        /\ up' = [up EXCEPT ![c] = Nothing]
        /\ Goes(c, "sent")
     \/ /\ app.store = "fs"
        /\ Answered(c, 503, FALSE)
        /\ UNCHANGED <<sends, up>>
  /\ UNCHANGED <<process, app, gauges, request>>

\* Bug: every 401 is retried.
RetriedAlways(c, status) == status = 401

\* The first 401 of a request is not the handler's to see.
Retried(c, status) == status = 401 /\ sends[c] = 1

\* The head of the upstream's answer, and the quota headers in it.
Hear(c) ==
  /\ pc[c] = "sent"
  /\ \E status \in Statuses, sse \in BOOLEAN, reading \in Readings :
       /\ up' = [up EXCEPT ![c] = [status |-> status, sse |-> sse]]
       /\ IF Retried(c, status) THEN Goes(c, "refresh") /\ UNCHANGED gauges
          ELSE Goes(c, "heard") /\ gauges' = Observed(gauges, reading)
  /\ UNCHANGED <<process, app, request, sends>>

\* The connection fails, or breaks before the head.
SendFails(c) ==
  /\ pc[c] = "sent"
  /\ Goes(c, "heard")
  /\ UNCHANGED <<process, app, gauges, request, sends, up>>

\* refresh_credentials has returned; it does nothing in the static store.
Refresh(c) ==
  /\ pc[c] = "refresh"
  /\ Goes(c, "token") \/ (app.store = "fs" /\ Answered(c, 503, FALSE))
  /\ UNCHANGED <<process, app, gauges, request, sends, up>>

Relayed(c) ==
  /\ answer' = [answer EXCEPT ![c] = [status |-> up[c].status, sse |-> TRUE]]
  /\ pc' = [pc EXCEPT ![c] = "streaming"]

\* chat_completions: only a 200 is rewritten, whatever its media type.
Chat(c) ==
  IF up[c].status # 200 THEN Goes(c, "mirroring")
  ELSE IF request[c].stream THEN Relayed(c)
  ELSE Goes(c, "buffering")

\* Bug: the caller's wish is read from the body sent upstream, which always streams.
ResponsesAsSent(c) ==
  IF up[c].status >= 400 \/ ~up[c].sse THEN Goes(c, "mirroring") ELSE Relayed(c)

\* responses: a success that is no stream is the final object already.
Responses(c) ==
  IF up[c].status >= 400 \/ ~up[c].sse THEN Goes(c, "mirroring")
  ELSE IF request[c].stream THEN Relayed(c)
  ELSE Goes(c, "buffering")

Dispatch(c) ==
  /\ pc[c] = "heard"
  /\ IF up[c].status = 0 THEN Answered(c, 503, FALSE)
     ELSE IF request[c].route = "chat" THEN Chat(c)
     ELSE Responses(c)
  /\ UNCHANGED <<process, app, gauges, request, sends, up>>

\* mirror_response: a body that breaks is a gateway error, not an empty success.
Mirror(c) ==
  /\ pc[c] = "mirroring"
  /\ Answered(c, up[c].status, up[c].sse) \/ Answered(c, 502, FALSE)
  /\ UNCHANGED <<process, app, gauges, request, sends, up>>

\* buffer_chat_completion, buffer_responses_response
Buffer(c) ==
  /\ pc[c] = "buffering"
  /\ \E status \in {200, 500} : Answered(c, status, FALSE)
  /\ UNCHANGED <<process, app, gauges, request, sends, up>>

\* Bug: dropping the write half of a simplex pipe does not end its read half.
StreamStays(c) == FALSE /\ UNCHANGED vars

\* The relay is done and the body ends.
StreamEnds(c) ==
  /\ pc[c] = "streaming"
  /\ pc' = [pc EXCEPT ![c] = "over"]
  /\ UNCHANGED <<process, app, gauges, request, sends, up, answer>>

\* The client disconnects: hyper drops its handler, or its body.
Leave(c) ==
  /\ pc[c] \in Suspended
  /\ pc' = [pc EXCEPT ![c] = "over"]
  /\ UNCHANGED <<process, app, gauges, request, sends, up, answer>>

-----------------------------------------------------------------------------
(* Stop *)

\* SIGINT or SIGTERM
Signal ==
  /\ process = "serving"
  /\ process' = "stopping"
  /\ UNCHANGED <<app, gauges, pc, request, sends, up, answer>>

\* with_graceful_shutdown returns when the last connection is done.
Exit ==
  /\ process = "stopping"
  /\ \A c \in Clients : ~InFlight(c)
  /\ process' = "exited"
  /\ UNCHANGED <<app, gauges, pc, request, sends, up, answer>>

Handler(c) ==
  \/ Enter(c) \/ Admin(c) \/ Token(c) \/ Hear(c) \/ SendFails(c) \/ Refresh(c)
  \/ Dispatch(c) \/ Mirror(c) \/ Buffer(c) \/ StreamEnds(c)

Next ==
  \/ Start \/ Signal \/ Exit
  \/ \E c \in Clients : Ask(c) \/ Handler(c) \/ Leave(c)

Spec == Init /\ [][Next]_vars

\* Credential calls end (EverythingEnds), streams end (RelayEnds), the upstream
\* answers or its connection breaks, and axum returns once nothing is in flight.
Fairness == WF_vars(Exit) /\ \A c \in Clients : WF_vars(Handler(c))

FairSpec == Spec /\ Fairness

-----------------------------------------------------------------------------
(* Properties *)

Handling == {"asked", "admin", "token", "sent", "refresh", "heard", "mirroring", "buffering"}

\* A window is as long in seconds as a response said in minutes, or longer.
GaugesAreSound ==
  /\ gauges \in Gauges
  /\ gauges.seconds # None =>
       \E r \in Readings :
         /\ r.used # None /\ r.minutes # None
         /\ r.minutes[1] >= 0 => gauges.seconds[1] >= r.minutes[1]

\* What runs is what its parts assume: a keepalive to notice dead clients by
\* (config.rs:107-110), a lifetime Redis takes (config.rs:89-90), no refresh of tokens
\* in a router (main.rs:23-25); and the gauges stay in their domain whatever the
\* upstream's headers say (metrics.rs:101-104).
TypeOK ==
  /\ process \in {"starting", "refused", "serving", "stopping", "exited"}
  /\ pc \in [Clients -> Suspended \union {"idle", "asked", "heard", "over"}]
  /\ request \in [Clients -> Requests \union {NoRequest}]
  /\ sends \in [Clients -> 0..2]
  /\ up \in [Clients -> [status : Statuses \union {0}, sse : BOOLEAN]]
  /\ answer \in [Clients -> [status : Statuses \union {0, 200, 400, 401, 404, 500, 502, 503},
                             sse : BOOLEAN]]
  /\ process \in {"serving", "stopping", "exited"} =>
       app.keepalive >= 1 /\ app.ttl >= 1 /\ (app.mode = "router" => ~app.ticker)
  /\ GaugesAreSound

\* A caller that did not ask for a stream gets an object from a successful call; one
\* that did gets a stream from chat completions (responses.rs:24-27, 87-89).
FormatAsAsked ==
  \A c \in Clients :
    (answer[c].status = 200 /\ request[c].route \in DataRoutes) =>
      /\ answer[c].sse => request[c].stream
      /\ (request[c].stream /\ ~answer[c].sse) => request[c].route = "responses" /\ ~up[c].sse

Phase(c) ==
  IF pc[c] \in Handling
    THEN IF request[c].route \in DataRoutes THEN "data" ELSE "local"
  ELSE IF pc[c] = "idle" THEN "idle"
  ELSE "over"

Pod == INSTANCE PodContract WITH
  phase <- [c \in Clients |-> Phase(c)],
  waiting <- [c \in Clients |-> pc[c] = "sent"],
  heard <- [c \in Clients |-> up[c].status],
  answer <- [c \in Clients |-> answer[c].status]

\* The upstream is asked at most twice per request, again only after a 401, and the
\* status of the one answer is the upstream's own or says what failed
\* (upstream.rs:124-126, error.rs:12-23, stream.rs:163-165).
KeepsPodContract == Pod!Spec

\* After the stop signal the process ends: every request it has taken is answered or
\* given up by its client, and every stream ends (main.rs:116-118).
StopsWhenTold == process = "stopping" ~> process = "exited"
=============================================================================
