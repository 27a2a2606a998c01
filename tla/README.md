# A formal model of codex-proxy-rs

codex-proxy-rs is a reverse proxy that serves the OpenAI Chat Completions and
Responses APIs from the ChatGPT Codex backend. One binary runs in two roles: a
*backend pod* owns the OAuth credentials of one ChatGPT account and translates
requests and event streams; a *router* spreads conversations over several pods,
keeps each conversation on one account, and fails over. This directory holds
TLA+ modules translated from the source, the TLC configurations that check
them, and machine-checked proofs. `PROJECT.json` maps every definition that
models code to its lines.

Paths below are relative to the crate, `src/src/`.

## 1. The system

| Component | State | Operations | Met by |
|---|---|---|---|
| Account pool, `router.rs` `AccountPool` | round-robin counter (atomic), `cooldown_until`, `model_cooldown_until` (a mutex each) | `pick`, `pinned`, `cooldown`, `cooldown_model`; expiry by the clock | every handler, in parallel |
| Router-mode handler, `router.rs` `proxy` | locals of one request: account, alternative, outcomes | pin lookup, first attempt, cooldown, clear, second attempt, pin | pool, store, pods, client |
| Affinity store, `affinity.rs` | conversation key -> slug, with a TTL, in Redis or in memory | `get`, `set`, `clear`, all best effort | handlers, other routers |
| OAuth credentials, `credentials/` | `auth.json`, one async mutex, the provider's token chain | `get_credentials`, `refresh_credentials`, `check_and_refresh`, `update_tokens`, `full_credentials` | handlers, 10-minute ticker, admin |
| Upstream send, `upstream.rs` `send_with_retry` | the rejected token | send, on 401 refresh and send once more | credentials, ChatGPT |
| Admin endpoints, `server/admin.rs` | none | push tokens, read their status | credentials |
| SSE transformer, `transform/` | role sent, tool indices, saw-a-call | one event in, chunks and a verdict out | relay, buffered chat |
| SSE relay, `relay.rs`, `server/stream.rs` | partial line, event lines, last write, 64 KiB pipe | rewrite or pass through, keepalive, terminate | upstream, timer, client |
| Buffered answers, `buffered.rs` | accumulators by tool index, finish reason | `buffer_chat_completion`, `buffer_responses_response` | transformer |
| Model and effort choice, `model.rs`, `request.rs` | none | normalise a model id, resolve and clamp the effort | handlers |
| Request bodies, `request.rs` | none | rewrite messages, instructions and names, derive the cache key | handlers |
| Conversation key, `conversation.rs` | none | `resolve_conversation_key` from the header or the head of the body | router-mode handler |
| Chat and Responses handlers, `server/chat.rs`, `server/responses.rs` | none | build, send, dispatch on status and media type | all of the above |
| Subscription metrics, `metrics.rs`, `ratelimit.rs` | six gauges per process | parse headers, clamp, `observe` | every answer of the upstream, `/metrics` |
| HTTP server, `server/mod.rs`, `server/middleware.rs` | none | routes, the admin-key gate, graceful shutdown | clients, signals |
| Start-up and configuration, `main.rs`, `config.rs` | `AppState` | parse, refuse, wire, start the ticker | once |
| Static credentials, `credentials/env.rs` | none | return one token, refuse a push | handlers, admin |

Calls go downwards: handler -> `send_with_retry` -> credentials -> token
endpoint, and handler -> relay or buffered reader -> transformer. Shared state
is the pool (all handlers of a router), the store (all routers), `auth.json`
behind its mutex (all tasks of a pod), and the pipe between a relay task and
the client's response body. A client that disconnects drops its handler at
whatever await it is suspended in. A streaming relay is detached from its
handler and learns of the client only when a write fails.

What is hard here, and where it is checked (`PROJECT.json` `hazards` has each
one at its line):

* `pick` reads the cooldown maps one entry and one lock at a time while other
  handlers write them (`PickHistory`);
* several turns of one conversation fail over at once, over a store that may
  lose or delay every command (`Router`);
* a refresh token is usable once and its only copy is a file: concurrent
  refreshes, lost replies, failed writes, dropped handlers, dead nodes
  (`Credentials`);
* deltas of parallel tool calls interleave, and a stream may end or break
  anywhere (`ResponseStream`);
* a `select!` drops a half-finished read, the pipe fills, the client leaves
  (`Relay`);
* `-max` ends a model id as well as an effort (`ModelChoice`);
* a conversation is recognised by the head of a body that grows with every turn, and
  messages take five paths by role and shape (`Conversation`);
* a 401, a failed refresh, a second 401 and a broken connection each end in another
  answer, to a caller whose wish for a stream is overwritten on the way; a stop
  signal waits for every open body (`Server`).

## 2. Modules

| Module | Models | Uses |
|---|---|---|
| `AccountPool` | the pool and each step of `pick` | |
| `PickHistory` | the pool under any use of it, with history variables | extends `AccountPool` |
| `FailoverContract` | abstract: what the client of one routed request is promised | |
| `Router` | `proxy` for all requests in flight, store, pods, restarts | extends `AccountPool`, refines `FailoverContract` |
| `PoolProofs` | lemmas about scans | extends `AccountPool`, `TLAPS` |
| `PickProofs` | theorems about `PickHistory` | extends `PickHistory`, `PoolProofs` |
| `RouterProofs` | theorems about `Router` | extends `Router`, `PoolProofs` |
| `Credentials` | `OAuthFetcher`, `auth.json`, the token endpoint, `send_with_retry`, ticker, admin | |
| `CredentialsProofs` | theorems about `Credentials`, under every fault, and about its token chain when nothing fails | extends `Credentials`, `TLAPS` |
| `SSETransformer` | the transformer as a function of its state and an event | |
| `ResponseStream` | streaming chat, buffered chat and buffered Responses readers over one event stream | extends `SSETransformer` |
| `StreamProofs` | theorems about `ResponseStream` | extends `ResponseStream`, `TLAPS` |
| `StreamContract` | abstract: what the client of a streamed answer is promised | |
| `Relay` | both relays, the event reader, the timer, the pipe, the client | extends `SSETransformer`, refines `StreamContract` |
| `RelayProofs` | theorems about `Relay` | extends `Relay`, `TLAPS` |
| `ModelChoice` | the model and effort of an outgoing request | |
| `RequestBody` | both kinds of outgoing body and the conversation key, as operators | |
| `Conversation` | one client's conversation with an endpoint, turn by turn | extends `RequestBody` |
| `RequestProofs` | theorems about `ModelChoice` and `Conversation` | extends both, `TLAPS` |
| `Metrics` | quota headers and the gauges of one window | |
| `PodContract` | abstract: what a pod promises its callers and its upstream | |
| `Server` | a process from its configuration to its stop: gate, routes, both handlers | extends `Metrics`, refines `PodContract` |
| `ServerProofs` | theorems about `Server` | extends `Server`, `TLAPS` |
| `MCRouter`, `MCCredentials`, `MCResponseStream`, `MCConversation`, `MCServer` | constants and symmetry for TLC | |

An operator whose comment begins with `Bug:` is a plausible mistake in the code,
defined beside what it would replace. It is in no specification: with it in
place, the property named in `PROJECT.json` `mutants` must fail, which shows
that the property depends on that code.

### How state and actions correspond to the code

**AccountPool.** Accounts are positions in the configuration; `parse` refuses
duplicates, so a position, a slug and a URL are one thing. `next` is the counter
modulo N. `cooling` and `modelCooling` are the entries of the two maps whose
time lies in the future; an expiry step may come at any moment, which stands for
every clock and every duration. `scan[t]` is handler t inside `pick`: `StartScan` is
`fetch_add`, `CheckHealth` and `CheckTier` are the two locked looks pass 1 takes
at a candidate, `CheckTierAgain` the one of pass 2, and a scan that runs out of
candidates takes account 0 (pass 3).

**Router.** `pc[t]` names the await or the step handler t is at; the other
variables are its locals, `pins` is the store. One attempt ends in one of five
ways: `ok`, `denied` (any other final status), `busy` (429, 5xx), `gate` (a 400
with the tier-gate marker), `unreachable`. An account answers `gate` exactly for the models
outside its plan (`Entitled`). A store command may take effect, fail, or take
effect and report failure; a dropped handler's command may still arrive
(`LateEffect`); pins expire. `Restart` forgets everything but the pins.

**Credentials.** Tokens are generations in the order the endpoint mints them.
`at[t]` is where a task is; the mutex is free iff no task is `Inside`. The atomic
write is three steps: `Stage` (temporary file written and synced), `Rename`,
`Sync` (of the directory). `survivors` is the set of contents the file may have
if the node died now. A task dropped during a token exchange or a rename leaves
that behind (`strayExchanges`, `strayWrites`): both go on without it. `Faults`
selects the failures an instance allows.

**SSETransformer, ResponseStream.** `st` is the `&mut self` of the code,
`Transform` one call. An event is a kind, an item, a number that stands for
its payload, and whether it carries a sequence number: the frames of one that does
not say `"created":null`, which the buffered chat reader does not parse and skips
(`Parsed`). A frame is what one chunk says. Three readers with a transformer
each take every event in lockstep.

**Relay.** `ReadPiece`, `ReadLine`, `UpstreamCloses` and `UpstreamBreaks` are the
outcomes of `next_event`; `reader` is `SseEventReader`, whose partial line
survives a `select!` that drops the read. `DeadlinePasses` and `KeepAlive` are
the timer branch, `Write` one frame into the pipe, `WriteFails` the write to a
dropped pipe. The operator `Handle` is the loop body for one event. A data line
carries one JSON document or none; an event of several data lines is verbatim in
pass-through mode and one document, or garbage, in rewrite mode.

**ModelChoice.** An id is the sequence of its segments, because all the code
asks of one is equality, a suffix or a substring, and each of those follows
segment borders for the ids the instances enumerate (`gpt-60` and `gpt-4o`, where
it might not, are segments of their own).

**RequestBody, Conversation.** A text is the sequence of its fragments: names the
code rewrites, white space, words. A content is a string, an array of items, null
or absent, or something else, which is what the code branches on (something else
is rendered as JSON in a tool output, `Rendering`, and says nothing elsewhere). A field
that is no array (`asArray`) stands for the one message its client meant to say.
`aside` is the field of the other endpoint, which the keys look at too. A cache key of
the client's is `<<key>>`, an empty one included, and none is `<<>>`. `ChatBody` and `ResponsesBody`
are the two builders, `ConversationKey` is `resolve_conversation_key`. The proxy keeps
nothing between turns, so a step of `Conversation` is one request: the client
appends a message and sends everything again, or repeats with another model.
`sent` and `conversation` are what the proxy made of the last request. Hashes are
taken to be injective; that no two heads give one *payload* is proved, not assumed.
`Fragments` is what texts are made of, all strings in the runs. `Decimal` writes a
length in digits, as `format!` does, so a field may itself hold digits and colons.

**Metrics.** `Observed` is `Window::from_headers` followed by `observe_window`. The two
windows are alike and never meet, so one is modelled.

**Server.** `Start` is `main` up to the listener, from any configuration; `app` is
`AppState`. `pc[c]` is where the handler of a client is: `Enter` the gate, the
routes and the handler up to its first await, `Token`, `Hear`, `Refresh` and `SendFails`
are `send_with_retry`, `Dispatch` the handler's choice between mirroring, relaying
and buffering. The parts that are modules of their own are seen from outside: a
credential call returns or fails, a reader succeeds or fails, a stream ends.
`Leave` drops a handler or a body at any await. In router mode the data plane is
`Router`'s; `Server` has the routes a router keeps for itself.

## 3. Runs

All bounds are CONSTANTS of the cfg.

| Run | Instance | Shows |
|---|---|---|
| `pick_history` | 3 accounts, 1 model, 1 scanning handler; cooldowns inserted and expiring between any two of its steps | whatever changes during a scan, `pick` returns an account that was unusable throughout only if no other was usable throughout, treats a tier gate more strictly than a cooldown, and always returns |
| `router_turns` | 2 accounts, 2 concurrent turns of one conversation, store on | types; tier-gate entries are true; pins name accounts that answered; only failed accounts cool; `FailoverContract` is refined |
| `router_pool` | 2 accounts, 2 concurrent handlers, no store, the model outside one of the plans | no early give-up; every request is answered however the other handler cools and gates accounts meanwhile |
| `credentials_chain` | 2 handlers, ticker, admin, 4 generations, refused refreshes only | one refresh per expiry window; the file at rest holds a live refresh token, also on disk |
| `credentials_dropped` | the same tasks, 2 generations, every fault | a retry never re-sends the rejected token; a forced refresh reports only tokens it has written and a dead node keeps; everything ends |
| `stream` | 2 tool calls, 5 events of 16 kinds, at most 2 of them noise (`MaxNoise`: garbage, unknown kinds, no sequence number) | calls reassemble by index, one role and the right finish per response, the buffered answer is what the numbered events of all responses said |
| `relay` | 4 lines of 6 kinds, whole or in two pieces, a pipe of 1 | nothing is lost or reordered, exactly one final `[DONE]`, pings break silence, the task ends |
| `model_choice` | ids of up to 4 segments from 13 heads and 13 tails, 5 values in each effort field | known ids, and known ids with an effort, are served as what they name; explicit efforts win |
| `conversation` | either endpoint, up to 3 messages of 20 (chat) or 13 (Responses) kinds, 2 models, with and without keys of the client's and a field of the other endpoint | the key of a conversation survives turns and model switches and is no other conversation's; the cache key survives turns; the messages `Dropped` names are lost, and of all others every word arrives, once and in order |
| `server` | any of 1536 start-up configurations, then 2 clients with 10 kinds of request each, upstream statuses 200, 202 and 401, quota headers out of range | types and gauge domains; stream or object as the caller asked; `PodContract` is refined; a stop signal is followed by the end |
| `credentials_mutex`, `model_effort` | | violations, section 7 |

Why these bounds are enough to be interesting:

* Two handlers are enough for every conflict over a pin, a cooldown or the
  mutex, all of which are between two parties; the ticker and the admin are two
  more. Three accounts are the fewest with a primary, an alternative and one
  more to pass over. With two accounts the second scan can come back to the
  primary. The proofs cover any number of accounts, handlers, models and
  conversations.
* `router_pool` has two accounts, two handlers and no store, so that liveness can be
  checked while each handler changes the maps under the other's scan. A third account
  is in `pick_history` (`PickReturns`), and `GivesUpRightly` covers any number. The awaits
  of the store, each a single step that fairness takes, are in `router_turns`.
* Two generations are a rejected token and its successor, with every fault
  between; four are needed for two refreshes and a push to overlap. That the late
  rename of a dropped handler puts an older pair over newer tokens takes three; the
  invariant behind `ForcedRefreshHolds` has been checked with them, and the theorem
  covers any number.
* Five events hold an announcement, an interleaved announcement, a delta of
  each and an end, and also a response that follows another, whose call takes the
  index of an earlier one; every property of `stream` fails for its mutant at that
  length. Two noisy events may both be calls announced without a number. A number is
  left out only where it makes a difference (`Telling`).
* Four lines hold an event of two data lines with what follows it, two events,
  or an event and an unterminated one. A pipe of one frame is full as soon as
  anything is in it.
* Three messages hold a system and a user message and one more of any kind at any
  place, and two messages of one role with a third between. The texts include two
  pairs that are equal once joined by a line break, names that overlap and items
  without text.
* Statuses 200, 202 and 401 are one of each kind the handlers tell apart: rewritten,
  mirrored as a success, retried and mirrored as an error. Clients share only the
  gauges and the process, so two are enough; `ServerProofs` covers any number.

Symmetry is declared only where no liveness is checked, over handlers and over
tool-call items, which the specifications never order. Deadlock is checked except
where a run really ends: a stream after its end, a request once it is built, a
relay task once it has returned, a conversation at its last turn, a process that
has stopped.

## 4. Abstract specifications

`FailoverContract` says what router mode promises without pool, cooldowns or
store: at most two attempts, the second on another account and only after a
retryable failure, and a verdict that is the last response an account really
gave, or the router's own 500 if none did. `Router` implements it under a mapping
that reads attempts off the handler's locals (`Tried`); TLC checks this for two
handlers, TLAPS proves it for every instance.

`StreamContract` says what the client of a stream is promised: a chat stream
ends with one `[DONE]`, last, after an error frame if the relay failed; a
Responses stream has no frame of the relay's own; only a client that has left
may find no end. `Relay` implements it with `over <- (pc = "ended")`; TLC checks it
for four lines, TLAPS proves it for any.

`PodContract` says what a pod promises both sides: the upstream is asked at most twice
per request, a second time only after a 401, and the one answer has the upstream's
own status or one that says what failed (503: unreachable or no credentials, 502: a
body that broke, 500: a reader that failed). `Server` implements it with `Phase`,
which folds the handler's places into "idle", "local", "data" and "over"; TLC checks
it for two clients, TLAPS proves it for any number.

## 5. Fairness

* `Router`: weak fairness of every handler's steps, since the runtime polls what
  is ready. That an *attempt* ends is an assumption about the pods: the shared
  client has a connect timeout and no read timeout (`router.rs:248`). That a store
  command returns is one about Redis: `affinity.rs` sets no timeout of its own.
* `PickHistory`: weak fairness of a scan that has begun; `pick` has no await.
* `Credentials`: strong fairness of `Acquire` (tokio's mutex is fair and FIFO),
  weak fairness of file operations and of the token request, which has a
  timeout (`oauth.rs`). That the ChatGPT backend answers a send is an assumption.
* `Relay`: the task and its timer run; the two branches of its `select!` are
  polled in random order, hence strong fairness of each that stays ready again and
  again. The client reads or leaves. Nothing makes the upstream send or close:
  `SilenceIsBroken` and the second part of `RelayEnds` hold with a silent one, the
  latter only with keepalive on, because a detached relay notices a departed
  client by a failing write alone.
* `Server`: weak fairness of every handler and of `Exit`. That a handler waiting for
  credentials goes on is `EverythingEnds` of `Credentials`, that a stream ends is
  `RelayEnds` of `Relay`, each with its own assumptions; that the upstream answers or
  its connection breaks is one about the upstream. axum's graceful shutdown returns
  once nothing is in flight. Start-up, signals and clients owe nothing.

## 6. Proofs

`RouterProofs` proves with TLAPS, from `PoolAssumption` (a non-empty pool, `""`
is no model) and `RouterAssumption` (types of the constants) alone:

| Theorem | Statement |
|---|---|
| `TypeCorrect` | `Spec => []TypeOK` |
| `TierGatesTrue` | a tier-gate entry never marks a pair the plan includes |
| `GivesUpRightly` | a request given up after one attempt could be served by no other account |
| `PinsAreAnswers` | a pin is written only for an account that finally answered that conversation |
| `CooldownsAreEarned` | an account starts to cool only for its own account-wide failure |
| `RouterKeepsContract` | `Router` implements `FailoverContract` |

None of the stated properties is inductive by itself. The strengthening has four layers:

1. `TypeInv`: `TypeOK`, and `LocalsFit` (the locals agree with the place: a
   handler about to cool has a retryable first outcome, and so on), `KeyFits`
   (only requests with a key wait for the store), `ScansReturn` (a finished scan
   has an account).
2. `GatesAreTrue`: gates come from accounts whose plan lacks the model; this is what
   carries `TierGatesTrue` through any interleaving.
3. `ScansFit`: what a scan in progress has established. In pass 2 every offset
   already passed was the excluded account or gated, hence, by layer 2, not
   entitled; `PlusCovers` (from any start the offsets reach every account) turns a
   pass that ended with the excluded account into a fact about the whole pool.
   `GivesUpRightly` needs all three layers, because gates may expire
   between the scan and the answer while entitlement may not.
4. `OwesAnswer` and `TwoAccounts` for the refinement: a running handler has no
   verdict yet, and its alternative is not its primary. `ContractStep` then maps
   each action to a step of the contract or to a stutter.

`PickProofs` proves, from `PoolAssumption`:

| Theorem | Statement |
|---|---|
| `HistoryTypes` | `Spec => []TypeOK` of `PickHistory` |
| `HealthyFirst` | `pick` returns a throughout unusable account only if no other was usable throughout |
| `GatesLast` | `pick` returns a throughout gated account only if every other one was gated at some moment |

`PresentAll` ties the histories to the present (what has been calm throughout is not
cooling now). `KnowsAll` says what the two passes have established: no account
already passed in pass 1 was calm throughout, none passed in pass 2 was open throughout.
At the end of a pass `PlusCovers` of `PoolProofs` (from any start the offsets reach
every account) turns that into a fact about the whole pool.

`CredentialsProofs` proves, from `CredentialsAssumption` (the ticker and
the admin are not handlers, there is a first token, the faults are known kinds) alone:

| Theorem | Statement |
|---|---|
| `CredentialTypes` | `Spec => []TypeOK` |
| `SingleFlight` | if `"cancel" \notin Faults`, one refresh per expiry window |
| `ForcedRefreshHolds` | a forced refresh that reports success has written its tokens, and a dead node keeps them or an older pair a late rename put over them, under every fault |
| `RetryIsNew` | a retry never carries the rejected token, under every fault |
| `ChainRests` | if `Faults = {}`, every state the file may be in at rest holds a live refresh token |

The strengthening, again in layers:

1. `TypeInv` (`TypeOK` and `LocalsFit`) and `OneInside`, the mutex.
2. `SingleFlight` needs only these and that no rename is astray. Its assumption is
   not for the proof's convenience: a dropped handler's rename can land while another task
   refreshes, which `credentials_mutex` shows.
3. `NothingUnminted`: no token anywhere is newer than the endpoint's newest. So
   what a refresh mints is new to everyone, and, by `ForcedFits`, a forced
   refresh keeps a refresh token that no stray request can spend before it is
   on the disk. `ForcedWrites` follows the tokens from the rename to the directory sync:
   once renamed they are among what the disk may hold, and what is in the file is
   they, or older. Older only by a rename of a dropped handler (`StraysAreOfTheDropped`),
   whose tokens `ForcedFits` says are older. This carries `ForcedRefreshHolds`:
   no step reports success but the sync after a rename that was made.
4. `WrittenOnce`: tokens still to be renamed over the file, by a task or astray,
   are in use nowhere, and each by one writer only. A rejected token is in use, so
   no late rename can bring it back; a crash may, but ends every request as well.
   `RetryFits` follows one request from its 401 to its second send.
5. `RestFits`, for `ChainRests`: outside a write every possible content of the file is
   alive, what is being written is alive, and the tokens of a push that waits for
   the mutex are no one else's (`PushIsApart`, which is where `NothingUnminted` is
   needed: they are newer than anything held when the push begins). The assumption
   is necessary: with any one of the four faults TLC finds the chain broken.

`ServerProofs` proves, from `ServerAssumption` and `MaxIntAssumption` (types of the constants):

| Theorem | Statement |
|---|---|
| `ServerTypes` | `Spec => []TypeOK`, gauges in their domain included |
| `FormatsHold` | `Spec => []FormatAsAsked` |
| `ServerKeepsPodContract` | `Server` implements `PodContract` |

The invariant is a record, per client, of what must have happened to its request for
its handler to be where it is (`Fits`): nothing sent before the first token, one
send after a 401 at `refresh`, a success at `buffering`, and so on. `ObservedSound` shows
that no header takes a gauge out of its domain. `PodStepOfOne` then reduces the
refinement to one client's step, since every step of `Server` is of one client or of none.

`RelayProofs` proves, from `RelayAssumption`:

| Theorem | Statement |
|---|---|
| `RelayTypes` | `Spec => []TypeOK` |
| `WritesReset` | only a written frame puts the keepalive off |
| `RelayKeepsContract` | `Relay` implements `StreamContract` |
| `RelayLosesNothing` | a client that is there is written every event it is owed, in order and once |

For the first three, `OutFits` relates the frames in hand to where the loop goes next
(what ends the relay is `[DONE]`, with the error frame before it or not), `EndsFit`
says that a frame of the relay's own is in the pipe only when nothing but the rest of
the ending follows. `RoomForLine` and `ReaderFits` are what the types of the reader need.

What a client is owed is a recursive function of the lines read so far, `Heard`, which knows
neither timer nor pipe. `HInv` says that the relay is at every moment where that
function is: the reader holds the data lines of its open event, the transformer its
state, and what is written and what is in hand make up its frames. `Steady`
carries the rest: the reader's partial line is what the upstream has sent of one, a
ping is in hand alone, and a relay that selects has not ended. All of it is claimed
while the client is there; what is in hand when it leaves is lost. `HeardOneByOne`
unfolds the function by one line, by induction on the lines.

`StreamProofs` proves, from `TransformerAssumption` (no item is no item's name), for any
number of events, tool calls and responses on a stream:

| Theorem | Statement |
|---|---|
| `StreamInv` | `Spec => []IInv`, the invariant behind the others |
| `StreamTypes` | `Spec => []TypeOK` |
| `StreamReassembles` | a client that collects frames by index gets each call under one item, with its own arguments, in order |
| `StreamRoles` | every response that says something is opened by one role chunk |
| `StreamFinishes` | the n-th response finishes with `tool_calls` iff it announced a call |
| `StreamBuffers` | the buffered answer holds exactly what the numbered events of the stream said, whatever number of responses it has |

The properties are about positions in a log of events and in the frames made of it, both of
which grow. `IInv` ties each reader's state to the log it has read. `Follows` says what a
transformer knows of the response that goes on: the index of an item is the rank of its
announcement (`Place`), the next index is their number, and the flags say whether
that response has spoken and announced a call. `Tracks` says what the frames so far are,
and what makes that inductive: an index in them is below the next one, so a call yet to
be announced has no frame, and a payload is past, so one yet to come stands behind all
others. `Buffers` is the same of the accumulators, for the numbered events and without regard
to where a response begins: the calls that were given one index share an accumulator. `Translated` and `Accumulating`
add when a reader has stopped. One more event makes at most two frames, so the
proofs need folds over none, one and two elements only (`FoldNone`, `FoldOne`,
`FoldTwo`); that counts grow by one is from `FiniteSetTheorems`.

`RequestProofs` proves, with no assumption, for ids of any segments and any
values of the effort fields:

| Theorem | Statement |
|---|---|
| `ModelTypes` | a model of `KNOWN_MODELS` is sent, with a known effort or none |
| `KnownServed` | a known id is served as itself, and asks for no effort |
| `SuffixedServed` | a known id with an effort behind it is served as that model, at that effort if it takes it |
| `ExplicitWins` | an explicit effort the model takes is the one sent |

A request is built in one step, so the invariant only says that what was sent is what
the request asks for; the work is in `KnownTakes` (of each model the efforts it
takes and its default) and `FamilyIsKnown` (the chain of substring tests ends
in a known model, whatever the id).

From `TextsAssumption` (no name to rewrite is empty, begins or ends with white space or
holds a line break, as in the table of `request.rs:30-39`; the prompts are texts) and
`ConversationAssumption` (types of the messages a client may send), it proves, for any
texts, names, messages and number of turns:

| Theorem | Statement |
|---|---|
| `HeadsToldApart` | two conversations without an id of their own have one key only if instructions and first words agree |
| `KeyStays` | once the user has spoken, no turn and no other model moves the key, a system message on chat excepted |
| `CacheKeyStays` | a turn leaves the prompt cache key the upstream is given, a system message on Responses excepted |
| `WordsKept` | the messages `Dropped` names are lost; of all others the upstream hears every word, call and output, once and in order, names rewritten where they are to be |

`ConversationInv` says that what was sent and resolved is what the last request gives; it
is inductive at once, and all the work is in the operators. Five arguments carry them:

1. *Loops.* `LoopRuns` gives every recursive function here its values round by
   round, by a least counterexample. From it come `FlatAppends` (one more sequence
   flattens to one more tail), `FlatHas` (nothing is lost in a flattening) and
   `NamesKeepInk`: a text that is not blank is not blank once its names are rewritten.
   So `first_user_text` reads the same message before and after the rewriting, and
   `SegmentsKeepInk` and `SanitizedKeepsInk` say that a message that asked something
   still does in the body.
2. *What is behind does not matter.* `UserTextStays`: the first text of the user is
   found again in any sequence that has grown behind it and changed only where the
   user does not speak. Chat bodies change in front (the developer message with the
   instructions), and need exactly that exception.
3. *A payload can be read back.* `DecimalsApart` (two numbers are written
   differently), `Behind` (a number ends at its colon, for no digit is one),
   `MeasuredApart` (a field ends where its length says) and `PayloadsApart`. The
   mutant `PlainPayload` shows what the lengths are for.
4. *Loops of loops are loops.* `Flat(f, s)` is what a loop makes of the elements of `s`, one
   after the other. `FlatJoins` (two parts are made one by one) and `FlatNests` (a loop
   over what a loop has made is one loop) take the five paths of a message apart:
   `EntriesHeard` and `SanitizedMeans` compare one message with what is sent of it,
   and `ChatHeard`, `OrdersKept` and `ResponsesKept` add them up. `ChatDrops` says that a
   dropped chat message makes no entry. On Responses the code reads the last system
   message where the property passes over the dropped ones: `LastOrderFound` and
   `ResponsesDrop` say that this is the same. `Ink`, the words of a
   text, is such a loop too, so trimming (`TrimKeepsWords`), leaving out empty texts
   (`NonEmptyKeepsWords`) and joining by white space (`JoinKeepsWords`) leave the words alone.
5. *Names do not cross white space at an edge.* On Responses the system texts are joined
   before their names are rewritten, and a chat string is trimmed before. `NamesBehind` says
   that behind a blank text, or one that ends in a line break, a text is rewritten by itself:
   a name that ended behind the border would begin with white space or hold a line
   break. `NamesBefore` says that white space behind a text is left as it is. This is
   what the assumption on names is for: a name that held a line break could be found
   across the border of two joined texts, where neither has it.

Sequences are treated by induction all the same: `Sequences` (a set of sequences that
holds the empty one and, with each, the longer ones is all of them) and `Rounds` (the same
for the rounds of a loop) take a *set* where the induction theorems of the library take an
operator, which no installed prover instantiates; they follow from `Least`.

Only model-checked: the liveness properties, for fairness and ENABLED are out of the
prover's reach. Every invariant and every action property that a passing run checks is
a theorem. No module uses RECURSIVE.

## 7. Where the code and its documents disagree

Checked as violations (`PROJECT.json` `findings`):

* `credentials_mutex`: a handler dropped while its rename waits on the blocking
  pool frees the mutex before the file changes; `refresher.rs:4` says every
  credential operation runs under it.
* `model_effort`: `gpt-5` and `gpt-5-codex` have no default effort, so the clamp
  sends them whatever level it got, `max` included; `model.rs:227-228` says it
  keeps those off.

Read, and described here only:

* A forced refresh does not ask whether the rejected token is still the stored one, so
  requests rejected together rotate the chain once each; ADR 004 section 4 promises
  a double-check. Each of them still ends with new durable tokens
  (`ForcedRefreshIsDurable`, `RetriesWithNewToken`).
* Unknown variants of gpt-5.3 and gpt-5.5 are served as `gpt-5`, against the comment at
  `model.rs:162-164`.
* Names are rewritten "anywhere they appear in prompt/message text"
  (`request.rs:28-29`), but `/v1/responses` leaves string-shaped content and explicit
  instructions as they are.
* An event without a sequence number (absent, null or beyond an i64) reaches a
  streaming client, but its frames say `"created":null`, do not parse as `StreamingChunk`
  and are skipped by `buffer_chat_completion`: its content, reasoning or arguments are
  lost to a buffering client, "matching the streaming path" (`buffered.rs:10-15`) though
  they are meant to. A call it announces still takes an index, so later arguments stand in a
  call without an id. `BufferedIsWhatWasNumbered` states the loss; the upstream numbers
  its events.
* Calls of several responses on one stream that were given one index are merged in a
  buffered chat answer, under the id of the last: the reader of the frames does not see
  where a response begins. `BufferedIsWhatWasNumbered` states that too.
* What a request body loses is named by `Dropped` in `Conversation`. `/v1/responses` drops
  an input that is a string (it is sent as null), and of the system messages all but the
  last, and that one too if its content is no array. Chat drops messages of any role but
  four, "developer" among them, and outputs of tools without a call id. The field of the
  other endpoint is lost on both, though the keys look at it.
* A system message added in mid-conversation changes the key of a chat conversation,
  and the instructions field of a Responses request is no part of its key; the
  conversation moves to another pin, which costs a cache, not an answer.
* The gauges of a window are set one after the other, and responses are observed in the
  order they arrive: `/metrics` may mix two responses, and an older one may win.
* `oauth.rs:15` and `admin.rs:81` subtract from an expiry an operator may have pushed:
  near the least i64 the difference overflows (a panic in a debug build, a token
  that seems to last in a release build).
* A crash or a dropped handler between `create_new` and the rename leaves a temporary file
  beside `auth.json`, which nothing removes.
* The `_` arm after the second pick (`router.rs:520`) is reached with two and
  more accounts, when every other one is gated.
* An alternative whose connection fails is not cooled (`router.rs:492-496`, on
  purpose), against ADR 007.
* A `Terminal` answer pins even if it is a plain 400 or 401 (`router.rs:470`).
* The README of the repository says the token chain survives pod restarts: not one
  between the endpoint's rotation and the rename, nor a lost reply. `ChainAtRest`
  is checked without those faults.
* `buffer_chat_completion` fails on an event without a `type`, which the relay
  tolerates and `buffered.rs:301-302` says it tolerates too.
* `response.failed` and `response.incomplete` are unknown to the transformer: a
  buffered chat answer ends with "stop", a streamed one with `[DONE]` only, as
  does a chat stream cut off without an error.

## 8. Not modelled

* Process start-up is modelled in part: not the tracing set-up and its export, which no
  other part reads, nor the credential check at start, whose result is only logged
  and whose effect is one more request of `Credentials`.
* The answers that the properties of `Server` leave aside: `FormatAsAsked` speaks of status
  200. Another success is mirrored as it is, so a caller that wanted an object is given
  the event stream of a 202; nothing says it should be otherwise.
* In request bodies: tool definitions and tool choice, the reasoning summary, and the
  fields `/v1/responses` copies or drops one by one. They are a table without control, in
  which no field depends on another.
* In the HTTP server: the access log, trace propagation, header lists and the
  wording of error bodies. In the metrics: the second window, span attributes and
  the text format.
* Inside modelled parts: ids, usage figures and timestamps of chunks, header
  lists, file permissions, log lines, the counters that only feed log lines.

## 9. Plan

Done in order of importance: router and pool, credentials, event streams, relay,
model choice, request bodies and conversations, the server and its two handlers; then
theorems about each of them that the prover reaches. What remains:

1. Two routers over one store, and pods (`Server`, `Credentials`) behind a router in one
   composition: the contracts of section 4 are the interfaces to compose.
2. The tool definitions and the whitelist of `/v1/responses` as operators.
