-------------------------------- MODULE Router --------------------------------
(***************************************************************************)
(* The router-mode handler (router.rs, proxy) of every request in flight,  *)
(* over the shared account pool (AccountPool) and the affinity store       *)
(* (affinity.rs).  A handler is a task that yields at each await -- the    *)
(* store's GET, SET and DEL and the two proxied sends -- and runs in       *)
(* parallel with the others between them.  A client that disconnects has   *)
(* its handler dropped at one of those awaits.                             *)
(*                                                                         *)
(* External, as the handler sees them: the pods (an attempt ends in one of *)
(* five ways), the store (any operation may fail, a command whose reply is *)
(* lost may still have been executed, a pin may expire), the clients.      *)
(***************************************************************************)
EXTENDS AccountPool, Sequences

CONSTANTS
  Conversations,   \* conversation keys
  NoConversation,  \* the request has no key (no messages, no header)
  Affinity,        \* whether a store is configured (state.affinity)
  Bodies,          \* the (conversation key, model) of the requests that may arrive
  Entitled         \* the (account, model) pairs the ChatGPT plans include

ASSUME RouterAssumption ==
  /\ NoConversation \notin Conversations
  /\ Affinity \in BOOLEAN
  /\ Bodies \in SUBSET ((Conversations \union {NoConversation}) \X AnyModel)
  /\ Entitled \in SUBSET (Account \X AnyModel)

\* A pin stores a slug; the pool may have lost that slug in a redeployment.
UnknownSlug == N
Slug == Account \union {UnknownSlug}
NoPin == -1

(***************************************************************************)
(* How an attempt ends, by what `classify` makes of it:                    *)
(*   ok, denied    Terminal: a success; any other final status, a plain    *)
(*                 400 (or one whose body could not be read) included      *)
(*   busy          Retry, account-wide: 429 or 5xx                         *)
(*   gate          Retry, this model only: 400 with the tier-gate marker   *)
(*   unreachable   Retry with no response at all: the send failed          *)
(***************************************************************************)
Terminal == {"ok", "denied"}
AccountWide == {"busy", "unreachable"}
Retry == AccountWide \union {"gate"}
Outcome == Terminal \union Retry
Pending == "pending"                  \* the attempt has not come back

\* An account gates exactly the models its plan does not include.
PodOutcome(a, m) ==
  {"denied", "busy", "unreachable"} \union (IF <<a, m>> \in Entitled THEN {"ok"} ELSE {"gate"})

VARIABLES
  pc,       \* where each handler is
  conv,     \* its conversation key
  model,    \* the model its body names
  slug,     \* the pin it read
  account,  \* its primary account
  first,    \* how the primary attempt ended
  alt,      \* its alternative account
  second,   \* how the alternative attempt ended
  reply,    \* what its client got
  pins      \* the affinity store: the slug each conversation is pinned to

taskVars == <<conv, model, slug, account, first, alt, second, reply>>
vars == <<next, cooling, modelCooling, scan, pc, conv, model, slug, account,
          first, alt, second, reply, pins>>

Replies == {"open", "dropped", "internal"} \union (Outcome \ {"unreachable"})

\* The awaits: GET, primary send, SET, DEL, alternative send, SET.
Awaits == {"lookup", "primary", "pin", "clear", "alt", "repin"}
PCs == Awaits \union {"idle", "pinHealth", "pinTier", "pick", "picking", "cool",
                      "repick", "repicking", "coolAlt", "respond"}

TypeOK ==
  /\ PoolTypeOK
  /\ pc \in [Tasks -> PCs]
  /\ conv \in [Tasks -> Conversations \union {NoConversation}]
  /\ model \in [Tasks -> AnyModel]
  /\ slug \in [Tasks -> Slug \union {NoPin}]
  /\ account \in [Tasks -> Account \union {NoAccount}]
  /\ first \in [Tasks -> Outcome \union {Pending}]
  /\ alt \in [Tasks -> Account \union {NoAccount}]
  /\ second \in [Tasks -> Outcome \union {Pending}]
  /\ reply \in [Tasks -> Replies]
  /\ pins \in [Conversations -> Slug \union {NoPin}]

\* Pins may be left from before the router started.
Init ==
  /\ PoolInit
  /\ pc = [t \in Tasks |-> "idle"]
  /\ conv = [t \in Tasks |-> NoConversation]
  /\ model = [t \in Tasks |-> NoModel]
  /\ slug = [t \in Tasks |-> NoPin]
  /\ account = [t \in Tasks |-> NoAccount]
  /\ first = [t \in Tasks |-> Pending]
  /\ alt = [t \in Tasks |-> NoAccount]
  /\ second = [t \in Tasks |-> Pending]
  /\ reply = [t \in Tasks |-> "open"]
  /\ pins \in [Conversations -> Slug \union {NoPin}]

\* The handler has returned, or was dropped: its locals are gone.
Ended(t) ==
  /\ conv' = [conv EXCEPT ![t] = NoConversation]
  /\ model' = [model EXCEPT ![t] = NoModel]
  /\ slug' = [slug EXCEPT ![t] = NoPin]
  /\ account' = [account EXCEPT ![t] = NoAccount]
  /\ first' = [first EXCEPT ![t] = Pending]
  /\ alt' = [alt EXCEPT ![t] = NoAccount]
  /\ second' = [second EXCEPT ![t] = Pending]
  /\ pc' = [pc EXCEPT ![t] = "idle"]

\* `if let (Some(store), Some(key))`.  maybe_pin also skips a request whose
\* account_source is "fallback", which says again that there is no store.
Stored(t) == Affinity /\ conv[t] # NoConversation

Goto(t, place) == pc' = [pc EXCEPT ![t] = place]
At(t, place) == pc[t] = place

-----------------------------------------------------------------------------
(* A request arrives and its primary account is chosen *)

Arrive(t, c, m) ==
  /\ At(t, "idle")
  /\ conv' = [conv EXCEPT ![t] = c]
  /\ model' = [model EXCEPT ![t] = m]
  /\ reply' = [reply EXCEPT ![t] = "open"]
  /\ Goto(t, IF Affinity /\ c # NoConversation THEN "lookup" ELSE "pick")
  /\ UNCHANGED <<poolVars, slug, account, first, alt, second, pins>>

\* store.get: a failed GET reads as a miss.
Lookup(t) ==
  /\ At(t, "lookup")
  /\ \E s \in {pins[conv[t]], NoPin} :
       /\ slug' = [slug EXCEPT ![t] = s]
       /\ Goto(t, IF s = NoPin THEN "pick" ELSE "pinHealth")
  /\ UNCHANGED <<poolVars, conv, model, account, first, alt, second, reply, pins>>

\* pinned_slug is not looked at again.
NoUsablePin(t) ==
  /\ slug' = [slug EXCEPT ![t] = NoPin]
  /\ Goto(t, "pick")

\* pool.pinned: is_cooling, then is_model_cooling and the search for the slug.
PinHealth(t) ==
  /\ At(t, "pinHealth")
  /\ IF slug[t] \in cooling THEN NoUsablePin(t) ELSE Goto(t, "pinTier") /\ UNCHANGED slug
  /\ UNCHANGED <<poolVars, conv, model, account, first, alt, second, reply, pins>>

PinUsable(t) == slug[t] \in Account /\ ~ModelGated(slug[t], model[t])

UsePin(t) ==
  /\ At(t, "pinTier")
  /\ PinUsable(t)
  /\ account' = [account EXCEPT ![t] = slug[t]]
  /\ slug' = [slug EXCEPT ![t] = NoPin]
  /\ Goto(t, "primary")
  /\ UNCHANGED <<poolVars, conv, model, first, alt, second, reply, pins>>

RefusePin(t) ==
  /\ At(t, "pinTier")
  /\ ~PinUsable(t)
  /\ NoUsablePin(t)
  /\ UNCHANGED <<poolVars, conv, model, account, first, alt, second, reply, pins>>

BeginPick(t) ==
  /\ At(t, "pick")
  /\ StartScan(t, NoAccount, model[t])
  /\ Goto(t, "picking")
  /\ UNCHANGED <<taskVars, pins>>

PickOn(t) ==
  /\ pc[t] \in {"picking", "repicking"}
  /\ ScanStep(t)
  /\ UNCHANGED <<pc, taskVars, pins>>

Picked(t) ==
  /\ At(t, "picking")
  /\ scan[t].phase = "done"
  /\ account' = [account EXCEPT ![t] = scan[t].result]
  /\ scan' = [scan EXCEPT ![t] = NoScan]
  /\ Goto(t, "primary")
  /\ UNCHANGED <<next, cooling, modelCooling, conv, model, slug, first, alt, second,
                 reply, pins>>

-----------------------------------------------------------------------------
(* The primary attempt and what follows its failure *)

PrimaryReturns(t, o) ==
  /\ At(t, "primary")
  /\ first' = [first EXCEPT ![t] = o]
  /\ Goto(t, IF o \in Retry THEN "cool"
             ELSE IF Stored(t) THEN "pin" ELSE "respond")
  /\ UNCHANGED <<poolVars, conv, model, slug, account, alt, second, reply, pins>>

\* A store command takes effect, or fails, or takes effect and reports failure.
Put(c, s) == pins' \in {pins, [pins EXCEPT ![c] = s]}

PinPrimary(t) ==
  /\ At(t, "pin")
  /\ Put(conv[t], account[t])
  /\ Goto(t, "respond")
  /\ UNCHANGED <<poolVars, taskVars>>

\* Bug: only a 429 or 5xx cools the account, any other failure its model.
CoolForWrongScope(a, m, o) == IF o # "busy" THEN CooldownModel(a, m) ELSE Cooldown(a)

\* The scope of the cooldown follows the kind of failure.
CoolFor(a, m, o) == IF o = "gate" THEN CooldownModel(a, m) ELSE Cooldown(a)

CoolPrimary(t) ==
  /\ At(t, "cool")
  /\ CoolFor(account[t], model[t], first[t])
  /\ Goto(t, IF Stored(t) THEN "clear" ELSE "repick")
  /\ UNCHANGED <<next, scan, taskVars, pins>>

\* store.clear: the conversation's pin goes, whichever account it names by now.
ClearPin(t) ==
  /\ At(t, "clear")
  /\ Put(conv[t], NoPin)
  /\ Goto(t, "repick")
  /\ UNCHANGED <<poolVars, taskVars>>

BeginRepick(t) ==
  /\ At(t, "repick")
  /\ StartScan(t, account[t], model[t])
  /\ Goto(t, "repicking")
  /\ UNCHANGED <<taskVars, pins>>

\* `Some(alt) if alt.slug != account.slug`
Repicked(t) ==
  /\ At(t, "repicking")
  /\ scan[t].phase = "done"
  /\ scan[t].result # account[t]
  /\ alt' = [alt EXCEPT ![t] = scan[t].result]
  /\ scan' = [scan EXCEPT ![t] = NoScan]
  /\ Goto(t, "alt")
  /\ UNCHANGED <<next, cooling, modelCooling, conv, model, slug, account, first, second, reply, pins>>

\* `_ =>` the primary's own response, or an error, goes to the client.
NothingElse(t) ==
  /\ At(t, "repicking")
  /\ scan[t].phase = "done"
  /\ scan[t].result = account[t]
  /\ scan' = [scan EXCEPT ![t] = NoScan]
  /\ Goto(t, "respond")
  /\ UNCHANGED <<next, cooling, modelCooling, taskVars, pins>>

AltReturns(t, o) ==
  /\ At(t, "alt")
  /\ second' = [second EXCEPT ![t] = o]
  /\ Goto(t, IF o = "unreachable" THEN "respond"
             ELSE IF o \in Retry THEN "coolAlt"
             ELSE IF Stored(t) THEN "repin" ELSE "respond")
  /\ UNCHANGED <<poolVars, conv, model, slug, account, first, alt, reply, pins>>

\* Bug: the conversation is pinned to its first account again.
PinAltToPrimary(t) ==
  /\ At(t, "repin")
  /\ Put(conv[t], account[t])
  /\ Goto(t, "respond")
  /\ UNCHANGED <<poolVars, taskVars>>

PinAlt(t) ==
  /\ At(t, "repin")
  /\ Put(conv[t], alt[t])
  /\ Goto(t, "respond")
  /\ UNCHANGED <<poolVars, taskVars>>

\* Bug: the primary is cooled for the alternative's failure.
CoolAltWrongAccount(t) ==
  /\ At(t, "coolAlt")
  /\ CoolFor(account[t], model[t], second[t])
  /\ Goto(t, "respond")
  /\ UNCHANGED <<next, scan, taskVars, pins>>

CoolAlt(t) ==
  /\ At(t, "coolAlt")
  /\ CoolFor(alt[t], model[t], second[t])
  /\ Goto(t, "respond")
  /\ UNCHANGED <<next, scan, taskVars, pins>>

OrError(o) == IF o = "unreachable" THEN "internal" ELSE o

\* Bug: an alternative that cannot be reached hides what the primary said.
ReplyOfLast(t) == IF second[t] # Pending THEN OrError(second[t]) ELSE OrError(first[t])

\* The response of the last attempt that completed; with none, an error.
ReplyOf(t) ==
  IF second[t] \notin {Pending, "unreachable"} THEN second[t] ELSE OrError(first[t])

Respond(t) ==
  /\ At(t, "respond")
  /\ reply' = [reply EXCEPT ![t] = ReplyOf(t)]
  /\ Ended(t)
  /\ UNCHANGED <<poolVars, pins>>

-----------------------------------------------------------------------------
(* The environment *)

\* The command a dropped handler was waiting for may already be on its way.
LateEffect(t) ==
  \/ UNCHANGED pins
  \/ At(t, "pin") /\ Put(conv[t], account[t])
  \/ At(t, "repin") /\ Put(conv[t], alt[t])
  \/ At(t, "clear") /\ Put(conv[t], NoPin)

Disconnect(t) ==
  /\ pc[t] \in Awaits
  /\ LateEffect(t)
  /\ reply' = [reply EXCEPT ![t] = "dropped"]
  /\ Ended(t)
  /\ UNCHANGED poolVars

\* The router process restarts: cooldowns and handlers go, pins stay.
Restart ==
  /\ next' = 0
  /\ cooling' = {}
  /\ modelCooling' = {}
  /\ scan' = [t \in Tasks |-> NoScan]
  /\ pc' = [t \in Tasks |-> "idle"]
  /\ conv' = [t \in Tasks |-> NoConversation]
  /\ model' = [t \in Tasks |-> NoModel]
  /\ slug' = [t \in Tasks |-> NoPin]
  /\ account' = [t \in Tasks |-> NoAccount]
  /\ first' = [t \in Tasks |-> Pending]
  /\ alt' = [t \in Tasks |-> NoAccount]
  /\ second' = [t \in Tasks |-> Pending]
  /\ reply' = [t \in Tasks |-> IF At(t, "idle") THEN reply[t] ELSE "dropped"]
  /\ UNCHANGED pins

CoolingEnds ==
  /\ \/ \E a \in Account : CooldownExpires(a)
     \/ \E pair \in modelCooling : ModelCooldownExpires(pair)
  /\ UNCHANGED <<pc, taskVars, pins>>

PinExpires(c) ==
  /\ pins[c] # NoPin
  /\ pins' = [pins EXCEPT ![c] = NoPin]
  /\ UNCHANGED <<poolVars, pc, taskVars>>

-----------------------------------------------------------------------------
(* The specification *)

Step(t) ==
  \/ Lookup(t) \/ PinHealth(t) \/ UsePin(t) \/ RefusePin(t)
  \/ BeginPick(t) \/ PickOn(t) \/ Picked(t)
  \/ \E o \in PodOutcome(account[t], model[t]) : PrimaryReturns(t, o)
  \/ PinPrimary(t) \/ CoolPrimary(t) \/ ClearPin(t)
  \/ BeginRepick(t) \/ Repicked(t) \/ NothingElse(t)
  \/ \E o \in PodOutcome(alt[t], model[t]) : AltReturns(t, o)
  \/ PinAlt(t) \/ CoolAlt(t) \/ Respond(t)

Next ==
  \/ \E t \in Tasks, b \in Bodies : Arrive(t, b[1], b[2])
  \/ \E t \in Tasks : Step(t)
  \/ \E t \in Tasks : Disconnect(t)
  \/ CoolingEnds
  \/ \E c \in Conversations : PinExpires(c)
  \/ Restart

Spec == Init /\ [][Next]_vars

\* The runtime keeps polling a handler that can go on.  That an await ends is
\* an assumption about the pods and the store: the client has a connect timeout
\* but no read timeout.
FairSpec == Spec /\ \A t \in Tasks : WF_vars(Step(t))

-----------------------------------------------------------------------------
(* Safety *)

\* A tier-gate cooldown is a fact about an account and a model (router.rs:44):
\* no interleaving, cancellation or failure marks a pair the plan does include,
\* and a request without a model marks nothing (router.rs:160).
TierGateCooldownsAreTrue ==
  modelCooling \subseteq (Account \X Models) \ Entitled

\* A handler gives up after one attempt (router.rs:520) only if no other account
\* of the pool is entitled to the model: the request was not dropped while some
\* account might have served it, cooling or not.
GivesUpOnlyIfNobodyElse ==
  \A t \in Tasks :
    At(t, "respond") /\ first[t] \in Retry /\ second[t] = Pending
      => \A b \in Account \ {account[t]} : <<b, model[t]>> \notin Entitled

\* A pin is only ever written for an account that gave this conversation a final
\* answer (router.rs:470): never for one whose attempt failed retryably, even
\* when several turns of the conversation fail over at once.
FinalAnswerFrom(t, s) ==
  \/ account[t] = s /\ first[t] \in Terminal
  \/ alt[t] = s /\ second[t] \in Terminal

PinsFollowAnswers ==
  [][\A c \in Conversations :
       pins'[c] # pins[c] /\ pins'[c] # NoPin
         => \E t \in Tasks : conv[t] = c /\ FinalAnswerFrom(t, pins'[c])]_vars

\* An account starts to cool for everyone only when its own attempt failed
\* account-wide (router.rs:452): a tier-gate 400 or the other account's failure
\* in the same request never takes it out of rotation.
FailedAccountWide(t, a) ==
  \/ account[t] = a /\ first[t] \in AccountWide
  \/ alt[t] = a /\ second[t] \in AccountWide

CoolsOnlyTheFailed ==
  [][\A a \in cooling' \ cooling : \E t \in Tasks : FailedAccountWide(t, a)]_vars

\* What the client of a request is promised (FailoverContract): two attempts at
\* most, on different accounts, and the last word an account really spoke.
Tried(t) ==
  LET one == [account |-> account[t], outcome |-> first[t]]
      two == [account |-> alt[t], outcome |-> second[t]]
  IN IF first[t] = Pending THEN <<>> ELSE IF second[t] = Pending THEN <<one>> ELSE Append(<<one>>, two)

Contract == INSTANCE FailoverContract WITH
  Requests <- Tasks, Accounts <- Account, Outcomes <- Outcome, Retryable <- Retry,
  Unreachable <- "unreachable", Internal <- "internal", Open <- "open",
  Dropped <- "dropped", tried <- [t \in Tasks |-> Tried(t)], verdict <- reply

\* Router mode keeps that promise (router.rs:370).
KeepsContract == Contract!Spec

-----------------------------------------------------------------------------
(* Liveness *)

\* Every request is answered, or its client or the router went away first: the
\* three passes of pick and the two attempts always come to an end, whatever the
\* other handlers do to the cooldowns meanwhile (router.rs:183).
EventuallyAnswered == \A t \in Tasks : ~At(t, "idle") ~> At(t, "idle") /\ reply[t] # "open"
=============================================================================
