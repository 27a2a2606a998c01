------------------------------ MODULE AccountPool ------------------------------
(***************************************************************************)
(* The router's account pool (router.rs, AccountPool): the accounts in     *)
(* configuration order, the round-robin counter, and the two cooldown      *)
(* maps.  Handlers of different requests run on different threads.  The    *)
(* counter is an atomic and every is_cooling / is_model_cooling call takes *)
(* and releases a mutex of its own, so `pick` is not atomic: it is one     *)
(* fetch_add followed by a scan that looks at one map entry per step.      *)
(*                                                                         *)
(* Accounts are the positions 0..N-1 (parse rejects duplicate slugs and    *)
(* duplicate urls, so a position, a slug and a pod are the same thing).    *)
(* Time is abstracted: a cooldown entry is a member of a set from the      *)
(* insert until an expiry step, which may come at any moment.              *)
(***************************************************************************)
EXTENDS Integers

CONSTANTS
  N,        \* number of accounts in the pool
  Models,   \* the model names requests carry
  NoModel,  \* the empty string: a request without a `model` field
  Tasks     \* the request handlers that may be running

\* parse() refuses an empty pool; "" is no model name.
ASSUME PoolAssumption == N \in Nat \ {0} /\ NoModel \notin Models

Account == 0..(N - 1)
NoAccount == -1                       \* Option::None
AnyModel == Models \union {NoModel}

VARIABLES
  next,          \* the round-robin counter, modulo N
  cooling,       \* the accounts whose cooldown_until lies in the future
  modelCooling,  \* the (account, model) pairs cooling in model_cooldown_until
  scan           \* per handler, the progress of its call of pick

poolVars == <<next, cooling, modelCooling, scan>>

(***************************************************************************)
(* A call of pick.  "health" and "tier" are the two lock acquisitions per  *)
(* candidate of pass 1, "retier" the one of pass 2.                        *)
(***************************************************************************)
Phases == {"off", "health", "tier", "retier", "done"}

Scan == [phase: Phases, start: Account, i: Account,
         exclude: Account \union {NoAccount}, model: AnyModel,
         result: Account \union {NoAccount}]

NoScan == [phase |-> "off", start |-> 0, i |-> 0, exclude |-> NoAccount,
           model |-> NoModel, result |-> NoAccount]

PoolTypeOK ==
  /\ next \in Account
  /\ cooling \in SUBSET Account
  /\ modelCooling \in SUBSET (Account \X AnyModel)
  /\ scan \in [Tasks -> Scan]

PoolInit ==
  /\ next = 0
  /\ cooling = {}
  /\ modelCooling = {}
  /\ scan = [t \in Tasks |-> NoScan]

\* Bug: the index is used without the modulus.
PlusUnwrapped(n, k) == n + k

\* (n + k) % N for n and k below N.
Plus(n, k) == IF n + k < N THEN n + k ELSE n + k - N

Candidate(s) == Plus(s.start, s.i)

\* is_model_cooling: a request that names no model is never gated.
ModelGated(a, m) == m # NoModel /\ <<a, m>> \in modelCooling

\* The entry cooldown_model adds: none at all for the empty model.
GateEntry(a, m) == IF m = NoModel THEN {} ELSE {<<a, m>>}

\* Bug: the last candidate of a pass is never looked at.
SkipTooSoon(s) ==
  IF s.i + 2 < N
  THEN [s EXCEPT !.i = s.i + 1,
                 !.phase = IF s.phase = "retier" THEN "retier" ELSE "health"]
  ELSE IF s.phase = "retier"
       THEN [s EXCEPT !.phase = "done", !.result = 0]
       ELSE [s EXCEPT !.phase = "retier", !.i = 0]

\* Bug: there is no pass 3, the scan goes round until some account will do.
SkipForever(s) ==
  IF s.i + 1 < N
  THEN [s EXCEPT !.i = s.i + 1,
                 !.phase = IF s.phase = "retier" THEN "retier" ELSE "health"]
  ELSE [s EXCEPT !.phase = "retier", !.i = 0]

\* `continue`: the next candidate of the pass; at its end pass 2, and after
\* pass 2 the first account of the pool, whatever is known about it.
Skip(s) ==
  IF s.i + 1 < N
  THEN [s EXCEPT !.i = s.i + 1,
                 !.phase = IF s.phase = "retier" THEN "retier" ELSE "health"]
  ELSE IF s.phase = "retier"
       THEN [s EXCEPT !.phase = "done", !.result = 0]
       ELSE [s EXCEPT !.phase = "retier", !.i = 0]

Take(s) == [s EXCEPT !.phase = "done", !.result = Candidate(s)]

-----------------------------------------------------------------------------
(* The steps of pick *)

StartScan(t, exclude, m) ==
  /\ scan' = [scan EXCEPT ![t] = [NoScan EXCEPT !.phase = "health", !.start = next,
                                                !.exclude = exclude, !.model = m]]
  /\ next' = Plus(next, 1 % N)
  /\ UNCHANGED <<cooling, modelCooling>>

\* Pass 1: the `exclude` comparison, then is_cooling.
CheckHealth(t) ==
  LET s == scan[t]
      a == Candidate(s)
  IN /\ s.phase = "health"
     /\ scan' = [scan EXCEPT ![t] =
                   IF a = s.exclude \/ a \in cooling THEN Skip(s)
                   ELSE [s EXCEPT !.phase = "tier"]]
     /\ UNCHANGED <<next, cooling, modelCooling>>

\* Pass 1: is_model_cooling, under another acquisition of another lock.
CheckTier(t) ==
  LET s == scan[t]
  IN /\ s.phase = "tier"
     /\ scan' = [scan EXCEPT ![t] =
                   IF ModelGated(Candidate(s), s.model) THEN Skip(s) ELSE Take(s)]
     /\ UNCHANGED <<next, cooling, modelCooling>>

\* Bug: pass 2 ignores every cooldown, the tier gate included.
CheckTierAgainForgets(t) ==
  LET s == scan[t]
      a == Candidate(s)
  IN /\ s.phase = "retier"
     /\ scan' = [scan EXCEPT ![t] = IF a = s.exclude THEN Skip(s) ELSE Take(s)]
     /\ UNCHANGED <<next, cooling, modelCooling>>

\* Bug: pass 2 minds the account-wide cooldown.
CheckTierAgainHealthy(t) ==
  LET s == scan[t]
      a == Candidate(s)
  IN /\ s.phase = "retier"
     /\ scan' = [scan EXCEPT ![t] =
                   IF a = s.exclude \/ a \in cooling \/ ModelGated(a, s.model) THEN Skip(s) ELSE Take(s)]
     /\ UNCHANGED <<next, cooling, modelCooling>>

\* Pass 2: the account-wide cooldown is ignored, the tier gate is not.
CheckTierAgain(t) ==
  LET s == scan[t]
      a == Candidate(s)
  IN /\ s.phase = "retier"
     /\ scan' = [scan EXCEPT ![t] =
                   IF a = s.exclude \/ ModelGated(a, s.model) THEN Skip(s) ELSE Take(s)]
     /\ UNCHANGED <<next, cooling, modelCooling>>

ScanStep(t) == CheckHealth(t) \/ CheckTier(t) \/ CheckTierAgain(t)

-----------------------------------------------------------------------------
(* Cooldowns *)

Cooldown(a) ==
  /\ cooling' = cooling \union {a}
  /\ UNCHANGED modelCooling

CooldownModel(a, m) ==
  /\ modelCooling' = modelCooling \union GateEntry(a, m)
  /\ UNCHANGED cooling

\* COOLDOWN has passed since the last insert.
CooldownExpires(a) ==
  /\ a \in cooling
  /\ cooling' = cooling \ {a}
  /\ UNCHANGED <<next, modelCooling, scan>>

ModelCooldownExpires(pair) ==
  /\ pair \in modelCooling
  /\ modelCooling' = modelCooling \ {pair}
  /\ UNCHANGED <<next, cooling, scan>>
=============================================================================
