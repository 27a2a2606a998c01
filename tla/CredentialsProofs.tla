--------------------------- MODULE CredentialsProofs ---------------------------
(***************************************************************************)
(* Theorems about Credentials, for any number of handlers, any bound on    *)
(* the tokens and any set of faults: types, single flight, and what a 401  *)
(* and the refresh it forces can rely on.                                  *)
(***************************************************************************)
EXTENDS Credentials, TLAPS

\* Writing auth.json.
Persisting == {"stage", "rename", "sync"}

\* The locals agree with the place a task is at.
LocalsFit ==
  \A t \in Tasks :
    /\ at[t] \in {"idle", "send"} <=> op[t] = "none"
    /\ at[t] = "send" => t \in Handlers /\ token[t] \in Gen
    /\ at[t] = "refresh" => op[t] \in {"get", "force", "tick"} /\ held[t] \in Tokens
    /\ at[t] \in Persisting => op[t] \in {"get", "force", "tick", "push"} /\ got[t] \in Tokens
    /\ op[t] = "push" => got[t] \in Tokens

\* The mutex: one task at a time is inside.
OneInside ==
  \A t, u \in Tasks : at[t] \in Inside /\ at[u] \in Inside => t = u

TypeInv == TypeOK /\ LocalsFit

-----------------------------------------------------------------------------
(* Types *)

\* The tasks start idle, on an empty or a seeded volume.
LEMMA TypeInvInit == Init => TypeInv
  BY CredentialsAssumption DEF Init, TypeInv, TypeOK, LocalsFit, NoTokens, None,
     Tokens, Gen, Tasks, Inside, Places, Ops, OpsOf, Persisting

\* What the endpoint mints is within the bound.
LEMMA MintTyped ==
  ASSUME TypeOK, NEW R \in SUBSET (Gen \union {minted + 1}), NEW lifetime, Mint(R, lifetime)
  PROVE  minted + 1 \in Gen /\ minted' \in Gen /\ live' \in SUBSET Gen /\ due' \in SUBSET Gen
  BY CredentialsAssumption DEF Mint, TypeOK, Gen

\* Every step keeps the types, and the locals at one with the place.
LEMMA TypeInvNext == TypeInv /\ [Next]_vars => TypeInv'
  <1> SUFFICES ASSUME TypeInv, [Next]_vars PROVE TypeInv'
    OBVIOUS
  <1> USE CredentialsAssumption DEF TypeInv, Goto, At, taskVars, diskVars,
           endpointVars, Inside, Places, Ops, OpsOf, Persisting, Tasks
  <1>1. CASE Arrivals
    <2>1. ASSUME NEW h \in Handlers, Request(h)
          PROVE  TypeInv'
      <3>1. TypeOK'
        BY <2>1 DEF Request, Ask, TypeOK, LocalsFit, Tokens, Gen, None, NoTokens
      <3>2. LocalsFit'
        BY <2>1 DEF Request, Ask, TypeOK, LocalsFit, Tokens, Gen, NoTokens
      <3> QED
        BY <3>1, <3>2
    <2>2. CASE Tick
      <3>1. TypeOK'
        BY <2>2 DEF Tick, Ask, TypeOK, LocalsFit, Tokens, Gen, None, NoTokens
      <3>2. LocalsFit'
        BY <2>2 DEF Tick, Ask, TypeOK, LocalsFit, Tokens, Gen, NoTokens
      <3> QED
        BY <3>1, <3>2
    <2>3. ASSUME NEW lifetime \in {"short", "long"}, Push(lifetime)
          PROVE  TypeInv'
      <3>1. TypeOK'
        BY <2>3 DEF Push, Ask, Mint, TypeOK, LocalsFit, Tokens, Gen, None, NoTokens
      <3>2. LocalsFit'
        BY <2>3 DEF Push, Ask, Mint, TypeOK, LocalsFit, Tokens, Gen, NoTokens
      <3> QED
        BY <3>1, <3>2
    <2>4. CASE Status
      <3>1. TypeOK'
        BY <2>4 DEF Status, Ask, TypeOK, LocalsFit, Tokens, Gen, None, NoTokens
      <3>2. LocalsFit'
        BY <2>4 DEF Status, Ask, TypeOK, LocalsFit, Tokens, Gen, NoTokens
      <3> QED
        BY <3>1, <3>2
    <2> QED
      BY <1>1, <2>1, <2>2, <2>3, <2>4 DEF Arrivals
  <1>2. ASSUME NEW t \in Tasks, Acquire(t)
        PROVE  TypeInv'
    <2>1. TypeOK'
      BY <1>2 DEF Acquire, TypeOK
    <2>2. LocalsFit'
      BY <1>2 DEF Acquire, TypeOK, LocalsFit, Tokens, Gen, NoTokens
    <2> QED
      BY <2>1, <2>2
  <1>3. ASSUME NEW t \in Tasks, Locked(t)
        PROVE  TypeInv'
    <2>1. CASE ReadFresh(t)
      <3>1. TypeOK'
        BY <2>1 DEF ReadFresh, Readable, Return, Finish, TypeOK, LocalsFit, Tokens,
           Gen, None, NoTokens
      <3>2. LocalsFit'
        BY <2>1 DEF ReadFresh, Readable, Return, Finish, TypeOK, LocalsFit, Tokens,
           Gen, NoTokens
      <3> QED
        BY <3>1, <3>2
    <2>2. CASE ReadToRefresh(t)
      <3>1. TypeOK'
        BY <2>2 DEF ReadToRefresh, Readable, TypeOK, LocalsFit, Tokens, Gen, None,
           NoTokens
      <3>2. LocalsFit'
        BY <2>2 DEF ReadToRefresh, Readable, TypeOK, LocalsFit, Tokens, Gen, NoTokens
      <3> QED
        BY <3>1, <3>2
    <2>3. CASE ReadFails(t)
      <3>1. TypeOK'
        BY <2>3 DEF ReadFails, Finish, TypeOK, LocalsFit, Tokens, Gen, None, NoTokens
      <3>2. LocalsFit'
        BY <2>3 DEF ReadFails, Finish, TypeOK, LocalsFit, Tokens, Gen, NoTokens
      <3> QED
        BY <3>1, <3>2
    <2>4. CASE ReadStatus(t)
      <3>1. TypeOK'
        BY <2>4 DEF ReadStatus, Finish, TypeOK, LocalsFit, Tokens, Gen, None, NoTokens
      <3>2. LocalsFit'
        BY <2>4 DEF ReadStatus, Finish, TypeOK, LocalsFit, Tokens, Gen, NoTokens
      <3> QED
        BY <3>1, <3>2
    <2>5. ASSUME NEW namesUser \in BOOLEAN, AcceptPush(t, namesUser)
          PROVE  TypeInv'
      <3>1. TypeOK'
        BY <2>5 DEF AcceptPush, Finish, TypeOK, LocalsFit, Tokens, Gen, None, NoTokens
      <3>2. LocalsFit'
        BY <2>5 DEF AcceptPush, Finish, TypeOK, LocalsFit, Tokens, Gen, NoTokens
      <3> QED
        BY <3>1, <3>2
    <2>6. ASSUME NEW rotates \in BOOLEAN, NEW lifetime \in {"short", "long"},
                 Refreshed(t, rotates, lifetime)
          PROVE  TypeInv'
      <3>m. minted + 1 \in Gen /\ minted' \in Gen /\ live' \in SUBSET Gen /\ due' \in SUBSET Gen
        BY <2>6, MintTyped DEF Refreshed, TypeOK, Mint
      <3>g. [access |-> minted + 1, refresh |-> IF rotates THEN minted + 1 ELSE held[t].refresh] \in Tokens
        BY <2>6, <3>m DEF Refreshed, TypeOK, LocalsFit, Tokens
      <3>1. TypeOK'
        BY <2>6, <3>m, <3>g DEF Refreshed, TypeOK
      <3>2. LocalsFit'
        BY <2>6, <3>g DEF Refreshed, TypeOK, LocalsFit
      <3> QED
        BY <3>1, <3>2
    <2>7. CASE RefreshFails(t)
      <3>1. TypeOK'
        <4>1. held[t].access \in Gen
          BY <2>7 DEF RefreshFails, TypeOK, LocalsFit, Tokens
        <4>2. UNCHANGED <<diskVars, endpointVars>>
          BY <2>7 DEF RefreshFails
        <4>3. CASE Return(t, held[t].access)
          BY <4>1, <4>2, <4>3 DEF Return, TypeOK
        <4>4. CASE Finish(t)
          BY <4>2, <4>4 DEF Finish, TypeOK, None
        <4> QED
          BY <2>7, <4>3, <4>4 DEF RefreshFails, WithoutNewTokens
      <3>2. LocalsFit'
        BY <2>7 DEF RefreshFails, WithoutNewTokens, Return, Finish, TypeOK, LocalsFit,
           Tokens, Gen, NoTokens
      <3> QED
        BY <3>1, <3>2
    <2>8. CASE RefreshLost(t)
      <3>m. minted' \in Gen /\ live' \in SUBSET Gen /\ due' \in SUBSET Gen
        BY <2>8, MintTyped DEF RefreshLost, TypeOK
      <3>1. TypeOK'
        <4>1. held[t].access \in Gen
          BY <2>8 DEF RefreshLost, TypeOK, LocalsFit, Tokens
        <4>2. UNCHANGED <<file, survivors, strayExchanges, strayWrites>>
          BY <2>8 DEF RefreshLost
        <4>3. CASE Return(t, held[t].access)
          BY <3>m, <4>1, <4>2, <4>3 DEF Return, TypeOK
        <4>4. CASE Finish(t)
          BY <3>m, <4>2, <4>4 DEF Finish, TypeOK, None
        <4> QED
          BY <2>8, <4>3, <4>4 DEF RefreshLost, WithoutNewTokens
      <3>2. LocalsFit'
        BY <2>8 DEF RefreshLost, WithoutNewTokens, Return, Finish, TypeOK, LocalsFit,
           Tokens, Gen, NoTokens
      <3> QED
        BY <3>1, <3>2
    <2>9. CASE Stage(t)
      <3>1. TypeOK'
        BY <2>9 DEF Stage, TypeOK
      <3>2. LocalsFit'
        BY <2>9 DEF Stage, TypeOK, LocalsFit, Tokens, Gen, NoTokens
      <3> QED
        BY <3>1, <3>2
    <2>10. CASE Rename(t)
      <3>1. TypeOK'
        BY <2>10 DEF Rename, TypeOK, LocalsFit
      <3>2. LocalsFit'
        BY <2>10 DEF Rename, TypeOK, LocalsFit, Tokens, Gen, NoTokens
      <3> QED
        BY <3>1, <3>2
    <2>11. CASE Sync(t)
      <3>1. TypeOK'
        <4>1. got[t].access \in Gen
          BY <2>11 DEF Sync, TypeOK, LocalsFit, Tokens
        <4>2. survivors' = {file} /\ UNCHANGED <<file, strayWrites, endpointVars>>
          BY <2>11 DEF Sync
        <4>3. CASE Return(t, got[t].access)
          BY <4>1, <4>2, <4>3 DEF Return, TypeOK
        <4>4. CASE op[t] = "force" /\ GetAgain(t)
          BY <4>2, <4>4 DEF GetAgain, Ask, TypeOK
        <4>5. CASE Finish(t)
          BY <4>2, <4>5 DEF Finish, TypeOK, None
        <4> QED
          BY <2>11, <4>3, <4>4, <4>5 DEF Sync, Persisted
      <3>2. LocalsFit'
        BY <2>11 DEF Sync, Persisted, Return, GetAgain, Ask, Finish, TypeOK,
           LocalsFit, Tokens, Gen, NoTokens
      <3> QED
        BY <3>1, <3>2
    <2>12. CASE PersistFails(t)
      <3>u. UNCHANGED <<file, survivors, minted, live, due, strayExchanges, strayWrites>>
        BY <2>12 DEF PersistFails
      <3>1. CASE op[t] = "get"
        <4>r. Return(t, got[t].access) /\ got[t].access \in Gen
          BY <2>12, <3>1 DEF PersistFails, LocalsFit, Tokens
        <4>1. TypeOK'
          BY <3>u, <4>r DEF Return, TypeOK
        <4>2. LocalsFit'
          BY <2>12, <3>1, <4>r DEF Return, TypeOK, LocalsFit
        <4> QED
          BY <4>1, <4>2
      <3>2. CASE op[t] # "get"
        <4>1. TypeOK'
          BY <2>12, <3>u, <3>2 DEF PersistFails, Finish, TypeOK
        <4>2. LocalsFit'
          BY <2>12, <3>2 DEF PersistFails, Finish, TypeOK, LocalsFit
        <4> QED
          BY <4>1, <4>2
      <3> QED
        BY <3>1, <3>2
    <2> QED
      BY <1>3, <2>1, <2>2, <2>3, <2>4, <2>5, <2>6, <2>7, <2>8, <2>9, <2>10, <2>11,
         <2>12 DEF Locked
  <1>4. ASSUME NEW h \in Handlers, Upstream(h)
        PROVE  TypeInv'
    <2>1. CASE Answered(h)
      <3>1. TypeOK'
        BY <2>1 DEF Answered, Finish, TypeOK, LocalsFit, Tokens, Gen, None, NoTokens
      <3>2. LocalsFit'
        BY <2>1 DEF Answered, Finish, TypeOK, LocalsFit, Tokens, Gen, NoTokens
      <3> QED
        BY <3>1, <3>2
    <2>2. CASE Unauthorized(h)
      <3>1. TypeOK'
        BY <2>2 DEF Unauthorized, Ask, TypeOK, LocalsFit, Tokens, Gen, None, NoTokens
      <3>2. LocalsFit'
        BY <2>2 DEF Unauthorized, Ask, TypeOK, LocalsFit, Tokens, Gen, NoTokens
      <3> QED
        BY <3>1, <3>2
    <2> QED
      BY <1>4, <2>1, <2>2 DEF Upstream
  <1>5. CASE Environment
    <2>1. ASSUME NEW g \in Gen, Ages(g)
          PROVE  TypeInv'
      <3>1. TypeOK'
        BY <2>1 DEF Ages, TypeOK, LocalsFit, Tokens, Gen, None, NoTokens
      <3>2. LocalsFit'
        BY <2>1 DEF Ages, TypeOK, LocalsFit, Tokens, Gen, NoTokens
      <3> QED
        BY <3>1, <3>2
    <2>2. ASSUME NEW t \in Tasks, Cancel(t)
          PROVE  TypeInv'
      <3>1. TypeOK'
        <4>1. strayExchanges' \in SUBSET Gen /\ strayWrites' \in SUBSET Tokens
          BY <2>2 DEF Cancel, TypeOK, LocalsFit, Tokens
        <4> QED
          BY <2>2, <4>1 DEF Cancel, Finish, TypeOK, None
      <3>2. LocalsFit'
        BY <2>2 DEF Cancel, Finish, TypeOK, LocalsFit, Tokens, Gen, NoTokens
      <3> QED
        BY <3>1, <3>2
    <2>3. ASSUME NEW r \in strayExchanges, StrayExchange(r)
          PROVE  TypeInv'
      <3>m. minted' \in Gen /\ live' \in SUBSET Gen /\ due' \in SUBSET Gen
        BY <2>3, MintTyped DEF StrayExchange, TypeOK
      <3>1. TypeOK'
        BY <2>3, <3>m DEF StrayExchange, TypeOK
      <3>2. LocalsFit'
        BY <2>3 DEF StrayExchange, TypeOK, LocalsFit, Tokens, Gen, NoTokens
      <3> QED
        BY <3>1, <3>2
    <2>4. ASSUME NEW tokens \in strayWrites, StrayWrite(tokens)
          PROVE  TypeInv'
      <3>1. TypeOK'
        BY <2>4 DEF StrayWrite, TypeOK, LocalsFit, Tokens, Gen, None, NoTokens
      <3>2. LocalsFit'
        BY <2>4 DEF StrayWrite, TypeOK, LocalsFit, Tokens, Gen, NoTokens
      <3> QED
        BY <3>1, <3>2
    <2>5. CASE Crash
      <3>s. strayExchanges' \in SUBSET Gen
        BY <2>5 DEF Crash, TypeOK, LocalsFit, Tokens
      <3>f. file' \in Tokens \union {NoTokens} /\ survivors' \in SUBSET (Tokens \union {NoTokens})
        BY <2>5 DEF Crash, TypeOK
      <3>t. \A t \in Tasks : "none" \in OpsOf(t)
        OBVIOUS
      <3>1. TypeOK'
        BY <2>5, <3>s, <3>f, <3>t DEF Crash, TypeOK, None
      <3>2. LocalsFit'
        BY <2>5 DEF Crash, TypeOK, LocalsFit, Tokens, Gen, NoTokens
      <3> QED
        BY <3>1, <3>2
    <2> QED
      BY <1>5, <2>1, <2>2, <2>3, <2>4, <2>5 DEF Environment
  <1>6. CASE UNCHANGED vars
    <2>1. TypeOK'
      BY <1>6 DEF vars, taskVars, TypeOK, LocalsFit, Tokens, Gen, None, NoTokens
    <2>2. LocalsFit'
      BY <1>6 DEF vars, taskVars, TypeOK, LocalsFit, Tokens, Gen, NoTokens
    <2> QED
      BY <2>1, <2>2
  <1> QED
    BY <1>1, <1>2, <1>3, <1>4, <1>5, <1>6 DEF Next

\* Every variable keeps its type, whatever fails.
THEOREM CredentialTypes == Spec => []TypeOK
  <1>1. TypeInv => TypeOK
    BY DEF TypeInv
  <1> QED
    BY <1>1, TypeInvInit, TypeInvNext, PTL DEF Spec

-----------------------------------------------------------------------------
(* The mutex *)

\* Only Acquire puts a task inside, and only when nobody is.
LEMMA OneInsideNext == TypeInv /\ OneInside /\ [Next]_vars => OneInside'
  <1> SUFFICES ASSUME TypeInv /\ OneInside, [Next]_vars PROVE OneInside'
    OBVIOUS
  <1> USE CredentialsAssumption DEF TypeInv, TypeOK, OneInside, Goto, At, taskVars,
           diskVars, endpointVars, Inside
  <1>1. CASE Arrivals
    BY <1>1 DEF Arrivals, Request, Ask, Tick, Push, Mint, Status
  <1>2. ASSUME NEW t \in Tasks, Acquire(t)
        PROVE  OneInside'
    BY <1>2 DEF Acquire
  <1>3. ASSUME NEW t \in Tasks, Locked(t)
        PROVE  OneInside'
    BY <1>3 DEF Locked, ReadFresh, Readable, Return, Finish, ReadToRefresh,
       ReadFails, ReadStatus, AcceptPush, Refreshed, Mint, RefreshFails,
       WithoutNewTokens, RefreshLost, Stage, Rename, Sync, Persisted, GetAgain,
       Ask, PersistFails
  <1>4. ASSUME NEW h \in Handlers, Upstream(h)
        PROVE  OneInside'
    BY <1>4 DEF Upstream, Answered, Finish, Unauthorized, Ask
  <1>5. CASE Environment
    BY <1>5 DEF Environment, Ages, Cancel, Finish, StrayExchange, Mint,
       StrayWrite, Crash
  <1>6. CASE UNCHANGED vars
    BY <1>6 DEF vars, taskVars
  <1> QED
    BY <1>1, <1>2, <1>3, <1>4, <1>5, <1>6 DEF Next

-----------------------------------------------------------------------------
(* Single flight *)

\* Without dropped handlers a rename is always its holder's, and so a refresh
\* finds the file as it read it.
StaleInv ==
  /\ TypeInv
  /\ OneInside
  /\ strayWrites = {}
  /\ RefreshesOnlyTheStale

\* A rename under the mutex is the only change of the file, and ends the refresh.
LEMMA StaleNext ==
  ASSUME "cancel" \notin Faults, StaleInv, [Next]_vars
  PROVE  strayWrites' = {} /\ RefreshesOnlyTheStale'
  <1> DEFINE Goal == strayWrites' = {} /\ RefreshesOnlyTheStale'
  <1> SUFFICES Goal
    OBVIOUS
  <1> USE DEF StaleInv, TypeInv, TypeOK, OneInside, RefreshesOnlyTheStale, Goto, At,
           taskVars, diskVars, endpointVars, Inside, Expired
  <1>1. CASE Arrivals
    BY <1>1 DEF Arrivals, Request, Ask, Tick, Push, Mint, Status
  <1>2. ASSUME NEW t \in Tasks, Acquire(t)
        PROVE  Goal
    BY <1>2 DEF Acquire
  <1>3. ASSUME NEW t \in Tasks, Locked(t)
        PROVE  Goal
    BY <1>3 DEF Locked, ReadFresh, Readable, Return, Finish, ReadToRefresh,
       ReadFails, ReadStatus, AcceptPush, Refreshed, Mint, RefreshFails,
       WithoutNewTokens, RefreshLost, Stage, Rename, Sync, Persisted, GetAgain,
       Ask, PersistFails
  <1>4. ASSUME NEW h \in Handlers, Upstream(h)
        PROVE  Goal
    BY <1>4 DEF Upstream, Answered, Finish, Unauthorized, Ask
  <1>5. CASE Environment
    BY <1>5 DEF Environment, Ages, Cancel, Finish, StrayExchange, Mint,
       StrayWrite, Crash
  <1>6. CASE UNCHANGED vars
    BY <1>6 DEF vars, taskVars
  <1> QED
    BY <1>1, <1>2, <1>3, <1>4, <1>5, <1>6 DEF Next

\* A request or a tick that finds its token at the buffer's edge refreshes that
\* very token: the waiters of an expiry window do not refresh again
\* (refresher.rs:5), if no handler is dropped.
THEOREM SingleFlight ==
  ASSUME "cancel" \notin Faults
  PROVE  Spec => []RefreshesOnlyTheStale
  <1>1. Init => StaleInv
    BY TypeInvInit DEF Init, StaleInv, OneInside, RefreshesOnlyTheStale, Inside, At
  <1>2. StaleInv /\ [Next]_vars => StaleInv'
    BY TypeInvNext, OneInsideNext, StaleNext DEF StaleInv
  <1>3. StaleInv => RefreshesOnlyTheStale
    BY DEF StaleInv
  <1> QED
    BY <1>1, <1>2, <1>3, PTL DEF Spec

-----------------------------------------------------------------------------
(* Generations *)

\* Nothing is newer than what the endpoint has minted.
Known(tokens) == tokens.access <= minted /\ tokens.refresh <= minted

NothingUnminted ==
  /\ Known(file)
  /\ \A tokens \in survivors \union strayWrites : Known(tokens)
  /\ \A r \in strayExchanges : r <= minted
  /\ \A t \in Tasks :
       Known(held[t]) /\ Known(got[t]) /\ token[t] <= minted /\ rejected[t] <= minted

\* The seed is the first generation.
LEMMA NothingUnmintedInit == Init => NothingUnminted
  BY DEF Init, NothingUnminted, Known, NoTokens, None

\* A task that goes on, or ends, with what it has.
LEMMA StillKnown ==
  ASSUME TypeInv, NothingUnminted, NEW t \in Tasks, NEW g \in Gen \union {None}, g <= minted,
         Return(t, g) \/ Finish(t), minted' \in Nat, minted <= minted',
         UNCHANGED <<file, survivors, strayWrites, strayExchanges>>
  PROVE  NothingUnminted'
  <1> USE CredentialsAssumption DEF TypeInv, TypeOK, NothingUnminted, Known, Gen, None
  <1>1. Known(file)' /\ (\A tokens \in survivors \union strayWrites : Known(tokens))'
    BY DEF Tokens, NoTokens
  <1>2. (\A r \in strayExchanges : r <= minted)'
    OBVIOUS
  <1>3. ASSUME NEW u \in Tasks
        PROVE  (Known(held[u]) /\ Known(got[u]) /\ token[u] <= minted /\ rejected[u] <= minted)'
    <2>1. held[u].access <= minted' /\ held[u].refresh <= minted'
      BY DEF Tokens, NoTokens
    <2>2. got[u].access <= minted' /\ got[u].refresh <= minted'
      BY DEF Tokens, NoTokens
    <2>3. token[u] <= minted' /\ rejected[u] <= minted' /\ g <= minted' /\ None <= minted'
      OBVIOUS
    <2>4. CASE Finish(t)
      BY <2>1, <2>2, <2>3, <2>4 DEF Finish, NoTokens
    <2>5. CASE Return(t, g)
      BY <2>1, <2>2, <2>3, <2>5 DEF Return, NoTokens
    <2> QED
      BY <2>4, <2>5
  <1> QED
    BY <1>1, <1>2, <1>3

\* A task that is about to persist what the endpoint has just minted.
LEMMA StillMinted ==
  ASSUME TypeInv, NothingUnminted, NEW t \in Tasks, NEW r,
         minted \in Nat, minted' = minted + 1, r <= minted + 1,
         got' = [got EXCEPT ![t] = [access |-> minted + 1, refresh |-> r]],
         UNCHANGED <<held, token, rejected, file, survivors, strayExchanges, strayWrites>>
  PROVE  NothingUnminted'
  <1> USE DEF TypeInv, TypeOK, NothingUnminted, Known
  <1>1. \A tokens \in Tokens \union {NoTokens} : Known(tokens) => Known(tokens)'
    BY DEF Tokens, NoTokens, Gen, None
  <1>2. Known(file)' /\ (\A tokens \in survivors \union strayWrites : Known(tokens))'
    BY <1>1
  <1>3. (\A x \in strayExchanges : x <= minted)'
    BY DEF Gen
  <1>4. ASSUME NEW u \in Tasks
        PROVE  (Known(held[u]) /\ Known(got[u]) /\ token[u] <= minted /\ rejected[u] <= minted)'
    <2>1. held[u].access <= minted' /\ held[u].refresh <= minted'
      BY DEF Tokens, NoTokens, Gen, None
    <2>2. token[u] <= minted' /\ rejected[u] <= minted'
      BY DEF Gen, None
    <2>3. CASE u = t
      <3>1. got'[u] = [access |-> minted + 1, refresh |-> r]
        BY <2>3
      <3> QED
        BY <2>1, <2>2, <3>1
    <2>4. CASE u # t
      BY <2>4 DEF Tokens, NoTokens, Gen, None
    <2> QED
      BY <2>1, <2>2, <2>3, <2>4
  <1> QED
    BY <1>2, <1>3, <1>4

\* Only the endpoint makes a generation, the next one.
LEMMA NothingUnmintedNext ==
  TypeInv /\ NothingUnminted /\ [Next]_vars => NothingUnminted'
  <1> SUFFICES ASSUME TypeInv /\ NothingUnminted, [Next]_vars PROVE NothingUnminted'
    OBVIOUS
  <1> USE CredentialsAssumption DEF TypeInv, TypeOK, LocalsFit, NothingUnminted,
           Known, Goto, At, taskVars, diskVars, endpointVars
  <1>1. CASE Arrivals
    <2>1. ASSUME NEW h \in Handlers, Request(h)
          PROVE  NothingUnminted'
      BY <2>1 DEF Request, Ask, Tokens, NoTokens, Gen, None
    <2>2. CASE Tick
      BY <2>2 DEF Tick, Ask, Tokens, NoTokens, Gen, None
    <2>3. ASSUME NEW lifetime \in {"short", "long"}, Push(lifetime)
          PROVE  NothingUnminted'
      <3>1. minted \in Nat /\ minted' = minted + 1
        BY <2>3 DEF Push, Mint, Gen
      <3>2. got' = [got EXCEPT ![Admin] = [access |-> minted + 1, refresh |-> minted + 1]]
        BY <2>3 DEF Push
      <3>3. UNCHANGED <<held, token, rejected, file, survivors, strayExchanges, strayWrites>>
        BY <2>3 DEF Push
      <3>4. Admin \in Tasks /\ minted + 1 <= minted + 1
        BY <3>1 DEF Tasks
      <3> QED
        BY <3>1, <3>2, <3>3, <3>4, StillMinted
    <2>4. CASE Status
      BY <2>4 DEF Status, Ask, Tokens, NoTokens, Gen, None
    <2> QED
      BY <1>1, <2>1, <2>2, <2>3, <2>4 DEF Arrivals
  <1>2. ASSUME NEW t \in Tasks, Acquire(t)
        PROVE  NothingUnminted'
    BY <1>2 DEF Acquire, Tokens, NoTokens, Gen, None
  <1>3. ASSUME NEW t \in Tasks, Locked(t)
        PROVE  NothingUnminted'
    <2>1. CASE ReadFresh(t)
      <3>1. Return(t, file.access) \/ Finish(t)
        BY <2>1 DEF ReadFresh, Readable
      <3>2. file.access \in Gen \union {None} /\ file.access <= minted
        BY <2>1 DEF Tokens, NoTokens
      <3>3. minted' \in Nat /\ minted <= minted' /\ UNCHANGED <<file, survivors, strayWrites, strayExchanges>>
        BY <2>1 DEF ReadFresh, Readable, Gen
      <3> QED
        BY <3>1, <3>2, <3>3, StillKnown
    <2>2. CASE ReadToRefresh(t)
      BY <2>2 DEF ReadToRefresh, Readable, Tokens, NoTokens, Gen, None
    <2>3. CASE ReadFails(t)
      BY <2>3 DEF ReadFails, Finish, Tokens, NoTokens, Gen, None
    <2>4. CASE ReadStatus(t)
      BY <2>4 DEF ReadStatus, Finish, Tokens, NoTokens, Gen, None
    <2>5. ASSUME NEW namesUser \in BOOLEAN, AcceptPush(t, namesUser)
          PROVE  NothingUnminted'
      BY <2>5 DEF AcceptPush, Finish, Tokens, NoTokens, Gen, None
    <2>6. ASSUME NEW rotates \in BOOLEAN, NEW lifetime \in {"short", "long"},
                 Refreshed(t, rotates, lifetime)
          PROVE  NothingUnminted'
      <3>1. minted \in Nat /\ minted' = minted + 1
        BY <2>6 DEF Refreshed, Mint, Gen
      <3>2. PICK r \in {minted + 1, held[t].refresh} :
              got' = [got EXCEPT ![t] = [access |-> minted + 1, refresh |-> r]]
        BY <2>6 DEF Refreshed
      <3>3. UNCHANGED <<held, token, rejected, file, survivors, strayExchanges, strayWrites>>
        BY <2>6 DEF Refreshed
      <3>4. r <= minted + 1
        BY <3>1, <3>2 DEF Tokens, NoTokens, Gen, None
      <3> QED
        BY <3>1, <3>2, <3>3, <3>4, StillMinted
    <2>7. CASE RefreshFails(t)
      <3>1. Return(t, held[t].access) \/ Finish(t)
        BY <2>7 DEF RefreshFails, WithoutNewTokens
      <3>2. held[t].access \in Gen \union {None} /\ held[t].access <= minted
        BY <2>7 DEF Tokens, NoTokens
      <3>3. minted' \in Nat /\ minted <= minted' /\ UNCHANGED <<file, survivors, strayWrites, strayExchanges>>
        BY <2>7 DEF RefreshFails, WithoutNewTokens, Gen
      <3> QED
        BY <3>1, <3>2, <3>3, StillKnown
    <2>8. CASE RefreshLost(t)
      <3>1. Return(t, held[t].access) \/ Finish(t)
        BY <2>8 DEF RefreshLost, WithoutNewTokens, Mint
      <3>2. held[t].access \in Gen \union {None} /\ held[t].access <= minted
        BY <2>8 DEF Tokens, NoTokens
      <3>3. minted' \in Nat /\ minted <= minted' /\ UNCHANGED <<file, survivors, strayWrites, strayExchanges>>
        BY <2>8 DEF RefreshLost, WithoutNewTokens, Mint, Gen
      <3> QED
        BY <3>1, <3>2, <3>3, StillKnown
    <2>9. CASE Stage(t)
      BY <2>9 DEF Stage, Tokens, NoTokens, Gen, None
    <2>10. CASE Rename(t)
      BY <2>10 DEF Rename, Tokens, NoTokens, Gen, None
    <2>11. CASE Sync(t)
      BY <2>11 DEF Sync, Persisted, Return, GetAgain, Ask, Finish, Tokens, NoTokens,
         Gen, None
    <2>12. CASE PersistFails(t)
      BY <2>12 DEF PersistFails, Return, Finish, Tokens, NoTokens, Gen, None
    <2> QED
      BY <1>3, <2>1, <2>2, <2>3, <2>4, <2>5, <2>6, <2>7, <2>8, <2>9, <2>10, <2>11,
         <2>12 DEF Locked
  <1>4. ASSUME NEW h \in Handlers, Upstream(h)
        PROVE  NothingUnminted'
    <2>1. CASE Answered(h)
      BY <2>1 DEF Answered, Finish, Tokens, NoTokens, Gen, None
    <2>2. CASE Unauthorized(h)
      BY <2>2 DEF Unauthorized, Ask, Tokens, NoTokens, Gen, None
    <2> QED
      BY <1>4, <2>1, <2>2 DEF Upstream
  <1>5. CASE Environment
    <2>1. ASSUME NEW g \in Gen, Ages(g)
          PROVE  NothingUnminted'
      BY <2>1 DEF Ages, Tokens, NoTokens, Gen, None
    <2>2. ASSUME NEW t \in Tasks, Cancel(t)
          PROVE  NothingUnminted'
      BY <2>2 DEF Cancel, Finish, Tokens, NoTokens, Gen, None
    <2>3. ASSUME NEW r \in strayExchanges, StrayExchange(r)
          PROVE  NothingUnminted'
      BY <2>3 DEF StrayExchange, Mint, Tokens, NoTokens, Gen, None
    <2>4. ASSUME NEW tokens \in strayWrites, StrayWrite(tokens)
          PROVE  NothingUnminted'
      BY <2>4 DEF StrayWrite, Tokens, NoTokens, Gen, None
    <2>5. CASE Crash
      BY <2>5 DEF Crash, Tokens, NoTokens, Gen, None
    <2> QED
      BY <1>5, <2>1, <2>2, <2>3, <2>4, <2>5 DEF Environment
  <1>6. CASE UNCHANGED vars
    BY <1>6 DEF vars, taskVars, Tokens, NoTokens, Gen, None
  <1> QED
    BY <1>1, <1>2, <1>3, <1>4, <1>5, <1>6 DEF Next

-----------------------------------------------------------------------------
(* A forced refresh *)

\* What a forced refresh is about to persist: a refresh token the endpoint accepts
\* and no stray request carries, or the one it already had; and an access token newer
\* than any a stray rename may still put in its place.
ForcedFits ==
  \A t \in Tasks :
    op[t] = "force" /\ at[t] \in Persisting =>
      /\ \/ got[t].refresh = held[t].refresh
         \/ got[t].refresh \in live \ strayExchanges
      /\ \A tokens \in strayWrites : tokens.access < got[t].access

\* Once it is renamed it is in the file, unless a stray rename came after it.
ForcedWrites ==
  \A t \in Tasks :
    op[t] = "force" /\ at[t] = "sync" =>
      /\ got[t] \in survivors
      /\ file = got[t] \/ ("cancel" \in Faults /\ file.access < got[t].access)

\* Only dropped tasks leave renames behind.
StraysAreOfTheDropped == strayWrites # {} => "cancel" \in Faults

ChainInv ==
  /\ TypeInv /\ OneInside /\ NothingUnminted
  /\ ForcedFits /\ ForcedWrites /\ StraysAreOfTheDropped

\* A new token is the newest; it is spent only by who holds it inside the mutex.
LEMMA ForcedFitsNext == ChainInv /\ [Next]_vars => ForcedFits'
  <1> SUFFICES ASSUME ChainInv, [Next]_vars PROVE ForcedFits'
    OBVIOUS
  <1> USE CredentialsAssumption DEF ChainInv, TypeInv, TypeOK, LocalsFit, OneInside,
           NothingUnminted, Known, ForcedFits, Goto, At, taskVars, diskVars,
           endpointVars, Inside, Persisting, Gen
  <1>1. CASE Arrivals
    <2>1. ASSUME NEW h \in Handlers, Request(h)
          PROVE  ForcedFits'
      BY <2>1 DEF Request, Ask
    <2>2. CASE Tick
      BY <2>2 DEF Tick, Ask
    <2>3. ASSUME NEW lifetime \in {"short", "long"}, Push(lifetime)
          PROVE  ForcedFits'
      BY <2>3 DEF Push, Ask, Mint
    <2>4. CASE Status
      BY <2>4 DEF Status, Ask
    <2> QED
      BY <1>1, <2>1, <2>2, <2>3, <2>4 DEF Arrivals
  <1>2. ASSUME NEW t \in Tasks, Acquire(t)
        PROVE  ForcedFits'
    BY <1>2 DEF Acquire
  <1>3. ASSUME NEW t \in Tasks, Locked(t)
        PROVE  ForcedFits'
    <2>1. CASE ReadFresh(t)
      BY <2>1 DEF ReadFresh, Readable, Return, Finish
    <2>2. CASE ReadToRefresh(t)
      BY <2>2 DEF ReadToRefresh, Readable
    <2>3. CASE ReadFails(t)
      BY <2>3 DEF ReadFails, Finish
    <2>4. CASE ReadStatus(t)
      BY <2>4 DEF ReadStatus, Finish
    <2>5. ASSUME NEW namesUser \in BOOLEAN, AcceptPush(t, namesUser)
          PROVE  ForcedFits'
      BY <2>5 DEF AcceptPush, Finish
    <2>6. ASSUME NEW rotates \in BOOLEAN, NEW lifetime \in {"short", "long"},
                 Refreshed(t, rotates, lifetime)
          PROVE  ForcedFits'
      <3>1. \A tokens \in strayWrites : tokens.access < minted + 1
        BY DEF Tokens
      <3> QED
        BY <2>6, <3>1 DEF Refreshed, Mint
    <2>7. CASE RefreshFails(t)
      BY <2>7 DEF RefreshFails, WithoutNewTokens, Return, Finish
    <2>8. CASE RefreshLost(t)
      BY <2>8 DEF RefreshLost, WithoutNewTokens, Return, Finish, Mint
    <2>9. CASE Stage(t)
      BY <2>9 DEF Stage
    <2>10. CASE Rename(t)
      BY <2>10 DEF Rename
    <2>11. CASE Sync(t)
      BY <2>11 DEF Sync, Persisted, Return, GetAgain, Ask, Finish
    <2>12. CASE PersistFails(t)
      BY <2>12 DEF PersistFails, Return, Finish
    <2> QED
      BY <1>3, <2>1, <2>2, <2>3, <2>4, <2>5, <2>6, <2>7, <2>8, <2>9, <2>10, <2>11,
         <2>12 DEF Locked
  <1>4. ASSUME NEW h \in Handlers, Upstream(h)
        PROVE  ForcedFits'
    <2>1. CASE Answered(h)
      BY <2>1 DEF Answered, Finish
    <2>2. CASE Unauthorized(h)
      BY <2>2 DEF Unauthorized, Ask
    <2> QED
      BY <1>4, <2>1, <2>2 DEF Upstream
  <1>5. CASE Environment
    <2>1. ASSUME NEW g \in Gen, Ages(g)
          PROVE  ForcedFits'
      BY <2>1 DEF Ages
    <2>2. ASSUME NEW t \in Tasks, Cancel(t)
          PROVE  ForcedFits'
      BY <2>2 DEF Cancel, Finish
    <2>3. ASSUME NEW r \in strayExchanges, StrayExchange(r)
          PROVE  ForcedFits'
      BY <2>3 DEF StrayExchange, Mint
    <2>4. ASSUME NEW tokens \in strayWrites, StrayWrite(tokens)
          PROVE  ForcedFits'
      BY <2>4 DEF StrayWrite
    <2>5. CASE Crash
      BY <2>5 DEF Crash
    <2> QED
      BY <1>5, <2>1, <2>2, <2>3, <2>4, <2>5 DEF Environment
  <1>6. CASE UNCHANGED vars
    BY <1>6 DEF vars, taskVars
  <1> QED
    BY <1>1, <1>2, <1>3, <1>4, <1>5, <1>6 DEF Next

\* Only Rename brings a forced refresh to "sync"; from there on only stray renames
\* touch the file, and the mutex keeps every other write away.
LEMMA ForcedWritesNext == ChainInv /\ [Next]_vars => ForcedWrites'
  <1> SUFFICES ASSUME ChainInv, [Next]_vars PROVE ForcedWrites'
    OBVIOUS
  <1> USE DEF ChainInv, TypeInv, TypeOK, OneInside, ForcedWrites, Goto, At, taskVars,
           diskVars, endpointVars, Inside, Persisting
  <1>1. CASE Arrivals
    BY <1>1 DEF Arrivals, Request, Ask, Tick, Push, Status
  <1>2. ASSUME NEW t \in Tasks, Acquire(t)
        PROVE  ForcedWrites'
    BY <1>2 DEF Acquire
  <1>3. ASSUME NEW t \in Tasks, Locked(t)
        PROVE  ForcedWrites'
    <2>1. CASE ReadFresh(t) \/ ReadToRefresh(t) \/ ReadFails(t) \/ ReadStatus(t)
      BY <2>1 DEF ReadFresh, Readable, Return, Finish, ReadToRefresh, ReadFails, ReadStatus
    <2>2. ASSUME NEW namesUser \in BOOLEAN, AcceptPush(t, namesUser)
          PROVE  ForcedWrites'
      BY <2>2 DEF AcceptPush, Finish
    <2>3. ASSUME NEW rotates \in BOOLEAN, NEW lifetime \in {"short", "long"},
                 Refreshed(t, rotates, lifetime)
          PROVE  ForcedWrites'
      BY <2>3 DEF Refreshed
    <2>4. CASE RefreshFails(t) \/ RefreshLost(t)
      BY <2>4 DEF RefreshFails, RefreshLost, WithoutNewTokens, Return, Finish
    <2>5. CASE Stage(t)
      BY <2>5 DEF Stage
    <2>6. CASE Rename(t)
      BY <2>6 DEF Rename
    <2>7. CASE Sync(t)
      BY <2>7 DEF Sync, Persisted, Return, GetAgain, Ask, Finish
    <2>8. CASE PersistFails(t)
      BY <2>8 DEF PersistFails, Return, Finish
    <2> QED
      BY <1>3, <2>1, <2>2, <2>3, <2>4, <2>5, <2>6, <2>7, <2>8 DEF Locked
  <1>4. ASSUME NEW h \in Handlers, Upstream(h)
        PROVE  ForcedWrites'
    BY <1>4 DEF Upstream, Answered, Finish, Unauthorized, Ask
  <1>5. CASE Environment
    <2>1. ASSUME NEW g \in Gen, Ages(g)
          PROVE  ForcedWrites'
      BY <2>1 DEF Ages
    <2>2. ASSUME NEW t \in Tasks, Cancel(t)
          PROVE  ForcedWrites'
      BY <2>2 DEF Cancel, Finish
    <2>3. ASSUME NEW r \in strayExchanges, StrayExchange(r)
          PROVE  ForcedWrites'
      BY <2>3 DEF StrayExchange
    <2>4. ASSUME NEW tokens \in strayWrites, StrayWrite(tokens)
          PROVE  ForcedWrites'
      BY <2>4 DEF StrayWrite, ForcedFits, StraysAreOfTheDropped
    <2>5. CASE Crash
      BY <2>5 DEF Crash
    <2> QED
      BY <1>5, <2>1, <2>2, <2>3, <2>4, <2>5 DEF Environment
  <1>6. CASE UNCHANGED vars
    BY <1>6 DEF vars
  <1> QED
    BY <1>1, <1>2, <1>3, <1>4, <1>5, <1>6 DEF Next

\* Cancel alone adds to the stray renames.
LEMMA StraysNext ==
  StraysAreOfTheDropped /\ [Next]_vars => StraysAreOfTheDropped'
  <1> SUFFICES ASSUME StraysAreOfTheDropped, [Next]_vars PROVE StraysAreOfTheDropped'
    OBVIOUS
  <1> USE DEF StraysAreOfTheDropped, diskVars
  <1>1. CASE Arrivals
    BY <1>1 DEF Arrivals, Request, Tick, Push, Status
  <1>2. ASSUME NEW t \in Tasks, Acquire(t) \/ Locked(t)
        PROVE  StraysAreOfTheDropped'
    BY <1>2 DEF Acquire, Locked, ReadFresh, ReadToRefresh, ReadFails, ReadStatus,
       AcceptPush, Refreshed, RefreshFails, RefreshLost, Stage, Rename, Sync, PersistFails
  <1>3. ASSUME NEW h \in Handlers, Upstream(h)
        PROVE  StraysAreOfTheDropped'
    BY <1>3 DEF Upstream, Answered, Unauthorized
  <1>4. CASE Environment
    BY <1>4 DEF Environment, Ages, Cancel, StrayExchange, StrayWrite, Crash
  <1>5. CASE UNCHANGED vars
    BY <1>5 DEF vars
  <1> QED
    BY <1>1, <1>2, <1>3, <1>4, <1>5 DEF Next

\* ChainInv is inductive.
LEMMA ChainInvAlways == Spec => []ChainInv
  <1>1. Init => ChainInv
    BY TypeInvInit, NothingUnmintedInit
       DEF Init, ChainInv, OneInside, ForcedFits, ForcedWrites, StraysAreOfTheDropped,
           Inside, Persisting
  <1>2. ChainInv /\ [Next]_vars => ChainInv'
    BY TypeInvNext, OneInsideNext, NothingUnmintedNext, ForcedFitsNext, ForcedWritesNext,
       StraysNext DEF ChainInv
  <1> QED
    BY <1>1, <1>2, PTL DEF Spec

\* When refresh_credentials reports success (refresher.rs:206), the tokens it got were
\* written, what the file holds is on the disk -- those tokens, or with dropped handlers
\* older ones -- and their refresh token is one the endpoint accepts or the one it
\* kept, whatever other tasks, lost replies, failed writes and crashes have done.
THEOREM ForcedRefreshHolds == Spec => ForcedRefreshIsDurable
  <1> DEFINE Succeeds(t) == op[t] = "force" /\ at[t] \in Inside /\ at'[t] = "waiting"
             Durable(t) ==
               /\ got[t] \in survivors
               /\ survivors' = {file'}
               /\ file' = got[t] \/ ("cancel" \in Faults /\ file'.access < got[t].access)
               /\ got[t].refresh \in live \union {held[t].refresh}
  <1>1. ASSUME ChainInv, [Next]_vars, NEW t \in Tasks, Succeeds(t)
        PROVE  Durable(t)
    <2> USE DEF ChainInv, TypeInv, TypeOK, Goto, At, taskVars, diskVars, endpointVars, Inside
    <2>1. Sync(t)
      <3>1. CASE Arrivals
        BY <1>1, <3>1 DEF Arrivals, Request, Ask, Tick, Push, Mint, Status
      <3>2. ASSUME NEW u \in Tasks, Acquire(u)
            PROVE  Sync(t)
        BY <1>1, <3>2 DEF Acquire
      <3>3. ASSUME NEW u \in Tasks, Locked(u)
            PROVE  Sync(t)
        BY <1>1, <3>3 DEF Locked, ReadFresh, Readable, Return, Finish, ReadToRefresh,
           ReadFails, ReadStatus, AcceptPush, Refreshed, Mint, RefreshFails,
           WithoutNewTokens, RefreshLost, Stage, Rename, Sync, Persisted, GetAgain,
           Ask, PersistFails
      <3>4. ASSUME NEW h \in Handlers, Upstream(h)
            PROVE  Sync(t)
        BY <1>1, <3>4 DEF Upstream, Answered, Finish, Unauthorized, Ask
      <3>5. CASE Environment
        BY <1>1, <3>5 DEF Environment, Ages, Cancel, Finish, StrayExchange, Mint,
           StrayWrite, Crash
      <3>6. CASE UNCHANGED vars
        BY <1>1, <3>6 DEF vars, taskVars
      <3> QED
        BY <1>1, <3>1, <3>2, <3>3, <3>4, <3>5, <3>6 DEF Next
    <2>2. survivors' = {file} /\ file' = file /\ at[t] = "sync"
      BY <2>1 DEF Sync
    <2> QED
      BY <1>1, <2>2 DEF ForcedFits, ForcedWrites, Persisting
  <1>2. ChainInv /\ [Next]_vars => \A t \in Tasks : Succeeds(t) => Durable(t)
    BY <1>1
  <1> QED
    BY <1>2, ChainInvAlways, PTL DEF Spec, ForcedRefreshIsDurable

-----------------------------------------------------------------------------
(* A retry after a 401 *)

\* t still has to rename its tokens over the file.
Pending(t) ==
  at[t] \in {"stage", "rename"} \/ (op[t] = "push" /\ at[t] \in {"waiting", "read"})

\* The access token g has been in the file, or been used without.
Used(g) ==
  \/ file.access = g
  \/ \E t \in Tasks :
       \/ token[t] = g \/ rejected[t] = g
       \/ at[t] = "refresh" /\ held[t].access = g
       \/ at[t] = "sync" /\ got[t].access = g

\* What will be written is new, and is written once.
WrittenOnce ==
  /\ \A tokens \in strayWrites : ~Used(tokens.access)
  /\ \A t \in Tasks : Pending(t) => ~Used(got[t].access)
  /\ \A t \in Tasks, tokens \in strayWrites : Pending(t) => tokens.access # got[t].access
  /\ \A t, u \in Tasks : Pending(t) /\ Pending(u) /\ got[t].access = got[u].access => t = u
  /\ \A x, y \in strayWrites : x.access = y.access => x = y

\* A request whose token was rejected goes for another one.
RetryFit(h) ==
  rejected[h] # None =>
    /\ op[h] = "get" \/ at[h] = "sync" => file.access # rejected[h]
    /\ op[h] = "get" /\ at[h] = "refresh" => held[h].access # rejected[h]
    /\ op[h] = "get" /\ at[h] \in Persisting => got[h].access # rejected[h]
    /\ at[h] = "send" => token[h] # rejected[h]
    /\ at[h] # "idle"

RetryFits == \A h \in Handlers : RetryFit(h)

RetryInv == TypeInv /\ OneInside /\ NothingUnminted /\ WrittenOnce /\ RetryFits

\* What will be written is a pair of generations.
LEMMA WritesTyped ==
  ASSUME TypeInv
  PROVE  /\ \A t \in Tasks : Pending(t) => got[t].access \in Gen
         /\ \A tokens \in strayWrites : tokens.access \in Gen
  BY DEF TypeInv, TypeOK, LocalsFit, Pending, Persisting, Tokens

\* A step that brings nothing new to write, and nothing new in use.
LEMMA StillWrittenOnce ==
  ASSUME TypeInv, WrittenOnce, strayWrites' = strayWrites, \A g \in Gen : Used(g)' => Used(g),
         \A u \in Tasks : Pending(u)' => Pending(u) /\ got'[u] = got[u]
  PROVE  WrittenOnce'
  BY WritesTyped DEF WrittenOnce

\* A refresh and a push bring the newest generation, a rename puts it in use.
LEMMA WrittenOnceNext ==
  TypeInv /\ OneInside /\ NothingUnminted /\ WrittenOnce /\ [Next]_vars => WrittenOnce'
  <1> SUFFICES ASSUME TypeInv /\ OneInside /\ NothingUnminted /\ WrittenOnce, [Next]_vars PROVE WrittenOnce'
    OBVIOUS
  <1> USE CredentialsAssumption DEF TypeInv, TypeOK, LocalsFit, OneInside,
           NothingUnminted, Known, Goto, At, taskVars, diskVars, endpointVars, Inside,
           Persisting
  <1>1. CASE Arrivals
    <2>1. ASSUME NEW h \in Handlers, Request(h)
          PROVE  WrittenOnce'
      BY <2>1 DEF Request, Ask, WrittenOnce, Used, Pending, Tokens, NoTokens, None, Gen
    <2>2. CASE Tick
      BY <2>2 DEF Tick, Ask, WrittenOnce, Used, Pending, Tokens, NoTokens, None, Gen
    <2>3. ASSUME NEW lifetime \in {"short", "long"}, Push(lifetime)
          PROVE  WrittenOnce'
      BY <2>3 DEF Push, Ask, Mint, WrittenOnce, Used, Pending, Tokens, NoTokens, None,
         Gen
    <2>4. CASE Status
      BY <2>4 DEF Status, Ask, WrittenOnce, Used, Pending, Tokens, NoTokens, None, Gen
    <2> QED
      BY <1>1, <2>1, <2>2, <2>3, <2>4 DEF Arrivals
  <1>2. ASSUME NEW t \in Tasks, Acquire(t)
        PROVE  WrittenOnce'
    BY <1>2 DEF Acquire, WrittenOnce, Used, Pending, Tokens, NoTokens, None, Gen
  <1>3. ASSUME NEW t \in Tasks, Locked(t)
        PROVE  WrittenOnce'
    <2>1. CASE ReadFresh(t)
      <3>1. \A g \in Gen : Used(g)' => Used(g)
        BY <2>1 DEF ReadFresh, Readable, Return, Finish, Used, NoTokens, None, Gen,
           Tokens
      <3>2. strayWrites' = strayWrites /\ \A u \in Tasks : Pending(u)' => Pending(u) /\ got'[u] = got[u]
        BY <2>1 DEF ReadFresh, Readable, Return, Finish, Pending
      <3> QED
        BY <3>1, <3>2, StillWrittenOnce
    <2>2. CASE ReadToRefresh(t)
      BY <2>2 DEF ReadToRefresh, Readable, WrittenOnce, Used, Pending, Tokens,
         NoTokens, None, Gen
    <2>3. CASE ReadFails(t)
      BY <2>3 DEF ReadFails, Finish, WrittenOnce, Used, Pending, Tokens, NoTokens,
         None, Gen
    <2>4. CASE ReadStatus(t)
      BY <2>4 DEF ReadStatus, Finish, WrittenOnce, Used, Pending, Tokens, NoTokens,
         None, Gen
    <2>5. ASSUME NEW namesUser \in BOOLEAN, AcceptPush(t, namesUser)
          PROVE  WrittenOnce'
      <3>1. \A g \in Gen : Used(g)' => Used(g)
        BY <2>5 DEF AcceptPush, Finish, Used, NoTokens, None, Gen, Tokens
      <3>2. strayWrites' = strayWrites /\ \A u \in Tasks : Pending(u)' => Pending(u) /\ got'[u] = got[u]
        BY <2>5 DEF AcceptPush, Finish, Pending
      <3> QED
        BY <3>1, <3>2, StillWrittenOnce
    <2>6. ASSUME NEW rotates \in BOOLEAN, NEW lifetime \in {"short", "long"},
                 Refreshed(t, rotates, lifetime)
          PROVE  WrittenOnce'
      BY <2>6 DEF Refreshed, Mint, WrittenOnce, Used, Pending, Tokens, NoTokens, None,
         Gen
    <2>7. CASE RefreshFails(t)
      <3>1. \A g \in Gen : Used(g)' => Used(g)
        BY <2>7 DEF RefreshFails, WithoutNewTokens, Return, Finish, Used, NoTokens,
           None, Gen, Tokens
      <3>2. strayWrites' = strayWrites /\ \A u \in Tasks : Pending(u)' => Pending(u) /\ got'[u] = got[u]
        BY <2>7 DEF RefreshFails, WithoutNewTokens, Return, Finish, Pending
      <3> QED
        BY <3>1, <3>2, StillWrittenOnce
    <2>8. CASE RefreshLost(t)
      <3>1. \A g \in Gen : Used(g)' => Used(g)
        BY <2>8 DEF RefreshLost, WithoutNewTokens, Return, Finish, Mint, Used,
           NoTokens, None, Gen, Tokens
      <3>2. strayWrites' = strayWrites /\ \A u \in Tasks : Pending(u)' => Pending(u) /\ got'[u] = got[u]
        BY <2>8 DEF RefreshLost, WithoutNewTokens, Return, Finish, Mint, Pending
      <3> QED
        BY <3>1, <3>2, StillWrittenOnce
    <2>9. CASE Stage(t)
      BY <2>9 DEF Stage, WrittenOnce, Used, Pending, Tokens, NoTokens, None, Gen
    <2>10. CASE Rename(t)
      BY <2>10 DEF Rename, WrittenOnce, Used, Pending, Tokens, NoTokens, None, Gen
    <2>11. CASE Sync(t)
      <3>1. \A g \in Gen : Used(g)' => Used(g)
        BY <2>11 DEF Sync, Persisted, Return, GetAgain, Ask, Finish, Used, NoTokens,
           None, Gen, Tokens
      <3>2. strayWrites' = strayWrites /\ \A u \in Tasks : Pending(u)' => Pending(u) /\ got'[u] = got[u]
        BY <2>11 DEF Sync, Persisted, Return, GetAgain, Ask, Finish, Pending
      <3> QED
        BY <3>1, <3>2, StillWrittenOnce
    <2>12. CASE PersistFails(t)
      <3>1. \A g \in Gen : Used(g)' => Used(g) \/ g = got[t].access
        BY <2>12 DEF PersistFails, Return, Finish, Used, Pending, NoTokens, None, Gen,
           Tokens
      <3>2. strayWrites' = strayWrites /\ \A u \in Tasks : Pending(u)' => u # t /\ Pending(u) /\ got'[u] = got[u]
        BY <2>12 DEF PersistFails, Return, Finish, Pending
      <3>3. Pending(t) \/ Used(got[t].access)
        BY <2>12 DEF PersistFails, Pending, Used
      <3> QED
        BY <3>1, <3>2, <3>3, WritesTyped DEF WrittenOnce
    <2> QED
      BY <1>3, <2>1, <2>2, <2>3, <2>4, <2>5, <2>6, <2>7, <2>8, <2>9, <2>10, <2>11,
         <2>12 DEF Locked
  <1>4. ASSUME NEW h \in Handlers, Upstream(h)
        PROVE  WrittenOnce'
    <2>1. CASE Answered(h)
      BY <2>1 DEF Answered, Finish, WrittenOnce, Used, Pending, Tokens, NoTokens,
         None, Gen
    <2>2. CASE Unauthorized(h)
      BY <2>2 DEF Unauthorized, Ask, WrittenOnce, Used, Pending, Tokens, NoTokens,
         None, Gen
    <2> QED
      BY <1>4, <2>1, <2>2 DEF Upstream
  <1>5. CASE Environment
    <2>1. ASSUME NEW g \in Gen, Ages(g)
          PROVE  WrittenOnce'
      BY <2>1 DEF Ages, WrittenOnce, Used, Pending, Tokens, NoTokens, None, Gen
    <2>2. ASSUME NEW t \in Tasks, Cancel(t)
          PROVE  WrittenOnce'
      BY <2>2 DEF Cancel, Finish, WrittenOnce, Used, Pending, Tokens, NoTokens, None,
         Gen
    <2>3. ASSUME NEW r \in strayExchanges, StrayExchange(r)
          PROVE  WrittenOnce'
      BY <2>3 DEF StrayExchange, Mint, WrittenOnce, Used, Pending, Tokens, NoTokens,
         None, Gen
    <2>4. ASSUME NEW tokens \in strayWrites, StrayWrite(tokens)
          PROVE  WrittenOnce'
      BY <2>4 DEF StrayWrite, WrittenOnce, Used, Pending, Tokens, NoTokens, None, Gen
    <2>5. CASE Crash
      BY <2>5 DEF Crash, WrittenOnce, Used, Pending, Tokens, NoTokens, None, Gen
    <2> QED
      BY <1>5, <2>1, <2>2, <2>3, <2>4, <2>5 DEF Environment
  <1>6. CASE UNCHANGED vars
    BY <1>6 DEF vars, taskVars, WrittenOnce, Used, Pending, Tokens, NoTokens, None, Gen
  <1> QED
    BY <1>1, <1>2, <1>3, <1>4, <1>5, <1>6 DEF Next

\* A rejected token is in use, so nobody is about to write it.
LEMMA RejectedIsUsed ==
  ASSUME TypeInv, WrittenOnce, NEW h \in Handlers
  PROVE  /\ \A t \in Tasks : Pending(t) => got[t].access # rejected[h]
         /\ \A tokens \in strayWrites : tokens.access # rejected[h]
  BY DEF WrittenOnce, Used, Tasks

\* A task that goes on with a token other than the rejected one, or ends.
LEMMA StillRetries ==
  ASSUME TypeInv, RetryFits, file' = file,
         NEW t \in Tasks, NEW g,
         Return(t, g) \/ Finish(t),
         Return(t, g) /\ rejected[t] # None => g # rejected[t]
  PROVE  RetryFits'
  <1> SUFFICES ASSUME NEW h \in Handlers PROVE RetryFit(h)'
    BY DEF RetryFits
  <1> USE DEF TypeInv, TypeOK, Tasks, Goto, RetryFits, RetryFit, Persisting
  <1>1. CASE Finish(t)
    BY <1>1 DEF Finish
  <1>2. CASE Return(t, g)
    BY <1>2 DEF Return
  <1> QED
    BY <1>1, <1>2

\* What is read, minted or written after a 401 is never the rejected token.
LEMMA RetryFitsNext == RetryInv /\ [Next]_vars => RetryFits'
  <1> SUFFICES ASSUME RetryInv, [Next]_vars PROVE RetryFits'
    OBVIOUS
  <1> USE CredentialsAssumption DEF RetryInv, TypeInv, TypeOK, RetryFits, RetryFit,
           Persisting, Tasks, Goto, At, taskVars, diskVars, endpointVars
  <1>1. CASE Arrivals
    <2>1. ASSUME NEW h \in Handlers, Request(h)
          PROVE  RetryFits'
      BY <2>1 DEF Request, Ask, LocalsFit
    <2>2. CASE Tick
      BY <2>2 DEF Tick, Ask, LocalsFit
    <2>3. ASSUME NEW lifetime \in {"short", "long"}, Push(lifetime)
          PROVE  RetryFits'
      BY <2>3 DEF Push, Ask, Mint, LocalsFit
    <2>4. CASE Status
      BY <2>4 DEF Status, Ask, LocalsFit
    <2> QED
      BY <1>1, <2>1, <2>2, <2>3, <2>4 DEF Arrivals
  <1>2. ASSUME NEW t \in Tasks, Acquire(t)
        PROVE  RetryFits'
    BY <1>2 DEF Acquire, LocalsFit
  <1>3. ASSUME NEW t \in Tasks, Locked(t)
        PROVE  RetryFits'
    <2>1. CASE ReadFresh(t)
      <3>1. Return(t, file.access) \/ Finish(t)
        BY <2>1 DEF ReadFresh, Readable
      <3>2. Return(t, file.access) => op[t] = "get"
        BY <2>1 DEF ReadFresh, Readable, Finish, Return
      <3>3. file' = file
        BY <2>1 DEF ReadFresh, Readable
      <3> QED
        BY <2>1, <3>1, <3>2, <3>3, StillRetries DEF ReadFresh, Readable, LocalsFit,
           OpsOf, Tasks, RetryFit
    <2>2. CASE ReadToRefresh(t)
      BY <2>2 DEF ReadToRefresh, Readable, LocalsFit
    <2>3. CASE ReadFails(t)
      <3>1. Finish(t) /\ file' = file /\ t \in Tasks
        BY <2>3 DEF ReadFails, Tasks
      <3>2. ~Return(t, None)
        BY <3>1 DEF Finish, Return
      <3> QED
        BY <3>1, <3>2, StillRetries
    <2>4. CASE ReadStatus(t)
      <3>1. Finish(t) /\ file' = file /\ t \in Tasks
        BY <2>4 DEF ReadStatus, Tasks
      <3>2. ~Return(t, None)
        BY <3>1 DEF Finish, Return
      <3> QED
        BY <3>1, <3>2, StillRetries
    <2>5. ASSUME NEW namesUser \in BOOLEAN, AcceptPush(t, namesUser)
          PROVE  RetryFits'
      BY <2>5 DEF AcceptPush, Finish, LocalsFit
    <2>6. ASSUME NEW rotates \in BOOLEAN, NEW lifetime \in {"short", "long"},
                 Refreshed(t, rotates, lifetime)
          PROVE  RetryFits'
      <3>1. got'[t].access = minted + 1
        BY <2>6 DEF Refreshed
      <3>2. \A h \in Handlers : rejected[h] \in Nat /\ rejected[h] <= minted /\ minted \in Nat
        BY DEF NothingUnminted, Gen, None
      <3>3. \A h \in Handlers : minted + 1 # rejected[h]
        BY <3>2
      <3>4. at' = [at EXCEPT ![t] = "stage"] /\ \A u \in Tasks \ {t} : got'[u] = got[u]
        BY <2>6 DEF Refreshed
      <3>5. UNCHANGED <<op, held, token, rejected, file>>
        BY <2>6 DEF Refreshed
      <3> QED
        BY <2>6, <3>1, <3>3, <3>4, <3>5 DEF LocalsFit
    <2>7. CASE RefreshFails(t)
      <3>1. Return(t, held[t].access) \/ Finish(t)
        BY <2>7 DEF RefreshFails, WithoutNewTokens
      <3>2. Return(t, held[t].access) => op[t] = "get"
        BY <2>7 DEF RefreshFails, WithoutNewTokens, Finish, Return
      <3>3. file' = file
        BY <2>7 DEF RefreshFails, WithoutNewTokens
      <3> QED
        BY <2>7, <3>1, <3>2, <3>3, StillRetries DEF RefreshFails, WithoutNewTokens,
           LocalsFit, OpsOf, Tasks, RetryFit
    <2>8. CASE RefreshLost(t)
      <3>1. Return(t, held[t].access) \/ Finish(t)
        BY <2>8 DEF RefreshLost, WithoutNewTokens, Mint
      <3>2. Return(t, held[t].access) => op[t] = "get"
        BY <2>8 DEF RefreshLost, WithoutNewTokens, Mint, Finish, Return
      <3>3. file' = file
        BY <2>8 DEF RefreshLost, WithoutNewTokens, Mint
      <3> QED
        BY <2>8, <3>1, <3>2, <3>3, StillRetries DEF RefreshLost, WithoutNewTokens,
           Mint, LocalsFit, OpsOf, Tasks, RetryFit
    <2>9. CASE Stage(t)
      BY <2>9 DEF Stage, LocalsFit
    <2>10. CASE Rename(t)
      <3>1. Pending(t)
        BY <2>10 DEF Rename, Pending
      <3>2. \A h \in Handlers : file'.access # rejected[h]
        BY <2>10, <3>1, RejectedIsUsed DEF Rename
      <3> QED
        BY <2>10, <3>2 DEF Rename, LocalsFit
    <2>11. CASE Sync(t)
      BY <2>11 DEF Sync, Persisted, Return, GetAgain, Ask, Finish, LocalsFit
    <2>12. CASE PersistFails(t)
      <3>1. Return(t, got[t].access) \/ Finish(t)
        BY <2>12 DEF PersistFails
      <3>2. Return(t, got[t].access) => op[t] = "get"
        BY <2>12 DEF PersistFails, Finish, Return
      <3>3. file' = file
        BY <2>12 DEF PersistFails
      <3> QED
        BY <2>12, <3>1, <3>2, <3>3, StillRetries DEF PersistFails, LocalsFit, OpsOf,
           Tasks, RetryFit
    <2> QED
      BY <1>3, <2>1, <2>2, <2>3, <2>4, <2>5, <2>6, <2>7, <2>8, <2>9, <2>10, <2>11,
         <2>12 DEF Locked
  <1>4. ASSUME NEW h \in Handlers, Upstream(h)
        PROVE  RetryFits'
    <2>1. CASE Answered(h)
      <3>1. Finish(h) /\ file' = file /\ h \in Tasks
        BY <2>1 DEF Answered, Tasks
      <3>2. ~Return(h, None)
        BY <3>1 DEF Finish, Return
      <3> QED
        BY <3>1, <3>2, StillRetries
    <2>2. CASE Unauthorized(h)
      BY <2>2 DEF Unauthorized, Ask, LocalsFit
    <2> QED
      BY <1>4, <2>1, <2>2 DEF Upstream
  <1>5. CASE Environment
    <2>1. ASSUME NEW g \in Gen, Ages(g)
          PROVE  RetryFits'
      BY <2>1 DEF Ages, LocalsFit
    <2>2. ASSUME NEW t \in Tasks, Cancel(t)
          PROVE  RetryFits'
      BY <2>2 DEF Cancel, Finish, LocalsFit
    <2>3. ASSUME NEW r \in strayExchanges, StrayExchange(r)
          PROVE  RetryFits'
      BY <2>3 DEF StrayExchange, Mint, LocalsFit
    <2>4. ASSUME NEW tokens \in strayWrites, StrayWrite(tokens)
          PROVE  RetryFits'
      <3>1. \A h \in Handlers : file'.access # rejected[h]
        BY <2>4, RejectedIsUsed DEF StrayWrite
      <3> QED
        BY <2>4, <3>1 DEF StrayWrite, LocalsFit
    <2>5. CASE Crash
      BY <2>5 DEF Crash, LocalsFit
    <2> QED
      BY <1>5, <2>1, <2>2, <2>3, <2>4, <2>5 DEF Environment
  <1>6. CASE UNCHANGED vars
    BY <1>6 DEF vars, taskVars, LocalsFit
  <1> QED
    BY <1>1, <1>2, <1>3, <1>4, <1>5, <1>6 DEF Next

\* A request that is sent again after a 401 (upstream.rs:124) is sent with an access
\* token other than the rejected one, whatever failed in between and whoever else
\* refreshed, pushed, was dropped or died.
THEOREM RetryIsNew == Spec => []RetriesWithNewToken
  <1>1. Init => RetryInv
    BY TypeInvInit, NothingUnmintedInit
       DEF Init, RetryInv, OneInside, Inside, WrittenOnce, Pending, RetryFits, RetryFit, Tasks
  <1>2. RetryInv /\ [Next]_vars => RetryInv'
    BY TypeInvNext, OneInsideNext, NothingUnmintedNext, WrittenOnceNext, RetryFitsNext
       DEF RetryInv
  <1>3. RetryInv => RetriesWithNewToken
    BY DEF RetryInv, RetryFits, RetryFit, RetriesWithNewToken, At
  <1> QED
    BY <1>1, <1>2, <1>3, PTL DEF Spec

-----------------------------------------------------------------------------
(* The token chain at rest: as long as nothing fails, whatever the         *)
(* handlers, the ticker and the admin do together, auth.json holds a       *)
(* refresh token the endpoint accepts whenever no operation is under way.  *)

Alive(tokens) == tokens = NoTokens \/ tokens.refresh \in live

\* Tokens a push brings are no one else's: t is the task that pushes.
PushIsApart(t) ==
  /\ at[t] # "sync" => file.refresh # got[t].refresh
  /\ \A u \in Tasks \ {t} :
       /\ held[u].refresh # got[t].refresh
       /\ at[u] \in Persisting => got[u].refresh # got[t].refresh

\* Outside a write every possible content of the file is alive; what is to be written is.
RestFits ==
  /\ strayExchanges = {} /\ strayWrites = {}
  /\ (\A t \in Tasks : at[t] \notin Persisting) => \A tokens \in survivors : Alive(tokens)
  /\ \A t \in Tasks : at[t] \in Persisting \/ op[t] = "push" => got[t].refresh \in live
  /\ \A t \in Tasks : at[t] = "sync" => file = got[t]
  /\ \A t \in Tasks : op[t] = "push" => PushIsApart(t)

RestInv == TypeInv /\ OneInside /\ NothingUnminted /\ RestFits

\* What one task does to the others: nothing.
Alone(t) ==
  \A u \in Tasks \ {t} :
    at'[u] = at[u] /\ op'[u] = op[u] /\ held'[u] = held[u] /\ got'[u] = got[u]

\* The tokens a push brings are numbered.
LEMMA PushedIsMinted ==
  ASSUME TypeInv, NEW t \in Tasks, op[t] = "push"
  PROVE  got[t].refresh \in Gen /\ got[t].refresh # NoTokens.refresh
  BY CredentialsAssumption DEF TypeInv, LocalsFit, Tokens, Gen, NoTokens, None

\* A task that neither begins nor ends a write, and takes no tokens.
LEMMA StillRests ==
  ASSUME RestInv, NEW t \in Tasks, Alone(t),
         at[t] \notin Persisting, at'[t] \notin Persisting,
         op'[t] = "push" => op[t] = "push" /\ got'[t] = got[t],
         held'[t] \in {held[t], NoTokens},
         UNCHANGED <<file, survivors, live, strayExchanges, strayWrites>>
  PROVE  RestFits'
  <1> USE DEF RestInv
  <1>1. strayExchanges' = {} /\ strayWrites' = {}
    BY DEF RestFits
  <1>2. (\A u \in Tasks : at'[u] \notin Persisting) => \A tokens \in survivors' : Alive(tokens)'
    BY DEF RestFits, Alone, Alive
  <1>3. ASSUME NEW u \in Tasks, at'[u] \in Persisting \/ op'[u] = "push"
        PROVE  got'[u].refresh \in live'
    BY <1>3 DEF RestFits, Alone
  <1>4. ASSUME NEW u \in Tasks, at'[u] = "sync"
        PROVE  file' = got'[u]
    BY <1>4 DEF RestFits, Alone, Persisting
  <1>5. ASSUME NEW u \in Tasks, op'[u] = "push"
        PROVE  PushIsApart(u)'
    <2>1. op[u] = "push" /\ got'[u] = got[u] /\ PushIsApart(u)
      BY <1>5 DEF RestFits, Alone
    <2>2. at'[u] # "sync" => file'.refresh # got'[u].refresh
      BY <2>1 DEF PushIsApart, Alone, Persisting
    <2>3. ASSUME NEW v \in Tasks \ {u}
          PROVE  /\ held'[v].refresh # got'[u].refresh
                 /\ at'[v] \in Persisting => got'[v].refresh # got'[u].refresh
      BY <2>1, PushedIsMinted DEF PushIsApart, Alone
    <2> QED
      BY <2>2, <2>3 DEF PushIsApart
  <1> QED
    BY <1>1, <1>2, <1>3, <1>4, <1>5 DEF RestFits

-----------------------------------------------------------------------------
(* Steps that begin, carry out or end a write *)

\* The operator's new login: newer than anything anyone holds.
LEMMA PushRests ==
  ASSUME RestInv, NEW lifetime \in {"short", "long"}, Push(lifetime)
  PROVE  RestFits'
  <1> USE CredentialsAssumption DEF RestInv, TypeInv, TypeOK
  <1>1. /\ Admin \in Tasks /\ at[Admin] = "idle" /\ at' = [at EXCEPT ![Admin] = "waiting"]
        /\ op' = [op EXCEPT ![Admin] = "push"] /\ held' = held
        /\ got' = [got EXCEPT ![Admin] = [access |-> minted + 1, refresh |-> minted + 1]]
        /\ live' = live \union {minted + 1}
        /\ UNCHANGED <<file, survivors, strayExchanges, strayWrites>>
    BY DEF Push, Ask, Goto, At, Mint, Tasks, diskVars
  <1>2. minted \in Nat
    BY DEF Gen
  <1>3. strayExchanges' = {} /\ strayWrites' = {}
    BY <1>1 DEF RestFits
  <1>4. (\A u \in Tasks : at'[u] \notin Persisting) => \A tokens \in survivors' : Alive(tokens)'
    BY <1>1 DEF RestFits, Alive, Persisting
  <1>5. ASSUME NEW u \in Tasks, at'[u] \in Persisting \/ op'[u] = "push"
        PROVE  got'[u].refresh \in live'
    BY <1>1, <1>5 DEF RestFits, Persisting
  <1>6. ASSUME NEW u \in Tasks, at'[u] = "sync"
        PROVE  file' = got'[u]
    BY <1>1, <1>6 DEF RestFits
  <1>7. ASSUME NEW u \in Tasks, op'[u] = "push"
        PROVE  PushIsApart(u)'
    <2>1. u = Admin /\ got'[u].refresh = minted + 1
      BY <1>1, <1>7, TypeInvNext DEF OpsOf, Tasks
    <2>2. file'.refresh # minted + 1
      BY <1>1, <1>2 DEF NothingUnminted, Known, Tokens, NoTokens, Gen, None
    <2>3. ASSUME NEW v \in Tasks \ {u}
          PROVE  held'[v].refresh # minted + 1 /\ got'[v].refresh # minted + 1
      BY <1>1, <1>2, <2>1 DEF NothingUnminted, Known, Tokens, NoTokens, Gen, None
    <2> QED
      BY <2>1, <2>2, <2>3 DEF PushIsApart
  <1> QED
    BY <1>3, <1>4, <1>5, <1>6, <1>7 DEF RestFits

\* What a refresh reads is the file's, which a push waiting for the mutex is not.
LEMMA ReadToRefreshRests ==
  ASSUME RestInv, NEW t \in Tasks, ReadToRefresh(t)
  PROVE  RestFits'
  <1> USE DEF RestInv, TypeInv, TypeOK
  <1>1. /\ at[t] = "read" /\ at' = [at EXCEPT ![t] = "refresh"]
        /\ held' = [held EXCEPT ![t] = file] /\ op[t] # "push"
        /\ UNCHANGED <<op, got, file, survivors, live, strayExchanges, strayWrites>>
    BY DEF ReadToRefresh, Goto, At, diskVars, endpointVars
  <1>2. \A u \in Tasks : at[u] \notin Persisting
    BY <1>1 DEF OneInside, Inside, Persisting
  <1>3. \A u \in Tasks : at'[u] \notin Persisting
    BY <1>1, <1>2 DEF Persisting
  <1>4. ASSUME NEW u \in Tasks, op[u] = "push"
        PROVE  PushIsApart(u)'
    <2>1. PushIsApart(u) /\ u # t /\ file.refresh # got[u].refresh
      BY <1>1, <1>2, <1>4 DEF RestFits, PushIsApart, Persisting
    <2> QED
      BY <1>1, <1>3, <2>1 DEF PushIsApart
  <1> QED
    BY <1>1, <1>2, <1>3, <1>4 DEF RestFits, Alive, Persisting

\* A push that is accepted is alive; it is the pushing task's to write.
LEMMA AcceptedRests ==
  ASSUME RestInv, NEW t \in Tasks, at[t] = "read", op[t] = "push",
         at' = [at EXCEPT ![t] = "stage"],
         UNCHANGED <<op, held, got, file, survivors, live, strayExchanges, strayWrites>>
  PROVE  RestFits'
  <1> USE DEF RestInv, TypeInv, TypeOK
  <1>1. \A u \in Tasks : at[u] \notin Persisting
    BY DEF OneInside, Inside, Persisting
  <1>2. ASSUME NEW u \in Tasks, op[u] = "push"
        PROVE  PushIsApart(u)'
    <2>1. u = t /\ PushIsApart(u)
      BY <1>2 DEF RestFits, OpsOf, Tasks
    <2> QED
      BY <1>1, <2>1 DEF PushIsApart, Persisting
  <1> QED
    BY <1>1, <1>2 DEF RestFits, Persisting

\* A refresh spends what it read, which no push brings, and holds what replaces it.
LEMMA RefreshedRests ==
  ASSUME RestInv, NEW t \in Tasks, NEW rotates \in BOOLEAN, NEW lifetime \in {"short", "long"},
         Refreshed(t, rotates, lifetime)
  PROVE  RestFits'
  <1> USE DEF RestInv, TypeInv, TypeOK
  <1> DEFINE r == held[t].refresh
             new == minted + 1
  <1>1. /\ at[t] = "refresh" /\ r \in live /\ at' = [at EXCEPT ![t] = "stage"]
        /\ live' = IF rotates THEN (live \ {r}) \union {new} ELSE live
        /\ got' = [got EXCEPT ![t] = [access |-> new, refresh |-> IF rotates THEN new ELSE r]]
        /\ UNCHANGED <<op, held, file, survivors, strayExchanges, strayWrites>>
    BY DEF Refreshed, Goto, At, Mint, diskVars
  <1>2. op[t] # "push" /\ minted \in Nat /\ \A u \in Tasks : at[u] \notin Persisting
    BY <1>1 DEF LocalsFit, OneInside, Inside, Persisting, Gen
  <1>3. got'[t].refresh \in live' /\ got'[t].refresh \in {new, r}
    BY <1>1
  <1>4. ASSUME NEW u \in Tasks, op[u] = "push"
        PROVE  got'[u].refresh \in live' /\ PushIsApart(u)'
    <2>1. u # t /\ got'[u] = got[u] /\ got[u].refresh \in live /\ PushIsApart(u)
      BY <1>1, <1>2, <1>4 DEF RestFits
    <2>2. got[u].refresh # r /\ got[u].refresh # new
      BY <1>2, <2>1 DEF PushIsApart, NothingUnminted, Known, Tokens, NoTokens, Gen, None
    <2>3. file'.refresh # got'[u].refresh
      BY <1>1, <1>2, <2>1 DEF PushIsApart, Persisting
    <2>4. ASSUME NEW v \in Tasks \ {u}
          PROVE  /\ held'[v].refresh # got'[u].refresh
                 /\ at'[v] \in Persisting => got'[v].refresh # got'[u].refresh
      BY <1>1, <1>2, <1>3, <2>1, <2>2 DEF PushIsApart
    <2> QED
      BY <1>1, <2>1, <2>2, <2>3, <2>4 DEF PushIsApart
  <1>5. ASSUME NEW u \in Tasks, at'[u] \in Persisting
        PROVE  u = t /\ at'[u] = "stage"
    BY <1>1, <1>2, <1>5
  <1>6. at'[t] \in Persisting
    BY <1>1 DEF Persisting
  <1>7. strayExchanges' = {} /\ strayWrites' = {}
    BY <1>1 DEF RestFits
  <1> QED
    BY <1>1, <1>3, <1>4, <1>5, <1>6, <1>7 DEF RestFits, Persisting

\* The temporary file changes nothing yet.
LEMMA StageRests ==
  ASSUME RestInv, NEW t \in Tasks, Stage(t)
  PROVE  RestFits'
  <1> USE DEF RestInv, TypeInv, TypeOK
  <1>1. /\ at[t] = "stage" /\ at' = [at EXCEPT ![t] = "rename"]
        /\ UNCHANGED <<op, held, got, file, survivors, live, strayExchanges, strayWrites>>
    BY DEF Stage, Goto, At, diskVars, endpointVars
  <1>2. ASSUME NEW u \in Tasks, op[u] = "push"
        PROVE  PushIsApart(u)'
    <2>1. PushIsApart(u)
      BY <1>2 DEF RestFits
    <2> QED
      BY <1>1, <2>1 DEF PushIsApart, Persisting
  <1> QED
    BY <1>1, <1>2 DEF RestFits, Persisting

\* auth.json becomes what the task holds; a push that waits brings other tokens.
LEMMA RenameRests ==
  ASSUME RestInv, NEW t \in Tasks, Rename(t)
  PROVE  RestFits'
  <1> USE DEF RestInv, TypeInv, TypeOK
  <1>1. /\ at[t] = "rename" /\ at' = [at EXCEPT ![t] = "sync"] /\ file' = got[t]
        /\ UNCHANGED <<op, held, got, live, strayExchanges, strayWrites>>
    BY DEF Rename, Goto, At, endpointVars
  <1>2. \A u \in Tasks \ {t} : at[u] \notin Persisting
    BY <1>1 DEF OneInside, Inside, Persisting
  <1>3. ASSUME NEW u \in Tasks, op[u] = "push"
        PROVE  PushIsApart(u)'
    <2>1. PushIsApart(u)
      BY <1>3 DEF RestFits
    <2>2. at'[u] # "sync" => file'.refresh # got'[u].refresh
      BY <1>1, <2>1 DEF PushIsApart, Persisting
    <2> QED
      BY <1>1, <2>1, <2>2 DEF PushIsApart, Persisting
  <1>4. at'[t] \in Persisting
    BY <1>1 DEF Persisting
  <1> QED
    BY <1>1, <1>2, <1>3, <1>4 DEF RestFits, Persisting

\* Once it is durable, what was written is all the file can hold.
LEMMA SyncRests ==
  ASSUME RestInv, NEW t \in Tasks, Sync(t)
  PROVE  RestFits'
  <1> USE DEF RestInv, TypeInv, TypeOK
  <1>1. /\ at[t] = "sync" /\ at'[t] \in {"send", "waiting", "idle"} /\ op'[t] # "push"
        /\ held'[t] = NoTokens /\ Alone(t) /\ survivors' = {file}
        /\ UNCHANGED <<file, live, strayExchanges, strayWrites>>
    BY DEF Sync, Persisted, Return, GetAgain, Ask, Finish, Goto, At, Alone, endpointVars
  <1>2. file.refresh \in live /\ \A u \in Tasks \ {t} : at[u] \notin Persisting
    BY <1>1 DEF RestFits, OneInside, Inside, Persisting
  <1>3. \A u \in Tasks : at'[u] \notin Persisting
    BY <1>1, <1>2 DEF Alone, Persisting
  <1>4. ASSUME NEW u \in Tasks, op'[u] = "push"
        PROVE  got'[u].refresh \in live' /\ PushIsApart(u)'
    <2>1. u # t /\ op[u] = "push" /\ got'[u] = got[u] /\ PushIsApart(u)
      BY <1>1, <1>4 DEF RestFits, Alone
    <2>2. got[u].refresh # NoTokens.refresh
      BY <2>1, PushedIsMinted
    <2>3. file'.refresh # got'[u].refresh
      BY <1>1, <1>2, <2>1 DEF PushIsApart, Persisting
    <2>4. ASSUME NEW v \in Tasks \ {u}
          PROVE  held'[v].refresh # got'[u].refresh
      BY <1>1, <2>1, <2>2 DEF PushIsApart, Alone
    <2> QED
      BY <1>1, <1>3, <2>1, <2>3, <2>4 DEF RestFits, PushIsApart
  <1> QED
    BY <1>1, <1>2, <1>3, <1>4 DEF RestFits, Alive, Persisting

\* The clock touches neither the file nor the chain.
LEMMA AgesRests ==
  ASSUME RestInv, UNCHANGED <<at, op, held, got, file, survivors, live, strayExchanges, strayWrites>>
  PROVE  RestFits'
  BY DEF RestInv, RestFits, Alive, PushIsApart

-----------------------------------------------------------------------------
(* Every step *)

\* The steps under the mutex.
LEMMA LockedRests ==
  ASSUME Faults = {}, RestInv, NEW t \in Tasks, Locked(t)
  PROVE  RestFits'
  <1> USE DEF RestInv, TypeInv, TypeOK, Goto, At, Alone, Persisting, diskVars, endpointVars
  <1>1. CASE ReadFresh(t)
    BY <1>1, StillRests DEF ReadFresh, Readable, Return, Finish
  <1>2. CASE ReadToRefresh(t)
    BY <1>2, ReadToRefreshRests
  <1>3. CASE ReadFails(t)
    BY <1>3, StillRests DEF ReadFails, Finish
  <1>4. CASE ReadStatus(t)
    BY <1>4, StillRests DEF ReadStatus, Finish
  <1>5. ASSUME NEW namesUser \in BOOLEAN, AcceptPush(t, namesUser)
        PROVE  RestFits'
    <2>1. CASE Readable \/ namesUser
      BY <1>5, <2>1, AcceptedRests DEF AcceptPush
    <2>2. CASE ~(Readable \/ namesUser)
      BY <1>5, <2>2, StillRests DEF AcceptPush, Finish
    <2> QED
      BY <2>1, <2>2
  <1>6. ASSUME NEW rotates \in BOOLEAN, NEW lifetime \in {"short", "long"},
               Refreshed(t, rotates, lifetime)
        PROVE  RestFits'
    BY <1>6, RefreshedRests
  <1>7. CASE RefreshFails(t)
    BY <1>7, StillRests DEF RefreshFails, WithoutNewTokens, Return, Finish
  <1>8. ~RefreshLost(t) /\ ~PersistFails(t)
    BY DEF RefreshLost, PersistFails
  <1>9. CASE Stage(t)
    BY <1>9, StageRests
  <1>10. CASE Rename(t)
    BY <1>10, RenameRests
  <1>11. CASE Sync(t)
    BY <1>11, SyncRests
  <1> QED
    BY <1>1, <1>2, <1>3, <1>4, <1>5, <1>6, <1>7, <1>8, <1>9, <1>10, <1>11 DEF Locked

\* Every step, as long as nothing fails.
LEMMA RestFitsNext ==
  ASSUME Faults = {}, RestInv, [Next]_vars
  PROVE  RestFits'
  <1> USE DEF RestInv, TypeInv, TypeOK, Goto, At, Alone, Persisting, diskVars, endpointVars, Tasks
  <1>1. ASSUME NEW h \in Handlers, Request(h)
        PROVE  RestFits'
    BY <1>1, StillRests DEF Request, Ask
  <1>2. CASE Tick
    BY <1>2, StillRests DEF Tick, Ask
  <1>3. ASSUME NEW lifetime \in {"short", "long"}, Push(lifetime)
        PROVE  RestFits'
    BY <1>3, PushRests
  <1>4. CASE Status
    BY <1>4, StillRests DEF Status, Ask
  <1>5. ASSUME NEW t \in Tasks, Acquire(t)
        PROVE  RestFits'
    BY <1>5, StillRests DEF Acquire
  <1>6. ASSUME NEW t \in Tasks, Locked(t)
        PROVE  RestFits'
    BY <1>6, LockedRests
  <1>7. ASSUME NEW h \in Handlers, Answered(h)
        PROVE  RestFits'
    BY <1>7, StillRests DEF Answered, Finish
  <1>8. ASSUME NEW h \in Handlers, Unauthorized(h)
        PROVE  RestFits'
    BY <1>8, StillRests DEF Unauthorized, Ask
  <1>9. ASSUME NEW g \in Gen, Ages(g)
        PROVE  RestFits'
    BY <1>9, AgesRests DEF Ages, taskVars
  <1>10. /\ ~Crash /\ \A t \in Tasks : ~Cancel(t)
         /\ strayExchanges = {} /\ strayWrites = {}
    BY DEF Crash, Cancel, RestFits
  <1>11. CASE UNCHANGED vars
    BY <1>11, AgesRests DEF vars
  <1> QED
    BY <1>1, <1>2, <1>3, <1>4, <1>5, <1>6, <1>7, <1>8, <1>9, <1>10, <1>11
       DEF Next, Arrivals, Upstream, Environment

\* As long as no reply is lost, no file operation fails, no caller is dropped and
\* the pod lives, the file holds a refresh token the endpoint accepts whenever no
\* operation is under way (fs.rs:172).  Each of the four breaks the chain on its own.
THEOREM ChainRests ==
  ASSUME Faults = {}
  PROVE  Spec => []ChainAtRest
  <1>1. Init => RestInv
    BY CredentialsAssumption, TypeInvInit, NothingUnmintedInit
       DEF Init, RestInv, OneInside, RestFits, Alive, PushIsApart, Inside, Persisting, Tasks
  <1>2. RestInv /\ [Next]_vars => RestInv'
    BY TypeInvNext, OneInsideNext, NothingUnmintedNext, RestFitsNext DEF RestInv
  <1>3. RestInv => ChainAtRest
    BY DEF RestInv, RestFits, Alive, ChainAtRest, Persisting, Inside
  <1> QED
    BY <1>1, <1>2, <1>3, PTL DEF Spec
=============================================================================
