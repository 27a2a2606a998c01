----------------------------- MODULE RouterProofs -----------------------------
(***************************************************************************)
(* Proofs about Router, for any pool, any set of requests and any plans.   *)
(***************************************************************************)
EXTENDS Router, PoolProofs, TLAPS

\* The handler has chosen its primary account, its alternative one.
HasAccount == {"primary", "pin", "cool", "clear", "repick", "repicking", "alt",
               "repin", "coolAlt", "respond"}
HasAlt == {"alt", "repin", "coolAlt"}
BeforeFirst == {"idle", "lookup", "pinHealth", "pinTier", "pick", "picking", "primary"}
AfterFailure == {"cool", "clear", "repick", "repicking", "alt", "repin", "coolAlt"}
BeforeSecond == PCs \ {"repin", "coolAlt", "respond"}

\* The locals agree with the place the handler is at.
LocalsFit ==
  \A t \in Tasks :
    /\ pc[t] \in HasAccount => account[t] \in Account
    /\ pc[t] \in HasAlt => alt[t] \in Account
    /\ pc[t] \in BeforeFirst => first[t] = Pending
    /\ pc[t] \in HasAccount \ {"primary"} => first[t] # Pending
    /\ pc[t] = "pin" => first[t] \notin Retry
    /\ pc[t] \in AfterFailure => first[t] \in Retry
    /\ pc[t] \in BeforeSecond => second[t] = Pending
    /\ pc[t] = "repin" => second[t] \in Terminal
    /\ pc[t] = "coolAlt" => second[t] \in Retry

\* Only a request with a key, on a router with a store, waits for the store.
KeyFits ==
  \A t \in Tasks : pc[t] \in {"lookup", "pin", "clear", "repin"} => Stored(t)

\* A scan that has ended has an account.
ScansReturn == \A t \in Tasks : scan[t].phase = "done" => scan[t].result \in Account

\* A gate came from an account whose plan lacks the model.
GatesAreTrue ==
  \A t \in Tasks :
    /\ first[t] = "gate" => <<account[t], model[t]>> \notin Entitled
    /\ second[t] = "gate" => <<alt[t], model[t]>> \notin Entitled

NotFor(s, a) == a = s.exclude \/ <<a, s.model>> \notin Entitled

\* What a scan has learnt: pass 2 has passed over accounts that would not do, and
\* a scan that ended with the excluded account found no other.
ScanFits(s) ==
  /\ s.phase = "tier" => Candidate(s) # s.exclude
  /\ s.phase = "retier" => \A j \in Account : j < s.i => NotFor(s, Plus(s.start, j))
  /\ s.phase = "done" /\ s.result = s.exclude => \A a \in Account : NotFor(s, a)

ScansFit ==
  \A t \in Tasks :
    /\ ScanFits(scan[t])
    /\ pc[t] \in {"picking", "repicking"} => scan[t].phase # "off"
    /\ pc[t] = "repicking" => scan[t].exclude = account[t] /\ scan[t].model = model[t]

Inv ==
  /\ TypeOK
  /\ KeyFits
  /\ LocalsFit
  /\ ScansReturn
  /\ TierGateCooldownsAreTrue
  /\ GatesAreTrue
  /\ ScansFit
  /\ GivesUpOnlyIfNobodyElse

-----------------------------------------------------------------------------
(* Types *)

\* PodOutcome yields outcomes, and what becomes of them is a reply.
LEMMA OutcomesTyped ==
  /\ \A a, m : PodOutcome(a, m) \subseteq Outcome
  /\ \A o \in Outcome \union {Pending} : OrError(o) \in Replies \union {Pending}
  /\ \A o \in Outcome \ {"unreachable"} : o \in Replies
  /\ Pending \notin Outcome /\ Pending \notin Terminal /\ Pending \notin Retry
  BY DEF PodOutcome, Outcome, Terminal, Retry, AccountWide, OrError, Replies, Pending

\* What typing needs beyond TypeOK: a store command has a key, and a reply is
\* made of an attempt that has come back.
TypeInv == TypeOK /\ KeyFits /\ LocalsFit /\ ScansReturn

LEMMA TypeInvInit == Init => TypeInv
  <1> SUFFICES ASSUME Init PROVE TypeInv
    OBVIOUS
  <1>1. PoolTypeOK
    BY NoScanTyped, OneInPool DEF Init, PoolInit, PoolTypeOK
  <1>2. TypeOK
    BY <1>1 DEF Init, TypeOK, PCs, Awaits, AnyModel, Replies
  <1>3. KeyFits /\ LocalsFit /\ ScansReturn
    BY DEF Init, PoolInit, NoScan, ScansReturn, KeyFits, LocalsFit, HasAccount, HasAlt, BeforeFirst, AfterFailure, BeforeSecond
  <1> QED
    BY <1>2, <1>3 DEF TypeInv

\* The pool's part of the state, at every step of the router.
LEMMA PoolTypeOKNext == TypeInv /\ [Next]_vars => PoolTypeOK'
  <1> SUFFICES ASSUME TypeInv, [Next]_vars PROVE PoolTypeOK'
    OBVIOUS
  <1> USE DEF poolVars
  <1>p. PoolTypeOK /\ TypeOK /\ LocalsFit
    BY DEF TypeInv, TypeOK
  <1>1. UNCHANGED poolVars => PoolTypeOK'
    BY <1>p DEF PoolTypeOK
  <1>2. ASSUME NEW t \in Tasks, NEW a \in Account, NEW m \in AnyModel, NEW o,
               CoolFor(a, m, o), UNCHANGED <<next, scan>>
        PROVE  PoolTypeOK'
    BY <1>p, <1>2 DEF PoolTypeOK, CoolFor, Cooldown, CooldownModel, GateEntry
  <1>3. ASSUME NEW t \in Tasks, scan' = [scan EXCEPT ![t] = NoScan],
               UNCHANGED <<next, cooling, modelCooling>>
        PROVE  PoolTypeOK'
    BY <1>p, <1>3, NoScanTyped DEF PoolTypeOK
  <1>4. ASSUME NEW t \in Tasks, Step(t)
        PROVE  PoolTypeOK'
    <2>m. model[t] \in AnyModel /\ account[t] \in Account \union {NoAccount}
      BY <1>p DEF TypeOK
    <2>1. CASE BeginPick(t)
      BY <1>p, <2>1, <2>m, StartScanTyped DEF BeginPick
    <2>2. CASE BeginRepick(t)
      BY <1>p, <2>2, <2>m, StartScanTyped DEF BeginRepick
    <2>3. CASE PickOn(t)
      BY <1>p, <2>3, ScanStepTyped DEF PickOn
    <2>4. CASE Picked(t) \/ Repicked(t) \/ NothingElse(t)
      BY <1>3, <2>4 DEF Picked, Repicked, NothingElse
    <2>5. CASE CoolPrimary(t)
      <3>1. account[t] \in Account
        BY <1>p, <2>5 DEF CoolPrimary, At, LocalsFit, HasAccount
      <3> QED
        BY <1>2, <2>5, <2>m, <3>1 DEF CoolPrimary
    <2>6. CASE CoolAlt(t)
      <3>1. alt[t] \in Account
        BY <1>p, <2>6 DEF CoolAlt, At, LocalsFit, HasAlt
      <3> QED
        BY <1>2, <2>6, <2>m, <3>1 DEF CoolAlt
    <2>7. CASE \/ Lookup(t) \/ PinHealth(t) \/ UsePin(t) \/ RefusePin(t)
               \/ \E o \in PodOutcome(account[t], model[t]) : PrimaryReturns(t, o)
               \/ PinPrimary(t) \/ ClearPin(t)
               \/ \E o \in PodOutcome(alt[t], model[t]) : AltReturns(t, o)
               \/ PinAlt(t) \/ Respond(t)
      BY <1>1, <2>7 DEF Lookup, PinHealth, UsePin, RefusePin, PrimaryReturns, PinPrimary,
                        ClearPin, AltReturns, PinAlt, Respond
    <2> QED
      BY <1>4, <2>1, <2>2, <2>3, <2>4, <2>5, <2>6, <2>7 DEF Step
  <1>5. CASE Restart
    BY <1>5, NoScanTyped, OneInPool DEF Restart, PoolTypeOK
  <1>6. CASE CoolingEnds
    BY <1>p, <1>6 DEF CoolingEnds, CooldownExpires, ModelCooldownExpires, PoolTypeOK
  <1>7. CASE \/ \E t \in Tasks, b \in Bodies : Arrive(t, b[1], b[2])
             \/ \E t \in Tasks : Disconnect(t)
             \/ \E c \in Conversations : PinExpires(c)
             \/ UNCHANGED vars
    BY <1>1, <1>7 DEF Arrive, Disconnect, PinExpires, vars
  <1> QED
    BY <1>4, <1>5, <1>6, <1>7 DEF Next

\* A scan ends with the candidate it took or with the first account.
LEMMA ScansReturnNext == TypeInv /\ [Next]_vars => ScansReturn'
  <1> SUFFICES ASSUME TypeInv, [Next]_vars PROVE ScansReturn'
    OBVIOUS
  <1>p. PoolTypeOK /\ ScansReturn
    BY DEF TypeInv, TypeOK
  <1>1. UNCHANGED scan => ScansReturn'
    BY <1>p DEF ScansReturn
  <1>2. ASSUME NEW t \in Tasks, NEW new, scan' = [scan EXCEPT ![t] = new],
               new.phase = "done" => new.result \in Account
        PROVE  ScansReturn'
    BY <1>p, <1>2 DEF ScansReturn, PoolTypeOK
  <1>3. ASSUME NEW t \in Tasks, scan' = [scan EXCEPT ![t] = NoScan]
        PROVE  ScansReturn'
    BY <1>2, <1>3 DEF NoScan
  <1>4. ASSUME NEW t \in Tasks, NEW e, NEW m, StartScan(t, e, m)
        PROVE  ScansReturn'
    <2>1. [NoScan EXCEPT !.phase = "health", !.start = next, !.exclude = e, !.model = m].phase = "health"
      BY DEF NoScan
    <2> QED
      BY <1>2, <1>4, <2>1 DEF StartScan
  <1>5. ASSUME NEW t \in Tasks, ScanStep(t)
        PROVE  ScansReturn'
    <2> DEFINE s == scan[t]
    <2>1. s \in Scan
      BY <1>p DEF PoolTypeOK
    <2>2. s.phase \in {"health", "tier", "retier"} /\ Skip(s).phase = "done" => Skip(s).result \in Account
      BY <2>1, OneInPool DEF Skip, Scan
    <2>3. Take(s).result \in Account
      BY <2>1, PlusInPool DEF Take, Scan, Candidate
    <2>4. [s EXCEPT !.phase = "tier"].phase # "done"
      BY <2>1 DEF Scan
    <2> QED
      BY <1>2, <1>5, <2>2, <2>3, <2>4 DEF ScanStep, CheckHealth, CheckTier, CheckTierAgain
  <1>6. ASSUME NEW t \in Tasks, Step(t)
        PROVE  ScansReturn'
    BY <1>1, <1>3, <1>4, <1>5, <1>6
       DEF Step, Lookup, PinHealth, UsePin, RefusePin, BeginPick, PickOn, Picked, PrimaryReturns,
           PinPrimary, CoolPrimary, ClearPin, BeginRepick, Repicked, NothingElse, AltReturns,
           PinAlt, CoolAlt, Respond, poolVars
  <1>7. CASE Restart
    BY <1>7 DEF Restart, ScansReturn, NoScan
  <1>8. CASE \/ \E t \in Tasks, b \in Bodies : Arrive(t, b[1], b[2])
             \/ \E t \in Tasks : Disconnect(t)
             \/ \E c \in Conversations : PinExpires(c)
             \/ CoolingEnds
             \/ UNCHANGED vars
    BY <1>1, <1>8 DEF Arrive, Disconnect, PinExpires, CoolingEnds, CooldownExpires,
                      ModelCooldownExpires, vars, poolVars
  <1> QED
    BY <1>6, <1>7, <1>8 DEF Next

\* Every step leaves the locals of every handler in agreement with its place.
LEMMA TypeInvNext == TypeInv /\ [Next]_vars => TypeInv'
  <1> SUFFICES ASSUME TypeInv, [Next]_vars PROVE TypeInv'
    OBVIOUS
  <1> USE DEF KeyFits, LocalsFit, HasAccount, HasAlt, BeforeFirst, AfterFailure, BeforeSecond,
              TypeInv, Goto, At, poolVars, taskVars, Awaits, PCs, NoAccount, NoPin, Stored
  <1>p. PoolTypeOK' /\ ScansReturn'
    BY PoolTypeOKNext, ScansReturnNext
  <1>1. ASSUME NEW t \in Tasks, NEW b \in Bodies, Arrive(t, b[1], b[2])
        PROVE  TypeInv'
    <2>1. b[1] \in Conversations \union {NoConversation} /\ b[2] \in AnyModel
      BY RouterAssumption
    <2>2. TypeOK'
      BY <1>1, <1>p, <2>1 DEF Arrive, TypeOK, Replies
    <2>3. KeyFits' /\ LocalsFit'
      BY <1>1 DEF Arrive, TypeOK
    <2> QED
      BY <1>p, <2>2, <2>3
  <1>2. ASSUME NEW t \in Tasks, Step(t)
        PROVE  TypeInv'
    <2>1. CASE Lookup(t)
      <3>1. TypeOK'
        BY <2>1, <1>p DEF Lookup, TypeOK
      <3>2. KeyFits' /\ LocalsFit'
        BY <2>1 DEF Lookup, TypeOK
      <3> QED
        BY <1>p, <3>1, <3>2
    <2>2. CASE PinHealth(t)
      <3>1. TypeOK'
        BY <2>2, <1>p DEF PinHealth, NoUsablePin, TypeOK
      <3>2. KeyFits' /\ LocalsFit'
        BY <2>2 DEF PinHealth, NoUsablePin, TypeOK
      <3> QED
        BY <1>p, <3>1, <3>2
    <2>3. CASE UsePin(t)
      <3>1. TypeOK'
        BY <2>3, <1>p DEF UsePin, PinUsable, TypeOK
      <3>2. KeyFits' /\ LocalsFit'
        BY <2>3 DEF UsePin, PinUsable, TypeOK
      <3> QED
        BY <1>p, <3>1, <3>2
    <2>4. CASE RefusePin(t)
      <3>1. TypeOK'
        BY <2>4, <1>p DEF RefusePin, NoUsablePin, TypeOK
      <3>2. KeyFits' /\ LocalsFit'
        BY <2>4 DEF RefusePin, NoUsablePin, TypeOK
      <3> QED
        BY <1>p, <3>1, <3>2
    <2>5. CASE BeginPick(t)
      <3>1. TypeOK'
        BY <2>5, <1>p DEF BeginPick, TypeOK
      <3>2. KeyFits' /\ LocalsFit'
        BY <2>5 DEF BeginPick, TypeOK
      <3> QED
        BY <1>p, <3>1, <3>2
    <2>6. CASE PickOn(t)
      <3>1. TypeOK'
        BY <2>6, <1>p DEF PickOn, TypeOK
      <3>2. KeyFits' /\ LocalsFit'
        BY <2>6 DEF PickOn, TypeOK
      <3> QED
        BY <1>p, <3>1, <3>2
    <2>7. CASE Picked(t)
      <3>1. TypeOK'
        BY <2>7, <1>p DEF Picked, ScansReturn, TypeOK
      <3>2. KeyFits' /\ LocalsFit'
        BY <2>7 DEF Picked, ScansReturn, TypeOK
      <3> QED
        BY <1>p, <3>1, <3>2
    <2>8. ASSUME NEW o \in PodOutcome(account[t], model[t]), PrimaryReturns(t, o)
          PROVE  TypeInv'
      <3>1. TypeOK'
        BY <2>8, <1>p, OutcomesTyped DEF PrimaryReturns, TypeOK
      <3>2. KeyFits' /\ LocalsFit'
        <4>1. o # Pending
          BY OutcomesTyped
        <4> QED
          BY <2>8, <4>1 DEF PrimaryReturns, TypeOK
      <3> QED
        BY <1>p, <3>1, <3>2
    <2>9. CASE PinPrimary(t)
      <3>1. TypeOK'
        BY <2>9, <1>p DEF PinPrimary, Put, Slug, TypeOK
      <3>2. KeyFits' /\ LocalsFit'
        BY <2>9 DEF PinPrimary, Put, Slug, TypeOK
      <3> QED
        BY <1>p, <3>1, <3>2
    <2>10. CASE CoolPrimary(t)
      <3>1. TypeOK'
        BY <2>10, <1>p DEF CoolPrimary, TypeOK
      <3>2. KeyFits' /\ LocalsFit'
        BY <2>10 DEF CoolPrimary, TypeOK
      <3> QED
        BY <1>p, <3>1, <3>2
    <2>11. CASE ClearPin(t)
      <3>1. TypeOK'
        BY <2>11, <1>p DEF ClearPin, Put, Slug, TypeOK
      <3>2. KeyFits' /\ LocalsFit'
        BY <2>11 DEF ClearPin, Put, Slug, TypeOK
      <3> QED
        BY <1>p, <3>1, <3>2
    <2>12. CASE BeginRepick(t)
      <3>1. TypeOK'
        BY <2>12, <1>p DEF BeginRepick, TypeOK
      <3>2. KeyFits' /\ LocalsFit'
        BY <2>12 DEF BeginRepick, TypeOK
      <3> QED
        BY <1>p, <3>1, <3>2
    <2>13. CASE Repicked(t)
      <3>1. TypeOK'
        BY <2>13, <1>p DEF Repicked, ScansReturn, TypeOK
      <3>2. KeyFits' /\ LocalsFit'
        BY <2>13 DEF Repicked, ScansReturn, TypeOK
      <3> QED
        BY <1>p, <3>1, <3>2
    <2>14. CASE NothingElse(t)
      <3>1. TypeOK'
        BY <2>14, <1>p DEF NothingElse, TypeOK
      <3>2. KeyFits' /\ LocalsFit'
        BY <2>14 DEF NothingElse, TypeOK
      <3> QED
        BY <1>p, <3>1, <3>2
    <2>15. ASSUME NEW o \in PodOutcome(alt[t], model[t]), AltReturns(t, o)
          PROVE  TypeInv'
      <3>1. TypeOK'
        BY <2>15, <1>p, OutcomesTyped DEF AltReturns, TypeOK
      <3>2. KeyFits' /\ LocalsFit'
        <4>1. o \in Outcome /\ o # Pending
          BY OutcomesTyped
        <4>2. o \in Retry \/ o \in Terminal
          BY <4>1 DEF Outcome
        <4> QED
          BY <2>15, <4>1, <4>2 DEF AltReturns, TypeOK
      <3> QED
        BY <1>p, <3>1, <3>2
    <2>16. CASE PinAlt(t)
      <3>1. TypeOK'
        BY <2>16, <1>p DEF PinAlt, Put, Slug, TypeOK
      <3>2. KeyFits' /\ LocalsFit'
        BY <2>16 DEF PinAlt, Put, Slug, TypeOK
      <3> QED
        BY <1>p, <3>1, <3>2
    <2>17. CASE CoolAlt(t)
      <3>1. TypeOK'
        BY <2>17, <1>p DEF CoolAlt, TypeOK
      <3>2. KeyFits' /\ LocalsFit'
        BY <2>17 DEF CoolAlt, TypeOK
      <3> QED
        BY <1>p, <3>1, <3>2
    <2>18. CASE Respond(t)
      <3>1. TypeOK'
        <4>1. ReplyOf(t) \in Replies
          BY <2>18, OutcomesTyped DEF Respond, ReplyOf, OrError, TypeOK, Replies, Outcome, Pending,
                    Terminal, Retry, AccountWide
        <4> QED
          BY <2>18, <1>p, <4>1 DEF Respond, Ended, TypeOK, AnyModel
      <3>2. KeyFits' /\ LocalsFit'
        BY <2>18 DEF Respond, Ended, TypeOK
      <3> QED
        BY <1>p, <3>1, <3>2
    <2> QED
      BY <1>2, <2>1, <2>2, <2>3, <2>4, <2>5, <2>6, <2>7, <2>8, <2>9, <2>10, <2>11, <2>12, <2>13, <2>14, <2>15, <2>16, <2>17, <2>18 DEF Step
  <1>3. ASSUME NEW t \in Tasks, Disconnect(t)
        PROVE  TypeInv'
    <2>1. TypeOK'
      BY <1>3, <1>p DEF Disconnect, Ended, LateEffect, Put, TypeOK, Slug, Replies, AnyModel
    <2>2. KeyFits' /\ LocalsFit'
      BY <1>3 DEF Disconnect, Ended, TypeOK
    <2> QED
      BY <1>p, <2>1, <2>2
  <1>4. CASE CoolingEnds
    BY <1>4, <1>p DEF CoolingEnds, TypeOK
  <1>5. ASSUME NEW c \in Conversations, PinExpires(c)
        PROVE  TypeInv'
    BY <1>5, <1>p DEF PinExpires, TypeOK
  <1>6. CASE Restart
    <2>1. TypeOK'
      BY <1>6, <1>p DEF Restart, TypeOK, Replies, AnyModel
    <2>2. KeyFits' /\ LocalsFit'
      BY <1>6 DEF Restart
    <2> QED
      BY <1>p, <2>1, <2>2
  <1>7. CASE UNCHANGED vars
    BY <1>7, <1>p DEF vars, TypeOK
  <1> QED
    BY <1>1, <1>2, <1>3, <1>4, <1>5, <1>6, <1>7 DEF Next

\* Every variable of the router keeps its type, for any pool, any set of
\* concurrent requests and any behaviour of pods and store.
THEOREM TypeCorrect == Spec => []TypeOK
  <1>1. TypeInv => TypeOK
    BY DEF TypeInv
  <1> QED
    BY <1>1, TypeInvInit, TypeInvNext, PTL DEF Spec

LEMMA TypeInvAlways == Spec => []TypeInv
  BY TypeInvInit, TypeInvNext, PTL DEF Spec

-----------------------------------------------------------------------------
(* Tier gates *)

\* An account gates only what its plan lacks, and a handler's attempts are the
\* only place a gate is learnt.
LEMMA OnlyTrueGates == \A a, m : "gate" \in PodOutcome(a, m) => <<a, m>> \notin Entitled
  BY DEF PodOutcome

LEMMA GatesAreTrueNext ==
  TypeInv /\ GatesAreTrue /\ [Next]_vars => GatesAreTrue'
  <1> SUFFICES ASSUME TypeInv, GatesAreTrue, [Next]_vars PROVE GatesAreTrue'
    OBVIOUS
  <1> USE DEF GatesAreTrue, Goto, At, poolVars, taskVars, Pending
  <1>p. TypeOK /\ LocalsFit
    BY DEF TypeInv
  <1>1. ASSUME NEW t \in Tasks, NEW b \in Bodies, Arrive(t, b[1], b[2])
        PROVE  GatesAreTrue'
    <2>1. first[t] = Pending /\ second[t] = Pending
      BY <1>1, <1>p DEF Arrive, LocalsFit, BeforeFirst, BeforeSecond, PCs
    <2> QED
      BY <1>1, <1>p, <2>1 DEF Arrive, TypeOK
  <1>2. ASSUME NEW t \in Tasks, Step(t)
        PROVE  GatesAreTrue'
    <2>1. CASE Picked(t) \/ UsePin(t)
      <3>1. first[t] = Pending /\ second[t] = Pending
        BY <2>1, <1>p DEF Picked, UsePin, LocalsFit, BeforeFirst, BeforeSecond, PCs
      <3> QED
        BY <2>1, <3>1, <1>p DEF Picked, UsePin, TypeOK
    <2>2. CASE Repicked(t)
      <3>1. second[t] = Pending
        BY <2>2, <1>p DEF Repicked, LocalsFit, BeforeSecond, PCs
      <3> QED
        BY <2>2, <3>1, <1>p DEF Repicked, TypeOK
    <2>3. ASSUME NEW o \in PodOutcome(account[t], model[t]), PrimaryReturns(t, o)
          PROVE  GatesAreTrue'
      BY <2>3, <1>p, OnlyTrueGates DEF PrimaryReturns, TypeOK
    <2>4. ASSUME NEW o \in PodOutcome(alt[t], model[t]), AltReturns(t, o)
          PROVE  GatesAreTrue'
      BY <2>4, <1>p, OnlyTrueGates DEF AltReturns, TypeOK
    <2>5. CASE Respond(t)
      BY <2>5, <1>p DEF Respond, Ended, TypeOK
    <2>6. CASE \/ Lookup(t) \/ PinHealth(t) \/ RefusePin(t) \/ BeginPick(t) \/ PickOn(t)
               \/ PinPrimary(t) \/ CoolPrimary(t) \/ ClearPin(t) \/ BeginRepick(t)
               \/ NothingElse(t) \/ PinAlt(t) \/ CoolAlt(t)
      BY <2>6 DEF Lookup, PinHealth, RefusePin, BeginPick, PickOn, PinPrimary, CoolPrimary,
                  ClearPin, BeginRepick, NothingElse, PinAlt, CoolAlt
    <2> QED
      BY <1>2, <2>1, <2>2, <2>3, <2>4, <2>5, <2>6 DEF Step
  <1>3. ASSUME NEW t \in Tasks, Disconnect(t)
        PROVE  GatesAreTrue'
    BY <1>3, <1>p DEF Disconnect, Ended, TypeOK
  <1>4. CASE Restart
    BY <1>4 DEF Restart
  <1>5. CASE \/ CoolingEnds
             \/ \E c \in Conversations : PinExpires(c)
             \/ UNCHANGED vars
    BY <1>5 DEF CoolingEnds, PinExpires, vars
  <1> QED
    BY <1>1, <1>2, <1>3, <1>4, <1>5 DEF Next

\* The model cooldown map grows by a handler's gate only.
LEMMA TierGateNext ==
  /\ TypeInv /\ GatesAreTrue /\ TierGateCooldownsAreTrue /\ [Next]_vars
  => TierGateCooldownsAreTrue'
  <1> SUFFICES ASSUME TypeInv, GatesAreTrue, TierGateCooldownsAreTrue, [Next]_vars
               PROVE  TierGateCooldownsAreTrue'
    OBVIOUS
  <1> USE DEF TierGateCooldownsAreTrue, poolVars
  <1>p. TypeOK /\ LocalsFit
    BY DEF TypeInv
  <1>1. ASSUME NEW a \in Account, NEW m \in AnyModel, NEW o, CoolFor(a, m, o),
               o = "gate" => <<a, m>> \notin Entitled
        PROVE  TierGateCooldownsAreTrue'
    BY <1>1 DEF CoolFor, Cooldown, CooldownModel, GateEntry, AnyModel
  <1>2. ASSUME NEW t \in Tasks, CoolPrimary(t)
        PROVE  TierGateCooldownsAreTrue'
    <2>1. account[t] \in Account /\ model[t] \in AnyModel
      BY <1>2, <1>p DEF CoolPrimary, At, LocalsFit, HasAccount, TypeOK
    <2> QED
      BY <1>1, <1>2, <2>1 DEF CoolPrimary, GatesAreTrue
  <1>3. ASSUME NEW t \in Tasks, CoolAlt(t)
        PROVE  TierGateCooldownsAreTrue'
    <2>1. alt[t] \in Account /\ model[t] \in AnyModel
      BY <1>3, <1>p DEF CoolAlt, At, LocalsFit, HasAlt, TypeOK
    <2> QED
      BY <1>1, <1>3, <2>1 DEF CoolAlt, GatesAreTrue
  <1>4. CASE Restart \/ CoolingEnds
    BY <1>4 DEF Restart, CoolingEnds, CooldownExpires, ModelCooldownExpires
  <1>5. CASE \/ \E t \in Tasks, b \in Bodies : Arrive(t, b[1], b[2])
             \/ \E t \in Tasks : Disconnect(t)
             \/ \E c \in Conversations : PinExpires(c)
             \/ UNCHANGED vars
    BY <1>5 DEF Arrive, Disconnect, PinExpires, vars
  <1>6. ASSUME NEW t \in Tasks, Step(t), ~CoolPrimary(t), ~CoolAlt(t)
        PROVE  TierGateCooldownsAreTrue'
    BY <1>6
       DEF Step, Lookup, PinHealth, UsePin, RefusePin, BeginPick, PickOn, Picked, PrimaryReturns,
           PinPrimary, ClearPin, BeginRepick, Repicked, NothingElse, AltReturns,
           PinAlt, Respond, StartScan, ScanStep, CheckHealth, CheckTier, CheckTierAgain
  <1> QED
    BY <1>2, <1>3, <1>4, <1>5, <1>6 DEF Next

\* A tier-gate cooldown is never wrong about an account's plan: what two handlers
\* learn from their own attempts is all the map ever holds (router.rs:160).
THEOREM TierGatesTrue == Spec => []TierGateCooldownsAreTrue
  <1> DEFINE I == GatesAreTrue /\ TierGateCooldownsAreTrue
  <1>1. Init => I
    BY DEF Init, PoolInit, GatesAreTrue, TierGateCooldownsAreTrue, Pending
  <1>2. TypeInv /\ I /\ [Next]_vars => I'
    BY GatesAreTrueNext, TierGateNext
  <1>3. I => TierGateCooldownsAreTrue
    OBVIOUS
  <1> QED
    BY <1>1, <1>2, <1>3, TypeInvAlways, PTL DEF Spec

-----------------------------------------------------------------------------
(* Giving up *)

\* Passing over a candidate that will not do.
LEMMA SkipFits ==
  ASSUME NEW s \in Scan, s.phase \in {"health", "tier", "retier"}, ScanFits(s),
         s.phase = "retier" => NotFor(s, Candidate(s))
  PROVE  ScanFits(Skip(s))
  <1> DEFINE new == Skip(s)
  <1> USE DEF ScanFits, NotFor, Scan
  <1>1. CASE s.i + 1 < N /\ s.phase # "retier"
    BY <1>1 DEF Skip
  <1>2. CASE s.i + 1 < N /\ s.phase = "retier"
    <2>1. /\ new.phase = "retier" /\ new.i = s.i + 1 /\ new.start = s.start
          /\ new.exclude = s.exclude /\ new.model = s.model
      BY <1>2 DEF Skip
    <2>2. \A j \in Account : j < new.i => NotFor(new, Plus(new.start, j))
      BY <1>2, <2>1 DEF Candidate, Account
    <2> QED
      BY <2>1, <2>2
  <1>3. CASE ~(s.i + 1 < N) /\ s.phase # "retier"
    <2>1. new.phase = "retier" /\ new.i = 0
      BY <1>3 DEF Skip
    <2>2. \A j \in Account : ~(j < new.i)
      BY <2>1, PoolAssumption DEF Account
    <2> QED
      BY <2>1, <2>2
  <1>4. CASE ~(s.i + 1 < N) /\ s.phase = "retier"
    <2>1. new.phase = "done" /\ new.exclude = s.exclude /\ new.model = s.model
      BY <1>4 DEF Skip
    <2>2. ASSUME NEW a \in Account PROVE NotFor(new, a)
      <3>1. PICK j \in Account : Plus(s.start, j) = a
        BY PlusCovers
      <3>2. j < s.i \/ j = s.i
        BY <1>4, PoolAssumption DEF Account
      <3>3. NotFor(s, Plus(s.start, j))
        BY <1>4, <3>2 DEF Candidate
      <3> QED
        BY <2>1, <3>1, <3>3
    <2> QED
      BY <2>1, <2>2
  <1> QED
    BY <1>1, <1>2, <1>3, <1>4

\* Taking a candidate that is not the excluded account.
LEMMA TakeFits ==
  ASSUME NEW s \in Scan, Candidate(s) # s.exclude
  PROVE  ScanFits(Take(s))
  BY DEF ScanFits, Take, Scan

LEMMA ScanFitsNext ==
  ASSUME TypeInv, TierGateCooldownsAreTrue, NEW t \in Tasks, ScanFits(scan[t]), ScanStep(t)
  PROVE  \E new \in Scan : /\ scan' = [scan EXCEPT ![t] = new]
                          /\ ScanFits(new)
                          /\ new.phase # "off"
                          /\ new.exclude = scan[t].exclude /\ new.model = scan[t].model
  <1> DEFINE s == scan[t]
  <1>1. s \in Scan
    BY DEF TypeInv, TypeOK, PoolTypeOK
  <1>2. s.phase \in {"health", "tier", "retier"}
    BY DEF ScanStep, CheckHealth, CheckTier, CheckTierAgain
  <1>s. /\ Skip(s) \in Scan /\ Take(s) \in Scan
        /\ Skip(s).phase # "off" /\ Skip(s).exclude = s.exclude /\ Skip(s).model = s.model
        /\ Take(s).phase # "off" /\ Take(s).exclude = s.exclude /\ Take(s).model = s.model
    <2>1. Skip(s) \in Scan /\ Take(s) \in Scan
      BY <1>1, <1>2, SkipTyped, TakeTyped
    <2> QED
      BY <1>1, <1>2, <2>1 DEF Skip, Take, Scan
  <1>g. ModelGated(Candidate(s), s.model) => NotFor(s, Candidate(s))
    BY DEF ModelGated, NotFor, TierGateCooldownsAreTrue
  <1>3. CASE CheckHealth(t)
    <2>1. CASE Candidate(s) = s.exclude \/ Candidate(s) \in cooling
      <3>1. ScanFits(Skip(s))
        BY <1>1, <1>2, <1>3, SkipFits DEF CheckHealth
      <3> QED
        BY <1>3, <1>s, <2>1, <3>1 DEF CheckHealth
    <2>2. CASE ~(Candidate(s) = s.exclude \/ Candidate(s) \in cooling)
      <3> DEFINE new == [s EXCEPT !.phase = "tier"]
      <3>1. new \in Scan /\ ScanFits(new) /\ new.phase # "off"
            /\ new.exclude = s.exclude /\ new.model = s.model
        BY <1>1, <2>2 DEF Scan, Phases, ScanFits, Candidate
      <3> QED
        BY <1>3, <2>2, <3>1 DEF CheckHealth
    <2> QED
      BY <2>1, <2>2
  <1>4. CASE CheckTier(t)
    <2>1. ScanFits(Skip(s)) /\ ScanFits(Take(s))
      BY <1>1, <1>2, <1>4, SkipFits, TakeFits DEF CheckTier, ScanFits
    <2> QED
      BY <1>4, <1>s, <2>1 DEF CheckTier
  <1>5. CASE CheckTierAgain(t)
    <2>1. CASE Candidate(s) = s.exclude \/ ModelGated(Candidate(s), s.model)
      <3>1. NotFor(s, Candidate(s))
        BY <1>g, <2>1 DEF NotFor
      <3>2. ScanFits(Skip(s))
        BY <1>1, <1>2, <3>1, SkipFits
      <3> QED
        BY <1>5, <1>s, <2>1, <3>2 DEF CheckTierAgain
    <2>2. CASE ~(Candidate(s) = s.exclude \/ ModelGated(Candidate(s), s.model))
      <3>1. ScanFits(Take(s))
        BY <1>1, <2>2, TakeFits
      <3> QED
        BY <1>5, <1>s, <2>2, <3>1 DEF CheckTierAgain
    <2> QED
      BY <2>1, <2>2
  <1> QED
    BY <1>3, <1>4, <1>5 DEF ScanStep

LEMMA ScansFitNext ==
  TypeInv /\ TierGateCooldownsAreTrue /\ ScansFit /\ [Next]_vars => ScansFit'
  <1> SUFFICES ASSUME TypeInv, TierGateCooldownsAreTrue, ScansFit, [Next]_vars
               PROVE  ScansFit'
    OBVIOUS
  <1> USE DEF ScansFit, Goto, At, poolVars, taskVars
  <1>p. TypeOK /\ LocalsFit /\ PoolTypeOK
    BY DEF TypeInv, TypeOK
  <1>n. ScanFits(NoScan)
    BY DEF ScanFits, NoScan
  <1>1. ASSUME NEW t \in Tasks, NEW b \in Bodies, Arrive(t, b[1], b[2])
        PROVE  ScansFit'
    BY <1>1, <1>p DEF Arrive, TypeOK
  <1>2. ASSUME NEW t \in Tasks, Step(t)
        PROVE  ScansFit'
    <2>1. ASSUME NEW e \in Account \union {NoAccount}, StartScan(t, e, model[t])
          PROVE  /\ scan'[t].phase = "health" /\ scan'[t].exclude = e
                 /\ scan'[t].model = model[t] /\ ScanFits(scan'[t])
                 /\ \A u \in Tasks : u # t => scan'[u] = scan[u]
      BY <2>1, <1>p DEF StartScan, PoolTypeOK, NoScan, ScanFits
    <2>2. CASE BeginPick(t)
      BY <2>1, <2>2, <1>p DEF BeginPick, TypeOK
    <2>3. CASE BeginRepick(t)
      <3>1. account[t] \in Account
        BY <2>3, <1>p DEF BeginRepick, LocalsFit, HasAccount
      <3> QED
        BY <2>1, <2>3, <3>1, <1>p DEF BeginRepick, TypeOK
    <2>4. CASE PickOn(t)
      <3>1. PICK new \in Scan : /\ scan' = [scan EXCEPT ![t] = new]
                                /\ ScanFits(new) /\ new.phase # "off"
                                /\ new.exclude = scan[t].exclude /\ new.model = scan[t].model
        BY <2>4, ScanFitsNext DEF PickOn
      <3> QED
        BY <2>4, <3>1, <1>p DEF PickOn, PoolTypeOK
    <2>5. CASE Picked(t) \/ Repicked(t) \/ NothingElse(t)
      BY <2>5, <1>n, <1>p DEF Picked, Repicked, NothingElse, TypeOK, PoolTypeOK
    <2>6. CASE Respond(t)
      BY <2>6, <1>p DEF Respond, Ended, TypeOK
    <2>7. CASE UsePin(t)
      BY <2>7, <1>p DEF UsePin, TypeOK
    <2>8. CASE \/ Lookup(t) \/ PinHealth(t) \/ RefusePin(t)
               \/ \E o \in PodOutcome(account[t], model[t]) : PrimaryReturns(t, o)
               \/ PinPrimary(t) \/ CoolPrimary(t) \/ ClearPin(t)
               \/ \E o \in PodOutcome(alt[t], model[t]) : AltReturns(t, o)
               \/ PinAlt(t) \/ CoolAlt(t)
      BY <2>8, <1>p DEF Lookup, PinHealth, NoUsablePin, RefusePin, PrimaryReturns, PinPrimary,
                        CoolPrimary, ClearPin, AltReturns, PinAlt, CoolAlt, TypeOK
    <2> QED
      BY <1>2, <2>2, <2>3, <2>4, <2>5, <2>6, <2>7, <2>8 DEF Step
  <1>3. ASSUME NEW t \in Tasks, Disconnect(t)
        PROVE  ScansFit'
    BY <1>3, <1>p DEF Disconnect, Ended, TypeOK
  <1>4. CASE Restart
    BY <1>4, <1>n DEF Restart
  <1>5. CASE \/ CoolingEnds
             \/ \E c \in Conversations : PinExpires(c)
             \/ UNCHANGED vars
    BY <1>5 DEF CoolingEnds, CooldownExpires, ModelCooldownExpires, PinExpires, vars
  <1> QED
    BY <1>1, <1>2, <1>3, <1>4, <1>5 DEF Next

LEMMA GivesUpNext ==
  TypeInv /\ ScansFit /\ GivesUpOnlyIfNobodyElse /\ [Next]_vars => GivesUpOnlyIfNobodyElse'
  <1> SUFFICES ASSUME TypeInv, ScansFit, GivesUpOnlyIfNobodyElse, [Next]_vars
               PROVE  GivesUpOnlyIfNobodyElse'
    OBVIOUS
  <1> USE DEF GivesUpOnlyIfNobodyElse, Goto, At, poolVars, taskVars
  <1>p. TypeOK /\ LocalsFit /\ PoolTypeOK
    BY DEF TypeInv, TypeOK
  <1>1. ASSUME NEW t \in Tasks, NEW b \in Bodies, Arrive(t, b[1], b[2])
        PROVE  GivesUpOnlyIfNobodyElse'
    BY <1>1, <1>p DEF Arrive, TypeOK
  <1>2. ASSUME NEW t \in Tasks, Step(t)
        PROVE  GivesUpOnlyIfNobodyElse'
    <2>1. CASE NothingElse(t)
      <3>1. \A a \in Account : NotFor(scan[t], a)
        BY <2>1 DEF NothingElse, ScansFit, ScanFits
      <3>2. \A a \in Account \ {account[t]} : <<a, model[t]>> \notin Entitled
        BY <2>1, <3>1 DEF NothingElse, ScansFit, NotFor
      <3> QED
        BY <2>1, <3>2, <1>p DEF NothingElse, TypeOK
    <2>2. ASSUME NEW o \in PodOutcome(account[t], model[t]), PrimaryReturns(t, o)
          PROVE  GivesUpOnlyIfNobodyElse'
      BY <2>2, <1>p DEF PrimaryReturns, TypeOK
    <2>3. ASSUME NEW o \in PodOutcome(alt[t], model[t]), AltReturns(t, o)
          PROVE  GivesUpOnlyIfNobodyElse'
      <3>1. o # Pending
        BY OutcomesTyped
      <3> QED
        BY <2>3, <3>1, <1>p DEF AltReturns, TypeOK
    <2>4. CASE PinPrimary(t)
      BY <2>4, <1>p DEF PinPrimary, TypeOK, LocalsFit
    <2>5. CASE PinAlt(t) \/ CoolAlt(t)
      BY <2>5, <1>p, OutcomesTyped DEF PinAlt, CoolAlt, TypeOK, LocalsFit
    <2>6. CASE Respond(t)
      BY <2>6, <1>p DEF Respond, Ended, TypeOK
    <2>7. CASE Lookup(t) \/ PinHealth(t) \/ UsePin(t) \/ RefusePin(t)
      BY <2>7, <1>p DEF Lookup, PinHealth, NoUsablePin, UsePin, RefusePin, TypeOK
    <2>8. CASE BeginPick(t) \/ PickOn(t) \/ Picked(t) \/ BeginRepick(t) \/ Repicked(t)
      BY <2>8, <1>p DEF BeginPick, PickOn, Picked, BeginRepick, Repicked, TypeOK
    <2>9. CASE CoolPrimary(t) \/ ClearPin(t)
      BY <2>9, <1>p DEF CoolPrimary, ClearPin, TypeOK
    <2> QED
      BY <1>2, <2>1, <2>2, <2>3, <2>4, <2>5, <2>6, <2>7, <2>8, <2>9 DEF Step
  <1>3. ASSUME NEW t \in Tasks, Disconnect(t)
        PROVE  GivesUpOnlyIfNobodyElse'
    BY <1>3, <1>p DEF Disconnect, Ended, TypeOK
  <1>4. CASE Restart
    BY <1>4 DEF Restart
  <1>5. CASE \/ CoolingEnds
             \/ \E c \in Conversations : PinExpires(c)
             \/ UNCHANGED vars
    BY <1>5 DEF CoolingEnds, PinExpires, vars
  <1> QED
    BY <1>1, <1>2, <1>3, <1>4, <1>5 DEF Next

\* A handler answers after a single failed attempt only if no other account of
\* the pool is entitled to the model (router.rs:464, 520), for any pool and any
\* cooldowns inserted and expiring while it scans.
THEOREM GivesUpRightly == Spec => []GivesUpOnlyIfNobodyElse
  <1> DEFINE I == GatesAreTrue /\ TierGateCooldownsAreTrue /\ ScansFit /\ GivesUpOnlyIfNobodyElse
  <1>1. Init => I
    BY DEF Init, PoolInit, NoScan, GatesAreTrue, TierGateCooldownsAreTrue, ScansFit, ScanFits,
           GivesUpOnlyIfNobodyElse, At, Pending
  <1>2. TypeInv /\ I /\ [Next]_vars => I'
    BY GatesAreTrueNext, TierGateNext, ScansFitNext, GivesUpNext
  <1>3. I => GivesUpOnlyIfNobodyElse
    OBVIOUS
  <1> QED
    BY <1>1, <1>2, <1>3, TypeInvAlways, PTL DEF Spec

-----------------------------------------------------------------------------
(* What a step may never do *)

\* A pin is written only for an account that has answered this conversation
\* finally (router.rs:436, 473), whatever the store does to the command.
THEOREM PinsAreAnswers == Spec => PinsFollowAnswers
  <1> DEFINE P == \A c \in Conversations :
                    pins'[c] # pins[c] /\ pins'[c] # NoPin
                      => \E t \in Tasks : conv[t] = c /\ FinalAnswerFrom(t, pins'[c])
  <1>1. TypeInv /\ [Next]_vars => [P]_vars
    <2> SUFFICES ASSUME TypeInv, [Next]_vars PROVE P
      OBVIOUS
    <2> USE DEF At, poolVars, taskVars
    <2>p. TypeOK /\ LocalsFit
      BY DEF TypeInv
    <2>1. UNCHANGED pins => P
      OBVIOUS
    <2>2. ASSUME NEW t \in Tasks, NEW s \in Slug \union {NoPin}, Put(conv[t], s),
                 s # NoPin => FinalAnswerFrom(t, s)
          PROVE  P
      BY <2>2, <2>p DEF Put, TypeOK
    <2>3. ASSUME NEW t \in Tasks, At(t, "pin")
          PROVE  FinalAnswerFrom(t, account[t]) /\ account[t] \in Slug
      BY <2>3, <2>p DEF FinalAnswerFrom, LocalsFit, HasAccount, TypeOK, Outcome, Pending,
                        Retry, AccountWide, Terminal, Slug
    <2>4. ASSUME NEW t \in Tasks, At(t, "repin")
          PROVE  FinalAnswerFrom(t, alt[t]) /\ alt[t] \in Slug
      BY <2>4, <2>p DEF FinalAnswerFrom, LocalsFit, HasAlt, TypeOK, Slug
    <2>5. ASSUME NEW t \in Tasks, Step(t)
          PROVE  P
      <3>1. CASE PinPrimary(t)
        BY <3>1, <2>2, <2>3 DEF PinPrimary
      <3>2. CASE PinAlt(t)
        BY <3>2, <2>2, <2>4 DEF PinAlt
      <3>3. CASE ClearPin(t)
        BY <3>3, <2>2 DEF ClearPin
      <3>4. CASE ~PinPrimary(t) /\ ~PinAlt(t) /\ ~ClearPin(t)
        BY <2>1, <2>5, <3>4
           DEF Step, Lookup, PinHealth, UsePin, RefusePin, BeginPick, PickOn, Picked,
               PrimaryReturns, CoolPrimary, BeginRepick, Repicked, NothingElse, AltReturns,
               CoolAlt, Respond
      <3> QED
        BY <3>1, <3>2, <3>3, <3>4
    <2>6. ASSUME NEW t \in Tasks, Disconnect(t)
          PROVE  P
      BY <2>1, <2>2, <2>3, <2>4, <2>6 DEF Disconnect, LateEffect
    <2>7. ASSUME NEW c \in Conversations, PinExpires(c)
          PROVE  P
      BY <2>7, <2>p DEF PinExpires, TypeOK
    <2>8. CASE \/ \E t \in Tasks, b \in Bodies : Arrive(t, b[1], b[2])
               \/ CoolingEnds \/ Restart \/ UNCHANGED vars
      BY <2>1, <2>8 DEF Arrive, CoolingEnds, Restart, vars
    <2> QED
      BY <2>5, <2>6, <2>7, <2>8 DEF Next
  <1> QED
    BY <1>1, TypeInvAlways, PTL DEF Spec, PinsFollowAnswers

\* An account leaves the rotation only after an attempt on it failed for
\* everyone (router.rs:452).
THEOREM CooldownsAreEarned == Spec => CoolsOnlyTheFailed
  <1> DEFINE P == \A a \in cooling' \ cooling : \E t \in Tasks : FailedAccountWide(t, a)
  <1>1. TypeInv /\ [Next]_vars => [P]_vars
    <2> SUFFICES ASSUME TypeInv, [Next]_vars PROVE P
      OBVIOUS
    <2> USE DEF At, poolVars, taskVars
    <2>p. TypeOK /\ LocalsFit
      BY DEF TypeInv
    <2>1. UNCHANGED cooling => P
      OBVIOUS
    <2>2. ASSUME NEW t \in Tasks, Step(t)
          PROVE  P
      <3>1. CASE CoolPrimary(t)
        BY <3>1, <2>p DEF CoolPrimary, CoolFor, Cooldown, CooldownModel, FailedAccountWide,
                          LocalsFit, AfterFailure, Retry
      <3>2. CASE CoolAlt(t)
        BY <3>2, <2>p DEF CoolAlt, CoolFor, Cooldown, CooldownModel, FailedAccountWide,
                          LocalsFit, Retry
      <3>3. CASE ~CoolPrimary(t) /\ ~CoolAlt(t)
        BY <2>1, <2>2, <3>3
           DEF Step, Lookup, PinHealth, UsePin, RefusePin, BeginPick, PickOn, Picked,
               PrimaryReturns, PinPrimary, ClearPin, BeginRepick, Repicked, NothingElse,
               AltReturns, PinAlt, Respond, StartScan, ScanStep, CheckHealth, CheckTier,
               CheckTierAgain
      <3> QED
        BY <3>1, <3>2, <3>3
    <2>3. CASE CoolingEnds \/ Restart
      BY <2>3 DEF CoolingEnds, CooldownExpires, ModelCooldownExpires, Restart
    <2>4. CASE \/ \E t \in Tasks, b \in Bodies : Arrive(t, b[1], b[2])
               \/ \E t \in Tasks : Disconnect(t)
               \/ \E c \in Conversations : PinExpires(c)
               \/ UNCHANGED vars
      BY <2>1, <2>4 DEF Arrive, Disconnect, PinExpires, vars
    <2> QED
      BY <2>2, <2>3, <2>4 DEF Next
  <1> QED
    BY <1>1, TypeInvAlways, PTL DEF Spec, CoolsOnlyTheFailed

-----------------------------------------------------------------------------
(* The contract with the client *)

\* A handler that runs owes an answer, and its two accounts differ.
OwesAnswer == \A t \in Tasks : pc[t] # "idle" => reply[t] = "open"
TwoAccounts == \A t \in Tasks : pc[t] \in HasAlt => alt[t] # account[t]

LEMMA ContractInvNext ==
  TypeInv /\ OwesAnswer /\ TwoAccounts /\ [Next]_vars => OwesAnswer' /\ TwoAccounts'
  <1> SUFFICES ASSUME TypeInv, OwesAnswer, TwoAccounts, [Next]_vars
               PROVE  OwesAnswer' /\ TwoAccounts'
    OBVIOUS
  <1> USE DEF OwesAnswer, TwoAccounts, HasAlt, Goto, At, poolVars, taskVars
  <1>p. TypeOK
    BY DEF TypeInv
  <1>1. ASSUME NEW t \in Tasks, NEW b \in Bodies, Arrive(t, b[1], b[2])
        PROVE  OwesAnswer' /\ TwoAccounts'
    BY <1>1, <1>p DEF Arrive, TypeOK
  <1>2. ASSUME NEW t \in Tasks, Step(t)
        PROVE  OwesAnswer' /\ TwoAccounts'
    <2>1. CASE Lookup(t) \/ PinHealth(t) \/ UsePin(t) \/ RefusePin(t)
      BY <2>1, <1>p DEF Lookup, PinHealth, NoUsablePin, UsePin, RefusePin, TypeOK
    <2>2. CASE BeginPick(t) \/ PickOn(t) \/ Picked(t) \/ BeginRepick(t)
      BY <2>2, <1>p DEF BeginPick, PickOn, Picked, BeginRepick, TypeOK
    <2>3. CASE Repicked(t) \/ NothingElse(t)
      BY <2>3, <1>p DEF Repicked, NothingElse, TypeOK
    <2>4. ASSUME NEW o, PrimaryReturns(t, o) \/ AltReturns(t, o)
          PROVE  OwesAnswer' /\ TwoAccounts'
      BY <2>4, <1>p DEF PrimaryReturns, AltReturns, TypeOK
    <2>5. CASE PinPrimary(t) \/ CoolPrimary(t) \/ ClearPin(t) \/ PinAlt(t) \/ CoolAlt(t)
      BY <2>5, <1>p DEF PinPrimary, CoolPrimary, ClearPin, PinAlt, CoolAlt, TypeOK
    <2>6. CASE Respond(t)
      BY <2>6, <1>p DEF Respond, Ended, TypeOK
    <2> QED
      BY <1>2, <2>1, <2>2, <2>3, <2>4, <2>5, <2>6 DEF Step
  <1>3. ASSUME NEW t \in Tasks, Disconnect(t)
        PROVE  OwesAnswer' /\ TwoAccounts'
    BY <1>3, <1>p DEF Disconnect, Ended, TypeOK
  <1>4. CASE Restart
    BY <1>4 DEF Restart
  <1>5. CASE \/ CoolingEnds
             \/ \E c \in Conversations : PinExpires(c)
             \/ UNCHANGED vars
    BY <1>5 DEF CoolingEnds, PinExpires, vars
  <1> QED
    BY <1>1, <1>2, <1>3, <1>4, <1>5 DEF Next

LEMMA AppendOne ==
  ASSUME NEW x, NEW y
  PROVE  /\ Len(<<x>>) = 1 /\ <<x>>[1] = x /\ <<x>> # <<>>
         /\ Len(Append(<<x>>, y)) = 2 /\ Append(<<x>>, y)[1] = x /\ Append(<<x>>, y)[2] = y
         /\ Append(<<x>>, y) # <<>>
  <1>1. <<x>> \in Seq({x, y})
    OBVIOUS
  <1> QED
    BY <1>1

\* Every step of the router is a step of the contract, or changes nothing there.
LEMMA ContractStep ==
  TypeInv /\ OwesAnswer /\ TwoAccounts /\ [Next]_vars => [Contract!Next]_(Contract!vars)
  <1> SUFFICES ASSUME TypeInv, OwesAnswer, TwoAccounts, [Next]_vars
               PROVE  Contract!Next \/ UNCHANGED Contract!vars
    OBVIOUS
  <1> USE DEF Goto, At, poolVars, taskVars, Contract!vars
  <1> DEFINE tried == [t \in Tasks |-> Tried(t)]
  <1>p. TypeOK /\ LocalsFit
    BY DEF TypeInv
  <1>u. UNCHANGED <<first, second, account, alt, reply>> => UNCHANGED Contract!vars
    BY DEF Tried
  <1>1. ASSUME NEW t \in Tasks, NEW b \in Bodies, Arrive(t, b[1], b[2])
        PROVE  Contract!Next \/ UNCHANGED Contract!vars
    <2>1. tried' = tried
      BY <1>1 DEF Arrive, Tried
    <2>2. reply' = [reply EXCEPT ![t] = "open"]
      BY <1>1 DEF Arrive
    <2>3. CASE reply[t] = "open"
      BY <2>1, <2>2, <2>3, <1>p DEF TypeOK
    <2>4. CASE reply[t] # "open"
      BY <2>1, <2>2, <2>4 DEF Contract!Next, Contract!Accept
    <2> QED
      BY <2>3, <2>4
  <1>2. ASSUME NEW t \in Tasks, NEW o \in PodOutcome(account[t], model[t]), PrimaryReturns(t, o)
        PROVE  Contract!Next
    <2>1. first[t] = Pending /\ second[t] = Pending /\ reply[t] = "open" /\ account[t] \in Account
      BY <1>2, <1>p DEF PrimaryReturns, LocalsFit, BeforeFirst, BeforeSecond, HasAccount, PCs, Awaits, OwesAnswer
    <2>2. o \in Outcome /\ o # Pending
      BY OutcomesTyped
    <2>3. tried[t] = <<>>
      BY <2>1 DEF Tried
    <2>4. tried' = [tried EXCEPT ![t] = <<[account |-> account[t], outcome |-> o]>>]
      BY <1>2, <1>p, <2>1, <2>2 DEF PrimaryReturns, Tried, TypeOK
    <2>5. Append(<<>>, [account |-> account[t], outcome |-> o]) = <<[account |-> account[t], outcome |-> o]>>
      OBVIOUS
    <2>6. Contract!Attempt(t, account[t], o)
      BY <1>2, <2>1, <2>3, <2>4, <2>5 DEF PrimaryReturns, Contract!Attempt, Contract!MayTry
    <2> QED
      BY <2>1, <2>2, <2>6 DEF Contract!Next
  <1>3. ASSUME NEW t \in Tasks, NEW o \in PodOutcome(alt[t], model[t]), AltReturns(t, o)
        PROVE  Contract!Next
    <2>1. /\ first[t] \in Retry /\ first[t] # Pending /\ second[t] = Pending /\ reply[t] = "open"
          /\ alt[t] \in Account /\ alt[t] # account[t]
      BY <1>3, <1>p DEF AltReturns, LocalsFit, AfterFailure, BeforeSecond, HasAccount, HasAlt, PCs,
                        Awaits, OwesAnswer, TwoAccounts
    <2>2. o \in Outcome /\ o # Pending
      BY OutcomesTyped
    <2> DEFINE one == [account |-> account[t], outcome |-> first[t]]
               two == [account |-> alt[t], outcome |-> o]
    <2>3. tried[t] = <<one>>
      BY <2>1 DEF Tried
    <2>4. tried' = [tried EXCEPT ![t] = Append(<<one>>, two)]
      BY <1>3, <1>p, <2>1, <2>2 DEF AltReturns, Tried, TypeOK
    <2>5. Len(<<one>>) = 1 /\ <<one>>[1] = one
      <3> HIDE DEF one, two
      <3> QED
        BY AppendOne
    <2>6. one.outcome = first[t] /\ one.account = account[t]
      OBVIOUS
    <2>7. Contract!MayTry(tried[t], alt[t])
      BY <2>1, <2>3, <2>5, <2>6 DEF Contract!MayTry
    <2>8. Contract!Attempt(t, alt[t], o)
      <3> HIDE DEF one, two
      <3>1. tried' = [tried EXCEPT ![t] = Append(@, two)]
        BY <2>3, <2>4
      <3> QED
        BY <1>3, <2>1, <2>7, <3>1 DEF AltReturns, Contract!Attempt, two
    <2> QED
      BY <2>1, <2>2, <2>8 DEF Contract!Next
  <1>4. ASSUME NEW t \in Tasks, Respond(t)
        PROVE  Contract!Next
    <2>1. first[t] # Pending /\ first[t] \in Outcome /\ reply[t] = "open"
      BY <1>4, <1>p DEF Respond, LocalsFit, HasAccount, TypeOK, OwesAnswer
    <2>2. tried[t] # <<>> /\ Contract!Said(tried[t]) = ReplyOf(t)
      <3> DEFINE one == [account |-> account[t], outcome |-> first[t]]
                 two == [account |-> alt[t], outcome |-> second[t]]
      <3>1. CASE second[t] = Pending
        <4>1. tried[t] = <<one>>
          BY <2>1, <3>1 DEF Tried
        <4>2. Len(<<one>>) = 1 /\ <<one>>[1] = one /\ one.outcome = first[t] /\ <<one>> # <<>>
          OBVIOUS
        <4> QED
          BY <2>1, <3>1, <4>1, <4>2 DEF Contract!Said, ReplyOf, OrError
      <3>2. CASE second[t] # Pending
        <4>1. tried[t] = Append(<<one>>, two)
          BY <2>1, <3>2 DEF Tried
        <4>2. /\ Len(Append(<<one>>, two)) = 2 /\ Append(<<one>>, two) # <<>>
              /\ Append(<<one>>, two)[1] = one /\ Append(<<one>>, two)[2] = two
          <5> HIDE DEF one, two
          <5> QED
            BY AppendOne
        <4>3. one.outcome = first[t] /\ two.outcome = second[t]
          OBVIOUS
        <4> HIDE DEF one, two
        <4>4. Contract!Said(tried[t]) = IF two.outcome # "unreachable" THEN two.outcome
                                        ELSE IF one.outcome # "unreachable" THEN one.outcome
                                        ELSE "internal"
          BY <4>1, <4>2 DEF Contract!Said
        <4> QED
          BY <2>1, <3>2, <4>1, <4>2, <4>3, <4>4 DEF ReplyOf, OrError
      <3> QED
        BY <3>1, <3>2
    <2>3. tried' = [tried EXCEPT ![t] = <<>>]
      BY <1>4, <1>p DEF Respond, Ended, Tried, TypeOK
    <2>4. Contract!Answer(t)
      BY <1>4, <2>1, <2>2, <2>3 DEF Respond, Contract!Answer
    <2> QED
      BY <2>4 DEF Contract!Next
  <1>5. ASSUME NEW t \in Tasks, Disconnect(t)
        PROVE  Contract!Next
    <2>1. reply[t] = "open"
      BY <1>5 DEF Disconnect, Awaits, OwesAnswer
    <2>2. tried' = [r \in Tasks |-> IF r \in {t} THEN <<>> ELSE tried[r]]
      BY <1>5, <1>p DEF Disconnect, Ended, Tried, TypeOK
    <2>3. reply' = [r \in Tasks |-> IF r \in {t} THEN "dropped" ELSE reply[r]]
      BY <1>5, <1>p DEF Disconnect, TypeOK
    <2>4. Contract!Drop({t})
      BY <2>1, <2>2, <2>3 DEF Contract!Drop
    <2> QED
      BY <2>4 DEF Contract!Next
  <1>6. ASSUME Restart
        PROVE  Contract!Next
    <2> DEFINE gone == {t \in Tasks : pc[t] # "idle"}
    <2>1. \A r \in gone : reply[r] = "open"
      BY DEF OwesAnswer
    <2>2. \A r \in Tasks \ gone : tried[r] = <<>>
      BY <1>p DEF LocalsFit, BeforeFirst, Tried
    <2>3. tried' = [r \in Tasks |-> IF r \in gone THEN <<>> ELSE tried[r]]
      BY <1>6, <2>2 DEF Restart, Tried
    <2>4. reply' = [r \in Tasks |-> IF r \in gone THEN "dropped" ELSE reply[r]]
      BY <1>6 DEF Restart
    <2>5. Contract!Drop(gone)
      BY <2>1, <2>3, <2>4 DEF Contract!Drop
    <2> QED
      BY <2>5 DEF Contract!Next
  <1>7. ASSUME NEW t \in Tasks, Picked(t) \/ UsePin(t)
        PROVE  UNCHANGED Contract!vars
    <2>1. first[t] = Pending
      BY <1>7, <1>p DEF Picked, UsePin, LocalsFit, BeforeFirst
    <2>2. tried' = tried
      BY <1>7, <1>p, <2>1 DEF Picked, UsePin, Tried, TypeOK
    <2> QED
      BY <1>7, <2>2 DEF Picked, UsePin
  <1>8. ASSUME NEW t \in Tasks, Repicked(t)
        PROVE  UNCHANGED Contract!vars
    <2>1. second[t] = Pending
      BY <1>8, <1>p DEF Repicked, LocalsFit, BeforeSecond, PCs
    <2>2. tried' = tried
      BY <1>8, <1>p, <2>1 DEF Repicked, Tried, TypeOK
    <2> QED
      BY <1>8, <2>2 DEF Repicked
  <1>9. ASSUME NEW t \in Tasks,
               \/ Lookup(t) \/ PinHealth(t) \/ RefusePin(t) \/ BeginPick(t) \/ PickOn(t)
               \/ PinPrimary(t) \/ CoolPrimary(t) \/ ClearPin(t) \/ BeginRepick(t)
               \/ NothingElse(t) \/ PinAlt(t) \/ CoolAlt(t)
        PROVE  UNCHANGED Contract!vars
    BY <1>9, <1>u DEF Lookup, PinHealth, RefusePin, BeginPick, PickOn, PinPrimary, CoolPrimary,
                      ClearPin, BeginRepick, NothingElse, PinAlt, CoolAlt
  <1>10. CASE \/ CoolingEnds
              \/ \E c \in Conversations : PinExpires(c)
              \/ UNCHANGED vars
    BY <1>u, <1>10 DEF CoolingEnds, PinExpires, vars
  <1> QED
    BY <1>1, <1>2, <1>3, <1>4, <1>5, <1>6, <1>7, <1>8, <1>9, <1>10 DEF Next, Step

\* The router implements the contract (router.rs:370): for any pool and any
\* number of concurrent requests, a client gets at most two attempts on different
\* accounts and the last response an account gave.
THEOREM RouterKeepsContract == Spec => KeepsContract
  <1> DEFINE I == OwesAnswer /\ TwoAccounts
  <1>1. Init => I
    BY DEF Init, OwesAnswer, TwoAccounts, HasAlt
  <1>2. TypeInv /\ I /\ [Next]_vars => I'
    BY ContractInvNext
  <1>3. TypeInv /\ I /\ [Next]_vars => [Contract!Next]_(Contract!vars)
    BY ContractStep
  <1>4. Init => Contract!Init
    BY DEF Init, Contract!Init, Tried
  <1> QED
    BY <1>1, <1>2, <1>3, <1>4, TypeInvAlways, PTL DEF Spec, KeepsContract, Contract!Spec
=============================================================================
