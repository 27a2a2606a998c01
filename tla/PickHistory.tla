------------------------------ MODULE PickHistory ------------------------------
(***************************************************************************)
(* AccountPool under any use of it: handlers call pick with any exclusion  *)
(* and any model, other handlers insert cooldowns between the steps of a   *)
(* scan, and cooldowns expire.  Three history variables record what was    *)
(* true during a whole scan, which is the most that a scan under changing  *)
(* cooldowns can be held to.                                               *)
(***************************************************************************)
EXTENDS AccountPool

VARIABLES
  calm,    \* per handler: accounts neither cooling nor gated since its scan began
  open,    \* per handler: accounts not gated for its model since its scan began
  barred   \* per handler: accounts cooling, or gated, in every state since it began

historyVars == <<calm, open, barred>>
vars == <<next, cooling, modelCooling, scan, calm, open, barred>>

\* The histories while a scan by t for model m runs: what the next state
\* still satisfies.  `barred` keeps the two reasons apart, because an account
\* that changes from one to the other mid-scan may rightly be picked.
Barred == [cooling: SUBSET Account, gated: SUBSET Account]
NeverBarred == [cooling |-> {}, gated |-> {}]

GatedFor(m) == {a \in Account : ModelGated(a, m)}

Remember ==
  /\ calm' = [t \in Tasks |-> (calm[t] \ cooling') \ GatedFor(scan[t].model)']
  /\ open' = [t \in Tasks |-> open[t] \ GatedFor(scan[t].model)']
  /\ barred' = [t \in Tasks |-> [cooling |-> barred[t].cooling \intersect cooling',
                                 gated |-> barred[t].gated \intersect GatedFor(scan[t].model)']]

\* The scan of t begins: the histories start from the present.
RememberFrom(t, m) ==
  /\ calm' = [calm EXCEPT ![t] = (Account \ cooling) \ GatedFor(m)]
  /\ open' = [open EXCEPT ![t] = Account \ GatedFor(m)]
  /\ barred' = [barred EXCEPT ![t] = [cooling |-> cooling, gated |-> GatedFor(m)]]

Init ==
  /\ PoolInit
  /\ calm = [t \in Tasks |-> {}]
  /\ open = [t \in Tasks |-> {}]
  /\ barred = [t \in Tasks |-> NeverBarred]

Pick(t, exclude, m) ==
  /\ scan[t].phase \in {"off", "done"}
  /\ StartScan(t, exclude, m)
  /\ RememberFrom(t, m)

ScanOn(t) == ScanStep(t) /\ UNCHANGED historyVars

Cool(a) == Cooldown(a) /\ UNCHANGED <<next, scan>> /\ Remember
CoolModel(a, m) == CooldownModel(a, m) /\ UNCHANGED <<next, scan>> /\ Remember
Expire(a) == CooldownExpires(a) /\ Remember
ExpireModel(pair) == ModelCooldownExpires(pair) /\ Remember

Next ==
  \/ \E t \in Tasks, e \in Account \union {NoAccount}, m \in AnyModel : Pick(t, e, m)
  \/ \E t \in Tasks : ScanOn(t)
  \/ \E a \in Account : Cool(a) \/ Expire(a)
  \/ \E a \in Account, m \in AnyModel : CoolModel(a, m)
  \/ \E pair \in modelCooling : ExpireModel(pair)

Spec == Init /\ [][Next]_vars

\* A scan that has begun runs to its end: there is no await in pick.
FairSpec == Spec /\ \A t \in Tasks : WF_vars(ScanOn(t))

-----------------------------------------------------------------------------
\* The types of the pool's state and of the histories.
TypeOK ==
  /\ PoolTypeOK
  /\ calm \in [Tasks -> SUBSET Account]
  /\ open \in [Tasks -> SUBSET Account]
  /\ barred \in [Tasks -> Barred]

\* The scan of t has returned an account.
Returned(t) == scan[t].phase = "done"

Others(t) == Account \ {scan[t].exclude}

\* pick (router.rs:186) prefers healthy accounts, however the cooldown maps
\* change while it scans: it returns an account that was cooling, or gated for
\* the model, in every state of the scan, or the excluded one, only if no other
\* account was healthy in every state of the scan.
PickPrefersHealthy ==
  \A t \in Tasks :
    /\ Returned(t)
    /\ \/ scan[t].result \in barred[t].cooling \union barred[t].gated
       \/ scan[t].result = scan[t].exclude
    => calm[t] \intersect Others(t) = {}

\* "never ignored while a healthier pick might still exist" (router.rs:184): pick
\* returns an account that was gated for the model throughout, or the excluded
\* one, only if every other account was seen gated too.
PickAvoidsTierGate ==
  \A t \in Tasks :
    /\ Returned(t)
    /\ scan[t].result \in barred[t].gated \/ scan[t].result = scan[t].exclude
    => open[t] \intersect Others(t) = {}

\* "a request is never dropped for lack of a pick" (router.rs:183): a call of
\* pick ends, and with an account, although other handlers keep inserting
\* cooldowns while it runs.
PickReturns ==
  \A t \in Tasks : scan[t].phase # "off" ~> Returned(t) /\ scan[t].result \in Account
=============================================================================
