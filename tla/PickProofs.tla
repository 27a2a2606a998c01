----------------------------- MODULE PickProofs -----------------------------
(***************************************************************************)
(* Proofs about PickHistory: what pick promises while other handlers       *)
(* change the cooldown maps, for any pool and any handlers.                *)
(***************************************************************************)
EXTENDS PickHistory, PoolProofs, TLAPS

\* The histories hold of the present.
Present(c, o, b, m) ==
  /\ c \intersect cooling = {}
  /\ c \intersect GatedFor(m) = {}
  /\ o \intersect GatedFor(m) = {}
  /\ b.cooling \subseteq cooling
  /\ b.gated \subseteq GatedFor(m)

PresentAll == \A t \in Tasks : Present(calm[t], open[t], barred[t], scan[t].model)

\* What a scan knows of the histories since it began: what it passed over was never
\* the account to take.
Knows(s, c, o, b) ==
  /\ s.phase \in {"health", "tier"} =>
       \A j \in Account : j < s.i => Plus(s.start, j) \notin c \ {s.exclude}
  /\ s.phase = "tier" => Candidate(s) # s.exclude /\ Candidate(s) \notin b.cooling
  /\ s.phase = "retier" =>
       /\ c \ {s.exclude} = {}
       /\ \A j \in Account : j < s.i => Plus(s.start, j) \notin o \ {s.exclude}
  /\ s.phase = "done" =>
       /\ s.result \in b.cooling \union b.gated \/ s.result = s.exclude => c \ {s.exclude} = {}
       /\ s.result \in b.gated \/ s.result = s.exclude => o \ {s.exclude} = {}

KnowsAll == \A t \in Tasks : Knows(scan[t], calm[t], open[t], barred[t])

Inv == TypeOK /\ PresentAll /\ KnowsAll

-----------------------------------------------------------------------------
(* Types *)

LEMMA GatedInPool == \A m : GatedFor(m) \subseteq Account
  BY DEF GatedFor

LEMMA InitTyped == Init => TypeOK
  BY NoScanTyped, OneInPool DEF Init, PoolInit, TypeOK, PoolTypeOK, Barred, NeverBarred

LEMMA RememberTyped ==
  ASSUME TypeOK, PoolTypeOK', Remember
  PROVE  TypeOK'
  <1>1. \A t \in Tasks : /\ (calm[t] \ cooling') \ GatedFor(scan[t].model)' \in SUBSET Account
                         /\ open[t] \ GatedFor(scan[t].model)' \in SUBSET Account
                         /\ [cooling |-> barred[t].cooling \intersect cooling',
                             gated |-> barred[t].gated \intersect GatedFor(scan[t].model)'] \in Barred
    BY DEF TypeOK, Barred
  <1> QED
    BY <1>1 DEF Remember, TypeOK

LEMMA TypeOKNext == TypeOK /\ [Next]_vars => TypeOK'
  <1> SUFFICES ASSUME TypeOK, [Next]_vars
               PROVE  TypeOK'
    OBVIOUS
  <1>0. PoolTypeOK
    BY DEF TypeOK
  <1>1. ASSUME NEW t \in Tasks, NEW e \in Account \union {NoAccount}, NEW m \in AnyModel, Pick(t, e, m)
        PROVE  TypeOK'
    <2>1. PoolTypeOK'
      BY <1>0, <1>1, StartScanTyped DEF Pick
    <2>2. [cooling |-> cooling, gated |-> GatedFor(m)] \in Barred
      BY <1>0, GatedInPool DEF PoolTypeOK, Barred
    <2> QED
      BY <1>1, <2>1, <2>2 DEF Pick, RememberFrom, TypeOK
  <1>2. ASSUME NEW t \in Tasks, ScanOn(t)
        PROVE  TypeOK'
    <2>1. PoolTypeOK'
      BY <1>0, <1>2, ScanStepTyped DEF ScanOn
    <2> QED
      BY <1>2, <2>1 DEF ScanOn, historyVars, TypeOK
  <1>3. ASSUME NEW a \in Account, Cool(a) \/ Expire(a)
        PROVE  TypeOK'
    <2>1. PoolTypeOK'
      BY <1>0, <1>3 DEF Cool, Expire, Cooldown, CooldownExpires, PoolTypeOK
    <2> QED
      BY <1>3, <2>1, RememberTyped DEF Cool, Expire
  <1>4. ASSUME NEW a \in Account, NEW m \in AnyModel, CoolModel(a, m)
        PROVE  TypeOK'
    <2>1. PoolTypeOK'
      BY <1>0, <1>4 DEF CoolModel, CooldownModel, GateEntry, PoolTypeOK
    <2> QED
      BY <1>4, <2>1, RememberTyped DEF CoolModel
  <1>5. ASSUME NEW pair \in modelCooling, ExpireModel(pair)
        PROVE  TypeOK'
    <2>1. PoolTypeOK'
      BY <1>0, <1>5 DEF ExpireModel, ModelCooldownExpires, PoolTypeOK
    <2> QED
      BY <1>5, <2>1, RememberTyped DEF ExpireModel
  <1>6. CASE UNCHANGED vars
    BY <1>6 DEF vars, TypeOK, PoolTypeOK
  <1> QED
    BY <1>1, <1>2, <1>3, <1>4, <1>5, <1>6 DEF Next

\* The pool and the histories keep their types, whatever the handlers do.
THEOREM HistoryTypes == Spec => []TypeOK
  BY InitTyped, TypeOKNext, PTL DEF Spec

-----------------------------------------------------------------------------
(* What a scan knows *)

\* What has been true throughout can only become less.
LEMMA KnowsLess ==
  ASSUME NEW s, NEW c, NEW o, NEW b, NEW d, NEW p, NEW q, Knows(s, c, o, b),
         d \subseteq c, p \subseteq o, q.cooling \subseteq b.cooling, q.gated \subseteq b.gated
  PROVE  Knows(s, d, p, q)
  BY DEF Knows

\* A pass over all offsets is a pass over all accounts.
LEMMA PassCovers ==
  ASSUME NEW s \in Scan, NEW c \in SUBSET Account, ~(s.i + 1 < N),
         Candidate(s) \notin c \ {s.exclude},
         \A j \in Account : j < s.i => Plus(s.start, j) \notin c \ {s.exclude}
  PROVE  c \ {s.exclude} = {}
  <1> SUFFICES ASSUME NEW a \in c \ {s.exclude}
               PROVE  FALSE
    OBVIOUS
  <1>1. PICK j \in Account : Plus(s.start, j) = a
    BY PlusCovers DEF Scan
  <1>2. j < s.i \/ j = s.i
    BY PoolAssumption DEF Account, Scan
  <1> QED
    BY <1>1, <1>2 DEF Candidate

LEMMA SkipKnows ==
  ASSUME NEW s \in Scan, NEW c \in SUBSET Account, NEW o \in SUBSET Account, NEW b,
         Knows(s, c, o, b),
         \/ s.phase \in {"health", "tier"} /\ Candidate(s) \notin c \ {s.exclude}
         \/ s.phase = "retier" /\ Candidate(s) \notin o \ {s.exclude}
  PROVE  Knows(Skip(s), c, o, b)
  <1> DEFINE z == Skip(s)
  <1>0. s.i \in Account /\ s.i \in Int
    BY PoolAssumption DEF Scan, Account
  <1>1. CASE s.i + 1 < N
    <2>1. /\ z.i = s.i + 1 /\ z.start = s.start /\ z.exclude = s.exclude
          /\ z.phase = IF s.phase = "retier" THEN "retier" ELSE "health"
      BY <1>1 DEF Skip, Scan
    <2>2. \A j \in Account : j < z.i => j < s.i \/ Plus(s.start, j) = Candidate(s)
      BY <2>1, <1>0 DEF Account, Candidate
    <2>3. CASE s.phase = "retier"
      BY <2>1, <2>2, <2>3 DEF Knows
    <2>4. CASE s.phase # "retier"
      BY <2>1, <2>2, <2>4 DEF Knows
    <2> QED
      BY <2>3, <2>4
  <1>2. CASE ~(s.i + 1 < N) /\ s.phase = "retier"
    <2>1. z.phase = "done" /\ z.exclude = s.exclude
      BY <1>2 DEF Skip, Scan
    <2>2. o \ {s.exclude} = {}
      BY <1>2, PassCovers DEF Knows
    <2> QED
      BY <1>2, <2>1, <2>2 DEF Knows
  <1>3. CASE ~(s.i + 1 < N) /\ s.phase # "retier"
    <2>1. z.phase = "retier" /\ z.exclude = s.exclude /\ z.i = 0
      BY <1>3 DEF Skip, Scan
    <2>2. c \ {s.exclude} = {}
      BY <1>3, PassCovers DEF Knows
    <2>3. \A j \in Account : ~(j < 0)
      BY DEF Account
    <2> QED
      BY <2>1, <2>2, <2>3 DEF Knows
  <1> QED
    BY <1>1, <1>2, <1>3

LEMMA TakeKnows ==
  ASSUME NEW s \in Scan, NEW c, NEW o, NEW b, Knows(s, c, o, b),
         s.phase \in {"tier", "retier"},
         Candidate(s) \notin b.gated, Candidate(s) # s.exclude
  PROVE  Knows(Take(s), c, o, b)
  <1>1. Take(s).phase = "done" /\ Take(s).result = Candidate(s) /\ Take(s).exclude = s.exclude
    BY DEF Take, Scan
  <1> QED
    BY <1>1 DEF Knows

\* A look at one map entry teaches the scan that what it passes over was not
\* right throughout, and that what it takes was not wrong throughout.
LEMMA StepKnows ==
  ASSUME Inv, NEW t \in Tasks, ScanStep(t)
  PROVE  Knows(scan[t]', calm[t], open[t], barred[t])
  <1> DEFINE s == scan[t]
             c == calm[t]
             o == open[t]
             b == barred[t]
             a == Candidate(s)
  <1>1. s \in Scan /\ c \in SUBSET Account /\ o \in SUBSET Account /\ scan \in [Tasks -> Scan]
    BY DEF Inv, TypeOK, PoolTypeOK
  <1>2. Knows(s, c, o, b) /\ Present(c, o, b, s.model)
    BY DEF Inv, KnowsAll, PresentAll
  <1>3. a \in Account
    BY <1>1, PlusInPool DEF Candidate, Scan
  <1>4. ModelGated(a, s.model) <=> a \in GatedFor(s.model)
    BY <1>3 DEF GatedFor
  <1> HIDE DEF s, c, o, b, a
  <1>5. CASE CheckHealth(t)
    <2>1. s.phase = "health" /\ scan[t]' = IF a = s.exclude \/ a \in cooling THEN Skip(s)
                                           ELSE [s EXCEPT !.phase = "tier"]
      BY <1>1, <1>5 DEF CheckHealth, s, a
    <2>2. CASE a = s.exclude \/ a \in cooling
      <3>1. s.phase \in {"health", "tier"} /\ Candidate(s) \notin c \ {s.exclude}
        BY <1>2, <2>1, <2>2 DEF Present, a
      <3>2. Knows(Skip(s), c, o, b)
        BY <1>1, <1>2, <3>1, SkipKnows
      <3> QED
        BY <2>1, <2>2, <3>2 DEF s, c, o, b
    <2>3. CASE ~(a = s.exclude \/ a \in cooling)
      <3> DEFINE z == [s EXCEPT !.phase = "tier"]
      <3>1. z.phase = "tier" /\ z.i = s.i /\ z.start = s.start /\ z.exclude = s.exclude
        BY <1>1 DEF Scan
      <3>2. Candidate(z) = a
        BY <3>1 DEF Candidate, a
      <3>3. a \notin b.cooling
        BY <1>2, <2>3 DEF Present
      <3>4. Knows(z, c, o, b)
        BY <1>2, <2>1, <2>3, <3>1, <3>2, <3>3 DEF Knows
      <3> QED
        BY <2>1, <2>3, <3>4 DEF s, c, o, b
    <2> QED
      BY <2>2, <2>3
  <1>6. CASE CheckTier(t)
    <2>1. s.phase = "tier" /\ scan[t]' = IF a \in GatedFor(s.model) THEN Skip(s) ELSE Take(s)
      BY <1>1, <1>4, <1>6 DEF CheckTier, s, a
    <2>2. CASE a \in GatedFor(s.model)
      <3>1. s.phase \in {"health", "tier"} /\ Candidate(s) \notin c \ {s.exclude}
        BY <1>2, <2>1, <2>2 DEF Present, a
      <3>2. Knows(Skip(s), c, o, b)
        BY <1>1, <1>2, <3>1, SkipKnows
      <3> QED
        BY <2>1, <2>2, <3>2 DEF s, c, o, b
    <2>3. CASE a \notin GatedFor(s.model)
      <3>1. a \notin b.gated /\ a # s.exclude
        BY <1>2, <2>1, <2>3 DEF Present, Knows, a
      <3>2. Knows(Take(s), c, o, b)
        BY <1>1, <1>2, <2>1, <2>3, <3>1, TakeKnows DEF a
      <3> QED
        BY <2>1, <2>3, <3>2 DEF s, c, o, b
    <2> QED
      BY <2>2, <2>3
  <1>7. CASE CheckTierAgain(t)
    <2>1. s.phase = "retier" /\ scan[t]' = IF a = s.exclude \/ a \in GatedFor(s.model)
                                             THEN Skip(s) ELSE Take(s)
      BY <1>1, <1>4, <1>7 DEF CheckTierAgain, s, a
    <2>2. CASE a = s.exclude \/ a \in GatedFor(s.model)
      <3>1. a \notin o \ {s.exclude}
        BY <1>2, <2>2 DEF Present
      <3>2. Knows(Skip(s), c, o, b)
        BY <1>1, <1>2, <2>1, <3>1, SkipKnows DEF a
      <3> QED
        BY <2>1, <2>2, <3>2 DEF s, c, o, b
    <2>3. CASE ~(a = s.exclude \/ a \in GatedFor(s.model))
      <3>1. a \notin b.gated
        BY <1>2, <2>3 DEF Present
      <3>2. Knows(Take(s), c, o, b)
        BY <1>1, <1>2, <2>1, <2>3, <3>1, TakeKnows DEF a
      <3> QED
        BY <2>1, <2>3, <3>2 DEF s, c, o, b
    <2> QED
      BY <2>2, <2>3
  <1> QED
    BY <1>5, <1>6, <1>7 DEF ScanStep

-----------------------------------------------------------------------------
(* The histories *)

\* A change of the maps while no scan moves.
LEMMA RememberKeeps ==
  ASSUME Inv, Remember, scan' = scan
  PROVE  PresentAll' /\ KnowsAll'
  <1>1. ASSUME NEW t \in Tasks
        PROVE  /\ Present(calm[t], open[t], barred[t], scan[t].model)'
               /\ Knows(scan[t], calm[t], open[t], barred[t])'
    <2>1. /\ calm'[t] = (calm[t] \ cooling') \ GatedFor(scan[t].model)'
          /\ open'[t] = open[t] \ GatedFor(scan[t].model)'
          /\ barred'[t] = [cooling |-> barred[t].cooling \intersect cooling',
                           gated |-> barred[t].gated \intersect GatedFor(scan[t].model)']
      BY DEF Remember
    <2>2. Present(calm[t], open[t], barred[t], scan[t].model)'
      BY <2>1 DEF Present
    <2>3. /\ calm'[t] \subseteq calm[t] /\ open'[t] \subseteq open[t]
          /\ barred'[t].cooling \subseteq barred[t].cooling
          /\ barred'[t].gated \subseteq barred[t].gated
      BY <2>1
    <2>4. Knows(scan[t], calm[t], open[t], barred[t])
      BY DEF Inv, KnowsAll
    <2>5. Knows(scan[t], calm'[t], open'[t], barred'[t])
      BY <2>3, <2>4, KnowsLess
    <2> QED
      BY <2>2, <2>5
  <1> QED
    BY <1>1 DEF PresentAll, KnowsAll

LEMMA InvInit == Init => Inv
  BY InitTyped DEF Init, PoolInit, NoScan, NeverBarred, Inv, PresentAll, Present, KnowsAll, Knows

LEMMA InvNext == Inv /\ [Next]_vars => Inv'
  <1> SUFFICES ASSUME Inv, [Next]_vars
               PROVE  PresentAll' /\ KnowsAll'
    BY TypeOKNext DEF Inv
  <1>1. ASSUME NEW t \in Tasks, NEW e \in Account \union {NoAccount}, NEW m \in AnyModel, Pick(t, e, m)
        PROVE  PresentAll' /\ KnowsAll'
    <2> DEFINE fresh == [NoScan EXCEPT !.phase = "health", !.start = next, !.exclude = e, !.model = m]
    <2>1. /\ scan' = [scan EXCEPT ![t] = fresh]
          /\ calm' = [calm EXCEPT ![t] = (Account \ cooling) \ GatedFor(m)]
          /\ open' = [open EXCEPT ![t] = Account \ GatedFor(m)]
          /\ barred' = [barred EXCEPT ![t] = [cooling |-> cooling, gated |-> GatedFor(m)]]
          /\ UNCHANGED <<cooling, modelCooling>>
      BY <1>1 DEF Pick, RememberFrom, StartScan
    <2>2. fresh.phase = "health" /\ fresh.i = 0 /\ fresh.model = m
      BY DEF NoScan
    <2>3. \A x : GatedFor(x)' = GatedFor(x)
      BY <2>1 DEF GatedFor, ModelGated
    <2> HIDE DEF fresh
    <2>4. ASSUME NEW h \in Tasks
          PROVE  /\ Present(calm[h], open[h], barred[h], scan[h].model)'
                 /\ Knows(scan[h], calm[h], open[h], barred[h])'
      <3>1. CASE h = t
        <4>1. /\ scan'[h] = fresh /\ calm'[h] = (Account \ cooling) \ GatedFor(m)
              /\ open'[h] = Account \ GatedFor(m)
              /\ barred'[h] = [cooling |-> cooling, gated |-> GatedFor(m)]
          BY <2>1, <3>1 DEF Inv, TypeOK, PoolTypeOK
        <4>2. Present(calm[h], open[h], barred[h], scan[h].model)'
          BY <2>1, <2>2, <2>3, <4>1 DEF Present
        <4>3. \A j \in Account : ~(j < 0)
          BY DEF Account
        <4>4. Knows(fresh, calm'[h], open'[h], barred'[h])
          BY <2>2, <4>3 DEF Knows
        <4> QED
          BY <4>1, <4>2, <4>4
      <3>2. CASE h # t
        <4>1. scan'[h] = scan[h] /\ calm'[h] = calm[h] /\ open'[h] = open[h] /\ barred'[h] = barred[h]
          BY <2>1, <3>2 DEF Inv, TypeOK, PoolTypeOK
        <4>2. /\ Present(calm[h], open[h], barred[h], scan[h].model)
              /\ Knows(scan[h], calm[h], open[h], barred[h])
          BY DEF Inv, PresentAll, KnowsAll
        <4>3. Present(calm[h], open[h], barred[h], scan[h].model)'
          BY <2>1, <2>3, <4>1, <4>2 DEF Present
        <4> QED
          BY <4>1, <4>2, <4>3
      <3> QED
        BY <3>1, <3>2
    <2> QED
      BY <2>4 DEF PresentAll, KnowsAll
  <1>2. ASSUME NEW t \in Tasks, ScanOn(t)
        PROVE  PresentAll' /\ KnowsAll'
    <2>1. UNCHANGED <<cooling, modelCooling, calm, open, barred>>
      BY <1>2 DEF ScanOn, historyVars, ScanStep, CheckHealth, CheckTier, CheckTierAgain
    <2>2. Knows(scan[t]', calm[t], open[t], barred[t])
      BY <1>2, StepKnows DEF ScanOn
    <2>3. \A h \in Tasks : h # t => scan'[h] = scan[h]
      BY <1>2 DEF Inv, TypeOK, PoolTypeOK, ScanOn, ScanStep, CheckHealth, CheckTier, CheckTierAgain
    <2>4. \A x : GatedFor(x)' = GatedFor(x)
      BY <2>1 DEF GatedFor, ModelGated
    <2>5. \A h \in Tasks : scan'[h].model = scan[h].model
      <3>1. scan \in [Tasks -> Scan]
        BY DEF Inv, TypeOK, PoolTypeOK
      <3>2. /\ Skip(scan[t]).model = scan[t].model
            /\ Take(scan[t]).model = scan[t].model
            /\ [scan[t] EXCEPT !.phase = "tier"].model = scan[t].model
        BY <3>1 DEF Skip, Take, Scan
      <3>3. \/ scan'[t] = Skip(scan[t])
            \/ scan'[t] = Take(scan[t])
            \/ scan'[t] = [scan[t] EXCEPT !.phase = "tier"]
        <4>1. CASE CheckHealth(t)
          BY <3>1, <4>1 DEF CheckHealth
        <4>2. CASE CheckTier(t)
          BY <3>1, <4>2 DEF CheckTier
        <4>3. CASE CheckTierAgain(t)
          BY <3>1, <4>3 DEF CheckTierAgain
        <4> QED
          BY <1>2, <4>1, <4>2, <4>3 DEF ScanOn, ScanStep
      <3>4. scan'[t].model = scan[t].model
        BY <3>2, <3>3
      <3> QED
        BY <2>3, <3>4
    <2>6. PresentAll'
      BY <2>1, <2>4, <2>5 DEF Inv, PresentAll, Present
    <2>7. KnowsAll'
      <3> SUFFICES ASSUME NEW h \in Tasks
                   PROVE  Knows(scan'[h], calm[h], open[h], barred[h])
        BY <2>1 DEF KnowsAll
      <3>1. CASE h = t
        BY <2>2, <3>1
      <3>2. CASE h # t
        BY <2>3, <3>2 DEF Inv, KnowsAll
      <3> QED
        BY <3>1, <3>2
    <2> QED
      BY <2>6, <2>7
  <1>3. ASSUME NEW a \in Account, Cool(a) \/ Expire(a)
        PROVE  PresentAll' /\ KnowsAll'
    BY <1>3, RememberKeeps DEF Cool, Expire, CooldownExpires
  <1>4. ASSUME NEW a \in Account, NEW m \in AnyModel, CoolModel(a, m)
        PROVE  PresentAll' /\ KnowsAll'
    BY <1>4, RememberKeeps DEF CoolModel
  <1>5. ASSUME NEW pair \in modelCooling, ExpireModel(pair)
        PROVE  PresentAll' /\ KnowsAll'
    BY <1>5, RememberKeeps DEF ExpireModel, ModelCooldownExpires
  <1>6. CASE UNCHANGED vars
    <2>1. \A x : GatedFor(x)' = GatedFor(x)
      BY <1>6 DEF vars, GatedFor, ModelGated
    <2> QED
      BY <1>6, <2>1 DEF vars, Inv, PresentAll, Present, KnowsAll
  <1> QED
    BY <1>1, <1>2, <1>3, <1>4, <1>5, <1>6 DEF Next

LEMMA InvAlways == Spec => []Inv
  BY InvInit, InvNext, PTL DEF Spec

LEMMA OthersOf ==
  ASSUME Inv, NEW t \in Tasks
  PROVE  /\ calm[t] \intersect Others(t) = calm[t] \ {scan[t].exclude}
         /\ open[t] \intersect Others(t) = open[t] \ {scan[t].exclude}
  BY DEF Inv, TypeOK, Others

\* However the cooldown maps change during a scan, pick returns an account that was
\* no good throughout only if no other account was good throughout.
THEOREM HealthyFirst == Spec => []PickPrefersHealthy
  <1>1. Inv => PickPrefersHealthy
    <2> SUFFICES ASSUME Inv, NEW t \in Tasks, Returned(t),
                        \/ scan[t].result \in barred[t].cooling \union barred[t].gated
                        \/ scan[t].result = scan[t].exclude
                 PROVE  calm[t] \intersect Others(t) = {}
      BY DEF PickPrefersHealthy
    <2>1. Knows(scan[t], calm[t], open[t], barred[t])
      BY DEF Inv, KnowsAll
    <2> QED
      BY <2>1, OthersOf DEF Returned, Knows
  <1> QED
    BY <1>1, InvAlways, PTL

\* However the cooldown maps change during a scan, pick returns an account gated
\* throughout only if every other was gated at some moment of the scan.
THEOREM GatesLast == Spec => []PickAvoidsTierGate
  <1>1. Inv => PickAvoidsTierGate
    <2> SUFFICES ASSUME Inv, NEW t \in Tasks, Returned(t),
                        scan[t].result \in barred[t].gated \/ scan[t].result = scan[t].exclude
                 PROVE  open[t] \intersect Others(t) = {}
      BY DEF PickAvoidsTierGate
    <2>1. Knows(scan[t], calm[t], open[t], barred[t])
      BY DEF Inv, KnowsAll
    <2> QED
      BY <2>1, OthersOf DEF Returned, Knows
  <1> QED
    BY <1>1, InvAlways, PTL
=============================================================================
