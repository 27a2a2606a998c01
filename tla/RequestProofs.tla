---------------------------- MODULE RequestProofs ----------------------------
(***************************************************************************)
(* Proofs about what becomes of a request: ModelChoice, for every model id *)
(* (any number of segments, of any values) and any values of the two       *)
(* effort fields, and Conversation, for any texts, names, messages and     *)
(* number of turns.                                                        *)
(***************************************************************************)
EXTENDS ModelChoice, Conversation, WellFoundedInduction, TLAPS

-----------------------------------------------------------------------------
(* The table of the models *)

\* A known model takes efforts only, and its default is one, if it has any.
LEMMA KnownTakes ==
  ASSUME NEW model \in KnownModels
  PROVE  /\ Allowed(model) \subseteq Efforts /\ "" \notin Allowed(model)
         /\ Default(model) \in Efforts \union {""}
  <1>1. "" \notin Efforts
    BY DEF Efforts
  <1>2. Allowed(model) \subseteq Efforts
    BY DEF KnownModels, Allowed, Efforts
  <1>3. Default(model) \in Efforts \union {""}
    BY DEF Default, Efforts
  <1> QED
    BY <1>1, <1>2, <1>3

LEMMA SegmentsOfKnown == <<"">> \notin KnownModels
  BY DEF KnownModels, Gpt5, Gpt51, Gpt52, Gpt54, Gpt55, Codex, Mini, Gpt51CodexMax, Gpt53Codex, Spark,
         Sol, Terra, Luna, Astra

-----------------------------------------------------------------------------
(* The id *)

LEMMA Least ==
  ASSUME NEW T, T \subseteq Nat, T # {}
  PROVE  \E n \in T : \A k \in T : n <= k
  <1>1. \E n \in T : \A k \in T : ~(<<k, n>> \in OpToRel(<, Nat))
    BY NatLessThanWellFounded, WFMin, Zenon
  <1>2. \A k, n \in Nat : ~(<<k, n>> \in OpToRel(<, Nat)) => n <= k
    BY DEF OpToRel
  <1> QED
    BY <1>1, <1>2, Zenon

\* A family is one of the known models.
LEMMA FamilyIsKnown == \A name : Family(name) \in KnownModels
  <1> SUFFICES ASSUME NEW name
               PROVE  Family(name) \in KnownModels
    OBVIOUS
  <1> DEFINE hits == {j \in DOMAIN Guards : Mentions(name, Guards[j].part)}
  <1>1. Gpt5 \in KnownModels /\ Astra \in KnownModels /\ Sol \in KnownModels
    BY DEF KnownModels
  <1>2. \A j \in DOMAIN Guards : Guards[j].model \in KnownModels
    BY DEF Guards, Guard, KnownModels
  <1>3. ASSUME hits # {}
        PROVE  Min(hits) \in hits
    <2>1. DOMAIN Guards \subseteq Nat
      BY DEF Guards
    <2>2. hits \subseteq Nat
      BY <2>1
    <2> HIDE DEF hits
    <2>3. \E n \in hits : \A k \in hits : n <= k
      BY <1>3, <2>2, Least
    <2> QED
      BY <2>3 DEF Min
  <1>4. hits # {} => Guards[Min(hits)].model \in KnownModels
    BY <1>2, <1>3
  <1> QED
    BY <1>1, <1>4, Zenon DEF Family

LEMMA NormalizeIsKnown == \A name : Normalize(name) \in KnownModels
  BY FamilyIsKnown DEF Normalize

-----------------------------------------------------------------------------
(* The invariant: what was sent is what the request asks for. *)

Built == [model |-> Normalize(wanted.name),
          effort |-> Clamp(Level(Resolve(wanted)), Normalize(wanted.name))]

ChoiceInv == chosen = Nothing \/ chosen = Built

LEMMA ChoiceInvAlways == ChoiceSpec => []ChoiceInv
  <1>1. ChoiceInit => ChoiceInv
    BY DEF ChoiceInit, ChoiceInv
  <1>2. ChoiceInv /\ [ChoiceNext]_choiceVars => ChoiceInv'
    BY DEF ChoiceInv, ChoiceNext, Build, Built, choiceVars
  <1> QED
    BY <1>1, <1>2, PTL DEF ChoiceSpec

LEMMA SentIsBuilt ==
  ASSUME ChoiceInv, chosen # Nothing
  PROVE  /\ chosen.model = Normalize(wanted.name) /\ chosen.model \in KnownModels
         /\ chosen.effort = Clamp(Level(Resolve(wanted)), chosen.model)
  BY NormalizeIsKnown DEF ChoiceInv, Built

LEMMA LevelIsEffort ==
  /\ \A e : Level(e) \in Efforts \union {""}
  /\ \A e \in Efforts : Level(e) = e
  /\ Level("") = ""
  BY DEF Level, Efforts

\* Whatever a client asks for, a model the backend serves is sent, with a known effort
\* or none: the chain of substring tests has no way out of KNOWN_MODELS.
THEOREM ModelTypes == ChoiceSpec => []TypeOK
  <1>1. ChoiceInv => TypeOK
    <2> SUFFICES ASSUME ChoiceInv, chosen # Nothing
                 PROVE  chosen.model \in KnownModels /\ chosen.effort \in Efforts \union {""}
      BY DEF TypeOK
    <2>1. chosen.model \in KnownModels /\ chosen.effort = Clamp(Level(Resolve(wanted)), chosen.model)
      BY SentIsBuilt
    <2>2. Default(chosen.model) \in Efforts \union {""} /\ Level(Resolve(wanted)) \in Efforts \union {""}
      BY <2>1, KnownTakes, LevelIsEffort
    <2> QED
      BY <2>1, <2>2 DEF Clamp
  <1> QED
    BY <1>1, ChoiceInvAlways, PTL

\* A known id is served as the model it names, though it may end like an effort
\* (gpt-5.1-codex-max), and asks for no effort by its name (model.rs:30-35).
THEOREM KnownServed == ChoiceSpec => []KnownModelIsServed
  <1>1. ChoiceInv => KnownModelIsServed
    <2> SUFFICES ASSUME ChoiceInv, chosen # Nothing, wanted.name \in KnownModels
                 PROVE  chosen.model = wanted.name /\ (Plain => chosen.effort = Default(chosen.model))
      BY DEF KnownModelIsServed
    <2>1. /\ chosen.model = wanted.name /\ chosen.model \in KnownModels
          /\ chosen.effort = Clamp(Level(Resolve(wanted)), chosen.model)
      BY SentIsBuilt DEF Normalize
    <2>2. ASSUME Plain
          PROVE  chosen.effort = Default(chosen.model)
      <3>1. Resolve(wanted) = ""
        BY <2>2 DEF Plain, Resolve, EffortSuffix
      <3>2. chosen.effort = Clamp("", chosen.model)
        BY <2>1, <3>1, LevelIsEffort
      <3>3. "" \notin Allowed(chosen.model)
        BY <2>1, KnownTakes
      <3> QED
        BY <3>2, <3>3 DEF Clamp
    <2> QED
      BY <2>1, <2>2
  <1> QED
    BY <1>1, ChoiceInvAlways, PTL

\* A known id with an effort behind it is that model at that effort, if it takes it
\* (model.rs:890-907).
THEOREM SuffixedServed == ChoiceSpec => []SuffixedModelIsServed
  <1>1. ChoiceInv => SuffixedModelIsServed
    <2> SUFFICES ASSUME ChoiceInv, chosen # Nothing, HasSuffix(wanted.name),
                        Front(wanted.name) \in KnownModels, wanted.name \notin KnownModels
                 PROVE  /\ chosen.model = Front(wanted.name)
                        /\ (Plain /\ Last(wanted.name) \in Allowed(chosen.model))
                             => chosen.effort = Last(wanted.name)
      BY DEF SuffixedModelIsServed
    <2>1. chosen.model = Front(wanted.name) /\ chosen.effort = Clamp(Level(Resolve(wanted)), chosen.model)
      BY SentIsBuilt DEF Normalize, StripSuffix
    <2>2. ASSUME Plain, Last(wanted.name) \in Allowed(chosen.model)
          PROVE  chosen.effort = Last(wanted.name)
      <3>1. Front(wanted.name) # <<"">>
        BY SegmentsOfKnown
      <3>2. Resolve(wanted) = Last(wanted.name)
        BY <2>2, <3>1 DEF Plain, Resolve, EffortSuffix
      <3>3. Level(Last(wanted.name)) = Last(wanted.name)
        BY LevelIsEffort DEF HasSuffix
      <3> QED
        BY <2>1, <2>2, <3>2, <3>3 DEF Clamp
    <2> QED
      BY <2>1, <2>2
  <1> QED
    BY <1>1, ChoiceInvAlways, PTL

\* An explicit effort the model takes is the one sent (request.rs:62-64).
THEOREM ExplicitWins == ChoiceSpec => []ExplicitEffortWins
  <1>1. ChoiceInv => ExplicitEffortWins
    <2> SUFFICES ASSUME ChoiceInv, chosen # Nothing, wanted.effort \in Allowed(chosen.model)
                 PROVE  chosen.effort = wanted.effort
      BY DEF ExplicitEffortWins
    <2>1. chosen.model \in KnownModels /\ chosen.effort = Clamp(Level(Resolve(wanted)), chosen.model)
      BY SentIsBuilt
    <2>2. wanted.effort \in Efforts /\ wanted.effort # ""
      BY <2>1, KnownTakes
    <2>3. Resolve(wanted) = wanted.effort /\ Level(wanted.effort) = wanted.effort
      BY <2>2, LevelIsEffort DEF Resolve
    <2> QED
      BY <2>1, <2>3 DEF Clamp
  <1> QED
    BY <1>1, ChoiceInvAlways, PTL

-----------------------------------------------------------------------------
(* Loops: f holds what a loop has after each of its n rounds.              *)

Runs(D, base, step, n, f) ==
  /\ f \in [0..n -> D]
  /\ f[0] = base
  /\ \A p \in 1..n : f[p] = step[p][f[p - 1]]

LEMMA LoopRuns ==
  ASSUME NEW D, NEW base \in D, NEW n \in Nat, NEW step, \A p \in 1..n : step[p] \in [D -> D]
  PROVE  \E f : Runs(D, base, step, n, f)
  <1> DEFINE bad == {k \in 0..n : ~\E f : Runs(D, base, step, k, f)}
  <1>1. ASSUME bad # {}
        PROVE  FALSE
    <2>1. bad \subseteq Nat
      OBVIOUS
    <2>2. PICK k \in bad : \A j \in bad : k <= j
      <3> HIDE DEF bad
      <3> QED
        BY <1>1, <2>1, Least
    <2>3. k \in 0..n /\ ~\E f : Runs(D, base, step, k, f)
      OBVIOUS
    <2>4. k # 0
      <3>1. Runs(D, base, step, 0, [i \in 0..0 |-> base])
        BY DEF Runs
      <3> QED
        BY <2>3, <3>1
    <2>5. k - 1 \in 0..n /\ k - 1 \notin bad
      <3>1. k - 1 \in 0..n /\ ~(k <= k - 1)
        BY <2>3, <2>4
      <3> HIDE DEF bad
      <3> QED
        BY <2>2, <3>1
    <2>6. PICK f : Runs(D, base, step, k - 1, f)
      BY <2>5
    <2> DEFINE g == [i \in 0..k |-> IF i = k THEN step[k][f[k - 1]] ELSE f[i]]
    <2>7. f \in [0..k - 1 -> D] /\ f[0] = base /\ \A p \in 1..k - 1 : f[p] = step[p][f[p - 1]]
      BY <2>6 DEF Runs
    <2>8. step[k] \in [D -> D] /\ f[k - 1] \in D
      BY <2>3, <2>4, <2>7
    <2>9. g \in [0..k -> D]
      BY <2>3, <2>4, <2>7, <2>8
    <2>10. g[0] = base
      BY <2>3, <2>4, <2>7
    <2>11. \A p \in 1..k : g[p] = step[p][g[p - 1]]
      BY <2>3, <2>4, <2>7
    <2> HIDE DEF g
    <2>12. Runs(D, base, step, k, g)
      BY <2>9, <2>10, <2>11 DEF Runs
    <2> QED
      BY <2>3, <2>12
  <1>2. n \in 0..n
    OBVIOUS
  <1> QED
    BY <1>1, <1>2

\* What holds before the first round and after each that follows one it holds after.
LEMMA Rounds ==
  ASSUME NEW n \in Nat, NEW P, 0 \in P, \A p \in 1..n : p - 1 \in P => p \in P
  PROVE  0..n \subseteq P
  <1> DEFINE bad == (0..n) \ P
  <1> SUFFICES ASSUME bad # {}
               PROVE  FALSE
    OBVIOUS
  <1>1. PICK p \in bad : \A j \in bad : p <= j
    <2>1. bad \subseteq Nat
      OBVIOUS
    <2> HIDE DEF bad
    <2> QED
      BY <2>1, Least
  <1>2. p \in 1..n /\ p \notin P
    BY <1>1
  <1>3. p - 1 \in 0..n /\ ~(p <= p - 1)
    BY <1>2
  <1>4. p - 1 \notin bad
    <2> HIDE DEF bad
    <2> QED
      BY <1>1, <1>3
  <1> QED
    BY <1>2, <1>3, <1>4

-----------------------------------------------------------------------------
(* FlattenSeq                                                              *)

LEMMA EmptyText ==
  ASSUME NEW S, NEW s \in Seq(S), Len(s) = 0
  PROVE  s = <<>>
  OBVIOUS

\* f holds the prefixes of a flattening.
Flattens(S, ss, f) ==
  /\ f \in [0..Len(ss) -> Seq(S)]
  /\ f[0] = <<>>
  /\ \A i \in 1..Len(ss) : f[i] = f[i - 1] \o ss[i]

LEMMA FlatRuns ==
  ASSUME NEW S, NEW ss \in Seq(Seq(S))
  PROVE  \E f : Flattens(S, ss, f) /\ FlattenSeq(ss) = f[Len(ss)]
  <1> DEFINE step == [p \in 1..Len(ss) |-> [o \in Seq(S) |-> o \o ss[p]]]
  <1>1. Len(ss) \in Nat /\ <<>> \in Seq(S) /\ \A i \in 1..Len(ss) : ss[i] \in Seq(S)
    OBVIOUS
  <1>2. \A p \in 1..Len(ss) : step[p] \in [Seq(S) -> Seq(S)]
    BY <1>1
  <1>3. PICK f : Runs(Seq(S), <<>>, step, Len(ss), f)
    <2> HIDE DEF step
    <2> QED
      BY <1>1, <1>2, LoopRuns
  <1>4. f \in [0..Len(ss) -> Seq(S)] /\ f[0] = <<>> /\ \A p \in 1..Len(ss) : f[p] = step[p][f[p - 1]]
    BY <1>3 DEF Runs
  <1>5. \A p \in 1..Len(ss) : f[p - 1] \in Seq(S)
    <2>1. \A p \in 1..Len(ss) : p - 1 \in 0..Len(ss)
      BY <1>1
    <2> QED
      BY <1>4, <2>1
  <1>6. \A p \in 1..Len(ss) : f[p] = f[p - 1] \o ss[p]
    BY <1>4, <1>5
  <1>7. Flattens(S, ss, f)
    BY <1>4, <1>6 DEF Flattens
  <1>8. FlattenSeq(ss) = f[Len(ss)]
    <2>1. CASE Len(ss) = 0
      <3>1. ss = <<>> /\ f[Len(ss)] = <<>>
        BY <2>1, <1>4
      <3> QED
        BY <2>1, <3>1, Zenon DEF FlattenSeq
    <2>2. CASE Len(ss) # 0
      <3> DEFINE Step(h) == [i \in 1..Len(ss) |-> IF i = 1 THEN ss[i] ELSE h[i - 1] \o ss[i]]
                 it == CHOOSE h : h = Step(h)
                 g == [i \in 1..Len(ss) |-> f[i]]
                 off == {i \in 1..Len(ss) : it[i] # f[i]}
      <3>1. f[1] = ss[1]
        <4>1. 1 \in 1..Len(ss) /\ 1 - 1 = 0
          BY <1>1, <2>2
        <4>2. f[1] = f[0] \o ss[1]
          BY <1>6, <4>1
        <4>3. ss[1] \in Seq(S)
          BY <1>1, <4>1
        <4>4. <<>> \o ss[1] = ss[1]
          BY <4>3
        <4> QED
          BY <1>4, <4>2, <4>4
      <3>2. g = Step(g)
        <4>1. \A i \in 1..Len(ss) : g[i] = IF i = 1 THEN ss[i] ELSE g[i - 1] \o ss[i]
          <5> SUFFICES ASSUME NEW i \in 1..Len(ss)
                       PROVE  g[i] = IF i = 1 THEN ss[i] ELSE g[i - 1] \o ss[i]
            OBVIOUS
          <5>1. g[i] = f[i] /\ (i # 1 => g[i - 1] = f[i - 1])
            OBVIOUS
          <5>2. f[i] = f[i - 1] \o ss[i]
            BY <1>6
          <5> HIDE DEF g
          <5> QED
            BY <3>1, <5>1, <5>2
        <4> QED
          BY <4>1
      <3>3. it = Step(it)
        <4> HIDE DEF g
        <4> QED
          BY <3>2
      <3>4. FlattenSeq(ss) = it[Len(ss)]
        BY <2>2 DEF FlattenSeq
      <3> HIDE DEF it, g
      <3>5. off = {}
        <4> SUFFICES ASSUME off # {}
                     PROVE  FALSE
          OBVIOUS
        <4>1. off \subseteq Nat
          OBVIOUS
        <4>2. PICK i \in off : \A j \in off : i <= j
          <5> HIDE DEF off
          <5> QED
            BY <4>1, Least
        <4>3. i \in 1..Len(ss) /\ it[i] # f[i]
          BY <4>2
        <4>4. i # 1
          BY <3>1, <3>3, <4>3
        <4>5. i - 1 \in 1..Len(ss) /\ ~(i <= i - 1)
          BY <4>3, <4>4
        <4>6. i - 1 \notin off
          <5> HIDE DEF off
          <5> QED
            BY <4>2, <4>5
        <4>7. it[i - 1] = f[i - 1]
          BY <4>5, <4>6
        <4>8. it[i] = it[i - 1] \o ss[i]
          BY <3>3, <4>3, <4>4
        <4> QED
          BY <1>6, <4>3, <4>7, <4>8, Zenon
      <3>6. Len(ss) \in 1..Len(ss)
        BY <1>1, <2>2
      <3> QED
        BY <3>4, <3>5, <3>6
    <2> QED
      BY <2>1, <2>2
  <1> QED
    BY <1>7, <1>8

LEMMA Appended ==
  ASSUME NEW S, NEW s \in Seq(S), NEW x \in S
  PROVE  /\ Append(s, x) \in Seq(S) /\ Len(Append(s, x)) = Len(s) + 1 /\ Len(s) \in Nat
         /\ \A i \in 1..Len(s) : Append(s, x)[i] = s[i]
         /\ Append(s, x)[Len(s) + 1] = x
  OBVIOUS

LEMMA FlatAppends ==
  ASSUME NEW S, NEW ss \in Seq(Seq(S)), NEW s \in Seq(S)
  PROVE  /\ FlattenSeq(ss) \in Seq(S)
         /\ FlattenSeq(Append(ss, s)) = FlattenSeq(ss) \o s
  <1> DEFINE tt == Append(ss, s)
  <1>1. /\ tt \in Seq(Seq(S)) /\ Len(tt) = Len(ss) + 1 /\ Len(ss) \in Nat
        /\ \A i \in 1..Len(ss) : tt[i] = ss[i]
        /\ tt[Len(ss) + 1] = s
    BY Appended
  <1> HIDE DEF tt
  <1>2. PICK f : Flattens(S, ss, f) /\ FlattenSeq(ss) = f[Len(ss)]
    BY FlatRuns
  <1>3. PICK g : Flattens(S, tt, g) /\ FlattenSeq(tt) = g[Len(tt)]
    BY <1>1, FlatRuns
  <1>4. f \in [0..Len(ss) -> Seq(S)] /\ f[0] = <<>> /\ \A i \in 1..Len(ss) : f[i] = f[i - 1] \o ss[i]
    BY <1>2 DEF Flattens
  <1>5. g[0] = <<>> /\ \A i \in 1..Len(ss) + 1 : g[i] = g[i - 1] \o tt[i]
    BY <1>1, <1>3 DEF Flattens
  <1> DEFINE off == {i \in 0..Len(ss) : g[i] # f[i]}
  <1>6. off = {}
    <2> SUFFICES ASSUME off # {}
                 PROVE  FALSE
      OBVIOUS
    <2>1. off \subseteq Nat
      OBVIOUS
    <2>2. PICK i \in off : \A j \in off : i <= j
      <3> HIDE DEF off
      <3> QED
        BY <2>1, Least
    <2>3. i \in 0..Len(ss) /\ g[i] # f[i]
      BY <2>2
    <2>4. i # 0
      BY <1>4, <1>5, <2>3
    <2>5. i - 1 \in 0..Len(ss) /\ ~(i <= i - 1) /\ i \in 1..Len(ss) /\ i \in 1..Len(ss) + 1
      BY <1>1, <2>3, <2>4
    <2>6. i - 1 \notin off
      <3> HIDE DEF off
      <3> QED
        BY <2>2, <2>5
    <2>7. g[i - 1] = f[i - 1]
      BY <2>5, <2>6
    <2>8. g[i] = g[i - 1] \o tt[i] /\ f[i] = f[i - 1] \o ss[i] /\ tt[i] = ss[i]
      BY <1>1, <1>4, <1>5, <2>5
    <2> QED
      BY <2>3, <2>7, <2>8, Zenon
  <1>7. Len(ss) \in 0..Len(ss) /\ Len(ss) + 1 \in 1..Len(ss) + 1 /\ Len(ss) + 1 - 1 = Len(ss)
    BY <1>1
  <1>8. g[Len(ss)] = f[Len(ss)] /\ g[Len(ss) + 1] = g[Len(ss)] \o tt[Len(ss) + 1]
    <2>1. g[Len(ss)] = f[Len(ss)]
      BY <1>6, <1>7
    <2>2. g[Len(ss) + 1] = g[Len(ss)] \o tt[Len(ss) + 1]
      <3> DEFINE n == Len(ss) + 1
      <3>1. n \in 1..Len(ss) + 1 /\ n - 1 = Len(ss)
        BY <1>1
      <3> HIDE DEF n
      <3>2. g[n] = g[n - 1] \o tt[n]
        BY <1>5, <3>1
      <3>3. g[n] = g[Len(ss)] \o tt[n]
        BY <3>1, <3>2
      <3> QED
        BY <3>3 DEF n
    <2> QED
      BY <2>1, <2>2
  <1>9. FlattenSeq(tt) = FlattenSeq(ss) \o s
    BY <1>1, <1>2, <1>3, <1>7, <1>8
  <1>10. FlattenSeq(ss) \in Seq(S)
    BY <1>2, <1>4, <1>7
  <1> QED
    BY <1>9, <1>10 DEF tt

LEMMA Joined ==
  ASSUME NEW S, NEW s \in Seq(S), NEW t \in Seq(S)
  PROVE  /\ s \o t \in Seq(S) /\ Len(s \o t) = Len(s) + Len(t)
         /\ \A i \in 1..Len(s) : (s \o t)[i] = s[i]
         /\ \A i \in 1..Len(t) : (s \o t)[Len(s) + i] = t[i]
  OBVIOUS

\* Nothing is lost in a flattening.
LEMMA FlatHas ==
  ASSUME NEW S, NEW ss \in Seq(Seq(S)), NEW i \in DOMAIN ss, NEW k \in DOMAIN ss[i]
  PROVE  \E j \in DOMAIN FlattenSeq(ss) : FlattenSeq(ss)[j] = ss[i][k]
  <1>1. PICK f : Flattens(S, ss, f) /\ FlattenSeq(ss) = f[Len(ss)]
    BY FlatRuns
  <1>2. f \in [0..Len(ss) -> Seq(S)] /\ f[0] = <<>> /\ \A p \in 1..Len(ss) : f[p] = f[p - 1] \o ss[p]
    BY <1>1 DEF Flattens
  <1>3. i \in 1..Len(ss) /\ ss[i] \in Seq(S) /\ k \in 1..Len(ss[i]) /\ Len(ss) \in Nat
    OBVIOUS
  <1> DEFINE x == ss[i][k]
             Holds(p) == \E j \in 1..Len(f[p]) : f[p][j] = x
             bad == {p \in i..Len(ss) : ~Holds(p)}
  <1>4. \A p \in 1..Len(ss) : /\ f[p - 1] \in Seq(S) /\ ss[p] \in Seq(S)
                              /\ Len(f[p - 1]) \in Nat /\ Len(ss[p]) \in Nat
    <2>1. \A p \in 1..Len(ss) : p - 1 \in 0..Len(ss)
      BY <1>3
    <2>2. \A p \in 1..Len(ss) : f[p - 1] \in Seq(S)
      BY <1>2, <2>1
    <2>3. \A p \in 1..Len(ss) : ss[p] \in Seq(S)
      OBVIOUS
    <2>4. \A u \in Seq(S) : Len(u) \in Nat
      OBVIOUS
    <2> QED
      BY <2>2, <2>3, <2>4, Zenon
  <1>5. \A p \in 1..Len(ss) :
          /\ Len(f[p]) = Len(f[p - 1]) + Len(ss[p])
          /\ \A j \in 1..Len(f[p - 1]) : f[p][j] = f[p - 1][j]
          /\ \A j \in 1..Len(ss[p]) : f[p][Len(f[p - 1]) + j] = ss[p][j]
    <2> TAKE p \in 1..Len(ss)
    <2>1. f[p] = f[p - 1] \o ss[p]
      BY <1>2
    <2>2. f[p - 1] \in Seq(S) /\ ss[p] \in Seq(S)
      BY <1>4
    <2> DEFINE u == f[p - 1]
    <2>3. u \in Seq(S) /\ f[p] = u \o ss[p]
      BY <2>1, <2>2
    <2> HIDE DEF u
    <2>4. /\ Len(u \o ss[p]) = Len(u) + Len(ss[p])
          /\ \A j \in 1..Len(u) : (u \o ss[p])[j] = u[j]
          /\ \A j \in 1..Len(ss[p]) : (u \o ss[p])[Len(u) + j] = ss[p][j]
      BY <2>2, <2>3, Joined
    <2>5. /\ Len(f[p]) = Len(u) + Len(ss[p])
          /\ \A j \in 1..Len(u) : f[p][j] = u[j]
          /\ \A j \in 1..Len(ss[p]) : f[p][Len(u) + j] = ss[p][j]
      BY <2>3, <2>4
    <2> QED
      BY <2>5 DEF u
  <1>6. Holds(i)
    <2> DEFINE n == Len(f[i - 1])
    <2>1. n \in Nat /\ Len(ss[i]) \in Nat /\ Len(f[i]) = n + Len(ss[i]) /\ f[i][n + k] = x
      BY <1>3, <1>4, <1>5
    <2> HIDE DEF n, x
    <2>2. n + k \in 1..Len(f[i])
      BY <1>3, <2>1
    <2> QED
      BY <2>1, <2>2
  <1>7. bad = {}
    <2> SUFFICES ASSUME bad # {}
                 PROVE  FALSE
      OBVIOUS
    <2>1. bad \subseteq Nat
      BY <1>3
    <2>2. PICK p \in bad : \A j \in bad : p <= j
      <3> HIDE DEF bad
      <3> QED
        BY <2>1, Least
    <2>3. p \in i..Len(ss) /\ ~Holds(p)
      BY <2>2
    <2> HIDE DEF Holds
    <2>4. p # i
      BY <1>6, <2>3
    <2>5. p - 1 \in i..Len(ss) /\ ~(p <= p - 1) /\ p \in 1..Len(ss)
      BY <1>3, <2>3, <2>4
    <2>6. p - 1 \notin bad
      <3> HIDE DEF bad
      <3> QED
        BY <2>2, <2>5
    <2>7. Holds(p - 1)
      BY <2>5, <2>6
    <2>8. PICK j \in 1..Len(f[p - 1]) : f[p - 1][j] = x
      BY <2>7 DEF Holds
    <2>9. Len(f[p - 1]) \in Nat /\ Len(ss[p]) \in Nat
      BY <1>4, <2>5
    <2>10. Len(f[p]) = Len(f[p - 1]) + Len(ss[p]) /\ f[p][j] = f[p - 1][j]
      BY <1>5, <2>5, <2>8
    <2>11. f[p][j] = x
      BY <2>8, <2>10
    <2>12. j \in 1..Len(f[p])
      <3> DEFINE n == Len(f[p - 1])
                 m == Len(ss[p])
      <3>1. n \in Nat /\ m \in Nat /\ j \in 1..n /\ Len(f[p]) = n + m
        BY <2>8, <2>9, <2>10
      <3> HIDE DEF n, m
      <3> QED
        BY <3>1
    <2> QED
      BY <2>3, <2>11, <2>12 DEF Holds
  <1>8. Len(ss) \in i..Len(ss) /\ Len(ss) \in 0..Len(ss)
    BY <1>3
  <1>9. f[Len(ss)] \in Seq(S) /\ Holds(Len(ss))
    BY <1>2, <1>7, <1>8
  <1> QED
    BY <1>1, <1>9

-----------------------------------------------------------------------------
(* Names rewritten in a text: a text stays one, and keeps its ink, for what *)
(* is written instead of a name is not blank.                               *)

LEMMA WrittenKeeps ==
  ASSUME NEW out \in Texts, NEW word \in Fragments, NEW name \in Texts, name # <<>>
  PROVE  /\ Written(out, word, name) \in Texts
         /\ (~IsBlank(out) \/ word \notin Blank) => ~IsBlank(Written(out, word, name))
  <1>1. out \in Seq(Fragments) /\ name \in Seq(Fragments) /\ "Codex" \in Fragments /\ "Codex" \notin Blank
    BY TextsAssumption DEF Texts, Blank
  <1>2. CASE IsSuffix(name, Append(out, word))
    <2> DEFINE m == Len(out) + 1 - Len(name)
               front == SubSeq(out, 1, m)
    <2>1. m \in Int /\ m <= Len(out)
      BY <1>1
    <2>2. front \in Seq(Fragments)
      BY <1>1, <2>1
    <2>3. Written(out, word, name) = Append(front, "Codex")
      BY <1>2 DEF Written
    <2> HIDE DEF front
    <2>4. /\ Append(front, "Codex") \in Seq(Fragments)
          /\ Len(front) + 1 \in DOMAIN Append(front, "Codex")
          /\ Append(front, "Codex")[Len(front) + 1] = "Codex"
      BY <1>1, <2>2
    <2>5. ~IsBlank(Append(front, "Codex"))
      BY <1>1, <2>4 DEF IsBlank
    <2> QED
      BY <2>3, <2>4, <2>5 DEF Texts
  <1>3. CASE ~IsSuffix(name, Append(out, word))
    <2>1. Written(out, word, name) = Append(out, word)
      BY <1>3 DEF Written
    <2>2. /\ Append(out, word) \in Seq(Fragments)
          /\ Len(out) + 1 \in DOMAIN Append(out, word) /\ Append(out, word)[Len(out) + 1] = word
          /\ \A i \in DOMAIN out : i \in DOMAIN Append(out, word) /\ Append(out, word)[i] = out[i]
      BY <1>1
    <2>3. (~IsBlank(out) \/ word \notin Blank) => ~IsBlank(Append(out, word))
      BY <2>2 DEF IsBlank
    <2> QED
      BY <2>1, <2>2, <2>3 DEF Texts
  <1> QED
    BY <1>2, <1>3

\* The texts of Replaced, one after each fragment.
Writes(t, name, f) ==
  /\ f \in [0..Len(t) -> Texts]
  /\ f[0] = <<>>
  /\ \A p \in 1..Len(t) : f[p] = Written(f[p - 1], t[p], name)

LEMMA ReplacedRuns ==
  ASSUME NEW t \in Texts, NEW name \in Texts, name # <<>>
  PROVE  \E f : Writes(t, name, f) /\ Replaced(t, name) = f[Len(t)]
  <1> DEFINE n == Len(t)
             step == [p \in 1..n |-> [o \in Texts |-> Written(o, t[p], name)]]
             Step(h) == [k \in 0..n |-> IF k = 0 THEN <<>> ELSE Written(h[k - 1], t[k], name)]
             it == CHOOSE h : h = Step(h)
  <1>1. n \in Nat /\ <<>> \in Texts /\ \A p \in 1..n : t[p] \in Fragments
    BY DEF Texts
  <1>2. Replaced(t, name) = it[n]
    BY DEF Replaced
  <1> HIDE DEF n
  <1>3. \A p \in 1..n : step[p] \in [Texts -> Texts]
    <2> SUFFICES ASSUME NEW p \in 1..n
                 PROVE  step[p] \in [Texts -> Texts]
      OBVIOUS
    <2>1. \A o \in Texts : Written(o, t[p], name) \in Texts
      BY <1>1, WrittenKeeps
    <2> QED
      BY <2>1
  <1>4. PICK f : Runs(Texts, <<>>, step, n, f)
    <2> HIDE DEF step
    <2> QED
      BY <1>1, <1>3, LoopRuns
  <1>5. f \in [0..n -> Texts] /\ f[0] = <<>> /\ \A p \in 1..n : f[p] = step[p][f[p - 1]]
    BY <1>4 DEF Runs
  <1>6. \A p \in 1..n : p - 1 \in 0..n /\ f[p - 1] \in Texts
    <2>1. \A p \in 1..n : p - 1 \in 0..n
      BY <1>1
    <2> QED
      BY <1>5, <2>1
  <1>7. \A p \in 1..n : f[p] = Written(f[p - 1], t[p], name)
    BY <1>5, <1>6
  <1>8. f = Step(f)
    <2>1. f = [k \in 0..n |-> f[k]]
      BY <1>5
    <2>2. \A k \in 0..n : f[k] = IF k = 0 THEN <<>> ELSE Written(f[k - 1], t[k], name)
      BY <1>1, <1>5, <1>7
    <2> QED
      BY <2>1, <2>2
  <1>9. it = Step(it)
    BY <1>8
  <1> HIDE DEF it
  <1>10. it[0] = <<>> /\ \A p \in 1..n : it[p] = Written(it[p - 1], t[p], name)
    BY <1>1, <1>9
  <1> DEFINE P == {p \in 0..n : it[p] = f[p]}
  <1>11. 0..n \subseteq P
    <2>1. 0 \in P
      BY <1>1, <1>5, <1>10
    <2>2. \A p \in 1..n : p - 1 \in P => p \in P
      BY <1>1, <1>7, <1>10
    <2> HIDE DEF P
    <2> QED
      BY <1>1, <2>1, <2>2, Rounds
  <1>12. it[n] = f[n]
    BY <1>1, <1>11
  <1>13. Writes(t, name, f)
    BY <1>5, <1>7 DEF Writes, n
  <1> QED
    BY <1>2, <1>12, <1>13 DEF n

LEMMA ReplacedKeeps ==
  ASSUME NEW text \in Texts, NEW name \in Texts, name # <<>>
  PROVE  /\ Replaced(text, name) \in Texts
         /\ ~IsBlank(text) => ~IsBlank(Replaced(text, name))
  <1> DEFINE n == Len(text)
  <1>1. n \in Nat /\ DOMAIN text = 1..n /\ \A p \in 1..n : text[p] \in Fragments
    BY DEF Texts
  <1>2. PICK f : Writes(text, name, f) /\ Replaced(text, name) = f[n]
    BY ReplacedRuns
  <1>3. f \in [0..n -> Texts] /\ \A p \in 1..n : f[p] = Written(f[p - 1], text[p], name)
    BY <1>2 DEF Writes
  <1> DEFINE P == {p \in 0..n : (\E i \in 1..p : text[i] \notin Blank) => ~IsBlank(f[p])}
  <1>4. 0 \in P
    BY <1>1
  <1>5. ASSUME NEW p \in 1..n, p - 1 \in P
        PROVE  p \in P
    <2>1. p - 1 \in 0..n /\ f[p - 1] \in Texts /\ text[p] \in Fragments
      BY <1>1, <1>3, <1>5
    <2>2. (~IsBlank(f[p - 1]) \/ text[p] \notin Blank) => ~IsBlank(f[p])
      BY <1>3, <2>1, WrittenKeeps
    <2>3. \A i \in 1..p : i = p \/ i \in 1..p - 1
      BY <1>1
    <2> QED
      BY <1>1, <1>5, <2>2, <2>3
  <1>6. 0..n \subseteq P
    <2> HIDE DEF P, n
    <2> QED
      BY <1>1, <1>4, <1>5, Rounds
  <1>7. n \in P /\ f[n] \in Texts
    BY <1>1, <1>3, <1>6
  <1> QED
    BY <1>1, <1>2, <1>7 DEF IsBlank

\* The texts of ReplaceNames, one after each name.
Named(t, f) ==
  /\ f \in [0..Len(NamesToReplace) -> Texts]
  /\ f[0] = t
  /\ \A p \in 1..Len(NamesToReplace) : f[p] = Replaced(f[p - 1], NamesToReplace[p])

LEMMA NamedRuns ==
  ASSUME NEW t \in Texts
  PROVE  \E f : Named(t, f) /\ ReplaceNames(t) = f[Len(NamesToReplace)]
  <1> DEFINE n == Len(NamesToReplace)
             step == [p \in 1..n |-> [o \in Texts |-> Replaced(o, NamesToReplace[p])]]
             Step(h) == [k \in 0..n |-> IF k = 0 THEN t ELSE Replaced(h[k - 1], NamesToReplace[k])]
             it == CHOOSE h : h = Step(h)
  <1>1. n \in Nat /\ \A p \in 1..n : NamesToReplace[p] \in Texts /\ NamesToReplace[p] # <<>>
    BY TextsAssumption
  <1>2. ReplaceNames(t) = it[n]
    BY DEF ReplaceNames
  <1> HIDE DEF n
  <1>3. \A p \in 1..n : step[p] \in [Texts -> Texts]
    <2> SUFFICES ASSUME NEW p \in 1..n
                 PROVE  step[p] \in [Texts -> Texts]
      OBVIOUS
    <2>1. \A o \in Texts : Replaced(o, NamesToReplace[p]) \in Texts
      BY <1>1, ReplacedKeeps
    <2> QED
      BY <2>1
  <1>4. PICK f : Runs(Texts, t, step, n, f)
    <2> HIDE DEF step
    <2> QED
      BY <1>1, <1>3, LoopRuns
  <1>5. f \in [0..n -> Texts] /\ f[0] = t /\ \A p \in 1..n : f[p] = step[p][f[p - 1]]
    BY <1>4 DEF Runs
  <1>6. \A p \in 1..n : p - 1 \in 0..n /\ f[p - 1] \in Texts
    <2>1. \A p \in 1..n : p - 1 \in 0..n
      BY <1>1
    <2> QED
      BY <1>5, <2>1
  <1>7. \A p \in 1..n : f[p] = Replaced(f[p - 1], NamesToReplace[p])
    BY <1>5, <1>6
  <1>8. f = Step(f)
    <2>1. f = [k \in 0..n |-> f[k]]
      BY <1>5
    <2>2. \A k \in 0..n : f[k] = IF k = 0 THEN t ELSE Replaced(f[k - 1], NamesToReplace[k])
      BY <1>1, <1>5, <1>7
    <2> QED
      BY <2>1, <2>2
  <1>9. it = Step(it)
    BY <1>8
  <1> HIDE DEF it
  <1>10. it[0] = t /\ \A p \in 1..n : it[p] = Replaced(it[p - 1], NamesToReplace[p])
    BY <1>1, <1>9
  <1> DEFINE P == {p \in 0..n : it[p] = f[p]}
  <1>11. 0..n \subseteq P
    <2>1. 0 \in P
      BY <1>1, <1>5, <1>10
    <2>2. \A p \in 1..n : p - 1 \in P => p \in P
      BY <1>1, <1>7, <1>10
    <2> HIDE DEF P
    <2> QED
      BY <1>1, <2>1, <2>2, Rounds
  <1>12. it[n] = f[n]
    BY <1>1, <1>11
  <1>13. Named(t, f)
    BY <1>5, <1>7 DEF Named, n
  <1> QED
    BY <1>2, <1>12, <1>13 DEF n

LEMMA NamesKeepInk ==
  ASSUME NEW text \in Texts
  PROVE  /\ ReplaceNames(text) \in Texts
         /\ ~IsBlank(text) => ~IsBlank(ReplaceNames(text))
  <1> DEFINE n == Len(NamesToReplace)
  <1>1. n \in Nat /\ \A p \in 1..n : NamesToReplace[p] \in Texts /\ NamesToReplace[p] # <<>>
    BY TextsAssumption
  <1>2. PICK f : Named(text, f) /\ ReplaceNames(text) = f[n]
    BY NamedRuns
  <1>3. /\ f \in [0..n -> Texts] /\ f[0] = text
        /\ \A p \in 1..n : f[p] = Replaced(f[p - 1], NamesToReplace[p])
    BY <1>2 DEF Named
  <1> DEFINE P == {p \in 0..n : ~IsBlank(text) => ~IsBlank(f[p])}
  <1>4. 0 \in P
    BY <1>1, <1>3
  <1>5. ASSUME NEW p \in 1..n, p - 1 \in P
        PROVE  p \in P
    <2>1. p - 1 \in 0..n /\ f[p - 1] \in Texts
      BY <1>1, <1>3, <1>5
    <2>2. ~IsBlank(f[p - 1]) => ~IsBlank(f[p])
      BY <1>1, <1>3, <2>1, ReplacedKeeps
    <2> QED
      BY <1>1, <1>5, <2>2
  <1>6. 0..n \subseteq P
    <2> HIDE DEF P, n
    <2> QED
      BY <1>1, <1>4, <1>5, Rounds
  <1>7. n \in P /\ f[n] \in Texts
    BY <1>1, <1>3, <1>6
  <1> QED
    BY <1>2, <1>7

-----------------------------------------------------------------------------
(* The texts of a content                                                  *)

LEMMA MinIsLeast ==
  ASSUME NEW T, T \subseteq Nat, T # {}
  PROVE  Min(T) \in T /\ \A k \in T : Min(T) <= k
  <1>1. \E n \in T : \A k \in T : n <= k
    BY Least
  <1> QED
    BY <1>1 DEF Min

LEMMA MaxIsGreatest ==
  ASSUME NEW n \in Nat, NEW T, T \subseteq 1..n, T # {}
  PROVE  Max(T) \in T /\ \A k \in T : k <= Max(T)
  <1> DEFINE U == {n - k : k \in T}
  <1>1. U \subseteq Nat /\ U # {}
    <2>1. \A k \in T : k \in 1..n
      OBVIOUS
    <2>2. \A k \in T : n - k \in Nat
      BY <2>1
    <2> QED
      BY <2>2
  <1>2. PICK u \in U : \A v \in U : u <= v
    <2> HIDE DEF U
    <2> QED
      BY <1>1, Least
  <1>3. PICK m \in T : u = n - m
    BY <1>2
  <1>4. \A k \in T : n - m <= n - k
    BY <1>2, <1>3
  <1>5. \A k \in T : k \in Int /\ m \in Int
    BY <1>3
  <1>6. \A k \in T : k <= m
    BY <1>4, <1>5
  <1> QED
    BY <1>3, <1>6 DEF Max

LEMMA EmptyIsText == <<>> \in Texts /\ IsBlank(<<>>)
  BY DEF Texts, IsBlank

LEMMA TrimKeepsInk ==
  ASSUME NEW text \in Texts
  PROVE  /\ Trim(text) \in Texts
         /\ IsBlank(text) => Trim(text) = <<>>
         /\ ~IsBlank(text) => Trim(text) # <<>> /\ ~IsBlank(Trim(text))
  <1> DEFINE ink == {i \in DOMAIN text : text[i] \notin Blank}
  <1>1. Trim(text) = IF ink = {} THEN <<>> ELSE SubSeq(text, Min(ink), Max(ink))
    BY DEF Trim
  <1>2. text \in Seq(Fragments) /\ Len(text) \in Nat /\ DOMAIN text = 1..Len(text)
    BY DEF Texts
  <1>3. IsBlank(text) <=> ink = {}
    BY DEF IsBlank
  <1>4. CASE ink = {}
    BY <1>1, <1>3, <1>4 DEF Texts
  <1>5. CASE ink # {}
    <2>1. ink \subseteq 1..Len(text) /\ ink \subseteq Nat
      BY <1>2
    <2>2. \A i \in ink : text[i] \notin Blank
      OBVIOUS
    <2> HIDE DEF ink
    <2>3. Min(ink) \in ink /\ \A k \in ink : Min(ink) <= k
      BY <1>5, <2>1, MinIsLeast
    <2>4. Max(ink) \in ink /\ \A k \in ink : k <= Max(ink)
      BY <1>2, <1>5, <2>1, MaxIsGreatest
    <2> DEFINE a == Min(ink)
               b == Max(ink)
    <2>5. a \in 1..Len(text) /\ b \in 1..Len(text) /\ a <= b /\ text[a] \notin Blank
      BY <2>1, <2>2, <2>3, <2>4
    <2>6. Trim(text) = SubSeq(text, a, b)
      BY <1>1, <1>5
    <2> HIDE DEF a, b
    <2>7. /\ SubSeq(text, a, b) \in Seq(Fragments)
          /\ 1 \in DOMAIN SubSeq(text, a, b)
          /\ SubSeq(text, a, b)[1] = text[a]
      BY <1>2, <2>5
    <2>8. ~IsBlank(SubSeq(text, a, b))
      BY <2>5, <2>7, Zenon DEF IsBlank
    <2>9. SubSeq(text, a, b) # <<>>
      BY <2>8, EmptyIsText
    <2> QED
      BY <1>3, <1>5, <2>6, <2>7, <2>8, <2>9 DEF Texts
  <1> QED
    BY <1>4, <1>5

LEMMA NonEmptyHas ==
  ASSUME NEW texts \in Seq(Texts)
  PROVE  /\ NonEmpty(texts) \in Seq(Texts)
         /\ \A j \in DOMAIN texts : texts[j] # <<>> =>
              \E k \in DOMAIN NonEmpty(texts) : NonEmpty(texts)[k] = texts[j]
  <1> DEFINE ss == [i \in DOMAIN texts |-> IF texts[i] # <<>> THEN <<texts[i]>> ELSE <<>>]
  <1>1. NonEmpty(texts) = FlattenSeq(ss)
    BY DEF NonEmpty, Kept
  <1>2. \A i \in DOMAIN texts : texts[i] \in Texts
    OBVIOUS
  <1>3. \A i \in DOMAIN texts : ss[i] \in Seq(Texts)
    BY <1>2
  <1>4. ss \in Seq(Seq(Texts)) /\ DOMAIN ss = DOMAIN texts
    <2>1. DOMAIN texts = 1..Len(texts) /\ Len(texts) \in Nat
      OBVIOUS
    <2>2. ss \in [1..Len(texts) -> Seq(Texts)]
      BY <1>3, <2>1
    <2> QED
      BY <2>1, <2>2
  <1>5. \A i \in DOMAIN texts : texts[i] # <<>> => 1 \in DOMAIN ss[i] /\ ss[i][1] = texts[i]
    OBVIOUS
  <1> HIDE DEF ss
  <1>6. <<>> \in Seq(Texts)
    OBVIOUS
  <1>7. FlattenSeq(ss) \in Seq(Texts)
    BY <1>4, <1>6, FlatAppends
  <1>8. ASSUME NEW j \in DOMAIN texts, texts[j] # <<>>
        PROVE  \E k \in DOMAIN FlattenSeq(ss) : FlattenSeq(ss)[k] = texts[j]
    <2>1. j \in DOMAIN ss /\ 1 \in DOMAIN ss[j] /\ ss[j][1] = texts[j]
      BY <1>4, <1>5, <1>8
    <2>2. \E k \in DOMAIN FlattenSeq(ss) : FlattenSeq(ss)[k] = ss[j][1]
      BY <1>4, <2>1, FlatHas
    <2> QED
      BY <2>1, <2>2
  <1> QED
    BY <1>1, <1>7, <1>8

LEMMA JoinIsText ==
  ASSUME NEW texts \in Seq(Texts), NEW separator \in Texts
  PROVE  Join(texts, separator) \in Texts
  <1> DEFINE ss == [i \in DOMAIN texts |-> IF i = 1 THEN texts[i] ELSE separator \o texts[i]]
  <1>1. \A i \in DOMAIN texts : texts[i] \in Seq(Fragments) /\ separator \in Seq(Fragments)
    BY DEF Texts
  <1>2. \A i \in DOMAIN texts : ss[i] \in Seq(Fragments)
    BY <1>1
  <1>3. ss \in Seq(Seq(Fragments)) /\ <<>> \in Seq(Fragments)
    <2>1. DOMAIN texts = 1..Len(texts) /\ Len(texts) \in Nat
      OBVIOUS
    <2>2. ss \in [1..Len(texts) -> Seq(Fragments)]
      BY <1>2, <2>1
    <2> QED
      BY <2>1, <2>2
  <1>4. Join(texts, separator) = FlattenSeq(ss)
    BY DEF Join
  <1> HIDE DEF ss
  <1>5. FlattenSeq(ss) \in Seq(Fragments)
    BY <1>3, FlatAppends
  <1> QED
    BY <1>4, <1>5 DEF Texts

LEMMA EachIsSeq ==
  ASSUME NEW texts \in Seq(Texts)
  PROVE  /\ Each(ReplaceNames, texts) \in Seq(Texts)
         /\ DOMAIN Each(ReplaceNames, texts) = DOMAIN texts
         /\ \A i \in DOMAIN texts : Each(ReplaceNames, texts)[i] = ReplaceNames(texts[i])
  <1>1. \A i \in DOMAIN texts : ReplaceNames(texts[i]) \in Texts
    BY NamesKeepInk
  <1> QED
    BY <1>1 DEF Each

-----------------------------------------------------------------------------
(* Decimals, by course of values: f holds those of 0..k.                   *)

Digits == {"0", "1", "2", "3", "4", "5", "6", "7", "8", "9"}

Counts(k, f) ==
  /\ f \in [0..k -> Seq(Digits)]
  /\ \A n \in 0..k : /\ n < 10 => f[n] = <<Digit[n + 1]>>
                     /\ n >= 10 => f[n] = Append(f[n \div 10], Digit[(n % 10) + 1])

LEMMA DigitsApart ==
  /\ \A i \in 1..10 : Digit[i] \in Digits
  /\ \A i, j \in 1..10 : Digit[i] = Digit[j] => i = j
  BY DEF Digit, Digits

LEMMA Tenth ==
  ASSUME NEW n \in Nat
  PROVE  /\ n \div 10 \in Nat /\ n % 10 \in 0..9 /\ (n % 10) + 1 \in 1..10
         /\ n = 10 * (n \div 10) + (n % 10)
         /\ n >= 10 => n \div 10 < n
  OBVIOUS

LEMMA CountsHas ==
  ASSUME NEW k \in Nat
  PROVE  \E f : Counts(k, f)
  <1> DEFINE bad == {n \in Nat : ~\E f : Counts(n, f)}
  <1> SUFFICES ASSUME bad # {}
               PROVE  FALSE
    OBVIOUS
  <1>1. PICK n \in bad : \A j \in bad : n <= j
    <2>1. bad \subseteq Nat
      OBVIOUS
    <2> HIDE DEF bad
    <2> QED
      BY <2>1, Least
  <1>2. n \in Nat /\ ~\E f : Counts(n, f)
    BY <1>1
  <1>3. CASE n = 0
    <2>1. Counts(0, [i \in 0..0 |-> <<Digit[1]>>])
      BY DigitsApart DEF Counts
    <2> QED
      BY <1>2, <1>3, <2>1
  <1>4. CASE n # 0
    <2>1. n - 1 \in Nat /\ ~(n <= n - 1)
      BY <1>2, <1>4
    <2>2. n - 1 \notin bad
      <3> HIDE DEF bad
      <3> QED
        BY <1>1, <2>1
    <2>3. PICK f : Counts(n - 1, f)
      BY <2>1, <2>2
    <2>4. /\ f \in [0..n - 1 -> Seq(Digits)]
          /\ \A i \in 0..n - 1 : /\ i < 10 => f[i] = <<Digit[i + 1]>>
                                 /\ i >= 10 => f[i] = Append(f[i \div 10], Digit[(i % 10) + 1])
      BY <2>3 DEF Counts
    <2> DEFINE new == IF n < 10 THEN <<Digit[n + 1]>> ELSE Append(f[n \div 10], Digit[(n % 10) + 1])
               g == [i \in 0..n |-> IF i = n THEN new ELSE f[i]]
    <2>5. \A i \in 0..n : i \div 10 \in Nat /\ (i >= 10 => i \div 10 \in 0..n - 1)
      <3> TAKE i \in 0..n
      <3>1. i \in Nat /\ i <= n
        BY <1>2
      <3>2. i \div 10 \in Nat /\ (i >= 10 => i \div 10 < i)
        BY <3>1, Tenth
      <3> QED
        BY <1>2, <3>1, <3>2
    <2>6. new \in Seq(Digits)
      <3>1. CASE n < 10
        <4>1. n + 1 \in 1..10
          BY <1>2, <3>1
        <4> QED
          BY <3>1, <4>1, DigitsApart
      <3>2. CASE n >= 10
        <4>1. n \in 0..n /\ ~(n < 10)
          BY <1>2, <3>2
        <4>2. f[n \div 10] \in Seq(Digits)
          BY <2>4, <2>5, <3>2, <4>1
        <4>3. Digit[(n % 10) + 1] \in Digits
          BY <1>2, Tenth, DigitsApart
        <4> QED
          BY <4>1, <4>2, <4>3
      <3> QED
        BY <1>2, <3>1, <3>2
    <2>7. new = IF n < 10 THEN <<Digit[n + 1]>> ELSE Append(f[n \div 10], Digit[(n % 10) + 1])
      OBVIOUS
    <2> HIDE DEF new
    <2>8. \A i \in 0..n : i # n => i \in 0..n - 1
      BY <1>2
    <2>9. g \in [0..n -> Seq(Digits)]
      BY <2>4, <2>6, <2>8
    <2>10. g[n] = new /\ \A i \in 0..n - 1 : g[i] = f[i]
      BY <1>2
    <2> HIDE DEF g
    <2>11. ASSUME NEW i \in 0..n
           PROVE  /\ i < 10 => g[i] = <<Digit[i + 1]>>
                  /\ i >= 10 => g[i] = Append(g[i \div 10], Digit[(i % 10) + 1])
      <3>1. i >= 10 => g[i \div 10] = f[i \div 10]
        BY <2>5, <2>10
      <3>2. CASE i = n
        <4>1. i >= 10 => ~(n < 10)
          BY <1>2, <3>2
        <4> QED
          BY <2>7, <2>10, <3>1, <3>2, <4>1
      <3>3. CASE i # n
        BY <2>4, <2>8, <2>10, <3>1, <3>3
      <3> QED
        BY <3>2, <3>3
    <2>12. Counts(n, g)
      BY <2>9, <2>11 DEF Counts
    <2> QED
      BY <1>2, <2>12
  <1> QED
    BY <1>3, <1>4

LEMMA AppendsApart ==
  ASSUME NEW S, NEW s \in Seq(S), NEW t \in Seq(S), NEW x \in S, NEW y \in S,
         Append(s, x) = Append(t, y)
  PROVE  s = t /\ x = y
  <1>1. Len(s) = Len(t)
    BY Appended
  <1>2. \A i \in 1..Len(s) : s[i] = t[i]
    BY <1>1, Appended
  <1>3. s = t
    BY <1>1, <1>2
  <1>4. Append(s, x)[Len(s) + 1] = x /\ Append(t, y)[Len(t) + 1] = y
    OBVIOUS
  <1> QED
    BY <1>1, <1>3, <1>4

LEMMA CountsApart ==
  ASSUME NEW k \in Nat, NEW f, Counts(k, f)
  PROVE  \A x, y \in 0..k : f[x] = f[y] => x = y
  <1> DEFINE bad == {x \in 0..k : \E y \in 0..k : f[x] = f[y] /\ x # y}
  <1> SUFFICES ASSUME bad # {}
               PROVE  FALSE
    OBVIOUS
  <1>1. PICK x \in bad : \A j \in bad : x <= j
    <2>1. bad \subseteq Nat
      OBVIOUS
    <2> HIDE DEF bad
    <2> QED
      BY <2>1, Least
  <1>2. PICK y \in 0..k : f[x] = f[y] /\ x # y
    BY <1>1
  <1>3. x \in 0..k /\ y \in 0..k /\ f[x] = f[y] /\ x # y /\ y \in bad
    BY <1>1, <1>2
  <1>4. x < y /\ x \in Nat /\ y \in Nat
    <2> HIDE DEF bad
    <2> QED
      BY <1>1, <1>3
  <1>5. /\ f \in [0..k -> Seq(Digits)]
        /\ \A n \in 0..k : /\ n < 10 => f[n] = <<Digit[n + 1]>>
                           /\ n >= 10 => f[n] = Append(f[n \div 10], Digit[(n % 10) + 1])
    BY DEF Counts
  <1>6. \A n \in 0..k : n >= 10 => /\ n \div 10 \in 0..k /\ n \div 10 < n /\ f[n \div 10] \in Seq(Digits)
                                   /\ (n % 10) + 1 \in 1..10 /\ Digit[(n % 10) + 1] \in Digits
    <2> SUFFICES ASSUME NEW n \in 0..k, n >= 10
                 PROVE  /\ n \div 10 \in 0..k /\ n \div 10 < n /\ f[n \div 10] \in Seq(Digits)
                        /\ (n % 10) + 1 \in 1..10 /\ Digit[(n % 10) + 1] \in Digits
      OBVIOUS
    <2>1. n \in Nat /\ n <= k
      OBVIOUS
    <2>2. n \div 10 \in Nat /\ n \div 10 < n /\ (n % 10) + 1 \in 1..10
      BY <2>1, Tenth
    <2>3. n \div 10 \in 0..k
      BY <2>1, <2>2
    <2> QED
      BY <1>5, <2>2, <2>3, DigitsApart
  <1>7. CASE y < 10
    <2>1. x < 10 /\ x + 1 \in 1..10 /\ y + 1 \in 1..10
      BY <1>4, <1>7
    <2>2. <<Digit[x + 1]>> = <<Digit[y + 1]>>
      BY <1>3, <1>5, <1>7, <2>1
    <2>3. Digit[x + 1] = Digit[y + 1]
      BY <2>2
    <2>4. x + 1 = y + 1
      BY <2>1, <2>3, DigitsApart
    <2> QED
      BY <1>4, <2>4
  <1>8. CASE x < 10 /\ y >= 10
    <2>1. x + 1 \in 1..10 /\ f[x] = <<Digit[x + 1]>>
      BY <1>3, <1>4, <1>5, <1>8
    <2>2. f[y] = Append(f[y \div 10], Digit[(y % 10) + 1])
      BY <1>3, <1>5, <1>8
    <2>3. f[y \div 10] \in Seq(Digits) /\ y \div 10 \in 0..k /\ Digit[(y % 10) + 1] \in Digits
      BY <1>3, <1>6, <1>8
    <2>4. f[y \div 10] # <<>>
      <3> DEFINE m == y \div 10
      <3>1. m \in 0..k
        BY <2>3
      <3> HIDE DEF m
      <3>2. CASE m < 10
        <4>1. f[m] = <<Digit[m + 1]>>
          BY <1>5, <3>1, <3>2
        <4> QED
          BY <4>1 DEF m
      <3>3. CASE m >= 10
        <4>1. f[m] = Append(f[m \div 10], Digit[(m % 10) + 1]) /\ f[m \div 10] \in Seq(Digits)
          BY <1>5, <1>6, <3>1, <3>3
        <4>2. f[m] # <<>>
          BY <4>1
        <4> QED
          BY <4>2 DEF m
      <3> QED
        BY <3>1, <3>2, <3>3
    <2>5. Len(f[y]) # 1
      BY <2>2, <2>3, <2>4
    <2> QED
      BY <1>3, <2>1, <2>5
  <1>9. CASE x >= 10 /\ y >= 10
    <2>1. f[x] = Append(f[x \div 10], Digit[(x % 10) + 1]) /\ f[y] = Append(f[y \div 10], Digit[(y % 10) + 1])
      BY <1>3, <1>5, <1>9
    <2>2. /\ f[x \div 10] \in Seq(Digits) /\ Digit[(x % 10) + 1] \in Digits
          /\ f[y \div 10] \in Seq(Digits) /\ Digit[(y % 10) + 1] \in Digits
          /\ x \div 10 \in 0..k /\ y \div 10 \in 0..k /\ x \div 10 < x
          /\ (x % 10) + 1 \in 1..10 /\ (y % 10) + 1 \in 1..10
      BY <1>3, <1>6, <1>9
    <2>3. f[x \div 10] = f[y \div 10] /\ Digit[(x % 10) + 1] = Digit[(y % 10) + 1]
      <3> DEFINE u == f[x \div 10]
                 v == f[y \div 10]
                 d == Digit[(x % 10) + 1]
                 e == Digit[(y % 10) + 1]
      <3>1. u \in Seq(Digits) /\ v \in Seq(Digits) /\ d \in Digits /\ e \in Digits
        BY <2>2
      <3>2. Append(u, d) = Append(v, e)
        BY <1>3, <2>1
      <3> HIDE DEF u, v, d, e
      <3>3. u = v /\ d = e
        BY <3>1, <3>2, AppendsApart
      <3> QED
        BY <3>3 DEF u, v, d, e
    <2>4. (x % 10) + 1 = (y % 10) + 1
      BY <2>2, <2>3, DigitsApart
    <2>5. x \div 10 \notin bad
      <3>1. ~(x <= x \div 10)
        BY <1>4, <2>2
      <3> HIDE DEF bad
      <3> QED
        BY <1>1, <3>1
    <2>6. x \div 10 = y \div 10
      BY <2>2, <2>3, <2>5
    <2>7. x = 10 * (x \div 10) + (x % 10) /\ y = 10 * (y \div 10) + (y % 10) /\ x % 10 \in Int /\ y % 10 \in Int
      BY <1>4, Tenth
    <2>8. x % 10 = y % 10
      <3> DEFINE u == x % 10
                 v == y % 10
      <3>1. u \in Int /\ v \in Int /\ u + 1 = v + 1
        BY <2>4, <2>7
      <3> HIDE DEF u, v
      <3>2. u = v
        BY <3>1
      <3> QED
        BY <3>2 DEF u, v
    <2> QED
      BY <1>3, <2>6, <2>7, <2>8
  <1> QED
    BY <1>4, <1>7, <1>8, <1>9

LEMMA DecimalIs ==
  ASSUME NEW k \in Nat, NEW f, Counts(k, f), NEW number \in 0..k
  PROVE  Decimal(number) = f[number]
  <1> DEFINE Step(h) == [n \in 0..number |->
                           IF n < 10 THEN <<Digit[n + 1]>> ELSE Append(h[n \div 10], Digit[(n % 10) + 1])]
             it == CHOOSE h : h = Step(h)
             g == [n \in 0..number |-> f[n]]
             off == {n \in 0..number : it[n] # f[n]}
  <1>1. \A n \in 0..number : /\ n < 10 => f[n] = <<Digit[n + 1]>>
                             /\ ~(n < 10) => f[n] = Append(f[n \div 10], Digit[(n % 10) + 1])
    <2> TAKE n \in 0..number
    <2>1. n \in 0..k /\ (~(n < 10) => n >= 10)
      OBVIOUS
    <2> QED
      BY <2>1 DEF Counts
  <1>2. \A n \in 0..number : ~(n < 10) => n \div 10 \in 0..number /\ n \div 10 < n
    <2> SUFFICES ASSUME NEW n \in 0..number, ~(n < 10)
                 PROVE  n \div 10 \in 0..number /\ n \div 10 < n
      OBVIOUS
    <2>1. n \in Nat /\ n <= number /\ n >= 10
      OBVIOUS
    <2>2. n \div 10 \in Nat /\ n \div 10 < n
      BY <2>1, Tenth
    <2> QED
      BY <2>1, <2>2
  <1>3. g = Step(g)
    <2>1. \A n \in 0..number :
            g[n] = IF n < 10 THEN <<Digit[n + 1]>> ELSE Append(g[n \div 10], Digit[(n % 10) + 1])
      <3> TAKE n \in 0..number
      <3>1. g[n] = f[n] /\ (~(n < 10) => g[n \div 10] = f[n \div 10])
        BY <1>2
      <3> HIDE DEF g
      <3> QED
        BY <1>1, <3>1
    <2> QED
      BY <2>1
  <1>4. it = Step(it)
    <2> HIDE DEF g
    <2> QED
      BY <1>3
  <1>5. Decimal(number) = it[number]
    BY DEF Decimal
  <1> HIDE DEF it, g
  <1>6. off = {}
    <2> SUFFICES ASSUME off # {}
                 PROVE  FALSE
      OBVIOUS
    <2>1. PICK n \in off : \A j \in off : n <= j
      <3>1. off \subseteq Nat
        OBVIOUS
      <3> HIDE DEF off
      <3> QED
        BY <3>1, Least
    <2>2. n \in 0..number /\ it[n] # f[n]
      BY <2>1
    <2>3. it[n] = IF n < 10 THEN <<Digit[n + 1]>> ELSE Append(it[n \div 10], Digit[(n % 10) + 1])
      BY <1>4, <2>2
    <2>4. CASE n < 10
      BY <1>1, <2>2, <2>3, <2>4
    <2>5. CASE ~(n < 10)
      <3>1. n \div 10 \in 0..number /\ n \div 10 < n /\ n \in Nat
        BY <1>2, <2>2, <2>5
      <3>2. n \div 10 \notin off
        <4>1. ~(n <= n \div 10)
          BY <3>1
        <4> HIDE DEF off
        <4> QED
          BY <2>1, <4>1
      <3>3. it[n \div 10] = f[n \div 10]
        BY <3>1, <3>2
      <3>4. f[n] = Append(f[n \div 10], Digit[(n % 10) + 1])
        BY <1>1, <2>2, <2>5
      <3> QED
        BY <2>2, <2>3, <2>5, <3>3, <3>4
    <2> QED
      BY <2>4, <2>5
  <1>7. number \in 0..number
    OBVIOUS
  <1> QED
    BY <1>5, <1>6, <1>7

LEMMA DecimalsApart ==
  ASSUME NEW a \in Nat, NEW b \in Nat
  PROVE  Decimal(a) \in Seq(Digits) /\ (Decimal(a) = Decimal(b) => a = b)
  <1> DEFINE k == a + b
  <1>1. k \in Nat /\ a \in 0..k /\ b \in 0..k
    OBVIOUS
  <1> HIDE DEF k
  <1>2. PICK f : Counts(k, f)
    BY <1>1, CountsHas
  <1>3. Decimal(a) = f[a] /\ Decimal(b) = f[b]
    BY <1>1, <1>2, DecimalIs
  <1>4. f[a] \in Seq(Digits)
    BY <1>1, <1>2 DEF Counts
  <1>5. f[a] = f[b] => a = b
    BY <1>1, <1>2, CountsApart
  <1> QED
    BY <1>3, <1>4, <1>5

-----------------------------------------------------------------------------
(* The hashed text                                                         *)

Nested(x, y, z) == (x \o y) \o z = x \o (y \o z)

LEMMA Associates ==
  ASSUME NEW S, NEW x \in Seq(S), NEW y \in Seq(S), NEW z \in Seq(S)
  PROVE  Nested(x, y, z)
  BY DEF Nested

LEMMA JoinedFirst ==
  ASSUME NEW S, NEW s \in Seq(S), NEW t \in Seq(S), Len(t) # 0
  PROVE  (s \o t)[Len(s) + 1] = t[1]
  OBVIOUS

LEMMA SameText ==
  ASSUME NEW S, NEW s \in Seq(S), NEW t \in Seq(S), Len(s) = Len(t), \A i \in 1..Len(s) : s[i] = t[i]
  PROVE  s = t
  OBVIOUS

SameJoin(x, s, y, t) == x \o s = y \o t

Joins(s, t, z) ==
  /\ Len(z) = Len(s) + Len(t)
  /\ \A i \in 1..Len(s) : z[i] = s[i]
  /\ \A i \in 1..Len(t) : z[Len(s) + i] = t[i]

LEMMA JoinedIs ==
  ASSUME NEW S, NEW s \in Seq(S), NEW t \in Seq(S)
  PROVE  Joins(s, t, s \o t)
  BY Joined DEF Joins

LEMMA Cancel ==
  ASSUME NEW S, NEW x \in Seq(S), NEW y \in Seq(S), NEW v \in Seq(S), NEW w \in Seq(S),
         Len(x) = Len(y), SameJoin(x, v, y, w)
  PROVE  x = y /\ v = w
  <1> DEFINE z == x \o v
  <1>1. Joins(x, v, z)
    BY JoinedIs, Zenon
  <1>2. Joins(y, w, y \o w)
    BY JoinedIs, Zenon
  <1>3. z = y \o w
    BY DEF SameJoin
  <1> HIDE DEF z
  <1>4. Joins(y, w, z)
    BY <1>2, <1>3
  <1>5. x = y
    <2>1. \A i \in 1..Len(x) : x[i] = y[i]
      BY <1>1, <1>4 DEF Joins
    <2> QED
      BY <2>1, SameText, Zenon
  <1>6. Len(v) = Len(w)
    <2>1. Len(x) \in Nat /\ Len(v) \in Nat /\ Len(w) \in Nat
      OBVIOUS
    <2> QED
      BY <1>1, <1>4, <2>1 DEF Joins
  <1>7. v = w
    <2>1. \A i \in 1..Len(v) : v[i] = w[i]
      BY <1>1, <1>4, <1>6 DEF Joins
    <2> QED
      BY <1>6, <2>1, SameText, Zenon
  <1> QED
    BY <1>5, <1>7

\* A number ends where the colon is.
LEMMA Behind ==
  ASSUME NEW S, Digits \subseteq S, ":" \in S, NEW u \in Seq(Digits), NEW v \in Seq(Digits),
         NEW x \in Seq(S), NEW y \in Seq(S), SameJoin(u, <<":">> \o x, v, <<":">> \o y)
  PROVE  u = v /\ x = y
  <1> DEFINE p == <<":">> \o x
             q == <<":">> \o y
  <1>1. p \in Seq(S) /\ p[1] = ":" /\ Len(p) = 1 + Len(x) /\ q \in Seq(S) /\ q[1] = ":" /\ Len(q) = 1 + Len(y)
    OBVIOUS
  <1>2. ":" \notin Digits
    BY DEF Digits
  <1>3. \A w \in Seq(Digits) : w \in Seq(S)
    OBVIOUS
  <1>4. u \in Seq(S) /\ v \in Seq(S) /\ SameJoin(u, p, v, q) /\ u \o p = v \o q
    BY <1>3 DEF SameJoin
  <1>5. Len(u) \in Nat /\ Len(v) \in Nat /\ Len(p) \in Nat \ {0} /\ Len(q) \in Nat \ {0}
    BY <1>1
  <1> HIDE DEF p, q
  <1>6. (u \o p)[Len(u) + 1] = ":" /\ (v \o q)[Len(v) + 1] = ":"
    BY <1>1, <1>4, <1>5, JoinedFirst
  <1>7. \A i \in 1..Len(u) : (u \o p)[i] = u[i] /\ u[i] \in Digits
    BY <1>1, <1>4
  <1>8. \A i \in 1..Len(v) : (v \o q)[i] = v[i] /\ v[i] \in Digits
    BY <1>1, <1>4
  <1>9. ~(Len(u) < Len(v))
    <2> SUFFICES ASSUME Len(u) < Len(v)
                 PROVE  FALSE
      OBVIOUS
    <2>1. Len(u) + 1 \in 1..Len(v)
      BY <1>5
    <2> QED
      BY <1>2, <1>4, <1>6, <1>8, <2>1
  <1>10. ~(Len(v) < Len(u))
    <2> SUFFICES ASSUME Len(v) < Len(u)
                 PROVE  FALSE
      OBVIOUS
    <2>1. Len(v) + 1 \in 1..Len(u)
      BY <1>5
    <2> QED
      BY <1>2, <1>4, <1>6, <1>7, <2>1
  <1>11. Len(u) = Len(v)
    BY <1>5, <1>9, <1>10
  <1>12. u = v /\ p = q
    BY <1>1, <1>4, <1>11, Cancel, Zenon
  <1>13. <<":">> \in Seq(S) /\ Len(<<":">>) = Len(<<":">>)
    OBVIOUS
  <1>14. x = y
    <2>1. <<":">> \o x = <<":">> \o y
      BY <1>12 DEF p, q
    <2>2. SameJoin(<<":">>, x, <<":">>, y)
      BY <2>1 DEF SameJoin
    <2> QED
      BY <1>13, <2>2, Cancel, Zenon
  <1> QED
    BY <1>12, <1>14

\* A field ends where its length says.
LEMMA MeasuredApart ==
  ASSUME NEW S, Digits \subseteq S, ":" \in S, Fragments \subseteq S,
         NEW x \in Texts, NEW y \in Texts, NEW s \in Seq(S), NEW t \in Seq(S),
         SameJoin(Measured(x), s, Measured(y), t)
  PROVE  x = y /\ s = t
  <1> DEFINE u == Decimal(Len(x))
             v == Decimal(Len(y))
             c == <<":">>
  <1>1. Len(x) \in Nat /\ Len(y) \in Nat /\ x \in Seq(S) /\ y \in Seq(S)
    BY DEF Texts
  <1>2. u \in Seq(Digits) /\ v \in Seq(Digits) /\ (u = v => Len(x) = Len(y))
    BY <1>1, DecimalsApart
  <1>3. Measured(x) = (u \o c) \o x /\ Measured(y) = (v \o c) \o y
    BY DEF Measured
  <1>4. c \in Seq(S)
    OBVIOUS
  <1> HIDE DEF u, v, c
  <1>5. u \in Seq(S) /\ v \in Seq(S)
    BY <1>2
  <1>6. Measured(x) \o s = u \o (c \o (x \o s))
    <2>1. u \o c \in Seq(S) /\ x \o s \in Seq(S)
      BY <1>1, <1>4, <1>5
    <2>2. Nested(u \o c, x, s) /\ Nested(u, c, x \o s)
      BY <1>1, <1>4, <1>5, <2>1, Associates, Zenon
    <2>3. ((u \o c) \o x) \o s = u \o (c \o (x \o s))
      BY <2>2, Zenon DEF Nested
    <2> QED
      BY <1>3, <2>3
  <1>7. Measured(y) \o t = v \o (c \o (y \o t))
    <2>1. v \o c \in Seq(S) /\ y \o t \in Seq(S)
      BY <1>1, <1>4, <1>5
    <2>2. Nested(v \o c, y, t) /\ Nested(v, c, y \o t)
      BY <1>1, <1>4, <1>5, <2>1, Associates, Zenon
    <2>3. ((v \o c) \o y) \o t = v \o (c \o (y \o t))
      BY <2>2, Zenon DEF Nested
    <2> QED
      BY <1>3, <2>3
  <1> DEFINE p == x \o s
             q == y \o t
  <1>8. p \in Seq(S) /\ q \in Seq(S)
    BY <1>1
  <1>9. u \o (c \o p) = v \o (c \o q)
    BY <1>6, <1>7 DEF SameJoin
  <1> HIDE DEF p, q
  <1>10. u = v /\ p = q
    <2>1. SameJoin(u, <<":">> \o p, v, <<":">> \o q)
      BY <1>9 DEF c, SameJoin
    <2> QED
      BY <1>2, <1>8, <2>1, Behind, Zenon
  <1>11. Len(x) = Len(y) /\ SameJoin(x, s, y, t)
    BY <1>2, <1>10 DEF p, q, SameJoin
  <1> QED
    BY <1>1, <1>11, Cancel, Zenon

\* Two heads that are hashed from one text are one.
LEMMA PayloadsApart ==
  ASSUME NEW i \in Texts, NEW a \in Texts, NEW j \in Texts, NEW b \in Texts,
         Payload(i, a) = Payload(j, b)
  PROVE  i = j /\ a = b
  <1> DEFINE S == Fragments \union Digits \union {":", "instructions:", "\n", "first_user:"}
             P == <<"instructions:">>
             Q == <<"\n", "first_user:">>
  <1>1. P \in Seq(S) /\ Q \in Seq(S) /\ <<>> \in Seq(S)
    OBVIOUS
  <1>2. Digits \subseteq S /\ ":" \in S /\ Fragments \subseteq S
    OBVIOUS
  <1>3. \A x, y \in Texts : Payload(x, y) = ((P \o Measured(x)) \o Q) \o Measured(y)
    BY DEF Payload
  <1> HIDE DEF S, P, Q
  <1>4. ASSUME NEW x \in Texts
        PROVE  Measured(x) \in Seq(S)
    <2> DEFINE u == Decimal(Len(x))
               c == <<":">>
    <2>1. Len(x) \in Nat /\ x \in Seq(S) /\ c \in Seq(S)
      BY <1>2 DEF Texts
    <2>2. u \in Seq(Digits)
      BY <2>1, DecimalsApart
    <2>3. Measured(x) = (u \o c) \o x
      BY DEF Measured
    <2> HIDE DEF u, c
    <2>4. u \in Seq(S)
      BY <1>2, <2>2
    <2> QED
      BY <2>1, <2>3, <2>4
  <1>5. ASSUME NEW x \in Texts, NEW y \in Texts
        PROVE  Payload(x, y) = P \o (Measured(x) \o (Q \o Measured(y)))
    <2>1. Measured(x) \in Seq(S) /\ Measured(y) \in Seq(S)
      BY <1>4
    <2> DEFINE m == Measured(x)
               n == Measured(y)
    <2>2. m \in Seq(S) /\ n \in Seq(S) /\ Payload(x, y) = ((P \o m) \o Q) \o n
      BY <1>3, <2>1
    <2> HIDE DEF m, n
    <2>3. P \o m \in Seq(S) /\ Q \o n \in Seq(S)
      BY <1>1, <2>2
    <2>4. Nested(P \o m, Q, n) /\ Nested(P, m, Q \o n)
      BY <1>1, <2>2, <2>3, Associates, Zenon
    <2>5. ((P \o m) \o Q) \o n = P \o (m \o (Q \o n))
      BY <2>4, Zenon DEF Nested
    <2>6. Payload(x, y) = P \o (m \o (Q \o n))
      BY <2>2, <2>5
    <2> QED
      BY <2>6 DEF m, n
  <1> DEFINE mi == Measured(i)
             ma == Measured(a)
             mj == Measured(j)
             mb == Measured(b)
  <1>6. mi \in Seq(S) /\ ma \in Seq(S) /\ mj \in Seq(S) /\ mb \in Seq(S)
    BY <1>4
  <1>7. P \o (mi \o (Q \o ma)) = P \o (mj \o (Q \o mb))
    BY <1>5
  <1> HIDE DEF mi, ma, mj, mb
  <1> DEFINE x == Q \o ma
             y == Q \o mb
             p == mi \o x
             q == mj \o y
  <1>8. x \in Seq(S) /\ y \in Seq(S) /\ p \in Seq(S) /\ q \in Seq(S)
    BY <1>1, <1>6
  <1>9. SameJoin(P, p, P, q) /\ Len(P) = Len(P)
    BY <1>7 DEF SameJoin
  <1> HIDE DEF x, y, p, q
  <1>10. p = q
    BY <1>1, <1>8, <1>9, Cancel, Zenon
  <1>11. SameJoin(Measured(i), x, Measured(j), y)
    BY <1>10 DEF p, q, mi, mj, SameJoin
  <1>12. i = j /\ x = y
    BY <1>2, <1>8, <1>11, MeasuredApart, Zenon
  <1>13. SameJoin(Q, ma, Q, mb) /\ Len(Q) = Len(Q)
    BY <1>12 DEF x, y, SameJoin
  <1>14. ma = mb
    BY <1>1, <1>6, <1>13, Cancel, Zenon
  <1>15. SameJoin(Measured(a), <<>>, Measured(b), <<>>)
    BY <1>14 DEF ma, mb, SameJoin
  <1>16. a = b
    BY <1>1, <1>2, <1>15, MeasuredApart, Zenon
  <1> QED
    BY <1>12, <1>16

-----------------------------------------------------------------------------
(* What is read of messages: their contents are texts, whatever else they  *)
(* hold, so the lemmas serve requests and bodies alike.                    *)

Readable(E) == \A m \in E : m.content.parts \in Seq(Texts)

LEMMA PartsAreTexts ==
  /\ Readable(Chats)
  /\ \A e \in {"chat", "responses"} : Messages[e] \subseteq Chats /\ Asides[e] \subseteq Seq(Chats)
  /\ Instructions0 \subseteq Texts /\ Headers \subseteq Texts
  <1>1. \A c \in Contents : c.parts \in Seq(Texts)
    BY DEF Contents
  <1>2. Readable(Chats)
    BY <1>1 DEF Readable, Chats
  <1> QED
    BY <1>2, ConversationAssumption

LEMMA InstructionFits ==
  ASSUME NEW E, Readable(E), NEW m \in E
  PROVE  Instruction(m) \in Seq(Texts)
  <1> DEFINE texts == NonEmpty(m.content.parts)
             part == Join(Each(ReplaceNames, texts), <<"\n">>)
  <1>1. m.content.parts \in Seq(Texts)
    BY DEF Readable
  <1>2. texts \in Seq(Texts)
    BY <1>1, NonEmptyHas
  <1> HIDE DEF texts
  <1>3. Each(ReplaceNames, texts) \in Seq(Texts)
    BY <1>2, EachIsSeq
  <1>4. <<"\n">> \in Texts
    BY TextsAssumption DEF Texts
  <1>5. part \in Texts
    BY <1>3, <1>4, JoinIsText
  <1>6. Instruction(m) = IF m.role = "system" /\ texts # <<>> THEN <<part>> ELSE <<>>
    BY DEF Instruction, texts
  <1> HIDE DEF part
  <1> QED
    BY <1>5, <1>6

LEMMA EachInstructionFits ==
  ASSUME NEW E, Readable(E), NEW ms \in Seq(E)
  PROVE  Each(Instruction, ms) \in Seq(Seq(Texts)) /\ FlattenSeq(Each(Instruction, ms)) \in Seq(Texts)
  <1>1. \A i \in 1..Len(ms) : ms[i] \in E
    OBVIOUS
  <1>2. \A i \in 1..Len(ms) : Instruction(ms[i]) \in Seq(Texts)
    BY <1>1, InstructionFits
  <1>3. DOMAIN ms = 1..Len(ms) /\ Len(ms) \in Nat
    OBVIOUS
  <1>4. Each(Instruction, ms) \in [1..Len(ms) -> Seq(Texts)]
    BY <1>2, <1>3 DEF Each
  <1>5. Each(Instruction, ms) \in Seq(Seq(Texts)) /\ <<>> \in Seq(Texts)
    BY <1>3, <1>4
  <1> QED
    BY <1>5, FlatAppends

LEMMA InstructionsFit ==
  ASSUME NEW E, Readable(E), NEW ms \in Seq(E)
  PROVE  Instructions(ms) \in Texts
  <1>1. FlattenSeq(Each(Instruction, ms)) \in Seq(Texts) /\ <<"\n", "\n">> \in Texts
    BY EachInstructionFits, TextsAssumption DEF Texts
  <1>2. Join(FlattenSeq(Each(Instruction, ms)), <<"\n", "\n">>) \in Texts
    BY <1>1, JoinIsText
  <1> QED
    BY <1>2, TrimKeepsInk DEF Instructions

LEMMA QuestionIsText ==
  ASSUME NEW m, m.content.parts \in Seq(Texts),
         \E j \in DOMAIN m.content.parts : ~IsBlank(m.content.parts[j])
  PROVE  Question(m.content) \in Texts /\ ~IsBlank(Question(m.content))
  <1> DEFINE parts == m.content.parts
             T == {j \in DOMAIN parts : ~IsBlank(parts[j])}
  <1>1. parts \in Seq(Texts) /\ T # {} /\ T \subseteq Nat
    OBVIOUS
  <1>2. \A k \in T : k \in DOMAIN parts /\ ~IsBlank(parts[k]) /\ parts[k] \in Texts
    BY <1>1
  <1>3. Question(m.content) = ReplaceNames(parts[Min(T)])
    BY DEF Question
  <1> HIDE DEF T, parts
  <1>4. Min(T) \in T
    BY <1>1, MinIsLeast
  <1>5. parts[Min(T)] \in Texts /\ ~IsBlank(parts[Min(T)])
    BY <1>2, <1>4
  <1> QED
    BY <1>3, <1>5, NamesKeepInk

LEMMA UserTextIsText ==
  ASSUME NEW E, Readable(E), NEW ms \in Seq(E), NEW forms
  PROVE  /\ UserText(ms, forms) \in Texts
         /\ Asking(ms, forms) = {} => UserText(ms, forms) = <<>>
         /\ Asking(ms, forms) # {} => UserText(ms, forms) # <<>> /\ ~IsBlank(UserText(ms, forms))
  <1>1. CASE Asking(ms, forms) = {}
    BY <1>1, EmptyIsText DEF UserText
  <1>2. CASE Asking(ms, forms) # {}
    <2> DEFINE T == Asking(ms, forms)
               m == ms[Min(T)]
    <2>1. T \subseteq DOMAIN ms /\ DOMAIN ms \subseteq Nat /\ \A k \in DOMAIN ms : ms[k] \in E
      BY DEF Asking
    <2>2. \A k \in T : \E j \in DOMAIN ms[k].content.parts : ~IsBlank(ms[k].content.parts[j])
      BY DEF Asking
    <2>3. UserText(ms, forms) = Question(m.content)
      BY <1>2 DEF UserText
    <2> HIDE DEF T
    <2>4. Min(T) \in T
      BY <1>2, <2>1, MinIsLeast DEF T
    <2>5. m \in E /\ \E j \in DOMAIN m.content.parts : ~IsBlank(m.content.parts[j])
      BY <2>1, <2>2, <2>4
    <2>6. m.content.parts \in Seq(Texts)
      BY <2>5 DEF Readable
    <2> HIDE DEF m
    <2>7. Question(m.content) \in Texts /\ ~IsBlank(Question(m.content))
      BY <2>5, <2>6, QuestionIsText
    <2> QED
      BY <1>2, <2>3, <2>7, EmptyIsText
  <1> QED
    BY <1>1, <1>2

LEMMA NobodyAsks ==
  ASSUME NEW forms
  PROVE  UserText(<<>>, forms) = <<>>
  <1>1. Asking(<<>>, forms) = {}
    BY DEF Asking
  <1> QED
    BY <1>1 DEF UserText

\* Where nothing stands in messages, input alone is read.
LEMMA FirstOfInput ==
  ASSUME NEW input
  PROVE  FirstUserText(input, <<>>) = UserText(input, {"items"})
  BY NobodyAsks DEF FirstUserText

\* The two fields are looked at one after the other, each as a whole.
LEMMA FirstOfBoth ==
  ASSUME NEW input, NEW messages, NEW input2, NEW messages2,
         UserText(input2, {"items"}) = UserText(input, {"items"}),
         \/ UserText(input, {"items"}) # <<>>
         \/ UserText(messages2, {"text", "items"}) = UserText(messages, {"text", "items"})
  PROVE  FirstUserText(input2, messages2) = FirstUserText(input, messages)
  BY DEF FirstUserText

-----------------------------------------------------------------------------
(* The invariant: what the proxy sent and the key it resolved are those of *)
(* the last request, and the request is made of what the client may say.   *)

Requests(e) ==
  [model : Models, messages : Seq(Messages[e]), asArray : BOOLEAN, aside : Asides[e],
   instructions : Instructions0, cacheKey : CacheKeys]

ConversationInv ==
  /\ endpoint \in {"chat", "responses"} /\ header \in Headers
  /\ request \in Requests(endpoint)
  /\ sent = Body(request)
  /\ conversation = Key(request)

LEMMA StepIs ==
  ASSUME ConversationInv, [Next]_vars
  PROVE  /\ endpoint' = endpoint /\ header' = header
         /\ \/ UNCHANGED vars
            \/ /\ \E m \in Messages[endpoint] :
                    request' = [request EXCEPT !.messages = Append(request.messages, m)]
               /\ sent' = Body(request') /\ conversation' = Key(request')
            \/ /\ \E model \in Models \ {request.model} : request' = [request EXCEPT !.model = model]
               /\ sent' = Body(request') /\ conversation' = Key(request')
  BY DEF Next, Turn, SwitchModel, Handle, vars

LEMMA ConversationInvAlways == Spec => []ConversationInv
  <1>1. Init => ConversationInv
    <2> SUFFICES ASSUME Init
                 PROVE  ConversationInv
      OBVIOUS
    <2>1. request \in Requests(endpoint)
      <3>1. request \in [model : Models, messages : {<<>>}, asArray : BOOLEAN,
                         aside : Asides[endpoint], instructions : Instructions0, cacheKey : CacheKeys]
        BY DEF Init
      <3>2. <<>> \in Seq(Messages[endpoint])
        OBVIOUS
      <3> QED
        BY <3>1, <3>2 DEF Requests
    <2> QED
      BY <2>1 DEF Init, ConversationInv
  <1>2. ConversationInv /\ [Next]_vars => ConversationInv'
    <2> SUFFICES ASSUME ConversationInv, [Next]_vars
                 PROVE  ConversationInv'
      OBVIOUS
    <2>1. endpoint' = endpoint /\ header' = header
      BY StepIs
    <2>2. request' \in Requests(endpoint)
      <3>1. request \in Requests(endpoint)
        BY DEF ConversationInv
      <3>2. ASSUME NEW m \in Messages[endpoint]
            PROVE  [request EXCEPT !.messages = Append(request.messages, m)] \in Requests(endpoint)
        BY <3>1 DEF Requests
      <3>3. ASSUME NEW model \in Models
            PROVE  [request EXCEPT !.model = model] \in Requests(endpoint)
        BY <3>1 DEF Requests
      <3>4. UNCHANGED vars => request' = request
        BY DEF vars
      <3> QED
        BY <3>1, <3>2, <3>3, <3>4, StepIs
    <2>3. sent' = Body(request') /\ conversation' = Key(request')
      <3>1. CASE UNCHANGED vars
        BY <3>1 DEF vars, ConversationInv
      <3>2. CASE ~UNCHANGED vars
        BY <3>2, StepIs
      <3> QED
        BY <3>1, <3>2
    <2>4. (Body(request))' = Body(request') /\ (Key(request))' = Key(request')
      BY <2>1 DEF Body, Key
    <2>5. (Requests(endpoint))' = Requests(endpoint)
      BY <2>1 DEF Requests
    <2> QED
      BY <2>1, <2>2, <2>3, <2>4, <2>5 DEF ConversationInv
  <1> QED
    BY <1>1, <1>2, PTL DEF Spec

LEMMA GivenFits ==
  ASSUME ConversationInv
  PROVE  /\ Given(request) \in Seq(Chats) /\ request.messages \in Seq(Chats)
         /\ request.aside \in Seq(Chats)
  <1>1. /\ request.messages \in Seq(Messages[endpoint]) /\ endpoint \in {"chat", "responses"}
        /\ request.aside \in Asides[endpoint]
    BY DEF ConversationInv, Requests
  <1>2. Messages[endpoint] \subseteq Chats /\ Asides[endpoint] \subseteq Seq(Chats)
    BY <1>1, PartsAreTexts
  <1>3. request.messages \in Seq(Chats) /\ request.aside \in Seq(Chats)
    BY <1>1, <1>2
  <1> QED
    BY <1>3 DEF Given

LEMMA HeadsAreTexts ==
  ASSUME NEW r, Given(r) \in Seq(Chats), r.aside \in Seq(Chats)
  PROVE  HeadOf(r)[1] \in Texts /\ HeadOf(r)[2] \in Texts
  <1>1. Instructions(Given(r)) \in Texts
    BY PartsAreTexts, InstructionsFit
  <1>2. FirstUserText(r.aside, Given(r)) \in Texts
    <2>1. UserText(r.aside, {"items"}) \in Texts /\ UserText(Given(r), {"text", "items"}) \in Texts
      BY PartsAreTexts, UserTextIsText
    <2> QED
      BY <2>1 DEF FirstUserText
  <1>3. Trim(FirstUserText(r.aside, Given(r))) \in Texts
    BY <1>2, TrimKeepsInk
  <1> QED
    BY <1>1, <1>3 DEF HeadOf

LEMMA HashOfHead ==
  ASSUME NEW r, endpoint = "chat", Key(r).source = "head_hash"
  PROVE  Key(r).key = Payload(HeadOf(r)[1], HeadOf(r)[2])
  BY DEF Key, ConversationKey, HeadOf, NoKey

\* Conversations the client gives no id are told apart by the hash whenever their
\* instructions or the user's first words differ, line breaks and decimals among the
\* words included (conversation.rs:84-98).
THEOREM HeadsToldApart == Spec => []KeysTellHeadsApart
  <1>1. ConversationInv => KeysTellHeadsApart
    <2> SUFFICES ASSUME ConversationInv, endpoint = "chat", conversation.source = "head_hash",
                        NEW other \in Openings, Key(other) = conversation
                 PROVE  HeadOf(other) = HeadOf(request)
      BY DEF KeysTellHeadsApart
    <2>1. /\ Given(request) \in Seq(Chats) /\ request.aside \in Seq(Chats)
          /\ request \in Requests("chat")
      BY GivenFits DEF ConversationInv
    <2>2. Given(other) \in Seq(Chats) /\ other.aside \in Seq(Chats)
      <3>1. PICK aside \in Asides["chat"], s \in {m \in Messages["chat"] : m.role = "system"},
                 u \in {m \in Messages["chat"] : m.role = "user"} :
              other = Opening(s, u, aside)
        BY DEF Openings
      <3>2. s \in Chats /\ u \in Chats /\ aside \in Seq(Chats)
        BY PartsAreTexts
      <3>3. other.messages = <<s, u>> /\ other.aside = aside
        BY <2>1, <3>1 DEF Requests, Opening
      <3> QED
        BY <3>2, <3>3 DEF Given
    <2>3. Key(request) = conversation
      BY DEF ConversationInv
    <2>4. Key(request).key = Payload(HeadOf(request)[1], HeadOf(request)[2])
      BY <2>3, HashOfHead
    <2>5. Key(other).key = Payload(HeadOf(other)[1], HeadOf(other)[2])
      BY HashOfHead
    <2>6. HeadOf(request)[1] \in Texts /\ HeadOf(request)[2] \in Texts
      BY <2>1, HeadsAreTexts
    <2>7. HeadOf(other)[1] \in Texts /\ HeadOf(other)[2] \in Texts
      BY <2>2, HeadsAreTexts
    <2>8. Payload(HeadOf(other)[1], HeadOf(other)[2]) = Payload(HeadOf(request)[1], HeadOf(request)[2])
      BY <2>3, <2>4, <2>5
    <2>9. HeadOf(other)[1] = HeadOf(request)[1] /\ HeadOf(other)[2] = HeadOf(request)[2]
      BY <2>6, <2>7, <2>8, PayloadsApart
    <2> QED
      BY <2>9 DEF HeadOf
  <1> QED
    BY <1>1, ConversationInvAlways, PTL

-----------------------------------------------------------------------------
(* What a turn leaves alone                                                *)

\* ks has grown behind ms and changed only where the user does not speak.
Continues(ks, ms) ==
  /\ Len(ms) <= Len(ks)
  /\ \A i \in DOMAIN ms : ks[i] = ms[i] \/ (ms[i].role # "user" /\ ks[i].role # "user")

\* Then the first text of the user is found again.
LEMMA UserTextStays ==
  ASSUME NEW E, NEW ms \in Seq(E), NEW ks \in Seq(E), NEW forms, Continues(ks, ms),
         Asking(ms, forms) # {}
  PROVE  UserText(ks, forms) = UserText(ms, forms)
  <1> DEFINE A == Asking(ms, forms)
             B == Asking(ks, forms)
  <1>1. A \subseteq DOMAIN ms /\ B \subseteq DOMAIN ks /\ \A i \in A : ms[i].role = "user"
    BY DEF Asking
  <1>2. DOMAIN ms = 1..Len(ms) /\ DOMAIN ks = 1..Len(ks) /\ Len(ms) \in Nat /\ Len(ks) \in Nat
    OBVIOUS
  <1>3. DOMAIN ms \subseteq DOMAIN ks
    BY <1>2 DEF Continues
  <1>4. \A i \in A : i \in B
    BY <1>3 DEF Asking, Continues
  <1>5. \A i \in B : i \in DOMAIN ms => i \in A
    BY DEF Asking, Continues
  <1> HIDE DEF A, B
  <1>6. A \subseteq Nat /\ B \subseteq Nat /\ A # {} /\ B # {}
    BY <1>1, <1>2, <1>4 DEF A
  <1>7. Min(A) \in A /\ \A i \in A : Min(A) <= i
    BY <1>6, MinIsLeast
  <1>8. Min(B) \in B /\ \A i \in B : Min(B) <= i
    BY <1>6, MinIsLeast
  <1>9. Min(B) <= Min(A) /\ Min(A) \in DOMAIN ms
    BY <1>1, <1>4, <1>7, <1>8
  <1>10. Min(B) \in DOMAIN ms
    BY <1>1, <1>2, <1>8, <1>9
  <1>11. Min(A) <= Min(B)
    BY <1>5, <1>7, <1>8, <1>10
  <1>12. Min(A) = Min(B)
    <2>1. Min(A) \in Nat /\ Min(B) \in Nat
      BY <1>6, <1>7, <1>8
    <2> QED
      BY <1>9, <1>11, <2>1
  <1>13. ks[Min(A)] = ms[Min(A)]
    BY <1>1, <1>7, <1>9 DEF Continues
  <1>14. UserText(ms, forms) = Question(ms[Min(A)].content)
    BY <1>6 DEF UserText, A
  <1>15. UserText(ks, forms) = Question(ks[Min(B)].content)
    BY <1>6 DEF UserText, B
  <1> QED
    BY <1>12, <1>13, <1>14, <1>15

LEMMA UserTextGrows ==
  ASSUME NEW E, NEW ms \in Seq(E), NEW m \in E, NEW forms, Asking(ms, forms) # {}
  PROVE  UserText(Append(ms, m), forms) = UserText(ms, forms)
  <1> DEFINE ks == Append(ms, m)
  <1>1. ks \in Seq(E) /\ Continues(ks, ms)
    BY DEF Continues
  <1> HIDE DEF ks
  <1>2. UserText(ks, forms) = UserText(ms, forms)
    BY <1>1, UserTextStays, Zenon
  <1> QED
    BY <1>2 DEF ks

LEMMA InstructionsStay ==
  ASSUME NEW E, Readable(E), NEW ms \in Seq(E), NEW m \in E, m.role # "system"
  PROVE  Instructions(Append(ms, m)) = Instructions(ms)
  <1>1. Each(Instruction, Append(ms, m)) = Append(Each(Instruction, ms), <<>>)
    <2>1. Instruction(m) = <<>>
      BY DEF Instruction
    <2>2. Each(Instruction, Append(ms, m)) = Append(Each(Instruction, ms), Instruction(m))
      BY DEF Each
    <2> QED
      BY <2>1, <2>2
  <1> DEFINE ss == Each(Instruction, ms)
  <1>2. ss \in Seq(Seq(Texts)) /\ FlattenSeq(ss) \in Seq(Texts)
    BY EachInstructionFits
  <1> HIDE DEF ss
  <1>3. <<>> \in Seq(Texts)
    OBVIOUS
  <1>4. FlattenSeq(Append(ss, <<>>)) = FlattenSeq(ss) \o <<>>
    BY <1>2, <1>3, FlatAppends
  <1>5. FlattenSeq(ss) \o <<>> = FlattenSeq(ss)
    BY <1>2
  <1>6. FlattenSeq(Each(Instruction, Append(ms, m))) = FlattenSeq(Each(Instruction, ms))
    BY <1>1, <1>4, <1>5 DEF ss
  <1> QED
    BY <1>6 DEF Instructions

\* The shapes of content that are read.
Forms == IF endpoint = "chat" THEN {"text", "items"} ELSE {"items"}

LEMMA OpenedAsks ==
  ASSUME ConversationInv, Opened
  PROVE  Asking(Given(request), Forms) # {} /\ request.asArray
  <1>1. PICK i \in DOMAIN Given(request) :
          /\ request.messages[i].role = "user" /\ request.messages[i].content.form \in Forms
          /\ \E j \in DOMAIN request.messages[i].content.parts : ~IsBlank(request.messages[i].content.parts[j])
    BY DEF Opened, Forms
  <1>2. Given(request) = request.messages /\ request.asArray
    <2>1. Given(request) # <<>>
      BY <1>1
    <2> QED
      BY <2>1 DEF Given
  <1>3. i \in Asking(Given(request), Forms)
    BY <1>1, <1>2 DEF Asking
  <1> QED
    BY <1>2, <1>3

LEMMA TurnAdds ==
  ASSUME ConversationInv, request.asArray, NEW m \in Messages[endpoint],
         request' = [request EXCEPT !.messages = Append(request.messages, m)]
  PROVE  /\ Given(request) \in Seq(Chats) /\ m \in Chats
         /\ Given(request') = Append(Given(request), m)
         /\ request'.model = request.model /\ request'.instructions = request.instructions
         /\ request'.cacheKey = request.cacheKey /\ request'.aside = request.aside
         /\ Instructs <=> m.role = "system"
  <1>1. request \in Requests(endpoint) /\ endpoint \in {"chat", "responses"}
    BY DEF ConversationInv
  <1>2. m \in Chats
    BY <1>1, PartsAreTexts
  <1>3. /\ request'.messages = Append(request.messages, m) /\ request'.asArray = request.asArray
        /\ request'.model = request.model /\ request'.instructions = request.instructions
        /\ request'.cacheKey = request.cacheKey /\ request'.aside = request.aside
    BY <1>1 DEF Requests
  <1>4. Given(request) = request.messages /\ Given(request') = Append(request.messages, m)
    BY <1>3 DEF Given
  <1>5. request.messages \in Seq(Chats)
    BY GivenFits
  <1>6. Len(Append(request.messages, m)) > Len(request.messages) /\ Last(Append(request.messages, m)) = m
    BY <1>2, <1>5 DEF Last
  <1>7. Instructs <=> m.role = "system"
    BY <1>3, <1>6 DEF Instructs
  <1> QED
    BY <1>2, <1>3, <1>4, <1>5, <1>7

LEMMA SwitchKeeps ==
  ASSUME ConversationInv, NEW model, request' = [request EXCEPT !.model = model]
  PROVE  Given(request') = Given(request) /\ request'.model = model /\ request'.aside = request.aside
  BY DEF ConversationInv, Requests, Given

\* The key of a conversation is that of its first turn with a text of the user: what is
\* said later, by whom and in whatever form, moves no pin of the router, and neither
\* does another model (conversation.rs:16-19).
THEOREM KeyStays == Spec => KeyOutlivesTurns
  <1>1. ConversationInv /\ [Next]_vars
          => [Opened /\ ~(endpoint = "chat" /\ Instructs) => conversation' = conversation]_vars
    <2> SUFFICES ASSUME ConversationInv, [Next]_vars, Opened, ~(endpoint = "chat" /\ Instructs)
                 PROVE  conversation' = conversation
      OBVIOUS
    <2>1. conversation = Key(request) /\ endpoint \in {"chat", "responses"}
      BY DEF ConversationInv
    <2>2. CASE UNCHANGED vars
      BY <2>2 DEF vars
    <2>3. ASSUME NEW m \in Messages[endpoint],
                 request' = [request EXCEPT !.messages = Append(request.messages, m)],
                 conversation' = Key(request')
          PROVE  conversation' = conversation
      <3>1. /\ Given(request) \in Seq(Chats) /\ m \in Chats
            /\ Given(request') = Append(Given(request), m) /\ request'.aside = request.aside
            /\ Instructs <=> m.role = "system"
        BY <2>3, OpenedAsks, TurnAdds
      <3>2. UserText(Given(request'), Forms) = UserText(Given(request), Forms)
        BY <3>1, OpenedAsks, UserTextGrows
      <3>3. CASE endpoint = "chat"
        <4>1. Instructions(Given(request')) = Instructions(Given(request))
          BY <3>1, <3>3, PartsAreTexts, InstructionsStay
        <4>2. FirstUserText(request'.aside, Given(request')) = FirstUserText(request.aside, Given(request))
          BY <3>1, <3>2, <3>3, FirstOfBoth DEF Forms
        <4>3. ConversationKey(header, Given(request'), request'.aside)
                = ConversationKey(header, Given(request), request.aside)
          BY <4>1, <4>2 DEF ConversationKey
        <4> QED
          BY <2>1, <2>3, <3>3, <4>3 DEF Key
      <3>4. CASE endpoint = "responses"
        <4>1. FirstUserText(Given(request'), request'.aside) = FirstUserText(Given(request), request.aside)
          BY <3>1, <3>2, <3>4, FirstOfBoth DEF Forms
        <4>2. ConversationKey(header, request'.aside, Given(request'))
                = ConversationKey(header, request.aside, Given(request))
          BY <3>1, <4>1 DEF ConversationKey
        <4> QED
          BY <2>1, <2>3, <3>4, <4>2 DEF Key
      <3> QED
        BY <2>1, <3>3, <3>4
    <2>4. ASSUME NEW model \in Models, request' = [request EXCEPT !.model = model],
                 conversation' = Key(request')
          PROVE  conversation' = conversation
      <3>1. Given(request') = Given(request) /\ request'.aside = request.aside
        BY <2>4, SwitchKeeps
      <3> QED
        BY <2>1, <2>4, <3>1 DEF Key
    <2> QED
      BY <2>2, <2>3, <2>4, StepIs
  <1> QED
    BY <1>1, ConversationInvAlways, PTL DEF Spec, KeyOutlivesTurns

-----------------------------------------------------------------------------
(* The input of a chat body                                                *)

ChatEntries ==
  {Message(m.role, Segments(m.content)) : m \in Chats} \union {Call(id) : id \in STRING}
  \union {Output(m.call, ToolOutput(m.content)) : m \in Chats}

LEMMA EntriesFit ==
  ASSUME NEW m \in Chats
  PROVE  Entries(m) \in Seq(ChatEntries)
  <1>1. Saying(m) \in Seq(ChatEntries)
    <2>1. Message(m.role, Segments(m.content)) \in ChatEntries
      BY DEF ChatEntries
    <2> QED
      BY <2>1 DEF Saying
  <1>2. Each(Call, m.calls) \in Seq(ChatEntries)
    <2>1. m.calls \in Seq(STRING)
      BY DEF Chats
    <2>2. \A i \in 1..Len(m.calls) : Call(m.calls[i]) \in ChatEntries
      BY <2>1 DEF ChatEntries
    <2>3. DOMAIN m.calls = 1..Len(m.calls) /\ Len(m.calls) \in Nat
      BY <2>1
    <2>4. Each(Call, m.calls) \in [1..Len(m.calls) -> ChatEntries]
      BY <2>2, <2>3 DEF Each
    <2> QED
      BY <2>3, <2>4
  <1>3. <<Output(m.call, ToolOutput(m.content))>> \in Seq(ChatEntries)
    <2>1. Output(m.call, ToolOutput(m.content)) \in ChatEntries
      BY DEF ChatEntries
    <2> QED
      BY <2>1
  <1>4. Saying(m) \o Each(Call, m.calls) \in Seq(ChatEntries) /\ <<>> \in Seq(ChatEntries)
    BY <1>1, <1>2
  <1> QED
    BY <1>1, <1>3, <1>4, Zenon DEF Entries

LEMMA EachEntriesFit ==
  ASSUME NEW ms \in Seq(Chats)
  PROVE  /\ Each(Entries, ms) \in Seq(Seq(ChatEntries))
         /\ DOMAIN Each(Entries, ms) = DOMAIN ms
         /\ \A i \in DOMAIN ms : Each(Entries, ms)[i] = Entries(ms[i])
  <1>1. DOMAIN ms = 1..Len(ms) /\ Len(ms) \in Nat /\ \A i \in 1..Len(ms) : ms[i] \in Chats
    OBVIOUS
  <1>2. \A i \in 1..Len(ms) : Entries(ms[i]) \in Seq(ChatEntries)
    BY <1>1, EntriesFit
  <1>3. Each(Entries, ms) \in [1..Len(ms) -> Seq(ChatEntries)]
    BY <1>1, <1>2 DEF Each
  <1>4. Each(Entries, ms) \in Seq(Seq(ChatEntries))
    BY <1>1, <1>3
  <1> QED
    BY <1>4 DEF Each

\* Something to read in a text is still there among its segments.
LEMMA SegmentsKeepInk ==
  ASSUME NEW content \in Contents, content.form \in {"text", "items"},
         NEW j \in DOMAIN content.parts, ~IsBlank(content.parts[j])
  PROVE  \E k \in DOMAIN Segments(content) : ~IsBlank(Segments(content)[k])
  <1> DEFINE parts == content.parts
             texts == IF content.form = "text" THEN <<Trim(parts[1])>> ELSE parts
  <1>1. parts \in Seq(Texts) /\ (content.form = "text" => Len(parts) = 1)
    BY DEF Contents
  <1>2. texts \in Seq(Texts) /\ \E i \in DOMAIN texts : ~IsBlank(texts[i])
    <2>1. CASE content.form = "text"
      <3>1. j = 1 /\ parts[1] \in Texts /\ ~IsBlank(parts[1])
        BY <1>1, <2>1
      <3> DEFINE t == Trim(parts[1])
      <3>2. t \in Texts /\ ~IsBlank(t)
        BY <3>1, TrimKeepsInk
      <3>3. texts = <<t>>
        BY <2>1
      <3> HIDE DEF t, texts
      <3>4. <<t>> \in Seq(Texts) /\ 1 \in DOMAIN <<t>> /\ <<t>>[1] = t
        BY <3>2
      <3> QED
        BY <3>2, <3>3, <3>4
    <2>2. CASE content.form # "text"
      BY <1>1, <2>2
    <2> QED
      BY <2>1, <2>2
  <1>3. Segments(content) = Each(ReplaceNames, NonEmpty(texts))
    BY DEF Segments
  <1> HIDE DEF texts
  <1>4. PICK i \in DOMAIN texts : ~IsBlank(texts[i])
    BY <1>2
  <1>5. texts[i] # <<>>
    BY <1>4, EmptyIsText
  <1>6. NonEmpty(texts) \in Seq(Texts)
    BY <1>2, NonEmptyHas
  <1>7. PICK k \in DOMAIN NonEmpty(texts) : NonEmpty(texts)[k] = texts[i]
    BY <1>2, <1>4, <1>5, NonEmptyHas
  <1>8. k \in DOMAIN Segments(content) /\ Segments(content)[k] = ReplaceNames(texts[i])
    BY <1>3, <1>6, <1>7, EachIsSeq
  <1>9. texts[i] \in Texts
    BY <1>2, <1>4
  <1>10. ~IsBlank(ReplaceNames(texts[i]))
    BY <1>4, <1>9, NamesKeepInk
  <1> QED
    BY <1>8, <1>10

ChatInput(ms) ==
  <<Message("developer", <<InversePrompt>>), Message("developer", <<Instructions(ms)>>)>>
  \o FlattenSeq(Each(Entries, ms))

\* The two developer messages, and the entries behind them.
LEMMA ChatInputIs ==
  ASSUME NEW ms \in Seq(Chats), NEW E, ChatEntries \subseteq E,
         Message("developer", <<InversePrompt>>) \in E, Message("developer", <<Instructions(ms)>>) \in E
  PROVE  LET flat == FlattenSeq(Each(Entries, ms))
         IN /\ flat \in Seq(E) /\ ChatInput(ms) \in Seq(E) /\ Len(ChatInput(ms)) = 2 + Len(flat)
            /\ ChatInput(ms)[1] = Message("developer", <<InversePrompt>>)
            /\ ChatInput(ms)[2] = Message("developer", <<Instructions(ms)>>)
            /\ \A j \in DOMAIN flat : ChatInput(ms)[2 + j] = flat[j]
  <1> DEFINE flat == FlattenSeq(Each(Entries, ms))
             a == Message("developer", <<InversePrompt>>)
             b == Message("developer", <<Instructions(ms)>>)
  <1>1. Each(Entries, ms) \in Seq(Seq(ChatEntries)) /\ <<>> \in Seq(ChatEntries)
    <2>1. Each(Entries, ms) \in Seq(Seq(ChatEntries))
      BY EachEntriesFit
    <2>2. <<>> \in Seq(ChatEntries)
      OBVIOUS
    <2> QED
      BY <2>1, <2>2
  <1>2. flat \in Seq(ChatEntries)
    BY <1>1, FlatAppends
  <1>3. a \in E /\ b \in E
    OBVIOUS
  <1>4. ChatInput(ms) = <<a, b>> \o flat
    BY DEF ChatInput
  <1> HIDE DEF flat, a, b
  <1>5. flat \in Seq(E) /\ <<a, b>> \in Seq(E)
    BY <1>2, <1>3
  <1>6. /\ <<a, b>> \o flat \in Seq(E) /\ Len(<<a, b>> \o flat) = 2 + Len(flat)
        /\ (<<a, b>> \o flat)[1] = a /\ (<<a, b>> \o flat)[2] = b
        /\ \A j \in DOMAIN flat : (<<a, b>> \o flat)[2 + j] = flat[j]
    BY <1>5
  <1> QED
    BY <1>4, <1>5, <1>6 DEF flat, a, b

LEMMA ChatAsks ==
  ASSUME NEW ms \in Seq(Chats), Asking(ms, {"text", "items"}) # {}
  PROVE  Asking(ChatInput(ms), {"items"}) # {}
  <1> DEFINE flat == FlattenSeq(Each(Entries, ms))
             E == ChatEntries \union {Message("developer", <<InversePrompt>>), Message("developer", <<Instructions(ms)>>)}
  <1>1. PICK i \in DOMAIN ms : /\ ms[i].role = "user" /\ ms[i].content.form \in {"text", "items"}
                               /\ \E j \in DOMAIN ms[i].content.parts : ~IsBlank(ms[i].content.parts[j])
    BY DEF Asking
  <1> DEFINE segments == Segments(ms[i].content)
  <1>2. ms[i] \in Chats /\ ms[i].content \in Contents
    <2>1. ms[i] \in Chats
      BY <1>1
    <2> QED
      BY <2>1 DEF Chats
  <1>3. PICK k \in DOMAIN segments : ~IsBlank(segments[k])
    BY <1>1, <1>2, SegmentsKeepInk
  <1>4. Entries(ms[i]) = <<Message("user", segments)>>
    <2>1. segments # <<>>
      BY <1>3
    <2> QED
      BY <1>1, <2>1 DEF Entries, Saying
  <1>5. Each(Entries, ms) \in Seq(Seq(ChatEntries)) /\ i \in DOMAIN Each(Entries, ms)
        /\ Each(Entries, ms)[i] = <<Message("user", segments)>>
    BY <1>1, <1>4, EachEntriesFit
  <1>6. 1 \in DOMAIN Each(Entries, ms)[i] /\ Each(Entries, ms)[i][1] = Message("user", segments)
    BY <1>5
  <1>7. PICK j \in DOMAIN flat : flat[j] = Message("user", segments)
    <2> DEFINE ss == Each(Entries, ms)
    <2>1. ss \in Seq(Seq(ChatEntries)) /\ i \in DOMAIN ss /\ 1 \in DOMAIN ss[i]
      BY <1>5, <1>6
    <2> HIDE DEF ss
    <2>2. \E j \in DOMAIN FlattenSeq(ss) : FlattenSeq(ss)[j] = ss[i][1]
      BY <2>1, FlatHas
    <2> QED
      BY <1>6, <2>2 DEF ss
  <1>8. /\ flat \in Seq(E) /\ ChatInput(ms) \in Seq(E) /\ Len(ChatInput(ms)) = 2 + Len(flat)
        /\ ChatInput(ms)[2 + j] = flat[j]
    BY <1>7, ChatInputIs
  <1> HIDE DEF flat, E, segments
  <1>9. 2 + j \in DOMAIN ChatInput(ms)
    BY <1>7, <1>8
  <1> DEFINE m == ChatInput(ms)[2 + j]
  <1>10. m.role = "user" /\ m.content.form = "items" /\ m.content.parts = segments
    BY <1>7, <1>8 DEF Message, Items
  <1>11. 2 + j \in Asking(ChatInput(ms), {"items"})
    BY <1>3, <1>9, <1>10 DEF Asking
  <1> QED
    BY <1>11

LEMMA ChatGrows ==
  ASSUME NEW ms \in Seq(Chats), NEW m \in Chats, Asking(ms, {"text", "items"}) # {}
  PROVE  FirstUserText(ChatInput(Append(ms, m)), <<>>) = FirstUserText(ChatInput(ms), <<>>)
  <1> DEFINE ns == Append(ms, m)
             old == FlattenSeq(Each(Entries, ms))
             new == FlattenSeq(Each(Entries, ns))
             a == Message("developer", <<InversePrompt>>)
             E == ChatEntries \union {a, Message("developer", <<Instructions(ms)>>),
                                      Message("developer", <<Instructions(ns)>>)}
  <1>1. ns \in Seq(Chats)
    BY Appended
  <1>2. /\ old \in Seq(E) /\ ChatInput(ms) \in Seq(E) /\ Len(ChatInput(ms)) = 2 + Len(old)
        /\ ChatInput(ms)[1] = a /\ ChatInput(ms)[2].role = "developer"
        /\ \A j \in DOMAIN old : ChatInput(ms)[2 + j] = old[j]
    <2>1. ChatEntries \subseteq E /\ a \in E /\ Message("developer", <<Instructions(ms)>>) \in E
      OBVIOUS
    <2> HIDE DEF E, ns
    <2> QED
      BY <2>1, ChatInputIs DEF Message
  <1>3. /\ new \in Seq(E) /\ ChatInput(ns) \in Seq(E) /\ Len(ChatInput(ns)) = 2 + Len(new)
        /\ ChatInput(ns)[1] = a /\ ChatInput(ns)[2].role = "developer"
        /\ \A j \in DOMAIN new : ChatInput(ns)[2 + j] = new[j]
    <2>1. ChatEntries \subseteq E /\ a \in E /\ Message("developer", <<Instructions(ns)>>) \in E
      OBVIOUS
    <2> HIDE DEF E, ns
    <2> QED
      BY <1>1, <2>1, ChatInputIs DEF Message
  <1>4. new = old \o Entries(m) /\ old \in Seq(ChatEntries) /\ Entries(m) \in Seq(ChatEntries)
    <2>1. Each(Entries, ns) = Append(Each(Entries, ms), Entries(m))
      BY DEF Each
    <2>2. Each(Entries, ms) \in Seq(Seq(ChatEntries)) /\ Entries(m) \in Seq(ChatEntries)
      BY EachEntriesFit, EntriesFit
    <2> HIDE DEF ns
    <2> QED
      BY <2>1, <2>2, FlatAppends
  <1> HIDE DEF ns, old, new, a, E
  <1>5. Len(old) \in Nat /\ Len(old) <= Len(new) /\ \A j \in 1..Len(old) : new[j] = old[j]
    BY <1>4
  <1>6. /\ DOMAIN ChatInput(ms) = 1..(2 + Len(old)) /\ DOMAIN old = 1..Len(old) /\ DOMAIN new = 1..Len(new)
        /\ Len(new) \in Nat
    BY <1>2, <1>3
  <1>7. ASSUME NEW i \in DOMAIN ChatInput(ms)
        PROVE  \/ ChatInput(ns)[i] = ChatInput(ms)[i]
               \/ ChatInput(ms)[i].role # "user" /\ ChatInput(ns)[i].role # "user"
    <2>1. CASE i \in {1, 2}
      BY <1>2, <1>3, <2>1
    <2>2. CASE i \notin {1, 2}
      <3>1. i - 2 \in 1..Len(old) /\ i - 2 \in 1..Len(new) /\ 2 + (i - 2) = i
        BY <1>5, <1>6, <2>2
      <3>2. ChatInput(ms)[i] = old[i - 2]
        BY <1>2, <1>6, <3>1
      <3>3. ChatInput(ns)[i] = new[i - 2]
        BY <1>3, <1>6, <3>1
      <3> QED
        BY <1>5, <3>1, <3>2, <3>3
    <2> QED
      BY <2>1, <2>2
  <1>8. Asking(ChatInput(ms), {"items"}) # {}
    BY ChatAsks
  <1>9. Len(ChatInput(ms)) <= Len(ChatInput(ns))
    BY <1>2, <1>3, <1>5, <1>6
  <1>10. UserText(ChatInput(ns), {"items"}) = UserText(ChatInput(ms), {"items"})
    <2> DEFINE u == ChatInput(ms)
               v == ChatInput(ns)
    <2>1. u \in Seq(E) /\ v \in Seq(E) /\ Asking(u, {"items"}) # {}
      BY <1>2, <1>3, <1>8
    <2>2. Continues(v, u)
      BY <1>7, <1>9 DEF Continues
    <2> HIDE DEF u, v
    <2>3. UserText(v, {"items"}) = UserText(u, {"items"})
      BY <2>1, <2>2, UserTextStays, Zenon
    <2> QED
      BY <2>3 DEF u, v
  <1> QED
    BY <1>10, FirstOfInput DEF ns

-----------------------------------------------------------------------------
(* The input of a Responses body                                           *)

LEMMA SystemStays ==
  ASSUME NEW ms \in Seq(Chats), NEW m \in Chats, m.role # "system"
  PROVE  System(Append(ms, m)) = System(ms)
  <1> DEFINE ns == Append(ms, m)
             Part(s) == [i \in DOMAIN s |-> IF s[i].role = "system" THEN <<s[i]>> ELSE <<>>]
             ss == Part(ms)
  <1>1. DOMAIN ms = 1..Len(ms) /\ Len(ms) \in Nat /\ \A i \in 1..Len(ms) : ms[i] \in Chats
    OBVIOUS
  <1>2. ss \in [1..Len(ms) -> Seq(Chats)]
    BY <1>1
  <1>3. ss \in Seq(Seq(Chats))
    BY <1>1, <1>2
  <1>4. Part(ns) = Append(ss, <<>>)
    OBVIOUS
  <1>5. System(ns) = FlattenSeq(Part(ns)) /\ System(ms) = FlattenSeq(ss)
    BY DEF System, Kept
  <1> HIDE DEF ss
  <1>6. <<>> \in Seq(Chats)
    OBVIOUS
  <1>7. FlattenSeq(Append(ss, <<>>)) = FlattenSeq(ss) \o <<>> /\ FlattenSeq(ss) \in Seq(Chats)
    BY <1>3, <1>6, FlatAppends
  <1>8. FlattenSeq(ss) \o <<>> = FlattenSeq(ss)
    BY <1>7
  <1> QED
    BY <1>4, <1>5, <1>7, <1>8

LEMMA UnsystemGrows ==
  ASSUME NEW ms \in Seq(Chats), NEW m \in Chats, m.role # "system"
  PROVE  Unsystem(ms) \in Seq(Chats) /\ Unsystem(Append(ms, m)) = Unsystem(ms) \o <<m>>
  <1> DEFINE ns == Append(ms, m)
             Part(s) == [i \in DOMAIN s |-> IF s[i].role # "system" THEN <<s[i]>> ELSE <<>>]
             ss == Part(ms)
  <1>1. DOMAIN ms = 1..Len(ms) /\ Len(ms) \in Nat /\ \A i \in 1..Len(ms) : ms[i] \in Chats
    OBVIOUS
  <1>2. ss \in [1..Len(ms) -> Seq(Chats)]
    BY <1>1
  <1>3. ss \in Seq(Seq(Chats))
    BY <1>1, <1>2
  <1>4. Part(ns) = Append(ss, <<m>>)
    OBVIOUS
  <1>5. Unsystem(ns) = FlattenSeq(Part(ns)) /\ Unsystem(ms) = FlattenSeq(ss)
    BY DEF Unsystem, Kept
  <1> HIDE DEF ss
  <1>6. <<m>> \in Seq(Chats)
    OBVIOUS
  <1>7. FlattenSeq(Append(ss, <<m>>)) = FlattenSeq(ss) \o <<m>> /\ FlattenSeq(ss) \in Seq(Chats)
    BY <1>3, <1>6, FlatAppends
  <1> QED
    BY <1>4, <1>5, <1>7

LEMMA UnsystemHas ==
  ASSUME NEW ms \in Seq(Chats), NEW i \in DOMAIN ms, ms[i].role # "system"
  PROVE  Unsystem(ms) \in Seq(Chats) /\ \E k \in DOMAIN Unsystem(ms) : Unsystem(ms)[k] = ms[i]
  <1> DEFINE ss == [j \in DOMAIN ms |-> IF ms[j].role # "system" THEN <<ms[j]>> ELSE <<>>]
  <1>1. DOMAIN ms = 1..Len(ms) /\ Len(ms) \in Nat /\ \A j \in 1..Len(ms) : ms[j] \in Chats
    OBVIOUS
  <1>2. ss \in [1..Len(ms) -> Seq(Chats)]
    BY <1>1
  <1>3. ss \in Seq(Seq(Chats))
    BY <1>1, <1>2
  <1>4. i \in DOMAIN ss /\ 1 \in DOMAIN ss[i] /\ ss[i][1] = ms[i]
    OBVIOUS
  <1>5. Unsystem(ms) = FlattenSeq(ss)
    BY DEF Unsystem, Kept
  <1> HIDE DEF ss
  <1>6. <<>> \in Seq(Chats)
    OBVIOUS
  <1>7. FlattenSeq(ss) \in Seq(Chats)
    BY <1>3, <1>6, FlatAppends
  <1>8. \E k \in DOMAIN FlattenSeq(ss) : FlattenSeq(ss)[k] = ss[i][1]
    BY <1>3, <1>4, FlatHas
  <1> QED
    BY <1>4, <1>5, <1>7, <1>8

ResponsesInput(own, ms) == Each(Sanitized, Moved(own, SystemText(ms)) \o Unsystem(ms))

AllSanitized(X) == {Sanitized(x) : x \in X}

\* The message that may be moved in front, and the others behind it.
Placed(input, front, rest, X) ==
  /\ input \in Seq(AllSanitized(X))
  /\ Len(input) = Len(front) + Len(rest)
  /\ \A i \in 1..Len(front) : input[i] = Sanitized(front[i])
  /\ \A i \in 1..Len(rest) : input[Len(front) + i] = Sanitized(rest[i])

LEMMA ResponsesInputIs ==
  ASSUME NEW own, NEW ms, NEW X, NEW front \in Seq(X), NEW rest \in Seq(X),
         front = Moved(own, SystemText(ms)), rest = Unsystem(ms)
  PROVE  Placed(ResponsesInput(own, ms), front, rest, X)
  <1> DEFINE E == AllSanitized(X)
             both == front \o rest
             input == [i \in DOMAIN both |-> Sanitized(both[i])]
  <1>1. /\ both \in Seq(X) /\ Len(both) = Len(front) + Len(rest)
        /\ \A i \in 1..Len(front) : both[i] = front[i]
        /\ \A i \in 1..Len(rest) : both[Len(front) + i] = rest[i]
    BY Joined
  <1>2. ResponsesInput(own, ms) = input
    BY DEF ResponsesInput, Each
  <1>3. Len(front) \in Nat /\ Len(rest) \in Nat
    OBVIOUS
  <1> HIDE DEF both
  <1>4. DOMAIN both = 1..Len(both) /\ Len(both) \in Nat /\ \A i \in 1..Len(both) : both[i] \in X
    BY <1>1
  <1>5. input \in [1..Len(both) -> E]
    BY <1>4 DEF AllSanitized
  <1>6. input \in Seq(E) /\ Len(input) = Len(both)
    BY <1>4, <1>5
  <1>7. \A i \in 1..Len(both) : input[i] = Sanitized(both[i])
    BY <1>4
  <1> HIDE DEF input
  <1>8. \A i \in 1..Len(front) : i \in 1..Len(both)
    BY <1>1, <1>3
  <1>9. \A i \in 1..Len(rest) : Len(front) + i \in 1..Len(both)
    BY <1>1, <1>3
  <1> QED
    BY <1>1, <1>2, <1>6, <1>7, <1>8, <1>9 DEF Placed

LEMMA SanitizedKeepsInk ==
  ASSUME NEW m \in Chats, m.content.form = "items",
         NEW j \in DOMAIN m.content.parts, ~IsBlank(m.content.parts[j])
  PROVE  /\ Sanitized(m).role = m.role /\ Sanitized(m).content.form = "items"
         /\ \E k \in DOMAIN Sanitized(m).content.parts : ~IsBlank(Sanitized(m).content.parts[k])
  <1> DEFINE parts == m.content.parts
             new == Each(ReplaceNames, parts)
  <1>1. parts \in Seq(Texts)
    BY PartsAreTexts DEF Readable
  <1>2. j \in DOMAIN new /\ new[j] = ReplaceNames(parts[j]) /\ parts[j] \in Texts
    <2>1. DOMAIN new = DOMAIN parts /\ \A i \in DOMAIN parts : new[i] = ReplaceNames(parts[i])
      BY <1>1, EachIsSeq
    <2>2. parts[j] \in Texts
      BY <1>1
    <2> QED
      BY <2>1, <2>2
  <1>3. ~IsBlank(new[j])
    BY <1>2, NamesKeepInk
  <1>4. m \in [role : STRING, content : Contents, calls : Seq(STRING), call : STRING]
        /\ m.content \in [form : {"text", "items", "none", "other"}, parts : Seq(Texts)]
    BY DEF Chats, Contents
  <1>5. Sanitized(m) = [m EXCEPT !.content.parts = new]
    BY DEF Sanitized
  <1> HIDE DEF new
  <1>6. /\ Sanitized(m).role = m.role /\ Sanitized(m).content.form = "items"
        /\ Sanitized(m).content.parts = new
    BY <1>4, <1>5
  <1> QED
    BY <1>2, <1>3, <1>6

LEMMA MovedIsSeq ==
  ASSUME NEW own, NEW system, NEW X, Developer(ReplaceNames(system)) \in X
  PROVE  Moved(own, system) \in Seq(X)
  BY DEF Moved

LEMMA ResponsesAsk ==
  ASSUME NEW own, NEW ms \in Seq(Chats), Asking(ms, {"items"}) # {}
  PROVE  Asking(ResponsesInput(own, ms), {"items"}) # {}
  <1> DEFINE X == Chats \union {Developer(ReplaceNames(SystemText(ms)))}
             front == Moved(own, SystemText(ms))
             rest == Unsystem(ms)
             input == ResponsesInput(own, ms)
  <1>1. PICK i \in DOMAIN ms : /\ ms[i].role = "user" /\ ms[i].content.form = "items"
                               /\ \E j \in DOMAIN ms[i].content.parts : ~IsBlank(ms[i].content.parts[j])
    BY DEF Asking
  <1>2. ms[i] \in Chats /\ ms[i].role # "system"
    BY <1>1
  <1>3. rest \in Seq(Chats) /\ \E k \in DOMAIN rest : rest[k] = ms[i]
    BY <1>1, <1>2, UnsystemHas
  <1>4. PICK k \in DOMAIN rest : rest[k] = ms[i]
    BY <1>3
  <1>5. front \in Seq(X)
    BY MovedIsSeq
  <1>6. Chats \subseteq X
    OBVIOUS
  <1>7. rest \in Seq(X)
    <2> HIDE DEF X, rest
    <2> QED
      BY <1>3, <1>6
  <1> DEFINE E == AllSanitized(X)
  <1>8. /\ input \in Seq(E) /\ Len(input) = Len(front) + Len(rest)
        /\ \A n \in 1..Len(rest) : input[Len(front) + n] = Sanitized(rest[n])
    <2>1. Placed(input, front, rest, X)
      <3> HIDE DEF X
      <3> QED
        BY <1>5, <1>7, ResponsesInputIs, Zenon
    <2> QED
      BY <2>1, Zenon DEF Placed
  <1> HIDE DEF X, front, rest, input, E
  <1>9. Len(front) \in Nat /\ Len(rest) \in Nat /\ k \in 1..Len(rest)
    BY <1>4, <1>5, <1>7
  <1> DEFINE at == Len(front) + k
  <1>10. at \in DOMAIN input
    BY <1>8, <1>9
  <1>11. input[at] = Sanitized(ms[i])
    BY <1>4, <1>8, <1>9
  <1> HIDE DEF at
  <1>12. /\ input[at].role = "user" /\ input[at].content.form = "items"
         /\ \E j \in DOMAIN input[at].content.parts : ~IsBlank(input[at].content.parts[j])
    BY <1>1, <1>2, <1>11, SanitizedKeepsInk
  <1>13. at \in Asking(input, {"items"})
    BY <1>10, <1>12 DEF Asking
  <1> QED
    BY <1>13 DEF input

LEMMA ResponsesGrow ==
  ASSUME NEW own, NEW ms \in Seq(Chats), NEW m \in Chats, m.role # "system", Asking(ms, {"items"}) # {}
  PROVE  UserText(ResponsesInput(own, Append(ms, m)), {"items"}) = UserText(ResponsesInput(own, ms), {"items"})
  <1> DEFINE ns == Append(ms, m)
             X == Chats \union {Developer(ReplaceNames(SystemText(ms)))}
             E == AllSanitized(X)
             front == Moved(own, SystemText(ms))
             old == Unsystem(ms)
             new == Unsystem(ns)
             u == ResponsesInput(own, ms)
             v == ResponsesInput(own, ns)
  <1>1. SystemText(ns) = SystemText(ms)
    BY SystemStays DEF SystemText
  <1>2. front \in Seq(X) /\ Chats \subseteq X
    BY MovedIsSeq
  <1>3. old \in Seq(Chats) /\ new = old \o <<m>>
    BY UnsystemGrows
  <1> HIDE DEF ns, X, old, new, u, v
  <1>4. old \in Seq(X) /\ new \in Seq(X) /\ Len(new) = Len(old) + 1 /\ \A i \in 1..Len(old) : new[i] = old[i]
    BY <1>2, <1>3
  <1>5. /\ u \in Seq(E) /\ Len(u) = Len(front) + Len(old)
        /\ \A i \in 1..Len(front) : u[i] = Sanitized(front[i])
        /\ \A i \in 1..Len(old) : u[Len(front) + i] = Sanitized(old[i])
    <2>1. old = Unsystem(ms) /\ u = ResponsesInput(own, ms)
      BY DEF old, u
    <2>2. Placed(u, front, old, X)
      BY <1>2, <1>4, <2>1, ResponsesInputIs, Zenon
    <2> QED
      BY <2>2, Zenon DEF Placed
  <1>6. /\ v \in Seq(E) /\ Len(v) = Len(front) + Len(new)
        /\ \A i \in 1..Len(front) : v[i] = Sanitized(front[i])
        /\ \A i \in 1..Len(new) : v[Len(front) + i] = Sanitized(new[i])
    <2>1. new = Unsystem(ns) /\ v = ResponsesInput(own, ns) /\ front = Moved(own, SystemText(ns))
      BY <1>1 DEF new, v
    <2>2. Placed(v, front, new, X)
      <3> HIDE DEF front
      <3> QED
        BY <1>2, <1>4, <2>1, ResponsesInputIs, Zenon
    <2> QED
      BY <2>2, Zenon DEF Placed
  <1>7. Len(front) \in Nat /\ Len(old) \in Nat
    BY <1>2, <1>4
  <1> HIDE DEF front, E
  <1>8. DOMAIN u = 1..(Len(front) + Len(old)) /\ Len(u) <= Len(v)
    BY <1>4, <1>5, <1>6, <1>7
  <1>9. ASSUME NEW i \in DOMAIN u
        PROVE  v[i] = u[i]
    <2>1. CASE i \in 1..Len(front)
      BY <1>5, <1>6, <2>1
    <2>2. CASE i \notin 1..Len(front)
      <3> DEFINE n == i - Len(front)
      <3>1. n \in 1..Len(old) /\ n \in 1..Len(new) /\ Len(front) + n = i
        BY <1>4, <1>7, <1>8, <2>2
      <3> HIDE DEF n
      <3>2. u[Len(front) + n] = Sanitized(old[n]) /\ v[Len(front) + n] = Sanitized(new[n]) /\ new[n] = old[n]
        BY <1>4, <1>5, <1>6, <3>1
      <3> QED
        BY <3>1, <3>2
    <2> QED
      BY <2>1, <2>2
  <1>10. Asking(u, {"items"}) # {}
    BY ResponsesAsk DEF u
  <1>11. Continues(v, u)
    BY <1>8, <1>9 DEF Continues
  <1>12. u \in Seq(E) /\ v \in Seq(E)
    BY <1>5, <1>6
  <1>13. UserText(v, {"items"}) = UserText(u, {"items"})
    BY <1>10, <1>11, <1>12, UserTextStays, Zenon
  <1> QED
    BY <1>13 DEF u, v, ns

\* Whatever a later turn adds - text, calls, outputs, a system message on chat
\* completions - the prompt cache key the upstream is given stays, as long as the model
\* does: the first text of the user in the body it is hashed from is found again among
\* whatever was written in front of it and behind it (request.rs:143-146).
THEOREM CacheKeyStays == Spec => CacheKeyOutlivesTurns
  <1>1. ConversationInv /\ [Next]_vars
          => [Opened /\ request'.model = request.model /\ ~(endpoint = "responses" /\ Instructs)
               => sent'.prompt_cache_key = sent.prompt_cache_key]_vars
    <2> SUFFICES ASSUME ConversationInv, [Next]_vars, Opened, request'.model = request.model,
                        ~(endpoint = "responses" /\ Instructs)
                 PROVE  sent'.prompt_cache_key = sent.prompt_cache_key
      OBVIOUS
    <2>1. sent = Body(request) /\ endpoint \in {"chat", "responses"}
      BY DEF ConversationInv
    <2>2. CASE UNCHANGED vars
      BY <2>2 DEF vars
    <2>3. ASSUME NEW m \in Messages[endpoint],
                 request' = [request EXCEPT !.messages = Append(request.messages, m)],
                 sent' = Body(request')
          PROVE  sent'.prompt_cache_key = sent.prompt_cache_key
      <3> DEFINE ms == Given(request)
      <3>1. /\ ms \in Seq(Chats) /\ m \in Chats /\ Given(request') = Append(ms, m)
            /\ request'.instructions = request.instructions /\ request'.cacheKey = request.cacheKey
            /\ request'.aside = request.aside
            /\ Instructs <=> m.role = "system"
        BY <2>3, OpenedAsks, TurnAdds
      <3>2. Asking(ms, Forms) # {}
        BY OpenedAsks
      <3>3. CASE endpoint = "chat"
        <4>1. FirstUserText(ChatInput(Append(ms, m)), <<>>) = FirstUserText(ChatInput(ms), <<>>)
          BY <3>1, <3>2, <3>3, ChatGrows DEF Forms
        <4>2. \A r : ChatBody(r).prompt_cache_key
                = CacheKey(r.model, InstructionsPrefix, FirstUserText(ChatInput(Given(r)), <<>>))
          BY DEF ChatBody, ChatInput
        <4>3. sent = ChatBody(request) /\ sent' = ChatBody(request')
          BY <2>1, <2>3, <3>3 DEF Body
        <4> QED
          BY <3>1, <4>1, <4>2, <4>3
      <3>4. CASE endpoint = "responses"
        <4> DEFINE own(r) == Trim(r.instructions)
        <4>1. m.role # "system"
          BY <3>1, <3>4
        <4>2. FirstUserText(ResponsesInput(own(request), Append(ms, m)), request.aside)
                = FirstUserText(ResponsesInput(own(request), ms), request.aside)
          BY <3>1, <3>2, <3>4, <4>1, ResponsesGrow, FirstOfBoth DEF Forms
        <4>3. SystemText(Append(ms, m)) = SystemText(ms)
          BY <3>1, <4>1, SystemStays DEF SystemText
        <4>4. \A r : ResponsesBody(r).prompt_cache_key
                = IF r.cacheKey # <<>> THEN r.cacheKey[1]
                  ELSE CacheKey(r.model,
                                IF own(r) # <<>> THEN own(r) ELSE ReplaceNames(SystemText(Given(r))),
                                FirstUserText(ResponsesInput(own(r), Given(r)), r.aside))
          BY DEF ResponsesBody, ResponsesInput
        <4>5. sent = ResponsesBody(request) /\ sent' = ResponsesBody(request')
          BY <2>1, <2>3, <3>4 DEF Body
        <4>6. own(request') = own(request)
          BY <3>1
        <4> HIDE DEF own
        <4> QED
          BY <3>1, <4>2, <4>3, <4>4, <4>5, <4>6
      <3> QED
        BY <2>1, <3>3, <3>4
    <2>4. ASSUME NEW model \in Models \ {request.model}, request' = [request EXCEPT !.model = model]
          PROVE  FALSE
      BY <2>4, SwitchKeeps
    <2> QED
      BY <2>2, <2>3, <2>4, StepIs
  <1> QED
    BY <1>1, ConversationInvAlways, PTL DEF Spec, CacheKeyOutlivesTurns

-----------------------------------------------------------------------------
(* Loops over sequences: Flat(f, s) is what f makes of the elements of s,  *)
(* one after the other.                                                    *)

LEMMA AppendIn ==
  ASSUME NEW S, NEW s \in Seq(S), NEW x \in S
  PROVE  /\ Append(s, x) \in Seq(S) /\ Append(s, x) = s \o <<x>> /\ <<x>> \in Seq(S)
         /\ s \o <<>> = s /\ <<>> \o s = s
  OBVIOUS

LEMMA JoinEmpty ==
  ASSUME NEW S, NEW s \in Seq(S)
  PROVE  s \o <<>> = s /\ <<>> \o s = s
  OBVIOUS

LEMMA JoinIn ==
  ASSUME NEW S, NEW s \in Seq(S), NEW t \in Seq(S)
  PROVE  s \o t \in Seq(S)
  OBVIOUS

AppendsBehind(s, t, x) == Append(s \o t, x) = s \o Append(t, x)

LEMMA AppendJoined ==
  ASSUME NEW S, NEW s \in Seq(S), NEW t \in Seq(S), NEW x \in S
  PROVE  AppendsBehind(s, t, x)
  BY DEF AppendsBehind

\* The elements of a sequence that is not empty before its last, and the last.
LEMMA FrontAndLast ==
  ASSUME NEW S, NEW s \in Seq(S), Len(s) # 0
  PROVE  \E t \in Seq(S), x \in S : s = Append(t, x) /\ Len(t) = Len(s) - 1
  <1> DEFINE n == Len(s)
             t == [i \in 1..n - 1 |-> s[i]]
  <1>1. n \in Nat /\ n - 1 \in Nat /\ n \in 1..n /\ \A i \in 1..n : s[i] \in S
    OBVIOUS
  <1>2. \A i \in 1..n - 1 : i \in 1..n
    BY <1>1
  <1>3. t \in [1..n - 1 -> S]
    BY <1>1, <1>2
  <1>4. t \in Seq(S) /\ Len(t) = n - 1 /\ \A i \in 1..n - 1 : t[i] = s[i]
    BY <1>1, <1>3
  <1> HIDE DEF t
  <1>5. s[n] \in S
    BY <1>1
  <1>6. Append(t, s[n]) \in Seq(S) /\ Len(Append(t, s[n])) = n
    BY <1>1, <1>4, <1>5
  <1>7. \A i \in 1..n : s[i] = Append(t, s[n])[i]
    BY <1>1, <1>4
  <1>8. s = Append(t, s[n])
    BY <1>6, <1>7, SameText, Zenon DEF n
  <1> QED
    BY <1>4, <1>5, <1>8

\* What holds of the empty sequence and of one with an element more holds of all.
LEMMA Sequences ==
  ASSUME NEW A, NEW P, P \subseteq Seq(A), <<>> \in P,
         \A s \in P, x \in A : Append(s, x) \in P
  PROVE  P = Seq(A)
  <1> DEFINE bad == {n \in Nat : \E s \in Seq(A) : Len(s) = n /\ s \notin P}
  <1>1. bad = {}
    <2> SUFFICES ASSUME bad # {}
                 PROVE  FALSE
      OBVIOUS
    <2>1. PICK n \in bad : \A j \in bad : n <= j
      <3>1. bad \subseteq Nat
        OBVIOUS
      <3> HIDE DEF bad
      <3> QED
        BY <3>1, Least
    <2>2. n \in Nat
      BY <2>1
    <2>3. PICK s \in Seq(A) : Len(s) = n /\ s \notin P
      BY <2>1
    <2>4. n # 0
      BY <2>3, EmptyText
    <2>5. PICK t \in Seq(A), x \in A : s = Append(t, x) /\ Len(t) = n - 1
      <3>1. Len(s) # 0
        BY <2>3, <2>4
      <3>2. \E t \in Seq(A), x \in A : s = Append(t, x) /\ Len(t) = Len(s) - 1
        BY <3>1, FrontAndLast, Zenon
      <3> QED
        BY <2>3, <3>2
    <2>6. n - 1 \in Nat /\ ~(n <= n - 1)
      BY <2>2, <2>4
    <2>7. n - 1 \notin bad
      <3> HIDE DEF bad
      <3> QED
        BY <2>1, <2>6
    <2>8. t \in P
      BY <2>5, <2>6, <2>7
    <2> QED
      BY <2>3, <2>5, <2>8
  <1>2. \A s \in Seq(A) : Len(s) \in Nat
    OBVIOUS
  <1> QED
    BY <1>1, <1>2

Mapped(f, s) == [i \in DOMAIN s |-> f[s[i]]]

LEMMA MappedIn ==
  ASSUME NEW A, NEW B, NEW f \in [A -> B], NEW s \in Seq(A)
  PROVE  Mapped(f, s) \in Seq(B)
  <1>1. DOMAIN s = 1..Len(s) /\ Len(s) \in Nat /\ \A i \in 1..Len(s) : s[i] \in A
    OBVIOUS
  <1>2. \A i \in 1..Len(s) : f[s[i]] \in B
    BY <1>1
  <1>3. Mapped(f, s) \in [1..Len(s) -> B]
    BY <1>1, <1>2 DEF Mapped
  <1> QED
    BY <1>1, <1>3

MapGrows(f, s, x) == Mapped(f, Append(s, x)) = Append(Mapped(f, s), f[x])

LEMMA MappedGrows ==
  ASSUME NEW A, NEW B, NEW f \in [A -> B], NEW s \in Seq(A), NEW x \in A
  PROVE  MapGrows(f, s, x)
  BY DEF Mapped, MapGrows

Flat(f, s) == FlattenSeq(Mapped(f, s))

LEMMA FlatNone ==
  ASSUME NEW f
  PROVE  Flat(f, <<>>) = <<>>
  <1>1. Mapped(f, <<>>) = <<>>
    BY DEF Mapped
  <1>2. FlattenSeq(<<>>) = <<>>
    BY DEF FlattenSeq
  <1> QED
    BY <1>1, <1>2 DEF Flat

LEMMA FlatIn ==
  ASSUME NEW A, NEW S, NEW f \in [A -> Seq(S)], NEW s \in Seq(A)
  PROVE  Flat(f, s) \in Seq(S)
  <1>1. Mapped(f, s) \in Seq(Seq(S))
    BY MappedIn, Zenon
  <1>2. <<>> \in Seq(S)
    OBVIOUS
  <1> QED
    BY <1>1, <1>2, FlatAppends DEF Flat

LEMMA FlatGrows ==
  ASSUME NEW A, NEW S, NEW f \in [A -> Seq(S)], NEW s \in Seq(A), NEW x \in A
  PROVE  Flat(f, Append(s, x)) = Flat(f, s) \o f[x]
  <1>1. Mapped(f, s) \in Seq(Seq(S))
    BY MappedIn, Zenon
  <1>2. Mapped(f, Append(s, x)) = Append(Mapped(f, s), f[x])
    <2>1. MapGrows(f, s, x)
      BY MappedGrows, Zenon
    <2> QED
      BY <2>1 DEF MapGrows
  <1>3. f[x] \in Seq(S)
    OBVIOUS
  <1>4. FlattenSeq(Append(Mapped(f, s), f[x])) = FlattenSeq(Mapped(f, s)) \o f[x]
    BY <1>1, <1>3, FlatAppends
  <1> QED
    BY <1>2, <1>4 DEF Flat

LEMMA FlatOne ==
  ASSUME NEW A, NEW S, NEW f \in [A -> Seq(S)], NEW x \in A
  PROVE  Flat(f, <<x>>) = f[x]
  <1>1. <<>> \in Seq(A) /\ <<x>> = Append(<<>>, x) /\ f[x] \in Seq(S)
    OBVIOUS
  <1>2. Flat(f, Append(<<>>, x)) = Flat(f, <<>>) \o f[x]
    BY <1>1, FlatGrows, Zenon
  <1>3. <<>> \o f[x] = f[x]
    BY <1>1
  <1> QED
    BY <1>1, <1>2, <1>3, FlatNone

Splits(f, s, t) == Flat(f, s \o t) = Flat(f, s) \o Flat(f, t)

\* What is made of two parts is what is made of the one before what is made of the other.
LEMMA FlatJoins ==
  ASSUME NEW A, NEW S, NEW f \in [A -> Seq(S)], NEW s \in Seq(A), NEW t \in Seq(A)
  PROVE  Splits(f, s, t)
  <1> DEFINE P == {u \in Seq(A) : Flat(f, s \o u) = Flat(f, s) \o Flat(f, u)}
  <1>1. <<>> \in P
    <2>1. s \o <<>> = s /\ <<>> \in Seq(A)
      OBVIOUS
    <2>2. Flat(f, s) \in Seq(S)
      BY FlatIn, Zenon
    <2>3. Flat(f, s) \o <<>> = Flat(f, s)
      BY <2>2
    <2> QED
      BY <2>1, <2>3, FlatNone
  <1>2. ASSUME NEW u \in P, NEW x \in A
        PROVE  Append(u, x) \in P
    <2>1. /\ u \in Seq(A) /\ Flat(f, s \o u) = Flat(f, s) \o Flat(f, u) /\ f[x] \in Seq(S)
          /\ Append(u, x) \in Seq(A)
      OBVIOUS
    <2> HIDE DEF P
    <2>2. s \o u \in Seq(A) /\ Append(s \o u, x) = s \o Append(u, x)
      <3>1. u \in Seq(A)
        BY <2>1
      <3>2. AppendsBehind(s, u, x)
        BY <3>1, AppendJoined, Zenon
      <3>3. s \o u \in Seq(A)
        BY <3>1, JoinIn, Zenon
      <3> QED
        BY <3>2, <3>3, Zenon DEF AppendsBehind
    <2>3. Flat(f, Append(s \o u, x)) = Flat(f, s \o u) \o f[x]
      BY <2>2, FlatGrows, Zenon
    <2>4. Flat(f, Append(u, x)) = Flat(f, u) \o f[x]
      BY <2>1, FlatGrows, Zenon
    <2>5. Flat(f, u) \in Seq(S) /\ Flat(f, s) \in Seq(S)
      BY <2>1, FlatIn, Zenon
    <2>6. Nested(Flat(f, s), Flat(f, u), f[x])
      BY <2>1, <2>5, Associates, Zenon
    <2>7. Flat(f, s \o Append(u, x)) = Flat(f, s) \o Flat(f, Append(u, x))
      BY <2>1, <2>2, <2>3, <2>4, <2>6, Zenon DEF Nested
    <2> QED
      BY <2>1, <2>7 DEF P
  <1>3. P \subseteq Seq(A)
    OBVIOUS
  <1>4. P = Seq(A)
    <2> HIDE DEF P
    <2> QED
      BY <1>1, <1>2, <1>3, Sequences
  <1> QED
    BY <1>4 DEF Splits

Nests(g, f, h, s) == Flat(g, Flat(f, s)) = Flat(h, s)

\* A loop over what a loop has made is one loop.
LEMMA FlatNests ==
  ASSUME NEW A, NEW B, NEW S, NEW f \in [A -> Seq(B)], NEW g \in [B -> Seq(S)], NEW h \in [A -> Seq(S)],
         \A x \in A : h[x] = Flat(g, f[x]), NEW s \in Seq(A)
  PROVE  Nests(g, f, h, s)
  <1> DEFINE P == {u \in Seq(A) : Flat(g, Flat(f, u)) = Flat(h, u)}
  <1>1. <<>> \in P
    BY FlatNone
  <1>2. ASSUME NEW u \in P, NEW x \in A
        PROVE  Append(u, x) \in P
    <2>1. u \in Seq(A) /\ Flat(g, Flat(f, u)) = Flat(h, u) /\ f[x] \in Seq(B) /\ Append(u, x) \in Seq(A)
      OBVIOUS
    <2> HIDE DEF P
    <2>2. Flat(f, Append(u, x)) = Flat(f, u) \o f[x]
      BY <2>1, FlatGrows, Zenon
    <2>6. Flat(f, u) \in Seq(B)
      BY <2>1, FlatIn, Zenon
    <2>3. Flat(g, Flat(f, u) \o f[x]) = Flat(g, Flat(f, u)) \o Flat(g, f[x])
      <3>1. f[x] \in Seq(B)
        BY <2>1
      <3>2. Splits(g, Flat(f, u), f[x])
        BY <2>6, <3>1, FlatJoins, Zenon
      <3> QED
        BY <3>2 DEF Splits
    <2>4. Flat(h, Append(u, x)) = Flat(h, u) \o h[x]
      BY <2>1, FlatGrows, Zenon
    <2>5. Flat(g, Flat(f, Append(u, x))) = Flat(h, Append(u, x))
      BY <2>1, <2>2, <2>3, <2>4, Zenon
    <2> QED
      BY <2>1, <2>5 DEF P
  <1>3. P \subseteq Seq(A)
    OBVIOUS
  <1>4. P = Seq(A)
    <2> HIDE DEF P
    <2> QED
      BY <1>1, <1>2, <1>3, Sequences
  <1> QED
    BY <1>4 DEF Nests

LEMMA OneIn ==
  ASSUME NEW S, NEW x \in S
  PROVE  <<x>> \in Seq(S)
  OBVIOUS

\* A loop that makes one element of each.
Ones(A, f, h) == \A x \in A : h[x] = <<f[x]>>

MapsTo(f, h, s) == Flat(h, s) = Mapped(f, s)

LEMMA FlatOnes ==
  ASSUME NEW A, NEW S, NEW f \in [A -> S], NEW h \in [A -> Seq(S)], Ones(A, f, h), NEW s \in Seq(A)
  PROVE  MapsTo(f, h, s)
  <1> DEFINE P == {u \in Seq(A) : Flat(h, u) = Mapped(f, u)}
  <1>1. <<>> \in P
    <2>1. Mapped(f, <<>>) = <<>> /\ <<>> \in Seq(A)
      BY DEF Mapped
    <2> QED
      BY <2>1, FlatNone
  <1>2. ASSUME NEW u \in P, NEW x \in A
        PROVE  Append(u, x) \in P
    <2>1. u \in Seq(A) /\ Flat(h, u) = Mapped(f, u) /\ Append(u, x) \in Seq(A) /\ f[x] \in S
      OBVIOUS
    <2> HIDE DEF P
    <2>2. Mapped(f, u) \in Seq(S)
      BY <2>1, MappedIn, Zenon
    <2>3. Mapped(f, Append(u, x)) = Append(Mapped(f, u), f[x])
      <3>1. u \in Seq(A)
        BY <2>1
      <3>2. MapGrows(f, u, x)
        BY <3>1, MappedGrows, Zenon
      <3> QED
        BY <3>2 DEF MapGrows
    <2>4. Flat(h, Append(u, x)) = Flat(h, u) \o h[x]
      BY <2>1, FlatGrows, Zenon
    <2>5. Append(Mapped(f, u), f[x]) = Mapped(f, u) \o <<f[x]>>
      BY <2>1, <2>2, AppendIn
    <2>6. Flat(h, Append(u, x)) = Mapped(f, Append(u, x))
      <3>1. h[x] = <<f[x]>>
        BY DEF Ones
      <3> QED
        BY <2>1, <2>3, <2>4, <2>5, <3>1
    <2> QED
      BY <2>1, <2>6 DEF P
  <1>3. P \subseteq Seq(A)
    OBVIOUS
  <1>4. P = Seq(A)
    <2> HIDE DEF P
    <2> QED
      BY <1>1, <1>2, <1>3, Sequences
  <1> QED
    BY <1>4 DEF MapsTo

-----------------------------------------------------------------------------
(* The words of a text                                                     *)

InkOf == [w \in Fragments |-> IF w \notin Blank THEN <<w>> ELSE <<>>]

LEMMA InkOfFits == InkOf \in [Fragments -> Seq(Fragments)]
  BY DEF InkOf

LEMMA InkIs ==
  ASSUME NEW t \in Texts
  PROVE  Ink(t) = Flat(InkOf, t) /\ Ink(t) \in Texts
  <1>1. t \in Seq(Fragments) /\ \A i \in DOMAIN t : t[i] \in Fragments
    BY DEF Texts
  <1>2. Mapped(InkOf, t) = [i \in DOMAIN t |-> IF t[i] \notin Blank THEN <<t[i]>> ELSE <<>>]
    BY <1>1 DEF Mapped, InkOf
  <1>3. Ink(t) = Flat(InkOf, t)
    BY <1>2 DEF Ink, Kept, Flat
  <1>4. Flat(InkOf, t) \in Seq(Fragments)
    BY <1>1, InkOfFits, FlatIn, Zenon
  <1> QED
    BY <1>3, <1>4 DEF Texts

LEMMA InkNone == Ink(<<>>) = <<>>
  BY EmptyIsText, InkIs, FlatNone

InkSplits(s, t) == Ink(s \o t) = Ink(s) \o Ink(t)

LEMMA InkJoins ==
  ASSUME NEW s \in Texts, NEW t \in Texts
  PROVE  InkSplits(s, t)
  <1>1. s \in Seq(Fragments) /\ t \in Seq(Fragments)
    BY DEF Texts
  <1>2. Splits(InkOf, s, t)
    BY <1>1, InkOfFits, FlatJoins, Zenon
  <1>3. s \o t \in Texts
    BY <1>1, JoinIn, Zenon DEF Texts
  <1> QED
    BY <1>2, <1>3, InkIs DEF Splits, InkSplits

LEMMA InkOfOne ==
  ASSUME NEW w \in Fragments
  PROVE  <<w>> \in Texts /\ (w \in Blank => Ink(<<w>>) = <<>>)
  <1>1. <<w>> \in Texts
    BY DEF Texts
  <1>2. Flat(InkOf, <<w>>) = InkOf[w]
    BY InkOfFits, FlatOne, Zenon
  <1> QED
    BY <1>1, <1>2, InkIs DEF InkOf

\* A blank text has no words.
LEMMA BlankHasNone ==
  ASSUME NEW t \in Texts, IsBlank(t)
  PROVE  Ink(t) = <<>>
  <1> DEFINE A == Fragments \intersect Blank
             P == {u \in Seq(A) : Ink(u) = <<>>}
  <1>1. <<>> \in P
    BY InkNone
  <1>2. ASSUME NEW u \in P, NEW x \in A
        PROVE  Append(u, x) \in P
    <2>1. u \in Seq(A) /\ Ink(u) = <<>> /\ Append(u, x) \in Seq(A) /\ x \in Fragments /\ x \in Blank
      OBVIOUS
    <2> HIDE DEF P
    <2>2. u \in Seq(Fragments) /\ Append(u, x) = u \o <<x>>
      BY <2>1
    <2>3. u \in Texts /\ <<x>> \in Texts /\ Ink(<<x>>) = <<>>
      BY <2>1, <2>2, InkOfOne DEF Texts
    <2>4. InkSplits(u, <<x>>)
      BY <2>3, InkJoins
    <2>5. <<>> \o <<>> = <<>>
      OBVIOUS
    <2>6. Ink(Append(u, x)) = <<>>
      BY <2>1, <2>2, <2>3, <2>4, <2>5 DEF InkSplits
    <2> QED
      BY <2>1, <2>6 DEF P
  <1>3. P \subseteq Seq(A)
    OBVIOUS
  <1>4. P = Seq(A)
    <2> HIDE DEF P, A
    <2> QED
      BY <1>1, <1>2, <1>3, Sequences
  <1>5. t \in Seq(A)
    BY DEF Texts, IsBlank
  <1> QED
    BY <1>4, <1>5

JoinIs(s, t, z) == z \in Seq(Fragments) /\ Joins(s, t, z)

LEMMA JoinedText ==
  ASSUME NEW s \in Seq(Fragments), NEW t \in Seq(Fragments)
  PROVE  JoinIs(s, t, s \o t)
  BY JoinIn, JoinedIs, Zenon DEF JoinIs

\* What a text is trimmed of.
LEMMA TrimParts ==
  ASSUME NEW t \in Texts
  PROVE  \E p \in Texts, q \in Texts :
           IsBlank(p) /\ IsBlank(q) /\ Trim(t) \in Texts /\ t = (p \o Trim(t)) \o q
  <1> DEFINE ink == {i \in DOMAIN t : t[i] \notin Blank}
  <1>1. t \in Seq(Fragments) /\ Len(t) \in Nat /\ DOMAIN t = 1..Len(t)
    BY DEF Texts
  <1>2. Trim(t) = IF ink = {} THEN <<>> ELSE SubSeq(t, Min(ink), Max(ink))
    BY DEF Trim
  <1>3. CASE ink = {}
    <2>1. IsBlank(t) /\ Trim(t) = <<>>
      BY <1>2, <1>3 DEF IsBlank
    <2>2. t = (t \o <<>>) \o <<>>
      BY <1>1
    <2> QED
      BY <2>1, <2>2, EmptyIsText
  <1>4. CASE ink # {}
    <2>1. ink \subseteq 1..Len(t) /\ ink \subseteq Nat
      BY <1>1
    <2>2. \A i \in 1..Len(t) : i \notin ink => t[i] \in Blank
      BY <1>1
    <2> HIDE DEF ink
    <2>3. Min(ink) \in ink /\ \A k \in ink : Min(ink) <= k
      BY <1>4, <2>1, MinIsLeast
    <2>4. Max(ink) \in ink /\ \A k \in ink : k <= Max(ink)
      BY <1>1, <1>4, <2>1, MaxIsGreatest
    <2> DEFINE a == Min(ink)
               b == Max(ink)
    <2>5. a \in 1..Len(t) /\ b \in 1..Len(t) /\ a <= b
      BY <2>1, <2>3, <2>4
    <2>6. Trim(t) = SubSeq(t, a, b)
      BY <1>2, <1>4
    <2>7. /\ \A i \in 1..a - 1 : t[i] \in Blank
          /\ \A i \in b + 1..Len(t) : t[i] \in Blank
      <3>1. \A i \in 1..a - 1 : i \in 1..Len(t) /\ ~(a <= i)
        BY <1>1, <2>5
      <3>2. \A i \in b + 1..Len(t) : i \in 1..Len(t) /\ ~(i <= b)
        BY <1>1, <2>5
      <3> QED
        BY <2>2, <2>3, <2>4, <3>1, <3>2
    <2> HIDE DEF a, b
    <2> DEFINE p == [i \in 1..a - 1 |-> t[i]]
               q == [i \in 1..Len(t) - b |-> t[b + i]]
               m == [i \in 1..b - a + 1 |-> t[a + i - 1]]
    <2>8. /\ p \in Seq(Fragments) /\ Len(p) = a - 1 /\ \A i \in 1..a - 1 : p[i] = t[i]
      <3>1. a - 1 \in Nat /\ \A i \in 1..a - 1 : t[i] \in Fragments
        BY <1>1, <2>5
      <3>2. p \in [1..a - 1 -> Fragments]
        BY <3>1
      <3> QED
        BY <3>1, <3>2
    <2>9. /\ q \in Seq(Fragments) /\ Len(q) = Len(t) - b /\ \A i \in 1..Len(t) - b : q[i] = t[b + i]
      <3>1. Len(t) - b \in Nat /\ \A i \in 1..Len(t) - b : t[b + i] \in Fragments
        BY <1>1, <2>5
      <3>2. q \in [1..Len(t) - b -> Fragments]
        BY <3>1
      <3> QED
        BY <3>1, <3>2
    <2>10. /\ m \in Seq(Fragments) /\ Len(m) = b - a + 1 /\ \A i \in 1..b - a + 1 : m[i] = t[a + i - 1]
           /\ m = SubSeq(t, a, b)
      <3>1. b - a + 1 \in Nat /\ \A i \in 1..b - a + 1 : t[a + i - 1] \in Fragments
        BY <1>1, <2>5
      <3>2. m \in [1..b - a + 1 -> Fragments]
        BY <3>1
      <3>3. m = SubSeq(t, a, b)
        BY <1>1, <2>5
      <3> QED
        BY <3>1, <3>2, <3>3
    <2>11. IsBlank(p)
      BY <2>7, <2>8 DEF IsBlank
    <2>12. IsBlank(q)
      <3>1. \A i \in 1..Len(t) - b : b + i \in b + 1..Len(t)
        BY <1>1, <2>5
      <3> QED
        BY <2>7, <2>9, <3>1 DEF IsBlank
    <2> HIDE DEF p, q, m
    <2>13. t = (p \o m) \o q
      <3> DEFINE pm == p \o m
      <3>1. /\ pm \in Seq(Fragments) /\ Len(pm) = b
            /\ \A i \in 1..a - 1 : pm[i] = p[i]
            /\ \A i \in 1..b - a + 1 : pm[a - 1 + i] = m[i]
        <4>1. JoinIs(p, m, pm)
          BY <2>8, <2>10, JoinedText, Zenon
        <4>2. a - 1 + (b - a + 1) = b
          BY <2>5
        <4> HIDE DEF pm
        <4> QED
          BY <2>8, <2>10, <4>1, <4>2 DEF JoinIs, Joins
      <3> HIDE DEF pm
      <3>2. \A i \in 1..b : pm[i] = t[i]
        <4> TAKE i \in 1..b
        <4>1. CASE i <= a - 1
          <5>1. i \in 1..a - 1
            BY <2>5, <4>1
          <5> QED
            BY <2>8, <3>1, <5>1
        <4>2. CASE ~(i <= a - 1)
          <5> DEFINE n == i - a + 1
          <5>1. n \in 1..b - a + 1 /\ a - 1 + n = i /\ a + n - 1 = i
            BY <2>5, <4>2
          <5> HIDE DEF n
          <5>2. pm[a - 1 + n] = m[n] /\ m[n] = t[a + n - 1]
            BY <2>10, <3>1, <5>1
          <5> QED
            BY <5>1, <5>2
        <4> QED
          BY <4>1, <4>2
      <3>3. /\ pm \o q \in Seq(Fragments) /\ Len(pm \o q) = Len(t)
            /\ \A i \in 1..b : (pm \o q)[i] = pm[i]
            /\ \A i \in 1..Len(t) - b : (pm \o q)[b + i] = q[i]
        <4> DEFINE z == pm \o q
        <4>1. JoinIs(pm, q, z)
          BY <2>9, <3>1, JoinedText, Zenon
        <4>2. b + (Len(t) - b) = Len(t)
          BY <1>1, <2>5
        <4> HIDE DEF z
        <4>3. /\ z \in Seq(Fragments) /\ Len(z) = Len(t)
              /\ \A i \in 1..b : z[i] = pm[i]
              /\ \A i \in 1..Len(t) - b : z[b + i] = q[i]
          BY <2>9, <3>1, <4>1, <4>2 DEF JoinIs, Joins
        <4> QED
          BY <4>3 DEF z
      <3>4. \A i \in 1..Len(t) : t[i] = (pm \o q)[i]
        <4> TAKE i \in 1..Len(t)
        <4>1. CASE i <= b
          <5>1. i \in 1..b
            BY <2>5, <4>1
          <5> QED
            BY <3>2, <3>3, <5>1
        <4>2. CASE ~(i <= b)
          <5> DEFINE n == i - b
          <5>1. n \in 1..Len(t) - b /\ b + n = i
            BY <1>1, <2>5, <4>2
          <5> HIDE DEF n
          <5>2. (pm \o q)[b + n] = q[n] /\ q[n] = t[b + n]
            BY <2>9, <3>3, <5>1
          <5> QED
            BY <5>1, <5>2
        <4> QED
          BY <4>1, <4>2
      <3>5. t = pm \o q
        BY <1>1, <3>3, <3>4, SameText, Zenon
      <3> QED
        BY <3>5 DEF pm
    <2>14. p \in Texts /\ q \in Texts /\ m \in Texts /\ Trim(t) = m
      BY <2>6, <2>8, <2>9, <2>10 DEF Texts
    <2> QED
      BY <2>11, <2>12, <2>13, <2>14
  <1> QED
    BY <1>3, <1>4

LEMMA InkBetween ==
  ASSUME NEW p \in Texts, NEW t \in Texts, NEW q \in Texts, IsBlank(p), IsBlank(q)
  PROVE  Ink((p \o t) \o q) = Ink(t)
  <1>1. p \o t \in Texts
    BY JoinIn, Zenon DEF Texts
  <1>2. InkSplits(p \o t, q) /\ InkSplits(p, t)
    BY <1>1, InkJoins, Zenon
  <1>3. Ink(p) = <<>> /\ Ink(q) = <<>>
    BY BlankHasNone
  <1>4. <<>> \o Ink(t) = Ink(t) /\ Ink(t) \o <<>> = Ink(t)
    <2>1. Ink(t) \in Seq(Fragments)
      BY InkIs DEF Texts
    <2> QED
      BY <2>1
  <1> QED
    BY <1>2, <1>3, <1>4 DEF InkSplits

LEMMA TrimKeepsWords ==
  ASSUME NEW t \in Texts
  PROVE  Ink(Trim(t)) = Ink(t)
  <1>1. PICK p \in Texts, q \in Texts :
          IsBlank(p) /\ IsBlank(q) /\ Trim(t) \in Texts /\ t = (p \o Trim(t)) \o q
    BY TrimParts
  <1>2. Ink((p \o Trim(t)) \o q) = Ink(Trim(t))
    BY <1>1, InkBetween, Zenon
  <1> QED
    BY <1>1, <1>2

-----------------------------------------------------------------------------
(* Names rewritten, part by part                                           *)

\* What the assumption says of a name.
Proper(name) ==
  /\ name \in Texts /\ Len(name) \in Nat \ {0}
  /\ name[1] \notin Blank /\ name[Len(name)] \notin Blank
  /\ \A i \in 1..Len(name) : name[i] # "\n"

LEMMA NamesArePlain ==
  ASSUME NEW i \in 1..Len(NamesToReplace)
  PROVE  Proper(NamesToReplace[i])
  <1>1. NamesToReplace \in Seq(Texts) /\ i \in DOMAIN NamesToReplace
    BY TextsAssumption
  <1> DEFINE name == NamesToReplace[i]
  <1>2. name \in Texts /\ name # <<>> /\ name[1] \notin Blank /\ name[Len(name)] \notin Blank
        /\ "\n" \notin Range(name)
    BY <1>1, TextsAssumption
  <1> HIDE DEF name
  <1>3. name \in Seq(Fragments) /\ Len(name) \in Nat /\ DOMAIN name = 1..Len(name)
    BY <1>2 DEF Texts
  <1>4. Len(name) # 0
    BY <1>2, <1>3, EmptyText
  <1>5. \A j \in 1..Len(name) : name[j] # "\n"
    BY <1>2, <1>3 DEF Range
  <1> QED
    BY <1>2, <1>3, <1>4, <1>5 DEF Proper, name

\* The last fragments of a text are those of a name.
Ends(name, t) == Len(name) <= Len(t) /\ \A j \in 1..Len(name) : name[j] = t[Len(t) - Len(name) + j]

LEMMA SuffixIs ==
  ASSUME NEW name \in Texts, NEW t \in Texts
  PROVE  IsSuffix(name, t) <=> Ends(name, t)
  <1>1. name \in Seq(Fragments) /\ t \in Seq(Fragments) /\ Len(name) \in Nat /\ Len(t) \in Nat
    BY DEF Texts
  <1> DEFINE n == Len(name)
             m == Len(t)
             u == [i \in 1..n |-> name[n - i + 1]]
             v == [i \in 1..m |-> t[m - i + 1]]
  <1>2. Reverse(name) = u /\ Reverse(t) = v
    BY <1>1 DEF Reverse
  <1>3. u \in Seq(Fragments) /\ Len(u) = n /\ v \in Seq(Fragments) /\ Len(v) = m
    <2>1. \A i \in 1..n : n - i + 1 \in 1..n
      BY <1>1
    <2>2. \A i \in 1..m : m - i + 1 \in 1..m
      BY <1>1
    <2>3. u \in [1..n -> Fragments] /\ v \in [1..m -> Fragments]
      BY <1>1, <2>1, <2>2
    <2> QED
      BY <1>1, <2>3
  <1>4. IsSuffix(name, t) <=> n <= m /\ SubSeq(u, 1, n) = SubSeq(v, 1, n)
    BY <1>2, <1>3 DEF IsSuffix, IsPrefix
  <1>5. ASSUME n <= m
        PROVE  SubSeq(u, 1, n) = SubSeq(v, 1, n) <=> \A i \in 1..n : u[i] = v[i]
    <2>1. SubSeq(u, 1, n) = [i \in 1..n |-> u[i]] /\ SubSeq(v, 1, n) = [i \in 1..n |-> v[i]]
      BY <1>1, <1>3, <1>5
    <2> HIDE DEF u, v
    <2> QED
      BY <2>1
  <1>6. ASSUME n <= m
        PROVE  (\A i \in 1..n : u[i] = v[i]) <=> \A j \in 1..n : name[j] = t[m - n + j]
    <2>1. \A i \in 1..n : i \in 1..m /\ u[i] = name[n - i + 1] /\ v[i] = t[m - i + 1]
      BY <1>1, <1>6
    <2> HIDE DEF u, v
    <2>2. ASSUME \A i \in 1..n : u[i] = v[i], NEW j \in 1..n
          PROVE  name[j] = t[m - n + j]
      <3> DEFINE i == n - j + 1
      <3>1. i \in 1..n /\ n - i + 1 = j /\ m - i + 1 = m - n + j
        BY <1>1
      <3> HIDE DEF i
      <3> QED
        BY <2>1, <2>2, <3>1
    <2>3. ASSUME \A j \in 1..n : name[j] = t[m - n + j], NEW i \in 1..n
          PROVE  u[i] = v[i]
      <3> DEFINE j == n - i + 1
      <3>1. j \in 1..n /\ m - n + j = m - i + 1
        BY <1>1
      <3> HIDE DEF j
      <3>2. name[j] = t[m - n + j] /\ u[i] = name[j] /\ v[i] = t[m - i + 1]
        BY <2>1, <2>3, <3>1 DEF j
      <3> QED
        BY <3>1, <3>2
    <2> QED
      BY <2>2, <2>3
  <1> HIDE DEF u, v
  <1> QED
    BY <1>4, <1>5, <1>6 DEF Ends

LEMMA ReplacedGrows ==
  ASSUME NEW t \in Texts, NEW w \in Fragments, NEW name, Proper(name)
  PROVE  Replaced(Append(t, w), name) = Written(Replaced(t, name), w, name)
  <1> DEFINE u == Append(t, w)
  <1>1. t \in Seq(Fragments) /\ Len(t) \in Nat
    BY DEF Texts
  <1>2. u \in Texts /\ Len(u) = Len(t) + 1 /\ u[Len(t) + 1] = w /\ \A i \in 1..Len(t) : u[i] = t[i]
    BY <1>1, Appended DEF Texts
  <1> HIDE DEF u
  <1>3. PICK f : Writes(t, name, f) /\ Replaced(t, name) = f[Len(t)]
    BY ReplacedRuns DEF Proper
  <1>4. PICK g : Writes(u, name, g) /\ Replaced(u, name) = g[Len(u)]
    BY <1>2, ReplacedRuns DEF Proper
  <1> DEFINE P == {p \in 0..Len(t) : g[p] = f[p]}
  <1>5. 0 \in P
    BY <1>1, <1>3, <1>4 DEF Writes
  <1>6. ASSUME NEW p \in 1..Len(t), p - 1 \in P
        PROVE  p \in P
    <2>1. p \in 1..Len(u) /\ u[p] = t[p] /\ g[p - 1] = f[p - 1]
      BY <1>1, <1>2, <1>6
    <2>2. g[p] = Written(g[p - 1], u[p], name) /\ f[p] = Written(f[p - 1], t[p], name)
      BY <1>3, <1>4, <2>1 DEF Writes
    <2> QED
      BY <2>1, <2>2
  <1>7. 0..Len(t) \subseteq P
    <2> HIDE DEF P
    <2> QED
      BY <1>1, <1>5, <1>6, Rounds
  <1>8. g[Len(t)] = f[Len(t)]
    BY <1>1, <1>7
  <1>9. g[Len(t) + 1] = Written(g[Len(t)], u[Len(t) + 1], name)
    <2> DEFINE m == Len(t) + 1
    <2>1. m \in 1..Len(u) /\ m - 1 = Len(t)
      BY <1>1, <1>2
    <2> HIDE DEF m
    <2>2. g[m] = Written(g[m - 1], u[m], name)
      BY <1>4, <2>1 DEF Writes
    <2>3. g[m] = Written(g[Len(t)], u[m], name)
      BY <2>1, <2>2
    <2> QED
      BY <2>3 DEF m
  <1> QED
    BY <1>2, <1>3, <1>4, <1>8, <1>9 DEF u

LEMMA ReplacedOfNone ==
  ASSUME NEW name, Proper(name)
  PROVE  Replaced(<<>>, name) = <<>>
  <1>1. PICK f : Writes(<<>>, name, f) /\ Replaced(<<>>, name) = f[Len(<<>>)]
    BY EmptyIsText, ReplacedRuns DEF Proper
  <1> QED
    BY <1>1 DEF Writes

LEMMA ReplacedIn ==
  ASSUME NEW t \in Texts, NEW name, Proper(name)
  PROVE  Replaced(t, name) \in Texts
  <1>1. name \in Texts /\ name # <<>>
    BY DEF Proper
  <1> QED
    BY <1>1, ReplacedKeeps

\* White space ends no name.
LEMMA WrittenBlank ==
  ASSUME NEW out \in Texts, NEW w \in Fragments, w \in Blank, NEW name, Proper(name)
  PROVE  Written(out, w, name) = Append(out, w)
  <1>1. Append(out, w) \in Texts /\ Append(out, w)[Len(out) + 1] = w /\ Len(Append(out, w)) = Len(out) + 1
        /\ Len(out) \in Nat
    BY DEF Texts
  <1>2. ~Ends(name, Append(out, w))
    <2> SUFFICES ASSUME Ends(name, Append(out, w))
                 PROVE  FALSE
      OBVIOUS
    <2>1. Len(name) \in 1..Len(name) /\ Len(name) \in Nat
      BY DEF Proper
    <2>2. name[Len(name)] = Append(out, w)[Len(Append(out, w)) - Len(name) + Len(name)]
      BY <2>1 DEF Ends
    <2>3. Len(Append(out, w)) - Len(name) + Len(name) = Len(out) + 1
      BY <1>1, <2>1
    <2>4. name[Len(name)] = w
      BY <1>1, <2>2, <2>3
    <2> QED
      BY <2>4 DEF Proper
  <1>3. ~IsSuffix(name, Append(out, w))
    BY <1>1, <1>2, SuffixIs DEF Proper
  <1> QED
    BY <1>3 DEF Written

\* No name begins in r and ends behind it.
Sealed(r) == r \in Texts /\ (IsBlank(r) \/ (Len(r) # 0 /\ r[Len(r)] = "\n"))

LEMMA EndsBehind ==
  ASSUME NEW r, Sealed(r), NEW y \in Texts, NEW name, Proper(name)
  PROVE  Ends(name, r \o y) <=> Ends(name, y)
  <1> DEFINE z == r \o y
             n == Len(name)
             a == Len(r)
             b == Len(y)
  <1>1. JoinIs(r, y, z) /\ r \in Seq(Fragments) /\ y \in Seq(Fragments)
    BY JoinedText, Zenon DEF Texts, Sealed
  <1>2. n \in Nat /\ n >= 1 /\ a \in Nat /\ b \in Nat
    BY <1>1 DEF Proper
  <1> HIDE DEF z, a, b
  <1>3. /\ Len(z) = a + b /\ (\A i \in 1..a : z[i] = r[i]) /\ \A i \in 1..b : z[a + i] = y[i]
    BY <1>1 DEF JoinIs, Joins, a, b
  <1>9. PICK c \in Nat : c = a + b
    BY <1>2
  <1>7. Ends(name, z) <=> n <= c /\ \A j \in 1..n : name[j] = z[c - n + j]
    <2>1. Len(z) = c
      BY <1>3, <1>9
    <2> QED
      BY <2>1, Zenon DEF Ends
  <1>8. Ends(name, y) <=> n <= b /\ \A j \in 1..n : name[j] = y[b - n + j]
    BY DEF Ends, b
  <1> HIDE DEF n
  <1>4. ASSUME n <= b
        PROVE  Ends(name, z) <=> Ends(name, y)
    <2>1. \A j \in 1..n : z[c - n + j] = y[b - n + j]
      <3> TAKE j \in 1..n
      <3> DEFINE i == b - n + j
      <3>1. i \in 1..b /\ c - n + j = a + i
        BY <1>2, <1>4, <1>9
      <3> HIDE DEF i
      <3>2. z[a + i] = y[i]
        BY <1>3, <3>1
      <3> QED
        BY <3>1, <3>2 DEF i
    <2>2. n <= c
      BY <1>2, <1>4, <1>9
    <2> QED
      BY <1>4, <1>7, <1>8, <2>1, <2>2
  <1>5. ASSUME ~(n <= b), Ends(name, z)
        PROVE  FALSE
    <2> DEFINE d == n - b
    <2>1. n <= c /\ \A j \in 1..n : name[j] = z[c - n + j]
      BY <1>5, <1>7
    <2>2. d \in 1..n /\ 1 \in 1..n /\ c - n + d = a /\ c - n + 1 = a - d + 1
          /\ a \in 1..a /\ a - d + 1 \in 1..a
      BY <1>2, <1>5, <1>9, <2>1
    <2> HIDE DEF d
    <2>3. name[1] = r[a - d + 1]
      BY <1>3, <2>1, <2>2
    <2>4. name[d] = r[a]
      BY <1>3, <2>1, <2>2
    <2>5. CASE IsBlank(r)
      <3>1. r[a - d + 1] \in Blank
        BY <1>1, <2>2, <2>5 DEF IsBlank, a
      <3> QED
        BY <2>3, <3>1 DEF Proper, n
    <2>6. CASE r[a] = "\n"
      BY <2>2, <2>4, <2>6 DEF Proper, n
    <2> QED
      BY <2>5, <2>6 DEF Sealed, a
  <1>6. Ends(name, y) => n <= b
    BY <1>8
  <1> QED
    BY <1>4, <1>5, <1>6 DEF z

\* The text before the last n fragments of one, once one more is written.
WrittenApart(r, x, w, name) == Written(r \o x, w, name) = r \o Written(x, w, name)

LEMMA FrontBehind ==
  ASSUME NEW S, NEW r \in Seq(S), NEW x \in Seq(S), NEW k \in 0..Len(x)
  PROVE  SubSeq(r \o x, 1, Len(r) + k) = r \o SubSeq(x, 1, k)
  OBVIOUS

LEMMA WrittenBehind ==
  ASSUME NEW r, Sealed(r), NEW x \in Texts, NEW w \in Fragments, NEW name, Proper(name)
  PROVE  WrittenApart(r, x, w, name)
  <1> DEFINE y == Append(x, w)
             k == Len(x) + 1 - Len(name)
             front == SubSeq(x, 1, k)
  <1>1. r \in Seq(Fragments) /\ x \in Seq(Fragments) /\ Len(r) \in Nat /\ Len(x) \in Nat
    BY DEF Sealed, Texts
  <1>2. y \in Texts /\ y \in Seq(Fragments) /\ Len(y) = Len(x) + 1
    BY <1>1 DEF Texts
  <1>3. Append(r \o x, w) = r \o y
    <2>1. AppendsBehind(r, x, w)
      BY <1>1, AppendJoined, Zenon
    <2> QED
      BY <2>1 DEF AppendsBehind
  <1>4. r \o y \in Texts
    BY <1>1, <1>2, JoinIn, Zenon DEF Texts
  <1> HIDE DEF y
  <1>5. /\ IsSuffix(name, y) <=> Ends(name, y)
        /\ IsSuffix(name, r \o y) <=> Ends(name, r \o y)
    BY <1>2, <1>4, SuffixIs DEF Proper
  <1>6. Ends(name, r \o y) <=> Ends(name, y)
    BY <1>2, EndsBehind
  <1>7. CASE Ends(name, y)
    <2>1. Len(name) <= Len(x) + 1 /\ Len(name) \in Nat \ {0}
      BY <1>2, <1>7 DEF Ends, Proper
    <2>2. k \in 0..Len(x) /\ Len(r) + Len(x) + 1 - Len(name) = Len(r) + k
      BY <1>1, <2>1
    <2>3. Len(r \o x) = Len(r) + Len(x)
      BY <1>1
    <2>4. Written(x, w, name) = Append(front, "Codex")
      BY <1>5, <1>7 DEF Written, y
    <2>5. Written(r \o x, w, name) = Append(SubSeq(r \o x, 1, Len(r \o x) + 1 - Len(name)), "Codex")
      BY <1>3, <1>5, <1>6, <1>7 DEF Written
    <2>6. Len(r \o x) + 1 - Len(name) = Len(r) + k
      BY <2>2, <2>3
    <2> HIDE DEF k
    <2>7. SubSeq(r \o x, 1, Len(r) + k) = r \o front
      BY <1>1, <2>2, FrontBehind, Zenon
    <2>8. front \in Seq(Fragments)
      BY <1>1, <2>2
    <2> HIDE DEF front
    <2>9. "Codex" \in Fragments
      BY TextsAssumption
    <2>10. AppendsBehind(r, front, "Codex")
      BY <1>1, <2>8, <2>9, AppendJoined, Zenon
    <2>11. Written(r \o x, w, name) = Append(r \o front, "Codex")
      BY <2>5, <2>6, <2>7
    <2> QED
      BY <2>4, <2>10, <2>11 DEF WrittenApart, AppendsBehind
  <1>8. CASE ~Ends(name, y)
    <2>1. Written(x, w, name) = y
      BY <1>5, <1>8 DEF Written, y
    <2>2. Written(r \o x, w, name) = r \o y
      BY <1>3, <1>5, <1>6, <1>8 DEF Written
    <2> QED
      BY <2>1, <2>2 DEF WrittenApart
  <1> QED
    BY <1>7, <1>8

\* Blank fragments behind a text stay as they are.
ReplacedBefore(t, q, name) == Replaced(t \o q, name) = Replaced(t, name) \o q

LEMMA BlankBehind ==
  ASSUME NEW t \in Texts, NEW q \in Texts, IsBlank(q), NEW name, Proper(name)
  PROVE  ReplacedBefore(t, q, name)
  <1> DEFINE A == Fragments \intersect Blank
             P == {u \in Seq(A) : ReplacedBefore(t, u, name)}
  <1>1. t \in Seq(Fragments) /\ Replaced(t, name) \in Seq(Fragments)
    BY ReplacedIn DEF Texts
  <1>2. <<>> \in P
    <2>1. t \o <<>> = t /\ Replaced(t, name) \o <<>> = Replaced(t, name)
      BY <1>1
    <2>2. ReplacedBefore(t, <<>>, name)
      BY <2>1, Zenon DEF ReplacedBefore
    <2>3. <<>> \in Seq(A)
      OBVIOUS
    <2> QED
      BY <2>2, <2>3
  <1>3. ASSUME NEW u \in P, NEW x \in A
        PROVE  Append(u, x) \in P
    <2>1. u \in Seq(A) /\ ReplacedBefore(t, u, name) /\ Append(u, x) \in Seq(A) /\ x \in Fragments /\ x \in Blank
      OBVIOUS
    <2> HIDE DEF P
    <2>2. u \in Seq(Fragments)
      BY <2>1
    <2> HIDE DEF A
    <2>3. AppendsBehind(t, u, x) /\ AppendsBehind(Replaced(t, name), u, x)
      BY <1>1, <2>1, <2>2, AppendJoined, Zenon
    <2>4. t \o u \in Texts
      BY <1>1, <2>2, JoinIn, Zenon DEF Texts
    <2>5. Replaced(Append(t \o u, x), name) = Written(Replaced(t \o u, name), x, name)
      BY <2>1, <2>4, ReplacedGrows, Zenon
    <2>6. Replaced(t \o u, name) \in Texts
      BY <2>4, ReplacedIn, Zenon
    <2>7. Written(Replaced(t \o u, name), x, name) = Append(Replaced(t \o u, name), x)
      BY <2>1, <2>6, WrittenBlank, Zenon
    <2>8. ReplacedBefore(t, Append(u, x), name)
      BY <2>1, <2>3, <2>5, <2>7, Zenon DEF ReplacedBefore, AppendsBehind
    <2> QED
      BY <2>1, <2>8 DEF P
  <1>4. P \subseteq Seq(A)
    OBVIOUS
  <1>5. P = Seq(A)
    <2> HIDE DEF P, A
    <2> QED
      BY <1>2, <1>3, <1>4, Sequences
  <1>6. q \in Seq(A)
    BY DEF Texts, IsBlank
  <1> QED
    BY <1>5, <1>6

LEMMA BlankStays ==
  ASSUME NEW q \in Texts, IsBlank(q), NEW name, Proper(name)
  PROVE  Replaced(q, name) = q
  <1>1. ReplacedBefore(<<>>, q, name)
    BY EmptyIsText, BlankBehind, Zenon
  <1>2. <<>> \o q = q
    <2>1. q \in Seq(Fragments)
      BY DEF Texts
    <2> QED
      BY <2>1
  <1> QED
    BY <1>1, <1>2, ReplacedOfNone DEF ReplacedBefore

LEMMA SealedStays ==
  ASSUME NEW r, Sealed(r), NEW name, Proper(name)
  PROVE  Sealed(Replaced(r, name))
  <1>1. CASE IsBlank(r)
    BY <1>1, BlankStays DEF Sealed
  <1>2. CASE Len(r) # 0 /\ r[Len(r)] = "\n"
    <2>1. r \in Seq(Fragments)
      BY DEF Sealed, Texts
    <2>2. PICK t \in Seq(Fragments), x \in Fragments : r = Append(t, x) /\ Len(t) = Len(r) - 1
      BY <1>2, <2>1, FrontAndLast, Zenon
    <2>3. x = "\n" /\ x \in Blank
      <3>1. Len(Append(t, x)) = Len(t) + 1 /\ Append(t, x)[Len(t) + 1] = x
        BY <2>2
      <3>2. r[Len(r)] = x
        BY <2>2, <3>1
      <3> QED
        BY <1>2, <3>2 DEF Blank
    <2>4. t \in Texts
      BY <2>2 DEF Texts
    <2>5. Replaced(r, name) = Written(Replaced(t, name), x, name)
      BY <2>2, <2>4, ReplacedGrows
    <2>6. Replaced(t, name) \in Texts
      BY <2>4, ReplacedIn
    <2>7. Replaced(r, name) = Append(Replaced(t, name), x)
      BY <2>2, <2>3, <2>5, <2>6, WrittenBlank
    <2> DEFINE v == Replaced(t, name)
    <2>8. v \in Seq(Fragments) /\ Replaced(r, name) = Append(v, x)
      BY <2>6, <2>7 DEF Texts
    <2> HIDE DEF v
    <2>9. Append(v, x) \in Seq(Fragments) /\ Len(Append(v, x)) # 0 /\ Append(v, x)[Len(Append(v, x))] = x
      BY <2>2, <2>8
    <2> QED
      BY <2>3, <2>8, <2>9 DEF Sealed, Texts
  <1> QED
    BY <1>1, <1>2 DEF Sealed

\* Behind white space that no name crosses, a text is rewritten by itself.
ReplacedApart(r, t, name) == Replaced(r \o t, name) = Replaced(r, name) \o Replaced(t, name)

LEMMA ReplacedBehind ==
  ASSUME NEW r, Sealed(r), NEW t \in Texts, NEW name, Proper(name)
  PROVE  ReplacedApart(r, t, name)
  <1> DEFINE P == {u \in Seq(Fragments) : ReplacedApart(r, u, name)}
             a == Replaced(r, name)
  <1>1. r \in Texts /\ r \in Seq(Fragments) /\ a \in Seq(Fragments) /\ Sealed(a)
    BY ReplacedIn, SealedStays DEF Texts, Sealed
  <1>2. <<>> \in P
    <2>1. r \o <<>> = r /\ a \o <<>> = a
      BY <1>1
    <2>2. Replaced(<<>>, name) = <<>>
      BY ReplacedOfNone, Zenon
    <2>3. ReplacedApart(r, <<>>, name)
      BY <2>1, <2>2, Zenon DEF ReplacedApart
    <2>4. <<>> \in Seq(Fragments)
      OBVIOUS
    <2> QED
      BY <2>3, <2>4
  <1>3. ASSUME NEW u \in P, NEW x \in Fragments
        PROVE  Append(u, x) \in P
    <2>1. u \in Seq(Fragments) /\ ReplacedApart(r, u, name) /\ Append(u, x) \in Seq(Fragments)
      OBVIOUS
    <2> HIDE DEF P
    <2>2. u \in Texts /\ r \o u \in Texts
      BY <1>1, <2>1, JoinIn, Zenon DEF Texts
    <2>3. AppendsBehind(r, u, x)
      BY <1>1, <2>1, AppendJoined, Zenon
    <2>4. Replaced(Append(r \o u, x), name) = Written(Replaced(r \o u, name), x, name)
      BY <2>2, ReplacedGrows, Zenon
    <2>5. Replaced(Append(u, x), name) = Written(Replaced(u, name), x, name)
      BY <2>2, ReplacedGrows, Zenon
    <2>6. Replaced(u, name) \in Texts
      BY <2>2, ReplacedIn, Zenon
    <2>7. WrittenApart(a, Replaced(u, name), x, name)
      BY <1>1, <2>6, WrittenBehind, Zenon
    <2>8. Replaced(r \o Append(u, x), name) = a \o Replaced(Append(u, x), name)
      BY <2>1, <2>3, <2>4, <2>5, <2>7 DEF ReplacedApart, AppendsBehind, WrittenApart
    <2> QED
      BY <2>1, <2>8 DEF P, ReplacedApart
  <1>4. P \subseteq Seq(Fragments)
    OBVIOUS
  <1>5. P = Seq(Fragments)
    <2> HIDE DEF P
    <2> QED
      BY <1>2, <1>3, <1>4, Sequences
  <1> QED
    BY <1>5 DEF Texts

\* Behind white space that no name crosses, a text is rewritten by itself.
NamesApart(r, t) == ReplaceNames(r \o t) = ReplaceNames(r) \o ReplaceNames(t)

LEMMA NamesBehind ==
  ASSUME NEW r, Sealed(r), NEW t \in Texts
  PROVE  NamesApart(r, t)
  <1> DEFINE n == Len(NamesToReplace)
  <1>1. r \in Texts /\ r \o t \in Texts /\ n \in Nat
    <2>1. r \in Texts
      BY DEF Sealed
    <2>2. r \o t \in Texts
      BY <2>1, JoinIn, Zenon DEF Texts
    <2> QED
      BY <2>1, <2>2, TextsAssumption
  <1>2. PICK f : Named(r, f) /\ ReplaceNames(r) = f[n]
    BY <1>1, NamedRuns
  <1>3. PICK g : Named(t, g) /\ ReplaceNames(t) = g[n]
    BY NamedRuns
  <1>4. PICK h : Named(r \o t, h) /\ ReplaceNames(r \o t) = h[n]
    BY <1>1, NamedRuns
  <1> DEFINE P == {p \in 0..n : Sealed(f[p]) /\ g[p] \in Texts /\ h[p] = f[p] \o g[p]}
  <1>5. 0 \in P
    BY <1>1, <1>2, <1>3, <1>4 DEF Named
  <1>6. ASSUME NEW p \in 1..n, p - 1 \in P
        PROVE  p \in P
    <2> DEFINE name == NamesToReplace[p]
    <2>1. Proper(name)
      BY <1>6, NamesArePlain
    <2>2. f[p] = Replaced(f[p - 1], name) /\ g[p] = Replaced(g[p - 1], name) /\ h[p] = Replaced(h[p - 1], name)
      BY <1>2, <1>3, <1>4, <1>6 DEF Named
    <2> HIDE DEF name
    <2>3. Sealed(f[p - 1]) /\ g[p - 1] \in Texts /\ h[p - 1] = f[p - 1] \o g[p - 1]
      BY <1>6
    <2>4. Sealed(f[p])
      BY <2>1, <2>2, <2>3, SealedStays
    <2>5. g[p] \in Texts
      BY <2>1, <2>2, <2>3, ReplacedIn
    <2>6. ReplacedApart(f[p - 1], g[p - 1], name)
      BY <2>1, <2>3, ReplacedBehind
    <2>7. h[p] = f[p] \o g[p]
      BY <2>2, <2>3, <2>6 DEF ReplacedApart
    <2>8. p \in 0..n
      BY <1>1, <1>6
    <2> QED
      BY <2>4, <2>5, <2>7, <2>8
  <1>7. 0..n \subseteq P
    <2> HIDE DEF P, n
    <2> QED
      BY <1>1, <1>5, <1>6, Rounds
  <1>8. h[n] = f[n] \o g[n]
    <2>1. n \in P
      <3> HIDE DEF P, n
      <3> QED
        BY <1>1, <1>7
    <2> QED
      BY <2>1
  <1> QED
    BY <1>2, <1>3, <1>4, <1>8 DEF NamesApart

\* White space behind a text stays as it is.
NamesFront(t, q) == ReplaceNames(t \o q) = ReplaceNames(t) \o q

LEMMA NamesBefore ==
  ASSUME NEW t \in Texts, NEW q \in Texts, IsBlank(q)
  PROVE  NamesFront(t, q)
  <1> DEFINE n == Len(NamesToReplace)
  <1>1. t \o q \in Texts /\ n \in Nat
    <2>1. t \o q \in Texts
      BY JoinIn, Zenon DEF Texts
    <2> QED
      BY <2>1, TextsAssumption
  <1>2. PICK f : Named(t, f) /\ ReplaceNames(t) = f[n]
    BY NamedRuns
  <1>3. PICK h : Named(t \o q, h) /\ ReplaceNames(t \o q) = h[n]
    BY <1>1, NamedRuns
  <1> DEFINE P == {p \in 0..n : f[p] \in Texts /\ h[p] = f[p] \o q}
  <1>4. 0 \in P
    BY <1>1, <1>2, <1>3 DEF Named
  <1>5. ASSUME NEW p \in 1..n, p - 1 \in P
        PROVE  p \in P
    <2> DEFINE name == NamesToReplace[p]
    <2>1. Proper(name)
      BY <1>5, NamesArePlain
    <2>2. f[p] = Replaced(f[p - 1], name) /\ h[p] = Replaced(h[p - 1], name)
      BY <1>2, <1>3, <1>5 DEF Named
    <2> HIDE DEF name
    <2>3. f[p - 1] \in Texts /\ h[p - 1] = f[p - 1] \o q
      BY <1>5
    <2>4. f[p] \in Texts
      BY <2>1, <2>2, <2>3, ReplacedIn
    <2>5. ReplacedBefore(f[p - 1], q, name)
      BY <2>1, <2>3, BlankBehind
    <2>6. h[p] = f[p] \o q
      BY <2>2, <2>3, <2>5 DEF ReplacedBefore
    <2>7. p \in 0..n
      BY <1>1, <1>5
    <2> QED
      BY <2>4, <2>6, <2>7
  <1>6. 0..n \subseteq P
    <2> HIDE DEF P, n
    <2> QED
      BY <1>1, <1>4, <1>5, Rounds
  <1>7. h[n] = f[n] \o q
    <2>1. n \in P
      <3> HIDE DEF P, n
      <3> QED
        BY <1>1, <1>6
    <2> QED
      BY <2>1
  <1> QED
    BY <1>2, <1>3, <1>7 DEF NamesFront

LEMMA NamesOfNothing == ReplaceNames(<<>>) = <<>>
  <1> DEFINE n == Len(NamesToReplace)
  <1>1. PICK f : Named(<<>>, f) /\ ReplaceNames(<<>>) = f[n]
    BY EmptyIsText, NamedRuns
  <1>2. n \in Nat
    BY TextsAssumption
  <1> DEFINE P == {p \in 0..n : f[p] = <<>>}
  <1>3. 0 \in P
    BY <1>1, <1>2 DEF Named
  <1>4. ASSUME NEW p \in 1..n, p - 1 \in P
        PROVE  p \in P
    <2>1. f[p] = Replaced(<<>>, NamesToReplace[p])
      BY <1>1, <1>4 DEF Named
    <2>2. f[p] = <<>>
      BY <1>4, <2>1, NamesArePlain, ReplacedOfNone
    <2> QED
      BY <1>2, <1>4, <2>2
  <1>5. 0..n \subseteq P
    <2> HIDE DEF P, n
    <2> QED
      BY <1>2, <1>3, <1>4, Rounds
  <1> QED
    BY <1>1, <1>2, <1>5

LEMMA BlankKept ==
  ASSUME NEW q \in Texts, IsBlank(q)
  PROVE  ReplaceNames(q) = q
  <1>1. NamesFront(<<>>, q)
    BY EmptyIsText, NamesBefore, Zenon
  <1>2. <<>> \o q = q
    <2>1. q \in Seq(Fragments)
      BY DEF Texts
    <2> QED
      BY <2>1
  <1> QED
    BY <1>1, <1>2, NamesOfNothing DEF NamesFront

LEMMA NamesStay ==
  ASSUME NEW t \in Texts
  PROVE  ReplaceNames(t) \in Texts
  BY NamesKeepInk

\* A text trimmed before its names are rewritten keeps its words.
LEMMA TrimKeepsNames ==
  ASSUME NEW t \in Texts
  PROVE  Ink(ReplaceNames(Trim(t))) = Ink(ReplaceNames(t))
  <1>1. PICK p \in Texts, q \in Texts :
          IsBlank(p) /\ IsBlank(q) /\ Trim(t) \in Texts /\ t = (p \o Trim(t)) \o q
    BY TrimParts
  <1> DEFINE m == Trim(t)
             a == p \o m
  <1>2. m \in Texts /\ a \in Texts
    <2>1. m \in Texts
      BY <1>1
    <2> HIDE DEF m
    <2> QED
      BY <2>1, JoinIn, Zenon DEF Texts
  <1>3. NamesFront(a, q)
    <2> HIDE DEF a
    <2> QED
      BY <1>1, <1>2, NamesBefore
  <1>4. NamesApart(p, m)
    <2>1. Sealed(p)
      BY <1>1 DEF Sealed
    <2> HIDE DEF m
    <2> QED
      BY <1>2, <2>1, NamesBehind
  <1>5. ReplaceNames(p) = p
    BY <1>1, BlankKept
  <1> DEFINE b == ReplaceNames(m)
  <1>6. ReplaceNames(t) = (p \o b) \o q
    BY <1>1, <1>3, <1>4, <1>5 DEF NamesFront, NamesApart
  <1>7. b \in Texts
    BY <1>2, NamesStay
  <1> HIDE DEF b
  <1>8. Ink((p \o b) \o q) = Ink(b)
    BY <1>1, <1>7, InkBetween, Zenon
  <1> QED
    BY <1>6, <1>8 DEF b

-----------------------------------------------------------------------------
(* The words of several texts                                              *)

InksOf == [t \in Texts |-> Ink(t)]
WordsOf == [t \in Texts |-> Ink(ReplaceNames(t))]

LEMMA InksOfFits == InksOf \in [Texts -> Seq(Fragments)] /\ WordsOf \in [Texts -> Seq(Fragments)]
  <1>1. \A t \in Texts : Ink(t) \in Seq(Fragments)
    BY InkIs DEF Texts
  <1>2. \A t \in Texts : ReplaceNames(t) \in Texts
    BY NamesKeepInk
  <1> QED
    BY <1>1, <1>2 DEF InksOf, WordsOf

LEMMA InksAre ==
  ASSUME NEW ts \in Seq(Texts)
  PROVE  Inks(ts) = Flat(InksOf, ts) /\ Inks(ts) \in Texts
  <1>1. \A i \in DOMAIN ts : ts[i] \in Texts
    OBVIOUS
  <1>2. Mapped(InksOf, ts) = Each(Ink, ts)
    BY <1>1 DEF Mapped, InksOf, Each
  <1>3. Inks(ts) = Flat(InksOf, ts)
    BY <1>2 DEF Inks, Flat
  <1>4. Flat(InksOf, ts) \in Seq(Fragments)
    BY InksOfFits, FlatIn, Zenon
  <1> QED
    BY <1>3, <1>4 DEF Texts

LEMMA WordsAre ==
  ASSUME NEW ts \in Seq(Texts)
  PROVE  Words(ts) = Flat(WordsOf, ts) /\ Words(ts) \in Texts
  <1> DEFINE us == Each(ReplaceNames, ts)
  <1>1. us \in Seq(Texts) /\ DOMAIN us = DOMAIN ts /\ \A i \in DOMAIN ts : us[i] = ReplaceNames(ts[i])
    BY EachIsSeq
  <1>2. Words(ts) = Inks(us)
    BY DEF Words
  <1> HIDE DEF us
  <1>3. \A i \in DOMAIN ts : ts[i] \in Texts
    OBVIOUS
  <1>4. Mapped(WordsOf, ts) = Each(Ink, us)
    BY <1>1, <1>3 DEF Mapped, WordsOf, Each
  <1>5. Words(ts) = Flat(WordsOf, ts)
    BY <1>2, <1>4 DEF Inks, Flat
  <1>6. Flat(WordsOf, ts) \in Seq(Fragments)
    BY InksOfFits, FlatIn, Zenon
  <1> QED
    BY <1>5, <1>6 DEF Texts

\* An empty text has no words, so it does not matter whether it is left out.
LEMMA NonEmptyKeepsWords ==
  ASSUME NEW ts \in Seq(Texts)
  PROVE  Inks(NonEmpty(ts)) = Inks(ts) /\ Words(NonEmpty(ts)) = Words(ts)
  <1> DEFINE keep == [t \in Texts |-> IF t # <<>> THEN <<t>> ELSE <<>>]
  <1>1. keep \in [Texts -> Seq(Texts)]
    <2>1. \A t \in Texts : <<t>> \in Seq(Texts) /\ <<>> \in Seq(Texts)
      OBVIOUS
    <2> QED
      BY <2>1
  <1>2. NonEmpty(ts) = Flat(keep, ts) /\ NonEmpty(ts) \in Seq(Texts)
    <2>1. \A i \in DOMAIN ts : ts[i] \in Texts
      OBVIOUS
    <2>2. Mapped(keep, ts) = [i \in DOMAIN ts |-> IF ts[i] # <<>> THEN <<ts[i]>> ELSE <<>>]
      BY <2>1 DEF Mapped
    <2>3. NonEmpty(ts) = Flat(keep, ts)
      BY <2>2 DEF NonEmpty, Kept, Flat
    <2>4. NonEmpty(ts) \in Seq(Texts)
      BY NonEmptyHas
    <2> QED
      BY <2>3, <2>4
  <1>3. keep[<<>>] = <<>> /\ \A t \in Texts : t # <<>> => keep[t] = <<t>>
    BY EmptyIsText
  <1> HIDE DEF keep
  <1>4. InksOf[<<>>] = <<>> /\ WordsOf[<<>>] = <<>>
    BY NamesOfNothing, InkNone, EmptyIsText DEF InksOf, WordsOf
  <1>5. ASSUME NEW f \in [Texts -> Seq(Fragments)], f[<<>>] = <<>>
        PROVE  Flat(f, Flat(keep, ts)) = Flat(f, ts)
    <2>1. \A t \in Texts : f[t] = Flat(f, keep[t])
      <3> TAKE t \in Texts
      <3>1. CASE t = <<>>
        BY <1>3, <1>5, <3>1, FlatNone
      <3>2. CASE t # <<>>
        <4>1. Flat(f, <<t>>) = f[t]
          BY FlatOne, Zenon
        <4> QED
          BY <1>3, <3>2, <4>1
      <3> QED
        BY <3>1, <3>2
    <2> QED
      <3>1. Nests(f, keep, f, ts)
        BY <1>1, <2>1, FlatNests, Zenon
      <3> QED
        BY <3>1 DEF Nests
  <1>6. Flat(InksOf, Flat(keep, ts)) = Flat(InksOf, ts) /\ Flat(WordsOf, Flat(keep, ts)) = Flat(WordsOf, ts)
    BY <1>4, <1>5, InksOfFits
  <1> QED
    BY <1>2, <1>6, InksAre, WordsAre

Glued(texts, separator) == [i \in DOMAIN texts |-> IF i = 1 THEN texts[i] ELSE separator \o texts[i]]

LEMMA JoinGrows ==
  ASSUME NEW ts \in Seq(Texts), NEW t \in Texts, NEW separator \in Texts
  PROVE  Join(Append(ts, t), separator)
           = IF ts = <<>> THEN t ELSE Join(ts, separator) \o (separator \o t)
  <1> DEFINE tail == IF ts = <<>> THEN t ELSE separator \o t
  <1>1. DOMAIN ts = 1..Len(ts) /\ Len(ts) \in Nat /\ \A i \in 1..Len(ts) : ts[i] \in Texts
    OBVIOUS
  <1>2. \A u \in Texts : separator \o u \in Seq(Fragments) /\ u \in Seq(Fragments)
    BY DEF Texts
  <1>3. Glued(ts, separator) \in Seq(Seq(Fragments))
    <2>1. Glued(ts, separator) \in [1..Len(ts) -> Seq(Fragments)]
      BY <1>1, <1>2 DEF Glued
    <2> QED
      BY <1>1, <2>1
  <1>4. tail \in Seq(Fragments)
    BY <1>2
  <1>5. Glued(Append(ts, t), separator) = Append(Glued(ts, separator), tail)
    <2>1. ts = <<>> <=> Len(ts) = 0
      BY EmptyText
    <2>2. /\ DOMAIN Append(ts, t) = 1..Len(ts) + 1
          /\ \A i \in 1..Len(ts) : Append(ts, t)[i] = ts[i]
          /\ Append(ts, t)[Len(ts) + 1] = t
      BY <1>1
    <2>3. /\ DOMAIN Append(Glued(ts, separator), tail) = 1..Len(ts) + 1
          /\ \A i \in 1..Len(ts) : Append(Glued(ts, separator), tail)[i]
                                     = IF i = 1 THEN ts[i] ELSE separator \o ts[i]
          /\ Append(Glued(ts, separator), tail)[Len(ts) + 1] = tail
      <3> DEFINE g == Glued(ts, separator)
      <3>1. g \in Seq(Seq(Fragments)) /\ Len(g) = Len(ts)
            /\ \A i \in 1..Len(ts) : g[i] = IF i = 1 THEN ts[i] ELSE separator \o ts[i]
        BY <1>1, <1>3 DEF Glued
      <3> HIDE DEF g, tail
      <3>2. /\ Append(g, tail) \in Seq(Seq(Fragments)) /\ Len(Append(g, tail)) = Len(ts) + 1
            /\ \A i \in 1..Len(ts) : Append(g, tail)[i] = g[i]
            /\ Append(g, tail)[Len(ts) + 1] = tail
        BY <1>4, <3>1
      <3> QED
        BY <3>1, <3>2 DEF g
    <2> DEFINE u == Glued(Append(ts, t), separator)
               v == Append(Glued(ts, separator), tail)
    <2>4. /\ u = [i \in 1..Len(ts) + 1 |-> IF i = 1 THEN Append(ts, t)[i] ELSE separator \o Append(ts, t)[i]]
      BY <2>2 DEF Glued
    <2>5. \A i \in 1..Len(ts) + 1 : u[i] = v[i]
      <3> TAKE i \in 1..Len(ts) + 1
      <3>1. CASE i \in 1..Len(ts)
        <4>1. u[i] = IF i = 1 THEN ts[i] ELSE separator \o ts[i]
          BY <2>2, <2>4, <3>1
        <4> QED
          BY <2>3, <3>1, <4>1
      <3>2. CASE i \notin 1..Len(ts)
        <4>1. i = Len(ts) + 1
          BY <1>1, <3>2
        <4>2. u[i] = IF i = 1 THEN t ELSE separator \o t
          BY <2>2, <2>4, <4>1
        <4>3. i = 1 <=> ts = <<>>
          BY <1>1, <2>1, <4>1
        <4>4. v[i] = tail
          BY <2>3, <4>1
        <4> QED
          BY <4>2, <4>3, <4>4
      <3> QED
        BY <3>1, <3>2
    <2>6. v \in Seq(Seq(Fragments)) /\ u \in Seq(Seq(Fragments)) /\ Len(v) = Len(ts) + 1 /\ Len(u) = Len(ts) + 1
      <3>1. v \in Seq(Seq(Fragments)) /\ Len(v) = Len(ts) + 1
        BY <1>1, <1>3, <1>4, <2>3
      <3>2. \A i \in 1..Len(ts) + 1 : v[i] \in Seq(Fragments)
        BY <3>1
      <3>3. u \in [1..Len(ts) + 1 -> Seq(Fragments)]
        BY <2>4, <2>5, <3>2
      <3> HIDE DEF u
      <3>4. Len(ts) + 1 \in Nat
        BY <1>1
      <3> QED
        BY <3>1, <3>3, <3>4
    <2> HIDE DEF u, v
    <2>7. u = v
      BY <2>5, <2>6, SameText, Zenon
    <2> QED
      BY <2>7 DEF u, v
  <1>6. /\ Join(ts, separator) = FlattenSeq(Glued(ts, separator))
        /\ Join(Append(ts, t), separator) = FlattenSeq(Glued(Append(ts, t), separator))
    BY DEF Join, Glued
  <1> HIDE DEF tail
  <1>7. FlattenSeq(Append(Glued(ts, separator), tail)) = FlattenSeq(Glued(ts, separator)) \o tail
    BY <1>3, <1>4, FlatAppends
  <1>8. CASE ts = <<>>
    <2>1. Join(ts, separator) = <<>>
      <3>1. Glued(<<>>, separator) = <<>> /\ FlattenSeq(<<>>) = <<>>
        BY DEF Glued, FlattenSeq
      <3> QED
        BY <1>6, <1>8, <3>1
    <2>2. <<>> \o tail = tail
      BY <1>4
    <2> QED
      BY <1>5, <1>6, <1>7, <1>8, <2>1, <2>2 DEF tail
  <1>9. CASE ts # <<>>
    BY <1>5, <1>6, <1>7, <1>9 DEF tail
  <1> QED
    BY <1>8, <1>9

LEMMA JoinOfNone ==
  ASSUME NEW separator
  PROVE  Join(<<>>, separator) = <<>>
  <1>1. Glued(<<>>, separator) = <<>> /\ FlattenSeq(<<>>) = <<>>
    BY DEF Glued, FlattenSeq
  <1>2. Join(<<>>, separator) = FlattenSeq(Glued(<<>>, separator))
    BY DEF Join, Glued
  <1> QED
    BY <1>1, <1>2

\* Joined by white space, texts keep their words.
LEMMA JoinKeepsWords ==
  ASSUME NEW separator \in Texts, IsBlank(separator), NEW ts \in Seq(Texts)
  PROVE  Ink(Join(ts, separator)) = Inks(ts)
  <1> DEFINE P == {us \in Seq(Texts) : Ink(Join(us, separator)) = Inks(us)}
  <1>1. <<>> \in P
    <2>1. <<>> \in Seq(Texts)
      OBVIOUS
    <2>2. Inks(<<>>) = <<>>
      BY <2>1, InksAre, FlatNone
    <2> QED
      BY <2>1, <2>2, JoinOfNone, InkNone
  <1>2. ASSUME NEW us \in P, NEW t \in Texts
        PROVE  Append(us, t) \in P
    <2>1. us \in Seq(Texts) /\ Ink(Join(us, separator)) = Inks(us) /\ Append(us, t) \in Seq(Texts)
      OBVIOUS
    <2> HIDE DEF P
    <2>2. Join(us, separator) \in Texts /\ Join(Append(us, t), separator)
            = IF us = <<>> THEN t ELSE Join(us, separator) \o (separator \o t)
      BY <2>1, JoinIsText, JoinGrows
    <2>3. Flat(InksOf, Append(us, t)) = Flat(InksOf, us) \o InksOf[t]
      BY <2>1, InksOfFits, FlatGrows, Zenon
    <2>4. Inks(Append(us, t)) = Inks(us) \o Ink(t)
      BY <2>1, <2>3, InksAre DEF InksOf
    <2>5. Ink(t) \in Seq(Fragments) /\ <<>> \o Ink(t) = Ink(t)
      <3>1. Ink(t) \in Seq(Fragments)
        BY InkIs DEF Texts
      <3> QED
        BY <3>1
    <2>6. CASE us = <<>>
      <3>1. Inks(us) = <<>>
        BY <2>1, <2>6, JoinOfNone, InkNone
      <3>2. Ink(Join(Append(us, t), separator)) = Inks(Append(us, t))
        BY <2>2, <2>4, <2>5, <2>6, <3>1
      <3> QED
        BY <2>1, <3>2 DEF P
    <2>7. CASE us # <<>>
      <3> DEFINE a == Join(us, separator)
                 b == separator \o t
      <3>1. a \in Texts /\ b \in Texts
        BY <2>2, JoinIn, Zenon DEF Texts
      <3> HIDE DEF a
      <3>2. InkSplits(a, b) /\ InkSplits(separator, t)
        BY <3>1, InkJoins, Zenon
      <3>3. Ink(separator) = <<>>
        BY BlankHasNone
      <3>4. Ink(b) = Ink(t)
        BY <2>5, <3>2, <3>3 DEF InkSplits
      <3> HIDE DEF b
      <3>5. Ink(a \o b) = Inks(us) \o Ink(t)
        BY <2>1, <3>2, <3>4 DEF InkSplits, a
      <3>6. Ink(Join(Append(us, t), separator)) = Inks(Append(us, t))
        BY <2>2, <2>4, <2>7, <3>5 DEF a, b
      <3> QED
        BY <2>1, <3>6 DEF P
    <2> QED
      BY <2>6, <2>7
  <1>3. P \subseteq Seq(Texts)
    OBVIOUS
  <1>4. P = Seq(Texts)
    <2> HIDE DEF P
    <2> QED
      BY <1>1, <1>2, <1>3, Sequences
  <1> QED
    BY <1>4

LEMMA LineSeals == <<"\n">> \in Texts /\ IsBlank(<<"\n">>)
  <1>1. "\n" \in Fragments /\ "\n" \in Blank
    BY TextsAssumption DEF Blank
  <1> DEFINE line == <<"\n">>
  <1>2. line \in Seq(Fragments) /\ DOMAIN line = 1..1 /\ line[1] = "\n"
    BY <1>1
  <1>3. \A i \in 1..1 : i = 1
    OBVIOUS
  <1> HIDE DEF line
  <1>4. line \in Texts /\ IsBlank(line)
    BY <1>1, <1>2, <1>3 DEF Texts, IsBlank
  <1> QED
    BY <1>4 DEF line

\* Between two texts joined by line breaks no name is found.
Break == <<"\n", "\n">>

LEMMA BreakSeals ==
  /\ Break \in Texts /\ IsBlank(Break)
  /\ \A a \in Texts : Sealed(a \o Break)
  <1>1. Break \in Seq(Fragments) /\ Len(Break) = 2 /\ Break[1] = "\n" /\ Break[2] = "\n"
        /\ DOMAIN Break = 1..2
    BY TextsAssumption DEF Break
  <1> HIDE DEF Break
  <1>2. IsBlank(Break)
    <2>1. "\n" \in Blank /\ \A i \in 1..2 : i = 1 \/ i = 2
      BY DEF Blank
    <2> QED
      BY <1>1, <2>1 DEF IsBlank
  <1>3. ASSUME NEW a \in Texts
        PROVE  Sealed(a \o Break)
    <2>1. a \in Seq(Fragments) /\ Len(a) \in Nat
      BY DEF Texts
    <2> DEFINE z == a \o Break
    <2>2. JoinIs(a, Break, z)
      BY <1>1, <2>1, JoinedText, Zenon
    <2> HIDE DEF z
    <2>3. 2 \in 1..Len(Break)
      BY <1>1
    <2>4. z \in Seq(Fragments) /\ Len(z) = Len(a) + 2 /\ z[Len(a) + 2] = "\n"
      BY <1>1, <2>2, <2>3 DEF JoinIs, Joins
    <2>5. Len(z) # 0 /\ z[Len(z)] = "\n"
      BY <2>1, <2>4
    <2> QED
      BY <2>4, <2>5 DEF Sealed, Texts, z
  <1> QED
    BY <1>1, <1>2, <1>3 DEF Texts

LEMMA JoinKeepsNames ==
  ASSUME NEW ts \in Seq(Texts)
  PROVE  Ink(ReplaceNames(Join(ts, Break))) = Words(ts)
  <1> DEFINE P == {us \in Seq(Texts) : Ink(ReplaceNames(Join(us, Break))) = Words(us)}
  <1>1. <<>> \in P
    <2>1. <<>> \in Seq(Texts)
      OBVIOUS
    <2>2. Words(<<>>) = <<>>
      BY <2>1, WordsAre, FlatNone
    <2>3. Ink(ReplaceNames(Join(<<>>, Break))) = <<>>
      BY JoinOfNone, NamesOfNothing, InkNone
    <2> QED
      BY <2>1, <2>2, <2>3
  <1>2. ASSUME NEW us \in P, NEW t \in Texts
        PROVE  Append(us, t) \in P
    <2>1. us \in Seq(Texts) /\ Ink(ReplaceNames(Join(us, Break))) = Words(us) /\ Append(us, t) \in Seq(Texts)
      OBVIOUS
    <2> HIDE DEF P
    <2>2. Join(us, Break) \in Texts /\ Join(Append(us, t), Break)
            = IF us = <<>> THEN t ELSE Join(us, Break) \o (Break \o t)
      BY <2>1, BreakSeals, JoinIsText, JoinGrows
    <2>3. Flat(WordsOf, Append(us, t)) = Flat(WordsOf, us) \o WordsOf[t]
      BY <2>1, InksOfFits, FlatGrows, Zenon
    <2> DEFINE b == ReplaceNames(t)
    <2>4. Words(Append(us, t)) = Words(us) \o Ink(b)
      BY <2>1, <2>3, WordsAre DEF WordsOf
    <2>5. b \in Texts /\ Ink(b) \in Seq(Fragments) /\ <<>> \o Ink(b) = Ink(b)
      <3>1. b \in Texts
        BY NamesStay
      <3> HIDE DEF b
      <3>2. Ink(b) \in Seq(Fragments)
        BY <3>1, InkIs DEF Texts
      <3> QED
        BY <3>1, <3>2
    <2>6. CASE us = <<>>
      <3>1. Words(us) = <<>>
        BY <2>1, <2>6, JoinOfNone, NamesOfNothing, InkNone
      <3>2. Join(Append(us, t), Break) = t
        BY <2>2, <2>6
      <3>3. Ink(ReplaceNames(Join(Append(us, t), Break))) = Words(Append(us, t))
        BY <2>4, <2>5, <3>1, <3>2
      <3> QED
        BY <2>1, <3>3 DEF P
    <2>7. CASE us # <<>>
      <3> DEFINE a == Join(us, Break)
                 c == a \o Break
                 d == ReplaceNames(a)
      <3>1. a \in Texts /\ Break \in Texts /\ IsBlank(Break) /\ d \in Texts
        BY <2>2, BreakSeals, NamesStay
      <3> HIDE DEF a, d
      <3>2. Nested(a, Break, t)
        <4>1. a \in Seq(Fragments) /\ Break \in Seq(Fragments) /\ t \in Seq(Fragments)
          BY <3>1 DEF Texts
        <4> QED
          BY <4>1, Associates, Zenon
      <3>3. Join(Append(us, t), Break) = c \o t
        BY <2>2, <2>7, <3>2 DEF Nested, a
      <3>4. Sealed(c)
        BY <3>1, BreakSeals
      <3>5. NamesApart(c, t)
        <4> HIDE DEF c
        <4> QED
          BY <3>4, NamesBehind
      <3>6. NamesFront(a, Break)
        BY <3>1, NamesBefore
      <3>7. ReplaceNames(c \o t) = (d \o Break) \o b
        BY <3>5, <3>6 DEF NamesApart, NamesFront, d
      <3>8. d \o Break \in Texts
        BY <3>1, JoinIn, Zenon DEF Texts
      <3> HIDE DEF b
      <3>9. InkSplits(d \o Break, b) /\ InkSplits(d, Break)
        BY <2>5, <3>1, <3>8, InkJoins, Zenon
      <3>10. Ink(Break) = <<>>
        BY <3>1, BlankHasNone
      <3>11. Ink(d) \o <<>> = Ink(d)
        <4>1. Ink(d) \in Seq(Fragments)
          BY <3>1, InkIs DEF Texts
        <4> QED
          BY <4>1
      <3>12. Ink((d \o Break) \o b) = Ink(d) \o Ink(b)
        BY <3>9, <3>10, <3>11 DEF InkSplits
      <3>13. Ink(d) = Words(us)
        BY <2>1 DEF d, a
      <3>14. Ink(ReplaceNames(Join(Append(us, t), Break))) = Words(Append(us, t))
        BY <2>4, <3>3, <3>7, <3>12, <3>13
      <3> QED
        BY <2>1, <3>14 DEF P
    <2> QED
      BY <2>6, <2>7
  <1>3. P \subseteq Seq(Texts)
    OBVIOUS
  <1>4. P = Seq(Texts)
    <2> HIDE DEF P
    <2> QED
      BY <1>1, <1>2, <1>3, Sequences
  <1> QED
    BY <1>4

-----------------------------------------------------------------------------
(* Chat completions: every message is heard                                *)

\* What the instructions of a chat take from a message.
Ordered(m) == IF m.role = "system" THEN Words(m.content.parts) ELSE <<>>

OrderedBy == [m \in Chats |-> Ordered(m)]
InstructedBy == [m \in Chats |-> Instruction(m)]

LEMMA OrdersKept ==
  ASSUME NEW ms \in Seq(Chats)
  PROVE  Ink(Instructions(ms)) = FlattenSeq(Each(Ordered, ms))
  <1>1. \A i \in DOMAIN ms : ms[i] \in Chats
    OBVIOUS
  <1>2. FlattenSeq(Each(Ordered, ms)) = Flat(OrderedBy, ms)
    <2>1. Mapped(OrderedBy, ms) = Each(Ordered, ms)
      BY <1>1 DEF Mapped, Each, OrderedBy
    <2> QED
      BY <2>1 DEF Flat
  <1>3. FlattenSeq(Each(Instruction, ms)) = Flat(InstructedBy, ms)
    <2>1. Mapped(InstructedBy, ms) = Each(Instruction, ms)
      BY <1>1 DEF Mapped, Each, InstructedBy
    <2> QED
      BY <2>1 DEF Flat
  <1>4. \A m \in Chats : /\ Instruction(m) \in Seq(Texts) /\ Ordered(m) \in Seq(Fragments)
                         /\ Ordered(m) = Flat(InksOf, Instruction(m))
    <2> TAKE m \in Chats
    <2> DEFINE parts == m.content.parts
               kept == NonEmpty(parts)
               text == Join(Each(ReplaceNames, kept), <<"\n">>)
    <2>1. parts \in Seq(Texts)
      BY PartsAreTexts DEF Readable
    <2> HIDE DEF parts
    <2>2. kept \in Seq(Texts) /\ Words(kept) = Words(parts)
      BY <2>1, NonEmptyHas, NonEmptyKeepsWords
    <2>3. Words(parts) \in Seq(Fragments) /\ <<>> \in Seq(Texts) /\ <<>> \in Seq(Fragments)
      BY <2>1, WordsAre DEF Texts
    <2>4. CASE ~(m.role = "system" /\ kept # <<>>)
      <3>1. Instruction(m) = <<>>
        BY <2>4 DEF Instruction, parts
      <3>2. Ordered(m) = <<>>
        <4>1. CASE m.role # "system"
          BY <4>1 DEF Ordered
        <4>2. CASE m.role = "system"
          <5>1. kept = <<>>
            BY <2>4, <4>2
          <5>2. Words(kept) = <<>>
            <6>1. <<>> \in Seq(Texts)
              BY <2>3
            <6>2. Words(<<>>) = <<>>
              BY <6>1, WordsAre, FlatNone
            <6> QED
              BY <5>1, <6>2
          <5> QED
            BY <2>2, <4>2, <5>2 DEF Ordered, parts
        <4> QED
          BY <4>1, <4>2
      <3> QED
        BY <2>3, <3>1, <3>2, FlatNone
    <2>5. CASE m.role = "system" /\ kept # <<>>
      <3>1. Instruction(m) = <<text>>
        BY <2>5 DEF Instruction, parts
      <3>2. Ordered(m) = Words(parts)
        BY <2>5 DEF Ordered, parts
      <3>3. Each(ReplaceNames, kept) \in Seq(Texts) /\ Words(kept) = Inks(Each(ReplaceNames, kept))
        BY <2>2, EachIsSeq DEF Words
      <3>4. <<"\n">> \in Texts /\ IsBlank(<<"\n">>)
        BY LineSeals
      <3> HIDE DEF kept
      <3>5. text \in Texts /\ Ink(text) = Words(kept)
        BY <3>3, <3>4, JoinKeepsWords, JoinIsText
      <3> HIDE DEF text
      <3>6. Flat(InksOf, <<text>>) = InksOf[text]
        BY <3>5, InksOfFits, FlatOne, Zenon
      <3>7. Flat(InksOf, <<text>>) = Words(parts)
        BY <2>2, <3>5, <3>6 DEF InksOf
      <3>8. <<text>> \in Seq(Texts)
        BY <3>5
      <3> QED
        BY <2>3, <3>1, <3>2, <3>7, <3>8
    <2> QED
      BY <2>4, <2>5
  <1>5. InstructedBy \in [Chats -> Seq(Texts)] /\ OrderedBy \in [Chats -> Seq(Fragments)]
    BY <1>4 DEF InstructedBy, OrderedBy
  <1>6. Nests(InksOf, InstructedBy, OrderedBy, ms)
    <2>1. \A m \in Chats : OrderedBy[m] = Flat(InksOf, InstructedBy[m])
      BY <1>4 DEF InstructedBy, OrderedBy
    <2> QED
      BY <1>5, <2>1, InksOfFits, FlatNests, Zenon
  <1> DEFINE texts == Flat(InstructedBy, ms)
  <1>7. texts \in Seq(Texts)
    BY <1>5, FlatIn, Zenon
  <1>8. Instructions(ms) = Trim(Join(texts, Break))
    BY <1>3 DEF Instructions, Break
  <1> HIDE DEF texts
  <1>9. Join(texts, Break) \in Texts /\ Ink(Join(texts, Break)) = Inks(texts)
    BY <1>7, BreakSeals, JoinKeepsWords, JoinIsText
  <1>10. Ink(Instructions(ms)) = Inks(texts)
    BY <1>8, <1>9, TrimKeepsWords
  <1>11. Inks(texts) = Flat(InksOf, texts)
    BY <1>7, InksAre
  <1> QED
    BY <1>2, <1>6, <1>10, <1>11 DEF Nests, texts

\* What is said and heard: words, and the ids of calls, under their tags.
Tags == STRING \union {"developer", "call", "item", "output"}
Sayings == Tags \X (Fragments \union STRING)

LEMMA TagsAre == STRING \subseteq Tags /\ {"developer", "call", "item", "output"} \subseteq Tags
  BY DEF Tags

Tag(role, x) == <<role, x>>

LEMMA TagFits ==
  ASSUME NEW role \in Tags, NEW x \in Fragments \union STRING
  PROVE  Tag(role, x) \in Sayings
  BY DEF Tag, Sayings

LEMMA CallTagFits ==
  ASSUME NEW role \in Tags, NEW id \in STRING
  PROVE  Tag(role, id) \in Sayings
  <1>1. id \in Fragments \union STRING
    OBVIOUS
  <1> QED
    BY <1>1, TagFits, Zenon

\* A tagged sequence, as a loop that makes one element of each.
TagOf(T, role) == [x \in T |-> Tag(role, x)]
TagsOf(T, role) == [x \in T |-> <<Tag(role, x)>>]

LEMMA TagsFit ==
  ASSUME NEW role \in Tags, NEW T, T \subseteq Fragments \union STRING
  PROVE  /\ TagOf(T, role) \in [T -> Sayings] /\ TagsOf(T, role) \in [T -> Seq(Sayings)]
         /\ Ones(T, TagOf(T, role), TagsOf(T, role))
  <1>1. \A x \in T : Tag(role, x) \in Sayings
    <2> TAKE x \in T
    <2>1. x \in Fragments \union STRING
      OBVIOUS
    <2> QED
      BY <2>1, TagFits, Zenon
  <1>2. \A x \in T : <<Tag(role, x)>> \in Seq(Sayings)
    BY <1>1, OneIn, Zenon
  <1>3. TagOf(T, role) \in [T -> Sayings]
    BY <1>1, Zenon DEF TagOf
  <1>4. TagsOf(T, role) \in [T -> Seq(Sayings)]
    BY <1>2, Zenon DEF TagsOf
  <1>5. Ones(T, TagOf(T, role), TagsOf(T, role))
    BY Zenon DEF Ones, TagOf, TagsOf
  <1> QED
    BY <1>3, <1>4, <1>5

LEMMA TaggedIs ==
  ASSUME NEW role \in Tags, NEW T, T \subseteq Fragments \union STRING, NEW s \in Seq(T)
  PROVE  /\ Tagged(role, s) = Flat(TagsOf(T, role), s)
         /\ Tagged(role, s) \in Seq(Sayings)
  <1>1. \A i \in DOMAIN s : s[i] \in T
    OBVIOUS
  <1>2. Tagged(role, s) = Mapped(TagOf(T, role), s)
    BY <1>1, Zenon DEF Tagged, Mapped, TagOf, Tag
  <1>3. /\ TagOf(T, role) \in [T -> Sayings]
        /\ TagsOf(T, role) \in [T -> Seq(Sayings)]
        /\ Ones(T, TagOf(T, role), TagsOf(T, role))
    BY TagsFit, Zenon
  <1>4. Flat(TagsOf(T, role), s) = Mapped(TagOf(T, role), s)
    <2>1. MapsTo(TagOf(T, role), TagsOf(T, role), s)
      BY <1>3, FlatOnes, Zenon
    <2> QED
      BY <2>1 DEF MapsTo
  <1>5. Mapped(TagOf(T, role), s) \in Seq(Sayings)
    BY <1>3, MappedIn, Zenon
  <1> QED
    BY <1>2, <1>4, <1>5, Zenon

LEMMA TaggedNone ==
  ASSUME NEW role
  PROVE  Tagged(role, <<>>) = <<>>
  BY DEF Tagged

LEMMA TaggedFits ==
  ASSUME NEW role \in Tags, NEW s \in Seq(Fragments)
  PROVE  Tagged(role, s) \in Seq(Sayings)
  <1>1. Fragments \subseteq Fragments \union STRING
    OBVIOUS
  <1> QED
    BY <1>1, TaggedIs, Zenon

TaggedSplits(role, s, t) == Tagged(role, s \o t) = Tagged(role, s) \o Tagged(role, t)

LEMMA TaggedJoins ==
  ASSUME NEW role \in Tags, NEW s \in Seq(Fragments), NEW t \in Seq(Fragments)
  PROVE  TaggedSplits(role, s, t)
  <1> DEFINE tags == TagsOf(Fragments, role)
  <1>1. Fragments \subseteq Fragments \union STRING
    OBVIOUS
  <1>2. tags \in [Fragments -> Seq(Sayings)]
    BY <1>1, TagsFit, Zenon
  <1>3. s \o t \in Seq(Fragments)
    BY JoinIn, Zenon
  <1>4. Tagged(role, s) = Flat(tags, s) /\ Tagged(role, t) = Flat(tags, t) /\ Tagged(role, s \o t) = Flat(tags, s \o t)
    BY <1>1, <1>3, TaggedIs, Zenon
  <1> HIDE DEF tags
  <1>5. Splits(tags, s, t)
    BY <1>2, FlatJoins, Zenon
  <1> QED
    BY <1>4, <1>5, Zenon DEF Splits, TaggedSplits

LEMMA OneText ==
  ASSUME NEW t \in Texts
  PROVE  Inks(<<t>>) = Ink(t) /\ Words(<<t>>) = Ink(ReplaceNames(t)) /\ <<t>> \in Seq(Texts)
  <1>1. <<t>> \in Seq(Texts)
    OBVIOUS
  <1>2. Flat(InksOf, <<t>>) = InksOf[t] /\ Flat(WordsOf, <<t>>) = WordsOf[t]
    BY InksOfFits, FlatOne, Zenon
  <1>3. Inks(<<t>>) = Flat(InksOf, <<t>>) /\ Words(<<t>>) = Flat(WordsOf, <<t>>)
    BY <1>1, InksAre, WordsAre, Zenon
  <1> QED
    BY <1>1, <1>2, <1>3 DEF InksOf, WordsOf

LEMMA PartsOf ==
  ASSUME NEW content \in Contents
  PROVE  /\ content.parts \in Seq(Texts)
         /\ content.form = "text" => content.parts[1] \in Texts /\ content.parts = <<content.parts[1]>>
  <1>1. content.parts \in Seq(Texts) /\ (content.form = "text" => Len(content.parts) = 1)
    BY DEF Contents
  <1> QED
    BY <1>1

\* Whether a string is trimmed or an empty item passed over, the words are there.
LEMMA SegmentsKeepWords ==
  ASSUME NEW content \in Contents
  PROVE  Segments(content) \in Seq(Texts) /\ Inks(Segments(content)) = Words(content.parts)
  <1> DEFINE parts == content.parts
             texts == IF content.form = "text" THEN <<Trim(parts[1])>> ELSE parts
  <1>1. parts \in Seq(Texts) /\ (content.form = "text" => parts[1] \in Texts /\ parts = <<parts[1]>>)
    BY PartsOf
  <1>2. texts \in Seq(Texts) /\ Words(texts) = Words(parts)
    <2>1. CASE content.form = "text"
      <3> DEFINE p == parts[1]
                 t == Trim(p)
      <3>1. p \in Texts /\ parts = <<p>> /\ texts = <<t>>
        BY <1>1, <2>1
      <3> HIDE DEF p, parts, texts
      <3>2. t \in Texts
        BY <3>1, TrimKeepsInk
      <3>3. Ink(ReplaceNames(t)) = Ink(ReplaceNames(p))
        BY <3>1, TrimKeepsNames
      <3> HIDE DEF t
      <3>4. Words(<<t>>) = Ink(ReplaceNames(t)) /\ <<t>> \in Seq(Texts)
        BY <3>2, OneText
      <3>5. Words(<<p>>) = Ink(ReplaceNames(p))
        BY <3>1, OneText
      <3> QED
        BY <3>1, <3>3, <3>4, <3>5
    <2>2. CASE content.form # "text"
      BY <1>1, <2>2
    <2> QED
      BY <2>1, <2>2
  <1>3. Segments(content) = Each(ReplaceNames, NonEmpty(texts))
    BY DEF Segments
  <1> HIDE DEF texts, parts
  <1>4. NonEmpty(texts) \in Seq(Texts) /\ Words(NonEmpty(texts)) = Words(texts)
    BY <1>2, NonEmptyHas, NonEmptyKeepsWords
  <1>5. Each(ReplaceNames, NonEmpty(texts)) \in Seq(Texts)
    BY <1>4, EachIsSeq
  <1> QED
    BY <1>2, <1>3, <1>4, <1>5 DEF Words, parts

\* The words of the output of a tool.
Shown(content) == IF content.form = "other" THEN Ink(Rendering) ELSE Inks(content.parts)

LEMMA ToolOutputKeepsWords ==
  ASSUME NEW content \in Contents
  PROVE  ToolOutput(content) \in Texts /\ Ink(ToolOutput(content)) = Shown(content)
  <1> DEFINE parts == content.parts
  <1>1. parts \in Seq(Texts) /\ (content.form = "text" => parts[1] \in Texts /\ parts = <<parts[1]>>)
    BY PartsOf
  <1>2. ToolOutput(content)
          = IF content.form = "text" THEN parts[1]
            ELSE IF content.form = "other" THEN Rendering ELSE Join(NonEmpty(parts), <<"\n">>)
    BY DEF ToolOutput
  <1>3. CASE content.form = "text"
    <2>1. Inks(<<parts[1]>>) = Ink(parts[1])
      BY <1>1, <1>3, OneText
    <2> QED
      BY <1>1, <1>2, <1>3, <2>1 DEF Shown
  <1>4. CASE content.form = "other"
    BY <1>2, <1>4, TextsAssumption DEF Shown
  <1>5. CASE content.form \notin {"text", "other"}
    <2> HIDE DEF parts
    <2>1. NonEmpty(parts) \in Seq(Texts) /\ Inks(NonEmpty(parts)) = Inks(parts)
      BY <1>1, NonEmptyHas, NonEmptyKeepsWords
    <2>2. Ink(Join(NonEmpty(parts), <<"\n">>)) = Inks(NonEmpty(parts))
      BY <2>1, LineSeals, JoinKeepsWords
    <2>3. Join(NonEmpty(parts), <<"\n">>) \in Texts
      BY <2>1, LineSeals, JoinIsText
    <2> QED
      BY <1>2, <1>5, <2>1, <2>2, <2>3 DEF parts, Shown
  <1> QED
    BY <1>3, <1>4, <1>5

\* What is said in a chat by a message the endpoint may have to drop.
Uttered(m) ==
  IF m.role \in {"user", "assistant"} \/ (m.role = "tool" /\ m.call # "") THEN Said(m) ELSE <<>>

HeardOf == [entry \in ChatEntries |-> Heard(entry)]
EntriesOf == [m \in Chats |-> Entries(m)]
UtteredOf == [m \in Chats |-> Uttered(m)]

LEMMA ChatFields ==
  ASSUME NEW m \in Chats
  PROVE  /\ m.role \in STRING /\ m.role \in Tags /\ m.content \in Contents /\ m.calls \in Seq(STRING) /\ m.call \in STRING
         /\ m.content.parts \in Seq(Texts)
  BY PartsOf, TagsAre DEF Chats

LEMMA MessageHeard ==
  ASSUME NEW m \in Chats
  PROVE  /\ Message(m.role, Segments(m.content)) \in ChatEntries
         /\ Heard(Message(m.role, Segments(m.content))) = Tagged(m.role, Words(m.content.parts))
         /\ Tagged(m.role, Words(m.content.parts)) \in Seq(Sayings)
  <1>1. m.role \in Tags /\ m.content \in Contents /\ m.content.parts \in Seq(Texts)
    BY ChatFields
  <1>2. Inks(Segments(m.content)) = Words(m.content.parts)
    BY <1>1, SegmentsKeepWords
  <1>3. Heard(Message(m.role, Segments(m.content))) = Tagged(m.role, Inks(Segments(m.content)))
    BY DEF Heard, Message, Items
  <1>4. Words(m.content.parts) \in Seq(Fragments)
    BY <1>1, WordsAre DEF Texts
  <1>5. Tagged(m.role, Words(m.content.parts)) \in Seq(Sayings)
    BY <1>1, <1>4, TaggedFits
  <1> QED
    BY <1>2, <1>3, <1>5 DEF ChatEntries

LEMMA CallHeard ==
  ASSUME NEW id \in STRING
  PROVE  Call(id) \in ChatEntries /\ Heard(Call(id)) = <<Tag("call", id)>>
  <1>1. Heard(Call(id)) = <<Tag("call", id)>>
    BY DEF Heard, Call, Tag
  <1>2. Call(id) \in ChatEntries
    BY DEF ChatEntries
  <1> QED
    BY <1>1, <1>2

LEMMA OutputHeard ==
  ASSUME NEW m \in Chats
  PROVE  LET o == Output(m.call, ToolOutput(m.content))
             said == <<<<"output", m.call>>>> \o Tagged("output", Shown(m.content))
         IN o \in ChatEntries /\ Heard(o) = said /\ said \in Seq(Sayings)
  <1> DEFINE o == Output(m.call, ToolOutput(m.content))
             tagged == Tagged("output", Shown(m.content))
  <1>1. m.call \in STRING /\ m.content \in Contents /\ m.content.parts \in Seq(Texts)
    BY ChatFields
  <1>2. Heard(o) = <<<<"output", m.call>>>> \o Tagged("output", Ink(ToolOutput(m.content)))
    BY DEF Heard, Output
  <1>3. Ink(ToolOutput(m.content)) = Shown(m.content)
    BY <1>1, ToolOutputKeepsWords
  <1>4. Shown(m.content) \in Seq(Fragments)
    <2>1. Inks(m.content.parts) \in Seq(Fragments)
      BY <1>1, InksAre DEF Texts
    <2>2. Ink(Rendering) \in Seq(Fragments)
      BY InkIs, TextsAssumption DEF Texts
    <2> QED
      BY <2>1, <2>2 DEF Shown
  <1>5. tagged \in Seq(Sayings)
    <2>1. "output" \in Tags
      BY TagsAre
    <2> QED
      BY <1>4, <2>1, TaggedFits, Zenon
  <1> HIDE DEF tagged
  <1>6. <<Tag("output", m.call)>> \in Seq(Sayings)
    <2>1. Tag("output", m.call) \in Sayings
      <3>1. "output" \in Tags
        BY TagsAre
      <3> QED
        BY <1>1, <3>1, CallTagFits, Zenon
    <2> QED
      BY <2>1, OneIn, Zenon
  <1>7. <<Tag("output", m.call)>> \o tagged \in Seq(Sayings)
    BY <1>5, <1>6, JoinIn, Zenon
  <1>8. o \in ChatEntries
    BY DEF ChatEntries
  <1> QED
    BY <1>2, <1>3, <1>7, <1>8, Zenon DEF tagged, Tag

LEMMA HeardFits ==
  /\ HeardOf \in [ChatEntries -> Seq(Sayings)]
  /\ EntriesOf \in [Chats -> Seq(ChatEntries)]
  <1>1. ASSUME NEW e \in ChatEntries
        PROVE  Heard(e) \in Seq(Sayings)
    <2>1. CASE \E m \in Chats : e = Message(m.role, Segments(m.content))
      BY <2>1, MessageHeard
    <2>2. CASE \E id \in STRING : e = Call(id)
      <3>1. PICK id \in STRING : e = Call(id)
        BY <2>2
      <3>2. Heard(e) = <<Tag("call", id)>> /\ Tag("call", id) \in Sayings
        <4>1. "call" \in Tags
          BY TagsAre
        <4> QED
          BY <3>1, <4>1, CallHeard, CallTagFits, Zenon
      <3> QED
        BY <3>2, OneIn
    <2>3. CASE \E m \in Chats : e = Output(m.call, ToolOutput(m.content))
      BY <2>3, OutputHeard
    <2> QED
      BY <2>1, <2>2, <2>3 DEF ChatEntries
  <1> QED
    BY <1>1, EntriesFit DEF HeardOf, EntriesOf

LEMMA CallsHeard ==
  ASSUME NEW calls \in Seq(STRING)
  PROVE  /\ Each(Call, calls) \in Seq(ChatEntries)
         /\ Flat(HeardOf, Each(Call, calls)) = Tagged("call", calls)
  <1> DEFINE call == [id \in STRING |-> Call(id)]
             calling == [id \in STRING |-> <<Call(id)>>]
             tags == TagsOf(STRING, "call")
  <1>1. \A i \in DOMAIN calls : calls[i] \in STRING
    OBVIOUS
  <1>2. Each(Call, calls) = Mapped(call, calls)
    BY <1>1, Zenon DEF Each, Mapped
  <1>3. \A id \in STRING : Call(id) \in ChatEntries /\ <<Call(id)>> \in Seq(ChatEntries)
    BY CallHeard, OneIn, Zenon
  <1>4. call \in [STRING -> ChatEntries] /\ calling \in [STRING -> Seq(ChatEntries)]
    BY <1>3, Zenon
  <1>5. Ones(STRING, call, calling)
    BY Zenon DEF Ones
  <1>6. "call" \in Tags /\ STRING \subseteq Fragments \union STRING
    <2>1. "call" \in Tags
      BY TagsAre
    <2>2. STRING \subseteq Fragments \union STRING
      BY Zenon
    <2> QED
      BY <2>1, <2>2
  <1>7. tags \in [STRING -> Seq(Sayings)] /\ Tagged("call", calls) = Flat(tags, calls)
    BY <1>6, TagsFit, TaggedIs, Zenon
  <1>8. \A id \in STRING : tags[id] = Flat(HeardOf, calling[id])
    <2> TAKE id \in STRING
    <2>1. Flat(HeardOf, <<Call(id)>>) = HeardOf[Call(id)]
      BY <1>3, HeardFits, FlatOne, Zenon
    <2>2. HeardOf[Call(id)] = <<Tag("call", id)>>
      BY <1>3, CallHeard, Zenon DEF HeardOf
    <2> QED
      BY <2>1, <2>2, Zenon DEF TagsOf
  <1> HIDE DEF call, calling, tags
  <1>9. Mapped(call, calls) \in Seq(ChatEntries)
    BY <1>4, MappedIn, Zenon
  <1>10. Flat(calling, calls) = Mapped(call, calls)
    <2>1. MapsTo(call, calling, calls)
      BY <1>4, <1>5, FlatOnes, Zenon
    <2> QED
      BY <2>1 DEF MapsTo
  <1>11. Nests(HeardOf, calling, tags, calls)
    BY <1>4, <1>7, <1>8, HeardFits, FlatNests, Zenon
  <1> QED
    BY <1>2, <1>7, <1>9, <1>10, <1>11, Zenon DEF Nests

LEMMA SayingHeard ==
  ASSUME NEW m \in Chats
  PROVE  /\ Saying(m) \in Seq(ChatEntries)
         /\ Flat(HeardOf, Saying(m)) = Tagged(m.role, Words(m.content.parts))
  <1> DEFINE message == Message(m.role, Segments(m.content))
  <1>1. message \in ChatEntries /\ Heard(message) = Tagged(m.role, Words(m.content.parts))
    BY MessageHeard
  <1>2. Saying(m) = IF Segments(m.content) = <<>> THEN <<>> ELSE <<message>>
    BY DEF Saying
  <1> HIDE DEF message
  <1>3. CASE Segments(m.content) = <<>>
    <2>1. Words(m.content.parts) = Inks(<<>>)
      BY <1>3, ChatFields, SegmentsKeepWords
    <2>2. Inks(<<>>) = <<>>
      <3>1. <<>> \in Seq(Texts)
        OBVIOUS
      <3> QED
        BY <3>1, InksAre, FlatNone
    <2>3. Tagged(m.role, <<>>) = <<>>
      BY TaggedNone
    <2>4. <<>> \in Seq(ChatEntries) /\ Flat(HeardOf, <<>>) = <<>>
      BY FlatNone
    <2> QED
      BY <1>2, <1>3, <2>1, <2>2, <2>3, <2>4
  <1>4. CASE Segments(m.content) # <<>>
    <2>1. Flat(HeardOf, <<message>>) = HeardOf[message]
      BY <1>1, HeardFits, FlatOne, Zenon
    <2>2. <<message>> \in Seq(ChatEntries)
      BY <1>1
    <2> QED
      BY <1>1, <1>2, <1>4, <2>1, <2>2 DEF HeardOf
  <1> QED
    BY <1>3, <1>4

LEMMA EntriesHeard ==
  ASSUME NEW m \in Chats
  PROVE  Uttered(m) = Flat(HeardOf, Entries(m)) /\ Uttered(m) \in Seq(Sayings)
  <1>1. Uttered(m) = Flat(HeardOf, Entries(m))
    <2>1. CASE m.role = "user"
      <3>1. Entries(m) = Saying(m) /\ Uttered(m) = Tagged(m.role, Words(m.content.parts))
        BY <2>1 DEF Entries, Uttered, Said
      <3> QED
        BY <3>1, SayingHeard
    <2>2. CASE m.role = "assistant"
      <3>1. /\ Entries(m) = Saying(m) \o Each(Call, m.calls)
            /\ Uttered(m) = Tagged(m.role, Words(m.content.parts)) \o Tagged("call", m.calls)
        BY <2>2 DEF Entries, Uttered, Said
      <3>2. m.calls \in Seq(STRING)
        BY ChatFields
      <3>3. /\ Each(Call, m.calls) \in Seq(ChatEntries)
            /\ Flat(HeardOf, Each(Call, m.calls)) = Tagged("call", m.calls)
        BY <3>2, CallsHeard
      <3>4. /\ Saying(m) \in Seq(ChatEntries)
            /\ Flat(HeardOf, Saying(m)) = Tagged(m.role, Words(m.content.parts))
        BY SayingHeard
      <3>5. Splits(HeardOf, Saying(m), Each(Call, m.calls))
        BY <3>3, <3>4, HeardFits, FlatJoins, Zenon
      <3> QED
        BY <3>1, <3>3, <3>4, <3>5 DEF Splits
    <2>3. CASE m.role = "tool" /\ m.call # ""
      <3> DEFINE o == Output(m.call, ToolOutput(m.content))
      <3>1. /\ Entries(m) = <<o>>
            /\ Uttered(m) = <<<<"output", m.call>>>> \o Tagged("output", Shown(m.content))
        BY <2>3 DEF Entries, Uttered, Said, Shown
      <3>2. o \in ChatEntries /\ Heard(o) = Uttered(m)
        BY <3>1, OutputHeard
      <3> HIDE DEF o
      <3>3. Flat(HeardOf, <<o>>) = HeardOf[o]
        BY <3>2, HeardFits, FlatOne, Zenon
      <3> QED
        BY <3>1, <3>2, <3>3 DEF HeardOf
    <2>4. CASE ~(m.role = "user" \/ m.role = "assistant" \/ (m.role = "tool" /\ m.call # ""))
      <3>1. Entries(m) = <<>> /\ Uttered(m) = <<>>
        BY <2>4 DEF Entries, Uttered
      <3> QED
        BY <3>1, FlatNone
    <2> QED
      BY <2>1, <2>2, <2>3, <2>4
  <1>2. Entries(m) \in Seq(ChatEntries)
    BY EntriesFit
  <1>3. Flat(HeardOf, Entries(m)) \in Seq(Sayings)
    BY <1>2, HeardFits, FlatIn, Zenon
  <1> QED
    BY <1>1, <1>3

\* All the entries together say what the messages say that are not dropped.
LEMMA ChatHeard ==
  ASSUME NEW ms \in Seq(Chats)
  PROVE  /\ FlattenSeq(Each(Entries, ms)) \in Seq(ChatEntries)
         /\ FlattenSeq(Each(Heard, FlattenSeq(Each(Entries, ms)))) = FlattenSeq(Each(Uttered, ms))
  <1> DEFINE entries == FlattenSeq(Each(Entries, ms))
  <1>1. \A i \in DOMAIN ms : ms[i] \in Chats
    OBVIOUS
  <1>2. entries = Flat(EntriesOf, ms)
    <2>1. Mapped(EntriesOf, ms) = Each(Entries, ms)
      BY <1>1 DEF Mapped, Each, EntriesOf
    <2> QED
      BY <2>1 DEF Flat
  <1>3. FlattenSeq(Each(Uttered, ms)) = Flat(UtteredOf, ms)
    <2>1. Mapped(UtteredOf, ms) = Each(Uttered, ms)
      BY <1>1 DEF Mapped, Each, UtteredOf
    <2> QED
      BY <2>1 DEF Flat
  <1>4. Flat(EntriesOf, ms) \in Seq(ChatEntries)
    BY HeardFits, FlatIn, Zenon
  <1> HIDE DEF entries
  <1>5. FlattenSeq(Each(Heard, entries)) = Flat(HeardOf, entries)
    <2>1. \A i \in DOMAIN entries : entries[i] \in ChatEntries
      BY <1>2, <1>4
    <2>2. Mapped(HeardOf, entries) = Each(Heard, entries)
      BY <2>1 DEF Mapped, Each, HeardOf
    <2> QED
      BY <2>2 DEF Flat
  <1>6. UtteredOf \in [Chats -> Seq(Sayings)] /\ \A m \in Chats : UtteredOf[m] = Flat(HeardOf, EntriesOf[m])
    BY EntriesHeard DEF UtteredOf, EntriesOf
  <1>7. Nests(HeardOf, EntriesOf, UtteredOf, ms)
    BY <1>6, HeardFits, FlatNests, Zenon
  <1> QED
    BY <1>2, <1>3, <1>4, <1>5, <1>7 DEF Nests, entries

LEMMA ThirdOn ==
  ASSUME NEW S, NEW a \in S, NEW b \in S, NEW s \in Seq(S)
  PROVE  SubSeq(<<a, b>> \o s, 3, Len(<<a, b>> \o s)) = s
  OBVIOUS

\* Nothing is made of every element.
LEMMA NothingLeft ==
  ASSUME NEW A, NEW s \in Seq(A)
  PROVE  FlattenSeq([i \in DOMAIN s |-> <<>>]) = <<>>
  <1> DEFINE f == [x \in A |-> <<>>]
             P == {u \in Seq(A) : Flat(f, u) = <<>>}
  <1>1. f \in [A -> Seq(A)]
    <2>1. <<>> \in Seq(A)
      OBVIOUS
    <2> QED
      BY <2>1
  <1>2. \A x \in A : f[x] = <<>>
    OBVIOUS
  <1>3. Flat(f, s) = FlattenSeq([i \in DOMAIN s |-> <<>>])
    <2>1. \A i \in DOMAIN s : s[i] \in A
      OBVIOUS
    <2>2. Mapped(f, s) = [i \in DOMAIN s |-> <<>>]
      BY <2>1 DEF Mapped
    <2> QED
      BY <2>2 DEF Flat
  <1> HIDE DEF f
  <1>4. <<>> \in P
    BY FlatNone
  <1>5. ASSUME NEW u \in P, NEW x \in A
        PROVE  Append(u, x) \in P
    <2>1. u \in Seq(A) /\ Flat(f, u) = <<>> /\ Append(u, x) \in Seq(A)
      OBVIOUS
    <2>2. Flat(f, Append(u, x)) = Flat(f, u) \o f[x]
      BY <1>1, <2>1, FlatGrows, Zenon
    <2>3. <<>> \o <<>> = <<>>
      OBVIOUS
    <2> QED
      BY <1>2, <2>1, <2>2, <2>3
  <1>6. P \subseteq Seq(A)
    OBVIOUS
  <1> HIDE DEF P
  <1>7. P = Seq(A)
    BY <1>4, <1>5, <1>6, Sequences
  <1> QED
    BY <1>3, <1>7 DEF P

\* What is dropped with a field that is no array.
LEMMA WithoutArray ==
  ASSUME request.messages \in Seq(Chats), ~request.asArray
  PROVE  Given(request) = <<>> /\ Orders(request.messages) = <<>> /\ Spoken(request.messages) = <<>>
  <1> DEFINE ms == request.messages
  <1>1. FlattenSeq([i \in DOMAIN ms |-> <<>>]) = <<>>
    BY NothingLeft, Zenon
  <1>2. \A i \in DOMAIN ms : Dropped(ms, i)
    BY DEF Dropped
  <1>3. Orders(ms) = FlattenSeq([i \in DOMAIN ms |-> <<>>])
    BY <1>2, Zenon DEF Orders
  <1>4. Spoken(ms) = FlattenSeq([i \in DOMAIN ms |-> <<>>])
    BY <1>2, Zenon DEF Spoken
  <1> QED
    BY <1>1, <1>3, <1>4 DEF Given

\* On chat completions it depends on a message alone whether it is dropped.
LEMMA ChatDrops ==
  ASSUME request.messages \in Seq(Chats), endpoint = "chat"
  PROVE  /\ Orders(request.messages) = FlattenSeq(Each(Ordered, Given(request)))
         /\ Spoken(request.messages) = FlattenSeq(Each(Uttered, Given(request)))
  <1> DEFINE ms == request.messages
  <1>1. CASE ~request.asArray
    <2>1. Given(request) = <<>> /\ Orders(ms) = <<>> /\ Spoken(ms) = <<>>
      BY <1>1, WithoutArray
    <2>2. Each(Ordered, <<>>) = <<>> /\ Each(Uttered, <<>>) = <<>> /\ FlattenSeq(<<>>) = <<>>
      BY DEF Each, FlattenSeq
    <2> QED
      BY <2>1, <2>2
  <1>2. CASE request.asArray
    <2>1. Given(request) = ms
      BY <1>2 DEF Given
    <2> DEFINE order(i) == IF ms[i].role = "system" /\ ~Dropped(ms, i) THEN Words(ms[i].content.parts)
                           ELSE <<>>
               spoken(i) == IF ms[i].role = "system" \/ Dropped(ms, i) THEN <<>>
                            ELSE IF endpoint = "chat" THEN Said(ms[i]) ELSE Meant(ms[i])
    <2>2. ASSUME NEW i \in DOMAIN ms
          PROVE  order(i) = Ordered(ms[i]) /\ spoken(i) = Uttered(ms[i])
      <3>1. Dropped(ms, i) <=> \/ ms[i].role \notin {"system", "user", "assistant", "tool"}
                               \/ ms[i].role = "tool" /\ ms[i].call = ""
        BY <1>2 DEF Dropped
      <3> QED
        BY <3>1 DEF Ordered, Uttered
    <2>3. Each(Ordered, ms) = [i \in DOMAIN ms |-> order(i)]
      BY <2>2 DEF Each
    <2>4. Each(Uttered, ms) = [i \in DOMAIN ms |-> spoken(i)]
      BY <2>2 DEF Each
    <2> QED
      BY <2>1, <2>3, <2>4 DEF Orders, Spoken
  <1> QED
    BY <1>1, <1>2

LEMMA ChatKept ==
  ASSUME Given(request) \in Seq(Chats), request.messages \in Seq(Chats), endpoint = "chat",
         sent = ChatBody(request)
  PROVE  ChatSaysTheRest
  <1> DEFINE ms == Given(request)
             a == Message("developer", <<InversePrompt>>)
             b == Message("developer", <<Instructions(ms)>>)
             flat == FlattenSeq(Each(Entries, ms))
             S == ChatEntries \union {a, b}
  <1>1. sent.input = <<a, b>> \o flat
    BY DEF ChatBody
  <1>2. flat \in Seq(ChatEntries) /\ FlattenSeq(Each(Heard, flat)) = FlattenSeq(Each(Uttered, ms))
    BY ChatHeard
  <1>3. ChatEntries \subseteq S /\ a \in S /\ b \in S
    OBVIOUS
  <1>4. b.content.parts = <<Instructions(ms)>>
    BY DEF Message, Items
  <1> HIDE DEF a, b, flat, S
  <1>5. flat \in Seq(S)
    BY <1>2, <1>3
  <1>6. SubSeq(<<a, b>> \o flat, 3, Len(<<a, b>> \o flat)) = flat
    BY <1>3, <1>5, ThirdOn, Zenon
  <1>7. (<<a, b>> \o flat)[2] = b
    BY <1>3, <1>5
  <1>8. Inks(<<Instructions(ms)>>) = FlattenSeq(Each(Ordered, ms))
    <2>1. Instructions(ms) \in Texts
      BY PartsAreTexts, InstructionsFit
    <2>2. Inks(<<Instructions(ms)>>) = Ink(Instructions(ms))
      BY <2>1, OneText
    <2> QED
      BY <2>2, OrdersKept
  <1> QED
    BY <1>1, <1>2, <1>4, <1>6, <1>7, <1>8, ChatDrops DEF ChatSaysTheRest

-----------------------------------------------------------------------------
(* Responses: every item is received                                       *)

LEMMA CallsFit ==
  ASSUME NEW m \in Chats
  PROVE  Calls(m) \in Seq(Sayings)
  <1>1. m.calls \in Seq(STRING) /\ m.call \in STRING
    BY ChatFields
  <1>2. Tagged("call", m.calls) \in Seq(Sayings)
    <2>1. "call" \in Tags /\ STRING \subseteq Fragments \union STRING
      BY TagsAre, Zenon
    <2> QED
      BY <1>1, <2>1, TaggedIs, Zenon
  <1>3. <<Tag("item", m.call)>> \in Seq(Sayings)
    <2>1. "item" \in Tags
      BY TagsAre
    <2>2. Tag("item", m.call) \in Sayings
      BY <1>1, <2>1, CallTagFits, Zenon
    <2> QED
      BY <2>2, OneIn, Zenon
  <1>4. <<>> \in Seq(Sayings)
    OBVIOUS
  <1>5. (IF m.call = "" THEN <<>> ELSE <<<<"item", m.call>>>>) \in Seq(Sayings)
    BY <1>3, <1>4, Zenon DEF Tag
  <1> QED
    BY <1>2, <1>5, JoinIn, Zenon DEF Calls

\* Sanitizing rewrites the names in the texts of an array and nothing else.
LEMMA SanitizedMeans ==
  ASSUME NEW m \in Chats
  PROVE  Received(Sanitized(m)) = Meant(m) /\ Meant(m) \in Seq(Sayings)
  <1>1. m.role \in Tags /\ m.content \in Contents /\ m.content.parts \in Seq(Texts)
    BY ChatFields
  <1>2. Received(Sanitized(m)) = Meant(m)
    <2>1. CASE m.content.form # "items"
      BY <2>1 DEF Sanitized, Meant
    <2>2. CASE m.content.form = "items"
      <3> DEFINE new == Each(ReplaceNames, m.content.parts)
                 s == Sanitized(m)
      <3>1. Sanitized(m) = [m EXCEPT !.content.parts = new]
        BY <2>2 DEF Sanitized
      <3>2. m \in [role : STRING, content : Contents, calls : Seq(STRING), call : STRING]
            /\ m.content \in [form : {"text", "items", "none", "other"}, parts : Seq(Texts)]
        BY DEF Chats, Contents
      <3> HIDE DEF new
      <3>3. s.role = m.role /\ s.content.parts = new /\ s.calls = m.calls /\ s.call = m.call
        BY <3>1, <3>2
      <3> HIDE DEF s
      <3>4. Calls(s) = Calls(m)
        BY <3>3 DEF Calls
      <3>5. Inks(new) = Words(m.content.parts)
        BY DEF Words, new
      <3>6. Received(s) = Tagged(m.role, Words(m.content.parts)) \o Calls(m)
        BY <3>3, <3>4, <3>5 DEF Received
      <3> QED
        BY <2>2, <3>6 DEF Meant, s
    <2> QED
      BY <2>1, <2>2
  <1>3. /\ Tagged(m.role, Inks(m.content.parts)) \in Seq(Sayings)
        /\ Tagged(m.role, Words(m.content.parts)) \in Seq(Sayings)
    <2>1. Inks(m.content.parts) \in Seq(Fragments) /\ Words(m.content.parts) \in Seq(Fragments)
      BY <1>1, InksAre, WordsAre DEF Texts
    <2> QED
      BY <1>1, <2>1, TaggedFits
  <1>4. Received(m) \in Seq(Sayings)
    BY <1>3, CallsFit, JoinIn, Zenon DEF Received
  <1>5. Tagged(m.role, Words(m.content.parts)) \o Calls(m) \in Seq(Sayings)
    BY <1>3, CallsFit, JoinIn, Zenon
  <1>6. Meant(m) \in Seq(Sayings)
    BY <1>4, <1>5, Zenon DEF Meant
  <1> QED
    BY <1>2, <1>6

LEMMA DeveloperReceived ==
  ASSUME NEW t \in Texts
  PROVE  /\ Received(Sanitized(Developer(t))) = Tagged("developer", Ink(t))
         /\ Tagged("developer", Ink(t)) \in Seq(Sayings)
  <1> DEFINE m == Developer(t)
  <1>1. /\ Sanitized(m) = m /\ m.role = "developer" /\ m.content.parts = <<t>>
        /\ m.calls = <<>> /\ m.call = ""
    BY DEF Sanitized, Developer, Text
  <1> HIDE DEF m
  <1>2. Inks(<<t>>) = Ink(t)
    BY OneText
  <1>3. Calls(m) = <<>>
    <2>1. <<>> \o <<>> = <<>>
      OBVIOUS
    <2> QED
      BY <1>1, <2>1, TaggedNone DEF Calls
  <1>4. Tagged("developer", Ink(t)) \in Seq(Sayings)
    <2>1. Ink(t) \in Seq(Fragments) /\ "developer" \in Tags
      BY InkIs, TagsAre DEF Texts
    <2> QED
      BY <2>1, TaggedFits
  <1>5. Tagged("developer", Ink(t)) \o <<>> = Tagged("developer", Ink(t))
    BY <1>4, JoinEmpty, Zenon
  <1> QED
    BY <1>1, <1>2, <1>3, <1>4, <1>5 DEF Received, m

Carried == Chats \union {Developer(t) : t \in Texts}
ReceivedOf == [m \in Carried |-> Received(Sanitized(m))]

LEMMA ReceivedFits == ReceivedOf \in [Carried -> Seq(Sayings)]
  <1>1. \A m \in Chats : Received(Sanitized(m)) \in Seq(Sayings)
    BY SanitizedMeans
  <1>2. \A t \in Texts : Received(Sanitized(Developer(t))) \in Seq(Sayings)
    BY DeveloperReceived
  <1> QED
    BY <1>1, <1>2, Zenon DEF ReceivedOf, Carried

LEMMA KeptIs ==
  ASSUME NEW ms \in Seq(Chats)
  PROVE  System(ms) \in Seq(Chats) /\ Unsystem(ms) \in Seq(Chats)
  <1> DEFINE f == [m \in Chats |-> IF m.role = "system" THEN <<m>> ELSE <<>>]
             g == [m \in Chats |-> IF m.role # "system" THEN <<m>> ELSE <<>>]
  <1>1. \A m \in Chats : <<m>> \in Seq(Chats) /\ <<>> \in Seq(Chats)
    OBVIOUS
  <1>2. f \in [Chats -> Seq(Chats)] /\ g \in [Chats -> Seq(Chats)]
    BY <1>1
  <1>3. \A i \in DOMAIN ms : ms[i] \in Chats
    OBVIOUS
  <1>4. System(ms) = Flat(f, ms) /\ Unsystem(ms) = Flat(g, ms)
    BY <1>3 DEF System, Unsystem, Kept, Flat, Mapped
  <1> HIDE DEF f, g
  <1>5. Flat(f, ms) \in Seq(Chats) /\ Flat(g, ms) \in Seq(Chats)
    BY <1>2, FlatIn, Zenon
  <1> QED
    BY <1>4, <1>5

\* The order the last system message gives.
LastOrder(messages) ==
  LET system == System(messages)
  IN IF system = <<>> \/ Last(system).content.form # "items" THEN <<>>
     ELSE Words(Last(system).content.parts)

LEMMA SystemGrows ==
  ASSUME NEW ms \in Seq(Chats), NEW m \in Chats, m.role = "system"
  PROVE  System(ms) \in Seq(Chats) /\ System(Append(ms, m)) = Append(System(ms), m)
  <1> DEFINE f == [x \in Chats |-> IF x.role = "system" THEN <<x>> ELSE <<>>]
             ns == Append(ms, m)
  <1>1. f \in [Chats -> Seq(Chats)] /\ f[m] = <<m>>
    <2>1. \A x \in Chats : <<x>> \in Seq(Chats) /\ <<>> \in Seq(Chats)
      OBVIOUS
    <2> QED
      BY <2>1
  <1>2. ns \in Seq(Chats) /\ (\A i \in DOMAIN ms : ms[i] \in Chats) /\ \A i \in DOMAIN ns : ns[i] \in Chats
    OBVIOUS
  <1> HIDE DEF ns
  <1>3. System(ms) = Flat(f, ms) /\ System(ns) = Flat(f, ns)
    BY <1>2 DEF System, Kept, Flat, Mapped
  <1> HIDE DEF f
  <1>4. Flat(f, Append(ms, m)) = Flat(f, ms) \o f[m]
    BY <1>1, FlatGrows, Zenon
  <1>5. Flat(f, ms) \in Seq(Chats)
    BY <1>1, FlatIn, Zenon
  <1>6. Append(Flat(f, ms), m) = Flat(f, ms) \o <<m>>
    BY <1>5, AppendIn, Zenon
  <1> QED
    BY <1>1, <1>3, <1>4, <1>5, <1>6 DEF ns

\* A system message in an array that no other one follows.
Lasts(ms, i) ==
  /\ ms[i].role = "system" /\ ms[i].content.form = "items"
  /\ ~(\E j \in DOMAIN ms : i < j /\ ms[j].role = "system")

LastWords(ms) == [i \in DOMAIN ms |-> IF Lasts(ms, i) THEN Words(ms[i].content.parts) ELSE <<>>]

\* Passing over the others is reading the last.
LEMMA LastOrderFound ==
  ASSUME NEW ms \in Seq(Chats)
  PROVE  FlattenSeq(LastWords(ms)) = LastOrder(ms)
  <1> DEFINE P == {s \in Seq(Chats) : FlattenSeq(LastWords(s)) = LastOrder(s)}
  <1>1. <<>> \in P
    <2>1. LastWords(<<>>) = <<>> /\ FlattenSeq(<<>>) = <<>> /\ System(<<>>) = <<>>
      BY DEF LastWords, FlattenSeq, System, Kept
    <2> QED
      BY <2>1 DEF LastOrder
  <1>2. ASSUME NEW s \in P, NEW m \in Chats
        PROVE  Append(s, m) \in P
    <2> DEFINE n == Len(s)
               t == Append(s, m)
    <2>1. s \in Seq(Chats) /\ FlattenSeq(LastWords(s)) = LastOrder(s) /\ t \in Seq(Chats)
      OBVIOUS
    <2> HIDE DEF P
    <2>2. /\ n \in Nat /\ DOMAIN s = 1..n /\ DOMAIN t = 1..(n + 1) /\ t[n + 1] = m
          /\ \A i \in 1..n : t[i] = s[i] /\ s[i] \in Chats
      BY <2>1
    <2> HIDE DEF n, t
    <2>3. \A x \in Chats : Words(x.content.parts) \in Seq(Fragments)
      <3>1. \A x \in Chats : x.content.parts \in Seq(Texts)
        BY ChatFields
      <3> QED
        BY <3>1, WordsAre DEF Texts
    <2>4. <<>> \in Seq(Fragments)
      OBVIOUS
    <2>5. CASE m.role = "system"
      <3> DEFINE none == [i \in DOMAIN s |-> <<>>]
                 word == IF m.content.form = "items" THEN Words(m.content.parts) ELSE <<>>
      <3>1. none \in Seq(Seq(Fragments)) /\ word \in Seq(Fragments)
        <4>1. none \in [1..n -> Seq(Fragments)]
          BY <2>2, <2>4
        <4> QED
          BY <2>2, <2>3, <2>4, <4>1
      <3>2. Len(none) = n
        BY <2>2
      <3>3. LastWords(t) = Append(none, word)
        <4>1. \A i \in 1..n : ~Lasts(t, i)
          BY <2>2, <2>5 DEF Lasts
        <4>2. Lasts(t, n + 1) <=> m.content.form = "items"
          BY <2>2, <2>5 DEF Lasts
        <4>3. LastWords(t) = [i \in 1..(n + 1) |-> IF i = n + 1 THEN word ELSE <<>>]
          <5>1. ASSUME NEW i \in 1..(n + 1)
                PROVE  (IF Lasts(t, i) THEN Words(t[i].content.parts) ELSE <<>>)
                         = IF i = n + 1 THEN word ELSE <<>>
            <6>1. CASE i = n + 1
              BY <2>2, <4>2, <6>1
            <6>2. CASE i # n + 1
              <7>1. i \in 1..n
                BY <2>2, <6>2
              <7> QED
                BY <4>1, <6>2, <7>1
            <6> QED
              BY <6>1, <6>2
          <5> QED
            BY <2>2, <5>1, Zenon DEF LastWords
        <4>4. Append(none, word) = [i \in 1..(n + 1) |-> IF i = n + 1 THEN word ELSE <<>>]
          BY <2>2
        <4> QED
          BY <4>3, <4>4
      <3>4. FlattenSeq(none) = <<>>
        BY <2>1, NothingLeft, Zenon
      <3> HIDE DEF none, word
      <3>5. FlattenSeq(Append(none, word)) = FlattenSeq(none) \o word
        BY <3>1, FlatAppends
      <3>6. <<>> \o word = word
        BY <3>1, JoinEmpty, Zenon
      <3>7. System(t) = Append(System(s), m) /\ System(s) \in Seq(Chats)
        BY <2>1, <2>5, SystemGrows DEF t
      <3>8. System(t) # <<>> /\ Last(System(t)) = m
        BY <3>7 DEF Last
      <3>9. LastOrder(t) = word
        BY <3>8 DEF LastOrder, word
      <3> QED
        BY <2>1, <3>3, <3>4, <3>5, <3>6, <3>9 DEF P, t
    <2>6. CASE m.role # "system"
      <3>1. LastWords(s) \in Seq(Seq(Fragments)) /\ Len(LastWords(s)) = n
        <4>1. \A i \in 1..n : (IF Lasts(s, i) THEN Words(s[i].content.parts) ELSE <<>>) \in Seq(Fragments)
          BY <2>2, <2>3, <2>4
        <4>2. LastWords(s) \in [1..n -> Seq(Fragments)]
          BY <2>2, <4>1 DEF LastWords
        <4> QED
          BY <2>2, <4>2
      <3>2. LastWords(t) = Append(LastWords(s), <<>>)
        <4>1. \A i \in 1..n : Lasts(t, i) <=> Lasts(s, i)
          BY <2>2, <2>6 DEF Lasts
        <4>2. ~Lasts(t, n + 1)
          BY <2>2, <2>6 DEF Lasts
        <4> DEFINE last(i) == IF Lasts(s, i) THEN Words(s[i].content.parts) ELSE <<>>
        <4>3. LastWords(s) = [i \in 1..n |-> last(i)]
          BY <2>2 DEF LastWords
        <4>4. LastWords(t) = [i \in 1..(n + 1) |-> IF i = n + 1 THEN <<>> ELSE last(i)]
          <5>1. ASSUME NEW i \in 1..(n + 1)
                PROVE  (IF Lasts(t, i) THEN Words(t[i].content.parts) ELSE <<>>)
                         = IF i = n + 1 THEN <<>> ELSE last(i)
            <6>1. CASE i = n + 1
              BY <4>2, <6>1
            <6>2. CASE i # n + 1
              <7>1. i \in 1..n
                BY <2>2, <6>2
              <7> QED
                BY <2>2, <4>1, <6>2, <7>1
            <6> QED
              BY <6>1, <6>2
          <5> QED
            BY <2>2, <5>1, Zenon DEF LastWords
        <4> HIDE DEF last
        <4>5. Append([i \in 1..n |-> last(i)], <<>>)
                = [i \in 1..(n + 1) |-> IF i = n + 1 THEN <<>> ELSE last(i)]
          BY <2>2
        <4> QED
          BY <4>3, <4>4, <4>5
      <3>3. /\ FlattenSeq(Append(LastWords(s), <<>>)) = FlattenSeq(LastWords(s)) \o <<>>
            /\ FlattenSeq(LastWords(s)) \in Seq(Fragments)
        BY <2>4, <3>1, FlatAppends
      <3>4. FlattenSeq(LastWords(s)) \o <<>> = FlattenSeq(LastWords(s))
        BY <3>3, JoinEmpty, Zenon
      <3>5. System(t) = System(s)
        BY <2>1, <2>6, SystemStays DEF t
      <3> QED
        BY <2>1, <3>2, <3>3, <3>4, <3>5 DEF P, LastOrder, t
    <2> QED
      BY <2>5, <2>6
  <1>3. P \subseteq Seq(Chats)
    OBVIOUS
  <1> HIDE DEF P
  <1>4. P = Seq(Chats)
    BY <1>1, <1>2, <1>3, Sequences
  <1> QED
    BY <1>4 DEF P

MeantOf == [m \in Chats |-> Meant(m)]

\* On Responses the orders that are not dropped are the last, and of the others nothing is.
LEMMA ResponsesDrop ==
  ASSUME request.messages \in Seq(Chats), endpoint = "responses"
  PROVE  /\ Orders(request.messages) = LastOrder(Given(request))
         /\ Spoken(request.messages) = FlattenSeq(Each(Meant, Unsystem(Given(request))))
  <1> DEFINE ms == request.messages
  <1>1. CASE ~request.asArray
    <2>1. Given(request) = <<>> /\ Orders(ms) = <<>> /\ Spoken(ms) = <<>>
      BY <1>1, WithoutArray
    <2>2. FlattenSeq(<<>>) = <<>>
      BY DEF FlattenSeq
    <2>3. System(<<>>) = <<>> /\ Unsystem(<<>>) = <<>> /\ Each(Meant, <<>>) = <<>>
      BY <2>2 DEF System, Unsystem, Kept, Each
    <2> QED
      BY <2>1, <2>2, <2>3 DEF LastOrder
  <1>2. CASE request.asArray
    <2>1. Given(request) = ms
      BY <1>2 DEF Given
    <2>2. \A i \in DOMAIN ms : ms[i] \in Chats
      OBVIOUS
    <2> HIDE DEF ms
    <2>3. Orders(ms) = FlattenSeq(LastWords(ms))
      <3>1. \A i \in DOMAIN ms : ms[i].role = "system" /\ ~Dropped(ms, i) <=> Lasts(ms, i)
        BY <1>2 DEF Dropped, Lasts
      <3> QED
        BY <3>1, Zenon DEF Orders, LastWords
    <2>4. FlattenSeq(LastWords(ms)) = LastOrder(ms)
      BY LastOrderFound DEF ms
    <2> DEFINE g == [m \in Chats |-> IF m.role # "system" THEN <<m>> ELSE <<>>]
               h == [m \in Chats |-> IF m.role # "system" THEN Meant(m) ELSE <<>>]
    <2>5. Unsystem(ms) = Flat(g, ms)
      BY <2>2 DEF Unsystem, Kept, Flat, Mapped
    <2>6. Spoken(ms) = Flat(h, ms)
      <3>1. \A i \in DOMAIN ms : Dropped(ms, i) => ms[i].role = "system"
        BY <1>2 DEF Dropped
      <3> DEFINE meant(i) == IF ms[i].role # "system" THEN Meant(ms[i]) ELSE <<>>
                 spoken(i) == IF ms[i].role = "system" \/ Dropped(ms, i) THEN <<>>
                              ELSE IF endpoint = "chat" THEN Said(ms[i]) ELSE Meant(ms[i])
      <3>2. \A i \in DOMAIN ms : spoken(i) = meant(i)
        BY <3>1
      <3>3. Spoken(ms) = FlattenSeq([i \in DOMAIN ms |-> meant(i)])
        BY <3>2, Zenon DEF Spoken
      <3>4. Mapped(h, ms) = [i \in DOMAIN ms |-> meant(i)]
        BY <2>2 DEF Mapped
      <3> QED
        BY <3>3, <3>4 DEF Flat
    <2>7. MeantOf \in [Chats -> Seq(Sayings)]
      BY SanitizedMeans DEF MeantOf
    <2>8. g \in [Chats -> Seq(Chats)]
      <3>1. \A m \in Chats : <<m>> \in Seq(Chats) /\ <<>> \in Seq(Chats)
        OBVIOUS
      <3> QED
        BY <3>1
    <2>9. h \in [Chats -> Seq(Sayings)]
      <3>1. <<>> \in Seq(Sayings)
        OBVIOUS
      <3> QED
        BY <3>1, SanitizedMeans
    <2>10. \A m \in Chats : h[m] = Flat(MeantOf, g[m])
      <3> TAKE m \in Chats
      <3>1. Flat(MeantOf, <<m>>) = MeantOf[m]
        BY <2>7, FlatOne, Zenon
      <3>2. MeantOf[m] = Meant(m)
        BY DEF MeantOf
      <3>3. Flat(MeantOf, <<>>) = <<>>
        BY FlatNone
      <3>4. h[m] = (IF m.role # "system" THEN Meant(m) ELSE <<>>) /\ g[m] = IF m.role # "system" THEN <<m>> ELSE <<>>
        BY Zenon
      <3> QED
        BY <3>1, <3>2, <3>3, <3>4, Zenon
    <2> HIDE DEF g, h
    <2>11. ms \in Seq(Chats)
      BY DEF ms
    <2>12. Nests(MeantOf, g, h, ms)
      BY <2>7, <2>8, <2>9, <2>10, <2>11, FlatNests, Zenon
    <2>13. Flat(MeantOf, Unsystem(ms)) = FlattenSeq(Each(Meant, Unsystem(ms)))
      <3>1. Unsystem(ms) \in Seq(Chats)
        BY <2>11, KeptIs
      <3> DEFINE rest == Unsystem(ms)
      <3> HIDE DEF rest
      <3>2. \A i \in DOMAIN rest : rest[i] \in Chats
        BY <3>1 DEF rest
      <3>3. Mapped(MeantOf, rest) = Each(Meant, rest)
        BY <3>2 DEF Mapped, Each, MeantOf
      <3> QED
        BY <3>3 DEF Flat, rest
    <2> QED
      BY <2>1, <2>3, <2>4, <2>5, <2>6, <2>12, <2>13 DEF Nests, ms
  <1> QED
    BY <1>1, <1>2

\* The words of the last order, whatever is left out of it.
LEMMA LastOrderIs ==
  ASSUME Given(request) \in Seq(Chats)
  PROVE  /\ SystemText(Given(request)) \in Texts
         /\ Ink(ReplaceNames(SystemText(Given(request)))) = LastOrder(Given(request))
         /\ LastOrder(Given(request)) \in Seq(Fragments)
  <1> DEFINE ms == Given(request)
             system == System(ms)
             last == Last(system)
             parts == last.content.parts
             none == system = <<>> \/ last.content.form # "items"
  <1>1. /\ SystemText(ms) = IF none THEN <<>> ELSE Join(NonEmpty(parts), Break)
        /\ LastOrder(ms) = IF none THEN <<>> ELSE Words(parts)
    BY DEF SystemText, LastOrder, Break
  <1>2. CASE none
    <2>1. Ink(ReplaceNames(<<>>)) = <<>> /\ <<>> \in Texts /\ <<>> \in Seq(Fragments)
      BY NamesOfNothing, InkNone, EmptyIsText DEF Texts
    <2> QED
      BY <1>1, <1>2, <2>1
  <1>3. CASE ~none
    <2>1. system \in Seq(Chats) /\ system # <<>>
      BY <1>3, KeptIs
    <2> HIDE DEF system
    <2>2. last \in Chats
      <3>1. Len(system) # 0 /\ Len(system) \in Nat
        BY <2>1, EmptyText
      <3>2. Len(system) \in 1..Len(system)
        BY <3>1
      <3>3. system[Len(system)] \in Chats
        BY <2>1, <3>2
      <3> QED
        BY <3>3 DEF Last
    <2> HIDE DEF last
    <2>3. parts \in Seq(Texts)
      BY <2>2, ChatFields
    <2> HIDE DEF parts
    <2>4. NonEmpty(parts) \in Seq(Texts) /\ Words(NonEmpty(parts)) = Words(parts)
      BY <2>3, NonEmptyHas, NonEmptyKeepsWords
    <2>5. Ink(ReplaceNames(Join(NonEmpty(parts), Break))) = Words(parts)
      BY <2>4, JoinKeepsNames
    <2>6. Join(NonEmpty(parts), Break) \in Texts
      BY <2>4, BreakSeals, JoinIsText
    <2>7. Words(parts) \in Seq(Fragments)
      BY <2>3, WordsAre DEF Texts
    <2> HIDE DEF none
    <2> QED
      BY <1>1, <1>3, <2>5, <2>6, <2>7
  <1> QED
    BY <1>2, <1>3

LEMMA ResponsesKept ==
  ASSUME Given(request) \in Seq(Chats), request.messages \in Seq(Chats), endpoint = "responses",
         request.instructions \in Texts, sent = ResponsesBody(request)
  PROVE  ResponsesSayTheRest
  <1> DEFINE ms == Given(request)
             system == SystemText(ms)
             own == Trim(request.instructions)
             moved == Moved(own, system)
             rest == Unsystem(ms)
             both == moved \o rest
             dev(t) == Tagged("developer", t)
             order == Ink(ReplaceNames(system))
             tail == Flat(ReceivedOf, rest)
             front == Flat(ReceivedOf, moved)
             first == Ink(sent.instructions)
  <1>1. /\ sent.instructions = IF own # <<>> THEN own ELSE ReplaceNames(system)
        /\ sent.input = Each(Sanitized, both)
    BY DEF ResponsesBody
  <1>2. /\ system \in Texts /\ order = LastOrder(ms) /\ order \in Seq(Fragments)
        /\ ReplaceNames(system) \in Texts
    <2>1. system \in Texts /\ order = LastOrder(ms) /\ order \in Seq(Fragments)
      BY LastOrderIs
    <2> HIDE DEF system
    <2> QED
      BY <2>1, NamesStay
  <1>3. own \in Texts /\ Ink(own) = Ink(request.instructions) /\ Ink(own) \in Seq(Fragments)
    <2>1. own \in Texts
      BY TrimParts
    <2> QED
      BY <2>1, TrimKeepsWords, InkIs DEF Texts
  <1> HIDE DEF system, own
  <1>4. rest \in Seq(Chats) /\ rest \in Seq(Carried)
    <2>1. rest \in Seq(Chats)
      BY KeptIs
    <2>2. Chats \subseteq Carried
      BY DEF Carried
    <2> HIDE DEF rest
    <2> QED
      BY <2>1, <2>2
  <1>5. moved \in Seq(Carried)
    <2>1. Developer(ReplaceNames(system)) \in Carried
      BY <1>2 DEF Carried
    <2> QED
      BY <2>1, MovedIsSeq
  <1>6. front = IF own # <<>> /\ system # <<>> THEN dev(order) ELSE <<>>
    <2> DEFINE d == Developer(ReplaceNames(system))
    <2>1. moved = IF own # <<>> /\ system # <<>> THEN <<d>> ELSE <<>>
      BY DEF Moved
    <2>2. d \in Carried /\ Received(Sanitized(d)) = dev(order)
      BY <1>2, DeveloperReceived DEF Carried
    <2> HIDE DEF d
    <2>3. Flat(ReceivedOf, <<d>>) = ReceivedOf[d]
      BY <2>2, ReceivedFits, FlatOne, Zenon
    <2>4. Flat(ReceivedOf, <<d>>) = dev(order)
      BY <2>2, <2>3 DEF ReceivedOf
    <2> HIDE DEF moved, dev, order
    <2> QED
      BY <2>1, <2>4, FlatNone
  <1>7. tail = FlattenSeq(Each(Meant, rest))
    <2>1. \A i \in DOMAIN rest : rest[i] \in Chats /\ rest[i] \in Carried
      BY <1>4
    <2> HIDE DEF rest
    <2>2. \A i \in DOMAIN rest : ReceivedOf[rest[i]] = Meant(rest[i])
      BY <2>1, SanitizedMeans DEF ReceivedOf
    <2>3. Mapped(ReceivedOf, rest) = Each(Meant, rest)
      BY <2>2 DEF Mapped, Each
    <2> QED
      BY <2>3 DEF Flat
  <1> HIDE DEF moved, rest
  <1>8. FlattenSeq(Each(Received, sent.input)) = front \o tail
    <2>1. both \in Seq(Carried)
      BY <1>4, <1>5, JoinIn, Zenon
    <2>2. Splits(ReceivedOf, moved, rest)
      BY <1>4, <1>5, ReceivedFits, FlatJoins, Zenon
    <2> HIDE DEF both
    <2>3. \A i \in DOMAIN both : both[i] \in Carried
      BY <2>1
    <2>4. Each(Received, Each(Sanitized, both)) = Mapped(ReceivedOf, both)
      BY <2>3 DEF Each, Mapped, ReceivedOf
    <2> QED
      BY <1>1, <2>2, <2>4 DEF Splits, Flat, both
  <1>9. tail \in Seq(Sayings)
    BY <1>4, ReceivedFits, FlatIn, Zenon
  <1>10. "developer" \in Tags
    BY TagsAre
  <1>11. /\ dev(order) \in Seq(Sayings) /\ dev(Ink(own)) \in Seq(Sayings)
         /\ TaggedSplits("developer", Ink(own), order)
    BY <1>2, <1>3, <1>10, TaggedFits, TaggedJoins
  <1>12. first = IF own # <<>> THEN Ink(own) ELSE order
    BY <1>1
  <1> HIDE DEF tail, front, order, first
  <1>13. <<>> \o tail = tail
    BY <1>9, JoinEmpty, Zenon
  <1>14. dev(first) \o (front \o tail) = dev(Ink(own) \o order) \o tail
    <2>1. CASE own # <<>> /\ system # <<>>
      <3>1. Nested(dev(Ink(own)), dev(order), tail)
        BY <1>9, <1>11, Associates, Zenon
      <3> QED
        BY <1>6, <1>11, <1>12, <2>1, <3>1 DEF Nested, TaggedSplits
    <2>2. CASE own # <<>> /\ system = <<>>
      <3>1. order = <<>>
        BY <2>2, NamesOfNothing, InkNone DEF order
      <3>2. Ink(own) \o <<>> = Ink(own)
        BY <1>3, JoinEmpty, Zenon
      <3> QED
        BY <1>6, <1>12, <1>13, <2>2, <3>1, <3>2
    <2>3. CASE own = <<>>
      <3>1. Ink(own) = <<>>
        BY <2>3, InkNone
      <3>2. <<>> \o order = order
        BY <1>2, JoinEmpty, Zenon
      <3> QED
        BY <1>6, <1>12, <1>13, <2>3, <3>1, <3>2
    <2> QED
      BY <2>1, <2>2, <2>3
  <1> QED
    BY <1>2, <1>3, <1>7, <1>8, <1>14, ResponsesDrop DEF ResponsesSayTheRest, first, rest

\* The messages Dropped names - all of a field that is no array, those of an unknown role
\* and the outputs of no call on chat completions, the system messages on Responses that
\* are followed by another or hold no array - are all that is lost.  Whatever mixture of
\* strings, items, empty texts, calls and outputs the others are, and wherever they
\* stand, no word of them is lost, doubled or put elsewhere on the way to the upstream:
\* the texts that are joined, trimmed, passed over or moved to a message of their own
\* keep their words, and since no name begins or ends with white space or crosses a line,
\* rewriting a joined text is rewriting its parts (request.rs:30-39, 366-440, 548-606).
THEOREM WordsKept == Spec => []OnlyTheDroppedIsLost
  <1>1. ConversationInv => OnlyTheDroppedIsLost
    <2> SUFFICES ASSUME ConversationInv
                 PROVE  OnlyTheDroppedIsLost
      OBVIOUS
    <2>1. /\ Given(request) \in Seq(Chats) /\ request.messages \in Seq(Chats)
          /\ sent = Body(request) /\ request.instructions \in Texts
          /\ endpoint \in {"chat", "responses"}
      <3>1. /\ request.instructions \in Instructions0 /\ sent = Body(request)
            /\ endpoint \in {"chat", "responses"}
        BY DEF ConversationInv, Requests
      <3> QED
        BY <3>1, GivenFits, PartsAreTexts
    <2>2. CASE endpoint = "chat"
      <3>1. sent = ChatBody(request)
        BY <2>1, <2>2 DEF Body
      <3>2. ChatSaysTheRest
        BY <2>1, <2>2, <3>1, ChatKept
      <3> QED
        BY <2>2, <3>2 DEF OnlyTheDroppedIsLost
    <2>3. CASE endpoint # "chat"
      <3>1. sent = ResponsesBody(request) /\ endpoint = "responses"
        BY <2>1, <2>3 DEF Body
      <3>2. ResponsesSayTheRest
        BY <2>1, <3>1, ResponsesKept
      <3> QED
        BY <2>3, <3>2 DEF OnlyTheDroppedIsLost
    <2> QED
      BY <2>2, <2>3
  <1> QED
    BY <1>1, ConversationInvAlways, PTL
=============================================================================
