----------------------------- MODULE StreamProofs -----------------------------
(***************************************************************************)
(* Proofs about ResponseStream, for streams of any length, of any number   *)
(* of responses and tool calls: its types, that the chunks a client has    *)
(* read add up to what the model has said of every call so far             *)
(* (Translated), and that the buffered answer is what the events with a    *)
(* sequence number said (Accumulating).                                    *)
(***************************************************************************)
EXTENDS ResponseStream, FiniteSetTheorems, SequenceTheorems, TLAPS

-----------------------------------------------------------------------------
(* Folds, of no frame, one and two                                         *)

LEMMA FoldNone ==
  ASSUME NEW acc PROVE FoldLeft(Accumulate, acc, <<>>) = acc
  <1> DEFINE Step(iter) == [s \in SUBSET (DOMAIN <<>>) |-> IF s = {} THEN acc
               ELSE Accumulate(iter[s \ {Max(s)}], <<>>[Max(s)])]
             it == CHOOSE iter : iter = Step(iter)
             g == [s \in SUBSET (DOMAIN <<>>) |-> acc]
  <1>1. FoldLeft(Accumulate, acc, <<>>) = it[DOMAIN <<>>]
    BY DEF FoldLeft, MapThenFoldSet
  <1>2. DOMAIN <<>> = {}
    OBVIOUS
  <1>3. g = Step(g)
    BY <1>2
  <1>4. it = Step(it)
    BY <1>3
  <1>5. QED
    BY <1>1, <1>2, <1>4

LEMMA FoldTwo ==
  ASSUME NEW acc, NEW f, NEW h
  PROVE  FoldLeft(Accumulate, acc, <<f, h>>) = Accumulate(Accumulate(acc, f), h)
  <1> DEFINE D == DOMAIN <<f, h>>
             Step(iter) == [s \in SUBSET (DOMAIN <<f, h>>) |-> IF s = {} THEN acc
               ELSE Accumulate(iter[s \ {Max(s)}], <<f, h>>[Max(s)])]
             it == CHOOSE iter : iter = Step(iter)
             one == Accumulate(acc, f)
             g == [s \in SUBSET (DOMAIN <<f, h>>) |->
                     IF s = {} THEN acc
                     ELSE IF s = {1} THEN one
                     ELSE IF s = {2} THEN Accumulate(acc, h)
                     ELSE Accumulate(one, h)]
  <1>1. FoldLeft(Accumulate, acc, <<f, h>>) = it[DOMAIN <<f, h>>]
    BY DEF FoldLeft, MapThenFoldSet
  <1>2. DOMAIN <<f, h>> = {1, 2} /\ <<f, h>>[1] = f /\ <<f, h>>[2] = h
    OBVIOUS
  <1>3. Max({1}) = 1 /\ Max({2}) = 2 /\ Max({1, 2}) = 2
    BY DEF Max
  <1>4. SUBSET {1, 2} = {{}, {1}, {2}, {1, 2}}
    <2>1. ASSUME NEW s \in SUBSET {1, 2} PROVE s \in {{}, {1}, {2}, {1, 2}}
      <3>1. CASE 1 \in s /\ 2 \in s
        BY <3>1
      <3>2. CASE 1 \in s /\ 2 \notin s
        BY <3>2
      <3>3. CASE 1 \notin s /\ 2 \in s
        BY <3>3
      <3>4. CASE 1 \notin s /\ 2 \notin s
        BY <3>4
      <3>5. QED
        BY <3>1, <3>2, <3>3, <3>4
    <2>2. QED
      BY <2>1
  <1>5. g = Step(g)
    <2>1. g[{}] = acc /\ g[{1}] = one /\ g[{2}] = Accumulate(acc, h) /\ g[{1, 2}] = Accumulate(one, h)
      BY <1>2
    <2>2. \A s \in SUBSET (DOMAIN <<f, h>>) :
            g[s] = IF s = {} THEN acc ELSE Accumulate(g[s \ {Max(s)}], <<f, h>>[Max(s)])
      <3>1. {1} \ {1} = {} /\ {2} \ {2} = {} /\ {1, 2} \ {2} = {1}
        OBVIOUS
      <3>2. /\ g[{1}] = Accumulate(g[{1} \ {1}], f)
            /\ g[{2}] = Accumulate(g[{2} \ {2}], h)
            /\ g[{1, 2}] = Accumulate(g[{1, 2} \ {2}], h)
        BY <2>1, <3>1
      <3> HIDE DEF g, one
      <3>3. TAKE s \in SUBSET (DOMAIN <<f, h>>)
      <3>4. s \in {{}, {1}, {2}, {1, 2}}
        BY <1>2, <1>4
      <3>5. QED
        BY <1>2, <1>3, <2>1, <3>2, <3>4
    <2>3. QED
      BY <2>2
  <1>6. it = Step(it)
    BY <1>5
  <1>7. it[{}] = acc
    BY <1>2, <1>6
  <1> HIDE DEF it
  <1>8. it[{1}] = one
    <2>1. {1} \ {1} = {} /\ {1} # {} /\ {1} \in SUBSET {1, 2}
      OBVIOUS
    <2>2. it[{1}] = Accumulate(it[{1} \ {1}], <<f, h>>[1])
      BY <1>2, <1>3, <1>6, <2>1
    <2>3. QED
      BY <1>2, <1>7, <2>1, <2>2
  <1>9. it[{1, 2}] = Accumulate(one, h)
    <2>1. {1, 2} \ {2} = {1} /\ {1, 2} # {} /\ {1, 2} \in SUBSET {1, 2}
      OBVIOUS
    <2>2. QED
      BY <1>2, <1>3, <1>6, <1>8, <2>1
  <1>10. QED
    BY <1>1, <1>2, <1>9 DEF it

LEMMA FoldOne ==
  ASSUME NEW acc, NEW f
  PROVE  FoldLeft(Accumulate, acc, <<f>>) = Accumulate(acc, f)
  <1> DEFINE Step(iter) == [s \in SUBSET (DOMAIN <<f>>) |-> IF s = {} THEN acc
               ELSE Accumulate(iter[s \ {Max(s)}], <<f>>[Max(s)])]
             it == CHOOSE iter : iter = Step(iter)
             g == [s \in SUBSET (DOMAIN <<f>>) |-> IF s = {} THEN acc ELSE Accumulate(acc, f)]
  <1>1. FoldLeft(Accumulate, acc, <<f>>) = it[DOMAIN <<f>>]
    BY DEF FoldLeft, MapThenFoldSet
  <1>2. DOMAIN <<f>> = {1} /\ <<f>>[1] = f
    OBVIOUS
  <1>3. Max({1}) = 1
    BY DEF Max
  <1>4. {1} \ {1} = {} /\ {1} # {} /\ \A s \in SUBSET {1} : s # {} => s = {1}
    OBVIOUS
  <1>5. g = Step(g)
    <2>1. g[{}] = acc
      OBVIOUS
    <2>2. \A s \in SUBSET (DOMAIN <<f>>) :
            g[s] = IF s = {} THEN acc ELSE Accumulate(g[s \ {Max(s)}], <<f>>[Max(s)])
      BY <1>2, <1>3, <1>4, <2>1
    <2>3. QED
      BY <2>2
  <1>6. it = Step(it)
    BY <1>5
  <1> HIDE DEF it
  <1>7. it[{}] = acc
    BY <1>2, <1>6
  <1>8. it[{1}] = Accumulate(acc, f)
    BY <1>2, <1>3, <1>4, <1>6, <1>7
  <1>9. QED
    BY <1>1, <1>2, <1>8 DEF it
-----------------------------------------------------------------------------
(* One more event *)

LEMMA Appended ==
  ASSUME NEW s \in Seq(Events), NEW e \in Events
  PROVE  /\ Append(s, e) \in Seq(Events)
         /\ Len(s) \in Nat /\ DOMAIN s = 1..Len(s)
         /\ Len(Append(s, e)) = Len(s) + 1
         /\ DOMAIN Append(s, e) = 1..(Len(s) + 1)
         /\ \A p \in 1..Len(s) : Append(s, e)[p] = s[p]
         /\ Append(s, e)[Len(s) + 1] = e
  OBVIOUS

LEMMA AppendedSame ==
  ASSUME NEW s \in Seq(Events), NEW e \in Events
  PROVE  /\ \A p \in Nat, q \in 1..Len(s) :
              SameResponse(Append(s, e), p, q) <=> SameResponse(s, p, q)
         /\ \A p \in 1..Len(s) :
              SameResponse(Append(s, e), p, Len(s) + 1)
                <=> e.kind # "created" /\ SameResponse(s, p, Len(s))
         /\ \A n \in Nat : SameResponse(Append(s, e), n, n)
  BY Appended DEF SameResponse

\* What is said of the events so far stays true of them.
LEMMA AppendedOld ==
  ASSUME NEW s \in Seq(Events), NEW e \in Events, NEW p \in 1..Len(s)
  PROVE  /\ Announces(Append(s, e), p) <=> Announces(s, p)
         /\ Known(Append(s, e), p) <=> Known(s, p)
         /\ Speaks(Append(s, e), p) <=> Speaks(s, p)
         /\ Place(Append(s, e), p) = Place(s, p)
  <1> DEFINE t == Append(s, e)
  <1>1. /\ Len(s) \in Nat
        /\ \A q \in 1..Len(s) : t[q] = s[q]
        /\ \A q \in 1..Len(s), r \in 1..Len(s) : SameResponse(t, q, r) <=> SameResponse(s, q, r)
    BY Appended, AppendedSame
  <1> HIDE DEF t
  <1>2. \A q \in 1..Len(s) : Announces(t, q) <=> Announces(s, q)
    BY <1>1 DEF Announces
  <1>3. Known(t, p) <=> Known(s, p)
    BY <1>1, <1>2 DEF Known
  <1>4. Speaks(t, p) <=> Speaks(s, p)
    BY <1>1, <1>3 DEF Speaks
  <1>5. Place(t, p) = Place(s, p)
    <2>1. {q \in 1..(p - 1) : Announces(t, q) /\ SameResponse(t, q, p)}
            = {q \in 1..(p - 1) : Announces(s, q) /\ SameResponse(s, q, p)}
      BY <1>1, <1>2
    <2>2. QED
      BY <2>1 DEF Place
  <1>6. QED
    BY <1>2, <1>3, <1>4, <1>5 DEF t

\* The announcements of the response that goes on.
Announced(s) == {p \in DOMAIN s : Announces(s, p) /\ SameResponse(s, p, Len(s))}

LEMMA AnnouncedFinite ==
  ASSUME NEW s \in Seq(Events)
  PROVE  IsFiniteSet(Announced(s)) /\ Cardinality(Announced(s)) \in Nat
  <1>1. Len(s) \in Nat /\ DOMAIN s = 1..Len(s)
    OBVIOUS
  <1>2. IsFiniteSet(1..Len(s)) /\ Announced(s) \in SUBSET (1..Len(s))
    BY <1>1, FS_Interval DEF Announced
  <1>3. QED
    BY <1>2, FS_Subset, FS_CardinalityType

\* What a transformer knows of the response that goes on.
Follows(s, st) ==
  /\ \A i \in Items : st.index[i] # NoIndex <=> \E p \in Announced(s) : s[p].item = i
  /\ \A p \in Announced(s) : st.index[s[p].item] = Place(s, p)
  /\ st.nextIndex = Cardinality(Announced(s))
  /\ \A i \in Items : st.index[i] < st.nextIndex
  /\ \A i, j \in Items : st.index[i] = st.index[j] /\ st.index[i] # NoIndex => i = j
  /\ \A p \in DOMAIN s : s[p].kind = "added" /\ SameResponse(s, p, Len(s)) =>
       st.index[s[p].item] # NoIndex
  /\ st.sawTools <=> \E p \in DOMAIN s : s[p].kind = "added" /\ SameResponse(s, p, Len(s))
  /\ st.role <=> \E p \in DOMAIN s : Speaks(s, p) /\ SameResponse(s, p, Len(s))

\* What the new event says.
LEMMA AppendedNew ==
  ASSUME NEW s \in Seq(Events), NEW e \in Events, NEW st \in Transformers, Follows(s, st)
  PROVE  /\ Announces(Append(s, e), Len(s) + 1) <=> e.kind = "added" /\ st.index[e.item] = NoIndex
         /\ e.kind = "args" =>
              (Known(Append(s, e), Len(s) + 1) <=> st.index[e.item] # NoIndex)
         /\ Place(Append(s, e), Len(s) + 1) =
              IF e.kind = "created" THEN 0 ELSE Cardinality(Announced(s))
         /\ Announced(Append(s, e)) =
              IF e.kind = "created" THEN {}
              ELSE IF e.kind = "added" /\ st.index[e.item] = NoIndex
              THEN Announced(s) \union {Len(s) + 1}
              ELSE Announced(s)
  <1> DEFINE t == Append(s, e)
             n == Len(s) + 1
  <1>1. /\ Len(s) \in Nat /\ DOMAIN s = 1..Len(s) /\ DOMAIN t = 1..n /\ Len(t) = n /\ t[n] = e
        /\ \A q \in 1..Len(s) : t[q] = s[q]
        /\ \A q \in 1..Len(s) : Announces(t, q) <=> Announces(s, q)
        /\ \A q \in 1..Len(s) :
             SameResponse(t, q, n) <=> e.kind # "created" /\ SameResponse(s, q, Len(s))
        /\ SameResponse(t, n, n)
    BY Appended, AppendedSame, AppendedOld
  <1>2. e.kind \in ItemKinds <=> e.item \in Items
    BY DEF Events
  <1> HIDE DEF t
  <1>3. Announces(t, n) <=> e.kind = "added" /\ st.index[e.item] = NoIndex
    <2>1. CASE e.kind # "added"
      BY <1>1, <2>1 DEF Announces
    <2>2. CASE e.kind = "added"
      <3>1. e.item \in Items
        BY <1>2, <2>2 DEF ItemKinds
      <3>2. Announces(t, n) <=>
              \A q \in 1..Len(s) : SameResponse(s, q, Len(s)) => ~(s[q].kind = "added" /\ s[q].item = e.item)
        BY <1>1, <2>2 DEF Announces
      <3>3. st.index[e.item] # NoIndex => \E p \in Announced(s) : s[p].item = e.item
        BY <3>1 DEF Follows
      <3>4. \A p \in Announced(s) : p \in 1..Len(s) /\ SameResponse(s, p, Len(s)) /\ s[p].kind = "added"
        BY <1>1 DEF Announced, Announces
      <3>5. \A q \in 1..Len(s) : s[q].kind = "added" /\ SameResponse(s, q, Len(s)) => st.index[s[q].item] # NoIndex
        BY <1>1 DEF Follows
      <3>6. QED
        BY <2>2, <3>2, <3>3, <3>4, <3>5
    <2>3. QED
      BY <2>1, <2>2
  <1>4. ASSUME e.kind = "args" PROVE Known(t, n) <=> st.index[e.item] # NoIndex
    <2>1. e.item \in Items
      BY <1>2, <1>4 DEF ItemKinds
    <2>2. Known(t, n) <=> \E q \in 1..Len(s) : Announces(s, q) /\ s[q].item = e.item /\ SameResponse(s, q, Len(s))
      BY <1>1, <1>4 DEF Known
    <2>3. st.index[e.item] # NoIndex <=> \E p \in Announced(s) : s[p].item = e.item
      BY <2>1 DEF Follows
    <2>4. QED
      BY <1>1, <2>2, <2>3 DEF Announced
  <1>5. Place(t, n) = IF e.kind = "created" THEN 0 ELSE Cardinality(Announced(s))
    <2>1. {q \in 1..(n - 1) : Announces(t, q) /\ SameResponse(t, q, n)}
            = IF e.kind = "created" THEN {} ELSE Announced(s)
      BY <1>1 DEF Announced
    <2>2. QED
      BY <2>1, FS_EmptySet DEF Place
  <1>6. Announced(t) = IF e.kind = "created" THEN {}
                       ELSE IF e.kind = "added" /\ st.index[e.item] = NoIndex
                       THEN Announced(s) \union {n} ELSE Announced(s)
    BY <1>1, <1>3 DEF Announced
  <1>7. QED
    BY <1>3, <1>4, <1>5, <1>6 DEF t

\* An announcement gives its item the next index.
Opens(st, e) == e.kind = "added" /\ st.index[e.item] = NoIndex

\* The state Transform leaves, field by field.
LEMMA TransformState ==
  ASSUME NEW st \in Transformers, NEW e \in Events, NEW u, u = Transform(st, e).st
  PROVE  /\ u \in Transformers
         /\ e.kind = "created" => u = New
         /\ e.kind # "created" =>
              /\ u.index = IF Opens(st, e) THEN [st.index EXCEPT ![e.item] = st.nextIndex] ELSE st.index
              /\ u.nextIndex = IF Opens(st, e) THEN st.nextIndex + 1 ELSE st.nextIndex
              /\ u.sawTools <=> st.sawTools \/ e.kind = "added"
              /\ u.role <=> \/ st.role
                            \/ e.kind \in {"text", "reasoning", "added"}
                            \/ e.kind = "args" /\ st.index[e.item] # NoIndex
  <1>1. /\ e.kind \in Kinds /\ (e.kind \in ItemKinds => e.item \in Items)
        /\ st.index \in [Items -> Nat \union {NoIndex}] /\ st.nextIndex \in Nat
        /\ st.role \in BOOLEAN /\ st.sawTools \in BOOLEAN
    BY DEF Events, Transformers
  <1>2. CASE e.kind = "created"
    BY <1>2 DEF Transform, Created, Silent, New, Transformers
  <1>3. CASE e.kind \in {"text", "reasoning"}
    BY <1>1, <1>3 DEF Transform, WithRole, Emitted, Transformers, Opens
  <1>4. CASE e.kind = "added"
    <2>1. e.item \in Items
      BY <1>1, <1>4 DEF ItemKinds
    <2>2. u = [Indexed(st, e.item) EXCEPT !.role = TRUE]
      BY <1>4 DEF Transform, Added, WithRole, Emitted
    <2>3. CASE st.index[e.item] # NoIndex
      BY <1>1, <1>4, <2>1, <2>2, <2>3 DEF Indexed, Transformers, Opens
    <2>4. CASE st.index[e.item] = NoIndex
      <3>1. u = [st EXCEPT !.index = [st.index EXCEPT ![e.item] = st.nextIndex],
                           !.nextIndex = st.nextIndex + 1, !.sawTools = TRUE, !.role = TRUE]
        BY <2>2, <2>4 DEF Indexed, Transformers
      <3>2. [st.index EXCEPT ![e.item] = st.nextIndex] \in [Items -> Nat \union {NoIndex}]
        BY <1>1
      <3>3. u \in Transformers
        <4>1. st.nextIndex + 1 \in Nat /\ DOMAIN st = {"role", "index", "nextIndex", "sawTools"}
          BY <1>1 DEF Transformers
        <4>2. u = [role |-> TRUE, index |-> [st.index EXCEPT ![e.item] = st.nextIndex],
                   nextIndex |-> st.nextIndex + 1, sawTools |-> TRUE]
          BY <3>1 DEF Transformers
        <4>3. QED
          BY <3>2, <4>1, <4>2 DEF Transformers
      <3>4. /\ u.index = [st.index EXCEPT ![e.item] = st.nextIndex]
            /\ u.nextIndex = st.nextIndex + 1 /\ u.sawTools = TRUE /\ u.role = TRUE
        BY <3>1 DEF Transformers
      <3>5. QED
        BY <1>4, <2>4, <3>3, <3>4 DEF Opens
    <2>5. QED
      BY <2>3, <2>4
  <1>5. CASE e.kind = "args"
    BY <1>1, <1>5 DEF Transform, Arguments, Silent, WithRole, Emitted, Transformers, Opens
  <1>6. CASE e.kind = "completed"
    BY <1>1, <1>6 DEF Transform, Completed, Emitted, Opens
  <1>7. CASE e.kind \in {"failed", "incomplete", "error", "chunk", "other", "empty", "[DONE]",
                         "garbage", "untyped", "untypedChunk"}
    BY <1>1, <1>7 DEF Transform, Silent, Opens
  <1>8. QED
    BY <1>1, <1>2, <1>3, <1>4, <1>5, <1>6, <1>7 DEF Kinds

LEMMA TransformIndex ==
  ASSUME NEW st \in Transformers, NEW e \in Events, e.kind # "created",
         NEW u, u = Transform(st, e).st
  PROVE  u.index = IF Opens(st, e) THEN [st.index EXCEPT ![e.item] = st.nextIndex] ELSE st.index
  BY TransformState

LEMMA FollowsNothing == Follows(<<>>, New)
  <1>1. Announced(<<>>) = {}
    BY DEF Announced
  <1>2. QED
    BY <1>1, FS_EmptySet DEF Follows, New, NoIndex

\* Each event keeps the transformer in step with its response.
LEMMA FollowsOn ==
  ASSUME NEW s \in Seq(Events), NEW e \in Events, NEW st \in Transformers, Follows(s, st),
         NEW u, u = Transform(st, e).st
  PROVE  Follows(Append(s, e), u)
  <1> DEFINE t == Append(s, e)
             n == Len(s) + 1
  <1>1. /\ Len(s) \in Nat /\ DOMAIN s = 1..Len(s) /\ DOMAIN t = 1..n /\ Len(t) = n /\ t[n] = e
        /\ \A q \in 1..Len(s) : t[q] = s[q]
        /\ \A q \in 1..Len(s) :
             SameResponse(t, q, n) <=> e.kind # "created" /\ SameResponse(s, q, Len(s))
        /\ SameResponse(t, n, n)
    BY Appended, AppendedSame
  <1>2. \A q \in 1..Len(s) : (Speaks(t, q) <=> Speaks(s, q)) /\ Place(t, q) = Place(s, q)
    BY AppendedOld
  <1>3. /\ Place(t, n) = IF e.kind = "created" THEN 0 ELSE Cardinality(Announced(s))
        /\ Announced(t) = IF e.kind = "created" THEN {}
                          ELSE IF Opens(st, e) THEN Announced(s) \union {n} ELSE Announced(s)
        /\ e.kind = "args" => (Known(t, n) <=> st.index[e.item] # NoIndex)
    BY AppendedNew DEF Opens
  <1>4. /\ u \in Transformers /\ Announced(s) \in SUBSET (1..Len(s))
        /\ st.index \in [Items -> Nat \union {NoIndex}] /\ st.nextIndex \in Nat
        /\ st.role \in BOOLEAN /\ st.sawTools \in BOOLEAN
        /\ u.index \in [Items -> Nat \union {NoIndex}] /\ u.role \in BOOLEAN /\ u.sawTools \in BOOLEAN
    BY TransformState, <1>1 DEF Transformers, Announced
  <1>5. e.kind \in ItemKinds => e.item \in Items
    BY DEF Events
  <1>10. /\ NoIndex \in Int /\ NoIndex < 0
    BY DEF NoIndex
  <1>11. st.nextIndex \in Nat /\ \A i \in Items : st.index[i] \in Int
    BY <1>4, <1>10
  <1>6. \A p \in 1..Len(s) : s[p] \in Events
    BY <1>1
  <1>7. CASE e.kind = "created"
    <2>1. Announced(t) = {}
      BY <1>3, <1>7
    <2>5. u = New
      BY <1>7, TransformState
    <2>2. ~Speaks(t, n)
      BY <1>1, <1>7 DEF Speaks
    <2>3. /\ ~\E p \in DOMAIN t : t[p].kind = "added" /\ SameResponse(t, p, Len(t))
          /\ ~\E p \in DOMAIN t : Speaks(t, p) /\ SameResponse(t, p, Len(t))
      BY <1>1, <1>7, <2>2
    <2> HIDE DEF t
    <2>6. /\ \A i \in Items : u.index[i] = NoIndex /\ NoIndex < u.nextIndex
          /\ u.nextIndex = 0 /\ u.sawTools = FALSE /\ u.role = FALSE
      BY <2>5, <1>10 DEF New
    <2>7. \A p \in DOMAIN t : ~(t[p].kind = "added" /\ SameResponse(t, p, Len(t)))
      BY <2>3
    <2>4. Follows(t, u)
      BY <2>1, <2>3, <2>6, <2>7, FS_EmptySet DEF Follows
    <2>8. QED
      BY <2>4 DEF t
  <1>8. CASE e.kind # "created"
    <2>1. /\ u.index = IF Opens(st, e) THEN [st.index EXCEPT ![e.item] = st.nextIndex] ELSE st.index
          /\ u.nextIndex = IF Opens(st, e) THEN st.nextIndex + 1 ELSE st.nextIndex
          /\ u.sawTools <=> st.sawTools \/ e.kind = "added"
          /\ u.role <=> \/ st.role
                        \/ e.kind \in {"text", "reasoning", "added"}
                        \/ e.kind = "args" /\ st.index[e.item] # NoIndex
      BY <1>8, TransformState
    <2>2. Opens(st, e) => e.item \in Items
      BY <1>5 DEF Opens, ItemKinds
    <2>3. Announced(t) = IF Opens(st, e) THEN Announced(s) \union {n} ELSE Announced(s)
      BY <1>3, <1>8
    <2> HIDE DEF t
    <2>4. \A i \in Items : u.index[i] # NoIndex <=> \E p \in Announced(t) : t[p].item = i
      <3>1. \A i \in Items : st.index[i] # NoIndex <=> \E p \in Announced(s) : s[p].item = i
        BY DEF Follows
      <3>2. QED
        <4>1. \A p \in Announced(s) : p \in 1..n /\ t[p] = s[p]
          BY <1>1, <1>4
        <4>2. CASE Opens(st, e)
          <5>1. u.index[e.item] = st.nextIndex /\ st.nextIndex # NoIndex /\ t[n].item = e.item
            BY <1>1, <1>4, <1>10, <2>1, <2>2, <4>2
          <5>2. \A i \in Items : i # e.item => u.index[i] = st.index[i]
            BY <1>4, <2>1, <4>2
          <5>3. \A i \in Items : (\E p \in Announced(t) : t[p].item = i)
                                    <=> i = e.item \/ \E p \in Announced(s) : s[p].item = i
            BY <2>3, <4>1, <4>2, <5>1
          <5>4. TAKE i \in Items
          <5>5. CASE i = e.item
            BY <5>1, <5>3, <5>5
          <5>6. CASE i # e.item
            BY <3>1, <5>2, <5>3, <5>6
          <5>7. QED
            BY <5>5, <5>6
        <4>3. CASE ~Opens(st, e)
          <5>1. u.index = st.index /\ Announced(t) = Announced(s)
            BY <2>1, <2>3, <4>3
          <5>2. QED
            BY <3>1, <4>1, <5>1
        <4>4. QED
          BY <4>2, <4>3
    <2>5. \A p \in Announced(t) : u.index[t[p].item] = Place(t, p)
      <3>1. \A p \in Announced(s) : st.index[s[p].item] = Place(s, p) /\ st.index[s[p].item] # NoIndex
        <4>1. \A p \in Announced(s) : s[p].item \in Items
          BY <1>1, <1>6 DEF Announced, Announces, Events, ItemKinds
        <4>2. QED
          BY <4>1 DEF Follows
      <3>2. st.nextIndex = Cardinality(Announced(s))
        BY DEF Follows
      <3>3. \A p \in Announced(s) : u.index[s[p].item] = st.index[s[p].item]
        BY <1>4, <2>1, <2>2, <3>1 DEF Opens
      <3>4. Opens(st, e) => u.index[e.item] = Place(t, n)
        BY <1>3, <1>4, <1>8, <2>1, <2>2, <3>2
      <3>5. QED
        BY <1>1, <1>2, <1>4, <2>3, <3>1, <3>3, <3>4
    <2>6. u.nextIndex = Cardinality(Announced(t))
      <3>1. st.nextIndex = Cardinality(Announced(s))
        BY DEF Follows
      <3>2. IsFiniteSet(Announced(s)) /\ Cardinality(Announced(s)) \in Nat
        BY AnnouncedFinite
      <3>3. n \notin Announced(s)
        BY <1>1, <1>4
      <3>4. Cardinality(Announced(s) \union {n}) = Cardinality(Announced(s)) + 1
        BY <3>2, <3>3, FS_AddElement
      <3>5. QED
        BY <2>1, <2>3, <3>1, <3>4
    <2>7. \A i \in Items : u.index[i] < u.nextIndex
      <3>1. \A i \in Items : st.index[i] < st.nextIndex
        BY DEF Follows
      <3>2. QED
        <4>1. CASE Opens(st, e)
          <5>1. \A i \in Items : u.index[i] = st.index[i] \/ u.index[i] = st.nextIndex
            BY <1>4, <2>1, <4>1
          <5>2. u.nextIndex = st.nextIndex + 1
            BY <2>1, <4>1
          <5>3. TAKE i \in Items
          <5>4. /\ st.index[i] < st.nextIndex /\ st.index[i] \in Int /\ st.nextIndex \in Nat
                /\ u.index[i] = st.index[i] \/ u.index[i] = st.nextIndex
            BY <1>11, <3>1, <5>1
          <5>5. QED
            BY <5>2, <5>4
        <4>2. CASE ~Opens(st, e)
          BY <2>1, <3>1, <4>2
        <4>3. QED
          BY <4>1, <4>2
    <2>8. \A i, j \in Items : u.index[i] = u.index[j] /\ u.index[i] # NoIndex => i = j
      <3>1. /\ \A i \in Items : st.index[i] < st.nextIndex
            /\ \A i, j \in Items : st.index[i] = st.index[j] /\ st.index[i] # NoIndex => i = j
        BY DEF Follows
      <3>2. CASE Opens(st, e)
        <4>1. u.index = [st.index EXCEPT ![e.item] = st.nextIndex]
          BY <2>1, <3>2
        <4>2. \A i \in Items : st.index[i] # st.nextIndex
          <5>1. TAKE i \in Items
          <5>2. st.index[i] < st.nextIndex /\ st.index[i] \in Int /\ st.nextIndex \in Nat
            BY <1>11, <3>1
          <5>3. QED
            BY <5>2
        <4>3. QED
          BY <1>4, <2>2, <3>1, <3>2, <4>1, <4>2
      <3>3. CASE ~Opens(st, e)
        BY <2>1, <3>1, <3>3
      <3>4. QED
        BY <3>2, <3>3
    <2>9. \A p \in DOMAIN t : t[p].kind = "added" /\ SameResponse(t, p, Len(t)) => u.index[t[p].item] # NoIndex
      <3>1. \A p \in 1..Len(s) : s[p].kind = "added" /\ SameResponse(s, p, Len(s)) =>
              s[p].item \in Items /\ st.index[s[p].item] # NoIndex
        BY <1>1, <1>6 DEF Follows, Events, ItemKinds
      <3>2. \A i \in Items : st.index[i] # NoIndex => u.index[i] # NoIndex
        BY <1>4, <2>1, <2>2 DEF Opens
      <3>3. e.kind = "added" => u.index[e.item] # NoIndex
        BY <1>4, <1>5, <2>1, <2>2 DEF Opens, NoIndex
      <3>4. QED
        BY <1>1, <3>1, <3>2, <3>3
    <2>10. u.sawTools <=> \E p \in DOMAIN t : t[p].kind = "added" /\ SameResponse(t, p, Len(t))
      <3>1. st.sawTools <=> \E p \in 1..Len(s) : s[p].kind = "added" /\ SameResponse(s, p, Len(s))
        BY <1>1 DEF Follows
      <3>2. QED
        BY <1>1, <1>8, <2>1, <3>1
    <2>11. u.role <=> \E p \in DOMAIN t : Speaks(t, p) /\ SameResponse(t, p, Len(t))
      <3>1. st.role <=> \E p \in 1..Len(s) : Speaks(s, p) /\ SameResponse(s, p, Len(s))
        BY <1>1 DEF Follows
      <3>2. Speaks(t, n) <=> \/ e.kind \in {"text", "reasoning", "added"}
                             \/ e.kind = "args" /\ st.index[e.item] # NoIndex
        BY <1>1, <1>3 DEF Speaks
      <3>3. QED
        BY <1>1, <1>2, <1>8, <2>1, <3>1, <3>2
    <2>12. Follows(t, u)
      BY <2>4, <2>5, <2>6, <2>7, <2>8, <2>9, <2>10, <2>11 DEF Follows
    <2>13. QED
      BY <2>12 DEF t
  <1>9. QED
    BY <1>7, <1>8

-----------------------------------------------------------------------------
(* What the relay writes for an event *)

Role == Plain("role", 0)

\* The event carries content to the client, and the frame that carries it.
Says(st, e) ==
  \/ e.kind \in {"text", "reasoning", "added"}
  \/ e.kind = "args" /\ st.index[e.item] # NoIndex
Said(u, e) ==
  IF e.kind = "added" THEN Frame("tool", u.index[e.item], e.item, 0)
  ELSE IF e.kind = "args" THEN Frame("args", u.index[e.item], NoItem, e.n)
  ELSE Plain(e.kind, e.n)

Finish(st) == Plain(IF st.sawTools THEN "tool_calls" ELSE "stop", 0)

LEMMA TransformFrames ==
  ASSUME NEW st \in Transformers, NEW e \in Events, NEW r, r = Transform(st, e)
  PROVE  /\ Says(st, e) => r.frames = IF st.role THEN <<Said(r.st, e)>> ELSE <<Role, Said(r.st, e)>>
         /\ e.kind = "completed" => r.frames = <<Finish(st)>>
         /\ ~Says(st, e) /\ e.kind # "completed" => r.frames = <<>>
         /\ r.result = IF e.kind = "[DONE]" THEN "done"
                       ELSE IF e.kind \in {"garbage", "untyped", "untypedChunk"} THEN "invalid"
                       ELSE IF Says(st, e) \/ e.kind = "completed" THEN "emitted" ELSE "swallowed"
  <1>1. e.kind \in Kinds
    BY DEF Events
  <1>2. CASE e.kind = "created"
    BY <1>2 DEF Transform, Created, Silent, Says
  <1>3. CASE e.kind \in {"text", "reasoning"}
    BY <1>3 DEF Transform, WithRole, Emitted, Says, Said, Role
  <1>4. CASE e.kind = "added"
    <2>1. Indexed(st, e.item).role = st.role
      BY DEF Indexed, Transformers
    <2>2. [Indexed(st, e.item) EXCEPT !.role = TRUE].index = Indexed(st, e.item).index
      BY DEF Indexed, Transformers
    <2>3. QED
      BY <1>4, <2>1, <2>2 DEF Transform, Added, WithRole, Emitted, Says, Said, Role
  <1>5. CASE e.kind = "args"
    <2>1. [st EXCEPT !.role = TRUE].index = st.index
      BY DEF Transformers
    <2>2. QED
      BY <1>5, <2>1 DEF Transform, Arguments, Silent, WithRole, Emitted, Says, Said, Role
  <1>6. CASE e.kind = "completed"
    BY <1>6 DEF Transform, Completed, Emitted, Says, Finish
  <1>7. CASE e.kind \in {"failed", "incomplete", "error", "chunk", "other", "empty", "[DONE]",
                         "garbage", "untyped", "untypedChunk"}
    BY <1>7 DEF Transform, Silent, Says
  <1>8. QED
    BY <1>1, <1>2, <1>3, <1>4, <1>5, <1>6, <1>7 DEF Kinds

LEMMA RewrittenFrames ==
  ASSUME NEW st \in Transformers, NEW e \in Events, NEW r, r = Rewritten(st, e)
  PROVE  /\ r.st = Transform(st, e).st
         /\ Says(st, e) => r.frames = IF st.role THEN <<Said(r.st, e)>> ELSE <<Role, Said(r.st, e)>>
         /\ e.kind = "completed" => r.frames = <<Finish(st)>>
         /\ ~Says(st, e) /\ e.kind # "completed" => r.frames \in {<<>>, <<Plain("chunk", e.n)>>}
         /\ r.result = "done" <=> e.kind = "[DONE]"
         /\ r.result = "invalid" <=> e.kind = "garbage"
         /\ r.result \in {"emitted", "swallowed", "done", "invalid"}
  <1>1. CASE e.kind \in {"chunk", "untypedChunk", "untyped"}
    BY <1>1 DEF Rewritten, Transform, Silent, Emitted, Says
  <1>2. CASE e.kind \notin {"chunk", "untypedChunk", "untyped"}
    <2>1. r = Transform(st, e)
      BY <1>2 DEF Rewritten
    <2>2. QED
      BY <1>2, <2>1, TransformFrames
  <1>3. QED
    BY <1>1, <1>2

LEMMA RewrittenVerdict ==
  ASSUME NEW st \in Transformers, NEW e \in Events, NEW r, r = Rewritten(st, e)
  PROVE  /\ r.st = Transform(st, e).st
         /\ r.result = "done" <=> e.kind = "[DONE]"
         /\ r.result = "invalid" <=> e.kind = "garbage"
         /\ r.result \in {"emitted", "swallowed", "done", "invalid"}
  BY RewrittenFrames

LEMMA SaidIsFrame ==
  ASSUME NEW st \in Transformers, NEW e \in Events, NEW u, u = Transform(st, e).st
  PROVE  /\ Role \in Frames /\ Finish(st) \in Frames
         /\ Plain("error", 0) \in Frames /\ Plain("[DONE]", 0) \in Frames
         /\ Plain("chunk", e.n) \in Frames
         /\ Says(st, e) => Said(u, e) \in Frames
  <1>1. /\ NoIndex \in Nat \union {NoIndex} /\ NoItem \in Items \union {NoItem} /\ 0 \in Nat
        /\ e.n \in Nat /\ e.item \in Items \union {NoItem}
        /\ e.kind \in ItemKinds => e.item \in Items
    BY DEF Events
  <1>2. u.index \in [Items -> Nat \union {NoIndex}]
    <2>1. u \in Transformers
      BY TransformState
    <2>2. QED
      BY <2>1 DEF Transformers
  <1>3. \A k \in FrameKinds, n \in Nat : Plain(k, n) \in Frames
    BY <1>1 DEF Plain, Frame, Frames
  <1>4. Role \in Frames /\ Finish(st) \in Frames
    BY <1>1, <1>3 DEF Role, Finish, FrameKinds
  <1>5. ASSUME Says(st, e) PROVE Said(u, e) \in Frames
    <2>1. CASE e.kind \in ItemKinds
      <3>1. u.index[e.item] \in Nat \union {NoIndex}
        BY <1>1, <1>2, <2>1
      <3>2. QED
        BY <1>1, <2>1, <3>1 DEF Said, Frame, Frames, FrameKinds, ItemKinds
    <2>2. CASE e.kind \in {"text", "reasoning"}
      BY <1>1, <1>3, <2>2 DEF Said, FrameKinds
    <2>3. QED
      BY <1>5, <2>1, <2>2 DEF Says, ItemKinds
  <1>6. QED
    BY <1>1, <1>3, <1>4, <1>5 DEF FrameKinds

-----------------------------------------------------------------------------
(* One more frame *)

LEMMA FrameAppended ==
  ASSUME NEW frames \in Seq(Frames), NEW f \in Frames
  PROVE  /\ Append(frames, f) \in Seq(Frames) /\ Len(frames) \in Nat
         /\ DOMAIN frames = 1..Len(frames)
         /\ Len(Append(frames, f)) = Len(frames) + 1
         /\ DOMAIN Append(frames, f) = 1..(Len(frames) + 1)
         /\ \A j \in 1..Len(frames) : Append(frames, f)[j] = frames[j]
         /\ Append(frames, f)[Len(frames) + 1] = f
  OBVIOUS

LEMMA CurrentAppended ==
  ASSUME NEW frames \in Seq(Frames), NEW f \in Frames
  PROVE  Current(Append(frames, f)) =
           IF f.kind = "role" THEN {Len(frames) + 1} ELSE Current(frames) \union {Len(frames) + 1}
  BY FrameAppended DEF Current

\* What CallsReassemble asks of one call.
Holds(frames, index, item, own) ==
  /\ Lists([j \in Carrying(frames, index) |-> frames[j].n], own)
  /\ \A j \in Current(frames) :
       frames[j].kind = "tool" /\ frames[j].index = index => frames[j].item = item

\* A frame that is about something else.
LEMMA HoldsOn ==
  ASSUME NEW frames \in Seq(Frames), NEW f \in Frames, NEW index, NEW item, NEW own,
         Holds(frames, index, item, own), f.kind # "role",
         ~(f.kind = "args" /\ f.index = index),
         f.kind = "tool" /\ f.index = index => f.item = item
  PROVE  Holds(Append(frames, f), index, item, own)
  <1> DEFINE g == Append(frames, f)
  <1>1. /\ Len(frames) \in Nat /\ \A j \in 1..Len(frames) : g[j] = frames[j]
        /\ g[Len(frames) + 1] = f /\ DOMAIN frames = 1..Len(frames)
        /\ Current(g) = Current(frames) \union {Len(frames) + 1}
    BY FrameAppended, CurrentAppended
  <1>2. \A j \in Current(frames) : j \in 1..Len(frames)
    BY <1>1 DEF Current
  <1> HIDE DEF g
  <1>3. Carrying(g, index) = Carrying(frames, index)
    BY <1>1, <1>2 DEF Carrying
  <1>4. [j \in Carrying(g, index) |-> g[j].n] = [j \in Carrying(frames, index) |-> frames[j].n]
    BY <1>1, <1>2, <1>3 DEF Carrying
  <1>5. \A j \in Current(g) : g[j].kind = "tool" /\ g[j].index = index => g[j].item = item
    BY <1>1, <1>2 DEF Holds
  <1>6. QED
    BY <1>4, <1>5 DEF Holds, g

\* A frame with the call's next arguments.
LEMMA HoldsMore ==
  ASSUME NEW frames \in Seq(Frames), NEW f \in Frames, NEW index, NEW item, NEW own,
         Holds(frames, index, item, own), f.kind = "args", f.index = index,
         \A j \in DOMAIN frames : frames[j].kind = "args" => frames[j].n < f.n
  PROVE  Holds(Append(frames, f), index, item, own \union {f.n})
  <1> DEFINE g == Append(frames, f)
             n == Len(frames) + 1
             old == [j \in Carrying(frames, index) |-> frames[j].n]
             new == [j \in Carrying(g, index) |-> g[j].n]
  <1>1. /\ Len(frames) \in Nat /\ \A j \in 1..Len(frames) : g[j] = frames[j]
        /\ g[n] = f /\ DOMAIN frames = 1..Len(frames)
        /\ Current(g) = Current(frames) \union {n}
    BY FrameAppended, CurrentAppended
  <1>2. \A j \in Current(frames) : j \in 1..Len(frames)
    BY <1>1 DEF Current
  <1> HIDE DEF g
  <1>3. Carrying(g, index) = Carrying(frames, index) \union {n}
    BY <1>1, <1>2 DEF Carrying
  <1>4. /\ \A j \in Carrying(frames, index) : j \in 1..Len(frames) /\ new[j] = old[j] /\ old[j] < f.n
        /\ new[n] = f.n /\ DOMAIN old = Carrying(frames, index)
        /\ DOMAIN new = Carrying(frames, index) \union {n}
    BY <1>1, <1>2, <1>3 DEF Carrying
  <1>5. Lists(old, own)
    BY DEF Holds
  <1> HIDE DEF old, new
  <1>6. Lists(new, own \union {f.n})
    <2>1. {new[j] : j \in DOMAIN new} = own \union {f.n}
      BY <1>4, <1>5 DEF Lists
    <2>2. \A j, k \in DOMAIN new : j < k => new[j] < new[k]
      <3>1. \A j, k \in DOMAIN old : j < k => old[j] < old[k]
        BY <1>5 DEF Lists
      <3>2. QED
        BY <1>1, <1>4, <3>1
    <2>3. QED
      BY <2>1, <2>2 DEF Lists
  <1>7. \A j \in Current(g) : g[j].kind = "tool" /\ g[j].index = index => g[j].item = item
    BY <1>1, <1>2 DEF Holds
  <1>8. QED
    BY <1>6, <1>7 DEF Holds, g, new

\* A call nothing has been written for.
LEMMA HoldsNothing ==
  ASSUME NEW frames, NEW index, NEW item,
         \A j \in Current(frames) : frames[j].kind \in {"args", "tool"} /\ frames[j].index = index =>
           frames[j].kind = "tool" /\ frames[j].item = item
  PROVE  Holds(frames, index, item, {})
  <1>1. Carrying(frames, index) = {}
    BY DEF Carrying
  <1>2. QED
    BY <1>1 DEF Holds, Lists

-----------------------------------------------------------------------------
(* The properties of the streaming client, for any events and frames *)

Reassembles(s, frames) ==
  \A p \in Announced(s) : Holds(frames, Place(s, p), s[p].item, Own(s, p))

Opening(s) ==
  {p \in DOMAIN s : Speaks(s, p) /\ ~\E q \in DOMAIN s : Speaks(s, q) /\ q < p /\ SameResponse(s, q, p)}
Roles(frames) == {j \in DOMAIN frames : frames[j].kind = "role"}

Finished(s) == {p \in DOMAIN s : s[p].kind = "completed"}
Finishes(frames) == {j \in DOMAIN frames : frames[j].kind \in {"stop", "tool_calls"}}
HasTools(s, p) == \E q \in 1..p : s[q].kind = "added" /\ SameResponse(s, q, p)
FinishesName(s, frames) ==
  /\ Cardinality(Finishes(frames)) = Cardinality(Finished(s))
  /\ \A p \in Finished(s), j \in Finishes(frames) :
       Cardinality({k \in Finishes(frames) : k <= j}) = Cardinality({q \in Finished(s) : q <= p}) =>
         (frames[j].kind = "tool_calls" <=> HasTools(s, p))

\* What makes them inductive: an index is below the next one, a payload is past.
Tracks(s, st, frames) ==
  /\ frames \in Seq(Frames)
  /\ Reassembles(s, frames)
  /\ Cardinality(Roles(frames)) = Cardinality(Opening(s))
  /\ FinishesName(s, frames)
  /\ st.role => \A j \in Current(frames) :
       frames[j].kind \in {"args", "tool"} => frames[j].index < st.nextIndex
  /\ \A j \in DOMAIN frames : frames[j].kind = "args" => frames[j].n <= Len(s)

LEMMA OwnAppended ==
  ASSUME NEW s \in Seq(Events), NEW e \in Events
  PROVE  /\ \A p \in 1..Len(s) :
              Own(Append(s, e), p) = IF e.kind = "args" /\ e.item = s[p].item
                                     THEN Own(s, p) \union {Len(s) + 1} ELSE Own(s, p)
         /\ Own(Append(s, e), Len(s) + 1) = {}
  <1> DEFINE t == Append(s, e)
             n == Len(s) + 1
  <1>1. /\ Len(s) \in Nat /\ DOMAIN s = 1..Len(s) /\ DOMAIN t = 1..n /\ t[n] = e
        /\ \A p \in 1..Len(s) : t[p] = s[p]
    BY Appended
  <1> HIDE DEF t
  <1>2. Own(t, n) = {}
    BY <1>1 DEF Own
  <1>3. ASSUME NEW p \in 1..Len(s)
        PROVE  Own(t, p) = IF e.kind = "args" /\ e.item = s[p].item THEN Own(s, p) \union {n} ELSE Own(s, p)
    <2>1. n > p /\ t[p] = s[p]
      BY <1>1
    <2>2. QED
      BY <1>1, <2>1 DEF Own
  <1>4. QED
    BY <1>2, <1>3 DEF t

\* Who has announced anything has spoken.
LEMMA AnnouncedSpeak ==
  ASSUME NEW s \in Seq(Events), NEW st \in Transformers, Follows(s, st), Announced(s) # {}
  PROVE  st.role
  <1>1. PICK p \in Announced(s) : TRUE
    OBVIOUS
  <1>2. p \in DOMAIN s /\ Speaks(s, p) /\ SameResponse(s, p, Len(s))
    BY <1>1 DEF Announced, Announces, Speaks
  <1>3. QED
    BY <1>2 DEF Follows

LEMMA ReassemblesOn ==
  ASSUME NEW s \in Seq(Events), NEW e \in Events, NEW st \in Transformers, Follows(s, st),
         NEW frames \in Seq(Frames), Tracks(s, st, frames), e.n = Len(s) + 1,
         NEW u, u = Transform(st, e).st
  PROVE  /\ ~Says(st, e) => Reassembles(Append(s, e), frames)
         /\ Says(st, e) /\ st.role => Reassembles(Append(s, e), Append(frames, Said(u, e)))
         /\ Says(st, e) /\ ~st.role =>
              Reassembles(Append(s, e), Append(Append(frames, Role), Said(u, e)))
  <1> DEFINE t == Append(s, e)
             n == Len(s) + 1
             f == Said(u, e)
  <1>1. /\ Len(s) \in Nat /\ DOMAIN s = 1..Len(s) /\ t[n] = e
        /\ \A p \in 1..Len(s) : t[p] = s[p] /\ Place(t, p) = Place(s, p)
    BY Appended, AppendedOld
  <1>2. /\ Announced(s) \in SUBSET (1..Len(s))
        /\ Announced(t) = IF e.kind = "created" THEN {}
                          ELSE IF Opens(st, e) THEN Announced(s) \union {n} ELSE Announced(s)
        /\ Opens(st, e) => Place(t, n) = st.nextIndex
    <2>1. /\ Announced(t) = IF e.kind = "created" THEN {}
                            ELSE IF Opens(st, e) THEN Announced(s) \union {n} ELSE Announced(s)
          /\ e.kind # "created" => Place(t, n) = Cardinality(Announced(s))
      BY AppendedNew DEF Opens
    <2>2. st.nextIndex = Cardinality(Announced(s))
      BY DEF Follows
    <2>3. Announced(s) \in SUBSET (1..Len(s))
      BY <1>1 DEF Announced
    <2>4. QED
      BY <2>1, <2>2, <2>3 DEF Opens
  <1>3. /\ \A p \in 1..Len(s) :
             Own(t, p) = IF e.kind = "args" /\ e.item = s[p].item THEN Own(s, p) \union {n} ELSE Own(s, p)
        /\ Own(t, n) = {}
    BY OwnAppended
  <1>4. \A p \in Announced(s) : /\ s[p].item \in Items
                               /\ st.index[s[p].item] = Place(s, p)
                               /\ st.index[s[p].item] # NoIndex
    <2>1. \A p \in Announced(s) : s[p].item \in Items
      <3>1. \A p \in Announced(s) : s[p] \in Events /\ s[p].kind = "added"
        BY <1>1, <1>2 DEF Announced, Announces
      <3>2. QED
        BY <3>1 DEF Events, ItemKinds
    <2>2. QED
      BY <2>1 DEF Follows
  <1>5. \A p \in Announced(s) : Holds(frames, Place(s, p), s[p].item, Own(s, p))
    BY DEF Tracks, Reassembles
  <1>6. e.kind \in ItemKinds => e.item \in Items
    BY DEF Events
  <1>7. Says(st, e) =>
          /\ f.kind # "role" /\ f.kind = (IF e.kind = "added" THEN "tool" ELSE e.kind)
          /\ e.kind \in ItemKinds => f.index = u.index[e.item]
          /\ e.kind = "added" => f.item = e.item
          /\ e.kind = "args" => f.n = n
    BY DEF Said, Frame, Plain, Says, ItemKinds
  <1>8. Says(st, e) => f \in Frames /\ Role \in Frames /\ Role.kind = "role"
    BY SaidIsFrame DEF Role, Plain, Frame
  <1> HIDE DEF t, f
  <1>9. ASSUME ~Says(st, e) PROVE Reassembles(t, frames)
    <2>1. ~Opens(st, e)
      BY <1>9 DEF Opens, Says
    <2>2. \A p \in Announced(s) : Own(t, p) = Own(s, p)
      BY <1>2, <1>3, <1>4, <1>9 DEF Says
    <2>3. \A p \in Announced(s) : Holds(frames, Place(t, p), t[p].item, Own(t, p))
      BY <1>1, <1>2, <1>5, <2>2
    <2>4. QED
      BY <1>2, <2>1, <2>3 DEF Reassembles
  <1>10. ASSUME Says(st, e), Opens(st, e), NEW g \in Seq(Frames),
                \A j \in Current(g) :
                  g[j].kind \in {"args", "tool"} => g[j] = f \/ g[j].index < st.nextIndex
         PROVE  Holds(g, Place(t, n), t[n].item, Own(t, n))
    <2>1. Place(t, n) = st.nextIndex /\ t[n].item = e.item /\ Own(t, n) = {} /\ st.nextIndex \in Nat
      BY <1>1, <1>2, <1>3, <1>10 DEF Transformers
    <2>2. f.kind = "tool" /\ f.item = e.item
      BY <1>7, <1>10 DEF Opens
    <2>3. \A j \in Current(g) : g[j].kind \in {"args", "tool"} /\ g[j].index = st.nextIndex =>
            g[j].kind = "tool" /\ g[j].item = e.item
      BY <1>10, <2>1, <2>2
    <2>4. QED
      BY <2>1, <2>3, HoldsNothing
  <1>11. ASSUME Says(st, e), st.role PROVE Reassembles(t, Append(frames, f))
    <2>1. ASSUME NEW p \in Announced(s)
          PROVE  Holds(Append(frames, f), Place(s, p), s[p].item, Own(t, p))
      <3>1. /\ Holds(frames, Place(s, p), s[p].item, Own(s, p)) /\ s[p].item \in Items
            /\ Place(s, p) = st.index[s[p].item] /\ st.index[s[p].item] # NoIndex
        BY <1>4, <1>5
      <3>2. u.index[s[p].item] = st.index[s[p].item]
        <4>1. e.kind # "created"
          BY <1>11 DEF Says
        <4>2. u.index = IF Opens(st, e) THEN [st.index EXCEPT ![e.item] = st.nextIndex] ELSE st.index
          BY <4>1, TransformIndex
        <4>3. Opens(st, e) => e.item # s[p].item
          BY <3>1 DEF Opens
        <4>4. st.index \in [Items -> Nat \union {NoIndex}]
          BY DEF Transformers
        <4>5. CASE Opens(st, e)
          BY <3>1, <4>2, <4>3, <4>4, <4>5
        <4>6. QED
          BY <4>2, <4>5
      <3>3. e.kind \in ItemKinds /\ f.index = Place(s, p) => e.item = s[p].item
        <4>1. \A i, j \in Items : u.index[i] = u.index[j] /\ u.index[i] # NoIndex => i = j
          <5>1. Follows(Append(s, e), u)
            BY FollowsOn
          <5>2. QED
            BY <5>1 DEF Follows
        <4>2. QED
          BY <1>6, <1>7, <1>11, <3>1, <3>2, <4>1
      <3>4. CASE e.kind = "args" /\ e.item = s[p].item
        <4>1. f.kind = "args" /\ f.index = Place(s, p) /\ f.n = n /\ Own(t, p) = Own(s, p) \union {n}
          BY <1>2, <1>3, <1>7, <1>11, <3>1, <3>2, <3>4 DEF ItemKinds
        <4>2. \A j \in DOMAIN frames : frames[j].kind = "args" => frames[j].n < f.n
          <5>1. \A j \in DOMAIN frames : frames[j].kind = "args" => frames[j].n <= Len(s) /\ frames[j].n \in Nat
            <6>1. \A j \in DOMAIN frames : frames[j] \in Frames
              BY FrameAppended
            <6>2. \A j \in DOMAIN frames : frames[j].n \in Nat
              BY <6>1 DEF Frames
            <6>3. QED
              BY <6>2 DEF Tracks
          <5>2. QED
            BY <1>1, <4>1, <5>1
        <4>3. QED
          <5>1. Holds(frames, Place(s, p), s[p].item, Own(s, p)) /\ f \in Frames
            BY <1>8, <1>11, <3>1
          <5>2. Holds(Append(frames, f), Place(s, p), s[p].item, Own(s, p) \union {f.n})
            BY <4>1, <4>2, <5>1, HoldsMore
          <5>3. QED
            BY <4>1, <5>2
      <3>5. CASE ~(e.kind = "args" /\ e.item = s[p].item)
        <4>1. /\ f.kind # "role" /\ ~(f.kind = "args" /\ f.index = Place(s, p))
              /\ f.kind = "tool" /\ f.index = Place(s, p) => f.item = s[p].item
          BY <1>7, <1>11, <3>3, <3>5 DEF ItemKinds, Says
        <4>2. Own(t, p) = Own(s, p)
          BY <1>2, <1>3, <3>5
        <4>3. QED
          BY <1>8, <1>11, <3>1, <4>1, <4>2, HoldsOn
      <3>6. QED
        BY <3>4, <3>5
    <2>2. ASSUME Opens(st, e) PROVE Holds(Append(frames, f), Place(t, n), t[n].item, Own(t, n))
      <3>1. /\ Append(frames, f) \in Seq(Frames)
            /\ Current(Append(frames, f)) = Current(frames) \union {Len(frames) + 1}
            /\ Append(frames, f)[Len(frames) + 1] = f
            /\ \A j \in Current(frames) : Append(frames, f)[j] = frames[j]
        BY <1>7, <1>8, <1>11, FrameAppended, CurrentAppended DEF Current
      <3>2. \A j \in Current(frames) :
              frames[j].kind \in {"args", "tool"} => frames[j].index < st.nextIndex
        BY <1>11 DEF Tracks
      <3>3. \A j \in Current(Append(frames, f)) : Append(frames, f)[j].kind \in {"args", "tool"} =>
              Append(frames, f)[j] = f \/ Append(frames, f)[j].index < st.nextIndex
        BY <3>1, <3>2
      <3>4. QED
        BY <1>10, <1>11, <2>2, <3>1, <3>3
    <2>3. QED
      BY <1>1, <1>2, <1>11, <2>1, <2>2 DEF Reassembles
  <1>12. ASSUME Says(st, e), ~st.role PROVE Reassembles(t, Append(Append(frames, Role), f))
    <2>1. Announced(s) = {}
      BY <1>12, AnnouncedSpeak
    <2> DEFINE h == Append(frames, Role)
               g == Append(h, f)
    <2>2. /\ h \in Seq(Frames) /\ Len(h) = Len(frames) + 1 /\ h[Len(h)] = Role /\ Current(h) = {Len(h)}
          /\ Len(h) \in Nat
      BY <1>8, <1>12, FrameAppended, CurrentAppended
    <2> HIDE DEF h
    <2>3. /\ g \in Seq(Frames) /\ Current(g) = {Len(h), Len(h) + 1} /\ g[Len(h) + 1] = f
          /\ DOMAIN h = 1..Len(h)
      BY <1>7, <1>8, <1>12, <2>2, FrameAppended, CurrentAppended
    <2>4. g[Len(h)] = Role
      <3>1. Len(h) \in 1..Len(h)
        BY <2>2, FrameAppended, <1>8, <1>12 DEF h
      <3>2. QED
        BY <1>8, <1>12, <2>2, <3>1, FrameAppended
    <2> HIDE DEF g
    <2>5. \A j \in Current(g) : g[j].kind \in {"args", "tool"} => g[j] = f \/ g[j].index < st.nextIndex
      BY <1>8, <1>12, <2>3, <2>4
    <2>6. Opens(st, e) => Holds(g, Place(t, n), t[n].item, Own(t, n))
      BY <1>10, <1>12, <2>3, <2>5
    <2>7. Reassembles(t, g)
      BY <1>2, <2>1, <2>6 DEF Reassembles
    <2>8. QED
      BY <2>7 DEF g, h
  <1>13. QED
    BY <1>9, <1>11, <1>12 DEF t, f

LEMMA SetsFinite ==
  ASSUME NEW s \in Seq(Events), NEW frames \in Seq(Frames)
  PROVE  /\ IsFiniteSet(Opening(s)) /\ IsFiniteSet(Finished(s))
         /\ IsFiniteSet(Roles(frames)) /\ IsFiniteSet(Finishes(frames))
         /\ Cardinality(Finished(s)) \in Nat
  <1>1. /\ IsFiniteSet(1..Len(s)) /\ IsFiniteSet(1..Len(frames))
        /\ DOMAIN s = 1..Len(s) /\ DOMAIN frames = 1..Len(frames)
    BY FS_Interval
  <1>2. /\ Opening(s) \in SUBSET (1..Len(s)) /\ Finished(s) \in SUBSET (1..Len(s))
        /\ Roles(frames) \in SUBSET (1..Len(frames)) /\ Finishes(frames) \in SUBSET (1..Len(frames))
    BY <1>1 DEF Opening, Finished, Roles, Finishes
  <1>3. QED
    BY <1>1, <1>2, FS_Subset, FS_CardinalityType

LEMMA RolesAppended ==
  ASSUME NEW frames \in Seq(Frames), NEW f \in Frames
  PROVE  /\ Roles(Append(frames, f)) =
              IF f.kind = "role" THEN Roles(frames) \union {Len(frames) + 1} ELSE Roles(frames)
         /\ Finishes(Append(frames, f)) =
              IF f.kind \in {"stop", "tool_calls"} THEN Finishes(frames) \union {Len(frames) + 1}
              ELSE Finishes(frames)
         /\ Len(frames) + 1 \notin Roles(frames) /\ Len(frames) + 1 \notin Finishes(frames)
  BY FrameAppended DEF Roles, Finishes

\* A response opens with the first event that says anything.
LEMMA OpeningAppended ==
  ASSUME NEW s \in Seq(Events), NEW e \in Events, NEW st \in Transformers, Follows(s, st)
  PROVE  /\ Opening(Append(s, e)) = IF Says(st, e) /\ ~st.role
                                    THEN Opening(s) \union {Len(s) + 1} ELSE Opening(s)
         /\ Len(s) + 1 \notin Opening(s)
  <1> DEFINE t == Append(s, e)
             n == Len(s) + 1
  <1>1. /\ Len(s) \in Nat /\ DOMAIN s = 1..Len(s) /\ DOMAIN t = 1..n /\ t[n] = e
        /\ \A p \in 1..Len(s) : Speaks(t, p) <=> Speaks(s, p)
        /\ \A p, q \in 1..Len(s) : SameResponse(t, q, p) <=> SameResponse(s, q, p)
        /\ \A q \in 1..Len(s) : SameResponse(t, q, n) <=> e.kind # "created" /\ SameResponse(s, q, Len(s))
    BY Appended, AppendedSame, AppendedOld
  <1>2. Speaks(t, n) <=> Says(st, e)
    BY <1>1, AppendedNew DEF Speaks, Says
  <1>3. st.role <=> \E p \in 1..Len(s) : Speaks(s, p) /\ SameResponse(s, p, Len(s))
    BY <1>1 DEF Follows
  <1>4. Says(st, e) => e.kind # "created"
    BY DEF Says
  <1> HIDE DEF t
  <1>5. ASSUME NEW p \in 1..Len(s) PROVE p \in Opening(t) <=> p \in Opening(s)
    BY <1>1 DEF Opening
  <1>6. n \in Opening(t) <=> Says(st, e) /\ ~st.role
    BY <1>1, <1>2, <1>3, <1>4 DEF Opening
  <1>7. Opening(t) \in SUBSET (1..n) /\ Opening(s) \in SUBSET (1..Len(s))
    BY <1>1 DEF Opening
  <1>8. n \notin Opening(s)
    BY <1>1, <1>7
  <1>9. CASE Says(st, e) /\ ~st.role
    <2>1. \A p \in 1..n : p \in Opening(t) <=> p \in Opening(s) \union {n}
      BY <1>1, <1>5, <1>6, <1>9
    <2>2. Opening(t) = Opening(s) \union {n}
      BY <1>1, <1>7, <2>1
    <2>3. QED
      BY <1>8, <1>9, <2>2 DEF t
  <1>10. CASE ~(Says(st, e) /\ ~st.role)
    <2>1. \A p \in 1..n : p \in Opening(t) <=> p \in Opening(s)
      BY <1>1, <1>5, <1>6, <1>8, <1>10
    <2>2. Opening(t) = Opening(s)
      <3>1. Opening(s) \in SUBSET (1..n)
        BY <1>1, <1>7
      <3>2. QED
        BY <1>7, <2>1, <3>1
    <2>3. QED
      BY <1>8, <1>10, <2>2 DEF t
  <1>11. QED
    BY <1>9, <1>10

LEMMA RolesOn ==
  ASSUME NEW s \in Seq(Events), NEW e \in Events, NEW st \in Transformers, Follows(s, st),
         NEW frames \in Seq(Frames), Cardinality(Roles(frames)) = Cardinality(Opening(s)),
         NEW f \in Frames, f.kind # "role"
  PROVE  /\ ~(Says(st, e) /\ ~st.role) =>
              /\ Cardinality(Roles(frames)) = Cardinality(Opening(Append(s, e)))
              /\ Cardinality(Roles(Append(frames, f))) = Cardinality(Opening(Append(s, e)))
         /\ Says(st, e) /\ ~st.role =>
              Cardinality(Roles(Append(Append(frames, Role), f))) = Cardinality(Opening(Append(s, e)))
  <1>1. /\ Opening(Append(s, e)) = IF Says(st, e) /\ ~st.role
                                   THEN Opening(s) \union {Len(s) + 1} ELSE Opening(s)
        /\ Len(s) + 1 \notin Opening(s) /\ IsFiniteSet(Opening(s)) /\ IsFiniteSet(Roles(frames))
    BY OpeningAppended, SetsFinite
  <1>2. Roles(Append(frames, f)) = Roles(frames)
    BY RolesAppended
  <1>3. ASSUME Says(st, e) /\ ~st.role
        PROVE  Cardinality(Roles(Append(Append(frames, Role), f))) = Cardinality(Opening(Append(s, e)))
    <2>1. Role \in Frames /\ Role.kind = "role"
      BY SaidIsFrame DEF Role, Plain, Frame
    <2>2. /\ Append(frames, Role) \in Seq(Frames) /\ Len(frames) + 1 \notin Roles(frames)
          /\ Roles(Append(frames, Role)) = Roles(frames) \union {Len(frames) + 1}
      BY <2>1, FrameAppended, RolesAppended
    <2>3. Roles(Append(Append(frames, Role), f)) = Roles(frames) \union {Len(frames) + 1}
      BY <2>2, RolesAppended
    <2>4. QED
      <3>1. Cardinality(Roles(frames) \union {Len(frames) + 1}) = Cardinality(Roles(frames)) + 1
        BY <1>1, <2>2, FS_AddElement
      <3>2. Cardinality(Opening(s) \union {Len(s) + 1}) = Cardinality(Opening(s)) + 1
        BY <1>1, FS_AddElement
      <3>3. QED
        BY <1>1, <1>3, <2>3, <3>1, <3>2
  <1>4. QED
    BY <1>1, <1>2, <1>3

-----------------------------------------------------------------------------
(* The finish reasons *)

LEMMA FinishedAppended ==
  ASSUME NEW s \in Seq(Events), NEW e \in Events
  PROVE  /\ Finished(Append(s, e)) =
              IF e.kind = "completed" THEN Finished(s) \union {Len(s) + 1} ELSE Finished(s)
         /\ Len(s) + 1 \notin Finished(s)
         /\ \A p \in 1..Len(s) : HasTools(Append(s, e), p) <=> HasTools(s, p)
  <1>1. Finished(Append(s, e)) =
          IF e.kind = "completed" THEN Finished(s) \union {Len(s) + 1} ELSE Finished(s)
    BY Appended DEF Finished
  <1>2. Len(s) + 1 \notin Finished(s)
    BY Appended DEF Finished
  <1>3. \A p \in 1..Len(s) : HasTools(Append(s, e), p) <=> HasTools(s, p)
    BY Appended, AppendedSame DEF HasTools
  <1>4. QED
    BY <1>1, <1>2, <1>3

\* Frames that finish nothing.
LEMMA FinishesKept ==
  ASSUME NEW s \in Seq(Events), NEW e \in Events, e.kind # "completed",
         NEW frames \in Seq(Frames), FinishesName(s, frames),
         NEW g \in Seq(Frames), Finishes(g) = Finishes(frames),
         \A j \in DOMAIN frames : g[j] = frames[j]
  PROVE  FinishesName(Append(s, e), g)
  <1>1. /\ Finished(Append(s, e)) = Finished(s) /\ Finished(s) \in SUBSET (1..Len(s))
        /\ \A p \in 1..Len(s) : HasTools(Append(s, e), p) <=> HasTools(s, p)
    BY Appended, FinishedAppended DEF Finished
  <1>2. \A j \in Finishes(frames) : g[j] = frames[j]
    BY DEF Finishes
  <1>3. QED
    BY <1>1, <1>2 DEF FinishesName

\* The rank of an element among naturals is below the rank of a greater one.
LEMMA RankBelow ==
  ASSUME NEW S, IsFiniteSet(S), NEW j
  PROVE  Cardinality({k \in S : k <= j}) \in Nat /\ Cardinality({k \in S : k <= j}) <= Cardinality(S)
  <1>1. {k \in S : k <= j} \in SUBSET S
    OBVIOUS
  <1>2. QED
    BY <1>1, FS_Subset, FS_CardinalityType

LEMMA RankAbove ==
  ASSUME NEW S \in SUBSET Nat, IsFiniteSet(S), NEW n \in Nat, \A k \in S : k < n
  PROVE  /\ \A j \in S : {k \in S \union {n} : k <= j} = {k \in S : k <= j}
         /\ {k \in S \union {n} : k <= n} = S \union {n}
         /\ Cardinality(S \union {n}) = Cardinality(S) + 1 /\ Cardinality(S) \in Nat
  <1>1. n \notin S
    OBVIOUS
  <1>2. Cardinality(S \union {n}) = Cardinality(S) + 1 /\ Cardinality(S) \in Nat
    BY <1>1, FS_AddElement, FS_CardinalityType
  <1>3. \A j \in S : {k \in S \union {n} : k <= j} = {k \in S : k <= j}
    OBVIOUS
  <1>4. {k \in S \union {n} : k <= n} = S \union {n}
    <2>1. \A k \in S \union {n} : k <= n
      <3>1. \A k \in S : k \in Nat /\ k < n
        OBVIOUS
      <3>2. QED
        BY <3>1
    <2>2. QED
      BY <2>1
  <1>5. QED
    BY <1>2, <1>3, <1>4

LEMMA FinishesMore ==
  ASSUME NEW s \in Seq(Events), NEW e \in Events, e.kind = "completed",
         NEW st \in Transformers, Follows(s, st),
         NEW frames \in Seq(Frames), FinishesName(s, frames)
  PROVE  FinishesName(Append(s, e), Append(frames, Finish(st)))
  <1> DEFINE t == Append(s, e)
             n == Len(s) + 1
             g == Append(frames, Finish(st))
             m == Len(frames) + 1
             S == Finished(s)
             F == Finishes(frames)
  <1>1. /\ Len(s) \in Nat /\ DOMAIN s = 1..Len(s) /\ t[n] = e
        /\ \A p \in 1..Len(s) : t[p] = s[p]
        /\ \A q \in 1..Len(s) : SameResponse(t, q, n) <=> SameResponse(s, q, Len(s))
    BY Appended, AppendedSame
  <1>2. Finish(st) \in Frames /\ Finish(st).kind = IF st.sawTools THEN "tool_calls" ELSE "stop"
    BY SaidIsFrame DEF Finish, Plain, Frame
  <1>3. /\ Len(frames) \in Nat /\ DOMAIN frames = 1..Len(frames) /\ g[m] = Finish(st)
        /\ \A j \in 1..Len(frames) : g[j] = frames[j]
    BY <1>2, FrameAppended
  <1>4. Finished(t) = S \union {n} /\ Finishes(g) = F \union {m}
    BY <1>2, FinishedAppended, RolesAppended
  <1>5. /\ S \in SUBSET Nat /\ IsFiniteSet(S) /\ \A p \in S : p \in 1..Len(s) /\ p < n
        /\ F \in SUBSET Nat /\ IsFiniteSet(F) /\ \A j \in F : j \in 1..Len(frames) /\ j < m
        /\ n \in Nat /\ m \in Nat
    <2>1. IsFiniteSet(S) /\ IsFiniteSet(F)
      BY SetsFinite
    <2>2. \A p \in S : p \in 1..Len(s)
      BY <1>1 DEF Finished
    <2>3. \A j \in F : j \in 1..Len(frames)
      BY <1>3 DEF Finishes
    <2> HIDE DEF S, F
    <2>4. QED
      BY <1>1, <1>3, <2>1, <2>2, <2>3
  <1>6. \A p \in 1..Len(s) : HasTools(t, p) <=> HasTools(s, p)
    BY FinishedAppended
  <1>7. HasTools(t, n) <=> st.sawTools
    <2>1. st.sawTools <=> \E p \in 1..Len(s) : s[p].kind = "added" /\ SameResponse(s, p, Len(s))
      BY <1>1 DEF Follows
    <2>2. QED
      BY <1>1, <2>1 DEF HasTools
  <1> HIDE DEF t, n, g, m, S, F
  <1>8. /\ \A p \in S : {q \in S \union {n} : q <= p} = {q \in S : q <= p}
        /\ {q \in S \union {n} : q <= n} = S \union {n}
        /\ Cardinality(S \union {n}) = Cardinality(S) + 1 /\ Cardinality(S) \in Nat
    BY <1>5, RankAbove
  <1>9. /\ \A j \in F : {k \in F \union {m} : k <= j} = {k \in F : k <= j}
        /\ {k \in F \union {m} : k <= m} = F \union {m}
        /\ Cardinality(F \union {m}) = Cardinality(F) + 1 /\ Cardinality(F) \in Nat
    BY <1>5, RankAbove
  <1>10. /\ \A p \in S : Cardinality({q \in S : q <= p}) \in Nat /\ Cardinality({q \in S : q <= p}) <= Cardinality(S)
         /\ \A j \in F : Cardinality({k \in F : k <= j}) \in Nat /\ Cardinality({k \in F : k <= j}) <= Cardinality(F)
    BY <1>5, RankBelow
  <1>11. /\ Cardinality(F) = Cardinality(S)
         /\ \A p \in S, j \in F :
              Cardinality({k \in F : k <= j}) = Cardinality({q \in S : q <= p}) =>
                (frames[j].kind = "tool_calls" <=> HasTools(s, p))
    BY DEF FinishesName, S, F
  <1>12. ASSUME NEW p \in S \union {n}, NEW j \in F \union {m},
                Cardinality({k \in F \union {m} : k <= j}) = Cardinality({q \in S \union {n} : q <= p})
         PROVE  g[j].kind = "tool_calls" <=> HasTools(t, p)
    <2>1. CASE p \in S /\ j \in F
      <3>1. Cardinality({k \in F : k <= j}) = Cardinality({q \in S : q <= p})
        BY <1>8, <1>9, <1>12, <2>1
      <3>2. g[j] = frames[j] /\ (HasTools(t, p) <=> HasTools(s, p))
        BY <1>3, <1>5, <1>6, <2>1
      <3>3. QED
        BY <1>11, <2>1, <3>1, <3>2
    <2>2. CASE p \in S /\ j = m
      <3>1. {q \in S \union {n} : q <= p} = {q \in S : q <= p}
        BY <1>8, <2>2
      <3>2. Cardinality({k \in F \union {m} : k <= j}) = Cardinality(F) + 1
        BY <1>9, <2>2
      <3>3. Cardinality({q \in S : q <= p}) = Cardinality(F) + 1
        BY <1>12, <3>1, <3>2
      <3>4. Cardinality({q \in S : q <= p}) <= Cardinality(S)
        BY <1>10, <2>2
      <3>5. QED
        BY <1>8, <1>9, <1>11, <3>3, <3>4
    <2>3. CASE p = n /\ j \in F
      <3>1. {k \in F \union {m} : k <= j} = {k \in F : k <= j}
        BY <1>9, <2>3
      <3>2. Cardinality({q \in S \union {n} : q <= p}) = Cardinality(S) + 1
        BY <1>8, <2>3
      <3>3. Cardinality({k \in F : k <= j}) = Cardinality(S) + 1
        BY <1>12, <3>1, <3>2
      <3>4. Cardinality({k \in F : k <= j}) <= Cardinality(F)
        BY <1>10, <2>3
      <3>5. QED
        BY <1>8, <1>9, <1>11, <3>3, <3>4
    <2>4. CASE p = n /\ j = m
      BY <1>2, <1>3, <1>7, <2>4
    <2>5. QED
      BY <2>1, <2>2, <2>3, <2>4
  <1>13. FinishesName(t, g)
    BY <1>4, <1>8, <1>9, <1>11, <1>12 DEF FinishesName
  <1>14. QED
    BY <1>13 DEF t, g

-----------------------------------------------------------------------------
(* The streaming client, event by event *)

\* The two clauses that make Reassembles inductive.
Bounded(s, st, frames) ==
  /\ st.role => \A j \in Current(frames) :
       frames[j].kind \in {"args", "tool"} => frames[j].index < st.nextIndex
  /\ \A j \in DOMAIN frames : frames[j].kind = "args" => frames[j].n <= Len(s)

\* Frames of the relay's own, and foreign chunks, belong to no call.
LEMMA TracksIdle ==
  ASSUME NEW s \in Seq(Events), NEW st \in Transformers, NEW frames, Tracks(s, st, frames),
         NEW f \in Frames, f.kind \in {"chunk", "error", "[DONE]"}
  PROVE  Tracks(s, st, Append(frames, f))
  <1> DEFINE g == Append(frames, f)
  <1>1. frames \in Seq(Frames)
    BY DEF Tracks
  <1>2. /\ g \in Seq(Frames) /\ DOMAIN frames = 1..Len(frames) /\ Len(frames) \in Nat
        /\ DOMAIN g = 1..(Len(frames) + 1)
        /\ g[Len(frames) + 1] = f /\ \A j \in 1..Len(frames) : g[j] = frames[j]
        /\ Current(g) = Current(frames) \union {Len(frames) + 1}
        /\ Roles(g) = Roles(frames) /\ Finishes(g) = Finishes(frames)
    BY <1>1, FrameAppended, CurrentAppended, RolesAppended
  <1>3. Reassembles(s, g)
    <2>1. \A p \in Announced(s) : Holds(frames, Place(s, p), s[p].item, Own(s, p))
      BY DEF Tracks, Reassembles
    <2>2. \A p \in Announced(s) : Holds(g, Place(s, p), s[p].item, Own(s, p))
      BY <1>1, <2>1, HoldsOn
    <2>3. QED
      BY <2>2 DEF Reassembles
  <1>4. \A j \in Current(frames) : j \in 1..Len(frames)
    BY <1>2 DEF Current
  <1> HIDE DEF g
  <1>5. FinishesName(s, g)
    <2>1. \A j \in Finishes(frames) : g[j] = frames[j]
      BY <1>2 DEF Finishes
    <2>2. FinishesName(s, frames)
      BY DEF Tracks
    <2>3. QED
      BY <1>2, <2>1, <2>2 DEF FinishesName
  <1>6. Bounded(s, st, g)
    <2>1. Bounded(s, st, frames)
      BY DEF Tracks, Bounded
    <2>2. QED
      BY <1>2, <1>4, <2>1 DEF Bounded
  <1>7. Cardinality(Roles(g)) = Cardinality(Opening(s))
    BY <1>2 DEF Tracks
  <1>8. Tracks(s, st, g)
    BY <1>2, <1>3, <1>5, <1>6, <1>7 DEF Tracks, Bounded
  <1>9. QED
    BY <1>8 DEF g

LEMMA BoundedOn ==
  ASSUME NEW s \in Seq(Events), NEW e \in Events, e.n = Len(s) + 1,
         NEW st \in Transformers, Follows(s, st),
         NEW frames \in Seq(Frames), Bounded(s, st, frames),
         NEW u, u = Transform(st, e).st
  PROVE  /\ ~Says(st, e) => Bounded(Append(s, e), u, frames)
         /\ e.kind = "completed" => Bounded(Append(s, e), u, Append(frames, Finish(st)))
         /\ Says(st, e) /\ st.role => Bounded(Append(s, e), u, Append(frames, Said(u, e)))
         /\ Says(st, e) /\ ~st.role =>
              Bounded(Append(s, e), u, Append(Append(frames, Role), Said(u, e)))
  <1> DEFINE t == Append(s, e)
             f == Said(u, e)
  <1>1. /\ Len(s) \in Nat /\ Len(t) = Len(s) + 1
        /\ Len(frames) \in Nat /\ DOMAIN frames = 1..Len(frames)
    BY Appended, FrameAppended
  <1>2. /\ u \in Transformers
        /\ e.kind = "created" => u = New
        /\ e.kind # "created" =>
             /\ u.nextIndex = IF Opens(st, e) THEN st.nextIndex + 1 ELSE st.nextIndex
             /\ u.role <=> \/ st.role
                           \/ e.kind \in {"text", "reasoning", "added"}
                           \/ e.kind = "args" /\ st.index[e.item] # NoIndex
    <2>1. u \in Transformers
      BY TransformState
    <2>2. e.kind = "created" => u = New
      BY TransformState
    <2>3. e.kind # "created" =>
             /\ u.nextIndex = IF Opens(st, e) THEN st.nextIndex + 1 ELSE st.nextIndex
             /\ u.role <=> \/ st.role
                           \/ e.kind \in {"text", "reasoning", "added"}
                           \/ e.kind = "args" /\ st.index[e.item] # NoIndex
      BY TransformState
    <2>4. QED
      BY <2>1, <2>2, <2>3
  <1>3. st.nextIndex \in Nat /\ st.role \in BOOLEAN
    BY DEF Transformers
  <1>4. \A j \in 1..Len(frames) : /\ frames[j].index \in Int /\ frames[j].n \in Nat
    <2>1. \A j \in 1..Len(frames) : frames[j] \in Frames
      BY <1>1
    <2>2. QED
      BY <2>1 DEF Frames, NoIndex
  <1>5. \A j \in 1..Len(frames) : frames[j].kind = "args" => frames[j].n <= Len(t)
    <2>1. \A j \in 1..Len(frames) : frames[j].kind = "args" => frames[j].n <= Len(s)
      BY <1>1 DEF Bounded
    <2>2. QED
      BY <1>1, <1>4, <2>1
  <1>6. \A j \in Current(frames) : j \in 1..Len(frames)
    BY <1>1 DEF Current
  <1>7. e.kind # "created" /\ st.role =>
          \A j \in Current(frames) : frames[j].kind \in {"args", "tool"} => frames[j].index < u.nextIndex
    <2>1. st.role => \A j \in Current(frames) :
            frames[j].kind \in {"args", "tool"} => frames[j].index < st.nextIndex
      BY DEF Bounded
    <2>2. st.nextIndex <= u.nextIndex \/ e.kind = "created"
      BY <1>2, <1>3
    <2>3. u.nextIndex \in Nat
      BY <1>2 DEF Transformers
    <2>4. QED
      BY <1>3, <1>4, <1>6, <2>1, <2>2, <2>3
  <1>8. Says(st, e) => /\ f \in Frames /\ f.kind # "role" /\ Role \in Frames /\ Role.kind = "role"
                       /\ f.kind \in {"args", "tool"} => f.index < u.nextIndex
                       /\ f.kind = "args" => f.n <= Len(t)
    <2>1. ASSUME Says(st, e) PROVE f \in Frames /\ Role \in Frames /\ Role.kind = "role"
      BY <2>1, SaidIsFrame DEF Role, Plain, Frame
    <2>2. ASSUME Says(st, e) PROVE f.kind = (IF e.kind = "added" THEN "tool" ELSE e.kind)
      BY DEF Said, Frame, Plain
    <2>3. f.kind \in {"args", "tool"} /\ Says(st, e) => e.kind \in ItemKinds /\ f.index = u.index[e.item]
      BY DEF Said, Frame, Plain, ItemKinds, Says
    <2>4. e.kind \in ItemKinds => u.index[e.item] < u.nextIndex
      <3>1. \A i \in Items : u.index[i] < u.nextIndex
        BY FollowsOn DEF Follows
      <3>2. QED
        BY <3>1 DEF Events
    <2>5. f.kind = "args" /\ Says(st, e) => f.n = e.n
      BY DEF Said, Frame, Plain, Says
    <2>6. QED
      BY <1>1, <2>1, <2>2, <2>3, <2>4, <2>5 DEF Says
  <1>9. e.kind = "created" => u.role = FALSE
    BY <1>2 DEF New
  <1> HIDE DEF t, f
  <1>10. ~Says(st, e) => Bounded(t, u, frames)
    <2>1. ~Says(st, e) /\ u.role => st.role /\ e.kind # "created"
      BY <1>2, <1>9 DEF Says
    <2>2. QED
      BY <1>1, <1>5, <1>7, <2>1 DEF Bounded
  <1>11. ASSUME e.kind = "completed" PROVE Bounded(t, u, Append(frames, Finish(st)))
    <2>1. /\ Finish(st) \in Frames /\ Finish(st).kind \in {"stop", "tool_calls"}
      BY SaidIsFrame DEF Finish, Plain, Frame
    <2>2. u.role => st.role
      BY <1>2, <1>11
    <2> DEFINE g == Append(frames, Finish(st))
    <2>3. /\ g[Len(frames) + 1] = Finish(st) /\ \A j \in 1..Len(frames) : g[j] = frames[j]
          /\ DOMAIN g = 1..(Len(frames) + 1)
          /\ Current(g) = Current(frames) \union {Len(frames) + 1}
      BY <2>1, FrameAppended, CurrentAppended
    <2> HIDE DEF g
    <2>4. Bounded(t, u, g)
      BY <1>1, <1>5, <1>6, <1>7, <1>11, <2>1, <2>2, <2>3 DEF Bounded
    <2>5. QED
      BY <2>4 DEF g
  <1>12. ASSUME Says(st, e), st.role PROVE Bounded(t, u, Append(frames, f))
    <2> DEFINE g == Append(frames, f)
    <2>1. e.kind # "created"
      BY <1>12 DEF Says
    <2>2. /\ g[Len(frames) + 1] = f /\ \A j \in 1..Len(frames) : g[j] = frames[j]
          /\ DOMAIN g = 1..(Len(frames) + 1)
          /\ Current(g) = Current(frames) \union {Len(frames) + 1}
      BY <1>8, <1>12, FrameAppended, CurrentAppended
    <2> HIDE DEF g
    <2>3. Bounded(t, u, g)
      BY <1>1, <1>5, <1>6, <1>7, <1>8, <1>12, <2>1, <2>2 DEF Bounded
    <2>4. QED
      BY <2>3 DEF g
  <1>13. ASSUME Says(st, e), ~st.role PROVE Bounded(t, u, Append(Append(frames, Role), f))
    <2> DEFINE h == Append(frames, Role)
               g == Append(h, f)
    <2>1. /\ h \in Seq(Frames) /\ Len(h) = Len(frames) + 1 /\ h[Len(frames) + 1] = Role
          /\ \A j \in 1..Len(frames) : h[j] = frames[j]
          /\ Current(h) = {Len(frames) + 1} /\ DOMAIN h = 1..(Len(frames) + 1)
      BY <1>8, <1>13, FrameAppended, CurrentAppended
    <2> HIDE DEF h
    <2>2. /\ g[Len(frames) + 2] = f /\ DOMAIN g = 1..(Len(frames) + 2)
          /\ \A j \in 1..(Len(frames) + 1) : g[j] = h[j]
          /\ Current(g) = {Len(frames) + 1, Len(frames) + 2}
      <3>1. /\ g[Len(h) + 1] = f /\ DOMAIN g = 1..(Len(h) + 1)
            /\ \A j \in 1..Len(h) : g[j] = h[j]
            /\ Current(g) = Current(h) \union {Len(h) + 1}
        BY <1>8, <1>13, <2>1, FrameAppended, CurrentAppended
      <3>2. Len(h) + 1 = Len(frames) + 2
        BY <1>1, <2>1
      <3>3. QED
        BY <2>1, <3>1, <3>2
    <2>3. g[Len(frames) + 1] = Role
      BY <1>1, <2>1, <2>2
    <2> HIDE DEF g
    <2>4. \A j \in Current(g) : g[j].kind \in {"args", "tool"} => g[j].index < u.nextIndex
      BY <1>8, <1>13, <2>2, <2>3
    <2>5. \A j \in DOMAIN g : g[j].kind = "args" => g[j].n <= Len(t)
      <3>1. \A j \in DOMAIN g : j \in 1..Len(frames) \/ j = Len(frames) + 1 \/ j = Len(frames) + 2
        BY <1>1, <2>2
      <3>2. \A j \in 1..Len(frames) : g[j] = frames[j]
        BY <1>1, <2>1, <2>2
      <3>3. QED
        BY <1>5, <1>8, <1>13, <2>2, <2>3, <3>1, <3>2
    <2>6. Bounded(t, u, g)
      BY <2>4, <2>5 DEF Bounded
    <2>7. QED
      BY <2>6 DEF g, h
  <1>14. QED
    BY <1>10, <1>11, <1>12, <1>13 DEF t, f

\* What the relay appends for an event keeps everything.
LEMMA TracksOn ==
  ASSUME NEW s \in Seq(Events), NEW e \in Events, e.n = Len(s) + 1,
         NEW st \in Transformers, Follows(s, st),
         NEW frames, Tracks(s, st, frames),
         NEW r, r = Rewritten(st, e)
  PROVE  Tracks(Append(s, e), r.st, frames \o r.frames)
  <1> DEFINE t == Append(s, e)
             u == r.st
  <1>1. /\ r.st = Transform(st, e).st
        /\ Says(st, e) => r.frames = IF st.role THEN <<Said(r.st, e)>> ELSE <<Role, Said(r.st, e)>>
        /\ e.kind = "completed" => r.frames = <<Finish(st)>>
        /\ ~Says(st, e) /\ e.kind # "completed" => r.frames \in {<<>>, <<Plain("chunk", e.n)>>}
    BY RewrittenFrames
  <1>2. u = Transform(st, e).st
    BY <1>1
  <1>3. frames \in Seq(Frames) /\ Bounded(s, st, frames)
    BY DEF Tracks, Bounded
  <1>4. FinishesName(s, frames) /\ Cardinality(Roles(frames)) = Cardinality(Opening(s))
    BY DEF Tracks
  <1>5. /\ Role \in Frames /\ Finish(st) \in Frames
        /\ Plain("chunk", e.n) \in Frames
        /\ Says(st, e) => Said(u, e) \in Frames
    BY <1>2, SaidIsFrame
  <1>6. /\ Role.kind = "role" /\ Finish(st).kind \in {"stop", "tool_calls"}
        /\ Plain("chunk", e.n).kind = "chunk"
        /\ Says(st, e) => Said(u, e).kind \in {"text", "reasoning", "tool", "args"} /\ e.kind # "completed"
    BY DEF Role, Finish, Plain, Frame, Says, Said
  <1> HIDE DEF t, u
  <1>7. CASE Says(st, e) /\ st.role
    <2> DEFINE g == Append(frames, Said(u, e))
    <2>1. frames \o r.frames = g
      BY <1>1, <1>3, <1>5, <1>7, AppendIsConcat DEF u
    <2>2. /\ g \in Seq(Frames) /\ Finishes(g) = Finishes(frames)
          /\ \A j \in DOMAIN frames : g[j] = frames[j]
      BY <1>3, <1>5, <1>6, <1>7, FrameAppended, RolesAppended
    <2>3. Reassembles(t, g)
      BY <1>2, <1>3, <1>7, ReassemblesOn DEF t
    <2>4. Cardinality(Roles(g)) = Cardinality(Opening(t))
      BY <1>3, <1>4, <1>5, <1>6, <1>7, RolesOn DEF t
    <2>5. Bounded(t, u, g)
      BY <1>2, <1>3, <1>7, BoundedOn DEF t
    <2> HIDE DEF g
    <2>6. FinishesName(t, g)
      BY <1>3, <1>4, <1>6, <1>7, <2>2, FinishesKept DEF t
    <2>7. QED
      BY <2>1, <2>2, <2>3, <2>4, <2>5, <2>6 DEF Tracks, Bounded, t, u
  <1>8. CASE Says(st, e) /\ ~st.role
    <2> DEFINE h == Append(frames, Role)
               g == Append(h, Said(u, e))
    <2>1. frames \o r.frames = g
      <3>1. r.frames = <<Role, Said(u, e)>>
        BY <1>1, <1>8 DEF u
      <3>2. QED
        BY <1>3, <1>5, <1>8, <3>1
    <2>2. /\ h \in Seq(Frames) /\ Finishes(h) = Finishes(frames)
          /\ \A j \in DOMAIN frames : h[j] = frames[j] /\ j \in DOMAIN h
      BY <1>3, <1>5, <1>6, FrameAppended, RolesAppended
    <2>3. Reassembles(t, g)
      BY <1>2, <1>3, <1>8, ReassemblesOn DEF t
    <2>4. Cardinality(Roles(g)) = Cardinality(Opening(t))
      BY <1>3, <1>4, <1>5, <1>6, <1>8, RolesOn DEF t
    <2>5. Bounded(t, u, g)
      BY <1>2, <1>3, <1>8, BoundedOn DEF t
    <2> HIDE DEF h
    <2>6. /\ g \in Seq(Frames) /\ Finishes(g) = Finishes(frames)
          /\ \A j \in DOMAIN frames : g[j] = frames[j]
      <3>1. /\ g \in Seq(Frames) /\ Finishes(g) = Finishes(h)
            /\ \A j \in DOMAIN h : g[j] = h[j]
        BY <1>5, <1>6, <1>8, <2>2, FrameAppended, RolesAppended
      <3>2. QED
        BY <2>2, <3>1
    <2> HIDE DEF g
    <2>7. FinishesName(t, g)
      BY <1>3, <1>4, <1>6, <1>8, <2>6, FinishesKept DEF t
    <2>8. QED
      BY <2>1, <2>3, <2>4, <2>5, <2>6, <2>7 DEF Tracks, Bounded, t, u
  <1>9. ASSUME ~Says(st, e)
        PROVE  /\ Reassembles(t, frames) /\ Bounded(t, u, frames)
               /\ Cardinality(Roles(frames)) = Cardinality(Opening(t))
    <2>1. Reassembles(t, frames)
      BY <1>2, <1>3, <1>9, ReassemblesOn DEF t
    <2>2. Bounded(t, u, frames)
      BY <1>2, <1>3, <1>9, BoundedOn DEF t
    <2>3. Cardinality(Roles(frames)) = Cardinality(Opening(t))
      BY <1>3, <1>4, <1>5, <1>6, <1>9, RolesOn DEF t
    <2>4. QED
      BY <2>1, <2>2, <2>3
  <1>10. CASE e.kind = "completed"
    <2> DEFINE g == Append(frames, Finish(st))
    <2>1. frames \o r.frames = g
      BY <1>1, <1>3, <1>5, <1>10, AppendIsConcat
    <2>2. /\ ~Says(st, e) /\ ~Opens(st, e)
          /\ Announced(t) = Announced(s)
          /\ \A p \in Announced(t) : Holds(frames, Place(t, p), t[p].item, Own(t, p))
      BY <1>9, <1>10, AppendedNew DEF Says, Opens, Reassembles, t
    <2>3. Reassembles(t, g)
      <3>1. \A p \in Announced(t) : Holds(g, Place(t, p), t[p].item, Own(t, p))
        BY <1>3, <1>5, <1>6, <2>2, HoldsOn
      <3>2. QED
        BY <3>1 DEF Reassembles
    <2>4. Cardinality(Roles(g)) = Cardinality(Opening(t))
      BY <1>3, <1>4, <1>5, <1>6, <2>2, RolesOn DEF t
    <2>5. Bounded(t, u, g)
      BY <1>2, <1>3, <1>10, BoundedOn DEF t
    <2>6. FinishesName(t, g)
      BY <1>3, <1>4, <1>10, FinishesMore DEF t
    <2>7. g \in Seq(Frames)
      BY <1>3, <1>5
    <2> HIDE DEF g
    <2>8. QED
      BY <2>1, <2>3, <2>4, <2>5, <2>6, <2>7 DEF Tracks, Bounded, t, u
  <1>11. CASE ~Says(st, e) /\ e.kind # "completed"
    <2>1. FinishesName(t, frames)
      BY <1>3, <1>4, <1>11, FinishesKept DEF t
    <2>2. Tracks(t, u, frames)
      BY <1>3, <1>9, <1>11, <2>1 DEF Tracks, Bounded
    <2>3. CASE r.frames = <<>>
      BY <1>3, <2>2, <2>3 DEF t, u
    <2>4. CASE r.frames = <<Plain("chunk", e.n)>>
      <3>1. frames \o r.frames = Append(frames, Plain("chunk", e.n))
        BY <1>3, <1>5, <2>4, AppendIsConcat
      <3>2. t \in Seq(Events) /\ u \in Transformers
        BY <1>2, Appended, TransformState DEF t
      <3>3. QED
        BY <1>5, <1>6, <2>2, <3>1, <3>2, TracksIdle DEF t, u
    <2>5. QED
      BY <1>1, <1>11, <2>3, <2>4
  <1>12. QED
    BY <1>7, <1>8, <1>10, <1>11

-----------------------------------------------------------------------------
(* The buffered answer, for any events and accumulators *)

\* What a buffered call has to be: the arguments and the item of an index.
Fits(s, call, k) ==
  /\ Lists(call.arguments, NumberedAt(s, "args", k))
  /\ NumberedAt(s, "added", k) = {} => call.item = NoItem
  /\ \A p \in NumberedAt(s, "added", k) :
       (\A q \in NumberedAt(s, "added", k) : q <= p) => call.item = s[p].item

CallsFit(s, calls) == \A k \in Nat : Fits(s, CallAt(calls, k), k)

Buffers(s, acc) ==
  /\ acc \in Accumulators
  /\ Lists(acc.content, Numbered(s, "text"))
  /\ Lists(acc.reasoning, Numbered(s, "reasoning"))
  /\ CallsFit(s, acc.calls)

LEMMA ListsMore ==
  ASSUME NEW f \in Seq(Nat), NEW P, Lists(f, P), NEW n \in Nat, \A x \in P : x < n
  PROVE  Lists(Append(f, n), P \union {n})
  <1> DEFINE g == Append(f, n)
  <1>1. /\ Len(f) \in Nat /\ DOMAIN f = 1..Len(f) /\ DOMAIN g = 1..(Len(f) + 1)
        /\ g[Len(f) + 1] = n /\ \A j \in 1..Len(f) : g[j] = f[j] /\ f[j] \in P
    BY DEF Lists
  <1> HIDE DEF g
  <1>2. {g[j] : j \in DOMAIN g} = P \union {n}
    <2>1. {f[j] : j \in 1..Len(f)} = P
      BY <1>1 DEF Lists
    <2>2. 1..(Len(f) + 1) = 1..Len(f) \union {Len(f) + 1}
      BY <1>1
    <2>3. {g[j] : j \in 1..Len(f)} = P
      BY <1>1, <2>1
    <2>4. QED
      BY <1>1, <2>2, <2>3
  <1>3. \A j, k \in DOMAIN g : j < k => g[j] < g[k]
    <2>1. \A j, k \in 1..Len(f) : j < k => f[j] < f[k]
      BY <1>1 DEF Lists
    <2>2. TAKE j, k \in DOMAIN g
    <2>3. HAVE j < k
    <2>4. j \in 1..Len(f) /\ (k \in 1..Len(f) \/ k = Len(f) + 1)
      BY <1>1, <2>3
    <2>5. QED
      BY <1>1, <2>1, <2>3, <2>4
  <1>4. QED
    BY <1>2, <1>3 DEF Lists, g

LEMMA WithArguments ==
  ASSUME NEW call \in Call, NEW x
  PROVE  [call EXCEPT !.arguments = x] = [item |-> call.item, arguments |-> x]
  BY DEF Call

\* Every call typed: any frame keeps the accumulators typed.
LEMMA SetCallTypes ==
  ASSUME NEW calls \in Seq(Call), NEW index \in Nat, NEW call \in Call
  PROVE  SetCall(calls, index, call) \in Seq(Call) /\ CallAt(calls, index) \in Call
  <1> DEFINE n == IF index < Len(calls) THEN Len(calls) ELSE index + 1
  <1>1. NoCall \in Call
    BY DEF NoCall, Call
  <1>2. \A k \in Nat : CallAt(calls, k) \in Call
    BY <1>1 DEF CallAt
  <1>3. n \in Nat /\ \A k \in 1..n : k - 1 \in Nat
    OBVIOUS
  <1>4. \A k \in 1..n : (IF k = index + 1 THEN call ELSE CallAt(calls, k - 1)) \in Call
    BY <1>2, <1>3
  <1>5. SetCall(calls, index, call) = [k \in 1..n |-> IF k = index + 1 THEN call ELSE CallAt(calls, k - 1)]
    BY DEF SetCall
  <1> HIDE DEF n
  <1>6. QED
    BY <1>2, <1>3, <1>4, <1>5

LEMMA CallTyped ==
  ASSUME NEW calls \in Seq(Call), NEW k \in Nat
  PROVE  CallAt(calls, k) \in Call
  <1>1. NoCall \in Call
    BY DEF NoCall, Call
  <1>2. QED
    BY <1>1 DEF CallAt

\* An assignment changes the call at its index and no other, gaps included.
LEMMA SetCallAt ==
  ASSUME NEW calls \in Seq(Call), NEW index \in Nat, NEW call \in Call, NEW k \in Nat
  PROVE  CallAt(SetCall(calls, index, call), k) = IF k = index THEN call ELSE CallAt(calls, k)
  <1> DEFINE n == IF index < Len(calls) THEN Len(calls) ELSE index + 1
             c == SetCall(calls, index, call)
  <1>1. Len(calls) \in Nat /\ n \in Nat /\ index < n /\ n >= Len(calls)
    OBVIOUS
  <1>2. c = [j \in 1..n |-> IF j = index + 1 THEN call ELSE CallAt(calls, j - 1)]
    BY DEF SetCall
  <1>3. c \in Seq(Call)
    BY SetCallTypes
  <1> HIDE DEF n, c
  <1>4. Len(c) = n
    BY <1>1, <1>2, <1>3
  <1>5. CASE k < n
    <2>1. CallAt(c, k) = c[k + 1] /\ k + 1 \in 1..n
      BY <1>1, <1>4, <1>5 DEF CallAt
    <2>2. c[k + 1] = IF k + 1 = index + 1 THEN call ELSE CallAt(calls, (k + 1) - 1)
      BY <1>2, <2>1
    <2>3. (k + 1) - 1 = k /\ (k + 1 = index + 1 <=> k = index)
      OBVIOUS
    <2>4. QED
      BY <2>1, <2>2, <2>3 DEF c
  <1>6. CASE ~(k < n)
    <2>1. CallAt(c, k) = NoCall /\ CallAt(calls, k) = NoCall /\ k # index
      BY <1>1, <1>4, <1>6 DEF CallAt
    <2>2. QED
      BY <2>1 DEF c
  <1>7. QED
    BY <1>5, <1>6

\* What buffer_chat_completion accumulates for an event.
LEMMA Folded ==
  ASSUME NEW st \in Transformers, NEW e \in Events, NEW acc, NEW r, r = Transform(st, e)
  PROVE  FoldLeft(Accumulate, acc, r.frames) =
           IF Says(st, e) THEN Accumulate(acc, Said(r.st, e))
           ELSE IF e.kind = "completed" THEN Accumulate(acc, Finish(st)) ELSE acc
  <1>1. Accumulate(acc, Role) = acc
    BY DEF Accumulate, Role, Plain, Frame
  <1>2. CASE Says(st, e)
    <2>1. r.frames = IF st.role THEN <<Said(r.st, e)>> ELSE <<Role, Said(r.st, e)>>
      BY <1>2, TransformFrames
    <2>2. FoldLeft(Accumulate, acc, <<Said(r.st, e)>>) = Accumulate(acc, Said(r.st, e))
      BY FoldOne
    <2>3. FoldLeft(Accumulate, acc, <<Role, Said(r.st, e)>>) = Accumulate(Accumulate(acc, Role), Said(r.st, e))
      <3>1. \A f, h : FoldLeft(Accumulate, acc, <<f, h>>) = Accumulate(Accumulate(acc, f), h)
        BY FoldTwo
      <3>2. QED
        BY <3>1, Zenon
    <2>4. QED
      BY <1>1, <1>2, <2>1, <2>2, <2>3
  <1>3. CASE e.kind = "completed"
    <2>1. ~Says(st, e) /\ r.frames = <<Finish(st)>>
      BY <1>3, TransformFrames DEF Says
    <2>2. QED
      BY <1>3, <2>1, FoldOne
  <1>4. CASE ~Says(st, e) /\ e.kind # "completed"
    <2>1. r.frames = <<>>
      BY <1>4, TransformFrames
    <2>2. QED
      BY <1>4, <2>1, FoldNone
  <1>5. QED
    BY <1>2, <1>3, <1>4

\* The index that an event of the past has stays what it was.
LEMMA IndexOld ==
  ASSUME NEW s \in Seq(Events), NEW e \in Events, NEW p \in 1..Len(s), NEW k \in Nat
  PROVE  AtIndex(Append(s, e), p, k) <=> AtIndex(s, p, k)
  <1> DEFINE t == Append(s, e)
  <1>1. /\ Len(s) \in Nat
        /\ \A q \in 1..Len(s) : /\ t[q] = s[q] /\ (Announces(t, q) <=> Announces(s, q))
                               /\ Place(t, q) = Place(s, q)
        /\ \A q \in 1..Len(s), r \in 1..Len(s) : SameResponse(t, q, r) <=> SameResponse(s, q, r)
    BY Appended, AppendedSame, AppendedOld
  <1> HIDE DEF t
  <1>2. \A q \in 1..p : q \in 1..Len(s)
    BY <1>1
  <1>3. QED
    BY <1>1, <1>2 DEF AtIndex, t

\* The index of the new event is the one its item has in the state it leaves.
LEMMA IndexNew ==
  ASSUME NEW s \in Seq(Events), NEW e \in Events, e.kind \in ItemKinds,
         NEW st \in Transformers, Follows(s, st), NEW u, u = Transform(st, e).st, NEW k \in Nat
  PROVE  AtIndex(Append(s, e), Len(s) + 1, k) <=> u.index[e.item] = k
  <1> DEFINE t == Append(s, e)
             n == Len(s) + 1
  <1>1. t \in Seq(Events) /\ Len(t) = n /\ DOMAIN t = 1..n /\ t[n] = e /\ e.item \in Items
    BY Appended DEF Events
  <1>2. Follows(t, u)
    BY FollowsOn
  <1> HIDE DEF t
  <1>3. AtIndex(t, n, k) <=> \E q \in Announced(t) : t[q].item = e.item /\ Place(t, q) = k
    BY <1>1 DEF AtIndex, Announced
  <1>4. /\ u.index[e.item] # NoIndex <=> \E q \in Announced(t) : t[q].item = e.item
        /\ \A q \in Announced(t) : t[q].item = e.item => u.index[e.item] = Place(t, q)
    BY <1>1, <1>2 DEF Follows
  <1>5. k # NoIndex
    BY DEF NoIndex
  <1>6. QED
    BY <1>3, <1>4, <1>5 DEF t

LEMMA NumberedAppended ==
  ASSUME NEW s \in Seq(Events), NEW e \in Events, NEW kind
  PROVE  /\ Numbered(Append(s, e), kind) =
              IF e.kind = kind /\ e.numbered THEN Numbered(s, kind) \union {Len(s) + 1}
              ELSE Numbered(s, kind)
         /\ \A x \in Numbered(s, kind) : x \in 1..Len(s)
  BY Appended DEF Numbered

\* The parts of a call: the new event is one when it is numbered and has its index.
LEMMA PartsAppended ==
  ASSUME NEW s \in Seq(Events), NEW e \in Events, NEW kind, NEW k \in Nat
  PROVE  /\ NumberedAt(Append(s, e), kind, k) =
              IF e.kind = kind /\ e.numbered /\ AtIndex(Append(s, e), Len(s) + 1, k)
              THEN NumberedAt(s, kind, k) \union {Len(s) + 1} ELSE NumberedAt(s, kind, k)
         /\ \A x \in NumberedAt(s, kind, k) : x \in 1..Len(s)
  <1> DEFINE t == Append(s, e)
             n == Len(s) + 1
  <1>1. /\ Numbered(t, kind) = IF e.kind = kind /\ e.numbered THEN Numbered(s, kind) \union {n}
                               ELSE Numbered(s, kind)
        /\ \A x \in Numbered(s, kind) : x \in 1..Len(s)
    BY NumberedAppended
  <1>2. \A p \in 1..Len(s) : AtIndex(t, p, k) <=> AtIndex(s, p, k)
    BY IndexOld
  <1> HIDE DEF t
  <1>3. QED
    BY <1>1, <1>2 DEF NumberedAt, t

\* A call keeps fitting an index that gets no part.
LEMMA FitsStill ==
  ASSUME NEW s \in Seq(Events), NEW e \in Events, NEW call, NEW k \in Nat, Fits(s, call, k),
         \/ e.kind \notin ItemKinds \/ ~e.numbered
         \/ ~AtIndex(Append(s, e), Len(s) + 1, k)
  PROVE  Fits(Append(s, e), call, k)
  <1> DEFINE t == Append(s, e)
  <1>1. /\ NumberedAt(t, "args", k) = NumberedAt(s, "args", k)
        /\ NumberedAt(t, "added", k) = NumberedAt(s, "added", k)
        /\ \A p \in NumberedAt(s, "added", k) : p \in 1..Len(s)
    BY PartsAppended DEF ItemKinds
  <1>2. \A p \in 1..Len(s) : t[p] = s[p]
    BY Appended
  <1> HIDE DEF t
  <1>3. QED
    BY <1>1, <1>2 DEF Fits, t

\* What an event makes of the calls.
CallsOf(st, e, u, calls) ==
  LET index == u.index[e.item]
      call == CallAt(calls, index)
  IN IF ~Says(st, e) \/ e.kind \in {"text", "reasoning"} THEN calls
     ELSE IF e.kind = "added" THEN SetCall(calls, index, [call EXCEPT !.item = e.item])
     ELSE SetCall(calls, index, [call EXCEPT !.arguments = Append(@, e.n)])

\* A call that is written to has an index.
LEMMA IndexKnown ==
  ASSUME NEW st \in Transformers, NEW e \in Events, e.item \in Items, Says(st, e),
         e.kind \in {"added", "args"}, NEW u, u = Transform(st, e).st
  PROVE  u.index[e.item] \in Nat
  <1>1. u.index = IF Opens(st, e) THEN [st.index EXCEPT ![e.item] = st.nextIndex] ELSE st.index
    BY TransformState
  <1>2. st.index \in [Items -> Nat \union {NoIndex}] /\ st.nextIndex \in Nat
    BY DEF Transformers
  <1>3. CASE Opens(st, e)
    BY <1>1, <1>2, <1>3
  <1>4. CASE ~Opens(st, e)
    <2>1. st.index[e.item] # NoIndex
      BY <1>4 DEF Opens, Says
    <2>2. QED
      BY <1>1, <1>2, <1>4, <2>1
  <1>5. QED
    BY <1>3, <1>4

LEMMA CallsOn ==
  ASSUME NEW s \in Seq(Events), NEW e \in Events, e.n = Len(s) + 1, e.numbered,
         NEW st \in Transformers, Follows(s, st),
         NEW calls \in Seq(Call), CallsFit(s, calls),
         NEW u, u = Transform(st, e).st
  PROVE  CallsFit(Append(s, e), CallsOf(st, e, u, calls))
  <1> DEFINE t == Append(s, e)
             n == Len(s) + 1
             index == u.index[e.item]
             call == CallAt(calls, index)
             result == CallsOf(st, e, u, calls)
  <1>1. /\ n \in Nat /\ t[n] = e /\ e.n = n
        /\ e.kind \in ItemKinds => e.item \in Items
    BY Appended DEF Events
  <1>2. \A k \in Nat : Fits(s, CallAt(calls, k), k)
    BY DEF CallsFit
  <1>3. \A k \in Nat : e.kind \in ItemKinds => (AtIndex(t, n, k) <=> index = k)
    BY IndexNew
  <1>4. \A k \in Nat, kind \in {"args", "added"} :
          /\ NumberedAt(t, kind, k) =
               IF e.kind = kind /\ index = k THEN NumberedAt(s, kind, k) \union {n}
               ELSE NumberedAt(s, kind, k)
          /\ \A x \in NumberedAt(s, kind, k) : x < n /\ t[x] = s[x]
    <2>1. TAKE k \in Nat, kind \in {"args", "added"}
    <2>2. /\ NumberedAt(t, kind, k) =
               IF e.kind = kind /\ e.numbered /\ AtIndex(t, n, k)
               THEN NumberedAt(s, kind, k) \union {n} ELSE NumberedAt(s, kind, k)
          /\ \A x \in NumberedAt(s, kind, k) : x \in 1..Len(s)
      BY PartsAppended
    <2>3. \A x \in 1..Len(s) : x < n /\ t[x] = s[x]
      BY Appended
    <2>4. e.kind = kind => (AtIndex(t, n, k) <=> index = k)
      BY <1>3 DEF ItemKinds
    <2>5. QED
      BY <2>2, <2>3, <2>4
  <1>5. \A k \in Nat : e.kind \notin ItemKinds \/ index # k => Fits(t, CallAt(calls, k), k)
    BY <1>2, <1>3, FitsStill
  <1>6. CASE ~Says(st, e) \/ e.kind \in {"text", "reasoning"}
    <2>1. result = calls
      BY <1>6, Zenon DEF CallsOf
    <2>2. e.kind \in ItemKinds => index = NoIndex
      <3>1. HAVE e.kind \in ItemKinds
      <3>2. e.kind = "args" /\ ~Opens(st, e) /\ st.index[e.item] = NoIndex
        BY <1>6, <3>1 DEF Says, ItemKinds, Opens
      <3>3. u.index = st.index
        BY <3>2, TransformIndex
      <3>4. QED
        BY <3>2, <3>3
    <2>3. \A k \in Nat : k # NoIndex
      BY DEF NoIndex
    <2> HIDE DEF result, t, index
    <2>4. QED
      BY <1>5, <2>1, <2>2, <2>3 DEF CallsFit, result, t
  <1>7. CASE Says(st, e) /\ e.kind \in {"added", "args"}
    <2>1. e.item \in Items /\ index \in Nat
      BY <1>1, <1>7, IndexKnown DEF ItemKinds
    <2>2. call \in Call /\ Fits(s, call, index)
      BY <1>2, <2>1, CallTyped
    <2>3. call.arguments \in Seq(Nat) /\ call.item \in Items \union {NoItem}
      BY <2>2 DEF Call
    <2> DEFINE new == IF e.kind = "added" THEN [call EXCEPT !.item = e.item]
                      ELSE [call EXCEPT !.arguments = Append(@, e.n)]
    <2>4. result = SetCall(calls, index, new)
      <3>1. ~(~Says(st, e) \/ e.kind \in {"text", "reasoning"})
        BY <1>7
      <3>2. CASE e.kind = "added"
        BY <3>1, <3>2, Zenon DEF CallsOf
      <3>3. CASE e.kind # "added"
        BY <3>1, <3>3, Zenon DEF CallsOf
      <3>4. QED
        BY <3>2, <3>3
    <2>5. /\ new \in Call
          /\ e.kind = "added" => new.item = e.item /\ new.arguments = call.arguments
          /\ e.kind = "args" => new.item = call.item /\ new.arguments = Append(call.arguments, n)
      <3> HIDE DEF call, n
      <3>1. CASE e.kind = "added"
        BY <2>1, <2>2, <3>1 DEF Call
      <3>2. CASE e.kind = "args"
        <4> DEFINE more == Append(call.arguments, n)
        <4>1. more \in Seq(Nat)
          BY <1>1, <2>3
        <4>2. new = [call EXCEPT !.arguments = more]
          BY <1>1, <3>2
        <4> HIDE DEF more, new
        <4>3. new = [item |-> call.item, arguments |-> more]
          BY <2>2, <4>2, WithArguments
        <4>4. new \in Call /\ new.item = call.item /\ new.arguments = more
          BY <2>3, <4>1, <4>3 DEF Call
        <4>5. QED
          BY <3>2, <4>4 DEF more
      <3>3. QED
        BY <1>7, <3>1, <3>2
    <2> HIDE DEF new
    <2>6. \A k \in Nat : CallAt(result, k) = IF k = index THEN new ELSE CallAt(calls, k)
      BY <2>1, <2>4, <2>5, SetCallAt
    <2>7. Fits(t, new, index)
      <3> HIDE DEF t, n, index, call
      <3>1. /\ Lists(call.arguments, NumberedAt(s, "args", index))
            /\ NumberedAt(s, "added", index) = {} => call.item = NoItem
            /\ \A p \in NumberedAt(s, "added", index) :
                 (\A q \in NumberedAt(s, "added", index) : q <= p) => call.item = s[p].item
        BY <2>2 DEF Fits
      <3>2. CASE e.kind = "added"
        <4>1. /\ NumberedAt(t, "args", index) = NumberedAt(s, "args", index)
              /\ NumberedAt(t, "added", index) = NumberedAt(s, "added", index) \union {n}
              /\ \A x \in NumberedAt(s, "added", index) : x < n
          BY <1>4, <2>1, <3>2
        <4>2. \A x \in NumberedAt(s, "added", index) : ~(n <= x)
          <5>1. \A x \in NumberedAt(s, "added", index) : x \in Nat
            BY PartsAppended, <2>1
          <5>2. QED
            BY <1>1, <4>1, <5>1
        <4>3. \A p \in NumberedAt(t, "added", index) :
                (\A q \in NumberedAt(t, "added", index) : q <= p) => p = n
          BY <4>1, <4>2
        <4>4. QED
          BY <1>1, <2>5, <3>1, <3>2, <4>1, <4>3 DEF Fits
      <3>3. CASE e.kind = "args"
        <4>1. /\ NumberedAt(t, "args", index) = NumberedAt(s, "args", index) \union {n}
              /\ NumberedAt(t, "added", index) = NumberedAt(s, "added", index)
              /\ \A x \in NumberedAt(s, "args", index) : x < n
              /\ \A x \in NumberedAt(s, "added", index) : t[x] = s[x]
          BY <1>4, <2>1, <3>3
        <4>2. Lists(Append(call.arguments, n), NumberedAt(s, "args", index) \union {n})
          BY <1>1, <2>3, <3>1, <4>1, ListsMore
        <4>3. QED
          BY <2>5, <3>1, <3>3, <4>1, <4>2 DEF Fits
      <3>4. QED
        BY <1>7, <3>2, <3>3
    <2> HIDE DEF result, t, index
    <2>8. QED
      BY <1>5, <2>6, <2>7 DEF CallsFit, result, t
  <1>8. QED
    BY <1>6, <1>7 DEF Says

LEMMA WithField ==
  ASSUME NEW A, NEW B, NEW C, NEW D, NEW x,
         NEW acc \in [content: A, reasoning: B, finish: C, calls: D]
  PROVE  /\ [acc EXCEPT !.content = x]
              = [content |-> x, reasoning |-> acc.reasoning, finish |-> acc.finish, calls |-> acc.calls]
         /\ [acc EXCEPT !.reasoning = x]
              = [content |-> acc.content, reasoning |-> x, finish |-> acc.finish, calls |-> acc.calls]
         /\ [acc EXCEPT !.calls = x]
              = [content |-> acc.content, reasoning |-> acc.reasoning, finish |-> acc.finish, calls |-> x]
  OBVIOUS

LEMMA WithAccumulated ==
  ASSUME NEW acc \in Accumulators
  PROVE  /\ \A x : [acc EXCEPT !.content = x]
              = [content |-> x, reasoning |-> acc.reasoning, finish |-> acc.finish, calls |-> acc.calls]
         /\ \A x : [acc EXCEPT !.reasoning = x]
              = [content |-> acc.content, reasoning |-> x, finish |-> acc.finish, calls |-> acc.calls]
         /\ \A x : [acc EXCEPT !.calls = x]
              = [content |-> acc.content, reasoning |-> acc.reasoning, finish |-> acc.finish, calls |-> x]
  <1> DEFINE A == Seq(Nat)
             C == {"", "stop", "tool_calls"}
             D == Seq(Call)
  <1>1. acc \in [content: A, reasoning: A, finish: C, calls: D]
    BY DEF Accumulators
  <1> HIDE DEF A, C, D
  <1>2. QED
    BY <1>1, WithField

\* What an event makes of the accumulators, when it leaves the transformer in u.
Accumulated(st, e, u, acc) ==
  IF Says(st, e) THEN Accumulate(acc, Said(u, e))
  ELSE IF e.kind = "completed" THEN Accumulate(acc, Finish(st)) ELSE acc

\* The same, field by field.
Accumulates(st, e, u, acc, b) ==
  /\ b.content = IF e.kind = "text" THEN Append(acc.content, e.n) ELSE acc.content
  /\ b.reasoning = IF e.kind = "reasoning" THEN Append(acc.reasoning, e.n) ELSE acc.reasoning
  /\ b.finish \in {"", "stop", "tool_calls"}
  /\ b.calls = CallsOf(st, e, u, acc.calls)
  /\ b = [content |-> b.content, reasoning |-> b.reasoning, finish |-> b.finish, calls |-> b.calls]

LEMMA AccumulatedFields ==
  ASSUME NEW st \in Transformers, NEW e \in Events, NEW acc \in Accumulators,
         NEW u, u = Transform(st, e).st,
         NEW b, b = Accumulated(st, e, u, acc)
  PROVE  Accumulates(st, e, u, acc, b)
  <1> SUFFICES /\ b.content = IF e.kind = "text" THEN Append(acc.content, e.n) ELSE acc.content
               /\ b.reasoning = IF e.kind = "reasoning" THEN Append(acc.reasoning, e.n) ELSE acc.reasoning
               /\ b.finish \in {"", "stop", "tool_calls"}
               /\ b.calls = CallsOf(st, e, u, acc.calls)
               /\ b = [content |-> b.content, reasoning |-> b.reasoning, finish |-> b.finish, calls |-> b.calls]
    BY Zenon DEF Accumulates
  <1> DEFINE f == Said(u, e)
             index == u.index[e.item]
             call == CallAt(acc.calls, index)
             calls == CallsOf(st, e, u, acc.calls)
  <1>0. calls = IF ~Says(st, e) \/ e.kind \in {"text", "reasoning"} THEN acc.calls
                ELSE IF e.kind = "added"
                THEN SetCall(acc.calls, index, [call EXCEPT !.item = e.item])
                ELSE SetCall(acc.calls, index, [call EXCEPT !.arguments = Append(@, e.n)])
    BY Zenon DEF CallsOf
  <1> HIDE DEF calls
  <1>1. acc = [content |-> acc.content, reasoning |-> acc.reasoning, finish |-> acc.finish,
               calls |-> acc.calls]
        /\ acc.finish \in {"", "stop", "tool_calls"}
    BY DEF Accumulators
  <1>2. /\ Says(st, e) => b = Accumulate(acc, f)
        /\ e.kind = "completed" => b = Accumulate(acc, Finish(st))
        /\ ~Says(st, e) /\ e.kind # "completed" => b = acc
    BY DEF Says, Accumulated
  <1>11. ~Says(st, e) \/ e.kind \in {"text", "reasoning"} => calls = acc.calls
    BY <1>0, Zenon
  <1>3. CASE e.kind = "text"
    <2>1. f.kind = "text" /\ f.n = e.n
      BY <1>3 DEF Said, Plain, Frame
    <2>2. b = [acc EXCEPT !.content = Append(@, e.n)]
      BY <1>2, <1>3, <2>1 DEF Says, Accumulate
    <2>3. \A x : [acc EXCEPT !.content = x]
                   = [content |-> x, reasoning |-> acc.reasoning, finish |-> acc.finish, calls |-> acc.calls]
      BY WithAccumulated, Zenon
    <2>4. b = [content |-> Append(acc.content, e.n), reasoning |-> acc.reasoning,
               finish |-> acc.finish, calls |-> acc.calls]
      BY <2>2, <2>3, Zenon
    <2>5. QED
      <3> DEFINE more == Append(acc.content, e.n)
      <3>1. b = [content |-> more, reasoning |-> acc.reasoning, finish |-> acc.finish, calls |-> acc.calls]
        BY <2>4
      <3> HIDE DEF more
      <3>2. /\ b.content = more /\ b.reasoning = acc.reasoning /\ b.finish = acc.finish
            /\ b.calls = acc.calls
        BY <3>1
      <3>3. QED
        BY <1>1, <1>3, <1>11, <3>1, <3>2 DEF more, calls
  <1>4. CASE e.kind = "reasoning"
    <2>1. f.kind = "reasoning" /\ f.n = e.n
      BY <1>4 DEF Said, Plain, Frame
    <2>2. b = [acc EXCEPT !.reasoning = Append(@, e.n)]
      BY <1>2, <1>4, <2>1 DEF Says, Accumulate
    <2>3. \A x : [acc EXCEPT !.reasoning = x]
                   = [content |-> acc.content, reasoning |-> x, finish |-> acc.finish, calls |-> acc.calls]
      BY WithAccumulated, Zenon
    <2>4. b = [content |-> acc.content, reasoning |-> Append(acc.reasoning, e.n),
               finish |-> acc.finish, calls |-> acc.calls]
      BY <2>2, <2>3, Zenon
    <2>5. QED
      <3> DEFINE more == Append(acc.reasoning, e.n)
      <3>1. b = [content |-> acc.content, reasoning |-> more, finish |-> acc.finish, calls |-> acc.calls]
        BY <2>4
      <3> HIDE DEF more
      <3>2. /\ b.content = acc.content /\ b.reasoning = more /\ b.finish = acc.finish
            /\ b.calls = acc.calls
        BY <3>1
      <3>3. QED
        BY <1>1, <1>4, <1>11, <3>1, <3>2 DEF more, calls
  <1>5. \A x : [acc EXCEPT !.calls = x]
                 = [content |-> acc.content, reasoning |-> acc.reasoning, finish |-> acc.finish, calls |-> x]
    BY WithAccumulated, Zenon
  <1>6. CASE e.kind = "added"
    <2>1. f.kind = "tool" /\ f.index = index /\ f.item = e.item
      BY <1>6 DEF Said, Frame
    <2>2. Says(st, e) /\ b = Accumulate(acc, f)
      BY <1>2, <1>6 DEF Says
    <2> HIDE DEF f, index
    <2>3. b = [acc EXCEPT !.calls = SetCall(acc.calls, index, [call EXCEPT !.item = e.item])]
      BY <2>1, <2>2 DEF Accumulate, Opened
    <2>8. calls = SetCall(acc.calls, index, [call EXCEPT !.item = e.item])
      <3>1. Says(st, e) /\ e.kind \notin {"text", "reasoning"}
        BY <1>6, <2>2
      <3>2. QED
        BY <1>0, <1>6, <3>1, Zenon
    <2>4. b = [content |-> acc.content, reasoning |-> acc.reasoning, finish |-> acc.finish, calls |-> calls]
      BY <1>5, <2>3, <2>8, Zenon
    <2>5. /\ b.content = acc.content /\ b.reasoning = acc.reasoning /\ b.finish = acc.finish
          /\ b.calls = calls
      BY <2>4
    <2>6. b = [content |-> b.content, reasoning |-> b.reasoning, finish |-> b.finish, calls |-> b.calls]
      BY <2>4, <2>5, Zenon
    <2>7. QED
      BY <1>1, <1>6, <2>2, <2>5, <2>6 DEF calls
  <1>7. CASE e.kind = "args" /\ Says(st, e)
    <2>1. f.kind = "args" /\ f.index = index /\ f.n = e.n
      BY <1>7 DEF Said, Frame
    <2>2. b = Accumulate(acc, f)
      BY <1>2, <1>7
    <2> HIDE DEF f, index
    <2>3. b = [acc EXCEPT !.calls = SetCall(acc.calls, index, [call EXCEPT !.arguments = Append(@, e.n)])]
      BY <2>1, <2>2 DEF Accumulate, Argued
    <2>8. calls = SetCall(acc.calls, index, [call EXCEPT !.arguments = Append(@, e.n)])
      <3>1. Says(st, e) /\ e.kind \notin {"text", "reasoning"} /\ e.kind # "added"
        BY <1>7
      <3>2. QED
        BY <1>0, <3>1, Zenon
    <2>4. b = [content |-> acc.content, reasoning |-> acc.reasoning, finish |-> acc.finish, calls |-> calls]
      BY <1>5, <2>3, <2>8, Zenon
    <2>5. /\ b.content = acc.content /\ b.reasoning = acc.reasoning /\ b.finish = acc.finish
          /\ b.calls = calls
      BY <2>4
    <2>6. b = [content |-> b.content, reasoning |-> b.reasoning, finish |-> b.finish, calls |-> b.calls]
      BY <2>4, <2>5, Zenon
    <2>7. QED
      BY <1>1, <1>7, <2>5, <2>6 DEF calls
  <1>8. CASE e.kind = "completed"
    <2>1. Finish(st).kind \in {"stop", "tool_calls"}
      BY DEF Finish, Plain, Frame
    <2>2. ~Says(st, e)
      BY <1>8 DEF Says
    <2>3. b = [acc EXCEPT !.finish = Finish(st).kind]
      BY <1>2, <1>8, <2>1, <2>2 DEF Accumulate
    <2>4. QED
      BY <1>1, <1>8, <1>11, <2>1, <2>2, <2>3 DEF calls
  <1>9. CASE ~Says(st, e) /\ e.kind # "completed"
    <2>1. b = acc /\ e.kind \notin {"text", "reasoning"}
      BY <1>2, <1>9 DEF Says
    <2>2. QED
      BY <1>1, <1>9, <1>11, <2>1 DEF calls
  <1>10. QED
    BY <1>3, <1>4, <1>6, <1>7, <1>8, <1>9 DEF Says, calls

LEMMA Gathered ==
  ASSUME NEW s \in Seq(Events), NEW e \in Events, e.n = Len(s) + 1, e.numbered, NEW kind,
         NEW f \in Seq(Nat), Lists(f, Numbered(s, kind)),
         NEW g, g = IF e.kind = kind THEN Append(f, e.n) ELSE f
  PROVE  g \in Seq(Nat) /\ Lists(g, Numbered(Append(s, e), kind))
  <1>1. e.n \in Nat /\ Len(s) \in Nat
    BY DEF Events
  <1>2. /\ Numbered(Append(s, e), kind) =
              IF e.kind = kind THEN Numbered(s, kind) \union {e.n} ELSE Numbered(s, kind)
        /\ \A x \in Numbered(s, kind) : x < e.n
    BY <1>1, NumberedAppended
  <1>3. CASE e.kind = kind
    <2>1. Lists(Append(f, e.n), Numbered(s, kind) \union {e.n})
      BY <1>1, <1>2, ListsMore
    <2>2. QED
      BY <1>1, <1>2, <1>3, <2>1
  <1>4. QED
    BY <1>2, <1>3

\* An event without a number leaves the accumulators, and what they have to be.
LEMMA BuffersStill ==
  ASSUME NEW s \in Seq(Events), NEW e \in Events, ~e.numbered, NEW acc, Buffers(s, acc)
  PROVE  Buffers(Append(s, e), acc)
  <1>1. \A kind : Numbered(Append(s, e), kind) = Numbered(s, kind)
    BY NumberedAppended
  <1>2. CallsFit(Append(s, e), acc.calls)
    BY FitsStill DEF Buffers, CallsFit
  <1>3. QED
    BY <1>1, <1>2 DEF Buffers

\* One numbered event accumulated: nothing is lost, whatever the order.
LEMMA BuffersMore ==
  ASSUME NEW s \in Seq(Events), NEW e \in Events, e.n = Len(s) + 1, e.numbered,
         NEW st \in Transformers, Follows(s, st),
         NEW acc, Buffers(s, acc), NEW r, r = Transform(st, e)
  PROVE  Buffers(Append(s, e), FoldLeft(Accumulate, acc, r.frames))
  <1> DEFINE t == Append(s, e)
             u == r.st
             index == u.index[e.item]
             call == CallAt(acc.calls, index)
             calls == CallsOf(st, e, u, acc.calls)
             b == Accumulated(st, e, u, acc)
  <1>0. FoldLeft(Accumulate, acc, r.frames) = b
    <2>1. \A q : q = Transform(st, e) =>
            FoldLeft(Accumulate, acc, q.frames) =
              IF Says(st, e) THEN Accumulate(acc, Said(q.st, e))
              ELSE IF e.kind = "completed" THEN Accumulate(acc, Finish(st)) ELSE acc
      BY Folded, Zenon
    <2>2. QED
      BY <2>1, Zenon DEF Accumulated
  <1>1. /\ acc \in Accumulators
        /\ acc.content \in Seq(Nat) /\ acc.reasoning \in Seq(Nat) /\ acc.calls \in Seq(Call)
        /\ Lists(acc.content, Numbered(s, "text")) /\ Lists(acc.reasoning, Numbered(s, "reasoning"))
        /\ CallsFit(s, acc.calls)
    BY DEF Buffers, Accumulators
  <1>2. /\ b.content = IF e.kind = "text" THEN Append(acc.content, e.n) ELSE acc.content
        /\ b.reasoning = IF e.kind = "reasoning" THEN Append(acc.reasoning, e.n) ELSE acc.reasoning
        /\ b.finish \in {"", "stop", "tool_calls"}
        /\ b.calls = calls
        /\ b = [content |-> b.content, reasoning |-> b.reasoning, finish |-> b.finish,
                calls |-> b.calls]
    <2>1. u = Transform(st, e).st /\ b = Accumulated(st, e, u, acc)
      OBVIOUS
    <2> HIDE DEF u, b
    <2>2. acc \in Accumulators
      BY <1>1
    <2>3. Accumulates(st, e, u, acc, b)
      BY <2>1, <2>2, AccumulatedFields
    <2>4. QED
      BY <2>3, Zenon DEF Accumulates
  <1> HIDE DEF b
  <1>3. Len(s) + 1 \in Nat /\ e.n \in Nat
    BY Appended
  <1>4. b.content \in Seq(Nat) /\ Lists(b.content, Numbered(t, "text"))
    BY <1>1, <1>2, <1>3, Gathered
  <1>5. b.reasoning \in Seq(Nat) /\ Lists(b.reasoning, Numbered(t, "reasoning"))
    BY <1>1, <1>2, <1>3, Gathered
  <1>6. calls \in Seq(Call)
    <2>1. u \in Transformers
      BY TransformState
    <2>2. CASE ~Says(st, e) \/ e.kind \in {"text", "reasoning"}
      BY <1>1, <2>2 DEF CallsOf
    <2>3. CASE Says(st, e) /\ e.kind \in {"added", "args"}
      <3>1. e.item \in Items
        BY <2>3 DEF Events, ItemKinds
      <3>2. index \in Nat
        BY <2>3, <3>1, IndexKnown
      <3>3. call \in Call
        <4> HIDE DEF index
        <4>1. NoCall \in Call
          BY DEF NoCall, Call
        <4>2. QED
          BY <1>1, <3>2, <4>1, SetCallTypes
      <3>4. call.arguments \in Seq(Nat) /\ call.item \in Items \union {NoItem}
        BY <3>3 DEF Call
      <3>8. calls = IF e.kind = "added"
                    THEN SetCall(acc.calls, index, [call EXCEPT !.item = e.item])
                    ELSE SetCall(acc.calls, index, [call EXCEPT !.arguments = Append(@, e.n)])
        <4>1. ~(~Says(st, e) \/ e.kind \in {"text", "reasoning"})
          BY <2>3
        <4>2. QED
          BY <4>1, Zenon DEF CallsOf
      <3> HIDE DEF call, index, calls
      <3>5. [call EXCEPT !.item = e.item] \in Call
        BY <3>1, <3>3 DEF Call
      <3>6. [call EXCEPT !.arguments = Append(@, e.n)] \in Call
        <4> DEFINE more == Append(call.arguments, e.n)
        <4>1. more \in Seq(Nat)
          BY <1>3, <3>4
        <4> HIDE DEF more
        <4>2. [call EXCEPT !.arguments = more] = [item |-> call.item, arguments |-> more]
          BY <3>3, WithArguments
        <4>3. [item |-> call.item, arguments |-> more] \in Call
          BY <3>4, <4>1 DEF Call
        <4>4. QED
          BY <4>2, <4>3, Zenon DEF more
      <3>7. QED
        BY <1>1, <3>2, <3>5, <3>6, <3>8, SetCallTypes
    <2>4. QED
      BY <2>2, <2>3 DEF Says
  <1>8. CallsFit(t, calls)
    BY <1>1, CallsOn, Zenon
  <1> HIDE DEF calls
  <1>9. b \in Accumulators
    BY <1>2, <1>4, <1>5, <1>6 DEF Accumulators
  <1>10. Buffers(t, b)
    BY <1>2, <1>4, <1>5, <1>8, <1>9 DEF Buffers
  <1>11. QED
    BY <1>0, <1>10, Zenon

LEMMA BuffersOn ==
  ASSUME NEW s \in Seq(Events), NEW e \in Events, e.n = Len(s) + 1,
         NEW st \in Transformers, Follows(s, st),
         NEW acc, Buffers(s, acc), NEW r, r = Transform(st, e)
  PROVE  Buffers(Append(s, e), FoldLeft(Accumulate, acc, Parsed(e, r.frames)))
  <1>1. CASE e.numbered
    <2>1. Parsed(e, r.frames) = r.frames
      BY <1>1 DEF Parsed
    <2>2. Buffers(Append(s, e), FoldLeft(Accumulate, acc, r.frames))
      BY <1>1, BuffersMore, Zenon
    <2>3. QED
      BY <2>1, <2>2, Zenon
  <1>2. CASE ~e.numbered
    <2>1. Parsed(e, r.frames) = <<>>
      BY <1>2 DEF Parsed
    <2>2. FoldLeft(Accumulate, acc, <<>>) = acc
      BY FoldNone
    <2>3. Buffers(Append(s, e), acc)
      BY <1>2, BuffersStill, Zenon
    <2>4. QED
      BY <2>1, <2>2, <2>3, Zenon
  <1>3. QED
    BY <1>1, <1>2

LEMMA BuffersNothing == Buffers(<<>>, Empty)
  <1>1. Empty \in Accumulators
    BY DEF Empty, Accumulators
  <1>2. Lists(<<>>, {})
    BY DEF Lists
  <1>3. \A kind : Numbered(<<>>, kind) = {}
    BY DEF Numbered
  <1>4. CallsFit(<<>>, <<>>)
    <2>1. \A k \in Nat : CallAt(<<>>, k) = NoCall
      BY DEF CallAt
    <2>2. \A k, kind : NumberedAt(<<>>, kind, k) = {}
      BY <1>3 DEF NumberedAt
    <2>3. NoCall.arguments = <<>> /\ NoCall.item = NoItem
      BY DEF NoCall
    <2>4. QED
      BY <1>2, <2>1, <2>2, <2>3 DEF CallsFit, Fits
  <1>5. QED
    BY <1>1, <1>2, <1>3, <1>4 DEF Buffers, Empty

LEMMA TracksNothing == Tracks(<<>>, New, <<>>)
  <1>1. Announced(<<>>) = {} /\ Opening(<<>>) = {} /\ Finished(<<>>) = {}
    BY DEF Announced, Opening, Finished
  <1>2. Roles(<<>>) = {} /\ Finishes(<<>>) = {}
    BY DEF Roles, Finishes
  <1>3. <<>> \in Seq(Frames) /\ DOMAIN <<>> = {}
    OBVIOUS
  <1>4. Reassembles(<<>>, <<>>) /\ FinishesName(<<>>, <<>>)
    BY <1>1, <1>2 DEF Reassembles, FinishesName
  <1>5. ~New.role
    BY DEF New
  <1>6. QED
    BY <1>1, <1>2, <1>3, <1>4, <1>5 DEF Tracks

-----------------------------------------------------------------------------
(* The invariant: each reader knows what it has read *)

\* The relay stops at these.
Stops(e) == e.kind \in {"[DONE]", "garbage"}

Translated ==
  /\ Heard \in Seq(Events)
  /\ Follows(Heard, streamed.st)
  /\ Tracks(Heard, streamed.st, streamed.frames)
  /\ streamed.status = "reading" => ~ended /\ \A p \in DOMAIN log : ~Stops(log[p])
  /\ streamed.status # "reading" => ended \/ \E p \in DOMAIN log : Stops(log[p])

Accumulating ==
  /\ buffered.status # "error" => Follows(log, buffered.st) /\ Buffers(log, buffered.acc)
  /\ buffered.status = "ok" => ended
  /\ buffered.status = "reading" => ~ended

IInv == TypeOK /\ Translated /\ Accumulating

HeardOf(s) == [p \in {p \in DOMAIN s : \A q \in 1..p : ~Stops(s[q])} |-> s[p]]

LEMMA HeardAppended ==
  ASSUME NEW s \in Seq(Events), NEW e \in Events
  PROVE  /\ (\E p \in DOMAIN s : Stops(s[p])) => HeardOf(Append(s, e)) = HeardOf(s)
         /\ (\A p \in DOMAIN s : ~Stops(s[p])) =>
              HeardOf(s) = s /\ HeardOf(Append(s, e)) = IF Stops(e) THEN s ELSE Append(s, e)
  <1> DEFINE t == Append(s, e)
             P(r) == {p \in DOMAIN r : \A q \in 1..p : ~Stops(r[q])}
  <1>1. /\ Len(s) \in Nat /\ DOMAIN s = 1..Len(s) /\ DOMAIN t = 1..(Len(s) + 1)
        /\ t[Len(s) + 1] = e /\ \A p \in 1..Len(s) : t[p] = s[p]
    BY Appended
  <1>6. s = [p \in 1..Len(s) |-> s[p]] /\ t = [p \in 1..(Len(s) + 1) |-> t[p]]
    <2>1. \A x \in Seq(Events) : x = [p \in 1..Len(x) |-> x[p]]
      OBVIOUS
    <2>2. t \in Seq(Events) /\ Len(t) = Len(s) + 1
      BY Appended
    <2> HIDE DEF t
    <2>3. QED
      BY <2>1, <2>2
  <1>2. HeardOf(s) = [p \in P(s) |-> s[p]] /\ HeardOf(t) = [p \in P(t) |-> t[p]]
    BY Zenon DEF HeardOf
  <1> HIDE DEF t
  <1>3. CASE \E p \in DOMAIN s : Stops(s[p])
    <2>1. PICK p \in 1..Len(s) : Stops(s[p])
      BY <1>1, <1>3
    <2>2. P(t) = P(s) /\ P(s) \in SUBSET (1..Len(s))
      <3>1. ~(\A q \in 1..(Len(s) + 1) : ~Stops(t[q]))
        <4>1. p \in 1..(Len(s) + 1) /\ Stops(t[p])
          BY <1>1, <2>1
        <4>2. QED
          BY <4>1
      <3>2. ASSUME NEW x PROVE x \in P(t) <=> x \in P(s)
        <4>1. CASE x \in 1..Len(s)
          <5>1. \A q \in 1..x : t[q] = s[q]
            BY <1>1, <4>1
          <5>2. QED
            BY <1>1, <4>1, <5>1
        <4>2. CASE x \notin 1..Len(s)
          <5>1. x \notin P(s)
            BY <1>1, <4>2
          <5>2. x \in 1..(Len(s) + 1) => x = Len(s) + 1
            BY <1>1, <4>2
          <5>3. QED
            BY <1>1, <3>1, <5>1, <5>2
        <4>3. QED
          BY <4>1, <4>2
      <3>3. P(s) \in SUBSET (1..Len(s))
        BY <1>1
      <3> HIDE DEF P
      <3>4. QED
        BY <3>2, <3>3
    <2> HIDE DEF P
    <2>3. HeardOf(t) = HeardOf(s)
      BY <1>1, <1>2, <2>2
    <2>4. QED
      BY <1>3, <2>3 DEF t
  <1>4. CASE \A p \in DOMAIN s : ~Stops(s[p])
    <2>1. P(s) = 1..Len(s)
      BY <1>1, <1>4
    <2>2. P(t) = IF Stops(e) THEN 1..Len(s) ELSE 1..(Len(s) + 1)
      <3>1. \A q \in 1..Len(s) : ~Stops(t[q])
        BY <1>1, <1>4
      <3>2. 1..Len(s) \in SUBSET P(t)
        <4>1. \A x \in 1..Len(s) : x \in 1..(Len(s) + 1) /\ \A q \in 1..x : q \in 1..Len(s)
          BY <1>1
        <4>2. QED
          BY <1>1, <3>1, <4>1
      <3>3. Len(s) + 1 \in P(t) <=> ~Stops(e)
        <4>1. \A q \in 1..(Len(s) + 1) : q \in 1..Len(s) \/ q = Len(s) + 1
          BY <1>1
        <4>2. Len(s) + 1 \in 1..(Len(s) + 1)
          BY <1>1
        <4>3. QED
          BY <1>1, <3>1, <4>1, <4>2
      <3>4. P(t) \in SUBSET (1..(Len(s) + 1))
        BY <1>1
      <3> HIDE DEF P
      <3>5. 1..(Len(s) + 1) = 1..Len(s) \union {Len(s) + 1}
        BY <1>1
      <3>6. QED
        BY <3>2, <3>3, <3>4, <3>5
    <2> HIDE DEF P
    <2>3. HeardOf(s) = s
      BY <1>1, <1>2, <1>6, <2>1
    <2>4. HeardOf(t) = IF Stops(e) THEN s ELSE t
      <3>1. CASE Stops(e)
        BY <1>1, <1>2, <1>6, <2>2, <3>1
      <3>2. CASE ~Stops(e)
        BY <1>1, <1>2, <1>6, <2>2, <3>2
      <3>3. QED
        BY <3>1, <3>2
    <2>5. QED
      BY <1>4, <2>3, <2>4 DEF t
  <1>5. QED
    BY <1>3, <1>4

\* The frames of the relay's own that end a stream.
LEMMA TracksEnd ==
  ASSUME NEW s \in Seq(Events), NEW st \in Transformers, NEW frames, Tracks(s, st, frames)
  PROVE  /\ Tracks(s, st, Append(frames, Plain("[DONE]", 0)))
         /\ Tracks(s, st, frames \o <<Plain("error", 0), Plain("[DONE]", 0)>>)
  <1> DEFINE f == Plain("error", 0)
             g == Plain("[DONE]", 0)
  <1>1. f \in Frames /\ g \in Frames /\ f.kind = "error" /\ g.kind = "[DONE]"
    BY DEF Plain, Frame, Frames, FrameKinds
  <1> HIDE DEF f, g
  <1>2. frames \in Seq(Frames)
    BY DEF Tracks
  <1>3. \A h \in Frames : h.kind \in {"chunk", "error", "[DONE]"} => Tracks(s, st, Append(frames, h))
    BY TracksIdle
  <1>4. Tracks(s, st, Append(Append(frames, f), g))
    <2>1. Tracks(s, st, Append(frames, f))
      BY <1>1, <1>3
    <2>2. QED
      BY <1>1, <2>1, TracksIdle
  <1>5. Append(Append(frames, f), g) = frames \o <<f, g>>
    BY <1>1, <1>2, SMTT(60)
  <1>6. QED
    BY <1>1, <1>3, <1>4, <1>5 DEF f, g

\* Every event that is fed.
LEMMA FeedInv ==
  ASSUME IInv, NEW k, NEW i, NEW numbered, Feed(k, i, numbered),
         StreamEvent(k, i, Len(log) + 1, numbered) \in Events
  PROVE  IInv'
  <1> DEFINE e == StreamEvent(k, i, Len(log) + 1, numbered)
  <1>1. /\ log \in Seq(Events) /\ Len(log) \in Nat /\ DOMAIN log = 1..Len(log)
        /\ \A p \in DOMAIN log : log[p].n = p
        /\ log' = Append(log, e) /\ e \in Events /\ e.n = Len(log) + 1
        /\ ~ended /\ ended' = ended
        /\ streamed' = Streamed(e) /\ buffered' = Buffered(e) /\ answered' = Answered(e)
    BY DEF IInv, TypeOK, Feed, StreamEvent
  <1>2. /\ streamed \in [st: Transformers, frames: Seq(Frames), status: Statuses]
        /\ buffered \in [st: Transformers, acc: Accumulators, status: Statuses]
        /\ answered \in Answers
    BY DEF IInv, TypeOK
  <1>3. /\ log' \in Seq(Events) /\ DOMAIN log' = 1..(Len(log) + 1)
        /\ log'[Len(log) + 1] = e /\ \A p \in 1..Len(log) : log'[p] = log[p]
    BY <1>1, Appended
  <1>4. Heard = HeardOf(log) /\ Heard' = HeardOf(log')
    BY DEF Heard, HeardOf, Stops
  <1>5. /\ Heard \in Seq(Events) /\ Follows(Heard, streamed.st)
        /\ Tracks(Heard, streamed.st, streamed.frames)
        /\ streamed.status = "reading" => \A p \in DOMAIN log : ~Stops(log[p])
        /\ streamed.status # "reading" => \E p \in DOMAIN log : Stops(log[p])
    BY <1>1 DEF IInv, Translated
  <1>6. /\ buffered.status # "error" => Follows(log, buffered.st) /\ Buffers(log, buffered.acc)
        /\ buffered.status # "ok"
    BY <1>1 DEF IInv, Accumulating
  <1> HIDE DEF e
  <1>7. answered' \in Answers
    BY <1>1, <1>2 DEF Answered, Answers
  <1>8. /\ streamed' \in [st: Transformers, frames: Seq(Frames), status: Statuses]
        /\ \A x \in Items : streamed'.st.index[x] < streamed'.st.nextIndex
        /\ Translated'
    <2> SUFFICES /\ streamed'.status \in Statuses /\ streamed'.st \in Transformers
                 /\ streamed' = [st |-> streamed'.st, frames |-> streamed'.frames, status |-> streamed'.status]
                 /\ Heard' \in Seq(Events) /\ Follows(Heard', streamed'.st)
                 /\ Tracks(Heard', streamed'.st, streamed'.frames)
                 /\ streamed'.status = "reading" => \A p \in DOMAIN log' : ~Stops(log'[p])
                 /\ streamed'.status # "reading" => \E p \in DOMAIN log' : Stops(log'[p])
      <3>1. streamed'.frames \in Seq(Frames)
        BY DEF Tracks
      <3>2. \A x \in Items : streamed'.st.index[x] < streamed'.st.nextIndex
        BY DEF Follows
      <3>3. Translated'
        BY <1>1 DEF Translated
      <3>4. QED
        BY <3>1, <3>2, <3>3
    <2> DEFINE r == Rewritten(streamed.st, e)
    <2>1. CASE streamed.status # "reading"
      <3>1. streamed' = streamed /\ Heard' = Heard
        BY <1>1, <1>4, <1>5, <2>1, HeardAppended DEF Streamed
      <3>2. \E p \in DOMAIN log' : Stops(log'[p])
        BY <1>1, <1>3, <1>5, <2>1
      <3>3. QED
        BY <1>2, <1>5, <2>1, <3>1, <3>2
    <2>2. CASE streamed.status = "reading"
      <3>1. Heard = log /\ Heard' = IF Stops(e) THEN log ELSE log'
        BY <1>1, <1>4, <1>5, <2>2, HeardAppended
      <3>2. /\ r.st = Transform(streamed.st, e).st
            /\ r.result = "done" <=> e.kind = "[DONE]"
            /\ r.result = "invalid" <=> e.kind = "garbage"
            /\ r.result \in {"emitted", "swallowed", "done", "invalid"}
        <4>1. streamed.st \in Transformers /\ r = Rewritten(streamed.st, e)
          BY <1>2
        <4> HIDE DEF r
        <4>2. QED
          BY <1>1, <4>1, RewrittenVerdict
      <3>3. CASE Stops(e)
        <4>1. \E p \in DOMAIN log' : Stops(log'[p])
          BY <1>1, <1>3, <3>3
        <4>2. /\ streamed'.st = streamed.st /\ streamed'.status \in {"ok", "error"}
              /\ streamed' = [st |-> streamed'.st, frames |-> streamed'.frames, status |-> streamed'.status]
              /\ streamed'.frames \in {Append(streamed.frames, Plain("[DONE]", 0)),
                                       streamed.frames \o <<Plain("error", 0), Plain("[DONE]", 0)>>}
          BY <1>1, <1>2, <2>2, <3>2, <3>3 DEF Streamed, Stops
        <4>3. Tracks(Heard', streamed'.st, streamed'.frames)
          <5>1. /\ Tracks(Heard, streamed.st, Append(streamed.frames, Plain("[DONE]", 0)))
                /\ Tracks(Heard, streamed.st, streamed.frames \o <<Plain("error", 0), Plain("[DONE]", 0)>>)
            BY <1>2, <1>5, TracksEnd
          <5>2. Heard' = Heard
            BY <3>1, <3>3
          <5>3. QED
            BY <4>2, <5>1, <5>2, Zenon
        <4>4. QED
          BY <1>1, <1>2, <1>5, <3>1, <3>3, <4>1, <4>2, <4>3 DEF Statuses
      <3>4. CASE ~Stops(e)
        <4>1. streamed' = [streamed EXCEPT !.st = r.st, !.frames = @ \o r.frames]
          BY <1>1, <2>2, <3>2, <3>4 DEF Streamed, Stops
        <4>2. /\ streamed'.st = r.st /\ streamed'.status = "reading"
              /\ streamed'.frames = streamed.frames \o r.frames
              /\ streamed' = [st |-> streamed'.st, frames |-> streamed'.frames, status |-> streamed'.status]
          BY <1>2, <2>2, <4>1
        <4>3. r.st \in Transformers /\ Follows(log', r.st)
          BY <1>1, <1>2, <1>5, <3>1, <3>2, TransformState, FollowsOn
        <4>4. Tracks(log', r.st, streamed.frames \o r.frames)
          BY <1>1, <1>2, <1>5, <3>1, TracksOn
        <4>5. \A p \in DOMAIN log' : ~Stops(log'[p])
          BY <1>1, <1>3, <1>5, <2>2, <3>4
        <4>6. QED
          BY <1>3, <3>1, <3>4, <4>2, <4>3, <4>4, <4>5 DEF Statuses
      <3>5. QED
        BY <3>3, <3>4
    <2>3. QED
      BY <2>1, <2>2
  <1>9. buffered' \in [st: Transformers, acc: Accumulators, status: Statuses] /\ Accumulating'
    <2> DEFINE r == Transform(buffered.st, e)
    <2>1. CASE buffered.status # "reading"
      <3>1. buffered' = buffered
        BY <1>1, <2>1 DEF Buffered
      <3>2. buffered.status = "error"
        BY <1>2, <1>6, <2>1 DEF Statuses
      <3>3. QED
        BY <1>2, <3>1, <3>2 DEF Accumulating
    <2>2. CASE buffered.status = "reading" /\ r.result = "invalid"
      <3>1. buffered' = [buffered EXCEPT !.status = "error"]
        BY <1>1, <2>2 DEF Buffered
      <3>2. QED
        BY <1>2, <3>1 DEF Accumulating, Statuses
    <2>3. CASE buffered.status = "reading" /\ r.result # "invalid"
      <3> DEFINE more == FoldLeft(Accumulate, buffered.acc, Parsed(e, r.frames))
      <3>1. buffered' = [buffered EXCEPT !.st = r.st, !.acc = more]
        BY <1>1, <2>3, Zenon DEF Buffered
      <3>2. Buffers(log', more)
        BY <1>1, <1>2, <1>6, <2>3, BuffersOn, Zenon
      <3>3. r.st \in Transformers /\ Follows(log', r.st)
        BY <1>1, <1>2, <1>6, <2>3, TransformState, FollowsOn
      <3> HIDE DEF more, r
      <3>4. /\ buffered'.st = r.st /\ buffered'.acc = more /\ buffered'.status = "reading"
            /\ buffered' = [st |-> r.st, acc |-> more, status |-> "reading"]
        BY <1>2, <2>3, <3>1
      <3>5. more \in Accumulators
        BY <3>2 DEF Buffers
      <3>6. QED
        BY <1>1, <3>2, <3>3, <3>4, <3>5 DEF Accumulating, Statuses
    <2>4. QED
      BY <2>1, <2>2, <2>3
  <1>10. \A p \in DOMAIN log' : log'[p].n = p
    BY <1>1, <1>3
  <1>11. QED
    BY <1>1, <1>3, <1>7, <1>8, <1>9, <1>10 DEF IInv, TypeOK

\* The end of the stream.
LEMMA EndInv ==
  ASSUME IInv, NEW cleanly \in BOOLEAN, End(cleanly)
  PROVE  IInv'
  <1>1. /\ log' = log /\ Heard' = Heard /\ ~ended /\ ended' = TRUE
        /\ log \in Seq(Events) /\ \A p \in DOMAIN log : log[p].n = p
        /\ streamed \in [st: Transformers, frames: Seq(Frames), status: Statuses]
        /\ buffered \in [st: Transformers, acc: Accumulators, status: Statuses]
        /\ answered \in Answers
        /\ \A x \in Items : streamed.st.index[x] < streamed.st.nextIndex
    BY DEF IInv, TypeOK, End, Heard
  <1>2. /\ Heard \in Seq(Events) /\ Follows(Heard, streamed.st)
        /\ Tracks(Heard, streamed.st, streamed.frames)
    BY DEF IInv, Translated
  <1>3. /\ streamed'.st = streamed.st /\ streamed'.status \in {"ok", "error"}
        /\ streamed' = [st |-> streamed'.st, frames |-> streamed'.frames, status |-> streamed'.status]
        /\ streamed'.frames \in {streamed.frames, Append(streamed.frames, Plain("[DONE]", 0)),
                                 streamed.frames \o <<Plain("error", 0), Plain("[DONE]", 0)>>}
    BY <1>1 DEF End, Statuses
  <1>4. Tracks(Heard, streamed.st, streamed'.frames)
    <2>1. /\ Tracks(Heard, streamed.st, Append(streamed.frames, Plain("[DONE]", 0)))
          /\ Tracks(Heard, streamed.st, streamed.frames \o <<Plain("error", 0), Plain("[DONE]", 0)>>)
      BY <1>1, <1>2, TracksEnd
    <2>2. QED
      BY <1>2, <1>3, <2>1, Zenon
  <1>5. streamed' \in [st: Transformers, frames: Seq(Frames), status: Statuses]
    <2>1. streamed'.frames \in Seq(Frames)
      BY <1>4 DEF Tracks
    <2>2. QED
      BY <1>1, <1>3, <2>1 DEF Statuses
  <1>6. Translated'
    BY <1>1, <1>2, <1>3, <1>4 DEF Translated
  <1>7. buffered' \in [st: Transformers, acc: Accumulators, status: Statuses] /\ Accumulating'
    BY <1>1 DEF End, IInv, Accumulating, Statuses
  <1>8. answered' \in Answers
    BY <1>1 DEF End, Answers
  <1>9. QED
    BY <1>1, <1>3, <1>5, <1>6, <1>7, <1>8 DEF IInv, TypeOK

LEMMA InitInv == Init => IInv
  <1> SUFFICES ASSUME Init PROVE IInv
    OBVIOUS
  <1>1. /\ log = <<>> /\ ended = FALSE /\ answered = "reading"
        /\ streamed = [st |-> New, frames |-> <<>>, status |-> "reading"]
        /\ buffered = [st |-> New, acc |-> Empty, status |-> "reading"]
    BY DEF Init
  <1>2. New \in Transformers /\ \A i \in Items : New.index[i] < New.nextIndex
    BY DEF New, Transformers, NoIndex
  <1>3. Empty \in Accumulators
    BY BuffersNothing DEF Buffers
  <1>4. Heard = <<>>
    <2>1. {p \in DOMAIN log : \A q \in 1..p : log[q].kind \notin {"[DONE]", "garbage"}} = {}
      BY <1>1
    <2>2. QED
      BY <2>1 DEF Heard
  <1>5. TypeOK
    <2>1. <<>> \in Seq(Events) /\ <<>> \in Seq(Frames) /\ DOMAIN <<>> = {}
      OBVIOUS
    <2>2. streamed \in [st: Transformers, frames: Seq(Frames), status: Statuses]
      BY <1>1, <1>2, <2>1 DEF Statuses
    <2>3. buffered \in [st: Transformers, acc: Accumulators, status: Statuses]
      BY <1>1, <1>2, <1>3 DEF Statuses
    <2>4. \A p \in DOMAIN log : log[p].n = p
      BY <1>1, <2>1
    <2>5. \A i \in Items : streamed.st.index[i] < streamed.st.nextIndex
      BY <1>1, <1>2
    <2>6. QED
      BY <1>1, <2>1, <2>2, <2>3, <2>4, <2>5 DEF TypeOK, Answers
  <1>6. Translated
    BY <1>1, <1>4, FollowsNothing, TracksNothing DEF Translated
  <1>7. Accumulating
    BY <1>1, FollowsNothing, BuffersNothing DEF Accumulating
  <1>8. QED
    BY <1>5, <1>6, <1>7 DEF IInv

LEMMA NextInv == IInv /\ [Next]_vars => IInv'
  <1> SUFFICES ASSUME IInv, [Next]_vars PROVE IInv'
    OBVIOUS
  <1>1. Len(log) + 1 \in Nat
    BY DEF IInv, TypeOK
  <1>2. ASSUME NEW k \in Kinds \ ItemKinds, NEW numbered \in NumberedOrNot(k),
               Feed(k, NoItem, numbered)
        PROVE  IInv'
    <2>1. StreamEvent(k, NoItem, Len(log) + 1, numbered) \in Events
      BY <1>1, TransformerAssumption DEF StreamEvent, Events, NumberedOrNot
    <2>2. QED
      BY <1>2, <2>1, FeedInv
  <1>3. ASSUME NEW k \in ItemKinds, NEW i \in Items, NEW numbered \in NumberedOrNot(k),
               Feed(k, i, numbered)
        PROVE  IInv'
    <2>1. StreamEvent(k, i, Len(log) + 1, numbered) \in Events
      BY <1>1 DEF StreamEvent, Events, Kinds, ItemKinds, NumberedOrNot
    <2>2. QED
      BY <1>3, <2>1, FeedInv
  <1>4. ASSUME NEW cleanly \in BOOLEAN, End(cleanly) PROVE IInv'
    BY <1>4, EndInv
  <1>5. CASE UNCHANGED vars
    BY <1>5 DEF vars, IInv, TypeOK, Translated, Accumulating, Heard
  <1>6. QED
    BY <1>2, <1>3, <1>4, <1>5 DEF Next

\* Each reader's state is exactly what the events it has read make of it: the
\* transformers' indexes, flags and counters, the frames and the accumulators.
THEOREM StreamInv == Spec => []IInv
  <1>1. QED
    BY InitInv, NextInv, PTL DEF Spec

-----------------------------------------------------------------------------
(* What it says of the clients *)

\* Every index a transformer has given out is below the one it gives next, and
\* the readers' frames and accumulators stay typed (transform/mod.rs:340-357).
THEOREM StreamTypes == Spec => []TypeOK
  <1>1. IInv => TypeOK
    BY DEF IInv
  <1>2. QED
    BY <1>1, StreamInv, PTL

\* However the events of several calls interleave, and whatever is announced again,
\* a client that collects the frames by index gets each call under one item with
\* exactly the arguments the upstream sent for it (transform/mod.rs:350-357, 399-402).
THEOREM StreamReassembles == Spec => []CallsReassemble
  <1>1. IInv => CallsReassemble
    <2> SUFFICES ASSUME IInv, NEW p \in DOMAIN Heard,
                        Announces(Heard, p), SameResponse(Heard, p, Len(Heard))
                 PROVE  Holds(streamed.frames, Place(Heard, p), Heard[p].item, Own(Heard, p))
      BY DEF CallsReassemble, Holds
    <2>1. p \in Announced(Heard)
      BY DEF Announced
    <2>2. QED
      BY <2>1 DEF IInv, Translated, Tracks, Reassembles
  <1>2. QED
    BY <1>1, StreamInv, PTL

\* The assistant role opens every response of the stream that has something to say,
\* once, and no other (send_role, reset_response_state).
THEOREM StreamRoles == Spec => []RoleOpensResponses
  <1>1. IInv => RoleOpensResponses
    <2> SUFFICES ASSUME IInv PROVE RoleOpensResponses
      OBVIOUS
    <2> DEFINE speaking == {p \in DOMAIN Heard : Speaks(Heard, p)}
               opening == {p \in speaking : ~\E q \in speaking : q < p /\ SameResponse(Heard, q, p)}
    <2>1. opening = Opening(Heard)
      BY DEF Opening
    <2>2. Cardinality(Roles(streamed.frames)) = Cardinality(Opening(Heard))
      BY DEF IInv, Translated, Tracks
    <2>3. QED
      BY <2>1, <2>2 DEF RoleOpensResponses, Roles
  <1>2. QED
    BY <1>1, StreamInv, PTL

\* The n-th response that completes finishes with "tool_calls" exactly when it has
\* announced a call; one of an earlier response does not count (saw_tool_calls).
THEOREM StreamFinishes == Spec => []FinishNamesCalls
  <1>1. IInv => FinishNamesCalls
    <2> SUFFICES ASSUME IInv PROVE FinishNamesCalls
      OBVIOUS
    <2>1. FinishesName(Heard, streamed.frames)
      BY DEF IInv, Translated, Tracks
    <2>2. QED
      BY <2>1 DEF FinishesName, FinishNamesCalls, Finishes, Finished, HasTools
  <1>2. QED
    BY <1>1, StreamInv, PTL

\* Of every stream, of any number of responses, a buffering client gets exactly what
\* the numbered events said, the arguments and the item of each index included; a
\* frame without a number does not parse and says nothing (buffered.rs:10-11, 160-223).
THEOREM StreamBuffers == Spec => []BufferedIsWhatWasNumbered
  <1>1. IInv => BufferedIsWhatWasNumbered
    <2> SUFFICES ASSUME IInv, buffered.status # "error"
                 PROVE  /\ Lists(buffered.acc.content, Numbered(log, "text"))
                        /\ Lists(buffered.acc.reasoning, Numbered(log, "reasoning"))
                        /\ \A k \in 0..(Len(log) - 1) : Fits(log, CallAt(buffered.acc.calls, k), k)
      BY DEF BufferedIsWhatWasNumbered, Fits
    <2>1. Buffers(log, buffered.acc)
      BY DEF IInv, Accumulating
    <2>2. \A k \in 0..(Len(log) - 1) : k \in Nat
      OBVIOUS
    <2>3. QED
      BY <2>1, <2>2 DEF Buffers, CallsFit
  <1>2. QED
    BY <1>1, StreamInv, PTL
=============================================================================
