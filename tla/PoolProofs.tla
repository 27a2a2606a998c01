----------------------------- MODULE PoolProofs -----------------------------
(***************************************************************************)
(* Facts about AccountPool and the steps of pick, for any pool.            *)
(***************************************************************************)
EXTENDS AccountPool, TLAPS

\* Plus stays in the pool, and from any start its offsets reach every account.
LEMMA PlusInPool == \A n \in Account, k \in Account : Plus(n, k) \in Account
  BY PoolAssumption DEF Plus, Account

LEMMA PlusCovers == \A n \in Account, a \in Account : \E j \in Account : Plus(n, j) = a
  <1> SUFFICES ASSUME NEW n \in Account, NEW a \in Account
               PROVE  \E j \in Account : Plus(n, j) = a
    OBVIOUS
  <1> DEFINE j == IF a >= n THEN a - n ELSE a - n + N
  <1>1. j \in Account /\ Plus(n, j) = a
    BY PoolAssumption DEF Plus, Account
  <1> QED
    BY <1>1

LEMMA OneInPool == 0 \in Account /\ 1 % N \in Account
  BY PoolAssumption DEF Account

LEMMA NoScanTyped == NoScan \in Scan
  BY OneInPool DEF NoScan, Scan, Phases, AnyModel

\* The continuations of a scan are scans.
LEMMA SkipTyped ==
  ASSUME NEW s \in Scan, s.phase \in {"health", "tier", "retier"}
  PROVE  Skip(s) \in Scan
  <1>1. CASE s.i + 1 < N
    <2>1. s.i + 1 \in Account
      BY <1>1, PoolAssumption DEF Scan, Account
    <2>2. {"health", "retier"} \subseteq Phases
      BY DEF Phases
    <2> QED
      BY <1>1, <2>1, <2>2 DEF Skip, Scan
  <1>2. CASE ~(s.i + 1 < N)
    <2>1. {"done", "retier"} \subseteq Phases
      BY DEF Phases
    <2> QED
      BY <1>2, <2>1, OneInPool DEF Skip, Scan
  <1> QED
    BY <1>1, <1>2

LEMMA TakeTyped ==
  ASSUME NEW s \in Scan
  PROVE  Take(s) \in Scan
  BY PlusInPool DEF Take, Candidate, Scan, Phases

\* Any step of pick keeps the pool's state well typed.
LEMMA StartScanTyped ==
  ASSUME PoolTypeOK, NEW t \in Tasks, NEW e \in Account \union {NoAccount},
         NEW m \in AnyModel, StartScan(t, e, m)
  PROVE  PoolTypeOK'
  <1>1. [NoScan EXCEPT !.phase = "health", !.start = next, !.exclude = e, !.model = m] \in Scan
    BY NoScanTyped DEF PoolTypeOK, Scan, NoScan, Phases
  <1> QED
    BY <1>1, PlusInPool, OneInPool DEF PoolTypeOK, StartScan

LEMMA ScanStepTyped ==
  ASSUME PoolTypeOK, NEW t \in Tasks, ScanStep(t)
  PROVE  PoolTypeOK'
  <1> DEFINE s == scan[t]
  <1>1. s \in Scan
    BY DEF PoolTypeOK
  <1>2. s.phase \in {"health", "tier", "retier"} => Skip(s) \in Scan
    BY <1>1, SkipTyped
  <1>3. Take(s) \in Scan
    BY <1>1, TakeTyped
  <1>4. [s EXCEPT !.phase = "tier"] \in Scan
    BY <1>1 DEF Scan, Phases
  <1>5. \E new \in Scan : scan' = [scan EXCEPT ![t] = new] /\ UNCHANGED <<next, cooling, modelCooling>>
    BY <1>2, <1>3, <1>4 DEF ScanStep, CheckHealth, CheckTier, CheckTierAgain
  <1> QED
    BY <1>5 DEF PoolTypeOK
=============================================================================
