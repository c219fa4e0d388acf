---------------------------- MODULE MarketProofs ----------------------------
(***************************************************************************)
(* Theorems about Market, for any symbols, instruments, periods and time   *)
(* limits: the feed is never silent for long while REST requests are       *)
(* answered, and a target that is called fresh rests on recent samples.    *)
(***************************************************************************)
EXTENDS Market, TLAPS

(* Feed. *)

\* A sample is younger than any age.
LEMMA StoreType ==
    ASSUME FeedTypeOK, NEW s \in Symbols, Store(s)
    PROVE  age' \in [Symbols -> 0..Never] /\ missed' \in BOOLEAN
  <1>1. 0 \in 0..Never
    BY FeedAssumption DEF Never
  <1> QED
    BY <1>1 DEF FeedTypeOK, Store

\* The steps of the feed alone keep its types.
LEMMA FeedTypeStep ==
    ASSUME FeedTypeOK, FeedNext
    PROVE  FeedTypeOK'
  <1> USE FeedAssumption DEF FeedTypeOK, Never
  <1>1. ASSUME Dialled  PROVE FeedTypeOK'
    BY <1>1 DEF Dialled
  <1>2. ASSUME Lost  PROVE FeedTypeOK'
    BY <1>2 DEF Lost, Sleep
  <1>3. ASSUME Wake  PROVE FeedTypeOK'
    BY <1>3 DEF Wake
  <1>4. ASSUME RestTick  PROVE FeedTypeOK'
    BY <1>4 DEF RestTick
  <1>5. ASSUME NEW s \in Symbols, Fetched(s)  PROVE FeedTypeOK'
    BY <1>5, StoreType DEF Fetched
  <1>6. ASSUME NEW s \in Symbols, NEW p \in Payloads, Receive(s, p)  PROVE FeedTypeOK'
    BY <1>6, StoreType DEF Receive
  <1> QED
    BY <1>1, <1>2, <1>3, <1>4, <1>5, <1>6 DEF FeedNext

\* Ages stay in their range as time goes by.
LEMMA OlderType ==
    ASSUME NEW a \in 0..Never
    PROVE  /\ Older(a) \in 0..Never
           /\ Older(a) = Never <=> a = Never
           /\ Older(a) <= a + 1
           /\ a <= Older(a)
  BY FeedAssumption DEF Older, Never

\* The clock of the feed keeps its type.
LEMMA FeedTimeType ==
    ASSUME FeedTypeOK, FeedTime
    PROVE  FeedTypeOK'
  <1>1. age' \in [Symbols -> 0..Never]
    BY OlderType DEF FeedTypeOK, FeedTime
  <1>2. wait' \in 0..MaxBackoff /\ restIn' \in 1..RestEvery
    BY FeedAssumption DEF FeedTypeOK, FeedTime
  <1> QED
    BY <1>1, <1>2 DEF FeedTypeOK, FeedTime

-----------------------------------------------------------------------------
(* Types. *)

\* No step of the aggregator or the clock leaves the types.
LEMMA TypeStep ==
    ASSUME TypeOK, [Next]_vars
    PROVE  TypeOK'
  <1> USE MarketAssumption DEF TypeOK
  <1>0. UNCHANGED feedVars => FeedTypeOK'
    BY DEF feedVars, FeedTypeOK
  <1>1. ASSUME FeedNext, UNCHANGED aggVars  PROVE TypeOK'
    BY <1>1, FeedTypeStep DEF aggVars
  <1>2. ASSUME NEW i \in Instruments, Answer(i)  PROVE TypeOK'
    BY <1>0, <1>2 DEF Answer
  <1>3. ASSUME NEW i \in Instruments, FailOver(i)  PROVE TypeOK'
    <2>1. at[i] < Endpoints => at[i] + 1 \in 1..Endpoints
      OBVIOUS
    <2> QED
      BY <1>0, <1>3, <2>1 DEF FailOver
  <1>4. ASSUME StartTick  PROVE TypeOK'
    <2>1. quoted' \subseteq Symbols
      BY <1>4 DEF StartTick
    <2>2. 1 \in 1..Endpoints /\ 0 \in 0..ReadTimeout
      OBVIOUS
    <2> QED
      BY <1>0, <1>4, <2>1, <2>2 DEF StartTick
  <1>5. ASSUME Expire  PROVE TypeOK'
    BY <1>0, <1>5 DEF Expire
  <1>6. ASSUME Publish  PROVE TypeOK'
    <2>1. last' \in [Instruments -> [poolFresh : BOOLEAN, targetFresh : BOOLEAN]]
      <3>1. \A i \in Instruments : (result[i] = "price") \in BOOLEAN /\ ComputeTarget(i) \in BOOLEAN
        BY DEF ComputeTarget
      <3> QED
        BY <1>6, <3>1 DEF Publish
    <2> QED
      BY <1>0, <1>6, <2>1 DEF Publish
  <1>7. ASSUME Return  PROVE TypeOK'
    BY <1>0, <1>7 DEF Return
  <1>8. ASSUME Time  PROVE TypeOK'
    BY <1>8, FeedTimeType DEF Time
  <1>9. ASSUME UNCHANGED vars  PROVE TypeOK'
    BY <1>0, <1>9 DEF vars, aggVars
  <1> QED
    BY <1>1, <1>2, <1>3, <1>4, <1>5, <1>6, <1>7, <1>8, <1>9 DEF Next

(* Every variable of the feed and the aggregator keeps its type. *)
THEOREM TypeCorrect == Spec => []TypeOK
  <1>1. Init => TypeOK
    <2> SUFFICES ASSUME Init  PROVE TypeOK
      OBVIOUS
    <2>1. FeedTypeOK
      <3>1. /\ 1 \in 1..MaxBackoff /\ 0 \in 0..MaxBackoff
            /\ RestEvery \in 1..RestEvery /\ Never \in 0..Never
        BY FeedAssumption DEF Never
      <3> QED
        BY <3>1 DEF Init, FeedInit, FeedTypeOK
    <2>2. 1 \in 1..Endpoints /\ 0 \in 0..ReadTimeout
      BY MarketAssumption
    <2> QED
      BY <2>1, <2>2 DEF Init, TypeOK
  <1> QED
    BY <1>1, TypeStep, PTL DEF Spec

-----------------------------------------------------------------------------
(* The feed is not silent. *)

\* Some sample is so young that the fallback will be due before it is too old.
HeardInv ==
    missed \/ NoPrices \/ \E s \in Symbols :
        /\ age[s] <= StaleAfter + RestEvery
        /\ ~restDue /\ toFetch = {} => age[s] + restIn <= StaleAfter + RestEvery

\* A sample that has just been stored is one.
LEMMA StoreHeard ==
    ASSUME FeedTypeOK, FeedTypeOK', NEW s \in Symbols, Store(s)
    PROVE  HeardInv'
  <1>1. age'[s] = 0
    BY DEF FeedTypeOK, Store
  <1>2. restIn' \in 1..RestEvery
    BY DEF FeedTypeOK
  <1> QED
    BY <1>1, <1>2, FeedAssumption DEF HeardInv

\* Every step keeps the feed heard.
LEMMA HeardStep ==
    ASSUME TypeOK, TypeOK', HeardInv, [Next]_vars
    PROVE  HeardInv'
  <1> USE FeedAssumption DEF TypeOK
  <1>1. ASSUME UNCHANGED <<missed, age, restDue, toFetch, restIn>>  PROVE HeardInv'
    BY <1>1 DEF HeardInv, NoPrices
  <1>2. ASSUME FeedNext  PROVE HeardInv'
    <2>1. CASE Dialled \/ Lost \/ Wake
      BY <1>1, <2>1 DEF Dialled, Lost, Sleep, Wake
    <2>2. CASE RestTick
      <3>1. CASE FallBack
        BY <2>2, <3>1 DEF RestTick, HeardInv, NoPrices
      <3>2. CASE ~FallBack
        <4>1. PICK s \in Symbols : age[s] <= StaleAfter
          BY <3>2 DEF FallBack, Stalled, Quiet, FeedTypeOK, Never
        <4>2. age'[s] = age[s] /\ restIn' = restIn /\ restIn \in 1..RestEvery /\ age[s] \in Nat
          BY <2>2, <4>1 DEF RestTick, FeedTypeOK, Never
        <4>3. /\ age'[s] <= StaleAfter + RestEvery
              /\ age'[s] + restIn' <= StaleAfter + RestEvery
          BY <4>1, <4>2
        <4> QED
          BY <4>3 DEF HeardInv
      <3> QED
        BY <3>1, <3>2
    <2>3. ASSUME NEW s \in Symbols, Fetched(s)  PROVE HeardInv'
      BY <2>3, StoreHeard DEF Fetched, HeardInv
    <2>4. ASSUME NEW s \in Symbols, NEW p \in Payloads, Receive(s, p)  PROVE HeardInv'
      BY <1>1, <2>4, StoreHeard DEF Receive
    <2> QED
      BY <1>2, <2>1, <2>2, <2>3, <2>4 DEF FeedNext
  <1>3. ASSUME Time  PROVE HeardInv'
    <2>0. FeedTime
      BY <1>3 DEF Time
    <2>1. CASE missed \/ toFetch # {}
      BY <2>0, <2>1 DEF FeedTime, HeardInv
    <2>2. CASE NoPrices
      BY <2>0, <2>2, OlderType DEF FeedTime, HeardInv, NoPrices, FeedTypeOK
    <2>3. CASE ~missed /\ toFetch = {} /\ ~NoPrices
      <3>1. ~restDue /\ toFetch' = {}
        BY <2>0, <2>3 DEF FeedTime
      <3>2. PICK s \in Symbols : age[s] + restIn <= StaleAfter + RestEvery
        BY <2>3, <3>1 DEF HeardInv
      <3>3. /\ age[s] \in Nat /\ age'[s] \in Nat /\ age'[s] <= age[s] + 1
            /\ restIn \in 1..RestEvery
            /\ restIn = 1 => restDue'
            /\ restIn # 1 => restIn' = restIn - 1
        <4>1. age'[s] = Older(age[s])
          BY <2>0 DEF FeedTime, FeedTypeOK
        <4>2. age[s] \in 0..Never /\ Never \in Nat
          BY DEF FeedTypeOK, Never
        <4>3. age'[s] \in Nat /\ age'[s] <= age[s] + 1
          BY <4>1, <4>2, OlderType
        <4>4. restIn \in 1..RestEvery
          BY DEF FeedTypeOK
        <4>5. restIn = 1 => restDue'
          BY <2>0, Zenon DEF FeedTime
        <4>6. restIn # 1 => restIn' = restIn - 1
          BY <2>0 DEF FeedTime
        <4> QED
          BY <4>2, <4>3, <4>4, <4>5, <4>6
      <3>4. age'[s] <= StaleAfter + RestEvery
        BY <3>2, <3>3
      <3>5. ~restDue' => age'[s] + restIn' <= StaleAfter + RestEvery
        BY <3>2, <3>3
      <3> QED
        BY <3>4, <3>5 DEF HeardInv
    <2> QED
      BY <2>1, <2>2, <2>3
  <1>4. ASSUME UNCHANGED feedVars  PROVE HeardInv'
    BY <1>1, <1>4 DEF feedVars
  <1> QED
    BY <1>2, <1>3, <1>4
    DEF Next, vars, Answer, FailOver, StartTick, Expire, Publish, Return

(* While REST requests are answered at once, some price is never older     *)
(* than the stall threshold and one period of the fallback, for whatever   *)
(* stream, symbols and periods (restFallbackLoop).                         *)
THEOREM FeedHeard == Spec => []FeedNeverSilent
  <1>1. Init => HeardInv
    BY DEF Init, FeedInit, HeardInv, NoPrices
  <1>2. HeardInv /\ TypeOK => FeedNeverSilent
    BY FeedAssumption DEF HeardInv, FeedNeverSilent, Quiet, TypeOK, FeedTypeOK, Never
  <1> QED
    BY <1>1, <1>2, HeardStep, TypeCorrect, PTL DEF Spec

-----------------------------------------------------------------------------
(* Fresh targets are recent. *)

\* The samples behind the quotes of a tick have aged with its reads only.
QuotedInv ==
    stage = "read" =>
        \A s \in quoted : \E w \in Windows : age[s] <= w + readFor

\* Nothing but the clock makes a sample older.
LEMMA AgeStep ==
    ASSUME TypeOK, FeedNext
    PROVE  \A s \in Symbols : age'[s] <= age[s]
  <1>1. \A s \in Symbols : age[s] \in Nat
    BY FeedAssumption DEF TypeOK, FeedTypeOK, Never
  <1>2. ASSUME NEW s \in Symbols, Store(s)  PROVE \A u \in Symbols : age'[u] <= age[u]
    BY <1>1, <1>2 DEF Store, TypeOK, FeedTypeOK
  <1>3. age' = age => \A u \in Symbols : age'[u] <= age[u]
    BY <1>1
  <1> QED
    BY <1>2, <1>3 DEF FeedNext, Dialled, Lost, Wake, RestTick, Fetched, Receive

\* Every step keeps the quotes that a pass has in hand recent.
LEMMA QuotedStep ==
    ASSUME TypeOK, TypeOK', QuotedInv, [Next]_vars
    PROVE  QuotedInv'
  <1> USE DEF QuotedInv
  <1>0. \A s \in Symbols : age[s] \in Nat /\ age'[s] \in Nat
    BY FeedAssumption DEF TypeOK, FeedTypeOK, Never
  <1>1. ASSUME FeedNext, UNCHANGED aggVars  PROVE QuotedInv'
    <2> SUFFICES ASSUME stage = "read", NEW s \in quoted
                 PROVE  \E w \in Windows : age'[s] <= w + readFor
      BY <1>1 DEF aggVars
    <2>1. PICK w \in Windows : age[s] <= w + readFor
      OBVIOUS
    <2>2. s \in Symbols /\ w \in Nat /\ readFor \in Nat
      BY MarketAssumption DEF TypeOK
    <2>3. age'[s] <= age[s]
      BY <1>1, <2>2, AgeStep
    <2> QED
      BY <1>0, <2>1, <2>2, <2>3
  <1>2. ASSUME UNCHANGED <<age, stage, quoted, readFor>>  PROVE QuotedInv'
    BY <1>2
  <1>3. ASSUME StartTick  PROVE QuotedInv'
    <2> SUFFICES ASSUME NEW s \in quoted'
                 PROVE  \E w \in Windows : age'[s] <= w + readFor'
      OBVIOUS
    <2>0. PICK f \in [Symbols -> Windows] :
              quoted' = {u \in Symbols : HasTWAP(u, f[u])}
      BY <1>3 DEF StartTick
    <2>1. PICK w \in Windows : s \in Symbols /\ age[s] <= w
      BY <2>0 DEF HasTWAP
    <2>2. age'[s] = age[s] /\ readFor' = 0 /\ w \in Nat
      BY <1>3, MarketAssumption DEF StartTick, feedVars
    <2> QED
      BY <2>1, <2>2
  <1>4. ASSUME stage' # "read"  PROVE QuotedInv'
    BY <1>4
  <1>5. ASSUME Time  PROVE QuotedInv'
    <2> SUFFICES ASSUME stage = "read", NEW s \in quoted
                 PROVE  \E w \in Windows : age'[s] <= w + readFor'
      BY <1>5 DEF Time
    <2>1. PICK w \in Windows : age[s] <= w + readFor
      OBVIOUS
    <2>2. s \in Symbols /\ w \in Nat /\ readFor \in Nat /\ readFor' = readFor + 1
      BY <1>5, MarketAssumption DEF Time, TypeOK
    <2>3. age'[s] = Older(age[s])
      BY <1>5, <2>2 DEF Time, FeedTime
    <2>4. age'[s] <= age[s] + 1
      BY <2>2, <2>3, OlderType DEF TypeOK, FeedTypeOK
    <2> QED
      BY <1>0, <2>1, <2>2, <2>4
  <1> QED
    BY <1>1, <1>2, <1>3, <1>4, <1>5
    DEF Next, vars, feedVars, aggVars, Answer, FailOver, Expire, Publish, Return

(* A snapshot calls a target fresh only if all its symbols have samples    *)
(* within the window and the time the pools took, for whatever windows,    *)
(* endpoints and deadline (tick and computeTarget).                        *)
THEOREM TargetsRecent == Spec => FreshTargetsRecent
  <1>1. Init => QuotedInv
    BY DEF Init, QuotedInv
  <1>2. ASSUME TypeOK, QuotedInv, Publish, NEW i \in Instruments, last'[i].targetFresh,
               NEW s \in SourceOf[i]
        PROVE  \E w \in Windows : age[s] <= w + ReadTimeout
    <2>1. stage = "read" /\ s \in quoted
      BY <1>2 DEF Publish, Collected, ComputeTarget
    <2>2. PICK w \in Windows : age[s] <= w + readFor
      BY <1>2, <2>1 DEF QuotedInv
    <2>3. /\ age[s] \in Nat /\ w \in Nat
          /\ readFor \in Nat /\ readFor <= ReadTimeout /\ ReadTimeout \in Nat
      BY <1>2, <2>1, FeedAssumption, MarketAssumption DEF TypeOK, FeedTypeOK, Never
    <2> QED
      BY <2>2, <2>3
  <1>3. TypeOK /\ QuotedInv =>
            [Publish => \A i \in Instruments : last'[i].targetFresh =>
                \A s \in SourceOf[i] : \E w \in Windows : age[s] <= w + ReadTimeout]_vars
    BY <1>2
  <1> QED
    BY <1>1, <1>3, QuotedStep, TypeCorrect, PTL DEF Spec, FreshTargetsRecent

=============================================================================
