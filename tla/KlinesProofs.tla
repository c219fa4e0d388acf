---------------------------- MODULE KlinesProofs ----------------------------
(***************************************************************************)
(* Theorems about Klines, for any prices, lengths of bucket and period and *)
(* number of failed writes.                                                *)
(***************************************************************************)
EXTENDS Klines, TLAPS

Samples == [mid : Mids, age : 0..Old]

\* What a sample is made of.
LEMMA SampleType ==
    ASSUME NEW ss \in Seq(Samples), NEW k \in 1..Len(ss)
    PROVE  /\ ss[k] \in Samples
           /\ ss[k].mid \in Mids /\ ss[k].mid \in Nat
           /\ ss[k].age \in 0..Old /\ ss[k].age \in Nat
  <1>1. ss[k] \in Samples
    OBVIOUS
  <1>2. ss[k].mid \in Mids /\ ss[k].age \in 0..Old
    BY <1>1 DEF Samples
  <1>3. Mids \subseteq Nat /\ Old \in Nat
    BY KlinesAssumption
  <1>4. ss[k].mid \in Nat
    BY <1>2, <1>3, Zenon
  <1>5. \A a \in 0..Old : a \in Nat
    BY <1>3
  <1>6. ss[k].age \in Nat
    BY <1>2, <1>5, Zenon
  <1> QED
    BY <1>1, <1>2, <1>4, <1>6

-----------------------------------------------------------------------------
(* Bars.                                                                   *)

\* A bar of the first n samples, told without a maximum or a minimum.
IsBar(b, ss, n) ==
    /\ b \in OHLC
    /\ b.open = ss[1].mid /\ b.close = ss[n].mid
    /\ \E k \in 1..n : b.high = ss[k].mid
    /\ \E k \in 1..n : b.low = ss[k].mid
    /\ \A k \in 1..n : b.high >= ss[k].mid /\ b.low <= ss[k].mid

\* What FiniteSetsExt calls the maximum and the minimum is an extreme that is there.
LEMMA Extremes ==
    ASSUME NEW S \in SUBSET Nat, NEW m \in S
    PROVE  /\ (\A y \in S : m >= y) => Max(S) = m
           /\ (\A y \in S : m <= y) => Min(S) = m
  <1>1. ASSUME \A y \in S : m >= y  PROVE Max(S) = m
    <2>1. Max(S) \in S /\ \A y \in S : Max(S) >= y
      BY <1>1 DEF Max
    <2>2. Max(S) \in Nat /\ m \in Nat /\ Max(S) >= m /\ m >= Max(S)
      BY <1>1, <2>1
    <2> QED
      BY <2>2
  <1>2. ASSUME \A y \in S : m <= y  PROVE Min(S) = m
    <2>1. Min(S) \in S /\ \A y \in S : Min(S) <= y
      BY <1>2 DEF Min
    <2>2. Min(S) \in Nat /\ m \in Nat /\ Min(S) <= m /\ m <= Min(S)
      BY <1>2, <2>1
    <2> QED
      BY <2>2
  <1> QED
    BY <1>1, <1>2

\* So there is one bar of a sequence of samples.
LEMMA BarIs ==
    ASSUME NEW ss \in Seq(Samples), Len(ss) > 0, NEW b, IsBar(b, ss, Len(ss))
    PROVE  b = BarOf(ss)
  <1> DEFINE mids == {ss[k].mid : k \in DOMAIN ss}
  <1>1. DOMAIN ss = 1..Len(ss) /\ Len(ss) \in Nat
    OBVIOUS
  <1>2. \A k \in DOMAIN ss : ss[k].mid \in Mids /\ ss[k].mid \in Nat
    BY <1>1, SampleType
  <1>3. mids \in SUBSET Nat /\ b.high \in mids /\ b.low \in mids
        /\ \A y \in mids : b.high >= y /\ b.low <= y
    BY <1>1, <1>2 DEF IsBar
  <1>4. Max(mids) = b.high /\ Min(mids) = b.low
    <2> HIDE DEF mids
    <2> QED
      BY <1>3, Extremes
  <1>5. b = [open |-> b.open, high |-> b.high, low |-> b.low, close |-> b.close]
    BY DEF IsBar, OHLC
  <1>6. BarOf(ss) = [open |-> ss[1].mid, high |-> Max(mids), low |-> Min(mids),
                     close |-> ss[Len(ss)].mid]
    BY DEF BarOf
  <1> HIDE DEF mids
  <1> QED
    BY <1>4, <1>5, <1>6 DEF IsBar

\* The bar of the samples up to one of them.
LEMMA BarUpTo ==
    ASSUME NEW ss \in Seq(Samples), NEW n \in 1..Len(ss), NEW b, IsBar(b, ss, n)
    PROVE  b = BarOf(SubSeq(ss, 1, n))
  <1> DEFINE tt == SubSeq(ss, 1, n)
  <1>1. /\ tt \in Seq(Samples) /\ Len(tt) = n /\ n > 0 /\ n \in Nat
        /\ \A k \in 1..n : tt[k] = ss[k]
    OBVIOUS
  <1> HIDE DEF tt
  <1>2. IsBar(b, tt, n)
    BY <1>1 DEF IsBar
  <1>3. b = BarOf(tt)
    BY <1>1, <1>2, BarIs
  <1> QED
    BY <1>3 DEF tt

\* The first price makes a bar of one sample.
LEMMA NewIsBar ==
    ASSUME NEW mid \in Mids
    PROVE  IsBar(NewBucket(mid), <<[mid |-> mid, age |-> 0]>>, 1)
  <1>1. mid \in Nat /\ mid >= mid
    BY KlinesAssumption
  <1>2. NewBucket(mid) \in OHLC
    BY DEF NewBucket, OHLC
  <1>3. \A k \in 1..1 : k = 1
    OBVIOUS
  <1> QED
    BY <1>1, <1>2, <1>3 DEF IsBar, NewBucket

\* One price more extends the bar.
LEMMA ExtendedIsBar ==
    ASSUME NEW ss \in Seq(Samples), Len(ss) > 0, NEW b, IsBar(b, ss, Len(ss)),
           NEW mid \in Mids, NEW s \in Samples, s.mid = mid
    PROVE  IsBar(Extended(b, mid), Append(ss, s), Len(ss) + 1)
  <1> DEFINE tt == Append(ss, s)
             n == Len(ss)
             c == Extended(b, mid)
  <1>1. /\ n \in Nat /\ n > 0 /\ 1 \in 1..n
        /\ \A k \in 1..n : tt[k] = ss[k]
        /\ tt[n + 1] = s
        /\ \A k \in 1..n + 1 : k \in 1..n \/ k = n + 1
        /\ 1..n \subseteq 1..n + 1 /\ n + 1 \in 1..n + 1
    OBVIOUS
  <1>2. \A k \in 1..n : ss[k].mid \in Nat
    BY SampleType
  <1>3. /\ b \in OHLC /\ b.high \in Nat /\ b.low \in Nat /\ mid \in Nat
        /\ b.open = ss[1].mid
        /\ \E k \in 1..n : b.high = ss[k].mid
        /\ \E k \in 1..n : b.low = ss[k].mid
        /\ \A k \in 1..n : b.high >= ss[k].mid /\ b.low <= ss[k].mid
    BY KlinesAssumption DEF IsBar, OHLC
  <1>4. /\ c \in OHLC
        /\ c.open = b.open /\ c.close = mid
        /\ c.high = IF mid > b.high THEN mid ELSE b.high
        /\ c.low = IF mid < b.low THEN mid ELSE b.low
    BY <1>3 DEF Extended, OHLC
  <1> HIDE DEF tt, n, c
  <1>5. c.open = tt[1].mid /\ c.close = tt[n + 1].mid
    BY <1>1, <1>3, <1>4
  <1>6. (\E k \in 1..n + 1 : c.high = tt[k].mid) /\ (\E k \in 1..n + 1 : c.low = tt[k].mid)
    BY <1>1, <1>3, <1>4
  <1>7. \A k \in 1..n + 1 : c.high >= tt[k].mid /\ c.low <= tt[k].mid
    <2>1. ASSUME NEW k \in 1..n  PROVE c.high >= tt[k].mid /\ c.low <= tt[k].mid
      <3>1. tt[k].mid = ss[k].mid /\ ss[k].mid \in Nat
            /\ b.high >= ss[k].mid /\ b.low <= ss[k].mid
        BY <1>1, <1>2, <1>3
      <3> QED
        BY <1>3, <1>4, <3>1
    <2>2. c.high >= tt[n + 1].mid /\ c.low <= tt[n + 1].mid
      BY <1>1, <1>3, <1>4
    <2> QED
      BY <1>1, <2>1, <2>2
  <1>8. IsBar(c, tt, n + 1)
    BY <1>4, <1>5, <1>6, <1>7 DEF IsBar
  <1> QED
    BY <1>8 DEF c, tt, n

-----------------------------------------------------------------------------
(* Types.                                                                  *)

\* An age is counted up to Old.
LEMMA OlderType ==
    ASSUME NEW a \in 0..Old
    PROVE  Older(a) \in 0..Old /\ Older(a) <= a + 1
  BY KlinesAssumption DEF Older

\* When time goes on the samples are the same, and older.
LEMMA SamplesOlder ==
    ASSUME TypeOK, Time
    PROVE  /\ samples' \in Seq(Samples) /\ Len(samples') = Len(samples)
           /\ \A k \in 1..Len(samples) :
                 /\ samples'[k].mid = samples[k].mid
                 /\ samples'[k].age = Older(samples[k].age)
  <1>1. samples \in Seq(Samples) /\ DOMAIN samples = 1..Len(samples) /\ Len(samples) \in Nat
    BY DEF TypeOK, Samples
  <1>2. \A k \in 1..Len(samples) :
            [samples[k] EXCEPT !.age = Older(@)] = [mid |-> samples[k].mid,
                                                    age |-> Older(samples[k].age)]
    <2>1. \A r \in Samples :
              [r EXCEPT !.age = Older(@)] = [mid |-> r.mid, age |-> Older(r.age)]
      BY DEF Samples
    <2> QED
      BY <1>1, <2>1, SampleType
  <1>3. \A k \in 1..Len(samples) : samples[k].mid \in Mids /\ Older(samples[k].age) \in 0..Old
    BY <1>1, SampleType, OlderType
  <1>4. samples' = [k \in 1..Len(samples) |-> [mid |-> samples[k].mid,
                                               age |-> Older(samples[k].age)]]
    BY <1>1, <1>2 DEF Time
  <1>5. samples' \in [1..Len(samples) -> Samples]
    BY <1>3, <1>4 DEF Samples
  <1>6. samples' \in Seq(Samples) /\ Len(samples') = Len(samples)
    BY <1>1, <1>5
  <1> QED
    BY <1>4, <1>6

\* The bounds are there, and nothing is a sequence of samples.
LEMMA Ends ==
    /\ 0 \in 0..Old /\ 0 \in 0..MaxErrors /\ FlushEvery \in 0..FlushEvery
    /\ << >> \in Seq([mid : Mids, age : 0..Old])
  <1>1. Old \in Nat /\ MaxErrors \in Nat /\ FlushEvery \in Nat
    BY KlinesAssumption
  <1>2. << >> \in Seq([mid : Mids, age : 0..Old])
    OBVIOUS
  <1> QED
    BY <1>1, <1>2

\* Every step keeps the types.
LEMMA TypeStep ==
    ASSUME TypeOK, [Next]_vars
    PROVE  TypeOK'
  <1> USE KlinesAssumption
  <1>0. /\ bucket \in OHLC \cup {NoBucket} /\ row \in OHLC \cup {NoRow}
        /\ samples \in Seq(Samples) /\ age \in 0..Old /\ flushIn \in 0..FlushEvery
    BY DEF TypeOK, Samples
  <1>1. ASSUME NEW mid \in Mids, Begin(mid)
        PROVE  /\ bucket' \in OHLC \cup {NoBucket} /\ age' \in 0..Old
               /\ samples' \in Seq([mid : Mids, age : 0..Old])
               /\ row' \in OHLC \cup {NoRow} /\ failed' \in BOOLEAN
    <2>1. [mid |-> mid, age |-> 0] \in [mid : Mids, age : 0..Old] /\ 0 \in 0..Old
      OBVIOUS
    <2>2. <<[mid |-> mid, age |-> 0]>> \in Seq([mid : Mids, age : 0..Old])
      BY <2>1
    <2> QED
      BY <1>1, <2>1, <2>2 DEF Begin, NewBucket, OHLC
  <1>2. ASSUME NEW old \in OHLC \cup {NoRow}, NEW new, NEW ok \in BOOLEAN,
               Written(old, new, ok), bucket # NoBucket
        PROVE  new \in OHLC \cup {NoRow} /\ errors' \in 0..MaxErrors
    BY <1>0, <1>2 DEF Written, TypeOK
  <1>3. ASSUME NEW mid \in Mids, Start(mid)  PROVE TypeOK'
    BY <1>1, <1>3 DEF Start, TypeOK
  <1>4. ASSUME NEW mid \in Mids, RollOver(mid)  PROVE TypeOK'
    <2>1. closedRow' \in OHLC \cup {NoRow} /\ errors' \in 0..MaxErrors
      BY <1>0, <1>2, <1>4 DEF RollOver
    <2> QED
      BY <1>1, <1>4, <2>1 DEF RollOver, TypeOK
  <1>5. ASSUME NEW mid \in Mids, Extend(mid)  PROVE TypeOK'
    <2>1. Extended(bucket, mid) \in OHLC
      BY <1>0, <1>5 DEF Extend, Extended, OHLC
    <2>2. samples' \in Seq([mid : Mids, age : 0..Old])
      BY <1>0, <1>5 DEF Extend, Samples
    <2> QED
      BY <1>5, <2>1, <2>2 DEF Extend, TypeOK
  <1>6. CASE Flush
    <2>1. row' \in OHLC \cup {NoRow} /\ errors' \in 0..MaxErrors /\ failed' \in BOOLEAN
      <3>1. CASE bucket = NoBucket
        BY <1>6, <3>1 DEF Flush, TypeOK
      <3>2. CASE bucket # NoBucket
        <4>1. PICK ok \in BOOLEAN : Written(row, row', ok) /\ failed' = ~ok
          BY <1>6, <3>2 DEF Flush
        <4> QED
          BY <1>0, <1>2, <3>2, <4>1
      <3> QED
        BY <3>1, <3>2
    <2> QED
      BY <1>6, <2>1 DEF Flush, TypeOK
  <1>7. CASE Restart
    BY <1>0, <1>7, Ends DEF Restart, TypeOK
  <1>8. CASE Time
    <2>1. samples' \in Seq([mid : Mids, age : 0..Old])
      BY <1>8, SamplesOlder DEF Samples
    <2>2. age' \in 0..Old
      BY <1>0, <1>8, OlderType DEF Time
    <2>3. flushIn' \in 0..FlushEvery
      BY <1>0, <1>8 DEF Time
    <2> QED
      BY <1>8, <2>1, <2>2, <2>3 DEF Time, TypeOK
  <1>9. CASE UNCHANGED vars
    BY <1>9 DEF vars, TypeOK
  <1> QED
    BY <1>3, <1>4, <1>5, <1>6, <1>7, <1>8, <1>9 DEF Next, OnSnapshot

\* Initially all is well typed.
LEMMA TypeInit == Init => TypeOK
  BY Ends DEF Init, TypeOK

\* The types of the k-lines hold throughout; above all a row is a bar or missing.
THEOREM TypeCorrect == Spec => []TypeOK
  <1>1. TypeOK /\ [Next]_vars => TypeOK'
    BY TypeStep
  <1> QED
    BY <1>1, TypeInit, PTL DEF Spec

-----------------------------------------------------------------------------
(* The chart.                                                              *)

\* The bucket is the bar of its samples.
BucketBar ==
    /\ bucket = NoBucket => samples = << >> /\ row = NoRow
    /\ bucket # NoBucket => Len(samples) > 0 /\ IsBar(bucket, samples, Len(samples))

\* The row is the bar of the first n samples, and the others came after klineLoop's
\* last tick.
UpTo(n) ==
    /\ n \in 0..Len(samples)
    /\ IF n = 0 THEN row = NoRow ELSE IsBar(row, samples, n)
    /\ \A k \in n + 1..Len(samples) : samples[k].age + flushIn <= FlushEvery

ChartInv == TypeOK /\ BucketBar /\ (failed \/ \E n \in Nat : UpTo(n))

\* A new bucket has one sample, and no row yet.
LEMMA BeginChart ==
    ASSUME TypeOK', NEW mid \in Mids, Begin(mid)
    PROVE  ChartInv'
  <1>1. /\ samples' = <<[mid |-> mid, age |-> 0]>> /\ bucket' = NewBucket(mid)
        /\ row' = NoRow /\ Len(samples') = 1
    BY DEF Begin
  <1>2. IsBar(bucket', samples', 1)
    BY <1>1, NewIsBar
  <1>3. NewBucket(mid) # NoBucket
    BY <1>2, NoneAssumption, <1>1 DEF IsBar
  <1>4. BucketBar'
    BY <1>1, <1>2, <1>3 DEF BucketBar
  <1>5. UpTo(0)'
    <2>1. \A k \in 0 + 1..Len(samples') : samples'[k].age = 0
      BY <1>1
    <2>2. flushIn' \in 0..FlushEvery /\ FlushEvery \in Nat
      BY KlinesAssumption DEF TypeOK
    <2> QED
      BY <1>1, <2>1, <2>2 DEF UpTo
  <1> QED
    BY <1>4, <1>5 DEF ChartInv

\* Every step keeps bucket and row.
LEMMA ChartStep ==
    ASSUME ChartInv, [Next]_vars
    PROVE  ChartInv'
  <1>0. TypeOK /\ TypeOK' /\ samples \in Seq(Samples) /\ Len(samples) \in Nat
    BY TypeStep DEF ChartInv, TypeOK, Samples
  <1>1. FlushEvery \in Nat /\ Old \in Nat /\ flushIn \in 0..FlushEvery
    BY <1>0, KlinesAssumption DEF TypeOK
  <1>2. ASSUME NEW mid \in Mids, Start(mid) \/ RollOver(mid)  PROVE ChartInv'
    BY <1>0, <1>2, BeginChart DEF Start, RollOver
  <1>3. ASSUME NEW mid \in Mids, Extend(mid)  PROVE ChartInv'
    <2> DEFINE s == [mid |-> mid, age |-> 0]
    <2>1. /\ bucket # NoBucket /\ Len(samples) > 0 /\ IsBar(bucket, samples, Len(samples))
          /\ bucket' = Extended(bucket, mid) /\ samples' = Append(samples, s)
          /\ UNCHANGED <<row, failed, flushIn>>
      BY <1>3 DEF Extend, ChartInv, BucketBar
    <2>2. s \in Samples /\ s.mid = mid /\ s.age = 0
      BY <1>1 DEF Samples
    <2> HIDE DEF s
    <2>3. /\ Len(samples') = Len(samples) + 1
          /\ \A k \in 1..Len(samples) : samples'[k] = samples[k]
          /\ samples'[Len(samples) + 1] = s
      BY <1>0, <2>1, <2>2
    <2>4. IsBar(bucket', samples', Len(samples'))
      BY <1>0, <2>1, <2>2, <2>3, ExtendedIsBar
    <2>5. BucketBar'
      BY <1>0, <2>3, <2>4, NoneAssumption DEF BucketBar, IsBar
    <2>6. ASSUME NEW n \in Nat, UpTo(n)  PROVE UpTo(n)'
      <3>1. n \in 0..Len(samples) /\ n \in 0..Len(samples')
        BY <1>0, <2>3, <2>6 DEF UpTo
      <3>2. IF n = 0 THEN row' = NoRow ELSE IsBar(row', samples', n)
        BY <1>0, <2>1, <2>3, <2>6, <3>1 DEF UpTo, IsBar
      <3>3. ASSUME NEW k \in n + 1..Len(samples')
            PROVE  samples'[k].age + flushIn <= FlushEvery
        <4>1. CASE k = Len(samples) + 1
          BY <1>1, <2>2, <2>3, <4>1
        <4>2. CASE k # Len(samples) + 1
          <5>1. k \in n + 1..Len(samples) /\ k \in 1..Len(samples)
            BY <1>0, <2>3, <3>1, <3>3, <4>2
          <5> QED
            BY <2>3, <2>6, <5>1 DEF UpTo
        <4> QED
          BY <4>1, <4>2
      <3> QED
        BY <2>1, <3>1, <3>2, <3>3 DEF UpTo
    <2> QED
      BY <1>0, <2>1, <2>5, <2>6 DEF ChartInv
  <1>4. CASE Flush
    <2>1. UNCHANGED <<bucket, samples>> /\ flushIn' = FlushEvery /\ flushIn = 0
      BY <1>4 DEF Flush
    <2>2. CASE bucket = NoBucket
      <3>1. samples = << >> /\ row = NoRow /\ UNCHANGED <<row, failed>>
        BY <1>4, <2>2 DEF Flush, ChartInv, BucketBar
      <3>2. Len(samples) = 0
        BY <3>1
      <3>3. UpTo(0)'
        BY <2>1, <3>1, <3>2 DEF UpTo
      <3>4. BucketBar'
        BY <2>1, <2>2, <3>1 DEF BucketBar
      <3> QED
        BY <1>0, <3>3, <3>4 DEF ChartInv
    <2>3. CASE bucket # NoBucket
      <3>1. PICK ok \in BOOLEAN : Written(row, row', ok) /\ failed' = ~ok
        BY <1>4, <2>3 DEF Flush
      <3>2. BucketBar'
        BY <2>1, <2>3 DEF ChartInv, BucketBar
      <3>3. CASE ok
        <4>1. row' = bucket /\ Len(samples) > 0 /\ IsBar(bucket, samples, Len(samples))
          BY <2>3, <3>1, <3>3 DEF Written, ChartInv, BucketBar
        <4>2. UpTo(Len(samples))'
          BY <1>0, <2>1, <4>1 DEF UpTo
        <4> QED
          BY <1>0, <3>2, <4>2 DEF ChartInv
      <3>4. CASE ~ok
        BY <1>0, <3>1, <3>2, <3>4 DEF ChartInv
      <3> QED
        BY <3>3, <3>4
    <2> QED
      BY <2>2, <2>3
  <1>5. CASE Restart
    <2>1. bucket' = NoBucket /\ samples' = << >> /\ row' = NoRow /\ Len(samples') = 0
      BY <1>5 DEF Restart
    <2>2. UpTo(0)'
      BY <2>1 DEF UpTo
    <2> QED
      BY <1>0, <2>1, <2>2 DEF ChartInv, BucketBar
  <1>6. CASE Time
    <2>1. /\ Len(samples') = Len(samples)
          /\ \A k \in 1..Len(samples) :
                /\ samples'[k].mid = samples[k].mid
                /\ samples'[k].age = Older(samples[k].age)
      BY <1>0, <1>6, SamplesOlder
    <2>2. UNCHANGED <<bucket, row, failed>> /\ flushIn' = flushIn - 1 /\ flushIn > 0
      BY <1>6 DEF Time
    <2>3. ASSUME NEW b, NEW n \in 1..Len(samples), IsBar(b, samples, n)
          PROVE  IsBar(b, samples', n)
      <3>1. \A k \in 1..n : samples'[k].mid = samples[k].mid
        BY <1>0, <2>1
      <3>2. 1 \in 1..n /\ n \in 1..n
        BY <1>0
      <3> QED
        BY <2>3, <3>1, <3>2 DEF IsBar
    <2>4. BucketBar'
      <3>1. CASE bucket = NoBucket
        <4>1. samples = << >> /\ samples' = << >> /\ row = NoRow
          BY <1>6, <3>1 DEF Time, ChartInv, BucketBar
        <4> QED
          BY <2>2, <3>1, <4>1 DEF BucketBar
      <3>2. CASE bucket # NoBucket
        BY <1>0, <2>1, <2>2, <2>3, <3>2 DEF ChartInv, BucketBar
      <3> QED
        BY <3>1, <3>2
    <2>5. ASSUME NEW n \in Nat, UpTo(n)  PROVE UpTo(n)'
      <3>1. n \in 0..Len(samples)
        BY <2>5 DEF UpTo
      <3>2. IF n = 0 THEN row' = NoRow ELSE IsBar(row', samples', n)
        BY <1>0, <2>2, <2>3, <2>5, <3>1 DEF UpTo
      <3>3. ASSUME NEW k \in n + 1..Len(samples)
            PROVE  samples'[k].age + flushIn' <= FlushEvery
        <4>1. k \in 1..Len(samples)
          BY <1>0, <3>1, <3>3
        <4>2. samples[k].age \in 0..Old /\ samples[k].age + flushIn <= FlushEvery
          BY <1>0, <2>5, <3>3, <4>1, SampleType DEF UpTo
        <4>3. samples'[k].age \in 0..Old /\ samples'[k].age <= samples[k].age + 1
          BY <2>1, <4>1, <4>2, OlderType
        <4> QED
          BY <1>1, <2>2, <4>2, <4>3
      <3> QED
        BY <2>1, <3>1, <3>2, <3>3 DEF UpTo
    <2> QED
      BY <1>0, <2>2, <2>4, <2>5 DEF ChartInv
  <1>7. CASE UNCHANGED vars
    BY <1>0, <1>7 DEF vars, ChartInv, BucketBar, UpTo
  <1> QED
    BY <1>2, <1>3, <1>4, <1>5, <1>6, <1>7 DEF Next, OnSnapshot

\* Initially there is neither bucket nor row.
LEMMA ChartInit == Init => ChartInv
  <1> SUFFICES ASSUME Init  PROVE ChartInv
    OBVIOUS
  <1>1. Len(<< >>) = 0
    OBVIOUS
  <1>2. UpTo(0)
    BY <1>1 DEF Init, UpTo
  <1> QED
    BY <1>2, TypeInit DEF Init, ChartInv, BucketBar

\* The chart is at most one period behind: unless its last write failed, the row of
\* the running bucket is the bar of all prices but those since klineLoop's last tick.
THEOREM ChartKeepsUp == Spec => []KlinesKeepUp
  <1>1. ChartInv /\ [Next]_vars => ChartInv'
    BY ChartStep
  <1>2. ChartInv => KlinesKeepUp
    <2> SUFFICES ASSUME ChartInv, NEW n \in Nat, UpTo(n)  PROVE KlinesKeepUp
      BY DEF ChartInv, KlinesKeepUp
    <2>1. /\ samples \in Seq(Samples) /\ Len(samples) \in Nat
          /\ flushIn \in 0..FlushEvery /\ FlushEvery \in Nat
      BY KlinesAssumption DEF ChartInv, TypeOK, Samples
    <2>2. n \in 0..Len(samples)
      BY DEF UpTo
    <2>3. row = IF n = 0 THEN NoRow ELSE BarOf(SubSeq(samples, 1, n))
      BY <2>1, <2>2, BarUpTo DEF UpTo
    <2>4. ASSUME NEW k \in n + 1..Len(samples)  PROVE samples[k].age <= FlushEvery
      <3>1. k \in 1..Len(samples)
        BY <2>1, <2>2
      <3>2. samples[k].age \in 0..Old
        BY <2>1, <3>1, SampleType
      <3>3. samples[k].age + flushIn <= FlushEvery
        BY DEF UpTo
      <3> QED
        BY <2>1, <3>2, <3>3, KlinesAssumption
    <2> QED
      BY <2>2, <2>3, <2>4 DEF KlinesKeepUp
  <1> QED
    BY <1>1, <1>2, ChartInit, PTL DEF Spec

\* When a bucket ends, its row becomes the bar of all the prices it saw, unless this
\* write failed (OnSnapshot writes before it replaces the bucket).
THEOREM ClosedComplete == Spec => ClosedBucketComplete
  <1>1. ChartInv /\ [Next]_vars => ChartInv'
    BY ChartStep
  <1>2. ChartInv => [\A mid \in Mids : RollOver(mid) =>
                        closedRow' = BarOf(samples) \/ errors' = errors + 1]_vars
    <2> SUFFICES ASSUME ChartInv, NEW mid \in Mids, RollOver(mid)
                 PROVE  closedRow' = BarOf(samples) \/ errors' = errors + 1
      OBVIOUS
    <2>1. PICK ok \in BOOLEAN : Written(row, closedRow', ok) /\ bucket # NoBucket
      BY DEF RollOver
    <2>2. samples \in Seq(Samples)
      BY DEF ChartInv, TypeOK, Samples
    <2>3. bucket = BarOf(samples)
      BY <2>1, <2>2, BarIs DEF ChartInv, BucketBar
    <2> QED
      BY <2>1, <2>3 DEF Written
  <1> QED
    BY <1>1, <1>2, ChartInit, PTL DEF Spec, ClosedBucketComplete

=============================================================================
