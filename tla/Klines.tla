------------------------------- MODULE Klines -------------------------------
(***************************************************************************)
(* The one-minute k-lines of one instrument in sync.Engine.  OnSnapshot,   *)
(* on the aggregator's goroutine, gathers the pool's mid prices in a       *)
(* bucket and writes it out when the next one begins; klineLoop writes the *)
(* unfinished bucket as well, once per period.  Both hold klineMu          *)
(* throughout, the writes included.  A write may fail, which nobody hears  *)
(* of, and a restart forgets the bucket.                                   *)
(*                                                                         *)
(* A step of the clock is the polling interval, so that one snapshot comes *)
(* per step or, when reads are slow, none.  Ages are counted up to Old.    *)
(***************************************************************************)
EXTENDS Naturals, Sequences, FiniteSetsExt

CONSTANTS
    Mids,        \* the prices a pool may show; 0 stands for a failed read
    BucketLen,   \* the 60 seconds of a bucket
    FlushEvery,  \* the 60 seconds of klineLoop's ticker
    MaxErrors,   \* bound on failed writes
    Old,         \* bound on the ages that are told apart
    NoBucket, NoRow

ASSUME KlinesAssumption ==
    /\ Mids \subseteq Nat \ {0}
    /\ {BucketLen, FlushEvery} \subseteq Nat \ {0}
    /\ MaxErrors \in Nat
    /\ Old \in Nat /\ Old > BucketLen /\ Old > FlushEvery

OHLC == [open : Mids, high : Mids, low : Mids, close : Mids]

ASSUME NoneAssumption == NoBucket \notin OHLC /\ NoRow \notin OHLC

VARIABLES
    bucket,     \* Engine.klines[id]
    age,        \* how long ago it started
    samples,    \* history: the mids of the bucket with their ages
    row,        \* the row of this bucket in market_klines
    closedRow,  \* that of the bucket before
    failed,     \* history: the last write of this bucket failed
    flushIn,    \* until klineLoop's next tick
    due,        \* a snapshot may come
    errors      \* the writes that failed so far

vars == <<bucket, age, samples, row, closedRow, failed, flushIn, due, errors>>

TypeOK ==
    /\ bucket \in OHLC \cup {NoBucket}
    /\ age \in 0..Old
    /\ samples \in Seq([mid : Mids, age : 0..Old])
    /\ row \in OHLC \cup {NoRow}
    /\ closedRow \in OHLC \cup {NoRow}
    /\ failed \in BOOLEAN
    /\ flushIn \in 0..FlushEvery
    /\ due \in BOOLEAN
    /\ errors \in 0..MaxErrors

Init ==
    /\ bucket = NoBucket /\ age = 0 /\ samples = << >>
    /\ row = NoRow /\ closedRow = NoRow /\ failed = FALSE
    /\ flushIn = FlushEvery
    /\ due = TRUE
    /\ errors = 0

-----------------------------------------------------------------------------
\* Faulty: a bucket that starts high or low keeps that extreme.
ExtendedCloseOnly(b, mid) == [b EXCEPT !.close = mid]

\* The bucket with one more price.
Extended(b, mid) ==
    [b EXCEPT !.close = mid,
              !.high = IF mid > @ THEN mid ELSE @,
              !.low = IF mid < @ THEN mid ELSE @]

NewBucket(mid) == [open |-> mid, high |-> mid, low |-> mid, close |-> mid]

\* flushKline replaces the bucket's row, or fails and leaves it.
Written(old, new, ok) ==
    /\ new = IF ok THEN bucket ELSE old
    /\ errors' = IF ok THEN errors ELSE errors + 1
    /\ errors' <= MaxErrors

Begin(mid) ==
    /\ bucket' = NewBucket(mid)
    /\ age' = 0
    /\ samples' = <<[mid |-> mid, age |-> 0]>>
    /\ row' = NoRow
    /\ failed' = FALSE

\* The first price.
Start(mid) ==
    /\ due /\ due' = FALSE
    /\ bucket = NoBucket
    /\ Begin(mid)
    /\ UNCHANGED <<closedRow, flushIn, errors>>

\* Faulty: the finished bucket is left to klineLoop, which no longer finds it.
RollOverUnwritten(mid) ==
    /\ due /\ due' = FALSE
    /\ bucket # NoBucket /\ age >= BucketLen
    /\ closedRow' = row
    /\ Begin(mid)
    /\ UNCHANGED <<flushIn, errors>>

\* A price for which the bucket is too old: it is written and the next begins.
RollOver(mid) ==
    /\ due /\ due' = FALSE
    /\ bucket # NoBucket /\ age >= BucketLen
    /\ \E ok \in BOOLEAN : Written(row, closedRow', ok)
    /\ Begin(mid)
    /\ UNCHANGED flushIn

\* A price within the bucket.
Extend(mid) ==
    /\ due /\ due' = FALSE
    /\ bucket # NoBucket /\ age < BucketLen
    /\ bucket' = Extended(bucket, mid)
    /\ samples' = Append(samples, [mid |-> mid, age |-> 0])
    /\ UNCHANGED <<age, row, closedRow, failed, flushIn, errors>>

OnSnapshot == \E mid \in Mids : Start(mid) \/ RollOver(mid) \/ Extend(mid)

\* A tick of klineLoop.
Flush ==
    /\ flushIn = 0
    /\ flushIn' = FlushEvery
    /\ IF bucket = NoBucket
       THEN UNCHANGED <<row, failed, errors>>
       ELSE \E ok \in BOOLEAN : Written(row, row', ok) /\ failed' = ~ok
    /\ UNCHANGED <<bucket, age, samples, closedRow, due>>

\* The process ends and is started again; what was written stays.
Restart ==
    /\ bucket' = NoBucket /\ age' = 0 /\ samples' = << >>
    /\ closedRow' = IF row = NoRow THEN closedRow ELSE row
    /\ row' = NoRow /\ failed' = FALSE
    /\ flushIn' = FlushEvery
    /\ due' = FALSE
    /\ UNCHANGED errors

Older(a) == IF a < Old THEN a + 1 ELSE a

\* The ticker is served before time goes on; a snapshot may stay out or bring no price.
Time ==
    /\ flushIn > 0 /\ flushIn' = flushIn - 1
    /\ age' = IF bucket = NoBucket THEN 0 ELSE Older(age)
    /\ samples' = [k \in DOMAIN samples |-> [samples[k] EXCEPT !.age = Older(@)]]
    /\ due' = TRUE
    /\ UNCHANGED <<bucket, row, closedRow, failed, errors>>

Next == OnSnapshot \/ Flush \/ Restart \/ Time

Spec == Init /\ [][Next]_vars

-----------------------------------------------------------------------------
\* The bar of a non-empty sequence of samples, by its definition.
BarOf(ss) ==
    LET mids == {ss[k].mid : k \in DOMAIN ss}
    IN  [open |-> ss[1].mid, high |-> Max(mids), low |-> Min(mids),
         close |-> ss[Len(ss)].mid]

(* The chart is at most one period behind (klineLoop, engine.go:162-164):  *)
(* the row of the running bucket is the bar of the prices up to some point *)
(* that is no more than FlushEvery ago, unless its last write failed.      *)
KlinesKeepUp ==
    failed \/ \E n \in 0..Len(samples) :
        /\ row = IF n = 0 THEN NoRow ELSE BarOf(SubSeq(samples, 1, n))
        /\ \A k \in n + 1..Len(samples) : samples[k].age <= FlushEvery

(* When a bucket ends, its row becomes the bar of all the prices it saw,   *)
(* unless this write failed (OnSnapshot, engine.go:79-89).                 *)
ClosedBucketComplete ==
    [][\A mid \in Mids : RollOver(mid) =>
            closedRow' = BarOf(samples) \/ errors' = errors + 1]_vars

=============================================================================
