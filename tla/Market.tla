------------------------------- MODULE Market -------------------------------
(***************************************************************************)
(* market.Aggregator over the feed of Binance prices and the fail-over     *)
(* reader of the chain.  Each tick takes the time-weighted price of the    *)
(* symbols it needs, reads the pools of all instruments in parallel under  *)
(* a deadline, and hands one snapshot to its subscribers in turn.  One     *)
(* step of the clock is the polling interval.                              *)
(***************************************************************************)
EXTENDS Feed

CONSTANTS
    Instruments,
    SourceOf,    \* the symbols an instrument's target is computed from: one, or a ratio of two
    Windows,     \* the values of twap_window_sec
    Endpoints,   \* how many RPC endpoints the reader has
    ReadTimeout  \* the deadline of the reads of one tick

ASSUME MarketAssumption ==
    /\ SourceOf \in [Instruments -> SUBSET Symbols \ {{}}]
    /\ Windows \subseteq Nat \ {0} /\ Windows # {}
    /\ Endpoints \in Nat \ {0} /\ ReadTimeout \in Nat \ {0}
    /\ \A w \in Windows : w + ReadTimeout < Old

VARIABLES
    due,      \* a tick waits in the ticker's channel
    stage,    \* loop: "idle", "read" (the pools) or "publish" (the subscribers run)
    quoted,   \* twapQuotes: the symbols that had a sample in the window
    at,       \* the endpoint that each instrument's read is at
    result,   \* what the read has returned, or "wait"
    readFor,  \* how long the reads have taken
    last      \* Aggregator.last: PoolFresh and TargetFresh of each instrument

aggVars == <<due, stage, quoted, at, result, readFor, last>>
vars == <<feedVars, aggVars>>

TypeOK ==
    /\ FeedTypeOK
    /\ due \in BOOLEAN
    /\ stage \in {"idle", "read", "publish"}
    /\ quoted \subseteq Symbols
    /\ at \in [Instruments -> 1..Endpoints]
    /\ result \in [Instruments -> {"wait", "price", "zero", "error"}]
    /\ readFor \in 0..ReadTimeout
    /\ last \in [Instruments -> [poolFresh : BOOLEAN, targetFresh : BOOLEAN]]

Init ==
    /\ FeedInit
    /\ due = TRUE
    /\ stage = "idle"
    /\ quoted = {}
    /\ at = [i \in Instruments |-> 1]
    /\ result = [i \in Instruments |-> "error"]
    /\ readFor = 0
    /\ last = [i \in Instruments |-> [poolFresh |-> FALSE, targetFresh |-> FALSE]]

-----------------------------------------------------------------------------
\* GetTWAP answers: the walk over the history meets a sample before the cutoff.
HasTWAP(sym, window) == age[sym] <= window

\* The first part of tick, up to the start of the reads.  The window is looked up for
\* each symbol.
StartTick ==
    /\ due /\ stage = "idle"
    /\ due' = FALSE
    /\ stage' = "read"
    /\ \E w \in [Symbols -> Windows] : quoted' = {s \in Symbols : HasTWAP(s, w[s])}
    /\ at' = [i \in Instruments |-> 1]
    /\ result' = [i \in Instruments |-> "wait"]
    /\ readFor' = 0
    /\ UNCHANGED <<feedVars, last>>

Reading(i) == stage = "read" /\ result[i] = "wait"

\* The endpoint answers; a pool without a price yet answers zero.
Answer(i) ==
    /\ Reading(i)
    /\ \E r \in {"price", "zero"} : result' = [result EXCEPT ![i] = r]
    /\ UNCHANGED <<feedVars, due, stage, quoted, at, readFor, last>>

\* The endpoint returns an error: FailoverReader takes the next one, or gives up.
FailOver(i) ==
    /\ Reading(i)
    /\ IF at[i] < Endpoints
       THEN at' = [at EXCEPT ![i] = @ + 1] /\ UNCHANGED result
       ELSE result' = [result EXCEPT ![i] = "error"] /\ UNCHANGED at
    /\ UNCHANGED <<feedVars, due, stage, quoted, readFor, last>>

\* Faulty: the reads have no deadline.
ExpireNever == FALSE /\ UNCHANGED vars

\* The deadline, which all the endpoints of a read share, passes.
Expire ==
    /\ stage = "read" /\ readFor = ReadTimeout
    /\ \E i \in Instruments : Reading(i)
    /\ result' = [i \in Instruments |-> IF Reading(i) THEN "error" ELSE result[i]]
    /\ UNCHANGED <<feedVars, due, stage, quoted, at, readFor, last>>

\* Faulty: a ratio is fresh if one of its two quotes is.
ComputeTargetEither(i) == SourceOf[i] \cap quoted # {}

\* computeTarget: the quotes are stamped with the time of the tick, so that they pass its
\* 30 seconds; what makes a target stale is a symbol without a quote.
ComputeTarget(i) == SourceOf[i] \subseteq quoted

Collected == stage = "read" /\ \A i \in Instruments : ~Reading(i)

Publish ==
    /\ Collected
    /\ stage' = "publish"
    /\ last' = [i \in Instruments |->
                    [poolFresh |-> result[i] = "price", targetFresh |-> ComputeTarget(i)]]
    /\ UNCHANGED <<feedVars, due, quoted, at, result, readFor>>

\* The last subscriber returns.
Return ==
    /\ stage = "publish"
    /\ stage' = "idle"
    /\ UNCHANGED <<feedVars, due, quoted, at, result, readFor, last>>

Time ==
    /\ FeedTime
    /\ ~(due /\ stage = "idle")
    /\ ~Collected
    /\ stage = "read" => readFor < ReadTimeout
    /\ due' = TRUE
    /\ readFor' = IF stage = "read" THEN readFor + 1 ELSE readFor
    /\ UNCHANGED <<stage, quoted, at, result, last>>

Next ==
    \/ FeedNext /\ UNCHANGED aggVars
    \/ \E i \in Instruments : Answer(i) \/ FailOver(i)
    \/ StartTick \/ Expire \/ Publish \/ Return \/ Time

Spec == Init /\ [][Next]_vars

(* The clock and the program's own steps go on; the endpoints, the stream  *)
(* and the REST requests need not.  Return stands for the subscribers,     *)
(* whose database and Redis calls have deadlines of their own.             *)
FairSpec ==
    /\ Spec
    /\ WF_vars(Time)
    /\ WF_vars(RestTick /\ UNCHANGED aggVars)
    /\ WF_vars(StartTick) /\ WF_vars(Expire) /\ WF_vars(Publish) /\ WF_vars(Return)

-----------------------------------------------------------------------------
(* When a snapshot calls an instrument's target fresh, every symbol behind *)
(* it, both of a ratio, has a sample no older than the window and the time *)
(* the pools took to read; the reads separate the prices from the snapshot *)
(* (tick and computeTarget, aggregator.go:109-270).                        *)
FreshTargetsRecent ==
    [][Publish => \A i \in Instruments : last'[i].targetFresh =>
            \A s \in SourceOf[i] : \E w \in Windows : age[s] <= w + ReadTimeout]_vars

(* Snapshots keep coming even if no endpoint, no stream and no REST server *)
(* ever answers again (the deadline of the reads, aggregator.go:160).      *)
SnapshotsKeepComing == []<>(stage = "publish") /\ []<>(stage = "read")

=============================================================================
