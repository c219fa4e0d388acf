----------------------------- MODULE Execution -----------------------------
(***************************************************************************)
(* The trading pipeline of the market-maker service: the aggregator's poll *)
(* goroutine asks the strategy engine for decisions (strategy/engine.go)   *)
(* and dispatches each of them to a goroutine of execution.Service         *)
(* (execution/service.go), which passes the risk gate, submits the swap in *)
(* TWAP slices, records the outcome and releases the instrument.  The      *)
(* receipt of a submitted swap is awaited by yet another goroutine, after  *)
(* the release.                                                            *)
(*                                                                         *)
(* The gates of Guard.Allow other than the back-off are a free choice      *)
(* here; module RiskGuard models them.  What is written to the database is *)
(* no part of this module.                                                 *)
(***************************************************************************)
EXTENDS GuardHealth, Sequences

CONSTANTS
    Execs,          \* the goroutines that may ever be started (a bound)
    None,           \* no instrument, no execution
    Routed,         \* the instruments whose venue has an executor: V3 and V4
    MaxSlices,      \* largest twap_slice_count
    Cooldown,       \* cooldown_sec
    ExecTimeout,    \* the context of one execution: 3 minutes
    ConfirmTimeout, \* how long awaitConfirmation polls for a receipt: 3 minutes
    Redis,          \* TRUE when initRedis connected
    LockTTL,        \* REDIS_LOCK_TTL_SEC
    MaxTime,        \* bound on the clock
    MaxRedisErrors, \* bound on failed Redis calls
    MaxCrashes      \* bound on restarts of the process

ASSUME RoutedAssumption == Routed \subseteq Instruments
ASSUME NoneAssumption == None \notin Instruments \cup Execs
ASSUME TimesAssumption ==
    /\ Cooldown \in Nat \ {0}
    /\ ExecTimeout \in Nat \ {0}
    /\ ConfirmTimeout \in Nat \ {0}
    /\ LockTTL \in Nat \ {0}
    /\ MaxSlices \in Nat \ {0}
ASSUME BoundsAssumption ==
    /\ MaxTime \in Nat
    /\ MaxRedisErrors \in Nat
    /\ MaxCrashes \in Nat
ASSUME RedisAssumption == Redis \in BOOLEAN

VARIABLES
    snapAt,      \* GeneratedAt of the snapshot the poll goroutine works on
    toEvaluate,  \* instruments Decide has yet to evaluate
    decided,     \* decisions OnSnapshot has yet to dispatch
    running,     \* Service.running
    redisKey,    \* expiry of the key mm:lock:<instrument>; 0 when never set
    redisErrors, \* failed Redis calls so far
    pc,          \* where each execution is
    inst,        \* the instrument it works on
    startedAt,   \* when its context was created
    gateAt,      \* when it read the back-off
    slices,      \* the slice count executeTWAP read
    result,      \* the status of the result executeTWAP would return now
    swaps,       \* the status of every swap it sent, in order
    confirm,     \* the goroutine awaiting its receipt
    settledAt,   \* when that goroutine was started
    lastTrade,   \* Engine.lastTrade
    marks,       \* history: every time given to MarkExecuted
    overran,     \* history: instruments an execution held beyond LockTTL
    crashes      \* restarts so far

pollVars == <<snapAt, toEvaluate, decided>>
lockVars == <<running, redisKey, redisErrors>>
execVars == <<inst, startedAt, gateAt, slices, result>>
chainVars == <<swaps, confirm, settledAt>>
tradeVars == <<lastTrade, marks>>
vars == <<now, healthVars, pollVars, lockVars, pc, execVars, chainVars,
          tradeVars, overran, crashes>>

-----------------------------------------------------------------------------
Time == Nat \cup {NoTime}

\* Inside Service.execute.
Inside == {"gate", "verdict", "send", "sleep", "settle"}
\* Between a successful tryAcquire and the end of release.
Active == Inside \cup {"unlock", "delete"}

SwapStatus == {"pending", "ok", "reverted"}

TypeOK ==
    /\ now \in Nat
    /\ HealthTypeOK
    /\ snapAt \in Nat
    /\ toEvaluate \subseteq Instruments
    /\ decided \subseteq Instruments
    /\ running \subseteq Instruments
    /\ redisKey \in [Instruments -> Nat]
    /\ redisErrors \in Nat
    /\ pc \in [Execs -> Active \cup {"new", "done", "dead"}]
    /\ inst \in [Execs -> Instruments \cup {None}]
    /\ startedAt \in [Execs -> Nat]
    /\ gateAt \in [Execs -> Nat]
    /\ slices \in [Execs -> Nat]
    /\ result \in [Execs -> {"submitted", "failed"}]
    /\ swaps \in [Execs -> Seq(SwapStatus)]
    /\ confirm \in [Execs -> {"none", "waiting", "done"}]
    /\ settledAt \in [Execs -> Nat]
    /\ lastTrade \in [Instruments -> Time]
    /\ marks \in [Instruments -> Seq(Nat)]
    /\ overran \subseteq Instruments
    /\ crashes \in Nat

\* An execution that was started has an instrument.
Assigned ==
    \A e \in Execs : pc[e] # "new" \/ confirm[e] # "none" => inst[e] \in Instruments

Init ==
    /\ now = 0
    /\ HealthInit
    /\ snapAt = 0 /\ toEvaluate = {} /\ decided = {}
    /\ running = {}
    /\ redisKey = [i \in Instruments |-> 0]
    /\ redisErrors = 0
    /\ pc = [e \in Execs |-> "new"]
    /\ inst = [e \in Execs |-> None]
    /\ startedAt = [e \in Execs |-> 0]
    /\ gateAt = [e \in Execs |-> 0]
    /\ slices = [e \in Execs |-> 0]
    /\ result = [e \in Execs |-> "submitted"]
    /\ swaps = [e \in Execs |-> << >>]
    /\ confirm = [e \in Execs |-> "none"]
    /\ settledAt = [e \in Execs |-> 0]
    /\ lastTrade = [i \in Instruments |-> NoTime]
    /\ marks = [i \in Instruments |-> << >>]
    /\ overran = {}
    /\ crashes = 0

-----------------------------------------------------------------------------
(* The poll goroutine: Aggregator.tick calls Service.OnSnapshot.           *)

\* A tick stamps its snapshot before it reads the pools.  The previous tick has
\* returned: subscribers run on the poll goroutine.
Snapshot ==
    /\ toEvaluate = {} /\ decided = {}
    /\ snapAt' = now
    /\ toEvaluate' = Instruments
    /\ UNCHANGED <<now, healthVars, decided, lockVars, pc, execVars, chainVars,
                   tradeVars, overran, crashes>>

\* Faulty: the trade must only be older than the snapshot.
CooledDownMissing(i) == snapAt >= lastTrade[i]

\* lastTrade is compared with the snapshot's time, not with the clock.
CooledDown(i) ==
    \/ lastTrade[i] = NoTime
    \/ snapAt - lastTrade[i] >= Cooldown

\* Engine.evaluate; whether prices are fresh and the deviation is worth a trade
\* is the market's choice.
Evaluate(i) ==
    /\ i \in toEvaluate
    /\ toEvaluate' = toEvaluate \ {i}
    /\ \/ CooledDown(i) /\ decided' = decided \cup {i}
       \/ UNCHANGED decided
    /\ UNCHANGED <<now, healthVars, snapAt, lockVars, pc, execVars, chainVars,
                   tradeVars, overran, crashes>>

\* The goroutine OnSnapshot starts once it holds the instrument.
Start(e, i) ==
    /\ pc[e] = "new"
    /\ pc' = [pc EXCEPT ![e] = "gate"]
    /\ inst' = [inst EXCEPT ![e] = i]
    /\ startedAt' = [startedAt EXCEPT ![e] = now]
    /\ UNCHANGED <<gateAt, slices, result>>

KeyHeld(i) == now < redisKey[i]

\* Faulty: Set where SetNX is meant.
AcquireRedisAlways(e, i) ==
    /\ Redis
    /\ redisKey' = [redisKey EXCEPT ![i] = now + LockTTL]
    /\ Start(e, i)
    /\ UNCHANGED <<running, redisErrors>>

\* SetNX with a TTL; the value is the operator's address, equal for every caller.
AcquireRedis(e, i) ==
    /\ Redis
    /\ ~KeyHeld(i)
    /\ redisKey' = [redisKey EXCEPT ![i] = now + LockTTL]
    /\ Start(e, i)
    /\ UNCHANGED <<running, redisErrors>>

\* Faulty: the entry of another execution is overwritten.
AcquireLocalUnchecked(e, i) ==
    /\ running' = running \cup {i}
    /\ Start(e, i)

AcquireLocal(e, i) ==
    /\ i \notin running
    /\ running' = running \cup {i}
    /\ Start(e, i)

\* SetNX failed or timed out, whether or not the server applied it.
RedisFails(i) ==
    /\ redisErrors < MaxRedisErrors
    /\ redisErrors' = redisErrors + 1
    /\ \/ UNCHANGED redisKey
       \/ ~KeyHeld(i) /\ redisKey' = [redisKey EXCEPT ![i] = now + LockTTL]

\* tryAcquire returned false: the decision is dropped.
Refused(i) ==
    /\ UNCHANGED <<running, pc, inst, startedAt, gateAt, slices, result>>
    /\ \/ Redis /\ KeyHeld(i) /\ UNCHANGED <<redisKey, redisErrors>>
       \/ Redis /\ i \in running /\ RedisFails(i)
       \/ ~Redis /\ i \in running /\ UNCHANGED <<redisKey, redisErrors>>

Dispatch(i) ==
    /\ toEvaluate = {} /\ i \in decided
    /\ decided' = decided \ {i}
    /\ \/ \E e \in Execs : AcquireRedis(e, i)
       \/ \E e \in Execs : Redis /\ RedisFails(i) /\ AcquireLocal(e, i)
       \/ \E e \in Execs : /\ ~Redis
                           /\ AcquireLocal(e, i)
                           /\ UNCHANGED <<redisKey, redisErrors>>
       \/ Refused(i)
    /\ UNCHANGED <<now, healthVars, snapAt, toEvaluate, chainVars, tradeVars,
                   overran, crashes>>

-----------------------------------------------------------------------------
(* One execution: Service.execute and the deferred release.                *)

Goto(e, from, to) ==
    /\ pc[e] = from
    /\ pc' = [pc EXCEPT ![e] = to]

\* Guard.Allow reads the back-off; a rejected decision is only recorded.  The
\* read takes no lock: torn by a concurrent write it can refuse a decision for no
\* reason, which Verdict allows for, but not let one pass.
Gate(e) ==
    /\ pc[e] = "gate"
    /\ IF Healthy(inst[e])
       THEN /\ Goto(e, "gate", "verdict")
            /\ gateAt' = [gateAt EXCEPT ![e] = now]
       ELSE Goto(e, "gate", "unlock") /\ UNCHANGED gateAt
    /\ UNCHANGED <<now, healthVars, pollVars, lockVars, inst, startedAt, slices,
                   result, chainVars, tradeVars, overran, crashes>>

\* The verdict of the other gates, after the gas price was asked for.  A venue
\* without an executor returns at once; otherwise executeTWAP reads the slice
\* count.
Verdict(e) ==
    /\ \/ Goto(e, "verdict", "unlock") /\ UNCHANGED slices
       \/ /\ inst[e] \in Routed
          /\ Goto(e, "verdict", "send")
          /\ \E n \in 1..MaxSlices : slices' = [slices EXCEPT ![e] = n]
    /\ UNCHANGED <<now, healthVars, pollVars, lockVars, inst, startedAt, gateAt,
                   result, chainVars, tradeVars, overran, crashes>>

Expired(e) == now >= startedAt[e] + ExecTimeout

\* Executor.Execute accepted one slice: approve, sign and send, no wait for the
\* swap's receipt.
SendSlice(e) ==
    /\ ~Expired(e)
    /\ Goto(e, "send", IF Len(swaps[e]) + 1 = slices[e] THEN "settle" ELSE "sleep")
    /\ swaps' = [swaps EXCEPT ![e] = Append(@, "pending")]
    /\ UNCHANGED <<now, healthVars, pollVars, lockVars, execVars, confirm,
                   settledAt, tradeVars, overran, crashes>>

\* Executor.Execute failed: executeTWAP returns that result at once, whatever
\* the earlier slices did.  A node may have taken the swap and the reply be lost.
SliceFails(e) ==
    /\ Goto(e, "send", "settle")
    /\ result' = [result EXCEPT ![e] = "failed"]
    /\ \/ UNCHANGED swaps
       \/ ~Expired(e) /\ swaps' = [swaps EXCEPT ![e] = Append(@, "pending")]
    /\ UNCHANGED <<now, healthVars, pollVars, lockVars, inst, startedAt, gateAt,
                   slices, confirm, settledAt, tradeVars, overran, crashes>>

\* 1.5 s between slices, or the context ends first.
Pause(e) ==
    /\ \/ Goto(e, "sleep", "send") /\ UNCHANGED result
       \/ /\ Expired(e)
          /\ Goto(e, "sleep", "settle")
          /\ result' = [result EXCEPT ![e] = "failed"]
    /\ UNCHANGED <<now, healthVars, pollVars, lockVars, inst, startedAt, gateAt,
                   slices, chainVars, tradeVars, overran, crashes>>

\* The result switch of execute: MarkExecuted and a confirmation of the last
\* slice, or RecordFailure.  No executor returns "confirmed".
Settle(e) ==
    /\ Goto(e, "settle", "unlock")
    /\ IF result[e] = "failed"
       THEN /\ RecordFailure(inst[e])
            /\ UNCHANGED <<confirm, settledAt, tradeVars>>
       ELSE /\ lastTrade' = [lastTrade EXCEPT ![inst[e]] = now]
            /\ marks' = [marks EXCEPT ![inst[e]] = Append(@, now)]
            /\ confirm' = [confirm EXCEPT ![e] = "waiting"]
            /\ settledAt' = [settledAt EXCEPT ![e] = now]
            /\ UNCHANGED healthVars
    /\ UNCHANGED <<now, pollVars, lockVars, execVars, swaps, overran, crashes>>

\* Faulty: release waits for Redis where there is none.
UnlockWithoutCheck(e) ==
    /\ Redis
    /\ Goto(e, "unlock", "delete")
    /\ redisKey' = [redisKey EXCEPT ![inst[e]] = 0]
    /\ UNCHANGED <<now, healthVars, pollVars, running, redisErrors, execVars,
                   chainVars, tradeVars, overran, crashes>>

\* release, first half: the key is deleted whoever set it; an error is ignored.
Unlock(e) ==
    /\ Goto(e, "unlock", "delete")
    /\ \/ /\ Redis
          /\ redisKey' = [redisKey EXCEPT ![inst[e]] = 0]
          /\ UNCHANGED redisErrors
       \/ /\ Redis
          /\ redisErrors < MaxRedisErrors
          /\ redisErrors' = redisErrors + 1
          /\ UNCHANGED redisKey
       \/ ~Redis /\ UNCHANGED <<redisKey, redisErrors>>
    /\ UNCHANGED <<now, healthVars, pollVars, running, execVars, chainVars,
                   tradeVars, overran, crashes>>

\* Faulty: the entry stays in the running map.
DeleteForgotten(e) ==
    /\ Goto(e, "delete", "done")
    /\ UNCHANGED <<now, healthVars, pollVars, lockVars, execVars, chainVars,
                   tradeVars, overran, crashes>>

\* release, second half; the goroutine and its locals are gone.
Delete(e) ==
    /\ Goto(e, "delete", "done")
    /\ running' = running \ {inst[e]}
    /\ startedAt' = [startedAt EXCEPT ![e] = 0]
    /\ gateAt' = [gateAt EXCEPT ![e] = 0]
    /\ slices' = [slices EXCEPT ![e] = 0]
    /\ result' = [result EXCEPT ![e] = "submitted"]
    /\ UNCHANGED <<now, healthVars, pollVars, redisKey, redisErrors, inst,
                   chainVars, tradeVars, overran, crashes>>

Execute(e) ==
    \/ Gate(e) \/ Verdict(e) \/ SendSlice(e) \/ SliceFails(e) \/ Pause(e)
    \/ Settle(e) \/ Unlock(e) \/ Delete(e)

-----------------------------------------------------------------------------
(* The chain, the confirmations, the clock and the process.                *)

LastSwap(e) == swaps[e][Len(swaps[e])]

\* awaitConfirmation: a receipt of the last slice, or none in time.
Confirm(e) ==
    /\ confirm[e] = "waiting"
    /\ confirm' = [confirm EXCEPT ![e] = "done"]
    /\ settledAt' = [settledAt EXCEPT ![e] = 0]
    /\ \/ LastSwap(e) = "ok" /\ RecordSuccess(inst[e])
       \/ LastSwap(e) = "reverted" /\ RecordFailure(inst[e])
       \/ now >= settledAt[e] + ConfirmTimeout /\ UNCHANGED healthVars
    /\ UNCHANGED <<now, pollVars, lockVars, pc, execVars, swaps, tradeVars,
                   overran, crashes>>

\* A pending swap is included in a block; one that never is stays pending.
Mine(e) ==
    /\ \E k \in DOMAIN swaps[e], r \in {"ok", "reverted"} :
          /\ swaps[e][k] = "pending"
          /\ swaps' = [swaps EXCEPT ![e][k] = r]
    /\ UNCHANGED <<now, healthVars, pollVars, lockVars, pc, execVars, confirm,
                   settledAt, tradeVars, overran, crashes>>

Tick ==
    /\ now < MaxTime
    /\ now' = now + 1
    /\ overran' = overran \cup
          {inst[e] : e \in {x \in Execs : /\ pc[x] \in Active
                                          /\ now + 1 >= startedAt[x] + LockTTL}}
    /\ UNCHANGED <<healthVars, pollVars, lockVars, pc, execVars, chainVars,
                   tradeVars, crashes>>

\* The process dies and comes back: only the keys in Redis and the chain last.
Crash ==
    /\ crashes < MaxCrashes
    /\ crashes' = crashes + 1
    /\ toEvaluate' = {} /\ decided' = {}
    /\ running' = {}
    /\ pc' = [e \in Execs |-> IF pc[e] \in Active THEN "dead" ELSE pc[e]]
    /\ confirm' = [e \in Execs |-> IF confirm[e] = "waiting" THEN "done"
                                                             ELSE confirm[e]]
    /\ fails' = [i \in Instruments |-> 0]
    /\ backoffUntil' = [i \in Instruments |-> 0]
    /\ failedAt' = [i \in Instruments |-> NoTime]
    /\ lastTrade' = [i \in Instruments |-> NoTime]
    /\ marks' = [i \in Instruments |-> << >>]
    /\ UNCHANGED <<now, snapAt, redisKey, redisErrors, execVars, swaps,
                   settledAt, overran>>

Next ==
    \/ Snapshot
    \/ \E i \in Instruments : Evaluate(i) \/ Dispatch(i)
    \/ \E e \in Execs : Execute(e) \/ Confirm(e) \/ Mine(e)
    \/ Tick
    \/ Crash

Spec == Init /\ [][Next]_vars

\* Every call an execution makes ends at the latest with its context, so the
\* goroutine always takes its next step; the clock never stops.
Fairness ==
    /\ WF_vars(Tick)
    /\ \A e \in Execs : WF_vars(Execute(e))

FairSpec == Spec /\ Fairness

-----------------------------------------------------------------------------
(* What the pipeline guarantees.                                           *)

\* An instrument is never worked on by two executions at once: the purpose of
\* tryAcquire and release (service.go, the comment on Service).
OneExecutionPerInstrument ==
    \A e1, e2 \in Execs :
        /\ pc[e1] \in Inside /\ pc[e2] \in Inside
        /\ inst[e1] = inst[e2]
        => e1 = e2

\* An entry of the running map has an execution that will delete it, so no
\* instrument is blocked for good; it holds with Redis and its local fallback
\* as well, where release deletes entries that are not its own.
NoOrphanedEntry ==
    \A i \in running : \E e \in Execs : pc[e] \in Active /\ inst[e] = i

\* The cooldown can be overrun by one execution only.  A decision may be taken
\* before the running execution is marked and dispatched after it is released;
\* but of any three executions marked on an instrument, the third comes at
\* least a cooldown after the first.
AtMostOneOverrun ==
    \A i \in Instruments : \A k \in 1..(Len(marks[i]) - 2) :
        marks[i][k + 2] - marks[i][k] >= Cooldown

\* An execution that is past the gate while its instrument backs off passed
\* the gate before the failure was recorded: failures reported by the
\* confirmations of earlier swaps stop every later decision.
BackoffHonoured ==
    \A e \in Execs :
        /\ pc[e] \in {"verdict", "send", "sleep"}
        /\ now < backoffUntil[inst[e]]
        => gateAt[e] <= failedAt[inst[e]]

\* With Redis, two executions of one instrument overlap only after some
\* execution of it has outlived the TTL of its key or a Redis call has failed: the
\* delete in release, which does not look at the owner, and the keys that a dead
\* process leaves behind do no harm before that.
OverlapOnlyAfterTTL ==
    \A e1, e2 \in Execs :
        /\ pc[e1] \in Inside /\ pc[e2] \in Inside
        /\ inst[e1] = inst[e2] /\ e1 # e2
        => inst[e1] \in overran \/ redisErrors > 0

\* An execution that holds an instrument releases it (the deferred release),
\* even if the receipt of its swap never comes.
EveryExecutionEnds ==
    \A e \in Execs : pc[e] \in Active ~> pc[e] \notin Active

\* The holder of every instrument, where no two executions share one.
Holder ==
    [i \in Instruments |->
        IF \E e \in Execs : pc[e] \in Active /\ inst[e] = i
        THEN CHOOSE e \in Execs : pc[e] \in Active /\ inst[e] = i
        ELSE None]

Lock == INSTANCE InstrumentLock WITH holder <- Holder

\* Without Redis the pipeline implements the abstract lock: whatever the poll
\* goroutine, the executions and the confirmations do, an instrument passes
\* from one holder to the next only through its release.
LockImplemented == Lock!Spec

=============================================================================
