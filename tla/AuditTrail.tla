----------------------------- MODULE AuditTrail -----------------------------
(***************************************************************************)
(* How executions are recorded (execution/async_audit.go, service.go,      *)
(* db/sqlite.go).  Each execution issues a decision and a result.  With     *)
(* Redis they go through a list that one consumer goroutine empties; when   *)
(* the push fails, the execution writes for itself.  The goroutine that     *)
(* awaits the receipt of a submitted swap updates the trade that is to be   *)
(* there by then.  A store call that stays busy through all its retries is  *)
(* given up; the caller logs that and goes on.                              *)
(***************************************************************************)
EXTENDS Integers, Sequences, FiniteSets, Functions

CONSTANTS
    Execs,     \* the executions (a bound)
    Consumer,  \* auditConsumerLoop
    Tokens,    \* the tokens of the operator's positions
    Base,      \* the base token of each execution's instrument
    Quote,     \* its quote token
    Redis,     \* TRUE when initRedis connected
    MaxErrors, \* bound on failed calls, to Redis and to the store
    MaxCrashes \* bound on restarts

ASSUME ExecsAssumption == Execs # {} /\ Consumer \notin Execs
ASSUME TokensAssumption ==
    /\ Base \in [Execs -> Tokens]
    /\ Quote \in [Execs -> Tokens]
ASSUME RedisAssumption == Redis \in BOOLEAN
ASSUME BoundsAssumption == MaxErrors \in Nat /\ MaxCrashes \in Nat

Writers == Execs \cup {Consumer}

\* auditEnvelope
Events == [type : {"decision", "result"}, exec : Execs]
Decision(e) == [type |-> "decision", exec |-> e]
Result(e) == [type |-> "result", exec |-> e]

VARIABLES
    pc,        \* where Service.execute is
    status,    \* the status of its result
    queue,     \* the Redis list, the next event first
    job,       \* the event each writer works on
    at,        \* the store call it makes next
    seen,      \* the position bumpPosition has read
    confirm,   \* where awaitConfirmation is
    receipt,   \* whether a receipt of the swap was found
    decisions, \* rows of decision_logs, by execution
    trades,    \* rows of trades: their status column
    accounts,  \* rows of account_trades, likewise
    logs,      \* rows of execution_logs written with the result
    finals,    \* rows of execution_logs written by the confirmation
    position,  \* account_positions: how many bumps the amount holds
    bumps,     \* history: bumps written
    pushErrors, popErrors, busyErrors, \* failed calls
    crashes    \* restarts

execVars == <<pc, status>>
jobVars == <<job, at, seen>>
confirmVars == <<confirm, receipt, finals>>
tableVars == <<decisions, trades, accounts, logs>>
positionVars == <<position, bumps>>
faultVars == <<pushErrors, popErrors, busyErrors, crashes>>
vars == <<execVars, queue, jobVars, confirmVars, tableVars, positionVars, faultVars>>

Steps == {"decision", "trade", "log", "readBase", "writeBase", "readQuote", "writeQuote"}

TypeOK ==
    /\ pc \in [Execs -> {"new", "swap", "record", "done", "dead"}]
    /\ status \in [Execs -> {"none", "skipped", "submitted", "failed"}]
    /\ queue \in Seq(Events)
    /\ job \in [Writers -> Events]
    /\ at \in [Writers -> Steps \cup {"idle"}]
    /\ seen \in [Writers -> Nat]
    /\ confirm \in [Execs -> {"none", "waiting", "update", "log", "done"}]
    /\ receipt \in [Execs -> BOOLEAN]
    /\ decisions \in [Execs -> Nat]
    /\ trades \in [Execs -> Seq({"skipped", "submitted", "failed", "final"})]
    /\ accounts \in [Execs -> Seq({"skipped", "submitted", "failed"})]
    /\ logs \in [Execs -> Nat]
    /\ finals \in [Execs -> Nat]
    /\ position \in [Tokens -> Nat]
    /\ bumps \in [Tokens -> Nat]
    /\ pushErrors \in Nat /\ popErrors \in Nat /\ busyErrors \in Nat
    /\ crashes \in Nat

\* Any event stands for the job of an idle writer.
NoJob == CHOOSE v \in Events : TRUE

Init ==
    /\ pc = [e \in Execs |-> "new"]
    /\ status = [e \in Execs |-> "none"]
    /\ queue = << >>
    /\ job = [w \in Writers |-> NoJob]
    /\ at = [w \in Writers |-> "idle"]
    /\ seen = [w \in Writers |-> 0]
    /\ confirm = [e \in Execs |-> "none"]
    /\ receipt = [e \in Execs |-> FALSE]
    /\ decisions = [e \in Execs |-> 0]
    /\ trades = [e \in Execs |-> << >>]
    /\ accounts = [e \in Execs |-> << >>]
    /\ logs = [e \in Execs |-> 0]
    /\ finals = [e \in Execs |-> 0]
    /\ position = [t \in Tokens |-> 0]
    /\ bumps = [t \in Tokens |-> 0]
    /\ pushErrors = 0 /\ popErrors = 0 /\ busyErrors = 0 /\ crashes = 0

Errors == pushErrors + popErrors + busyErrors

-----------------------------------------------------------------------------
(* enqueueDecision, enqueueResult and the queue.                           *)

\* The writer begins persistDecisionSync or persistSync.
Begin(w, v) ==
    /\ job' = [job EXCEPT ![w] = v]
    /\ at' = [at EXCEPT ![w] = IF v.type = "decision" THEN "decision" ELSE "trade"]
    /\ UNCHANGED seen

\* Faulty: Redis is not used, and every execution writes for itself.
EnqueueDirect(e, v) ==
    /\ Begin(e, v)
    /\ UNCHANGED <<queue, pushErrors>>

\* Faulty: the execution writes for itself although the list has the event.
EnqueueTwice(e, v) ==
    /\ Redis
    /\ Begin(e, v)
    /\ queue' = Append(queue, v)
    /\ UNCHANGED pushErrors

\* Without Redis the execution writes for itself; it does so, too, when LPush
\* fails, whether or not the server has taken the event.
Enqueue(e, v) ==
    \/ ~Redis /\ Begin(e, v) /\ UNCHANGED <<queue, pushErrors>>
    \/ Redis /\ queue' = Append(queue, v) /\ UNCHANGED <<jobVars, pushErrors>>
    \/ /\ Redis
       /\ Errors < MaxErrors
       /\ pushErrors' = pushErrors + 1
       /\ Begin(e, v)
       /\ queue' \in {queue, Append(queue, v)}

\* Faulty: BLPop, which takes the newest event.
PopNewest ==
    /\ Redis
    /\ at[Consumer] = "idle"
    /\ queue # << >>
    /\ Begin(Consumer, queue[Len(queue)])
    /\ queue' = SubSeq(queue, 1, Len(queue) - 1)
    /\ UNCHANGED <<execVars, confirmVars, tableVars, positionVars, faultVars>>

\* Faulty: the last event is left on the list.
PopAllButLast ==
    /\ Redis
    /\ at[Consumer] = "idle"
    /\ Len(queue) > 1
    /\ Begin(Consumer, Head(queue))
    /\ queue' = Tail(queue)
    /\ UNCHANGED <<execVars, confirmVars, tableVars, positionVars, faultVars>>

\* BRPop takes the oldest event off the list.
Pop ==
    /\ Redis
    /\ at[Consumer] = "idle"
    /\ queue # << >>
    /\ Begin(Consumer, Head(queue))
    /\ queue' = Tail(queue)
    /\ UNCHANGED <<execVars, confirmVars, tableVars, positionVars, faultVars>>

\* The server took it off and its answer never came.
PopLost ==
    /\ Redis
    /\ at[Consumer] = "idle"
    /\ queue # << >>
    /\ Errors < MaxErrors
    /\ popErrors' = popErrors + 1
    /\ queue' = Tail(queue)
    /\ UNCHANGED <<execVars, jobVars, confirmVars, tableVars, positionVars,
                   pushErrors, busyErrors, crashes>>

-----------------------------------------------------------------------------
(* persistDecisionSync, persistSync, updateAccountPositions, bumpPosition. *)

\* The next store call; read is what bumpPosition keeps until then.  A writer that
\* has none is done with its event.
Goto(w, from, to, read) ==
    /\ at[w] = from
    /\ at' = [at EXCEPT ![w] = to]
    /\ job' = [job EXCEPT ![w] = IF to = "idle" THEN NoJob ELSE @]
    /\ seen' = [seen EXCEPT ![w] = read]

\* Only a swap that was submitted moves the positions.
Books(w) == status[job[w].exec] = "submitted"

\* Faulty: the other side of the trade is not booked.
SucceededOneSided(w) ==
    CASE at[w] = "trade" -> "log"
      [] at[w] = "log" -> IF Books(w) THEN "readBase" ELSE "idle"
      [] at[w] = "readBase" -> "writeBase"
      [] OTHER -> "idle"

\* The call after the one at hand, when that succeeds and when it is given up.
Succeeded(w) ==
    CASE at[w] = "trade" -> "log"
      [] at[w] = "log" -> IF Books(w) THEN "readBase" ELSE "idle"
      [] at[w] = "readBase" -> "writeBase"
      [] at[w] = "writeBase" -> "readQuote"
      [] at[w] = "readQuote" -> "writeQuote"
      [] OTHER -> "idle"

GivenUp(w) ==
    CASE at[w] = "readBase" -> "readQuote"
      [] at[w] = "readQuote" -> "idle"
      [] OTHER -> Succeeded(w)

InsertDecisionLog(w) ==
    /\ Goto(w, "decision", Succeeded(w), 0)
    /\ decisions' = [decisions EXCEPT ![job[w].exec] = @ + 1]
    /\ UNCHANGED <<execVars, queue, confirmVars, trades, accounts,
                   logs, positionVars, faultVars>>

\* Faulty: the two tables are written by separate calls, the second of which may
\* be given up.
InsertTradeApart(w) ==
    LET e == job[w].exec IN
    /\ Goto(w, "trade", Succeeded(w), 0)
    /\ trades' = [trades EXCEPT ![e] = Append(@, status[e])]
    /\ \/ accounts' = [accounts EXCEPT ![e] = Append(@, status[e])]
       \/ UNCHANGED accounts
    /\ UNCHANGED <<execVars, queue, confirmVars, decisions, logs,
                   positionVars, faultVars>>

\* Both tables, in one transaction.
InsertTrade(w) ==
    LET e == job[w].exec IN
    /\ Goto(w, "trade", Succeeded(w), 0)
    /\ trades' = [trades EXCEPT ![e] = Append(@, status[e])]
    /\ accounts' = [accounts EXCEPT ![e] = Append(@, status[e])]
    /\ UNCHANGED <<execVars, queue, confirmVars, decisions, logs,
                   positionVars, faultVars>>

InsertExecutionLog(w) ==
    /\ Goto(w, "log", Succeeded(w), 0)
    /\ logs' = [logs EXCEPT ![job[w].exec] = @ + 1]
    /\ UNCHANGED <<execVars, queue, confirmVars, decisions, trades,
                   accounts, positionVars, faultVars>>

Token(w) == IF at[w] \in {"readBase", "writeBase"} THEN Base[job[w].exec]
                                                   ELSE Quote[job[w].exec]

\* GetPositionsByWallet
ReadPosition(w) ==
    /\ at[w] \in {"readBase", "readQuote"}
    /\ Goto(w, at[w], Succeeded(w), position[Token(w)])
    /\ UNCHANGED <<execVars, queue, confirmVars, tableVars, positionVars,
                   faultVars>>

\* Faulty: the bump is taken away.
WritePositionNegative(w) ==
    /\ at[w] \in {"writeBase", "writeQuote"}
    /\ Goto(w, at[w], Succeeded(w), 0)
    /\ position' = [position EXCEPT ![Token(w)] = seen[w] - 1]
    /\ bumps' = [bumps EXCEPT ![Token(w)] = @ + 1]
    /\ UNCHANGED <<execVars, queue, confirmVars, tableVars, faultVars>>

\* UpsertAccountPosition, with the amount computed from what was read.
WritePosition(w) ==
    /\ at[w] \in {"writeBase", "writeQuote"}
    /\ Goto(w, at[w], Succeeded(w), 0)
    /\ position' = [position EXCEPT ![Token(w)] = seen[w] + 1]
    /\ bumps' = [bumps EXCEPT ![Token(w)] = @ + 1]
    /\ UNCHANGED <<execVars, queue, confirmVars, tableVars, faultVars>>

\* The store stays busy through all retries of execWrite or withWriteTx, which
\* then has written nothing.
GiveUp(w) ==
    /\ Errors < MaxErrors
    /\ at[w] # "idle"
    /\ Goto(w, at[w], GivenUp(w), 0)
    /\ busyErrors' = busyErrors + 1
    /\ UNCHANGED <<execVars, queue, confirmVars, tableVars,
                   positionVars, pushErrors, popErrors, crashes>>

Persist(w) ==
    \/ InsertDecisionLog(w) \/ InsertTrade(w) \/ InsertExecutionLog(w)
    \/ ReadPosition(w) \/ WritePosition(w) \/ GiveUp(w)

-----------------------------------------------------------------------------
(* Service.execute                                                         *)

\* The guard's verdict is recorded; a refused decision has a result as well.
Decide(e) ==
    /\ pc[e] = "new"
    /\ Enqueue(e, Decision(e))
    /\ \/ pc' = [pc EXCEPT ![e] = "swap"] /\ UNCHANGED status
       \/ /\ pc' = [pc EXCEPT ![e] = "record"]
          /\ status' = [status EXCEPT ![e] = "skipped"]
    /\ UNCHANGED <<confirmVars, tableVars, positionVars, popErrors, busyErrors, crashes>>

\* executeTWAP returns; the confirmation is started before the result is recorded.
\* A venue without an executor leaves no result.
Outcome(e) ==
    /\ pc[e] = "swap" /\ at[e] = "idle"
    /\ \/ /\ pc' = [pc EXCEPT ![e] = "record"]
          /\ status' = [status EXCEPT ![e] = "submitted"]
          /\ confirm' = [confirm EXCEPT ![e] = "waiting"]
       \/ /\ pc' = [pc EXCEPT ![e] = "record"]
          /\ status' = [status EXCEPT ![e] = "failed"]
          /\ UNCHANGED confirm
       \/ /\ pc' = [pc EXCEPT ![e] = "done"]
          /\ UNCHANGED <<status, confirm>>
    /\ UNCHANGED <<queue, jobVars, receipt, finals, tableVars, positionVars, faultVars>>

Record(e) ==
    /\ pc[e] = "record" /\ at[e] = "idle"
    /\ Enqueue(e, Result(e))
    /\ pc' = [pc EXCEPT ![e] = "done"]
    /\ UNCHANGED <<status, confirmVars, tableVars, positionVars, popErrors,
                   busyErrors, crashes>>

Execute(e) == Decide(e) \/ Outcome(e) \/ Record(e)

-----------------------------------------------------------------------------
(* awaitConfirmation and restarts.                                         *)

\* A receipt, or none in time; whether the swap went through or was reverted makes
\* no difference here, both statuses are "final".
Receipt(e) ==
    /\ confirm[e] = "waiting"
    /\ \/ /\ confirm' = [confirm EXCEPT ![e] = "update"]
          /\ receipt' = [receipt EXCEPT ![e] = TRUE]
       \/ confirm' = [confirm EXCEPT ![e] = "done"] /\ UNCHANGED receipt
    /\ UNCHANGED <<execVars, queue, jobVars, finals, tableVars, positionVars, faultVars>>

\* UpdateTradeStatus: every row of trades with the hash of the swap, and none of
\* account_trades.
UpdateTradeStatus(e) ==
    /\ confirm[e] = "update"
    /\ confirm' = [confirm EXCEPT ![e] = "log"]
    /\ trades' = [trades EXCEPT ![e] = [k \in DOMAIN @ |-> "final"]]
    /\ UNCHANGED <<execVars, queue, jobVars, receipt, finals, decisions, accounts,
                   logs, positionVars, faultVars>>

LogFinal(e) ==
    /\ confirm[e] = "log"
    /\ confirm' = [confirm EXCEPT ![e] = "done"]
    /\ finals' = [finals EXCEPT ![e] = @ + 1]
    /\ UNCHANGED <<execVars, queue, jobVars, receipt, tableVars, positionVars, faultVars>>

\* The store is busy; the error is ignored.
ConfirmGivesUp(e) ==
    /\ Errors < MaxErrors
    /\ confirm[e] \in {"update", "log"}
    /\ confirm' = [confirm EXCEPT ![e] = IF @ = "update" THEN "log" ELSE "done"]
    /\ busyErrors' = busyErrors + 1
    /\ UNCHANGED <<execVars, queue, jobVars, receipt, finals, tableVars,
                   positionVars, pushErrors, popErrors, crashes>>

Confirm(e) == Receipt(e) \/ UpdateTradeStatus(e) \/ LogFinal(e) \/ ConfirmGivesUp(e)

\* The process ends at any point, for nobody waits for the goroutines, and comes
\* back: the list and the tables last.
Crash ==
    /\ crashes < MaxCrashes
    /\ crashes' = crashes + 1
    /\ pc' = [e \in Execs |-> IF pc[e] \in {"new", "done"} THEN pc[e] ELSE "dead"]
    /\ job' = [w \in Writers |-> NoJob]
    /\ at' = [w \in Writers |-> "idle"]
    /\ seen' = [w \in Writers |-> 0]
    /\ confirm' = [e \in Execs |-> IF confirm[e] = "none" THEN "none" ELSE "done"]
    /\ UNCHANGED <<status, queue, receipt, finals, tableVars, positionVars,
                   pushErrors, popErrors, busyErrors>>

Next ==
    \/ Pop \/ PopLost
    \/ \E w \in Writers : Persist(w)
    \/ \E e \in Execs : Execute(e) \/ Confirm(e)
    \/ Crash

Spec == Init /\ [][Next]_vars

\* A store call ends within its retries, and the consumer loop goes on after every
\* error.
Fairness ==
    /\ WF_vars(Pop)
    /\ \A w \in Writers : WF_vars(Persist(w))

FairSpec == Spec /\ Fairness

-----------------------------------------------------------------------------
(* What the audit trail guarantees.                                        *)

\* A trade is in both tables or in neither, and the tables disagree about its
\* status only as far as the confirmation got (InsertTrade's transaction,
\* UpdateTradeStatus).
TablesTogether ==
    \A e \in Execs :
        /\ Len(trades[e]) = Len(accounts[e])
        /\ \A k \in DOMAIN trades[e] :
              trades[e][k] # accounts[e][k] =>
                  /\ accounts[e][k] = "submitted"
                  /\ trades[e][k] = "final"
                  /\ receipt[e]
                  /\ confirm[e] \in {"log", "done"}

\* Who finds a result finds its decision: as long as no call failed and no
\* process died, the decision is written before the result (one list, one
\* consumer).
DecisionBeforeResult ==
    \A e \in Execs :
        trades[e] # << >> /\ Errors = 0 /\ crashes = 0 => decisions[e] = 1

\* While every event goes through the list, no bump of a position is lost,
\* although bumpPosition reads and writes in separate calls: there is one writer.
\* Busy stores, lost answers and restarts do not change that.
NoLostBump ==
    Redis /\ pushErrors = 0 => \A t \in Tokens : position[t] = bumps[t]

NoFaults == Errors = 0 /\ crashes = 0

Quiet == queue = << >> /\ \A w \in Writers : at[w] = "idle"

\* The recorded trades that moved a position.
Movers(t) ==
    Cardinality({e \in Execs : Base[e] = t /\ "submitted" \in Range(accounts[e])})
    + Cardinality({e \in Execs : Quote[e] = t /\ "submitted" \in Range(accounts[e])})

\* When everything issued is written and nothing has failed, the positions hold
\* each recorded trade once on either side (updateAccountPositions).
PositionsMatchTrades ==
    Redis /\ NoFaults /\ Quiet => \A t \in Tokens : position[t] = Movers(t)

\* Copies of an event under way: on the list, or with a writer that has not come
\* to its first row.
Copies(v) ==
    Cardinality({k \in DOMAIN queue : queue[k] = v})
    + Cardinality({w \in Writers : at[w] \in {"decision", "trade"} /\ job[w] = v})

Rows(v) == IF v.type = "decision" THEN decisions[v.exec] ELSE Len(trades[v.exec])

Issued == {v \in Events : IF v.type = "decision"
                          THEN pc[v.exec] # "new"
                          ELSE pc[v.exec] = "done" /\ status[v.exec] # "none"}

Log == INSTANCE AuditLog WITH issued <- Issued,
                              waiting <- [v \in Events |-> Copies(v)],
                              rows <- [v \in Events |-> Rows(v)],
                              faults <- Errors + crashes

\* Every issued event is written once; a failed push may repeat it and a lost
\* answer, a busy store or a restart may lose it, one event or one restart at a
\* time (enqueueEnvelope, auditConsumerLoop).
AuditLogImplemented == Log!Spec

\* Again and again everything issued is written or lost: nothing stays on the list
\* for good, and no writer is stuck with an event.
TrailDrained == []<>Quiet

=============================================================================
