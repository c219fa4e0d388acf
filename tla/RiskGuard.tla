----------------------------- MODULE RiskGuard -----------------------------
(***************************************************************************)
(* The gates of risk.Guard that look at more than one decision: the        *)
(* circuit breaker, which the poll goroutine trips (sync/engine.go,        *)
(* checkBreakers) and a timer goroutine clears, and the gas budget of the  *)
(* UTC day, from which every call of Guard.Allow takes its estimate.       *)
(*                                                                         *)
(* Allow runs in many execution goroutines at once and holds the guard's   *)
(* mutex only while it consumes the budget, so the steps of its calls      *)
(* interleave.  The back-off is in GuardHealth.                            *)
(***************************************************************************)
EXTENDS Integers

CONSTANTS
    Instruments,
    Calls,      \* the goroutines that may be inside Guard.Allow
    None,       \* no instrument
    OpenFor,    \* CircuitCooldownSec
    DayLength,  \* ticks in a UTC day
    Costs,      \* what estimatedGasUSD may return
    Budgets,    \* the values of daily_budget_usd; 0, from the environment, is no limit
    MaxSlices,  \* largest twap_slice_count
    MaxTime,    \* bound on the clock
    MaxSpent,   \* bound on the swaps sent in a day
    MaxCrashes  \* bound on restarts of the process

ASSUME NoneAssumption == None \notin Instruments
ASSUME TimesAssumption == OpenFor \in Nat \ {0} /\ DayLength \in Nat \ {0}
ASSUME MoneyAssumption == Costs \subseteq Nat /\ Budgets \subseteq Nat
ASSUME BoundsAssumption ==
    MaxSlices \in Nat /\ MaxTime \in Nat /\ MaxSpent \in Nat /\ MaxCrashes \in Nat

VARIABLES
    now,       \* the clock
    open,      \* the instruments whose circuitOpen is set
    openedAt,  \* circuitOpenedAt
    clears,    \* the timer goroutines of TripCircuit, asleep
    tripping,  \* the instrument checkBreakers has found closed and will trip
    dayKey,    \* Guard.dayKey, as a number
    dayGas,    \* Guard.dayGas
    budget,    \* daily_budget_usd now
    pc,        \* the gate each call is at
    inst,      \* the instrument of its decision
    checkedAt, \* when it read circuitOpen
    cost,      \* its estimate
    limit,     \* the budget it read
    topBudget, \* history: the largest budget there was
    accepted,  \* history: what consumeDailyBudget accepted today
    spent,     \* history: the estimates of the swaps sent today
    crashes    \* restarts so far

circuitVars == <<open, openedAt, clears, tripping>>
budgetVars == <<dayKey, dayGas, budget, topBudget>>
callVars == <<pc, inst, checkedAt, cost, limit>>
vars == <<now, circuitVars, budgetVars, callVars, accepted, spent, crashes>>

Today == now \div DayLength

\* Beyond the read of circuitOpen.
PastCircuit == {"gas", "budget", "edge", "allowed"}

TypeOK ==
    /\ now \in Nat
    /\ open \subseteq Instruments
    /\ openedAt \in [Instruments -> Nat]
    /\ clears \subseteq [inst : Instruments, at : Nat]
    /\ tripping \in Instruments \cup {None}
    /\ dayKey \in Int
    /\ dayGas \in Nat
    /\ budget \in Nat
    /\ pc \in [Calls -> PastCircuit \cup {"idle", "circuit"}]
    /\ inst \in [Calls -> Instruments \cup {None}]
    /\ checkedAt \in [Calls -> Nat]
    /\ cost \in [Calls -> Nat]
    /\ limit \in [Calls -> Nat]
    /\ topBudget \in Nat
    /\ accepted \in Nat
    /\ spent \in Nat
    /\ crashes \in Nat

Init ==
    /\ now = 0
    /\ open = {} /\ clears = {} /\ tripping = None
    /\ openedAt = [i \in Instruments |-> 0]
    /\ dayKey = -1 /\ dayGas = 0
    /\ budget \in Budgets /\ topBudget = budget
    /\ pc = [c \in Calls |-> "idle"]
    /\ inst = [c \in Calls |-> None]
    /\ checkedAt = [c \in Calls |-> 0]
    /\ cost = [c \in Calls |-> 0]
    /\ limit = [c \in Calls |-> 0]
    /\ accepted = 0 /\ spent = 0
    /\ crashes = 0

-----------------------------------------------------------------------------
(* The circuit breaker.                                                    *)

\* Faulty: trips a circuit that is open already.
CheckBreakerBlind(i) ==
    /\ tripping = None
    /\ tripping' = i
    /\ UNCHANGED <<now, open, openedAt, clears, budgetVars, callVars, accepted,
                   spent, crashes>>

\* checkBreakers saw a deviation beyond the threshold and found the circuit of i
\* closed.  The mutex is released before TripCircuit takes it again.
CheckBreaker(i) ==
    /\ tripping = None
    /\ i \notin open
    /\ tripping' = i
    /\ UNCHANGED <<now, open, openedAt, clears, budgetVars, callVars, accepted,
                   spent, crashes>>

\* The bound on the clock is also one on the circuits: none is opened that could
\* not be cleared in time.
TripCircuit ==
    /\ tripping # None
    /\ now + OpenFor <= MaxTime
    /\ open' = open \cup {tripping}
    /\ openedAt' = [openedAt EXCEPT ![tripping] = now]
    /\ clears' = clears \cup {[inst |-> tripping, at |-> now + OpenFor]}
    /\ tripping' = None
    /\ UNCHANGED <<now, budgetVars, callVars, accepted, spent, crashes>>

\* Faulty: the timer goroutine leaves the circuit as it is.
ClearForgotten(t) ==
    /\ t \in clears
    /\ now >= t.at
    /\ clears' = clears \ {t}
    /\ UNCHANGED <<now, open, openedAt, tripping, budgetVars, callVars, accepted,
                   spent, crashes>>

\* A timer goroutine wakes, on time or late, and clears whatever circuit it finds.
Clear(t) ==
    /\ t \in clears
    /\ now >= t.at
    /\ open' = open \ {t.inst}
    /\ clears' = clears \ {t}
    /\ UNCHANGED <<now, openedAt, tripping, budgetVars, callVars, accepted,
                   spent, crashes>>

-----------------------------------------------------------------------------
(* Guard.Allow.                                                            *)

Goto(c, from, to) ==
    /\ pc[c] = from
    /\ pc' = [pc EXCEPT ![c] = to]
    /\ UNCHANGED inst

\* Allow returns, or the execution it allowed has sent its swaps.
Leave(c) ==
    /\ pc' = [pc EXCEPT ![c] = "idle"]
    /\ inst' = [inst EXCEPT ![c] = None]
    /\ checkedAt' = [checkedAt EXCEPT ![c] = 0]
    /\ cost' = [cost EXCEPT ![c] = 0]
    /\ limit' = [limit EXCEPT ![c] = 0]

\* A decision for i passed the back-off.
Enter(c, i) ==
    /\ pc[c] = "idle"
    /\ pc' = [pc EXCEPT ![c] = "circuit"]
    /\ inst' = [inst EXCEPT ![c] = i]
    /\ UNCHANGED <<now, circuitVars, budgetVars, checkedAt, cost, limit,
                   accepted, spent, crashes>>

\* Faulty: the circuit is not looked at.
CheckCircuitSkipped(c) ==
    /\ Goto(c, "circuit", "gas")
    /\ checkedAt' = [checkedAt EXCEPT ![c] = now]
    /\ UNCHANGED <<now, circuitVars, budgetVars, cost, limit, accepted, spent,
                   crashes>>

\* The circuit is read once, without the mutex.
CheckCircuit(c) ==
    /\ \/ /\ inst[c] \notin open
          /\ Goto(c, "circuit", "gas")
          /\ checkedAt' = [checkedAt EXCEPT ![c] = now]
          /\ UNCHANGED <<cost, limit>>
       \/ pc[c] = "circuit" /\ inst[c] \in open /\ Leave(c)
    /\ UNCHANGED <<now, circuitVars, budgetVars, accepted, spent, crashes>>

\* The gas price is asked for over the network.  Too high a price refuses the
\* decision; no price, no ETH price or no cap allows it, past all other gates.
GasPrice(c) ==
    /\ pc[c] = "gas"
    /\ \/ Leave(c)
       \/ Goto(c, "gas", "allowed") /\ UNCHANGED <<checkedAt, cost, limit>>
       \/ /\ Goto(c, "gas", "budget")
          /\ \E g \in Costs : cost' = [cost EXCEPT ![c] = g]
          /\ limit' = [limit EXCEPT ![c] = budget]
          /\ UNCHANGED checkedAt
    /\ UNCHANGED <<now, circuitVars, budgetVars, accepted, spent, crashes>>

\* Faulty: every consumption starts the day anew.
GasTodayReset == 0

\* Faulty: what the last day left over is carried into the new one.
GasTodayCarried == IF dayKey = Today THEN dayGas ELSE dayGas - budget

\* What the guard has counted for today.
GasToday == IF dayKey = Today THEN dayGas ELSE 0

\* consumeDailyBudget, under the mutex, with the budget read before; a limit of 0
\* does not call it.
Consume(c) ==
    /\ pc[c] = "budget"
    /\ \/ /\ limit[c] = 0
          /\ Goto(c, "budget", "edge")
          /\ UNCHANGED <<dayKey, dayGas, accepted, checkedAt, cost, limit>>
       \/ /\ limit[c] # 0 /\ GasToday + cost[c] <= limit[c]
          /\ Goto(c, "budget", "edge")
          /\ dayKey' = Today
          /\ dayGas' = GasToday + cost[c]
          /\ accepted' = accepted + cost[c]
          /\ UNCHANGED <<checkedAt, cost, limit>>
       \/ /\ limit[c] # 0 /\ GasToday + cost[c] > limit[c]
          /\ Leave(c)
          /\ dayKey' = Today
          /\ dayGas' = GasToday
          /\ UNCHANGED accepted
    /\ UNCHANGED <<now, circuitVars, budget, topBudget, spent, crashes>>

\* The net edge; what a refused decision took from the budget is not given back.
Edge(c) ==
    /\ \/ Goto(c, "edge", "allowed") /\ UNCHANGED <<checkedAt, cost, limit>>
       \/ pc[c] = "edge" /\ Leave(c)
    /\ UNCHANGED <<now, circuitVars, budgetVars, accepted, spent, crashes>>

\* executeTWAP sends one swap per slice; each costs what was estimated for one.
Swap(c) ==
    /\ pc[c] = "allowed"
    /\ \E n \in 1..MaxSlices :
          /\ spent + n * cost[c] <= MaxSpent
          /\ spent' = spent + n * cost[c]
    /\ Leave(c)
    /\ UNCHANGED <<now, circuitVars, budgetVars, accepted, crashes>>

Allow(c) ==
    CheckCircuit(c) \/ GasPrice(c) \/ Consume(c) \/ Edge(c) \/ Swap(c)

-----------------------------------------------------------------------------
(* The operator, the clock and the process.                                *)

\* POST /api/params/runtime; a budget in the safe range is not 0.
SetBudget(b) ==
    /\ b # 0
    /\ budget' = b
    /\ topBudget' = IF b > topBudget THEN b ELSE topBudget
    /\ UNCHANGED <<now, circuitVars, dayKey, dayGas, callVars, accepted, spent,
                   crashes>>

Tick ==
    /\ now < MaxTime
    /\ now' = now + 1
    /\ IF Today' = Today THEN UNCHANGED <<accepted, spent>>
                         ELSE accepted' = 0 /\ spent' = 0
    /\ UNCHANGED <<circuitVars, budgetVars, callVars, crashes>>

\* A restart: the guard's state and the runtime parameters are in memory only.
Crash ==
    /\ crashes < MaxCrashes
    /\ crashes' = crashes + 1
    /\ open' = {} /\ clears' = {} /\ tripping' = None
    /\ openedAt' = [i \in Instruments |-> 0]
    /\ dayKey' = -1 /\ dayGas' = 0
    /\ budget' \in Budgets
    /\ topBudget' = IF budget' > topBudget THEN budget' ELSE topBudget
    /\ pc' = [c \in Calls |-> "idle"]
    /\ inst' = [c \in Calls |-> None]
    /\ checkedAt' = [c \in Calls |-> 0]
    /\ cost' = [c \in Calls |-> 0]
    /\ limit' = [c \in Calls |-> 0]
    /\ UNCHANGED <<now, accepted, spent>>

Next ==
    \/ \E i \in Instruments : CheckBreaker(i)
    \/ TripCircuit
    \/ \E t \in clears : Clear(t)
    \/ \E c \in Calls, i \in Instruments : Enter(c, i)
    \/ \E c \in Calls : Allow(c)
    \/ \E b \in Budgets : SetBudget(b)
    \/ Tick
    \/ Crash

Spec == Init /\ [][Next]_vars

\* The clock does not stop and a goroutine whose sleep is over runs.
Fairness ==
    /\ WF_vars(Tick)
    /\ \A i \in Instruments : WF_vars(\E t \in clears : t.inst = i /\ Clear(t))

FairSpec == Spec /\ Fairness

-----------------------------------------------------------------------------
(* What the guard guarantees.                                              *)

\* An open circuit has one timer goroutine that will clear it, and a closed one
\* none: a timer left over would clear the next trip too early, a lost one would
\* halt the instrument for good (TripCircuit, risk/guard.go).
OneClearPerCircuit ==
    /\ \A i \in open : \E t \in clears : t.inst = i
    /\ \A t \in clears : t.inst \in open /\ t.at = openedAt[t.inst] + OpenFor

\* A circuit stays open for the whole of its cooldown; only a restart of the
\* process ends it sooner (TripCircuit, openFor).
CircuitStaysOpen ==
    [][\A i \in open \ open' :
           now >= openedAt[i] + OpenFor \/ crashes' # crashes]_vars

\* A tripped circuit is cleared in the end (TripCircuit's goroutine).
CircuitCloses == \A i \in Instruments : i \in open ~> i \notin open

\* A decision that is past the circuit gate while its circuit is open had been
\* checked before the circuit opened: a call that starts later is refused.
OnlyEarlierChecksPass ==
    \A c \in Calls :
        pc[c] \in PastCircuit /\ inst[c] \in open
        => checkedAt[c] <= openedAt[inst[c]]

\* The estimates accepted in one UTC day stay within the largest budget there
\* was, once more for every restart, which forgets what the day has spent; whatever
\* calls interleave, the budget changes to and the day turns
\* (consumeDailyBudget, risk/guard.go).
AcceptedWithinBudget == accepted <= (crashes + 1) * topBudget

-----------------------------------------------------------------------------
(* What comments say and the code does not do.                             *)

\* What is spent on one day is within the budget ("DailyBudgetUSD caps total
\* estimated execution spend per UTC day", config/config.go).  The budget is
\* charged one swap for a decision, not one for every slice.
SpentWithinBudget == spent <= topBudget

=============================================================================
