-------------------------- MODULE RiskGuardProofs --------------------------
(***************************************************************************)
(* Proofs about RiskGuard, for any number of instruments and calls.        *)
(***************************************************************************)
EXTENDS RiskGuard, TLAPS

USE DEF vars, circuitVars, budgetVars, callVars

\* What every step of a call of Allow leaves alone.
LEMMA AllowStep ==
    ASSUME NEW c \in Calls, Allow(c)
    PROVE  UNCHANGED <<now, circuitVars, budget, topBudget, crashes>>
  BY DEF Allow, CheckCircuit, GasPrice, Consume, Edge, Swap

-----------------------------------------------------------------------------
(* Types.                                                                  *)

\* The number of the day, and what the guard has counted for it.
LEMMA DayFacts ==
    ASSUME TypeOK
    PROVE  Today \in Int /\ GasToday \in Nat
  BY TimesAssumption DEF TypeOK, Today, GasToday

\* A step of a call of Allow keeps the types.
LEMMA AllowType ==
    ASSUME TypeOK, NEW c \in Calls, Allow(c)
    PROVE  TypeOK'
  <1> USE MoneyAssumption DEF PastCircuit
  <1>1. CASE CheckCircuit(c)
    BY <1>1 DEF TypeOK, CheckCircuit, Goto, Leave
  <1>2. CASE GasPrice(c)
    BY <1>2 DEF TypeOK, GasPrice, Goto, Leave
  <1>3. CASE Consume(c)
    <2>1. GasToday + cost[c] \in Nat /\ accepted + cost[c] \in Nat
      BY DayFacts DEF TypeOK
    <2> QED
      BY <1>3, <2>1, DayFacts DEF TypeOK, Consume, Goto, Leave
  <1>4. CASE Edge(c)
    BY <1>4 DEF TypeOK, Edge, Goto, Leave
  <1>5. CASE Swap(c)
    <2>1. spent' \in Nat
      <3>1. PICK n \in 1..MaxSlices : spent' = spent + n * cost[c]
        BY <1>5 DEF Swap
      <3>2. n \in Nat /\ cost[c] \in Nat /\ spent \in Nat
        BY DEF TypeOK
      <3>3. n * cost[c] \in Nat
        BY <3>2
      <3> QED
        BY <3>1, <3>2, <3>3
    <2> QED
      BY <1>5, <2>1 DEF TypeOK, Swap, Leave
  <1> QED
    BY <1>1, <1>2, <1>3, <1>4, <1>5 DEF Allow

\* The variables of the guard keep their types: what it counts is never negative
\* (consumeDailyBudget), and every timer is one of an instrument (TripCircuit).
THEOREM TypeCorrect == Spec => []TypeOK
  <1> USE MoneyAssumption, TimesAssumption DEF PastCircuit
  <1>1. Init => TypeOK
    BY DEF Init, TypeOK
  <1>2. TypeOK /\ [Next]_vars => TypeOK'
    <2> SUFFICES ASSUME TypeOK, [Next]_vars PROVE TypeOK'
      OBVIOUS
    <2>1. ASSUME NEW i \in Instruments, CheckBreaker(i) PROVE TypeOK'
      BY <2>1 DEF TypeOK, CheckBreaker
    <2>2. CASE TripCircuit
      BY <2>2, NoneAssumption DEF TypeOK, TripCircuit
    <2>3. ASSUME NEW t \in clears, Clear(t) PROVE TypeOK'
      BY <2>3 DEF TypeOK, Clear
    <2>4. ASSUME NEW c \in Calls, NEW i \in Instruments, Enter(c, i) PROVE TypeOK'
      BY <2>4 DEF TypeOK, Enter
    <2>5. ASSUME NEW b \in Budgets, SetBudget(b) PROVE TypeOK'
      BY <2>5 DEF TypeOK, SetBudget
    <2>6. CASE Tick
      BY <2>6 DEF TypeOK, Tick
    <2>7. CASE Crash
      BY <2>7 DEF TypeOK, Crash
    <2>8. CASE UNCHANGED vars
      BY <2>8 DEF TypeOK
    <2> QED
      BY <2>1, <2>2, <2>3, <2>4, <2>5, <2>6, <2>7, <2>8, AllowType DEF Next
  <1> QED
    BY <1>1, <1>2, PTL DEF Spec

-----------------------------------------------------------------------------
(* The circuit breaker.                                                    *)

CircuitTypeOK ==
    /\ now \in Nat
    /\ open \subseteq Instruments
    /\ openedAt \in [Instruments -> Nat]
    /\ clears \subseteq [inst : Instruments, at : Nat]
    /\ tripping \in Instruments \cup {None}
    /\ crashes \in Nat

\* The poll goroutine alone trips, so what it found closed is closed still.
CircuitInv ==
    /\ CircuitTypeOK
    /\ OneClearPerCircuit
    /\ tripping \notin open

\* The circuit breaker's state changes by its own actions only.
LEMMA CircuitSteps ==
    ASSUME [Next]_vars
    PROVE  \/ UNCHANGED <<now, circuitVars, crashes>>
           \/ \E i \in Instruments : CheckBreaker(i)
           \/ TripCircuit
           \/ \E t \in clears : Clear(t)
           \/ Tick
           \/ Crash
  <1>1. ASSUME NEW c \in Calls, NEW i \in Instruments, Enter(c, i)
        PROVE  UNCHANGED <<now, circuitVars, crashes>>
    BY <1>1 DEF Enter
  <1>2. ASSUME NEW b \in Budgets, SetBudget(b)
        PROVE  UNCHANGED <<now, circuitVars, crashes>>
    BY <1>2 DEF SetBudget
  <1> QED
    BY <1>1, <1>2, AllowStep DEF Next

\* Every step keeps the timers and the circuits paired.
LEMMA CircuitInvStep ==
    ASSUME CircuitInv, [Next]_vars
    PROVE  CircuitInv'
  <1> USE NoneAssumption, TimesAssumption
          DEF CircuitInv, CircuitTypeOK, OneClearPerCircuit
  <1>1. CASE UNCHANGED <<now, circuitVars, crashes>>
    BY <1>1
  <1>2. ASSUME NEW i \in Instruments, CheckBreaker(i) PROVE CircuitInv'
    BY <1>2 DEF CheckBreaker
  <1>3. CASE TripCircuit
    <2> DEFINE t == [inst |-> tripping, at |-> now + OpenFor]
    <2>1. /\ tripping \in Instruments /\ tripping \notin open
          /\ open' = open \cup {tripping} /\ clears' = clears \cup {t}
          /\ openedAt' = [openedAt EXCEPT ![tripping] = now]
          /\ tripping' = None /\ now' = now /\ crashes' = crashes
      BY <1>3 DEF TripCircuit
    <2>2. t \in [inst : Instruments, at : Nat] /\ t.inst = tripping
          /\ t.at = openedAt'[tripping] + OpenFor
      BY <2>1
    <2> HIDE DEF t
    <2>3. CircuitTypeOK'
      BY <2>1, <2>2
    <2>4. \A u \in clears : u.inst # tripping /\ openedAt'[u.inst] = openedAt[u.inst]
      BY <2>1
    <2>5. \A u \in clears' : u.inst \in open' /\ u.at = openedAt'[u.inst] + OpenFor
      BY <2>1, <2>2, <2>4
    <2>6. \A i \in open' : \E u \in clears' : u.inst = i
      BY <2>1, <2>2
    <2> QED
      BY <2>1, <2>3, <2>5, <2>6
  <1>4. ASSUME NEW t \in clears, Clear(t) PROVE CircuitInv'
    <2>1. /\ open' = open \ {t.inst} /\ clears' = clears \ {t}
          /\ UNCHANGED <<now, openedAt, tripping, crashes>>
      BY <1>4 DEF Clear
    <2>2. ASSUME NEW u \in clears, u # t PROVE u.inst # t.inst
      BY <2>2
    <2> QED
      BY <2>1, <2>2
  <1>5. CASE Tick
    BY <1>5 DEF Tick
  <1>6. CASE Crash
    BY <1>6 DEF Crash
  <1> QED
    BY <1>1, <1>2, <1>3, <1>4, <1>5, <1>6, CircuitSteps

\* The paired timers and circuits are an invariant.
LEMMA CircuitInvariant == Spec => []CircuitInv
  <1>1. Init => CircuitInv
    BY NoneAssumption DEF Init, CircuitInv, CircuitTypeOK, OneClearPerCircuit
  <1>2. CircuitInv /\ [Next]_vars => CircuitInv'
    BY CircuitInvStep
  <1> QED
    BY <1>1, <1>2, PTL DEF Spec

\* An open circuit always has exactly one timer that will clear it.
THEOREM OneClear == Spec => []OneClearPerCircuit
  <1>1. CircuitInv => OneClearPerCircuit
    BY DEF CircuitInv
  <1> QED
    BY <1>1, CircuitInvariant, PTL

\* A circuit stays open for the whole of its cooldown.
THEOREM StaysOpen == Spec => CircuitStaysOpen
  <1>1. CircuitInv /\ [Next]_vars =>
            [\A i \in open \ open' :
                now >= openedAt[i] + OpenFor \/ crashes' # crashes]_vars
    <2> SUFFICES ASSUME CircuitInv, [Next]_vars, NEW i \in open \ open',
                        crashes' = crashes
                 PROVE  now >= openedAt[i] + OpenFor
      OBVIOUS
    <2>1. CASE UNCHANGED open
      BY <2>1
    <2>2. CASE TripCircuit
      BY <2>2 DEF TripCircuit
    <2>3. ASSUME NEW t \in clears, Clear(t) PROVE now >= openedAt[i] + OpenFor
      BY <2>3 DEF Clear, CircuitInv, OneClearPerCircuit
    <2>4. ~Crash
      BY DEF Crash, CircuitInv, CircuitTypeOK
    <2> QED
      BY <2>1, <2>2, <2>3, <2>4, CircuitSteps DEF CheckBreaker, Tick
  <1> QED
    BY <1>1, CircuitInvariant, PTL DEF Spec, CircuitStaysOpen

-----------------------------------------------------------------------------
(* The gates.                                                              *)

\* No call has read its circuit in the future.
ChecksInv ==
    /\ pc \in [Calls -> PastCircuit \cup {"idle", "circuit"}]
    /\ inst \in [Calls -> Instruments \cup {None}]
    /\ checkedAt \in [Calls -> Nat]
    /\ \A c \in Calls : checkedAt[c] <= now
    /\ \A c \in Calls : pc[c] # "idle" => inst[c] \in Instruments

\* Whoever is past the circuit gate was there before or finds the circuit closed.
GateKept ==
    \A c \in Calls : pc'[c] \in PastCircuit =>
        /\ inst'[c] = inst[c] /\ pc[c] # "idle"
        /\ \/ pc[c] \in PastCircuit /\ checkedAt'[c] = checkedAt[c]
           \/ inst[c] \notin open

\* A call of Allow goes past the circuit gate only where the circuit is closed.
LEMMA GateStep ==
    ASSUME ChecksInv, now \in Nat, NEW c \in Calls, Allow(c)
    PROVE  ChecksInv' /\ GateKept
  <1> USE DEF ChecksInv, GateKept, PastCircuit
  <1>0. now' = now
    BY AllowStep
  <1>1. CASE pc[c] # "idle" /\ Leave(c)
    BY <1>0, <1>1 DEF Leave
  <1>2. ASSUME NEW from \in PastCircuit, NEW to \in PastCircuit, Goto(c, from, to),
               checkedAt' = checkedAt
        PROVE  ChecksInv' /\ GateKept
    BY <1>0, <1>2 DEF Goto
  <1>3. CASE /\ inst[c] \notin open
             /\ Goto(c, "circuit", "gas")
             /\ checkedAt' = [checkedAt EXCEPT ![c] = now]
    BY <1>0, <1>3 DEF Goto
  <1>4. CASE CheckCircuit(c)
    BY <1>1, <1>3, <1>4 DEF CheckCircuit
  <1>5. CASE GasPrice(c)
    BY <1>1, <1>2, <1>5 DEF GasPrice
  <1>6. CASE Consume(c)
    BY <1>1, <1>2, <1>6 DEF Consume
  <1>7. CASE Edge(c)
    BY <1>1, <1>2, <1>7 DEF Edge
  <1>8. CASE Swap(c)
    BY <1>1, <1>8 DEF Swap
  <1> QED
    BY <1>4, <1>5, <1>6, <1>7, <1>8 DEF Allow

\* What every step does to the gates and the circuits.
LEMMA ChecksStep ==
    ASSUME ChecksInv, CircuitInv, [Next]_vars
    PROVE  /\ ChecksInv' /\ GateKept
           /\ \A i \in open' : \/ i \in open /\ openedAt'[i] = openedAt[i]
                               \/ openedAt'[i] = now'
  <1> USE DEF ChecksInv, CircuitInv, CircuitTypeOK
  <1>1. ASSUME NEW c \in Calls, NEW i \in Instruments, Enter(c, i)
        PROVE  /\ ChecksInv' /\ GateKept /\ UNCHANGED <<open, openedAt>>
    BY <1>1, NoneAssumption DEF Enter, GateKept, PastCircuit
  <1>2. ASSUME NEW c \in Calls, Allow(c)
        PROVE  /\ ChecksInv' /\ GateKept /\ UNCHANGED <<open, openedAt>>
    BY <1>2, GateStep, AllowStep
  <1>3. CASE \/ \E i \in Instruments : CheckBreaker(i)
             \/ \E b \in Budgets : SetBudget(b)
             \/ UNCHANGED vars
    BY <1>3 DEF CheckBreaker, SetBudget, GateKept, PastCircuit
  <1>4. CASE Tick
    BY <1>4 DEF Tick, GateKept, PastCircuit
  <1>5. CASE TripCircuit
    BY <1>5, NoneAssumption DEF TripCircuit, GateKept, PastCircuit
  <1>6. ASSUME NEW t \in clears, Clear(t)
        PROVE  /\ ChecksInv' /\ GateKept /\ open' \subseteq open
               /\ openedAt' = openedAt
    BY <1>6 DEF Clear, GateKept, PastCircuit
  <1>7. CASE Crash
    BY <1>7 DEF Crash, GateKept, PastCircuit
  <1> QED
    BY <1>1, <1>2, <1>3, <1>4, <1>5, <1>6, <1>7 DEF Next

\* A call that looks at an open circuit is refused; only one that looked before
\* the circuit opened goes on.
THEOREM EarlierChecks == Spec => []OnlyEarlierChecksPass
  <1>1. Init => ChecksInv /\ OnlyEarlierChecksPass
    BY DEF Init, ChecksInv, OnlyEarlierChecksPass, PastCircuit
  <1>2. CircuitInv /\ ChecksInv /\ OnlyEarlierChecksPass /\ [Next]_vars
            => ChecksInv' /\ OnlyEarlierChecksPass'
    <2> SUFFICES ASSUME CircuitInv, ChecksInv, OnlyEarlierChecksPass, [Next]_vars
                 PROVE  ChecksInv' /\ OnlyEarlierChecksPass'
      OBVIOUS
    <2>1. ChecksInv' /\ GateKept
      BY ChecksStep
    <2>2. ASSUME NEW c \in Calls, pc'[c] \in PastCircuit, inst'[c] \in open'
          PROVE  checkedAt'[c] <= openedAt'[inst'[c]]
      <3> DEFINE i == inst[c]
      <3>1. /\ inst'[c] = i /\ i \in Instruments
            /\ \/ pc[c] \in PastCircuit /\ checkedAt'[c] = checkedAt[c]
               \/ i \notin open
        BY <2>1, <2>2 DEF GateKept, ChecksInv
      <3>2. \/ i \in open /\ openedAt'[i] = openedAt[i]
            \/ openedAt'[i] = now'
        BY <2>2, <3>1, ChecksStep
      <3>3. checkedAt'[c] <= now'
        BY <2>1 DEF ChecksInv
      <3>4. CASE i \in open /\ openedAt'[i] = openedAt[i]
        BY <3>1, <3>4 DEF OnlyEarlierChecksPass
      <3> QED
        BY <3>1, <3>2, <3>3, <3>4
    <2> QED
      BY <2>1, <2>2 DEF OnlyEarlierChecksPass
  <1> QED
    BY <1>1, <1>2, CircuitInvariant, PTL DEF Spec

-----------------------------------------------------------------------------
(* The budget of the day.                                                  *)

\* What a restart may have made the guard forget.
Forgotten == crashes * topBudget

\* The guard has counted what was accepted today, but for what it forgot, unless
\* it has yet to notice that the day has turned; and no call holds a larger budget
\* than there was.
BudgetInv ==
    /\ now \in Nat /\ dayKey \in Int /\ dayGas \in Nat
    /\ budget \in Nat /\ topBudget \in Nat /\ accepted \in Nat
    /\ cost \in [Calls -> Nat] /\ limit \in [Calls -> Nat]
    /\ crashes \in Nat
    /\ budget <= topBudget
    /\ \A c \in Calls : limit[c] <= topBudget
    /\ dayKey <= Today
    /\ GasToday <= topBudget
    /\ accepted <= Forgotten + GasToday

\* The day of a later time is no earlier one.
LEMMA DayOrder ==
    ASSUME NEW t \in Nat
    PROVE  /\ t \div DayLength \in Nat
           /\ t \div DayLength <= (t + 1) \div DayLength
  BY TimesAssumption, Z3

\* A larger budget, or one more restart, and no less may have been forgotten.
LEMMA ForgottenGrows ==
    ASSUME NEW n \in Nat, NEW b \in Nat, NEW c \in Nat, b <= c
    PROVE  /\ n * b \in Nat
           /\ n * b <= n * c
           /\ (n + 1) * b = n * b + b
           /\ n * b + b <= (n + 1) * c
  <1>1. n * b \in Nat /\ n * c \in Nat /\ n * (c - b) \in Nat
    OBVIOUS
  <1>2. n * c = n * b + n * (c - b)
    OBVIOUS
  <1>3. (n + 1) * b = n * b + b /\ (n + 1) * c = n * c + c
    OBVIOUS
  <1> QED
    BY <1>1, <1>2, <1>3

\* Arithmetic: a bound on what is accepted carries over to a larger allowance.
LEMMA NothingMore ==
    ASSUME NEW a, NEW f \in Nat, NEW h, a <= f, h = 0
    PROVE  a <= f + h
  OBVIOUS

\* Arithmetic: the allowance grows with the budget and with restarts.
LEMMA NoLess ==
    ASSUME NEW a \in Nat, NEW f \in Nat, NEW g \in Nat, NEW h \in Nat,
           a <= f + h, f <= g
    PROVE  a <= g + h
  OBVIOUS

\* A call of Allow keeps the count.
LEMMA AllowBudget ==
    ASSUME BudgetInv, NEW c \in Calls, Allow(c)
    PROVE  BudgetInv'
  <1> USE DEF BudgetInv, GasToday, Today
  <1>0. UNCHANGED <<now, budget, topBudget, crashes>>
    BY AllowStep
  <1>a. Forgotten' = Forgotten /\ Forgotten \in Nat
    BY <1>0, ForgottenGrows DEF Forgotten
  <1>1. ASSUME UNCHANGED <<dayKey, dayGas, accepted>>,
               Leave(c) \/ UNCHANGED <<cost, limit>>
        PROVE  BudgetInv'
    BY <1>0, <1>a, <1>1 DEF Leave
  <1>2. CASE CheckCircuit(c) \/ Edge(c) \/ Swap(c)
    BY <1>1, <1>2 DEF CheckCircuit, Edge, Swap
  <1>3. CASE GasPrice(c)
    <2>1. ASSUME NEW g \in Costs, cost' = [cost EXCEPT ![c] = g],
                 limit' = [limit EXCEPT ![c] = budget],
                 UNCHANGED <<dayKey, dayGas, accepted>>
          PROVE  BudgetInv'
      BY <1>0, <1>a, <2>1, MoneyAssumption
    <2> QED
      BY <1>1, <1>3, <2>1 DEF GasPrice
  <1>4. CASE Consume(c)
    <2>1. Today \in Nat
      BY DayOrder
    <2>2. CASE limit[c] = 0
      BY <1>1, <1>4, <2>2 DEF Consume
    <2>3. CASE /\ GasToday + cost[c] <= limit[c]
               /\ dayKey' = Today
               /\ dayGas' = GasToday + cost[c]
               /\ accepted' = accepted + cost[c]
               /\ UNCHANGED <<cost, limit>>
      BY <1>0, <1>a, <2>1, <2>3
    <2>4. CASE /\ Leave(c)
               /\ dayKey' = Today
               /\ dayGas' = GasToday
               /\ UNCHANGED accepted
      BY <1>0, <1>a, <2>1, <2>4 DEF Leave
    <2> QED
      BY <1>4, <2>2, <2>3, <2>4 DEF Consume
  <1> QED
    BY <1>2, <1>3, <1>4 DEF Allow

\* The estimates accepted in a day stay within the largest budget there was, once
\* for each run of the process.
THEOREM BudgetKept == Spec => []AcceptedWithinBudget
  <1> USE DEF BudgetInv, GasToday, Today
  <1>1. Init => BudgetInv
    BY MoneyAssumption, TimesAssumption DEF Init, Forgotten
  <1>2. BudgetInv /\ [Next]_vars => BudgetInv'
    <2> SUFFICES ASSUME BudgetInv, [Next]_vars PROVE BudgetInv'
      OBVIOUS
    <2>0. Forgotten \in Nat
      BY ForgottenGrows DEF Forgotten
    <2>1. ASSUME NEW c \in Calls, Allow(c) PROVE BudgetInv'
      BY <2>1, AllowBudget
    <2>2. CASE \/ \E i \in Instruments : CheckBreaker(i)
               \/ TripCircuit
               \/ \E t \in clears : Clear(t)
               \/ \E c \in Calls, i \in Instruments : Enter(c, i)
               \/ UNCHANGED vars
      <3>1. UNCHANGED <<now, budgetVars, accepted, cost, limit, crashes>>
        BY <2>2 DEF CheckBreaker, TripCircuit, Clear, Enter
      <3>2. Forgotten' = Forgotten
        BY <3>1 DEF Forgotten
      <3> QED
        BY <2>0, <3>1, <3>2
    <2>3. ASSUME NEW b \in Budgets, SetBudget(b) PROVE BudgetInv'
      <3>1. topBudget' \in Nat /\ topBudget <= topBudget' /\ b <= topBudget'
        BY <2>3, MoneyAssumption DEF SetBudget
      <3>2. Forgotten <= Forgotten' /\ Forgotten' \in Nat
        BY <2>3, <3>1, ForgottenGrows DEF SetBudget, Forgotten
      <3>3. /\ UNCHANGED <<now, dayKey, dayGas, accepted, cost, limit, crashes>>
            /\ budget' \in Nat /\ budget' <= topBudget'
        BY <2>3, <3>1, MoneyAssumption DEF SetBudget
      <3>4. Today' = Today /\ GasToday' = GasToday /\ GasToday \in Nat
        BY <3>3
      <3>5. GasToday' <= topBudget' /\ accepted' <= Forgotten' + GasToday'
        <4>1. /\ GasToday <= topBudget /\ accepted <= Forgotten + GasToday
              /\ topBudget \in Nat /\ accepted \in Nat
          OBVIOUS
        <4> HIDE DEF GasToday, Today, BudgetInv
        <4>2. GasToday' <= topBudget'
          BY <3>1, <3>4, <4>1
        <4>3. accepted' <= Forgotten' + GasToday'
          BY <2>0, <3>2, <3>3, <3>4, <4>1, NoLess
        <4> QED
          BY <4>2, <4>3
      <3> QED
        BY <3>1, <3>3, <3>4, <3>5
    <2>4. CASE Tick
      <3>1. /\ now' = now + 1
            /\ UNCHANGED <<dayKey, dayGas, budget, topBudget, cost, limit, crashes>>
            /\ IF Today' = Today THEN accepted' = accepted ELSE accepted' = 0
        BY <2>4 DEF Tick
      <3>2. Today \in Nat /\ Today <= Today' /\ Today' \in Nat
        BY <3>1, DayOrder
      <3>3. Forgotten' = Forgotten
        BY <3>1 DEF Forgotten
      <3> QED
        BY <2>0, <3>1, <3>2, <3>3
    <2>5. CASE Crash
      <3>1. /\ topBudget' \in Nat /\ topBudget <= topBudget' /\ budget' <= topBudget'
            /\ budget' \in Nat
            /\ crashes' = crashes + 1
        BY <2>5, MoneyAssumption DEF Crash
      <3>2. Forgotten' \in Nat /\ Forgotten + topBudget <= Forgotten'
        <4>1. crashes * topBudget + topBudget <= (crashes + 1) * topBudget'
          BY <3>1, ForgottenGrows
        <4>2. (crashes + 1) * topBudget' \in Nat
          <5>1. crashes + 1 \in Nat /\ topBudget' \in Nat /\ topBudget' <= topBudget'
            BY <3>1
          <5> HIDE DEF BudgetInv
          <5> QED
            BY <5>1, ForgottenGrows
        <4> QED
          BY <3>1, <4>1, <4>2 DEF Forgotten
      <3>3. GasToday' = 0 /\ accepted' <= Forgotten'
        <4>1. accepted' = accepted /\ now' = now /\ dayKey' = -1 /\ dayGas' = 0
          BY <2>5 DEF Crash
        <4>2. accepted <= Forgotten + topBudget
          BY <2>0 DEF GasToday
        <4> QED
          BY <2>0, <3>2, <4>1, <4>2
      <3>4. Today \in Nat /\ Today' \in Nat
        BY <2>5, DayOrder DEF Crash
      <3>5. /\ now' \in Nat /\ dayKey' = -1 /\ dayGas' = 0
            /\ cost' \in [Calls -> Nat] /\ limit' \in [Calls -> Nat]
            /\ \A c \in Calls : limit'[c] = 0
            /\ accepted' \in Nat /\ crashes' \in Nat
        BY <2>5, <3>1 DEF Crash
      <3>6. dayKey' <= Today' /\ GasToday' <= topBudget' /\ accepted' <= Forgotten' + GasToday'
        <4> HIDE DEF GasToday, Today, BudgetInv
        <4>1. dayKey' <= Today'
          BY <3>4, <3>5
        <4>2. GasToday' <= topBudget'
          BY <3>1, <3>3
        <4>3. accepted' <= Forgotten' + GasToday'
          BY <3>2, <3>3, NothingMore
        <4> QED
          BY <4>1, <4>2, <4>3
      <3>7. budget' <= topBudget' /\ \A c \in Calls : limit'[c] <= topBudget'
        BY <3>1, <3>5
      <3>8. /\ dayKey' \in Int /\ dayGas' \in Nat
        BY <3>5
      <3> HIDE DEF GasToday, Today
      <3> QED
        BY <3>1, <3>5, <3>6, <3>7, <3>8
    <2> QED
      BY <2>1, <2>2, <2>3, <2>4, <2>5 DEF Next
  <1>3. BudgetInv => AcceptedWithinBudget
    BY ForgottenGrows DEF AcceptedWithinBudget, Forgotten
  <1> QED
    BY <1>1, <1>2, <1>3, PTL DEF Spec

=============================================================================
