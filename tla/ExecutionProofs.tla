-------------------------- MODULE ExecutionProofs --------------------------
(***************************************************************************)
(* Proofs about Execution, for any number of instruments and executions    *)
(* and any timing parameters.                                              *)
(***************************************************************************)
EXTENDS Execution, TLAPS

\* The back-off of any failure count is a number of ticks.
LEMMA BackoffType == ASSUME NEW n \in Nat PROVE Backoff(n) \in Nat
  <1>1. n \in 1..4 => <<1, 3, 9, 27>>[n] \in Nat
    OBVIOUS
  <1> QED
    BY <1>1, BackoffBaseAssumption DEF Backoff

\* Recording a failure keeps the types of the guard's state.
LEMMA FailureType ==
    ASSUME HealthTypeOK, now \in Nat, NEW i \in Instruments, RecordFailure(i)
    PROVE  HealthTypeOK'
  <1>1. fails[i] + 1 \in Nat
    BY DEF HealthTypeOK
  <1>2. Backoff(fails[i] + 1) \in Nat
    BY <1>1, BackoffType
  <1> QED
    BY <1>1, <1>2 DEF HealthTypeOK, RecordFailure

\* Recording a success keeps the types of the guard's state.
LEMMA SuccessType ==
    ASSUME HealthTypeOK, NEW i \in Instruments, RecordSuccess(i)
    PROVE  HealthTypeOK'
  BY DEF HealthTypeOK, RecordSuccess

USE DEF vars, healthVars, pollVars, lockVars, execVars, chainVars, tradeVars

PCs == Active \cup {"new", "done", "dead"}

\* Type correctness of the pipeline; a started execution has an instrument.
THEOREM TypeCorrect == Spec => [](TypeOK /\ Assigned)
  <1> USE NoneAssumption, TimesAssumption, BoundsAssumption DEF HealthTypeOK
  <1>1. Init => TypeOK /\ Assigned
    BY DEF Init, HealthInit, TypeOK, Assigned, Time, NoTime
  <1>2. TypeOK /\ Assigned /\ [Next]_vars => TypeOK' /\ Assigned'
    <2> SUFFICES ASSUME TypeOK, Assigned, [Next]_vars PROVE TypeOK' /\ Assigned'
      OBVIOUS
    <2>1. CASE Snapshot
      BY <2>1 DEF Snapshot, TypeOK, Assigned
    <2>2. ASSUME NEW i \in Instruments, Evaluate(i) PROVE TypeOK' /\ Assigned'
      BY <2>2 DEF Evaluate, TypeOK, Assigned
    <2>3. ASSUME NEW i \in Instruments, Dispatch(i) PROVE TypeOK' /\ Assigned'
      <3>1. /\ running' \subseteq Instruments
            /\ redisErrors' \in Nat
        BY <2>3 DEF Dispatch, AcquireRedis, AcquireLocal, Refused, RedisFails, TypeOK
      <3>2. redisKey' \in [Instruments -> Nat]
        <4>1. \/ UNCHANGED redisKey
              \/ redisKey' = [redisKey EXCEPT ![i] = now + LockTTL]
          BY <2>3 DEF Dispatch, AcquireRedis, Refused, RedisFails
        <4>2. redisKey \in [Instruments -> Nat] /\ now + LockTTL \in Nat
          BY DEF TypeOK
        <4> QED
          BY <4>1, <4>2
      <3>3. /\ \/ \E e \in Execs : Start(e, i)
               \/ UNCHANGED <<pc, execVars>>
            /\ UNCHANGED <<now, healthVars, snapAt, toEvaluate, chainVars, tradeVars,
                           overran, crashes>>
            /\ decided' \subseteq decided
        BY <2>3 DEF Dispatch, AcquireRedis, AcquireLocal, Refused
      <3>4. CASE UNCHANGED <<pc, execVars>>
        BY <3>1, <3>2, <3>3, <3>4 DEF TypeOK, Assigned
      <3>5. ASSUME NEW e \in Execs, Start(e, i) PROVE TypeOK' /\ Assigned'
        <4>1. pc' \in [Execs -> PCs] /\ inst' \in [Execs -> Instruments \cup {None}]
          BY <3>5 DEF Start, TypeOK, PCs, Active, Inside
        <4>2. startedAt' \in [Execs -> Nat] /\ UNCHANGED <<gateAt, slices, result>>
          BY <3>5 DEF Start, TypeOK
        <4>3. Assigned'
          BY <3>3, <3>5 DEF Start, TypeOK, Assigned
        <4> QED
          BY <3>1, <3>2, <3>3, <4>1, <4>2, <4>3 DEF TypeOK, PCs
      <3> QED
        BY <3>3, <3>4, <3>5
    <2>4. ASSUME NEW e \in Execs, Gate(e) PROVE TypeOK' /\ Assigned'
      <3>1. pc' \in [Execs -> PCs]
        <4>1. \/ pc' = [pc EXCEPT ![e] = "verdict"]
              \/ pc' = [pc EXCEPT ![e] = "unlock"]
          BY <2>4 DEF Gate, Goto
        <4> QED
          BY <4>1 DEF TypeOK, PCs, Active, Inside
      <3>2. gateAt' \in [Execs -> Nat]
        BY <2>4 DEF Gate, Healthy, TypeOK
      <3>3. Assigned'
        BY <2>4 DEF Gate, Goto, Healthy, TypeOK, Assigned
      <3> QED
        BY <2>4, <3>1, <3>2, <3>3 DEF Gate, TypeOK, PCs
    <2>5. ASSUME NEW e \in Execs, Verdict(e) PROVE TypeOK' /\ Assigned'
      <3>1. pc' \in [Execs -> PCs]
        BY <2>5 DEF Verdict, Goto, TypeOK, PCs, Active, Inside
      <3>2. slices' \in [Execs -> Nat]
        <4>1. CASE UNCHANGED slices
          BY <4>1 DEF TypeOK
        <4>2. ASSUME NEW n \in 1..MaxSlices, slices' = [slices EXCEPT ![e] = n]
              PROVE  slices' \in [Execs -> Nat]
          BY <4>2 DEF TypeOK
        <4> QED
          BY <2>5, <4>1, <4>2 DEF Verdict
      <3>3. Assigned'
        BY <2>5 DEF Verdict, Goto, TypeOK, Assigned
      <3> QED
        BY <2>5, <3>1, <3>2, <3>3 DEF Verdict, TypeOK, PCs
    <2>6. ASSUME NEW e \in Execs, SendSlice(e) PROVE TypeOK' /\ Assigned'
      <3>1. pc' \in [Execs -> PCs]
        BY <2>6 DEF SendSlice, Goto, TypeOK, PCs, Active, Inside
      <3>2. swaps' \in [Execs -> Seq(SwapStatus)]
        BY <2>6 DEF SendSlice, TypeOK, SwapStatus
      <3>3. Assigned'
        BY <2>6 DEF SendSlice, Goto, TypeOK, Assigned
      <3> QED
        BY <2>6, <3>1, <3>2, <3>3 DEF SendSlice, TypeOK, PCs
    <2>7. ASSUME NEW e \in Execs, SliceFails(e) PROVE TypeOK' /\ Assigned'
      <3>1. /\ pc' \in [Execs -> PCs]
            /\ result' \in [Execs -> {"submitted", "failed"}]
        BY <2>7 DEF SliceFails, Goto, TypeOK, PCs, Active, Inside
      <3>2. swaps' \in [Execs -> Seq(SwapStatus)]
        <4>1. CASE UNCHANGED swaps
          BY <4>1 DEF TypeOK
        <4>2. CASE swaps' = [swaps EXCEPT ![e] = Append(@, "pending")]
          BY <4>2 DEF TypeOK, SwapStatus
        <4> QED
          BY <2>7, <4>1, <4>2 DEF SliceFails
      <3>3. Assigned'
        BY <2>7 DEF SliceFails, Goto, TypeOK, Assigned
      <3> QED
        BY <2>7, <3>1, <3>2, <3>3 DEF SliceFails, TypeOK, PCs
    <2>8. ASSUME NEW e \in Execs, Pause(e) PROVE TypeOK' /\ Assigned'
      <3>1. /\ pc' \in [Execs -> PCs]
            /\ result' \in [Execs -> {"submitted", "failed"}]
        BY <2>8 DEF Pause, Goto, TypeOK, PCs, Active, Inside
      <3>2. Assigned'
        BY <2>8 DEF Pause, Goto, TypeOK, Assigned
      <3> QED
        BY <2>8, <3>1, <3>2 DEF Pause, TypeOK, PCs
    <2>9. ASSUME NEW e \in Execs, Settle(e) PROVE TypeOK' /\ Assigned'
      <3>1. inst[e] \in Instruments /\ pc' \in [Execs -> PCs]
        BY <2>9 DEF Settle, Goto, TypeOK, Assigned, PCs, Active, Inside
      <3>2. HealthTypeOK'
        BY <2>9, <3>1, FailureType DEF Settle, TypeOK
      <3>3. /\ lastTrade' \in [Instruments -> Time]
            /\ marks' \in [Instruments -> Seq(Nat)]
            /\ confirm' \in [Execs -> {"none", "waiting", "done"}]
            /\ settledAt' \in [Execs -> Nat]
        <4>1. CASE result[e] = "failed"
          BY <2>9, <4>1 DEF Settle, TypeOK
        <4>2. CASE result[e] # "failed"
          <5>1. marks' = [marks EXCEPT ![inst[e]] = Append(@, now)]
            BY <2>9, <4>2 DEF Settle
          <5>2. Append(marks[inst[e]], now) \in Seq(Nat)
            BY <3>1 DEF TypeOK
          <5>3. marks' \in [Instruments -> Seq(Nat)]
            BY <5>1, <5>2 DEF TypeOK
          <5>4. lastTrade' \in [Instruments -> Time]
            BY <2>9, <4>2 DEF Settle, TypeOK, Time
          <5>5. confirm' \in [Execs -> {"none", "waiting", "done"}]
            BY <2>9, <4>2 DEF Settle, TypeOK
          <5>6. settledAt' \in [Execs -> Nat]
            BY <2>9, <4>2 DEF Settle, TypeOK
          <5> QED
            BY <5>3, <5>4, <5>5, <5>6
        <4> QED
          BY <4>1, <4>2
      <3>5. Assigned'
        BY <2>9 DEF Settle, Goto, TypeOK, Assigned
      <3> QED
        BY <2>9, <3>1, <3>2, <3>3, <3>5 DEF Settle, TypeOK, PCs
    <2>10. ASSUME NEW e \in Execs, Unlock(e) PROVE TypeOK' /\ Assigned'
      <3>1. pc' \in [Execs -> PCs]
        BY <2>10 DEF Unlock, Goto, TypeOK, PCs, Active, Inside
      <3>2. redisKey' \in [Instruments -> Nat]
        BY <2>10 DEF Unlock, TypeOK
      <3>3. redisErrors' \in Nat
        BY <2>10 DEF Unlock, TypeOK
      <3>4. Assigned'
        BY <2>10 DEF Unlock, Goto, TypeOK, Assigned
      <3> QED
        BY <2>10, <3>1, <3>2, <3>3, <3>4 DEF Unlock, TypeOK, PCs
    <2>11. ASSUME NEW e \in Execs, Delete(e) PROVE TypeOK' /\ Assigned'
      <3>1. pc' \in [Execs -> PCs]
        BY <2>11 DEF Delete, Goto, TypeOK, PCs, Active, Inside
      <3>2. /\ startedAt' \in [Execs -> Nat]
            /\ gateAt' \in [Execs -> Nat]
            /\ slices' \in [Execs -> Nat]
            /\ result' \in [Execs -> {"submitted", "failed"}]
        BY <2>11 DEF Delete, TypeOK
      <3>3. Assigned'
        BY <2>11 DEF Delete, Goto, TypeOK, Assigned
      <3> QED
        BY <2>11, <3>1, <3>2, <3>3 DEF Delete, TypeOK, PCs
    <2>12. ASSUME NEW e \in Execs, Confirm(e) PROVE TypeOK' /\ Assigned'
      <3>1. inst[e] \in Instruments
        BY <2>12 DEF Confirm, Assigned
      <3>2. HealthTypeOK'
        BY <2>12, <3>1, FailureType, SuccessType DEF Confirm, TypeOK
      <3>3. /\ confirm' \in [Execs -> {"none", "waiting", "done"}]
            /\ settledAt' \in [Execs -> Nat]
        BY <2>12 DEF Confirm, TypeOK
      <3>4. Assigned'
        BY <2>12 DEF Confirm, TypeOK, Assigned
      <3> QED
        BY <2>12, <3>2, <3>3, <3>4 DEF Confirm, TypeOK
    <2>13. ASSUME NEW e \in Execs, Mine(e) PROVE TypeOK' /\ Assigned'
      <3>1. PICK k \in DOMAIN swaps[e], r \in {"ok", "reverted"} :
                swaps' = [swaps EXCEPT ![e][k] = r]
        BY <2>13 DEF Mine
      <3>2. [swaps[e] EXCEPT ![k] = r] \in Seq(SwapStatus)
        BY DEF SwapStatus, TypeOK
      <3>3. swaps' \in [Execs -> Seq(SwapStatus)]
        BY <3>1, <3>2 DEF TypeOK
      <3> QED
        BY <2>13, <3>3 DEF Mine, TypeOK, Assigned
    <2>14. CASE Tick
      <3>1. overran' \subseteq Instruments
        <4>1. \A e \in Execs : pc[e] \in Active => inst[e] \in Instruments
          BY DEF Assigned, Active, Inside
        <4> QED
          BY <2>14, <4>1 DEF Tick, TypeOK
      <3>2. now' \in Nat
        BY <2>14 DEF Tick, TypeOK
      <3> QED
        BY <2>14, <3>1, <3>2 DEF Tick, TypeOK, Assigned
    <2>15. CASE Crash
      <3>1. /\ pc' \in [Execs -> PCs]
            /\ confirm' \in [Execs -> {"none", "waiting", "done"}]
        BY <2>15 DEF Crash, TypeOK, PCs
      <3>2. HealthTypeOK' /\ crashes' \in Nat
        BY <2>15 DEF Crash, TypeOK, NoTime
      <3>3. /\ lastTrade' \in [Instruments -> Time]
            /\ marks' \in [Instruments -> Seq(Nat)]
        BY <2>15 DEF Crash, Time
      <3>4. Assigned'
        BY <2>15 DEF Crash, TypeOK, Assigned, Active, Inside
      <3> QED
        BY <2>15, <3>1, <3>2, <3>3, <3>4 DEF Crash, TypeOK, PCs
    <2>16. CASE UNCHANGED vars
      BY <2>16 DEF TypeOK, Assigned
    <2> QED
      BY <2>1, <2>2, <2>3, <2>4, <2>5, <2>6, <2>7, <2>8, <2>9, <2>10, <2>11,
         <2>12, <2>13, <2>14, <2>15, <2>16 DEF Next, Execute
  <1> QED
    BY <1>1, <1>2, PTL DEF Spec

-----------------------------------------------------------------------------
(* Who holds an instrument.                                                *)

\* Nothing about the holders changes.
HoldersKept ==
    /\ UNCHANGED <<running, inst>>
    /\ \A e \in Execs : pc'[e] \in Active <=> pc[e] \in Active
    /\ \A e \in Execs : pc'[e] \in Inside => pc[e] \in Inside

\* An execution starts; without Redis only where the running map is free.
HolderAdded(e, i) ==
    /\ Start(e, i)
    /\ \/ i \notin running /\ running' = running \cup {i}
       \/ Redis /\ UNCHANGED running

\* Between its start and its end an execution only moves forward.
LEMMA ActiveStep ==
    ASSUME TypeOK, NEW e \in Execs, Execute(e), ~Delete(e)
    PROVE  HoldersKept
  <1>1. ASSUME NEW from \in Active, NEW to \in Active, Goto(e, from, to),
               UNCHANGED <<running, inst>>, to \in Inside => from \in Inside
        PROVE  HoldersKept
    BY <1>1 DEF Goto, TypeOK, HoldersKept
  <1> USE DEF Active, Inside
  <1>2. CASE Gate(e)
    BY <1>1, <1>2 DEF Gate
  <1>3. CASE Verdict(e)
    BY <1>1, <1>3 DEF Verdict
  <1>4. CASE SendSlice(e)
    BY <1>1, <1>4 DEF SendSlice
  <1>5. CASE SliceFails(e)
    BY <1>1, <1>5 DEF SliceFails
  <1>6. CASE Pause(e)
    BY <1>1, <1>6 DEF Pause
  <1>7. CASE Settle(e)
    BY <1>1, <1>7 DEF Settle
  <1>8. CASE Unlock(e)
    BY <1>1, <1>8 DEF Unlock
  <1> QED
    BY <1>2, <1>3, <1>4, <1>5, <1>6, <1>7, <1>8 DEF Execute

\* What a step can do to the holders.
LEMMA StepKinds ==
    ASSUME TypeOK, [Next]_vars
    PROVE  \/ HoldersKept
           \/ \E e \in Execs, i \in Instruments : HolderAdded(e, i)
           \/ \E e \in Execs : Delete(e)
           \/ Crash
  <1>1. CASE Snapshot \/ Tick \/ UNCHANGED vars
    BY <1>1 DEF Snapshot, Tick, HoldersKept
  <1>2. ASSUME NEW i \in Instruments, Evaluate(i) PROVE HoldersKept
    BY <1>2 DEF Evaluate, HoldersKept
  <1>3. ASSUME NEW i \in Instruments, Dispatch(i)
        PROVE  HoldersKept \/ \E e \in Execs : HolderAdded(e, i)
    <2>1. CASE Refused(i)
      BY <2>1 DEF Refused, HoldersKept
    <2>2. ASSUME NEW e \in Execs, AcquireRedis(e, i) PROVE HolderAdded(e, i)
      BY <2>2 DEF AcquireRedis, HolderAdded
    <2>3. ASSUME NEW e \in Execs, AcquireLocal(e, i) PROVE HolderAdded(e, i)
      BY <2>3 DEF AcquireLocal, HolderAdded
    <2> QED
      BY <1>3, <2>1, <2>2, <2>3 DEF Dispatch
  <1>4. ASSUME NEW e \in Execs, Confirm(e) \/ Mine(e) PROVE HoldersKept
    BY <1>4 DEF Confirm, Mine, HoldersKept
  <1>5. ASSUME NEW e \in Execs, Execute(e) PROVE HoldersKept \/ Delete(e)
    BY <1>5, ActiveStep
  <1> QED
    BY <1>1, <1>2, <1>3, <1>4, <1>5 DEF Next

\* Whatever Redis does, an entry of the running map has an execution that will
\* delete it: the crash of a goroutine aside, no instrument is blocked for good.
THEOREM NoOrphans == Spec => []NoOrphanedEntry
  <1>1. Init => NoOrphanedEntry
    BY DEF Init, NoOrphanedEntry
  <1>2. TypeOK /\ NoOrphanedEntry /\ [Next]_vars => NoOrphanedEntry'
    <2> SUFFICES ASSUME TypeOK, NoOrphanedEntry, [Next]_vars
                 PROVE  NoOrphanedEntry'
      OBVIOUS
    <2>1. CASE HoldersKept
      BY <2>1 DEF HoldersKept, NoOrphanedEntry
    <2>2. ASSUME NEW e \in Execs, NEW i \in Instruments, HolderAdded(e, i)
          PROVE  NoOrphanedEntry'
      <3>1. running' \subseteq running \cup {i}
        BY <2>2 DEF HolderAdded
      <3>2. pc'[e] \in Active /\ inst'[e] = i
        BY <2>2 DEF HolderAdded, Start, TypeOK, Active, Inside
      <3>3. \A x \in Execs : pc[x] \in Active =>
                pc'[x] \in Active /\ inst'[x] = inst[x]
        BY <2>2 DEF HolderAdded, Start, TypeOK, Active, Inside
      <3> QED
        BY <3>1, <3>2, <3>3 DEF NoOrphanedEntry
    <2>3. ASSUME NEW e \in Execs, Delete(e) PROVE NoOrphanedEntry'
      BY <2>3 DEF Delete, Goto, NoOrphanedEntry, TypeOK
    <2>4. CASE Crash
      BY <2>4 DEF Crash, NoOrphanedEntry
    <2> QED
      BY <2>1, <2>2, <2>3, <2>4, StepKinds
  <1> QED
    BY <1>1, <1>2, TypeCorrect, PTL DEF Spec

\* The strengthening of mutual exclusion: a holder is in the running map.
LockInv ==
    /\ \A e \in Execs : pc[e] \in Active => inst[e] \in running
    /\ \A e1, e2 \in Execs :
          pc[e1] \in Active /\ pc[e2] \in Active /\ inst[e1] = inst[e2] => e1 = e2

\* Every step keeps the strengthened mutual exclusion.
LEMMA LockInvStep ==
    ASSUME ~Redis, TypeOK, LockInv, [Next]_vars
    PROVE  LockInv'
  <1>1. CASE HoldersKept
    BY <1>1 DEF HoldersKept, LockInv
  <1>2. ASSUME NEW e \in Execs, NEW i \in Instruments, HolderAdded(e, i)
        PROVE  LockInv'
    <2>1. i \notin running /\ running' = running \cup {i}
      BY <1>2 DEF HolderAdded
    <2>2. inst'[e] = i
      BY <1>2 DEF HolderAdded, Start, TypeOK
    <2>3. \A x \in Execs \ {e} : pc'[x] = pc[x] /\ inst'[x] = inst[x]
      BY <1>2 DEF HolderAdded, Start, TypeOK
    <2> QED
      BY <2>1, <2>2, <2>3 DEF LockInv
  <1>3. ASSUME NEW e \in Execs, Delete(e) PROVE LockInv'
    BY <1>3 DEF Delete, Goto, LockInv, TypeOK, Active, Inside
  <1>4. CASE Crash
    BY <1>4 DEF Crash, LockInv, Active, Inside
  <1> QED
    BY <1>1, <1>2, <1>3, <1>4, StepKinds

\* The strengthened mutual exclusion holds in every reachable state.
LEMMA LockInvariant == ASSUME ~Redis PROVE Spec => [](TypeOK /\ Assigned /\ LockInv)
  <1>1. Init => LockInv
    BY DEF Init, LockInv, Active, Inside
  <1>2. TypeOK /\ LockInv /\ [Next]_vars => LockInv'
    BY LockInvStep
  <1> QED
    BY <1>1, <1>2, TypeCorrect, PTL DEF Spec

\* With the local running map an instrument is never worked on by two
\* executions at once.
THEOREM MutualExclusion == ASSUME ~Redis PROVE Spec => []OneExecutionPerInstrument
  <1>1. LockInv => OneExecutionPerInstrument
    BY DEF LockInv, OneExecutionPerInstrument, Active
  <1> QED
    BY <1>1, LockInvariant, PTL

-----------------------------------------------------------------------------
(* The abstract lock.                                                      *)

\* The mapped holder is the execution that holds the instrument, if any.
LEMMA HolderOf ==
    ASSUME LockInv
    PROVE  /\ \A e \in Execs : pc[e] \in Active /\ inst[e] \in Instruments
                                => Holder[inst[e]] = e
           /\ \A i \in Instruments :
                (\A e \in Execs : pc[e] \in Active => inst[e] # i) => Holder[i] = None
           /\ \A i \in Instruments : Holder[i] # None =>
                Holder[i] \in Execs /\ pc[Holder[i]] \in Active /\ inst[Holder[i]] = i
  BY DEF LockInv, Holder

\* Every step of the pipeline is a step of the abstract lock or leaves it alone.
LEMMA LockSimulation ==
    ASSUME ~Redis, TypeOK, Assigned, LockInv, [Next]_vars
    PROVE  [Lock!Next]_Holder
  <1>0. LockInv'
    BY LockInvStep
  <1>1. CASE HoldersKept
    <2>1. \A i \in Instruments : Holder'[i] = Holder[i]
      BY <1>1 DEF HoldersKept, Holder
    <2> QED
      BY <1>1 DEF HoldersKept, Holder
  <1>2. ASSUME NEW e \in Execs, NEW i \in Instruments, HolderAdded(e, i)
        PROVE  Lock!Acquire(e, i)
    <2>1. pc[e] \notin Active /\ pc'[e] \in Active /\ inst'[e] = i /\ i \notin running
      BY <1>2 DEF HolderAdded, Start, TypeOK, Active, Inside
    <2>2. \A x \in Execs \ {e} : pc'[x] = pc[x] /\ inst'[x] = inst[x]
      BY <1>2 DEF HolderAdded, Start, TypeOK
    <2>3. \A x \in Execs : pc[x] \in Active => inst[x] # i
      BY <2>1 DEF LockInv
    <2>4. Holder[i] = None
      BY <2>3, HolderOf
    <2>5. \A j \in Instruments : Holder[j] # e
      BY <2>1, HolderOf, NoneAssumption
    <2>6. Holder' = [Holder EXCEPT ![i] = e]
      <3>1. Holder'[i] = e
        BY <1>0, <2>1 DEF LockInv, Holder
      <3>2. \A j \in Instruments \ {i} : Holder'[j] = Holder[j]
        <4> SUFFICES ASSUME NEW j \in Instruments \ {i} PROVE Holder'[j] = Holder[j]
          OBVIOUS
        <4>1. \A x \in Execs : (pc'[x] \in Active /\ inst'[x] = j)
                             <=> (pc[x] \in Active /\ inst[x] = j)
          BY <2>1, <2>2
        <4> QED
          BY <4>1 DEF Holder
      <3>3. /\ Holder = [j \in Instruments |-> Holder[j]]
            /\ Holder' = [j \in Instruments |-> Holder'[j]]
        BY DEF Holder
      <3> QED
        BY <3>1, <3>2, <3>3
    <2> QED
      BY <2>4, <2>5, <2>6 DEF Lock!Acquire
  <1>3. ASSUME NEW e \in Execs, Delete(e) PROVE Lock!Release(e, inst[e])
    <2>1. pc[e] \in Active /\ pc'[e] \notin Active /\ inst' = inst
      BY <1>3 DEF Delete, Goto, TypeOK, Active, Inside
    <2>2. \A x \in Execs \ {e} : pc'[x] = pc[x]
      BY <1>3 DEF Delete, Goto, TypeOK
    <2>3. inst[e] \in Instruments
      BY <2>1 DEF Assigned, Active, Inside
    <2>4. Holder[inst[e]] = e
      BY <2>1, <2>3, HolderOf
    <2>5. Holder' = [Holder EXCEPT ![inst[e]] = None]
      <3>1. Holder'[inst[e]] = None
        BY <2>1, <2>2, <2>3 DEF LockInv, Holder
      <3>2. \A j \in Instruments \ {inst[e]} : Holder'[j] = Holder[j]
        <4> SUFFICES ASSUME NEW j \in Instruments \ {inst[e]}
                     PROVE  Holder'[j] = Holder[j]
          OBVIOUS
        <4>1. \A x \in Execs : (pc'[x] \in Active /\ inst'[x] = j)
                             <=> (pc[x] \in Active /\ inst[x] = j)
          BY <2>1, <2>2
        <4> QED
          BY <4>1 DEF Holder
      <3>3. /\ Holder = [j \in Instruments |-> Holder[j]]
            /\ Holder' = [j \in Instruments |-> Holder'[j]]
        BY DEF Holder
      <3> QED
        BY <3>1, <3>2, <3>3
    <2> QED
      BY <2>4, <2>5 DEF Lock!Release
  <1>4. CASE Crash
    <2>1. \A e \in Execs : pc'[e] \notin Active
      BY <1>4 DEF Crash, Active, Inside
    <2>2. Holder' = [i \in Instruments |-> None]
      BY <2>1 DEF Holder
    <2> QED
      BY <2>2 DEF Lock!Next, Lock!Restart
  <1>5. \A e \in Execs : Delete(e) => inst[e] \in Instruments
    BY DEF Delete, Goto, Assigned
  <1> QED
    BY <1>1, <1>2, <1>3, <1>4, <1>5, StepKinds DEF Lock!Next

\* Without Redis the pipeline implements the abstract lock.
THEOREM LockRefinement == ASSUME ~Redis PROVE Spec => LockImplemented
  <1>1. Init => Lock!Init
    BY DEF Init, Lock!Init, Holder, Active, Inside
  <1>2. TypeOK /\ Assigned /\ LockInv /\ [Next]_vars => [Lock!Next]_Holder
    BY LockSimulation
  <1> QED
    BY <1>1, <1>2, LockInvariant, PTL DEF Spec, LockImplemented, Lock!Spec

-----------------------------------------------------------------------------
(* The cooldown.                                                           *)

\* i was last marked, at the latest, a cooldown before t.
LastMarkCold(i, t) ==
    marks[i] # << >> => t - marks[i][Len(marks[i])] >= Cooldown

\* The mark before the last one is a cooldown before t.
SecondMarkCold(i, t) ==
    Len(marks[i]) >= 2 => t - marks[i][Len(marks[i]) - 1] >= Cooldown

MarksOrdered ==
    \A i \in Instruments :
        /\ \A k \in 1..Len(marks[i]) : marks[i][k] <= now
        /\ \A k \in 1..(Len(marks[i]) - 1) : marks[i][k] <= marks[i][k + 1]
        /\ marks[i] # << >> => lastTrade[i] = marks[i][Len(marks[i])]

\* What a decision that waits for its dispatch may rely on: the last mark it saw
\* is cold.  A running execution may since have added one mark, never two.
DecisionsCold ==
    \A i \in decided :
        /\ SecondMarkCold(i, snapAt)
        /\ \A e \in Execs : pc[e] \in Inside /\ inst[e] = i => LastMarkCold(i, snapAt)

ExecutionsCold ==
    \A e \in Execs : pc[e] \in Inside => SecondMarkCold(inst[e], now)

SpacingInv ==
    /\ snapAt <= now
    /\ MarksOrdered
    /\ DecisionsCold
    /\ ExecutionsCold
    /\ AtMostOneOverrun

USE DEF SpacingInv

\* Steps that leave the marks, the decisions and the snapshot alone.
LEMMA SpacingKept ==
    ASSUME TypeOK, Assigned, SpacingInv, now' \in Nat, now' >= now,
           HoldersKept, UNCHANGED <<marks, lastTrade, decided, snapAt>>
    PROVE  SpacingInv'
  <1>0. \A i \in Instruments :
            marks[i] \in Seq(Nat) /\ \A k \in 1..Len(marks[i]) : marks[i][k] \in Nat
    BY DEF TypeOK
  <1>1. MarksOrdered' /\ AtMostOneOverrun' /\ snapAt' <= now'
    BY <1>0 DEF MarksOrdered, AtMostOneOverrun, TypeOK
  <1>2. DecisionsCold'
    BY DEF DecisionsCold, LastMarkCold, SecondMarkCold, HoldersKept
  <1>3. ExecutionsCold'
    <2> SUFFICES ASSUME NEW e \in Execs, pc'[e] \in Inside
                 PROVE  SecondMarkCold(inst[e], now')
      BY DEF ExecutionsCold, HoldersKept, SecondMarkCold
    <2>1. pc[e] \in Inside
      BY DEF HoldersKept
    <2>2. inst[e] \in Instruments
      BY <2>1 DEF Assigned, Inside
    <2>3. SecondMarkCold(inst[e], now)
      BY <2>1 DEF ExecutionsCold
    <2>4. now \in Nat
      BY DEF TypeOK
    <2> SUFFICES ASSUME Len(marks[inst[e]]) >= 2
                 PROVE  now' - marks[inst[e]][Len(marks[inst[e]]) - 1] >= Cooldown
      BY DEF SecondMarkCold
    <2>5. now - marks[inst[e]][Len(marks[inst[e]]) - 1] >= Cooldown
      BY <2>3 DEF SecondMarkCold
    <2>6. marks[inst[e]][Len(marks[inst[e]]) - 1] \in Nat
      BY <1>0, <2>2
    <2> QED
      BY <2>4, <2>5, <2>6, TimesAssumption
  <1> QED
    BY <1>1, <1>2, <1>3

\* A decision is taken only if the last mark is cold by the snapshot's time.
LEMMA SpacingEvaluate ==
    ASSUME TypeOK, SpacingInv, NEW i \in Instruments, Evaluate(i)
    PROVE  SpacingInv'
  <1>0. marks[i] \in Seq(Nat) /\ \A k \in 1..Len(marks[i]) : marks[i][k] \in Nat
    BY DEF TypeOK
  <1>1. CooledDown(i) => LastMarkCold(i, snapAt) /\ SecondMarkCold(i, snapAt)
    <2> SUFFICES ASSUME CooledDown(i), marks[i] # << >>
                 PROVE  LastMarkCold(i, snapAt) /\ SecondMarkCold(i, snapAt)
      BY <1>0 DEF LastMarkCold, SecondMarkCold
    <2> DEFINE n == Len(marks[i])
    <2>1. n \in Nat \ {0} /\ marks[i][n] \in Nat /\ lastTrade[i] = marks[i][n]
      BY <1>0 DEF MarksOrdered
    <2>2. snapAt - marks[i][n] >= Cooldown
      BY <2>1 DEF CooledDown, NoTime
    <2>3. n >= 2 => marks[i][n - 1] <= marks[i][n] /\ marks[i][n - 1] \in Nat
      <3>1. n >= 2 => n - 1 \in 1..(n - 1) /\ n - 1 \in 1..n /\ (n - 1) + 1 = n
        BY <2>1
      <3> HIDE DEF n
      <3> QED
        BY <1>0, <3>1 DEF MarksOrdered, n
    <2> QED
      BY <2>1, <2>2, <2>3, TimesAssumption DEF LastMarkCold, SecondMarkCold, TypeOK
  <1>2. decided' = decided \/ (CooledDown(i) /\ decided' = decided \cup {i})
    BY Zenon DEF Evaluate
  <1>3. UNCHANGED <<now, snapAt, marks, lastTrade, pc, inst>>
    BY DEF Evaluate
  <1>4. DecisionsCold'
    BY <1>1, <1>2, <1>3 DEF DecisionsCold, LastMarkCold, SecondMarkCold
  <1>5. MarksOrdered' /\ ExecutionsCold' /\ AtMostOneOverrun' /\ snapAt' <= now'
    BY <1>3 DEF MarksOrdered, ExecutionsCold, SecondMarkCold, AtMostOneOverrun
  <1> QED
    BY <1>4, <1>5

\* An execution starts from a decision, and the clock is not behind its snapshot.
LEMMA SpacingDispatch ==
    ASSUME TypeOK, SpacingInv, NEW i \in Instruments, Dispatch(i)
    PROVE  SpacingInv'
  <1>1. /\ UNCHANGED <<now, snapAt, marks, lastTrade>>
        /\ decided' = decided \ {i} /\ i \in decided
        /\ UNCHANGED <<pc, inst>> \/ \E e \in Execs : Start(e, i)
    BY DEF Dispatch, AcquireRedis, AcquireLocal, Refused
  <1>2. MarksOrdered' /\ AtMostOneOverrun' /\ snapAt' <= now'
    BY <1>1 DEF MarksOrdered, AtMostOneOverrun
  <1>3. \A x \in Execs : pc'[x] \in Inside =>
            \/ pc[x] \in Inside /\ inst'[x] = inst[x]
            \/ inst'[x] = i
    BY <1>1 DEF Start, TypeOK
  <1>4. SecondMarkCold(i, now)
    <2>1. SecondMarkCold(i, snapAt) /\ snapAt <= now
      BY <1>1 DEF DecisionsCold
    <2>2. Len(marks[i]) >= 2 => marks[i][Len(marks[i]) - 1] \in Nat
      BY DEF TypeOK
    <2> QED
      BY <2>1, <2>2, TimesAssumption DEF SecondMarkCold, TypeOK
  <1>5. DecisionsCold'
    BY <1>1, <1>3 DEF DecisionsCold, LastMarkCold, SecondMarkCold
  <1>6. ExecutionsCold'
    <2>1. \A j \in Instruments \cup {None} :
              SecondMarkCold(j, now) => SecondMarkCold(j, now)'
      BY <1>1 DEF SecondMarkCold
    <2> QED
      BY <1>1, <1>3, <1>4 DEF ExecutionsCold, SecondMarkCold
  <1> QED
    BY <1>2, <1>5, <1>6

\* Marking an execution: the mark it adds is a cooldown after the last but one.
LEMMA SpacingSettle ==
    ASSUME TypeOK, Assigned, LockInv, SpacingInv,
           NEW e \in Execs, NEW i \in Instruments, inst[e] = i, Settle(e)
    PROVE  SpacingInv'
  <1> DEFINE n == Len(marks[i])
  <1>1. /\ pc[e] \in Inside /\ i \in Instruments
        /\ UNCHANGED <<now, snapAt, decided, inst>>
        /\ pc' = [pc EXCEPT ![e] = "unlock"]
    BY DEF Settle, Goto, Inside
  <1>2. \A x \in Execs : pc'[x] \in Inside => pc[x] \in Inside /\ x # e
    BY <1>1 DEF TypeOK, Inside
  <1>3. CASE UNCHANGED <<marks, lastTrade>>
    <2>1. HoldersKept
      BY ActiveStep DEF Execute, Settle, Delete, Goto
    <2> QED
      BY <1>1, <1>3, <2>1, SpacingKept DEF TypeOK
  <1>4. CASE /\ lastTrade' = [lastTrade EXCEPT ![i] = now]
             /\ marks' = [marks EXCEPT ![i] = Append(@, now)]
    <2>1. /\ marks[i] \in Seq(Nat) /\ n \in Nat /\ now \in Nat
          /\ \A k \in 1..n : marks[i][k] \in Nat
      BY <1>1 DEF TypeOK
    <2>2. /\ marks'[i] \in Seq(Nat) /\ Len(marks'[i]) = n + 1
          /\ marks'[i][n + 1] = now
          /\ \A k \in 1..n : marks'[i][k] = marks[i][k]
      BY <1>1, <1>4, <2>1 DEF TypeOK
    <2>3. \A j \in Instruments \ {i} :
              marks'[j] = marks[j] /\ lastTrade'[j] = lastTrade[j]
      BY <1>4 DEF TypeOK
    <2>4. lastTrade'[i] = now
      BY <1>1, <1>4 DEF TypeOK
    <2> HIDE DEF n
    <2>5. MarksOrdered'
      <3>1. ASSUME NEW k \in 1..n PROVE marks[i][k] <= now
        BY <1>1, <3>1 DEF MarksOrdered, n
      <3>2. ASSUME NEW k \in 1..(n - 1) PROVE marks[i][k] <= marks[i][k + 1]
        BY <1>1, <3>2 DEF MarksOrdered, n
      <3>3. \A k \in 1..(n + 1) : marks'[i][k] <= now
        <4> SUFFICES ASSUME NEW k \in 1..(n + 1) PROVE marks'[i][k] <= now
          OBVIOUS
        <4>1. CASE k = n + 1
          BY <2>1, <2>2, <4>1
        <4>2. CASE k # n + 1
          <5>1. k \in 1..n
            BY <2>1, <4>2
          <5> QED
            BY <2>2, <3>1, <5>1
        <4> QED
          BY <4>1, <4>2
      <3>4. \A k \in 1..n : marks'[i][k] <= marks'[i][k + 1]
        <4> SUFFICES ASSUME NEW k \in 1..n PROVE marks'[i][k] <= marks'[i][k + 1]
          OBVIOUS
        <4>1. CASE k = n
          BY <2>1, <2>2, <3>1, <4>1
        <4>2. CASE k # n
          <5>1. k \in 1..(n - 1) /\ k + 1 \in 1..n
            BY <2>1, <4>2
          <5> QED
            BY <2>2, <3>2, <5>1
        <4> QED
          BY <4>1, <4>2
      <3>5. (n + 1) - 1 = n
        BY <2>1
      <3>6. ASSUME NEW j \in Instruments \ {i}
            PROVE  /\ \A k \in 1..Len(marks'[j]) : marks'[j][k] <= now
                   /\ \A k \in 1..(Len(marks'[j]) - 1) : marks'[j][k] <= marks'[j][k + 1]
                   /\ marks'[j] # << >> => lastTrade'[j] = marks'[j][Len(marks'[j])]
        BY <2>3 DEF MarksOrdered
      <3>7. \A k \in 1..Len(marks'[i]) : marks'[i][k] <= now
        BY <2>2, <3>3
      <3>8. \A k \in 1..(Len(marks'[i]) - 1) : marks'[i][k] <= marks'[i][k + 1]
        BY <2>2, <3>4, <3>5
      <3>9. lastTrade'[i] = marks'[i][Len(marks'[i])]
        BY <2>2, <2>4
      <3> QED
        BY <1>1, <3>6, <3>7, <3>8, <3>9 DEF MarksOrdered
    <2>6. AtMostOneOverrun'
      <3>1. n >= 2 => now - marks[i][n - 1] >= Cooldown
        BY <1>1 DEF ExecutionsCold, SecondMarkCold, n
      <3>2. ASSUME NEW k \in 1..(n - 2) PROVE marks[i][k + 2] - marks[i][k] >= Cooldown
        BY <1>1, <3>2 DEF AtMostOneOverrun, n
      <3>3. \A k \in 1..(n - 1) : marks'[i][k + 2] - marks'[i][k] >= Cooldown
        <4> SUFFICES ASSUME NEW k \in 1..(n - 1)
                     PROVE  marks'[i][k + 2] - marks'[i][k] >= Cooldown
          OBVIOUS
        <4>1. CASE k = n - 1
          <5>1. n >= 2 /\ k + 2 = n + 1 /\ k \in 1..n
            BY <2>1, <4>1
          <5> QED
            BY <2>2, <3>1, <4>1, <5>1
        <4>2. CASE k # n - 1
          <5>1. k \in 1..(n - 2) /\ k \in 1..n /\ k + 2 \in 1..n
            BY <2>1, <4>2
          <5> QED
            BY <2>2, <3>2, <5>1
        <4> QED
          BY <4>1, <4>2
      <3>4. (n + 1) - 2 = n - 1
        BY <2>1
      <3>5. \A k \in 1..(Len(marks'[i]) - 2) : marks'[i][k + 2] - marks'[i][k] >= Cooldown
        BY <2>2, <3>3, <3>4
      <3>6. \A j \in Instruments \ {i} : \A k \in 1..(Len(marks'[j]) - 2) :
                marks'[j][k + 2] - marks'[j][k] >= Cooldown
        BY <2>3 DEF AtMostOneOverrun
      <3> QED
        BY <3>5, <3>6 DEF AtMostOneOverrun
    <2>7. \A x \in Execs : pc'[x] \in Inside =>
              pc[x] \in Inside /\ inst[x] \in Instruments \ {i}
      BY <1>1, <1>2 DEF LockInv, Active, Assigned, Inside
    <2>8. \A j \in Instruments \ {i} :
              /\ SecondMarkCold(j, now) => SecondMarkCold(j, now)'
              /\ SecondMarkCold(j, snapAt) => SecondMarkCold(j, snapAt)'
              /\ LastMarkCold(j, snapAt) => LastMarkCold(j, snapAt)'
      BY <1>1, <2>3 DEF SecondMarkCold, LastMarkCold
    <2>9. ExecutionsCold'
      <3> SUFFICES ASSUME NEW x \in Execs, pc'[x] \in Inside
                   PROVE  SecondMarkCold(inst[x], now)'
        BY DEF ExecutionsCold
      <3>1. SecondMarkCold(inst[x], now) /\ inst[x] \in Instruments \ {i}
        BY <2>7 DEF ExecutionsCold
      <3> QED
        BY <1>1, <2>3, <3>1 DEF SecondMarkCold
    <2>10. DecisionsCold'
      <3>1. i \in decided => SecondMarkCold(i, snapAt)'
        <4> SUFFICES ASSUME i \in decided, n >= 1
                     PROVE  snapAt - marks[i][n] >= Cooldown
          <5>1. (n + 1) - 1 = n /\ (n + 1 >= 2 => n \in 1..n /\ n >= 1)
            BY <2>1
          <5>2. (n + 1 >= 2 => snapAt - marks[i][n] >= Cooldown)
                    => SecondMarkCold(i, snapAt)'
            BY <1>1, <2>1, <2>2, <5>1 DEF SecondMarkCold
          <5> QED
            BY <2>1, <5>2
        <4>1. LastMarkCold(i, snapAt)
          BY <1>1 DEF DecisionsCold
        <4> QED
          BY <2>1, <4>1 DEF LastMarkCold, n
      <3> SUFFICES ASSUME NEW j \in decided
                   PROVE  /\ SecondMarkCold(j, snapAt)'
                          /\ \A x \in Execs : pc'[x] \in Inside /\ inst'[x] = j
                                => LastMarkCold(j, snapAt)'
        BY <1>1 DEF DecisionsCold
      <3>2. CASE j = i
        <4>1. SecondMarkCold(j, snapAt)'
          BY <3>1, <3>2
        <4>2. \A x \in Execs : pc'[x] \in Inside => inst'[x] # j
          BY <1>1, <2>7, <3>2
        <4> QED
          BY <4>1, <4>2
      <3>3. CASE j # i
        <4>1. j \in Instruments \ {i}
          BY <3>3 DEF TypeOK
        <4>2. \A x \in Execs : pc'[x] \in Inside /\ inst'[x] = j => LastMarkCold(j, snapAt)
          BY <1>1, <1>2 DEF DecisionsCold
        <4>3. SecondMarkCold(j, snapAt)
          BY DEF DecisionsCold
        <4> QED
          BY <2>8, <4>1, <4>2, <4>3
      <3> QED
        BY <3>2, <3>3
    <2> QED
      BY <1>1, <2>5, <2>6, <2>9, <2>10
  <1> QED
    BY <1>3, <1>4 DEF Settle

\* Every step keeps the marks, the decisions and the executions spaced.
LEMMA SpacingInvStep ==
    ASSUME TypeOK, Assigned, LockInv, SpacingInv, [Next]_vars, now' \in Nat
    PROVE  SpacingInv'
  <1>1. CASE Snapshot
    <2>1. now \in Nat /\ snapAt' = now
      BY <1>1 DEF Snapshot, TypeOK
    <2>2. MarksOrdered' /\ ExecutionsCold' /\ AtMostOneOverrun' /\ DecisionsCold'
      BY <1>1 DEF Snapshot, MarksOrdered, ExecutionsCold, SecondMarkCold,
                  AtMostOneOverrun, DecisionsCold
    <2> QED
      BY <1>1, <2>1, <2>2 DEF Snapshot
  <1>2. ASSUME NEW i \in Instruments, Evaluate(i) \/ Dispatch(i) PROVE SpacingInv'
    BY <1>2, SpacingEvaluate, SpacingDispatch
  <1>3. ASSUME NEW e \in Execs, Confirm(e) \/ Mine(e) PROVE SpacingInv'
    <2>1. HoldersKept /\ UNCHANGED <<now, marks, lastTrade, decided, snapAt>>
      BY <1>3 DEF Confirm, Mine, HoldersKept
    <2> QED
      BY <2>1, SpacingKept DEF TypeOK
  <1>4. ASSUME NEW e \in Execs, Execute(e), ~Settle(e), ~Delete(e)
        PROVE  SpacingInv'
    <2>1. HoldersKept
      BY <1>4, ActiveStep
    <2>2. UNCHANGED <<now, marks, lastTrade, decided, snapAt>>
      BY <1>4 DEF Execute, Gate, Verdict, SendSlice, SliceFails, Pause, Unlock
    <2> QED
      BY <2>1, <2>2, SpacingKept DEF TypeOK
  <1>5. ASSUME NEW e \in Execs, Settle(e) PROVE SpacingInv'
    <2>1. inst[e] \in Instruments
      BY <1>5 DEF Settle, Goto, Assigned
    <2> QED
      BY <1>5, <2>1, SpacingSettle
  <1>6. ASSUME NEW e \in Execs, Delete(e) PROVE SpacingInv'
    <2>1. UNCHANGED <<now, snapAt, decided, marks, lastTrade, inst>>
      BY <1>6 DEF Delete
    <2>2. \A x \in Execs : pc'[x] \in Inside => pc[x] \in Inside
      BY <1>6 DEF Delete, Goto, TypeOK, Inside
    <2> QED
      BY <2>1, <2>2 DEF MarksOrdered, DecisionsCold, ExecutionsCold,
                        SecondMarkCold, LastMarkCold, AtMostOneOverrun
  <1>7. CASE Tick
    <2>1. HoldersKept /\ UNCHANGED <<marks, lastTrade, decided, snapAt>> /\ now' = now + 1
      BY <1>7 DEF Tick, HoldersKept
    <2>2. now' >= now
      BY <2>1 DEF TypeOK
    <2> QED
      BY <2>1, <2>2, SpacingKept
  <1>8. CASE Crash
    <2>1. /\ \A x \in Execs : pc'[x] \notin Inside
          /\ decided' = {} /\ UNCHANGED <<now, snapAt>>
      BY <1>8 DEF Crash, Active, Inside
    <2>2. \A i \in Instruments : marks'[i] = << >> /\ Len(marks'[i]) = 0
      BY <1>8 DEF Crash
    <2>3. MarksOrdered' /\ AtMostOneOverrun'
      BY <2>2 DEF MarksOrdered, AtMostOneOverrun
    <2> QED
      BY <2>1, <2>3 DEF DecisionsCold, ExecutionsCold
  <1>9. CASE UNCHANGED vars
    BY <1>9 DEF MarksOrdered, DecisionsCold, ExecutionsCold, SecondMarkCold,
                LastMarkCold, AtMostOneOverrun
  <1> QED
    BY <1>1, <1>2, <1>3, <1>4, <1>5, <1>6, <1>7, <1>8, <1>9 DEF Next

\* The cooldown is overrun by one execution at most.
THEOREM CooldownSpacing == ASSUME ~Redis PROVE Spec => []AtMostOneOverrun
  <1>1. Init => SpacingInv
    BY DEF Init, MarksOrdered, DecisionsCold, ExecutionsCold, AtMostOneOverrun, Inside
  <1>2. TypeOK /\ Assigned /\ LockInv /\ SpacingInv /\ [Next]_vars /\ TypeOK'
            => SpacingInv'
    BY SpacingInvStep DEF TypeOK
  <1>3. SpacingInv => AtMostOneOverrun
    OBVIOUS
  <1> QED
    BY <1>1, <1>2, <1>3, LockInvariant, PTL DEF Spec

-----------------------------------------------------------------------------
(* The back-off.                                                           *)

\* Nobody has read the back-off in the future.
GatesPast == \A e \in Execs : gateAt[e] <= now

BackoffInv == GatesPast /\ BackoffHonoured

PastGate == {"verdict", "send", "sleep"}

\* Steps that let nobody through the gate and extend no back-off without noting
\* the failure.
LEMMA BackoffKept ==
    ASSUME TypeOK, Assigned, BackoffInv,
           now' \in Nat, now' >= now, UNCHANGED <<gateAt, inst>>,
           \A e \in Execs : pc'[e] \in PastGate => pc[e] \in PastGate,
           \A i \in Instruments :
              \/ backoffUntil'[i] = 0
              \/ failedAt'[i] = now
              \/ backoffUntil'[i] = backoffUntil[i] /\ failedAt'[i] = failedAt[i]
    PROVE  BackoffInv'
  <1>1. GatesPast'
    BY DEF BackoffInv, GatesPast, TypeOK
  <1>2. BackoffHonoured'
    <2> SUFFICES ASSUME NEW e \in Execs, pc'[e] \in PastGate,
                        now' < backoffUntil'[inst[e]]
                 PROVE  gateAt[e] <= failedAt'[inst[e]]
      BY DEF BackoffHonoured, PastGate
    <2>1. pc[e] \in PastGate /\ inst[e] \in Instruments
      BY DEF Assigned, PastGate
    <2>2. backoffUntil[inst[e]] \in Nat /\ now \in Nat
      BY <2>1 DEF TypeOK, HealthTypeOK
    <2>3. CASE failedAt'[inst[e]] = now
      BY <2>3 DEF BackoffInv, GatesPast
    <2>4. CASE backoffUntil'[inst[e]] = 0
      BY <2>4
    <2>5. CASE /\ backoffUntil'[inst[e]] = backoffUntil[inst[e]]
               /\ failedAt'[inst[e]] = failedAt[inst[e]]
      BY <2>1, <2>2, <2>5 DEF BackoffInv, BackoffHonoured, PastGate
    <2> QED
      BY <2>1, <2>3, <2>4, <2>5
  <1> QED
    BY <1>1, <1>2 DEF BackoffInv

\* Whoever is past the gate while its instrument backs off has read the back-off
\* before the failure was recorded, whatever Redis does.
THEOREM BackoffSound == Spec => []BackoffHonoured
  <1>1. Init => BackoffInv
    BY DEF Init, HealthInit, BackoffInv, GatesPast, BackoffHonoured
  <1>2. TypeOK /\ Assigned /\ BackoffInv /\ [Next]_vars /\ TypeOK' => BackoffInv'
    <2> SUFFICES ASSUME TypeOK, Assigned, BackoffInv, [Next]_vars, now' \in Nat
                 PROVE  BackoffInv'
      BY DEF TypeOK
    <2> USE DEF PastGate
    <2>1. CASE Snapshot \/ Tick \/ UNCHANGED vars
      <3>1. /\ UNCHANGED <<gateAt, inst, pc, backoffUntil, failedAt>>
            /\ now' = now \/ now' = now + 1
        BY <2>1 DEF Snapshot, Tick
      <3>2. now' >= now
        BY <3>1 DEF TypeOK
      <3> QED
        BY <3>1, <3>2, BackoffKept
    <2>2. ASSUME NEW i \in Instruments, Evaluate(i) PROVE BackoffInv'
      BY <2>2, BackoffKept DEF Evaluate, TypeOK
    <2>3. ASSUME NEW i \in Instruments, Dispatch(i) PROVE BackoffInv'
      <3>1. /\ UNCHANGED <<now, backoffUntil, failedAt, gateAt>>
            /\ UNCHANGED <<pc, inst>> \/ \E e \in Execs : Start(e, i)
        <4>1. CASE Refused(i)
          BY <2>3, <4>1 DEF Dispatch, Refused
        <4>2. CASE \E e \in Execs : Start(e, i)
          BY <2>3, <4>2 DEF Dispatch, Start
        <4> QED
          BY <2>3, <4>1, <4>2 DEF Dispatch, AcquireRedis, AcquireLocal
      <3>2. \A x \in Execs : pc'[x] \in PastGate => pc[x] \in PastGate /\ inst'[x] = inst[x]
        BY <3>1 DEF Start, TypeOK
      <3> QED
        BY <3>1, <3>2 DEF BackoffInv, GatesPast, BackoffHonoured
    <2>4. ASSUME NEW e \in Execs, Gate(e) PROVE BackoffInv'
      <3>1. UNCHANGED <<now, backoffUntil, failedAt, inst>>
        BY <2>4 DEF Gate
      <3>2. \A x \in Execs : pc'[x] \in PastGate => x = e \/ pc[x] \in PastGate
        BY <2>4 DEF Gate, Goto, Healthy, TypeOK
      <3>3. pc'[e] \in PastGate => backoffUntil[inst[e]] <= now
        BY <2>4 DEF Gate, Goto, Healthy, TypeOK
      <3>4. gateAt' = gateAt \/ gateAt' = [gateAt EXCEPT ![e] = now]
        BY <2>4 DEF Gate, Healthy
      <3>5. GatesPast'
        <4>1. \A x \in Execs : gateAt[x] <= now
          BY DEF BackoffInv, GatesPast
        <4>2. now <= now
          BY DEF TypeOK
        <4>3. \A x \in Execs : gateAt'[x] = gateAt[x] \/ gateAt'[x] = now
          BY <3>4 DEF TypeOK
        <4> QED
          BY <3>1, <4>1, <4>2, <4>3 DEF GatesPast
      <3>6. ASSUME NEW x \in Execs, x # e, pc'[x] \in PastGate, now < backoffUntil[inst[x]]
            PROVE  gateAt'[x] <= failedAt[inst[x]]
        BY <3>2, <3>4, <3>6 DEF BackoffInv, BackoffHonoured, TypeOK
      <3>7. pc'[e] \in PastGate => ~(now < backoffUntil[inst[e]])
        <4>1. inst[e] \in Instruments
          BY <2>4 DEF Gate, Assigned
        <4> QED
          BY <3>3, <4>1 DEF TypeOK, HealthTypeOK
      <3> QED
        BY <3>1, <3>5, <3>6, <3>7 DEF BackoffInv, BackoffHonoured
    <2>5. ASSUME NEW e \in Execs,
                 Verdict(e) \/ SendSlice(e) \/ SliceFails(e) \/ Pause(e) \/ Unlock(e)
          PROVE  BackoffInv'
      <3>1. UNCHANGED <<now, backoffUntil, failedAt, gateAt, inst>>
        BY <2>5 DEF Verdict, SendSlice, SliceFails, Pause, Unlock
      <3>2. \A x \in Execs : pc'[x] \in PastGate => pc[x] \in PastGate
        BY <2>5 DEF Verdict, SendSlice, SliceFails, Pause, Unlock, Goto, TypeOK
      <3> QED
        BY <3>1, <3>2, BackoffKept DEF TypeOK
    <2>6. ASSUME NEW e \in Execs, Settle(e) PROVE BackoffInv'
      <3>1. /\ UNCHANGED <<now, gateAt, inst>>
            /\ UNCHANGED healthVars \/ RecordFailure(inst[e])
        BY <2>6 DEF Settle
      <3>2. \A i \in Instruments :
                \/ failedAt'[i] = now
                \/ backoffUntil'[i] = backoffUntil[i] /\ failedAt'[i] = failedAt[i]
        BY <3>1 DEF RecordFailure, TypeOK, HealthTypeOK
      <3>3. \A x \in Execs : pc'[x] \in PastGate => pc[x] \in PastGate
        BY <2>6 DEF Settle, Goto, TypeOK
      <3>4. now' \in Nat /\ now' >= now
        BY <3>1 DEF TypeOK
      <3> QED
        BY <3>1, <3>2, <3>3, <3>4, BackoffKept
    <2>7. ASSUME NEW e \in Execs, Delete(e) PROVE BackoffInv'
      <3>1. /\ UNCHANGED <<now, backoffUntil, failedAt, inst>>
            /\ gateAt' = [gateAt EXCEPT ![e] = 0]
            /\ pc' = [pc EXCEPT ![e] = "done"]
        BY <2>7 DEF Delete, Goto
      <3> QED
        BY <3>1 DEF BackoffInv, GatesPast, BackoffHonoured, TypeOK
    <2>8. ASSUME NEW e \in Execs, Confirm(e) PROVE BackoffInv'
      <3>1. /\ UNCHANGED <<now, gateAt, inst, pc>>
            /\ UNCHANGED healthVars \/ RecordFailure(inst[e]) \/ RecordSuccess(inst[e])
        BY <2>8 DEF Confirm
      <3>2. \A i \in Instruments :
                \/ backoffUntil'[i] = 0
                \/ failedAt'[i] = now
                \/ backoffUntil'[i] = backoffUntil[i] /\ failedAt'[i] = failedAt[i]
        BY <3>1 DEF RecordFailure, RecordSuccess, TypeOK, HealthTypeOK
      <3> QED
        BY <3>1, <3>2, BackoffKept DEF TypeOK
    <2>9. ASSUME NEW e \in Execs, Mine(e) PROVE BackoffInv'
      <3>1. UNCHANGED <<now, gateAt, inst, pc, backoffUntil, failedAt>>
        BY <2>9 DEF Mine
      <3> QED
        BY <3>1, BackoffKept DEF TypeOK
    <2>10. CASE Crash
      <3>1. /\ UNCHANGED <<now, gateAt>>
            /\ \A x \in Execs : pc'[x] \notin PastGate
        BY <2>10 DEF Crash, TypeOK, Active, Inside
      <3> QED
        BY <3>1 DEF BackoffInv, GatesPast, BackoffHonoured
    <2> QED
      BY <2>1, <2>2, <2>3, <2>4, <2>5, <2>6, <2>7, <2>8, <2>9, <2>10
         DEF Next, Execute
  <1>3. BackoffInv => BackoffHonoured
    BY DEF BackoffInv
  <1> QED
    BY <1>1, <1>2, <1>3, TypeCorrect, PTL DEF Spec

-----------------------------------------------------------------------------
(* The lock in Redis.                                                      *)

\* An execution whose key, if it has not run out, is still there.
Holding == Inside \cup {"unlock"}

\* As long as no call has failed, an execution that is within the TTL of its key has
\* the key, and has it alone.
KeyInv ==
    /\ \A e \in Execs :
          pc[e] \in Active /\ inst[e] \notin overran => now < startedAt[e] + LockTTL
    /\ \A e \in Execs :
          pc[e] \in Holding /\ inst[e] \notin overran =>
              redisKey[inst[e]] = startedAt[e] + LockTTL
    /\ \A e1, e2 \in Execs :
          /\ pc[e1] \in Holding /\ pc[e2] \in Holding
          /\ inst[e1] = inst[e2] /\ inst[e1] \notin overran
          => e1 = e2

TTLInv == Redis /\ redisErrors = 0 => KeyInv

\* Steps that set no key and start no execution; at most executions end or run into
\* their TTL.
LEMMA KeyKept ==
    ASSUME KeyInv, UNCHANGED <<inst, redisKey>>,
           \A e \in Execs : pc'[e] \in Active => pc[e] \in Active /\ startedAt'[e] = startedAt[e],
           \A e \in Execs : pc'[e] \in Holding => pc[e] \in Holding,
           overran \subseteq overran',
           \A e \in Execs :
              pc'[e] \in Active /\ inst[e] \notin overran' =>
                  now' = now \/ now' < startedAt[e] + LockTTL
    PROVE  KeyInv'
  <1>1. Holding \subseteq Active
    BY DEF Holding, Active
  <1>2. \A e \in Execs :
            pc'[e] \in Active /\ inst'[e] \notin overran' => now' < startedAt'[e] + LockTTL
    BY DEF KeyInv
  <1>3. \A e \in Execs :
            pc'[e] \in Holding /\ inst'[e] \notin overran' =>
                redisKey'[inst'[e]] = startedAt'[e] + LockTTL
    BY <1>1 DEF KeyInv
  <1>4. \A e1, e2 \in Execs :
            /\ pc'[e1] \in Holding /\ pc'[e2] \in Holding
            /\ inst'[e1] = inst'[e2] /\ inst'[e1] \notin overran'
            => e1 = e2
    BY DEF KeyInv
  <1> QED
    BY <1>2, <1>3, <1>4 DEF KeyInv

\* SetNX finds no key, so no execution within its TTL has one.
LEMMA KeyAcquired ==
    ASSUME TypeOK, KeyInv, NEW e \in Execs, NEW i \in Instruments, AcquireRedis(e, i),
           UNCHANGED <<now, overran>>
    PROVE  KeyInv'
  <1>1. /\ ~(now < redisKey[i]) /\ pc[e] = "new"
        /\ redisKey'[i] = now + LockTTL
        /\ \A j \in Instruments \ {i} : redisKey'[j] = redisKey[j]
        /\ pc'[e] = "gate" /\ inst'[e] = i /\ startedAt'[e] = now
        /\ \A x \in Execs \ {e} :
              pc'[x] = pc[x] /\ inst'[x] = inst[x] /\ startedAt'[x] = startedAt[x]
    BY DEF AcquireRedis, KeyHeld, Start, TypeOK
  <1>2. ASSUME NEW x \in Execs \ {e}, pc[x] \in Holding, inst[x] \notin overran
        PROVE  inst[x] # i
    <2>1. redisKey[inst[x]] = startedAt[x] + LockTTL /\ now < startedAt[x] + LockTTL
      BY <1>2 DEF KeyInv, Holding, Active
    <2> QED
      BY <1>1, <2>1
  <1>3. now < now + LockTTL
    BY TimesAssumption DEF TypeOK
  <1>4. \A x \in Execs :
            pc'[x] \in Active /\ inst'[x] \notin overran => now < startedAt'[x] + LockTTL
    BY <1>1, <1>3 DEF KeyInv
  <1>5. ASSUME NEW x \in Execs, pc'[x] \in Holding, inst'[x] \notin overran
        PROVE  redisKey'[inst'[x]] = startedAt'[x] + LockTTL
    <2>1. CASE x = e
      BY <1>1, <2>1
    <2>2. CASE x # e
      <3>1. redisKey[inst[x]] = startedAt[x] + LockTTL /\ inst[x] # i
        BY <1>1, <1>2, <1>5, <2>2 DEF KeyInv
      <3>2. redisKey'[inst[x]] = redisKey[inst[x]]
        BY <3>1 DEF AcquireRedis, TypeOK
      <3> QED
        BY <1>1, <2>2, <3>1, <3>2
    <2> QED
      BY <2>1, <2>2
  <1>6. ASSUME NEW x \in Execs, NEW y \in Execs, pc'[x] \in Holding, pc'[y] \in Holding,
               inst'[x] = inst'[y], inst'[x] \notin overran
        PROVE  x = y
    BY <1>1, <1>2, <1>6 DEF KeyInv
  <1> QED
    BY <1>4, <1>5, <1>6 DEF KeyInv

\* An execution that releases its instrument deletes its own key, unless it has run
\* into the TTL.
LEMMA KeyReleased ==
    ASSUME TypeOK, KeyInv, NEW e \in Execs, pc[e] = "unlock",
           pc' = [pc EXCEPT ![e] = "delete"],
           redisKey' = [redisKey EXCEPT ![inst[e]] = 0],
           UNCHANGED <<now, inst, startedAt, overran>>
    PROVE  KeyInv'
  <1>1. \A x \in Execs \ {e} : pc'[x] = pc[x]
    BY DEF TypeOK
  <1>2. "unlock" \in Holding /\ "unlock" \in Active /\ "delete" \notin Holding
        /\ Holding \subseteq Active /\ pc'[e] = "delete"
    BY DEF Holding, Active, Inside, TypeOK
  <1>3. \A x \in Execs : (pc'[x] \in Holding => pc[x] \in Holding /\ x # e)
                         /\ (pc'[x] \in Active => pc[x] \in Active)
    BY <1>1, <1>2
  <1>4. ASSUME NEW x \in Execs, pc'[x] \in Holding, inst[x] \notin overran
        PROVE  redisKey'[inst[x]] = startedAt[x] + LockTTL
    <2>1. x # e /\ pc[x] \in Holding
      BY <1>3, <1>4
    <2>2. inst[x] # inst[e]
      BY <1>2, <1>4, <2>1 DEF KeyInv
    <2>3. redisKey'[inst[x]] = redisKey[inst[x]]
      BY <2>2 DEF TypeOK
    <2> QED
      BY <1>4, <2>1, <2>3 DEF KeyInv
  <1> QED
    BY <1>3, <1>4 DEF KeyInv

\* With Redis every step keeps the keys and their owners together.
LEMMA TTLInvStep ==
    ASSUME TypeOK, TypeOK', Assigned, TTLInv, [Next]_vars
    PROVE  TTLInv'
  <1> SUFFICES ASSUME Redis, redisErrors' = 0  PROVE KeyInv'
    BY DEF TTLInv
  <1>0. redisErrors \in Nat /\ (redisErrors = 0 => KeyInv)
    BY DEF TTLInv, TypeOK
  <1>1. ASSUME KeyInv, HoldersKept, UNCHANGED <<redisKey, redisErrors, startedAt, overran, now>>,
               \A e \in Execs : pc'[e] = "unlock" => pc[e] \in Holding
        PROVE  KeyInv'
    <2>1. \A e \in Execs : pc'[e] \in Holding => pc[e] \in Holding
      BY <1>1 DEF HoldersKept, Holding
    <2> QED
      BY <1>1, <2>1, KeyKept DEF HoldersKept
  <1>2. CASE Snapshot \/ UNCHANGED vars
    BY <1>0, <1>1, <1>2 DEF Snapshot, HoldersKept, Holding
  <1>3. ASSUME NEW i \in Instruments, Evaluate(i)  PROVE KeyInv'
    BY <1>0, <1>1, <1>3 DEF Evaluate, HoldersKept, Holding
  <1>4. ASSUME NEW i \in Instruments, Dispatch(i)  PROVE KeyInv'
    <2>1. ~RedisFails(i)
      BY <1>0 DEF RedisFails
    <2>2. UNCHANGED <<now, overran>>
      BY <1>4 DEF Dispatch
    <2>3. ASSUME NEW e \in Execs, AcquireRedis(e, i)  PROVE KeyInv'
      BY <1>0, <2>2, <2>3, KeyAcquired DEF AcquireRedis
    <2>4. CASE Refused(i)
      BY <1>0, <1>1, <2>1, <2>2, <2>4 DEF Refused, HoldersKept, Holding
    <2> QED
      BY <1>4, <2>1, <2>3, <2>4 DEF Dispatch
  <1>5. ASSUME NEW e \in Execs, Confirm(e) \/ Mine(e)  PROVE KeyInv'
    BY <1>0, <1>1, <1>5 DEF Confirm, Mine, HoldersKept, Holding
  <1>6. ASSUME NEW e \in Execs,
               Gate(e) \/ Verdict(e) \/ SendSlice(e) \/ SliceFails(e) \/ Pause(e) \/ Settle(e)
        PROVE  KeyInv'
    <2>1. ~Delete(e)
      BY <1>6 DEF Gate, Verdict, SendSlice, SliceFails, Pause, Settle, Delete, Goto, Healthy
    <2>2. HoldersKept
      BY <1>6, <2>1, ActiveStep DEF Execute
    <2>3. UNCHANGED <<redisKey, redisErrors, startedAt, overran, now>>
      BY <1>6 DEF Gate, Verdict, SendSlice, SliceFails, Pause, Settle
    <2>4. pc[e] \in Holding /\ \A x \in Execs \ {e} : pc'[x] = pc[x]
      <3>1. /\ pc[e] \in {"gate", "verdict", "send", "sleep", "settle"}
            /\ \E to : pc' = [pc EXCEPT ![e] = to]
        BY <1>6 DEF Gate, Verdict, SendSlice, SliceFails, Pause, Settle, Goto, Healthy
      <3> QED
        BY <3>1 DEF Holding, Inside, TypeOK
    <2>5. \A x \in Execs : pc'[x] = "unlock" => pc[x] \in Holding
      BY <2>4 DEF Holding
    <2> QED
      BY <1>0, <1>1, <2>2, <2>3, <2>5
  <1>7. ASSUME NEW e \in Execs, Unlock(e)  PROVE KeyInv'
    <2>1. /\ pc[e] = "unlock" /\ pc' = [pc EXCEPT ![e] = "delete"]
          /\ redisKey' = [redisKey EXCEPT ![inst[e]] = 0]
          /\ redisErrors = 0
          /\ UNCHANGED <<now, inst, startedAt, overran>>
      BY <1>0, <1>7 DEF Unlock, Goto
    <2> QED
      BY <1>0, <2>1, KeyReleased
  <1>8. ASSUME NEW e \in Execs, Delete(e)  PROVE KeyInv'
    <2>1. /\ UNCHANGED <<inst, redisKey, redisErrors, now, overran>>
          /\ pc'[e] = "done" /\ \A x \in Execs \ {e} : pc'[x] = pc[x] /\ startedAt'[x] = startedAt[x]
      BY <1>8 DEF Delete, Goto, TypeOK
    <2>2. "done" \notin Active /\ "done" \notin Holding
      BY DEF Active, Holding, Inside
    <2> QED
      BY <1>0, <2>1, <2>2, KeyKept
  <1>9. CASE Tick
    <2>1. /\ UNCHANGED <<inst, redisKey, redisErrors, pc, startedAt>>
          /\ now' = now + 1 /\ overran \subseteq overran'
          /\ \A e \in Execs : pc[e] \in Active /\ now + 1 >= startedAt[e] + LockTTL =>
                inst[e] \in overran'
      BY <1>9 DEF Tick
    <2>2. \A e \in Execs : now + 1 \in Nat /\ startedAt[e] + LockTTL \in Nat
      <3>1. now \in Nat /\ startedAt \in [Execs -> Nat] /\ LockTTL \in Nat
        BY TimesAssumption DEF TypeOK
      <3> QED
        BY <3>1
    <2>3. \A e \in Execs :
              pc'[e] \in Active /\ inst[e] \notin overran' => now' < startedAt[e] + LockTTL
      BY <2>1, <2>2
    <2> QED
      BY <1>0, <2>1, <2>3, KeyKept
  <1>10. CASE Crash
    <2>1. \A e \in Execs : pc'[e] \notin Active
      BY <1>10 DEF Crash, TypeOK, Active, Inside
    <2>2. Holding \subseteq Active
      BY DEF Holding, Active
    <2> QED
      BY <2>1, <2>2 DEF KeyInv
  <1> QED
    BY <1>2, <1>3, <1>4, <1>5, <1>6, <1>7, <1>8, <1>9, <1>10 DEF Next, Execute

\* Two executions of one instrument overlap only after one has outlived the TTL of
\* its key or a Redis call has failed: until then neither the release, which deletes
\* the key whoever set it, nor the keys of a dead process do harm.  Without Redis
\* they never overlap.
THEOREM TTLExclusion == Spec => []OverlapOnlyAfterTTL
  <1>1. CASE ~Redis
    <2>1. LockInv => OverlapOnlyAfterTTL
      BY DEF LockInv, OverlapOnlyAfterTTL, Active
    <2> QED
      BY <1>1, <2>1, LockInvariant, PTL
  <1>2. CASE Redis
    <2>1. Init => TTLInv
      BY DEF Init, TTLInv, KeyInv, Active, Holding, Inside
    <2>2. TypeOK /\ TypeOK' /\ Assigned /\ TTLInv /\ [Next]_vars => TTLInv'
      BY TTLInvStep
    <2>3. TypeOK /\ TTLInv => OverlapOnlyAfterTTL
      <3> SUFFICES ASSUME TypeOK, TTLInv, redisErrors = 0  PROVE OverlapOnlyAfterTTL
        BY DEF OverlapOnlyAfterTTL, TypeOK
      <3> QED
        BY <1>2 DEF TTLInv, KeyInv, OverlapOnlyAfterTTL, Holding
    <2> QED
      BY <2>1, <2>2, <2>3, TypeCorrect, PTL DEF Spec
  <1> QED
    BY <1>1, <1>2

=============================================================================
