---------------------------- MODULE AuditProofs ----------------------------
(***************************************************************************)
(* Theorems about AuditTrail, for any executions, tokens and number of     *)
(* faults, with and without Redis.                                         *)
(***************************************************************************)
EXTENDS AuditTrail, FiniteSetTheorems, TLAPS

(* Types.                                                                  *)

\* The writers and the events are there, and every event has its execution.
LEMMA EventFacts ==
    /\ NoJob \in Events
    /\ Consumer \in Writers
    /\ \A e \in Execs : e \in Writers /\ Decision(e) \in Events /\ Result(e) \in Events
    /\ \A v \in Events : v.exec \in Execs /\ v.type \in {"decision", "result"}
  <1>1. \A e \in Execs : Decision(e) \in Events /\ Result(e) \in Events
    BY DEF Decision, Result, Events
  <1>2. NoJob \in Events
    BY <1>1, ExecsAssumption DEF NoJob
  <1> QED
    BY <1>1, <1>2 DEF Writers, Events

\* The next store call is one.
LEMMA CallFacts ==
    ASSUME NEW w \in Writers
    PROVE  Succeeded(w) \in Steps \cup {"idle"} /\ GivenUp(w) \in Steps \cup {"idle"}
  BY DEF Succeeded, GivenUp, Steps

\* A writer that takes a step keeps its locals' types.
JobTypeOK ==
    /\ job \in [Writers -> Events]
    /\ at \in [Writers -> Steps \cup {"idle"}]
    /\ seen \in [Writers -> Nat]

\* Taking an event up keeps them.
LEMMA BeginType ==
    ASSUME JobTypeOK, NEW w \in Writers, NEW v \in Events, Begin(w, v)
    PROVE  JobTypeOK'
  BY DEF JobTypeOK, Begin, Steps

\* So does going on to the next store call.
LEMMA GotoType ==
    ASSUME JobTypeOK, NEW w \in Writers, NEW from, NEW to \in Steps \cup {"idle"},
           NEW read \in Nat, Goto(w, from, to, read)
    PROVE  JobTypeOK'
  BY EventFacts DEF JobTypeOK, Goto

\* An event that is handed over is on the list or with its execution.
LEMMA EnqueueType ==
    ASSUME JobTypeOK, queue \in Seq(Events), pushErrors \in Nat,
           NEW e \in Execs, NEW v \in Events, Enqueue(e, v)
    PROVE  JobTypeOK' /\ queue' \in Seq(Events) /\ pushErrors' \in Nat
  <1>1. Append(queue, v) \in Seq(Events)
    OBVIOUS
  <1>2. CASE Begin(e, v)
    BY <1>1, <1>2, BeginType, EventFacts DEF Enqueue
  <1>3. CASE UNCHANGED <<jobVars, pushErrors>> /\ queue' = Append(queue, v)
    BY <1>1, <1>3 DEF JobTypeOK, jobVars
  <1> QED
    BY <1>2, <1>3 DEF Enqueue

-----------------------------------------------------------------------------
(* A result is issued when its status is known.                            *)

Known ==
    /\ \A e \in Execs : pc[e] \in {"new", "swap"} => confirm[e] = "none"
    /\ \A e \in Execs : pc[e] = "record" => status[e] # "none"
    /\ \A e \in Execs : confirm[e] # "none" => status[e] = "submitted"
    /\ \A k \in DOMAIN queue : queue[k].type = "result" => status[queue[k].exec] # "none"
    /\ \A w \in Writers :
          /\ at[w] = "decision" => job[w].type = "decision"
          /\ at[w] \notin {"idle", "decision"} =>
                job[w].type = "result" /\ status[job[w].exec] # "none"

TypeInv == TypeOK /\ Known

\* The elements of an extended sequence.
LEMMA Extended ==
    ASSUME NEW S, NEW s \in Seq(S), NEW x \in S
    PROVE  /\ Append(s, x) \in Seq(S)
           /\ DOMAIN Append(s, x) = DOMAIN s \cup {Len(s) + 1}
           /\ \A k \in DOMAIN s : Append(s, x)[k] = s[k]
           /\ Append(s, x)[Len(s) + 1] = x
           /\ \A k \in DOMAIN s : k \in Nat /\ k <= Len(s)
  <1> DEFINE t == Append(s, x)
  <1>1. t \in Seq(S) /\ Len(t) = Len(s) + 1 /\ Len(s) \in Nat
    OBVIOUS
  <1>2. DOMAIN s = 1..Len(s) /\ DOMAIN t = 1..Len(s) + 1
    BY <1>1
  <1>3. t[Len(s) + 1] = x /\ \A k \in 1..Len(s) : t[k] = s[k]
    OBVIOUS
  <1> HIDE DEF t
  <1>4. DOMAIN t = DOMAIN s \cup {Len(s) + 1}
    BY <1>1, <1>2
  <1>5. \A k \in DOMAIN s : t[k] = s[k] /\ k \in Nat /\ k <= Len(s)
    BY <1>1, <1>2, <1>3
  <1> QED
    BY <1>1, <1>3, <1>4, <1>5 DEF t

\* The elements of a shortened sequence.
LEMMA Shortened ==
    ASSUME NEW S, NEW s \in Seq(S), s # << >>
    PROVE  /\ Tail(s) \in Seq(S)
           /\ Head(s) = s[1] /\ 1 \in DOMAIN s
           /\ \A k \in DOMAIN Tail(s) :
                 k \in Nat \ {0} /\ k + 1 \in DOMAIN s /\ Tail(s)[k] = s[k + 1]
           /\ \A k \in DOMAIN s : k \in Nat /\ (k = 1 \/ k - 1 \in DOMAIN Tail(s))
  <1>1. Tail(s) \in Seq(S) /\ Len(Tail(s)) = Len(s) - 1 /\ Len(s) \in Nat \ {0}
    OBVIOUS
  <1>2. DOMAIN s = 1..Len(s) /\ DOMAIN Tail(s) = 1..Len(s) - 1
    BY <1>1
  <1>3. \A k \in 1..Len(s) - 1 : Tail(s)[k] = s[k + 1]
    OBVIOUS
  <1>4. Head(s) = s[1]
    OBVIOUS
  <1>5. \A k \in DOMAIN Tail(s) :
            k \in Nat \ {0} /\ k + 1 \in DOMAIN s /\ Tail(s)[k] = s[k + 1]
    BY <1>1, <1>2, <1>3
  <1>6. \A k \in DOMAIN s : k \in Nat /\ (k = 1 \/ k - 1 \in DOMAIN Tail(s))
    BY <1>1, <1>2
  <1> QED
    BY <1>1, <1>2, <1>4, <1>5, <1>6

\* What a store call of one writer changes.
LEMMA PersistType ==
    ASSUME TypeInv, NEW w \in Writers, Persist(w)
    PROVE  TypeOK'
  <1> USE DEF TypeInv, execVars, confirmVars, faultVars, positionVars, tableVars
  <1>0. JobTypeOK /\ job[w].exec \in Execs
    BY EventFacts DEF TypeOK, JobTypeOK
  <1>1. CASE InsertDecisionLog(w)
    <2>1. JobTypeOK'
      BY <1>0, <1>1, CallFacts, GotoType DEF InsertDecisionLog
    <2>2. decisions' \in [Execs -> Nat]
      BY <1>0, <1>1 DEF InsertDecisionLog, TypeOK
    <2> QED
      BY <1>1, <2>1, <2>2 DEF InsertDecisionLog, TypeOK, JobTypeOK
  <1>2. CASE InsertTrade(w)
    <2> DEFINE e == job[w].exec
    <2>1. JobTypeOK'
      BY <1>0, <1>2, CallFacts, GotoType DEF InsertTrade
    <2>2. status[e] \in {"skipped", "submitted", "failed"}
      BY <1>0, <1>2 DEF InsertTrade, Goto, Known, TypeOK
    <2>3. /\ Append(trades[e], status[e]) \in Seq({"skipped", "submitted", "failed", "final"})
          /\ Append(accounts[e], status[e]) \in Seq({"skipped", "submitted", "failed"})
      BY <1>0, <2>2 DEF TypeOK
    <2>4. /\ trades' \in [Execs -> Seq({"skipped", "submitted", "failed", "final"})]
          /\ accounts' \in [Execs -> Seq({"skipped", "submitted", "failed"})]
      BY <1>2, <2>3 DEF InsertTrade, TypeOK
    <2> QED
      BY <1>2, <2>1, <2>4 DEF InsertTrade, TypeOK, JobTypeOK
  <1>3. CASE InsertExecutionLog(w)
    <2>1. JobTypeOK'
      BY <1>0, <1>3, CallFacts, GotoType DEF InsertExecutionLog
    <2>2. logs' \in [Execs -> Nat]
      BY <1>0, <1>3 DEF InsertExecutionLog, TypeOK
    <2> QED
      BY <1>3, <2>1, <2>2 DEF InsertExecutionLog, TypeOK, JobTypeOK
  <1>4. CASE ReadPosition(w)
    <2>1. position[Token(w)] \in Nat
      BY <1>0, TokensAssumption DEF Token, TypeOK
    <2>2. JobTypeOK'
      BY <1>0, <1>4, <2>1, CallFacts, GotoType DEF ReadPosition
    <2> QED
      BY <1>4, <2>2 DEF ReadPosition, TypeOK, JobTypeOK
  <1>5. CASE WritePosition(w)
    <2>1. JobTypeOK'
      BY <1>0, <1>5, CallFacts, GotoType DEF WritePosition
    <2>2. position' \in [Tokens -> Nat] /\ bumps' \in [Tokens -> Nat]
      <3>1. seen[w] + 1 \in Nat /\ \A t \in Tokens : bumps[t] + 1 \in Nat
        BY DEF TypeOK
      <3> QED
        BY <1>5, <3>1 DEF WritePosition, TypeOK
    <2> QED
      BY <1>5, <2>1, <2>2 DEF WritePosition, TypeOK, JobTypeOK
  <1>6. CASE GiveUp(w)
    <2>1. JobTypeOK'
      BY <1>0, <1>6, CallFacts, GotoType DEF GiveUp
    <2> QED
      BY <1>6, <2>1 DEF GiveUp, TypeOK, JobTypeOK
  <1> QED
    BY <1>1, <1>2, <1>3, <1>4, <1>5, <1>6 DEF Persist

\* The types, after every step.
LEMMA TypeStep ==
    ASSUME TypeInv, [Next]_vars
    PROVE  TypeOK'
  <1> USE DEF TypeInv, execVars, jobVars, confirmVars, faultVars, positionVars, tableVars
  <1>0. JobTypeOK /\ NoJob \in Events
    BY EventFacts DEF TypeOK, JobTypeOK
  <1>1. CASE Pop
    <2>1. Head(queue) \in Events /\ Tail(queue) \in Seq(Events)
      BY <1>1 DEF Pop, TypeOK
    <2>2. JobTypeOK'
      BY <1>0, <1>1, <2>1, BeginType, EventFacts DEF Pop
    <2> QED
      BY <1>1, <2>1, <2>2 DEF Pop, TypeOK, JobTypeOK
  <1>2. CASE PopLost
    <2>1. Tail(queue) \in Seq(Events)
      BY <1>2 DEF PopLost, TypeOK
    <2> QED
      BY <1>2, <2>1 DEF PopLost, TypeOK
  <1>3. ASSUME NEW e \in Execs, Decide(e)  PROVE TypeOK'
    <2>1. JobTypeOK' /\ queue' \in Seq(Events) /\ pushErrors' \in Nat
      BY <1>0, <1>3, EnqueueType, EventFacts DEF Decide, TypeOK
    <2> QED
      BY <1>3, <2>1 DEF Decide, TypeOK, JobTypeOK
  <1>4. ASSUME NEW e \in Execs, Outcome(e)  PROVE TypeOK'
    BY <1>4 DEF Outcome, TypeOK
  <1>5. ASSUME NEW e \in Execs, Record(e)  PROVE TypeOK'
    <2>1. JobTypeOK' /\ queue' \in Seq(Events) /\ pushErrors' \in Nat
      BY <1>0, <1>5, EnqueueType, EventFacts DEF Record, TypeOK
    <2> QED
      BY <1>5, <2>1 DEF Record, TypeOK, JobTypeOK
  <1>6. ASSUME NEW e \in Execs, Receipt(e)  PROVE TypeOK'
    BY <1>6 DEF Receipt, TypeOK
  <1>7. ASSUME NEW e \in Execs, UpdateTradeStatus(e)  PROVE TypeOK'
    <2>1. [k \in DOMAIN trades[e] |-> "final"] \in Seq({"skipped", "submitted", "failed", "final"})
      BY DEF TypeOK
    <2>2. trades' \in [Execs -> Seq({"skipped", "submitted", "failed", "final"})]
      BY <1>7, <2>1 DEF UpdateTradeStatus, TypeOK
    <2> QED
      BY <1>7, <2>2 DEF UpdateTradeStatus, TypeOK
  <1>8. ASSUME NEW e \in Execs, LogFinal(e)  PROVE TypeOK'
    BY <1>8 DEF LogFinal, TypeOK
  <1>9. ASSUME NEW e \in Execs, ConfirmGivesUp(e)  PROVE TypeOK'
    BY <1>9 DEF ConfirmGivesUp, TypeOK
  <1>10. CASE Crash
    BY <1>0, <1>10 DEF Crash, TypeOK
  <1>11. CASE UNCHANGED vars
    BY <1>11 DEF vars, TypeOK
  <1> QED
    BY <1>1, <1>2, <1>3, <1>4, <1>5, <1>6, <1>7, <1>8, <1>9, <1>10, <1>11, PersistType
    DEF Next, Execute, Confirm


\* What a writer may have in hand, and what the list may hold.
JobKnown(w) ==
    /\ at[w] = "decision" => job[w].type = "decision"
    /\ at[w] \notin {"idle", "decision"} =>
          job[w].type = "result" /\ status[job[w].exec] # "none"

QueueKnown ==
    \A k \in DOMAIN queue : queue[k].type = "result" => status[queue[k].exec] # "none"

\* A status that is known stays known.
StatusKept == \A e \in Execs : status[e] # "none" => status'[e] # "none"

\* A writer that takes up a result knows its status.
LEMMA BeginKnown ==
    ASSUME TypeInv, StatusKept, NEW w \in Writers, NEW v \in Events, Begin(w, v),
           v.type = "result" => status'[v.exec] # "none"
    PROVE  \A x \in Writers : JobKnown(x)'
  <1>1. JobKnown(w)'
    BY EventFacts DEF TypeInv, TypeOK, JobKnown, Begin
  <1>2. ASSUME NEW x \in Writers \ {w}  PROVE JobKnown(x)'
    <2>1. at'[x] = at[x] /\ job'[x] = job[x]
      BY DEF TypeInv, TypeOK, Begin
    <2> QED
      BY <2>1, EventFacts DEF TypeInv, TypeOK, Known, JobKnown, StatusKept
  <1> QED
    BY <1>1, <1>2

\* A writer that goes on keeps its event, and no result turns into a decision.
LEMMA GotoKnown ==
    ASSUME TypeInv, StatusKept, NEW w \in Writers, NEW from, NEW to, NEW read,
           Goto(w, from, to, read), from # "idle",
           to # "decision", from = "decision" => to = "idle"
    PROVE  \A x \in Writers : JobKnown(x)'
  <1>1. JobKnown(w)'
    BY EventFacts DEF TypeInv, TypeOK, Known, JobKnown, StatusKept, Goto
  <1>2. ASSUME NEW x \in Writers \ {w}  PROVE JobKnown(x)'
    <2>1. at'[x] = at[x] /\ job'[x] = job[x]
      BY DEF TypeInv, TypeOK, Goto
    <2> QED
      BY <2>1, EventFacts DEF TypeInv, TypeOK, Known, JobKnown, StatusKept
  <1> QED
    BY <1>1, <1>2

\* What the writers have in hand does not change.
LEMMA JobsKept ==
    ASSUME TypeInv, StatusKept, UNCHANGED jobVars
    PROVE  \A x \in Writers : JobKnown(x)'
  BY EventFacts DEF TypeInv, TypeOK, Known, JobKnown, StatusKept, jobVars

\* Taking an event off the list, or adding one with its status known, keeps it known.
LEMMA QueueKept ==
    ASSUME TypeInv, StatusKept,
           \/ UNCHANGED queue
           \/ queue # << >> /\ queue' = Tail(queue)
           \/ \E v \in Events : /\ queue' = Append(queue, v)
                                /\ v.type = "result" => status'[v.exec] # "none"
    PROVE  QueueKnown'
  <1>0. queue \in Seq(Events) /\ \A k \in DOMAIN queue : queue[k] \in Events
    BY DEF TypeInv, TypeOK
  <1>1. CASE UNCHANGED queue
    BY <1>0, <1>1, EventFacts DEF TypeInv, Known, QueueKnown, StatusKept
  <1>2. CASE queue # << >> /\ queue' = Tail(queue)
    <2>1. \A k \in DOMAIN queue' : k + 1 \in DOMAIN queue /\ queue'[k] = queue[k + 1]
      BY <1>0, <1>2, Shortened
    <2>2. ASSUME NEW k \in DOMAIN queue', queue'[k].type = "result"
          PROVE  status'[queue'[k].exec] # "none"
      <3> DEFINE j == k + 1
      <3>1. j \in DOMAIN queue /\ queue'[k] = queue[j]
        BY <2>1
      <3> HIDE DEF j
      <3>2. queue[j] \in Events /\ status[queue[j].exec] # "none"
        BY <1>0, <2>2, <3>1 DEF TypeInv, Known
      <3> QED
        BY <3>1, <3>2, EventFacts DEF StatusKept
    <2> QED
      BY <2>2 DEF QueueKnown
  <1>3. ASSUME NEW v \in Events, queue' = Append(queue, v),
               v.type = "result" => status'[v.exec] # "none"
        PROVE  QueueKnown'
    BY <1>0, <1>3, Extended, EventFacts DEF TypeInv, Known, QueueKnown, StatusKept
  <1> QED
    BY <1>1, <1>2, <1>3

\* Known follows from its parts for the executions, the list and the writers.
LEMMA KnownParts ==
    ASSUME /\ \A e \in Execs : pc'[e] \in {"new", "swap"} => confirm'[e] = "none"
           /\ \A e \in Execs : pc'[e] = "record" => status'[e] # "none"
           /\ \A e \in Execs : confirm'[e] # "none" => status'[e] = "submitted",
           QueueKnown', \A x \in Writers : JobKnown(x)'
    PROVE  Known'
  BY DEF Known, QueueKnown, JobKnown

\* Store calls.
LEMMA PersistKnown ==
    ASSUME TypeInv, NEW w \in Writers, Persist(w)
    PROVE  Known'
  <1>1. UNCHANGED <<pc, status, confirm, queue>>
    BY DEF Persist, InsertDecisionLog, InsertTrade, InsertExecutionLog, ReadPosition,
           WritePosition, GiveUp, execVars, confirmVars
  <1>2. StatusKept
    BY <1>1 DEF StatusKept
  <1>3. QueueKnown'
    BY <1>1, <1>2, QueueKept
  <1>4. \E from, to, read :
            /\ from \in Steps
            /\ Goto(w, from, to, read)
            /\ to # "decision"
            /\ from = "decision" => to = "idle"
    <2>1. /\ Succeeded(w) # "decision" /\ GivenUp(w) # "decision"
          /\ at[w] = "decision" => Succeeded(w) = "idle" /\ GivenUp(w) = "idle"
      BY DEF Succeeded, GivenUp
    <2> QED
      BY <2>1 DEF Persist, InsertDecisionLog, InsertTrade, InsertExecutionLog,
                  ReadPosition, WritePosition, GiveUp, Goto, Steps, TypeInv, TypeOK
  <1>5. PICK from, to, read :
            /\ from \in Steps
            /\ Goto(w, from, to, read)
            /\ to # "decision"
            /\ from = "decision" => to = "idle"
    BY <1>4
  <1>6. from # "idle"
    BY <1>5 DEF Steps
  <1>7. \A x \in Writers : JobKnown(x)'
    BY <1>2, <1>5, <1>6, GotoKnown
  <1> QED
    BY <1>1, <1>3, <1>7, KnownParts DEF TypeInv, Known

\* An event is handed over with its status known.
LEMMA EnqueueKnown ==
    ASSUME TypeInv, StatusKept, NEW e \in Execs, NEW v \in Events, Enqueue(e, v),
           v.type = "result" => status'[v.exec] # "none"
    PROVE  QueueKnown' /\ \A x \in Writers : JobKnown(x)'
  <1>1. QueueKnown'
    BY QueueKept DEF Enqueue
  <1>2. \A x \in Writers : JobKnown(x)'
    BY JobsKept, BeginKnown, EventFacts DEF Enqueue
  <1> QED
    BY <1>1, <1>2

\* Known, after every step.
LEMMA KnownStep ==
    ASSUME TypeInv, [Next]_vars
    PROVE  Known'
  <1> USE DEF execVars, confirmVars
  <1>0. /\ \A e \in Execs : pc[e] \in {"new", "swap"} => confirm[e] = "none"
        /\ \A e \in Execs : pc[e] = "record" => status[e] # "none"
        /\ \A e \in Execs : confirm[e] # "none" => status[e] = "submitted"
    BY DEF TypeInv, Known
  <1>1. CASE Pop
    <2>1. StatusKept /\ UNCHANGED <<pc, status, confirm>>
      BY <1>1 DEF Pop, StatusKept
    <2>2. QueueKnown'
      BY <1>1, <2>1, QueueKept DEF Pop
    <2>3. /\ Head(queue) \in Events
          /\ Head(queue).type = "result" => status[Head(queue).exec] # "none"
      BY <1>1, Shortened DEF Pop, TypeInv, TypeOK, Known
    <2>4. \A x \in Writers : JobKnown(x)'
      BY <1>1, <2>1, <2>3, BeginKnown, EventFacts DEF Pop, TypeInv, TypeOK
    <2> QED
      BY <1>0, <2>1, <2>2, <2>4, KnownParts
  <1>2. CASE PopLost
    <2>1. StatusKept /\ UNCHANGED <<pc, status, confirm, jobVars>>
      BY <1>2 DEF PopLost, StatusKept
    <2>2. QueueKnown'
      BY <1>2, <2>1, QueueKept DEF PopLost
    <2> QED
      BY <1>0, <2>1, <2>2, JobsKept, KnownParts
  <1>3. ASSUME NEW e \in Execs, Decide(e)  PROVE Known'
    <2>1. StatusKept
      BY <1>3 DEF Decide, StatusKept, TypeInv, TypeOK
    <2>2. QueueKnown' /\ \A x \in Writers : JobKnown(x)'
      BY <1>3, <2>1, EnqueueKnown, EventFacts DEF Decide, Decision
    <2>3. UNCHANGED confirm /\ confirm[e] = "none"
      BY <1>0, <1>3 DEF Decide
    <2>4. /\ \A x \in Execs \ {e} : pc'[x] = pc[x] /\ status'[x] = status[x]
          /\ pc'[e] = "record" => status'[e] # "none"
      BY <1>3 DEF Decide, TypeInv, TypeOK
    <2> QED
      BY <1>0, <2>2, <2>3, <2>4, KnownParts
  <1>4. ASSUME NEW e \in Execs, Outcome(e)  PROVE Known'
    <2>1. StatusKept /\ UNCHANGED <<queue, jobVars>>
      BY <1>4 DEF Outcome, StatusKept, TypeInv, TypeOK
    <2>2. confirm[e] = "none"
      BY <1>0, <1>4 DEF Outcome
    <2>3. /\ \A x \in Execs \ {e} : UNCHANGED <<pc[x], status[x], confirm[x]>>
          /\ pc'[e] \in {"record", "done"}
          /\ pc'[e] = "record" => status'[e] # "none"
          /\ confirm'[e] # "none" => status'[e] = "submitted"
      BY <1>4, <2>2 DEF Outcome, TypeInv, TypeOK
    <2>4. QueueKnown' /\ \A x \in Writers : JobKnown(x)'
      BY <2>1, QueueKept, JobsKept
    <2>5. /\ \A x \in Execs : pc'[x] \in {"new", "swap"} => confirm'[x] = "none"
          /\ \A x \in Execs : pc'[x] = "record" => status'[x] # "none"
          /\ \A x \in Execs : confirm'[x] # "none" => status'[x] = "submitted"
      BY <1>0, <2>3
    <2> QED
      BY <2>4, <2>5, KnownParts
  <1>5. ASSUME NEW e \in Execs, Record(e)  PROVE Known'
    <2>1. StatusKept /\ UNCHANGED <<status, confirm>>
      BY <1>5 DEF Record, StatusKept
    <2>2. Result(e) \in Events /\ status'[Result(e).exec] # "none"
      BY <1>0, <1>5, <2>1, EventFacts DEF Record, Result
    <2>3. QueueKnown' /\ \A x \in Writers : JobKnown(x)'
      BY <1>5, <2>1, <2>2, EnqueueKnown DEF Record
    <2>4. \A x \in Execs : pc'[x] = pc[x] \/ pc'[x] = "done"
      BY <1>5 DEF Record, TypeInv, TypeOK
    <2> QED
      BY <1>0, <2>1, <2>3, <2>4, KnownParts
  <1>6. ASSUME NEW e \in Execs, Confirm(e)  PROVE Known'
    <2>1. StatusKept /\ UNCHANGED <<pc, status, queue, jobVars>>
      BY <1>6 DEF Confirm, Receipt, UpdateTradeStatus, LogFinal, ConfirmGivesUp, StatusKept
    <2>2. confirm[e] # "none" /\ \A x \in Execs \ {e} : confirm'[x] = confirm[x]
      BY <1>6 DEF Confirm, Receipt, UpdateTradeStatus, LogFinal, ConfirmGivesUp,
                  TypeInv, TypeOK
    <2> QED
      BY <1>0, <2>1, <2>2, QueueKept, JobsKept, KnownParts
  <1>7. CASE Crash
    <2>1. StatusKept /\ UNCHANGED <<status, queue>>
      BY <1>7 DEF Crash, StatusKept
    <2>2. \A x \in Writers : JobKnown(x)'
      BY <1>7 DEF Crash, JobKnown
    <2>3. /\ \A e \in Execs : pc'[e] \in {"new", "done", "dead"}
          /\ \A e \in Execs : pc'[e] = "new" => pc[e] = "new"
          /\ \A e \in Execs : confirm'[e] # "none" <=> confirm[e] # "none"
      BY <1>7 DEF Crash, TypeInv, TypeOK
    <2> QED
      BY <1>0, <2>1, <2>2, <2>3, QueueKept, KnownParts
  <1>8. CASE UNCHANGED vars
    <2>1. StatusKept /\ UNCHANGED <<pc, status, confirm, queue, jobVars>>
      BY <1>8 DEF vars, StatusKept
    <2> QED
      BY <1>0, <2>1, QueueKept, JobsKept, KnownParts
  <1> QED
    BY <1>1, <1>2, <1>3, <1>4, <1>5, <1>6, <1>7, <1>8, PersistKnown DEF Next, Execute

\* The inductive invariant of the types holds initially,
LEMMA TypeInvInit == Init => TypeInv
  <1> SUFFICES ASSUME Init  PROVE TypeInv
    OBVIOUS
  <1>1. << >> \in Seq(Events) /\ DOMAIN << >> = {}
    OBVIOUS
  <1>2. /\ << >> \in Seq({"skipped", "submitted", "failed", "final"})
        /\ << >> \in Seq({"skipped", "submitted", "failed"})
    OBVIOUS
  <1>3. TypeOK
    BY <1>1, <1>2, EventFacts DEF Init, TypeOK
  <1>4. Known
    BY <1>1 DEF Init, Known
  <1> QED
    BY <1>3, <1>4 DEF TypeInv

\* and every step keeps it.
LEMMA TypeInvNext ==
    ASSUME TypeInv, [Next]_vars
    PROVE  TypeInv'
  BY TypeStep, KnownStep DEF TypeInv

\* The variables of AuditTrail keep their types (async_audit.go, service.go): above
\* all, no result is recorded before its status is known.
THEOREM TypeCorrect == Spec => []TypeOK
  <1>1. TypeInv => TypeOK
    BY DEF TypeInv
  <1> QED
    BY <1>1, TypeInvInit, TypeInvNext, PTL DEF Spec

-----------------------------------------------------------------------------
(* The two tables of trades.                                               *)

\* What the rows of an execution are: its status, but for those of trades that the
\* confirmation has overwritten.
RowsMatch(e) ==
    /\ pc[e] \in {"new", "swap"} => status[e] = "none"
    /\ status[e] = "none" => trades[e] = << >> /\ accounts[e] = << >>
    /\ Len(trades[e]) = Len(accounts[e])
    /\ \A k \in DOMAIN accounts[e] : accounts[e][k] = status[e]
    /\ \A k \in DOMAIN trades[e] :
          trades[e][k] = status[e]
          \/ (trades[e][k] = "final" /\ receipt[e] /\ confirm[e] \in {"log", "done"})
    /\ receipt[e] => confirm[e] # "none"
    /\ confirm[e] \in {"update", "log"} => receipt[e]

TablesInv == \A e \in Execs : RowsMatch(e)

\* Nothing of an execution changes but the progress of its goroutines.
LEMMA RowsKept ==
    ASSUME NEW e \in Execs, RowsMatch(e),
           UNCHANGED <<status[e], trades[e], accounts[e], receipt[e]>>,
           pc'[e] \in {"new", "swap"} => pc[e] \in {"new", "swap"},
           confirm[e] = "none" => confirm'[e] = "none",
           confirm[e] # "none" => confirm'[e] # "none",
           confirm[e] \in {"log", "done"} => confirm'[e] \in {"log", "done"},
           confirm'[e] \in {"update", "log"} => confirm[e] \in {"update", "log"}
    PROVE  RowsMatch(e)'
  BY DEF RowsMatch

\* A result adds the same row to both tables, with the status of its execution.
LEMMA InsertRows ==
    ASSUME TypeInv, TablesInv, NEW w \in Writers, InsertTrade(w)
    PROVE  TablesInv'
  <1>1. PICK e \in Execs : e = job[w].exec
                          /\ status[e] \in {"skipped", "submitted", "failed"}
    <2>1. at[w] = "trade"
      BY DEF InsertTrade, Goto
    <2>2. job[w].exec \in Execs
      BY EventFacts DEF TypeInv, TypeOK
    <2>3. status[job[w].exec] # "none"
      BY <2>1 DEF TypeInv, Known
    <2>4. status[job[w].exec] \in {"none", "skipped", "submitted", "failed"}
      BY <2>2 DEF TypeInv, TypeOK
    <2> QED
      BY <2>2, <2>3, <2>4
  <1>2. UNCHANGED <<pc, status, receipt, confirm>>
    BY DEF InsertTrade, execVars, confirmVars
  <1>3. \A x \in Execs \ {e} : UNCHANGED <<trades[x], accounts[x]>>
    BY <1>1 DEF InsertTrade, TypeInv, TypeOK
  <1>4. /\ trades'[e] = Append(trades[e], status[e])
        /\ accounts'[e] = Append(accounts[e], status[e])
    BY <1>1 DEF InsertTrade, TypeInv, TypeOK
  <1>5. /\ trades[e] \in Seq({"skipped", "submitted", "failed", "final"})
        /\ accounts[e] \in Seq({"skipped", "submitted", "failed"})
    BY <1>1 DEF TypeInv, TypeOK
  <1>6. Len(trades'[e]) = Len(accounts'[e])
    <2>1. Len(trades[e]) = Len(accounts[e])
      BY DEF TablesInv, RowsMatch
    <2>2. /\ Len(trades'[e]) = Len(trades[e]) + 1
          /\ Len(accounts'[e]) = Len(accounts[e]) + 1
      BY <1>1, <1>4, <1>5
    <2> QED
      BY <2>1, <2>2
  <1>7. /\ \A k \in DOMAIN trades'[e] :
              \/ k \in DOMAIN trades[e] /\ trades'[e][k] = trades[e][k]
              \/ trades'[e][k] = status[e]
        /\ \A k \in DOMAIN accounts'[e] :
              \/ k \in DOMAIN accounts[e] /\ accounts'[e][k] = accounts[e][k]
              \/ accounts'[e][k] = status[e]
    BY <1>1, <1>4, <1>5, Extended
  <1>8. RowsMatch(e)'
    <2>1. RowsMatch(e) /\ status[e] # "none"
      BY <1>1 DEF TablesInv
    <2>2. pc'[e] = pc[e] /\ status'[e] = status[e] /\ receipt'[e] = receipt[e]
          /\ confirm'[e] = confirm[e]
      BY <1>2
    <2>3. \A k \in DOMAIN accounts'[e] : accounts'[e][k] = status'[e]
      BY <1>7, <2>1, <2>2 DEF RowsMatch
    <2>4. ASSUME NEW k \in DOMAIN trades'[e], trades'[e][k] # status'[e]
          PROVE  trades'[e][k] = "final" /\ receipt'[e] /\ confirm'[e] \in {"log", "done"}
      <3>1. k \in DOMAIN trades[e] /\ trades'[e][k] = trades[e][k]
        BY <1>7, <2>2, <2>4
      <3>2. trades[e][k] = "final" /\ receipt[e] /\ confirm[e] \in {"log", "done"}
        BY <2>1, <2>2, <2>4, <3>1 DEF RowsMatch
      <3> QED
        BY <2>2, <3>1, <3>2
    <2>5. /\ pc'[e] \in {"new", "swap"} => status'[e] = "none"
          /\ receipt'[e] => confirm'[e] # "none"
          /\ confirm'[e] \in {"update", "log"} => receipt'[e]
      BY <2>1, <2>2 DEF RowsMatch
    <2>6. status'[e] # "none"
      BY <2>1, <2>2
    <2>7. \A k \in DOMAIN trades'[e] :
              trades'[e][k] = status'[e]
              \/ (trades'[e][k] = "final" /\ receipt'[e] /\ confirm'[e] \in {"log", "done"})
      BY <2>4
    <2> QED
      BY <1>6, <2>3, <2>5, <2>6, <2>7 DEF RowsMatch
  <1>9. ASSUME NEW x \in Execs \ {e}  PROVE RowsMatch(x)'
    BY <1>2, <1>3, RowsKept DEF TablesInv
  <1>10. \A x \in Execs : RowsMatch(x)'
    BY <1>8, <1>9
  <1> QED
    BY <1>10 DEF TablesInv

\* A confirmation overwrites the rows of trades alone, after its receipt.
LEMMA UpdateRows ==
    ASSUME TypeInv, TablesInv, NEW e \in Execs, UpdateTradeStatus(e)
    PROVE  TablesInv'
  <1>1. /\ UNCHANGED <<pc, status, accounts, receipt>>
        /\ confirm[e] = "update" /\ confirm'[e] = "log"
        /\ trades'[e] = [k \in DOMAIN trades[e] |-> "final"]
        /\ \A x \in Execs \ {e} : UNCHANGED <<trades[x], confirm[x]>>
    BY DEF UpdateTradeStatus, execVars, TypeInv, TypeOK
  <1>2. trades[e] \in Seq({"skipped", "submitted", "failed", "final"})
    BY DEF TypeInv, TypeOK
  <1>3. Len(trades'[e]) = Len(trades[e]) /\ trades[e] = << >> => trades'[e] = << >>
    BY <1>1, <1>2
  <1>4. \A k \in DOMAIN trades'[e] : trades'[e][k] = "final"
    BY <1>1
  <1>5. status[e] = "submitted" /\ receipt[e]
    BY <1>1 DEF TypeInv, Known, TablesInv, RowsMatch
  <1>6. RowsMatch(e) /\ Len(trades'[e]) = Len(trades[e])
    BY <1>1, <1>2 DEF TablesInv
  <1>7. RowsMatch(e)'
    BY <1>1, <1>4, <1>5, <1>6 DEF RowsMatch
  <1>8. ASSUME NEW x \in Execs \ {e}  PROVE RowsMatch(x)'
    BY <1>1, RowsKept DEF TablesInv
  <1> QED
    BY <1>7, <1>8 DEF TablesInv

\* Every step keeps what the rows are.
LEMMA TablesStep ==
    ASSUME TypeInv, TablesInv, [Next]_vars
    PROVE  TablesInv'
  <1> USE DEF execVars, confirmVars, tableVars
  <1>1. ASSUME UNCHANGED <<pc, status, confirm, receipt, trades, accounts>>
        PROVE  TablesInv'
    BY <1>1, RowsKept DEF TablesInv
  <1>2. ASSUME NEW w \in Writers, Persist(w)  PROVE TablesInv'
    BY <1>1, <1>2, InsertRows
    DEF Persist, InsertDecisionLog, InsertExecutionLog, ReadPosition, WritePosition, GiveUp
  <1>3. ASSUME NEW e \in Execs, Decide(e)  PROVE TablesInv'
    <2>1. /\ UNCHANGED <<confirm, receipt, trades, accounts>>
          /\ pc[e] = "new" /\ pc'[e] \in {"swap", "record"}
          /\ pc'[e] = "swap" => status'[e] = status[e]
          /\ status'[e] = "none" => status[e] = "none"
          /\ \A x \in Execs \ {e} : UNCHANGED <<pc[x], status[x]>>
      BY <1>3 DEF Decide, TypeInv, TypeOK
    <2>2. status[e] = "none" /\ trades[e] = << >> /\ accounts[e] = << >> /\ DOMAIN << >> = {}
      BY <2>1 DEF TablesInv, RowsMatch
    <2>3. RowsMatch(e)'
      BY <2>1, <2>2 DEF TablesInv, RowsMatch
    <2>4. ASSUME NEW x \in Execs \ {e}  PROVE RowsMatch(x)'
      BY <2>1, RowsKept DEF TablesInv
    <2> QED
      BY <2>3, <2>4 DEF TablesInv
  <1>4. ASSUME NEW e \in Execs, Outcome(e)  PROVE TablesInv'
    <2>1. /\ UNCHANGED <<receipt, trades, accounts>>
          /\ pc[e] = "swap" /\ pc'[e] \in {"record", "done"}
          /\ confirm'[e] \in {confirm[e], "waiting"}
          /\ \A x \in Execs \ {e} : UNCHANGED <<pc[x], status[x], confirm[x]>>
      BY <1>4 DEF Outcome, TypeInv, TypeOK
    <2>2. status[e] = "none" /\ trades[e] = << >> /\ accounts[e] = << >> /\ DOMAIN << >> = {}
      BY <2>1 DEF TablesInv, RowsMatch
    <2>3. confirm[e] = "none" /\ ~receipt[e]
      BY <2>1 DEF TypeInv, TypeOK, Known, TablesInv, RowsMatch
    <2>4. RowsMatch(e)'
      BY <2>1, <2>2, <2>3 DEF TablesInv, RowsMatch
    <2>5. ASSUME NEW x \in Execs \ {e}  PROVE RowsMatch(x)'
      BY <2>1, RowsKept DEF TablesInv
    <2> QED
      BY <2>4, <2>5 DEF TablesInv
  <1>5. ASSUME NEW e \in Execs, Record(e)  PROVE TablesInv'
    <2>1. /\ UNCHANGED <<status, confirm, receipt, trades, accounts>>
          /\ \A x \in Execs : pc'[x] = pc[x] \/ pc'[x] = "done"
      BY <1>5 DEF Record, TypeInv, TypeOK
    <2> QED
      BY <2>1, RowsKept DEF TablesInv
  <1>6. ASSUME NEW e \in Execs, Receipt(e)  PROVE TablesInv'
    <2>1. /\ UNCHANGED <<pc, status, trades, accounts>>
          /\ confirm[e] = "waiting"
          /\ \/ confirm'[e] = "update" /\ receipt'[e] = TRUE
             \/ confirm'[e] = "done" /\ receipt'[e] = receipt[e]
          /\ \A x \in Execs \ {e} : UNCHANGED <<confirm[x], receipt[x]>>
      BY <1>6 DEF Receipt, TypeInv, TypeOK
    <2>2. RowsMatch(e)'
      BY <2>1 DEF TablesInv, RowsMatch
    <2>3. ASSUME NEW x \in Execs \ {e}  PROVE RowsMatch(x)'
      BY <2>1, RowsKept DEF TablesInv
    <2> QED
      BY <2>2, <2>3 DEF TablesInv
  <1>7. ASSUME NEW e \in Execs, LogFinal(e) \/ ConfirmGivesUp(e)  PROVE TablesInv'
    <2>1. /\ UNCHANGED <<pc, status, trades, accounts, receipt>>
          /\ confirm[e] \in {"update", "log"} /\ confirm'[e] \in {"log", "done"}
          /\ \A x \in Execs \ {e} : UNCHANGED confirm[x]
      BY <1>7 DEF LogFinal, ConfirmGivesUp, TypeInv, TypeOK
    <2>2. \A x \in Execs : RowsMatch(x)'
      BY <2>1, RowsKept DEF TablesInv
    <2> QED
      BY <2>2 DEF TablesInv
  <1>8. CASE Crash
    <2>1. /\ UNCHANGED <<status, trades, accounts, receipt>>
          /\ \A x \in Execs : pc'[x] \in {"new", "swap"} => pc[x] \in {"new", "swap"}
          /\ \A x \in Execs : confirm'[x] = IF confirm[x] = "none" THEN "none" ELSE "done"
      BY <1>8 DEF Crash
    <2> QED
      BY <2>1, RowsKept DEF TablesInv
  <1> QED
    BY <1>1, <1>2, <1>3, <1>4, <1>5, <1>6, <1>7, <1>8, UpdateRows
    DEF Next, Execute, Confirm, Pop, PopLost, vars

\* A trade is in both tables or in neither, and only a confirmation that found a
\* receipt makes them disagree about its status (InsertTrade and
\* UpdateTradeStatus, db/sqlite.go), whatever fails and whoever writes.
THEOREM TablesAgree == Spec => []TablesTogether
  <1>1. Init => TablesInv
    <2>1. Len(<< >>) = 0 /\ DOMAIN << >> = {}
      OBVIOUS
    <2> QED
      BY <2>1 DEF Init, TablesInv, RowsMatch
  <1>2. TypeInv /\ TablesInv => TablesTogether
    <2> SUFFICES ASSUME TypeInv, TablesInv, NEW e \in Execs
                 PROVE  /\ Len(trades[e]) = Len(accounts[e])
                        /\ \A k \in DOMAIN trades[e] :
                              trades[e][k] # accounts[e][k] =>
                                  /\ accounts[e][k] = "submitted"
                                  /\ trades[e][k] = "final"
                                  /\ receipt[e]
                                  /\ confirm[e] \in {"log", "done"}
      BY DEF TablesTogether
    <2>1. RowsMatch(e)
      BY DEF TablesInv
    <2>2. DOMAIN trades[e] = DOMAIN accounts[e]
      <3>1. /\ trades[e] \in Seq({"skipped", "submitted", "failed", "final"})
            /\ accounts[e] \in Seq({"skipped", "submitted", "failed"})
        BY DEF TypeInv, TypeOK
      <3> QED
        BY <2>1, <3>1 DEF RowsMatch
    <2>3. receipt[e] => status[e] = "submitted"
      BY <2>1 DEF RowsMatch, TypeInv, Known
    <2> QED
      BY <2>1, <2>2, <2>3 DEF RowsMatch
  <1> QED
    BY <1>1, <1>2, TypeInvInit, TypeInvNext, TablesStep, PTL DEF Spec

-----------------------------------------------------------------------------
(* The bumps.                                                              *)

\* While no push has failed the consumer is the one writer, and what it has read
\* is still so when it writes.
OneWriter ==
    /\ \A e \in Execs : at[e] = "idle"
    /\ \A t \in Tokens : position[t] = bumps[t]
    /\ at[Consumer] \in {"writeBase", "writeQuote"} =>
          seen[Consumer] = position[Token(Consumer)]

BumpInv == Redis /\ pushErrors = 0 => OneWriter

\* A store call of the consumer, the only writer there is.
LEMMA ConsumerBumps ==
    ASSUME TypeInv, OneWriter, NEW w \in Writers, Persist(w)
    PROVE  OneWriter'
  <1> USE DEF positionVars
  <1>1. w = Consumer /\ Consumer \in Writers
    BY EventFacts DEF OneWriter, Persist, InsertDecisionLog, InsertTrade, InsertExecutionLog,
                      ReadPosition, WritePosition, GiveUp, Goto, Writers
  <1>2. \A from, to, read : Goto(w, from, to, read) =>
            /\ \A e \in Execs : at'[e] = "idle"
            /\ at'[w] = to
            /\ to # "idle" => job'[w] = job[w]
            /\ seen'[w] = read
    BY <1>1, ExecsAssumption DEF Goto, OneWriter, TypeInv, TypeOK, Writers
  <1>3. ASSUME NEW from, NEW to, NEW read, Goto(w, from, to, read),
               to \notin {"writeBase", "writeQuote"}, UNCHANGED positionVars
        PROVE  OneWriter'
    BY <1>1, <1>2, <1>3 DEF OneWriter
  <1>4. CASE InsertDecisionLog(w) \/ InsertTrade(w) \/ InsertExecutionLog(w)
    <2>1. PICK from \in {"decision", "trade", "log"} :
              Goto(w, from, Succeeded(w), 0) /\ UNCHANGED positionVars
      BY <1>4 DEF InsertDecisionLog, InsertTrade, InsertExecutionLog
    <2>2. at[w] = from
      BY <2>1 DEF Goto
    <2>3. Succeeded(w) \notin {"writeBase", "writeQuote"}
      BY <2>2 DEF Succeeded
    <2> QED
      BY <1>3, <2>1, <2>3
  <1>5. CASE ReadPosition(w)
    <2>1. /\ Goto(w, at[w], Succeeded(w), position[Token(w)])
          /\ UNCHANGED positionVars
          /\ at[w] \in {"readBase", "readQuote"}
      BY <1>5 DEF ReadPosition
    <2>2. /\ at[w] = "readBase" => Succeeded(w) = "writeBase"
          /\ at[w] = "readQuote" => Succeeded(w) = "writeQuote"
      BY DEF Succeeded
    <2>3. /\ \A e \in Execs : at'[e] = "idle"
          /\ at'[w] = Succeeded(w) /\ job'[w] = job[w]
          /\ seen'[w] = position[Token(w)]
      BY <1>2, <2>1, <2>2
    <2>4. Token(w)' = Token(w)
      BY <2>1, <2>2, <2>3 DEF Token
    <2> QED
      BY <1>1, <2>1, <2>3, <2>4 DEF OneWriter
  <1>6. CASE WritePosition(w)
    <2>1. /\ at[w] \in {"writeBase", "writeQuote"}
          /\ Goto(w, at[w], Succeeded(w), 0)
          /\ position' = [position EXCEPT ![Token(w)] = seen[w] + 1]
          /\ bumps' = [bumps EXCEPT ![Token(w)] = @ + 1]
      BY <1>6 DEF WritePosition
    <2>2. seen[w] = position[Token(w)]
      BY <1>1, <2>1 DEF OneWriter
    <2>3. \A t \in Tokens : position'[t] = bumps'[t]
      BY <2>1, <2>2 DEF OneWriter, TypeInv, TypeOK
    <2>4. Succeeded(w) \in {"readQuote", "idle"}
      BY <2>1 DEF Succeeded
    <2> QED
      BY <1>1, <1>2, <2>1, <2>3, <2>4 DEF OneWriter
  <1>7. CASE GiveUp(w)
    <2>1. Goto(w, at[w], GivenUp(w), 0) /\ UNCHANGED positionVars
      BY <1>7 DEF GiveUp
    <2>2. GivenUp(w) \notin {"writeBase", "writeQuote"}
      BY DEF GivenUp, Succeeded
    <2> QED
      BY <1>3, <2>1, <2>2
  <1> QED
    BY <1>4, <1>5, <1>6, <1>7 DEF Persist

\* Every step keeps the bumps; a writer takes an event up before its first store
\* call, which is no write of a position.
LEMMA BumpStep ==
    ASSUME TypeInv, BumpInv, [Next]_vars
    PROVE  BumpInv'
  <1> SUFFICES ASSUME Redis, pushErrors' = 0  PROVE OneWriter'
    BY DEF BumpInv
  <1> USE DEF positionVars, jobVars, faultVars
  <1>0. pushErrors = 0 => OneWriter
    BY DEF BumpInv
  <1>1. ASSUME OneWriter, UNCHANGED <<jobVars, positionVars>>  PROVE OneWriter'
    BY <1>1 DEF OneWriter, Token
  <1>2. CASE Pop
    <2>1. OneWriter
      BY <1>0, <1>2 DEF Pop
    <2>2. /\ \A e \in Execs : at'[e] = at[e]
          /\ at'[Consumer] \in {"decision", "trade"}
          /\ UNCHANGED positionVars
      BY <1>2, EventFacts, ExecsAssumption DEF Pop, Begin, TypeInv, TypeOK, Writers
    <2> QED
      BY <2>1, <2>2 DEF OneWriter
  <1>3. ASSUME NEW w \in Writers, Persist(w)  PROVE OneWriter'
    <2>1. pushErrors = 0
      BY <1>3 DEF Persist, InsertDecisionLog, InsertTrade, InsertExecutionLog,
                  ReadPosition, WritePosition, GiveUp
    <2> QED
      BY <1>0, <1>3, <2>1, ConsumerBumps
  <1>4. ASSUME NEW e \in Execs, NEW v, Enqueue(e, v), UNCHANGED positionVars
        PROVE  OneWriter'
    <2>1. UNCHANGED <<jobVars, pushErrors>>
      BY <1>4 DEF Enqueue, TypeInv, TypeOK
    <2> QED
      BY <1>0, <1>1, <1>4, <2>1
  <1>5. ASSUME NEW e \in Execs, Outcome(e) \/ Confirm(e)  PROVE OneWriter'
    BY <1>0, <1>1, <1>5
    DEF Outcome, Confirm, Receipt, UpdateTradeStatus, LogFinal, ConfirmGivesUp
  <1>6. CASE Crash
    BY <1>0, <1>6, EventFacts DEF Crash, OneWriter, Writers
  <1>7. CASE PopLost \/ UNCHANGED vars
    BY <1>0, <1>1, <1>7 DEF PopLost, vars
  <1> QED
    BY <1>2, <1>3, <1>4, <1>5, <1>6, <1>7 DEF Next, Execute, Decide, Record

\* No bump of a position is lost while every event goes through the list
\* (bumpPosition reads and writes in separate calls; auditConsumerLoop is the one
\* writer), whatever else fails and however often the process restarts.
THEOREM BumpsKept == Spec => []NoLostBump
  <1>1. Init => BumpInv
    BY EventFacts DEF Init, BumpInv, OneWriter, Writers
  <1>2. BumpInv => NoLostBump
    BY DEF BumpInv, OneWriter, NoLostBump
  <1> QED
    BY <1>1, <1>2, TypeInvInit, TypeInvNext, BumpStep, PTL DEF Spec

-----------------------------------------------------------------------------
(* The copies of an event that are under way.                              *)

\* The places of an event on a list.
Places(s, v) == {k \in DOMAIN s : s[k] = v}

\* A list has finitely many of them; the empty one has none.
LEMMA PlacesFinite ==
    ASSUME NEW s \in Seq(Events), NEW v
    PROVE  /\ IsFiniteSet(Places(s, v)) /\ Cardinality(Places(s, v)) \in Nat
           /\ Cardinality(Places(s, v)) = 0 <=> \A k \in DOMAIN s : s[k] # v
  <1>1. DOMAIN s = 1..Len(s) /\ Len(s) \in Nat
    OBVIOUS
  <1>2. IsFiniteSet(1..Len(s))
    BY <1>1, FS_Interval
  <1>3. Places(s, v) \subseteq 1..Len(s)
    BY <1>1 DEF Places
  <1>4. IsFiniteSet(Places(s, v))
    BY <1>2, <1>3, FS_Subset
  <1>5. Cardinality(Places(s, v)) \in Nat
    BY <1>4, FS_CardinalityType
  <1>6. Cardinality(Places(s, v)) = 0 <=> Places(s, v) = {}
    BY <1>4, FS_EmptySet
  <1> QED
    BY <1>4, <1>5, <1>6 DEF Places

\* An event that is pushed has one place more.
LEMMA PlacesPush ==
    ASSUME NEW s \in Seq(Events), NEW x \in Events, NEW v
    PROVE  Cardinality(Places(Append(s, x), v))
             = Cardinality(Places(s, v)) + (IF x = v THEN 1 ELSE 0)
  <1> DEFINE t == Append(s, x)
             n == Len(s) + 1
  <1>1. /\ DOMAIN t = DOMAIN s \cup {n}
        /\ \A k \in DOMAIN s : t[k] = s[k]
        /\ t[n] = x
        /\ n \notin DOMAIN s
    <2>1. DOMAIN s = 1..Len(s) /\ Len(s) \in Nat
      OBVIOUS
    <2> QED
      BY <2>1, Extended
  <1>2. IsFiniteSet(Places(s, v)) /\ Cardinality(Places(s, v)) \in Nat
    BY PlacesFinite
  <1> HIDE DEF t, n
  <1>3. CASE x = v
    <2>1. Places(t, v) = Places(s, v) \cup {n} /\ n \notin Places(s, v)
      BY <1>1, <1>3 DEF Places
    <2>2. Cardinality(Places(t, v)) = Cardinality(Places(s, v)) + 1
      BY <1>2, <2>1, FS_AddElement
    <2> QED
      BY <1>3, <2>2 DEF t
  <1>4. CASE x # v
    <2>1. Places(t, v) = Places(s, v)
      BY <1>1, <1>4 DEF Places
    <2> QED
      BY <1>2, <1>4, <2>1 DEF t
  <1> QED
    BY <1>3, <1>4

\* An event that is taken off has one place less.
LEMMA PlacesPop ==
    ASSUME NEW s \in Seq(Events), s # << >>, NEW v
    PROVE  Cardinality(Places(Tail(s), v))
             = Cardinality(Places(s, v)) - (IF Head(s) = v THEN 1 ELSE 0)
  <1> DEFINE t == Tail(s)
             P == Places(s, v) \ {1}
             f == [k \in Places(t, v) |-> k + 1]
  <1>1. /\ t \in Seq(Events) /\ Head(s) = s[1] /\ 1 \in DOMAIN s
        /\ \A k \in DOMAIN t : k \in Nat \ {0} /\ k + 1 \in DOMAIN s /\ t[k] = s[k + 1]
        /\ \A k \in DOMAIN s : k \in Nat /\ (k = 1 \/ k - 1 \in DOMAIN t)
    BY Shortened
  <1> HIDE DEF t
  <1>2. /\ IsFiniteSet(Places(s, v)) /\ Cardinality(Places(s, v)) \in Nat
        /\ IsFiniteSet(Places(t, v)) /\ Cardinality(Places(t, v)) \in Nat
    BY <1>1, PlacesFinite
  <1>3. /\ f \in [Places(t, v) -> P]
        /\ \A a, b \in Places(t, v) : f[a] = f[b] => a = b
        /\ \A b \in P : \E a \in Places(t, v) : f[a] = b
    <2>1. ASSUME NEW k \in Places(t, v)  PROVE f[k] \in P /\ k \in Nat /\ f[k] = k + 1
      BY <1>1 DEF Places
    <2>2. ASSUME NEW b \in P  PROVE b - 1 \in Places(t, v) /\ f[b - 1] = b
      <3>1. b \in Nat /\ b # 1 /\ b \in DOMAIN s /\ s[b] = v
        BY <1>1 DEF Places
      <3>2. b - 1 \in DOMAIN t /\ (b - 1) + 1 = b
        BY <1>1, <3>1
      <3>3. t[b - 1] = s[(b - 1) + 1]
        BY <1>1, <3>2
      <3>4. t[b - 1] = v
        BY <3>1, <3>2, <3>3
      <3> QED
        BY <3>2, <3>4 DEF Places
    <2>3. f \in [Places(t, v) -> P]
      BY <2>1
    <2>4. \A a, b \in Places(t, v) : f[a] = f[b] => a = b
      BY <2>1
    <2>5. \A b \in P : \E a \in Places(t, v) : f[a] = b
      BY <2>2
    <2> QED
      BY <2>3, <2>4, <2>5
  <1>4. f \in Bijection(Places(t, v), P)
    BY <1>3 DEF Bijection, Injection, IsInjective, Surjection
  <1>5. ExistsBijection(Places(t, v), P)
    BY <1>4 DEF ExistsBijection
  <1>6. Cardinality(P) = Cardinality(Places(t, v))
    BY <1>2, <1>5, FS_Bijection
  <1>7. Cardinality(P) = IF 1 \in Places(s, v) THEN Cardinality(Places(s, v)) - 1
                                               ELSE Cardinality(Places(s, v))
    BY <1>2, FS_RemoveElement
  <1>8. 1 \in Places(s, v) <=> Head(s) = v
    BY <1>1 DEF Places
  <1> HIDE DEF P
  <1> QED
    BY <1>2, <1>6, <1>7, <1>8 DEF t

\* A writer that has not come to the first row of its event.
Holds(w, v) == at[w] \in {"decision", "trade"} /\ job[w] = v

Held(w, v) == IF Holds(w, v) THEN 1 ELSE 0

\* An execution writes events of its own, and none before the first was issued.
Own == \A e \in Execs : at[e] # "idle" => job[e].exec = e /\ pc[e] # "new"

\* The copies of an event are on the list, with the consumer or with its execution.
Summed ==
    Own /\ queue \in Seq(Events) =>
        \A v \in Events :
            /\ Copies(v) = Cardinality(Places(queue, v)) + Held(Consumer, v) + Held(v.exec, v)
            /\ Cardinality(Places(queue, v)) \in Nat
            /\ Copies(v) \in Nat

\* That is so in every state.
LEMMA CopiesSum == Summed
  <1> SUFFICES ASSUME Own, queue \in Seq(Events), NEW v \in Events
               PROVE  /\ Copies(v) = Cardinality(Places(queue, v))
                                       + Held(Consumer, v) + Held(v.exec, v)
                      /\ Cardinality(Places(queue, v)) \in Nat
                      /\ Copies(v) \in Nat
    BY DEF Summed
  <1> DEFINE H == {w \in Writers : at[w] \in {"decision", "trade"} /\ job[w] = v}
  <1>1. v.exec \in Execs /\ v.exec # Consumer /\ Consumer \in Writers /\ v.exec \in Writers
    BY EventFacts, ExecsAssumption
  <1>2. ASSUME NEW w \in H  PROVE w = Consumer \/ w = v.exec
    BY <1>2 DEF Own, Writers
  <1>3. /\ Consumer \in H <=> Holds(Consumer, v)
        /\ v.exec \in H <=> Holds(v.exec, v)
    BY <1>1 DEF Holds
  <1> HIDE DEF H
  <1>4. Cardinality(H) = Held(Consumer, v) + Held(v.exec, v)
    <2>0. /\ IsFiniteSet({}) /\ Cardinality({}) = 0
          /\ \A x : IsFiniteSet({x}) /\ Cardinality({x}) = 1
      BY FS_EmptySet, FS_Singleton
    <2>1. CASE Holds(Consumer, v) /\ Holds(v.exec, v)
      <3>1. H = {Consumer} \cup {v.exec}
        BY <1>2, <1>3, <2>1
      <3>2. Cardinality({Consumer} \cup {v.exec}) = Cardinality({Consumer}) + 1
        BY <1>1, <2>0, FS_AddElement
      <3> QED
        BY <2>0, <2>1, <3>1, <3>2 DEF Held
    <2>2. CASE Holds(Consumer, v) /\ ~Holds(v.exec, v)
      <3>1. H = {Consumer}
        BY <1>2, <1>3, <2>2
      <3>2. Cardinality(H) = 1
        BY <2>0, <3>1, Zenon
      <3> QED
        BY <2>2, <3>2 DEF Held
    <2>3. CASE ~Holds(Consumer, v) /\ Holds(v.exec, v)
      <3>1. H = {v.exec}
        BY <1>2, <1>3, <2>3
      <3>2. Cardinality(H) = 1
        BY <2>0, <3>1, Zenon
      <3> QED
        BY <2>3, <3>2 DEF Held
    <2>4. CASE ~Holds(Consumer, v) /\ ~Holds(v.exec, v)
      <3>1. H = {}
        BY <1>2, <1>3, <2>4
      <3> QED
        BY <2>0, <2>4, <3>1 DEF Held
    <2> QED
      BY <2>1, <2>2, <2>3, <2>4
  <1>5. Copies(v) = Cardinality(Places(queue, v)) + Cardinality(H)
    BY DEF Copies, Places, H
  <1>6. Cardinality(Places(queue, v)) \in Nat
    BY PlacesFinite
  <1>7. Held(Consumer, v) \in Nat /\ Held(v.exec, v) \in Nat
    BY DEF Held
  <1> QED
    BY <1>4, <1>5, <1>6, <1>7

\* It is so in the next state, too.
LEMMA CopiesSumNext == Summed'
  BY CopiesSum, PTL

\* A writer that goes on from the first row of its event no longer holds it.
LEMMA GotoCopies ==
    ASSUME TypeInv, Own, NEW w \in Writers, NEW from, NEW to, NEW read,
           Goto(w, from, to, read), from # "idle", to \notin {"decision", "trade"},
           UNCHANGED <<pc, queue>>
    PROVE  /\ Own'
           /\ \A v \in Events : Copies(v)' = Copies(v) - Held(w, v)
           /\ \A x \in Writers, y \in Events : Holds(x, y)' => Holds(x, y)
  <1>1. /\ at[w] = from /\ at'[w] = to
        /\ to # "idle" => job'[w] = job[w]
        /\ \A x \in Writers \ {w} : at'[x] = at[x] /\ job'[x] = job[x]
    BY DEF Goto, TypeInv, TypeOK
  <1>2. Own'
    BY <1>1, EventFacts DEF Own
  <1>3. \A x \in Writers, v \in Events : Held(x, v)' = IF x = w THEN 0 ELSE Held(x, v)
    BY <1>1 DEF Held, Holds
  <1>4. queue \in Seq(Events) /\ queue' = queue
    BY DEF TypeInv, TypeOK
  <1>5. ASSUME NEW v \in Events  PROVE Copies(v)' = Copies(v) - Held(w, v)
    <2>1. v.exec \in Execs /\ v.exec # Consumer /\ Consumer \in Writers /\ v.exec \in Writers
      BY EventFacts, ExecsAssumption
    <2>2. w # Consumer /\ w # v.exec => Held(w, v) = 0
      BY DEF Own, Held, Holds, Writers
    <2>3. /\ Copies(v) = Cardinality(Places(queue, v)) + Held(Consumer, v) + Held(v.exec, v)
          /\ Copies(v)' = Cardinality(Places(queue, v)) + Held(Consumer, v)' + Held(v.exec, v)'
          /\ Cardinality(Places(queue, v)) \in Nat
      BY <1>2, <1>4, CopiesSum, CopiesSumNext DEF Summed
    <2>4. \A x \in Writers : Held(x, v) \in Nat
      BY DEF Held
    <2> QED
      BY <1>3, <2>1, <2>2, <2>3, <2>4
  <1>6. \A x \in Writers, y \in Events : Holds(x, y)' => Holds(x, y)
    BY <1>1 DEF Holds
  <1> QED
    BY <1>2, <1>5, <1>6

\* A writer that begins with an event holds it.
LEMMA BeginHeld ==
    ASSUME TypeInv, Own, NEW w \in Writers, NEW v \in Events, Begin(w, v), at[w] = "idle",
           w = Consumer \/ (w = v.exec /\ pc'[w] # "new"),
           \A e \in Execs : pc[e] # "new" => pc'[e] # "new"
    PROVE  /\ Own'
           /\ \A x \in Events :
                 Held(Consumer, x)' + Held(x.exec, x)'
                   = Held(Consumer, x) + Held(x.exec, x) + (IF x = v THEN 1 ELSE 0)
  <1>1. /\ job'[w] = v /\ at'[w] \in {"decision", "trade"}
        /\ \A x \in Writers \ {w} : at'[x] = at[x] /\ job'[x] = job[x]
    BY DEF Begin, TypeInv, TypeOK
  <1>2. Own'
    BY <1>1, EventFacts, ExecsAssumption DEF Own
  <1>3. \A x \in Events : /\ Held(w, x) = 0
                          /\ Held(w, x)' = IF x = v THEN 1 ELSE 0
                          /\ \A y \in Writers \ {w} : Held(y, x)' = Held(y, x)
    BY <1>1 DEF Held, Holds
  <1>4. ASSUME NEW x \in Events
        PROVE  Held(Consumer, x)' + Held(x.exec, x)'
                 = Held(Consumer, x) + Held(x.exec, x) + (IF x = v THEN 1 ELSE 0)
    <2>1. x.exec \in Execs /\ x.exec # Consumer /\ Consumer \in Writers /\ x.exec \in Writers
      BY EventFacts, ExecsAssumption
    <2>2. \A y \in Writers : Held(y, x) \in Nat
      BY DEF Held
    <2> QED
      BY <1>3, <2>1, <2>2
  <1> QED
    BY <1>2, <1>4

\* The consumer takes the oldest event: there are as many copies of each as before.
LEMMA PopCopies ==
    ASSUME TypeInv, Own, Pop
    PROVE  /\ Own'
           /\ \A v \in Events : Copies(v)' = Copies(v)
  <1>1. /\ queue \in Seq(Events) /\ queue # << >> /\ Head(queue) \in Events
        /\ Tail(queue) \in Seq(Events)
        /\ queue' = Tail(queue) /\ pc' = pc
        /\ at[Consumer] = "idle" /\ Begin(Consumer, Head(queue))
    BY DEF Pop, TypeInv, TypeOK, execVars
  <1> DEFINE h == Head(queue)
  <1> HIDE DEF h
  <1>2. h \in Events /\ Begin(Consumer, h)
    BY <1>1 DEF h
  <1>3. /\ Own'
        /\ \A v \in Events :
              Held(Consumer, v)' + Held(v.exec, v)'
                = Held(Consumer, v) + Held(v.exec, v) + (IF v = h THEN 1 ELSE 0)
    BY <1>1, <1>2, BeginHeld, EventFacts
  <1>4. ASSUME NEW v \in Events  PROVE Copies(v)' = Copies(v)
    <2>1. /\ Copies(v) = Cardinality(Places(queue, v)) + Held(Consumer, v) + Held(v.exec, v)
          /\ Copies(v)' = Cardinality(Places(queue', v)) + Held(Consumer, v)' + Held(v.exec, v)'
          /\ Cardinality(Places(queue, v)) \in Nat /\ Cardinality(Places(queue', v)) \in Nat
      BY <1>1, <1>3, CopiesSum, CopiesSumNext DEF Summed
    <2>2. Cardinality(Places(queue', v))
            = Cardinality(Places(queue, v)) - (IF h = v THEN 1 ELSE 0)
      BY <1>1, PlacesPop DEF h
    <2>3. \A x \in Writers : Held(x, v) \in Nat /\ Held(x, v)' \in Nat
      BY DEF Held
    <2>4. Consumer \in Writers /\ v.exec \in Writers
      BY EventFacts
    <2> QED
      BY <1>3, <2>1, <2>2, <2>3, <2>4
  <1> QED
    BY <1>3, <1>4

\* An event that is handed over once has one copy more, or two when the push failed
\* after the server had taken it.
LEMMA EnqueueCopies ==
    ASSUME TypeInv, Own, NEW e \in Execs, NEW v \in Events, Enqueue(e, v),
           v.exec = e, at[e] = "idle", pc'[e] # "new",
           \A x \in Execs : pc[x] # "new" => pc'[x] # "new"
    PROVE  /\ Own'
           /\ \A x \in Events \ {v} : Copies(x)' = Copies(x)
           /\ pushErrors' = pushErrors => Copies(v)' = Copies(v) + 1
           /\ pushErrors' # pushErrors =>
                 /\ pushErrors' = pushErrors + 1
                 /\ Copies(v)' = Copies(v) + 1 \/ Copies(v)' = Copies(v) + 2
  <1>0. /\ queue \in Seq(Events) /\ Append(queue, v) \in Seq(Events) /\ pushErrors \in Nat
        /\ e \in Writers /\ e # Consumer
    BY EventFacts, ExecsAssumption DEF TypeInv, TypeOK
  <1>1. \/ Begin(e, v) /\ queue' = queue
        \/ Begin(e, v) /\ queue' = Append(queue, v) /\ pushErrors' = pushErrors + 1
        \/ UNCHANGED jobVars /\ queue' = Append(queue, v) /\ pushErrors' = pushErrors
    BY DEF Enqueue
  <1>2. queue' \in Seq(Events) /\ (pushErrors' = pushErrors \/ pushErrors' = pushErrors + 1)
    BY <1>0, <1>1 DEF Enqueue
  <1>3. ASSUME UNCHANGED jobVars  PROVE Own' /\ \A x \in Writers, y \in Events : Held(x, y)' = Held(x, y)
    BY <1>3 DEF jobVars, Own, Held, Holds
  <1>4. ASSUME Begin(e, v)
        PROVE  /\ Own'
               /\ \A x \in Events :
                     Held(Consumer, x)' + Held(x.exec, x)'
                       = Held(Consumer, x) + Held(x.exec, x) + (IF x = v THEN 1 ELSE 0)
    BY <1>0, <1>4, BeginHeld
  <1>5. Own'
    BY <1>1, <1>3, <1>4
  <1>6. \A x \in Events :
            /\ Copies(x) = Cardinality(Places(queue, x)) + Held(Consumer, x) + Held(x.exec, x)
            /\ Copies(x)' = Cardinality(Places(queue', x)) + Held(Consumer, x)' + Held(x.exec, x)'
            /\ Cardinality(Places(queue, x)) \in Nat
            /\ Cardinality(Places(queue', x)) \in Nat
            /\ Copies(x) \in Nat
    BY <1>0, <1>2, <1>5, CopiesSum, CopiesSumNext DEF Summed
  <1>7. \A x \in Events : Cardinality(Places(Append(queue, v), x))
                            = Cardinality(Places(queue, x)) + (IF v = x THEN 1 ELSE 0)
    BY <1>0, PlacesPush
  <1>8. \A x \in Events : /\ Held(Consumer, x) \in Nat /\ Held(Consumer, x)' \in Nat
                          /\ Held(x.exec, x) \in Nat /\ Held(x.exec, x)' \in Nat
                          /\ Consumer \in Writers /\ x.exec \in Writers
    BY EventFacts DEF Held
  <1>9. CASE Begin(e, v) /\ queue' = queue
    <2>1. \A x \in Events : Copies(x)' = Copies(x) + (IF x = v THEN 1 ELSE 0)
      BY <1>4, <1>6, <1>8, <1>9
    <2> QED
      BY <1>2, <1>5, <1>6, <2>1
  <1>10. CASE Begin(e, v) /\ queue' = Append(queue, v) /\ pushErrors' = pushErrors + 1
    <2>1. ASSUME NEW x \in Events
          PROVE  Copies(x)' = Copies(x) + (IF x = v THEN 2 ELSE 0)
      <3>1. Cardinality(Places(queue', x))
              = Cardinality(Places(queue, x)) + (IF v = x THEN 1 ELSE 0)
        BY <1>7, <1>10
      <3>2. Held(Consumer, x)' + Held(x.exec, x)'
              = Held(Consumer, x) + Held(x.exec, x) + (IF x = v THEN 1 ELSE 0)
        BY <1>4, <1>10
      <3> QED
        BY <1>6, <1>8, <3>1, <3>2
    <2> QED
      BY <1>0, <1>5, <1>6, <1>10, <2>1
  <1>11. CASE UNCHANGED jobVars /\ queue' = Append(queue, v) /\ pushErrors' = pushErrors
    <2>1. ASSUME NEW x \in Events
          PROVE  Copies(x)' = Copies(x) + (IF x = v THEN 1 ELSE 0)
      <3>1. Cardinality(Places(queue', x))
              = Cardinality(Places(queue, x)) + (IF v = x THEN 1 ELSE 0)
        BY <1>7, <1>11
      <3>2. Held(Consumer, x)' = Held(Consumer, x) /\ Held(x.exec, x)' = Held(x.exec, x)
        BY <1>3, <1>8, <1>11
      <3> QED
        BY <1>6, <1>8, <3>1, <3>2
    <2> QED
      BY <1>5, <1>6, <1>11, <2>1
  <1> QED
    BY <1>1, <1>9, <1>10, <1>11

\* A restart, a lost answer or a step that concerns neither the list nor a writer
\* adds no copy.
LEMMA FewerCopies ==
    ASSUME TypeInv, Own,
           \/ Crash
           \/ PopLost
           \/ UNCHANGED <<queue, job, at>> /\ \A e \in Execs : pc[e] # "new" => pc'[e] # "new"
    PROVE  /\ Own'
           /\ \A v \in Events : Copies(v)' <= Copies(v)
           /\ UNCHANGED <<queue, job, at>> => \A v \in Events : Copies(v)' = Copies(v)
           /\ \A x \in Writers, y \in Events : Holds(x, y)' => Holds(x, y)
  <1>0. queue \in Seq(Events) /\ (queue # << >> => Tail(queue) \in Seq(Events))
    BY DEF TypeInv, TypeOK
  <1>1. \/ queue' = queue
        \/ queue # << >> /\ queue' = Tail(queue)
    BY DEF Crash, PopLost
  <1>2. /\ Own' /\ \A x \in Writers, v \in Events : Held(x, v)' = Held(x, v) \/ Held(x, v)' = 0
        /\ UNCHANGED <<job, at>> => \A x \in Writers, v \in Events : Held(x, v)' = Held(x, v)
    BY EventFacts DEF Crash, PopLost, jobVars, execVars, Own, Held, Holds
  <1>3. ASSUME NEW v \in Events
        PROVE  /\ Copies(v)' <= Copies(v)
               /\ UNCHANGED <<queue, job, at>> => Copies(v)' = Copies(v)
    <2>1. /\ Copies(v) = Cardinality(Places(queue, v)) + Held(Consumer, v) + Held(v.exec, v)
          /\ Copies(v)' = Cardinality(Places(queue', v)) + Held(Consumer, v)' + Held(v.exec, v)'
          /\ Cardinality(Places(queue, v)) \in Nat /\ Cardinality(Places(queue', v)) \in Nat
      BY <1>0, <1>1, <1>2, CopiesSum, CopiesSumNext DEF Summed
    <2>2. Cardinality(Places(queue', v)) <= Cardinality(Places(queue, v))
      <3>1. CASE queue' = queue
        BY <2>1, <3>1
      <3>2. CASE queue # << >> /\ queue' = Tail(queue)
        <4>1. Cardinality(Places(queue', v))
                = Cardinality(Places(queue, v)) - (IF Head(queue) = v THEN 1 ELSE 0)
          BY <1>0, <3>2, PlacesPop
        <4> QED
          BY <2>1, <4>1
      <3> QED
        BY <1>1, <3>1, <3>2
    <2>3. \A x \in Writers : Held(x, v) \in Nat /\ Held(x, v)' \in Nat
      BY DEF Held
    <2>4. Consumer \in Writers /\ v.exec \in Writers
      BY EventFacts
    <2> QED
      BY <1>2, <2>1, <2>2, <2>3, <2>4
  <1>4. \A x \in Writers, y \in Events : Holds(x, y)' => Holds(x, y)
    BY DEF Crash, PopLost, jobVars, Holds
  <1> QED
    BY <1>2, <1>3, <1>4

-----------------------------------------------------------------------------
(* The audit trail implements the abstract one.                            *)

\* At most two copies of an event are under way, and none before it was issued.
FewCopies ==
    \A v \in Events : Copies(v) <= 2 /\ (v \notin Issued => Copies(v) = 0)

AuditInv == TypeInv /\ TablesInv /\ Own /\ FewCopies

\* The events issued depend on the progress of the executions.
LEMMA IssuedKept ==
    ASSUME \A e \in Execs : pc'[e] = "new" <=> pc[e] = "new",
           \A e \in Execs : pc'[e] = "done" /\ status'[e] # "none"
                              <=> pc[e] = "done" /\ status[e] # "none"
    PROVE  Issued' = Issued
  BY EventFacts DEF Issued

\* The rows depend on the tables.
LEMMA RowsSame ==
    ASSUME UNCHANGED decisions, \A e \in Execs : Len(trades'[e]) = Len(trades[e])
    PROVE  \A v \in Events : Rows(v)' = Rows(v)
  BY EventFacts DEF Rows

\* Steps that neither issue an event nor write its first row leave all that alone or
\* take copies away.
LEMMA QuietStep ==
    ASSUME AuditInv,
           \/ Pop \/ PopLost \/ Crash
           \/ \E w \in Writers : InsertExecutionLog(w) \/ ReadPosition(w) \/ WritePosition(w)
                                 \/ GiveUp(w)
           \/ \E e \in Execs : Outcome(e) \/ Confirm(e)
           \/ UNCHANGED vars
    PROVE  /\ Own' /\ Issued' = Issued
           /\ \A v \in Events : Rows(v)' = Rows(v) /\ Copies(v)' <= Copies(v)
           /\ ~(PopLost \/ Crash \/ \E w \in Writers : GiveUp(w)) =>
                 \A v \in Events : Copies(v)' = Copies(v)
           /\ ~Pop => \A x \in Writers, y \in Events : Holds(x, y)' => Holds(x, y)
  <1> USE DEF AuditInv, execVars, tableVars, jobVars
  <1>0. \A v \in Events : Copies(v) \in Nat /\ \A w \in Writers : Held(w, v) \in Nat
    BY CopiesSum DEF Summed, TypeInv, TypeOK, Held
  <1>1. CASE Pop
    <2>1. UNCHANGED <<pc, status, decisions, trades>>
      BY <1>1 DEF Pop
    <2> QED
      BY <1>0, <1>1, <2>1, PopCopies, IssuedKept, RowsSame
  <1>2. CASE PopLost
    <2>1. UNCHANGED <<pc, status, decisions, trades>>
      BY <1>2 DEF PopLost
    <2> QED
      BY <1>2, <2>1, FewerCopies, IssuedKept, RowsSame
  <1>3. CASE Crash
    <2>1. UNCHANGED <<status, decisions, trades>>
          /\ \A e \in Execs : pc'[e] = IF pc[e] \in {"new", "done"} THEN pc[e] ELSE "dead"
      BY <1>3 DEF Crash
    <2> QED
      BY <1>3, <2>1, FewerCopies, IssuedKept, RowsSame
  <1>4. ASSUME NEW w \in Writers,
               InsertExecutionLog(w) \/ ReadPosition(w) \/ WritePosition(w) \/ GiveUp(w)
        PROVE  /\ Own' /\ Issued' = Issued
               /\ \A v \in Events : Rows(v)' = Rows(v) /\ Copies(v)' = Copies(v) - Held(w, v)
               /\ ~GiveUp(w) => \A v \in Events : Held(w, v) = 0
               /\ \A x \in Writers, y \in Events : Holds(x, y)' => Holds(x, y)
    <2>1. UNCHANGED <<pc, status, decisions, trades, queue>>
      BY <1>4 DEF InsertExecutionLog, ReadPosition, WritePosition, GiveUp
    <2>2. PICK from, to, read : Goto(w, from, to, read) /\ from # "idle"
                                /\ to \notin {"decision", "trade"}
      BY <1>4 DEF InsertExecutionLog, ReadPosition, WritePosition, GiveUp, Succeeded, GivenUp
    <2>3. ~GiveUp(w) => at[w] \notin {"decision", "trade"}
      BY <1>4 DEF InsertExecutionLog, ReadPosition, WritePosition, Goto
    <2>4. ~GiveUp(w) => \A v \in Events : Held(w, v) = 0
      BY <2>3 DEF Held, Holds
    <2> QED
      BY <2>1, <2>2, <2>4, GotoCopies, IssuedKept, RowsSame
  <1>5. ASSUME NEW e \in Execs, Outcome(e) \/ Confirm(e)
        PROVE  /\ Own' /\ Issued' = Issued
               /\ \A v \in Events : Rows(v)' = Rows(v) /\ Copies(v)' = Copies(v)
               /\ \A x \in Writers, y \in Events : Holds(x, y)' => Holds(x, y)
    <2>1. UNCHANGED <<queue, job, at, decisions>>
      BY <1>5 DEF Outcome, Confirm, Receipt, UpdateTradeStatus, LogFinal, ConfirmGivesUp
    <2>2. CASE Outcome(e)
      <3>1. /\ pc[e] = "swap" /\ status[e] = "none"
            /\ pc'[e] \in {"record", "done"}
            /\ pc'[e] = "done" => status'[e] = "none"
            /\ \A x \in Execs \ {e} : UNCHANGED <<pc[x], status[x]>>
            /\ UNCHANGED trades
        BY <2>2 DEF Outcome, TablesInv, RowsMatch, TypeInv, TypeOK
      <3> QED
        BY <2>1, <3>1, FewerCopies, IssuedKept, RowsSame
    <2>3. CASE Confirm(e)
      <3>1. UNCHANGED <<pc, status>>
        BY <2>3 DEF Confirm, Receipt, UpdateTradeStatus, LogFinal, ConfirmGivesUp
      <3>2. \A x \in Execs : Len(trades'[x]) = Len(trades[x])
        <4>1. CASE UpdateTradeStatus(e)
          <5>1. /\ trades'[e] = [k \in DOMAIN trades[e] |-> "final"]
                /\ trades[e] \in Seq({"skipped", "submitted", "failed", "final"})
                /\ \A x \in Execs \ {e} : trades'[x] = trades[x]
            BY <4>1 DEF UpdateTradeStatus, TypeInv, TypeOK
          <5>2. Len(trades'[e]) = Len(trades[e])
            BY <5>1
          <5> QED
            BY <5>1, <5>2
        <4>2. CASE UNCHANGED trades
          BY <4>2
        <4> QED
          BY <2>3, <4>1, <4>2 DEF Confirm, Receipt, LogFinal, ConfirmGivesUp
      <3> QED
        BY <2>1, <3>1, <3>2, FewerCopies, IssuedKept, RowsSame
    <2> QED
      BY <1>5, <2>2, <2>3
  <1>6. CASE UNCHANGED vars
    <2>1. UNCHANGED <<pc, status, decisions, trades, queue, job, at>>
      BY <1>6 DEF vars
    <2> QED
      BY <1>0, <2>1, FewerCopies, IssuedKept, RowsSame
  <1>7. CASE \E w \in Writers : InsertExecutionLog(w) \/ ReadPosition(w) \/ WritePosition(w)
                                \/ GiveUp(w)
    <2>1. PICK w \in Writers : InsertExecutionLog(w) \/ ReadPosition(w) \/ WritePosition(w)
                               \/ GiveUp(w)
      BY <1>7
    <2> QED
      BY <1>0, <1>4, <2>1
  <1>8. CASE \E e \in Execs : Outcome(e) \/ Confirm(e)
    BY <1>0, <1>5, <1>8
  <1> QED
    BY <1>1, <1>2, <1>3, <1>6, <1>7, <1>8

\* The first row of an event takes one copy of it.
LEMMA WriteStep ==
    ASSUME AuditInv, NEW w \in Writers, InsertDecisionLog(w) \/ InsertTrade(w)
    PROVE  \E v \in Events :
              /\ Holds(w, v) /\ Copies(v) > 0
              /\ Own' /\ Issued' = Issued
              /\ \A x \in Events :
                    /\ Copies(x)' = IF x = v THEN Copies(x) - 1 ELSE Copies(x)
                    /\ Rows(x)' = IF x = v THEN Rows(x) + 1 ELSE Rows(x)
              /\ \A x \in Writers, y \in Events : Holds(x, y)' => Holds(x, y)
  <1> USE DEF AuditInv, execVars
  <1> DEFINE v == job[w]
             e == v.exec
  <1>1. /\ v \in Events /\ e \in Execs
        /\ at[w] = IF InsertDecisionLog(w) THEN "decision" ELSE "trade"
        /\ v.type = IF InsertDecisionLog(w) THEN "decision" ELSE "result"
    BY EventFacts DEF InsertDecisionLog, InsertTrade, Goto, TypeInv, TypeOK, Known
  <1>2. Holds(w, v) /\ \A x \in Events : Held(w, x) = IF x = v THEN 1 ELSE 0
    BY <1>1 DEF Holds, Held
  <1>3. UNCHANGED <<pc, status, queue>>
    BY DEF InsertDecisionLog, InsertTrade
  <1>4. PICK from, to, read : Goto(w, from, to, read) /\ from # "idle"
                              /\ to \notin {"decision", "trade"}
    <2>1. Goto(w, at[w], Succeeded(w), 0)
      BY DEF InsertDecisionLog, InsertTrade, Goto
    <2>2. at[w] # "idle" /\ Succeeded(w) \notin {"decision", "trade"}
      BY <1>1 DEF Succeeded
    <2> QED
      BY <2>1, <2>2
  <1>5. /\ Own'
        /\ \A x \in Events : Copies(x)' = Copies(x) - Held(w, x)
        /\ \A x \in Writers, y \in Events : Holds(x, y)' => Holds(x, y)
    BY <1>3, <1>4, GotoCopies
  <1>6. Issued' = Issued
    BY <1>3, IssuedKept
  <1>7. \A x \in Events : Copies(x) \in Nat
    BY CopiesSum DEF Summed, TypeInv, TypeOK
  <1>8. Copies(v) > 0
    <2>1. w = Consumer \/ w = e
      BY <1>1 DEF Own, Writers
    <2>2. /\ Copies(v) = Cardinality(Places(queue, v)) + Held(Consumer, v) + Held(e, v)
          /\ Cardinality(Places(queue, v)) \in Nat
      BY <1>1, CopiesSum DEF Summed, TypeInv, TypeOK
    <2>3. Held(Consumer, v) \in Nat /\ Held(e, v) \in Nat
      BY DEF Held
    <2> HIDE DEF v, e
    <2> QED
      BY <1>1, <1>2, <2>1, <2>2, <2>3
  <1>9. \A x \in Events : Rows(x)' = IF x = v THEN Rows(x) + 1 ELSE Rows(x)
    <2>1. CASE InsertDecisionLog(w)
      <3>1. /\ UNCHANGED trades /\ decisions'[e] = decisions[e] + 1
            /\ \A y \in Execs \ {e} : decisions'[y] = decisions[y]
        BY <1>1, <2>1 DEF InsertDecisionLog, TypeInv, TypeOK
      <3>2. \A x \in Events : x.type = "decision" /\ x.exec = e <=> x = v
        BY <1>1, <2>1 DEF Events
      <3> HIDE DEF v, e
      <3> QED
        BY <1>1, <2>1, <3>1, <3>2, EventFacts DEF Rows
    <2>2. CASE InsertTrade(w)
      <3>1. /\ UNCHANGED decisions
            /\ trades'[e] = Append(trades[e], status[e])
            /\ trades[e] \in Seq({"skipped", "submitted", "failed", "final"})
            /\ \A y \in Execs \ {e} : trades'[y] = trades[y]
        BY <1>1, <2>2 DEF InsertTrade, TypeInv, TypeOK
      <3>2. Len(trades'[e]) = Len(trades[e]) + 1
        <4>1. status[e] \in {"skipped", "submitted", "failed", "final"}
          BY <1>1, <2>2 DEF InsertTrade, Goto, TypeInv, TypeOK, Known
        <4> HIDE DEF e
        <4> QED
          BY <3>1, <4>1
      <3>3. v.type = "result"
        BY <2>2, <1>1 DEF InsertTrade, Goto, TypeInv, Known
      <3>4. \A x \in Events : x.type = "result" /\ x.exec = e <=> x = v
        BY <1>1, <3>3 DEF Events
      <3> HIDE DEF v, e
      <3> QED
        BY <1>1, <3>1, <3>2, <3>3, <3>4, EventFacts DEF Rows
    <2> QED
      BY <2>1, <2>2
  <1>10. \A x \in Events : Copies(x)' = IF x = v THEN Copies(x) - 1 ELSE Copies(x)
    BY <1>2, <1>5, <1>7
  <1> QED
    BY <1>1, <1>2, <1>5, <1>6, <1>8, <1>9, <1>10

\* An execution issues an event of its own, once or, when the push fails, perhaps
\* twice.
LEMMA IssueStep ==
    ASSUME AuditInv, NEW e \in Execs, Decide(e) \/ Record(e)
    PROVE  \E v \in Events :
              /\ v = IF Decide(e) THEN Decision(e) ELSE Result(e)
              /\ Enqueue(e, v) /\ at[e] = "idle"
              /\ v \notin Issued /\ Copies(v) = 0
              /\ Own' /\ Issued' = Issued \cup {v}
              /\ \A x \in Events : Rows(x)' = Rows(x)
              /\ \A x \in Events \ {v} : Copies(x)' = Copies(x)
              /\ pushErrors' = pushErrors => Copies(v)' = 1
              /\ pushErrors' # pushErrors =>
                    pushErrors' = pushErrors + 1 /\ Copies(v)' \in 1..2
  <1> USE DEF AuditInv, tableVars
  <1>1. PICK v \in Events :
            /\ v = IF Decide(e) THEN Decision(e) ELSE Result(e)
            /\ v.exec = e /\ v.type = IF Decide(e) THEN "decision" ELSE "result"
    BY EventFacts DEF Decision, Result
  <1>2. Enqueue(e, v) /\ UNCHANGED <<decisions, trades>>
    BY <1>1 DEF Decide, Record
  <1>3. /\ pc[e] = IF Decide(e) THEN "new" ELSE "record"
        /\ pc'[e] \in IF Decide(e) THEN {"swap", "record"} ELSE {"done"}
        /\ \A x \in Execs \ {e} : UNCHANGED <<pc[x], status[x]>>
        /\ ~Decide(e) => status'[e] = status[e] /\ status[e] # "none"
    BY DEF Decide, Record, TypeInv, TypeOK, Known
  <1>4. at[e] = "idle"
    BY <1>3 DEF Own, Decide, Record
  <1>5. v \notin Issued
    BY <1>1, <1>3 DEF Issued
  <1>6. Issued' = Issued \cup {v}
    <2>1. \A x \in Events : x.exec = e /\ x.type = v.type <=> x = v
      BY <1>1 DEF Events
    <2> QED
      BY <1>1, <1>3, <2>1, EventFacts DEF Issued
  <1>7. \A x \in Events : Rows(x)' = Rows(x)
    BY <1>2, RowsSame
  <1>8. Copies(v) = 0
    BY <1>1, <1>5 DEF FewCopies
  <1>9. /\ Own'
        /\ \A x \in Events \ {v} : Copies(x)' = Copies(x)
        /\ pushErrors' = pushErrors => Copies(v)' = Copies(v) + 1
        /\ pushErrors' # pushErrors =>
              /\ pushErrors' = pushErrors + 1
              /\ Copies(v)' = Copies(v) + 1 \/ Copies(v)' = Copies(v) + 2
    BY <1>1, <1>2, <1>3, <1>4, EnqueueCopies
  <1>10. /\ pushErrors' = pushErrors => Copies(v)' = 1
         /\ pushErrors' # pushErrors =>
               pushErrors' = pushErrors + 1 /\ Copies(v)' \in 1..2
    BY <1>8, <1>9
  <1> QED
    BY <1>1, <1>2, <1>4, <1>5, <1>6, <1>7, <1>8, <1>9, <1>10

\* A step is one of the store, one that issues, or a quiet one.
LEMMA StepKinds ==
    ASSUME [Next]_vars
    PROVE  \/ \E w \in Writers : InsertDecisionLog(w) \/ InsertTrade(w)
           \/ \E e \in Execs : Decide(e) \/ Record(e)
           \/ Pop \/ PopLost \/ Crash
           \/ \E w \in Writers : InsertExecutionLog(w) \/ ReadPosition(w) \/ WritePosition(w)
                                 \/ GiveUp(w)
           \/ \E e \in Execs : Outcome(e) \/ Confirm(e)
           \/ UNCHANGED vars
  BY DEF Next, Persist, Execute

\* The inductive invariant of the refinement holds initially,
LEMMA AuditInvInit == Init => AuditInv
  <1> SUFFICES ASSUME Init  PROVE AuditInv
    OBVIOUS
  <1>1. TypeInv /\ TablesInv
    <2>1. Len(<< >>) = 0 /\ DOMAIN << >> = {}
      OBVIOUS
    <2> QED
      BY <2>1, TypeInvInit DEF Init, TablesInv, RowsMatch
  <1>2. Own
    BY EventFacts DEF Init, Own
  <1>3. FewCopies
    <2>1. ASSUME NEW v \in Events  PROVE Copies(v) = 0
      <3>1. /\ Copies(v) = Cardinality(Places(queue, v)) + Held(Consumer, v) + Held(v.exec, v)
            /\ queue = << >> /\ queue \in Seq(Events)
        BY <1>1, <1>2, <2>1, CopiesSum DEF Summed, TypeInv, TypeOK, Init
      <3>2. Held(Consumer, v) = 0 /\ Held(v.exec, v) = 0
        BY <2>1, EventFacts DEF Init, Held, Holds
      <3>3. \A k \in DOMAIN queue : queue[k] # v
        <4>1. DOMAIN << >> = {}
          OBVIOUS
        <4> QED
          BY <3>1, <4>1
      <3>4. Cardinality(Places(queue, v)) = 0
        BY <3>1, <3>3, PlacesFinite
      <3> QED
        BY <3>1, <3>2, <3>4
    <2> QED
      BY <2>1 DEF FewCopies
  <1> QED
    BY <1>1, <1>2, <1>3 DEF AuditInv

\* and every step keeps it.
LEMMA AuditInvNext ==
    ASSUME AuditInv, [Next]_vars
    PROVE  AuditInv'
  <1>0. \A v \in Events : Copies(v) \in Nat /\ Copies(v) <= 2 /\ (v \notin Issued => Copies(v) = 0)
    BY CopiesSum DEF AuditInv, FewCopies, Summed, TypeInv, TypeOK
  <1>1. TypeInv' /\ TablesInv'
    BY TypeInvNext, TablesStep DEF AuditInv
  <1>2. ASSUME Own'  PROVE \A v \in Events : Copies(v)' \in Nat
    BY <1>1, <1>2, CopiesSumNext DEF Summed, TypeInv, TypeOK
  <1>3. Own' /\ FewCopies'
    <2>1. CASE \E w \in Writers : InsertDecisionLog(w) \/ InsertTrade(w)
      <3>1. PICK v \in Events :
                /\ Copies(v) > 0
                /\ Own' /\ Issued' = Issued
                /\ \A x \in Events : Copies(x)' = IF x = v THEN Copies(x) - 1 ELSE Copies(x)
        BY <2>1, WriteStep
      <3> QED
        BY <1>0, <3>1 DEF FewCopies
    <2>2. CASE \E e \in Execs : Decide(e) \/ Record(e)
      <3>1. PICK v \in Events :
                /\ Own' /\ Issued' = Issued \cup {v}
                /\ \A x \in Events \ {v} : Copies(x)' = Copies(x)
                /\ pushErrors' = pushErrors => Copies(v)' = 1
                /\ pushErrors' # pushErrors => Copies(v)' \in 1..2
        BY <2>2, IssueStep
      <3> QED
        BY <1>0, <3>1 DEF FewCopies
    <2>3. CASE \/ Pop \/ PopLost \/ Crash
               \/ \E w \in Writers : InsertExecutionLog(w) \/ ReadPosition(w)
                                     \/ WritePosition(w) \/ GiveUp(w)
               \/ \E e \in Execs : Outcome(e) \/ Confirm(e)
               \/ UNCHANGED vars
      <3>1. /\ Own' /\ Issued' = Issued
            /\ \A v \in Events : Copies(v)' <= Copies(v)
        BY <2>3, QuietStep
      <3>2. \A v \in Events : Copies(v)' \in Nat
        BY <1>2, <3>1
      <3> QED
        BY <1>0, <3>1, <3>2 DEF FewCopies
    <2> QED
      BY <2>1, <2>2, <2>3, StepKinds
  <1> QED
    BY <1>1, <1>3 DEF AuditInv

\* Every step is one of the abstract audit trail, or none.
LEMMA LogStep ==
    ASSUME AuditInv, AuditInv', [Next]_vars
    PROVE  [Log!Next]_(Log!auditVars)
  <1> DEFINE waiting == [v \in Events |-> Copies(v)]
             rows == [v \in Events |-> Rows(v)]
             faults == Errors + crashes
  <1>0. /\ \A v \in Events : Copies(v) \in 0..2 /\ Copies(v)' \in 0..2
        /\ pushErrors \in Nat /\ popErrors \in Nat /\ busyErrors \in Nat /\ crashes \in Nat
    <2>1. \A v \in Events : Copies(v) \in Nat /\ Copies(v) <= 2
      BY CopiesSum DEF AuditInv, FewCopies, Summed, TypeInv, TypeOK
    <2>2. \A v \in Events : Copies(v)' \in Nat /\ Copies(v)' <= 2
      BY CopiesSumNext DEF AuditInv, FewCopies, Summed, TypeInv, TypeOK
    <2>3. \A v \in Events : Copies(v) \in 0..2
      BY <2>1
    <2>4. \A v \in Events : Copies(v)' \in 0..2
      BY <2>2
    <2> QED
      BY <2>3, <2>4 DEF AuditInv, TypeInv, TypeOK
  <1>1. CASE \E w \in Writers : InsertDecisionLog(w) \/ InsertTrade(w)
    <2>1. PICK v \in Events :
              /\ Copies(v) > 0
              /\ Issued' = Issued
              /\ \A x \in Events :
                    /\ Copies(x)' = IF x = v THEN Copies(x) - 1 ELSE Copies(x)
                    /\ Rows(x)' = IF x = v THEN Rows(x) + 1 ELSE Rows(x)
      BY <1>1, WriteStep
    <2>2. faults' = faults
      BY <1>1 DEF InsertDecisionLog, InsertTrade, faultVars, Errors
    <2>3. /\ waiting' = [waiting EXCEPT ![v] = @ - 1]
          /\ rows' = [rows EXCEPT ![v] = @ + 1]
      BY <2>1
    <2>4. waiting[v] > 0
      BY <2>1
    <2>5. Log!Write(v)
      BY <2>1, <2>2, <2>3, <2>4 DEF Log!Write
    <2> QED
      BY <2>5 DEF Log!Next
  <1>2. CASE \E e \in Execs : Decide(e) \/ Record(e)
    <2>1. PICK e \in Execs : Decide(e) \/ Record(e)
      BY <1>2
    <2>2. PICK v \in Events :
              /\ v \notin Issued /\ Issued' = Issued \cup {v}
              /\ \A x \in Events : Rows(x)' = Rows(x)
              /\ \A x \in Events \ {v} : Copies(x)' = Copies(x)
              /\ pushErrors' = pushErrors => Copies(v)' = 1
              /\ pushErrors' # pushErrors =>
                    pushErrors' = pushErrors + 1 /\ Copies(v)' \in 1..2
      BY <2>1, IssueStep
    <2>3. UNCHANGED <<popErrors, busyErrors, crashes>>
      BY <2>1 DEF Decide, Record
    <2>4. rows' = rows
      BY <2>2
    <2>5. CASE pushErrors' = pushErrors
      <3>1. waiting' = [waiting EXCEPT ![v] = 1]
        BY <2>2, <2>5
      <3>2. faults' = faults
        BY <2>3, <2>5 DEF Errors
      <3>3. Log!Issue(v)
        BY <2>2, <2>4, <3>1, <3>2 DEF Log!Issue
      <3> QED
        BY <3>3 DEF Log!Next
    <2>6. CASE pushErrors' # pushErrors
      <3>1. PICK n \in 1..2 : Copies(v)' = n
        BY <2>2, <2>6
      <3>2. waiting' = [waiting EXCEPT ![v] = n]
        BY <2>2, <3>1
      <3>3. faults' = faults + 1
        BY <1>0, <2>2, <2>3, <2>6 DEF Errors
      <3>4. Log!IssueInDoubt(v)
        BY <2>2, <2>4, <3>2, <3>3 DEF Log!IssueInDoubt
      <3> QED
        BY <3>4 DEF Log!Next
    <2> QED
      BY <2>5, <2>6
  <1>3. CASE \/ Pop \/ PopLost \/ Crash
             \/ \E w \in Writers : InsertExecutionLog(w) \/ ReadPosition(w)
                                   \/ WritePosition(w) \/ GiveUp(w)
             \/ \E e \in Execs : Outcome(e) \/ Confirm(e)
             \/ UNCHANGED vars
    <2>1. /\ Issued' = Issued
          /\ \A v \in Events : Rows(v)' = Rows(v) /\ Copies(v)' <= Copies(v)
          /\ ~(PopLost \/ Crash \/ \E w \in Writers : GiveUp(w)) =>
                \A v \in Events : Copies(v)' = Copies(v)
      BY <1>3, QuietStep
    <2>2. rows' = rows
      BY <2>1
    <2>3. \/ faults' = faults + 1
          \/ faults' = faults /\ ~(PopLost \/ Crash \/ \E w \in Writers : GiveUp(w))
      <3>1. CASE PopLost \/ Crash \/ \E w \in Writers : GiveUp(w)
        BY <1>0, <3>1 DEF PopLost, Crash, GiveUp, Errors
      <3>2. CASE \E e \in Execs : Confirm(e)
        <4>1. faults' = faults + 1 \/ UNCHANGED faultVars
          BY <1>0, <3>2 DEF Confirm, Receipt, UpdateTradeStatus, LogFinal, ConfirmGivesUp, Errors
        <4> QED
          BY <3>1, <4>1 DEF faultVars, Errors
      <3>3. CASE \/ Pop
                 \/ \E w \in Writers : InsertExecutionLog(w) \/ ReadPosition(w)
                                       \/ WritePosition(w)
                 \/ \E e \in Execs : Outcome(e)
                 \/ UNCHANGED vars
        <4>1. UNCHANGED faultVars
          BY <3>3 DEF Pop, InsertExecutionLog, ReadPosition, WritePosition, Outcome, vars
        <4> QED
          BY <3>1, <4>1 DEF faultVars, Errors
      <3> QED
        BY <1>3, <3>1, <3>2, <3>3
    <2>4. CASE faults' = faults + 1
      <3>1. waiting' \in [Events -> 0..2] /\ \A v \in Events : waiting'[v] <= waiting[v]
        BY <1>0, <2>1
      <3>2. Log!Lose
        BY <2>1, <2>2, <2>4, <3>1 DEF Log!Lose
      <3> QED
        BY <3>2 DEF Log!Next
    <2>5. CASE faults' = faults /\ ~(PopLost \/ Crash \/ \E w \in Writers : GiveUp(w))
      <3>1. waiting' = waiting
        BY <2>1, <2>5
      <3> QED
        BY <2>1, <2>2, <2>5, <3>1 DEF Log!auditVars
    <2> QED
      BY <2>3, <2>4, <2>5
  <1> QED
    BY <1>1, <1>2, <1>3, StepKinds

\* The list, its consumer and the store calls implement the abstract audit trail:
\* every issued event is written once, a failed push may repeat it, and only a fault
\* may lose it (enqueueEnvelope, auditConsumerLoop, persistSync).
THEOREM LogImplemented == Spec => AuditLogImplemented
  <1>1. Init => Log!Init
    <2> SUFFICES ASSUME Init  PROVE Log!Init
      OBVIOUS
    <2>1. Issued = {}
      BY EventFacts DEF Init, Issued
    <2>2. \A v \in Events : Copies(v) = 0
      BY <2>1, AuditInvInit DEF AuditInv, FewCopies
    <2>3. \A v \in Events : Rows(v) = 0
      <3>1. Len(<< >>) = 0
        OBVIOUS
      <3> QED
        BY <3>1, EventFacts DEF Init, Rows
    <2>4. Errors + crashes = 0
      BY DEF Init, Errors
    <2> QED
      BY <2>1, <2>2, <2>3, <2>4 DEF Log!Init
  <1>2. AuditInv /\ [Next]_vars => AuditInv'
    BY AuditInvNext
  <1>3. AuditInv /\ AuditInv' /\ [Next]_vars => [Log!Next]_(Log!auditVars)
    BY LogStep
  <1> QED
    BY <1>1, <1>2, <1>3, AuditInvInit, PTL DEF Spec, AuditLogImplemented, Log!Spec

-----------------------------------------------------------------------------
(* The order of a decision and its result.                                 *)

\* Without Redis there is nothing for the consumer.
Listless == ~Redis => queue = << >> /\ at[Consumer] = "idle"

\* As long as nothing has failed an issued event is under way or written, once.
Once ==
    \A v \in Events : IF v \in Issued THEN Copies(v) + Rows(v) = 1 ELSE Rows(v) = 0

\* A result is behind its decision on the list, and when it is taken up its decision
\* has been written.
Ordered(e) ==
    /\ \A i, j \in DOMAIN queue : queue[i] = Decision(e) /\ queue[j] = Result(e) => i < j
    /\ Rows(Result(e)) > 0 \/ (\E w \in Writers : Holds(w, Result(e))) =>
          Copies(Decision(e)) = 0

OrderInv == Listless /\ (NoFaults => Once /\ \A e \in Execs : Ordered(e))

\* An event that a writer holds or that is on the list is under way.
LEMMA UnderWay ==
    ASSUME AuditInv, NEW v \in Events
    PROVE  /\ Copies(v) \in Nat /\ Rows(v) \in Nat
           /\ (\E w \in Writers : Holds(w, v)) => Copies(v) > 0
           /\ (\E k \in DOMAIN queue : queue[k] = v) => Copies(v) > 0
           /\ Copies(v) > 0 => v \in Issued
  <1>1. /\ queue \in Seq(Events) /\ v.exec \in Execs
        /\ Copies(v) = Cardinality(Places(queue, v)) + Held(Consumer, v) + Held(v.exec, v)
        /\ Cardinality(Places(queue, v)) \in Nat /\ Copies(v) \in Nat
    BY CopiesSum, EventFacts DEF Summed, AuditInv, TypeInv, TypeOK
  <1>2. Held(Consumer, v) \in Nat /\ Held(v.exec, v) \in Nat
    BY DEF Held
  <1>3. ASSUME NEW w \in Writers, Holds(w, v)  PROVE Copies(v) > 0
    <2>1. w = Consumer \/ w = v.exec
      BY <1>3 DEF AuditInv, Own, Holds, Writers
    <2>2. Held(w, v) = 1
      BY <1>3 DEF Held
    <2> QED
      BY <1>1, <1>2, <2>1, <2>2
  <1>4. ASSUME NEW k \in DOMAIN queue, queue[k] = v  PROVE Copies(v) > 0
    <2>1. Cardinality(Places(queue, v)) # 0
      BY <1>1, <1>4, PlacesFinite
    <2> QED
      BY <1>1, <1>2, <2>1
  <1>5. Copies(v) > 0 => v \in Issued
    BY DEF AuditInv, FewCopies
  <1>6. Rows(v) \in Nat
    <2>1. decisions[v.exec] \in Nat /\ Len(trades[v.exec]) \in Nat
      BY <1>1 DEF AuditInv, TypeInv, TypeOK
    <2> QED
      BY <2>1 DEF Rows
  <1> QED
    BY <1>1, <1>3, <1>4, <1>5, <1>6

\* The consumer takes up a result only when its decision is no longer under way.
LEMMA PopOrdered ==
    ASSUME AuditInv, OneWriter, Pop, NEW e \in Execs, Ordered(e)
    PROVE  Ordered(e)'
  <1>1. /\ queue \in Seq(Events) /\ queue # << >> /\ queue' = Tail(queue)
        /\ at[Consumer] = "idle" /\ at[e] = "idle" /\ Begin(Consumer, Head(queue))
    BY DEF Pop, AuditInv, TypeInv, TypeOK, OneWriter
  <1>2. /\ Head(queue) = queue[1] /\ 1 \in DOMAIN queue
        /\ \A k \in DOMAIN queue' :
              k \in Nat \ {0} /\ k + 1 \in DOMAIN queue /\ queue'[k] = queue[k + 1]
        /\ \A k \in DOMAIN queue : k \in Nat /\ (k = 1 \/ k - 1 \in DOMAIN queue')
    BY <1>1, Shortened
  <1>3. Decision(e) \in Events /\ Result(e) \in Events /\ Decision(e).exec = e
    BY EventFacts DEF Decision
  <1>4. /\ \A v \in Events : Rows(v)' = Rows(v) /\ Copies(v)' = Copies(v)
    <2>1. UNCHANGED <<decisions, trades>>
      BY DEF Pop, tableVars
    <2> QED
      BY <2>1, PopCopies, RowsSame DEF AuditInv
  <1>5. \A i, j \in DOMAIN queue' : queue'[i] = Decision(e) /\ queue'[j] = Result(e) => i < j
    <2> SUFFICES ASSUME NEW i \in DOMAIN queue', NEW j \in DOMAIN queue',
                        queue'[i] = Decision(e), queue'[j] = Result(e)
                 PROVE  i < j
      OBVIOUS
    <2>1. /\ i + 1 \in DOMAIN queue /\ queue[i + 1] = Decision(e)
          /\ j + 1 \in DOMAIN queue /\ queue[j + 1] = Result(e)
          /\ i \in Nat /\ j \in Nat
      BY <1>2
    <2>2. i + 1 < j + 1
      BY <2>1 DEF Ordered
    <2> QED
      BY <2>1, <2>2
  <1>6. ASSUME NEW w \in Writers, Holds(w, Result(e))'  PROVE Copies(Decision(e)) = 0
    <2>1. CASE w = Consumer
      <3>1. queue[1] = Result(e)
        BY <1>1, <1>2, <1>6, <2>1 DEF Begin, Holds, AuditInv, TypeInv, TypeOK
      <3>2. \A k \in DOMAIN queue : queue[k] # Decision(e)
        BY <1>2, <3>1 DEF Ordered
      <3>3. Cardinality(Places(queue, Decision(e))) = 0
        BY <1>1, <3>2, PlacesFinite
      <3>4. Held(Consumer, Decision(e)) = 0 /\ Held(e, Decision(e)) = 0
        BY <1>1 DEF Held, Holds
      <3>5. Copies(Decision(e)) = Cardinality(Places(queue, Decision(e)))
                                  + Held(Consumer, Decision(e)) + Held(e, Decision(e))
        BY <1>1, <1>3, CopiesSum DEF Summed, AuditInv
      <3> QED
        BY <3>3, <3>4, <3>5
    <2>2. CASE w # Consumer
      <3>1. Holds(w, Result(e))
        BY <1>1, <1>6, <2>2 DEF Begin, Holds, AuditInv, TypeInv, TypeOK
      <3> QED
        BY <3>1 DEF Ordered
    <2> QED
      BY <2>1, <2>2
  <1>7. Rows(Result(e))' > 0 \/ (\E w \in Writers : Holds(w, Result(e))') =>
            Copies(Decision(e))' = 0
    BY <1>3, <1>4, <1>6 DEF Ordered
  <1> QED
    BY <1>5, <1>7 DEF Ordered, Decision, Result

\* Nothing but the consumer that takes up an event disturbs the order.
LEMMA OrderedKept ==
    ASSUME NEW e \in Execs, Ordered(e), AuditInv,
           queue' = queue,
           \A x \in Writers, y \in Events : Holds(x, y)' => Holds(x, y),
           \/ Copies(Decision(e))' = Copies(Decision(e))
           \/ Copies(Decision(e))' = Copies(Decision(e)) - 1 /\ Copies(Decision(e)) > 0,
           Rows(Result(e))' = Rows(Result(e)) \/ (\E w \in Writers : Holds(w, Result(e)))
    PROVE  Ordered(e)'
  <1>1. Decision(e) \in Events /\ Result(e) \in Events
    BY EventFacts
  <1>2. Copies(Decision(e)) \in Nat
    BY <1>1, UnderWay
  <1>3. Rows(Result(e))' > 0 \/ (\E w \in Writers : Holds(w, Result(e))') =>
            Copies(Decision(e))' = 0
    BY <1>1, <1>2 DEF Ordered
  <1>4. \A i, j \in DOMAIN queue' : queue'[i] = Decision(e) /\ queue'[j] = Result(e) => i < j
    BY DEF Ordered
  <1> QED
    BY <1>3, <1>4 DEF Ordered, Decision, Result

\* An event that is issued goes to the end of the list or, without Redis, to its
\* execution, which has written the decision before it goes on.
LEMMA IssueOrdered ==
    ASSUME AuditInv, AuditInv', Listless, Once, \A e \in Execs : Ordered(e),
           NEW x \in Execs, Decide(x) \/ Record(x), pushErrors' = pushErrors
    PROVE  Once' /\ \A e \in Execs : Ordered(e)'
  <1>1. PICK v \in Events :
            /\ v = IF Decide(x) THEN Decision(x) ELSE Result(x)
            /\ Enqueue(x, v) /\ at[x] = "idle"
            /\ v \notin Issued /\ Copies(v) = 0
            /\ Issued' = Issued \cup {v}
            /\ \A y \in Events : Rows(y)' = Rows(y)
            /\ \A y \in Events \ {v} : Copies(y)' = Copies(y)
            /\ Copies(v)' = 1
    BY IssueStep
  <1>2. Once'
    <2>1. Rows(v) = 0
      BY <1>1 DEF Once
    <2> QED
      BY <1>1, <2>1 DEF Once
  <1>3. queue \in Seq(Events) /\ x \in Writers /\ x # Consumer /\ pushErrors \in Nat
    BY EventFacts, ExecsAssumption DEF AuditInv, TypeInv, TypeOK
  <1>4. \/ Redis /\ queue' = Append(queue, v) /\ UNCHANGED jobVars
        \/ ~Redis /\ queue' = queue /\ Begin(x, v)
    BY <1>1, <1>3 DEF Enqueue
  <1>5. \A w \in Writers, y \in Events \ {v} : Holds(w, y)' => Holds(w, y)
    BY <1>3, <1>4 DEF jobVars, Begin, Holds, AuditInv, TypeInv, TypeOK
  <1>6. \A k \in DOMAIN queue' :
            \/ k \in DOMAIN queue /\ queue'[k] = queue[k] /\ k < Len(queue) + 1
            \/ k = Len(queue) + 1 /\ queue'[k] = v
    <2>1. \A k \in DOMAIN queue : k \in Nat /\ k <= Len(queue) /\ Len(queue) \in Nat
      BY <1>3
    <2>2. CASE queue' = queue
      BY <2>1, <2>2
    <2>3. CASE queue' = Append(queue, v)
      BY <1>3, <2>1, <2>3, Extended
    <2> QED
      BY <1>4, <2>2, <2>3
  <1>7. ASSUME NEW e \in Execs  PROVE Ordered(e)'
    <2>1. Decision(e) \in Events /\ Result(e) \in Events /\ Decision(e) # Result(e) /\ Ordered(e)
      BY EventFacts DEF Decision, Result
    <2>2. CASE v \notin {Decision(e), Result(e)}
      <3>1. \A i, j \in DOMAIN queue' :
                queue'[i] = Decision(e) /\ queue'[j] = Result(e) => i < j
        BY <1>6, <2>1, <2>2 DEF Ordered
      <3>2. Rows(Result(e))' > 0 \/ (\E w \in Writers : Holds(w, Result(e))') =>
                Copies(Decision(e))' = 0
        BY <1>1, <1>5, <2>1, <2>2 DEF Ordered
      <3> QED
        BY <3>1, <3>2 DEF Ordered, Decision, Result
    <2>3. CASE v = Decision(e)
      <3>1. Result(e) \notin Issued
        <4>1. pc[e] = "new"
          BY <1>1, <2>1, <2>3 DEF Issued, Decision, Events
        <4> QED
          BY <4>1 DEF Issued, Result
      <3>2. Result(e) \notin Issued' /\ Rows(Result(e))' = 0
        BY <1>1, <2>1, <2>3, <3>1 DEF Once
      <3>3. Copies(Result(e))' = 0 /\ Copies(Result(e)) = 0
        BY <1>1, <2>1, <2>3, <3>1 DEF AuditInv, FewCopies
      <3>4. \A w \in Writers : ~Holds(w, Result(e))'
        BY <1>5, <2>1, <2>3, <3>3, UnderWay
      <3>5. \A k \in DOMAIN queue' : queue'[k] # Result(e)
        BY <1>6, <2>1, <2>3, <3>3, UnderWay
      <3> QED
        BY <3>2, <3>4, <3>5 DEF Ordered, Decision, Result
    <2>4. CASE v = Result(e)
      <3>1. \A k \in DOMAIN queue : queue[k] # Result(e)
        BY <1>1, <2>1, <2>4, UnderWay
      <3>2. \A i, j \in DOMAIN queue' :
                queue'[i] = Decision(e) /\ queue'[j] = Result(e) => i < j
        BY <1>6, <2>1, <2>4, <3>1
      <3>3. Rows(Result(e))' = 0
        BY <1>1, <2>1, <2>4 DEF Once
      <3>4. CASE UNCHANGED jobVars
        <4>1. \A w \in Writers : ~Holds(w, Result(e))
          BY <1>1, <2>1, <2>4, UnderWay
        <4>2. \A w \in Writers : ~Holds(w, Result(e))'
          BY <3>4, <4>1 DEF jobVars, Holds
        <4> QED
          BY <3>2, <3>3, <4>2 DEF Ordered, Decision, Result
      <3>5. CASE ~Redis
        <4>1. /\ queue = << >> /\ at[Consumer] = "idle" /\ at[x] = "idle" /\ x = e
          BY <1>1, <2>1, <2>4, <3>5 DEF Listless, Decision, Result
        <4>2. Decision(e).exec = e
          BY DEF Decision
        <4>3. Held(Consumer, Decision(e)) = 0 /\ Held(e, Decision(e)) = 0
          BY <4>1 DEF Held, Holds
        <4>4. Cardinality(Places(queue, Decision(e))) = 0
          <5>1. \A k \in DOMAIN queue : FALSE
            <6>1. DOMAIN << >> = {}
              OBVIOUS
            <6> QED
              BY <4>1, <6>1
          <5> QED
            BY <1>3, <5>1, PlacesFinite
        <4>5. Copies(Decision(e)) = 0
          <5>1. \A y \in Events : Copies(y) = Cardinality(Places(queue, y))
                                             + Held(Consumer, y) + Held(y.exec, y)
            BY <1>3, CopiesSum DEF Summed, AuditInv
          <5>2. Copies(Decision(e)) = Cardinality(Places(queue, Decision(e)))
                                      + Held(Consumer, Decision(e)) + Held(e, Decision(e))
            BY <2>1, <4>2, <5>1
          <5> QED
            BY <4>3, <4>4, <5>2
        <4>6. Copies(Decision(e))' = 0
          BY <1>1, <2>1, <2>4, <4>5
        <4> QED
          BY <3>2, <4>6 DEF Ordered, Decision, Result
      <3> QED
        BY <1>4, <3>4, <3>5
    <2> QED
      BY <2>2, <2>3, <2>4
  <1> QED
    BY <1>2, <1>7

\* Without Redis nothing is ever put on the list.
LEMMA ListlessNext ==
    ASSUME AuditInv, Listless, [Next]_vars
    PROVE  Listless'
  <1> SUFFICES ASSUME ~Redis  PROVE queue' = << >> /\ at'[Consumer] = "idle"
    BY DEF Listless
  <1>0. queue = << >> /\ at[Consumer] = "idle" /\ Consumer \notin Execs
    BY ExecsAssumption DEF Listless
  <1>1. ASSUME NEW w \in Writers, NEW from, NEW to, NEW read, Goto(w, from, to, read),
               from # "idle"
        PROVE  at'[Consumer] = "idle"
    BY <1>0, <1>1 DEF Goto, AuditInv, TypeInv, TypeOK
  <1>2. ASSUME NEW w \in Writers, Persist(w)
        PROVE  queue' = queue /\ at'[Consumer] = "idle"
    <2>1. queue' = queue
      BY <1>2 DEF Persist, InsertDecisionLog, InsertTrade, InsertExecutionLog, ReadPosition,
                  WritePosition, GiveUp
    <2>2. /\ at[w] # "idle"
          /\ \/ Goto(w, at[w], Succeeded(w), 0)
             \/ Goto(w, at[w], Succeeded(w), position[Token(w)])
             \/ Goto(w, at[w], GivenUp(w), 0)
      BY <1>2 DEF Persist, InsertDecisionLog, InsertTrade, InsertExecutionLog, ReadPosition,
                  WritePosition, GiveUp, Goto
    <2> QED
      BY <1>1, <2>1, <2>2
  <1>3. ASSUME NEW e \in Execs, NEW v, Enqueue(e, v)
        PROVE  queue' = queue /\ at'[Consumer] = "idle"
    BY <1>0, <1>3, EventFacts DEF Enqueue, Begin, AuditInv, TypeInv, TypeOK
  <1>4. ASSUME NEW e \in Execs, Outcome(e) \/ Confirm(e)
        PROVE  queue' = queue /\ at'[Consumer] = "idle"
    BY <1>0, <1>4
    DEF Outcome, Confirm, Receipt, UpdateTradeStatus, LogFinal, ConfirmGivesUp, jobVars
  <1>5. CASE Pop \/ PopLost \/ Crash \/ UNCHANGED vars
    BY <1>0, <1>5, EventFacts DEF Pop, PopLost, Crash, vars, jobVars
  <1> QED
    BY <1>0, <1>2, <1>3, <1>4, <1>5 DEF Next, Execute, Decide, Record

\* A fault is counted for good.
LEMMA FaultFree ==
    ASSUME AuditInv, AuditInv', [Next]_vars, NoFaults'
    PROVE  /\ NoFaults /\ pushErrors = 0 /\ pushErrors' = 0
           /\ ~PopLost /\ ~Crash
           /\ \A w \in Writers : ~GiveUp(w)
           /\ \A e \in Execs : ~ConfirmGivesUp(e)
  <1> USE DEF faultVars
  <1>1. /\ pushErrors \in Nat /\ popErrors \in Nat /\ busyErrors \in Nat /\ crashes \in Nat
        /\ pushErrors' \in Nat /\ popErrors' \in Nat /\ busyErrors' \in Nat /\ crashes' \in Nat
    BY DEF AuditInv, TypeInv, TypeOK
  <1>2. pushErrors' = 0 /\ popErrors' = 0 /\ busyErrors' = 0 /\ crashes' = 0
    <2>1. Errors' = 0 /\ crashes' = 0
      BY DEF NoFaults
    <2>2. pushErrors' + popErrors' + busyErrors' = 0
      BY <2>1 DEF Errors
    <2>3. \A a, b, c \in Nat : a + b + c = 0 => a = 0 /\ b = 0 /\ c = 0
      OBVIOUS
    <2> QED
      BY <1>1, <2>1, <2>2, <2>3
  <1>3. /\ ~PopLost /\ ~Crash
        /\ \A w \in Writers : ~GiveUp(w)
        /\ \A e \in Execs : ~ConfirmGivesUp(e)
    BY <1>1, <1>2 DEF PopLost, Crash, GiveUp, ConfirmGivesUp
  <1>4. /\ pushErrors = 0 /\ popErrors = 0 /\ busyErrors = 0 /\ crashes = 0
    <2>1. ASSUME NEW e \in Execs, NEW v, Enqueue(e, v)  PROVE pushErrors = 0
      BY <1>1, <1>2, <2>1 DEF Enqueue
    <2>2. ASSUME NEW e \in Execs, Decide(e) \/ Record(e)
          PROVE  pushErrors = 0 /\ popErrors = 0 /\ busyErrors = 0 /\ crashes = 0
      BY <1>2, <2>1, <2>2 DEF Decide, Record
    <2>3. ASSUME NEW w \in Writers, Persist(w)  PROVE UNCHANGED faultVars
      BY <1>3, <2>3 DEF Persist, InsertDecisionLog, InsertTrade, InsertExecutionLog,
                        ReadPosition, WritePosition
    <2>4. ASSUME NEW e \in Execs, Outcome(e) \/ Confirm(e)  PROVE UNCHANGED faultVars
      BY <1>3, <2>4 DEF Outcome, Confirm, Receipt, UpdateTradeStatus, LogFinal
    <2>5. CASE Pop \/ UNCHANGED vars
      BY <1>2, <2>5 DEF Pop, vars
    <2> QED
      BY <1>2, <1>3, <2>2, <2>3, <2>4, <2>5 DEF Next, Execute
  <1>5. NoFaults
    BY <1>4 DEF NoFaults, Errors
  <1> QED
    BY <1>2, <1>3, <1>4, <1>5

\* Initially nothing is under way.
LEMMA OrderInit == Init => OrderInv
  <1> SUFFICES ASSUME Init  PROVE OrderInv
    OBVIOUS
  <1>1. Issued = {} /\ DOMAIN << >> = {} /\ Len(<< >>) = 0
    BY EventFacts DEF Init, Issued
  <1>2. \A v \in Events : Rows(v) = 0
    BY <1>1, EventFacts DEF Init, Rows
  <1>3. \A v \in Events : Copies(v) = 0
    BY <1>1, AuditInvInit DEF AuditInv, FewCopies
  <1>4. \A e \in Execs : Ordered(e)
    BY <1>1, <1>3, EventFacts DEF Init, Ordered
  <1> QED
    BY <1>1, <1>2, <1>4, EventFacts DEF Init, OrderInv, Listless, Once

\* The order is inductive, given the copies and the one writer.
LEMMA OrderNext ==
    ASSUME AuditInv, AuditInv', BumpInv, OrderInv, [Next]_vars
    PROVE  OrderInv'
  <1>0. Listless'
    BY ListlessNext DEF OrderInv
  <1> SUFFICES ASSUME NoFaults'  PROVE Once' /\ \A e \in Execs : Ordered(e)'
    BY <1>0 DEF OrderInv
  <1>3. /\ NoFaults /\ pushErrors = 0 /\ pushErrors' = 0
        /\ ~PopLost /\ ~Crash
        /\ \A w \in Writers : ~GiveUp(w)
        /\ \A e \in Execs : ~ConfirmGivesUp(e)
    BY FaultFree
  <1>5. Listless /\ Once /\ (\A e \in Execs : Ordered(e)) /\ (Redis => OneWriter)
    BY <1>3 DEF OrderInv, BumpInv
  <1>6. CASE \E w \in Writers : InsertDecisionLog(w) \/ InsertTrade(w)
    <2>1. PICK w \in Writers : InsertDecisionLog(w) \/ InsertTrade(w)
      BY <1>6
    <2>2. PICK v \in Events :
              /\ Holds(w, v) /\ Copies(v) > 0
              /\ Issued' = Issued
              /\ \A y \in Events :
                    /\ Copies(y)' = IF y = v THEN Copies(y) - 1 ELSE Copies(y)
                    /\ Rows(y)' = IF y = v THEN Rows(y) + 1 ELSE Rows(y)
              /\ \A x \in Writers, y \in Events : Holds(x, y)' => Holds(x, y)
      BY <2>1, WriteStep
    <2>3. queue' = queue
      BY <2>1 DEF InsertDecisionLog, InsertTrade
    <2>4. \A y \in Events : Copies(y) \in Nat /\ Rows(y) \in Nat /\ (Copies(y) > 0 => y \in Issued)
      BY UnderWay
    <2>5. Once'
      BY <1>5, <2>2, <2>4 DEF Once
    <2>6. ASSUME NEW e \in Execs  PROVE Ordered(e)'
      <3>1. Decision(e) \in Events /\ Result(e) \in Events
        BY EventFacts
      <3>2. /\ \/ Copies(Decision(e))' = Copies(Decision(e))
               \/ Copies(Decision(e))' = Copies(Decision(e)) - 1 /\ Copies(Decision(e)) > 0
            /\ Rows(Result(e))' = Rows(Result(e)) \/ (\E u \in Writers : Holds(u, Result(e)))
        BY <2>2, <3>1
      <3> QED
        BY <1>5, <2>2, <2>3, <3>2, OrderedKept
    <2> QED
      BY <2>5, <2>6
  <1>7. CASE \E e \in Execs : Decide(e) \/ Record(e)
    BY <1>3, <1>5, <1>7, IssueOrdered
  <1>8. CASE \/ Pop
             \/ \E w \in Writers : InsertExecutionLog(w) \/ ReadPosition(w) \/ WritePosition(w)
             \/ \E e \in Execs : Outcome(e) \/ Confirm(e)
             \/ UNCHANGED vars
    <2>1. /\ Issued' = Issued
          /\ \A v \in Events : Rows(v)' = Rows(v) /\ Copies(v)' = Copies(v)
          /\ ~Pop => \A x \in Writers, y \in Events : Holds(x, y)' => Holds(x, y)
      BY <1>3, <1>8, QuietStep
    <2>2. Once'
      BY <1>5, <2>1 DEF Once
    <2>3. ASSUME NEW e \in Execs  PROVE Ordered(e)'
      <3>1. CASE Pop
        <4>1. OneWriter
          BY <1>5, <3>1 DEF Pop
        <4> QED
          BY <1>5, <3>1, <4>1, PopOrdered
      <3>2. CASE ~Pop
        <4>1. queue' = queue
          BY <1>8, <3>2 DEF InsertExecutionLog, ReadPosition, WritePosition, Outcome, Confirm,
                            Receipt, UpdateTradeStatus, LogFinal, ConfirmGivesUp, vars
        <4>2. Decision(e) \in Events /\ Result(e) \in Events
          BY EventFacts
        <4> QED
          BY <1>5, <2>1, <3>2, <4>1, <4>2, OrderedKept
      <3> QED
        BY <3>1, <3>2
    <2> QED
      BY <2>2, <2>3
  <1> QED
    BY <1>3, <1>6, <1>7, <1>8, StepKinds

\* As long as nothing has failed, who finds a result finds its decision, written once
\* (enqueueDecision and enqueueResult use one list, which one consumer empties from
\* its end; without Redis an execution writes for itself).
THEOREM DecisionFirst == Spec => []DecisionBeforeResult
  <1>1. Init => BumpInv
    BY EventFacts DEF Init, BumpInv, OneWriter, Writers
  <1>3. AuditInv /\ [Next]_vars => AuditInv'
    BY AuditInvNext
  <1>4. AuditInv /\ BumpInv /\ [Next]_vars => BumpInv'
    BY BumpStep DEF AuditInv
  <1>5. AuditInv /\ AuditInv' /\ BumpInv /\ OrderInv /\ [Next]_vars => OrderInv'
    BY OrderNext
  <1>6. AuditInv /\ OrderInv => DecisionBeforeResult
    <2> SUFFICES ASSUME AuditInv, OrderInv, NEW e \in Execs, trades[e] # << >>,
                        Errors = 0, crashes = 0
                 PROVE  decisions[e] = 1
      BY DEF DecisionBeforeResult
    <2>1. Once /\ Ordered(e) /\ Decision(e) \in Events /\ Result(e) \in Events
      BY EventFacts DEF OrderInv, NoFaults
    <2>2. Rows(Result(e)) > 0
      <3>1. trades[e] \in Seq({"skipped", "submitted", "failed", "final"})
        BY DEF AuditInv, TypeInv, TypeOK
      <3>2. Len(trades[e]) > 0
        BY <3>1
      <3> QED
        BY <3>2 DEF Rows, Result
    <2>3. Result(e) \in Issued
      BY <2>1, <2>2 DEF Once
    <2>4. Decision(e) \in Issued
      BY <2>1, <2>3 DEF Issued, Decision, Result
    <2>5. Copies(Decision(e)) = 0
      BY <2>1, <2>2 DEF Ordered
    <2>6. Rows(Decision(e)) = decisions[e] /\ Rows(Decision(e)) \in Nat
      BY <2>1, UnderWay DEF Rows, Decision
    <2> QED
      BY <2>1, <2>4, <2>5, <2>6 DEF Once
  <1> QED
    BY <1>1, <1>3, <1>4, <1>5, <1>6, AuditInvInit, OrderInit, PTL DEF Spec

-----------------------------------------------------------------------------
(* Positions and trades.                                                   *)

\* The executions whose recorded trade moves the positions of its two tokens.
Moved == {e \in Execs : accounts[e] # << >> /\ status[e] = "submitted"}
MovedBase(t) == {e \in Moved : Base[e] = t}
MovedQuote(t) == {e \in Moved : Quote[e] = t}

\* The bumps that the consumer has still to make for the trade it has recorded.
OwesBase(t) ==
    IF /\ at[Consumer] \in {"log", "readBase", "writeBase"}
       /\ Books(Consumer) /\ Base[job[Consumer].exec] = t
    THEN 1 ELSE 0

OwesQuote(t) ==
    IF /\ at[Consumer] \in {"log", "readBase", "writeBase", "readQuote", "writeQuote"}
       /\ Books(Consumer) /\ Quote[job[Consumer].exec] = t
    THEN 1 ELSE 0

\* A position and the bumps owed to it make up the trades that move it.
Booked ==
    /\ IsFiniteSet(Moved)
    /\ at[Consumer] \in {"readBase", "writeBase", "readQuote", "writeQuote"} =>
          Books(Consumer)
    /\ \A t \in Tokens :
          position[t] + OwesBase(t) + OwesQuote(t)
            = Cardinality(MovedBase(t)) + Cardinality(MovedQuote(t))

BookInv == Redis /\ NoFaults => Booked

\* The trades that move a position are finitely many as long as all trades are.
LEMMA MovedFinite ==
    ASSUME IsFiniteSet(Moved), NEW t
    PROVE  /\ IsFiniteSet(MovedBase(t)) /\ Cardinality(MovedBase(t)) \in Nat
           /\ IsFiniteSet(MovedQuote(t)) /\ Cardinality(MovedQuote(t)) \in Nat
  <1>1. MovedBase(t) \subseteq Moved /\ MovedQuote(t) \subseteq Moved
    BY DEF MovedBase, MovedQuote
  <1>2. IsFiniteSet(MovedBase(t)) /\ IsFiniteSet(MovedQuote(t))
    BY <1>1, FS_Subset
  <1> QED
    BY <1>2, FS_CardinalityType

\* The rows of account_trades show them.
LEMMA MoversCount ==
    ASSUME TypeInv, TablesInv, NEW t
    PROVE  Movers(t) = Cardinality(MovedBase(t)) + Cardinality(MovedQuote(t))
  <1>1. ASSUME NEW e \in Execs
        PROVE  "submitted" \in Range(accounts[e])
                 <=> accounts[e] # << >> /\ status[e] = "submitted"
    <2>1. /\ accounts[e] \in Seq({"skipped", "submitted", "failed"})
          /\ \A k \in DOMAIN accounts[e] : accounts[e][k] = status[e]
      BY DEF TypeInv, TypeOK, TablesInv, RowsMatch
    <2>2. accounts[e] # << >> <=> \E k \in DOMAIN accounts[e] : TRUE
      <3>1. accounts[e] # << >> => 1 \in DOMAIN accounts[e]
        BY <2>1
      <3>2. DOMAIN << >> = {}
        OBVIOUS
      <3> QED
        BY <3>1, <3>2
    <2> QED
      BY <2>1, <2>2 DEF Range
  <1>2. /\ MovedBase(t) = {e \in Execs : Base[e] = t /\ "submitted" \in Range(accounts[e])}
        /\ MovedQuote(t) = {e \in Execs : Quote[e] = t /\ "submitted" \in Range(accounts[e])}
    BY <1>1 DEF MovedBase, MovedQuote, Moved
  <1> QED
    BY <1>2 DEF Movers

\* Steps that move no position and record no trade leave the books as they are.
LEMMA BooksKept ==
    ASSUME Booked, Moved' = Moved, UNCHANGED position,
           at'[Consumer] \in {"readBase", "writeBase", "readQuote", "writeQuote"} =>
               Books(Consumer)',
           \A t \in Tokens : OwesBase(t)' = OwesBase(t) /\ OwesQuote(t)' = OwesQuote(t)
    PROVE  Booked'
  <1>1. \A t : MovedBase(t)' = MovedBase(t) /\ MovedQuote(t)' = MovedQuote(t)
    BY DEF MovedBase, MovedQuote
  <1>2. IsFiniteSet(Moved')
    BY DEF Booked
  <1>3. \A t \in Tokens :
            position'[t] + OwesBase(t)' + OwesQuote(t)'
              = Cardinality(MovedBase(t)') + Cardinality(MovedQuote(t)')
    BY <1>1 DEF Booked
  <1> QED
    BY <1>2, <1>3 DEF Booked

\* A store call of the consumer goes on with the same event, or with none.
LEMMA ConsumerGoes ==
    ASSUME TypeInv, NEW to, NEW read, Goto(Consumer, at[Consumer], to, read)
    PROVE  at'[Consumer] = to /\ (to # "idle" => job'[Consumer] = job[Consumer])
  BY EventFacts DEF Goto, TypeInv, TypeOK

\* The trade that is recorded is the first one of its execution, and its bumps are
\* owed from then on.
LEMMA TradeBooked ==
    ASSUME AuditInv, Once, Booked, InsertTrade(Consumer)
    PROVE  Booked'
  <1> DEFINE e == job[Consumer].exec
  <1>1. /\ job[Consumer] \in Events /\ e \in Execs /\ Consumer \in Writers
        /\ at[Consumer] = "trade" /\ at'[Consumer] = "log" /\ job'[Consumer] = job[Consumer]
    <2>1. job[Consumer] \in Events /\ e \in Execs /\ Consumer \in Writers
      BY EventFacts DEF AuditInv, TypeInv, TypeOK
    <2>2. Goto(Consumer, at[Consumer], Succeeded(Consumer), 0) /\ at[Consumer] = "trade"
      BY DEF InsertTrade, Goto
    <2>3. Succeeded(Consumer) = "log"
      BY <2>2 DEF Succeeded
    <2> QED
      BY <2>1, <2>2, <2>3, ConsumerGoes DEF AuditInv
  <1>2. /\ UNCHANGED <<status, position>>
        /\ accounts'[e] = Append(accounts[e], status[e])
        /\ \A x \in Execs \ {e} : accounts'[x] = accounts[x]
    BY <1>1 DEF InsertTrade, execVars, positionVars, AuditInv, TypeInv, TypeOK
  <1>3. accounts[e] = << >> /\ accounts'[e] # << >>
    <2>1. Holds(Consumer, job[Consumer]) /\ job[Consumer].type = "result"
      BY <1>1 DEF Holds, AuditInv, TypeInv, Known, JobKnown
    <2>2. Copies(job[Consumer]) > 0 /\ Copies(job[Consumer]) + Rows(job[Consumer]) = 1
      BY <1>1, <2>1, UnderWay DEF Once
    <2>3. Copies(job[Consumer]) \in Nat /\ Rows(job[Consumer]) \in Nat
      BY <1>1, UnderWay
    <2>4. Len(trades[e]) = 0
      BY <2>1, <2>2, <2>3 DEF Rows
    <2>5. Len(accounts[e]) = 0 /\ accounts[e] \in Seq({"skipped", "submitted", "failed"})
      BY <1>1, <2>4 DEF AuditInv, TablesInv, RowsMatch, TypeInv, TypeOK
    <2>6. accounts[e] = << >>
      BY <2>5
    <2>7. << status[e] >> # << >>
      OBVIOUS
    <2> QED
      BY <1>2, <2>6, <2>7
  <1>4. \A t : OwesBase(t) = 0 /\ OwesQuote(t) = 0
    BY <1>1 DEF OwesBase, OwesQuote
  <1>5. \A t : /\ OwesBase(t)' = IF status[e] = "submitted" /\ Base[e] = t THEN 1 ELSE 0
               /\ OwesQuote(t)' = IF status[e] = "submitted" /\ Quote[e] = t THEN 1 ELSE 0
    BY <1>1, <1>2 DEF OwesBase, OwesQuote, Books
  <1> HIDE DEF e
  <1>6. CASE status[e] = "submitted"
    <2>1. Moved' = Moved \cup {e} /\ e \notin Moved
      BY <1>1, <1>2, <1>3, <1>6 DEF Moved
    <2>2. IsFiniteSet(Moved) /\ IsFiniteSet(Moved \cup {e})
      BY FS_AddElement DEF Booked
    <2>3. ASSUME NEW t \in Tokens
          PROVE  /\ Cardinality(MovedBase(t)')
                      = Cardinality(MovedBase(t)) + (IF Base[e] = t THEN 1 ELSE 0)
                 /\ Cardinality(MovedQuote(t)')
                      = Cardinality(MovedQuote(t)) + (IF Quote[e] = t THEN 1 ELSE 0)
                 /\ Cardinality(MovedBase(t)) \in Nat /\ Cardinality(MovedQuote(t)) \in Nat
      <3>1. /\ IsFiniteSet(MovedBase(t)) /\ Cardinality(MovedBase(t)) \in Nat
            /\ IsFiniteSet(MovedQuote(t)) /\ Cardinality(MovedQuote(t)) \in Nat
        BY <2>2, MovedFinite
      <3>2. MovedBase(t)' = (IF Base[e] = t THEN MovedBase(t) \cup {e} ELSE MovedBase(t))
        BY <2>1 DEF MovedBase
      <3>3. MovedQuote(t)' = (IF Quote[e] = t THEN MovedQuote(t) \cup {e} ELSE MovedQuote(t))
        BY <2>1 DEF MovedQuote
      <3>4. e \notin MovedBase(t) /\ e \notin MovedQuote(t)
        BY <2>1 DEF MovedBase, MovedQuote
      <3>5. /\ Cardinality(MovedBase(t) \cup {e}) = Cardinality(MovedBase(t)) + 1
            /\ Cardinality(MovedQuote(t) \cup {e}) = Cardinality(MovedQuote(t)) + 1
        BY <3>1, <3>4, FS_AddElement
      <3>6. Cardinality(MovedBase(t)')
              = Cardinality(MovedBase(t)) + (IF Base[e] = t THEN 1 ELSE 0)
        BY <3>1, <3>2, <3>5
      <3>7. Cardinality(MovedQuote(t)')
              = Cardinality(MovedQuote(t)) + (IF Quote[e] = t THEN 1 ELSE 0)
        BY <3>1, <3>3, <3>5
      <3> QED
        BY <3>1, <3>6, <3>7
    <2>4. ASSUME NEW t \in Tokens
          PROVE  position'[t] + OwesBase(t)' + OwesQuote(t)'
                   = Cardinality(MovedBase(t)') + Cardinality(MovedQuote(t)')
      <3>1. position[t] \in Nat
        BY DEF AuditInv, TypeInv, TypeOK
      <3>2. position[t] + 0 + 0 = Cardinality(MovedBase(t)) + Cardinality(MovedQuote(t))
        BY <1>4 DEF Booked
      <3>3. position'[t] = position[t]
        BY <1>2
      <3>4. /\ OwesBase(t)' = (IF Base[e] = t THEN 1 ELSE 0)
            /\ OwesQuote(t)' = (IF Quote[e] = t THEN 1 ELSE 0)
        BY <1>5, <1>6
      <3> QED
        BY <2>3, <3>1, <3>2, <3>3, <3>4
    <2>5. IsFiniteSet(Moved')
      BY <2>1, <2>2
    <2> QED
      BY <1>1, <2>4, <2>5 DEF Booked
  <1>7. CASE status[e] # "submitted"
    <2>1. Moved' = Moved
      BY <1>1, <1>2, <1>7 DEF Moved
    <2>2. \A t \in Tokens : OwesBase(t)' = OwesBase(t) /\ OwesQuote(t)' = OwesQuote(t)
      BY <1>4, <1>5, <1>7
    <2> QED
      BY <1>1, <1>2, <2>1, <2>2, BooksKept
  <1> QED
    BY <1>6, <1>7

\* A bump is owed no longer once it is written.
LEMMA BumpBooked ==
    ASSUME AuditInv, OneWriter, Booked, WritePosition(Consumer)
    PROVE  Booked'
  <1> DEFINE e == job[Consumer].exec
             x == IF at[Consumer] = "writeBase" THEN Base[e] ELSE Quote[e]
  <1>1. /\ Consumer \in Writers /\ e \in Execs /\ x \in Tokens
        /\ at[Consumer] \in {"writeBase", "writeQuote"}
        /\ Books(Consumer) /\ status[e] = "submitted"
        /\ position[x] \in Nat /\ seen[Consumer] = position[x]
    <2>1. at[Consumer] \in {"writeBase", "writeQuote"}
      BY DEF WritePosition
    <2>2. e \in Execs /\ Consumer \in Writers
      BY EventFacts DEF AuditInv, TypeInv, TypeOK
    <2>3. x \in Tokens
      BY <2>2, TokensAssumption
    <2>4. Books(Consumer) /\ status[e] = "submitted"
      BY <2>1 DEF Booked, Books
    <2>5. Token(Consumer) = x /\ seen[Consumer] = position[Token(Consumer)]
      BY <2>1 DEF Token, OneWriter
    <2> QED
      BY <2>1, <2>2, <2>3, <2>4, <2>5 DEF AuditInv, TypeInv, TypeOK
  <1>2. /\ UNCHANGED <<status, accounts>>
        /\ \A t \in Tokens : position'[t] = position[t] + (IF t = x THEN 1 ELSE 0)
        /\ \A t \in Tokens : position[t] \in Nat
    <2>1. Token(Consumer) = x
      BY <1>1 DEF Token
    <2>2. position' = [position EXCEPT ![x] = seen[Consumer] + 1]
      BY <2>1 DEF WritePosition
    <2>3. position \in [Tokens -> Nat]
      BY DEF AuditInv, TypeInv, TypeOK
    <2> HIDE DEF x
    <2> QED
      BY <1>1, <2>2, <2>3 DEF WritePosition, execVars, tableVars
  <1>3. Moved' = Moved
    BY <1>2 DEF Moved
  <1>4. \A t : /\ MovedBase(t)' = MovedBase(t) /\ MovedQuote(t)' = MovedQuote(t)
               /\ Cardinality(MovedBase(t)) \in Nat /\ Cardinality(MovedQuote(t)) \in Nat
    BY <1>3, MovedFinite DEF Booked, MovedBase, MovedQuote
  <1>5. /\ at[Consumer] = "writeBase" =>
              at'[Consumer] = "readQuote" /\ job'[Consumer] = job[Consumer]
        /\ at[Consumer] = "writeQuote" => at'[Consumer] = "idle"
    <2>1. Goto(Consumer, at[Consumer], Succeeded(Consumer), 0)
      BY DEF WritePosition
    <2>2. Succeeded(Consumer) = IF at[Consumer] = "writeBase" THEN "readQuote" ELSE "idle"
      BY <1>1 DEF Succeeded
    <2> QED
      BY <1>1, <2>1, <2>2, ConsumerGoes DEF AuditInv
  <1>6. \A t : OwesBase(t)' + OwesQuote(t)' + (IF t = x THEN 1 ELSE 0)
                 = OwesBase(t) + OwesQuote(t)
    <2>1. CASE at[Consumer] = "writeBase"
      <3>1. \A t : /\ OwesBase(t) = (IF Base[e] = t THEN 1 ELSE 0) /\ OwesBase(t)' = 0
                   /\ OwesQuote(t) = (IF Quote[e] = t THEN 1 ELSE 0)
                   /\ OwesQuote(t)' = (IF Quote[e] = t THEN 1 ELSE 0)
        BY <1>1, <1>2, <1>5, <2>1 DEF OwesBase, OwesQuote, Books
      <3>2. x = Base[e]
        BY <2>1
      <3> HIDE DEF x, e
      <3> QED
        BY <3>1, <3>2
    <2>2. CASE at[Consumer] = "writeQuote"
      <3>1. \A t : /\ OwesBase(t) = 0 /\ OwesBase(t)' = 0
                   /\ OwesQuote(t) = (IF Quote[e] = t THEN 1 ELSE 0)
                   /\ OwesQuote(t)' = 0
        BY <1>1, <1>2, <1>5, <2>2 DEF OwesBase, OwesQuote, Books
      <3>2. x = Quote[e]
        BY <2>2
      <3> HIDE DEF x, e
      <3> QED
        BY <3>1, <3>2
    <2> QED
      BY <1>1, <2>1, <2>2
  <1>7. \A t : /\ OwesBase(t) \in Nat /\ OwesQuote(t) \in Nat
               /\ OwesBase(t)' \in Nat /\ OwesQuote(t)' \in Nat
    BY DEF OwesBase, OwesQuote
  <1>8. at'[Consumer] \in {"readBase", "writeBase", "readQuote", "writeQuote"} =>
            Books(Consumer)'
    BY <1>1, <1>2, <1>5 DEF Books
  <1> HIDE DEF x, e
  <1>9. ASSUME NEW t \in Tokens
        PROVE  position'[t] + OwesBase(t)' + OwesQuote(t)'
                 = Cardinality(MovedBase(t)') + Cardinality(MovedQuote(t)')
    <2>1. position[t] + OwesBase(t) + OwesQuote(t)
            = Cardinality(MovedBase(t)) + Cardinality(MovedQuote(t))
      BY DEF Booked
    <2>2. position'[t] = position[t] + (IF t = x THEN 1 ELSE 0) /\ position[t] \in Nat
      BY <1>2
    <2> QED
      BY <1>4, <1>6, <1>7, <2>1, <2>2
  <1>10. IsFiniteSet(Moved')
    BY <1>3 DEF Booked
  <1> QED
    BY <1>8, <1>9, <1>10 DEF Booked

\* The other calls of the consumer owe as much afterwards as before.
LEMMA CallBooked ==
    ASSUME AuditInv, Booked,
           InsertDecisionLog(Consumer) \/ InsertExecutionLog(Consumer) \/ ReadPosition(Consumer)
    PROVE  Booked'
  <1>1. UNCHANGED <<status, accounts, position>>
    BY DEF InsertDecisionLog, InsertExecutionLog, ReadPosition, execVars, tableVars,
           positionVars
  <1>2. Moved' = Moved
    BY <1>1 DEF Moved
  <1>3. PICK read : Goto(Consumer, at[Consumer], Succeeded(Consumer), read)
    BY DEF InsertDecisionLog, InsertExecutionLog, ReadPosition, Goto
  <1>4. at[Consumer] \in {"decision", "log", "readBase", "readQuote"}
    BY DEF InsertDecisionLog, InsertExecutionLog, ReadPosition, Goto
  <1>5. /\ at'[Consumer] = Succeeded(Consumer)
        /\ Succeeded(Consumer) # "idle" => job'[Consumer] = job[Consumer]
    BY <1>3, ConsumerGoes DEF AuditInv
  <1>6. Succeeded(Consumer) = CASE at[Consumer] = "log" -> IF Books(Consumer) THEN "readBase"
                                                                            ELSE "idle"
                                [] at[Consumer] = "readBase" -> "writeBase"
                                [] at[Consumer] = "readQuote" -> "writeQuote"
                                [] OTHER -> "idle"
    BY <1>4 DEF Succeeded
  <1>7. Succeeded(Consumer) # "idle" => Books(Consumer) /\ Books(Consumer)' = Books(Consumer)
    BY <1>1, <1>4, <1>5, <1>6 DEF Books, Booked
  <1>8. \A t \in Tokens : OwesBase(t)' = OwesBase(t) /\ OwesQuote(t)' = OwesQuote(t)
    <2>1. CASE Succeeded(Consumer) = "idle"
      <3>1. at[Consumer] = "decision" \/ ~Books(Consumer)
        BY <1>4, <1>6, <2>1
      <3> QED
        BY <1>5, <2>1, <3>1 DEF OwesBase, OwesQuote
    <2>2. CASE Succeeded(Consumer) # "idle"
      <3>1. \/ at[Consumer] \in {"log", "readBase"} /\ at'[Consumer] \in {"readBase", "writeBase"}
            \/ at[Consumer] = "readQuote" /\ at'[Consumer] = "writeQuote"
        BY <1>4, <1>5, <1>6, <2>2
      <3>2. job'[Consumer] = job[Consumer] /\ Books(Consumer) /\ Books(Consumer)'
        BY <1>5, <1>7, <2>2
      <3> QED
        BY <3>1, <3>2 DEF OwesBase, OwesQuote
    <2> QED
      BY <2>1, <2>2
  <1>9. at'[Consumer] \in {"readBase", "writeBase", "readQuote", "writeQuote"} =>
            Books(Consumer)'
    BY <1>5, <1>7
  <1> QED
    BY <1>1, <1>2, <1>8, <1>9, BooksKept

\* The executions have no trade recorded while their status can change, and the event
\* that the consumer has in hand keeps the status it has.
LEMMA OthersBooked ==
    ASSUME AuditInv, Booked, UNCHANGED <<job, at, accounts, position>>,
           \A e \in Execs : status[e] # "none" => status'[e] = status[e]
    PROVE  Booked'
  <1>1. Moved' = Moved
    <2>1. \A e \in Execs : accounts[e] # << >> => status'[e] = status[e]
      BY DEF AuditInv, TablesInv, RowsMatch
    <2> QED
      BY <2>1 DEF Moved
  <1>2. at[Consumer] \notin {"idle", "decision"} => Books(Consumer)' = Books(Consumer)
    <2>1. at[Consumer] \notin {"idle", "decision"} =>
              job[Consumer].exec \in Execs /\ status[job[Consumer].exec] # "none"
      BY EventFacts DEF AuditInv, TypeInv, TypeOK, Known, JobKnown
    <2> QED
      BY <2>1 DEF Books
  <1>3. \A t \in Tokens : OwesBase(t)' = OwesBase(t) /\ OwesQuote(t)' = OwesQuote(t)
    BY <1>2 DEF OwesBase, OwesQuote
  <1>4. at'[Consumer] \in {"readBase", "writeBase", "readQuote", "writeQuote"} =>
            Books(Consumer)'
    BY <1>2 DEF Booked
  <1> QED
    BY <1>1, <1>3, <1>4, BooksKept

\* The books are inductive, given that the rows are written once and by one writer.
LEMMA BookNext ==
    ASSUME AuditInv, AuditInv', BumpInv, OrderInv, BookInv, [Next]_vars
    PROVE  BookInv'
  <1> SUFFICES ASSUME Redis, NoFaults'  PROVE Booked'
    BY DEF BookInv
  <1>1. /\ NoFaults /\ pushErrors = 0 /\ pushErrors' = 0
        /\ ~PopLost /\ ~Crash
        /\ \A w \in Writers : ~GiveUp(w)
        /\ \A e \in Execs : ~ConfirmGivesUp(e)
    BY FaultFree
  <1>2. OneWriter /\ Once /\ Booked
    BY <1>1 DEF BumpInv, OrderInv, BookInv
  <1>3. ASSUME NEW w \in Writers, at[w] # "idle"  PROVE w = Consumer
    BY <1>2, <1>3 DEF OneWriter, Writers
  <1>4. ASSUME NEW w \in Writers,
               InsertDecisionLog(w) \/ InsertTrade(w) \/ InsertExecutionLog(w)
                 \/ ReadPosition(w) \/ WritePosition(w)
        PROVE  Booked'
    <2>1. w = Consumer
      BY <1>3, <1>4 DEF InsertDecisionLog, InsertTrade, InsertExecutionLog, ReadPosition,
                        WritePosition, Goto
    <2> QED
      BY <1>2, <1>4, <2>1, TradeBooked, BumpBooked, CallBooked
  <1>5. CASE Pop
    <2>1. /\ at[Consumer] = "idle" /\ at'[Consumer] \in {"decision", "trade"}
          /\ UNCHANGED <<status, accounts, position>>
      BY <1>5, EventFacts DEF Pop, Begin, execVars, tableVars, positionVars, AuditInv, TypeInv,
                              TypeOK
    <2>2. Moved' = Moved
      BY <2>1 DEF Moved
    <2>3. \A t \in Tokens : OwesBase(t)' = OwesBase(t) /\ OwesQuote(t)' = OwesQuote(t)
      BY <2>1 DEF OwesBase, OwesQuote
    <2> QED
      BY <1>2, <2>1, <2>2, <2>3, BooksKept
  <1>6. ASSUME NEW e \in Execs, NEW v, Enqueue(e, v)  PROVE UNCHANGED <<job, at>>
    BY <1>1, <1>6 DEF Enqueue, jobVars
  <1>7. CASE \E e \in Execs : Decide(e) \/ Record(e)
    <2>1. UNCHANGED <<job, at>>
      BY <1>6, <1>7 DEF Decide, Record
    <2>2. UNCHANGED <<accounts, position>>
      BY <1>7 DEF Decide, Record, tableVars, positionVars
    <2>3. \A e \in Execs : status[e] # "none" => status'[e] = status[e]
      <3>1. PICK e \in Execs : Decide(e) \/ Record(e)
        BY <1>7
      <3>2. UNCHANGED status \/ (pc[e] = "new" /\ status' = [status EXCEPT ![e] = "skipped"])
        BY <3>1 DEF Decide, Record
      <3>3. pc[e] = "new" => status[e] = "none"
        BY DEF AuditInv, TablesInv, RowsMatch
      <3> QED
        BY <3>2, <3>3 DEF AuditInv, TypeInv, TypeOK
    <2> QED
      BY <1>2, <2>1, <2>2, <2>3, OthersBooked
  <1>8. CASE \E e \in Execs : Outcome(e) \/ Confirm(e)
    <2>1. UNCHANGED <<job, at, accounts, position>>
      BY <1>8 DEF Outcome, Confirm, Receipt, UpdateTradeStatus, LogFinal, ConfirmGivesUp,
                  jobVars, tableVars, positionVars
    <2>2. \A e \in Execs : status[e] # "none" => status'[e] = status[e]
      <3>1. PICK e \in Execs : Outcome(e) \/ Confirm(e)
        BY <1>8
      <3>2. \/ UNCHANGED status
            \/ pc[e] = "swap" /\ \E s : status' = [status EXCEPT ![e] = s]
        BY <3>1 DEF Outcome, Confirm, Receipt, UpdateTradeStatus, LogFinal, ConfirmGivesUp,
                    execVars
      <3>3. pc[e] = "swap" => status[e] = "none"
        BY DEF AuditInv, TablesInv, RowsMatch
      <3> QED
        BY <3>2, <3>3 DEF AuditInv, TypeInv, TypeOK
    <2> QED
      BY <1>2, <2>1, <2>2, OthersBooked
  <1>9. CASE UNCHANGED vars
    <2>1. UNCHANGED <<job, at, accounts, position, status>>
      BY <1>9 DEF vars, jobVars, tableVars, positionVars, execVars
    <2> QED
      BY <1>2, <2>1, OthersBooked
  <1> QED
    BY <1>1, <1>4, <1>5, <1>7, <1>8, <1>9, StepKinds

\* When everything issued is written and nothing has failed, a position holds every
\* recorded trade of its token once (updateAccountPositions bumps the base and the
\* quote token of a submitted trade, in calls of their own, after its row is there).
THEOREM PositionsMatch == Spec => []PositionsMatchTrades
  <1>1. Init => BumpInv
    BY EventFacts DEF Init, BumpInv, OneWriter, Writers
  <1>2. Init => BookInv
    <2> SUFFICES ASSUME Init  PROVE Booked
      BY DEF BookInv
    <2>1. Moved = {} /\ at[Consumer] = "idle"
      BY EventFacts DEF Init, Moved
    <2>2. \A t \in Tokens : /\ MovedBase(t) = {} /\ MovedQuote(t) = {} /\ position[t] = 0
                            /\ OwesBase(t) = 0 /\ OwesQuote(t) = 0
      BY <2>1 DEF Init, MovedBase, MovedQuote, OwesBase, OwesQuote
    <2>3. IsFiniteSet({}) /\ Cardinality({}) = 0
      BY FS_EmptySet
    <2> QED
      BY <2>1, <2>2, <2>3 DEF Booked
  <1>3. AuditInv /\ [Next]_vars => AuditInv'
    BY AuditInvNext
  <1>4. AuditInv /\ BumpInv /\ [Next]_vars => BumpInv'
    BY BumpStep DEF AuditInv
  <1>5. AuditInv /\ AuditInv' /\ BumpInv /\ OrderInv /\ [Next]_vars => OrderInv'
    BY OrderNext
  <1>6. AuditInv /\ AuditInv' /\ BumpInv /\ OrderInv /\ BookInv /\ [Next]_vars => BookInv'
    BY BookNext
  <1>7. AuditInv /\ BookInv => PositionsMatchTrades
    <2> SUFFICES ASSUME AuditInv, Booked, Quiet, NEW t \in Tokens
                 PROVE  position[t] = Movers(t)
      BY DEF PositionsMatchTrades, BookInv
    <2>1. OwesBase(t) = 0 /\ OwesQuote(t) = 0
      BY EventFacts DEF Quiet, OwesBase, OwesQuote
    <2>2. position[t] + 0 + 0 = Cardinality(MovedBase(t)) + Cardinality(MovedQuote(t))
      BY <2>1 DEF Booked
    <2>3. position[t] \in Nat
      BY DEF AuditInv, TypeInv, TypeOK
    <2> QED
      BY <2>2, <2>3, MoversCount DEF AuditInv
  <1> QED
    BY <1>1, <1>2, <1>3, <1>4, <1>5, <1>6, <1>7, AuditInvInit, OrderInit, PTL DEF Spec

=============================================================================
