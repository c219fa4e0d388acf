---------------------------- MODULE GuardHealth ----------------------------
(***************************************************************************)
(* The failure counter and the back-off that risk.Guard keeps for every    *)
(* instrument (guard.go, instrumentState).  They are written by two kinds  *)
(* of goroutines, the executions and the asynchronous confirmations, each  *)
(* time under the guard's mutex, and read without it by Guard.Allow.       *)
(*                                                                         *)
(* Time is counted in ticks; the first back-off, 5 seconds, lasts          *)
(* BackoffBase of them.                                                    *)
(***************************************************************************)
EXTENDS Integers

CONSTANTS
    Instruments,
    BackoffBase  \* ticks in 5 seconds

ASSUME BackoffBaseAssumption == BackoffBase \in Nat \ {0}

VARIABLES
    now,          \* the clock, in ticks
    fails,        \* instrumentState.consecutiveFails
    backoffUntil, \* instrumentState.backoffUntil; 0 is the zero time
    failedAt      \* history: when the last failure was recorded

healthVars == <<fails, backoffUntil, failedAt>>

\* The zero time.Time of a timestamp that was never set.
NoTime == -1

\* 5 s tripled until it reaches 5 min, then cut to 5 min: 5, 15, 45, 135, 300 s.
Backoff(n) ==
    BackoffBase * (IF n \in 1..4 THEN <<1, 3, 9, 27>>[n] ELSE 60)

HealthTypeOK ==
    /\ fails \in [Instruments -> Nat]
    /\ backoffUntil \in [Instruments -> Nat]
    /\ failedAt \in [Instruments -> Nat \cup {NoTime}]

HealthInit ==
    /\ fails = [i \in Instruments |-> 0]
    /\ backoffUntil = [i \in Instruments |-> 0]
    /\ failedAt = [i \in Instruments |-> NoTime]

\* Faulty: the back-off is not looked at.
HealthyUnchecked(i) == fails[i] >= 0

\* The first gate of Guard.Allow: the instrument is not backing off.
Healthy(i) == backoffUntil[i] <= now

\* Faulty: resets the back-off to a time that is none.
RecordSuccessUnset(i) ==
    /\ fails' = [fails EXCEPT ![i] = 0]
    /\ backoffUntil' = [backoffUntil EXCEPT ![i] = NoTime]
    /\ UNCHANGED failedAt

RecordSuccess(i) ==
    /\ fails' = [fails EXCEPT ![i] = 0]
    /\ backoffUntil' = [backoffUntil EXCEPT ![i] = 0]
    /\ UNCHANGED failedAt

RecordFailure(i) ==
    /\ fails' = [fails EXCEPT ![i] = @ + 1]
    /\ backoffUntil' = [backoffUntil EXCEPT ![i] = now + Backoff(fails[i] + 1)]
    /\ failedAt' = [failedAt EXCEPT ![i] = now]

=============================================================================
