--------------------------- MODULE InstrumentLock ---------------------------
(***************************************************************************)
(* What tryAcquire and release of execution.Service promise together: every *)
(* instrument has at most one holder, only a free instrument is taken, and *)
(* only its holder gives it back.  A restart of the process frees all.     *)
(***************************************************************************)
CONSTANTS Instruments, Execs, None

VARIABLE holder \* the execution that holds an instrument, or None

TypeOK == holder \in [Instruments -> Execs \cup {None}]

Init == holder = [i \in Instruments |-> None]

Acquire(e, i) ==
    /\ holder[i] = None
    /\ \A j \in Instruments : holder[j] # e
    /\ holder' = [holder EXCEPT ![i] = e]

Release(e, i) ==
    /\ holder[i] = e
    /\ holder' = [holder EXCEPT ![i] = None]

Restart == holder' = [i \in Instruments |-> None]

Next ==
    \/ \E e \in Execs, i \in Instruments : Acquire(e, i) \/ Release(e, i)
    \/ Restart

Spec == Init /\ [][Next]_holder

=============================================================================
