----------------------------- MODULE HubProofs ------------------------------
(***************************************************************************)
(* The safety of Hub for any set of clients and any capacity: WSHub.run    *)
(* writes to members only.                                                 *)
(***************************************************************************)
EXTENDS Hub, TLAPS

\* A client is written to under the lock only, and the next writer is one that
\* waits for it.
HubInv ==
    /\ current # Nobody => run = "write"
    /\ writer # Nobody => writer \in Waiting
    /\ WritesReachMembers

\* The connection that takes the lock joins, goes on or is closed.
LEMMA EnterState ==
    ASSUME TypeOK, HubInv, NEW c \in Clients, Enter(c)
    PROVE  /\ c \in Waiting
           /\ state'[c] \in {"member", "away"}
           /\ \A d \in Clients : d # c => state'[d] = state[d]
           /\ state' \in [Clients -> {"away", "joining", "member", "subscribing", "leaving"}]
  <1>1. c \in Waiting
    BY HubAssumption DEF Enter, HubInv
  <1>2. Done[state[c]] \in {"member", "away"}
    BY <1>1 DEF Waiting, Done
  <1> QED
    BY <1>1, <1>2 DEF TypeOK, Enter

\* Every step keeps the types and the membership of the written-to.
LEMMA HubStep ==
    ASSUME TypeOK, HubInv, [Next]_vars
    PROVE  TypeOK' /\ HubInv'
  <1> USE HubAssumption DEF TypeOK, HubInv, WritesReachMembers
  <1>1. ASSUME NEW c \in Clients, Stall(c) \/ Resume(c) \/ Go(c)  PROVE TypeOK' /\ HubInv'
    BY <1>1 DEF Stall, Resume, Go, Waiting, Members
  <1>2. ASSUME NEW c \in Clients, Connect(c)  PROVE TypeOK' /\ HubInv'
    <2>1. Members' = Members /\ Waiting \subseteq Waiting'
      BY <1>2 DEF Connect, Members, Waiting
    <2> QED
      BY <1>2, <2>1 DEF Connect
  <1>3. ASSUME NEW c \in Clients, Subscribe(c) \/ ReadError(c)  PROVE TypeOK' /\ HubInv'
    <2>1. Members' = Members /\ Waiting \subseteq Waiting'
      BY <1>3 DEF Subscribe, ReadError, Members, Waiting
    <2> QED
      BY <1>3, <2>1 DEF Subscribe, ReadError
  <1>4. ASSUME NEW c \in Clients, Announce(c)  PROVE TypeOK' /\ HubInv'
    BY <1>4 DEF Announce, Members, Waiting
  <1>5. ASSUME NEW c \in Clients, Enter(c)  PROVE TypeOK' /\ HubInv'
    <2>1. writer' = Nobody /\ run # "write" /\ current' = Nobody
      BY <1>5 DEF Enter, Unlock
    <2>2. Members' \subseteq Clients
      BY DEF Members
    <2>3. run' = "write" => todo' = Members'
      BY <1>5, <2>1 DEF Enter, Unlock
    <2>4. TypeOK'
      BY <1>5, <2>1, <2>2, EnterState DEF Enter, Unlock
    <2> QED
      BY <2>1, <2>3, <2>4
  <1>6. ASSUME Broadcast \/ Receive  PROVE TypeOK' /\ HubInv'
    <2>1. Members' = Members /\ Waiting' = Waiting
      BY <1>6 DEF Broadcast, Receive, Members, Waiting
    <2>2. TypeOK'
      BY <1>6 DEF Broadcast, Receive
    <2> QED
      BY <1>6, <2>1, <2>2 DEF Broadcast, Receive
  <1>7. ASSUME RLock  PROVE TypeOK' /\ HubInv'
    BY <1>7 DEF RLock, Members, Waiting
  <1>8. ASSUME NEW c \in Clients, StartWrite(c)  PROVE TypeOK' /\ HubInv'
    BY <1>8 DEF StartWrite, Members, Waiting
  <1>9. ASSUME NEW c \in Clients, FinishWrite(c)  PROVE TypeOK' /\ HubInv'
    BY <1>9 DEF FinishWrite, Members, Waiting
  <1>10. ASSUME RUnlock  PROVE TypeOK' /\ HubInv'
    BY <1>10 DEF RUnlock, Members, Waiting
  <1>11. ASSUME UNCHANGED vars  PROVE TypeOK' /\ HubInv'
    BY <1>11 DEF vars, Members, Waiting
  <1> QED
    BY <1>1, <1>2, <1>3, <1>4, <1>5, <1>6, <1>7, <1>8, <1>9, <1>10, <1>11 DEF Next

(* The variables keep their types, and what is left of a walk over the     *)
(* clients are members, none of them closed (run, handleWS).               *)
THEOREM MembersOnly == Spec => [](TypeOK /\ WritesReachMembers)
  <1>1. Init => TypeOK /\ HubInv
    BY HubAssumption DEF Init, TypeOK, HubInv, WritesReachMembers
  <1>2. HubInv => WritesReachMembers
    BY DEF HubInv
  <1> QED
    BY <1>1, <1>2, HubStep, PTL DEF Spec

=============================================================================
