--------------------------------- MODULE Hub ---------------------------------
(***************************************************************************)
(* The WebSocket hub of the API server.  priceBroadcaster puts the current *)
(* prices into a channel, or drops them when it is full.  WSHub.run writes *)
(* each to every client in turn and holds the hub's lock for reading all   *)
(* the while.  Connections join, subscribe and leave under the same lock,  *)
(* for writing.  A write to a client that does not read blocks: it has no  *)
(* deadline.                                                               *)
(*                                                                         *)
(* sync.RWMutex is modelled as it works: a writer that has announced       *)
(* itself holds off new readers, and when it is through, the reader that   *)
(* waited goes before the next writer.                                     *)
(***************************************************************************)
EXTENDS Naturals

CONSTANTS
    Clients,
    Nobody,  \* no client
    Buffer   \* the capacity of the channel

ASSUME HubAssumption == Nobody \notin Clients /\ Buffer \in Nat \ {0}

VARIABLES
    state,   \* what the connection's goroutine is doing; see Waiting and Members
    peer,    \* the other end: "reads", "stalls" (its buffers are full) or "gone"
    queued,  \* how many price maps are in the channel
    run,     \* WSHub.run: "receive", "rlock", "blocked" (in RLock) or "write"
    todo,    \* the clients it has yet to write to
    current, \* the one it is writing to
    writer   \* the connection that has announced itself as the lock's next writer

vars == <<state, peer, queued, run, todo, current, writer>>

TypeOK ==
    /\ state \in [Clients -> {"away", "joining", "member", "subscribing", "leaving"}]
    /\ peer \in [Clients -> {"reads", "stalls", "gone"}]
    /\ queued \in 0..Buffer
    /\ run \in {"receive", "rlock", "blocked", "write"}
    /\ todo \subseteq Clients
    /\ current \in Clients \cup {Nobody}
    /\ writer \in Clients \cup {Nobody}

\* Connections that are about to take the lock.
Waiting == {c \in Clients : state[c] \in {"joining", "subscribing", "leaving"}}

\* The keys of WSHub.clients: the connections that are not closed.
Members == {c \in Clients : state[c] \in {"member", "subscribing", "leaving"}}

Init ==
    /\ state = [c \in Clients |-> "away"]
    /\ peer = [c \in Clients |-> "gone"]
    /\ queued = 0
    /\ run = "receive"
    /\ todo = {}
    /\ current = Nobody
    /\ writer = Nobody

-----------------------------------------------------------------------------
(* The other ends. *)

Stall(c) ==
    /\ peer[c] = "reads"
    /\ peer' = [peer EXCEPT ![c] = "stalls"]
    /\ UNCHANGED <<state, queued, run, todo, current, writer>>

Resume(c) ==
    /\ peer[c] = "stalls"
    /\ peer' = [peer EXCEPT ![c] = "reads"]
    /\ UNCHANGED <<state, queued, run, todo, current, writer>>

Go(c) ==
    /\ peer[c] # "gone"
    /\ peer' = [peer EXCEPT ![c] = "gone"]
    /\ UNCHANGED <<state, queued, run, todo, current, writer>>

-----------------------------------------------------------------------------
(* handleWS and the goroutine it starts. *)

\* The connection is upgraded.
Connect(c) ==
    /\ state[c] = "away"
    /\ state' = [state EXCEPT ![c] = "joining"]
    /\ peer' = [peer EXCEPT ![c] = "reads"]
    /\ UNCHANGED <<queued, run, todo, current, writer>>

\* A subscription has been read; what is no subscription is skipped.
Subscribe(c) ==
    /\ state[c] = "member" /\ peer[c] # "gone"
    /\ state' = [state EXCEPT ![c] = "subscribing"]
    /\ UNCHANGED <<peer, queued, run, todo, current, writer>>

\* ReadMessage fails.
ReadError(c) ==
    /\ state[c] = "member" /\ peer[c] = "gone"
    /\ state' = [state EXCEPT ![c] = "leaving"]
    /\ UNCHANGED <<peer, queued, run, todo, current, writer>>

\* Lock, the part that excludes the other writers and holds off new readers.
Announce(c) ==
    /\ c \in Waiting /\ writer = Nobody
    /\ writer' = c
    /\ UNCHANGED <<state, peer, queued, run, todo, current>>

\* What the writer does under the lock; a leaving connection is then closed.
Done == [joining |-> "member", subscribing |-> "member", leaving |-> "away"]

\* Unlock lets the waiting reader in.
Unlock ==
    /\ writer' = Nobody
    /\ IF run = "blocked"
       THEN run' = "write" /\ todo' = Members'
       ELSE UNCHANGED <<run, todo>>

\* Faulty: run writes without the lock.
EnterAmidWrites(c) ==
    /\ writer = c
    /\ state' = [state EXCEPT ![c] = Done[@]]
    /\ Unlock
    /\ UNCHANGED <<peer, queued, current>>

\* Faulty: a subscription returns without Unlock.
EnterForGood(c) ==
    /\ writer = c /\ run # "write" /\ c \in Waiting
    /\ state' = [state EXCEPT ![c] = Done[@]]
    /\ IF state[c] = "subscribing" THEN UNCHANGED <<writer, run, todo>> ELSE Unlock
    /\ UNCHANGED <<peer, queued, current>>

\* Lock returns once no reader is left, and the connection makes its change.
Enter(c) ==
    /\ writer = c /\ run # "write"
    /\ state' = [state EXCEPT ![c] = Done[@]]
    /\ Unlock
    /\ UNCHANGED <<peer, queued, current>>

-----------------------------------------------------------------------------
(* priceBroadcaster and WSHub.run. *)

\* A tick; the prices are dropped when the channel is full.
Broadcast ==
    /\ queued < Buffer
    /\ queued' = queued + 1
    /\ UNCHANGED <<state, peer, run, todo, current, writer>>

Receive ==
    /\ run = "receive" /\ queued > 0
    /\ queued' = queued - 1
    /\ run' = "rlock"
    /\ UNCHANGED <<state, peer, todo, current, writer>>

RLock ==
    /\ run = "rlock"
    /\ IF writer = Nobody
       THEN run' = "write" /\ todo' = Members
       ELSE run' = "blocked" /\ UNCHANGED todo
    /\ UNCHANGED <<state, peer, queued, current, writer>>

\* The map is walked in any order.
StartWrite(c) ==
    /\ run = "write" /\ current = Nobody /\ c \in todo
    /\ current' = c
    /\ UNCHANGED <<state, peer, queued, run, todo, writer>>

\* WriteMessage returns, for a client that is gone with an error that is ignored.
FinishWrite(c) ==
    /\ current = c /\ peer[c] # "stalls"
    /\ current' = Nobody
    /\ todo' = todo \ {c}
    /\ UNCHANGED <<state, peer, queued, run, writer>>

RUnlock ==
    /\ run = "write" /\ todo = {}
    /\ run' = "receive"
    /\ UNCHANGED <<state, peer, queued, todo, current, writer>>

Next ==
    \/ \E c \in Clients :
        \/ Stall(c) \/ Resume(c) \/ Go(c)
        \/ Connect(c) \/ Subscribe(c) \/ ReadError(c) \/ Announce(c) \/ Enter(c)
        \/ StartWrite(c) \/ FinishWrite(c)
    \/ Broadcast \/ Receive \/ RLock \/ RUnlock

Spec == Init /\ [][Next]_vars

(* The goroutines and the ticker go on.  A waiting writer gets its turn    *)
(* (sync.Mutex hands over to one that has waited for a millisecond), and a *)
(* write to a client that reads again and again returns.                   *)
FairSpec ==
    /\ Spec
    /\ WF_vars(Broadcast) /\ WF_vars(Receive) /\ WF_vars(RLock) /\ WF_vars(RUnlock)
    /\ \A c \in Clients :
        /\ WF_vars(ReadError(c)) /\ SF_vars(Announce(c)) /\ WF_vars(Enter(c))
        /\ WF_vars(\E d \in Clients : StartWrite(d)) /\ SF_vars(FinishWrite(c))

-----------------------------------------------------------------------------
(* The hub never writes to a connection that has been closed, nor does the *)
(* map change under its walk: what is left of the walk are members (run    *)
(* holds the lock while it writes, server.go:762-775).                     *)
WritesReachMembers ==
    run = "write" => todo \subseteq Members /\ current \in todo \cup {Nobody}

(* If no client stalls for ever, every connection that wants the lock gets *)
(* it: whoever connects joins and whoever is gone is removed and closed;   *)
(* and the hub goes on to the next prices again and again.  One client     *)
(* that stalls for ever stops all of this (server.go:762-775).             *)
HubServes ==
    (\A c \in Clients : []<>(peer[c] # "stalls")) =>
        /\ \A c \in Clients : state[c] = "joining" ~> state[c] = "member"
        /\ \A c \in Clients : state[c] = "leaving" ~> state[c] = "away"
        /\ []<>(run = "receive") /\ []<>(run = "write")

=============================================================================
