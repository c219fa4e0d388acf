------------------------------- MODULE Nonces -------------------------------
(***************************************************************************)
(* How the operator's transactions get their nonces (execution/nonce.go).  *)
(* SignAndSend holds a mutex from the allocation of the nonce until the    *)
(* transaction is sent; every call to a node fails over to the next RPC    *)
(* endpoint.  The nodes behind the endpoints are Ethereum's: each has its  *)
(* own view of the chain and its own pool of pending transactions.         *)
(***************************************************************************)
EXTENDS Integers, Sequences, FiniteSets

CONSTANTS
    Calls,     \* the goroutines that call SignAndSend, once each (a bound)
    None,      \* no call
    Endpoints, \* how many RPC endpoints there are; they are tried in order
    MaxErrors  \* bound on calls to an endpoint that fail

ASSUME NoneAssumption == None \notin Calls
ASSUME EndpointsAssumption == Endpoints \in Nat \ {0} /\ MaxErrors \in Nat

VARIABLES
    next,   \* Nonces.next; 0 means "ask the node"
    holder, \* the call that holds Nonces.mu
    pc,     \* where each call is
    nonce,  \* the nonce it was given
    at,     \* the endpoint it sends to next
    errors, \* failed calls so far
    chain,  \* the calls whose transactions were mined, by nonce
    head,   \* how much of the chain each node has seen
    pool    \* the pending transactions each node knows, by nonce

vars == <<next, holder, pc, nonce, at, errors, chain, head, pool>>
nodeVars == <<chain, head, pool>>

Nodes == 1..Endpoints

\* A transaction is its nonce and the call that signed it.
Txs == [nonce : Nat, by : Calls]

TypeOK ==
    /\ next \in Nat
    /\ holder \in Calls \cup {None}
    /\ pc \in [Calls -> {"new", "allocate", "fees", "send", "sent", "failed"}]
    /\ nonce \in [Calls -> Nat]
    /\ at \in [Calls -> Nodes]
    /\ errors \in Nat
    /\ chain \in Seq(Calls)
    /\ head \in [Nodes -> 0..Len(chain)]
    /\ pool \in [Nodes -> SUBSET Txs]

Init ==
    /\ next = 0
    /\ holder = None
    /\ pc = [c \in Calls |-> "new"]
    /\ nonce = [c \in Calls |-> 0]
    /\ at = [c \in Calls |-> 1]
    /\ errors = 0
    /\ chain = << >>
    /\ head = [k \in Nodes |-> 0]
    /\ pool = [k \in Nodes |-> {}]

-----------------------------------------------------------------------------
(* A node.                                                                 *)

Tx(c) == [nonce |-> nonce[c], by |-> c]

Knows(k, n) == \E t \in pool[k] : t.nonce = n

\* PendingNonceAt: the first nonce that is neither mined nor pending, as far as
\* this node can see.
Pending(k, n) ==
    /\ ~Knows(k, n)
    /\ \A m \in head[k]..(n - 1) : Knows(k, m)

\* The node takes the transaction: it is new, known already, or pays enough to
\* replace the one with its nonce.
Takes(k, c) ==
    /\ nonce[c] >= head[k]
    /\ pool' = [pool EXCEPT ![k] = {t \in @ : t.nonce # nonce[c]} \cup {Tx(c)}]

\* Nonce too low, or the one with its nonce is not worth replacing.
Rejects(k, c) ==
    \/ nonce[c] < head[k]
    \/ \E t \in pool[k] : t.nonce = nonce[c] /\ t # Tx(c)

\* Nodes pass pending transactions on to each other.
Gossip(k, l) ==
    /\ \E t \in pool[k] :
          /\ t.nonce >= head[l] /\ ~Knows(l, t.nonce)
          /\ pool' = [pool EXCEPT ![l] = @ \cup {t}]
    /\ UNCHANGED <<next, holder, pc, nonce, at, errors, chain, head>>

\* A block includes the next transaction of the account, from any pool.
Mine ==
    /\ \E k \in Nodes : \E t \in pool[k] :
          t.nonce = Len(chain) /\ chain' = Append(chain, t.by)
    /\ UNCHANGED <<next, holder, pc, nonce, at, errors, head, pool>>

\* A node imports the blocks it has missed.
Import(k) ==
    /\ head[k] < Len(chain)
    /\ head' = [head EXCEPT ![k] = Len(chain)]
    /\ pool' = [pool EXCEPT ![k] = {t \in @ : t.nonce >= Len(chain)}]
    /\ UNCHANGED <<next, holder, pc, nonce, at, errors, chain>>

-----------------------------------------------------------------------------
(* SignAndSend.                                                            *)

\* n calls to an endpoint fail.
Fails(n) ==
    /\ errors + n <= MaxErrors
    /\ errors' = errors + n

\* Faulty: returns with the mutex locked.
ReturnLocked(c, outcome) ==
    /\ pc' = [pc EXCEPT ![c] = outcome]
    /\ UNCHANGED holder

\* The deferred unlock.
Return(c, outcome) ==
    /\ pc' = [pc EXCEPT ![c] = outcome]
    /\ holder' = None

Lock(c) ==
    /\ pc[c] = "new" /\ holder = None
    /\ holder' = c
    /\ pc' = [pc EXCEPT ![c] = "allocate"]
    /\ UNCHANGED <<next, nonce, at, errors, nodeVars>>

\* allocate: the cached nonce, or the answer of the first node that gives one.
Allocate(c) ==
    /\ pc[c] = "allocate"
    /\ \/ /\ next # 0
          /\ nonce' = [nonce EXCEPT ![c] = next]
          /\ pc' = [pc EXCEPT ![c] = "fees"]
          /\ UNCHANGED <<next, holder, errors>>
       \/ /\ next = 0
          /\ \E k \in Nodes : \E n \in head[k]..(head[k] + Cardinality(pool[k])) :
                /\ Fails(k - 1)
                /\ Pending(k, n)
                /\ next' = n
                /\ nonce' = [nonce EXCEPT ![c] = n]
          /\ pc' = [pc EXCEPT ![c] = "fees"]
          /\ UNCHANGED holder
       \/ /\ next = 0
          /\ Fails(Endpoints)
          /\ Return(c, "failed")
          /\ UNCHANGED <<next, nonce>>
    /\ UNCHANGED <<at, nodeVars>>

\* The tip and the gas price; without them next keeps what allocate left there.
Fees(c) ==
    /\ pc[c] = "fees"
    /\ \/ pc' = [pc EXCEPT ![c] = "send"] /\ UNCHANGED <<holder, errors>>
       \/ Fails(Endpoints) /\ Return(c, "failed")
    /\ UNCHANGED <<next, nonce, at, nodeVars>>

\* Faulty: the nonce is used up whether or not a node took the transaction.
NextEndpointAdvancing(c) ==
    IF at[c] < Endpoints
    THEN /\ at' = [at EXCEPT ![c] = @ + 1]
         /\ UNCHANGED <<next, holder, pc>>
    ELSE /\ next' = nonce[c] + 1
         /\ Return(c, "failed")
         /\ UNCHANGED at

\* This endpoint returned an error: on to the next one, or give up and resync.
NextEndpoint(c) ==
    IF at[c] < Endpoints
    THEN /\ at' = [at EXCEPT ![c] = @ + 1]
         /\ UNCHANGED <<next, holder, pc>>
    ELSE /\ next' = 0
         /\ Return(c, "failed")
         /\ UNCHANGED at

\* Faulty: the nonce is not counted as used.
SentUncounted(c) ==
    /\ Return(c, "sent")
    /\ UNCHANGED <<next, at>>

Sent(c) ==
    /\ next' = nonce[c] + 1
    /\ Return(c, "sent")
    /\ UNCHANGED at

\* Faulty: signs anew, with another nonce, for the next endpoint.
SendResigned(c) ==
    /\ pc[c] = "send"
    /\ \/ Takes(at[c], c) /\ Sent(c) /\ UNCHANGED <<errors, nonce>>
       \/ /\ Takes(at[c], c) /\ Fails(1) /\ NextEndpoint(c)
          /\ nonce' = [nonce EXCEPT ![c] = @ + 1]
    /\ UNCHANGED <<chain, head>>

\* sendWithFailover, one endpoint: it takes the transaction, takes it and the
\* reply is lost, rejects it, or is not reached.
Send(c) ==
    /\ pc[c] = "send"
    /\ \/ Takes(at[c], c) /\ Sent(c) /\ UNCHANGED errors
       \/ Takes(at[c], c) /\ Fails(1) /\ NextEndpoint(c)
       \/ Rejects(at[c], c) /\ NextEndpoint(c) /\ UNCHANGED <<errors, pool>>
       \/ Fails(1) /\ NextEndpoint(c) /\ UNCHANGED pool
    /\ UNCHANGED <<nonce, chain, head>>

SignAndSend(c) == Allocate(c) \/ Fees(c) \/ Send(c)

Next ==
    \/ \E c \in Calls : Lock(c) \/ SignAndSend(c)
    \/ \E k, l \in Nodes : Gossip(k, l)
    \/ Mine
    \/ \E k \in Nodes : Import(k)

Spec == Init /\ [][Next]_vars

\* Every call to a node ends with an answer or with its context; blocks are mined.
Fairness ==
    /\ WF_vars(Mine)
    /\ \A c \in Calls : WF_vars(SignAndSend(c))

FairSpec == Spec /\ Fairness

-----------------------------------------------------------------------------
(* What the allocation guarantees.                                         *)

\* No gap: below the nonce of a pending transaction every nonce is mined or
\* pending at some node, so nothing the operator sent waits for a nonce that was
\* given to nobody (resync on failure, SignAndSend).
NoGap ==
    \A k \in Nodes : \A t \in pool[k] : \A n \in Len(chain)..(t.nonce - 1) :
        \E l \in Nodes : Knows(l, n)

\* Two swaps the service believes sent share a nonce only if a call to some
\* endpoint has failed and there is another endpoint: the resync alone (next = 0,
\* SignAndSend) never gives a nonce out again.
ReusedOnlyAfterFailover ==
    \A c1, c2 \in Calls :
        /\ pc[c1] = "sent" /\ pc[c2] = "sent"
        /\ nonce[c1] = nonce[c2] /\ c1 # c2
        => Endpoints > 1 /\ errors > 0

\* A call's transaction is mined once, however many endpoints were sent it and
\* whatever the call returned, and with the nonce the call was given: the retry at
\* the next endpoint is of the transaction signed for the first (sendWithFailover).
MinedOnce ==
    /\ \A i, j \in DOMAIN chain : chain[i] = chain[j] => i = j
    /\ \A i \in DOMAIN chain : nonce[chain[i]] = i - 1

\* The nonce of a swap the service believes sent is used up in the end: the swap
\* is mined, or another one in its place.
SentNonceMined == \A c \in Calls : pc[c] = "sent" ~> Len(chain) > nonce[c]

\* Whoever locks the mutex releases it.
MutexReleased == \A c \in Calls : holder = c ~> holder # c

=============================================================================
