---------------------------- MODULE NoncesProofs ----------------------------
(***************************************************************************)
(* Proofs about Nonces, for any number of calls and endpoints.             *)
(***************************************************************************)
EXTENDS Nonces, TLAPS

USE DEF vars, nodeVars

PCs == {"new", "allocate", "fees", "send", "sent", "failed"}

\* The nonce that a call holding the mutex works with, or the cached one.
NonceTypeOK ==
    /\ next \in Nat
    /\ nonce \in [Calls -> Nat]
    /\ pc \in [Calls -> PCs]
    /\ at \in [Calls -> Nodes]
    /\ chain \in Seq(Calls)
    /\ head \in [Nodes -> Nat]
    /\ \A k \in Nodes : head[k] <= Len(chain)
    /\ pool \in [Nodes -> SUBSET Txs]

\* Every nonce from the chain's end to below n is pending at some node.
Filled(n) ==
    \A m \in Nat : Len(chain) <= m /\ m < n => \E l \in Nodes : Knows(l, m)

\* There is no gap below a pending transaction, below the cached nonce, nor below
\* a nonce that is about to be sent.
FilledInv ==
    /\ NonceTypeOK
    /\ \A k \in Nodes : \A t \in pool[k] : Filled(t.nonce)
    /\ Filled(next)
    /\ \A c \in Calls : pc[c] \in {"fees", "send"} => Filled(nonce[c])

\* Transactions are added, or go only once they are mined: what was filled is.
LEMMA FilledKept ==
    ASSUME NonceTypeOK, Len(chain') \in Nat, Len(chain') >= Len(chain),
           \A m \in Nat : \A l \in Nodes : Knows(l, m) /\ m >= Len(chain')
                => \E k \in Nodes : Knows(k, m)',
           NEW n \in Nat, Filled(n)
    PROVE  Filled(n)'
  <1> SUFFICES ASSUME NEW m \in Nat, Len(chain') <= m, m < n
               PROVE  \E k \in Nodes : Knows(k, m)'
    BY DEF Filled
  <1>1. Len(chain) \in Nat
    BY DEF NonceTypeOK
  <1>2. PICK l \in Nodes : Knows(l, m)
    BY <1>1 DEF Filled
  <1> QED
    BY <1>2

\* Steps of a call that add no transaction and give out no nonce.
LEMMA NoncesKept ==
    ASSUME FilledInv, UNCHANGED <<chain, pool, nonce>>, next' \in {0, next},
           NonceTypeOK',
           \A c \in Calls : pc'[c] \in {"fees", "send"} => pc[c] \in {"fees", "send"}
    PROVE  FilledInv'
  <1>1. \A n : Filled(n) => Filled(n)'
    BY DEF Filled, Knows
  <1>2. Filled(0)'
    BY DEF Filled, NonceTypeOK
  <1> QED
    BY <1>1, <1>2 DEF FilledInv

\* A node that takes a transaction fills its nonce and empties none.
LEMMA TakesFills ==
    ASSUME FilledInv, NEW c \in Calls, pc[c] = "send", UNCHANGED <<chain, nonce>>,
           NEW k \in Nodes, Takes(k, c)
    PROVE  /\ pool' \in [Nodes -> SUBSET Txs]
           /\ \A n \in Nat : Filled(n) => Filled(n)'
           /\ Filled(nonce[c] + 1)'
           /\ \A l \in Nodes : \A t \in pool'[l] : Filled(t.nonce)'
  <1> USE DEF FilledInv
  <1>0. nonce[c] \in Nat /\ Tx(c) \in Txs /\ Tx(c).nonce = nonce[c]
    BY DEF NonceTypeOK, Tx, Txs
  <1>1. /\ pool' = [pool EXCEPT ![k] = {t \in @ : t.nonce # nonce[c]} \cup {Tx(c)}]
        /\ pool \in [Nodes -> SUBSET Txs]
    BY DEF Takes, NonceTypeOK
  <1>2. pool' \in [Nodes -> SUBSET Txs]
    BY <1>0, <1>1
  <1>3. \A l \in Nodes, m \in Nat : Knows(l, m) => Knows(l, m)'
    <2> SUFFICES ASSUME NEW l \in Nodes, NEW m \in Nat, NEW t \in pool[l], t.nonce = m
                 PROVE  \E u \in pool'[l] : u.nonce = m
      BY DEF Knows
    <2>1. CASE l = k /\ m = nonce[c]
      BY <1>0, <1>1, <2>1
    <2>2. CASE ~(l = k /\ m = nonce[c])
      BY <1>0, <1>1, <2>2
    <2> QED
      BY <2>1, <2>2
  <1>4. \A n \in Nat : Filled(n) => Filled(n)'
    BY <1>3, FilledKept DEF NonceTypeOK
  <1>5. Filled(nonce[c])'
    BY <1>0, <1>4
  <1>6. Knows(k, nonce[c])'
    <2>1. Tx(c) \in pool'[k]
      BY <1>1
    <2> QED
      BY <1>0, <2>1 DEF Knows
  <1>7. Filled(nonce[c] + 1)'
    <2> SUFFICES ASSUME NEW m \in Nat, Len(chain') <= m, m < nonce[c] + 1
                 PROVE  \E l \in Nodes : Knows(l, m)'
      BY DEF Filled
    <2>1. CASE m = nonce[c]
      BY <1>6, <2>1 DEF Knows
    <2>2. CASE m # nonce[c]
      <3>1. m < nonce[c]
        BY <1>0, <2>2
      <3> QED
        BY <1>5, <3>1 DEF Filled
    <2> QED
      BY <2>1, <2>2
  <1>8. \A l \in Nodes : \A t \in pool'[l] : t \in pool[l] \/ t = Tx(c)
    BY <1>1
  <1>9. \A l \in Nodes : \A t \in pool[l] : t.nonce \in Nat
    BY <1>1 DEF Txs
  <1> QED
    BY <1>0, <1>2, <1>4, <1>5, <1>7, <1>8, <1>9

\* Every step keeps the types and the filled nonces.
LEMMA FilledInvStep ==
    ASSUME FilledInv, [Next]_vars
    PROVE  FilledInv'
  <1> USE EndpointsAssumption DEF PCs
  <1>1. ASSUME NEW c \in Calls, Lock(c) PROVE FilledInv'
    <2>1. NonceTypeOK'
      BY <1>1 DEF Lock, FilledInv, NonceTypeOK
    <2> QED
      BY <1>1, <2>1, NoncesKept DEF Lock, FilledInv, NonceTypeOK
  <1>2. ASSUME NEW c \in Calls, Allocate(c) PROVE FilledInv'
    <2>1. CASE /\ nonce' = [nonce EXCEPT ![c] = next]
               /\ pc' = [pc EXCEPT ![c] = "fees"]
               /\ UNCHANGED <<next, at, nodeVars>>
      <3>1. NonceTypeOK'
        BY <2>1 DEF FilledInv, NonceTypeOK
      <3>2. \A n : Filled(n) => Filled(n)'
        BY <2>1 DEF Filled, Knows
      <3>3. \A x \in Calls : pc'[x] \in {"fees", "send"} => Filled(nonce[x])'
        BY <2>1, <3>2 DEF FilledInv, NonceTypeOK
      <3> QED
        BY <2>1, <3>1, <3>2, <3>3 DEF FilledInv
    <2>2. ASSUME NEW k \in Nodes, NEW n \in head[k]..(head[k] + Cardinality(pool[k])),
                 Pending(k, n), next' = n,
                 nonce' = [nonce EXCEPT ![c] = n],
                 pc' = [pc EXCEPT ![c] = "fees"],
                 UNCHANGED <<at, nodeVars>>
          PROVE  FilledInv'
      <3>0. head[k] \in Nat /\ n \in Nat /\ head[k] <= Len(chain)
        BY DEF FilledInv, NonceTypeOK
      <3>1. NonceTypeOK'
        BY <2>2, <3>0 DEF FilledInv, NonceTypeOK
      <3>2. \A m : Filled(m) => Filled(m)'
        BY <2>2 DEF Filled, Knows
      <3>3. Filled(n)
        BY <2>2, <3>0 DEF Filled, Pending, FilledInv, NonceTypeOK
      <3>4. \A x \in Calls : pc'[x] \in {"fees", "send"} => Filled(nonce[x])'
        BY <2>2, <3>2, <3>3 DEF FilledInv, NonceTypeOK
      <3> QED
        BY <2>2, <3>1, <3>2, <3>3, <3>4 DEF FilledInv
    <2>3. CASE /\ pc' = [pc EXCEPT ![c] = "failed"]
               /\ UNCHANGED <<next, nonce, at, nodeVars>>
      <3>1. NonceTypeOK'
        BY <2>3 DEF FilledInv, NonceTypeOK
      <3> QED
        BY <2>3, <3>1, NoncesKept DEF FilledInv, NonceTypeOK
    <2> QED
      BY <1>2, <2>1, <2>2, <2>3 DEF Allocate, Return
  <1>3. ASSUME NEW c \in Calls, Fees(c) PROVE FilledInv'
    <2>1. NonceTypeOK'
      BY <1>3 DEF Fees, Return, FilledInv, NonceTypeOK
    <2>2. \A x \in Calls : pc'[x] \in {"fees", "send"} => pc[x] \in {"fees", "send"}
      BY <1>3 DEF Fees, Return, FilledInv, NonceTypeOK
    <2> QED
      BY <1>3, <2>1, <2>2, NoncesKept DEF Fees
  <1>4. ASSUME NEW c \in Calls, Send(c) PROVE FilledInv'
    <2>0. /\ pc[c] = "send" /\ at[c] \in Nodes /\ UNCHANGED <<nonce, chain, head>>
      BY <1>4 DEF Send, FilledInv, NonceTypeOK
    <2>1. ASSUME NextEndpoint(c)
          PROVE  /\ next' \in {0, next}
                 /\ at' \in [Calls -> Nodes] /\ pc' \in [Calls -> PCs]
                 /\ \A x \in Calls : pc'[x] \in {"fees", "send"}
                                        => pc[x] \in {"fees", "send"}
      <3>1. CASE at[c] < Endpoints
        <4>1. at[c] + 1 \in Nodes
          BY <2>0, <3>1 DEF Nodes
        <4> QED
          BY <2>0, <2>1, <3>1, <4>1 DEF NextEndpoint, FilledInv, NonceTypeOK
      <3>2. CASE ~(at[c] < Endpoints)
        BY <2>0, <2>1, <3>2 DEF NextEndpoint, Return, FilledInv, NonceTypeOK
      <3> QED
        BY <3>1, <3>2
    <2>2. ASSUME Sent(c)
          PROVE  /\ next' = nonce[c] + 1
                 /\ at' \in [Calls -> Nodes] /\ pc' \in [Calls -> PCs]
                 /\ \A x \in Calls : pc'[x] \in {"fees", "send"}
                                        => pc[x] \in {"fees", "send"}
      BY <2>2 DEF Sent, Return, FilledInv, NonceTypeOK
    <2>3. CASE NextEndpoint(c) /\ UNCHANGED pool
      <3>1. NonceTypeOK'
        BY <2>0, <2>1, <2>3 DEF FilledInv, NonceTypeOK
      <3> QED
        BY <2>0, <2>1, <2>3, <3>1, NoncesKept
    <2>4. CASE Takes(at[c], c) /\ (Sent(c) \/ NextEndpoint(c))
      <3>1. /\ pool' \in [Nodes -> SUBSET Txs]
            /\ \A n \in Nat : Filled(n) => Filled(n)'
            /\ Filled(nonce[c] + 1)'
            /\ \A l \in Nodes : \A t \in pool'[l] : Filled(t.nonce)'
        BY <2>0, <2>4, TakesFills
      <3>2. NonceTypeOK'
        BY <2>0, <2>1, <2>2, <2>4, <3>1 DEF FilledInv, NonceTypeOK
      <3>3. Filled(next)'
        <4>1. Filled(0)'
          BY <3>2 DEF Filled, NonceTypeOK
        <4>2. next' \in {0, next, nonce[c] + 1}
          BY <2>1, <2>2, <2>4
        <4>3. next' = nonce[c] + 1 => Filled(next)'
          BY <2>0, <3>1 DEF Filled
        <4> QED
          BY <3>1, <4>1, <4>2, <4>3 DEF FilledInv, NonceTypeOK
      <3>4. \A x \in Calls : pc'[x] \in {"fees", "send"} => Filled(nonce[x])'
        BY <2>0, <2>1, <2>2, <2>4, <3>1 DEF FilledInv, NonceTypeOK
      <3> QED
        BY <3>1, <3>2, <3>3, <3>4 DEF FilledInv
    <2> QED
      BY <1>4, <2>3, <2>4 DEF Send
  <1>5. ASSUME NEW k \in Nodes, NEW l \in Nodes, Gossip(k, l) PROVE FilledInv'
    <2>1. PICK t \in pool[k] : pool' = [pool EXCEPT ![l] = @ \cup {t}]
      BY <1>5 DEF Gossip
    <2>2. UNCHANGED <<next, pc, nonce, at, chain, head>>
      BY <1>5 DEF Gossip
    <2>3. NonceTypeOK'
      BY <2>1, <2>2 DEF FilledInv, NonceTypeOK
    <2>4. \A m \in Nat : \A x \in Nodes : Knows(x, m) => Knows(x, m)'
      BY <2>1 DEF Knows, FilledInv, NonceTypeOK
    <2>5. \A n \in Nat : Filled(n) => Filled(n)'
      BY <2>2, <2>4, FilledKept DEF FilledInv, NonceTypeOK
    <2>6. \A x \in Nodes : \A u \in pool'[x] : \E y \in Nodes : u \in pool[y]
      BY <2>1 DEF FilledInv, NonceTypeOK
    <2>7. \A y \in Nodes : \A u \in pool[y] : u.nonce \in Nat
      BY DEF FilledInv, NonceTypeOK, Txs
    <2> QED
      BY <2>2, <2>3, <2>5, <2>6, <2>7 DEF FilledInv, NonceTypeOK
  <1>6. CASE Mine
    <2>0. PICK k \in Nodes : \E t \in pool[k] : chain' = Append(chain, t.by)
      BY <1>6 DEF Mine
    <2>1. PICK t \in pool[k] : chain' = Append(chain, t.by)
      BY <2>0
    <2>2. UNCHANGED <<next, pc, nonce, at, head, pool>>
      BY <1>6 DEF Mine
    <2>3. t.by \in Calls
      BY DEF FilledInv, NonceTypeOK, Txs
    <2>4. chain' \in Seq(Calls) /\ Len(chain') = Len(chain) + 1 /\ Len(chain) \in Nat
      BY <2>1, <2>3 DEF FilledInv, NonceTypeOK
    <2>5. NonceTypeOK'
      BY <2>2, <2>4 DEF FilledInv, NonceTypeOK
    <2>6. \A n : Filled(n) => Filled(n)'
      BY <2>2, <2>4 DEF Filled, Knows
    <2> QED
      BY <2>2, <2>5, <2>6 DEF FilledInv
  <1>7. ASSUME NEW k \in Nodes, Import(k) PROVE FilledInv'
    <2>1. /\ head' = [head EXCEPT ![k] = Len(chain)]
          /\ pool' = [pool EXCEPT ![k] = {t \in @ : t.nonce >= Len(chain)}]
          /\ UNCHANGED <<next, pc, nonce, at, chain>>
      BY <1>7 DEF Import
    <2>2. NonceTypeOK'
      BY <2>1 DEF FilledInv, NonceTypeOK
    <2>3. \A m \in Nat : \A x \in Nodes : Knows(x, m) /\ m >= Len(chain) => Knows(x, m)'
      BY <2>1 DEF Knows, FilledInv, NonceTypeOK
    <2>4. \A n \in Nat : Filled(n) => Filled(n)'
      BY <2>1, <2>3, FilledKept DEF FilledInv, NonceTypeOK
    <2>5. \A x \in Nodes : \A u \in pool'[x] : u \in pool[x] /\ u.nonce \in Nat
      BY <2>1 DEF FilledInv, NonceTypeOK, Txs
    <2> QED
      BY <2>1, <2>2, <2>4, <2>5 DEF FilledInv, NonceTypeOK
  <1>8. CASE UNCHANGED vars
    <2>1. NonceTypeOK' /\ \A n : Filled(n) => Filled(n)'
      BY <1>8 DEF FilledInv, NonceTypeOK, Filled, Knows
    <2> QED
      BY <1>8, <2>1 DEF FilledInv
  <1> QED
    BY <1>1, <1>2, <1>3, <1>4, <1>5, <1>6, <1>7, <1>8 DEF Next, SignAndSend

\* The variables keep their types: above all, no call asks an endpoint there is not
\* (sendWithFailover), and no node is ahead of the chain.
THEOREM TypeCorrect == Spec => []TypeOK
  <1> DEFINE Rest == holder \in Calls \cup {None} /\ errors \in Nat
  <1>1. Init => FilledInv /\ Rest
    BY EndpointsAssumption DEF Init, FilledInv, NonceTypeOK, PCs, Filled, Nodes
  <1>2. Rest /\ [Next]_vars => Rest'
    BY EndpointsAssumption
    DEF Next, Lock, SignAndSend, Allocate, Fees, Send, Fails, Return, Sent, NextEndpoint,
        Gossip, Mine, Import, Nodes
  <1>3. FilledInv /\ Rest => TypeOK
    BY DEF FilledInv, NonceTypeOK, PCs, TypeOK
  <1> QED
    BY <1>1, <1>2, <1>3, FilledInvStep, PTL DEF Spec

\* Whatever endpoint answers, lags, loses a reply or fails, no nonce below a
\* pending transaction of the operator is left out.
THEOREM NoGapKept == Spec => []NoGap
  <1>1. Init => FilledInv
    BY EndpointsAssumption DEF Init, FilledInv, NonceTypeOK, PCs, Filled, Nodes
  <1>2. FilledInv /\ [Next]_vars => FilledInv'
    BY FilledInvStep
  <1>3. FilledInv => NoGap
    <2> SUFFICES ASSUME FilledInv, NEW k \in Nodes, NEW t \in pool[k],
                        NEW n \in Len(chain)..(t.nonce - 1)
                 PROVE  \E l \in Nodes : Knows(l, n)
      BY DEF NoGap
    <2>1. t.nonce \in Nat /\ Len(chain) \in Nat
      BY DEF FilledInv, NonceTypeOK, Txs
    <2> QED
      BY <2>1 DEF FilledInv, Filled
  <1> QED
    BY <1>1, <1>2, <1>3, PTL DEF Spec

-----------------------------------------------------------------------------
(* Transactions that are sent to several nodes.                            *)

\* A call that has signed its transaction.
Signed(c) == pc[c] \in {"send", "sent", "failed"}

\* Wherever a transaction is, it has the nonce of the call that signed it.
SignedInv ==
    /\ \A k \in Nodes : \A t \in pool[k] : Signed(t.by) /\ t.nonce = nonce[t.by]
    /\ \A i \in DOMAIN chain : Signed(chain[i]) /\ nonce[chain[i]] = i - 1

\* A call signs once: a transaction keeps its nonce.
LEMMA SignedKept ==
    ASSUME NonceTypeOK, [Next]_vars, NEW c \in Calls, Signed(c)
    PROVE  Signed(c)' /\ nonce'[c] = nonce[c]
  <1> USE DEF NonceTypeOK, Signed
  <1>1. ASSUME NEW d \in Calls, Lock(d)  PROVE Signed(c)' /\ nonce'[c] = nonce[c]
    BY <1>1 DEF Lock
  <1>2. ASSUME NEW d \in Calls, Allocate(d)  PROVE Signed(c)' /\ nonce'[c] = nonce[c]
    <2>1. d # c
      BY <1>2 DEF Allocate
    <2>2. \/ nonce' = nonce
          \/ \E n : nonce' = [nonce EXCEPT ![d] = n]
      BY <1>2 DEF Allocate
    <2>3. \E v : pc' = [pc EXCEPT ![d] = v]
      BY <1>2 DEF Allocate, Return
    <2> QED
      BY <2>1, <2>2, <2>3
  <1>3. ASSUME NEW d \in Calls, Fees(d)  PROVE Signed(c)' /\ nonce'[c] = nonce[c]
    BY <1>3 DEF Fees, Return
  <1>4. ASSUME NEW d \in Calls, Send(d)  PROVE Signed(c)' /\ nonce'[c] = nonce[c]
    <2>1. pc' = pc \/ \E v \in {"sent", "failed"} : pc' = [pc EXCEPT ![d] = v]
      BY <1>4 DEF Send, Sent, NextEndpoint, Return
    <2>2. nonce' = nonce
      BY <1>4 DEF Send
    <2> QED
      BY <2>1, <2>2
  <1>5. CASE \/ \E k, l \in Nodes : Gossip(k, l)
             \/ Mine
             \/ \E k \in Nodes : Import(k)
             \/ UNCHANGED vars
    BY <1>5 DEF Gossip, Mine, Import
  <1> QED
    BY <1>1, <1>2, <1>3, <1>4, <1>5 DEF Next, SignAndSend

\* A transaction comes into a pool from a call that sends it or from another pool.
LEMMA PoolGrows ==
    ASSUME NonceTypeOK, [Next]_vars, NEW k \in Nodes, NEW t \in pool'[k]
    PROVE  \/ \E l \in Nodes : t \in pool[l]
           \/ \E c \in Calls : pc[c] = "send" /\ t = Tx(c)
  <1> USE DEF NonceTypeOK
  <1>1. CASE pool' = pool
    BY <1>1
  <1>2. ASSUME NEW c \in Calls, pc[c] = "send", NEW l \in Nodes, Takes(l, c)
        PROVE  (\E m \in Nodes : t \in pool[m]) \/ t = Tx(c)
    BY <1>2 DEF Takes
  <1>3. ASSUME NEW l \in Nodes, NEW m \in Nodes, Gossip(l, m)
        PROVE  \E n \in Nodes : t \in pool[n]
    <2>1. PICK u \in pool[l] : pool' = [pool EXCEPT ![m] = @ \cup {u}]
      BY <1>3 DEF Gossip
    <2> QED
      BY <2>1
  <1>4. ASSUME NEW l \in Nodes, Import(l)  PROVE \E n \in Nodes : t \in pool[n]
    BY <1>4 DEF Import
  <1>5. ASSUME NEW c \in Calls, Send(c)
        PROVE  \/ pool' = pool
               \/ pc[c] = "send" /\ at[c] \in Nodes /\ Takes(at[c], c)
    BY <1>5 DEF Send
  <1>6. ASSUME NEW c \in Calls, Lock(c) \/ Allocate(c) \/ Fees(c)  PROVE pool' = pool
    BY <1>6 DEF Lock, Allocate, Fees
  <1>7. CASE Mine \/ UNCHANGED vars
    BY <1>1, <1>7 DEF Mine
  <1> QED
    BY <1>1, <1>2, <1>3, <1>4, <1>5, <1>6, <1>7 DEF Next, SignAndSend

\* A block takes the next transaction from a pool; nothing else touches the chain.
LEMMA ChainGrows ==
    ASSUME NonceTypeOK, [Next]_vars
    PROVE  \/ chain' = chain
           \/ \E k \in Nodes : \E t \in pool[k] :
                 t.nonce = Len(chain) /\ chain' = Append(chain, t.by)
  BY DEF Next, Lock, SignAndSend, Allocate, Fees, Send, Gossip, Mine, Import

\* No step parts a transaction from its nonce.
LEMMA SignedStep ==
    ASSUME NonceTypeOK, SignedInv, [Next]_vars
    PROVE  SignedInv'
  <1>1. ASSUME NEW k \in Nodes, NEW t \in pool'[k]
        PROVE  Signed(t.by)' /\ t.nonce = nonce'[t.by]
    <2>1. CASE \E l \in Nodes : t \in pool[l]
      <3>1. t.by \in Calls /\ Signed(t.by) /\ t.nonce = nonce[t.by]
        BY <2>1 DEF SignedInv, NonceTypeOK, Txs
      <3> QED
        BY <3>1, SignedKept
    <2>2. ASSUME NEW c \in Calls, pc[c] = "send", t = Tx(c)
          PROVE  Signed(t.by)' /\ t.nonce = nonce'[t.by]
      <3>1. t.by = c /\ t.nonce = nonce[c] /\ Signed(c)
        BY <2>2 DEF Tx, Signed
      <3> QED
        BY <3>1, SignedKept
    <2> QED
      BY <2>1, <2>2, PoolGrows
  <1>2. ASSUME NEW i \in DOMAIN chain'
        PROVE  Signed(chain[i])' /\ nonce'[chain'[i]] = i - 1
    <2>1. ASSUME i \in DOMAIN chain, chain'[i] = chain[i]
          PROVE  Signed(chain[i])' /\ nonce'[chain'[i]] = i - 1
      <3>1. chain[i] \in Calls /\ Signed(chain[i]) /\ nonce[chain[i]] = i - 1
        BY <2>1 DEF SignedInv, NonceTypeOK
      <3>2. PICK c \in Calls : c = chain[i]
        BY <3>1
      <3>3. Signed(c)' /\ nonce'[c] = i - 1
        BY <3>1, <3>2, SignedKept
      <3> QED
        BY <2>1, <3>2, <3>3 DEF Signed
    <2>2. ASSUME NEW k \in Nodes, NEW t \in pool[k],
                 t.nonce = Len(chain), chain' = Append(chain, t.by)
          PROVE  Signed(chain[i])' /\ nonce'[chain'[i]] = i - 1
      <3>1. t.by \in Calls /\ Signed(t.by) /\ nonce[t.by] = Len(chain)
        BY <2>2 DEF SignedInv, NonceTypeOK, Txs
      <3>2. PICK c \in Calls : c = t.by
        BY <3>1
      <3>3. Signed(c)' /\ nonce'[c] = Len(chain) /\ Len(chain) \in Nat
        BY <3>1, <3>2, SignedKept DEF NonceTypeOK
      <3>4. \/ i = Len(chain) + 1 /\ chain'[i] = c
            \/ i \in DOMAIN chain /\ chain'[i] = chain[i]
        BY <2>2, <3>2 DEF NonceTypeOK
      <3> QED
        BY <2>1, <3>3, <3>4 DEF Signed
    <2> QED
      BY <2>1, <2>2, ChainGrows
  <1> QED
    BY <1>1, <1>2 DEF SignedInv, Signed

\* However many endpoints are sent a transaction, and whether or not they say so, it
\* is mined once at most and with its nonce (sendWithFailover).
THEOREM MinedOnceOnly == Spec => []MinedOnce
  <1>1. Init => FilledInv /\ SignedInv
    BY EndpointsAssumption
    DEF Init, FilledInv, NonceTypeOK, PCs, Filled, Nodes, SignedInv
  <1>2. FilledInv /\ SignedInv /\ [Next]_vars => (FilledInv /\ SignedInv)'
    BY FilledInvStep, SignedStep DEF FilledInv
  <1>3. FilledInv /\ SignedInv => MinedOnce
    <2> SUFFICES ASSUME FilledInv, SignedInv  PROVE MinedOnce
      OBVIOUS
    <2>1. \A i \in DOMAIN chain : i \in Nat /\ nonce[chain[i]] = i - 1
      BY DEF FilledInv, NonceTypeOK, SignedInv
    <2> QED
      BY <2>1 DEF MinedOnce
  <1> QED
    BY <1>1, <1>2, <1>3, PTL DEF Spec

-----------------------------------------------------------------------------
(* Nonces that are given out twice.                                        *)

\* The first endpoint alone has been used, and has told no lie.
Quiet == Endpoints = 1 \/ errors = 0

\* Mined or pending, as far as the first node can see.
Used(m) == m < head[1] \/ Knows(1, m)

\* The nonce the first node would give out.
First(n) == ~Used(n) /\ \A m \in Nat : m < n => Used(m)

MutexInv ==
    /\ errors \in Nat
    /\ \A c \in Calls : pc[c] \in {"allocate", "fees", "send"} => holder = c

\* What the first node has seen of the account.
NodeInv ==
    /\ \A m, n \in Nat : m < n /\ Used(n) => Used(m)
    /\ \A k \in Nodes : \A t \in pool[k] : Used(t.nonce)
    /\ \A m \in Nat : m < Len(chain) => Used(m)

\* Sent swaps have nonces of their own.
SentApart ==
    \A c1, c2 \in Calls :
        pc[c1] = "sent" /\ pc[c2] = "sent" /\ nonce[c1] = nonce[c2] => c1 = c2

\* What the calls rely on: the nonce in work is the first one free, and those of
\* the transactions sent are used and distinct.
CallsInv ==
    /\ \A c \in Calls : at[c] = 1
    /\ next # 0 => First(next)
    /\ \A c \in Calls : pc[c] \in {"fees", "send"} => First(nonce[c])
    /\ \A c \in Calls : pc[c] = "sent" => Used(nonce[c])
    /\ SentApart

ReuseInv == MutexInv /\ (Quiet => NodeInv /\ CallsInv)

\* There is a first node.
LEMMA FirstNode == 1 \in Nodes
  BY EndpointsAssumption DEF Nodes

\* Errors are never taken back, and one call at a time is at work.
LEMMA MutexStep ==
    ASSUME NonceTypeOK, MutexInv, [Next]_vars
    PROVE  MutexInv' /\ (Quiet' => Quiet)
  <1> USE EndpointsAssumption DEF MutexInv, NonceTypeOK, PCs
  <1>1. ASSUME NEW c \in Calls, Lock(c) PROVE MutexInv' /\ (Quiet' => Quiet)
    <2>1. holder = None /\ holder' = c /\ pc' = [pc EXCEPT ![c] = "allocate"]
      BY <1>1 DEF Lock
    <2>2. \A x \in Calls : pc[x] \notin {"allocate", "fees", "send"}
      BY <2>1, NoneAssumption
    <2>3. \A x \in Calls : pc'[x] \in {"allocate", "fees", "send"} => x = c
      BY <2>1, <2>2
    <2> QED
      BY <1>1, <2>1, <2>3 DEF Lock, Quiet
  <1>2. ASSUME NEW c \in Calls, SignAndSend(c) PROVE MutexInv' /\ (Quiet' => Quiet)
    <2>1. pc[c] \in {"allocate", "fees", "send"} /\ holder = c
      BY <1>2 DEF SignAndSend, Allocate, Fees, Send
    <2>2. \A x \in Calls : pc[x] \in {"allocate", "fees", "send"} => x = c
      BY <2>1
    <2>3. /\ errors' \in Nat
          /\ errors' >= errors
      <3>1. ASSUME NEW n \in Nat, Fails(n) PROVE errors' \in Nat /\ errors' >= errors
        BY <3>1 DEF Fails
      <3>2. \A k \in Nodes : k - 1 \in Nat
        BY DEF Nodes
      <3> QED
        BY <1>2, <3>1, <3>2 DEF SignAndSend, Allocate, Fees, Send
    <2>4. /\ \A x \in Calls \ {c} : pc'[x] = pc[x]
          /\ \/ pc'[c] \in {"sent", "failed"}
             \/ holder' = holder
      BY <1>2, <2>1 DEF SignAndSend, Allocate, Fees, Send, Sent, NextEndpoint, Return
    <2> QED
      BY <2>1, <2>2, <2>3, <2>4 DEF Quiet
  <1>3. CASE UNCHANGED <<holder, pc, errors>>
    BY <1>3 DEF Quiet
  <1> QED
    BY <1>1, <1>2, <1>3 DEF Next, Gossip, Mine, Import

\* Where the first node sees the same nonces used, the same one is free.
LEMMA FirstKept ==
    ASSUME \A m \in Nat : Used(m)' <=> Used(m)
    PROVE  \A n \in Nat : First(n)' <=> First(n)
  BY DEF First

\* The nodes on their own change nothing that the first node has not seen.
LEMMA NodesKeepUsed ==
    ASSUME NonceTypeOK, NodeInv,
           Mine \/ \E k, l \in Nodes : Gossip(k, l) \/ Import(k)
    PROVE  /\ \A m \in Nat : Used(m)' <=> Used(m)
           /\ NodeInv'
  <1> USE FirstNode DEF NodeInv, NonceTypeOK
  <1>1. CASE Mine
    <2>9. PICK k \in Nodes : \E t \in pool[k] :
             t.nonce = Len(chain) /\ chain' = Append(chain, t.by)
      BY <1>1 DEF Mine
    <2>0. PICK t \in pool[k] : t.nonce = Len(chain) /\ chain' = Append(chain, t.by)
      BY <2>9
    <2>1. UNCHANGED <<head, pool>>
      BY <1>1 DEF Mine
    <2>2. \A m \in Nat : Used(m)' <=> Used(m)
      BY <2>1 DEF Used, Knows
    <2>3. Used(Len(chain))
      BY <2>0
    <2>4. Len(chain') = Len(chain) + 1 /\ Len(chain) \in Nat
      BY <2>0 DEF Txs
    <2>5. \A m \in Nat : m < Len(chain') => m < Len(chain) \/ m = Len(chain)
      BY <2>4
    <2>6. \A x \in Nodes : \A u \in pool[x] : u.nonce \in Nat
      BY DEF Txs
    <2> QED
      BY <2>1, <2>2, <2>3, <2>4, <2>5, <2>6
  <1>2. ASSUME NEW k \in Nodes, NEW l \in Nodes, Gossip(k, l)
        PROVE  (\A m \in Nat : Used(m)' <=> Used(m)) /\ NodeInv'
    <2>1. PICK t \in pool[k] : /\ t.nonce >= head[l] /\ ~Knows(l, t.nonce)
                               /\ pool' = [pool EXCEPT ![l] = @ \cup {t}]
      BY <1>2 DEF Gossip
    <2>2. UNCHANGED <<chain, head>>
      BY <1>2 DEF Gossip
    <2>3. l # 1
      <3>1. Used(t.nonce) /\ t.nonce \in Nat
        BY DEF Txs
      <3> QED
        BY <2>1, <3>1 DEF Used
    <2>4. pool'[1] = pool[1]
      BY <2>1, <2>3
    <2>5. \A m \in Nat : Used(m)' <=> Used(m)
      BY <2>2, <2>4 DEF Used, Knows
    <2>6. \A x \in Nodes : \A u \in pool'[x] : \E y \in Nodes : u \in pool[y]
      BY <2>1
    <2>7. \A y \in Nodes : \A u \in pool[y] : u.nonce \in Nat
      BY DEF Txs
    <2> QED
      BY <2>2, <2>5, <2>6, <2>7
  <1>3. ASSUME NEW k \in Nodes, Import(k)
        PROVE  (\A m \in Nat : Used(m)' <=> Used(m)) /\ NodeInv'
    <2>1. /\ head' = [head EXCEPT ![k] = Len(chain)]
          /\ pool' = [pool EXCEPT ![k] = {t \in @ : t.nonce >= Len(chain)}]
          /\ UNCHANGED chain
      BY <1>3 DEF Import
    <2>2. Len(chain) \in Nat
      OBVIOUS
    <2>3. \A m \in Nat : Used(m)' <=> Used(m)
      <3>1. CASE k = 1
        <4>1. \A m \in Nat : Knows(1, m)' <=> Knows(1, m) /\ m >= Len(chain)
          BY <2>1, <3>1 DEF Knows
        <4>2. head'[1] = Len(chain) /\ head[1] \in Nat /\ head[1] <= Len(chain)
          BY <2>1, <3>1
        <4> QED
          BY <2>2, <4>1, <4>2 DEF Used
      <3>2. CASE k # 1
        BY <2>1, <3>2 DEF Used, Knows
      <3> QED
        BY <3>1, <3>2
    <2>4. \A x \in Nodes : \A u \in pool'[x] : u \in pool[x] /\ u.nonce \in Nat
      BY <2>1 DEF Txs
    <2> QED
      BY <2>1, <2>3, <2>4
  <1> QED
    BY <1>1, <1>2, <1>3

\* A step after which the first node sees the same nonces used, and which sends
\* nothing, keeps what is known of them.
LEMMA CallsKept ==
    ASSUME NonceTypeOK, NonceTypeOK', CallsInv, UNCHANGED <<nonce, at>>,
           \A m \in Nat : Used(m)' <=> Used(m),
           next' \in {0, next},
           \A c \in Calls : /\ pc'[c] \in {"fees", "send"} => pc[c] \in {"fees", "send"}
                            /\ pc'[c] = "sent" => pc[c] = "sent"
    PROVE  CallsInv'
  <1>1. \A n \in Nat : First(n)' <=> First(n)
    BY FirstKept
  <1>2. next \in Nat /\ nonce \in [Calls -> Nat]
    BY DEF NonceTypeOK
  <1>3. next' # 0 => First(next)'
    <2> SUFFICES ASSUME next' # 0 PROVE First(next)'
      OBVIOUS
    <2>1. next' = next /\ First(next)
      BY DEF CallsInv
    <2>2. First(next)' <=> \A n \in Nat : n = next' => First(n)'
      BY <1>2, <2>1 DEF First, Used, Knows
    <2> QED
      BY <1>1, <1>2, <2>1, <2>2
  <1>4. \A c \in Calls : First(nonce[c])' <=> First(nonce[c])
    BY <1>1, <1>2 DEF First, Used, Knows
  <1>5. \A c \in Calls : Used(nonce[c])' <=> Used(nonce[c])
    BY <1>2 DEF Used, Knows
  <1> QED
    BY <1>3, <1>4, <1>5 DEF CallsInv, SentApart

\* The first node takes the transaction in work: its nonce is used, and no other
\* one, so the next nonce is the first one free.
LEMMA TakesUses ==
    ASSUME NonceTypeOK, NodeInv, NEW c \in Calls, First(nonce[c]), Takes(1, c),
           UNCHANGED <<nonce, chain, head>>
    PROVE  /\ \A m \in Nat : Used(m)' <=> Used(m) \/ m = nonce[c]
           /\ NodeInv'
           /\ First(nonce[c] + 1)'
  <1> USE FirstNode
  <1>0. nonce[c] \in Nat /\ Tx(c).nonce = nonce[c]
    BY DEF NonceTypeOK, Tx
  <1>1. /\ pool' = [pool EXCEPT ![1] = {t \in @ : t.nonce # nonce[c]} \cup {Tx(c)}]
        /\ pool \in [Nodes -> SUBSET Txs]
        /\ head'[1] = head[1]
    BY DEF Takes, NonceTypeOK
  <1>2. \A t \in pool[1] : t.nonce # nonce[c]
    BY DEF First, Used, Knows
  <1>3. \A m \in Nat : Knows(1, m)' <=> Knows(1, m) \/ m = nonce[c]
    <2>1. pool'[1] = pool[1] \cup {Tx(c)}
      BY <1>1, <1>2
    <2> QED
      BY <1>0, <2>1 DEF Knows
  <1>4. \A m \in Nat : Used(m)' <=> Used(m) \/ m = nonce[c]
    BY <1>1, <1>3 DEF Used
  <1>5. \A x \in Nodes : \A t \in pool'[x] : t \in pool[x] \/ t = Tx(c)
    BY <1>1
  <1>6. \A x \in Nodes : \A t \in pool[x] : t.nonce \in Nat
    BY <1>1 DEF Txs
  <1>7. \A m \in Nat : m < nonce[c] => Used(m)
    BY DEF First
  <1>8. NodeInv'
    <2>1. \A m, n \in Nat : m < n /\ Used(n)' => Used(m)'
      BY <1>4, <1>7 DEF NodeInv
    <2>2. \A x \in Nodes : \A t \in pool'[x] : Used(t.nonce)'
      <3> SUFFICES ASSUME NEW x \in Nodes, NEW t \in pool'[x] PROVE Used(t.nonce)'
        OBVIOUS
      <3>1. t.nonce \in Nat /\ (Used(t.nonce) \/ t.nonce = nonce[c])
        BY <1>0, <1>5, <1>6 DEF NodeInv
      <3>2. PICK m \in Nat : m = t.nonce
        BY <3>1
      <3>3. Used(m)'
        BY <1>4, <3>1, <3>2
      <3> QED
        BY <3>2, <3>3 DEF Used, Knows
    <2>3. \A m \in Nat : m < Len(chain') => Used(m)'
      BY <1>4 DEF NodeInv
    <2> QED
      BY <2>1, <2>2, <2>3 DEF NodeInv
  <1>9. First(nonce[c] + 1)'
    <2>1. PICK n \in Nat : n = nonce[c] + 1
      BY <1>0
    <2>2. ~Used(n)
      BY <1>0, <2>1 DEF First, NodeInv
    <2>3. ~Used(n)' /\ \A m \in Nat : m < n => Used(m)'
      BY <1>0, <1>4, <1>7, <2>1, <2>2
    <2> QED
      BY <2>1, <2>3 DEF First, Used, Knows
  <1> QED
    BY <1>4, <1>8, <1>9

\* No step of SignAndSend gives out a used nonce, while the first node is the only
\* one asked.
LEMMA ReuseStep ==
    ASSUME NonceTypeOK, NonceTypeOK', ReuseInv, [Next]_vars
    PROVE  ReuseInv'
  <1> USE FirstNode
  <1>0. MutexInv /\ MutexInv' /\ (Quiet' => Quiet)
    BY MutexStep DEF ReuseInv
  <1> SUFFICES ASSUME Quiet', NodeInv, CallsInv PROVE NodeInv' /\ CallsInv'
    BY <1>0 DEF ReuseInv
  <1>1. UNCHANGED <<next, pc, nonce, at>> /\ (\A m \in Nat : Used(m)' <=> Used(m))
           => CallsInv'
    BY CallsKept
  <1>2. UNCHANGED nodeVars => NodeInv' /\ \A m \in Nat : Used(m)' <=> Used(m)
    BY DEF NodeInv, Used, Knows
  <1>3. ASSUME NEW c \in Calls, Lock(c) PROVE NodeInv' /\ CallsInv'
    <2>1. \A x \in Calls : /\ pc'[x] \in {"fees", "send"} => pc[x] \in {"fees", "send"}
                           /\ pc'[x] = "sent" => pc[x] = "sent"
      BY <1>3 DEF Lock, NonceTypeOK
    <2> QED
      BY <1>2, <1>3, <2>1, CallsKept DEF Lock, NonceTypeOK
  <1>4. ASSUME NEW c \in Calls, Allocate(c) PROVE NodeInv' /\ CallsInv'
    <2>0. NodeInv' /\ \A m \in Nat : Used(m)' <=> Used(m)
      BY <1>2, <1>4 DEF Allocate
    <2>1. \A n \in Nat : First(n)' <=> First(n)
      BY <2>0, FirstKept
    <2>2. ASSUME NEW n \in Nat, First(n), next' = n, nonce' = [nonce EXCEPT ![c] = n],
                 pc' = [pc EXCEPT ![c] = "fees"], UNCHANGED at, pc[c] = "allocate"
          PROVE  CallsInv'
      <3>1. First(n)'
        BY <2>1, <2>2
      <3>2. \A x \in Calls \ {c} : nonce'[x] = nonce[x] /\ pc'[x] = pc[x]
        BY <2>2 DEF NonceTypeOK
      <3>3. nonce'[c] = n /\ pc'[c] = "fees"
        BY <2>2 DEF NonceTypeOK
      <3>4. next' # 0 => First(next)'
        BY <2>2, <3>1 DEF First, Used, Knows
      <3>5. \A x \in Calls : pc'[x] \in {"fees", "send"} => x = c
        BY <1>0, <2>2, <3>2 DEF MutexInv
      <3>6. \A x \in Calls : pc'[x] \in {"fees", "send"} => First(nonce[x])'
        BY <3>1, <3>3, <3>5 DEF First, Used, Knows
      <3>7. \A x \in Calls : pc'[x] = "sent" => pc[x] = "sent" /\ nonce'[x] = nonce[x]
        BY <3>2, <3>3
      <3>8. \A x \in Calls : pc'[x] = "sent" => Used(nonce[x])'
        <4> SUFFICES ASSUME NEW x \in Calls, pc'[x] = "sent" PROVE Used(nonce[x])'
          OBVIOUS
        <4>1. PICK m \in Nat : m = nonce[x]
          BY DEF NonceTypeOK
        <4>2. nonce'[x] = m /\ Used(m)
          BY <3>7, <4>1 DEF CallsInv
        <4> QED
          BY <2>0, <4>2 DEF Used, Knows
      <3> QED
        BY <2>0, <2>2, <3>4, <3>6, <3>7, <3>8 DEF CallsInv, SentApart, NonceTypeOK
    <2>3. CASE next # 0 /\ nonce' = [nonce EXCEPT ![c] = next]
               /\ pc' = [pc EXCEPT ![c] = "fees"] /\ UNCHANGED next
      <3>1. PICK n \in Nat : n = next
        BY DEF NonceTypeOK
      <3>2. First(n)
        BY <2>3, <3>1 DEF CallsInv
      <3>3. /\ next' = n /\ nonce' = [nonce EXCEPT ![c] = n]
            /\ UNCHANGED at /\ pc[c] = "allocate"
        BY <1>4, <2>3, <3>1 DEF Allocate
      <3> QED
        BY <2>0, <2>2, <2>3, <3>2, <3>3
    <2>4. ASSUME NEW k \in Nodes, NEW n \in head[k]..(head[k] + Cardinality(pool[k])),
                 Fails(k - 1), Pending(k, n), next' = n,
                 nonce' = [nonce EXCEPT ![c] = n], pc' = [pc EXCEPT ![c] = "fees"]
          PROVE  CallsInv'
      <3>1. k = 1
        BY <1>0, <2>4, EndpointsAssumption DEF Quiet, Fails, Nodes, MutexInv
      <3>2. n \in Nat /\ head[1] \in Nat /\ head[1] <= n
        BY <3>1 DEF NonceTypeOK
      <3>3. First(n)
        BY <2>4, <3>1, <3>2 DEF Pending, First, Used
      <3> QED
        BY <1>4, <2>2, <2>4, <3>2, <3>3 DEF Allocate
    <2>5. CASE Return(c, "failed") /\ UNCHANGED <<next, nonce>>
      <3>1. \A x \in Calls : /\ pc'[x] \in {"fees", "send"} => pc[x] \in {"fees", "send"}
                             /\ pc'[x] = "sent" => pc[x] = "sent"
        BY <2>5 DEF Return, NonceTypeOK
      <3> QED
        BY <1>4, <2>0, <2>5, <3>1, CallsKept DEF Allocate
    <2> QED
      BY <1>4, <2>0, <2>3, <2>4, <2>5 DEF Allocate
  <1>5. ASSUME NEW c \in Calls, Fees(c) PROVE NodeInv' /\ CallsInv'
    <2>1. \A x \in Calls : /\ pc'[x] \in {"fees", "send"} => pc[x] \in {"fees", "send"}
                           /\ pc'[x] = "sent" => pc[x] = "sent"
      BY <1>5 DEF Fees, Return, NonceTypeOK
    <2> QED
      BY <1>2, <1>5, <2>1, CallsKept DEF Fees
  <1>6. ASSUME NEW c \in Calls, Send(c) PROVE NodeInv' /\ CallsInv'
    <2>0. /\ pc[c] = "send" /\ at[c] = 1 /\ First(nonce[c]) /\ nonce[c] \in Nat
          /\ UNCHANGED <<nonce, chain, head>>
      BY <1>6 DEF Send, CallsInv, NonceTypeOK
    <2>1. ~Rejects(1, c)
      BY <2>0 DEF Rejects, First, Used, Knows
    <2>2. \A x \in Calls \ {c} : pc[x] \notin {"fees", "send"}
      BY <1>0, <2>0 DEF MutexInv
    <2>3. ASSUME Fails(1), NextEndpoint(c)
          PROVE  /\ next' = 0 /\ UNCHANGED at
                 /\ pc' = [pc EXCEPT ![c] = "failed"]
      <3>1. Endpoints = 1
        BY <1>0, <2>3 DEF Quiet, Fails, MutexInv
      <3> QED
        BY <2>0, <2>3, <3>1 DEF NextEndpoint, Return
    <2>4. CASE UNCHANGED pool /\ Fails(1) /\ NextEndpoint(c)
      <3>1. \A x \in Calls : /\ pc'[x] \in {"fees", "send"} => pc[x] \in {"fees", "send"}
                             /\ pc'[x] = "sent" => pc[x] = "sent"
        BY <2>3, <2>4 DEF NonceTypeOK
      <3> QED
        BY <1>2, <2>0, <2>3, <2>4, <3>1, CallsKept
    <2>5. CASE Takes(1, c) /\ (Sent(c) \/ (Fails(1) /\ NextEndpoint(c)))
      <3>1. /\ \A m \in Nat : Used(m)' <=> Used(m) \/ m = nonce[c]
            /\ NodeInv' /\ First(nonce[c] + 1)'
        BY <2>0, <2>5, TakesUses
      <3>2. /\ UNCHANGED at
            /\ \/ next' = 0 /\ pc' = [pc EXCEPT ![c] = "failed"]
               \/ next' = nonce[c] + 1 /\ pc' = [pc EXCEPT ![c] = "sent"]
        BY <2>3, <2>5 DEF Sent, Return
      <3>3. next' # 0 => First(next)'
        BY <2>0, <3>1, <3>2 DEF First, Used, Knows
      <3>4. \A x \in Calls : pc'[x] \notin {"fees", "send"}
        BY <2>2, <3>2 DEF NonceTypeOK
      <3>5. \A x \in Calls : pc'[x] = "sent" => x = c \/ pc[x] = "sent"
        BY <3>2 DEF NonceTypeOK
      <3>6. \A x \in Calls : Used(nonce[x])' <=> Used(nonce[x]) \/ nonce[x] = nonce[c]
        <4> SUFFICES ASSUME NEW x \in Calls
                     PROVE  Used(nonce[x])' <=> Used(nonce[x]) \/ nonce[x] = nonce[c]
          OBVIOUS
        <4>1. PICK m \in Nat : m = nonce[x]
          BY DEF NonceTypeOK
        <4>2. Used(nonce[x])' <=> Used(m)'
          BY <2>0, <4>1 DEF Used, Knows
        <4> QED
          BY <3>1, <4>1, <4>2
      <3>7. \A x \in Calls : pc'[x] = "sent" => Used(nonce[x])'
        BY <3>5, <3>6 DEF CallsInv
      <3>8. ~Used(nonce[c])
        BY <2>0 DEF First
      <3>9. SentApart'
        BY <2>0, <3>5, <3>8 DEF CallsInv, SentApart
      <3> QED
        BY <3>1, <3>2, <3>3, <3>4, <3>7, <3>9 DEF CallsInv
    <2> QED
      BY <1>6, <2>0, <2>1, <2>4, <2>5 DEF Send
  <1>7. CASE Mine \/ \E k, l \in Nodes : Gossip(k, l) \/ Import(k)
    <2>1. UNCHANGED <<next, pc, nonce, at>>
      BY <1>7 DEF Mine, Gossip, Import
    <2> QED
      BY <1>1, <1>7, <2>1, NodesKeepUsed
  <1>8. CASE UNCHANGED vars
    BY <1>1, <1>2, <1>8
  <1> QED
    BY <1>3, <1>4, <1>5, <1>6, <1>7, <1>8 DEF Next, SignAndSend

\* As long as one endpoint only was asked, no two swaps the service believes sent
\* have the same nonce: every reuse needs a failed call and another endpoint.
THEOREM ReuseBounded == Spec => []ReusedOnlyAfterFailover
  <1>1. Init => FilledInv /\ ReuseInv
    <2> SUFFICES ASSUME Init PROVE FilledInv /\ ReuseInv
      OBVIOUS
    <2>1. FilledInv
      BY EndpointsAssumption DEF Init, FilledInv, NonceTypeOK, PCs, Filled, Nodes
    <2>2. \A m \in Nat : ~Used(m)
      BY FirstNode DEF Init, Used, Knows
    <2>3. NodeInv
      BY <2>2 DEF Init, NodeInv
    <2>4. MutexInv /\ CallsInv
      BY DEF Init, MutexInv, CallsInv, SentApart
    <2> QED
      BY <2>1, <2>3, <2>4 DEF ReuseInv
  <1>2. FilledInv /\ ReuseInv /\ [Next]_vars => (FilledInv /\ ReuseInv)'
    BY FilledInvStep, ReuseStep DEF FilledInv
  <1>3. ReuseInv => ReusedOnlyAfterFailover
    <2> SUFFICES ASSUME ReuseInv, ~Quiet => Endpoints > 1 /\ errors > 0
                 PROVE  ReusedOnlyAfterFailover
      BY EndpointsAssumption DEF Quiet, ReuseInv, MutexInv
    <2>1. CASE Quiet
      BY <2>1 DEF ReuseInv, CallsInv, SentApart, ReusedOnlyAfterFailover
    <2>2. CASE ~Quiet
      BY <2>2 DEF ReusedOnlyAfterFailover
    <2> QED
      BY <2>1, <2>2
  <1> QED
    BY <1>1, <1>2, <1>3, PTL DEF Spec

=============================================================================
