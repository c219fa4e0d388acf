------------------------------- MODULE Slices -------------------------------
(***************************************************************************)
(* How a decision becomes transactions: executeTWAP splits its amounts     *)
(* (execution/service.go), and for every slice the executor of the venue    *)
(* checks the allowance of the router, approves if need be, waits for that  *)
(* receipt and sends the swap, whose receipt it does not wait for           *)
(* (execution/v3_executor.go, v4_executor.go, receipt.go).  One instrument *)
(* and the token it sells; transactions of the account are mined in the     *)
(* order of their nonces.                                                  *)
(***************************************************************************)
EXTENDS Integers, Sequences

CONSTANTS
    Amounts,   \* AmountIn of a decision
    MinOuts,   \* its MinAmountOut
    Prices,    \* its pool price, as a fraction <<num, den>>
    MaxSlices, \* largest twap_slice_count
    MaxAllowance, \* maxApproveAmount, which swaps do not use up
    MaxExecs,  \* bound on executions
    MaxErrors  \* bound on failed calls

ASSUME AmountsAssumption ==
    /\ Amounts \subseteq Nat \ {0}
    /\ MinOuts \subseteq Nat
    /\ Prices \subseteq (Nat \ {0}) \X (Nat \ {0})
ASSUME SlicesAssumption == MaxSlices \in Nat \ {0}
ASSUME MaxAllowanceAssumption ==
    MaxAllowance \in Nat /\ \A a \in Amounts : a < MaxAllowance
ASSUME BoundsAssumption == MaxExecs \in Nat /\ MaxErrors \in Nat

VARIABLES
    venue,     \* the executor: "v3" approves what it needs, "v4" the maximum
    pc,        \* where Execute is
    decision,  \* the decision in work
    done,      \* how many of its slices were sent
    remaining, \* remainingIn and remainingOut
    part,      \* partIn and partOut of the slice in work
    behind,    \* whether transactions were pending when its allowance was read
    parts,     \* history: the slices sent
    rejected,  \* why the executor refused a slice before it sent anything for it
    allowance, \* of the router, at the latest block
    mempool,   \* the account's pending transactions, by nonce
    approved,  \* whether the last approval that was mined succeeded
    short,     \* history: the swaps that found too small an allowance
    execs,     \* executions so far
    errors     \* failed calls

sliceVars == <<decision, done, remaining, part, parts, rejected>>
chainVars == <<allowance, mempool, approved, short>>
vars == <<venue, pc, sliceVars, behind, chainVars, execs, errors>>

Amts == [in : Nat, out : Nat]
Txs == [kind : {"approve", "swap"}, amount : Nat, behind : BOOLEAN]

TypeOK ==
    /\ venue \in {"v3", "v4"}
    /\ pc \in {"idle", "slice", "check", "approve", "await", "preflight", "send"}
    /\ decision \in [in : Amounts, out : MinOuts, price : Prices, slices : 1..MaxSlices]
    /\ done \in 0..decision.slices
    /\ remaining \in Amts
    /\ part \in Amts
    /\ behind \in BOOLEAN
    /\ parts \in Seq(Amts)
    /\ rejected \in {"no", "size", "quote"}
    /\ allowance \in Nat
    /\ mempool \in Seq(Txs)
    /\ approved \in BOOLEAN
    /\ short \subseteq BOOLEAN
    /\ execs \in Nat
    /\ errors \in Nat

Decisions == [in : Amounts, out : MinOuts, price : Prices, slices : 1..MaxSlices]

\* estimateOutByPrice
Quoted(d, x) == (x * d.price[1]) \div d.price[2]

\* computeMinOut: the slippage tolerance takes from the quote of the amount.
Sized(d) == d.out <= Quoted(d, d.in)

Begin(d) ==
    /\ decision' = d
    /\ done' = 0
    /\ remaining' = [in |-> d.in, out |-> d.out]
    /\ part' = [in |-> 0, out |-> 0]
    /\ parts' = << >>
    /\ rejected' = "no"

Init ==
    /\ venue \in {"v3", "v4"}
    /\ pc = "idle"
    /\ decision \in {d \in Decisions : Sized(d)}
    /\ done = 0
    /\ remaining = [in |-> 0, out |-> 0]
    /\ part = [in |-> 0, out |-> 0]
    /\ behind = FALSE
    /\ parts = << >>
    /\ rejected = "no"
    /\ allowance = 0
    /\ mempool = << >>
    /\ approved = FALSE
    /\ short = {}
    /\ execs = 0
    /\ errors = 0

-----------------------------------------------------------------------------
(* executeTWAP                                                             *)

\* The decisions are those of Decide, one execution at a time.
Start(d) ==
    /\ pc = "idle" /\ execs < MaxExecs
    /\ pc' = "slice"
    /\ execs' = execs + 1
    /\ Begin(d)
    /\ UNCHANGED <<venue, behind, chainVars, errors>>

\* Faulty: the last slice takes whatever division has left over.
PortionOfRest(rest, whole) ==
    IF done = decision.slices - 1 THEN rest ELSE whole \div decision.slices

\* Faulty: one slice too many in the divisor.
PortionShort(rest, whole) == rest \div (decision.slices - done + 1)

\* Faulty: the quotient is rounded up.
PortionUp(rest, whole) ==
    (rest + decision.slices - done - 1) \div (decision.slices - done)

\* Faulty: the whole amount is divided by the slices that are left.
PortionGrowing(rest, whole) == whole \div (decision.slices - done)

\* What is left, divided by the slices that are left.
Portion(rest, whole) == rest \div (decision.slices - done)

\* The executor's checks of its amounts.
Valid(p) == p.in > 0 /\ (venue = "v4" => p.out > 0)

\* The V4 pre-check against the price of the decision.
QuoteCovers(p) == venue = "v4" => Quoted(decision, p.in) >= p.out /\ Quoted(decision, p.in) > 0

\* The next slice, down to the first call of its executor.
Slice ==
    LET p == [in |-> Portion(remaining.in, decision.in),
              out |-> Portion(remaining.out, decision.out)]
    IN
    /\ pc = "slice"
    /\ part' = p
    /\ \/ ~Valid(p) /\ pc' = "idle" /\ rejected' = "size"
       \/ Valid(p) /\ ~QuoteCovers(p) /\ pc' = "idle" /\ rejected' = "quote"
       \/ Valid(p) /\ QuoteCovers(p) /\ pc' = "check" /\ UNCHANGED rejected
    /\ UNCHANGED <<venue, decision, done, remaining, parts, behind, chainVars,
                   execs, errors>>

\* The context ends between two slices, and with it the execution.
Cancel ==
    /\ pc = "slice" /\ done > 0
    /\ pc' = "idle"
    /\ UNCHANGED <<venue, sliceVars, behind, chainVars, execs, errors>>

-----------------------------------------------------------------------------
(* approveAndWait, preflightSwap, SignAndSend                              *)

Fails ==
    /\ errors < MaxErrors
    /\ errors' = errors + 1

Pending(tx) == mempool' = Append(mempool, tx)

\* A transaction is sent, or the call fails with the node having it or not.
Submit(tx, next) ==
    \/ Pending(tx) /\ pc' = next /\ UNCHANGED errors
    \/ Fails /\ pc' = "idle" /\ (Pending(tx) \/ UNCHANGED mempool)

Covered == allowance >= part.in

\* hasSufficientAllowance, at the latest block.  A call that fails counts as an
\* insufficient allowance.
CheckAllowance ==
    /\ pc = "check"
    /\ behind' = (mempool # << >>)
    /\ \/ Covered /\ pc' = "preflight" /\ UNCHANGED errors
       \/ ~Covered /\ pc' = "approve" /\ UNCHANGED errors
       \/ Fails /\ pc' = "approve"
    /\ UNCHANGED <<venue, sliceVars, chainVars, execs>>

\* Faulty: V4 approves no more than it needs either.
GrantExact == part.in

Grant == IF venue = "v3" THEN part.in ELSE MaxAllowance

Approve ==
    /\ pc = "approve"
    /\ Submit([kind |-> "approve", amount |-> Grant, behind |-> FALSE], "await")
    /\ behind' = FALSE
    /\ UNCHANGED <<venue, sliceVars, allowance, approved, short, execs>>

\* Faulty: the swap does not wait for the approval.
AwaitNothing ==
    /\ pc = "await"
    /\ pc' = "preflight"
    /\ UNCHANGED <<venue, sliceVars, behind, chainVars, execs, errors>>

\* waitReceipt: the approval is the last transaction sent, so it is mined when
\* none is pending; or there is no receipt in time.
AwaitApproval ==
    /\ pc = "await"
    /\ \/ mempool = << >> /\ approved /\ pc' = "preflight"
       \/ mempool = << >> /\ ~approved /\ pc' = "idle"
       \/ pc' = "idle"
    /\ UNCHANGED <<venue, sliceVars, behind, chainVars, execs, errors>>

\* The V4 swap is called once without a transaction, at the latest block; it
\* fails for want of allowance or for reasons of the pool.
Preflight ==
    /\ pc = "preflight"
    /\ \/ (venue = "v4" => Covered) /\ pc' = "send"
       \/ venue = "v4" /\ pc' = "idle"
    /\ UNCHANGED <<venue, sliceVars, behind, chainVars, execs, errors>>

\* Faulty: remainingOut is not reduced.
RestKept == [remaining EXCEPT !.in = @ - part.in]

Rest == [in |-> remaining.in - part.in, out |-> remaining.out - part.out]

\* The swap is submitted; executeTWAP goes on with what remains.
SendSwap ==
    /\ pc = "send"
    /\ Submit([kind |-> "swap", amount |-> part.in, behind |-> behind],
              IF done + 1 = decision.slices THEN "idle" ELSE "slice")
    /\ IF errors' = errors
       THEN /\ done' = done + 1
            /\ remaining' = Rest
            /\ parts' = Append(parts, part)
       ELSE UNCHANGED <<done, remaining, parts>>
    /\ UNCHANGED <<venue, decision, part, rejected, behind, allowance, approved,
                   short, execs>>

-----------------------------------------------------------------------------
(* The chain.                                                              *)

\* The next transaction is mined.  A swap moves its amount out of the allowance,
\* reverts when that is too small, and may revert for the pool's reasons; the
\* maximal allowance is not used up (ERC20.transferFrom).
Mine ==
    /\ mempool # << >>
    /\ mempool' = Tail(mempool)
    /\ LET tx == Head(mempool) IN
       \/ /\ tx.kind = "approve"
          /\ \/ allowance' = tx.amount /\ approved' = TRUE
             \/ UNCHANGED allowance /\ approved' = FALSE
          /\ UNCHANGED short
       \/ /\ tx.kind = "swap"
          /\ \/ /\ allowance >= tx.amount
                /\ \/ allowance = MaxAllowance /\ UNCHANGED allowance
                   \/ allowance # MaxAllowance /\ allowance' = allowance - tx.amount
                   \/ UNCHANGED allowance
                /\ UNCHANGED short
             \/ /\ allowance < tx.amount
                /\ short' = short \cup {tx.behind}
                /\ UNCHANGED allowance
          /\ UNCHANGED approved
    /\ UNCHANGED <<venue, pc, sliceVars, behind, execs, errors>>

Next ==
    \/ \E d \in {x \in Decisions : Sized(x)} : Start(d)
    \/ Slice \/ Cancel
    \/ CheckAllowance \/ Approve \/ AwaitApproval \/ Preflight \/ SendSwap
    \/ Mine

Spec == Init /\ [][Next]_vars

-----------------------------------------------------------------------------
(* What the executors guarantee.                                           *)

Finished == done = decision.slices

\* The slices of a decision differ by one unit at most, in what they sell and in
\* what they ask for (executeTWAP).
SlicesEven ==
    \A k \in DOMAIN parts :
        /\ parts[k].in - decision.in \div decision.slices \in {0, 1}
        /\ parts[k].out - decision.out \div decision.slices \in {0, 1}

\* The sum of a sequence of amounts.
Total(amounts) ==
    LET sum[k \in 0..Len(amounts)] == IF k = 0 THEN 0 ELSE sum[k - 1] + amounts[k]
    IN  sum[Len(amounts)]

\* When all slices were sent, they are the whole decision: nothing of the amount
\* and nothing of the slippage protection got lost in the division (executeTWAP).
WholeDecisionSent ==
    Finished =>
        /\ Total([k \in 1..Len(parts) |-> parts[k].in]) = decision.in
        /\ Total([k \in 1..Len(parts) |-> parts[k].out]) = decision.out

\* The executor finds fault with the size of a slice before anything of the
\* decision was sent, or not at all: a small decision does not stop half-way.
SizeRejectedFirst == rejected = "size" => done = 0

\* The V4 pre-check rejects a slice only where the decision tolerates less than one
\* unit of output per slice: the split itself makes no slice fail.
QuoteRejectsOnlyTight ==
    rejected = "quote" =>
        Quoted(decision, decision.in \div decision.slices)
            < decision.out \div decision.slices + 1

\* With the maximal approval no swap is short of allowance, although slices are
\* sent while earlier ones are pending (v4_executor.go, "to avoid per-slice
\* allowance races").
MaxApprovalNeverShort == venue = "v4" => short = {}

\* With exact approvals a swap is short of allowance only when the allowance was
\* read while an earlier transaction was pending, which used it up in between.
ShortOnlyBehindPending == FALSE \notin short

=============================================================================
