---------------------------- MODULE SlicesProofs ----------------------------
(***************************************************************************)
(* Theorems about Slices, for any amounts, prices, slice counts and bounds:*)
(* the division of a decision, and the allowances its swaps find.          *)
(***************************************************************************)
EXTENDS Slices, TLAPS

(* Arithmetic of the division.                                             *)

\* Quotient and remainder.
LEMMA DivFacts ==
    ASSUME NEW a \in Nat, NEW m \in Nat \ {0}
    PROVE  /\ a \div m \in Nat
           /\ (a \div m) * m <= a
           /\ a < (a \div m) * m + m
  <1>1. a \div m \in Nat
    BY SMT
  <1>2. (a \div m) * m <= a
    BY SMT
  <1>3. a < (a \div m) * m + m
    BY SMT
  <1> QED
    BY <1>1, <1>2, <1>3

\* A number between two multiples of m has its quotient between the factors.
LEMMA DivBetween ==
    ASSUME NEW a \in Nat, NEW m \in Nat \ {0}, NEW q \in Nat, NEW r \in Nat,
           q * m <= a, a < (r + 1) * m
    PROVE  q <= a \div m /\ a \div m <= r
  <1> DEFINE p == a \div m
  <1>0. p \in Nat /\ p * m <= a /\ a < p * m + m
    BY DivFacts
  <1> HIDE DEF p
  <1>1. ASSUME p < q  PROVE FALSE
    <2>1. (p + 1) * m <= q * m
      BY <1>0, <1>1, Z3
    <2>2. (p + 1) * m = p * m + m
      BY <1>0, Z3
    <2> QED
      BY <1>0, <2>1, <2>2, Z3
  <1>2. ASSUME r < p  PROVE FALSE
    <2>1. (r + 1) * m <= p * m
      BY <1>0, <1>2, Z3
    <2> QED
      BY <1>0, <2>1, Z3
  <1>3. q <= p /\ p <= r
    BY <1>0, <1>1, <1>2
  <1> QED
    BY <1>3 DEF p

\* What is left after a slice of what is left is as even as before.
LEMMA EvenRest ==
    ASSUME NEW a \in Nat, NEW m \in Nat \ {0}, NEW q \in Nat,
           q * m <= a, a <= (q + 1) * m
    PROVE  /\ a \div m \in Nat
           /\ a \div m \in {q, q + 1}
           /\ a - a \div m \in Nat
           /\ q * (m - 1) <= a - a \div m
           /\ a - a \div m <= (q + 1) * (m - 1)
  <1> DEFINE p == a \div m
  <1>0. p \in Nat /\ p * m <= a /\ a < p * m + m
    BY DivFacts
  <1>1. q <= p /\ p <= q + 1
    <2>1. (q + 1) * m < (q + 1 + 1) * m
      BY Z3
    <2> QED
      BY <2>1, DivBetween, Z3
  <1> HIDE DEF p
  <1>2. /\ q * (m - 1) = q * m - q
        /\ (q + 1) * (m - 1) = (q + 1) * m - (q + 1)
        /\ (q + 1) * m = q * m + m
    BY Z3
  <1>3. q * m \in Nat
    BY Z3
  <1>4. CASE p = q
    BY <1>0, <1>2, <1>3, <1>4, Z3
  <1>5. CASE p = q + 1
    BY <1>0, <1>2, <1>3, <1>5, Z3
  <1>6. /\ p \in {q, q + 1}
        /\ a - p \in Nat
        /\ q * (m - 1) <= a - p
        /\ a - p <= (q + 1) * (m - 1)
    <2>1. p = q \/ p = q + 1
      BY <1>0, <1>1
    <2>2. p <= a
      <3>1. p <= p * m
        BY <1>0, Z3
      <3>2. p * m \in Nat
        BY <1>0, Z3
      <3> QED
        BY <1>0, <3>1, <3>2
    <2> QED
      BY <1>0, <1>4, <1>5, <2>1, <2>2
  <1> QED
    BY <1>0, <1>6 DEF p

-----------------------------------------------------------------------------
(* Types, and the division of the decision.                                *)

\* A part of a whole lies between as many lower and upper quotients.
Between(rest, whole) ==
    LET q == whole \div decision.slices
        m == decision.slices - done
    IN  q * m <= rest /\ rest <= (q + 1) * m

\* What holds of the numbers of a decision in work.
Division ==
    /\ remaining.in <= decision.in
    /\ pc # "idle" =>
        /\ done < decision.slices
        /\ rejected = "no"
        /\ Between(remaining.in, decision.in)
        /\ Between(remaining.out, decision.out)
        /\ done = 0 => remaining = [in |-> decision.in, out |-> decision.out]
        /\ done > 0 => Valid([in |-> decision.in \div decision.slices,
                              out |-> decision.out \div decision.slices])
    /\ pc \notin {"idle", "slice"} =>
        /\ part = [in |-> Portion(remaining.in, decision.in),
                   out |-> Portion(remaining.out, decision.out)]
        /\ Valid(part)

\* A whole lies between its quotient and the next.
LEMMA WholeBetween ==
    ASSUME NEW a \in Nat, NEW n \in Nat \ {0}
    PROVE  /\ a \div n \in Nat
           /\ (a \div n) * n <= a
           /\ a <= (a \div n + 1) * n
  <1> DEFINE p == a \div n
  <1>0. p \in Nat /\ p * n <= a /\ a < p * n + n
    BY DivFacts
  <1> HIDE DEF p
  <1>1. (p + 1) * n = p * n + n /\ p * n \in Nat
    BY <1>0, Z3
  <1>2. p \in Nat /\ p * n <= a /\ a <= (p + 1) * n
    BY <1>0, <1>1
  <1> QED
    BY <1>2 DEF p

\* The quote grows with the amount.
LEMMA QuoteMonotone ==
    ASSUME NEW d, NEW a \in Nat, NEW b \in Nat, a <= b,
           d.price[1] \in Nat \ {0}, d.price[2] \in Nat \ {0}
    PROVE  Quoted(d, a) \in Nat /\ Quoted(d, b) \in Nat /\ Quoted(d, a) <= Quoted(d, b)
  <1> DEFINE c == d.price[1]
             m == d.price[2]
             p == (a * c) \div m
             r == (b * c) \div m
  <1>1. c \in Nat /\ m \in Nat \ {0}
    OBVIOUS
  <1> HIDE DEF c, m
  <1>2. a * c \in Nat /\ b * c \in Nat /\ a * c <= b * c
    BY <1>1, Z3
  <1> DEFINE x == a * c
             y == b * c
  <1>3. /\ p \in Nat /\ p * m <= x
        /\ r \in Nat /\ y < r * m + m
    BY <1>1, <1>2, DivFacts
  <1> HIDE DEF p, r, x, y
  <1>4. (r + 1) * m = r * m + m
    BY <1>1, <1>3, Z3
  <1>5. x \in Nat /\ y \in Nat /\ x <= y
    BY <1>2 DEF x, y
  <1>6. ASSUME r < p  PROVE FALSE
    <2>1. (r + 1) * m <= p * m
      BY <1>1, <1>3, <1>6, Z3
    <2>2. p * m \in Nat /\ r * m \in Nat
      BY <1>1, <1>3, Z3
    <2> QED
      BY <1>1, <1>3, <1>4, <1>5, <2>1, <2>2
  <1>7. p <= r
    BY <1>3, <1>6
  <1>8. p = Quoted(d, a) /\ r = Quoted(d, b)
    BY DEF p, r, c, m, Quoted
  <1> QED
    BY <1>3, <1>7, <1>8

\* The portion of a part between the quotients of its whole is one of them, and
\* leaves the rest between them.
LEMMA PortionFacts ==
    ASSUME decision.slices \in Nat, done \in Nat, done < decision.slices,
           NEW a \in Nat, NEW w \in Nat, Between(a, w)
    PROVE  /\ w \div decision.slices \in Nat
           /\ Portion(a, w) \in Nat
           /\ Portion(a, w) \in {w \div decision.slices, w \div decision.slices + 1}
           /\ a - Portion(a, w) \in Nat
           /\ (w \div decision.slices) * (decision.slices - (done + 1)) <= a - Portion(a, w)
           /\ a - Portion(a, w) <= (w \div decision.slices + 1) * (decision.slices - (done + 1))
  <1> DEFINE n == decision.slices
             m == n - done
             q == w \div n
  <1>1. n \in Nat \ {0} /\ m \in Nat \ {0} /\ n - (done + 1) = m - 1
    OBVIOUS
  <1>2. q \in Nat
    BY <1>1, DivFacts
  <1>3. q * m <= a /\ a <= (q + 1) * m
    BY DEF Between
  <1>4. Portion(a, w) = a \div m
    BY DEF Portion
  <1> HIDE DEF m, q, n
  <1>5. /\ a \div m \in Nat
        /\ a \div m \in {q, q + 1}
        /\ a - a \div m \in Nat
        /\ q * (m - 1) <= a - a \div m
        /\ a - a \div m <= (q + 1) * (m - 1)
    BY <1>1, <1>2, <1>3, EvenRest
  <1>6. /\ q \in Nat
        /\ Portion(a, w) \in Nat
        /\ Portion(a, w) \in {q, q + 1}
        /\ a - Portion(a, w) \in Nat
        /\ q * (n - (done + 1)) <= a - Portion(a, w)
        /\ a - Portion(a, w) <= (q + 1) * (n - (done + 1))
    BY <1>1, <1>2, <1>4, <1>5
  <1> QED
    BY <1>6 DEF q, n

\* Every decision has natural amounts and a quote.
LEMMA DecisionFacts ==
    ASSUME TypeOK
    PROVE  /\ decision.in \in Nat \ {0} /\ decision.out \in Nat
           /\ decision.in < MaxAllowance
           /\ decision.price[1] \in Nat \ {0} /\ decision.price[2] \in Nat \ {0}
           /\ decision.slices \in Nat \ {0}
           /\ done \in Nat
           /\ remaining.in \in Nat /\ remaining.out \in Nat
           /\ remaining = [in |-> remaining.in, out |-> remaining.out]
           /\ part.in \in Nat /\ part.out \in Nat
  <1>1. /\ decision.in \in Amounts /\ decision.out \in MinOuts
        /\ decision.price \in Prices /\ decision.slices \in 1..MaxSlices
        /\ done \in 0..decision.slices /\ remaining \in Amts /\ part \in Amts
    BY DEF TypeOK
  <1>2. decision.price \in (Nat \ {0}) \X (Nat \ {0})
    BY <1>1, AmountsAssumption
  <1>3. decision.price[1] \in Nat \ {0} /\ decision.price[2] \in Nat \ {0}
    BY <1>2
  <1>4. decision.in \in Nat \ {0} /\ decision.out \in Nat /\ decision.in < MaxAllowance
    BY <1>1, AmountsAssumption, MaxAllowanceAssumption
  <1>5. decision.slices \in Nat \ {0} /\ done \in Nat
    BY <1>1, SlicesAssumption
  <1>6. /\ remaining.in \in Nat /\ remaining.out \in Nat
        /\ remaining = [in |-> remaining.in, out |-> remaining.out]
        /\ part.in \in Nat /\ part.out \in Nat
    BY <1>1 DEF Amts
  <1> QED
    BY <1>3, <1>4, <1>5, <1>6

DivInv == TypeOK /\ Division

\* The numbers of a decision are in order at the start of its execution.
LEMMA DivisionStart ==
    ASSUME TypeOK, NEW d \in Decisions, Start(d)
    PROVE  Division'
  <1>1. /\ d.in \in Nat /\ d.out \in Nat /\ d.slices \in Nat \ {0}
    <2>1. d.in \in Amounts /\ d.out \in MinOuts /\ d.slices \in 1..MaxSlices
      BY DEF Decisions
    <2>2. d.in \in Nat /\ d.out \in Nat
      BY <2>1, AmountsAssumption
    <2>3. d.slices \in Nat \ {0}
      BY <2>1, SlicesAssumption
    <2> QED
      BY <2>2, <2>3
  <1>2. /\ decision' = d /\ done' = 0 /\ rejected' = "no" /\ pc' = "slice"
        /\ remaining' = [in |-> d.in, out |-> d.out]
    BY DEF Start, Begin
  <1>3. /\ (d.in \div d.slices) * d.slices <= d.in
        /\ d.in <= (d.in \div d.slices + 1) * d.slices
        /\ (d.out \div d.slices) * d.slices <= d.out
        /\ d.out <= (d.out \div d.slices + 1) * d.slices
    BY <1>1, WholeBetween
  <1>4. d.slices - 0 = d.slices
    BY <1>1
  <1>5. Between(remaining.in, decision.in)' /\ Between(remaining.out, decision.out)'
    BY <1>2, <1>3, <1>4 DEF Between
  <1> QED
    BY <1>1, <1>2, <1>5 DEF Division

\* The two portions of the next slice.
LEMMA NextPortions ==
    ASSUME DivInv, pc # "idle"
    PROVE  /\ Portion(remaining.in, decision.in) \in Nat
           /\ Portion(remaining.out, decision.out) \in Nat
           /\ decision.in \div decision.slices \in Nat
           /\ decision.out \div decision.slices \in Nat
           /\ Portion(remaining.in, decision.in) \in
                  {decision.in \div decision.slices, decision.in \div decision.slices + 1}
           /\ Portion(remaining.out, decision.out) \in
                  {decision.out \div decision.slices, decision.out \div decision.slices + 1}
           /\ done = 0 =>
                /\ Portion(remaining.in, decision.in) = decision.in \div decision.slices
                /\ Portion(remaining.out, decision.out) = decision.out \div decision.slices
  <1>1. /\ decision.slices \in Nat /\ done \in Nat /\ done < decision.slices
        /\ remaining.in \in Nat /\ decision.in \in Nat
        /\ remaining.out \in Nat /\ decision.out \in Nat
        /\ Between(remaining.in, decision.in) /\ Between(remaining.out, decision.out)
    BY DecisionFacts DEF DivInv, Division
  <1>2. done = 0 => /\ Portion(remaining.in, decision.in) = decision.in \div decision.slices
                    /\ Portion(remaining.out, decision.out) = decision.out \div decision.slices
    <2>1. decision.slices - 0 = decision.slices
      BY <1>1
    <2> QED
      BY <2>1 DEF Portion, DivInv, Division
  <1> QED
    BY <1>1, <1>2, PortionFacts

\* A slice is taken from what remains.
LEMMA DivisionSlice ==
    ASSUME DivInv, Slice
    PROVE  TypeOK' /\ Division'
  <1> DEFINE p == [in |-> Portion(remaining.in, decision.in),
                   out |-> Portion(remaining.out, decision.out)]
  <1>0. pc = "slice"
    BY DEF Slice
  <1>1. p \in Amts
    BY <1>0, NextPortions DEF Amts
  <1>2. part' = p /\ UNCHANGED <<venue, decision, done, remaining, parts, behind,
                                  allowance, mempool, approved, short, execs, errors>>
    BY DEF Slice, chainVars
  <1>3. \/ pc' = "idle" /\ rejected' \in {"size", "quote"}
        \/ pc' = "check" /\ Valid(p) /\ rejected' = rejected
    BY DEF Slice
  <1>4. TypeOK'
    BY <1>1, <1>2, <1>3 DEF DivInv, TypeOK
  <1>5. Division'
    <2>1. /\ Between(remaining.in, decision.in)' <=> Between(remaining.in, decision.in)
          /\ Between(remaining.out, decision.out)' <=> Between(remaining.out, decision.out)
      BY <1>2 DEF Between
    <2>2. CASE pc' = "idle"
      BY <1>2, <2>2 DEF DivInv, Division
    <2>3. CASE pc' = "check" /\ Valid(p) /\ rejected' = rejected
      <3>1. /\ Portion(remaining.in, decision.in)' = Portion(remaining.in, decision.in)
            /\ Portion(remaining.out, decision.out)' = Portion(remaining.out, decision.out)
        BY <1>2 DEF Portion
      <3>2. Valid(part)'
        BY <1>2, <2>3 DEF Valid
      <3>3. done > 0 => Valid([in |-> decision.in \div decision.slices,
                               out |-> decision.out \div decision.slices])'
        BY <1>0, <1>2 DEF DivInv, Division, Valid
      <3> HIDE DEF p
      <3>4. part' = [in |-> Portion(remaining.in, decision.in),
                     out |-> Portion(remaining.out, decision.out)]'
        BY <1>2, <3>1 DEF p
      <3> QED
        BY <1>0, <1>2, <2>1, <2>3, <3>2, <3>3, <3>4 DEF DivInv, Division
    <2> QED
      BY <1>3, <2>2, <2>3
  <1> QED
    BY <1>4, <1>5

\* Submitting keeps the transactions and the count of errors in their types.
LEMMA SubmitType ==
    ASSUME TypeOK, NEW tx \in Txs, NEW next, Submit(tx, next)
    PROVE  mempool' \in Seq(Txs) /\ errors' \in Nat
  <1>1. /\ mempool' = Append(mempool, tx) \/ mempool' = mempool
        /\ errors' = errors \/ errors' = errors + 1
    BY DEF Submit, Pending, Fails
  <1>2. mempool \in Seq(Txs) /\ errors \in Nat
    BY DEF TypeOK
  <1> QED
    BY <1>1, <1>2

\* A slice whose swap was sent leaves what remains as even as before.
LEMMA DivisionSend ==
    ASSUME DivInv, SendSwap
    PROVE  /\ TypeOK' /\ Division'
           /\ parts' # parts =>
                /\ parts' = Append(parts, part)
                /\ part.in \in {decision.in \div decision.slices,
                                decision.in \div decision.slices + 1}
                /\ part.out \in {decision.out \div decision.slices,
                                 decision.out \div decision.slices + 1}
  <1> DEFINE tx == [kind |-> "swap", amount |-> part.in, behind |-> behind]
             P == Portion(remaining.in, decision.in)
             R == Portion(remaining.out, decision.out)
  <1>0. /\ pc = "send" /\ Submit(tx, IF done + 1 = decision.slices THEN "idle" ELSE "slice")
        /\ UNCHANGED <<venue, decision, part, rejected, behind, allowance, approved,
                       short, execs>>
    BY DEF SendSwap
  <1>1. /\ decision.slices \in Nat \ {0} /\ done \in Nat /\ done < decision.slices
        /\ remaining.in \in Nat /\ remaining.out \in Nat /\ decision.in \in Nat /\ decision.out \in Nat
        /\ part.in \in Nat
        /\ part.in = P /\ part.out = R
        /\ remaining.in <= decision.in
        /\ Between(remaining.in, decision.in) /\ Between(remaining.out, decision.out)
        /\ rejected = "no" /\ Valid(part)
    BY <1>0, DecisionFacts DEF DivInv, Division
  <1>2. /\ P \in {decision.in \div decision.slices, decision.in \div decision.slices + 1}
        /\ R \in {decision.out \div decision.slices, decision.out \div decision.slices + 1}
        /\ P \in Nat /\ R \in Nat
        /\ remaining.in - P \in Nat /\ remaining.out - R \in Nat
        /\ (decision.in \div decision.slices) * (decision.slices - (done + 1)) <= remaining.in - P
        /\ remaining.in - P <= (decision.in \div decision.slices + 1) * (decision.slices - (done + 1))
        /\ (decision.out \div decision.slices) * (decision.slices - (done + 1)) <= remaining.out - R
        /\ remaining.out - R <= (decision.out \div decision.slices + 1) * (decision.slices - (done + 1))
    BY <1>1, PortionFacts
  <1>3. tx \in Txs /\ mempool \in Seq(Txs) /\ part \in Amts /\ parts \in Seq(Amts) /\ errors \in Nat
    BY <1>1 DEF DivInv, TypeOK, Txs
  <1> HIDE DEF P, R, tx
  <1>4. mempool' \in Seq(Txs) /\ errors' \in Nat
    BY <1>0, <1>3, SubmitType DEF DivInv
  <1>5. CASE errors' = errors
    <2>1. /\ done' = done + 1 /\ remaining' = Rest /\ parts' = Append(parts, part)
      BY <1>5 DEF SendSwap
    <2>2. pc' = IF done + 1 = decision.slices THEN "idle" ELSE "slice"
      BY <1>0, <1>3, <1>5 DEF Submit, Fails
    <2>3. /\ remaining'.in = remaining.in - P /\ remaining'.out = remaining.out - R
          /\ remaining' \in Amts
      BY <1>1, <1>2, <2>1 DEF Rest, Amts
    <2>4. parts' \in Seq(Amts)
      BY <1>3, <2>1
    <2>5. done' \in 0..decision.slices
      BY <1>1, <2>1
    <2>6. TypeOK'
      BY <1>0, <1>3, <1>4, <2>2, <2>3, <2>4, <2>5 DEF DivInv, TypeOK
    <2>7. Between(remaining.in, decision.in)' /\ Between(remaining.out, decision.out)'
      BY <1>0, <1>2, <2>1, <2>3 DEF Between
    <2>8. Valid([in |-> decision.in \div decision.slices,
                 out |-> decision.out \div decision.slices])'
      <3>1. Valid([in |-> decision.in \div decision.slices,
                   out |-> decision.out \div decision.slices])
        <4>1. CASE done = 0
          <5>1. P = decision.in \div decision.slices /\ R = decision.out \div decision.slices
            BY <1>0, <4>1, NextPortions DEF P, R
          <5> QED
            BY <1>1, <5>1 DEF Valid
        <4>2. CASE done > 0
          BY <1>0, <4>2 DEF DivInv, Division
        <4> QED
          BY <1>1, <4>1, <4>2
      <3> QED
        BY <1>0, <3>1 DEF Valid
    <2>9. remaining'.in <= decision'.in
      BY <1>0, <1>1, <1>2, <2>3
    <2>10. pc' # "idle" => done' < decision'.slices
      BY <1>0, <1>1, <2>1, <2>2
    <2>11. Division'
      BY <1>0, <1>1, <2>1, <2>2, <2>7, <2>8, <2>9, <2>10 DEF Division
    <2> QED
      BY <1>1, <1>2, <2>1, <2>6, <2>11
  <1>6. CASE errors' # errors
    <2>1. pc' = "idle" /\ UNCHANGED <<done, remaining, parts>>
      BY <1>0, <1>6 DEF Submit, SendSwap
    <2>2. TypeOK'
      BY <1>0, <1>4, <2>1 DEF DivInv, TypeOK
    <2>3. Division'
      BY <1>0, <1>1, <2>1 DEF Division
    <2> QED
      BY <2>1, <2>2, <2>3
  <1> QED
    BY <1>5, <1>6

\* Every other step leaves the numbers alone.
LEMMA DivisionKept ==
    ASSUME Division,
           pc = "idle" => pc' = "idle",
           pc \in {"idle", "slice"} => pc' \in {"idle", "slice"},
           UNCHANGED <<venue, sliceVars>>
    PROVE  Division'
  <1>1. /\ decision' = decision /\ done' = done /\ remaining' = remaining /\ part' = part
        /\ rejected' = rejected /\ venue' = venue
    BY DEF sliceVars
  <1>2. /\ Between(remaining.in, decision.in)' <=> Between(remaining.in, decision.in)
        /\ Between(remaining.out, decision.out)' <=> Between(remaining.out, decision.out)
    BY <1>1 DEF Between
  <1>3. /\ Portion(remaining.in, decision.in)' = Portion(remaining.in, decision.in)
        /\ Portion(remaining.out, decision.out)' = Portion(remaining.out, decision.out)
    BY <1>1 DEF Portion
  <1>4. /\ Valid(part)' <=> Valid(part)
        /\ Valid([in |-> decision.in \div decision.slices,
                  out |-> decision.out \div decision.slices])'
           <=> Valid([in |-> decision.in \div decision.slices,
                      out |-> decision.out \div decision.slices])
    BY <1>1 DEF Valid
  <1> QED
    BY <1>1, <1>2, <1>3, <1>4 DEF Division

\* The division holds before anything was decided.
LEMMA DivInvInit == Init => DivInv
  <1> SUFFICES ASSUME Init PROVE DivInv
    OBVIOUS
  <1>1. decision \in Decisions
    BY DEF Init
  <1>2. /\ decision.slices \in Nat \ {0}
    <2>1. decision.slices \in 1..MaxSlices
      BY <1>1 DEF Decisions
    <2> QED
      BY <2>1, SlicesAssumption
  <1>3. decision.in \in Nat
    <2>1. decision.in \in Amounts
      BY <1>1 DEF Decisions
    <2> QED
      BY <2>1, AmountsAssumption
  <1>4. TypeOK
    <2>1. done \in 0..decision.slices /\ parts \in Seq(Amts) /\ mempool \in Seq(Txs)
      BY <1>2 DEF Init
    <2>2. remaining \in Amts /\ part \in Amts
      BY DEF Init, Amts
    <2> QED
      BY <1>1, <2>1, <2>2 DEF Init, TypeOK, Decisions
  <1>5. Division
    BY <1>3 DEF Init, Division
  <1> QED
    BY <1>4, <1>5 DEF DivInv

\* The types and the division are inductive.
LEMMA DivInvNext == DivInv /\ [Next]_vars => DivInv'
  <1> SUFFICES ASSUME DivInv, [Next]_vars PROVE TypeOK' /\ Division'
    BY DEF DivInv
  <1> USE DEF DivInv
  <1>1. CASE UNCHANGED vars
    BY <1>1, DivisionKept DEF TypeOK, vars, sliceVars, chainVars
  <1>2. ASSUME NEW d \in Decisions, Sized(d), Start(d) PROVE TypeOK' /\ Division'
    <2>1. TypeOK'
      <3>1. /\ d.in \in Nat /\ d.out \in Nat /\ d.slices \in Nat \ {0}
        <4>1. d.in \in Amounts /\ d.out \in MinOuts /\ d.slices \in 1..MaxSlices
          BY DEF Decisions
        <4>2. d.in \in Nat /\ d.out \in Nat
          BY <4>1, AmountsAssumption
        <4>3. d.slices \in Nat \ {0}
          BY <4>1, SlicesAssumption
        <4> QED
          BY <4>2, <4>3
      <3> QED
        BY <1>2, <3>1 DEF TypeOK, Start, Begin, Decisions, Amts, chainVars
    <2> QED
      BY <1>2, <2>1, DivisionStart
  <1>3. CASE Slice
    BY <1>3, DivisionSlice
  <1>4. CASE Cancel
    BY <1>4, DivisionKept DEF Cancel, TypeOK, sliceVars, chainVars
  <1>5. CASE CheckAllowance
    BY <1>5, DivisionKept DEF CheckAllowance, Fails, TypeOK, sliceVars, chainVars
  <1>6. CASE Approve
    <2>1. Grant \in Nat
      BY DecisionFacts, MaxAllowanceAssumption DEF Grant
    <2>2. [kind |-> "approve", amount |-> Grant, behind |-> FALSE] \in Txs
      BY <2>1 DEF Txs
    <2>3. mempool' \in Seq(Txs) /\ errors' \in Nat
      BY <1>6, <2>2, SubmitType DEF Approve
    <2>4. /\ pc = "approve" /\ pc' \in {"idle", "await"} /\ behind' = FALSE
          /\ UNCHANGED <<venue, sliceVars, allowance, approved, short, execs>>
      BY <1>6 DEF Approve, Submit
    <2>5. TypeOK'
      BY <2>3, <2>4 DEF TypeOK, sliceVars
    <2> QED
      BY <2>4, <2>5, DivisionKept
  <1>7. CASE AwaitApproval
    BY <1>7, DivisionKept DEF AwaitApproval, TypeOK, sliceVars, chainVars
  <1>8. CASE Preflight
    BY <1>8, DivisionKept DEF Preflight, TypeOK, sliceVars, chainVars
  <1>9. CASE SendSwap
    BY <1>9, DivisionSend
  <1>10. CASE Mine
    <2>1. mempool \in Seq(Txs) /\ mempool # << >> /\ allowance \in Nat
      BY <1>10 DEF Mine, TypeOK
    <2>2. Head(mempool) \in Txs /\ Tail(mempool) \in Seq(Txs)
      BY <2>1
    <2>3. Head(mempool).amount \in Nat /\ Head(mempool).behind \in BOOLEAN
      BY <2>2 DEF Txs
    <2>4. mempool' \in Seq(Txs)
      BY <1>10, <2>2 DEF Mine
    <2>5. allowance' \in Nat /\ approved' \in BOOLEAN /\ short' \subseteq BOOLEAN
      <3> DEFINE tx == Head(mempool)
      <3>1. /\ tx.amount \in Nat /\ tx.behind \in BOOLEAN /\ allowance \in Nat
            /\ approved \in BOOLEAN /\ short \subseteq BOOLEAN
        BY <2>1, <2>3 DEF TypeOK
      <3> HIDE DEF tx
      <3>2. \/ allowance' = allowance \/ allowance' = tx.amount
            \/ allowance >= tx.amount /\ allowance' = allowance - tx.amount
        BY <1>10, Zenon DEF Mine, tx
      <3>3. allowance' \in Nat
        BY <3>1, <3>2
      <3>4. /\ approved' = approved \/ approved' = TRUE \/ approved' = FALSE
            /\ short' = short \/ short' = short \cup {tx.behind}
        BY <1>10, Zenon DEF Mine, tx
      <3>5. approved' \in BOOLEAN /\ short' \subseteq BOOLEAN
        BY <3>1, <3>4
      <3> QED
        BY <3>3, <3>5
    <2>6. UNCHANGED <<venue, pc, sliceVars, behind, execs, errors>>
      BY <1>10 DEF Mine
    <2>7. TypeOK'
      BY <2>4, <2>5, <2>6 DEF TypeOK, sliceVars
    <2> QED
      BY <2>6, <2>7, DivisionKept
  <1> QED
    BY <1>1, <1>2, <1>3, <1>4, <1>5, <1>6, <1>7, <1>8, <1>9, <1>10 DEF Next

\* Every state has its types (executeTWAP, approveAndWait, SignAndSend).
THEOREM TypeCorrect == Spec => []TypeOK
  <1>1. DivInv => TypeOK
    BY DEF DivInv
  <1> QED
    BY <1>1, DivInvInit, DivInvNext, PTL DEF Spec

EvenInv == DivInv /\ SlicesEven /\ SizeRejectedFirst /\ QuoteRejectsOnlyTight

\* Nothing but a new decision, a slice and a sent swap concerns these properties.
LEMMA EvenKept ==
    ASSUME EvenInv, UNCHANGED <<decision, done, parts, rejected>>
    PROVE  (SlicesEven /\ SizeRejectedFirst /\ QuoteRejectsOnlyTight)'
  <1>1. SlicesEven'
    BY DEF EvenInv, SlicesEven
  <1>2. SizeRejectedFirst' /\ QuoteRejectsOnlyTight'
    BY DEF EvenInv, SizeRejectedFirst, QuoteRejectsOnlyTight, Quoted
  <1> QED
    BY <1>1, <1>2

\* A slice is rejected for its size when it is the first, and for its quote when
\* no smaller amount would have done.
LEMMA RejectedSlice ==
    ASSUME EvenInv, Slice
    PROVE  SizeRejectedFirst' /\ QuoteRejectsOnlyTight'
  <1> DEFINE P == Portion(remaining.in, decision.in)
             R == Portion(remaining.out, decision.out)
             p == [in |-> P, out |-> R]
             q == decision.in \div decision.slices
             r == decision.out \div decision.slices
  <1>0. /\ pc = "slice" /\ DivInv
        /\ UNCHANGED <<venue, decision, done>>
    BY DEF Slice, EvenInv
  <1>1. /\ P \in Nat /\ R \in Nat /\ q \in Nat /\ r \in Nat
        /\ P \in {q, q + 1} /\ R \in {r, r + 1}
    BY <1>0, NextPortions
  <1>2. /\ rejected = "no"
        /\ done > 0 => q > 0 /\ (venue = "v4" => r > 0)
    BY <1>0 DEF DivInv, Division, Valid
  <1>3. \/ ~Valid(p) /\ rejected' = "size"
        \/ ~QuoteCovers(p) /\ rejected' = "quote"
        \/ rejected' = rejected
    BY DEF Slice
  <1>4. done > 0 => Valid(p)
    BY <1>1, <1>2 DEF Valid
  <1>5. ~QuoteCovers(p) => Quoted(decision, q) < r + 1
    <2>1. Quoted(decision, q) \in Nat /\ Quoted(decision, P) \in Nat
          /\ Quoted(decision, q) <= Quoted(decision, P)
      BY <1>0, <1>1, DecisionFacts, QuoteMonotone DEF DivInv
    <2>2. ~QuoteCovers(p) => Quoted(decision, P) < R \/ ~(Quoted(decision, P) > 0)
      <3> HIDE DEF P, R
      <3>1. Quoted(decision, P) \in Nat /\ R \in Nat
        BY <1>1, <2>1
      <3>2. p.in = P /\ p.out = R
        OBVIOUS
      <3> QED
        BY <3>1, <3>2 DEF QuoteCovers
    <2> HIDE DEF P, R, q, r
    <2> QED
      BY <1>1, <2>1, <2>2
  <1>6. SizeRejectedFirst'
    <2>1. done \in Nat /\ done' = done
      BY <1>0, DecisionFacts DEF DivInv
    <2> QED
      BY <1>2, <1>3, <1>4, <2>1 DEF SizeRejectedFirst
  <1>7. rejected' = "quote" => Quoted(decision, q) < r + 1
    BY <1>2, <1>3, <1>5
  <1>8. QuoteRejectsOnlyTight'
    BY <1>0, <1>7 DEF QuoteRejectsOnlyTight, Quoted
  <1> QED
    BY <1>6, <1>8

\* The evenness of the slices is inductive, given the division.
LEMMA EvenNext == EvenInv /\ [Next]_vars => EvenInv'
  <1> SUFFICES ASSUME EvenInv, [Next]_vars
               PROVE  (SlicesEven /\ SizeRejectedFirst /\ QuoteRejectsOnlyTight)'
    BY DivInvNext DEF EvenInv
  <1>0. DivInv /\ SlicesEven /\ SizeRejectedFirst /\ QuoteRejectsOnlyTight
    BY DEF EvenInv
  <1>1. CASE UNCHANGED vars
    BY <1>1, EvenKept DEF vars, sliceVars
  <1>2. ASSUME NEW d \in Decisions, Start(d)
        PROVE  (SlicesEven /\ SizeRejectedFirst /\ QuoteRejectsOnlyTight)'
    <2>1. parts' = << >> /\ rejected' = "no"
      BY <1>2 DEF Start, Begin
    <2> QED
      BY <2>1 DEF SlicesEven, SizeRejectedFirst, QuoteRejectsOnlyTight
  <1>3. CASE Slice
    <2>1. UNCHANGED <<decision, parts>>
      BY <1>3 DEF Slice
    <2>2. SlicesEven'
      BY <1>0, <2>1 DEF SlicesEven
    <2> QED
      BY <1>3, <2>2, RejectedSlice
  <1>4. CASE Cancel
    BY <1>4, EvenKept DEF Cancel, sliceVars
  <1>5. CASE CheckAllowance
    BY <1>5, EvenKept DEF CheckAllowance, sliceVars
  <1>6. CASE Approve
    BY <1>6, EvenKept DEF Approve, sliceVars
  <1>7. CASE AwaitApproval
    BY <1>7, EvenKept DEF AwaitApproval, sliceVars
  <1>8. CASE Preflight
    BY <1>8, EvenKept DEF Preflight, sliceVars
  <1>9. CASE SendSwap
    <2>1. pc = "send" /\ decision' = decision /\ rejected' = rejected
      BY <1>9 DEF SendSwap
    <2>2. rejected = "no"
      BY <1>0, <2>1 DEF DivInv, Division
    <2>3. SizeRejectedFirst' /\ QuoteRejectsOnlyTight'
      BY <2>1, <2>2 DEF SizeRejectedFirst, QuoteRejectsOnlyTight
    <2>4. CASE parts' = parts
      BY <1>0, <2>1, <2>3, <2>4 DEF SlicesEven
    <2>5. CASE parts' # parts
      <3> DEFINE q == decision.in \div decision.slices
                 r == decision.out \div decision.slices
      <3>1. /\ parts' = Append(parts, part)
            /\ part.in \in {q, q + 1} /\ part.out \in {r, r + 1}
        BY <1>0, <1>9, <2>5, DivisionSend
      <3>2. q \in Nat /\ r \in Nat
        BY <1>0, <2>1, NextPortions
      <3>3. \A k \in DOMAIN parts : parts[k].in - q \in {0, 1} /\ parts[k].out - r \in {0, 1}
        BY <1>0 DEF SlicesEven
      <3>4. parts \in Seq(Amts) /\ part \in Amts
        BY <1>0 DEF DivInv, TypeOK
      <3> HIDE DEF q, r
      <3>5. part.in - q \in {0, 1} /\ part.out - r \in {0, 1}
        BY <3>1, <3>2
      <3>6. \A k \in DOMAIN parts' : parts'[k] = part \/ (k \in DOMAIN parts /\ parts'[k] = parts[k])
        <4>1. DOMAIN parts = 1..Len(parts) /\ Len(parts) \in Nat
          BY <3>4
        <4>2. parts' \in Seq(Amts) /\ Len(parts') = Len(parts) + 1
          BY <3>1, <3>4
        <4>3. DOMAIN parts' = 1..Len(parts) + 1
          BY <4>2
        <4>4. parts'[Len(parts) + 1] = part
          BY <3>1, <3>4
        <4>5. \A k \in 1..Len(parts) : parts'[k] = parts[k]
          BY <3>1, <3>4
        <4> QED
          BY <4>1, <4>3, <4>4, <4>5
      <3>7. \A k \in DOMAIN parts' :
                parts'[k].in - q \in {0, 1} /\ parts'[k].out - r \in {0, 1}
        BY <3>3, <3>5, <3>6
      <3>8. SlicesEven'
        BY <2>1, <3>7 DEF SlicesEven, q, r
      <3> QED
        BY <2>3, <3>8
    <2> QED
      BY <2>4, <2>5
  <1>10. CASE Mine
    BY <1>10, EvenKept DEF Mine, sliceVars
  <1> QED
    BY <1>1, <1>2, <1>3, <1>4, <1>5, <1>6, <1>7, <1>8, <1>9, <1>10 DEF Next

\* The evenness of the slices holds of every state.
LEMMA EvenAlways == Spec => []EvenInv
  <1>1. Init => EvenInv
    <2> SUFFICES ASSUME Init PROVE EvenInv
      OBVIOUS
    <2>1. parts = << >> /\ rejected = "no"
      BY DEF Init
    <2> QED
      BY <2>1, DivInvInit DEF EvenInv, SlicesEven, SizeRejectedFirst, QuoteRejectsOnlyTight
  <1> QED
    BY <1>1, EvenNext, PTL DEF Spec

\* The slices of a decision differ by one unit at most (executeTWAP).
THEOREM EvenDivision == Spec => []SlicesEven
  <1>1. EvenInv => SlicesEven
    BY DEF EvenInv
  <1> QED
    BY <1>1, EvenAlways, PTL

\* The size of a slice is rejected before anything of the decision was sent, or
\* never: the checks of amountIn and minAmountOut in the executors.
THEOREM SizeFirst == Spec => []SizeRejectedFirst
  <1>1. EvenInv => SizeRejectedFirst
    BY DEF EvenInv
  <1> QED
    BY <1>1, EvenAlways, PTL

\* The V4 pre-check rejects a slice only of a decision that tolerates less than
\* one unit of output per slice (executeTWAP, V4Executor.Execute).
THEOREM QuoteTight == Spec => []QuoteRejectsOnlyTight
  <1>1. EvenInv => QuoteRejectsOnlyTight
    BY DEF EvenInv
  <1> QED
    BY <1>1, EvenAlways, PTL

-----------------------------------------------------------------------------
(* The sum of the slices.                                                  *)

\* Running totals of a sequence of amounts.
IsSum(f, s) == f = [k \in 0..Len(s) |-> IF k = 0 THEN 0 ELSE f[k - 1] + s[k]]

\* The sum of s is t: it has running totals, and they end in t.
Sums(s, t) ==
    /\ \E f : IsSum(f, s)
    /\ \A f : IsSum(f, s) => f[Len(s)] = t

\* The sum there is, is the total.
LEMMA SumsTotal ==
    ASSUME NEW s, NEW t, Sums(s, t)
    PROVE  Total(s) = t
  <1> DEFINE c == CHOOSE f : IsSum(f, s)
  <1>1. IsSum(c, s)
    BY DEF Sums
  <1>2. c[Len(s)] = t
    BY <1>1 DEF Sums
  <1>3. Total(s) = c[Len(s)]
    BY DEF Total, IsSum
  <1> QED
    BY <1>2, <1>3

\* Running totals, point by point.
LEMMA IsSumPoints ==
    ASSUME NEW s, NEW f, Len(s) \in Nat
    PROVE  IsSum(f, s) <=> /\ f = [k \in 0..Len(s) |-> f[k]]
                         /\ f[0] = 0
                         /\ \A k \in 1..Len(s) : f[k] = f[k - 1] + s[k]
  <1> DEFINE n == Len(s)
  <1>0. 0 \in 0..n /\ \A k \in 1..n : k \in 0..n /\ k # 0
    OBVIOUS
  <1>1. ASSUME IsSum(f, s)
        PROVE  /\ f = [k \in 0..n |-> f[k]]
               /\ f[0] = 0
               /\ \A k \in 1..n : f[k] = f[k - 1] + s[k]
    <2>1. f = [k \in 0..n |-> IF k = 0 THEN 0 ELSE f[k - 1] + s[k]]
      BY <1>1 DEF IsSum
    <2> HIDE DEF n
    <2>2. \A k \in 0..n : f[k] = IF k = 0 THEN 0 ELSE f[k - 1] + s[k]
      BY <2>1
    <2>3. f = [k \in 0..n |-> f[k]]
      BY <2>1, <2>2, Zenon
    <2> QED
      BY <1>0, <2>2, <2>3
  <1>2. ASSUME f = [k \in 0..n |-> f[k]], f[0] = 0,
               \A k \in 1..n : f[k] = f[k - 1] + s[k]
        PROVE  IsSum(f, s)
    <2>1. \A k \in 0..n : k = 0 \/ k \in 1..n
      OBVIOUS
    <2>2. \A k \in 0..n : f[k] = IF k = 0 THEN 0 ELSE f[k - 1] + s[k]
      BY <1>2, <2>1
    <2> HIDE DEF n
    <2>3. f = [k \in 0..n |-> IF k = 0 THEN 0 ELSE f[k - 1] + s[k]]
      BY <1>2, <2>2
    <2> QED
      BY <2>3 DEF IsSum, n
  <1> QED
    BY <1>1, <1>2

\* Nothing sums up to zero.
LEMMA SumsEmpty == Sums(<< >>, 0)
  <1>1. Len(<< >>) = 0
    OBVIOUS
  <1>2. \A f : IsSum(f, << >>) => f[0] = 0
    BY <1>1, IsSumPoints
  <1> DEFINE z == [k \in 0..0 |-> 0]
  <1>3. IsSum(z, << >>)
    BY <1>1 DEF IsSum
  <1> QED
    BY <1>1, <1>2, <1>3 DEF Sums

\* One amount more adds itself to the sum.
LEMMA SumsAppend ==
    ASSUME NEW s \in Seq(Nat), NEW t \in Nat, NEW x \in Nat, Sums(s, t)
    PROVE  Sums(Append(s, x), t + x)
  <1> DEFINE u == Append(s, x)
             n == Len(s)
  <1>1. n \in Nat /\ Len(u) = n + 1 /\ u[n + 1] = x /\ \A k \in 1..n : u[k] = s[k]
    OBVIOUS
  <1>2. /\ \A k \in 0..n : k # n + 1 /\ k \in 0..n + 1
        /\ \A k \in 1..n : k \in 0..n /\ k - 1 \in 0..n /\ k \in 1..n + 1
        /\ \A k \in 1..n + 1 : k \in 1..n \/ k = n + 1
        /\ n + 1 \in 1..n + 1 /\ n + 1 \in 0..n + 1 /\ n + 1 - 1 = n /\ n \in 0..n /\ 0 \in 0..n
    BY <1>1
  <1> HIDE DEF u, n
  <1>3. ASSUME NEW f, IsSum(f, u) PROVE f[Len(u)] = t + x
    <2> DEFINE g == [k \in 0..n |-> f[k]]
    <2>1. f[0] = 0 /\ \A k \in 1..n + 1 : f[k] = f[k - 1] + u[k]
      <3>1. Len(u) \in Nat
        BY <1>1
      <3>2. f[0] = 0 /\ \A k \in 1..Len(u) : f[k] = f[k - 1] + u[k]
        BY <1>3, <3>1, IsSumPoints
      <3> QED
        BY <1>1, <3>2, Zenon
    <2>2. g = [k \in 0..n |-> g[k]] /\ \A k \in 0..n : g[k] = f[k]
      OBVIOUS
    <2> HIDE DEF g
    <2>3. g[0] = 0 /\ \A k \in 1..n : g[k] = g[k - 1] + s[k]
      BY <1>1, <1>2, <2>1, <2>2
    <2>4. IsSum(g, s)
      BY <1>1, <2>2, <2>3, IsSumPoints DEF n
    <2>5. g[n] = t
      BY <2>4 DEF Sums, n
    <2>6. f[n + 1] = f[n] + u[n + 1]
      BY <1>2, <2>1
    <2> QED
      BY <1>1, <1>2, <2>2, <2>5, <2>6
  <1>4. \E f : IsSum(f, u)
    <2>1. PICK f : IsSum(f, s)
      BY DEF Sums
    <2>2. f[0] = 0 /\ \A k \in 1..n : f[k] = f[k - 1] + s[k]
      BY <1>1, <2>1, IsSumPoints DEF n
    <2> DEFINE g == [k \in 0..n + 1 |-> IF k = n + 1 THEN f[n] + x ELSE f[k]]
    <2>3. /\ g = [k \in 0..n + 1 |-> g[k]]
          /\ g[n + 1] = f[n] + x
          /\ \A k \in 0..n : g[k] = f[k]
      BY <1>2
    <2> HIDE DEF g
    <2>4. \A k \in 1..n : g[k] = g[k - 1] + u[k]
      BY <1>1, <1>2, <2>2, <2>3
    <2>5. g[n + 1] = g[n + 1 - 1] + u[n + 1]
      BY <1>1, <1>2, <2>3
    <2>6. \A k \in 1..n + 1 : g[k] = g[k - 1] + u[k]
      <3> SUFFICES ASSUME NEW k \in 1..n + 1 PROVE g[k] = g[k - 1] + u[k]
        OBVIOUS
      <3>1. CASE k = n + 1
        <4>1. k - 1 = n + 1 - 1
          BY <1>1, <3>1
        <4> QED
          BY <2>5, <3>1, <4>1, Zenon
      <3> QED
        BY <1>2, <2>4, <3>1, Zenon
    <2>7. g[0] = 0
      BY <1>2, <2>2, <2>3
    <2>8. IsSum(g, u)
      <3>1. Len(u) \in Nat
        BY <1>1
      <3> QED
        BY <1>1, <2>3, <2>6, <2>7, <3>1, IsSumPoints
    <2> QED
      BY <2>8
  <1> QED
    BY <1>3, <1>4 DEF Sums, u

\* A function that agrees with a sequence and has one value more extends it.
LEMMA ExtendsBy ==
    ASSUME NEW v \in Seq(Nat), NEW x \in Nat, NEW w, NEW n \in Nat, n = Len(v),
           w \in [1..n + 1 -> Nat],
           \A k \in 1..n : w[k] = v[k],
           w[n + 1] = x
    PROVE  w = Append(v, x)
  <1> DEFINE u == Append(v, x)
  <1>1. u \in Seq(Nat) /\ Len(u) = n + 1 /\ u[n + 1] = x /\ \A k \in 1..n : u[k] = v[k]
    OBVIOUS
  <1> HIDE DEF u
  <1>2. u = [k \in 1..n + 1 |-> u[k]]
    BY <1>1
  <1>3. \A k \in 1..n + 1 : k \in 1..n \/ k = n + 1
    OBVIOUS
  <1>4. \A k \in 1..n + 1 : u[k] = w[k]
    BY <1>1, <1>3
  <1>5. w = [k \in 1..n + 1 |-> w[k]]
    OBVIOUS
  <1>6. u = w
    BY <1>2, <1>4, <1>5, Zenon
  <1> QED
    BY <1>6 DEF u

\* What the slices sell, and what they ask for.
Ins(p) == [k \in 1..Len(p) |-> p[k].in]

Outs(p) == [k \in 1..Len(p) |-> p[k].out]

\* One slice more adds its amounts to both.
LEMMA PartsAppend ==
    ASSUME NEW p \in Seq(Amts), NEW e \in Amts
    PROVE  /\ Ins(p) \in Seq(Nat) /\ Ins(Append(p, e)) = Append(Ins(p), e.in)
           /\ Outs(p) \in Seq(Nat) /\ Outs(Append(p, e)) = Append(Outs(p), e.out)
           /\ e.in \in Nat /\ e.out \in Nat
  <1> DEFINE u == Append(p, e)
             n == Len(p)
  <1>1. n \in Nat /\ Len(u) = n + 1 /\ u[n + 1] = e /\ \A k \in 1..n : u[k] = p[k]
    OBVIOUS
  <1>2. e.in \in Nat /\ e.out \in Nat /\ \A k \in 1..n : p[k].in \in Nat /\ p[k].out \in Nat
    <2>1. \A k \in 1..n : p[k] \in Amts
      OBVIOUS
    <2> QED
      BY <2>1 DEF Amts
  <1>3. /\ Ins(p) = [k \in 1..n |-> p[k].in] /\ Outs(p) = [k \in 1..n |-> p[k].out]
        /\ Ins(u) = [k \in 1..n + 1 |-> u[k].in] /\ Outs(u) = [k \in 1..n + 1 |-> u[k].out]
    BY <1>1 DEF Ins, Outs
  <1> HIDE DEF u, n
  <1>4. /\ Ins(p) \in Seq(Nat) /\ Len(Ins(p)) = n
        /\ Outs(p) \in Seq(Nat) /\ Len(Outs(p)) = n
    <2>1. \A f \in [1..n -> Nat] : f \in Seq(Nat) /\ Len(f) = n
      BY <1>1
    <2>2. Ins(p) \in [1..n -> Nat] /\ Outs(p) \in [1..n -> Nat]
      BY <1>2, <1>3
    <2> QED
      BY <2>1, <2>2
  <1>5. /\ Ins(u) \in [1..n + 1 -> Nat] /\ Ins(u)[n + 1] = e.in
        /\ Outs(u) \in [1..n + 1 -> Nat] /\ Outs(u)[n + 1] = e.out
        /\ \A k \in 1..n : Ins(u)[k] = Ins(p)[k] /\ Outs(u)[k] = Outs(p)[k]
    <2>1. \A k \in 1..n + 1 : k \in 1..n \/ k = n + 1
      BY <1>1
    <2>2. \A k \in 1..n + 1 : u[k].in \in Nat /\ u[k].out \in Nat
      BY <1>1, <1>2, <2>1
    <2> QED
      BY <1>1, <1>3, <2>2
  <1>6. Ins(u) = Append(Ins(p), e.in)
    <2> DEFINE v == Ins(p)
               w == Ins(u)
               x == e.in
    <2>1. /\ v \in Seq(Nat) /\ x \in Nat /\ n \in Nat /\ n = Len(v)
          /\ w \in [1..n + 1 -> Nat] /\ w[n + 1] = x
          /\ \A k \in 1..n : w[k] = v[k]
      BY <1>1, <1>2, <1>4, <1>5, Zenon
    <2> HIDE DEF v, w, x
    <2>2. w = Append(v, x)
      BY <2>1, ExtendsBy
    <2> QED
      BY <2>2 DEF v, w, x
  <1>7. Outs(u) = Append(Outs(p), e.out)
    <2> DEFINE v == Outs(p)
               w == Outs(u)
               x == e.out
    <2>1. /\ v \in Seq(Nat) /\ x \in Nat /\ n \in Nat /\ n = Len(v)
          /\ w \in [1..n + 1 -> Nat] /\ w[n + 1] = x
          /\ \A k \in 1..n : w[k] = v[k]
      BY <1>1, <1>2, <1>4, <1>5, Zenon
    <2> HIDE DEF v, w, x
    <2>2. w = Append(v, x)
      BY <2>1, ExtendsBy
    <2> QED
      BY <2>2 DEF v, w, x
  <1> QED
    BY <1>2, <1>4, <1>6, <1>7 DEF u

\* What was sent of the decision in work and what remains are the whole of it, and
\* nothing remains when all its slices were sent.
Accounted ==
    /\ pc # "idle" \/ done > 0 =>
        /\ Sums(Ins(parts), decision.in - remaining.in)
        /\ Sums(Outs(parts), decision.out - remaining.out)
        /\ remaining.out <= decision.out
    /\ Finished => remaining = [in |-> 0, out |-> 0]

SumInv == DivInv /\ Accounted

\* Only a new decision and a sent swap concern the sums.
LEMMA AccountedKept ==
    ASSUME Accounted, UNCHANGED <<decision, done, parts, remaining>>,
           pc = "idle" => pc' = "idle"
    PROVE  Accounted'
  BY DEF Accounted, Finished

\* A sent swap moves its amounts from what remains to what was sent.
LEMMA AccountedSend ==
    ASSUME SumInv, SendSwap
    PROVE  Accounted'
  <1>0. pc = "send" /\ pc # "idle" /\ decision' = decision /\ DivInv /\ Accounted
    BY DEF SendSwap, SumInv
  <1>1. /\ decision.slices \in Nat \ {0} /\ done \in Nat /\ done < decision.slices
        /\ remaining.in \in Nat /\ remaining.out \in Nat
        /\ decision.in \in Nat /\ decision.out \in Nat
        /\ part.in \in Nat /\ part.out \in Nat
        /\ part.in = Portion(remaining.in, decision.in)
        /\ part.out = Portion(remaining.out, decision.out)
        /\ remaining.in <= decision.in
        /\ Between(remaining.in, decision.in) /\ Between(remaining.out, decision.out)
    BY <1>0, DecisionFacts DEF DivInv, Division
  <1>2. CASE errors' # errors
    <2>1. pc' = "idle" /\ UNCHANGED <<done, remaining, parts>>
      BY <1>2 DEF Submit, SendSwap
    <2> QED
      BY <1>0, <2>1 DEF Accounted, Finished
  <1>3. CASE errors' = errors
    <2>1. /\ done' = done + 1 /\ remaining' = Rest /\ parts' = Append(parts, part)
      BY <1>3 DEF SendSwap
    <2>2. /\ remaining' = [in |-> remaining.in - part.in, out |-> remaining.out - part.out]
          /\ remaining'.in = remaining.in - part.in /\ remaining'.out = remaining.out - part.out
      BY <2>1 DEF Rest
    <2>3. parts \in Seq(Amts) /\ part \in Amts
      BY <1>0 DEF DivInv, TypeOK
    <2>4. /\ Sums(Ins(parts), decision.in - remaining.in)
          /\ Sums(Outs(parts), decision.out - remaining.out)
          /\ remaining.out <= decision.out
      BY <1>0 DEF Accounted
    <2>5. /\ Ins(parts) \in Seq(Nat) /\ Ins(parts') = Append(Ins(parts), part.in)
          /\ Outs(parts) \in Seq(Nat) /\ Outs(parts') = Append(Outs(parts), part.out)
      BY <2>1, <2>3, PartsAppend
    <2>6. /\ Sums(Ins(parts'), (decision.in - remaining.in) + part.in)
          /\ Sums(Outs(parts'), (decision.out - remaining.out) + part.out)
      <3>1. decision.in - remaining.in \in Nat /\ decision.out - remaining.out \in Nat
        BY <1>1, <2>4
      <3>2. Sums(Append(Ins(parts), part.in), (decision.in - remaining.in) + part.in)
        BY <1>1, <2>4, <2>5, <3>1, SumsAppend
      <3>3. Sums(Append(Outs(parts), part.out), (decision.out - remaining.out) + part.out)
        BY <1>1, <2>4, <2>5, <3>1, SumsAppend
      <3> QED
        BY <2>5, <3>2, <3>3
    <2>7. /\ (decision.in - remaining.in) + part.in = decision'.in - remaining'.in
          /\ (decision.out - remaining.out) + part.out = decision'.out - remaining'.out
          /\ remaining'.out <= decision'.out
      BY <1>0, <1>1, <2>2, <2>4
    <2>8. Finished' => remaining'.in = 0 /\ remaining'.out = 0
      <3>1. /\ remaining.in - part.in \in Nat /\ remaining.out - part.out \in Nat
            /\ remaining.in - part.in
                 <= (decision.in \div decision.slices + 1) * (decision.slices - (done + 1))
            /\ remaining.out - part.out
                 <= (decision.out \div decision.slices + 1) * (decision.slices - (done + 1))
            /\ decision.in \div decision.slices \in Nat
            /\ decision.out \div decision.slices \in Nat
        BY <1>1, PortionFacts
      <3>2. ASSUME Finished'  PROVE decision.slices - (done + 1) = 0
        BY <1>0, <1>1, <2>1, <3>2 DEF Finished
      <3>3. \A q \in Nat : (q + 1) * 0 = 0
        OBVIOUS
      <3> QED
        BY <2>2, <3>1, <3>2, <3>3
    <2>9. Finished' => remaining' = [in |-> 0, out |-> 0]
      BY <2>2, <2>8
    <2> QED
      BY <2>6, <2>7, <2>9 DEF Accounted
  <1> QED
    BY <1>2, <1>3

\* The sums are inductive, given the division.
LEMMA SumNext == SumInv /\ [Next]_vars => SumInv'
  <1> SUFFICES ASSUME SumInv, [Next]_vars PROVE Accounted'
    BY DivInvNext DEF SumInv
  <1>0. DivInv /\ Accounted
    BY DEF SumInv
  <1>1. CASE UNCHANGED vars
    BY <1>0, <1>1, AccountedKept DEF vars, sliceVars
  <1>2. ASSUME NEW d \in Decisions, Start(d)  PROVE Accounted'
    <2>1. /\ decision' = d /\ done' = 0 /\ parts' = << >>
          /\ remaining' = [in |-> d.in, out |-> d.out]
      BY <1>2 DEF Start, Begin
    <2>2. d.in \in Nat /\ d.out \in Nat /\ d.slices \in Nat \ {0}
      <3>1. d.in \in Amounts /\ d.out \in MinOuts /\ d.slices \in 1..MaxSlices
        BY DEF Decisions
      <3>2. d.in \in Nat /\ d.out \in Nat
        BY <3>1, AmountsAssumption
      <3>3. d.slices \in Nat \ {0}
        BY <3>1, SlicesAssumption
      <3> QED
        BY <3>2, <3>3
    <2>3. ~Finished'
      BY <2>1, <2>2 DEF Finished
    <2>4. Ins(<< >>) = << >> /\ Outs(<< >>) = << >>
      <3>1. Len(<< >>) = 0 /\ 1..0 = {}
        OBVIOUS
      <3> QED
        BY <3>1 DEF Ins, Outs
    <2>5. /\ Sums(Ins(parts'), decision'.in - remaining'.in)
          /\ Sums(Outs(parts'), decision'.out - remaining'.out)
          /\ remaining'.out <= decision'.out
      <3>1. decision'.in - remaining'.in = 0 /\ decision'.out - remaining'.out = 0
        BY <2>1, <2>2
      <3> QED
        BY <2>1, <2>2, <2>4, <3>1, SumsEmpty
    <2> QED
      BY <2>3, <2>5 DEF Accounted
  <1>3. CASE SendSwap
    BY <1>3, AccountedSend
  <1>4. CASE Slice \/ Cancel \/ CheckAllowance \/ Approve \/ AwaitApproval \/ Preflight \/ Mine
    <2>1. UNCHANGED <<decision, done, parts, remaining>>
      BY <1>4 DEF Slice, Cancel, CheckAllowance, Approve, AwaitApproval, Preflight, Mine,
                  sliceVars
    <2>2. pc = "idle" => pc' = "idle"
      BY <1>4 DEF Slice, Cancel, CheckAllowance, Approve, AwaitApproval, Preflight, Mine
    <2> QED
      BY <1>0, <2>1, <2>2, AccountedKept
  <1> QED
    BY <1>1, <1>2, <1>3, <1>4 DEF Next

\* The slices of a decision that was sent to the end add up to all of it, in what
\* they sell and in what they ask for (executeTWAP).
THEOREM DivisionLosesNothing == Spec => []WholeDecisionSent
  <1>1. Init => SumInv
    <2> SUFFICES ASSUME Init PROVE Accounted
      BY DivInvInit DEF SumInv
    <2>1. pc = "idle" /\ done = 0
      BY DEF Init
    <2>2. decision.slices \in Nat \ {0}
      <3>1. TypeOK
        BY DivInvInit DEF DivInv
      <3> QED
        BY <3>1, DecisionFacts
    <2> QED
      BY <2>1, <2>2 DEF Accounted, Finished
  <1>2. SumInv => WholeDecisionSent
    <2> SUFFICES ASSUME SumInv, Finished
                 PROVE  /\ Total(Ins(parts)) = decision.in
                        /\ Total(Outs(parts)) = decision.out
      BY Zenon DEF WholeDecisionSent, Ins, Outs
    <2>1. /\ decision.slices \in Nat \ {0} /\ done = decision.slices
          /\ decision.in \in Nat /\ decision.out \in Nat
      BY DecisionFacts DEF SumInv, DivInv, Finished
    <2>2. remaining.in = 0 /\ remaining.out = 0
      BY DEF SumInv, Accounted
    <2>3. /\ Sums(Ins(parts), decision.in - 0)
          /\ Sums(Outs(parts), decision.out - 0)
      BY <2>1, <2>2 DEF SumInv, Accounted
    <2>4. decision.in - 0 = decision.in /\ decision.out - 0 = decision.out
      BY <2>1
    <2> QED
      BY <2>3, <2>4, SumsTotal
  <1> QED
    BY <1>1, <1>2, SumNext, PTL DEF Spec

-----------------------------------------------------------------------------
(* The allowances the swaps find.                                          *)

\* Once the maximum is approved it stays, and swaps are sent after that.
Maximal ==
    venue = "v4" =>
        /\ allowance \in {0, MaxAllowance}
        /\ \A k \in DOMAIN mempool :
              \/ mempool[k].kind = "approve" /\ mempool[k].amount = MaxAllowance
              \/ /\ mempool[k].kind = "swap" /\ mempool[k].amount <= MaxAllowance
                 /\ allowance = MaxAllowance
        /\ pc = "send" => allowance = MaxAllowance
        /\ short = {}

\* A swap whose allowance was read with nothing pending is the next to be mined,
\* and nothing can use its allowance up before.
Undisturbed ==
    /\ \A k \in DOMAIN mempool :
          mempool[k].kind = "swap" /\ ~mempool[k].behind =>
              k = 1 /\ allowance >= mempool[k].amount
    /\ pc \in {"preflight", "send"} /\ ~behind =>
          mempool = << >> /\ allowance >= part.in
    /\ pc = "await" =>
          \/ /\ mempool # << >>
             /\ mempool[Len(mempool)].kind = "approve"
             /\ mempool[Len(mempool)].amount >= part.in
          \/ mempool = << >> /\ (approved => allowance >= part.in)
    /\ FALSE \notin short

AllowInv == DivInv /\ Maximal /\ Undisturbed

\* The elements of an extended sequence.
LEMMA Extended ==
    ASSUME NEW S, NEW s \in Seq(S), NEW x \in S
    PROVE  /\ Append(s, x) \in Seq(S)
           /\ Append(s, x) # << >>
           /\ Len(Append(s, x)) = Len(s) + 1
           /\ Append(s, x)[Len(Append(s, x))] = x
           /\ \A k \in DOMAIN Append(s, x) :
                 \/ k \in DOMAIN s /\ Append(s, x)[k] = s[k]
                 \/ k = Len(s) + 1 /\ Append(s, x)[k] = x
  <1> DEFINE t == Append(s, x)
  <1>1. t \in Seq(S) /\ Len(t) = Len(s) + 1 /\ Len(s) \in Nat
    OBVIOUS
  <1>2. DOMAIN s = 1..Len(s) /\ DOMAIN t = 1..Len(s) + 1
    BY <1>1
  <1>3. t[Len(s) + 1] = x /\ \A k \in 1..Len(s) : t[k] = s[k]
    OBVIOUS
  <1>4. t # << >>
    BY <1>1
  <1> HIDE DEF t
  <1>5. \A k \in DOMAIN t : \/ k \in DOMAIN s /\ t[k] = s[k]
                            \/ k = Len(s) + 1 /\ t[k] = x
    BY <1>1, <1>2, <1>3
  <1>6. t[Len(t)] = x
    BY <1>1, <1>3
  <1> QED
    BY <1>1, <1>4, <1>5, <1>6 DEF t

\* The elements of a shortened sequence.
LEMMA Shortened ==
    ASSUME NEW S, NEW s \in Seq(S), s # << >>
    PROVE  /\ Tail(s) \in Seq(S)
           /\ Head(s) = s[1] /\ 1 \in DOMAIN s
           /\ \A k \in DOMAIN Tail(s) : k + 1 \in DOMAIN s /\ k + 1 # 1 /\ Tail(s)[k] = s[k + 1]
           /\ Tail(s) # << >> => Tail(s)[Len(Tail(s))] = s[Len(s)]
           /\ Tail(s) = << >> => s[Len(s)] = Head(s)
  <1>1. Tail(s) \in Seq(S) /\ Len(Tail(s)) = Len(s) - 1 /\ Len(s) \in Nat \ {0}
    OBVIOUS
  <1>2. DOMAIN s = 1..Len(s) /\ DOMAIN Tail(s) = 1..Len(s) - 1
    BY <1>1
  <1>3. \A k \in 1..Len(s) - 1 : Tail(s)[k] = s[k + 1]
    OBVIOUS
  <1>4. Head(s) = s[1]
    OBVIOUS
  <1>5. Tail(s) # << >> => Len(s) - 1 \in 1..Len(s) - 1
    BY <1>1
  <1>6. Tail(s) = << >> => Len(s) = 1
    <2>1. Len(<< >>) = 0
      OBVIOUS
    <2>2. ASSUME Tail(s) = << >>  PROVE Len(Tail(s)) = 0
      BY <2>1, <2>2, Zenon
    <2> QED
      BY <1>1, <2>2
  <1>7. \A k \in DOMAIN Tail(s) : k + 1 \in DOMAIN s /\ k + 1 # 1 /\ Tail(s)[k] = s[k + 1]
    BY <1>1, <1>2, <1>3
  <1>8. Tail(s) # << >> => Tail(s)[Len(Tail(s))] = s[Len(s)]
    BY <1>1, <1>3, <1>5
  <1> QED
    BY <1>1, <1>2, <1>4, <1>6, <1>7, <1>8

\* Outside of the executor nothing relies on an allowance that was read.
LEMMA AllowIdle ==
    ASSUME AllowInv, UNCHANGED <<venue, chainVars>>,
           pc' \notin {"preflight", "send", "await"}
    PROVE  (Maximal /\ Undisturbed)'
  <1>1. UNCHANGED <<venue, allowance, mempool, approved, short>>
    BY DEF chainVars
  <1>2. Maximal'
    BY <1>1 DEF AllowInv, Maximal
  <1>3. Undisturbed'
    BY <1>1 DEF AllowInv, Undisturbed
  <1> QED
    BY <1>2, <1>3

\* The executor reads the allowance, waits for its approval, or tries the swap.
LEMMA AllowRead ==
    ASSUME AllowInv, CheckAllowance \/ AwaitApproval \/ Preflight
    PROVE  (Maximal /\ Undisturbed)'
  <1>1. /\ UNCHANGED <<venue, allowance, mempool, approved, short, part>>
        /\ pc' \in {"idle", "approve", "preflight", "send"}
        /\ pc \in {"check", "await", "preflight"}
    BY DEF CheckAllowance, AwaitApproval, Preflight, sliceVars, chainVars
  <1>2. /\ part.in \in Nat /\ part.in > 0 /\ allowance \in Nat
    BY <1>1, DecisionFacts DEF AllowInv, DivInv, Division, Valid, TypeOK
  <1>3. pc' = "send" /\ venue = "v4" => allowance = MaxAllowance
    <2>1. pc' = "send" /\ venue = "v4" => allowance >= part.in
      BY DEF CheckAllowance, AwaitApproval, Preflight, Covered
    <2> QED
      BY <1>2, <2>1 DEF AllowInv, Maximal
  <1>4. pc' \in {"preflight", "send"} /\ ~behind' => mempool = << >> /\ allowance >= part.in
    <2>1. CASE CheckAllowance
      BY <2>1 DEF CheckAllowance, Covered
    <2>2. CASE AwaitApproval
      <3>1. pc = "await" /\ (pc' \in {"preflight", "send"} => mempool = << >> /\ approved)
        BY <2>2 DEF AwaitApproval
      <3> QED
        BY <3>1 DEF AllowInv, Undisturbed
    <2>3. CASE Preflight
      <3>1. pc = "preflight" /\ behind' = behind
        BY <2>3 DEF Preflight
      <3> QED
        BY <3>1 DEF AllowInv, Undisturbed
    <2> QED
      BY <2>1, <2>2, <2>3
  <1>5. Maximal'
    BY <1>1, <1>3 DEF AllowInv, Maximal
  <1>6. Undisturbed'
    BY <1>1, <1>4 DEF AllowInv, Undisturbed
  <1> QED
    BY <1>5, <1>6

\* An approval covers the slice in work, and is the last transaction sent.
LEMMA AllowApprove ==
    ASSUME AllowInv, Approve
    PROVE  (Maximal /\ Undisturbed)'
  <1> DEFINE tx == [kind |-> "approve", amount |-> Grant, behind |-> FALSE]
  <1>0. TypeOK /\ Division /\ Maximal /\ Undisturbed
    BY DEF AllowInv, DivInv
  <1>1. /\ UNCHANGED <<venue, allowance, approved, short, part>>
        /\ pc = "approve" /\ pc' \in {"idle", "await"}
        /\ mempool' = Append(mempool, tx) \/ (mempool' = mempool /\ pc' = "idle")
    BY DEF Approve, Submit, Pending, sliceVars
  <1>2. /\ Grant \in Nat /\ Grant >= part.in
        /\ venue = "v4" => Grant = MaxAllowance
    <2>1. /\ part.in \in Nat /\ remaining.in \in Nat /\ decision.in \in Nat
          /\ decision.in < MaxAllowance /\ remaining.in <= decision.in
          /\ venue \in {"v3", "v4"} /\ MaxAllowance \in Nat
      BY <1>0, DecisionFacts, MaxAllowanceAssumption DEF Division, TypeOK
    <2>2. part.in <= remaining.in
      <3>1. /\ part.in = Portion(remaining.in, decision.in)
            /\ decision.slices \in Nat /\ done \in Nat /\ done < decision.slices
            /\ Between(remaining.in, decision.in)
        BY <1>0, <1>1, DecisionFacts DEF Division
      <3>2. remaining.in - Portion(remaining.in, decision.in) \in Nat
        BY <2>1, <3>1, PortionFacts
      <3> QED
        BY <2>1, <3>1, <3>2
    <2> QED
      BY <2>1, <2>2 DEF Grant
  <1>3. tx \in Txs /\ mempool \in Seq(Txs)
    BY <1>0, <1>2 DEF TypeOK, Txs
  <1>4. tx.kind = "approve" /\ tx.amount = Grant /\ tx.behind = FALSE
    OBVIOUS
  <1>5. CASE mempool' = mempool /\ pc' = "idle"
    BY <1>1, <1>5, AllowIdle DEF chainVars
  <1>6. CASE mempool' = Append(mempool, tx)
    <2> HIDE DEF tx
    <2>1. /\ mempool' # << >> /\ mempool'[Len(mempool')] = tx
          /\ \A k \in DOMAIN mempool' :
                \/ k \in DOMAIN mempool /\ mempool'[k] = mempool[k]
                \/ mempool'[k] = tx
      BY <1>3, <1>6, Extended
    <2>2. Maximal'
      BY <1>0, <1>1, <1>2, <1>4, <2>1 DEF Maximal
    <2>3. Undisturbed'
      BY <1>0, <1>1, <1>2, <1>4, <2>1 DEF Undisturbed
    <2> QED
      BY <2>2, <2>3
  <1> QED
    BY <1>1, <1>5, <1>6

\* A swap is sent on the allowance that was read.
LEMMA AllowSend ==
    ASSUME AllowInv, SendSwap
    PROVE  (Maximal /\ Undisturbed)'
  <1> DEFINE tx == [kind |-> "swap", amount |-> part.in, behind |-> behind]
  <1>0. TypeOK /\ Division /\ Maximal /\ Undisturbed
    BY DEF AllowInv, DivInv
  <1>1. /\ UNCHANGED <<venue, allowance, approved, short>>
        /\ pc = "send" /\ pc' \in {"idle", "slice"}
        /\ mempool' = Append(mempool, tx) \/ mempool' = mempool
    BY DEF SendSwap, Submit, Pending
  <1>2. /\ part.in \in Nat /\ part.in <= MaxAllowance
    <2>1. /\ part.in \in Nat /\ remaining.in \in Nat /\ decision.in \in Nat
          /\ decision.in < MaxAllowance /\ remaining.in <= decision.in
          /\ MaxAllowance \in Nat
      BY <1>0, DecisionFacts, MaxAllowanceAssumption DEF Division
    <2>2. /\ part.in = Portion(remaining.in, decision.in)
          /\ decision.slices \in Nat /\ done \in Nat /\ done < decision.slices
          /\ Between(remaining.in, decision.in)
      BY <1>0, <1>1, DecisionFacts DEF Division
    <2>3. remaining.in - Portion(remaining.in, decision.in) \in Nat
      BY <2>1, <2>2, PortionFacts
    <2> QED
      BY <2>1, <2>2, <2>3
  <1>3. tx \in Txs /\ mempool \in Seq(Txs)
    BY <1>0, <1>2 DEF TypeOK, Txs
  <1>4. tx.kind = "swap" /\ tx.amount = part.in /\ tx.behind = behind
    OBVIOUS
  <1>5. CASE mempool' = mempool
    BY <1>1, <1>5, AllowIdle DEF chainVars
  <1>6. CASE mempool' = Append(mempool, tx)
    <2> HIDE DEF tx
    <2>1. /\ \A k \in DOMAIN mempool' :
                \/ k \in DOMAIN mempool /\ mempool'[k] = mempool[k]
                \/ k = Len(mempool) + 1 /\ mempool'[k] = tx
      BY <1>3, <1>6, Extended
    <2>2. Maximal'
      BY <1>0, <1>1, <1>2, <1>4, <2>1 DEF Maximal
    <2>3. ~behind => Len(mempool) + 1 = 1 /\ allowance >= tx.amount
      <3>1. mempool = << >> => Len(mempool) = 0
        OBVIOUS
      <3> QED
        BY <1>0, <1>1, <1>4, <3>1 DEF Undisturbed
    <2>4. Undisturbed'
      BY <1>0, <1>1, <1>4, <2>1, <2>3 DEF Undisturbed
    <2> QED
      BY <2>2, <2>4
  <1> QED
    BY <1>1, <1>5, <1>6

\* A mined approval grants its amount; a mined swap uses it up only under V3.
LEMMA AllowMine ==
    ASSUME AllowInv, Mine
    PROVE  (Maximal /\ Undisturbed)'
  <1> DEFINE tx == Head(mempool)
  <1>0. TypeOK /\ Maximal /\ Undisturbed
    BY DEF AllowInv, DivInv
  <1>1. /\ UNCHANGED <<venue, pc, part, behind>>
        /\ mempool # << >> /\ mempool' = Tail(mempool) /\ mempool \in Seq(Txs)
    BY <1>0 DEF Mine, TypeOK, sliceVars
  <1>2. /\ tx = mempool[1] /\ 1 \in DOMAIN mempool
        /\ \A k \in DOMAIN mempool' :
              k + 1 \in DOMAIN mempool /\ k + 1 # 1 /\ mempool'[k] = mempool[k + 1]
        /\ mempool' # << >> => mempool'[Len(mempool')] = mempool[Len(mempool)]
        /\ mempool' = << >> => mempool[Len(mempool)] = tx
    BY <1>1, Shortened
  <1>3. /\ tx \in Txs /\ tx.amount \in Nat /\ tx.behind \in BOOLEAN
        /\ allowance \in Nat /\ MaxAllowance \in Nat /\ part.in \in Nat
    <2>1. tx \in Txs
      BY <1>1
    <2> HIDE DEF tx
    <2> QED
      BY <1>0, <2>1, DecisionFacts, MaxAllowanceAssumption DEF Txs, TypeOK
  <1>4. ~(pc \in {"preflight", "send"} /\ ~behind)
    BY <1>0, <1>1 DEF Undisturbed
  <1>5. pc = "await" => /\ mempool[Len(mempool)].kind = "approve"
                        /\ mempool[Len(mempool)].amount >= part.in
    BY <1>0, <1>1 DEF Undisturbed
  <1> DEFINE Granted == /\ tx.kind = "approve" /\ short' = short
                        /\ \/ allowance' = tx.amount /\ approved' = TRUE
                           \/ allowance' = allowance /\ approved' = FALSE
             Moved == /\ tx.kind = "swap" /\ approved' = approved
                      /\ \/ allowance >= tx.amount /\ short' = short
                         \/ allowance < tx.amount /\ short' = short \cup {tx.behind}
                      /\ allowance' = allowance \/ allowance # MaxAllowance
  <1>6. Granted \/ Moved
    BY <1>1, Zenon DEF Mine
  <1> HIDE DEF tx
  <1>7. CASE Granted
    <2>1. Maximal'
      BY <1>0, <1>1, <1>2, <1>7 DEF Maximal
    <2>2. Undisturbed'
      <3>1. \A k \in DOMAIN mempool' : ~(mempool'[k].kind = "swap" /\ ~mempool'[k].behind)
        BY <1>0, <1>2 DEF Undisturbed
      <3>2. pc = "await" /\ mempool' = << >> => (approved' => allowance' >= part.in)
        BY <1>2, <1>5, <1>7
      <3>3. FALSE \notin short'
        BY <1>0, <1>7 DEF Undisturbed
      <3> QED
        BY <1>1, <1>2, <1>4, <1>5, <3>1, <3>2, <3>3 DEF Undisturbed
    <2> QED
      BY <2>1, <2>2
  <1>8. CASE Moved
    <2>1. Maximal'
      <3>1. venue = "v4" => allowance = MaxAllowance /\ tx.amount <= MaxAllowance
        BY <1>0, <1>2, <1>8 DEF Maximal
      <3>2. venue = "v4" => allowance' = allowance /\ short' = short
        BY <1>3, <1>8, <3>1
      <3> QED
        BY <1>0, <1>1, <1>2, <3>2 DEF Maximal
    <2>2. Undisturbed'
      <3>1. \A k \in DOMAIN mempool' : ~(mempool'[k].kind = "swap" /\ ~mempool'[k].behind)
        BY <1>0, <1>2 DEF Undisturbed
      <3>2. pc = "await" => mempool' # << >>
        BY <1>2, <1>5, <1>8
      <3>3. FALSE \notin short'
        <4>1. tx.behind = FALSE => allowance >= tx.amount
          BY <1>0, <1>2, <1>8 DEF Undisturbed
        <4>2. FALSE \notin short
          BY <1>0 DEF Undisturbed
        <4>3. short' = short \/ (allowance < tx.amount /\ short' = short \cup {tx.behind})
          BY <1>8
        <4>4. ASSUME allowance < tx.amount, tx.behind = FALSE  PROVE FALSE
          <5>1. allowance >= tx.amount
            BY <4>1, <4>4, Zenon
          <5>2. allowance \in Nat /\ tx.amount \in Nat
            BY <1>3
          <5> QED
            BY <4>4, <5>1, <5>2
        <4> QED
          BY <4>2, <4>3, <4>4
      <3> QED
        BY <1>1, <1>2, <1>4, <1>5, <3>1, <3>2, <3>3 DEF Undisturbed
    <2> QED
      BY <2>1, <2>2
  <1> QED
    BY <1>6, <1>7, <1>8

\* What the swaps rely on is inductive, given the division.
LEMMA AllowNext == AllowInv /\ [Next]_vars => AllowInv'
  <1> SUFFICES ASSUME AllowInv, [Next]_vars PROVE (Maximal /\ Undisturbed)'
    BY DivInvNext DEF AllowInv
  <1>1. CASE UNCHANGED vars
    <2>1. UNCHANGED <<venue, pc, part, behind, allowance, mempool, approved, short>>
      BY <1>1 DEF vars, sliceVars, chainVars
    <2>2. Maximal'
      BY <2>1 DEF AllowInv, Maximal
    <2>3. Undisturbed'
      BY <2>1 DEF AllowInv, Undisturbed
    <2> QED
      BY <2>2, <2>3
  <1>2. CASE (\E d \in Decisions : Start(d)) \/ Slice \/ Cancel
    <2>1. UNCHANGED <<venue, chainVars>> /\ pc' \notin {"preflight", "send", "await"}
      BY <1>2 DEF Start, Slice, Cancel
    <2> QED
      BY <2>1, AllowIdle
  <1> QED
    BY <1>1, <1>2, AllowRead, AllowApprove, AllowSend, AllowMine DEF Next

\* What the swaps rely on holds of every state.
LEMMA AllowAlways == Spec => []AllowInv
  <1>1. Init => AllowInv
    <2> SUFFICES ASSUME Init PROVE AllowInv
      OBVIOUS
    <2>1. mempool = << >> /\ allowance = 0 /\ short = {} /\ pc = "idle"
      BY DEF Init
    <2>2. Maximal
      BY <2>1 DEF Maximal
    <2>3. Undisturbed
      BY <2>1 DEF Undisturbed
    <2> QED
      BY <2>2, <2>3, DivInvInit DEF AllowInv
  <1> QED
    BY <1>1, AllowNext, PTL DEF Spec

\* With the maximal approval no swap is short of allowance (v4_executor.go).
THEOREM AllowanceLasts == Spec => []MaxApprovalNeverShort
  <1>1. AllowInv => MaxApprovalNeverShort
    BY DEF AllowInv, Maximal, MaxApprovalNeverShort
  <1> QED
    BY <1>1, AllowAlways, PTL

\* With exact approvals a swap is short of allowance only when its allowance was
\* read behind a pending transaction (v3_executor.go, receipt.go).
THEOREM ExactApprovals == Spec => []ShortOnlyBehindPending
  <1>1. AllowInv => ShortOnlyBehindPending
    BY DEF AllowInv, Undisturbed, ShortOnlyBehindPending
  <1> QED
    BY <1>1, AllowAlways, PTL

=============================================================================
