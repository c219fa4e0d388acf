---------------------------- MODULE MCAuditTrail ----------------------------
(* Instances of AuditTrail for TLC: two instruments that share their quote token.  *)
EXTENDS AuditTrail, TLC

CONSTANTS e1, e2, btc, eth, usdt

MCBase == (e1 :> btc) @@ (e2 :> eth)
MCQuote == [e \in {e1, e2} |-> usdt]

=============================================================================
