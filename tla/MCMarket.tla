------------------------------ MODULE MCMarket ------------------------------
(* Instances of Market for TLC: one instrument whose target is a ratio.    *)
EXTENDS Market

CONSTANTS eth, btc, pool

MCSourceOf == [i \in {pool} |-> {eth, btc}]

\* An event of Binance's <symbol>@miniTicker stream.
MiniTicker ==
    [e |-> "string", E |-> "number", s |-> "string", c |-> "string",
     o |-> "string", h |-> "string", l |-> "string", v |-> "string", q |-> "string"]

\* One without the time of the event.
Timeless == [k \in DOMAIN MiniTicker \ {"E"} |-> "string"]

MCPayloads == {MiniTicker, Timeless}

=============================================================================
