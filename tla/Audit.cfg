CONSTANTS
    e1 = e1
    e2 = e2
    btc = btc
    eth = eth
    usdt = usdt
    Execs = {e1, e2}
    Consumer = consumer
    Tokens = {btc, eth, usdt}
    Base <- MCBase
    Quote <- MCQuote
    Redis = TRUE
    MaxErrors = 1
    MaxCrashes = 1
SPECIFICATION FairSpec
INVARIANTS TypeOK TablesTogether DecisionBeforeResult NoLostBump PositionsMatchTrades
PROPERTIES AuditLogImplemented TrailDrained
CHECK_DEADLOCK FALSE
