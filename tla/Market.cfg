CONSTANTS
    eth = eth
    btc = btc
    pool = pool
    Symbols = {eth, btc}
    Payloads <- MCPayloads
    RestEvery = 1
    StaleAfter = 2
    MaxBackoff = 2
    Old = 4
    Instruments = {pool}
    SourceOf <- MCSourceOf
    Windows = {1, 2}
    Endpoints = 2
    ReadTimeout = 1
SPECIFICATION FairSpec
INVARIANTS FeedNeverSilent
PROPERTIES FreshTargetsRecent SnapshotsKeepComing
