CONSTANTS
    Clients = {c1, c2}
    Nobody = nobody
    Buffer = 2
SPECIFICATION FairSpec
INVARIANTS WritesReachMembers
PROPERTIES HubServes
