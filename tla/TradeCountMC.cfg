SPECIFICATION FairSpec

CONSTANTS
    Contracts = {nq}
    Buys = {1}
    Sells = {2}
    EventType <- MCEventType
    MaxFills = 3
    Hooks = {h1, h2}
    Syncs = {s1}

 
PROPERTY AppliedOnce
PROPERTY CountSettles
