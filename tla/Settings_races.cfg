SPECIFICATION FairSpec

CONSTANT
    MaxRequests = 2

PROPERTY PlanHoldsWhileTrading
PROPERTY QueueDrains
PROPERTY RemovalComes
