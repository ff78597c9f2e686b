SPECIFICATION HistorySpec
CONSTANTS
    Contracts = {nq}
    Buys = {1, 2}
    Sells = {2}
    MaxFills = 3
    MaxOrders = 1
    EventType <- MCEventType
    Price <- MCPrice
    Fee <- MCFee
INVARIANT CanonicalCountIsRight
INVARIANT MoneyIsAccountedFor
INVARIANT OpenLotsAreTheNewest
INVARIANT HistoryAgreesWithCount
CHECK_DEADLOCK FALSE
