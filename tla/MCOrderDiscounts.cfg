SPECIFICATION FairDiscountsSpec
CONSTANTS
    o1 = o1
    o2 = o2
    Orders = {o1, o2}
    Total <- MCTotal
    Capacity = 1
    Limit = 1
INVARIANTS DiscountsTypeOK UseFollowsOrder SoldUseIsConsumed
PROPERTIES LimitPassedKnowingly NeverOverbooked NeverResurrected PaymentsNeverRegress HoldsEnd
CHECK_DEADLOCK FALSE
