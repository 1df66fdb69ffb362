SPECIFICATION LoyaltySpec
CONSTANTS
    o1 = o1
    o2 = o2
    m1 = m1
    k1 = k1
    d1 = d1
    d2 = d2
    Orders = {o1}
    Members = {m1}
    Total <- MCTotal
    Capacity = 1
    Owner <- MCOwner
    Cost <- MCCost
    Award <- MCAward
    PointsAfter <- MCPointsAfter
    MaxAttempts = 2
    Drivers = {d1}
    Handler = Handler
    Nobody = Nobody
    AdjustKeys = {k1}
    MemberMoves = {"active", "suspended"}
    AdjustDeltas <- MCAdjustDeltas
INVARIANTS LoyaltyTypeOK BalanceIsRebuilt RewardPaidOnce QuietIsSettled FullRefundUndoes
PROPERTIES RewardDecidedOnce NoDiscountWithPointsBack ParkedUntilDecided WalletIsHonest
CHECK_DEADLOCK FALSE
