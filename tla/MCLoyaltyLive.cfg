SPECIFICATION LoyaltySpec
CONSTANTS
    o1 = o1
    o2 = o2
    m1 = m1
    k1 = k1
    d1 = d1
    d2 = d2
    Orders = {o1}
    Members = {m1}
    Total <- LiveTotal
    Capacity = 1
    Owner <- MCOwner
    Cost <- LiveCost
    Award <- LiveAward
    PointsAfter <- MCPointsAfter
    MaxAttempts = 2
    Drivers = {d1}
    Handler = Handler
    Nobody = Nobody
    AdjustKeys = {k1}
    MemberMoves = {}
    AdjustDeltas <- LiveAdjustDeltas
PROPERTIES HeldRewardEnds
CHECK_DEADLOCK FALSE
