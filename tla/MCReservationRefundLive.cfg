SPECIFICATION FairPaymentsSpec
CONSTANTS
    b1 = b1
    b2 = b2
    Bookings = {b1}
    Amount = 2
    PlatformFee = 1
    LateRefundBp = 5000
    OperatorMoves = {"confirmed"}
    DisputeEvents = {"opened", "won"}
    MaxRefunds = 1
PROPERTIES RefundEnds
CHECK_DEADLOCK FALSE
