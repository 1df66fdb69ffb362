SPECIFICATION PaymentsSpec
CONSTANTS
    b1 = b1
    b2 = b2
    Bookings = {b1}
    Amount = 3
    PlatformFee = 2
    LateRefundBp = 5000
    OperatorMoves = {"seated", "finished"}
    DisputeEvents = {}
    MaxRefunds = 2
INVARIANTS PaymentsTypeOK ReserveIsExact RefundedMeansReturned FeeGoesBackInFull
PROPERTIES DepositIsAccounted
CHECK_DEADLOCK FALSE
