SPECIFICATION PaymentsSpec
CONSTANTS
    b1 = b1
    b2 = b2
    Bookings = {b1, b2}
    Amount = 1
    PlatformFee = 1
    LateRefundBp = 0
    OperatorMoves = {"confirmed", "seated", "finished", "no_show"}
    DisputeEvents = {}
    MaxRefunds = 0
INVARIANTS LateRefundMeansNoBooking ExpiredPaymentGoesBack OneBookingPerTable
SYMMETRY MCSymmetry
CHECK_DEADLOCK FALSE
