SPECIFICATION FeesSpec
CONSTANTS
    b1 = b1
    p1 = p1
    p2 = p2
    Bookings = {b1}
    Kinds = {"no_show", "late_cancel"}
    Pages = {p1, p2}
    NoPage = NoPage
INVARIANTS FeesTypeOK OneFeeTaken ChargeIsOnTheFee
PROPERTIES ChargeGoesForward
SYMMETRY MCSymmetry
CHECK_DEADLOCK FALSE
