SPECIFICATION FeesSpec
CONSTANTS
    b1 = b1
    p1 = p1
    p2 = p2
    Bookings = {b1}
    Kinds = {"no_show"}
    Pages = {p1, p2}
    NoPage = NoPage
INVARIANTS FeeTakenOnce
CHECK_DEADLOCK FALSE
