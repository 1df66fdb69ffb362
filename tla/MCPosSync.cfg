SPECIFICATION PosSpec
CONSTANTS
    tA = tA
    tB = tB
    l1 = l1
    l2 = l2
    m1 = m1
    m2 = m2
    NoTill = NoTill
    Tills = {tA, tB}
    Lines = {l1, l2}
    Free = {{l1, l2}}
    Payments = {m1, m2}
    Due = 2
    MaxHeld = 1
    MaxRevision = 3
    MaxMoves = 1
    MaxWire = 2
INVARIANTS PosTypeOK PaymentsAreKept SyncedIsSafe
PROPERTIES SaleGoesForward
SYMMETRY MCSymmetry
CHECK_DEADLOCK FALSE
