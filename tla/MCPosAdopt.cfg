SPECIFICATION PosSpec
CONSTANTS
    tA = tA
    tB = tB
    l1 = l1
    l2 = l2
    m1 = m1
    m2 = m2
    NoTill = NoTill
    Tills = {tA, tB}
    Lines = {l1, l2}
    Free = {{l1, l2}}
    Payments = {m1, m2}
    Due = 2
    MaxHeld = 1
    MaxRevision = 3
    MaxMoves = 2
    MaxWire = 2
PROPERTIES AdoptKeepsUnsent
CHECK_DEADLOCK FALSE
