SPECIFICATION QrTabsSpec
CONSTANTS
    r1 = r1
    r2 = r2
    p1 = p1
    p2 = p2
    Rounds = {r1, r2}
    Pages = {p1, p2}
    Price <- MCPrice
    Offer <- MCOffer
    Tips = {0}
    Ref = Ref
    NoPage = NoPage
INVARIANTS QrTabsTypeOK MoneyIsAccounted RoundsFollowTab UsesFollowTab
PROPERTIES OnlineCloseIsExact
SYMMETRY MCSymmetry
CHECK_DEADLOCK FALSE
