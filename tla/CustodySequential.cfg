\* One request at a time, with crashes, over a deposit, two loans and a
\* listing.
SPECIFICATION Spec
CONSTANTS
    MaxReceipts = 4
    MaxQuantity = 2
    Scale = 1
    Client = {alice, bob}
    Filing = {d1}
    Loan = {l1, l2}
    Principal = {100, 200}
    Financier = {f1, f2}
    Trade = {t1}
    Txn = {l1, l2, t1}
    Call = {c1}
    Key <- CustodyKey
    HoldStatus = {"HELD_LOAN", "HELD_TRADE"}
    None = None
CHECK_DEADLOCK FALSE
SYMMETRY Exchangeable
INVARIANTS
    ApprovedQuantityStands
    ScheduleMatchesTerms
    SoldGoodsAreClaimedOnce
