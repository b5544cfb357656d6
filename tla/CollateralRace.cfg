\* Two handlers and the cron race over one pledge and two release requests.
SPECIFICATION Spec
CONSTANTS
    MaxReceipts = 5
    MaxQuantity = 2
    Scale = 1
    Client = {alice}
    Pledge = {p1}
    ReleaseRequest = {q1, q2}
    Line = {l1}
    Txn = {p1}
    Call = {cron, c1, c2}
    Cron = cron
    Stock = 2
    Key <- CollateralKey
    HoldStatus = {"HELD_PLEDGE_PENDING"}
    None = None
CHECK_DEADLOCK FALSE
SYMMETRY Web
INVARIANTS
    ClosedPledgesHoldNothing
    LiensMatchStock
    FreedOnce
