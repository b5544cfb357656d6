\* An approval retried after a crash releases one line twice.
SPECIFICATION Spec
CONSTANTS
    MaxReceipts = 5
    MaxQuantity = 2
    Scale = 1
    Client = {alice}
    Pledge = {p1}
    ReleaseRequest = {q1}
    Line = {l1}
    Txn = {p1}
    Call = {cron, c1}
    Cron = cron
    Stock = 2
    Key <- CollateralKey
    HoldStatus = {"HELD_PLEDGE_PENDING"}
    None = None
CHECK_DEADLOCK FALSE
INVARIANTS
    LineReleasedOnce
