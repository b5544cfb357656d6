\* A cancellation that read the pledge before its acceptance frees the lien.
SPECIFICATION Spec
CONSTANTS
    MaxReceipts = 5
    MaxQuantity = 1
    Scale = 1
    Client = {alice}
    Pledge = {p1}
    ReleaseRequest = {q1}
    Line = {l1}
    Txn = {p1}
    Call = {cron, c1, c2}
    Cron = cron
    Stock = 1
    Key <- CollateralKey
    HoldStatus = {"HELD_PLEDGE_PENDING"}
    None = None
CHECK_DEADLOCK FALSE
PROPERTIES
    OnlyReleaseFreesLien
