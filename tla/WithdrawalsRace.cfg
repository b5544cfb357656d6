\* Three handlers race over one withdrawal, with the cron and a competing hold.
SPECIFICATION Spec
CONSTANTS
    MaxReceipts = 5
    MaxQuantity = 2
    Scale = 1
    Client = {alice}
    Withdrawal = {w1}
    Pledge = pledge
    Txn = {w1, pledge}
    Call = {c1, c2, c3}
    Stock = 2
    Key <- MCKey
    HoldStatus = {"HELD_WITHDRAWAL", "HELD_PLEDGE_PENDING"}
    None = None
SYMMETRY Handlers
CHECK_DEADLOCK FALSE
INVARIANTS
    ConfirmIsRetryable
    HandlersKeepToTheirHold
    RowsAreBacked
PROPERTIES
    OnlyRejectRejectsPaid
