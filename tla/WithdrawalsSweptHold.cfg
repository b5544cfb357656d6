\* The clean-up's comment.
SPECIFICATION Spec
CONSTANTS
    MaxReceipts = 5
    MaxQuantity = 2
    Scale = 1
    Client = {alice}
    Withdrawal = {w1}
    Pledge = pledge
    Txn = {w1, pledge}
    Call = {c1}
    Stock = 2
    Key <- MCKey
    HoldStatus = {"HELD_WITHDRAWAL", "HELD_PLEDGE_PENDING"}
    None = None
CHECK_DEADLOCK FALSE
PROPERTIES
    SweptRowsHoldNothing
