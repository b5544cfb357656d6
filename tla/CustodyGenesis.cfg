\* A corrected deposit no longer matches its DEPOSIT event.
SPECIFICATION Spec
CONSTANTS
    MaxReceipts = 3
    MaxQuantity = 2
    Scale = 1
    Client = {alice, bob}
    Filing = {d1}
    Loan = {}
    Principal = {100}
    Financier = {f1}
    Trade = {}
    Txn = {}
    Call = {c1}
    Key <- CustodyKey
    HoldStatus = {"HELD_LOAN", "HELD_TRADE"}
    None = None
CHECK_DEADLOCK FALSE
SYMMETRY Exchangeable
INVARIANT GenesisAnchorsRoot
