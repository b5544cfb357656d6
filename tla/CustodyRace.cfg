\* Two handlers with crashes over a deposit, a loan and two listings.
SPECIFICATION Spec
CONSTANTS
    MaxReceipts = 4
    MaxQuantity = 2
    Scale = 1
    Client = {alice, bob}
    Filing = {d1}
    Loan = {l1}
    Principal = {100}
    Financier = {f1}
    Trade = {t1, t2}
    Txn = {l1, t1, t2}
    Call = {c1, c2}
    Key <- CustodyKey
    HoldStatus = {"HELD_LOAN", "HELD_TRADE"}
    None = None
CHECK_DEADLOCK FALSE
SYMMETRY Exchangeable
INVARIANTS
    OneVerdict
    LoanCollateralFreedOnce
    TradesAreSettledOnce
PROPERTIES
    CorrectsRootsOnly
