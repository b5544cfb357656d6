\* What replayVerify expects of the same ledger.
SPECIFICATION MCSpec
CONSTANTS
    MaxReceipts = 5
    MaxQuantity = 1
    Scale = 10
    Client = {alice}
    Key = {1, 2, 3, 4, 5}
    Txn = {t1}
    HoldStatus = {"HELD_LOAN", "HELD_LIEN"}
    None = None
CHECK_DEADLOCK FALSE
INVARIANTS
    ExactConservation
