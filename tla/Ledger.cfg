\* Requests carry no more digits than the column keeps.
SPECIFICATION MCSpec
CONSTANTS
    MaxReceipts = 5
    MaxQuantity = 3
    Scale = 1
    Client = {alice}
    Key = {1, 2, 3, 4, 5, 6}
    Txn = {t1}
    HoldStatus = {"HELD_LOAN", "HELD_PLEDGE_PENDING"}
    None = None
CHECK_DEADLOCK FALSE
INVARIANTS
    LedgerTypeOK
    SplitConservation
    TreesReconcile
    NoDoubleSpend
    JournalExplainsStock
    AvailableIsTransactable
    HoldsAreAttributed
PROPERTIES
    HistoryIsFinal
    ImplementsStock
