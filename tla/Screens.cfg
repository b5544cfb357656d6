\* Two clients, two requests of any kind; one handler at a time.
SPECIFICATION Spec
CONSTANTS
    MaxReceipts = 6
    MaxDeposits = 2
    MaxQuantity = 2
    Scale = 1
    Client = {alice, bob}
    Txn = {t1, t2}
    Key <- MCKey
    Lot <- MCLot
    HoldStatus = {"HELD_WITHDRAWAL", "HELD_LOAN", "HELD_TRADE", "HELD_PLEDGE_PENDING"}
    None = None
    store = store
    annex = annex
    maize = maize
    rice = rice
SYMMETRY WhoAndWhere
VIEW Shown
CHECK_DEADLOCK FALSE
INVARIANTS
    ScreensAgree
    BooksAgree
    FiguresMatchStock
PROPERTIES
    HistoryKept
