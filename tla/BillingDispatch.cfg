\* A completion that consumed and stopped bills the day of its retry.
SPECIFICATION Spec
CONSTANTS
    FeeType = {"PER_MT_PER_MONTH", "PER_MT_PER_DAY", "PER_BAG_PER_WEEK"}
    Rate = {1}
    MaxPolicy = 2
    MaxChange = 2
    Unit = {"METRIC_TON"}
    Quantity = 3
    Weight = {50}
    Kilo = 1000
    Instant = {0, 1, 15, 61}
    Call = {c1}
CHECK_DEADLOCK FALSE
INVARIANT
    BilledAtDispatch
