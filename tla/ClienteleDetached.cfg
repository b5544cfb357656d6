\* A client is detached.
SPECIFICATION Spec
CONSTANTS
    Warehouse = {w1}
    Manager = {m1}
    Client = {k1}
    Commodity = {g1}
    Attachment = {a1}
    Receipt = {r1}
    LookupLimit = 1
    Call = {c1}
CHECK_DEADLOCK FALSE
INVARIANTS
    DetachedIsHidden
