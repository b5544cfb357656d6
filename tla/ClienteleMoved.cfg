\* A deposit is moved while it awaits approval.
SPECIFICATION Spec
CONSTANTS
    Warehouse = {w1, w2}
    Manager = {m1}
    Client = {k1}
    Commodity = {g1}
    Attachment = {a1}
    Receipt = {r1}
    LookupLimit = 1
    Call = {c1}
CHECK_DEADLOCK FALSE
PROPERTIES
    StoredUnderLink
