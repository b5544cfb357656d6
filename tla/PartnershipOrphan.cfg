\* A pledge accepted after its financier was offboarded.
SPECIFICATION Spec
CONSTANTS
    Org = {o1}
    Warehouse = {w1}
    Link = {l1, l2}
    Pledge = {p1, p2}
    Call = {c1}
CHECK_DEADLOCK FALSE
INVARIANTS
    NoOrphanedLien
