\* A manager who comes back to a warehouse.
SPECIFICATION Spec
CONSTANTS
    Warehouse = {w1}
    Manager = {m1}
    Call = {c1}
CHECK_DEADLOCK FALSE
INVARIANTS
    AssignmentGoesThrough
