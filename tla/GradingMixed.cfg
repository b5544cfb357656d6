\* Two corrections together mix their scores and grades.
SPECIFICATION Spec
CONSTANTS
    Parameter = {p, q}
    MaxGrades = 2
    MaxMeasure = 1
    MaxChange = 1
    Call = {c1, c2}
CHECK_DEADLOCK FALSE
INVARIANT
    GradesExplained
