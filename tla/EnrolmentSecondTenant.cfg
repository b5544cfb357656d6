\* The first client of the second tenant.
SPECIFICATION Spec
CONSTANTS
    Tenant = {t1, t2}
    Org = {o1}
    Brand = {b1, b2}
    Name = {n1}
    Nin = {i1}
    Photo = {"null"}
    MaxSuffix = 3
    MaxDirector = 0
    Call = {c1}
    SlugBase <- MCSlugBase
CHECK_DEADLOCK FALSE
INVARIANTS
    ClientCodeFits
