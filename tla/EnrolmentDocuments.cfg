\* A patch of the directors alone, or of the documents alone.
SPECIFICATION Spec
CONSTANTS
    Tenant = {t1}
    Org = {o1}
    Brand = {b1, b2}
    Name = {n1}
    Nin = {i1}
    Photo = {"null"}
    MaxSuffix = 2
    MaxDirector = 2
    Call = {c1}
    SlugBase <- MCSlugBase
CHECK_DEADLOCK FALSE
INVARIANTS
    DocsResolve
