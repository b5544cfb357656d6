\* Each register at bounds of its own; the pair of racing handlers is exchangeable.
SPECIFICATION Spec
CONSTANTS
    solo = solo
    Pair = {c1, c2}
    Org = {o1}
    Warehouse = {w1}
    Pact = {l1, l2}
    Pledge = {p1, p2}
    RacingPledge = {p1}
    Depot = {w1}
    Agent = {m1, m2}
    Tenant = {t1, t2}
    Bearer = {o1, o2}
    Brand = {b1, b2}
    Name = {n1}
    Nin = {i1}
    MaxDirector = 2
    RacingTenant = {t1}
    RacingName = {n1, n2}
    Photo = {"null"}
    MaxSuffix = 2
    Site = {w1, w2}
    Manager = {m1}
    Client = {k1}
    Commodity = {g1, g2}
    Attachment = {a1, a2}
    Deposit = {r1}
    LookupLimit = 1
    MaxCode = 2
    MaxLink = 1
    RacingCode = 1
    RacingLink = 2
    MaxAttempts = 2
    Parameter = {q1, q2}
    MaxGrades = 2
    MaxMeasure = 1
    MaxChange = 2
    FeeType = {"PER_MT_PER_MONTH", "PER_BAG_PER_WEEK"}
    Rate = {1}
    MaxPolicy = 2
    Unit = {"METRIC_TON", "BAG"}
    Quantity = 3
    Weight = {50}
    Kilo = 1000
    \* Days 0, 1 and 31: the first day begins, then it has passed and other weeks and a month.
    Instant = {0, 1, 61}
SYMMETRY Crew
CHECK_DEADLOCK FALSE
INVARIANTS
    OneSignedLink
    InitialPasswordIsTemporary
    IdentifiersFit
    CodeIsSpentOnce
    WorseNeverGradesBetter
    GradesExplained
    BillsFollowPolicies
PROPERTIES
    LinksAreHonoured
    ResetEndsLinks
