\* Both crons, one handler at a time: what is left alone is cleared.
SPECIFICATION FairSpec
CONSTANTS
    alice = alice
    bob = bob
    w1 = w1
    w2 = w2
    p1 = p1
    p2 = p2
    elsewhere = elsewhere
    c1 = c1
    cron = cron
    None = None
CHECK_DEADLOCK FALSE
INVARIANTS
    NoOverbooking
    OwnGoodsOnly
PROPERTIES
    LapsedIsCleared
