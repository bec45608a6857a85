SPECIFICATION FairSpec
CONSTANTS
    Workers = {w1, w2}
    Tasks = {t1, t2}
    CalmExit = FALSE
    Nobody = Nobody
PROPERTIES DestructorReturns
CHECK_DEADLOCK FALSE
