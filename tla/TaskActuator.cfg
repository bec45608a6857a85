SPECIFICATION FairSpec
CONSTANTS
    Workers = {w1, w2}
    Tasks = {t1, t2, t3}
    CalmExit = TRUE
    Nobody = Nobody
INVARIANTS TypeOK NoTaskStranded
PROPERTIES TaskStarted DestructorReturns
CHECK_DEADLOCK FALSE
