CONSTANTS
    Thread = {t1, t2, t3, t4}
    Rounds = 3
    Single <- MCSingle
    MaxTeams = 2
SPECIFICATION FairSpec
INVARIANTS
    TypeOK
    HitCount
    NoLapping
    NoLostWakeup
PROPERTIES
    ImplementsMeetings
    EveryCallReturns
