\* One call of the database fails: no target is ever checked again.
CONSTANTS
    NoSnapshot = NoSnapshot
    Scheduler = Scheduler
    Nobody = Nobody
    t1 = t1
    t2 = t2
    Targets = {t1, t2}
    RetailerOf <- OneRetailer
    Concurrency = 2
    Observations <- TwoObservations
    Faults = {"database"}
    MaxSnapshots = 1
    MaxRuns = 1
SPECIFICATION FairSpec
PROPERTIES
    EveryTargetIsChecked
CHECK_DEADLOCK FALSE
