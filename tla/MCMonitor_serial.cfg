\* One check at a time, only scrapes fail.
CONSTANTS
    NoSnapshot = NoSnapshot
    Scheduler = Scheduler
    Nobody = Nobody
    t1 = t1
    t2 = t2
    Targets = {t1, t2}
    RetailerOf <- OneRetailer
    Concurrency = 1
    Observations <- ThreeObservations
    Faults = {"scrape"}
    MaxSnapshots = 3
    MaxRuns = 1
SPECIFICATION FairSpec
PROPERTIES
    ImplementsChangeFeed
    MarksAreKept
    EveryTargetIsChecked
