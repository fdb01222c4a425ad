\* Two checks at once, every kind of failure, one restart.
CONSTANTS
    NoSnapshot = NoSnapshot
    Scheduler = Scheduler
    Nobody = Nobody
    t1 = t1
    t2 = t2
    Targets = {t1, t2}
    RetailerOf <- OneRetailer
    Concurrency = 2
    Observations <- ThreeObservations
    Faults = {"scrape", "redis", "database", "stop"}
    MaxSnapshots = 2
    MaxRuns = 2
SPECIFICATION Spec
INVARIANTS
    TypeOK
    EventsExplainSnapshots
    AnnouncedIsStored
    JobsAreInOrder
    MarkedOnlyWhenAnnounced
SYMMETRY TargetSymmetry
CHECK_DEADLOCK FALSE
