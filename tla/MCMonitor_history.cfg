\* Nothing fails and the process is stopped: the history is rolled back.
CONSTANTS
    NoSnapshot = NoSnapshot
    Scheduler = Scheduler
    Nobody = Nobody
    t1 = t1
    t2 = t2
    Targets = {t1, t2}
    RetailerOf <- OneRetailer
    Concurrency = 1
    Observations <- TwoObservations
    Faults = {"stop"}
    MaxSnapshots = 1
    MaxRuns = 2
SPECIFICATION Spec
PROPERTIES
    HistoryIsAppendOnly
CHECK_DEADLOCK FALSE
