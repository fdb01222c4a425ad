\* One check per retailer at a time, nothing fails: a change that is never announced.
CONSTANTS
    NoSnapshot = NoSnapshot
    Scheduler = Scheduler
    Nobody = Nobody
    t1 = t1
    t2 = t2
    Targets = {t1, t2}
    RetailerOf <- TwoRetailers
    Concurrency = 1
    Observations <- TwoObservations
    Faults = {}
    MaxSnapshots = 2
    MaxRuns = 1
SPECIFICATION Spec
INVARIANTS
    EveryChangeAnnounced
