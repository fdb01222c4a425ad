\* Two slots of one retailer, all three attempts, one or two results, three launches.
CONSTANTS
    Checks = {c1, c2}
    Attempts = 3
    MaxCards = 2
    MaxLaunches = 3
SPECIFICATION FairSpec
INVARIANTS TypeOK NoMoreBrowsersThanSlots PagesHaveAnOwner
PROPERTIES EveryCheckEnds
