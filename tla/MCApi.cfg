\* Two requests at once, three watches, three intervals; the requests are of one group of tables.
CONSTANTS
    u1 = u1
    u2 = u2
    p1 = p1
    c1 = c1
    Users <- MCUsers
    Products <- MCProducts
    Channels <- MCChannels
    Owner <- MCOwner
    Intervals = {1, 2, 3}
    Values = {1, 2}
    Requests = {r1, r2}
    MaxWatches = 3
    MaxPerHour = 1
    MaxAttempts = 2
    MaxChallenges = 3
SPECIFICATION FairSpec
INVARIANTS TypeOK IntervalWasAsked NeverSlowerThanTheFirstWatch SettingRowsAreFew HourlyCap FewLoginsPerCode
PROPERTIES EndsOrWaitsForTheMonitor
