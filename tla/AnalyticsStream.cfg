\* One target, two prices, one variant, six checks; the summary gets four events at most, a history page three.
CONSTANTS
    NoSnapshot = NoSnapshot
    Prices = {10, 12}
    Variants = {v1}
    Etas = {8}
    Stores = {s1}
    Limit = 4
    PageSize = 3
    MaxMinutes = 6
SPECIFICATION StreamSpec
INVARIANTS BaselineDrift ReaderIsRight ChartsAreExact DowntimeIsExact DowntimeIsNeverOverstated
PROPERTY ImplementsStockFeed
CHECK_DEADLOCK FALSE
