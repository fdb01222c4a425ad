\* One worker, nothing fails.
CONSTANTS
    u1 = u1
    u2 = u2
    x1 = x1
    x2 = x2
    x3 = x3
    c1 = c1
    c2 = c2
    c3 = c3
    Nothing = Nothing
    Users = {u1, u2}
    Watches = {x1, x2, x3}
    Channels = {c1, c2, c3}
    Supported = {c1, c2, c3}
    OwnerOf <- MCOwnerOf
    WatchedBy <- MCWatchedBy
    TargetOf <- MCTargetOf
    TypeOf <- MCTypeOf
    Workers = {k1}
    Events = {e1, e2}
    Cooldown = 1
    MaxTime = 0
    Deletable = {}
    Faults = {}
SPECIFICATION Spec
PROPERTIES
    EverySubscriberIsTold
CHECK_DEADLOCK FALSE
