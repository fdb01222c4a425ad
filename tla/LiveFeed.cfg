\* Two users in one tab, two calls at once, three token pairs, two runs of the effect, two events.
CONSTANTS
    Users = {u1, u2}
    Calls = {c1, c2}
    MaxPairs = 3
    NoPhone = NoPhone
    NoName = NoName
    MaxRuns = 2
    MaxEvents = 2
    MaxShown = 2
    FeedUsers = {u1}
    FeedPairs = 2
    FeedCalls = {c1}
SPECIFICATION FairSpec
INVARIANTS TypeOK FeedIsInOrder
PROPERTIES LoggedOutOnlyByAFailedRefresh TheUserIsWhoLoggedIn FeedComesBack
CHECK_DEADLOCK FALSE
