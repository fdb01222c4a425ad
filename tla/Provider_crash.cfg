\* A browser dies while its process stays up and its retailer is checked on.
CONSTANTS
    Checks = {c1}
    Attempts = 3
    MaxCards = 1
    MaxLaunches = 2
SPECIFICATION FairSpec
PROPERTIES CrashedBrowserIsRestarted
