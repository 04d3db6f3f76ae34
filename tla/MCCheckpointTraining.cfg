SPECIFICATION FairSpec
CONSTANTS
    Rows <- MCRows
    Runs = {A, B}
    Nobody = Nobody
    NoGen = NoGen
    Minimum = 3000
    Backed = 250
    Spared = 1
    Drivers = {TRUE, FALSE}
    Tries = 1
    Before = {500, 1000}
    MaxBuilt = 2
    MaxRestores = 1
    MaxCrashes = 1
INVARIANTS AcceptedIsBacked
PROPERTIES DueIsAttempted RollbackIsNoticed
CHECK_DEADLOCK FALSE
