SPECIFICATION FairSpec
CONSTANTS
    Rows <- MCSame
    Runs = {A, B}
    Nobody = Nobody
    NoGen = NoGen
    Minimum = 3000
    Backed = 250
    Spared = 1
    Drivers = {FALSE}
    Tries = 3
    Before = {500, 1000, 2000}
    MaxBuilt = 2
    MaxRestores = 0
    MaxCrashes = 0
PROPERTY DeferralEnds
CHECK_DEADLOCK FALSE
