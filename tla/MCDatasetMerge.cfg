SPECIFICATION FairSpec
CONSTANTS
    Tasks = {S}
    Locals = {L}
    Candidates = {S}
    Collectors = {P, Q}
    Driver = Driver
    Nobody = Nobody
    Streaming = {TRUE}
    Flaky = {S}
    Recollected = {S}
    MaxCrashes = 1
INVARIANTS RanksBacked CollectedIsKept
PROPERTIES ViewCatchesUp
CHECK_DEADLOCK FALSE
