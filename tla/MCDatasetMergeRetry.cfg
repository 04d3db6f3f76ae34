SPECIFICATION FairSpec
CONSTANTS
    Tasks = {S, T}
    Locals = {}
    Candidates = {}
    Collectors = {P}
    Driver = Driver
    Nobody = Nobody
    Streaming = {FALSE}
    Flaky = {}
    Recollected = {}
    MaxCrashes = 1
PROPERTY CollectionGoesOn
CHECK_DEADLOCK FALSE
