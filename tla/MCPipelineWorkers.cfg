SPECIFICATION FairWorkersSpec
CONSTANTS
    MaxJobs = 1
    Requests <- MCOneJob
    Owners <- MCOwners
    NoOwner = NoOwner
    NoCohort = NoCohort
    Outputs = {1, 2}
    NoOutput = NoOutput
    Serves <- MCServes
    LeaseTicks = 4
    Lag = 1
    BaseBackoff = 1
    MaxBackoff = 1
    Lanes = {"optimize", "verify"}
    Generations = 2
    BeatInterval = 1
    Mortal = {1}
    Forking = {TRUE, FALSE}
INVARIANTS WorkersTypeOK OneBeliever OutputOfLastAttempt OverlapExplained
PROPERTIES StopReachesLanes LaneLossEndsGeneration JobsEndUnlessAbandoned
