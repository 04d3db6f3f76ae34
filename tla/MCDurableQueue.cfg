SPECIFICATION FairSpec
CONSTANTS
    MaxJobs = 3
    Requests <- MCRequests
    Owners = {"all", "tuner"}
    NoOwner = NoOwner
    NoCohort = NoCohort
    Outputs = {}
    NoOutput = NoOutput
    Serves <- MCServes
    LeaseTicks = 2
    Lag = 1
    BaseBackoff = 1
    MaxBackoff = 2
INVARIANTS AttemptAfterParents OneFreshPerCohort
PROPERTIES LiveLeaseKept EndedStays ImplementsLedger EveryJobEnds
