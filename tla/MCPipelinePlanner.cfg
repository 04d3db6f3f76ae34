SPECIFICATION FairPlannerSpec
CONSTANTS
    MaxJobs = 13
    Requests <- PlannerRequests
    Owners = {"tuner", "trainer"}
    NoOwner = NoOwner
    NoCohort = NoCohort
    Outputs = {}
    NoOutput = NoOutput
    Serves <- MCServes
    LeaseTicks = 1
    Lag = 0
    BaseBackoff = 0
    MaxBackoff = 0
    Settings <- MCSettings
    NoModel = NoModel
    Tries = 2
INVARIANTS PlannerTypeOK OneTuning FreshTrainingIsCurrent RefusalExplained
PROPERTIES TuningFollowsGrowth SearchFollowsPromotion ManifestFollowsPromotion
