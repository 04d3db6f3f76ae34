SPECIFICATION FairFeederSpec
CONSTANTS
    Generations = {a, b}
    Looping = a
    MaxSamples = 2
    Target = 2
    Mishaps = 2
INVARIANTS CeilingKept ConsumedOnce ReplayExplained
PROPERTIES CampaignFills
