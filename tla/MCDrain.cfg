SPECIFICATION FairSpec
CONSTANTS
    NumArticles = 7
    BatchSize = 3
    MaxArticles = 5
    Poison = {2, 5}
    MaxFaults = 2
    MaxCancels = 1
INVARIANTS
    NoArticleTwicePerRun
    CappedLeavesArticles
    CleanRunDrainsTheQueue
    UnmarkedCoversLeftovers
PROPERTIES
    EveryRunEnds
    HealthyArticlesProcessed
