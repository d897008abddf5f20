\* Two recall points per task: deletion during a convergence.
SPECIFICATION FairSpec
CONSTANTS
    Threads = {t1}
    Strategies = {"THRESHOLD_AUTO"}
    LayerConfigs = {}
    DefaultConfig <- MCDefault
    MaxIterations = 8
    MaxLeaves = 2
    MaxItems = 2
    MaxNodes = 3
    MaxLayers = 2
    MaxRounds = 1
INVARIANTS QueueIsExact ConvergedMeansRecalled
PROPERTIES RollUpEnds EveryEntryIsReviewed
