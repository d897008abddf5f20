\* Three tasks, three layers: parents of leaves and of parents.
SPECIFICATION Spec
CONSTANTS
    Threads = {t1}
    Strategies = {"THRESHOLD_AUTO"}
    LayerConfigs = {}
    DefaultConfig <- MCDefault
    MaxIterations = 8
    MaxLeaves = 3
    MaxItems = 1
    MaxNodes = 5
    MaxLayers = 3
    MaxRounds = 1
INVARIANTS ManagedIffUnfinished EveryNodeHasOnePlace RollUpAfterReview SettledUnlessStuck
