\* Two threads, and a configuration and a strategy that change at any time.
SPECIFICATION Spec
CONSTANTS
    Threads = {t1, t2}
    Strategies = {"THRESHOLD_AUTO", "MANUAL"}
    LayerConfigs <- MCOther
    DefaultConfig <- MCDefault
    MaxIterations = 8
    MaxLeaves = 2
    MaxItems = 1
    MaxNodes = 3
    MaxLayers = 2
    MaxRounds = 1
INVARIANTS RollUpIsExclusive
PROPERTIES RestsOnlyByConflict
SYMMETRY ThreadSymmetry
