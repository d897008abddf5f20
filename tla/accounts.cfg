\* Two accounts, two requests at a time, both backends, one failing statement.
SPECIFICATION Spec
CONSTANTS
    Emails = {1, 2}
    Threads = {t1, t2}
    Backends = {"sqlite", "postgres"}
    Mixes <- MCMixes
    Limit = 1
    Window = 1
    Retention = 1
    SessionTtl = 2
    MaxTime = 2
    MaxTokens = 4
    MaxSecrets = 1
    MaxRequests = 2
    MaxBreaks = 1
    MaxMs = 3
    None = None
CHECK_DEADLOCK FALSE
SYMMETRY ThreadSymmetry
INVARIANTS AccountsAreWhole FriendshipIsAgreed GuessesAreBounded LateSessionsAreRaces StudyIsOrderFree
