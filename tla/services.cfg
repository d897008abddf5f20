\* One of the services at a time: three threads over two connections with two
\* breaks; three requests for recognition; two overlapping uses of an account;
\* two threads that save and ask.
SPECIFICATION MCFairSpec
CONSTANTS
    Threads = {t1, t2, t3}
    Connections = {c1, c2, c3}
    NoConnection = none
    MinSize = 1
    MaxSize = 2
    MaxBreaks = 2
    Pool = {t1, t2}
    Loop = loop
    NoService = none
    RequestServices = {none, "dashscope"}
    SavedServices = {"http", "builtin"}
    EnvService = none
    MaxSlots = 1
    MaxRequests = 3
    MaxRuntimes = 2
    CloudUsers = {u1, u2}
    BaiduUsers = {b1}
    CloudThreads = {t1, t2}
    MaxStates = 2
    MaxGrants = 4
    Learners = {u1}
    AskThreads = {t1, t2}
    Urls = {url1}
    Keys = {key1}
    EnvUrl = envUrl
    Unset = unset
    MaxEdits = 3
INVARIANTS PoolIsExact ResourcesHaveOwners NoUploadByBridge GrantsAreKept SettingsFollowSaves
PROPERTIES AcquireEnds ComesBackByRaceOnly
CHECK_DEADLOCK FALSE
