\* Two threads over the JSON store, or one over an SQL store, with crashes.
SPECIFICATION MCFairSpec
CONSTANTS
    Threads = {t1, t2}
    Projects = {p1, p2}
    SqlStore = FALSE
    MaxIds = 2
INVARIANTS AckedIsDurable QuietMeansEqual
PROPERTIES ImplementsSerial LockIsReleased
