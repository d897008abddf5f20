\* A reload races with a commit.
SPECIFICATION Spec
CONSTANTS
    Threads = {t1, t2}
    Projects = {p1, p2}
    SqlStore = TRUE
    MaxIds = 2
INVARIANT AckedIsDurable
