\* Two calls at a time that may meet once, three projects, two failing steps.
SPECIFICATION Spec
CONSTANTS
    MaxProjects = 3
    Threads = {t1, t2}
    MaxFaults = 2
    MaxOverlaps = 1
    Titles = {ta, tb}
    None = None
CHECK_DEADLOCK FALSE
SYMMETRY SubjectsSymmetry
INVARIANTS DamageIsBounded
