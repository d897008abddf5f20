\* One request at a time over each kind of store, with crashes anywhere.
SPECIFICATION Spec
CONSTANTS
    Projects = {a, b}
    Points = {x, y}
    Threads = {t1}
    MaxSaves = 5
    None = None
SYMMETRY Symmetry
INVARIANTS RestartIsExact AckedSurvives
PROPERTIES TombstonesStay
