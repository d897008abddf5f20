\* A folder that is renamed, scanned again and remapped.
SPECIFICATION Spec
CONSTANTS
    a = a
    b = b
    dirA = dirA
    dirB = dirB
    None = None
    Files = {a, b}
    Dirs = {root, dirA, dirB}
    Root = root
    Up <- MCUp
    Remote = {v}
    Points = {p1, p2}
    Sources = {s1}
    Threads = {t1, t2}
    Older <- MCOlder
    MaxFresh <- MCFresh
    MaxScans = 2
SYMMETRY Symmetric
INVARIANT WholeFoldersRollUp
