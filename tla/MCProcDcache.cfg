SPECIFICATION Spec
CONSTANTS
    Nrs = {1, 2}
    Pids = {p1, p2, p3}
    Walkers = {w1, w2}
    MaxIno = 2
    None = None
INVARIANTS
    NeverTheDead
    OneDentryPerName
    OnlyItsThreads
SYMMETRY Symm
