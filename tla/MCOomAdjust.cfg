CONSTANTS
    Writers = {root, u1, u2}
    Privileged = {root}
    Numbers <- MCNumbers
    Wrap = 16
    OOM_DISABLE <- MCDisable
    OOM_ADJUST_MIN <- MCMin
    OOM_ADJUST_MAX = 1
SPECIFICATION OomSpec
SYMMETRY Symm
INVARIANTS OomTypeOK NeverBelowAuthorised TaskCounted
