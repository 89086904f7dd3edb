SPECIFICATION Spec
CONSTANTS
    Readers = {r1}
    Lookers = {l1, l2}
    Builds <- MCBuilds
    Wanted = {"fd", "fdinfo", "self"}
    Seeks <- MCSeeks
    Wrap = 256
    None = None
INVARIANTS
    IndexInTable
    PassExact
    NothingOfTheDead
    TaskCounted
SYMMETRY Symm
