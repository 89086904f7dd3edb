SPECIFICATION Spec
CONSTANTS
    Threads = {main, t1, t2, t3, t4}
    leader = main
    Tids = {n0, n1, n2, n3}
    NoTid = NoTid
    Stranger = Stranger
    NULL = NULL
    MaxRoom = 3
INVARIANTS
    NoDuplicate
    ListingComplete
    OnlyItsThreads
    RefsBalanced
SYMMETRY Symm
