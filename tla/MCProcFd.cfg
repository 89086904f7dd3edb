CONSTANTS
    MaxFds = 2
    MaxIno = 2
    Readers = {r1}
    Lookers = {l1, l2}
    None = None
SPECIFICATION Spec
SYMMETRY Symm
INVARIANTS NeverClosed ListingComplete FilesCounted FilesClosed
VIEW View
