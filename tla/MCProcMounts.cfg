SPECIFICATION FairSpec
CONSTANTS
    Files = {f1, f2, f3}
    MaxEvent = 3
INVARIANTS
    RefsBalanced
    NoLostChange
PROPERTIES
    ChangeNoticed
