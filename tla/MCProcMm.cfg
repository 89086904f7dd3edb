CONSTANTS
    m1 = m1
    m2 = m2
    r1 = r1
    r2 = r2
    Mms = {m1, m2}
    Exes = {e1}
    MaxVmas = 2
    SHIFT = 1
    BITS = 2
    None = None
    Readers = {r1, r2}
    Plans <- MCPlans
    ArgLen <- MCArgLen
    EnvLen <- MCEnvLen
    AuxLen = 3
    Readable = {m1}
    PAGE_SIZE = 2
    PROC_BLOCK_SIZE = 1
    Masks = {{0}, {1}}
    WrapLong = 16
    WrapInt = 8
    TASK_SIZE = 3
    Positions = {0, 7, 15, 17}
    Counts = {0, 3}
SPECIFICATION Spec
INVARIANTS RefsBalanced MapsPermitted  CmdlineInPage FilterExact ExeCounted
    ExeWhileMapped
CHECK_DEADLOCK FALSE
