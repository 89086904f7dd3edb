SPECIFICATION Spec
CONSTANTS
    home1 = home1
    home2 = home2
    spy = spy
    kmap = kmap
    open = open
    chdir = chdir
    Kernel = Kernel
    Calls = {open, chdir}
    Mods = {home1, home2, spy, kmap}
    Checks = {home1, home2}
    ByName = {kmap}
    calls <- MCCalls
INVARIANTS
    NoLoop
    UnstableOnlyIfWarned
CHECK_DEADLOCK FALSE
