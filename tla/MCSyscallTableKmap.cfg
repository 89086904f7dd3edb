SPECIFICATION Spec
CONSTANTS
    home1 = home1
    home2 = home2
    spy = spy
    kmap = kmap
    open = open
    chdir = chdir
    Kernel = Kernel
    Calls = {open, chdir}
    Mods = {kmap}
    Checks = {}
    ByName = {kmap}
    calls <- KmapCalls
INVARIANTS
    KmapOverrides
CHECK_DEADLOCK FALSE
