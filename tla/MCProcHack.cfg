SPECIFICATION FairHSpec
CONSTANTS
    PID_MAX_LIMIT = 5
    Readers = {r1}
    MaxRoom = 2
    dummy_in_proc_pid_readdir = dummy
    Mods = {m1}
    HookFns = {m1, dummy}
INVARIANTS
    NoDuplicate
    ListingComplete
    RefsBalanced
    IInv
    HookLive
PROPERTIES
    CallTerminates
    ImplementsListing
