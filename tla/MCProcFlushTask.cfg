SPECIFICATION FlushSpec
CONSTANTS
    main = main
    thread = thread
    other = other
    Tasks = {main, thread, other}
    level <- MCLevel
    numbers <- MCNumbers
    group_leader <- MCLeader
INVARIANTS
    PidFlushed
PROPERTIES
    FlushOnlyOwn
CHECK_DEADLOCK FALSE
