SPECIFICATION MarkSpec
CONSTANTS
    Pids = {1, 2, 3}
    PID_ARRAY_MAX = 2
    ParamPids <- SomeParamPids
    ParamNodes = {5, 6}
PROPERTIES
    WalkMarksAll
