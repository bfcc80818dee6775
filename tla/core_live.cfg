SPECIFICATION LiveSpec
CONSTANTS
    NCpu = 2
    Loader = Loader
    Writers = {w1}
    Ctl = {0, 1}
    Removable = {1}
    EarlyWrites = FALSE
    OtherNmis = FALSE
    Unmasks = TRUE
    MaxTimes = 0
INVARIANT NoStaleThreshold
PROPERTIES ExitCompletes OverflowRearms
