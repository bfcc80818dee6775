SPECIFICATION Spec
CONSTANTS
    NCpu = 2
    Loader = Loader
    Writers = {w1}
    Ctl = {0, 1}
    Removable = {}
    EarlyWrites = FALSE
    OtherNmis = TRUE
    Unmasks = TRUE
    MaxTimes = 0
PROPERTY RestartIsOverflow
