SPECIFICATION Spec
CONSTANTS
    NNodes = 2
    Machines <- OneEach
    NDimm = 1
    Loader = Loader
    Writers = {w1}
    Ctl = {0, 4}
    EarlyWrites = FALSE
    StartFails = FALSE
INVARIANT BackToDram
