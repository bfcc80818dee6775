SPECIFICATION LiveSpec
CONSTANTS
    NNodes = 2
    Machines <- Uneven
    NDimm = 1
    Loader = Loader
    Writers = {w1, w2}
    Ctl = {0, 2, 4, 5}
    EarlyWrites = FALSE
    StartFails = TRUE
INVARIANTS TypeOK RatioInForce NoUseAfterFree
PROPERTIES ImplementsThrottle ExitCompletes
