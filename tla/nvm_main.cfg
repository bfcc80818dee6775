SPECIFICATION LiveSpec
CONSTANTS
    NCpu = 4
    NodeOf <- TwoNodes
    polling_cpu = 2
    emulate_nvm_cpu = 0
    Stubborn = {1}
    Bound = TRUE
    Radix = 2
    MaxReads = 7
INVARIANTS TypeOK ChargedOnce NothingLeftBehind TimerBeforeBoxes PolledByPollingCpu
PROPERTIES ImplementsCharge ReadsAreCharged CountsAgain FinishCompletes
