SPECIFICATION LiveSpec
CONSTANTS
    CPU = {0, 6, 7}
    NodeOf <- TwoNodes
    SURVIVOR = 6
    XYZ = 0
    PmcMod = 8
    Sample = 2
    MaxWrites = 4
INVARIANTS TypeOK NeverTwice DelaysAsAsked NothingLeftBehind
PROPERTIES FreezesFirstOrNever AskedAgain ExitCompletes
