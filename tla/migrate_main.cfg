SPECIFICATION LiveSpec
CONSTANTS
    Fan = 2
    VmaLists <- Two
    Used = {2, 10}
INVARIANTS TypeOK WalkVisitsPresent CollectsAccessed KeptOnceLocked
PROPERTY ExitCompletes
CHECK_DEADLOCK FALSE
