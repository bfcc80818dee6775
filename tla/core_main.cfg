SPECIFICATION Spec
CONSTANTS
    NCpu = 2
    Loader = Loader
    Writers = {w1, w2}
    Ctl = {0, 1, 5}
    Removable = {}
    EarlyWrites = FALSE
    OtherNmis = TRUE
    Unmasks = TRUE
    MaxTimes = 2
SYMMETRY WriterSymmetry
INVARIANTS TypeOK SamplingInForce DisabledNeverOverflows NoLostNmi
