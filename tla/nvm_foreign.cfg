SPECIFICATION Spec
CONSTANTS
    NCpu = 4
    NodeOf <- TwoNodes
    polling_cpu = 2
    emulate_nvm_cpu = 0
    Stubborn = {0}
    Bound = TRUE
    Radix = 2
    MaxReads = 2
INVARIANT OnlyEmulatedCounted
