SPECIFICATION Spec
CONSTANTS
    Machine <- TwoSockets
    NodeIdReg <- NodeIds
    NodeMapReg <- NodeMaps
    MaxCores = 2
    FailSites = {"pci", "msr", "imc"}
    ConfigFails = FALSE
    Unpluggable = {}
    MaxHeld = 0
INVARIANTS RefsReturned
