SPECIFICATION Spec
CHECK_DEADLOCK FALSE
CONSTANTS
    Machine <- TwoSockets
    NodeIdReg <- NodeIds
    NodeMapReg <- NodeMaps
    MaxCores = 2
    FailSites = {"pci", "msr", "imc"}
    ConfigFails = TRUE
    Unpluggable = {2, 4}
    MaxHeld = 2
INVARIANTS TypeOK RefsOwned OneNodePerBus FirstBoxIsAgent0 NoFreedDevice MsrsApart NothingRegistered
