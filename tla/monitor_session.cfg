SPECIFICATION Spec
CONSTANTS
    MaxDevices = 2
    MaxBlocks = 3
    TheKey = TheKey
    Keys = {TheKey}
    KeyOf <- SameKey
    Clones = TRUE
    OpensDirectly = TRUE
    MaxCalls = 3
INVARIANTS TypeOK CheckAlive ClosedBlocksLeave OneConnection
CHECK_DEADLOCK FALSE
