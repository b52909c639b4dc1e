SPECIFICATION FairSpec
CONSTANTS
    MaxDevices = 2
    MaxBlocks = 2
    TheKey = TheKey
    Keys = {TheKey}
    KeyOf <- SameKey
    Clones = FALSE
    OpensDirectly = TRUE
    MaxCalls = 2
PROPERTIES AttachAnnounced DetachReported GrantConnects
CHECK_DEADLOCK FALSE
