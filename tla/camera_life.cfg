SPECIFICATION FairSpec
CONSTANTS
    Setters = {s1, s2}
    Listeners = {l1}
    None = None
    ConnectFails = TRUE
    Reconnects = TRUE
    Synchronizes = FALSE
    MaxOpens = 2
    MaxSets = 2
INVARIANTS AllOrNothing ClosesOwn ThreadsDied StaleCallWindow CalledReferenced
PROPERTIES MethodEnds
CHECK_DEADLOCK FALSE
