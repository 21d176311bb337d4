SPECIFICATION Spec
CONSTANTS
    alice = alice
    bob = bob
    conv = conv
    None = None
    Users <- MCUsers
    Convs <- MCConvs
    Addressing <- MCAddressing
    Randoms = {0}
    MaxTime = 1
    MaxRequests = 3
INVARIANTS
    TypeOK
    EveryMessageListed
    SendIsAllOrNothing
    DatesAreOfMessages
PROPERTY OnlyOwnRequestsLower
CHECK_DEADLOCK FALSE
