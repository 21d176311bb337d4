SPECIFICATION Spec
CONSTANTS
    alice = alice
    bob = bob
    conv = conv
    None = None
    Users <- MCUsers
    Convs <- MCConvs
    Addressing <- Exchange
    Randoms = {0}
    MaxTime = 1
    MaxRequests = 2
INVARIANT LastMessageIsLatest
CHECK_DEADLOCK FALSE
