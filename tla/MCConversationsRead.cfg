SPECIFICATION Spec
CONSTANTS
    alice = alice
    bob = bob
    conv = conv
    None = None
    Users <- MCUsers
    Convs <- MCConvs
    Addressing <- Exchange
    Randoms = {0}
    MaxTime = 0
    MaxRequests = 2
PROPERTY OnlyRejectionUnaccepts
CHECK_DEADLOCK FALSE
