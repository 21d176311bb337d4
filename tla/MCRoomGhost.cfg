SPECIFICATION Spec
CONSTANTS
    Sockets = {s1, s2}
    Users = {alice, bob}
    NoUser = NoUser
    Platform = "cf"
    Clock = {1}
    Backlog = 1
    MaxRequests = 1
SYMMETRY Symmetry
INVARIANT NoGhost
CHECK_DEADLOCK FALSE
