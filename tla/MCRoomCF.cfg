SPECIFICATION Spec
CONSTANTS
    Sockets = {s1, s2, s3}
    Users = {alice, bob}
    NoUser = NoUser
    Platform = "cf"
    Clock = {1}
    Backlog = 1
    MaxRequests = 2
SYMMETRY Symmetry
INVARIANTS
    RosterExact
    HibernationIsTransparent
CHECK_DEADLOCK FALSE
