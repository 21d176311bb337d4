SPECIFICATION Spec
CONSTANTS
    Sockets = {s1, s2}
    Users = {alice, bob}
    NoUser = NoUser
    Platform = "cf"
    Clock = {1, 3}
    Backlog = 1
    MaxRequests = 3
SYMMETRY Symmetry
PROPERTY HistoryGrowsAtItsEnd
CHECK_DEADLOCK FALSE
