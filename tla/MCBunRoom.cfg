SPECIFICATION BunSpec
CONSTANTS
    Sockets = {s1, s2}
    Users = {alice, bob}
    NoUser = NoUser
    Platform = "bun"
    Clock = {0, 3}
    Backlog = 1
    MaxRequests = 4
SYMMETRY Symmetry
INVARIANTS
    TypeOK
    RosterExact
    QuitFollowsJoin
    ViewIsHistorySuffix
    GateHolds
    StorageIsHistory
    SameSockets
PROPERTIES
    HistoryGrowsAtItsEnd
    ShowsOneLog
CHECK_DEADLOCK FALSE
