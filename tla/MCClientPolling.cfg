SPECIFICATION Spec
CONSTANTS
    Users = {alice, bob}
    NoUser = NoUser
    Loops <- MCLoops
    NoTimer = NoTimer
    MaxVersions = 2
    MaxActs = 7
INVARIANTS TypeOK ShowsOwnData OneLoopUnlessRaced
PROPERTIES OlderOnlyIfRaced FetchingEnds ReachesLatest
CHECK_DEADLOCK FALSE
