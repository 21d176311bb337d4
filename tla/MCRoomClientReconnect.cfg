SPECIFICATION SystemSpec
CONSTANTS
    Sockets = {c1, c2, p1}
    Own = {c1, c2}
    Users = {alice, bob}
    NoUser = NoUser
    NoSocket = NoSocket
    Undefined = Undefined
    Platform = "bun"
    Clock = {1}
    Backlog = 1
    MaxRequests = 2
    MaxActs = 0
SYMMETRY Symmetry
VIEW WhatMatters
INVARIANTS
    LoggedInIsTrue
CHECK_DEADLOCK FALSE
