SPECIFICATION Spec
CONSTANTS
    Sessions = {s1, s2}
    Interval = 2
    Grace = 4
    MaxEvictions = 1
INVARIANTS
    TypeOK
    WaitBounded
PROPERTIES
    FitsTheBucket
    CooldownEnds
