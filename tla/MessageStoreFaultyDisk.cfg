SPECIFICATION Spec
CONSTANTS
    Messages = {m1, m2}
    Slots = {s1, s2}
    Keys = {k1, k2}
    NoKey = NoKey
    MaxRecords = 2
    MaxMarker = 2
    FaultyDisk = TRUE
INVARIANTS
    AckedMarkersDurable
