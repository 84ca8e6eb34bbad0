SPECIFICATION FileSpec
CONSTANTS
    c1 = c1
    c2 = c2
    c3 = c3
    Core = {c1, c2, c3}
    Payload <- MCPayload
    OldFiles <- MCOldFiles
    Old = Old
    Absent = Absent
    Link = Link
    Dir = Dir
    Other = "other"
    Partial = "partial"
SYMMETRY SameVersion
INVARIANTS
    PathComplete
    ReturnedDex
    NoLeftovers

    
CHECK_DEADLOCK FALSE
