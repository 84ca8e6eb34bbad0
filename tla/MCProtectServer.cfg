SPECIFICATION LiveSpec
CONSTANTS
    Conn = {c1, c2}
    Process = {p1, p2}
    Core = Core
    Reaper = Reaper
    MaxFds = 3
    Room = 2
    MaxSockets = 2
    MaxAncestry = 3
    Nobody = Nobody
INVARIANTS
    ServedDescend
    DescriptorsClosed
    
PROPERTIES
    RefusedDoNotDescend
    RequestsEnd
