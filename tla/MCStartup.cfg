SPECIFICATION MCSpec
CONSTANTS
    MaxInt = 127
    MaxInt32 = 127
    Unit <- MCUnit
    Bytes <- MCBytes
    None = None
    Off = Off
    Absent = Absent
    Blank = Blank
    Unusable = Unusable
    Character <- MCCharacter
    Environment <- MCEnvironment
    Directories <- MCDirectories
INVARIANTS
    LimitExact
    FilesStayApart
    ExpandsReferences
CHECK_DEADLOCK FALSE
