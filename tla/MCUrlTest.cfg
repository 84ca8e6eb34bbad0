SPECIFICATION Spec
CONSTANTS
    r1 = r1
    r2 = r2
    i1 = i1
    i2 = i2
    p = p
    q = q
    s = s
    u = u
    v = v
    plain = plain
    quic = quic
    None = None
    Test = {r1, r2}
    Instance = {i1, i2}
    Tag = {p, q, s, u, v}
    Kind <- MCKind
    Members <- MCMembers
    Default <- MCDefault
    Wires <- MCWires
    Links = {plain, quic}
    Http3 = {quic}
    Asked <- MCAsked
    MaxTimeout = 7
    FlagRange = 3
    NoUdp = {}
    WithQUIC = TRUE
INVARIANTS
    OptionsArrive
    GroupsSeeHistory
PROPERTIES
    
    TestsEnd
CHECK_DEADLOCK FALSE
