SPECIFICATION Spec
CONSTANTS
    a = a
    b = b
    c = c
    bad = bad
    None = None
    Network <- MCNetwork
    Address = {a, b, c, bad}
    Unusable = {bad}
    DnsLists <- MCDnsLists
    InitNets <- MCInitNets
    MaxServers = 2
    MaxPipe = 1
    MaxChanges = 2
INVARIANTS
    NoFalseAlarm
    CurrentAtRest
PROPERTIES
    FollowsSystem
    FailureClears
    CallsReturn
CHECK_DEADLOCK FALSE
