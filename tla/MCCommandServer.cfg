SPECIFICATION LiveSpec
CONSTANTS
    Caller = {c1, c2}
    Host = {h1, h2, h3}
    NoCaller = NoCaller
    NoHost = NoHost
INVARIANTS
    NoOrphanPlugins
PROPERTIES
    CallsReturn
