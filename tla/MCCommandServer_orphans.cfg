SPECIFICATION Spec
CONSTANTS
    Caller = {c1, c2}
    Host = {h1, h2}
    NoCaller = NoCaller
    NoHost = NoHost
INVARIANTS
    PluginsBelongToService
