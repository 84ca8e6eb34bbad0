SPECIFICATION LiveSpec
CONSTANTS
    Guard = {g1}
    MaxDelay = 30
    Lifetime = {"short", "long", "stable"}
    PluginsFork = TRUE
    a = a
    b = b
    c = c
    f = f
    sock = sock
    sock2 = sock2
    Plugin <- MCPlugin
    File = {f}
    FilesOf <- MCFilesOf
    Envelope <- MCPaths
    Path = {sock, sock2}
    HasProtector = TRUE
    NoPath = NoPath
    NoPlugin = NoPlugin
    NoGuard = NoGuard
INVARIANTS
    StopEscalates
    FailureReported
    RunsDoNotOverlap
PROPERTIES
    StopCompletes
    DeathIsHandled
    CallReturns
