SPECIFICATION Spec
CONSTANTS
    Guard = {g1, g2}
    MaxDelay = 1
    Lifetime = {"short", "long"}
    PluginsFork = FALSE
    a = a
    b = b
    c = c
    f = f
    sock = sock
    sock2 = sock2
    Plugin <- MCPlugin
    File = {f}
    FilesOf <- MCFilesOf
    Envelope <- MCReloads
    Path = {sock, sock2}
    HasProtector = TRUE
    NoPath = NoPath
    NoPlugin = NoPlugin
    NoGuard = NoGuard
SYMMETRY GuardSymmetry
INVARIANTS
    FilesMatchPlugins
    NoLeftoverFiles
    NoLostGuards
    NeverTwoLive
PROPERTIES
    ApplyReconciles
    ImplementsPluginSet
