---------------------------- MODULE MCPluginHost -----------------------------
(* Three specs: a and b write the same file, so replacing one by the other *)
(* puts both stop and start on it; c writes none and is the plugin that    *)
(* survives reloads.  Two guards at a time.                                *)
EXTENDS PluginHost, TLC

CONSTANTS a, b, c, f, sock, sock2

MCPlugin == {a, b, c}
MCFilesOf == (a :> {f}) @@ (b :> {f}) @@ (c :> {})

Of(plugins, path, verify) == [plugins |-> plugins, path |-> path, verify |-> verify]

\* A reload changes a plugin beside the one it keeps, and the verify flag.
MCReloads == {Of(<<a, c>>, sock, FALSE), Of(<<c, b>>, sock, TRUE)}

\* Two entries with one key; the protect path changes between envelopes.
MCPaths == {Of(<<c, c>>, sock, FALSE), Of(<<a>>, sock2, FALSE)}

GuardSymmetry == Permutations(Guard)
=============================================================================
