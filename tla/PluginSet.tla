------------------------------ MODULE PluginSet ------------------------------
(***************************************************************************)
(* What Host of native/pluginpool/host.go promises its caller: a set of    *)
(* plugins and a protect socket that calls of Apply make match an          *)
(* envelope, and that Close empties.  Supervisors, processes, files and    *)
(* the order in which things are stopped and waited for do not appear;     *)
(* PluginHost is shown to implement this.                                  *)
(***************************************************************************)
EXTENDS Sequences, Naturals

CONSTANTS Plugin, Options, NoOptions, NoServer, NoPath

VARIABLES
    plugins,  \* the plugins the host keeps running
    over,     \* those among them it has given up
    socket,   \* the protect socket's path and verify flag
    closed,   \* Close was called
    call      \* the call in progress, and what it is to achieve

vars == <<plugins, over, socket, closed, call>>

Wanted(options) == {options.plugins[i] : i \in 1..Len(options.plugins)}

WantedSocket(options) ==
    IF options.path = NoPath THEN NoServer
    ELSE [path |-> options.path, verify |-> options.verify]

Idle == [at |-> "idle", options |-> NoOptions]
Undo == [at |-> "undo", options |-> NoOptions]

Init ==
    /\ plugins = {}
    /\ over = {}
    /\ socket = NoServer
    /\ closed = FALSE
    /\ call = Idle

Applying == call.at = "apply"
Undoing  == call.at = "undo"

Apply(options) ==
    /\ call = Idle
    /\ ~closed
    /\ call' = [at |-> "apply", options |-> options]
    /\ UNCHANGED <<plugins, over, socket, closed>>

Close ==
    /\ call = Idle
    /\ ~closed
    /\ closed' = TRUE
    /\ call' = Undo
    /\ UNCHANGED <<plugins, over, socket>>

\* A plugin is given up by itself; no call need be in progress.
GiveUp(p) ==
    /\ p \in plugins \ over
    /\ over' = over \union {p}
    /\ UNCHANGED <<plugins, socket, closed, call>>

\* Unchanged plugins keep running: only what the envelope does not want, or
\* what was given up, leaves.
Leave(p) ==
    /\ Applying
    /\ p \in plugins
    /\ p \notin Wanted(call.options) \/ p \in over
    /\ plugins' = plugins \ {p}
    /\ over' = over \ {p}
    /\ UNCHANGED <<socket, closed, call>>

\* The listener outlives a call that keeps its path, and changes in one step
\* otherwise, after every plugin that is not wanted has left.
Listen ==
    /\ Applying
    /\ plugins \subseteq Wanted(call.options)
    /\ socket' = WantedSocket(call.options)
    /\ UNCHANGED <<plugins, over, closed, call>>

\* Stop before starting: plugins join when the unwanted ones have left and the
\* socket they are to use is there.  One may have been given up already.
Join(p) ==
    /\ Applying
    /\ plugins \subseteq Wanted(call.options)
    /\ socket = WantedSocket(call.options)
    /\ p \in Wanted(call.options) \ plugins
    /\ plugins' = plugins \union {p}
    /\ over' \in {over, over \union {p}}
    /\ UNCHANGED <<socket, closed, call>>

ApplySucceeds ==
    /\ Applying
    /\ plugins = Wanted(call.options)
    /\ socket = WantedSocket(call.options)
    /\ call' = Idle
    /\ UNCHANGED <<plugins, over, socket, closed>>

\* A socket that is to be replaced is gone before its successor fails.
Fail ==
    /\ Applying
    /\ call' = Undo
    /\ \/ socket' = socket
       \/ socket.path # call.options.path /\ socket' = NoServer
    /\ UNCHANGED <<plugins, over, closed>>

LeaveAll ==
    /\ Undoing
    /\ plugins' = {} /\ over' = {}
    /\ UNCHANGED <<socket, closed, call>>

\* A failed Apply, or Close, returns: nothing is left.
UndoReturns ==
    /\ Undoing
    /\ plugins = {}
    /\ socket' = NoServer
    /\ call' = Idle
    /\ UNCHANGED <<plugins, over, closed>>

Next ==
    \/ \E options \in Options : Apply(options)
    \/ Close
    \/ \E p \in Plugin : GiveUp(p) \/ Leave(p) \/ Join(p)
    \/ Listen \/ ApplySucceeds \/ Fail \/ LeaveAll \/ UndoReturns

Spec == Init /\ [][Next]_vars
=============================================================================
