----------------------------- MODULE PluginHost ------------------------------
(***************************************************************************)
(* Host of native/pluginpool/host.go: it reconciles the running plugins    *)
(* and the protect socket with an envelope (Apply), and stops everything   *)
(* (Close).                                                                *)
(*                                                                         *)
(* h.access is held for the whole of Apply and Close, so at most one call  *)
(* is in flight; but the guards of PluginGuard, their kill timers and the  *)
(* plugin processes run on meanwhile, and the call observes them at        *)
(* different moments.  The call's position and local variables are the     *)
(* record call; every step of it is a separate action.                     *)
(***************************************************************************)
EXTENDS PluginGuard, Sequences

CONSTANTS
    Plugin,    \* what specKey tells apart: a working directory and a spec
    File,      \* files in the working directory
    FilesOf,   \* the files a spec writes
    Envelope,  \* the validated envelopes Apply is called with
    Path,      \* protect socket paths
    HasProtector,  \* whether NewHost was given a protector
    NoPath, NoPlugin, NoGuard

\* validate rejects an envelope in which two specs name the same file.
Wanted(envelope) == {envelope.plugins[i] : i \in 1..Len(envelope.plugins)}

ASSUME HostAssumption ==
    /\ FilesOf \in [Plugin -> SUBSET File]
    /\ Envelope \subseteq [plugins: Seq(Plugin), path: Path \union {NoPath},
                           verify: BOOLEAN]
    /\ \A envelope \in Envelope :
           /\ envelope.plugins # <<>>
           /\ \A p, q \in Wanted(envelope) : p # q => FilesOf[p] \intersect FilesOf[q] = {}
    /\ HasProtector \in BOOLEAN
    /\ NoPath \notin Path /\ NoPlugin \notin Plugin /\ NoGuard \notin Guard

VARIABLES
    guards,   \* h.guards
    closed,   \* h.closed
    server,   \* h.server, its path and verify flag; no path means nil
    disk,     \* whose content each file of the working directory holds
    specOf,   \* the spec each guard was started for
    call      \* the call of Apply or Close that holds h.access

hostVars == <<guards, closed, server, disk, specOf, call>>
vars == <<guardVars, hostVars>>

\* Apply(nil) stops all plugins; it wants nothing and no protect socket.
NoOptions == [plugins |-> <<>>, path |-> NoPath, verify |-> FALSE]
NoServer == [path |-> NoPath, verify |-> FALSE]

Options == Envelope \union {NoOptions}

CallAt == {"idle", "scan", "stop", "server", "mkdir", "start", "starting",
           "stopAll", "closeServer"}

CallType == [at: CallAt, options: Options, scan: SUBSET Plugin,
             signal: SUBSET Guard, wait: SUBSET Guard, index: Nat,
             fresh: Guard \union {NoGuard}, failed: BOOLEAN]

HostTypeOK ==
    /\ GuardTypeOK
    /\ guards \in [Plugin -> Guard \union {NoGuard}]
    /\ closed \in BOOLEAN
    /\ server \in [path: Path \union {NoPath}, verify: BOOLEAN]
    /\ disk \in [File -> Plugin \union {NoPlugin}]
    /\ specOf \in [Guard -> Plugin \union {NoPlugin}]
    /\ call \in CallType

NoCall == [at |-> "idle", options |-> NoOptions, scan |-> {}, signal |-> {},
           wait |-> {}, index |-> 1, fresh |-> NoGuard, failed |-> FALSE]

Init ==
    /\ GuardInit
    /\ guards = [p \in Plugin |-> NoGuard]
    /\ closed = FALSE
    /\ server = NoServer
    /\ disk = [f \in File |-> NoPlugin]
    /\ specOf = [g \in Guard |-> NoPlugin]
    /\ call = NoCall

Registered == {p \in Plugin : guards[p] # NoGuard}

Write(p) == [f \in File |-> IF f \in FilesOf[p] THEN p ELSE disk[f]]
Remove(files) == [f \in File |-> IF f \in files THEN NoPlugin ELSE disk[f]]

\* The call gives up: the error makes Apply stop every plugin.
Failing == [call EXCEPT !.at = "stopAll", !.fresh = NoGuard, !.failed = TRUE]

-----------------------------------------------------------------------------
(* Apply: take the unwanted and the exited guards out of the map ...       *)

Apply(options) ==
    /\ call.at = "idle"
    /\ ~closed
    /\ call' = [NoCall EXCEPT !.at = IF Registered = {} THEN "stop" ELSE "scan",
                              !.options = options, !.scan = Registered]
    /\ UNCHANGED <<guardVars, guards, closed, server, disk, specOf>>

\* errClosed
ApplyClosed ==
    /\ call.at = "idle"
    /\ closed
    /\ UNCHANGED vars

\* Mutant: every plugin is removed, the wanted ones too.
ScanAll(p) ==
    /\ call.at = "scan"
    /\ p \in call.scan
    /\ guards' = [guards EXCEPT ![p] = NoGuard]
    /\ call' = [call EXCEPT !.at = IF call.scan = {p} THEN "stop" ELSE @,
                            !.scan = @ \ {p}, !.signal = @ \union {guards[p]},
                            !.wait = @ \union {guards[p]}]
    /\ UNCHANGED <<guardVars, closed, server, disk, specOf>>

\* The range over h.guards visits each guard at its own moment.
Scan(p) ==
    /\ call.at = "scan"
    /\ p \in call.scan
    /\ LET g == guards[p]
           removed == p \notin Wanted(call.options) \/ Done(g)
       IN  /\ guards' = IF removed THEN [guards EXCEPT ![p] = NoGuard] ELSE guards
           /\ call' = [call EXCEPT
                  !.at = IF call.scan = {p} THEN "stop" ELSE @,
                  !.scan = @ \ {p},
                  !.signal = IF removed THEN @ \union {g} ELSE @,
                  !.wait = IF removed THEN @ \union {g} ELSE @]
    /\ UNCHANGED <<guardVars, closed, server, disk, specOf>>

(* ... stopGuards: request every stop, then wait for every one of them ... *)

Signal(g) ==
    /\ call.at = "stop"
    /\ g \in call.signal
    /\ RequestStop(g)
    /\ call' = [call EXCEPT !.signal = @ \ {g}]
    /\ UNCHANGED <<guards, closed, server, disk, specOf>>

\* waitStopped removes the guard's files, whether or not the plugin is gone.
Wait(g) ==
    /\ call.at = "stop"
    /\ call.signal = {}
    /\ g \in call.wait
    /\ WaitStopped(g)
    /\ disk' = Remove(FilesOf[specOf[g]])
    /\ call' = [call EXCEPT !.wait = @ \ {g}]
    /\ UNCHANGED <<guards, closed, server, specOf>>

\* Mutant: Apply goes on without waiting for the stopped guards.
StopEndEarly ==
    /\ call.at = "stop"
    /\ call.signal = {}
    /\ call' = [call EXCEPT !.at = IF closed \/ call.failed THEN "closeServer" ELSE "server",
                            !.wait = {}]
    /\ UNCHANGED <<guardVars, guards, closed, server, disk, specOf>>

StopEnd ==
    /\ call.at = "stop"
    /\ call.wait = {}
    /\ call' = [call EXCEPT !.at = IF closed \/ call.failed THEN "closeServer" ELSE "server"]
    /\ UNCHANGED <<guardVars, guards, closed, server, disk, specOf>>

(* ... updateServer: a listener whose path did not change is kept ...      *)

\* Mutant: the verify flag of a kept listener is not updated.
KeepServerStale ==
    /\ call.at = "server"
    /\ server.path # NoPath
    /\ server.path = call.options.path
    /\ call' = [call EXCEPT !.at = "mkdir"]
    /\ UNCHANGED <<guardVars, guards, closed, server, disk, specOf>>

KeepServer ==
    /\ call.at = "server"
    /\ server.path # NoPath
    /\ server.path = call.options.path
    /\ server' = [server EXCEPT !.verify = call.options.verify]
    /\ call' = [call EXCEPT !.at = "mkdir"]
    /\ UNCHANGED <<guardVars, guards, closed, disk, specOf>>

ReplaceServer ==
    /\ call.at = "server"
    /\ server.path = NoPath \/ server.path # call.options.path
    /\ \/ /\ call.options.path = NoPath
          /\ server' = NoServer
          /\ call' = [call EXCEPT !.at = "mkdir"]
       \/ /\ call.options.path # NoPath
          /\ HasProtector
          /\ server' = [path |-> call.options.path, verify |-> call.options.verify]
          /\ call' = [call EXCEPT !.at = "mkdir"]
       \/ /\ call.options.path # NoPath   \* no protector, or listenProtect failed
          /\ server' = NoServer
          /\ call' = Failing
    /\ UNCHANGED <<guardVars, guards, closed, disk, specOf>>

(* ... and startMissing, unless the options are nil.                       *)

MkdirAll ==
    /\ call.at = "mkdir"
    /\ IF call.options = NoOptions
       THEN call' = NoCall
       ELSE \/ call' = [call EXCEPT !.at = "start"]
            \/ call' = Failing
    /\ UNCHANGED <<guardVars, guards, closed, server, disk, specOf>>

Advance == [call EXCEPT !.at = "start", !.index = @ + 1, !.fresh = NoGuard]

Skip ==
    /\ call.at = "start"
    /\ call.index <= Len(call.options.plugins)
    /\ guards[call.options.plugins[call.index]] # NoGuard
    /\ call' = Advance
    /\ UNCHANGED <<guardVars, guards, closed, server, disk, specOf>>

\* start: prepare writes the files, then run is launched.  With every guard
\* value taken the model waits for one: at most Cardinality(Guard) at a time.
Start(g) ==
    /\ call.at = "start"
    /\ call.index <= Len(call.options.plugins)
    /\ LET p == call.options.plugins[call.index]
       IN  /\ guards[p] = NoGuard
           /\ Launch(g)
           /\ disk' = Write(p)
           /\ specOf' = [specOf EXCEPT ![g] = p]
    /\ call' = [call EXCEPT !.at = "starting", !.fresh = g]
    /\ UNCHANGED <<guards, closed, server>>

\* prepare fails, on a file or on an unknown file name in the command: the files
\* it tracked, a partly written one among them, are removed again.
PrepareError ==
    /\ call.at = "start"
    /\ call.index <= Len(call.options.plugins)
    /\ LET p == call.options.plugins[call.index]
       IN  /\ guards[p] = NoGuard
           /\ \E tracked \in SUBSET FilesOf[p] : disk' = Remove(tracked)
    /\ call' = Failing
    /\ UNCHANGED <<guardVars, guards, closed, server, specOf>>

Started ==
    /\ call.at = "starting"
    /\ guard[call.fresh].started = "ok"
    /\ guards' = [guards EXCEPT ![specOf[call.fresh]] = call.fresh]
    /\ call' = Advance
    /\ UNCHANGED <<guardVars, closed, server, disk, specOf>>

\* Mutant: the files of a failed start stay.
StartErrorKeepsFiles ==
    /\ call.at = "starting"
    /\ guard[call.fresh].started = "error"
    /\ Done(call.fresh)
    /\ call' = Failing
    /\ UNCHANGED <<guardVars, guards, closed, server, disk, specOf>>

\* Mutant: the files are removed before run is over.
StartErrorEarly ==
    /\ call.at = "starting"
    /\ guard[call.fresh].started = "error"
    /\ disk' = Remove(FilesOf[specOf[call.fresh]])
    /\ call' = Failing
    /\ UNCHANGED <<guardVars, guards, closed, server, specOf>>

\* start waits for done before it removes the files.
StartError ==
    /\ call.at = "starting"
    /\ guard[call.fresh].started = "error"
    /\ Done(call.fresh)
    /\ disk' = Remove(FilesOf[specOf[call.fresh]])
    /\ call' = Failing
    /\ UNCHANGED <<guardVars, guards, closed, server, specOf>>

ApplyDone ==
    /\ call.at = "start"
    /\ call.index > Len(call.options.plugins)
    /\ call' = NoCall
    /\ UNCHANGED <<guardVars, guards, closed, server, disk, specOf>>

-----------------------------------------------------------------------------
(* Close and stopAll.                                                      *)

Close ==
    /\ call.at = "idle"
    /\ ~closed
    /\ closed' = TRUE
    /\ call' = [NoCall EXCEPT !.at = "stopAll"]
    /\ UNCHANGED <<guardVars, guards, server, disk, specOf>>

\* Mutant: the map is emptied, the guards are not stopped.
StopAllForgets ==
    /\ call.at = "stopAll"
    /\ call' = [call EXCEPT !.at = "stop"]
    /\ guards' = [p \in Plugin |-> NoGuard]
    /\ UNCHANGED <<guardVars, closed, server, disk, specOf>>

StopAll ==
    /\ call.at = "stopAll"
    /\ LET all == {guards[p] : p \in Registered}
       IN  call' = [call EXCEPT !.at = "stop", !.signal = all, !.wait = all]
    /\ guards' = [p \in Plugin |-> NoGuard]
    /\ UNCHANGED <<guardVars, closed, server, disk, specOf>>

\* The end of stopAll, with which Close and a failed Apply return.
CloseServer ==
    /\ call.at = "closeServer"
    /\ server' = NoServer
    /\ call' = NoCall
    /\ UNCHANGED <<guardVars, guards, closed, disk, specOf>>

-----------------------------------------------------------------------------

\* Nothing refers to the guard any more: its value stands for a new one.
Recycle(g) ==
    /\ Collect(g)
    /\ g # call.fresh
    /\ specOf' = [specOf EXCEPT ![g] = NoPlugin]
    /\ UNCHANGED <<guards, closed, server, disk, call>>

CallStep ==
    \/ StopEnd \/ KeepServer \/ ReplaceServer \/ MkdirAll
    \/ Skip \/ PrepareError \/ Started \/ StartError \/ ApplyDone
    \/ StopAll \/ CloseServer
    \/ \E p \in Plugin : Scan(p)
    \/ \E g \in Guard : Signal(g) \/ Wait(g) \/ Start(g)

\* What runs beside the call.
GuardStep(g) == (RunStep(g) \/ KillGroup(g) \/ KernelStep(g)) /\ UNCHANGED hostVars

Next ==
    \/ \E options \in Options : Apply(options)
    \/ ApplyClosed
    \/ Close
    \/ CallStep
    \/ \E g \in Guard : GuardStep(g) \/ Recycle(g)

\* Goroutines are scheduled, timers fire, and a process that was sent SIGKILL
\* dies; a call that holds h.access goes on.  Nothing obliges a plugin to exit,
\* to obey SIGTERM or to spawn, and nobody must call anything.
Fairness ==
    /\ WF_vars(CallStep)
    /\ \A g \in Guard : /\ WF_vars(RunStep(g) /\ UNCHANGED hostVars)
                        /\ WF_vars(KillGroup(g) /\ UNCHANGED hostVars)
                        /\ WF_vars(KilledExits(g) /\ UNCHANGED hostVars)
                        /\ WF_vars(Recycle(g))

Spec == Init /\ [][Next]_vars

LiveSpec == Spec /\ Fairness

-----------------------------------------------------------------------------
(* Properties.                                                             *)

Running(g) == run[g].at \notin {"idle", "done"}

Abandoned(g) == guard[g].released = "gaveUp"

(***************************************************************************)
(* A plugin has its files for as long as anything may run it: from before  *)
(* run is launched, across restarts and while it is being stopped, until   *)
(* waitStopped returns; no failed start, reload or cleanup of another      *)
(* plugin takes or overwrites them.                                        *)
(***************************************************************************)
FilesMatchPlugins ==
    \A g \in Guard :
        Running(g) /\ guard[g].released = "no"
            => \A f \in FilesOf[specOf[g]] : disk[f] = specOf[g]

(***************************************************************************)
(* Between calls the working directory holds only files of plugins in the  *)
(* map: every way a plugin leaves (stop, failed prepare, failed start,     *)
(* a stop that gave up) removes what it wrote.                             *)
(***************************************************************************)
NoLeftoverFiles ==
    call.at = "idle" => \A f \in File : disk[f] # NoPlugin => disk[f] \in Registered

(***************************************************************************)
(* Between calls every supervisor that still runs is one the next call     *)
(* will find in the map, or one whose stop gave up on it: a reload or a    *)
(* failed Apply loses track of no plugin.                                  *)
(***************************************************************************)
NoLostGuards ==
    call.at = "idle" =>
        \A g \in Guard : Running(g) =>
            Abandoned(g) \/ \E p \in Plugin : guards[p] = g /\ specOf[g] = p

(***************************************************************************)
(* host.go:79, "Stop before starting: replaced plugins release their ports *)
(* and files": two plugins of the same spec, or that share a file, never   *)
(* run at once, unless the stop of one of them gave up.                    *)
(***************************************************************************)
NeverTwoLive ==
    \A g, h \in Guard :
        /\ g # h
        /\ proc[g].life = "alive" /\ proc[h].life = "alive"
        /\ \/ specOf[g] = specOf[h]
           \/ FilesOf[specOf[g]] \intersect FilesOf[specOf[h]] # {}
        => Abandoned(g) \/ Abandoned(h)

(***************************************************************************)
(* host.go:61-63: when Apply returns, the map holds exactly the wanted     *)
(* plugins and the protect socket is the wanted one; or it failed, and     *)
(* nothing is left of either.                                              *)
(***************************************************************************)
Returns == call.at # "idle" /\ call'.at = "idle"

ApplyReconciles ==
    [][Returns =>
        IF call.failed \/ closed
        THEN Registered' = {} /\ server' = NoServer
        ELSE /\ Registered' = Wanted(call.options)
             /\ server'.path = call.options.path
             /\ server'.path # NoPath => server'.verify = call.options.verify]_vars

(***************************************************************************)
(* host.go:62, "Unchanged plugins keep running": a plugin is told to stop  *)
(* only because the envelope no longer wants it, its supervisor is over,   *)
(* the call failed or the host is closed.                                  *)
(***************************************************************************)
UnchangedPluginsKeepRunning ==
    [][\A g \in Guard :
        ~guard[g].stopping /\ guard'[g].stopping
            => \/ specOf[g] \notin Wanted(call.options)
               \/ Done(g) \/ call.failed \/ closed]_vars

(***************************************************************************)
(* host.go:141-142: the listener outlives a reload that keeps its path.    *)
(* Closing it unlinks the path the surviving plugins use.                  *)
(***************************************************************************)
SocketSurvivesReload ==
    [][server.path # NoPath /\ server'.path # server.path
        => call.options.path # server.path \/ call.failed \/ closed]_vars

(***************************************************************************)
(* host.go:33-35 and :61-63: to its caller the host is a PluginSet.  Of a  *)
(* call only whether it still tries to reach the envelope, or undoes, is   *)
(* visible; of a guard, whether it is in the map and its goroutine over.   *)
(***************************************************************************)
Visible ==
    IF call.at = "idle" THEN [at |-> "idle", options |-> NoOptions]
    ELSE IF call.failed \/ closed THEN [at |-> "undo", options |-> NoOptions]
    ELSE [at |-> "apply", options |-> call.options]

Promised == INSTANCE PluginSet
    WITH plugins <- Registered,
         over <- {p \in Registered : Done(guards[p])},
         socket <- server,
         call <- Visible

ImplementsPluginSet == Promised!Spec

(***************************************************************************)
(* Every call returns, whatever the plugins it waits for do with SIGTERM   *)
(* and whatever fails on the way.                                          *)
(***************************************************************************)
CallReturns == call.at # "idle" ~> call.at = "idle"
=============================================================================
