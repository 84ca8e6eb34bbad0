------------------------------ MODULE SystemDns ------------------------------
(***************************************************************************)
(* native/systemdns/client_android.go: the core starts the observer of     *)
(* DnsObserver.tla, reads frames from the socketpair they share and keeps  *)
(* the servers of the last one.  A helper that fails takes the core down   *)
(* by its own way of stopping; a core that stops or dies takes the helper. *)
(*                                                                         *)
(* The run loop (Start, Stop), the reader and the helper run beside each   *)
(* other.  Time is that of two timers: the first frame's deadline and the  *)
(* wait for the helper may run out whenever they are running.              *)
(***************************************************************************)
EXTENDS DnsObserver

VARIABLES
    core,       \* the goroutine that calls Start and its stop
    stopping,   \* the channel of this name is closed
    connected,  \* the core's end of the socketpair is open
    reader,     \* the goroutine that follows the frames
    managed,    \* systemconfig's servers; None: never set
    signalled   \* channelFailed; the core sent itself SIGTERM

clientVars == <<core, stopping, connected, reader, managed, signalled>>
vars == <<systemVars, observerVars, clientVars>>

TypeOK ==
    /\ ObserverTypeOK
    /\ core \in {"idle", "first", "up", "stop", "close", "wait", "stopped", "exited"}
    /\ stopping \in BOOLEAN /\ connected \in BOOLEAN /\ signalled \in BOOLEAN
    /\ reader \in {"none", "read", "error", "fail", "done"}
    /\ managed \in Frame \union {None}

Init ==
    /\ ObserverInit
    /\ core = "idle"
    /\ stopping = FALSE /\ connected = FALSE
    /\ reader = "none"
    /\ managed = None
    /\ signalled = FALSE

\* decodeSnapshot: a frame it returns an error for is a failed helper.
Decodes(frame) ==
    /\ Len(frame) <= MaxServers
    /\ \A i \in DOMAIN frame : frame[i] \notin Unusable

\* What read would return: the next frame, or an error.
FrameCame == pipe # <<>> /\ Decodes(Head(pipe))
ReadFailed ==
    \/ pipe # <<>> /\ ~Decodes(Head(pipe))
    \/ pipe = <<>> /\ helper \in {"crashed", "ended"}
    \/ ~connected

\* The local transport rebuilds its servers when the configuration is replaced.
SetManagedServers(servers) == managed' = servers

\* The process ends, and what it had in memory.
Helper(to) ==
    /\ helper \in {"boot", "alive"} /\ helper' = to
    /\ events' = <<>> /\ lost' = {} /\ pub' = Idle /\ out' = NoOutput
    /\ UNCHANGED <<systemVars, pipe>>

-----------------------------------------------------------------------------
(* Start and stop.                                                         *)

MoveCore(from, to) == core = from /\ core' = to /\ UNCHANGED systemVars

\* Up to cmd.Start, in a core that manages its DNS (any other does nothing);
\* without a helper file, a socketpair or a process: status 70.
Start ==
    \/ /\ MoveCore("idle", "first")
       /\ helper' = "boot" /\ connected' = TRUE
       /\ UNCHANGED <<events, lost, pub, out, pipe, stopping, reader, managed, signalled>>
    \/ MoveCore("idle", "exited") /\ UNCHANGED <<observerVars, stopping, connected, reader, managed, signalled>>

FirstSnapshot ==
    /\ MoveCore("first", "up")
    /\ FrameCame
    /\ SetManagedServers(Head(pipe)) /\ pipe' = Tail(pipe)
    /\ reader' = "read"
    /\ UNCHANGED <<events, lost, pub, out, helper, stopping, connected, signalled>>

\* An error, or 10 s without a frame: stop, then status 70.
FirstError ==
    /\ MoveCore("first", "close")
    /\ stopping' = TRUE
    /\ UNCHANGED <<observerVars, connected, reader, managed, signalled>>

\* Mutant: the connection is closed before the channel.
StopSwapped ==
    /\ MoveCore("up", "close")
    /\ connected' = FALSE
    /\ UNCHANGED <<observerVars, stopping, reader, managed, signalled>>

\* The run command's defer, once.
Stop ==
    /\ MoveCore("up", "close")
    /\ stopping' = TRUE
    /\ UNCHANGED <<observerVars, connected, reader, managed, signalled>>

CloseConnection ==
    /\ MoveCore("close", "wait")
    /\ connected' = FALSE /\ stopping' = TRUE
    /\ UNCHANGED <<observerVars, reader, managed, signalled>>

\* Where stop returns to: Start that failed, or the run command.
Returned == IF reader = "none" THEN "exited" ELSE "stopped"

StopWait ==
    /\ MoveCore("wait", Returned)
    /\ helper \in {"crashed", "ended"}
    /\ UNCHANGED <<observerVars, stopping, connected, reader, managed, signalled>>

\* Mutant: stop waits for done alone.
NoKill == FALSE /\ UNCHANGED vars

\* After 2 s.
KillHelper == core = "wait" /\ Helper("ended") /\ UNCHANGED clientVars

\* Killed, or a forced exit.
CoreDies ==
    /\ core \notin {"idle", "exited"}
    /\ core' = "exited" /\ connected' = FALSE
    /\ reader' = IF reader = "none" THEN "none" ELSE "done"
    /\ UNCHANGED <<systemVars, observerVars, stopping, managed, signalled>>

-----------------------------------------------------------------------------
(* The reader.                                                             *)

Reader(from, to) ==
    /\ reader = from /\ reader' = to
    /\ UNCHANGED <<systemVars, events, lost, pub, out, helper, core, stopping, connected>>

ReadFrame ==
    /\ Reader("read", "read")
    /\ FrameCame
    /\ SetManagedServers(Head(pipe)) /\ pipe' = Tail(pipe)
    /\ UNCHANGED signalled

ReadError ==
    /\ Reader("read", "error")
    /\ ReadFailed
    /\ UNCHANGED <<pipe, managed, signalled>>

LookAtStopping ==
    /\ Reader("error", IF stopping THEN "done" ELSE "fail")
    /\ UNCHANGED <<pipe, managed, signalled>>

\* Mutant: the servers stay.
ReaderKeeps ==
    /\ Reader("fail", "done")
    /\ signalled' = TRUE
    /\ UNCHANGED <<pipe, managed>>

ReaderFails ==
    /\ Reader("fail", "done")
    /\ SetManagedServers(<<>>)
    /\ signalled' = TRUE
    /\ UNCHANGED pipe

-----------------------------------------------------------------------------
(* How the helper ends.                                                    *)

\* A failed callback, a dead system service, a failed start.
HelperCrashes == connected /\ Helper("crashed") /\ UNCHANGED clientVars

\* Its stdin ended, or its output has no reader.
HelperEof == ~connected /\ Helper("ended") /\ UNCHANGED clientVars

Pdeathsig == core = "exited" /\ Helper("ended") /\ UNCHANGED clientVars

-----------------------------------------------------------------------------

Observer == ObserverNext /\ UNCHANGED clientVars

Next ==
    \/ Observer
    \/ Start \/ FirstSnapshot \/ FirstError
    \/ Stop \/ CloseConnection \/ StopWait \/ KillHelper \/ CoreDies
    \/ ReadFrame \/ ReadError \/ LookAtStopping \/ ReaderFails
    \/ HelperCrashes \/ HelperEof \/ Pdeathsig

\* The threads run and the two timers fire; that a helper answers, notices its
\* stdin or ever crashes is nobody's promise.  One condition for the helper's
\* threads is enough: each blocks only on the others or on the core.
Fairness ==
    /\ WF_vars((Handler \/ ServeTake \/ ServeWrite) /\ UNCHANGED clientVars)
    /\ WF_vars(FirstError \/ CloseConnection \/ StopWait \/ KillHelper)
    /\ WF_vars(ReadFrame \/ ReadError \/ LookAtStopping \/ ReaderFails)

Spec == Init /\ [][Next]_vars /\ Fairness

-----------------------------------------------------------------------------

(* The core signals itself only after the helper really failed: no frame   *)
(* publish makes is one decodeSnapshot refuses, whatever the networks, and *)
(* the end of the connection by stop is told from the helper's.            *)
NoFalseAlarm == signalled => helper = "crashed"

\* Neither the helper's threads nor the core's reader have anything to do.
AtRest ==
    /\ helper = "alive" /\ events = <<>> /\ pub.at = "idle"
    /\ out.serve # "write" /\ ~(out.serve = "wait" /\ out.unsent)
    /\ pipe = <<>>

(* At rest the core has the servers of the networks that are there, though *)
(* every call of publish may have read another state and the frames that   *)
(* serve skipped are lost.                                                 *)
CurrentAtRest == AtRest /\ core = "up" /\ reader = "read" => managed = Expected

(* Once the system is quiet the core gets them, and keeps them.            *)
FollowsSystem ==
    <>[](core = "up" /\ reader = "read" /\ helper = "alive") => <>[](managed = Expected)

(* A failed helper leaves no servers behind in a core that goes on, and    *)
(* the core is told to stop.                                               *)
FailureClears ==
    core = "up" /\ helper = "crashed" ~> (core = "up" => managed = <<>> /\ signalled)

(* Start and stop return, whatever the helper does.                        *)
CallsReturn ==
    core \in {"first", "close", "wait"} ~> core \in {"up", "stopped", "exited"}
=============================================================================
