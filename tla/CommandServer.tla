---------------------------- MODULE CommandServer ----------------------------
(***************************************************************************)
(* The libbox side of the plugins:                                         *)
(* patches/experimental_libbox/command_server_plugins.go and the calls of  *)
(* closePlugins that scripts/prepare_sources.py adds to CommandServer.     *)
(*                                                                         *)
(* The app calls StartOrReloadServiceWithPlugins, CloseService and Close   *)
(* over JNI from any of its threads, and pluginFailed runs on goroutines   *)
(* of its own.  The map entry is guarded by pluginHostAccess, each Host by *)
(* its own mutex, and nothing spans the two.                               *)
(*                                                                         *)
(* A Host is seen from outside here: it has plugins or none, it serves the *)
(* protect path or not, and Apply and Close hold its mutex from begin to   *)
(* end.  PluginHost models what happens inside.  All envelopes name one    *)
(* protect path: hosts that share none cannot get in each other's way.     *)
(***************************************************************************)
CONSTANTS
    Caller,  \* the app's threads
    Host,    \* Host values: a forgotten one stands for a new one again
    NoCaller, NoHost

ASSUME ServerAssumption == NoCaller \notin Caller /\ NoHost \notin Host

VARIABLES
    current,  \* pluginHosts[s]
    host,     \* each Host
    socket,   \* the host whose listener the file at the protect path belongs to
    service,  \* whether upstream's service runs
    caller,   \* each thread's call
    report    \* the goroutine of a host that runs pluginFailed

vars == <<current, host, socket, service, caller, report>>

CallAt == {"idle", "host", "apply", "applying", "service", "unmap", "close",
           "closing", "stop"}

\* What a call does once closePlugins returns: start the service without plugins,
\* return an error, stop the service (CloseService) or just go on (Close).
Purpose == {"start", "fail", "closeService", "close"}

TypeOK ==
    /\ current \in Host \union {NoHost}
    /\ host \in [Host -> [lock: Caller \union {NoCaller}, closed: BOOLEAN,
                          running: BOOLEAN, serving: BOOLEAN]]
    /\ socket \in Host \union {NoHost}
    /\ service \in {"stopped", "running"}
    /\ caller \in [Caller -> [at: CallAt, for: Purpose, host: Host \union {NoHost}]]
    /\ report \in [Host -> {"none", "raised", "checked"}]
    /\ \A c \in Caller : caller[c].at \in {"apply", "applying", "close", "closing"}
           => caller[c].host \in Host          \* no call uses a nil host

NewHost == [lock |-> NoCaller, closed |-> FALSE, running |-> FALSE, serving |-> FALSE]
NoCall == [at |-> "idle", for |-> "start", host |-> NoHost]

Init ==
    /\ current = NoHost
    /\ host = [h \in Host |-> NewHost]
    /\ socket = NoHost
    /\ service = "stopped"
    /\ caller = [c \in Caller |-> NoCall]
    /\ report = [h \in Host |-> "none"]

At(c, place) == caller[c].at = place

Goto(c, place) == caller' = [caller EXCEPT ![c].at = place]

Return(c) == caller' = [caller EXCEPT ![c] = NoCall]

\* closePlugins, then what the call is there for.
ClosePlugins(c, purpose) ==
    caller' = [caller EXCEPT ![c] = [NoCall EXCEPT !.at = "unmap", !.for = purpose]]

Unreferenced(h) ==
    /\ h # current /\ report[h] = "none"
    /\ \A c \in Caller : caller[c].host # h

\* Listener.Close unlinks the path, whoever's socket is there by now.
Unlink(serving) == IF serving THEN NoHost ELSE socket

-----------------------------------------------------------------------------
(* StartOrReloadServiceWithPlugins.                                        *)

Start(c) ==
    /\ At(c, "idle")
    /\ \/ Goto(c, "host")
       \/ ClosePlugins(c, "start")      \* an envelope without plugins
    /\ UNCHANGED <<current, host, socket, service, report>>

\* pluginHost, under pluginHostAccess.
GetHost(c) ==
    /\ At(c, "host")
    /\ IF current # NoHost
       THEN UNCHANGED <<current, host>>
       ELSE \E h \in Host : /\ Unreferenced(h)
                            /\ current' = h
                            /\ host' = [host EXCEPT ![h] = NewHost]
    /\ caller' = [caller EXCEPT ![c].at = "apply", ![c].host = current']
    /\ UNCHANGED <<socket, service, report>>

\* Host.Apply: a closed host refuses.
ApplyClosed(c) ==
    /\ At(c, "apply")
    /\ host[caller[c].host].lock = NoCaller
    /\ host[caller[c].host].closed
    /\ ClosePlugins(c, "fail")
    /\ UNCHANGED <<current, host, socket, service, report>>

\* Mutant: Apply does not look at closed.
ApplyBeginUnchecked(c) ==
    /\ At(c, "apply")
    /\ host[caller[c].host].lock = NoCaller
    /\ host' = [host EXCEPT ![caller[c].host].lock = c]
    /\ Goto(c, "applying")
    /\ UNCHANGED <<current, socket, service, report>>

ApplyBegin(c) ==
    /\ At(c, "apply")
    /\ host[caller[c].host].lock = NoCaller
    /\ ~host[caller[c].host].closed
    /\ host' = [host EXCEPT ![caller[c].host].lock = c]
    /\ Goto(c, "applying")
    /\ UNCHANGED <<current, socket, service, report>>

\* A host that does not serve yet replaces whatever socket is at the path.
ApplyDone(c) ==
    LET h == caller[c].host
    IN  /\ At(c, "applying")
        /\ host' = [host EXCEPT ![h] = [@ EXCEPT !.lock = NoCaller, !.running = TRUE,
                                                 !.serving = TRUE]]
        /\ socket' = IF host[h].serving THEN socket ELSE h
        /\ Goto(c, "service")
        /\ UNCHANGED <<current, service, report>>

\* stopAll, after the socket was replaced or before.
ApplyError(c) ==
    LET h == caller[c].host
    IN  /\ At(c, "applying")
        /\ host' = [host EXCEPT ![h] = NewHost]
        /\ \E bound \in BOOLEAN : socket' = Unlink(bound \/ host[h].serving)
        /\ ClosePlugins(c, "fail")
        /\ UNCHANGED <<current, service, report>>

\* Upstream's StartOrReloadService; after an error the service may be gone.
ServiceStart(c) ==
    /\ At(c, "service")
    /\ \/ service' = "running" /\ Return(c)
       \/ service' \in {service, "stopped"} /\ ClosePlugins(c, "fail")
    /\ UNCHANGED <<current, host, socket, report>>

-----------------------------------------------------------------------------
(* closePlugins, and the calls it comes from.                              *)

CloseService(c) ==
    /\ At(c, "idle")
    /\ ClosePlugins(c, "closeService")
    /\ UNCHANGED <<current, host, socket, service, report>>

Close(c) ==
    /\ At(c, "idle")
    /\ ClosePlugins(c, "close")
    /\ UNCHANGED <<current, host, socket, service, report>>

\* Where the call goes on after closePlugins.
After(purpose) ==
    CASE purpose = "start" -> "service"
      [] purpose = "closeService" -> "stop"
      [] OTHER -> "idle"

Resume(c) ==
    caller' = [caller EXCEPT ![c] = [NoCall EXCEPT !.at = After(caller[c].for)]]

\* Under pluginHostAccess the entry is deleted; the host is closed after that.
Unmap(c) ==
    /\ At(c, "unmap")
    /\ current' = NoHost
    /\ IF current = NoHost
       THEN Resume(c)
       ELSE caller' = [caller EXCEPT ![c].at = "close", ![c].host = current]
    /\ UNCHANGED <<host, socket, service, report>>

\* Host.Close: safe to call twice.
HostClose(c) ==
    LET h == caller[c].host
    IN  /\ At(c, "close")
        /\ host[h].lock = NoCaller
        /\ IF host[h].closed
           THEN Resume(c) /\ UNCHANGED host
           ELSE /\ host' = [host EXCEPT ![h] = [@ EXCEPT !.lock = c, !.closed = TRUE]]
                /\ Goto(c, "closing")
        /\ UNCHANGED <<current, socket, service, report>>

\* Mutant: the mutex is not unlocked.
HostClosedLocked(c) ==
    LET h == caller[c].host
    IN  /\ At(c, "closing")
        /\ host' = [host EXCEPT ![h] = [NewHost EXCEPT !.closed = TRUE, !.lock = c]]
        /\ socket' = Unlink(host[h].serving)
        /\ Resume(c)
        /\ UNCHANGED <<current, service, report>>

HostClosed(c) ==
    LET h == caller[c].host
    IN  /\ At(c, "closing")
        /\ host' = [host EXCEPT ![h] = [NewHost EXCEPT !.closed = TRUE]]
        /\ socket' = Unlink(host[h].serving)
        /\ Resume(c)
        /\ UNCHANGED <<current, service, report>>

\* The rest of upstream's CloseService.
ServiceStopped(c) ==
    /\ At(c, "stop")
    /\ service' = "stopped"
    /\ Return(c)
    /\ UNCHANGED <<current, host, socket, report>>

-----------------------------------------------------------------------------
(* pluginFailed.                                                           *)

\* A plugin of the host cannot be kept running: onFatal starts a goroutine, while
\* the host runs plugins or while Apply or Close has yet to return.
PluginFails(h) ==
    /\ host[h].running \/ host[h].lock # NoCaller
    /\ report[h] = "none"
    /\ report' = [report EXCEPT ![h] = "raised"]
    /\ UNCHANGED <<current, host, socket, service, caller>>

\* Under pluginHostAccess: is the host still the current one?
ReportCheck(h) ==
    /\ report[h] = "raised"
    /\ report' = [report EXCEPT ![h] = IF current = h THEN "checked" ELSE "none"]
    /\ UNCHANGED <<current, host, socket, service, caller>>

\* handler.ServiceStop, after the unlock: the app answers with calls of its own.
ServiceStop(h) ==
    /\ report[h] = "checked"
    /\ report' = [report EXCEPT ![h] = "none"]
    /\ UNCHANGED <<current, host, socket, service, caller>>

-----------------------------------------------------------------------------

CallStep(c) ==
    \/ GetHost(c) \/ ApplyClosed(c) \/ ApplyBegin(c) \/ ApplyDone(c) \/ ApplyError(c)
    \/ ServiceStart(c) \/ Unmap(c) \/ HostClose(c) \/ HostClosed(c) \/ ServiceStopped(c)

Next ==
    \/ \E c \in Caller : Start(c) \/ CloseService(c) \/ Close(c) \/ CallStep(c)
    \/ \E h \in Host : PluginFails(h) \/ ReportCheck(h) \/ ServiceStop(h)

\* Threads run on; a mutex that is free again and again is won in the end
\* (sync.Mutex hands itself over to a waiter that starves).
Fairness ==
    /\ \A c \in Caller : SF_vars(CallStep(c))
    /\ \A h \in Host : WF_vars(ReportCheck(h) \/ ServiceStop(h))

Spec == Init /\ [][Next]_vars

LiveSpec == Spec /\ Fairness

-----------------------------------------------------------------------------
(* Properties.                                                             *)

Quiet == \A c \in Caller : At(c, "idle")

(***************************************************************************)
(* Plugins run only in the host that is in the map, or in one some call    *)
(* still holds: a host that another thread removed while Apply waited for  *)
(* its mutex is closed or refuses, never left running with nobody to stop  *)
(* it.                                                                     *)
(***************************************************************************)
NoOrphanPlugins ==
    \A h \in Host :
        (h # current /\ \A c \in Caller : caller[c].host # h)
            => ~host[h].running /\ ~host[h].serving

(***************************************************************************)
(* prepare_sources.py:79, "Plugins belong to the service: stop them        *)
(* wherever upstream stops it": between calls, no plugin runs beside a     *)
(* stopped service.                                                        *)
(***************************************************************************)
PluginsBelongToService ==
    Quiet /\ service = "stopped" => \A h \in Host : ~host[h].running

(***************************************************************************)
(* command_server_plugins.go:72, "A host that was already replaced or      *)
(* closed is ignored": ServiceStop is called only for the current host.    *)
(***************************************************************************)
StaleReportIgnored ==
    [][\A h \in Host :
        report[h] = "checked" /\ report'[h] = "none" => current = h]_vars

(***************************************************************************)
(* Every call returns: the two locks are never held across each other, and *)
(* a closed host releases its mutex.                                       *)
(***************************************************************************)
CallsReturn == \A c \in Caller : ~At(c, "idle") ~> At(c, "idle")
=============================================================================
