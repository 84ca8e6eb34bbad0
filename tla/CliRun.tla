------------------------------- MODULE CliRun --------------------------------
(***************************************************************************)
(* The CLI `run` command as scripts/prepare_sources.py patches it, with    *)
(* the two services it starts: the system DNS helper                       *)
(* (native/systemdns/client_android.go) and the plugins                    *)
(* (native/pluginpool/service_android.go).                                 *)
(*                                                                         *)
(* A service that fails does what an external SIGTERM would do: it records *)
(* the failure, signals its own process and arms a timer for the case that *)
(* the graceful way out stalls.  The goroutines that do so run beside the  *)
(* run loop, which may still be starting services, may be reloading or may *)
(* be on its way out already; and what a signal does depends on whether    *)
(* the loop's channel is registered.  The loop itself is upstream's: only  *)
(* what the patch relies on is modelled.                                   *)
(***************************************************************************)
EXTENDS Naturals, Sequences

CONSTANTS
    Report,      \* the goroutines that may report a failure
    ServiceOf,   \* the service each belongs to
    Room,        \* signals osSignals holds before the runtime drops them
    MaxOutside   \* bound: signals from outside the process

Service == {"dns", "plugins"}
Signal == {"TERM", "HUP"}     \* Interrupt is handled as SIGTERM is

ASSUME CliAssumption ==
    /\ ServiceOf \in [Report -> Service]
    /\ Room \in Nat \ {0}
    /\ MaxOutside \in Nat

VARIABLES
    main,     \* the statement the run command is about to execute
    err,      \* run returns an error
    pending,  \* osSignals
    report,   \* what each failure report has done so far
    failed,   \* the services whose flag (channelFailed, failed) is set
    timers,   \* the services that armed the ten-second timer
    outside,  \* signals sent from outside so far
    status    \* how the process ended

vars == <<main, err, pending, report, failed, timers, outside, status>>

Place == {"notify", "dns", "plugins", "create", "loop", "reload", "close",
          "closePlugins", "closeDns", "unnotify", "exitCode"}

TypeOK ==
    /\ main \in Place
    /\ err \in BOOLEAN
    /\ pending \in Seq(Signal) /\ Len(pending) <= Room
    /\ report \in [Report -> {"idle", "noticed", "recorded", "signalled", "over"}]
    /\ failed \subseteq Service
    /\ timers \subseteq Service
    /\ outside \in 0..MaxOutside
    /\ status \in {"running", "0", "1", "70", "killed"}

Init ==
    /\ main = "notify"
    /\ err = FALSE
    /\ pending = <<>>
    /\ report = [r \in Report |-> "idle"]
    /\ failed = {}
    /\ timers = {}
    /\ outside = 0
    /\ status = "running"

Running == status = "running"

\* Mutant: the handler is registered when the services are up.
RegisteredLate == main \notin {"notify", "dns", "plugins", "exitCode"}

\* signal.Notify was called and the deferred signal.Stop was not.
Registered == main \notin {"notify", "exitCode"}

\* Children of the service may run: the defer statement that starts it was
\* reached, and its deferred stop has not returned.
Up(service) ==
    main \notin {"notify", "unnotify", "exitCode"}
              \union (IF service = "plugins" THEN {"dns", "closeDns"} ELSE {})

-----------------------------------------------------------------------------
(* The run command.                                                        *)

Step(from, to) ==
    /\ Running
    /\ main = from
    /\ main' = to
    /\ UNCHANGED <<report, failed, timers, outside>>

Continue(from, to) == Step(from, to) /\ UNCHANGED <<err, pending, status>>

Exit(code) == status' = code /\ UNCHANGED <<err, pending>>

Notify == Continue("notify", "dns")

\* StartService: an error ends the process at once, and no deferred call runs.
StartService(service) ==
    \/ Continue(service, IF service = "dns" THEN "plugins" ELSE "create")
    \/ Step(service, service) /\ Exit("70")

\* Upstream starts an instance; when it cannot, run returns the error.
Create ==
    \/ Continue("create", "loop")
    \/ /\ Step("create", "closePlugins")
       /\ err' = TRUE
       /\ UNCHANGED <<pending, status>>

\* A SIGHUP whose configuration check fails is ignored.
Receive ==
    /\ pending # <<>>
    /\ \E to \in IF Head(pending) = "HUP" THEN {"reload", "loop"} ELSE {"close"} :
           Step("loop", to)
    /\ pending' = Tail(pending)
    /\ UNCHANGED <<err, status>>

\* Upstream closes the instance, to start another or to return.
CloseInstance == Continue("reload", "create") \/ Continue("close", "closePlugins")

\* The deferred calls, last one first.
Deferred ==
    \/ Continue("closePlugins", "closeDns")
    \/ Continue("closeDns", "unnotify")
    \/ Continue("unnotify", "exitCode")

\* Mutant: only the helper's code is asked for.
ReturnDnsOnly ==
    /\ Step("exitCode", "exitCode")
    /\ Exit(IF err THEN "1" ELSE IF "dns" \in failed THEN "70" ELSE "0")

\* An error of run makes upstream exit; otherwise AndroidBoxCLI_v1 asks both
\* services for their code.
Return ==
    /\ Step("exitCode", "exitCode")
    /\ Exit(IF err THEN "1" ELSE IF failed # {} THEN "70" ELSE "0")

-----------------------------------------------------------------------------
(* Signals.  The runtime never blocks on a channel that is full; without a *)
(* registered channel SIGTERM and SIGHUP end the process.                  *)

Deliver(signal) ==
    IF Registered
    THEN /\ pending' = IF Len(pending) < Room THEN Append(pending, signal) ELSE pending
         /\ status' = status
    ELSE pending' = pending /\ status' = "killed"

Outside(signal) ==
    /\ Running
    /\ outside < MaxOutside
    /\ outside' = outside + 1
    /\ Deliver(signal)
    /\ UNCHANGED <<main, err, report, failed, timers>>

-----------------------------------------------------------------------------
(* A failure report: the reader of the helper's channel, or shutdown on    *)
(* the goroutine Host.fatal gave it.                                       *)

\* The reader met an error and stopping is not closed; a guard failed and is
\* not being stopped.
Notice(r) ==
    /\ Running
    /\ report[r] = "idle"
    /\ Up(ServiceOf[r])
    /\ ServiceOf[r] = "dns" => main # "dns"
    /\ report' = [report EXCEPT ![r] = "noticed"]
    /\ UNCHANGED <<main, err, pending, failed, timers, outside, status>>

\* channelFailed.Store(true), failed.Swap(true); a second plugin that fails
\* leaves the rest to the first.
Record(r) ==
    /\ Running
    /\ report[r] = "noticed"
    /\ report' = [report EXCEPT ![r] = IF ServiceOf[r] \in failed THEN "over" ELSE "recorded"]
    /\ failed' = failed \union {ServiceOf[r]}
    /\ UNCHANGED <<main, err, pending, timers, outside, status>>

\* syscall.Kill(os.Getpid(), SIGTERM)
Kill(r) ==
    /\ Running
    /\ report[r] = "recorded"
    /\ report' = [report EXCEPT ![r] = "signalled"]
    /\ Deliver("TERM")
    /\ UNCHANGED <<main, err, failed, timers, outside>>

\* Mutant: no timer.
ArmNothing(r) ==
    /\ Running
    /\ report[r] = "signalled"
    /\ report' = [report EXCEPT ![r] = "over"]
    /\ UNCHANGED <<main, err, pending, failed, timers, outside, status>>

Arm(r) ==
    /\ Running
    /\ report[r] = "signalled"
    /\ report' = [report EXCEPT ![r] = "over"]
    /\ timers' = timers \union {ServiceOf[r]}
    /\ UNCHANGED <<main, err, pending, failed, outside, status>>

\* os.Exit(70) after ten seconds
TimerFires ==
    /\ Running
    /\ timers # {}
    /\ status' = "70"
    /\ UNCHANGED <<main, err, pending, report, failed, timers, outside>>

-----------------------------------------------------------------------------

ReportStep(r) == Record(r) \/ Kill(r) \/ Arm(r)

Next ==
    \/ Notify \/ Create \/ Receive \/ CloseInstance \/ Deferred \/ Return
    \/ \E service \in Service : StartService(service)
    \/ \E signal \in Signal : Outside(signal)
    \/ \E r \in Report : Notice(r) \/ ReportStep(r)
    \/ TimerFires

Spec == Init /\ [][Next]_vars

(***************************************************************************)
(* Goroutines are scheduled and the timer fires.  Starting and closing     *)
(* services and instances may stall: nothing is assumed of them.           *)
(***************************************************************************)
LiveSpec ==
    /\ Spec
    /\ \A r \in Report : WF_vars(ReportStep(r))
    /\ WF_vars(TimerFires)

-----------------------------------------------------------------------------
(* Properties.                                                             *)

(***************************************************************************)
(* service_android.go:17 and client_android.go:30: a core that a failed    *)
(* plugin or helper has told to stop does not end as if it had been asked  *)
(* to, wherever the run loop was when the signal reached it.               *)
(***************************************************************************)
FailureIsNotSuccess ==
    status = "0" => \A r \in Report : report[r] \notin {"signalled", "over"}

(***************************************************************************)
(* service_android.go:33: StartService is called after the signal handler  *)
(* exists, and stopped before it is removed.  SIGTERM, its own or one from *)
(* outside, never kills the process while the helper or a plugin may run:  *)
(* the inbounds' routes and the plugins' files would stay.                 *)
(***************************************************************************)
NeverKilledWithServices ==
    status = "killed" => \A service \in Service : ~Up(service)

(***************************************************************************)
(* README.md:49 and :55: once a service has failed, the core ends,         *)
(* although its SIGTERM may be dropped for a SIGHUP that is pending, and   *)
(* starting, reloading or stopping may stall.                              *)
(***************************************************************************)
FailureEndsCore ==
    \A r \in Report : report[r] = "noticed" ~> ~Running
=============================================================================
