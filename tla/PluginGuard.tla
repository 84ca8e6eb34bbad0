----------------------------- MODULE PluginGuard -----------------------------
(***************************************************************************)
(* The supervisor of one plugin process: the guard type of                 *)
(* native/pluginpool/host.go and its run goroutine, together with what the *)
(* kernel does to the process it forks.                                    *)
(*                                                                         *)
(* Three actors meet here: the run goroutine (start, wait, restart with a  *)
(* growing delay, or fail), the caller that stops the guard (requestStop,  *)
(* waitStopped) and the kill timer that requestStop arms.  They share      *)
(* g.process, g.stopping and g.kill under g.access, and the channels stop  *)
(* and done.                                                               *)
(*                                                                         *)
(* A step of a goroutine is what it does between two points where another  *)
(* actor can see or change something: a critical section of g.access, a    *)
(* system call, a channel operation.                                       *)
(***************************************************************************)
EXTENDS Integers

CONSTANTS
    Guard,       \* guard values: a finished one is collected and used again
    MaxDelay,    \* maxRestartDelay, in units of minRestartDelay
    Lifetime,    \* how long a run can last: see Uptime
    PluginsFork  \* whether plugins spawn processes into their group

(***************************************************************************)
(* How long a run lasted, against fatalWindow and stableWindow: less than  *)
(* 1 s, less than 30 s, or longer.                                         *)
(***************************************************************************)
Uptime == {"short", "long", "stable"}

ASSUME GuardAssumption ==
    /\ MaxDelay \in Nat \ {0}
    /\ Lifetime \subseteq Uptime
    /\ PluginsFork \in BOOLEAN

VARIABLES
    run,       \* the run goroutine: its position and its local variables
    guard,     \* the shared fields of the guard struct
    children,  \* Host.children: the guards whose PID is in the map
    reported,  \* the guards whose failure went to onFatal
    proc       \* the kernel's view of the guard's current process

guardVars == <<run, guard, children, reported, proc>>

\* Positions of run: each names the statement the goroutine is about to do.
Position == {"idle", "start", "attach", "mark", "wait", "drain", "detach",
             "check", "fail", "report", "backoff", "closing", "done"}

\* The goroutine's locals, the fields of guard, and a process.
RunType == [at: Position, first: BOOLEAN, delay: 1..MaxDelay, raced: BOOLEAN,
            lived: Uptime]
GuardType == [started: {"no", "ok", "error"}, process: BOOLEAN, stopping: BOOLEAN,
              kill: {"none", "armed", "spent"}, released: {"no", "stopped", "gaveUp"}]
ProcType == [life: {"none", "alive", "zombie"}, signal: {"none", "term", "kill"},
             kin: BOOLEAN, ran: Uptime]

GuardTypeOK ==
    /\ run \in [Guard -> RunType]
    /\ guard \in [Guard -> GuardType]
    /\ children \subseteq Guard
    /\ reported \subseteq Guard
    /\ proc \in [Guard -> ProcType]

NewRun   == [at |-> "idle", first |-> TRUE, delay |-> 1, raced |-> FALSE,
             lived |-> "short"]
NewGuard == [started |-> "no", process |-> FALSE, stopping |-> FALSE,
             kill |-> "none", released |-> "no"]
NoProc   == [life |-> "none", signal |-> "none", kin |-> FALSE, ran |-> "short"]

GuardInit ==
    /\ run = [g \in Guard |-> NewRun]
    /\ guard = [g \in Guard |-> NewGuard]
    /\ children = {}
    /\ reported = {}
    /\ proc = [g \in Guard |-> NoProc]

At(g, place) == run[g].at = place

Done(g) == At(g, "done")           \* g.done is closed

Goto(g, place) == run' = [run EXCEPT ![g].at = place]

\* A signal is never weakened, and reaches only a process that runs.
Signalled(p, signal) ==
    IF p.life = "alive" /\ p.signal # "kill" THEN [p EXCEPT !.signal = signal] ELSE p

-----------------------------------------------------------------------------
(* The run goroutine.                                                      *)

\* go guard.run(started)
Launch(g) ==
    /\ At(g, "idle")
    /\ Goto(g, "start")
    /\ UNCHANGED <<guard, children, reported, proc>>

\* cmd.Start() succeeds: the process is forked in a process group of its own.
CmdStart(g) ==
    /\ At(g, "start")
    /\ Goto(g, "attach")
    /\ guard' = [guard EXCEPT ![g].started = "ok"]
    /\ proc' = [proc EXCEPT ![g] = [NoProc EXCEPT !.life = "alive"]]
    /\ UNCHANGED <<children, reported>>

\* Mutant: a failed restart ends the goroutine like a failed first start.
CmdStartErrorSilent(g) ==
    /\ At(g, "start")
    /\ Goto(g, "closing")
    /\ guard' = [guard EXCEPT ![g].started = IF run[g].first THEN "error" ELSE @]
    /\ UNCHANGED <<children, reported, proc>>

\* Mutant: a plugin that cannot be forked is tried again after the delay.
CmdStartErrorRetries(g) ==
    /\ At(g, "start")
    /\ Goto(g, "backoff")
    /\ UNCHANGED <<guard, children, reported, proc>>

\* cmd.Start() fails: the first time the caller of start learns it, later it is
\* a failure of the plugin.
CmdStartError(g) ==
    /\ At(g, "start")
    /\ Goto(g, IF run[g].first THEN "closing" ELSE "fail")
    /\ guard' = [guard EXCEPT ![g].started = IF run[g].first THEN "error" ELSE @]
    /\ UNCHANGED <<children, reported, proc>>

\* Mutant: stopping is not sampled.
AttachUnsampled(g) ==
    /\ At(g, "attach")
    /\ Goto(g, "mark")
    /\ guard' = [guard EXCEPT ![g].process = TRUE]
    /\ UNCHANGED <<children, reported, proc>>

\* attach: the critical section, which also samples stopping.
Attach(g) ==
    /\ At(g, "attach")
    /\ run' = [run EXCEPT ![g] = [@ EXCEPT !.at = "mark", !.raced = guard[g].stopping]]
    /\ guard' = [guard EXCEPT ![g].process = TRUE]
    /\ UNCHANGED <<children, reported, proc>>

\* attach: after the unlock, the PID is listed and a process that raced the stop
\* request is killed.
AttachTail(g) ==
    /\ At(g, "mark")
    /\ run' = [run EXCEPT ![g] = [@ EXCEPT !.at = "wait", !.raced = FALSE]]
    /\ children' = children \union {g}
    /\ proc' = IF run[g].raced THEN [proc EXCEPT ![g] = Signalled(@, "kill")] ELSE proc
    /\ UNCHANGED <<guard, reported>>

\* cmd.Wait reaps the leader ...
Reap(g) ==
    /\ At(g, "wait")
    /\ proc[g].life = "zombie"
    /\ run' = [run EXCEPT ![g] = [@ EXCEPT !.at = "drain", !.lived = proc[g].ran]]
    /\ proc' = [proc EXCEPT ![g] = [NoProc EXCEPT !.kin = proc[g].kin]]
    /\ UNCHANGED <<guard, children, reported>>

\* Up to pipeGrace passes while descendants hold the output pipe open, which can
\* carry the measured time over the next threshold.
Measured(ran, kin) ==
    {ran} \union IF ~kin THEN {} ELSE {IF ran = "short" THEN "long" ELSE "stable"}

\* ... and waits for the output; lived is measured after that.
Drain(g) ==
    /\ At(g, "drain")
    /\ \E lived \in Measured(run[g].lived, proc[g].kin) :
           run' = [run EXCEPT ![g] = [@ EXCEPT !.at = "detach", !.lived = lived]]
    /\ UNCHANGED <<guard, children, reported, proc>>

\* Mutant: g.process stays set.
DetachKeepsProcess(g) ==
    /\ At(g, "detach")
    /\ Goto(g, "check")
    /\ children' = children \ {g}
    /\ UNCHANGED <<guard, reported, proc>>

Detach(g) ==
    /\ At(g, "detach")
    /\ Goto(g, "check")
    /\ children' = children \ {g}
    /\ guard' = [guard EXCEPT ![g].process = FALSE]
    /\ UNCHANGED <<reported, proc>>

\* After a run: return if stopping, fail if the first run was too short, else
\* wait for the restart delay.
AfterRun(g) ==
    /\ At(g, "check")
    /\ LET next == IF guard[g].stopping THEN "closing"
                   ELSE IF run[g].first /\ run[g].lived = "short" THEN "fail"
                   ELSE "backoff"
       IN  run' = [run EXCEPT ![g] = [@ EXCEPT
               !.at = next,
               !.delay = IF next = "backoff" /\ run[g].lived = "stable" THEN 1
                         ELSE run[g].delay,
               !.lived = "short"]]
    /\ UNCHANGED <<guard, children, reported, proc>>

\* Mutant: the test of stopping is inverted.
FailCheckInverted(g) ==
    /\ At(g, "fail")
    /\ Goto(g, IF guard[g].stopping THEN "report" ELSE "closing")
    /\ UNCHANGED <<guard, children, reported, proc>>

\* fail: nothing is reported of a guard that is being stopped.
FailCheck(g) ==
    /\ At(g, "fail")
    /\ Goto(g, IF guard[g].stopping THEN "closing" ELSE "report")
    /\ UNCHANGED <<guard, children, reported, proc>>

\* Host.fatal: onFatal gets a goroutine of its own.
Report(g) ==
    /\ At(g, "report")
    /\ Goto(g, "closing")
    /\ reported' = reported \union {g}
    /\ UNCHANGED <<guard, children, proc>>

\* The select of the restart delay: with both channels ready Go takes either.
BackoffStop(g) ==
    /\ At(g, "backoff")
    /\ guard[g].stopping
    /\ Goto(g, "closing")
    /\ UNCHANGED <<guard, children, reported, proc>>

BackoffTimer(g) ==
    /\ At(g, "backoff")
    /\ run' = [run EXCEPT ![g] = [@ EXCEPT
           !.at = "start", !.first = FALSE,
           !.delay = IF 2 * run[g].delay < MaxDelay THEN 2 * run[g].delay ELSE MaxDelay]]
    /\ UNCHANGED <<guard, children, reported, proc>>

\* defer close(g.done)
CloseDone(g) ==
    /\ At(g, "closing")
    /\ Goto(g, "done")
    /\ UNCHANGED <<guard, children, reported, proc>>

RunStep(g) ==
    \/ CmdStart(g) \/ CmdStartError(g) \/ Attach(g) \/ AttachTail(g) \/ Reap(g)
    \/ Drain(g) \/ Detach(g) \/ AfterRun(g) \/ FailCheck(g) \/ Report(g)
    \/ BackoffStop(g) \/ BackoffTimer(g) \/ CloseDone(g)

-----------------------------------------------------------------------------
(* The caller that stops the guard, and the kill timer.                    *)

\* Mutant: SIGTERM without the kill timer.
RequestStopNoTimer(g) ==
    /\ guard[g].started = "ok"
    /\ ~guard[g].stopping
    /\ guard' = [guard EXCEPT ![g].stopping = TRUE]
    /\ proc' = IF guard[g].process THEN [proc EXCEPT ![g] = Signalled(@, "term")]
                                   ELSE proc
    /\ UNCHANGED <<run, children, reported>>

RequestStop(g) ==
    /\ guard[g].started = "ok"
    /\ ~guard[g].stopping
    /\ guard' = [guard EXCEPT ![g] = [@ EXCEPT
           !.stopping = TRUE, !.kill = IF guard[g].process THEN "armed" ELSE "none"]]
    /\ proc' = IF guard[g].process THEN [proc EXCEPT ![g] = Signalled(@, "term")]
                                   ELSE proc
    /\ UNCHANGED <<run, children, reported>>

\* stopGrace after the request: killGroup, unless the process is detached.
KillGroup(g) ==
    /\ guard[g].kill = "armed"
    /\ guard' = [guard EXCEPT ![g].kill = "spent"]
    /\ proc' = IF guard[g].process
               THEN [proc EXCEPT ![g] = [Signalled(@, "kill") EXCEPT !.kin = FALSE]]
               ELSE proc
    /\ UNCHANGED <<run, children, reported>>

\* waitStopped returns: done was closed, or its timer fired.  The timer is set
\* after the kill timer and to a longer time (2.5 s against 1 s), so it never
\* fires while the kill timer is armed.
WaitStopped(g) ==
    /\ guard[g].stopping
    /\ guard[g].released = "no"
    /\ Done(g) \/ guard[g].kill # "armed"
    /\ guard' = [guard EXCEPT ![g] = [@ EXCEPT
           !.kill = IF guard[g].kill = "armed" THEN "spent" ELSE guard[g].kill,
           !.released = IF Done(g) THEN "stopped" ELSE "gaveUp"]]
    /\ UNCHANGED <<run, children, reported, proc>>

\* The caller of start saw the error, or waitStopped returned and run is over:
\* nothing refers to the guard, and the value stands for a new one.
Collect(g) ==
    /\ Done(g)
    /\ guard[g].started = "error" \/ guard[g].released # "no"
    /\ run' = [run EXCEPT ![g] = NewRun]
    /\ guard' = [guard EXCEPT ![g] = NewGuard]
    /\ proc' = [proc EXCEPT ![g] = NoProc]
    /\ reported' = reported \ {g}
    /\ UNCHANGED children

-----------------------------------------------------------------------------
(* The kernel and the plugin.                                              *)

\* The plugin exits by itself, obeys SIGTERM or dies of SIGKILL.
ProcExit(g) ==
    /\ proc[g].life = "alive"
    /\ \E ran \in Lifetime :
           proc' = [proc EXCEPT ![g] = [@ EXCEPT !.life = "zombie", !.ran = ran]]
    /\ UNCHANGED <<run, guard, children, reported>>

\* A process the plugin spawned joins its group and inherits its output pipe.
Spawn(g) ==
    /\ PluginsFork
    /\ proc[g].life = "alive"
    /\ proc' = [proc EXCEPT ![g].kin = TRUE]
    /\ UNCHANGED <<run, guard, children, reported>>

KinExit(g) ==
    /\ proc[g].kin
    /\ proc' = [proc EXCEPT ![g].kin = FALSE]
    /\ UNCHANGED <<run, guard, children, reported>>

KernelStep(g) == ProcExit(g) \/ Spawn(g) \/ KinExit(g)

-----------------------------------------------------------------------------
(* One guard on its own: its caller may stop it at any moment.  The host's *)
(* calls are one such caller (HostImplementsGuards).                       *)

GuardNext ==
    \E g \in Guard :
        \/ Launch(g) \/ RunStep(g) \/ RequestStop(g) \/ KillGroup(g)
        \/ WaitStopped(g) \/ Collect(g) \/ KernelStep(g)

\* The only exit a plugin cannot refuse.
KilledExits(g) == proc[g].signal = "kill" /\ ProcExit(g)

GuardSpec == GuardInit /\ [][GuardNext]_guardVars

-----------------------------------------------------------------------------
(* Properties.                                                             *)

(***************************************************************************)
(* The race requestStop and attach settle between them: whichever takes    *)
(* g.access first, a live process of a stopping guard has been sent        *)
(* SIGKILL, or got SIGTERM and still has the kill timer against it, or is  *)
(* about to be killed by attach.  So a stop that gave up waiting leaves no *)
(* plugin that nobody kills.                                               *)
(***************************************************************************)
StopEscalates ==
    \A g \in Guard :
        guard[g].stopping /\ proc[g].life = "alive"
            => \/ proc[g].signal = "kill"
               \/ proc[g].signal = "term" /\ guard[g].kill = "armed"
               \/ At(g, "attach")
               \/ At(g, "mark") /\ run[g].raced

(***************************************************************************)
(* A guard whose goroutine ended without being told to stop was reported   *)
(* to onFatal: the service never runs on without a plugin it believes it   *)
(* has.                                                                    *)
(***************************************************************************)
FailureReported ==
    \A g \in Guard :
        Done(g) /\ guard[g].started = "ok" /\ ~guard[g].stopping => g \in reported

(***************************************************************************)
(* run forks again, or ends, only when the process it forked before is     *)
(* dead and reaped, and detached: two runs of a plugin never overlap on    *)
(* its port and files, and a clean stop leaves no zombie.                  *)
(***************************************************************************)
RunsDoNotOverlap ==
    \A g \in Guard :
        run[g].at \in {"start", "fail", "report", "backoff", "closing", "done"}
            => proc[g].life = "none" /\ ~guard[g].process /\ g \notin children

(***************************************************************************)
(* A stop ends the plugin, whatever it does with SIGTERM and wherever run  *)
(* was when the stop was requested.                                        *)
(***************************************************************************)
StopCompletes ==
    \A g \in Guard : guard[g].stopping ~> (Done(g) \/ At(g, "idle"))

(***************************************************************************)
(* A plugin that died is forked again, reported as failed, or being        *)
(* stopped: run never gives up on it silently.                             *)
(***************************************************************************)
DeathIsHandled ==
    \A g \in Guard :
        proc[g].life = "zombie" /\ ~guard[g].stopping
            ~> \/ proc[g].life = "alive" \/ g \in reported
               \/ guard[g].stopping \/ At(g, "idle")
=============================================================================
