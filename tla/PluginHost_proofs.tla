-------------------------- MODULE PluginHost_proofs --------------------------
(***************************************************************************)
(* Theorems about PluginHost for every set of guards, plugins, files and   *)
(* envelopes: first of its supervisors alone (PluginGuard, for every       *)
(* delay), then of the host that runs them, then that the host does what   *)
(* PluginSet promises.                                                     *)
(***************************************************************************)
EXTENDS PluginHost, TLAPS

-----------------------------------------------------------------------------
(* The supervisors (PluginGuard).                                          *)

(***************************************************************************)
(* The inductive invariant.  The properties speak of a few positions of    *)
(* run; what makes them inductive is what holds of the process, of         *)
(* g.process, of children and of started at every position.                *)
(***************************************************************************)
Unforked == {"idle", "start", "check", "fail", "report", "backoff", "closing", "done"}
Attached == {"mark", "wait", "drain", "detach"}

ProcessFollowsRun(g) ==
    /\ run[g].at \in Unforked => proc[g].life = "none"
    /\ run[g].at \in {"drain", "detach"} => proc[g].life = "none"
    /\ guard[g].process <=> run[g].at \in Attached
    /\ g \in children <=> run[g].at \in Attached \ {"mark"}

StartedFollowsRun(g) ==
    /\ At(g, "idle") =>
           run[g].first /\ guard[g].started = "no" /\ guard[g].released = "no"
    /\ run[g].at \notin {"idle", "start", "closing", "done"} => guard[g].started = "ok"
    /\ At(g, "start") => guard[g].started = IF run[g].first THEN "no" ELSE "ok"
    /\ guard[g].stopping => guard[g].started = "ok"
    /\ guard[g].released # "no" => guard[g].stopping

StopEscalatesFor(g) ==
    guard[g].stopping /\ proc[g].life = "alive"
        => \/ proc[g].signal = "kill"
           \/ proc[g].signal = "term" /\ guard[g].kill = "armed"
           \/ At(g, "attach")
           \/ At(g, "mark") /\ run[g].raced

EndIsReported(g) ==
    run[g].at \in {"closing", "done"} /\ guard[g].started = "ok" /\ ~guard[g].stopping
        => g \in reported

ActorsAgree(g) ==
    /\ ProcessFollowsRun(g)
    /\ StartedFollowsRun(g)
    /\ StopEscalatesFor(g)
    /\ EndIsReported(g)

GuardInv == GuardTypeOK /\ \A g \in Guard : ActorsAgree(g)

(***************************************************************************)
(* A host without plugins (host.go NewHost) satisfies the invariant.       *)
(***************************************************************************)
LEMMA GuardInitInv == ASSUME GuardInit PROVE GuardInv
  BY GuardAssumption DEF GuardInit, GuardInv, ActorsAgree, GuardTypeOK, NewRun, NewGuard, NoProc,
         Position, Uptime, ProcessFollowsRun, StartedFollowsRun, StopEscalatesFor,
         EndIsReported, Unforked, Attached, At,
         RunType, GuardType, ProcType

(***************************************************************************)
(* Every action keeps the types: one step per action, one fact per         *)
(* variable it changes.                                                    *)
(***************************************************************************)
LEMMA GuardNextType ==
    ASSUME GuardTypeOK, [GuardNext]_guardVars PROVE GuardTypeOK'
  <1> USE DEF GuardTypeOK
  <1>1. ASSUME NEW g \in Guard, Launch(g) PROVE GuardTypeOK'
    <2>1. run' \in [Guard -> RunType]
      BY <1>1 DEF Launch, RunType, Position, Goto
    <2> QED
      BY <1>1, <2>1 DEF Launch
  <1>2. ASSUME NEW g \in Guard, CmdStart(g) PROVE GuardTypeOK'
    <2>1. run' \in [Guard -> RunType]
      BY <1>2 DEF CmdStart, RunType, Position, Goto
    <2>2. guard' \in [Guard -> GuardType]
      BY <1>2 DEF CmdStart, GuardType
    <2>3. proc' \in [Guard -> ProcType]
      BY <1>2 DEF CmdStart, ProcType, NoProc, Uptime
    <2> QED
      BY <1>2, <2>1, <2>2, <2>3 DEF CmdStart
  <1>3. ASSUME NEW g \in Guard, CmdStartError(g) PROVE GuardTypeOK'
    <2>1. run' \in [Guard -> RunType]
      BY <1>3 DEF CmdStartError, RunType, Position, Goto
    <2>2. guard' \in [Guard -> GuardType]
      BY <1>3 DEF CmdStartError, GuardType
    <2> QED
      BY <1>3, <2>1, <2>2 DEF CmdStartError
  <1>4. ASSUME NEW g \in Guard, Attach(g) PROVE GuardTypeOK'
    <2>1. run' \in [Guard -> RunType]
      <3> DEFINE raced == guard[g].stopping
      <3>1. raced \in BOOLEAN
        BY DEF GuardType
      <3> HIDE DEF raced
      <3>2. [run[g] EXCEPT !.at = "mark", !.raced = raced] \in RunType
        BY <3>1 DEF RunType, Position
      <3> QED
        BY <1>4, <3>2 DEF Attach, raced
    <2>2. guard' \in [Guard -> GuardType]
      BY <1>4 DEF Attach, GuardType
    <2> QED
      BY <1>4, <2>1, <2>2 DEF Attach
  <1>5. ASSUME NEW g \in Guard, AttachTail(g) PROVE GuardTypeOK'
    <2>1. run' \in [Guard -> RunType]
      BY <1>5 DEF AttachTail, RunType, Position
    <2>2. proc' \in [Guard -> ProcType]
      BY <1>5 DEF AttachTail, ProcType, Signalled
    <2> QED
      BY <1>5, <2>1, <2>2 DEF AttachTail
  <1>6. ASSUME NEW g \in Guard, Reap(g) PROVE GuardTypeOK'
    <2>1. run' \in [Guard -> RunType]
      <3>1. proc[g].ran \in Uptime
        BY DEF ProcType
      <3>2. [run[g] EXCEPT !.at = "drain", !.lived = proc[g].ran] \in RunType
        BY <3>1 DEF RunType, Position
      <3> QED
        BY <1>6, <3>2 DEF Reap
    <2>2. proc' \in [Guard -> ProcType]
      BY <1>6 DEF Reap, ProcType, NoProc, Uptime
    <2> QED
      BY <1>6, <2>1, <2>2 DEF Reap
  <1>7. ASSUME NEW g \in Guard, Drain(g) PROVE GuardTypeOK'
    <2>1. run' \in [Guard -> RunType]
      <3>1. Measured(run[g].lived, proc[g].kin) \subseteq Uptime
        BY DEF RunType, Measured, Uptime
      <3>2. \A lived \in Uptime : [run[g] EXCEPT !.at = "detach", !.lived = lived] \in RunType
        BY DEF RunType, Position
      <3>3. PICK lived \in Measured(run[g].lived, proc[g].kin) :
                run' = [run EXCEPT ![g] = [run[g] EXCEPT !.at = "detach", !.lived = lived]]
        BY <1>7 DEF Drain
      <3> QED
        BY <3>1, <3>2, <3>3
    <2> QED
      BY <1>7, <2>1 DEF Drain
  <1>8. ASSUME NEW g \in Guard, Detach(g) PROVE GuardTypeOK'
    <2>1. run' \in [Guard -> RunType]
      BY <1>8 DEF Detach, RunType, Position, Goto
    <2>2. guard' \in [Guard -> GuardType]
      BY <1>8 DEF Detach, GuardType
    <2> QED
      BY <1>8, <2>1, <2>2 DEF Detach
  <1>9. ASSUME NEW g \in Guard, AfterRun(g) PROVE GuardTypeOK'
    <2>1. run' \in [Guard -> RunType]
      <3> DEFINE next == IF guard[g].stopping THEN "closing"
                        ELSE IF run[g].first /\ run[g].lived = "short" THEN "fail"
                        ELSE "backoff"
                 delay == IF next = "backoff" /\ run[g].lived = "stable" THEN 1
                          ELSE run[g].delay
      <3>1. next \in Position
        BY DEF Position
      <3>2. delay \in 1..MaxDelay
        BY GuardAssumption DEF RunType
      <3>3. run' = [run EXCEPT ![g] = [run[g] EXCEPT !.at = next, !.delay = delay,
                                                     !.lived = "short"]]
        BY <1>9 DEF AfterRun
      <3> HIDE DEF next, delay
      <3>4. [run[g] EXCEPT !.at = next, !.delay = delay, !.lived = "short"] \in RunType
        BY <3>1, <3>2 DEF RunType, Uptime
      <3> QED
        BY <3>3, <3>4
    <2> QED
      BY <1>9, <2>1 DEF AfterRun
  <1>10. ASSUME NEW g \in Guard, FailCheck(g) PROVE GuardTypeOK'
    <2>1. run' \in [Guard -> RunType]
      BY <1>10 DEF FailCheck, RunType, Position, Goto
    <2> QED
      BY <1>10, <2>1 DEF FailCheck
  <1>11. ASSUME NEW g \in Guard, Report(g) PROVE GuardTypeOK'
    <2>1. run' \in [Guard -> RunType]
      BY <1>11 DEF Report, RunType, Position, Goto
    <2> QED
      BY <1>11, <2>1 DEF Report
  <1>12. ASSUME NEW g \in Guard, BackoffStop(g) PROVE GuardTypeOK'
    <2>1. run' \in [Guard -> RunType]
      BY <1>12 DEF BackoffStop, RunType, Position, Goto
    <2> QED
      BY <1>12, <2>1 DEF BackoffStop
  <1>13. ASSUME NEW g \in Guard, BackoffTimer(g) PROVE GuardTypeOK'
    <2>1. run' \in [Guard -> RunType]
      <3> DEFINE delay == IF 2 * run[g].delay < MaxDelay THEN 2 * run[g].delay
                          ELSE MaxDelay
      <3>1. delay \in 1..MaxDelay
        BY GuardAssumption, run[g].delay \in 1..MaxDelay DEF RunType
      <3>2. run' = [run EXCEPT ![g] = [run[g] EXCEPT !.at = "start", !.first = FALSE,
                                                     !.delay = delay]]
        BY <1>13 DEF BackoffTimer
      <3> HIDE DEF delay
      <3>3. [run[g] EXCEPT !.at = "start", !.first = FALSE, !.delay = delay] \in RunType
        BY <3>1 DEF RunType, Position
      <3> QED
        BY <3>2, <3>3
    <2> QED
      BY <1>13, <2>1 DEF BackoffTimer
  <1>14. ASSUME NEW g \in Guard, CloseDone(g) PROVE GuardTypeOK'
    <2>1. run' \in [Guard -> RunType]
      BY <1>14 DEF CloseDone, RunType, Position, Goto
    <2> QED
      BY <1>14, <2>1 DEF CloseDone
  <1>15. ASSUME NEW g \in Guard, RequestStop(g) PROVE GuardTypeOK'
    <2>1. guard' \in [Guard -> GuardType]
      <3>1. \A kill \in {"armed", "none"} :
                [guard[g] EXCEPT !.stopping = TRUE, !.kill = kill] \in GuardType
        BY DEF GuardType
      <3> QED
        BY <1>15, <3>1 DEF RequestStop
    <2>2. proc' \in [Guard -> ProcType]
      BY <1>15 DEF RequestStop, ProcType, Signalled
    <2> QED
      BY <1>15, <2>1, <2>2 DEF RequestStop
  <1>16. ASSUME NEW g \in Guard, KillGroup(g) PROVE GuardTypeOK'
    <2>1. guard' \in [Guard -> GuardType]
      BY <1>16 DEF KillGroup, GuardType
    <2>2. proc' \in [Guard -> ProcType]
      <3>1. Signalled(proc[g], "kill") \in ProcType
        BY DEF Signalled, ProcType
      <3>2. [Signalled(proc[g], "kill") EXCEPT !.kin = FALSE] \in ProcType
        BY <3>1 DEF ProcType
      <3> QED
        BY <1>16, <3>2 DEF KillGroup
    <2> QED
      BY <1>16, <2>1, <2>2 DEF KillGroup
  <1>17. ASSUME NEW g \in Guard, WaitStopped(g) PROVE GuardTypeOK'
    <2>1. guard' \in [Guard -> GuardType]
      <3> DEFINE kill == IF guard[g].kill = "armed" THEN "spent" ELSE guard[g].kill
                 released == IF Done(g) THEN "stopped" ELSE "gaveUp"
      <3>1. kill \in {"none", "armed", "spent"}
        BY DEF GuardType
      <3>2. released \in {"no", "stopped", "gaveUp"}
        OBVIOUS
      <3>3. guard' = [guard EXCEPT ![g] = [guard[g] EXCEPT !.kill = kill,
                                                           !.released = released]]
        BY <1>17 DEF WaitStopped
      <3> HIDE DEF kill, released
      <3>4. [guard[g] EXCEPT !.kill = kill, !.released = released] \in GuardType
        BY <3>1, <3>2 DEF GuardType
      <3> QED
        BY <3>3, <3>4
    <2> QED
      BY <1>17, <2>1 DEF WaitStopped
  <1>18. ASSUME NEW g \in Guard, Collect(g) PROVE GuardTypeOK'
    <2>1. run' \in [Guard -> RunType]
      BY GuardAssumption, <1>18 DEF Collect, RunType, Position, NewRun, Uptime
    <2>2. guard' \in [Guard -> GuardType]
      BY <1>18 DEF Collect, GuardType, NewGuard
    <2>3. proc' \in [Guard -> ProcType]
      BY <1>18 DEF Collect, ProcType, NoProc, Uptime
    <2> QED
      BY <1>18, <2>1, <2>2, <2>3 DEF Collect
  <1>19. ASSUME NEW g \in Guard, ProcExit(g) PROVE GuardTypeOK'
    <2>1. proc' \in [Guard -> ProcType]
      <3>1. \A ran \in Lifetime : [proc[g] EXCEPT !.life = "zombie", !.ran = ran] \in ProcType
        BY GuardAssumption DEF ProcType
      <3> QED
        BY <1>19, <3>1 DEF ProcExit
    <2> QED
      BY <1>19, <2>1 DEF ProcExit
  <1>20. ASSUME NEW g \in Guard, Spawn(g) PROVE GuardTypeOK'
    <2>1. proc' \in [Guard -> ProcType]
      BY <1>20 DEF Spawn, ProcType
    <2> QED
      BY <1>20, <2>1 DEF Spawn
  <1>21. ASSUME NEW g \in Guard, KinExit(g) PROVE GuardTypeOK'
    <2>1. proc' \in [Guard -> ProcType]
      BY <1>21 DEF KinExit, ProcType
    <2> QED
      BY <1>21, <2>1 DEF KinExit
  <1>22. CASE UNCHANGED guardVars
    BY <1>22 DEF guardVars
  <1> QED
    BY <1>1, <1>2, <1>3, <1>4, <1>5, <1>6, <1>7, <1>8, <1>9, <1>10,
       <1>11, <1>12, <1>13, <1>14, <1>15, <1>16, <1>17, <1>18, <1>19, <1>20, <1>21, <1>22
       DEF GuardNext, RunStep, KernelStep

(***************************************************************************)
(* Every action keeps the actors in agreement.  Only CmdStartError needs   *)
(* a case distinction: its two outcomes leave run at different positions.  *)
(***************************************************************************)
LEMMA GuardNextAgree ==
    ASSUME GuardTypeOK, GuardTypeOK', \A h \in Guard : ActorsAgree(h), GuardNext
    PROVE \A h \in Guard : ActorsAgree(h)'
  <1> DEFINE Preserved == \A h \in Guard : ActorsAgree(h)'
  <1> USE DEF GuardTypeOK, RunType, GuardType, ProcType, Position, ActorsAgree,
              ProcessFollowsRun, StartedFollowsRun, StopEscalatesFor, EndIsReported,
              Unforked, Attached, At
  <1>1. ASSUME NEW g \in Guard, Launch(g) PROVE Preserved
    BY <1>1 DEF Launch, Goto
  <1>2. ASSUME NEW g \in Guard, CmdStart(g) PROVE Preserved
    BY <1>2 DEF CmdStart, Goto, NoProc
  <1>3. ASSUME NEW g \in Guard, CmdStartError(g) PROVE Preserved
    <2>1. CASE run[g].first
      <3>1. guard' = [guard EXCEPT ![g].started = "error"] /\ Goto(g, "closing")
        BY <1>3, <2>1 DEF CmdStartError
      <3> QED
        BY <1>3, <2>1, <3>1 DEF CmdStartError, Goto
    <2>2. CASE ~run[g].first
      <3>1. guard' = guard /\ Goto(g, "fail")
        BY <1>3, <2>2 DEF CmdStartError
      <3> QED
        BY <1>3, <2>2, <3>1 DEF CmdStartError, Goto
    <2> QED
      BY <2>1, <2>2
  <1>4. ASSUME NEW g \in Guard, Attach(g) PROVE Preserved
    BY <1>4 DEF Attach
  <1>5. ASSUME NEW g \in Guard, AttachTail(g) PROVE Preserved
    BY <1>5 DEF AttachTail, Signalled
  <1>6. ASSUME NEW g \in Guard, Reap(g) PROVE Preserved
    BY <1>6 DEF Reap, NoProc
  <1>7. ASSUME NEW g \in Guard, Drain(g) PROVE Preserved
    BY <1>7 DEF Drain
  <1>8. ASSUME NEW g \in Guard, Detach(g) PROVE Preserved
    BY <1>8 DEF Detach, Goto
  <1>9. ASSUME NEW g \in Guard, AfterRun(g) PROVE Preserved
    <2> DEFINE next == IF guard[g].stopping THEN "closing"
                       ELSE IF run[g].first /\ run[g].lived = "short" THEN "fail"
                       ELSE "backoff"
               delay == IF next = "backoff" /\ run[g].lived = "stable" THEN 1 ELSE run[g].delay
    <2>1. /\ run[g].at = "check" /\ UNCHANGED <<guard, children, reported, proc>>
          /\ run' = [run EXCEPT ![g] = [run[g] EXCEPT !.at = next, !.delay = delay,
                                                      !.lived = "short"]]
      BY <1>9 DEF AfterRun
    <2>2. next \in {"closing", "fail", "backoff"} /\ (next = "closing" => guard[g].stopping)
      OBVIOUS
    <2> HIDE DEF next, delay
    <2>3. /\ run'[g].at = next /\ run'[g].first = run[g].first
          /\ \A h \in Guard : h # g => run'[h] = run[h]
      BY <2>1
    <2> QED
      BY <2>1, <2>2, <2>3
  <1>10. ASSUME NEW g \in Guard, FailCheck(g) PROVE Preserved
    BY <1>10 DEF FailCheck, Goto
  <1>11. ASSUME NEW g \in Guard, Report(g) PROVE Preserved
    BY <1>11 DEF Report, Goto
  <1>12. ASSUME NEW g \in Guard, BackoffStop(g) PROVE Preserved
    BY <1>12 DEF BackoffStop, Goto
  <1>13. ASSUME NEW g \in Guard, BackoffTimer(g) PROVE Preserved
    BY <1>13 DEF BackoffTimer
  <1>14. ASSUME NEW g \in Guard, CloseDone(g) PROVE Preserved
    BY <1>14 DEF CloseDone, Goto
  <1>15. ASSUME NEW g \in Guard, RequestStop(g) PROVE Preserved
    BY <1>15 DEF RequestStop, Signalled
  <1>16. ASSUME NEW g \in Guard, KillGroup(g) PROVE Preserved
    BY <1>16 DEF KillGroup, Signalled
  <1>17. ASSUME NEW g \in Guard, WaitStopped(g) PROVE Preserved
    BY <1>17 DEF WaitStopped, Done
  <1>18. ASSUME NEW g \in Guard, Collect(g) PROVE Preserved
    BY <1>18 DEF Collect, Done, NewRun, NewGuard, NoProc
  <1>19. ASSUME NEW g \in Guard, ProcExit(g) PROVE Preserved
    BY <1>19 DEF ProcExit
  <1>20. ASSUME NEW g \in Guard, Spawn(g) PROVE Preserved
    BY <1>20 DEF Spawn
  <1>21. ASSUME NEW g \in Guard, KinExit(g) PROVE Preserved
    BY <1>21 DEF KinExit
  <1> QED
    BY <1>1, <1>2, <1>3, <1>4, <1>5, <1>6, <1>7, <1>8, <1>9, <1>10, <1>11,
       <1>12, <1>13, <1>14, <1>15, <1>16, <1>17, <1>18, <1>19, <1>20, <1>21
       DEF GuardNext, RunStep, KernelStep

(***************************************************************************)
(* GuardInv is inductive.                                                  *)
(***************************************************************************)
LEMMA GuardNextInv == ASSUME GuardInv, [GuardNext]_guardVars PROVE GuardInv'
  <1>1. GuardTypeOK'
    BY GuardNextType DEF GuardInv
  <1>2. \A h \in Guard : ActorsAgree(h)'
    <2>1. CASE GuardNext
      BY <1>1, <2>1, GuardNextAgree DEF GuardInv
    <2>2. CASE UNCHANGED guardVars
      BY <2>2 DEF GuardInv, guardVars, ActorsAgree, ProcessFollowsRun, StartedFollowsRun,
                  StopEscalatesFor, EndIsReported, At
    <2> QED
      BY <2>1, <2>2
  <1> QED
    BY <1>1, <1>2 DEF GuardInv

(***************************************************************************)
(* The run goroutine, the guard's fields, Host.children and the process    *)
(* agree at every point where another actor can look (host.go run, attach, *)
(* detach, requestStop): the four properties below follow from this one.   *)
(***************************************************************************)
THEOREM GuardInvariance == GuardSpec => []GuardInv
  <1>1. GuardInit => GuardInv
    BY GuardInitInv
  <1>2. GuardInv /\ [GuardNext]_guardVars => GuardInv'
    BY GuardNextInv
  <1> QED
    BY <1>1, <1>2, PTL DEF GuardSpec

(***************************************************************************)
(* The types of the goroutine, the guard and its process.                  *)
(***************************************************************************)
THEOREM GuardTypeInvariant == GuardSpec => []GuardTypeOK
  <1>1. GuardInv => GuardTypeOK
    BY DEF GuardInv
  <1> QED
    BY <1>1, GuardInvariance, PTL

(***************************************************************************)
(* Whichever of requestStop and attach comes first, and whatever run does  *)
(* in between, a stop reaches the process (host.go requestStop, attach).   *)
(***************************************************************************)
THEOREM StopEscalatesAlways == GuardSpec => []StopEscalates
  <1>1. GuardInv => StopEscalates
    BY DEF GuardInv, ActorsAgree, StopEscalatesFor, StopEscalates
  <1> QED
    BY <1>1, GuardInvariance, PTL

(***************************************************************************)
(* No guard ends unnoticed (host.go run, fail).                            *)
(***************************************************************************)
THEOREM FailureReportedAlways == GuardSpec => []FailureReported
  <1>1. GuardInv => FailureReported
    BY DEF GuardInv, ActorsAgree, EndIsReported, FailureReported, Done, At
  <1> QED
    BY <1>1, GuardInvariance, PTL

(***************************************************************************)
(* Two runs of one plugin never overlap (host.go run, attach, detach).     *)
(***************************************************************************)
THEOREM RunsDoNotOverlapAlways == GuardSpec => []RunsDoNotOverlap
  <1>1. GuardInv => RunsDoNotOverlap
    BY DEF GuardInv, ActorsAgree, ProcessFollowsRun, Unforked, Attached, RunsDoNotOverlap
  <1> QED
    BY <1>1, GuardInvariance, PTL

-----------------------------------------------------------------------------
(* The host.                                                               *)

(***************************************************************************)
(* The inductive invariant.  A guard is owned while the map, the list of   *)
(* stopGuards or start refers to it; everything else follows from who      *)
(* owns what, and from what is known at each position of the call.         *)
(***************************************************************************)
InMap(g) == \E p \in Plugin : guards[p] = g

Owned(g) == InMap(g) \/ g \in call.wait \/ g = call.fresh

\* The guards of the map were started and not told to stop.
MapAgrees ==
    \A p \in Registered :
        /\ specOf[guards[p]] = p
        /\ guard[guards[p]].started = "ok"
        /\ ~guard[guards[p]].stopping
        /\ guards[p] \notin call.wait
        /\ guards[p] # call.fresh

\* stopGuards was given running guards that Apply does not want, or all of them.
WaitAgrees ==
    /\ call.signal \subseteq call.wait
    /\ \A g \in call.wait :
           /\ specOf[g] \in Plugin
           /\ guard[g].started = "ok"
           /\ guard[g].stopping <=> g \notin call.signal
           /\ g # call.fresh
           /\ \/ specOf[g] \notin Wanted(call.options)
              \/ Done(g) \/ call.failed \/ closed

\* start has launched a guard for the plugin of the loop.
FreshAgrees ==
    /\ call.at = "starting" <=> call.fresh # NoGuard
    /\ call.at = "starting" =>
           /\ call.index \in DOMAIN call.options.plugins
           /\ specOf[call.fresh] = call.options.plugins[call.index]
           /\ specOf[call.fresh] \notin Registered
           /\ ~guard[call.fresh].stopping

\* Nothing waits for a guard without an owner; one with an owner is in use.
OwnersAgree ==
    \A g \in Guard :
        /\ Owned(g) => ~At(g, "idle") /\ guard[g].released = "no"
        /\ ~Owned(g) => At(g, "idle") \/ Done(g) \/ guard[g].released # "no"
        /\ guard[g].released = "stopped" => Done(g)

OwnersDisjoint ==
    \A g, h \in Guard :
        Owned(g) /\ Owned(h) /\ g # h
            => /\ specOf[g] # specOf[h]
               /\ FilesOf[specOf[g]] \intersect FilesOf[specOf[h]] = {}

FilesAgree ==
    /\ \A g \in Guard : Owned(g) => \A f \in FilesOf[specOf[g]] : disk[f] = specOf[g]
    /\ \A f \in File :
           disk[f] # NoPlugin =>
               /\ f \in FilesOf[disk[f]]
               /\ \E g \in Guard : Owned(g) /\ specOf[g] = disk[f]

\* What Apply has settled when it reaches a position.
PhaseAgrees ==
    /\ call.at # "stop" /\ call.at # "scan" => call.wait = {}
    /\ call.at # "scan" => call.scan = {}
    /\ call.at = "scan" => call.scan \subseteq Registered
    /\ call.at \in {"scan", "stop", "server", "mkdir", "start", "starting"}
           /\ ~call.failed /\ ~closed
           => Registered \ call.scan \subseteq Wanted(call.options)
    /\ call.at \in {"scan", "server", "mkdir", "start", "starting"}
           => ~call.failed /\ ~closed
    /\ call.at \in {"stopAll", "closeServer"} => call.failed \/ closed
    /\ call.at \in {"stop", "closeServer"} /\ (call.failed \/ closed) => Registered = {}
    /\ call.at \in {"mkdir", "start", "starting"} =>
           /\ server.path = call.options.path
           /\ server.path # NoPath => server.verify = call.options.verify
    /\ call.at \notin {"start", "starting"} /\ ~call.failed => call.index = 1
    /\ call.at \in {"start", "starting"} =>
           /\ call.options # NoOptions
           /\ call.index # 0
           /\ \A i \in 1..(call.index - 1) : call.options.plugins[i] \in Registered

HostAgrees ==
    /\ MapAgrees
    /\ WaitAgrees
    /\ FreshAgrees
    /\ OwnersAgree
    /\ OwnersDisjoint
    /\ FilesAgree
    /\ PhaseAgrees

HostInv == HostTypeOK /\ GuardInv /\ HostAgrees

(***************************************************************************)
(* What the host does to its guards is what PluginGuard allows: its steps  *)
(* launch, stop, wait for and collect guards, or leave them alone.         *)
(***************************************************************************)
LEMMA HostNextGuards == ASSUME [Next]_vars PROVE [GuardNext]_guardVars
  <1>1. CASE UNCHANGED vars
    BY <1>1 DEF vars
  <1>2. ASSUME NEW options \in Options, Apply(options) PROVE UNCHANGED guardVars
    BY <1>2 DEF Apply
  <1>3. ASSUME ApplyClosed \/ Close PROVE UNCHANGED guardVars
    BY <1>3 DEF ApplyClosed, Close, vars
  <1>4. ASSUME CallStep PROVE [GuardNext]_guardVars
    <2>1. ASSUME \/ StopEnd \/ KeepServer \/ ReplaceServer \/ MkdirAll \/ Skip
                 \/ PrepareError \/ Started \/ StartError \/ ApplyDone \/ StopAll
                 \/ CloseServer
          PROVE UNCHANGED guardVars
      BY <2>1 DEF StopEnd, KeepServer, ReplaceServer, MkdirAll, Skip, PrepareError,
                  Started, StartError, ApplyDone, StopAll, CloseServer
    <2>2. ASSUME NEW p \in Plugin, Scan(p) PROVE UNCHANGED guardVars
      BY <2>2 DEF Scan
    <2>3. ASSUME NEW g \in Guard, Signal(g) PROVE RequestStop(g)
      BY <2>3 DEF Signal
    <2>4. ASSUME NEW g \in Guard, Wait(g) PROVE WaitStopped(g)
      BY <2>4 DEF Wait
    <2>5. ASSUME NEW g \in Guard, Start(g) PROVE Launch(g)
      BY <2>5 DEF Start
    <2> QED
      BY <1>4, <2>1, <2>2, <2>3, <2>4, <2>5 DEF CallStep, GuardNext
  <1>5. ASSUME NEW g \in Guard, GuardStep(g) PROVE GuardNext
    BY <1>5 DEF GuardStep, GuardNext
  <1>6. ASSUME NEW g \in Guard, Recycle(g) PROVE GuardNext
    BY <1>6 DEF Recycle, GuardNext
  <1> QED
    BY <1>1, <1>2, <1>3, <1>4, <1>5, <1>6 DEF Next

(***************************************************************************)
(* So everything shown above of a guard on its own holds of                *)
(* the guards of a host.                                                   *)
(***************************************************************************)
THEOREM HostImplementsGuards == Spec => GuardSpec
  <1>1. Init => GuardInit
    BY DEF Init
  <1>2. [Next]_vars => [GuardNext]_guardVars
    BY HostNextGuards
  <1> QED
    BY <1>1, <1>2, PTL DEF Spec, GuardSpec

(***************************************************************************)
(* What the call sees of a guard that goes on beside it: only run ends,    *)
(* and for good; stops and their outcome are the call's own doing.         *)
(***************************************************************************)
LEMMA GuardStepKeeps ==
    ASSUME GuardInv, NEW g \in Guard, GuardStep(g), NEW h \in Guard
    PROVE  /\ guard'[h].stopping = guard[h].stopping
           /\ guard'[h].released = guard[h].released
           /\ guard[h].started = "ok" => guard'[h].started = "ok"
           /\ Done(h) => Done(h)'
           /\ At(h, "idle")' <=> At(h, "idle")
  <1> DEFINE Kept == /\ guard'[h].stopping = guard[h].stopping
                     /\ guard'[h].released = guard[h].released
                     /\ guard[h].started = "ok" => guard'[h].started = "ok"
                     /\ Done(h) => Done(h)'
                     /\ At(h, "idle")' <=> At(h, "idle")
  <1> SUFFICES Kept
    OBVIOUS
  <1>0. /\ run \in [Guard -> RunType] /\ guard \in [Guard -> GuardType]
        /\ StartedFollowsRun(g)
    BY DEF GuardInv, GuardTypeOK, ActorsAgree
  <1> USE <1>0 DEF RunType, GuardType, StartedFollowsRun, Done, At, Goto
  <1>1. ASSUME CmdStart(g) PROVE Kept
    BY <1>1 DEF CmdStart
  <1>2. ASSUME CmdStartError(g) PROVE Kept
    BY <1>2 DEF CmdStartError
  <1>3. ASSUME Attach(g) PROVE Kept
    BY <1>3 DEF Attach
  <1>4. ASSUME AttachTail(g) PROVE Kept
    BY <1>4 DEF AttachTail
  <1>5. ASSUME Reap(g) PROVE Kept
    BY <1>5 DEF Reap
  <1>6. ASSUME Drain(g) PROVE Kept
    BY <1>6 DEF Drain
  <1>7. ASSUME Detach(g) PROVE Kept
    BY <1>7 DEF Detach
  <1>8. ASSUME AfterRun(g) PROVE Kept
    BY <1>8 DEF AfterRun
  <1>9. ASSUME FailCheck(g) PROVE Kept
    BY <1>9 DEF FailCheck
  <1>10. ASSUME Report(g) PROVE Kept
    BY <1>10 DEF Report
  <1>11. ASSUME BackoffStop(g) PROVE Kept
    BY <1>11 DEF BackoffStop
  <1>12. ASSUME BackoffTimer(g) PROVE Kept
    BY <1>12 DEF BackoffTimer
  <1>13. ASSUME CloseDone(g) PROVE Kept
    BY <1>13 DEF CloseDone
  <1>14. ASSUME KillGroup(g) PROVE Kept
    BY <1>14 DEF KillGroup
  <1>15. ASSUME ProcExit(g) PROVE Kept
    BY <1>15 DEF ProcExit
  <1>16. ASSUME Spawn(g) PROVE Kept
    BY <1>16 DEF Spawn
  <1>17. ASSUME KinExit(g) PROVE Kept
    BY <1>17 DEF KinExit
  <1> QED
    BY <1>1, <1>2, <1>3, <1>4, <1>5, <1>6, <1>7, <1>8, <1>9, <1>10, <1>11, <1>12, <1>13, <1>14, <1>15, <1>16, <1>17 DEF GuardStep, RunStep, KernelStep

(***************************************************************************)
(* The validated envelopes, and the nil options of Apply (options.go       *)
(* validate, host.go Apply).                                               *)
(***************************************************************************)
LEMMA OptionsType ==
    ASSUME NEW options \in Options
    PROVE  /\ options.plugins \in Seq(Plugin)
           /\ options.path \in Path \union {NoPath}
           /\ options.verify \in BOOLEAN
  <1>1. CASE options \in Envelope
    BY <1>1, HostAssumption
  <1>2. CASE options = NoOptions
    BY <1>2 DEF NoOptions
  <1> QED
    BY <1>1, <1>2 DEF Options

(***************************************************************************)
(* Every step of the host keeps the types (host.go Apply, Close, stopAll). *)
(***************************************************************************)
LEMMA HostNextType ==
    ASSUME HostTypeOK, PhaseAgrees, GuardTypeOK', [Next]_vars PROVE HostTypeOK'
  <1> USE DEF HostTypeOK
  <1>a. NoCall \in CallType
    BY DEF NoCall, CallType, CallAt, Options
  <1>b. Failing \in CallType
    BY DEF Failing, CallType, CallAt
  <1>c. Advance \in CallType
    <2>1. call.index + 1 \in Nat
      BY DEF CallType
    <2> DEFINE next == call.index + 1
    <2> HIDE DEF next
    <2>2. [call EXCEPT !.at = "start", !.index = next, !.fresh = NoGuard] \in CallType
      BY <2>1 DEF CallType, CallAt, next
    <2> QED
      BY <2>2 DEF Advance, next
  <1>d. NoServer \in [path: Path \union {NoPath}, verify: BOOLEAN]
    BY DEF NoServer
  <1>e. /\ call.options.path \in Path \union {NoPath}
        /\ call.options.verify \in BOOLEAN
    BY OptionsType DEF CallType
  <1>1. CASE UNCHANGED vars
    BY <1>1 DEF vars, hostVars
  <1>2. ASSUME NEW options \in Options, Apply(options) PROVE HostTypeOK'
    <2>1. call' \in CallType
      BY <1>2, <1>a DEF Apply, CallType, CallAt, Registered
    <2> QED
      BY <1>2, <2>1 DEF Apply
  <1>3. ASSUME ApplyClosed PROVE HostTypeOK'
    BY <1>3 DEF ApplyClosed, vars, hostVars
  <1>4. ASSUME Close PROVE HostTypeOK'
    <2>1. call' \in CallType
      BY <1>4, <1>a DEF Close, CallType, CallAt
    <2> QED
      BY <1>4, <2>1 DEF Close
  <1>5. ASSUME StopEnd PROVE HostTypeOK'
    <2>1. call' \in CallType
      BY <1>5 DEF StopEnd, CallType, CallAt
    <2> QED
      BY <1>5, <2>1 DEF StopEnd
  <1>6. ASSUME KeepServer PROVE HostTypeOK'
    <2>1. call' \in CallType
      BY <1>6 DEF KeepServer, CallType, CallAt
    <2>2. server' \in [path: Path \union {NoPath}, verify: BOOLEAN]
      BY <1>6, <1>e DEF KeepServer
    <2> QED
      BY <1>6, <2>1, <2>2 DEF KeepServer
  <1>7. ASSUME ReplaceServer PROVE HostTypeOK'
    <2>1. call' \in CallType
      BY <1>7, <1>b DEF ReplaceServer, CallType, CallAt
    <2>2. server' \in [path: Path \union {NoPath}, verify: BOOLEAN]
      BY <1>7, <1>d, <1>e DEF ReplaceServer
    <2> QED
      BY <1>7, <2>1, <2>2 DEF ReplaceServer
  <1>8. ASSUME MkdirAll PROVE HostTypeOK'
    <2>1. call' \in CallType
      BY <1>8, <1>a, <1>b DEF MkdirAll, CallType, CallAt
    <2> QED
      BY <1>8, <2>1 DEF MkdirAll
  <1>9. ASSUME Skip PROVE HostTypeOK'
    <2>1. call' \in CallType
      BY <1>9, <1>c DEF Skip
    <2> QED
      BY <1>9, <2>1 DEF Skip
  <1>10. ASSUME PrepareError PROVE HostTypeOK'
    <2>1. call' \in CallType
      BY <1>10, <1>b DEF PrepareError
    <2> QED
      BY <1>10, <2>1 DEF PrepareError, Remove
  <1>11. ASSUME Started PROVE HostTypeOK'
    <2>1. call' \in CallType
      BY <1>11, <1>c DEF Started
    <2>2. guards' \in [Plugin -> Guard \union {NoGuard}]
      BY <1>11 DEF Started, CallType
    <2> QED
      BY <1>11, <2>1, <2>2 DEF Started
  <1>12. ASSUME StartError PROVE HostTypeOK'
    <2>1. call' \in CallType
      BY <1>12, <1>b DEF StartError
    <2> QED
      BY <1>12, <2>1 DEF StartError, Remove
  <1>13. ASSUME ApplyDone \/ CloseServer PROVE HostTypeOK'
    <2>1. call' \in CallType
      BY <1>13, <1>a DEF ApplyDone, CloseServer
    <2> QED
      BY <1>13, <2>1, <1>d DEF ApplyDone, CloseServer
  <1>14. ASSUME StopAll PROVE HostTypeOK'
    <2>1. {guards[p] : p \in Registered} \subseteq Guard
      BY DEF Registered
    <2>2. call' \in CallType
      BY <1>14, <2>1 DEF StopAll, CallType, CallAt
    <2> QED
      BY <1>14, <2>2 DEF StopAll
  <1>15. ASSUME NEW p \in Plugin, Scan(p) PROVE HostTypeOK'
    <2>1. guards[p] \in Guard
      BY <1>15 DEF Scan, PhaseAgrees, Registered
    <2>2. call' \in CallType
      BY <1>15, <2>1 DEF Scan, CallType, CallAt
    <2> QED
      BY <1>15, <2>2 DEF Scan
  <1>16. ASSUME NEW g \in Guard, Signal(g) PROVE HostTypeOK'
    <2>1. call' \in CallType
      BY <1>16 DEF Signal, CallType, CallAt
    <2> QED
      BY <1>16, <2>1 DEF Signal
  <1>17. ASSUME NEW g \in Guard, Wait(g) PROVE HostTypeOK'
    <2>1. call' \in CallType
      BY <1>17 DEF Wait, CallType, CallAt
    <2> QED
      BY <1>17, <2>1 DEF Wait, Remove
  <1>18. ASSUME NEW g \in Guard, Start(g) PROVE HostTypeOK'
    <2>1. call' \in CallType
      BY <1>18 DEF Start, CallType, CallAt
    <2>2. call.options.plugins[call.index] \in Plugin
      BY <1>18, OptionsType DEF Start, CallType, PhaseAgrees
    <2> QED
      BY <1>18, <2>1, <2>2 DEF Start, Write
  <1>19. ASSUME NEW g \in Guard, GuardStep(g) PROVE HostTypeOK'
    BY <1>19 DEF GuardStep, hostVars
  <1>20. ASSUME NEW g \in Guard, Recycle(g) PROVE HostTypeOK'
    BY <1>20 DEF Recycle
  <1> QED
    BY <1>1, <1>2, <1>3, <1>4, <1>5, <1>6, <1>7, <1>8, <1>9, <1>10, <1>11, <1>12,
       <1>13, <1>14, <1>15, <1>16, <1>17, <1>18, <1>19, <1>20 DEF Next, CallStep

(***************************************************************************)
(* Steps of the call that touch no guard and no file (host.go Apply,       *)
(* updateServer, startMissing, Close): ownership stays as it is.           *)
(***************************************************************************)
OwnershipUnchanged ==
    /\ UNCHANGED <<guardVars, guards, disk, specOf>>
    /\ call'.wait = call.wait
    /\ call'.signal = call.signal
    /\ call'.fresh = call.fresh

LEMMA OwnershipKept ==
    ASSUME HostAgrees, OwnershipUnchanged
    PROVE  /\ MapAgrees' /\ OwnersAgree' /\ OwnersDisjoint' /\ FilesAgree'
           /\ Registered' = Registered
  <1> USE DEF HostAgrees, OwnershipUnchanged, guardVars
  <1>1. \A g : Owned(g)' <=> Owned(g)
    BY DEF Owned, InMap
  <1>2. Registered' = Registered
    BY DEF Registered
  <1>3. MapAgrees'
    BY <1>2 DEF MapAgrees
  <1>4. OwnersAgree'
    BY <1>1 DEF OwnersAgree, At, Done
  <1>5. OwnersDisjoint'
    BY <1>1 DEF OwnersDisjoint
  <1>6. FilesAgree'
    BY <1>1 DEF FilesAgree
  <1> QED
    BY <1>2, <1>3, <1>4, <1>5, <1>6

(***************************************************************************)
(* Apply begins (host.go Apply).                                           *)
(***************************************************************************)
LEMMA ApplyKeeps ==
    ASSUME HostInv, NEW options \in Options, Apply(options) PROVE HostAgrees'
  <1> USE DEF HostInv, HostAgrees
  <1>1. /\ OwnershipUnchanged
        /\ call'.at \in {"scan", "stop"} /\ call'.options = options
        /\ call'.scan = Registered /\ (call'.at = "stop" <=> Registered = {})
        /\ ~call'.failed /\ ~closed' /\ call.wait = {} /\ call.signal = {}
        /\ call'.index = 1
        /\ call.fresh = NoGuard
    BY DEF Apply, NoCall, OwnershipUnchanged, PhaseAgrees, WaitAgrees, FreshAgrees, HostTypeOK, CallType
  <1>2. WaitAgrees' /\ FreshAgrees'
    BY <1>1 DEF WaitAgrees, FreshAgrees, OwnershipUnchanged
  <1>3. PhaseAgrees'
    BY <1>1, OwnershipKept DEF PhaseAgrees, OwnershipUnchanged
  <1> QED
    BY <1>1, <1>2, <1>3, OwnershipKept

(***************************************************************************)
(* Close begins (host.go Close).                                           *)
(***************************************************************************)
LEMMA CloseKeeps == ASSUME HostInv, Close PROVE HostAgrees'
  <1> USE DEF HostInv, HostAgrees
  <1>1. /\ OwnershipUnchanged
        /\ call'.at = "stopAll" /\ call'.scan = {}
        /\ ~call'.failed /\ closed' /\ call.wait = {} /\ call.signal = {}
        /\ call'.index = 1
        /\ call.fresh = NoGuard
    BY DEF Close, NoCall, OwnershipUnchanged, PhaseAgrees, WaitAgrees, FreshAgrees, HostTypeOK, CallType
  <1>2. WaitAgrees' /\ FreshAgrees'
    BY <1>1 DEF WaitAgrees, FreshAgrees, OwnershipUnchanged
  <1>3. PhaseAgrees'
    BY <1>1 DEF PhaseAgrees, OwnershipUnchanged
  <1> QED
    BY <1>1, <1>2, <1>3, OwnershipKept

(***************************************************************************)
(* stopGuards returns (host.go stopGuards).                                *)
(***************************************************************************)
LEMMA StopEndKeeps == ASSUME HostInv, StopEnd PROVE HostAgrees'
  <1> USE DEF HostInv, HostAgrees
  <1>1. /\ OwnershipUnchanged
        /\ call.at = "stop" /\ call.wait = {} /\ call.signal = {}
        /\ call'.at = IF closed \/ call.failed THEN "closeServer" ELSE "server"
        /\ call'.scan = call.scan /\ call'.options = call.options
        /\ call'.failed = call.failed /\ closed' = closed /\ call'.index = call.index
        /\ call.fresh = NoGuard
    BY DEF StopEnd, OwnershipUnchanged, WaitAgrees, FreshAgrees, HostTypeOK, CallType
  <1>2. WaitAgrees' /\ FreshAgrees'
    BY <1>1 DEF WaitAgrees, FreshAgrees, OwnershipUnchanged
  <1>3. PhaseAgrees'
    BY <1>1, OwnershipKept DEF PhaseAgrees, OwnershipUnchanged
  <1> QED
    BY <1>1, <1>2, <1>3, OwnershipKept

(***************************************************************************)
(* updateServer keeps, opens or closes the listener (host.go               *)
(* updateServer).                                                          *)
(***************************************************************************)
LEMMA KeepServerKeeps == ASSUME HostInv, KeepServer PROVE HostAgrees'
  <1> USE DEF HostInv, HostAgrees
  <1>1. /\ OwnershipUnchanged
        /\ call.at = "server" /\ call'.at = "mkdir"
        /\ call.wait = {} /\ call.signal = {}
        /\ call'.scan = call.scan /\ call'.options = call.options
        /\ call'.failed = call.failed /\ closed' = closed /\ call'.index = call.index
        /\ call.fresh = NoGuard
        /\ server'.path = call.options.path /\ server'.verify = call.options.verify
    BY DEF KeepServer, OwnershipUnchanged, WaitAgrees, FreshAgrees, PhaseAgrees, HostTypeOK,
           CallType
  <1>2. WaitAgrees' /\ FreshAgrees'
    BY <1>1 DEF WaitAgrees, FreshAgrees, OwnershipUnchanged
  <1>3. PhaseAgrees'
    BY <1>1, OwnershipKept DEF PhaseAgrees, OwnershipUnchanged
  <1> QED
    BY <1>1, <1>2, <1>3, OwnershipKept

(***************************************************************************)
(* The call gives up: it had no guard of its own (host.go Apply).          *)
(***************************************************************************)
LEMMA FailingKeeps ==
    ASSUME HostInv, call' = Failing, call.at \in {"server", "mkdir"}, closed' = closed,
           UNCHANGED <<guardVars, guards, disk, specOf>>
    PROVE  HostAgrees'
  <1> USE DEF HostInv, HostAgrees
  <1>1. /\ OwnershipUnchanged
        /\ call'.at = "stopAll" /\ call.wait = {} /\ call.signal = {}
        /\ call'.scan = {} /\ call'.failed /\ call.fresh = NoGuard
    BY DEF Failing, OwnershipUnchanged, WaitAgrees, FreshAgrees, PhaseAgrees, HostTypeOK,
           CallType
  <1>2. WaitAgrees' /\ FreshAgrees'
    BY <1>1 DEF WaitAgrees, FreshAgrees, OwnershipUnchanged
  <1>3. PhaseAgrees'
    BY <1>1 DEF PhaseAgrees, OwnershipUnchanged
  <1> QED
    BY <1>1, <1>2, <1>3, OwnershipKept

(***************************************************************************)
(* updateServer replaces the listener, or fails to (host.go updateServer). *)
(***************************************************************************)
LEMMA ReplaceServerKeeps == ASSUME HostInv, ReplaceServer PROVE HostAgrees'
  <1> USE DEF HostInv, HostAgrees
  <1>1. CASE call' = Failing
    BY <1>1, FailingKeeps DEF ReplaceServer
  <1>2. CASE call' # Failing
    <2>1. /\ OwnershipUnchanged
          /\ call.at = "server" /\ call'.at = "mkdir"
          /\ call.wait = {} /\ call.signal = {}
          /\ call'.scan = call.scan /\ call'.options = call.options
          /\ call'.failed = call.failed /\ closed' = closed /\ call'.index = call.index
          /\ call.fresh = NoGuard
      BY <1>2 DEF ReplaceServer, OwnershipUnchanged, WaitAgrees, FreshAgrees, PhaseAgrees,
             HostTypeOK, CallType
    <2>2. /\ server'.path = call.options.path
          /\ server'.path # NoPath => server'.verify = call.options.verify
      BY <1>2 DEF ReplaceServer, NoServer
    <2>3. WaitAgrees' /\ FreshAgrees'
      BY <2>1 DEF WaitAgrees, FreshAgrees, OwnershipUnchanged
    <2>4. PhaseAgrees'
      BY <2>1, <2>2, OwnershipKept DEF PhaseAgrees, OwnershipUnchanged
    <2> QED
      BY <2>1, <2>3, <2>4, OwnershipKept
  <1> QED
    BY <1>1, <1>2

(***************************************************************************)
(* A call returns, or startMissing begins (host.go Apply, Close).          *)
(***************************************************************************)
LEMMA ReturnKeeps ==
    ASSUME HostInv, call' = NoCall, call.at \in {"mkdir", "start", "closeServer"},
           closed' = closed, UNCHANGED <<guardVars, guards, disk, specOf>>
    PROVE  HostAgrees'
  <1> USE DEF HostInv, HostAgrees
  <1>1. /\ OwnershipUnchanged
        /\ call'.at = "idle" /\ call.wait = {} /\ call.signal = {}
        /\ call'.scan = {} /\ call.fresh = NoGuard /\ ~call'.failed /\ call'.index = 1
    BY DEF NoCall, OwnershipUnchanged, WaitAgrees, FreshAgrees, PhaseAgrees, HostTypeOK,
           CallType
  <1>2. WaitAgrees' /\ FreshAgrees'
    BY <1>1 DEF WaitAgrees, FreshAgrees, OwnershipUnchanged
  <1>3. PhaseAgrees'
    BY <1>1 DEF PhaseAgrees, OwnershipUnchanged
  <1> QED
    BY <1>1, <1>2, <1>3, OwnershipKept

(***************************************************************************)
(* startMissing makes the working directory (host.go startMissing).        *)
(***************************************************************************)
LEMMA MkdirAllKeeps == ASSUME HostInv, MkdirAll PROVE HostAgrees'
  <1> USE DEF HostInv, HostAgrees
  <1>1. CASE call' = Failing
    BY <1>1, FailingKeeps DEF MkdirAll
  <1>2. CASE call.options = NoOptions
    BY <1>2, ReturnKeeps DEF MkdirAll
  <1>3. CASE call' # Failing /\ call.options # NoOptions
    <2>1. /\ OwnershipUnchanged
          /\ call.at = "mkdir" /\ call'.at = "start"
          /\ call.wait = {} /\ call.signal = {} /\ call'.index = call.index
          /\ call'.scan = call.scan /\ call'.options = call.options
          /\ call'.failed = call.failed /\ closed' = closed /\ server' = server
          /\ call.fresh = NoGuard
      BY <1>3 DEF MkdirAll, OwnershipUnchanged, WaitAgrees, FreshAgrees, PhaseAgrees,
             HostTypeOK, CallType
    <2>2. WaitAgrees' /\ FreshAgrees'
      BY <2>1 DEF WaitAgrees, FreshAgrees, OwnershipUnchanged
    <2>3. PhaseAgrees'
      BY <2>1, <1>3, OwnershipKept DEF PhaseAgrees, OwnershipUnchanged
    <2> QED
      BY <2>1, <2>2, <2>3, OwnershipKept
  <1> QED
    BY <1>1, <1>2, <1>3

(***************************************************************************)
(* In the loop of startMissing only the map owns guards, and the plugin    *)
(* the loop is at shares no file with them (options.go validate).          *)
(***************************************************************************)
LEMMA StartPhase ==
    ASSUME HostInv, call.at = "start"
    PROVE  /\ call.wait = {} /\ call.signal = {} /\ call.scan = {}
           /\ call.fresh = NoGuard /\ ~call.failed /\ ~closed
           /\ call.options.plugins \in Seq(Plugin) /\ call.index \in Nat \ {0}
           /\ \A g \in Guard : Owned(g) <=> InMap(g)
           /\ call.index <= Len(call.options.plugins) =>
                  /\ call.options.plugins[call.index] \in Plugin
                  /\ call.options.plugins[call.index] \in Wanted(call.options)
                  /\ \A p \in Registered :
                         p # call.options.plugins[call.index] =>
                             FilesOf[p] \intersect FilesOf[call.options.plugins[call.index]] = {}
  <1> USE DEF HostInv, HostAgrees
  <1>1. /\ call.wait = {} /\ call.signal = {} /\ call.scan = {}
        /\ call.fresh = NoGuard /\ ~call.failed /\ ~closed
    BY DEF PhaseAgrees, WaitAgrees, FreshAgrees
  <1>2. call.options \in Options /\ call.index \in Nat \ {0}
    BY DEF HostTypeOK, CallType, PhaseAgrees
  <1>3. call.options.plugins \in Seq(Plugin)
    BY <1>2, OptionsType
  <1>4. \A g \in Guard : Owned(g) <=> InMap(g)
    BY <1>1, HostAssumption DEF Owned
  <1>5. ASSUME call.index <= Len(call.options.plugins)
        PROVE  /\ call.options.plugins[call.index] \in Plugin
               /\ call.options.plugins[call.index] \in Wanted(call.options)
    BY <1>2, <1>3, <1>5 DEF Wanted
  <1>6. Registered \subseteq Wanted(call.options)
    BY <1>1 DEF PhaseAgrees
  <1>7. call.options \in Envelope
    BY <1>2 DEF PhaseAgrees, Options
  <1>8. \A p, q \in Wanted(call.options) : p # q => FilesOf[p] \intersect FilesOf[q] = {}
    BY <1>7, HostAssumption
  <1> QED
    BY <1>1, <1>2, <1>3, <1>4, <1>5, <1>6, <1>8

(***************************************************************************)
(* The loop skips a plugin that runs (host.go startMissing).               *)
(***************************************************************************)
LEMMA SkipKeeps == ASSUME HostInv, Skip PROVE HostAgrees'
  <1> USE DEF HostInv, HostAgrees
  <1>1. /\ OwnershipUnchanged
        /\ call.at = "start" /\ call'.at = "start"
        /\ call'.index = call.index + 1
        /\ call'.scan = call.scan /\ call'.options = call.options
        /\ call'.failed = call.failed /\ closed' = closed /\ server' = server
        /\ call.options.plugins[call.index] \in Registered
    BY StartPhase DEF Skip, Advance, OwnershipUnchanged, HostTypeOK, CallType, Registered
  <1>2. WaitAgrees' /\ FreshAgrees'
    BY <1>1, StartPhase DEF WaitAgrees, FreshAgrees, OwnershipUnchanged
  <1>3. \A i \in 1..(call.index + 1 - 1) : call.options.plugins[i] \in Registered
    BY <1>1, StartPhase DEF PhaseAgrees
  <1>4. PhaseAgrees'
    BY <1>1, <1>3, StartPhase, OwnershipKept DEF PhaseAgrees, OwnershipUnchanged
  <1> QED
    BY <1>1, <1>2, <1>4, OwnershipKept

(***************************************************************************)
(* prepare fails and removes what it wrote (host.go start).                *)
(***************************************************************************)
LEMMA PrepareErrorKeeps == ASSUME HostInv, PrepareError PROVE HostAgrees'
  <1> USE DEF HostInv, HostAgrees
  <1> DEFINE p == call.options.plugins[call.index]
  <1>1. /\ call.at = "start" /\ call'.at = "stopAll"
        /\ call.index <= Len(call.options.plugins)
        /\ UNCHANGED <<guardVars, guards, closed, server, specOf>>
        /\ call'.wait = {} /\ call'.signal = {} /\ call'.scan = {} /\ call'.failed
        /\ call'.fresh = NoGuard
        /\ guards[p] = NoGuard
    BY StartPhase DEF PrepareError, Failing, HostTypeOK, CallType
  <1>2. \A g \in Guard : Owned(g)' <=> Owned(g)
    BY <1>1, StartPhase DEF Owned, InMap
  <1>3. MapAgrees'
    BY <1>1, HostAssumption DEF MapAgrees, Registered, guardVars, HostTypeOK
  <1>4. WaitAgrees' /\ FreshAgrees'
    BY <1>1 DEF WaitAgrees, FreshAgrees
  <1>5. OwnersAgree' /\ OwnersDisjoint'
    BY <1>1, <1>2 DEF OwnersAgree, OwnersDisjoint, At, Done, guardVars
  <1>6. FilesAgree'
    <2>1. PICK tracked \in SUBSET FilesOf[p] : disk' = Remove(tracked)
      BY DEF PrepareError
    <2>2. ASSUME NEW g \in Guard, Owned(g)
          PROVE  specOf[g] \in Registered /\ specOf[g] # p
      BY <2>2, <1>1, StartPhase, HostAssumption DEF InMap, MapAgrees, Registered
    <2>3. ASSUME NEW g \in Guard, Owned(g)
          PROVE  FilesOf[specOf[g]] \intersect tracked = {} /\ FilesOf[specOf[g]] \subseteq File
      BY <2>1, <2>2, <2>3, <1>1, StartPhase, HostAssumption DEF Registered
    <2>4. ASSUME NEW g \in Guard, Owned(g), NEW f \in FilesOf[specOf[g]]
          PROVE  disk'[f] = specOf'[g]
      BY <2>1, <2>3, <2>4, <1>1 DEF Remove, FilesAgree
    <2>5. ASSUME NEW f \in File, disk'[f] # NoPlugin
          PROVE  disk'[f] = disk[f]
      BY <2>1, <2>5 DEF Remove
    <2> QED
      BY <1>1, <1>2, <2>4, <2>5 DEF FilesAgree
  <1>7. PhaseAgrees'
    BY <1>1 DEF PhaseAgrees
  <1> QED
    BY <1>3, <1>4, <1>5, <1>6, <1>7

(***************************************************************************)
(* The guard start has launched, and the others (host.go start).           *)
(***************************************************************************)
LEMMA StartingPhase ==
    ASSUME HostInv, call.at = "starting"
    PROVE  /\ call.wait = {} /\ call.signal = {} /\ call.scan = {}
           /\ call.fresh \in Guard /\ ~call.failed /\ ~closed
           /\ call.options.plugins \in Seq(Plugin) /\ call.index \in Nat \ {0}
           /\ call.index <= Len(call.options.plugins)
           /\ specOf[call.fresh] = call.options.plugins[call.index]
           /\ specOf[call.fresh] \in Plugin
           /\ specOf[call.fresh] \in Wanted(call.options)
           /\ ~InMap(call.fresh)
           /\ \A g \in Guard : Owned(g) <=> InMap(g) \/ g = call.fresh
  <1> USE DEF HostInv, HostAgrees
  <1>1. /\ call.wait = {} /\ call.signal = {} /\ call.scan = {}
        /\ ~call.failed /\ ~closed
    BY DEF PhaseAgrees, WaitAgrees
  <1>2. call.options \in Options /\ call.index \in Nat \ {0} /\ call.fresh \in Guard
    BY DEF HostTypeOK, CallType, PhaseAgrees, FreshAgrees
  <1>3. call.options.plugins \in Seq(Plugin)
    BY <1>2, OptionsType
  <1>4. call.index <= Len(call.options.plugins)
        /\ specOf[call.fresh] = call.options.plugins[call.index]
    BY <1>3 DEF FreshAgrees
  <1>5. specOf[call.fresh] \in Plugin /\ specOf[call.fresh] \in Wanted(call.options)
    BY <1>2, <1>3, <1>4 DEF Wanted
  <1>6. ~InMap(call.fresh)
    BY <1>2, HostAssumption DEF InMap, MapAgrees, Registered
  <1>7. \A g \in Guard : Owned(g) <=> InMap(g) \/ g = call.fresh
    BY <1>1 DEF Owned
  <1> QED
    BY <1>1, <1>2, <1>3, <1>4, <1>5, <1>6, <1>7

(***************************************************************************)
(* The plugin was forked: its guard moves into the map (host.go start).    *)
(***************************************************************************)
LEMMA StartedKeeps == ASSUME HostInv, Started PROVE HostAgrees'
  <1> USE DEF HostInv, HostAgrees
  <1> DEFINE p == specOf[call.fresh]
  <1>1. /\ call.at = "starting" /\ call'.at = "start"
        /\ guard[call.fresh].started = "ok"
        /\ guards' = [guards EXCEPT ![p] = call.fresh]
        /\ UNCHANGED <<guardVars, closed, server, disk, specOf>>
        /\ call'.wait = {} /\ call'.signal = {} /\ call'.scan = {} /\ ~call'.failed
        /\ call'.fresh = NoGuard /\ call'.options = call.options
        /\ call'.index = call.index + 1
    BY StartingPhase DEF Started, Advance, HostTypeOK, CallType
  <1>2. Registered' = Registered \union {p} /\ guards[p] = NoGuard
    BY <1>1, StartingPhase, HostAssumption DEF Registered, HostTypeOK, FreshAgrees
  <1>3. \A g \in Guard : InMap(g)' <=> InMap(g) \/ g = call.fresh
    BY <1>1, <1>2, StartingPhase, HostAssumption DEF InMap, HostTypeOK
  <1>4. \A g \in Guard : Owned(g)' <=> Owned(g)
    BY <1>1, <1>3, StartingPhase, HostAssumption DEF Owned
  <1>5. MapAgrees'
    <2> SUFFICES ASSUME NEW q \in Registered'
                 PROVE  /\ specOf'[guards'[q]] = q
                        /\ guard'[guards'[q]].started = "ok"
                        /\ ~guard'[guards'[q]].stopping
                        /\ guards'[q] \notin call'.wait
                        /\ guards'[q] # call'.fresh
      BY DEF MapAgrees
    <2>1. CASE q = p
      BY <1>1, <2>1, StartingPhase, HostAssumption DEF HostTypeOK, FreshAgrees, guardVars
    <2>2. CASE q # p
      <3>1. q \in Registered /\ guards'[q] = guards[q] /\ guards[q] \in Guard
        BY <1>1, <1>2, <2>2 DEF Registered, HostTypeOK
      <3> QED
        BY <1>1, <3>1, HostAssumption DEF MapAgrees, guardVars
    <2> QED
      BY <2>1, <2>2
  <1>6. WaitAgrees' /\ FreshAgrees'
    BY <1>1 DEF WaitAgrees, FreshAgrees
  <1>7. OwnersAgree' /\ OwnersDisjoint' /\ FilesAgree'
    BY <1>1, <1>4 DEF OwnersAgree, OwnersDisjoint, FilesAgree, At, Done, guardVars
  <1>8. \A i \in 1..(call.index + 1 - 1) : call.options.plugins[i] \in Registered'
    BY <1>1, <1>2, StartingPhase DEF PhaseAgrees
  <1>9. PhaseAgrees'
    BY <1>1, <1>2, <1>8, StartingPhase DEF PhaseAgrees
  <1> QED
    BY <1>5, <1>6, <1>7, <1>9

(***************************************************************************)
(* The plugin could not be forked and its files are removed (host.go       *)
(* start).                                                                 *)
(***************************************************************************)
LEMMA StartErrorKeeps == ASSUME HostInv, StartError PROVE HostAgrees'
  <1> USE DEF HostInv, HostAgrees
  <1> DEFINE fresh == call.fresh
  <1>1. /\ call.at = "starting" /\ call'.at = "stopAll"
        /\ Done(fresh)
        /\ disk' = Remove(FilesOf[specOf[fresh]])
        /\ UNCHANGED <<guardVars, guards, closed, server, specOf>>
        /\ call'.wait = {} /\ call'.signal = {} /\ call'.scan = {} /\ call'.failed
        /\ call'.fresh = NoGuard
    BY StartingPhase DEF StartError, Failing, HostTypeOK, CallType
  <1>2. \A g \in Guard : Owned(g)' <=> Owned(g) /\ g # fresh
    BY <1>1, StartingPhase, HostAssumption DEF Owned, InMap
  <1>3. MapAgrees'
    BY <1>1, HostAssumption DEF MapAgrees, Registered, guardVars, HostTypeOK
  <1>4. WaitAgrees' /\ FreshAgrees'
    BY <1>1 DEF WaitAgrees, FreshAgrees
  <1>5. OwnersAgree' /\ OwnersDisjoint'
    BY <1>1, <1>2 DEF OwnersAgree, OwnersDisjoint, At, Done, guardVars
  <1>6. FilesAgree'
    <2>1. Owned(fresh) /\ fresh \in Guard
      BY <1>1, StartingPhase
    <2>2. ASSUME NEW g \in Guard, Owned(g)', NEW f \in FilesOf[specOf[g]]
          PROVE  disk'[f] = specOf[g]
      <3>1. specOf[g] \in Plugin
        BY <2>2, <1>2, <1>1, StartingPhase, HostAssumption DEF InMap, MapAgrees, Registered
      <3>2. f \in File /\ f \notin FilesOf[specOf[fresh]]
        BY <2>1, <2>2, <3>1, <1>2, HostAssumption DEF OwnersDisjoint
      <3> QED
        BY <1>1, <1>2, <2>2, <3>2 DEF Remove, FilesAgree
    <2>3. ASSUME NEW f \in File, disk'[f] # NoPlugin
          PROVE  /\ f \in FilesOf[disk'[f]]
                 /\ \E g \in Guard : Owned(g)' /\ specOf[g] = disk'[f]
      <3>1. disk'[f] = disk[f] /\ f \notin FilesOf[specOf[fresh]]
        BY <1>1, <2>3 DEF Remove
      <3>2. f \in FilesOf[disk[f]]
        BY <2>3, <3>1 DEF FilesAgree
      <3>3. PICK g \in Guard : Owned(g) /\ specOf[g] = disk[f]
        BY <2>3, <3>1 DEF FilesAgree
      <3>4. g # fresh
        BY <3>1, <3>2, <3>3
      <3> QED
        BY <1>2, <3>1, <3>2, <3>3, <3>4
    <2> QED
      BY <1>1, <2>2, <2>3 DEF FilesAgree
  <1>7. PhaseAgrees'
    BY <1>1 DEF PhaseAgrees
  <1> QED
    BY <1>3, <1>4, <1>5, <1>6, <1>7

(***************************************************************************)
(* stopAll takes every guard out of the map (host.go stopAll).             *)
(***************************************************************************)
LEMMA StopAllKeeps == ASSUME HostInv, StopAll PROVE HostAgrees'
  <1> USE DEF HostInv, HostAgrees
  <1> DEFINE all == {guards[p] : p \in Registered}
  <1>1. /\ call.at = "stopAll" /\ call'.at = "stop"
        /\ guards' = [p \in Plugin |-> NoGuard]
        /\ UNCHANGED <<guardVars, closed, server, disk, specOf>>
        /\ call'.wait = all /\ call'.signal = all /\ call'.scan = {}
        /\ call'.failed = call.failed /\ call'.index = call.index
        /\ call'.fresh = NoGuard /\ call.fresh = NoGuard /\ call.wait = {}
        /\ call.failed \/ closed
    BY DEF StopAll, PhaseAgrees, FreshAgrees, HostTypeOK, CallType
  <1>2. \A g \in Guard : Owned(g)' <=> Owned(g)
    BY <1>1, HostAssumption DEF Owned, InMap, Registered
  <1>3. Registered' = {}
    BY <1>1 DEF Registered
  <1>4. MapAgrees' /\ FreshAgrees'
    BY <1>1, <1>3 DEF MapAgrees, FreshAgrees
  <1>5. WaitAgrees'
    BY <1>1, HostAssumption DEF WaitAgrees, MapAgrees, Registered, HostTypeOK, guardVars
  <1>6. OwnersAgree' /\ OwnersDisjoint' /\ FilesAgree'
    BY <1>1, <1>2 DEF OwnersAgree, OwnersDisjoint, FilesAgree, At, Done, guardVars
  <1>7. PhaseAgrees'
    BY <1>1, <1>3 DEF PhaseAgrees
  <1> QED
    BY <1>4, <1>5, <1>6, <1>7

(***************************************************************************)
(* The scan keeps a plugin or moves its guard to stopGuards (host.go       *)
(* Apply).                                                                 *)
(***************************************************************************)
LEMMA ScanKeeps == ASSUME HostInv, NEW p \in Plugin, Scan(p) PROVE HostAgrees'
  <1> USE DEF HostInv, HostAgrees
  <1> DEFINE g == guards[p]
             removed == p \notin Wanted(call.options) \/ Done(g)
  <1>1. /\ call.at = "scan" /\ p \in call.scan /\ p \in Registered
        /\ g \in Guard /\ specOf[g] = p
        /\ call.fresh = NoGuard /\ ~call.failed /\ ~closed
        /\ guard[g].started = "ok" /\ ~guard[g].stopping
    BY DEF Scan, PhaseAgrees, FreshAgrees, MapAgrees, HostTypeOK, Registered
  <1>2. /\ UNCHANGED <<guardVars, closed, server, disk, specOf>>
        /\ call'.at = IF call.scan = {p} THEN "stop" ELSE "scan"
        /\ call'.scan = call.scan \ {p} /\ call'.options = call.options
        /\ call'.failed = call.failed /\ call'.index = call.index
        /\ call'.fresh = NoGuard
    BY <1>1 DEF Scan, HostTypeOK, CallType
  <1>3. CASE ~removed
    <2>1. OwnershipUnchanged
      BY <1>1, <1>2, <1>3 DEF Scan, HostTypeOK, CallType, OwnershipUnchanged
    <2>2. WaitAgrees' /\ FreshAgrees'
      BY <1>1, <1>2, <2>1 DEF WaitAgrees, FreshAgrees, OwnershipUnchanged, Done, At, guardVars
    <2>3. PhaseAgrees'
      BY <1>1, <1>2, <1>3, <2>1, OwnershipKept DEF PhaseAgrees
    <2> QED
      BY <2>1, <2>2, <2>3, OwnershipKept
  <1>4. CASE removed
    <2>1. /\ guards' = [guards EXCEPT ![p] = NoGuard]
          /\ call'.signal = call.signal \union {g}
          /\ call'.wait = call.wait \union {g}
      BY <1>4 DEF Scan, HostTypeOK, CallType
    <2>2. Registered' = Registered \ {p}
      BY <2>1 DEF Registered, HostTypeOK
    <2>3. ASSUME NEW q \in Registered'
          PROVE  q \in Registered /\ guards'[q] = guards[q] /\ guards[q] # g
      BY <2>1, <2>2, <2>3, <1>1 DEF Registered, HostTypeOK, MapAgrees
    <2>4. \A h \in Guard : Owned(h)' <=> Owned(h)
      <3>1. \A h \in Guard : InMap(h)' <=> InMap(h) /\ h # g
        BY <2>1, <2>3, <1>1, HostAssumption DEF InMap, Registered, HostTypeOK, MapAgrees
      <3> QED
        BY <3>1, <2>1, <1>1, <1>2, HostAssumption DEF Owned, InMap
    <2>5. MapAgrees'
      BY <2>1, <2>3, <1>2, HostAssumption DEF MapAgrees, guardVars, HostTypeOK, Registered
    <2>6. WaitAgrees'
      BY <2>1, <1>1, <1>2, <1>4, HostAssumption DEF WaitAgrees, guardVars, Done, At
    <2>7. FreshAgrees'
      BY <1>2 DEF FreshAgrees
    <2>8. OwnersAgree' /\ OwnersDisjoint' /\ FilesAgree'
      BY <1>2, <2>4 DEF OwnersAgree, OwnersDisjoint, FilesAgree, At, Done, guardVars
    <2>9. PhaseAgrees'
      BY <1>1, <1>2, <2>2 DEF PhaseAgrees
    <2> QED
      BY <2>5, <2>6, <2>7, <2>8, <2>9
  <1> QED
    BY <1>3, <1>4

(***************************************************************************)
(* stopGuards requests one stop (host.go stopGuards, requestStop).         *)
(***************************************************************************)
LEMMA SignalKeeps == ASSUME HostInv, NEW g \in Guard, Signal(g) PROVE HostAgrees'
  <1> USE DEF HostInv, HostAgrees
  <1>1. /\ call.at = "stop" /\ g \in call.signal /\ g \in call.wait
        /\ UNCHANGED <<run, guards, closed, server, disk, specOf>>
        /\ call'.at = "stop" /\ call'.scan = call.scan /\ call'.options = call.options
        /\ call'.failed = call.failed /\ call'.index = call.index
        /\ call'.fresh = call.fresh /\ call'.wait = call.wait
        /\ call'.signal = call.signal \ {g}
    BY DEF Signal, RequestStop, HostTypeOK, CallType, WaitAgrees
  <1>2. /\ guard'[g].stopping /\ guard'[g].started = "ok"
        /\ guard'[g].released = guard[g].released
        /\ \A h \in Guard : h # g => guard'[h] = guard[h]
    BY DEF Signal, RequestStop, HostTypeOK, GuardTypeOK, GuardType
  <1>3. \A h \in Guard : Owned(h)' <=> Owned(h)
    BY <1>1 DEF Owned, InMap
  <1>4. MapAgrees'
    BY <1>1, <1>2, HostAssumption DEF MapAgrees, Registered, HostTypeOK
  <1>5. WaitAgrees'
    BY <1>1, <1>2 DEF WaitAgrees, Done, At, HostTypeOK, CallType
  <1>6. FreshAgrees'
    BY <1>1 DEF FreshAgrees
  <1>7. OwnersAgree'
    BY <1>1, <1>2, <1>3 DEF OwnersAgree, At, Done
  <1>8. OwnersDisjoint' /\ FilesAgree'
    BY <1>1, <1>3 DEF OwnersDisjoint, FilesAgree
  <1>9. PhaseAgrees'
    BY <1>1 DEF PhaseAgrees, Registered
  <1> QED
    BY <1>4, <1>5, <1>6, <1>7, <1>8, <1>9

(***************************************************************************)
(* waitStopped returns, and its plugin's files are removed (host.go        *)
(* stopGuards, waitStopped).                                               *)
(***************************************************************************)
LEMMA WaitKeeps == ASSUME HostInv, NEW g \in Guard, Wait(g) PROVE HostAgrees'
  <1> USE DEF HostInv, HostAgrees
  <1>1. /\ call.at = "stop" /\ call.signal = {} /\ g \in call.wait
        /\ UNCHANGED <<run, guards, closed, server, specOf>>
        /\ disk' = Remove(FilesOf[specOf[g]])
        /\ call'.at = "stop" /\ call'.scan = call.scan /\ call'.options = call.options
        /\ call'.failed = call.failed /\ call'.index = call.index
        /\ call'.fresh = call.fresh /\ call.fresh = NoGuard
        /\ call'.signal = {} /\ call'.wait = call.wait \ {g}
    BY DEF Wait, WaitStopped, HostTypeOK, CallType, FreshAgrees
  <1>2. /\ guard'[g].stopping = guard[g].stopping
        /\ guard'[g].released = IF Done(g) THEN "stopped" ELSE "gaveUp"
        /\ \A h \in Guard : h # g => guard'[h] = guard[h]
    BY DEF Wait, WaitStopped, HostTypeOK, GuardTypeOK, GuardType
  <1>3. ~InMap(g) /\ Owned(g)
    BY <1>1, HostAssumption DEF InMap, MapAgrees, Registered, Owned
  <1>4. \A h \in Guard : Owned(h)' <=> Owned(h) /\ h # g
    BY <1>1, <1>3, HostAssumption DEF Owned, InMap
  <1>5. MapAgrees'
    BY <1>1, <1>2, <1>3, HostAssumption DEF MapAgrees, Registered, HostTypeOK, InMap
  <1>6. WaitAgrees'
    BY <1>1, <1>2 DEF WaitAgrees, Done, At, HostTypeOK, CallType
  <1>7. FreshAgrees'
    BY <1>1 DEF FreshAgrees
  <1>8. OwnersAgree'
    BY <1>1, <1>2, <1>4 DEF OwnersAgree, At, Done
  <1>9. OwnersDisjoint'
    BY <1>1, <1>4 DEF OwnersDisjoint
  <1>10. FilesAgree'
    <2>1. ASSUME NEW h \in Guard, Owned(h), h # g, NEW f \in FilesOf[specOf[h]]
          PROVE  disk'[f] = specOf[h]
      <3>1. specOf[h] \in Plugin
        BY <2>1, <1>1, HostAssumption DEF Owned, InMap, MapAgrees, WaitAgrees, Registered
      <3>2. f \in File /\ f \notin FilesOf[specOf[g]]
        BY <2>1, <3>1, <1>3, HostAssumption DEF OwnersDisjoint
      <3> QED
        BY <1>1, <2>1, <3>2 DEF Remove, FilesAgree
    <2>2. ASSUME NEW f \in File, disk'[f] # NoPlugin
          PROVE  /\ f \in FilesOf[disk'[f]]
                 /\ \E h \in Guard : Owned(h)' /\ specOf[h] = disk'[f]
      <3>1. disk'[f] = disk[f] /\ f \notin FilesOf[specOf[g]]
        BY <1>1, <2>2 DEF Remove
      <3>2. f \in FilesOf[disk[f]]
        BY <2>2, <3>1 DEF FilesAgree
      <3>3. PICK h \in Guard : Owned(h) /\ specOf[h] = disk[f]
        BY <2>2, <3>1 DEF FilesAgree
      <3>4. h # g
        BY <3>1, <3>2, <3>3
      <3> QED
        BY <1>4, <3>1, <3>2, <3>3, <3>4
    <2> QED
      BY <1>1, <1>4, <2>1, <2>2 DEF FilesAgree
  <1>11. PhaseAgrees'
    BY <1>1 DEF PhaseAgrees, Registered
  <1> QED
    BY <1>5, <1>6, <1>7, <1>8, <1>9, <1>10, <1>11

(***************************************************************************)
(* start writes the files of a plugin and launches its guard (host.go      *)
(* start, prepare).                                                        *)
(***************************************************************************)
LEMMA StartKeeps == ASSUME HostInv, NEW g \in Guard, Start(g) PROVE HostAgrees'
  <1> USE DEF HostInv, HostAgrees
  <1> DEFINE p == call.options.plugins[call.index]
  <1>1. /\ call.at = "start" /\ call.index <= Len(call.options.plugins)
        /\ guards[p] = NoGuard /\ At(g, "idle")
        /\ UNCHANGED <<guard, guards, closed, server>>
        /\ disk' = Write(p) /\ specOf' = [specOf EXCEPT ![g] = p]
        /\ \A h \in Guard : h # g => run'[h] = run[h]
        /\ run'[g].at = "start"
    BY DEF Start, Launch, Goto, HostTypeOK, GuardTypeOK, RunType
  <1>2. /\ call'.at = "starting" /\ call'.scan = {} /\ call'.options = call.options
        /\ call'.failed = call.failed /\ call'.index = call.index
        /\ call'.fresh = g /\ call'.wait = {} /\ call'.signal = {}
    BY <1>1, StartPhase DEF Start, HostTypeOK, CallType
  <1>3. ~Owned(g) /\ p \in Plugin /\ p \notin Registered
    BY <1>1, StartPhase DEF OwnersAgree, Registered
  <1>4. /\ \A h \in Guard : Owned(h)' <=> Owned(h) \/ h = g
        /\ \A h \in Guard : Owned(h) <=> InMap(h)
    BY <1>1, <1>2, StartPhase, HostAssumption DEF Owned, InMap
  <1>5. specOf'[g] = p /\ \A h \in Guard : h # g => specOf'[h] = specOf[h]
    BY <1>1 DEF HostTypeOK
  <1>6. guard[g].started = "no" /\ ~guard[g].stopping /\ guard[g].released = "no"
    BY <1>1 DEF GuardInv, ActorsAgree, StartedFollowsRun, At
  <1>7. ASSUME NEW h \in Guard, Owned(h)
        PROVE  /\ specOf[h] \in Registered /\ specOf[h] # p /\ h # g
               /\ FilesOf[specOf[h]] \intersect FilesOf[p] = {}
    BY <1>1, <1>3, <1>4, <1>7, StartPhase, HostAssumption DEF InMap, MapAgrees, Registered
  <1>8. MapAgrees'
    BY <1>1, <1>2, <1>3, <1>5, HostAssumption
       DEF MapAgrees, Registered, HostTypeOK, Owned, InMap
  <1>9. WaitAgrees' /\ FreshAgrees'
    BY <1>1, <1>2, <1>3, <1>5, <1>6, StartPhase, HostAssumption
       DEF WaitAgrees, FreshAgrees, Registered
  <1>10. OwnersAgree'
    BY <1>1, <1>4, <1>6 DEF OwnersAgree, At, Done
  <1>11. OwnersDisjoint'
    BY <1>4, <1>5, <1>7 DEF OwnersDisjoint
  <1>12. FilesAgree'
    <2>1. ASSUME NEW h \in Guard, Owned(h)', NEW f \in FilesOf[specOf'[h]]
          PROVE  disk'[f] = specOf'[h]
      <3>1. CASE h = g
        BY <3>1, <2>1, <1>1, <1>3, <1>5, HostAssumption DEF Write
      <3>2. CASE h # g
        <4>1. Owned(h) /\ specOf'[h] = specOf[h]
          BY <3>2, <2>1, <1>4, <1>5
        <4>2. f \in File /\ f \notin FilesOf[p]
          BY <4>1, <2>1, <1>7, HostAssumption DEF Registered
        <4> QED
          BY <4>1, <4>2, <2>1, <1>1 DEF Write, FilesAgree
      <3> QED
        BY <3>1, <3>2
    <2>2. ASSUME NEW f \in File, disk'[f] # NoPlugin
          PROVE  /\ f \in FilesOf[disk'[f]]
                 /\ \E h \in Guard : Owned(h)' /\ specOf'[h] = disk'[f]
      <3>1. CASE f \in FilesOf[p]
        BY <3>1, <1>1, <1>4, <1>5 DEF Write
      <3>2. CASE f \notin FilesOf[p]
        <4>1. disk'[f] = disk[f]
          BY <3>2, <1>1 DEF Write
        <4>2. PICK h \in Guard : Owned(h) /\ specOf[h] = disk[f]
          BY <4>1, <2>2 DEF FilesAgree
        <4> QED
          BY <4>1, <4>2, <2>2, <1>4, <1>5, <1>7 DEF FilesAgree
      <3> QED
        BY <3>1, <3>2
    <2> QED
      BY <2>1, <2>2 DEF FilesAgree
  <1>13. PhaseAgrees'
    BY <1>1, <1>2, StartPhase DEF PhaseAgrees, Registered
  <1> QED
    BY <1>8, <1>9, <1>10, <1>11, <1>12, <1>13

(***************************************************************************)
(* A guard goes on beside the call (host.go run, killGroup).               *)
(***************************************************************************)
LEMMA GuardStepKeepsHost ==
    ASSUME HostInv, NEW g \in Guard, GuardStep(g) PROVE HostAgrees'
  <1> USE DEF HostInv, HostAgrees
  <1>1. UNCHANGED hostVars
    BY DEF GuardStep
  <1>2. \A h \in Guard : Owned(h)' <=> Owned(h)
    BY <1>1 DEF hostVars, Owned, InMap
  <1>3. \A p \in Registered : guards[p] \in Guard
    BY DEF Registered, HostTypeOK
  <1>4. MapAgrees'
    BY <1>1, <1>3, GuardStepKeeps DEF hostVars, MapAgrees, Registered
  <1>5. WaitAgrees'
    BY <1>1, GuardStepKeeps DEF hostVars, WaitAgrees, HostTypeOK, CallType
  <1>6. FreshAgrees'
    BY <1>1, StartingPhase, GuardStepKeeps DEF hostVars, FreshAgrees, Registered
  <1>7. OwnersAgree'
    BY <1>1, <1>2, GuardStepKeeps DEF OwnersAgree
  <1>8. OwnersDisjoint' /\ FilesAgree'
    BY <1>1, <1>2 DEF hostVars, OwnersDisjoint, FilesAgree
  <1>9. PhaseAgrees'
    BY <1>1 DEF hostVars, PhaseAgrees, Registered
  <1> QED
    BY <1>4, <1>5, <1>6, <1>7, <1>8, <1>9

(***************************************************************************)
(* A guard nobody refers to becomes a new one.                             *)
(***************************************************************************)
LEMMA RecycleKeeps == ASSUME HostInv, NEW g \in Guard, Recycle(g) PROVE HostAgrees'
  <1> USE DEF HostInv, HostAgrees
  <1>1. /\ UNCHANGED <<guards, closed, server, disk, call>>
        /\ guard[g].started = "error" \/ guard[g].released # "no"
        /\ g # call.fresh
        /\ run'[g] = NewRun /\ guard'[g] = NewGuard
        /\ \A h \in Guard : h # g => run'[h] = run[h] /\ guard'[h] = guard[h]
                                     /\ specOf'[h] = specOf[h]
    BY DEF Recycle, Collect, HostTypeOK, GuardTypeOK
  <1>2. ~Owned(g)
    BY <1>1, HostAssumption DEF Owned, InMap, MapAgrees, WaitAgrees, OwnersAgree, Registered
  <1>3. \A h \in Guard : Owned(h)' <=> Owned(h)
    BY <1>1 DEF Owned, InMap
  <1>4. MapAgrees' /\ WaitAgrees'
    BY <1>1, <1>2, HostAssumption
       DEF MapAgrees, WaitAgrees, Registered, HostTypeOK, CallType, Owned, InMap, Done, At
  <1>5. FreshAgrees'
    BY <1>1, StartingPhase DEF FreshAgrees, Registered
  <1>6. OwnersAgree'
    BY <1>1, <1>2, <1>3 DEF OwnersAgree, At, Done, NewRun, NewGuard
  <1>7. OwnersDisjoint' /\ FilesAgree'
    BY <1>1, <1>2, <1>3 DEF OwnersDisjoint, FilesAgree
  <1>8. PhaseAgrees'
    BY <1>1 DEF PhaseAgrees, Registered
  <1> QED
    BY <1>4, <1>5, <1>6, <1>7, <1>8

(***************************************************************************)
(* A new host, without plugins, satisfies the invariant (host.go NewHost). *)
(***************************************************************************)
LEMMA HostInitInv == ASSUME Init PROVE HostInv
  <1>1. GuardInv
    BY GuardInitInv DEF Init
  <1>2. NoCall \in CallType
    BY DEF NoCall, CallType, CallAt, Options
  <1>3. HostTypeOK
    BY <1>1, <1>2 DEF Init, HostTypeOK, GuardInv, NoServer
  <1>4. Registered = {} /\ \A g \in Guard : ~Owned(g)
    BY HostAssumption DEF Init, Registered, Owned, InMap, NoCall
  <1>5. HostAgrees
    BY <1>4 DEF Init, HostAgrees, MapAgrees, WaitAgrees, FreshAgrees, OwnersAgree,
                OwnersDisjoint, FilesAgree, PhaseAgrees, NoCall, GuardInit, NewRun, NewGuard,
                At, Done
  <1> QED
    BY <1>1, <1>3, <1>5 DEF HostInv

(***************************************************************************)
(* HostInv is inductive: Apply and Close, with every way they fail, keep   *)
(* the map, the guards, the files and the listener in agreement (host.go   *)
(* Apply, Close).                                                          *)
(***************************************************************************)
LEMMA HostNextInv == ASSUME HostInv, [Next]_vars PROVE HostInv'
  <1> USE DEF HostInv
  <1>1. GuardInv'
    BY HostNextGuards, GuardNextInv
  <1>2. HostTypeOK'
    BY <1>1, HostNextType DEF GuardInv, HostAgrees
  <1>3. HostAgrees'
    <2>1. CASE UNCHANGED vars
      <3>1. UNCHANGED <<guardVars, guards, closed, server, disk, specOf, call>>
        BY <2>1 DEF vars, hostVars
      <3>2. OwnershipUnchanged
        BY <3>1 DEF OwnershipUnchanged
      <3>3. WaitAgrees' /\ FreshAgrees' /\ PhaseAgrees'
        BY <3>1 DEF HostAgrees, WaitAgrees, FreshAgrees, PhaseAgrees, Registered, guardVars,
                    Done, At
      <3> QED
        BY <3>2, <3>3, OwnershipKept DEF HostAgrees
    <2>2. ASSUME NEW options \in Options, Apply(options) PROVE HostAgrees'
      BY <2>2, ApplyKeeps
    <2>3. CASE Close
      BY <2>3, CloseKeeps
    <2>4. CASE ApplyClosed
      BY <2>4, <2>1 DEF ApplyClosed
    <2>5. CASE StopEnd \/ KeepServer \/ ReplaceServer \/ MkdirAll
      BY <2>5, StopEndKeeps, KeepServerKeeps, ReplaceServerKeeps, MkdirAllKeeps
    <2>6. CASE Skip \/ PrepareError \/ Started \/ StartError
      BY <2>6, SkipKeeps, PrepareErrorKeeps, StartedKeeps, StartErrorKeeps
    <2>7. CASE ApplyDone \/ CloseServer
      BY <2>7, ReturnKeeps DEF ApplyDone, CloseServer
    <2>8. CASE StopAll
      BY <2>8, StopAllKeeps
    <2>9. ASSUME NEW p \in Plugin, Scan(p) PROVE HostAgrees'
      BY <2>9, ScanKeeps
    <2>10. ASSUME NEW g \in Guard, Signal(g) \/ Wait(g) \/ Start(g) PROVE HostAgrees'
      BY <2>10, SignalKeeps, WaitKeeps, StartKeeps
    <2>11. ASSUME NEW g \in Guard, GuardStep(g) \/ Recycle(g) PROVE HostAgrees'
      BY <2>11, GuardStepKeepsHost, RecycleKeeps
    <2> QED
      BY <2>1, <2>2, <2>3, <2>4, <2>5, <2>6, <2>7, <2>8, <2>9, <2>10, <2>11
         DEF Next, CallStep
  <1> QED
    BY <1>1, <1>2, <1>3

(***************************************************************************)
(* The map, the guards, the files on disk and the listener agree at every  *)
(* point of every call (host.go Apply, Close).                             *)
(***************************************************************************)
THEOREM HostInvariance == Spec => []HostInv
  <1>1. Init => HostInv
    BY HostInitInv
  <1>2. HostInv /\ [Next]_vars => HostInv'
    BY HostNextInv
  <1> QED
    BY <1>1, <1>2, PTL DEF Spec

(***************************************************************************)
(* The types of the host's fields and of the call's variables.             *)
(***************************************************************************)
THEOREM HostTypeInvariant == Spec => []HostTypeOK
  <1>1. HostInv => HostTypeOK
    BY DEF HostInv
  <1> QED
    BY <1>1, HostInvariance, PTL

(***************************************************************************)
(* A supervised plugin has its files on disk (host.go prepare,             *)
(* removeFiles; options.go validate).                                      *)
(***************************************************************************)
THEOREM FilesMatchPluginsAlways == Spec => []FilesMatchPlugins
  <1>1. HostInv => FilesMatchPlugins
    BY DEF HostInv, HostAgrees, OwnersAgree, FilesAgree, FilesMatchPlugins, Running, At, Done
  <1> QED
    BY <1>1, HostInvariance, PTL

(***************************************************************************)
(* No way out of Apply or Close leaves a file behind (host.go start,       *)
(* stopGuards).                                                            *)
(***************************************************************************)
THEOREM NoLeftoverFilesAlways == Spec => []NoLeftoverFiles
  <1>1. ASSUME HostInv, call.at = "idle" PROVE \A g \in Guard : Owned(g) => InMap(g)
    BY <1>1, HostAssumption DEF HostInv, HostAgrees, PhaseAgrees, FreshAgrees, Owned
  <1>2. ASSUME HostInv, NEW g \in Guard, InMap(g) PROVE specOf[g] \in Registered
    BY <1>2, HostAssumption DEF HostInv, HostAgrees, InMap, MapAgrees, Registered
  <1>3. HostInv => NoLeftoverFiles
    BY <1>1, <1>2 DEF HostInv, HostAgrees, FilesAgree, NoLeftoverFiles
  <1> QED
    BY <1>3, HostInvariance, PTL

(***************************************************************************)
(* No call loses track of a guard that runs (host.go Apply, stopAll).      *)
(***************************************************************************)
THEOREM NoLostGuardsAlways == Spec => []NoLostGuards
  <1>1. ASSUME HostInv, call.at = "idle" PROVE \A g \in Guard : Owned(g) => InMap(g)
    BY <1>1, HostAssumption DEF HostInv, HostAgrees, PhaseAgrees, FreshAgrees, Owned
  <1>2. ASSUME HostInv, NEW g \in Guard, InMap(g)
        PROVE  \E p \in Plugin : guards[p] = g /\ specOf[g] = p
    BY <1>2, HostAssumption DEF HostInv, HostAgrees, InMap, MapAgrees, Registered
  <1>3. HostInv => \A g \in Guard : guard[g].released \in {"no", "stopped", "gaveUp"}
    BY DEF HostInv, HostTypeOK, GuardTypeOK, GuardType
  <1>4. HostInv => NoLostGuards
    BY <1>1, <1>2, <1>3
       DEF HostInv, HostAgrees, OwnersAgree, NoLostGuards, Running, Abandoned, At, Done
  <1> QED
    BY <1>4, HostInvariance, PTL

(***************************************************************************)
(* A replaced plugin is gone before its successor starts, unless its stop  *)
(* gave up (host.go Apply, waitStopped).                                   *)
(***************************************************************************)
THEOREM NeverTwoLiveAlways == Spec => []NeverTwoLive
  <1>1. ASSUME HostInv, NEW g \in Guard, proc[g].life = "alive", ~Abandoned(g)
        PROVE  Owned(g)
    <2>1. ~At(g, "idle") /\ ~Done(g)
      BY <1>1 DEF HostInv, GuardInv, ActorsAgree, ProcessFollowsRun, Unforked, At, Done
    <2>2. guard[g].released \in {"no", "stopped", "gaveUp"}
      BY <1>1 DEF HostInv, HostTypeOK, GuardTypeOK, GuardType
    <2> QED
      BY <1>1, <2>1, <2>2 DEF HostInv, HostAgrees, OwnersAgree, Abandoned
  <1>2. HostInv => NeverTwoLive
    BY <1>1 DEF HostInv, HostAgrees, OwnersDisjoint, NeverTwoLive
  <1> QED
    BY <1>2, HostInvariance, PTL

(***************************************************************************)
(* The listener of a path that stays is neither closed nor bound again     *)
(* (host.go updateServer).                                                 *)
(***************************************************************************)
THEOREM SocketSurvivesReloadAlways == Spec => SocketSurvivesReload
  <1> DEFINE Survives == server.path # NoPath /\ server'.path # server.path
                           => call.options.path # server.path \/ call.failed \/ closed
  <1>1. ASSUME HostInv, [Next]_vars PROVE Survives
    <2>1. CASE ReplaceServer
      BY <2>1 DEF ReplaceServer
    <2>2. CASE CloseServer
      BY <2>2, <1>1 DEF CloseServer, HostInv, HostAgrees, PhaseAgrees
    <2>3. CASE KeepServer
      BY <2>3, <1>1 DEF KeepServer, HostInv, HostTypeOK
    <2>4. CASE ~ReplaceServer /\ ~CloseServer /\ ~KeepServer
      <3>1. server' = server
        BY <1>1, <2>4 DEF Next, CallStep, Apply, ApplyClosed, Close, StopEnd, MkdirAll, Skip,
               PrepareError, Started, StartError, ApplyDone, StopAll, Scan, Signal, Wait,
               Start, GuardStep, Recycle, vars, hostVars
      <3> QED
        BY <3>1
    <2> QED
      BY <2>1, <2>2, <2>3, <2>4
  <1>2. HostInv /\ [Next]_vars => [Survives]_vars
    BY <1>1
  <1> QED
    BY <1>2, HostInvariance, PTL DEF Spec, SocketSurvivesReload

(***************************************************************************)
(* A wanted plugin that runs is not told to stop (host.go Apply).          *)
(***************************************************************************)
THEOREM UnchangedPluginsKeepRunningAlways == Spec => UnchangedPluginsKeepRunning
  <1> DEFINE Wants(g) == \/ specOf[g] \notin Wanted(call.options)
                         \/ Done(g) \/ call.failed \/ closed
             Keeps == \A g \in Guard :
                          ~guard[g].stopping /\ guard'[g].stopping => Wants(g)
  <1>1. ASSUME HostInv, [Next]_vars PROVE Keeps
    <2> SUFFICES ASSUME NEW g \in Guard, ~guard[g].stopping, guard'[g].stopping PROVE Wants(g)
      OBVIOUS
    <2>1. GuardTypeOK
      BY <1>1 DEF HostInv, GuardInv
    <2>2. guard' # guard
      OBVIOUS
    <2>3. CASE \E h \in Guard : Signal(h)
      <3>1. PICK h \in Guard : Signal(h)
        BY <2>3
      <3>2. h = g
        BY <2>1, <3>1 DEF Signal, RequestStop, GuardTypeOK, GuardType
      <3> QED
        BY <1>1, <3>1, <3>2 DEF Signal, HostInv, HostAgrees, WaitAgrees
    <2>4. CASE \E h \in Guard : Wait(h)
      BY <2>1, <2>4 DEF Wait, WaitStopped, GuardTypeOK, GuardType
    <2>5. CASE \E h \in Guard : GuardStep(h)
      BY <1>1, <2>5, GuardStepKeeps DEF HostInv
    <2>6. CASE \E h \in Guard : Recycle(h)
      BY <2>1, <2>6 DEF Recycle, Collect, NewGuard, GuardTypeOK, GuardType
    <2> QED
      BY <1>1, <2>2, <2>3, <2>4, <2>5, <2>6
         DEF Next, CallStep, Apply, ApplyClosed, Close, StopEnd, KeepServer, ReplaceServer,
             MkdirAll, Skip, PrepareError, Started, StartError, ApplyDone, StopAll,
             CloseServer, Scan, Start, Launch, vars, guardVars
  <1>2. HostInv /\ [Next]_vars => [Keeps]_vars
    BY <1>1
  <1> QED
    BY <1>2, HostInvariance, PTL DEF Spec, UnchangedPluginsKeepRunning

(***************************************************************************)
(* A call that succeeds leaves what the envelope describes, one that fails *)
(* leaves nothing (host.go Apply, startMissing, stopAll).                  *)
(***************************************************************************)
THEOREM ApplyReconcilesAlways == Spec => ApplyReconciles
  <1> DEFINE Reconciles ==
          Returns => IF call.failed \/ closed
                     THEN Registered' = {} /\ server' = NoServer
                     ELSE /\ Registered' = Wanted(call.options)
                          /\ server'.path = call.options.path
                          /\ server'.path # NoPath => server'.verify = call.options.verify
  <1>1. ASSUME HostInv, [Next]_vars PROVE Reconciles
    <2> SUFFICES ASSUME Returns PROVE Reconciles
      OBVIOUS
    <2> USE <1>1 DEF HostInv, HostAgrees
    <2>1. CASE ApplyDone
      <3>1. /\ call.at = "start" /\ call.index > Len(call.options.plugins)
            /\ guards' = guards /\ server' = server
        BY <2>1 DEF ApplyDone
      <3>2. Wanted(call.options) \subseteq Registered
        BY <3>1, StartPhase DEF PhaseAgrees, Wanted
      <3>3. Registered' = Wanted(call.options)
        BY <3>1, <3>2, StartPhase DEF PhaseAgrees, Registered
      <3> QED
        BY <3>1, <3>3, StartPhase DEF PhaseAgrees
    <2>2. CASE CloseServer
      BY <2>2 DEF CloseServer, PhaseAgrees, Registered
    <2>3. CASE MkdirAll
      <3>1. /\ call.at = "mkdir" /\ call.options = NoOptions
            /\ guards' = guards /\ server' = server
        BY <2>3 DEF MkdirAll, Returns, Failing, HostTypeOK, CallType
      <3>2. Wanted(call.options) = {}
        BY <3>1 DEF Wanted, NoOptions
      <3> QED
        BY <3>1, <3>2 DEF PhaseAgrees, Registered
    <2>4. CASE ~ApplyDone /\ ~CloseServer /\ ~MkdirAll
      <3>1. call'.at # "idle" \/ call.at = "idle"
        BY <2>4 DEF Next, CallStep, Apply, ApplyClosed, Close, StopEnd, KeepServer,
               ReplaceServer, Skip, PrepareError, Started, StartError, StopAll, Scan,
               Signal, Wait, Start, GuardStep, Recycle, vars, hostVars, Failing, Advance,
               HostTypeOK, CallType
      <3> QED
        BY <3>1 DEF Returns
    <2> QED
      BY <2>1, <2>2, <2>3, <2>4
  <1>2. HostInv /\ [Next]_vars => [Reconciles]_vars
    BY <1>1
  <1> QED
    BY <1>2, HostInvariance, PTL DEF Spec, ApplyReconciles

-----------------------------------------------------------------------------
(* What a call waits for while it holds h.access.                          *)

(***************************************************************************)
(* At each position where a call can wait, what it waits for is to come:   *)
(*  - the range over h.guards has a guard left to visit;                   *)
(*  - stopGuards has guards left whose stop it can request, or has         *)
(*    requested it and not yet waited, so that a timer is the worst case;  *)
(*  - start has its answer, or run is about to give it: cmd.Start returns  *)
(*    at "start", and after an error nothing is left but close(done).      *)
(***************************************************************************)
CallNeverStuck ==
    /\ call.at = "scan" => call.scan # {}
    /\ call.at = "stop" =>
           \A g \in call.wait :
               /\ guard[g].started = "ok" /\ guard[g].released = "no"
               /\ guard[g].stopping <=> g \notin call.signal
    /\ call.at = "starting" =>
           \/ guard[call.fresh].started = "ok"
           \/ guard[call.fresh].started = "no" /\ At(call.fresh, "start")
           \/ guard[call.fresh].started = "error" /\ run[call.fresh].at \in {"closing", "done"}

\* A goroutine never ends without having answered start.
EndAnswers ==
    \A g \in Guard : run[g].at \in {"closing", "done"} => guard[g].started # "no"

ScanGoesOn == call.at = "scan" => call.scan # {}

(***************************************************************************)
(* run sends on started before any return (host.go run).                   *)
(***************************************************************************)
LEMMA EndAnswersStep ==
    ASSUME GuardInv, EndAnswers, [GuardNext]_guardVars
    PROVE  EndAnswers'
  <1> USE DEF GuardInv, GuardTypeOK, RunType, GuardType, EndAnswers, At
  <1>1. CASE UNCHANGED <<run, guard>>
    BY <1>1
  <1>2. ASSUME NEW g \in Guard, CmdStart(g) PROVE EndAnswers'
    BY <1>2 DEF CmdStart, Goto
  <1>3. ASSUME NEW g \in Guard, CmdStartError(g) PROVE EndAnswers'
    <2>1. CASE run[g].first
      <3>1. guard' = [guard EXCEPT ![g].started = "error"] /\ Goto(g, "closing")
        BY <1>3, <2>1 DEF CmdStartError
      <3> QED
        BY <3>1 DEF Goto
    <2>2. CASE ~run[g].first
      <3>1. guard' = guard /\ Goto(g, "fail")
        BY <1>3, <2>2 DEF CmdStartError
      <3> QED
        BY <3>1 DEF Goto
    <2> QED
      BY <2>1, <2>2
  <1>4. ASSUME NEW g \in Guard, Collect(g) PROVE EndAnswers'
    BY <1>4 DEF Collect, NewRun, NewGuard
  <1>5. ASSUME NEW g \in Guard, \A h \in Guard : guard'[h].started = guard[h].started,
               \A h \in Guard : h # g => run'[h] = run[h],
               \/ run'[g].at \notin {"closing", "done"}
               \/ run[g].at \in {"check", "fail", "report", "backoff", "closing"}
        PROVE  EndAnswers'
    <2> SUFFICES ASSUME NEW h \in Guard, run'[h].at \in {"closing", "done"}
                 PROVE  guard[h].started # "no"
      BY <1>5
    <2>1. CASE h # g
      BY <1>5, <2>1
    <2>2. CASE h = g /\ run[g].at = "closing"
      BY <2>2
    <2>3. CASE h = g /\ run[g].at # "closing"
      BY <1>5, <2>3 DEF ActorsAgree, StartedFollowsRun
    <2> QED
      BY <2>1, <2>2, <2>3
  <1>6. ASSUME NEW g \in Guard,
               \/ Launch(g) \/ AttachTail(g) \/ Reap(g) \/ Drain(g) \/ BackoffTimer(g)
        PROVE  EndAnswers'
    <2>1. UNCHANGED guard
      BY <1>6 DEF Launch, AttachTail, Reap, Drain, BackoffTimer
    <2>2. /\ \A h \in Guard : h # g => run'[h] = run[h]
          /\ run'[g].at \in {"start", "wait", "drain", "detach"}
      <3>1. CASE Launch(g)
        BY <3>1 DEF Launch, Goto
      <3>2. CASE AttachTail(g)
        BY <3>2 DEF AttachTail
      <3>3. CASE Reap(g)
        BY <3>3 DEF Reap
      <3>4. CASE Drain(g)
        BY <3>4 DEF Drain
      <3>5. CASE BackoffTimer(g)
        BY <3>5 DEF BackoffTimer
      <3> QED
        BY <1>6, <3>1, <3>2, <3>3, <3>4, <3>5
    <2> QED
      BY <1>5, <2>1, <2>2
  <1>7. ASSUME NEW g \in Guard, Attach(g) \/ Detach(g) PROVE EndAnswers'
    <2>1. \A h \in Guard : guard'[h].started = guard[h].started
      <3>1. \E set \in BOOLEAN : guard' = [guard EXCEPT ![g].process = set]
        BY <1>7 DEF Attach, Detach
      <3> QED
        BY <3>1
    <2>2. \A h \in Guard : h # g => run'[h] = run[h]
      BY <1>7 DEF Attach, Detach, Goto
    <2>3. run'[g].at \in {"mark", "check"}
      <3>1. CASE Attach(g)
        BY <3>1 DEF Attach
      <3>2. CASE Detach(g)
        BY <3>2 DEF Detach, Goto
      <3> QED
        BY <1>7, <3>1, <3>2
    <2> QED
      BY <1>5, <2>1, <2>2, <2>3
  <1>8. ASSUME NEW g \in Guard,
               \/ AfterRun(g) \/ FailCheck(g) \/ Report(g) \/ BackoffStop(g) \/ CloseDone(g)
        PROVE  EndAnswers'
    <2>1. run[g].at \in {"check", "fail", "report", "backoff", "closing"} /\ UNCHANGED guard
      BY <1>8 DEF AfterRun, FailCheck, Report, BackoffStop, CloseDone
    <2>2. \A h \in Guard : h # g => run'[h] = run[h]
      BY <1>8 DEF AfterRun, FailCheck, Report, BackoffStop, CloseDone, Goto
    <2> QED
      BY <1>5, <2>1, <2>2
  <1>9. ASSUME NEW g \in Guard, RequestStop(g) \/ KillGroup(g) \/ WaitStopped(g)
        PROVE  EndAnswers'
    <2>1. UNCHANGED run
      BY <1>9 DEF RequestStop, KillGroup, WaitStopped
    <2>2. CASE RequestStop(g)
      BY <2>1, <2>2 DEF RequestStop
    <2>3. CASE KillGroup(g)
      BY <2>1, <2>3 DEF KillGroup
    <2>4. CASE WaitStopped(g)
      BY <2>1, <2>4 DEF WaitStopped
    <2> QED
      BY <1>9, <2>2, <2>3, <2>4
  <1>10. ASSUME NEW g \in Guard, KernelStep(g) PROVE UNCHANGED <<run, guard>>
    BY <1>10 DEF KernelStep, ProcExit, Spawn, KinExit
  <1> QED
    BY <1>1, <1>2, <1>3, <1>4, <1>6, <1>7, <1>8, <1>9, <1>10
       DEF GuardNext, RunStep, guardVars

(***************************************************************************)
(* Apply leaves its loop over the map with the last guard (host.go Apply). *)
(***************************************************************************)
LEMMA ScanGoesOnStep ==
    ASSUME HostTypeOK, ScanGoesOn, [Next]_vars
    PROVE  ScanGoesOn'
  <1> USE DEF ScanGoesOn
  <1>1. ASSUME NEW options \in Options, Apply(options) PROVE ScanGoesOn'
    <2>1. /\ call'.at = IF Registered = {} THEN "stop" ELSE "scan"
          /\ call'.scan = Registered
      BY <1>1 DEF Apply, NoCall
    <2> QED
      BY <2>1
  <1>2. ASSUME NEW p \in Plugin, Scan(p) PROVE ScanGoesOn'
    <2>1. /\ call'.at = IF call.scan = {p} THEN "stop" ELSE call.at
          /\ call'.scan = call.scan \ {p} /\ p \in call.scan
      BY <1>2 DEF Scan, HostTypeOK, CallType
    <2> QED
      BY <2>1
  <1>3. CASE UNCHANGED call
    BY <1>3
  <1>4. ASSUME Close \/ StopAll \/ StopEnd PROVE ScanGoesOn'
    <2>1. call'.at \in {"stopAll", "stop", "closeServer", "server"}
      BY <1>4 DEF Close, StopAll, StopEnd, NoCall, HostTypeOK, CallType
    <2> QED
      BY <2>1
  <1>5. ASSUME KeepServer \/ ReplaceServer \/ MkdirAll PROVE ScanGoesOn'
    <2>0. Failing.at = "stopAll" /\ NoCall.at = "idle"
      BY DEF Failing, NoCall, HostTypeOK, CallType
    <2>1. call'.at \in {"mkdir", "start", "stopAll", "idle"}
      <3>1. \/ \E place \in {"mkdir", "start"} : call' = [call EXCEPT !.at = place]
            \/ call' \in {Failing, NoCall}
        BY <1>5 DEF KeepServer, ReplaceServer, MkdirAll
      <3> QED
        BY <2>0, <3>1 DEF HostTypeOK, CallType
    <2> QED
      BY <2>1
  <1>6. ASSUME \/ Skip \/ PrepareError \/ Started \/ StartError \/ ApplyDone \/ CloseServer
               \/ \E g \in Guard : Start(g)
        PROVE  ScanGoesOn'
    <2>0. Failing.at = "stopAll" /\ NoCall.at = "idle" /\ Advance.at = "start"
      BY DEF Failing, NoCall, Advance, HostTypeOK, CallType
    <2>1. call'.at \in {"start", "starting", "stopAll", "idle"}
      <3>1. CASE \E g \in Guard : Start(g)
        BY <3>1 DEF Start, HostTypeOK, CallType
      <3>2. CASE ~\E g \in Guard : Start(g)
        <4>1. call' \in {Failing, NoCall, Advance}
          BY <1>6, <3>2 DEF Skip, PrepareError, Started, StartError, ApplyDone, CloseServer
        <4> QED
          BY <2>0, <4>1
      <3> QED
        BY <3>1, <3>2
    <2> QED
      BY <2>1
  <1>7. ASSUME NEW g \in Guard, Signal(g) \/ Wait(g) PROVE ScanGoesOn'
    <2>1. call'.at = call.at /\ call.at = "stop"
      BY <1>7 DEF Signal, Wait, HostTypeOK, CallType
    <2> QED
      BY <2>1
  <1>8. ASSUME NEW g \in Guard, GuardStep(g) \/ Recycle(g) PROVE UNCHANGED call
    BY <1>8 DEF GuardStep, Recycle, hostVars
  <1>9. ASSUME ApplyClosed \/ UNCHANGED vars PROVE UNCHANGED call
    BY <1>9 DEF ApplyClosed, vars, hostVars
  <1> QED
    BY <1>1, <1>2, <1>3, <1>4, <1>5, <1>6, <1>7, <1>8, <1>9 DEF Next, CallStep

(***************************************************************************)
(* A call of Apply or Close, which holds h.access until it returns, never  *)
(* waits for what nobody will do: a stop nobody requested, a guard that    *)
(* was waited for before, an answer run has gone without (host.go          *)
(* stopGuards, waitStopped, start).                                        *)
(***************************************************************************)
THEOREM CallNeverStuckAlways == Spec => []CallNeverStuck
  <1>1. Init => EndAnswers /\ ScanGoesOn
    BY DEF Init, GuardInit, NewRun, NoCall, EndAnswers, ScanGoesOn
  <1>2. /\ HostInv /\ EndAnswers /\ ScanGoesOn /\ [Next]_vars
        => EndAnswers' /\ ScanGoesOn'
    BY HostNextGuards, EndAnswersStep, ScanGoesOnStep DEF HostInv
  <1>3. HostInv /\ EndAnswers /\ ScanGoesOn => CallNeverStuck
    <2> SUFFICES ASSUME HostInv, EndAnswers, ScanGoesOn PROVE CallNeverStuck
      OBVIOUS
    <2>1. \A g \in call.wait :
              /\ g \in Guard /\ guard[g].started = "ok" /\ guard[g].released = "no"
              /\ guard[g].stopping <=> g \notin call.signal
      <3>1. ASSUME NEW g \in call.wait PROVE g \in Guard /\ Owned(g)
        BY <3>1 DEF HostInv, HostTypeOK, CallType, Owned
      <3> QED
        BY <3>1 DEF HostInv, HostAgrees, WaitAgrees, OwnersAgree
    <2>2. ASSUME call.at = "starting"
          PROVE  \/ guard[call.fresh].started = "ok"
                 \/ guard[call.fresh].started = "no" /\ At(call.fresh, "start")
                 \/ /\ guard[call.fresh].started = "error"
                    /\ run[call.fresh].at \in {"closing", "done"}
      <3> DEFINE g == call.fresh
      <3>1. g \in Guard
        BY <2>2 DEF HostInv, HostTypeOK, CallType, HostAgrees, FreshAgrees
      <3>2. ~At(g, "idle") /\ guard[g].started \in {"no", "ok", "error"}
        BY <3>1 DEF HostInv, HostAgrees, OwnersAgree, Owned, GuardInv, GuardTypeOK, GuardType
      <3>3. StartedFollowsRun(g) /\ (run[g].at \in {"closing", "done"} => guard[g].started # "no")
        BY <3>1 DEF HostInv, GuardInv, ActorsAgree, EndAnswers
      <3> QED
        BY <3>2, <3>3 DEF StartedFollowsRun, At
    <2> QED
      BY <2>1, <2>2 DEF CallNeverStuck, ScanGoesOn
  <1> QED
    BY <1>1, <1>2, <1>3, HostInvariance, PTL DEF Spec

-----------------------------------------------------------------------------
(* PluginHost implements PluginSet: every step of the host, of a           *)
(* supervisor or of the kernel is one the promise allows, or is invisible. *)

\* Without a path there is no listener, and no flag of one.
ServerAgrees == server.path = NoPath => server = NoServer

SetInv == HostInv /\ ServerAgrees

\* The plugins of the map whose supervisor is over.
Over == {p \in Registered : Done(guards[p])}

(***************************************************************************)
(* updateServer and stopAll leave a listener with a path, or none          *)
(* (host.go updateServer).                                                 *)
(***************************************************************************)
LEMMA ServerStep == ASSUME ServerAgrees, [Next]_vars PROVE ServerAgrees'
  <1>1. CASE KeepServer
    BY <1>1 DEF KeepServer, ServerAgrees, NoServer
  <1>2. CASE ReplaceServer
    BY <1>2 DEF ReplaceServer, ServerAgrees, NoServer
  <1>3. CASE CloseServer
    BY <1>3 DEF CloseServer, ServerAgrees
  <1>4. CASE ~KeepServer /\ ~ReplaceServer /\ ~CloseServer
    <2>1. server' = server
      BY <1>4 DEF Next, CallStep, Apply, ApplyClosed, Close, StopEnd, MkdirAll, Skip,
             PrepareError, Started, StartError, ApplyDone, StopAll, Scan, Signal, Wait,
             Start, GuardStep, Recycle, vars, hostVars
    <2> QED
      BY <2>1 DEF ServerAgrees, NoServer
  <1> QED
    BY <1>1, <1>2, <1>3, <1>4

(***************************************************************************)
(* Where startMissing is at work the socket is what the envelope asks for  *)
(* (host.go updateServer).                                                 *)
(***************************************************************************)
LEMMA SocketIsWanted ==
    ASSUME SetInv, call.at \in {"mkdir", "start", "starting"}
    PROVE  server = Promised!WantedSocket(call.options)
  <1>1. /\ server.path = call.options.path
        /\ server.path # NoPath => server.verify = call.options.verify
        /\ server.path = NoPath => server = NoServer
    BY DEF SetInv, HostInv, HostAgrees, PhaseAgrees, ServerAgrees
  <1>2. server \in [path: Path \union {NoPath}, verify: BOOLEAN]
    BY DEF SetInv, HostInv, HostTypeOK
  <1> QED
    BY <1>1, <1>2 DEF Promised!WantedSocket

(***************************************************************************)
(* What the map and the call show is settled by these fields alone.        *)
(***************************************************************************)
LEMMA VisibleApply ==
    ASSUME call.at # "idle", ~call.failed, ~closed
    PROVE  Visible = [at |-> "apply", options |-> call.options]
  BY DEF Visible

LEMMA VisibleUndo ==
    ASSUME call.at # "idle", call.failed \/ closed
    PROVE  Visible = Promised!Undo
  BY DEF Visible, Promised!Undo

LEMMA VisibleIdle == ASSUME call.at = "idle" PROVE Visible = Promised!Idle
  BY DEF Visible, Promised!Idle


(***************************************************************************)
(* What a step must leave alone to be invisible to the caller.             *)
(***************************************************************************)
LEMMA Stutters ==
    ASSUME Registered' = Registered, Over' = Over, server' = server, closed' = closed,
           Visible' = Visible
    PROVE  UNCHANGED Promised!vars
  BY DEF Promised!vars, Over

(***************************************************************************)
(* A call begins (host.go Apply, Close).                                   *)
(***************************************************************************)
LEMMA ApplyIsPromised ==
    ASSUME SetInv, NEW options \in Options, Apply(options)
    PROVE  Promised!Next
  <1>1. call \in CallType
    BY DEF SetInv, HostInv, HostTypeOK
  <1>2. /\ call.at = "idle" /\ ~closed
        /\ UNCHANGED <<guardVars, guards, closed, server>>
        /\ call'.at # "idle" /\ ~call'.failed /\ call'.options = options
    BY DEF Apply, NoCall
  <1>3. Visible = Promised!Idle
    BY <1>2, VisibleIdle
  <1>4. Visible' = [at |-> "apply", options |-> options]
    BY <1>2 DEF Visible
  <1>5. Registered' = Registered /\ Over' = Over
    BY <1>2 DEF Registered, Over, Done, At, guardVars
  <1>6. Promised!Apply(options)
    BY <1>2, <1>3, <1>4, <1>5 DEF Promised!Apply, Over
  <1> QED
    BY <1>6 DEF Promised!Next

LEMMA CloseIsPromised == ASSUME SetInv, Close PROVE Promised!Next
  <1>1. /\ call.at = "idle" /\ ~closed /\ closed'
        /\ UNCHANGED <<guardVars, guards, server>>
        /\ call'.at # "idle"
    BY DEF Close, NoCall, SetInv, HostInv, HostTypeOK
  <1>2. Visible = Promised!Idle
    BY <1>1, VisibleIdle
  <1>3. Visible' = Promised!Undo
    BY <1>1 DEF Visible, Promised!Undo
  <1>4. Registered' = Registered /\ Over' = Over
    BY <1>1 DEF Registered, Over, Done, At, guardVars
  <1>5. Promised!Close
    BY <1>1, <1>2, <1>3, <1>4 DEF Promised!Close, Over, Close
  <1> QED
    BY <1>5 DEF Promised!Next

(***************************************************************************)
(* Steps of the call that its caller cannot see (host.go stopGuards,       *)
(* startMissing).                                                          *)
(***************************************************************************)
LEMMA CallStepHidden ==
    ASSUME SetInv, StopEnd \/ Skip \/ \E g \in Guard : Signal(g) \/ Wait(g) \/ Start(g)
    PROVE  UNCHANGED Promised!vars
  <1>1. call \in CallType
    BY DEF SetInv, HostInv, HostTypeOK
  <1>2. /\ guards' = guards /\ server' = server /\ closed' = closed
        /\ call.at # "idle" /\ call'.at # "idle"
        /\ call'.failed = call.failed /\ call'.options = call.options
    BY <1>1 DEF StopEnd, Skip, Signal, Wait, Start, Advance, CallType
  <1>3. Visible' = Visible
    BY <1>2 DEF Visible
  <1>4. Registered' = Registered
    BY <1>2 DEF Registered
  <1>5. ASSUME NEW h \in Guard PROVE Done(h)' <=> Done(h)
    <2>1. run \in [Guard -> RunType]
      BY DEF SetInv, HostInv, HostTypeOK, GuardTypeOK
    <2>2. CASE run' = run
      BY <2>2 DEF Done, At
    <2>3. ASSUME NEW g \in Guard, Start(g) PROVE Done(h)' <=> Done(h)
      <3>1. run[g].at = "idle" /\ run' = [run EXCEPT ![g].at = "start"]
        BY <2>3 DEF Start, Launch, Goto, At
      <3> QED
        BY <2>1, <3>1 DEF Done, At, RunType
    <2> QED
      BY <2>2, <2>3 DEF StopEnd, Skip, Signal, Wait, RequestStop, WaitStopped, guardVars
  <1>6. \A p \in Registered : guards[p] \in Guard
    BY DEF SetInv, HostInv, HostTypeOK, Registered
  <1>7. Over' = Over
    BY <1>2, <1>4, <1>5, <1>6 DEF Over
  <1> QED
    BY <1>2, <1>3, <1>4, <1>7, Stutters

(***************************************************************************)
(* A guard leaves the map unwanted or given up (host.go Apply).            *)
(***************************************************************************)
LEMMA ScanIsPromised ==
    ASSUME SetInv, NEW p \in Plugin, Scan(p)
    PROVE  Promised!Next \/ UNCHANGED Promised!vars
  <1>1. call \in CallType
    BY DEF SetInv, HostInv, HostTypeOK
  <1>2. /\ call.at = "scan" /\ p \in call.scan
        /\ UNCHANGED <<guardVars, closed, server>>
        /\ call'.at # "idle"
        /\ call'.failed = call.failed /\ call'.options = call.options
    BY <1>1 DEF Scan, CallType
  <1>3. ~call.failed /\ ~closed /\ p \in Registered
    BY <1>2 DEF SetInv, HostInv, HostAgrees, PhaseAgrees
  <1>4. Visible' = Visible /\ Visible = [at |-> "apply", options |-> call.options]
    BY <1>2, <1>3 DEF Visible
  <1>5. CASE p \notin Wanted(call.options) \/ Done(guards[p])
    <2>1. guards' = [guards EXCEPT ![p] = NoGuard]
      BY <1>5 DEF Scan
    <2>2. Registered' = Registered \ {p}
      BY <2>1 DEF Registered, SetInv, HostInv, HostTypeOK
    <2>3. Over' = Over \ {p}
      BY <1>2, <2>1, <2>2 DEF Over, Done, At, guardVars, Registered, SetInv, HostInv, HostTypeOK
    <2>4. Promised!Leave(p)
      BY <1>2, <1>3, <1>4, <1>5, <2>2, <2>3
         DEF Promised!Leave, Promised!Applying, Promised!Wanted, Wanted, Over
    <2> QED
      BY <2>4 DEF Promised!Next
  <1>6. CASE ~(p \notin Wanted(call.options) \/ Done(guards[p]))
    <2>1. guards' = guards
      BY <1>6 DEF Scan
    <2>2. Registered' = Registered /\ Over' = Over
      BY <1>2, <2>1 DEF Registered, Over, Done, At, guardVars
    <2> QED
      BY <1>2, <1>4, <2>2, Stutters
  <1> QED
    BY <1>5, <1>6

(***************************************************************************)
(* The facts about a call that has not failed: nothing it does not want is *)
(* left once the stops are over (host.go:79).                              *)
(***************************************************************************)
LEMMA Trying ==
    ASSUME SetInv, call.at \in {"server", "mkdir", "start", "starting"}
    PROVE  /\ call \in CallType
           /\ ~call.failed /\ ~closed
           /\ Registered \subseteq Promised!Wanted(call.options)
           /\ Visible = [at |-> "apply", options |-> call.options]
  <1>1. ~call.failed /\ ~closed /\ Registered \ call.scan \subseteq Wanted(call.options)
    BY DEF SetInv, HostInv, HostAgrees, PhaseAgrees
  <1>2. call.scan = {}
    BY DEF SetInv, HostInv, HostAgrees, PhaseAgrees
  <1>3. call \in CallType
    BY DEF SetInv, HostInv, HostTypeOK
  <1> QED
    BY <1>1, <1>2, <1>3, VisibleApply DEF Wanted, Promised!Wanted

(***************************************************************************)
(* An error that reaches stopAll (host.go Apply).                          *)
(***************************************************************************)
LEMMA FailingIsPromised ==
    ASSUME SetInv, call.at \in {"server", "mkdir", "start", "starting"}, call' = Failing,
           UNCHANGED <<guardVars, guards, closed>>,
           \/ server' = server
           \/ server.path # call.options.path /\ server' = NoServer
    PROVE  Promised!Next
  <1>1. call'.at # "idle" /\ call'.failed
    BY Trying DEF Failing, CallType
  <1>2. Visible' = Promised!Undo
    BY <1>1 DEF Visible, Promised!Undo
  <1>3. Registered' = Registered /\ Over' = Over
    BY DEF Registered, Over, Done, At, guardVars
  <1>4. Promised!Fail
    BY <1>2, <1>3, Trying DEF Promised!Fail, Promised!Applying, Over
  <1> QED
    BY <1>4 DEF Promised!Next

(***************************************************************************)
(* The listener changes once the unwanted plugins have left (host.go       *)
(* updateServer).                                                          *)
(***************************************************************************)
LEMMA ServerIsPromised ==
    ASSUME SetInv, KeepServer \/ ReplaceServer
    PROVE  Promised!Next
  <1>1. /\ call.at = "server"
        /\ UNCHANGED <<guardVars, guards, closed>>
    BY DEF KeepServer, ReplaceServer
  <1>2. Registered' = Registered /\ Over' = Over
    BY <1>1 DEF Registered, Over, Done, At, guardVars
  <1>3. CASE call' = Failing
    BY <1>1, <1>3, Trying, FailingIsPromised
       DEF KeepServer, ReplaceServer, Failing, CallType
  <1>4. CASE call' = [call EXCEPT !.at = "mkdir"]
    <2>1. /\ call'.at # "idle"
          /\ call'.failed = call.failed /\ call'.options = call.options
      BY <1>1, <1>4, Trying DEF CallType
    <2>2. Visible' = Visible
      BY <1>1, <2>1 DEF Visible
    <2>3. server \in [path: Path \union {NoPath}, verify: BOOLEAN]
      BY DEF SetInv, HostInv, HostTypeOK
    <2>4. call.at # "stopAll" /\ call' # Failing
      BY <1>1, <1>4, Trying DEF CallType, Failing
    <2>5. server' = Promised!WantedSocket(call.options)
      BY <2>3, <2>4 DEF KeepServer, ReplaceServer, Promised!WantedSocket
    <2>6. Promised!Listen
      BY <1>1, <1>2, <2>2, <2>5, Trying DEF Promised!Listen, Promised!Applying, Over
    <2> QED
      BY <2>6 DEF Promised!Next
  <1> QED
    BY <1>3, <1>4 DEF KeepServer, ReplaceServer

(***************************************************************************)
(* A call that returns without an error has reached its envelope (host.go  *)
(* Apply, startMissing).                                                   *)
(***************************************************************************)
LEMMA SuccessIsPromised ==
    ASSUME SetInv, call.at \in {"mkdir", "start"}, call' = NoCall,
           UNCHANGED <<guardVars, guards, closed, server>>,
           Promised!Wanted(call.options) \subseteq Registered
    PROVE  Promised!Next
  <1>1. Visible' = Promised!Idle
    BY DEF Visible, NoCall, Promised!Idle
  <1>2. Registered' = Registered /\ Over' = Over
    BY DEF Registered, Over, Done, At, guardVars
  <1>3. Promised!ApplySucceeds
    BY <1>1, <1>2, Trying, SocketIsWanted DEF Promised!ApplySucceeds, Promised!Applying, Over
  <1> QED
    BY <1>3 DEF Promised!Next

LEMMA MkdirAllIsPromised ==
    ASSUME SetInv, MkdirAll
    PROVE  Promised!Next \/ UNCHANGED Promised!vars
  <1>1. /\ call.at = "mkdir"
        /\ UNCHANGED <<guardVars, guards, closed, server>>
    BY DEF MkdirAll
  <1>2. CASE call.options = NoOptions
    <2>1. call' = NoCall /\ Promised!Wanted(call.options) = {}
      BY <1>2 DEF MkdirAll, NoOptions, Promised!Wanted
    <2> QED
      BY <1>1, <2>1, SuccessIsPromised
  <1>3. CASE call.options # NoOptions /\ call' = Failing
    BY <1>1, <1>3, FailingIsPromised
  <1>4. CASE call.options # NoOptions /\ call' = [call EXCEPT !.at = "start"]
    <2>1. /\ call'.at # "idle"
          /\ call'.failed = call.failed /\ call'.options = call.options
      BY <1>4, <1>1, Trying DEF CallType
    <2>2. Visible' = Visible
      BY <1>1, <2>1 DEF Visible
    <2>3. Registered' = Registered /\ Over' = Over
      BY <1>1 DEF Registered, Over, Done, At, guardVars
    <2> QED
      BY <1>1, <2>2, <2>3, Stutters
  <1> QED
    BY <1>2, <1>3, <1>4 DEF MkdirAll

LEMMA ApplyDoneIsPromised == ASSUME SetInv, ApplyDone PROVE Promised!Next
  <1>1. /\ call.at = "start" /\ call.index > Len(call.options.plugins)
        /\ call' = NoCall /\ UNCHANGED <<guardVars, guards, closed, server>>
    BY DEF ApplyDone
  <1>2. Promised!Wanted(call.options) \subseteq Registered
    BY <1>1, StartPhase DEF SetInv, HostInv, HostAgrees, PhaseAgrees, Promised!Wanted
  <1> QED
    BY <1>1, <1>2, SuccessIsPromised

(***************************************************************************)
(* A plugin that was started is put into the map, though it may be over by *)
(* then (host.go startMissing).                                            *)
(***************************************************************************)
LEMMA StartedIsPromised == ASSUME SetInv, Started PROVE Promised!Next
  <1> DEFINE p == specOf[call.fresh]
  <1>1. /\ call.at = "starting"
        /\ guards' = [guards EXCEPT ![p] = call.fresh]
        /\ UNCHANGED <<guardVars, closed, server>>
    BY DEF Started
  <1>2. /\ call'.at # "idle"
        /\ call'.failed = call.failed /\ call'.options = call.options
    BY <1>1, Trying DEF Started, Advance, CallType
  <1>3. Visible' = Visible
    BY <1>1, <1>2 DEF Visible
  <1>4. call.fresh \in Guard
    BY <1>1, Trying DEF SetInv, HostInv, HostAgrees, FreshAgrees, CallType
  <1>5. p \in Promised!Wanted(call.options) /\ p \in Plugin /\ p \notin Registered
    <2>1. /\ call.index \in DOMAIN call.options.plugins
          /\ p = call.options.plugins[call.index]
          /\ p \notin Registered
      BY <1>1 DEF SetInv, HostInv, HostAgrees, FreshAgrees
    <2>2. call.options.plugins \in Seq(Plugin)
      BY <1>1, Trying, OptionsType DEF CallType
    <2> QED
      BY <2>1, <2>2 DEF Promised!Wanted
  <1>6. guards \in [Plugin -> Guard \union {NoGuard}]
    BY DEF SetInv, HostInv, HostTypeOK
  <1>7. Registered' = Registered \union {p}
    BY <1>1, <1>4, <1>5, <1>6, HostAssumption DEF Registered
  <1>8. Over' \in {Over, Over \union {p}}
    <2>1. run' = run
      BY <1>1 DEF guardVars
    <2>2. \A q \in Registered : guards'[q] = guards[q]
      BY <1>1, <1>5, <1>6 DEF Registered
    <2>3. guards'[p] = call.fresh
      BY <1>1, <1>5, <1>6
    <2>4. Over' = Over \union {q \in {p} : Done(call.fresh)}
      BY <1>5, <1>7, <2>1, <2>2, <2>3 DEF Over, Done, At
    <2> QED
      BY <2>4
  <1> HIDE DEF p
  <1>9. Promised!Join(p)
    BY <1>1, <1>3, <1>5, <1>7, <1>8, Trying, SocketIsWanted
       DEF Promised!Join, Promised!Applying, Over
  <1> QED
    BY <1>5, <1>9 DEF Promised!Next

LEMMA StartFailureIsPromised ==
    ASSUME SetInv, PrepareError \/ StartError
    PROVE  Promised!Next
  <1>1. /\ call.at \in {"start", "starting"} /\ call' = Failing
        /\ UNCHANGED <<guardVars, guards, closed, server>>
    BY DEF PrepareError, StartError
  <1> QED
    BY <1>1, FailingIsPromised

(***************************************************************************)
(* Close and a failed Apply empty the host before they return (host.go     *)
(* stopAll).                                                               *)
(***************************************************************************)
LEMMA StopAllIsPromised == ASSUME SetInv, StopAll PROVE Promised!Next
  <1>1. /\ call.at = "stopAll" /\ guards' = [p \in Plugin |-> NoGuard]
        /\ UNCHANGED <<guardVars, closed, server>>
    BY DEF StopAll
  <1>2. call.failed \/ closed
    BY <1>1 DEF SetInv, HostInv, HostAgrees, PhaseAgrees
  <1>3. call'.at # "idle" /\ call'.failed = call.failed
    BY DEF StopAll, SetInv, HostInv, HostTypeOK, CallType
  <1>4. Visible = Promised!Undo /\ Visible' = Promised!Undo
    BY <1>1, <1>2, <1>3 DEF Visible, Promised!Undo
  <1>5. Registered' = {} /\ Over' = {}
    BY <1>1 DEF Registered, Over
  <1>6. Promised!LeaveAll
    BY <1>1, <1>4, <1>5 DEF Promised!LeaveAll, Promised!Undoing, Promised!Undo, Over
  <1> QED
    BY <1>6 DEF Promised!Next

LEMMA CloseServerIsPromised == ASSUME SetInv, CloseServer PROVE Promised!Next
  <1>1. /\ call.at = "closeServer" /\ call' = NoCall /\ server' = NoServer
        /\ UNCHANGED <<guardVars, guards, closed>>
    BY DEF CloseServer
  <1>2. (call.failed \/ closed) /\ Registered = {}
    BY <1>1 DEF SetInv, HostInv, HostAgrees, PhaseAgrees
  <1>3. Visible = Promised!Undo /\ Visible' = Promised!Idle
    BY <1>1, <1>2 DEF Visible, NoCall, Promised!Undo, Promised!Idle
  <1>4. Registered' = Registered /\ Over' = Over
    BY <1>1 DEF Registered, Over, Done, At, guardVars
  <1>5. Promised!UndoReturns
    BY <1>1, <1>2, <1>3, <1>4 DEF Promised!UndoReturns, Promised!Undoing, Promised!Undo, Over
  <1> QED
    BY <1>5 DEF Promised!Next

(***************************************************************************)
(* Of what runs beside the call only the end of a supervisor shows, and    *)
(* only if it is in the map (host.go exited).                              *)
(***************************************************************************)
LEMMA RunOfOthers ==
    ASSUME SetInv, NEW g \in Guard, GuardStep(g) \/ Recycle(g), NEW h \in Guard, h # g
    PROVE  run'[h] = run[h]
  <1>1. run \in [Guard -> RunType]
    BY DEF SetInv, HostInv, HostTypeOK, GuardTypeOK
  <1>2. CASE RunStep(g)
    BY <1>1, <1>2 DEF RunStep, CmdStart, CmdStartError, Attach, AttachTail, Reap, Drain,
           Detach, AfterRun, FailCheck, Report, BackoffStop, BackoffTimer, CloseDone, Goto
  <1>3. CASE KillGroup(g) \/ KernelStep(g)
    BY <1>3 DEF KillGroup, KernelStep, ProcExit, Spawn, KinExit
  <1>4. CASE Recycle(g)
    BY <1>1, <1>4 DEF Recycle, Collect
  <1> QED
    BY <1>2, <1>3, <1>4 DEF GuardStep

LEMMA GuardStepIsPromised ==
    ASSUME SetInv, NEW g \in Guard, GuardStep(g)
    PROVE  Promised!Next \/ UNCHANGED Promised!vars
  <1>1. UNCHANGED <<guards, closed, server, call>>
    BY DEF GuardStep, hostVars
  <1>2. Visible' = Visible /\ Registered' = Registered
    BY <1>1 DEF Visible, Registered
  <1>3. \A p \in Registered : guards[p] \in Guard /\ specOf[guards[p]] = p
    BY DEF SetInv, HostInv, HostTypeOK, HostAgrees, MapAgrees, Registered
  <1>4. \A h \in Guard : h # g => (Done(h)' <=> Done(h))
    BY RunOfOthers DEF Done, At
  <1>5. Done(g) => Done(g)'
    BY GuardStepKeeps DEF SetInv, HostInv
  <1>6. CASE \E p \in Registered : guards[p] = g /\ ~Done(g) /\ Done(g)'
    <2>1. PICK p \in Registered : guards[p] = g /\ ~Done(g) /\ Done(g)'
      BY <1>6
    <2>2. \A q \in Registered : q # p => guards[q] # g
      BY <1>3, <2>1
    <2>3. Over' = Over \union {p}
      BY <1>1, <1>2, <1>3, <1>4, <2>1, <2>2 DEF Over
    <2>4. p \notin Over /\ p \in Plugin
      BY <2>1 DEF Over, Registered
    <2>5. Promised!GiveUp(p)
      BY <1>1, <1>2, <2>1, <2>3, <2>4 DEF Promised!GiveUp, Over
    <2> QED
      BY <2>4, <2>5 DEF Promised!Next
  <1>7. CASE ~\E p \in Registered : guards[p] = g /\ ~Done(g) /\ Done(g)'
    <2>1. Over' = Over
      BY <1>1, <1>2, <1>3, <1>4, <1>5, <1>7 DEF Over
    <2> QED
      BY <1>1, <1>2, <2>1, Stutters
  <1> QED
    BY <1>6, <1>7

LEMMA RecycleHidden ==
    ASSUME SetInv, NEW g \in Guard, Recycle(g)
    PROVE  UNCHANGED Promised!vars
  <1>1. UNCHANGED <<guards, closed, server, call>>
    BY DEF Recycle
  <1>2. Visible' = Visible /\ Registered' = Registered
    BY <1>1 DEF Visible, Registered
  <1>3. \A p \in Registered : guards[p] \in Guard /\ guards[p] # g
    <2>1. \A p \in Registered : guards[p] \in Guard /\ guard[guards[p]].started = "ok"
      BY DEF SetInv, HostInv, HostTypeOK, HostAgrees, MapAgrees, Registered
    <2>2. \A p \in Registered : guard[guards[p]].released = "no"
      BY <2>1 DEF SetInv, HostInv, HostAgrees, OwnersAgree, Owned, InMap, Registered
    <2> QED
      BY <2>1, <2>2 DEF Recycle, Collect
  <1>4. Over' = Over
    BY <1>1, <1>2, <1>3, RunOfOthers DEF Over, Done, At
  <1> QED
    BY <1>1, <1>2, <1>4, Stutters

-----------------------------------------------------------------------------

LEMMA HostStepIsPromised ==
    ASSUME SetInv, [Next]_vars
    PROVE  Promised!Next \/ UNCHANGED Promised!vars
  <1>1. CASE UNCHANGED vars
    <2>1. UNCHANGED <<guardVars, guards, closed, server, call>>
      BY <1>1 DEF vars, hostVars
    <2>2. Visible' = Visible /\ Registered' = Registered /\ Over' = Over
      BY <2>1 DEF Visible, Registered, Over, Done, At, guardVars
    <2> QED
      BY <2>1, <2>2, Stutters
  <1>2. CASE ApplyClosed
    BY <1>1, <1>2 DEF ApplyClosed
  <1>3. ASSUME NEW options \in Options, Apply(options) PROVE Promised!Next
    BY <1>3, ApplyIsPromised
  <1>4. CASE Close
    BY <1>4, CloseIsPromised
  <1>5. CASE StopEnd \/ Skip \/ \E g \in Guard : Signal(g) \/ Wait(g) \/ Start(g)
    BY <1>5, CallStepHidden
  <1>6. CASE KeepServer \/ ReplaceServer
    BY <1>6, ServerIsPromised
  <1>7. CASE MkdirAll \/ ApplyDone
    BY <1>7, MkdirAllIsPromised, ApplyDoneIsPromised
  <1>8. CASE PrepareError \/ StartError \/ Started
    BY <1>8, StartFailureIsPromised, StartedIsPromised
  <1>9. CASE StopAll \/ CloseServer
    BY <1>9, StopAllIsPromised, CloseServerIsPromised
  <1>10. ASSUME NEW p \in Plugin, Scan(p) PROVE Promised!Next \/ UNCHANGED Promised!vars
    BY <1>10, ScanIsPromised
  <1>11. ASSUME NEW g \in Guard, GuardStep(g) \/ Recycle(g)
         PROVE  Promised!Next \/ UNCHANGED Promised!vars
    BY <1>11, GuardStepIsPromised, RecycleHidden
  <1> QED
    BY <1>1, <1>2, <1>3, <1>4, <1>5, <1>6, <1>7, <1>8, <1>9, <1>10, <1>11
       DEF Next, CallStep

(***************************************************************************)
(* The host is a PluginSet, for every set of supervisors, plugins, files   *)
(* and envelopes (host.go:33 and :61, Host and Apply).                     *)
(***************************************************************************)
THEOREM HostImplementsPluginSet == Spec => ImplementsPluginSet
  <1>1. Init => SetInv
    BY HostInitInv DEF SetInv, ServerAgrees, Init
  <1>2. SetInv /\ [Next]_vars => SetInv'
    BY HostNextInv, ServerStep DEF SetInv
  <1>3. Init => Promised!Init
    BY DEF Init, Promised!Init, Registered, Visible, NoCall, Promised!Idle
  <1>4. SetInv /\ [Next]_vars => [Promised!Next]_(Promised!vars)
    BY HostStepIsPromised
  <1> QED
    BY <1>1, <1>2, <1>3, <1>4, PTL DEF Spec, ImplementsPluginSet, Promised!Spec
==============================================================================
