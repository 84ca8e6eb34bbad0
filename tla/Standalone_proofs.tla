-------------------------- MODULE Standalone_proofs --------------------------
(***************************************************************************)
(* The standalone core: the run command with its exit code (CliRun), and   *)
(* what it makes of its environment and of its plugin envelope (Startup    *)
(* and RuntimeLimits), for every value of their constants.                 *)
(*                                                                         *)
(* What makes the properties of the run command inductive is that a        *)
(* process which has ended takes no step, so that how it ended still       *)
(* agrees with the flags it was decided by.  What makes those of the       *)
(* envelope inductive is, for validate, that the plugins looked at so far  *)
(* are in order and names holds their files, and, for expand, that what    *)
(* is built is what the places scanned so far stand for: no reference is   *)
(* open after them, and each before them is closed and names a file.       *)
(***************************************************************************)
EXTENDS CliRun, Startup, FoldLemmas, TLAPS

\* Whoever signals the process has set its service's flag before.
RecordedAgree ==
    \A r \in Report : report[r] \in {"recorded", "signalled", "over"} => ServiceOf[r] \in failed

SuccessAgrees == status = "0" => failed = {}

KilledAgrees == status = "killed" => ~Registered

CliInv == TypeOK /\ RecordedAgree /\ SuccessAgrees /\ KilledAgrees

-----------------------------------------------------------------------------

LEMMA StepDeliver ==
    ASSUME CliInv, Running, NEW signal \in Signal, Deliver(signal)
    PROVE  /\ pending' \in Seq(Signal) /\ Len(pending') <= Room
           /\ status' \in {"running", "killed"}
           /\ status' = "killed" => ~Registered
<1>1. CASE Registered
  <2>1. CASE Len(pending) < Room
    BY <1>1, <2>1, CliAssumption DEF Deliver, CliInv, TypeOK, Running
  <2>2. CASE ~(Len(pending) < Room)
    BY <1>1, <2>2 DEF Deliver, CliInv, TypeOK, Running
  <2> QED
    BY <2>1, <2>2
<1>2. CASE ~Registered
  BY <1>2 DEF Deliver, CliInv, TypeOK
<1> QED
  BY <1>1, <1>2

\* The steps of the run command: they leave the reports alone.
LEMMA StepMain ==
    ASSUME CliInv,
           \/ Notify \/ Create \/ Receive \/ CloseInstance \/ Deferred \/ Return
           \/ \E service \in Service : StartService(service)
    PROVE  CliInv'
<1>1. Running /\ UNCHANGED <<report, failed, timers, outside>>
  BY DEF Notify, Create, Receive, CloseInstance, Deferred, Return, StartService, Continue, Step
<1>2. main' \in Place
  BY DEF Notify, Create, Receive, CloseInstance, Deferred, Return, StartService, Continue, Step,
         Place, Service
<1>3. err' \in BOOLEAN
  BY DEF Notify, Create, Receive, CloseInstance, Deferred, Return, StartService, Continue, Exit,
         CliInv, TypeOK
<1>4. pending' \in Seq(Signal) /\ Len(pending') <= Room
  <2>1. CASE UNCHANGED pending
    BY <2>1 DEF CliInv, TypeOK
  <2>2. CASE pending # <<>> /\ pending' = Tail(pending)
    BY <2>2, CliAssumption DEF CliInv, TypeOK
  <2> QED
    BY <2>1, <2>2 DEF Notify, Create, Receive, CloseInstance, Deferred, Return, StartService,
                      Continue, Exit
<1>5. status' \in {"running", "0", "1", "70"} /\ (status' = "0" => failed = {})
  BY <1>1 DEF Notify, Create, Receive, CloseInstance, Deferred, Return, StartService, Continue,
              Exit, Running
<1> QED
  BY <1>1, <1>2, <1>3, <1>4, <1>5
     DEF CliInv, TypeOK, RecordedAgree, SuccessAgrees, KilledAgrees

LEMMA StepOutside ==
    ASSUME CliInv, NEW signal \in Signal, Outside(signal)
    PROVE  CliInv'
<1>1. /\ Running /\ outside' \in 0..MaxOutside /\ Deliver(signal)
      /\ UNCHANGED <<main, err, report, failed, timers>>
  BY CliAssumption DEF Outside, CliInv, TypeOK
<1>2. /\ pending' \in Seq(Signal) /\ Len(pending') <= Room
      /\ status' \in {"running", "killed"}
      /\ status' = "killed" => ~Registered
  BY <1>1, StepDeliver
<1> QED
  BY <1>1, <1>2 DEF CliInv, TypeOK, RecordedAgree, SuccessAgrees, KilledAgrees, Registered

LEMMA StepNotice ==
    ASSUME CliInv, NEW r \in Report, Notice(r)
    PROVE  CliInv'
BY DEF Notice, CliInv, TypeOK, RecordedAgree, SuccessAgrees, KilledAgrees, Registered

LEMMA StepRecord ==
    ASSUME CliInv, NEW r \in Report, Record(r)
    PROVE  CliInv'
<1>1. ServiceOf[r] \in Service
  BY CliAssumption
<1>2. /\ Running /\ UNCHANGED <<main, err, pending, timers, outside, status>>
      /\ failed' = failed \union {ServiceOf[r]}
      /\ \E place \in {"over", "recorded"} : report' = [report EXCEPT ![r] = place]
  BY DEF Record
<1>3. TypeOK'
  BY <1>1, <1>2 DEF CliInv, TypeOK
<1>4. RecordedAgree'
  BY <1>2 DEF CliInv, TypeOK, RecordedAgree
<1> QED
  BY <1>2, <1>3, <1>4 DEF CliInv, SuccessAgrees, KilledAgrees, Registered, Running

LEMMA StepKill ==
    ASSUME CliInv, NEW r \in Report, Kill(r)
    PROVE  CliInv'
<1>1. /\ Running /\ report[r] = "recorded" /\ Deliver("TERM")
      /\ report' = [report EXCEPT ![r] = "signalled"]
      /\ UNCHANGED <<main, err, failed, timers, outside>>
  BY DEF Kill
<1>2. /\ pending' \in Seq(Signal) /\ Len(pending') <= Room
      /\ status' \in {"running", "killed"}
      /\ status' = "killed" => ~Registered
  BY <1>1, StepDeliver DEF Signal
<1>3. TypeOK'
  BY <1>1, <1>2 DEF CliInv, TypeOK
<1>4. RecordedAgree'
  BY <1>1 DEF CliInv, TypeOK, RecordedAgree
<1> QED
  BY <1>1, <1>2, <1>3, <1>4 DEF CliInv, SuccessAgrees, KilledAgrees, Registered

LEMMA StepArm ==
    ASSUME CliInv, NEW r \in Report, Arm(r)
    PROVE  CliInv'
BY CliAssumption
   DEF Arm, CliInv, TypeOK, RecordedAgree, SuccessAgrees, KilledAgrees, Registered

LEMMA StepTimer ==
    ASSUME CliInv, TimerFires
    PROVE  CliInv'
BY DEF TimerFires, CliInv, TypeOK, RecordedAgree, SuccessAgrees, KilledAgrees, Registered

-----------------------------------------------------------------------------

(* The strengthened invariant of the run command and the reports.          *)
THEOREM CliInvariant == Spec => []CliInv
<1>1. Init => CliInv
  <2> SUFFICES ASSUME Init PROVE CliInv
    OBVIOUS
  <2>1. <<>> \in Seq(Signal) /\ Len(<<>>) <= Room
    BY CliAssumption
  <2>2. TypeOK
    <3>1. main \in Place /\ err \in BOOLEAN /\ status = "running"
      BY DEF Init, Place
    <3>2. report \in [Report -> {"idle", "noticed", "recorded", "signalled", "over"}]
      BY DEF Init
    <3>3. failed \subseteq Service /\ timers \subseteq Service
      BY DEF Init
    <3>4. outside \in 0..MaxOutside
      BY CliAssumption DEF Init
    <3>5. pending \in Seq(Signal) /\ Len(pending) <= Room
      BY <2>1 DEF Init
    <3> QED
      BY <3>1, <3>2, <3>3, <3>4, <3>5 DEF TypeOK
  <2>3. RecordedAgree /\ SuccessAgrees /\ KilledAgrees
    BY DEF Init, RecordedAgree, SuccessAgrees, KilledAgrees
  <2> QED
    BY <2>2, <2>3 DEF CliInv
<1>2. CliInv /\ [Next]_vars => CliInv'
  <2> SUFFICES ASSUME CliInv, [Next]_vars PROVE CliInv'
    OBVIOUS
  <2>1. CASE \E r \in Report : Notice(r) \/ ReportStep(r)
    BY <2>1, StepNotice, StepRecord, StepKill, StepArm DEF ReportStep
  <2>2. CASE \E signal \in Signal : Outside(signal)
    BY <2>2, StepOutside
  <2>3. CASE UNCHANGED vars
    BY <2>3 DEF vars, CliInv, TypeOK, RecordedAgree, SuccessAgrees, KilledAgrees, Registered
  <2> QED
    BY <2>1, <2>2, <2>3, StepMain, StepTimer DEF Next
<1> QED
  BY <1>1, <1>2, PTL DEF Spec

(* The process never holds more signals than its channel has room for, and *)
(* its call, flags and timers keep their shape.                            *)
THEOREM CliTypeInvariant == Spec => []TypeOK
BY CliInvariant, PTL DEF CliInv

(* A core that a failed plugin or helper has told to stop does not end     *)
(* with success, however many fail at once (channelFailed, failed).        *)
THEOREM FailureIsNotSuccessAlways == Spec => []FailureIsNotSuccess
<1>1. CliInv => FailureIsNotSuccess
  BY DEF CliInv, RecordedAgree, SuccessAgrees, FailureIsNotSuccess
<1> QED
  BY <1>1, CliInvariant, PTL

(* No signal, its own or one from outside, kills the core while the helper *)
(* or a plugin may run (signal.Notify, the deferred stops).                *)
THEOREM NeverKilledWithServicesAlways == Spec => []NeverKilledWithServices
<1>1. CliInv => NeverKilledWithServices
  BY DEF CliInv, KilledAgrees, NeverKilledWithServices, Registered, Up
<1> QED
  BY <1>1, CliInvariant, PTL

-----------------------------------------------------------------------------
(* The end of a core whose service failed.                                 *)

\* Of each service that set its flag, the timer is armed, or a report is on the
\* two steps left before it.
EndIsComing ==
    \A service \in failed :
        \/ service \in timers
        \/ \E r \in Report : ServiceOf[r] = service /\ report[r] \in {"recorded", "signalled"}

LEMMA EndIsComingStep ==
    ASSUME TypeOK, EndIsComing, [Next]_vars
    PROVE  EndIsComing'
<1>1. CASE UNCHANGED <<report, failed, timers>>
  BY <1>1 DEF EndIsComing
<1>2. ASSUME NEW r \in Report, Notice(r) PROVE EndIsComing'
  <2>1. /\ report[r] = "idle" /\ UNCHANGED <<failed, timers>>
        /\ \A q \in Report : q # r => report'[q] = report[q]
    BY <1>2 DEF Notice, TypeOK
  <2> QED
    BY <2>1 DEF EndIsComing
<1>3. ASSUME NEW r \in Report, Record(r) PROVE EndIsComing'
  <2>1. /\ report[r] = "noticed" /\ UNCHANGED timers
        /\ failed' = failed \union {ServiceOf[r]}
        /\ \A q \in Report : q # r => report'[q] = report[q]
        /\ ServiceOf[r] \notin failed => report'[r] = "recorded"
    BY <1>3 DEF Record, TypeOK
  <2> QED
    BY <2>1 DEF EndIsComing
<1>4. ASSUME NEW r \in Report, Kill(r) PROVE EndIsComing'
  <2>1. /\ report'[r] = "signalled" /\ UNCHANGED <<failed, timers>>
        /\ \A q \in Report : q # r => report'[q] = report[q]
    BY <1>4 DEF Kill, TypeOK
  <2> QED
    BY <2>1 DEF EndIsComing
<1>5. ASSUME NEW r \in Report, Arm(r) PROVE EndIsComing'
  <2>1. /\ timers' = timers \union {ServiceOf[r]} /\ UNCHANGED failed
        /\ \A q \in Report : q # r => report'[q] = report[q]
    BY <1>5 DEF Arm, TypeOK
  <2> QED
    BY <2>1 DEF EndIsComing
<1>6. ASSUME \/ Notify \/ Create \/ Receive \/ CloseInstance \/ Deferred \/ Return
             \/ \E service \in Service : StartService(service)
      PROVE  UNCHANGED <<report, failed, timers>>
  BY <1>6 DEF Notify, Create, Receive, CloseInstance, Deferred, Return, StartService,
              Continue, Step
<1>7. ASSUME (\E signal \in Signal : Outside(signal)) \/ TimerFires \/ UNCHANGED vars
      PROVE  UNCHANGED <<report, failed, timers>>
  BY <1>7 DEF Outside, TimerFires, vars
<1> QED
  BY <1>1, <1>2, <1>3, <1>4, <1>5, <1>6, <1>7 DEF Next, ReportStep

(* A failure that was recorded is never left to a report that has given    *)
(* up: a report that is over has a timer behind it, its own or that of the *)
(* first of its service, or the first is about to arm it, whatever became  *)
(* of the signal (shutdown's failed.Swap, channelFailed).                  *)
THEOREM FailureEndIsComing ==
    Spec => [](/\ EndIsComing
               /\ \A r \in Report : report[r] \in {"recorded", "signalled", "over"}
                                        => ServiceOf[r] \in failed)
<1>1. Init => EndIsComing
  BY DEF Init, EndIsComing
<1>2. CliInv /\ EndIsComing /\ [Next]_vars => EndIsComing'
  BY EndIsComingStep DEF CliInv
<1>3. CliInv => \A r \in Report : report[r] \in {"recorded", "signalled", "over"}
                                      => ServiceOf[r] \in failed
  BY DEF CliInv, RecordedAgree
<1> QED
  BY <1>1, <1>2, <1>3, CliInvariant, PTL DEF Spec

-----------------------------------------------------------------------------
(* parseMemoryLimit.                                                       *)

(***************************************************************************)
(* The test of n against MaxInt/multiplier is that of the product, which   *)
(* the code must not compute before it knows.                              *)
(***************************************************************************)
LEMMA DivisionBounds ==
    ASSUME NEW n \in Nat, NEW m \in Nat \ {0}, NEW max \in Nat
    PROVE  n <= max \div m <=> n * m <= max
<1> DEFINE q == max \div m
<1>1. q \in Nat /\ q * m <= max /\ max < (q + 1) * m
  BY Z3
<1>2. CASE n <= q
  <2>1. n * m <= q * m
    BY <1>1, <1>2, Z3
  <2> QED BY <1>1, <1>2, <2>1
<1>3. CASE n > q
  <2>1. n >= q + 1
    BY <1>1, <1>3
  <2>2. n * m >= (q + 1) * m
    BY <1>1, <2>1, Z3
  <2> QED BY <1>1, <1>3, <2>2
<1> QED BY <1>1, <1>2, <1>3

(***************************************************************************)
(* No product overflows: for every word size, every unit and every text    *)
(* parseMemoryLimit returns exactly what the text means.                   *)
(***************************************************************************)
THEOREM MemoryLimitIsExact ==
    ASSUME NEW digits, NEW unit \in Unit
    PROVE  ParseMemoryLimit(digits, unit) = Meant(digits, unit)
<1> USE LimitsAssumption
<1>1. CASE digits \notin Int
  BY <1>1 DEF ParseMemoryLimit, ParseInt, Meant
<1>2. CASE digits \in Int /\ digits < 0
  BY <1>2 DEF ParseMemoryLimit, ParseInt, Meant
<1>3. CASE digits \in Nat
  <2> DEFINE m == Bytes[unit]
  <2>1. m \in Nat \ {0}
    OBVIOUS
  <2>2. digits <= MaxInt \div m <=> digits * m <= MaxInt
    BY <1>3, <2>1, DivisionBounds
  <2>3. digits * m <= MaxInt => digits <= MaxInt
    BY <1>3, <2>1, Z3
  <2> QED BY <1>3, <2>2, <2>3 DEF ParseMemoryLimit, ParseInt, Meant
<1> QED BY <1>1, <1>2, <1>3

-----------------------------------------------------------------------------
(* The limits, and validate.                                               *)

Plugins == options.plugins
Parsed == at \in {"validate", "expand", "prepared", "started", "failed"}

\* Of the first n plugins no two share a file, their names stay inside, and
\* each has a command.
AcceptedUpTo(n) ==
    /\ \A i, j \in 1..n : i # j => FilesOf(Plugins[i]) \intersect FilesOf(Plugins[j]) = {}
    /\ \A i \in 1..n : \A name \in FilesOf(Plugins[i]) : ValidName(name)
    /\ \A i \in 1..n : Plugins[i].command # <<>>

Configured ==
    /\ env \in Environment /\ input \in Directories
    /\ at \in {"boot", "read", "validate"} =>
           names = UNION {FilesOf(Plugins[i]) : i \in 1..(index - 1)}
    /\ at \in {"boot", "read"} => index = 1
    /\ Parsed => options \in Envelope /\ Plugins # <<>> /\ index \in 1..Len(Plugins)
    /\ at = "validate" => AcceptedUpTo(index - 1)
    /\ at \in {"expand", "prepared", "started", "failed"} => AcceptedUpTo(Len(Plugins))

StartupInv == LimitExact /\ Configured

\* What SelectInSeq finds is the first.
LEMMA FirstOf ==
    ASSUME NEW n \in Nat, NEW S \in SUBSET (1..n), S # {}
    PROVE  Min(S) \in S /\ \A i \in S : Min(S) <= i
<1> DEFINE T == {k \in Nat : \A i \in S : i > k}
<1>1. SUFFICES \E x \in S : \A y \in S : x <= y
  BY DEF Min
<1>2. SUFFICES ASSUME \A x \in S : \E y \in S : y < x PROVE FALSE
  OBVIOUS
<1>3. 0 \in T
  OBVIOUS
<1>4. ASSUME NEW k \in Nat, k \in T PROVE k + 1 \in T
  BY <1>2, <1>4
<1>5. Nat \subseteq T
  <2> HIDE DEF T
  <2> QED
    BY <1>3, <1>4, NatInductive
<1>6. PICK x : x \in S
  OBVIOUS
<1>7. x \in Nat /\ x \in T
  BY <1>5, <1>6
<1> QED
  BY <1>6, <1>7

\* What ReadEnvelope reads is the envelope of one of the configs.
LEMMA BesideOne ==
    ASSUME input \in Directories, Beside # 0
    PROVE  input[Beside] \in {Absent, Blank, Unusable} \union Envelope /\ input[Beside] # Absent
<1>1. input \in Seq({Absent, Blank, Unusable} \union Envelope)
  BY StartupAssumption
<1> DEFINE S == {i \in 1..Len(input) : input[i] # Absent}
<1>2. Beside = IF S # {} THEN Min(S) ELSE 0
  BY DEF Beside, SelectInSeq
<1>3. S # {} => Min(S) \in S
  <2>1. Len(input) \in Nat /\ S \in SUBSET (1..Len(input))
    BY <1>1
  <2> HIDE DEF S
  <2> QED
    BY <2>1, FirstOf
<1> QED
  BY <1>1, <1>2, <1>3

\* Each action keeps the invariant.
LEMMA StartupInitHolds == StartupInit => StartupInv
<1> SUFFICES ASSUME StartupInit PROVE StartupInv
  OBVIOUS
<1>1. LimitExact
  BY DEF StartupInit, LimitExact
<1>2. UNION {FilesOf(Plugins[i]) : i \in 1..(index - 1)} = {}
  BY DEF StartupInit
<1>3. Configured
  BY <1>2 DEF StartupInit, Configured, Parsed
<1> QED
  BY <1>1, <1>3 DEF StartupInv

LEMMA BootKeeps ==
    ASSUME StartupInv, Boot
    PROVE  StartupInv'
<1>1. env' = env /\ at = "boot" /\ at' \in {"panicked", "read"} /\ names' = names
      /\ index' = index
      /\ options' = options /\ input' = input
  BY DEF Boot
<1>2. LimitExact'
  <2> SUFFICES ASSUME env.digits \notin {None, Off}
               PROVE  IF at' = "panicked" THEN Meant(env.digits, env.unit) = None
                      ELSE limits'.memory = Meant(env.digits, env.unit) /\ limits'.memory # None
    BY <1>1 DEF LimitExact
  <2>1. env.unit \in Unit
    BY StartupAssumption DEF StartupInv, Configured
  <2>2. ParseMemoryLimit(env.digits, env.unit) = Meant(env.digits, env.unit)
    BY <2>1, MemoryLimitIsExact
  <2>3. Limits.memory = ParseMemoryLimit(env.digits, env.unit)
    BY DEF Limits
  <2>4. limits' = Limits /\ at' = IF Limits.memory = None THEN "panicked" ELSE "read"
    BY DEF Boot
  <2> QED
    BY <2>2, <2>3, <2>4
<1>3. Configured'
  <2>1. FilesOf(Plugins[1])' = FilesOf(Plugins[1])
    BY <1>1 DEF FilesOf, Plugins
  <2>2. UNION {FilesOf(Plugins[i]) : i \in 1..(index - 1)} = {}
        /\ (UNION {FilesOf(Plugins[i]) : i \in 1..(index - 1)})' = {}
    BY <1>1 DEF StartupInv, Configured
  <2> QED
    BY <1>1, <2>2 DEF StartupInv, Configured, Parsed
<1> QED
  BY <1>2, <1>3 DEF StartupInv

\* A step after the first leaves the limits, and ends otherwise than in a panic.
LEMMA LimitStays ==
    ASSUME LimitExact, at # "boot", at # "panicked", at' # "panicked", UNCHANGED <<env, limits>>
    PROVE  LimitExact'
  BY DEF LimitExact, Meant

\* A step to a final place.
LEMMA EndsApart ==
    ASSUME StartupInv, at # "panicked", at # "boot",
           \/ Goto("none") \/ Goto("rejected")
           \/ at \in {"expand", "prepared"} /\ (Goto("failed") \/ Goto("started"))
    PROVE  StartupInv'
<1>1. LimitExact'
  BY LimitStays DEF StartupInv, Goto
<1>2. Configured'
  BY DEF StartupInv, Configured, Goto, Parsed, AcceptedUpTo, Plugins, FilesOf, ValidName
<1> QED
  BY <1>1, <1>2 DEF StartupInv

LEMMA ReadKeeps ==
    ASSUME StartupInv, Read
    PROVE  StartupInv'
<1>1. CASE Goto("none") \/ Goto("rejected")
  BY <1>1, EndsApart DEF Read
<1>2. CASE ~(Goto("none") \/ Goto("rejected"))
  <2> DEFINE content == input[Beside]
  <2>1. /\ at = "read" /\ Beside # 0 /\ content \notin {Blank, Unusable} /\ content.plugins # <<>>
        /\ options' = content /\ at' = "validate"
        /\ UNCHANGED <<env, limits, input, names, index, value, built, cmd>>
    BY <1>2 DEF Read
  <2>2. content \in Envelope
    BY <2>1, BesideOne DEF StartupInv, Configured
  <2>3. LimitExact'
    BY <2>1, LimitStays DEF StartupInv
  <2>4. index = 1 /\ names = {}
    BY <2>1 DEF StartupInv, Configured
  <2>5. Plugins' = content.plugins
        /\ content.plugins \in Seq([files: Seq(Text), command: Seq(Text)])
    BY <2>1, <2>2 DEF Plugins, Envelope
  <2>6. 1 \in 1..Len(content.plugins)
    <3> DEFINE list == content.plugins
    <3>1. list # <<>>
      BY <2>1
    <3> HIDE DEF list
    <3> QED
      BY <2>5, <3>1 DEF list
  <2>7. Configured'
    <3>1. (UNION {FilesOf(Plugins[i]) : i \in 1..(index - 1)})' = {} /\ AcceptedUpTo(index - 1)'
      BY <2>1, <2>4 DEF AcceptedUpTo
    <3> QED
      BY <2>1, <2>2, <2>4, <2>5, <2>6, <3>1 DEF StartupInv, Configured, Parsed
  <2> QED
    BY <2>3, <2>7 DEF StartupInv
<1> QED
  BY <1>1, <1>2

LEMMA ValidateKeeps ==
    ASSUME StartupInv, Validate
    PROVE  StartupInv'
<1>1. CASE Goto("rejected")
  BY <1>1, EndsApart DEF Validate
<1>2. CASE ~Goto("rejected")
  <2> DEFINE n == Len(Plugins)
             F(i) == FilesOf(Plugins[i])
  <2>1. /\ at = "validate" /\ Acceptable(PluginAt(index))
        /\ names' = names \union FilesOf(PluginAt(index))
        /\ IF index < n THEN at' = "validate" /\ index' = index + 1
           ELSE at' = "expand" /\ index' = 1
        /\ UNCHANGED <<env, limits, input, options>>
    BY <1>2 DEF Validate, Plugins
  <2>2. /\ options \in Envelope /\ Plugins # <<>> /\ index \in 1..n /\ AcceptedUpTo(index - 1)
        /\ names = UNION {F(i) : i \in 1..(index - 1)} /\ env \in Environment
             /\ input \in Directories
    BY <2>1 DEF StartupInv, Configured, Parsed
  <2>3. LimitExact'
    BY <2>1, LimitStays DEF StartupInv
  <2>4. \A name \in F(index) : ValidName(name) /\ \A i \in 1..(index - 1) : name \notin F(i)
    BY <2>1, <2>2 DEF Acceptable, PluginAt, Plugins
  <2>5. Plugins' = Plugins /\ n \in Nat
    BY <2>1, <2>2 DEF Plugins, Envelope
  <2>6. AcceptedUpTo(index)
    <3> HIDE DEF n
    <3>1. index \in Nat /\ \A i \in 1..index : i = index \/ i \in 1..(index - 1)
      BY <2>2, <2>5
    <3>2. ASSUME NEW i \in 1..index, NEW j \in 1..index, i # j PROVE F(i) \intersect F(j) = {}
      <4> HIDE DEF F
      <4>1. i \in 1..(index - 1) \/ j \in 1..(index - 1)
        BY <3>1, <3>2
      <4>2. \A k, l \in 1..(index - 1) : k # l => F(k) \intersect F(l) = {}
        BY <2>2 DEF AcceptedUpTo, F
      <4> QED
        BY <2>4, <3>1, <3>2, <4>2
    <3>3. \A i \in 1..index : \A name \in F(i) : ValidName(name)
      BY <2>2, <2>4, <3>1 DEF AcceptedUpTo
    <3>4. \A i \in 1..index : Plugins[i].command # <<>>
      <4>1. Plugins[index].command # <<>>
        BY <2>1 DEF Acceptable, PluginAt, Plugins
      <4> QED
        BY <2>2, <3>1, <4>1 DEF AcceptedUpTo
    <3> QED
      BY <3>2, <3>3, <3>4 DEF AcceptedUpTo
  <2>7. names' = UNION {F(i) : i \in 1..index}
    <3> HIDE DEF n, F
    <3>1. \A i : i \in 1..index <=> i = index \/ i \in 1..(index - 1)
      BY <2>2, <2>5
    <3>2. names' = names \union F(index)
      BY <2>1 DEF F, PluginAt, Plugins
    <3> QED
      BY <2>2, <3>1, <3>2
  <2>8. Configured'
    <3>1. CASE index < n
      <4>1. index' = index + 1 /\ index' - 1 = index /\ index' \in 1..n /\ at' = "validate"
        BY <2>1, <2>2, <2>5, <3>1
      <4>2. AcceptedUpTo(index - 1)'
        BY <2>5, <2>6, <4>1 DEF AcceptedUpTo, FilesOf, ValidName
      <4>3. names' = (UNION {FilesOf(Plugins[i]) : i \in 1..(index - 1)})'
        BY <2>5, <2>7, <4>1 DEF FilesOf
      <4> QED
        BY <2>1, <2>2, <2>5, <4>1, <4>2, <4>3 DEF Configured, Parsed
    <3>2. CASE ~(index < n)
      <4>1. index = n /\ index' = 1 /\ 1 \in 1..n /\ at' = "expand"
        BY <2>1, <2>2, <2>5, <3>2
      <4>2. AcceptedUpTo(Len(Plugins))'
        BY <2>5, <2>6, <4>1 DEF AcceptedUpTo, FilesOf, ValidName
      <4> QED
        BY <2>1, <2>2, <2>5, <4>1, <4>2 DEF Configured, Parsed
    <3> QED
      BY <3>1, <3>2
  <2> QED
    BY <2>3, <2>8 DEF StartupInv
<1> QED
  BY <1>1, <1>2

\* A step of expand or to the next plugin.
LEMMA ExpandKeeps ==
    ASSUME StartupInv, Reference \/ Argument \/ NextPlugin
    PROVE  StartupInv'
<1>1. CASE Goto("failed") \/ Goto("started")
  BY <1>1, EndsApart DEF Reference, Argument, NextPlugin
<1>2. CASE ~(Goto("failed") \/ Goto("started"))
  <2>1. /\ at \in {"expand", "prepared"} /\ at' \in {"expand", "prepared"}
        /\ index' = index \/ (index < Len(Plugins) /\ index' = index + 1)
        /\ UNCHANGED <<env, limits, input, options, names>>
    BY <1>2 DEF Reference, Argument, NextPlugin, Plugins
  <2>2. LimitExact'
    BY <2>1, LimitStays DEF StartupInv
  <2>3. options \in Envelope /\ Plugins # <<>> /\ index \in 1..Len(Plugins)
        /\ AcceptedUpTo(Len(Plugins))
        /\ env \in Environment /\ input \in Directories
    BY <2>1 DEF StartupInv, Configured, Parsed
  <2>4. Plugins' = Plugins /\ Len(Plugins) \in Nat
    BY <2>1, <2>3 DEF Plugins, Envelope
  <2>5. index' \in 1..Len(Plugins)
    BY <2>1, <2>3, <2>4
  <2>6. AcceptedUpTo(Len(Plugins))'
    BY <2>3, <2>4 DEF AcceptedUpTo, FilesOf, ValidName
  <2>7. Configured'
    BY <2>1, <2>3, <2>4, <2>5, <2>6 DEF Configured, Parsed
  <2> QED
    BY <2>2, <2>7 DEF StartupInv
<1> QED
  BY <1>1, <1>2

\* All actions together.
LEMMA StartupNextKeeps == StartupInv /\ [StartupNext]_startupVars => StartupInv'
<1> SUFFICES ASSUME StartupInv, [StartupNext]_startupVars PROVE StartupInv'
  OBVIOUS
<1>1. CASE UNCHANGED startupVars
  BY <1>1 DEF startupVars, StartupInv, LimitExact, Meant, Configured, Parsed, AcceptedUpTo,
     Plugins, FilesOf, ValidName
<1> QED
  BY <1>1, BootKeeps, ReadKeeps, ValidateKeeps, ExpandKeeps DEF StartupNext

(***************************************************************************)
(* Whatever the environment and the files beside the configs, the limits are *)
(* exact, and an envelope that passed validate (options.go:67) is in order. *)
(***************************************************************************)
THEOREM StartupInvariant == StartupSpec => []StartupInv
  BY StartupInitHolds, StartupNextKeeps, PTL DEF StartupSpec

(***************************************************************************)
(* runtime.go:40: the memory limit the runtime gets is the one that was asked *)
(* for, in every word size, and the core panics rather than take another.  *)
(***************************************************************************)
THEOREM LimitsAreExact == StartupSpec => []LimitExact
<1>1. StartupInv => LimitExact
  BY DEF StartupInv
<1> QED
  BY <1>1, StartupInvariant, PTL

(***************************************************************************)
(* options.go:76: of whatever validate lets through, for any number of plugins *)
(* and files, no two plugins share a file and none leads out of the directory. *)
(***************************************************************************)
THEOREM PluginsFilesStayApart == StartupSpec => []FilesStayApart
<1>1. StartupInv => FilesStayApart
  BY DEF StartupInv, Configured, AcceptedUpTo, ValidName, FilesStayApart, Plugins
<1> QED
  BY <1>1, StartupInvariant, PTL

-----------------------------------------------------------------------------
(* What an argument means, place by place.                                 *)

\* The texts of a sequence, one after the other.
JoinStep == [p \in Text \X Text |-> p[1] \o p[2]]
Joined(s) == Folded(JoinStep, <<>>, s)

\* Joining is a step from text to text, so that the lemmas on folds apply.
LEMMA JoinSteps == Steps(JoinStep, Text, Text) /\ <<>> \in Text
<1>1. <<>> \in Text
  BY DEF Text
<1>2. \A a \in Text, b \in Text : a \o b \in Text
  BY DEF Text
<1>3. Steps(JoinStep, Text, Text)
  BY <1>2 DEF Steps, JoinStep
<1> QED
  BY <1>1, <1>3

\* Joined is the sequence's texts one after the other.
LEMMA JoinedEquation ==
    /\ Joined(<<>>) = <<>>
    /\ \A s \in Seq(Text) : Joined(s) \in Text
    /\ \A s \in Seq(Text), t \in Text : Joined(Append(s, t)) = Joined(s) \o t
<1> DEFINE base == <<>>
<1>0. base \in Text /\ Steps(JoinStep, Text, Text)
  BY JoinSteps
<1>1. Joined(<<>>) = <<>>
  BY JoinSteps, FoldedEmpty DEF Joined
<1>2. ASSUME NEW s \in Seq(Text) PROVE Joined(s) \in Text
  <2>1. Joined(s) = Folded(JoinStep, base, s)
    BY DEF Joined
  <2> HIDE DEF base
  <2> QED
    BY <1>0, <2>1, FoldedType
<1>3. ASSUME NEW s \in Seq(Text), NEW t \in Text
      PROVE  Joined(Append(s, t)) = Joined(s) \o t
  <2>1. Joined(s) = Folded(JoinStep, base, s)
        /\ Joined(Append(s, t)) = Folded(JoinStep, base, Append(s, t))
    BY DEF Joined
  <2> HIDE DEF base
  <2>2. Joined(Append(s, t)) = JoinStep[<<Joined(s), t>>]
    BY <1>0, <2>1, FoldedAppend
  <2> QED
    BY <1>2, <2>2 DEF JoinStep
<1> QED
  BY <1>1, <1>2, <1>3

\* The first places of a sequence, one more at a time.
LEMMA PrefixOf ==
    ASSUME NEW E, NEW s \in Seq(E), NEW i \in 0..Len(s)
    PROVE  /\ SubSeq(s, 1, i) \in Seq(E) /\ Len(SubSeq(s, 1, i)) = i
           /\ i > 0 => /\ SubSeq(s, 1, i) = Append(SubSeq(s, 1, i - 1), s[i])
                       /\ SubSeq(s, 1, i - 1) \in Seq(E) /\ s[i] \in E
           /\ SubSeq(s, 1, 0) = <<>>
           /\ SubSeq(s, 1, Len(s)) = s
<1>1. SubSeq(s, 1, i) \in Seq(E) /\ Len(SubSeq(s, 1, i)) = i
  OBVIOUS
<1>2. SubSeq(s, 1, 0) = <<>>
  OBVIOUS
<1>3. SubSeq(s, 1, Len(s)) = s
  OBVIOUS
<1>4. ASSUME i > 0
      PROVE  /\ SubSeq(s, 1, i) = Append(SubSeq(s, 1, i - 1), s[i])
             /\ SubSeq(s, 1, i - 1) \in Seq(E) /\ s[i] \in E
  BY <1>4
<1> QED
  BY <1>1, <1>2, <1>3, <1>4

\* FlattenSeq joins: the equation it chooses a solution of has that one.
LEMMA FlattenJoins ==
    ASSUME NEW s \in Seq(Text)
    PROVE  FlattenSeq(s) = Joined(s)
<1> DEFINE n == Len(s)
           Solves(f) == f = [i \in 1..n |-> IF i = 1 THEN s[i] ELSE f[i-1] \o s[i]]
           h == CHOOSE f : Solves(f)
           J(i) == Joined(SubSeq(s, 1, i))
           g == [i \in 1..n |-> J(i)]
<1>1. n \in Nat /\ FlattenSeq(s) = IF n = 0 THEN s ELSE h[n]
  BY DEF FlattenSeq
<1>2. J(0) = <<>> /\ J(n) = Joined(s)
      /\ \A i \in 1..n : J(i - 1) \in Text /\ J(i) = J(i - 1) \o s[i]
  <2>0. 0 \in 0..Len(s)
    BY <1>1
  <2>1. J(0) = <<>>
    BY <2>0, PrefixOf, JoinedEquation
  <2>2. J(n) = Joined(s)
    BY <2>0, PrefixOf
  <2>3. ASSUME NEW i \in 1..n PROVE J(i - 1) \in Text /\ J(i) = J(i - 1) \o s[i]
    <3>1. /\ SubSeq(s, 1, i) = Append(SubSeq(s, 1, i - 1), s[i])
          /\ SubSeq(s, 1, i - 1) \in Seq(Text) /\ s[i] \in Text
      BY <1>1, PrefixOf
    <3> QED
      BY <3>1, JoinedEquation
  <2> QED
    BY <2>1, <2>2, <2>3
<1> HIDE DEF J
<1>3. Solves(g)
  <2>1. ASSUME NEW i \in 1..n PROVE g[i] = IF i = 1 THEN s[i] ELSE g[i-1] \o s[i]
    <3>1. CASE i = 1
      <4>1. J(1) = <<>> \o s[1] /\ s[1] \in Text
        <5>1. 1 - 1 = 0 /\ 1 \in 1..n /\ s[1] \in Text
          BY <1>1, <3>1
        <5> QED
          BY <1>2, <5>1
      <4>2. J(1) = s[1]
        BY <4>1 DEF Text
      <4> QED
        BY <3>1, <4>2
    <3>2. CASE i # 1
      <4>1. i - 1 \in 1..n
        BY <1>1, <3>2
      <4> QED
        BY <1>2, <3>2, <4>1
    <3> QED
      BY <3>1, <3>2
  <2>2. g = [i \in 1..n |-> g[i]]
    OBVIOUS
  <2> HIDE DEF g
  <2> QED
    BY <2>1, <2>2
<1>4. Solves(h)
  <2> HIDE DEF Solves, g
  <2> QED
    BY <1>3
<1>5. \A i \in 1..n : h[i] = J(i)
  <2> DEFINE N == {i \in Nat : i \in 1..n => h[i] = J(i)}
  <2>1. 0 \in N
    OBVIOUS
  <2>2. ASSUME NEW i \in Nat, i \in N PROVE i + 1 \in N
    <3> SUFFICES ASSUME i + 1 \in 1..n PROVE h[i + 1] = J(i + 1)
      OBVIOUS
    <3> HIDE DEF h
    <3>0. (i + 1) - 1 = i
      OBVIOUS
    <3>1. h[i + 1] = IF i + 1 = 1 THEN s[i + 1] ELSE h[i] \o s[i + 1]
      BY <1>4, <3>0
    <3>2. J(i + 1) = J(i) \o s[i + 1] /\ s[i + 1] \in Text
      <4> DEFINE k == i + 1
      <4>1. k \in 1..n /\ k - 1 = i /\ k = i + 1
        BY <3>0
      <4> HIDE DEF k
      <4>2. J(k) = J(k - 1) \o s[k]
        BY <1>2, <4>1
      <4>3. s[k] \in Text
        BY <1>1, <4>1
      <4> QED
        BY <4>1, <4>2, <4>3
    <3>3. CASE i = 0
      <4>1. i + 1 = 1 /\ s[1] \in Text
        BY <3>2, <3>3
      <4>2. <<>> \o s[1] = s[1]
        BY <4>1 DEF Text
      <4>3. h[1] = s[1] /\ J(1) = J(0) \o s[1]
        BY <3>1, <3>2, <3>3, <4>1
      <4> QED
        BY <1>2, <4>1, <4>2, <4>3
    <3>4. CASE i # 0
      <4>1. i \in 1..n /\ i + 1 # 1
        BY <1>1, <3>4
      <4>2. h[i] = J(i)
        BY <2>2, <4>1
      <4> QED
        BY <3>1, <3>2, <4>1, <4>2
    <3> QED
      BY <3>3, <3>4
  <2>3. Nat \subseteq N
    <3> HIDE DEF N
    <3> QED
      BY <2>1, <2>2, NatInductive
  <2> HIDE DEF h
  <2> QED
    BY <1>1, <2>3
<1> HIDE DEF h
<1>6. CASE n = 0
  <2>1. s = <<>>
    BY <1>6
  <2> QED
    BY <1>1, <1>6, <2>1, JoinedEquation
<1>7. CASE n # 0
  BY <1>1, <1>2, <1>5, <1>7
<1> QED
  BY <1>6, <1>7

\* What the places of a text stand for, and the first p of them together.
Pieces(text) == [i \in 1..Len(text) |-> Piece(text, i)]
UpTo(text, p) == Joined(SubSeq(Pieces(text), 1, p))

\* strings.Cut finds the first token, if there is one.
LEMMA CutFirst ==
    ASSUME NEW text \in Text, NEW token
    PROVE  /\ Cut(text, token) \in 0..Len(text)
           /\ Cut(text, token) = 0 <=> \A i \in 1..Len(text) : text[i] # token
           /\ Cut(text, token) # 0 => /\ text[Cut(text, token)] = token
                                      /\ \A i \in 1..Len(text) :
                                             i < Cut(text, token) => text[i] # token
<1> DEFINE S == {i \in 1..Len(text) : text[i] = token}
<1>1. Len(text) \in Nat
  BY DEF Text
<1>2. Cut(text, token) = IF S # {} THEN Min(S) ELSE 0
  BY DEF Cut, SelectInSeq
<1>3. S # {} => Min(S) \in S /\ \A i \in S : Min(S) <= i
  <2>1. S \in SUBSET (1..Len(text))
    OBVIOUS
  <2> HIDE DEF S
  <2> QED
    BY <1>1, <2>1, FirstOf
<1>4. CASE S = {}
  BY <1>1, <1>2, <1>4
<1>5. CASE S # {}
  <2> DEFINE c == Min(S)
  <2>1. c \in 1..Len(text) /\ text[c] = token /\ \A i \in 1..Len(text) : text[i] = token => c <= i
    BY <1>3, <1>5
  <2>2. Cut(text, token) = c
    BY <1>2, <1>5
  <2> HIDE DEF S, c
  <2> QED
    BY <1>1, <2>1, <2>2
<1> QED
  BY <1>4, <1>5

\* Two texts that agree at every place.
LEMMA SameText ==
    ASSUME NEW a \in Seq(Character), NEW b \in Seq(Character),
           Len(a) = Len(b), \A i \in 1..Len(a) : a[i] = b[i]
    PROVE  a = b
  OBVIOUS

\* What is left of a text after p places, and cutting it further.
LEMMA AfterOf ==
    ASSUME NEW text \in Text, NEW p \in 0..Len(text)
    PROVE  /\ After(text, p) \in Text /\ Len(After(text, p)) = Len(text) - p
           /\ \A i \in 1..Len(text) - p : After(text, p)[i] = text[p + i]
           /\ \A k \in 1..Len(text) - p : After(After(text, p), k) = After(text, p + k)
           /\ \A k \in 1..Len(text) - p : Before(After(text, p), k) = SubSeq(text, p + 1, p + k - 1)
           /\ After(text, 0) = text
<1>1. Len(text) \in Nat /\ text \in Seq(Character)
  BY DEF Text
<1>2. /\ After(text, p) \in Text /\ Len(After(text, p)) = Len(text) - p
      /\ \A i \in 1..Len(text) - p : After(text, p)[i] = text[p + i]
  BY <1>1 DEF After, Text
<1>3. ASSUME NEW k \in 1..Len(text) - p
      PROVE  After(After(text, p), k) = After(text, p + k)
  <2>1. After(text, p + k) \in Seq(Character) /\ Len(After(text, p + k)) = Len(text) - p - k
        /\ \A i \in 1..Len(text) - p - k : After(text, p + k)[i] = text[p + k + i]
    BY <1>1 DEF After
  <2> DEFINE rest == After(text, p)
  <2>2. rest \in Seq(Character) /\ Len(rest) = Len(text) - p
        /\ \A i \in 1..Len(text) - p : rest[i] = text[p + i]
    BY <1>2 DEF Text
  <2> HIDE DEF rest
  <2>3. After(rest, k) \in Seq(Character) /\ Len(After(rest, k)) = Len(text) - p - k
        /\ \A i \in 1..Len(text) - p - k : After(rest, k)[i] = rest[k + i]
    BY <1>1, <2>2 DEF After
  <2>4. ASSUME NEW i \in 1..Len(text) - p - k PROVE After(rest, k)[i] = After(text, p + k)[i]
    <3>1. k + i \in 1..Len(text) - p /\ p + (k + i) = p + k + i
      BY <1>1
    <3>2. rest[k + i] = text[p + k + i]
      BY <2>2, <3>1
    <3> QED
      BY <2>1, <2>3, <3>2
  <2> DEFINE a == After(rest, k)
             b == After(text, p + k)
  <2>5. a \in Seq(Character) /\ b \in Seq(Character) /\ Len(a) = Len(b)
        /\ \A i \in 1..Len(a) : a[i] = b[i]
    BY <1>1, <2>1, <2>3, <2>4
  <2>6. a = b
    <3> HIDE DEF a, b
    <3> QED
      BY <2>5, SameText
  <2> QED
    BY <2>6 DEF rest
<1>4. ASSUME NEW k \in 1..Len(text) - p
      PROVE  Before(After(text, p), k) = SubSeq(text, p + 1, p + k - 1)
  <2> DEFINE rest == After(text, p)
             a == Before(rest, k)
             b == SubSeq(text, p + 1, p + k - 1)
  <2>1. rest \in Seq(Character) /\ Len(rest) = Len(text) - p
        /\ \A i \in 1..Len(text) - p : rest[i] = text[p + i]
    BY <1>2 DEF Text
  <2>2. b \in Seq(Character) /\ Len(b) = k - 1 /\ \A i \in 1..k - 1 : b[i] = text[p + i]
    BY <1>1
  <2> HIDE DEF rest, b
  <2>3. a \in Seq(Character) /\ Len(a) = k - 1 /\ \A i \in 1..k - 1 : a[i] = rest[i]
    BY <1>1, <2>1 DEF Before
  <2>4. Len(a) = Len(b) /\ \A i \in 1..Len(a) : a[i] = b[i]
    <3> HIDE DEF a
    <3>1. ASSUME NEW i \in 1..k - 1 PROVE a[i] = b[i]
      <4>1. i \in 1..Len(text) - p
        BY <1>1
      <4> QED
        BY <2>1, <2>2, <2>3, <4>1
    <3> QED
      BY <2>2, <2>3, <3>1
  <2>5. a = b
    <3> HIDE DEF a
    <3> QED
      BY <2>2, <2>3, <2>4, SameText
  <2> QED
    BY <2>5 DEF rest, b
<1>5. After(text, 0) = text
  BY <1>1 DEF After
<1> QED
  BY <1>2, <1>3, <1>4, <1>5

\* The next place with a token, after p places; 0 if there is none.
NextAt(text, p, token) ==
    IF Cut(After(text, p), token) = 0 THEN 0 ELSE p + Cut(After(text, p), token)

\* NextAt is the first token after p places.
LEMMA NextFirst ==
    ASSUME NEW text \in Text, NEW p \in 0..Len(text), NEW token
    PROVE  LET n == NextAt(text, p, token)
           IN  /\ n = 0 => \A i \in p + 1..Len(text) : text[i] # token
               /\ n # 0 => /\ n \in p + 1..Len(text) /\ text[n] = token
                           /\ n = p + Cut(After(text, p), token)
                           /\ Cut(After(text, p), token) \in 1..Len(text) - p
                           /\ \A i \in p + 1..n - 1 : text[i] # token
               /\ n = 0 <=> Cut(After(text, p), token) = 0
<1> DEFINE rest == After(text, p)
           c == Cut(rest, token)
           n == NextAt(text, p, token)
<1>1. /\ rest \in Text /\ Len(rest) = Len(text) - p
      /\ \A i \in 1..Len(text) - p : rest[i] = text[p + i]
  BY AfterOf
<1>2. Len(text) \in Nat
  BY DEF Text
<1>3. /\ c \in 0..Len(text) - p
      /\ c = 0 => \A i \in 1..Len(text) - p : rest[i] # token
      /\ c # 0 => rest[c] = token /\ \A i \in 1..Len(text) - p : i < c => rest[i] # token
  BY <1>1, CutFirst
<1>4. n = IF c = 0 THEN 0 ELSE p + c
  BY DEF NextAt
<1> HIDE DEF rest, c, n
<1>5. ASSUME NEW i \in p + 1..Len(text) PROVE i - p \in 1..Len(text) - p /\ text[i] = rest[i - p]
  <2>1. i - p \in 1..Len(text) - p /\ p + (i - p) = i
    BY <1>2
  <2> QED
    BY <1>1, <2>1
<1>6. CASE c = 0
  BY <1>2, <1>3, <1>4, <1>5, <1>6 DEF n, c, rest
<1>7. CASE c # 0
  <2>1. n \in p + 1..Len(text) /\ n - p = c /\ n = p + c /\ c \in 1..Len(text) - p /\ n # 0
    BY <1>2, <1>3, <1>4, <1>7
  <2>2. text[n] = token
    BY <1>3, <1>5, <1>7, <2>1
  <2>3. \A i \in p + 1..n - 1 : text[i] # token
    <3> SUFFICES ASSUME NEW i \in p + 1..n - 1 PROVE text[i] # token
      OBVIOUS
    <3>1. i \in p + 1..Len(text) /\ i - p < c
      BY <1>2, <2>1
    <3> QED
      BY <1>3, <1>5, <1>7, <3>1
  <2> QED
    BY <1>7, <2>1, <2>2, <2>3 DEF n, c, rest
<1> QED
  BY <1>6, <1>7

\* A reference ends at the next suffix.
LEMMA EndOfNext ==
    ASSUME NEW text \in Text, NEW i \in 0..Len(text)
    PROVE  EndOf(text, i) = NextAt(text, i, Suffix)
<1> DEFINE rest == After(text, i)
<1>1. rest \in Text
  BY AfterOf
<1>2. Cut(rest, Suffix) = 0 <=> \A k \in 1..Len(rest) : rest[k] # Suffix
  BY <1>1, CutFirst
<1>3. Suffix \in ToSet(rest) <=> \E k \in 1..Len(rest) : rest[k] = Suffix
  <2>1. rest \in Seq(Character) /\ DOMAIN rest = 1..Len(rest)
    BY <1>1 DEF Text
  <2> HIDE DEF rest
  <2> QED
    BY <2>1 DEF ToSet
<1> QED
  BY <1>2, <1>3 DEF EndOf, NextAt

\* What a place stands for is a text.
LEMMA PieceTyped ==
    ASSUME options.workingDir \in Text, NEW text \in Text, NEW i \in 1..Len(text)
    PROVE  Piece(text, i) \in Text
<1>1. text \in Seq(Character) /\ Len(text) \in Nat
  BY DEF Text
<1>2. <<>> \in Text /\ <<text[i]>> \in Text
  BY <1>1 DEF Text
<1>3. NameAt(text, i) \in Text
  <2>1. EndOf(text, i) \in 0..Len(text)
    BY <1>1, EndOfNext, NextFirst
  <2>2. NameAt(text, i) \in Seq(Character)
    BY <1>1, <2>1 DEF NameAt
  <2> QED
    BY <2>2 DEF Text
<1>4. PathOf(NameAt(text, i)) \in Text
  <2> DEFINE name == NameAt(text, i)
             dir == options.workingDir
  <2>1. name \in Seq(Character) /\ dir \in Seq(Character) /\ <<"/">> \in Seq(Character)
    BY <1>3, StartupAssumption DEF Text
  <2> HIDE DEF name, dir
  <2>2. dir \o <<"/">> \o name \in Seq(Character)
    BY <2>1
  <2> QED
    BY <2>2 DEF PathOf, Text, name, dir
<1> QED
  BY <1>2, <1>4 DEF Piece

\* The places together, one more at a time, and all of them.
LEMMA UpToSteps ==
    ASSUME options.workingDir \in Text, NEW text \in Text
    PROVE  /\ UpTo(text, 0) = <<>>
           /\ \A p \in 0..Len(text) : UpTo(text, p) \in Text
           /\ \A p \in 1..Len(text) : UpTo(text, p) = UpTo(text, p - 1) \o Piece(text, p)
           /\ FlattenSeq([i \in 1..Len(text) |-> Piece(text, i)]) = UpTo(text, Len(text))
<1> DEFINE s == Pieces(text)
<1>1. Len(text) \in Nat
  BY DEF Text
<1>2. s \in Seq(Text) /\ Len(s) = Len(text) /\ \A p \in 1..Len(text) : s[p] = Piece(text, p)
  BY <1>1, PieceTyped DEF Pieces
<1>3. FlattenSeq(s) = Joined(s)
  BY <1>2, FlattenJoins
<1>4. s = [i \in 1..Len(text) |-> Piece(text, i)]
      /\ \A p : UpTo(text, p) = Joined(SubSeq(s, 1, p))
  BY DEF Pieces, UpTo
<1> HIDE DEF s
<1>5. 0 \in 0..Len(s)
  BY <1>1, <1>2
<1>6. UpTo(text, 0) = <<>>
  <2>1. SubSeq(s, 1, 0) = <<>>
    BY <1>2, <1>5, PrefixOf
  <2>2. UpTo(text, 0) = Joined(<<>>)
    BY <1>4, <2>1
  <2> QED
    BY <2>2, JoinedEquation
<1>7. ASSUME NEW p \in 0..Len(text) PROVE UpTo(text, p) \in Text
  <2>1. SubSeq(s, 1, p) \in Seq(Text)
    BY <1>2, PrefixOf
  <2> QED
    BY <1>4, <2>1, JoinedEquation
<1>8. ASSUME NEW p \in 1..Len(text)
      PROVE  UpTo(text, p) = UpTo(text, p - 1) \o Piece(text, p)
  <2>1. p \in 0..Len(s) /\ p > 0
    BY <1>1, <1>2
  <2>2. /\ SubSeq(s, 1, p) = Append(SubSeq(s, 1, p - 1), s[p])
        /\ SubSeq(s, 1, p - 1) \in Seq(Text) /\ s[p] \in Text
    BY <1>2, <2>1, PrefixOf
  <2>3. Joined(SubSeq(s, 1, p)) = Joined(SubSeq(s, 1, p - 1)) \o s[p]
    BY <2>2, JoinedEquation
  <2> QED
    BY <1>2, <1>4, <2>3
<1>9. UpTo(text, Len(text)) = FlattenSeq(s)
  BY <1>2, <1>3, <1>4, <1>5, PrefixOf
<1> QED
  BY <1>4, <1>6, <1>7, <1>8, <1>9

\* Places that stand for nothing.
LEMMA UpToSkip ==
    ASSUME options.workingDir \in Text, NEW text \in Text, NEW p \in 0..Len(text), NEW q \in p..Len(text),
           \A k \in p + 1..q : Piece(text, k) = <<>>
    PROVE  UpTo(text, q) = UpTo(text, p)
<1> DEFINE N == {k \in Nat : p + k <= q => UpTo(text, p + k) = UpTo(text, p)}
<1>1. Len(text) \in Nat
  BY DEF Text
<1>2. 0 \in N
  BY <1>1
<1>3. ASSUME NEW k \in Nat, k \in N PROVE k + 1 \in N
  <2> SUFFICES ASSUME p + (k + 1) <= q PROVE UpTo(text, p + (k + 1)) = UpTo(text, p)
    OBVIOUS
  <2> DEFINE i == p + (k + 1)
  <2>1. i \in 1..Len(text) /\ i \in p + 1..q /\ i - 1 = p + k /\ p + k <= q
        /\ p + k \in 0..Len(text)
    BY <1>1
  <2> HIDE DEF i
  <2>2. UpTo(text, i) = UpTo(text, i - 1) \o Piece(text, i) /\ Piece(text, i) = <<>>
    BY <2>1, UpToSteps
  <2>3. UpTo(text, p + k) = UpTo(text, p) /\ UpTo(text, p + k) \in Seq(Character)
    BY <1>3, <2>1, UpToSteps DEF Text
  <2> QED
    BY <2>1, <2>2, <2>3 DEF i
<1>4. Nat \subseteq N
  <2> HIDE DEF N
  <2> QED
    BY <1>2, <1>3, NatInductive
<1>5. q - p \in Nat /\ p + (q - p) = q
  BY <1>1
<1>6. q - p \in N
  <2> HIDE DEF N
  <2> QED
    BY <1>4, <1>5
<1> QED
  BY <1>1, <1>5, <1>6

\* One more character at the end.
LEMMA ConcatAppend ==
    ASSUME NEW u \in Text, NEW t \in Text, NEW c \in Character
    PROVE  (u \o t) \o <<c>> = u \o Append(t, c)
<1> DEFINE E == Character
           a == (u \o t) \o <<c>>
           b == u \o Append(t, c)
           n == Len(u) + Len(t)
<1>1. /\ Len(u) \in Nat /\ Len(t) \in Nat
      /\ u \in Seq(E) /\ t \in Seq(E) /\ c \in E
  BY DEF Text
<1> HIDE DEF E
<1>2. /\ u \o t \in Seq(E) /\ Len(u \o t) = n
      /\ \A i \in 1..n : (u \o t)[i] = IF i <= Len(u) THEN u[i] ELSE t[i - Len(u)]
  BY <1>1
<1>3. a \in Seq(E) /\ Len(a) = n + 1
      /\ \A i \in 1..n + 1 : a[i] = IF i <= n THEN (u \o t)[i] ELSE c
  <2> DEFINE ut == u \o t
  <2>1. ut \in Seq(E) /\ Len(ut) = n
    BY <1>1, <1>2
  <2> HIDE DEF ut
  <2>2. /\ ut \o <<c>> \in Seq(E) /\ Len(ut \o <<c>>) = n + 1
        /\ \A i \in 1..n + 1 : (ut \o <<c>>)[i] = IF i <= n THEN ut[i] ELSE c
    BY <1>1, <2>1
  <2> QED
    BY <2>2 DEF ut
<1>4. /\ Append(t, c) \in Seq(E) /\ Len(Append(t, c)) = Len(t) + 1
      /\ \A i \in 1..Len(t) + 1 : Append(t, c)[i] = IF i <= Len(t) THEN t[i] ELSE c
  BY <1>1
<1>5. b \in Seq(E) /\ Len(b) = n + 1
      /\ \A i \in 1..n + 1 : b[i] = IF i <= Len(u) THEN u[i] ELSE Append(t, c)[i - Len(u)]
  <2> DEFINE tc == Append(t, c)
  <2>1. tc \in Seq(E) /\ Len(tc) = Len(t) + 1
    BY <1>1, <1>4
  <2> HIDE DEF tc
  <2>2. /\ u \o tc \in Seq(E) /\ Len(u \o tc) = n + 1
        /\ \A i \in 1..n + 1 : (u \o tc)[i] = IF i <= Len(u) THEN u[i] ELSE tc[i - Len(u)]
    BY <1>1, <2>1
  <2> QED
    BY <2>2 DEF tc
<1>6. ASSUME NEW i \in 1..n + 1 PROVE a[i] = b[i]
  <2> HIDE DEF a, b
  <2>1. CASE i <= Len(u)
    <3>1. b[i] = u[i]
      BY <1>5, <2>1
    <3>2. a[i] = u[i]
      BY <1>1, <1>2, <1>3, <2>1
    <3> QED
      BY <3>1, <3>2
  <2>2. CASE i > Len(u)
    <3> DEFINE j == i - Len(u)
    <3>1. j \in 1..Len(t) + 1 /\ (j <= Len(t) <=> i <= n) /\ (i <= n => i \in 1..n)
      BY <1>1, <2>2
    <3>2. b[i] = IF j <= Len(t) THEN t[j] ELSE c
      BY <1>1, <1>4, <1>5, <2>2, <3>1
    <3>3. a[i] = IF i <= n THEN t[j] ELSE c
      BY <1>1, <1>2, <1>3, <2>2, <3>1
    <3> QED
      BY <3>1, <3>2, <3>3
  <2> QED
    BY <1>1, <2>1, <2>2
<1>7. a = b
  <2> HIDE DEF a, b, n
  <2>1. Len(a) = Len(b) /\ \A i \in 1..Len(a) : a[i] = b[i]
    BY <1>3, <1>5, <1>6
  <2> QED
    BY <1>3, <1>5, <2>1, SameText DEF E
<1> QED
  BY <1>7

\* Places that stand for themselves.
LEMMA UpToSame ==
    ASSUME options.workingDir \in Text, NEW text \in Text, NEW p \in 0..Len(text), NEW q \in p..Len(text),
           \A k \in p + 1..q : Piece(text, k) = <<text[k]>>
    PROVE  UpTo(text, q) = UpTo(text, p) \o SubSeq(text, p + 1, q)
<1> DEFINE Holds(k) == UpTo(text, p + k) = UpTo(text, p) \o SubSeq(text, p + 1, p + k)
           N == {k \in Nat : p + k <= q => Holds(k)}
<1>1. Len(text) \in Nat /\ text \in Seq(Character) /\ UpTo(text, p) \in Seq(Character)
  <2>1. UpTo(text, p) \in Text
    BY UpToSteps
  <2> QED
    BY <2>1 DEF Text
<1>2. 0 \in N
  <2>1. SubSeq(text, p + 1, p + 0) = <<>>
    BY <1>1
  <2> QED
    BY <1>1, <2>1
<1>3. ASSUME NEW k \in Nat, k \in N PROVE k + 1 \in N
  <2> HIDE DEF Holds
  <2> SUFFICES ASSUME p + (k + 1) <= q PROVE Holds(k + 1)
    OBVIOUS
  <2> DEFINE i == p + (k + 1)
             u == UpTo(text, p)
             t == SubSeq(text, p + 1, p + k)
  <2>1. i \in 1..Len(text) /\ i \in p + 1..q /\ i - 1 = p + k /\ p + k <= q
        /\ p + k \in 0..Len(text)
    BY <1>1
  <2>2. UpTo(text, i) = UpTo(text, i - 1) \o Piece(text, i) /\ Piece(text, i) = <<text[i]>>
    <3> HIDE DEF i
    <3> QED
      BY <2>1, UpToSteps
  <2>3. UpTo(text, p + k) = u \o t
    BY <1>3, <2>1 DEF Holds
  <2>4. SubSeq(text, p + 1, i) = Append(t, text[i]) /\ t \in Seq(Character)
        /\ text[i] \in Character
    <3>1. t \in Seq(Character) /\ Len(t) = k /\ \A j \in 1..k : t[j] = text[p + j]
      BY <1>1, <2>1
    <3>2. text[i] \in Character
      BY <1>1, <2>1
    <3> DEFINE a == SubSeq(text, p + 1, i)
               b == Append(t, text[i])
    <3>3. a \in Seq(Character) /\ Len(a) = k + 1 /\ \A j \in 1..k + 1 : a[j] = text[p + j]
      BY <1>1, <2>1
    <3>4. b \in Seq(Character) /\ Len(b) = k + 1 /\ b[k + 1] = text[i]
          /\ \A j \in 1..k : b[j] = t[j]
      <4> HIDE DEF t
      <4> QED
        BY <3>1, <3>2
    <3>5. ASSUME NEW j \in 1..k + 1 PROVE a[j] = b[j]
      <4> HIDE DEF a, b, t
      <4>1. j \in 1..k \/ j = k + 1
        OBVIOUS
      <4> QED
        BY <3>1, <3>3, <3>4, <4>1
    <3>6. a = b
      <4> HIDE DEF a, b, t
      <4>1. Len(a) = Len(b) /\ \A j \in 1..Len(a) : a[j] = b[j]
        BY <3>3, <3>4, <3>5
      <4> QED
        BY <3>3, <3>4, <4>1, SameText
    <3> QED
      BY <3>1, <3>2, <3>6
  <2>5. (u \o t) \o <<text[i]>> = u \o Append(t, text[i])
    <3> DEFINE c == text[i]
    <3>1. u \in Text /\ t \in Text /\ c \in Character
      BY <1>1, <2>4 DEF Text
    <3> HIDE DEF u, t, c
    <3>2. (u \o t) \o <<c>> = u \o Append(t, c)
      BY <3>1, ConcatAppend
    <3> QED
      BY <3>2 DEF c
  <2>6. UpTo(text, i) = u \o SubSeq(text, p + 1, i)
    <3> HIDE DEF u, t, i
    <3> QED
      BY <2>1, <2>2, <2>3, <2>4, <2>5
  <2> QED
    BY <2>6 DEF Holds
<1>4. Nat \subseteq N
  <2> HIDE DEF N
  <2> QED
    BY <1>2, <1>3, NatInductive
<1>5. q - p \in Nat /\ p + (q - p) = q
  BY <1>1
<1>6. Holds(q - p)
  <2> HIDE DEF Holds
  <2> QED
    BY <1>4, <1>5
<1> QED
  BY <1>5, <1>6

\* No reference is open after p places, and each before them names a file.
Scanned(text, files, p) ==
    /\ p \in 0..Len(text)
    /\ \A j \in 1..p : text[j] = Prefix => \E k \in j..p : text[k] = Suffix
    /\ \A s \in Starts(text) :
           s <= p => EndOf(text, s) # 0 /\ EndOf(text, s) <= p /\ NameAt(text, s) \in files

\* The places up to the next prefix stand for themselves.
LEMMA PlainUpTo ==
    ASSUME NEW text \in Text, NEW files, NEW p, Scanned(text, files, p),
           NEW q \in p..Len(text), \A k \in p + 1..q : text[k] # Prefix
    PROVE  \A k \in p + 1..q : k \notin Starts(text) /\ Piece(text, k) = <<text[k]>>
<1>1. Len(text) \in Nat /\ p \in 0..Len(text)
  BY DEF Text, Scanned
<1> SUFFICES ASSUME NEW k \in p + 1..q
             PROVE  k \notin Starts(text) /\ Piece(text, k) = <<text[k]>>
  OBVIOUS
<1>2. k \notin Starts(text)
  BY DEF Starts
<1>3. ASSUME NEW s \in Starts(text), s < k PROVE ~(k <= EndOf(text, s))
  <2>1. s \in 1..Len(text) /\ text[s] = Prefix
    BY DEF Starts
  <2>2. s <= p
    BY <1>1, <1>3, <2>1
  <2>3. EndOf(text, s) <= p /\ EndOf(text, s) \in 0..Len(text)
    <3>1. EndOf(text, s) = NextAt(text, s, Suffix) /\ s \in 0..Len(text)
      BY <1>1, <2>1, EndOfNext
    <3>2. NextAt(text, s, Suffix) \in 0..Len(text)
      BY <1>1, <2>1, <3>1, NextFirst
    <3> QED
      BY <2>2, <3>1, <3>2 DEF Scanned
  <2> QED
    BY <1>1, <2>3
<1> QED
  BY <1>2, <1>3 DEF Piece

\* The next prefix begins a reference; without one, the text is expanded.
LEMMA NextStarts ==
    ASSUME NEW text \in Text, NEW files, NEW p, Scanned(text, files, p),
           NextAt(text, p, Prefix) # 0
    PROVE  NextAt(text, p, Prefix) \in Starts(text)
<1> DEFINE i == NextAt(text, p, Prefix)
<1>1. Len(text) \in Nat /\ p \in 0..Len(text)
  BY DEF Text, Scanned
<1>2. i \in p + 1..Len(text) /\ text[i] = Prefix /\ \A j \in p + 1..i - 1 : text[j] # Prefix
  BY <1>1, NextFirst
<1> HIDE DEF i
<1>3. ASSUME NEW j \in 1..i - 1, text[j] = Prefix PROVE \E k \in j..i - 1 : text[k] = Suffix
  <2>1. j \in 1..p
    BY <1>1, <1>2, <1>3
  <2>2. PICK k \in j..p : text[k] = Suffix
    BY <1>3, <2>1 DEF Scanned
  <2>3. k \in j..i - 1
    BY <1>1, <1>2, <2>1, <2>2
  <2> QED
    BY <2>2, <2>3
<1>4. i \in 1..Len(text)
  BY <1>1, <1>2
<1>5. i \in Starts(text)
  BY <1>2, <1>3, <1>4 DEF Starts
<1> QED
  BY <1>5 DEF i

\* Without a further prefix, the rest of the text stands for itself.
LEMMA Expanded ==
    ASSUME options.workingDir \in Text, NEW text \in Text, NEW files, NEW p, Scanned(text, files, p),
           NextAt(text, p, Prefix) = 0
    PROVE  Expansion(text, files) = UpTo(text, p) \o After(text, p)
<1>1. Len(text) \in Nat /\ p \in 0..Len(text) /\ Len(text) \in p..Len(text)
  BY DEF Text, Scanned
<1>2. \A k \in p + 1..Len(text) : text[k] # Prefix
  BY <1>1, NextFirst
<1>3. \A k \in p + 1..Len(text) : k \notin Starts(text) /\ Piece(text, k) = <<text[k]>>
  BY <1>1, <1>2, PlainUpTo
<1>4. \A s \in Starts(text) : EndOf(text, s) # 0 /\ NameAt(text, s) \in files
  <2> SUFFICES ASSUME NEW s \in Starts(text) PROVE EndOf(text, s) # 0 /\ NameAt(text, s) \in files
    OBVIOUS
  <2>1. s \in 1..Len(text)
    BY DEF Starts
  <2>2. s <= p
    BY <1>1, <1>3, <2>1
  <2> QED
    BY <2>2 DEF Scanned
<1>5. UpTo(text, Len(text)) = UpTo(text, p) \o SubSeq(text, p + 1, Len(text))
  BY <1>1, <1>3, UpToSame
<1>6. FlattenSeq([i \in 1..Len(text) |-> Piece(text, i)]) = UpTo(text, Len(text))
  BY UpToSteps
<1>7. Expansion(text, files) = FlattenSeq([i \in 1..Len(text) |-> Piece(text, i)])
  BY <1>4 DEF Expansion
<1> QED
  BY <1>5, <1>6, <1>7 DEF After

\* A reference that is closed and names a file.
LEMMA ReferenceExpands ==
    ASSUME options.workingDir \in Text, NEW text \in Text, NEW files, NEW p, Scanned(text, files, p),
           NEW i \in Starts(text), i = NextAt(text, p, Prefix), i # 0,
           EndOf(text, i) # 0, NameAt(text, i) \in files
    PROVE  /\ Scanned(text, files, EndOf(text, i))
           /\ UpTo(text, EndOf(text, i)) =
                  (UpTo(text, p) \o SubSeq(text, p + 1, i - 1)) \o PathOf(NameAt(text, i))
<1> DEFINE e == EndOf(text, i)
<1>1. Len(text) \in Nat /\ p \in 0..Len(text)
  BY DEF Text, Scanned
<1>2. i \in p + 1..Len(text) /\ text[i] = Prefix /\ \A j \in p + 1..i - 1 : text[j] # Prefix
  BY <1>1, NextFirst
<1>3. e \in i + 1..Len(text) /\ text[e] = Suffix /\ \A j \in i + 1..e - 1 : text[j] # Suffix
  <2>1. i \in 0..Len(text)
    BY <1>1, <1>2
  <2>2. e = NextAt(text, i, Suffix)
    BY <2>1, EndOfNext
  <2> QED
    BY <2>1, <2>2, NextFirst
<1>4. i - 1 \in p..Len(text) /\ i - 1 \in 0..Len(text) /\ i \in 1..Len(text) /\ e \in i..Len(text)
      /\ i \in 0..Len(text) /\ p + 1..i - 1 \subseteq 1..Len(text) /\ (i - 1) - 1 < i
  BY <1>1, <1>2, <1>3
<1>5. \A k \in p + 1..i - 1 : k \notin Starts(text) /\ Piece(text, k) = <<text[k]>>
  BY <1>1, <1>2, <1>4, PlainUpTo
<1> HIDE DEF e
<1>6. ASSUME NEW k \in i + 1..e PROVE k \notin Starts(text) /\ Piece(text, k) = <<>>
  <2>1. k \notin Starts(text)
    <3> SUFFICES ASSUME k \in Starts(text) PROVE FALSE
      OBVIOUS
    <3>1. i \in 1..k - 1 /\ text[k] = Prefix
      BY <1>1, <1>2, <1>3 DEF Starts
    <3>2. PICK l \in i..k - 1 : text[l] = Suffix
      BY <1>2, <3>1 DEF Starts
    <3>3. Prefix # Suffix
      BY DEF Prefix, Suffix
    <3>4. l \in i + 1..e - 1
      BY <1>1, <1>2, <1>3, <3>2, <3>3
    <3> QED
      BY <1>3, <3>2, <3>4
  <2>2. i < k /\ k <= EndOf(text, i)
    BY <1>1, <1>2, <1>3 DEF e
  <2> QED
    BY <2>1, <2>2 DEF Piece
<1>7. Scanned(text, files, e)
  <2>1. e \in 0..Len(text)
    BY <1>1, <1>2, <1>3
  <2>2. ASSUME NEW j \in 1..e, text[j] = Prefix PROVE \E k \in j..e : text[k] = Suffix
    <3>1. CASE j <= p
      <4>1. PICK k \in j..p : text[k] = Suffix
        BY <1>1, <1>2, <2>2, <3>1 DEF Scanned
      <4>2. k \in j..e
        BY <1>1, <1>2, <1>3, <4>1
      <4> QED
        BY <4>1, <4>2
    <3>2. CASE j > p
      <4>1. e \in j..e
        BY <1>1, <1>2, <1>3
      <4> QED
        BY <1>3, <4>1
    <3> QED
      BY <1>1, <3>1, <3>2
  <2>3. ASSUME NEW s \in Starts(text), s <= e
        PROVE  EndOf(text, s) # 0 /\ EndOf(text, s) <= e /\ NameAt(text, s) \in files
    <3>0. s \in 1..Len(text)
      BY DEF Starts
    <3>1. CASE s <= p
      <4>1. EndOf(text, s) # 0 /\ EndOf(text, s) <= p /\ NameAt(text, s) \in files
        BY <3>1 DEF Scanned
      <4>2. EndOf(text, s) \in 0..Len(text)
        <5>1. s \in 0..Len(text)
          BY <1>1, <3>0
        <5>2. EndOf(text, s) = NextAt(text, s, Suffix)
          BY <1>1, <5>1, EndOfNext
        <5>3. NextAt(text, s, Suffix) # 0 => NextAt(text, s, Suffix) \in s + 1..Len(text)
          BY <1>1, <5>1, NextFirst
        <5> QED
          BY <1>1, <5>1, <5>2, <5>3
      <4> QED
        BY <1>1, <1>2, <1>3, <4>1, <4>2
    <3>2. CASE s > p
      <4>1. s = i
        <5>1. s \notin p + 1..i - 1 /\ s \notin i + 1..e
          BY <1>5, <1>6, <2>3
        <5> QED
          BY ONLY <1>1, <1>2, <1>3, <2>3, <3>0, <3>2, <5>1
      <4> QED
        BY <1>1, <1>3, <4>1 DEF e
    <3> QED
      BY <1>1, <3>0, <3>1, <3>2
  <2> QED
    BY <2>1, <2>2, <2>3 DEF Scanned
<1>8. UpTo(text, i - 1) = UpTo(text, p) \o SubSeq(text, p + 1, i - 1)
  BY <1>1, <1>4, <1>5, UpToSame
<1>9. UpTo(text, i) = UpTo(text, i - 1) \o PathOf(NameAt(text, i))
  <2>1. Piece(text, i) = PathOf(NameAt(text, i))
    BY DEF Piece
  <2> QED
    BY <1>4, <2>1, UpToSteps
<1>10. UpTo(text, e) = UpTo(text, i)
  BY <1>4, <1>6, UpToSkip
<1> QED
  BY <1>7, <1>8, <1>9, <1>10 DEF e

-----------------------------------------------------------------------------
(* The loop of expand.                                                     *)

Command == Plugins[index].command
Files == FilesOf(Plugins[index])

\* expand has scanned the argument up to a place and made of it what it means.
Reached ==
    /\ Len(cmd) < Len(Command)
    /\ \E p : /\ Scanned(Command[Len(cmd) + 1], Files, p)
              /\ value = After(Command[Len(cmd) + 1], p)
              /\ built = UpTo(Command[Len(cmd) + 1], p)

ExpandedSoFar ==
    /\ cmd \in Seq(Text) /\ Len(cmd) <= Len(Command)
    /\ \A i \in 1..Len(cmd) : cmd[i] = Expansion(Command[i], Files)

Expanding ==
    /\ at \in {"boot", "read", "validate"} => cmd = <<>> /\ built = <<>>
    /\ at \in {"expand", "prepared", "started", "failed"} => ExpandedSoFar
    /\ at = "expand" => Reached
    /\ at = "prepared" => built = <<>>
    /\ at = "failed" => Len(cmd) < Len(Command) /\ Expansion(Command[Len(cmd) + 1], Files) = None

\* After validate, the plugin at hand has a command.
LEMMA CommandTyped ==
    ASSUME Configured, at \in {"expand", "prepared", "started", "failed"}
    PROVE  /\ options.workingDir \in Text /\ Len(Plugins) \in Nat /\ index \in 1..Len(Plugins)
           /\ \A i \in 1..Len(Plugins) :
                  Plugins[i].command \in Seq(Text) /\ Plugins[i].command # <<>>
           /\ Command \in Seq(Text) /\ Command # <<>>
<1>1. /\ options \in Envelope /\ index \in 1..Len(Plugins) /\ AcceptedUpTo(Len(Plugins))
  BY DEF Configured, Parsed
<1>2. Plugins \in Seq([files: Seq(Text), command: Seq(Text)]) /\ options.workingDir \in Text
  BY <1>1 DEF Envelope, Plugins
<1>3. ASSUME NEW i \in 1..Len(Plugins)
      PROVE  Plugins[i].command \in Seq(Text) /\ Plugins[i].command # <<>>
  <2> DEFINE Plugin == [files: Seq(Text), command: Seq(Text)]
  <2>1. Plugins[i] \in Plugin
    <3>1. Plugins \in Seq(Plugin)
      BY <1>2
    <3> HIDE DEF Plugin
    <3> QED
      BY <3>1
  <2> QED
    BY <1>1, <2>1 DEF AcceptedUpTo
<1> QED
  BY <1>1, <1>2, <1>3 DEF Command

\* Meanings depend on the options alone.
LEMMA Meanings ==
    ASSUME options' = options, NEW text
    PROVE  /\ \A files : Expansion(text, files)' = Expansion(text, files)
           /\ \A p : UpTo(text, p)' = UpTo(text, p)
<1>1. \A i : Piece(text, i)' = Piece(text, i)
  BY DEF Piece, PathOf
<1>2. Pieces(text)' = Pieces(text)
  BY <1>1 DEF Pieces
<1> QED
  BY <1>1, <1>2 DEF Expansion, UpTo

\* Nothing of an argument has been looked at.
LEMMA NothingScanned ==
    ASSUME options.workingDir \in Text, NEW text \in Text, NEW files
    PROVE  Scanned(text, files, 0) /\ After(text, 0) = text /\ UpTo(text, 0) = <<>>
<1>1. Len(text) \in Nat /\ 0 \in 0..Len(text)
  BY DEF Text
<1>2. Scanned(text, files, 0)
  <2>1. \A s \in Starts(text) : ~(s <= 0)
    BY DEF Starts
  <2> QED
    BY <1>1, <2>1 DEF Scanned
<1> QED
  BY <1>1, <1>2, AfterOf, UpToSteps

\* The loop begins with the first argument of a plugin.
LEMMA FirstArgument ==
    Configured /\ at = "expand" /\ cmd = <<>> /\ built = <<>> /\ value = Command[1] => Expanding
<1> SUFFICES ASSUME Configured, at = "expand", cmd = <<>>, built = <<>>, value = Command[1]
             PROVE  Expanding
  OBVIOUS
<1>1. options.workingDir \in Text /\ Command \in Seq(Text) /\ Command # <<>>
  BY CommandTyped
<1> DEFINE text == Command[1]
<1>2. text \in Text /\ Len(Command) \in Nat /\ 0 < Len(Command)
  BY <1>1
<1>3. Len(cmd) = 0 /\ cmd \in Seq(Text)
  OBVIOUS
<1>4. ExpandedSoFar
  BY <1>2, <1>3 DEF ExpandedSoFar
<1>5. Reached
  <2>1. Scanned(text, Files, 0) /\ value = After(text, 0) /\ built = UpTo(text, 0)
    <3> HIDE DEF text
    <3>1. Scanned(text, Files, 0) /\ After(text, 0) = text /\ UpTo(text, 0) = <<>>
      BY <1>1, <1>2, NothingScanned
    <3> QED
      BY <3>1 DEF text
  <2>2. Command[Len(cmd) + 1] = text
    BY <1>3
  <2> QED
    BY <1>2, <1>3, <2>1, <2>2 DEF Reached
<1> QED
  BY <1>4, <1>5 DEF Expanding

\* An argument is complete, and the next one or none is left.
LEMMA ArgumentExpands ==
    ASSUME Configured, Expanding, Argument
    PROVE  Expanding'
<1> DEFINE k == Len(cmd) + 1
           text == Command[k]
<1>1. /\ at = "expand" /\ Cut(value, Prefix) = 0 /\ cmd' = Append(cmd, built \o value)
      /\ built' = <<>>
      /\ IF Len(cmd') < Len(Command)
         THEN at' = "expand" /\ value' = Command[Len(cmd') + 1]
         ELSE at' = "prepared"
      /\ options' = options /\ index' = index
  BY DEF Argument, PluginAt, Command, Plugins
<1>2. options.workingDir \in Text /\ Command \in Seq(Text)
  BY <1>1, CommandTyped
<1>3. cmd \in Seq(Text) /\ Len(cmd) < Len(Command)
      /\ \A i \in 1..Len(cmd) : cmd[i] = Expansion(Command[i], Files)
  BY <1>1 DEF Expanding, ExpandedSoFar, Reached
<1>4. k \in 1..Len(Command) /\ text \in Text
  BY <1>2, <1>3
<1>5. PICK p : Scanned(text, Files, p) /\ value = After(text, p) /\ built = UpTo(text, p)
  BY <1>1 DEF Expanding, Reached
<1> HIDE DEF text, k
<1>6. p \in 0..Len(text)
  BY <1>5 DEF Scanned
<1>7. built \o value = Expansion(text, Files) /\ built \o value \in Text
  <2>1. NextAt(text, p, Prefix) = 0
    BY <1>1, <1>5 DEF NextAt
  <2>2. Expansion(text, Files) = UpTo(text, p) \o After(text, p)
    BY <1>2, <1>4, <1>5, <2>1, Expanded
  <2>3. UpTo(text, p) \in Text /\ After(text, p) \in Text
    BY <1>2, <1>4, <1>6, UpToSteps, AfterOf
  <2> QED
    BY <1>5, <2>2, <2>3 DEF Text
<1> DEFINE arg == built \o value
<1>8. /\ cmd' \in Seq(Text) /\ Len(cmd') = k /\ cmd'[k] = arg
      /\ \A i \in 1..Len(cmd) : cmd'[i] = cmd[i]
  <2>1. arg \in Text /\ cmd' = Append(cmd, arg)
    BY <1>1, <1>7
  <2> HIDE DEF arg
  <2> QED
    BY <1>3, <2>1 DEF k
<1>9. Command' = Command /\ Files' = Files
  BY <1>1 DEF Command, Files, Plugins, FilesOf
<1>10. ASSUME NEW i \in 1..k PROVE cmd'[i] = Expansion(Command[i], Files)
  <2>1. i \in 1..Len(cmd) \/ i = k
    BY <1>3 DEF k
  <2> QED
    BY <1>3, <1>7, <1>8, <2>1 DEF text
<1>11. ExpandedSoFar'
  <2>1. ASSUME NEW i \in 1..k PROVE (Expansion(Command[i], Files))' = Expansion(Command[i], Files)
    <3>1. \A t, f : Expansion(t, f)' = Expansion(t, f)
      BY <1>1, Meanings
    <3> QED
      BY <1>9, <3>1
  <2> QED
    BY <1>4, <1>8, <1>9, <1>10, <2>1 DEF ExpandedSoFar
<1>12. CASE k < Len(Command)
  <2> DEFINE next == Command[k + 1]
  <2>1. at' = "expand" /\ value' = next /\ next \in Text
    BY <1>1, <1>2, <1>4, <1>8, <1>12
  <2>2. Scanned(next, Files, 0) /\ After(next, 0) = next /\ UpTo(next, 0) = <<>>
    <3> HIDE DEF next
    <3> QED
      BY <1>2, <2>1, NothingScanned
  <2>3. \A t : UpTo(t, 0)' = UpTo(t, 0)
    BY <1>1, Meanings
  <2>4. Reached'
    <3>1. Command'[Len(cmd') + 1] = next
      BY <1>8, <1>9
    <3>2. (UpTo(Command[Len(cmd) + 1], 0))' = <<>>
      BY <2>2, <2>3, <3>1
    <3>3. Scanned(Command[Len(cmd) + 1], Files, 0)' /\ After(Command[Len(cmd) + 1], 0)' = next
      BY <1>9, <2>2, <3>1
    <3> QED
      BY <1>1, <1>8, <1>9, <1>12, <2>1, <3>2, <3>3 DEF Reached
  <2> QED
    BY <1>11, <2>1, <2>4 DEF Expanding
<1>13. CASE ~(k < Len(Command))
  <2>1. at' = "prepared"
    BY <1>1, <1>8, <1>13
  <2> QED
    BY <1>1, <1>11, <2>1 DEF Expanding
<1> QED
  BY <1>12, <1>13

\* The argument scanned, as before: options, plugin and arguments so far stay.
LEMMA SoFarStays ==
    ASSUME ExpandedSoFar, options' = options, index' = index, cmd' = cmd
    PROVE  ExpandedSoFar' /\ Command' = Command /\ Files' = Files
<1>1. Command' = Command /\ Files' = Files
  BY DEF Command, Files, Plugins, FilesOf
<1>2. \A t, f : Expansion(t, f)' = Expansion(t, f)
  BY Meanings
<1>3. ASSUME NEW i \in 1..Len(cmd) PROVE (Expansion(Command[i], Files))' = Expansion(Command[i], Files)
  BY <1>1, <1>2
<1> QED
  BY <1>1, <1>3 DEF ExpandedSoFar

\* One iteration of expand's loop: over a reference, or to its failure.
LEMMA ReferenceKeepsMeaning ==
    ASSUME Configured, Expanding, Reference
    PROVE  Expanding'
<1> DEFINE k == Len(cmd) + 1
           text == Command[k]
<1>1. at = "expand" /\ options' = options /\ index' = index /\ cmd' = cmd
  BY DEF Reference, Goto
<1>2. options.workingDir \in Text /\ Command \in Seq(Text)
  BY <1>1, CommandTyped
<1>3. cmd \in Seq(Text) /\ Len(cmd) < Len(Command) /\ ExpandedSoFar
  BY <1>1 DEF Expanding, ExpandedSoFar, Reached
<1>4. k \in 1..Len(Command) /\ text \in Text
  BY <1>2, <1>3
<1>5. PICK p : Scanned(text, Files, p) /\ value = After(text, p) /\ built = UpTo(text, p)
  BY <1>1 DEF Expanding, Reached
<1>6. ExpandedSoFar' /\ Command' = Command /\ Files' = Files /\ Command'[Len(cmd') + 1] = text
  BY <1>1, <1>3, SoFarStays
<1>7. (\A t : \A f : Expansion(t, f)' = Expansion(t, f)) /\ \A t : \A q : UpTo(t, q)' = UpTo(t, q)
  BY <1>1, Meanings
<1> HIDE DEF text, k
<1> DEFINE c == Cut(value, Prefix)
           i == p + c
           rest == After(value, c)
           d == Cut(rest, Suffix)
           e == EndOf(text, i)
           name == Before(rest, d)
<1>8. p \in 0..Len(text) /\ Len(text) \in Nat
  BY <1>4, <1>5 DEF Scanned, Text
<1>9. /\ c # 0
      /\ IF d = 0 \/ name \notin Files THEN at' = "failed"
         ELSE /\ built' = (built \o Before(value, c)) \o PathOf(name)
              /\ value' = After(rest, d) /\ at' = "expand"
  BY <1>1 DEF Reference, Files, Goto, PluginAt, Plugins
<1>10. /\ i = NextAt(text, p, Prefix) /\ i # 0 /\ i \in p + 1..Len(text) /\ c \in 1..Len(text) - p
  <2>1. NextAt(text, p, Prefix) = i
    BY <1>5, <1>9 DEF NextAt
  <2>2. NextAt(text, p, Prefix) # 0
    BY <1>4, <1>5, <1>8, <1>9, NextFirst
  <2> QED
    BY <1>4, <1>5, <1>8, <2>1, <2>2, NextFirst
<1>11. rest = After(text, i) /\ Before(value, c) = SubSeq(text, p + 1, i - 1)
  <2> HIDE DEF c
  <2> QED
    BY <1>4, <1>5, <1>8, <1>10, AfterOf
<1> HIDE DEF c
<1>12. i \in Starts(text)
  BY <1>4, <1>5, <1>10, NextStarts
<1>13. i \in 0..Len(text) /\ i \in Nat
  BY <1>8, <1>10
<1>14. /\ e = NextAt(text, i, Suffix) /\ (d = 0 <=> e = 0)
       /\ d # 0 => /\ e = i + d /\ d \in 1..Len(text) - i
                   /\ name = NameAt(text, i) /\ After(rest, d) = After(text, e)
  <2>1. e = NextAt(text, i, Suffix)
    BY <1>4, <1>13, EndOfNext
  <2>2. (d = 0 <=> e = 0) /\ (d # 0 => e = i + d /\ d \in 1..Len(text) - i)
    BY <1>4, <1>11, <1>13, <2>1, NextFirst
  <2>3. ASSUME d # 0 PROVE name = NameAt(text, i) /\ After(rest, d) = After(text, e)
    <3> HIDE DEF d
    <3>1. d \in 1..Len(text) - i /\ e = i + d
      BY <2>2, <2>3
    <3> HIDE DEF i, e
    <3>2. Before(rest, d) = SubSeq(text, i + 1, i + d - 1) /\ After(rest, d) = After(text, i + d)
      BY <1>4, <1>11, <1>13, <3>1, AfterOf
    <3>3. e - 1 = i + d - 1
      BY <1>13, <3>1
    <3> QED
      BY <3>1, <3>2, <3>3 DEF NameAt, e
  <2> QED
    BY <2>1, <2>2, <2>3
<1>15. CASE d = 0 \/ name \notin Files
  <2>1. Expansion(text, Files) = None
    BY <1>12, <1>14, <1>15 DEF Expansion
  <2>2. (Expansion(Command[Len(cmd) + 1], Files))' = None
    BY <1>6, <1>7, <2>1
  <2>3. at' = "failed"
    BY <1>9, <1>15
  <2> QED
    BY <1>1, <1>3, <1>6, <2>2, <2>3 DEF Expanding
<1>16. CASE ~(d = 0 \/ name \notin Files)
  <2>1. /\ at' = "expand" /\ value' = After(text, e)
        /\ built' = (UpTo(text, p) \o SubSeq(text, p + 1, i - 1)) \o PathOf(NameAt(text, i))
    BY <1>5, <1>9, <1>11, <1>14, <1>16
  <2>2. Scanned(text, Files, e)
        /\ UpTo(text, e) = (UpTo(text, p) \o SubSeq(text, p + 1, i - 1)) \o PathOf(NameAt(text, i))
    <3>1. e # 0 /\ NameAt(text, i) \in Files
      BY <1>14, <1>16
    <3> HIDE DEF i, e
    <3> QED
      BY <1>2, <1>4, <1>5, <1>10, <1>12, <3>1, ReferenceExpands DEF e
  <2> HIDE DEF e, i
  <2>3. PICK q : q = e
    OBVIOUS
  <2>4. Reached'
    <3>1. (UpTo(Command[Len(cmd) + 1], q))' = built'
      BY <1>6, <1>7, <2>1, <2>2, <2>3
    <3>2. (Scanned(Command[Len(cmd) + 1], Files, q))'
          /\ (After(Command[Len(cmd) + 1], q))' = value'
      BY <1>6, <2>1, <2>2, <2>3
    <3> QED
      BY <1>1, <1>3, <1>6, <3>1, <3>2 DEF Reached
  <2> QED
    BY <1>6, <2>1, <2>4 DEF Expanding
<1> QED
  BY <1>15, <1>16

\* Before the first command, and where the loop is not.
LEMMA NothingExpanded ==
    at \in {"boot", "read", "validate"} /\ cmd = <<>> /\ built = <<>> => Expanding
  BY DEF Expanding

LEMMA NotExpanding == at \in {"none", "rejected", "panicked"} => Expanding
  BY DEF Expanding

\* validate's last iteration begins the first argument of the first plugin.
LEMMA ValidateExpands ==
    ASSUME Configured', Expanding, Validate
    PROVE  Expanding'
<1>1. at = "validate" /\ cmd = <<>> /\ built = <<>>
  BY DEF Validate, Expanding
<1>2. CASE at' = "rejected"
  <2>1. (at \in {"none", "rejected", "panicked"} => Expanding)'
    BY NotExpanding, PTL
  <2> QED
    BY <1>2, <2>1
<1>3. CASE at' = "validate"
  <2>1. cmd' = cmd /\ built' = built
    BY DEF Validate, Goto
  <2>2. (at \in {"boot", "read", "validate"} /\ cmd = <<>> /\ built = <<>> => Expanding)'
    BY NothingExpanded, PTL
  <2> QED
    BY <1>1, <1>3, <2>1, <2>2
<1>4. CASE at' \notin {"rejected", "validate"}
  <2>1. /\ at' = "expand" /\ index' = 1 /\ value' = PluginAt(1).command[1]
        /\ options' = options /\ cmd' = cmd /\ built' = built
    BY <1>1, <1>4 DEF Validate, Goto
  <2>2. Command' = PluginAt(1).command
    BY <2>1 DEF Command, Plugins, PluginAt
  <2>3. (Configured /\ at = "expand" /\ cmd = <<>> /\ built = <<>> /\ value = Command[1] =>
             Expanding)'
    BY FirstArgument, PTL
  <2> QED
    BY <1>1, <2>1, <2>2, <2>3
<1> QED
  BY <1>2, <1>3, <1>4

\* The next plugin's first argument begins, or all are started.
LEMMA NextPluginExpands ==
    ASSUME Configured', Expanding, NextPlugin
    PROVE  Expanding'
<1>1. at = "prepared" /\ built = <<>> /\ ExpandedSoFar /\ options' = options /\ built' = built
  BY DEF NextPlugin, Expanding, Goto
<1>2. CASE at' = "started"
  <2>1. index' = index /\ cmd' = cmd
    BY <1>2 DEF NextPlugin, Goto
  <2> QED
    BY <1>1, <1>2, <2>1, SoFarStays DEF Expanding
<1>3. CASE at' # "started"
  <2>1. at' = "expand" /\ cmd' = <<>> /\ value' = PluginAt(index + 1).command[1]
        /\ index' = index + 1
    BY <1>3 DEF NextPlugin, Goto
  <2>2. Command' = PluginAt(index + 1).command
    BY <1>1, <2>1 DEF Command, Plugins, PluginAt
  <2>3. (Configured /\ at = "expand" /\ cmd = <<>> /\ built = <<>> /\ value = Command[1] =>
             Expanding)'
    BY FirstArgument, PTL
  <2> QED
    BY <1>1, <2>1, <2>2, <2>3
<1> QED
  BY <1>2, <1>3

\* Every step keeps what the arguments so far mean.
LEMMA ExpandingKept ==
    ASSUME StartupInv, StartupInv', Expanding, [StartupNext]_startupVars
    PROVE  Expanding'
<1>1. Configured /\ Configured'
  BY DEF StartupInv
<1>2. ASSUME Boot \/ Read PROVE Expanding'
  <2>1. cmd = <<>> /\ built = <<>> /\ cmd' = cmd /\ built' = built
        /\ at' \in {"panicked", "read", "none", "rejected", "validate"}
    BY <1>2 DEF Boot, Read, Goto, Expanding
  <2>2. (at \in {"boot", "read", "validate"} /\ cmd = <<>> /\ built = <<>> => Expanding)'
    BY NothingExpanded, PTL
  <2>3. (at \in {"none", "rejected", "panicked"} => Expanding)'
    BY NotExpanding, PTL
  <2> QED
    BY <2>1, <2>2, <2>3
<1>3. CASE UNCHANGED startupVars
  <2>1. options' = options /\ index' = index /\ cmd' = cmd /\ built' = built /\ at' = at
        /\ value' = value
    BY <1>3 DEF startupVars
  <2>2. Command' = Command /\ Files' = Files
    BY <2>1 DEF Command, Files, Plugins, FilesOf
  <2>3. \A t : (\A f : Expansion(t, f)' = Expansion(t, f)) /\ \A q : UpTo(t, q)' = UpTo(t, q)
    BY <2>1, Meanings
  <2>4. ExpandedSoFar => ExpandedSoFar'
    BY <2>1, SoFarStays
  <2>5. Reached => Reached'
    <3> SUFFICES ASSUME Reached PROVE Reached'
      OBVIOUS
    <3>1. PICK p : /\ Scanned(Command[Len(cmd) + 1], Files, p)
                   /\ value = After(Command[Len(cmd) + 1], p)
                   /\ built = UpTo(Command[Len(cmd) + 1], p)
      BY DEF Reached
    <3>2. /\ (Scanned(Command[Len(cmd) + 1], Files, p))'
          /\ (value = After(Command[Len(cmd) + 1], p))'
      BY <2>1, <2>2, <3>1
    <3>3. (UpTo(Command[Len(cmd) + 1], p))' = built'
      BY <2>1, <2>2, <2>3, <3>1
    <3> QED
      BY <2>1, <2>2, <3>2, <3>3 DEF Reached
  <2>6. (Expansion(Command[Len(cmd) + 1], Files))' = Expansion(Command[Len(cmd) + 1], Files)
    BY <2>1, <2>2, <2>3
  <2> QED
    BY <2>1, <2>2, <2>4, <2>5, <2>6 DEF Expanding
<1> QED
  BY <1>1, <1>2, <1>3, ValidateExpands, ReferenceKeepsMeaning, ArgumentExpands,
     NextPluginExpands DEF StartupNext

(***************************************************************************)
(* options.go:109: for texts of any length, what the loop of expand makes of an *)
(* argument is what its references stand for, and it fails on no other.    *)
(***************************************************************************)
THEOREM ArgumentsMeanWhatTheySay == StartupSpec => []ExpandsReferences
<1>1. StartupInit => Expanding
  BY NothingExpanded DEF StartupInit
<1>2. StartupInv /\ StartupInv' /\ Expanding /\ [StartupNext]_startupVars => Expanding'
  BY ExpandingKept
<1>3. Expanding => ExpandsReferences
  <2> SUFFICES ASSUME Expanding, at \in {"expand", "prepared", "started", "failed"}
               PROVE  /\ \A i \in 1..Len(cmd) : cmd[i] = Expansion(PluginAt(index).command[i], FilesOf(PluginAt(index)))
                      /\ at = "failed" =>
                             Expansion(PluginAt(index).command[Len(cmd) + 1], FilesOf(PluginAt(index))) = None
    BY DEF ExpandsReferences
  <2>1. Command = PluginAt(index).command /\ Files = FilesOf(PluginAt(index))
    BY DEF Command, Files, Plugins, PluginAt
  <2> QED
    BY <2>1 DEF Expanding, ExpandedSoFar
<1> QED
  BY <1>1, <1>2, <1>3, StartupInvariant, PTL DEF StartupSpec
=============================================================================
