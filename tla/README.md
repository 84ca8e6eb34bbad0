# A TLA+ development of AndroidLibBoxLite

AndroidLibBoxLite builds the sing-box core for Android. What it adds to upstream is
small and concurrent: a supervisor for plugin processes, a protect socket the plugins
send their sockets to, a helper process that reports the system's DNS servers, a URL
test with options, and the scripts that patch, build and release the core. This
directory models that code in TLA+, model-checks it with TLC and proves theorems about
it with TLAPS.

```
tlc -workers 2 -config MCPluginHost_live.cfg MCPluginHost  # a run of PROJECT.json
tlapm PluginHost_proofs.tla                                # a module of theorems
```

`PROJECT.json` lists the components, the runs, the source lines each definition
translates (`map`), for every checked property a mutation of the code that breaks it,
the hazards of the code and the theorems. A definition whose comment starts with
"Mutant:" is such a mutation; no specification uses it.

## 1. The system

Paths are relative to `src/`.

| Part | State | Operations | Interacts with |
|---|---|---|---|
| **Plugin supervisor**, `native/pluginpool/host.go` (guard) | `process`, `stopping`, `kill` under `access`; channels `stop`, `done`; the goroutine's locals | `run`, `attach`, `detach`, `fail`, `requestStop`, `killGroup`, `waitStopped` | the kernel (fork, wait, signals); the host; `onFatal` |
| **Plugin host**, `native/pluginpool/host.go` (Host) | the map `guards`, `closed`, `server` under `access`; `children`; the files of the plugins | `Apply`, `Close`, `start`, `startMissing`, `updateServer`, `stopAll` | guards, the file system, the protect socket |
| **Plugin output**, `native/pluginpool/host.go` (lineWriter) | `buffer` | `Write`, `flush`, `emit` | the output pipe, the logger |
| **Protect socket**, `native/pluginpool/protect.go` | listener, `verify`, the socket file | `listenProtect`, `close`, `serve`, `handle`, `verifyPeer`, `receiveSocket`, `descends` | plugins, `Host.children`, `/proc`, the app's protector |
| **Plugin envelope**, `native/pluginpool/options.go`, `pool.go` | none | `Parse`, `validate`, `expand`, `ReadEnvelope` | the host |
| **Plugins of CommandServer**, `patches/experimental_libbox/command_server_plugins.go` and the calls that `scripts/prepare_sources.py` adds | `pluginHosts` under `pluginHostAccess` | `StartOrReloadServiceWithPlugins`, `CloseService`, `Close`, `closePlugins`, `pluginFailed` | the app's threads, hosts, upstream's service |
| **Plugins of the CLI service**, `native/pluginpool/service_android.go`, the patched `run` command | the host, `failed`, a 10 s timer; `osSignals`, the exit code | `StartService`, `shutdown`, the deferred stops | upstream's run loop, signals, the DNS client |
| **System DNS client**, `native/systemdns/client_android.go`, `protocol.go` | the helper's process and connection, the server list, `stopping`, `channelFailed` | start, first snapshot, reader, stop | the observer process, the local DNS transport, the run loop |
| **System DNS observer**, `native/systemdns/java/SystemDnsHelper.java` | known and lost networks, a generation, the latest frame | callbacks, `publish`, `serve` | Android's ConnectivityManager, the client |
| **System DNS helper file**, `native/systemdns/helper.go` | the dex file and temporaries in a directory several cores share | `ensureHelper`, `helperMatches`, `removeStaleTemporaries` | other cores |
| **URL test with options**, `patches/daemon/url_test_options.go`, `url_test_http3.go`, `patches/experimental_libbox/url_test_options.go` | the history storage, the groups' choices | encode, decode, look up, measure, store or delete, update groups | the service, groups, the app |
| **CLI environment**, `environment/*.go` | the limits the Go runtime is told | `applyRuntimeLimits`, `parseMemoryLimit` | the launcher |
| **Upstream tracking and release**, `scripts/check_upstream.py`, `.github/workflows/*.yml` | pinned version, tags, releases | `select_latest`, `plan_update`, commit, tag, dispatch, build | GitHub |
| **Build and patches**, `scripts/*.py`, launcher, fingerprint table, tests | none at run time | | |

### What is hard here

* *Interleavings.* A guard is driven by its goroutine, by the caller that stops it and
  by a kill timer, while the kernel changes the process at will. Apply looks at guards
  that go on meanwhile. The app's threads meet in a map of hosts whose lock is not held
  while a host is used. Failures are reported from goroutines that run against all of
  them, and in the CLI end in a signal that meets the run loop wherever it is. The DNS
  observer reads the system call by call while it changes. A URL test goes on with an
  instance that may be closed and a selector that may be switched.
* *Partial failure.* Apply can fail on a file, on a command, on the directory or on
  the socket, after it has stopped some plugins and started others. Every call of
  `ensureHelper` can fail with a temporary on disk.
* *Crashes.* The DNS helper may die at any point, a core may be killed while it replaces
  the helper's dex, and the device may lose power.
* *Timeouts.* SIGTERM, then SIGKILL after 1 s, a wait that gives up after 2.5 s; a
  restart delay that doubles; a pipe that keeps `cmd.Wait` for up to 500 ms; 5 s for a
  protect request, 10 s for the first DNS snapshot and for the CLI's shutdown; a minute
  after which a temporary counts as abandoned.
* *Boundaries.* 64-bit varints narrowed to 31 and 8 bits, a product that must not
  overflow, a table of descriptors that runs full, lines of exactly the maximal length.
* *Leftovers.* Files, socket files and processes outlive the code that made them.

### What makes each part correct

* Supervisor: a stop always ends the plugin; a guard never ends silently; runs of one
  plugin do not overlap; a live process of a stopping guard is always about to be
  killed.
* Host: to its caller it is a set of plugins and a socket that a call replaces as a
  whole or empties; files, processes, the map and the socket agree between calls and,
  while anything may run, during them; every call returns.
* Output: however the pipe cuts it, a line is logged once, in order, within the bound.
* CommandServer: plugins are always in a host somebody will stop; every call returns.
* CLI service: a failure always ends the core, never with status 0, and no signal kills
  it while a service runs.
* Protect socket: one reply per request, one descriptor closed per request, only
  descendants are served when verify is on, the accept loop survives errors.
* Envelope: accepted envelopes name files uniquely and inside the directory; `expand`
  replaces exactly the references.
* DNS: once the system is quiet the core has the DNS of its networks, or no DNS and is
  told to stop; it is told so only if the helper really failed.
* Helper file: no reader sees a partial dex, temporaries do not pile up, no core loses
  its temporary to another while it is at work.
* URL test: options arrive as they were asked for; every test ends; a result stays in its
  instance and every group that contains the outbound sees it.
* Environment: a limit is what the text says or the core does not start.

## 2. The modules

| Module | Models | Checked by | Theorems in |
|---|---|---|---|
| `PluginGuard` | a supervisor, its stopper, its timer, its process | `MCPluginHost` | `PluginHost_proofs` |
| `PluginHost`, extends `PluginGuard` | Apply and Close over a set of guards | `MCPluginHost` | `PluginHost_proofs` |
| `PluginSet` | what the host promises, without guards, processes and files | `MCPluginHost`, as the property ImplementsPluginSet | `PluginHost_proofs` |
| `ProtectServer` | the protect socket's requests against reloads, and the peers' processes | `MCProtectServer` | `ProtectServer_proofs` |
| `PluginOutput` | lineWriter | `MCPluginOutput` | `PluginOutput_proofs` |
| `CommandServer` | the map of hosts, the app's threads, failure reports | `MCCommandServer` | `CommandServer_proofs` |
| `CliRun` | the run command with its two services, signals and timers | `MCCliRun` | `Standalone_proofs` |
| `DnsObserver` | the helper process and the system's networks | `MCSystemDns` | `SystemDns_proofs` |
| `SystemDns`, extends `DnsObserver` | the core's client of the observer | `MCSystemDns` | `SystemDns_proofs` |
| `HelperFile` | several cores that install the dex, crashes, power loss | `MCHelperFile` | `SystemDns_proofs` |
| `UrlTest` | tests, instances, groups and the history | `MCUrlTest` | `UrlTest_proofs` |
| `RuntimeLimits` | the numbers of GOGC, GOMEMLIMIT and GOMAXPROCS | `MCStartup` | `Standalone_proofs` |
| `Startup`, extends `RuntimeLimits` | the limits, the envelope, `validate` and `expand` | `MCStartup` | `Standalone_proofs` |
| `FoldLemmas` | nothing of the code: induction over numbers and sequences, and what folds and recursive functions compute | | the lemmas the others cite |

### PluginGuard

A goroutine's step is what it does between two points at which another actor can see
or change something: a critical section of `g.access`, a system call, a channel
operation. `run[g].at` names the statement the goroutine of guard g is about to do and
the other fields are its locals; `guard[g]` holds the fields of the Go struct that are
shared; `children` is `Host.children`; `reported` collects what went to `onFatal`;
`proc[g]` is the kernel's view of the process (alive, zombie or reaped; the strongest
signal sent; whether it has descendants in its group). PIDs are not numbered: a guard
has at most one process at a time, which is itself a checked property
(RunsDoNotOverlap).

`CmdStart`, `CmdStartError`, `Attach`, `AttachTail`, `Reap`, `Drain`, `Detach`,
`AfterRun`, `FailCheck`, `Report`, `BackoffStop`, `BackoffTimer` and `CloseDone` are
the statements of `run` and of what it calls, in order. `RequestStop` and `WaitStopped`
belong to the caller of `stopGuards`, `KillGroup` to the timer. `ProcExit`, `Spawn` and
`KinExit` are what a plugin and its descendants may do at any time: the model lets a
plugin ignore SIGTERM for ever, and obliges it only to die of SIGKILL.

Time is abstracted to what the code compares it with. A run was shorter than
`fatalWindow`, shorter than `stableWindow`, or longer; the restart delay counts units
of `minRestartDelay` and doubles up to `MaxDelay` (30 in the code). `cmd.Wait` can
return up to `pipeGrace` after the leader's death while descendants hold the pipe,
which is why `Drain` may measure a longer run than the process had. The only relation
between timers is that waitStopped's (2.5 s) is set after the kill timer (1 s) and fires
later. A guard value that is over and that nobody refers to is collected and used again
for another guard, so behaviours of any length fit a small set of values.

### PluginHost and PluginSet

`h.access` is held for the whole of Apply and of Close, so one call is in flight; its
position and locals are the record `call`, and each of its steps is an action between
which guards, timers and processes move. `Scan` visits one guard of the map at a time
because each visit reads `done` at its own moment; `Signal` and `Wait` are the two
loops of `stopGuards`; `KeepServer` and `ReplaceServer` are `updateServer`; `MkdirAll`,
`Skip`, `Start`, `PrepareError`, `Started`, `StartError` and `ApplyDone` are
`startMissing` and `start`; `StopAll` and `CloseServer` enclose the same stop loop. An
error at any of these points sets `call.failed` and leads to `stopAll`, as in the code.

A plugin is what `specKey` distinguishes; `FilesOf` gives the files a spec writes, and
`disk` says whose content each file holds. The listener is its path and verify flag.

`PluginSet` is the contract a caller of the host relies on, in five variables: the
plugins the host keeps running, those it has given up, the socket, whether it is closed,
and the call in progress. Plugins leave one by one, unwanted ones and given-up ones only;
the socket changes after that, plugins join after that; a call that fails, or Close,
empties everything before it returns. `PluginHost` maps to it by `Visible` and
`Promised`: the plugins are the registered ones, those given up are the ones whose
supervisor is over, and of the call only whether it tries or undoes is visible.

### ProtectServer

One record per connection: where its goroutine (`handle`, `protect`, `verifyPeer`,
`descends`, `receiveSocket`) is, whose it is, and what it received. `Accept`,
`AcceptError`, `Wake` and `ServeEnd` are the accept loop; `Listen`, `SetVerify` and
`CloseListener` what Apply does to the server. `Walk` is one iteration of `descends`: it
reads the parent of one process, and between two iterations processes start, exit and
are adopted by init. A plugin is in the process table from `Start` and in
`Host.children` only from `Attach`. What the kernel installs of a message is limited by
the control buffer and by the descriptor table, and a message of which something is
missing is marked. `fds` counts the descriptors open for each connection, `free` the
places left in the table. PIDs are not reused while a request or `children` refers to them: the
kernel gives a number out again only after the whole PID space has wrapped.
`strangers` and `strict` are history: whom the core did not start, and since when verify
has been on; neither guards an action.

### PluginOutput

`lineWriter.Write` byte by byte, over all chunks and cuts within the bounds; the
properties compare what was logged with a reference computed from the whole stream.

### CommandServer

Hosts are seen from outside: a mutex, closed or not, with plugins or without, serving
the path or not. Calls of any thread interleave at the two locks, `pluginFailed` at its
two halves. What happens inside Apply is `PluginHost`'s subject.

### CliRun

`main` is the statement the patched run command is about to execute, from
`signal.Notify` over the two services and upstream's instance to the deferred stops, in
reverse order, and the question for the exit codes. Each goroutine that may report a
failure (the helper's reader, a guard's `onFatal`) notices it, records it, signals its
own process and arms the timer, as four steps, while `main` is anywhere. A signal goes
to `osSignals` if the channel is registered, is dropped if the channel is full, and kills
the process if it is not registered. Services and instances may take for ever to start
and stop.

### DnsObserver and SystemDns

`DnsObserver` has three parties. The system changes networks (`Appear`, `SetCaps`,
`SetDns`, `Lose`, `Vanish`, `SetActive`) and queues the callbacks Android sends for the
request the helper registers; `onLost` comes while the network is still listed, and
nothing comes when it goes. The handler thread runs one callback at a time: `Callback`
keeps `lostNetworks`, `ReadActive`, `ReadList`, `ReadCapabilities` and `ReadProperties`
are the calls of `publish`, each of which sees the system of its own moment, and
`Replace` sorts, filters and compares the frame. `serve` takes the latest frame and
writes it while the next may be made. The generation counter is reduced to whether it is
ahead of what serve sent (`unsent`), which is all the code asks of it.

`SystemDns` adds the core: `Start` and its first frame with a deadline, the reader
goroutine, which meets an error and only then looks at `stopping`, and stop, which sets
`stopping`, closes the connection and kills the helper after 2 s. `Decodes` is
`decodeSnapshot`: a frame with an address publish should not have let through, or with
one server too many, counts as a failure of the helper. The helper may crash at any
point and never has to answer; the core may die at any point.

### HelperFile

Each core runs `ensureHelper`; one action per system call, and each of them may fail.
Files are numbered by the core that creates them, so the path can name a file of an
earlier version, another core's file, a link, a directory or nothing. The minute after
which a temporary counts as abandoned is `Age`: it may pass for any temporary that has
not been written since. `disk` is the directory as the last write-back left it; a power
loss returns to it, and a file that was not synced may then hold a part of its content.

### UrlTest

A request carries its options as unknown protobuf fields. `AppendOptions` makes them,
`Decode` folds `Consume` over them, field by field, with the widths as parameters.
`Look` and `LookAgain` are the two look-ups of the target, `Warm`, `Dial`, `Head1` and
`Second` the measurement, any point of which `Cut` may end (an error, the timeout, a
cancelled request or a closed instance), `Record` the entry and `Update` the update of
one group. Two tests run beside each other, beside the user who switches selectors and
beside a service that is stopped and started. An entry of the history is not a latency
but the outbound the measured connection went through; `behind` says which groups have
not seen which entries.

### RuntimeLimits and Startup

`RuntimeLimits` is `parseMemoryLimit` with the word as a parameter. `Startup` is what a
standalone core makes of its inputs in order: the limits, the envelope beside the first
config that has one (`Read`), one iteration of `validate` per plugin, and `expand`, one
reference per step. Texts are sequences of the tokens the code looks for and of other
characters. `Expansion` says what an argument means without a loop, and the run compares.
`FilesStayApart` is what `HostAssumption` of `PluginHost` takes for granted.

## 3. The runs

| Run | Question and answer |
|---|---|
| `host_reloads` | Reloads that replace a plugin beside one that stays, two guards, every partial failure, stops that give up: files, processes, the map and the socket agree, and the host implements `PluginSet`. Holds. |
| `host_live` | One supervisor under the host's calls, with the real delay bound, a plugin that forks and ignores SIGTERM, protect paths that change and an envelope with two equal plugins: escalation of a stop, no silent end, no overlapping runs; under fairness every stop completes, every death is handled, every call returns. Holds. |
| `protect` | Two requests at once, reloads, a close, a full descriptor table, peers that start, fork and exit while they are looked up: who is served and refused, what becomes of descriptors, that every request ends. Holds. |
| `output` | Every line within the bound is logged whole; every line has its entry. Holds. |
| `server` | Two threads and the failure reports of three hosts: no plugins in a host that nobody will close, and every call returns. Holds. |
| `server_stale_report` | "A host that was already replaced or closed is ignored" (command_server_plugins.go:72). Refuted: the check and ServiceStop are two steps. |
| `server_orphans` | "Plugins belong to the service: stop them wherever upstream stops it" (prepare_sources.py:79), between calls of two threads. Refuted: a start can fall between closePlugins and the rest of CloseService. |
| `cli_run` | A helper and two plugins that fail while the core starts, reloads or stops, and signals from outside: the core always ends, never with status 0, and is never killed while a service may run. Holds. |
| `system_dns` | Two networks that come, change and go while publish reads them call by call: the core ends with the servers of the networks that are there; a failed helper clears them and stops the core, nothing else does; start and stop return. Holds. |
| `helper_file` | Three cores of two versions, failing calls, killed cores, a power loss: the path never holds a partial dex, a call that succeeded finds its own dex, a call that returned leaves no temporary, a core that is at work keeps its own. Holds. |
| `url_test` | Two tests of selectors and outbounds in nested groups, asked for in every way, with a user who switches and a service that restarts: options arrive, results stay in their instance, groups see the entries, every test ends. Holds. |
| `startup` | Every memory limit around the size of an eight-bit word, every pair of file lists, every argument of up to five characters: limits are exact, plugins share no file, `expand` computes what an argument means. Holds. |

With one thread (`Caller = {c1}`) the claim of `server_orphans` holds.
It, and `server_stale_report`, need an app that calls CommandServer from two threads at
once, or a failure report that is delayed; nothing in the library prevents either. The
two refuted claims are in `PROJECT.json` under `findings`, with the lines.

Each property of a passing run has a mutant: a change of one mapped definition such as a
dropped guard, a missing reset or two steps in the wrong order, under which TLC finds the
property violated in the same configuration.

### Bounds, and why they are enough

* `host_reloads`: two guards at a time, three specs. Two specs share a file, so that
  replacing one by the other puts a stop and a start on that file; the third survives
  the reload, which also flips verify. `MaxDelay = 1` and no run longer than
  `stableWindow`: the host does not read the delay. `PluginsFork = FALSE`: the host
  does not look at descendants. With all guard values taken `Start` waits for one to be
  collected; the wait ends because an abandoned guard ends (StopCompletes).
* `host_live`: one guard, since it checks liveness and guards share no state except
  through the host. `MaxDelay = 30` is the code's, so that the cap is not a power of two
  and is met. Two envelopes with different paths, one with a repeated plugin.
* `output`: `MaxLine = 3`, chunks up to 4, streams up to 7 bytes over {newline,
  carriage return, other}: lines below, at and beyond the bound, two of them in one
  stream, and chunks that hold a whole over-long line.
* `server`: two threads, so that one can act between any two steps of the other, and
  three hosts: one current, one being closed, one reporting. The refuting runs use two.
* `protect`: two connections and two processes, which can be two plugins, a plugin and
  one it forked, or strangers. `MaxAncestry = 3` is what the walk needs to reach the core
  from the forked one, so an iteration too few would show. Three descriptors: two
  connections and one socket, so that both Accept and a message find the table full.
* `cli_run`: `Room = 1`, as upstream's channel has, so that a second signal is dropped.
  Two signals from outside: one can be pending when the core signals itself, and another
  can come while it is on its way out. Two plugins, since the second to fail must leave
  the rest to the first.
* `system_dns`: two networks, one of which has more servers than `MaxServers = 2` admits
  and an unusable one; every order of two changes of the system against the five calls of
  a publish, and a pipe with room for one frame, so that serve blocks while the snapshot
  is replaced. The changes are bounded; afterwards the run asks what the core ends with.
* `helper_file`: three cores, two of one version: two that agree and one that replaces
  their file. Every earlier file, a link, a directory or nothing at the path.
* `url_test`: two tests, two instances, groups three deep that reach each outbound in
  several ways; numbers of four bits for 31 and two for 8. The second instance has a
  urltest group under a tag that is a selector in the first.
* `startup`: an eight-bit word with units of 1, 4 and 16; an overflow needs nothing more,
  and MemoryLimitIsExact covers every word. Arguments of five tokens hold a reference
  within a reference and text on both sides of one. The environment and the envelope do
  not meet in the code, so only one of them varies at a time.

Symmetry is used for the guards of `host_reloads` and for the two cores of one version in
`helper_file`, which check no liveness. Deadlock is checked where the system never rests;
a core that ended, a helper that stopped, a test that was answered and a startup that is
over may rest.

### Fairness

Goroutines are scheduled, timers fire, and a process that was sent SIGKILL dies. In
`PluginHost` that is weak fairness of each guard's goroutine, of `KillGroup`, of the exit
of a killed process and of the call that holds `h.access`. Nothing obliges a plugin to
exit, to obey SIGTERM or to spawn, and nobody must call anything. `ProtectServer` has
weak fairness of the accept loop and of every handler, which rests on the 5 s deadline
for reads and on the app's protector returning. `CommandServer` uses strong fairness for
a thread's next step, because a mutex can be taken by others again and again while it
waits: Go's `sync.Mutex` hands itself to a waiter that starves for 1 ms. `CliRun` assumes
only that a failure report goes on and that its timer fires: starting and stopping may
stall. `SystemDns` assumes that the observer's threads run while the process lives and
that the core's two timers fire, not that a helper answers or notices its stdin.
`UrlTest` assumes that a handler goes on and its timeout fires, not that an outbound
answers.

## 4. What is proved

Every safety property that a run checks is a theorem, as is the refinement of `PluginSet`.
They hold for every value of the constants that satisfies the assumptions of the modules,
which TLC evaluates for the instances:

* `GuardAssumption` (a positive delay bound, a set of life times among the three) and
  `HostAssumption` (envelopes are not empty and no two specs of one envelope write the
  same file, which `PluginsFilesStayApart` proves of what `validate` lets through);
* `ProtectAssumption` (positive bounds, room for one or two descriptors in a message),
  `CliAssumption` (a report belongs to one of the two services, the channel has room for a
  signal), `OutputAssumption` (a positive `maxLine`);
* `DnsAssumption` (finitely many networks, numbered as Android's handles are, with lists
  of addresses, and none of a network that is gone to begin with), `FileAssumption` (files left by others have a file's shape);
* `UrlTestAssumption` (the groups are exactly the tags that have members, tags are
  finitely many, what is asked for has an `int32` timeout and known flags);
* `LimitsAssumption` (a natural word size, positive multipliers) and `StartupAssumption`
  (`"/"` is a character; the directories hold envelopes, blanks or nothing).

`ServerAssumption` and the rest only keep special values apart from ordinary ones.

**FoldLemmas.** The models compute with folds and recursive functions; what these yield
for every input needs induction over data, and the library's induction theorems take a
predicate as parameter, which the provers cannot instantiate. Stated of a *set* (if a set
of numbers holds 0 and with n also n + 1, it holds them all) induction follows from the
library's theorem that the strict subsets of a finite set are well-founded. A fold or a
recursive function is a CHOOSE of a solution of its equation; the lemmas build a solution
step by step, show that the chosen one solves the equation too, and that all solutions
agree. From there on `FoldedAppend` and `FoldedConcat` are how a fold is used.

**PluginHost_proofs: supervisors.** `GuardInv` is inductive: the type invariant and, for
every guard, `ActorsAgree`. The three safety properties each speak of a few positions of
`run`. What makes them inductive is what is known at *every* position: where a process can
be alive, where `g.process` is set, where the guard is among the children
(`ProcessFollowsRun`), which value of `started` goes with which position
(`StartedFollowsRun`), and that a goroutine on its way out has reported
(`EndIsReported`). One lemma per action. From it: `GuardTypeInvariant`,
`StopEscalatesAlways`, `FailureReportedAlways`, `RunsDoNotOverlapAlways`.

**PluginHost_proofs: the host.** First `HostImplementsGuards`: with the host's own state
hidden, every behaviour of the host is one of `PluginGuard`, by a step-by-step
correspondence (`HostNextGuards`), so all the above holds of guards in a host. Then
`HostInv`: `GuardInv` and seven facts about *ownership*. A guard is owned while the map,
the list of `stopGuards` or `start` refers to it. Owned guards have specs and files of
their own (`OwnersDisjoint`), and their files in place (`FilesAgree`); guards that nobody
owns are over, or were given up (`OwnersAgree`); those in the map were started and not
told to stop (`MapAgrees`), those in the list are unwanted, over, or part of a stop of
everything (`WaitAgrees`); `FreshAgrees` ties `start` to its loop; and `PhaseAgrees`
records what Apply has settled at each position. None of the host's properties is
inductive without the ownership facts: that two live plugins never share a file, for
example, follows from the disjointness of owners and from who may still have a process.
From it: `HostTypeInvariant`, `FilesMatchPluginsAlways`, `NoLeftoverFilesAlways`,
`NoLostGuardsAlways`, `NeverTwoLiveAlways`, and the action properties
`SocketSurvivesReloadAlways`, `UnchangedPluginsKeepRunningAlways`,
`ApplyReconcilesAlways`.

`CallNeverStuckAlways` is the safety half of CallReturns: at each position where the call
can wait, what it waits for is to come. It needs two more facts that are inductive beside
`HostInv`: run answers `started` before it ends (`EndAnswers`), and the range over the
guards is left with its last guard (`ScanGoesOn`).

**PluginHost_proofs: the refinement.** `HostImplementsPluginSet`: the host implements
`PluginSet` under the mapping of section 2. One lemma per action says which promised step
it is, or that it is invisible. The argument rests on `HostInv` (what a position of the
call has settled, who owns a guard, that the end of a supervisor is final) and on one more
invariant, `ServerAgrees`, that a host without a path has no listener at all.

**PluginOutput_proofs.** What is logged is computed by folds over the bytes of a chunk, what
should be by folds over the whole stream, and the chunks cut the stream anywhere. The
invariants compare the two byte by byte: for lines within the bound, the log is that of
all lines but the last, which is in the buffer or has just reached the bound (`Intact`);
for lines of any length, each finished line has its entry, in order, and the last is in
the buffer or its first maxLine bytes are logged (`Covered`). "In order" is a search for
each entry after the one before, so a further lemma shows that taking the first entry
that fits never misses (`Follows`). From it: `OutputTyped`, `ShortLinesLogged`,
`EveryLineLogged`, for every `maxLine` and streams and chunks of every length.

**ProtectServer_proofs.** `ProtectInv` adds four parts to the type invariant and to
`DescriptorsClosed`. A handler holds received descriptors at two positions only
(`HoldsWhatItReceived`). The backlog holds pending connections, each once, so that
Accept never takes one that has a handler (`BacklogPending`). A stranger's parent is a
stranger, init or nobody, strangers are never listed, and whoever is a parent is alive,
so that no PID is given out again that is still in the process table (`StrangersApart`).
With it a walk that began at a stranger stays among strangers while processes come and
go, which is what `HandlersAgree` says, position by position, of each handler. From it:
`ProtectTypeInvariant`, `OnlyDescendantsServed`, `EveryDescriptorClosed`,
`ExactlyOneSocket`. `RefusedNeverDescend` is the other direction and needs `WalkFollows`:
if the peer has a path to the core *now*, a walk stands on it, as many steps from the peer
as it has taken, and the core is still ahead. Exits only take such paths away
(`PathWasThere`), since an adopted process is init's; and the process that starts is
nobody's ancestor yet.

`FullTableIsBusyAlways` is the safety half of RequestsEnd: the open
descriptors are a finite set that grows and shrinks with `Open` and `Close`, and together
with the free ones it is the table (`TableAccounted`); so a full table is held by
handlers that are at work, and the accept loop does not sleep for nothing.

**CommandServer_proofs.** `ServerInv`: NoOrphanPlugins says nothing of a thread that waits
for a host's mutex while another takes the host out of the map. What holds then is that
the host is closed already, or that the thread which took it out is still on its way to
close it (`RemovedWillClose`); a closed host has no plugins but under the hands of the
thread that closes it (`ClosedIsEmpty`); and both rest on who holds the mutex
(`HoldersAgree`). From it: `ServerTypeInvariant`, `NoOrphanPluginsAlways`.
`MutexHolderWorksAlways` is the safety half of CallsReturn, and the converse of
`HoldersAgree`: a mutex that is locked belongs to a thread at work in that host, which
waits for no lock of this module, and to one thread only. So waiting threads form no
cycle, for any number of threads.

**Standalone_proofs: the run command.** `CliInv`: whoever signals the process has set its
flag before (`RecordedAgree`), and a process that ended takes no step, so that how it
ended still agrees with the flags (`SuccessAgrees`) and with the handler that was
registered (`KilledAgrees`). From it: `CliTypeInvariant`, `FailureIsNotSuccessAlways`,
`NeverKilledWithServicesAlways`. `FailureEndIsComing` is the safety half of
FailureEndsCore: a report that leaves the rest to the first of its service leaves it to
one that is on its way to the timer, or has armed it.

**Standalone_proofs: the startup.** `MemoryLimitIsExact`: parseMemoryLimit computes what its
text means for every word size and every unit, by `DivisionBounds`, which ties the
division the code makes to the product it must not make. `StartupInv` carries that to the
limits the runtime gets (`LimitsAreExact`), and says of `validate` that the plugins it has
looked at are in order and that `names` holds exactly their files; so no two plugins it
accepts share one (`PluginsFilesStayApart`). `ArgumentsMeanWhatTheySay`: `Expansion` gives
the meaning of an argument place by place; the loop cuts it at prefixes and suffixes. The
invariant (`Scanned`, `Reached`) is that what is built is what the places before the rest
stand for, that no reference is open there, and that each one before was closed and named
a file; then a missing suffix or a name that is no file is exactly where the meaning is
missing too.

**SystemDns_proofs.** `NoFalseAlarm` has two halves. Frames: whatever the networks report,
what `publish` makes, a fold over the networks and one over their addresses, is a frame
`decodeSnapshot` accepts, and so is everything on its way to the core. And the end of the
connection: at each position of Start and stop it is known who can have closed the
connection or killed the helper (`AlarmAgrees`), so that a reader that meets an error
without `stopping` met a failure of the helper. From it: `DnsInvariant`,
`DnsTypeInvariant`, `NoFalseAlarmAlways`.

`CurrentAtRestAlways` is the safety half of FollowsSystem: once there is nothing left to
do, the core has the servers of the networks that are there. Its invariant `CurrentInv`
follows a change to the core. What `lostNetworks` *will* say of a network, once the waiting
callbacks have run, is right for each network that is up or leaving (`WillBeLost`,
`LostAgrees`): a callback moves its mark from the queue to the set (`LostTail`). Each step
of the system either posts a callback, so that another publish is to come and nothing has
to be known of the one that runs (`Announced`), or changes only what publish does not see
(`Silent`). With no callback left, each value publish has read is the present one
(`ReadNow`), though it read them one by one; so the frame it makes is that of the networks
as they are (`ServersSame`: other networks' properties do not enter it). Then the newest
snapshot is unsent, in serve's hands, the last in the pipe or with the core (`Underway`),
and before the first publish is over serve has taken none (`FirstAgrees`).

`FailureClearedAlways` is the safety half of FailureClears: only stop closes the channel,
so a reader that returns in a core nobody stopped took the path of a failure, and clearing
the servers is the last thing it does to them (`FailureAgrees`).

For the helper's file, `FileInv`: what is at the
path, or there on the disk, was renamed by a core that is through with it, and is complete
(`Installed`), because of what each step before the rename has settled (`Prepared`);
temporaries belong to cores that have begun (`TempsAgree`). From it: `FileInvariant`,
`PathCompleteAlways`, `NoLeftoversAlways`, `WritersUndisturbedAlways`.
`ReturnedDexAlways` needs a second invariant (`DexStays`): a core that found its dex, or is
still correcting its mode, keeps finding it there, since whoever replaces it meanwhile
installs the same one.

**UrlTest_proofs.** The search of `urlTestGroupContains` shares its visited set between
branches. `ContainsExactly`: it still finds exactly what is in the least set of members
closed under membership; it ends because each turn is lighter, in the members left and the
tags not visited, which also shows that its equation has a solution. With it
`GroupsSeeWhatTheyContain` rests on `GroupsWillSee`: a group that has not seen an entry is
one that a running test still has to tell. `OptionsAlwaysArrive`: the decoder is a fold
over the fields, and each field the wrapper appends sets its option and no other.
`HistoryStaysWithItsInstance` is the action property of the entries.

**Only model-checked.** Liveness: StopCompletes, DeathIsHandled and CallReturns of the
host, CallsReturn of `CommandServer`, RequestsEnd, FollowsSystem, FailureClears and
CallsReturn of the DNS client, TestsEnd, FailureEndsCore. The prover cannot reason about
fairness and ENABLED here; for most of them the safety half is proved, that what is
awaited is on its way (above). The type invariants, and the halves no run lists, are theorems only:
no run spends time on them.

## 5. What is not modelled

Not modelled at all: the launcher, the build script and the source patches other than the
calls they insert (sequential, without state), the stub of the plugin host for other
systems, the fingerprint table, the device test. The update workflow runs outside of the
program, once a day and one run at a time; what it decides is a comparison of versions.

Left out of the modelled parts:

* everywhere: log messages, error texts, the content of files, commands and environments
  beyond what the properties tell apart;
* host: `PR_SET_PDEATHSIG` and a core that is killed: its plugins die with it, and nothing
  of the code runs that would clean up their files, until the next start of the same
  plugins overwrites them; the 100 ms the accept loop sleeps after an error;
* `Startup`: the default names of plugins, the plugins' environment (expanded exactly as
  the command is), `CopyEnvironment`;
* `CliRun`: upstream's own timer that guards the closing of an instance;
* `SystemDns`: what the local transport does with the servers; system versions below API
  30 on which networks are reported without a callback; a network that leaves at the very
  moment of registration; the values of the generation counter;
* `HelperFile`: clocks (a minute may pass at any time); readers of the path, whose
  protection PathComplete states;
* `UrlTest`: latencies, HTTP and TLS; groups that contain themselves, which upstream
  refuses; an instance without a context or a history.

## 6. Differences without a run

These came up while the models were written. Each is a disagreement between the code and
its own words, or a case the code does not exclude; the hazards in `PROJECT.json` refer
to them. Only the two of `findings` have a run of their own.

* *A short first run.* "A plugin that exits within 1 s of its first start fails the
  service" (README.md:60). `lived` (host.go:300) is taken after `cmd.Wait`, which also
  waits up to 500 ms for descendants that hold the output pipe: a first run of more than
  half a second that leaves one is measured above `fatalWindow` and restarted. `Drain`
  and `Measured` model it.
* *The process group.* "SIGKILL to its process group" after 1 s (README.md:60), "killGroup
  also reaches processes the plugin spawned" (host.go:379). SIGTERM goes to the leader;
  when it exits within the second `waitStopped` stops the kill timer (host.go:398), and a
  stop in the restart delay signals nothing: descendants live on. `KillGroup` and
  `WaitStopped` model it.
* *The rest of a long line.* "the rest of a longer line is dropped" (host.go:31). That
  holds within one Write; otherwise the buffer is emitted when it is full (host.go:442)
  and what follows becomes an entry of its own.
* *The socket of the next host.* "close unlinks the path, so it runs only when the path is
  no longer used" (protect.go:60). closePlugins takes the host out of the map, unlocks and
  only then closes it (command_server_plugins.go:64); a start on another thread may have
  bound the path by then, and loses its socket file. `Unlink` of `CommandServer` models it.
* *A report of the same host.* pluginFailed compares hosts, not envelopes
  (command_server_plugins.go:75): the report of a plugin that a reload has removed
  meanwhile stops the reloaded service.
* *Whose result it is.* "stores the result … so the group UI sees the same number"
  (url_test_options.go:71). The tag is `RealTag` after the measurement (:102), for TCP: a
  selector that was switched meanwhile, or one whose choices for TCP and UDP differ under
  an http3 link, passes the latency to an outbound that was not measured. `Store` models
  it.
* *Two look-ups.* `handleURLTestOptions` leaves urltest groups to the stock handler
  (:298) and URLTestWithOptions looks the target up again (:87): after a reload the tag
  may be a urltest group's. `Look` and `LookAgain` model it.
* *A dropped SIGTERM.* "a plugin failure always takes the graceful shutdown path"
  (service_android.go:31). `osSignals` has room for one signal: with a SIGHUP pending the
  runtime drops the SIGTERM, and the 10 s timer ends the core without cleanup.
  `Deliver` models it.
* *Plugins without a name.* "A reload restarts only plugins whose spec changed"
  (README.md:57). `validate` names an unnamed plugin after its place in the envelope
  (options.go:80), and the name is part of `specKey` (host.go:188): an unnamed plugin
  whose place changes is stopped and started again.

## 7. Plan

1. `CommandServer` on top of `PluginSet`, with several envelopes, and its theorems: calls of
   two threads against the contract of a host instead of a host that either has plugins
   or not.
2. A core that is killed and started again over the plugins' files and the old socket.
3. The safety halves of the remaining liveness properties: StopEscalates is that of
   StopCompletes, FailureReported that of DeathIsHandled, and section 4 names those of
   CallReturns, CallsReturn of the server, RequestsEnd, FollowsSystem, FailureClears and
   FailureEndsCore.
