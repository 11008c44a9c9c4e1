# A TLA+ model of any-sync-bundle

any-sync-bundle runs the four Anytype server applications (coordinator,
consensus, filenode, sync) as one process, optionally with its own MongoDB and
Redis. The applications are upstream code; what this repository adds is the
*lifecycle* around them (start in order, notice a loss, stop in order, report
the truth, meet every deadline), a block store for the filenode, the
configuration, and a harness that runs the result in integration tests. These
modules model all four. All source paths below are relative to `src/`.

## 1. The system

| Component | Code | State | Operations | Talks to |
|---|---|---|---|---|
| Root context, watchdog | `main.go` | the context's cause; the watchdog's timer | signal, `stopRoot(err)`, forced exit | everything: it is the process's lifetime |
| `infraSuite` | `cmd/infra.go` 112-312 | children, their Wait results, `stopping`, `childrenCtx` | `start`, Wait owner, `stop` | kernel, os/exec; stops the root context on a loss |
| `runServices` | `cmd/services.go` | each App and listener, the startup error | start, ready, classify, stop | upstream Apps; root context |
| start-all-in-one | `cmd/start.go`, `cmd/infra.go` 30-104, 358-389 | the main goroutine | prepare, start and await databases, run, stop, report | all of the above |
| start-bundle | `cmd/start.go` 74-91 | none of its own | `runServices`, report | services |
| Shutdown deadlines | `cmd/start.go` 16-30, `compose.aio.yml` | the clock | | services, suite, watchdog, container |
| Replica-set initialization | `cmd/mongo.go` | attempt, last error; the server's configuration | connect, initiate, stabilize, status, retry | mongod over the network |
| Filenode store | `lightcmp/lightfilenodestore/store.go` | a Badger database, a GC goroutine | Run, Close, Add, Delete, GetMany, Index... | filenode goroutines, disk |
| Bundle assembly | `lightnode/anynodes.go` | four Apps with their component lists, two deferred transports | `NewBundle` | upstream components; services |
| Configuration | `config/*.go`, `cmd/start.go` 98-119 | two YAML files | load or create, validate, convert, publish | commands, operator, disk |
| CLI, output | `cmd/root.go`, `output.go` | the log level | set up the logger, emit a lifecycle event | whoever reads the log |
| pprof | `cmd/pprof.go` | none that matters here | | |
| Harness: bundle process | `integration/bundle.go` | captured output, exit status, data directory | start, capture, await an event, stop, clean up | the bundle's pipes, the kernel, the test |
| Harness: containers | `integration/containers.go` | containers, a network | start, inspect, terminate | container daemon |

How they interact. `main` creates the root context and hands it, with
`stopRoot`, to a command. The first cancellation fixes its cause for good: a
signal (which matches `context.Canceled`) or a failure. start-all-in-one starts
mongod and redis-server through the suite, waits for them, turns mongod into a
replica set, and runs the services in the same goroutine. A child's death makes
its Wait owner call `stopRoot`. The end of the root context, from whatever side,
wakes the main goroutine, which closes listeners, then services in reverse, then
the databases; what all of these return, joined, decides the exit status and
whether `bundle_shutdown_complete` is emitted.

What is hard, and what makes each part correct:

* **Suite** (interleaving, deadlines, deadlock). A death can fall before, in or
  after the handoff of `stop`; os/exec's SIGKILL, stop's own deadline and the
  exit itself race. Correct: nothing survives `stop`, no loss is swallowed, no
  intended end is reported, and `stop` returns.
* **Services** (ordering, partial failure). The root context can end between any
  two steps. Correct: a request finds every service up, a service finds what it
  borrows, everything is released, an operator's stop is no failure and a
  failure is no operator's stop.
* **Command** (composition). Correct: databases outlive the services, the
  completion marker is true, startup and shutdown come to an end.
* **Deadlines** (numbers). Correct: the inner deadlines fit into the outer ones.
* **Replica set** (unreliable delivery, retry, cancellation). Correct: success is
  true, transient faults are tolerated, a stop ends the retries.
* **Configuration** (crash, partial failure, restart). Correct: the key of a
  published network is never lost, a restart changes nothing, each command uses
  its own databases.
* **Store** (crash, concurrency with GC and Close). Correct: acknowledged writes
  survive, no GC pass runs on a closed database, goroutines end, and all of it is
  a map to its callers.
* **Assembly** (ordering). Three Apps borrow the coordinator's network, and the
  coordinator has the transports in its list. Correct: what a component uses
  outlives it, there is one network, and no transport is open over a component
  that does not run.
* **Harness** (ordering of pipes, exit and looks at both; timeouts). Correct: what
  a call says of the bundle is true, data is not taken from a live bundle, a
  bundle that hangs or floods its output does not hang the test, and containers
  are released.

`PROJECT.json` lists these hazards at their lines, with the properties that
would catch each going wrong.

## 2. The modules

| Module | Models | Notes |
|---|---|---|
| `RootContext` | the root context | one variable, `cause`; shared by every module that depends on it |
| `Infra` | `infraSuite` | for any set of processes |
| `InfraContract` | what the suite promises | abstract specification |
| `InfraProofs` | | theorems about `Infra` |
| `Services` | `runServices`, `startServices`, `stopServices` | for any number of services and listeners |
| `ServicesProofs` | | theorems about `Services` |
| `AllInOne` | start-all-in-one | instantiates `Infra` and `Services` over one `cause` |
| `ProcessContract` | what the process promises whoever runs it | abstract specification: `AllInOne` implements it, the bundle of `Harness` keeps it |
| `AllInOneProofs` | | theorems about `AllInOne`, about `MongoInit`, and about the two together |
| `Assembly` | `NewBundle` and its four Apps | extends `Services`, for the Apps as they are |
| `AssemblyProofs` | | theorems about `Assembly` |
| `MongoInit` | `initReplicaSetAction` | |
| `ReplicaSetContract` | what it promises | abstract specification |
| `ShutdownBudget` | the deadlines against a clock | |
| `ShutdownBudgetProofs` | | theorems about it |
| `FileStore`, `MCFileStore` | `LightFileNodeStore` | |
| `BlockStore` | what the filenode may expect of it | abstract specification |
| `FileStoreProofs` | | theorems about `FileStore`, its refinement among them |
| `ConfigLifecycle` | `config/*.go` over many starts | the program's own writes, and the operator's |
| `ConfigLifecycleProofs` | | theorems about it |
| `Harness`, `MCHarness` | `integration/bundle.go`, and the log level of `cmd/root.go` | around one start-bundle process |
| `Containers` | `integration/containers.go` | the set-up of the S3 test |
| `IntegrationTest` | `TestBundleWithS3CustomRegion` | composes the two over the test's context |
| `IntegrationTestProofs` | | theorems about `Harness` and `IntegrationTest` |

Definitions named `Mut_...` are plausible faulty versions of the one that
follows them (a dropped guard, a swapped order). No specification uses them: put
in its place, each makes one property fail, which shows that the property
depends on the code.

### State and actions against the code

**Infra.** Three kinds of goroutine run: the caller of `start` and `stop`, one
Wait owner per child, os/exec's watcher. `stage[p]` is a child together with its
owner: `alive`, `exited` (zombie), `waited` (`cmd.Wait` has returned), `holding`
(the owner is in the critical section: result stored, root stopped, `done` still
open), `done` (published). The mutex is held across two visible steps only there,
so "unlocked" is "nobody is holding". `stopPC` follows `stop`: `Handoff`
(247-259, one step because it holds the lock), `CancelChildren` (263),
`WaitForProcesses` (265-272), `Settle` (274-283, which reads `ctx.Err()` once),
`KillSurvivor` (284-303), `Reap` (306-309). Loops over `s.processes` visit them
in any order. `errs` keeps the kind of each error, not its wording. Exits are
`zero`, `sigterm`, `sigkill` and the constant `Crash`, the ends no stop intends;
`WaitResult` is os/exec's rule that a clean exit after a delivered cancellation
is reported as the context's error. A failed `exec` leaves no trace and is a
stuttering step. `start` tests the root context (169) and runs the child (187) in one
step: what can come between is only the end of the root context, since the mutex is
held, and it commutes with the exec, as the child's context is detached from it.

**Services.** `svcPC` and `at` are the main goroutine inside `runServices`; each
App is `new`, `starting`, `up`, `unwound` (its own failed Start closed it),
`closing` or `closed`. Testing the context and acting on it are separate steps
wherever the code separates them (`CheckRoot`, `TestReady`/`EmitReady`,
`Classify`/`Fail`). `App.Start` and `App.Close` are external: they take time and
succeed or fail. `EmbeddedLoss` is the suite's `stopRoot`, used when the module
stands alone. In it `stoppedByOperator({})` takes no failure for a canceled one;
that is `LossIsNotOperatorStop` of `Infra`, which is proved.

**AllInOne.** `mainPC` is the main goroutine outside `runServices`; inside, it
takes `S!ServicesStep`. `waitForTCPOrExit` is one action per outcome: `Reachable`,
and one per ready case of its select (`SawExit`, `SawStop`, `TimesOut`).
`InitReplicaSet` is one step, which can answer nil after mongod has died (the death
may follow its last answer): `MongoInit` has the detail. Seen from outside the
command is `ProcessContract`: three facts, ready, complete and the exit status, and
the end of the root context. `Watchdog` can fire at
any time after the root context's end; `ShutdownBudget` says when it does.

**Assembly.** `App` is the four component lists, in the order of `Register`. How
app.App works is external: an App that starts initializes all its components in
order, then runs them in order; Close goes backwards; a child App looks a name up
among its own components and then the coordinator's (`Owner`). So `inited` and
`running` count components, and `Started` and `Closed` join those counts to the
actions of `Services`. `Deferred` is the wrapper whose `Run` does nothing.

**MongoInit.** One action per outcome of each call. The server is one bit,
`replSet`; `InitiateFails` covers a refusal, a lost request and a lost answer.
`faults` counts what failed without the stop's doing. Time is not kept: only the
number of delays matters here. It implements `ReplicaSetContract`, one call with
one answer, which is what `InitReplicaSet` of `AllInOne` takes it for.
`AllInOneProofs` puts the attempts in the place of that step (`CommandSpec`).

**ShutdownBudget.** `now` is in seconds since the SIGTERM; `Tick` is disabled
while something is due. `wedged` is chosen at the start: a wedged party keeps no
time. What is not wedged returns by its deadline: an interrupted startup call
within `StartupLag` (the longest this repository adds itself is the detached
`Disconnect`, 5 s), services by the deadline of the context they are given, a
killed child in less than the reap margin.

**FileStore.** `mem` is what transactions see, `disk` what a reboot leaves; with
SyncWrites, `Commit` changes both. `Add` and `DeleteMany` use a WriteBatch, which
commits in parts; the others commit at once, on one slot. `promise[s]` is what a
caller may rely on: unknown while a write is under way or after one failed, the
value once acknowledged, and unknown again (`mixed`) if writes of one slot
overlapped. `GetMany` is a goroutine with its offer on an unbuffered channel.
`Crash` is a power failure, a kill, or the panic of a call that outlives Close.
`BlockStore` has neither database nor life cycle: a map, the calls in progress and
`promise`. The mapping (`visible`, `calls`) takes `disk` for the map while the
store is down, and forgets whether a scan has offered or delivered a block.

**ConfigLifecycle.** `file` and `client` are the two files, `cfg` the config in
memory, `nodes` what `NodeConfigs` hands to the services. `pc` follows a start:
`stat` (`LoadOrCreate`), `open` and `write` (os.WriteFile truncates before it
writes), `openClient` and `writeClient`, `run`, `running`. `Torn` is what a short write of
either file leaves: nothing that parses, or the fields in the order yaml writes them
up to some point (`Prefix`); a bundle config cut so can load, a client config can be
imported. The order is `Layout` and `ClientLayout` (the latter is upstream's
`nodeconf.Configuration`). The time stamp that `networkCfg` and `YamlClientConfig`
put on the network is left out: it is new in every start, and nothing here reads it. `last` is what the latest run
had, with mode `none` before the first. `Exit` is a kill or a stop anywhere.
The operator edits a file that loads and removes one that a start refused.

**Harness.** Five actors: the bundle (`child`, the lines it prints, how it ends),
`captureOutput` (`Read`, `Scan`, `ScanEnds`), `waitForExit` (`WaitReturns`,
`StoreErr`, `CloseDone`, its three statements), the test, and os/exec, which kills
the process when the test's context is done. `pipe` holds a bounded number of
lines; a full one blocks the bundle. `pc` is the test: `look` and `probe` are the
two looks of `waitForOutputMarker`'s loop, which nothing makes one; `stop` and
`stopWait` are `Stop`, explicit and then deferred; `cleanup` and `cancel` are the
deferred calls after it. Of the output an error quotes, only the error is kept. A
line is one of a few kinds: an event, an error, a line that the scanner does not take. The bundle may stop printing, ignore its signal,
fail or die anywhere; `Services` and `AllInOne` say more of it. `KeepsPromises` ties
it to them: it does only what `ProcessContract` allows.

**Containers.** `step` is the daemon call being made, `todo` what is being released
after a failure or at the end, in the order of the code's explicit and deferred
calls. `dropped` is a container left by a call that returned an error: the code
has no handle to it. `refused` is what a release failed for.

**IntegrationTest.** `Harness` runs while `Containers` is at `test`, and its
goroutines and the bundle also later. `BundleUndone` hands over from the bundle's
deferred calls to the containers', `CancelContext` comes last. The deadline
(`ctxDone` of `Containers`) lets os/exec kill the bundle at any time from then on.

## 3. What is checked

| Run | Bounds | Distinct states | What it shows |
|---|---|---|---|
| `infra` | 2 processes, 2 kinds of crash | 99,373 | the suite's six safety properties, and that it implements `InfraContract`, fairness included: `stop` answers |
| `services` | the four Apps as they are, 2 listeners | 25,763 | `NoEarlyRequest`, `DependenciesUp`, `AllClosed`, `OutcomeIsTrue` (classification, both ways round), `NoLateStart`, `UsesRunning`, `RequestsServed` |
| `all_in_one` | 2 databases, 1 service, 1 listener | 934,394 | the composition's safety, that it uses the suite only as `Infra` allows (`UsesSuite`), and that it implements `ProcessContract`, fairness included (`ImplementsProcess`): startup ends, a stop exits |
| `mongo_init` | 10 attempts (the code's) | 2,465 | that it implements `ReplicaSetContract`, fairness included; `ToleratesFaults`, `StopEndsRetries` |
| `shutdown_budget` | the code's constants, lag 9 s | 367,041 | `WatchdogOutside`, `GraceRespected`, `NoDeadlineBlame`, `OwnsForcedExit` |
| `file_store` | 2 clients, 2 blocks, 1 index key | 1.2 million | `Durable`, `GcOnOpenDatabase`, `ScanIsComplete`, and that it implements `BlockStore` |
| `file_store_live` | 1 client, 1 block | 2,112 | `GoroutinesEnd` |
| `config_lifecycle` | 2 networks, 2 addresses | 228,511 | `ClientNamesKeptNetwork`, `RunsWhole`, `RestartKeeps`, `ClientMatches` |
| `integration_test` | the S3 test's calls and events, a pipe of one line, two log levels | 754,316 | `VerdictIsTrue`, `DataOutlivesBundle`, `ReleasesAll`, `TestIsOver`, and `KeepsPromises`: the bundle around which the harness is built is a process like `AllInOne` |
| `avx_diagnosed` | 1 service | | a disagreement of code and comment, below |
| `majority_writes` | as `config_lifecycle` | | another, below |
| `crash_output` | one event, a pipe of two lines | | another, below |

Why the bounds are enough. Two processes are what the program has, and the
suite's properties relate at most a loss and an innocent sibling. In
`AllInOne` one service is enough: the databases see no more of the bundle than
its first start and its last close, and `services` has the rest. In the store,
two blocks split a batch and two clients overlap on a slot; the clients, blocks
and values are interchangeable (symmetry, safety only). `MaxNetworks` bounds the
configuration: with two networks, a first one can be lost or mixed up with the next.
`faults`, `now`, `at` and `attempt` are finite by the code. In the assembly every
component of every App has its place; of the two file stores only the name
differs, so one is enough. `PipeCap` stands for the kernel's 64 KiB; it is one
line: once nobody reads, the bundle writes one more and blocks. `crash_output`
has a pipe of two.

Type invariants are proved and not run; so is `ReadyIsTrue` of `Services`.

`CHECK_DEADLOCK FALSE` is set where the process or the call ends for good.

### Fairness

* `Infra`: the goroutines run (`StopStep`, `OwnerStep`), os/exec signals and kills
  (`WatcherStep`), a killed child dies and is reaped. A child need not obey
  SIGTERM and stop's deadline need not pass: WaitDelay alone ends every child.
* `AllInOne`: the main goroutine runs, so upstream's Start and Close
  return and the bounded waits end. The watchdog has no fairness: the exit is to
  come without it. Before startup is over nothing forces a signal.
* `MongoInit`: every call has its own timeout (10 s, 5 s, 5 s).
* `FileStore`: the GC goroutine and Close run, Badger's calls return, and a select
  with a done context takes it in the end (strong fairness of `GcExits`), as Go's
  uniform choice does. A receiver need not receive.
* `ProcessContract`: startup comes to readiness or an exit, a process that is being
  stopped exits. That follows from `AllInOne`'s fairness. Of the harness's bundle
  only the safety half is asked: the harness assumes no fairness of it.
* `ReplicaSetContract`: the call answers. That follows from `MongoInit`'s fairness.
* `IntegrationTest`: the test and the harness's goroutines run, the daemon
  answers, a deadline passes even for a loop that looks again and again (strong
  fairness of `Deadline`), SIGKILL kills. Nothing is
  assumed of the bundle: it need neither print nor end nor heed SIGINT.

### Disagreements found

`avx_diagnosed`: a mongod that dies of an illegal instruction before it listens
should produce the AVX message (`cmd/infra.go` 85-88, 336), and
`waitForTCPOrExit` "fails when the process exits first" (358-359). But the Wait
owner stops the root context (203) before it closes `done` (205), and the wait's
own context is derived from the root context: its select finds that one ready
first. The error then says "context canceled", `isIllegalInstruction` does not
match it, and the message is not shown. The unit test of the wait passes a
context that nobody cancels. (The loss itself is still reported by `stop`:
`LossReported`.)

`majority_writes`: "Consensus requires majority writes" (`config/bundle.go`
334), but the URI for consensus gets `w=majority` only if the operator's has no
`w` (342). With `?w=1` consensus runs with `w=1`, and `Validate` does not object.
It is start-bundle's alone: for start-all-in-one the theorem `OwnDatabaseHasMajority`
excludes it.

`crash_output`: the test of a bundle that dies early wants the line it printed in
the error (`integration/bundle_test.go` 38). But `waitForExit` calls `cmd.Wait`,
which closes the pipes once the process is gone, without waiting for the goroutines
that read them: the line may be lost, or still be on its way when the exit is
announced. The same race can make `Stop` miss `bundle_shutdown_complete` and call a
clean shutdown a failed one. `VerdictIsTrue` holds all the same: what is lost is
output, not the status.

### Observations without a run of their own

* `MongoInit`: success by the status check, after a lost answer or on a restart,
  skips the stabilization delay.
* `FileStore`: Close ignores its context, so one long `RunValueLogGC` can use up
  the deadline all services share; a `GetMany` still running then meets a nil
  database.
* `ConfigLifecycle`: a full disk at the first start can leave a config that
  loads but lacks its S3 section or its limit, or has a shortened Redis URI; the
  next start runs with it. A kill at the wrong moment leaves an empty file, which
  every later start refuses until it is removed. The file is not synced: a power
  failure soon after the first start can lose the network's key.
* The client config is written in the same way (`config/client.go` 42). A full disk
  can leave a prefix of it that parses: a network with no node, or an identifier cut
  short. "It is regenerated on every start, so it always matches the bundle config"
  (31) is true of starts that get past it (`ClientMatches`); of the others
  `ClientNamesKeptNetwork` says what is left: pieces of the network that the bundle
  config keeps, never another one, and an address only with the whole identity.
* `Harness`: `Stop` sends SIGKILL after its timeout and does not wait for it (208), so
  `Cleanup` can remove the data of a bundle that is not quite dead.
  `DataOutlivesBundle` excuses a killed bundle: it is about one that nobody killed.
* `FileStore`: a block that cannot be loaded is passed over with a log line (169-177),
  and the receiver sees a shorter stream without an error. `ScanIsComplete` excuses
  that block, and says that the scan goes on to the others.
* `MongoInit`: when the root context ends while an attempt's delay is just over, the
  select (40) may take either case, so that one attempt may still begin. After
  it, `StopEndsRetries` allows no other.
* `Harness`: a line above the scanner's 64 KiB ends the capture; the bundle blocks
  when the pipe is full, and only a SIGKILL ends it.
* The lifecycle events that tests, and an operator before a backup, are told to wait
  for (`cmd/output.go` 18, `README.md` 254) are logged at info: with `--log-level
  warn`, or above, they are never written. `Harness` has such a bundle, for which
  every wait times out and every stop is reported as one without its marker.
* `Containers`: a container that fails its health check is dropped, and its network
  with it; after the test's deadline nothing is released, since releases use the
  same context.
* `ShutdownBudget`: when the services are wedged, the watchdog ends the process
  before the databases were ever sent SIGTERM.

## 4. What is proved

`InfraProofs` proves, for every set `Proc` and every set `Crash`, from
`ProcAssumption` and `CrashAssumption` (the names do not clash with the model's
own values):

| Theorem | Property |
|---|---|
| `TypeCorrect` | `TypeOK` (proved only) |
| `ReapsAll` | `StopReapsAll` |
| `LossesReported` | `LossReported` |
| `NoFalseAlarms` | `NoFalseAlarm` |
| `LossNeverOperatorStop` | `LossIsNotOperatorStop` |
| `CleanVerdictIsTrue` | `CleanIsClean` |
| `OrdinaryStopsAreClean` | `OrdinaryStopIsClean` |
| `KeepsContract` | `Spec => Contract!Spec` |

None of these properties is inductive: each is about the moment `stop` returns
or about `errs`, and says nothing of how it came to that. The inductive
invariant `IInv` adds three parts. `ChildInv`: what a child's stage says of it
(a result is published exactly from `holding` on and is what `Wait` returned; a
killed child that has ended ended by SIGKILL). `StopInv`: before the handoff
nothing is signalled, killed or cancelled, and a cause in `Proc` has been
published; after it the started children are `running` and `unexpected` for good,
the latter published and never touched. The step that matters is `Handoff`: it
needs the lock, so no child is `holding`, so a loss that stopped the root is
`done` and falls into `unexpected`. `ErrsInv`: each error has its reason, and each
reason its error once the loop that owes it has passed. `IInv` is shown by one
lemma per part (`TypeStep`, `ChildStepInv`, `StopStepInv`, `ErrsStepInv`), one
step per action.

`ServicesProofs` proves, for any number of services and of listeners (at least
one of each, `NumAssumption`) and any set `Embedded` of databases
(`EmbeddedAssumption`: none is called as another cause is):

| Theorem | Property |
|---|---|
| `TypeCorrect` | `TypeOK` |
| `NoEarlyRequests` | `NoEarlyRequest` |
| `DependenciesStayUp` | `DependenciesUp` |
| `EverythingClosed` | `AllClosed` |
| `OperatorStopsAreNoFailure` | `OperatorStopIsNoFailure`, half of `OutcomeIsTrue` |
| `FailuresReported` | `FailureReported`, its other half |
| `OutcomesAreTrue` | `OutcomeIsTrue` |
| `ReadinessIsTrue` | `ReadyIsTrue` (proved only) |
| `NoStartAfterStop` | `NoLateStart` |

Here the inductive invariant `IInv` says, place by place of `svcPC`, what the
loops have achieved: `SvcInv` for the services (those before `at` are up and
those after it new while they start; those after `at` are gone while they
close), `LstInv` for the listeners. `ErrInv` ties the startup error to the cause.
Its hard case is a stop that arrives between `Classify` and `Fail`: an error
that is still the context's own there means that the context was already done,
and its cause, which nothing changes any more, was not a signal. `NoLateStart`
nests two boxes; it follows from `NewInv` (a service that has not started is
followed only by such services) and from one fact about steps: under a finished
context a service whose predecessor is new stays new.

`AllInOneProofs` proves, for any two databases, any ends they may come to and any
number of services and listeners (`DatabaseAssumption`, `CrashAssumption`,
`NumAssumption`: those of the parts):

| Theorem | Property |
|---|---|
| `SuiteIsUsed` | `UsesSuite` |
| `TypeCorrect` | `TypeOK` of the command and of its parts |
| `DatabasesStayUp` | `DatabasesOutliveServices` |
| `BundleKeepsPromises` | `NoEarlyRequest`, `DependenciesUp`, `AllClosed`, `OutcomeIsTrue` of `Services`, in the command |
| `MarkersAreTrue` | `MarkerIsTrue` |
| `OperatorStopsAreClean` | `OperatorStopIsClean` |
| `FirstCauseWins` | once the root context is done, its cause stays (proved only) |
| `ProcessIsReliable` | `Spec => Process!Spec`, the safety half of `ImplementsProcess` |
| `FaultsAreTolerated` | `ToleratesFaults` of `MongoInit` |
| `StopsEndRetries` | `StopEndsRetries` of `MongoInit` |
| `OneTrueAnswer` | the safety half of `ImplementsReplicaSet` |
| `CommandIsAllInOne` | `CommandSpec => Spec`: with the attempts in the place of the one step it still is `AllInOne` |
| `CommandToleratesFaults`, `CommandEndsRetries` | `ToleratesFaults`, and `StopEndsRetries` over the command's variables, in it |
| `ReadyOnReplicaSet` | the bundle is ready only on a replica set (proved only) |
| `AttemptsAreUsed` | `CommandSpec => Attempts!AttemptsSpec`, any end of the root context taken for the operator's |

The argument is compositional. `SuiteStep` shows that a step of the command is one
of `Infra` or leaves it alone, so the command implements `I!Spec`, and the
theorems of `InfraProofs` are cited through the instance `Suite`. `Services` cannot
be taken over so simply: the command has a `Fail` of its own, which ends the root
context as a startup failure when the services never ran, and `Services` has no such
state. So `BundleInv` of `MainInv` says that either the invariant of
`ServicesProofs` holds or the services are `Untouched`; `BundleInvariantStep` cites
that module's step lemmas for the first case. The rest of `MainInv` joins the two:
`OrderInv` (where `mainPC` is, against `svcPC` and `stopPC`), `LossInv` (before
`stop`, a published result has ended the root context), `CauseInv` (the startup's
error against the cause) and `ReportInv` (what the exit status and the marker are
computed from). `ProcessIsReliable` asks which step can change each fact of the
contract: only `EmitReady` makes it ready (`ReadyStep`), only `Finish` announces the
shutdown, by `MarkerIsTrue` for an operator's stop (`CompleteStep`), and of the four
exits only `Return`'s can be 0, after the announcement (`ExitStep`).

`MongoInit`'s own invariant is `RetryInv`: `AnswerInv` says what an attempt knows of
the server and of the stop, and `FaultInv` counts, since a failed attempt had at least
one fault of the network's or the server's, in replSetInitiate or in the status check,
unless a stop caused it. It survives steps of anybody else that end the root context
(`RootStep`), and so holds in the command. There `TryStep` maps an attempt's answer to
`InitReplicaSet` and everything else an attempt does to a stutter, and `LinkInv` joins
the two: before the call the answer is pending, and whoever starts the services has
had nil. In `CommandSpec` a mongod that has died answers nothing more.

`AssemblyProofs` proves, for any embedded databases and for either file store (the
run has one of the two), with four Apps and two transports (`AppAssumption`):

| Theorem | Property |
|---|---|
| `AssemblyIsServices` | `AssemblySpec => Spec` |
| `AssemblyTypeCorrect` | `AssemblyTypeOK` |
| `ComponentsHaveWhatTheyUse` | `UsesRunning` |
| `RequestsAreServed` | `RequestsServed` |
| `AssemblyKeepsPromises` | `NoEarlyRequest`, `DependenciesUp`, `AllClosed`, `OutcomeIsTrue` |
| `NoAppStartsAfterStop` | `NoLateStart` |

The first needs that a component that runs opens no listener, which is
`TransportsDeferred`. `AppInv` adds to the invariant of `Services` how far each App
has come (an App that is up runs all its components, one that is down none).
`UsesRunning` follows from `DependenciesUp` and three lemmas about the lists as they
are in the code: the coordinator's has the whole network, no other has any of it,
and consensus has its database before what dials the coordinator.

`ShutdownBudgetProofs` proves, for any set `Proc` and any `StartupLag` that
`LagAssumption` allows (below the watchdog's margin):

| Theorem | Property |
|---|---|
| `TypeCorrect` | `TypeOK` |
| `WatchdogIsOutside` | `WatchdogOutside` |
| `GraceIsRespected` | `GraceRespected` |
| `NobodyIsBlamed` | `NoDeadlineBlame` |
| `ForcedExitIsOwned` | `OwnsForcedExit` |

`BudgetInv` adds the deadlines up phase by phase, each for the parties that keep
time; `ChildInv` fixes the one moment at which a database can be killed. Together
they leave no survivor when `stop`'s deadline passes, unless the kernel is wedged.

`FileStoreProofs` proves, for any clients, blocks, index keys and values
(`SlotAssumption`, `ValueAssumption`: blocks are no index keys, values no markers):

| Theorem | Property |
|---|---|
| `TypeCorrect` | `TypeOK` |
| `AcknowledgedIsDurable` | `Durable` |
| `GcIsJoined` | `GcOnOpenDatabase` |
| `ScansAreComplete` | `ScanIsComplete`, an action property |
| `StoreImplemented` | `ImplementsStore`: `Spec => Contract!Spec` |

`Durable` is about slots nobody is writing; `WriteInv` is what makes it inductive.
It follows a write in progress, or two on the same slot: nothing is promised of its
slots, an overlap is marked (`mixed`), and what a batch has committed so far is
still there. `SyncInv`, `mem = disk`, is what SyncWrites buys; `ScanInv` says that
what a scan owes is ahead of it or behind it. The refinement goes action by action:
most map to a stutter, `Commit` to `Apply`, the end of a call to `Return`.

`ConfigLifecycleProofs` proves, for any set of addresses and any number of networks
(`NetworksAssumption`; `MarkerAssumption` says that the markers for what is missing,
cut short or unreadable are no values of what they stand in for):

| Theorem | Property |
|---|---|
| `TypeCorrect` | `TypeOK` |
| `NetworkIsNeverLost` | `ClientNamesKeptNetwork` |
| `RunsAreWhole` | `RunsWhole` |
| `ClientsMatch` | `ClientMatches` |
| `RestartsKeep` | `RestartKeeps`, an action property; "the same configurations" is up to the network's time stamp |
| `OwnDatabaseHasMajority` | what `MajorityWrites` asks, for start-all-in-one (proved only) |

The heart is the lemma `TornFile`: a file that was cut short and loads nevertheless
has the whole key, since the fields that `Validate` asks for come after it in the
order yaml writes them. So whatever loads is `Sound` (`FileInv`). `TornClient` is its
counterpart for the client config: name and key come before the addresses. `StartInv` says
where the copies of the configuration agree during a start, `LastInv` that the
latest run was of the file as it is, up to the operator's edits.

`IntegrationTestProofs` proves, for any list of awaited events, any log levels and
any size of the pipe (`AwaitedAssumption`, `PipeAssumption`):

| Theorem | Property |
|---|---|
| `HarnessVerdicts` | `VerdictIsTrue` of `Harness` on its own |
| `HarnessIsUsed` | `TestSpec => Spec /\ C!Spec` |
| `TypeCorrect` | `TypeOK` of both parts |
| `VerdictsAreTrue` | `VerdictIsTrue` in the test |
| `DataOutlives` | `DataOutlivesBundle` |
| `EverythingIsReleased` | `ReleasesAll` |
| `BundleKeepsPromises`, `TestKeepsPromises` | `KeepsPromises`, of `Harness` on its own and in the test |

`KeepsPromises` needs `PromiseInv`: where the bundle is, against the events it has
written and whether it was told to stop. `HarnessInv` relates process, waiter and captured output; it is an invariant of
the harness under any use. `ContainersInv` says, call by call, what exists (`Held`),
and during a release that whatever exists is still to be released or is excused by
a failed call; the network is released last because the others are attached to it
(`NetworkLast`), and no release is tried twice (`OnceInv`). `TestInv` places the
bundle's life inside the containers'.

Every invariant here was an invariant of a TLC run before it was proved.

Left to TLC: liveness (`GoroutinesEnd`, `TestIsOver`) and the fairness halves of
`ImplementsProcess`, `ImplementsContract` and `ImplementsReplicaSet`, since the
prover handles neither ENABLED nor fairness. The invariants of the violated runs
are, of course, not theorems.

## 5. Not modelled

* Upstream applications, MongoDB, Redis, Badger and os/exec beyond what the code
  here relies on.
* The constants of the upstream configurations, S3 credentials, the syntax of
  addresses and URIs (a field is there, cut short or malformed). An IPv6 listen
  address loses its brackets in `convertListenToConnect`; no module sees that.
* pprof, flags and printed text: no state that another part depends on. Of logging,
  only the level.
* Inside the upstream components: `Assembly` knows them by name and by what this
  repository says they need of the network.
* The harness's build of the binary, its arguments, connection strings and ports,
  the test of the all-in-one image and that of the S3 client alone.
* Wording of errors: errors are kinds. Directory creation and the container test
  are ways for startup to fail (`CheckRoot`, `Refuse`).
* Two signals: the second finds the context done and changes nothing.

## 6. Plan

1. Done: `RootContext`, `Infra` with contract and proofs, `Services` with proofs,
   `AllInOne`, `Assembly`, `MongoInit` with contract, `ShutdownBudget`, `FileStore`
   with its abstract store, `ProcessContract`, `ConfigLifecycle`, `Harness` and `Containers`
   composed in `IntegrationTest`.
2. Done: every invariant and every action property that a passing run checks is
   a theorem, and so are the refinements but for their fairness.
3. Done: the attempts of `MongoInit` inside the command, by proof alone: as a run
   their product with `AllInOne` is too large for the ten attempts the code makes.
4. The test of the all-in-one image (`integration/`), over `Harness`.
