# A verification development of the game server wrapper

The wrapper (`src/`, Go) is the process that Amazon GameLift starts on a host. It announces
itself to GameLift, waits for a game session, starts the game server for it, reports health,
and on a terminate event, a signal or the end of the game saves and stops the game and tells
GameLift that the process ends. This directory holds TLA+ modules of the parts of that program
that decide anything, the TLC configurations that check them, and proofs of the safety
properties that the configurations check. `PROJECT.json` maps every definition to the lines it stands for.

## 1. Inventory

| Component | State it keeps | Operations | Talks to |
|---|---|---|---|
| runner, `pkg/runner` | none but its error | `Run` | manager |
| manager, `pkg/manager/manager.go` | metadata of the game and of the host | `Init`, `Run`, `Close`, `onHostingStart`, `onHostingTerminate`, `onHealthCheck` | runner, harness, hosting provider, tag services |
| harness, `pkg/manager/harness.go` | `hostingStartEvent`, `quickSaveAttempted`, two unbuffered channels | `Init`, `Run` (three goroutines), `HostingStart`, `HostingTerminate`, `Close`, `HealthCheck` | game launcher, quicksave targets |
| hosting provider, `pkg/hosting/gamelift` | the unbuffered error channel `ec`, the SDK's callbacks | `Init`, `Run`, `Close`, three callbacks | GameLift SDK, sender, manager |
| event sender, `pkg/orchestration` | `gameSession` | one handler per callback, `emitEvent` with one retry | token handler, orchestration service |
| token handler, `interserverauth` | the token and its mutex | check, acquire, use, delete | authentication service |
| docker launcher, `internal/dockergame` | containers, `stopCh`, `runDone`, `stopOnce`, `closeOnce`, status | `Init`, `Run`, `Stop`, `HealthCheck` | docker, credential server |
| process launcher, `internal/multiplexgame`, `pkg/process` | `cancel`, the log writers, `cmd`, status | `Init`, `Run`, `Stop`, `HealthCheck` | the operating system |
| tag services, `pkg/datadog`, `pkg/otelcol` | two YAML files of the host | `UpdateTags` | the agents, other wrappers of the host |
| credential server, `internal/credserver` | listener, requests in flight | `Start`, `Stop`, one HTTP handler | GameLift SDK |
| buffered logger, `pkg/logging/buffered-logger.go` | file, buffer, scanner | `New`, `Write`, `Close` | the log exporter |
| initialisers and AWS clients, `pkg/hosting/gamelift/initialiser`, `client` | a compute registered with GameLift; a reloaded credentials file | `InitSdk`; `Get` | AWS |
| configuration, `internal/config`; arguments, `internal/multiplexgame/args`; session environment, `internal/sessionenv` | none | adaptation, validation; `Init`, `Normalise`, `Get`; `Build` | the launchers |
| log formatting, observability, services, command line | none that a session depends on | – | – |

Who runs concurrently: the goroutine of `main` (runner, manager, both `Close`), the goroutines
that `manager.Run` spawns for `harness.Run` and `hosting.Run`, the start and the terminate
goroutine of the harness, one goroutine per SDK callback, one per `docker run`, and the agents,
containers and processes outside. They meet on unbuffered channels, on `sync.Once`, on two
mutexes and, in places, on plain fields.

What is hard in this program, and what would make each part correct:

* *Ending.* A signal, a terminate event, an exit of the game and an error of GameLift race; the
  first decides whether the shutdown runs. Correct: every one of them ends the process; an exit
  code of 0 means a complete shutdown; GameLift hears `ProcessEnding` after the game was saved and
  stopped.
* *Unbuffered channels with one reader.* `ec` and the two result channels of the harness have one
  reader that reads at most once. Correct: whoever blocks on them holds up nothing that matters.
* *Start against stop.* `Stop` may come before, during or after every step of `Run`. Correct: what
  is started is stopped, what is stopped is not started again, clean-up comes last.
* *Partial failure.* Every docker, HTTP, SDK and file operation may fail alone, and timers give up.
* *A shared token* that expires, is refused and is deleted under other users.
* *Shared files* that several wrappers rewrite in place and may leave half-written.
* *Descendants and requests* that outlive the game: a process that holds the game's output, a request for
  credentials that hangs. Correct: they delay `Run` and nothing else, and get nothing after it.
* *What a session is started with* comes from the operator, from GameLift and from the wrapper, and is
  merged by names that may clash. Correct: the entry that should win does, in both launchers.
* *Optional settings* by which validation, the construction of the AWS client and `InitSdk` each
  decide for themselves, and a compute that outlives the wrapper that registered it.

The properties asked of each component are listed with its module below; the hazards, each at its
line, are in `PROJECT.json`.

## 2. The modules

| Module | Models | Composes |
|---|---|---|
| `DockerGame` | the docker launcher, the clients, the daemon, the callers of `Stop` | – |
| `DockerGame_proofs` | theorems about it | extends `DockerGame` |
| `CredServer` | the credential server | – |
| `BufferedLogger` | the logger of a game's output | – |
| `MultiplexGame` | the process launcher with `pkg/process` | `CredServer` and `BufferedLogger` |
| `MultiplexGame_proofs` | theorems about it, the credential server and the logger | extends `MultiplexGame` |
| `Launch` | executable, credentials, arguments and environment of a session, in both launchers | – |
| `Launch_proofs` | theorems about it | extends `Launch` |
| `Harness` | the harness with the quicksave, over any game launcher | – |
| `Harness_proofs` | theorems about it | extends `Harness` |
| `Notifier` | what the provider relies on of the sender (abstract) | – |
| `Sender` | sender, token handler and request helper; implements `Notifier` | instance of `Notifier` |
| `GameLift` | the hosting provider | built on the actions of `Notifier` |
| `Session` | what the wrapper promises GameLift and the operator of a session (abstract) | – |
| `Wrapper` | runner and manager; implements `Session` | `Harness` and `GameLift`; instances of `Session` and `Harness` |
| `Wrapper_proofs` | theorems about it, with the proofs that it implements `Session` and uses the harness as `Harness` assumes | extends `Wrapper`; instance of `Harness_proofs` |
| `Sender_proofs` | theorems about it, with the proof that it implements `Notifier` | extends `Sender` |
| `SessionTags` | both tag services, by several wrappers of a host | – |
| `SessionTags_proofs` | theorems about it | extends `SessionTags` |
| `Startup` | configuration, construction of services, client providers, initialisers | – |
| `Startup_proofs` | theorems about it | extends `Startup` |

An `MC` module of the same name adds the symmetry of interchangeable callers.

**DockerGame.** `runPc` walks through `Run`: `setup`, the loop of `startAll` (`starting`, `launch`,
`probe`), the wait (`serving`), `stopContainers` (`stop`), `waitContainers` (`join`), the deferred
calls and the return. `started` is the length of the slice of containers; containers are numbered in
configured order. `client[c]` is the goroutine that runs `docker run` for c (spawned, attached,
exited, announced on the channel `exited`, its `done` closed); `box[c]` is what the docker daemon
has. They are separate because the code's hazards come from their difference: `docker stop` before the
container exists, a client killed while its container stays up. `once` is `stopOnce`; its holder
walks `next` down from the snapshot `snap`. The two 15 s waits may time out at any moment; the
history variable `expired` says that one did. Of the credential server there is what `Run` sees: in `drain` it
waits, without a limit, for a request that a container made and that is in flight.

**MultiplexGame.** `Run`, `process.Run`, `Stop` and `HealthCheck` access the same fields without
synchronisation, each access is a step. `cmd` follows the operating system's process, `exit` how it
ended, `heirs` whether a descendant holds its output: `Wait` returns only when none does, and the kill of the
context does not reach it. The module extends `CredServer` (`listening`, `inFlight`) and `BufferedLogger`
and conjoins their actions with its own: the credential server starts before the process and is shut down by
the first deferred call, before the context is cancelled; the output of the game is written by the goroutine of
`Wait`, which `Stop` does not wait for when it closes the log files.

**CredServer.** `Shutdown` closes the listener and `Drained` is the wait for the handlers under way, which the
context ends. The handler's call to GameLift looks at no context. **BufferedLogger.** A line is its place
in the order; `Write` adds a chunk to the file and the buffer and scans once. A scanner that met the end of the
buffer never reads again (`scanEnded`), which is what `bufio.Scanner` does.

**Launch.** A pipeline rather than a race: `GetGame` at the start of the wrapper; `StartSession`, `InitProcess`,
`ProcessArguments`, `StartCredServer`, `ProcessEnvironment` in the process launcher; `StartSession`,
`ContainerEnvironment`, `WriteEnvFile`, `ContainerArguments` in the docker launcher. Paths are sequences of names with
`..` over any set of `Directories`, so that `filepath.Rel` and `Join` are computed; what is at the path of the executable is a
file, a directory, nothing, or something that cannot be looked at (`Found`), and the start of the wrapper refuses only nothing.
`InitProcess` fails for lack of an operand (`noOperand`) or for another reason (`initFailed`: the working directory, the
`chmod`, the access check), at any time; a directory passes it and fails the start of the process. An argument is its name, which may be empty, its position and, as its value,
the entry it comes from; a variable is its name in upper or lower case and, as its value, the source it comes
from. What is right is stated without these computations: by the place a path names, and by the last entry of a name. Data
are chosen where they are first read and forgotten where they are last read, which keeps the
number of states the sum and not the product of the cases. The two loops that merge entries by name, and the walk
along a path, are recursive functions (`ArgMap`, `AssignConfigured`, `Resolve`), and `Ordered` says what the library's sort does: these are
written so that what they compute can be proved for lists of any length.

**Harness.** One action per channel operation and per access to a shared field. The two savers, the
terminate goroutine and `Close`, run the same steps (`CheckSave`, `SetAttempted`, `BeginSave`,
`EndSave`, `CallStop`), so that the test and the set of `quickSaveAttempted` are two steps. A send on, or
a receive from, a closed channel panics where it does in Go; `crashed` stops everything, as a panic
outside `app.Run`'s goroutine ends the process. `NewSpanWithTraceId` may refuse a session id, in which case
the code ends a nil span: this is modelled too. `saves` holds the targets that each saver called,
in order. The harness lives in a process in which other goroutines may panic (`ProviderPanics`), and may be
closed when its context is done or when `Run` returned no error (`MayClose`): `Wrapper` is shown to
respect both.

**GameLift** and **Notifier.** `cbPc[c]` is an SDK callback on its way: tell the sender, activate,
hand over to the manager, or block on `ec` with an error. What the sender does in between is the
abstract `Notifier`: a call ends with or without an error, or panics when a terminate event comes
before any session or the token was deleted by a failing call, or hangs.

**Sender.** The refinement of `Notifier`, with the token (`token`, `fresh`, `issued`), its mutex, the
two attempts of `emitEvent` and the tokens they carried (`used`). `ImplementsNotifier` is checked
with the refinement mapping at the end of the module.

**Wrapper.** Conjoins steps of `Harness` and `GameLift` with the variables of the runner, and shares
`ctxDone` and `crashed` between them. `CallHarness` and `ManagerCallReturns` connect a callback to
the harness's `HostingStart` or `HostingTerminate`; `CloseHarness` and `CloseHosting` are the two
halves of `manager.Close`. When `manager.Run` returns an error, the runner leaves without `Close`, as the code does.

**Session** says the same from outside, without goroutines, channels or an order between components: GameLift
hears of the process, of its session and of the end in this order; a game runs once, for an active session
the orchestration service was told of; the end is announced after save and stop, and exit code 0 comes after
`Destroy`. `ImplementsSession` maps the state of `Wrapper` to it. Its guards tell what a race may still do: `ProcessReady`
may follow `ProcessEnding` if a signal met a readiness poll that was about to be answered, and a session may be
activated and its game begin after `ProcessEnding` if a signal or GameLift's own terminate request met the callback on its way.

**SessionTags.** One step per file operation: check (which creates a missing file), read and modify,
truncate, write, restart of the agent; the agent reads the file some time after its restart. The
operator's settings are one flag, a tag is its name and the session that wrote it, the list of
processors is the number of times the processor is in it, for a pipeline that has a list (`hasList`; without one it
never gets the processor, which `ensureProcessorInPipelines` skips). The tags of a file are a bag, so that one that is
written twice can be told. Two writers that both truncated the file write over each other from its start
(`WrittenOver`), and the tail of a longer text may remain behind a shorter one. Such a file cannot be parsed (`garbled`), or,
when a line of the tail begins where the shorter text ends, it is valid YAML with the tags of two sessions, which agents
and later sessions read. The history variable `overlaid` has the files whose last write was such a one, so that the property can
say that the mixture is not passed on. A session that meets a garbled file gives up, so no wrapper ever repairs it.

**Startup.** A wrapper goes from its settings to an initialised SDK: `adapt`, `construct`, then for an
Anywhere fleet `endpoint` (ListCompute), `register`, `token`, and `init`. A setting is abstracted to what the
code asks of it: an ARN to its form and its region, an optional string to whether it is empty.
`AnywhereValid`, `NeedsClient` and the tests in `InitSdk` are three separate translations of three
separate places. A wrapper may die anywhere and start again, a call may fail with or without its effect;
`registered` stays, because nothing in the wrapper deregisters a compute. The wrappers of a host share a
configuration and so the name of their compute.

## 3. The runs

Bounds are the constants of the `.cfg` (`MaxWrites`, `MaxDefaults`, `MaxCliArgs` and `MaxConfigured` among them); no other bound
cuts the state space of any module, except that each caller calls once, that GameLift starts no second
session in a process, that a write of the game completes at most two lines (`Chunk`), and that `Launch` has two words
for the names of variables and four directories: the wrapper's own, one below it, one beside it and the root.

| Run | Instance | Shows |
|---|---|---|
| `dockergame` | 2 containers, the first with a ready-check, one `Stop`, failing `docker stop` | all properties of the launcher, safety and liveness, and that no goroutine waits for ever |
| `multiplex` | two callers of `Stop`, one request for credentials at a time, two writes | outcome, end of the game and of the credentials, the lag of the log, and liveness |
| `multiplex_latestart` | one caller | **violated**: a `Stop` that comes early is lost |
| `harness` | two start and two terminate callers, two targets | the properties of the savers, and liveness |
| `harness_stopduringsave` | one of each | **violated**: `Close` stops the game under a quicksave |
| `sender` | a start and a terminate event | what callers are told, token, retry and panic properties, refinement of `Notifier` |
| `gamelift_copyfails` | one callback of each kind | **violated**: `Close` blocks when copying logs fails |
| `wrapper` | a start and a terminate callback, readiness poll, failing events and copies | refinement of `Session`, that the harness is used as `Harness` assumes, the known causes of panics, complete shutdown, and that it comes |
| `wrapper_ending` | one start callback | **violated**: a failed game is not reported as ended |
| `sessiontags` | three wrappers, the file of the collector, two tags | the properties of the files and agents |
| `launch` | two names of arguments or none, three positions, two configured and two of the session; two configured variables; every combination of paths | what is started is what was checked, arguments and environment are right |
| `startup` | two wrappers, every combination of the settings of an Anywhere fleet, every launcher of a managed one | the settings agree, a refused registration is explained |

Why these bounds suffice: two containers give a first, a last, a dependency and a late start; two
callers of `Stop` of the process launcher are one that cancels and one that closes the files meanwhile; two writes
are a line and what comes late, or a chunk of two lines and its lag; two arguments on either side can clash with each
other and across; two
callers on each channel of the harness are one that is received and one that blocks; two targets are
a first and a last; two events share the token as holder and victim; two wrappers are one that registers
a compute and one that finds or misses it (`ManyComputes` lets the list end before it); three sessions are two that leave a mixture and
one that reads it, and the file of the collector has what that of the Datadog agent has and the pipeline besides (two wrappers with both
files, the first of them missing at the start, give 851 075 states with one tag and pass as well). In `wrapper` quicksave is off and
there is one callback of each kind, because `harness` covers quicksaves and competing callers and the composition
is about the order between the components (with quicksave on, the run has 359 293 states and passes as well).

Each property has a mutant in its module, marked `Mutant:`, that a plausible slip in the code would
produce and that violates it.

**Deadlock.** `dockergame` checks it: its `Next` has `Terminated` for the end of a session. In the
others the program may stop for good: the process exits or panics, a sender stays blocked on a channel
that nobody reads again, or the last event has been handled. They set
`CHECK_DEADLOCK FALSE`, and what must not block is a liveness property.

**Fairness.** Every goroutine that can run does run, one weak-fairness conjunct per goroutine. A call is assumed
to return where the code limits it: `docker stop -t` with a context, the 5 s of the client that probes a container and
the 3 s of the one that polls for readiness, the 15 s timers. The calls of docker, of the operating system and of the
GameLift SDK are external and taken to return. Every other request may hang, because `services/hosting.go:27`,
`services.go:118` and both launchers pass `http.DefaultClient`, which has no timeout, and `helpers/request.go:26` makes its
requests without the context: the event of the sender, the token it needs, the token a quicksave needs before its
own 30 s of context count, the requests of a Route 53 mapping, a request for credentials. These steps have no fairness, and
the liveness properties except a request that hangs and nothing else: `EmissionEnds` a caller whose own event hangs
or who needs the token mutex while another's token request hangs, `RunEnds`, `TerminateStopsGame`, `CloseReturns` and
`SessionEndEndsProcess` as they state. Nothing obliges a game to end, an endpoint to become ready,
GameLift to call back, or anyone to cancel. The steps of `Sender` that need the mutex have strong fairness:
a Go mutex hands itself to a waiter after 1 ms, so no waiter starves. In `Wrapper` the main
goroutine is one conjunct, `MainGoroutine`.

## 4. What the code does that a document says otherwise

* `dockergame.go:150` says that all containers are stopped before `Run` returns. The one walk of
  `stopContainers` misses a container that `docker run` has not created yet. `OrphansExplained` states, and
  `OrphansAccountedFor` proves, what does hold.
* `multiplexgame.go:296` says `Stop` stops the game. Before `Run` has set `cancel` it does nothing, and the
  game starts afterwards.
* `harness.go:252` says the quicksave completes before the game is stopped. `Close` skips a save that the
  terminate goroutine has under way and stops the game.
* `gamelift.go:260` says `Close` notifies GameLift. If copying logs fails after `hosting.Run` returned,
  `Close` blocks on `ec` for ever.
* `README.md:787` says `ProcessEnding` is called when the game terminates. If the game fails, the runner
  skips `Close`.

Met while modelling and described by passing properties rather than by runs of their own: both savers may
quicksave, if they both pass the unsynchronised test of `quickSaveAttempted` (`DoubleSaveOnlyByRace`);
callbacks that meet the harness while it closes its channels panic, as does a terminate event before any
session (`CrashesAreKnown`, `PanicExplained`); `datadog/config.go:23` says that all fields are preserved, but an update
that overlaps another one may read an empty file and write it back (`SettingsLostOnlyByTearing`), and a write that is laid over another
one may leave a file with the tags of two sessions until the next update (`TagsAreOfOneSession`); `ListCompute` reads
the first page only, so that a restart on a large fleet may register a compute that is there
(`RegistrationJustified`); `README.md:211` documents the provider `sso-file`, but
`AdaptConfigWrapperToConfig` copies no path for it, so `NewProvider` refuses it (`ProviderReady`); `config.go:310` shadows
`absWorkingDir`, so that an unset working directory becomes `.`, and an executable in that directory is accepted at the start
and refused by every session, because the `chmod` of its parent lacks the operand (`CheckedIsStarted`); the start of the wrapper and
`process.Init` accept a directory as executable, one that is not set with a working directory for instance, which no session can start; names of variables that
differ in case clash only after they are upper-cased, and the variables the wrapper itself inherited are upper-cased too
(`LaterEntriesWin`); a log may lag behind its file for good (`LogFollowsFile`); arguments configured twice pass the start
and fail every session of the process launcher, but not of the docker launcher, and an argument with a value and no name reaches
a container as its value alone but a process behind an empty argument (`ArgumentsRight`); a wrapper of an Anywhere fleet
that is given no fleet ARN counts as managed when the session starts (`StartSession`);
`sender.go:227` drops the error of the retry (`OutcomeTold`); the branches
of `readConfig` for a missing file are never taken, because the permission check has just created it.

## 5. What is proved

`DockerGame_proofs` proves the following for every number of containers `N > 0`, every set `ReadyChecked`,
every set of callers of `Stop`, and both values of `StopCanFail`. The assumptions
are those of `ConfigAssumption` in `DockerGame`.

| Theorem | States |
|---|---|
| `TypeCorrect` | `[]TypeOK` |
| `LateStartBounded` | `[]LateStartBound` |
| `ReadyGated` | `[]ReadyGate` |
| `OrphansAccountedFor` | `[]OrphansExplained` |
| `StoppedInReverse` | `[]ReverseOrder` |
| `NoCrashIsSuccess` | `[]CleanReturnJustified` |
| `CleanupComesLast` | `[]CleanupAfterRun` |
| `NothingLeftBehind` | `[]NothingLeft` |

None of them is inductive by itself. The argument for the docker launcher:

1. `TypeInv` is `TypeOK` with `LaunchBound`: inside the loop of `startAll` there is a container left to
   append. Without it the append could leave `0..N`.
2. `StartInv` ties the loop to the stop flag and to the probes: once `stopping` is set, `Run` is past its check for at
   most one container, and every ready-checked container before the last one started has been probed.
   It implies `LateStartBound` and `ReadyGate`.
3. `ClientInv` and `WalkInv` are about the walk of `stopContainers`: containers in `(next, snap]` were
   either brought down, never existed and cannot come up any more, or their `docker stop` failed. They imply
   `ReverseOrder` and `OrphansExplained`.
4. `ExitInv`, `OnceInv` and `OutcomeInv` follow `first`, `startErr` and `stopping` from the exit that ends
   the session to the return. They imply `NoCrashIsSuccess`.
5. `JoinInv` counts the containers that `Run` has joined: all that were started when it reaches its deferred calls. `AwaitInv` is
   about the meeting of `Run` and `Stop`: a `Stop` that did not see `runDone` has refused `Run` for good, because it
   set `stopping` before, and one that did waits for it. So `closeOnce` runs when there never will be a container or
   when all have been joined, and nothing is opened after it.

`Sender_proofs` proves, for every set of start, terminate and update calls, however often the token is renewed:

| Theorem | States |
|---|---|
| `RetriesRenew` | `[]RetryCarriesNewToken` |
| `TakenOnce` | `[]TakenAtMostOnce` |
| `OutcomesTold` | `[]OutcomeTold` |
| `PanicsExplained` | `[]PanicExplained` |
| `SenderImplementsNotifier` | `ImplementsNotifier`, the safety of the refinement |

`AttemptInv` counts a caller's requests by where it is, and says that at the header a caller whose first
request was refused sees no token or a newer one; the tokens are numbered, so this needs that every token used is at most
`issued`. `TakenInv` says that the service took nothing of a caller that still sends, and `OutcomeInv` what each caller was answered
when it is told. `SharedInv` says
that a built terminate event has its session, and that a caller that is about to use a missing token is a victim
of another one. The refinement follows from `SharedInv` action by action: the lemmas `Stutters`, `Succeeds` and
`Fails` are the three ways in which a step of `Sender` is seen by `Notifier`. The liveness `EmissionEnds` stays with the run.

`Startup_proofs` proves, for every set of wrappers, every set of configurations and fleets of any size:

| Theorem | States |
|---|---|
| `TypeCorrect` | `[]TypeOK` |
| `SettingsSound` | `[]SettingsAgree` |
| `RegistrationSound` | `[]RegistrationJustified` |

`DecidedInv` says what a start has established at each point: from `endpoint` on it is an Anywhere start with
a client if it needs one, and from `init` on its endpoint and token are those of its compute.
`AskedInv` relates the calls made over all starts of a wrapper to its settings. `RegistrationInv` says that a
wrapper between its list and its registration either overlooked its compute, or that the compute was absent then and
is so still, unless another wrapper of the same name registered it.

`Harness_proofs` proves, for every number of targets and every set of callers:

| Theorem | States |
|---|---|
| `SavesComplete` | `[]SavesCompleteBeforeOwnStop` |
| `DoubleSavesRaced` | `[]DoubleSaveOnlyByRace` |
| `SavesHaveSession` | `[]SaveNeedsSession` |

`ProgressInv` says which targets a saver has called at each of its steps, and that one that has called `Stop`
is past all of them. `FlagInv` ties `quickSaveAttempted` to the savers: one past the assignment has set it, so that two
savers that both passed the test must have passed it before either assignment, which is what `raced` records.

`Wrapper_proofs` proves, for every set of callbacks and every choice of what may fail:

| Theorem | States |
|---|---|
| `CleanExit` | `[]CleanExitIsComplete` |
| `CrashesKnown` | `[]CrashesAreKnown` |
| `WrapperImplementsSession` | `ImplementsSession`, the refinement of `Session` |
| `WrapperImplementsHarness` | `ImplementsHarness`: the steps of the process are steps that `Harness` allows |
| `ProcessSaves` | the three theorems of `Harness_proofs`, of the harness in the process |

`CallbackInv` and `GameInv` say what GameLift and the sender were told before a callback is where it is and before the
harness has a game. `EndInv` says why a goroutine is on its way out: whoever leads the process to its
end was asked for it or has seen the game end. `CloseInv` counts the steps of `manager.Close`, so that the
end of its last one is the end of all. The refinement takes these four and goes through the steps of the runner, the
harness and the provider in three lemmas (`RunnerImplements`, `HarnessImplements`, `HostingImplements`).
`ImplementsHarness` is what makes a proof about the harness alone a proof about the process:
`ProcessSaves` is composed from it and `Harness_proofs`, no step of the harness is looked at again.

`MultiplexGame_proofs` proves, for every set of callers of `Stop`, any requests for credentials and any output:

| Theorem | States |
|---|---|
| `OutcomesReported` | `[]OutcomeReported` |
| `NothingLeftRunning` | `[]NothingRunsAfterRun` |
| `CredentialsEnded` | `[]CredentialsEnd` |
| `LogLags` | `[]LogFollowsFile` |

`Run` and `Stop` share fields without synchronisation, so the invariants say what each may have done to the other:
`StopInv`, that before the return only a `Stop` cancels the context or closes the log; `GameInv`, what has become of the
process where `Run` is; `OutcomeInv`, `CredInv` and `LineInv` are the error, the credential server and
the lines, each relative to whether a `Stop` interfered.

`SessionTags_proofs` proves, for every number of wrappers that overlap and die:

| Theorem | States |
|---|---|
| `SettingsKept` | `[]SettingsLostOnlyByTearing` |
| `TagsOfOneSession` | `[]TagsAreOfOneSession` |
| `AgentsCurrent` | `[]AgentIsCurrent` |

As long as a file is not torn, `SettingsInv` says, the operator's settings are in it or with the one session that has
truncated it, and whoever will write it has read them. `TagsInv` says that what a session is about to write names
no other session, whatever it read, a mixture too, and that a file which is not `overlaid` is what one session wrote; it needs that the removal of templated tags takes away every tag that is
written, which `UpdatedSound` proves of the operators. `WriteCases` and `WrittenFacts` say what a write leaves. `AgentIsCurrent` is inductive with `ThereInv`, that a file is there from the
first check on.

`Launch_proofs` proves, for arguments and variables of any number, lists of any length and directories of any depth:

| Theorem | States |
|---|---|
| `EnvironmentRight` | `[]LaterEntriesWin` |
| `ArgumentsSound` | `[]ArgumentsRight` |
| `ExecutableRight` | `CheckedIsStarted` |

The state of a launch is simple (`EventKnown`, `SourcesKnown`, `ArgsKnown`: which data are there at which step), the work is in
what the loops compute. The prover cannot apply a rule of induction to a formula; but that a
non-empty set of natural numbers has a least member (`LeastMember`, from the library's well-foundedness of `<`) is a
statement about sets, and `SetInduction`, that a set with 0 and all successors has all natural numbers, follows from
it. With the set of the numbers for which a formula holds it serves as induction for all of these:

1. The recursive functions of the two loops exist for a list of any length (`AssignDefined`, `ArgMapDefined`).
2. After each turn of the loop of `sessionenv.Build` the map has of each name the entry of highest rank (`Holds`, `ConfiguredAdds`);
   `AssignAdds` is one turn, and the fixed sources before the loop are turns of the same kind. `AskedIsBuilt` says
   that what the event and the launcher pass to `Build` is what the operator and the session ask for.
3. After each turn of the loops of `Normalise` the map has of each name the last entry at the last position
   given (`HoldsLast`, `AddArgHoldsLast`), so `ArgMap` computes `LastOf` (`ArgMapLast`).
4. A finite set with a strict order can be sorted (`SortedExists`, by insertion) and in one way only (`SortedOnce`, by the first
   place where two results differ), so `Ordered` has the members of the set once each and in order (`OrderedSorts`). That both
   launchers order arguments without duplicates alike (`LaunchersAgree`) follows from the uniqueness; `RenderArgsIs` says in which names they differ.
5. `ResolveIs` compares the walk along a path, part by part, with any function that takes the same steps. With it, an
   absolute path resolves to itself (`ResolvePlain`), and what `filepath.Rel` gives leads from its base to its target
   (`RelLeads`): up to the longest common beginning and down from there. Hence both ways of the code to the executable,
   relative or joined to the working directory, end at the program that the operator gave (`ExePathRight`). That the common
   beginning is the longest makes the path one part long just for a program of the wrapper's own directory
   (`RelShort`), which is the placing in which no session gets past the `chmod`. `PathAssumption` says that directories are cleaned and
   that the wrapper does not run in a directory under the path of an executable. The invariant (`BuildInv`) is that the paths stay
   those made of the settings.

## 6. What is only model-checked, and what is not modelled

Every invariant and every action property that a passing run checks is also proved; the runs keep them, since they found
what to prove, and since they show that the cases the theorems speak of occur. What rests on the runs alone:

* Liveness under fairness, in every module: it is out of the proof system's reach.
* `GameLift` by itself has only a run that shows a violation. Its steps are part of `Wrapper`, whose runs and theorems cover them.

Not modelled: the client provider that watches a credentials file (no configuration reaches it), the settings that are
copied and not looked at, the environment variables that override the settings of a host (taken to be unset), the build
for Windows. Left out for good: log formatting, exporters, flags, the constructors that pass settings on, Route 53 (a
straight sequence of calls whose error is logged).

Assumed of the environment: a `docker run` client returns once its container is gone; `docker run --rm` removes
what exits; a killed process dies; a panic outside the goroutine of `app.Run` ends the process; one `write` of a configuration file is
seen whole or not at all by readers; what is at the path of the executable does not change between the check and the
start, and is no directory that the wrapper's own one lies under.

## 7. Plan

The plan's modules, runs and proofs of invariants are done. What could be added, in order:

1. Theorems about `GameLift` with any sender that implements
   `Notifier`, composed with `SenderImplementsNotifier` as `ProcessSaves` is with the refinement of the harness.
2. The client provider that watches a credentials file, should a configuration come to reach it.
