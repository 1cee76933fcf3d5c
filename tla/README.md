# Elastic Fruit Runner in TLA+

Elastic Fruit Runner is a daemon that runs GitHub Actions jobs on one host. It starts
one ephemeral runner per job, each in a Docker container or a Tart virtual machine of
its own, and removes it afterwards. In *standalone* mode the daemon talks to GitHub
itself (one scale set per runner set); in *cloud* mode a control plane does, and the
daemon executes its commands. Everything it records goes into one SQLite file; a
console shows it and edits the config file.

This directory holds a model of that program, the TLC runs that check it on small
instances, and TLAPS proofs for all instances. Paths below are relative to the
repository.

## 1. The system

| Component | State it keeps | Operations | Talks to |
|---|---|---|---|
| Runner tracker, `internal/controller/runnerstate.go` | three maps name → time: preparing, idle, busy; one mutex | `MarkStarting`, `MarkIdle`, `MarkBusy`, `Remove`, `removeAll`, `removeIdleOlderThan` | called by both controllers |
| Scale set controller, `internal/controller/scaler.go`, `controller.go` | tracker, runner context, scale set id, connected flag | three listener handlers, `startRunner`, idle reaper, `Run`, `shutdown` | GitHub, backend, job store |
| Management service, `internal/management/service.go` | list of controllers | retry loop per controller, read-only views | controllers, job and host store |
| Backends, `internal/backend` and `internal/tart` | containers, machines; table of `tart run` processes; cached runner version | `Run`, `Cleanup`, `CleanupAll`, `ReadLogs`, `ReadResource` | docker and tart commands |
| Job store, `internal/management/jobs.go`, `provisional.go` | job, log and sample rows; map of capture goroutines | record started/completed, open/attach/close a provisional record, capture | SQLite, backend diagnostics |
| Host store, `internal/management/host.go` | host sample rows, counter | record, roll up a minute, clean history by age and size | SQLite |
| Cloud agent, `internal/cloudagent` | tracker, known runners, runner sets, job→runner map, sample queue, stream flag | start/clean up runner, clean up set, job assigned/finished, heartbeat, sample upload, reconnect, enroll | control plane, backends, job store |
| Config state, `internal/configstate` | config file, revisions, snapshot | save, refresh, restore, recover at start-up | disk, SQLite |
| Config, `config` | none | parse, default, validate, insert the cloud block | |
| Console auth, `internal/auth` | admin row, sessions, failed attempts | set up, login, find, logout, reset | SQLite |
| Daemon, `cmd/elastic-fruit-runner` | restart flag | start, recover config, stop, re-exec | everything |
| API server, probes, vitals, tracing, build info, dashboard, documentation | caches | read-only views | |

**What is hard about it.** The tracker is a summary of goroutines, GitHub messages and
processes which all move on their own. A runner is alive *before* the call that starts
it returns, so its job events race with the goroutine that records it as idle. Removal
is asynchronous, best effort and only logged. `Run` is retried for ever while
goroutines of the previous `Run` are still working. Containers and machines outlive
the daemon. In cloud mode commands run in goroutines of their own and may be sent
again, while job bookkeeping runs inline. One step of several can fail everywhere: in
a start, in a removal, in saving the config, in enrollment. `PROJECT.json` lists these
hazards line by line, with the properties that cover them.

**What makes each component correct.**

* Controller: never more starts than capacity; no environment without somebody
  responsible for it; no working runner destroyed; no slot lost for good.
* Job store: one record and at most one capture per job; a capture ends when its
  record does; logs move with their record.
* Cloud agent: every command is answered or will be sent again; a runner reported
  cleaned is gone; a runner that is working is neither started twice nor removed by a
  failure of its duplicate.
* Config state: the active revision can be recovered; the snapshot follows the file; a
  masked secret keeps its own value.
* Job history: rows of a job are not orphaned or taken from under a capture; pages of
  a list or a log add up while the table changes.
* Host store: roll-ups do not lose or double minutes; charts show what was recorded;
  clean-up ends.
* Tart: a run ends, launched or failed, also on a full host; a cleanup leaves nothing
  that tart did not refuse to delete.
* Agent stream: the agent reconnects, and says so only when it is true.
* Auth: who is logged in knows the password; the login limit holds.

## 2. What is modelled

| Module | Models |
|---|---|
| `RunnerTracker` | the tracker as a record of name sets; one operator per method |
| `ScaleSetController` | standalone mode for one runner set: handlers, starters, reaper, cleanup goroutines, `Run` with its retry loop, the end of the daemon, GitHub and the runner processes |
| `RunnerCustody` | abstract: what a runner set promises about the environments it makes |
| `CustodyRefinement` | the mapping by which `ScaleSetController` implements it |
| `JobStore` | job records, capture goroutines, the map of captures; the statements and calls that change them |
| `CloudAgent` | the command handlers of cloud mode on top of `RunnerTracker` and `JobStore`, with the environments, GitHub and the daemon around them |
| `AgentStream` | the loops beside the commands: command stream with idle timer and backoff, sample queue, map from job to runner |
| `JobHistory` | the job store as the standalone listener drives it: rows, captures, late and repeated messages, and the clean-up of `host.go` beside them |
| `JobListing` | the job list, read page by page while jobs start, complete, are renamed and deleted |
| `HostHistory` | host samples, minute roll-up, retention, charts |
| `TartHost` | `Run` and `Cleanup` of several Tart machines on one host, and the cached runner version |
| `ConfigCheck` | the two validators of a config document, side by side |
| `ConfigState` | config file, revisions, masked secrets, view; saves, restores and the ticker |
| `Daemon` | start-up, recovery, stop and crash of the daemon, and the enroll command, on top of `ConfigState` |
| `ConsoleAuth` | admin password, sessions, login limit |
| `MCScaleSetController`, `MCCloudAgent`, `MCConsole`, `MCHost` | instances for TLC |
| `MCScaleSetLiveness` | two instances of the controller with their fairness, in one run |
| `ScaleSetControllerProofs`, `CustodyProofs` | theorems about the controller (section 4) |
| `CloudAgentProofs` | theorems about the cloud agent |
| `JobHistoryProofs`, `HostHistoryProofs` | theorems about the job history and the host's samples |
| `HostLoopsProofs` | theorems about `TartHost` and `AgentStream` |
| `ConfigProofs` | theorems about `ConfigState`, `Daemon` and `ConfigCheck` |
| `ConsoleProofs` | theorems about the login |

`MCConsole` and `MCHost` put components that share no state into one run: a variable
`part` says which of them moves, the others rest in one initial state. The states of a
run are therefore the sum of its parts' states, and every property is checked as if
its part ran alone. `Daemon` composes with `ConfigState`, and `CloudAgent` with
`RunnerTracker` and `JobStore`, by sharing state.

### The controller: state

| Variable | Stands for |
|---|---|
| `phase` | where `Run` and `runController` are: `setup`, `listen`, `draining` (the context is cancelled, the listener finishes its message), `stopping` and `exiting` (in `shutdown`), `sleep` (before the retry), `stopped` (orderly exit), `dead` |
| `tracker` | `RunnerTracker`; `aged` are the idle names whose timeout has passed |
| `toStart` | what the loop of `HandleDesiredRunnerCount` has still to start |
| `granted` | auxiliary, read by no guard: names tracked without a break since `MarkStarting` |
| `pc`, `cancelled` | the `startRunner` goroutine of each name, and those whose `runnerCtx` is cancelled |
| `jobCleanups`, `reapCleanups`, `shutdownList` | removals that have been decided on but not done |
| `abandoned` | environments whose removal failed and was only logged |
| `env` | container or machine and the runner process in it |
| `registered`, `queued`, `started`, `completed` | GitHub: runner records, waiting jobs, messages on their way |

### The controller: actions and code

`HandleJobStarted` and `HandleJobCompleted` are one action each: they change the
tracker in one locked call. `HandleDesiredRunnerCount` is split where the code lets go
of the tracker's mutex: it reads the counts, and then each turn of its loop,
`SpawnRunner`, enters one name and starts its goroutine. In between, other goroutines
change the tracker: removals lower the count that was read, and a late `MarkIdle` of a
name that is no longer tracked raises it. The listener handles nothing else until the
loop is done (`ListenerReady`). `startRunner` is split at every call that takes time:
`GenerateJitConfig(Fails)`, `CreateEnvironment` and `LaunchRunner` (the halves of
`backend.Run`), `RunFails`, `CleanUpFailedStart`, `RunnerStarted`. `Cleanup` has three
outcomes, because Tart stops and deletes in two steps that fail separately; docker's
`rm -f` has the first and the third. It is one step with `removeGitHubRunner`, which
fails independently of it: the two touch disjoint state that nothing reads together.
`CleanupAll` is one step that may miss any subset of what it should remove: only
external processes run beside it.

When `runnerCtx` is cancelled Tart's `tart run` processes are killed with it, since
they were started under it (`internal/tart/manager.go:142`): machines halt, idle and
busy ones. `RunnerExits` and `FinishJob`, which may happen at any time, include that.

### The controller: abstractions

* A name is a model value. The program draws a random suffix; the model draws any name
  that nothing refers to any more, so a name is reused as late as possible.
* The number GitHub reports is arbitrary: any value up to `MaxJobs` in any state. So
  are delays of every message. A start is reported before the end of the same job;
  nothing else is assumed of the order.
* When `Run` deletes its scale set, messages of the session are lost or arrive in the
  next one.
* The idle timeout is the action `IdleTimeoutPasses`: it may pass at any moment.
* Not in the module: the job history the handlers write (`JobHistory`), `JobCompleted`
  without a runner name (a job cancelled while queued: `Remove("")` and `Cleanup("")`
  change nothing), a queued job that GitHub withdraws, several runner sets (they share
  no state), the console's read-only views.

### The cloud agent: state

| Variable | Stands for |
|---|---|
| `record` | the result column of each job row; a runner has a placeholder id and the id of its one job |
| `writesTo`, `cancelled` | capture goroutines: the `jobID` of their state, and whether their context is cancelled |
| `handle` | `JobStore.captures`: which goroutine an id leads to, alive or not |
| `known`, `tracker` | `Service.runners` and the tracker, under one mutex in `trackRunner`, `confirmRunnerStarted` and `forgetRunner` |
| `start` | the `handleStartRunner` goroutines of a runner, one per slot |
| `cleaner` | the `handleCleanupRunner` goroutine of each runner and the `handleCleanupRunnerSet` goroutine |
| `listener` | the command loop inside `handleJobAssigned` or `handleJobFinished` |
| `env`, `github`, `news` | the container or machine, the job, and its messages on their way |
| `abandoned`, `retired`, `confirmed` | removals that failed and were logged, or what a restart found; two auxiliary sets for the properties |

### The cloud agent: actions and code

The two command paths with goroutines of their own are split at every call that takes
time or lets go of a mutex. `handleStartRunner`: `TrackRunner`, `CreateEnvironment`,
then `RunFails` or `ConfirmRunnerStarted`, then `CleanUpFailedStart` or
`OpenProvisionalJob` (the upsert) and `CaptureProvisionalJob`. The cleanup handlers:
`ForgetRunners`, for each runner `StopProvisionalCapture` and `CloseProvisionalJob`,
then `RemoveRunners`. Job messages are handled inline, so they form one sequence:
`ReceiveJobAssigned` or `ReceiveJobFinished`, `FindProvisionalJob` (up to
`lookupCapture`), `AttachJobMetadata` or `AttachFails`, and, where the code goes on,
`RecordJobStarted`, or `StopJobCapture` and `RecordJobCompleted`. The split between
`FindProvisionalJob` and `AttachJobMetadata`, and the one between `OpenProvisionalJob`
and `CaptureProvisionalJob`, are the windows the second half of section 3 is about.
`Restart` clears everything the process keeps in memory; records and environments
stay.

### The cloud agent: abstractions

* A command has no life before its goroutine's first step: it may have been sent, lost
  and sent again any number of times, in any order. A job message that is lost stays
  in `news` and is simply never taken; `JobFinished` may be taken without the
  `JobAssigned` before it.
* The database is one connection (`storage.go:38`): a statement or a transaction is a
  step. Where the code reads and then updates with `result = 'running'` in the
  condition, the two are one step.
* The rows of logs and samples go where their goroutine writes to, so `writesTo` is
  all a property needs. Columns beyond the result are left out.
* A name that exists makes `Run` fail, as in docker. A runner that comes up halted
  stands for every failure after the environment was made.
* One runner set and one backend. A backend that cannot be found at a cleanup has the
  same effect as a removal that fails. Reports to the cloud and the map of runner sets
  change nothing of this; the map from jobs to runners is in `AgentStream`.

### Custody

`RunnerCustody` forgets goroutines, messages, maps and timers. An environment is
absent, fresh, working or spent, and is kept by the crew, by an entry in the log, or
by nobody. Its steps: make one while on duty; let it work once, and spend it; destroy
it; let go of it when a removal fails; take it back when an event shows it is still
there; go off duty, which may leave environments that nobody keeps; go on duty, which
destroys or logs every one of them and adopts none. `CustodyRefinement` maps `env` to
use, and to *crew* whoever has the name: a starter, the idle or busy map, or a pending
removal. `abandoned` maps to the log.

### Job history

Rows of the job, log and sample tables (`row`, `logs`), the capture goroutines
(`writer`) and the map that leads to them (`captures`), the completion that waits for
its capture (`completing`), the clean-up (`cleaner`, one statement at a time) and a
console that follows a log (`follower`). Messages of GitHub come at any time, twice,
or in the wrong order: `JobStarted` sets a completed job running again. `StopTimesOut`
is the six-second wait of `stopCapture`. `stray` marks a goroutine the store has lost
or given up on, and `lost` that an error of a deletion was dropped or a job restarted
between the deletion of its logs and of its row: the exceptions of the properties are
spelled with these two. A row of any table is one byte; the file shrinks only by
compaction. The expiry, three statements in the code, is one step (`Expire`) in which
any of them may fail; nothing is said of what comes between them.

`JobListing` has the list as the server makes it for each page: a filter, a page size
with its default and its maximum, and an offset for a cursor. A record's place is the
number of records that are not older. A new row goes to the start time its message
names; a job that starts again keeps its time, as the upsert leaves `started_at` alone,
and so does a provisional row that is given the id of its job.

### Host samples

A slot is five seconds of the clock. `RecordHostVitals` stores a row, and after every
`PerMinute`-th stored row sums up the minute before the clock's and deletes what has
expired; either statement may fail and is not repeated. `MissSample` is a late sample
or a failed insert, `RestartCollection` sets the count back. `since` is the first slot
after the last of these. A sample that is late but still falls in its minute is taken
as missed too, so what is said of a minute is said of samples that were on time:
jitter of the ticker is outside the claim.

### Tart

One record per machine says where its `Run` is. `left`, `backoff` and `pause` are the
counters of the two wait loops, in ticks; the capacity loop truncates its last pause
at the deadline and the ssh loop does not, as in the code. `process` is the `tart run`
process, which ends with a message when the host is full; `vm` is what tart knows of
the machine. Any call may fail, and the context may be cancelled at any step.

### Agent stream

The command stream is closed, open, or open and heard; `carries` says whether the
cloud is still at its other end. The idle timer fires on any stream that has gone
mute, from the moment it is opened. `delay` is the next pause of the reconnect loop
without its jitter. The handlers of `JobAssigned` and `JobFinished` enter and delete a
job's runner while the capture of that job queues samples.

### Config documents

`ConfigCheck` models a document field by field, each with the values that some rule
tells apart, and both validators as operators: `AcceptedYAML` is what a save requires,
`Valid` what the daemon requires at start. `Load` stands before both and decodes the
file once more with viper, which does not know the types of the fields: `Decodes` says
for which documents that goes well. The one word that stands for those it does not is
`allow_credentials: yes`, a boolean for yaml.v3 and a string for viper
(`load.go:53`); the other modules know only documents that decode. The state is a
document in an editor, which is changed one field at a time, up to two fields away from
each of three documents: a blank one, one with a cloud block, one with an org.

`ConfigState` keeps of a document its orgs with their tokens, the cloud block, the
database it names, and whether it parses. A save is split where another process, the
ticker or a crash can come in between: merge with the file, rename, record, read,
publish. The ticker reads and publishes in two steps too. `Drafts` are what an admin
makes of the masked document the console shows: type a token again, insert an org
anywhere, delete any, let two change places. The history `ordered` remembers whether
all documents typed so far, in the editor or into the file, list the orgs in one order
(`InOrder`). A file counts as usable or not; one that `Load` accepts and only
`Config.Validate` refuses (a bad `LOG_LEVEL`) still names its own database
(`daemon.go:63`), where `StartDb` takes the default one: such an environment is in
`ConfigCheck` only. `Daemon` adds `StartDaemon` (file, else the active revision of the
database the file names, else config mode), `StopDaemon`, which includes a crash at
any point, and the enroll command in its five steps, each of which may be the last.

### Console login

A request of Setup or Login is split where the code lets go: after the limit, after
the hash was read, after bcrypt, before the session row. Tokens and hashes are
identities. `overtaken` marks a request, or the session made by it, whose password was
replaced or reset after the request had read or written it; `lateGuesses` counts the
passwords compared while a block was on.

## 3. The runs

| Run | Instance | Question | Result |
|---|---|---|---|
| `set_safety` | 2 names, 2 slots, 2 jobs, symmetry; 277 270 states | type invariant, `NoForgottenEnvironment`, `TrackerConsistent`, `BusyRunnerUndisturbed`, `RefinesCustody` | hold |
| `set_liveness` | fair; 1 name and 1 job, or 2 names for 1 slot and 2 jobs, once listening always listening; 22 589 states | `GrantsWithinLimit`, `PreparationEnds`, `GhostsGiveCapacityBack`, `WaitingJobIsServed` | hold |
| `set_idle` | 2 names, 1 slot, 1 job | `IdleMeansNoKnownJob` | violated |
| `set_capacity` | same | `TrackedWithinMaxRunners` | violated |
| `set_shutdown` | same | `ShutdownLeavesNothing` | violated |
| `agent_safety` | 1 runner, 2 starts at a time, 2 captures, one cleanup at a time, restarts and database errors, symmetry; 1 428 754 states | `TypeOK`, `NoForgottenEnvironment`, `TrackerFollowsKnown`, `CompletedJobHasNoCapture`, `ConfirmedRunnerKept` | hold |
| `agent_resend` | same, with restarts only | `ResendStartsNothing` | violated |
| `agent_move` | same, without faults | `CaptureMovesWithTheRecord` | violated |
| `console_safety` | the parts check, daemon, auth and list; 259 934 states | `DecodableConfigStarts`, `RecoveryFindsLastStarted`, `OrderedTokensStay`, `CloudConfigHasCredential`, `ViewCatchesUp`, `BlockHolds`, `SessionsKnowThePassword`, `PagesAddUp` | hold |
| `config_recovery` | the same, with a list that rests | `BrokenFileIsRecovered` | violated |
| `config_tokens` | same | `TokensStayWithTheirOrg` | violated |
| `host_safety` | the parts samples, history, tart and stream; 173 590 states | `MinutesAreComplete`, `NoMinuteSkipped`, `ChartIsFaithful`, `WritersHaveARunningJob`, `NoOrphanLogs`, `FollowerMissesNothing`, `CleanedMachinesAreGone`, `ConnectionIsReported`, `SamplesNameTheirRunner`, `CleaningEnds`, `RunEnds`, `AgentReconnects` | hold |

**The properties of the controller that hold.** `NoForgottenEnvironment`: while the
daemon runs and has done its first `CleanupAll`, every container or machine is in the
idle or busy map, or a goroutine is about to enter or remove it, or its failed removal
was logged. `TrackerConsistent`: a preparing entry has a live starter, so it cannot
hold a slot for ever; idle entries are in no other map. `GrantsWithinLimit`: the names
that scaling up has granted and that have been tracked ever since, with those it has
still to start, never exceed `max_runners`; names that come back after they were taken
out are what `TrackedWithinMaxRunners` is about. `BusyRunnerUndisturbed`: while the
controller listens, the environment of a runner known to be busy, whose starter has
ended and which the reaper had not yet taken, is neither removed nor handed to the
reaper. `PreparationEnds`, `GhostsGiveCapacityBack` and `WaitingJobIsServed` say that
slots come free and jobs get served. `RefinesCustody` is the whole of `RunnerCustody`
at once: in particular no environment takes a second job, is made while the daemon has
not swept the host, or passes from one process of the daemon into the service of the
next.

**The properties of the cloud agent that hold.** `NoForgottenEnvironment`: every
environment is known, or a goroutine that will look at it again is on its way, or its
failed removal was logged, or it was there at a restart (then GitHub's and the cloud's
cleanup by name has to find it). What makes it true is `confirmRunnerStarted` and that
a cleanup forgets before it removes: a cleanup may overtake the start it belongs to.
`TrackerFollowsKnown`: `handleStartRunner` reads the phase of a known runner in a
second critical section and takes it to be there; a preparing phase without a
goroutine would let every resent command wait for ever. `CompletedJobHasNoCapture`:
when a job's record is completed, no goroutine that writes to it is left running,
whether it began under the placeholder id, was moved, or was started by `JobAssigned`.
`ConfirmedRunnerKept`: between confirmation and the next cleanup command or restart
the agent neither forgets nor removes a runner, whatever is sent again. It has one
exception, which TLC found: an earlier attempt that failed has forgotten the name but
not yet called `Cleanup`; a resent `StartRunner` starts the runner successfully in
between, and is then cleaned up. A runner some cleanup command was sent for is not
claimed either: its resent start may be confirmed on the entry of another attempt,
which then fails.

**The properties of the config that hold.** `DecodableConfigStarts`: a document a save
accepts, and viper decodes, starts the daemon, whatever two fields of it were changed;
the two validators differ in both directions otherwise, and a level in the environment
that the program does not know is the one exception. It does not say that what a save
accepts is decoded: see the end of section 5. `RecoveryFindsLastStarted`: the revision
marked active is the document that last started, until as many saves as revisions are
kept have pushed it out; then recovery finds nothing. `OrderedTokensStay`: saves side
by side, restores, edits of the file between showing and saving, and enrollments give
no org the token of another, as long as everything that is typed lists the orgs in one
order and adds and drops them at the end; `TokensStayWithTheirOrg` below is the same
without that condition, and false.
`CloudConfigHasCredential`: whatever step enroll stops at, a config it switched to
cloud mode has a credential; a second enrollment that stops while it writes cuts the
first one's short. `ViewCatchesUp`: a refresh that publishes an older document than
another is put right by the ticker.

**The properties of the login that hold.** `BlockHolds`: a block stops all but the
requests that had already passed the limit. `SessionsKnowThePassword`: apart from the
sessions of requests that were overtaken, every session was made with the present
password. `console.md:79` says that a reset removes every active session: it does, and
a login that had compared its password just before makes a new one just after.

**The properties of the history that hold.** `WritersHaveARunningJob`, `NoOrphanLogs`:
see *Job history* above for what they except. `FollowerMissesNothing`: polling a log
by its last sequence skips no row. `PagesAddUp`: of the jobs that stay in the list, the
pages leave out no more than have left it since the first page, and repeat no more than
have entered it; between two changes they are exact. `CleaningEnds`: the
size-bounded clean-up ends, though jobs start and write all the while and running jobs
hold bytes it cannot free. `MinutesAreComplete`: a minute row sums up all raw rows its
minute ever had. `NoMinuteSkipped`: without failures no full minute lacks its row.
`ChartIsFaithful`: a chart of the last day shows every sample; an older one shows
nothing that was not recorded in its range, and no two of its rows share a sample.

**The properties of Tart and of the stream that hold.** `CleanedMachinesAreGone`: what
a cleanup leaves, tart has refused to delete. `RunEnds`: no order of full hosts, dead
machines and failing probes keeps a run going for ever. `ConnectionIsReported`,
`AgentReconnects`: the flag is up only on a stream that has spoken, the backoff
doubles per silent attempt, and a mute stream does not keep the agent from coming
back. `SamplesNameTheirRunner`: a sample that goes out without a runner belongs to a
job whose `JobAssigned` never came, or comes from a capture that `stopCapture` gave up
on after six seconds (`jobs.go:242`): `handleJobFinished` then forgets the runner while
that goroutine may still have a sample to queue.

**The properties that do not hold** state what the documentation and the comments say.

* `IdleMeansNoKnownJob` (`runnerstate.go:11`): the runner takes a job while
  `backend.Run` is still returning, `HandleJobStarted` marks it busy, then the
  starter's `MarkIdle` moves it *from busy back to idle*. It works on as an idle
  runner, and after `idle_timeout` the reaper removes it under its job. This is also
  why `BusyRunnerUndisturbed` speaks of runners whose starter has ended.
* `TrackedWithinMaxRunners` (`runner-lifecycle.md:16`): `MarkBusy` enters any name. A
  runner whose start was reported as failed after it had been launched, or one that
  took a job in the moment the reaper evicted it, is entered again when its
  `JobStarted` arrives, beside its replacement.
* `ShutdownLeavesNothing` (`scaler.go:154`): nothing waits for the starters, which are
  to "clean up themselves"; the process exits first. The next start's `CleanupAll`
  finds what is left, which `NoForgottenEnvironment` shows.
* `ResendStartsNothing` (`commands.go:121`): a restarted daemon knows no runners, so a
  resent `StartRunner` of a runner that is up is carried out. `Run` fails on the name,
  and the failure path removes the live environment by that name.
* `CaptureMovesWithTheRecord` (`jobs.go:67`): `AttachJobMetadata` protects the capture
  it finds in the map. Between the upsert of the provisional record and
  `startCapture`, and after `CloseProvisionalJob` has taken the capture out, there is
  none to find; the record moves, and the capture writes under the placeholder id (in
  the first case without end, since nothing leads to it by the job's id).

* `BrokenFileIsRecovered` (`recover-config.md:8`): `Load` hands out no config for a
  file it cannot use, so the database is the default one. If the broken file named
  another path, the revisions are there, and the daemon falls into config mode
  (`daemon.go:66`).
* `TokensStayWithTheirOrg` (`edit-config.md:44`): a masked token is filled from the
  entry at the same index of the file's list (`storage.go:261`). An admin who deletes
  the first of two orgs in the editor, and leaves the masks alone as the page says,
  saves the second org with the first one's token.

**Bounds of the controller.** Names are interchangeable and the code compares them
only for equality; every action touches one runner, except scaling up, which counts,
and the removals of whole sets. Two names with two slots have every pair of runners in
every pair of phases, and one slot with two names has a runner beside its replacement.
Whether scaling up keeps to the limit only shows with more names than slots:
`set_liveness` has two for one, with counts up to one job more than slots. Two jobs give
a queue behind a running job, and counts below, at and above the limit. With restarts
three names exceed five million states without a new kind of interleaving; the
theorems cover them. With two names, liveness with restarts is too slow for TLC. So
`set_liveness` has two instances beside each other, told apart by a variable `steady`
that never changes: one with restarts, one name and one job, and one with two names and
two jobs that leaves out the restarts, which the premise of `WaitingJobIsServed`
excludes anyway. Each behaviour is one of a single instance, under the fairness of that
instance. Deadlock is checked in every run of the controller: the daemon can always be
started again.

**Bounds of the cloud agent.** Runners meet only in the command loop, which handles
one message at a time, and in the cleanup of the set, which treats them one after the
other; all the races are between the goroutines of one runner. Two starts give an
attempt beside a resent one, and, as a goroutine that has ended frees its slot, any
number of attempts one after the other. Two captures are the one under the placeholder
and the one under the job's id; a step that would need a third waits. One cleanup at a
time may follow another. `agent_safety` has restarts and database errors; with the
fault `timeout` as well (`stopCapture` gives up after six seconds before the goroutine
has ended) the properties hold too, in 2.65 million states, which takes TLC longer
than is convenient for a run that is repeated. No fairness is assumed in these runs.

**Bounds of the console's runs.** *Check*: a rule of either validator reads at most
two fields, and most read one, so two edits reach every rule and every pair of broken
rules. *Daemon*: two documents that name different databases and one that does not
parse; two savers, of which one is enroll; two revisions kept, so that the active one
can be pushed out; two writes of others and two starts, so that a revision is older
than the last start. *Auth*: two requests, two passwords, a limit of two failures, and
a clock that goes one step beyond a window, a block and a session, each one tick long.
*List*: four jobs and five start times, a list of at most three rows, pages of one or
two, and two changes in between; at first there are more rows than the largest page
shows, and one order of the ids stands for all.

**Bounds of the host's runs.** *Samples*: two per minute, raw rows kept for two
minutes, minutes for three and a half, and a clock that runs for five minutes, so both
cutoffs have passed, one inside a minute. *History*: two jobs and two captures, so
that a job may have one after the other and both may write at once; two logs per job
and a page of one, which therefore cuts; a budget of one job's bytes, so that the
clean-up has to delete.
*Tart*: two machines for one place, waits of a few ticks, with the backoff at its cap
before the deadline. *Stream*: two jobs, a queue of two, three delays.
`CHECK_DEADLOCK FALSE` in both configs: the parts stop at these bounds, and a machine
that has been cleaned up is not used again.

**Fairness of the controller.** `ProgramFairness` is weak: Go runs what can run, the
listener polls (each poll brings the current count), the reaper's ticker fires, every
call returns, with an error or without, clocks advance. `WorldFairness`: jobs end,
GitHub drops dead records, and, strongly, calls do not fail *every* time and a waiting
job is given to a waiting runner before timeouts have taken an endless series of them:
GitHub does so within seconds, the idle timeout is minutes. No fairness is assumed of
failures, restarts, cancellation or new jobs. The premise `StaysListening` of two
properties excludes a daemon that is restarted for ever, and `[]<>(Fresh # {})` a pool
of names that runs dry, which random suffixes do not.

**Fairness of the other modules.** `WatcherFairness`: the ticker of the config watcher
fires and its refresh ends; nothing is assumed of the admin. `HistoryFairness`: the
steps of the clean-up are weakly fair, and the deletion of one row is strongly fair,
as a statement on a local file does not fail for ever while other jobs come and go.
`TartFairness`: time passes and every call of `Run` returns, one way or the other;
neither the machine, nor ssh, nor a free place is promised. The stream: the agent
tries to connect, the timer fires, and a message that has arrived is received. That
the cloud answers for good from some time on is the premise of `AgentReconnects`.

## 4. The proofs

The theorems hold for all values of the constants that satisfy the assumption of the
module, which TLC evaluates in the runs.

| Assumption | Says | Because |
|---|---|---|
| `ConstantsAssumption` | names, limit and bounds are a finite set and numbers | `max_runners` is an `int` the config checks |
| `CloudAgentAssumption`, `NoneAssumption` | the id of the set's cleanup and `None` are no runners; faults are among those modelled | ids of the model, not of the program |
| `AuthAssumption` | finitely many requests; limit, window and lifetimes are numbers | constants of `auth/service.go` |
| `HostAssumption` | raw rows are kept for two minutes at least, minutes for longer | a day and 30 days (`host.go:15`) |
| `HistoryAssumption` | finitely many jobs, at least one; `Nothing` is no job; a page has a row; the target is below the maximum | `host.go:16`; a console follows some job |
| `ConfigAssumption` | in what admins write into the file each org has a token of its own or the mask, in any order; no saver is called `hand` | a token that is wrong when it is typed is not the program's doing |
| `ListingAssumption` | finitely many jobs; limit and page sizes are numbers, the default size is one that is allowed | `jobs.go:306`, `queries.sql.go:629` |
| `TartAssumption` | every deadline and backoff is at least a tick | constants of `tart.go`, `manager.go` |
| `StreamAssumption` | the queue has room for one; the first delay is not above the longest; no job is called `Unnamed` | `samples.go:12`, `commands.go:22`; job ids are not empty |

| Module | Theorem | Property |
|---|---|---|
| `ScaleSetControllerProofs` | `TypeCorrect` | `TypeOK` |
| | `NothingForgotten` | `NoForgottenEnvironment` |
| | `TrackerIsConsistent` | `TrackerConsistent` |
| | `GrantsAreBounded` | `GrantsWithinLimit` |
| | `BusyRunnersAreUndisturbed` | `BusyRunnerUndisturbed` |
| `CustodyProofs` | `ControllerKeepsCustody` | `RefinesCustody` |
| `ConsoleProofs` | `BlocksHold` | `BlockHolds` |
| | `SessionsAreCurrent` | `SessionsKnowThePassword` |
| | `PagesAreExact` | `PagesAddUp` |
| `CloudAgentProofs` | `AgentTypes` | `TypeOK` |
| | `NoEnvironmentForgotten` | `NoForgottenEnvironment` |
| | `BooksAgree` | `TrackerFollowsKnown` |
| | `ConfirmedIsKept` | `ConfirmedRunnerKept` |
| | `CompletionEndsCapture` | `CompletedJobHasNoCapture` |
| `ConfigProofs` | `DaemonTypes` | (types; at most one active revision) |
| | `RecoveryIsExact` | `RecoveryFindsLastStarted` |
| | `OrderedTokensAreKept` | `OrderedTokensStay` |
| | `CloudFindsCredential` | `CloudConfigHasCredential` |
| | `DecodableConfigsStart` | `DecodableConfigStarts` |
| `JobHistoryProofs` | `CapturesWriteForRunningJobs` | `WritersHaveARunningJob` |
| | `LogsHaveTheirJob` | `NoOrphanLogs` |
| | `LogsAreFollowed` | `FollowerMissesNothing` |
| `HostHistoryProofs` | `MinutesStayComplete` | `MinutesAreComplete` |
| | `ChartsAreFaithful` | `ChartIsFaithful` |
| | `NoMinuteIsSkipped` | `NoMinuteSkipped` |
| `HostLoopsProofs` | `CleanedAreGone` | `CleanedMachinesAreGone` |
| | `ReportIsTrue` | `ConnectionIsReported` |
| | `SamplesAreAttributed` | `SamplesNameTheirRunner` |

* `TypeCorrect` is inductive by itself once `Employed` is known to be finite
  (`EmployedIsCountable`), which the bound of `QueueJob` needs, and the number that is
  to be started is known to fit `max_runners` (`NeededFitsLimit`).
* `NoForgottenEnvironment` is not inductive. A starter that loses its entry when
  GitHub refuses a config leaves nobody responsible: it must not have made an
  environment yet (`JitHasNoEnvironment`). When `Run` returns, `shutdownList` must be
  empty outside `shutdown` (`ShutdownListInUse`). `CleanupEffect` says what a removal
  can change.
* `GrantsWithinLimit` is inductive with `TypeOK` and `TrackerConsistent`. When the
  handler reads the counts, `granted` is part of what is tracked, so its size is at
  most the sum that is read (`GrantsAreCounted`; the sum counts a name in two maps
  twice), and what is to be started is at most what is missing from `max_runners`
  (`NeededFitsLimit`). Each turn of the loop moves one unit from `toStart` to
  `granted`; every other step only takes names out (`GrantsShrink`). The auxiliary set
  is needed: the bound is false of the tracker itself.
* `BusyRunnerUndisturbed` needs the history of a name: a removal that is decided on,
  or whose report is on its way, concerns a job that has ended. `LaunchEndsRun` (no
  process before the step that ends `backend.Run`) and `NotYetDone` (no completion,
  and no cleanup after one, while a runner is still going to work) are the inductive
  facts; with `TrackerConsistent` a busy runner is not idle, so the reaper cannot pick
  it.

* `RefinesCustody`: two states differ for custody in the use and the keeper of each
  environment only, so the proof first says what a step may do to one environment
  (`OneMoves`), to several (`ManyGo`, `ManyAreLogged`) and to none (`NobodyMoves`) to
  be a step of `RunnerCustody`, and then goes through the actions. It rests on the
  invariants above, mostly `NoForgottenEnvironment` (what is found again had been
  logged) and `ShutdownListInUse`, and on `NothingInMemory`: a daemon that is down has
  no goroutine left that could remove anything.
* `BlockHolds`: while a block is on, the passwords compared since it began and the
  requests that are past the limit together stay below the number of requests
  (`BlockInv`). A comparison moves one from the second to the first; nobody else gets
  past the limit.
* `SessionsKnowThePassword`: a request that was not overtaken holds the present
  password (`RequestsAreCurrent`). That a first Setup overtakes nobody needs that all
  others have been overtaken by then: without a row no stored password is current.
* `MinutesAreComplete`: a row is written for a minute that is over (`MinutesAreOver`),
  so no sample of it follows, and all samples younger than the retention are still
  there (`YoungRawKept`). The minute before the clock's began less than two minutes
  ago (`LastMinute`), and `HostAssumption` says that raw rows are kept that long: with
  a shorter retention the property is false.

* `ChartIsFaithful` follows from the same invariant: where raw rows are kept none is
  missing, and minute rows name only what was recorded. `NoMinuteSkipped` needs to know
  where the count stands in its twelve: a full minute that has no row yet is summed up
  before it is over for another minute (`RowsInTime`, with `NextRollup` the slot of the
  sample that is due), because no sample has been missed since the last gap
  (`RecordedSince`) and the twelve of the count are as long as a minute.
* The cloud agent's `NoForgottenEnvironment` and `TrackerFollowsKnown` are inductive
  with the types: each critical section hands on what it takes out.
* `ConfirmedRunnerKept` needs what came before a confirmation. Until a cleanup command
  is sent for a runner no cleanup goroutine works on it (`CleanersWereSent`), one
  attempt at a time is at its backend (`OneAttemptIsCurrent`, which is what
  `trackRunner` is for), and once confirmed no attempt is left that could fail and
  forget it (`ConfirmedIsSettled`).
* `CompletedJobHasNoCapture` rests on there being one capture per job id: `stopCapture`
  stops the one the map names. That it is the only one (`JobCaptureIsHeld`) needs that
  a job has no record before its assignment is handled (`NewJobHasNoRecord`), so that
  the move and the start of a capture never meet one that is there, and this that
  a message received is not sent again (`NewsIsOfAJob`): with two assignments of one
  job the property would be false.
* `RecoveryFindsLastStarted`: `ActiveRevisions` says at which place the active revision
  is: as far from the end as documents were saved since. A save moves it by one, the
  trimming drops it when it is the oldest, a start marks the last.
* `OrderedTokensStay`: while nobody has typed a document out of order, each document
  that the file, the view, the ticker, a save, a revision or an enrollment holds lists
  the orgs in the order of `Owners` with tokens of their own (`HoldsOnly(Proper)`), so the
  merge by position gives each the token of its own (`MergeKeepsKind`). Types and this
  invariant are proved by one lemma, `KindIsKept`, since what the code does to a
  document leaves either kind; only what an admin types has to be shown proper
  (`DraftsAreDocuments`, `OrderedIsProper`).
* `CloudConfigHasCredential`: token, credential and config come in this order in each
  enrollment, and a credential that is cut short again cost a second token
  (`EnrollmentIsInOrder`).
* `DecodableConfigStarts` goes through the two validators rule by rule. It is proved for
  every document the editor can reach, by any number of edits, where the run stops
  after two. That viper decodes the document is its premise, not its result.
* The job history's properties are one invariant, `HistoryInv`. `WritersAreKnown` says
  who a goroutine that is not lost is: the one in the map, or the one a completion waits
  for. Either way its job runs, and the clean-up deletes only what does not run
  (`CleanerLeavesNone`), so what it writes has its job. For `FollowerMissesNothing`: a
  page is cut at a row (`PageHasNoGap`), and no row gets a number below one that was
  read (`FollowerIsBehind`), as the key is `AUTOINCREMENT`.
* `CleanedMachinesAreGone` is inductive with the types. `ConnectionIsReported` is with
  the bound of the delay, as the doubling stops at the cap (`PauseDoubles`,
  `PauseIsBounded`); it counts up to four attempts, the constant of the model.
  `SamplesNameTheirRunner` needs `RunnersAreRemembered`: from the assignment to the end
  of its capture a job is in the map, since `JobFinished` stops the capture before it
  deletes the entry.

* `PagesAddUp` is about a quantity that is only loosely tied to the state, so the
  invariant `PagesInv` says it of what is still to come as well: what was repeated and
  what was shown and now lies behind the cursor again are together no more than what has
  entered. A page moves records from the second to the first (`PagesFollow`). A change
  moves no more records across the cursor, in either direction, than it takes away or
  adds on the other side (`FewMoveUp`, used both ways), since rows keep their times
  (`RowsKeepTheirTime`) and the first so many of a list are that many or all of it
  (`FirstAreFull`).

Only model-checked: the temporal properties, as liveness under fairness is out of the
prover's reach. The violated properties are of course not proved.

## 5. What is left

**To model**: several runner sets beside each other in cloud mode (the map of runner
sets and `reconcileRunnerSets`).

**Not modelled**, and why:

* *API server*: read-only views, formatting, and the checklist of the first visit. Its
  calls that change state are in `ConfigState`, `Daemon` and `ConsoleAuth`. The 300
  milliseconds between the answer to a restart request and the restart are not in
  `Daemon`: nothing depends on them.
* *Heartbeat and reports to the cloud*: they read state and change none; a report that
  is lost is not repeated, and the cloud, which is another program, has to cope.
* *Probes, host vitals, tracing, build info, GitHub client, binary lookup*: input and
  output without state of their own, or a cache of one value.
* *Migrations and the opening of the database*: one pass of SQL at start-up under one
  connection.
* *Generated protocol code and the dashboard*: generated, and another language.
* *`CleanupAll` by name prefix*: with two runner sets of which one name is a prefix of
  the other, one cleans up the other's environments; it takes string matching, and the
  model has one set.

**Differences between code and documentation without a run.** `configuration.md:196`
says that startup and Console save use the same strict validator; before it, startup
decodes the file with viper, so `allow_credentials: yes` (or a date without quotes in a
field of text) is saved and then refused by `Load` (`load.go:53`). A file that is
missing when a document is saved leaves the mask as the token. A second enrollment cuts
the credential file short before it writes it. A log level of the environment that the
program does not know makes the daemon refuse a config that was accepted.
`console.md:79` (section 3).
