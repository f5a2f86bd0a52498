# A TLA+ model of errand

errand runs a command on another machine: a client snapshots a working tree,
submits it as a job to a runner daemon, streams the logs, and brings the changes
the command made back into the tree. This directory models the parts of it whose
correctness depends on the order of steps: what several goroutines, several
processes, several machines, a crash or a lost answer can do between two lines of
code; and the merge, whose cases are too many for tables.

PROJECT.json lists the components, the runs, the mutants that show that each
property can fail, the source lines behind every definition, the hazards the
properties are for, the findings and the theorems.

    tlc -workers 2 -config JobRecovery.cfg JobRunnerMC     # a run
    tlapm JobHostProofs.tla                                # the proofs

Contents

1. The system: components, state, interactions, what is hard
2. The modules and how they correspond to the code
3. The runs: what is checked, bounds, reductions, fairness
4. The proofs
5. Findings
6. What is not modelled, and the plan

## 1. The system

### Components

| component | state it keeps | operations | what makes it correct | module |
|---|---|---|---|---|
| Job life cycle and scheduler (daemon/server.go, job.go) | receipt directory per job; in memory the job table, FIFO queue, running set, `draining` | submit, stage, queue, launch, signal, exit, finalize, roll back, recover, setup quiesce | a command runs at most once; the receipt tells the truth; survivors can be found; cancellation is final; FIFO order; nothing waits for ever | `JobRunner`, `JobContract` |
| Process scope (process_scope*.go, process_group_unix.go) | the marker in the environment, the group, `scope.json` | scan, kill, recover, signal | no process outlives its job unnoticed, no stranger is killed | `JobProcess` |
| Port forwarding (client/forward.go, daemon/forward.go) | listeners, connections, tunnels | accept, relay, close | Close returns and leaves nothing | `PortForward` |
| Job collection, replay guard, unfetched results (job_gc.go, admission_clock.go, results_fetched.go) | markers, tombstones, `admission-clock.json`, `fetched.json` | collect, prune, acknowledge, load | a collected id never runs again; no receipt goes under a reader; the count is exact | `JobGC` |
| Named caches (namedcache/, named_caches.go, cache_trees.go) | entries with record, generations, link and holders | lease, restore, publish, measure, collect, recover | a held tree stays whole; sizes are exact | `NamedCache` |
| Snapshot blob cache (cache.go, cache_pins.go) | bodies, pins, byte counter | look up, insert, pin, evict, collect | a running job's base is readable | `BlobCache` |
| Persistent workspaces (workspaces.go, workspace_leases.go, ...) | record, memberships, gate, uploads | create, acquire, return, upload, remove, recover | no directory is taken from under a command | `Workspaces` |
| Log stream (logio, handleLogs, followOnceContext) | framed log, cursors | append, window, follow, resume | every character once, and the end | `LogStream` |
| Cloud lease broker (cloud/broker.go, withdrawn.go) | one record per lease on disk and in memory; withdrawn requests | acquire, share, admit, withdraw, release, worker loop, prune, restart | no machine is forgotten; money is bounded; a claim is kept | `LeaseBroker` |
| Lambda provider (cloud/lambda*.go) | the saved launch state; instances at the cloud | acquire, install, release | released means gone; one instance per lease | `LambdaProvider` |
| Leasing by a run (cmd/errand/leases.go, client/leases.go) | the request, the lease being followed | ask, repeat, follow, withdraw | leases of one peer only; "nothing was started" is true | `LeaseRun` |
| Client submission and attach (client.go, interrupts.go, placement.go, result.go) | submission record, signal controller | prepare, submit, retry, stream, detach, interrupt | one runner per run; the exit code is true | `ClientRun` |
| Client change state and automatic apply (change_state.go, changes.go, automatic_apply*.go, change_gc.go) | a record per job, three kinds of lock, staged bundles | fetch, apply, recover, collect, inspect | applied once; a transaction always has its record | `ClientChanges` |
| Change collection and three-way merge (changes/changes.go, bundle.go, selection.go, merge.go) | none between calls | difference, merge, materialise | the merge is exact; no edit of the user is lost | `ChangeMerge` |
| Apply journal (changes/apply*.go, journal.go, transfer.go) | transaction directory, the caller's record | plan, stage, install, commit, roll back, recover | all or nothing; nothing the user wrote is lost | `ApplyJournal` |
| Workspace push and transfer sessions (client/push.go, workspace_push.go, changes/transfer*.go, checkpoint.go) | `push.json`, source copy; checkpoint, attempts, store of bodies | diff, upload, apply, advance, recover, collect | installed once over lost answers; the base is right and complete | `WorkspacePush` |
| Push and watch (client/push_watch.go, snapshot/watch*.go) | watches, hints, evidence, generation | watch, reselect, prepare, push, retry | no edit is lost | `PushWatch` |
| Identity and access; configuration, facts and setup; the rest of the command line; experiments | little or none | - | - | - |

### How they interact

A client chooses a ULID as job id and PUTs the submission; on a lost answer it
sends it again, perhaps to the daemon's successor, or, when the runner certainly
did not take it, to the next candidate. The handler admits the job under the
daemon's lock `d.mu`, reads the body without it (through the blob cache), and
hands the job to the drain worker. The worker leases named caches and, for a
persistent workspace, the membership, launches the process and leaves a wait
goroutine behind; whoever settles the job runs the finalizer, which cleans up the
process scope, collects the changes, removes the workspace and the scope record,
writes `result.json`, publishes the state and gives the slot back, and that wakes
the drain worker. Control requests cancel jobs in any of these phases. The client
follows the log over connections that break, and downloads and merges the bundle
of changes; a journal makes the installation recoverable. `errand job gc` and the
client's acknowledgement of downloaded changes remove settled receipts; from then
on a marker and the age limit on ids keep the id from being admitted again.
`errand push` sends a checkout into a persistent workspace with the same journal
on the other side, `--watch` repeats it after every edit. A cloud peer is a daemon
with a broker: a run that needs a machine asks it for a lease, uses the leased
machine as a runner, and the broker asks that machine for its work (jobs and
unfetched results) before its provider destroys it.

### What is hard

* Crash recovery. The receipt directory, a lease record, a workspace record, a
  journal are all the next process has. They are changed by single file
  operations, in an order on which the truth of what is recovered depends.
* Several owners. Submit handler, drain worker, cancelling request and wait
  goroutine can each be the one that settles a job; several client processes
  rewrite one record under different locks.
* Wakeups and waiting. `drainQueue` returns when a worker exists that may be about
  to stop; `Close` of a forwarding session waits for goroutines that may be
  blocked in a read.
* Two clocks. Ages of ids come from the clients' clocks, markers from the
  runner's, Go compares times of one process by monotonic readings.
* Work outside the lock. Bodies are copied, caches measured and copied, idle
  machines probed without the lock, and the result is used under it.
* Looking at a moving target. /proc is read process by process while they fork; a
  checkout is listed while it is edited; a workspace is installed into file by
  file while the user edits it.
* Writes and calls with unknown outcome. A failed record write may have reached
  the disk, a failed launch may have started a machine.
* Late and repeated requests: submissions, lease requests, withdrawals, pushes.

## 2. The modules

| module | models | used by |
|---|---|---|
| `JobContract` | what a runner promises about a job (abstract specification) | `JobRunner` (INSTANCE) |
| `JobRunner` | server.go, job.go: life cycle, scheduler, recovery | `JobRunnerMC` (symmetry), `JobHost` |
| `JobProcess`, `PortForward` | the processes of one job; the tunnels to it | `JobHost` |
| `JobHost` | the three above for TLC | `JobHostProofs` proves about all three |
| `JobGC`, `NamedCache`, `BlobCache`, `Workspaces`, `LogStream` | what a runner keeps beside its scheduler | `RunnerStores`, `RunnerStoresProofs` |
| `LeaseBroker` | cloud/broker.go, withdrawn.go | `LeaseBrokerMC` (symmetry, view), `CloudLease` |
| `LambdaProvider` | cloud/lambda*.go | `CloudLease`, `CloudLeaseProofs` |
| `ApplyJournal` | the installation of one set of changes | `ApplyJournalProofs` |
| `WorkspacePush` | both ends of `errand push` | `WorkspacePushMC`, `WorkspacePushProofs` |
| `PushWatch` | `errand push --watch` on the client | `PushWatchMC` (view), `PushWatchProofs` |
| `ClientChanges` | records, locks, fetch, automatic apply | `ClientChangesMC`, `ClientFetch`, `ClientChangesProofs` |
| `ChangeMerge` | bundle and merge | `ClientFetch` |
| `ClientRun`, `LeaseRun` | the conversations of one `errand run` | `RunAndLease`, `RunAndLeaseProofs` |

`JobHost`, `RunnerStores`, `CloudLease`, `RunAndLease` and `ClientFetch` put
components side by side that share no variable. Their variable `focus` is chosen at
the start and names the component that takes the steps; the others stay at one
initial state. A behaviour of the joint module is a behaviour of the component in
focus, so nothing is lost or added. The properties are the components' own; a
component out of focus is at an initial state, where they hold, or its property, where
it is costly to evaluate, says for which focus it speaks. What the components know of one another is stated where it is assumed:
JobRunner knows a job's processes as alive, orphaned or gone, LeaseBroker knows of
its provider that Acquire and Release succeed or fail, ClientChanges treats the
merge and the journal's recovery as one step, WorkspacePush the installation.

Definitions with a suffix (`AtLimit_IgnoresReleasing`) or with the prefix `Bug` are
not part of the model: each is the definition next to it with a plausible error, and
PROJECT.json "mutants" says which property notices.

### JobRunner

State. `receipt`, `qmark`, `scope`, `wspace`, `result` are a job's files; `proc`
is what the operating system runs for it; the rest is daemon memory, which a
crash erases, and history variables. Goroutines are program counters per job:
`submit` (the PUT handler past admission), `launch` (drain worker, then wait
goroutine), `fin` (finalizer), `rec` (loadExisting). `loops` and `drains` count
the runQueue goroutines at the top of their loop and the pending calls of
drainQueue.

Steps. One critical section of `d.mu`/`j.mu`, or one durable file operation, so a
crash can happen between any two of them. Removing a receipt directory passes
through "torn" (directory without `spec.json`). Failing file operations, process
starts and scope cleanups are choices that `Faults` enables; the upload of a
submission may fail always, since a client decides that.

| code | actions |
|---|---|
| handleSubmit, stage, queueStaged | Admit, StageBegin, StageFail, StageEnd, WriteQueued(Fail), CommitQueued |
| rejectPreExecution, settleStartFailure, abortAdmission | RejectPreExecution, AbortTear, AbortClean(Fail), AbortForget, AbortRetain, AbortRecord |
| drainQueue, runQueue, launch, wait | DrainQueue, RunQueueStop, RunQueueTake, WriteScope, ConsumeQueued, LaunchFail, LaunchKilled, StartProcess, Reap, CleanupScope |
| cancelBeforeStart, terminate | CancelBeforeStart, CancelReturn, Terminate |
| finalizeWithScopeOutcome | FinWorkspace, FinScope, FinResult, FinPublish, FinRelease |
| loadExisting, cleanupPersistedRuntime | Restart, Load, ReconcileQueued(Clean), RecoverKill, RecoverWorkspace, RecoverUnmark, RecoverUnscope, Conclude, Serve |
| setup quiesce, transfers | Quiesce, QuiesceEnd, TransferBegin, TransferEnd |

Abstracted: log bytes, the change bundle, named caches and workspace contents; a
crash keeps the order of file operations (no operation is lost by a power
failure after a later one survived).

`JobContract` has two variables, the set of commands that were started and the
recorded verdicts. `JobRunner!KeepsContract` is its specification under the
mapping `ran <- {j : starts[j] > 0}`, `recorded <- result`.

### JobProcess

The kernel's table of processes (`table`: running, zombie or not there, group,
whether it carries the marker, works in the job's directory, is the job's) while
they fork, leave the group, change directory, drop the marker and exit, and a scan
of /proc that first lists and then reads them one at a time. `at` is the place of
launch, of the wait goroutine (reap, the decision whether changes are collected,
the kill loop of cleanup, settlement) or of a restarted daemon's recovery with
`scopeFile`; a machine may have been booted again in between. Requests to signal
check the state, deliver, and, when the group is gone, cancel the collection of
changes, in three critical sections.

Assumption, written as `Quiet` and `Active`: identifiers are given out in turn, so
none is used again within the seconds of a cleanup, and no other program starts or
ends in those seconds. Finding 7 says what happens without it.

### PortForward

Per connection the local end, the goroutines `relay` and `upload`, the pipe between
them, the context and the runner's `tunnel` with its `upstream`; for the session
the listener, its accept goroutine and where `Close` is. Close closes the listener,
copies the registered connections, closes them and waits for the wait group; a
connection may be between Accept and registration meanwhile. `CloseProgresses`
says that each of the awaited goroutines can take a step as long as Close waits
(`RelayMoves`), without any help of the runner or of the user's programs.

### JobGC

One id's way through submission, settlement, download, collection and
forgetting, with the daemon's lock where the code holds it over file operations
(`locked`). A time is an `Instant`: the wall clock and, inside one process, the
monotonic clock; reading a time from JSON drops the latter, and `After` compares
like Go's `time.Time.After`. Which of the eligible receipts a collection selects
(owner, age, `--keep`, pages) is nondeterministic. That a job runs at all is one
step here (`Settle`); JobRunner has the detail.

### NamedCache

An entry is a directory with a record (lease, last use, size and whether it is
known), `data`, the saved generations, the link `tree-current` and the holder
files. Jobs pin, restore (copy while the gate of the key is held), run, publish
(new generation, link, retirement of the old one: separate durable steps) and
unpin; jobs of an older runner lease the directory itself. A collection and a
measurement visit one cache at a time: they walk without the metadata lock and check
again under it. The daemon dies between any two durable writes and recovers
holders, leases and tombs. A tree is named after the job that wrote it.

### BlobCache

`blob`, `lru`, `stale`, `bytes` and `pins` are the cache; one action is one critical
section of `c.mu`. An upload negotiates which bodies it needs, restores those the
cache has (open, copy, then touch and pin, unless the file at the path is no longer
the one it opened), inserts those it received (copy, then publish with eviction),
captures the change base, runs and settles. Bodies can be damaged, which a reader
notices by the hash.

### Workspaces

Creation through a `.create-` directory, removal through a `.removed-` one,
identifiers and inode numbers that are used again; per job the reverse reference,
the membership, the scope, the group and the process, each written in a step of
its own; restoring and publishing cache directories under the workspace's gate;
uploads that are admitted for one directory and pinned to it; crash, and per job
the recovery of its lease. Identifiers are taken in the order of their first use,
which stands for the symmetry between them.

### LogStream

Frames of characters in `io.log`, possibly followed by a torn record; the handler of
one connection, which computes the window of `--tail` and `--since`, replays,
follows, notices the end and sends the status; the client, which prints and, when
the connection breaks, dials again with the last frame it printed. The time of a
frame is its number.

### LeaseBroker

`disk` and `mem` are the record of each lease; `machine` is the truth at the
provider, of which the broker only learns through calls. Each lease has one
worker (`pc`, `until`). `Update` leaves memory alone when a write fails,
`Advance` goes on; a failed write is "lost" (before the rename) or "landed"
(after it, when the directory could not be synced). Time passes only while every
worker is in a call or a sleep whose deadline is ahead (`Tick`), so that
deadlines are kept exactly.

Assumptions about the environment: a provider's Acquire creates no machine after
it returned or was cut off and Release was called (LambdaProvider is about what
makes that so); a machine disappears only because it is released; a wake token may
be in `l.wake` at any time, so a sleep can end early whenever it likes; a start of
the daemon whose record writes fail is a start that has not happened yet (New
returns an error). How long ended leases are kept is left open (`Prune` at any
time).

A remark on broker.go:909-912. The write of "ready" may land and be reported as
failed, and the following write of "releasing" may be lost: the disk then says
"ready" while the worker destroys the machine. `ReadyHasMachine` still holds,
because a restarted broker marks a ready lease as unchecked and the probe finds
out; dropping that mark is the property's mutant. This needs two failed writes
and a crash, which is why the run allows them.

### LambdaProvider

One lease: Acquire chooses a region (offers, file systems, what is available),
saves that it is going to send, sends the launch, waits out a 429 and sends again,
reads the answer, installs; Release lists instances by name and decides from what
is listed and from the time since the launch was sent whether absence proves
anything. `inst` is the truth at Lambda for each launch sent, external: a request
in flight is refused, dropped or creates an instance, and that is listed, within
`Lag`. Assumption `LambdaAssumption`: the settle window exceeds the slack before a
send, the lag of the list and the time Release needs together
(`Slack + Lag + ListTime < Settle`). In the code the window is ten minutes and the
slack thirty seconds; that the list of an account is at most nine minutes late is
what the code takes for granted about Lambda.

### LeaseRun

The run's phases (ask, repeat, follow, probe, withdraw, placed, failed), its request
at each cloud peer with copies that may be delivered late, and of the peers what
their request handlers keep: the state of a lease, the requests handed to it, the
remembered withdrawals; another run shares the peers.

### ApplyJournal

The workspace is `tree`, a content per path; the transaction directory is `tx`,
`journal` and one `item` per path with the names the code gives its files:
`value` (staged), `previous` (backup), `installed` (quarantine of a rollback).
The caller's record is `pending`, `applied`, `cleanup`; `caller` says whether it
is the client's change state of a job or a TransferTarget, which differ in how
they finish: a job wants the installed values still in place, a transfer checks
the backups once and then records that it may delete.

`pc` is a place of ApplyToWorkspace (mkdir, plan, stage, group, check, intent,
backup, verify, install, mark, validate, commit, recheck), of the rollback
(rollback, inspect, restore, drop), of the removal, or of the caller (record,
finish, clear, recover). A step ends at each rename and each write. `plan` is the
journal in memory and `journal` the one on disk; a rollback follows `plan`,
recovery `journal`. `Attempt` gives a file operation its three outcomes: done,
failed, failed after it took effect. Removal deletes entries in any order.

`keep` is history: the versions of a path, originals and edits, that have to be
somewhere. The user may edit or delete any path between any two steps, except,
in the passing run, while `JournalInDoubt` (finding 6).

### WorkspacePush

The client: `push.json` (`pend`), the copies of sources, the request in flight. The
runner: the checkpoint, the attempts (staged, applying, done) with receipts, the
store of bodies with its usage record, the lock of the session, a recovery that
precedes every request. A request may be delivered again after the client gave up
on it. A manifest is a function from paths to values; a job may edit the workspace
just before an installation, which is when it matters, and a merge is then clean,
in conflict or materialised. Collection removes attempts, prunes and sweeps bodies.
Assumptions: an installation is one step (ApplyJournal); the age at which an
attempt is collected exceeds the life of a delayed upload; one client session per
checkout and workspace.

### PushWatch

The checkout has a file in its root and one in a directory, and a control that
decides whether the first is ignored: `.errandignore`, or with git a global file
that is polled. Threads: the user; the reader of native events with its watches,
reselection and overflow; the preparation, which turns hints or a full selection
into a manifest, with the stamps of directories as `evidence` that a later push may
skip the selection; the push (compare, copy, send, fail); the loop with its debounce
timer, dirty mark and retries.

### ClientChanges

`rec` is the record file of each job, `file`, `txn` and `staged` the workspace path,
the transaction and the bundle of a job; `xfer`, `wsl`, `autol` and `lease` are the
locks. A process is a submitting run, an automatic worker, `fetch --apply`, a
collection or an inspection, and may be killed at any step. A read-modify-write
under both locks is one step; under one lock it is two, and that is where finding 2
comes from.

### ChangeMerge

Trees are functions from paths to entries, closed under Parent. `theirs` is what the
job leaves of `base`, `ours` what the user made of it. CollectWorkspaceChanges
computes the bundle (roots of change, ignored entries, artifacts), Apply the merged
tree by the recursion of mergeTreePath with its conflicts, or the materialised
conflicts, ApplyAgain repeats it. The text merge itself is git's (external): it
succeeds on disjoint edits and keeps both.

### ClientRun

One process: prepare, record, submit to the candidates in turn with up to three
uploads each, stream, detach, finish; the signal controller as a state machine of
its own (first and second Ctrl-C, what was asked and what was confirmed); the
runners' side of a submission, late deliveries included. The exit code is one of
"0", the job's own, 130, the code of a failed transaction, or death by signal.

## 3. The runs

| run | expects | what it shows |
|---|---|---|
| job_recovery | pass | with failing file operations and two crashes, also during recovery: no command runs twice, results are truthful, survivors locatable, cancellation final, published states durable, and JobContract is implemented |
| job_host | pass | two jobs with cancellations, a transfer, the quiesce lease and a crash: settled once, an acknowledged kill durable, slots, one drain worker, no lost wakeup, a quiet runner is idle, starts in admission order; the processes of one job are found and no others killed, and no signal is lost between exit and collection; a forwarding session closes |
| job_liveness | pass | every admitted job is settled or rolled back, every accepted cancellation answered |
| stores | pass | receipts: no replay, nothing forgotten early, readers undisturbed, the unfetched count exact; named caches: pins kept, restored trees whole, links sound, sizes exact; bodies: pins and bytes exact, the base of a running job readable; workspaces: memberships cover live commands, uploads land where they were admitted, caches are touched only in a quiet directory; logs: contiguous, complete, with exact tails |
| cloud_lease | pass | no forgotten machine, no gone machine handed out, limits on number and lifetime, late requests refused, claims kept; released means no instance, and never two |
| apply_journal | pass | all or nothing, no lost edit, an authorised cleanup is completed, for both callers |
| workspace_push | pass | installed once, the checkpoint right and complete, the recorded size of the store exact, an interrupted push repeatable |
| push_watch | pass | at rest the receiver has the checkout; evidence proves the selection |
| client_fetch | pass | transactions have their records, bundles are kept and merged once, inspections are truthful; all merges of a four-path tree are exact, refused for a reason and lose no edit |
| run_and_lease | pass | one runner per run, the exit code and the messages are true, no Ctrl-C is lost; leases of one peer, "nothing was started" is true |
| lease_withdraw | violation | finding 1 |
| client_completion | violation | finding 2 |

A property of a joint run is the conjunction of what its component promises
(`LeasesSafe` is `WorkspaceLeased` and `CachesQuiet`, each a conjunction of named
parts); the parts are stated one by one in the modules and a counterexample can be
narrowed down by naming a part in the cfg.

### Bounds, and why they are enough

* JobRunner: two jobs. Jobs meet only through `queue`, `running` and the
  counters; interference needs a job and a competitor. job_recovery has one slot
  and no queue, so the second job meets a full runner or a slot just given back,
  and spends its states on two crashes (a crash and a crash during the recovery
  from it); one transfer can be in progress. job_host has two slots so that both are launched, two outstanding
  drain calls so that a second worker could arise. job_liveness has a queue, so
  that one job waits behind the other. The proofs of section 4 do away with the
  bounds for the main safety properties.
* JobProcess: three identifiers (leader, a child, one more that becomes a
  stranger's), four moves of processes, two crashes so that a recovery is itself
  interrupted, a user's signal and the runtime limit at once. PortForward: two
  connections, one of which can be accepted while Close looks at the other.
* JobGC: one id. Ids share only the lock, the clocks and `gcUp`, and no property
  relates two ids. MaxAge 2, Skew 1 and PendingTTL 4 keep the order of the real
  24 h, 1 h and 30 days and make the limits distinct; 7 ticks let an id be
  submitted, run, collected and its marker expire. Ids carry any timestamp from
  too old to one tick too far ahead. MaxUpload 0 and MaxBack 0: findings 4 and 5.
* NamedCache: one cache (caches share only the metadata lock, which is modelled as
  held by one job at a time), two jobs with trees of different size and one old
  job, so that every pair of holders meets; the target of two bytes is exceeded by
  both trees together.
* BlobCache: three bodies of which two fit, two submissions that share one and a
  push that displaces; one damaged body, one restart.
* Workspaces: two identifiers and two inode numbers, so that both can be used
  again, and one crash. Either two jobs with one request to create (`TwoJobs`), or one
  job and one upload with two (`OneOfEach`), or two uploads with two (`TwoPushes`),
  since jobs and uploads meet only through the workspace. Section 4 does away with the
  bounds, a crash during a recovery included, of JobGC and Workspaces.
* LogStream: three frames of up to two characters, of which the limit cuts the
  last; a break at any event; every `--tail` up to two and every `--since`.
* LeaseBroker: two requests, two leases of which one may be active, three ticks,
  a lifetime of two, one crash and two failed writes. A second lease of a limit
  of one is enough for "newest of several", for a lease that is made while
  another is being released, and for the limit. Both failing writes are met with
  one lease, with two leases one of them (`LeasesAndFaults`). WithdrawnAge 0 means that a
  withdrawal is remembered until the clock moves.
* LambdaProvider: two sends (a limited one and its repetition), seven ticks, which
  exceed the settle window by enough for a second look, one failing save, one
  crash, two keys, an offer with and one without file systems.
* ApplyJournal: two paths, so that one is installed when the other fails, that a
  group exists, and that a rollback has an order. Two edits can put one version
  into quarantine and another at the path. Two crashes stop an installation or
  rollback and the recovery from it. One application: a later one begins when
  `pending` is false, and then by TransactionNamed there is no transaction, so it
  starts from a state the first one also starts from.
* WorkspacePush: two pushes of two files with two values, a crash on either side,
  and one oddity (an edit by a job, or a request that arrives late); capacities at
  which the second source fits and does not.
* PushWatch: three versions, so two edits after the checkout the watch began with,
  and one fault, which leaves room for an edit after it; one retry. With git the
  directory is neither made nor removed (`DirectoryStays`).
* ClientChanges: two processes, a job whose life is followed from its submission
  or one that has finished, one kill. ChangeMerge: all trees over d, d/x, d/e and
  d/e/z with the entries ClientFetch lists; a directory that becomes a file while
  the other side works two levels below it is among them.
* ClientRun: two candidates, the code's three attempts, three Ctrl-C (the third at
  plain runs and at attach, `ThirdAt`). LeaseRun: two peers, two leases each, one
  restart.
* MaxTime, MaxCrashes, MaxFaults, Made, MaxDrains and the like are bounds of the
  models, not of the code. They are in guards, so most runs come to an end and
  their cfg says CHECK_DEADLOCK FALSE. The JobRunner runs keep the check: in JobHost
  only the parts that may rest have a step that does nothing (`HostRests`).

### Reductions

Symmetry permutes jobs, requests, paths and process slots; no definition
distinguishes them, and it is not used where liveness is checked. Views identify
states that differ in values no later step or property reads: in LeaseBrokerMC a
deadline of a worker that does not wait, an idle window that is over, a disk
record's details when no restart can follow, an expired withdrawal; in CloudLease
Acquire's locals after it returned and everything but the instances after the
release; in PushWatchMC everything once the watch has ended, and a manifest
prepared without evidence. In ClientFetch texts that are exchangeable are named in
the order the submitted and the local tree use them (`NamedInOrder`); in RunAndLease
a cloud peer moves only once it is asked (`AskedOnly`): what it would have done
before commutes with every step of the run and of the other peer.

### Fairness

`FairSpec` of JobRunner: weak fairness of each goroutine's steps (Go schedules every
runnable goroutine, and none of them waits for another except through the modelled
locks and flags), of Restart (the daemon is installed as a service that is
restarted), and of a process's exit (the runtime timer of launch kills it). A
stalled upload ends because of the HTTP server's read timeout, as a failure of
staging. Clients are never obliged to do anything. EventuallySettled and
CancelAnswered are checked without faults: a file system that refuses every write
for ever keeps a job unsettled.

ApplyJournal's `Fairness` is weak fairness of the process: a call runs to its end,
and a record with a pending transaction is met by a later call (recovery is the
first thing each of them does). Crashes and faults are bounded, edits and new
applications never forced.

Elsewhere "it does not get stuck" is stated as a state property, which needs no
fairness: EditsReachReceiver speaks of the states in which the watch rests,
CloseProgresses of a step being possible, PushRecoverable of what is left to repeat
a push with.

## 4. The proofs

### JobHostProofs: the life cycle

For any set of jobs and any configuration (assumption `JobRunnerAssumption`:
natural-number bounds, at least one slot): `TypeOK`, `AtMostOnce`,
`ResultTruthful`, `QueuedEvidenceSound`, `SurvivorsLocatable`,
`CancelledNeverRuns`, `PublishedIsDurable`, `ResultImmutable` and the refinement
of JobContract.

None of them is inductive. Why a command runs once is that at any time at most
one goroutine owns a job and each owner knows what the files say. `IndInv` writes
that down per job: `DiskInv` (what the directory says of a job that did or did
not start), `PhaseInv` (only a serving daemon works, only a recovering one
loads), `KnownInv`, then one part per owner, `SubmitInv`, `QueueInv`,
`LaunchInv`, `FinInv`, and `SettledInv` and `CancelInv` for what remains true
after it. The step from IndInv to IndInv' is split by who moves: `OwnStep` (the
job's own action), `OtherStep` (another job's action, which touches a job only
through the shared queue), `GlobalKeeps` (scheduler, crash, restart), with
`QueueStep` for the queue having no duplicates and `VisibleStep` for what the
action properties and the refinement see.

### JobHostProofs: the scheduler

On top of `IndInv`, for any configuration: `SchedulerSound` (types, slots, one drain
worker, the quiet runner), `NoLostWakeup`, `StartsInOrder`, `SettledOnce`, and, where
file operations succeed (`~Faults`, see finding 3), `CancelSettles`.

`SchedInv` adds `HoldInv` per job: what it holds of the scheduler (a launched job its
slot, a rolled back admission its place in the queue, a settlement its slot unless
the job was never taken), without which neither the slots nor the worker could be
counted when one of them is given back. SingleWorker is a count, so the lemmas say
which set of launching jobs a step leaves; NoLostWakeup is split by what can make the
head of the queue launchable. For the order of the starts `OrderInv` says that the
queue is in admission order and that no job overtakes one that is queued or being
launched. A cancelled job's verdict travels through several places before it is on disk, which
`KillInv` follows.

### CloudLeaseProofs: the broker

For any number of requests, leases, crashes and failed writes and any timeouts
(`BrokerAssumption`; positive release and probe timeouts and poll): `NoOrphan`,
`ReadyHasMachine`, `MachineLimit`, `OnlyForward`, `LeasesBounded`, and, where a
request asked again does not count as a hand-out (finding 8), `ClaimKept`.

`IndInv` consists of the shape of the records, `WorkerInv` (where a worker can
be, given the state of its lease, with requests only able to turn it to
releasing), `RecordInv` (a running machine has an active record in memory and on
disk; an active record in memory is one on disk, although the two may name
different states; a ready lease has its machine or is marked unchecked), and the
count: not the running machines are bounded inductively but `Paid`, which adds
the leases whose machine may still be created. `Frame` reduces a step to the
lease it works on; there is one lemma per action. `ClaimsKept` needs a second
invariant: of a ready lease, `claimed <= lastBusy`.

`LeasesBounded` has two more. `LifeInv`: a live lease, and every deadline its
worker waits for, stay below `Limit`, the later of expiry and restart plus one
poll per failed write. A failed write moves the limit by a poll in the very step
that makes the worker sleep for one, so the limit never falls behind. `WithdrawInv`:
a request that was told "unknown" is remembered with the time of that answer and no
launch has it; the room for withdrawn requests is only taken from expired ones, and
whoever joins or starts a launch has looked the request up. It includes `TypeOK`,
for which the lemma `Removed` says what RemoveFirst leaves of a list.

`BothParts` carries the theorems of the broker and of the provider over to the
composition that TLC runs.

### CloudLeaseProofs: the provider

`InstanceReleased` (a released lease has no instance and gets none; there never was a
second one) for any number of sends, crashes, failing saves and changes of the key, and
for all delays that satisfy `LambdaAssumption`. With the window one tick shorter the
last step of `GoneProved` fails, as it should.

`LMInv`: every request but the last was refused with 429 (`SendInv`); while an instance
may be billed, the record in memory and the one on disk say with which key and when
it was sent, not earlier than the slack before it was, and call it seen only if it is
listed (`KnownInv`); what Release did not find listed was not due when it looked
(`ReleaseInv`). That the time since the launch proves anything is then arithmetic:
due <= sent + Slack + Lag, looked <= due, decided <= looked + ListTime.

### RunnerStoresProofs: receipts

For any ids, ages and bounds with MaxUpload = 0 and MaxBack = 0, any crashes and
failing removals: `ReceiptsSafe`. The two hypotheses are not a convenience: findings
4 and 5 are what happens without them, and TLC finds the counterexample.

NoReplay is not inductive. `GCInv` has per id `RecordsInv` (a marker, in memory or on
disk, was made after the id was admitted, by a time this machine has shown),
`KnownInv` (an id that ran is in the table, or collected, or too old), `TombInv` and
`CollectInv` (which step of a collection owns the receipt's name), `ReaderInv`; and
for all ids `ClockInv` (the high-water mark is a time that was shown, monotonic and
wall reading agree).

### RunnerStoresProofs: workspaces

For any identifiers, jobs, requests, inode numbers and crashes: `LeasesSafe`, that is
`WorkspaceLeased` and `CachesQuiet`.

`WsInv` says per job where it is a member for sure and where it may be one
(`MemberInv`: the write of the record may fail after its rename), what the holder of
a gate may rely on (`HolderInv`) and what a running command proves (`LiveInv`: its
record, its scope, and that `pending` is cleared); per workspace who holds its gate and
that a prepared member has a comparison base (`RecordInv`); and that directories in
use, in creation, or behind an open handle differ in their inode numbers (`InodeInv`,
`PinInv`). CachesQuiet follows from `pending`, not from the gate: a command runs
without it. `Effect` states what a job's step may do to the rest, one lemma per action
shows it, and `EffectKeeps` concludes for the other jobs and the records.

### RunnerStoresProofs: named caches

NCInvariance and CachesAreSafe, for any caches, jobs and deaths of the daemon. A job
reads its cache under the lock or the gate and uses what it read after it let go, so
`UseInv` says what it still knows: from its pin that the cache is there and that it is a
holder (or has the lease), from the gate that the generation it copies or replaces is
the current one (`PlaceInv`, `EntryInv`); `NamesInv` says that the names it is about to
use are free. `UnlockedStep`: who takes something from a cache saw it without pins under
the lock, and then no job knows anything of it; `Only`: what a job does to its own cache
takes nothing from another job's knowledge. `KeyInv` is about one cache by itself, its
recorded size included. `WalkInv` is about a collection or measurement that walks the
files without a lock: what it found is exact as long as the recorded last use is the one
it began with, because whoever changes a cache has written a later one before
(`Later`). The bytes of the trees are a sum over a set; where it matters, the set has
at most one member (`SumOne`), so no induction is needed.

### RunAndLeaseProofs

`LeaseFromOne` for any number of cloud peers, leases and restarts. `LRInv`: of the peers
that were turned away from, no copy of the request is on its way and nothing was
handed out (`BehindInv`), which needs `FirstTryInv` (the next peer is asked only after
a refusal of the first attempt); a peer that was told of the withdrawal remembers it,
or has restarted and lost the copies with it (`ToldInv`).

`RunsOnOneRunner` and `ExitAccounted` for any number of candidates, uploads and
Ctrl-Cs. `CRInv`: `BegunInv` (what was begun at which candidate; a rejection is definite
only while no earlier try is uncertain), `PlaceInv` (so only the present candidate can
have the job), `ControlInv` and `StreamInv` (what the signal controller and the stream
claim is true and stays so), `ExitInv` (it is what the exit code reports).

`RunPromises` states all three of `errand run` as a whole: every behaviour of the two
conversations together is one of each (`BothConversations`).

### ApplyJournalProofs

For any number of paths, applications, edits, crashes and failing file operations and
for both callers: `AllOrNothing`; and `EditsKept` where the user does not edit while the
journal is in doubt (`~LateEdits`: finding 6 is what happens otherwise, and TLC shows it).

`AJInv` fixes what record, journal and directory say at each place of the process
(`PhaseInv`, `DirInv`), and then follows each path by itself. `Placed`: how far the
installation is with it, by its position relative to the process. `Known`: the
journal on disk and the plan in memory, which differ after a failed write, never call
an item prepared that was begun. `Undo`: the rollback, from the last item down, and
what it found if it met no error. `Whole`: a path the user did not touch is in one
of three states, the original in place, the original moved away, the new value in
place, and in the last one once an outcome is recorded. `Held`: every version that has
to be kept is at the path, in the backup or in the quarantine, and what is dropped or
overwritten is none of them. There is one lemma per action, and edits and crashes are
actions like the others.

### JobHostProofs: tunnels and processes

`ForwardsClosed` for any number of connections. `PFInv`: only the accept goroutine can
hold a connection that has no goroutine, and it holds one (`AcceptInv`); whoever is
registered when Close begins is cancelled, and a relay has closed what its upload
waits for before it waits for the upload (`ConnInv`).

`ProcessesSafe` for any number of processes, moves, crashes, boots and signals, under
the assumption of `Quiet` and `Active`. The difficulty is that a scan reads a process
at one moment and is acted on later. `ScanInv` says what the part of /proc already
read proves of a process now: it was not there, it moved since, or it is found.
`GroupKnown` names the places at which the daemon has evidence that the group is the
job's, and `EntryInv` what the evidence means, so that a kill of the group reaches no
stranger; `StoppedInv` is what is left when a shared workspace has no group; `CtlInv`
ties a signal that found nobody to the cancellation of the collection.

### WorkspacePushProofs

`PushedOnce`, `CheckpointSound` and `PushRecoverable` for any files, contents and
capacities and any number of pushes, crashes, edits by jobs and lost or delayed
requests.

A late request is the heart of it: which of the requests on their way can still have
an effect? `WPInv`: while `push.json` says applying, its push is the only one that can
be applied, by whichever copy of the request (`TalkInv`); so the checkpoint moves only
with it, and what the client was told is true (`AnswerInv`); an attempt whose receipt
is needed is not collected, and every other one is done or without effect
(`StoreInv`); the bodies of the checkpoint and of the attempts are in the store
(`BodiesRetained`); and, for each place at which the runner may die, journal and receipt
tell together whether the installation happened (`SrvInv`). `UsageInv` is about the
store's size, which is recorded only while no body is being inserted or removed. The
size is the cardinality of a set of pairs, so that adding a body to a sum is a
statement about disjoint unions and needs no induction (`BytesAdd`).

### PushWatchProofs

`EvidenceProves` and `EditsReachReceiver` for any number of edits, faults and retries,
with and without git, and with directories made and removed in both (TLC's run keeps
them with git).

The evidence is gathered in several steps while the user edits, and every step may see
another checkout. `Listed` is what survives: a list made after its directory was
stamped is the directory's as long as the stamp is, because whatever changes a
membership moves the stamp to a time no evidence has yet (`Stamped`, `StampsMove`). The
manifest's paths are therefore compared not with the checkout but with what the
evidence's own lists and policy would select (`Selects`), which no edit can change;
`VerifiedSelects` joins the two when stamps and policy are verified. `PWInv` follows the
evidence through an update (`ListInv`, `ReadInv`, `RereadInv`) and through a full
preparation (`EnlistInv`, `VerifyInv`). `RelistSelects` is the core of the update:
additions, removals and hinted files turn the paths of the old lists into those of the
new ones. That a directory's own entry keeps its meaning there needs full selection
when s itself comes or goes and, with git, keepsDirectories.

`EditsReachReceiver` says that when the watch rests the receiver has the checkout. It
rests on `ReachInv`: every file the prepared manifest has wrong is named by something
that is still on its way (`Notified`: an event not yet read, a hint, a renewal of
everything), or by the hints a preparation in flight has taken (`Taken`), which it gives
back if it fails (`PreparedCurrent`, and `StageInv` for the manifest being made). Three
parts say that what is on its way arrives: `WatchInv`, that a directory not yet watched
or a policy not yet seen has its event, a renewal or a control stamp that differs;
`LoopInv`, that hints never wait without a change, a timer or a push that the loop will
hear of; and `PolicyInv`, that an ignored file leads to a renewal or to the end of the
watch. `FinalInv` carries this through comparing and sending: the manifest that was
prepared selects the whole checkout, which is where `EvidenceProves`' invariant is used,
or something is unsettled. `SendInv` says that what a successful push, or a push found
unchanged, leaves behind is that manifest, also when a request was interrupted and its
outcome recovered. What rests is the watch while it runs (`Awake`): after a policy
change it ends with an error, and promises nothing.

### ClientChangesProofs

`RecordsSafe` and `AppliedOnce` for any number of jobs, client processes, crashes,
fetches, inspections and collections (`ChangesAssumption`: natural-number bounds, and
`NoProc`, the absence of a holder, is no process).

A record is read, changed and written back as a whole file, mostly under one of two
locks, so a copy may be stale when it is saved. `DataKept` says what each lock is good
for: under the workspace lock nobody else moves a transaction or merges; under the
transfer lock nobody takes the download away or opens the job's transaction; only
under both does the record stay as it was read. Every step is shown to leave that to
the processes that did not take it (`OthersKeep`), so only the process that moves and
the job it writes remain to be looked at (`StepKeeps`). `Good` is what a copy is worth
however old it is: merges are never undone, so a copy that says applied stays true, and
`CopyInv` keeps it with every process that will save one. `Updates` is what an honest
save keeps of the record before it; a save that does not, has overwritten a newer
record and sets `torn`. `JobInv` puts these together: a merged bundle is still
installed, or its record says applied, or that record was overwritten or removed; and
`WorkInv` says that the process about to merge has read, under both locks, a record
that does not. For inspection `LookInv` follows the first probe's finding to the
verdict: an apply found finished and then open again was overwritten.

### What is only model-checked

* Liveness (EventuallySettled, CancelAnswered, CleanupCompletes): temporal reasoning
  under fairness is out of the prover's reach.
* BodiesSafe and LogsFaithful. The byte counts of BlobCache are sums over sets of any
  size, the windows of LogStream filters of sequences: what they compute needs
  induction over data.
* CancelSettles where writes fail, and ReceiptsSafe beyond MaxUpload = MaxBack = 0,
  are false (findings 3 to 5).
* MergesSound and UserEditsKept of ChangeMerge for good: mergeTreePath is a recursion
  over the tree, and what a recursive definition computes for every input is not
  provable here.

Nested uses of `@` inside one EXCEPT of a record inside another are avoided in the
modules that are proved about: tlapm 1.4.5 expands the outer `@` into the inner one.

## 5. Findings

With a run that shows it; PROJECT.json quotes the documentation.

1. **A withdrawn request can start a machine** (lease_withdraw; broker.go:630): a
   withdrawal that finds the request's lease does not remember the request, so a
   slow copy of it launches a machine nobody waits for.
2. **A recorded completion is undone** (client_completion; change_state.go:352):
   the run's own process confirms the admission with a copy of the record it read
   before `fetch --apply` recorded completion. AppliedOnce and InspectionTruthful
   except jobs whose record was overwritten this way (`torn`).

Found while modelling; the passing runs exclude the situation by a constant or an
assumption, and changing that shows the counterexample.

3. **A cancellation is acknowledged without its receipt** (server.go:1343,
   job.go:1091). "A successful return means the killed receipt is durable"
   (server.go:1305). When `result.json` cannot be written, `j.done` is closed all
   the same and the request succeeds. CancelSettles with Faults = TRUE.
4. **A collected id can run again** (server.go:1039). Collection markers "never
   permit a collected ID to execute again" (OPERATIONS.md:327). The age of an id is
   judged before the body is read, the marker looked up after it; the marker of an
   id issued by a fast client clock can expire in between. ReceiptsSafe with
   MaxUpload = 1.
5. **The persisted clock can move back** (admission_clock.go:60). It "never moves
   backward across restart" (DESIGN.md:416). Two times of one process are compared
   by their monotonic readings, and the later one's earlier wall time is written.
   With MaxBack = 1 the model takes this step (AdvanceAdmissionClock); no property
   is checked under it.
6. **An edit at a path the set deletes can be lost** (apply.go:495). The check
   after the commit aborts with the journal on disk committed. The rollback has
   just moved the user's new file into the transaction when the process stops:
   all paths look as the committed journal expects, recovery records success and
   the cleanup deletes the file. A failed write of an item's intent has the same
   effect, since rollback and recovery then follow different journals. EditsKept
   with LateEdits = TRUE; GROUPED_APPLY.md:100 says "A later edit to an installed
   destination must never be overwritten".
7. **Recovery can kill a stranger's processes** (server.go:559-562). Restart
   "validates the leader's identity before signalling" and leaves a reused leader
   pid unresolved (DESIGN.md:691-694). A process with the reused number that forks
   and exits while members(false) reads /proc is not seen, the group counts as
   owned, and its children are killed. Excluded by `Quiet` and `Active`.
8. **A lease is handed out and released at once** (broker.go:404): a request asked
   again gets its ready lease without a new idle window, although "the hand-out
   restarts its idle window" (broker.go:944). ClaimKept with Recount = TRUE.

Remarks, each a limit of what the properties promise.

* A process forked during the last scan of a cleanup escapes it although the
  cleanup succeeds (process_scope_unix.go:125-153, 240-275); CleanMeansGone excepts
  processes that `moved` since the listing.
* A signal to a group of which only the unreaped leader is left succeeds, so it
  neither reaches a process nor cancels the collection (job.go:909-998); it does not
  count as owed in SignalHeeded.
* When a second Ctrl-C's force-kill fails after the first was confirmed, the client
  exits without saying so (interrupts.go:258); InterruptAccounted asks for the
  message only where the first is unconfirmed as well.
* A crash while CommitApply deletes the transaction of a job can leave one that
  recovery refuses for ever (journal.go:247; transfers have a checkpoint against
  this, and CleanupCompletes shows it works).
* The acknowledgement of changes prunes markers by a time that is not persisted
  first (job_gc.go:374), which matters only after a crash and a clock that is set
  back.
* Requirements are measured outside the lock and admission is checked again with
  the measured facts (server.go:1165); facts are not part of the model.

## 6. Not modelled, and the plan

Not modelled at all: identity and access (stateless checks of each request);
configuration, facts and setup (parsing and measurement; the quiesce lease is in
JobRunner); the command line but for leasing; experiments, demos and documentation
tools; hashing, tar layout and path rules of snapshots (sequential code without
state between calls).

Left out of modelled components:

* Process scope: macOS (ps, lsof) and Windows (job objects); zombies other than the
  leader; the environment and the directory of a process are read in one step.
* Named caches: Store.Acquire and AcquireShared for other callers, dry runs, the
  cursor of the measurement. Blob cache: failing directory operations. Workspaces:
  listing, the cache of parsed records.
* Broker: SSH keys of further devices, offers and catalog, several owners. Lambda:
  registration of the key, the binary that is installed, pages that change while
  they are listed, two leases at the rate gates, prices. LeaseRun: admission of SSH
  keys, a peer that refuses a ready lease, pruning.
* Apply journal: parents the application creates, metadata-only items, replaced
  directories.
* Client changes: `--conflicts`, a missing or moved root, unreadable records, lock
  striping, dry runs, damaged downloads. Merge: limits, caches, git metadata, case
  folding, Windows modes; `git merge-file` is external.
* Push: several clients of one checkout, a collection that finds nothing, edits by
  jobs at moments other than just before an installation. Watch: edits while the
  first watches are being set up, symbolic links, filters of attribute events, other
  clients' generations, a recovery whose answer is lost twice.

What is worth proving next: the part of BodiesSafe that does not count bytes (which
bodies may go while uploads and jobs hold them), which first needs eviction and
negotiation stated by what they leave instead of as folds.
