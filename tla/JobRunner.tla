----------------------------- MODULE JobRunner -----------------------------
(***************************************************************************)
(* The job life cycle of the errand runner daemon: admission, staging, the *)
(* FIFO queue and its drain worker, launch, cancellation before start,     *)
(* process exit, settlement, the setup quiesce lease, and what a daemon    *)
(* that crashed anywhere in between makes of the receipts it left on disk. *)
(*                                                                         *)
(* Source: internal/daemon/server.go and internal/daemon/job.go.           *)
(*                                                                         *)
(* Atomicity.  A step is one critical section of d.mu/j.mu, or one durable *)
(* file operation (a rename, a remove, a tree removal), so the daemon can  *)
(* crash between any two of them.  A goroutine that works on a job is a    *)
(* program counter: submit[j] is the PUT handler past admission, launch[j] *)
(* the drain worker and then the wait goroutine, fin[j] the finalizer,     *)
(* rec[j] loadExisting after a restart.                                    *)
(*                                                                         *)
(* Abstractions.  Log bytes, the change bundle, named caches and the       *)
(* contents of a workspace are left out; a failing file operation is a     *)
(* choice the constant Faults enables.  A crash keeps the order in which   *)
(* file operations were made (no operation is lost by a power failure).    *)
(***************************************************************************)
EXTENDS Naturals, Sequences, FiniteSets

CONSTANTS
    Jobs,         \* job identifiers a client may submit
    MaxJobs,      \* Config.MaxJobs: running slots
    MaxQueued,    \* Config.MaxQueued: queue slots
    Faults,       \* whether file operations and process starts may fail
    MaxCrashes,   \* bound: daemon crashes in one behaviour
    MaxDrains,    \* bound: calls of drainQueue outstanding at an admission
    MaxTransfers  \* bound: concurrent workspace transfers

ASSUME JobRunnerAssumption ==
    /\ IsFiniteSet(Jobs)
    /\ MaxJobs \in Nat \ {0}
    /\ MaxQueued \in Nat
    /\ Faults \in BOOLEAN
    /\ MaxCrashes \in Nat /\ MaxDrains \in Nat
    /\ MaxTransfers \in Nat

VARIABLES
    \* The receipt directory of each job, which outlives the daemon.
    receipt,   \* "none", "ok" (spec.json and admission.json readable), "torn"
    qmark,     \* queued.json is present
    scope,     \* scope.json is present
    wspace,    \* the job's workspace tree is present
    result,    \* what result.json says, or "none"
    \* The operating system.
    proc,      \* "none", "alive" (leader runs), "orphans" (only descendants), "gone"
    \* Daemon memory.
    up,        \* "down", "recovering", "serving"
    jobs,      \* keys of d.jobs
    state,     \* j.state, "none" for a job the daemon does not know
    queue,     \* d.queue, in admission order, staging jobs included
    running,   \* keys of d.running
    draining,  \* d.draining
    loops,     \* runQueue goroutines at the top of their loop
    drains,    \* goroutines about to call drainQueue
    killed,    \* j.killed # ""
    started,   \* j.started
    reaped,    \* j.reaped
    rejected,  \* j.startRejected
    done,      \* j.done is closed
    waiting,   \* a control request waits in cancelBeforeStart
    submit, launch, fin, rec,     \* program counters, see above
    verdict,   \* the result the finalizer of j is about to persist
    scopeOK,   \* the scopeCleanupOK argument of j's finalizer
    quiesced,  \* the setup quiesce token is held and has not expired
    transfers, \* d.transfers
    \* History.
    starts,    \* how often a process was started for j
    arrivals,  \* jobs in the order this daemon admitted them
    acked,     \* a cancellation before start of j was answered with success
    finals,    \* how often finalize was entered for j since its admission
    crashes

disk    == <<receipt, qmark, scope, wspace, result>>
flags   == <<killed, started, reaped, rejected, done, waiting>>
pcs     == <<submit, launch, fin, rec, verdict, scopeOK, finals>>
sched   == <<queue, running, draining, loops, drains>>
setup   == <<quiesced, transfers>>
history == <<starts, arrivals, acked, crashes>>
vars    == <<disk, proc, up, jobs, state, flags, pcs, sched, setup, history>>

NeverRan  == {"never_exited", "never_killed"}  \* Started = false
Ran       == {"ran_exited", "ran_killed"}      \* Started = true
Verdicts  == NeverRan \cup Ran \cup {"ambiguous"}
Terminal  == {"exited", "killed", "ambiguous"}
States    == {"none", "staging", "queued", "running"} \cup Terminal

\* The published state of a persisted verdict (Result.State).
StateOf(v) == CASE v \in {"never_exited", "ran_exited"} -> "exited"
                [] v \in {"never_killed", "ran_killed"} -> "killed"
                [] OTHER -> "ambiguous"

\* j.result # nil: state and result are published together everywhere.
Settled(j) == state[j] \in Terminal

All(v)       == [j \in Jobs |-> v]
In(j, s)     == \E i \in DOMAIN s : s[i] = j
Before(j, k) == \E a, b \in DOMAIN arrivals :
                   a < b /\ arrivals[a] = j /\ arrivals[b] = k

\* s without its first j (removeQueuedLocked).
Without(s, j) ==
    LET at == CHOOSE i \in DOMAIN s : s[i] = j /\ \A h \in 1 .. i - 1 : s[h] # j
    IN  IF In(j, s)
        THEN [i \in 1 .. Len(s) - 1 |-> IF i < at THEN s[i] ELSE s[i + 1]]
        ELSE s

\* len(d.running)+len(d.queue) >= d.cfg.MaxJobs+d.cfg.MaxQueued
CapacityFull == Cardinality(running) + Len(queue) >= MaxJobs + MaxQueued

----------------------------------------------------------------------------
Init ==
    /\ receipt = All("none") /\ result = All("none") /\ proc = All("none")
    /\ qmark = All(FALSE) /\ scope = All(FALSE) /\ wspace = All(FALSE)
    /\ up = "serving" /\ jobs = {} /\ state = All("none")
    /\ queue = <<>> /\ running = {} /\ draining = FALSE /\ loops = 0 /\ drains = 0
    /\ killed = All(FALSE) /\ started = All(FALSE) /\ reaped = All(FALSE)
    /\ rejected = All(FALSE) /\ done = All(FALSE) /\ waiting = All(FALSE)
    /\ submit = All("idle") /\ launch = All("idle") /\ fin = All("idle")
    /\ rec = All("idle") /\ verdict = All("none") /\ scopeOK = All(TRUE)
    /\ finals = All(0)
    /\ quiesced = FALSE /\ transfers = 0
    /\ starts = All(0) /\ arrivals = <<>> /\ acked = All(FALSE) /\ crashes = 0
----------------------------------------------------------------------------
(***************************************************************************)
(* Entering finalize.  finals counts the entries: a second one would close *)
(* j.done twice, which panics the daemon.                                  *)
(***************************************************************************)
Finalize(j, v, ok) ==
    /\ fin' = [fin EXCEPT ![j] = "workspace"]
    /\ verdict' = [verdict EXCEPT ![j] = v]
    /\ scopeOK' = [scopeOK EXCEPT ![j] = ok]
    /\ finals' = [finals EXCEPT ![j] = @ + 1]

NoFinalize == UNCHANGED <<fin, verdict, scopeOK, finals>>

\* newJob: the flags of a fresh Job.
NewFlags(j) ==
    /\ killed' = [killed EXCEPT ![j] = FALSE]
    /\ started' = [started EXCEPT ![j] = FALSE]
    /\ reaped' = [reaped EXCEPT ![j] = FALSE]
    /\ rejected' = [rejected EXCEPT ![j] = FALSE]
    /\ done' = [done EXCEPT ![j] = FALSE]

(***************************************************************************)
(* handleSubmit.  The admission section runs under d.mu: replay, quiesce   *)
(* and capacity checks, then the receipt directory is renamed into place.  *)
(* A submission of a job that is already known answers its status and      *)
(* changes nothing.                                                        *)
(***************************************************************************)
Known_UnlessSettled(j) == j \in jobs /\ ~Settled(j)
Known(j) == j \in jobs \/ receipt[j] # "none"

Admit(j) ==
    /\ up = "serving"
    /\ ~Known(j)
    /\ ~quiesced
    /\ ~CapacityFull
    /\ drains < MaxDrains
    /\ receipt' = [receipt EXCEPT ![j] = "ok"]
    /\ jobs' = jobs \cup {j}
    /\ queue' = Append(queue, j)
    /\ state' = [state EXCEPT ![j] = "staging"]
    /\ NewFlags(j)
    /\ submit' = [submit EXCEPT ![j] = "stage"]
    /\ arrivals' = Append(Without(arrivals, j), j)
    /\ UNCHANGED <<qmark, scope, wspace, result, proc, up, waiting, launch, fin, rec,
                   verdict, scopeOK, finals, running, draining, loops, drains,
                   setup, starts, acked, crashes>>

\* stage creates the workspace directory and starts to fill it.
StageBegin(j) ==
    /\ submit[j] = "stage"
    /\ wspace' = [wspace EXCEPT ![j] = TRUE]
    /\ submit' = [submit EXCEPT ![j] = "extract"]
    /\ UNCHANGED <<receipt, qmark, scope, result, proc, up, jobs, state, flags, launch,
                   fin, rec, verdict, scopeOK, finals, sched, setup, history>>

(***************************************************************************)
(* A submit step that failed: rejectPreExecution.  settleStartFailure      *)
(* decides under j.mu between a kill that was already accepted, which      *)
(* becomes a durable result, and a rollback that refuses later kills.      *)
(***************************************************************************)
RejectPreExecution(j) ==
    IF killed[j]
    THEN /\ submit' = [submit EXCEPT ![j] = "idle"]
         /\ Finalize(j, "never_killed", TRUE)
         /\ UNCHANGED rejected
    ELSE /\ submit' = [submit EXCEPT ![j] = "abort"]
         /\ rejected' = [rejected EXCEPT ![j] = TRUE]
         /\ NoFinalize

\* The upload or the extraction fails (a client may send a bad archive at any
\* time), or a cancelled job meets its closed body.
StageFail(j) ==
    /\ submit[j] \in {"stage", "extract"}
    /\ RejectPreExecution(j)
    /\ UNCHANGED <<disk, proc, up, jobs, state, killed, started, reaped, done, waiting,
                   launch, rec, sched, setup, history>>

\* stage succeeded: cancelledBeforeStart finalizes a job killed meanwhile.
StageEnd(j) ==
    /\ submit[j] = "extract"
    /\ IF killed[j]
       THEN /\ submit' = [submit EXCEPT ![j] = "idle"]
            /\ Finalize(j, "never_killed", TRUE)
       ELSE /\ submit' = [submit EXCEPT ![j] = "staged"]
            /\ NoFinalize
    /\ UNCHANGED <<disk, proc, up, jobs, state, flags, launch, rec, sched, setup, history>>

\* queueStaged, first half: persist queued.json.
WriteQueued(j) ==
    /\ submit[j] = "staged"
    /\ qmark' = [qmark EXCEPT ![j] = TRUE]
    /\ submit' = [submit EXCEPT ![j] = "marked"]
    /\ UNCHANGED <<receipt, scope, wspace, result, proc, up, jobs, state, flags, launch,
                   fin, rec, verdict, scopeOK, finals, sched, setup, history>>

WriteQueuedFail(j) ==
    /\ Faults
    /\ submit[j] = "staged"
    /\ RejectPreExecution(j)
    /\ UNCHANGED <<disk, proc, up, jobs, state, killed, started, reaped, done, waiting,
                   launch, rec, sched, setup, history>>

\* queueStaged, second half, under d.mu and j.mu.
CommitQueued(j) ==
    /\ submit[j] = "marked"
    /\ submit' = [submit EXCEPT ![j] = "idle"]
    /\ IF killed[j]
       THEN /\ queue' = Without(queue, j)
            /\ Finalize(j, "never_killed", TRUE)
            /\ UNCHANGED <<state, drains>>
       ELSE /\ state' = [state EXCEPT ![j] = "queued"]
            /\ drains' = drains + 1
            /\ NoFinalize /\ UNCHANGED queue
    /\ UNCHANGED <<disk, proc, up, jobs, flags, launch, rec, running, draining, loops,
                   setup, history>>

(***************************************************************************)
(* abortAdmission: remove workspace and receipt directory, then unregister *)
(* the job.  Removing the tree file by file passes through a state where   *)
(* the directory exists and spec.json does not.                            *)
(***************************************************************************)
AbortTear(j) ==
    /\ submit[j] = "abort" /\ receipt[j] = "ok"
    /\ receipt' = [receipt EXCEPT ![j] = "torn"]
    /\ wspace' = [wspace EXCEPT ![j] = FALSE]
    /\ UNCHANGED <<qmark, scope, result, proc, up, jobs, state, flags, pcs, sched, setup,
                   history>>

AbortClean(j) ==
    /\ submit[j] = "abort" /\ receipt[j] = "torn"
    /\ receipt' = [receipt EXCEPT ![j] = "none"]
    /\ qmark' = [qmark EXCEPT ![j] = FALSE]
    /\ submit' = [submit EXCEPT ![j] = "forget"]
    /\ UNCHANGED <<scope, wspace, result, proc, up, jobs, state, flags, launch, fin, rec,
                   verdict, scopeOK, finals, sched, setup, history>>

AbortCleanFail(j) ==
    /\ Faults
    /\ submit[j] = "abort"
    /\ submit' = [submit EXCEPT ![j] = "retain"]
    /\ UNCHANGED <<disk, proc, up, jobs, state, flags, launch, fin, rec, verdict, scopeOK,
                   finals, sched, setup, history>>

\* The d.mu section of abortAdmission.  A job whose directory is gone is
\* forgotten with its memory; the deferred drainQueue follows.
AbortForget_NoDrain(j) ==
    /\ submit[j] = "forget"
    /\ jobs' = jobs \ {j}
    /\ running' = running \ {j}
    /\ queue' = Without(queue, j)
    /\ state' = [state EXCEPT ![j] = "none"]
    /\ done' = [done EXCEPT ![j] = TRUE]
    /\ submit' = [submit EXCEPT ![j] = "idle"]
    /\ UNCHANGED <<disk, proc, up, killed, started, reaped, rejected, waiting, launch, fin,
                   rec, verdict, scopeOK, finals, draining, loops, drains, setup, history>>

AbortForget(j) ==
    /\ submit[j] = "forget"
    /\ jobs' = jobs \ {j}
    /\ running' = running \ {j}
    /\ queue' = Without(queue, j)
    /\ state' = [state EXCEPT ![j] = "none"]
    /\ done' = [done EXCEPT ![j] = TRUE]
    /\ submit' = [submit EXCEPT ![j] = "idle"]
    /\ drains' = drains + 1
    /\ UNCHANGED <<disk, proc, up, killed, started, reaped, rejected, waiting, launch, fin,
                   rec, verdict, scopeOK, finals, draining, loops, setup, history>>

AbortRetain(j) ==
    /\ submit[j] = "retain"
    /\ running' = running \ {j}
    /\ queue' = Without(queue, j)
    /\ submit' = [submit EXCEPT ![j] = "record"]
    /\ UNCHANGED <<disk, proc, up, jobs, state, flags, launch, fin, rec, verdict, scopeOK,
                   finals, draining, loops, drains, setup, history>>

\* The receipt is rebuilt with an ambiguous result; each write may fail.
AbortRecord(j) ==
    /\ submit[j] = "record"
    /\ \E spec, res \in BOOLEAN :
         /\ receipt' = IF spec THEN [receipt EXCEPT ![j] = "ok"] ELSE receipt
         /\ result' = IF res THEN [result EXCEPT ![j] = "ambiguous"] ELSE result
    /\ state' = [state EXCEPT ![j] = "ambiguous"]
    /\ done' = [done EXCEPT ![j] = TRUE]
    /\ submit' = [submit EXCEPT ![j] = "idle"]
    /\ drains' = drains + 1
    /\ UNCHANGED <<qmark, scope, wspace, proc, up, jobs, killed, started, reaped, rejected,
                   waiting, launch, fin, rec, verdict, scopeOK, finals, queue, running,
                   draining, loops, setup, history>>

----------------------------------------------------------------------------
(***************************************************************************)
(* The scheduler.  drainQueue starts one runQueue goroutine unless one     *)
(* exists; runQueue takes the head while a slot is free and the head is    *)
(* staged, and launches it before it looks again.                          *)
(***************************************************************************)
DrainQueue_Unguarded ==
    /\ drains > 0
    /\ drains' = drains - 1
    /\ draining' = TRUE
    /\ loops' = loops + 1
    /\ UNCHANGED <<disk, proc, up, jobs, state, flags, pcs, queue, running, setup, history>>

DrainQueue ==
    /\ drains > 0
    /\ drains' = drains - 1
    /\ draining' = TRUE
    /\ loops' = IF draining THEN loops ELSE loops + 1
    /\ UNCHANGED <<disk, proc, up, jobs, state, flags, pcs, queue, running, setup, history>>

CanTake == /\ Cardinality(running) < MaxJobs
           /\ queue # <<>>
           /\ state[Head(queue)] = "queued"

RunQueueStop_KeepsDraining ==
    /\ loops > 0
    /\ ~CanTake
    /\ loops' = loops - 1
    /\ UNCHANGED <<disk, proc, up, jobs, state, flags, pcs, queue, running, draining, drains,
                   setup, history>>

RunQueueStop ==
    /\ loops > 0
    /\ ~CanTake
    /\ loops' = loops - 1
    /\ draining' = FALSE
    /\ UNCHANGED <<disk, proc, up, jobs, state, flags, pcs, queue, running, drains, setup,
                   history>>

RunQueueTake ==
    /\ loops > 0
    /\ CanTake
    /\ loops' = loops - 1
    /\ queue' = Tail(queue)
    /\ running' = running \cup {Head(queue)}
    /\ launch' = [launch EXCEPT ![Head(queue)] = "bind"]
    /\ UNCHANGED <<disk, proc, up, jobs, state, flags, submit, fin, rec, verdict, scopeOK,
                   finals, draining, drains, setup, history>>

(***************************************************************************)
(* launch, by the drain worker: log writer and named caches, scope.json,   *)
(* then queued.json is consumed, then everything exec needs.               *)
(***************************************************************************)
WriteScope(j) ==
    /\ launch[j] = "bind"
    /\ scope' = [scope EXCEPT ![j] = TRUE]
    /\ launch' = [launch EXCEPT ![j] = "scoped"]
    /\ UNCHANGED <<receipt, qmark, wspace, result, proc, up, jobs, state, flags, submit,
                   fin, rec, verdict, scopeOK, finals, sched, setup, history>>

ConsumeQueued_Swallowed(j) ==
    /\ launch[j] = "scoped"
    /\ \E ok \in {TRUE, ~Faults} : qmark' = IF ok THEN [qmark EXCEPT ![j] = FALSE] ELSE qmark
    /\ launch' = [launch EXCEPT ![j] = "ready"]
    /\ UNCHANGED <<receipt, scope, wspace, result, proc, up, jobs, state, flags, submit,
                   fin, rec, verdict, scopeOK, finals, sched, setup, history>>

ConsumeQueued(j) ==
    /\ launch[j] = "scoped"
    /\ qmark' = [qmark EXCEPT ![j] = FALSE]
    /\ launch' = [launch EXCEPT ![j] = "ready"]
    /\ UNCHANGED <<receipt, scope, wspace, result, proc, up, jobs, state, flags, submit,
                   fin, rec, verdict, scopeOK, finals, sched, setup, history>>

(***************************************************************************)
(* launchDequeued: a launch that failed settles as killed if a kill was    *)
(* accepted, else as a start error.  The executable of a job may always be *)
(* missing; the earlier steps fail only with a fault.  The drain worker    *)
(* runs the finalizer itself.                                              *)
(***************************************************************************)
LaunchFail(j) ==
    /\ \/ launch[j] \in {"bind", "scoped"} /\ Faults
       \/ launch[j] = "ready"
    /\ Finalize(j, IF killed[j] THEN "never_killed" ELSE "never_exited", TRUE)
    /\ rejected' = [rejected EXCEPT ![j] = @ \/ ~killed[j]]
    /\ launch' = [launch EXCEPT ![j] = "finalize"]
    /\ UNCHANGED <<disk, proc, up, jobs, state, killed, started, reaped, done, waiting,
                   submit, rec, sched, setup, history>>

\* The check of j.killed in the j.mu section around cmd.Start.
MayStart_Unchecked(j) == launch[j] = "ready"
MayStart(j) == launch[j] = "ready" /\ ~killed[j]

\* That section meets an accepted kill.
LaunchKilled(j) ==
    /\ launch[j] = "ready"
    /\ killed[j]
    /\ Finalize(j, "never_killed", TRUE)
    /\ launch' = [launch EXCEPT ![j] = "finalize"]
    /\ UNCHANGED <<disk, proc, up, jobs, state, flags, submit, rec, sched, setup, history>>

\* That section starts the process; the worker returns to
\* its loop and a wait goroutine owns the job.
StartProcess(j) ==
    /\ MayStart(j)
    /\ proc' = [proc EXCEPT ![j] = "alive"]
    /\ starts' = [starts EXCEPT ![j] = @ + 1]
    /\ started' = [started EXCEPT ![j] = TRUE]
    /\ state' = [state EXCEPT ![j] = "running"]
    /\ launch' = [launch EXCEPT ![j] = "wait"]
    /\ loops' = loops + 1
    /\ UNCHANGED <<disk, up, jobs, killed, reaped, rejected, done, waiting, submit, fin,
                   rec, verdict, scopeOK, finals, queue, running, draining, drains, setup,
                   arrivals, acked, crashes>>

----------------------------------------------------------------------------
(***************************************************************************)
(* The process and its wait goroutine.  The leader may leave descendants,  *)
(* which end by themselves or when the process scope is cleaned up.        *)
(***************************************************************************)
LeaderExit(j) ==
    /\ proc[j] = "alive"
    /\ \E p \in {"orphans", "gone"} : proc' = [proc EXCEPT ![j] = p]
    /\ UNCHANGED <<disk, up, jobs, state, flags, pcs, sched, setup, history>>

OrphansExit(j) ==
    /\ proc[j] = "orphans"
    /\ proc' = [proc EXCEPT ![j] = "gone"]
    /\ UNCHANGED <<disk, up, jobs, state, flags, pcs, sched, setup, history>>

\* cmd.Wait returns; transitionAfterProcessExit.
Reap(j) ==
    /\ launch[j] = "wait"
    /\ proc[j] # "alive"
    /\ reaped' = [reaped EXCEPT ![j] = TRUE]
    /\ launch' = [launch EXCEPT ![j] = "cleanup"]
    /\ UNCHANGED <<disk, proc, up, jobs, state, killed, started, rejected, done, waiting,
                   submit, fin, rec, verdict, scopeOK, finals, sched, setup, history>>

\* scope.cleanup kills what is left of the scope or fails, changes are
\* collected, and the finalizer takes over.  Only a job that was killed can
\* report that a signal ended it as "killed".
CleanupScope(j) ==
    /\ launch[j] = "cleanup"
    /\ \E ok \in {TRUE, ~Faults}, v \in Ran :
         /\ v = "ran_killed" => killed[j]
         /\ proc' = IF ok THEN [proc EXCEPT ![j] = "gone"] ELSE proc
         /\ Finalize(j, v, ok)
    /\ launch' = [launch EXCEPT ![j] = "idle"]
    /\ UNCHANGED <<disk, up, jobs, state, flags, submit, rec, sched, setup, history>>

(***************************************************************************)
(* finalizeWithScopeOutcome.  The order of the durable steps is workspace, *)
(* scope.json, result.json; the scope record is kept when the processes or *)
(* the workspace could not be removed.                                     *)
(***************************************************************************)
FinWorkspace_IgnoresScope(j) ==
    /\ fin[j] = "workspace"
    /\ \E ok \in {TRUE, ~Faults} :
         /\ wspace' = IF ok THEN [wspace EXCEPT ![j] = FALSE] ELSE wspace
         /\ fin' = [fin EXCEPT ![j] = IF ok THEN "scope" ELSE "result"]
    /\ UNCHANGED <<receipt, qmark, scope, result, proc, up, jobs, state, flags, submit,
                   launch, rec, verdict, scopeOK, finals, sched, setup, history>>

FinWorkspace(j) ==
    /\ fin[j] = "workspace"
    /\ \E ok \in {scopeOK[j], scopeOK[j] /\ ~Faults} :
         /\ wspace' = IF ok THEN [wspace EXCEPT ![j] = FALSE] ELSE wspace
         /\ fin' = [fin EXCEPT ![j] = IF ok THEN "scope" ELSE "result"]
    /\ UNCHANGED <<receipt, qmark, scope, result, proc, up, jobs, state, flags, submit,
                   launch, rec, verdict, scopeOK, finals, sched, setup, history>>

FinScope(j) ==
    /\ fin[j] = "scope"
    /\ \E ok \in {TRUE, ~Faults} :
         scope' = IF ok THEN [scope EXCEPT ![j] = FALSE] ELSE scope
    /\ fin' = [fin EXCEPT ![j] = "result"]
    /\ UNCHANGED <<receipt, qmark, wspace, result, proc, up, jobs, state, flags, submit,
                   launch, rec, verdict, scopeOK, finals, sched, setup, history>>

\* A failed write turns the published result into an ambiguous one, in memory.
ToPublish_AsIs(j, ok) == verdict[j]
ToPublish(j, ok) == IF ok THEN verdict[j] ELSE "ambiguous"

\* writeJSON refuses to replace an existing result.json.
FinResult(j) ==
    /\ fin[j] = "result"
    /\ \E ok \in {result[j] = "none", result[j] = "none" /\ ~Faults} :
         /\ result' = IF ok THEN [result EXCEPT ![j] = verdict[j]] ELSE result
         /\ verdict' = [verdict EXCEPT ![j] = ToPublish(j, ok)]
    /\ fin' = [fin EXCEPT ![j] = "publish"]
    /\ UNCHANGED <<receipt, qmark, scope, wspace, proc, up, jobs, state, flags, submit,
                   launch, rec, scopeOK, finals, sched, setup, history>>

FinPublish(j) ==
    /\ fin[j] = "publish"
    /\ state' = [state EXCEPT ![j] = StateOf(verdict[j])]
    /\ fin' = [fin EXCEPT ![j] = "release"]
    /\ UNCHANGED <<disk, proc, up, jobs, flags, submit, launch, rec, verdict, scopeOK,
                   finals, sched, setup, history>>

\* close(j.done), release: the reservation is given back and drainQueue called.
\* A drain worker that ran the finalizer goes back to its loop.
FinRelease_LeavesDone(j) ==
    /\ fin[j] = "release"
    /\ running' = running \ {j}
    /\ queue' = Without(queue, j)
    /\ drains' = drains + 1
    /\ fin' = [fin EXCEPT ![j] = "idle"]
    /\ launch' = [launch EXCEPT ![j] = "idle"]
    /\ verdict' = [verdict EXCEPT ![j] = "none"]
    /\ scopeOK' = [scopeOK EXCEPT ![j] = TRUE]
    /\ loops' = IF launch[j] = "finalize" THEN loops + 1 ELSE loops
    /\ UNCHANGED <<disk, proc, up, jobs, state, flags, submit, rec, finals, draining, setup,
                   history>>

FinRelease(j) ==
    /\ fin[j] = "release"
    /\ done' = [done EXCEPT ![j] = TRUE]
    /\ running' = running \ {j}
    /\ queue' = Without(queue, j)
    /\ drains' = drains + 1
    /\ fin' = [fin EXCEPT ![j] = "idle"]
    /\ launch' = [launch EXCEPT ![j] = "idle"]
    /\ verdict' = [verdict EXCEPT ![j] = "none"]
    /\ scopeOK' = [scopeOK EXCEPT ![j] = TRUE]
    /\ loops' = IF launch[j] = "finalize" THEN loops + 1 ELSE loops
    /\ UNCHANGED <<disk, proc, up, jobs, state, killed, started, reaped, rejected, waiting,
                   submit, rec, finals, draining, setup, history>>

----------------------------------------------------------------------------
(***************************************************************************)
(* Control requests.  cancelBeforeStart accepts a kill or a signal for any *)
(* job that has not started: a queued job leaves the queue and is settled  *)
(* by the request itself, any other is settled by the goroutine that owns  *)
(* it.  The request then waits for j.done.                                 *)
(***************************************************************************)
OwnsQueued_ByState(j) == state[j] = "queued"
OwnsQueued(j) == state[j] = "queued" /\ In(j, queue)

CancelBeforeStart(j) ==
    /\ up = "serving" /\ j \in jobs
    /\ ~Settled(j) /\ ~reaped[j] /\ ~rejected[j] /\ ~started[j]
    /\ killed' = [killed EXCEPT ![j] = TRUE]
    /\ waiting' = [waiting EXCEPT ![j] = TRUE]
    /\ IF OwnsQueued(j)
       THEN queue' = Without(queue, j) /\ Finalize(j, "never_killed", TRUE)
       ELSE UNCHANGED queue /\ NoFinalize
    /\ UNCHANGED <<disk, proc, up, jobs, state, started, reaped, rejected, done, submit,
                   launch, rec, running, draining, loops, drains, setup, history>>

\* The waiting request answers 204, or its client went away.
CancelReturn(j) ==
    /\ waiting[j]
    /\ \/ done[j] /\ acked' = [acked EXCEPT ![j] = TRUE]
       \/ UNCHANGED acked
    /\ waiting' = [waiting EXCEPT ![j] = FALSE]
    /\ UNCHANGED <<disk, proc, up, jobs, state, killed, started, reaped, rejected, done,
                   pcs, sched, setup, starts, arrivals, crashes>>

\* terminate: a kill request, the runtime timer or the log limit of a running
\* job.  (Signal to a running job records nothing: the process may just exit.)
Terminate(j) ==
    /\ started[j] /\ ~reaped[j] /\ ~Settled(j) /\ ~rejected[j]
    /\ ~killed[j]
    /\ killed' = [killed EXCEPT ![j] = TRUE]
    /\ UNCHANGED <<disk, proc, up, jobs, state, started, reaped, rejected, done, waiting,
                   pcs, sched, setup, history>>

(***************************************************************************)
(* Setup takes a quiesce lease when no job is queued or running and no     *)
(* workspace transfer is in progress; while it holds, admissions and       *)
(* transfers are refused.  It ends by release or by expiry.                *)
(***************************************************************************)
Quiesce ==
    /\ up = "serving"
    /\ ~quiesced
    /\ queue = <<>> /\ running = {} /\ transfers = 0
    /\ quiesced' = TRUE
    /\ UNCHANGED <<disk, proc, up, jobs, state, flags, pcs, sched, transfers, history>>

QuiesceEnd ==
    /\ quiesced
    /\ quiesced' = FALSE
    /\ UNCHANGED <<disk, proc, up, jobs, state, flags, pcs, sched, transfers, history>>

TransferBegin_DuringSetup ==
    /\ up = "serving"
    /\ transfers < MaxTransfers
    /\ transfers' = transfers + 1
    /\ UNCHANGED <<disk, proc, up, jobs, state, flags, pcs, sched, quiesced, history>>

TransferBegin ==
    /\ up = "serving"
    /\ ~quiesced
    /\ transfers < MaxTransfers
    /\ transfers' = transfers + 1
    /\ UNCHANGED <<disk, proc, up, jobs, state, flags, pcs, sched, quiesced, history>>

TransferEnd ==
    /\ transfers > 0
    /\ transfers' = transfers - 1
    /\ UNCHANGED <<disk, proc, up, jobs, state, flags, pcs, sched, quiesced, history>>

----------------------------------------------------------------------------
(***************************************************************************)
(* A crash (or a restart by setup) loses the memory and every goroutine;   *)
(* the processes of running jobs live on.                                  *)
(***************************************************************************)
Crash ==
    /\ up # "down"
    /\ crashes < MaxCrashes
    /\ crashes' = crashes + 1
    /\ up' = "down"
    /\ jobs' = {} /\ state' = All("none")
    /\ queue' = <<>> /\ running' = {} /\ draining' = FALSE /\ loops' = 0 /\ drains' = 0
    /\ killed' = All(FALSE) /\ started' = All(FALSE) /\ reaped' = All(FALSE)
    /\ rejected' = All(FALSE) /\ done' = All(FALSE) /\ waiting' = All(FALSE)
    /\ submit' = All("idle") /\ launch' = All("idle") /\ fin' = All("idle")
    /\ rec' = All("idle") /\ verdict' = All("none") /\ scopeOK' = All(TRUE)
    /\ finals' = All(0)
    /\ quiesced' = FALSE /\ transfers' = 0
    /\ arrivals' = <<>>
    /\ UNCHANGED <<disk, proc, starts, acked>>

\* New: every receipt directory is loaded before the daemon serves.
Restart ==
    /\ up = "down"
    /\ up' = "recovering"
    /\ rec' = [j \in Jobs |-> IF receipt[j] = "none" THEN "idle" ELSE "load"]
    /\ UNCHANGED <<disk, proc, jobs, state, flags, submit, launch, fin, verdict, scopeOK,
                   finals, sched, setup, history>>

Serve ==
    /\ up = "recovering"
    /\ \A j \in Jobs : rec[j] = "idle"
    /\ up' = "serving"
    /\ UNCHANGED <<disk, proc, jobs, state, flags, pcs, sched, setup, history>>

(***************************************************************************)
(* loadExisting, one receipt after the other.  A readable receipt with a   *)
(* result is published as it is, after another cleanup if a scope record   *)
(* is left.  Without a result, queued.json without scope.json means that   *)
(* the job cannot have run; everything else is ambiguous.                  *)
(***************************************************************************)
QueuedWithoutScope_NoMarker(j) == ~scope[j]
QueuedWithoutScope(j) == qmark[j] /\ ~scope[j]  \* persistedQueuedWithoutScope

Load(j) ==
    /\ rec[j] = "load"
    /\ \A k \in Jobs \ {j} : rec[k] \in {"idle", "load"}
    /\ rec' = [rec EXCEPT ![j] =
                 IF receipt[j] = "ok" /\ result[j] # "none" /\ ~scope[j] THEN "conclude"
                 ELSE IF receipt[j] = "ok" /\ result[j] = "none" /\ QueuedWithoutScope(j)
                      THEN "queued" ELSE "kill"]
    /\ UNCHANGED <<disk, proc, up, jobs, state, flags, submit, launch, fin, verdict,
                   scopeOK, finals, sched, setup, history>>

\* j becomes known to the new daemon with state s.
Register(j, s) ==
    /\ jobs' = jobs \cup {j}
    /\ state' = [state EXCEPT ![j] = s]
    /\ done' = [done EXCEPT ![j] = TRUE]
    /\ rec' = [rec EXCEPT ![j] = "idle"]

\* reconcileQueued: the marker stays, so that a crash before the result is
\* written repeats this step and not the ambiguous one.
ReconcileQueuedClean(j) ==
    /\ rec[j] = "queued"
    /\ \E ok \in {TRUE, ~Faults} :
         wspace' = IF ok THEN [wspace EXCEPT ![j] = FALSE] ELSE wspace
    /\ rec' = [rec EXCEPT ![j] = "settle"]
    /\ UNCHANGED <<receipt, qmark, scope, result, proc, up, jobs, state, flags, submit,
                   launch, fin, verdict, scopeOK, finals, sched, setup, history>>

ReconcileQueued(j) ==
    /\ rec[j] = "settle"
    /\ \E ok \in {TRUE, ~Faults} :
         /\ result' = IF ok THEN [result EXCEPT ![j] = "never_exited"] ELSE result
         /\ Register(j, IF ok THEN "exited" ELSE "ambiguous")
    /\ UNCHANGED <<receipt, qmark, scope, wspace, proc, up, killed, started, reaped,
                   rejected, waiting, submit, launch, fin, verdict, scopeOK, finals,
                   sched, setup, history>>

(***************************************************************************)
(* cleanupPersistedRuntime: survivors of a recorded scope, workspace,      *)
(* queued.json, and scope.json last; it gives up at the first failure.     *)
(***************************************************************************)
RecoverKill(j) ==
    /\ rec[j] = "kill"
    /\ IF scope[j]
       THEN \E ok \in {TRUE, ~Faults} :
              /\ proc' = IF ok /\ proc[j] # "none" THEN [proc EXCEPT ![j] = "gone"] ELSE proc
              /\ rec' = [rec EXCEPT ![j] = IF ok THEN "workspace" ELSE "conclude"]
       ELSE UNCHANGED proc /\ rec' = [rec EXCEPT ![j] = "workspace"]
    /\ UNCHANGED <<disk, up, jobs, state, flags, submit, launch, fin, verdict, scopeOK,
                   finals, sched, setup, history>>

RecoverWorkspace(j) ==
    /\ rec[j] = "workspace"
    /\ \E ok \in {TRUE, ~Faults} :
         /\ wspace' = IF ok THEN [wspace EXCEPT ![j] = FALSE] ELSE wspace
         /\ rec' = [rec EXCEPT ![j] = IF ok THEN "unmark" ELSE "conclude"]
    /\ UNCHANGED <<receipt, qmark, scope, result, proc, up, jobs, state, flags, submit,
                   launch, fin, verdict, scopeOK, finals, sched, setup, history>>

RecoverUnmark(j) ==
    /\ rec[j] = "unmark"
    /\ \E ok \in {TRUE, ~Faults} :
         /\ qmark' = IF ok THEN [qmark EXCEPT ![j] = FALSE] ELSE qmark
         /\ rec' = [rec EXCEPT ![j] = IF ok THEN "unscope" ELSE "conclude"]
    /\ UNCHANGED <<receipt, scope, wspace, result, proc, up, jobs, state, flags, submit,
                   launch, fin, verdict, scopeOK, finals, sched, setup, history>>

RecoverUnscope(j) ==
    /\ rec[j] = "unscope"
    /\ \E ok \in {TRUE, ~Faults} :
         scope' = IF ok THEN [scope EXCEPT ![j] = FALSE] ELSE scope
    /\ rec' = [rec EXCEPT ![j] = "conclude"]
    /\ UNCHANGED <<receipt, qmark, wspace, result, proc, up, jobs, state, flags, submit,
                   launch, fin, verdict, scopeOK, finals, sched, setup, history>>

\* What the receipt says after cleanup: an unreadable one is ambiguous in
\* memory (isolateUnreadableReceipt), a settled one keeps its result
\* (reconcileSettledCleanup), an unfinished one is settled as ambiguous
\* (reconcileUnfinished), in memory only if the write fails.
Conclude(j) ==
    /\ rec[j] = "conclude"
    /\ IF receipt[j] = "ok" /\ result[j] = "none"
       THEN \E ok \in {TRUE, ~Faults} :
              result' = IF ok THEN [result EXCEPT ![j] = "ambiguous"] ELSE result
       ELSE UNCHANGED result
    /\ Register(j, IF receipt[j] = "ok" /\ result[j] # "none" THEN StateOf(result[j])
                   ELSE "ambiguous")
    /\ UNCHANGED <<receipt, qmark, scope, wspace, proc, up, killed, started, reaped,
                   rejected, waiting, submit, launch, fin, verdict, scopeOK, finals,
                   sched, setup, history>>

----------------------------------------------------------------------------
Submitting(j) == \/ StageBegin(j) \/ StageFail(j) \/ StageEnd(j) \/ WriteQueued(j)
                 \/ WriteQueuedFail(j) \/ CommitQueued(j) \/ AbortTear(j)
                 \/ AbortClean(j) \/ AbortCleanFail(j) \/ AbortForget(j)
                 \/ AbortRetain(j) \/ AbortRecord(j)
Launching(j)  == \/ WriteScope(j) \/ ConsumeQueued(j) \/ LaunchFail(j)
                 \/ LaunchKilled(j) \/ StartProcess(j) \/ Reap(j) \/ CleanupScope(j)
Finalizing(j) == \/ FinWorkspace(j) \/ FinScope(j) \/ FinResult(j) \/ FinPublish(j)
                 \/ FinRelease(j)
Scheduling    == DrainQueue \/ RunQueueStop \/ RunQueueTake
Recovering(j) == \/ Load(j) \/ ReconcileQueuedClean(j) \/ ReconcileQueued(j)
                 \/ RecoverKill(j) \/ RecoverWorkspace(j) \/ RecoverUnmark(j)
                 \/ RecoverUnscope(j) \/ Conclude(j)
Controlling(j) == CancelBeforeStart(j) \/ CancelReturn(j) \/ Terminate(j)

Next ==
    \/ \E j \in Jobs : \/ Admit(j) \/ Submitting(j) \/ Launching(j) \/ Finalizing(j)
                       \/ Controlling(j) \/ Recovering(j)
                       \/ LeaderExit(j) \/ OrphansExit(j)
    \/ Scheduling
    \/ Quiesce \/ QuiesceEnd \/ TransferBegin \/ TransferEnd
    \/ Crash \/ Restart \/ Serve

Spec == Init /\ [][Next]_vars

(***************************************************************************)
(* Every goroutine keeps running while the daemon is up; a stopped daemon  *)
(* is restarted by its service manager; a process ends because the runtime *)
(* timer of launch kills it, and the HTTP read timeout ends a stalled      *)
(* upload.  Nothing obliges a client to submit, to cancel or to quiesce.   *)
(***************************************************************************)
Fairness ==
    /\ \A j \in Jobs : /\ WF_vars(Submitting(j)) /\ WF_vars(Launching(j))
                       /\ WF_vars(Finalizing(j)) /\ WF_vars(Recovering(j))
                       /\ WF_vars(LeaderExit(j))
    /\ WF_vars(DrainQueue) /\ WF_vars(RunQueueStop \/ RunQueueTake)
    /\ WF_vars(Restart) /\ WF_vars(Serve)

FairSpec == Spec /\ Fairness

----------------------------------------------------------------------------
SubmitPC == {"idle", "stage", "extract", "staged", "marked", "abort", "forget",
             "retain", "record"}
LaunchPC == {"idle", "bind", "scoped", "ready", "finalize", "wait", "cleanup"}
FinPC    == {"idle", "workspace", "scope", "result", "publish", "release"}
RecPC    == {"idle", "load", "queued", "settle", "kill", "workspace", "unmark",
             "unscope", "conclude"}

\* Types of all variables.
TypeOK ==
    /\ receipt \in [Jobs -> {"none", "ok", "torn"}]
    /\ qmark \in [Jobs -> BOOLEAN] /\ scope \in [Jobs -> BOOLEAN]
    /\ wspace \in [Jobs -> BOOLEAN]
    /\ result \in [Jobs -> Verdicts \cup {"none"}]
    /\ proc \in [Jobs -> {"none", "alive", "orphans", "gone"}]
    /\ up \in {"down", "recovering", "serving"}
    /\ jobs \subseteq Jobs
    /\ state \in [Jobs -> States]
    /\ queue \in Seq(Jobs) /\ running \subseteq Jobs
    /\ draining \in BOOLEAN /\ loops \in Nat /\ drains \in Nat
    /\ killed \in [Jobs -> BOOLEAN] /\ started \in [Jobs -> BOOLEAN]
    /\ reaped \in [Jobs -> BOOLEAN] /\ rejected \in [Jobs -> BOOLEAN]
    /\ done \in [Jobs -> BOOLEAN] /\ waiting \in [Jobs -> BOOLEAN]
    /\ submit \in [Jobs -> SubmitPC] /\ launch \in [Jobs -> LaunchPC]
    /\ fin \in [Jobs -> FinPC] /\ rec \in [Jobs -> RecPC]
    /\ verdict \in [Jobs -> Verdicts \cup {"none"}]
    /\ scopeOK \in [Jobs -> BOOLEAN] /\ finals \in [Jobs -> Nat]
    /\ quiesced \in BOOLEAN /\ transfers \in Nat
    /\ starts \in [Jobs -> Nat] /\ arrivals \in Seq(Jobs)
    /\ acked \in [Jobs -> BOOLEAN] /\ crashes \in Nat

\* A job's command is started at most once, whatever crashes, restarts,
\* cancellations and resubmissions of its id happen (loadExisting: "never
\* replayed").
AtMostOnce == \A j \in Jobs : starts[j] <= 1

\* A durable result tells the truth about execution: "never started" is only
\* written for a job of which no process was or will be started, "started" only
\* for one that was.
ResultTruthful ==
    \A j \in Jobs : /\ result[j] \in NeverRan => starts[j] = 0
                    /\ result[j] \in Ran => starts[j] = 1

\* The evidence recovery decides on is never misleading: after a process was
\* started there is no moment, crash or not, at which an unsettled receipt holds
\* queued.json without scope.json (the comment in cleanupPersistedRuntime).
QueuedEvidenceSound ==
    \A j \in Jobs :
        receipt[j] = "ok" /\ result[j] = "none" /\ qmark[j] /\ ~scope[j] => starts[j] = 0

\* Whatever may still run can be found: as long as a process of a job's scope
\* may be alive, its scope record and the workspace are on disk, so that the
\* next daemon can locate and kill it.
SurvivorsLocatable ==
    \A j \in Jobs : proc[j] \in {"alive", "orphans"} => scope[j] /\ wspace[j]

\* A cancellation before start that was answered with success is final: the
\* command never runs, not even after a restart.
CancelledNeverRuns == \A j \in Jobs : acked[j] => starts[j] = 0

\* finalize is entered at most once per job: cancellation, drain worker, submit
\* handler and wait goroutine never settle the same job twice, although each
\* may do it.
SettledOnce == \A j \in Jobs : finals[j] <= 1

\* A terminal state other than ambiguous is only shown to clients when the same
\* result is on disk, so it survives a restart.
PublishedIsDurable ==
    \A j \in Jobs : state[j] \in {"exited", "killed"} =>
        /\ result[j] # "none"
        /\ StateOf(result[j]) = state[j]

\* The running slots bound what runs: every job between being taken from the
\* queue and the end of its settlement holds one of at most MaxJobs slots, and
\* reservations never exceed running plus queue capacity.
SlotsBound ==
    /\ \A j \in Jobs : launch[j] # "idle" => j \in running
    /\ Cardinality(running) <= MaxJobs
    /\ Cardinality(running) + Len(queue) <= MaxJobs + MaxQueued

\* One drain worker at a time: draining is set exactly while a single goroutine
\* is in runQueue, at its loop or inside a launch.
SingleWorker ==
    loops + Cardinality({j \in Jobs : launch[j] \in {"bind", "scoped", "ready", "finalize"}})
        = IF draining THEN 1 ELSE 0

\* No lost wakeup: when the head of the queue could be launched, some goroutine
\* is draining, is about to call drainQueue, or is settling a job whose release
\* will call it.
NoLostWakeup ==
    CanTake => \/ draining
               \/ drains > 0
               \/ \E j \in Jobs : fin[j] # "idle" \/ submit[j] = "record"

\* While setup holds the runner, no transfer is in progress, no job is staged,
\* launched or running, and none can become so: what is left is the rest of a
\* settlement that gave its reservation back early.
QuiescedIsIdle ==
    quiesced => /\ queue = <<>> /\ running = {} /\ transfers = 0
                /\ \A j \in Jobs : /\ launch[j] = "idle"
                                   /\ submit[j] \in {"idle", "record"}
                                   /\ fin[j] # "idle" => verdict[j] \in {"never_killed", "ambiguous"}

\* The scheduler's bookkeeping is sound: slots, the one drain worker and the quiet
\* runner, under cancellations, setup, transfers and settlements side by side.
SchedulerSound == TypeOK /\ SlotsBound /\ SingleWorker /\ QuiescedIsIdle

\* Process starts follow the admission order: no job is started after a job that
\* was admitted later to the same daemon ("the single drain worker, which
\* preserves process-start order").
StartsInOrder ==
    [][\A j, k \in Jobs : starts'[j] # starts[j] /\ Before(j, k) => starts[k] = 0]_vars

\* result.json is written once: no step, no recovery and no later daemon
\* replaces it ("immutable terminal result").
ResultImmutable ==
    [][\A j \in Jobs : result[j] # "none" => result'[j] = result[j]]_vars

\* Every admitted job is settled or rolled back in the end, over crashes and
\* behind any other job: nothing waits for ever.
EventuallySettled ==
    \A j \in Jobs : (j \in jobs \/ receipt[j] # "none")
                       ~> (Settled(j) \/ (j \notin jobs /\ receipt[j] = "none"))

\* A control request that was accepted before start is answered in the end,
\* provided the daemon does not crash: its j.done is closed.
CancelAnswered == \A j \in Jobs : waiting[j] ~> (done[j] \/ ~waiting[j])

\* cancelBeforeStart says: "A successful return means the killed receipt is
\* durable, not merely that staging stopped."
AckedKillDurable == \A j \in Jobs : acked[j] => result[j] = "never_killed"

\* Whoever settles a job that is being cancelled (the control request, the submit
\* handler of a failing upload, the drain worker) is the only one to do so, and the
\* request is answered with success only over a killed receipt on disk.  The second
\* part needs a result.json that can be written: see job.go:1091.
CancelSettles == SettledOnce /\ AckedKillDurable

(***************************************************************************)
(* The runner keeps the contract of JobContract: the started commands and  *)
(* the receipts' results are its state.                                    *)
(***************************************************************************)
Contract == INSTANCE JobContract WITH
    ran <- {j \in Jobs : starts[j] > 0}, recorded <- result,
    Ambiguous <- "ambiguous", Undecided <- "none"

\* Every behaviour of the runner, crashes included, is one the contract allows.
KeepsContract == Contract!Spec
=============================================================================
