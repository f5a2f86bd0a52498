--------------------------- MODULE ClientChanges ---------------------------
(***************************************************************************)
(* The client's side of a job's workspace changes: the local record of     *)
(* each submitted job (jobs/<key>.json), the staged download, the apply    *)
(* transaction in the workspace, the detached automatic-apply worker,      *)
(* explicit `fetch --apply`, local collection (`gc changes`) and the       *)
(* inspection behind `ps`, `status` and `doctor`.                          *)
(*                                                                         *)
(* Every process is one invocation of the executable.  A record is read    *)
(* and rewritten as a whole file, and a process may do so holding the      *)
(* job's transfer lock, the workspace lock, or both: a read-modify-write   *)
(* that holds both is one step here, one that holds a single lock is two.  *)
(* All jobs share one workspace root.  A job's change bundle is one        *)
(* selected path; `full` says whether the selection covers the bundle.     *)
(* The journal's recovery is atomic here: ApplyJournal models it.          *)
(***************************************************************************)
EXTENDS Naturals, FiniteSets

CONSTANTS ChJobs,      \* submitted jobs
          AutoJobs,    \* those submitted with --apply
          SharedJobs,  \* those that ran in a persistent workspace
          ChProcs,     \* slots for concurrently running client processes
          MaxChCrash,  \* bound: processes killed
          MaxChEdit,   \* bound: edits by the user per path
          MaxFetch,    \* bound: explicit fetch --apply commands per job
          MaxLook      \* bound: inspections and collections, together

NoProc == "nobody"

ASSUME ChangesAssumption ==
    /\ NoProc \notin ChProcs
    /\ AutoJobs \subseteq ChJobs /\ SharedJobs \subseteq ChJobs
    /\ MaxChCrash \in Nat /\ MaxChEdit \in Nat /\ MaxFetch \in Nat /\ MaxLook \in Nat

VARIABLES rec,      \* the job's local record, or NoRec
          remote,   \* the job on its runner
          file,     \* the changed path in the workspace
          txn,      \* the job's apply transaction in the workspace
          staged,   \* is the bundle in downloads/<key>?
          age,      \* age of the newest of record and download
          pr,       \* the running processes
          wsl,      \* holder of the workspace lock
          xfer,     \* holder of the job's transfer lock
          autol,    \* holder of the job's automatic-apply lock
          lease,    \* holder of the job's worker lease
          merges,   \* ghost: times the bundle was merged into the workspace
          torn,     \* ghost: a save overwrote a record newer than its copy
          done,     \* ghost: a complete fetch --apply of an --apply job succeeded
          told,     \* ghost: inspections that reported needs_recovery wrongly
          used      \* consumed bounds

chvars == <<rec, remote, file, txn, staged, age, pr, wsl, xfer, autol, lease,
            merges, torn, done, told, used>>
locks == <<wsl, xfer, autol, lease>>
ghosts == <<merges, torn, done, told>>

NoRec == [started |-> FALSE, confirmed |-> FALSE, terminal |-> FALSE, applied |-> FALSE,
          pend |-> FALSE, auto |-> "absent"]
Idle == [pc |-> "idle"]
Unfinished == {"pending", "running"}
FinishedSet == {"applied", "no_changes", "skipped", "failed"}
TerminalSet == {"changes", "empty", "failed"}

automaticApplyFinished(a) == a \in FinishedSet

Record == [started: BOOLEAN, confirmed: BOOLEAN, terminal: BOOLEAN, applied: BOOLEAN,
           pend: BOOLEAN, auto: Unfinished \cup FinishedSet \cup {"off"}]

ChInit ==
    /\ rec = [j \in ChJobs |-> NoRec]
    /\ remote = [j \in ChJobs |-> "unsent"]
    /\ file = [j \in ChJobs |-> "base"]
    /\ txn = [j \in ChJobs |-> "none"]
    /\ staged = [j \in ChJobs |-> FALSE]
    /\ age = [j \in ChJobs |-> 0]
    /\ pr = [p \in ChProcs |-> Idle]
    /\ wsl = NoProc
    /\ xfer = [j \in ChJobs |-> NoProc]
    /\ autol = [j \in ChJobs |-> NoProc]
    /\ lease = [j \in ChJobs |-> NoProc]
    /\ merges = [j \in ChJobs |-> 0]
    /\ torn = [j \in ChJobs |-> FALSE]
    /\ done = [j \in ChJobs |-> FALSE]
    /\ told = FALSE
    /\ used = [crash |-> 0, edit |-> [j \in ChJobs |-> 0], fetch |-> [j \in ChJobs |-> 0], look |-> 0]

-----------------------------------------------------------------------------
(* Processes.  A process works for one job; `copy` is a record it read and *)
(* will write back, `mine` the one applyWorkspaceJob keeps meanwhile, `k`  *)
(* the job whose transaction it recovers, `todo` the records still to      *)
(* visit, `out` the outcome it is recording, `nxt` where it resumes.       *)

Spawn(role, j, pc, full) ==
    [pc |-> pc, role |-> role, job |-> j, full |-> full, copy |-> NoRec, mine |-> NoRec,
     k |-> j, todo |-> {}, out |-> "none", nxt |-> "none"]

At(p, pc) == pr[p].pc = pc
Job(p) == pr[p].job
Go(p, pc) == pr' = [pr EXCEPT ![p].pc = pc]
Stop(p) == pr' = [pr EXCEPT ![p] = Idle]

Without(p, held) == [j \in ChJobs |-> IF held[j] = p THEN NoProc ELSE held[j]]

\* The deferred unlocks of a process that returns, or the kernel's of one that dies.
ReleaseAll(p) ==
    /\ wsl' = IF wsl = p THEN NoProc ELSE wsl
    /\ xfer' = Without(p, xfer)
    /\ autol' = Without(p, autol)
    /\ lease' = Without(p, lease)

Exit(p) == Stop(p) /\ ReleaseAll(p)

\* saveLocalChangeState: write, sync and rename the whole record, which makes it new.
Save(j, r) == rec' = [rec EXCEPT ![j] = r] /\ age' = [age EXCEPT ![j] = 0]

\* Both locks: no other process can write the job's record meanwhile.
BothFree(p, j) == wsl = NoProc /\ xfer[j] \in {NoProc, p}

\* A save of a copy read earlier under one lock, or none, may undo another's.
SaveStale(j, read, r) == Save(j, r) /\ torn' = [torn EXCEPT ![j] = @ \/ rec[j] # read]

-----------------------------------------------------------------------------
(* errand run: the record before, during and after the submission          *)

NewRecord(j) ==
    [started |-> FALSE, confirmed |-> FALSE, terminal |-> FALSE, applied |-> FALSE, pend |-> FALSE,
     auto |-> IF j \in AutoJobs THEN "pending" ELSE "off"]

\* A workspace with an interrupted application refuses the run.
initializeChangeState(p, j) ==
    /\ pr[p] = Idle /\ rec[j] = NoRec /\ remote[j] = "unsent" /\ wsl = NoProc
    /\ \A k \in ChJobs: txn[k] = "none"
    /\ \A q \in ChProcs: pr[q] # Idle => Job(q) # j
    /\ Save(j, NewRecord(j))
    /\ pr' = [pr EXCEPT ![p] = Spawn("run", j, "mark", TRUE)]
    /\ UNCHANGED <<remote, file, txn, staged, locks, ghosts, used>>

markLocalChangeSubmissionStarted(p) ==
    LET j == Job(p) IN
    /\ At(p, "mark") /\ BothFree(p, j)
    /\ IF rec[j] = NoRec THEN Stop(p) /\ UNCHANGED <<rec, age>>
       ELSE Go(p, "submit") /\ Save(j, [rec[j] EXCEPT !.started = TRUE])
    /\ UNCHANGED <<remote, file, txn, staged, locks, ghosts, used>>

\* Interrupted before the submission, or definitely rejected by the runner.
discardUnsubmittedChangeState(p) ==
    LET j == Job(p) IN
    /\ pr[p].pc \in {"mark", "submit"} /\ BothFree(p, j)
    /\ IF rec[j] = NoRec \/ rec[j].terminal \/ rec[j].pend \/ rec[j].applied
       THEN UNCHANGED rec
       ELSE rec' = [rec EXCEPT ![j] = NoRec]
    /\ remote' = [remote EXCEPT ![j] = "refused"]
    /\ Stop(p)
    /\ UNCHANGED <<file, txn, staged, age, locks, ghosts, used>>

\* The answer may be lost, with the job admitted or not: the worker is to find out.
submit(p) ==
    LET j == Job(p)
        certain == IF j \in AutoJobs THEN "confirm" ELSE "stream"
        unsure == IF j \in AutoJobs THEN "handoff_last" ELSE "leave" IN
    /\ At(p, "submit")
    /\ \/ Go(p, certain) /\ remote' = [remote EXCEPT ![j] = "live"]
       \/ Go(p, unsure) /\ remote' \in {[remote EXCEPT ![j] = "live"], [remote EXCEPT ![j] = "refused"]}
    /\ UNCHANGED <<rec, file, txn, staged, age, locks, ghosts, used>>

\* A run that follows no further: detached, or its log stream failed.
LeaveRun(p) ==
    /\ pr[p].pc \in {"leave", "stream"} /\ pr[p].role = "run"
    /\ Exit(p)
    /\ UNCHANGED <<rec, remote, file, txn, staged, age, ghosts, used>>

(* A read-modify-write under the transfer lock alone, in two steps:        *)
(* recordAutomaticApply (out is the outcome) and                           *)
(* markLocalChangeAdmissionConfirmed (out = "confirm").                    *)
TransferLoad(p, pc, out, nxt) ==
    LET j == Job(p) IN
    /\ xfer[j] \in {NoProc, p}
    /\ IF rec[j] = NoRec
       THEN Exit(p)
       ELSE /\ pr' = [pr EXCEPT ![p] = [@ EXCEPT !.pc = "save", !.out = out, !.nxt = nxt, !.copy = rec[j]]]
            /\ xfer' = [xfer EXCEPT ![j] = p]
            /\ UNCHANGED <<wsl, autol, lease>>

Recorded(r, out) ==
    IF out = "confirm" THEN [r EXCEPT !.confirmed = TRUE]
    ELSE IF automaticApplyFinished(r.auto) THEN r ELSE [r EXCEPT !.auto = out]

\* An unchanged record is not written again.
TransferSave(p) ==
    LET j == Job(p)
        r == Recorded(pr[p].copy, pr[p].out) IN
    /\ At(p, "save")
    /\ IF r = pr[p].copy THEN UNCHANGED <<rec, age, torn>> ELSE SaveStale(j, pr[p].copy, r)
    /\ IF pr[p].nxt = "exit"
       THEN Exit(p)
       ELSE /\ pr' = [pr EXCEPT ![p] = [@ EXCEPT !.pc = pr[p].nxt, !.copy = NoRec, !.out = "none", !.nxt = "none"]]
            /\ xfer' = [xfer EXCEPT ![j] = NoProc]
            /\ autol' = [autol EXCEPT ![j] = IF @ = p /\ pr[p].nxt = "poll" THEN NoProc ELSE @]
            /\ UNCHANGED <<wsl, lease>>
    /\ UNCHANGED <<remote, file, txn, staged, merges, done, told, used>>

confirmAutomaticApplyAdmission(p) ==
    /\ At(p, "confirm")
    /\ TransferLoad(p, "confirm", "confirm", "handoff")
    /\ UNCHANGED <<rec, remote, file, txn, staged, age, ghosts, used>>

\* Start a detached worker; when that fails, the apply is recorded as pending.
handoffAutomaticApply(p) ==
    LET after == IF At(p, "handoff") THEN "stream" ELSE "leave" IN
    /\ pr[p].pc \in {"handoff", "handoff_last"}
    /\ \/ \E w \in ChProcs:
            /\ pr[w] = Idle
            /\ pr' = [pr EXCEPT ![w] = Spawn("worker", Job(p), "start", TRUE), ![p].pc = after]
            /\ UNCHANGED locks
       \/ TransferLoad(p, "handoff", "pending", after)
    /\ UNCHANGED <<rec, remote, file, txn, staged, age, ghosts, used>>

\* markLocalChangeTerminal, by whoever learnt that the job has ended.
markLocalChangeTerminal(p, nxt) ==
    LET j == Job(p) IN
    /\ BothFree(p, j) /\ Go(p, nxt)
    /\ IF rec[j] = NoRec \/ rec[j].terminal
       THEN UNCHANGED <<rec, age>>
       ELSE Save(j, [rec[j] EXCEPT !.terminal = TRUE])
    /\ UNCHANGED <<remote, file, txn, staged, locks, ghosts, used>>

finishTerminalChanges(p) ==
    /\ At(p, "stream") /\ remote[Job(p)] \in TerminalSet
    /\ markLocalChangeTerminal(p, IF Job(p) \in AutoJobs THEN "auto" ELSE "leave")

-----------------------------------------------------------------------------
(* The detached worker                                                     *)

\* An exclusive lease on a file that keeps its inode; inspectors only delay it.
tryAcquireLocalChangeLease(j) == lease[j] = NoProc

RunAutomaticApplyWorker(p) ==
    LET j == Job(p) IN
    /\ At(p, "start")
    /\ IF tryAcquireLocalChangeLease(j)
       THEN Go(p, "poll") /\ lease' = [lease EXCEPT ![j] = p] /\ UNCHANGED <<wsl, xfer, autol>>
       ELSE Stop(p) /\ UNCHANGED locks
    /\ UNCHANGED <<rec, remote, file, txn, staged, age, ghosts, used>>

\* The record is read without a lock.  A transient error only waits for the next poll.
WorkerPoll(p) ==
    LET j == Job(p)
        r == rec[j] IN
    /\ At(p, "poll")
    /\ \/ /\ r = NoRec \/ automaticApplyFinished(r.auto)
          /\ Exit(p)
       \/ /\ r # NoRec /\ ~automaticApplyFinished(r.auto)
          /\ \/ /\ remote[j] \in TerminalSet \cup {"live"} /\ ~r.confirmed
                /\ TransferLoad(p, "poll", "confirm", "poll")
             \/ /\ remote[j] \in TerminalSet /\ r.confirmed
                /\ Go(p, "auto") /\ UNCHANGED locks
             \/ /\ remote[j] \in {"gone", "refused"} /\ r.confirmed
                /\ TransferLoad(p, "poll", "failed", "exit")
             \/ TransferLoad(p, "poll", "pending", "exit")   \* the deadline has passed
    /\ UNCHANGED <<rec, remote, file, txn, staged, age, ghosts, used>>

applyTerminalAutomatically(p) ==
    LET j == Job(p) IN
    /\ At(p, "auto") /\ autol[j] = NoProc
    /\ IF rec[j] = NoRec \/ automaticApplyFinished(rec[j].auto)
       THEN Exit(p)
       ELSE /\ autol' = [autol EXCEPT ![j] = p] /\ Go(p, "auto_mark")
            /\ UNCHANGED <<wsl, xfer, lease>>
    /\ UNCHANGED <<rec, remote, file, txn, staged, age, ghosts, used>>

AutoMarkTerminal(p) == At(p, "auto_mark") /\ markLocalChangeTerminal(p, "decide")

\* A workspace job without changes still applies its checkpoint.
applyTerminalAutomaticallyOwned(p) ==
    LET j == Job(p) IN
    /\ At(p, "decide")
    /\ CASE remote[j] = "failed" -> TransferLoad(p, "decide", "skipped", "exit")
         [] remote[j] = "empty" /\ j \notin SharedJobs -> TransferLoad(p, "decide", "no_changes", "exit")
         [] OTHER -> TransferLoad(p, "decide", "running", "reload")
    /\ UNCHANGED <<rec, remote, file, txn, staged, age, ghosts, used>>

AutoReload(p) ==
    LET r == rec[Job(p)] IN
    /\ At(p, "reload")
    /\ IF r = NoRec \/ automaticApplyFinished(r.auto)
       THEN Exit(p)
       ELSE Go(p, "fetch") /\ UNCHANGED locks
    /\ UNCHANGED <<rec, remote, file, txn, staged, age, ghosts, used>>

-----------------------------------------------------------------------------
(* fetch --apply, explicit or on behalf of the automatic apply             *)

\* An explicit command by the user, for the whole bundle or for one path.
StartFetch(p, j, full) ==
    /\ pr[p] = Idle /\ rec[j] # NoRec /\ used.fetch[j] < MaxFetch
    /\ remote[j] \in TerminalSet
    /\ pr' = [pr EXCEPT ![p] = Spawn("fetch", j, "fetch", full)]
    /\ used' = [used EXCEPT !.fetch[j] = @ + 1]
    /\ UNCHANGED <<rec, remote, file, txn, staged, age, locks, ghosts>>

\* How a failed fetch is recorded: transiently failed applies stay pending.
FetchFails(p, transient) ==
    IF pr[p].role = "fetch"
    THEN Exit(p)
    ELSE /\ pr' = [pr EXCEPT ![p].pc = IF transient THEN "retry" ELSE "fail", ![p].copy = NoRec, ![p].mine = NoRec]
         /\ wsl' = IF wsl = p THEN NoProc ELSE wsl
         /\ xfer' = Without(p, xfer)
         /\ UNCHANGED <<autol, lease>>

FetchEnds(p) ==
    IF pr[p].role = "fetch"
    THEN Exit(p)
    ELSE /\ pr' = [pr EXCEPT ![p].pc = "record", ![p].copy = NoRec, ![p].mine = NoRec]
         /\ wsl' = IF wsl = p THEN NoProc ELSE wsl
         /\ xfer' = Without(p, xfer)
         /\ UNCHANGED <<autol, lease>>

Completed(p) == done' = [done EXCEPT ![Job(p)] = @ \/ (pr[p].full /\ pr[p].role = "fetch" /\ Job(p) \in AutoJobs)]

\* What FetchChanges records of the automatic apply when it ends.
AutoRecord(p) ==
    /\ \/ At(p, "record") /\ TransferLoad(p, "record", "applied", "exit")
       \/ At(p, "fail") /\ TransferLoad(p, "fail", "failed", "exit")
       \/ At(p, "retry") /\ TransferLoad(p, "retry", "pending", IF pr[p].role = "worker" THEN "poll" ELSE "exit")
    /\ UNCHANGED <<rec, remote, file, txn, staged, age, ghosts, used>>

\* GetJobDetails, then the terminal mark.  The runner may have lost or collected the job.
FetchChanges(p) ==
    LET j == Job(p) IN
    /\ At(p, "fetch")
    /\ \/ remote[j] \in TerminalSet /\ markLocalChangeTerminal(p, "route")
       \/ /\ remote[j] = "gone" /\ FetchFails(p, FALSE)
          /\ UNCHANGED <<rec, remote, file, txn, staged, age, ghosts, used>>
       \/ /\ FetchFails(p, TRUE)
          /\ UNCHANGED <<rec, remote, file, txn, staged, age, ghosts, used>>

\* applyWorkspaceJob keeps the record it reads here, before any lock.
RouteFetch(p) ==
    LET j == Job(p) IN
    /\ At(p, "route")
    /\ IF rec[j] = NoRec
       THEN FetchFails(p, FALSE)
       ELSE /\ UNCHANGED locks
            /\ IF j \in SharedJobs
               THEN pr' = [pr EXCEPT ![p].pc = "download", ![p].mine = rec[j]]
               ELSE IF remote[j] = "empty" THEN Go(p, "settle") ELSE Go(p, "download")
    /\ UNCHANGED <<rec, remote, file, txn, staged, age, ghosts, used>>

\* settleNoChangeApply holds the workspace lock but not the transfer lock.
SettleLoad(p) ==
    LET j == Job(p) IN
    /\ At(p, "settle") /\ wsl = NoProc
    /\ IF rec[j] = NoRec \/ rec[j].pend \/ ~pr[p].full
       THEN FetchFails(p, FALSE)
       ELSE /\ wsl' = p /\ UNCHANGED <<xfer, autol, lease>>
            /\ pr' = [pr EXCEPT ![p].pc = "settle_save", ![p].copy = rec[j]]
    /\ UNCHANGED <<rec, remote, file, txn, staged, age, ghosts, used>>

SettleSave(p) ==
    LET j == Job(p) IN
    /\ At(p, "settle_save")
    /\ IF j \in AutoJobs
       THEN SaveStale(j, pr[p].copy, [pr[p].copy EXCEPT !.auto = "no_changes"])
       ELSE UNCHANGED <<rec, age, torn>>
    /\ Completed(p) /\ FetchEnds(p)
    /\ UNCHANGED <<remote, file, txn, staged, merges, told, used>>

\* Stage the bundle under the transfer lock, which is kept until the fetch returns.
downloadChangeBundleLocked(p) ==
    LET j == Job(p) IN
    /\ At(p, "download") /\ xfer[j] = NoProc
    /\ \/ /\ remote[j] \in TerminalSet
          /\ Go(p, "enter") /\ xfer' = [xfer EXCEPT ![j] = p] /\ UNCHANGED <<wsl, autol, lease>>
          /\ staged' = [staged EXCEPT ![j] = TRUE] /\ age' = [age EXCEPT ![j] = 0]
       \/ /\ FetchFails(p, remote[j] # "gone") /\ UNCHANGED <<staged, age>>
    /\ UNCHANGED <<rec, remote, file, txn, ghosts, used>>

withWorkspaceChangeLock(p) ==
    LET j == Job(p) IN
    /\ At(p, "enter") /\ wsl = NoProc
    /\ IF rec[j] = NoRec
       THEN FetchFails(p, FALSE)
       ELSE wsl' = p /\ Go(p, "recover") /\ UNCHANGED <<xfer, autol, lease>>
    /\ UNCHANGED <<rec, remote, file, txn, staged, age, ghosts, used>>

(* recoverWorkspaceApplications: every record of this root with a pending  *)
(* transaction, one after the other, under the workspace lock only.        *)
Transactions == {k \in ChJobs: txn[k] # "none"}

recoverWorkspaceApplications(p) ==
    /\ At(p, "recover")
    /\ IF Transactions = {}
       THEN Go(p, IF Job(p) \in SharedJobs THEN "session" ELSE "apply")
       ELSE pr' = [pr EXCEPT ![p].pc = "visit", ![p].todo = ChJobs]
    /\ UNCHANGED <<rec, remote, file, txn, staged, age, locks, ghosts, used>>

\* A transaction no record answers for stops the command.
RecoverNext(p) ==
    /\ At(p, "visit")
    /\ \/ \E k \in pr[p].todo:
            /\ pr' = [pr EXCEPT ![p] =
                 IF rec[k] # NoRec /\ rec[k].pend
                 THEN [@ EXCEPT !.pc = "replay", !.k = k, !.todo = pr[p].todo \ {k}, !.copy = rec[k]]
                 ELSE [@ EXCEPT !.todo = pr[p].todo \ {k}]]
            /\ UNCHANGED locks
       \/ /\ pr[p].todo = {} /\ Transactions = {}
          /\ Go(p, IF Job(p) \in SharedJobs THEN "session" ELSE "apply") /\ UNCHANGED locks
       \/ /\ pr[p].todo = {} /\ Transactions # {}
          /\ FetchFails(p, FALSE)
    /\ UNCHANGED <<rec, remote, file, txn, staged, age, ghosts, used>>

\* The journal completes an installed transaction and rolls another back.
recoverOneApplication(p) ==
    LET k == pr[p].k IN
    /\ At(p, "replay")
    /\ IF txn[k] = "installed"
       THEN /\ SaveStale(k, pr[p].copy, [pr[p].copy EXCEPT !.applied = TRUE])
            /\ pr' = [pr EXCEPT ![p].pc = "replay_commit", ![p].copy.applied = TRUE]
            /\ UNCHANGED txn
       ELSE /\ txn' = [txn EXCEPT ![k] = "none"]
            /\ SaveStale(k, pr[p].copy, [pr[p].copy EXCEPT !.pend = FALSE])
            /\ pr' = [pr EXCEPT ![p].pc = "visit", ![p].copy = NoRec]
    /\ UNCHANGED <<remote, file, staged, locks, merges, done, told, used>>

RecoveredCommit(p) ==
    /\ At(p, "replay_commit")
    /\ txn' = [txn EXCEPT ![pr[p].k] = "none"] /\ Go(p, "replay_clear")
    /\ UNCHANGED <<rec, remote, file, staged, age, locks, ghosts, used>>

RecoveredClear(p) ==
    /\ At(p, "replay_clear")
    /\ SaveStale(pr[p].k, pr[p].copy, [pr[p].copy EXCEPT !.pend = FALSE])
    /\ pr' = [pr EXCEPT ![p].pc = "visit", ![p].copy = NoRec]
    /\ UNCHANGED <<remote, file, txn, staged, locks, merges, done, told, used>>

(* applyChangeBundle, holding the transfer lock and the workspace lock     *)

markRecoveredAutomaticApply(r, full) ==
    IF full /\ r.auto \in {"pending", "running", "failed"} THEN [r EXCEPT !.auto = "applied"] ELSE r

Merged(v) == IF v = "base" THEN "remote" ELSE "merged"

\* Still as applied, already equal to the bundle, or to be merged under a new transaction.
applyChangeBundle(p) ==
    LET j == Job(p)
        r == rec[j]
        intact == r.applied /\ file[j] \in {"remote", "merged"}
        equal == ~r.applied /\ file[j] = "remote" IN
    /\ At(p, "apply")
    /\ \/ /\ intact \/ equal
          /\ Save(j, markRecoveredAutomaticApply([r EXCEPT !.applied = TRUE], pr[p].full))
          /\ Completed(p) /\ FetchEnds(p)
       \/ /\ r.applied /\ ~intact
          /\ FetchFails(p, FALSE) /\ UNCHANGED <<rec, age, done>>
       \/ /\ ~r.applied /\ ~equal
          /\ Save(j, [r EXCEPT !.pend = TRUE]) /\ Go(p, "open")
          /\ UNCHANGED <<done, locks>>
    /\ UNCHANGED <<remote, file, txn, staged, merges, torn, told, used>>

OpenTransaction(p) ==
    /\ At(p, "open")
    /\ txn' = [txn EXCEPT ![Job(p)] = "open"] /\ Go(p, "install")
    /\ UNCHANGED <<rec, remote, file, staged, age, locks, ghosts, used>>

\* A conflict rolls the transaction back and settles the record.
ApplyToWorkspace(p) ==
    LET j == Job(p) IN
    /\ At(p, "install")
    /\ \/ /\ file' = [file EXCEPT ![j] = Merged(@)]
          /\ merges' = [merges EXCEPT ![j] = @ + 1]
          /\ txn' = [txn EXCEPT ![j] = "installed"] /\ Go(p, "note")
          /\ UNCHANGED <<rec, age, locks>>
       \/ /\ file[j] # "base"
          /\ txn' = [txn EXCEPT ![j] = "none"]
          /\ Save(j, [rec[j] EXCEPT !.pend = FALSE]) /\ FetchFails(p, FALSE)
          /\ UNCHANGED <<file, merges>>
    /\ UNCHANGED <<remote, staged, torn, done, told, used>>

\* Mutant: the transaction is closed before the record says that it was applied.
BugNoteApplied(p) ==
    /\ At(p, "note")
    /\ Go(p, "commit")
    /\ UNCHANGED <<rec, remote, file, txn, staged, age, locks, ghosts, used>>

NoteApplied(p) ==
    /\ At(p, "note")
    /\ Save(Job(p), [rec[Job(p)] EXCEPT !.applied = TRUE]) /\ Go(p, "commit")
    /\ UNCHANGED <<remote, file, txn, staged, locks, ghosts, used>>

CommitApplyToWorkspace(p) ==
    /\ At(p, "commit")
    /\ txn' = [txn EXCEPT ![Job(p)] = "none"] /\ Go(p, "clear")
    /\ UNCHANGED <<rec, remote, file, staged, age, locks, ghosts, used>>

ClearPending(p) ==
    LET j == Job(p) IN
    /\ At(p, "clear")
    /\ Save(j, markRecoveredAutomaticApply([rec[j] EXCEPT !.pend = FALSE], pr[p].full))
    /\ Completed(p) /\ FetchEnds(p)
    /\ UNCHANGED <<remote, file, txn, staged, merges, torn, told, used>>

(* applyWorkspaceJob: the checkpoint session (WorkspacePush) merges an     *)
(* attempt once; then the record read before the locks is written back.    *)
applyWorkspaceJob(p) ==
    LET j == Job(p)
        fresh == merges[j] = 0 /\ remote[j] # "empty" IN
    /\ At(p, "session")
    /\ \/ /\ file' = IF fresh THEN [file EXCEPT ![j] = Merged(@)] ELSE file
          /\ merges' = IF fresh THEN [merges EXCEPT ![j] = @ + 1] ELSE merges
          /\ Go(p, "session_save") /\ UNCHANGED locks
       \/ /\ fresh /\ file[j] # "base"
          /\ FetchFails(p, FALSE) /\ UNCHANGED <<file, merges>>
    /\ UNCHANGED <<rec, remote, txn, staged, age, torn, done, told, used>>

SessionSave(p) ==
    LET j == Job(p) IN
    /\ At(p, "session_save")
    /\ SaveStale(j, pr[p].mine, markRecoveredAutomaticApply(pr[p].mine, pr[p].full))
    /\ Completed(p) /\ FetchEnds(p)
    /\ UNCHANGED <<remote, file, txn, staged, merges, told, used>>

-----------------------------------------------------------------------------
(* Collection, reconciliation and inspection                               *)

\* ChangeGC scans without a lock and keeps the modification time it saw.
ChangeGC(p, j) ==
    /\ pr[p] = Idle /\ used.look < MaxLook
    /\ age[j] > 0 /\ (rec[j] # NoRec \/ staged[j])
    /\ pr' = [pr EXCEPT ![p] = [Spawn("gc", j, "gc", TRUE) EXCEPT !.out = IF age[j] = 2 THEN "ancient" ELSE "old"]]
    /\ used' = [used EXCEPT !.look = @ + 1]
    /\ UNCHANGED <<rec, remote, file, txn, staged, age, locks, ghosts>>

localChangeStateNeedsProtection(r, modified) ==
    /\ modified # "ancient"
    /\ (~r.terminal /\ r.started) \/ r.auto \in Unfinished

localChangeTransactionExists(j) == rec[j].pend /\ txn[j] # "none"

\* Measured again under the locks: the scan may be older than a download or a save.
localChangeCandidateExpired(j) == age[j] > 0


Collectable(j, modified) ==
    /\ \/ rec[j] = NoRec
       \/ ~(localChangeTransactionExists(j) \/ localChangeStateNeedsProtection(rec[j], modified))
    /\ localChangeCandidateExpired(j)

\* A held transfer lock protects the candidate.  Downloads go before the record.
collectLocalChangeLocked(p) ==
    LET j == Job(p) IN
    /\ At(p, "gc")
    /\ \/ /\ xfer[j] # NoProc \/ (wsl = NoProc /\ ~Collectable(j, pr[p].out))
          /\ Exit(p) /\ UNCHANGED staged
       \/ /\ BothFree(p, j) /\ Collectable(j, pr[p].out)
          /\ staged' = [staged EXCEPT ![j] = FALSE]
          /\ wsl' = p /\ xfer' = [xfer EXCEPT ![j] = p] /\ Go(p, "gc_record")
          /\ UNCHANGED <<autol, lease>>
    /\ UNCHANGED <<rec, remote, file, txn, age, ghosts, used>>

RemoveRecord(p) ==
    /\ At(p, "gc_record")
    /\ rec' = [rec EXCEPT ![Job(p)] = NoRec] /\ Exit(p)
    /\ UNCHANGED <<remote, file, txn, staged, age, ghosts, used>>

\* The runner collected the job: the record becomes terminal and keeps its age.
reconcileRemovedJobChange(j) ==
    /\ remote[j] = "gone" /\ rec[j] # NoRec /\ ~rec[j].terminal
    /\ wsl = NoProc /\ xfer[j] = NoProc
    /\ rec' = [rec EXCEPT ![j].terminal = TRUE]
    /\ UNCHANGED <<remote, file, txn, staged, age, pr, locks, ghosts, used>>

\* inspectAutomaticApply reads the record, probes the lease, reads again, probes again.
inspectAutomaticApply(p, j) ==
    /\ pr[p] = Idle /\ used.look < MaxLook
    /\ rec[j] # NoRec /\ rec[j].started /\ rec[j].auto \in Unfinished
    /\ pr' = [pr EXCEPT ![p] = Spawn("look", j, "probe", TRUE)]
    /\ used' = [used EXCEPT !.look = @ + 1]
    /\ UNCHANGED <<rec, remote, file, txn, staged, age, locks, ghosts>>

automaticApplyWorkerActive(j) == lease[j] # NoProc

Undecided(j) == rec[j] # NoRec /\ rec[j].auto \in Unfinished

\* `out` remembers, for the property, whether the apply was unfinished at the probe.
InspectProbe(p) ==
    LET j == Job(p) IN
    /\ At(p, "probe")
    /\ IF automaticApplyWorkerActive(j) THEN Stop(p)
       ELSE pr' = [pr EXCEPT ![p].pc = "look_again", ![p].out = IF Undecided(j) THEN "open" ELSE "closed"]
    /\ UNCHANGED <<rec, remote, file, txn, staged, age, locks, ghosts, used>>

\* Mutant: the record is not read again after the first probe.
BugInspectReload(p) ==
    /\ At(p, "look_again") /\ Go(p, "probe_again")
    /\ UNCHANGED <<rec, remote, file, txn, staged, age, locks, ghosts, used>>


InspectReload(p) ==
    /\ At(p, "look_again")
    /\ IF Undecided(Job(p)) THEN Go(p, "probe_again") ELSE Stop(p)
    /\ UNCHANGED <<rec, remote, file, txn, staged, age, locks, ghosts, used>>

InspectVerdict(p) ==
    LET j == Job(p) IN
    /\ At(p, "probe_again") /\ Stop(p)
    /\ told' = (told \/ (~automaticApplyWorkerActive(j) /\ pr[p].out = "closed" /\ ~Undecided(j) /\ ~torn[j]))
    /\ UNCHANGED <<rec, remote, file, txn, staged, age, locks, merges, torn, done, used>>

-----------------------------------------------------------------------------
(* The runner, the clock, the user and failing processes                   *)

RunnerEnds(j) ==
    /\ remote[j] = "live" /\ remote' \in {[remote EXCEPT ![j] = s]: s \in TerminalSet}
    /\ UNCHANGED <<rec, file, txn, staged, age, pr, locks, ghosts, used>>

RunnerCollects(j) ==
    /\ remote[j] \in TerminalSet /\ remote' = [remote EXCEPT ![j] = "gone"]
    /\ UNCHANGED <<rec, file, txn, staged, age, pr, locks, ghosts, used>>

\* Only collection looks at ages.
TimePasses(j) ==
    /\ age[j] < 2 /\ (rec[j] # NoRec \/ staged[j])
    /\ used.look < MaxLook \/ \E p \in ChProcs: At(p, "gc")
    /\ age' = [age EXCEPT ![j] = @ + 1]
    /\ UNCHANGED <<rec, remote, file, txn, staged, pr, locks, ghosts, used>>

UserEdits(j) ==
    /\ used.edit[j] < MaxChEdit
    /\ file' = [file EXCEPT ![j] = IF @ = "base" THEN "local" ELSE IF @ = "local" THEN "local" ELSE "later"]
    /\ used' = [used EXCEPT !.edit[j] = @ + 1]
    /\ UNCHANGED <<rec, remote, txn, staged, age, pr, locks, ghosts>>

Killed(p) ==
    /\ pr[p] # Idle /\ used.crash < MaxChCrash
    /\ Exit(p)
    /\ used' = [used EXCEPT !.crash = @ + 1]
    /\ UNCHANGED <<rec, remote, file, txn, staged, age, ghosts>>

RunStep(p) ==
    \/ markLocalChangeSubmissionStarted(p) \/ discardUnsubmittedChangeState(p) \/ submit(p)
    \/ LeaveRun(p) \/ TransferSave(p) \/ confirmAutomaticApplyAdmission(p)
    \/ handoffAutomaticApply(p) \/ finishTerminalChanges(p)
    \/ RunAutomaticApplyWorker(p) \/ WorkerPoll(p) \/ applyTerminalAutomatically(p)
    \/ AutoMarkTerminal(p) \/ applyTerminalAutomaticallyOwned(p) \/ AutoReload(p) \/ AutoRecord(p)

FetchStep(p) ==
    \/ FetchChanges(p) \/ RouteFetch(p) \/ SettleLoad(p) \/ SettleSave(p)
    \/ downloadChangeBundleLocked(p) \/ withWorkspaceChangeLock(p)
    \/ recoverWorkspaceApplications(p) \/ RecoverNext(p) \/ recoverOneApplication(p)
    \/ RecoveredCommit(p) \/ RecoveredClear(p) \/ applyChangeBundle(p) \/ OpenTransaction(p)
    \/ ApplyToWorkspace(p) \/ NoteApplied(p) \/ CommitApplyToWorkspace(p) \/ ClearPending(p)
    \/ applyWorkspaceJob(p) \/ SessionSave(p)

LookStep(p) ==
    \/ collectLocalChangeLocked(p) \/ RemoveRecord(p)
    \/ InspectProbe(p) \/ InspectReload(p) \/ InspectVerdict(p)

ChNext ==
    \/ \E p \in ChProcs: RunStep(p) \/ FetchStep(p) \/ LookStep(p) \/ Killed(p)
    \/ \E p \in ChProcs, j \in ChJobs:
         \/ initializeChangeState(p, j) \/ ChangeGC(p, j) \/ inspectAutomaticApply(p, j)
         \/ \E full \in BOOLEAN: StartFetch(p, j, full)
    \/ \E j \in ChJobs:
         \/ reconcileRemovedJobChange(j) \/ RunnerEnds(j) \/ RunnerCollects(j)
         \/ TimePasses(j) \/ UserEdits(j)

ChSpec == ChInit /\ [][ChNext]_chvars

-----------------------------------------------------------------------------
(* Properties                                                              *)

ChTypeOK ==
    /\ \A j \in ChJobs: rec[j] = NoRec \/ rec[j] \in Record
    /\ file \in [ChJobs -> {"base", "local", "remote", "merged", "later"}]
    /\ txn \in [ChJobs -> {"none", "open", "installed"}]
    /\ staged \in [ChJobs -> BOOLEAN] /\ age \in [ChJobs -> 0..2]

\* Every transaction in the workspace is named by the record of its job, so the next
\* fetch --apply can complete it or roll it back, and collection never removes that record.
TransactionOwned == \A j \in ChJobs: txn[j] # "none" => rec[j] # NoRec /\ rec[j].pend

\* No bundle is collected between its download and its installation.
StagedKept == \A p \in ChProcs: pr[p].pc \in {"open", "install"} => staged[Job(p)]

\* A record that says a path or the whole apply was applied tells the truth.
AppliedTruth ==
    \A j \in ChJobs: rec[j] # NoRec =>
        /\ rec[j].applied => merges[j] > 0
        /\ rec[j].auto = "applied" => merges[j] > 0 \/ j \in SharedJobs

ChangesSafe == ChTypeOK /\ TransactionOwned /\ StagedKept /\ AppliedTruth

\* needs_recovery is reported only of an apply that was unfinished without an owner at one of
\* the probes: the second read catches a worker that finished and released in between
\* (again unless a save of an older copy reopened the record).
InspectionTruthful == ~told

\* Whoever dies and whoever recovers, the records name every transaction and tell the truth,
\* no bundle is collected before it is installed (change_state.go, change_gc.go), and an
\* inspection reports needs_recovery only of an apply that nobody was finishing
\* (automatic_apply_inspect.go).
RecordsSafe == ChangesSafe /\ InspectionTruthful

\* However processes die, retry and recover one another's transactions, a bundle is merged
\* into the workspace at most once (changes.go, workspace_fetch.go): a later edit by the user is
\* never merged over again.  The exception the code leaves open is a record overwritten by
\* a save of an older copy.
AppliedOnce == \A j \in ChJobs: ~torn[j] => merges[j] <= 1

\* Once a complete fetch --apply of an --apply job succeeded, its record says so for good.
CompletionKept == \A j \in ChJobs: done[j] /\ rec[j] # NoRec => automaticApplyFinished(rec[j].auto)
=============================================================================
