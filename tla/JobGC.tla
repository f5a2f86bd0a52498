------------------------------- MODULE JobGC -------------------------------
(***************************************************************************)
(* Collection of settled jobs and the replay guard of the runner daemon.   *)
(*                                                                         *)
(* A job id is a ULID that carries the client's time.  A runner admits ids *)
(* of a limited age only; an id whose receipt was collected is remembered  *)
(* by a marker that outlives the age limit, so the two together promise    *)
(* that a collected id never executes again.                               *)
(*                                                                         *)
(* Source: internal/daemon/job_gc.go, admission_clock.go,                  *)
(* results_fetched.go and the submit and load paths of server.go.          *)
(*                                                                         *)
(* Time is counted in ticks.  A Go time.Time is an Instant: the wall clock *)
(* and, for a value of this process, the monotonic clock; JSON keeps only  *)
(* the wall clock.  Steps of the daemon take less than a tick, uploads may *)
(* take MaxUpload ticks (http.Server.ReadTimeout).                         *)
(***************************************************************************)
EXTENDS Integers, FiniteSets

CONSTANTS
    Ids,         \* job ids
    MaxAge,      \* jobIDMaxAge, in ticks
    Skew,        \* jobIDMaxFutureSkew
    PendingTTL,  \* pendingChangeMarkerTTL
    MaxUpload,   \* ticks the body of a submission may take
    MaxBack,     \* how far the wall clock may be set back
    GCMaxTime,     \* bound: ticks in a behaviour
    GCMaxCrashes,  \* bound: crashes in a behaviour
    GCFaults       \* whether removals and renames may fail

ASSUME JobGCAssumption ==
    /\ MaxAge \in Nat /\ Skew \in Nat /\ PendingTTL \in Nat
    /\ PendingTTL >= MaxAge + Skew
    /\ MaxUpload \in Nat /\ MaxBack \in Nat /\ GCMaxTime \in Nat /\ GCMaxCrashes \in Nat
    /\ GCFaults \in BOOLEAN

VARIABLES
    mono, wall,  \* the machine's clocks
    issued,      \* the timestamp in each id, whatever clock the client had
    \* The disk.
    clockFile,   \* admission-clock.json: a wall time
    dir,         \* "none", "active", "clean" (settled, may be collected), "kept"
    tomb,        \* a .gc- tombstone of the id exists
    mark,        \* the collection marker, or NoRecord
    fetchFile,   \* fetched.json exists in the receipt directory
    \* Daemon memory.
    gcUp,          \* "down", "loading", "serving"
    high,        \* d.admissionHighWater
    jobs,        \* keys of d.jobs
    collected,   \* d.collected, NoRecord outside its keys
    deleting,    \* j.deleting
    fetched,     \* j.fetched
    unfetched,   \* keys of d.unfetched
    locked,      \* the id whose removeJobReceipt holds d.mu, if any
    upload,      \* a submission in progress: "none", "fresh", "stale"
    age,         \* ticks it has taken
    reader,      \* a log or change reader: "none", "found", "reading", "sent"
    sweep,       \* a removal that has left the lock: "idle", "tomb"
    prune,       \* pruneCollectedID: "idle", "remove", "forget"
    pruned,      \* the record it decided on
    load,        \* loading an id: "idle", "marker", "tomb", "prune", "job"
    \* History.
    changes,     \* the job of the id retained workspace changes
    runs,        \* how often a job with the id ran to its settlement
    gcCrashes

clocks   == <<mono, wall, issued>>
files    == <<dir, tomb, mark, fetchFile>>
memory   == <<jobs, collected, deleting, fetched, unfetched>>
requests == <<upload, age, reader, sweep, prune, pruned>>
history  == <<changes, runs, gcCrashes>>
gcVars     == <<clocks, clockFile, files, gcUp, high, memory, locked, requests, load, history>>

NoMono == -1

Now          == [w |-> wall, m |-> mono]
OnDisk(w)    == [w |-> w, m |-> NoMono]  \* decoded from JSON or from a ULID
Plus(t, d)   == [w |-> t.w + d, m |-> IF t.m = NoMono THEN NoMono ELSE t.m + d]

\* time.Time.After compares monotonic readings if both times have one.
After(t, u) == IF t.m # NoMono /\ u.m # NoMono THEN t.m > u.m ELSE t.w > u.w

NoRecord == [at |-> OnDisk(NoMono), pending |-> FALSE]

\* admissionNow
AdmissionNow == IF After(high, Now) THEN high ELSE Now

\* collectedMarkerExpired, with collectedMarkerTTL
MarkerTTL_NoSkew == MaxAge
MarkerTTL == MaxAge + Skew
GCExpired(r, now) ==
    ~After(Plus(r.at, IF r.pending THEN PendingTTL ELSE MarkerTTL), now)

\* validateNewJobID
GCFresh(id, now) ==
    /\ After(OnDisk(issued[id]), Plus(now, -MaxAge))
    /\ ~After(OnDisk(issued[id]), Plus(now, Skew))

Free == gcUp = "serving" /\ locked = {}  \* d.mu can be taken

GCInit ==
    /\ mono = MaxAge /\ wall = MaxAge
    /\ issued \in [Ids -> 0 .. MaxAge + Skew + 1]
    /\ clockFile = wall /\ high = Now
    /\ dir = [i \in Ids |-> "none"] /\ tomb = [i \in Ids |-> FALSE]
    /\ mark = [i \in Ids |-> NoRecord] /\ fetchFile = [i \in Ids |-> FALSE]
    /\ gcUp = "serving" /\ jobs = {} /\ collected = [i \in Ids |-> NoRecord]
    /\ deleting = [i \in Ids |-> FALSE] /\ fetched = [i \in Ids |-> FALSE]
    /\ unfetched = {} /\ locked = {}
    /\ upload = [i \in Ids |-> "none"] /\ age = [i \in Ids |-> 0]
    /\ reader = [i \in Ids |-> "none"] /\ sweep = [i \in Ids |-> "idle"]
    /\ prune = [i \in Ids |-> "idle"] /\ pruned = [i \in Ids |-> NoRecord]
    /\ load = [i \in Ids |-> "idle"]
    /\ changes = [i \in Ids |-> FALSE] /\ runs = [i \in Ids |-> 0] /\ gcCrashes = 0

----------------------------------------------------------------------------
\* Time passes, and the wall clock may be corrected meanwhile, to show at most
\* MaxBack ticks less than have passed.  A submission that takes too long is
\* cut off before.
GCTick ==
    /\ mono < GCMaxTime
    /\ gcUp # "loading" /\ locked = {}
    /\ \A i \in Ids : upload[i] # "none" => age[i] < MaxUpload
    /\ mono' = mono + 1
    /\ wall' \in {w \in mono' - MaxBack .. wall + 1 : w >= 0}
    /\ age' = [i \in Ids |-> IF upload[i] = "none" THEN 0 ELSE age[i] + 1]
    /\ UNCHANGED <<issued, clockFile, files, gcUp, high, memory, locked, upload, reader, sweep,
                   prune, pruned, load, history>>

(***************************************************************************)
(* handleSubmit.  The age of the id is judged when the request arrives; an *)
(* unknown id out of its window is refused at once.  The judgement is used *)
(* after the body was read, under d.mu.                                    *)
(***************************************************************************)
Submit(id) ==
    /\ Free /\ upload[id] = "none"
    /\ GCFresh(id, AdmissionNow) \/ id \in jobs \/ collected[id] # NoRecord
    /\ upload' = [upload EXCEPT ![id] = IF GCFresh(id, AdmissionNow) THEN "fresh" ELSE "stale"]
    /\ age' = [age EXCEPT ![id] = 0]
    /\ UNCHANGED <<clocks, clockFile, files, gcUp, high, memory, locked, reader, sweep, prune,
                   pruned, load, history>>

\* Replay and freshness checks of the admission section.
Admissible(id) ==
    /\ id \notin jobs
    /\ collected[id] = NoRecord
    /\ upload[id] = "fresh"
    /\ dir[id] = "none"

Admit(id) ==
    /\ Free
    /\ Admissible(id)
    /\ upload' = [upload EXCEPT ![id] = "none"]
    /\ age' = [age EXCEPT ![id] = 0]
    /\ dir' = [dir EXCEPT ![id] = "active"]
    /\ fetchFile' = [fetchFile EXCEPT ![id] = FALSE]
    /\ jobs' = jobs \cup {id}
    /\ deleting' = [deleting EXCEPT ![id] = FALSE]
    /\ fetched' = [fetched EXCEPT ![id] = FALSE]
    /\ UNCHANGED <<clocks, clockFile, tomb, mark, gcUp, high, collected, unfetched, locked,
                   reader, sweep, prune, pruned, load, history>>

\* A known or collected id, one that is too old, a bad body, a lost client.
SubmitEnd(id) ==
    /\ gcUp = "serving" /\ upload[id] # "none"
    /\ upload' = [upload EXCEPT ![id] = "none"]
    /\ age' = [age EXCEPT ![id] = 0]
    /\ UNCHANGED <<clocks, clockFile, files, gcUp, high, memory, locked, reader, sweep, prune,
                   pruned, load, history>>

\* abortAdmission: nothing ran.
Rollback(id) ==
    /\ Free /\ id \in jobs /\ dir[id] = "active"
    /\ dir' = [dir EXCEPT ![id] = "none"]
    /\ jobs' = jobs \ {id}
    /\ unfetched' = unfetched \ {id}
    /\ UNCHANGED <<clocks, clockFile, tomb, mark, fetchFile, gcUp, high, collected, deleting,
                   fetched, locked, requests, load, history>>

\* finalize: with a result that may be collected, or one kept for inspection;
\* noteResultsLocked counts retained changes in the same section.
GCSettle(id) ==
    /\ Free /\ id \in jobs /\ dir[id] = "active"
    /\ \E d \in {"clean", "kept"}, c \in BOOLEAN :
         /\ dir' = [dir EXCEPT ![id] = d]
         /\ changes' = [changes EXCEPT ![id] = c]
         /\ unfetched' = IF c /\ ~fetched[id] THEN unfetched \cup {id} ELSE unfetched
    /\ runs' = [runs EXCEPT ![id] = @ + 1]
    /\ UNCHANGED <<clocks, clockFile, tomb, mark, fetchFile, gcUp, high, jobs, collected,
                   deleting, fetched, locked, requests, load, gcCrashes>>

----------------------------------------------------------------------------
(***************************************************************************)
(* Readers: lookup finds the job under d.mu, acquireChangeReader (or       *)
(* acquireLogReader) registers later under j.mu.  A change download that   *)
(* was sent whole is recorded, first in memory and then in fetched.json.   *)
(***************************************************************************)
Lookup(id) ==
    /\ Free /\ id \in jobs /\ reader[id] = "none"
    /\ dir[id] # "active"  \* readers of unsettled jobs are left out
    /\ reader' = [reader EXCEPT ![id] = "found"]
    /\ UNCHANGED <<clocks, clockFile, files, gcUp, high, memory, locked, upload, age, sweep,
                   prune, pruned, load, history>>

AcquireReader_Unchecked(id) ==
    /\ gcUp = "serving" /\ reader[id] = "found"
    /\ reader' = [reader EXCEPT ![id] = "reading"]
    /\ UNCHANGED <<clocks, clockFile, files, gcUp, high, memory, locked, upload, age, sweep,
                   prune, pruned, load, history>>

AcquireReader(id) ==
    /\ gcUp = "serving" /\ reader[id] = "found" /\ id \notin locked
    /\ reader' = [reader EXCEPT ![id] = IF deleting[id] THEN "none" ELSE "reading"]
    /\ UNCHANGED <<clocks, clockFile, files, gcUp, high, memory, locked, upload, age, sweep,
                   prune, pruned, load, history>>

\* resultsFetched
ResultsFetched(id) ==
    /\ Free /\ reader[id] = "reading"
    /\ dir[id] \in {"clean", "kept"} /\ changes[id]
    /\ fetched' = [fetched EXCEPT ![id] = TRUE]
    /\ unfetched' = unfetched \ {id}
    /\ reader' = [reader EXCEPT ![id] = IF fetched[id] THEN "reading" ELSE "sent"]
    /\ UNCHANGED <<clocks, clockFile, files, gcUp, high, jobs, collected, deleting, locked,
                   upload, age, sweep, prune, pruned, load, history>>

RecordFetched(id) ==
    /\ gcUp = "serving" /\ reader[id] = "sent"
    /\ \E ok \in {TRUE, ~GCFaults} :
         fetchFile' = IF ok THEN [fetchFile EXCEPT ![id] = TRUE] ELSE fetchFile
    /\ reader' = [reader EXCEPT ![id] = "reading"]
    /\ UNCHANGED <<clocks, clockFile, dir, tomb, mark, gcUp, high, memory, locked, upload, age,
                   sweep, prune, pruned, load, history>>

ReleaseReader(id) ==
    /\ gcUp = "serving" /\ reader[id] = "reading" /\ id \notin locked
    /\ reader' = [reader EXCEPT ![id] = "none"]
    /\ UNCHANGED <<clocks, clockFile, files, gcUp, high, memory, locked, upload, age, sweep,
                   prune, pruned, load, history>>

----------------------------------------------------------------------------
(***************************************************************************)
(* handleJobGC.  advanceAdmissionClock persists the time the pruning uses. *)
(***************************************************************************)
Advance(t) ==
    IF After(t, high)
    THEN high' = t /\ clockFile' = t.w
    ELSE UNCHANGED <<high, clockFile>>

AdvanceAdmissionClock ==
    /\ Free
    /\ Advance(Now)
    /\ UNCHANGED <<clocks, files, gcUp, memory, locked, requests, load, history>>

\* gcEligibleLocked
Eligible(id) == ~deleting[id] /\ reader[id] \notin {"reading", "sent"} /\ dir[id] = "clean"

\* removeJobReceipt: the marker is durable before the receipt directory moves.
RemoveMark(id) ==
    /\ Free /\ id \in jobs
    /\ Eligible(id)
    /\ LET r == [at |-> AdmissionNow, pending |-> changes[id]]
       IN  /\ mark' = [mark EXCEPT ![id] = [r EXCEPT !.at = OnDisk(r.at.w)]]
           /\ collected' = [collected EXCEPT ![id] = r]
    /\ deleting' = [deleting EXCEPT ![id] = TRUE]
    /\ locked' = {id}
    /\ UNCHANGED <<clocks, clockFile, dir, tomb, fetchFile, gcUp, high, jobs, fetched, unfetched,
                   requests, load, history>>

RemoveRename(id) ==
    /\ gcUp = "serving" /\ locked = {id}
    /\ locked' = {}
    /\ dir' = [dir EXCEPT ![id] = "none"]
    /\ tomb' = [tomb EXCEPT ![id] = TRUE]
    /\ jobs' = jobs \ {id}
    /\ unfetched' = unfetched \ {id}
    /\ sweep' = [sweep EXCEPT ![id] = "tomb"]
    /\ UNCHANGED <<clocks, clockFile, mark, fetchFile, gcUp, high, collected, deleting, fetched,
                   upload, age, reader, prune, pruned, load, history>>

\* The rename failed: the marker is withdrawn (its removal may fail, too).
RemoveUndo(id) ==
    /\ GCFaults
    /\ gcUp = "serving" /\ locked = {id}
    /\ locked' = {}
    /\ deleting' = [deleting EXCEPT ![id] = FALSE]
    /\ collected' = [collected EXCEPT ![id] = NoRecord]
    /\ \E ok \in BOOLEAN : mark' = IF ok THEN [mark EXCEPT ![id] = NoRecord] ELSE mark
    /\ UNCHANGED <<clocks, clockFile, dir, tomb, fetchFile, gcUp, high, jobs, fetched, unfetched,
                   requests, load, history>>

\* The tombstone is removed outside the lock, or left for a later collection.
RemoveTomb(id) ==
    /\ gcUp = "serving" /\ sweep[id] = "tomb"
    /\ \E ok \in {TRUE, ~GCFaults} : tomb' = IF ok THEN [tomb EXCEPT ![id] = FALSE] ELSE tomb
    /\ sweep' = [sweep EXCEPT ![id] = "idle"]
    /\ UNCHANGED <<clocks, clockFile, dir, mark, fetchFile, gcUp, high, memory, locked, upload,
                   age, reader, prune, pruned, load, history>>

\* cleanupOwnedGCTombstones of a later request; ownsCollectedJob reads the
\* marker to learn the owner.
SweepTomb(id) ==
    /\ Free /\ tomb[id] /\ collected[id] # NoRecord
    /\ tomb' = [tomb EXCEPT ![id] = FALSE]
    /\ UNCHANGED <<clocks, clockFile, dir, mark, fetchFile, gcUp, high, memory, locked, requests,
                   load, history>>

(***************************************************************************)
(* pruneCollected.  The record is judged under d.mu, its file removed      *)
(* outside, the map entry deleted under d.mu if it is still that record.   *)
(* Collection judges by the time it persisted, an acknowledgement by the   *)
(* time of the moment.                                                     *)
(***************************************************************************)
Prunable(id, now) ==
    /\ collected[id] # NoRecord
    /\ GCExpired(collected[id], now)
    /\ ~tomb[id]

PruneBegin(id) ==
    /\ Free /\ prune[id] = "idle"
    /\ Prunable(id, high) \/ Prunable(id, AdmissionNow)
    /\ prune' = [prune EXCEPT ![id] = "remove"]
    /\ pruned' = [pruned EXCEPT ![id] = collected[id]]
    /\ UNCHANGED <<clocks, clockFile, files, gcUp, high, memory, locked, upload, age, reader,
                   sweep, load, history>>

PruneRemove(id) ==
    /\ gcUp = "serving" /\ prune[id] = "remove"
    /\ mark' = [mark EXCEPT ![id] = NoRecord]
    /\ prune' = [prune EXCEPT ![id] = "forget"]
    /\ UNCHANGED <<clocks, clockFile, dir, tomb, fetchFile, gcUp, high, memory, locked, upload,
                   age, reader, sweep, pruned, load, history>>

PruneForget(id) ==
    /\ Free /\ prune[id] = "forget"
    /\ collected' = IF collected[id] = pruned[id]
                    THEN [collected EXCEPT ![id] = NoRecord] ELSE collected
    /\ prune' = [prune EXCEPT ![id] = "idle"]
    /\ pruned' = [pruned EXCEPT ![id] = NoRecord]
    /\ UNCHANGED <<clocks, clockFile, files, gcUp, high, jobs, deleting, fetched, unfetched,
                   locked, upload, age, reader, sweep, load, history>>

\* handleChangeReconciliationAck for one id: the client has its changes.
AckChanges(id) ==
    /\ Free /\ collected[id] # NoRecord /\ collected[id].pending
    /\ LET r == [collected[id] EXCEPT !.pending = FALSE]
       IN  /\ mark' = [mark EXCEPT ![id] = [r EXCEPT !.at = OnDisk(r.at.w)]]
           /\ collected' = [collected EXCEPT ![id] = r]
    /\ UNCHANGED <<clocks, clockFile, dir, tomb, fetchFile, gcUp, high, jobs, deleting, fetched,
                   unfetched, locked, requests, load, history>>

----------------------------------------------------------------------------
\* A crash loses the memory and every request.
GCCrash ==
    /\ gcUp # "down" /\ gcCrashes < GCMaxCrashes
    /\ gcCrashes' = gcCrashes + 1
    /\ gcUp' = "down"
    /\ high' = OnDisk(clockFile)
    /\ jobs' = {} /\ unfetched' = {} /\ locked' = {}
    /\ collected' = [i \in Ids |-> NoRecord] /\ deleting' = [i \in Ids |-> FALSE]
    /\ fetched' = [i \in Ids |-> FALSE]
    /\ upload' = [i \in Ids |-> "none"] /\ age' = [i \in Ids |-> 0]
    /\ reader' = [i \in Ids |-> "none"] /\ sweep' = [i \in Ids |-> "idle"]
    /\ prune' = [i \in Ids |-> "idle"] /\ pruned' = [i \in Ids |-> NoRecord]
    /\ load' = [i \in Ids |-> "idle"]
    /\ UNCHANGED <<clocks, clockFile, files, changes, runs>>

\* New: loadAdmissionClock, then per id loadCollected, tombstones, pruning and
\* loadExisting.
GCRestart ==
    /\ gcUp = "down"
    /\ gcUp' = "loading"
    /\ Advance(Now)
    /\ load' = [i \in Ids |-> "marker"]
    /\ UNCHANGED <<clocks, files, memory, locked, requests, history>>

LoadMarker(id) ==
    /\ load[id] = "marker"
    /\ IF mark[id] # NoRecord /\ GCExpired(mark[id], AdmissionNow) /\ ~tomb[id]
       THEN mark' = [mark EXCEPT ![id] = NoRecord] /\ UNCHANGED collected
       ELSE collected' = [collected EXCEPT ![id] = mark[id]] /\ UNCHANGED mark
    /\ load' = [load EXCEPT ![id] = "tomb"]
    /\ UNCHANGED <<clocks, clockFile, dir, tomb, fetchFile, gcUp, high, jobs, deleting, fetched,
                   unfetched, locked, requests, history>>

LoadTomb(id) ==
    /\ load[id] = "tomb"
    /\ \A i \in Ids : load[i] # "marker"
    /\ \E ok \in {TRUE, ~GCFaults} : tomb' = IF ok THEN [tomb EXCEPT ![id] = FALSE] ELSE tomb
    /\ load' = [load EXCEPT ![id] = "prune"]
    /\ UNCHANGED <<clocks, clockFile, dir, mark, fetchFile, gcUp, high, memory, locked, requests,
                   history>>

LoadPrune(id) ==
    /\ load[id] = "prune"
    /\ \A i \in Ids : load[i] # "tomb"
    /\ IF Prunable(id, AdmissionNow)
       THEN /\ mark' = [mark EXCEPT ![id] = NoRecord]
            /\ collected' = [collected EXCEPT ![id] = NoRecord]
       ELSE UNCHANGED <<mark, collected>>
    /\ load' = [load EXCEPT ![id] = "job"]
    /\ UNCHANGED <<clocks, clockFile, dir, tomb, fetchFile, gcUp, high, jobs, deleting, fetched,
                   unfetched, locked, requests, history>>

\* loadExisting for one receipt: an unfinished one is settled (to be kept, or,
\* if it had only been queued, to be collected), and a marker beside a receipt
\* is stale.
LoadJob(id) ==
    /\ load[id] = "job"
    /\ \A i \in Ids : load[i] # "prune"
    /\ load' = [load EXCEPT ![id] = "idle"]
    /\ IF dir[id] = "none"
       THEN UNCHANGED <<dir, mark, jobs, collected, fetched, unfetched, changes, runs>>
       ELSE /\ IF dir[id] = "active"
               THEN /\ \E d \in {"clean", "kept"}, c \in BOOLEAN :
                         /\ d = "clean" => ~c
                         /\ dir' = [dir EXCEPT ![id] = d]
                         /\ changes' = [changes EXCEPT ![id] = c]
                    /\ runs' = [runs EXCEPT ![id] = @ + 1]
               ELSE UNCHANGED <<dir, runs, changes>>
            /\ jobs' = jobs \cup {id}
            /\ fetched' = [fetched EXCEPT ![id] = fetchFile[id]]
            /\ unfetched' = IF changes'[id] /\ ~fetchFile[id]
                            THEN unfetched \cup {id} ELSE unfetched
            /\ mark' = IF collected[id] # NoRecord
                       THEN [mark EXCEPT ![id] = NoRecord] ELSE mark
            /\ collected' = [collected EXCEPT ![id] = NoRecord]
    /\ UNCHANGED <<clocks, clockFile, tomb, fetchFile, gcUp, high, deleting, locked, requests,
                   gcCrashes>>

GCServe ==
    /\ gcUp = "loading" /\ \A i \in Ids : load[i] = "idle"
    /\ gcUp' = "serving"
    /\ UNCHANGED <<clocks, clockFile, files, high, memory, locked, requests, load, history>>

----------------------------------------------------------------------------
Submission(id) == Submit(id) \/ Admit(id) \/ SubmitEnd(id) \/ Rollback(id) \/ GCSettle(id)
Reading(id)    == \/ Lookup(id) \/ AcquireReader(id) \/ ResultsFetched(id)
                  \/ RecordFetched(id) \/ ReleaseReader(id)
Collecting(id) == \/ RemoveMark(id) \/ RemoveRename(id) \/ RemoveUndo(id) \/ RemoveTomb(id)
                  \/ SweepTomb(id) \/ PruneBegin(id) \/ PruneRemove(id) \/ PruneForget(id)
                  \/ AckChanges(id)
Loading(id)    == LoadMarker(id) \/ LoadTomb(id) \/ LoadPrune(id) \/ LoadJob(id)

GCNext == \/ \E id \in Ids : Submission(id) \/ Reading(id) \/ Collecting(id) \/ Loading(id)
        \/ GCTick \/ AdvanceAdmissionClock
        \/ GCCrash \/ GCRestart \/ GCServe

GCSpec == GCInit /\ [][GCNext]_gcVars

----------------------------------------------------------------------------
Dirs    == {"none", "active", "clean", "kept"}
Instants == [w : Int, m : Int]
Records == [at : Instants, pending : BOOLEAN]

\* Types of all variables.
GCTypeOK ==
    /\ mono \in Nat /\ wall \in Nat /\ issued \in [Ids -> Nat]
    /\ clockFile \in Nat /\ high \in Instants
    /\ dir \in [Ids -> Dirs] /\ tomb \in [Ids -> BOOLEAN] /\ mark \in [Ids -> Records]
    /\ fetchFile \in [Ids -> BOOLEAN]
    /\ gcUp \in {"down", "loading", "serving"} /\ jobs \subseteq Ids
    /\ collected \in [Ids -> Records] /\ deleting \in [Ids -> BOOLEAN]
    /\ fetched \in [Ids -> BOOLEAN] /\ unfetched \subseteq Ids /\ locked \subseteq Ids
    /\ upload \in [Ids -> {"none", "fresh", "stale"}] /\ age \in [Ids -> Nat]
    /\ reader \in [Ids -> {"none", "found", "reading", "sent"}]
    /\ sweep \in [Ids -> {"idle", "tomb"}]
    /\ prune \in [Ids -> {"idle", "remove", "forget"}] /\ pruned \in [Ids -> Records]
    /\ load \in [Ids -> {"idle", "marker", "tomb", "prune", "job"}]
    /\ changes \in [Ids -> BOOLEAN] /\ runs \in [Ids -> Nat] /\ gcCrashes \in Nat

\* At every moment a crash can happen, the disk still knows an id that ran: its
\* receipt, or its marker, or the id is too old for admission.
Remembered ==
    \A id \in Ids : runs[id] > 0 => \/ dir[id] # "none"
                                    \/ mark[id] # NoRecord
                                    \/ issued[id] <= wall - MaxAge

\* While a tombstone is left, its marker is, too: only the marker tells whose
\* later collection may remove the tombstone.
TombstoneOwned == \A id \in Ids : tomb[id] => mark[id] # NoRecord

\* A collected id never executes again: an id is settled at most once, however
\* its submission is repeated, its receipt collected and its marker pruned
\* (OPERATIONS.md: "they never permit a collected ID to execute again"), because
\* the disk remembers it at every moment a crash can happen.
NoReplay ==
    /\ GCTypeOK /\ Remembered /\ TombstoneOwned
    /\ \A id \in Ids : runs[id] + (IF dir[id] = "active" THEN 1 ELSE 0) <= 1

\* A receipt is not collected under a reader, although the reader looks the job
\* up and registers in two steps.
ReaderHasReceipt == \A id \in Ids : reader[id] \in {"reading", "sent"} => dir[id] # "none"

\* The runner counts exactly the finished jobs whose retained changes no client
\* has downloaded: what /v0/info reports, and a cloud lease is held for.
UnfetchedExact ==
    gcUp = "serving" =>
        unfetched = {id \in jobs : dir[id] # "active" /\ changes[id] /\ ~fetched[id]}

\* Receipts: a collected job never executes again, at every moment a crash can happen
\* the disk remembers an id that ran, no receipt is collected under a reader, and the
\* count of finished jobs whose changes nobody fetched is exact (job_gc.go,
\* admission_clock.go, results_fetched.go).
ReceiptsSafe == NoReplay /\ ReaderHasReceipt /\ UnfetchedExact
=============================================================================
