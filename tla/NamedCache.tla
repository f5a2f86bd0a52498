----------------------------- MODULE NamedCache -----------------------------
(***************************************************************************)
(* The store of named caches (internal/namedcache) with the jobs that use   *)
(* it (internal/daemon/named_caches.go, cache_trees.go).                    *)
(*                                                                          *)
(* A cache is a durable entry: a record, a "data" directory, one directory  *)
(* per saved generation and the link tree-current to the generation in use. *)
(* A job pins the cache with a holder file, restores a private copy into    *)
(* its workspace, runs, publishes its copy if it changed it, and removes    *)
(* its pin.  Jobs of an older runner hold the whole directory under an      *)
(* exclusive lease instead.  Collection and measurement walk the files      *)
(* outside the metadata lock and check again under it.                      *)
(*                                                                          *)
(* Abstractions.  A tree is named after the job that wrote it; every        *)
(* reading of the clock is later than the one before; the daemon's death    *)
(* loses what is in memory and nothing on disk.  Steps that hold the        *)
(* metadata lock over two durable writes are two actions, so that the       *)
(* daemon can die between them.                                             *)
(***************************************************************************)
EXTENDS Naturals, FiniteSets, FiniteSetsExt, TLC

CONSTANTS
  Keys,        \* the caches (owner, project, name)
  TreeJobs,    \* jobs that pin a cache and restore a copy
  DirJobs,     \* jobs of an older runner, which leased the whole directory
  KeyOf,       \* the cache a job declares
  SizeOf,      \* bytes of the tree a job writes
  NoJob,
  NCMaxBytes,    \* the collector's target
  TTL,         \* idle time after which a cache is collected
  MaxTime,     \* bound: readings of the clock
  MaxCrashes   \* bound: deaths of the daemon

Jobs == TreeJobs \cup DirJobs

ASSUME NCAssumption ==
  /\ TreeJobs \cap DirJobs = {} /\ NoJob \notin Jobs
  /\ KeyOf \in [Jobs -> Keys] /\ SizeOf \in [Jobs -> Nat]
  /\ NCMaxBytes \in Nat /\ TTL \in Nat \ {0} /\ MaxTime \in Nat \ {0}

VARIABLES
  entry,     \* the durable entry of each cache
  ncTombs,     \* interrupted creations and detached trees on disk
  retiring,  \* Store.retiring: tombs some goroutine is removing
  mu,        \* the job inside the store's metadata lock, or NoJob
  ncGate,      \* Store.treeGates: the job that restores or publishes
  marker,    \* the legacy-sizes marker is on disk
  ncJob,       \* each job's progress and what it knows
  ncUp,        \* the daemon serves (FALSE: it is recovering)
  scan,      \* a collection or a measurement, one cache at a time
  now,       \* readings of the clock
  crashes

ncVars == <<entry, ncTombs, retiring, mu, ncGate, marker, ncJob, ncUp, scan, now, crashes>>

(* Contents of a directory that are not a job's tree. *)
NCMissing == "missing"
Empty == "empty"
Contents == Jobs \cup {NCMissing, Empty}

NCBytes(c) == IF c \in Jobs THEN SizeOf[c] ELSE 0

(* There is no directory under the cache's name. *)
Absent == [there |-> FALSE]

(* A record as it is first written, inside a directory with an empty "data". *)
NewEntry ==
  [there |-> TRUE, tree |-> TRUE, lease |-> NoJob, holders |-> {}, used |-> now,
   bytes |-> 0, unknown |-> TRUE, data |-> Empty, gens |-> {}, current |-> NoJob]

Protected(e) == e.lease # NoJob \/ e.holders # {}

(* currentTree: the generation tree-current names, if it is still there. *)
CurrentTree(e) == IF e.current \in e.gens THEN e.current ELSE NoJob

(* What a walk of the files finds: the data directory, and the snapshot     *)
(* trees with or without the generations a collection would reclaim.        *)
DataBytes(e) == NCBytes(e.data)
RetainedTrees(e) == e.gens \cap {CurrentTree(e)}
TreeBytes(e, retainedOnly) ==
  IF retainedOnly THEN NCBytes(CurrentTree(e)) ELSE MapThenSumSet(NCBytes, e.gens)

(* Names on disk outside the entries.  A tree's tomb is named after the     *)
(* tree, an entry's after the entry's last use.                             *)
GenTomb(k, g) == <<k, "tree", g>>
EntryTomb(k) == <<k, "entry", entry[k].used>>
CreateTemp(k, j) == <<k, "create", j>>

NoScan == [kind |-> "none"]

-----------------------------------------------------------------------------
(* The lock of the store is free and the daemon is there to take it. *)
Unlocked == mu = NoJob

(* Readings of the clock are counted. *)
Tick == now < MaxTime /\ now' = now + 1

(* LookupLease: the rights of one job, and of nobody else. *)
LookupLease(j) ==
  LET e == entry[KeyOf[j]] IN
  [directory |-> e.there /\ e.lease = j, tree |-> e.there /\ j \in e.holders]

Goto(j, pc) == ncJob' = [ncJob EXCEPT ![j].pc = pc]

(* A job that knows nothing of its copy: before it restores, and when it    *)
(* only has to settle.                                                      *)
NCFresh(pc, pin) ==
  [pc |-> pc, pin |-> pin, stage |-> FALSE, source |-> <<"data", Empty>>,
   base |-> Empty, copy |-> Empty, size |-> 0]

NCFinish(j) == ncJob' = [ncJob EXCEPT ![j] = NCFresh("settle", @.pin)]

-----------------------------------------------------------------------------
(* AcquireTree pins the cache for a job.  An absent entry is created in a   *)
(* temporary directory that a rename publishes.                             *)
AcquireTreeCreate(j) ==
  /\ ncUp /\ j \in TreeJobs /\ ncJob[j].pc = "new" /\ Unlocked
  /\ ~entry[KeyOf[j]].there
  /\ mu' = j /\ ncTombs' = ncTombs \cup {CreateTemp(KeyOf[j], j)}
  /\ Goto(j, "create")
  /\ UNCHANGED <<entry, retiring, ncGate, marker, ncUp, scan, now, crashes>>

CreateRename(j) ==
  /\ ncJob[j].pc = "create"
  /\ Tick
  /\ entry' = [entry EXCEPT ![KeyOf[j]] = NewEntry]
  /\ ncTombs' = ncTombs \ {CreateTemp(KeyOf[j], j)}
  /\ Goto(j, "pin")
  /\ UNCHANGED <<retiring, mu, ncGate, marker, ncUp, scan, crashes>>

(* The entry is there: refuse an exclusive lease, repair a data directory   *)
(* that a command deleted (only when nobody holds the cache), adopt an      *)
(* older entry, and write the record before the holder file.                *)
AcquireTreeRefuse(e) ==
  e.lease # NoJob \/ (e.data = NCMissing /\ e.holders # {})

AcquireTreeBusy(j) ==
  /\ ncUp /\ j \in TreeJobs /\ ncJob[j].pc = "new" /\ Unlocked
  /\ entry[KeyOf[j]].there /\ AcquireTreeRefuse(entry[KeyOf[j]])
  /\ Goto(j, "settle")
  /\ UNCHANGED <<entry, ncTombs, retiring, mu, ncGate, marker, ncUp, scan, now, crashes>>

AcquireTreeRecord(e) ==
  [e EXCEPT !.tree = TRUE, !.used = now,
            !.bytes = IF e.data = NCMissing THEN 0 ELSE @,
            !.unknown = IF e.data = NCMissing THEN TRUE ELSE @,
            !.data = IF @ = NCMissing THEN Empty ELSE @]

AcquireTree(j) ==
  LET k == KeyOf[j] IN
  /\ ncUp /\ j \in TreeJobs /\ ncJob[j].pc = "new" /\ Unlocked
  /\ entry[k].there /\ ~AcquireTreeRefuse(entry[k])
  /\ Tick
  /\ entry' = [entry EXCEPT ![k] = AcquireTreeRecord(@)]
  /\ mu' = j
  /\ Goto(j, "pin")
  /\ UNCHANGED <<ncTombs, retiring, ncGate, marker, ncUp, scan, crashes>>

AddHolder(j) ==
  /\ ncJob[j].pc = "pin"
  /\ entry' = [entry EXCEPT ![KeyOf[j]].holders = @ \cup {j}]
  /\ ncJob' = [ncJob EXCEPT ![j].pc = "held", ![j].pin = TRUE]
  /\ mu' = NoJob
  /\ UNCHANGED <<ncTombs, retiring, ncGate, marker, ncUp, scan, now, crashes>>

(* lockTree checks the pin and takes the gate of the cache; RestoreTree     *)
(* makes its stage in the workspace and reads which generation to copy.     *)
LockTree(j) ==
  /\ LookupLease(j).tree /\ Unlocked /\ ncGate[KeyOf[j]] = NoJob

RestoreStart(j) ==
  LET e == entry[KeyOf[j]] IN
  /\ ncJob[j].pc = "held" /\ LockTree(j)
  /\ ncGate' = [ncGate EXCEPT ![KeyOf[j]] = j]
  /\ ncJob' = [ncJob EXCEPT ![j].pc = "copying", ![j].stage = TRUE,
             ![j].source = IF CurrentTree(e) # NoJob THEN <<"tree", CurrentTree(e)>>
                           ELSE <<"data", e.data>>]
  /\ UNCHANGED <<entry, ncTombs, retiring, mu, marker, ncUp, scan, now, crashes>>

(* The copy is complete and its stage becomes the directory of the job. *)
NCRestoreExpose(j) ==
  /\ ncJob[j].pc = "copying" /\ ncJob[j].source[2] # NCMissing
  /\ ncJob' = [ncJob EXCEPT ![j] = [NCFresh("run", TRUE) EXCEPT
             !.base = ncJob[j].source[2], !.copy = ncJob[j].source[2]]]
  /\ ncGate' = [ncGate EXCEPT ![KeyOf[j]] = NoJob]
  /\ UNCHANGED <<entry, ncTombs, retiring, mu, marker, ncUp, scan, now, crashes>>

(* An error or a cancellation removes the stage; the job goes to settlement. *)
RestoreFail(j) ==
  /\ ncJob[j].pc \in {"held", "copying"}
  /\ NCFinish(j)
  /\ ncGate' = [k \in Keys |-> IF ncGate[k] = j THEN NoJob ELSE ncGate[k]]
  /\ UNCHANGED <<entry, ncTombs, retiring, mu, marker, ncUp, scan, now, crashes>>

-----------------------------------------------------------------------------
(* The command.  It may replace its copy; a shared command may even delete  *)
(* the data directory of its cache (the code says so and repairs it).       *)
Change(j) ==
  /\ ncJob[j].pc = "run" /\ ncJob[j].copy # j
  /\ ncJob' = [ncJob EXCEPT ![j].copy = j]
  /\ UNCHANGED <<entry, ncTombs, retiring, mu, ncGate, marker, ncUp, scan, now, crashes>>

DeleteData(j) ==
  /\ ncJob[j].pc = "run" /\ entry[KeyOf[j]].data # NCMissing
  /\ entry' = [entry EXCEPT ![KeyOf[j]].data = NCMissing]
  /\ UNCHANGED <<ncTombs, retiring, mu, ncGate, marker, ncJob, ncUp, scan, now, crashes>>

(* The job is over.  Only a job that exited 0 within its limits publishes. *)
Exit(j, publish) ==
  /\ ncJob[j].pc = "run"
  /\ IF publish THEN Goto(j, "publish") ELSE NCFinish(j)
  /\ UNCHANGED <<entry, ncTombs, retiring, mu, ncGate, marker, ncUp, scan, now, crashes>>

(* PublishTree: nothing to do when the fingerprint is the one of the        *)
(* restored copy; otherwise the copy moves into a new generation ...        *)
Unchanged(j) == ncJob[j].copy = ncJob[j].base

PublishSkip(j) ==
  /\ ncJob[j].pc = "publish" /\ Unchanged(j)
  /\ NCFinish(j)
  /\ UNCHANGED <<entry, ncTombs, retiring, mu, ncGate, marker, ncUp, scan, now, crashes>>

PublishStart(j) ==
  /\ ncJob[j].pc = "publish" /\ ~Unchanged(j) /\ LockTree(j)
  /\ ncGate' = [ncGate EXCEPT ![KeyOf[j]] = j]
  /\ entry' = [entry EXCEPT ![KeyOf[j]].gens = @ \cup {j}]
  /\ ncJob' = [ncJob EXCEPT ![j].pc = "generation", ![j].source = <<"tree", CurrentTree(entry[KeyOf[j]])>>]
  /\ UNCHANGED <<ncTombs, retiring, mu, marker, ncUp, scan, now, crashes>>

(* ... which an error undoes (or leaves behind, when the tree cannot go     *)
(* back) ...                                                                *)
PublishFail(j, left) ==
  /\ ncJob[j].pc = "generation"
  /\ entry' = [entry EXCEPT ![KeyOf[j]].gens = IF left THEN @ ELSE @ \ {j}]
  /\ ncGate' = [ncGate EXCEPT ![KeyOf[j]] = NoJob]
  /\ NCFinish(j)
  /\ UNCHANGED <<ncTombs, retiring, mu, marker, ncUp, scan, now, crashes>>

(* ... the link is renamed to it ... *)
PublishSwitch(j) ==
  /\ ncJob[j].pc = "generation"
  /\ entry' = [entry EXCEPT ![KeyOf[j]].current = j]
  /\ Goto(j, "retire")
  /\ UNCHANGED <<ncTombs, retiring, mu, ncGate, marker, ncUp, scan, now, crashes>>

(* ... and the superseded tree is detached for a goroutine to delete, or    *)
(* the payload of an older directory cache is emptied.                      *)
RetireTree(j) ==
  LET k == KeyOf[j] old == ncJob[j].source[2] IN
  /\ ncJob[j].pc = "retire" /\ Unlocked
  /\ IF old # NoJob
     THEN /\ entry' = [entry EXCEPT ![k].gens = @ \ {old}]
          /\ ncTombs' = ncTombs \cup {GenTomb(k, old)}
          /\ retiring' = retiring \cup {GenTomb(k, old)}
     ELSE /\ entry' = [entry EXCEPT ![k].data = IF @ = NCMissing THEN NCMissing ELSE Empty]
          /\ UNCHANGED <<ncTombs, retiring>>
  /\ ncGate' = [ncGate EXCEPT ![k] = NoJob]
  /\ NCFinish(j)
  /\ UNCHANGED <<mu, marker, ncUp, scan, now, crashes>>

-----------------------------------------------------------------------------
(* settleNamedCaches: LookupLease, DiscardRestore and ReleaseTree.  The     *)
(* record is written (the size is stale now) before the holder file goes.   *)
NCSettle(j) ==
  /\ ncJob[j].pc = "settle" /\ j \in TreeJobs /\ Unlocked
  /\ IF LookupLease(j).tree
     THEN /\ Tick
          /\ entry' = [entry EXCEPT ![KeyOf[j]] = [@ EXCEPT !.used = now, !.unknown = TRUE]]
          /\ mu' = j
          /\ ncJob' = [ncJob EXCEPT ![j].pc = "unpin", ![j].stage = FALSE]
     ELSE /\ Goto(j, "done")
          /\ UNCHANGED <<entry, mu, now>>
  /\ UNCHANGED <<ncTombs, retiring, ncGate, marker, ncUp, scan, crashes>>

ReleaseTree(j) ==
  /\ ncJob[j].pc = "unpin"
  /\ entry' = [entry EXCEPT ![KeyOf[j]].holders = @ \ {j}]
  /\ ncJob' = [ncJob EXCEPT ![j].pc = "done", ![j].pin = FALSE]
  /\ mu' = NoJob
  /\ UNCHANGED <<ncTombs, retiring, ncGate, marker, ncUp, scan, now, crashes>>

-----------------------------------------------------------------------------
(* The exclusive lease that an older runner's job left: recovery settles it. *)
(* Release measures the directory outside the lock, under the protection of *)
(* the lease, and then writes size and lease together.  A directory that    *)
(* the job removed fails the measurement.                                   *)
ReleaseMeasure(j) ==
  LET e == entry[KeyOf[j]] IN
  /\ ncJob[j].pc = "settle" /\ j \in DirJobs /\ Unlocked
  /\ IF ~LookupLease(j).directory THEN Goto(j, "done")
     ELSE IF e.data = NCMissing THEN Goto(j, "discard")
     ELSE ncJob' = [ncJob EXCEPT ![j].pc = "measured", ![j].size = DataBytes(e)]
  /\ UNCHANGED <<entry, ncTombs, retiring, mu, ncGate, marker, ncUp, scan, now, crashes>>

NCRelease(j, err) ==
  LET e == entry[KeyOf[j]] IN
  /\ ncJob[j].pc = "measured" /\ Unlocked
  /\ IF err = "before" THEN Goto(j, "discard") /\ UNCHANGED <<entry, now>>
     ELSE /\ Tick
          /\ entry' = [entry EXCEPT ![KeyOf[j]] =
                         [@ EXCEPT !.bytes = ncJob[j].size, !.lease = NoJob, !.used = now, !.unknown = FALSE]]
          /\ ncJob' = [ncJob EXCEPT ![j].pc = IF err = "after" THEN "discard" ELSE "done", ![j].pin = FALSE]
  /\ UNCHANGED <<ncTombs, retiring, mu, ncGate, marker, ncUp, scan, crashes>>

(* settleNamedCacheLease reads the lease back after a failed release: only  *)
(* a lease that is still the job's lets it discard the cache.               *)
Discard(j) ==
  LET k == KeyOf[j] IN
  /\ ncJob[j].pc = "discard" /\ Unlocked
  /\ IF LookupLease(j).directory
     THEN /\ entry' = [entry EXCEPT ![k] = Absent]
          /\ ncTombs' = ncTombs \cup {EntryTomb(k)}
          /\ retiring' = retiring \cup {EntryTomb(k)}
     ELSE UNCHANGED <<entry, ncTombs, retiring>>
  /\ ncJob' = [ncJob EXCEPT ![j].pc = "done", ![j].pin = FALSE]
  /\ UNCHANGED <<mu, ncGate, marker, ncUp, scan, now, crashes>>

-----------------------------------------------------------------------------
(* Collection and measurement.  A scan takes the idle trees of the          *)
(* inventory with their last use (a measurement only those with an unknown  *)
(* size) and visits them one by one.                                        *)
Inventory == {k \in Keys : entry[k].there}

Idle(e) == e.there /\ e.tree /\ ~Protected(e)

ScanStart(kind) ==
  LET ks == {k \in Inventory : Idle(entry[k]) /\ (kind = "measure" => entry[k].unknown)} IN
  /\ ncUp /\ scan = NoScan /\ Unlocked
  /\ kind = "measure" => marker
  /\ kind = "gc" \/ ks # {}
  /\ scan' = [kind |-> kind, todo |-> ks, used |-> [k \in ks |-> entry[k].used],
              size |-> [k \in ks |-> 0], done |-> {}, damaged |-> {}, pc |-> "next", key |-> NoJob]
  /\ UNCHANGED <<entry, ncTombs, retiring, mu, ncGate, marker, ncJob, ncUp, now, crashes>>

ScanAt(pc) == scan # NoScan /\ scan.pc = pc

(* A collection first detaches the generations nobody links to, if the      *)
(* cache is idle under the lock.                                            *)
CollectUnusedTrees(k) ==
  LET e == entry[k]
      unused == {GenTomb(k, g) : g \in e.gens \ RetainedTrees(e)} IN
  /\ ScanAt("next") /\ scan.kind = "gc" /\ k \in scan.todo /\ Unlocked
  /\ IF Idle(e)
     THEN /\ entry' = [entry EXCEPT ![k].gens = RetainedTrees(e)]
          /\ ncTombs' = ncTombs \cup unused
          /\ retiring' = retiring \cup unused
     ELSE UNCHANGED <<entry, ncTombs, retiring>>
  /\ scan' = [scan EXCEPT !.pc = "data", !.key = k, !.todo = @ \ {k}]
  /\ UNCHANGED <<mu, ncGate, marker, ncJob, ncUp, now, crashes>>

MeasureNext(k) ==
  /\ ScanAt("next") /\ scan.kind = "measure" /\ k \in scan.todo
  /\ scan' = [scan EXCEPT !.pc = "data", !.key = k, !.todo = @ \ {k}]
  /\ UNCHANGED <<entry, ncTombs, retiring, mu, ncGate, marker, ncJob, ncUp, now, crashes>>

(* The walk of the data directory and then of the trees takes no lock.  A   *)
(* directory that cannot be read marks the cache damaged.                   *)
ScanData ==
  LET e == entry[scan.key] IN
  /\ ScanAt("data")
  /\ scan' = IF e.there /\ e.data # NCMissing
             THEN [scan EXCEPT !.pc = "trees", !.size[scan.key] = DataBytes(e)]
             ELSE [scan EXCEPT !.pc = IF scan.kind = "gc" THEN "next" ELSE "record",
                               !.damaged = @ \cup {scan.key}]
  /\ UNCHANGED <<entry, ncTombs, retiring, mu, ncGate, marker, ncJob, ncUp, now, crashes>>

ScanTrees ==
  LET e == entry[scan.key] IN
  /\ ScanAt("trees")
  /\ scan' = [scan EXCEPT !.pc = IF scan.kind = "gc" THEN "next" ELSE "record",
              !.size[scan.key] = @ + IF e.there THEN TreeBytes(e, scan.kind = "measure") ELSE 0,
              !.done = @ \cup {scan.key}]
  /\ UNCHANGED <<entry, ncTombs, retiring, mu, ncGate, marker, ncJob, ncUp, now, crashes>>

(* Bug: a cache that was used and released during the walk passes. *)
BugStillIdle(k) == Idle(entry[k])

(* A size is adopted only for a cache that stayed idle and unused. *)
StillIdle(k) == Idle(entry[k]) /\ entry[k].used = scan.used[k]

Adopt(k) ==
  IF k \in scan.done /\ StillIdle(k)
  THEN [entry[k] EXCEPT !.bytes = scan.size[k], !.unknown = FALSE] ELSE entry[k]

RecordMeasurement ==
  /\ ScanAt("record") /\ Unlocked
  /\ entry' = [entry EXCEPT ![scan.key] = Adopt(scan.key)]
  /\ scan' = [scan EXCEPT !.pc = "next"]
  /\ UNCHANGED <<ncTombs, retiring, mu, ncGate, marker, ncJob, ncUp, now, crashes>>

(* The budget of a measurement is over, or nothing is left. *)
MeasureStop ==
  /\ ScanAt("next") /\ scan.kind = "measure"
  /\ scan' = NoScan
  /\ UNCHANGED <<entry, ncTombs, retiring, mu, ncGate, marker, ncJob, ncUp, now, crashes>>

NCTotal(es, ks) == MapThenSumSet(LAMBDA k : es[k].bytes, ks)

(* Idle caches go oldest use first, while they are past the TTL or the      *)
(* bytes of what is left (protected caches included) exceed the target.     *)
NCEvicted(es, there) ==
  LET idle == {k \in there : ~Protected(es[k])}
      before(k) == {i \in idle : es[i].used < es[k].used}
      goes(k) == es[k].used + TTL < now \/ NCTotal(es, there \ before(k)) > NCMaxBytes
  IN  {k \in idle : \A i \in before(k) \cup {k} : goes(i)}

(* The last part of GC runs under the lock: record the sizes, retire the    *)
(* caches whose files were unreadable, evict, and take over every temporary *)
(* name that nobody is removing.                                            *)
GCEvict ==
  LET adopted == [k \in Keys |-> Adopt(k)]
      damaged == {k \in scan.damaged : StillIdle(k)}
      gone == damaged \cup NCEvicted(adopted, {k \in Keys : adopted[k].there} \ damaged)
      detached == {EntryTomb(k) : k \in gone}
  IN
  /\ ScanAt("next") /\ scan.kind = "gc" /\ scan.todo = {} /\ Unlocked
  /\ entry' = [k \in Keys |-> IF k \in gone THEN Absent ELSE adopted[k]]
  /\ ncTombs' = ncTombs \cup detached
  /\ retiring' = ncTombs \cup detached
  /\ scan' = NoScan
  /\ UNCHANGED <<mu, ncGate, marker, ncJob, ncUp, now, crashes>>

(* removeRetired and the goroutine of retireTree; a deletion that fails     *)
(* leaves the name for the next collection.                                 *)
RemoveRetired(t, ok) ==
  /\ t \in retiring /\ Unlocked
  /\ ncTombs' = IF ok THEN ncTombs \ {t} ELSE ncTombs
  /\ retiring' = retiring \ {t}
  /\ UNCHANGED <<entry, mu, ncGate, marker, ncJob, ncUp, scan, now, crashes>>

(* invalidateLegacySizes: older runners kept a size after a job changed the *)
(* tree.  Mark every idle tree's size stale, one record at a time, and then *)
(* leave the marker.                                                        *)
LegacyTodo == {k \in Inventory : Idle(entry[k]) /\ ~entry[k].unknown}

MarkSizeStale(k) ==
  /\ ncUp /\ ~marker /\ Unlocked
  /\ k \in LegacyTodo
  /\ entry' = [entry EXCEPT ![k].unknown = TRUE]
  /\ UNCHANGED <<ncTombs, retiring, mu, ncGate, marker, ncJob, ncUp, scan, now, crashes>>

LegacyMarker ==
  /\ ncUp /\ ~marker /\ Unlocked /\ LegacyTodo = {}
  /\ marker' = TRUE
  /\ UNCHANGED <<entry, ncTombs, retiring, mu, ncGate, ncJob, ncUp, scan, now, crashes>>

-----------------------------------------------------------------------------
(* The daemon dies: locks, gates, baselines and the scan are gone. *)
Crash ==
  /\ crashes < MaxCrashes /\ crashes' = crashes + 1
  /\ ncUp' = FALSE
  /\ mu' = NoJob /\ ncGate' = [k \in Keys |-> NoJob]
  /\ retiring' = {} /\ scan' = NoScan
  /\ ncJob' = [j \in Jobs |-> IF ncJob[j].pc \in {"new", "done"} THEN ncJob[j]
                            ELSE [NCFresh("crashed", ncJob[j].pin) EXCEPT !.stage = ncJob[j].stage]]
  /\ UNCHANGED <<entry, ncTombs, marker, now>>

(* recoverNamedCaches: every job named by a holder file or a lease has its  *)
(* processes cleaned up and then settles; if the cleanup fails, or the      *)
(* receipt is unreadable, its pin stays.  A job nothing names has nothing   *)
(* to settle.                                                               *)
RecoverJob(j, cleaned) ==
  /\ ~ncUp /\ ncJob[j].pc = "crashed"
  /\ Goto(j, IF cleaned THEN "settle" ELSE "kept")
  /\ UNCHANGED <<entry, ncTombs, retiring, mu, ncGate, marker, ncUp, scan, now, crashes>>

NCServe ==
  /\ ~ncUp /\ \A j \in Jobs : ncJob[j].pc \in {"new", "done", "kept"}
  /\ ncUp' = TRUE
  /\ UNCHANGED <<entry, ncTombs, retiring, mu, ncGate, marker, ncJob, scan, now, crashes>>

-----------------------------------------------------------------------------
(* The store found at the start, before recovery: no cache, a directory of  *)
(* an older runner that is idle or still leased to its job (which may have  *)
(* removed the files), or a tree whose recorded size is wrong.              *)
OldEntry(tree, lease, data) ==
  [there |-> TRUE, tree |-> tree, lease |-> lease, holders |-> {}, used |-> 0,
   bytes |-> IF tree THEN 1 ELSE NCBytes(data), unknown |-> FALSE, data |-> data,
   gens |-> {}, current |-> NoJob]

OldEntries(k) ==
  LET old == {j \in DirJobs : KeyOf[j] = k} IN
  {Absent, OldEntry(TRUE, NoJob, Empty)}
  \cup {OldEntry(FALSE, NoJob, j) : j \in old}
  \cup UNION {{OldEntry(FALSE, j, c) : c \in old \cup {NCMissing}} : j \in old}

Leases(es) == {j \in DirJobs : es[KeyOf[j]].there /\ es[KeyOf[j]].lease = j}

NCInit ==
  /\ entry \in {es \in [Keys -> UNION {OldEntries(k) : k \in Keys}] : \A k \in Keys : es[k] \in OldEntries(k)}
  /\ ncTombs = {} /\ retiring = {} /\ mu = NoJob
  /\ ncGate = [k \in Keys |-> NoJob]
  /\ marker = FALSE
  /\ ncJob = [j \in Jobs |->
       NCFresh(IF j \in TreeJobs THEN "new" ELSE IF j \in Leases(entry) THEN "crashed" ELSE "done",
             j \in Leases(entry))]
  /\ ncUp = FALSE /\ scan = NoScan
  /\ now = 1 /\ crashes = 0

JobStep(j) ==
  \/ AcquireTreeCreate(j) \/ CreateRename(j) \/ AcquireTreeBusy(j) \/ AcquireTree(j) \/ AddHolder(j)
  \/ RestoreStart(j) \/ NCRestoreExpose(j)
  \/ (\E p \in BOOLEAN : Exit(j, p))
  \/ PublishSkip(j) \/ PublishStart(j) \/ PublishSwitch(j) \/ RetireTree(j)
  \/ NCSettle(j) \/ ReleaseTree(j)
  \/ ReleaseMeasure(j)
  \/ (\E err \in {"none", "before", "after"} : NCRelease(j, err))
  \/ Discard(j)

JobFault(j) ==
  \/ RestoreFail(j) \/ (\E left \in BOOLEAN : PublishFail(j, left))
  \/ Change(j) \/ DeleteData(j)

ScanStep ==
  \/ \E k \in Keys : CollectUnusedTrees(k) \/ MeasureNext(k)
  \/ ScanData \/ ScanTrees \/ RecordMeasurement \/ MeasureStop \/ GCEvict

Recovery ==
  \/ \E j \in Jobs : \E cleaned \in BOOLEAN : RecoverJob(j, cleaned)
  \/ NCServe

NCNext ==
  \/ \E j \in Jobs : JobStep(j) \/ JobFault(j)
  \/ \E kind \in {"gc", "measure"} : ScanStart(kind)
  \/ \E k \in Keys : MarkSizeStale(k)
  \/ ScanStep \/ LegacyMarker
  \/ \E t \in ncTombs : \E ok \in BOOLEAN : RemoveRetired(t, ok)
  \/ Crash \/ Recovery

NCSpec == NCInit /\ [][NCNext]_ncVars

-----------------------------------------------------------------------------
NCTypeOK ==
  /\ \A k \in Keys : entry[k] = Absent \/
       /\ entry[k].lease \in DirJobs \cup {NoJob} /\ entry[k].holders \subseteq TreeJobs
       /\ entry[k].used \in 0..MaxTime /\ entry[k].bytes \in Nat /\ entry[k].unknown \in BOOLEAN
       /\ entry[k].data \in Contents /\ entry[k].gens \subseteq TreeJobs
       /\ entry[k].current \in TreeJobs \cup {NoJob}
  /\ mu \in Jobs \cup {NoJob} /\ ncGate \in [Keys -> Jobs \cup {NoJob}]
  /\ now \in 1..MaxTime /\ marker \in BOOLEAN /\ ncUp \in BOOLEAN

(* A pin that AcquireTree or Acquire granted stays on disk until the job's  *)
(* own settlement removes it: no collection, no sibling and no restart      *)
(* takes the cache from under it.                                           *)
PinsKept ==
  \A j \in Jobs : ncJob[j].pin =>
    LET e == entry[KeyOf[j]] IN e.there /\ IF j \in TreeJobs THEN j \in e.holders ELSE e.lease = j

(* A shared pin and an exclusive lease never meet ("both exclusive and      *)
(* shared holders" makes the record unreadable).                            *)
NeverBoth == \A k \in Keys : entry[k].there => entry[k].lease = NoJob \/ entry[k].holders = {}

(* While a job copies a generation, that generation is whole on disk.       *)
RestoreWhole ==
  \A j \in Jobs : ncJob[j].pc = "copying" /\ ncJob[j].source[1] = "tree" =>
    ncJob[j].source[2] \in entry[KeyOf[j]].gens

(* The link names a generation that is there, and a job that replaces it    *)
(* changed what it restored: a reader never supersedes an installation.     *)
LinkSound ==
  /\ \A k \in Keys : entry[k].there /\ entry[k].current # NoJob => entry[k].current \in entry[k].gens
  /\ \A j \in Jobs : ncJob[j].pc \in {"generation", "retire"} => ncJob[j].copy # ncJob[j].base

(* Two parties never remove the same name, and what someone is removing is  *)
(* no longer part of a cache.                                               *)
TombsDetached ==
  /\ retiring \subseteq ncTombs
  /\ \A k \in Keys : entry[k].there => \A g \in entry[k].gens : GenTomb(k, g) \notin retiring

(* A settled job leaves no half-copied stage in its workspace. *)
NoStageLeft == \A j \in Jobs : ncJob[j].pc = "done" => ~ncJob[j].stage

(* Once the legacy sizes are invalidated, a size that an idle cache reports *)
(* as known is the size of its data and of its current tree, although every *)
(* walk ran without the lock.                                               *)
SizesExact ==
  marker => \A k \in Keys :
    LET e == entry[k] IN
    e.there /\ ~Protected(e) /\ ~e.unknown => e.bytes = DataBytes(e) + TreeBytes(e, TRUE)

(* What a holder of a cache may rely on (trees.go, tree_holders.go,         *)
(* store.go) while others publish, collect, measure and die: its tree stays *)
(* whole and in place, nothing is removed twice, and sizes are exact.       *)
CachesSafe ==
  /\ NCTypeOK /\ TombsDetached /\ NoStageLeft /\ PinsKept /\ NeverBoth /\ RestoreWhole /\ LinkSound
  /\ SizesExact
=============================================================================
