----------------------------- MODULE Workspaces -----------------------------
(***************************************************************************)
(* Persistent workspaces of a runner (internal/daemon/workspaces.go,        *)
(* workspaces_http.go, workspace_leases.go, workspace_upload.go): creation  *)
(* and removal under reusable identifiers, names and inode numbers, the     *)
(* membership of jobs with their named caches and process scopes, uploads   *)
(* that must land in the directory they were admitted for, crashes and the  *)
(* recovery of the leases.                                                  *)
(*                                                                          *)
(* A step is what happens under the store's mutex, or between two durable   *)
(* writes; the gate of a workspace is held across several steps.            *)
(***************************************************************************)
EXTENDS Integers, FiniteSets

CONSTANTS
  WsIds,       \* identifiers a client may create workspaces under, 1 .. n
  WsJobs,      \* jobs that name a workspace
  Creators,    \* concurrent creation requests
  Pushers,     \* concurrent upload requests
  DataInodes,  \* inode numbers of data directories; all four are numbered 1 .. n
  MaxCreate,   \* bound: directories created
  MaxWsCrash,  \* bound: crashes of the daemon
  None

\* The record of a workspace, its data directory by inode number and incarnation.
WorkspaceRecords ==
  [dir : [ino : DataInodes, inc : Nat], jobs : SUBSET WsJobs, cacheLease : WsJobs \union {None},
   pending : BOOLEAN, base : BOOLEAN, cacheDir : BOOLEAN]

ASSUME WorkspacesAssumption ==
  /\ None \notin WsIds \union WsJobs \union Creators \union Pushers \union DataInodes
  /\ WsIds \union Creators \union Pushers \union DataInodes \subseteq Nat \ {0}
  /\ None \notin WorkspaceRecords
  /\ MaxCreate \in Nat /\ MaxWsCrash \in Nat

VARIABLES
  ws,        \* ws[id]: the workspace published under id, or None
  made,      \* how many data directories were created
  create,    \* create[c]: a creation request and its .create- directory
  tombs,     \* .removed- directories not yet deleted
  gate,      \* gate[id]: the job holding the gate of the workspace, or None
  uploads,   \* uploads[id]: the upload admitted for id, or None
  push,      \* push[p]: an upload request
  job,       \* job[j]: a job and its durable files
  serving,   \* FALSE while the daemon recovers
  wsCrashes

wsVars == <<ws, made, create, tombs, gate, uploads, push, job, serving, wsCrashes>>

-----------------------------------------------------------------------------
(* A data directory: its inode number, and the incarnation that tells it    *)
(* from an earlier directory with the same number.                          *)

NoDir == [ino |-> None, inc |-> 0]

\* A number is free once its directory is deleted and no handle is open.
FreeInodes ==
  DataInodes \ ({ws[i].dir.ino : i \in {x \in WsIds : ws[x] # None}}
                \union {create[c].dir.ino : c \in Creators}
                \union {d.ino : d \in tombs}
                \union {push[p].pin.ino : p \in Pushers})

IdleCreate == [pc |-> "idle", id |-> None, dir |-> NoDir]
IdlePush == [pc |-> "idle", id |-> None, row |-> None, pin |-> NoDir, into |-> 0]

\* ref is workspace-lease.json, scope is scope.json, alive the incarnation
\* of the directory the command runs in, lease the identifier in memory.
NewJob == [pc |-> "new", id |-> None, lease |-> None, ref |-> None, scope |-> "none",
           alive |-> 0, ok |-> FALSE, tree |-> FALSE]

WsInit ==
  /\ ws = [i \in WsIds |-> None]
  /\ made = 0
  /\ create = [c \in Creators |-> IdleCreate]
  /\ tombs = {}
  /\ gate = [i \in WsIds |-> None]
  /\ uploads = [i \in WsIds |-> None]
  /\ push = [p \in Pushers |-> IdlePush]
  /\ job = [j \in WsJobs |-> NewJob]
  /\ serving = TRUE /\ wsCrashes = 0

Members(i) == IF ws[i] = None THEN {} ELSE ws[i].jobs

-----------------------------------------------------------------------------
(* Creation and removal.  All workspaces of the model share one name.       *)

\* Nothing tells two requests, identifiers or inode numbers apart: they are
\* numbered in the order of their first use.
FirstIdle(S, request, k) == \A l \in S : l < k => request[l].pc # "idle"
InUse(S) == {k \in S : k <= made + 1}

\* The name is looked up, then the tree is extracted outside the mutex.
CreateBegin(c, i) ==
  /\ serving /\ create[c].pc = "idle" /\ made < MaxCreate
  /\ FirstIdle(Creators, create, c) /\ i \in InUse(WsIds)
  /\ \A x \in WsIds : ws[x] = None
  /\ made' = made + 1
  /\ \E n \in InUse(FreeInodes) :
       create' = [create EXCEPT ![c] = [pc |-> "extract", id |-> i, dir |-> [ino |-> n, inc |-> made']]]
  /\ UNCHANGED <<ws, tombs, gate, uploads, push, job, serving, wsCrashes>>

\* The extraction or the request failed: the directory is removed.
CreateFail(c) ==
  /\ create[c].pc = "extract"
  /\ create' = [create EXCEPT ![c] = IdleCreate]
  /\ UNCHANGED <<ws, made, tombs, gate, uploads, push, job, serving, wsCrashes>>

\* publish looks the name and the identifier up again under the mutex.
Publishable(i) == \A x \in WsIds : ws[x] = None

NewWorkspace(dir) ==
  [dir |-> dir, jobs |-> {}, cacheLease |-> None, pending |-> FALSE, base |-> FALSE, cacheDir |-> FALSE]

CreatePublish(c) ==
  LET i == create[c].id
  IN /\ create[c].pc = "extract"
     /\ ws' = IF Publishable(i) THEN [ws EXCEPT ![i] = NewWorkspace(create[c].dir)] ELSE ws
     /\ create' = [create EXCEPT ![c] = IdleCreate]
     /\ UNCHANGED <<made, tombs, gate, uploads, push, job, serving, wsCrashes>>

\* An idle workspace becomes a tombstone.
RemoveWorkspace(i) ==
  /\ serving /\ gate[i] = None
  /\ ws[i] # None /\ ws[i].jobs = {}
  /\ tombs' = tombs \union {ws[i].dir}
  /\ ws' = [ws EXCEPT ![i] = None]
  /\ UNCHANGED <<made, create, gate, uploads, push, job, serving, wsCrashes>>

\* Its tree is removed after the mutex is released.
RemoveTree(d) ==
  /\ d \in tombs
  /\ tombs' = tombs \ {d}
  /\ UNCHANGED <<ws, made, create, gate, uploads, push, job, serving, wsCrashes>>

-----------------------------------------------------------------------------
(* A job joins the workspace.                                               *)

Steps(j, pc) == job' = [job EXCEPT ![j].pc = pc]

Hold(j, i) == gate' = [gate EXCEPT ![i] = j]
Leave(i) == gate' = [gate EXCEPT ![i] = None]

\* Under the gate, the reverse reference is written first.
AcquireRef(j, i) ==
  /\ serving /\ job[j].pc = "new" /\ gate[i] = None
  /\ ws[i] # None
  /\ Hold(j, i)
  /\ job' = [job EXCEPT ![j] = [@ EXCEPT !.pc = "acquire", !.id = i, !.lease = i, !.ref = i]]
  /\ UNCHANGED <<ws, made, create, tombs, uploads, push, serving, wsCrashes>>

\* The first member owns the cache lease, and its directories are restored.
Joined(i, j) ==
  [ws EXCEPT ![i].jobs = @ \union {j},
             ![i].cacheLease = IF ws[i].jobs = {} THEN j ELSE @,
             ![i].pending = IF ws[i].jobs = {} THEN TRUE ELSE @]

AcquireWrite(j) ==
  LET i == job[j].lease
  IN /\ job[j].pc = "acquire"
     /\ ws' = Joined(i, j)
     /\ Leave(i)
     /\ Steps(j, "staged")
     /\ UNCHANGED <<made, create, tombs, uploads, push, serving, wsCrashes>>

\* The write of the record fails, before or after its rename.
AcquireFail(j) ==
  LET i == job[j].lease
  IN /\ job[j].pc = "acquire"
     /\ ws' \in {ws, Joined(i, j)}
     /\ Leave(i)
     /\ Steps(j, "stopped")
     /\ UNCHANGED <<made, create, tombs, uploads, push, serving, wsCrashes>>

\* A cancelled or failed preparation, or a launch that never started the
\* command: the admission is rolled back.
StageFail(j) ==
  LET i == job[j].lease
  IN /\ job[j].pc \in {"staged", "save", "expose", "ready", "scoped"}
     /\ gate' = IF gate[i] = j THEN [gate EXCEPT ![i] = None] ELSE gate
     /\ Steps(j, "stopped")
     /\ UNCHANGED <<ws, made, create, tombs, uploads, push, serving, wsCrashes>>

BugNeedsRestore(i) == ~ws[i].cacheDir

\* A missing directory is repaired only until the first member is prepared;
\* afterwards its absence is a member's deliberate deletion.
NeedsRestore(i) == ~ws[i].base \/ (ws[i].pending /\ ~ws[i].cacheDir)

\* prepareNamedCacheTrees takes the gate and a holder on the shared tree.
PrepareBegin(j) ==
  LET i == job[j].lease
  IN /\ serving /\ job[j].pc = "staged" /\ gate[i] = None
     /\ Hold(j, i)
     /\ job' = [job EXCEPT ![j] = [@ EXCEPT !.tree = TRUE,
                                            !.pc = IF NeedsRestore(i) THEN "save" ELSE "prepared"]]
     /\ UNCHANGED <<ws, made, create, tombs, uploads, push, serving, wsCrashes>>

\* The comparison base is saved before the directory is exposed.  A live
\* directory of an older receipt is only fingerprinted.
RestoreSave(j) ==
  LET i == job[j].lease
  IN /\ job[j].pc = "save"
     /\ ws' = [ws EXCEPT ![i].base = TRUE]
     /\ Steps(j, IF ws[i].cacheDir THEN "prepared" ELSE "expose")
     /\ UNCHANGED <<made, create, tombs, gate, uploads, push, serving, wsCrashes>>

RestoreExpose(j) ==
  /\ job[j].pc = "expose"
  /\ ws' = [ws EXCEPT ![job[j].lease].cacheDir = TRUE]
  /\ Steps(j, "prepared")
  /\ UNCHANGED <<made, create, tombs, gate, uploads, push, serving, wsCrashes>>

\* No member launches before the trees are recorded as live.
PrepareEnd(j) ==
  LET i == job[j].lease
  IN /\ job[j].pc = "prepared"
     /\ ws' = [ws EXCEPT ![i].pending = FALSE]
     /\ Leave(i)
     /\ Steps(j, "ready")
     /\ UNCHANGED <<made, create, tombs, uploads, push, serving, wsCrashes>>

-----------------------------------------------------------------------------
(* The command.                                                             *)

\* scope.json with the marker precedes Start.
LaunchScope(j) ==
  /\ serving /\ job[j].pc = "ready"
  /\ job' = [job EXCEPT ![j] = [@ EXCEPT !.pc = "scoped", !.scope = "token"]]
  /\ UNCHANGED <<ws, made, create, tombs, gate, uploads, push, serving, wsCrashes>>

Start(j) ==
  /\ job[j].pc = "scoped"
  /\ job' = [job EXCEPT ![j] = [@ EXCEPT !.pc = "started", !.alive = ws[job[j].lease].dir.inc]]
  /\ UNCHANGED <<ws, made, create, tombs, gate, uploads, push, serving, wsCrashes>>

\* The process group is captured and recorded after Start.
RecordGroup(j) ==
  /\ job[j].pc = "started"
  /\ job' = [job EXCEPT ![j] = [@ EXCEPT !.pc = "running", !.scope = "group"]]
  /\ UNCHANGED <<ws, made, create, tombs, gate, uploads, push, serving, wsCrashes>>

\* Without a recorded identity the command may not outlive the daemon: it is
\* killed.  If the group could not be captured either, who is left is unknown.
RecordGroupFail(j) ==
  /\ job[j].pc = "started"
  /\ \/ job' = [job EXCEPT ![j] = [@ EXCEPT !.pc = "stopped", !.alive = 0]]
     \/ \E left \in {0, job[j].alive} :
          job' = [job EXCEPT ![j] = [@ EXCEPT !.pc = "retained", !.alive = left]]
  /\ UNCHANGED <<ws, made, create, tombs, gate, uploads, push, serving, wsCrashes>>

\* A command creates or deletes the directory of the cache.
CommandEdit(j) ==
  /\ job[j].alive # 0
  /\ \E i \in WsIds :
       /\ ws[i] # None /\ ws[i].dir.inc = job[j].alive
       /\ ws' = [ws EXCEPT ![i].cacheDir = ~@]
  /\ UNCHANGED <<made, create, tombs, gate, uploads, push, job, serving, wsCrashes>>

\* The command ends and its scope is empty.
CommandExit(j) ==
  /\ job[j].pc = "running"
  /\ \E ok \in BOOLEAN :
       job' = [job EXCEPT ![j] = [@ EXCEPT !.pc = "stopped", !.alive = 0, !.ok = ok]]
  /\ UNCHANGED <<ws, made, create, tombs, gate, uploads, push, serving, wsCrashes>>

\* Processes of the scope could not be removed: everything is retained.
ScopeFail(j) ==
  /\ job[j].pc = "running"
  /\ Steps(j, "retained")
  /\ UNCHANGED <<ws, made, create, tombs, gate, uploads, push, serving, wsCrashes>>

\* A process that lost its daemon ends by itself.
OrphanExit(j) ==
  /\ job[j].pc \in {"retained", "protected"} /\ job[j].alive # 0
  /\ job' = [job EXCEPT ![j].alive = 0]
  /\ UNCHANGED <<ws, made, create, tombs, gate, uploads, push, serving, wsCrashes>>

-----------------------------------------------------------------------------
(* returnWorkspace.                                                         *)

\* Shared caches are published and settled by the last member only.
LastMember(i, j) == ws[i].jobs = {j}

ReturnBegin(j) ==
  LET i == job[j].lease
  IN /\ job[j].pc = "stopped" /\ gate[i] = None
     /\ IF j \notin Members(i)
        THEN Steps(j, "returned") /\ UNCHANGED gate
        ELSE /\ Hold(j, i)
             /\ Steps(j, IF ~LastMember(i, j) THEN "leave" ELSE IF job[j].ok THEN "publish" ELSE "settle")
     /\ UNCHANGED <<ws, made, create, tombs, uploads, push, serving, wsCrashes>>

\* The published trees become the comparison base, before the last pin goes.
ReturnPublish(j) ==
  /\ job[j].pc = "publish"
  /\ ws' = [ws EXCEPT ![job[j].lease].base = TRUE]
  /\ Steps(j, "settle")
  /\ UNCHANGED <<made, create, tombs, gate, uploads, push, serving, wsCrashes>>

\* The cache lease of the workspace is settled while it is still recorded.
ReturnSettle(j) ==
  /\ job[j].pc = "settle"
  /\ Steps(j, "leave")
  /\ UNCHANGED <<ws, made, create, tombs, gate, uploads, push, serving, wsCrashes>>

\* The record without the member.
Departed(i, j) ==
  LET left == ws[i].jobs \ {j}
  IN [ws EXCEPT ![i].jobs = left,
                ![i].cacheLease = IF left = {} THEN None ELSE @,
                ![i].pending = left # {} /\ @]

\* A failed publication record or settlement keeps the membership; a failed
\* write of the record may have replaced it already.
ReturnFail(j) ==
  LET i == job[j].lease
  IN /\ job[j].pc \in {"publish", "settle", "leave"}
     /\ Leave(i)
     /\ ws' \in {ws} \union (IF job[j].pc = "leave" THEN {Departed(i, j)} ELSE {})
     /\ Steps(j, "retained")
     /\ UNCHANGED <<made, create, tombs, uploads, push, serving, wsCrashes>>

\* The job's holders are released, then it leaves the record.
ReturnLeave(j) ==
  LET i == job[j].lease
  IN /\ job[j].pc = "leave"
     /\ ws' = Departed(i, j)
     /\ Leave(i)
     /\ job' = [job EXCEPT ![j] = [@ EXCEPT !.pc = "returned", !.tree = FALSE]]
     /\ UNCHANGED <<made, create, tombs, uploads, push, serving, wsCrashes>>

\* The scope record goes last, and the result is written.
Settled(j) ==
  /\ job[j].pc = "returned"
  /\ job' = [job EXCEPT ![j] = [@ EXCEPT !.pc = "done", !.scope = "none", !.tree = FALSE]]
  /\ UNCHANGED <<ws, made, create, tombs, gate, uploads, push, serving, wsCrashes>>

-----------------------------------------------------------------------------
(* Uploads: one source tree per workspace.                                  *)

PushRead(p, i) ==
  /\ serving /\ push[p].pc = "idle" /\ FirstIdle(Pushers, push, p)
  /\ ws[i] # None
  /\ push' = [push EXCEPT ![p] = [@ EXCEPT !.pc = "wait", !.id = i, !.row = ws[i].dir.ino]]
  /\ UNCHANGED <<ws, made, create, tombs, gate, uploads, job, serving, wsCrashes>>

\* Stands in uploads for a request whose cleanup failed.
CleanupFailed == 0

\* A failed cleanup keeps the identifier's storage bound until a restart.
PushBegin(p) ==
  LET i == push[p].id
  IN /\ push[p].pc = "wait"
     /\ \/ /\ uploads[i] = None
           /\ uploads' = [uploads EXCEPT ![i] = p]
           /\ push' = [push EXCEPT ![p].pc = "admitted"]
        \/ /\ uploads[i] = CleanupFailed
           /\ push' = [push EXCEPT ![p].pc = "done"]
           /\ UNCHANGED uploads
     /\ UNCHANGED <<ws, made, create, tombs, gate, job, serving, wsCrashes>>

\* openWorkspaceData: an open handle keeps the inode number allocated.
Pinned(dir) == dir

PushPin(p) ==
  LET i == push[p].id
  IN /\ push[p].pc = "admitted"
     /\ push' = [push EXCEPT ![p] =
          IF ws[i] # None /\ ws[i].dir.ino = push[p].row
          THEN [@ EXCEPT !.pc = "upload", !.pin = Pinned(ws[i].dir)]
          ELSE [@ EXCEPT !.pc = "finish"]]
     /\ UNCHANGED <<ws, made, create, tombs, gate, uploads, job, serving, wsCrashes>>

\* Under the gate, after the body arrived: the directory must be the one that
\* was admitted.
PushStage(p) ==
  LET i == push[p].id
  IN /\ push[p].pc = "upload" /\ gate[i] = None
     /\ push' = [push EXCEPT ![p] =
          IF ws[i] # None /\ ws[i].dir.ino = push[p].row
          THEN [@ EXCEPT !.pc = "finish", !.into = ws[i].dir.inc]
          ELSE [@ EXCEPT !.pc = "finish"]]
     /\ UNCHANGED <<ws, made, create, tombs, gate, uploads, job, serving, wsCrashes>>

\* The handle is closed, then the source tree is removed.
PushFinish(p) ==
  /\ push[p].pc = "finish"
  /\ \E left \in {None, CleanupFailed} : uploads' = [uploads EXCEPT ![push[p].id] = left]
  /\ push' = [push EXCEPT ![p] = [@ EXCEPT !.pc = "done", !.pin.ino = None]]
  /\ UNCHANGED <<ws, made, create, tombs, gate, job, serving, wsCrashes>>

-----------------------------------------------------------------------------
(* Crash and recovery.                                                      *)

\* openWorkspaces sweeps what no workspace owns; commands keep running.
WsCrash ==
  /\ wsCrashes < MaxWsCrash
  /\ wsCrashes' = wsCrashes + 1
  /\ serving' = FALSE
  /\ create' = [c \in Creators |-> IdleCreate]
  /\ tombs' = {}
  /\ gate' = [i \in WsIds |-> None] /\ uploads' = [i \in WsIds |-> None]
  /\ push' = [p \in Pushers |-> IF push[p].pc = "idle" THEN IdlePush ELSE [push[p] EXCEPT !.pc = "done", !.pin.ino = None]]
  /\ job' = [j \in WsJobs |-> IF job[j].pc = "new" \/ job[j].pc = "done" THEN job[j]
                              ELSE [job[j] EXCEPT !.pc = "recover", !.ok = FALSE]]
  /\ UNCHANGED <<ws, made>>

BugRecoverable(j) == job[j].scope \in {"none", "group", "token"}

\* A marker without a process group cannot tell whose the processes are.
Recoverable(j) == job[j].scope \in {"none", "group"}

\* cleanupPersistedRuntime: the recorded group is ended, then the workspace
\* is returned; otherwise the lease protects what may still run.
WsRecover(j) ==
  /\ job[j].pc = "recover"
  /\ \/ /\ Recoverable(j)
        /\ job' = [job EXCEPT ![j].pc = "stopped",
                              ![j].alive = IF job[j].scope = "group" THEN 0 ELSE @]
     \/ /\ ~Recoverable(j) \/ job[j].scope = "group"
        /\ Steps(j, "protected")
  /\ UNCHANGED <<ws, made, create, tombs, gate, uploads, push, serving, wsCrashes>>

\* The daemon serves requests once every receipt was reconciled.
Serve ==
  /\ ~serving
  /\ \A j \in WsJobs : job[j].pc \in {"new", "done", "retained", "protected"}
  /\ serving' = TRUE
  /\ UNCHANGED <<ws, made, create, tombs, gate, uploads, push, job, wsCrashes>>

WsNext ==
  \/ \E c \in Creators :
       \/ \E i \in WsIds : CreateBegin(c, i)
       \/ CreateFail(c) \/ CreatePublish(c)
  \/ \E i \in WsIds : RemoveWorkspace(i)
  \/ \E d \in tombs : RemoveTree(d)
  \/ \E j \in WsJobs :
       \/ \E i \in WsIds : AcquireRef(j, i)
       \/ AcquireWrite(j) \/ AcquireFail(j) \/ StageFail(j)
       \/ PrepareBegin(j) \/ RestoreSave(j) \/ RestoreExpose(j) \/ PrepareEnd(j)
       \/ LaunchScope(j) \/ Start(j) \/ RecordGroup(j) \/ RecordGroupFail(j)
       \/ CommandEdit(j) \/ CommandExit(j) \/ ScopeFail(j) \/ OrphanExit(j)
       \/ ReturnBegin(j) \/ ReturnPublish(j) \/ ReturnSettle(j) \/ ReturnFail(j) \/ ReturnLeave(j)
       \/ Settled(j) \/ WsRecover(j)
  \/ \E p \in Pushers :
       \/ \E i \in WsIds : PushRead(p, i)
       \/ PushBegin(p) \/ PushPin(p) \/ PushStage(p) \/ PushFinish(p)
  \/ WsCrash \/ Serve

WsSpec == WsInit /\ [][WsNext]_wsVars

-----------------------------------------------------------------------------
(* Properties.                                                              *)

\* A command only runs in a published directory whose record names its job.
LeaseCoversLive ==
  \A j \in WsJobs : job[j].alive # 0 =>
    \E i \in WsIds : ws[i] # None /\ ws[i].dir.inc = job[j].alive /\ j \in ws[i].jobs

\* What decode demands of a record, and the reverse reference of a member.
LeaseShape ==
  \A i \in WsIds : ws[i] # None =>
    /\ ws[i].jobs = {} <=> ws[i].cacheLease = None
    /\ ws[i].jobs = {} => ~ws[i].pending
    /\ \A j \in ws[i].jobs : job[j].ref = i

\* A settled job has left nothing behind.
SettledReturned ==
  \A j \in WsJobs : job[j].pc = "done" =>
    /\ \A i \in WsIds : j \notin Members(i)
    /\ job[j].alive = 0 /\ ~job[j].tree /\ job[j].scope = "none"

(* An upload is staged into the very directory that was admitted, although  *)
(* the workspace may be removed and created again meanwhile under the same  *)
(* identifier and the same inode number; and one name has one workspace.    *)
PushLandsPinned ==
  /\ \A p \in Pushers : push[p].into \in {0, push[p].pin.inc}
  /\ Cardinality({i \in WsIds : ws[i] # None}) <= 1

(* The record of a workspace names every job whose command may still run in *)
(* it, across crashes at any point of admission, launch and return, so it   *)
(* cannot be removed or replaced under a running command; and a job that    *)
(* settled holds neither a membership nor a process nor a cache holder.     *)
(* An upload stays within the directory it was admitted for.                *)
WorkspaceLeased == LeaseCoversLive /\ LeaseShape /\ SettledReturned /\ PushLandsPinned

(* A cache directory is restored, and shared trees are published, only      *)
(* while no command runs in the workspace: not over the live changes, or    *)
(* the deliberate deletion, of a sibling that is already running.           *)
CachesQuiet ==
  \A j \in WsJobs : job[j].pc \in {"expose", "publish"} =>
    \A k \in WsJobs : job[k].alive = 0 \/ job[k].alive # ws[job[j].lease].dir.inc

(* What a runner promises of its workspaces (workspaces.go,                 *)
(* workspace_leases.go, workspace_push.go, cache_trees.go).                 *)
LeasesSafe == WorkspaceLeased /\ CachesQuiet
=============================================================================
