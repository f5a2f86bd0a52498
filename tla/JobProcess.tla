----------------------------- MODULE JobProcess -----------------------------
(***************************************************************************)
(* The processes of one job on a Unix runner: how a scope recognises them   *)
(* (process_scope_unix.go, process_group_unix.go), how the wait goroutine   *)
(* and a restarted daemon kill what is left of them (job.go launch,         *)
(* server.go cleanupPersistedRuntime), and how signals race the exit of the *)
(* leader and the collection of changes (job.go terminate, Signal).         *)
(*                                                                          *)
(* A scan of /proc lists the processes and then reads them one by one,      *)
(* while they fork, leave their group, change directory or exit.  Reading   *)
(* the environment and the directory of one process is one step.  A killed  *)
(* or exiting process is gone at once, except the leader, which its parent, *)
(* the daemon, has to wait for.                                             *)
(*                                                                          *)
(* Assumption: the kernel gives out identifiers in turn, so that one is not *)
(* used again within the seconds of a cleanup or of a signal (Quiet).       *)
(* Nor do processes of others start or end in those seconds: one that has   *)
(* the recorded leader's number, forks and exits while members(false) reads *)
(* /proc is not seen there, and what it leaves behind is then killed as the *)
(* job's group (server.go:559).                                             *)
(***************************************************************************)
EXTENDS Naturals, FiniteSetsExt

CONSTANTS
  Pids,        \* process identifiers; the leader gets 1
  Signallers,  \* control requests and the runtime timer
  MaxMoves,    \* bound: forks and other changes of processes
  MaxDaemons   \* bound: crashes of the daemon

ASSUME JobProcessAssumption ==
  /\ Pids \subseteq Nat \ {0} /\ 1 \in Pids /\ IsFiniteSet(Pids)
  /\ MaxMoves \in Nat /\ MaxDaemons \in Nat

VARIABLES
  sharedWs,    \* the job runs in a persistent workspace
  table,       \* the kernel's process table
  booted,      \* the machine was booted again
  moves, stops,
  used,        \* identifiers that were in use before
  scopeFile,   \* scope.json: "none", "token", "group"
  at,          \* where launch, the wait goroutine or the recovery is
  group,       \* scope.group is set
  owned,       \* scope.groupOwned
  setupErr,    \* scopeCaptureErr
  scan,        \* the scan of /proc in progress
  request,     \* request[r]: where a call of Signal or terminate is
  jobReaped,   \* j.reaped
  cancelWanted,\* j.changeCancelRequest
  collection,  \* of changes: "none", "armed" (j.changeCancel set), "cancelled",
               \* "publish" (past the last look at its context), "kept", "ended"
  \* History.
  moved,       \* processes started or changed since the last listing
  strayKill,   \* a process outside the scope was killed
  owed         \* a signal found the group gone before the collection was published

osVars == <<table, booted, used, moves, moved>>
jobVars == <<scopeFile, group, owned, setupErr>>
ctlVars == <<request, jobReaped, cancelWanted, collection, owed>>
jpVars == <<sharedWs, osVars, stops, at, jobVars, scan, ctlVars, strayKill>>

-----------------------------------------------------------------------------
(* The process table.  first tells the leader from a later process with the *)
(* same identifier, as its birth time does; mine, what descends from it.    *)

NoProcess == [run |-> "no", grp |-> 0, mark |-> FALSE, cwd |-> FALSE, mine |-> FALSE, first |-> FALSE]
Leader == [run |-> "yes", grp |-> 1, mark |-> TRUE, cwd |-> TRUE, mine |-> TRUE, first |-> TRUE]
NoScan == [listed |-> {}, found |-> {}, birth |-> "none"]

Alive(p) == table[p].run = "yes"
Listed == {p \in Pids : table[p].run # "no"}

JPInit ==
  /\ sharedWs \in BOOLEAN
  /\ table = [p \in Pids |-> NoProcess] /\ booted = FALSE /\ used = {} /\ moves = 0 /\ stops = 0
  /\ scopeFile = "none" /\ at = "launch" /\ group = FALSE /\ owned = FALSE /\ setupErr = FALSE
  /\ scan = NoScan /\ request = [r \in Signallers |-> "idle"]
  /\ jobReaped = FALSE /\ cancelWanted = FALSE /\ collection = "none"
  /\ moved = {} /\ strayKill = FALSE /\ owed = FALSE

\* No cleanup and no signal is under way: identifiers may be used again.
Quiet ==
  /\ at \in {"run", "down", "refused", "over"}
  /\ \A r \in Signallers : request[r] \in {"idle", "answered"}

\* The kernel keeps an identifier that a process has, or that names a group.
Unused(p) ==
  /\ table[p].run = "no" /\ \A q \in Pids : table[q].grp # p
  /\ Quiet \/ p \notin used

Moves(p, to) ==
  /\ moves < MaxMoves /\ moves' = moves + 1
  /\ table' = [table EXCEPT ![p] = to] /\ used' = used \union {p} /\ moved' = moved \union {p}
  /\ UNCHANGED <<sharedWs, booted, stops, at, jobVars, scan, ctlVars, strayKill>>

\* The leader stays a zombie until the daemon that started it waits for it.
Killing(S) ==
  [p \in Pids |-> IF p \notin S THEN table[p]
                  ELSE IF table[p].first /\ stops = 0 THEN [table[p] EXCEPT !.run = "zombie"]
                  ELSE NoProcess]

Active(p) == Alive(p) /\ (table[p].mine \/ Quiet)
Fork(p, q) == Active(p) /\ Unused(q) /\ Moves(q, [table[p] EXCEPT !.first = FALSE])
Setsid(p) == Alive(p) /\ table[p].mine /\ table[p].grp # p /\ Moves(p, [table[p] EXCEPT !.grp = p])
ScrubEnv(p) == Alive(p) /\ table[p].mark /\ Moves(p, [table[p] EXCEPT !.mark = FALSE])
Chdir(p) == Alive(p) /\ table[p].mine /\ Moves(p, [table[p] EXCEPT !.cwd = ~table[p].cwd])

\* Another process of the machine, which may work in the same directory.
Stranger(p) ==
  /\ Quiet /\ Unused(p)
  /\ \E c \in BOOLEAN : Moves(p, [NoProcess EXCEPT !.run = "yes", !.grp = p, !.cwd = c])

Exit(p) ==
  /\ Active(p) /\ table' = Killing({p})
  /\ UNCHANGED <<sharedWs, booted, used, moves, moved, stops, at, jobVars, scan, ctlVars, strayKill>>

-----------------------------------------------------------------------------
(* launch: the marker is durable before the start, the group right after.   *)

Calm == UNCHANGED <<sharedWs, booted, moves, stops, scan, strayKill>>

writeScope ==
  /\ at = "launch" /\ at' = "start" /\ scopeFile' = "token"
  /\ Calm /\ UNCHANGED <<table, used, moved, group, owned, setupErr, ctlVars>>

StartLeader ==
  /\ at = "start" /\ table[1].run = "no"
  /\ table' = [table EXCEPT ![1] = Leader] /\ used' = used \union {1} /\ moved' = moved \union {1}
  /\ at' = IF sharedWs THEN "capture" ELSE "run"
  /\ Calm /\ UNCHANGED <<jobVars, ctlVars>>

captureProcessGroup ==
  /\ at = "capture"
  /\ \/ at' = "persist" /\ group' = TRUE /\ owned' = TRUE /\ UNCHANGED setupErr
     \/ at' = "stop" /\ setupErr' = TRUE /\ UNCHANGED <<group, owned>>
  /\ Calm /\ UNCHANGED <<table, used, moved, scopeFile, ctlVars>>

writeProcessScope ==
  /\ at = "persist"
  /\ \/ at' = "run" /\ scopeFile' = "group"
     \/ at' = "stop" /\ UNCHANGED scopeFile
  /\ Calm /\ UNCHANGED <<table, used, moved, group, owned, setupErr, ctlVars>>

\* What a scope recognises: marker, directory, and of a persistent job the group.
Marked(p) == Alive(p) /\ (table[p].mark \/ (~sharedWs /\ table[p].cwd))
InGroup == {p \in Listed : table[p].grp = 1}

\* kill(-leader), then signalEscaped: those outside the group that its own scan meets.
SignalKills == {InGroup \union S : S \in SUBSET {p \in Pids \ InGroup : Marked(p)}}

\* Without a durable identity the command must not outlive this daemon.
StopUnrecorded ==
  /\ at = "stop" /\ at' = "run"
  /\ \E S \in SignalKills : table' = Killing(S)
  /\ Calm /\ UNCHANGED <<used, moved, jobVars, ctlVars>>

-----------------------------------------------------------------------------
(* The wait goroutine                                                       *)

Wait ==
  /\ at = "run" /\ stops = 0 /\ table[1].run = "zombie"
  /\ table' = [table EXCEPT ![1] = NoProcess] /\ at' = "waited"
  /\ Calm /\ UNCHANGED <<used, moved, jobVars, ctlVars>>

transitionAfterProcessExit ==
  /\ at = "waited" /\ at' = "list"
  /\ jobReaped' = TRUE /\ cancelWanted' = FALSE
  /\ collection' = IF cancelWanted THEN "cancelled" ELSE "armed"
  /\ Calm /\ UNCHANGED <<table, used, moved, jobVars, request, owed>>

\* cleanup: markedPIDs lists /proc and reads each entry.
ListProcesses ==
  /\ at = "list" /\ at' = "marks"
  /\ scan' = [NoScan EXCEPT !.listed = Listed] /\ moved' = {}
  /\ UNCHANGED <<sharedWs, table, booted, used, moves, stops, jobVars, ctlVars, strayKill>>

ReadEntry(read) ==
  /\ scan.listed # {}
  /\ LET p == Min(scan.listed) IN scan' = [read EXCEPT !.listed = scan.listed \ {p}]
  /\ UNCHANGED <<sharedWs, osVars, stops, at, jobVars, ctlVars, strayKill>>

ReadMark ==
  /\ at = "marks"
  /\ ReadEntry([scan EXCEPT !.found = @ \union {p \in {Min(scan.listed)} : Marked(p)}])

\* members: a group of an earlier boot is gone; otherwise /proc is listed again.
ScanTo(to, s) ==
  /\ at' = to /\ scan' = s
  /\ UNCHANGED <<sharedWs, osVars, stops, jobVars, ctlVars, strayKill>>

MarksRead ==
  /\ at = "marks" /\ scan.listed = {}
  /\ IF group /\ ~booted THEN ScanTo("group", [scan EXCEPT !.listed = Listed]) ELSE ScanTo("judge", scan)

inspectProcessGroup ==
  /\ at \in {"group", "verify"}
  /\ LET p == Min(scan.listed) IN
       ReadEntry(IF p \notin InGroup THEN scan
                 ELSE [scan EXCEPT !.found = @ \union {q \in {p} : Alive(q)},
                                   !.birth = IF p # 1 THEN @
                                             ELSE IF table[1].first THEN "same" ELSE "other"])

\* Mutant: a leader that cannot be seen is taken for the job's.
BugMembersRefused(own) == scan.birth = "other"

\* The identity changed, or it cannot be verified after a restart.
MembersRefused(own) == scan.birth = "other" \/ (scan.found # {} /\ scan.birth = "none" /\ ~own)

GroupRead ==
  /\ at = "group" /\ scan.listed = {}
  /\ ScanTo(IF MembersRefused(owned) THEN "unclean" ELSE "judge", scan)

\* Empty, or SIGKILL for each process found.
JudgeScan == at = "judge" /\ ScanTo(IF scan.found = {} THEN "clean" ELSE "kill", scan)

KillFound ==
  /\ at = "kill" /\ scan.found # {}
  /\ LET p == Min(scan.found) IN
       /\ table' = Killing({p} \intersect Listed)
       /\ strayKill' = (strayKill \/ (Alive(p) /\ ~table[p].mine /\ ~Marked(p)))
       /\ scan' = [scan EXCEPT !.found = @ \ {p}]
  /\ UNCHANGED <<sharedWs, booted, used, moves, moved, stops, at, jobVars, ctlVars>>

\* Again, until the deadline passes or a process cannot be killed.
CleanupAgain == at = "kill" /\ scan.found = {} /\ \E to \in {"list", "unclean"} : ScanTo(to, NoScan)

-----------------------------------------------------------------------------
(* The collection of changes, and the end of the job                        *)

EndsCollection(to, c) ==
  /\ at' = to /\ collection' = c
  /\ UNCHANGED <<sharedWs, osVars, stops, jobVars, scan, request, jobReaped, cancelWanted, owed, strayKill>>

\* After an incomplete cleanup nothing is collected and the evidence is kept.
Serving == stops = 0
CollectRefused == Serving /\ (at = "unclean" \/ (at = "clean" /\ setupErr)) /\ EndsCollection("over", "ended")

CollectChanges ==
  /\ Serving /\ at = "clean" /\ ~setupErr
  /\ \/ collection = "armed" /\ EndsCollection("publish", "publish")
     \/ EndsCollection("settle", "ended")

PublishBundle == at = "publish" /\ \E c \in {"kept", "ended"} : EndsCollection("settle", c)

RemoveScope ==
  /\ at = "settle" /\ at' = "over" /\ scopeFile' = "none"
  /\ Calm /\ UNCHANGED <<table, used, moved, group, owned, setupErr, ctlVars>>

-----------------------------------------------------------------------------
(* Signal, terminate and the runtime timer                                  *)

Cancellable == collection \in {"armed", "cancelled", "publish"}
AfterCancel == IF collection = "armed" THEN "cancelled" ELSE collection

Answers(r, to) ==
  /\ request' = [request EXCEPT ![r] = to]
  /\ UNCHANGED <<sharedWs, booted, used, moves, moved, stops, at, jobVars, scan, jobReaped, strayKill>>

\* The first section of j.mu: cancel the collection, refuse, or go on to signal.
Signal(r) ==
  /\ request[r] = "idle" /\ Serving /\ at \notin {"launch", "start", "capture", "persist"}
  /\ Answers(r, IF jobReaped THEN "answered" ELSE "checked")
  /\ collection' = IF jobReaped /\ Cancellable /\ r # "runtime" THEN AfterCancel ELSE collection
  /\ UNCHANGED <<table, cancelWanted, owed>>

\* A user's signal may be survived.
DeliverSignal(r) ==
  /\ request[r] = "checked"
  /\ Answers(r, IF InGroup = {} THEN "gone" ELSE "answered")
  /\ \/ \E S \in SignalKills : table' = Killing(S)
     \/ r # "runtime" /\ UNCHANGED table
  /\ UNCHANGED <<cancelWanted, collection, owed>>

\* requestChangeCollectionCancellation: remembered until the leader is reaped.
RequestCancellation(r) ==
  /\ request[r] = "gone"
  /\ Answers(r, "answered")
  /\ cancelWanted' = (cancelWanted \/ (r # "runtime" /\ ~jobReaped))
  /\ collection' = IF r # "runtime" /\ Cancellable THEN AfterCancel ELSE collection
  /\ owed' = (owed \/ (r # "runtime" /\ collection \in {"none", "armed", "cancelled"}))
  /\ UNCHANGED table

-----------------------------------------------------------------------------
(* The daemon dies, perhaps the machine restarts, and a new daemon recovers *)

Killed ==
  /\ at \notin {"down", "over"} /\ stops < MaxDaemons /\ stops' = stops + 1 /\ at' = "down"
  /\ table' = [p \in Pids |-> IF table[p].run = "zombie" THEN NoProcess ELSE table[p]]
  /\ group' = FALSE /\ owned' = FALSE /\ setupErr' = FALSE /\ scan' = NoScan
  /\ request' = [r \in Signallers |-> "idle"] /\ cancelWanted' = FALSE /\ jobReaped' = FALSE
  /\ collection' = "none" /\ owed' = FALSE
  /\ UNCHANGED <<sharedWs, booted, used, moves, moved, scopeFile, strayKill>>

Reboot ==
  /\ at = "down" /\ ~booted /\ booted' = TRUE
  /\ table' = [p \in Pids |-> NoProcess]
  /\ UNCHANGED <<sharedWs, used, moves, moved, stops, at, jobVars, scan, ctlVars, strayKill>>

Recover(to, g, s) ==
  /\ at = "down" /\ at' = to /\ group' = g /\ scan' = s
  /\ UNCHANGED <<sharedWs, osVars, stops, scopeFile, owned, setupErr, ctlVars, strayKill>>

\* cleanupPersistedRuntime: no record, no process; a shared job needs its group.
RecoverNothing == scopeFile = "none" /\ Recover("over", FALSE, NoScan)
RecoverUnrecorded == scopeFile = "token" /\ sharedWs /\ Recover("refused", FALSE, NoScan)
RecoverMarked == scopeFile = "token" /\ ~sharedWs /\ Recover("list", FALSE, NoScan)
RecoverGroup ==
  /\ scopeFile = "group"
  /\ Recover("verify", TRUE, [NoScan EXCEPT !.listed = IF booted THEN {} ELSE Listed])

\* members(false) proved whose group it is; the cleanup may rely on it.
Verified ==
  /\ at = "verify" /\ scan.listed = {}
  /\ at' = IF MembersRefused(FALSE) THEN "refused" ELSE "list"
  /\ owned' = TRUE /\ scan' = NoScan
  /\ UNCHANGED <<sharedWs, osVars, stops, scopeFile, group, setupErr, ctlVars, strayKill>>

Recovered ==
  /\ ~Serving /\ at \in {"clean", "unclean"}
  /\ at' = IF at = "clean" THEN "settle" ELSE "refused"
  /\ Calm /\ UNCHANGED <<table, used, moved, jobVars, ctlVars>>

-----------------------------------------------------------------------------
Processes ==
  \/ \E p, q \in Pids : Fork(p, q)
  \/ \E p \in Pids : Setsid(p) \/ ScrubEnv(p) \/ Chdir(p) \/ Stranger(p) \/ Exit(p)

Launch == writeScope \/ StartLeader \/ captureProcessGroup \/ writeProcessScope \/ StopUnrecorded

Cleanup ==
  \/ ListProcesses \/ ReadMark \/ MarksRead \/ inspectProcessGroup \/ GroupRead
  \/ JudgeScan \/ KillFound \/ CleanupAgain

Settle == CollectRefused \/ CollectChanges \/ PublishBundle \/ RemoveScope

Recovery ==
  \/ Killed \/ Reboot \/ RecoverNothing \/ RecoverUnrecorded \/ RecoverMarked \/ RecoverGroup
  \/ Verified \/ Recovered

JPNext ==
  \/ Processes \/ Launch \/ Wait \/ transitionAfterProcessExit \/ Cleanup \/ Settle \/ Recovery
  \/ \E r \in Signallers : Signal(r) \/ DeliverSignal(r) \/ RequestCancellation(r)

JPSpec == JPInit /\ [][JPNext]_jpVars

-----------------------------------------------------------------------------
JPTypeOK ==
  /\ \A p \in Pids : table[p].run \in {"no", "yes", "zombie"} /\ table[p].grp \in Pids \union {0}
  /\ scopeFile \in {"none", "token", "group"} /\ scan.listed \union scan.found \subseteq Pids
  /\ collection \in {"none", "armed", "cancelled", "publish", "kept", "ended"}
  /\ \A r \in Signallers : request[r] \in {"idle", "checked", "gone", "answered"}

\* Recovery of a persistent job kills no process that is not the job's, whatever
\* has become of its identifiers; of another job, only what works in its directory.
NoStrayKill == ~strayKill

\* A cleanup that reports success has left no process that it could have recognised,
\* except one that was started, or changed so as to be recognised, during its last scan.
CleanMeansGone ==
  at \in {"clean", "publish", "settle"} =>
    \A p \in Pids : table[p].mine /\ (Marked(p) \/ (sharedWs /\ Alive(p) /\ p \in InGroup)) => p \in moved

\* A signal of the user that came after the processes were gone, but before the
\* changes were published, keeps them from being published; the runtime limit never does.
SignalHeeded == owed => collection # "kept"

\* The job's processes are found, only they are killed, and no signal is lost
\* between the exit of the leader and the collection of changes.
ProcessesSafe == JPTypeOK /\ NoStrayKill /\ CleanMeansGone /\ SignalHeeded
=============================================================================
