----------------------------- MODULE PushWatch -----------------------------
(***************************************************************************)
(* `errand push --watch`: the checkout's user, the thread that reads the   *)
(* native file events (snapshot/watch.go), the preparation that turns      *)
(* hints into a manifest (watch_prepare.go, watch_membership.go) and the   *)
(* loop that pushes it (client/push_watch.go) run side by side.            *)
(* The checkout is a root directory with a file f, and a directory s with  *)
(* a file g.  One control decides whether f is ignored: the root's         *)
(* .errandignore, or, with git, a global excludes file that no directory   *)
(* watch reaches.  A version stands for a file's bytes and its stamp; a    *)
(* directory's stamp changes with its membership.  WorkspacePush is about  *)
(* the receiver.                                                           *)
(***************************************************************************)
EXTENDS Integers, FiniteSets

CONSTANTS MaxEdits,      \* the version of the last edit; the checkout begins at version 1
          MaxFaults,     \* overflows, read failures, lost connections, expiries
          SourceRetries  \* retries of an unexplained source error

VARIABLES fs,        \* [file, dir, born, ign, ctl]: versions, 0 where there is none
          git,       \* selection by git rather than by .errandignore
          now, faults,
          w,         \* the event thread
          hints,     \* [dirty, full, owed], under dirtyMu
          changed,   \* the buffered notification
          moved,     \* the generation changed since the loop sampled it
          loop,      \* [live, dirty, timer, retry, retries]
          push,      \* the push in flight
          prepared,  \* watchPreparation
          accepted,  \* the manifest the watch remembers as pushed
          pending,   \* a push whose apply has no answer yet
          delivered  \* what the receiver last applied

pwvars == <<fs, git, now, faults, w, hints, changed, moved, loop, push, prepared, accepted, pending, delivered>>

Files == {"f", "g"}
Dirs == {"r", "s"}
DirOf == [f |-> "r", g |-> "s"]
NoManifest == [n \in {"none"} |-> 0]

Clean == -1
dirtyContent == 0
dirtyEntry == 1
dirtySubtree == 2
Names == Files \cup {"s", "ctl"}

Max2(a, b) == IF a > b THEN a ELSE b

\* The checkout as it is.
Exists(n) == IF n \in Files THEN fs.file[n] > 0 ELSE fs.dir[n] > 0
Listing(d) == IF d = "r" THEN {n \in {"f", "s"}: Exists(n)} ELSE {n \in {"g"}: Exists(n)}

\* Git lists files, the walk directories too; a build adds the directories above.
gitListFiles == {n \in Files: Exists(n) /\ (n = "f" => ~fs.ign)}
walk == gitListFiles \cup {n \in {"s"}: Exists(n)}
expandPaths(paths) == paths \cup (IF "g" \in paths THEN {"s"} ELSE {})
SelectFiles == expandPaths(IF git THEN gitListFiles ELSE walk)

Version(n) == IF n \in Files THEN fs.file[n] ELSE 0
Manifest(paths) == [n \in paths |-> Version(n)]

-----------------------------------------------------------------------------
(* Hints and notifications                                                 *)

NoHints == [dirty |-> [n \in Names |-> Clean], full |-> FALSE, owed |-> FALSE]

notifyChange == changed' = TRUE /\ moved' = TRUE

InvalidatePreparation(h) == [h EXCEPT !.full = TRUE]

requeuePreparation(h, taken, files) ==
    [dirty |-> [n \in Names |-> Max2(Max2(h.dirty[n], taken.dirty[n]), IF n \in files THEN dirtyEntry ELSE Clean)],
     full |-> h.full \/ taken.full, owed |-> h.owed \/ taken.owed]

invalidatePath(h, n, kind) ==
    [h EXCEPT !.full = @ \/ kind = dirtySubtree, !.dirty[n] = Max2(@, kind)]

-----------------------------------------------------------------------------
(* The user                                                                *)

\* Once the watch ends, nobody listens.
Awake == loop.live = "run"

Emit(evs) == w' = [w EXCEPT !.events = @ \cup evs]

Edit == Awake /\ now < MaxEdits /\ now' = now + 1
Rest == UNCHANGED <<git, faults, hints, changed, moved, loop, push, prepared, accepted, pending, delivered>>
Seen(n) == DirOf[n] \in w.watching

WriteFile(n) ==
    /\ Edit /\ Exists(n)
    /\ fs' = [fs EXCEPT !.file[n] = now']
    /\ Emit(IF Seen(n) THEN {<<n, "write">>} ELSE {})
    /\ Rest

\* Create, remove, or replace by renaming over: the directory's stamp moves too.
ReplaceFile(n) ==
    /\ Edit /\ Exists(DirOf[n])
    /\ \E v \in {0, now'}:
          /\ v # fs.file[n]
          /\ fs' = [fs EXCEPT !.file[n] = v, !.dir[DirOf[n]] = now']
    /\ Emit(IF Seen(n) THEN {<<n, "entry">>} ELSE {})
    /\ Rest

Mkdir ==
    /\ Edit /\ ~Exists("s")
    /\ fs' = [fs EXCEPT !.dir = [d \in Dirs |-> now'], !.born = now']
    /\ Emit({<<"s", "entry">>})
    /\ Rest

\* The kernel drops the watch with the directory.
RemoveDir ==
    /\ Edit /\ Exists("s")
    /\ fs' = [fs EXCEPT !.dir = [r |-> now', s |-> 0], !.file["g"] = 0]
    /\ w' = [w EXCEPT !.watching = @ \ {"s"},
                      !.events = @ \cup {<<"s", "entry">>}
                                   \cup IF Seen("g") /\ Exists("g") THEN {<<"g", "entry">>} ELSE {}]
    /\ Rest

\* The control is written in place, or its path comes to name another file.
EditControl ==
    /\ Edit
    /\ fs' = [fs EXCEPT !.ign = ~@, !.ctl = now']
    /\ \E replaced \in (IF git THEN BOOLEAN ELSE {FALSE}):
          w' = [w EXCEPT !.control = @ /\ ~replaced,
                         !.events = @ \cup IF ~git \/ (w.control /\ ~replaced) THEN {<<"ctl", "write">>} ELSE {}]
    /\ Rest

-----------------------------------------------------------------------------
(* Watch.run                                                               *)

\* Of the bounded disturbances a fault comes before the last edit.
Fault == Awake /\ faults < MaxFaults /\ now < MaxEdits /\ faults' = faults + 1

relevant(n) == n = "f" => (w.selected \/ ~w.ign)

StaysOut == UNCHANGED <<fs, git, now, loop, push, prepared, accepted, pending, delivered>>

\* A file event is a hint about one path; a directory or a control asks for everything.
RunEvent ==
    /\ Awake /\ w.pc = "wait"
    /\ \E e \in w.events:
          LET n == e[1]
              dir == n = "s" /\ Exists("s")
              control == n = "ctl"
              structural == control \/ (e[2] = "entry" /\ n = "s" /\ (dir \/ "s" \in w.directories))
              kind == IF control \/ dir THEN dirtySubtree ELSE IF e[2] = "entry" THEN dirtyEntry ELSE dirtyContent IN
          /\ w' = [w EXCEPT !.events = @ \ {e},
                            !.stamp = IF control THEN fs.ctl ELSE @,
                            !.control = IF control /\ git /\ w.stamp # fs.ctl THEN FALSE ELSE @,
                            !.selectionChanged = @ \/ control,
                            !.refresh = @ \/ structural]
          /\ IF relevant(n) THEN hints' = invalidatePath(hints, n, kind) /\ notifyChange
             ELSE UNCHANGED <<hints, changed, moved>>
    /\ UNCHANGED faults /\ StaysOut

\* No event reports what a global control's path names; a changed stamp does.
Poll ==
    /\ Awake /\ w.pc = "wait" /\ git /\ w.stamp # fs.ctl
    /\ w' = [w EXCEPT !.stamp = fs.ctl, !.control = FALSE, !.selectionChanged = TRUE, !.refresh = TRUE]
    /\ hints' = InvalidatePreparation(hints) /\ notifyChange
    /\ UNCHANGED faults /\ StaysOut

\* The event queue overflows: what it held is lost, and the watcher says so.
Overflow ==
    /\ Fault /\ w.events # {}
    /\ w' = [w EXCEPT !.events = {}, !.lost = TRUE]
    /\ UNCHANGED <<hints, changed, moved>> /\ StaysOut

\* The refresh timer, or an overflow: select again, place the watches, then invalidate.
RunReselect ==
    /\ Awake /\ w.pc = "wait" /\ (w.refresh \/ w.lost)
    /\ LET again == w.selectionChanged \/ w.lost IN
       w' = [w EXCEPT !.pc = "refresh",
                      !.refresh = IF w.lost THEN @ ELSE FALSE,
                      !.selectionChanged = IF w.lost THEN @ ELSE FALSE,
                      !.lost = FALSE,
                      !.ign = IF again THEN fs.ign ELSE @,
                      !.selected = IF again THEN "f" \in SelectFiles ELSE @]
    /\ UNCHANGED <<hints, changed, moved, faults>> /\ StaysOut

RunRefresh ==
    /\ Awake /\ w.pc = "refresh"
    /\ w' = [w EXCEPT !.pc = "invalidate", !.watching = {d \in Dirs: Exists(d)},
                      !.directories = {d \in Dirs: Exists(d)}, !.control = TRUE]
    /\ UNCHANGED <<hints, changed, moved, faults>> /\ StaysOut

\* Mutant: the files created before their directory was watched are forgotten.
BugRunInvalidate ==
    /\ Awake /\ w.pc = "invalidate" /\ w' = [w EXCEPT !.pc = "wait"]
    /\ UNCHANGED <<hints, changed, moved, faults>> /\ StaysOut

RunInvalidate ==
    /\ Awake /\ w.pc = "invalidate" /\ w' = [w EXCEPT !.pc = "wait"]
    /\ hints' = InvalidatePreparation(hints) /\ notifyChange
    /\ UNCHANGED faults /\ StaysOut

-----------------------------------------------------------------------------
(* Watch.PrepareSnapshot                                                   *)

NoEvidence == [ign |-> FALSE, born |-> -1, dirs |-> <<>>, lists |-> <<>>]
Idle == [pc |-> "idle", taken |-> NoHints, expired |-> FALSE, relist |-> {}, paths |-> {}, man |-> <<>>,
         ign |-> FALSE, ev |-> NoEvidence, outcome |-> "none", files |-> {}]

\* selectionEvidence.verify: the policy's contents and every directory's stamp.
verifyPolicy(ev) == ev.ign = fs.ign
Verified(ev) == verifyPolicy(ev) /\ \A d \in DOMAIN ev.dirs: fs.dir[d] = ev.dirs[d]

\* SelectionGuard.Verify: by the evidence, or by selecting again.
GuardHolds == IF push.ev # NoEvidence THEN Verified(push.ev) ELSE SelectFiles = push.paths /\ fs.ign = push.ign

Goes(p) == push' = p /\ UNCHANGED <<fs, git, now, w, loop>>
Step(p) == Goes(p) /\ UNCHANGED faults
Kept == UNCHANGED <<accepted, pending, delivered>>
Quiet == UNCHANGED <<hints, changed, moved, prepared>> /\ Kept

\* preparationFailed: a file that changed while it was read is read again; anything else
\* asks for everything.
PreparationFails(files) ==
    /\ hints' = IF files # {} THEN requeuePreparation(hints, push.taken, files) ELSE InvalidatePreparation(hints)
    /\ push' = [Idle EXCEPT !.pc = "done", !.outcome = IF files # {} THEN "files" ELSE "mutated", !.files = files]
    /\ UNCHANGED <<fs, git, now, faults, w, loop, changed, moved, prepared>> /\ Kept

\* The hints are taken, the directories that may have changed are stamped anew.  A
\* preparation older than thirty seconds is expired.
PrepareSnapshot ==
    /\ push.pc = "take"
    /\ hints' = NoHints
    /\ \E expired \in BOOLEAN:
          LET ev == prepared.ev
              touched == {IF n \in Files THEN DirOf[n] ELSE "r": n \in {n \in Names: hints.dirty[n] = dirtyEntry}}
              relist == touched \cup {d \in DOMAIN ev.dirs: fs.dir[d] # ev.dirs[d]}
              full == \/ hints.full \/ hints.owed \/ ev = NoEvidence
                      \/ \E d \in DOMAIN ev.dirs: ~Exists(d)
                      \/ ~(relist \subseteq DOMAIN ev.dirs)
                      \/ relist # {} /\ (~verifyPolicy(ev) \/ ("s" \in relist /\ ev.born # fs.born)) IN
          /\ expired => ~full /\ Fault
          /\ ~expired => UNCHANGED faults
          /\ Goes([Idle EXCEPT !.pc = IF full THEN "select" ELSE "list", !.taken = hints, !.expired = expired,
                               !.relist = IF full THEN {} ELSE relist,
                               !.ev = IF full THEN NoEvidence
                                      ELSE [ev EXCEPT !.dirs = [d \in DOMAIN @ |-> IF d \in relist THEN fs.dir[d] ELSE @[d]]]])
    /\ UNCHANGED <<changed, moved, prepared>> /\ Kept

\* The names that appeared in the directories stamped anew, and those that went.
Added(p) == UNION {Listing(d) \ p.ev.lists[d]: d \in p.relist}
Removed(p) == UNION {p.ev.lists[d] \ Listing(d): d \in p.relist}

\* selectAdded: the created names full selection would include.
selectAdded(p) == {n \in Added(p): n = "f" => ~(IF git THEN fs.ign ELSE p.ev.ign)}

\* The hinted paths, or whether one of them asks for full selection.
Hinted(p) == {n \in Names: p.taken.dirty[n] # Clean /\ n \notin Removed(p)}
Unknown(p) == \E n \in Hinted(p): ~(n \in Files /\ n \in DOMAIN prepared.man)
                                  /\ ~(n \notin DOMAIN prepared.man /\ p.taken.dirty[n] = dirtyEntry)

\* membershipDelta.resolve: the files to observe, and the entries that are gone.
Refreshed(p) ==
    (Hinted(p) \cap DOMAIN prepared.man) \cup selectAdded(p)
    \cup {n \in Files \cap DOMAIN prepared.man: DirOf[n] \in p.relist /\ Exists(n) /\ prepared.man[n] # fs.file[n]}
Deleted(p) == Removed(p) \cap DOMAIN prepared.man
keepsDirectories(p) == "g" \in Deleted(p) => "g" \in selectAdded(p)

Relist ==
    /\ push.pc = "list"
    /\ LET p == push
           full == \/ "s" \in Added(p) \cup Removed(p)
                   \/ ~Verified(p.ev) \/ Unknown(p)
                   \/ git /\ ~keepsDirectories(p)
                   \/ p.expired /\ Refreshed(p) = {} /\ Deleted(p) = {} IN
       Step(IF full THEN [p EXCEPT !.pc = "select", !.relist = {}, !.ev = NoEvidence, !.expired = FALSE]
            ELSE [p EXCEPT !.pc = "read", !.paths = Refreshed(p), !.files = Deleted(p),
                           !.ev.lists = [d \in DOMAIN @ |-> IF d \in p.relist THEN Listing(d) ELSE @[d]]])
    /\ Quiet

\* Snapshot.Update: replacements and deletions.
Edited(man, part, gone) ==
    [n \in DOMAIN part \cup (DOMAIN man \ gone) |-> IF n \in DOMAIN part THEN part[n] ELSE man[n]]

\* Builder.update: observe the refreshed files, and keep what was known of the others.
Read ==
    /\ push.pc = "read"
    /\ IF \E n \in push.paths: ~Exists(n) THEN PreparationFails({})
       ELSE /\ Step([push EXCEPT !.pc = "reread", !.files = {},
                                 !.man = Edited(prepared.man, Manifest(expandPaths(push.paths)), push.files)])
            /\ Quiet

\* Builder.hash: a file whose stamp moved while it was hashed.
Torn == {n \in push.paths \cap Files: fs.file[n] # push.man[n]}
TornFiles == IF \A n \in Torn: Exists(n) THEN Torn ELSE {}

Prepared(man, ev) == prepared' = [man |-> man, ev |-> ev]

Update ==
    /\ push.pc = "reread"
    /\ IF Torn # {} THEN PreparationFails(TornFiles)
       ELSE IF ~Verified(push.ev) THEN PreparationFails({})
       ELSE /\ Prepared(push.man, push.ev)
            /\ IF push.expired THEN hints' = [hints EXCEPT !.owed = TRUE] /\ notifyChange
               ELSE UNCHANGED <<hints, changed, moved>>
            /\ Step([Idle EXCEPT !.pc = "compare", !.man = push.man, !.ev = push.ev, !.ign = push.ev.ign]) /\ Kept

\* prepareFull: select, build, stamp the directories, list them, and check it all again.
FullSelect ==
    /\ push.pc = "select"
    /\ Step([push EXCEPT !.pc = "build", !.paths = SelectFiles, !.ign = fs.ign])
    /\ Quiet

FullBuild ==
    /\ push.pc = "build"
    /\ IF \E n \in push.paths: ~Exists(n) THEN PreparationFails({})
       ELSE Step([push EXCEPT !.pc = "stamp", !.man = Manifest(push.paths)]) /\ Quiet

\* The directories git's selection enters, with files in them or not.
walkGitSelection == {d \in {"s"}: Exists(d)}

captureSelectionEvidence ==
    /\ push.pc = "stamp"
    /\ LET dirs == {"r"} \cup (IF git THEN walkGitSelection ELSE push.paths \cap Dirs) IN
       IF Torn # {} THEN PreparationFails(TornFiles)
       ELSE IF (\E d \in dirs: ~Exists(d)) \/ (~git /\ fs.ign # push.ign) THEN PreparationFails({})
       ELSE Step([push EXCEPT !.pc = "enlist", !.ev = [ign |-> fs.ign, born |-> fs.born,
                      dirs |-> [d \in dirs |-> fs.dir[d]], lists |-> [d \in dirs |-> {}]]]) /\ Quiet

\* A directory git's walk did not see leaves the selection without evidence.
listDirectories ==
    /\ push.pc = "enlist"
    /\ IF \E d \in DOMAIN push.ev.dirs: ~Exists(d) THEN PreparationFails({})
       ELSE Step([push EXCEPT !.pc = "verify",
                    !.ev = IF git /\ ~(Listing("r") \cap Dirs \subseteq DOMAIN push.ev.dirs) THEN NoEvidence
                           ELSE [push.ev EXCEPT !.lists = [d \in DOMAIN push.ev.dirs |-> Listing(d)]]]) /\ Quiet

\* Mutant: the selection is not made again once the directories are stamped.
BugReselected == TRUE

Reselected == SelectFiles = push.paths /\ fs.ign = push.ign

FullVerify ==
    /\ push.pc = "verify"
    /\ IF ~Reselected \/ (push.ev # NoEvidence /\ ~Verified(push.ev))
       THEN PreparationFails({})
       ELSE /\ Prepared(push.man, push.ev)
            /\ Step([Idle EXCEPT !.pc = "compare", !.man = push.man, !.ev = push.ev, !.ign = push.ign,
                                 !.paths = IF push.ev = NoEvidence THEN push.paths ELSE {}])
            /\ UNCHANGED <<hints, changed, moved>> /\ Kept

\* A read fails for a reason of its own.
ReadError ==
    /\ push.pc \in {"read", "build"} /\ Fault
    /\ hints' = InvalidatePreparation(hints)
    /\ push' = [Idle EXCEPT !.pc = "done", !.outcome = "unknown"]
    /\ UNCHANGED <<fs, git, now, w, loop, changed, moved, prepared>> /\ Kept

-----------------------------------------------------------------------------
(* pushChangesLocked                                                       *)

Ends(outcome) == Step([Idle EXCEPT !.pc = "done", !.outcome = outcome])
EndsFiles(files) == Step([Idle EXCEPT !.pc = "done", !.outcome = IF files # {} THEN "files" ELSE "mutated", !.files = files])

\* An interrupted apply is completed first; its answer may be lost again.
BeginPush ==
    /\ push.pc = "begin"
    /\ IF ~pending.applying THEN Step([push EXCEPT !.pc = "take"]) /\ Kept
       ELSE /\ delivered' = pending.man /\ accepted' = NoManifest
            /\ pending' = [man |-> NoManifest, applying |-> FALSE]
            /\ Ends("recovered")
    /\ UNCHANGED <<hints, changed, moved, prepared>>

\* The watch ends when the policy is no longer the workspace's.
Compare ==
    /\ push.pc = "compare"
    /\ IF push.ign THEN Ends("policy")
       ELSE IF push.man = accepted THEN Ends("unchanged")
       ELSE IF push.man = pending.man THEN Step([push EXCEPT !.pc = "send"])
       ELSE Step([push EXCEPT !.pc = "copy"])
    /\ Quiet

Shipped == {n \in DOMAIN push.man: n \notin DOMAIN delivered \/ delivered[n] # push.man[n]}

\* packPartialContext: a body that is not the manifest's.
PackMismatch == {n \in Shipped: Version(n) # push.man[n]}

\* CopyTransferSource verifies every shipped body; then the selection once more.
CopySource ==
    /\ push.pc = "copy"
    /\ LET torn == PackMismatch IN
       IF \E n \in Shipped: ~Exists(n) THEN EndsFiles({})
       ELSE IF torn # {} THEN EndsFiles(torn)
       ELSE IF ~GuardHolds THEN EndsFiles({})
       ELSE Step([push EXCEPT !.pc = "send"])
    /\ Quiet

Send ==
    /\ push.pc = "send"
    /\ delivered' = push.man /\ accepted' = push.man
    /\ pending' = [man |-> NoManifest, applying |-> FALSE]
    /\ Ends("ok")
    /\ UNCHANGED <<hints, changed, moved, prepared>>

\* The connection is lost while staging, or with the apply on its way.
SendFails ==
    /\ push.pc = "send" /\ Fault
    /\ \E applying \in BOOLEAN:
          /\ pending' = [man |-> push.man, applying |-> applying]
          /\ delivered' \in IF applying THEN {delivered, push.man} ELSE {delivered}
    /\ push' = [Idle EXCEPT !.pc = "done", !.outcome = "network"]
    /\ UNCHANGED <<fs, git, now, w, loop, hints, changed, moved, prepared, accepted>>

-----------------------------------------------------------------------------
(* runPushWatch                                                            *)

Busy == push.pc # "idle"
Elsewhere == UNCHANGED <<fs, git, now, faults, w, prepared, accepted, pending, delivered>>

\* Saves while a push is busy wait for it, and do not bypass the backoff of a retry.
LoopChanged ==
    /\ Awake /\ changed /\ changed' = FALSE
    /\ loop' = [loop EXCEPT !.dirty = TRUE, !.timer = @ \/ ~(Busy \/ loop.retry)]
    /\ UNCHANGED <<hints, moved, push>> /\ Elsewhere

LoopTimer ==
    /\ Awake /\ loop.timer /\ ~Busy
    /\ loop' = [loop EXCEPT !.timer = FALSE, !.dirty = FALSE, !.retry = FALSE]
    /\ moved' = FALSE
    /\ push' = [Idle EXCEPT !.pc = "begin"]
    /\ UNCHANGED <<hints, changed>> /\ Elsewhere

Owed == loop.dirty \/ moved \/ push.outcome = "recovered"

LoopCompleted ==
    /\ Awake /\ push.pc = "done" /\ push' = Idle
    /\ LET o == push.outcome
           source == o \in {"files", "mutated", "unknown"}
           resample == o \in {"files", "mutated"} \/ (o = "unknown" /\ loop.retries < SourceRetries)
           again == resample \/ o = "network" IN
       /\ hints' = IF source
                   THEN IF o = "files" THEN requeuePreparation(hints, NoHints, push.files)
                        ELSE InvalidatePreparation(hints)
                   ELSE hints
       /\ loop' = IF ~again /\ o \in {"unknown", "policy"}
                  THEN [loop EXCEPT !.live = "stopped"]
                  ELSE IF again
                  THEN [loop EXCEPT !.timer = TRUE, !.retry = TRUE, !.retries = IF o = "unknown" THEN @ + 1 ELSE @]
                  ELSE [loop EXCEPT !.timer = @ \/ Owed, !.retries = 0]
    /\ UNCHANGED <<changed, moved>> /\ Elsewhere

\* Ctrl-C, or the watcher failed: a push in flight is awaited, so the loop ends between two.
Stop ==
    /\ Awake /\ push.pc \in {"idle", "done"}
    /\ loop' = [loop EXCEPT !.live = "stopped"]
    /\ push' = Idle /\ hints' = NoHints /\ changed' = FALSE /\ moved' = FALSE
    /\ w' = [w EXCEPT !.pc = "closed", !.events = {}, !.watching = {}]
    /\ UNCHANGED <<fs, git, now, faults, prepared, accepted, pending, delivered>>

-----------------------------------------------------------------------------
\* The watches are in place before the first push, which the timer starts at once.
PWInit ==
    /\ git \in BOOLEAN /\ now = 1 /\ faults = 0
    /\ \E s \in {0, 1}:
          fs = [file |-> [f |-> 1, g |-> s], dir |-> [r |-> 1, s |-> s], born |-> s, ign |-> FALSE, ctl |-> 1]
    /\ w = [pc |-> "wait", events |-> {}, lost |-> FALSE, refresh |-> FALSE, selectionChanged |-> FALSE,
            ign |-> FALSE, selected |-> TRUE,
            watching |-> {d \in Dirs: Exists(d)}, directories |-> {d \in Dirs: Exists(d)}, control |-> TRUE, stamp |-> 1]
    /\ hints = NoHints /\ changed = FALSE /\ moved = FALSE
    /\ loop = [live |-> "run", dirty |-> FALSE, timer |-> TRUE, retry |-> FALSE, retries |-> 0]
    /\ push = Idle /\ prepared = [man |-> <<>>, ev |-> NoEvidence]
    /\ accepted = NoManifest /\ pending = [man |-> NoManifest, applying |-> FALSE] /\ delivered = <<>>

PWNext ==
    \/ \E n \in Files: WriteFile(n) \/ ReplaceFile(n)
    \/ Mkdir \/ RemoveDir \/ EditControl
    \/ RunEvent \/ Poll \/ Overflow \/ RunReselect \/ RunRefresh \/ RunInvalidate
    \/ PrepareSnapshot \/ Relist \/ Read \/ Update
    \/ FullSelect \/ FullBuild \/ captureSelectionEvidence \/ listDirectories \/ FullVerify \/ ReadError
    \/ BeginPush \/ Compare \/ CopySource \/ Send \/ SendFails
    \/ LoopChanged \/ LoopTimer \/ LoopCompleted \/ Stop

PWSpec == PWInit /\ [][PWNext]_pwvars

-----------------------------------------------------------------------------
(* Properties                                                              *)

Settled ==
    /\ Awake /\ ~Busy /\ ~loop.timer /\ ~changed
    /\ w.pc = "wait" /\ w.events = {} /\ ~w.lost /\ ~w.refresh /\ (git => w.stamp = fs.ctl)

\* When the watch has come to rest (no event to read, no timer running, no push in flight)
\* the receiver has the checkout as it is: no edit is lost to a directory not yet watched,
\* to an overflow, to a push in flight, or to hints a failed push had consumed.
EditsReachReceiver == Settled => delivered = Manifest(SelectFiles)

\* What selectionEvidence is for: as long as the stamps and the policy are those it
\* recorded, selecting everything again would give the very paths of the prepared manifest.
EvidenceProves ==
    prepared.ev # NoEvidence /\ Verified(prepared.ev) => DOMAIN prepared.man = SelectFiles
=============================================================================
