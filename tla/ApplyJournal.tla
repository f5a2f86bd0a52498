---------------------------- MODULE ApplyJournal ----------------------------
(***************************************************************************)
(* Applying one set of changes to a workspace: the transaction directory,  *)
(* its journal, the rollback and the recovery.                             *)
(*                                                                         *)
(* The paths of a set are installed one after another.  Each original is   *)
(* renamed into the transaction, the staged value is renamed to its place, *)
(* and a journal says how far the installation has come.  A failure rolls  *)
(* it back; after a crash the next call does, or completes it if the       *)
(* journal is committed.  The user edits the same files all the while.     *)
(*                                                                         *)
(* Source: internal/changes/apply.go, apply_group.go, apply_sync.go,       *)
(* journal.go and transfer.go, with the caller in internal/client.         *)
(*                                                                         *)
(* The content of a path is a number, the digest of the Baseline in the    *)
(* code.  A step ends at a rename, at a write of the journal or of the     *)
(* caller's record, or at a check; a crash stops the process between two   *)
(* steps.  Renames are durable once made: the syncs of the code are taken  *)
(* to do their work.  Created parents and metadata-only items are left     *)
(* out, and so are replaced directories, which only add failures.          *)
(***************************************************************************)
EXTENDS Integers, FiniteSets

CONSTANTS
    N,           \* paths in the set
    Callers,     \* who applies: "job" (client/changes.go), "transfer"
    LateEdits,   \* whether the user may edit while JournalInDoubt
    MaxApplies,  \* bound: applications begun
    MaxEdits,    \* bound: edits of the user
    MaxCrashes,  \* bound: crashes of the process
    MaxFaults    \* bound: file operations that fail

ASSUME ApplyJournalAssumption ==
    /\ N \in Nat \ {0}
    /\ Callers \subseteq {"job", "transfer"} /\ Callers # {}
    /\ LateEdits \in BOOLEAN
    /\ MaxApplies \in Nat /\ MaxEdits \in Nat /\ MaxCrashes \in Nat /\ MaxFaults \in Nat

VARIABLES
    tree,      \* the workspace: content of each path
    \* The transaction directory.
    tx,        \* it exists
    journal,   \* journal.json, or NoJournal
    item,      \* the item directories
    \* The caller's record, on disk.
    pending,   \* Pending names the transaction
    applied,   \* Applied, or the Outcome of a transfer
    cleanup,   \* CleanupID of a transfer
    \* The process.
    pc, k,     \* its place, and the item it is at
    plan,      \* its journal in memory
    who,       \* "apply" or "recover"
    group,     \* the set is installed as a file group
    bad,       \* the rollback met an error
    \* History.
    caller,    \* the caller of this behaviour
    original,  \* contents when the application captured its inputs
    expected,  \* contents it is to install
    keep,      \* versions of each path that must not be lost
    touched,   \* paths edited since the capture
    applies, edits, crashes, faults

dir      == <<tx, journal, item>>
record   == <<pending, applied, cleanup>>
process  == <<pc, k, plan, who, group, bad>>
request  == <<caller, original, expected, applies>>
history  == <<keep, touched, edits, crashes>>
vars     == <<tree, dir, record, process, request, history, faults>>

Items   == 1..N
Missing == 0
Base    == 1     \* what the workspace holds at first
Merged  == 2     \* what the application installs
Edited  == 3     \* the first content the user writes

NoJournal   == [phase |-> "none", items |-> [i \in Items |-> "none"]]
Journal(ph) == [phase |-> "prepared", items |-> [i \in Items |-> ph]]
NoItem      == [dir |-> FALSE, value |-> Missing, previous |-> Missing, installed |-> Missing]

Init ==
    /\ tree \in [Items -> {Missing, Base}]
    /\ tx = FALSE /\ journal = NoJournal /\ item = [i \in Items |-> NoItem]
    /\ pending = FALSE /\ applied = FALSE /\ cleanup = FALSE
    /\ pc = "idle" /\ k = 0 /\ plan = NoJournal /\ who = "apply" /\ group = FALSE /\ bad = FALSE
    /\ caller \in Callers
    /\ original = tree /\ expected = tree
    /\ keep = [i \in Items |-> {}] /\ touched = {}
    /\ applies = 0 /\ edits = 0 /\ crashes = 0 /\ faults = 0

-----------------------------------------------------------------------------
\* Steps.

Goto(place, i) == pc' = place /\ k' = i

\* A file operation succeeds, fails without effect, or fails when its effect
\* is on disk already (an error of the sync after a rename or a write).
Attempt(done, skipped, onSuccess, onFailure) ==
    \E outcome \in {"ok", "lost", "landed"} :
        /\ outcome # "ok" => faults < MaxFaults
        /\ faults' = faults + (IF outcome = "ok" THEN 0 ELSE 1)
        /\ IF outcome = "lost" THEN skipped ELSE done
        /\ IF outcome = "ok" THEN onSuccess ELSE onFailure

\* abortApplyAtRoot: roll back what the journal in memory says was begun.
Abort == Goto("rollback", N) /\ bad' = FALSE /\ who' = "apply"

\* A check the application does not survive: it fails, or it cannot be made.
Require(holds, onSuccess) ==
    \/ holds /\ onSuccess /\ UNCHANGED <<who, bad, faults>>
    \/ ~holds /\ Abort /\ UNCHANGED faults
    \/ faults < MaxFaults /\ faults' = faults + 1 /\ Abort

\* A call that returns an error: the caller's memory is gone, its record stays.
Return == Goto("idle", 0)

\* Before the values are published a failure only removes the transaction.
Unpublish == Goto("remove", 0) /\ who' = "apply"

\* The loops over the journal's items.
LastItem == k = N

SameContent(i, content) == tree[i] = content

InstalledAll == \A i \in Items : SameContent(i, expected[i])
BackupsAll   == \A i \in Items : item[i].previous = original[i]

-----------------------------------------------------------------------------
\* The application.

\* Without its record the transaction must not be made.
SaveFailed == Return

\* The caller records the transaction before anything else, and the inputs are
\* captured.  A path is created, replaced or deleted.
Begin ==
    /\ pc = "idle" /\ ~pending /\ ~applied /\ applies < MaxApplies
    /\ applies' = applies + 1
    /\ \E want \in [Items -> {Missing, Merged}] :
          /\ \A i \in Items : tree[i] = Missing => want[i] # Missing
          /\ expected' = want
    /\ original' = tree /\ touched' = {}
    /\ keep' = [i \in Items |-> {tree[i]} \ {Missing}]
    /\ Attempt(pending' = TRUE, UNCHANGED pending, Goto("mkdir", 0), SaveFailed)
    /\ UNCHANGED <<tree, dir, applied, cleanup, plan, who, group, bad, caller, edits, crashes>>

\* A conflict of the merge ends the application before it has a transaction.
Refuse ==
    /\ pc = "mkdir" /\ Goto("recover", 0)
    /\ UNCHANGED <<tree, dir, record, plan, who, group, bad, request, history, faults>>

MakeTransaction ==
    /\ pc = "mkdir"
    /\ Attempt(tx' = TRUE, UNCHANGED tx, Goto("plan", 0), Goto("recover", 0))
    /\ UNCHANGED <<tree, journal, item, record, plan, who, group, bad, request, history>>

\* Groups replace existing files, two or more of them.
Groupable == N >= 2 /\ \A i \in Items : original[i] # Missing /\ expected[i] # Missing

WritePlan ==
    /\ pc = "plan"
    /\ plan' = Journal("prepared")
    /\ group' \in (IF Groupable THEN BOOLEAN ELSE {FALSE})
    /\ Attempt(journal' = plan', UNCHANGED journal,
               Goto("stage", 1) /\ UNCHANGED who, Unpublish)
    /\ UNCHANGED <<tree, tx, item, record, bad, request, history>>

Stage ==
    /\ pc = "stage"
    /\ Attempt(item' = [item EXCEPT ![k].dir = TRUE, ![k].value = expected[k]],
               item' \in {item, [item EXCEPT ![k].dir = TRUE]},
               /\ IF ~LastItem THEN Goto("stage", k + 1)
                  ELSE IF group THEN Goto("group", 1)
                  ELSE Goto("check", 1)
               /\ UNCHANGED who,
               Unpublish)
    /\ UNCHANGED <<tree, tx, journal, record, plan, group, bad, request, history>>

\* The journal in memory is written; its failure aborts the application.
Publish(next, onSuccess) ==
    /\ plan' = next
    /\ Attempt(journal' = next, UNCHANGED journal,
               onSuccess /\ UNCHANGED <<who, bad>>, Abort)
    /\ UNCHANGED <<tree, tx, item, record, group, request, history>>

GroupIntent ==
    /\ pc = "group"
    /\ Publish(Journal("grouped"), Goto("check", 1))

\* The path must still hold what the merge has seen.
CheckOriginal ==
    /\ pc = "check"
    /\ Require(SameContent(k, original[k]), Goto(IF group THEN "backup" ELSE "intent", k))
    /\ UNCHANGED <<tree, dir, record, plan, group, request, history>>

Intent ==
    /\ pc = "intent"
    /\ Publish([plan EXCEPT !.items[k] = "installing"], Goto("backup", k))

\* Whatever is at the path by now goes to the backup.
Backup ==
    /\ pc = "backup"
    /\ IF tree[k] = Missing
         THEN /\ IF original[k] = Missing THEN Goto("install", k) /\ UNCHANGED <<who, bad>> ELSE Abort
              /\ UNCHANGED <<tree, item, faults>>
         ELSE Attempt(/\ item' = [item EXCEPT ![k].previous = tree[k]]
                      /\ tree' = [tree EXCEPT ![k] = Missing],
                      UNCHANGED <<tree, item>>,
                      Goto("verify", k) /\ UNCHANGED <<who, bad>>,
                      Abort)
    /\ UNCHANGED <<tx, journal, record, plan, group, request, history>>

VerifyBackup ==
    /\ pc = "verify"
    /\ Require(item[k].previous = original[k], Goto("install", k))
    /\ UNCHANGED <<tree, dir, record, plan, group, request, history>>

\* The next step; a group is marked in memory when its last item is in place.
Following ==
    /\ IF ~group THEN Goto("mark", k)
       ELSE IF ~LastItem THEN Goto("check", k + 1)
       ELSE Goto("validate", 0)
    /\ plan' = IF group /\ LastItem THEN Journal("installed") ELSE plan
    /\ UNCHANGED <<who, bad>>

\* A no-replace rename puts the value in its place.
Install ==
    /\ pc = "install"
    /\ IF expected[k] = Missing
         THEN Following /\ UNCHANGED <<tree, item, faults>>
         ELSE IF tree[k] # Missing THEN Abort /\ UNCHANGED <<tree, item, plan, faults>>
         ELSE Attempt(/\ tree' = [tree EXCEPT ![k] = item[k].value]
                      /\ item' = [item EXCEPT ![k].value = Missing],
                      UNCHANGED <<tree, item>>,
                      Following,
                      Abort /\ UNCHANGED plan)
    /\ UNCHANGED <<tx, journal, record, group, request, history>>

MarkInstalled ==
    /\ pc = "mark"
    /\ Publish([plan EXCEPT !.items[k] = "installed"],
               IF ~LastItem THEN Goto("check", k + 1) ELSE Goto("validate", 0))

Validate ==
    /\ pc = "validate"
    /\ Require(BackupsAll /\ InstalledAll, Goto("commit", 0))
    /\ UNCHANGED <<tree, dir, record, plan, group, request, history>>

Commit ==
    /\ pc = "commit"
    /\ Publish([plan EXCEPT !.phase = "committed"], Goto("recheck", 0))

\* The last check comes after the commit is on disk.
Recheck ==
    /\ pc = "recheck"
    /\ Require(InstalledAll, Goto("record", 0))
    /\ UNCHANGED <<tree, dir, record, plan, group, request, history>>

\* The outcome is saved before the transaction goes; from then on the
\* originals are no longer needed.
RecordOutcome ==
    /\ pc = "record"
    /\ Attempt(/\ applied' = TRUE
               /\ keep' = [i \in Items |-> keep[i] \ {original[i]}],
               UNCHANGED <<applied, keep>>,
               Goto("finish", 0), Return)
    /\ UNCHANGED <<tree, dir, pending, cleanup, plan, who, group, bad, request, touched, edits, crashes>>

-----------------------------------------------------------------------------
\* The rollback, from the last item to the first.

\* The item is done with, with or without an error.
Done(err) == Goto("rollback", k - 1) /\ bad' = (bad \/ err)

\* What is at the path is renamed into the transaction, unless an earlier
\* rollback has done so.
Quarantine ==
    LET it == item[k] IN
    IF it.installed # Missing THEN Goto("inspect", k) /\ UNCHANGED <<tree, item, bad, faults>>
    ELSE IF ~it.dir THEN Done(TRUE) /\ UNCHANGED <<tree, item, faults>>
    ELSE IF tree[k] = Missing
      THEN /\ IF it.previous # Missing THEN Goto("restore", k) /\ UNCHANGED bad ELSE Done(FALSE)
           /\ UNCHANGED <<tree, item, faults>>
    ELSE Attempt(/\ item' = [item EXCEPT ![k].installed = tree[k]]
                 /\ tree' = [tree EXCEPT ![k] = Missing],
                 UNCHANGED <<tree, item>>,
                 Goto("inspect", k) /\ UNCHANGED bad,
                 Done(TRUE))

\* The installation of the item was never begun.
NotBegun_UnlessInstalled(i) == plan.items[i] # "installed"
NotBegun(i) == plan.items[i] = "prepared"

\* rollbackApplyItemAtRoot up to the rename of what is installed.
RollbackItem ==
    /\ pc = "rollback" /\ k > 0
    /\ LET it == item[k] IN
       CASE NotBegun(k) ->
              Done(FALSE) /\ UNCHANGED <<tree, item, faults>>
         [] plan.items[k] = "grouped" /\ it.previous = Missing /\ it.value # Missing ->
              Done(tree[k] = Missing) /\ UNCHANGED <<tree, item, faults>>
         [] OTHER ->
              IF it.previous = Missing /\ original[k] # Missing
                THEN Done(tree[k] # original[k]) /\ UNCHANGED <<tree, item, faults>>
                ELSE Quarantine
    /\ UNCHANGED <<tx, journal, record, plan, who, group, request, history>>

QuarantineIsOurs_Trusted == TRUE
QuarantineIsOurs == item[k].installed = expected[k]

\* What came out of the path must be what was installed; anything else is the
\* user's and goes back.
InspectQuarantine ==
    /\ pc = "inspect"
    /\ IF QuarantineIsOurs
         THEN /\ Goto(IF item[k].previous # Missing THEN "restore" ELSE "drop", k)
              /\ UNCHANGED <<tree, item, bad, faults>>
         ELSE IF tree[k] # Missing THEN Done(TRUE) /\ UNCHANGED <<tree, item, faults>>
         ELSE Attempt(/\ tree' = [tree EXCEPT ![k] = item[k].installed]
                      /\ item' = [item EXCEPT ![k].installed = Missing],
                      UNCHANGED <<tree, item>>, Done(TRUE), Done(TRUE))
    /\ UNCHANGED <<tx, journal, record, plan, who, group, request, history>>

\* A no-replace rename brings the original back.
Restore ==
    /\ pc = "restore"
    /\ IF tree[k] # Missing THEN Done(TRUE) /\ UNCHANGED <<tree, item, faults>>
       ELSE Attempt(/\ tree' = [tree EXCEPT ![k] = item[k].previous]
                    /\ item' = [item EXCEPT ![k].previous = Missing],
                    UNCHANGED <<tree, item>>,
                    IF item[k].installed # Missing THEN Goto("drop", k) /\ UNCHANGED bad ELSE Done(FALSE),
                    Done(TRUE))
    /\ UNCHANGED <<tx, journal, record, plan, who, group, request, history>>

DropQuarantine ==
    /\ pc = "drop"
    /\ Attempt(item' = [item EXCEPT ![k].installed = Missing], UNCHANGED item,
               Done(FALSE), Done(TRUE))
    /\ UNCHANGED <<tree, tx, journal, record, plan, who, group, request, history>>

\* The parent cannot be opened or a file not be read: the item is left alone.
RollbackItemFails ==
    /\ pc \in {"rollback", "inspect"} /\ k > 0 /\ faults < MaxFaults
    /\ faults' = faults + 1
    /\ Done(TRUE)
    /\ UNCHANGED <<tree, dir, record, plan, who, group, request, history>>

\* With an error the transaction is kept.  The caller of a failed application
\* recovers at once, from the disk.
RollbackEnd ==
    /\ pc = "rollback" /\ k = 0
    /\ Goto(IF ~bad THEN "remove" ELSE IF who = "apply" THEN "recover" ELSE "idle", 0)
    /\ UNCHANGED <<tree, dir, record, plan, who, group, bad, request, history, faults>>

-----------------------------------------------------------------------------
\* Removing a transaction: os.Root.RemoveAll, in any order.

RemoveEntry ==
    /\ pc = "remove"
    /\ \/ /\ journal # NoJournal
          /\ journal' = NoJournal /\ UNCHANGED item
       \/ /\ \E i \in Items, file \in {"value", "previous", "installed"} :
               item[i][file] # Missing /\ item' = [item EXCEPT ![i][file] = Missing]
          /\ UNCHANGED journal
       \/ /\ \E i \in Items : item[i] = [NoItem EXCEPT !.dir = TRUE] /\ item' = [item EXCEPT ![i] = NoItem]
          /\ UNCHANGED journal
    /\ UNCHANGED <<tree, tx, record, process, request, history, faults>>

AfterRemove == IF who = "apply" THEN "recover" ELSE "clear"

RemoveTransaction ==
    /\ pc = "remove" /\ journal = NoJournal /\ \A i \in Items : ~item[i].dir
    /\ tx' = FALSE /\ Goto(AfterRemove, 0)
    /\ UNCHANGED <<tree, journal, item, record, plan, who, group, bad, request, history, faults>>

RemoveFails ==
    /\ pc = "remove" /\ faults < MaxFaults
    /\ faults' = faults + 1
    /\ Goto(IF who = "apply" THEN "recover" ELSE "idle", 0)
    /\ UNCHANGED <<tree, dir, record, plan, who, group, bad, request, history>>

-----------------------------------------------------------------------------
\* Recovery and completion.

\* A later call finds the transaction in the record.
Retry ==
    /\ pc = "idle" /\ pending
    /\ Goto("recover", 0)
    /\ UNCHANGED <<tree, dir, record, plan, who, group, bad, request, history, faults>>

\* A transfer with a recorded outcome only has its cleanup left.
Outcome == caller = "transfer" /\ applied

\* Without a journal only an empty transaction may go.
Unpublished ==
    IF tx /\ \E i \in Items : item[i].dir
      THEN Return /\ UNCHANGED tx
      ELSE tx' = FALSE /\ Goto("clear", 0)

\* recoverApplicationAtRoot.
Recover ==
    /\ pc = "recover"
    /\ who' = "recover" /\ bad' = FALSE
    /\ IF Outcome THEN Goto("finish", 0) /\ UNCHANGED <<tx, plan>>
       ELSE CASE journal.phase = "none" -> Unpublished /\ UNCHANGED plan
              [] journal.phase = "committed" ->
                   (IF InstalledAll THEN Goto("record", 0) ELSE Return) /\ UNCHANGED <<tx, plan>>
              [] OTHER -> plan' = journal /\ Goto("rollback", N) /\ UNCHANGED tx
    /\ UNCHANGED <<tree, journal, item, record, group, request, history, faults>>

\* CommitApplyToWorkspace wants the installed values and the backups intact.
FinishJob ==
    /\ pc = "finish" /\ caller = "job"
    /\ who' = "recover"
    /\ IF journal.phase = "committed" /\ BackupsAll /\ InstalledAll THEN Goto("remove", 0) ELSE Return
    /\ UNCHANGED <<tree, dir, record, plan, group, bad, request, history, faults>>

\* The deletion of this transaction was authorised.
Authorised_Forgotten == FALSE
Authorised == cleanup

\* finishTransfer wants the backups once, and then records that it may delete.
FinishTransfer ==
    /\ pc = "finish" /\ caller = "transfer"
    /\ who' = "recover"
    /\ \/ /\ Authorised
          /\ Goto(IF tx THEN "remove" ELSE "clear", 0)
          /\ UNCHANGED <<tx, cleanup, faults>>
       \/ /\ ~Authorised /\ journal = NoJournal
          /\ Unpublished
          /\ UNCHANGED <<cleanup, faults>>
       \/ /\ ~Authorised /\ journal # NoJournal /\ ~(journal.phase = "committed" /\ BackupsAll)
          /\ Return
          /\ UNCHANGED <<tx, cleanup, faults>>
       \/ /\ ~Authorised /\ journal.phase = "committed" /\ BackupsAll
          /\ Attempt(cleanup' = TRUE, UNCHANGED cleanup, Goto("remove", 0), Return)
          /\ UNCHANGED tx
    /\ UNCHANGED <<tree, journal, item, pending, applied, plan, group, bad, request, history>>

\* The record forgets the transaction when it is gone.
ClearPending ==
    /\ pc = "clear"
    /\ Attempt(pending' = FALSE /\ cleanup' = FALSE, UNCHANGED <<pending, cleanup>>, Return, Return)
    /\ UNCHANGED <<tree, dir, applied, plan, who, group, bad, request, history>>

-----------------------------------------------------------------------------
\* The user, and crashes.

\* A rollback follows the journal in memory.  The disk says something else if
\* the write of an intent failed, or if the commit is being undone; these are
\* the times at which an edit meets such a rollback.
JournalInDoubt ==
    \/ pc \in {"intent", "commit", "recheck"}
    \/ /\ pc \in {"rollback", "inspect", "restore", "drop"}
       /\ journal.phase = "committed" \/ plan.items # journal.items

Edit ==
    /\ edits < MaxEdits
    /\ LateEdits \/ ~JournalInDoubt
    /\ edits' = edits + 1
    /\ \E i \in Items, content \in {Missing, Edited + edits} :
          /\ tree[i] # content
          /\ tree' = [tree EXCEPT ![i] = content]
          /\ keep' = [keep EXCEPT ![i] = (@ \ {tree[i]}) \cup ({content} \ {Missing})]
          /\ touched' = touched \cup {i}
    /\ UNCHANGED <<dir, record, process, request, crashes, faults>>

Crash ==
    /\ pc # "idle" /\ crashes < MaxCrashes
    /\ crashes' = crashes + 1
    /\ Return /\ plan' = NoJournal /\ group' = FALSE /\ bad' = FALSE /\ who' = "apply"
    /\ UNCHANGED <<tree, dir, record, request, keep, touched, edits, faults>>

Applying ==
    \/ Refuse \/ MakeTransaction \/ WritePlan \/ Stage \/ GroupIntent
    \/ CheckOriginal \/ Intent \/ Backup \/ VerifyBackup \/ Install \/ MarkInstalled
    \/ Validate \/ Commit \/ Recheck \/ RecordOutcome

Recovering ==
    \/ RollbackItem \/ InspectQuarantine \/ Restore \/ DropQuarantine
    \/ RollbackItemFails \/ RollbackEnd
    \/ RemoveEntry \/ RemoveTransaction \/ RemoveFails
    \/ Retry \/ Recover \/ FinishJob \/ FinishTransfer \/ ClearPending

Next == Begin \/ Applying \/ Recovering \/ Edit \/ Crash

\* A started call runs to its end, and a record with a transaction is met by a
\* later call.  Nothing makes the user edit or begin.
Fairness == WF_vars(Applying \/ Recovering)

Spec == Init /\ [][Next]_vars /\ Fairness

-----------------------------------------------------------------------------
\* Properties.

Contents == 0..(Edited + MaxEdits - 1)
Phases   == {"none", "prepared", "installing", "grouped", "installed"}
Journals == [phase : {"none", "prepared", "committed"}, items : [Items -> Phases]]

\* The index of the installation stays within the journal's items, and every
\* path and item directory holds a known content.
TypeOK ==
    /\ tree \in [Items -> Contents]
    /\ original \in [Items -> Contents] /\ expected \in [Items -> Contents]
    /\ tx \in BOOLEAN /\ journal \in Journals /\ plan \in Journals
    /\ item \in [Items -> [dir : BOOLEAN, value : Contents, previous : Contents, installed : Contents]]
    /\ pending \in BOOLEAN /\ applied \in BOOLEAN /\ cleanup \in BOOLEAN
    /\ pc \in {"idle", "mkdir", "plan", "stage", "group", "check", "intent", "backup", "verify",
               "install", "mark", "validate", "commit", "recheck", "record", "finish",
               "rollback", "inspect", "restore", "drop", "remove", "recover", "clear"}
    /\ k \in 0..N
    /\ who \in {"apply", "recover"} /\ group \in BOOLEAN /\ bad \in BOOLEAN
    /\ caller \in Callers
    /\ keep \in [Items -> SUBSET Contents] /\ touched \subseteq Items
    /\ applies \in 0..MaxApplies /\ edits \in 0..MaxEdits
    /\ crashes \in 0..MaxCrashes /\ faults \in 0..MaxFaults

\* What the user wrote, before the application or during it, is still at its
\* path or in the transaction, whatever fails and wherever the process stops:
\* originals until the outcome is on disk, later edits until the user replaces
\* them (the quarantine, check and restore logic of journal.go).
EditsKept ==
    \A i \in Items : keep[i] \subseteq {tree[i], item[i].previous, item[i].installed}

\* A transaction in the workspace is named by the caller's record; one without
\* a record stops every later application (recoverWorkspaceApplications).
TransactionNamed == tx => pending

\* A recorded outcome tells the truth and a closed application without one has
\* left nothing: paths the user did not touch hold the whole set or none of it.
AllOrNothing ==
    /\ TypeOK /\ TransactionNamed
    /\ applied => \A i \in Items \ touched : tree[i] = expected[i]
    /\ ~pending /\ ~applied => \A i \in Items \ touched : tree[i] = original[i]

\* Deletion that a transfer has authorised is completed, however often it is
\* interrupted, though journal and backups may be gone (finishTransfer).
CleanupCompletes == cleanup ~> ~pending
=============================================================================
