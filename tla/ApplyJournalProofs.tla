-------------------------- MODULE ApplyJournalProofs -------------------------
(***************************************************************************)
(* Applying a set of changes is atomic and loses no edit: AllOrNothing for  *)
(* any number of paths, applications, edits, crashes and failing file       *)
(* operations, and EditsKept where the user does not edit while the journal  *)
(* is in doubt.                                                            *)
(*                                                                         *)
(* The invariant speaks of one path at a time.  PhaseInv and DirInv fix what *)
(* is on disk at each place of the process; Placed follows the installation, *)
(* Known ties the journal to what was begun, Undo follows the rollback, and  *)
(* Whole and Held are the two claims.                                       *)
(***************************************************************************)
EXTENDS ApplyJournal, TLAPS

\* Places of the process: installing, between installation and record, rolling back.
Moving  == {"group", "check", "intent", "backup", "verify", "install", "mark"}
Settled == {"validate", "commit", "recheck"}
Undoing == {"rollback", "inspect", "restore", "drop"}
Working == {"mkdir", "plan", "stage"} \cup Moving \cup Settled \cup Undoing

\* An untouched path holds only what the process put there.  What is claimed of the
\* others needs ~LateEdits: while memory and disk disagree about a rollback, an edit
\* can be moved where recovery does not look for it.
Untouched(i)   == i \notin touched
Own(i)         == ~LateEdits \/ Untouched(i)
Of(i, content) == content \in {Missing, expected[i]}

\* Nothing of the transaction exists on disk, or not of this item.
Empty(i) ==
    ~item[i].dir /\ item[i].value = Missing /\ item[i].previous = Missing /\ item[i].installed = Missing
NoneYet == journal.phase = "none" /\ \A i \in Items : journal.items[i] = "none"

\* What the record and the journal say at each place of the process.
PhaseInv ==
    /\ pc \notin {"idle", "clear"} => pending
    /\ tx => pending
    /\ pc \in {"plan", "stage"} => tx
    /\ pc = "clear" => ~tx
    /\ pc \in {"stage", "validate", "commit"} \cup Moving => journal.phase = "prepared"
    /\ pc \in {"recheck", "record"} => journal.phase = "committed"
    /\ pc \in Undoing => journal.phase # "none"
    /\ pc \in Working => ~applied
    /\ pc = "finish" => applied
    /\ applied /\ caller = "job" => journal.phase # "prepared"
    /\ pc \in {"stage", "inspect", "restore", "drop"} \cup Moving => k \in Items
    /\ pc \in {"stage"} \cup Moving => plan = journal
    /\ pc = "group" => k = 1 /\ group
    /\ group => pc # "mark"

\* What the transaction directory holds, and what is to be installed.
DirInv ==
    /\ ~tx \/ pc \in {"mkdir", "plan"} => NoneYet /\ \A i \in Items : Empty(i)
    /\ journal.phase = "none" => NoneYet
    /\ \A i \in Items : ~item[i].dir => Empty(i)
    /\ pending => \A i \in Items : expected[i] \in {Missing, Merged}
    /\ group /\ pc \in {"stage"} \cup Moving => \A i \in Items : original[i] # Missing /\ expected[i] # Missing

\* Items the installation has yet to move, and those it is done with.
Ahead(i)  == i > k \/ (i = k /\ pc \in {"group", "check", "intent", "backup"})
Behind(i) == i < k \/ (i = k /\ pc = "mark")

\* How far the installation is with an item, by the position of the process.
Placed(i) ==
    /\ pc = "stage" =>
         /\ item[i].previous = Missing /\ item[i].installed = Missing
         /\ i < k => item[i].dir /\ item[i].value = expected[i]
         /\ Untouched(i) => tree[i] = original[i]
         /\ ~LateEdits => tree[i] # Merged
    /\ pc \in Moving =>
         /\ item[i].dir /\ item[i].installed = Missing
         /\ ~Behind(i) => item[i].value = expected[i]
         /\ Ahead(i) => item[i].previous = Missing
         /\ Behind(i) \/ (pc = "install" /\ i = k) => item[i].previous = original[i]
         /\ Untouched(i) =>
              /\ Ahead(i) => tree[i] = original[i]
              /\ ~Ahead(i) /\ ~Behind(i) => tree[i] = Missing /\ item[i].previous = original[i]
              /\ Behind(i) => tree[i] = expected[i]
         /\ ~LateEdits /\ ~Behind(i) => tree[i] # Merged
    /\ pc \in Settled =>
         /\ item[i].dir /\ item[i].installed = Missing /\ item[i].previous = original[i]
         /\ Untouched(i) => tree[i] = expected[i]
    /\ pc = "intent" /\ ~LateEdits /\ i = k => tree[i] = original[i]
    /\ pc \in {"commit", "recheck"} /\ ~LateEdits => tree[i] = expected[i]

\* The item was never begun.
Fresh(i) ==
    /\ item[i].previous = Missing /\ item[i].installed = Missing
    /\ Untouched(i) => tree[i] = original[i]
    /\ ~LateEdits => tree[i] # Merged

\* A journal, on disk or in memory, never calls an item prepared that was begun.  When
\* the write of an intent failed the two differ, and the rollback finds nothing to do.
Known(i) ==
    /\ pc \in {"stage", "group"} => journal.items[i] = "prepared"
    /\ pc \in Moving =>
         (Behind(i) \/ (i = k /\ pc \in {"backup", "verify", "install"}) \/ (group /\ pc # "group")
            => journal.items[i] # "prepared")
    /\ pc \in Settled => journal.items[i] # "prepared" /\ plan.items[i] # "prepared"
    /\ Own(i) =>
         /\ journal.items[i] = "prepared" => Fresh(i)
         /\ pc \in Undoing /\ plan.items[i] = "prepared" => Fresh(i)
    /\ journal.items[i] = "grouped" => original[i] # Missing
    /\ pc \in Moving \cup Settled \cup Undoing /\ plan.items[i] = "grouped" => original[i] # Missing
    /\ pc \in Undoing /\ ~LateEdits =>
         (journal.items[i] = "prepared" /\ plan.items[i] # "prepared" => original[i] # Missing \/ tree[i] = Missing)

\* The item is rolled back: the transaction holds nothing of the user's.
Undone(i) ==
    /\ item[i].previous = Missing /\ Of(i, item[i].installed)
    /\ Untouched(i) => tree[i] = original[i]
    /\ ~LateEdits => tree[i] # Merged

\* The rollback, from the last item down.  As long as it met no error the items behind
\* it are undone, and they all are when the transaction is removed without an outcome.
Undo(i) == Own(i) =>
    /\ pc \in Undoing /\ ~bad /\ i > k => Undone(i)
    /\ pc \in {"inspect", "restore", "drop"} /\ i = k =>
         journal.items[i] # "prepared" /\ plan.items[i] # "prepared"
    /\ pc = "inspect" /\ i = k =>
         item[i].installed # Missing /\ (item[i].previous = Missing => original[i] = Missing)
    /\ pc = "restore" /\ i = k =>
         /\ item[i].previous # Missing /\ Of(i, item[i].installed)
         /\ Untouched(i) => tree[i] = Missing
    /\ pc = "drop" /\ i = k => Undone(i)
    /\ journal.phase = "none" \/ pc = "remove" => applied \/ Undone(i)

\* An untouched path is in one of three states: original in place, original moved away,
\* new value in place.  A recorded outcome means the last one.
Whole(i) == Untouched(i) =>
    /\ applied \/
         \/ tree[i] = original[i] /\ item[i].previous = Missing /\ Of(i, item[i].installed)
         \/ tree[i] = Missing /\ item[i].previous = original[i] /\ Of(i, item[i].installed)
         \/ tree[i] = expected[i] /\ item[i].previous = original[i] /\ item[i].installed = Missing
    /\ pc = "record" \/ applied => tree[i] = expected[i]

\* Where every version to be kept is, and why what is dropped or overwritten is none.
Held(i) == ~LateEdits =>
    /\ keep[i] \subseteq {tree[i], item[i].previous, item[i].installed}
    /\ Merged \notin keep[i] /\ Missing \notin keep[i]
    /\ item[i].previous # Merged
    /\ item[i].installed = Merged => expected[i] = Merged
    /\ tree[i] < Edited + edits /\ original[i] < Edited + edits
    /\ item[i].previous < Edited + edits /\ item[i].installed < Edited + edits
    /\ applied => original[i] \notin keep[i]
    /\ ~applied /\ original[i] # Missing /\ item[i].previous = Missing => Of(i, item[i].installed)
    /\ ~applied /\ tree[i] = Merged =>
         expected[i] = Merged /\ item[i].installed = Missing /\ item[i].previous = original[i]
    /\ applied \/ journal.phase = "committed" =>
         item[i].previous \in {Missing, original[i]} /\ Of(i, item[i].installed)
    /\ journal.phase = "committed" /\ pc \in Undoing =>
         \/ Of(i, tree[i])
         \/ tree[i] = original[i] /\ item[i].previous = Missing /\ original[i] # Missing

\* Every path keeps to it; paths do not depend on each other.
ItemInv == \A i \in Items : Placed(i) /\ Known(i) /\ Undo(i) /\ Whole(i) /\ Held(i)

\* RollbackItem goes on to what is installed at the path.
Began == plan.items[k] # "prepared" /\ ~(item[k].previous = Missing /\ original[k] # Missing)

-----------------------------------------------------------------------------
\* TypeOK, in the parts that a step changes together.
ItemDirs == [dir : BOOLEAN, value : Contents, previous : Contents, installed : Contents]
Places == {"idle", "mkdir", "plan", "stage", "group", "check", "intent", "backup", "verify",
           "install", "mark", "validate", "commit", "recheck", "record", "finish",
           "rollback", "inspect", "restore", "drop", "remove", "recover", "clear"}
FileTypes == tree \in [Items -> Contents] /\ item \in [Items -> ItemDirs]
JournalsOK == journal \in Journals /\ plan \in Journals
ProcessTypes ==
    /\ pc \in Places /\ k \in 0..N
    /\ who \in {"apply", "recover"} /\ group \in BOOLEAN /\ bad \in BOOLEAN
    /\ faults \in 0..MaxFaults
RecordTypes ==
    /\ original \in [Items -> Contents] /\ expected \in [Items -> Contents]
    /\ pending \in BOOLEAN /\ applied \in BOOLEAN /\ cleanup \in BOOLEAN /\ tx \in BOOLEAN
    /\ caller \in Callers
    /\ keep \in [Items -> SUBSET Contents] /\ touched \subseteq Items
    /\ applies \in 0..MaxApplies /\ edits \in 0..MaxEdits
    /\ crashes \in 0..MaxCrashes

\* The inductive invariant.
AJInv == FileTypes /\ JournalsOK /\ ProcessTypes /\ RecordTypes /\ PhaseInv /\ DirInv /\ ItemInv

\* The facts about numbers that the proofs use.
LEMMA Constants ==
  /\ N \in Nat /\ N > 0 /\ MaxEdits \in Nat /\ MaxApplies \in Nat /\ MaxCrashes \in Nat /\ MaxFaults \in Nat
  /\ Contents \subseteq Nat /\ Missing \in Contents /\ Base \in Contents /\ Merged \in Contents
  /\ \A c \in 0..(MaxEdits - 1) : Edited + c \in Contents
  BY ApplyJournalAssumption DEF Contents, Missing, Base, Merged, Edited

USE Constants DEF Items, Goto, Return, Abort, Done, LastItem, SameContent,
  Moving, Settled, Undoing, Working, Untouched, Own, Of, Ahead, Behind
USE DEF dir, record, process, request, history

\* The effect of a step on the other paths, and on the path it works at.
Elsewhere(i) == \A j \in Items \ {i} :
  /\ tree'[j] = tree[j] /\ item'[j].dir = item[j].dir /\ item'[j].value = item[j].value
  /\ item'[j].previous = item[j].previous /\ item'[j].installed = item[j].installed
Now(i, t, d, v, p, q) ==
  /\ tree'[i] = t /\ item'[i].dir = d /\ item'[i].value = v
  /\ item'[i].previous = p /\ item'[i].installed = q

\* The journals the process writes.
LEMMA JournalTypes ==
  NoJournal \in Journals /\ \A ph \in Phases : Journal(ph) \in Journals
  BY DEF Journals, Journal, NoJournal, Phases

\* Marking one item of a journal (rewriteApplyJournal).
LEMMA JournalMarked ==
  ASSUME NEW jn \in Journals, NEW i \in Items, NEW ph \in Phases, NEW new,
         new = [jn EXCEPT !.items[i] = ph]
  PROVE  /\ new \in Journals /\ new.phase = jn.phase /\ new.items[i] = ph
         /\ \A j \in Items \ {i} : new.items[j] = jn.items[j]
  BY DEF Journals

-----------------------------------------------------------------------------
\* The application.

\* Begin keeps the invariant.
LEMMA BeginKeeps == AJInv /\ Begin => AJInv'
  <1> SUFFICES ASSUME AJInv, Begin PROVE AJInv'
    OBVIOUS
  <1>1. /\ pc = "idle" /\ ~pending /\ ~applied /\ FileTypes /\ RecordTypes /\ JournalsOK
        /\ NoneYet /\ \A i \in Items : Empty(i)
    BY DEF AJInv, Begin, PhaseInv, DirInv
  <1>2. /\ expected' \in [Items -> {Missing, Merged}] /\ original' = tree /\ touched' = {}
        /\ keep' \in [Items -> SUBSET Contents]
        /\ \A i \in Items : keep'[i] = {tree[i]} \ {Missing}
        /\ applies' \in 0..MaxApplies
    BY <1>1 DEF Begin, FileTypes, RecordTypes
  <1>3. \/ pc' = "mkdir" /\ k' = 0 /\ pending' = TRUE
        \/ pc' = "idle" /\ k' = 0 /\ pending' \in {pending, TRUE}
    BY DEF Begin, Attempt, SaveFailed
  <1>4. UNCHANGED <<tree, dir, applied, cleanup, plan, who, group, bad, caller, edits, crashes>>
    BY DEF Begin
  <1>5. FileTypes'
    BY <1>1, <1>4 DEF FileTypes
  <1>6. JournalsOK'
    BY <1>1, <1>4 DEF JournalsOK
  <1>7. ProcessTypes'
    <2>1. ProcessTypes
      BY DEF AJInv
    <2>2. faults' \in 0..MaxFaults
      BY <2>1 DEF Begin, Attempt, ProcessTypes
    <2>3. pc' \in Places
      BY <1>3 DEF Places
    <2>a. k' = 0
      BY <1>3
    <2>4. k' \in 0..N
      BY <2>a
    <2>5. QED
      BY <1>4, <2>1, <2>2, <2>3, <2>4 DEF ProcessTypes
  <1>8. RecordTypes'
    <2>1. original' \in [Items -> Contents] /\ expected' \in [Items -> Contents]
      BY <1>1, <1>2 DEF FileTypes
    <2>2. pending' \in BOOLEAN
      BY <1>1, <1>3 DEF RecordTypes
    <2>3. applied' \in BOOLEAN /\ cleanup' \in BOOLEAN /\ tx' \in BOOLEAN /\ caller' \in Callers
      BY <1>1, <1>4 DEF RecordTypes
    <2>4. edits' \in 0..MaxEdits /\ crashes' \in 0..MaxCrashes /\ touched' \subseteq Items
      BY <1>1, <1>2, <1>4 DEF RecordTypes
    <2>5. QED
      BY <1>2, <2>1, <2>2, <2>3, <2>4 DEF RecordTypes
  <1>9. PhaseInv'
    BY <1>1, <1>3, <1>4 DEF AJInv, PhaseInv, DirInv
  <1>10. DirInv'
    BY <1>1, <1>2, <1>3, <1>4 DEF AJInv, DirInv, NoneYet, Empty
  <1>11. ASSUME NEW i \in Items
         PROVE  (Placed(i) /\ Known(i) /\ Undo(i) /\ Whole(i) /\ Held(i))'
    <2>1. Undo(i) /\ Held(i) /\ Empty(i) /\ tree[i] \in Contents
      BY <1>1 DEF AJInv, ItemInv, FileTypes
    <2>2. ~LateEdits => tree[i] # Merged
      BY <1>1, <2>1 DEF Undo, Undone, NoneYet
    <2>3. Placed(i)'
      BY <1>3 DEF Placed
    <2>4. Known(i)'
      BY <1>1, <1>3, <1>4 DEF Known, NoneYet
    <2>5. Undo(i)'
      BY <1>1, <1>2, <1>3, <1>4, <2>1, <2>2 DEF Undo, Undone, Empty
    <2>6. Whole(i)'
      BY <1>1, <1>2, <1>3, <1>4, <2>1 DEF Whole, Empty
    <2>7. Held(i)'
      BY <1>1, <1>2, <1>3, <1>4, <2>1, <2>2 DEF Held, Empty, Missing, Merged, NoneYet
    <2>8. QED
      BY <2>3, <2>4, <2>5, <2>6, <2>7
  <1>12. QED
    BY <1>5, <1>6, <1>7, <1>8, <1>9, <1>10, <1>11 DEF AJInv, ItemInv

\* Refuse keeps the invariant.
LEMMA RefuseKeeps == AJInv /\ Refuse => AJInv'
  <1> SUFFICES ASSUME AJInv, Refuse PROVE AJInv'
    OBVIOUS
  <1>5. FileTypes'
    BY DEF AJInv, Refuse, FileTypes, ItemDirs
  <1>6. JournalsOK'
    BY JournalTypes DEF AJInv, Refuse, JournalsOK, Phases, PhaseInv
  <1>7. ProcessTypes'
    <2>1. ProcessTypes
      BY DEF AJInv
    <2>2. faults' \in 0..MaxFaults
      BY <2>1 DEF Refuse, ProcessTypes
    <2>3. pc' \in Places /\ who' \in {"apply", "recover"}
      BY <2>1 DEF Refuse, ProcessTypes, Places
    <2>4. k' \in 0..N
      BY <2>1 DEF Refuse, ProcessTypes, AJInv, PhaseInv
    <2>5. group' \in BOOLEAN /\ bad' \in BOOLEAN
      BY <2>1 DEF Refuse, ProcessTypes
    <2>6. QED
      BY <2>2, <2>3, <2>4, <2>5 DEF ProcessTypes
  <1>8. RecordTypes'
    BY DEF AJInv, Refuse, RecordTypes, FileTypes
  <1>9. PhaseInv'
    BY DEF AJInv, Refuse, PhaseInv
  <1>10. DirInv'
    BY DEF AJInv, Refuse, PhaseInv, DirInv, NoneYet, Empty
  <1>11. ASSUME NEW i \in Items
        PROVE  (Placed(i) /\ Known(i) /\ Undo(i) /\ Whole(i) /\ Held(i))'
    <2>1. Placed(i) /\ Known(i) /\ Undo(i) /\ Whole(i) /\ Held(i) /\ edits \in Nat /\ k \in 0..N
      BY DEF AJInv, ItemInv, RecordTypes, ProcessTypes
    <2>2. Placed(i)'
      BY <2>1 DEF Refuse, AJInv, Placed, Known, PhaseInv, DirInv, Missing, Merged, InstalledAll, BackupsAll
    <2>3. Known(i)'
      BY <2>1 DEF Refuse, AJInv, Known, Placed, Undo, Fresh, PhaseInv, DirInv, Missing, Merged, InstalledAll, BackupsAll
    <2>4. Undo(i)'
      BY <2>1 DEF Refuse, AJInv, Undo, Undone, Placed, Known, Whole, Held, Fresh, PhaseInv, DirInv, Missing, Merged, InstalledAll, BackupsAll
    <2>5. Whole(i)'
      BY <2>1 DEF Refuse, AJInv, Whole, Placed, Known, Fresh, Undo, Undone, PhaseInv, InstalledAll, BackupsAll
    <2>6. Held(i)'
      BY <2>1 DEF Refuse, AJInv, Held, Placed, Known, Fresh, Undo, Undone, PhaseInv, DirInv, Missing, Merged, Edited, InstalledAll, BackupsAll
    <2>7. QED
      BY <2>2, <2>3, <2>4, <2>5, <2>6
  <1>12. QED
    BY <1>5, <1>6, <1>7, <1>8, <1>9, <1>10, <1>11 DEF AJInv, ItemInv

\* MakeTransaction keeps the invariant.
LEMMA MakeTransactionKeeps == AJInv /\ MakeTransaction => AJInv'
  <1> SUFFICES ASSUME AJInv, MakeTransaction PROVE AJInv'
    OBVIOUS
  <1>5. FileTypes'
    BY DEF AJInv, MakeTransaction, Attempt, FileTypes, ItemDirs
  <1>6. JournalsOK'
    BY JournalTypes DEF AJInv, MakeTransaction, Attempt, JournalsOK, Phases, PhaseInv
  <1>7. ProcessTypes'
    <2>1. ProcessTypes
      BY DEF AJInv
    <2>2. faults' \in 0..MaxFaults
      BY <2>1 DEF MakeTransaction, Attempt, ProcessTypes
    <2>3. pc' \in Places /\ who' \in {"apply", "recover"}
      BY <2>1 DEF MakeTransaction, Attempt, ProcessTypes, Places
    <2>4. k' \in 0..N
      BY <2>1 DEF MakeTransaction, Attempt, ProcessTypes, AJInv, PhaseInv
    <2>5. group' \in BOOLEAN /\ bad' \in BOOLEAN
      BY <2>1 DEF MakeTransaction, Attempt, ProcessTypes
    <2>6. QED
      BY <2>2, <2>3, <2>4, <2>5 DEF ProcessTypes
  <1>8. RecordTypes'
    BY DEF AJInv, MakeTransaction, Attempt, RecordTypes, FileTypes
  <1>9. PhaseInv'
    BY DEF AJInv, MakeTransaction, Attempt, PhaseInv
  <1>10. DirInv'
    BY DEF AJInv, MakeTransaction, Attempt, PhaseInv, DirInv, NoneYet, Empty
  <1>11. ASSUME NEW i \in Items
        PROVE  (Placed(i) /\ Known(i) /\ Undo(i) /\ Whole(i) /\ Held(i))'
    <2>1. Placed(i) /\ Known(i) /\ Undo(i) /\ Whole(i) /\ Held(i) /\ edits \in Nat /\ k \in 0..N
      BY DEF AJInv, ItemInv, RecordTypes, ProcessTypes
    <2>2. Placed(i)'
      BY <2>1 DEF MakeTransaction, Attempt, AJInv, Placed, Known, PhaseInv, DirInv, Missing, Merged, InstalledAll, BackupsAll
    <2>3. Known(i)'
      BY <2>1 DEF MakeTransaction, Attempt, AJInv, Known, Placed, Undo, Fresh, PhaseInv, DirInv, Missing, Merged, InstalledAll, BackupsAll
    <2>4. Undo(i)'
      BY <2>1 DEF MakeTransaction, Attempt, AJInv, Undo, Undone, Placed, Known, Whole, Held, Fresh, PhaseInv, DirInv, Missing, Merged, InstalledAll, BackupsAll
    <2>5. Whole(i)'
      BY <2>1 DEF MakeTransaction, Attempt, AJInv, Whole, Placed, Known, Fresh, Undo, Undone, PhaseInv, InstalledAll, BackupsAll
    <2>6. Held(i)'
      BY <2>1 DEF MakeTransaction, Attempt, AJInv, Held, Placed, Known, Fresh, Undo, Undone, PhaseInv, DirInv, Missing, Merged, Edited, InstalledAll, BackupsAll
    <2>7. QED
      BY <2>2, <2>3, <2>4, <2>5, <2>6
  <1>12. QED
    BY <1>5, <1>6, <1>7, <1>8, <1>9, <1>10, <1>11 DEF AJInv, ItemInv

\* WritePlan keeps the invariant.
LEMMA WritePlanKeeps == AJInv /\ WritePlan => AJInv'
  <1> SUFFICES ASSUME AJInv, WritePlan PROVE AJInv'
    OBVIOUS
  <1>1. /\ pc = "plan" /\ plan' = Journal("prepared") /\ journal' \in {journal, plan'} /\ tx /\ ~applied /\ pending
        /\ NoneYet /\ JournalsOK /\ FileTypes /\ \A i \in Items : Empty(i)
    BY DEF AJInv, PhaseInv, DirInv, WritePlan, Attempt, Unpublish
  <1>2. /\ plan'.phase = "prepared" /\ \A i \in Items : plan'.items[i] = "prepared"
        /\ plan' \in Journals /\ journal' \in Journals
    BY <1>1, JournalTypes DEF Journal, Phases, JournalsOK
  <1>3. \/ /\ pc' = "stage" /\ k' = 1 /\ journal' = plan' /\ 1 \in Items /\ UNCHANGED who
           /\ group' = FALSE \/ (Groupable /\ group' \in BOOLEAN)
        \/ pc' = "remove" /\ k' = 0 /\ who' = "apply" /\ group' \in BOOLEAN
    <2>1. group' \in BOOLEAN /\ (group' = FALSE \/ Groupable)
      BY DEF WritePlan
    <2>2. \/ pc' = "stage" /\ k' = 1 /\ journal' = plan' /\ UNCHANGED who
          \/ pc' = "remove" /\ k' = 0 /\ who' = "apply"
      BY DEF WritePlan, Attempt, Unpublish
    <2>3. QED
      BY <2>1, <2>2
  <1>4. UNCHANGED <<tree, tx, item, record, bad, request, history>>
    BY DEF WritePlan
  <1>5. FileTypes'
    BY <1>1, <1>2, <1>4 DEF AJInv, FileTypes
  <1>6. JournalsOK'
    BY <1>1, <1>2, <1>4 DEF AJInv, JournalsOK
  <1>7. ProcessTypes'
    <2>1. ProcessTypes
      BY DEF AJInv
    <2>2. faults' \in 0..MaxFaults
      BY <2>1 DEF WritePlan, Attempt, Groupable, Journal, Unpublish, ProcessTypes
    <2>3. pc' \in Places /\ who' \in {"apply", "recover"}
      BY <1>1, <1>2, <1>3, <1>4, <2>1 DEF ProcessTypes, Places
    <2>4. k' \in 0..N
      BY <1>1, <1>2, <1>3, <1>4, <2>1 DEF ProcessTypes
    <2>5. group' \in BOOLEAN /\ bad' \in BOOLEAN
      BY <1>1, <1>2, <1>3, <1>4, <2>1 DEF ProcessTypes
    <2>6. QED
      BY <2>2, <2>3, <2>4, <2>5 DEF ProcessTypes
  <1>8. RecordTypes'
    BY <1>1, <1>2, <1>4 DEF AJInv, RecordTypes
  <1>9. PhaseInv'
    BY <1>1, <1>2, <1>3, <1>4 DEF AJInv, PhaseInv
  <1>10. DirInv'
    BY <1>1, <1>2, <1>3, <1>4 DEF AJInv, DirInv, NoneYet, Empty, Groupable
  <1>11. ASSUME NEW i \in Items
        PROVE  (Placed(i) /\ Known(i) /\ Undo(i) /\ Whole(i) /\ Held(i))'
    <2>1. Placed(i) /\ Known(i) /\ Undo(i) /\ Whole(i) /\ Held(i) /\ edits \in Nat /\ k \in 0..N
      BY DEF AJInv, ItemInv, RecordTypes, ProcessTypes
    <2>2. Placed(i)'
      BY <2>1, <1>1, <1>3, <1>4 DEF Placed, Empty, Undo, Undone, NoneYet
    <2>3. Known(i)'
      BY <2>1, <1>1, <1>2, <1>3, <1>4 DEF Known, Fresh, Empty, Undo, Undone, NoneYet
    <2>4. Undo(i)'
      BY <2>1, <1>1, <1>3, <1>4 DEF Undo, Undone, NoneYet
    <2>5. Whole(i)'
      BY <2>1, <1>1, <1>2, <1>3, <1>4 DEF AJInv, Now, Elsewhere, Whole, Placed, Known, Fresh, Undo, Undone, PhaseInv
    <2>6. Held(i)'
      BY <2>1, <1>1, <1>2, <1>3, <1>4 DEF AJInv, Now, Elsewhere, Held, Placed, Known, Fresh, Undo, Undone, PhaseInv, DirInv, Missing, Merged, Edited
    <2>7. QED
      BY <2>2, <2>3, <2>4, <2>5, <2>6
  <1>12. QED
    BY <1>5, <1>6, <1>7, <1>8, <1>9, <1>10, <1>11 DEF AJInv, ItemInv

\* Stage keeps the invariant.
LEMMA StageKeeps == AJInv /\ Stage => AJInv'
  <1> SUFFICES ASSUME AJInv, Stage PROVE AJInv'
    OBVIOUS
  <1>1. pc = "stage" /\ k \in Items /\ FileTypes /\ RecordTypes /\ tx /\ pending
    BY DEF AJInv, Stage, PhaseInv
  <1>2. item' \in [Items -> ItemDirs] /\ 1 \in Items /\ (k # N => k + 1 \in Items)
    <2>1. expected[k] \in Contents /\ item[k] \in ItemDirs
      BY <1>1 DEF RecordTypes, FileTypes
    <2>2. \/ item' = item
          \/ item' = [item EXCEPT ![k] = [item[k] EXCEPT !.dir = TRUE]]
          \/ item' = [item EXCEPT ![k] = [item[k] EXCEPT !.dir = TRUE, !.value = expected[k]]]
      BY <1>1 DEF Stage, Attempt, FileTypes, ItemDirs
    <2>3. /\ [item[k] EXCEPT !.dir = TRUE] \in ItemDirs
          /\ [item[k] EXCEPT !.dir = TRUE, !.value = expected[k]] \in ItemDirs
      BY <2>1 DEF ItemDirs
    <2>4. item' \in [Items -> ItemDirs]
      BY <1>1, <2>2, <2>3 DEF FileTypes
    <2>5. QED
      BY <1>1, <2>4
  <1>3. \/ /\ Now(k, tree[k], TRUE, expected[k], item[k].previous, item[k].installed) /\ Elsewhere(k)
           /\ \/ k # N /\ pc' = "stage" /\ k' = k + 1 /\ UNCHANGED who
              \/ k = N /\ group /\ pc' = "group" /\ k' = 1 /\ UNCHANGED who
              \/ k = N /\ ~group /\ pc' = "check" /\ k' = 1 /\ UNCHANGED who
              \/ pc' = "remove" /\ k' = 0 /\ who' = "apply"
        \/ /\ item' = item \/ (Now(k, tree[k], TRUE, item[k].value, item[k].previous, item[k].installed) /\ Elsewhere(k))
           /\ pc' = "remove" /\ k' = 0 /\ who' = "apply"
    BY <1>1 DEF Stage, Attempt, Unpublish, FileTypes, ItemDirs, Now, Elsewhere
  <1>4. UNCHANGED <<tree, tx, journal, record, plan, group, bad, request, history>>
    BY DEF Stage
  <1>5. FileTypes'
    BY <1>1, <1>2, <1>4 DEF AJInv, FileTypes
  <1>6. JournalsOK'
    BY <1>1, <1>2, <1>4 DEF AJInv, JournalsOK
  <1>7. ProcessTypes'
    <2>1. ProcessTypes
      BY DEF AJInv
    <2>2. faults' \in 0..MaxFaults
      BY <2>1 DEF Stage, Attempt, ProcessTypes
    <2>3. pc' \in Places /\ who' \in {"apply", "recover"}
      BY <1>3, <2>1 DEF ProcessTypes, Places
    <2>4. k' \in Items \cup {0}
      BY <1>2, <1>3
    <2>5. QED
      BY <1>4, <2>1, <2>2, <2>3, <2>4 DEF ProcessTypes
  <1>8. RecordTypes'
    BY <1>1, <1>2, <1>4 DEF AJInv, RecordTypes
  <1>9. PhaseInv'
    BY <1>1, <1>2, <1>3, <1>4 DEF AJInv, PhaseInv
  <1>10. DirInv'
    BY <1>1, <1>2, <1>3, <1>4 DEF AJInv, PhaseInv, DirInv, NoneYet, Empty, Now, Elsewhere
  <1>11. ASSUME NEW i \in Items
        PROVE  (Placed(i) /\ Known(i) /\ Undo(i) /\ Whole(i) /\ Held(i))'
    <2>1. Placed(i) /\ Known(i) /\ Undo(i) /\ Whole(i) /\ Held(i) /\ edits \in Nat /\ k \in 0..N
      BY DEF AJInv, ItemInv, RecordTypes, ProcessTypes
    <2>2. Placed(i)'
      BY <2>1, <1>1, <1>2, <1>3, <1>4 DEF AJInv, Now, Elsewhere, Placed, Known, PhaseInv, DirInv, Missing, Merged
    <2>3. Known(i)'
      BY <2>1, <1>1, <1>2, <1>3, <1>4 DEF AJInv, Now, Elsewhere, Known, Placed, Undo, Fresh, PhaseInv, DirInv, Missing, Merged
    <2>4. Undo(i)'
      BY <2>1, <1>1, <1>2, <1>3, <1>4 DEF AJInv, Now, Elsewhere, Undo, Undone, Placed, Known, Whole, Held, Fresh, PhaseInv, DirInv, Missing, Merged
    <2>5. Whole(i)'
      BY <2>1, <1>1, <1>2, <1>3, <1>4 DEF AJInv, Now, Elsewhere, Whole, Placed, Known, Fresh, Undo, Undone, PhaseInv
    <2>6. Held(i)'
      BY <2>1, <1>1, <1>2, <1>3, <1>4 DEF AJInv, Now, Elsewhere, Held, Placed, Known, Fresh, Undo, Undone, PhaseInv, DirInv, Missing, Merged, Edited
    <2>7. QED
      BY <2>2, <2>3, <2>4, <2>5, <2>6
  <1>12. QED
    BY <1>5, <1>6, <1>7, <1>8, <1>9, <1>10, <1>11 DEF AJInv, ItemInv

\* GroupIntent keeps the invariant.
LEMMA GroupIntentKeeps == AJInv /\ GroupIntent => AJInv'
  <1> SUFFICES ASSUME AJInv, GroupIntent PROVE AJInv'
    OBVIOUS
  <1>1. pc = "group" /\ k = 1 /\ 1 \in Items /\ group /\ JournalsOK /\ journal.phase = "prepared"
    BY DEF AJInv, GroupIntent, PhaseInv
  <1>2. plan' \in Journals /\ journal' \in Journals
    BY <1>1, JournalTypes DEF GroupIntent, Publish, Attempt, JournalsOK, Phases
  <1>3. /\ plan'.phase = "prepared" /\ \A i \in Items : plan'.items[i] = "grouped"
        /\ \/ journal' = plan' /\ pc' = "check" /\ k' = 1 /\ UNCHANGED <<who, bad>>
           \/ (journal' = plan' \/ journal' = journal) /\ Abort
    BY DEF GroupIntent, Publish, Attempt, Journal
  <1>4. UNCHANGED <<tree, tx, item, record, group, request, history>>
    BY DEF GroupIntent, Publish
  <1>5. FileTypes'
    BY <1>1, <1>2, <1>4 DEF AJInv, FileTypes
  <1>6. JournalsOK'
    BY <1>1, <1>2, <1>4 DEF AJInv, JournalsOK
  <1>7. ProcessTypes'
    <2>1. ProcessTypes
      BY DEF AJInv
    <2>2. faults' \in 0..MaxFaults
      BY <2>1 DEF GroupIntent, Publish, Attempt, Journal, ProcessTypes
    <2>3. pc' \in Places /\ who' \in {"apply", "recover"}
      BY <1>1, <1>2, <1>3, <1>4, <2>1 DEF ProcessTypes, Places
    <2>4. k' \in 0..N
      BY <1>1, <1>2, <1>3, <1>4, <2>1 DEF ProcessTypes
    <2>5. group' \in BOOLEAN /\ bad' \in BOOLEAN
      BY <1>1, <1>2, <1>3, <1>4, <2>1 DEF ProcessTypes
    <2>6. QED
      BY <2>2, <2>3, <2>4, <2>5 DEF ProcessTypes
  <1>8. RecordTypes'
    BY <1>1, <1>2, <1>4 DEF AJInv, RecordTypes
  <1>9. PhaseInv'
    BY <1>1, <1>2, <1>3, <1>4 DEF AJInv, PhaseInv
  <1>10. DirInv'
    BY <1>1, <1>2, <1>3, <1>4 DEF AJInv, PhaseInv, DirInv, NoneYet, Empty, Now, Elsewhere
  <1>11. ASSUME NEW i \in Items
        PROVE  (Placed(i) /\ Known(i) /\ Undo(i) /\ Whole(i) /\ Held(i))'
    <2>1. Placed(i) /\ Known(i) /\ Undo(i) /\ Whole(i) /\ Held(i) /\ edits \in Nat /\ k \in 0..N
      BY DEF AJInv, ItemInv, RecordTypes, ProcessTypes
    <2>2. Placed(i)'
      BY <2>1, <1>1, <1>2, <1>3, <1>4 DEF AJInv, Now, Elsewhere, Placed, Known, PhaseInv, DirInv, Missing, Merged
    <2>3. Known(i)'
      BY <2>1, <1>1, <1>2, <1>3, <1>4 DEF AJInv, Now, Elsewhere, Known, Placed, Undo, Fresh, PhaseInv, DirInv, Missing, Merged
    <2>4. Undo(i)'
      BY <2>1, <1>1, <1>2, <1>3, <1>4 DEF AJInv, Now, Elsewhere, Undo, Undone, Placed, Known, Whole, Held, Fresh, PhaseInv, DirInv, Missing, Merged
    <2>5. Whole(i)'
      BY <2>1, <1>1, <1>2, <1>3, <1>4 DEF AJInv, Now, Elsewhere, Whole, Placed, Known, Fresh, Undo, Undone, PhaseInv
    <2>6. Held(i)'
      BY <2>1, <1>1, <1>2, <1>3, <1>4 DEF AJInv, Now, Elsewhere, Held, Placed, Known, Fresh, Undo, Undone, PhaseInv, DirInv, Missing, Merged, Edited
    <2>7. QED
      BY <2>2, <2>3, <2>4, <2>5, <2>6
  <1>12. QED
    BY <1>5, <1>6, <1>7, <1>8, <1>9, <1>10, <1>11 DEF AJInv, ItemInv

\* CheckOriginal keeps the invariant.
LEMMA CheckOriginalKeeps == AJInv /\ CheckOriginal => AJInv'
  <1> SUFFICES ASSUME AJInv, CheckOriginal PROVE AJInv'
    OBVIOUS
  <1>5. FileTypes'
    BY DEF AJInv, CheckOriginal, Require, FileTypes, ItemDirs
  <1>6. JournalsOK'
    BY JournalTypes DEF AJInv, CheckOriginal, Require, JournalsOK, Phases, PhaseInv
  <1>7. ProcessTypes'
    <2>1. ProcessTypes
      BY DEF AJInv
    <2>2. faults' \in 0..MaxFaults
      BY <2>1 DEF CheckOriginal, Require, ProcessTypes
    <2>3. pc' \in Places /\ who' \in {"apply", "recover"}
      BY <2>1 DEF CheckOriginal, Require, ProcessTypes, Places
    <2>4. k' \in 0..N
      BY <2>1 DEF CheckOriginal, Require, ProcessTypes, AJInv, PhaseInv
    <2>5. group' \in BOOLEAN /\ bad' \in BOOLEAN
      BY <2>1 DEF CheckOriginal, Require, ProcessTypes
    <2>6. QED
      BY <2>2, <2>3, <2>4, <2>5 DEF ProcessTypes
  <1>8. RecordTypes'
    BY DEF AJInv, CheckOriginal, Require, RecordTypes, FileTypes
  <1>9. PhaseInv'
    BY DEF AJInv, CheckOriginal, Require, PhaseInv
  <1>10. DirInv'
    BY DEF AJInv, CheckOriginal, Require, PhaseInv, DirInv, NoneYet, Empty
  <1>11. ASSUME NEW i \in Items
        PROVE  (Placed(i) /\ Known(i) /\ Undo(i) /\ Whole(i) /\ Held(i))'
    <2>1. Placed(i) /\ Known(i) /\ Undo(i) /\ Whole(i) /\ Held(i) /\ edits \in Nat /\ k \in 0..N
      BY DEF AJInv, ItemInv, RecordTypes, ProcessTypes
    <2>2. Placed(i)'
      BY <2>1 DEF CheckOriginal, Require, AJInv, Placed, Known, PhaseInv, DirInv, Missing, Merged, InstalledAll, BackupsAll
    <2>3. Known(i)'
      BY <2>1 DEF CheckOriginal, Require, AJInv, Known, Placed, Undo, Fresh, PhaseInv, DirInv, Missing, Merged, InstalledAll, BackupsAll
    <2>4. Undo(i)'
      BY <2>1 DEF CheckOriginal, Require, AJInv, Undo, Undone, Placed, Known, Whole, Held, Fresh, PhaseInv, DirInv, Missing, Merged, InstalledAll, BackupsAll
    <2>5. Whole(i)'
      BY <2>1 DEF CheckOriginal, Require, AJInv, Whole, Placed, Known, Fresh, Undo, Undone, PhaseInv, InstalledAll, BackupsAll
    <2>6. Held(i)'
      BY <2>1 DEF CheckOriginal, Require, AJInv, Held, Placed, Known, Fresh, Undo, Undone, PhaseInv, DirInv, Missing, Merged, Edited, InstalledAll, BackupsAll
    <2>7. QED
      BY <2>2, <2>3, <2>4, <2>5, <2>6
  <1>12. QED
    BY <1>5, <1>6, <1>7, <1>8, <1>9, <1>10, <1>11 DEF AJInv, ItemInv

\* Intent keeps the invariant.
LEMMA IntentKeeps == AJInv /\ Intent => AJInv'
  <1> SUFFICES ASSUME AJInv, Intent PROVE AJInv'
    OBVIOUS
  <1>1. pc = "intent" /\ k \in Items /\ JournalsOK /\ plan = journal /\ journal.phase = "prepared"
    BY DEF AJInv, Intent, PhaseInv
  <1>2. plan' \in Journals /\ journal' \in Journals
    <2>1. plan' = [plan EXCEPT !.items[k] = "installing"] /\ journal' \in {plan', journal}
      BY DEF Intent, Publish, Attempt
    <2>2. plan' \in Journals
      BY <1>1, <2>1, JournalMarked DEF JournalsOK, Phases
    <2>3. QED
      BY <1>1, <2>1, <2>2 DEF JournalsOK
  <1>3. /\ plan'.phase = "prepared" /\ plan'.items[k] = "installing"
        /\ \A i \in Items \ {k} : plan'.items[i] = plan.items[i]
        /\ \/ journal' = plan' /\ pc' = "backup" /\ k' = k /\ UNCHANGED <<who, bad>>
           \/ (journal' = plan' \/ journal' = journal) /\ Abort
    <2>1. plan' = [plan EXCEPT !.items[k] = "installing"]
      BY DEF Intent, Publish
    <2>2. /\ plan'.phase = plan.phase /\ plan'.items[k] = "installing"
          /\ \A i \in Items \ {k} : plan'.items[i] = plan.items[i]
      BY <1>1, <2>1, JournalMarked DEF JournalsOK, Phases
    <2>3. k # N => k + 1 \in Items
      BY <1>1
    <2>4. QED
      BY <1>1, <2>2, <2>3 DEF Intent, Publish, Attempt
  <1>4. UNCHANGED <<tree, tx, item, record, group, request, history>>
    BY DEF Intent, Publish
  <1>5. FileTypes'
    BY <1>1, <1>2, <1>4 DEF AJInv, FileTypes
  <1>6. JournalsOK'
    BY <1>1, <1>2, <1>4 DEF AJInv, JournalsOK
  <1>7. ProcessTypes'
    <2>1. ProcessTypes
      BY DEF AJInv
    <2>2. faults' \in 0..MaxFaults
      BY <2>1 DEF Intent, Publish, Attempt, ProcessTypes
    <2>3. pc' \in Places /\ who' \in {"apply", "recover"}
      BY <1>1, <1>2, <1>3, <1>4, <2>1 DEF ProcessTypes, Places
    <2>4. k' \in 0..N
      BY <1>1, <1>2, <1>3, <1>4, <2>1 DEF ProcessTypes
    <2>5. group' \in BOOLEAN /\ bad' \in BOOLEAN
      BY <1>1, <1>2, <1>3, <1>4, <2>1 DEF ProcessTypes
    <2>6. QED
      BY <2>2, <2>3, <2>4, <2>5 DEF ProcessTypes
  <1>8. RecordTypes'
    BY <1>1, <1>2, <1>4 DEF AJInv, RecordTypes
  <1>9. PhaseInv'
    BY <1>1, <1>2, <1>3, <1>4 DEF AJInv, PhaseInv
  <1>10. DirInv'
    BY <1>1, <1>2, <1>3, <1>4 DEF AJInv, PhaseInv, DirInv, NoneYet, Empty, Now, Elsewhere
  <1>11. ASSUME NEW i \in Items
        PROVE  (Placed(i) /\ Known(i) /\ Undo(i) /\ Whole(i) /\ Held(i))'
    <2>1. Placed(i) /\ Known(i) /\ Undo(i) /\ Whole(i) /\ Held(i) /\ edits \in Nat /\ k \in 0..N
      BY DEF AJInv, ItemInv, RecordTypes, ProcessTypes
    <2>2. Placed(i)'
      BY <2>1, <1>1, <1>2, <1>3, <1>4 DEF AJInv, Now, Elsewhere, Placed, Known, PhaseInv, DirInv, Missing, Merged
    <2>3. Known(i)'
      BY <2>1, <1>1, <1>2, <1>3, <1>4 DEF AJInv, Now, Elsewhere, Known, Placed, Undo, Fresh, PhaseInv, DirInv, Missing, Merged
    <2>4. Undo(i)'
      BY <2>1, <1>1, <1>2, <1>3, <1>4 DEF AJInv, Now, Elsewhere, Undo, Undone, Placed, Known, Whole, Held, Fresh, PhaseInv, DirInv, Missing, Merged
    <2>5. Whole(i)'
      BY <2>1, <1>1, <1>2, <1>3, <1>4 DEF AJInv, Now, Elsewhere, Whole, Placed, Known, Fresh, Undo, Undone, PhaseInv
    <2>6. Held(i)'
      BY <2>1, <1>1, <1>2, <1>3, <1>4 DEF AJInv, Now, Elsewhere, Held, Placed, Known, Fresh, Undo, Undone, PhaseInv, DirInv, Missing, Merged, Edited
    <2>7. QED
      BY <2>2, <2>3, <2>4, <2>5, <2>6
  <1>12. QED
    BY <1>5, <1>6, <1>7, <1>8, <1>9, <1>10, <1>11 DEF AJInv, ItemInv

\* Backup keeps the invariant.
LEMMA BackupKeeps == AJInv /\ Backup => AJInv'
  <1> SUFFICES ASSUME AJInv, Backup PROVE AJInv'
    OBVIOUS
  <1>1. pc = "backup" /\ k \in Items /\ FileTypes
    BY DEF AJInv, Backup, PhaseInv, ProcessTypes
  <1>2. tree' \in [Items -> Contents] /\ item' \in [Items -> ItemDirs]
    BY <1>1 DEF Backup, Attempt, FileTypes, ItemDirs
  <1>3. \/ /\ UNCHANGED <<tree, item>>
           /\ \/ pc' = "install" /\ k' = k /\ tree[k] = Missing /\ original[k] = Missing /\ UNCHANGED <<who, bad>>
              \/ Abort
        \/ /\ Now(k, Missing, item[k].dir, item[k].value, tree[k], item[k].installed) /\ Elsewhere(k)
           /\ tree[k] # Missing
           /\ (pc' = "verify" /\ k' = k /\ UNCHANGED <<who, bad>>) \/ Abort
    BY <1>1 DEF Backup, Attempt, FileTypes, ItemDirs, Now, Elsewhere
  <1>4. UNCHANGED <<tx, journal, record, plan, group, request, history>>
    BY DEF Backup, Attempt
  <1>5. FileTypes'
    BY <1>1, <1>2, <1>4 DEF AJInv, FileTypes
  <1>6. JournalsOK'
    BY <1>1, <1>2, <1>4 DEF AJInv, JournalsOK
  <1>7. ProcessTypes'
    <2>1. ProcessTypes
      BY DEF AJInv
    <2>2. faults' \in 0..MaxFaults
      BY <2>1 DEF Backup, Attempt, ProcessTypes
    <2>3. pc' \in Places /\ who' \in {"apply", "recover"}
      BY <1>1, <1>2, <1>3, <1>4, <2>1 DEF ProcessTypes, Places
    <2>4. k' \in 0..N
      BY <1>1, <1>2, <1>3, <1>4, <2>1 DEF ProcessTypes
    <2>5. group' \in BOOLEAN /\ bad' \in BOOLEAN
      BY <1>1, <1>2, <1>3, <1>4, <2>1 DEF ProcessTypes
    <2>6. QED
      BY <2>2, <2>3, <2>4, <2>5 DEF ProcessTypes
  <1>8. RecordTypes'
    BY <1>1, <1>2, <1>4 DEF AJInv, RecordTypes
  <1>9. PhaseInv'
    BY <1>1, <1>2, <1>3, <1>4 DEF AJInv, PhaseInv
  <1>10. DirInv'
    <2>1. item[k].dir /\ pending
      BY <1>1 DEF AJInv, ItemInv, Placed, PhaseInv
    <2>2. QED
      BY <2>1, <1>1, <1>3, <1>4 DEF AJInv, DirInv, NoneYet, Empty, Now, Elsewhere
  <1>11. ASSUME NEW i \in Items
        PROVE  (Placed(i) /\ Known(i) /\ Undo(i) /\ Whole(i) /\ Held(i))'
    <2>1. Placed(i) /\ Known(i) /\ Undo(i) /\ Whole(i) /\ Held(i) /\ edits \in Nat /\ k \in 0..N
      BY DEF AJInv, ItemInv, RecordTypes, ProcessTypes
    <2>2. Placed(i)'
      BY <2>1, <1>1, <1>2, <1>3, <1>4 DEF AJInv, Now, Elsewhere, Placed, Known, PhaseInv, DirInv, Missing, Merged
    <2>3. Known(i)'
      BY <2>1, <1>1, <1>2, <1>3, <1>4 DEF AJInv, Now, Elsewhere, Known, Placed, Undo, Fresh, PhaseInv, DirInv, Missing, Merged
    <2>4. Undo(i)'
      BY <2>1, <1>1, <1>2, <1>3, <1>4 DEF AJInv, Now, Elsewhere, Undo, Undone, Placed, Known, Whole, Held, Fresh, PhaseInv, DirInv, Missing, Merged
    <2>5. Whole(i)'
      BY <2>1, <1>1, <1>2, <1>3, <1>4 DEF AJInv, Now, Elsewhere, Whole, Placed, Known, Fresh, Undo, Undone, PhaseInv
    <2>6. Held(i)'
      BY <2>1, <1>1, <1>2, <1>3, <1>4 DEF AJInv, Now, Elsewhere, Held, Placed, Known, Fresh, Undo, Undone, PhaseInv, DirInv, Missing, Merged, Edited
    <2>7. QED
      BY <2>2, <2>3, <2>4, <2>5, <2>6
  <1>12. QED
    BY <1>5, <1>6, <1>7, <1>8, <1>9, <1>10, <1>11 DEF AJInv, ItemInv

\* VerifyBackup keeps the invariant.
LEMMA VerifyBackupKeeps == AJInv /\ VerifyBackup => AJInv'
  <1> SUFFICES ASSUME AJInv, VerifyBackup PROVE AJInv'
    OBVIOUS
  <1>5. FileTypes'
    BY DEF AJInv, VerifyBackup, Require, FileTypes, ItemDirs
  <1>6. JournalsOK'
    BY JournalTypes DEF AJInv, VerifyBackup, Require, JournalsOK, Phases, PhaseInv
  <1>7. ProcessTypes'
    <2>1. ProcessTypes
      BY DEF AJInv
    <2>2. faults' \in 0..MaxFaults
      BY <2>1 DEF VerifyBackup, Require, ProcessTypes
    <2>3. pc' \in Places /\ who' \in {"apply", "recover"}
      BY <2>1 DEF VerifyBackup, Require, ProcessTypes, Places
    <2>4. k' \in 0..N
      BY <2>1 DEF VerifyBackup, Require, ProcessTypes, AJInv, PhaseInv
    <2>5. group' \in BOOLEAN /\ bad' \in BOOLEAN
      BY <2>1 DEF VerifyBackup, Require, ProcessTypes
    <2>6. QED
      BY <2>2, <2>3, <2>4, <2>5 DEF ProcessTypes
  <1>8. RecordTypes'
    BY DEF AJInv, VerifyBackup, Require, RecordTypes, FileTypes
  <1>9. PhaseInv'
    BY DEF AJInv, VerifyBackup, Require, PhaseInv
  <1>10. DirInv'
    BY DEF AJInv, VerifyBackup, Require, PhaseInv, DirInv, NoneYet, Empty
  <1>11. ASSUME NEW i \in Items
        PROVE  (Placed(i) /\ Known(i) /\ Undo(i) /\ Whole(i) /\ Held(i))'
    <2>1. Placed(i) /\ Known(i) /\ Undo(i) /\ Whole(i) /\ Held(i) /\ edits \in Nat /\ k \in 0..N
      BY DEF AJInv, ItemInv, RecordTypes, ProcessTypes
    <2>2. Placed(i)'
      BY <2>1 DEF VerifyBackup, Require, AJInv, Placed, Known, PhaseInv, DirInv, Missing, Merged, InstalledAll, BackupsAll
    <2>3. Known(i)'
      BY <2>1 DEF VerifyBackup, Require, AJInv, Known, Placed, Undo, Fresh, PhaseInv, DirInv, Missing, Merged, InstalledAll, BackupsAll
    <2>4. Undo(i)'
      BY <2>1 DEF VerifyBackup, Require, AJInv, Undo, Undone, Placed, Known, Whole, Held, Fresh, PhaseInv, DirInv, Missing, Merged, InstalledAll, BackupsAll
    <2>5. Whole(i)'
      BY <2>1 DEF VerifyBackup, Require, AJInv, Whole, Placed, Known, Fresh, Undo, Undone, PhaseInv, InstalledAll, BackupsAll
    <2>6. Held(i)'
      BY <2>1 DEF VerifyBackup, Require, AJInv, Held, Placed, Known, Fresh, Undo, Undone, PhaseInv, DirInv, Missing, Merged, Edited, InstalledAll, BackupsAll
    <2>7. QED
      BY <2>2, <2>3, <2>4, <2>5, <2>6
  <1>12. QED
    BY <1>5, <1>6, <1>7, <1>8, <1>9, <1>10, <1>11 DEF AJInv, ItemInv

\* Install keeps the invariant.
LEMMA InstallKeeps == AJInv /\ Install => AJInv'
  <1> SUFFICES ASSUME AJInv, Install PROVE AJInv'
    OBVIOUS
  <1>1. pc = "install" /\ k \in Items /\ FileTypes /\ JournalsOK /\ plan = journal
    BY DEF AJInv, Install, PhaseInv
  <1>2. tree' \in [Items -> Contents] /\ item' \in [Items -> ItemDirs] /\ plan' \in Journals
    <2>1. plan' \in Journals
      BY <1>1, JournalTypes DEF Install, Attempt, Following, JournalsOK, Phases
    <2>2. tree' \in [Items -> Contents]
      BY <1>1 DEF Install, Attempt, FileTypes, ItemDirs
    <2>3. item' \in [Items -> ItemDirs]
      BY <1>1 DEF Install, Attempt, FileTypes, ItemDirs
    <2>4. QED
      BY <2>1, <2>2, <2>3
  <1>3. /\ \/ UNCHANGED <<tree, item>> /\ (Abort \/ expected[k] = Missing)
           \/ /\ Now(k, item[k].value, item[k].dir, Missing, item[k].previous, item[k].installed) /\ Elsewhere(k)
              /\ tree[k] = Missing /\ expected[k] # Missing
        /\ \/ Abort /\ UNCHANGED plan
           \/ ~group /\ pc' = "mark" /\ k' = k /\ UNCHANGED <<plan, who, bad>>
           \/ group /\ k # N /\ pc' = "check" /\ k' = k + 1 /\ k + 1 \in Items /\ UNCHANGED <<plan, who, bad>>
           \/ /\ group /\ k = N /\ pc' = "validate" /\ k' = 0 /\ UNCHANGED <<who, bad>>
              /\ \A i \in Items : plan'.items[i] = "installed"
    <2>1. Following => \/ ~group /\ pc' = "mark" /\ k' = k /\ UNCHANGED <<plan, who, bad>>
                       \/ group /\ k # N /\ pc' = "check" /\ k' = k + 1 /\ k + 1 \in Items /\ UNCHANGED <<plan, who, bad>>
                       \/ /\ group /\ k = N /\ pc' = "validate" /\ k' = 0 /\ UNCHANGED <<who, bad>>
                          /\ \A i \in Items : plan'.items[i] = "installed"
      BY <1>1 DEF Following, Journal
    <2>2. \/ UNCHANGED <<tree, item>> /\ ((Following /\ expected[k] = Missing) \/ (Abort /\ UNCHANGED plan))
          \/ /\ Now(k, item[k].value, item[k].dir, Missing, item[k].previous, item[k].installed) /\ Elsewhere(k)
             /\ tree[k] = Missing /\ expected[k] # Missing
             /\ Following \/ (Abort /\ UNCHANGED plan)
      BY <1>1 DEF Install, Attempt, FileTypes, ItemDirs, Now, Elsewhere
    <2>3. QED
      BY <2>1, <2>2
  <1>4. UNCHANGED <<tx, journal, record, group, request, history>>
    BY DEF Install
  <1>5. FileTypes'
    BY <1>1, <1>2, <1>4 DEF AJInv, FileTypes
  <1>6. JournalsOK'
    BY <1>1, <1>2, <1>4 DEF AJInv, JournalsOK
  <1>7. ProcessTypes'
    <2>1. ProcessTypes
      BY DEF AJInv
    <2>2. faults' \in 0..MaxFaults
      BY <2>1 DEF Install, Attempt, Following, Journal, ProcessTypes
    <2>3. pc' \in Places /\ who' \in {"apply", "recover"}
      BY <1>1, <1>2, <1>3, <1>4, <2>1 DEF ProcessTypes, Places
    <2>4. k' \in 0..N
      BY <1>1, <1>2, <1>3, <1>4, <2>1 DEF ProcessTypes
    <2>5. group' \in BOOLEAN /\ bad' \in BOOLEAN
      BY <1>1, <1>2, <1>3, <1>4, <2>1 DEF ProcessTypes
    <2>6. QED
      BY <2>2, <2>3, <2>4, <2>5 DEF ProcessTypes
  <1>8. RecordTypes'
    BY <1>1, <1>2, <1>4 DEF AJInv, RecordTypes
  <1>9. PhaseInv'
    BY <1>1, <1>2, <1>3, <1>4 DEF AJInv, PhaseInv
  <1>10. DirInv'
    BY <1>1, <1>2, <1>3, <1>4 DEF AJInv, PhaseInv, DirInv, NoneYet, Empty, Now, Elsewhere
  <1>11. ASSUME NEW i \in Items
        PROVE  (Placed(i) /\ Known(i) /\ Undo(i) /\ Whole(i) /\ Held(i))'
    <2>1. Placed(i) /\ Known(i) /\ Undo(i) /\ Whole(i) /\ Held(i) /\ edits \in Nat /\ k \in 0..N
      BY DEF AJInv, ItemInv, RecordTypes, ProcessTypes
    <2>2. Placed(i)'
      BY <2>1, <1>1, <1>2, <1>3, <1>4 DEF AJInv, Now, Elsewhere, Placed, Known, PhaseInv, DirInv, Missing, Merged
    <2>3. Known(i)'
      BY <2>1, <1>1, <1>2, <1>3, <1>4 DEF AJInv, Now, Elsewhere, Known, Placed, Undo, Fresh, PhaseInv, DirInv, Missing, Merged
    <2>4. Undo(i)'
      BY <2>1, <1>1, <1>2, <1>3, <1>4 DEF AJInv, Now, Elsewhere, Undo, Undone, Placed, Known, Whole, Held, Fresh, PhaseInv, DirInv, Missing, Merged
    <2>5. Whole(i)'
      BY <2>1, <1>1, <1>2, <1>3, <1>4 DEF AJInv, Now, Elsewhere, Whole, Placed, Known, Fresh, Undo, Undone, PhaseInv
    <2>6. Held(i)'
      BY <2>1, <1>1, <1>2, <1>3, <1>4 DEF AJInv, Now, Elsewhere, Held, Placed, Known, Fresh, Undo, Undone, PhaseInv, DirInv, Missing, Merged, Edited
    <2>7. QED
      BY <2>2, <2>3, <2>4, <2>5, <2>6
  <1>12. QED
    BY <1>5, <1>6, <1>7, <1>8, <1>9, <1>10, <1>11 DEF AJInv, ItemInv

\* MarkInstalled keeps the invariant.
LEMMA MarkInstalledKeeps == AJInv /\ MarkInstalled => AJInv'
  <1> SUFFICES ASSUME AJInv, MarkInstalled PROVE AJInv'
    OBVIOUS
  <1>1. pc = "mark" /\ k \in Items /\ JournalsOK /\ plan = journal /\ journal.phase = "prepared" /\ ~group
    BY DEF AJInv, MarkInstalled, PhaseInv
  <1>2. plan' \in Journals /\ journal' \in Journals
    <2>1. plan' = [plan EXCEPT !.items[k] = "installed"] /\ journal' \in {plan', journal}
      BY DEF MarkInstalled, Publish, Attempt
    <2>2. plan' \in Journals
      BY <1>1, <2>1, JournalMarked DEF JournalsOK, Phases
    <2>3. QED
      BY <1>1, <2>1, <2>2 DEF JournalsOK
  <1>3. /\ plan'.phase = "prepared" /\ plan'.items[k] = "installed"
        /\ \A i \in Items \ {k} : plan'.items[i] = plan.items[i]
        /\ \/ journal' = plan' /\ k # N /\ pc' = "check" /\ k' = k + 1 /\ k + 1 \in Items /\ UNCHANGED <<who, bad>>
           \/ journal' = plan' /\ k = N /\ pc' = "validate" /\ k' = 0 /\ UNCHANGED <<who, bad>>
           \/ (journal' = plan' \/ journal' = journal) /\ Abort
    <2>1. plan' = [plan EXCEPT !.items[k] = "installed"]
      BY DEF MarkInstalled, Publish
    <2>2. /\ plan'.phase = plan.phase /\ plan'.items[k] = "installed"
          /\ \A i \in Items \ {k} : plan'.items[i] = plan.items[i]
      BY <1>1, <2>1, JournalMarked DEF JournalsOK, Phases
    <2>3. k # N => k + 1 \in Items
      BY <1>1
    <2>4. QED
      BY <1>1, <2>2, <2>3 DEF MarkInstalled, Publish, Attempt
  <1>4. UNCHANGED <<tree, tx, item, record, group, request, history>>
    BY DEF MarkInstalled, Publish
  <1>5. FileTypes'
    BY <1>1, <1>2, <1>4 DEF AJInv, FileTypes
  <1>6. JournalsOK'
    BY <1>1, <1>2, <1>4 DEF AJInv, JournalsOK
  <1>7. ProcessTypes'
    <2>1. ProcessTypes
      BY DEF AJInv
    <2>2. faults' \in 0..MaxFaults
      BY <2>1 DEF MarkInstalled, Publish, Attempt, ProcessTypes
    <2>3. pc' \in Places /\ who' \in {"apply", "recover"}
      BY <1>1, <1>2, <1>3, <1>4, <2>1 DEF ProcessTypes, Places
    <2>4. k' \in 0..N
      BY <1>1, <1>2, <1>3, <1>4, <2>1 DEF ProcessTypes
    <2>5. group' \in BOOLEAN /\ bad' \in BOOLEAN
      BY <1>1, <1>2, <1>3, <1>4, <2>1 DEF ProcessTypes
    <2>6. QED
      BY <2>2, <2>3, <2>4, <2>5 DEF ProcessTypes
  <1>8. RecordTypes'
    BY <1>1, <1>2, <1>4 DEF AJInv, RecordTypes
  <1>9. PhaseInv'
    BY <1>1, <1>2, <1>3, <1>4 DEF AJInv, PhaseInv
  <1>10. DirInv'
    BY <1>1, <1>2, <1>3, <1>4 DEF AJInv, PhaseInv, DirInv, NoneYet, Empty, Now, Elsewhere
  <1>11. ASSUME NEW i \in Items
        PROVE  (Placed(i) /\ Known(i) /\ Undo(i) /\ Whole(i) /\ Held(i))'
    <2>1. Placed(i) /\ Known(i) /\ Undo(i) /\ Whole(i) /\ Held(i) /\ edits \in Nat /\ k \in 0..N
      BY DEF AJInv, ItemInv, RecordTypes, ProcessTypes
    <2>2. Placed(i)'
      BY <2>1, <1>1, <1>2, <1>3, <1>4 DEF AJInv, Now, Elsewhere, Placed, Known, PhaseInv, DirInv, Missing, Merged
    <2>3. Known(i)'
      BY <2>1, <1>1, <1>2, <1>3, <1>4 DEF AJInv, Now, Elsewhere, Known, Placed, Undo, Fresh, PhaseInv, DirInv, Missing, Merged
    <2>4. Undo(i)'
      BY <2>1, <1>1, <1>2, <1>3, <1>4 DEF AJInv, Now, Elsewhere, Undo, Undone, Placed, Known, Whole, Held, Fresh, PhaseInv, DirInv, Missing, Merged
    <2>5. Whole(i)'
      BY <2>1, <1>1, <1>2, <1>3, <1>4 DEF AJInv, Now, Elsewhere, Whole, Placed, Known, Fresh, Undo, Undone, PhaseInv
    <2>6. Held(i)'
      BY <2>1, <1>1, <1>2, <1>3, <1>4 DEF AJInv, Now, Elsewhere, Held, Placed, Known, Fresh, Undo, Undone, PhaseInv, DirInv, Missing, Merged, Edited
    <2>7. QED
      BY <2>2, <2>3, <2>4, <2>5, <2>6
  <1>12. QED
    BY <1>5, <1>6, <1>7, <1>8, <1>9, <1>10, <1>11 DEF AJInv, ItemInv

\* Validate keeps the invariant.
LEMMA ValidateKeeps == AJInv /\ Validate => AJInv'
  <1> SUFFICES ASSUME AJInv, Validate PROVE AJInv'
    OBVIOUS
  <1>5. FileTypes'
    BY DEF AJInv, Validate, Require, FileTypes, ItemDirs
  <1>6. JournalsOK'
    BY JournalTypes DEF AJInv, Validate, Require, JournalsOK, Phases, PhaseInv
  <1>7. ProcessTypes'
    <2>1. ProcessTypes
      BY DEF AJInv
    <2>2. faults' \in 0..MaxFaults
      BY <2>1 DEF Validate, Require, ProcessTypes
    <2>3. pc' \in Places /\ who' \in {"apply", "recover"}
      BY <2>1 DEF Validate, Require, ProcessTypes, Places
    <2>4. k' \in 0..N
      BY <2>1 DEF Validate, Require, ProcessTypes, AJInv, PhaseInv
    <2>5. group' \in BOOLEAN /\ bad' \in BOOLEAN
      BY <2>1 DEF Validate, Require, ProcessTypes
    <2>6. QED
      BY <2>2, <2>3, <2>4, <2>5 DEF ProcessTypes
  <1>8. RecordTypes'
    BY DEF AJInv, Validate, Require, RecordTypes, FileTypes
  <1>9. PhaseInv'
    BY DEF AJInv, Validate, Require, PhaseInv
  <1>10. DirInv'
    BY DEF AJInv, Validate, Require, PhaseInv, DirInv, NoneYet, Empty
  <1>11. ASSUME NEW i \in Items
        PROVE  (Placed(i) /\ Known(i) /\ Undo(i) /\ Whole(i) /\ Held(i))'
    <2>1. Placed(i) /\ Known(i) /\ Undo(i) /\ Whole(i) /\ Held(i) /\ edits \in Nat /\ k \in 0..N
      BY DEF AJInv, ItemInv, RecordTypes, ProcessTypes
    <2>2. Placed(i)'
      BY <2>1 DEF Validate, Require, AJInv, Placed, Known, PhaseInv, DirInv, Missing, Merged, InstalledAll, BackupsAll
    <2>3. Known(i)'
      BY <2>1 DEF Validate, Require, AJInv, Known, Placed, Undo, Fresh, PhaseInv, DirInv, Missing, Merged, InstalledAll, BackupsAll
    <2>4. Undo(i)'
      BY <2>1 DEF Validate, Require, AJInv, Undo, Undone, Placed, Known, Whole, Held, Fresh, PhaseInv, DirInv, Missing, Merged, InstalledAll, BackupsAll
    <2>5. Whole(i)'
      BY <2>1 DEF Validate, Require, AJInv, Whole, Placed, Known, Fresh, Undo, Undone, PhaseInv, InstalledAll, BackupsAll
    <2>6. Held(i)'
      BY <2>1 DEF Validate, Require, AJInv, Held, Placed, Known, Fresh, Undo, Undone, PhaseInv, DirInv, Missing, Merged, Edited, InstalledAll, BackupsAll
    <2>7. QED
      BY <2>2, <2>3, <2>4, <2>5, <2>6
  <1>12. QED
    BY <1>5, <1>6, <1>7, <1>8, <1>9, <1>10, <1>11 DEF AJInv, ItemInv

\* Commit keeps the invariant.
LEMMA CommitKeeps == AJInv /\ Commit => AJInv'
  <1> SUFFICES ASSUME AJInv, Commit PROVE AJInv'
    OBVIOUS
  <1>1. pc = "commit" /\ JournalsOK /\ journal.phase = "prepared"
    BY DEF AJInv, Commit, PhaseInv
  <1>2. plan' \in Journals /\ journal' \in Journals
    BY <1>1 DEF Commit, Publish, Attempt, JournalsOK, Journals
  <1>3. /\ plan'.phase = "committed" /\ plan'.items = plan.items
        /\ \/ journal' = plan' /\ pc' = "recheck" /\ k' = 0 /\ UNCHANGED <<who, bad>>
           \/ (journal' = plan' \/ journal' = journal) /\ Abort
    BY <1>1 DEF Commit, Publish, Attempt, JournalsOK, Journals
  <1>4. UNCHANGED <<tree, tx, item, record, group, request, history>>
    BY DEF Commit, Publish
  <1>5. FileTypes'
    BY <1>1, <1>2, <1>4 DEF AJInv, FileTypes
  <1>6. JournalsOK'
    BY <1>1, <1>2, <1>4 DEF AJInv, JournalsOK
  <1>7. ProcessTypes'
    <2>1. ProcessTypes
      BY DEF AJInv
    <2>2. faults' \in 0..MaxFaults
      BY <2>1 DEF Commit, Publish, Attempt, ProcessTypes
    <2>3. pc' \in Places /\ who' \in {"apply", "recover"}
      BY <1>1, <1>2, <1>3, <1>4, <2>1 DEF ProcessTypes, Places
    <2>4. k' \in 0..N
      BY <1>1, <1>2, <1>3, <1>4, <2>1 DEF ProcessTypes
    <2>5. group' \in BOOLEAN /\ bad' \in BOOLEAN
      BY <1>1, <1>2, <1>3, <1>4, <2>1 DEF ProcessTypes
    <2>6. QED
      BY <2>2, <2>3, <2>4, <2>5 DEF ProcessTypes
  <1>8. RecordTypes'
    BY <1>1, <1>2, <1>4 DEF AJInv, RecordTypes
  <1>9. PhaseInv'
    BY <1>1, <1>2, <1>3, <1>4 DEF AJInv, PhaseInv
  <1>10. DirInv'
    BY <1>1, <1>2, <1>3, <1>4 DEF AJInv, PhaseInv, DirInv, NoneYet, Empty, Now, Elsewhere
  <1>11. ASSUME NEW i \in Items
        PROVE  (Placed(i) /\ Known(i) /\ Undo(i) /\ Whole(i) /\ Held(i))'
    <2>1. Placed(i) /\ Known(i) /\ Undo(i) /\ Whole(i) /\ Held(i) /\ edits \in Nat /\ k \in 0..N
      BY DEF AJInv, ItemInv, RecordTypes, ProcessTypes
    <2>2. Placed(i)'
      BY <2>1, <1>1, <1>2, <1>3, <1>4 DEF AJInv, Now, Elsewhere, Placed, Known, PhaseInv, DirInv, Missing, Merged
    <2>3. Known(i)'
      BY <2>1, <1>1, <1>2, <1>3, <1>4 DEF AJInv, Now, Elsewhere, Known, Placed, Undo, Fresh, PhaseInv, DirInv, Missing, Merged
    <2>4. Undo(i)'
      BY <2>1, <1>1, <1>2, <1>3, <1>4 DEF AJInv, Now, Elsewhere, Undo, Undone, Placed, Known, Whole, Held, Fresh, PhaseInv, DirInv, Missing, Merged
    <2>5. Whole(i)'
      BY <2>1, <1>1, <1>2, <1>3, <1>4 DEF AJInv, Now, Elsewhere, Whole, Placed, Known, Fresh, Undo, Undone, PhaseInv
    <2>6. Held(i)'
      BY <2>1, <1>1, <1>2, <1>3, <1>4 DEF AJInv, Now, Elsewhere, Held, Placed, Known, Fresh, Undo, Undone, PhaseInv, DirInv, Missing, Merged, Edited
    <2>7. QED
      BY <2>2, <2>3, <2>4, <2>5, <2>6
  <1>12. QED
    BY <1>5, <1>6, <1>7, <1>8, <1>9, <1>10, <1>11 DEF AJInv, ItemInv

\* Recheck keeps the invariant.
LEMMA RecheckKeeps == AJInv /\ Recheck => AJInv'
  <1> SUFFICES ASSUME AJInv, Recheck PROVE AJInv'
    OBVIOUS
  <1>5. FileTypes'
    BY DEF AJInv, Recheck, Require, FileTypes, ItemDirs
  <1>6. JournalsOK'
    BY JournalTypes DEF AJInv, Recheck, Require, JournalsOK, Phases, PhaseInv
  <1>7. ProcessTypes'
    <2>1. ProcessTypes
      BY DEF AJInv
    <2>2. faults' \in 0..MaxFaults
      BY <2>1 DEF Recheck, Require, ProcessTypes
    <2>3. pc' \in Places /\ who' \in {"apply", "recover"}
      BY <2>1 DEF Recheck, Require, ProcessTypes, Places
    <2>4. k' \in 0..N
      BY <2>1 DEF Recheck, Require, ProcessTypes, AJInv, PhaseInv
    <2>5. group' \in BOOLEAN /\ bad' \in BOOLEAN
      BY <2>1 DEF Recheck, Require, ProcessTypes
    <2>6. QED
      BY <2>2, <2>3, <2>4, <2>5 DEF ProcessTypes
  <1>8. RecordTypes'
    BY DEF AJInv, Recheck, Require, RecordTypes, FileTypes
  <1>9. PhaseInv'
    BY DEF AJInv, Recheck, Require, PhaseInv
  <1>10. DirInv'
    BY DEF AJInv, Recheck, Require, PhaseInv, DirInv, NoneYet, Empty
  <1>11. ASSUME NEW i \in Items
        PROVE  (Placed(i) /\ Known(i) /\ Undo(i) /\ Whole(i) /\ Held(i))'
    <2>1. Placed(i) /\ Known(i) /\ Undo(i) /\ Whole(i) /\ Held(i) /\ edits \in Nat /\ k \in 0..N
      BY DEF AJInv, ItemInv, RecordTypes, ProcessTypes
    <2>2. Placed(i)'
      BY <2>1 DEF Recheck, Require, AJInv, Placed, Known, PhaseInv, DirInv, Missing, Merged, InstalledAll, BackupsAll
    <2>3. Known(i)'
      BY <2>1 DEF Recheck, Require, AJInv, Known, Placed, Undo, Fresh, PhaseInv, DirInv, Missing, Merged, InstalledAll, BackupsAll
    <2>4. Undo(i)'
      BY <2>1 DEF Recheck, Require, AJInv, Undo, Undone, Placed, Known, Whole, Held, Fresh, PhaseInv, DirInv, Missing, Merged, InstalledAll, BackupsAll
    <2>5. Whole(i)'
      BY <2>1 DEF Recheck, Require, AJInv, Whole, Placed, Known, Fresh, Undo, Undone, PhaseInv, InstalledAll, BackupsAll
    <2>6. Held(i)'
      BY <2>1 DEF Recheck, Require, AJInv, Held, Placed, Known, Fresh, Undo, Undone, PhaseInv, DirInv, Missing, Merged, Edited, InstalledAll, BackupsAll
    <2>7. QED
      BY <2>2, <2>3, <2>4, <2>5, <2>6
  <1>12. QED
    BY <1>5, <1>6, <1>7, <1>8, <1>9, <1>10, <1>11 DEF AJInv, ItemInv

\* RecordOutcome keeps the invariant.
LEMMA RecordOutcomeKeeps == AJInv /\ RecordOutcome => AJInv'
  <1> SUFFICES ASSUME AJInv, RecordOutcome PROVE AJInv'
    OBVIOUS
  <1>5. FileTypes'
    BY DEF AJInv, RecordOutcome, Attempt, FileTypes, ItemDirs
  <1>6. JournalsOK'
    BY JournalTypes DEF AJInv, RecordOutcome, Attempt, JournalsOK, Phases, PhaseInv
  <1>7. ProcessTypes'
    <2>1. ProcessTypes
      BY DEF AJInv
    <2>2. faults' \in 0..MaxFaults
      BY <2>1 DEF RecordOutcome, Attempt, ProcessTypes
    <2>3. pc' \in Places /\ who' \in {"apply", "recover"}
      BY <2>1 DEF RecordOutcome, Attempt, ProcessTypes, Places
    <2>4. k' \in 0..N
      BY <2>1 DEF RecordOutcome, Attempt, ProcessTypes, AJInv, PhaseInv
    <2>5. group' \in BOOLEAN /\ bad' \in BOOLEAN
      BY <2>1 DEF RecordOutcome, Attempt, ProcessTypes
    <2>6. QED
      BY <2>2, <2>3, <2>4, <2>5 DEF ProcessTypes
  <1>8. RecordTypes'
    BY DEF AJInv, RecordOutcome, Attempt, RecordTypes, FileTypes
  <1>9. PhaseInv'
    BY DEF AJInv, RecordOutcome, Attempt, PhaseInv
  <1>10. DirInv'
    BY DEF AJInv, RecordOutcome, Attempt, PhaseInv, DirInv, NoneYet, Empty
  <1>11. ASSUME NEW i \in Items
        PROVE  (Placed(i) /\ Known(i) /\ Undo(i) /\ Whole(i) /\ Held(i))'
    <2>1. Placed(i) /\ Known(i) /\ Undo(i) /\ Whole(i) /\ Held(i) /\ edits \in Nat /\ k \in 0..N
      BY DEF AJInv, ItemInv, RecordTypes, ProcessTypes
    <2>2. Placed(i)'
      BY <2>1 DEF RecordOutcome, Attempt, AJInv, Placed, Known, PhaseInv, DirInv, Missing, Merged, InstalledAll, BackupsAll
    <2>3. Known(i)'
      BY <2>1 DEF RecordOutcome, Attempt, AJInv, Known, Placed, Undo, Fresh, PhaseInv, DirInv, Missing, Merged, InstalledAll, BackupsAll
    <2>4. Undo(i)'
      BY <2>1 DEF RecordOutcome, Attempt, AJInv, Undo, Undone, Placed, Known, Whole, Held, Fresh, PhaseInv, DirInv, Missing, Merged, InstalledAll, BackupsAll
    <2>5. Whole(i)'
      BY <2>1 DEF RecordOutcome, Attempt, AJInv, Whole, Placed, Known, Fresh, Undo, Undone, PhaseInv, InstalledAll, BackupsAll
    <2>6. Held(i)'
      BY <2>1 DEF RecordOutcome, Attempt, AJInv, Held, Placed, Known, Fresh, Undo, Undone, PhaseInv, DirInv, Missing, Merged, Edited, InstalledAll, BackupsAll
    <2>7. QED
      BY <2>2, <2>3, <2>4, <2>5, <2>6
  <1>12. QED
    BY <1>5, <1>6, <1>7, <1>8, <1>9, <1>10, <1>11 DEF AJInv, ItemInv

-----------------------------------------------------------------------------
\* The rollback.

\* RollbackItem keeps the invariant.
LEMMA RollbackItemKeeps == AJInv /\ RollbackItem => AJInv'
  <1> SUFFICES ASSUME AJInv, RollbackItem PROVE AJInv'
    OBVIOUS
  <1>1. /\ pc = "rollback" /\ k \in Items /\ k - 1 \in 0..N /\ bad \in BOOLEAN
        /\ tree[k] \in Contents /\ item[k] \in ItemDirs /\ FileTypes
    <2>1. pc = "rollback" /\ k \in Items /\ FileTypes /\ bad \in BOOLEAN
      BY DEF AJInv, RollbackItem, PhaseInv, ProcessTypes
    <2>2. QED
      BY <2>1 DEF FileTypes
  <1>2. tree' \in [Items -> Contents] /\ item' \in [Items -> ItemDirs]
    <2>1. tree' \in [Items -> Contents]
      BY <1>1 DEF RollbackItem, Attempt, Quarantine, FileTypes, ItemDirs
    <2>2. item' \in {item, [item EXCEPT ![k] = [item[k] EXCEPT !.installed = tree[k]]]}
      BY <1>1 DEF RollbackItem, Attempt, Quarantine, FileTypes, ItemDirs
    <2>3. [item[k] EXCEPT !.installed = tree[k]] \in ItemDirs
      BY <1>1 DEF ItemDirs
    <2>4. QED
      BY <1>1, <2>1, <2>2, <2>3 DEF FileTypes
  <1>3. \/ /\ UNCHANGED <<tree, item>> /\ pc' = "rollback" /\ k' = k - 1
           /\ \/ bad' = TRUE
              \/ /\ bad' = bad
                 /\ \/ plan.items[k] = "prepared"
                    \/ plan.items[k] = "grouped" /\ item[k].previous = Missing /\ item[k].value # Missing
                    \/ item[k].previous = Missing /\ tree[k] = original[k] /\ original[k] # Missing
                    \/ item[k].previous = Missing /\ item[k].installed = Missing /\ tree[k] = Missing /\ original[k] = Missing
        \/ /\ UNCHANGED <<tree, item, bad>> /\ Began
           /\ \/ pc' = "inspect" /\ k' = k /\ item[k].installed # Missing
              \/ pc' = "restore" /\ k' = k /\ item[k].installed = Missing /\ tree[k] = Missing /\ item[k].previous # Missing
        \/ /\ Now(k, Missing, item[k].dir, item[k].value, item[k].previous, tree[k]) /\ Elsewhere(k)
           /\ tree[k] # Missing /\ item[k].installed = Missing /\ item[k].dir /\ Began
           /\ (pc' = "inspect" /\ k' = k /\ bad' = bad) \/ (pc' = "rollback" /\ k' = k - 1 /\ bad' = TRUE)
    <2>1. CASE NotBegun(k)
      BY <1>1, <2>1 DEF RollbackItem, NotBegun
    <2>2. CASE ~NotBegun(k) /\ plan.items[k] = "grouped" /\ item[k].previous = Missing /\ item[k].value # Missing
      BY <1>1, <2>2 DEF RollbackItem, NotBegun
    <2>3. CASE /\ ~NotBegun(k) /\ ~(plan.items[k] = "grouped" /\ item[k].previous = Missing /\ item[k].value # Missing)
               /\ item[k].previous = Missing /\ original[k] # Missing
      BY <1>1, <2>3 DEF RollbackItem, NotBegun
    <2>4. CASE /\ ~NotBegun(k) /\ ~(plan.items[k] = "grouped" /\ item[k].previous = Missing /\ item[k].value # Missing)
               /\ ~(item[k].previous = Missing /\ original[k] # Missing)
      <3>1. Quarantine /\ Began
        BY <2>4 DEF RollbackItem, NotBegun, Began
      <3>2. CASE item[k].installed # Missing
        BY <3>1, <3>2 DEF Quarantine
      <3>3. CASE item[k].installed = Missing /\ ~item[k].dir
        BY <1>1, <3>1, <3>3 DEF Quarantine
      <3>4. CASE item[k].installed = Missing /\ item[k].dir /\ tree[k] = Missing
        BY <1>1, <2>4, <3>1, <3>4 DEF Quarantine
      <3>5. CASE item[k].installed = Missing /\ item[k].dir /\ tree[k] # Missing
        <4>1. \/ UNCHANGED <<tree, item>> /\ Done(TRUE)
              \/ /\ item' = [item EXCEPT ![k].installed = tree[k]] /\ tree' = [tree EXCEPT ![k] = Missing]
                 /\ (Goto("inspect", k) /\ UNCHANGED bad) \/ Done(TRUE)
          BY <3>1, <3>5 DEF Quarantine, Attempt
        <4>2. CASE UNCHANGED <<tree, item>> /\ Done(TRUE)
          BY <4>2
        <4>3. CASE item' = [item EXCEPT ![k].installed = tree[k]] /\ tree' = [tree EXCEPT ![k] = Missing]
          <5>1. Now(k, Missing, item[k].dir, item[k].value, item[k].previous, tree[k]) /\ Elsewhere(k)
            BY <1>1, <4>3 DEF FileTypes, ItemDirs, Now, Elsewhere
          <5>2. UNCHANGED <<tree, item>> => FALSE
            BY <1>1, <3>5, <5>1 DEF Now
          <5>3. QED
            BY <3>1, <3>5, <4>1, <5>1, <5>2
        <4>4. QED
          BY <4>1, <4>2, <4>3
      <3>6. QED
        BY <3>2, <3>3, <3>4, <3>5
    <2>5. QED
      BY <2>1, <2>2, <2>3, <2>4
  <1>4. UNCHANGED <<tx, journal, record, plan, who, group, request, history>>
    BY DEF RollbackItem
  <1>5. FileTypes'
    BY <1>1, <1>2, <1>4 DEF AJInv, FileTypes
  <1>6. JournalsOK'
    BY <1>1, <1>2, <1>4 DEF AJInv, JournalsOK
  <1>7. ProcessTypes'
    <2>1. ProcessTypes
      BY DEF AJInv
    <2>2. faults' \in 0..MaxFaults
      BY <2>1 DEF RollbackItem, Attempt, Quarantine, NotBegun, ProcessTypes
    <2>3. pc' \in Places /\ who' \in {"apply", "recover"}
      BY <1>1, <1>2, <1>3, <1>4, <2>1 DEF ProcessTypes, Began, Places
    <2>4. k' \in 0..N
      BY <1>1, <1>2, <1>3, <1>4, <2>1 DEF ProcessTypes, Began
    <2>5. group' \in BOOLEAN /\ bad' \in BOOLEAN
      BY <1>1, <1>2, <1>3, <1>4, <2>1 DEF ProcessTypes, Began
    <2>6. QED
      BY <2>2, <2>3, <2>4, <2>5 DEF ProcessTypes
  <1>8. RecordTypes'
    BY <1>1, <1>2, <1>4 DEF AJInv, RecordTypes
  <1>9. PhaseInv'
    BY <1>1, <1>2, <1>3, <1>4 DEF AJInv, PhaseInv, Began
  <1>10. DirInv'
    BY <1>1, <1>2, <1>3, <1>4 DEF AJInv, PhaseInv, DirInv, NoneYet, Empty, Now, Elsewhere, Began
  <1>11. ASSUME NEW i \in Items
        PROVE  (Placed(i) /\ Known(i) /\ Undo(i) /\ Whole(i) /\ Held(i))'
    <2>1. Placed(i) /\ Known(i) /\ Undo(i) /\ Whole(i) /\ Held(i) /\ edits \in Nat /\ k \in 0..N
      BY DEF AJInv, ItemInv, RecordTypes, ProcessTypes
    <2>2. Placed(i)'
      BY <2>1, <1>1, <1>2, <1>3, <1>4 DEF AJInv, Now, Elsewhere, Placed, Known, PhaseInv, DirInv, Missing, Merged, Began
    <2>3. Known(i)'
      BY <2>1, <1>1, <1>2, <1>3, <1>4 DEF AJInv, Now, Elsewhere, Known, Placed, Undo, Fresh, PhaseInv, DirInv, Missing, Merged, Began
    <2>4. Undo(i)'
      <3>1. CASE i # k
        BY <2>1, <1>1, <1>3, <1>4, <3>1 DEF AJInv, Now, Elsewhere, Undo, Undone, Known, Fresh, Whole, Held, PhaseInv, DirInv, Missing, Merged, Began
      <3>2. CASE i = k
        <4>1. CASE UNCHANGED <<tree, item>> /\ pc' = "rollback" /\ k' = k - 1
          <5>1. Own(i) /\ ~bad' => Undone(i) /\ ~bad
            BY <2>1, <1>1, <1>3, <3>2, <4>1 DEF AJInv, PhaseInv, Undone, Known, Fresh, Whole, Held
          <5>2. QED
            BY <2>1, <1>1, <1>4, <3>2, <4>1, <5>1 DEF Undo, Undone, AJInv, PhaseInv
        <4>2. CASE UNCHANGED <<tree, item, bad>> /\ Began /\ k' = k
          <5>1. journal.phase # "none" /\ (Own(i) => journal.items[i] # "prepared" \/ Fresh(i))
            BY <1>1, <2>1, <3>2 DEF AJInv, PhaseInv, Known
          <5>2. \/ pc' = "inspect" /\ item[k].installed # Missing
                \/ pc' = "restore" /\ item[k].installed = Missing /\ tree[k] = Missing /\ item[k].previous # Missing
            BY <1>1, <1>3, <4>2 DEF Now
          <5>3. QED
            BY <2>1, <1>1, <1>4, <3>2, <4>2, <5>1, <5>2 DEF Undo, Undone, Fresh, Began
        <4>3. CASE Now(k, Missing, item[k].dir, item[k].value, item[k].previous, tree[k]) /\ tree[k] # Missing /\ Began
          BY <2>1, <1>1, <1>3, <1>4, <3>2, <4>3 DEF AJInv, PhaseInv, Undo, Undone, Known, Fresh, Whole, Held, Began, Now
        <4>4. QED
          BY <1>3, <4>1, <4>2, <4>3
      <3>3. QED
        BY <3>1, <3>2
    <2>5. Whole(i)'
      BY <2>1, <1>1, <1>2, <1>3, <1>4 DEF AJInv, Now, Elsewhere, Whole, Placed, Known, Fresh, Undo, Undone, PhaseInv, Began
    <2>6. Held(i)'
      BY <2>1, <1>1, <1>2, <1>3, <1>4 DEF AJInv, Now, Elsewhere, Held, Placed, Known, Fresh, Undo, Undone, PhaseInv, DirInv, Missing, Merged, Edited, Began
    <2>7. QED
      BY <2>2, <2>3, <2>4, <2>5, <2>6
  <1>12. QED
    BY <1>5, <1>6, <1>7, <1>8, <1>9, <1>10, <1>11 DEF AJInv, ItemInv

\* InspectQuarantine keeps the invariant.
LEMMA InspectQuarantineKeeps == AJInv /\ InspectQuarantine => AJInv'
  <1> SUFFICES ASSUME AJInv, InspectQuarantine PROVE AJInv'
    OBVIOUS
  <1>1. /\ pc = "inspect" /\ k \in Items /\ k - 1 \in 0..N /\ bad \in BOOLEAN
        /\ tree[k] \in Contents /\ item[k] \in ItemDirs /\ FileTypes
    <2>1. pc = "inspect" /\ k \in Items /\ FileTypes /\ bad \in BOOLEAN
      BY DEF AJInv, InspectQuarantine, PhaseInv, ProcessTypes
    <2>2. QED
      BY <2>1 DEF FileTypes
  <1>2. tree' \in [Items -> Contents] /\ item' \in [Items -> ItemDirs]
    <2>1. tree' \in [Items -> Contents]
      BY <1>1 DEF InspectQuarantine, Attempt, FileTypes, ItemDirs
    <2>2. item' \in {item, [item EXCEPT ![k] = [item[k] EXCEPT !.installed = Missing]]}
      BY <1>1 DEF InspectQuarantine, Attempt, FileTypes, ItemDirs
    <2>3. [item[k] EXCEPT !.installed = Missing] \in ItemDirs
      BY <1>1 DEF ItemDirs
    <2>4. QED
      BY <1>1, <2>1, <2>2, <2>3 DEF FileTypes
  <1>3. \/ /\ UNCHANGED <<tree, item>> /\ item[k].installed = expected[k] /\ bad' = bad /\ k' = k
           /\ pc' = IF item[k].previous # Missing THEN "restore" ELSE "drop"
        \/ /\ UNCHANGED <<tree, item>> /\ pc' = "rollback" /\ k' = k - 1 /\ bad' = TRUE
        \/ /\ Now(k, item[k].installed, item[k].dir, item[k].value, item[k].previous, Missing) /\ Elsewhere(k)
           /\ tree[k] = Missing /\ item[k].installed # expected[k]
           /\ pc' = "rollback" /\ k' = k - 1 /\ bad' = TRUE
    BY <1>1 DEF InspectQuarantine, Attempt, QuarantineIsOurs, FileTypes, ItemDirs, Now, Elsewhere
  <1>4. UNCHANGED <<tx, journal, record, plan, who, group, request, history>>
    BY DEF InspectQuarantine
  <1>5. FileTypes'
    BY <1>1, <1>2, <1>4 DEF AJInv, FileTypes
  <1>6. JournalsOK'
    BY <1>1, <1>2, <1>4 DEF AJInv, JournalsOK
  <1>7. ProcessTypes'
    <2>1. ProcessTypes
      BY DEF AJInv
    <2>2. faults' \in 0..MaxFaults
      BY <2>1 DEF InspectQuarantine, Attempt, QuarantineIsOurs, ProcessTypes
    <2>3. pc' \in Places /\ who' \in {"apply", "recover"}
      BY <1>1, <1>2, <1>3, <1>4, <2>1 DEF ProcessTypes, Places
    <2>4. k' \in 0..N
      BY <1>1, <1>2, <1>3, <1>4, <2>1 DEF ProcessTypes
    <2>5. group' \in BOOLEAN /\ bad' \in BOOLEAN
      BY <1>1, <1>2, <1>3, <1>4, <2>1 DEF ProcessTypes
    <2>6. QED
      BY <2>2, <2>3, <2>4, <2>5 DEF ProcessTypes
  <1>8. RecordTypes'
    BY <1>1, <1>2, <1>4 DEF AJInv, RecordTypes
  <1>9. PhaseInv'
    BY <1>1, <1>2, <1>3, <1>4 DEF AJInv, PhaseInv
  <1>10. DirInv'
    BY <1>1, <1>2, <1>3, <1>4 DEF AJInv, PhaseInv, DirInv, NoneYet, Empty, Now, Elsewhere
  <1>11. ASSUME NEW i \in Items
        PROVE  (Placed(i) /\ Known(i) /\ Undo(i) /\ Whole(i) /\ Held(i))'
    <2>1. Placed(i) /\ Known(i) /\ Undo(i) /\ Whole(i) /\ Held(i) /\ edits \in Nat /\ k \in 0..N
      BY DEF AJInv, ItemInv, RecordTypes, ProcessTypes
    <2>2. Placed(i)'
      BY <2>1, <1>1, <1>2, <1>3, <1>4 DEF AJInv, Now, Elsewhere, Placed, Known, PhaseInv, DirInv, Missing, Merged
    <2>3. Known(i)'
      BY <2>1, <1>1, <1>2, <1>3, <1>4 DEF AJInv, Now, Elsewhere, Known, Placed, Undo, Fresh, PhaseInv, DirInv, Missing, Merged
    <2>4. Undo(i)'
      BY <2>1, <1>1, <1>2, <1>3, <1>4 DEF AJInv, Now, Elsewhere, Undo, Undone, Placed, Known, Whole, Held, Fresh, PhaseInv, DirInv, Missing, Merged
    <2>5. Whole(i)'
      BY <2>1, <1>1, <1>2, <1>3, <1>4 DEF AJInv, Now, Elsewhere, Whole, Placed, Known, Fresh, Undo, Undone, PhaseInv
    <2>6. Held(i)'
      BY <2>1, <1>1, <1>2, <1>3, <1>4 DEF AJInv, Now, Elsewhere, Held, Placed, Known, Fresh, Undo, Undone, PhaseInv, DirInv, Missing, Merged, Edited
    <2>7. QED
      BY <2>2, <2>3, <2>4, <2>5, <2>6
  <1>12. QED
    BY <1>5, <1>6, <1>7, <1>8, <1>9, <1>10, <1>11 DEF AJInv, ItemInv

\* Restore keeps the invariant.
LEMMA RestoreKeeps == AJInv /\ Restore => AJInv'
  <1> SUFFICES ASSUME AJInv, Restore PROVE AJInv'
    OBVIOUS
  <1>1. /\ pc = "restore" /\ k \in Items /\ k - 1 \in 0..N /\ bad \in BOOLEAN
        /\ tree[k] \in Contents /\ item[k] \in ItemDirs /\ FileTypes
    <2>1. pc = "restore" /\ k \in Items /\ FileTypes /\ bad \in BOOLEAN
      BY DEF AJInv, Restore, PhaseInv, ProcessTypes
    <2>2. QED
      BY <2>1 DEF FileTypes
  <1>2. tree' \in [Items -> Contents] /\ item' \in [Items -> ItemDirs]
    <2>1. tree' \in [Items -> Contents]
      BY <1>1 DEF Restore, Attempt, FileTypes, ItemDirs
    <2>2. item' \in {item, [item EXCEPT ![k] = [item[k] EXCEPT !.previous = Missing]]}
      BY <1>1 DEF Restore, Attempt, FileTypes, ItemDirs
    <2>3. [item[k] EXCEPT !.previous = Missing] \in ItemDirs
      BY <1>1 DEF ItemDirs
    <2>4. QED
      BY <1>1, <2>1, <2>2, <2>3 DEF FileTypes
  <1>3. \/ /\ UNCHANGED <<tree, item>> /\ pc' = "rollback" /\ k' = k - 1 /\ bad' = TRUE
        \/ /\ Now(k, item[k].previous, item[k].dir, item[k].value, Missing, item[k].installed) /\ Elsewhere(k)
           /\ tree[k] = Missing
           /\ \/ pc' = "drop" /\ k' = k /\ bad' = bad
              \/ pc' = "rollback" /\ k' = k - 1 /\ (~bad' => ~bad) /\ bad' \in BOOLEAN
    BY <1>1 DEF Restore, Attempt, FileTypes, ItemDirs, Now, Elsewhere
  <1>4. UNCHANGED <<tx, journal, record, plan, who, group, request, history>>
    BY DEF Restore
  <1>5. FileTypes'
    BY <1>1, <1>2, <1>4 DEF AJInv, FileTypes
  <1>6. JournalsOK'
    BY <1>1, <1>2, <1>4 DEF AJInv, JournalsOK
  <1>7. ProcessTypes'
    <2>1. ProcessTypes
      BY DEF AJInv
    <2>2. faults' \in 0..MaxFaults
      BY <2>1 DEF Restore, Attempt, ProcessTypes
    <2>3. pc' \in Places /\ who' \in {"apply", "recover"}
      BY <1>1, <1>2, <1>3, <1>4, <2>1 DEF ProcessTypes, Places
    <2>4. k' \in 0..N
      BY <1>1, <1>2, <1>3, <1>4, <2>1 DEF ProcessTypes
    <2>5. group' \in BOOLEAN /\ bad' \in BOOLEAN
      BY <1>1, <1>2, <1>3, <1>4, <2>1 DEF ProcessTypes
    <2>6. QED
      BY <2>2, <2>3, <2>4, <2>5 DEF ProcessTypes
  <1>8. RecordTypes'
    BY <1>1, <1>2, <1>4 DEF AJInv, RecordTypes
  <1>9. PhaseInv'
    BY <1>1, <1>2, <1>3, <1>4 DEF AJInv, PhaseInv
  <1>10. DirInv'
    BY <1>1, <1>2, <1>3, <1>4 DEF AJInv, PhaseInv, DirInv, NoneYet, Empty, Now, Elsewhere
  <1>11. ASSUME NEW i \in Items
        PROVE  (Placed(i) /\ Known(i) /\ Undo(i) /\ Whole(i) /\ Held(i))'
    <2>1. Placed(i) /\ Known(i) /\ Undo(i) /\ Whole(i) /\ Held(i) /\ edits \in Nat /\ k \in 0..N
      BY DEF AJInv, ItemInv, RecordTypes, ProcessTypes
    <2>2. Placed(i)'
      BY <2>1, <1>1, <1>2, <1>3, <1>4 DEF AJInv, Now, Elsewhere, Placed, Known, PhaseInv, DirInv, Missing, Merged
    <2>3. Known(i)'
      BY <2>1, <1>1, <1>2, <1>3, <1>4 DEF AJInv, Now, Elsewhere, Known, Placed, Undo, Fresh, PhaseInv, DirInv, Missing, Merged
    <2>4. Undo(i)'
      <3>1. CASE UNCHANGED <<tree, item>> /\ bad' = TRUE /\ pc' = "rollback"
        BY <2>1, <3>1, <1>4 DEF Undo, Undone, AJInv, PhaseInv
      <3>2. CASE i # k /\ Elsewhere(k)
        BY <2>1, <1>1, <1>3, <1>4, <3>2 DEF Undo, Undone, Elsewhere, AJInv, PhaseInv
      <3>3. CASE i = k /\ Now(k, item[k].previous, item[k].dir, item[k].value, Missing, item[k].installed)
        BY <2>1, <1>1, <1>3, <1>4, <3>3 DEF Undo, Undone, Now, Whole, Held, AJInv, PhaseInv, Missing
      <3>4. QED
        BY <1>3, <3>1, <3>2, <3>3
    <2>5. Whole(i)'
      BY <2>1, <1>1, <1>2, <1>3, <1>4 DEF AJInv, Now, Elsewhere, Whole, Placed, Known, Fresh, Undo, Undone, PhaseInv
    <2>6. Held(i)'
      <3>1. CASE UNCHANGED <<tree, item>> \/ (i # k /\ Elsewhere(k))
        BY <2>1, <1>1, <3>1, <1>3, <1>4 DEF Held, Elsewhere
      <3>2. CASE i = k /\ Now(k, item[k].previous, item[k].dir, item[k].value, Missing, item[k].installed)
        <4>1. ~applied
          BY <1>1 DEF AJInv, PhaseInv
        <4>2. QED
          <5>1. tree[k] = Missing
            BY <1>1, <1>3, <3>2 DEF Now
          <5>2. ~LateEdits => keep'[i] \subseteq {tree'[i], item'[i].previous, item'[i].installed}
            BY <2>1, <1>4, <3>2, <5>1 DEF Held, Now
          <5>3. Missing < Edited + edits /\ Missing # Merged
            BY <2>1 DEF Missing, Edited, Merged
          <5>4. QED
            BY <2>1, <1>1, <1>4, <3>2, <4>1, <5>1, <5>2, <5>3 DEF Held, Undo, Now
      <3>3. QED
        BY <1>3, <3>1, <3>2
    <2>7. QED
      BY <2>2, <2>3, <2>4, <2>5, <2>6
  <1>12. QED
    BY <1>5, <1>6, <1>7, <1>8, <1>9, <1>10, <1>11 DEF AJInv, ItemInv

\* DropQuarantine keeps the invariant.
LEMMA DropQuarantineKeeps == AJInv /\ DropQuarantine => AJInv'
  <1> SUFFICES ASSUME AJInv, DropQuarantine PROVE AJInv'
    OBVIOUS
  <1>1. /\ pc = "drop" /\ k \in Items /\ k - 1 \in 0..N /\ bad \in BOOLEAN
        /\ tree[k] \in Contents /\ item[k] \in ItemDirs /\ FileTypes
    <2>1. pc = "drop" /\ k \in Items /\ FileTypes /\ bad \in BOOLEAN
      BY DEF AJInv, DropQuarantine, PhaseInv, ProcessTypes
    <2>2. QED
      BY <2>1 DEF FileTypes
  <1>2. tree' \in [Items -> Contents] /\ item' \in [Items -> ItemDirs]
    <2>1. tree' \in [Items -> Contents]
      BY <1>1 DEF DropQuarantine, Attempt, FileTypes, ItemDirs
    <2>2. item' \in {item, [item EXCEPT ![k] = [item[k] EXCEPT !.installed = Missing]]}
      BY <1>1 DEF DropQuarantine, Attempt, FileTypes, ItemDirs
    <2>3. [item[k] EXCEPT !.installed = Missing] \in ItemDirs
      BY <1>1 DEF ItemDirs
    <2>4. QED
      BY <1>1, <2>1, <2>2, <2>3 DEF FileTypes
  <1>3. /\ \/ UNCHANGED <<tree, item>>
           \/ Now(k, tree[k], item[k].dir, item[k].value, item[k].previous, Missing) /\ Elsewhere(k)
        /\ pc' = "rollback" /\ k' = k - 1 /\ (~bad' => ~bad) /\ bad' \in BOOLEAN
    BY <1>1 DEF DropQuarantine, Attempt, FileTypes, ItemDirs, Now, Elsewhere
  <1>4. UNCHANGED <<tx, journal, record, plan, who, group, request, history>>
    BY DEF DropQuarantine
  <1>5. FileTypes'
    BY <1>1, <1>2, <1>4 DEF AJInv, FileTypes
  <1>6. JournalsOK'
    BY <1>1, <1>2, <1>4 DEF AJInv, JournalsOK
  <1>7. ProcessTypes'
    <2>1. ProcessTypes
      BY DEF AJInv
    <2>2. faults' \in 0..MaxFaults
      BY <2>1 DEF DropQuarantine, Attempt, ProcessTypes
    <2>3. pc' \in Places /\ who' \in {"apply", "recover"}
      BY <1>1, <1>2, <1>3, <1>4, <2>1 DEF ProcessTypes, Places
    <2>4. k' \in 0..N
      BY <1>1, <1>2, <1>3, <1>4, <2>1 DEF ProcessTypes
    <2>5. group' \in BOOLEAN /\ bad' \in BOOLEAN
      BY <1>1, <1>2, <1>3, <1>4, <2>1 DEF ProcessTypes
    <2>6. QED
      BY <2>2, <2>3, <2>4, <2>5 DEF ProcessTypes
  <1>8. RecordTypes'
    BY <1>1, <1>2, <1>4 DEF AJInv, RecordTypes
  <1>9. PhaseInv'
    BY <1>1, <1>2, <1>3, <1>4 DEF AJInv, PhaseInv
  <1>10. DirInv'
    BY <1>1, <1>2, <1>3, <1>4 DEF AJInv, PhaseInv, DirInv, NoneYet, Empty, Now, Elsewhere
  <1>11. ASSUME NEW i \in Items
        PROVE  (Placed(i) /\ Known(i) /\ Undo(i) /\ Whole(i) /\ Held(i))'
    <2>1. Placed(i) /\ Known(i) /\ Undo(i) /\ Whole(i) /\ Held(i) /\ edits \in Nat /\ k \in 0..N
      BY DEF AJInv, ItemInv, RecordTypes, ProcessTypes
    <2>2. Placed(i)'
      BY <2>1, <1>1, <1>2, <1>3, <1>4 DEF AJInv, Now, Elsewhere, Placed, Known, PhaseInv, DirInv, Missing, Merged
    <2>3. Known(i)'
      <3>1. CASE i # k
        BY <2>1, <1>1, <1>3, <1>4, <3>1 DEF Now, Elsewhere, Known, Fresh, Undo, Undone
      <3>2. CASE i = k
        BY <2>1, <1>1, <1>3, <1>4, <3>2 DEF Now, Elsewhere, Known, Fresh, Undo, Undone
      <3>3. QED
        BY <3>1, <3>2
    <2>4. Undo(i)'
      <3>1. CASE i # k
        BY <2>1, <1>1, <1>3, <1>4, <3>1 DEF Now, Elsewhere, Undo, Undone, AJInv, PhaseInv
      <3>2. CASE i = k
        BY <2>1, <1>1, <1>3, <1>4, <3>2 DEF Now, Elsewhere, Undo, Undone, AJInv, PhaseInv
      <3>3. QED
        BY <3>1, <3>2
    <2>5. Whole(i)'
      <3>1. CASE i # k
        BY <2>1, <1>1, <1>3, <1>4, <3>1 DEF Now, Elsewhere, Whole, Undo, Undone
      <3>2. CASE i = k
        BY <2>1, <1>1, <1>3, <1>4, <3>2 DEF Now, Elsewhere, Whole, Undo, Undone
      <3>3. QED
        BY <3>1, <3>2
    <2>6. Held(i)'
      <3>1. CASE i # k
        BY <2>1, <1>1, <1>3, <1>4, <3>1 DEF Now, Elsewhere, Held, Undo, Undone, Missing, Merged, AJInv, PhaseInv, DirInv
      <3>2. CASE i = k
        BY <2>1, <1>1, <1>3, <1>4, <3>2 DEF Now, Elsewhere, Held, Undo, Undone, Missing, Merged, AJInv, PhaseInv, DirInv
      <3>3. QED
        BY <3>1, <3>2
    <2>7. QED
      BY <2>2, <2>3, <2>4, <2>5, <2>6
  <1>12. QED
    BY <1>5, <1>6, <1>7, <1>8, <1>9, <1>10, <1>11 DEF AJInv, ItemInv

\* RollbackItemFails keeps the invariant.
LEMMA RollbackItemFailsKeeps == AJInv /\ RollbackItemFails => AJInv'
  <1> SUFFICES ASSUME AJInv, RollbackItemFails PROVE AJInv'
    OBVIOUS
  <1>5. FileTypes'
    BY DEF AJInv, RollbackItemFails, FileTypes, ItemDirs
  <1>6. JournalsOK'
    BY JournalTypes DEF AJInv, RollbackItemFails, JournalsOK, Phases, PhaseInv
  <1>7. ProcessTypes'
    <2>1. ProcessTypes
      BY DEF AJInv
    <2>2. faults' \in 0..MaxFaults
      BY <2>1 DEF RollbackItemFails, ProcessTypes
    <2>3. pc' \in Places /\ who' \in {"apply", "recover"}
      BY <2>1 DEF RollbackItemFails, ProcessTypes, Places
    <2>4. k' \in 0..N
      BY <2>1 DEF RollbackItemFails, ProcessTypes, AJInv, PhaseInv
    <2>5. group' \in BOOLEAN /\ bad' \in BOOLEAN
      BY <2>1 DEF RollbackItemFails, ProcessTypes
    <2>6. QED
      BY <2>2, <2>3, <2>4, <2>5 DEF ProcessTypes
  <1>8. RecordTypes'
    BY DEF AJInv, RollbackItemFails, RecordTypes, FileTypes
  <1>9. PhaseInv'
    BY DEF AJInv, RollbackItemFails, PhaseInv
  <1>10. DirInv'
    BY DEF AJInv, RollbackItemFails, PhaseInv, DirInv, NoneYet, Empty
  <1>11. ASSUME NEW i \in Items
        PROVE  (Placed(i) /\ Known(i) /\ Undo(i) /\ Whole(i) /\ Held(i))'
    <2>1. Placed(i) /\ Known(i) /\ Undo(i) /\ Whole(i) /\ Held(i) /\ edits \in Nat /\ k \in 0..N
      BY DEF AJInv, ItemInv, RecordTypes, ProcessTypes
    <2>2. Placed(i)'
      BY <2>1 DEF RollbackItemFails, AJInv, Placed, Known, PhaseInv, DirInv, Missing, Merged, InstalledAll, BackupsAll
    <2>3. Known(i)'
      BY <2>1 DEF RollbackItemFails, AJInv, Known, Placed, Undo, Fresh, PhaseInv, DirInv, Missing, Merged, InstalledAll, BackupsAll
    <2>4. Undo(i)'
      BY <2>1 DEF RollbackItemFails, AJInv, Undo, Undone, Placed, Known, Whole, Held, Fresh, PhaseInv, DirInv, Missing, Merged, InstalledAll, BackupsAll
    <2>5. Whole(i)'
      BY <2>1 DEF RollbackItemFails, AJInv, Whole, Placed, Known, Fresh, Undo, Undone, PhaseInv, InstalledAll, BackupsAll
    <2>6. Held(i)'
      BY <2>1 DEF RollbackItemFails, AJInv, Held, Placed, Known, Fresh, Undo, Undone, PhaseInv, DirInv, Missing, Merged, Edited, InstalledAll, BackupsAll
    <2>7. QED
      BY <2>2, <2>3, <2>4, <2>5, <2>6
  <1>12. QED
    BY <1>5, <1>6, <1>7, <1>8, <1>9, <1>10, <1>11 DEF AJInv, ItemInv

\* RollbackEnd keeps the invariant.
LEMMA RollbackEndKeeps == AJInv /\ RollbackEnd => AJInv'
  <1> SUFFICES ASSUME AJInv, RollbackEnd PROVE AJInv'
    OBVIOUS
  <1>5. FileTypes'
    BY DEF AJInv, RollbackEnd, FileTypes, ItemDirs
  <1>6. JournalsOK'
    BY JournalTypes DEF AJInv, RollbackEnd, JournalsOK, Phases, PhaseInv
  <1>7. ProcessTypes'
    <2>1. ProcessTypes
      BY DEF AJInv
    <2>2. faults' \in 0..MaxFaults
      BY <2>1 DEF RollbackEnd, ProcessTypes
    <2>3. pc' \in Places /\ who' \in {"apply", "recover"}
      BY <2>1 DEF RollbackEnd, ProcessTypes, Places
    <2>4. k' \in 0..N
      BY <2>1 DEF RollbackEnd, ProcessTypes, AJInv, PhaseInv
    <2>5. group' \in BOOLEAN /\ bad' \in BOOLEAN
      BY <2>1 DEF RollbackEnd, ProcessTypes
    <2>6. QED
      BY <2>2, <2>3, <2>4, <2>5 DEF ProcessTypes
  <1>8. RecordTypes'
    BY DEF AJInv, RollbackEnd, RecordTypes, FileTypes
  <1>9. PhaseInv'
    BY DEF AJInv, RollbackEnd, PhaseInv
  <1>10. DirInv'
    BY DEF AJInv, RollbackEnd, PhaseInv, DirInv, NoneYet, Empty
  <1>11. ASSUME NEW i \in Items
        PROVE  (Placed(i) /\ Known(i) /\ Undo(i) /\ Whole(i) /\ Held(i))'
    <2>1. Placed(i) /\ Known(i) /\ Undo(i) /\ Whole(i) /\ Held(i) /\ edits \in Nat /\ k \in 0..N
      BY DEF AJInv, ItemInv, RecordTypes, ProcessTypes
    <2>2. Placed(i)'
      BY <2>1 DEF RollbackEnd, AJInv, Placed, Known, PhaseInv, DirInv, Missing, Merged, InstalledAll, BackupsAll
    <2>3. Known(i)'
      BY <2>1 DEF RollbackEnd, AJInv, Known, Placed, Undo, Fresh, PhaseInv, DirInv, Missing, Merged, InstalledAll, BackupsAll
    <2>4. Undo(i)'
      BY <2>1 DEF RollbackEnd, AJInv, Undo, Undone, Placed, Known, Whole, Held, Fresh, PhaseInv, DirInv, Missing, Merged, InstalledAll, BackupsAll
    <2>5. Whole(i)'
      BY <2>1 DEF RollbackEnd, AJInv, Whole, Placed, Known, Fresh, Undo, Undone, PhaseInv, InstalledAll, BackupsAll
    <2>6. Held(i)'
      BY <2>1 DEF RollbackEnd, AJInv, Held, Placed, Known, Fresh, Undo, Undone, PhaseInv, DirInv, Missing, Merged, Edited, InstalledAll, BackupsAll
    <2>7. QED
      BY <2>2, <2>3, <2>4, <2>5, <2>6
  <1>12. QED
    BY <1>5, <1>6, <1>7, <1>8, <1>9, <1>10, <1>11 DEF AJInv, ItemInv

-----------------------------------------------------------------------------
\* Removal, recovery, the user and crashes.

\* RemoveEntry keeps the invariant.
LEMMA RemoveEntryKeeps == AJInv /\ RemoveEntry => AJInv'
  <1> SUFFICES ASSUME AJInv, RemoveEntry PROVE AJInv'
    OBVIOUS
  <1>1. pc = "remove" /\ FileTypes /\ JournalsOK
    BY DEF AJInv, RemoveEntry
  <1>2. item' \in [Items -> ItemDirs] /\ journal' \in Journals
    <2>1. journal' \in Journals
      BY <1>1, JournalTypes DEF RemoveEntry, JournalsOK
    <2>2. item' \in [Items -> ItemDirs]
      <3>1. CASE UNCHANGED item
        BY <1>1, <3>1 DEF FileTypes
      <3>2. ASSUME NEW i \in Items, NEW file \in {"value", "previous", "installed"}, item' = [item EXCEPT ![i][file] = Missing]
            PROVE  item' \in [Items -> ItemDirs]
        BY <1>1, <3>2 DEF FileTypes, ItemDirs
      <3>3. ASSUME NEW i \in Items, item' = [item EXCEPT ![i] = NoItem]
            PROVE  item' \in [Items -> ItemDirs]
        BY <1>1, <3>3 DEF FileTypes, ItemDirs, NoItem
      <3>4. QED
        BY <3>1, <3>2, <3>3 DEF RemoveEntry
    <2>3. QED
      BY <2>1, <2>2
  <1>3. /\ journal' = journal \/ NoneYet'
        /\ \A i \in Items :
             /\ item'[i].previous \in {item[i].previous, Missing} /\ item'[i].installed \in {item[i].installed, Missing}
             /\ \/ item'[i].dir = item[i].dir /\ item'[i].value \in {item[i].value, Missing}
                \/ Empty(i)'
    <2>1. journal' = journal \/ NoneYet'
      BY DEF RemoveEntry, NoneYet, NoJournal
    <2>2. ASSUME NEW j \in Items, NEW file \in {"value", "previous", "installed"}, item' = [item EXCEPT ![j][file] = Missing],
                 NEW i \in Items
          PROVE  /\ item'[i].previous \in {item[i].previous, Missing} /\ item'[i].installed \in {item[i].installed, Missing}
                 /\ item'[i].dir = item[i].dir /\ item'[i].value \in {item[i].value, Missing}
      BY <1>1, <2>2 DEF FileTypes, ItemDirs
    <2>3. ASSUME NEW j \in Items, item[j] = [NoItem EXCEPT !.dir = TRUE], item' = [item EXCEPT ![j] = NoItem],
                 NEW i \in Items
          PROVE  /\ item'[i].previous \in {item[i].previous, Missing} /\ item'[i].installed \in {item[i].installed, Missing}
                 /\ (item'[i].dir = item[i].dir /\ item'[i].value = item[i].value) \/ Empty(i)'
      BY <1>1, <2>3 DEF FileTypes, ItemDirs, NoItem, Empty
    <2>4. QED
      BY <2>1, <2>2, <2>3 DEF RemoveEntry
  <1>4. UNCHANGED <<tree, tx, record, process, request, history, faults>>
    BY DEF RemoveEntry
  <1>5. FileTypes'
    BY <1>1, <1>2, <1>4 DEF AJInv, FileTypes
  <1>6. JournalsOK'
    BY <1>1, <1>2, <1>4 DEF AJInv, JournalsOK
  <1>7. ProcessTypes'
    <2>1. ProcessTypes
      BY DEF AJInv
    <2>2. faults' \in 0..MaxFaults
      BY <2>1 DEF RemoveEntry, ProcessTypes
    <2>3. pc' \in Places /\ who' \in {"apply", "recover"}
      BY <1>1, <1>2, <1>3, <1>4, <2>1 DEF ProcessTypes, Places
    <2>4. k' \in 0..N
      BY <1>1, <1>2, <1>3, <1>4, <2>1 DEF ProcessTypes
    <2>5. group' \in BOOLEAN /\ bad' \in BOOLEAN
      BY <1>1, <1>2, <1>3, <1>4, <2>1 DEF ProcessTypes
    <2>6. QED
      BY <2>2, <2>3, <2>4, <2>5 DEF ProcessTypes
  <1>8. RecordTypes'
    BY <1>1, <1>2, <1>4 DEF AJInv, RecordTypes
  <1>9. PhaseInv'
    BY <1>1, <1>3, <1>4 DEF AJInv, PhaseInv, NoneYet
  <1>10. DirInv'
    BY <1>1, <1>2, <1>3, <1>4 DEF AJInv, PhaseInv, DirInv, NoneYet, Empty, Now, Elsewhere
  <1>11. ASSUME NEW i \in Items
        PROVE  (Placed(i) /\ Known(i) /\ Undo(i) /\ Whole(i) /\ Held(i))'
    <2>1. Placed(i) /\ Known(i) /\ Undo(i) /\ Whole(i) /\ Held(i) /\ edits \in Nat /\ k \in 0..N
      BY DEF AJInv, ItemInv, RecordTypes, ProcessTypes
    <2>2. Placed(i)'
      BY <2>1, <1>1, <1>2, <1>3, <1>4 DEF AJInv, Now, Elsewhere, Placed, Known, PhaseInv, DirInv, Missing, Merged
    <2>3. Known(i)'
      BY <2>1, <1>1, <1>3, <1>4 DEF Known, Fresh, NoneYet
    <2>4. Undo(i)'
      BY <2>1, <1>1, <1>2, <1>3, <1>4 DEF AJInv, Now, Elsewhere, Undo, Undone, Placed, Known, Whole, Held, Fresh, PhaseInv, DirInv, Missing, Merged
    <2>5. Whole(i)'
      BY <2>1, <1>1, <1>2, <1>3, <1>4 DEF AJInv, Now, Elsewhere, Whole, Placed, Known, Fresh, Undo, Undone, PhaseInv
    <2>6. Held(i)'
      BY <2>1, <1>1, <1>2, <1>3, <1>4 DEF AJInv, Now, Elsewhere, Held, Placed, Known, Fresh, Undo, Undone, PhaseInv, DirInv, Missing, Merged, Edited
    <2>7. QED
      BY <2>2, <2>3, <2>4, <2>5, <2>6
  <1>12. QED
    BY <1>5, <1>6, <1>7, <1>8, <1>9, <1>10, <1>11 DEF AJInv, ItemInv

\* RemoveTransaction keeps the invariant.
LEMMA RemoveTransactionKeeps == AJInv /\ RemoveTransaction => AJInv'
  <1> SUFFICES ASSUME AJInv, RemoveTransaction PROVE AJInv'
    OBVIOUS
  <1>5. FileTypes'
    BY DEF AJInv, RemoveTransaction, AfterRemove, FileTypes, ItemDirs
  <1>6. JournalsOK'
    BY JournalTypes DEF AJInv, RemoveTransaction, AfterRemove, JournalsOK, Phases, PhaseInv
  <1>7. ProcessTypes'
    <2>1. ProcessTypes
      BY DEF AJInv
    <2>2. faults' \in 0..MaxFaults
      BY <2>1 DEF RemoveTransaction, AfterRemove, ProcessTypes
    <2>3. pc' \in Places /\ who' \in {"apply", "recover"}
      BY <2>1 DEF RemoveTransaction, AfterRemove, ProcessTypes, Places
    <2>4. k' \in 0..N
      BY <2>1 DEF RemoveTransaction, AfterRemove, ProcessTypes, AJInv, PhaseInv
    <2>5. group' \in BOOLEAN /\ bad' \in BOOLEAN
      BY <2>1 DEF RemoveTransaction, AfterRemove, ProcessTypes
    <2>6. QED
      BY <2>2, <2>3, <2>4, <2>5 DEF ProcessTypes
  <1>8. RecordTypes'
    BY DEF AJInv, RemoveTransaction, AfterRemove, RecordTypes, FileTypes
  <1>9. PhaseInv'
    BY DEF AJInv, RemoveTransaction, AfterRemove, PhaseInv
  <1>10. DirInv'
    BY DEF AJInv, RemoveTransaction, AfterRemove, DirInv, PhaseInv, NoneYet, NoJournal, Empty
  <1>11. ASSUME NEW i \in Items
        PROVE  (Placed(i) /\ Known(i) /\ Undo(i) /\ Whole(i) /\ Held(i))'
    <2>1. Placed(i) /\ Known(i) /\ Undo(i) /\ Whole(i) /\ Held(i) /\ edits \in Nat /\ k \in 0..N
      BY DEF AJInv, ItemInv, RecordTypes, ProcessTypes
    <2>2. Placed(i)'
      BY <2>1 DEF RemoveTransaction, AfterRemove, AJInv, Placed, Known, PhaseInv, DirInv, Missing, Merged, InstalledAll, BackupsAll
    <2>3. Known(i)'
      BY <2>1 DEF RemoveTransaction, AfterRemove, AJInv, Known, Placed, Undo, Fresh, PhaseInv, DirInv, Missing, Merged, InstalledAll, BackupsAll
    <2>4. Undo(i)'
      BY <2>1 DEF RemoveTransaction, AfterRemove, AJInv, Undo, Undone, Placed, Known, Whole, Held, Fresh, PhaseInv, DirInv, Missing, Merged, InstalledAll, BackupsAll
    <2>5. Whole(i)'
      BY <2>1 DEF RemoveTransaction, AfterRemove, AJInv, Whole, Placed, Known, Fresh, Undo, Undone, PhaseInv, InstalledAll, BackupsAll
    <2>6. Held(i)'
      BY <2>1 DEF RemoveTransaction, AfterRemove, AJInv, Held, Placed, Known, Fresh, Undo, Undone, PhaseInv, DirInv, Missing, Merged, Edited, InstalledAll, BackupsAll
    <2>7. QED
      BY <2>2, <2>3, <2>4, <2>5, <2>6
  <1>12. QED
    BY <1>5, <1>6, <1>7, <1>8, <1>9, <1>10, <1>11 DEF AJInv, ItemInv

\* RemoveFails keeps the invariant.
LEMMA RemoveFailsKeeps == AJInv /\ RemoveFails => AJInv'
  <1> SUFFICES ASSUME AJInv, RemoveFails PROVE AJInv'
    OBVIOUS
  <1>5. FileTypes'
    BY DEF AJInv, RemoveFails, FileTypes, ItemDirs
  <1>6. JournalsOK'
    BY JournalTypes DEF AJInv, RemoveFails, JournalsOK, Phases, PhaseInv
  <1>7. ProcessTypes'
    <2>1. ProcessTypes
      BY DEF AJInv
    <2>2. faults' \in 0..MaxFaults
      BY <2>1 DEF RemoveFails, ProcessTypes
    <2>3. pc' \in Places /\ who' \in {"apply", "recover"}
      BY <2>1 DEF RemoveFails, ProcessTypes, Places
    <2>4. k' \in 0..N
      BY <2>1 DEF RemoveFails, ProcessTypes, AJInv, PhaseInv
    <2>5. group' \in BOOLEAN /\ bad' \in BOOLEAN
      BY <2>1 DEF RemoveFails, ProcessTypes
    <2>6. QED
      BY <2>2, <2>3, <2>4, <2>5 DEF ProcessTypes
  <1>8. RecordTypes'
    BY DEF AJInv, RemoveFails, RecordTypes, FileTypes
  <1>9. PhaseInv'
    BY DEF AJInv, RemoveFails, PhaseInv
  <1>10. DirInv'
    BY DEF AJInv, RemoveFails, PhaseInv, DirInv, NoneYet, Empty
  <1>11. ASSUME NEW i \in Items
        PROVE  (Placed(i) /\ Known(i) /\ Undo(i) /\ Whole(i) /\ Held(i))'
    <2>1. Placed(i) /\ Known(i) /\ Undo(i) /\ Whole(i) /\ Held(i) /\ edits \in Nat /\ k \in 0..N
      BY DEF AJInv, ItemInv, RecordTypes, ProcessTypes
    <2>2. Placed(i)'
      BY <2>1 DEF RemoveFails, AJInv, Placed, Known, PhaseInv, DirInv, Missing, Merged, InstalledAll, BackupsAll
    <2>3. Known(i)'
      BY <2>1 DEF RemoveFails, AJInv, Known, Placed, Undo, Fresh, PhaseInv, DirInv, Missing, Merged, InstalledAll, BackupsAll
    <2>4. Undo(i)'
      BY <2>1 DEF RemoveFails, AJInv, Undo, Undone, Placed, Known, Whole, Held, Fresh, PhaseInv, DirInv, Missing, Merged, InstalledAll, BackupsAll
    <2>5. Whole(i)'
      BY <2>1 DEF RemoveFails, AJInv, Whole, Placed, Known, Fresh, Undo, Undone, PhaseInv, InstalledAll, BackupsAll
    <2>6. Held(i)'
      BY <2>1 DEF RemoveFails, AJInv, Held, Placed, Known, Fresh, Undo, Undone, PhaseInv, DirInv, Missing, Merged, Edited, InstalledAll, BackupsAll
    <2>7. QED
      BY <2>2, <2>3, <2>4, <2>5, <2>6
  <1>12. QED
    BY <1>5, <1>6, <1>7, <1>8, <1>9, <1>10, <1>11 DEF AJInv, ItemInv

\* Retry keeps the invariant.
LEMMA RetryKeeps == AJInv /\ Retry => AJInv'
  <1> SUFFICES ASSUME AJInv, Retry PROVE AJInv'
    OBVIOUS
  <1>5. FileTypes'
    BY DEF AJInv, Retry, FileTypes, ItemDirs
  <1>6. JournalsOK'
    BY JournalTypes DEF AJInv, Retry, JournalsOK, Phases, PhaseInv
  <1>7. ProcessTypes'
    <2>1. ProcessTypes
      BY DEF AJInv
    <2>2. faults' \in 0..MaxFaults
      BY <2>1 DEF Retry, ProcessTypes
    <2>3. pc' \in Places /\ who' \in {"apply", "recover"}
      BY <2>1 DEF Retry, ProcessTypes, Places
    <2>4. k' \in 0..N
      BY <2>1 DEF Retry, ProcessTypes, AJInv, PhaseInv
    <2>5. group' \in BOOLEAN /\ bad' \in BOOLEAN
      BY <2>1 DEF Retry, ProcessTypes
    <2>6. QED
      BY <2>2, <2>3, <2>4, <2>5 DEF ProcessTypes
  <1>8. RecordTypes'
    BY DEF AJInv, Retry, RecordTypes, FileTypes
  <1>9. PhaseInv'
    BY DEF AJInv, Retry, PhaseInv
  <1>10. DirInv'
    BY DEF AJInv, Retry, PhaseInv, DirInv, NoneYet, Empty
  <1>11. ASSUME NEW i \in Items
        PROVE  (Placed(i) /\ Known(i) /\ Undo(i) /\ Whole(i) /\ Held(i))'
    <2>1. Placed(i) /\ Known(i) /\ Undo(i) /\ Whole(i) /\ Held(i) /\ edits \in Nat /\ k \in 0..N
      BY DEF AJInv, ItemInv, RecordTypes, ProcessTypes
    <2>2. Placed(i)'
      BY <2>1 DEF Retry, AJInv, Placed, Known, PhaseInv, DirInv, Missing, Merged, InstalledAll, BackupsAll
    <2>3. Known(i)'
      BY <2>1 DEF Retry, AJInv, Known, Placed, Undo, Fresh, PhaseInv, DirInv, Missing, Merged, InstalledAll, BackupsAll
    <2>4. Undo(i)'
      BY <2>1 DEF Retry, AJInv, Undo, Undone, Placed, Known, Whole, Held, Fresh, PhaseInv, DirInv, Missing, Merged, InstalledAll, BackupsAll
    <2>5. Whole(i)'
      BY <2>1 DEF Retry, AJInv, Whole, Placed, Known, Fresh, Undo, Undone, PhaseInv, InstalledAll, BackupsAll
    <2>6. Held(i)'
      BY <2>1 DEF Retry, AJInv, Held, Placed, Known, Fresh, Undo, Undone, PhaseInv, DirInv, Missing, Merged, Edited, InstalledAll, BackupsAll
    <2>7. QED
      BY <2>2, <2>3, <2>4, <2>5, <2>6
  <1>12. QED
    BY <1>5, <1>6, <1>7, <1>8, <1>9, <1>10, <1>11 DEF AJInv, ItemInv

\* Recover keeps the invariant.
LEMMA RecoverKeeps == AJInv /\ Recover => AJInv'
  <1> SUFFICES ASSUME AJInv, Recover PROVE AJInv'
    OBVIOUS
  <1>5. FileTypes'
    BY DEF AJInv, Recover, Unpublished, Outcome, FileTypes, ItemDirs
  <1>6. JournalsOK'
    BY JournalTypes DEF AJInv, Recover, Unpublished, Outcome, JournalsOK, Phases, PhaseInv
  <1>7. ProcessTypes'
    <2>1. ProcessTypes
      BY DEF AJInv
    <2>2. faults' \in 0..MaxFaults
      BY <2>1 DEF Recover, Unpublished, Outcome, ProcessTypes
    <2>3. pc' \in Places /\ who' \in {"apply", "recover"}
      BY <2>1 DEF Recover, Unpublished, Outcome, ProcessTypes, Places
    <2>4. k' \in 0..N
      BY <2>1 DEF Recover, Unpublished, Outcome, ProcessTypes, AJInv, PhaseInv
    <2>5. group' \in BOOLEAN /\ bad' \in BOOLEAN
      BY <2>1 DEF Recover, Unpublished, Outcome, ProcessTypes
    <2>6. QED
      BY <2>2, <2>3, <2>4, <2>5 DEF ProcessTypes
  <1>8. RecordTypes'
    BY DEF AJInv, Recover, Unpublished, Outcome, RecordTypes, FileTypes
  <1>9. PhaseInv'
    BY ApplyJournalAssumption DEF AJInv, Recover, Unpublished, Outcome, PhaseInv, JournalsOK, Journals, RecordTypes
  <1>10. DirInv'
    BY DEF AJInv, Recover, Unpublished, Outcome, PhaseInv, DirInv, NoneYet, Empty
  <1>11. ASSUME NEW i \in Items
        PROVE  (Placed(i) /\ Known(i) /\ Undo(i) /\ Whole(i) /\ Held(i))'
    <2>1. Placed(i) /\ Known(i) /\ Undo(i) /\ Whole(i) /\ Held(i) /\ edits \in Nat /\ k \in 0..N
      BY DEF AJInv, ItemInv, RecordTypes, ProcessTypes
    <2>2. Placed(i)'
      BY <2>1 DEF Recover, Unpublished, Outcome, AJInv, Placed, Known, PhaseInv, DirInv, Missing, Merged, InstalledAll, BackupsAll
    <2>3. Known(i)'
      BY <2>1 DEF Recover, Unpublished, Outcome, AJInv, Known, Placed, Undo, Fresh, PhaseInv, DirInv, Missing, Merged, InstalledAll, BackupsAll
    <2>4. Undo(i)'
      BY <2>1 DEF Recover, Unpublished, Outcome, AJInv, Undo, Undone, Placed, Known, Whole, Held, Fresh, PhaseInv, DirInv, Missing, Merged, InstalledAll, BackupsAll
    <2>5. Whole(i)'
      BY <2>1 DEF Recover, Unpublished, Outcome, AJInv, Whole, Placed, Known, Fresh, Undo, Undone, PhaseInv, InstalledAll, BackupsAll
    <2>6. Held(i)'
      BY <2>1 DEF Recover, Unpublished, Outcome, AJInv, Held, Placed, Known, Fresh, Undo, Undone, PhaseInv, DirInv, Missing, Merged, Edited, InstalledAll, BackupsAll
    <2>7. QED
      BY <2>2, <2>3, <2>4, <2>5, <2>6
  <1>12. QED
    BY <1>5, <1>6, <1>7, <1>8, <1>9, <1>10, <1>11 DEF AJInv, ItemInv

\* FinishJob keeps the invariant.
LEMMA FinishJobKeeps == AJInv /\ FinishJob => AJInv'
  <1> SUFFICES ASSUME AJInv, FinishJob PROVE AJInv'
    OBVIOUS
  <1>5. FileTypes'
    BY DEF AJInv, FinishJob, FileTypes, ItemDirs
  <1>6. JournalsOK'
    BY JournalTypes DEF AJInv, FinishJob, JournalsOK, Phases, PhaseInv
  <1>7. ProcessTypes'
    <2>1. ProcessTypes
      BY DEF AJInv
    <2>2. faults' \in 0..MaxFaults
      BY <2>1 DEF FinishJob, ProcessTypes
    <2>3. pc' \in Places /\ who' \in {"apply", "recover"}
      BY <2>1 DEF FinishJob, ProcessTypes, Places
    <2>4. k' \in 0..N
      BY <2>1 DEF FinishJob, ProcessTypes, AJInv, PhaseInv
    <2>5. group' \in BOOLEAN /\ bad' \in BOOLEAN
      BY <2>1 DEF FinishJob, ProcessTypes
    <2>6. QED
      BY <2>2, <2>3, <2>4, <2>5 DEF ProcessTypes
  <1>8. RecordTypes'
    BY DEF AJInv, FinishJob, RecordTypes, FileTypes
  <1>9. PhaseInv'
    BY DEF AJInv, FinishJob, PhaseInv
  <1>10. DirInv'
    BY DEF AJInv, FinishJob, PhaseInv, DirInv, NoneYet, Empty
  <1>11. ASSUME NEW i \in Items
        PROVE  (Placed(i) /\ Known(i) /\ Undo(i) /\ Whole(i) /\ Held(i))'
    <2>1. Placed(i) /\ Known(i) /\ Undo(i) /\ Whole(i) /\ Held(i) /\ edits \in Nat /\ k \in 0..N
      BY DEF AJInv, ItemInv, RecordTypes, ProcessTypes
    <2>2. Placed(i)'
      BY <2>1 DEF FinishJob, AJInv, Placed, Known, PhaseInv, DirInv, Missing, Merged, InstalledAll, BackupsAll
    <2>3. Known(i)'
      BY <2>1 DEF FinishJob, AJInv, Known, Placed, Undo, Fresh, PhaseInv, DirInv, Missing, Merged, InstalledAll, BackupsAll
    <2>4. Undo(i)'
      BY <2>1 DEF FinishJob, AJInv, Undo, Undone, Placed, Known, Whole, Held, Fresh, PhaseInv, DirInv, Missing, Merged, InstalledAll, BackupsAll
    <2>5. Whole(i)'
      BY <2>1 DEF FinishJob, AJInv, Whole, Placed, Known, Fresh, Undo, Undone, PhaseInv, InstalledAll, BackupsAll
    <2>6. Held(i)'
      BY <2>1 DEF FinishJob, AJInv, Held, Placed, Known, Fresh, Undo, Undone, PhaseInv, DirInv, Missing, Merged, Edited, InstalledAll, BackupsAll
    <2>7. QED
      BY <2>2, <2>3, <2>4, <2>5, <2>6
  <1>12. QED
    BY <1>5, <1>6, <1>7, <1>8, <1>9, <1>10, <1>11 DEF AJInv, ItemInv

\* FinishTransfer keeps the invariant.
LEMMA FinishTransferKeeps == AJInv /\ FinishTransfer => AJInv'
  <1> SUFFICES ASSUME AJInv, FinishTransfer PROVE AJInv'
    OBVIOUS
  <1>5. FileTypes'
    BY DEF AJInv, FinishTransfer, Authorised, Unpublished, Attempt, FileTypes, ItemDirs
  <1>6. JournalsOK'
    BY JournalTypes DEF AJInv, FinishTransfer, Authorised, Unpublished, Attempt, JournalsOK, Phases, PhaseInv
  <1>7. ProcessTypes'
    <2>1. ProcessTypes
      BY DEF AJInv
    <2>2. faults' \in 0..MaxFaults
      BY <2>1 DEF FinishTransfer, Authorised, Unpublished, Attempt, ProcessTypes
    <2>3. pc' \in Places /\ who' \in {"apply", "recover"}
      BY <2>1 DEF FinishTransfer, Authorised, Unpublished, Attempt, ProcessTypes, Places
    <2>4. k' \in 0..N
      BY <2>1 DEF FinishTransfer, Authorised, Unpublished, Attempt, ProcessTypes, AJInv, PhaseInv
    <2>5. group' \in BOOLEAN /\ bad' \in BOOLEAN
      BY <2>1 DEF FinishTransfer, Authorised, Unpublished, Attempt, ProcessTypes
    <2>6. QED
      BY <2>2, <2>3, <2>4, <2>5 DEF ProcessTypes
  <1>8. RecordTypes'
    BY DEF AJInv, FinishTransfer, Authorised, Unpublished, Attempt, RecordTypes, FileTypes
  <1>9. PhaseInv'
    BY DEF AJInv, FinishTransfer, Authorised, Unpublished, Attempt, PhaseInv
  <1>10. DirInv'
    <2>1. NoneYet \/ UNCHANGED tx
      BY DEF FinishTransfer, NoneYet, NoJournal
    <2>2. tx' # tx => \A i \in Items : Empty(i)
      BY DEF FinishTransfer, Unpublished, AJInv, DirInv, PhaseInv
    <2>3. QED
      BY <2>1, <2>2 DEF AJInv, FinishTransfer, Unpublished, Attempt, DirInv, PhaseInv, NoneYet, Empty, RecordTypes
  <1>11. ASSUME NEW i \in Items
        PROVE  (Placed(i) /\ Known(i) /\ Undo(i) /\ Whole(i) /\ Held(i))'
    <2>1. Placed(i) /\ Known(i) /\ Undo(i) /\ Whole(i) /\ Held(i) /\ edits \in Nat /\ k \in 0..N
      BY DEF AJInv, ItemInv, RecordTypes, ProcessTypes
    <2>2. Placed(i)'
      BY <2>1 DEF FinishTransfer, Authorised, Unpublished, Attempt, AJInv, Placed, Known, PhaseInv, DirInv, Missing, Merged, InstalledAll, BackupsAll
    <2>3. Known(i)'
      BY <2>1 DEF FinishTransfer, Authorised, Unpublished, Attempt, AJInv, Known, Placed, Undo, Fresh, PhaseInv, DirInv, Missing, Merged, InstalledAll, BackupsAll
    <2>4. Undo(i)'
      BY <2>1 DEF FinishTransfer, Authorised, Unpublished, Attempt, AJInv, Undo, Undone, Placed, Known, Whole, Held, Fresh, PhaseInv, DirInv, Missing, Merged, InstalledAll, BackupsAll
    <2>5. Whole(i)'
      BY <2>1 DEF FinishTransfer, Authorised, Unpublished, Attempt, AJInv, Whole, Placed, Known, Fresh, Undo, Undone, PhaseInv, InstalledAll, BackupsAll
    <2>6. Held(i)'
      BY <2>1 DEF FinishTransfer, Authorised, Unpublished, Attempt, AJInv, Held, Placed, Known, Fresh, Undo, Undone, PhaseInv, DirInv, Missing, Merged, Edited, InstalledAll, BackupsAll
    <2>7. QED
      BY <2>2, <2>3, <2>4, <2>5, <2>6
  <1>12. QED
    BY <1>5, <1>6, <1>7, <1>8, <1>9, <1>10, <1>11 DEF AJInv, ItemInv

\* ClearPending keeps the invariant.
LEMMA ClearPendingKeeps == AJInv /\ ClearPending => AJInv'
  <1> SUFFICES ASSUME AJInv, ClearPending PROVE AJInv'
    OBVIOUS
  <1>5. FileTypes'
    BY DEF AJInv, ClearPending, Attempt, FileTypes, ItemDirs
  <1>6. JournalsOK'
    BY JournalTypes DEF AJInv, ClearPending, Attempt, JournalsOK, Phases, PhaseInv
  <1>7. ProcessTypes'
    <2>1. ProcessTypes
      BY DEF AJInv
    <2>2. faults' \in 0..MaxFaults
      BY <2>1 DEF ClearPending, Attempt, ProcessTypes
    <2>3. pc' \in Places /\ who' \in {"apply", "recover"}
      BY <2>1 DEF ClearPending, Attempt, ProcessTypes, Places
    <2>4. k' \in 0..N
      BY <2>1 DEF ClearPending, Attempt, ProcessTypes, AJInv, PhaseInv
    <2>5. group' \in BOOLEAN /\ bad' \in BOOLEAN
      BY <2>1 DEF ClearPending, Attempt, ProcessTypes
    <2>6. QED
      BY <2>2, <2>3, <2>4, <2>5 DEF ProcessTypes
  <1>8. RecordTypes'
    BY DEF AJInv, ClearPending, Attempt, RecordTypes, FileTypes
  <1>9. PhaseInv'
    BY DEF AJInv, ClearPending, Attempt, PhaseInv
  <1>10. DirInv'
    BY DEF AJInv, ClearPending, Attempt, PhaseInv, DirInv, NoneYet, Empty
  <1>11. ASSUME NEW i \in Items
        PROVE  (Placed(i) /\ Known(i) /\ Undo(i) /\ Whole(i) /\ Held(i))'
    <2>1. Placed(i) /\ Known(i) /\ Undo(i) /\ Whole(i) /\ Held(i) /\ edits \in Nat /\ k \in 0..N
      BY DEF AJInv, ItemInv, RecordTypes, ProcessTypes
    <2>2. Placed(i)'
      BY <2>1 DEF ClearPending, Attempt, AJInv, Placed, Known, PhaseInv, DirInv, Missing, Merged, InstalledAll, BackupsAll
    <2>3. Known(i)'
      BY <2>1 DEF ClearPending, Attempt, AJInv, Known, Placed, Undo, Fresh, PhaseInv, DirInv, Missing, Merged, InstalledAll, BackupsAll
    <2>4. Undo(i)'
      BY <2>1 DEF ClearPending, Attempt, AJInv, Undo, Undone, Placed, Known, Whole, Held, Fresh, PhaseInv, DirInv, Missing, Merged, InstalledAll, BackupsAll
    <2>5. Whole(i)'
      BY <2>1 DEF ClearPending, Attempt, AJInv, Whole, Placed, Known, Fresh, Undo, Undone, PhaseInv, InstalledAll, BackupsAll
    <2>6. Held(i)'
      BY <2>1 DEF ClearPending, Attempt, AJInv, Held, Placed, Known, Fresh, Undo, Undone, PhaseInv, DirInv, Missing, Merged, Edited, InstalledAll, BackupsAll
    <2>7. QED
      BY <2>2, <2>3, <2>4, <2>5, <2>6
  <1>12. QED
    BY <1>5, <1>6, <1>7, <1>8, <1>9, <1>10, <1>11 DEF AJInv, ItemInv

\* Edit keeps the invariant.
LEMMA EditKeeps == AJInv /\ Edit => AJInv'
  <1> SUFFICES ASSUME AJInv, Edit PROVE AJInv'
    OBVIOUS
  <1>1. FileTypes /\ RecordTypes /\ edits < MaxEdits /\ (LateEdits \/ ~JournalInDoubt)
    BY DEF AJInv, Edit
  <1>2. PICK e \in Items, content \in {Missing, Edited + edits} :
          /\ tree' = [tree EXCEPT ![e] = content]
          /\ keep' = [keep EXCEPT ![e] = (@ \ {tree[e]}) \cup ({content} \ {Missing})]
          /\ touched' = touched \cup {e} /\ edits' = edits + 1
    BY DEF Edit
  <1>3. /\ content \in Contents /\ content # Merged /\ tree' \in [Items -> Contents]
        /\ keep' \in [Items -> SUBSET Contents] /\ edits' \in 0..MaxEdits
        /\ tree'[e] = content /\ keep'[e] = (keep[e] \ {tree[e]}) \cup ({content} \ {Missing})
        /\ \A i \in Items \ {e} : tree'[i] = tree[i] /\ keep'[i] = keep[i]
    <2>1. content \in Contents /\ content # Merged /\ edits' \in 0..MaxEdits
      BY <1>1, <1>2 DEF RecordTypes, Missing, Merged, Edited
    <2>2. QED
      BY <1>1, <1>2, <2>1 DEF FileTypes, RecordTypes
  <1>4. UNCHANGED <<dir, record, process, request, crashes, faults>>
    BY DEF Edit
  <1>5. FileTypes'
    BY <1>1, <1>3, <1>4 DEF FileTypes
  <1>6. JournalsOK'
    BY <1>4 DEF AJInv, JournalsOK
  <1>7. ProcessTypes'
    BY <1>4 DEF AJInv, ProcessTypes
  <1>8. RecordTypes'
    BY <1>1, <1>2, <1>3, <1>4 DEF RecordTypes
  <1>9. PhaseInv'
    BY <1>1, <1>2, <1>3, <1>4 DEF AJInv, PhaseInv
  <1>10. DirInv'
    BY <1>1, <1>2, <1>3, <1>4 DEF AJInv, PhaseInv, DirInv, NoneYet, Empty, Now, Elsewhere
  <1>11. ASSUME NEW i \in Items
        PROVE  (Placed(i) /\ Known(i) /\ Undo(i) /\ Whole(i) /\ Held(i))'
    <2>1. Placed(i) /\ Known(i) /\ Undo(i) /\ Whole(i) /\ Held(i) /\ edits \in Nat /\ k \in 0..N
      BY DEF AJInv, ItemInv, RecordTypes, ProcessTypes
    <2>2. Placed(i)'
      BY <2>1, <1>1, <1>2, <1>3, <1>4 DEF Placed, JournalInDoubt
    <2>3. Known(i)'
      BY <2>1, <1>1, <1>2, <1>3, <1>4 DEF Known, Fresh, JournalInDoubt, AJInv, JournalsOK, Journals
    <2>4. Undo(i)'
      BY <2>1, <1>1, <1>2, <1>3, <1>4 DEF Undo, Undone
    <2>5. Whole(i)'
      BY <2>1, <1>1, <1>2, <1>3, <1>4 DEF Whole
    <2>6. Held(i)'
      <3>1. tree[i] \in Nat /\ original[i] \in Nat /\ keep[i] \subseteq Nat
        BY <1>1 DEF FileTypes, RecordTypes
      <3>2. item[i].previous \in Nat /\ item[i].installed \in Nat
        BY <1>1 DEF FileTypes, ItemDirs
      <3>a. \A c \in Nat : c < Edited + edits => c < Edited + edits'
        BY <1>2, <2>1 DEF Edited
      <3>3. CASE i # e
        BY <2>1, <1>3, <1>4, <3>1, <3>2, <3>a, <3>3 DEF Held
      <3>4. CASE i = e
        BY <2>1, <1>1, <1>2, <1>3, <1>4, <3>1, <3>2, <3>4 DEF Held, JournalInDoubt, Edited, Missing
      <3>5. QED
        BY <3>3, <3>4
    <2>7. QED
      BY <2>2, <2>3, <2>4, <2>5, <2>6
  <1>12. QED
    BY <1>5, <1>6, <1>7, <1>8, <1>9, <1>10, <1>11 DEF AJInv, ItemInv

\* Crash keeps the invariant.
LEMMA CrashKeeps == AJInv /\ Crash => AJInv'
  <1> SUFFICES ASSUME AJInv, Crash PROVE AJInv'
    OBVIOUS
  <1>5. FileTypes'
    BY DEF AJInv, Crash, FileTypes, ItemDirs
  <1>6. JournalsOK'
    BY JournalTypes DEF AJInv, Crash, JournalsOK, Phases, PhaseInv
  <1>7. ProcessTypes'
    <2>1. ProcessTypes
      BY DEF AJInv
    <2>2. faults' \in 0..MaxFaults
      BY <2>1 DEF Crash, ProcessTypes
    <2>3. pc' \in Places /\ who' \in {"apply", "recover"}
      BY <2>1 DEF Crash, ProcessTypes, Places
    <2>4. k' \in 0..N
      BY <2>1 DEF Crash, ProcessTypes, AJInv, PhaseInv
    <2>5. group' \in BOOLEAN /\ bad' \in BOOLEAN
      BY <2>1 DEF Crash, ProcessTypes
    <2>6. QED
      BY <2>2, <2>3, <2>4, <2>5 DEF ProcessTypes
  <1>8. RecordTypes'
    BY DEF AJInv, Crash, RecordTypes, FileTypes
  <1>9. PhaseInv'
    BY DEF AJInv, Crash, PhaseInv
  <1>10. DirInv'
    BY DEF AJInv, Crash, PhaseInv, DirInv, NoneYet, Empty
  <1>11. ASSUME NEW i \in Items
        PROVE  (Placed(i) /\ Known(i) /\ Undo(i) /\ Whole(i) /\ Held(i))'
    <2>1. Placed(i) /\ Known(i) /\ Undo(i) /\ Whole(i) /\ Held(i) /\ edits \in Nat /\ k \in 0..N
      BY DEF AJInv, ItemInv, RecordTypes, ProcessTypes
    <2>2. Placed(i)'
      BY <2>1 DEF Crash, AJInv, Placed, Known, PhaseInv, DirInv, Missing, Merged, InstalledAll, BackupsAll
    <2>3. Known(i)'
      BY <2>1 DEF Crash, AJInv, Known, Placed, Undo, Fresh, PhaseInv, DirInv, Missing, Merged, InstalledAll, BackupsAll
    <2>4. Undo(i)'
      BY <2>1 DEF Crash, AJInv, Undo, Undone, Placed, Known, Whole, Held, Fresh, PhaseInv, DirInv, Missing, Merged, InstalledAll, BackupsAll
    <2>5. Whole(i)'
      BY <2>1 DEF Crash, AJInv, Whole, Placed, Known, Fresh, Undo, Undone, PhaseInv, InstalledAll, BackupsAll
    <2>6. Held(i)'
      BY <2>1 DEF Crash, AJInv, Held, Placed, Known, Fresh, Undo, Undone, PhaseInv, DirInv, Missing, Merged, Edited, InstalledAll, BackupsAll
    <2>7. QED
      BY <2>2, <2>3, <2>4, <2>5, <2>6
  <1>12. QED
    BY <1>5, <1>6, <1>7, <1>8, <1>9, <1>10, <1>11 DEF AJInv, ItemInv

-----------------------------------------------------------------------------
\* The initial states.
LEMMA InitHolds == Init => AJInv
  <1> SUFFICES ASSUME Init PROVE AJInv
    OBVIOUS
  <1>1. tree \in [Items -> Contents] /\ \A i \in Items : tree[i] # Merged /\ tree[i] < Edited
    BY DEF Init, Missing, Base, Merged, Edited
  <1>2. FileTypes
    BY <1>1 DEF Init, FileTypes, ItemDirs, NoItem
  <1>3. JournalsOK
    BY JournalTypes DEF Init, JournalsOK
  <1>4. ProcessTypes
    <2>1. pc \in Places /\ who \in {"apply", "recover"}
      BY DEF Init, Places
    <2>2. k = 0 /\ faults = 0
      BY DEF Init
    <2>3. k \in 0..N /\ faults \in 0..MaxFaults
      BY <2>2, Constants
    <2>4. group \in BOOLEAN /\ bad \in BOOLEAN
      BY DEF Init
    <2>5. QED
      BY <2>1, <2>3, <2>4 DEF ProcessTypes
  <1>5. RecordTypes
    <2>1. original \in [Items -> Contents] /\ expected \in [Items -> Contents]
      BY <1>1 DEF Init
    <2>2. pending \in BOOLEAN /\ applied \in BOOLEAN /\ cleanup \in BOOLEAN /\ tx \in BOOLEAN
      BY DEF Init
    <2>3. caller \in Callers /\ touched \subseteq Items
      BY DEF Init
    <2>4. keep \in [Items -> SUBSET Contents]
      BY DEF Init
    <2>5. applies = 0 /\ edits = 0 /\ crashes = 0
      BY DEF Init
    <2>6. applies \in 0..MaxApplies /\ edits \in 0..MaxEdits /\ crashes \in 0..MaxCrashes
      BY <2>5, Constants
    <2>7. QED
      BY <2>1, <2>2, <2>3, <2>4, <2>6 DEF RecordTypes
  <1>6. PhaseInv
    BY DEF Init, PhaseInv
  <1>7. NoneYet /\ \A i \in Items : Empty(i)
    BY DEF Init, NoneYet, Empty, NoItem, NoJournal
  <1>8. DirInv
    BY <1>7 DEF Init, DirInv
  <1>9. ASSUME NEW i \in Items
        PROVE  Placed(i) /\ Known(i) /\ Undo(i) /\ Whole(i) /\ Held(i)
    <2>1. Placed(i)
      BY DEF Init, Placed
    <2>2. Known(i)
      BY <1>7 DEF Init, Known, NoneYet
    <2>3. Undo(i)
      BY <1>1, <1>7 DEF Init, Undo, Undone, Empty
    <2>4. Whole(i)
      BY <1>7 DEF Init, Whole, Empty
    <2>5. Held(i)
      BY <1>1, <1>7 DEF Init, Held, Empty, Missing, Merged, Edited, NoneYet
    <2>6. QED
      BY <2>1, <2>2, <2>3, <2>4, <2>5
  <1>10. QED
    BY <1>2, <1>3, <1>4, <1>5, <1>6, <1>8, <1>9 DEF AJInv, ItemInv

\* A step that changes nothing.
LEMMA StutterKeeps == AJInv /\ UNCHANGED vars => AJInv'
  <1> SUFFICES ASSUME AJInv, UNCHANGED vars PROVE AJInv'
    OBVIOUS
  <1>1. FileTypes' /\ JournalsOK' /\ ProcessTypes' /\ RecordTypes' /\ PhaseInv'
    BY DEF vars, AJInv, FileTypes, JournalsOK, ProcessTypes, RecordTypes, PhaseInv
  <1>2. DirInv'
    BY DEF vars, AJInv, DirInv, NoneYet, Empty
  <1>3. ItemInv'
    BY DEF vars, AJInv, ItemInv, Placed, Known, Fresh, Undo, Undone, Whole, Held
  <1>4. QED
    BY <1>1, <1>2, <1>3 DEF AJInv

\* AJInv holds in every reachable state.
THEOREM ApplyInvariance == Spec => []AJInv
  <1>1. AJInv /\ [Next]_vars => AJInv'
    BY BeginKeeps, RefuseKeeps, MakeTransactionKeeps, WritePlanKeeps,
       StageKeeps, GroupIntentKeeps, CheckOriginalKeeps, IntentKeeps,
       BackupKeeps, VerifyBackupKeeps, InstallKeeps, MarkInstalledKeeps,
       ValidateKeeps, CommitKeeps, RecheckKeeps, RecordOutcomeKeeps,
       RollbackItemKeeps, InspectQuarantineKeeps, RestoreKeeps, DropQuarantineKeeps,
       RollbackItemFailsKeeps, RollbackEndKeeps, RemoveEntryKeeps, RemoveTransactionKeeps,
       RemoveFailsKeeps, RetryKeeps, RecoverKeeps, FinishJobKeeps,
       FinishTransferKeeps, ClearPendingKeeps, EditKeeps, CrashKeeps, StutterKeeps
       DEF Next, Applying, Recovering
  <1>2. QED
    BY <1>1, InitHolds, PTL DEF Spec

\* Atomicity: whatever fails, wherever the process stops and whenever the user edits,
\* paths the user did not touch hold the whole set when an outcome is recorded, and
\* what they held before when the application ended without one; and a transaction in
\* the workspace is named by the caller's record.
THEOREM SetsAreAtomic == Spec => []AllOrNothing
  <1>1. AJInv => AllOrNothing
    <2> SUFFICES ASSUME AJInv PROVE AllOrNothing
      OBVIOUS
    <2>1. TypeOK
      BY DEF AJInv, TypeOK, FileTypes, JournalsOK, ProcessTypes, RecordTypes, ItemDirs, Places
    <2>2. TransactionNamed
      BY DEF AJInv, PhaseInv, TransactionNamed
    <2>3. applied => \A i \in Items \ touched : tree[i] = expected[i]
      BY DEF AJInv, ItemInv, Whole
    <2>4. ~pending /\ ~applied => \A i \in Items \ touched : tree[i] = original[i]
      BY DEF AJInv, PhaseInv, DirInv, NoneYet, ItemInv, Undo, Undone
    <2>5. QED
      BY <2>1, <2>2, <2>3, <2>4 DEF AllOrNothing
  <1>2. QED
    BY <1>1, ApplyInvariance, PTL

\* No version the user wrote is lost, where no edit falls into the moments at which
\* the journal in memory and the one on disk disagree (finding 6 shows why).
THEOREM EditsSurvive ==
  ASSUME ~LateEdits
  PROVE  Spec => []EditsKept
  <1>1. AJInv => EditsKept
    BY DEF AJInv, ItemInv, Held, EditsKept
  <1>2. QED
    BY <1>1, ApplyInvariance, PTL
=============================================================================
