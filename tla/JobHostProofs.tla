--------------------------- MODULE JobHostProofs ---------------------------
(***************************************************************************)
(* Proofs about the parts JobHost puts together, for every set of jobs,    *)
(* connections and processes and every configuration.                      *)
(*                                                                         *)
(* JobRunner.  The safety properties are not inductive.  IndInv adds, per  *)
(* job, which goroutine may own it and what its receipt directory then     *)
(* looks like.  The scheduler and cancellation follow: the slots, the one  *)
(* drain worker, the quiet runner, the wakeups, the order of the starts,   *)
(* and that a job is settled once.  On top of IndInv each job keeps        *)
(* HoldInv (what it holds of the scheduler) and, without faults, KillInv   *)
(* (what a cancelled job is settled as); the scheduler as a whole keeps    *)
(* SlotsBound, SingleWorker, SetupInv, NoLostWakeup and OrderInv.          *)
(*                                                                         *)
(* PortForward.  Close returns only when nothing of the session is left,   *)
(* and while it waits every goroutine it waits for can go on               *)
(* (ForwardsClosed): whoever registers does so before Close takes the lock *)
(* and is then cancelled by Close, or finds the session closed; a          *)
(* connection is open without a goroutine only while the accept goroutine  *)
(* holds it; and the relay closes what its upload waits for before it      *)
(* waits for it.                                                           *)
(*                                                                         *)
(* JobProcess comes last: ProcessesSafe.                                   *)
(***************************************************************************)
EXTENDS JobRunner, PortForward, JobProcess, FiniteSetTheorems, WellFoundedInduction, TLAPS

Dead(j) == proc[j] \in {"none", "gone"}
Fresh(j) == proc[j] = "none"  \* no process was started

\* proc tells how often a process was started.
StartsInv(j) == starts[j] = IF Fresh(j) THEN 0 ELSE 1

\* The receipt directory: what it says of a job that was or was not started.
DiskInv(j) ==
    /\ ~Fresh(j) => receipt[j] = "ok" /\ ~qmark[j]
    /\ receipt[j] = "none" => result[j] = "none" /\ ~scope[j] /\ ~qmark[j]
    /\ ~Dead(j) => scope[j] /\ wspace[j]
    /\ result[j] \in NeverRan => Fresh(j)
    /\ result[j] \in Ran => ~Fresh(j)

\* Only a serving daemon works on jobs, only a recovering one loads receipts.
PhaseInv(j) ==
    /\ up = "down" => j \notin jobs
    /\ up # "serving" => submit[j] = "idle" /\ launch[j] = "idle" /\ fin[j] = "idle"
                         /\ ~In(j, queue) /\ ~waiting[j]
    /\ up = "recovering" => (j \in jobs => Settled(j))
    /\ rec[j] # "idle" => up = "recovering" /\ j \notin jobs
    /\ rec[j] \in {"queued", "settle"} =>
           Fresh(j) /\ result[j] = "none" /\ receipt[j] = "ok"
    /\ rec[j] \in {"workspace", "unmark", "unscope"} => Dead(j)

\* A job the daemon does not know has no goroutine and no reservation; one that
\* it knows has a receipt, unless its admission is being rolled back.
KnownInv(j) ==
    /\ j \notin jobs => /\ submit[j] = "idle" /\ launch[j] = "idle" /\ fin[j] = "idle"
                        /\ ~In(j, queue) /\ ~waiting[j] /\ state[j] = "none"
    /\ j \in jobs => receipt[j] = "ok" \/ rejected[j] \/ Settled(j)

Waits(j) == /\ result[j] = "none" /\ Fresh(j) /\ receipt[j] = "ok"
            /\ wspace[j] /\ fin[j] = "idle" /\ submit[j] = "idle" /\ ~started[j]
            /\ state[j] = "queued"

\* The submit handler owns a job that has not started.
SubmitInv(j) ==
    /\ submit[j] # "idle" =>
           /\ launch[j] = "idle" /\ fin[j] = "idle" /\ state[j] = "staging"
           /\ result[j] = "none" /\ Fresh(j) /\ ~scope[j] /\ ~started[j]
    /\ submit[j] \in {"stage", "extract", "staged", "marked"} =>
           receipt[j] = "ok" /\ In(j, queue)
    /\ submit[j] \in {"extract", "staged", "marked"} => wspace[j]
    /\ submit[j] \in {"abort", "forget", "retain", "record"} => rejected[j] /\ ~killed[j]
    /\ submit[j] \in {"abort", "retain", "record"} => receipt[j] # "none"
    /\ submit[j] = "record" => ~In(j, queue)
    /\ state[j] = "staging" => submit[j] # "idle" \/ fin[j] # "idle"

\* A job in the queue has not started; if it is staged, nobody works on it.
QueueInv(j) ==
    /\ In(j, queue) => Fresh(j) /\ launch[j] = "idle"
    /\ In(j, queue) /\ state[j] = "queued" => Waits(j)
    /\ In(j, queue) /\ Settled(j) => fin[j] = "release"

\* The drain worker, and then the wait goroutine, own a launched job.
LaunchInv(j) ==
    /\ launch[j] \in {"bind", "scoped", "ready"} => Waits(j) /\ ~In(j, queue)
    /\ launch[j] \in {"scoped", "ready"} => scope[j]
    /\ launch[j] = "ready" => ~qmark[j]
    /\ launch[j] = "finalize" => fin[j] # "idle" /\ Fresh(j) /\ ~In(j, queue)
    /\ launch[j] \in {"wait", "cleanup"} =>
           /\ ~Fresh(j) /\ result[j] = "none" /\ scope[j] /\ wspace[j] /\ started[j]
           /\ fin[j] = "idle" /\ submit[j] = "idle" /\ state[j] = "running"
           /\ ~In(j, queue)
    /\ launch[j] = "cleanup" => proc[j] # "alive"

\* The finalizer knows whether the command ran and whether its scope is empty.
FinInv(j) ==
    /\ fin[j] # "idle" => /\ submit[j] = "idle" /\ launch[j] \in {"idle", "finalize"}
                          /\ receipt[j] = "ok" /\ verdict[j] \in Verdicts
    /\ fin[j] \in {"workspace", "scope", "result"} =>
           /\ result[j] = "none"
           /\ \/ verdict[j] \in NeverRan /\ Fresh(j)
              \/ verdict[j] \in Ran /\ ~Fresh(j) /\ started[j]
    /\ fin[j] \in {"workspace", "scope", "result", "publish"} => ~Settled(j)
    /\ fin[j] = "workspace" => (scopeOK[j] => Dead(j))
    /\ fin[j] = "scope" => Dead(j)
    /\ fin[j] \in {"publish", "release"} =>
           (verdict[j] # "ambiguous" => result[j] = verdict[j])
    /\ fin[j] = "release" => state[j] = StateOf(verdict[j])

\* A settled job is left alone, and what was published is on disk.
SettledInv(j) ==
    /\ Settled(j) => /\ submit[j] = "idle" /\ launch[j] \in {"idle", "finalize"}
                     /\ fin[j] \in {"idle", "release"}
    /\ state[j] \in {"exited", "killed"} => result[j] # "none" /\ StateOf(result[j]) = state[j]
    /\ j \in jobs /\ ~Fresh(j) => started[j] \/ Settled(j)
    /\ started[j] => ~Fresh(j)
    /\ done[j] => \/ j \notin jobs
                  \/ Settled(j) /\ fin[j] = "idle" /\ launch[j] = "idle" /\ ~In(j, queue)

\* An accepted cancellation before start.
CancelInv(j) ==
    /\ waiting[j] => killed[j] /\ ~rejected[j] /\ Fresh(j) /\ receipt[j] = "ok"
    /\ acked[j] => /\ Fresh(j) /\ receipt[j] = "ok"
                   /\ submit[j] = "idle" /\ launch[j] = "idle" /\ fin[j] = "idle"
                   /\ ~In(j, queue)

JobInv(j) == /\ DiskInv(j) /\ PhaseInv(j) /\ KnownInv(j) /\ SubmitInv(j) /\ QueueInv(j)
             /\ LaunchInv(j) /\ FinInv(j) /\ SettledInv(j) /\ CancelInv(j)

NoDuplicates(s) == \A a, b \in DOMAIN s : s[a] = s[b] => a = b

IndInv == /\ TypeOK
          /\ NoDuplicates(queue)
          /\ \A j \in Jobs : StartsInv(j) /\ JobInv(j)

----------------------------------------------------------------------------
\* removeQueuedLocked keeps the queue a sequence of jobs.
LEMMA WithoutType ==
    ASSUME NEW s \in Seq(Jobs), NEW j
    PROVE  Without(s, j) \in Seq(Jobs)
<1>1. CASE ~In(j, s)
  BY <1>1 DEF Without
<1>2. CASE In(j, s)
  <2> DEFINE place == CHOOSE i \in DOMAIN s : s[i] = j /\ \A h \in 1 .. i - 1 : s[h] # j
  <2> DEFINE t == [i \in 1 .. Len(s) - 1 |-> IF i < place THEN s[i] ELSE s[i + 1]]
  <2>1. Without(s, j) = t
    BY <1>2 DEF Without
  <2>2. Len(s) \in Nat /\ Len(s) >= 1 /\ DOMAIN s = 1 .. Len(s)
    BY <1>2 DEF In
  <2>3. \A i \in 1 .. Len(s) - 1 : t[i] \in Jobs
    BY <2>2
  <2>4. t \in [1 .. Len(s) - 1 -> Jobs]
    BY <2>3
  <2>5. Len(s) - 1 \in Nat
    BY <2>2
  <2>. QED BY <2>1, <2>4, <2>5
<1>. QED BY <1>1, <1>2

\* The first occurrence of a job in a sequence exists.
LEMMA FirstIndex ==
    ASSUME NEW s \in Seq(Jobs), NEW j, In(j, s), NoDuplicates(s)
    PROVE  \E i \in DOMAIN s : s[i] = j /\ \A h \in 1 .. i - 1 : s[h] # j
<1>1. PICK i \in DOMAIN s : s[i] = j
  BY DEF In
<1>2. \A h \in 1 .. i - 1 : h \in DOMAIN s /\ h # i
  BY <1>1
<1>. QED BY <1>1, <1>2 DEF NoDuplicates

\* removeQueuedLocked removes exactly its job from a queue without duplicates.
LEMMA WithoutMembers ==
    ASSUME NEW s \in Seq(Jobs), NEW j, NoDuplicates(s)
    PROVE  /\ NoDuplicates(Without(s, j))
           /\ \A k : In(k, Without(s, j)) <=> In(k, s) /\ k # j
<1>1. CASE ~In(j, s)
  BY <1>1 DEF Without, In
<1>2. CASE In(j, s)
  <2> DEFINE place == CHOOSE i \in DOMAIN s : s[i] = j /\ \A h \in 1 .. i - 1 : s[h] # j
  <2> DEFINE t == [i \in 1 .. Len(s) - 1 |-> IF i < place THEN s[i] ELSE s[i + 1]]
  <2>1. Without(s, j) = t
    BY <1>2 DEF Without
  <2>2. place \in DOMAIN s /\ s[place] = j
    BY <1>2, FirstIndex
  <2>3. Len(s) \in Nat /\ DOMAIN s = 1 .. Len(s) /\ DOMAIN t = 1 .. Len(s) - 1
    OBVIOUS
  <2> HIDE DEF place
  <2>4. \A i \in DOMAIN t : t[i] = IF i < place THEN s[i] ELSE s[i + 1]
    OBVIOUS
  <2> HIDE DEF t
  <2>5. NoDuplicates(t)
    BY <2>2, <2>3, <2>4 DEF NoDuplicates
  <2>6. ASSUME NEW k PROVE In(k, t) => In(k, s) /\ k # j
    BY <2>2, <2>3, <2>4 DEF NoDuplicates, In
  <2>7. ASSUME NEW k, In(k, s), k # j PROVE In(k, t)
    <3>1. PICK i \in DOMAIN s : s[i] = k
      BY <2>7 DEF In
    <3>2. CASE i < place
      BY <3>1, <3>2, <2>2, <2>3, <2>4 DEF In
    <3>3. CASE i > place
      <4>1. i - 1 \in DOMAIN t /\ t[i - 1] = s[i]
        BY <3>3, <2>2, <2>3, <2>4
      <4>. QED BY <4>1, <3>1 DEF In
    <3>. QED BY <3>1, <3>2, <3>3, <2>2, <2>3, <2>7
  <2>. QED BY <2>1, <2>5, <2>6, <2>7
<1>. QED BY <1>1, <1>2

----------------------------------------------------------------------------
\* The variables of a finalizer and of the submit handler.
FinTypeOK == /\ fin \in [Jobs -> FinPC] /\ verdict \in [Jobs -> Verdicts \cup {"none"}]
             /\ scopeOK \in [Jobs -> BOOLEAN] /\ finals \in [Jobs -> Nat]

RejectTypeOK == /\ FinTypeOK /\ submit \in [Jobs -> SubmitPC]
                /\ rejected \in [Jobs -> BOOLEAN]

\* finalize writes typed values.
LEMMA FinalizeType ==
    ASSUME FinTypeOK, NEW j \in Jobs, NEW v \in Verdicts, NEW ok \in BOOLEAN,
           Finalize(j, v, ok)
    PROVE  FinTypeOK'
BY DEF Finalize, FinTypeOK, FinPC

\* A step that finalizes nothing keeps those types.
LEMMA NoFinalizeType == FinTypeOK /\ NoFinalize => FinTypeOK'
BY DEF NoFinalize, FinTypeOK

\* rejectPreExecution writes typed values.
LEMMA RejectType ==
    ASSUME RejectTypeOK, NEW j \in Jobs, RejectPreExecution(j)
    PROVE  RejectTypeOK'
<1>1. CASE killed[j]
  <2>1. FinTypeOK'
    BY <1>1, FinalizeType DEF RejectPreExecution, RejectTypeOK, Verdicts, NeverRan
  <2>. QED BY <1>1, <2>1 DEF RejectPreExecution, RejectTypeOK, SubmitPC
<1>2. CASE ~killed[j]
  <2>1. FinTypeOK'
    BY <1>2, NoFinalizeType DEF RejectPreExecution, RejectTypeOK
  <2>. QED BY <1>2, <2>1 DEF RejectPreExecution, RejectTypeOK, SubmitPC
<1>. QED BY <1>1, <1>2

\* Every action keeps the variables in their types.
LEMMA TypeStep == TypeOK /\ [Next]_vars => TypeOK'
<1> USE DEF disk, flags, pcs, sched, setup, history
<1> SUFFICES ASSUME TypeOK, [Next]_vars PROVE TypeOK'
  OBVIOUS
<1>f. FinTypeOK /\ RejectTypeOK
  BY DEF TypeOK, FinTypeOK, RejectTypeOK
<1>q. queue \in Seq(Jobs) /\ \A j : Without(queue, j) \in Seq(Jobs)
  BY WithoutType DEF TypeOK
<1>n. loops \in Nat /\ drains \in Nat /\ transfers \in Nat /\ crashes \in Nat
  BY DEF TypeOK
<1>r. /\ rec \in [Jobs -> RecPC] /\ result \in [Jobs -> Verdicts \cup {"none"}]
      /\ submit \in [Jobs -> SubmitPC]
  BY DEF TypeOK
<1>1. ASSUME NEW j \in Jobs, Admit(j) PROVE TypeOK'
  BY <1>1, WithoutType DEF Admit, NewFlags, TypeOK,
     Verdicts, NeverRan, Ran, Terminal, States, SubmitPC, LaunchPC, FinPC, RecPC
<1>2. ASSUME NEW j \in Jobs, StageBegin(j) PROVE TypeOK'
  BY <1>2 DEF StageBegin, TypeOK,
     Verdicts, NeverRan, Ran, Terminal, States, SubmitPC, LaunchPC, FinPC, RecPC
<1>3. ASSUME NEW j \in Jobs, StageFail(j) PROVE TypeOK'
  <2>1. RejectTypeOK'
    BY <1>3, <1>f, RejectType DEF StageFail
  <2>. QED BY <1>3, <2>1 DEF StageFail, TypeOK, RejectTypeOK, FinTypeOK
<1>4. ASSUME NEW j \in Jobs, StageEnd(j) PROVE TypeOK'
  <2>1. FinTypeOK'
    BY <1>4, <1>f, FinalizeType, NoFinalizeType DEF StageEnd, Verdicts, NeverRan
  <2>2. submit' \in [Jobs -> SubmitPC]
    BY <1>4, <1>r DEF StageEnd, SubmitPC
  <2>. QED BY <1>4, <2>1, <2>2 DEF StageEnd, TypeOK, FinTypeOK
<1>5. ASSUME NEW j \in Jobs, WriteQueued(j) PROVE TypeOK'
  BY <1>5 DEF WriteQueued, TypeOK,
     Verdicts, NeverRan, Ran, Terminal, States, SubmitPC, LaunchPC, FinPC, RecPC
<1>6. ASSUME NEW j \in Jobs, WriteQueuedFail(j) PROVE TypeOK'
  <2>1. RejectTypeOK'
    BY <1>6, <1>f, RejectType DEF WriteQueuedFail
  <2>. QED BY <1>6, <2>1 DEF WriteQueuedFail, TypeOK, RejectTypeOK, FinTypeOK
<1>7. ASSUME NEW j \in Jobs, CommitQueued(j) PROVE TypeOK'
  <2>1. FinTypeOK'
    BY <1>7, <1>f, FinalizeType, NoFinalizeType DEF CommitQueued, Verdicts, NeverRan
  <2>2. submit' \in [Jobs -> SubmitPC] /\ state' \in [Jobs -> States]
    BY <1>7 DEF CommitQueued, TypeOK, SubmitPC, States
  <2>3. drains' \in Nat
    <3>1. drains' = drains \/ drains' = drains + 1
      BY <1>7, Zenon DEF CommitQueued
    <3>. QED BY <3>1, <1>n
  <2>4. queue' \in Seq(Jobs)
    BY <1>7, <1>q DEF CommitQueued
  <2>. QED BY <1>7, <2>1, <2>2, <2>3, <2>4 DEF CommitQueued, TypeOK, FinTypeOK
<1>8. ASSUME NEW j \in Jobs, AbortTear(j) PROVE TypeOK'
  BY <1>8 DEF AbortTear, TypeOK,
     Verdicts, NeverRan, Ran, Terminal, States, SubmitPC, LaunchPC, FinPC, RecPC
<1>9. ASSUME NEW j \in Jobs, AbortClean(j) PROVE TypeOK'
  BY <1>9 DEF AbortClean, TypeOK,
     Verdicts, NeverRan, Ran, Terminal, States, SubmitPC, LaunchPC, FinPC, RecPC
<1>10. ASSUME NEW j \in Jobs, AbortCleanFail(j) PROVE TypeOK'
  BY <1>10 DEF AbortCleanFail, TypeOK,
     Verdicts, NeverRan, Ran, Terminal, States, SubmitPC, LaunchPC, FinPC, RecPC
<1>11. ASSUME NEW j \in Jobs, AbortForget(j) PROVE TypeOK'
  BY <1>11, WithoutType DEF AbortForget, TypeOK,
     Verdicts, NeverRan, Ran, Terminal, States, SubmitPC, LaunchPC, FinPC, RecPC
<1>12. ASSUME NEW j \in Jobs, AbortRetain(j) PROVE TypeOK'
  BY <1>12, WithoutType DEF AbortRetain, TypeOK,
     Verdicts, NeverRan, Ran, Terminal, States, SubmitPC, LaunchPC, FinPC, RecPC
<1>13. ASSUME NEW j \in Jobs, AbortRecord(j) PROVE TypeOK'
  BY <1>13 DEF AbortRecord, TypeOK,
     Verdicts, NeverRan, Ran, Terminal, States, SubmitPC, LaunchPC, FinPC, RecPC
<1>14. ASSUME NEW j \in Jobs, WriteScope(j) PROVE TypeOK'
  BY <1>14 DEF WriteScope, TypeOK,
     Verdicts, NeverRan, Ran, Terminal, States, SubmitPC, LaunchPC, FinPC, RecPC
<1>15. ASSUME NEW j \in Jobs, ConsumeQueued(j) PROVE TypeOK'
  BY <1>15 DEF ConsumeQueued, TypeOK,
     Verdicts, NeverRan, Ran, Terminal, States, SubmitPC, LaunchPC, FinPC, RecPC
<1>16. ASSUME NEW j \in Jobs, LaunchFail(j) PROVE TypeOK'
  <2>1. FinTypeOK'
    BY <1>16, <1>f, FinalizeType DEF LaunchFail, Verdicts, NeverRan
  <2>2. launch' \in [Jobs -> LaunchPC] /\ rejected' \in [Jobs -> BOOLEAN]
    BY <1>16 DEF LaunchFail, TypeOK, LaunchPC
  <2>. QED BY <1>16, <2>1, <2>2 DEF LaunchFail, TypeOK, FinTypeOK
<1>17. ASSUME NEW j \in Jobs, LaunchKilled(j) PROVE TypeOK'
  BY <1>17 DEF LaunchKilled, Finalize, TypeOK,
     Verdicts, NeverRan, Ran, Terminal, States, SubmitPC, LaunchPC, FinPC, RecPC
<1>18. ASSUME NEW j \in Jobs, StartProcess(j) PROVE TypeOK'
  BY <1>18 DEF StartProcess, MayStart, TypeOK,
     Verdicts, NeverRan, Ran, Terminal, States, SubmitPC, LaunchPC, FinPC, RecPC
<1>19. ASSUME NEW j \in Jobs, Reap(j) PROVE TypeOK'
  BY <1>19 DEF Reap, TypeOK,
     Verdicts, NeverRan, Ran, Terminal, States, SubmitPC, LaunchPC, FinPC, RecPC
<1>20. ASSUME NEW j \in Jobs, CleanupScope(j) PROVE TypeOK'
  <2>1. PICK ok \in BOOLEAN, v \in Ran :
          /\ proc' = IF ok THEN [proc EXCEPT ![j] = "gone"] ELSE proc
          /\ Finalize(j, v, ok)
    BY <1>20, JobRunnerAssumption DEF CleanupScope
  <2>2. FinTypeOK'
    BY <1>f, <2>1, FinalizeType DEF Verdicts
  <2>3. proc' \in [Jobs -> {"none", "alive", "orphans", "gone"}]
    BY <2>1 DEF TypeOK
  <2>4. launch' \in [Jobs -> LaunchPC]
    BY <1>20 DEF CleanupScope, TypeOK, LaunchPC
  <2>. QED BY <1>20, <2>2, <2>3, <2>4 DEF CleanupScope, TypeOK, FinTypeOK
<1>21. ASSUME NEW j \in Jobs, FinWorkspace(j) PROVE TypeOK'
  BY <1>21 DEF FinWorkspace, TypeOK,
     Verdicts, NeverRan, Ran, Terminal, States, SubmitPC, LaunchPC, FinPC, RecPC
<1>22. ASSUME NEW j \in Jobs, FinScope(j) PROVE TypeOK'
  BY <1>22 DEF FinScope, TypeOK,
     Verdicts, NeverRan, Ran, Terminal, States, SubmitPC, LaunchPC, FinPC, RecPC
<1>23. ASSUME NEW j \in Jobs, FinResult(j) PROVE TypeOK'
  BY <1>23 DEF FinResult, ToPublish, TypeOK,
     Verdicts, NeverRan, Ran, Terminal, States, SubmitPC, LaunchPC, FinPC, RecPC
<1>24. ASSUME NEW j \in Jobs, FinPublish(j) PROVE TypeOK'
  BY <1>24 DEF FinPublish, StateOf, TypeOK,
     Verdicts, NeverRan, Ran, Terminal, States, SubmitPC, LaunchPC, FinPC, RecPC
<1>25. ASSUME NEW j \in Jobs, FinRelease(j) PROVE TypeOK'
  BY <1>25, WithoutType DEF FinRelease, TypeOK,
     Verdicts, NeverRan, Ran, Terminal, States, SubmitPC, LaunchPC, FinPC, RecPC
<1>26. ASSUME NEW j \in Jobs, CancelBeforeStart(j) PROVE TypeOK'
  <2>1. FinTypeOK' /\ queue' \in Seq(Jobs)
    <3>1. CASE OwnsQueued(j)
      BY <1>26, <1>f, <1>q, <3>1, FinalizeType DEF CancelBeforeStart, Verdicts, NeverRan
    <3>2. CASE ~OwnsQueued(j)
      BY <1>26, <1>f, <3>2, NoFinalizeType DEF CancelBeforeStart, TypeOK
    <3>. QED BY <3>1, <3>2
  <2>2. killed' \in [Jobs -> BOOLEAN] /\ waiting' \in [Jobs -> BOOLEAN]
    BY <1>26 DEF CancelBeforeStart, TypeOK
  <2>. QED BY <1>26, <2>1, <2>2 DEF CancelBeforeStart, TypeOK, FinTypeOK
<1>27. ASSUME NEW j \in Jobs, CancelReturn(j) PROVE TypeOK'
  <2>1. acked' \in [Jobs -> BOOLEAN] /\ waiting' \in [Jobs -> BOOLEAN]
    BY <1>27 DEF CancelReturn, TypeOK
  <2>. QED BY <1>27, <2>1 DEF CancelReturn, TypeOK
<1>28. ASSUME NEW j \in Jobs, Terminate(j) PROVE TypeOK'
  BY <1>28 DEF Terminate, TypeOK,
     Verdicts, NeverRan, Ran, Terminal, States, SubmitPC, LaunchPC, FinPC, RecPC
<1>29. ASSUME NEW j \in Jobs, Load(j) PROVE TypeOK'
  BY <1>29 DEF Load, QueuedWithoutScope, TypeOK,
     Verdicts, NeverRan, Ran, Terminal, States, SubmitPC, LaunchPC, FinPC, RecPC
<1>30. ASSUME NEW j \in Jobs, ReconcileQueuedClean(j) PROVE TypeOK'
  BY <1>30 DEF ReconcileQueuedClean, TypeOK,
     Verdicts, NeverRan, Ran, Terminal, States, SubmitPC, LaunchPC, FinPC, RecPC
<1>31. ASSUME NEW j \in Jobs, ReconcileQueued(j) PROVE TypeOK'
  BY <1>31 DEF ReconcileQueued, Register, TypeOK,
     Verdicts, NeverRan, Ran, Terminal, States, SubmitPC, LaunchPC, FinPC, RecPC
<1>32. ASSUME NEW j \in Jobs, RecoverKill(j) PROVE TypeOK'
  <2>1. rec' \in [Jobs -> RecPC]
    BY <1>32, <1>r DEF RecoverKill, RecPC
  <2>2. proc' \in [Jobs -> {"none", "alive", "orphans", "gone"}]
    BY <1>32 DEF RecoverKill, TypeOK
  <2>. QED BY <1>32, <2>1, <2>2 DEF RecoverKill, TypeOK
<1>33. ASSUME NEW j \in Jobs, RecoverWorkspace(j) PROVE TypeOK'
  BY <1>33 DEF RecoverWorkspace, TypeOK,
     Verdicts, NeverRan, Ran, Terminal, States, SubmitPC, LaunchPC, FinPC, RecPC
<1>34. ASSUME NEW j \in Jobs, RecoverUnmark(j) PROVE TypeOK'
  BY <1>34 DEF RecoverUnmark, TypeOK,
     Verdicts, NeverRan, Ran, Terminal, States, SubmitPC, LaunchPC, FinPC, RecPC
<1>35. ASSUME NEW j \in Jobs, RecoverUnscope(j) PROVE TypeOK'
  BY <1>35 DEF RecoverUnscope, TypeOK,
     Verdicts, NeverRan, Ran, Terminal, States, SubmitPC, LaunchPC, FinPC, RecPC
<1>36. ASSUME NEW j \in Jobs, Conclude(j) PROVE TypeOK'
  <2>1. result' \in [Jobs -> Verdicts \cup {"none"}]
    BY <1>36, <1>r DEF Conclude, Verdicts
  <2>2. state' \in [Jobs -> States]
    BY <1>36 DEF Conclude, Register, StateOf, TypeOK, States, Terminal
  <2>3. jobs' \subseteq Jobs /\ done' \in [Jobs -> BOOLEAN] /\ rec' \in [Jobs -> RecPC]
    BY <1>36 DEF Conclude, Register, TypeOK, RecPC
  <2>. QED BY <1>36, <2>1, <2>2, <2>3 DEF Conclude, TypeOK
<1>37. ASSUME NEW j \in Jobs, LeaderExit(j) PROVE TypeOK'
  BY <1>37 DEF LeaderExit, TypeOK,
     Verdicts, NeverRan, Ran, Terminal, States, SubmitPC, LaunchPC, FinPC, RecPC
<1>38. ASSUME NEW j \in Jobs, OrphansExit(j) PROVE TypeOK'
  BY <1>38 DEF OrphansExit, TypeOK,
     Verdicts, NeverRan, Ran, Terminal, States, SubmitPC, LaunchPC, FinPC, RecPC
<1>39. CASE DrainQueue
  BY <1>39 DEF DrainQueue, TypeOK,
     Verdicts, NeverRan, Ran, Terminal, States, SubmitPC, LaunchPC, FinPC, RecPC
<1>40. CASE RunQueueStop
  <2>1. loops > 0 /\ loops' = loops - 1
    BY <1>40, Zenon DEF RunQueueStop
  <2>2. loops' \in Nat
    BY <2>1, <1>n
  <2>3. draining' \in BOOLEAN
    BY <1>40, Zenon DEF RunQueueStop
  <2>. QED BY <1>40, <2>2, <2>3, Zenon DEF RunQueueStop, TypeOK
<1>41. CASE RunQueueTake
  BY <1>41 DEF RunQueueTake, CanTake, TypeOK,
     Verdicts, NeverRan, Ran, Terminal, States, SubmitPC, LaunchPC, FinPC, RecPC
<1>42. CASE Quiesce
  BY <1>42 DEF Quiesce, TypeOK,
     Verdicts, NeverRan, Ran, Terminal, States, SubmitPC, LaunchPC, FinPC, RecPC
<1>43. CASE QuiesceEnd
  BY <1>43 DEF QuiesceEnd, TypeOK,
     Verdicts, NeverRan, Ran, Terminal, States, SubmitPC, LaunchPC, FinPC, RecPC
<1>44. CASE TransferBegin
  BY <1>44 DEF TransferBegin, TypeOK,
     Verdicts, NeverRan, Ran, Terminal, States, SubmitPC, LaunchPC, FinPC, RecPC
<1>45. CASE TransferEnd
  BY <1>45 DEF TransferEnd, TypeOK,
     Verdicts, NeverRan, Ran, Terminal, States, SubmitPC, LaunchPC, FinPC, RecPC
<1>46. CASE Crash
  <2>0. crashes' \in Nat
    <3>1. crashes' = crashes + 1
      BY <1>46, Zenon DEF Crash
    <3>. QED BY <3>1, <1>n
  <2>1. /\ jobs' \subseteq Jobs /\ running' \subseteq Jobs
        /\ queue' = <<>> /\ arrivals' = <<>>
        /\ up' \in {"down", "recovering", "serving"} 
    BY <1>46, Zenon DEF Crash
  <2>4. draining' \in BOOLEAN /\ quiesced' \in BOOLEAN
    BY <1>46, Zenon DEF Crash
  <2>5. loops' = 0 /\ drains' = 0 /\ transfers' = 0
    BY <1>46, Zenon DEF Crash
  <2>7. queue' \in Seq(Jobs) /\ arrivals' \in Seq(Jobs)
    BY <2>1
  <2>6. loops' \in Nat /\ drains' \in Nat /\ transfers' \in Nat
    BY <2>5
  <2>2. /\ state' \in [Jobs -> States] /\ verdict' \in [Jobs -> Verdicts \cup {"none"}]
        /\ submit' \in [Jobs -> SubmitPC] /\ launch' \in [Jobs -> LaunchPC]
        /\ fin' \in [Jobs -> FinPC] /\ rec' \in [Jobs -> RecPC]
        /\ finals' \in [Jobs -> Nat]
    BY <1>46 DEF Crash, All, States, Verdicts, SubmitPC, LaunchPC, FinPC, RecPC
  <2>3. /\ killed' \in [Jobs -> BOOLEAN] /\ started' \in [Jobs -> BOOLEAN]
        /\ reaped' \in [Jobs -> BOOLEAN] /\ rejected' \in [Jobs -> BOOLEAN]
        /\ done' \in [Jobs -> BOOLEAN] /\ waiting' \in [Jobs -> BOOLEAN]
        /\ scopeOK' \in [Jobs -> BOOLEAN]
    BY <1>46 DEF Crash, All
  <2>. QED BY <1>46, <2>0, <2>1, <2>2, <2>3, <2>4, <2>6, <2>7 DEF Crash, TypeOK
<1>47. CASE Restart
  BY <1>47 DEF Restart, TypeOK,
     Verdicts, NeverRan, Ran, Terminal, States, SubmitPC, LaunchPC, FinPC, RecPC
<1>48. CASE Serve
  BY <1>48 DEF Serve, TypeOK,
     Verdicts, NeverRan, Ran, Terminal, States, SubmitPC, LaunchPC, FinPC, RecPC
<1>49. CASE UNCHANGED vars
  BY <1>49 DEF vars, TypeOK
<1>. QED
  BY <1>1, <1>2, <1>3, <1>4, <1>5, <1>6, <1>7, <1>8, <1>9, <1>10, <1>11, <1>12, <1>13,
     <1>14, <1>15, <1>16, <1>17, <1>18, <1>19, <1>20, <1>21, <1>22, <1>23, <1>24, <1>25,
     <1>26, <1>27, <1>28, <1>29, <1>30, <1>31, <1>32, <1>33, <1>34, <1>35, <1>36, <1>37,
     <1>38, <1>39, <1>40, <1>41, <1>42, <1>43, <1>44, <1>45, <1>46, <1>47, <1>48, <1>49
  DEF Next, Submitting, Launching, Finalizing, Controlling, Recovering, Scheduling

----------------------------------------------------------------------------
(***************************************************************************)
(* Preservation of the invariant.  A step of one job's goroutines must     *)
(* keep JobInv of that job (OwnStep) and leave every other job alone       *)
(* (OtherStep); the scheduler, setup and crash steps are GlobalStep.       *)
(***************************************************************************)
JobStep(j) == \/ Admit(j) \/ Submitting(j) \/ Launching(j) \/ Finalizing(j)
              \/ Controlling(j) \/ Recovering(j) \/ LeaderExit(j) \/ OrphansExit(j)

GlobalStep == \/ Scheduling \/ Quiesce \/ QuiesceEnd \/ TransferBegin \/ TransferEnd
              \/ Crash \/ Restart \/ Serve

\* A step is one of a job, or of the daemon as a whole.
LEMMA NextSplit == Next <=> (\E j \in Jobs : JobStep(j)) \/ GlobalStep
BY DEF Next, JobStep, GlobalStep

\* What admission and removal do to membership of the queue.
LEMMA AppendMembers ==
    ASSUME NEW s \in Seq(Jobs), NEW j \in Jobs
    PROVE  \A k : In(k, Append(s, j)) <=> In(k, s) \/ k = j
BY DEF In

\* What taking the head of the queue does to membership.
LEMMA TailMembers ==
    ASSUME NEW s \in Seq(Jobs), s # <<>>, NoDuplicates(s)
    PROVE  /\ Head(s) \in Jobs /\ In(Head(s), s)
           /\ NoDuplicates(Tail(s))
           /\ \A k : In(k, Tail(s)) <=> In(k, s) /\ k # Head(s)
<1>1. /\ Len(s) \in Nat /\ Len(s) >= 1 /\ DOMAIN s = 1 .. Len(s) /\ Head(s) = s[1]
      /\ DOMAIN Tail(s) = 1 .. Len(s) - 1
      /\ \A i \in 1 .. Len(s) - 1 : Tail(s)[i] = s[i + 1]
  OBVIOUS
<1>2. Head(s) \in Jobs /\ In(Head(s), s)
  BY <1>1 DEF In
<1>3. NoDuplicates(Tail(s))
  BY <1>1 DEF NoDuplicates
<1>4. ASSUME NEW k, In(k, Tail(s)) PROVE In(k, s) /\ k # Head(s)
  <2>1. PICK i \in 1 .. Len(s) - 1 : s[i + 1] = k
    BY <1>1, <1>4 DEF In
  <2>2. i + 1 \in DOMAIN s /\ i + 1 # 1
    BY <1>1, <2>1
  <2>. QED BY <1>1, <2>1, <2>2 DEF In, NoDuplicates
<1>5. ASSUME NEW k, In(k, s), k # Head(s) PROVE In(k, Tail(s))
  <2>1. PICK i \in DOMAIN s : s[i] = k
    BY <1>5 DEF In
  <2>2. i - 1 \in 1 .. Len(s) - 1 /\ Tail(s)[i - 1] = k
    BY <1>1, <1>5, <2>1
  <2>. QED BY <1>1, <2>2 DEF In
<1>. QED BY <1>2, <1>3, <1>4, <1>5

\* The step of a goroutine keeps the invariant of its own job.
LEMMA OwnStep ==
    ASSUME TypeOK, NoDuplicates(queue), NEW j \in Jobs, JobInv(j), JobStep(j)
    PROVE  JobInv(j)'
<1> USE DEF TypeOK, JobInv, DiskInv, PhaseInv, KnownInv, SubmitInv, QueueInv, LaunchInv, FinInv, SettledInv,
            CancelInv, Waits, Dead, Fresh, Settled, Verdicts, NeverRan, Ran, Terminal,
            StateOf, disk, flags, pcs, sched, setup, history
<1>q. queue \in Seq(Jobs)
  OBVIOUS
<1>w. \A k : In(k, Without(queue, j)) <=> In(k, queue) /\ k # j
  BY <1>q, WithoutMembers
<1>a. \A k : In(k, Append(queue, j)) <=> In(k, queue) \/ k = j
  BY <1>q, AppendMembers
<1>1. CASE Admit(j)
  BY <1>1, <1>a DEF Admit, Known, NewFlags
<1>2. CASE StageBegin(j)
  BY <1>2 DEF StageBegin
<1>3. CASE StageFail(j)
  BY <1>3 DEF StageFail, RejectPreExecution, Finalize, NoFinalize
<1>4. CASE StageEnd(j)
  BY <1>4 DEF StageEnd, Finalize, NoFinalize
<1>5. CASE WriteQueued(j)
  BY <1>5 DEF WriteQueued
<1>6. CASE WriteQueuedFail(j)
  BY <1>6 DEF WriteQueuedFail, RejectPreExecution, Finalize, NoFinalize
<1>7. CASE CommitQueued(j)
  BY <1>7, <1>w DEF CommitQueued, Finalize, NoFinalize
<1>8. CASE AbortTear(j)
  BY <1>8 DEF AbortTear
<1>9. CASE AbortClean(j)
  BY <1>9 DEF AbortClean
<1>10. CASE AbortCleanFail(j)
  BY <1>10 DEF AbortCleanFail
<1>11. CASE AbortForget(j)
  BY <1>11, <1>w DEF AbortForget
<1>12. CASE AbortRetain(j)
  BY <1>12, <1>w DEF AbortRetain
<1>13. CASE AbortRecord(j)
  BY <1>13 DEF AbortRecord
<1>14. CASE WriteScope(j)
  BY <1>14 DEF WriteScope
<1>15. CASE ConsumeQueued(j)
  BY <1>15 DEF ConsumeQueued
<1>16. CASE LaunchFail(j)
  BY <1>16 DEF LaunchFail, Finalize
<1>17. CASE LaunchKilled(j)
  BY <1>17 DEF LaunchKilled, Finalize
<1>18. CASE StartProcess(j)
  BY <1>18 DEF StartProcess, MayStart
<1>19. CASE Reap(j)
  BY <1>19 DEF Reap
<1>20. CASE CleanupScope(j)
  BY <1>20 DEF CleanupScope, Finalize
<1>21. CASE FinWorkspace(j)
  BY <1>21 DEF FinWorkspace
<1>22. CASE FinScope(j)
  BY <1>22 DEF FinScope
<1>23. CASE FinResult(j)
  BY <1>23 DEF FinResult, ToPublish
<1>24. CASE FinPublish(j)
  BY <1>24 DEF FinPublish
<1>25. CASE FinRelease(j)
  BY <1>25, <1>w DEF FinRelease
<1>26. CASE CancelBeforeStart(j)
  <2>1. CASE OwnsQueued(j)
    BY <1>26, <1>w, <2>1 DEF CancelBeforeStart, OwnsQueued, Finalize
  <2>2. CASE ~OwnsQueued(j)
    BY <1>26, <2>2 DEF CancelBeforeStart, NoFinalize
  <2>. QED BY <2>1, <2>2
<1>27. CASE CancelReturn(j)
  BY <1>27 DEF CancelReturn
<1>28. CASE Terminate(j)
  BY <1>28 DEF Terminate
<1>29. CASE Load(j)
  BY <1>29 DEF Load, QueuedWithoutScope
<1>30. CASE ReconcileQueuedClean(j)
  BY <1>30 DEF ReconcileQueuedClean
<1>31. CASE ReconcileQueued(j)
  BY <1>31 DEF ReconcileQueued, Register
<1>32. CASE RecoverKill(j)
  BY <1>32 DEF RecoverKill
<1>33. CASE RecoverWorkspace(j)
  BY <1>33 DEF RecoverWorkspace
<1>34. CASE RecoverUnmark(j)
  BY <1>34 DEF RecoverUnmark
<1>35. CASE RecoverUnscope(j)
  BY <1>35 DEF RecoverUnscope
<1>36. CASE Conclude(j)
  BY <1>36 DEF Conclude, Register
<1>37. CASE LeaderExit(j)
  BY <1>37 DEF LeaderExit
<1>38. CASE OrphansExit(j)
  BY <1>38 DEF OrphansExit
<1>. QED
  BY <1>1, <1>2, <1>3, <1>4, <1>5, <1>6, <1>7, <1>8, <1>9, <1>10, <1>11, <1>12, <1>13,
     <1>14, <1>15, <1>16, <1>17, <1>18, <1>19, <1>20, <1>21, <1>22, <1>23, <1>24, <1>25,
     <1>26, <1>27, <1>28, <1>29, <1>30, <1>31, <1>32, <1>33, <1>34, <1>35, <1>36, <1>37,
     <1>38 DEF JobStep, Submitting, Launching, Finalizing, Controlling, Recovering

\* It leaves the other jobs alone.
LEMMA OtherStep ==
    ASSUME TypeOK, NoDuplicates(queue), NEW j \in Jobs, NEW k \in Jobs, k # j,
           JobInv(k), JobStep(j)
    PROVE  JobInv(k)'
<1> USE DEF TypeOK, JobInv, DiskInv, PhaseInv, KnownInv, SubmitInv, QueueInv, LaunchInv, FinInv, SettledInv,
            CancelInv, Waits, Dead, Fresh, Settled, Verdicts, NeverRan, Ran, Terminal,
            StateOf, disk, flags, pcs, sched, setup, history
<1>q. queue \in Seq(Jobs)
  OBVIOUS
<1>w. In(k, Without(queue, j)) <=> In(k, queue)
  BY <1>q, WithoutMembers
<1>a. In(k, Append(queue, j)) <=> In(k, queue)
  BY <1>q, AppendMembers
<1>1. CASE Admit(j)
  BY <1>1, <1>a DEF Admit, Known, NewFlags
<1>2. CASE StageBegin(j)
  BY <1>2 DEF StageBegin
<1>3. CASE StageFail(j)
  <2>1. CASE killed[j]
    BY <1>3, <2>1 DEF StageFail, RejectPreExecution, Finalize
  <2>2. CASE ~killed[j]
    BY <1>3, <2>2 DEF StageFail, RejectPreExecution, NoFinalize
  <2>. QED BY <2>1, <2>2
<1>4. CASE StageEnd(j)
  BY <1>4 DEF StageEnd, Finalize, NoFinalize
<1>5. CASE WriteQueued(j)
  BY <1>5 DEF WriteQueued
<1>6. CASE WriteQueuedFail(j)
  BY <1>6 DEF WriteQueuedFail, RejectPreExecution, Finalize, NoFinalize
<1>7. CASE CommitQueued(j)
  BY <1>7, <1>w DEF CommitQueued, Finalize, NoFinalize
<1>8. CASE AbortTear(j)
  BY <1>8 DEF AbortTear
<1>9. CASE AbortClean(j)
  BY <1>9 DEF AbortClean
<1>10. CASE AbortCleanFail(j)
  BY <1>10 DEF AbortCleanFail
<1>11. CASE AbortForget(j)
  BY <1>11, <1>w DEF AbortForget
<1>12. CASE AbortRetain(j)
  BY <1>12, <1>w DEF AbortRetain
<1>13. CASE AbortRecord(j)
  BY <1>13 DEF AbortRecord
<1>14. CASE WriteScope(j)
  BY <1>14 DEF WriteScope
<1>15. CASE ConsumeQueued(j)
  BY <1>15 DEF ConsumeQueued
<1>16. CASE LaunchFail(j)
  BY <1>16 DEF LaunchFail, Finalize
<1>17. CASE LaunchKilled(j)
  BY <1>17 DEF LaunchKilled, Finalize
<1>18. CASE StartProcess(j)
  BY <1>18 DEF StartProcess, MayStart
<1>19. CASE Reap(j)
  BY <1>19 DEF Reap
<1>20. CASE CleanupScope(j)
  BY <1>20 DEF CleanupScope, Finalize
<1>21. CASE FinWorkspace(j)
  BY <1>21 DEF FinWorkspace
<1>22. CASE FinScope(j)
  BY <1>22 DEF FinScope
<1>23. CASE FinResult(j)
  BY <1>23 DEF FinResult, ToPublish
<1>24. CASE FinPublish(j)
  BY <1>24 DEF FinPublish
<1>25. CASE FinRelease(j)
  BY <1>25, <1>w DEF FinRelease
<1>26. CASE CancelBeforeStart(j)
  BY <1>26, <1>w DEF CancelBeforeStart, OwnsQueued, Finalize, NoFinalize
<1>27. CASE CancelReturn(j)
  BY <1>27 DEF CancelReturn
<1>28. CASE Terminate(j)
  BY <1>28 DEF Terminate
<1>29. CASE Load(j)
  BY <1>29 DEF Load, QueuedWithoutScope
<1>30. CASE ReconcileQueuedClean(j)
  BY <1>30 DEF ReconcileQueuedClean
<1>31. CASE ReconcileQueued(j)
  BY <1>31 DEF ReconcileQueued, Register
<1>32. CASE RecoverKill(j)
  BY <1>32 DEF RecoverKill
<1>33. CASE RecoverWorkspace(j)
  BY <1>33 DEF RecoverWorkspace
<1>34. CASE RecoverUnmark(j)
  BY <1>34 DEF RecoverUnmark
<1>35. CASE RecoverUnscope(j)
  BY <1>35 DEF RecoverUnscope
<1>36. CASE Conclude(j)
  BY <1>36 DEF Conclude, Register
<1>37. CASE LeaderExit(j)
  BY <1>37 DEF LeaderExit
<1>38. CASE OrphansExit(j)
  BY <1>38 DEF OrphansExit
<1>. QED
  BY <1>1, <1>2, <1>3, <1>4, <1>5, <1>6, <1>7, <1>8, <1>9, <1>10, <1>11, <1>12, <1>13,
     <1>14, <1>15, <1>16, <1>17, <1>18, <1>19, <1>20, <1>21, <1>22, <1>23, <1>24, <1>25,
     <1>26, <1>27, <1>28, <1>29, <1>30, <1>31, <1>32, <1>33, <1>34, <1>35, <1>36, <1>37,
     <1>38 DEF JobStep, Submitting, Launching, Finalizing, Controlling, Recovering

\* The scheduler, setup, a crash and a restart keep the invariant of every job.
LEMMA GlobalKeeps ==
    ASSUME TypeOK, NoDuplicates(queue), NEW k \in Jobs, JobInv(k), GlobalStep
    PROVE  JobInv(k)'
<1> USE DEF TypeOK, JobInv, DiskInv, PhaseInv, KnownInv, SubmitInv, QueueInv, LaunchInv, FinInv, SettledInv,
            CancelInv, Waits, Dead, Fresh, Settled, Verdicts, NeverRan, Ran, Terminal,
            StateOf, disk, flags, pcs, sched, setup, history
<1>1. CASE RunQueueTake
  <2>1. queue # <<>> /\ state[Head(queue)] = "queued"
    BY <1>1 DEF RunQueueTake, CanTake
  <2>2. In(k, Tail(queue)) <=> In(k, queue) /\ k # Head(queue)
    BY <2>1, TailMembers
  <2>3. Head(queue) \in Jobs /\ In(Head(queue), queue)
    BY <2>1, TailMembers
  <2>. QED BY <1>1, <2>1, <2>2, <2>3 DEF RunQueueTake
<1>2. CASE DrainQueue
  BY <1>2 DEF DrainQueue
<1>3. CASE RunQueueStop
  BY <1>3 DEF RunQueueStop
<1>4. CASE Quiesce
  BY <1>4 DEF Quiesce
<1>5. CASE QuiesceEnd
  BY <1>5 DEF QuiesceEnd
<1>6. CASE TransferBegin
  BY <1>6 DEF TransferBegin
<1>7. CASE TransferEnd
  BY <1>7 DEF TransferEnd
<1>8. CASE Crash
  BY <1>8 DEF Crash, All, In
<1>9. CASE Restart
  BY <1>9 DEF Restart
<1>10. CASE Serve
  BY <1>10 DEF Serve
<1>. QED BY <1>1, <1>2, <1>3, <1>4, <1>5, <1>6, <1>7, <1>8, <1>9, <1>10
         DEF GlobalStep, Scheduling

----------------------------------------------------------------------------
\* The queue never holds a job twice: admission appends a job that is not in it.
LEMMA QueueStep ==
    ASSUME TypeOK, NoDuplicates(queue), \A j \in Jobs : KnownInv(j), [Next]_vars
    PROVE  NoDuplicates(queue)'
<1> USE DEF disk, flags, pcs, sched, setup, history
<1>q. queue \in Seq(Jobs)
  BY DEF TypeOK
<1>1. ASSUME NEW j \in Jobs, Admit(j) PROVE NoDuplicates(queue)'
  <2>1. ~In(j, queue) /\ queue' = Append(queue, j)
    BY <1>1 DEF Admit, Known, KnownInv
  <2>. QED BY <1>q, <2>1 DEF NoDuplicates, In
<1>2. ASSUME NEW j \in Jobs, queue' \in {queue, Without(queue, j)} PROVE NoDuplicates(queue)'
  BY <1>q, <1>2, WithoutMembers
<1>3. ASSUME NEW j \in Jobs, JobStep(j), ~Admit(j)
      PROVE  queue' \in {queue, Without(queue, j)}
  <2>1. CASE Submitting(j)
    BY <2>1 DEF Submitting, StageBegin, StageFail, StageEnd, WriteQueued, WriteQueuedFail,
       CommitQueued, AbortTear, AbortClean, AbortCleanFail, AbortForget, AbortRetain,
       AbortRecord
  <2>2. CASE Launching(j)
    BY <2>2 DEF Launching, WriteScope, ConsumeQueued, LaunchFail, LaunchKilled,
       StartProcess, Reap, CleanupScope
  <2>3. CASE Finalizing(j)
    BY <2>3 DEF Finalizing, FinWorkspace, FinScope, FinResult, FinPublish, FinRelease
  <2>4. CASE Controlling(j)
    BY <2>4 DEF Controlling, CancelBeforeStart, CancelReturn, Terminate
  <2>5. CASE Recovering(j)
    BY <2>5 DEF Recovering, Load, ReconcileQueuedClean, ReconcileQueued, RecoverKill,
       RecoverWorkspace, RecoverUnmark, RecoverUnscope, Conclude
  <2>6. CASE LeaderExit(j) \/ OrphansExit(j)
    BY <2>6 DEF LeaderExit, OrphansExit
  <2>. QED BY <1>3, <2>1, <2>2, <2>3, <2>4, <2>5, <2>6 DEF JobStep
<1>4. CASE RunQueueTake
  BY <1>q, <1>4, TailMembers DEF RunQueueTake, CanTake
<1>5. CASE Crash
  <2>1. queue' = <<>>
    BY <1>5 DEF Crash
  <2>. QED BY <2>1 DEF NoDuplicates
<1>6. CASE GlobalStep /\ ~RunQueueTake /\ ~Crash
  <2>1. queue' = queue
    BY <1>6 DEF GlobalStep, Scheduling, DrainQueue, RunQueueStop, Quiesce, QuiesceEnd,
       TransferBegin, TransferEnd, Restart, Serve
  <2>. QED BY <2>1
<1>7. CASE UNCHANGED vars
  <2>1. queue' = queue
    BY <1>7 DEF vars
  <2>. QED BY <2>1
<1>. QED BY <1>1, <1>2, <1>3, <1>4, <1>5, <1>6, <1>7, NextSplit

----------------------------------------------------------------------------
(***************************************************************************)
(* What the outside world sees of a step: nothing, a process start, a      *)
(* process that ends, or a first verdict that agrees with the process.     *)
(***************************************************************************)
Silent == UNCHANGED <<starts, proc, result>>

Ends(j) == /\ UNCHANGED <<starts, result>>
           /\ proc[j] # "none"
           /\ \E p \in {"orphans", "gone"} : proc' = [proc EXCEPT ![j] = p]

Settles(j, v) == /\ UNCHANGED <<starts, proc>>
                 /\ result[j] = "none"
                 /\ v \in NeverRan => Fresh(j)
                 /\ v \in Ran => ~Fresh(j)
                 /\ result' = [result EXCEPT ![j] = v]

Visible(j) == StartProcess(j) \/ Ends(j) \/ \E v \in Verdicts : Settles(j, v)

\* A step of a job is invisible to its client or is one step of the contract.
LEMMA VisibleJob ==
    ASSUME TypeOK, NEW j \in Jobs, JobInv(j), JobStep(j)
    PROVE  Silent \/ Visible(j)
<1> USE DEF disk, flags, pcs, sched, setup, history
<1>t. result \in [Jobs -> Verdicts \cup {"none"}] /\ proc \in [Jobs -> {"none", "alive", "orphans", "gone"}]
      /\ verdict \in [Jobs -> Verdicts \cup {"none"}]
  BY DEF TypeOK
<1>1. CASE Admit(j)
  BY <1>1 DEF Admit, Silent
<1>2. CASE Submitting(j)
  <2>1. CASE AbortRecord(j)
    <3>1. result[j] = "none" /\ UNCHANGED <<starts, proc>>
      BY <2>1 DEF AbortRecord, JobInv, SubmitInv
    <3>2. result' = result \/ result' = [result EXCEPT ![j] = "ambiguous"]
      BY <2>1, Zenon DEF AbortRecord
    <3>. QED BY <3>1, <3>2 DEF Silent, Visible, Settles, Verdicts, NeverRan, Ran
  <2>. QED
    BY <1>2, <2>1 DEF Submitting, StageBegin, StageFail, StageEnd, WriteQueued,
       WriteQueuedFail, CommitQueued, AbortTear, AbortClean, AbortCleanFail, AbortForget,
       AbortRetain, Silent
<1>3. CASE Launching(j)
  <2>1. CASE StartProcess(j)
    BY <2>1 DEF Visible
  <2>2. CASE CleanupScope(j)
    <3>1. proc[j] # "none" /\ UNCHANGED <<starts, result>>
      BY <2>2 DEF CleanupScope, JobInv, LaunchInv, Fresh
    <3>2. proc' = proc \/ proc' = [proc EXCEPT ![j] = "gone"]
      BY <2>2, Zenon DEF CleanupScope
    <3>. QED BY <3>1, <3>2 DEF Silent, Visible, Ends
  <2>. QED BY <1>3, <2>1, <2>2 DEF Launching, WriteScope, ConsumeQueued, LaunchFail,
           LaunchKilled, Reap, Silent
<1>4. CASE Finalizing(j)
  <2>1. CASE FinResult(j)
    <3>1. UNCHANGED <<starts, proc>> /\ fin[j] = "result"
      BY <2>1 DEF FinResult
    <3>2. result[j] = "none" /\ \/ verdict[j] \in NeverRan /\ Fresh(j)
                                \/ verdict[j] \in Ran /\ ~Fresh(j)
      BY <3>1 DEF JobInv, FinInv
    <3>3. result' = result \/ result' = [result EXCEPT ![j] = verdict[j]]
      BY <2>1, Zenon DEF FinResult
    <3>4. CASE result' = result
      BY <3>1, <3>4 DEF Silent
    <3>5. CASE result' = [result EXCEPT ![j] = verdict[j]]
      <4>1. Settles(j, verdict[j]) /\ verdict[j] \in Verdicts
        BY <3>1, <3>2, <3>5 DEF Settles, Verdicts, NeverRan, Ran
      <4>. QED BY <4>1 DEF Visible
    <3>. QED BY <3>3, <3>4, <3>5
  <2>. QED BY <1>4, <2>1 DEF Finalizing, FinWorkspace, FinScope, FinPublish, FinRelease, Silent
<1>5. CASE Controlling(j)
  BY <1>5 DEF Controlling, CancelBeforeStart, CancelReturn, Terminate, Silent
<1>6. CASE Recovering(j)
  <2>1. CASE ReconcileQueued(j)
    <3>1. result[j] = "none" /\ Fresh(j) /\ UNCHANGED <<starts, proc>>
      BY <2>1 DEF ReconcileQueued, JobInv, PhaseInv
    <3>2. result' = result \/ result' = [result EXCEPT ![j] = "never_exited"]
      BY <2>1, Zenon DEF ReconcileQueued
    <3>. QED BY <3>1, <3>2 DEF Silent, Visible, Settles, Verdicts, NeverRan, Ran
  <2>2. CASE RecoverKill(j)
    <3>1. UNCHANGED <<starts, result>>
      BY <2>2 DEF RecoverKill
    <3>2. proc' = proc \/ (proc[j] # "none" /\ proc' = [proc EXCEPT ![j] = "gone"])
      BY <2>2, Zenon DEF RecoverKill
    <3>. QED BY <3>1, <3>2 DEF Silent, Visible, Ends
  <2>3. CASE Conclude(j)
    <3>1. UNCHANGED <<starts, proc>>
      BY <2>3 DEF Conclude
    <3>2. result' = result \/ (result[j] = "none" /\ result' = [result EXCEPT ![j] = "ambiguous"])
      BY <2>3, Zenon DEF Conclude
    <3>. QED BY <3>1, <3>2 DEF Silent, Visible, Settles, Verdicts, NeverRan, Ran
  <2>. QED BY <1>6, <2>1, <2>2, <2>3 DEF Recovering, Load, ReconcileQueuedClean,
           RecoverWorkspace, RecoverUnmark, RecoverUnscope, Silent
<1>7. CASE LeaderExit(j) \/ OrphansExit(j)
  BY <1>7 DEF LeaderExit, OrphansExit, Visible, Ends
<1>. QED BY <1>1, <1>2, <1>3, <1>4, <1>5, <1>6, <1>7 DEF JobStep

\* The same for every step of the system.
LEMMA VisibleStep ==
    ASSUME IndInv, [Next]_vars
    PROVE  Silent \/ \E j \in Jobs : Visible(j)
<1>1. ASSUME NEW j \in Jobs, JobStep(j) PROVE Silent \/ Visible(j)
  BY <1>1, VisibleJob DEF IndInv
<1>2. CASE GlobalStep
  BY <1>2 DEF GlobalStep, Scheduling, DrainQueue, RunQueueStop, RunQueueTake, Quiesce,
     QuiesceEnd, TransferBegin, TransferEnd, Crash, Restart, Serve, Silent, disk, history
<1>3. CASE UNCHANGED vars
  BY <1>3 DEF vars, Silent, disk, history
<1>. QED BY <1>1, <1>2, <1>3, NextSplit

\* A process start is counted when proc leaves "none", which it does once.
LEMMA StartsStep ==
    ASSUME IndInv, [Next]_vars, NEW k \in Jobs
    PROVE  StartsInv(k)'
<1>t. starts \in [Jobs -> Nat] /\ proc \in [Jobs -> {"none", "alive", "orphans", "gone"}]
  BY DEF IndInv, TypeOK
<1>k. StartsInv(k)
  BY DEF IndInv
<1>1. CASE Silent
  BY <1>1, <1>k DEF Silent, StartsInv, Fresh
<1>2. ASSUME NEW j \in Jobs, StartProcess(j) PROVE StartsInv(k)'
  <2>1. proc[j] = "none"
    BY <1>2 DEF StartProcess, MayStart, IndInv, JobInv, LaunchInv, Waits, Fresh
  <2>2. StartsInv(j)
    BY DEF IndInv
  <2>3. proc' = [proc EXCEPT ![j] = "alive"] /\ starts' = [starts EXCEPT ![j] = @ + 1]
    BY <1>2 DEF StartProcess
  <2>. QED BY <1>t, <1>k, <2>1, <2>2, <2>3 DEF StartsInv, Fresh
<1>3. ASSUME NEW j \in Jobs, Ends(j) PROVE StartsInv(k)'
  BY <1>t, <1>k, <1>3 DEF Ends, StartsInv, Fresh
<1>4. ASSUME NEW j \in Jobs, NEW v, Settles(j, v) PROVE StartsInv(k)'
  BY <1>k, <1>4 DEF Settles, StartsInv, Fresh
<1>. QED BY <1>1, <1>2, <1>3, <1>4, VisibleStep DEF Visible

----------------------------------------------------------------------------
\* The invariant is inductive.
LEMMA IndInvInit == Init => IndInv
<1> SUFFICES ASSUME Init PROVE IndInv
  OBVIOUS
<1>1. TypeOK
  <2>1. queue \in Seq(Jobs) /\ arrivals \in Seq(Jobs)
    BY DEF Init
  <2>2. loops \in Nat /\ drains \in Nat /\ transfers \in Nat /\ crashes \in Nat
        /\ finals \in [Jobs -> Nat] /\ starts \in [Jobs -> Nat]
    BY DEF Init, All
  <2>3. /\ qmark \in [Jobs -> BOOLEAN] /\ scope \in [Jobs -> BOOLEAN]
        /\ wspace \in [Jobs -> BOOLEAN] /\ killed \in [Jobs -> BOOLEAN]
        /\ started \in [Jobs -> BOOLEAN] /\ reaped \in [Jobs -> BOOLEAN]
        /\ rejected \in [Jobs -> BOOLEAN] /\ done \in [Jobs -> BOOLEAN]
        /\ waiting \in [Jobs -> BOOLEAN] /\ scopeOK \in [Jobs -> BOOLEAN]
        /\ acked \in [Jobs -> BOOLEAN] /\ draining \in BOOLEAN /\ quiesced \in BOOLEAN
    BY DEF Init, All
  <2>4. /\ receipt \in [Jobs -> {"none", "ok", "torn"}]
        /\ result \in [Jobs -> Verdicts \cup {"none"}]
        /\ proc \in [Jobs -> {"none", "alive", "orphans", "gone"}]
        /\ state \in [Jobs -> States] /\ verdict \in [Jobs -> Verdicts \cup {"none"}]
    BY DEF Init, All, States
  <2>5. /\ submit \in [Jobs -> SubmitPC] /\ launch \in [Jobs -> LaunchPC]
        /\ fin \in [Jobs -> FinPC] /\ rec \in [Jobs -> RecPC]
    BY DEF Init, All, SubmitPC, LaunchPC, FinPC, RecPC
  <2>6. up \in {"down", "recovering", "serving"} /\ jobs \subseteq Jobs /\ running \subseteq Jobs
    BY DEF Init
  <2>. QED BY <2>1, <2>2, <2>3, <2>4, <2>5, <2>6, Zenon DEF TypeOK
<1>2. NoDuplicates(queue)
  BY DEF Init, NoDuplicates
<1>3. ASSUME NEW j \in Jobs PROVE StartsInv(j)
  BY DEF Init, All, StartsInv, Fresh
<1>4. ASSUME NEW j \in Jobs PROVE JobInv(j)
  <2>1. ~In(j, queue)
    BY DEF Init, In
  <2>. QED BY <2>1 DEF Init, All, JobInv, DiskInv, PhaseInv, KnownInv, SubmitInv, QueueInv,
           LaunchInv, FinInv, SettledInv, CancelInv, Dead, Fresh, Settled, NeverRan, Ran,
           Terminal
<1>. QED BY <1>1, <1>2, <1>3, <1>4 DEF IndInv

\* Every step keeps the inductive invariant.
LEMMA IndInvStep == IndInv /\ [Next]_vars => IndInv'
<1> SUFFICES ASSUME IndInv, [Next]_vars PROVE IndInv'
  OBVIOUS
<1>1. TypeOK'
  BY TypeStep DEF IndInv
<1>2. NoDuplicates(queue)'
  BY QueueStep DEF IndInv, JobInv
<1>3. ASSUME NEW k \in Jobs PROVE StartsInv(k)'
  BY StartsStep
<1>4. ASSUME NEW k \in Jobs PROVE JobInv(k)'
  <2>1. ASSUME NEW j \in Jobs, JobStep(j) PROVE JobInv(k)'
    BY <2>1, OwnStep, OtherStep DEF IndInv
  <2>2. CASE GlobalStep
    BY <2>2, GlobalKeeps DEF IndInv
  <2>3. CASE UNCHANGED vars
    BY <2>3 DEF IndInv, vars, disk, flags, pcs, sched, setup, history, JobInv, DiskInv,
       PhaseInv, KnownInv, SubmitInv, QueueInv, LaunchInv, FinInv, SettledInv, CancelInv,
       Waits, Dead, Fresh, Settled
  <2>. QED BY <2>1, <2>2, <2>3, NextSplit
<1>. QED BY <1>1, <1>2, <1>3, <1>4 DEF IndInv

\* IndInv holds in every reachable state.
THEOREM Invariance == Spec => []IndInv
BY IndInvInit, IndInvStep, PTL DEF Spec

\* The types of all variables.
THEOREM TypeCorrect == Spec => []TypeOK
<1>1. IndInv => TypeOK
  BY DEF IndInv
<1>. QED BY <1>1, Invariance, PTL

\* No job's command is started twice, over any number of crashes, restarts,
\* cancellations and resubmissions.
THEOREM RunsAtMostOnce == Spec => []AtMostOnce
<1>1. ASSUME IndInv, NEW j \in Jobs PROVE StartsInv(j)
  BY <1>1 DEF IndInv
<1>2. IndInv => AtMostOnce
  BY <1>1 DEF StartsInv, AtMostOnce
<1>. QED BY <1>2, Invariance, PTL

\* A durable result never lies about whether the command was started.
THEOREM ResultsTruthful == Spec => []ResultTruthful
<1>1. ASSUME IndInv, NEW j \in Jobs
      PROVE  /\ result[j] \in NeverRan => Fresh(j)
             /\ result[j] \in Ran => ~Fresh(j)
             /\ StartsInv(j)
  BY <1>1 DEF IndInv, JobInv, DiskInv
<1>2. IndInv => ResultTruthful
  BY <1>1 DEF ResultTruthful, StartsInv
<1>. QED BY <1>2, Invariance, PTL

\* Queued evidence without a scope record means that nothing was started, at
\* every moment a crash can happen.
THEOREM QueuedEvidence == Spec => []QueuedEvidenceSound
<1>1. ASSUME IndInv, NEW j \in Jobs
      PROVE  (qmark[j] => Fresh(j)) /\ StartsInv(j)
  BY <1>1 DEF IndInv, JobInv, DiskInv
<1>2. IndInv => QueuedEvidenceSound
  BY <1>1 DEF QueuedEvidenceSound, StartsInv
<1>. QED BY <1>2, Invariance, PTL

\* A process that may be alive has its scope record and its workspace on disk.
THEOREM Survivors == Spec => []SurvivorsLocatable
<1>1. IndInv => SurvivorsLocatable
  BY DEF IndInv, JobInv, DiskInv, Dead, SurvivorsLocatable
<1>. QED BY <1>1, Invariance, PTL

\* An acknowledged cancellation before start is final.
THEOREM CancelFinal == Spec => []CancelledNeverRuns
<1>1. ASSUME IndInv, NEW j \in Jobs
      PROVE  (acked[j] => Fresh(j)) /\ StartsInv(j)
  BY <1>1 DEF IndInv, JobInv, CancelInv
<1>2. IndInv => CancelledNeverRuns
  BY <1>1 DEF CancelledNeverRuns, StartsInv
<1>. QED BY <1>2, Invariance, PTL

\* What a client is shown as final is on disk.
THEOREM PublishedDurable == Spec => []PublishedIsDurable
<1>1. IndInv => PublishedIsDurable
  BY DEF IndInv, JobInv, SettledInv, PublishedIsDurable
<1>. QED BY <1>1, Invariance, PTL

\* result.json, once written, is never replaced.
THEOREM ResultsImmutable == Spec => ResultImmutable
<1>1. ASSUME IndInv, [Next]_vars, NEW k \in Jobs, result[k] # "none"
      PROVE  result'[k] = result[k]
  <2>t. result \in [Jobs -> Verdicts \cup {"none"}]
    BY <1>1 DEF IndInv, TypeOK
  <2>1. CASE Silent
    BY <2>1 DEF Silent
  <2>2. ASSUME NEW j \in Jobs, StartProcess(j) \/ Ends(j) PROVE result' = result
    BY <2>2 DEF StartProcess, Ends, disk
  <2>3. ASSUME NEW j \in Jobs, NEW v, Settles(j, v) PROVE result'[k] = result[k]
    BY <1>1, <2>t, <2>3 DEF Settles
  <2>. QED BY <1>1, <2>1, <2>2, <2>3, VisibleStep DEF Visible
<1>2. IndInv /\ [Next]_vars
          => [\A j \in Jobs : result[j] # "none" => result'[j] = result[j]]_vars
  BY <1>1
<1>. QED BY <1>2, Invariance, PTL DEF Spec, ResultImmutable

\* The runner implements JobContract: each step starts a job's command, records
\* a verdict, or is invisible to it.
THEOREM Refinement == Spec => KeepsContract
<1> DEFINE Ran1 == {j \in Jobs : starts[j] > 0}
<1>1. Init => Contract!Init
  BY DEF Init, All, Contract!Init
<1>2. ASSUME IndInv, [Next]_vars PROVE [Contract!Next]_(Contract!vars)
  <2>t. /\ starts \in [Jobs -> Nat] /\ result \in [Jobs -> Verdicts \cup {"none"}]
        /\ \A j \in Jobs : StartsInv(j)
    BY <1>2 DEF IndInv, TypeOK
  <2>1. ASSUME starts' = starts, result' = result PROVE UNCHANGED Contract!vars
    BY <2>1 DEF Contract!vars
  <2>2. ASSUME NEW j \in Jobs, StartProcess(j) PROVE Contract!Start(j)
    <3>1. proc[j] = "none" /\ result[j] = "none"
      BY <1>2, <2>2 DEF StartProcess, MayStart, IndInv, JobInv, LaunchInv, Waits, Fresh
    <3>2. result' = result /\ starts' = [starts EXCEPT ![j] = @ + 1]
      BY <2>2 DEF StartProcess, disk
    <3>3. starts[j] = 0
      BY <2>t, <3>1 DEF StartsInv, Fresh
    <3>4. \A k \in Jobs : starts'[k] > 0 <=> starts[k] > 0 \/ k = j
      BY <2>t, <3>2, <3>3
    <3>5. {k \in Jobs : starts'[k] > 0} = {k \in Jobs : starts[k] > 0} \cup {j}
      BY <3>4
    <3>. QED BY <3>1, <3>2, <3>3, <3>5 DEF Contract!Start
  <2>3. ASSUME NEW j \in Jobs, NEW v \in Verdicts, Settles(j, v) PROVE Contract!Record(j, v)
    <3>1. (v \in NeverRan => starts[j] = 0) /\ (v \in Ran => starts[j] = 1)
      BY <2>t, <2>3 DEF Settles, StartsInv
    <3>2. starts' = starts /\ result[j] = "none" /\ result' = [result EXCEPT ![j] = v]
      BY <2>3 DEF Settles
    <3>. QED BY <3>1, <3>2 DEF Contract!Record
  <2>4. ASSUME NEW j \in Jobs, Visible(j) PROVE [Contract!Next]_(Contract!vars)
    BY <2>1, <2>2, <2>3, <2>4 DEF Visible, Ends, Contract!Next, Verdicts
  <2>5. CASE Silent
    BY <2>1, <2>5 DEF Silent
  <2>. QED BY <1>2, <2>4, <2>5, VisibleStep
<1>. QED BY <1>1, <1>2, Invariance, PTL DEF Spec, KeepsContract, Contract!Spec

-----------------------------------------------------------------------------
(* The scheduler and cancellation                                          *)

\* A job whose goroutine is the drain worker.
InWorker(j) == launch[j] \in {"bind", "scoped", "ready", "finalize"}
Workers == {j \in Jobs : InWorker(j)}

\* A job taken from the queue whose process is not started yet.
Taken(j) == launch[j] \in {"bind", "scoped", "ready"}

\* What a job holds: a launched job its slot, a rolled back admission its place in
\* the queue, a settlement its slot unless it settles a job that never was taken;
\* and finalize was entered only if it is still running or has published.
HoldInv(j) ==
    /\ launch[j] # "idle" => j \in running
    /\ submit[j] \in {"abort", "forget", "retain"} => In(j, queue)
    /\ fin[j] # "idle" => j \in running \/ verdict[j] \in {"never_killed", "ambiguous"}
    /\ finals[j] = 0 \/ (finals[j] = 1 /\ (fin[j] # "idle" \/ Settled(j)))

\* A kill that was accepted before start decides what the job is settled as.
KillInv(j) ==
    /\ fin[j] # "idle" /\ ~rejected[j] /\ ~started[j] => verdict[j] = "never_killed"
    /\ waiting[j] /\ Settled(j) => result[j] = "never_killed"
    /\ acked[j] => result[j] = "never_killed"

SetupInv == quiesced => queue = <<>> /\ running = {} /\ transfers = 0

\* x stands before y in s.
Precedes(s, x, y) == \E a, b \in DOMAIN s : a < b /\ s[a] = x /\ s[b] = y

\* The queue keeps the order of the admissions, and no job overtakes one that is
\* queued or being launched.
OrderInv ==
    /\ NoDuplicates(arrivals)
    /\ \A x \in Jobs : In(x, queue) => In(x, arrivals)
    /\ \A x, y \in Jobs : Precedes(queue, x, y) => Precedes(arrivals, x, y)
    /\ \A x, y \in Jobs : Precedes(arrivals, x, y) /\ (In(x, queue) \/ Taken(x))
                              => Fresh(y) /\ ~Taken(y)

SchedInv == /\ IndInv
            /\ \A j \in Jobs : HoldInv(j)
            /\ SlotsBound /\ SingleWorker /\ SetupInv /\ NoLostWakeup /\ OrderInv

----------------------------------------------------------------------------
\* Removing a job from the queue shortens it or leaves it alone.
LEMMA WithoutLen ==
    ASSUME NEW s \in Seq(Jobs), NEW j
    PROVE  Len(Without(s, j)) \in Nat /\ Len(Without(s, j)) <= Len(s)
<1>1. CASE ~In(j, s)
  BY <1>1 DEF Without
<1>2. CASE In(j, s)
  <2> DEFINE place == CHOOSE i \in DOMAIN s : s[i] = j /\ \A h \in 1 .. i - 1 : s[h] # j
  <2> DEFINE t == [i \in 1 .. Len(s) - 1 |-> IF i < place THEN s[i] ELSE s[i + 1]]
  <2>1. Without(s, j) = t
    BY <1>2 DEF Without
  <2>2. Len(s) \in Nat /\ Len(s) >= 1
    BY <1>2 DEF In
  <2> HIDE DEF place
  <2>3. t \in Seq(Jobs) /\ DOMAIN t = 1 .. Len(s) - 1
    BY <2>1, WithoutType
  <2>4. Len(t) = Len(s) - 1
    BY <2>2, <2>3
  <2>. QED BY <2>1, <2>2, <2>4
<1>. QED BY <1>1, <1>2

\* It keeps the order of the jobs that stay.
LEMMA WithoutPrecedes ==
    ASSUME NEW s \in Seq(Jobs), NEW j, NoDuplicates(s), NEW x, NEW y
    PROVE  Precedes(Without(s, j), x, y) <=> Precedes(s, x, y) /\ x # j /\ y # j
<1>1. CASE ~In(j, s)
  BY <1>1 DEF Without, In, Precedes
<1>2. CASE In(j, s)
  <2> DEFINE place == CHOOSE i \in DOMAIN s : s[i] = j /\ \A h \in 1 .. i - 1 : s[h] # j
  <2> DEFINE t == [i \in 1 .. Len(s) - 1 |-> IF i < place THEN s[i] ELSE s[i + 1]]
  <2>1. Without(s, j) = t
    BY <1>2 DEF Without
  <2>2. place \in DOMAIN s /\ s[place] = j
    BY <1>2, FirstIndex
  <2>3. Len(s) \in Nat /\ DOMAIN s = 1 .. Len(s) /\ DOMAIN t = 1 .. Len(s) - 1
    OBVIOUS
  <2> HIDE DEF place
  <2>4. \A i \in DOMAIN t : t[i] = IF i < place THEN s[i] ELSE s[i + 1]
    OBVIOUS
  <2> HIDE DEF t
  <2> DEFINE in(i) == IF i < place THEN i ELSE i + 1
  <2> DEFINE out(i) == IF i < place THEN i ELSE i - 1
  <2>5. \A i \in DOMAIN t : in(i) \in DOMAIN s /\ t[i] = s[in(i)] /\ in(i) # place
    BY <2>2, <2>3, <2>4
  <2>6. \A a, b \in DOMAIN t : a < b => in(a) < in(b)
    BY <2>2, <2>3
  <2>7. ASSUME NEW i \in DOMAIN s, i # place PROVE out(i) \in DOMAIN t /\ t[out(i)] = s[i]
    <3>1. CASE i < place
      BY <2>2, <2>3, <2>4, <3>1
    <3>2. CASE i > place
      <4>1. i - 1 \in DOMAIN t /\ ~(i - 1 < place) /\ i - 1 + 1 = i /\ out(i) = i - 1
        BY <2>2, <2>3, <3>2
      <4>. QED BY <2>4, <4>1
    <3>. QED BY <2>2, <2>3, <2>7, <3>1, <3>2
  <2>8. \A a, b \in DOMAIN s : a < b /\ a # place /\ b # place => out(a) < out(b)
    BY <2>2, <2>3
  <2>9. ASSUME Precedes(t, x, y) PROVE Precedes(s, x, y) /\ x # j /\ y # j
    <3>1. PICK a \in DOMAIN t, b \in DOMAIN t : a < b /\ t[a] = x /\ t[b] = y
      BY <2>9 DEF Precedes
    <3>2. /\ in(a) \in DOMAIN s /\ in(b) \in DOMAIN s /\ in(a) < in(b)
          /\ s[in(a)] = x /\ s[in(b)] = y /\ in(a) # place /\ in(b) # place
      BY <2>5, <2>6, <3>1
    <3> HIDE DEF in
    <3>. QED BY <2>2, <3>2 DEF Precedes, NoDuplicates
  <2>10. ASSUME Precedes(s, x, y), x # j, y # j PROVE Precedes(t, x, y)
    <3>1. PICK a \in DOMAIN s, b \in DOMAIN s : a < b /\ s[a] = x /\ s[b] = y
      BY <2>10 DEF Precedes
    <3>2. a # place /\ b # place
      BY <2>2, <2>10, <3>1
    <3>3. /\ out(a) \in DOMAIN t /\ out(b) \in DOMAIN t /\ out(a) < out(b)
          /\ t[out(a)] = x /\ t[out(b)] = y
      BY <2>7, <2>8, <3>1, <3>2
    <3> HIDE DEF out
    <3>. QED BY <3>3 DEF Precedes
  <2>. QED BY <2>1, <2>9, <2>10
<1>. QED BY <1>1, <1>2

\* An admitted job stands behind every other.
LEMMA AppendPrecedes ==
    ASSUME NEW s \in Seq(Jobs), NEW j \in Jobs, NEW x, NEW y
    PROVE  Precedes(Append(s, j), x, y) <=> Precedes(s, x, y) \/ (In(x, s) /\ y = j)
<1> DEFINE t == Append(s, j)
<1>1. /\ Len(s) \in Nat /\ DOMAIN s = 1 .. Len(s) /\ DOMAIN t = 1 .. Len(s) + 1
      /\ t[Len(s) + 1] = j /\ \A i \in DOMAIN s : t[i] = s[i]
  OBVIOUS
<1> HIDE DEF t
<1>2. ASSUME Precedes(t, x, y) PROVE Precedes(s, x, y) \/ (In(x, s) /\ y = j)
  <2>1. PICK a \in DOMAIN t, b \in DOMAIN t : a < b /\ t[a] = x /\ t[b] = y
    BY <1>2 DEF Precedes
  <2>2. a \in DOMAIN s /\ (b \in DOMAIN s \/ b = Len(s) + 1)
    BY <1>1, <2>1
  <2>. QED BY <1>1, <2>1, <2>2 DEF Precedes, In
<1>3. ASSUME Precedes(s, x, y) PROVE Precedes(t, x, y)
  <2>1. PICK a \in DOMAIN s, b \in DOMAIN s : a < b /\ s[a] = x /\ s[b] = y
    BY <1>3 DEF Precedes
  <2>. QED BY <1>1, <2>1 DEF Precedes
<1>4. ASSUME In(x, s), y = j PROVE Precedes(t, x, y)
  <2>1. PICK a \in DOMAIN s : s[a] = x
    BY <1>4 DEF In
  <2>2. Len(s) + 1 \in DOMAIN t /\ a \in DOMAIN t /\ a < Len(s) + 1
    BY <1>1
  <2>. QED BY <1>1, <1>4, <2>1, <2>2 DEF Precedes
<1>. QED BY <1>2, <1>3, <1>4 DEF t

\* Taking the head keeps the order of the rest; the head stands before them.
LEMMA TailPrecedes ==
    ASSUME NEW s \in Seq(Jobs), s # <<>>, NEW x, NEW y
    PROVE  /\ Precedes(Tail(s), x, y) => Precedes(s, x, y)
           /\ In(x, s) /\ x # Head(s) => Precedes(s, Head(s), x)
<1>1. /\ Len(s) \in Nat /\ Len(s) >= 1 /\ DOMAIN s = 1 .. Len(s) /\ Head(s) = s[1]
      /\ DOMAIN Tail(s) = 1 .. Len(s) - 1
      /\ \A i \in 1 .. Len(s) - 1 : Tail(s)[i] = s[i + 1]
  OBVIOUS
<1>2. ASSUME Precedes(Tail(s), x, y) PROVE Precedes(s, x, y)
  <2>1. PICK a \in 1 .. Len(s) - 1, b \in 1 .. Len(s) - 1 : a < b /\ s[a + 1] = x /\ s[b + 1] = y
    BY <1>1, <1>2 DEF Precedes
  <2>2. a + 1 \in DOMAIN s /\ b + 1 \in DOMAIN s /\ a + 1 < b + 1
    BY <1>1, <2>1
  <2>. QED BY <2>1, <2>2 DEF Precedes
<1>3. ASSUME In(x, s), x # Head(s) PROVE Precedes(s, Head(s), x)
  <2>1. PICK b \in DOMAIN s : s[b] = x
    BY <1>3 DEF In
  <2>2. 1 \in DOMAIN s /\ 1 < b
    BY <1>1, <1>3, <2>1
  <2>. QED BY <1>1, <2>1, <2>2 DEF Precedes
<1>. QED BY <1>2, <1>3

\* Standing before is a strict order, if no job stands in two places.
LEMMA PrecedesStrict ==
    ASSUME NEW s \in Seq(Jobs), NoDuplicates(s), NEW x, NEW y, Precedes(s, x, y)
    PROVE  ~Precedes(s, y, x)
<1>1. PICK a \in DOMAIN s, b \in DOMAIN s : a < b /\ s[a] = x /\ s[b] = y
  BY DEF Precedes
<1>2. SUFFICES ASSUME Precedes(s, y, x) PROVE FALSE
  OBVIOUS
<1>3. PICK c \in DOMAIN s, d \in DOMAIN s : c < d /\ s[c] = y /\ s[d] = x
  BY <1>2 DEF Precedes
<1>4. a = d /\ b = c
  BY <1>1, <1>3 DEF NoDuplicates
<1>. QED BY <1>1, <1>3, <1>4
----------------------------------------------------------------------------
(***************************************************************************)
(* What the step of one job's goroutine does to the scheduler and to the   *)
(* other jobs, stated once for all of them.                                *)
(***************************************************************************)
Untouched(k) ==
    /\ state'[k] = state[k] /\ result'[k] = result[k] /\ proc'[k] = proc[k]
    /\ submit'[k] = submit[k] /\ launch'[k] = launch[k] /\ fin'[k] = fin[k]
    /\ verdict'[k] = verdict[k] /\ finals'[k] = finals[k]
    /\ rejected'[k] = rejected[k] /\ started'[k] = started[k]
    /\ waiting'[k] = waiting[k] /\ acked'[k] = acked[k]
    /\ k \in running' <=> k \in running
    /\ In(k, queue') <=> In(k, queue)

\* A step of one job leaves what is kept of every other job alone.
LEMMA Frame ==
    ASSUME TypeOK, NoDuplicates(queue), NEW j \in Jobs, NEW k \in Jobs, k # j, JobStep(j)
    PROVE  Untouched(k)
<1> USE DEF TypeOK, Untouched, disk, flags, pcs, sched, setup, history
<1>q. queue \in Seq(Jobs)
  OBVIOUS
<1>w. In(k, Without(queue, j)) <=> In(k, queue)
  BY <1>q, WithoutMembers
<1>a. In(k, Append(queue, j)) <=> In(k, queue)
  BY <1>q, AppendMembers
<1>1. CASE Admit(j)
  BY <1>1, <1>a DEF Admit, Known, NewFlags
<1>2. CASE StageBegin(j)
  BY <1>2 DEF StageBegin
<1>3. CASE StageFail(j)
  BY <1>3 DEF StageFail, RejectPreExecution, Finalize, NoFinalize
<1>4. CASE StageEnd(j)
  BY <1>4 DEF StageEnd, Finalize, NoFinalize
<1>5. CASE WriteQueued(j)
  BY <1>5 DEF WriteQueued
<1>6. CASE WriteQueuedFail(j)
  BY <1>6 DEF WriteQueuedFail, RejectPreExecution, Finalize, NoFinalize
<1>7. CASE CommitQueued(j)
  BY <1>7, <1>w DEF CommitQueued, Finalize, NoFinalize
<1>8. CASE AbortTear(j)
  BY <1>8 DEF AbortTear
<1>9. CASE AbortClean(j)
  BY <1>9 DEF AbortClean
<1>10. CASE AbortCleanFail(j)
  BY <1>10 DEF AbortCleanFail
<1>11. CASE AbortForget(j)
  BY <1>11, <1>w DEF AbortForget
<1>12. CASE AbortRetain(j)
  BY <1>12, <1>w DEF AbortRetain
<1>13. CASE AbortRecord(j)
  BY <1>13 DEF AbortRecord
<1>14. CASE WriteScope(j)
  BY <1>14 DEF WriteScope
<1>15. CASE ConsumeQueued(j)
  BY <1>15 DEF ConsumeQueued
<1>16. CASE LaunchFail(j)
  BY <1>16 DEF LaunchFail, Finalize
<1>17. CASE LaunchKilled(j)
  BY <1>17 DEF LaunchKilled, Finalize
<1>18. CASE StartProcess(j)
  BY <1>18 DEF StartProcess, MayStart
<1>19. CASE Reap(j)
  BY <1>19 DEF Reap
<1>20. CASE CleanupScope(j)
  BY <1>20 DEF CleanupScope, Finalize
<1>21. CASE FinWorkspace(j)
  BY <1>21 DEF FinWorkspace
<1>22. CASE FinScope(j)
  BY <1>22 DEF FinScope
<1>23. CASE FinResult(j)
  BY <1>23 DEF FinResult, ToPublish
<1>24. CASE FinPublish(j)
  BY <1>24 DEF FinPublish
<1>25. CASE FinRelease(j)
  BY <1>25, <1>w DEF FinRelease
<1>26. CASE CancelBeforeStart(j)
  BY <1>26, <1>w DEF CancelBeforeStart, OwnsQueued, Finalize, NoFinalize
<1>27. CASE CancelReturn(j)
  BY <1>27 DEF CancelReturn
<1>28. CASE Terminate(j)
  BY <1>28 DEF Terminate
<1>29. CASE Load(j)
  BY <1>29 DEF Load, QueuedWithoutScope
<1>30. CASE ReconcileQueuedClean(j)
  BY <1>30 DEF ReconcileQueuedClean
<1>31. CASE ReconcileQueued(j)
  BY <1>31 DEF ReconcileQueued, Register
<1>32. CASE RecoverKill(j)
  BY <1>32 DEF RecoverKill
<1>33. CASE RecoverWorkspace(j)
  BY <1>33 DEF RecoverWorkspace
<1>34. CASE RecoverUnmark(j)
  BY <1>34 DEF RecoverUnmark
<1>35. CASE RecoverUnscope(j)
  BY <1>35 DEF RecoverUnscope
<1>36. CASE Conclude(j)
  BY <1>36 DEF Conclude, Register
<1>37. CASE LeaderExit(j)
  BY <1>37 DEF LeaderExit
<1>38. CASE OrphansExit(j)
  BY <1>38 DEF OrphansExit
<1>. QED
  BY <1>1, <1>2, <1>3, <1>4, <1>5, <1>6, <1>7, <1>8, <1>9, <1>10, <1>11, <1>12, <1>13,
     <1>14, <1>15, <1>16, <1>17, <1>18, <1>19, <1>20, <1>21, <1>22, <1>23, <1>24, <1>25,
     <1>26, <1>27, <1>28, <1>29, <1>30, <1>31, <1>32, <1>33, <1>34, <1>35, <1>36, <1>37,
     <1>38 DEF JobStep, Submitting, Launching, Finalizing, Controlling, Recovering

\* A goroutine that will call drainQueue when it is done with j.
Wakes(j) == fin[j] # "idle" \/ submit[j] = "record"

Effect(j) ==
    /\ UNCHANGED <<draining, quiesced, transfers, arrivals>>
    /\ running' \in {running, running \ {j}}
    /\ queue' \in {queue, Without(queue, j)}
    /\ drains' \in {drains, drains + 1}
    /\ \/ loops' = loops /\ (InWorker(j)' <=> InWorker(j))
       \/ loops' = loops + 1 /\ InWorker(j) /\ ~InWorker(j)'
    /\ Taken(j)' => Taken(j)
    /\ Fresh(j) => Fresh(j)' \/ Taken(j)
    /\ Wakes(j) => Wakes(j)' \/ drains' = drains + 1
    /\ \/ UNCHANGED <<running, queue>> /\ (state'[j] = "queued" => state[j] = "queued")
       \/ Wakes(j)'
       \/ drains' = drains + 1

\* What a job's own step, other than its admission, may do to the scheduler.
LEMMA JobEffect ==
    ASSUME TypeOK, NEW j \in Jobs, JobInv(j), JobStep(j), ~Admit(j)
    PROVE  Effect(j)
<1> USE DEF TypeOK, Effect, InWorker, Taken, Wakes, Fresh, disk, flags, pcs, sched, setup,
            history
<1>i. /\ SubmitInv(j) /\ LaunchInv(j) /\ FinInv(j) /\ KnownInv(j) /\ PhaseInv(j)
      /\ QueueInv(j)
  BY DEF JobInv
<1>1. CASE StageBegin(j)
  BY <1>1 DEF StageBegin
<1>2. CASE StageFail(j)
  BY <1>2, <1>i DEF StageFail, RejectPreExecution, Finalize, NoFinalize
<1>3. CASE StageEnd(j)
  BY <1>3, <1>i DEF StageEnd, Finalize, NoFinalize
<1>4. CASE WriteQueued(j)
  BY <1>4 DEF WriteQueued
<1>5. CASE WriteQueuedFail(j)
  BY <1>5, <1>i DEF WriteQueuedFail, RejectPreExecution, Finalize, NoFinalize
<1>6. CASE CommitQueued(j)
  BY <1>6, <1>i DEF CommitQueued, Finalize, NoFinalize
<1>7. CASE AbortTear(j)
  BY <1>7 DEF AbortTear
<1>8. CASE AbortClean(j)
  BY <1>8 DEF AbortClean
<1>9. CASE AbortCleanFail(j)
  BY <1>9 DEF AbortCleanFail
<1>10. CASE AbortForget(j)
  BY <1>10 DEF AbortForget
<1>11. CASE AbortRetain(j)
  BY <1>11, <1>i DEF AbortRetain
<1>12. CASE AbortRecord(j)
  BY <1>12, <1>i DEF AbortRecord
<1>13. CASE WriteScope(j)
  BY <1>13 DEF WriteScope
<1>14. CASE ConsumeQueued(j)
  BY <1>14 DEF ConsumeQueued
<1>15. CASE LaunchFail(j)
  BY <1>15 DEF LaunchFail, Finalize
<1>16. CASE LaunchKilled(j)
  BY <1>16 DEF LaunchKilled, Finalize
<1>17. CASE StartProcess(j)
  BY <1>17 DEF StartProcess, MayStart
<1>18. CASE Reap(j)
  BY <1>18 DEF Reap
<1>19. CASE CleanupScope(j)
  BY <1>19, <1>i DEF CleanupScope, Finalize, LaunchInv
<1>20. CASE FinWorkspace(j)
  BY <1>20 DEF FinWorkspace
<1>21. CASE FinScope(j)
  BY <1>21 DEF FinScope
<1>22. CASE FinResult(j)
  BY <1>22 DEF FinResult, ToPublish
<1>23. CASE FinPublish(j)
  BY <1>23 DEF FinPublish
<1>24. CASE FinRelease(j)
  BY <1>24, <1>i DEF FinRelease, FinInv
<1>25. CASE CancelBeforeStart(j)
  BY <1>25 DEF CancelBeforeStart, OwnsQueued, Finalize, NoFinalize
<1>26. CASE CancelReturn(j)
  BY <1>26 DEF CancelReturn
<1>27. CASE Terminate(j)
  BY <1>27 DEF Terminate
<1>28. CASE Load(j)
  BY <1>28 DEF Load, QueuedWithoutScope
<1>29. CASE ReconcileQueuedClean(j)
  BY <1>29 DEF ReconcileQueuedClean
<1>30. CASE ReconcileQueued(j)
  BY <1>30 DEF ReconcileQueued, Register
<1>31. CASE RecoverKill(j)
  BY <1>31 DEF RecoverKill
<1>32. CASE RecoverWorkspace(j)
  BY <1>32 DEF RecoverWorkspace
<1>33. CASE RecoverUnmark(j)
  BY <1>33 DEF RecoverUnmark
<1>34. CASE RecoverUnscope(j)
  BY <1>34 DEF RecoverUnscope
<1>35. CASE Conclude(j)
  BY <1>35 DEF Conclude, Register, StateOf
<1>36. CASE LeaderExit(j)
  BY <1>36 DEF LeaderExit
<1>37. CASE OrphansExit(j)
  BY <1>37 DEF OrphansExit
<1>. QED
  BY <1>1, <1>2, <1>3, <1>4, <1>5, <1>6, <1>7, <1>8, <1>9, <1>10, <1>11, <1>12, <1>13,
     <1>14, <1>15, <1>16, <1>17, <1>18, <1>19, <1>20, <1>21, <1>22, <1>23, <1>24, <1>25,
     <1>26, <1>27, <1>28, <1>29, <1>30, <1>31, <1>32, <1>33, <1>34, <1>35, <1>36, <1>37
     DEF JobStep, Submitting, Launching, Finalizing, Controlling, Recovering

----------------------------------------------------------------------------
\* The step of a goroutine keeps what its own job holds.
LEMMA OwnHolds ==
    ASSUME TypeOK, NoDuplicates(queue), NEW j \in Jobs, JobInv(j), HoldInv(j), JobStep(j)
    PROVE  HoldInv(j)'
<1> USE DEF TypeOK, JobInv, KnownInv, SubmitInv, QueueInv, LaunchInv, FinInv, SettledInv,
            HoldInv, Waits, Settled, Verdicts, NeverRan, Ran, Terminal, StateOf,
            disk, flags, pcs, sched, setup, history
<1>p. rec[j] # "idle" => j \notin jobs
  BY DEF PhaseInv
<1>q. queue \in Seq(Jobs)
  OBVIOUS
<1>w. \A k : In(k, Without(queue, j)) <=> In(k, queue) /\ k # j
  BY <1>q, WithoutMembers
<1>a. \A k : In(k, Append(queue, j)) <=> In(k, queue) \/ k = j
  BY <1>q, AppendMembers
<1>1. CASE Admit(j)
  BY <1>1, <1>a DEF Admit, Known, NewFlags
<1>2. CASE StageBegin(j)
  BY <1>2 DEF StageBegin
<1>3. CASE StageFail(j)
  BY <1>3 DEF StageFail, RejectPreExecution, Finalize, NoFinalize
<1>4. CASE StageEnd(j)
  BY <1>4 DEF StageEnd, Finalize, NoFinalize
<1>5. CASE WriteQueued(j)
  BY <1>5 DEF WriteQueued
<1>6. CASE WriteQueuedFail(j)
  BY <1>6 DEF WriteQueuedFail, RejectPreExecution, Finalize, NoFinalize
<1>7. CASE CommitQueued(j)
  BY <1>7, <1>w DEF CommitQueued, Finalize, NoFinalize
<1>8. CASE AbortTear(j)
  BY <1>8 DEF AbortTear
<1>9. CASE AbortClean(j)
  BY <1>9 DEF AbortClean
<1>10. CASE AbortCleanFail(j)
  BY <1>10 DEF AbortCleanFail
<1>11. CASE AbortForget(j)
  BY <1>11, <1>w DEF AbortForget
<1>12. CASE AbortRetain(j)
  BY <1>12, <1>w DEF AbortRetain
<1>13. CASE AbortRecord(j)
  BY <1>13 DEF AbortRecord
<1>14. CASE WriteScope(j)
  BY <1>14 DEF WriteScope
<1>15. CASE ConsumeQueued(j)
  BY <1>15 DEF ConsumeQueued
<1>16. CASE LaunchFail(j)
  BY <1>16 DEF LaunchFail, Finalize
<1>17. CASE LaunchKilled(j)
  BY <1>17 DEF LaunchKilled, Finalize
<1>18. CASE StartProcess(j)
  BY <1>18 DEF StartProcess, MayStart
<1>19. CASE Reap(j)
  BY <1>19 DEF Reap
<1>20. CASE CleanupScope(j)
  BY <1>20 DEF CleanupScope, Finalize
<1>21. CASE FinWorkspace(j)
  BY <1>21 DEF FinWorkspace
<1>22. CASE FinScope(j)
  BY <1>22 DEF FinScope
<1>23. CASE FinResult(j)
  BY <1>23 DEF FinResult, ToPublish
<1>24. CASE FinPublish(j)
  BY <1>24 DEF FinPublish
<1>25. CASE FinRelease(j)
  BY <1>25, <1>w DEF FinRelease
<1>26. CASE CancelBeforeStart(j)
  BY <1>26, <1>w DEF CancelBeforeStart, OwnsQueued, Finalize, NoFinalize
<1>27. CASE CancelReturn(j)
  BY <1>27 DEF CancelReturn
<1>28. CASE Terminate(j)
  BY <1>28 DEF Terminate
<1>29. CASE Load(j)
  BY <1>29 DEF Load, QueuedWithoutScope
<1>30. CASE ReconcileQueuedClean(j)
  BY <1>30 DEF ReconcileQueuedClean
<1>31. CASE ReconcileQueued(j)
  BY <1>31, <1>p DEF ReconcileQueued, Register
<1>32. CASE RecoverKill(j)
  BY <1>32 DEF RecoverKill
<1>33. CASE RecoverWorkspace(j)
  BY <1>33 DEF RecoverWorkspace
<1>34. CASE RecoverUnmark(j)
  BY <1>34 DEF RecoverUnmark
<1>35. CASE RecoverUnscope(j)
  BY <1>35 DEF RecoverUnscope
<1>36. CASE Conclude(j)
  BY <1>36, <1>p DEF Conclude, Register
<1>37. CASE LeaderExit(j)
  BY <1>37 DEF LeaderExit
<1>38. CASE OrphansExit(j)
  BY <1>38 DEF OrphansExit
<1>. QED
  BY <1>1, <1>2, <1>3, <1>4, <1>5, <1>6, <1>7, <1>8, <1>9, <1>10, <1>11, <1>12, <1>13,
     <1>14, <1>15, <1>16, <1>17, <1>18, <1>19, <1>20, <1>21, <1>22, <1>23, <1>24, <1>25,
     <1>26, <1>27, <1>28, <1>29, <1>30, <1>31, <1>32, <1>33, <1>34, <1>35, <1>36, <1>37,
     <1>38 DEF JobStep, Submitting, Launching, Finalizing, Controlling, Recovering

\* Without faults it keeps what a cancelled job is settled as.
LEMMA OwnKill ==
    ASSUME TypeOK, ~Faults, NEW j \in Jobs, JobInv(j), KillInv(j), JobStep(j)
    PROVE  KillInv(j)'
<1> USE DEF TypeOK, JobInv, KnownInv, SubmitInv, QueueInv, LaunchInv, FinInv, SettledInv,
            CancelInv, KillInv, Waits, Fresh, Settled, Verdicts, NeverRan, Ran, Terminal,
            StateOf, disk, flags, pcs, sched, setup, history
<1>p. (rec[j] # "idle" => j \notin jobs) /\ (rec[j] = "settle" => result[j] = "none")
  BY DEF PhaseInv
<1>1. CASE Admit(j)
  BY <1>1 DEF Admit, Known, NewFlags
<1>2. CASE StageBegin(j)
  BY <1>2 DEF StageBegin
<1>3. CASE StageFail(j)
  BY <1>3 DEF StageFail, RejectPreExecution, Finalize, NoFinalize
<1>4. CASE StageEnd(j)
  BY <1>4 DEF StageEnd, Finalize, NoFinalize
<1>5. CASE WriteQueued(j)
  BY <1>5 DEF WriteQueued
<1>6. CASE WriteQueuedFail(j)
  BY <1>6 DEF WriteQueuedFail, RejectPreExecution, Finalize, NoFinalize
<1>7. CASE CommitQueued(j)
  BY <1>7 DEF CommitQueued, Finalize, NoFinalize
<1>8. CASE AbortTear(j)
  BY <1>8 DEF AbortTear
<1>9. CASE AbortClean(j)
  BY <1>9 DEF AbortClean
<1>10. CASE AbortCleanFail(j)
  BY <1>10 DEF AbortCleanFail
<1>11. CASE AbortForget(j)
  BY <1>11 DEF AbortForget
<1>12. CASE AbortRetain(j)
  BY <1>12 DEF AbortRetain
<1>13. CASE AbortRecord(j)
  BY <1>13 DEF AbortRecord
<1>14. CASE WriteScope(j)
  BY <1>14 DEF WriteScope
<1>15. CASE ConsumeQueued(j)
  BY <1>15 DEF ConsumeQueued
<1>16. CASE LaunchFail(j)
  BY <1>16 DEF LaunchFail, Finalize
<1>17. CASE LaunchKilled(j)
  BY <1>17 DEF LaunchKilled, Finalize
<1>18. CASE StartProcess(j)
  BY <1>18 DEF StartProcess, MayStart
<1>19. CASE Reap(j)
  BY <1>19 DEF Reap
<1>20. CASE CleanupScope(j)
  BY <1>20 DEF CleanupScope, Finalize
<1>21. CASE FinWorkspace(j)
  BY <1>21 DEF FinWorkspace
<1>22. CASE FinScope(j)
  BY <1>22 DEF FinScope
<1>23. CASE FinResult(j)
  BY <1>23 DEF FinResult, ToPublish
<1>24. CASE FinPublish(j)
  BY <1>24 DEF FinPublish
<1>25. CASE FinRelease(j)
  BY <1>25 DEF FinRelease
<1>26. CASE CancelBeforeStart(j)
  BY <1>26 DEF CancelBeforeStart, OwnsQueued, Finalize, NoFinalize
<1>27. CASE CancelReturn(j)
  BY <1>27 DEF CancelReturn
<1>28. CASE Terminate(j)
  BY <1>28 DEF Terminate
<1>29. CASE Load(j)
  BY <1>29 DEF Load, QueuedWithoutScope
<1>30. CASE ReconcileQueuedClean(j)
  BY <1>30 DEF ReconcileQueuedClean
<1>31. CASE ReconcileQueued(j)
  BY <1>31, <1>p DEF ReconcileQueued, Register
<1>32. CASE RecoverKill(j)
  BY <1>32 DEF RecoverKill
<1>33. CASE RecoverWorkspace(j)
  BY <1>33 DEF RecoverWorkspace
<1>34. CASE RecoverUnmark(j)
  BY <1>34 DEF RecoverUnmark
<1>35. CASE RecoverUnscope(j)
  BY <1>35 DEF RecoverUnscope
<1>36. CASE Conclude(j)
  BY <1>36, <1>p DEF Conclude, Register
<1>37. CASE LeaderExit(j)
  BY <1>37 DEF LeaderExit
<1>38. CASE OrphansExit(j)
  BY <1>38 DEF OrphansExit
<1>. QED
  BY <1>1, <1>2, <1>3, <1>4, <1>5, <1>6, <1>7, <1>8, <1>9, <1>10, <1>11, <1>12, <1>13,
     <1>14, <1>15, <1>16, <1>17, <1>18, <1>19, <1>20, <1>21, <1>22, <1>23, <1>24, <1>25,
     <1>26, <1>27, <1>28, <1>29, <1>30, <1>31, <1>32, <1>33, <1>34, <1>35, <1>36, <1>37,
     <1>38 DEF JobStep, Submitting, Launching, Finalizing, Controlling, Recovering

\* Scheduler, setup, crash and restart keep both for every job.
LEMMA GlobalHolds ==
    ASSUME TypeOK, NoDuplicates(queue), NEW k \in Jobs, JobInv(k), HoldInv(k), GlobalStep
    PROVE  HoldInv(k)'
<1> USE DEF TypeOK, HoldInv, Settled, Terminal, disk, flags, pcs, sched, setup, history
<1>1. CASE RunQueueTake
  <2>1. queue # <<>> /\ state[Head(queue)] = "queued"
    BY <1>1 DEF RunQueueTake, CanTake
  <2>2. In(k, Tail(queue)) <=> In(k, queue) /\ k # Head(queue)
    BY <2>1, TailMembers
  <2>3. Head(queue) \in Jobs
    BY <2>1, TailMembers
  <2>4. submit[k] # "idle" => state[k] = "staging"
    BY DEF JobInv, SubmitInv
  <2>. QED BY <1>1, <2>1, <2>2, <2>3, <2>4 DEF RunQueueTake
<1>2. CASE Crash
  BY <1>2 DEF Crash, All
<1>3. CASE DrainQueue \/ RunQueueStop \/ Quiesce \/ QuiesceEnd \/ TransferBegin
           \/ TransferEnd \/ Restart \/ Serve
  BY <1>3 DEF DrainQueue, RunQueueStop, Quiesce, QuiesceEnd, TransferBegin, TransferEnd,
     Restart, Serve
<1>. QED BY <1>1, <1>2, <1>3 DEF GlobalStep, Scheduling

\* The daemon's own steps do not disturb a job that was cancelled.
LEMMA GlobalKill ==
    ASSUME TypeOK, NEW k \in Jobs, KillInv(k), GlobalStep
    PROVE  KillInv(k)'
<1> USE DEF TypeOK, KillInv, Settled, Terminal, disk, flags, pcs, sched, setup, history
<1>1. CASE Crash
  BY <1>1 DEF Crash, All
<1>2. CASE RunQueueTake \/ DrainQueue \/ RunQueueStop \/ Quiesce \/ QuiesceEnd
           \/ TransferBegin \/ TransferEnd \/ Restart \/ Serve
  BY <1>2 DEF RunQueueTake, DrainQueue, RunQueueStop, Quiesce, QuiesceEnd, TransferBegin,
     TransferEnd, Restart, Serve
<1>. QED BY <1>1, <1>2 DEF GlobalStep, Scheduling

\* Every step keeps what each job holds and what a cancelled one is settled as.
LEMMA HoldsStep ==
    ASSUME IndInv, \A j \in Jobs : HoldInv(j), [Next]_vars, NEW k \in Jobs
    PROVE  HoldInv(k)'
<1>1. ASSUME NEW j \in Jobs, JobStep(j) PROVE HoldInv(k)'
  <2>1. CASE j = k
    BY <1>1, <2>1, OwnHolds DEF IndInv
  <2>2. CASE j # k
    <3>1. Untouched(k)
      BY <1>1, <2>2, Frame DEF IndInv
    <3>. QED BY <3>1 DEF Untouched, HoldInv, Settled
  <2>. QED BY <2>1, <2>2
<1>2. CASE GlobalStep
  BY <1>2, GlobalHolds DEF IndInv
<1>3. CASE UNCHANGED vars
  BY <1>3 DEF HoldInv, Settled, vars, pcs, sched, In
<1>. QED BY <1>1, <1>2, <1>3, NextSplit

\* Without write failures every step keeps what is known of a cancelled job.
LEMMA KillStep ==
    ASSUME IndInv, ~Faults, \A j \in Jobs : KillInv(j), [Next]_vars, NEW k \in Jobs
    PROVE  KillInv(k)'
<1>1. ASSUME NEW j \in Jobs, JobStep(j) PROVE KillInv(k)'
  <2>1. CASE j = k
    BY <1>1, <2>1, OwnKill DEF IndInv
  <2>2. CASE j # k
    <3>1. Untouched(k)
      BY <1>1, <2>2, Frame DEF IndInv
    <3>. QED BY <3>1 DEF Untouched, KillInv, Settled
  <2>. QED BY <2>1, <2>2
<1>2. CASE GlobalStep
  BY <1>2, GlobalKill DEF IndInv
<1>3. CASE UNCHANGED vars
  BY <1>3 DEF KillInv, Settled, vars, disk, flags, pcs, history
<1>. QED BY <1>1, <1>2, <1>3, NextSplit

----------------------------------------------------------------------------
\* Sets of jobs are finite.
LEMMA JobSetFinite ==
    ASSUME NEW S \in SUBSET Jobs
    PROVE  IsFiniteSet(S) /\ Cardinality(S) \in Nat
<1>1. IsFiniteSet(S)
  BY FS_Subset, JobRunnerAssumption
<1>. QED BY <1>1, FS_CardinalityType

\* The reservations stay within the configured capacity.
Capacity == /\ Cardinality(running) <= MaxJobs
            /\ Cardinality(running) + Len(queue) <= MaxJobs + MaxQueued

\* No step takes more slots or queue places than there are.
LEMMA CapacityStep ==
    ASSUME IndInv, Capacity, [Next]_vars
    PROVE  Capacity'
<1>n. MaxJobs \in Nat /\ MaxQueued \in Nat
  BY JobRunnerAssumption
<1>r. running \subseteq Jobs /\ queue \in Seq(Jobs) /\ Len(queue) \in Nat
  BY DEF IndInv, TypeOK
<1>c. IsFiniteSet(running) /\ Cardinality(running) \in Nat
  BY <1>r, JobSetFinite
<1>1. ASSUME NEW j \in Jobs, running' \in {running, running \ {j}},
             queue' \in {queue, Without(queue, j)}
      PROVE  Capacity'
  <2>1. Cardinality(running') \in Nat /\ Cardinality(running') <= Cardinality(running)
    <3>1. running' \in SUBSET running
      BY <1>1
    <3>. QED BY <3>1, <1>c, FS_Subset, FS_CardinalityType
  <2>2. Len(queue') \in Nat /\ Len(queue') <= Len(queue)
    BY <1>1, <1>r, WithoutLen
  <2>. QED BY <2>1, <2>2, <1>c, <1>n, <1>r DEF Capacity
<1>2. ASSUME NEW j \in Jobs, Admit(j) PROVE Capacity'
  <2>1. ~CapacityFull /\ queue' = Append(queue, j) /\ running' = running
    BY <1>2 DEF Admit
  <2>2. Len(queue') = Len(queue) + 1
    BY <2>1, <1>r
  <2>. QED BY <2>1, <2>2, <1>c, <1>n, <1>r DEF Capacity, CapacityFull
<1>3. CASE RunQueueTake
  <2>1. /\ Cardinality(running) < MaxJobs /\ queue # <<>> /\ queue' = Tail(queue)
        /\ running' = running \cup {Head(queue)}
    BY <1>3 DEF RunQueueTake, CanTake
  <2>2. Len(queue') = Len(queue) - 1
    BY <2>1, <1>r
  <2>3. Cardinality(running') \in {Cardinality(running), Cardinality(running) + 1}
    BY <2>1, <1>c, FS_AddElement
  <2>. QED BY <2>1, <2>2, <2>3, <1>c, <1>n, <1>r DEF Capacity
<1>4. CASE Crash
  <2>1. queue' = <<>> /\ running' = {}
    BY <1>4 DEF Crash
  <2>. QED BY <2>1, <1>n, FS_EmptySet DEF Capacity
<1>5. CASE (GlobalStep /\ ~RunQueueTake /\ ~Crash) \/ UNCHANGED vars
  <2>1. queue' = queue /\ running' = running
    BY <1>5 DEF GlobalStep, Scheduling, DrainQueue, RunQueueStop, Quiesce, QuiesceEnd,
       TransferBegin, TransferEnd, Restart, Serve, vars, sched
  <2>. QED BY <2>1 DEF Capacity
<1>6. ASSUME NEW j \in Jobs, JobStep(j) PROVE Capacity'
  BY <1>1, <1>2, <1>6, JobEffect DEF IndInv, Effect
<1>. QED BY <1>3, <1>4, <1>5, <1>6, NextSplit

\* The drain worker is one goroutine.
LEMMA WorkerStep ==
    ASSUME IndInv, SingleWorker, [Next]_vars
    PROVE  SingleWorker'
<1>t. loops \in Nat /\ launch \in [Jobs -> LaunchPC]
  BY DEF IndInv, TypeOK
<1>s. SingleWorker <=> loops + Cardinality(Workers) = IF draining THEN 1 ELSE 0
  BY DEF SingleWorker, Workers, InWorker
<1>z. SingleWorker' <=> loops' + Cardinality(Workers') = IF draining' THEN 1 ELSE 0
  BY DEF SingleWorker, Workers, InWorker
<1>c. IsFiniteSet(Workers) /\ Cardinality(Workers) \in Nat
  BY JobSetFinite DEF Workers
<1>e. Cardinality(Workers) = 0 => Workers = {}
  BY <1>c, FS_EmptySet
<1>1. ASSUME loops' = loops, draining' = draining, Workers' = Workers PROVE SingleWorker'
  BY <1>s, <1>z, <1>1
<1>2. ASSUME NEW j \in Jobs, JobStep(j) PROVE SingleWorker'
  <2>1. \A k \in Jobs : k # j => launch'[k] = launch[k]
    BY <1>2, Frame DEF IndInv, Untouched
  <2>2. CASE Admit(j)
    <3>1. launch' = launch /\ loops' = loops /\ draining' = draining
      BY <2>2 DEF Admit
    <3>. QED BY <1>1, <3>1 DEF Workers, InWorker
  <2>3. CASE ~Admit(j)
    <3>1. Effect(j)
      BY <1>2, <2>3, JobEffect DEF IndInv
    <3>2. CASE loops' = loops /\ (InWorker(j)' <=> InWorker(j))
      <4>1. Workers' = Workers
        BY <2>1, <3>2 DEF Workers, InWorker
      <4>. QED BY <1>1, <3>1, <3>2, <4>1 DEF Effect
    <3>3. CASE loops' = loops + 1 /\ InWorker(j) /\ ~InWorker(j)'
      <4>1. Workers' = Workers \ {j} /\ j \in Workers
        BY <2>1, <3>3 DEF Workers, InWorker
      <4>2. Cardinality(Workers') = Cardinality(Workers) - 1
        BY <1>c, <4>1, FS_RemoveElement
      <4>. QED BY <1>c, <1>s, <1>t, <1>z, <3>1, <3>3, <4>2 DEF Effect
    <3>. QED BY <3>1, <3>2, <3>3 DEF Effect
  <2>. QED BY <2>2, <2>3
<1>3. CASE RunQueueTake
  <2>1. loops > 0 /\ loops' = loops - 1 /\ draining' = draining
    BY <1>3 DEF RunQueueTake
  <2>2. draining /\ loops = 1 /\ Workers = {}
    BY <1>c, <1>e, <1>s, <1>t, <2>1
  <2>3. Head(queue) \in Jobs /\ launch' = [launch EXCEPT ![Head(queue)] = "bind"]
    BY <1>3, TailMembers DEF RunQueueTake, CanTake, IndInv, TypeOK
  <2>4. Workers' = {Head(queue)}
    BY <1>t, <2>2, <2>3 DEF Workers, InWorker
  <2>5. Cardinality(Workers') = 1
    BY <2>4, FS_Singleton
  <2>. QED BY <1>z, <2>1, <2>2, <2>5
<1>4. CASE RunQueueStop
  <2>1. loops > 0 /\ loops' = loops - 1 /\ ~draining' /\ launch' = launch
    BY <1>4 DEF RunQueueStop, pcs
  <2>2. Workers' = Workers
    BY <2>1 DEF Workers, InWorker
  <2>. QED BY <1>c, <1>s, <1>t, <1>z, <2>1, <2>2
<1>5. CASE DrainQueue
  <2>1. draining' /\ loops' = (IF draining THEN loops ELSE loops + 1) /\ launch' = launch
    BY <1>5 DEF DrainQueue, pcs
  <2>2. Workers' = Workers
    BY <2>1 DEF Workers, InWorker
  <2>. QED BY <1>c, <1>s, <1>t, <1>z, <2>1, <2>2
<1>6. CASE Crash
  <2>1. ~draining' /\ loops' = 0 /\ launch' = [j \in Jobs |-> "idle"]
    BY <1>6 DEF Crash, All
  <2>2. Workers' = {}
    BY <2>1 DEF Workers, InWorker
  <2>. QED BY <1>z, <2>1, <2>2, FS_EmptySet
<1>7. CASE Quiesce \/ QuiesceEnd \/ TransferBegin \/ TransferEnd \/ Restart \/ Serve
           \/ UNCHANGED vars
  <2>1. loops' = loops /\ draining' = draining /\ launch' = launch
    BY <1>7 DEF Quiesce, QuiesceEnd, TransferBegin, TransferEnd, Restart, Serve, vars,
       sched, pcs
  <2>. QED BY <1>1, <2>1 DEF Workers, InWorker
<1>. QED BY <1>2, <1>3, <1>4, <1>5, <1>6, <1>7, NextSplit DEF GlobalStep, Scheduling

\* Setup keeps the runner quiet.
LEMMA SetupStep ==
    ASSUME IndInv, SetupInv, [Next]_vars
    PROVE  SetupInv'
<1>w. \A j : ~In(j, <<>>) /\ Without(<<>>, j) = <<>>
  BY DEF In, Without
<1>1. ASSUME NEW j \in Jobs, JobStep(j) PROVE SetupInv'
  <2>1. CASE Admit(j)
    BY <2>1 DEF Admit, SetupInv, setup
  <2>2. CASE Effect(j)
    BY <1>w, <2>2 DEF Effect, SetupInv
  <2>. QED BY <1>1, <2>1, <2>2, JobEffect DEF IndInv
<1>2. CASE GlobalStep
  <2>1. CASE RunQueueTake
    <3>1. queue # <<>> /\ quiesced' = quiesced
      BY <2>1 DEF RunQueueTake, CanTake, setup
    <3>. QED BY <3>1 DEF SetupInv
  <2>2. CASE Quiesce
    BY <2>2 DEF Quiesce, SetupInv, sched
  <2>3. CASE QuiesceEnd \/ Crash
    BY <2>3 DEF QuiesceEnd, Crash, SetupInv
  <2>4. CASE TransferBegin
    BY <2>4 DEF TransferBegin, SetupInv
  <2>5. CASE TransferEnd
    <3>1. transfers > 0 /\ quiesced' = quiesced /\ transfers \in Nat
      BY <2>5 DEF TransferEnd, IndInv, TypeOK
    <3>2. transfers # 0
      BY <3>1
    <3>. QED BY <3>1, <3>2 DEF SetupInv
  <2>6. CASE DrainQueue \/ RunQueueStop \/ Restart \/ Serve
    BY <2>6 DEF DrainQueue, RunQueueStop, Restart, Serve, SetupInv, sched, setup
  <2>. QED BY <1>2, <2>1, <2>2, <2>3, <2>4, <2>5, <2>6 DEF GlobalStep, Scheduling
<1>3. CASE UNCHANGED vars
  BY <1>3 DEF SetupInv, vars, sched, setup
<1>. QED BY <1>1, <1>2, <1>3, NextSplit

\* No wakeup is lost: whatever lets the head be taken leaves somebody who drains.
LEMMA WakeStep ==
    ASSUME IndInv, SingleWorker, NoLostWakeup, [Next]_vars
    PROVE  NoLostWakeup'
<1> DEFINE Awake == draining \/ drains > 0 \/ \E j \in Jobs : Wakes(j)
<1>n. NoLostWakeup <=> (CanTake => Awake)
  BY DEF NoLostWakeup, Wakes
<1>m. NoLostWakeup' <=> (CanTake' => Awake')
  BY DEF NoLostWakeup, Wakes
<1>t. /\ drains \in Nat /\ queue \in Seq(Jobs) /\ loops \in Nat
      /\ state \in [Jobs -> States]
  BY DEF IndInv, TypeOK
<1>h. queue # <<>> => Head(queue) \in Jobs
  BY <1>t
<1>1. ASSUME NEW j \in Jobs, JobStep(j) PROVE NoLostWakeup'
  <2>f. \A k \in Jobs : k # j => state'[k] = state[k] /\ (Wakes(k)' <=> Wakes(k))
    BY <1>1, Frame DEF IndInv, Untouched, Wakes
  <2>1. CASE Admit(j)
    <3>1. /\ queue' = Append(queue, j) /\ state' = [state EXCEPT ![j] = "staging"]
          /\ running' = running /\ draining' = draining /\ drains' = drains
          /\ fin' = fin /\ submit' = [submit EXCEPT ![j] = "stage"]
      BY <2>1 DEF Admit
    <3>2. submit \in [Jobs -> SubmitPC] /\ submit[j] = "idle"
      BY <2>1 DEF Admit, Known, IndInv, TypeOK, JobInv, KnownInv
    <3>3. Awake => Awake'
      BY <3>1, <3>2, <2>f DEF Wakes
    <3>4. queue = <<>> => Head(queue') = j
      BY <3>1
    <3>5. queue # <<>> => Head(queue') = Head(queue)
      BY <1>t, <3>1
    <3>6. CanTake' => CanTake
      BY <1>h, <1>t, <3>1, <3>4, <3>5 DEF CanTake
    <3>. QED BY <1>n, <1>m, <3>3, <3>6
  <2>2. CASE ~Admit(j)
    <3>1. Effect(j)
      BY <1>1, <2>2, JobEffect DEF IndInv
    <3>2. drains' = drains \/ drains' = drains + 1
      BY <3>1 DEF Effect
    <3>3. drains' = drains + 1 => Awake'
      BY <1>t
    <3>4. Wakes(j)' => Awake'
      OBVIOUS
    <3>5. Awake => Awake'
      <4>1. (draining => draining') /\ (drains > 0 => drains' > 0)
        BY <1>t, <3>1, <3>2 DEF Effect
      <4>2. ASSUME NEW k \in Jobs, Wakes(k) PROVE Awake'
        BY <2>f, <3>1, <3>3, <3>4, <4>2 DEF Effect
      <4>. QED BY <4>1, <4>2
    <3>6. ASSUME UNCHANGED <<running, queue>>, state'[j] = "queued" => state[j] = "queued"
          PROVE  CanTake' => CanTake
      BY <1>h, <2>f, <3>6 DEF CanTake
    <3> HIDE DEF Awake
    <3>. QED BY <1>n, <1>m, <3>1, <3>3, <3>4, <3>5, <3>6 DEF Effect
  <2>. QED BY <2>1, <2>2
<1>2. CASE DrainQueue
  BY <1>2, <1>m DEF DrainQueue
<1>3. CASE RunQueueStop
  <2>1. ~CanTake /\ UNCHANGED <<queue, running, state>>
    BY <1>3 DEF RunQueueStop
  <2>2. ~CanTake'
    BY <2>1 DEF CanTake
  <2>. QED BY <1>m, <2>2
<1>4. CASE RunQueueTake
  <2>1. loops > 0 /\ draining' = draining
    BY <1>4 DEF RunQueueTake
  <2>2. Cardinality(Workers) \in Nat
    BY JobSetFinite DEF Workers
  <2>3. loops + Cardinality(Workers) = IF draining THEN 1 ELSE 0
    BY DEF SingleWorker, Workers, InWorker
  <2>4. draining
    BY <1>t, <2>1, <2>2, <2>3
  <2>. QED BY <1>m, <2>1, <2>4
<1>5. CASE Crash
  <2>1. queue' = <<>>
    BY <1>5 DEF Crash
  <2>2. ~CanTake'
    BY <2>1 DEF CanTake
  <2>. QED BY <1>m, <2>2
<1>6. CASE Quiesce \/ QuiesceEnd \/ TransferBegin \/ TransferEnd \/ Restart \/ Serve
           \/ UNCHANGED vars
  <2>1. UNCHANGED <<queue, running, state, draining, drains, fin, submit>>
    BY <1>6 DEF Quiesce, QuiesceEnd, TransferBegin, TransferEnd, Restart, Serve, vars,
       sched, pcs
  <2>2. CanTake' => CanTake
    BY <2>1 DEF CanTake
  <2>3. Awake => Awake'
    BY <2>1 DEF Wakes
  <2>. QED BY <1>n, <1>m, <2>2, <2>3
<1>. QED BY <1>1, <1>2, <1>3, <1>4, <1>5, <1>6, NextSplit DEF GlobalStep, Scheduling

\* Nobody overtakes: admission puts a job last, the worker takes the first.
LEMMA OrderStep ==
    ASSUME IndInv, SingleWorker, OrderInv, [Next]_vars
    PROVE  OrderInv'
<1>t. /\ queue \in Seq(Jobs) /\ arrivals \in Seq(Jobs) /\ loops \in Nat
      /\ NoDuplicates(queue) /\ NoDuplicates(arrivals)
      /\ launch \in [Jobs -> LaunchPC]
  BY DEF IndInv, TypeOK, OrderInv
<1>1. ASSUME NEW j \in Jobs, Admit(j) PROVE OrderInv'
  <2>1. /\ arrivals' = Append(Without(arrivals, j), j) /\ queue' = Append(queue, j)
        /\ launch' = launch /\ proc' = proc /\ ~In(j, queue)
        /\ launch[j] = "idle" /\ Fresh(j)
    BY <1>1 DEF Admit, Known, IndInv, JobInv, KnownInv, DiskInv
  <2> DEFINE rest == Without(arrivals, j)
  <2>2. /\ rest \in Seq(Jobs) /\ NoDuplicates(rest)
        /\ \A x : In(x, rest) <=> In(x, arrivals) /\ x # j
    BY <1>t, WithoutType, WithoutMembers
  <2>3. \A x, y : Precedes(rest, x, y) <=> Precedes(arrivals, x, y) /\ x # j /\ y # j
    BY <1>t, WithoutPrecedes
  <2> HIDE DEF rest
  <2>4. \A x : In(x, arrivals') <=> In(x, rest) \/ x = j
    BY <2>1, <2>2, AppendMembers DEF rest
  <2>5. \A x, y : Precedes(arrivals', x, y) <=> Precedes(rest, x, y) \/ (In(x, rest) /\ y = j)
    BY <2>1, <2>2, AppendPrecedes DEF rest
  <2>6. \A x, y : Precedes(queue', x, y) <=> Precedes(queue, x, y) \/ (In(x, queue) /\ y = j)
    BY <1>t, <2>1, AppendPrecedes
  <2>7. \A x : In(x, queue') <=> In(x, queue) \/ x = j
    BY <1>t, <2>1, AppendMembers
  <2>8. NoDuplicates(arrivals')
    <3>1. arrivals' = Append(rest, j) /\ ~In(j, rest)
      BY <2>1, <2>2 DEF rest
    <3>. QED BY <2>2, <3>1 DEF NoDuplicates, In
  <2>9. ASSUME NEW x \in Jobs, In(x, queue') PROVE In(x, arrivals')
    BY <2>2, <2>4, <2>7, <2>9 DEF OrderInv
  <2>10. ASSUME NEW x \in Jobs, NEW y \in Jobs, Precedes(queue', x, y)
         PROVE  Precedes(arrivals', x, y)
    <3>1. CASE Precedes(queue, x, y)
      <4>1. In(x, queue) /\ In(y, queue)
        BY <3>1 DEF Precedes, In
      <4>2. x # j /\ y # j
        BY <2>1, <4>1
      <4>. QED BY <2>3, <2>5, <3>1, <4>2 DEF OrderInv
    <3>2. CASE In(x, queue) /\ y = j
      BY <2>1, <2>2, <2>5, <3>2 DEF OrderInv
    <3>. QED BY <2>6, <2>10, <3>1, <3>2
  <2>11. ASSUME NEW x \in Jobs, NEW y \in Jobs, Precedes(arrivals', x, y),
                In(x, queue') \/ Taken(x)'
         PROVE  Fresh(y)' /\ ~Taken(y)'
    <3>1. CASE y = j
      BY <2>1, <3>1 DEF Fresh, Taken
    <3>2. CASE y # j
      <4>1. Precedes(arrivals, x, y) /\ x # j
        BY <2>3, <2>5, <2>11, <3>2
      <4>2. In(x, queue) \/ Taken(x)
        BY <2>1, <2>7, <2>11, <4>1 DEF Taken
      <4>3. Fresh(y) /\ ~Taken(y)
        BY <4>1, <4>2 DEF OrderInv
      <4>. QED BY <2>1, <4>3 DEF Fresh, Taken
    <3>. QED BY <3>1, <3>2
  <2>. QED BY <2>8, <2>9, <2>10, <2>11 DEF OrderInv
<1>2. ASSUME NEW j \in Jobs, JobStep(j), ~Admit(j) PROVE OrderInv'
  <2>1. Effect(j)
    BY <1>2, JobEffect DEF IndInv
  <2>2. ASSUME NEW x \in Jobs
        PROVE  (Taken(x)' => Taken(x)) /\ (Fresh(x) => Fresh(x)' \/ Taken(x))
    <3>1. CASE x = j
      BY <2>1, <3>1 DEF Effect
    <3>2. CASE x # j
      BY <1>2, <3>2, Frame DEF IndInv, Untouched, Taken, Fresh
    <3>. QED BY <3>1, <3>2
  <2>3. arrivals' = arrivals /\ queue' \in {queue, Without(queue, j)}
    BY <2>1 DEF Effect
  <2>4. \A x : In(x, queue') => In(x, queue)
    BY <1>t, <2>3, WithoutMembers
  <2>5. \A x, y : Precedes(queue', x, y) => Precedes(queue, x, y)
    BY <1>t, <2>3, WithoutPrecedes
  <2>. QED BY <2>2, <2>3, <2>4, <2>5 DEF OrderInv
<1>3. CASE RunQueueTake
  <2> DEFINE h == Head(queue)
  <2>1. /\ loops > 0 /\ queue # <<>> /\ queue' = Tail(queue)
        /\ launch' = [launch EXCEPT ![h] = "bind"]
        /\ arrivals' = arrivals /\ proc' = proc
    BY <1>3 DEF RunQueueTake, CanTake, history
  <2>2. h \in Jobs /\ In(h, queue)
    BY <1>t, <2>1, TailMembers
  <2>3. \A x : In(x, queue') => In(x, queue) /\ x # h
    BY <1>t, <2>1, TailMembers
  <2>4. \A x, y : Precedes(queue', x, y) => Precedes(queue, x, y)
    BY <1>t, <2>1, TailPrecedes
  <2>5. \A x : In(x, queue) /\ x # h => Precedes(queue, h, x)
    BY <1>t, <2>1, TailPrecedes
  <2>6. \A x \in Jobs : ~Taken(x)
    <3>1. IsFiniteSet(Workers) /\ Cardinality(Workers) \in Nat
      BY JobSetFinite DEF Workers
    <3>2. loops + Cardinality(Workers) = IF draining THEN 1 ELSE 0
      BY DEF SingleWorker, Workers, InWorker
    <3>3. Cardinality(Workers) = 0
      BY <1>t, <2>1, <3>1, <3>2
    <3>4. Workers = {}
      BY <3>1, <3>3, FS_EmptySet
    <3>. QED BY <3>4 DEF Workers, InWorker, Taken
  <2> HIDE DEF h
  <2>7. ASSUME NEW x \in Jobs, NEW y \in Jobs, Precedes(arrivals, x, y),
               In(x, queue') \/ Taken(x)'
        PROVE  Fresh(y)' /\ ~Taken(y)'
    <3>1. x = h \/ (x # h /\ In(x, queue))
      BY <1>t, <2>1, <2>2, <2>3, <2>6, <2>7 DEF Taken
    <3>2. Fresh(y)
      BY <2>2, <2>7, <3>1 DEF OrderInv
    <3>3. y # h
      <4>1. CASE x = h
        BY <1>t, <2>7, <4>1, PrecedesStrict
      <4>2. CASE x # h /\ In(x, queue)
        <5>1. Precedes(arrivals, h, x)
          BY <2>2, <2>5, <4>2 DEF OrderInv
        <5>. QED BY <1>t, <2>7, <5>1, PrecedesStrict
      <4>. QED BY <3>1, <4>1, <4>2
    <3>4. ~Taken(y)'
      BY <1>t, <2>1, <2>6, <3>3 DEF Taken
    <3>. QED BY <2>1, <3>2, <3>4 DEF Fresh
  <2>. QED BY <2>1, <2>3, <2>4, <2>7 DEF OrderInv
<1>4. CASE Crash
  <2>1. queue' = <<>> /\ arrivals' = <<>>
    BY <1>4 DEF Crash
  <2>2. NoDuplicates(<<>>) /\ \A x, y : ~In(x, <<>>) /\ ~Precedes(<<>>, x, y)
    BY DEF NoDuplicates, In, Precedes
  <2>. QED BY <2>1, <2>2 DEF OrderInv
<1>5. CASE (GlobalStep /\ ~RunQueueTake /\ ~Crash) \/ UNCHANGED vars
  <2>1. UNCHANGED <<queue, arrivals, launch, proc>>
    BY <1>5 DEF GlobalStep, Scheduling, DrainQueue, RunQueueStop, Quiesce, QuiesceEnd,
       TransferBegin, TransferEnd, Restart, Serve, vars, sched, pcs, history
  <2>. QED BY <2>1 DEF OrderInv, Taken, Fresh
<1>. QED BY <1>1, <1>2, <1>3, <1>4, <1>5, NextSplit

----------------------------------------------------------------------------
\* The scheduler's invariant is inductive.
LEMMA SchedInvInit == Init => SchedInv
<1> SUFFICES ASSUME Init PROVE SchedInv
  OBVIOUS
<1>1. IndInv
  BY IndInvInit
<1>2. ASSUME NEW j \in Jobs PROVE HoldInv(j)
  BY DEF Init, All, HoldInv
<1>3. MaxJobs \in Nat /\ MaxQueued \in Nat
  BY JobRunnerAssumption
<1>4. SlotsBound
  <2>1. running = {} /\ queue = <<>> /\ \A j \in Jobs : launch[j] = "idle"
    BY DEF Init, All
  <2>. QED BY <1>3, <2>1, FS_EmptySet DEF SlotsBound
<1>5. SingleWorker
  <2>1. loops = 0 /\ ~draining
        /\ {j \in Jobs : launch[j] \in {"bind", "scoped", "ready", "finalize"}} = {}
    BY DEF Init, All
  <2>. QED BY <2>1, FS_EmptySet DEF SingleWorker
<1>6. SetupInv /\ NoLostWakeup
  BY DEF Init, SetupInv, NoLostWakeup, CanTake
<1>7. OrderInv
  <2>1. queue = <<>> /\ arrivals = <<>>
    BY DEF Init
  <2>2. NoDuplicates(<<>>) /\ \A x, y : ~In(x, <<>>) /\ ~Precedes(<<>>, x, y)
    BY DEF NoDuplicates, In, Precedes
  <2>. QED BY <2>1, <2>2 DEF OrderInv
<1>. QED BY <1>1, <1>2, <1>4, <1>5, <1>6, <1>7 DEF SchedInv

\* Every step keeps the inductive invariant.
LEMMA SchedInvStep == SchedInv /\ [Next]_vars => SchedInv'
<1> SUFFICES ASSUME SchedInv, [Next]_vars PROVE SchedInv'
  OBVIOUS
<1>1. IndInv'
  BY IndInvStep DEF SchedInv
<1>2. ASSUME NEW j \in Jobs PROVE HoldInv(j)'
  BY HoldsStep DEF SchedInv
<1>3. SlotsBound'
  <2>1. Capacity'
    BY CapacityStep DEF SchedInv, SlotsBound, Capacity
  <2>. QED BY <1>2, <2>1 DEF SlotsBound, Capacity, HoldInv
<1>4. SingleWorker' /\ SetupInv' /\ NoLostWakeup' /\ OrderInv'
  BY WorkerStep, SetupStep, WakeStep, OrderStep DEF SchedInv
<1>. QED BY <1>1, <1>2, <1>3, <1>4 DEF SchedInv

\* SchedInv holds in every reachable state.
THEOREM SchedulerInvariance == Spec => []SchedInv
BY SchedInvInit, SchedInvStep, PTL DEF Spec

\* However cancellations, setup, transfers, crashes and settlements interleave: the
\* slots are never overbooked, there is one drain worker, and a runner that setup
\* holds is quiet.
THEOREM SchedulerIsSound == Spec => []SchedulerSound
<1>1. ASSUME SchedInv PROVE SchedulerSound
  <2>1. TypeOK /\ SlotsBound /\ SingleWorker
    BY <1>1 DEF SchedInv, IndInv
  <2>2. ASSUME quiesced, NEW j \in Jobs
        PROVE  /\ launch[j] = "idle" /\ submit[j] \in {"idle", "record"}
               /\ fin[j] # "idle" => verdict[j] \in {"never_killed", "ambiguous"}
    <3>1. queue = <<>> /\ running = {} /\ ~In(j, queue)
      BY <1>1, <2>2 DEF SchedInv, SetupInv, In
    <3>2. HoldInv(j) /\ SubmitInv(j) /\ submit[j] \in SubmitPC
      BY <1>1 DEF SchedInv, IndInv, JobInv, TypeOK
    <3>. QED BY <3>1, <3>2 DEF HoldInv, SubmitInv, SubmitPC
  <2>3. QuiescedIsIdle
    BY <1>1, <2>2 DEF SchedInv, SetupInv, QuiescedIsIdle
  <2>. QED BY <2>1, <2>3 DEF SchedulerSound
<1>. QED BY <1>1, SchedulerInvariance, PTL

\* A job at the head of the queue that could be launched never waits for nobody.
THEOREM WakeupsKept == Spec => []NoLostWakeup
<1>1. SchedInv => NoLostWakeup
  BY DEF SchedInv
<1>. QED BY <1>1, SchedulerInvariance, PTL

\* Processes are started in the order in which this daemon admitted their jobs.
THEOREM StartsOrdered == Spec => StartsInOrder
<1>1. ASSUME SchedInv, [Next]_vars, NEW j \in Jobs, NEW k \in Jobs,
             starts'[j] # starts[j], Before(j, k)
      PROVE  starts[k] = 0
  <2>1. PICK i \in Jobs : StartProcess(i)
    <3>1. ~Silent
      BY <1>1 DEF Silent
    <3>. QED BY <1>1, <3>1, VisibleStep DEF SchedInv, Visible, Ends, Settles
  <2>2. i = j
    BY <1>1, <2>1 DEF StartProcess, SchedInv, IndInv, TypeOK
  <2>3. Taken(j)
    BY <2>1, <2>2 DEF StartProcess, MayStart, Taken
  <2>4. Precedes(arrivals, j, k)
    BY <1>1 DEF Before, Precedes
  <2>5. Fresh(k) /\ StartsInv(k)
    BY <1>1, <2>3, <2>4 DEF SchedInv, OrderInv, IndInv
  <2>. QED BY <2>5 DEF StartsInv
<1>2. SchedInv /\ [Next]_vars =>
          [\A j, k \in Jobs : starts'[j] # starts[j] /\ Before(j, k) => starts[k] = 0]_vars
  BY <1>1
<1>. QED BY <1>2, SchedulerInvariance, PTL DEF Spec, StartsInOrder

\* With or without faults, no job is settled twice: finalize, which closes j.done,
\* is entered once.
THEOREM SettlesOnce == Spec => []SettledOnce
<1>1. ASSUME SchedInv, NEW j \in Jobs PROVE finals[j] <= 1
  BY <1>1 DEF SchedInv, HoldInv
<1>2. SchedInv => SettledOnce
  BY <1>1 DEF SettledOnce
<1>. QED BY <1>2, SchedulerInvariance, PTL

\* Where result.json can be written, a cancellation that was answered with success
\* has left a killed receipt on disk; with SettlesOnce this is CancelSettles.
THEOREM CancelSettlesDurably == ASSUME ~Faults PROVE Spec => []CancelSettles
<1> DEFINE Inv == IndInv /\ \A j \in Jobs : KillInv(j)
<1>1. Init => Inv
  BY IndInvInit DEF Init, All, KillInv
<1>2. Inv /\ [Next]_vars => Inv'
  BY IndInvStep, KillStep
<1>3. Inv => AckedKillDurable
  BY DEF KillInv, AckedKillDurable
<1>4. SettledOnce /\ AckedKillDurable => CancelSettles
  BY DEF CancelSettles
<1>. QED BY <1>1, <1>2, <1>3, <1>4, SettlesOnce, PTL DEF Spec

-----------------------------------------------------------------------------
(* PortForward: the tunnels to the ports of a job                          *)

PFTypes ==
  /\ session \in {"bound", "started"}
  /\ closer \in {"no", "listeners", "conns", "wait", "returned"}
  /\ listening \in BOOLEAN /\ accepting \in {"off", "accept", "register", "gone"}
  /\ local \in [Conns -> {"none", "queued", "open", "eof", "closed"}]
  /\ relay \in [Conns -> {"none", "do", "copy", "unblock", "wait", "end"}]
  /\ upload \in [Conns -> {"none", "read", "write", "done"}]
  /\ pipe \in [Conns -> BOOLEAN] /\ cancelled \in [Conns -> BOOLEAN]

\* The listeners, and the one connection the accept goroutine holds.
AcceptInv ==
  /\ holding # {} => accepting = "register"
  /\ \A a, b \in holding : a = b
  /\ closer \in {"conns", "wait", "returned"} => ~listening
  /\ closer = "returned" => accepting \in {"off", "gone"}
  /\ session = "bound" => accepting = "off"

\* One connection.
ConnInv(c) ==
  /\ local[c] = "queued" => listening
  /\ c \in holding => relay[c] = "none" /\ local[c] \in {"open", "eof", "closed"}
  /\ relay[c] = "none" =>
       /\ upload[c] = "none"
       /\ local[c] \in {"open", "eof"} => c \in holding
  /\ relay[c] # "none" => upload[c] # "none" /\ local[c] \in {"open", "eof", "closed"}
  /\ relay[c] \in {"wait", "end"} => local[c] = "closed" /\ ~pipe[c]
  /\ relay[c] = "end" => upload[c] = "done"
  /\ closer # "no" /\ relay[c] \notin {"none", "end"} => cancelled[c]
  /\ closer = "returned" => relay[c] \in {"none", "end"}

PFInv == PFTypes /\ AcceptInv /\ \A c \in Conns : ConnInv(c)

-----------------------------------------------------------------------------
\* Steps of the session that leave every connection's goroutines alone.
LEMMA SessionKeeps ==
  ASSUME PFInv, Start \/ CloseBegin \/ SessionEnds
  PROVE  PFInv'
  <1>1. CASE Start
    BY <1>1 DEF PFInv, PFTypes, AcceptInv, ConnInv, Start, relayVars
  <1>2. CASE CloseBegin
    <2>1. PFTypes'
      BY <1>2 DEF PFInv, PFTypes, CloseBegin
    <2>2. AcceptInv'
      BY <1>2 DEF PFInv, AcceptInv, CloseBegin
    <2>3. ASSUME NEW c \in Conns PROVE ConnInv(c)'
      BY <1>2 DEF PFInv, PFTypes, ConnInv, CloseBegin, Registered
    <2> QED
      BY <2>1, <2>2, <2>3 DEF PFInv
  <1>3. CASE AcceptFails
    BY <1>3 DEF PFInv, PFTypes, AcceptInv, ConnInv, AcceptFails, relayVars
  <1>4. CASE CloseListeners
    <2>1. PFTypes'
      BY <1>4 DEF PFInv, PFTypes, CloseListeners
    <2>2. AcceptInv'
      BY <1>4 DEF PFInv, AcceptInv, CloseListeners
    <2>3. ASSUME NEW c \in Conns PROVE ConnInv(c)'
      BY <1>4 DEF PFInv, PFTypes, ConnInv, CloseListeners
    <2> QED
      BY <2>1, <2>2, <2>3 DEF PFInv
  <1>5. CASE CloseConnections
    <2>1. PFTypes'
      BY <1>5 DEF PFInv, PFTypes, CloseConnections
    <2>2. AcceptInv'
      BY <1>5 DEF PFInv, AcceptInv, CloseConnections
    <2>3. ASSUME NEW c \in Conns PROVE ConnInv(c)'
      BY <1>5 DEF PFInv, PFTypes, ConnInv, CloseConnections
    <2> QED
      BY <2>1, <2>2, <2>3 DEF PFInv
  <1>6. CASE CloseReturns
    <2>1. PFTypes'
      BY <1>6 DEF PFInv, PFTypes, CloseReturns, relayVars
    <2>2. AcceptInv'
      BY <1>6 DEF PFInv, AcceptInv, CloseReturns, Finished
    <2>3. ASSUME NEW c \in Conns PROVE ConnInv(c)'
      BY <1>6 DEF PFInv, PFTypes, ConnInv, CloseReturns, Finished, Registered, relayVars
    <2> QED
      BY <2>1, <2>2, <2>3 DEF PFInv
  <1> QED
    BY <1>1, <1>2, <1>3, <1>4, <1>5, <1>6 DEF SessionEnds

\* Steps of a connection, with the session's state.
LEMMA AcceptKeeps ==
  ASSUME PFInv, NEW c \in Conns,
         UserConnects(c) \/ UserLeaves(c) \/ Accept(c) \/ RegisterConn(c)
  PROVE  PFInv'
  <1>1. CASE UserConnects(c)
    <2>1. PFTypes' /\ AcceptInv'
      BY <1>1 DEF PFInv, PFTypes, AcceptInv, UserConnects, userVars
    <2>2. ASSUME NEW d \in Conns PROVE ConnInv(d)'
      BY <1>1 DEF PFInv, PFTypes, ConnInv, UserConnects, userVars
    <2> QED
      BY <2>1, <2>2 DEF PFInv
  <1>2. CASE UserLeaves(c)
    <2>1. PFTypes' /\ AcceptInv'
      BY <1>2 DEF PFInv, PFTypes, AcceptInv, UserLeaves, userVars
    <2>2. ASSUME NEW d \in Conns PROVE ConnInv(d)'
      BY <1>2 DEF PFInv, PFTypes, ConnInv, UserLeaves, userVars
    <2> QED
      BY <2>1, <2>2 DEF PFInv
  <1>3. CASE Accept(c)
    <2>1. PFTypes' /\ AcceptInv'
      BY <1>3 DEF PFInv, PFTypes, AcceptInv, Accept
    <2>2. holding = {} /\ relay[c] = "none"
      BY <1>3 DEF PFInv, AcceptInv, ConnInv, Accept
    <2>3. ASSUME NEW d \in Conns PROVE ConnInv(d)'
      BY <1>3, <2>2 DEF PFInv, PFTypes, ConnInv, Accept
    <2> QED
      BY <2>1, <2>3 DEF PFInv
  <1>4. CASE RegisterConn(c)
    <2>1. PFTypes' /\ AcceptInv'
      BY <1>4 DEF PFInv, PFTypes, AcceptInv, RegisterConn
    <2>2. \A d \in Conns \ {c} : d \notin holding
      BY <1>4 DEF PFInv, AcceptInv, RegisterConn
    <2>3. ASSUME NEW d \in Conns PROVE ConnInv(d)'
      BY <1>4, <2>2 DEF PFInv, PFTypes, AcceptInv, ConnInv, RegisterConn
    <2> QED
      BY <2>1, <2>3 DEF PFInv
  <1> QED
    BY <1>1, <1>2, <1>3, <1>4

\* Steps of the relay and of its upload.
LEMMA RelayKeeps ==
  ASSUME PFInv, NEW c \in Conns, UploadRead(c) \/ UploadWrite(c) \/ RelayStep(c)
  PROVE  PFInv'
  <1>1. UNCHANGED userVars
    BY DEF UploadRead, UploadWrite, RelayStep, UploadEnds, DoReturns, CopyEnds, Unblock, Leave, Relaying
  <1>2. PFTypes'
    BY <1>1 DEF PFInv, PFTypes, userVars, UploadRead, UploadWrite, RelayStep, UploadEnds, DoReturns,
       CopyEnds, Unblock, Leave, Goes
  <1>3. AcceptInv'
    BY <1>1 DEF PFInv, AcceptInv, userVars
  <1>4. ASSUME NEW d \in Conns PROVE ConnInv(d)'
    <2>1. CASE UploadRead(c) \/ UploadWrite(c) \/ UploadEnds(c)
      BY <1>1, <2>1 DEF PFInv, PFTypes, ConnInv, userVars, UploadRead, UploadWrite, UploadEnds, UploadOver
    <2>2. CASE DoReturns(c) \/ CopyEnds(c)
      BY <1>1, <2>2 DEF PFInv, PFTypes, ConnInv, userVars, DoReturns, CopyEnds, Goes
    <2>3. CASE Unblock(c) \/ Leave(c)
      BY <1>1, <2>3 DEF PFInv, PFTypes, ConnInv, userVars, Unblock, Leave, Goes
    <2> QED
      BY <2>1, <2>2, <2>3 DEF RelayStep
  <1> QED
    BY <1>2, <1>3, <1>4 DEF PFInv

\* Steps of the runner.
LEMMA RunnerKeeps ==
  ASSUME PFInv, UNCHANGED <<userVars, relayVars>>
  PROVE  PFInv'
  BY DEF PFInv, PFTypes, AcceptInv, ConnInv, userVars, relayVars

\* PFInv holds in every reachable state.
THEOREM ForwardInvariance == PFSpec => []PFInv
  <1>1. PFInit => PFInv
    BY DEF PFInit, PFInv, PFTypes, AcceptInv, ConnInv, Each
  <1>2. PFInv /\ [PFNext]_pfVars => PFInv'
    <2> SUFFICES ASSUME PFInv, [PFNext]_pfVars PROVE PFInv'
      OBVIOUS
    <2>1. ASSUME NEW c \in Conns, handleForward(c) \/ DialTCP(c) \/ Answer(c) \/ TunnelEnds(c)
          PROVE  UNCHANGED <<userVars, relayVars>>
      BY <2>1 DEF handleForward, DialTCP, Answer, TunnelEnds, Handles
    <2>2. CASE JobEnds \/ UNCHANGED pfVars
      BY <2>2, RunnerKeeps DEF JobEnds, pfVars
    <2> QED
      BY <2>1, <2>2, SessionKeeps, AcceptKeeps, RelayKeeps, RunnerKeeps DEF PFNext
  <1> QED
    BY <1>1, <1>2, PTL DEF PFSpec

\* Once Close has returned nothing of the session is left, and while it waits each
\* goroutine it waits for can go on.
THEOREM SessionsClose == PFSpec => []ForwardsClosed
  <1>1. PFInv => ForwardsClosed
    <2> SUFFICES ASSUME PFInv PROVE SessionClosed /\ CloseProgresses
      BY DEF ForwardsClosed
    <2>1. SessionClosed
      BY DEF PFInv, PFTypes, AcceptInv, ConnInv, SessionClosed, Finished, Registered
    <2>2. CloseProgresses
      BY DEF PFInv, PFTypes, AcceptInv, ConnInv, CloseProgresses, Registered, RelayMoves, UploadOver, NoAnswer
    <2> QED
      BY <2>1, <2>2
  <1> QED
    BY <1>1, ForwardInvariance, PTL

-----------------------------------------------------------------------------
(***************************************************************************)
(* The processes of one job (JobProcess), for any number of identifiers,   *)
(* signals, changes of processes and crashes of the daemon: cleanup kills  *)
(* no stranger and leaves nothing it could have recognised, and no signal  *)
(* is lost between the leader's exit and the collection (ProcessesSafe).   *)
(*                                                                         *)
(* The argument: as long as the leader is in the table, its group is the   *)
(* job's; once a cleanup has begun, identifiers are not used again and     *)
(* strangers do not move, so that what was known of the group stays true,  *)
(* and members(false) either meets the leader itself or would have met a   *)
(* stranger in the group.  A process that is recognised and was not        *)
(* changed since the listing is still to be read, or was found.            *)
(***************************************************************************)
Early  == {"launch", "start", "capture", "persist", "stop", "run", "waited"}
Scans  == {"list", "marks", "group", "judge", "kill"}
Ats    == Early \cup Scans \cup {"verify", "clean", "unclean", "publish", "settle", "over", "down", "refused"}
Procs  == [run : {"no", "yes", "zombie"}, grp : Pids \cup {0}, mark : BOOLEAN, cwd : BOOLEAN,
           mine : BOOLEAN, first : BOOLEAN]
ScanRecords == [listed : SUBSET Pids, found : SUBSET Pids, birth : {"none", "same", "other"}]

TableTypes == table \in [Pids -> Procs] /\ sharedWs \in BOOLEAN /\ booted \in BOOLEAN /\ stops \in Nat
ScanTypes  == scan \in ScanRecords
JobTypes   == /\ at \in Ats /\ scopeFile \in {"none", "token", "group"}
              /\ group \in BOOLEAN /\ owned \in BOOLEAN /\ setupErr \in BOOLEAN
CtlTypes   == /\ collection \in {"none", "armed", "cancelled", "publish", "kept", "ended"}
              /\ request \in [Signallers -> {"idle", "checked", "gone", "answered"}]
              /\ jobReaped \in BOOLEAN /\ cancelWanted \in BOOLEAN /\ owed \in BOOLEAN

\* Where the daemon is, and what it then knows of the group.
StageInv ==
  /\ at \in Early \cup {"publish"} => stops = 0
  /\ at \in {"down", "refused", "verify"} => stops > 0
  /\ at \in {"launch", "start", "capture"} => ~group
  /\ at \in {"persist", "verify"} => group
  /\ at = "down" => ~owned
  /\ booted => stops > 0
  /\ at \in {"capture", "persist", "stop", "run"} => table[1].first
  /\ stops = 0 /\ at \notin {"launch", "start"} => 1 \in used
  /\ at \in Scans \cup {"persist", "stop", "run", "waited"} /\ group => owned
  /\ at = "group" => group /\ ~booted
  /\ at \in Scans /\ sharedWs /\ ~group => stops = 0

\* Whoever is in the leader's group is the job's.
GroupKnown ==
  \/ stops = 0 /\ at # "over"
  \/ at \in Scans /\ owned /\ ~booted
  \/ at = "verify" /\ scan.birth = "same"
  \/ table[1].first

\* A process that no cleanup may pass over.
Recognised(p) == table[p].mine /\ (Marked(p) \/ (sharedWs /\ Alive(p) /\ table[p].grp = 1))

\* One entry of the process table.
EntryInv(p) ==
  /\ table[p].first => p = 1 /\ table[p].grp = 1 /\ table[p].mine /\ table[p].run # "no"
  /\ table[p].run = "zombie" => table[p].first
  /\ table[p].mark => table[p].mine
  /\ at \in {"launch", "start"} => table[p].run = "no"
  /\ booted => ~table[p].mine
  /\ GroupKnown /\ Alive(p) /\ table[p].grp = 1 => table[p].mine

\* Without the group of a shared job nothing of it was left alive.
StoppedInv(p) ==
  /\ at \in Scans \cup {"run", "waited"} /\ sharedWs /\ ~group =>
       /\ ~ (Alive(p) /\ table[p].grp = 1)
       /\ p = 1 => ~Alive(p)

\* What a scan has still to read or has found.
ScanInv(p) ==
  /\ at = "verify" /\ ~booted /\ Alive(p) /\ ~table[p].mine /\ table[p].grp = 1
       => p \in scan.listed \cup scan.found
  /\ at = "marks" /\ Marked(p) /\ p \notin moved => p \in scan.listed \cup scan.found
  /\ at = "group" /\ Marked(p) /\ p \notin moved => p \in scan.found
  /\ at = "group" /\ sharedWs /\ Alive(p) /\ table[p].grp = 1 /\ p \notin moved
       => p \in scan.listed \cup scan.found
  /\ at = "judge" /\ Recognised(p) /\ p \notin moved => p \in scan.found
  /\ at \in {"clean", "publish", "settle"} /\ Recognised(p) => p \in moved
  /\ at \in {"marks", "group", "judge", "kill"} /\ p \in scan.found /\ Alive(p) => table[p].mine \/ Marked(p)

\* Signals and the collection of changes.
CtlInv ==
  /\ stops > 0 => /\ \A r \in Signallers : request[r] = "idle"
                  /\ ~owed /\ ~jobReaped /\ collection = "none"
  /\ stops = 0 => (at \in Early <=> ~jobReaped)
  /\ jobReaped <=> collection # "none"
  /\ at = "publish" => collection = "publish"
  /\ owed => collection \in {"cancelled", "ended"} \/ (collection = "none" /\ cancelWanted)

JPInv ==
  /\ TableTypes /\ ScanTypes /\ JobTypes /\ CtlTypes
  /\ StageInv /\ CtlInv /\ ~strayKill
  /\ \A p \in Pids : EntryInv(p) /\ StoppedInv(p) /\ ScanInv(p)

-----------------------------------------------------------------------------
\* The smallest of a set of identifiers is in the set.
LEMMA MinIn ==
  ASSUME NEW S \in SUBSET Pids, S # {}
  PROVE  Min(S) \in S
  <1>1. S \in SUBSET Nat
    BY JobProcessAssumption
  <1>2. PICK x \in S : \A y \in S : ~ (<<y, x>> \in OpToRel(<, Nat))
    BY <1>1, WFMin, NatLessThanWellFounded
  <1>3. \A y \in S : ~ (y < x)
    BY <1>1, <1>2 DEF OpToRel
  <1>4. \A y \in S : x <= y
    BY <1>1, <1>3
  <1> QED
    BY <1>4 DEF Min

\* A process ends, or its leader stays a zombie.
Faded(p) ==
  \/ table'[p] = table[p]
  \/ table'[p] = NoProcess
  \/ table[p].first /\ table'[p] = [table[p] EXCEPT !.run = "zombie"]

\* What kill and exit do to the table.
LEMMA KillingFades ==
  ASSUME TableTypes, NEW S, table' = Killing(S)
  PROVE  /\ table' \in [Pids -> Procs]
         /\ \A p \in Pids : Faded(p)
         /\ stops = 0 => \A p \in Pids : table[p].first => table'[p].first
         /\ \A p \in Pids \cap S : table'[p].run # "yes"
         /\ \A p \in Pids \ S : table'[p] = table[p]
  <1>1. NoProcess \in Procs /\ NoProcess.run = "no" /\ \A p \in Pids : table[p] \in Procs
    BY DEF NoProcess, Procs, TableTypes
  <1>2. \A p \in Pids : /\ [table[p] EXCEPT !.run = "zombie"] \in Procs
                        /\ [table[p] EXCEPT !.run = "zombie"].run = "zombie"
                        /\ [table[p] EXCEPT !.run = "zombie"].first = table[p].first
    BY <1>1 DEF Procs
  <1> QED
    BY <1>1, <1>2 DEF Killing, Faded

\* A fading entry keeps what EntryInv says of it, at any place of the daemon, as long
\* as no more is known of the group.
LEMMA FadesEntry ==
  ASSUME TableTypes, NEW p \in Pids, EntryInv(p), Faded(p), Faded(1), at' \notin {"launch", "start"},
         booted' = booted, GroupKnown' => GroupKnown
  PROVE  EntryInv(p)'
  <1>1. table[p] \in Procs
    BY DEF TableTypes
  <1>2. CASE table'[p] = table[p]
    BY <1>2 DEF EntryInv, Alive
  <1>3. CASE table'[p] = NoProcess
    BY <1>3 DEF EntryInv, NoProcess, Alive
  <1>4. CASE table[p].first /\ table'[p] = [table[p] EXCEPT !.run = "zombie"]
    <2>1. /\ table'[p].first /\ table'[p].grp = table[p].grp /\ table'[p].mine = table[p].mine
          /\ table'[p].run = "zombie" /\ table'[p].mark = table[p].mark
      BY <1>1, <1>4 DEF Procs
    <2> QED
      BY <1>4, <2>1 DEF EntryInv, Alive
  <1> QED
    BY <1>2, <1>3, <1>4 DEF Faded

\* What lives on was not touched.
LEMMA FadedLives ==
  ASSUME TableTypes, NEW p \in Pids, Faded(p), Alive(p)'
  PROVE  table'[p] = table[p] /\ Alive(p)
  <1>1. CASE table[p].first /\ table'[p] = [table[p] EXCEPT !.run = "zombie"]
    <2>1. table'[p].run = "zombie"
      BY <1>1 DEF TableTypes, Procs
    <2> QED
      BY <2>1 DEF Alive
  <1> QED
    BY <1>1 DEF Faded, Alive, NoProcess

\* A process that starts or changes.
LEMMA MoveKeeps ==
  ASSUME JPInv, NEW p \in Pids, NEW to \in Procs, Moves(p, to),
         to.run = "yes", to.first = table[p].first, to.first => to.grp = 1 /\ to.mine,
         to.mark => to.mine, at \notin {"launch", "start"}, booted => ~to.mine,
         at \notin {"run", "down", "refused", "over"} => to.mine,
         GroupKnown /\ to.grp = 1 => to.mine,
         at \in Scans \cup {"run", "waited"} /\ sharedWs /\ ~group => to.grp # 1 /\ p # 1
  PROVE  JPInv'
  <1>1. /\ table' = [table EXCEPT ![p] = to] /\ used' = used \union {p} /\ moved' = moved \union {p}
        /\ UNCHANGED <<sharedWs, booted, stops, at, scopeFile, group, owned, setupErr, scan,
                       request, jobReaped, cancelWanted, collection, owed, strayKill>>
    BY DEF Moves, jobVars, ctlVars
  <1>2. TableTypes' /\ ScanTypes' /\ JobTypes' /\ CtlTypes' /\ CtlInv' /\ ~strayKill'
    BY <1>1 DEF JPInv, TableTypes, ScanTypes, JobTypes, CtlTypes, CtlInv
  <1>3. /\ \A q \in Pids : table'[q] = IF q = p THEN to ELSE table[q]
        /\ \A q \in Pids : table'[q].first = table[q].first
        /\ 1 \in Pids
    BY <1>1, JobProcessAssumption DEF JPInv, TableTypes
  <1>4. StageInv'
    BY <1>1, <1>3 DEF JPInv, StageInv
  <1>5. GroupKnown' <=> GroupKnown
    BY <1>1, <1>3 DEF GroupKnown
  <1>6. ASSUME NEW q \in Pids PROVE EntryInv(q)' /\ StoppedInv(q)' /\ ScanInv(q)'
    <2>1. EntryInv(q) /\ StoppedInv(q) /\ ScanInv(q)
      BY DEF JPInv
    <2>2. CASE q = p
      <3>1. table'[q] = to /\ q \in moved'
        BY <1>1, <1>3, <2>2
      <3>2. EntryInv(q)'
        BY <1>1, <1>5, <2>1, <2>2, <3>1 DEF EntryInv, Alive
      <3>3. StoppedInv(q)'
        BY <1>1, <2>2, <3>1 DEF StoppedInv
      <3>4. ScanInv(q)'
        BY <1>1, <3>1 DEF ScanInv
      <3> QED
        BY <3>2, <3>3, <3>4
    <2>3. CASE q # p
      <3>1. table'[q] = table[q] /\ (q \in moved' <=> q \in moved)
        BY <1>1, <1>3, <2>3
      <3>2. EntryInv(q)'
        BY <1>1, <1>5, <2>1, <3>1 DEF EntryInv, Alive
      <3>3. StoppedInv(q)'
        BY <1>1, <2>1, <3>1 DEF StoppedInv, Alive
      <3>4. ScanInv(q)'
        BY <1>1, <2>1, <3>1 DEF ScanInv, Alive, Marked, Recognised
      <3> QED
        BY <3>2, <3>3, <3>4
    <2> QED
      BY <2>2, <2>3
  <1> QED
    BY <1>2, <1>4, <1>6 DEF JPInv

\* Processes fork, leave their group, scrub their environment, change directory.
LEMMA ProcessesKeep ==
  ASSUME JPInv,
         \/ \E p, q \in Pids : Fork(p, q)
         \/ \E p \in Pids : Setsid(p) \/ ScrubEnv(p) \/ Chdir(p) \/ Stranger(p)
  PROVE  JPInv'
  <1>1. /\ 1 \in Pids /\ \A p \in Pids : table[p] \in Procs /\ EntryInv(p) /\ StoppedInv(p)
        /\ StageInv /\ at \in Ats /\ stops \in Nat
    BY JobProcessAssumption DEF JPInv, TableTypes, JobTypes
  <1>2. ASSUME NEW p \in Pids, Alive(p)
        PROVE  /\ at \notin {"launch", "start"}
               /\ at \in Scans \cup {"run", "waited"} /\ sharedWs /\ ~group => table[p].grp # 1 /\ p # 1
    BY <1>1, <1>2 DEF EntryInv, StoppedInv, Alive
  <1>3. ASSUME NEW p \in Pids, NEW q \in Pids, Fork(p, q) PROVE JPInv'
    <2> DEFINE to == [table[p] EXCEPT !.first = FALSE]
    <2>1. /\ to \in Procs /\ to.run = "yes" /\ ~to.first /\ to.mine = table[p].mine
          /\ to.mark = table[p].mark /\ to.grp = table[p].grp
      BY <1>1, <1>3 DEF Procs, Fork, Active, Alive
    <2>2. Alive(p) /\ Unused(q) /\ Moves(q, to) /\ (table[p].mine \/ Quiet)
      BY <1>3 DEF Fork, Active
    <2>3. ~table[q].first
      BY <1>1, <2>2 DEF EntryInv, Unused
    <2>4. at \notin {"run", "down", "refused", "over"} => table[p].mine
      BY <2>2 DEF Quiet
    <2>5. at \in Scans \cup {"run", "waited"} /\ sharedWs /\ ~group => q # 1
      <3>1. CASE at = "run"
        BY <1>1, <2>2, <3>1 DEF StageInv, EntryInv, Unused
      <3>2. CASE at \in Scans \cup {"waited"} /\ sharedWs /\ ~group
        BY <1>1, <2>2, <3>2 DEF StageInv, Unused, Quiet, Scans, Early
      <3> QED
        BY <3>1, <3>2
    <2>6. /\ to.first = table[q].first /\ (to.mark => to.mine) /\ (booted => ~to.mine)
          /\ GroupKnown /\ to.grp = 1 => to.mine
      BY <1>1, <2>1, <2>2, <2>3 DEF EntryInv, Procs
    <2>7. at \notin {"launch", "start"}
      BY <1>2, <2>2
    <2>8. at \in Scans \cup {"run", "waited"} /\ sharedWs /\ ~group => to.grp # 1
      BY <1>2, <2>1, <2>2
    <2> HIDE DEF to
    <2> QED
      BY <2>1, <2>2, <2>4, <2>5, <2>6, <2>7, <2>8, MoveKeeps
  <1>4. ASSUME NEW p \in Pids, Setsid(p) PROVE JPInv'
    <2> DEFINE to == [table[p] EXCEPT !.grp = p]
    <2>1. /\ to \in Procs /\ to.run = "yes" /\ to.first = table[p].first /\ to.mine /\ to.grp = p
      BY <1>1, <1>4 DEF Procs, Setsid, Alive
    <2>2. Alive(p) /\ Moves(p, to) /\ table[p].mine /\ table[p].grp # p
      BY <1>4 DEF Setsid
    <2>3. ~table[p].first /\ ~booted
      BY <1>1, <2>2 DEF EntryInv
    <2> HIDE DEF to
    <2> QED
      BY <1>2, <2>1, <2>2, <2>3, MoveKeeps
  <1>5. ASSUME NEW p \in Pids, ScrubEnv(p) PROVE JPInv'
    <2> DEFINE to == [table[p] EXCEPT !.mark = FALSE]
    <2>1. /\ to \in Procs /\ to.run = "yes" /\ to.first = table[p].first /\ to.mine = table[p].mine
          /\ to.grp = table[p].grp /\ ~to.mark
      BY <1>1, <1>5 DEF Procs, ScrubEnv, Alive
    <2>2. Alive(p) /\ Moves(p, to) /\ table[p].mine
      BY <1>1, <1>5 DEF ScrubEnv, EntryInv
    <2> HIDE DEF to
    <2> QED
      BY <1>1, <1>2, <2>1, <2>2, MoveKeeps DEF EntryInv
  <1>6. ASSUME NEW p \in Pids, Chdir(p) PROVE JPInv'
    <2> DEFINE to == [table[p] EXCEPT !.cwd = ~table[p].cwd]
    <2>1. /\ to \in Procs /\ to.run = "yes" /\ to.first = table[p].first /\ to.mine = table[p].mine
          /\ to.grp = table[p].grp /\ to.mark = table[p].mark
      BY <1>1, <1>6 DEF Procs, Chdir, Alive
    <2>2. Alive(p) /\ Moves(p, to) /\ table[p].mine
      BY <1>6 DEF Chdir
    <2> HIDE DEF to
    <2> QED
      BY <1>1, <1>2, <2>1, <2>2, MoveKeeps DEF EntryInv
  <1>7. ASSUME NEW p \in Pids, Stranger(p) PROVE JPInv'
    <2>1. PICK c \in BOOLEAN : Moves(p, [NoProcess EXCEPT !.run = "yes", !.grp = p, !.cwd = c])
      BY <1>7 DEF Stranger
    <2> DEFINE to == [NoProcess EXCEPT !.run = "yes", !.grp = p, !.cwd = c]
    <2>2. /\ to \in Procs /\ to.run = "yes" /\ ~to.first /\ ~to.mine /\ to.grp = p /\ ~to.mark
      BY DEF Procs, NoProcess
    <2>3. table[p].run = "no" /\ ~table[p].first /\ at \in {"run", "down", "refused", "over"}
      BY <1>1, <1>7 DEF Stranger, Unused, Quiet, EntryInv
    <2>4. p = 1 => ~GroupKnown /\ at # "run"
      BY <1>1, <2>3 DEF GroupKnown, StageInv, Scans
    <2>5. at \notin Scans \cup {"waited"}
      BY <2>3 DEF Scans
    <2>6. to.first = table[p].first
      BY <1>1, <2>2, <2>3 DEF Procs
    <2>7. Moves(p, to)
      BY <2>1
    <2> HIDE DEF to
    <2> QED
      BY <2>2, <2>3, <2>4, <2>5, <2>6, <2>7, MoveKeeps
  <1> QED
    BY <1>3, <1>4, <1>5, <1>6, <1>7

\* launch: the marker is written.
LEMMA WriteScopeKeeps ==
  ASSUME JPInv, writeScope
  PROVE  JPInv'
  <1>1. /\ at = "launch" /\ at' = "start" /\ scopeFile' = "token"
        /\ UNCHANGED <<sharedWs, table, booted, used, moved, stops, group, owned,
                       setupErr, scan, request, jobReaped, cancelWanted, collection, owed, strayKill>>
    BY DEF writeScope, Calm, osVars, jobVars, ctlVars
  <1>3. TableTypes' /\ ScanTypes'
    BY <1>1 DEF JPInv, TableTypes, ScanTypes
  <1>4. JobTypes' /\ CtlTypes'
    BY <1>1 DEF JPInv, JobTypes, CtlTypes, Ats, Early, Scans
  <1>5. StageInv'
    BY <1>1 DEF JPInv, TableTypes, JobTypes, StageInv, Early, Scans
  <1>6. CtlInv' /\ ~strayKill'
    BY <1>1 DEF JPInv, TableTypes, CtlTypes, StageInv, CtlInv, Early, Scans
  <1>7. ASSUME NEW q \in Pids PROVE EntryInv(q)' /\ StoppedInv(q)' /\ ScanInv(q)'
    <2>1. /\ EntryInv(q) /\ StoppedInv(q) /\ ScanInv(q) /\ StageInv /\ table[q] \in Procs
          /\ stops \in Nat
      BY DEF JPInv, TableTypes
    <2>2. EntryInv(q)'
      BY <1>1, <2>1 DEF EntryInv, Alive, GroupKnown, StageInv, Early, Scans
    <2>3. StoppedInv(q)'
      BY <1>1, <2>1 DEF StoppedInv, Alive, StageInv, Early, Scans
    <2>4. ScanInv(q)'
      BY <1>1, <2>1 DEF ScanInv, Alive, Marked, Recognised, StageInv, Early, Scans
    <2> QED
      BY <2>2, <2>3, <2>4
  <1> QED
    BY <1>3, <1>4, <1>5, <1>6, <1>7 DEF JPInv

\* launch: the group is captured, or the command must be stopped.
LEMMA CaptureKeeps ==
  ASSUME JPInv, captureProcessGroup
  PROVE  JPInv'
  <1>1. /\ at = "capture"
        /\ \/ at' = "persist" /\ group' = TRUE /\ owned' = TRUE /\ UNCHANGED setupErr
           \/ at' = "stop" /\ setupErr' = TRUE /\ UNCHANGED <<group, owned>>
        /\ UNCHANGED <<sharedWs, table, booted, used, moved, stops, scopeFile, scan,
                       request, jobReaped, cancelWanted, collection, owed, strayKill>>
    BY DEF captureProcessGroup, Calm, osVars, jobVars, ctlVars
  <1>3. TableTypes' /\ ScanTypes'
    BY <1>1 DEF JPInv, TableTypes, ScanTypes
  <1>4. JobTypes' /\ CtlTypes'
    BY <1>1 DEF JPInv, JobTypes, CtlTypes, Ats, Early, Scans
  <1>5. StageInv'
    BY <1>1 DEF JPInv, TableTypes, JobTypes, StageInv, Early, Scans
  <1>6. CtlInv' /\ ~strayKill'
    BY <1>1 DEF JPInv, TableTypes, CtlTypes, StageInv, CtlInv, Early, Scans
  <1>7. ASSUME NEW q \in Pids PROVE EntryInv(q)' /\ StoppedInv(q)' /\ ScanInv(q)'
    <2>1. /\ EntryInv(q) /\ StoppedInv(q) /\ ScanInv(q) /\ StageInv /\ table[q] \in Procs
          /\ stops \in Nat
      BY DEF JPInv, TableTypes
    <2>2. EntryInv(q)'
      BY <1>1, <2>1 DEF EntryInv, Alive, GroupKnown, StageInv, Early, Scans
    <2>3. StoppedInv(q)'
      BY <1>1, <2>1 DEF StoppedInv, Alive, StageInv, Early, Scans
    <2>4. ScanInv(q)'
      BY <1>1, <2>1 DEF ScanInv, Alive, Marked, Recognised, StageInv, Early, Scans
    <2> QED
      BY <2>2, <2>3, <2>4
  <1> QED
    BY <1>3, <1>4, <1>5, <1>6, <1>7 DEF JPInv

\* launch: the group is recorded.
LEMMA PersistKeeps ==
  ASSUME JPInv, writeProcessScope
  PROVE  JPInv'
  <1>1. /\ at = "persist" /\ at' \in {"run", "stop"} /\ scopeFile' \in {scopeFile, "group"}
        /\ group
        /\ UNCHANGED <<sharedWs, table, booted, used, moved, stops, group, owned,
                       setupErr, scan, request, jobReaped, cancelWanted, collection, owed, strayKill>>
    BY DEF writeProcessScope, JPInv, StageInv, Calm, osVars, jobVars, ctlVars
  <1>3. TableTypes' /\ ScanTypes'
    BY <1>1 DEF JPInv, TableTypes, ScanTypes
  <1>4. JobTypes' /\ CtlTypes'
    BY <1>1 DEF JPInv, JobTypes, CtlTypes, Ats, Early, Scans
  <1>5. StageInv'
    BY <1>1 DEF JPInv, TableTypes, JobTypes, StageInv, Early, Scans
  <1>6. CtlInv' /\ ~strayKill'
    BY <1>1 DEF JPInv, TableTypes, CtlTypes, StageInv, CtlInv, Early, Scans
  <1>7. ASSUME NEW q \in Pids PROVE EntryInv(q)' /\ StoppedInv(q)' /\ ScanInv(q)'
    <2>1. /\ EntryInv(q) /\ StoppedInv(q) /\ ScanInv(q) /\ StageInv /\ table[q] \in Procs
          /\ stops \in Nat
      BY DEF JPInv, TableTypes
    <2>2. EntryInv(q)'
      BY <1>1, <2>1 DEF EntryInv, Alive, GroupKnown, StageInv, Early, Scans
    <2>3. StoppedInv(q)'
      BY <1>1, <2>1 DEF StoppedInv, Alive, StageInv, Early, Scans
    <2>4. ScanInv(q)'
      BY <1>1, <2>1 DEF ScanInv, Alive, Marked, Recognised, StageInv, Early, Scans
    <2> QED
      BY <2>2, <2>3, <2>4
  <1> QED
    BY <1>3, <1>4, <1>5, <1>6, <1>7 DEF JPInv

\* The leader was waited for.
LEMMA TransitionKeeps ==
  ASSUME JPInv, transitionAfterProcessExit
  PROVE  JPInv'
  <1>1. /\ at = "waited" /\ at' = "list" /\ jobReaped' = TRUE /\ cancelWanted' = FALSE
        /\ collection' = (IF cancelWanted THEN "cancelled" ELSE "armed")
        /\ UNCHANGED <<sharedWs, table, booted, used, moved, stops, scopeFile, group,
                       owned, setupErr, scan, request, owed, strayKill>>
    BY DEF transitionAfterProcessExit, Calm, osVars, jobVars, ctlVars
  <1>3. TableTypes' /\ ScanTypes'
    BY <1>1 DEF JPInv, TableTypes, ScanTypes
  <1>4. JobTypes' /\ CtlTypes'
    BY <1>1 DEF JPInv, JobTypes, CtlTypes, Ats, Early, Scans
  <1>5. StageInv'
    BY <1>1 DEF JPInv, TableTypes, JobTypes, StageInv, Early, Scans
  <1>6. CtlInv' /\ ~strayKill'
    BY <1>1 DEF JPInv, TableTypes, CtlTypes, StageInv, CtlInv, Early, Scans
  <1>7. ASSUME NEW q \in Pids PROVE EntryInv(q)' /\ StoppedInv(q)' /\ ScanInv(q)'
    <2>1. /\ EntryInv(q) /\ StoppedInv(q) /\ ScanInv(q) /\ StageInv /\ table[q] \in Procs
          /\ stops \in Nat
      BY DEF JPInv, TableTypes
    <2>2. EntryInv(q)'
      BY <1>1, <2>1 DEF EntryInv, Alive, GroupKnown, StageInv, Early, Scans
    <2>3. StoppedInv(q)'
      BY <1>1, <2>1 DEF StoppedInv, Alive, StageInv, Early, Scans
    <2>4. ScanInv(q)'
      BY <1>1, <2>1 DEF ScanInv, Alive, Marked, Recognised, StageInv, Early, Scans
    <2> QED
      BY <2>2, <2>3, <2>4
  <1> QED
    BY <1>3, <1>4, <1>5, <1>6, <1>7 DEF JPInv

\* A scan begins.
LEMMA ListKeeps ==
  ASSUME JPInv, ListProcesses
  PROVE  JPInv'
  <1>1. /\ at = "list" /\ at' = "marks" /\ scan' = [NoScan EXCEPT !.listed = Listed] /\ moved' = {}
        /\ UNCHANGED <<sharedWs, table, booted, used, stops, scopeFile, group, owned,
                       setupErr, request, jobReaped, cancelWanted, collection, owed, strayKill>>
    BY DEF ListProcesses, Calm, osVars, jobVars, ctlVars
  <1>2. /\ scan' \in ScanRecords /\ scan'.listed = Listed /\ scan'.found = {}
        /\ \A p \in Pids : Alive(p) => p \in Listed
    BY <1>1 DEF NoScan, ScanRecords, Listed, Alive
  <1>3. TableTypes' /\ ScanTypes'
    BY <1>1, <1>2 DEF JPInv, TableTypes, ScanTypes
  <1>4. JobTypes' /\ CtlTypes'
    BY <1>1, <1>2 DEF JPInv, JobTypes, CtlTypes, Ats, Early, Scans
  <1>5. StageInv'
    BY <1>1, <1>2 DEF JPInv, TableTypes, JobTypes, StageInv, Early, Scans
  <1>6. CtlInv' /\ ~strayKill'
    BY <1>1, <1>2 DEF JPInv, TableTypes, CtlTypes, StageInv, CtlInv, Early, Scans
  <1>7. ASSUME NEW q \in Pids PROVE EntryInv(q)' /\ StoppedInv(q)' /\ ScanInv(q)'
    <2>1. /\ EntryInv(q) /\ StoppedInv(q) /\ ScanInv(q) /\ StageInv /\ table[q] \in Procs
          /\ stops \in Nat
      BY DEF JPInv, TableTypes
    <2>2. EntryInv(q)'
      BY <1>1, <2>1, <1>2 DEF EntryInv, Alive, GroupKnown, StageInv, Early, Scans
    <2>3. StoppedInv(q)'
      BY <1>1, <2>1, <1>2 DEF StoppedInv, Alive, StageInv, Early, Scans
    <2>4. ScanInv(q)'
      BY <1>1, <2>1, <1>2 DEF ScanInv, Alive, Marked, Recognised, StageInv, Early, Scans
    <2> QED
      BY <2>2, <2>3, <2>4
  <1> QED
    BY <1>3, <1>4, <1>5, <1>6, <1>7 DEF JPInv

\* The scan is repeated, or given up.
LEMMA CleanupAgainKeeps ==
  ASSUME JPInv, CleanupAgain
  PROVE  JPInv'
  <1>1. /\ at = "kill" /\ at' \in {"list", "unclean"} /\ scan' = NoScan
        /\ UNCHANGED <<sharedWs, table, booted, used, moved, stops, scopeFile, group,
                       owned, setupErr, request, jobReaped, cancelWanted, collection, owed, strayKill>>
    BY DEF CleanupAgain, ScanTo, Calm, osVars, jobVars, ctlVars
  <1>2. scan' \in ScanRecords
    BY <1>1 DEF NoScan, ScanRecords
  <1>3. TableTypes' /\ ScanTypes'
    BY <1>1, <1>2 DEF JPInv, TableTypes, ScanTypes
  <1>4. JobTypes' /\ CtlTypes'
    BY <1>1, <1>2 DEF JPInv, JobTypes, CtlTypes, Ats, Early, Scans
  <1>5. StageInv'
    BY <1>1, <1>2 DEF JPInv, TableTypes, JobTypes, StageInv, Early, Scans
  <1>6. CtlInv' /\ ~strayKill'
    BY <1>1, <1>2 DEF JPInv, TableTypes, CtlTypes, StageInv, CtlInv, Early, Scans
  <1>7. ASSUME NEW q \in Pids PROVE EntryInv(q)' /\ StoppedInv(q)' /\ ScanInv(q)'
    <2>1. /\ EntryInv(q) /\ StoppedInv(q) /\ ScanInv(q) /\ StageInv /\ table[q] \in Procs
          /\ stops \in Nat
      BY DEF JPInv, TableTypes
    <2>2. EntryInv(q)'
      BY <1>1, <2>1, <1>2 DEF EntryInv, Alive, GroupKnown, StageInv, Early, Scans
    <2>3. StoppedInv(q)'
      BY <1>1, <2>1, <1>2 DEF StoppedInv, Alive, StageInv, Early, Scans
    <2>4. ScanInv(q)'
      BY <1>1, <2>1, <1>2 DEF ScanInv, Alive, Marked, Recognised, StageInv, Early, Scans
    <2> QED
      BY <2>2, <2>3, <2>4
  <1> QED
    BY <1>3, <1>4, <1>5, <1>6, <1>7 DEF JPInv

\* The scan found nothing, or what it found is killed.
LEMMA JudgeKeeps ==
  ASSUME JPInv, JudgeScan
  PROVE  JPInv'
  <1>1. /\ at = "judge" /\ at' = (IF scan.found = {} THEN "clean" ELSE "kill")
        /\ UNCHANGED <<sharedWs, table, booted, used, moved, stops, scopeFile, group,
                       owned, setupErr, scan, request, jobReaped, cancelWanted, collection, owed, strayKill>>
    BY DEF JudgeScan, ScanTo, Calm, osVars, jobVars, ctlVars
  <1>3. TableTypes' /\ ScanTypes'
    BY <1>1 DEF JPInv, TableTypes, ScanTypes
  <1>4. JobTypes' /\ CtlTypes'
    BY <1>1 DEF JPInv, JobTypes, CtlTypes, Ats, Early, Scans
  <1>5. StageInv'
    BY <1>1 DEF JPInv, TableTypes, JobTypes, StageInv, Early, Scans
  <1>6. CtlInv' /\ ~strayKill'
    BY <1>1 DEF JPInv, TableTypes, CtlTypes, StageInv, CtlInv, Early, Scans
  <1>7. ASSUME NEW q \in Pids PROVE EntryInv(q)' /\ StoppedInv(q)' /\ ScanInv(q)'
    <2>1. /\ EntryInv(q) /\ StoppedInv(q) /\ ScanInv(q) /\ StageInv /\ table[q] \in Procs
          /\ stops \in Nat
      BY DEF JPInv, TableTypes
    <2>2. EntryInv(q)'
      BY <1>1, <2>1 DEF EntryInv, Alive, GroupKnown, StageInv, Early, Scans
    <2>3. StoppedInv(q)'
      BY <1>1, <2>1 DEF StoppedInv, Alive, StageInv, Early, Scans
    <2>4. ScanInv(q)'
      BY <1>1, <2>1 DEF ScanInv, Alive, Marked, Recognised, StageInv, Early, Scans
    <2> QED
      BY <2>2, <2>3, <2>4
  <1> QED
    BY <1>3, <1>4, <1>5, <1>6, <1>7 DEF JPInv

\* The group was read.
LEMMA GroupReadKeeps ==
  ASSUME JPInv, GroupRead
  PROVE  JPInv'
  <1>1. /\ at = "group" /\ scan.listed = {} /\ at' \in {"unclean", "judge"}
        /\ UNCHANGED <<sharedWs, table, booted, used, moved, stops, scopeFile, group,
                       owned, setupErr, scan, request, jobReaped, cancelWanted, collection, owed, strayKill>>
    BY DEF GroupRead, ScanTo, Calm, osVars, jobVars, ctlVars
  <1>3. TableTypes' /\ ScanTypes'
    BY <1>1 DEF JPInv, TableTypes, ScanTypes
  <1>4. JobTypes' /\ CtlTypes'
    BY <1>1 DEF JPInv, JobTypes, CtlTypes, Ats, Early, Scans
  <1>5. StageInv'
    BY <1>1 DEF JPInv, TableTypes, JobTypes, StageInv, Early, Scans
  <1>6. CtlInv' /\ ~strayKill'
    BY <1>1 DEF JPInv, TableTypes, CtlTypes, StageInv, CtlInv, Early, Scans
  <1>7. ASSUME NEW q \in Pids PROVE EntryInv(q)' /\ StoppedInv(q)' /\ ScanInv(q)'
    <2>1. /\ EntryInv(q) /\ StoppedInv(q) /\ ScanInv(q) /\ StageInv /\ table[q] \in Procs
          /\ stops \in Nat
      BY DEF JPInv, TableTypes
    <2>2. EntryInv(q)'
      BY <1>1, <2>1 DEF EntryInv, Alive, GroupKnown, StageInv, Early, Scans
    <2>3. StoppedInv(q)'
      BY <1>1, <2>1 DEF StoppedInv, Alive, StageInv, Early, Scans
    <2>4. ScanInv(q)'
      BY <1>1, <2>1 DEF ScanInv, Alive, Marked, Recognised, StageInv, Early, Scans
    <2> QED
      BY <2>2, <2>3, <2>4
  <1> QED
    BY <1>3, <1>4, <1>5, <1>6, <1>7 DEF JPInv

\* The markers were read.
LEMMA MarksReadKeeps ==
  ASSUME JPInv, MarksRead
  PROVE  JPInv'
  <1>1. /\ at = "marks" /\ scan.listed = {}
        /\ \/ group /\ ~booted /\ at' = "group" /\ scan' = [scan EXCEPT !.listed = Listed]
           \/ ~ (group /\ ~booted) /\ at' = "judge" /\ scan' = scan
        /\ UNCHANGED <<sharedWs, table, booted, used, moved, stops, scopeFile, group,
                       owned, setupErr, request, jobReaped, cancelWanted, collection, owed, strayKill>>
    BY DEF MarksRead, ScanTo, Calm, osVars, jobVars, ctlVars
  <1>2. /\ scan' \in ScanRecords /\ scan'.found = scan.found /\ scan'.birth = scan.birth
        /\ at' = "group" => scan'.listed = Listed
        /\ at' = "judge" => scan' = scan
        /\ \A p \in Pids : Alive(p) => p \in Listed
    BY <1>1 DEF JPInv, ScanTypes, ScanRecords, Listed, Alive
  <1>3. TableTypes' /\ ScanTypes'
    BY <1>1, <1>2 DEF JPInv, TableTypes, ScanTypes
  <1>4. JobTypes' /\ CtlTypes'
    BY <1>1, <1>2 DEF JPInv, JobTypes, CtlTypes, Ats, Early, Scans
  <1>5. StageInv'
    BY <1>1, <1>2 DEF JPInv, TableTypes, JobTypes, StageInv, Early, Scans
  <1>6. CtlInv' /\ ~strayKill'
    BY <1>1, <1>2 DEF JPInv, TableTypes, CtlTypes, StageInv, CtlInv, Early, Scans
  <1>7. ASSUME NEW q \in Pids PROVE EntryInv(q)' /\ StoppedInv(q)' /\ ScanInv(q)'
    <2>1. /\ EntryInv(q) /\ StoppedInv(q) /\ ScanInv(q) /\ StageInv /\ table[q] \in Procs
          /\ stops \in Nat
      BY DEF JPInv, TableTypes
    <2>2. EntryInv(q)'
      BY <1>1, <2>1, <1>2 DEF EntryInv, Alive, GroupKnown, StageInv, Early, Scans
    <2>3. StoppedInv(q)'
      BY <1>1, <2>1, <1>2 DEF StoppedInv, Alive, StageInv, Early, Scans
    <2>4. ScanInv(q)'
      BY <1>1, <2>1, <1>2 DEF ScanInv, Alive, Marked, Recognised, StageInv, Early, Scans, EntryInv, StoppedInv
    <2> QED
      BY <2>2, <2>3, <2>4
  <1> QED
    BY <1>3, <1>4, <1>5, <1>6, <1>7 DEF JPInv

\* One entry of /proc is read for the marker.
LEMMA ReadMarkKeeps ==
  ASSUME JPInv, ReadMark
  PROVE  JPInv'
  <1>1. /\ at = "marks" /\ scan.listed # {}
        /\ scan' = [[scan EXCEPT !.found = @ \union {p \in {Min(scan.listed)} : Marked(p)}]
                      EXCEPT !.listed = scan.listed \ {Min(scan.listed)}]
        /\ UNCHANGED <<sharedWs, table, booted, used, moved, stops, at, scopeFile,
                       group, owned, setupErr, request, jobReaped, cancelWanted, collection, owed, strayKill>>
    BY DEF ReadMark, ReadEntry, Calm, osVars, jobVars, ctlVars
  <1>2. PICK p \in scan.listed : p = Min(scan.listed)
    <2>1. scan.listed \in SUBSET Pids /\ scan.listed # {}
      BY DEF JPInv, ScanTypes, ScanRecords, ReadMark, ReadEntry
    <2> QED
      BY <2>1, MinIn
  <1>8. p \in Pids /\ scan \in ScanRecords
    BY DEF JPInv, ScanTypes, ScanRecords
  <1>9. /\ scan' \in ScanRecords /\ scan'.listed = scan.listed \ {p} /\ scan'.birth = scan.birth
        /\ scan'.found = scan.found \union {x \in {p} : Marked(x)}
    BY <1>1, <1>2, <1>8 DEF ScanRecords
  <1>3. TableTypes' /\ ScanTypes'
    BY <1>1, <1>8, <1>9 DEF JPInv, TableTypes, ScanTypes
  <1>4. JobTypes' /\ CtlTypes'
    BY <1>1, <1>8, <1>9 DEF JPInv, JobTypes, CtlTypes, Ats, Early, Scans
  <1>5. StageInv'
    BY <1>1, <1>8, <1>9 DEF JPInv, TableTypes, JobTypes, StageInv, Early, Scans
  <1>6. CtlInv' /\ ~strayKill'
    BY <1>1, <1>8, <1>9 DEF JPInv, TableTypes, CtlTypes, StageInv, CtlInv, Early, Scans
  <1>7. ASSUME NEW q \in Pids PROVE EntryInv(q)' /\ StoppedInv(q)' /\ ScanInv(q)'
    <2>1. /\ EntryInv(q) /\ StoppedInv(q) /\ ScanInv(q) /\ StageInv /\ table[q] \in Procs
          /\ stops \in Nat
      BY DEF JPInv, TableTypes
    <2>2. EntryInv(q)'
      BY <1>1, <2>1, <1>8, <1>9 DEF EntryInv, Alive, GroupKnown, StageInv, Early, Scans
    <2>3. StoppedInv(q)'
      BY <1>1, <2>1, <1>8, <1>9 DEF StoppedInv, Alive, StageInv, Early, Scans
    <2>4. ScanInv(q)'
      BY <1>1, <2>1, <1>8, <1>9 DEF ScanInv, Alive, Marked, Recognised, StageInv, Early, Scans
    <2> QED
      BY <2>2, <2>3, <2>4
  <1> QED
    BY <1>3, <1>4, <1>5, <1>6, <1>7 DEF JPInv

\* One entry of /proc is read for the group.
LEMMA InspectKeeps ==
  ASSUME JPInv, inspectProcessGroup
  PROVE  JPInv'
  <1>1. /\ at \in {"group", "verify"} /\ scan.listed # {}
        /\ LET p == Min(scan.listed)
               read == IF p \notin InGroup THEN scan
                       ELSE [scan EXCEPT !.found = @ \union {q \in {p} : Alive(q)},
                                         !.birth = IF p # 1 THEN @
                                                   ELSE IF table[1].first THEN "same" ELSE "other"]
           IN  scan' = [read EXCEPT !.listed = scan.listed \ {p}]
        /\ UNCHANGED <<sharedWs, table, booted, used, moved, stops, at, scopeFile,
                       group, owned, setupErr, request, jobReaped, cancelWanted, collection, owed, strayKill>>
    BY DEF inspectProcessGroup, ReadEntry, Calm, osVars, jobVars, ctlVars
  <1>2. PICK p \in scan.listed : p = Min(scan.listed)
    <2>1. scan.listed \in SUBSET Pids /\ scan.listed # {}
      BY DEF JPInv, ScanTypes, ScanRecords, inspectProcessGroup, ReadEntry
    <2> QED
      BY <2>1, MinIn
  <1>8. p \in Pids /\ scan \in ScanRecords
    BY DEF JPInv, ScanTypes, ScanRecords
  <1>9. /\ scan' \in ScanRecords /\ scan'.listed = scan.listed \ {p}
        /\ p \notin InGroup => scan'.found = scan.found /\ scan'.birth = scan.birth
        /\ p \in InGroup => scan'.found = scan.found \union {x \in {p} : Alive(x)}
        /\ scan'.birth \in {scan.birth, "other"} \/ (scan'.birth = "same" /\ table[1].first)
    BY <1>1, <1>2, <1>8 DEF ScanRecords
  <1>10. \A x \in Pids : Alive(x) /\ table[x].grp = 1 => x \in InGroup
    BY DEF InGroup, Listed, Alive
  <1>3. TableTypes' /\ ScanTypes'
    BY <1>1, <1>8, <1>9, <1>10 DEF JPInv, TableTypes, ScanTypes
  <1>4. JobTypes' /\ CtlTypes'
    BY <1>1, <1>8, <1>9, <1>10 DEF JPInv, JobTypes, CtlTypes, Ats, Early, Scans
  <1>5. StageInv'
    BY <1>1, <1>8, <1>9, <1>10 DEF JPInv, TableTypes, JobTypes, StageInv, Early, Scans
  <1>6. CtlInv' /\ ~strayKill'
    BY <1>1, <1>8, <1>9, <1>10 DEF JPInv, TableTypes, CtlTypes, StageInv, CtlInv, Early, Scans
  <1>7. ASSUME NEW q \in Pids PROVE EntryInv(q)' /\ StoppedInv(q)' /\ ScanInv(q)'
    <2>1. /\ EntryInv(q) /\ StoppedInv(q) /\ ScanInv(q) /\ StageInv /\ table[q] \in Procs
          /\ stops \in Nat
      BY DEF JPInv, TableTypes
    <2>2. EntryInv(q)'
      BY <1>1, <2>1, <1>8, <1>9, <1>10 DEF EntryInv, Alive, GroupKnown, StageInv, Early, Scans
    <2>3. StoppedInv(q)'
      BY <1>1, <2>1, <1>8, <1>9, <1>10 DEF StoppedInv, Alive, StageInv, Early, Scans
    <2>4. ScanInv(q)'
      BY <1>1, <2>1, <1>8, <1>9, <1>10 DEF ScanInv, Alive, Marked, Recognised, StageInv, Early, Scans, EntryInv, GroupKnown, InGroup
    <2> QED
      BY <2>2, <2>3, <2>4
  <1> QED
    BY <1>3, <1>4, <1>5, <1>6, <1>7 DEF JPInv

\* members(false) has proved whose group it is, or not.
LEMMA VerifiedKeeps ==
  ASSUME JPInv, Verified
  PROVE  JPInv'
  <1>1. /\ at = "verify" /\ scan.listed = {} /\ owned' = TRUE /\ scan' = NoScan
        /\ at' = (IF MembersRefused(FALSE) THEN "refused" ELSE "list")
        /\ UNCHANGED <<sharedWs, table, booted, used, moved, stops, scopeFile, group,
                       setupErr, request, jobReaped, cancelWanted, collection, owed, strayKill>>
    BY DEF Verified, Calm, osVars, jobVars, ctlVars
  <1>2. scan' \in ScanRecords /\ scan \in ScanRecords
    BY <1>1 DEF NoScan, ScanRecords, JPInv, ScanTypes
  <1>3. TableTypes' /\ ScanTypes'
    BY <1>1, <1>2 DEF JPInv, TableTypes, ScanTypes
  <1>4. JobTypes' /\ CtlTypes'
    BY <1>1, <1>2 DEF JPInv, JobTypes, CtlTypes, Ats, Early, Scans
  <1>5. StageInv'
    BY <1>1, <1>2 DEF JPInv, TableTypes, JobTypes, StageInv, Early, Scans
  <1>6. CtlInv' /\ ~strayKill'
    BY <1>1, <1>2 DEF JPInv, TableTypes, CtlTypes, StageInv, CtlInv, Early, Scans
  <1>7. ASSUME NEW q \in Pids PROVE EntryInv(q)' /\ StoppedInv(q)' /\ ScanInv(q)'
    <2>1. /\ EntryInv(q) /\ StoppedInv(q) /\ ScanInv(q) /\ StageInv /\ table[q] \in Procs
          /\ stops \in Nat
      BY DEF JPInv, TableTypes
    <2>2. EntryInv(q)'
      BY <1>1, <2>1, <1>2 DEF EntryInv, Alive, GroupKnown, StageInv, Early, Scans, MembersRefused, ScanRecords, ScanInv
    <2>3. StoppedInv(q)'
      BY <1>1, <2>1, <1>2 DEF StoppedInv, Alive, StageInv, Early, Scans, ScanInv
    <2>4. ScanInv(q)'
      BY <1>1, <2>1, <1>2 DEF ScanInv, Alive, Marked, Recognised, StageInv, Early, Scans
    <2> QED
      BY <2>2, <2>3, <2>4
  <1> QED
    BY <1>3, <1>4, <1>5, <1>6, <1>7 DEF JPInv

\* The collection of changes and the end of the job.
LEMMA SettleKeeps ==
  ASSUME JPInv, Settle
  PROVE  JPInv'
  <1>1. /\ \/ at' = "over" /\ UNCHANGED scopeFile /\ collection' = "ended" /\ at \in {"unclean", "clean"} /\ stops = 0
           \/ at = "clean" /\ at' = "publish" /\ UNCHANGED scopeFile /\ collection = "armed" /\ collection' = "publish" /\ stops = 0
           \/ at = "clean" /\ at' = "settle" /\ UNCHANGED scopeFile /\ collection' = "ended" /\ stops = 0
           \/ at = "publish" /\ at' = "settle" /\ UNCHANGED scopeFile /\ collection' \in {"kept", "ended"}
           \/ at = "settle" /\ at' = "over" /\ scopeFile' = "none" /\ UNCHANGED collection
        /\ UNCHANGED <<sharedWs, table, booted, used, moved, stops, group, owned,
                       setupErr, scan, request, jobReaped, cancelWanted, owed, strayKill>>
    BY DEF Settle, CollectRefused, CollectChanges, PublishBundle, RemoveScope, EndsCollection, Serving, Calm, osVars, jobVars, ctlVars
  <1>3. TableTypes' /\ ScanTypes'
    BY <1>1 DEF JPInv, TableTypes, ScanTypes
  <1>4. JobTypes' /\ CtlTypes'
    BY <1>1 DEF JPInv, JobTypes, CtlTypes, Ats, Early, Scans
  <1>5. StageInv'
    BY <1>1 DEF JPInv, TableTypes, JobTypes, StageInv, Early, Scans
  <1>6. CtlInv' /\ ~strayKill'
    BY <1>1 DEF JPInv, TableTypes, CtlTypes, StageInv, CtlInv, Early, Scans
  <1>7. ASSUME NEW q \in Pids PROVE EntryInv(q)' /\ StoppedInv(q)' /\ ScanInv(q)'
    <2>1. /\ EntryInv(q) /\ StoppedInv(q) /\ ScanInv(q) /\ StageInv /\ table[q] \in Procs
          /\ stops \in Nat
      BY DEF JPInv, TableTypes
    <2>2. EntryInv(q)'
      BY <1>1, <2>1 DEF EntryInv, Alive, GroupKnown, StageInv, Early, Scans
    <2>3. StoppedInv(q)'
      BY <1>1, <2>1 DEF StoppedInv, Alive, StageInv, Early, Scans
    <2>4. ScanInv(q)'
      BY <1>1, <2>1 DEF ScanInv, Alive, Marked, Recognised, StageInv, Early, Scans
    <2> QED
      BY <2>2, <2>3, <2>4
  <1> QED
    BY <1>3, <1>4, <1>5, <1>6, <1>7 DEF JPInv

\* Signal, its first section.
LEMMA SignalKeeps ==
  ASSUME JPInv, NEW r \in Signallers, Signal(r)
  PROVE  JPInv'
  <1>1. /\ request[r] = "idle" /\ stops = 0 /\ request' = [request EXCEPT ![r] = IF jobReaped THEN "answered" ELSE "checked"]
        /\ collection' \in {collection, AfterCancel}
        /\ UNCHANGED <<sharedWs, table, booted, used, moved, stops, at, scopeFile,
                       group, owned, setupErr, scan, jobReaped, cancelWanted, owed, strayKill>>
    BY DEF Signal, Answers, Serving, Calm, osVars, jobVars, ctlVars
  <1>3. TableTypes' /\ ScanTypes'
    BY <1>1 DEF JPInv, TableTypes, ScanTypes
  <1>4. JobTypes' /\ CtlTypes'
    BY <1>1 DEF JPInv, JobTypes, CtlTypes, Ats, Early, Scans, AfterCancel
  <1>5. StageInv'
    BY <1>1 DEF JPInv, TableTypes, JobTypes, StageInv, Early, Scans
  <1>6. CtlInv' /\ ~strayKill'
    BY <1>1 DEF JPInv, TableTypes, CtlTypes, StageInv, CtlInv, Early, Scans, AfterCancel
  <1>7. ASSUME NEW q \in Pids PROVE EntryInv(q)' /\ StoppedInv(q)' /\ ScanInv(q)'
    <2>1. /\ EntryInv(q) /\ StoppedInv(q) /\ ScanInv(q) /\ StageInv /\ table[q] \in Procs
          /\ stops \in Nat
      BY DEF JPInv, TableTypes
    <2>2. EntryInv(q)'
      BY <1>1, <2>1 DEF EntryInv, Alive, GroupKnown, StageInv, Early, Scans
    <2>3. StoppedInv(q)'
      BY <1>1, <2>1 DEF StoppedInv, Alive, StageInv, Early, Scans
    <2>4. ScanInv(q)'
      BY <1>1, <2>1 DEF ScanInv, Alive, Marked, Recognised, StageInv, Early, Scans
    <2> QED
      BY <2>2, <2>3, <2>4
  <1> QED
    BY <1>3, <1>4, <1>5, <1>6, <1>7 DEF JPInv

\* requestChangeCollectionCancellation.
LEMMA CancellationKeeps ==
  ASSUME JPInv, NEW r \in Signallers, RequestCancellation(r)
  PROVE  JPInv'
  <1>1. /\ request[r] = "gone" /\ request' = [request EXCEPT ![r] = "answered"]
        /\ cancelWanted' = (cancelWanted \/ (r # "runtime" /\ ~jobReaped))
        /\ collection' = (IF r # "runtime" /\ Cancellable THEN AfterCancel ELSE collection)
        /\ owed' = (owed \/ (r # "runtime" /\ collection \in {"none", "armed", "cancelled"}))
        /\ UNCHANGED <<sharedWs, table, booted, used, moved, stops, at, scopeFile,
                       group, owned, setupErr, scan, jobReaped, strayKill>>
    BY DEF RequestCancellation, Answers, Calm, osVars, jobVars, ctlVars
  <1>3. TableTypes' /\ ScanTypes'
    BY <1>1 DEF JPInv, TableTypes, ScanTypes
  <1>4. JobTypes' /\ CtlTypes'
    BY <1>1 DEF JPInv, JobTypes, CtlTypes, Ats, Early, Scans, AfterCancel
  <1>5. StageInv'
    BY <1>1 DEF JPInv, TableTypes, JobTypes, StageInv, Early, Scans
  <1>6. CtlInv' /\ ~strayKill'
    BY <1>1 DEF JPInv, TableTypes, CtlTypes, StageInv, CtlInv, Early, Scans, AfterCancel, Cancellable
  <1>7. ASSUME NEW q \in Pids PROVE EntryInv(q)' /\ StoppedInv(q)' /\ ScanInv(q)'
    <2>1. /\ EntryInv(q) /\ StoppedInv(q) /\ ScanInv(q) /\ StageInv /\ table[q] \in Procs
          /\ stops \in Nat
      BY DEF JPInv, TableTypes
    <2>2. EntryInv(q)'
      BY <1>1, <2>1 DEF EntryInv, Alive, GroupKnown, StageInv, Early, Scans
    <2>3. StoppedInv(q)'
      BY <1>1, <2>1 DEF StoppedInv, Alive, StageInv, Early, Scans
    <2>4. ScanInv(q)'
      BY <1>1, <2>1 DEF ScanInv, Alive, Marked, Recognised, StageInv, Early, Scans
    <2> QED
      BY <2>2, <2>3, <2>4
  <1> QED
    BY <1>3, <1>4, <1>5, <1>6, <1>7 DEF JPInv

\* A new daemon reads scope.json.
LEMMA RecoverKeeps ==
  ASSUME JPInv, RecoverNothing \/ RecoverUnrecorded \/ RecoverMarked \/ RecoverGroup
  PROVE  JPInv'
  <1>1. /\ at = "down"
        /\ \/ at' \in {"over", "refused"} /\ group' = FALSE /\ scan' = NoScan
           \/ at' = "list" /\ ~sharedWs /\ group' = FALSE /\ scan' = NoScan
           \/ at' = "verify" /\ group' = TRUE
              /\ scan' = [NoScan EXCEPT !.listed = IF booted THEN {} ELSE Listed]
        /\ UNCHANGED <<sharedWs, table, booted, used, moved, stops, scopeFile, owned,
                       setupErr, request, jobReaped, cancelWanted, collection, owed, strayKill>>
    BY DEF RecoverNothing, RecoverUnrecorded, RecoverMarked, RecoverGroup, Recover, Calm, osVars, jobVars, ctlVars
  <1>2. /\ scan' \in ScanRecords /\ scan'.birth = "none"
        /\ at' = "verify" /\ ~booted => scan'.listed = Listed
        /\ \A p \in Pids : Alive(p) => p \in Listed
    BY <1>1 DEF NoScan, ScanRecords, Listed, Alive
  <1>3. TableTypes' /\ ScanTypes'
    BY <1>1, <1>2 DEF JPInv, TableTypes, ScanTypes
  <1>4. JobTypes' /\ CtlTypes'
    BY <1>1, <1>2 DEF JPInv, JobTypes, CtlTypes, Ats, Early, Scans
  <1>5. StageInv'
    BY <1>1, <1>2 DEF JPInv, TableTypes, JobTypes, StageInv, Early, Scans
  <1>6. CtlInv' /\ ~strayKill'
    BY <1>1, <1>2 DEF JPInv, TableTypes, CtlTypes, StageInv, CtlInv, Early, Scans
  <1>7. ASSUME NEW q \in Pids PROVE EntryInv(q)' /\ StoppedInv(q)' /\ ScanInv(q)'
    <2>1. /\ EntryInv(q) /\ StoppedInv(q) /\ ScanInv(q) /\ StageInv /\ table[q] \in Procs
          /\ stops \in Nat
      BY DEF JPInv, TableTypes
    <2>2. EntryInv(q)'
      BY <1>1, <2>1, <1>2 DEF EntryInv, Alive, GroupKnown, StageInv, Early, Scans
    <2>3. StoppedInv(q)'
      BY <1>1, <2>1, <1>2 DEF StoppedInv, Alive, StageInv, Early, Scans
    <2>4. ScanInv(q)'
      BY <1>1, <2>1, <1>2 DEF ScanInv, Alive, Marked, Recognised, StageInv, Early, Scans
    <2> QED
      BY <2>2, <2>3, <2>4
  <1> QED
    BY <1>3, <1>4, <1>5, <1>6, <1>7 DEF JPInv

\* The recovery is over.
LEMMA RecoveredKeeps ==
  ASSUME JPInv, Recovered
  PROVE  JPInv'
  <1>1. /\ stops > 0 /\ at \in {"clean", "unclean"} /\ at' = (IF at = "clean" THEN "settle" ELSE "refused")
        /\ UNCHANGED <<sharedWs, table, booted, used, moved, stops, scopeFile, group,
                       owned, setupErr, scan, request, jobReaped, cancelWanted, collection, owed, strayKill>>
    BY DEF Recovered, Serving, JPInv, TableTypes, Calm, osVars, jobVars, ctlVars
  <1>3. TableTypes' /\ ScanTypes'
    BY <1>1 DEF JPInv, TableTypes, ScanTypes
  <1>4. JobTypes' /\ CtlTypes'
    BY <1>1 DEF JPInv, JobTypes, CtlTypes, Ats, Early, Scans
  <1>5. StageInv'
    BY <1>1 DEF JPInv, TableTypes, JobTypes, StageInv, Early, Scans
  <1>6. CtlInv' /\ ~strayKill'
    BY <1>1 DEF JPInv, TableTypes, CtlTypes, StageInv, CtlInv, Early, Scans
  <1>7. ASSUME NEW q \in Pids PROVE EntryInv(q)' /\ StoppedInv(q)' /\ ScanInv(q)'
    <2>1. /\ EntryInv(q) /\ StoppedInv(q) /\ ScanInv(q) /\ StageInv /\ table[q] \in Procs
          /\ stops \in Nat
      BY DEF JPInv, TableTypes
    <2>2. EntryInv(q)'
      BY <1>1, <2>1 DEF EntryInv, Alive, GroupKnown, StageInv, Early, Scans
    <2>3. StoppedInv(q)'
      BY <1>1, <2>1 DEF StoppedInv, Alive, StageInv, Early, Scans
    <2>4. ScanInv(q)'
      BY <1>1, <2>1 DEF ScanInv, Alive, Marked, Recognised, StageInv, Early, Scans
    <2> QED
      BY <2>2, <2>3, <2>4
  <1> QED
    BY <1>3, <1>4, <1>5, <1>6, <1>7 DEF JPInv

\* launch: the leader starts; no process was there before it.
LEMMA StartKeeps ==
  ASSUME JPInv, StartLeader
  PROVE  JPInv'
  <1>1. /\ at = "start" /\ table' = [table EXCEPT ![1] = Leader]
        /\ used' = used \union {1} /\ moved' = moved \union {1}
        /\ at' = (IF sharedWs THEN "capture" ELSE "run")
        /\ UNCHANGED <<sharedWs, booted, stops, scopeFile, group, owned, setupErr, scan,
                       request, jobReaped, cancelWanted, collection, owed, strayKill>>
    BY DEF StartLeader, Calm, jobVars, ctlVars
  <1>2. /\ 1 \in Pids /\ Leader \in Procs /\ Leader.first /\ Leader.run = "yes" /\ Leader.grp = 1
        /\ Leader.mine
    BY JobProcessAssumption DEF Leader, Procs
  <1>3. /\ table' \in [Pids -> Procs] /\ table'[1] = Leader
        /\ \A q \in Pids \ {1} : table'[q] = table[q] /\ table[q].run = "no"
    BY <1>1, <1>2 DEF JPInv, TableTypes, EntryInv
  <1>4. TableTypes' /\ ScanTypes' /\ JobTypes' /\ CtlTypes'
    BY <1>1, <1>3 DEF JPInv, TableTypes, ScanTypes, JobTypes, CtlTypes, Ats, Early
  <1>5. StageInv' /\ stops = 0 /\ ~booted
    BY <1>1, <1>2, <1>3 DEF JPInv, TableTypes, StageInv, Early, Scans
  <1>6. CtlInv' /\ ~strayKill'
    BY <1>1, <1>5 DEF JPInv, CtlTypes, CtlInv, Early
  <1>7. ASSUME NEW q \in Pids PROVE EntryInv(q)' /\ StoppedInv(q)' /\ ScanInv(q)'
    <2>1. EntryInv(q)'
      BY <1>1, <1>2, <1>3, <1>5 DEF JPInv, EntryInv, Alive
    <2>2. StoppedInv(q)' /\ ScanInv(q)'
      BY <1>1 DEF StoppedInv, ScanInv, Scans
    <2> QED
      BY <2>1, <2>2
  <1> QED
    BY <1>4, <1>5, <1>6, <1>7 DEF JPInv

\* A step by which processes only end, and the daemon stays where it is or goes from
\* run to waited or from stop to run, keeps what is said of each of them; so does
\* the killing of what a scan has found.
LEMMA FadesKeep ==
  ASSUME JPInv, table' \in [Pids -> Procs], \A p \in Pids : Faded(p),
         UNCHANGED <<sharedWs, booted, stops, used, moved, scopeFile, group, owned, setupErr>>,
         scan' = scan \/ (at = "kill" /\ at' = at /\ scan' \in ScanRecords /\ scan'.found \subseteq scan.found),
         at' = at \/ (at = "run" /\ at' = "waited") \/ (at = "stop" /\ at' = "run"),
         at' \in {"capture", "persist", "stop", "run"} => table'[1].first,
         at = "stop" /\ at' = "run" => \A p \in Pids : ~ (Alive(p)' /\ table'[p].grp = 1)
  PROVE  /\ TableTypes' /\ ScanTypes' /\ JobTypes' /\ StageInv'
         /\ \A p \in Pids : EntryInv(p)' /\ StoppedInv(p)' /\ ScanInv(p)'
  <1>1. 1 \in Pids
    BY JobProcessAssumption
  <1>2. TableTypes' /\ ScanTypes' /\ JobTypes'
    BY DEF JPInv, TableTypes, ScanTypes, JobTypes, Ats, Early
  <1>3. table'[1].first => table[1].first
    BY <1>1 DEF Faded, NoProcess
  <1>4. StageInv'
    BY DEF JPInv, StageInv, TableTypes, Early, Scans
  <1>5. GroupKnown' => GroupKnown
    BY <1>3 DEF JPInv, StageInv, GroupKnown, Scans, Early
  <1>6. ASSUME NEW p \in Pids PROVE EntryInv(p)' /\ StoppedInv(p)' /\ ScanInv(p)'
    <2>1. EntryInv(p) /\ StoppedInv(p) /\ ScanInv(p) /\ Faded(p) /\ Faded(1) /\ TableTypes
      BY <1>1 DEF JPInv
    <2>2. Alive(p)' => table'[p] = table[p] /\ Alive(p)
      BY <2>1, FadedLives
    <2>3. CASE at' \in {"launch", "start"}
      <3>1. at = at' /\ table[p].run = "no" /\ ~table[p].first
        BY <2>1, <2>3 DEF EntryInv
      <3>2. table'[p] = table[p] \/ table'[p] = NoProcess
        BY <2>1, <3>1 DEF Faded
      <3>3. EntryInv(p)'
        BY <1>5, <2>1, <3>1, <3>2 DEF EntryInv, NoProcess, Alive
      <3> QED
        BY <2>3, <3>3 DEF StoppedInv, ScanInv, Scans
    <2>4. CASE at' \notin {"launch", "start"}
      <3>1. EntryInv(p)'
        BY <1>5, <2>1, <2>4, FadesEntry
      <3>2. StoppedInv(p)'
        <4>1. CASE at = "stop" /\ at' = "run"
          <5>1. p = 1 /\ Alive(1)' => FALSE
            BY <1>1, <2>2, <4>1 DEF JPInv, StageInv, EntryInv
          <5> QED
            BY <4>1, <5>1 DEF StoppedInv
        <4>2. CASE at' = at \/ at = "run"
          BY <2>1, <2>2, <4>2 DEF StoppedInv, Scans
        <4> QED
          BY <4>1, <4>2
      <3>3. ScanInv(p)'
        <4>1. CASE at' = at
          <5>1. CASE scan' = scan
            BY <2>1, <2>2, <4>1, <5>1 DEF ScanInv, Marked, Recognised, Alive
          <5>2. CASE at = "kill" /\ scan'.found \subseteq scan.found
            BY <2>1, <2>2, <4>1, <5>2 DEF ScanInv, Marked, Alive
          <5> QED
            BY <5>1, <5>2
        <4>2. CASE at' \in {"run", "waited"}
          BY <4>2 DEF ScanInv
        <4> QED
          BY <4>1, <4>2
      <3> QED
        BY <3>1, <3>2, <3>3
    <2> QED
      BY <2>3, <2>4
  <1> QED
    BY <1>2, <1>4, <1>6

\* A process exits.
LEMMA ExitKeeps ==
  ASSUME JPInv, NEW p \in Pids, Exit(p)
  PROVE  JPInv'
  <1>1. /\ table' = Killing({p})
        /\ UNCHANGED <<sharedWs, booted, used, moved, stops, at, scopeFile, group, owned, setupErr, scan,
                       request, jobReaped, cancelWanted, collection, owed, strayKill>>
    BY DEF Exit, jobVars, ctlVars
  <1>2. /\ table' \in [Pids -> Procs] /\ \A q \in Pids : Faded(q)
        /\ at \in {"capture", "persist", "stop", "run"} => table'[1].first
    BY <1>1, KillingFades, JobProcessAssumption DEF JPInv, StageInv, Early
  <1>3. CtlTypes' /\ CtlInv' /\ ~strayKill'
    BY <1>1 DEF JPInv, CtlTypes, CtlInv
  <1>4. /\ TableTypes' /\ ScanTypes' /\ JobTypes' /\ StageInv'
        /\ \A q \in Pids : EntryInv(q)' /\ StoppedInv(q)' /\ ScanInv(q)'
    BY <1>1, <1>2, FadesKeep
  <1> QED
    BY <1>3, <1>4 DEF JPInv

\* A signal to the job reaches all of its group.
LEMMA SignalledGroup ==
  ASSUME TableTypes, NEW S \in SignalKills, table' = Killing(S)
  PROVE  \A p \in Pids : ~ (Alive(p)' /\ table'[p].grp = 1)
  <1>1. InGroup \subseteq S
    BY DEF SignalKills
  <1>2. SUFFICES ASSUME NEW p \in Pids, Alive(p)', table'[p].grp = 1 PROVE FALSE
    OBVIOUS
  <1>3. p \notin S /\ table'[p] = table[p]
    BY <1>2, KillingFades DEF Alive
  <1> QED
    BY <1>1, <1>2, <1>3 DEF InGroup, Listed, Alive

\* Without a durable identity the command is stopped.
LEMMA StopKeeps ==
  ASSUME JPInv, StopUnrecorded
  PROVE  JPInv'
  <1>1. /\ at = "stop" /\ at' = "run"
        /\ UNCHANGED <<sharedWs, booted, used, moved, stops, scopeFile, group, owned, setupErr, scan,
                       request, jobReaped, cancelWanted, collection, owed, strayKill>>
    BY DEF StopUnrecorded, Calm, jobVars, ctlVars
  <1>2. PICK S \in SignalKills : table' = Killing(S)
    BY DEF StopUnrecorded
  <1>3. /\ table' \in [Pids -> Procs] /\ \A q \in Pids : Faded(q)
        /\ table'[1].first
    BY <1>1, <1>2, KillingFades, JobProcessAssumption DEF JPInv, StageInv, Early
  <1>4. \A q \in Pids : ~ (Alive(q)' /\ table'[q].grp = 1)
    BY <1>2, SignalledGroup DEF JPInv
  <1>5. CtlTypes' /\ CtlInv' /\ ~strayKill'
    BY <1>1 DEF JPInv, CtlTypes, CtlInv, Early
  <1>6. /\ TableTypes' /\ ScanTypes' /\ JobTypes' /\ StageInv'
        /\ \A q \in Pids : EntryInv(q)' /\ StoppedInv(q)' /\ ScanInv(q)'
    BY <1>1, <1>3, <1>4, FadesKeep
  <1> QED
    BY <1>5, <1>6 DEF JPInv

\* The wait goroutine reaps the leader.
LEMMA WaitKeeps ==
  ASSUME JPInv, Wait
  PROVE  JPInv'
  <1>1. /\ at = "run" /\ at' = "waited" /\ table' = [table EXCEPT ![1] = NoProcess]
        /\ UNCHANGED <<sharedWs, booted, used, moved, stops, scopeFile, group, owned, setupErr, scan,
                       request, jobReaped, cancelWanted, collection, owed, strayKill>>
    BY DEF Wait, Calm, jobVars, ctlVars
  <1>2. table' \in [Pids -> Procs] /\ \A q \in Pids : Faded(q)
    BY <1>1 DEF JPInv, TableTypes, Faded, NoProcess, Procs
  <1>3. CtlTypes' /\ CtlInv' /\ ~strayKill'
    BY <1>1 DEF JPInv, CtlTypes, CtlInv, Early
  <1>4. /\ TableTypes' /\ ScanTypes' /\ JobTypes' /\ StageInv'
        /\ \A q \in Pids : EntryInv(q)' /\ StoppedInv(q)' /\ ScanInv(q)'
    BY <1>1, <1>2, FadesKeep
  <1> QED
    BY <1>3, <1>4 DEF JPInv

\* A signal is delivered, or survived.
LEMMA DeliverKeeps ==
  ASSUME JPInv, NEW r \in Signallers, DeliverSignal(r)
  PROVE  JPInv'
  <1>1. /\ request[r] = "checked"
        /\ request' = [request EXCEPT ![r] = IF InGroup = {} THEN "gone" ELSE "answered"]
        /\ UNCHANGED <<sharedWs, booted, used, moved, stops, at, scopeFile, group, owned, setupErr, scan,
                       jobReaped, cancelWanted, collection, owed, strayKill>>
    BY DEF DeliverSignal, Answers, jobVars
  <1>2. /\ table' \in [Pids -> Procs] /\ \A q \in Pids : Faded(q)
        /\ at \in {"capture", "persist", "stop", "run"} => table'[1].first
    <2>1. ASSUME NEW S \in SignalKills, table' = Killing(S)
          PROVE  /\ table' \in [Pids -> Procs] /\ \A q \in Pids : Faded(q)
                 /\ at \in {"capture", "persist", "stop", "run"} => table'[1].first
      BY <2>1, KillingFades, JobProcessAssumption DEF JPInv, StageInv, Early
    <2>2. CASE table' = table
      BY <2>2 DEF JPInv, TableTypes, Faded, StageInv
    <2> QED
      BY <2>1, <2>2 DEF DeliverSignal
  <1>3. CtlTypes' /\ CtlInv' /\ ~strayKill'
    BY <1>1 DEF JPInv, CtlTypes, CtlInv
  <1>4. /\ TableTypes' /\ ScanTypes' /\ JobTypes' /\ StageInv'
        /\ \A q \in Pids : EntryInv(q)' /\ StoppedInv(q)' /\ ScanInv(q)'
    BY <1>1, <1>2, FadesKeep
  <1> QED
    BY <1>3, <1>4 DEF JPInv

\* What a scan found is killed: the job's, whatever became of it since.
LEMMA KillKeeps ==
  ASSUME JPInv, KillFound
  PROVE  JPInv'
  <1>1. PICK p \in scan.found : p = Min(scan.found)
    BY MinIn DEF KillFound, JPInv, ScanTypes, ScanRecords
  <1>2. /\ at = "kill" /\ table' = Killing({p} \intersect Listed)
        /\ strayKill' = (strayKill \/ (Alive(p) /\ ~table[p].mine /\ ~Marked(p)))
        /\ scan' = [scan EXCEPT !.found = scan.found \ {p}]
        /\ UNCHANGED <<sharedWs, booted, used, moved, stops, at, scopeFile, group, owned, setupErr,
                       request, jobReaped, cancelWanted, collection, owed>>
    BY <1>1 DEF KillFound, jobVars, ctlVars
  <1>3. /\ p \in Pids /\ scan' \in ScanRecords /\ scan'.found \subseteq scan.found
    BY <1>1, <1>2 DEF JPInv, ScanTypes, ScanRecords
  <1>4. ~strayKill'
    BY <1>1, <1>2, <1>3 DEF JPInv, ScanInv
  <1>5. table' \in [Pids -> Procs] /\ \A q \in Pids : Faded(q)
    BY <1>2, KillingFades DEF JPInv
  <1>6. CtlTypes' /\ CtlInv'
    BY <1>2 DEF JPInv, CtlTypes, CtlInv
  <1>7. /\ TableTypes' /\ ScanTypes' /\ JobTypes' /\ StageInv'
        /\ \A q \in Pids : EntryInv(q)' /\ StoppedInv(q)' /\ ScanInv(q)'
    BY <1>2, <1>3, <1>5, FadesKeep
  <1> QED
    BY <1>4, <1>6, <1>7 DEF JPInv

\* The daemon dies; the machine starts again.
LEMMA KilledKeeps ==
  ASSUME JPInv, Killed \/ Reboot
  PROVE  JPInv'
  <1>1. CASE Killed
    <2>1. /\ stops' = stops + 1 /\ at' = "down"
          /\ table' = [p \in Pids |-> IF table[p].run = "zombie" THEN NoProcess ELSE table[p]]
          /\ group' = FALSE /\ owned' = FALSE /\ setupErr' = FALSE /\ scan' = NoScan
          /\ request' = [r \in Signallers |-> "idle"] /\ cancelWanted' = FALSE /\ jobReaped' = FALSE
          /\ collection' = "none" /\ owed' = FALSE
          /\ UNCHANGED <<sharedWs, booted, used, moved, scopeFile, strayKill>>
      BY <1>1 DEF Killed
    <2>2. stops' \in Nat /\ stops' > 0
      BY <2>1 DEF JPInv, TableTypes
    <2>3. /\ table' \in [Pids -> Procs] /\ \A p \in Pids : Faded(p)
          /\ scan' \in ScanRecords
      BY <2>1 DEF JPInv, TableTypes, Faded, NoProcess, Procs, NoScan, ScanRecords
    <2>4. TableTypes' /\ ScanTypes' /\ JobTypes' /\ CtlTypes'
      BY <2>1, <2>2, <2>3 DEF JPInv, TableTypes, ScanTypes, JobTypes, CtlTypes, Ats
    <2>5. StageInv' /\ CtlInv' /\ ~strayKill'
      BY <2>1, <2>2 DEF JPInv, StageInv, CtlInv, Early, Scans
    <2>6. GroupKnown' => GroupKnown
      BY <2>1, <2>2, <2>3, JobProcessAssumption DEF GroupKnown, Faded, NoProcess, Scans
    <2>7. ASSUME NEW p \in Pids PROVE EntryInv(p)' /\ StoppedInv(p)' /\ ScanInv(p)'
      <3>1. EntryInv(p)'
        BY <2>1, <2>3, <2>6, FadesEntry, JobProcessAssumption DEF JPInv
      <3>2. StoppedInv(p)' /\ ScanInv(p)'
        BY <2>1 DEF StoppedInv, ScanInv, Scans
      <3> QED
        BY <3>1, <3>2
    <2> QED
      BY <2>4, <2>5, <2>7 DEF JPInv
  <1>2. CASE Reboot
    <2>1. /\ at = "down" /\ booted' = TRUE /\ table' = [p \in Pids |-> NoProcess]
          /\ UNCHANGED <<sharedWs, used, moved, stops, at, scopeFile, group, owned, setupErr, scan,
                         request, jobReaped, cancelWanted, collection, owed, strayKill>>
      BY <1>2 DEF Reboot, jobVars, ctlVars
    <2>2. NoProcess \in Procs /\ stops > 0
      BY <2>1 DEF NoProcess, Procs, JPInv, StageInv
    <2>3. TableTypes' /\ ScanTypes' /\ JobTypes' /\ CtlTypes'
      BY <2>1, <2>2 DEF JPInv, TableTypes, ScanTypes, JobTypes, CtlTypes
    <2>4. StageInv' /\ CtlInv' /\ ~strayKill'
      BY <2>1, <2>2 DEF JPInv, StageInv, CtlInv, Early, Scans
    <2>5. ASSUME NEW p \in Pids PROVE EntryInv(p)' /\ StoppedInv(p)' /\ ScanInv(p)'
      BY <2>1 DEF EntryInv, StoppedInv, ScanInv, Scans, NoProcess, Alive
    <2> QED
      BY <2>3, <2>4, <2>5 DEF JPInv
  <1> QED
    BY <1>1, <1>2

-----------------------------------------------------------------------------
\* The inductive invariant of a job's processes, its cleanup and its recovery.
THEOREM JPInvariance == JPSpec => []JPInv
  <1>1. JPInit => JPInv
    <2> SUFFICES ASSUME JPInit PROVE JPInv
      OBVIOUS
    <2>1. TableTypes /\ ScanTypes /\ JobTypes /\ CtlTypes /\ ~strayKill
      BY DEF JPInit, TableTypes, ScanTypes, JobTypes, CtlTypes, NoProcess, Procs, NoScan, ScanRecords, Ats, Early
    <2>2. StageInv /\ CtlInv
      BY DEF JPInit, StageInv, CtlInv, Early, Scans
    <2>3. ASSUME NEW p \in Pids PROVE EntryInv(p) /\ StoppedInv(p) /\ ScanInv(p)
      BY DEF JPInit, EntryInv, StoppedInv, ScanInv, Scans, NoProcess, Alive
    <2> QED
      BY <2>1, <2>2, <2>3 DEF JPInv
  <1>2. ASSUME JPInv, [JPNext]_jpVars PROVE JPInv'
    <2>1. CASE Processes
      BY <1>2, <2>1, ProcessesKeep, ExitKeeps DEF Processes
    <2>2. CASE Launch
      BY <1>2, <2>2, WriteScopeKeeps, StartKeeps, CaptureKeeps, PersistKeeps, StopKeeps DEF Launch
    <2>3. CASE Wait \/ transitionAfterProcessExit
      BY <1>2, <2>3, WaitKeeps, TransitionKeeps
    <2>4. CASE Cleanup
      BY <1>2, <2>4, ListKeeps, ReadMarkKeeps, MarksReadKeeps, InspectKeeps, GroupReadKeeps, JudgeKeeps,
         KillKeeps, CleanupAgainKeeps DEF Cleanup
    <2>5. CASE Settle
      BY <1>2, <2>5, SettleKeeps
    <2>6. CASE Recovery
      BY <1>2, <2>6, KilledKeeps, RecoverKeeps, VerifiedKeeps, RecoveredKeeps DEF Recovery
    <2>7. CASE \E r \in Signallers : Signal(r) \/ DeliverSignal(r) \/ RequestCancellation(r)
      BY <1>2, <2>7, SignalKeeps, DeliverKeeps, CancellationKeeps
    <2>8. CASE UNCHANGED jpVars
      <3>1. UNCHANGED <<sharedWs, table, booted, used, moved, stops, at, scopeFile, group, owned, setupErr,
                        scan, request, jobReaped, cancelWanted, collection, owed, strayKill>>
        BY <2>8 DEF jpVars, osVars, jobVars, ctlVars
      <3>2. ASSUME NEW p \in Pids PROVE EntryInv(p)' /\ StoppedInv(p)' /\ ScanInv(p)'
        BY <1>2, <3>1 DEF JPInv, EntryInv, StoppedInv, ScanInv, GroupKnown, Alive, Marked, Recognised
      <3> QED
        BY <1>2, <3>1, <3>2 DEF JPInv, TableTypes, ScanTypes, JobTypes, CtlTypes, StageInv, CtlInv
    <2> QED
      BY <1>2, <2>1, <2>2, <2>3, <2>4, <2>5, <2>6, <2>7, <2>8 DEF JPNext
  <1> QED
    BY <1>1, <1>2, PTL DEF JPSpec

\* Whatever processes do while a cleanup reads /proc, whichever crash or reboot comes
\* between its steps and whoever has the identifiers by then: only the job's processes
\* are killed, a cleanup that reports success has left none it could have recognised,
\* and a signal that found the group gone keeps the changes from being published.
THEOREM JobProcessesAreSafe == JPSpec => []ProcessesSafe
  <1>1. ASSUME JPInv PROVE ProcessesSafe
    <2>1. JPTypeOK
      BY <1>1 DEF JPInv, TableTypes, ScanTypes, ScanRecords, JobTypes, CtlTypes, Procs, JPTypeOK
    <2>2. NoStrayKill /\ SignalHeeded
      BY <1>1 DEF JPInv, NoStrayKill, SignalHeeded, CtlInv
    <2>3. CleanMeansGone
      BY <1>1 DEF JPInv, CleanMeansGone, ScanInv, Recognised, InGroup
    <2> QED
      BY <2>1, <2>2, <2>3 DEF ProcessesSafe
  <1> QED
    BY <1>1, JPInvariance, PTL
=============================================================================
