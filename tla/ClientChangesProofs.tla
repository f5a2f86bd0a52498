------------------------ MODULE ClientChangesProofs ------------------------
(***************************************************************************)
(* Proofs about the client's records of workspace changes (ClientChanges), *)
(* for any number of jobs, client processes, crashes, fetches, inspections *)
(* and collections: RecordsSafe and AppliedOnce.                           *)
(*                                                                         *)
(* The argument is about what each lock guards and what a copy is worth.   *)
(* Under the workspace lock no other process moves a transaction or merges *)
(* a bundle; under the transfer lock none takes the download away or opens *)
(* the job's transaction; only under both does a record stay as it was     *)
(* read (DataKept).  A copy read under one lock may be stale, but it still *)
(* tells the truth (Good), because merges are never undone; and if saving  *)
(* it takes something back, it has overwritten a newer record (torn).  So  *)
(* a merged bundle is still installed, or its record says applied, or that *)
(* record was overwritten or removed (JobInv), and only a process that     *)
(* read the record under both locks, and found no application, merges.     *)
(***************************************************************************)
EXTENDS ClientChanges, TLAPS

-----------------------------------------------------------------------------
(* The inductive invariant                                                 *)

Ended == TerminalSet \cup {"gone"}
Outs == Unfinished \cup FinishedSet \cup {"confirm"}
Nexts == {"exit", "poll", "handoff", "stream", "leave", "reload"}
Maybe == Record \cup {NoRec}

Replays == {"replay", "replay_commit", "replay_clear"}
Installing == {"apply", "open", "install", "note", "commit", "clear"}
Sessions == {"session", "session_save"}
Inside == {"recover", "visit"} \cup Replays \cup Installing \cup Sessions
HoldsWorkspace == Inside \cup {"settle_save", "gc_record"}
HoldsTransfer == Inside \cup {"enter", "save", "gc_record"}
Fetching == {"fetch", "route", "settle", "settle_save", "download", "enter"} \cup Inside
Applying == {"auto", "auto_mark", "decide", "reload", "record", "fail", "retry"} \cup Fetching
Pcs == {"mark", "submit", "confirm", "handoff", "handoff_last", "stream", "leave", "save", "start", "poll",
        "gc", "gc_record", "probe", "look_again", "probe_again"} \cup Applying

Process == [pc : Pcs, role : {"run", "worker", "fetch", "gc", "look"}, job : ChJobs, full : BOOLEAN,
            copy : Maybe, mine : Maybe, k : ChJobs, todo : SUBSET ChJobs,
            out : Outs \cup {"none", "ancient", "old", "open", "closed"}, nxt : Nexts \cup {"none"}]

\* A record, or the copy of one, that tells the truth.
Merges(j) == merges[j] > 0 \/ j \in SharedJobs
Good(j, r) == /\ r \in Record
              /\ r.applied => merges[j] > 0
              /\ r.auto = "applied" => Merges(j)

VarTypes ==
  /\ pr \in [ChProcs -> Process \cup {Idle}]
  /\ rec \in [ChJobs -> Maybe]
  /\ remote \in [ChJobs -> Ended \cup {"unsent", "refused", "live"}]
  /\ file \in [ChJobs -> {"base", "local", "remote", "merged", "later"}]
  /\ txn \in [ChJobs -> {"none", "open", "installed"}]
  /\ staged \in [ChJobs -> BOOLEAN] /\ age \in [ChJobs -> 0..2]
  /\ xfer \in [ChJobs -> ChProcs \cup {NoProc}]
  /\ merges \in [ChJobs -> Nat] /\ torn \in [ChJobs -> BOOLEAN] /\ told = FALSE

\* A merge that a record may forget is one whose record was overwritten.
Applied(j) == torn[j] \/ rec[j] = NoRec \/ rec[j].applied
JobInv(j) ==
  /\ rec[j] # NoRec => Good(j, rec[j])
  /\ txn[j] # "none" => rec[j] # NoRec /\ rec[j].pend /\ j \notin SharedJobs
  /\ txn[j] = "installed" => merges[j] > 0
  /\ file[j] \in {"remote", "merged", "later"} => merges[j] > 0
  /\ merges[j] > 0 => remote[j] # "unsent" /\ (j \in SharedJobs \/ txn[j] = "installed" \/ Applied(j))
  /\ ~torn[j] => merges[j] <= 1

LockInv(p) ==
  /\ pr[p].pc \in HoldsWorkspace => wsl = p
  /\ pr[p].pc \in HoldsTransfer => xfer[Job(p)] = p

CopyInv(p) ==
  /\ pr[p].pc \in {"save", "settle_save"} => Good(Job(p), pr[p].copy)
  /\ pr[p].pc \in Replays => Good(pr[p].k, pr[p].copy) /\ pr[p].copy.pend
  /\ Job(p) \in SharedJobs /\ pr[p].pc \in {"download", "enter"} \cup Inside => Good(Job(p), pr[p].mine)
  /\ pr[p].pc = "save" =>
       /\ txn[Job(p)] # "none" => pr[p].copy.pend
       /\ pr[p].out \in Outs /\ pr[p].nxt \in Nexts
       /\ pr[p].out = "applied" => Merges(Job(p))
  /\ pr[p].pc = "record" => Merges(Job(p))

RemoteInv(p) ==
  /\ pr[p].pc \in {"mark", "submit"} => remote[Job(p)] = "unsent"
  /\ pr[p].pc \in Applying \/ (pr[p].pc = "save" /\ pr[p].nxt = "reload") => remote[Job(p)] \in Ended
  /\ (pr[p].pc \in {"reload", "fetch", "route"} /\ pr[p].role # "fetch") \/ (pr[p].pc = "save" /\ pr[p].nxt = "reload") =>
       remote[Job(p)] # "empty" \/ Job(p) \in SharedJobs
  /\ pr[p].pc \in {"settle", "settle_save"} => pr[p].role = "fetch"

WorkInv(p) ==
  LET j == Job(p) IN
  /\ pr[p].pc \in {"settle_save", "gc_record", "clear"} => txn[j] = "none"
  /\ pr[p].pc \in Installing => j \notin SharedJobs
  /\ pr[p].pc \in Sessions => j \in SharedJobs
  /\ pr[p].pc \in Inside \cup {"enter"} => staged[j]
  /\ pr[p].pc \in Inside => rec[j] # NoRec
  /\ pr[p].pc \in {"open", "install", "note", "commit", "clear"} => rec[j].pend
  /\ pr[p].pc \in {"commit", "clear"} => rec[j].applied
  /\ pr[p].pc \in {"apply", "open"} => txn[j] = "none"
  /\ pr[p].pc = "install" => txn[j] = "open"
  /\ pr[p].pc \in {"note", "commit"} => txn[j] = "installed"
  /\ pr[p].pc \in {"open", "install"} => torn[j] \/ merges[j] = 0
  /\ pr[p].pc = "replay_commit" => txn[pr[p].k] = "installed" /\ Applied(pr[p].k)
  /\ pr[p].pc = "replay_clear" => txn[pr[p].k] = "none"

\* The apply of a job under inspection was asked for, and stays so.
Asked(j) == torn[j] \/ rec[j] = NoRec \/ rec[j].auto # "off"
LookInv(p) ==
  /\ pr[p].pc \in {"probe", "look_again", "probe_again"} => Asked(Job(p))
  /\ pr[p].pc = "look_again" /\ pr[p].out = "closed" => torn[Job(p)] \/ ~Undecided(Job(p))
  /\ pr[p].pc = "probe_again" /\ pr[p].out = "closed" => torn[Job(p)]

OneRun == \A p, q \in ChProcs :
            pr[p].pc \in {"mark", "submit"} /\ pr[q].pc \in {"mark", "submit"} /\ Job(p) = Job(q) => p = q

ChInv ==
  /\ VarTypes /\ OneRun
  /\ \A j \in ChJobs : JobInv(j)
  /\ \A p \in ChProcs : pr[p] # Idle => LockInv(p) /\ CopyInv(p) /\ RemoteInv(p) /\ WorkInv(p) /\ LookInv(p)

ProcInv(p) == LockInv(p) /\ CopyInv(p) /\ RemoteInv(p) /\ WorkInv(p) /\ LookInv(p)

-----------------------------------------------------------------------------
(* What a step of some processes leaves to the others                      *)

OthersKept(A) == \A q \in ChProcs \ A : pr'[q] = pr[q]
LocksKept(A) ==
  /\ xfer' \in [ChJobs -> ChProcs \cup {NoProc}]
  /\ \A q \in ChProcs \ A : /\ wsl = q => wsl' = q
                            /\ \A j \in ChJobs : xfer[j] = q => xfer'[j] = q

\* The workspace lock guards transactions and merges, the transfer lock the download, and
\* a transaction is opened, and a record read is current, only under both.
DataKept(A) ==
  \A q \in ChProcs \ A :
     /\ wsl = q => txn' = txn /\ merges' = merges /\ \A j \in ChJobs : Applied(j) => Applied(j)'
     /\ \A j \in ChJobs : xfer[j] = q =>
          /\ staged[j] => staged'[j]
          /\ txn[j] = "none" => txn'[j] = "none"
          /\ wsl = q => rec'[j] = rec[j]
     /\ \A j \in ChJobs : pr[q] # Idle /\ Job(q) = j =>
          /\ pr[q].pc \in {"mark", "submit"} => remote'[j] = remote[j]
          /\ Asked(j) => Asked(j)' /\ (Undecided(j)' => Undecided(j) \/ torn'[j])
Onward ==
  \A j \in ChJobs :
     /\ merges[j] <= merges'[j]
     /\ torn[j] => torn'[j]
     /\ remote[j] \in Ended => remote'[j] \in Ended /\ (remote[j] # "empty" => remote'[j] # "empty")

LEMMA MergesOnward ==
  ASSUME VarTypes, VarTypes', Onward, NEW j \in ChJobs, NEW r
  PROVE  /\ merges[j] > 0 => merges'[j] > 0
         /\ Merges(j) => Merges(j)'
         /\ Good(j, r) => Good(j, r)'
<1>1. merges[j] \in Nat /\ merges'[j] \in Nat /\ merges[j] <= merges'[j]
  BY DEF VarTypes, Onward
<1>2. merges[j] > 0 => merges'[j] > 0
  BY <1>1
<1>3. QED BY <1>2 DEF Merges, Good

LEMMA OthersKeep ==
  ASSUME VarTypes, VarTypes', NEW A, OthersKept(A), LocksKept(A), DataKept(A), Onward,
         NEW q \in ChProcs \ A, pr[q] # Idle, ProcInv(q)
  PROVE  ProcInv(q)'
<1>1. pr'[q] = pr[q] /\ pr[q] \in Process
  BY DEF OthersKept, VarTypes
<1>2. PICK j \in ChJobs : j = pr[q].job
  BY <1>1 DEF Process
<1>3. PICK k \in ChJobs : k = pr[q].k
  BY <1>1 DEF Process
<1>4. LockInv(q)'
  BY <1>1, <1>2 DEF ProcInv, LockInv, Job, LocksKept
<1>5. pr[q].pc \in HoldsWorkspace => wsl = q /\ txn' = txn /\ merges' = merges
  BY DEF ProcInv, LockInv, DataKept
<1>6. pr[q].pc \in HoldsTransfer =>
        /\ xfer[j] = q /\ (staged[j] => staged'[j]) /\ (txn[j] = "none" => txn'[j] = "none")
        /\ wsl = q => rec'[j] = rec[j]
  BY <1>2 DEF ProcInv, LockInv, DataKept, Job
<1>7. CopyInv(q)'
  <2>1. \A r : (Good(j, r) => Good(j, r)') /\ (Good(k, r) => Good(k, r)')
    BY MergesOnward
  <2>2. Merges(j) => Merges(j)'
    BY MergesOnward
  <2>3. pr[q].pc = "save" => (txn[j] = "none" => txn'[j] = "none")
    BY <1>6 DEF HoldsTransfer
  <2>4. QED BY <1>1, <1>2, <1>3, <2>1, <2>2, <2>3 DEF ProcInv, CopyInv, Job
<1>8. RemoteInv(q)'
  <2>1. remote[j] \in Ended => remote'[j] \in Ended /\ (remote[j] # "empty" => remote'[j] # "empty")
    BY DEF Onward
  <2>2. pr[q].pc \in {"mark", "submit"} => remote'[j] = remote[j]
    BY <1>2 DEF DataKept, Job
  <2>3. pr[q].pc \in {"reload", "fetch", "route"} => pr[q].pc \in Applying
    BY DEF Applying, Fetching
  <2>4. QED BY <1>1, <1>2, <2>1, <2>2, <2>3 DEF ProcInv, RemoteInv, Job
<1>9. WorkInv(q)'
  <2>1. pr[q].pc \in Inside => pr[q].pc \in HoldsWorkspace /\ pr[q].pc \in HoldsTransfer
    BY DEF HoldsWorkspace, HoldsTransfer
  <2>2. pr[q].pc \in Inside => rec'[j] = rec[j] /\ (staged[j] => staged'[j])
    BY <1>5, <1>6, <2>1
  <2>3. pr[q].pc \in Installing \cup Replays \cup Sessions => pr[q].pc \in Inside
    BY DEF Inside
  <2>4. pr[q].pc = "replay_commit" => (Applied(k) => Applied(k)')
    <3>1. pr[q].pc = "replay_commit" => wsl = q
      BY DEF ProcInv, LockInv, HoldsWorkspace, Inside, Replays
    <3>2. QED BY <3>1 DEF DataKept
  <2>5. torn[j] => torn'[j]
    BY DEF Onward
  <2>6. pr[q].pc \in {"settle_save", "gc_record"} => pr[q].pc \in HoldsWorkspace
    BY DEF HoldsWorkspace
  <2>7. pr[q].pc = "enter" => (staged[j] => staged'[j])
    BY <1>6 DEF HoldsTransfer
  <2>8. pr[q].pc \in {"apply", "open", "install", "note", "commit", "clear", "replay_commit", "replay_clear"} =>
          pr[q].pc \in Inside /\ txn' = txn /\ merges' = merges
    BY <1>5, <2>1, <2>3 DEF Installing, Replays
  <2>9. QED BY <1>1, <1>2, <1>3, <1>5, <2>2, <2>4, <2>5, <2>6, <2>7, <2>8 DEF ProcInv, WorkInv, Job
<1>10. LookInv(q)'
  <2>1. /\ torn[j] => torn'[j]
        /\ Asked(j) => Asked(j)' /\ (Undecided(j)' => Undecided(j) \/ torn'[j])
    BY <1>2 DEF Onward, DataKept, Job
  <2>2. QED BY <1>1, <1>2, <2>1 DEF ProcInv, LookInv, Job
<1>11. QED BY <1>4, <1>7, <1>8, <1>9, <1>10 DEF ProcInv

\* A step of the processes A keeps the invariant if it does so for them and for the jobs.
LEMMA StepKeeps ==
  ASSUME ChInv, VarTypes', NEW A, OthersKept(A), LocksKept(A), DataKept(A), Onward, OneRun',
         \A j \in ChJobs : JobInv(j)',
         \A p \in ChProcs \cap A : pr'[p] # Idle => ProcInv(p)'
  PROVE  ChInv'
<1>1. ASSUME NEW q \in ChProcs, pr'[q] # Idle PROVE ProcInv(q)'
  <2>1. CASE q \in A
    BY <1>1, <2>1
  <2>2. CASE q \notin A
    <3>1. pr'[q] = pr[q]
      BY <2>2 DEF OthersKept
    <3>2. VarTypes /\ pr[q] # Idle /\ ProcInv(q)
      BY <1>1, <3>1 DEF ChInv, ProcInv
    <3>3. QED BY <2>2, <3>2, OthersKeep
  <2>3. QED BY <2>1, <2>2
<1>2. QED BY <1>1 DEF ChInv, ProcInv

-----------------------------------------------------------------------------
(* Steps of one process that leave the records and the workspace alone     *)

Procs == [ChProcs -> Process \cup {Idle}]
Data == <<rec, remote, file, txn, staged, age, merges, torn, told>>

RunStays(p) == pr'[p].pc \in {"mark", "submit"} => pr[p].pc \in {"mark", "submit"} /\ pr'[p].job = pr[p].job

LEMMA Named == \A p \in ChProcs : p # NoProc
BY ChangesAssumption

LEMMA IdleApart == \A r \in Process : r # Idle
BY DEF Process, Idle

LEMMA RunsStay ==
  ASSUME OneRun, NEW p \in ChProcs, OthersKept({p}), RunStays(p)
  PROVE  OneRun'
<1>1. SUFFICES ASSUME NEW q \in ChProcs, NEW s \in ChProcs, pr'[q].pc \in {"mark", "submit"}, pr'[s].pc \in {"mark", "submit"},
                      pr'[q].job = pr'[s].job
               PROVE  q = s
  BY DEF OneRun, Job
<1>2. \A t \in ChProcs : pr'[t].pc \in {"mark", "submit"} => pr[t].pc \in {"mark", "submit"} /\ pr'[t].job = pr[t].job
  BY DEF OthersKept, RunStays
<1>3. QED BY <1>1, <1>2 DEF OneRun, Job

LEMMA QuietKeeps ==
  ASSUME ChInv, NEW p \in ChProcs, pr' \in Procs, OthersKept({p}), LocksKept({p}), UNCHANGED Data, RunStays(p),
         pr'[p] # Idle => ProcInv(p)'
  PROVE  ChInv'
<1>1. VarTypes /\ VarTypes' /\ OneRun'
  BY RunsStay DEF ChInv, VarTypes, Data, Procs, LocksKept
<1>2. \A j \in ChJobs : JobInv(j)'
  BY DEF ChInv, Data, JobInv, Good, Merges, Applied
<1>3. DataKept({p})
  BY DEF Data, DataKept, Undecided, Asked, Applied
<1>4. Onward
  <2>1. \A j \in ChJobs : merges[j] \in Nat /\ merges'[j] = merges[j]
    BY <1>1 DEF Data, VarTypes
  <2>2. \A j \in ChJobs : merges[j] <= merges'[j]
    BY <2>1
  <2>3. QED BY <2>2 DEF Data, Onward
<1>5. QED BY <1>1, <1>2, <1>3, <1>4, StepKeeps

\* Where nothing is held, and nothing but the job's end is known.
Light == {"confirm", "handoff", "handoff_last", "stream", "leave", "start", "poll", "gc"}
Known == {"auto", "auto_mark", "decide", "fail", "retry"}

LEMMA LightHolds ==
  ASSUME NEW p \in ChProcs, pr'[p].pc \in Light
  PROVE  ProcInv(p)'
BY DEF Light, ProcInv, LockInv, CopyInv, RemoteInv, WorkInv, LookInv, HoldsWorkspace, HoldsTransfer, Inside, Installing, Replays,
   Sessions, Applying, Fetching

LEMMA KnownHolds ==
  ASSUME NEW p \in ChProcs, pr'[p].pc \in Known, remote'[pr'[p].job] \in Ended
  PROVE  ProcInv(p)'
BY DEF Known, ProcInv, LockInv, CopyInv, RemoteInv, WorkInv, LookInv, HoldsWorkspace, HoldsTransfer, Inside, Installing, Replays,
   Sessions, Job

\* What moving on, ending and failing do to the process and to the locks.
SameWork(p) == /\ pr'[p].role = pr[p].role /\ pr'[p].job = pr[p].job /\ pr'[p].full = pr[p].full
               /\ pr'[p].k = pr[p].k /\ pr'[p].out = pr[p].out /\ pr'[p].nxt = pr[p].nxt
SameCopies(p) == pr'[p].copy = pr[p].copy /\ pr'[p].mine = pr[p].mine

LEMMA GoFacts ==
  ASSUME VarTypes, NEW p \in ChProcs, pr[p] # Idle, NEW pc \in Pcs, Go(p, pc)
  PROVE  pr' \in Procs /\ OthersKept({p}) /\ pr'[p].pc = pc /\ SameWork(p) /\ SameCopies(p)
<1>1. pr[p] \in Process /\ pr \in Procs
  BY DEF VarTypes, Procs
<1>2. pr' = [pr EXCEPT ![p] = [pr[p] EXCEPT !.pc = pc]]
  BY DEF Go
<1>3. PICK n : n = [pr[p] EXCEPT !.pc = pc]
  OBVIOUS
<1>4. n \in Process /\ n.pc = pc /\ n.role = pr[p].role /\ n.job = pr[p].job /\ n.full = pr[p].full /\ n.copy = pr[p].copy
      /\ n.mine = pr[p].mine /\ n.k = pr[p].k /\ n.out = pr[p].out /\ n.nxt = pr[p].nxt
  BY <1>1, <1>3 DEF Process
<1>5. pr' = [pr EXCEPT ![p] = n]
  BY <1>2, <1>3
<1>6. QED BY <1>1, <1>4, <1>5 DEF Procs, OthersKept, SameWork, SameCopies

LEMMA StopFacts ==
  ASSUME VarTypes, NEW p \in ChProcs, Stop(p)
  PROVE  pr' \in Procs /\ OthersKept({p}) /\ pr'[p] = Idle /\ RunStays(p)
BY DEF VarTypes, Stop, Procs, OthersKept, RunStays, Idle

LEMMA SameLocks ==
  ASSUME VarTypes, NEW A, UNCHANGED <<wsl, xfer>>
  PROVE  LocksKept(A)
BY DEF VarTypes, LocksKept

LEMMA ReleaseFacts ==
  ASSUME VarTypes, NEW p \in ChProcs, wsl' = (IF wsl = p THEN NoProc ELSE wsl), xfer' = Without(p, xfer)
  PROVE  LocksKept({p})
BY DEF VarTypes, Without, LocksKept

LEMMA TakeFacts ==
  ASSUME VarTypes, NEW p \in ChProcs, NEW j \in ChJobs, xfer[j] \in {NoProc, p}, xfer' = [xfer EXCEPT ![j] = p],
         wsl' = wsl \/ (wsl = NoProc /\ wsl' = p)
  PROVE  LocksKept({p}) /\ xfer'[j] = p
BY Named DEF VarTypes, LocksKept

LEMMA EnterFacts ==
  ASSUME VarTypes, NEW p \in ChProcs, wsl = NoProc, wsl' = p, xfer' = xfer
  PROVE  LocksKept({p})
BY Named DEF VarTypes, LocksKept

LEMMA ExitFacts ==
  ASSUME VarTypes, NEW p \in ChProcs, Exit(p)
  PROVE  pr' \in Procs /\ OthersKept({p}) /\ pr'[p] = Idle /\ RunStays(p) /\ LocksKept({p})
BY StopFacts, ReleaseFacts DEF Exit, ReleaseAll

LEMMA ExitKeeps ==
  ASSUME ChInv, NEW p \in ChProcs, Exit(p), UNCHANGED Data
  PROVE  ChInv'
<1>1. VarTypes
  BY DEF ChInv
<1>2. QED BY <1>1, ExitFacts, QuietKeeps

LEMMA StopKeeps ==
  ASSUME ChInv, NEW p \in ChProcs, Stop(p), UNCHANGED <<wsl, xfer>>, UNCHANGED Data
  PROVE  ChInv'
<1>1. VarTypes
  BY DEF ChInv
<1>2. LocksKept({p})
  BY <1>1, SameLocks
<1>3. QED BY <1>1, <1>2, StopFacts, QuietKeeps

\* The end of a fetch, with or without success.
Settles(p, pc) == pr' = [pr EXCEPT ![p].pc = pc, ![p].copy = NoRec, ![p].mine = NoRec]

LEMMA SettledFacts ==
  ASSUME VarTypes, NEW p \in ChProcs, pr[p] # Idle, NEW pc \in {"retry", "fail", "record"}, Settles(p, pc)
  PROVE  pr' \in Procs /\ OthersKept({p}) /\ pr'[p].pc = pc /\ SameWork(p)
<1>1. pr[p] \in Process /\ pr \in Procs
  BY DEF VarTypes, Procs
<1>2. PICK n : n = [[[pr[p] EXCEPT !.pc = pc] EXCEPT !.copy = NoRec] EXCEPT !.mine = NoRec]
  OBVIOUS
<1>3. pc \in Pcs /\ NoRec \in Maybe
  BY DEF Pcs, Applying, Maybe
<1>4. n \in Process /\ n.pc = pc /\ n.role = pr[p].role /\ n.job = pr[p].job /\ n.full = pr[p].full
      /\ n.k = pr[p].k /\ n.out = pr[p].out /\ n.nxt = pr[p].nxt
  BY <1>1, <1>2, <1>3 DEF Process
<1>5. pr' = [pr EXCEPT ![p] = n]
  BY <1>1, <1>2 DEF Procs, Settles
<1>6. QED BY <1>1, <1>4, <1>5 DEF Procs, OthersKept, SameWork

LEMMA FailFacts ==
  ASSUME VarTypes, NEW p \in ChProcs, pr[p] # Idle, NEW transient \in BOOLEAN, FetchFails(p, transient)
  PROVE  /\ pr' \in Procs /\ OthersKept({p}) /\ RunStays(p) /\ LocksKept({p})
         /\ pr'[p] # Idle => pr'[p].pc \in {"retry", "fail"} /\ pr'[p].job = pr[p].job
<1>1. CASE Exit(p)
  BY <1>1, ExitFacts
<1>2. CASE ~Exit(p)
  <2>1. PICK pc \in {"retry", "fail"} : Settles(p, pc)
    BY <1>2 DEF FetchFails, Settles
  <2>2. LocksKept({p})
    BY <1>2, ReleaseFacts DEF FetchFails
  <2>3. QED BY <2>1, <2>2, SettledFacts DEF RunStays, SameWork
<1>3. QED BY <1>1, <1>2

LEMMA FailKeeps ==
  ASSUME ChInv, NEW p \in ChProcs, pr[p] # Idle, NEW transient \in BOOLEAN, FetchFails(p, transient), UNCHANGED Data,
         remote[Job(p)] \in Ended
  PROVE  ChInv'
<1>1. VarTypes
  BY DEF ChInv
<1>2. pr'[p] # Idle => ProcInv(p)'
  <2>1. SUFFICES ASSUME pr'[p] # Idle PROVE ProcInv(p)'
    OBVIOUS
  <2>2. pr'[p].pc \in Known /\ pr'[p].job = pr[p].job
    BY <1>1, <2>1, FailFacts DEF Known
  <2>3. remote'[pr'[p].job] \in Ended
    BY <2>2 DEF Data, Job
  <2>4. QED BY <2>2, <2>3, KnownHolds
<1>3. QED BY <1>1, <1>2, FailFacts, QuietKeeps

LEMMA EndFacts ==
  ASSUME VarTypes, NEW p \in ChProcs, pr[p] # Idle, FetchEnds(p)
  PROVE  /\ pr' \in Procs /\ OthersKept({p}) /\ RunStays(p) /\ LocksKept({p})
         /\ pr'[p] # Idle => pr'[p].pc = "record" /\ pr'[p].job = pr[p].job
<1>1. CASE Exit(p)
  BY <1>1, ExitFacts
<1>2. CASE ~Exit(p)
  <2>1. Settles(p, "record")
    BY <1>2 DEF FetchEnds, Settles
  <2>2. LocksKept({p})
    BY <1>2, ReleaseFacts DEF FetchEnds
  <2>3. QED BY <2>1, <2>2, SettledFacts DEF RunStays, SameWork
<1>3. QED BY <1>1, <1>2

\* A move that keeps everything but the process and the locks.
LEMMA GoKeeps ==
  ASSUME ChInv, NEW p \in ChProcs, pr[p] # Idle, NEW pc \in Light \cup Known, Go(p, pc), LocksKept({p}), UNCHANGED Data,
         pc \in Known => remote[Job(p)] \in Ended
  PROVE  ChInv'
<1>1. VarTypes
  BY DEF ChInv
<1>2. pc \in Pcs /\ pc \notin {"mark", "submit"}
  BY DEF Light, Known, Pcs, Applying
<1>3. pr' \in Procs /\ OthersKept({p}) /\ pr'[p].pc = pc /\ pr'[p].job = pr[p].job
  BY <1>1, <1>2, GoFacts DEF SameWork
<1>4. RunStays(p)
  BY <1>2, <1>3 DEF RunStays
<1>5. ProcInv(p)'
  <2>1. CASE pc \in Light
    BY <1>3, <2>1, LightHolds
  <2>2. CASE pc \in Known
    <3>1. remote'[pr'[p].job] \in Ended
      BY <1>3, <2>2 DEF Data, Job
    <3>2. QED BY <1>3, <2>2, <3>1, KnownHolds
  <2>3. QED BY <2>1, <2>2
<1>6. QED BY <1>3, <1>4, <1>5, QuietKeeps

LEMMA LoadKeeps ==
  ASSUME ChInv, NEW p \in ChProcs, pr[p] # Idle, NEW pc, NEW out \in Outs, NEW nxt \in Nexts, TransferLoad(p, pc, out, nxt),
         UNCHANGED Data,
         out = "applied" => Merges(Job(p)),
         nxt = "reload" => remote[Job(p)] \in Ended /\ (remote[Job(p)] # "empty" \/ Job(p) \in SharedJobs)
  PROVE  ChInv'
<1>1. VarTypes /\ pr[p] \in Process /\ pr \in Procs
  BY DEF ChInv, VarTypes, Procs
<1>2. CASE Exit(p)
  BY <1>2, ExitKeeps
<1>3. CASE ~Exit(p)
  <2>1. PICK j \in ChJobs : j = pr[p].job
    BY <1>1 DEF Process
  <2>2. PICK n : n = [pr[p] EXCEPT !.pc = "save", !.out = out, !.nxt = nxt, !.copy = rec[j]]
    OBVIOUS
  <2>3. /\ xfer[j] \in {NoProc, p} /\ rec[j] # NoRec /\ xfer' = [xfer EXCEPT ![j] = p] /\ wsl' = wsl
        /\ pr' = [pr EXCEPT ![p] = n]
    BY <1>3, <2>1, <2>2 DEF TransferLoad, Job
  <2>4. n \in Process /\ n.pc = "save" /\ n.out = out /\ n.nxt = nxt /\ n.copy = rec[j] /\ n.job = j
    <3>1. "save" \in Pcs /\ rec[j] \in Maybe
      BY <1>1 DEF Pcs, VarTypes
    <3>2. QED BY <1>1, <2>1, <2>2, <3>1 DEF Process
  <2>5. pr' \in Procs /\ OthersKept({p}) /\ pr'[p] = n
    BY <1>1, <2>3, <2>4 DEF Procs, OthersKept
  <2>6. LocksKept({p}) /\ xfer'[j] = p
    BY <1>1, <2>3, TakeFacts
  <2>7. RunStays(p)
    BY <2>4, <2>5 DEF RunStays
  <2>8. JobInv(j)
    BY DEF ChInv
  <2>9. ProcInv(p)'
    <3>1. LockInv(p)'
      BY <2>4, <2>5, <2>6 DEF LockInv, Job, HoldsWorkspace, Inside, Installing, Replays, Sessions
    <3>2. CopyInv(p)'
      <4>1. Good(j, n.copy)' /\ (txn'[j] # "none" => n.copy.pend) /\ (out = "applied" => Merges(j)')
        BY <2>1, <2>3, <2>4, <2>8 DEF JobInv, Data, Good, Merges, Job
      <4>2. QED BY <2>4, <2>5, <4>1 DEF CopyInv, Job, Inside, Installing, Replays, Sessions
    <3>3. RemoteInv(p)'
      BY <2>1, <2>4, <2>5 DEF RemoteInv, Job, Data, Applying, Fetching, Inside, Installing, Replays, Sessions
    <3>4. WorkInv(p)' /\ LookInv(p)'
      BY <2>4, <2>5 DEF WorkInv, LookInv, Inside, Installing, Replays, Sessions
    <3>5. QED BY <3>1, <3>2, <3>3, <3>4 DEF ProcInv
  <2>10. QED BY <2>5, <2>6, <2>7, <2>9, QuietKeeps
<1>4. QED BY <1>2, <1>3

-----------------------------------------------------------------------------
(* errand run and the worker, where they only move                         *)

\* What a process that has a place to be is.
LEMMA ProcFacts ==
  ASSUME ChInv, NEW p \in ChProcs, NEW pc, At(p, pc), pc # "idle"
  PROVE  pr[p] # Idle /\ pr[p] \in Process /\ ProcInv(p) /\ Job(p) \in ChJobs /\ pr[p].pc = pc
<1>1. pr[p] # Idle /\ pr[p].pc = pc
  BY DEF At, Idle
<1>2. pr[p] \in Process
  BY <1>1 DEF ChInv, VarTypes
<1>3. QED BY <1>1, <1>2 DEF Process, Job, ChInv, ProcInv

LEMMA EndedKnown ==
  ASSUME NEW p \in ChProcs, ProcInv(p), pr[p].pc \in Applying
  PROVE  remote[Job(p)] \in Ended
BY DEF ProcInv, RemoteInv

LEMMA LeaveStep ==
  ASSUME ChInv, NEW p \in ChProcs, LeaveRun(p) \/ confirmAutomaticApplyAdmission(p) \/ RunAutomaticApplyWorker(p)
  PROVE  ChInv'
<1>1. UNCHANGED Data
  BY DEF LeaveRun, confirmAutomaticApplyAdmission, RunAutomaticApplyWorker, Data, ghosts
<1>2. CASE LeaveRun(p)
  BY <1>1, <1>2, ExitKeeps DEF LeaveRun
<1>3. CASE confirmAutomaticApplyAdmission(p)
  <2>1. pr[p] # Idle
    BY <1>3, ProcFacts DEF confirmAutomaticApplyAdmission
  <2>2. "confirm" \in Outs /\ "handoff" \in Nexts
    BY DEF Outs, Nexts
  <2>3. TransferLoad(p, "confirm", "confirm", "handoff")
    BY <1>3 DEF confirmAutomaticApplyAdmission
  <2>4. QED BY <1>1, <2>1, <2>2, <2>3, LoadKeeps
<1>4. CASE RunAutomaticApplyWorker(p)
  <2>1. pr[p] # Idle /\ VarTypes
    BY <1>4, ProcFacts DEF RunAutomaticApplyWorker, ChInv
  <2>2. UNCHANGED <<wsl, xfer>> /\ (Go(p, "poll") \/ Stop(p))
    BY <1>4 DEF RunAutomaticApplyWorker, locks
  <2>3. LocksKept({p})
    BY <2>1, <2>2, SameLocks
  <2>4. "poll" \in Light \cup Known /\ "poll" \notin Known
    BY DEF Light, Known
  <2>5. QED BY <1>1, <2>1, <2>2, <2>3, <2>4, GoKeeps, StopKeeps
<1>5. QED BY <1>2, <1>3, <1>4

\* The worker that is started is a process of its own.
LEMMA HandoffStep ==
  ASSUME ChInv, NEW p \in ChProcs, handoffAutomaticApply(p)
  PROVE  ChInv'
<1>1. UNCHANGED Data
  BY DEF handoffAutomaticApply, Data, ghosts
<1>2. pr[p] # Idle /\ pr[p] \in Process /\ VarTypes /\ Job(p) \in ChJobs /\ pr[p].pc \in {"handoff", "handoff_last"}
  BY ProcFacts DEF handoffAutomaticApply, ChInv, At
<1>3. PICK after \in {"stream", "leave"} :
        \/ \E w \in ChProcs:
            /\ pr[w] = Idle
            /\ pr' = [pr EXCEPT ![w] = Spawn("worker", Job(p), "start", TRUE), ![p].pc = after]
            /\ UNCHANGED locks
        \/ TransferLoad(p, "handoff", "pending", after)
  BY DEF handoffAutomaticApply
<1>4. CASE TransferLoad(p, "handoff", "pending", after)
  <2>1. "pending" \in Outs /\ after \in Nexts
    BY DEF Outs, Nexts, Unfinished
  <2>2. QED BY <1>1, <1>2, <1>3, <1>4, <2>1, LoadKeeps
<1>5. CASE \E w \in ChProcs:
            /\ pr[w] = Idle
            /\ pr' = [pr EXCEPT ![w] = Spawn("worker", Job(p), "start", TRUE), ![p].pc = after]
            /\ UNCHANGED locks
  <2>1. PICK w \in ChProcs : pr[w] = Idle /\ pr' = [pr EXCEPT ![w] = Spawn("worker", Job(p), "start", TRUE), ![p].pc = after]
    BY <1>5
  <2>2. PICK s : s = Spawn("worker", Job(p), "start", TRUE)
    OBVIOUS
  <2>3. PICK n : n = [pr[p] EXCEPT !.pc = after]
    OBVIOUS
  <2>4. p # w /\ pr \in Procs
    BY <1>2, <2>1 DEF VarTypes, Procs
  <2>5. s \in Process /\ s.pc = "start"
    <3>1. "start" \in Pcs /\ NoRec \in Maybe
      BY DEF Pcs, Maybe
    <3>2. QED BY <1>2, <2>2, <3>1 DEF Spawn, Process
  <2>6. n \in Process /\ n.pc = after
    <3>1. after \in Pcs
      BY DEF Pcs
    <3>2. QED BY <1>2, <2>3, <3>1 DEF Process
  <2>7. pr' = [pr EXCEPT ![w] = s, ![p] = n]
    BY <1>2, <2>1, <2>2, <2>3, <2>4 DEF Procs
  <2>8. pr' \in Procs /\ pr'[w] = s /\ pr'[p] = n /\ OthersKept({p, w})
    BY <2>4, <2>5, <2>6, <2>7 DEF Procs, OthersKept
  <2>9. LocksKept({p, w})
    BY <1>2, <1>5, SameLocks DEF locks
  <2>10. VarTypes'
    BY <1>1, <1>2, <2>8, <2>9 DEF VarTypes, Procs, LocksKept, Data
  <2>11. OneRun'
    <3>1. \A q \in ChProcs : pr'[q].pc \in {"mark", "submit"} => pr'[q] = pr[q]
      BY <2>5, <2>6, <2>8 DEF OthersKept
    <3>2. QED BY <3>1 DEF ChInv, OneRun, Job
  <2>12. \A j \in ChJobs : JobInv(j)'
    BY <1>1 DEF ChInv, Data, JobInv, Good, Merges, Applied
  <2>13. DataKept({p, w})
    BY <1>1 DEF Data, DataKept, Undecided, Asked, Applied
  <2>14. Onward
    <3>1. \A j \in ChJobs : merges[j] \in Nat /\ merges'[j] = merges[j]
      BY <1>1, <1>2 DEF Data, VarTypes
    <3>2. \A j \in ChJobs : merges[j] <= merges'[j]
      BY <3>1
    <3>3. QED BY <1>1, <3>2 DEF Data, Onward
  <2>15. \A q \in {p, w} : ProcInv(q)'
    BY <2>5, <2>6, <2>8, LightHolds DEF Light
  <2>16. QED BY <2>8, <2>9, <2>10, <2>11, <2>12, <2>13, <2>14, <2>15, StepKeeps
<1>6. QED BY <1>3, <1>4, <1>5

LEMMA PollStep ==
  ASSUME ChInv, NEW p \in ChProcs, WorkerPoll(p)
  PROVE  ChInv'
<1>1. UNCHANGED Data
  BY DEF WorkerPoll, Data, ghosts
<1>2. pr[p] # Idle /\ VarTypes
  BY ProcFacts DEF WorkerPoll, ChInv
<1>3. \/ Exit(p)
      \/ \E out \in {"confirm", "failed", "pending"}, nxt \in {"poll", "exit"} : TransferLoad(p, "poll", out, nxt)
      \/ remote[Job(p)] \in Ended /\ Go(p, "auto") /\ UNCHANGED locks
  BY DEF WorkerPoll, Ended
<1>4. CASE Exit(p)
  BY <1>1, <1>4, ExitKeeps
<1>5. CASE \E out \in {"confirm", "failed", "pending"}, nxt \in {"poll", "exit"} : TransferLoad(p, "poll", out, nxt)
  <2>1. {"confirm", "failed", "pending"} \subseteq Outs /\ {"poll", "exit"} \subseteq Nexts
    BY DEF Outs, Nexts, Unfinished, FinishedSet
  <2>2. QED BY <1>1, <1>2, <1>5, <2>1, LoadKeeps
<1>6. CASE remote[Job(p)] \in Ended /\ Go(p, "auto") /\ UNCHANGED locks
  <2>1. LocksKept({p}) /\ "auto" \in Light \cup Known
    BY <1>2, <1>6, SameLocks DEF locks, Known
  <2>2. QED BY <1>1, <1>2, <1>6, <2>1, GoKeeps
<1>7. QED BY <1>3, <1>4, <1>5, <1>6

LEMMA AutoSteps ==
  ASSUME ChInv, NEW p \in ChProcs, applyTerminalAutomatically(p) \/ AutoRecord(p)
  PROVE  ChInv'
<1>1. UNCHANGED Data
  BY DEF applyTerminalAutomatically, AutoRecord, Data, ghosts
<1>2. pr[p] # Idle /\ VarTypes /\ ProcInv(p)
  BY ProcFacts DEF applyTerminalAutomatically, AutoRecord, ChInv
<1>3. CASE applyTerminalAutomatically(p)
  <2>1. remote[Job(p)] \in Ended
    BY <1>2, <1>3, EndedKnown DEF applyTerminalAutomatically, At, Applying
  <2>2. Exit(p) \/ (Go(p, "auto_mark") /\ UNCHANGED <<wsl, xfer>>)
    BY <1>3 DEF applyTerminalAutomatically
  <2>3. CASE Go(p, "auto_mark") /\ UNCHANGED <<wsl, xfer>>
    <3>1. LocksKept({p}) /\ "auto_mark" \in Light \cup Known
      BY <1>2, <2>3, SameLocks DEF Known
    <3>2. QED BY <1>1, <1>2, <2>1, <2>3, <3>1, GoKeeps
  <2>4. QED BY <1>1, <2>2, <2>3, ExitKeeps
<1>4. CASE AutoRecord(p)
  <2>1. PICK pc \in {"record", "fail", "retry"}, out \in {"applied", "failed", "pending"}, nxt \in {"exit", "poll"} :
          At(p, pc) /\ TransferLoad(p, pc, out, nxt) /\ (out = "applied" => pc = "record")
    BY <1>4 DEF AutoRecord
  <2>2. out \in Outs /\ nxt \in Nexts
    BY DEF Outs, Nexts, Unfinished, FinishedSet
  <2>3. out = "applied" => Merges(Job(p))
    BY <1>2, <2>1 DEF ProcInv, CopyInv, At
  <2>4. QED BY <1>1, <1>2, <2>1, <2>2, <2>3, LoadKeeps
<1>5. QED BY <1>3, <1>4

LEMMA DecideStep ==
  ASSUME ChInv, NEW p \in ChProcs, applyTerminalAutomaticallyOwned(p)
  PROVE  ChInv'
<1>1. UNCHANGED Data
  BY DEF applyTerminalAutomaticallyOwned, Data, ghosts
<1>2. pr[p] # Idle /\ ProcInv(p)
  BY ProcFacts DEF applyTerminalAutomaticallyOwned
<1>3. remote[Job(p)] \in Ended
  BY <1>2, EndedKnown DEF applyTerminalAutomaticallyOwned, At, Applying
<1>4. \/ \E out \in {"skipped", "no_changes"} : TransferLoad(p, "decide", out, "exit")
      \/ (remote[Job(p)] # "empty" \/ Job(p) \in SharedJobs) /\ TransferLoad(p, "decide", "running", "reload")
  BY DEF applyTerminalAutomaticallyOwned
<1>5. {"skipped", "no_changes", "running"} \subseteq Outs /\ {"exit", "reload"} \subseteq Nexts
  BY DEF Outs, Nexts, Unfinished, FinishedSet
<1>6. QED BY <1>1, <1>2, <1>3, <1>4, <1>5, LoadKeeps

-----------------------------------------------------------------------------
(* Fetching, where it only moves                                           *)

LEMMA ReloadStep ==
  ASSUME ChInv, NEW p \in ChProcs, AutoReload(p)
  PROVE  ChInv'
<1>1. UNCHANGED Data
  BY DEF AutoReload, Data, ghosts
<1>2. pr[p] # Idle /\ ProcInv(p) /\ VarTypes /\ pr[p].pc = "reload"
  BY ProcFacts DEF AutoReload, ChInv
<1>3. Exit(p) \/ (Go(p, "fetch") /\ UNCHANGED locks)
  BY DEF AutoReload
<1>4. CASE Go(p, "fetch") /\ UNCHANGED locks
  <2>1. pr' \in Procs /\ OthersKept({p}) /\ pr'[p].pc = "fetch" /\ SameWork(p) /\ LocksKept({p})
    BY <1>2, <1>4, GoFacts, SameLocks DEF locks, Pcs, Applying, Fetching
  <2>2. RunStays(p)
    BY <2>1 DEF RunStays
  <2>3. remote[Job(p)] \in Ended /\ (pr[p].role # "fetch" => remote[Job(p)] # "empty" \/ Job(p) \in SharedJobs)
    BY <1>2 DEF ProcInv, RemoteInv, Applying
  <2>4. ProcInv(p)'
    <3>1. RemoteInv(p)'
      BY <1>1, <2>1, <2>3 DEF RemoteInv, Data, SameWork, Job
    <3>2. LockInv(p)' /\ CopyInv(p)' /\ WorkInv(p)' /\ LookInv(p)'
      BY <2>1 DEF LockInv, CopyInv, WorkInv, LookInv, HoldsWorkspace, HoldsTransfer, Inside, Installing, Replays, Sessions
    <3>3. QED BY <3>1, <3>2 DEF ProcInv
  <2>5. QED BY <1>1, <2>1, <2>2, <2>4, QuietKeeps
<1>5. QED BY <1>1, <1>3, <1>4, ExitKeeps

LEMMA RouteStep ==
  ASSUME ChInv, NEW p \in ChProcs, RouteFetch(p)
  PROVE  ChInv'
<1>1. UNCHANGED Data
  BY DEF RouteFetch, Data, ghosts
<1>2. pr[p] # Idle /\ pr[p] \in Process /\ ProcInv(p) /\ VarTypes /\ pr[p].pc = "route" /\ pr \in Procs
  BY ProcFacts DEF RouteFetch, ChInv, VarTypes, Procs
<1>3. PICK j \in ChJobs : j = pr[p].job
  BY <1>2 DEF Process
<1>4. remote[j] \in Ended /\ (pr[p].role # "fetch" => remote[j] # "empty" \/ j \in SharedJobs)
  BY <1>2, <1>3 DEF ProcInv, RemoteInv, Applying, Fetching, Job
<1>5. CASE FetchFails(p, FALSE)
  BY <1>1, <1>2, <1>3, <1>4, <1>5, FailKeeps DEF Job
<1>6. CASE ~FetchFails(p, FALSE)
  <2>1. /\ rec[j] # NoRec /\ UNCHANGED locks
        /\ \/ j \in SharedJobs /\ pr' = [pr EXCEPT ![p].pc = "download", ![p].mine = rec[j]]
           \/ j \notin SharedJobs /\ remote[j] = "empty" /\ Go(p, "settle")
           \/ j \notin SharedJobs /\ Go(p, "download")
    BY <1>3, <1>6 DEF RouteFetch, Job
  <2>2. PICK n : n = [[pr[p] EXCEPT !.pc = "download"] EXCEPT !.mine = rec[j]]
    OBVIOUS
  <2>3. n \in Process /\ n.pc = "download" /\ n.mine = rec[j] /\ n.job = j /\ n.role = pr[p].role
    <3>1. "download" \in Pcs /\ rec[j] \in Maybe
      BY <1>2 DEF Pcs, Applying, Fetching, VarTypes
    <3>2. QED BY <1>2, <1>3, <2>2, <3>1 DEF Process
  <2>4. \/ /\ pr' = [pr EXCEPT ![p] = n] /\ j \in SharedJobs
        \/ j \notin SharedJobs /\ remote[j] = "empty" /\ Go(p, "settle")
        \/ j \notin SharedJobs /\ Go(p, "download")
    BY <1>2, <2>1, <2>2 DEF Procs
  <2>5. "settle" \in Pcs /\ "download" \in Pcs
    BY DEF Pcs, Applying, Fetching
  <2>6. /\ pr' \in Procs /\ OthersKept({p}) /\ pr'[p].job = j /\ pr'[p].role = pr[p].role
        /\ \/ pr'[p].pc = "download" /\ (j \in SharedJobs => pr'[p].mine = rec[j])
           \/ pr'[p].pc = "settle" /\ j \notin SharedJobs /\ remote[j] = "empty"
    <3>1. CASE pr' = [pr EXCEPT ![p] = n]
      BY <1>2, <2>3, <3>1 DEF Procs, OthersKept
    <3>2. CASE j \notin SharedJobs /\ remote[j] = "empty" /\ Go(p, "settle")
      BY <1>2, <1>3, <2>5, <3>2, GoFacts DEF SameWork
    <3>3. CASE j \notin SharedJobs /\ Go(p, "download")
      BY <1>2, <1>3, <2>5, <3>3, GoFacts DEF SameWork
    <3>4. QED BY <2>4, <3>1, <3>2, <3>3
  <2>7. RunStays(p) /\ LocksKept({p})
    BY <1>2, <2>1, <2>6, SameLocks DEF RunStays, locks
  <2>8. Good(j, rec[j])'
    BY <1>1, <2>1 DEF ChInv, JobInv, Good, Merges, Data
  <2>9. ProcInv(p)'
    <3>1. LockInv(p)' /\ WorkInv(p)' /\ LookInv(p)'
      BY <2>6 DEF LockInv, WorkInv, LookInv, HoldsWorkspace, HoldsTransfer, Inside, Installing, Replays, Sessions
    <3>2. CopyInv(p)'
      BY <1>1, <2>6, <2>8 DEF CopyInv, Inside, Installing, Replays, Sessions, Job, Data
    <3>3. RemoteInv(p)'
      BY <1>1, <1>4, <2>6 DEF RemoteInv, Data, Job
    <3>4. QED BY <3>1, <3>2, <3>3 DEF ProcInv
  <2>10. QED BY <1>1, <2>6, <2>7, <2>9, QuietKeeps
<1>7. QED BY <1>5, <1>6

LEMMA SettleLoadStep ==
  ASSUME ChInv, NEW p \in ChProcs, SettleLoad(p)
  PROVE  ChInv'
<1>1. UNCHANGED Data
  BY DEF SettleLoad, Data, ghosts
<1>2. pr[p] # Idle /\ pr[p] \in Process /\ ProcInv(p) /\ VarTypes /\ pr[p].pc = "settle" /\ pr \in Procs
  BY ProcFacts DEF SettleLoad, ChInv, VarTypes, Procs
<1>3. PICK j \in ChJobs : j = pr[p].job
  BY <1>2 DEF Process
<1>4. remote[j] \in Ended /\ pr[p].role = "fetch"
  BY <1>2, <1>3 DEF ProcInv, RemoteInv, Applying, Fetching, Job
<1>5. CASE FetchFails(p, FALSE)
  BY <1>1, <1>2, <1>3, <1>4, <1>5, FailKeeps DEF Job
<1>6. CASE ~FetchFails(p, FALSE)
  <2>1. PICK n : n = [[pr[p] EXCEPT !.pc = "settle_save"] EXCEPT !.copy = rec[j]]
    OBVIOUS
  <2>2. /\ rec[j] # NoRec /\ ~rec[j].pend /\ wsl = NoProc /\ wsl' = p /\ xfer' = xfer
        /\ pr' = [pr EXCEPT ![p].pc = "settle_save", ![p].copy = rec[j]]
    BY <1>3, <1>6 DEF SettleLoad, Job
  <2>3. n \in Process /\ n.pc = "settle_save" /\ n.copy = rec[j] /\ n.job = j /\ n.role = pr[p].role
    <3>1. "settle_save" \in Pcs /\ rec[j] \in Maybe
      BY <1>2 DEF Pcs, Applying, Fetching, VarTypes
    <3>2. QED BY <1>2, <1>3, <2>1, <3>1 DEF Process
  <2>4. pr' = [pr EXCEPT ![p] = n]
    BY <1>2, <2>1, <2>2 DEF Procs
  <2>5. pr' \in Procs /\ OthersKept({p}) /\ pr'[p] = n
    BY <1>2, <2>3, <2>4 DEF Procs, OthersKept
  <2>6. RunStays(p) /\ LocksKept({p})
    BY <1>2, <2>2, <2>3, <2>5, EnterFacts DEF RunStays
  <2>7. Good(j, rec[j])' /\ txn'[j] = "none"
    BY <1>1, <2>2 DEF ChInv, JobInv, Good, Merges, Data
  <2>8. ProcInv(p)'
    <3>1. LockInv(p)' /\ WorkInv(p)' /\ LookInv(p)'
      BY <2>2, <2>3, <2>5, <2>7 DEF LockInv, WorkInv, LookInv, HoldsTransfer, Inside, Installing, Replays, Sessions, Job
    <3>2. CopyInv(p)'
      BY <1>1, <2>3, <2>5, <2>7 DEF CopyInv, Inside, Installing, Replays, Sessions, Job, Data
    <3>3. RemoteInv(p)'
      BY <1>1, <1>4, <2>3, <2>5 DEF RemoteInv, Data, Job
    <3>4. QED BY <3>1, <3>2, <3>3 DEF ProcInv
  <2>9. QED BY <1>1, <2>5, <2>6, <2>8, QuietKeeps
<1>7. QED BY <1>5, <1>6

\* The download is new, and the transfer lock keeps it.
LEMMA DownloadStep ==
  ASSUME ChInv, NEW p \in ChProcs, downloadChangeBundleLocked(p)
  PROVE  ChInv'
<1>1. pr[p] # Idle /\ pr[p] \in Process /\ ProcInv(p) /\ VarTypes /\ pr[p].pc = "download" /\ pr \in Procs
  BY ProcFacts DEF downloadChangeBundleLocked, ChInv, VarTypes, Procs
<1>2. PICK j \in ChJobs : j = pr[p].job
  BY <1>1 DEF Process
<1>3. remote[j] \in Ended /\ (j \in SharedJobs => Good(j, pr[p].mine))
  BY <1>1, <1>2 DEF ProcInv, RemoteInv, CopyInv, Applying, Fetching, Job
<1>4. CASE FetchFails(p, remote[j] # "gone") /\ UNCHANGED <<staged, age>>
  <2>1. UNCHANGED Data
    BY <1>4 DEF downloadChangeBundleLocked, Data, ghosts
  <2>2. (remote[j] # "gone") \in BOOLEAN
    OBVIOUS
  <2>3. QED BY <1>1, <1>2, <1>3, <1>4, <2>1, <2>2, FailKeeps DEF Job
<1>5. CASE /\ Go(p, "enter") /\ xfer' = [xfer EXCEPT ![j] = p] /\ UNCHANGED <<wsl, autol, lease>>
           /\ staged' = [staged EXCEPT ![j] = TRUE] /\ age' = [age EXCEPT ![j] = 0]
  <2>1. /\ pr' \in Procs /\ OthersKept({p}) /\ pr'[p].pc = "enter" /\ pr'[p].job = j /\ pr'[p].role = pr[p].role
        /\ pr'[p].mine = pr[p].mine
    BY <1>1, <1>2, <1>5, GoFacts DEF Pcs, Applying, Fetching, SameWork, SameCopies
  <2>2. xfer[j] = NoProc /\ UNCHANGED <<rec, remote, file, txn, merges, torn, told>>
    BY <1>2 DEF downloadChangeBundleLocked, Job, ghosts
  <2>3. LocksKept({p}) /\ xfer'[j] = p
    BY <1>1, <1>5, <2>2, TakeFacts
  <2>4. VarTypes'
    BY <1>1, <1>5, <2>1, <2>2, <2>3 DEF VarTypes, Procs, LocksKept
  <2>5. RunStays(p) /\ OneRun'
    BY <2>1, RunsStay DEF RunStays, ChInv
  <2>6. \A i \in ChJobs : JobInv(i)'
    BY <2>2 DEF ChInv, JobInv, Good, Merges, Applied
  <2>7. DataKept({p})
    BY <1>1, <1>5, <2>2 DEF DataKept, Undecided, Asked, Applied, VarTypes
  <2>8. Onward
    <3>1. \A i \in ChJobs : merges[i] \in Nat /\ merges'[i] = merges[i]
      BY <1>1, <2>2 DEF VarTypes
    <3>2. \A i \in ChJobs : merges[i] <= merges'[i]
      BY <3>1
    <3>3. QED BY <2>2, <3>2 DEF Onward
  <2>9. ProcInv(p)'
    <3>1. LockInv(p)' /\ LookInv(p)'
      BY <2>1, <2>3 DEF LockInv, LookInv, HoldsWorkspace, Inside, Installing, Replays, Sessions, Job
    <3>2. CopyInv(p)'
      BY <1>3, <2>1, <2>2 DEF CopyInv, Inside, Installing, Replays, Sessions, Job, Good, Merges
    <3>3. RemoteInv(p)'
      BY <1>3, <2>1, <2>2 DEF RemoteInv, Job
    <3>4. WorkInv(p)'
      <4>1. staged'[j]
        BY <1>1, <1>5 DEF VarTypes
      <4>2. QED BY <2>1, <4>1 DEF WorkInv, Job, Inside, Installing, Replays, Sessions
    <3>5. QED BY <3>1, <3>2, <3>3, <3>4 DEF ProcInv
  <2>10. \A q \in ChProcs \cap {p} : pr'[q] # Idle => ProcInv(q)'
    BY <2>9
  <2>11. QED BY <2>1, <2>3, <2>4, <2>5, <2>6, <2>7, <2>8, <2>10, StepKeeps
<1>6. QED BY <1>2, <1>4, <1>5 DEF downloadChangeBundleLocked, Job

LEMMA EnterStep ==
  ASSUME ChInv, NEW p \in ChProcs, withWorkspaceChangeLock(p)
  PROVE  ChInv'
<1>1. UNCHANGED Data
  BY DEF withWorkspaceChangeLock, Data, ghosts
<1>2. pr[p] # Idle /\ pr[p] \in Process /\ ProcInv(p) /\ VarTypes /\ pr[p].pc = "enter"
  BY ProcFacts DEF withWorkspaceChangeLock, ChInv
<1>3. PICK j \in ChJobs : j = pr[p].job
  BY <1>2 DEF Process
<1>4. remote[j] \in Ended /\ xfer[j] = p /\ staged[j] /\ (j \in SharedJobs => Good(j, pr[p].mine))
  BY <1>2, <1>3 DEF ProcInv, LockInv, RemoteInv, WorkInv, CopyInv, Applying, Fetching, HoldsTransfer, Job
<1>5. CASE FetchFails(p, FALSE)
  BY <1>1, <1>2, <1>3, <1>4, <1>5, FailKeeps DEF Job
<1>6. CASE ~FetchFails(p, FALSE)
  <2>1. rec[j] # NoRec /\ wsl = NoProc /\ wsl' = p /\ xfer' = xfer /\ Go(p, "recover")
    BY <1>3, <1>6 DEF withWorkspaceChangeLock, Job
  <2>2. /\ pr' \in Procs /\ OthersKept({p}) /\ pr'[p].pc = "recover" /\ pr'[p].job = j /\ pr'[p].role = pr[p].role
        /\ pr'[p].mine = pr[p].mine
    BY <1>2, <1>3, <2>1, GoFacts DEF Pcs, Applying, Fetching, Inside, SameWork, SameCopies
  <2>3. RunStays(p) /\ LocksKept({p})
    BY <1>2, <2>1, <2>2, EnterFacts DEF RunStays
  <2>4. ProcInv(p)'
    <3>1. LockInv(p)' /\ LookInv(p)'
      BY <1>4, <2>1, <2>2 DEF LockInv, LookInv, Job
    <3>2. CopyInv(p)'
      BY <1>1, <1>4, <2>2 DEF CopyInv, Replays, Job, Good, Merges, Data
    <3>3. RemoteInv(p)'
      BY <1>1, <1>4, <2>2 DEF RemoteInv, Job, Data
    <3>4. WorkInv(p)'
      BY <1>1, <1>4, <2>1, <2>2 DEF WorkInv, Job, Installing, Replays, Sessions, Data
    <3>5. QED BY <3>1, <3>2, <3>3, <3>4 DEF ProcInv
  <2>5. QED BY <1>1, <2>2, <2>3, <2>4, QuietKeeps
<1>7. QED BY <1>5, <1>6

-----------------------------------------------------------------------------
(* Under both locks                                                        *)

InsideFacts(p, j) ==
  /\ j = pr[p].job /\ wsl = p /\ xfer[j] = p /\ staged[j] /\ rec[j] # NoRec /\ Good(j, rec[j]) /\ remote[j] \in Ended
  /\ j \in SharedJobs => Good(j, pr[p].mine)

LEMMA InsideKnown ==
  ASSUME ChInv, NEW p \in ChProcs, NEW pc \in Inside, At(p, pc)
  PROVE  /\ pr[p] # Idle /\ pr[p] \in Process /\ pr \in Procs /\ ProcInv(p) /\ VarTypes /\ pr[p].pc = pc
         /\ \E j \in ChJobs : InsideFacts(p, j)
<1>1. pc # "idle"
  BY DEF Inside, Replays, Installing, Sessions
<1>2. pr[p] # Idle /\ pr[p] \in Process /\ pr \in Procs /\ ProcInv(p) /\ VarTypes /\ pr[p].pc = pc
  BY <1>1, ProcFacts DEF ChInv, VarTypes, Procs
<1>3. PICK j \in ChJobs : j = pr[p].job
  BY <1>2 DEF Process
<1>4. wsl = p /\ xfer[j] = p
  BY <1>2, <1>3 DEF ProcInv, LockInv, Job, HoldsWorkspace, HoldsTransfer
<1>5. staged[j] /\ rec[j] # NoRec
  BY <1>2, <1>3 DEF ProcInv, WorkInv, Job
<1>6. remote[j] \in Ended /\ (j \in SharedJobs => Good(j, pr[p].mine))
  BY <1>2, <1>3 DEF ProcInv, RemoteInv, CopyInv, Job, Applying, Fetching
<1>7. Good(j, rec[j])
  BY <1>5 DEF ChInv, JobInv
<1>8. QED BY <1>2, <1>3, <1>4, <1>5, <1>6, <1>7 DEF InsideFacts

LEMMA InsideHolds ==
  ASSUME NEW p \in ChProcs, NEW j \in ChJobs, pr'[p].pc \in Inside, pr'[p].job = j, wsl' = p, xfer'[j] = p,
         remote'[j] \in Ended, j \in SharedJobs => Good(j, pr[p].mine)',
         pr'[p].pc \in Replays => Good(pr[p].k, pr[p].copy)' /\ pr'[p].copy.pend,
         WorkInv(p)'
  PROVE  ProcInv(p)'
<1>1. /\ pr'[p].pc \notin {"save", "settle_save", "record", "mark", "submit", "reload", "fetch", "route", "settle"}
      /\ pr'[p].pc \notin {"probe", "look_again", "probe_again"}
  BY DEF Inside, Replays, Installing, Sessions
<1>2. LockInv(p)' /\ LookInv(p)'
  BY <1>1 DEF LockInv, LookInv, Job
<1>3. CopyInv(p)'
  BY <1>1 DEF CopyInv, Job
<1>4. RemoteInv(p)'
  BY <1>1 DEF RemoteInv, Job
<1>5. QED BY <1>2, <1>3, <1>4 DEF ProcInv

\* Where the command goes once no transaction is left.
LEMMA Cleared ==
  ASSUME ChInv, NEW p \in ChProcs, pr[p].pc \in {"recover", "visit"}, Transactions = {},
         Go(p, IF Job(p) \in SharedJobs THEN "session" ELSE "apply"), UNCHANGED locks, UNCHANGED Data
  PROVE  ChInv'
<1>1. pr[p].pc \in Inside
  BY DEF Inside
<1>2. /\ pr[p] # Idle /\ pr[p] \in Process /\ pr \in Procs /\ ProcInv(p) /\ VarTypes
      /\ \E j \in ChJobs : InsideFacts(p, j)
  BY <1>1, InsideKnown DEF At
<1>3. PICK j \in ChJobs : InsideFacts(p, j)
  BY <1>2
<1>4. PICK pc \in Inside : pc = (IF j \in SharedJobs THEN "session" ELSE "apply")
  BY DEF Inside, Installing, Sessions
<1>5. pc \in Pcs /\ Go(p, pc)
  BY <1>3, <1>4 DEF Pcs, Applying, Fetching, InsideFacts, Job
<1>6. /\ pr' \in Procs /\ OthersKept({p}) /\ pr'[p].pc = pc /\ pr'[p].job = j /\ pr'[p].mine = pr[p].mine
  BY <1>2, <1>3, <1>5, GoFacts DEF SameWork, SameCopies, InsideFacts
<1>7. RunStays(p) /\ LocksKept({p})
  BY <1>2, <1>4, <1>6, SameLocks DEF RunStays, locks
<1>8. wsl' = p /\ xfer'[j] = p /\ remote'[j] \in Ended /\ (j \in SharedJobs => Good(j, pr[p].mine)') /\ staged'[j] /\ rec'[j] # NoRec
  BY <1>3, <1>6 DEF locks, Data, InsideFacts, Good, Merges
<1>9. txn'[j] = "none"
  BY DEF Transactions, Data
<1>10. WorkInv(p)'
  BY <1>4, <1>6, <1>8, <1>9 DEF WorkInv, Job, Installing, Sessions
<1>11. pr'[p].pc \notin Replays
  BY <1>4, <1>6 DEF Replays
<1>12. ProcInv(p)'
  BY <1>4, <1>6, <1>8, <1>10, <1>11, InsideHolds
<1>13. QED BY <1>6, <1>7, <1>12, QuietKeeps

LEMMA RecoverStep ==
  ASSUME ChInv, NEW p \in ChProcs, recoverWorkspaceApplications(p)
  PROVE  ChInv'
<1>1. UNCHANGED Data /\ UNCHANGED locks /\ pr[p].pc = "recover"
  BY DEF recoverWorkspaceApplications, Data, ghosts, At
<1>2. CASE Transactions = {}
  <2>1. Go(p, IF Job(p) \in SharedJobs THEN "session" ELSE "apply")
    BY <1>2 DEF recoverWorkspaceApplications
  <2>2. QED BY <1>1, <1>2, <2>1, Cleared
<1>3. CASE Transactions # {}
  <2>1. "recover" \in Inside /\ "visit" \in Inside /\ "visit" \in Pcs
    BY DEF Inside, Pcs, Applying, Fetching
  <2>2. /\ pr[p] # Idle /\ pr[p] \in Process /\ pr \in Procs /\ ProcInv(p) /\ VarTypes
        /\ \E j \in ChJobs : InsideFacts(p, j)
    BY <1>1, <2>1, InsideKnown DEF At
  <2>3. PICK j \in ChJobs : InsideFacts(p, j)
    BY <2>2
  <2>4. PICK n : n = [[pr[p] EXCEPT !.pc = "visit"] EXCEPT !.todo = ChJobs]
    OBVIOUS
  <2>5. n \in Process /\ n.pc = "visit" /\ n.job = j /\ n.mine = pr[p].mine
    BY <2>1, <2>2, <2>3, <2>4 DEF Process, InsideFacts
  <2>6. pr' = [pr EXCEPT ![p].pc = "visit", ![p].todo = ChJobs]
    BY <1>3 DEF recoverWorkspaceApplications
  <2>7. pr' = [pr EXCEPT ![p] = n]
    BY <2>2, <2>4, <2>6 DEF Procs
  <2>8. pr' \in Procs /\ OthersKept({p}) /\ pr'[p] = n
    BY <2>2, <2>5, <2>7 DEF Procs, OthersKept
  <2>9. RunStays(p) /\ LocksKept({p})
    BY <1>1, <2>2, <2>5, <2>8, SameLocks DEF RunStays, locks
  <2>10. wsl' = p /\ xfer'[j] = p /\ remote'[j] \in Ended /\ (j \in SharedJobs => Good(j, pr[p].mine)') /\ staged'[j] /\ rec'[j] # NoRec
    BY <1>1, <2>3, <2>5, <2>8 DEF locks, Data, InsideFacts, Good, Merges
  <2>11. WorkInv(p)' /\ pr'[p].pc \notin Replays
    BY <2>5, <2>8, <2>10 DEF WorkInv, Job, Installing, Sessions, Replays
  <2>12. ProcInv(p)'
    BY <2>1, <2>5, <2>8, <2>10, <2>11, InsideHolds
  <2>13. QED BY <1>1, <2>8, <2>9, <2>12, QuietKeeps
<1>4. QED BY <1>2, <1>3

LEMMA VisitStep ==
  ASSUME ChInv, NEW p \in ChProcs, RecoverNext(p)
  PROVE  ChInv'
<1>1. UNCHANGED Data /\ pr[p].pc = "visit"
  BY DEF RecoverNext, Data, ghosts, At
<1>2. "visit" \in Inside /\ "visit" \in Pcs /\ "replay" \in Inside /\ "replay" \in Pcs
  BY DEF Inside, Replays, Pcs, Applying, Fetching
<1>3. /\ pr[p] # Idle /\ pr[p] \in Process /\ pr \in Procs /\ ProcInv(p) /\ VarTypes
      /\ \E j \in ChJobs : InsideFacts(p, j)
  BY <1>1, <1>2, InsideKnown DEF At
<1>4. PICK j \in ChJobs : InsideFacts(p, j)
  BY <1>3
<1>5. CASE FetchFails(p, FALSE)
  BY <1>1, <1>3, <1>4, <1>5, FailKeeps DEF InsideFacts, Job
<1>6. CASE Transactions = {} /\ Go(p, IF Job(p) \in SharedJobs THEN "session" ELSE "apply") /\ UNCHANGED locks
  BY <1>1, <1>6, Cleared
<1>7. CASE \E k \in pr[p].todo:
            /\ pr' = [pr EXCEPT ![p] =
                 IF rec[k] # NoRec /\ rec[k].pend
                 THEN [@ EXCEPT !.pc = "replay", !.k = k, !.todo = pr[p].todo \ {k}, !.copy = rec[k]]
                 ELSE [@ EXCEPT !.todo = pr[p].todo \ {k}]]
            /\ UNCHANGED locks
  <2>1. PICK k \in pr[p].todo :
            /\ pr' = [pr EXCEPT ![p] =
                 IF rec[k] # NoRec /\ rec[k].pend
                 THEN [pr[p] EXCEPT !.pc = "replay", !.k = k, !.todo = pr[p].todo \ {k}, !.copy = rec[k]]
                 ELSE [pr[p] EXCEPT !.todo = pr[p].todo \ {k}]]
            /\ UNCHANGED locks
    BY <1>7
  <2>2. k \in ChJobs /\ rec[k] \in Maybe
    BY <1>3 DEF Process, VarTypes
  <2>3. PICK m : m = [pr[p] EXCEPT !.pc = "replay", !.k = k, !.todo = pr[p].todo \ {k}, !.copy = rec[k]]
    OBVIOUS
  <2>4. PICK s : s = [pr[p] EXCEPT !.todo = pr[p].todo \ {k}]
    OBVIOUS
  <2>5. m \in Process /\ m.pc = "replay" /\ m.k = k /\ m.copy = rec[k] /\ m.job = j /\ m.mine = pr[p].mine
    BY <1>2, <1>3, <1>4, <2>2, <2>3 DEF Process, InsideFacts
  <2>6. s \in Process /\ s.pc = "visit" /\ s.job = j /\ s.mine = pr[p].mine
    BY <1>1, <1>3, <1>4, <2>4 DEF Process, InsideFacts
  <2>7. PICK n \in Process : pr' = [pr EXCEPT ![p] = n] /\ (n = s \/ (n = m /\ rec[k] # NoRec /\ rec[k].pend))
    BY <2>1, <2>3, <2>4, <2>5, <2>6
  <2>8. pr' \in Procs /\ OthersKept({p}) /\ pr'[p] = n
    BY <1>3, <2>7 DEF Procs, OthersKept
  <2>9. n.pc \in Inside /\ n.pc \in {"replay", "visit"} /\ n.job = j /\ n.mine = pr[p].mine
    BY <1>2, <2>5, <2>6, <2>7
  <2>10. RunStays(p) /\ LocksKept({p})
    BY <1>3, <2>1, <2>8, <2>9, SameLocks DEF RunStays, locks
  <2>11. wsl' = p /\ xfer'[j] = p /\ remote'[j] \in Ended /\ (j \in SharedJobs => Good(j, pr[p].mine)') /\ staged'[j] /\ rec'[j] # NoRec
    BY <1>1, <1>4, <2>1, <2>8, <2>9 DEF locks, Data, InsideFacts, Good, Merges
  <2>12. pr'[p].pc \in Replays => Good(pr[p].k, pr[p].copy)' /\ pr'[p].copy.pend
    <3>1. rec[k] # NoRec => Good(k, rec[k])
      BY <2>2 DEF ChInv, JobInv
    <3>2. CASE n = s
      BY <2>6, <2>8, <3>2 DEF Replays
    <3>3. CASE n = m /\ rec[k] # NoRec /\ rec[k].pend
      BY <1>1, <2>5, <2>8, <3>1, <3>3 DEF Good, Merges, Data
    <3>4. QED BY <2>7, <3>2, <3>3
  <2>13. WorkInv(p)'
    BY <2>8, <2>9, <2>11 DEF WorkInv, Job, Installing, Sessions
  <2>14. ProcInv(p)'
    BY <2>8, <2>9, <2>11, <2>12, <2>13, InsideHolds
  <2>15. QED BY <1>1, <2>8, <2>10, <2>14, QuietKeeps
<1>8. QED BY <1>5, <1>6, <1>7 DEF RecoverNext

-----------------------------------------------------------------------------
(* Transactions and merges                                                 *)

\* A step under both locks that leaves the records alone.
LEMMA WorkKeeps ==
  ASSUME ChInv, NEW p \in ChProcs, pr[p] # Idle, NEW j \in ChJobs, InsideFacts(p, j), NEW pc \in Inside, Go(p, pc), UNCHANGED locks,
         UNCHANGED <<rec, remote, staged, age, torn, told>>,
         file' \in [ChJobs -> {"base", "local", "remote", "merged", "later"}],
         txn' \in [ChJobs -> {"none", "open", "installed"}], merges' \in [ChJobs -> Nat],
         \A i \in ChJobs : merges[i] <= merges'[i] /\ JobInv(i)' /\ (txn[i] = "none" => txn'[i] = "none" \/ i = j),
         pc \in Replays => Good(pr[p].k, pr[p].copy) /\ pr[p].copy.pend,
         pr'[p].pc = pc /\ pr'[p].job = j /\ pr'[p].k = pr[p].k /\ pr'[p].copy = pr[p].copy => WorkInv(p)'
  PROVE  ChInv'
<1>1. VarTypes /\ pr[p] \in Process
  BY DEF ChInv, VarTypes
<1>2. pc \in Pcs /\ pc \notin {"mark", "submit"}
  BY DEF Pcs, Applying, Fetching, Inside, Replays, Installing, Sessions
<1>3. pr' \in Procs /\ OthersKept({p}) /\ pr'[p].pc = pc /\ pr'[p].job = j /\ pr'[p].k = pr[p].k /\ SameCopies(p)
  BY <1>1, <1>2, GoFacts DEF SameWork, InsideFacts
<1>4. LocksKept({p}) /\ wsl = p /\ xfer[j] = p /\ wsl' = p /\ xfer'[j] = p /\ remote'[j] \in Ended
  BY <1>1, SameLocks DEF locks, InsideFacts
<1>5. VarTypes'
  BY <1>1, <1>3, <1>4 DEF VarTypes, Procs, LocksKept
<1>6. OneRun'
  BY <1>2, <1>3, RunsStay DEF RunStays, ChInv
<1>7. Onward
  BY DEF Onward
<1>8. DataKept({p})
  BY <1>4 DEF DataKept, Undecided, Asked
<1>9. ProcInv(p)'
  <2>1. j \in SharedJobs => Good(j, pr[p].mine)'
    <3>1. \A r : Good(j, r) => Good(j, r)'
      BY <1>1, <1>5, <1>7, MergesOnward
    <3>2. QED BY <1>3, <3>1 DEF InsideFacts, SameCopies
  <2>2. pr'[p].pc \in Replays => Good(pr[p].k, pr[p].copy)' /\ pr'[p].copy.pend
    <3>1. PICK k \in ChJobs : k = pr[p].k
      BY <1>1 DEF Process
    <3>2. \A r : Good(k, r) => Good(k, r)'
      BY <1>1, <1>5, <1>7, MergesOnward
    <3>3. QED BY <1>3, <3>1, <3>2 DEF SameCopies
  <2>3. WorkInv(p)'
    BY <1>3 DEF SameCopies
  <2>4. QED BY <1>3, <1>4, <2>1, <2>2, <2>3, InsideHolds
<1>10. \A q \in ChProcs \cap {p} : pr'[q] # Idle => ProcInv(q)'
  BY <1>9
<1>11. \A i \in ChJobs : JobInv(i)'
  OBVIOUS
<1>12. QED BY <1>3, <1>4, <1>5, <1>6, <1>7, <1>8, <1>10, <1>11, StepKeeps

LEMMA OpenStep ==
  ASSUME ChInv, NEW p \in ChProcs, OpenTransaction(p)
  PROVE  ChInv'
<1>1. {"open", "install"} \subseteq Inside
  BY DEF Inside, Installing
<1>2. pr[p] # Idle /\ pr[p].pc = "open" /\ ProcInv(p) /\ VarTypes /\ \E i \in ChJobs : InsideFacts(p, i)
  BY <1>1, InsideKnown DEF OpenTransaction
<1>3. PICK j \in ChJobs : InsideFacts(p, j)
  BY <1>2
<1>4. j \notin SharedJobs /\ rec[j].pend /\ txn[j] = "none" /\ (torn[j] \/ merges[j] = 0)
  BY <1>2, <1>3 DEF ProcInv, WorkInv, InsideFacts, Job, Installing
<1>5. /\ txn' = [txn EXCEPT ![j] = "open"] /\ Go(p, "install") /\ UNCHANGED locks
      /\ UNCHANGED <<rec, remote, file, staged, age, merges, torn, told>>
  BY <1>3 DEF OpenTransaction, InsideFacts, Job, ghosts
<1>6. txn' \in [ChJobs -> {"none", "open", "installed"}] /\ txn'[j] = "open"
  BY <1>2, <1>5 DEF VarTypes
<1>7. \A i \in ChJobs : JobInv(i)' /\ (txn[i] = "none" => txn'[i] = "none" \/ i = j)
  <2>1. TAKE i \in ChJobs
  <2>2. CASE i = j
    <3>1. JobInv(j)
      BY DEF ChInv
    <3>2. QED BY <1>3, <1>4, <1>5, <1>6, <2>2, <3>1 DEF JobInv, InsideFacts, Good, Merges, Applied
  <2>3. CASE i # j
    <3>1. txn'[i] = txn[i] /\ JobInv(i)
      BY <1>2, <1>5, <2>3 DEF ChInv, VarTypes
    <3>2. QED BY <1>5, <3>1 DEF JobInv, Good, Merges, Applied
  <2>4. QED BY <2>2, <2>3
<1>8. \A i \in ChJobs : merges[i] <= merges'[i]
  <2>1. \A i \in ChJobs : merges[i] \in Nat /\ merges'[i] = merges[i]
    BY <1>2, <1>5 DEF VarTypes
  <2>2. QED BY <2>1
<1>9. ASSUME pr'[p].pc = "install", pr'[p].job = j PROVE WorkInv(p)'
  BY <1>3, <1>4, <1>5, <1>6, <1>9 DEF WorkInv, Job, InsideFacts, Installing, Sessions
<1>10. "install" \notin Replays /\ file' \in [ChJobs -> {"base", "local", "remote", "merged", "later"}] /\ merges' \in [ChJobs -> Nat]
  BY <1>2, <1>5 DEF Replays, VarTypes
<1>11. QED BY <1>1, <1>2, <1>3, <1>5, <1>6, <1>7, <1>8, <1>9, <1>10, WorkKeeps

LEMMA CommitStep ==
  ASSUME ChInv, NEW p \in ChProcs, CommitApplyToWorkspace(p)
  PROVE  ChInv'
<1>1. {"commit", "clear"} \subseteq Inside
  BY DEF Inside, Installing
<1>2. pr[p] # Idle /\ pr[p].pc = "commit" /\ ProcInv(p) /\ VarTypes /\ \E i \in ChJobs : InsideFacts(p, i)
  BY <1>1, InsideKnown DEF CommitApplyToWorkspace
<1>3. PICK j \in ChJobs : InsideFacts(p, j)
  BY <1>2
<1>4. j \notin SharedJobs /\ rec[j].pend /\ rec[j].applied
  BY <1>2, <1>3 DEF ProcInv, WorkInv, InsideFacts, Job, Installing
<1>5. /\ txn' = [txn EXCEPT ![j] = "none"] /\ Go(p, "clear") /\ UNCHANGED locks
      /\ UNCHANGED <<rec, remote, file, staged, age, merges, torn, told>>
  BY <1>3 DEF CommitApplyToWorkspace, InsideFacts, Job, ghosts
<1>6. txn' \in [ChJobs -> {"none", "open", "installed"}] /\ txn'[j] = "none"
  BY <1>2, <1>5 DEF VarTypes
<1>7. \A i \in ChJobs : JobInv(i)' /\ (txn[i] = "none" => txn'[i] = "none" \/ i = j)
  <2>1. TAKE i \in ChJobs
  <2>2. CASE i = j
    <3>1. JobInv(j)
      BY DEF ChInv
    <3>2. QED BY <1>3, <1>4, <1>5, <1>6, <2>2, <3>1 DEF JobInv, InsideFacts, Good, Merges, Applied
  <2>3. CASE i # j
    <3>1. txn'[i] = txn[i] /\ JobInv(i)
      BY <1>2, <1>5, <2>3 DEF ChInv, VarTypes
    <3>2. QED BY <1>5, <3>1 DEF JobInv, Good, Merges, Applied
  <2>4. QED BY <2>2, <2>3
<1>8. \A i \in ChJobs : merges[i] <= merges'[i]
  <2>1. \A i \in ChJobs : merges[i] \in Nat /\ merges'[i] = merges[i]
    BY <1>2, <1>5 DEF VarTypes
  <2>2. QED BY <2>1
<1>9. ASSUME pr'[p].pc = "clear", pr'[p].job = j PROVE WorkInv(p)'
  BY <1>3, <1>4, <1>5, <1>6, <1>9 DEF WorkInv, Job, InsideFacts, Installing, Sessions
<1>10. "clear" \notin Replays /\ file' \in [ChJobs -> {"base", "local", "remote", "merged", "later"}] /\ merges' \in [ChJobs -> Nat]
  BY <1>2, <1>5 DEF Replays, VarTypes
<1>11. QED BY <1>1, <1>2, <1>3, <1>5, <1>6, <1>7, <1>8, <1>9, <1>10, WorkKeeps

\* A recovered transaction is closed only once its record says that it was applied.
LEMMA RecoveredCommitStep ==
  ASSUME ChInv, NEW p \in ChProcs, RecoveredCommit(p)
  PROVE  ChInv'
<1>1. {"replay_commit", "replay_clear"} \subseteq Inside /\ "replay_clear" \in Replays
  BY DEF Inside, Replays
<1>2. pr[p] # Idle /\ pr[p].pc = "replay_commit" /\ pr[p] \in Process /\ ProcInv(p) /\ VarTypes /\ \E i \in ChJobs : InsideFacts(p, i)
  BY <1>1, InsideKnown DEF RecoveredCommit
<1>3. PICK j \in ChJobs : InsideFacts(p, j)
  BY <1>2
<1>4. PICK k \in ChJobs : k = pr[p].k
  BY <1>2 DEF Process
<1>5. Applied(k) /\ txn[k] = "installed" /\ Good(k, pr[p].copy) /\ pr[p].copy.pend
  BY <1>2, <1>4 DEF ProcInv, WorkInv, CopyInv, Replays
<1>6. /\ txn' = [txn EXCEPT ![k] = "none"] /\ Go(p, "replay_clear") /\ UNCHANGED locks
      /\ UNCHANGED <<rec, remote, file, staged, age, merges, torn, told>>
  BY <1>4 DEF RecoveredCommit, ghosts
<1>7. txn' \in [ChJobs -> {"none", "open", "installed"}] /\ txn'[k] = "none"
  BY <1>2, <1>6 DEF VarTypes
<1>8. \A i \in ChJobs : JobInv(i)' /\ (txn[i] = "none" => txn'[i] = "none" \/ i = j)
  <2>1. TAKE i \in ChJobs
  <2>2. CASE i = k
    <3>1. JobInv(k)
      BY DEF ChInv
    <3>2. QED BY <1>5, <1>6, <1>7, <2>2, <3>1 DEF JobInv, Good, Merges, Applied
  <2>3. CASE i # k
    <3>1. txn'[i] = txn[i] /\ JobInv(i)
      BY <1>2, <1>6, <2>3 DEF ChInv, VarTypes
    <3>2. QED BY <1>6, <3>1 DEF JobInv, Good, Merges, Applied
  <2>4. QED BY <2>2, <2>3
<1>9. \A i \in ChJobs : merges[i] <= merges'[i]
  <2>1. \A i \in ChJobs : merges[i] \in Nat /\ merges'[i] = merges[i]
    BY <1>2, <1>6 DEF VarTypes
  <2>2. QED BY <2>1
<1>10. ASSUME pr'[p].pc = "replay_clear", pr'[p].job = j, pr'[p].k = k PROVE WorkInv(p)'
  BY <1>3, <1>6, <1>7, <1>10 DEF WorkInv, Job, InsideFacts, Installing, Sessions
<1>11. file' \in [ChJobs -> {"base", "local", "remote", "merged", "later"}] /\ merges' \in [ChJobs -> Nat]
  BY <1>2, <1>6 DEF VarTypes
<1>12. QED BY <1>1, <1>2, <1>3, <1>4, <1>5, <1>6, <1>7, <1>8, <1>9, <1>10, <1>11, WorkKeeps

\* A bundle is merged where it never was, or where a record was overwritten.
LEMMA MergeOnce ==
  ASSUME VarTypes, NEW j \in ChJobs, JobInv(j), torn[j] \/ merges[j] = 0,
         file' = [file EXCEPT ![j] = Merged(@)], merges' = [merges EXCEPT ![j] = @ + 1]
  PROVE  /\ file' \in [ChJobs -> {"base", "local", "remote", "merged", "later"}] /\ merges' \in [ChJobs -> Nat]
         /\ merges'[j] > 0 /\ (~torn[j] => merges'[j] <= 1)
         /\ \A i \in ChJobs : merges[i] <= merges'[i] /\ (i # j => merges'[i] = merges[i] /\ file'[i] = file[i])
<1>1. \A i \in ChJobs : merges[i] \in Nat
  BY DEF VarTypes
<1>2. merges' \in [ChJobs -> Nat] /\ merges'[j] = merges[j] + 1 /\ \A i \in ChJobs : i # j => merges'[i] = merges[i]
  BY <1>1 DEF VarTypes
<1>3. merges'[j] > 0 /\ (~torn[j] => merges'[j] <= 1)
  BY <1>1, <1>2
<1>4. \A i \in ChJobs : merges[i] <= merges'[i]
  BY <1>1, <1>2
<1>5. file' \in [ChJobs -> {"base", "local", "remote", "merged", "later"}] /\ \A i \in ChJobs : i # j => file'[i] = file[i]
  BY DEF VarTypes, Merged
<1>6. QED BY <1>2, <1>3, <1>4, <1>5

LEMMA InstallStep ==
  ASSUME ChInv, NEW p \in ChProcs, At(p, "install"), file' = [file EXCEPT ![Job(p)] = Merged(@)],
         merges' = [merges EXCEPT ![Job(p)] = @ + 1], txn' = [txn EXCEPT ![Job(p)] = "installed"], Go(p, "note"),
         UNCHANGED locks, UNCHANGED <<rec, remote, staged, age, torn, told>>
  PROVE  ChInv'
<1>1. {"install", "note"} \subseteq Inside /\ "note" \notin Replays
  BY DEF Inside, Installing, Replays
<1>2. pr[p] # Idle /\ pr[p].pc = "install" /\ ProcInv(p) /\ VarTypes /\ \E i \in ChJobs : InsideFacts(p, i)
  BY <1>1, InsideKnown
<1>3. PICK j \in ChJobs : InsideFacts(p, j)
  BY <1>2
<1>4. j \notin SharedJobs /\ rec[j].pend /\ (torn[j] \/ merges[j] = 0) /\ j = Job(p) /\ JobInv(j)
  BY <1>2, <1>3 DEF ProcInv, WorkInv, InsideFacts, Job, Installing, ChInv
<1>5. /\ file' \in [ChJobs -> {"base", "local", "remote", "merged", "later"}] /\ merges' \in [ChJobs -> Nat]
      /\ merges'[j] > 0 /\ (~torn[j] => merges'[j] <= 1)
      /\ \A i \in ChJobs : merges[i] <= merges'[i] /\ (i # j => merges'[i] = merges[i] /\ file'[i] = file[i])
  BY <1>2, <1>4, MergeOnce
<1>6. txn' \in [ChJobs -> {"none", "open", "installed"}] /\ txn'[j] = "installed"
  BY <1>2, <1>4 DEF VarTypes
<1>7. \A i \in ChJobs : JobInv(i)' /\ (txn[i] = "none" => txn'[i] = "none" \/ i = j)
  <2>1. TAKE i \in ChJobs
  <2>2. CASE i = j
    <3>1. remote[j] # "unsent" /\ rec[j] # NoRec /\ Good(j, rec[j])
      BY <1>3 DEF InsideFacts, Ended, TerminalSet
    <3>2. Good(j, rec[j])'
      BY <1>5, <3>1 DEF Good, Merges
    <3>3. QED BY <1>4, <1>5, <1>6, <2>2, <3>1, <3>2 DEF JobInv
  <2>3. CASE i # j
    <3>1. txn'[i] = txn[i] /\ JobInv(i) /\ merges'[i] = merges[i] /\ file'[i] = file[i]
      BY <1>2, <1>4, <1>5, <2>3 DEF ChInv, VarTypes
    <3>2. QED BY <3>1 DEF JobInv, Good, Merges, Applied
  <2>4. QED BY <2>2, <2>3
<1>8. ASSUME pr'[p].pc = "note", pr'[p].job = j PROVE WorkInv(p)'
  BY <1>3, <1>4, <1>6, <1>8 DEF WorkInv, Job, InsideFacts, Installing, Sessions
<1>9. QED BY <1>1, <1>2, <1>3, <1>5, <1>6, <1>7, <1>8, WorkKeeps

LEMMA SessionStep ==
  ASSUME ChInv, NEW p \in ChProcs, applyWorkspaceJob(p)
  PROVE  ChInv'
<1>1. {"session", "session_save"} \subseteq Inside /\ "session_save" \notin Replays
  BY DEF Inside, Sessions, Replays
<1>2. pr[p] # Idle /\ pr[p].pc = "session" /\ ProcInv(p) /\ VarTypes /\ \E i \in ChJobs : InsideFacts(p, i)
  BY <1>1, InsideKnown DEF applyWorkspaceJob
<1>3. PICK j \in ChJobs : InsideFacts(p, j)
  BY <1>2
<1>4. j \in SharedJobs /\ j = Job(p) /\ JobInv(j)
  BY <1>2, <1>3 DEF ProcInv, WorkInv, InsideFacts, Job, Sessions, ChInv
<1>5. UNCHANGED <<rec, remote, txn, staged, age, torn, told>>
  BY DEF applyWorkspaceJob
<1>6. CASE FetchFails(p, FALSE) /\ UNCHANGED <<file, merges>>
  <2>1. UNCHANGED Data /\ remote[Job(p)] \in Ended
    BY <1>3, <1>4, <1>5, <1>6 DEF Data, InsideFacts
  <2>2. QED BY <1>2, <1>6, <2>1, FailKeeps
<1>7. CASE /\ \/ merges[j] = 0 /\ file' = [file EXCEPT ![j] = Merged(@)] /\ merges' = [merges EXCEPT ![j] = @ + 1]
              \/ file' = file /\ merges' = merges
           /\ Go(p, "session_save") /\ UNCHANGED locks
  <2>1. /\ file' \in [ChJobs -> {"base", "local", "remote", "merged", "later"}] /\ merges' \in [ChJobs -> Nat]
        /\ \A i \in ChJobs : merges[i] <= merges'[i] /\ (i # j => merges'[i] = merges[i] /\ file'[i] = file[i])
        /\ \/ merges'[j] > 0 /\ (~torn[j] => merges'[j] <= 1)
           \/ file'[j] = file[j] /\ merges'[j] = merges[j]
    <3>1. CASE merges[j] = 0 /\ file' = [file EXCEPT ![j] = Merged(@)] /\ merges' = [merges EXCEPT ![j] = @ + 1]
      BY <1>2, <1>4, <3>1, MergeOnce
    <3>2. CASE file' = file /\ merges' = merges
      <4>1. \A i \in ChJobs : merges[i] \in Nat /\ merges'[i] = merges[i] /\ file'[i] = file[i]
        BY <1>2, <3>2 DEF VarTypes
      <4>2. \A i \in ChJobs : merges[i] <= merges'[i]
        BY <4>1
      <4>3. QED BY <1>2, <3>2, <4>1, <4>2 DEF VarTypes
    <3>3. QED BY <1>7, <3>1, <3>2
  <2>2. \A i \in ChJobs : JobInv(i)' /\ (txn[i] = "none" => txn'[i] = "none" \/ i = j)
    <3>1. TAKE i \in ChJobs
    <3>2. CASE merges'[i] = merges[i] /\ file'[i] = file[i]
      <4>1. JobInv(i)
        BY DEF ChInv
      <4>2. QED BY <1>5, <3>2, <4>1 DEF JobInv, Good, Merges, Applied
    <3>3. CASE i = j /\ merges'[j] > 0 /\ (~torn[j] => merges'[j] <= 1)
      <4>1. remote[j] # "unsent" /\ rec[j] # NoRec /\ Good(j, rec[j]) /\ txn[j] = "none"
        BY <1>3, <1>4 DEF InsideFacts, Ended, TerminalSet, JobInv, VarTypes
      <4>2. Good(j, rec[j])'
        BY <1>5, <3>3, <4>1 DEF Good, Merges
      <4>3. QED BY <1>4, <1>5, <3>3, <4>1, <4>2 DEF JobInv
    <3>4. QED BY <2>1, <3>2, <3>3
  <2>3. ASSUME pr'[p].pc = "session_save", pr'[p].job = j PROVE WorkInv(p)'
    BY <1>3, <1>4, <1>5, <2>3 DEF WorkInv, Job, InsideFacts, Installing, Sessions
  <2>4. txn' \in [ChJobs -> {"none", "open", "installed"}]
    BY <1>2, <1>5 DEF VarTypes
  <2>5. QED BY <1>1, <1>2, <1>3, <1>5, <1>7, <2>1, <2>2, <2>3, <2>4, WorkKeeps
<1>8. QED BY <1>4, <1>6, <1>7 DEF applyWorkspaceJob

-----------------------------------------------------------------------------
(* Saving a record                                                         *)

\* What every honest save keeps of the record it follows.
Updates(j, s, r) == /\ s.applied => r.applied
                    /\ s.auto # "off" => r.auto # "off" /\ (r.auto \in Unfinished => s.auto \in Unfinished)

LEMMA NoRecApart == \A r \in Record : r # NoRec
BY DEF Record, NoRec, Unfinished, FinishedSet

\* A save that follows the record, or is known to have overwritten it, or removes it.
LEMMA SaveKeeps ==
  ASSUME ChInv, NEW A, pr' \in Procs, OthersKept(A), LocksKept(A), OneRun', NEW j \in ChJobs, NEW r \in Maybe,
         rec' = [rec EXCEPT ![j] = r], age' \in [ChJobs -> 0..2],
         torn' \in [ChJobs -> BOOLEAN], \A i \in ChJobs : (torn[i] => torn'[i]) /\ (i # j => torn'[i] = torn[i]),
         UNCHANGED <<remote, file, staged, merges, told>>,
         r # NoRec => Good(j, r),
         torn'[j] \/ r = NoRec \/ (rec[j] # NoRec /\ Updates(j, rec[j], r)),
         \/ txn' = txn /\ (txn[j] # "none" => r # NoRec /\ r.pend)
         \/ wsl \in A /\ txn[j] # "installed" /\ txn' = [txn EXCEPT ![j] = "none"],
         \A q \in ChProcs \ A : ~(wsl = q /\ xfer[j] = q),
         \A p \in ChProcs \cap A : pr'[p] # Idle => ProcInv(p)'
  PROVE  ChInv'
<1>1. VarTypes /\ JobInv(j)
  BY DEF ChInv
<1>2. VarTypes'
  BY <1>1 DEF VarTypes, Procs, LocksKept
<1>3. rec'[j] = r /\ \A i \in ChJobs : i # j => rec'[i] = rec[i] /\ txn'[i] = txn[i]
  BY <1>1 DEF VarTypes
<1>4. /\ txn[j] = "none" => txn'[j] = "none"
      /\ txn[j] = "installed" => txn'[j] = "installed"
      /\ txn'[j] # "none" => txn'[j] = txn[j] /\ r # NoRec /\ r.pend
  BY <1>1 DEF VarTypes
<1>5. Applied(j) => Applied(j)'
  BY <1>3 DEF Applied, Updates
<1>6. \A i \in ChJobs : Applied(i) => Applied(i)'
  <2>1. TAKE i \in ChJobs
  <2>2. CASE i = j
    BY <1>5, <2>2
  <2>3. CASE i # j
    BY <1>3, <2>3 DEF Applied
  <2>4. QED BY <2>2, <2>3
<1>7. Onward
  <2>1. \A i \in ChJobs : merges[i] \in Nat /\ merges'[i] = merges[i]
    BY <1>1 DEF VarTypes
  <2>2. \A i \in ChJobs : merges[i] <= merges'[i]
    BY <2>1
  <2>3. QED BY <2>2 DEF Onward
<1>8. \A i \in ChJobs : JobInv(i)'
  <2>1. TAKE i \in ChJobs
  <2>2. CASE i = j
    <3>1. r # NoRec => Good(j, r)'
      BY DEF Good, Merges
    <3>2. rec'[j] # NoRec => Good(j, rec[j])'
      BY <1>3, <3>1 DEF Good
    <3>3. merges'[j] = merges[j] /\ remote'[j] = remote[j] /\ file'[j] = file[j]
      OBVIOUS
    <3>4. ~torn'[j] => merges'[j] <= 1
      BY <1>1, <3>3 DEF JobInv
    <3>5. QED BY <1>1, <1>3, <1>4, <1>5, <2>2, <3>2, <3>3, <3>4 DEF JobInv
  <2>3. CASE i # j
    <3>1. JobInv(i)
      BY DEF ChInv
    <3>2. QED BY <1>3, <2>3, <3>1 DEF JobInv, Good, Merges, Applied
  <2>4. QED BY <2>2, <2>3
<1>9. DataKept(A)
  <2>1. SUFFICES ASSUME NEW q \in ChProcs \ A
                 PROVE  /\ wsl = q => txn' = txn /\ merges' = merges /\ \A i \in ChJobs : Applied(i) => Applied(i)'
                        /\ \A i \in ChJobs : xfer[i] = q =>
                             /\ staged[i] => staged'[i]
                             /\ txn[i] = "none" => txn'[i] = "none"
                             /\ wsl = q => rec'[i] = rec[i]
                        /\ \A i \in ChJobs : /\ remote'[i] = remote[i]
                                             /\ Asked(i) => Asked(i)' /\ (Undecided(i)' => Undecided(i) \/ torn'[i])
    BY DEF DataKept
  <2>2. wsl = q => txn' = txn /\ merges' = merges /\ \A i \in ChJobs : Applied(i) => Applied(i)'
    BY <1>6
  <2>3. \A i \in ChJobs : xfer[i] = q => /\ staged[i] => staged'[i]
                                         /\ txn[i] = "none" => txn'[i] = "none"
                                         /\ wsl = q => rec'[i] = rec[i]
    BY <1>3, <1>4
  <2>4. \A i \in ChJobs : Asked(i) => Asked(i)' /\ (Undecided(i)' => Undecided(i) \/ torn'[i])
    <3>1. Asked(j) => Asked(j)' /\ (Undecided(j)' => Undecided(j) \/ torn'[j])
      BY <1>3 DEF Undecided, Updates, Asked
    <3>2. \A i \in ChJobs : i # j => (Asked(i) => Asked(i)' /\ (Undecided(i)' => Undecided(i)))
      BY <1>3 DEF Undecided, Asked
    <3>3. QED BY <3>1, <3>2
  <2>5. QED BY <2>2, <2>3, <2>4
<1>10. QED BY <1>2, <1>7, <1>8, <1>9, StepKeeps

\* The record follows itself: a field that says nothing of the merge is set.
LEMMA SaveFacts ==
  ASSUME VarTypes, NEW j \in ChJobs, NEW r, Save(j, r)
  PROVE  rec' = [rec EXCEPT ![j] = r] /\ age' \in [ChJobs -> 0..2]
BY DEF VarTypes, Save

LEMMA StaleFacts ==
  ASSUME VarTypes, NEW j \in ChJobs, NEW read, NEW r, SaveStale(j, read, r)
  PROVE  /\ rec' = [rec EXCEPT ![j] = r] /\ age' \in [ChJobs -> 0..2]
         /\ torn' \in [ChJobs -> BOOLEAN] /\ \A i \in ChJobs : (torn[i] => torn'[i]) /\ (i # j => torn'[i] = torn[i])
         /\ rec[j] # read => torn'[j]
BY SaveFacts DEF VarTypes, SaveStale

LEMMA SameTorn ==
  ASSUME VarTypes, torn' = torn
  PROVE  torn' \in [ChJobs -> BOOLEAN] /\ \A i \in ChJobs : (torn[i] => torn'[i])
BY DEF VarTypes

\* Marking the submission or the end of the job, with the locks free of others.
LEMMA MarkKeeps ==
  ASSUME ChInv, NEW p \in ChProcs, pr[p] # Idle, NEW j \in ChJobs, j = Job(p), BothFree(p, j), NEW pc \in Pcs, Go(p, pc),
         \/ UNCHANGED <<rec, age>>
         \/ rec[j] # NoRec /\ Save(j, [rec[j] EXCEPT !.started = TRUE])
         \/ rec[j] # NoRec /\ Save(j, [rec[j] EXCEPT !.terminal = TRUE]),
         UNCHANGED <<remote, file, txn, staged, locks, ghosts>>,
         pc \in {"mark", "submit"} => pr[p].pc \in {"mark", "submit"},
         pr'[p].pc = pc /\ SameWork(p) /\ SameCopies(p) => ProcInv(p)'
  PROVE  ChInv'
<1>1. VarTypes /\ UNCHANGED <<wsl, xfer, merges, torn, told>>
  BY DEF ChInv, locks, ghosts
<1>2. pr' \in Procs /\ OthersKept({p}) /\ pr'[p].pc = pc /\ SameWork(p) /\ SameCopies(p)
  BY <1>1, GoFacts
<1>3. LocksKept({p}) /\ RunStays(p) /\ OneRun'
  BY <1>1, <1>2, SameLocks, RunsStay DEF RunStays, SameWork, ChInv
<1>4. ProcInv(p)'
  BY <1>2
<1>5. CASE UNCHANGED <<rec, age>>
  <2>1. UNCHANGED Data
    BY <1>1, <1>5 DEF Data
  <2>2. QED BY <1>2, <1>3, <1>4, <2>1, QuietKeeps
<1>6. CASE ~UNCHANGED <<rec, age>>
  <2>1. PICK r : /\ rec[j] # NoRec /\ Save(j, r)
                 /\ r = [rec[j] EXCEPT !.started = TRUE] \/ r = [rec[j] EXCEPT !.terminal = TRUE]
    BY <1>6
  <2>2. Good(j, rec[j]) /\ JobInv(j)
    BY <2>1 DEF ChInv, JobInv
  <2>3. r \in Record /\ r.applied = rec[j].applied /\ r.auto = rec[j].auto /\ r.pend = rec[j].pend
    BY <2>1, <2>2 DEF Good, Record
  <2>4. Good(j, r) /\ r # NoRec /\ r \in Maybe /\ Updates(j, rec[j], r)
    BY <2>2, <2>3, NoRecApart DEF Good, Updates, Maybe
  <2>5. txn[j] # "none" => r.pend
    BY <2>2, <2>3 DEF JobInv
  <2>6. rec' = [rec EXCEPT ![j] = r] /\ age' \in [ChJobs -> 0..2]
    BY <1>1, <2>1, SaveFacts
  <2>7. \A q \in ChProcs \ {p} : ~(wsl = q /\ xfer[j] = q)
    BY Named DEF BothFree
  <2>8. torn' \in [ChJobs -> BOOLEAN] /\ \A i \in ChJobs : (torn[i] => torn'[i]) /\ (i # j => torn'[i] = torn[i])
    BY <1>1, SameTorn
  <2>9. \A q \in ChProcs \cap {p} : pr'[q] # Idle => ProcInv(q)'
    BY <1>4
  <2>10. QED BY <1>1, <1>2, <1>3, <2>1, <2>4, <2>5, <2>6, <2>7, <2>8, <2>9, SaveKeeps
<1>7. QED BY <1>5, <1>6

LEMMA MarkStep ==
  ASSUME ChInv, NEW p \in ChProcs, markLocalChangeSubmissionStarted(p)
  PROVE  ChInv'
<1>1. pr[p] # Idle /\ ProcInv(p) /\ Job(p) \in ChJobs /\ pr[p].pc = "mark"
  BY ProcFacts DEF markLocalChangeSubmissionStarted
<1>2. UNCHANGED <<remote, file, txn, staged, locks, ghosts>> /\ BothFree(p, Job(p))
  BY DEF markLocalChangeSubmissionStarted
<1>3. CASE Stop(p) /\ UNCHANGED <<rec, age>>
  <2>1. UNCHANGED Data /\ UNCHANGED <<wsl, xfer>>
    BY <1>2, <1>3 DEF Data, ghosts, locks
  <2>2. QED BY <1>3, <2>1, StopKeeps
<1>4. CASE rec[Job(p)] # NoRec /\ Go(p, "submit") /\ Save(Job(p), [rec[Job(p)] EXCEPT !.started = TRUE])
  <2>1. ASSUME pr'[p].pc = "submit", SameWork(p) PROVE ProcInv(p)'
    <3>1. remote'[pr'[p].job] = "unsent"
      BY <1>1, <1>2, <2>1 DEF ProcInv, RemoteInv, SameWork, Job
    <3>2. QED BY <2>1, <3>1 DEF ProcInv, LockInv, CopyInv, RemoteInv, WorkInv, LookInv, HoldsWorkspace, HoldsTransfer, Inside,
             Installing, Replays, Sessions, Applying, Fetching, Job
  <2>2. "submit" \in Pcs
    BY DEF Pcs
  <2>3. QED BY <1>1, <1>2, <1>4, <2>1, <2>2, MarkKeeps
<1>5. QED BY <1>3, <1>4 DEF markLocalChangeSubmissionStarted

LEMMA TerminalKeeps ==
  ASSUME ChInv, NEW p \in ChProcs, pr[p] # Idle, NEW pc \in Pcs, markLocalChangeTerminal(p, pc), pc \notin {"mark", "submit"},
         pr'[p].pc = pc /\ SameWork(p) /\ SameCopies(p) /\ remote' = remote => ProcInv(p)'
  PROVE  ChInv'
<1>1. PICK j \in ChJobs : j = Job(p)
  BY DEF ChInv, VarTypes, Process, Job
<1>2. /\ BothFree(p, j) /\ Go(p, pc) /\ UNCHANGED <<remote, file, txn, staged, locks, ghosts>>
      /\ UNCHANGED <<rec, age>> \/ (rec[j] # NoRec /\ Save(j, [rec[j] EXCEPT !.terminal = TRUE]))
  BY <1>1 DEF markLocalChangeTerminal
<1>3. QED BY <1>1, <1>2, MarkKeeps

LEMMA TerminalSteps ==
  ASSUME ChInv, NEW p \in ChProcs, finishTerminalChanges(p) \/ AutoMarkTerminal(p)
  PROVE  ChInv'
<1>1. pr[p] # Idle /\ ProcInv(p)
  BY ProcFacts DEF finishTerminalChanges, AutoMarkTerminal
<1>2. CASE finishTerminalChanges(p)
  <2>1. PICK pc \in {"auto", "leave"} : markLocalChangeTerminal(p, pc)
    BY <1>2 DEF finishTerminalChanges
  <2>2. remote[Job(p)] \in Ended
    BY <1>2 DEF finishTerminalChanges, Ended
  <2>3. ASSUME pr'[p].pc = pc, SameWork(p), remote' = remote PROVE ProcInv(p)'
    <3>1. remote'[pr'[p].job] \in Ended
      BY <2>2, <2>3 DEF SameWork, Job
    <3>2. pr'[p].pc \in Light \/ pr'[p].pc \in Known
      BY <2>1, <2>3 DEF Light, Known
    <3>3. QED BY <3>1, <3>2, LightHolds, KnownHolds
  <2>4. pc \in Pcs
    BY <2>1 DEF Pcs, Applying
  <2>5. QED BY <1>1, <2>1, <2>3, <2>4, TerminalKeeps
<1>3. CASE AutoMarkTerminal(p)
  <2>1. markLocalChangeTerminal(p, "decide") /\ remote[Job(p)] \in Ended
    BY <1>1, <1>3, EndedKnown DEF AutoMarkTerminal, At, Applying
  <2>2. ASSUME pr'[p].pc = "decide", SameWork(p), remote' = remote PROVE ProcInv(p)'
    <3>1. remote'[pr'[p].job] \in Ended
      BY <2>1, <2>2 DEF SameWork, Job
    <3>2. QED BY <2>2, <3>1, KnownHolds DEF Known
  <2>3. "decide" \in Pcs
    BY DEF Pcs, Applying
  <2>4. QED BY <1>1, <2>1, <2>2, <2>3, TerminalKeeps
<1>4. QED BY <1>2, <1>3

LEMMA FetchStepKeeps ==
  ASSUME ChInv, NEW p \in ChProcs, FetchChanges(p)
  PROVE  ChInv'
<1>1. pr[p] # Idle /\ ProcInv(p) /\ pr[p].pc = "fetch"
  BY ProcFacts DEF FetchChanges
<1>2. remote[Job(p)] \in Ended /\ (pr[p].role # "fetch" => remote[Job(p)] # "empty" \/ Job(p) \in SharedJobs)
  BY <1>1 DEF ProcInv, RemoteInv, Applying, Fetching
<1>3. CASE markLocalChangeTerminal(p, "route")
  <2>1. ASSUME pr'[p].pc = "route", SameWork(p), remote' = remote PROVE ProcInv(p)'
    <3>1. RemoteInv(p)'
      BY <1>2, <2>1 DEF RemoteInv, SameWork, Job
    <3>2. LockInv(p)' /\ CopyInv(p)' /\ WorkInv(p)' /\ LookInv(p)'
      BY <2>1 DEF LockInv, CopyInv, WorkInv, LookInv, HoldsWorkspace, HoldsTransfer, Inside, Installing, Replays, Sessions
    <3>3. QED BY <3>1, <3>2 DEF ProcInv
  <2>2. "route" \in Pcs
    BY DEF Pcs, Applying, Fetching
  <2>3. QED BY <1>1, <1>3, <2>1, <2>2, TerminalKeeps
<1>4. CASE (FetchFails(p, FALSE) \/ FetchFails(p, TRUE)) /\ UNCHANGED <<rec, remote, file, txn, staged, age, ghosts, used>>
  <2>1. UNCHANGED Data
    BY <1>4 DEF Data, ghosts
  <2>2. QED BY <1>1, <1>2, <1>4, <2>1, FailKeeps
<1>5. QED BY <1>3, <1>4 DEF FetchChanges

-----------------------------------------------------------------------------
(* Saving a copy                                                           *)

\* Of a copy that is still the record, what was read is what is followed.
LEMMA RecordedFacts ==
  ASSUME NEW j \in ChJobs, NEW s, Good(j, s), NEW out \in Outs, out = "applied" => Merges(j)
  PROVE  Good(j, Recorded(s, out)) /\ Updates(j, s, Recorded(s, out)) /\ Recorded(s, out).pend = s.pend
<1>1. PICK r : r = Recorded(s, out)
  OBVIOUS
<1>2. s \in Record
  BY DEF Good
<1>3. \/ r = [s EXCEPT !.confirmed = TRUE]
      \/ r = s
      \/ r = [s EXCEPT !.auto = out] /\ out # "confirm" /\ s.auto \notin FinishedSet
  BY <1>1 DEF Recorded, automaticApplyFinished
<1>4. CASE r = [s EXCEPT !.confirmed = TRUE]
  <2>1. r \in Record /\ r.applied = s.applied /\ r.auto = s.auto /\ r.pend = s.pend
    BY <1>2, <1>4 DEF Record
  <2>2. QED BY <1>1, <2>1 DEF Good, Updates
<1>5. CASE r = s
  BY <1>1, <1>5 DEF Good, Updates
<1>6. CASE r = [s EXCEPT !.auto = out] /\ out # "confirm" /\ s.auto \notin FinishedSet
  <2>1. out \in Unfinished \cup FinishedSet /\ out # "off"
    BY <1>6 DEF Outs, Unfinished, FinishedSet
  <2>2. r \in Record /\ r.applied = s.applied /\ r.auto = out /\ r.pend = s.pend
    BY <1>2, <1>6, <2>1 DEF Record
  <2>3. s.auto # "off" => s.auto \in Unfinished
    BY <1>2, <1>6 DEF Record
  <2>4. QED BY <1>1, <2>1, <2>2, <2>3 DEF Good, Updates
<1>7. QED BY <1>3, <1>4, <1>5, <1>6

\* After a save under the transfer lock: nothing is held, and little is known.
LEMMA SavedHolds ==
  ASSUME NEW p \in ChProcs, pr'[p].pc \in Nexts \ {"exit"}, pr'[p].pc = "reload" =>
           remote'[pr'[p].job] \in Ended /\ (remote'[pr'[p].job] # "empty" \/ pr'[p].job \in SharedJobs)
  PROVE  ProcInv(p)'
<1>1. CASE pr'[p].pc = "reload"
  BY <1>1 DEF ProcInv, LockInv, CopyInv, RemoteInv, WorkInv, LookInv, HoldsWorkspace, HoldsTransfer, Inside, Installing, Replays,
     Sessions, Job
<1>2. CASE pr'[p].pc # "reload"
  BY <1>2, LightHolds DEF Nexts, Light
<1>3. QED BY <1>1, <1>2

LEMMA TransferSaveStep ==
  ASSUME ChInv, NEW p \in ChProcs, TransferSave(p)
  PROVE  ChInv'
<1>1. pr[p] # Idle /\ pr[p] \in Process /\ ProcInv(p) /\ pr[p].pc = "save" /\ VarTypes /\ pr \in Procs
  BY ProcFacts DEF TransferSave, ChInv, VarTypes, Procs
<1>2. PICK j \in ChJobs : j = pr[p].job
  BY <1>1 DEF Process
<1>3. PICK s : s = pr[p].copy
  OBVIOUS
<1>4. PICK out \in Outs : out = pr[p].out
  BY <1>1 DEF ProcInv, CopyInv
<1>5. /\ Good(j, s) /\ (txn[j] # "none" => s.pend) /\ (out = "applied" => Merges(j)) /\ pr[p].nxt \in Nexts /\ xfer[j] = p
      /\ pr[p].nxt = "reload" => remote[j] \in Ended /\ (remote[j] # "empty" \/ j \in SharedJobs)
  BY <1>1, <1>2, <1>3, <1>4 DEF ProcInv, CopyInv, LockInv, RemoteInv, HoldsTransfer, Job
<1>6. PICK r : r = Recorded(s, out)
  OBVIOUS
<1>7. Good(j, r) /\ Updates(j, s, r) /\ r.pend = s.pend /\ r \in Maybe
  <2>1. Good(j, r) /\ Updates(j, s, r) /\ r.pend = s.pend
    BY <1>5, <1>6, RecordedFacts
  <2>2. QED BY <2>1 DEF Good, Maybe
<1>8. /\ UNCHANGED <<remote, file, txn, staged, merges, told>>
      /\ (r = s /\ UNCHANGED <<rec, age, torn>>) \/ SaveStale(j, s, r)
      /\ \/ pr[p].nxt = "exit" /\ Exit(p)
         \/ /\ pr[p].nxt # "exit"
            /\ pr' = [pr EXCEPT ![p] = [pr[p] EXCEPT !.pc = pr[p].nxt, !.copy = NoRec, !.out = "none", !.nxt = "none"]]
            /\ xfer' = [xfer EXCEPT ![j] = NoProc] /\ wsl' = wsl
  BY <1>2, <1>3, <1>4, <1>6 DEF TransferSave, Job
<1>9. pr' \in Procs /\ OthersKept({p}) /\ RunStays(p) /\ LocksKept({p}) /\ (pr'[p] # Idle => ProcInv(p)')
  <2>1. CASE Exit(p)
    BY <1>1, <2>1, ExitFacts
  <2>2. CASE ~Exit(p)
    <3>1. PICK n : n = [pr[p] EXCEPT !.pc = pr[p].nxt, !.copy = NoRec, !.out = "none", !.nxt = "none"]
      OBVIOUS
    <3>2. n \in Process /\ n.pc = pr[p].nxt /\ n.job = j
      <4>1. pr[p].nxt \in Pcs /\ NoRec \in Maybe
        BY <1>5, <1>8, <2>2 DEF Nexts, Pcs, Applying, Maybe
      <4>2. QED BY <1>1, <1>2, <3>1, <4>1 DEF Process
    <3>3. pr' = [pr EXCEPT ![p] = n] /\ xfer' = [xfer EXCEPT ![j] = NoProc] /\ wsl' = wsl /\ pr[p].nxt \in Nexts \ {"exit"}
      BY <1>5, <1>8, <2>2, <3>1
    <3>4. pr' \in Procs /\ OthersKept({p}) /\ pr'[p] = n
      BY <1>1, <3>2, <3>3 DEF Procs, OthersKept
    <3>5. RunStays(p)
      BY <3>2, <3>3, <3>4 DEF RunStays, Nexts
    <3>6. LocksKept({p})
      BY <1>1, <1>5, <3>3 DEF LocksKept, VarTypes
    <3>7. ProcInv(p)'
      BY <1>5, <1>8, <3>2, <3>3, <3>4, SavedHolds
    <3>8. QED BY <3>4, <3>5, <3>6, <3>7
  <2>3. QED BY <2>1, <2>2
<1>10. CASE UNCHANGED <<rec, age, torn>>
  <2>1. UNCHANGED Data
    BY <1>8, <1>10 DEF Data
  <2>2. QED BY <1>9, <2>1, QuietKeeps
<1>11. CASE SaveStale(j, s, r)
  <2>1. /\ rec' = [rec EXCEPT ![j] = r] /\ age' \in [ChJobs -> 0..2]
        /\ torn' \in [ChJobs -> BOOLEAN] /\ \A i \in ChJobs : (torn[i] => torn'[i]) /\ (i # j => torn'[i] = torn[i])
        /\ rec[j] # s => torn'[j]
    BY <1>1, <1>11, StaleFacts
  <2>2. s # NoRec /\ r # NoRec
    BY <1>5, <1>7, NoRecApart DEF Good
  <2>3. torn'[j] \/ r = NoRec \/ (rec[j] # NoRec /\ Updates(j, rec[j], r))
    BY <1>7, <2>1, <2>2
  <2>4. OneRun'
    BY <1>9, RunsStay DEF ChInv
  <2>5. \A q \in ChProcs \ {p} : ~(wsl = q /\ xfer[j] = q)
    BY <1>5
  <2>6. \A q \in ChProcs \cap {p} : pr'[q] # Idle => ProcInv(q)'
    BY <1>9
  <2>7. txn' = txn /\ (txn[j] # "none" => r # NoRec /\ r.pend)
    BY <1>5, <1>7, <1>8, <2>2
  <2>8. QED BY <1>7, <1>8, <1>9, <2>1, <2>3, <2>4, <2>5, <2>6, <2>7, SaveKeeps
<1>12. QED BY <1>8, <1>10, <1>11

\* A save of the record or of a copy that holds the workspace lock and then ends.
LEMMA EndSaveKeeps ==
  ASSUME ChInv, NEW p \in ChProcs, pr[p] # Idle, NEW j \in ChJobs, pr[p].job = j, wsl = p,
         pr[p].role = "fetch" \/ Merges(j), FetchEnds(p),
         NEW s, NEW r, Good(j, r), Updates(j, s, r), s # NoRec, txn[j] = "none", remote[j] \in Ended,
         SaveStale(j, s, r) \/ (s = rec[j] /\ Save(j, r) /\ torn' = torn),
         UNCHANGED <<remote, file, txn, staged, merges, told>>
  PROVE  ChInv'
<1>1. VarTypes
  BY DEF ChInv
<1>2. /\ pr' \in Procs /\ OthersKept({p}) /\ RunStays(p) /\ LocksKept({p})
      /\ pr'[p] # Idle => pr'[p].pc = "record" /\ pr'[p].job = pr[p].job
  BY <1>1, EndFacts
<1>3. pr'[p] # Idle => ProcInv(p)'
  <2>1. SUFFICES ASSUME pr'[p] # Idle PROVE ProcInv(p)'
    OBVIOUS
  <2>2. pr'[p].pc = "record" /\ pr'[p].job = j
    BY <1>2, <2>1
  <2>3. Merges(j)
    <3>1. CASE pr[p].role = "fetch"
      <4>1. pr'[p] = Idle
        BY <1>1, <3>1, ExitFacts DEF FetchEnds
      <4>2. QED BY <2>1, <4>1
    <3>2. QED BY <3>1
  <2>4. Merges(j)' /\ remote'[j] \in Ended
    BY <2>3 DEF Merges
  <2>5. QED BY <2>2, <2>4 DEF ProcInv, LockInv, CopyInv, RemoteInv, WorkInv, LookInv, HoldsWorkspace, HoldsTransfer, Inside,
           Installing, Replays, Sessions, Job
<1>4. /\ rec' = [rec EXCEPT ![j] = r] /\ age' \in [ChJobs -> 0..2]
      /\ torn' \in [ChJobs -> BOOLEAN] /\ \A i \in ChJobs : (torn[i] => torn'[i]) /\ (i # j => torn'[i] = torn[i])
      /\ rec[j] # s => torn'[j]
  BY <1>1, StaleFacts, SaveFacts, SameTorn
<1>5. r # NoRec /\ r \in Maybe
  BY NoRecApart DEF Good, Maybe
<1>6. torn'[j] \/ r = NoRec \/ (rec[j] # NoRec /\ Updates(j, rec[j], r))
  BY <1>4
<1>7. OneRun'
  BY <1>2, RunsStay DEF ChInv
<1>8. \A q \in ChProcs \cap {p} : pr'[q] # Idle => ProcInv(q)'
  BY <1>3
<1>9. QED BY <1>2, <1>4, <1>5, <1>6, <1>7, <1>8, SaveKeeps

LEMMA SettleSaveStep ==
  ASSUME ChInv, NEW p \in ChProcs, SettleSave(p)
  PROVE  ChInv'
<1>1. pr[p] # Idle /\ pr[p] \in Process /\ ProcInv(p) /\ pr[p].pc = "settle_save" /\ VarTypes
  BY ProcFacts DEF SettleSave, ChInv
<1>2. PICK j \in ChJobs : j = pr[p].job
  BY <1>1 DEF Process
<1>3. PICK s : s = pr[p].copy
  OBVIOUS
<1>4. Good(j, s) /\ wsl = p /\ txn[j] = "none" /\ pr[p].role = "fetch" /\ remote[j] \in Ended
  BY <1>1, <1>2, <1>3 DEF ProcInv, CopyInv, LockInv, RemoteInv, WorkInv, HoldsWorkspace, Applying, Fetching, Job
<1>5. UNCHANGED <<remote, file, txn, staged, merges, told>> /\ FetchEnds(p)
  BY DEF SettleSave
<1>6. CASE UNCHANGED <<rec, age, torn>>
  <2>1. UNCHANGED Data /\ Exit(p)
    BY <1>4, <1>5, <1>6 DEF Data, FetchEnds
  <2>2. QED BY <2>1, ExitKeeps
<1>7. CASE SaveStale(j, s, [s EXCEPT !.auto = "no_changes"])
  <2>1. PICK r : r = [s EXCEPT !.auto = "no_changes"]
    OBVIOUS
  <2>2. r \in Record /\ r.applied = s.applied /\ r.auto = "no_changes" /\ s \in Record
    BY <1>4, <2>1 DEF Good, Record, FinishedSet
  <2>3. Good(j, r) /\ Updates(j, s, r) /\ s # NoRec
    BY <1>4, <2>2, NoRecApart DEF Good, Updates, Unfinished
  <2>4. SaveStale(j, s, r)
    BY <1>7, <2>1
  <2>5. QED BY <1>1, <1>2, <1>4, <1>5, <2>3, <2>4, EndSaveKeeps
<1>8. QED BY <1>2, <1>3, <1>6, <1>7 DEF SettleSave, Job

LEMMA RecoveredMark ==
  ASSUME NEW j \in ChJobs, NEW s, Good(j, s), NEW full, Merges(j)
  PROVE  /\ Good(j, markRecoveredAutomaticApply(s, full)) /\ Updates(j, s, markRecoveredAutomaticApply(s, full))
         /\ markRecoveredAutomaticApply(s, full).applied = s.applied /\ markRecoveredAutomaticApply(s, full).pend = s.pend
<1>1. PICK r : r = markRecoveredAutomaticApply(s, full)
  OBVIOUS
<1>2. r = s \/ r = [s EXCEPT !.auto = "applied"]
  BY <1>1 DEF markRecoveredAutomaticApply
<1>3. CASE r = s
  BY <1>1, <1>3 DEF Updates
<1>4. CASE r = [s EXCEPT !.auto = "applied"]
  <2>1. r \in Record /\ r.applied = s.applied /\ r.auto = "applied" /\ r.pend = s.pend
    BY <1>4 DEF Good, Record, FinishedSet
  <2>2. QED BY <1>1, <2>1 DEF Good, Updates, Unfinished
<1>5. QED BY <1>2, <1>3, <1>4

LEMMA SessionSaveStep ==
  ASSUME ChInv, NEW p \in ChProcs, SessionSave(p)
  PROVE  ChInv'
<1>1. "session_save" \in Inside /\ "session_save" \in Sessions
  BY DEF Inside, Sessions
<1>2. pr[p] # Idle /\ pr[p].pc = "session_save" /\ ProcInv(p) /\ VarTypes /\ \E i \in ChJobs : InsideFacts(p, i)
  BY <1>1, InsideKnown DEF SessionSave
<1>3. PICK j \in ChJobs : InsideFacts(p, j)
  BY <1>2
<1>4. j \in SharedJobs /\ j = pr[p].job /\ wsl = p /\ remote[j] \in Ended
  BY <1>1, <1>2, <1>3 DEF ProcInv, WorkInv, InsideFacts, Job
<1>5. PICK s : s = pr[p].mine
  OBVIOUS
<1>6. Good(j, s) /\ Merges(j)
  BY <1>3, <1>4, <1>5 DEF InsideFacts, Merges
<1>7. PICK r : r = markRecoveredAutomaticApply(s, pr[p].full)
  OBVIOUS
<1>8. Good(j, r) /\ Updates(j, s, r)
  BY <1>6, <1>7, RecoveredMark
<1>9. s # NoRec /\ txn[j] = "none"
  BY <1>4, <1>6, NoRecApart DEF Good, ChInv, JobInv, VarTypes
<1>10. SaveStale(j, s, r) /\ FetchEnds(p) /\ UNCHANGED <<remote, file, txn, staged, merges, told>>
  BY <1>4, <1>5, <1>7 DEF SessionSave, Job
<1>11. QED BY <1>2, <1>4, <1>6, <1>8, <1>9, <1>10, EndSaveKeeps

LEMMA ClearStep ==
  ASSUME ChInv, NEW p \in ChProcs, ClearPending(p)
  PROVE  ChInv'
<1>1. "clear" \in Inside
  BY DEF Inside, Installing
<1>2. pr[p] # Idle /\ pr[p].pc = "clear" /\ ProcInv(p) /\ VarTypes /\ \E i \in ChJobs : InsideFacts(p, i)
  BY <1>1, InsideKnown DEF ClearPending
<1>3. PICK j \in ChJobs : InsideFacts(p, j)
  BY <1>2
<1>4. /\ rec[j].applied /\ txn[j] = "none" /\ j = pr[p].job /\ wsl = p /\ remote[j] \in Ended /\ Good(j, rec[j]) /\ rec[j] # NoRec
  BY <1>2, <1>3 DEF ProcInv, WorkInv, InsideFacts, Job
<1>5. PICK s : s = [rec[j] EXCEPT !.pend = FALSE]
  OBVIOUS
<1>6. s \in Record /\ s.applied = rec[j].applied /\ s.auto = rec[j].auto
  BY <1>4, <1>5 DEF Good, Record
<1>7. Good(j, s) /\ Merges(j)
  BY <1>4, <1>6 DEF Good, Merges
<1>8. PICK r : r = markRecoveredAutomaticApply(s, pr[p].full)
  OBVIOUS
<1>9. Good(j, r) /\ Updates(j, s, r)
  BY <1>7, <1>8, RecoveredMark
<1>10. Updates(j, rec[j], r)
  BY <1>6, <1>9 DEF Updates
<1>11. Save(j, r) /\ torn' = torn /\ FetchEnds(p) /\ UNCHANGED <<remote, file, txn, staged, merges, told>>
  BY <1>4, <1>5, <1>8 DEF ClearPending, Job
<1>12. QED BY <1>2, <1>4, <1>7, <1>9, <1>10, <1>11, EndSaveKeeps

-----------------------------------------------------------------------------
(* Recovering another process's transaction, and applying one's own        *)

Becomes(p, n) == pr' = [pr EXCEPT ![p] = n]
SavesOver(i, s, r) == SaveStale(i, s, r) \/ (s = rec[i] /\ Save(i, r) /\ torn' = torn)
TxnFollows(i, r) == \/ txn' = txn /\ (txn[i] # "none" => r.pend)
                    \/ txn[i] # "installed" /\ txn' = [txn EXCEPT ![i] = "none"]

\* A save under the workspace lock that stays inside.
LEMMA InsideSaveKeeps ==
  ASSUME ChInv, NEW p \in ChProcs, pr[p] # Idle, NEW j \in ChJobs, InsideFacts(p, j), NEW n \in Process, Becomes(p, n),
         n.pc \in Inside, n.job = j, n.mine = pr[p].mine, UNCHANGED locks,
         NEW i \in ChJobs, NEW s, NEW r, Good(i, r), Updates(i, s, r), s # NoRec, SavesOver(i, s, r), TxnFollows(i, r),
         UNCHANGED <<remote, file, staged, merges, told>>,
         n.pc \in Replays => Good(n.k, n.copy) /\ n.copy.pend,
         pr'[p] = n /\ staged'[j] /\ rec'[j] # NoRec /\ rec'[i] = r /\ (i # j => rec'[j] = rec[j]) => WorkInv(p)'
  PROVE  ChInv'
<1>1. VarTypes /\ pr \in Procs /\ wsl = p
  BY DEF ChInv, VarTypes, Procs, InsideFacts
<1>2. pr' \in Procs /\ OthersKept({p}) /\ pr'[p] = n
  BY <1>1 DEF Procs, OthersKept, Becomes
<1>3. LocksKept({p}) /\ wsl' = p /\ xfer'[j] = p /\ remote'[j] \in Ended /\ staged'[j] /\ rec[j] # NoRec
  BY <1>1, SameLocks DEF locks, InsideFacts
<1>4. n.pc \notin {"mark", "submit"}
  BY DEF Inside, Installing, Replays, Sessions
<1>5. OneRun'
  BY <1>2, <1>4, RunsStay DEF RunStays, ChInv
<1>6. /\ rec' = [rec EXCEPT ![i] = r] /\ age' \in [ChJobs -> 0..2]
      /\ torn' \in [ChJobs -> BOOLEAN] /\ \A h \in ChJobs : (torn[h] => torn'[h]) /\ (h # i => torn'[h] = torn[h])
      /\ rec[i] # s => torn'[i]
  BY <1>1, StaleFacts, SaveFacts, SameTorn DEF SavesOver
<1>7. r # NoRec /\ r \in Maybe
  BY NoRecApart DEF Good, Maybe
<1>8. rec'[i] = r /\ (i # j => rec'[j] = rec[j]) /\ rec'[j] # NoRec
  BY <1>1, <1>3, <1>6, <1>7 DEF VarTypes
<1>9. WorkInv(p)'
  BY <1>2, <1>3, <1>8
<1>10. ProcInv(p)'
  <2>1. j \in SharedJobs => Good(j, pr[p].mine)'
    BY <1>2 DEF InsideFacts, Good, Merges
  <2>2. pr'[p].pc \in Replays => Good(pr[p].k, pr[p].copy)' /\ pr'[p].copy.pend
    BY <1>2 DEF Good, Merges
  <2>3. QED BY <1>2, <1>3, <1>9, <2>1, <2>2, InsideHolds
<1>11. torn'[i] \/ r = NoRec \/ (rec[i] # NoRec /\ Updates(i, rec[i], r))
  BY <1>6
<1>12. \A q \in ChProcs \cap {p} : pr'[q] # Idle => ProcInv(q)'
  BY <1>10
<1>13. \A q \in ChProcs \ {p} : ~(wsl = q /\ xfer[i] = q)
  BY <1>1
<1>14. \/ txn' = txn /\ (txn[i] # "none" => r # NoRec /\ r.pend)
       \/ wsl \in {p} /\ txn[i] # "installed" /\ txn' = [txn EXCEPT ![i] = "none"]
  BY <1>1, <1>7 DEF TxnFollows
<1>15. QED BY <1>2, <1>3, <1>5, <1>6, <1>7, <1>11, <1>12, <1>13, <1>14, SaveKeeps

LEMMA ReplayStep ==
  ASSUME ChInv, NEW p \in ChProcs, recoverOneApplication(p)
  PROVE  ChInv'
<1>1. /\ {"replay", "replay_commit", "visit"} \subseteq Inside /\ {"replay_commit", "visit"} \subseteq Pcs
      /\ "visit" \notin Replays /\ "replay" \in Replays
  BY DEF Inside, Replays, Pcs, Applying, Fetching
<1>2. /\ pr[p] # Idle /\ pr[p].pc = "replay" /\ pr[p] \in Process /\ pr \in Procs /\ ProcInv(p) /\ VarTypes
      /\ \E i \in ChJobs : InsideFacts(p, i)
  BY <1>1, InsideKnown DEF recoverOneApplication
<1>3. PICK j \in ChJobs : InsideFacts(p, j)
  BY <1>2
<1>4. PICK k \in ChJobs : k = pr[p].k
  BY <1>2 DEF Process
<1>5. PICK s : s = pr[p].copy
  OBVIOUS
<1>6. Good(k, s) /\ s.pend /\ s # NoRec /\ s \in Record
  BY <1>1, <1>2, <1>4, <1>5, NoRecApart DEF ProcInv, CopyInv, Good
<1>7. UNCHANGED locks /\ UNCHANGED <<remote, file, staged, merges, told>>
  BY DEF recoverOneApplication
<1>8. CASE txn[k] = "installed"
  <2>1. PICK r : r = [s EXCEPT !.applied = TRUE]
    OBVIOUS
  <2>2. r \in Record /\ r.applied = TRUE /\ r.auto = s.auto /\ r.pend = s.pend
    BY <1>6, <2>1 DEF Record
  <2>3. merges[k] > 0
    BY <1>8 DEF ChInv, JobInv
  <2>4. Good(k, r) /\ Updates(k, s, r) /\ r.pend
    BY <1>6, <2>2, <2>3 DEF Good, Updates
  <2>5. /\ SaveStale(k, s, r) /\ txn' = txn
        /\ pr' = [pr EXCEPT ![p].pc = "replay_commit", ![p].copy.applied = TRUE]
    BY <1>4, <1>5, <1>8, <2>1 DEF recoverOneApplication
  <2>6. PICK n : n = [[pr[p] EXCEPT !.pc = "replay_commit"] EXCEPT !.copy = r]
    OBVIOUS
  <2>7. n \in Process /\ n.pc = "replay_commit" /\ n.job = j /\ n.mine = pr[p].mine /\ n.k = k /\ n.copy = r
    <3>1. r \in Maybe
      BY <2>2 DEF Maybe
    <3>2. QED BY <1>1, <1>2, <1>3, <1>4, <2>6, <3>1 DEF Process, InsideFacts
  <2>8. Becomes(p, n)
    <3>1. pr[p].copy = s /\ DOMAIN pr[p] = DOMAIN n /\ p \in DOMAIN pr
      BY <1>2, <1>5, <2>6 DEF Procs
    <3>2. [pr EXCEPT ![p].pc = "replay_commit", ![p].copy.applied = TRUE]
            = [pr EXCEPT ![p] = [[pr[p] EXCEPT !.pc = "replay_commit"] EXCEPT !.copy = [pr[p].copy EXCEPT !.applied = TRUE]]]
      BY <1>2 DEF Procs, Process
    <3>3. QED BY <1>5, <2>1, <2>5, <2>6, <3>2 DEF Becomes
  <2>9. ASSUME pr'[p] = n, staged'[j], rec'[j] # NoRec, rec'[k] = r PROVE WorkInv(p)'
    <3>1. Applied(k)' /\ txn'[k] = "installed"
      BY <1>8, <2>2, <2>5, <2>9 DEF Applied
    <3>2. QED BY <2>7, <2>9, <3>1 DEF WorkInv, Job, Installing, Sessions
  <2>10. n.pc \in Inside /\ Good(n.k, n.copy) /\ n.copy.pend
    BY <1>1, <2>4, <2>7
  <2>11. SavesOver(k, s, r) /\ TxnFollows(k, r) /\ n \in Process /\ n.job = j /\ n.mine = pr[p].mine
    BY <2>4, <2>5, <2>7 DEF SavesOver, TxnFollows
  <2>12. pr'[p] = n /\ staged'[j] /\ rec'[j] # NoRec /\ rec'[k] = r /\ (k # j => rec'[j] = rec[j]) => WorkInv(p)'
    BY <2>9
  <2>13. pr[p] # Idle /\ s # NoRec /\ Good(k, r) /\ Updates(k, s, r)
    BY <1>2, <1>6, <2>4
  <2>14. QED BY <1>3, <1>7, <2>8, <2>10, <2>11, <2>12, <2>13, InsideSaveKeeps
<1>9. CASE txn[k] # "installed"
  <2>1. PICK r : r = [s EXCEPT !.pend = FALSE]
    OBVIOUS
  <2>2. r \in Record /\ r.applied = s.applied /\ r.auto = s.auto
    BY <1>6, <2>1 DEF Record
  <2>3. Good(k, r) /\ Updates(k, s, r)
    BY <1>6, <2>2 DEF Good, Updates
  <2>4. /\ SaveStale(k, s, r) /\ txn' = [txn EXCEPT ![k] = "none"]
        /\ pr' = [pr EXCEPT ![p].pc = "visit", ![p].copy = NoRec]
    BY <1>4, <1>5, <1>9, <2>1 DEF recoverOneApplication
  <2>5. PICK n : n = [[pr[p] EXCEPT !.pc = "visit"] EXCEPT !.copy = NoRec]
    OBVIOUS
  <2>6. n \in Process /\ n.pc = "visit" /\ n.job = j /\ n.mine = pr[p].mine
    <3>1. NoRec \in Maybe
      BY DEF Maybe
    <3>2. QED BY <1>1, <1>2, <1>3, <2>5, <3>1 DEF Process, InsideFacts
  <2>7. Becomes(p, n)
    BY <1>2, <2>4, <2>5 DEF Procs, Becomes
  <2>8. ASSUME pr'[p] = n, staged'[j], rec'[j] # NoRec PROVE WorkInv(p)'
    BY <2>6, <2>8 DEF WorkInv, Job, Installing, Sessions
  <2>9. n.pc \in Inside /\ n.pc \notin Replays
    BY <1>1, <2>6
  <2>10. SavesOver(k, s, r) /\ TxnFollows(k, r) /\ n \in Process /\ n.job = j /\ n.mine = pr[p].mine
    BY <1>9, <2>4, <2>6 DEF SavesOver, TxnFollows
  <2>11. pr'[p] = n /\ staged'[j] /\ rec'[j] # NoRec /\ rec'[k] = r /\ (k # j => rec'[j] = rec[j]) => WorkInv(p)'
    BY <2>8
  <2>12. pr[p] # Idle /\ s # NoRec /\ Good(k, r) /\ Updates(k, s, r)
    BY <1>2, <1>6, <2>3
  <2>13. QED BY <1>3, <1>7, <2>7, <2>9, <2>10, <2>11, <2>12, InsideSaveKeeps
<1>10. QED BY <1>8, <1>9

LEMMA RecoveredClearStep ==
  ASSUME ChInv, NEW p \in ChProcs, RecoveredClear(p)
  PROVE  ChInv'
<1>1. /\ {"replay_clear", "visit"} \subseteq Inside /\ "visit" \in Pcs /\ "visit" \notin Replays /\ "replay_clear" \in Replays
  BY DEF Inside, Replays, Pcs, Applying, Fetching
<1>2. /\ pr[p] # Idle /\ pr[p].pc = "replay_clear" /\ pr[p] \in Process /\ pr \in Procs /\ ProcInv(p) /\ VarTypes
      /\ \E i \in ChJobs : InsideFacts(p, i)
  BY <1>1, InsideKnown DEF RecoveredClear
<1>3. PICK j \in ChJobs : InsideFacts(p, j)
  BY <1>2
<1>4. PICK k \in ChJobs : k = pr[p].k
  BY <1>2 DEF Process
<1>5. PICK s : s = pr[p].copy
  OBVIOUS
<1>6. Good(k, s) /\ s # NoRec /\ s \in Record /\ txn[k] = "none"
  BY <1>1, <1>2, <1>4, <1>5, NoRecApart DEF ProcInv, CopyInv, WorkInv, Good
<1>7. UNCHANGED locks /\ UNCHANGED <<remote, file, staged, merges, told>> /\ txn' = txn
  BY DEF RecoveredClear
<1>8. PICK r : r = [s EXCEPT !.pend = FALSE]
  OBVIOUS
<1>9. r \in Record /\ r.applied = s.applied /\ r.auto = s.auto
  BY <1>6, <1>8 DEF Record
<1>10. Good(k, r) /\ Updates(k, s, r)
  BY <1>6, <1>9 DEF Good, Updates
<1>11. SaveStale(k, s, r) /\ pr' = [pr EXCEPT ![p].pc = "visit", ![p].copy = NoRec]
  BY <1>4, <1>5, <1>8 DEF RecoveredClear
<1>12. PICK n : n = [[pr[p] EXCEPT !.pc = "visit"] EXCEPT !.copy = NoRec]
  OBVIOUS
<1>13. n \in Process /\ n.pc = "visit" /\ n.job = j /\ n.mine = pr[p].mine
  <2>1. NoRec \in Maybe
    BY DEF Maybe
  <2>2. QED BY <1>1, <1>2, <1>3, <1>12, <2>1 DEF Process, InsideFacts
<1>14. Becomes(p, n)
  BY <1>2, <1>11, <1>12 DEF Procs, Becomes
<1>15. ASSUME pr'[p] = n, staged'[j], rec'[j] # NoRec PROVE WorkInv(p)'
  BY <1>13, <1>15 DEF WorkInv, Job, Installing, Sessions
<1>16. n.pc \in Inside /\ n.pc \notin Replays
  BY <1>1, <1>13
<1>17. SavesOver(k, s, r) /\ TxnFollows(k, r) /\ n \in Process /\ n.job = j /\ n.mine = pr[p].mine
  BY <1>6, <1>7, <1>11, <1>13 DEF SavesOver, TxnFollows
<1>18. pr'[p] = n /\ staged'[j] /\ rec'[j] # NoRec /\ rec'[k] = r /\ (k # j => rec'[j] = rec[j]) => WorkInv(p)'
  BY <1>15
<1>19. pr[p] # Idle /\ s # NoRec /\ Good(k, r) /\ Updates(k, s, r)
  BY <1>2, <1>6, <1>10
<1>20. QED BY <1>3, <1>7, <1>14, <1>16, <1>17, <1>18, <1>19, InsideSaveKeeps

\* A bundle is opened for merging only where no merge of it is known, or where one was forgotten.
LEMMA ApplyStep ==
  ASSUME ChInv, NEW p \in ChProcs, applyChangeBundle(p)
  PROVE  ChInv'
<1>1. {"apply", "open"} \subseteq Inside /\ "open" \notin Replays /\ "open" \in Pcs
  BY DEF Inside, Installing, Replays, Pcs, Applying, Fetching
<1>2. /\ pr[p] # Idle /\ pr[p].pc = "apply" /\ pr[p] \in Process /\ pr \in Procs /\ ProcInv(p) /\ VarTypes
      /\ \E i \in ChJobs : InsideFacts(p, i)
  BY <1>1, InsideKnown DEF applyChangeBundle
<1>3. PICK j \in ChJobs : InsideFacts(p, j)
  BY <1>2
<1>4. /\ txn[j] = "none" /\ j \notin SharedJobs /\ j = pr[p].job /\ wsl = p /\ remote[j] \in Ended /\ Good(j, rec[j]) /\ rec[j] # NoRec
      /\ JobInv(j)
  BY <1>2, <1>3 DEF ProcInv, WorkInv, InsideFacts, Job, Installing, ChInv
<1>5. UNCHANGED <<remote, file, txn, staged, merges, torn, told>>
  BY DEF applyChangeBundle
<1>6. CASE /\ rec[j].applied \/ file[j] = "remote"
           /\ Save(j, markRecoveredAutomaticApply([rec[j] EXCEPT !.applied = TRUE], pr[p].full)) /\ FetchEnds(p)
  <2>1. merges[j] > 0
    BY <1>4, <1>6 DEF Good, JobInv
  <2>2. PICK s : s = [rec[j] EXCEPT !.applied = TRUE]
    OBVIOUS
  <2>3. s \in Record /\ s.applied = TRUE /\ s.auto = rec[j].auto
    BY <1>4, <2>2 DEF Good, Record
  <2>4. Good(j, s) /\ Merges(j)
    BY <1>4, <2>1, <2>3 DEF Good, Merges
  <2>5. PICK r : r = markRecoveredAutomaticApply(s, pr[p].full)
    OBVIOUS
  <2>6. Good(j, r) /\ Updates(j, s, r)
    BY <2>4, <2>5, RecoveredMark
  <2>7. Updates(j, rec[j], r) /\ Save(j, r)
    BY <1>6, <2>2, <2>3, <2>5, <2>6 DEF Updates
  <2>8. QED BY <1>2, <1>4, <1>5, <1>6, <2>4, <2>6, <2>7, EndSaveKeeps
<1>7. CASE FetchFails(p, FALSE) /\ UNCHANGED <<rec, age, done>>
  <2>1. UNCHANGED Data /\ remote[Job(p)] \in Ended
    BY <1>4, <1>5, <1>7 DEF Data, Job
  <2>2. QED BY <1>2, <1>7, <2>1, FailKeeps
<1>8. CASE ~rec[j].applied /\ Save(j, [rec[j] EXCEPT !.pend = TRUE]) /\ Go(p, "open") /\ UNCHANGED locks
  <2>1. PICK r : r = [rec[j] EXCEPT !.pend = TRUE]
    OBVIOUS
  <2>2. r \in Record /\ r.applied = rec[j].applied /\ r.auto = rec[j].auto /\ r.pend = TRUE
    BY <1>4, <2>1 DEF Good, Record
  <2>3. Good(j, r) /\ Updates(j, rec[j], r) /\ Save(j, r)
    BY <1>4, <1>8, <2>1, <2>2 DEF Good, Updates
  <2>4. PICK n : n = [pr[p] EXCEPT !.pc = "open"]
    OBVIOUS
  <2>5. n \in Process /\ n.pc = "open" /\ n.job = j /\ n.mine = pr[p].mine
    BY <1>1, <1>2, <1>4, <2>4 DEF Process
  <2>6. Becomes(p, n)
    BY <1>8, <2>4 DEF Go, Becomes
  <2>7. torn[j] \/ merges[j] = 0
    <3>1. merges[j] \in Nat
      BY <1>2 DEF VarTypes
    <3>2. ~torn[j] => ~(merges[j] > 0)
      BY <1>4, <1>8 DEF JobInv, Applied
    <3>3. QED BY <3>1, <3>2
  <2>8. ASSUME pr'[p] = n, staged'[j], rec'[j] # NoRec, rec'[j] = r PROVE WorkInv(p)'
    BY <1>4, <1>5, <2>2, <2>5, <2>7, <2>8 DEF WorkInv, Job, Installing, Sessions
  <2>9. n.pc \in Inside /\ n.pc \notin Replays /\ txn' = txn /\ r.pend
    BY <1>1, <1>5, <2>2, <2>5
  <2>10. /\ SavesOver(j, rec[j], r) /\ TxnFollows(j, r) /\ n \in Process /\ n.job = j
         /\ n.mine = pr[p].mine /\ UNCHANGED locks /\ UNCHANGED <<remote, file, staged, merges, told>>
    BY <1>5, <1>8, <2>3, <2>5, <2>9 DEF SavesOver, TxnFollows
  <2>11. pr'[p] = n /\ staged'[j] /\ rec'[j] # NoRec /\ rec'[j] = r => WorkInv(p)'
    BY <2>8
  <2>12. pr[p] # Idle /\ rec[j] # NoRec /\ Good(j, r) /\ Updates(j, rec[j], r)
    BY <1>2, <1>4, <2>3
  <2>13. QED BY <1>3, <2>6, <2>9, <2>10, <2>11, <2>12, InsideSaveKeeps
<1>9. QED BY <1>4, <1>6, <1>7, <1>8 DEF applyChangeBundle, Job

LEMMA NoteStep ==
  ASSUME ChInv, NEW p \in ChProcs, NoteApplied(p)
  PROVE  ChInv'
<1>1. {"note", "commit"} \subseteq Inside /\ "commit" \notin Replays /\ "commit" \in Pcs
  BY DEF Inside, Installing, Replays, Pcs, Applying, Fetching
<1>2. /\ pr[p] # Idle /\ pr[p].pc = "note" /\ pr[p] \in Process /\ pr \in Procs /\ ProcInv(p) /\ VarTypes
      /\ \E i \in ChJobs : InsideFacts(p, i)
  BY <1>1, InsideKnown DEF NoteApplied
<1>3. PICK j \in ChJobs : InsideFacts(p, j)
  BY <1>2
<1>4. /\ txn[j] = "installed" /\ j \notin SharedJobs /\ j = pr[p].job /\ Good(j, rec[j]) /\ rec[j] # NoRec /\ rec[j].pend /\ merges[j] > 0
  BY <1>2, <1>3 DEF ProcInv, WorkInv, InsideFacts, Job, Installing, ChInv, JobInv
<1>5. PICK r : r = [rec[j] EXCEPT !.applied = TRUE]
  OBVIOUS
<1>6. r \in Record /\ r.applied = TRUE /\ r.auto = rec[j].auto /\ r.pend = rec[j].pend
  BY <1>4, <1>5 DEF Good, Record
<1>7. /\ Save(j, r) /\ Go(p, "commit") /\ UNCHANGED locks
      /\ UNCHANGED <<remote, file, txn, staged, merges, torn, told>>
  BY <1>4, <1>5 DEF NoteApplied, Job, ghosts
<1>8. Good(j, r) /\ Updates(j, rec[j], r) /\ r.pend
  BY <1>4, <1>6 DEF Good, Updates
<1>9. PICK n : n = [pr[p] EXCEPT !.pc = "commit"]
  OBVIOUS
<1>10. n \in Process /\ n.pc = "commit" /\ n.job = j /\ n.mine = pr[p].mine
  BY <1>1, <1>2, <1>4, <1>9 DEF Process
<1>11. Becomes(p, n)
  BY <1>7, <1>9 DEF Go, Becomes
<1>12. ASSUME pr'[p] = n, staged'[j], rec'[j] # NoRec, rec'[j] = r PROVE WorkInv(p)'
  BY <1>4, <1>6, <1>7, <1>8, <1>10, <1>12 DEF WorkInv, Job, Installing, Sessions
<1>13. n.pc \in Inside /\ n.pc \notin Replays
  BY <1>1, <1>10
<1>14. /\ SavesOver(j, rec[j], r) /\ TxnFollows(j, r) /\ n \in Process /\ n.job = j
       /\ n.mine = pr[p].mine /\ UNCHANGED locks /\ UNCHANGED <<remote, file, staged, merges, told>>
  BY <1>7, <1>8, <1>10 DEF SavesOver, TxnFollows
<1>15. pr'[p] = n /\ staged'[j] /\ rec'[j] # NoRec /\ rec'[j] = r => WorkInv(p)'
  BY <1>12
<1>16. pr[p] # Idle /\ rec[j] # NoRec /\ Good(j, r) /\ Updates(j, rec[j], r)
  BY <1>2, <1>4, <1>8
<1>17. QED BY <1>3, <1>11, <1>13, <1>14, <1>15, <1>16, InsideSaveKeeps

LEMMA ConflictStep ==
  ASSUME ChInv, NEW p \in ChProcs, At(p, "install"), txn' = [txn EXCEPT ![Job(p)] = "none"],
         Save(Job(p), [rec[Job(p)] EXCEPT !.pend = FALSE]), FetchFails(p, FALSE),
         UNCHANGED <<remote, file, staged, merges, torn, told>>
  PROVE  ChInv'
<1>1. "install" \in Inside
  BY DEF Inside, Installing
<1>2. pr[p] # Idle /\ pr[p].pc = "install" /\ ProcInv(p) /\ VarTypes /\ \E i \in ChJobs : InsideFacts(p, i)
  BY <1>1, InsideKnown
<1>3. PICK j \in ChJobs : InsideFacts(p, j)
  BY <1>2
<1>4. j = Job(p) /\ wsl = p /\ rec[j] # NoRec /\ Good(j, rec[j]) /\ remote[j] \in Ended /\ txn[j] = "open"
  BY <1>2, <1>3 DEF ProcInv, WorkInv, InsideFacts, Job
<1>5. PICK r : r = [rec[j] EXCEPT !.pend = FALSE]
  OBVIOUS
<1>6. r \in Record /\ r.applied = rec[j].applied /\ r.auto = rec[j].auto
  BY <1>4, <1>5 DEF Good, Record
<1>7. Good(j, r) /\ Updates(j, rec[j], r) /\ r \in Maybe /\ r # NoRec
  BY <1>4, <1>6, NoRecApart DEF Good, Updates, Maybe
<1>8. /\ pr' \in Procs /\ OthersKept({p}) /\ RunStays(p) /\ LocksKept({p})
      /\ pr'[p] # Idle => pr'[p].pc \in {"retry", "fail"} /\ pr'[p].job = pr[p].job
  BY <1>2, FailFacts
<1>9. pr'[p] # Idle => ProcInv(p)'
  <2>1. SUFFICES ASSUME pr'[p] # Idle PROVE ProcInv(p)'
    OBVIOUS
  <2>2. pr'[p].pc \in Known /\ remote'[pr'[p].job] \in Ended
    BY <1>4, <1>8, <2>1 DEF Known, Job
  <2>3. QED BY <2>2, KnownHolds
<1>10. rec' = [rec EXCEPT ![j] = r] /\ age' \in [ChJobs -> 0..2]
  BY <1>2, <1>4, <1>5, SaveFacts
<1>11. torn' \in [ChJobs -> BOOLEAN] /\ \A i \in ChJobs : (torn[i] => torn'[i]) /\ (i # j => torn'[i] = torn[i])
  BY <1>2, SameTorn
<1>12. OneRun'
  BY <1>8, RunsStay DEF ChInv
<1>13. \A q \in ChProcs \cap {p} : pr'[q] # Idle => ProcInv(q)'
  BY <1>9
<1>14. wsl \in {p} /\ txn[j] # "installed" /\ txn' = [txn EXCEPT ![j] = "none"]
  BY <1>4
<1>15. \A q \in ChProcs \ {p} : ~(wsl = q /\ xfer[j] = q)
  BY <1>4
<1>16. QED BY <1>4, <1>7, <1>8, <1>10, <1>11, <1>12, <1>13, <1>14, <1>15, SaveKeeps

LEMMA ApplyToWorkspaceStep ==
  ASSUME ChInv, NEW p \in ChProcs, ApplyToWorkspace(p)
  PROVE  ChInv'
BY InstallStep, ConflictStep DEF ApplyToWorkspace

-----------------------------------------------------------------------------
(* The runner, and the beginning and the end of records and processes      *)

\* The runner's news, with which a rejected submission removes its record.
LEMMA RemoteKeeps ==
  ASSUME ChInv, NEW A, pr' \in Procs, OthersKept(A), LocksKept(A), OneRun', NEW j \in ChJobs,
         NEW v \in Ended \cup {"live", "refused"}, remote' = [remote EXCEPT ![j] = v],
         remote[j] \in Ended => v \in Ended /\ (remote[j] # "empty" => v # "empty"),
         \A q \in ChProcs \ A : ~(pr[q].pc \in {"mark", "submit"} /\ Job(q) = j),
         \/ rec' = rec
         \/ /\ rec' = [rec EXCEPT ![j] = NoRec] /\ txn[j] = "none"
            /\ \A q \in ChProcs \ A : ~(wsl = q /\ xfer[j] = q),
         UNCHANGED <<file, txn, staged, age, merges, torn, told>>,
         \A p \in ChProcs \cap A : pr'[p] # Idle => ProcInv(p)'
  PROVE  ChInv'
<1>1. VarTypes
  BY DEF ChInv
<1>2. rec' \in [ChJobs -> Maybe]
  BY <1>1 DEF VarTypes, Maybe
<1>3. remote' \in [ChJobs -> Ended \cup {"unsent", "refused", "live"}] /\ remote'[j] = v
      /\ \A i \in ChJobs : i # j => remote'[i] = remote[i]
  BY <1>1 DEF VarTypes
<1>4. VarTypes'
  BY <1>1, <1>2, <1>3 DEF VarTypes, Procs, LocksKept
<1>5. v # "unsent"
  BY DEF Ended, TerminalSet
<1>6. \A i \in ChJobs : rec'[i] = rec[i] \/ (i = j /\ rec'[j] = NoRec /\ txn[j] = "none")
  BY <1>1 DEF VarTypes
<1>7. \A i \in ChJobs : JobInv(i)'
  <2>1. TAKE i \in ChJobs
  <2>2. JobInv(i)
    BY DEF ChInv
  <2>3. remote'[i] # "unsent" \/ remote'[i] = remote[i]
    BY <1>3, <1>5
  <2>4. rec'[i] = rec[i] \/ (rec'[i] = NoRec /\ txn[i] = "none")
    BY <1>6
  <2>5. QED BY <2>2, <2>3, <2>4 DEF JobInv, Good, Merges, Applied
<1>8. Onward
  <2>1. \A i \in ChJobs : merges[i] \in Nat /\ merges'[i] = merges[i]
    BY <1>1 DEF VarTypes
  <2>2. \A i \in ChJobs : merges[i] <= merges'[i]
    BY <2>1
  <2>3. QED BY <1>3, <2>2 DEF Onward
<1>9. DataKept(A)
  <2>1. \A i \in ChJobs : Asked(i) => Asked(i)' /\ (Undecided(i)' => Undecided(i))
    BY <1>6 DEF Asked, Undecided
  <2>2. \A q \in ChProcs \ A, i \in ChJobs : pr[q].pc \in {"mark", "submit"} /\ Job(q) = i => remote'[i] = remote[i]
    BY <1>3
  <2>3. \A q \in ChProcs \ A, i \in ChJobs : wsl = q /\ xfer[i] = q => rec'[i] = rec[i]
    BY <1>1 DEF VarTypes
  <2>4. \A i \in ChJobs : Applied(i) => Applied(i)'
    BY <1>6 DEF Applied
  <2>5. QED BY <2>1, <2>2, <2>3, <2>4 DEF DataKept
<1>10. QED BY <1>4, <1>7, <1>8, <1>9, StepKeeps

LEMMA RunnerSteps ==
  ASSUME ChInv, NEW j \in ChJobs, RunnerEnds(j) \/ RunnerCollects(j)
  PROVE  ChInv'
<1>1. /\ pr' = pr /\ UNCHANGED locks /\ UNCHANGED <<rec, file, txn, staged, age, merges, torn, told>>
  BY DEF RunnerEnds, RunnerCollects, ghosts
<1>2. PICK v \in Ended : remote' = [remote EXCEPT ![j] = v] /\ ((remote[j] = "live") \/ (remote[j] \in TerminalSet /\ v = "gone"))
  BY DEF RunnerEnds, RunnerCollects, Ended
<1>3. VarTypes /\ pr' \in Procs /\ OthersKept({}) /\ OneRun'
  BY <1>1 DEF ChInv, VarTypes, Procs, OthersKept, OneRun, Job
<1>4. LocksKept({})
  BY <1>1, <1>3, SameLocks DEF locks
<1>5. remote[j] \in Ended => v \in Ended /\ (remote[j] # "empty" => v # "empty")
  BY <1>2 DEF Ended, TerminalSet
<1>6. \A q \in ChProcs : ~(pr[q].pc \in {"mark", "submit"} /\ Job(q) = j)
  <2>1. SUFFICES ASSUME NEW q \in ChProcs, pr[q].pc \in {"mark", "submit"}, Job(q) = j PROVE FALSE
    OBVIOUS
  <2>2. ProcInv(q)
    BY <2>1 DEF ChInv, ProcInv, Idle
  <2>3. remote[j] = "unsent"
    BY <2>1, <2>2 DEF ProcInv, RemoteInv
  <2>4. QED BY <1>2, <2>3 DEF TerminalSet
<1>7. v \in Ended \cup {"live", "refused"}
  OBVIOUS
<1>8. \A q \in ChProcs \cap {} : pr'[q] # Idle => ProcInv(q)'
  OBVIOUS
<1>9. \A q \in ChProcs \ {} : ~(pr[q].pc \in {"mark", "submit"} /\ Job(q) = j)
  BY <1>6
<1>10. rec' = rec /\ UNCHANGED <<file, txn, staged, age, merges, torn, told>> /\ remote' = [remote EXCEPT ![j] = v]
  BY <1>1, <1>2
<1>11. QED BY <1>3, <1>4, <1>5, <1>7, <1>8, <1>9, <1>10, RemoteKeeps

\* One run submits a job, so the answer concerns no other.
LEMMA SubmitSteps ==
  ASSUME ChInv, NEW p \in ChProcs, submit(p) \/ discardUnsubmittedChangeState(p)
  PROVE  ChInv'
<1>1. pr[p] # Idle /\ pr[p] \in Process /\ ProcInv(p) /\ pr[p].pc \in {"mark", "submit"} /\ VarTypes
  <2>1. pr[p].pc \in {"mark", "submit"}
    BY DEF submit, discardUnsubmittedChangeState, At
  <2>2. QED BY <2>1, ProcFacts DEF At, ChInv
<1>2. PICK j \in ChJobs : j = Job(p)
  BY <1>1 DEF Process, Job
<1>3. remote[j] = "unsent"
  BY <1>1, <1>2 DEF ProcInv, RemoteInv
<1>4. \A q \in ChProcs \ {p} : ~(pr[q].pc \in {"mark", "submit"} /\ Job(q) = j)
  BY <1>1, <1>2 DEF ChInv, OneRun
<1>5. remote[j] \notin Ended
  BY <1>3 DEF Ended, TerminalSet
<1>6. CASE submit(p)
  <2>1. PICK pc \in {"confirm", "stream", "handoff_last", "leave"}, v \in {"live", "refused"} :
          Go(p, pc) /\ remote' = [remote EXCEPT ![j] = v]
    BY <1>2, <1>6 DEF submit
  <2>2. pc \in Pcs
    BY DEF Pcs
  <2>3. pr' \in Procs /\ OthersKept({p}) /\ pr'[p].pc = pc
    BY <1>1, <2>1, <2>2, GoFacts
  <2>4. UNCHANGED locks /\ UNCHANGED <<rec, file, txn, staged, age, merges, torn, told>>
    BY <1>6 DEF submit, ghosts
  <2>5. LocksKept({p}) /\ RunStays(p)
    BY <1>1, <2>3, <2>4, SameLocks DEF locks, RunStays
  <2>6. OneRun'
    BY <2>3, <2>5, RunsStay DEF ChInv
  <2>7. \A q \in ChProcs \cap {p} : pr'[q] # Idle => ProcInv(q)'
    BY <2>3, LightHolds DEF Light
  <2>8. v \in Ended \cup {"live", "refused"}
    OBVIOUS
  <2>9. QED BY <1>4, <1>5, <2>1, <2>3, <2>4, <2>5, <2>6, <2>7, <2>8, RemoteKeeps
<1>7. CASE discardUnsubmittedChangeState(p)
  <2>1. /\ Stop(p) /\ BothFree(p, j) /\ remote' = [remote EXCEPT ![j] = "refused"]
        /\ UNCHANGED locks /\ UNCHANGED <<file, txn, staged, age, merges, torn, told>>
    BY <1>2, <1>7 DEF discardUnsubmittedChangeState, ghosts
  <2>2. rec' = rec \/ (rec[j] # NoRec /\ ~rec[j].pend /\ rec' = [rec EXCEPT ![j] = NoRec])
    BY <1>2, <1>7 DEF discardUnsubmittedChangeState
  <2>3. pr' \in Procs /\ OthersKept({p}) /\ pr'[p] = Idle /\ RunStays(p)
    BY <1>1, <2>1, StopFacts
  <2>4. LocksKept({p}) /\ OneRun'
    BY <1>1, <2>1, <2>3, SameLocks, RunsStay DEF locks, ChInv
  <2>5. \A q \in ChProcs \ {p} : ~(wsl = q /\ xfer[j] = q)
    BY <2>1, Named DEF BothFree
  <2>6. rec' = rec \/ (rec' = [rec EXCEPT ![j] = NoRec] /\ txn[j] = "none")
    BY <2>2 DEF ChInv, JobInv
  <2>7. \A q \in ChProcs \cap {p} : pr'[q] # Idle => ProcInv(q)'
    BY <2>3
  <2>8. "refused" \in Ended \cup {"live", "refused"}
    OBVIOUS
  <2>9. QED BY <1>4, <1>5, <2>1, <2>3, <2>4, <2>5, <2>6, <2>7, <2>8, RemoteKeeps
<1>8. QED BY <1>6, <1>7

\* A process begins.
LEMMA SpawnFacts ==
  ASSUME VarTypes, NEW p \in ChProcs, NEW s \in Process, pr' = [pr EXCEPT ![p] = s]
  PROVE  pr' \in Procs /\ OthersKept({p}) /\ pr'[p] = s
BY DEF VarTypes, Procs, OthersKept

LEMMA Spawned ==
  ASSUME NEW role \in {"run", "worker", "fetch", "gc", "look"}, NEW j \in ChJobs, NEW pc \in Pcs, NEW full \in BOOLEAN
  PROVE  /\ Spawn(role, j, pc, full) \in Process /\ Spawn(role, j, pc, full).pc = pc /\ Spawn(role, j, pc, full).job = j
         /\ Spawn(role, j, pc, full).role = role
<1>1. NoRec \in Maybe
  BY DEF Maybe
<1>2. QED BY <1>1 DEF Spawn, Process

LEMMA SpawnedWhole ==
  ASSUME NEW role \in {"run", "worker", "fetch", "gc", "look"}, NEW j \in ChJobs, NEW pc \in Pcs
  PROVE  Spawn(role, j, pc, TRUE) \in Process /\ Spawn(role, j, pc, TRUE).pc = pc /\ Spawn(role, j, pc, TRUE).job = j
<1>1. NoRec \in Maybe
  BY DEF Maybe
<1>2. QED BY <1>1 DEF Spawn, Process

LEMMA BeginSteps ==
  ASSUME ChInv, NEW p \in ChProcs, NEW j \in ChJobs,
         ChangeGC(p, j) \/ inspectAutomaticApply(p, j) \/ \E full \in BOOLEAN : StartFetch(p, j, full)
  PROVE  ChInv'
<1>1. UNCHANGED Data /\ UNCHANGED locks /\ VarTypes
  BY DEF ChangeGC, inspectAutomaticApply, StartFetch, Data, ghosts, ChInv
<1>2. LocksKept({p})
  BY <1>1, SameLocks DEF locks
<1>3. {"gc", "probe", "fetch"} \subseteq Pcs
  BY DEF Pcs, Applying, Fetching
<1>4. CASE ChangeGC(p, j)
  <2>1. PICK out \in {"ancient", "old"} : pr' = [pr EXCEPT ![p] = [Spawn("gc", j, "gc", TRUE) EXCEPT !.out = out]]
    BY <1>4 DEF ChangeGC
  <2>2. PICK s : s = [Spawn("gc", j, "gc", TRUE) EXCEPT !.out = out]
    OBVIOUS
  <2>3. Spawn("gc", j, "gc", TRUE) \in Process /\ Spawn("gc", j, "gc", TRUE).pc = "gc"
    <3>1. NoRec \in Maybe
      BY DEF Maybe
    <3>2. QED BY <1>3, <3>1 DEF Spawn, Process
  <2>4. s \in Process /\ s.pc = "gc"
    BY <2>2, <2>3 DEF Process
  <2>5. pr' \in Procs /\ OthersKept({p}) /\ pr'[p] = s
    BY <1>1, <2>1, <2>2, <2>4, SpawnFacts
  <2>6. RunStays(p) /\ ProcInv(p)'
    BY <2>4, <2>5, LightHolds DEF RunStays, Light
  <2>7. QED BY <1>1, <1>2, <2>5, <2>6, QuietKeeps
<1>5. CASE inspectAutomaticApply(p, j)
  <2>1. rec[j] # NoRec /\ rec[j].auto \in Unfinished /\ pr' = [pr EXCEPT ![p] = Spawn("look", j, "probe", TRUE)]
    BY <1>5 DEF inspectAutomaticApply
  <2>2. PICK s : s = Spawn("look", j, "probe", TRUE)
    OBVIOUS
  <2>3. s \in Process /\ s.pc = "probe" /\ s.job = j
    BY <1>3, <2>2, SpawnedWhole
  <2>4. pr' \in Procs /\ OthersKept({p}) /\ pr'[p] = s
    BY <1>1, <2>1, <2>2, <2>3, SpawnFacts
  <2>5. Asked(j)'
    BY <1>1, <2>1 DEF Asked, Data, Unfinished
  <2>6. ProcInv(p)'
    <3>1. LookInv(p)'
      BY <2>3, <2>4, <2>5 DEF LookInv, Job
    <3>2. LockInv(p)' /\ CopyInv(p)' /\ RemoteInv(p)' /\ WorkInv(p)'
      BY <2>3, <2>4 DEF LockInv, CopyInv, RemoteInv, WorkInv, HoldsWorkspace, HoldsTransfer, Inside, Installing, Replays, Sessions,
         Applying, Fetching
    <3>3. QED BY <3>1, <3>2 DEF ProcInv
  <2>7. RunStays(p)
    BY <2>3, <2>4 DEF RunStays
  <2>8. QED BY <1>1, <1>2, <2>4, <2>6, <2>7, QuietKeeps
<1>6. CASE \E full \in BOOLEAN : StartFetch(p, j, full)
  <2>1. PICK full \in BOOLEAN : pr' = [pr EXCEPT ![p] = Spawn("fetch", j, "fetch", full)] /\ remote[j] \in TerminalSet
    BY <1>6 DEF StartFetch
  <2>2. PICK s : s = Spawn("fetch", j, "fetch", full)
    OBVIOUS
  <2>3. s \in Process /\ s.pc = "fetch" /\ s.job = j /\ s.role = "fetch"
    BY <1>3, <2>2, Spawned
  <2>4. pr' \in Procs /\ OthersKept({p}) /\ pr'[p] = s
    BY <1>1, <2>1, <2>2, <2>3, SpawnFacts
  <2>5. ProcInv(p)'
    <3>1. RemoteInv(p)'
      BY <1>1, <2>1, <2>3, <2>4 DEF RemoteInv, Data, Ended, Job
    <3>2. LockInv(p)' /\ CopyInv(p)' /\ WorkInv(p)' /\ LookInv(p)'
      BY <2>3, <2>4 DEF LockInv, CopyInv, WorkInv, LookInv, HoldsWorkspace, HoldsTransfer, Inside, Installing, Replays, Sessions
    <3>3. QED BY <3>1, <3>2 DEF ProcInv
  <2>6. RunStays(p)
    BY <2>3, <2>4 DEF RunStays
  <2>7. QED BY <1>1, <1>2, <2>4, <2>5, <2>6, QuietKeeps
<1>7. QED BY <1>4, <1>5, <1>6

\* A new record is that of a job nobody has merged, and nobody is at work on.
LEMMA InitializeStep ==
  ASSUME ChInv, NEW p \in ChProcs, NEW j \in ChJobs, initializeChangeState(p, j)
  PROVE  ChInv'
<1>1. VarTypes /\ JobInv(j)
  BY DEF ChInv
<1>2. PICK r : r = NewRecord(j)
  OBVIOUS
<1>3. PICK s : s = Spawn("run", j, "mark", TRUE)
  OBVIOUS
<1>4. /\ rec[j] = NoRec /\ remote[j] = "unsent" /\ wsl = NoProc /\ txn[j] = "none" /\ Save(j, r) /\ pr' = [pr EXCEPT ![p] = s]
      /\ UNCHANGED locks /\ UNCHANGED <<remote, file, txn, staged, merges, torn, told>>
      /\ \A q \in ChProcs : pr[q] # Idle => Job(q) # j
  BY <1>2, <1>3 DEF initializeChangeState, ghosts
<1>5. r \in Record /\ ~r.applied /\ r.auto # "applied" /\ r # NoRec
  <2>1. r \in Record /\ r.applied = FALSE /\ r.auto \in {"pending", "off"}
    BY <1>2 DEF NewRecord, Record, Unfinished
  <2>2. QED BY <2>1, NoRecApart
<1>6. s \in Process /\ s.pc = "mark" /\ s.job = j
  <2>1. "mark" \in Pcs
    BY DEF Pcs
  <2>2. NoRec \in Maybe
    BY DEF Maybe
  <2>3. QED BY <1>3, <2>1, <2>2 DEF Spawn, Process
<1>7. pr' \in Procs /\ OthersKept({p}) /\ pr'[p] = s
  BY <1>1, <1>4, <1>6, SpawnFacts
<1>8. LocksKept({p})
  BY <1>1, <1>4, SameLocks DEF locks
<1>9. rec' = [rec EXCEPT ![j] = r] /\ age' \in [ChJobs -> 0..2]
  BY <1>1, <1>4, SaveFacts
<1>10. VarTypes' /\ rec'[j] = r /\ \A i \in ChJobs : i # j => rec'[i] = rec[i]
  BY <1>1, <1>4, <1>5, <1>7, <1>8, <1>9 DEF VarTypes, Procs, LocksKept, Maybe
<1>11. OneRun'
  <2>1. \A q \in ChProcs : q # p /\ pr'[q].pc \in {"mark", "submit"} => pr'[q] = pr[q] /\ pr[q].pc \in {"mark", "submit"} /\ pr[q].job # j
    BY <1>4, <1>7 DEF OthersKept, Idle, Job
  <2>2. QED BY <1>6, <1>7, <2>1 DEF ChInv, OneRun, Job
<1>12. ~(merges[j] > 0)
  BY <1>1, <1>4 DEF JobInv
<1>13. \A i \in ChJobs : JobInv(i)'
  <2>1. TAKE i \in ChJobs
  <2>2. CASE i = j
    BY <1>1, <1>4, <1>5, <1>10, <1>12, <2>2 DEF JobInv, Good, Merges, Applied
  <2>3. CASE i # j
    <3>1. JobInv(i)
      BY DEF ChInv
    <3>2. QED BY <1>4, <1>10, <2>3, <3>1 DEF JobInv, Good, Merges, Applied
  <2>4. QED BY <2>2, <2>3
<1>14. DataKept({p})
  <2>1. \A q \in ChProcs : wsl # q
    BY <1>4, Named
  <2>2. \A q \in ChProcs, i \in ChJobs : pr[q] # Idle /\ Job(q) = i => Asked(i)' = Asked(i) /\ Undecided(i)' = Undecided(i)
    BY <1>4, <1>10 DEF Asked, Undecided
  <2>3. QED BY <1>4, <2>1, <2>2 DEF DataKept
<1>15. QED
  <2>1. ProcInv(p)'
    <3>1. remote'[pr'[p].job] = "unsent"
      BY <1>4, <1>6, <1>7
    <3>2. QED BY <1>6, <1>7, <3>1 DEF ProcInv, LockInv, CopyInv, RemoteInv, WorkInv, LookInv, HoldsWorkspace, HoldsTransfer, Inside,
             Installing, Replays, Sessions, Applying, Fetching, Job
  <2>2. \A q \in ChProcs \cap {p} : pr'[q] # Idle => ProcInv(q)'
    BY <2>1
  <2>3. Onward
    <3>1. \A i \in ChJobs : merges[i] \in Nat /\ merges'[i] = merges[i]
      BY <1>1, <1>4 DEF VarTypes
    <3>2. \A i \in ChJobs : merges[i] <= merges'[i]
      BY <3>1
    <3>3. QED BY <1>4, <3>2 DEF Onward
  <2>4. QED BY <1>7, <1>8, <1>10, <1>11, <1>13, <1>14, <2>2, <2>3, StepKeeps


-----------------------------------------------------------------------------
(* Collection, reconciliation, inspection, and the world                   *)

\* What holds both locks and finds no transaction may remove the download, then the record.
LEMMA CollectStep ==
  ASSUME ChInv, NEW p \in ChProcs, collectLocalChangeLocked(p)
  PROVE  ChInv'
<1>1. pr[p] # Idle /\ pr[p] \in Process /\ ProcInv(p) /\ VarTypes /\ pr[p].pc = "gc"
  BY ProcFacts DEF collectLocalChangeLocked, ChInv
<1>2. PICK j \in ChJobs : j = pr[p].job
  BY <1>1 DEF Process
<1>3. UNCHANGED <<rec, remote, file, txn, age, merges, torn, told>>
  BY DEF collectLocalChangeLocked, ghosts
<1>4. CASE Exit(p) /\ UNCHANGED staged
  <2>1. UNCHANGED Data
    BY <1>3, <1>4 DEF Data
  <2>2. QED BY <1>4, <2>1, ExitKeeps
<1>5. CASE /\ BothFree(p, j) /\ Collectable(j, pr[p].out) /\ staged' = [staged EXCEPT ![j] = FALSE]
           /\ wsl' = p /\ xfer' = [xfer EXCEPT ![j] = p] /\ Go(p, "gc_record")
  <2>1. pr' \in Procs /\ OthersKept({p}) /\ pr'[p].pc = "gc_record" /\ pr'[p].job = j
    <3>1. "gc_record" \in Pcs
      BY DEF Pcs
    <3>2. QED BY <1>1, <1>2, <1>5, <3>1, GoFacts DEF SameWork
  <2>2. LocksKept({p}) /\ xfer'[j] = p /\ wsl' = p
    BY <1>1, <1>5, TakeFacts DEF BothFree
  <2>3. txn[j] = "none"
    <3>1. JobInv(j)
      BY DEF ChInv
    <3>2. QED BY <1>5, <3>1 DEF JobInv, Collectable, localChangeTransactionExists
  <2>4. VarTypes'
    BY <1>1, <1>3, <1>5, <2>1, <2>2 DEF VarTypes, Procs, LocksKept
  <2>5. RunStays(p) /\ OneRun'
    BY <2>1, RunsStay DEF RunStays, ChInv
  <2>6. \A i \in ChJobs : JobInv(i)'
    BY <1>3 DEF ChInv, JobInv, Good, Merges, Applied
  <2>7. DataKept({p})
    <3>1. \A q \in ChProcs \ {p}, i \in ChJobs : xfer[i] = q => i # j
      BY <1>5, Named DEF BothFree
    <3>2. \A i \in ChJobs : i # j => staged'[i] = staged[i]
      BY <1>1, <1>5 DEF VarTypes
    <3>3. QED BY <1>3, <3>1, <3>2 DEF DataKept, Undecided, Asked, Applied
  <2>8. Onward
    <3>1. \A i \in ChJobs : merges[i] \in Nat /\ merges'[i] = merges[i]
      BY <1>1, <1>3 DEF VarTypes
    <3>2. \A i \in ChJobs : merges[i] <= merges'[i]
      BY <3>1
    <3>3. QED BY <1>3, <3>2 DEF Onward
  <2>9. ProcInv(p)'
    <3>1. txn'[j] = "none"
      BY <1>3, <2>3
    <3>2. QED BY <2>1, <2>2, <3>1 DEF ProcInv, LockInv, CopyInv, RemoteInv, WorkInv, LookInv, Inside, Installing, Replays, Sessions,
             Applying, Fetching, Job
  <2>10. \A q \in ChProcs \cap {p} : pr'[q] # Idle => ProcInv(q)'
    BY <2>9
  <2>11. QED BY <2>1, <2>2, <2>4, <2>5, <2>6, <2>7, <2>8, <2>10, StepKeeps
<1>6. QED BY <1>2, <1>4, <1>5 DEF collectLocalChangeLocked, Job

LEMMA RemoveStep ==
  ASSUME ChInv, NEW p \in ChProcs, RemoveRecord(p)
  PROVE  ChInv'
<1>1. pr[p] # Idle /\ pr[p] \in Process /\ ProcInv(p) /\ VarTypes /\ pr[p].pc = "gc_record"
  BY ProcFacts DEF RemoveRecord, ChInv
<1>2. PICK j \in ChJobs : j = pr[p].job
  BY <1>1 DEF Process
<1>3. wsl = p /\ txn[j] = "none"
  BY <1>1, <1>2 DEF ProcInv, LockInv, WorkInv, HoldsWorkspace, Job
<1>4. rec' = [rec EXCEPT ![j] = NoRec] /\ Exit(p) /\ UNCHANGED <<remote, file, txn, staged, age, merges, torn, told>>
  BY <1>2 DEF RemoveRecord, ghosts, Job
<1>5. pr' \in Procs /\ OthersKept({p}) /\ pr'[p] = Idle /\ RunStays(p) /\ LocksKept({p})
  BY <1>1, <1>4, ExitFacts
<1>6. OneRun'
  BY <1>5, RunsStay DEF ChInv
<1>7. torn' \in [ChJobs -> BOOLEAN] /\ \A i \in ChJobs : (torn[i] => torn'[i]) /\ (i # j => torn'[i] = torn[i])
  BY <1>1, <1>4, SameTorn
<1>8. age' \in [ChJobs -> 0..2]
  BY <1>1, <1>4 DEF VarTypes
<1>9. \A q \in ChProcs \ {p} : ~(wsl = q /\ xfer[j] = q)
  BY <1>3
<1>10. \A q \in ChProcs \cap {p} : pr'[q] # Idle => ProcInv(q)'
  BY <1>5
<1>11. PICK r \in Maybe : r = NoRec
  BY DEF Maybe
<1>12. rec' = [rec EXCEPT ![j] = r] /\ UNCHANGED <<remote, file, staged, merges, told>> /\ txn' = txn
  BY <1>4, <1>11
<1>13. QED BY <1>3, <1>5, <1>6, <1>7, <1>8, <1>9, <1>10, <1>11, <1>12, SaveKeeps

LEMMA ReconcileStep ==
  ASSUME ChInv, NEW j \in ChJobs, reconcileRemovedJobChange(j)
  PROVE  ChInv'
<1>1. /\ VarTypes /\ rec[j] # NoRec /\ wsl = NoProc /\ pr' = pr /\ UNCHANGED locks
      /\ UNCHANGED <<remote, file, txn, staged, age, merges, torn, told>>
  BY DEF reconcileRemovedJobChange, ghosts, ChInv
<1>2. PICK r : r = [rec[j] EXCEPT !.terminal = TRUE]
  OBVIOUS
<1>3. rec' = [rec EXCEPT ![j] = r]
  BY <1>2 DEF reconcileRemovedJobChange
<1>4. Good(j, rec[j]) /\ JobInv(j)
  BY <1>1 DEF ChInv, JobInv
<1>5. r \in Record /\ r.applied = rec[j].applied /\ r.auto = rec[j].auto /\ r.pend = rec[j].pend
  BY <1>2, <1>4 DEF Good, Record
<1>6. Good(j, r) /\ r # NoRec /\ r \in Maybe /\ Updates(j, rec[j], r)
  BY <1>4, <1>5, NoRecApart DEF Good, Updates, Maybe
<1>7. txn[j] # "none" => r.pend
  BY <1>4, <1>5 DEF JobInv
<1>8. pr' \in Procs /\ OthersKept({}) /\ OneRun'
  BY <1>1 DEF ChInv, VarTypes, Procs, OthersKept, OneRun, Job
<1>9. LocksKept({})
  BY <1>1, SameLocks DEF locks
<1>10. \A q \in ChProcs \ {} : ~(wsl = q /\ xfer[j] = q)
  BY <1>1, Named
<1>11. torn' \in [ChJobs -> BOOLEAN] /\ \A i \in ChJobs : (torn[i] => torn'[i]) /\ (i # j => torn'[i] = torn[i])
  BY <1>1, SameTorn
<1>12. age' \in [ChJobs -> 0..2]
  BY <1>1 DEF VarTypes
<1>13. \A q \in ChProcs \cap {} : pr'[q] # Idle => ProcInv(q)'
  OBVIOUS
<1>14. UNCHANGED <<remote, file, staged, merges, told>> /\ txn' = txn
  BY <1>1
<1>15. QED BY <1>1, <1>3, <1>6, <1>7, <1>8, <1>9, <1>10, <1>11, <1>12, <1>13, <1>14, SaveKeeps

\* The second read: what was closed at the first probe and is open now was overwritten.
LEMMA InspectSteps ==
  ASSUME ChInv, NEW p \in ChProcs, InspectProbe(p) \/ InspectReload(p) \/ InspectVerdict(p)
  PROVE  ChInv'
<1>1. pr[p] # Idle /\ pr[p] \in Process /\ pr \in Procs /\ ProcInv(p) /\ VarTypes /\ pr[p].pc \in {"probe", "look_again", "probe_again"}
  <2>1. pr[p].pc \in {"probe", "look_again", "probe_again"}
    BY DEF InspectProbe, InspectReload, InspectVerdict, At
  <2>2. QED BY <2>1, ProcFacts DEF At, ChInv, VarTypes, Procs
<1>2. PICK j \in ChJobs : j = pr[p].job
  BY <1>1 DEF Process
<1>3. Asked(j)
  BY <1>1, <1>2 DEF ProcInv, LookInv, Job
<1>4. UNCHANGED <<wsl, xfer>> /\ UNCHANGED <<rec, remote, file, txn, staged, age, merges, torn>>
  BY DEF InspectProbe, InspectReload, InspectVerdict, locks, ghosts
<1>5. told' = told
  <2>1. CASE InspectVerdict(p)
    <3>1. pr[p].pc = "probe_again"
      BY <2>1 DEF InspectVerdict, At
    <3>2. pr[p].out = "closed" => torn[j]
      BY <1>1, <1>2, <3>1 DEF ProcInv, LookInv, Job
    <3>3. told = FALSE
      BY <1>1 DEF VarTypes
    <3>4. told' = (told \/ (~automaticApplyWorkerActive(j) /\ pr[p].out = "closed" /\ ~Undecided(j) /\ ~torn[j]))
      BY <1>2, <2>1 DEF InspectVerdict, Job
    <3>5. QED BY <3>2, <3>3, <3>4
  <2>2. CASE ~InspectVerdict(p)
    BY <2>2 DEF InspectProbe, InspectReload, ghosts
  <2>3. QED BY <2>1, <2>2
<1>6. UNCHANGED Data
  BY <1>4, <1>5 DEF Data
<1>7. CASE Stop(p)
  BY <1>4, <1>6, <1>7, StopKeeps
<1>8. CASE ~Stop(p)
  <2>1. PICK n \in Process : /\ pr' = [pr EXCEPT ![p] = n] /\ n.job = j
                  /\ \/ n.pc = "look_again" /\ n.out = (IF Undecided(j) THEN "open" ELSE "closed")
                     \/ n.pc = "probe_again" /\ pr[p].pc = "look_again" /\ n.out = pr[p].out /\ Undecided(j)
    <3>1. CASE InspectProbe(p)
      <4>1. PICK out \in {"open", "closed"} : out = IF Undecided(j) THEN "open" ELSE "closed"
        OBVIOUS
      <4>2. PICK n : n = [[pr[p] EXCEPT !.pc = "look_again"] EXCEPT !.out = out]
        OBVIOUS
      <4>3. n \in Process /\ n.job = j /\ n.pc = "look_again" /\ n.out = out
        <5>1. "look_again" \in Pcs
          BY DEF Pcs
        <5>2. QED BY <1>1, <1>2, <4>2, <5>1 DEF Process
      <4>4. pr' = [pr EXCEPT ![p].pc = "look_again", ![p].out = out]
        BY <1>2, <1>8, <3>1, <4>1 DEF InspectProbe, Job
      <4>5. pr' = [pr EXCEPT ![p] = n]
        BY <1>1, <4>2, <4>4 DEF Procs
      <4>6. QED BY <4>1, <4>3, <4>5
    <3>2. CASE InspectReload(p)
      <4>1. pr[p].pc = "look_again" /\ Undecided(j) /\ Go(p, "probe_again")
        BY <1>2, <1>8, <3>2 DEF InspectReload, At, Job
      <4>2. PICK n : n = [pr[p] EXCEPT !.pc = "probe_again"]
        OBVIOUS
      <4>3. n \in Process /\ n.job = j /\ n.pc = "probe_again" /\ n.out = pr[p].out
        <5>1. "probe_again" \in Pcs
          BY DEF Pcs
        <5>2. QED BY <1>1, <1>2, <4>2, <5>1 DEF Process
      <4>4. pr' = [pr EXCEPT ![p] = n]
        BY <1>1, <4>1, <4>2 DEF Go, Procs
      <4>5. QED BY <4>1, <4>3, <4>4
    <3>3. CASE InspectVerdict(p)
      BY <1>8, <3>3 DEF InspectVerdict
    <3>4. QED BY <3>1, <3>2, <3>3
  <2>2. pr' \in Procs /\ OthersKept({p}) /\ pr'[p] = n
    BY <1>1, <2>1, SpawnFacts
  <2>3. LocksKept({p}) /\ RunStays(p)
    BY <1>1, <1>4, <2>1, <2>2, SameLocks DEF RunStays
  <2>4. Asked(j)' /\ torn'[j] = torn[j] /\ Undecided(j)' = Undecided(j)
    BY <1>3, <1>4 DEF Asked, Undecided
  <2>5. LookInv(p)'
    <3>1. pr[p].pc = "look_again" /\ pr[p].out = "closed" => torn[j] \/ ~Undecided(j)
      BY <1>1, <1>2 DEF ProcInv, LookInv, Job
    <3>2. QED BY <2>1, <2>2, <2>4, <3>1 DEF LookInv, Job
  <2>6. ProcInv(p)'
    BY <2>1, <2>2, <2>5 DEF ProcInv, LockInv, CopyInv, RemoteInv, WorkInv, HoldsWorkspace, HoldsTransfer, Inside, Installing, Replays,
       Sessions, Applying, Fetching
  <2>7. QED BY <1>6, <2>2, <2>3, <2>6, QuietKeeps
<1>9. QED BY <1>7, <1>8

\* Neither the clock nor the user touches a record; an edit leaves no trace of the bundle where there was none.
LEMMA WorldSteps ==
  ASSUME ChInv, NEW j \in ChJobs, TimePasses(j) \/ UserEdits(j)
  PROVE  ChInv'
<1>1. VarTypes /\ UNCHANGED <<rec, remote, txn, staged, merges, torn, told>> /\ pr' = pr /\ UNCHANGED <<wsl, xfer>>
  BY DEF TimePasses, UserEdits, ghosts, locks, ChInv
<1>2. age' \in [ChJobs -> 0..2]
  <2>1. age \in [ChJobs -> 0..2]
    BY <1>1 DEF VarTypes
  <2>2. CASE TimePasses(j)
    <3>1. age[j] + 1 \in 0..2 /\ age' = [age EXCEPT ![j] = age[j] + 1]
      BY <2>1, <2>2 DEF TimePasses
    <3>2. QED BY <2>1, <3>1
  <2>3. CASE UserEdits(j)
    BY <2>1, <2>3 DEF UserEdits
  <2>4. QED BY <2>2, <2>3
<1>3. /\ file' \in [ChJobs -> {"base", "local", "remote", "merged", "later"}]
      /\ \A i \in ChJobs : file'[i] \in {"remote", "merged", "later"} => file[i] \in {"remote", "merged", "later"}
  <2>1. file \in [ChJobs -> {"base", "local", "remote", "merged", "later"}]
    BY <1>1 DEF VarTypes
  <2>2. CASE TimePasses(j)
    BY <2>1, <2>2 DEF TimePasses
  <2>3. CASE UserEdits(j)
    <3>1. PICK v \in {"local", "later"} : file' = [file EXCEPT ![j] = v] /\ (v = "later" => file[j] \notin {"base", "local"})
      BY <2>3 DEF UserEdits
    <3>2. QED BY <2>1, <3>1
  <2>4. QED BY <2>2, <2>3
<1>4. VarTypes' /\ OneRun'
  BY <1>1, <1>2, <1>3 DEF ChInv, VarTypes, OneRun, Job
<1>5. \A i \in ChJobs : JobInv(i)'
  BY <1>1, <1>3 DEF ChInv, JobInv, Good, Merges, Applied
<1>6. OthersKept({}) /\ LocksKept({})
  BY <1>1, SameLocks DEF OthersKept
<1>7. DataKept({})
  BY <1>1 DEF DataKept, Undecided, Asked, Applied
<1>8. Onward
  <2>1. \A i \in ChJobs : merges[i] \in Nat /\ merges'[i] = merges[i]
    BY <1>1 DEF VarTypes
  <2>2. \A i \in ChJobs : merges[i] <= merges'[i]
    BY <2>1
  <2>3. QED BY <1>1, <2>2 DEF Onward
<1>9. \A q \in ChProcs \cap {} : pr'[q] # Idle => ProcInv(q)'
  OBVIOUS
<1>10. QED BY <1>4, <1>5, <1>6, <1>7, <1>8, <1>9, StepKeeps

LEMMA KilledStep ==
  ASSUME ChInv, NEW p \in ChProcs, Killed(p)
  PROVE  ChInv'
<1>1. UNCHANGED Data
  BY DEF Killed, Data, ghosts
<1>2. QED BY <1>1, ExitKeeps DEF Killed

-----------------------------------------------------------------------------
(* The theorems                                                            *)

LEMMA ChInitHolds == ChInit => ChInv
<1>1. SUFFICES ASSUME ChInit PROVE ChInv
  OBVIOUS
<1>2. /\ rec = [j \in ChJobs |-> NoRec] /\ remote = [j \in ChJobs |-> "unsent"] /\ file = [j \in ChJobs |-> "base"]
      /\ txn = [j \in ChJobs |-> "none"] /\ staged = [j \in ChJobs |-> FALSE] /\ age = [j \in ChJobs |-> 0]
      /\ pr = [p \in ChProcs |-> Idle] /\ xfer = [j \in ChJobs |-> NoProc] /\ merges = [j \in ChJobs |-> 0]
      /\ torn = [j \in ChJobs |-> FALSE] /\ told = FALSE
  BY <1>1 DEF ChInit
<1>3. \A p \in ChProcs : pr[p] = Idle
  BY <1>2
<1>4. VarTypes
  <2>1. Idle \in Process \cup {Idle} /\ NoRec \in Maybe
    BY DEF Maybe
  <2>2. told = FALSE /\ merges \in [ChJobs -> Nat] /\ torn \in [ChJobs -> BOOLEAN] /\ staged \in [ChJobs -> BOOLEAN] /\ age \in [ChJobs -> 0..2]
    BY <1>2
  <2>3. QED BY <1>2, <2>1, <2>2 DEF VarTypes
<1>5. OneRun
  BY <1>3 DEF OneRun, Idle
<1>6. \A j \in ChJobs : JobInv(j)
  <2>1. TAKE j \in ChJobs
  <2>2. merges[j] = 0 /\ rec[j] = NoRec /\ txn[j] = "none" /\ file[j] = "base"
    BY <1>2
  <2>3. ~(merges[j] > 0) /\ merges[j] <= 1
    BY <2>2
  <2>4. QED BY <2>2, <2>3 DEF JobInv
<1>7. QED BY <1>3, <1>4, <1>5, <1>6 DEF ChInv

LEMMA RunStepKeeps ==
  ASSUME ChInv, NEW p \in ChProcs, RunStep(p)
  PROVE  ChInv'
BY MarkStep, SubmitSteps, LeaveStep, TransferSaveStep, HandoffStep, TerminalSteps, PollStep, AutoSteps, DecideStep, ReloadStep
   DEF RunStep

LEMMA FetchesKeep ==
  ASSUME ChInv, NEW p \in ChProcs, FetchStep(p)
  PROVE  ChInv'
BY FetchStepKeeps, RouteStep, SettleLoadStep, SettleSaveStep, DownloadStep, EnterStep, RecoverStep, VisitStep, ReplayStep,
   RecoveredCommitStep, RecoveredClearStep, ApplyStep, OpenStep, ApplyToWorkspaceStep, NoteStep, CommitStep, ClearStep, SessionStep,
   SessionSaveStep
   DEF FetchStep

LEMMA LooksKeep ==
  ASSUME ChInv, NEW p \in ChProcs, LookStep(p)
  PROVE  ChInv'
BY CollectStep, RemoveStep, InspectSteps DEF LookStep

LEMMA ChNextKeeps ==
  ASSUME ChInv, [ChNext]_chvars
  PROVE  ChInv'
<1>1. CASE \E p \in ChProcs : RunStep(p) \/ FetchStep(p) \/ LookStep(p) \/ Killed(p)
  BY <1>1, RunStepKeeps, FetchesKeep, LooksKeep, KilledStep
<1>2. CASE \E p \in ChProcs, j \in ChJobs :
             \/ initializeChangeState(p, j) \/ ChangeGC(p, j) \/ inspectAutomaticApply(p, j)
             \/ \E full \in BOOLEAN : StartFetch(p, j, full)
  <2>1. PICK p \in ChProcs, j \in ChJobs :
             \/ initializeChangeState(p, j) \/ ChangeGC(p, j) \/ inspectAutomaticApply(p, j)
             \/ \E full \in BOOLEAN : StartFetch(p, j, full)
    BY <1>2
  <2>2. CASE initializeChangeState(p, j)
    BY <2>2, InitializeStep
  <2>3. CASE ChangeGC(p, j) \/ inspectAutomaticApply(p, j) \/ \E full \in BOOLEAN : StartFetch(p, j, full)
    BY <2>3, BeginSteps
  <2>4. QED BY <2>1, <2>2, <2>3
<1>3. CASE \E j \in ChJobs : \/ reconcileRemovedJobChange(j) \/ RunnerEnds(j) \/ RunnerCollects(j)
                             \/ TimePasses(j) \/ UserEdits(j)
  BY <1>3, ReconcileStep, RunnerSteps, WorldSteps
<1>4. CASE UNCHANGED chvars
  BY <1>4 DEF chvars, ChInv, VarTypes, OneRun, JobInv, LockInv, CopyInv, RemoteInv, WorkInv, LookInv, Good, Merges, Applied, Asked,
     Undecided, Job
<1>5. QED BY <1>1, <1>2, <1>3, <1>4 DEF ChNext

\* The records, the transactions, the locks and what every process has read of them fit
\* together in every reachable state (change_state.go, changes.go, automatic_apply.go,
\* change_gc.go): the invariant the two theorems below rest on.
THEOREM ChInvariance == ChSpec => []ChInv
<1>1. ChInit => ChInv
  BY ChInitHolds
<1>2. ChInv /\ [ChNext]_chvars => ChInv'
  BY ChNextKeeps
<1>3. QED BY <1>1, <1>2, PTL DEF ChSpec

LEMMA ChInvSafe ==
  ASSUME ChInv
  PROVE  RecordsSafe /\ AppliedOnce
<1>1. ChTypeOK
  BY DEF ChInv, VarTypes, ChTypeOK, Maybe
<1>2. TransactionOwned /\ AppliedOnce
  BY DEF ChInv, JobInv, TransactionOwned, AppliedOnce
<1>3. StagedKept
  BY DEF ChInv, WorkInv, StagedKept, Inside, Installing, Idle
<1>4. AppliedTruth
  BY DEF ChInv, JobInv, Good, Merges, AppliedTruth
<1>5. InspectionTruthful
  BY DEF ChInv, VarTypes, InspectionTruthful
<1>6. QED BY <1>1, <1>2, <1>3, <1>4, <1>5 DEF RecordsSafe, ChangesSafe

\* For any number of jobs and client processes, however they are killed: a transaction in
\* the workspace is named by its job's record, which collectLocalChangeLocked then leaves
\* alone, no bundle goes before it is installed, a record tells the truth, and
\* inspectAutomaticApply reports needs_recovery only of an apply nobody was finishing.
THEOREM RecordsHold == ChSpec => []RecordsSafe
<1>1. ChInv => RecordsSafe
  BY ChInvSafe
<1>2. QED BY <1>1, ChInvariance, PTL

\* For any number of jobs, client processes, crashes and retries: applyChangeBundle and
\* applyWorkspaceJob merge a bundle at most once, unless a save of an older copy has
\* overwritten the record that said so.
THEOREM BundleAppliedOnce == ChSpec => []AppliedOnce
<1>1. ChInv => AppliedOnce
  BY ChInvSafe
<1>2. QED BY <1>1, ChInvariance, PTL
=============================================================================
