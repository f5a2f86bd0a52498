-------------------------- MODULE CloudLeaseProofs --------------------------
(***************************************************************************)
(* Proofs about a cloud peer: its broker (LeaseBroker), its provider       *)
(* (LambdaProvider), and the two put together (CloudLease).                *)
(***************************************************************************)
EXTENDS CloudLease, FiniteSetTheorems, SequenceTheorems, WellFoundedInduction, TLAPS

(***************************************************************************)
(* Proofs about LeaseBroker: for any number of runs, leases, crashes and   *)
(* failed writes, no machine is forgotten, none is handed out that is      *)
(* gone, and max_leases bounds what is paid for.                           *)
(*                                                                         *)
(* What requests a lease has matters to none of it, so the invariant does  *)
(* not speak of them: a record is a function on Fields with a state.       *)
(***************************************************************************)

Fields == {"state", "requests", "created"}

IsRecord(r) == DOMAIN r = Fields /\ r.state \in States /\ r.created \in Nat

Shape ==
    /\ up \in BOOLEAN /\ made \in 0 .. Made /\ now \in Nat
    /\ lastBusy \in [Leases -> Int]
    /\ mem = [l \in Leases |-> mem[l]] /\ disk = [l \in Leases |-> disk[l]]
    /\ \A l \in Leases : IsRecord(mem[l]) /\ IsRecord(disk[l])
    /\ checkFailed \in [Leases -> BOOLEAN]
    /\ pc \in [Leases -> Places]
    /\ machine \in [Leases -> {"none", "running", "gone"}]

Launching == {"acquire", "waitready", "failed"}
Watching  == {"watch", "probe", "decide", "sleep"}

\* Where the worker of a lease can be, given the state it works on: a request may
\* only turn the lease to releasing behind its back.
WorkerInv(l) ==
    /\ mem[l].state = "none" => pc[l] = "off"
    /\ mem[l].state = "ended" => pc[l] \in {"top", "off"}
    /\ mem[l].state = "launching" => pc[l] \in {"top"} \cup Launching
    /\ mem[l].state = "ready" => pc[l] \in {"top"} \cup Watching
    /\ pc[l] = "waitready" => machine[l] = "running"

\* What is recorded of a machine, in memory and on disk.
RecordInv(l) ==
    /\ ~up => mem[l].state = "none"
    /\ l > made => /\ mem[l].state = "none" /\ disk[l].state = "none"
                   /\ machine[l] = "none"
    /\ machine[l] = "running" => Active(disk[l]) /\ (up => Active(mem[l]))
    /\ Active(mem[l]) => Active(disk[l])
    /\ mem[l].state = "ready" => machine[l] = "running" \/ checkFailed[l]

LeaseInv == \A l \in Leases : WorkerInv(l) /\ RecordInv(l)

\* The leases that cost money or may still do so.
Pays(l) == machine[l] = "running" \/ mem[l].state = "launching" \/ pc[l] = "acquire"
Paid    == {l \in Leases : Pays(l)}

IndInv == Shape /\ LeaseInv /\ Cardinality(Paid) <= MaxLeases

----------------------------------------------------------------------------
\* persist, update and advance change one record to r, or leave it.
Written(l, r) ==
    /\ mem' = [k \in Leases |-> mem'[k]] /\ disk' = [k \in Leases |-> disk'[k]]
    /\ \A k \in Leases \ {l} : mem'[k] = mem[k] /\ disk'[k] = disk[k]
    /\ mem'[l] \in {mem[l], r} /\ disk'[l] \in {disk[l], r}

\* update: memory takes the record only when it was written.
LEMMA UpdateWrites ==
    ASSUME Shape, NEW l \in Leases, NEW r, NEW w \in Outcomes, Update(l, r, w)
    PROVE  /\ Written(l, r)
           /\ mem'[l] = r => disk'[l] = r \/ mem[l] = r
           /\ w = "ok" => mem'[l] = r /\ disk'[l] = r
           /\ w # "ok" => mem'[l] = mem[l]
BY DEF Shape, Update, Persist, Written, Outcomes

\* advance: memory takes the record whether it was written or not.
LEMMA AdvanceWrites ==
    ASSUME Shape, NEW l \in Leases, NEW r, NEW w \in Outcomes, Advance(l, r, w)
    PROVE  Written(l, r) /\ mem'[l] = r
BY DEF Shape, Advance, Persist, Written, Outcomes

\* A change of state leaves a record a record.
LEMMA StateChange ==
    ASSUME NEW r, IsRecord(r), NEW s \in States
    PROVE  LET t == [r EXCEPT !.state = s] IN IsRecord(t) /\ t.state = s
BY DEF IsRecord, Fields, States

\* A change of the requests leaves the state alone.
LEMMA RequestsChange ==
    ASSUME NEW r, IsRecord(r), NEW q
    PROVE  LET t == [r EXCEPT !.requests = q] IN IsRecord(t) /\ t.state = r.state
BY DEF IsRecord, Fields, States

\* Newest finds the latest lease of a set.
LEMMA NewestIn ==
    ASSUME NEW S \in SUBSET Leases, S # {}
    PROVE  Newest(S) \in S
<1>1. Made \in Nat /\ \A l \in S : l \in 1 .. Made
  BY BrokerAssumption DEF Leases
<1> DEFINE T == {Made - l : l \in S}
<1>2. T \subseteq Nat /\ T # {}
  BY <1>1
<1> HIDE DEF T
<1>3. PICK x \in T : \A y \in T : ~ (<<y, x>> \in OpToRel(<, Nat))
  BY <1>2, WFMin, NatLessThanWellFounded
<1>4. \A y \in T : ~ (y < x)
  BY <1>2, <1>3 DEF OpToRel
<1>5. PICK l \in S : x = Made - l
  BY DEF T
<1>6. ASSUME NEW k \in S PROVE k <= l
  <2>1. Made - k \in T
    BY DEF T
  <2>2. ~ (Made - k < Made - l)
    BY <1>4, <1>5, <2>1
  <2>. QED BY <1>1, <2>2
<1>. QED BY <1>6 DEF Newest

----------------------------------------------------------------------------
\* A step that works on lease l leaves the others alone.
Only(l) ==
    /\ up' = up /\ made' \in made .. Made /\ now' \in Nat
    /\ lastBusy' \in [Leases -> Int]
    /\ checkFailed' \in [Leases -> BOOLEAN] /\ pc' \in [Leases -> Places]
    /\ machine' \in [Leases -> {"none", "running", "gone"}]
    /\ \A k \in Leases \ {l} : /\ checkFailed'[k] = checkFailed[k] /\ pc'[k] = pc[k]
                              /\ machine'[k] = machine[k]

Moves(l) == mem[l].state # "none" /\ mem'[l].state # "none"
               => CanMove(mem[l].state, mem'[l].state)

\* A lease that becomes ready begins an idle window.
Readied(l) == mem'[l].state = "ready" => mem[l].state = "ready" \/ lastBusy'[l] = now

\* What a step has to do to lease l.
Good(l) == WorkerInv(l)' /\ RecordInv(l)' /\ Moves(l) /\ Readied(l)

\* What a step does to all of them.
Kept == Shape' /\ LeaseInv' /\ \A l \in Leases : Moves(l) /\ Readied(l)

NoNewCost == \A l \in Leases : Pays(l)' => Pays(l)

\* If lease l fares well in a step that leaves the others alone, all do.
LEMMA Frame ==
    ASSUME Shape, LeaseInv, NEW l \in Leases, NEW r, IsRecord(r),
           Only(l), Written(l, r), Good(l)
    PROVE  Kept /\ ((Pays(l)' => Pays(l)) => NoNewCost)
<1>1. ASSUME NEW k \in Leases PROVE IsRecord(mem'[k]) /\ IsRecord(disk'[k])
  <2>1. CASE k = l  BY <2>1 DEF Written, Shape
  <2>2. CASE k # l  BY <2>2 DEF Written, Shape
  <2>. QED BY <2>1, <2>2
<1>2. Shape'
  BY <1>1, BrokerAssumption DEF Shape, Written, Only
<1>3. ASSUME NEW k \in Leases, k # l PROVE WorkerInv(k)' /\ RecordInv(k)' /\ Moves(k) /\ Readied(k)
  <2>1. made' >= made /\ made \in Int /\ made' \in Int /\ k \in Int
    BY BrokerAssumption DEF Only, Shape, Leases
  <2>. QED BY <1>3, <2>1 DEF LeaseInv, WorkerInv, RecordInv, Written, Only, Active, Moves,
     Readied, CanMove
<1>4. ASSUME NEW k \in Leases, k # l PROVE Pays(k)' => Pays(k)
  BY <1>4 DEF Pays, Written, Only
<1>. QED BY <1>2, <1>3, <1>4 DEF LeaseInv, Good, Kept, NoNewCost

\* The steps that write no record.
Quiet(l) == \/ WorkNext(l) \/ CreateMachine(l) \/ LaunchCut(l) \/ Watch(l) \/ Probed(l)
            \/ WakeUp(l) \/ ReleaseRetry(l) \/ Admit(l)

\* A machine is created only for a lease that is recorded, and one that is gone
\* fails its check.
LEMMA QuietStep ==
    ASSUME Shape, LeaseInv, NEW l \in Leases, Quiet(l)
    PROVE  Kept /\ NoNewCost
<1> USE DEF WorkNext, CreateMachine, LaunchCut, Watch, Probed, WakeUp, ReleaseRetry, Admit, Goto,
            WaitFor, Unwritten, leaseVars, soft, worker, bounds
<1>1. UNCHANGED <<mem, disk, up, made, now>>
  BY DEF Quiet
<1>2. Only(l)
  BY <1>1, BrokerAssumption DEF Quiet, Only, Shape, Places
<1>3. Written(l, mem[l])
  BY <1>1 DEF Written, Shape
<1>4. Good(l) /\ (Pays(l)' => Pays(l))
  BY <1>1 DEF Quiet, Good, Moves, Readied, CanMove, Pays, LeaseInv, WorkerInv, RecordInv, Active,
              Launching, Watching, Shape, IsRecord, States, Places
<1>. QED BY <1>2, <1>3, <1>4, Frame DEF Shape

\* A lease becomes ready with its machine running, unless it was released.
LEMMA LaunchReadyStep ==
    ASSUME Shape, LeaseInv, NEW l \in Leases, LaunchReady(l)
    PROVE  Kept /\ NoNewCost
<1> DEFINE r == [mem[l] EXCEPT !.state = "ready"]
<1>1. IsRecord(r) /\ r.state = "ready"
  BY StateChange DEF Shape, States
<1>2. Only(l) /\ pc[l] = "waitready" /\ UNCHANGED <<machine, checkFailed, up, made>>
  BY BrokerAssumption DEF LaunchReady, Only, Shape, Goto, WaitFor, Places, bounds, soft
<1>3. \/ /\ mem[l].state = "launching" /\ Written(l, r)
         /\ \/ mem'[l] = r /\ disk'[l] = r /\ pc'[l] = "top" /\ lastBusy'[l] = now
            \/ mem'[l] = mem[l] /\ pc'[l] = "failed"
      \/ UNCHANGED <<mem, disk>> /\ mem[l].state # "launching" /\ pc'[l] = "top"
  <2>1. CASE mem[l].state = "launching"
    <3>1. PICK w \in Outcomes :
            /\ Update(l, r, w) /\ Goto(l, IF w = "ok" THEN "top" ELSE "failed")
            /\ lastBusy' = IF w = "ok" THEN [lastBusy EXCEPT ![l] = now] ELSE lastBusy
      BY <2>1 DEF LaunchReady
    <3>2. /\ pc'[l] = IF w = "ok" THEN "top" ELSE "failed"
          /\ w = "ok" => lastBusy'[l] = now
      BY <3>1 DEF Goto, Shape
    <3>. QED BY <2>1, <3>1, <3>2, UpdateWrites
  <2>. QED BY <2>1 DEF LaunchReady, Unwritten, Goto, Shape
<1>4. Written(l, r)
  BY <1>3 DEF Written, Shape
<1>5. Good(l) /\ (Pays(l)' => Pays(l))
  BY <1>1, <1>2, <1>3, <1>4 DEF Good, Moves, Readied, CanMove, Pays, Written, LeaseInv,
     WorkerInv, RecordInv, Active, Launching, Watching, Shape, IsRecord, States
<1>. QED BY <1>1, <1>2, <1>4, <1>5, Frame

\* A failed launch is released, whether or not that could be written.
LEMMA LaunchFailedStep ==
    ASSUME Shape, LeaseInv, NEW l \in Leases, LaunchFailed(l)
    PROVE  Kept /\ NoNewCost
<1> DEFINE r == [mem[l] EXCEPT !.state = "releasing"]
<1>1. IsRecord(r) /\ r.state = "releasing"
  BY StateChange DEF Shape, States
<1>2. Only(l) /\ pc[l] = "failed" /\ UNCHANGED <<machine, checkFailed, up, made>>
  BY BrokerAssumption DEF LaunchFailed, Only, Shape, Goto, WaitFor, Places, bounds, soft
<1>3. /\ \/ mem[l].state = "launching" /\ Written(l, r) /\ mem'[l] = r
         \/ UNCHANGED <<mem, disk>> /\ mem[l].state # "launching"
      /\ pc'[l] = "top"
  <2>1. CASE mem[l].state = "launching"
    <3>1. PICK w \in Outcomes : Advance(l, r, w)
      BY <2>1 DEF LaunchFailed
    <3>. QED BY <2>1, <3>1, AdvanceWrites DEF LaunchFailed, Goto, Shape
  <2>. QED BY <2>1 DEF LaunchFailed, Unwritten, Goto, Shape
<1>4. Written(l, r)
  BY <1>3 DEF Written, Shape
<1>5. Good(l) /\ (Pays(l)' => Pays(l))
  BY <1>1, <1>2, <1>3, <1>4 DEF Good, Moves, Readied, CanMove, Pays, Written, LeaseInv,
     WorkerInv, RecordInv, Active, Launching, Watching, Shape, IsRecord, States
<1>. QED BY <1>1, <1>2, <1>4, <1>5, Frame

\* The idle decision releases a ready lease once that is written.
LEMMA DecideStep ==
    ASSUME Shape, LeaseInv, NEW l \in Leases, Decide(l)
    PROVE  Kept /\ NoNewCost
<1> DEFINE r == [mem[l] EXCEPT !.state = "releasing"]
<1>1. IsRecord(r) /\ r.state = "releasing"
  BY StateChange DEF Shape, States
<1>2. Only(l) /\ pc[l] = "decide" /\ UNCHANGED <<machine, checkFailed, up, made>>
  BY BrokerAssumption DEF Decide, Only, Shape, Goto, WaitFor, Places, bounds, soft
<1>3. \/ /\ mem[l].state = "ready" /\ Written(l, r)
         /\ \/ mem'[l] = r /\ disk'[l] = r /\ pc'[l] = "top"
            \/ mem'[l] = mem[l] /\ pc'[l] = "sleep"
      \/ UNCHANGED <<mem, disk>> /\ pc'[l] = "sleep"
  <2>1. CASE mem[l].state = "ready" /\ Releasable(l)
    <3>1. PICK w \in Outcomes :
            /\ Update(l, r, w)
            /\ IF w = "ok" THEN Goto(l, "top") ELSE Goto(l, "sleep")
      BY <2>1 DEF Decide, WaitFor
    <3>2. pc'[l] = IF w = "ok" THEN "top" ELSE "sleep"
      BY <3>1 DEF Goto, Shape
    <3>. QED BY <2>1, <3>1, <3>2, UpdateWrites
  <2>. QED BY <2>1 DEF Decide, Unwritten, WaitFor, Goto, Shape
<1>4. Written(l, r)
  BY <1>3 DEF Written, Shape
<1>5. Good(l) /\ (Pays(l)' => Pays(l))
  BY <1>1, <1>2, <1>3, <1>4 DEF Good, Moves, Readied, CanMove, Pays, Written, LeaseInv,
     WorkerInv, RecordInv, Active, Launching, Watching, Shape, IsRecord, States
<1>. QED BY <1>1, <1>2, <1>4, <1>5, Frame

\* A lease ends only when its machine is gone.
LEMMA ReleasedStep ==
    ASSUME Shape, LeaseInv, NEW l \in Leases, Released(l)
    PROVE  Kept /\ NoNewCost
<1> DEFINE r == [mem[l] EXCEPT !.state = "ended"]
<1>1. IsRecord(r) /\ r.state = "ended"
  BY StateChange DEF Shape, States
<1>2. /\ Only(l) /\ UNCHANGED <<checkFailed, up, made>>
      /\ pc[l] = "release" /\ pc'[l] = "top" /\ machine'[l] # "running"
  BY BrokerAssumption DEF Released, Only, Shape, Goto, Places, bounds, soft
<1>3. Written(l, r) /\ mem'[l] = r
  BY AdvanceWrites DEF Released
<1>4. mem[l].state = "releasing"
  BY <1>2 DEF LeaseInv, WorkerInv, Shape, IsRecord, States, Launching, Watching
<1>5. Good(l) /\ (Pays(l)' => Pays(l))
  BY <1>1, <1>2, <1>3, <1>4 DEF Good, Moves, Readied, CanMove, Pays, Written, LeaseInv,
     WorkerInv, RecordInv, Active, Launching, Watching, Shape, IsRecord, States
<1>. QED BY <1>1, <1>2, <1>3, <1>5, Frame

\* Recording the machine changes no state.
LEMMA AcquireDoneStep ==
    ASSUME Shape, LeaseInv, NEW l \in Leases, AcquireDone(l)
    PROVE  Kept /\ NoNewCost
<1>1. /\ Only(l) /\ UNCHANGED <<machine, checkFailed, up, made>>
      /\ pc[l] = "acquire" /\ machine[l] = "running" /\ pc'[l] \in {"waitready", "failed"}
  BY BrokerAssumption DEF AcquireDone, Only, Shape, Goto, Places, bounds, soft
<1>2. Written(l, mem[l])
  BY UpdateWrites DEF AcquireDone
<1>3. Good(l) /\ (Pays(l)' => Pays(l))
  BY <1>1, <1>2 DEF Good, Moves, Readied, CanMove, Pays, Written, LeaseInv, WorkerInv, RecordInv,
     Active, Launching, Watching, Shape, IsRecord, States
<1>. QED BY <1>1, <1>2, <1>3, Frame DEF Shape

\* A progress line writes what memory has.
LEMMA NoteStep ==
    ASSUME Shape, LeaseInv, NEW l \in Leases, Note(l)
    PROVE  Kept /\ NoNewCost
<1>1. Only(l) /\ UNCHANGED <<machine, checkFailed, up, made>> /\ UNCHANGED pc
  BY BrokerAssumption DEF Note, Only, Shape, worker, bounds, soft
<1>2. Written(l, mem[l])
  BY DEF Note, Written, Shape
<1>3. Good(l) /\ (Pays(l)' => Pays(l))
  BY <1>1, <1>2 DEF Note, Good, Moves, Readied, CanMove, Pays, Written, LeaseInv, WorkerInv,
     RecordInv, Active, Launching, Watching, Shape, IsRecord, States
<1>. QED BY <1>1, <1>2, <1>3, Frame DEF Shape

\* A forgotten lease has no machine.
LEMMA PruneStep ==
    ASSUME Shape, LeaseInv, NEW l \in Leases, Prune(l)
    PROVE  Kept /\ NoNewCost
<1>1. IsRecord(NoLease) /\ NoLease.state = "none"
  BY DEF IsRecord, NoLease, Fields, States
<1>2. Only(l) /\ UNCHANGED <<machine, checkFailed, up, made>> /\ UNCHANGED pc
  BY BrokerAssumption DEF Prune, Only, Shape, worker, bounds, soft
<1>3. Written(l, NoLease) /\ mem'[l] = NoLease /\ disk'[l] = NoLease
  BY DEF Prune, Written, Shape
<1>4. Good(l) /\ (Pays(l)' => Pays(l))
  BY <1>1, <1>2, <1>3 DEF Prune, Good, Moves, Readied, CanMove, Pays, Written, LeaseInv,
     WorkerInv, RecordInv, Active, Launching, Watching, Shape, IsRecord, States
<1>. QED BY <1>1, <1>2, <1>3, <1>4, Frame

\* The owner releases a lease.
LEMMA ReleaseStep ==
    ASSUME Shape, LeaseInv, NEW l \in Leases, Release(l)
    PROVE  Kept /\ NoNewCost
<1> DEFINE r == [mem[l] EXCEPT !.state = "releasing"]
<1>1. IsRecord(r) /\ r.state = "releasing"
  BY StateChange DEF Shape, States
<1>2. Only(l) /\ UNCHANGED <<machine, checkFailed, up, made>> /\ UNCHANGED pc
  BY BrokerAssumption DEF Release, Only, Shape, worker, bounds, soft
<1>3. Written(l, r) /\ mem[l].state \in {"launching", "ready"}
  BY UpdateWrites DEF Release
<1>4. Good(l) /\ (Pays(l)' => Pays(l))
  BY <1>1, <1>2, <1>3 DEF Good, Moves, Readied, CanMove, Pays, Written, LeaseInv, WorkerInv,
     RecordInv, Active, Launching, Watching, Shape, IsRecord, States
<1>. QED BY <1>1, <1>2, <1>3, <1>4, Frame

\* Sharing changes no state.
LEMMA ShareStep ==
    ASSUME Shape, LeaseInv, NEW q \in Requests, Share(q)
    PROVE  Kept /\ NoNewCost
<1>1. PICK l \in Leases : l = Newest(Shareable)
  BY NewestIn DEF Share, Shareable
<1> DEFINE all == Append(mem[l].requests, q)
<1> DEFINE handed == IF mem[l].state = "ready" /\ Len(all) > MaxRequests THEN Tail(all) ELSE all
<1> DEFINE r == [mem[l] EXCEPT !.requests = handed]
<1>2. PICK w \in Outcomes : Update(l, r, w)
  BY <1>1 DEF Share
<1> HIDE DEF handed
<1>3. IsRecord(r) /\ r.state = mem[l].state
  BY <1>1, RequestsChange DEF Shape, States
<1> HIDE DEF r
<1>4. Only(l) /\ UNCHANGED <<machine, checkFailed, up, made>> /\ UNCHANGED pc
  BY <1>1, BrokerAssumption DEF Share, Only, Shape, worker, bounds
<1>5. Written(l, r) /\ (mem'[l] = r => disk'[l] = r \/ mem[l] = r)
  BY <1>1, <1>2, UpdateWrites
<1>6. mem'[l].state = mem[l].state /\ disk'[l].state \in {disk[l].state, mem[l].state}
  BY <1>3, <1>5 DEF Written
<1>7. Active(mem[l]) /\ up
  BY <1>1, NewestIn DEF Share, Asks, Shareable, Active
<1>8. WorkerInv(l) /\ RecordInv(l)
  BY <1>1 DEF LeaseInv
<1>9. Good(l) /\ (Pays(l)' => Pays(l))
  BY <1>4, <1>6, <1>7, <1>8 DEF Good, Moves, Readied, CanMove, Pays, WorkerInv, RecordInv,
     Active, Launching, Watching
<1>. QED BY <1>1, <1>3, <1>4, <1>5, <1>9, Frame

\* A withdrawal releases a launching lease nobody waits for.
LEMMA WithdrawHandedStep ==
    ASSUME Shape, LeaseInv, NEW q \in Requests, NEW l \in Leases, WithdrawHanded(q, l)
    PROVE  Kept /\ NoNewCost
<1> DEFINE left == RemoveFirst(mem[l].requests, q)
<1> DEFINE s == IF left = <<>> THEN "releasing" ELSE mem[l].state
<1> DEFINE r == [mem[l] EXCEPT !.requests = left, !.state = s]
<1>1. UNCHANGED <<machine, checkFailed, up, made>> /\ UNCHANGED <<pc, lastBusy, now>>
  BY Zenon DEF WithdrawHanded, worker, bounds, soft
<1>2. Only(l)
  BY <1>1, BrokerAssumption DEF Only, Shape
<1>3. CASE mem[l].state # "launching"
  <2>1. UNCHANGED <<mem, disk>>
    BY <1>3 DEF WithdrawHanded, Unwritten
  <2>2. Written(l, mem[l])
    BY <2>1 DEF Written, Shape
  <2>3. Good(l) /\ (Pays(l)' => Pays(l))
    BY <1>1, <2>1 DEF Good, Moves, Readied, CanMove, Pays, Written, LeaseInv, WorkerInv,
       RecordInv, Active, Launching, Watching, Shape, IsRecord, States
  <2>. QED BY <1>2, <2>2, <2>3, Frame DEF Shape
<1>4. CASE mem[l].state = "launching"
  <2>1. PICK w \in Outcomes : Update(l, r, w)
    BY <1>4 DEF WithdrawHanded
  <2> HIDE DEF left
  <2>2. s \in {"launching", "releasing"}
    BY <1>4
  <2>3. IsRecord(r) /\ r.state = s
    <3>1. IsRecord(mem[l]) /\ s \in States
      BY <2>2 DEF Shape, States
    <3> HIDE DEF s
    <3>. QED BY <3>1 DEF IsRecord, Fields, States
  <2> HIDE DEF r
  <2>4. Written(l, r) /\ (mem'[l] = r => disk'[l] = r \/ mem[l] = r)
    BY <2>1, UpdateWrites
  <2>5. /\ mem'[l].state \in {"launching", "releasing"}
        /\ disk'[l].state \in {disk[l].state, "launching", "releasing"}
    BY <1>4, <2>2, <2>3, <2>4 DEF Written
  <2>6. Good(l) /\ (Pays(l)' => Pays(l))
    BY <1>1, <1>4, <2>5 DEF Good, Moves, Readied, CanMove, Pays, LeaseInv, WorkerInv, RecordInv,
       Active, Launching, Watching, Shape, IsRecord, States
  <2>. QED BY <1>2, <2>3, <2>4, <2>6, Frame
<1>. QED BY <1>3, <1>4

\* A new lease is the only one that may cost more.
LEMMA LaunchLeaseStep ==
    ASSUME Shape, LeaseInv, NEW q \in Requests, LaunchLease(q)
    PROVE  Kept /\ ~AtLimit /\ up /\ \A l \in Leases : Pays(l)' => Pays(l) \/ l = made + 1
<1>a. Made \in Nat /\ made \in 0 .. Made /\ made < Made /\ made' = made + 1
  BY BrokerAssumption, Zenon DEF LaunchLease, Shape
<1>1. PICK l \in Leases : l = made + 1
  BY <1>a DEF Leases
<1> DEFINE r == [NoLease EXCEPT !.state = "launching", !.requests = <<q>>, !.created = now]
<1>2. l \in Leases /\ made' = l /\ l > made /\ ~ (l > made')
  BY <1>1, <1>a
<1>3. PICK w \in Outcomes : /\ Update(l, r, w)
                            /\ pc' = IF w = "ok" THEN [pc EXCEPT ![l] = "top"] ELSE pc
  BY <1>1 DEF LaunchLease
<1>4. IsRecord(r) /\ r.state = "launching"
  BY DEF IsRecord, NoLease, Fields, States, Shape
<1>5. Only(l) /\ UNCHANGED <<machine, checkFailed, up>> /\ up
  BY <1>2, <1>3, BrokerAssumption DEF LaunchLease, Asks, Only, Shape, Places, soft
<1> HIDE DEF r
<1>6. /\ Written(l, r) /\ (w = "ok" => mem'[l] = r /\ disk'[l] = r)
      /\ (w # "ok" => mem'[l] = mem[l])
  BY <1>2, <1>3, UpdateWrites
<1>7. pc'[l] = IF w = "ok" THEN "top" ELSE pc[l]
  BY <1>2, <1>3 DEF Shape
<1>8. /\ mem[l].state = "none" /\ disk[l].state = "none" /\ machine[l] = "none"
      /\ pc[l] = "off"
  BY <1>2 DEF LeaseInv, WorkerInv, RecordInv
<1>9. /\ WorkerInv(l) /\ mem'[l].state = IF w = "ok" THEN "launching" ELSE "none"
      /\ disk'[l].state \in {"none", "launching"} /\ (w = "ok" => disk'[l].state = "launching")
  BY <1>2, <1>4, <1>6, <1>8 DEF LeaseInv, Written
<1>10. Good(l)
  BY <1>2, <1>5, <1>7, <1>8, <1>9 DEF Good, Moves, Readied, CanMove, Pays, WorkerInv, RecordInv,
     Active, Launching, Watching
<1>11. Kept
  BY <1>2, <1>4, <1>5, <1>6, <1>10, Frame
<1>12. ASSUME NEW k \in Leases, k # l PROVE Pays(k)' => Pays(k)
  BY <1>5, <1>6, <1>12 DEF Pays, Only, Written
<1>13. ~AtLimit /\ up
  BY DEF LaunchLease, Asks
<1>. QED BY <1>1, <1>11, <1>12, <1>13

\* A crash forgets what memory has, and the disk keeps it.
LEMMA CrashStep ==
    ASSUME Shape, LeaseInv, Crash
    PROVE  Kept /\ NoNewCost
<1>1. IsRecord(NoLease) /\ NoLease.state = "none"
  BY DEF IsRecord, NoLease, Fields, States
<1>2. Shape'
  <2>1. lastBusy' \in [Leases -> Int] /\ checkFailed' \in [Leases -> BOOLEAN]
    BY DEF Crash
  <2>2. pc' \in [Leases -> Places] /\ up' \in BOOLEAN
    BY DEF Crash, Places
  <2>3. /\ mem' = [l \in Leases |-> NoLease] /\ \A l \in Leases : mem'[l] = NoLease
        /\ UNCHANGED <<disk, machine, made, now>>
    BY DEF Crash
  <2>. QED BY <1>1, <2>1, <2>2, <2>3 DEF Shape
<1>3. ASSUME NEW l \in Leases PROVE Good(l) /\ (Pays(l)' => Pays(l))
  <2>1. /\ mem'[l] = NoLease /\ disk'[l] = disk[l] /\ pc'[l] = "off" /\ ~up'
        /\ UNCHANGED <<machine, made>>
    BY DEF Crash
  <2>. QED BY <1>1, <2>1 DEF Good, Moves, Readied, CanMove, Pays, Written, LeaseInv, WorkerInv,
     RecordInv, Active, Launching, Watching, Shape, IsRecord, States
<1>. QED BY <1>2, <1>3 DEF Kept, NoNewCost, LeaseInv, Good

\* A restart takes every recorded lease up again.
LEMMA RestartStep ==
    ASSUME Shape, LeaseInv, Restart
    PROVE  Kept /\ NoNewCost
<1>1. ASSUME NEW l \in Leases
      PROVE  /\ IsRecord(Interrupted(disk[l]))
             /\ Interrupted(disk[l]).state =
                  IF disk[l].state = "launching" THEN "releasing" ELSE disk[l].state
  <2>1. IsRecord(disk[l]) /\ "releasing" \in States
    BY DEF Shape, States
  <2>. QED BY <2>1, StateChange DEF Interrupted
<1>2. Shape'
  BY <1>1 DEF Restart, Shape, Places, bounds
<1>3. ASSUME NEW l \in Leases PROVE Good(l) /\ (Pays(l)' => Pays(l))
  <2>1. /\ mem'[l] = disk'[l] /\ disk'[l] = Interrupted(disk[l])
        /\ pc'[l] = IF Active(disk[l]) THEN "top" ELSE "off"
        /\ checkFailed'[l] = (disk[l].state = "ready")
        /\ lastBusy'[l] = IF disk[l].state = "ready" THEN now ELSE 0
        /\ ~up /\ up' /\ UNCHANGED <<machine, made>>
    BY DEF Restart, bounds
  <2>2. WorkerInv(l) /\ RecordInv(l)
    BY DEF LeaseInv
  <2>3. mem'[l].state = disk'[l].state /\
        disk'[l].state = IF disk[l].state = "launching" THEN "releasing" ELSE disk[l].state
    BY <1>1, <2>1
  <2>4. disk[l].state \in States
    BY DEF Shape, IsRecord
  <2>. QED BY <2>1, <2>2, <2>3, <2>4 DEF Good, Moves, Readied, CanMove, Pays, WorkerInv,
     RecordInv, Active, Launching, Watching, States
<1>. QED BY <1>2, <1>3 DEF Kept, NoNewCost, LeaseInv, Good

\* A step that changes nothing of a lease.
LEMMA IdleStep ==
    ASSUME Shape, LeaseInv, UNCHANGED <<up, made, mem, disk, checkFailed, lastBusy, pc, machine>>,
           now' \in Nat
    PROVE  Kept /\ NoNewCost
BY DEF Kept, NoNewCost, Moves, Readied, CanMove, Pays, Shape, LeaseInv, WorkerInv, RecordInv,
     Active

----------------------------------------------------------------------------
\* Every step other than the making of a lease costs nothing new.
LEMMA Step ==
    ASSUME Shape, LeaseInv, [Next]_vars
    PROVE  Kept /\ (NoNewCost \/ \E q \in Requests : LaunchLease(q))
<1>1. CASE UNCHANGED vars
  BY <1>1, IdleStep DEF Shape, vars, leaseVars, soft, worker, bounds
<1>2. ASSUME NEW q \in Requests, Run(q)
      PROVE  Kept /\ (NoNewCost \/ LaunchLease(q))
  <2>1. CASE AskAgain(q)
    BY <2>1, IdleStep DEF AskAgain, Shape, leaseVars, soft, worker, bounds
  <2>2. CASE WithdrawUnknown(q)
    BY <2>2, IdleStep DEF WithdrawUnknown, Shape, leaseVars, soft, worker, bounds
  <2>3. CASE Share(q)  BY <2>3, ShareStep
  <2>4. CASE LaunchLease(q)  BY <2>4, LaunchLeaseStep
  <2>5. CASE \E l \in Leases : WithdrawHanded(q, l)  BY <2>5, WithdrawHandedStep
  <2>. QED BY <1>2, <2>1, <2>2, <2>3, <2>4, <2>5 DEF Run
<1>3. ASSUME NEW l \in Leases, Release(l) \/ Admit(l) \/ Work(l)
      PROVE  Kept /\ NoNewCost
  BY <1>3, QuietStep, ReleaseStep, AcquireDoneStep, LaunchReadyStep, LaunchFailedStep,
     DecideStep, ReleasedStep, PruneStep, NoteStep DEF Work, Quiet
<1>4. CASE Tick
  BY <1>4, IdleStep DEF Tick, Shape, leaseVars, soft, worker, bounds
<1>. QED BY <1>1, <1>2, <1>3, <1>4, CrashStep, RestartStep DEF Next

\* max_leases: a lease is only made while fewer than MaxLeases are active, and
\* those are all that may cost money.
LEMMA CostStep ==
    ASSUME IndInv, [Next]_vars
    PROVE  Cardinality(Paid)' <= MaxLeases
<1>1. Shape /\ LeaseInv /\ Cardinality(Paid) <= MaxLeases
  BY DEF IndInv
<1>2. IsFiniteSet(Leases) /\ MaxLeases \in Nat
  BY FS_Interval, BrokerAssumption DEF Leases
<1>3. Paid \subseteq Leases /\ Paid' \subseteq Leases
  BY DEF Paid, Leases
<1>4. /\ IsFiniteSet(Paid) /\ IsFiniteSet(Paid')
      /\ Cardinality(Paid) \in Nat /\ Cardinality(Paid') \in Nat
  BY <1>2, <1>3, FS_Subset, FS_CardinalityType
<1>5. CASE NoNewCost
  <2>1. Paid' \subseteq Paid
    BY <1>5 DEF NoNewCost, Paid
  <2>2. Cardinality(Paid') <= Cardinality(Paid)
    BY <1>4, <2>1, FS_Subset
  <2>. QED BY <1>1, <1>2, <1>4, <2>2
<1>6. ASSUME NEW q \in Requests, LaunchLease(q) PROVE Cardinality(Paid') <= MaxLeases
  <2> DEFINE A == {l \in Leases : Active(mem[l])}
  <2>1. ~AtLimit /\ up /\ \A l \in Leases : Pays(l)' => Pays(l) \/ l = made + 1
    BY <1>1, <1>6, LaunchLeaseStep
  <2>2. IsFiniteSet(A) /\ Cardinality(A) \in Nat /\ Cardinality(A) < MaxLeases
    <3>1. A \subseteq Leases  OBVIOUS
    <3>2. IsFiniteSet(A) /\ Cardinality(A) \in Nat
      BY <1>2, <3>1, FS_Subset, FS_CardinalityType
    <3>. QED BY <1>2, <2>1, <3>2 DEF AtLimit
  <2>3. ASSUME NEW l \in Leases, Pays(l) PROVE Active(mem[l])
    BY <1>1, <2>1, <2>3 DEF Pays, LeaseInv, RecordInv, WorkerInv, Active, Shape, IsRecord,
       States, Launching, Watching
  <2>4. Paid' \subseteq A \cup {made + 1}
    BY <2>1, <2>3 DEF Paid
  <2> HIDE DEF A
  <2>5. IsFiniteSet(A \cup {made + 1}) /\ Cardinality(A \cup {made + 1}) <= Cardinality(A) + 1
    BY <2>2, FS_AddElement
  <2>6. Cardinality(A \cup {made + 1}) \in Nat
    BY <2>5, FS_CardinalityType
  <2>7. Cardinality(Paid') <= Cardinality(A \cup {made + 1})
    BY <2>4, <2>5, FS_Subset
  <2>. QED BY <1>2, <1>4, <2>2, <2>5, <2>6, <2>7
<1>. QED BY <1>1, <1>5, <1>6, Step

\* The invariant holds initially.
LEMMA IndInvInit == Init => IndInv
<1> SUFFICES ASSUME Init PROVE IndInv
  OBVIOUS
<1>1. IsRecord(NoLease) /\ NoLease.state = "none"
  BY DEF IsRecord, NoLease, Fields, States
<1>2. Shape
  BY <1>1, BrokerAssumption DEF Init, Shape, Places
<1>3. ASSUME NEW l \in Leases
      PROVE  mem[l].state = "none" /\ disk[l].state = "none" /\ machine[l] = "none" /\ pc[l] = "off"
  BY <1>1 DEF Init
<1>4. LeaseInv
  BY <1>3 DEF LeaseInv, WorkerInv, RecordInv, Active
<1>5. Paid = {}
  BY <1>3 DEF Paid, Pays
<1>. QED BY <1>2, <1>4, <1>5, FS_EmptySet, BrokerAssumption DEF IndInv

\* IndInv holds in every reachable state.
THEOREM Invariance == Spec => []IndInv
<1>1. IndInv /\ [Next]_vars => IndInv'
  BY Step, CostStep DEF IndInv, Kept
<1>. QED BY <1>1, IndInvInit, PTL DEF Spec

\* No machine is forgotten, whatever writes fail and whenever the cloud peer
\* crashes.
THEOREM MachinesRecorded == Spec => []NoOrphan
<1>1. IndInv => NoOrphan
  BY DEF IndInv, LeaseInv, RecordInv, NoOrphan
<1>. QED BY <1>1, Invariance, PTL

\* A lease that refusal lets through has its machine.
THEOREM HandsOutMachines == Spec => []ReadyHasMachine
<1>1. IndInv => ReadyHasMachine
  BY DEF IndInv, Shape, LeaseInv, RecordInv, ReadyHasMachine, Refused
<1>. QED BY <1>1, Invariance, PTL

\* max_leases bounds the machines that are paid for.
THEOREM CostBounded == Spec => []MachineLimit
<1> DEFINE R == {l \in Leases : machine[l] = "running"}
<1>1. IndInv => MachineLimit
  <2> SUFFICES ASSUME IndInv PROVE MachineLimit
    OBVIOUS
  <2>1. IsFiniteSet(Leases) /\ MaxLeases \in Nat
    BY FS_Interval, BrokerAssumption DEF Leases
  <2>2. R \subseteq Paid /\ Paid \subseteq Leases
    BY DEF Paid, Pays
  <2>3. IsFiniteSet(Paid) /\ IsFiniteSet(R) /\ Cardinality(R) <= Cardinality(Paid)
    BY <2>1, <2>2, FS_Subset
  <2>4. Cardinality(R) \in Nat /\ Cardinality(Paid) \in Nat
    BY <2>3, FS_CardinalityType
  <2>. QED BY <2>1, <2>3, <2>4 DEF IndInv, MachineLimit
<1>. QED BY <1>1, Invariance, PTL

\* Leases only move forward: applyLocked never panics.
THEOREM LeasesMoveForward == Spec => OnlyForward
<1>1. IndInv /\ [Next]_vars =>
        [\A l \in Leases : mem[l].state # "none" /\ mem'[l].state # "none"
                            => CanMove(mem[l].state, mem'[l].state)]_vars
  BY Step DEF IndInv, Kept, Moves
<1>. QED BY <1>1, Invariance, PTL DEF Spec, OnlyForward

----------------------------------------------------------------------------
(***************************************************************************)
(* Claims.  A claim is never later than the idle window it begins: the     *)
(* worker compares with lastBusy, which no step moves before a claim.      *)
(***************************************************************************)
ClaimInv ==
    /\ claimed \in [Leases -> Int]
    /\ \A l \in Leases : /\ claimed[l] <= now
                         /\ mem[l].state = "ready" => claimed[l] <= lastBusy[l]

\* A step touches neither value of a lease, or renews the idle window.
Renews(l) ==
    \/ claimed'[l] = claimed[l] /\ lastBusy'[l] = lastBusy[l]
    \/ claimed'[l] \in {claimed[l], now} /\ lastBusy'[l] = now
    \/ claimed'[l] = claimed[l] /\ mem'[l].state # "ready"

ClaimStep == /\ now' >= now /\ claimed' \in [Leases -> Int]
             /\ \A l \in Leases : Renews(l)

\* ClaimStep and the beginning of an idle window keep ClaimInv.
LEMMA ClaimStepKeeps ==
    ASSUME Shape, ClaimInv, ClaimStep, Kept
    PROVE  ClaimInv'
<1> SUFFICES ASSUME NEW l \in Leases
             PROVE  claimed'[l] <= now' /\ (mem'[l].state = "ready" => claimed'[l] <= lastBusy'[l])
  BY DEF ClaimInv, ClaimStep
<1>1. /\ now \in Int /\ now' \in Int /\ claimed[l] \in Int /\ lastBusy[l] \in Int
      /\ now' >= now /\ claimed[l] <= now
  BY DEF Shape, ClaimInv, ClaimStep, Kept
<1>2. Renews(l) /\ Readied(l) /\ (mem[l].state = "ready" => claimed[l] <= lastBusy[l])
  BY DEF Kept, ClaimStep, ClaimInv
<1>. QED BY <1>1, <1>2 DEF Renews, Readied

\* Under ~Recount every step is a ClaimStep.
LEMMA ClaimSteps ==
    ASSUME ~Recount, Shape, LeaseInv, ClaimInv, [Next]_vars
    PROVE  ClaimStep
<1> USE DEF ClaimStep, Renews
<1>1. CASE UNCHANGED <<now, claimed, lastBusy>>
  BY <1>1 DEF Shape, ClaimInv
<1>2. ASSUME NEW q \in Requests, AskAgain(q) PROVE ClaimStep
  BY <1>1, <1>2 DEF AskAgain, soft
<1>3. ASSUME NEW q \in Requests, Share(q) PROVE ClaimStep
  <2>1. PICK l \in Leases : l = Newest(Shareable)
    BY <1>3, NewestIn DEF Share, Shareable
  <2>2. \/ /\ lastBusy' = [lastBusy EXCEPT ![l] = now]
           /\ claimed' = [claimed EXCEPT ![l] = now]
        \/ UNCHANGED <<lastBusy, claimed>>
    BY <1>3, <2>1 DEF Share
  <2>. QED BY <1>3, <2>2 DEF Share, Shape, ClaimInv
<1>4. ASSUME NEW q \in Requests, LaunchLease(q) \/ WithdrawUnknown(q) PROVE ClaimStep
  BY <1>1, <1>4 DEF LaunchLease, WithdrawUnknown, soft, ghosts
<1>5. ASSUME NEW q \in Requests, NEW l \in Leases, WithdrawHanded(q, l) PROVE ClaimStep
  <2>1. UNCHANGED <<now, claimed, lastBusy>>
    BY <1>5, Zenon DEF WithdrawHanded, soft
  <2>. QED BY <1>1, <2>1
<1>6. ASSUME NEW l \in Leases, Admit(l) PROVE ClaimStep
  BY <1>6 DEF Admit, Shape, ClaimInv
<1>7. ASSUME NEW l \in Leases, LaunchReady(l) PROVE ClaimStep
  <2>1. /\ UNCHANGED <<now, claimed>>
        /\ lastBusy' = [lastBusy EXCEPT ![l] = now] \/ lastBusy' = lastBusy
    BY <1>7 DEF LaunchReady, ghosts
  <2>. QED BY <2>1 DEF Shape, ClaimInv
<1>8. ASSUME NEW l \in Leases, Probed(l) PROVE ClaimStep
  <2>1. /\ UNCHANGED <<now, claimed>>
        /\ lastBusy' = [lastBusy EXCEPT ![l] = now] \/ lastBusy' = lastBusy
    BY <1>8 DEF Probed, ghosts
  <2>. QED BY <2>1 DEF Shape, ClaimInv
<1>9. ASSUME NEW l \in Leases,
             \/ Release(l) \/ WorkNext(l) \/ CreateMachine(l) \/ AcquireDone(l) \/ LaunchCut(l)
             \/ LaunchFailed(l) \/ Watch(l) \/ Decide(l) \/ WakeUp(l) \/ ReleaseRetry(l)
             \/ Released(l) \/ Prune(l) \/ Note(l)
      PROVE  ClaimStep
  <2>1. UNCHANGED <<now, claimed, lastBusy>>
    BY <1>9 DEF Release, WorkNext, CreateMachine, AcquireDone, LaunchCut, LaunchFailed, Watch,
       Decide, WakeUp, ReleaseRetry, Released, Prune, Note, soft, ghosts
  <2>. QED BY <1>1, <2>1
<1>10. CASE Tick
  BY <1>10 DEF Tick, soft, ghosts, Shape, ClaimInv
<1>11. CASE Crash
  <2>1. \A l \in Leases : mem'[l].state # "ready"
    BY <1>11 DEF Crash, NoLease
  <2>. QED BY <1>11, <2>1 DEF Crash, Shape, ClaimInv
<1>12. CASE Restart
  <2>1. ASSUME NEW l \in Leases PROVE lastBusy'[l] = now \/ mem'[l].state # "ready"
    BY <1>12, StateChange DEF Restart, Interrupted, Shape, States
  <2>. QED BY <1>12, <2>1 DEF Restart, ghosts, Shape, ClaimInv
<1>13. CASE UNCHANGED vars
  BY <1>1, <1>13 DEF vars, soft, ghosts
<1>. QED BY <1>2, <1>3, <1>4, <1>5, <1>6, <1>7, <1>8, <1>9, <1>10, <1>11, <1>12, <1>13
     DEF Next, Run, Work

\* The worker never takes a lease from a run within the idle window its claim
\* began, for every idle timeout, poll and lifetime; a request that is asked
\* again is not a new claim.
THEOREM ClaimsKept == ASSUME ~Recount PROVE Spec => ClaimKept
<1>1. Init => ClaimInv
  BY DEF Init, ClaimInv, Never, NoLease
<1>2. IndInv /\ ClaimInv /\ [Next]_vars => ClaimInv'
  BY Step, ClaimSteps, ClaimStepKeeps DEF IndInv
<1>3. ASSUME IndInv, ClaimInv, NEW l \in Leases, Decide(l), mem[l].state = "ready",
             mem'[l].state = "releasing", now < Expires(l)
      PROVE  now >= claimed[l] + IdleTimeout
  <2>1. Releasable(l)
    BY <1>3 DEF Decide, Unwritten
  <2>2. now >= lastBusy[l] + IdleTimeout \/ now >= Expires(l)
    BY <2>1 DEF Releasable
  <2>3. /\ claimed[l] \in Int /\ lastBusy[l] \in Int /\ now \in Int /\ IdleTimeout \in Int
        /\ claimed[l] <= lastBusy[l]
    BY <1>3, BrokerAssumption DEF IndInv, Shape, ClaimInv
  <2>4. ~ (now >= Expires(l))
    BY <1>3, <2>3, BrokerAssumption DEF Expires, IndInv, Shape, IsRecord
  <2>. QED BY <2>2, <2>3, <2>4
<1>4. IndInv /\ ClaimInv /\ [Next]_vars =>
        [\A l \in Leases :
           /\ Decide(l) /\ mem[l].state = "ready" /\ mem'[l].state = "releasing"
           /\ claimed[l] # Never /\ now < Expires(l)
           => now >= claimed[l] + IdleTimeout]_vars
  BY <1>3
<1>. QED BY <1>1, <1>2, <1>4, Invariance, PTL DEF Spec, ClaimKept

----------------------------------------------------------------------------
(***************************************************************************)
(* Lifetimes.  Whatever the worker of a lease waits for ends by the limit, *)
(* which is the end of the lifetime, or the restart if that came later,    *)
(* and one poll for each failed write; outside of its waits no time passes.*)
(***************************************************************************)
Grace    == faults * IdlePoll
Limit(l) == (IF Expires(l) > upSince THEN Expires(l) ELSE upSince) + Grace
Timed    == {"acquire", "waitready", "probe", "sleep"}
Lives(l) == mem[l].state \in {"launching", "ready"}

LifeInv ==
    /\ until \in [Leases -> Int] /\ faults \in Nat /\ upSince \in Nat
    /\ \A l \in Leases :
         up /\ Lives(l) => now <= Limit(l) /\ (pc[l] \in Timed => until[l] <= Limit(l))

\* A step of the lease's worker, or of a request, keeps the limit of lease k and
\* begins no wait beyond it.
Endures(k) ==
    Lives(k)' => /\ Lives(k) /\ mem'[k].created = mem[k].created
                 /\ pc'[k] \in Timed => \/ until'[k] = until[k] /\ pc[k] \in Timed
                                        \/ until'[k] <= Limit(k)'
Passes ==
    /\ now' = now /\ upSince' = upSince /\ up' = up /\ faults' \in {faults, faults + 1}
    /\ until' \in [Leases -> Int]
    /\ \A k \in Leases : Endures(k)

\* A failed write gives one poll more.
LEMMA GraceGrows ==
    ASSUME faults \in Nat, faults' \in {faults, faults + 1}
    PROVE  /\ IdlePoll \in Nat /\ Grace \in Nat
           /\ Grace' = IF faults' = faults THEN Grace ELSE Grace + IdlePoll
<1>1. IdlePoll \in Nat
  BY BrokerAssumption
<1>2. faults * IdlePoll \in Nat /\ (faults + 1) * IdlePoll = faults * IdlePoll + IdlePoll
  BY <1>1
<1>. QED BY <1>1, <1>2 DEF Grace

\* What the limit is made of.
LEMMA LimitTyped ==
    ASSUME Shape, LifeInv, NEW l \in Leases
    PROVE  Expires(l) \in Nat /\ Limit(l) \in Nat /\ Limit(l) >= Expires(l) /\ Limit(l) >= upSince
<1>1. Expires(l) \in Nat /\ upSince \in Nat
  BY BrokerAssumption DEF Shape, IsRecord, LifeInv, Expires
<1>2. Grace \in Nat
  BY BrokerAssumption DEF LifeInv, Grace
<1>. QED BY <1>1, <1>2 DEF Limit

LEMMA LimitGrows ==
    ASSUME Shape, LifeInv, NEW l \in Leases, upSince' = upSince, mem'[l].created = mem[l].created,
           faults' \in {faults, faults + 1}
    PROVE  Limit(l)' = IF faults' = faults THEN Limit(l) ELSE Limit(l) + IdlePoll
<1>1. Expires(l) \in Nat /\ upSince \in Nat /\ Expires(l)' = Expires(l) /\ faults \in Nat
  BY BrokerAssumption DEF Shape, IsRecord, LifeInv, Expires
<1>. QED BY <1>1, GraceGrows DEF Limit

LEMMA PassesKeeps ==
    ASSUME Shape, LifeInv, Passes
    PROVE  LifeInv'
<1>1. faults' \in Nat /\ upSince' \in Nat /\ until' \in [Leases -> Int]
  BY DEF LifeInv, Passes
<1>2. ASSUME NEW l \in Leases, up', Lives(l)'
      PROVE  now' <= Limit(l)' /\ (pc'[l] \in Timed => until'[l] <= Limit(l)')
  <2>1. /\ up /\ Lives(l) /\ mem'[l].created = mem[l].created /\ now' = now
        /\ upSince' = upSince /\ faults' \in {faults, faults + 1}
        /\ pc'[l] \in Timed => (until'[l] = until[l] /\ pc[l] \in Timed) \/ until'[l] <= Limit(l)'
    BY <1>2 DEF Passes, Endures
  <2>2. Limit(l)' = IF faults' = faults THEN Limit(l) ELSE Limit(l) + IdlePoll
    BY <2>1, LimitGrows
  <2>3. /\ Limit(l) \in Nat /\ IdlePoll \in Nat /\ now \in Nat /\ until[l] \in Int
        /\ now <= Limit(l) /\ (pc[l] \in Timed => until[l] <= Limit(l))
    BY <2>1, LimitTyped, BrokerAssumption DEF Shape, LifeInv
  <2>. QED BY <2>1, <2>2, <2>3
<1>. QED BY <1>1, <1>2 DEF LifeInv

\* Records keep when they were made.
LEMMA StateKeepsCreated ==
    ASSUME NEW r, IsRecord(r), NEW s
    PROVE  /\ [r EXCEPT !.state = s].created = r.created /\ [r EXCEPT !.state = s].state = s
           /\ [r EXCEPT !.requests = s].created = r.created
           /\ [r EXCEPT !.requests = s].state = r.state
BY DEF IsRecord, Fields

\* A step that writes at most the record of l, keeping when it was made, and
\* leaves the waits alone.
LEMMA WrittenPasses ==
    ASSUME Shape, LifeInv, NEW l \in Leases, NEW r, Written(l, r), r.created = mem[l].created,
           r.state = mem[l].state \/ r.state \notin {"launching", "ready"}
              \/ (r.state = "ready" /\ mem[l].state = "launching"),
           now' = now, upSince' = upSince, up' = up, faults' \in {faults, faults + 1},
           until' = until, \A k \in Leases : pc'[k] \in Timed => pc[k] \in Timed
    PROVE  Passes
<1>1. ASSUME NEW k \in Leases, Lives(k)' PROVE Lives(k) /\ mem'[k].created = mem[k].created
  BY <1>1 DEF Written, Lives
<1>. QED BY <1>1 DEF Passes, Endures, LifeInv

\* A step that writes no record and no wait.
LEMMA UnwrittenPasses ==
    ASSUME Shape, LifeInv, UNCHANGED <<mem, until, faults, now, upSince, up>>,
           \A k \in Leases : pc'[k] \in Timed => pc[k] \in Timed
    PROVE  Passes
BY DEF Passes, Endures, LifeInv, Lives

\* A step that begins a wait of l by the end of its lifetime.
LEMMA WaitPasses ==
    ASSUME Shape, LifeInv, NEW l \in Leases, NEW p, NEW d \in Int, WaitFor(l, p, d), p \in Places,
           Lives(l) /\ p \in Timed => d <= Limit(l),
           UNCHANGED <<mem, faults, now, upSince, up>>
    PROVE  Passes
<1>1. until' = [until EXCEPT ![l] = d] /\ pc' = [pc EXCEPT ![l] = p]
  BY DEF WaitFor, Goto
<1>2. until \in [Leases -> Int] /\ pc \in [Leases -> Places] /\ faults \in Nat
  BY DEF LifeInv, Shape
<1>3. until' \in [Leases -> Int]
  BY <1>1, <1>2
<1>4. \A k \in Leases : Limit(k)' = Limit(k)
  BY DEF Limit, Expires, Grace
<1>5. ASSUME NEW k \in Leases PROVE Endures(k)
  <2>1. CASE k = l
    BY <1>1, <1>2, <1>4, <2>1 DEF Endures, Lives
  <2>2. CASE k # l
    BY <1>1, <1>2, <2>2 DEF Endures, Lives
  <2>. QED BY <2>1, <2>2
<1>. QED BY <1>2, <1>3, <1>5 DEF Passes

\* Requests and the owner.
LEMMA RunPasses ==
    ASSUME Shape, LifeInv, NEW q \in Requests,
           AskAgain(q) \/ Share(q) \/ WithdrawUnknown(q) \/ \E l \in Leases : WithdrawHanded(q, l)
    PROVE  Passes
<1>1. CASE AskAgain(q) \/ WithdrawUnknown(q)
  BY <1>1, UnwrittenPasses DEF AskAgain, WithdrawUnknown, leaseVars, worker
<1>2. CASE Share(q)
  <2>1. PICK l \in Leases : l = Newest(Shareable)
    BY <1>2, NewestIn DEF Share, Shareable
  <2>2. PICK w \in Outcomes : \E t : Update(l, [mem[l] EXCEPT !.requests = t], w)
    BY <1>2, <2>1 DEF Share
  <2> PICK s : Update(l, [mem[l] EXCEPT !.requests = s], w)
    BY <2>2
  <2>3. Written(l, [mem[l] EXCEPT !.requests = s])
    BY UpdateWrites
  <2>4. faults' \in {faults, faults + 1}
    BY DEF Update, Persist
  <2>5. UNCHANGED <<now, up, upSince, pc, until>>
    BY <1>2 DEF Share, worker
  <2>6. IsRecord(mem[l])
    BY DEF Shape
  <2>. QED BY <2>3, <2>4, <2>5, <2>6, StateKeepsCreated, WrittenPasses
<1>3. ASSUME NEW l \in Leases, WithdrawHanded(q, l) PROVE Passes
  <2> DEFINE left == RemoveFirst(mem[l].requests, q)
             s == IF left = <<>> THEN "releasing" ELSE mem[l].state
             r == [mem[l] EXCEPT !.requests = left, !.state = IF left = <<>> THEN "releasing" ELSE @]
  <2>1. UNCHANGED <<now, up, upSince, pc, until>>
    BY <1>3, Zenon DEF WithdrawHanded, worker
  <2>2. IsRecord(mem[l])
    BY DEF Shape
  <2>3. (\E w \in Outcomes : Update(l, r, w)) \/ Unwritten
    BY <1>3, Zenon DEF WithdrawHanded
  <2>4. r.created = mem[l].created /\ r.state = s
    <3> HIDE DEF left
    <3>. QED BY <2>2 DEF IsRecord, Fields
  <2>5. CASE Unwritten
    BY <2>1, <2>5, UnwrittenPasses DEF Unwritten
  <2> HIDE DEF left, r
  <2>6. ASSUME NEW w \in Outcomes, Update(l, r, w) PROVE Passes
    <3>1. Written(l, r)
      BY <2>6, UpdateWrites
    <3>2. faults' \in {faults, faults + 1}
      BY <2>6 DEF Update, Persist
    <3>. QED BY <2>1, <2>4, <3>1, <3>2, WrittenPasses
  <2>. QED BY <2>3, <2>5, <2>6
<1>. QED BY <1>1, <1>2, <1>3

\* The steps of a lease that write nothing or only the record's state.
LEMMA WorkPasses ==
    ASSUME Shape, LifeInv, LeaseInv, up, NEW l \in Leases, Release(l) \/ Admit(l) \/ Work(l)
    PROVE  Passes
<1>1. IsRecord(mem[l]) /\ pc \in [Leases -> Places]
  BY DEF Shape
<1>2. /\ Expires(l) \in Nat /\ Limit(l) \in Nat /\ Limit(l) >= Expires(l) /\ now \in Nat
      /\ mem[l].created \in Nat
      /\ AcquireTimeout \in Nat /\ ProbeTimeout \in Nat /\ IdlePoll \in Nat /\ ReleaseTimeout \in Nat
  BY LimitTyped, BrokerAssumption DEF Shape, IsRecord
<1>3. ASSUME NEW s \in States, NEW w \in Outcomes,
             Update(l, [mem[l] EXCEPT !.state = s], w) \/ Advance(l, [mem[l] EXCEPT !.state = s], w),
             s \notin {"launching", "ready"} \/ (s = "ready" /\ mem[l].state = "launching"),
             UNCHANGED <<now, up, upSince, until>>,
             \A k \in Leases : pc'[k] \in Timed => pc[k] \in Timed
      PROVE  Passes
  <2>1. Written(l, [mem[l] EXCEPT !.state = s])
    BY <1>3, UpdateWrites, AdvanceWrites
  <2>2. faults' \in {faults, faults + 1}
    BY <1>3 DEF Update, Advance, Persist
  <2>. QED BY <1>1, <1>3, <2>1, <2>2, StateKeepsCreated, WrittenPasses
<1>4. CASE Release(l)
  <2>1. PICK w \in Outcomes : Update(l, [mem[l] EXCEPT !.state = "releasing"], w)
    BY <1>4 DEF Release
  <2>2. UNCHANGED <<now, up, upSince, until, pc>>
    BY <1>4 DEF Release, worker
  <2>. QED BY <1>3, <2>1, <2>2 DEF States
<1>5. CASE Admit(l) \/ CreateMachine(l) \/ LaunchCut(l) \/ Probed(l) \/ WakeUp(l)
  <2>1. UNCHANGED <<mem, until, faults, now, upSince, up>>
    BY <1>5 DEF Admit, CreateMachine, LaunchCut, Probed, WakeUp, leaseVars, worker
  <2>2. \A k \in Leases : pc'[k] \in Timed => pc[k] \in Timed
    BY <1>1, <1>5 DEF Admit, CreateMachine, LaunchCut, Probed, WakeUp, Goto, worker, Timed
  <2>. QED BY <2>1, <2>2, UnwrittenPasses
<1>6. CASE WorkNext(l)
  <2>1. UNCHANGED <<mem, faults, now, upSince, up>>
    BY <1>6 DEF WorkNext, Unwritten
  <2>2. \/ \E p \in {"watch", "off"} : Goto(l, p) /\ UNCHANGED until
        \/ WaitFor(l, "acquire", Earlier(mem[l].created + AcquireTimeout, Expires(l)))
        \/ WaitFor(l, "release", now + ReleaseTimeout)
    BY <1>6 DEF WorkNext
  <2>3. CASE \E p \in {"watch", "off"} : Goto(l, p) /\ UNCHANGED until
    <3>1. \A k \in Leases : pc'[k] \in Timed => pc[k] \in Timed
      BY <1>1, <2>3 DEF Goto, Timed
    <3>. QED BY <2>1, <2>3, <3>1, UnwrittenPasses
  <2>4. CASE WaitFor(l, "acquire", Earlier(mem[l].created + AcquireTimeout, Expires(l)))
    <3>1. /\ Earlier(mem[l].created + AcquireTimeout, Expires(l)) \in Int
          /\ Earlier(mem[l].created + AcquireTimeout, Expires(l)) <= Limit(l)
      BY <1>2 DEF Earlier
    <3>. QED BY <2>1, <2>4, <3>1, WaitPasses DEF Places
  <2>5. CASE WaitFor(l, "release", now + ReleaseTimeout)
    <3>1. now + ReleaseTimeout \in Int
      BY <1>2
    <3>. QED BY <2>1, <2>5, <3>1, WaitPasses DEF Places, Timed
  <2>. QED BY <2>2, <2>3, <2>4, <2>5
<1>7. CASE AcquireDone(l)
  <2>1. PICK w \in Outcomes : /\ Update(l, mem[l], w)
                              /\ Goto(l, IF w = "ok" THEN "waitready" ELSE "failed")
    BY <1>7 DEF AcquireDone
  <2>2. UNCHANGED <<now, up, upSince, until>> /\ pc[l] = "acquire"
    BY <1>7 DEF AcquireDone
  <2>3. Written(l, mem[l]) /\ faults' \in {faults, faults + 1}
    BY <2>1, UpdateWrites DEF Update, Persist
  <2>4. \A k \in Leases : pc'[k] \in Timed => pc[k] \in Timed
    BY <1>1, <2>1, <2>2 DEF Goto, Timed
  <2>. QED BY <2>2, <2>3, <2>4, WrittenPasses
<1>8. CASE LaunchReady(l)
  <2>1. /\ UNCHANGED <<now, up, upSince, until>>
        /\ \/ \E w \in Outcomes : mem[l].state = "launching" /\ Update(l, [mem[l] EXCEPT !.state = "ready"], w)
           \/ Unwritten
    BY <1>8 DEF LaunchReady
  <2>2. \A k \in Leases : pc'[k] \in Timed => pc[k] \in Timed
    BY <1>1, <1>8 DEF LaunchReady, Goto, Timed
  <2>3. CASE Unwritten
    BY <2>1, <2>2, <2>3, UnwrittenPasses DEF Unwritten
  <2>4. ASSUME NEW w \in Outcomes, mem[l].state = "launching",
               Update(l, [mem[l] EXCEPT !.state = "ready"], w)
        PROVE  Passes
    BY <1>3, <2>1, <2>2, <2>4 DEF States
  <2>. QED BY <2>1, <2>3, <2>4
<1>9. CASE LaunchFailed(l)
  <2>1. /\ UNCHANGED <<now, up, upSince, until>>
        /\ \/ \E w \in Outcomes : Advance(l, [mem[l] EXCEPT !.state = "releasing"], w)
           \/ Unwritten
    BY <1>9 DEF LaunchFailed
  <2>2. \A k \in Leases : pc'[k] \in Timed => pc[k] \in Timed
    BY <1>1, <1>9 DEF LaunchFailed, Goto, Timed
  <2>3. CASE Unwritten
    BY <2>1, <2>2, <2>3, UnwrittenPasses DEF Unwritten
  <2>4. ASSUME NEW w \in Outcomes, Advance(l, [mem[l] EXCEPT !.state = "releasing"], w)
        PROVE  Passes
    BY <1>3, <2>1, <2>2, <2>4 DEF States
  <2>. QED BY <2>1, <2>3, <2>4
<1>10. CASE Watch(l)
  <2>1. UNCHANGED <<mem, faults, now, upSince, up>>
    BY <1>10 DEF Watch, leaseVars
  <2>2. \/ \E p \in {"top", "decide"} : Goto(l, p) /\ UNCHANGED until
        \/ WaitFor(l, "probe", Earlier(now + ProbeTimeout, Expires(l)))
    BY <1>10 DEF Watch
  <2>3. CASE \E p \in {"top", "decide"} : Goto(l, p) /\ UNCHANGED until
    <3>1. \A k \in Leases : pc'[k] \in Timed => pc[k] \in Timed
      BY <1>1, <2>3 DEF Goto, Timed
    <3>. QED BY <2>1, <2>3, <3>1, UnwrittenPasses
  <2>4. CASE WaitFor(l, "probe", Earlier(now + ProbeTimeout, Expires(l)))
    <3>1. /\ Earlier(now + ProbeTimeout, Expires(l)) \in Int
          /\ Earlier(now + ProbeTimeout, Expires(l)) <= Limit(l)
      BY <1>2 DEF Earlier
    <3>. QED BY <2>1, <2>4, <3>1, WaitPasses DEF Places
  <2>. QED BY <2>2, <2>3, <2>4
<1>11. CASE Decide(l)
  <2>1. UNCHANGED <<now, upSince, up>>
    BY <1>11 DEF Decide
  <2>2. NapEnd(l) \in Int /\ (NapEnd(l) <= Expires(l) \/ (NapEnd(l) = now + IdlePoll /\ now >= Expires(l)))
    BY <1>2 DEF NapEnd, Earlier
  <2>3. CASE WaitFor(l, "sleep", NapEnd(l)) /\ Unwritten /\ ~ (mem[l].state = "ready" /\ Releasable(l))
    <3>1. Lives(l) => mem[l].state = "ready"
      BY <1>11 DEF Decide, Lives, LeaseInv, WorkerInv, Launching
    <3>2. Lives(l) => NapEnd(l) <= Limit(l)
      BY <1>2, <2>2, <2>3, <3>1 DEF Releasable
    <3>. QED BY <2>1, <2>2, <2>3, <3>2, WaitPasses DEF Places, Unwritten
  <2>4. ASSUME NEW w \in Outcomes, Update(l, [mem[l] EXCEPT !.state = "releasing"], w),
               w = "ok", Goto(l, "top"), UNCHANGED until
        PROVE  Passes
    <3>1. \A k \in Leases : pc'[k] \in Timed => pc[k] \in Timed
      BY <1>1, <2>4 DEF Goto, Timed
    <3>. QED BY <1>3, <2>1, <2>4, <3>1 DEF States
  <2>5. ASSUME NEW w \in Outcomes, Update(l, [mem[l] EXCEPT !.state = "releasing"], w),
               w # "ok", WaitFor(l, "sleep", NapEnd(l))
        PROVE  Passes
    <3>1. mem' = mem /\ faults' = faults + 1
      BY <2>5 DEF Update, Persist
    <3>2. until' = [until EXCEPT ![l] = NapEnd(l)] /\ pc' = [pc EXCEPT ![l] = "sleep"]
      BY <2>5 DEF WaitFor, Goto
    <3>3. until \in [Leases -> Int] /\ faults \in Nat
      BY DEF LifeInv
    <3>4. until' \in [Leases -> Int]
      BY <2>2, <3>2, <3>3
    <3>5. ASSUME NEW k \in Leases PROVE Endures(k)
      <4>1. CASE k # l
        BY <1>1, <3>1, <3>2, <3>3, <4>1 DEF Endures, Lives
      <4>2. ASSUME k = l, Lives(l) PROVE until'[l] <= Limit(l)'
        <5>1. faults' # faults /\ Limit(l)' = Limit(l) + IdlePoll
          BY <2>1, <3>1, <3>3, LimitGrows
        <5>2. now <= Limit(l)
          BY <4>2 DEF LifeInv
        <5>3. until'[l] = NapEnd(l)
          BY <3>2, <3>3
        <5>. QED BY <1>2, <2>2, <5>1, <5>2, <5>3
      <4>. QED BY <3>1, <4>1, <4>2 DEF Endures, Lives
    <3>. QED BY <2>1, <3>1, <3>4, <3>5 DEF Passes
  <2>. QED BY <1>11, <2>3, <2>4, <2>5 DEF Decide
<1>12. CASE ReleaseRetry(l)
  <2>1. WaitFor(l, "retry", now + IdlePoll) /\ UNCHANGED <<mem, faults, now, upSince, up>>
    BY <1>12 DEF ReleaseRetry, leaseVars
  <2>2. now + IdlePoll \in Int
    BY <1>2
  <2>. QED BY <2>1, <2>2, WaitPasses DEF Places, Timed
<1>13. CASE Released(l)
  <2>1. /\ UNCHANGED <<now, up, upSince, until>>
        /\ \E w \in Outcomes : Advance(l, [mem[l] EXCEPT !.state = "ended"], w)
    BY <1>13 DEF Released
  <2>2. \A k \in Leases : pc'[k] \in Timed => pc[k] \in Timed
    BY <1>1, <1>13 DEF Released, Goto, Timed
  <2>. QED BY <1>3, <2>1, <2>2 DEF States
<1>14. CASE Prune(l)
  <2>1. /\ UNCHANGED <<now, up, upSince, until, pc, faults>>
        /\ mem' = [mem EXCEPT ![l] = NoLease]
    BY <1>14 DEF Prune, worker
  <2>2. ASSUME NEW k \in Leases, Lives(k)' PROVE Lives(k) /\ mem'[k].created = mem[k].created
    BY <2>1, <2>2 DEF Lives, NoLease, Shape
  <2>. QED BY <2>1, <2>2 DEF Passes, Endures, LifeInv
<1>15. CASE Note(l)
  BY <1>15, UnwrittenPasses DEF Note, worker
<1>. QED BY <1>4, <1>5, <1>6, <1>7, <1>8, <1>9, <1>10, <1>11, <1>12, <1>13, <1>14, <1>15 DEF Work

\* The steps that are not Passes: a new lease, the clock, a crash, a restart.
LEMMA LifeStep ==
    ASSUME Shape, LeaseInv, Shape', LifeInv, [Next]_vars
    PROVE  LifeInv'
<1>1. ASSUME NEW q \in Requests, LaunchLease(q) PROVE LifeInv'
  <2> PICK l \in Leases : l = made + 1
    BY <1>1, BrokerAssumption DEF LaunchLease, Leases, Shape
  <2> DEFINE r == [NoLease EXCEPT !.state = "launching", !.requests = <<q>>, !.created = now]
  <2>1. PICK w \in Outcomes : Update(l, r, w) /\ pc' = IF w = "ok" THEN [pc EXCEPT ![l] = "top"] ELSE pc
    BY <1>1 DEF LaunchLease
  <2>2. UNCHANGED <<now, up, upSince, until>>
    BY <1>1 DEF LaunchLease
  <2>3. Written(l, r) /\ faults' \in {faults, faults + 1}
    BY <2>1, <2>2, UpdateWrites DEF Update, Persist
  <2>4. r.created = now
    BY DEF NoLease
  <2>5. mem[l].state = "none"
    BY <2>2 DEF LeaseInv, RecordInv, Shape
  <2> HIDE DEF r
  <2>6. ASSUME NEW k \in Leases, k # l \/ mem'[l] = mem[l] PROVE Endures(k)
    <3>1. mem'[k] = mem[k]
      BY <2>3, <2>6 DEF Written
    <3>2. CASE k # l
      BY <2>1, <2>2, <3>1, <3>2 DEF Endures, Lives, Shape
    <3>3. CASE k = l
      BY <2>5, <3>1, <3>3 DEF Endures, Lives
    <3>. QED BY <3>2, <3>3
  <2>7. faults' \in Nat /\ upSince' \in Nat /\ until' \in [Leases -> Int]
    BY <2>2, <2>3 DEF LifeInv
  <2>8. CASE mem'[l] = mem[l]
    <3>1. Passes
      BY <2>2, <2>3, <2>6, <2>7, <2>8 DEF Passes
    <3>. QED BY <3>1, PassesKeeps
  <2>9. CASE mem'[l] # mem[l]
    <3>1. mem'[l] = r /\ w = "ok"
      BY <2>1, <2>2, <2>3, <2>9, UpdateWrites DEF Written
    <3>2. pc'[l] = "top"
      BY <2>1, <2>2, <3>1 DEF Shape
    <3>3. now' <= Limit(l)'
      <4>1. Grace' \in Nat
        BY <2>7, BrokerAssumption DEF Grace
      <4>2. Expires(l)' = now + Lifetime
        BY <2>4, <3>1 DEF Expires
      <4>3. now \in Nat /\ upSince' \in Nat /\ Lifetime \in Nat
        BY <2>7, BrokerAssumption DEF Shape
      <4>4. Limit(l)' = (IF Expires(l)' > upSince' THEN Expires(l)' ELSE upSince') + Grace'
        BY DEF Limit
      <4>. QED BY <2>2, <4>1, <4>2, <4>3, <4>4
    <3>4. ASSUME NEW k \in Leases, up', Lives(k)'
          PROVE  now' <= Limit(k)' /\ (pc'[k] \in Timed => until'[k] <= Limit(k)')
      <4>1. CASE k = l
        BY <3>2, <3>3, <4>1 DEF Timed
      <4>2. CASE k # l
        <5>1. Lives(k) /\ mem'[k].created = mem[k].created /\ pc'[k] = pc[k]
          BY <2>1, <2>2, <2>3, <3>4, <4>2 DEF Written, Lives, Shape
        <5>2. Limit(k)' = IF faults' = faults THEN Limit(k) ELSE Limit(k) + IdlePoll
          BY <2>2, <2>3, <5>1, LimitGrows
        <5>3. /\ Limit(k) \in Nat /\ IdlePoll \in Nat /\ now \in Nat /\ until[k] \in Int
              /\ now <= Limit(k) /\ (pc[k] \in Timed => until[k] <= Limit(k))
          BY <2>2, <3>4, <5>1, LimitTyped, BrokerAssumption DEF Shape, LifeInv
        <5>. QED BY <2>2, <5>1, <5>2, <5>3
      <4>. QED BY <4>1, <4>2
    <3>. QED BY <2>7, <3>4 DEF LifeInv
  <2>. QED BY <2>8, <2>9
<1>2. ASSUME NEW q \in Requests, Run(q), ~LaunchLease(q) PROVE LifeInv'
  BY <1>2, RunPasses, PassesKeeps DEF Run
<1>3. ASSUME NEW l \in Leases, Release(l) \/ Admit(l) \/ Work(l) PROVE LifeInv'
  <2>1. CASE up
    BY <1>3, <2>1, WorkPasses, PassesKeeps
  <2>2. CASE ~up
    <3>1. \A k \in Leases : pc[k] = "off" /\ mem[k].state = "none"
      BY <2>2 DEF LeaseInv, RecordInv, WorkerInv
    <3>2. ~ (Release(l) \/ Admit(l) \/ Work(l))
      BY <2>2, <3>1 DEF Release, Admit, Work, WorkNext, CreateMachine, AcquireDone, LaunchCut, LaunchReady,
         LaunchFailed, Watch, Probed, Decide, WakeUp, ReleaseRetry, Released, Prune, Note
    <3>. QED BY <1>3, <3>2
  <2>. QED BY <2>1, <2>2 DEF Shape
<1>4. CASE Tick
  <2>1. /\ now' = now + 1 /\ UNCHANGED <<up, upSince, mem, until, pc, faults>>
        /\ \A l \in Leases : pc[l] = "off" \/ now < until[l]
    BY <1>4 DEF Tick, leaseVars, worker
  <2>2. ASSUME NEW l \in Leases, up, Lives(l) PROVE now' <= Limit(l) /\ (pc[l] \in Timed => until[l] <= Limit(l))
    <3>1. pc[l] \in Timed /\ now < until[l]
      BY <1>4, <2>2 DEF Tick, Lives, LeaseInv, WorkerInv, Launching, Watching, Timed
    <3>2. until[l] <= Limit(l) /\ until[l] \in Int /\ now \in Nat /\ Limit(l) \in Nat
      BY <2>2, <3>1, LimitTyped DEF LifeInv, Shape
    <3>. QED BY <2>1, <3>1, <3>2
  <2>3. \A l \in Leases : Limit(l)' = Limit(l) /\ (Lives(l)' <=> Lives(l))
    BY <2>1 DEF Limit, Expires, Grace, Lives
  <2>. QED BY <2>1, <2>2, <2>3 DEF LifeInv
<1>5. CASE Crash
  <2>1. ~up' /\ UNCHANGED <<faults, upSince>> /\ until' = [l \in Leases |-> 0]
    BY <1>5 DEF Crash
  <2>. QED BY <2>1 DEF LifeInv
<1>6. CASE Restart
  <2>1. /\ upSince' = now /\ UNCHANGED <<now, faults, until>>
        /\ pc' = [l \in Leases |-> IF Active(disk[l]) THEN "top" ELSE "off"]
    BY <1>6 DEF Restart
  <2>2. upSince' \in Nat /\ until' \in [Leases -> Int] /\ faults' \in Nat
    BY <2>1 DEF Shape, LifeInv
  <2>3. ASSUME NEW l \in Leases PROVE now' <= Limit(l)' /\ pc'[l] \notin Timed
    <3>1. Grace' \in Nat
      BY <2>2, BrokerAssumption DEF Grace
    <3>2. Expires(l)' \in Nat /\ now' \in Nat
      BY BrokerAssumption DEF Shape, IsRecord, Expires
    <3>3. now' <= Limit(l)'
      <4>1. Limit(l)' = (IF Expires(l)' > upSince' THEN Expires(l)' ELSE upSince') + Grace'
        BY DEF Limit
      <4>2. upSince' = now'
        BY <2>1
      <4>3. \A e, g, n \in Nat : n <= (IF e > n THEN e ELSE n) + g
        OBVIOUS
      <4>. QED BY <3>1, <3>2, <4>1, <4>2, <4>3
    <3>4. pc'[l] \notin Timed
      BY <2>1 DEF Timed
    <3>. QED BY <3>3, <3>4
  <2>. QED BY <2>2, <2>3 DEF LifeInv
<1>7. CASE UNCHANGED vars
  <2>1. Passes
    BY <1>7, UnwrittenPasses DEF vars, leaseVars, worker
  <2>. QED BY <2>1, PassesKeeps
<1>. QED BY <1>1, <1>2, <1>3, <1>4, <1>5, <1>6, <1>7 DEF Next

\* While the cloud peer runs, no lease outlives its lifetime by more than a poll
\* for each failed write, for every timeout, poll and lifetime; what expired while
\* the peer was down is released as soon as it runs.
THEOREM LifetimesBounded == Spec => []LifetimeBound
<1>1. Init => LifeInv
  BY DEF Init, LifeInv, Lives, NoLease
<1>2. IndInv /\ IndInv' /\ LifeInv /\ [Next]_vars => LifeInv'
  BY LifeStep DEF IndInv
<1>3. IndInv /\ LifeInv => LifetimeBound
  <2> SUFFICES ASSUME IndInv, LifeInv, NEW l \in Leases, up, mem[l].state \in {"launching", "ready"}
               PROVE  now <= Expires(l) + faults * IdlePoll \/ now <= upSince + faults * IdlePoll
    BY DEF LifetimeBound
  <2>1. now <= Limit(l)
    BY DEF LifeInv, Lives
  <2>. QED BY <2>1 DEF Limit, Grace
<1>. QED BY <1>1, <1>2, <1>3, Invariance, PTL DEF Spec

-----------------------------------------------------------------------------
(***************************************************************************)
(* A withdrawal that found no lease is heeded.  That nothing is launched   *)
(* for the request holds as long as it is remembered as withdrawn, and it  *)
(* is remembered, since when, for as long as the answer promises: the room *)
(* for withdrawn requests is taken from expired ones only.                 *)
(***************************************************************************)
Awaited(q) == \E l \in Leases : mem[l].state = "launching" /\ q \in ToSet(mem[l].requests)

Heeded(q) ==
    answered[q].how = "unknown" /\ now - answered[q].at <= WithdrawnAge
      => withdrawn[q] = answered[q].at /\ ~Awaited(q)

WithdrawInv == TypeOK /\ \A q \in Requests : Heeded(q)

RecordsTyped == /\ disk \in [Leases -> Records] /\ mem \in [Leases -> Records]
                /\ faults \in Nat

\* No request joins a launch.
NoNewWaiter ==
    \A l \in Leases : mem'[l].state = "launching"
                      => /\ mem[l].state = "launching"
                         /\ ToSet(mem'[l].requests) \subseteq ToSet(mem[l].requests)

\* A step of which nobody has to be told: types are kept, and nobody joins.
Unheard == TypeOK' /\ NoNewWaiter /\ UNCHANGED <<withdrawn, answered>> /\ now' >= now

LEMMA LeastIn ==
  ASSUME NEW S \in SUBSET Nat, S # {}
  PROVE  Min(S) \in S
  <1>1. PICK x \in S : \A y \in S : ~ (<<y, x>> \in OpToRel(<, Nat))
    BY WFMin, NatLessThanWellFounded
  <1>2. \A y \in S : ~ (y < x)
    BY <1>1 DEF OpToRel
  <1>3. \A y \in S : x <= y
    BY <1>2
  <1> QED BY <1>3 DEF Min

LEMMA JoinedSeq ==
  ASSUME NEW R, NEW a \in Seq(R), NEW b \in Seq(R)
  PROVE  a \o b \in Seq(R) /\ ToSet(a \o b) \subseteq ToSet(a) \cup ToSet(b)
  <1>1. /\ a \o b \in Seq(R) /\ Len(a \o b) = Len(a) + Len(b)
        /\ \A i \in 1 .. Len(a) + Len(b) : (a \o b)[i] =
                     IF i <= Len(a) THEN a[i] ELSE b[i - Len(a)]
    BY ConcatProperties, Zenon
  <1>2. PICK c \in Seq(R) : c = a \o b
    BY <1>1
  <1>3. Len(c) = Len(a) + Len(b) /\ \A i \in 1 .. Len(c) :
           (i <= Len(a) => c[i] = a[i]) /\ (~ (i <= Len(a)) => c[i] = b[i - Len(a)])
    BY <1>1, <1>2
  <1>4. ASSUME NEW i \in 1 .. Len(c) PROVE c[i] \in ToSet(a) \cup ToSet(b)
    <2>1. CASE i <= Len(a)
      BY <1>3, <2>1 DEF ToSet
    <2>2. CASE ~ (i <= Len(a))
      <3>1. i - Len(a) \in 1 .. Len(b)
        BY <1>3, <2>2
      <3> QED BY <1>3, <2>2, <3>1 DEF ToSet
    <2> QED BY <2>1, <2>2
  <1>5. DOMAIN c = 1 .. Len(c)
    OBVIOUS
  <1>6. ToSet(c) \subseteq ToSet(a) \cup ToSet(b)
    BY <1>4, <1>5 DEF ToSet
  <1> QED BY <1>2, <1>6

LEMMA CutSeq ==
  ASSUME NEW R, NEW s \in Seq(R), NEW i \in Nat, NEW j \in Nat, i >= 1, j <= Len(s)
  PROVE  SubSeq(s, i, j) \in Seq(R) /\ ToSet(SubSeq(s, i, j)) \subseteq ToSet(s)
  <1>1. PICK c : c = SubSeq(s, i, j)
    OBVIOUS
  <1>2. c \in Seq(R)
    BY <1>1
  <1>3. ASSUME NEW k \in 1 .. Len(c) PROVE c[k] \in ToSet(s)
    <2>1. i + k - 1 \in 1 .. Len(s) /\ c[k] = s[i + k - 1]
      BY <1>1
    <2> QED BY <2>1 DEF ToSet
  <1>4. DOMAIN c = 1 .. Len(c)
    BY <1>2
  <1>5. ToSet(c) \subseteq ToSet(s)
    BY <1>3, <1>4 DEF ToSet
  <1> QED BY <1>1, <1>2, <1>5

LEMMA RemovedAt ==
  ASSUME NEW R, NEW s \in Seq(R), NEW i \in 1 .. Len(s)
  PROVE  RemoveAt(s, i) \in Seq(R) /\ ToSet(RemoveAt(s, i)) \subseteq ToSet(s)
  <1>1. PICK a : a = SubSeq(s, 1, i - 1)
    OBVIOUS
  <1>2. PICK b : b = SubSeq(s, i + 1, Len(s))
    OBVIOUS
  <1>3. a \in Seq(R) /\ ToSet(a) \subseteq ToSet(s)
    BY <1>1, CutSeq
  <1>4. b \in Seq(R) /\ ToSet(b) \subseteq ToSet(s)
    BY <1>2, CutSeq
  <1>5. a \o b \in Seq(R) /\ ToSet(a \o b) \subseteq ToSet(a) \cup ToSet(b)
    BY <1>3, <1>4, JoinedSeq
  <1>6. RemoveAt(s, i) = a \o b
    BY <1>1, <1>2 DEF RemoveAt
  <1> QED BY <1>3, <1>4, <1>5, <1>6

\* RemoveFirst gives a sequence with nothing new.
LEMMA Removed ==
  ASSUME NEW R, NEW s \in Seq(R), NEW q
  PROVE  RemoveFirst(s, q) \in Seq(R) /\ ToSet(RemoveFirst(s, q)) \subseteq ToSet(s)
  <1>1. CASE \E i \in 1 .. Len(s) : s[i] = q
    <2> DEFINE I == {i \in 1 .. Len(s) : s[i] = q}
    <2>1. RemoveFirst(s, q) = RemoveAt(s, Min(I))
      BY <1>1 DEF RemoveFirst, SelectInSeq
    <2>2. I \in SUBSET Nat /\ I # {}
      BY <1>1
    <2> HIDE DEF I
    <2>3. Min(I) \in I
      BY <2>2, LeastIn
    <2> QED BY <2>1, <2>3, RemovedAt DEF I
  <1>2. CASE ~ \E i \in 1 .. Len(s) : s[i] = q
    BY <1>2 DEF RemoveFirst
  <1> QED BY <1>1, <1>2

LEMMA Parameters ==
  /\ MaxLeases \in Nat /\ MaxRequests \in Nat /\ WithdrawnAge \in Nat /\ IdleTimeout \in Nat
  /\ Lifetime \in Nat /\ AcquireTimeout \in Nat /\ ReleaseTimeout \in Nat
  /\ ProbeTimeout \in Nat /\ IdlePoll \in Nat /\ Made \in Nat
  BY BrokerAssumption

LEMMA RecordTyped ==
  ASSUME NEW r \in Records
  PROVE  /\ \A x \in States : [r EXCEPT !.state = x] \in Records
                              /\ [r EXCEPT !.state = x].state = x
                              /\ [r EXCEPT !.state = x].requests = r.requests
         /\ \A s \in Seq(Requests) : [r EXCEPT !.requests = s] \in Records
                              /\ [r EXCEPT !.requests = s].state = r.state
                              /\ [r EXCEPT !.requests = s].requests = s
  BY DEF Records

LEMMA UpdateTyped ==
  ASSUME RecordsTyped, NEW l \in Leases, NEW r \in Records, NEW w \in Outcomes,
         Update(l, r, w) \/ Advance(l, r, w)
  PROVE  RecordsTyped'
  BY DEF RecordsTyped, Update, Advance, Persist, Outcomes

LEMMA UpdateJoins ==
  ASSUME RecordsTyped, NEW l \in Leases, NEW r \in Records, NEW w \in Outcomes,
         Update(l, r, w) \/ Advance(l, r, w),
         r.state = "launching"
           => mem[l].state = "launching" /\ ToSet(r.requests) \subseteq ToSet(mem[l].requests)
  PROVE  NoNewWaiter
  <1>1. mem' = mem \/ mem' = [mem EXCEPT ![l] = r]
    BY DEF Update, Advance
  <1>2. \A k \in Leases : mem'[k] = mem[k] \/ (k = l /\ mem'[k] = r)
    BY <1>1 DEF RecordsTyped
  <1> QED BY <1>2 DEF NoNewWaiter

LEMMA UnwrittenKeeps ==
  ASSUME RecordsTyped, Unwritten
  PROVE  RecordsTyped' /\ NoNewWaiter
  BY DEF RecordsTyped, Unwritten, NoNewWaiter

LEMMA NapTyped ==
  ASSUME TypeOK, NEW l \in Leases
  PROVE  /\ Expires(l) \in Nat /\ NapEnd(l) \in Nat
         /\ Earlier(mem[l].created + AcquireTimeout, Expires(l)) \in Nat
         /\ Earlier(now + ProbeTimeout, Expires(l)) \in Nat
  <1>1. mem[l].created \in Nat /\ now \in Nat
    BY DEF TypeOK, Records
  <1>2. Expires(l) \in Nat
    BY <1>1, Parameters DEF Expires
  <1> QED BY <1>1, <1>2, Parameters DEF NapEnd, Earlier

LEMMA UnheardKeeps ==
  ASSUME WithdrawInv, Unheard
  PROVE  WithdrawInv'
  <1>1. TypeOK /\ TypeOK' /\ answered' = answered /\ withdrawn' = withdrawn
    BY DEF WithdrawInv, Unheard
  <1>2. ASSUME NEW q \in Requests, answered[q].how = "unknown",
               now' - answered[q].at <= WithdrawnAge
        PROVE  withdrawn[q] = answered[q].at /\ ~Awaited(q)'
    <2>1. now - answered[q].at <= WithdrawnAge
      <3>1. now \in Nat /\ now' \in Nat /\ answered[q].at \in Nat /\ now' >= now
        BY <1>1 DEF TypeOK, Unheard
      <3> QED BY <1>2, <3>1, Parameters
    <2>2. withdrawn[q] = answered[q].at /\ ~Awaited(q)
      BY <1>2, <2>1 DEF WithdrawInv, Heeded
    <2>3. ~Awaited(q)'
      BY <2>2 DEF Unheard, NoNewWaiter, Awaited
    <2> QED BY <2>2, <2>3
  <1> QED BY <1>1, <1>2 DEF WithdrawInv, Heeded

\* The steps of a worker, and those that change no record.
LEMMA WorkUnheard ==
  ASSUME TypeOK, NEW l \in Leases, Work(l)
  PROVE  Unheard
  <1> USE DEF worker, soft, bounds, ghosts, leaseVars
  <1>0. RecordsTyped /\ mem[l] \in Records /\ now \in Nat /\ pc \in [Leases -> Places]
        /\ until \in [Leases -> Nat]
    BY DEF TypeOK, RecordsTyped
  <1>1. ASSUME NEW p \in Places, Goto(l, p) PROVE pc' \in [Leases -> Places]
    BY <1>0, <1>1 DEF Goto
  <1>2. ASSUME NEW p \in Places, NEW d \in Nat, WaitFor(l, p, d)
        PROVE  pc' \in [Leases -> Places] /\ until' \in [Leases -> Nat]
    BY <1>0, <1>2 DEF WaitFor, Goto
  <1>3. {"off", "top", "acquire", "waitready", "failed", "watch", "probe", "decide", "sleep",
           "release", "retry"} = Places
    BY DEF Places
  <1>4. CASE WorkNext(l)
    <2>1. Unwritten
      BY <1>4 DEF WorkNext
    <2>2. pc' \in [Leases -> Places] /\ until' \in [Leases -> Nat]
      <3>1. now + ReleaseTimeout \in Nat
        BY <1>0, Parameters
      <3>2. CASE mem[l].state = "launching"
        BY <1>2, <1>3, <1>4, <3>2, NapTyped DEF WorkNext
      <3>3. CASE mem[l].state = "ready"
        BY <1>0, <1>1, <1>3, <1>4, <3>3 DEF WorkNext
      <3>4. CASE mem[l].state = "releasing"
        BY <1>2, <1>3, <1>4, <3>1, <3>4 DEF WorkNext
      <3>5. CASE mem[l].state \notin {"launching", "ready", "releasing"}
        BY <1>0, <1>1, <1>3, <1>4, <3>5 DEF WorkNext
      <3> QED BY <3>2, <3>3, <3>4, <3>5
    <2>3. RecordsTyped' /\ NoNewWaiter
      BY <1>0, <2>1, UnwrittenKeeps
    <2> QED BY <1>4, <2>2, <2>3 DEF WorkNext, Unheard, TypeOK, RecordsTyped
  <1>5. CASE CreateMachine(l)
    BY <1>0, <1>5 DEF CreateMachine, Unheard, TypeOK, NoNewWaiter
  <1>6. CASE AcquireDone(l)
    <2>1. PICK w \in Outcomes : Update(l, mem[l], w) /\ Goto(l, IF w = "ok" THEN "waitready" ELSE "failed")
      BY <1>6 DEF AcquireDone
    <2>2. RecordsTyped' /\ NoNewWaiter
      BY <1>0, <2>1, UpdateTyped, UpdateJoins
    <2>3. pc' \in [Leases -> Places]
      BY <1>1, <1>3, <2>1
    <2> QED BY <1>6, <2>2, <2>3 DEF AcquireDone, Unheard, TypeOK, RecordsTyped
  <1>7. CASE LaunchCut(l)
    <2>1. pc' \in [Leases -> Places]
      BY <1>1, <1>3, <1>7 DEF LaunchCut
    <2> QED BY <1>7, <2>1 DEF LaunchCut, Unheard, TypeOK, NoNewWaiter
  <1>8. CASE LaunchReady(l)
    <2>1. CASE mem[l].state = "launching"
      <3>1. PICK w \in Outcomes :
              /\ Update(l, [mem[l] EXCEPT !.state = "ready"], w)
              /\ lastBusy' = IF w = "ok" THEN [lastBusy EXCEPT ![l] = now] ELSE lastBusy
              /\ Goto(l, IF w = "ok" THEN "top" ELSE "failed")
        BY <1>8, <2>1 DEF LaunchReady
      <3>2. [mem[l] EXCEPT !.state = "ready"] \in Records /\ [mem[l] EXCEPT !.state = "ready"].state = "ready"
        BY <1>0, RecordTyped DEF States
      <3>3. RecordsTyped' /\ NoNewWaiter
        BY <1>0, <3>1, <3>2, UpdateTyped, UpdateJoins
      <3>4. pc' \in [Leases -> Places]
        BY <1>1, <1>3, <3>1
      <3>5. lastBusy' \in [Leases -> Nat]
        BY <1>0, <3>1 DEF TypeOK
      <3> QED BY <1>8, <3>3, <3>4, <3>5 DEF LaunchReady, Unheard, TypeOK, RecordsTyped
    <2>2. CASE mem[l].state # "launching"
      <3>1. Unwritten /\ Goto(l, "top") /\ UNCHANGED lastBusy
        BY <1>8, <2>2 DEF LaunchReady
      <3>2. RecordsTyped' /\ NoNewWaiter
        BY <1>0, <3>1, UnwrittenKeeps
      <3>3. pc' \in [Leases -> Places]
        BY <1>1, <1>3, <3>1
      <3> QED BY <1>8, <3>1, <3>2, <3>3 DEF LaunchReady, Unheard, TypeOK, RecordsTyped
    <2> QED BY <2>1, <2>2
  <1>9. ASSUME NEW x \in {"releasing", "ended"}, NEW w \in Outcomes,
               \/ Advance(l, [mem[l] EXCEPT !.state = x], w)
               \/ Update(l, [mem[l] EXCEPT !.state = x], w)
        PROVE  RecordsTyped' /\ NoNewWaiter
    <2>0. x \in States
      BY DEF States
    <2>1. [mem[l] EXCEPT !.state = x] \in Records /\ [mem[l] EXCEPT !.state = x].state = x
      BY <1>0, <2>0, RecordTyped
    <2> QED BY <1>0, <1>9, <2>1, UpdateTyped, UpdateJoins
  <1>10. CASE LaunchFailed(l)
    <2>1. RecordsTyped' /\ NoNewWaiter
      BY <1>0, <1>9, <1>10, UnwrittenKeeps DEF LaunchFailed
    <2>2. pc' \in [Leases -> Places]
      BY <1>1, <1>3, <1>10 DEF LaunchFailed
    <2> QED BY <1>10, <2>1, <2>2 DEF LaunchFailed, Unheard, TypeOK, RecordsTyped
  <1>11. CASE Watch(l)
    <2>1. pc' \in [Leases -> Places] /\ until' \in [Leases -> Nat]
      <3>1. CASE mem[l].state # "ready"
        BY <1>0, <1>1, <1>3, <1>11, <3>1 DEF Watch
      <3>2. CASE mem[l].state = "ready" /\ now < Expires(l)
        BY <1>2, <1>3, <1>11, <3>2, NapTyped DEF Watch
      <3>3. CASE mem[l].state = "ready" /\ ~ (now < Expires(l))
        BY <1>0, <1>1, <1>3, <1>11, <3>3 DEF Watch
      <3> QED BY <3>1, <3>2, <3>3
    <2> QED BY <1>11, <2>1 DEF Watch, Unheard, TypeOK, NoNewWaiter
  <1>12. CASE Probed(l)
    <2>1. PICK busy \in BOOLEAN, failed \in BOOLEAN :
             /\ checkFailed' = [checkFailed EXCEPT ![l] = failed]
             /\ lastBusy' = IF busy THEN [lastBusy EXCEPT ![l] = now] ELSE lastBusy
      BY <1>12 DEF Probed
    <2>2. checkFailed' \in [Leases -> BOOLEAN]
      BY <2>1 DEF TypeOK
    <2>3. lastBusy' \in [Leases -> Nat]
      BY <2>1, <1>0 DEF TypeOK
    <2>4. pc' \in [Leases -> Places]
      BY <1>1, <1>3, <1>12 DEF Probed
    <2> QED BY <1>12, <2>2, <2>3, <2>4 DEF Probed, Unheard, TypeOK, NoNewWaiter
  <1>13. CASE Decide(l)
    <2>1. RecordsTyped' /\ NoNewWaiter
      BY <1>0, <1>9, <1>13, UnwrittenKeeps DEF Decide
    <2>2. pc' \in [Leases -> Places] /\ until' \in [Leases -> Nat]
      BY <1>0, <1>1, <1>2, <1>3, <1>13, NapTyped DEF Decide
    <2> QED BY <1>13, <2>1, <2>2 DEF Decide, Unheard, TypeOK, RecordsTyped
  <1>14. CASE WakeUp(l)
    <2>1. pc' \in [Leases -> Places]
      BY <1>1, <1>3, <1>14 DEF WakeUp
    <2> QED BY <1>14, <2>1 DEF WakeUp, Unheard, TypeOK, NoNewWaiter
  <1>15. CASE ReleaseRetry(l)
    <2>1. now + IdlePoll \in Nat
      BY <1>0, Parameters
    <2>2. pc' \in [Leases -> Places] /\ until' \in [Leases -> Nat]
      BY <1>2, <1>3, <1>15, <2>1 DEF ReleaseRetry
    <2>3. machine' \in [Leases -> {"none", "running", "gone"}]
      BY <1>15 DEF ReleaseRetry, TypeOK
    <2> QED BY <1>15, <2>2, <2>3 DEF ReleaseRetry, Unheard, TypeOK, NoNewWaiter
  <1>16. CASE Released(l)
    <2>1. RecordsTyped' /\ NoNewWaiter
      BY <1>9, <1>16 DEF Released
    <2>2. pc' \in [Leases -> Places]
      BY <1>1, <1>3, <1>16 DEF Released
    <2>3. machine' \in [Leases -> {"none", "running", "gone"}]
      BY <1>16 DEF Released, TypeOK
    <2> QED BY <1>16, <2>1, <2>2, <2>3 DEF Released, Unheard, TypeOK, RecordsTyped
  <1>17. CASE Prune(l)
    <2>1. NoLease \in Records /\ NoLease.state = "none"
      BY DEF NoLease, Records, States
    <2>2. disk' \in [Leases -> Records] /\ mem' \in [Leases -> Records]
      BY <1>0, <1>17, <2>1 DEF Prune, RecordsTyped
    <2>3. NoNewWaiter
      BY <1>0, <1>17, <2>1 DEF Prune, RecordsTyped, NoNewWaiter
    <2> QED BY <1>17, <2>2, <2>3 DEF Prune, Unheard, TypeOK
  <1>18. CASE Note(l)
    <2>1. disk' \in [Leases -> Records]
      BY <1>0, <1>18 DEF Note, RecordsTyped
    <2> QED BY <1>18, <2>1 DEF Note, Unheard, TypeOK, NoNewWaiter
  <1> QED BY <1>4, <1>5, <1>6, <1>7, <1>8, <1>10, <1>11, <1>12, <1>13, <1>14, <1>15, <1>16,
             <1>17, <1>18 DEF Work

\* Release, Admit, AskAgain and Tick.
LEMMA OwnerUnheard ==
  ASSUME TypeOK,
         (\E l \in Leases : Release(l) \/ Admit(l)) \/ Tick \/ (\E q \in Requests : AskAgain(q))
  PROVE  Unheard
  <1> USE DEF worker, soft, bounds, ghosts, leaseVars
  <1>0. RecordsTyped /\ now \in Nat
    BY DEF TypeOK, RecordsTyped
  <1>1. ASSUME NEW l \in Leases, Release(l) PROVE Unheard
    <2>1. PICK w \in Outcomes : Update(l, [mem[l] EXCEPT !.state = "releasing"], w)
      BY <1>1 DEF Release
    <2>2. /\ [mem[l] EXCEPT !.state = "releasing"] \in Records
          /\ [mem[l] EXCEPT !.state = "releasing"].state = "releasing"
      BY <1>0, RecordTyped DEF States, RecordsTyped
    <2>3. RecordsTyped' /\ NoNewWaiter
      BY <1>0, <2>1, <2>2, UpdateTyped, UpdateJoins
    <2> QED BY <1>1, <2>3 DEF Release, Unheard, TypeOK, RecordsTyped
  <1>2. ASSUME NEW l \in Leases, Admit(l) PROVE Unheard
    <2>1. lastBusy' \in [Leases -> Nat] /\ claimed' \in [Leases -> Times]
      BY <1>0, <1>2 DEF Admit, TypeOK, Times
    <2> QED BY <1>2, <2>1 DEF Admit, Unheard, TypeOK, NoNewWaiter
  <1>3. CASE Tick
    <2>1. now' \in Nat /\ now' >= now
      BY <1>0, <1>3 DEF Tick
    <2> QED BY <1>3, <2>1 DEF Tick, Unheard, TypeOK, NoNewWaiter
  <1>4. ASSUME NEW q \in Requests, AskAgain(q) PROVE Unheard
    <2>1. claimed' \in [Leases -> Times]
      BY <1>0, <1>4 DEF AskAgain, TypeOK, Times
    <2> QED BY <1>4, <2>1 DEF AskAgain, Unheard, TypeOK, NoNewWaiter
  <1> QED BY <1>1, <1>2, <1>3, <1>4

\* Only what the withdrawn request itself does could break its promise: a request
\* that joins is not one that was withdrawn in time.
LEMMA JoinKeeps ==
  ASSUME WithdrawInv, TypeOK', NEW q \in Requests, Asks(q),
         UNCHANGED <<now, withdrawn, answered>>,
         \A l \in Leases : mem'[l].state = "launching"
            => \/ /\ mem[l].state = "launching"
                  /\ ToSet(mem'[l].requests) \subseteq ToSet(mem[l].requests) \cup {q}
               \/ ToSet(mem'[l].requests) \subseteq {q}
  PROVE  WithdrawInv'
  <1>1. ASSUME NEW x \in Requests, answered[x].how = "unknown",
               now - answered[x].at <= WithdrawnAge
        PROVE  withdrawn[x] = answered[x].at /\ ~Awaited(x)'
    <2>1. withdrawn[x] = answered[x].at /\ ~Awaited(x)
      BY <1>1 DEF WithdrawInv, Heeded
    <2>2. x # q
      <3>1. answered[x].at \in Nat /\ answered[x].at # Never
        BY DEF WithdrawInv, TypeOK, Never
      <3>2. WithdrawnNow(x)
        BY <1>1, <2>1, <3>1 DEF WithdrawnNow
      <3> QED BY <3>2 DEF Asks
    <2>3. ~Awaited(x)'
      BY <2>1, <2>2 DEF Awaited
    <2> QED BY <2>1, <2>3
  <1> QED BY <1>1 DEF WithdrawInv, Heeded

LEMMA ShareKeeps ==
  ASSUME WithdrawInv, NEW q \in Requests, Share(q)
  PROVE  WithdrawInv'
  <1> USE DEF worker, soft, bounds, ghosts, leaseVars
  <1>0. TypeOK /\ RecordsTyped /\ now \in Nat
    BY DEF WithdrawInv, TypeOK, RecordsTyped
  <1>1. PICK l \in Leases : l = Newest(Shareable)
    <2>1. Shareable \subseteq Leases /\ Shareable # {}
      BY DEF Share, Shareable
    <2> QED BY <2>1, NewestIn
  <1>2. PICK reqs : reqs = IF mem[l].state = "ready" /\ Len(Append(mem[l].requests, q)) > MaxRequests
                           THEN Tail(Append(mem[l].requests, q)) ELSE Append(mem[l].requests, q)
    OBVIOUS
  <1>3. PICK w \in Outcomes :
           /\ Update(l, [mem[l] EXCEPT !.requests = reqs], w)
           /\ IF w = "ok" /\ mem[l].state = "ready"
              THEN /\ lastBusy' = [lastBusy EXCEPT ![l] = now]
                   /\ claimed' = [claimed EXCEPT ![l] = now]
              ELSE UNCHANGED <<lastBusy, claimed>>
    BY <1>1, <1>2 DEF Share
  <1>4. mem[l] \in Records /\ mem[l].requests \in Seq(Requests)
    BY <1>0 DEF RecordsTyped, Records
  <1>5. PICK all : all = Append(mem[l].requests, q)
    OBVIOUS
  <1>6. all \in Seq(Requests) /\ Len(all) = Len(mem[l].requests) + 1
        /\ \A i \in 1 .. Len(all) : all[i] = q \/ (i \in 1 .. Len(mem[l].requests)
                                                   /\ all[i] = mem[l].requests[i])
    BY <1>4, <1>5
  <1>7. ToSet(all) \subseteq ToSet(mem[l].requests) \cup {q}
    <2>1. DOMAIN all = 1 .. Len(all) /\ DOMAIN mem[l].requests = 1 .. Len(mem[l].requests)
      BY <1>4, <1>6
    <2> QED BY <1>6, <2>1 DEF ToSet
  <1>8. reqs \in Seq(Requests)
    <2>1. Len(all) > 0
      BY <1>4, <1>6
    <2>2. Tail(all) \in Seq(Requests)
      BY <1>6, <2>1
    <2> QED BY <1>2, <1>5, <1>6, <2>2
  <1>9. PICK r \in Records : /\ r = [mem[l] EXCEPT !.requests = reqs]
                             /\ r.state = mem[l].state /\ r.requests = reqs
    <2>1. /\ [mem[l] EXCEPT !.requests = reqs] \in Records
          /\ [mem[l] EXCEPT !.requests = reqs].state = mem[l].state
          /\ [mem[l] EXCEPT !.requests = reqs].requests = reqs
      BY <1>4, <1>8, RecordTyped
    <2> QED BY <2>1
  <1>10. RecordsTyped'
    BY <1>0, <1>3, <1>9, UpdateTyped
  <1>11. lastBusy' \in [Leases -> Nat] /\ claimed' \in [Leases -> Times]
    BY <1>0, <1>3 DEF TypeOK, Times
  <1>12. TypeOK'
    BY <1>0, <1>10, <1>11 DEF Share, TypeOK, RecordsTyped
  <1>13. ASSUME NEW k \in Leases, mem'[k].state = "launching"
         PROVE  /\ mem[k].state = "launching"
                /\ ToSet(mem'[k].requests) \subseteq ToSet(mem[k].requests) \cup {q}
    <2>1. mem' = mem \/ mem' = [mem EXCEPT ![l] = r]
      BY <1>3, <1>9 DEF Update
    <2>2. mem'[k] = mem[k] \/ (k = l /\ mem'[k] = r)
      BY <1>0, <2>1 DEF RecordsTyped
    <2>3. CASE k = l /\ mem'[k] = r
      BY <1>2, <1>5, <1>7, <1>9, <1>13, <2>3
    <2> QED BY <1>13, <2>2, <2>3
  <1>14. Asks(q) /\ UNCHANGED <<now, withdrawn, answered>>
    BY DEF Share
  <1> QED BY <1>12, <1>13, <1>14, JoinKeeps

LEMMA LaunchKeeps ==
  ASSUME WithdrawInv, NEW q \in Requests, LaunchLease(q)
  PROVE  WithdrawInv'
  <1> USE DEF worker, soft, bounds, ghosts, leaseVars
  <1>0. TypeOK /\ RecordsTyped /\ now \in Nat /\ made \in 0 .. Made
    BY DEF WithdrawInv, TypeOK, RecordsTyped
  <1>1. PICK l \in Leases : l = made + 1
    BY <1>0, Parameters DEF LaunchLease, Leases
  <1>2. PICK r : r = [NoLease EXCEPT !.state = "launching", !.requests = <<q>>, !.created = now]
    OBVIOUS
  <1>3. r = [state |-> "launching", requests |-> <<q>>, created |-> now]
    BY <1>2 DEF NoLease
  <1>4. r \in Records /\ r.requests = <<q>>
    BY <1>0, <1>3 DEF Records, States
  <1>5. PICK w \in Outcomes :
             /\ Update(l, r, w)
             /\ pc' = IF w = "ok" THEN [pc EXCEPT ![l] = "top"] ELSE pc
    BY <1>1, <1>2 DEF LaunchLease
  <1>6. RecordsTyped'
    BY <1>0, <1>4, <1>5, UpdateTyped
  <1>7. pc' \in [Leases -> Places] /\ made' \in 0 .. Made
    <2>1. pc' \in [Leases -> Places]
      BY <1>0, <1>5 DEF TypeOK, Places
    <2>2. made' \in 0 .. Made
      BY <1>0, Parameters DEF LaunchLease
    <2> QED BY <2>1, <2>2
  <1>8. TypeOK'
    BY <1>0, <1>6, <1>7 DEF LaunchLease, TypeOK, RecordsTyped
  <1>9. ToSet(<<q>>) \subseteq {q}
    BY DEF ToSet
  <1>10. \A k \in Leases : mem'[k] = mem[k] \/ mem'[k] = r
    <2>1. mem' = mem \/ mem' = [mem EXCEPT ![l] = r]
      BY <1>5 DEF Update
    <2> QED BY <1>0, <2>1 DEF RecordsTyped
  <1>11. Asks(q) /\ UNCHANGED <<now, withdrawn, answered>>
    BY DEF LaunchLease
  <1>12. ASSUME NEW k \in Leases, mem'[k].state = "launching"
         PROVE  \/ /\ mem[k].state = "launching"
                   /\ ToSet(mem'[k].requests) \subseteq ToSet(mem[k].requests) \cup {q}
                \/ ToSet(mem'[k].requests) \subseteq {q}
    BY <1>4, <1>9, <1>10, <1>12
  <1> QED BY <1>8, <1>11, <1>12, JoinKeeps

LEMMA WithdrawHandedKeeps ==
  ASSUME WithdrawInv, NEW q \in Requests, NEW l \in Leases, WithdrawHanded(q, l)
  PROVE  WithdrawInv'
  <1> USE DEF worker, soft, bounds, ghosts, leaseVars
  <1>0. TypeOK /\ RecordsTyped /\ now \in Nat
    BY DEF WithdrawInv, TypeOK, RecordsTyped
  <1>1. mem[l] \in Records /\ mem[l].requests \in Seq(Requests)
    BY <1>0 DEF RecordsTyped, Records
  <1>2. PICK left \in Seq(Requests) : /\ left = RemoveFirst(mem[l].requests, q)
                                      /\ ToSet(left) \subseteq ToSet(mem[l].requests)
    BY <1>1, Removed
  <1>3. PICK r : r = [mem[l] EXCEPT !.requests = left,
                                    !.state = IF left = <<>> THEN "releasing" ELSE @]
    OBVIOUS
  <1>4. r \in Records /\ r.requests = left /\ r.state \in {"releasing", mem[l].state}
    BY <1>1, <1>3 DEF Records, States
  <1>5. /\ RecordsTyped' /\ NoNewWaiter
        /\ answered' = answered \/ Answer(q, "found")
    <2>1. CASE mem[l].state = "launching"
      <3>1. PICK w \in Outcomes :
              /\ Update(l, r, w)
              /\ IF w = "ok" THEN Answer(q, "found") ELSE UNCHANGED answered
        BY <1>2, <1>3, <2>1 DEF WithdrawHanded
      <3>2. RecordsTyped' /\ NoNewWaiter
        BY <1>0, <1>2, <1>4, <2>1, <3>1, UpdateTyped, UpdateJoins
      <3> QED BY <3>1, <3>2
    <2>2. CASE mem[l].state # "launching"
      BY <1>0, <2>2, UnwrittenKeeps DEF WithdrawHanded
    <2> QED BY <2>1, <2>2
  <1>6. answered' \in [Requests -> [how : {"none", "found", "unknown"}, at : Nat]]
    <2>1. [how |-> "found", at |-> now] \in [how : {"none", "found", "unknown"}, at : Nat]
      BY <1>0
    <2> QED BY <1>0, <1>5, <2>1 DEF TypeOK, Answer
  <1>7. TypeOK'
    BY <1>0, <1>5, <1>6 DEF WithdrawHanded, TypeOK, RecordsTyped
  <1>8. ASSUME NEW x \in Requests PROVE Heeded(x)'
    <2>1. answered'[x] = answered[x] \/ answered'[x].how # "unknown"
      BY <1>0, <1>5 DEF TypeOK, Answer
    <2>2. Awaited(x)' => Awaited(x)
      BY <1>5 DEF Awaited, NoNewWaiter
    <2>3. now' = now /\ withdrawn' = withdrawn /\ Heeded(x)
      BY DEF WithdrawHanded, WithdrawInv
    <2> QED BY <2>1, <2>2, <2>3 DEF Heeded
  <1> QED BY <1>7, <1>8 DEF WithdrawInv

LEMMA WithdrawUnknownKeeps ==
  ASSUME WithdrawInv, NEW q \in Requests, WithdrawUnknown(q)
  PROVE  WithdrawInv'
  <1> USE DEF worker, soft, bounds, ghosts, leaseVars
  <1>0. TypeOK /\ now \in Nat
    BY DEF WithdrawInv, TypeOK
  <1>1. Unexpired \in [Requests -> Times]
    BY <1>0 DEF Unexpired, TypeOK, Times, Never
  <1>2. /\ withdrawn' \in [Requests -> Times]
        /\ answered' \in [Requests -> [how : {"none", "found", "unknown"}, at : Nat]]
    <2>1. withdrawn' \in [Requests -> Times]
      BY <1>0, <1>1 DEF WithdrawUnknown, Times
    <2>2. [how |-> "unknown", at |-> now] \in [how : {"none", "found", "unknown"}, at : Nat]
      BY <1>0
    <2>3. answered' \in [Requests -> [how : {"none", "found", "unknown"}, at : Nat]]
      BY <1>0, <2>2 DEF WithdrawUnknown, Answer, TypeOK
    <2> QED BY <2>1, <2>3
  <1>3. TypeOK'
    BY <1>0, <1>2 DEF WithdrawUnknown, TypeOK
  <1>4. now' = now /\ mem' = mem
    BY DEF WithdrawUnknown
  <1>5. ASSUME NEW x \in Requests PROVE Heeded(x)'
    <2>1. CASE x = q /\ HasRoom(q)
      <3>1. withdrawn'[q] = now /\ answered'[q] = [how |-> "unknown", at |-> now]
        BY <1>0, <1>1, <2>1 DEF WithdrawUnknown, Answer, TypeOK
      <3>2. ~Awaited(q)
        BY DEF WithdrawUnknown, HandedTo, Awaited
      <3> QED BY <1>4, <2>1, <3>1, <3>2 DEF Heeded, Awaited
    <2>2. CASE ~ (x = q /\ HasRoom(q))
      <3>1. withdrawn'[x] = Unexpired[x] /\ answered'[x] = answered[x]
        BY <1>0, <1>1, <2>2 DEF WithdrawUnknown, Answer, TypeOK
      <3>2. ASSUME answered[x].how = "unknown", now - answered[x].at <= WithdrawnAge
            PROVE  Unexpired[x] = answered[x].at /\ ~Awaited(x)
        <4>1. withdrawn[x] = answered[x].at /\ ~Awaited(x)
          BY <3>2 DEF WithdrawInv, Heeded
        <4>2. answered[x].at \in Nat /\ answered[x].at # Never
          BY <1>0 DEF TypeOK, Never
        <4>3. WithdrawnNow(x)
          BY <3>2, <4>1, <4>2 DEF WithdrawnNow
        <4> QED BY <4>1, <4>3 DEF Unexpired
      <3> QED BY <1>4, <3>1, <3>2 DEF Heeded, Awaited
    <2> QED BY <2>1, <2>2
  <1> QED BY <1>3, <1>5 DEF WithdrawInv

\* A crash forgets the withdrawals and what was promised of them; the launches it
\* cuts short are released.
LEMMA OutageKeeps ==
  ASSUME WithdrawInv, Crash \/ Restart
  PROVE  WithdrawInv'
  <1> USE DEF worker, soft, bounds, ghosts, leaseVars
  <1>0. TypeOK /\ now \in Nat
    BY DEF WithdrawInv, TypeOK
  <1>1. CASE Crash
    <2>1. NoLease \in Records
      BY DEF NoLease, Records, States
    <2>2. mem' \in [Leases -> Records] /\ crashes' \in Nat
      BY <1>0, <1>1, <2>1 DEF Crash, TypeOK
    <2>3. /\ lastBusy' \in [Leases -> Nat] /\ until' \in [Leases -> Nat]
          /\ pc' \in [Leases -> Places]
          /\ withdrawn' \in [Requests -> Times]
      BY <1>1 DEF Crash, Places, Times
    <2>4. checkFailed' \in [Leases -> BOOLEAN] /\ up' \in BOOLEAN
      BY <1>1 DEF Crash
    <2>5. /\ answered' \in [Requests -> [how : {"none", "found", "unknown"}, at : Nat]]
          /\ \A q \in Requests : answered'[q].how # "unknown"
      BY <1>1 DEF Crash, NoAnswer
    <2>6. TypeOK'
      BY <1>0, <1>1, <2>2, <2>3, <2>4, <2>5 DEF Crash, TypeOK
    <2> QED BY <2>5, <2>6 DEF WithdrawInv, Heeded
  <1>2. CASE Restart
    <2>1. ASSUME NEW l \in Leases
          PROVE  Interrupted(disk[l]) \in Records /\ Interrupted(disk[l]).state # "launching"
      BY <1>0 DEF Interrupted, TypeOK, Records, States
    <2>2. /\ disk' \in [Leases -> Records] /\ mem' = disk'
          /\ \A l \in Leases : mem'[l].state # "launching"
      BY <1>2, <2>1 DEF Restart
    <2>3. lastBusy' \in [Leases -> Nat] /\ pc' \in [Leases -> Places] /\ upSince' \in Nat
      BY <1>0, <1>2 DEF Restart, Places
    <2>4. checkFailed' \in [Leases -> BOOLEAN] /\ up' \in BOOLEAN
      BY <1>2 DEF Restart
    <2>5. UNCHANGED <<now, withdrawn, answered, until, machine, made, crashes, faults, claimed>>
      BY <1>2 DEF Restart
    <2>6. TypeOK'
      BY <1>0, <2>2, <2>3, <2>4, <2>5 DEF TypeOK
    <2>7. \A q \in Requests : ~Awaited(q)'
      BY <2>2 DEF Awaited
    <2> QED BY <2>5, <2>6, <2>7 DEF WithdrawInv, Heeded
  <1> QED BY <1>1, <1>2

LEMMA WithdrawStep ==
  ASSUME WithdrawInv, [Next]_vars
  PROVE  WithdrawInv'
  <1>0. TypeOK
    BY DEF WithdrawInv
  <1>1. CASE UNCHANGED vars
    BY <1>1 DEF vars, worker, soft, bounds, ghosts, leaseVars, WithdrawInv, TypeOK, Heeded, Awaited
  <1>2. ASSUME NEW q \in Requests, Run(q) PROVE WithdrawInv'
    BY <1>0, <1>2, OwnerUnheard, UnheardKeeps, ShareKeeps, LaunchKeeps, WithdrawHandedKeeps,
       WithdrawUnknownKeeps DEF Run
  <1>3. ASSUME NEW l \in Leases, Release(l) \/ Admit(l) \/ Work(l) PROVE WithdrawInv'
    BY <1>0, <1>3, OwnerUnheard, WorkUnheard, UnheardKeeps
  <1>4. CASE Tick \/ Crash \/ Restart
    BY <1>0, <1>4, OwnerUnheard, UnheardKeeps, OutageKeeps
  <1> QED BY <1>1, <1>2, <1>3, <1>4 DEF Next

\* Types are kept, and a request whose withdrawal found no lease starts or joins no
\* launch for as long as withdrawn.go remembers it, for every number of requests,
\* leases and failed writes and however little room there is.
THEOREM WithdrawalsHeeded == Spec => [](TypeOK /\ LateRequestRefused)
  <1>1. Init => WithdrawInv
    <2> SUFFICES ASSUME Init PROVE WithdrawInv
      OBVIOUS
    <2>1. NoLease \in Records
      BY DEF NoLease, Records, States
    <2>2. disk \in [Leases -> Records] /\ mem \in [Leases -> Records]
      BY <2>1 DEF Init
    <2>3. up \in BOOLEAN /\ checkFailed \in [Leases -> BOOLEAN]
      BY DEF Init
    <2>4. /\ answered \in [Requests -> [how : {"none", "found", "unknown"}, at : Nat]]
          /\ \A q \in Requests : answered[q].how # "unknown"
      BY DEF Init, NoAnswer
    <2>5. TypeOK
      BY <2>2, <2>3, <2>4, Parameters DEF Init, TypeOK, Places, Times
    <2> QED BY <2>4, <2>5 DEF WithdrawInv, Heeded
  <1>2. WithdrawInv /\ [Next]_vars => WithdrawInv'
    BY WithdrawStep
  <1>3. WithdrawInv => TypeOK /\ LateRequestRefused
    BY DEF WithdrawInv, Heeded, Awaited, LateRequestRefused, Withdrew, WaitsFor
  <1> QED BY <1>1, <1>2, <1>3, PTL DEF Spec

\* Leases end in time, and withdrawals are heeded.
THEOREM LeasesAreBounded == Spec => []LeasesBounded
  BY LifetimesBounded, WithdrawalsHeeded, PTL DEF LeasesBounded

-----------------------------------------------------------------------------
(***************************************************************************)
(* The instance of a lease, proved for every number of launch requests,    *)
(* crashes and failing saves and for every delay that LambdaAssumption     *)
(* admits (InstanceReleased).                                              *)
(*                                                                         *)
(* The argument: a request goes out only where all before it were refused  *)
(* with 429, so there is one instance at most; while it may exist, memory  *)
(* and disk hold when it was sent and with which key, within the slack.    *)
(* A list that does not show it was therefore made before it was due, and  *)
(* from then to the decision less than the settle window passes; a record  *)
(* that says it was seen, or a list that shows it ended, is final.         *)
(***************************************************************************)

Calls    == {"checks", "gap", "sending", "unsaved", "slot", "wait", "poll", "install", "target",
             "returned"}
Statuses == {"none", "inflight", "limited", "refused", "dropped", "registering", "forgotten"} \cup Shown
Regions  == {pickRegion(o) : o \in Offers} \cup {NoRegion}
Persisted == [sent : -1 .. MaxWall, key : ApiKeys, id : 0 .. MaxSends, seen : BOOLEAN,
              region : Regions]

FullTypeOK ==
    /\ wall \in 0 .. MaxWall /\ began \in 0 .. MaxWall /\ began <= wall
    /\ step \in Calls
    /\ state \in Persisted /\ held \in Persisted /\ kept \in Persisted
    /\ inst \in [Sends -> Statuses] /\ due \in [Sends -> Nat]
    /\ apiKey \in ApiKeys
    /\ rel \in {"idle", "listed", "released"}
    /\ snap \in [status : [Sends -> Statuses], key : ApiKeys, at : 0 .. MaxWall]

----------------------------------------------------------------------------
\* Before the first launch request, or before the one after a 429.
Early == {"checks", "gap", "sending", "unsaved", "slot"}
\* With an instance of known identifier.
Late  == {"poll", "install", "target"}

\* Every request but the last was refused with 429, and so was the last one when
\* another may follow.
SendInv ==
    /\ \A n, k \in Sends : k < n /\ inst[n] # "none" => inst[k] = "limited"
    /\ step \in Early => \A n \in Sends : inst[n] \in {"none", "limited"}
    /\ step = "wait" => \E n \in Sends : /\ inst[n] # "none"
                                         /\ \A k \in Sends : inst[k] # "none" => k <= n
    /\ step \in Late => state.id \in Sends

\* The record of r tells enough of request n: when it was sent, within the slack,
\* and that an instance it calls seen is listed.
Tells(r, n) ==
    /\ r.sent >= 0 /\ due[n] <= r.sent + Slack + Lag
    /\ r.key = state.key
    /\ r.seen => inst[n] \notin {"inflight", "registering"}

\* What may be billed is known in memory and on disk; a list shows it in time.
KnownInv ==
    /\ step \in Early \cup {"wait"} => ~state.seen
    /\ step = "slot" => held = state /\ kept = state /\ began <= state.sent
    /\ \A n \in Sends : inst[n] \in Pending =>
         /\ Tells(held, n) /\ Tells(kept, n)
         /\ step \in Late \cup {"wait"} => Tells(state, n)
    /\ \A n \in Sends : inst[n] \in {"inflight", "registering"} => wall <= due[n]

\* Release works on an instance nobody launches again.  What it listed as ended is
\* over; what it did not list was not due when it looked.
ReleaseInv ==
    /\ rel # "idle" => step = "returned"
    /\ rel = "released" => \A n \in Sends : inst[n] \notin Pending
    /\ rel = "listed" =>
         /\ wall <= snap.at + ListTime
         /\ \A n \in Sends :
              /\ snap.status[n] \in Ended => inst[n] \in Ended \cup {"forgotten"}
              /\ inst[n] \in Pending /\ SeesInstances(snap.key)
                   /\ snap.status[n] \notin Running \cup {"terminating"}
                 => snap.at <= due[n] /\ ~held.seen

LMInv == FullTypeOK /\ SendInv /\ KnownInv /\ ReleaseInv

----------------------------------------------------------------------------
\* The delays are natural numbers, and the window covers them.
LEMMA Delays == /\ Slack \in Nat /\ Settle \in Nat /\ Lag \in Nat /\ ListTime \in Nat
                /\ MaxSends \in Nat /\ MaxWall \in Nat
                /\ Slack + Lag + ListTime < Settle
  BY LambdaAssumption

\* A lease without a launch.
LEMMA NoStateTyped == NoState \in Persisted
  <1>1. -1 \in -1 .. MaxWall /\ 0 \in 0 .. MaxSends
    BY Delays
  <1> QED
    BY <1>1 DEF NoState, Persisted, ApiKeys, Regions

\* A save replaces the record in memory only if it succeeds, on disk perhaps.
LEMMA SaveForm ==
    ASSUME FullTypeOK, NEW s \in Persisted, NEW w, Save(s, w)
    PROVE  /\ held' \in {held, s} /\ kept' \in {kept, s}
           /\ held' \in Persisted /\ kept' \in Persisted
           /\ w = "ok" => held' = s /\ kept' = s
  BY DEF Save, FullTypeOK

\* Acquire works while nobody releases.
LEMMA AcquireKeeps ==
    ASSUME LMInv, step # "returned", UNCHANGED <<rel, snap>>, FullTypeOK', SendInv', KnownInv'
    PROVE  LMInv'
  BY DEF LMInv, ReleaseInv

\* A step that asks Lambda nothing keeps the types.
LEMMA AcquireTyped ==
    ASSUME FullTypeOK, Alone, UNCHANGED lambdaVars, step' \in Calls,
           began' \in {began, wall}, state' \in Persisted, held' \in Persisted, kept' \in Persisted
    PROVE  FullTypeOK'
  BY DEF FullTypeOK, Alone, lambdaVars, releaseVars

\* Acquire may return at any point, and tell the broker nothing new.
LEMMA ReturnStep ==
    ASSUME LMInv, step # "returned", Returns, UNCHANGED <<began, state, lambdaVars>>, Unsaved, Alone
    PROVE  LMInv'
  <1>1. /\ step' = "returned"
        /\ UNCHANGED <<wall, began, state, held, kept, inst, due, rel, snap>>
    BY DEF Returns, Goes, Unsaved, savedVars, lambdaVars, Alone, releaseVars
  <1>2. FullTypeOK'
    BY <1>1, AcquireTyped DEF LMInv, Calls, FullTypeOK
  <1>3. SendInv'
    BY <1>1 DEF LMInv, SendInv, Early, Late
  <1>4. KnownInv'
    BY <1>1 DEF LMInv, KnownInv, Early, Late, Tells
  <1> QED
    BY <1>1, <1>2, <1>3, <1>4, AcquireKeeps

\* The record is taken back only where nothing may be billed.
LEMMA TakeBackStep ==
    ASSUME LMInv, step # "returned", \A n \in Sends : inst[n] \notin Pending,
           NEW w, TakeBack(w), UNCHANGED <<began, state, lambdaVars>>, Alone
    PROVE  LMInv'
  <1>1. step' = "returned" /\ Save(NoState, w)
    BY DEF TakeBack, Returns, Goes
  <1>2. UNCHANGED <<wall, began, state, inst, due, rel, snap>>
    BY DEF lambdaVars, Alone, releaseVars
  <1>3. held' \in Persisted /\ kept' \in Persisted
    BY <1>1, NoStateTyped, SaveForm DEF LMInv
  <1>4. FullTypeOK'
    BY <1>1, <1>2, <1>3, AcquireTyped DEF LMInv, Calls, FullTypeOK
  <1>5. SendInv'
    BY <1>1, <1>2 DEF LMInv, SendInv, Early, Late
  <1>6. KnownInv'
    BY <1>1, <1>2 DEF LMInv, KnownInv, Early, Late, Pending
  <1> QED
    BY <1>2, <1>4, <1>5, <1>6, AcquireKeeps

\* Before a request, nothing may be billed.
LEMMA EarlyQuiet ==
    ASSUME LMInv, step \in Early
    PROVE  \A n \in Sends : inst[n] \notin Pending
  BY DEF LMInv, SendInv, Pending, Running

\* While Acquire waits, Latest is the request it waits for, and the only one that
\* was not refused with 429.
LEMMA LatestIs ==
    ASSUME LMInv, step = "wait"
    PROVE  /\ Latest \in Sends /\ inst[Latest] # "none"
           /\ \A k \in Sends : k # Latest => inst[k] \in {"none", "limited"}
  <1>1. PICK n \in Sends : inst[n] # "none" /\ \A k \in Sends : inst[k] # "none" => k <= n
    BY DEF LMInv, SendInv
  <1>2. \E m \in Sent : \A k \in Sent : k <= m
    BY <1>1 DEF Sent
  <1>3. Latest \in Sent /\ \A k \in Sent : k <= Latest
    BY <1>2 DEF Latest
  <1>4. \A k \in Sends : k # Latest /\ inst[k] # "none" => k < Latest
    BY <1>3 DEF Sent, Sends
  <1> QED
    BY <1>3, <1>4 DEF Sent, LMInv, SendInv

\* At most one request may have made an instance.
LEMMA OneRequest ==
    ASSUME LMInv, NEW n \in Sends, NEW k \in Sends,
           inst[n] \notin {"none", "limited"}, inst[k] \notin {"none", "limited"}
    PROVE  n = k
  <1>1. n < k \/ k < n \/ n = k
    BY DEF Sends
  <1> QED
    BY <1>1 DEF LMInv, SendInv

----------------------------------------------------------------------------
\* What is refused before paying.
LEMMA RefuseStep == ASSUME LMInv, Refuse PROVE LMInv'
  BY ReturnStep DEF Refuse

\* The key and the region are chosen; nothing is sent.
LEMMA PrepareStep == ASSUME LMInv, Prepare PROVE LMInv'
  <1>1. PICK o \in Offers : state' = [state EXCEPT !.key = apiKey, !.region = pickRegion(o)]
    BY DEF Prepare
  <1>2. /\ step = "checks" /\ step' = "gap"
        /\ UNCHANGED <<wall, began, held, kept, inst, due, rel, snap>>
    BY DEF Prepare, Goes, Unsaved, savedVars, lambdaVars, Alone, releaseVars
  <1>3. pickRegion(o) \in Regions /\ state \in Persisted /\ apiKey \in ApiKeys
    BY DEF Regions, LMInv, FullTypeOK
  <1>4. state' \in Persisted /\ state'.seen = state.seen
    BY <1>1, <1>3 DEF Persisted
  <1>5. FullTypeOK'
    BY <1>2, <1>4, AcquireTyped DEF Prepare, LMInv, Calls, FullTypeOK
  <1>6. SendInv'
    BY <1>2 DEF LMInv, SendInv, Early, Late
  <1>7. KnownInv'
    BY <1>2, <1>4, EarlyQuiet DEF LMInv, KnownInv, Early, Late, Pending
  <1> QED
    BY <1>2, <1>5, <1>6, <1>7, AcquireKeeps

\* A step from one place before a request to another that leaves the records alone.
LEMMA EarlyStep ==
    ASSUME LMInv, step \in Early, step' \in Early \ {"slot"}, began' \in {began, wall},
           UNCHANGED <<state, lambdaVars>>, Unsaved, Alone
    PROVE  LMInv'
  <1>1. UNCHANGED <<wall, state, held, kept, inst, due, rel, snap>> /\ step # "returned"
    BY DEF Unsaved, savedVars, lambdaVars, Alone, releaseVars, Early
  <1>2. FullTypeOK'
    BY <1>1, AcquireTyped DEF LMInv, Calls, FullTypeOK, Early
  <1>3. SendInv'
    BY <1>1 DEF LMInv, SendInv, Early, Late
  <1>4. KnownInv'
    BY <1>1, EarlyQuiet DEF LMInv, KnownInv, Early, Late, Pending
  <1> QED
    BY <1>1, <1>2, <1>3, <1>4, AcquireKeeps

\* The gap opens, or the context ends first.
LEMMA GapStep == ASSUME LMInv, Gap PROVE LMInv'
  <1>1. CASE ~cut /\ Goes("sending") /\ began' = wall /\ Unsaved
    BY <1>1, EarlyStep DEF Gap, Goes, Early
  <1>2. CASE UNCHANGED began /\ \E w \in Writes : TakeBack(w)
    BY <1>2, EarlyQuiet, TakeBackStep DEF Gap, Early
  <1> QED
    BY <1>1, <1>2 DEF Gap

\* A price that is too high takes the launch back before it is sent.
LEMMA PriceRefusesStep == ASSUME LMInv, PriceRefuses PROVE LMInv'
  BY EarlyQuiet, TakeBackStep DEF PriceRefuses, Early

\* A failed save stops the launch before it is sent.
LEMMA SendingFailedStep == ASSUME LMInv, SendingFailed PROVE LMInv'
  BY EarlyQuiet, TakeBackStep DEF SendingFailed, Early

\* The time of the attempt, not before `began`, is saved; only then the gate is entered.
LEMMA SendingStep == ASSUME LMInv, Sending PROVE LMInv'
  <1>1. PICK w \in Writes : Save(state', w) /\ Goes(IF w = "ok" THEN "slot" ELSE "unsaved")
    BY DEF Sending
  <1>2. /\ step = "sending" /\ step' \in {"slot", "unsaved"} /\ (step' = "slot" => w = "ok")
        /\ UNCHANGED <<wall, began, inst, due, rel, snap>> /\ state' = [state EXCEPT !.sent = wall]
    BY <1>1 DEF Sending, Goes, lambdaVars, Alone, releaseVars
  <1>3. state \in Persisted /\ wall \in -1 .. MaxWall /\ began <= wall
    BY Delays DEF LMInv, FullTypeOK
  <1>4. state' \in Persisted /\ state'.seen = state.seen /\ state'.sent = wall
    BY <1>2, <1>3 DEF Persisted
  <1>5. held' \in Persisted /\ kept' \in Persisted /\ (w = "ok" => held' = state' /\ kept' = state')
    BY <1>1, <1>4, SaveForm DEF LMInv
  <1>6. FullTypeOK'
    BY <1>2, <1>4, <1>5, AcquireTyped DEF Sending, LMInv, Calls, FullTypeOK
  <1>7. SendInv'
    BY <1>2 DEF LMInv, SendInv, Early, Late
  <1>8. KnownInv'
    BY <1>2, <1>3, <1>4, <1>5, EarlyQuiet DEF LMInv, KnownInv, Early, Late, Pending
  <1> QED
    BY <1>2, <1>6, <1>7, <1>8, AcquireKeeps

\* A request goes out no later than the slack after the time that was saved.
LEMMA SlotSend ==
    ASSUME LMInv, Slot, ~cut, InTime, step' = "wait", UNCHANGED <<began, savedVars>>,
           NEW n \in Sends, inst[n] = "none", \A k \in Sends : k < n => inst[k] # "none",
           inst' = [inst EXCEPT ![n] = "inflight"], due' = [due EXCEPT ![n] = wall + Lag]
    PROVE  LMInv'
  <1>1. step = "slot" /\ UNCHANGED <<wall, state, held, kept, began, rel, snap, apiKey>>
    BY DEF Slot, savedVars, Alone, releaseVars
  <1>2. FullTypeOK /\ SendInv /\ KnownInv
    BY DEF LMInv
  <1>3. wall \in Nat /\ began \in Nat /\ wall <= began + Slack /\ wall + Lag \in Nat
    BY <1>2, Delays DEF InTime, FullTypeOK
  <1>4. /\ inst' \in [Sends -> Statuses] /\ due' \in [Sends -> Nat]
        /\ inst'[n] = "inflight" /\ due'[n] = wall + Lag
        /\ \A k \in Sends \ {n} : inst'[k] = inst[k] /\ due'[k] = due[k]
    BY <1>2, <1>3 DEF FullTypeOK, Statuses
  <1>5. FullTypeOK'
    BY <1>1, <1>2, <1>4 DEF FullTypeOK, Calls
  <1>6. \A k \in Sends : inst[k] \in {"none", "limited"}
    BY <1>1, <1>2 DEF SendInv, Early
  <1>7. \A k \in Sends : n < k => inst[k] = "none"
    BY <1>2 DEF SendInv
  <1>8. SendInv'
    <2>1. \A m, k \in Sends : k < m /\ inst'[m] # "none" => inst'[k] = "limited"
      <3> SUFFICES ASSUME NEW m \in Sends, NEW k \in Sends, k < m, inst'[m] # "none"
                   PROVE  inst'[k] = "limited"
        OBVIOUS
      <3>1. m <= n
        BY <1>4, <1>7 DEF Sends
      <3>2. k < n /\ k # n
        BY <3>1 DEF Sends
      <3> QED
        BY <1>4, <1>6, <3>2
    <2>2. inst'[n] # "none" /\ \A k \in Sends : inst'[k] # "none" => k <= n
      BY <1>4, <1>7 DEF Sends
    <2> QED
      BY <2>1, <2>2 DEF SendInv, Early, Late
  <1>9. held = state /\ kept = state /\ began <= state.sent /\ ~state.seen
    BY <1>1, <1>2 DEF KnownInv, Early
  <1>10. state.sent >= 0 /\ wall + Lag <= state.sent + Slack + Lag
    <2>1. state.sent \in Int
      BY <1>2 DEF FullTypeOK, Persisted
    <2> QED
      BY <2>1, <1>3, <1>9, Delays
  <1>11. Tells(state, n)'
    BY <1>1, <1>4, <1>9, <1>10 DEF Tells
  <1>12. \A k \in Sends \ {n} : inst'[k] \notin Pending
    BY <1>4, <1>6 DEF Pending, Running
  <1>13. wall <= wall + Lag
    BY <1>3, Delays
  <1>14. KnownInv'
    BY <1>1, <1>4, <1>9, <1>11, <1>12, <1>13 DEF KnownInv, Early, Late, Pending, Tells
  <1> QED
    BY <1>1, <1>5, <1>8, <1>14, AcquireKeeps

\* The request gate opened: too late, too old, or in time.
LEMMA SlotStep == ASSUME LMInv, Slot PROVE LMInv'
  <1>0. step = "slot" /\ UNCHANGED state /\ Alone
    BY DEF Slot
  <1>1. CASE /\ \E w \in Writes : TakeBack(w)
             /\ UNCHANGED <<began, lambdaVars>>
    BY <1>0, <1>1, EarlyQuiet, TakeBackStep DEF Early
  <1>2. CASE Goes("sending") /\ began' = wall /\ Unsaved /\ UNCHANGED lambdaVars
    BY <1>0, <1>2, EarlyStep DEF Goes, Early
  <1>3. CASE /\ ~cut /\ InTime /\ Goes("wait")
             /\ \E n \in Sends :
                  /\ inst[n] = "none" /\ \A k \in Sends : k < n => inst[k] # "none"
                  /\ inst' = [inst EXCEPT ![n] = "inflight"]
                  /\ due' = [due EXCEPT ![n] = wall + Lag]
             /\ Unsaved /\ UNCHANGED began
    BY <1>3, SlotSend DEF Goes, Unsaved
  <1> QED
    BY <1>1, <1>2, <1>3 DEF Slot

\* After a 429 of the last request none may be billed, and another may follow.
LEMMA LimitedStep == ASSUME LMInv, Limited PROVE LMInv'
  <1>1. /\ step = "wait" /\ step' = "gap" /\ inst[Latest] = "limited"
        /\ UNCHANGED <<wall, began, state, held, kept, inst, due, rel, snap>>
    BY DEF Limited, Goes, Unsaved, savedVars, lambdaVars, Alone, releaseVars
  <1>2. \A n \in Sends : inst[n] \in {"none", "limited"}
    BY <1>1, LatestIs
  <1>3. FullTypeOK'
    BY <1>1, AcquireTyped DEF Limited, LMInv, Calls, FullTypeOK
  <1>4. SendInv'
    BY <1>1, <1>2 DEF LMInv, SendInv, Early, Late
  <1>5. KnownInv'
    BY <1>1, <1>2 DEF LMInv, KnownInv, Early, Late, Pending, Running
  <1> QED
    BY <1>1, <1>3, <1>4, <1>5, AcquireKeeps

\* Any other 4xx: nothing was created.
LEMMA Refused4xxStep == ASSUME LMInv, Refused4xx PROVE LMInv'
  <1>1. step = "wait" /\ inst[Latest] = "refused"
    BY DEF Refused4xx
  <1>2. \A n \in Sends : inst[n] \notin Pending
    BY <1>1, LatestIs DEF Pending, Running
  <1> QED
    BY <1>1, <1>2, TakeBackStep DEF Refused4xx

\* Without an answer the record stays as it is.
LEMMA NoAnswerStep == ASSUME LMInv, NoAnswerFromLambda PROVE LMInv'
  BY ReturnStep DEF NoAnswerFromLambda

\* A later save of the same launch tells as much as the record it replaces.
LEMMA LaterSave ==
    ASSUME LMInv, step \in Late \cup {"wait"}, step' \in Late \cup {"returned"}, state' \in Persisted,
           state'.sent = state.sent, state'.key = state.key, step' \in Late => state'.id \in Sends,
           \A n \in Sends : inst[n] \in Pending /\ state'.seen => inst[n] \notin {"inflight", "registering"},
           held' \in {held, state'}, kept' \in {kept, state'},
           UNCHANGED <<began, lambdaVars>>, Alone
    PROVE  LMInv'
  <1>1. UNCHANGED <<wall, began, inst, due, rel, snap>> /\ step # "returned"
    BY DEF lambdaVars, Alone, releaseVars, Late
  <1>2. held' \in Persisted /\ kept' \in Persisted
    BY DEF LMInv, FullTypeOK
  <1>3. FullTypeOK'
    BY <1>1, <1>2, AcquireTyped DEF LMInv, Calls, FullTypeOK, Late
  <1>4. SendInv'
    BY <1>1 DEF LMInv, SendInv, Early, Late
  <1>5. ASSUME NEW n \in Sends, inst'[n] \in Pending
        PROVE  Tells(held, n)' /\ Tells(kept, n)' /\ Tells(state, n)'
    <2>1. Tells(held, n) /\ Tells(kept, n) /\ Tells(state, n)
      BY <1>1, <1>5 DEF LMInv, KnownInv
    <2> QED
      BY <1>1, <1>5, <2>1 DEF Tells
  <1>6. KnownInv'
    BY <1>1, <1>5 DEF LMInv, KnownInv, Early, Late
  <1> QED
    BY <1>1, <1>3, <1>4, <1>6, AcquireKeeps

\* The identifier is added to the record of the launch.
LEMMA LaunchedStep == ASSUME LMInv, Launched PROVE LMInv'
  <1>1. PICK w \in Writes : Save(state', w) /\ Goes(IF w = "ok" THEN "poll" ELSE "returned")
    BY DEF Launched
  <1>2. step = "wait" /\ state' = [state EXCEPT !.id = Latest] /\ step' \in {"poll", "returned"}
    BY <1>1 DEF Launched, Goes
  <1>3. Latest \in Sends /\ Latest \in 0 .. MaxSends /\ state \in Persisted
    BY <1>2, LatestIs, Delays DEF Sends, LMInv, FullTypeOK
  <1>4. /\ state' \in Persisted /\ state'.sent = state.sent /\ state'.key = state.key
        /\ state'.id = Latest /\ state'.seen = state.seen
    BY <1>2, <1>3 DEF Persisted
  <1>5. held' \in {held, state'} /\ kept' \in {kept, state'}
    BY <1>1, <1>4, SaveForm DEF LMInv
  <1>6. ~state.seen
    BY <1>2 DEF LMInv, KnownInv
  <1> QED
    BY <1>2, <1>3, <1>4, <1>5, <1>6, LaterSave DEF Launched, Late

\* An instance is called seen once it was listed.
LEMMA PollStep == ASSUME LMInv, Poll PROVE LMInv'
  <1>1. /\ step = "poll" /\ inst[state.id] \in Shown /\ state' = [state EXCEPT !.seen = TRUE]
        /\ step' \in {"returned", "install", "poll"}
    BY DEF Poll, Goes
  <1>2. state.id \in Sends /\ state \in Persisted
    BY <1>1 DEF LMInv, SendInv, Late, FullTypeOK
  <1>3. /\ state' \in Persisted /\ state'.sent = state.sent /\ state'.key = state.key
        /\ state'.id = state.id /\ state'.seen = TRUE
    BY <1>1, <1>2 DEF Persisted
  <1>4. held' \in {held, state'} /\ kept' \in {kept, state'}
    <2>1. PICK w \in Writes : IF state.seen THEN Unsaved /\ w = "ok" ELSE Save(state', w)
      BY DEF Poll
    <2>2. CASE Unsaved
      BY <2>2 DEF Unsaved, savedVars
    <2>3. CASE Save(state', w)
      BY <2>3, <1>3, SaveForm DEF LMInv
    <2> QED
      BY <2>1, <2>2, <2>3
  <1>5. ASSUME NEW n \in Sends, inst[n] \in Pending PROVE inst[n] \notin {"inflight", "registering"}
    <2>1. n = state.id
      BY <1>1, <1>2, <1>5, OneRequest DEF Shown, Pending, Running
    <2> QED
      BY <1>1, <2>1 DEF Shown
  <1> QED
    BY <1>1, <1>2, <1>3, <1>4, <1>5, LaterSave DEF Poll, Late

\* A poll that ends Acquire changes no record.
LEMMA PollFailsStep == ASSUME LMInv, PollFails PROVE LMInv'
  BY ReturnStep DEF PollFails

\* A step of the installation, with or without a save of the same record.
LEMMA InstallSteps == ASSUME LMInv, Install \/ SaveTarget PROVE LMInv'
  <1>1. step \in Late /\ step' \in {"target", "returned"} /\ UNCHANGED <<began, state, lambdaVars>> /\ Alone
    BY DEF Install, SaveTarget, Goes, Returns, Late
  <1>2. held' \in {held, state} /\ kept' \in {kept, state}
    <2>1. CASE Install
      BY <2>1 DEF Install, Unsaved, savedVars
    <2>2. CASE SaveTarget
      BY <2>2, SaveForm DEF SaveTarget, LMInv, FullTypeOK
    <2> QED
      BY <2>1, <2>2
  <1>3. state \in Persisted /\ state.id \in Sends
    BY <1>1 DEF LMInv, FullTypeOK, SendInv
  <1>4. \A n \in Sends : inst[n] \in Pending /\ state.seen => inst[n] \notin {"inflight", "registering"}
    BY <1>1 DEF LMInv, KnownInv, Tells
  <1> QED
    BY <1>1, <1>2, <1>3, <1>4, LaterSave DEF Late

----------------------------------------------------------------------------
\* Where neither Acquire nor the records move.
LEMMA OthersKept ==
    ASSUME LMInv, UNCHANGED <<step, state, held, kept, began, inst, due, wall>>
    PROVE  SendInv' /\ KnownInv'
  BY DEF LMInv, SendInv, KnownInv, Tells, Early, Late

\* A list shows what is due; without a record nothing was sent.
LEMMA ListStep == ASSUME LMInv, List PROVE LMInv'
  <1>1. /\ step = "returned" /\ rel = "idle"
        /\ UNCHANGED <<wall, step, began, state, held, kept, inst, due, apiKey>>
    BY DEF List, acquireVars, savedVars, lambdaVars
  <1>2. FullTypeOK /\ KnownInv
    BY DEF LMInv
  <1>3. SendInv' /\ KnownInv'
    BY <1>1, OthersKept
  <1>4. CASE held = NoState /\ rel' = "released" /\ UNCHANGED snap
    <2>1. FullTypeOK'
      BY <1>1, <1>2, <1>4 DEF FullTypeOK
    <2>2. ~(held.sent >= 0)
      BY <1>4 DEF NoState
    <2>3. ReleaseInv'
      BY <1>1, <1>2, <1>4, <2>2 DEF ReleaseInv, KnownInv, Tells
    <2> QED
      BY <1>3, <2>1, <2>3 DEF LMInv
  <1>5. CASE rel' = "listed" /\ snap' = [status |-> instances(apiKey), key |-> apiKey, at |-> wall]
    <2>1. instances(apiKey) \in [Sends -> Statuses]
      BY <1>2 DEF instances, Statuses, FullTypeOK
    <2>2. /\ snap' \in [status : [Sends -> Statuses], key : ApiKeys, at : 0 .. MaxWall]
          /\ snap'.status = instances(apiKey) /\ snap'.key = apiKey /\ snap'.at = wall
      BY <1>2, <1>5, <2>1 DEF FullTypeOK
    <2>3. FullTypeOK'
      BY <1>1, <1>2, <1>5, <2>2 DEF FullTypeOK
    <2>4. wall <= wall + ListTime
      BY <1>2, Delays DEF FullTypeOK
    <2>5. ASSUME NEW n \in Sends
          PROVE  /\ snap'.status[n] \in Ended => inst[n] \in Ended
                 /\ inst[n] \in Pending /\ SeesInstances(apiKey)
                      /\ snap'.status[n] \notin Running \cup {"terminating"}
                    => inst[n] \in {"inflight", "registering"}
      <3>1. snap'.status[n] = IF SeesInstances(apiKey) /\ inst[n] \in Shown THEN inst[n] ELSE "none"
        BY <2>2 DEF instances
      <3> QED
        BY <3>1 DEF Ended, Shown, Pending, Running
    <2>6. ASSUME NEW n \in Sends, inst[n] \in Pending, inst[n] \in {"inflight", "registering"}
          PROVE  wall <= due[n] /\ ~held.seen
      BY <1>2, <2>6 DEF KnownInv, Tells
    <2>7. SeesInstances(apiKey) <=> SeesInstances(snap.key)'
      BY <1>1, <2>2 DEF SeesInstances
    <2>8. ReleaseInv'
      BY <1>1, <1>5, <2>2, <2>4, <2>5, <2>6, <2>7 DEF ReleaseInv
    <2> QED
      BY <1>3, <2>3, <2>8 DEF LMInv
  <1> QED
    BY <1>4, <1>5 DEF List

\* What the list and the time since the launch prove.
LEMMA GoneProved ==
    ASSUME LMInv, rel = "listed", Listed(Running) = {}, Listed({"terminating"}) = {}, ProvesGone,
           NEW n \in Sends
    PROVE  inst[n] \notin Pending
  <1> SUFFICES ASSUME inst[n] \in Pending PROVE FALSE
    OBVIOUS
  <1>1. FullTypeOK /\ KnownInv /\ ReleaseInv
    BY DEF LMInv
  <1>2. \A k \in Sends : snap.status[k] \notin Running \cup {"terminating"}
    BY DEF Listed
  <1>3. CASE Listed(Ended) # {}
    <2>1. PICK k \in Sends : snap.status[k] \in Ended
      BY <1>3 DEF Listed
    <2>2. inst[k] \in Ended \cup {"forgotten"}
      BY <1>1, <2>1 DEF ReleaseInv
    <2>3. n = k
      BY <2>2, OneRequest DEF Pending, Running, Ended
    <2> QED
      BY <2>2, <2>3 DEF Pending, Running, Ended
  <1>4. CASE snap.key = held.key /\ (held.seen \/ wall - held.sent >= Settle)
    <2>1. Tells(held, n)
      BY <1>1 DEF KnownInv
    <2>2. SeesInstances(snap.key)
      BY <1>4, <2>1 DEF SeesInstances, Tells
    <2>3. snap.at <= due[n] /\ ~held.seen /\ wall <= snap.at + ListTime
      BY <1>1, <1>2, <2>2 DEF ReleaseInv
    <2>4. wall \in Nat /\ snap.at \in Nat /\ due[n] \in Nat /\ held.sent \in Int
      BY <1>1 DEF FullTypeOK, Persisted
    <2>5. due[n] <= held.sent + Slack + Lag /\ wall - held.sent >= Settle
      BY <1>4, <2>1, <2>3 DEF Tells
    <2> QED
      BY <2>3, <2>4, <2>5, Delays
  <1> QED
    BY <1>3, <1>4 DEF ProvesGone

\* DecideRelease: an instance is ended, looked at again, or proved gone.
LEMMA DecideReleaseStep == ASSUME LMInv, DecideRelease PROVE LMInv'
  <1>1. /\ rel = "listed" /\ snap' = NoSnap
        /\ UNCHANGED <<wall, step, began, state, held, kept, due, apiKey>>
    BY DEF DecideRelease, acquireVars, savedVars
  <1>2. FullTypeOK /\ SendInv /\ KnownInv /\ ReleaseInv /\ step = "returned"
    BY <1>1 DEF LMInv, ReleaseInv
  <1>3. NoSnap \in [status : [Sends -> Statuses], key : ApiKeys, at : 0 .. MaxWall]
    BY Delays DEF NoSnap, Statuses, ApiKeys
  <1>4. CASE /\ rel' = "idle"
             /\ inst' = [n \in Sends |-> IF n \in Listed(Running) /\ inst[n] \in Running
                                         THEN "terminating" ELSE inst[n]]
    <2>1. ASSUME NEW n \in Sends
          PROVE  inst'[n] = inst[n] \/ (inst[n] \in Running /\ inst'[n] = "terminating")
      BY <1>4
    <2>2. inst' \in [Sends -> Statuses]
      BY <1>2, <1>4 DEF FullTypeOK, Statuses, Shown
    <2>3. FullTypeOK'
      BY <1>1, <1>2, <1>3, <1>4, <2>2 DEF FullTypeOK
    <2>4. SendInv'
      BY <1>1, <1>2, <2>1 DEF SendInv, Early, Late, Running
    <2>5. KnownInv'
      BY <1>1, <1>2, <2>1 DEF KnownInv, Tells, Early, Late, Running, Pending
    <2>6. ReleaseInv'
      BY <1>4 DEF ReleaseInv
    <2> QED
      BY <2>3, <2>4, <2>5, <2>6 DEF LMInv
  <1>5. CASE UNCHANGED inst /\ rel' = "idle"
    <2>1. FullTypeOK'
      BY <1>1, <1>2, <1>3, <1>5 DEF FullTypeOK
    <2> QED
      BY <1>1, <1>5, <2>1, OthersKept DEF LMInv, ReleaseInv
  <1>6. CASE /\ UNCHANGED inst /\ rel' = "released"
             /\ Listed(Running) = {} /\ Listed({"terminating"}) = {} /\ ProvesGone
    <2>1. FullTypeOK'
      BY <1>1, <1>2, <1>3, <1>6 DEF FullTypeOK
    <2>2. \A n \in Sends : inst[n] \notin Pending
      BY <1>1, <1>6, GoneProved
    <2> QED
      BY <1>1, <1>2, <1>6, <2>1, <2>2, OthersKept DEF LMInv, ReleaseInv
  <1> QED
    BY <1>4, <1>5, <1>6 DEF DecideRelease

----------------------------------------------------------------------------
\* Lambda makes nothing of what it did not get, and forgets nothing that is billed.
LEMMA AccountStep == ASSUME LMInv, NEW n \in Sends, Account(n) PROVE LMInv'
  <1>1. UNCHANGED <<wall, step, began, state, held, kept, due, apiKey, rel, snap>>
    BY DEF Account, acquireVars, savedVars, releaseVars
  <1>2. FullTypeOK /\ SendInv /\ KnownInv /\ ReleaseInv
    BY DEF LMInv
  <1>3. PICK to \in Statuses :
          /\ inst' = [inst EXCEPT ![n] = to] /\ inst[n] \notin {"none", "limited"} /\ to # "none"
          /\ to \in Pending => inst[n] \in Pending
          /\ to \in {"inflight", "registering"} => inst[n] \in {"inflight", "registering"}
          /\ inst[n] \in Ended => to = "forgotten"
          /\ inst[n] # "forgotten"
    BY DEF Account, Statuses, Shown, Pending, Running, Ended
  <1>4. /\ inst' \in [Sends -> Statuses] /\ inst'[n] = to
        /\ \A k \in Sends \ {n} : inst'[k] = inst[k]
    BY <1>2, <1>3 DEF FullTypeOK
  <1>5. FullTypeOK'
    BY <1>1, <1>2, <1>4 DEF FullTypeOK
  <1>6. SendInv'
    BY <1>1, <1>2, <1>3, <1>4 DEF SendInv
  <1>7. ASSUME NEW k \in Sends, inst'[k] \in Pending
        PROVE  /\ inst[k] \in Pending
               /\ inst'[k] \in {"inflight", "registering"} => inst[k] \in {"inflight", "registering"}
    BY <1>3, <1>4, <1>7
  <1>8. KnownInv'
    BY <1>1, <1>2, <1>7 DEF KnownInv, Tells, Pending
  <1>9. SeesInstances(snap.key)' <=> SeesInstances(snap.key)
    BY <1>1 DEF SeesInstances
  <1>10. ReleaseInv'
    BY <1>1, <1>2, <1>3, <1>4, <1>7, <1>9 DEF ReleaseInv
  <1> QED
    BY <1>5, <1>6, <1>8, <1>10 DEF LMInv

\* The context and the key file.
LEMMA EnvironmentStep ==
    ASSUME LMInv, UNCHANGED <<step, state, held, kept, began, inst, due, wall, rel, snap>>,
           apiKey' \in ApiKeys
    PROVE  LMInv'
  <1>1. FullTypeOK'
    BY DEF LMInv, FullTypeOK
  <1>2. ReleaseInv'
    BY DEF LMInv, ReleaseInv, SeesInstances
  <1> QED
    BY <1>1, <1>2, OthersKept DEF LMInv

\* A restart goes on from the disk.
LEMMA ProviderCrashStep == ASSUME LMInv, CloudPeerCrash PROVE LMInv'
  <1>1. /\ step' = "returned" /\ held' = kept /\ rel' = "idle" /\ snap' = NoSnap
        /\ UNCHANGED <<wall, began, state, kept, inst, due, apiKey>>
    BY DEF CloudPeerCrash, Returns, Goes, lambdaVars
  <1>2. NoSnap \in [status : [Sends -> Statuses], key : ApiKeys, at : 0 .. MaxWall]
    BY Delays DEF NoSnap, Statuses, ApiKeys
  <1>3. FullTypeOK'
    BY <1>1, <1>2 DEF LMInv, FullTypeOK, Calls
  <1>4. SendInv' /\ KnownInv'
    BY <1>1 DEF LMInv, SendInv, KnownInv, Tells, Early, Late
  <1>5. ReleaseInv'
    BY <1>1 DEF ReleaseInv
  <1> QED
    BY <1>3, <1>4, <1>5 DEF LMInv

\* Time passes no request that is due, and no decision that is.
LEMMA TickStep == ASSUME LMInv, LambdaTick PROVE LMInv'
  <1>1. /\ wall' = wall + 1 /\ wall < MaxWall
        /\ \A n \in Sends : inst[n] \in {"inflight", "registering"} => wall < due[n]
        /\ rel = "listed" => wall < snap.at + ListTime
        /\ UNCHANGED <<step, state, held, kept, began, inst, due, apiKey, rel, snap>>
    BY DEF LambdaTick, acquireVars, savedVars, lambdaVars, releaseVars
  <1>2. FullTypeOK /\ SendInv /\ KnownInv /\ ReleaseInv
    BY DEF LMInv
  <1>3. FullTypeOK'
    BY <1>1, <1>2, Delays DEF FullTypeOK
  <1>4. SendInv'
    BY <1>1, <1>2 DEF SendInv
  <1>5. \A n \in Sends : inst[n] \in {"inflight", "registering"} => wall + 1 <= due[n]
    BY <1>1, <1>2 DEF FullTypeOK
  <1>6. KnownInv'
    BY <1>1, <1>2, <1>5 DEF KnownInv, Tells
  <1>7. rel = "listed" => wall + 1 <= snap.at + ListTime
    BY <1>1, <1>2, Delays DEF FullTypeOK
  <1>8. ReleaseInv'
    BY <1>1, <1>2, <1>7 DEF ReleaseInv, SeesInstances
  <1> QED
    BY <1>3, <1>4, <1>6, <1>8 DEF LMInv

\* A new lease has sent nothing.
LEMMA LMInitially == LMInit => LMInv
  <1> SUFFICES ASSUME LMInit PROVE LMInv
    OBVIOUS
  <1>1. NoSnap \in [status : [Sends -> Statuses], key : ApiKeys, at : 0 .. MaxWall] /\ 0 \in 0 .. MaxWall
    BY Delays DEF NoSnap, Statuses, ApiKeys
  <1>2. FullTypeOK
    BY <1>1, NoStateTyped DEF LMInit, FullTypeOK, Calls, Statuses, ApiKeys
  <1>3. SendInv /\ ReleaseInv
    BY DEF LMInit, SendInv, ReleaseInv, Early, Late
  <1>4. KnownInv
    BY DEF LMInit, KnownInv, NoState, Early, Late, Pending, Running
  <1> QED
    BY <1>2, <1>3, <1>4 DEF LMInv

(***************************************************************************)
(* The inductive invariant, for any number of sends, crashes and failing   *)
(* saves, any delays the assumption admits and any change of the key file. *)
(***************************************************************************)
THEOREM LambdaInvariance == LMSpec => []LMInv
  <1>1. LMInit => LMInv
    BY LMInitially
  <1>2. LMInv /\ [LMNext]_lmVars => LMInv'
    <2> SUFFICES ASSUME LMInv, [LMNext]_lmVars PROVE LMInv'
      OBVIOUS
    <2>1. CASE AcquireStep
      BY <2>1, RefuseStep, PrepareStep, GapStep, PriceRefusesStep, SendingStep, SendingFailedStep,
         SlotStep, LimitedStep, Refused4xxStep, NoAnswerStep, LaunchedStep, PollStep, PollFailsStep,
         InstallSteps DEF AcquireStep
    <2>2. CASE List \/ DecideRelease \/ CloudPeerCrash \/ LambdaTick
      BY <2>2, ListStep, DecideReleaseStep, ProviderCrashStep, TickStep
    <2>3. ASSUME NEW n \in Sends, Account(n) PROVE LMInv'
      BY <2>3, AccountStep
    <2>4. ASSUME NEW k \in ApiKeys, ChangeKey(k) PROVE LMInv'
      BY <2>4, EnvironmentStep DEF ChangeKey, acquireVars, savedVars, lambdaVars, releaseVars
    <2>5. CASE Cut \/ UNCHANGED lmVars
      BY <2>5, EnvironmentStep DEF Cut, lmVars, acquireVars, savedVars, lambdaVars, releaseVars,
         LMInv, FullTypeOK
    <2> QED
      BY <2>1, <2>2, <2>3, <2>4, <2>5 DEF LMNext
  <1> QED
    BY <1>1, <1>2, PTL DEF LMSpec

(***************************************************************************)
(* A lease is released only when no instance of it is billed and none can  *)
(* still appear, and it never had a second one: over lost answers, a late  *)
(* list, a restart, a failed save and a changed key.                       *)
(***************************************************************************)
THEOREM InstancesReleased == LMSpec => []InstanceReleased
  <1>1. LMInv => InstanceReleased
    <2> SUFFICES ASSUME LMInv PROVE InstanceReleased
      OBVIOUS
    <2>1. LMTypeOK
      BY DEF LMInv, FullTypeOK, LMTypeOK, Persisted, Statuses
    <2>2. ReleasedMeansGone
      BY DEF LMInv, ReleaseInv, ReleasedMeansGone
    <2> DEFINE S == {n \in Sends : inst[n] \in Pending \cup Ended \cup {"forgotten"}}
    <2>3. Cardinality(S) <= 1
      <3>1. CASE S = {}
        BY <3>1, FS_EmptySet
      <3>2. ASSUME NEW n \in S PROVE Cardinality(S) <= 1
        <4>1. \A k \in S : k = n
          BY OneRequest DEF Pending, Running, Ended
        <4>2. S = {n}
          BY <4>1
        <4>3. Cardinality({n}) = 1
          BY FS_Singleton
        <4> QED
          BY <4>2, <4>3
      <3> QED
        BY <3>1, <3>2
    <2> QED
      BY <2>1, <2>2, <2>3 DEF InstanceReleased, OneInstance
  <1> QED
    BY <1>1, LambdaInvariance, PTL

-----------------------------------------------------------------------------
\* Every behaviour of the two put together is one of the broker and one of the
\* provider.
THEOREM BothParts == CloudSpec => Spec /\ LMSpec
  <1>1. CloudInit => Init /\ LMInit
    BY DEF CloudInit
  <1>2. [CloudNext]_<<focus, vars, lmVars>> => [Next]_vars /\ [LMNext]_lmVars
    BY DEF CloudNext
  <1> QED
    BY <1>1, <1>2, PTL DEF CloudSpec, Spec, LMSpec
=============================================================================
