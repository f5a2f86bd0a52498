---------------------------- MODULE LeaseBroker ----------------------------
(***************************************************************************)
(* The cloud peer: it leases machines that cost money by the hour, hands   *)
(* them to runs, and must end every one of them.                           *)
(*                                                                         *)
(* Source: internal/cloud/broker.go, withdrawn.go, provider.go.  One owner *)
(* and one kind of machine; requests are the runs that ask for one.  Lease *)
(* ids are numbered in the order they are made, as ULIDs are.  A lease has *)
(* one worker goroutine that makes all provider calls; requests change the *)
(* record under b.mu.                                                      *)
(*                                                                         *)
(* A record is written before memory takes it.  A write may fail before    *)
(* the rename ("lost") or after it, when the directory is synced           *)
(* ("landed"): then the disk has what memory has not.                      *)
(***************************************************************************)
EXTENDS Integers, Sequences, FiniteSets, SequencesExt

CONSTANTS
    Requests,       \* request ids of runs
    Made,           \* bound: leases made in a behaviour
    MaxLeases,      \* cfg.MaxLeases
    MaxRequests,    \* maxRequests of one launching lease
    MaxWithdrawn,   \* room for withdrawn requests
    WithdrawnAge,   \* withdrawnRequestAge
    IdleTimeout, Lifetime, AcquireTimeout, ReleaseTimeout, ProbeTimeout, IdlePoll,
    Recount,        \* whether a request that is asked again is a hand-out to be kept
    MaxTime, MaxCrashes, MaxFaults  \* bounds: ticks, crashes, failed writes

ASSUME BrokerAssumption ==
    /\ {Made, MaxLeases, MaxRequests, MaxWithdrawn, WithdrawnAge, IdleTimeout,
        Lifetime, AcquireTimeout, ReleaseTimeout, ProbeTimeout, IdlePoll, MaxTime, MaxCrashes,
        MaxFaults} \subseteq Nat
    /\ Recount \in BOOLEAN
    /\ ReleaseTimeout > 0 /\ ProbeTimeout > 0 /\ IdlePoll > 0

Leases == 1 .. Made

VARIABLES
    now, up, upSince,
    disk,        \* leases/<id>.json
    mem,         \* b.leases: the record of each lease
    lastBusy,    \* r.LastBusy, in memory only
    checkFailed, \* l.checkFailed # ""
    pc, until,   \* the worker of a lease, and when its wait or call must end
    withdrawn,   \* b.withdrawn: the time, or Never
    machine,     \* what the provider has: "none", "running", "gone"
    \* History.
    made, crashes, faults,
    claimed,     \* when a ready lease was last handed to a run or claimed by one
    answered     \* how and when a request's withdrawal was answered

leaseVars == <<disk, mem>>
soft      == <<lastBusy, checkFailed>>
worker    == <<pc, until>>
bounds    == <<made, crashes>>
ghosts    == <<claimed, answered>>
vars      == <<now, up, upSince, leaseVars, soft, worker, withdrawn, machine, bounds, faults, ghosts>>

Never    == -1
NoLease  == [state |-> "none", requests |-> <<>>, created |-> 0]
NoAnswer == [how |-> "none", at |-> 0]

Active(r) == r.state \in {"launching", "ready", "releasing"}
Expires(l) == mem[l].created + Lifetime
Earlier(a, b) == IF a < b THEN a ELSE b

Init ==
    /\ now = 0 /\ up = TRUE /\ upSince = 0
    /\ disk = [l \in Leases |-> NoLease] /\ mem = disk
    /\ lastBusy = [l \in Leases |-> 0] /\ checkFailed = [l \in Leases |-> FALSE]
    /\ pc = [l \in Leases |-> "off"] /\ until = [l \in Leases |-> 0]
    /\ withdrawn = [q \in Requests |-> Never]
    /\ machine = [l \in Leases |-> "none"]
    /\ made = 0 /\ crashes = 0 /\ faults = 0
    /\ claimed = [l \in Leases |-> Never]
    /\ answered = [q \in Requests |-> NoAnswer]

----------------------------------------------------------------------------
(***************************************************************************)
(* persist, and the two ways it is used: update (strict) leaves memory     *)
(* alone when the write fails, advance goes ahead.                         *)
(***************************************************************************)
Outcomes == {"ok"} \cup IF faults < MaxFaults THEN {"lost", "landed"} ELSE {}

Persist(l, r, w) ==
    /\ disk' = IF w = "lost" THEN disk ELSE [disk EXCEPT ![l] = r]
    /\ faults' = IF w = "ok" THEN faults ELSE faults + 1

Update(l, r, w) ==
    /\ Persist(l, r, w)
    /\ mem' = IF w = "ok" THEN [mem EXCEPT ![l] = r] ELSE mem

Advance(l, r, w) == Persist(l, r, w) /\ mem' = [mem EXCEPT ![l] = r]

Unwritten == UNCHANGED <<disk, mem, faults>>

Goto(l, p) == pc' = [pc EXCEPT ![l] = p]
WaitFor(l, p, d) == Goto(l, p) /\ until' = [until EXCEPT ![l] = d]

\* The worker takes no time outside of calls and sleeps, which end in time.
Tick ==
    /\ now < MaxTime
    /\ \A l \in Leases : \/ pc[l] = "off"
                         \/ /\ pc[l] \in {"acquire", "waitready", "probe", "sleep", "release", "retry"}
                            /\ now < until[l]
    /\ now' = now + 1
    /\ UNCHANGED <<up, upSince, leaseVars, soft, worker, withdrawn, machine, bounds, faults, ghosts>>

----------------------------------------------------------------------------
\* refusal
Refused(l) == mem[l].state # "ready" \/ now >= Expires(l) \/ checkFailed[l]

HandedTo(q) == {l \in Leases : q \in ToSet(mem[l].requests)}
Newest(S)   == CHOOSE l \in S : \A k \in S : k <= l

WithdrawnNow(q) == withdrawn[q] # Never /\ now - withdrawn[q] <= WithdrawnAge

\* acquire, first part: a request asked again gets its lease, a ready one only
\* if it can be handed out.
AnswersAgain(q) ==
    /\ HandedTo(q) # {}
    /\ LET l == Newest(HandedTo(q)) IN mem[l].state = "ready" => ~Refused(l)

AskAgain(q) ==
    /\ up /\ AnswersAgain(q)
    /\ LET l == Newest(HandedTo(q))
       IN  claimed' = IF mem[l].state = "ready" /\ Recount
                      THEN [claimed EXCEPT ![l] = now] ELSE claimed
    /\ UNCHANGED <<now, up, upSince, leaseVars, soft, worker, withdrawn, machine, bounds, faults,
                   answered>>

\* acquire, second part: the newest ready lease that is not refused, or else the
\* newest one that is launching.
Shareable ==
    LET ready == {l \in Leases : mem[l].state = "ready" /\ ~Refused(l)}
    IN  IF ready # {} THEN ready ELSE {l \in Leases : mem[l].state = "launching"}

\* Mutant: a request is not looked up among the withdrawn ones.
Asks_Forgets(q) == up /\ ~AnswersAgain(q)

\* A new request, or one whose lease cannot be handed out; refused if withdrawn.
Asks(q) == up /\ ~AnswersAgain(q) /\ ~WithdrawnNow(q)

\* shareLocked
Share(q) ==
    /\ Asks(q) /\ Shareable # {}
    /\ LET l == Newest(Shareable)
           ready == mem[l].state = "ready"
           all == Append(mem[l].requests, q)
           kept == IF ready /\ Len(all) > MaxRequests THEN Tail(all) ELSE all
       IN  /\ ~ready => Len(mem[l].requests) < MaxRequests
           /\ \E w \in Outcomes :
                /\ Update(l, [mem[l] EXCEPT !.requests = kept], w)
                /\ IF w = "ok" /\ ready
                   THEN /\ lastBusy' = [lastBusy EXCEPT ![l] = now]
                        /\ claimed' = [claimed EXCEPT ![l] = now]
                   ELSE UNCHANGED <<lastBusy, claimed>>
    /\ UNCHANGED <<now, up, upSince, checkFailed, worker, withdrawn, machine, bounds, answered>>

\* acquire, last part: a new lease, recorded before its worker starts.
AtLimit_IgnoresReleasing == Cardinality({l \in Leases : mem[l].state \in {"launching", "ready"}}) >= MaxLeases
AtLimit == Cardinality({l \in Leases : Active(mem[l])}) >= MaxLeases

LaunchLease(q) ==
    /\ Asks(q) /\ Shareable = {} /\ ~AtLimit
    /\ made < Made
    /\ made' = made + 1
    /\ LET l == made + 1
           r == [NoLease EXCEPT !.state = "launching", !.requests = <<q>>, !.created = now]
       IN  \E w \in Outcomes :
             /\ Update(l, r, w)
             /\ pc' = IF w = "ok" THEN [pc EXCEPT ![l] = "top"] ELSE pc
    /\ UNCHANGED <<now, up, upSince, soft, until, withdrawn, machine, crashes, ghosts>>

\* Release and EndAll (end): the owner ends a lease.  Stopping a running call is
\* part of the worker's actions: a call may fail at any time.
Release(l) ==
    /\ up /\ mem[l].state \in {"launching", "ready"}
    /\ \E w \in Outcomes : Update(l, [mem[l] EXCEPT !.state = "releasing"], w)
    /\ UNCHANGED <<now, up, upSince, soft, worker, withdrawn, machine, bounds, ghosts>>

Admit_NotRenewed(l) ==
    /\ up /\ ~Refused(l)
    /\ claimed' = [claimed EXCEPT ![l] = now]
    /\ UNCHANGED <<now, up, upSince, leaseVars, soft, worker, withdrawn, machine, bounds, faults,
                   answered>>

\* Admit with use: a run claims a ready lease by name.  SSH keys are left out.
Admit(l) ==
    /\ up /\ ~Refused(l)
    /\ lastBusy' = [lastBusy EXCEPT ![l] = now]
    /\ claimed' = [claimed EXCEPT ![l] = now]
    /\ UNCHANGED <<now, up, upSince, leaseVars, checkFailed, worker, withdrawn, machine, bounds,
                   faults, answered>>

(***************************************************************************)
(* Withdraw.  If several leases were handed to the request, map iteration  *)
(* picks one of them.  A request no lease was handed to is remembered, if  *)
(* there is room after expired entries are dropped.                        *)
(***************************************************************************)
Answer(q, how) == answered' = [answered EXCEPT ![q] = [how |-> how, at |-> now]]

WithdrawHanded(q, l) ==
    /\ up /\ l \in HandedTo(q)
    /\ LET left == RemoveFirst(mem[l].requests, q)
           r == [mem[l] EXCEPT !.requests = left,
                               !.state = IF left = <<>> THEN "releasing" ELSE @]
       IN  IF mem[l].state = "launching"
           THEN \E w \in Outcomes :
                  /\ Update(l, r, w)
                  /\ IF w = "ok" THEN Answer(q, "found") ELSE UNCHANGED answered
           ELSE Unwritten /\ Answer(q, "found")
    /\ UNCHANGED <<now, up, upSince, soft, worker, withdrawn, machine, bounds,
                   claimed>>

Unexpired == [q \in Requests |-> IF WithdrawnNow(q) THEN withdrawn[q] ELSE Never]

\* withdrawnRequests.add
HasRoom(q) == \/ Unexpired[q] # Never
              \/ Cardinality({x \in Requests : Unexpired[x] # Never}) < MaxWithdrawn

WithdrawUnknown(q) ==
    /\ up /\ HandedTo(q) = {}
    /\ IF HasRoom(q)
       THEN withdrawn' = [Unexpired EXCEPT ![q] = now] /\ Answer(q, "unknown")
       ELSE withdrawn' = Unexpired /\ UNCHANGED answered
    /\ UNCHANGED <<now, up, upSince, leaseVars, soft, worker, machine, bounds, faults, claimed>>

----------------------------------------------------------------------------
(***************************************************************************)
(* The worker of lease l: work, launch, watch, release.                    *)
(***************************************************************************)
WorkNext(l) ==
    /\ pc[l] = "top"
    /\ CASE mem[l].state = "launching" ->
              /\ WaitFor(l, "acquire", Earlier(mem[l].created + AcquireTimeout, Expires(l)))
              /\ Unwritten
         [] mem[l].state = "ready" -> Goto(l, "watch") /\ UNCHANGED until /\ Unwritten
         [] mem[l].state = "releasing" ->
              WaitFor(l, "release", now + ReleaseTimeout) /\ Unwritten
         [] OTHER -> Goto(l, "off") /\ UNCHANGED until /\ Unwritten
    /\ UNCHANGED <<now, up, upSince, soft, withdrawn, machine, bounds, ghosts>>

\* The provider creates the machine while its Acquire runs.
CreateMachine(l) ==
    /\ pc[l] = "acquire" /\ machine[l] = "none"
    /\ machine' = [machine EXCEPT ![l] = "running"]
    /\ UNCHANGED <<now, up, upSince, leaseVars, soft, worker, withdrawn, bounds, faults, ghosts>>

\* Acquire returned the machine, and its state is recorded.
AcquireDone(l) ==
    /\ pc[l] = "acquire" /\ machine[l] = "running"
    /\ \E w \in Outcomes : /\ Update(l, mem[l], w)
                           /\ Goto(l, IF w = "ok" THEN "waitready" ELSE "failed")
    /\ UNCHANGED <<now, up, upSince, soft, until, withdrawn, machine, bounds, ghosts>>

\* An error, the deadline, a release that stops the call; the machine may exist.
LaunchCut(l) ==
    /\ pc[l] \in {"acquire", "waitready"}
    /\ Goto(l, "failed")
    /\ UNCHANGED <<now, up, upSince, leaseVars, soft, until, withdrawn, machine, bounds, faults, ghosts>>

\* The machine answered and matches; the lease is ready unless it was released
\* meanwhile.
LaunchReady(l) ==
    /\ pc[l] = "waitready"
    /\ IF mem[l].state = "launching"
       THEN \E w \in Outcomes :
              /\ Update(l, [mem[l] EXCEPT !.state = "ready"], w)
              /\ lastBusy' = IF w = "ok" THEN [lastBusy EXCEPT ![l] = now] ELSE lastBusy
              /\ Goto(l, IF w = "ok" THEN "top" ELSE "failed")
       ELSE Goto(l, "top") /\ Unwritten /\ UNCHANGED lastBusy
    /\ UNCHANGED <<now, up, upSince, checkFailed, until, withdrawn, machine, bounds, ghosts>>

LaunchFailed(l) ==
    /\ pc[l] = "failed"
    /\ IF mem[l].state = "launching"
       THEN \E w \in Outcomes : Advance(l, [mem[l] EXCEPT !.state = "releasing"], w)
       ELSE Unwritten
    /\ Goto(l, "top")
    /\ UNCHANGED <<now, up, upSince, soft, until, withdrawn, machine, bounds, ghosts>>

\* watch: the machine is asked for its work, until the lease's lifetime is over.
Watch(l) ==
    /\ pc[l] = "watch"
    /\ IF mem[l].state # "ready" THEN Goto(l, "top") /\ UNCHANGED until
       ELSE IF now < Expires(l)
            THEN WaitFor(l, "probe", Earlier(now + ProbeTimeout, Expires(l)))
            ELSE Goto(l, "decide") /\ UNCHANGED until
    /\ UNCHANGED <<now, up, upSince, leaseVars, soft, withdrawn, machine, bounds, faults, ghosts>>

\* busy: a machine that does not answer is not busy, and one that is gone does
\* not answer; one that no longer matches may be busy.
Probed(l) ==
    /\ pc[l] = "probe"
    /\ \E busy, failed \in BOOLEAN :
         /\ mem[l].state = "ready" /\ machine[l] # "running" => failed /\ ~busy
         /\ checkFailed' = [checkFailed EXCEPT ![l] = failed]
         /\ lastBusy' = IF busy THEN [lastBusy EXCEPT ![l] = now] ELSE lastBusy
    /\ Goto(l, "decide")
    /\ UNCHANGED <<now, up, upSince, leaseVars, until, withdrawn, machine, bounds, faults, ghosts>>

\* releaseReason, of the record as it is now
Releasable(l) == now >= Expires(l) \/ now >= lastBusy[l] + IdleTimeout

\* How long the worker sleeps between checks.
NapEnd_FullPoll(l) == now + IdlePoll
NapEnd(l) == IF Expires(l) > now THEN Earlier(now + IdlePoll, Expires(l)) ELSE now + IdlePoll

Decide(l) ==
    /\ pc[l] = "decide"
    /\ IF mem[l].state = "ready" /\ Releasable(l)
       THEN \E w \in Outcomes :
              /\ Update(l, [mem[l] EXCEPT !.state = "releasing"], w)
              /\ IF w = "ok" THEN Goto(l, "top") /\ UNCHANGED until
                 ELSE WaitFor(l, "sleep", NapEnd(l))
       ELSE WaitFor(l, "sleep", NapEnd(l)) /\ Unwritten
    /\ UNCHANGED <<now, up, upSince, soft, withdrawn, machine, bounds, ghosts>>

\* The timer ends a sleep, or a token in l.wake, which may be there at any time.
WakeUp(l) ==
    /\ pc[l] \in {"sleep", "retry"}
    /\ Goto(l, IF pc[l] = "sleep" THEN "watch" ELSE "top")
    /\ UNCHANGED <<now, up, upSince, leaseVars, soft, until, withdrawn, machine,
                   bounds, faults, ghosts>>

\* release: Release of the provider destroys the machine, reports that it is
\* still going, or fails without telling what it did.
ReleaseRetry(l) ==
    /\ pc[l] = "release"
    /\ machine' \in {machine, [machine EXCEPT ![l] = IF @ = "running" THEN "gone" ELSE @]}
    /\ WaitFor(l, "retry", now + IdlePoll)
    /\ UNCHANGED <<now, up, upSince, leaseVars, soft, withdrawn, bounds, faults, ghosts>>

Released_Unconfirmed(l) ==
    /\ pc[l] = "release"
    /\ machine' \in {machine, [machine EXCEPT ![l] = IF @ = "running" THEN "gone" ELSE @]}
    /\ \E w \in Outcomes : Advance(l, [mem[l] EXCEPT !.state = "ended"], w)
    /\ Goto(l, "top")
    /\ UNCHANGED <<now, up, upSince, soft, until, withdrawn, bounds, ghosts>>

Released(l) ==
    /\ pc[l] = "release"
    /\ machine' = [machine EXCEPT ![l] = IF @ = "running" THEN "gone" ELSE @]
    /\ \E w \in Outcomes : Advance(l, [mem[l] EXCEPT !.state = "ended"], w)
    /\ Goto(l, "top")
    /\ UNCHANGED <<now, up, upSince, soft, until, withdrawn, bounds, ghosts>>

\* pruneLocked: an ended lease is forgotten after some time, or when many ended
\* later; how long the history is kept is left open.
Prune(l) ==
    /\ up /\ mem[l].state = "ended" /\ pc[l] = "off"
    /\ disk' = [disk EXCEPT ![l] = NoLease] /\ mem' = [mem EXCEPT ![l] = NoLease]
    /\ UNCHANGED <<now, up, upSince, soft, worker, withdrawn, machine, bounds, faults, ghosts>>

\* noteLocked: a progress line rewrites the record of a lease as memory has it.
Note(l) ==
    /\ up /\ Active(mem[l]) /\ disk[l] # mem[l]
    /\ disk' = [disk EXCEPT ![l] = mem[l]]
    /\ UNCHANGED <<now, up, upSince, mem, soft, worker, withdrawn, machine, bounds, faults, ghosts>>

----------------------------------------------------------------------------
\* A crash, or Close: workers end, nothing is released.
Crash ==
    /\ up /\ crashes < MaxCrashes
    /\ crashes' = crashes + 1
    /\ up' = FALSE
    /\ mem' = [l \in Leases |-> NoLease]
    /\ lastBusy' = [l \in Leases |-> 0] /\ checkFailed' = [l \in Leases |-> FALSE]
    /\ pc' = [l \in Leases |-> "off"] /\ until' = [l \in Leases |-> 0]
    /\ withdrawn' = [q \in Requests |-> Never]
    /\ answered' = [q \in Requests |-> NoAnswer]
    /\ UNCHANGED <<now, upSince, disk, machine, made, faults, claimed>>

Interrupted(r) == IF r.state = "launching" THEN [r EXCEPT !.state = "releasing"] ELSE r

Restart_Unchecked ==
    /\ ~up
    /\ up' = TRUE /\ upSince' = now
    /\ disk' = [l \in Leases |-> Interrupted(disk[l])]
    /\ mem' = disk'
    /\ lastBusy' = [l \in Leases |-> IF disk[l].state = "ready" THEN now ELSE 0]
    /\ checkFailed' = [l \in Leases |-> FALSE]
    /\ pc' = [l \in Leases |-> IF Active(disk[l]) THEN "top" ELSE "off"]
    /\ UNCHANGED <<now, until, withdrawn, machine, bounds, faults, ghosts>>

\* New: a launch that was cut short is released, a ready lease gets a full idle
\* window and is not handed out before it was checked.
Restart ==
    /\ ~up
    /\ up' = TRUE /\ upSince' = now
    /\ disk' = [l \in Leases |-> Interrupted(disk[l])]
    /\ mem' = disk'
    /\ lastBusy' = [l \in Leases |-> IF disk[l].state = "ready" THEN now ELSE 0]
    /\ checkFailed' = [l \in Leases |-> disk[l].state = "ready"]
    /\ pc' = [l \in Leases |-> IF Active(disk[l]) THEN "top" ELSE "off"]
    /\ UNCHANGED <<now, until, withdrawn, machine, bounds, faults, ghosts>>

----------------------------------------------------------------------------
Run(q) == \/ AskAgain(q) \/ Share(q) \/ LaunchLease(q) \/ WithdrawUnknown(q)
          \/ \E l \in Leases : WithdrawHanded(q, l)

Work(l) == \/ WorkNext(l) \/ CreateMachine(l) \/ AcquireDone(l) \/ LaunchCut(l) \/ LaunchReady(l)
           \/ LaunchFailed(l) \/ Watch(l) \/ Probed(l) \/ Decide(l) \/ WakeUp(l) \/ ReleaseRetry(l)
           \/ Released(l) \/ Prune(l) \/ Note(l)

Next == \/ \E q \in Requests : Run(q)
        \/ \E l \in Leases : Release(l) \/ Admit(l) \/ Work(l)
        \/ Tick \/ Crash \/ Restart

Spec == Init /\ [][Next]_vars

----------------------------------------------------------------------------
States == {"none", "launching", "ready", "releasing", "ended"}
Records == [state : States, requests : Seq(Requests), created : Nat]
Times == Nat \cup {Never}
Places == {"off", "top", "acquire", "waitready", "failed", "watch", "probe", "decide", "sleep",
           "release", "retry"}

\* Types of all variables.
TypeOK ==
    /\ now \in Nat /\ up \in BOOLEAN /\ upSince \in Nat
    /\ disk \in [Leases -> Records] /\ mem \in [Leases -> Records]
    /\ lastBusy \in [Leases -> Nat] /\ checkFailed \in [Leases -> BOOLEAN]
    /\ pc \in [Leases -> Places] /\ until \in [Leases -> Nat]
    /\ withdrawn \in [Requests -> Times]
    /\ machine \in [Leases -> {"none", "running", "gone"}]
    /\ made \in 0 .. Made /\ crashes \in Nat /\ faults \in Nat
    /\ claimed \in [Leases -> Times]
    /\ answered \in [Requests -> [how : {"none", "found", "unknown"}, at : Nat]]

\* No machine that costs money is forgotten: at every moment a crash can happen
\* its lease is recorded as one that still has to be released.
NoOrphan == \A l \in Leases : machine[l] = "running" => Active(disk[l])

\* A lease that may be handed out as ready has its machine.  Its record alone
\* does not tell: after two failed writes it may say ready of a machine that is
\* gone, and the check after a restart has to find that out.
ReadyHasMachine == \A l \in Leases : up /\ ~Refused(l) => machine[l] = "running"

\* max_leases bounds the machines that are paid for, those being released
\* included.
MachineLimit == Cardinality({l \in Leases : machine[l] = "running"}) <= MaxLeases

\* While the cloud peer runs, a lease is being released once its lifetime is
\* over; each failed write of the record may delay that by one poll.
LifetimeBound ==
    \A l \in Leases :
        /\ up /\ mem[l].state \in {"launching", "ready"}
        /\ now > upSince
        => now <= Expires(l) + faults * IdlePoll \/ now <= upSince + faults * IdlePoll

\* A run that was handed a ready lease, or claimed it, has a full idle window:
\* the worker does not release the lease before, although its probe may have
\* begun earlier (refusal: "the hand-out restarts its idle window under the lock
\* the release is decided under, so it is then not released").
ClaimKept ==
    [][\A l \in Leases :
         /\ Decide(l) /\ mem[l].state = "ready" /\ mem'[l].state = "releasing"
         /\ claimed[l] # Never /\ now < Expires(l)
         => now >= claimed[l] + IdleTimeout]_vars

\* Leases only move forward: the panic of applyLocked is unreachable.
CanMove(from, to) ==
    \/ from = to
    \/ from = "launching" /\ to \in {"ready", "releasing"}
    \/ from = "ready" /\ to = "releasing"
    \/ from = "releasing" /\ to = "ended"

OnlyForward ==
    [][\A l \in Leases : mem[l].state # "none" /\ mem'[l].state # "none"
                         => CanMove(mem[l].state, mem'[l].state)]_vars

WaitsFor(q) == \E l \in Leases : mem[l].state = "launching" /\ q \in ToSet(mem[l].requests)

Withdrew(q, hows) == answered[q].how \in hows /\ now - answered[q].at <= WithdrawnAge

\* A request that arrives after its withdrawal, which found no lease, starts or
\* joins no launch, although other withdrawals compete for the room.
LateRequestRefused == \A q \in Requests : Withdrew(q, {"unknown"}) => ~WaitsFor(q)

\* Leases end in time and withdrawals are heeded, with the types: a lease is
\* released when its lifetime is over, and no machine is launched for a run that
\* gave up before it was heard.
LeasesBounded == TypeOK /\ LifetimeBound /\ LateRequestRefused
=============================================================================
