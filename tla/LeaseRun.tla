------------------------------ MODULE LeaseRun ------------------------------
(***************************************************************************)
(* A run that no runner of the user's matches leases a machine             *)
(* (cmd/errand/leases.go, internal/client/leases.go): it asks the cloud    *)
(* peers in turn, sends a request whose answer is lost once more, follows  *)
(* the lease until it is ready, and withdraws the request when it gives    *)
(* up.  A request that went unanswered may still be on its way.            *)
(*                                                                         *)
(* The cloud peers are the broker's request handlers over what they keep   *)
(* of a lease: its state and the requests it was handed to; LeaseBroker    *)
(* has the rest.                                                           *)
(***************************************************************************)
EXTENDS Naturals, FiniteSets

CONSTANTS
    Suppliers,     \* cloud peers with a matching offer, in the order asked
    LeasesEach,    \* leases a cloud peer makes
    MaxReboots     \* restarts of cloud peers

ASSUME LeaseRunAssumption ==
    Suppliers \in Nat \ {0} /\ LeasesEach \in Nat /\ MaxReboots \in Nat

Peers    == 1 .. Suppliers
LeaseIds == 1 .. LeasesEach
Tries    == {0, 1}
Run      == "this run"
Other    == "another run"

VARIABLES
    phase,     \* where leaseRunner is
    peer,      \* the cloud peer asked
    try,       \* AcquireLease's attempt
    given,     \* the lease the answer named, 0 for none
    ctrlC,     \* the user interrupted
    told,      \* what withdrawLease says became of the lease
    post,      \* each copy of the request: where it is, or its answer
    leaseOf,   \* each lease: its state and the requests it was handed to
    refuses,   \* the cloud peers that remember the withdrawal
    reboots

runVars  == <<phase, peer, try, given, ctrlC, told>>
peerVars == <<leaseOf, refuses, reboots>>
lrVars   == <<runVars, post, peerVars>>

Unmade == [is |-> "none", for |-> {}]
Lost   == [kind |-> "lost", id |-> 0]
Flying == [kind |-> "flight", id |-> 0]
Unsent == [kind |-> "unsent", id |-> 0]
Answer(kind, id) == [kind |-> kind, id |-> id]

LRInit ==
    /\ phase = "ask" /\ peer = 1 /\ try = 0 /\ given = 0 /\ ctrlC = FALSE /\ told = "none"
    /\ post = [p \in Peers |-> [t \in Tries |-> Unsent]]
    /\ leaseOf = [p \in Peers |-> [l \in LeaseIds |-> Unmade]]
    /\ refuses = {} /\ reboots = 0

Set(p, l, r) == leaseOf' = [leaseOf EXCEPT ![p][l] = r]
Goes(to) == phase' = to

----------------------------------------------------------------------------
(***************************************************************************)
(* The run.                                                                *)
(***************************************************************************)
\* AcquireLease sends an attempt, which Ctrl-C does not cut short.
Ask ==
    /\ phase = "ask" /\ Goes("waiting")
    /\ post' = [post EXCEPT ![peer][try] = Flying]
    /\ UNCHANGED <<peer, try, given, ctrlC, told, peerVars>>

\* An attempt times out or its connection breaks: once more, then uncertain.
Unanswered ==
    /\ phase = "waiting"
    /\ IF try = 0 THEN Goes("ask") /\ try' = 1 ELSE Goes("withdraw") /\ UNCHANGED try
    /\ UNCHANGED <<peer, given, ctrlC, told, post, peerVars>>

Given ==
    /\ phase = "waiting" /\ post[peer][try].kind = "lease"
    /\ given' = post[peer][try].id /\ Goes("follow")
    /\ UNCHANGED <<peer, try, ctrlC, told, post, peerVars>>

TurnedDown == post[peer][try].kind \in {"refused", "error"}

\* LeaseUncertain: an answer to the second attempt says nothing of the first.
BugUncertain == FALSE

Uncertain == try = 1

\* LeaseRefused: started nothing, so the next cloud peer may be asked.
Refusal == post[peer][try].kind = "refused" /\ ~Uncertain

Doubt ==
    /\ phase = "waiting" /\ TurnedDown /\ Uncertain /\ Goes("withdraw")
    /\ UNCHANGED <<peer, try, given, ctrlC, told, post, peerVars>>

AskNext ==
    /\ phase = "waiting" /\ Refusal /\ peer < Suppliers /\ ~ctrlC
    /\ Goes("ask") /\ peer' = peer + 1 /\ try' = 0
    /\ UNCHANGED <<given, ctrlC, told, post, peerVars>>

NoMachine ==
    /\ phase = "waiting" /\ TurnedDown /\ ~Uncertain
    /\ ~Refusal \/ peer = Suppliers \/ ctrlC
    /\ Goes("failed")
    /\ UNCHANGED <<peer, try, given, ctrlC, told, post, peerVars>>

\* followLease polls; a ready lease is probed once it lets this device in.  The
\* wait fails when the lease ends or does not let it in in time, when a poll fails
\* and on Ctrl-C.
Follow ==
    /\ phase = "follow"
    /\ \/ leaseOf[peer][given].is = "ready" /\ ~ctrlC /\ Goes("probe")
       \/ Goes("withdraw")
    /\ UNCHANGED <<peer, try, given, ctrlC, told, post, peerVars>>

\* readyLease: this machine reaches the lease, and it matches.
ReadyLease ==
    /\ phase = "probe" /\ (Goes("placed") \/ Goes("withdraw"))
    /\ UNCHANGED <<peer, try, given, ctrlC, told, post, peerVars>>

Interrupt ==
    /\ ~ctrlC /\ phase \in {"ask", "waiting", "follow", "probe"} /\ ctrlC' = TRUE
    /\ UNCHANGED <<phase, peer, try, given, told, post, peerVars>>

----------------------------------------------------------------------------
(***************************************************************************)
(* A cloud peer's handlers.                                                *)
(***************************************************************************)
HandedIn(p, q) == {l \in LeaseIds : q \in leaseOf[p][l].for}
NewestOf(S)    == CHOOSE l \in S : \A k \in S : k <= l
Free(p)        == {l \in LeaseIds : leaseOf[p][l].is = "none"}

Reply(p, t, a) == post' = [post EXCEPT ![p][t] = a]

\* handleLeaseAcquire, for what it turns down before it looks at any lease, and
\* for requests that match no offer or find the limit reached.
TurnDown(p, t) ==
    /\ post[p][t] = Flying
    /\ \E kind \in {"refused", "error"} : Reply(p, t, Answer(kind, 0))
    /\ UNCHANGED <<runVars, peerVars>>

\* A request asked again gets its lease; a ready one may be refused now.
GiveAgain(p, t) ==
    /\ post[p][t] = Flying /\ HandedIn(p, Run) # {}
    /\ Reply(p, t, Answer("lease", NewestOf(HandedIn(p, Run))))
    /\ UNCHANGED <<runVars, peerVars>>

PassedOver(p, q) ==
    HandedIn(p, q) # {} => leaseOf[p][NewestOf(HandedIn(p, q))].is = "ready"

\* A ready or launching lease of the owner's, or else a new one.
Accepts(p, t, l) ==
    /\ post[p][t] = Flying /\ PassedOver(p, Run) /\ p \notin refuses
    /\ Reply(p, t, Answer("lease", l))

GiveShared(p, t, l) ==
    /\ leaseOf[p][l].is \in {"ready", "launching"} /\ Accepts(p, t, l)
    /\ Set(p, l, [leaseOf[p][l] EXCEPT !.for = @ \cup {Run}])
    /\ UNCHANGED <<runVars, refuses, reboots>>

GiveNew(p, t, l) ==
    /\ l \in Free(p) /\ \A k \in Free(p) : l <= k
    /\ \A k \in LeaseIds : leaseOf[p][k].is # "launching"
    /\ Accepts(p, t, l)
    /\ Set(p, l, [is |-> "launching", for |-> {Run}])
    /\ UNCHANGED <<runVars, refuses, reboots>>

RefuseWithdrawn(p, t) ==
    /\ post[p][t] = Flying /\ PassedOver(p, Run) /\ p \in refuses
    /\ Reply(p, t, Answer("refused", 0))
    /\ UNCHANGED <<runVars, peerVars>>

\* The cloud peer's side of a withdrawal: a launch every request withdrew from is
\* cancelled, and a lease that is not launching stays as it is.
Without(r, q) ==
    IF r.is # "launching" THEN r
    ELSE [is |-> IF r.for = {q} THEN "releasing" ELSE r.is, for |-> r.for \ {q}]

\* What withdrawLease makes of the answer.
Says(is) == IF is = "ready" THEN "stays" ELSE IF is = "launching" THEN "keeps" ELSE "released"

WithdrawHanded(l) ==
    /\ phase = "withdraw" /\ l \in HandedIn(peer, Run)
    /\ LET r == Without(leaseOf[peer][l], Run)
       IN  Set(peer, l, r) /\ told' \in {Says(r.is), "unknown"}
    /\ Goes("failed")
    /\ UNCHANGED <<peer, try, given, ctrlC, post, refuses, reboots>>

\* The request may still be on its way, so it is remembered.
WithdrawUnknown ==
    /\ phase = "withdraw" /\ HandedIn(peer, Run) = {}
    /\ refuses' = refuses \cup {peer}
    /\ told' \in {IF given = 0 THEN "nothing" ELSE "stays", "unknown"}
    /\ Goes("failed")
    /\ UNCHANGED <<peer, try, given, ctrlC, post, leaseOf, reboots>>

\* The withdrawal does not arrive, finds no room to be remembered until its time
\* is over, or cannot be recorded.
WithdrawFails ==
    /\ phase = "withdraw" /\ Goes("failed") /\ told' = "unknown"
    /\ UNCHANGED <<peer, try, given, ctrlC, post, peerVars>>

----------------------------------------------------------------------------
(***************************************************************************)
(* The environment: other runs, the lease's worker, restarts.              *)
(***************************************************************************)
OtherAsks(p, l) ==
    /\ \/ l \in Free(p) /\ (\A k \in Free(p) : l <= k)
          /\ \A k \in LeaseIds : leaseOf[p][k].is # "launching"
       \/ leaseOf[p][l].is = "launching"
    /\ HandedIn(p, Other) = {}
    /\ Set(p, l, [is |-> "launching", for |-> leaseOf[p][l].for \cup {Other}])
    /\ UNCHANGED <<runVars, post, refuses, reboots>>

OtherWithdraws(p, l) ==
    /\ Other \in leaseOf[p][l].for /\ leaseOf[p][l].is = "launching"
    /\ Set(p, l, Without(leaseOf[p][l], Other))
    /\ UNCHANGED <<runVars, post, refuses, reboots>>

\* A launch ends well or not, a ready lease is idle, expired or released by name,
\* a release ends.
WorkerMoves(p, l) ==
    /\ \/ leaseOf[p][l].is = "launching" /\ \E to \in {"ready", "releasing"} :
             Set(p, l, [leaseOf[p][l] EXCEPT !.is = to])
       \/ leaseOf[p][l].is = "ready" /\ Set(p, l, [leaseOf[p][l] EXCEPT !.is = "releasing"])
       \/ leaseOf[p][l].is = "releasing" /\ Set(p, l, [leaseOf[p][l] EXCEPT !.is = "ended"])
    /\ UNCHANGED <<runVars, post, refuses, reboots>>

\* A restart ends every request in flight, forgets the withdrawals and releases
\* what was launching.
Reboot(p) ==
    /\ reboots < MaxReboots /\ reboots' = reboots + 1
    /\ refuses' = refuses \ {p}
    /\ post' = [post EXCEPT ![p] = [t \in Tries |-> IF post[p][t] = Flying THEN Lost ELSE post[p][t]]]
    /\ leaseOf' = [leaseOf EXCEPT ![p] =
                     [l \in LeaseIds |-> IF leaseOf[p][l].is = "launching"
                                         THEN [leaseOf[p][l] EXCEPT !.is = "releasing"]
                                         ELSE leaseOf[p][l]]]
    /\ UNCHANGED runVars

RunStep ==
    \/ Ask \/ Unanswered \/ Given \/ Doubt \/ AskNext \/ NoMachine \/ Follow \/ ReadyLease
    \/ Interrupt \/ WithdrawUnknown \/ WithdrawFails
    \/ \E l \in LeaseIds : WithdrawHanded(l)

PeerStep(p) ==
    \/ Reboot(p)
    \/ \E t \in Tries : \/ TurnDown(p, t) \/ GiveAgain(p, t) \/ RefuseWithdrawn(p, t)
                        \/ \E l \in LeaseIds : GiveShared(p, t, l) \/ GiveNew(p, t, l)
    \/ \E l \in LeaseIds : OtherAsks(p, l) \/ OtherWithdraws(p, l) \/ WorkerMoves(p, l)

LRNext == RunStep \/ \E p \in Peers : PeerStep(p)
LRSpec == LRInit /\ [][LRNext]_lrVars

----------------------------------------------------------------------------
\* When the user is told that the cloud peer started no lease for the run, it has
\* none and never starts one, whatever copies of the request are still on their way.
NothingStarted == told = "nothing" => HandedIn(peer, Run) = {}

\* A run never holds leases of two cloud peers: the next one is asked only when
\* the one before started nothing, and starts nothing later.
OneSupplier == Cardinality({p \in Peers : HandedIn(p, Run) # {}}) <= 1

\* A run never holds leases of two cloud peers, and when the user is told that
\* nothing was started, nothing was and nothing will be (leases.go).
LeaseFromOne == NothingStarted /\ OneSupplier

\* docs/DESIGN.md: a request that reaches the cloud peer after its own withdrawal
\* starts nothing.
NothingAfterWithdrawal ==
    told \in {"nothing", "released"} =>
        \A l \in HandedIn(peer, Run) : leaseOf[peer][l].is # "launching"
=============================================================================
