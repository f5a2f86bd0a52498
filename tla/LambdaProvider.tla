--------------------------- MODULE LambdaProvider ---------------------------
(***************************************************************************)
(* The Lambda Cloud provider of a lease (internal/cloud/lambda.go,         *)
(* lambda_api.go, lambda_install.go): Acquire launches one instance and    *)
(* installs errand on it, Release terminates whatever may belong to the    *)
(* lease.  A launch whose answer is lost may still create a billed         *)
(* instance, some time after the cloud peer gave up on it or crashed, and  *)
(* the list of instances shows it only later still.                        *)
(*                                                                         *)
(* Time is counted in ticks.  The account at Lambda is external: a request *)
(* in flight is refused, dropped or creates an instance, and the instance  *)
(* is listed, within Lag of being sent.                                    *)
(***************************************************************************)
EXTENDS Integers, FiniteSets, Sequences, SequencesExt

CONSTANTS
    Slack,        \* lambdaSendSlack
    Settle,       \* lambdaLaunchSettle
    Lag,          \* how long a sent launch may go unlisted (external)
    ListTime,     \* how long Release may take between listing and deciding
    MaxSends,     \* launch requests sent
    MaxWall,      \* the last instant
    MaxSlips,     \* failing saves
    MaxStops,     \* crashes of the cloud peer
    Offers        \* the offers' regions, file systems and what Lambda has

\* The settle window has to cover all three delays, not only the unlisted one.
ASSUME LambdaAssumption ==
    /\ {Slack, Settle, Lag, ListTime, MaxSends, MaxWall, MaxSlips, MaxStops} \subseteq Nat
    /\ Slack + Lag + ListTime < Settle

Sends == 1 .. MaxSends

VARIABLES
    wall,     \* p.now
    step,     \* where Acquire is
    cut,      \* its context is done: deadline, release request or close
    began,    \* launch: when sending started
    state,    \* Acquire's lambdaState
    held,     \* the lease record's ProviderState in the broker's memory
    kept,     \* and on disk
    inst,     \* what became of each launch request at Lambda
    due,      \* by when
    apiKey,   \* what api_key_file holds
    rel,      \* where Release is
    snap,     \* what it listed, with which key, when
    slips, stops

acquireVars == <<step, began, state>>
savedVars   == <<held, kept, slips>>
lambdaVars  == <<inst, due>>
releaseVars == <<rel, snap>>
lmVars      == <<wall, cut, acquireVars, savedVars, lambdaVars, apiKey, releaseVars, stops>>

\* Two keys of one account and one of another.
ApiKeys == {"own", "sibling", "foreign"}
AccountOf(k) == IF k = "foreign" THEN 2 ELSE 1
\* A key sees the instances of its account: all were launched with state's key.
SeesInstances(k) == AccountOf(k) = AccountOf(state.key)

NoRegion == "no region"
NoState  == [sent |-> -1, key |-> "own", id |-> 0, seen |-> FALSE, region |-> NoRegion]
NoSnap   == [status |-> [n \in Sends |-> "none"], key |-> "own", at |-> 0]

LMInit ==
    /\ wall = 0 /\ step = "checks" /\ cut = FALSE /\ began = 0
    /\ state = NoState /\ held = NoState /\ kept = NoState
    /\ inst = [n \in Sends |-> "none"] /\ due = [n \in Sends |-> 0]
    /\ apiKey = "own"
    /\ rel = "idle" /\ snap = NoSnap
    /\ slips = 0 /\ stops = 0

\* What Lambda's list of instances shows: neither a registering instance nor
\* one it has forgotten.
Shown   == {"booting", "active", "unhealthy", "terminating", "terminated", "preempted"}
Running == {"booting", "active", "unhealthy"}
Ended   == {"terminated", "preempted"}
\* Billed, or about to be.
Pending == {"inflight", "registering", "terminating"} \cup Running

----------------------------------------------------------------------------
\* saveState through the broker's update: a write that fails leaves the memory
\* alone and may or may not have reached the disk.
Writes == {"ok"} \cup IF slips < MaxSlips THEN {"lost", "landed"} ELSE {}

Save(s, w) ==
    /\ held' = IF w = "ok" THEN s ELSE held
    /\ kept' = IF w = "lost" THEN kept ELSE s
    /\ slips' = IF w = "ok" THEN slips ELSE slips + 1

Unsaved == UNCHANGED savedVars

Goes(p) == step' = p

\* The broker calls Release only once Acquire has returned.
Returns == Goes("returned")

\* Leaves Release, Lambda, the clock and the key file alone.
Alone == UNCHANGED <<wall, cut, apiKey, releaseVars, stops>>

----------------------------------------------------------------------------
(***************************************************************************)
(* Acquire up to the launch.                                               *)
(***************************************************************************)
\* fileSystemRegion: the one region with every file system.
fileSystemRegion(o) ==
    IF \E f, g \in DOMAIN o.fileSystems : o.fileSystems[f] # o.fileSystems[g]
    THEN NoRegion
    ELSE o.fileSystems[CHOOSE f \in DOMAIN o.fileSystems : TRUE]

\* launchRegions: the file systems' region, which the offer must list, or else
\* the offer's regions; none of them means any region, an error no region.
launchRegions(o) ==
    IF DOMAIN o.fileSystems = {} THEN o.regions
    ELSE LET r == fileSystemRegion(o)
         IN  IF o.regions # <<>> /\ r \notin ToSet(o.regions) THEN <<NoRegion>> ELSE <<r>>

\* pickRegion: the first region in the offer's order that has capacity.
pickRegion(o) ==
    LET want == launchRegions(o)
        open == {i \in DOMAIN want : want[i] \in ToSet(o.available)}
    IN  IF want = <<>> /\ o.available # <<>> THEN Head(o.available)
        ELSE IF open = {} THEN NoRegion
        ELSE want[CHOOSE i \in open : \A j \in open : i <= j]

\* Everything that can be refused is checked before paying: who to admit, the
\* secrets, the install, the SSH key, type, price and region.
Refuse ==
    /\ step = "checks" /\ Returns
    /\ UNCHANGED <<began, state, lambdaVars>> /\ Unsaved /\ Alone

Prepare ==
    /\ step = "checks"
    /\ \E o \in Offers : /\ pickRegion(o) # NoRegion
                         /\ state' = [state EXCEPT !.key = apiKey, !.region = pickRegion(o)]
    /\ Goes("gap")
    /\ UNCHANGED <<began, lambdaVars>> /\ Unsaved /\ Alone

----------------------------------------------------------------------------
(***************************************************************************)
(* launch: sending saves the state before each attempt, the request gate   *)
(* may take long, and then sending runs again.                             *)
(***************************************************************************)
\* An error that is errNotSent, or a 4xx: Acquire takes the state back.
TakeBack(w) == Returns /\ Save(NoState, w)

\* The launch gate or its gap; the context may end while waiting.
Gap ==
    /\ step = "gap"
    /\ \/ /\ ~cut /\ Goes("sending") /\ began' = wall /\ Unsaved
       \/ /\ cut /\ UNCHANGED began /\ \E w \in Writes : TakeBack(w)
    /\ UNCHANGED <<state, lambdaVars>> /\ Alone

\* sending: refused by checkPrice, or the time of the attempt is saved.
PriceRefuses ==
    /\ step = "sending" /\ \E w \in Writes : TakeBack(w)
    /\ UNCHANGED <<began, state, lambdaVars>> /\ Alone

BugSending ==
    /\ step = "sending"
    /\ state' = [state EXCEPT !.sent = IF @ = -1 THEN wall ELSE @]
    /\ \E w \in Writes : Save(state', w) /\ Goes(IF w = "ok" THEN "slot" ELSE "unsaved")
    /\ UNCHANGED <<began, lambdaVars>> /\ Alone

Sending ==
    /\ step = "sending"
    /\ state' = [state EXCEPT !.sent = wall]
    /\ \E w \in Writes : Save(state', w) /\ Goes(IF w = "ok" THEN "slot" ELSE "unsaved")
    /\ UNCHANGED <<began, lambdaVars>> /\ Alone

\* A save that failed stops the launch, which is then taken back.
SendingFailed ==
    /\ step = "unsaved" /\ \E w \in Writes : TakeBack(w)
    /\ UNCHANGED <<began, state, lambdaVars>> /\ Alone

\* The request gate opened: a context that is done sends nothing, and a record
\* older than the slack is made again.
InTime == wall - began <= Slack

Slot ==
    /\ step = "slot"
    /\ \/ /\ cut /\ \E w \in Writes : TakeBack(w)
          /\ UNCHANGED <<began, lambdaVars>>
       \/ /\ ~cut /\ ~InTime /\ Goes("sending") /\ began' = wall
          /\ Unsaved /\ UNCHANGED lambdaVars
       \/ /\ ~cut /\ InTime /\ Goes("wait")
          /\ \E n \in Sends :
               /\ inst[n] = "none" /\ \A k \in Sends : k < n => inst[k] # "none"
               /\ inst' = [inst EXCEPT ![n] = "inflight"]
               /\ due' = [due EXCEPT ![n] = wall + Lag]
          /\ Unsaved /\ UNCHANGED began
    /\ UNCHANGED state /\ Alone

Sent == {n \in Sends : inst[n] # "none"}
Latest == CHOOSE n \in Sent : \A k \in Sent : k <= n

\* callOnce's answers.  isRateLimited: wait for the gap and send again.
Limited ==
    /\ step = "wait" /\ inst[Latest] = "limited" /\ Latest < MaxSends /\ Goes("gap")
    /\ UNCHANGED <<began, state, lambdaVars>> /\ Unsaved /\ Alone

\* Any other 4xx created nothing.
Refused4xx ==
    /\ step = "wait" /\ inst[Latest] = "refused" /\ \E w \in Writes : TakeBack(w)
    /\ UNCHANGED <<began, state, lambdaVars>> /\ Alone

\* A timeout, a dropped connection, a 5xx, an answer that is no single instance:
\* nothing is known, the state stays.
NoAnswerFromLambda ==
    /\ step = "wait" /\ Returns
    /\ UNCHANGED <<began, state, lambdaVars>> /\ Unsaved /\ Alone

Launched ==
    /\ step = "wait" /\ inst[Latest] \in Shown \cup {"registering"}
    /\ state' = [state EXCEPT !.id = Latest]
    /\ \E w \in Writes : Save(state', w) /\ Goes(IF w = "ok" THEN "poll" ELSE "returned")
    /\ UNCHANGED <<began, lambdaVars>> /\ Alone

----------------------------------------------------------------------------
(***************************************************************************)
(* waitActive and install.                                                 *)
(***************************************************************************)
\* A poll that shows the instance; the first one saves that it was seen.
Poll ==
    /\ step = "poll" /\ inst[state.id] \in Shown
    /\ state' = [state EXCEPT !.seen = TRUE]
    /\ \E w \in Writes :
         /\ IF state.seen THEN Unsaved /\ w = "ok" ELSE Save(state', w)
         /\ Goes(IF w # "ok" \/ inst[state.id] \notin {"booting", "active"} THEN "returned"
                 ELSE IF inst[state.id] = "active" THEN "install" ELSE "poll")
    /\ UNCHANGED <<began, lambdaVars>> /\ Alone

\* The context is done, or Lambda answers 404; other errors are tried again.
PollFails ==
    /\ step = "poll" /\ (cut \/ inst[state.id] \notin Shown) /\ Returns
    /\ UNCHANGED <<began, state, lambdaVars>> /\ Unsaved /\ Alone

\* install over SSH waits for the host and runs one script.
Install ==
    /\ step = "install" /\ (Goes("target") \/ Returns)
    /\ UNCHANGED <<began, state, lambdaVars>> /\ Unsaved /\ Alone

\* The target is saved; the broker uses the machine and releases it later.
SaveTarget ==
    /\ step = "target" /\ Returns /\ \E w \in Writes : Save(state, w)
    /\ UNCHANGED <<began, state, lambdaVars>> /\ Alone

----------------------------------------------------------------------------
(***************************************************************************)
(* Release, repeated by the broker until it succeeds.                      *)
(***************************************************************************)
\* instances: every page of what Lambda lists to a key.
instances(k) == [n \in Sends |-> IF SeesInstances(k) /\ inst[n] \in Shown THEN inst[n] ELSE "none"]

\* No state: no launch request ever went out.
List ==
    /\ step = "returned" /\ rel = "idle"
    /\ IF held = NoState
       THEN rel' = "released" /\ UNCHANGED snap
       ELSE /\ rel' = "listed"
            /\ snap' = [status |-> instances(apiKey), key |-> apiKey, at |-> wall]
    /\ UNCHANGED <<wall, cut, acquireVars, savedVars, lambdaVars, apiKey, stops>>

Listed(statuses) == {n \in Sends : snap.status[n] \in statuses}

\* What not finding a running instance proves.
ProvesGone ==
    \/ Listed(Ended) # {}
    \/ /\ snap.key = held.key
       /\ held.seen \/ wall - held.sent >= Settle

\* The terminate request may be lost, or its answer; either way Release runs again.
DecideRelease ==
    /\ rel = "listed"
    /\ IF Listed(Running) # {}
       THEN /\ rel' = "idle"
            /\ \/ inst' = [n \in Sends |-> IF n \in Listed(Running) /\ inst[n] \in Running
                                           THEN "terminating" ELSE inst[n]]
               \/ UNCHANGED inst
       ELSE /\ rel' = IF Listed({"terminating"}) = {} /\ ProvesGone THEN "released" ELSE "idle"
            /\ UNCHANGED inst
    /\ snap' = NoSnap
    /\ UNCHANGED <<wall, cut, acquireVars, savedVars, due, apiKey, stops>>

----------------------------------------------------------------------------
(***************************************************************************)
(* The environment.                                                        *)
(***************************************************************************)
\* external: the account at Lambda.
Account(n) ==
    /\ \/ inst[n] = "inflight" /\ \E to \in {"limited", "refused", "dropped", "registering"} :
                                     inst' = [inst EXCEPT ![n] = to]
       \/ inst[n] = "registering" /\ inst' = [inst EXCEPT ![n] = "booting"]
       \/ inst[n] = "booting" /\ \E to \in {"active", "unhealthy"} : inst' = [inst EXCEPT ![n] = to]
       \/ inst[n] \in Running /\ inst' = [inst EXCEPT ![n] = "preempted"]
       \/ inst[n] = "terminating" /\ inst' = [inst EXCEPT ![n] = "terminated"]
       \/ inst[n] \in Ended /\ inst' = [inst EXCEPT ![n] = "forgotten"]
    /\ UNCHANGED <<wall, cut, acquireVars, savedVars, due, apiKey, releaseVars, stops>>

\* The deadline, a release request, the broker closing.
Cut ==
    /\ ~cut /\ step # "returned" /\ cut' = TRUE
    /\ UNCHANGED <<wall, acquireVars, savedVars, lambdaVars, apiKey, releaseVars, stops>>

\* external: the operator replaces the key file.
ChangeKey(k) ==
    /\ k # apiKey /\ apiKey' = k
    /\ UNCHANGED <<wall, cut, acquireVars, savedVars, lambdaVars, releaseVars, stops>>

\* A restart reads the disk; a lease found launching is released.
CloudPeerCrash ==
    /\ stops < MaxStops /\ rel # "released" /\ stops' = stops + 1
    /\ Returns /\ held' = kept /\ rel' = "idle" /\ snap' = NoSnap
    /\ UNCHANGED <<wall, cut, began, state, kept, slips, lambdaVars, apiKey>>

LambdaTick ==
    /\ wall < MaxWall /\ wall' = wall + 1
    /\ \A n \in Sends : inst[n] \in {"inflight", "registering"} => wall < due[n]
    /\ rel = "listed" => wall < snap.at + ListTime
    /\ UNCHANGED <<cut, acquireVars, savedVars, lambdaVars, apiKey, releaseVars, stops>>

AcquireStep ==
    \/ Refuse \/ Prepare \/ Gap \/ PriceRefuses \/ Sending \/ SendingFailed \/ Slot
    \/ Limited \/ Refused4xx \/ NoAnswerFromLambda \/ Launched
    \/ Poll \/ PollFails \/ Install \/ SaveTarget

LMNext ==
    \/ AcquireStep \/ List \/ DecideRelease \/ Cut \/ CloudPeerCrash \/ LambdaTick
    \/ \E n \in Sends : Account(n)
    \/ \E k \in ApiKeys : ChangeKey(k)

LMSpec == LMInit /\ [][LMNext]_lmVars

----------------------------------------------------------------------------
LMTypeOK ==
    /\ wall \in 0 .. MaxWall /\ began \in 0 .. MaxWall
    /\ inst \in [Sends -> {"none", "inflight", "limited", "refused", "dropped", "registering",
                           "forgotten"} \cup Shown]
    /\ \A s \in {state, held, kept} : s.sent \in -1 .. MaxWall /\ s.id \in 0 .. MaxSends

\* A lease is released only when no instance of it is billed and none can still
\* appear: not one whose launch answer was lost, that a crash left in flight, that
\* is not listed yet, or that another account's key cannot see.
ReleasedMeansGone == rel = "released" => \A n \in Sends : inst[n] \notin Pending

\* A lease never has a second instance: an attempt follows only one that Lambda
\* refused with 429, so what Release sees end is all there was.
OneInstance == Cardinality({n \in Sends : inst[n] \in Pending \cup Ended \cup {"forgotten"}}) <= 1

\* A lease is released only when no instance of it is billed and none can still
\* appear, and it never had a second one: not over lost answers, a late listing,
\* a restart or a changed key (lambda.go, lambda_api.go).
InstanceReleased == LMTypeOK /\ ReleasedMeansGone /\ OneInstance
=============================================================================
