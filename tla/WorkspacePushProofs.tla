------------------------- MODULE WorkspacePushProofs -------------------------
(***************************************************************************)
(* Proofs about WorkspacePush, for every set of files and contents, any    *)
(* number of pushes, crashes, lost and delayed requests and edits by jobs, *)
(* and any capacity of the store: a push is installed at most once and its *)
(* receipt is true (PushedOnce), the checkpoint is what was accepted, with *)
(* its bodies (CheckpointSound), and an interrupted push can be repeated   *)
(* (PushRecoverable).                                                      *)
(*                                                                         *)
(* The argument: while push.json says applying, its push is the only one   *)
(* that can be applied, by whichever request, late or not; so the          *)
(* checkpoint moves only with it, a collection cannot take its attempt     *)
(* once it is applied, and a request for any other push finds a receipt or *)
(* nothing.  The receipt's state and the journal tell together whether the *)
(* installation happened, at every point where the runner may die.  The    *)
(* store's size is recorded only when no body is being inserted or         *)
(* removed (UsageInv).                                                     *)
(***************************************************************************)
EXTENDS WorkspacePush, FiniteSetTheorems, WellFoundedInduction, TLAPS

Attempts ==
  [st : {"staged", "applying", "done"}, rev : Nat, base : Manifests, src : Manifests,
   sel : SUBSET Paths, mat : BOOLEAN, rc : {"none", "pending", "outcome", "cleanup", "settled"},
   out : SUBSET Paths, conf : SUBSET Paths, refused : BOOLEAN, bound : BOOLEAN]
Pends ==
  [id : 0 .. MaxPush, base : Manifests, src : Manifests, staged : BOOLEAN,
   applying : BOOLEAN, sel : SUBSET Paths, mat : BOOLEAN]
Checkpoints == {[rev |-> -1]} \cup [rev : Nat, man : Manifests, last : 0 .. MaxPush]
Journals    == {None} \cup [kind : {"committed"}, out : SUBSET Paths, conf : SUBSET Paths]
UploadMsgs  == [kind : {"upload"}, id : Ids, base : Manifests, src : Manifests]
ApplyMsgs   == [kind : {"apply"}, id : Ids, sel : SUBSET Paths, mat : BOOLEAN]
Msgs        == UploadMsgs \cup ApplyMsgs
BaseMsg     == [kind |-> "base"]

ClientTypes ==
  /\ pend \in Pends /\ copies \subseteq Ids
  /\ told \in [Ids -> {"fresh", "drawn", "applied", "refused"}]
  /\ cl.pc \in {"idle", "base", "record", "upload", "staged", "finish", "reupload", "forget"}
  /\ cl.pc \in {"base", "record"} => cl.src \in Manifests
NetTypes ==
  req \in Msgs \cup {BaseMsg, None} /\ late \subseteq Msgs /\ up \in UploadMsgs \cup {None}
StoreTypes ==
  /\ ckpt \in Checkpoints /\ journal \in Journals
  /\ att \in [Ids -> Attempts \cup {NoAttempt}] /\ installs \in [Ids -> Nat]
  /\ accepted \in Manifests
FileTypes ==
  blobs \subseteq Values /\ tree \in [Paths -> Values \cup {Job, Mix, Mark}] /\ temps \in Nat

AttemptSteps == {"mark", "target", "install", "advance", "done"}
Steps == AttemptSteps \cup {"recover", "base", "upload", "stage", "apply", "retain", "rename",
                            "collect", "prune", "sweep"}
Handlers(t) ==
  [kind : {"busy"}, op : {"upload", "base", "apply", "gc", "boot"}, m : Msgs \cup {BaseMsg, None},
   step : Steps, id : 0 .. MaxPush, back : {"", "recover", "answer", "upload"},
   need : SUBSET Values, total : {t}]
SrvTypes == srv = None \/ srv \in Handlers(srv.total)

-----------------------------------------------------------------------------
\* The client has the receipt of the push.
Over(i) == told[i] \in {"applied", "refused"}

\* Requests that are on the way or being handled.
Waiting == late \cup {req, up} \cup (IF srv.kind = "busy" THEN {srv.m} ELSE {})

\* Nothing of an identifier is known yet outside the client.
Untouched(i) ==
  /\ pend.id # i /\ att[i].st = "none" /\ installs[i] = 0
  /\ \A m \in Waiting : m \in Msgs => m.id # i
  /\ srv.kind = "busy" => srv.id # i

FreshInv ==
  \A i \in Ids : told[i] = "fresh" => Untouched(i) /\ \A k \in Ids : k > i => told[k] = "fresh"

\* push.json: its source is kept, and was made for the checkpoint that is still the
\* latest until the push itself moves it.
PendInv ==
  /\ pend.id = 0 => ~pend.applying
  /\ pend.id # 0 =>
       /\ told[pend.id] = "drawn" /\ pend.id \in copies
       /\ att[pend.id].st \notin {"applying", "done"} => pend.base = Base

\* The request the client waits for.
UploadMsg == [kind |-> "upload", id |-> pend.id, base |-> pend.base, src |-> pend.src]
ApplyMsg  == [kind |-> "apply", id |-> pend.id, sel |-> pend.sel, mat |-> pend.mat]
ClientInv ==
  /\ cl.pc \in {"idle", "record", "staged", "forget"} => req = None
  /\ cl.pc = "base" => req = BaseMsg /\ ~pend.applying /\ \E i \in Ids : told[i] = "fresh"
  /\ cl.pc = "upload" => pend.id # 0 /\ ~pend.applying /\ req = UploadMsg
  /\ cl.pc = "staged" => pend.id # 0 /\ ~pend.applying
  /\ cl.pc = "finish" => pend.applying /\ req = ApplyMsg
  /\ cl.pc = "reupload" => pend.applying /\ req = UploadMsg
  /\ cl.pc = "forget" => pend.id = 0

\* The identifier that was just drawn is the greatest.
RecordInv ==
  cl.pc = "record" =>
    /\ ~pend.applying /\ cl.base = Base
    /\ \E i \in Ids : /\ told[i] = "drawn" /\ Untouched(i)
                      /\ \A k \in Ids : told[k] = "drawn" => k <= i

AnswerInv ==
  /\ req = None => ans = None
  /\ ans.kind = "manifest" => req = BaseMsg /\ ans.man = Base
  /\ ans.kind = "receipt" =>
       req = ApplyMsg /\ pend.applying /\ att[pend.id].st = "done" /\ ans.refused = att[pend.id].refused

\* What a request may ask for, however late it comes.
MsgInv(m) ==
  /\ m.kind = "upload" => /\ m.id = pend.id => m.src = pend.src
                          /\ Over(m.id) => att[m.id].st = "done"
  /\ m.kind = "apply" => Over(m.id) \/ (m.id = pend.id /\ pend.applying)

-----------------------------------------------------------------------------
\* The receipt has an outcome; the installation happened; what it made of the base.
HasOutcome(a) == a.rc \in {"outcome", "cleanup", "settled"}
Installed(a)  == (HasOutcome(a) /\ ~a.refused) \/ (a.rc = "pending" /\ Committed)
Made(a) ==
  IF HasOutcome(a) THEN Accept(a.base, a)
  ELSE IF a.rc = "pending" /\ Committed
       THEN [p \in Paths |-> IF p \in journal.out \ journal.conf THEN a.src[p] ELSE a.base[p]]
       ELSE a.base

StagedInv(i) ==
  att[i].st = "staged" =>
    att[i].rc = "none" /\ ~att[i].refused /\ ~att[i].bound /\ told[i] = "drawn"

ApplyingInv(i) ==
  att[i].st = "applying" =>
    /\ i = pend.id /\ pend.applying /\ accepted = Made(att[i])
    /\ att[i].refused => att[i].rc \in {"outcome", "settled"}
    /\ \/ ckpt.rev = att[i].rev /\ ckpt.man = att[i].base
       \/ Replayed(i) /\ att[i].rc = "settled" /\ ckpt.man = accepted

DoneInv(i) ==
  att[i].st = "done" =>
    /\ att[i].rc = "settled"
    /\ Over(i) \/ (i = pend.id /\ pend.applying /\ ckpt.rev = att[i].rev + 1)
    /\ told[i] = "applied" => ~att[i].refused
    /\ told[i] = "refused" => att[i].refused

KnownInv(i) ==
  att[i].st # "none" => ckpt.rev >= 0 /\ told[i] # "fresh" /\ (i = pend.id => att[i].src = pend.src)

InstallInv(i) ==
  /\ att[i].st = "none" => installs[i] = (IF told[i] = "applied" THEN 1 ELSE 0)
  /\ att[i].st = "staged" => installs[i] = 0
  /\ att[i].st \in {"applying", "done"} => installs[i] = (IF Installed(att[i]) THEN 1 ELSE 0)

AttInv(i) == StagedInv(i) /\ ApplyingInv(i) /\ DoneInv(i) /\ KnownInv(i) /\ InstallInv(i)

\* A committed journal is that of the application in flight.
JournalInv ==
  Committed => /\ pend.id # 0 /\ att[pend.id].st = "applying" /\ ~att[pend.id].refused
               /\ att[pend.id].rc \in {"pending", "outcome", "cleanup"}

AcceptedInv == (\A i \in Ids : att[i].st # "applying") => accepted = Base

-----------------------------------------------------------------------------
\* The handler that holds the workspace's lock, and the attempt it works on.
OnAttempt ==
  \/ srv.step \in AttemptSteps
  \/ srv.step = "apply" /\ srv.id # 0
  \/ srv.step \in {"retain", "rename"} /\ srv.back # "upload"

HandlerInv ==
  /\ srv.op = "upload" => srv.m = up /\ up \in UploadMsgs
  /\ srv.op = "apply" => srv.m \in ApplyMsgs
  /\ srv.op = "base" => srv.m = BaseMsg
  /\ srv.op \in {"gc", "boot"} => srv.m = None
  /\ srv.op = "gc" <=> srv.step \in {"collect", "prune", "sweep"}
  /\ srv.step \in {"upload", "stage"} => srv.op = "upload"
  /\ srv.step = "base" => srv.op = "base"
  /\ srv.step = "apply" /\ srv.id = 0 => srv.op = "apply"
  /\ srv.step = "stage" => ckpt.rev >= 0
  /\ ~OnAttempt => srv.id = 0

AttemptInv ==
  OnAttempt =>
    /\ srv.id # 0 /\ srv.back \in {"answer", "recover"} /\ att[srv.id].st # "none"
    /\ srv.back = "answer" => srv.op = "apply" /\ srv.m.id = srv.id
    /\ srv.back = "recover" => att[srv.id].st = "applying"
    /\ srv.step \in AttemptSteps \ {"mark"} => att[srv.id].st \in {"applying", "done"}
    /\ srv.step = "install" => att[srv.id].st = "applying" /\ att[srv.id].rc = "pending" /\ ~Committed
    /\ srv.step \in {"advance", "done"} => att[srv.id].rc = "settled"
    /\ srv.step = "done" => att[srv.id].st = "done" \/ Replayed(srv.id)

RetainInv ==
  /\ srv.step \in {"retain", "rename"} => IsFiniteSet(srv.need)
  /\ srv.step \in {"retain", "rename"} /\ srv.back = "upload" => srv.op = "upload" /\ ckpt.rev < 0
  /\ srv.step \in {"retain", "rename", "mark"} /\ OnAttempt =>
       /\ srv.back = "answer"
       /\ att[srv.id].st = "staged" /\ att[srv.id].rev = ckpt.rev /\ att[srv.id].base = ckpt.man
       /\ srv.need = Remote(att[srv.id])
  /\ srv.step = "mark" => srv.need \subseteq blobs
  /\ srv.step = "rename" => Cardinality(srv.need \ blobs) <= temps

SrvInv == srv.kind = "busy" => HandlerInv /\ AttemptInv /\ RetainInv

-----------------------------------------------------------------------------
Types     == ClientTypes /\ NetTypes /\ StoreTypes /\ FileTypes /\ SrvTypes
TalkInv   == FreshInv /\ PendInv /\ ClientInv /\ RecordInv /\ \A m \in Waiting : MsgInv(m)
StoreInv  == (\A i \in Ids : AttInv(i)) /\ JournalInv /\ AcceptedInv
WPInv     == Types /\ TalkInv /\ AnswerInv /\ StoreInv /\ BodiesRetained /\ SrvInv

-----------------------------------------------------------------------------
\* Identifiers, and the one the client draws next.
LEMMA MinIn ==
  ASSUME NEW S \in SUBSET Ids, S # {}
  PROVE  Min(S) \in S /\ \A y \in S : Min(S) <= y
  <1>1. S \in SUBSET Nat
    BY PushAssumption DEF Ids
  <1>2. PICK x \in S : \A y \in S : ~ (<<y, x>> \in OpToRel(<, Nat))
    BY <1>1, WFMin, NatLessThanWellFounded
  <1>3. \A y \in S : ~ (y < x)
    BY <1>1, <1>2 DEF OpToRel
  <1>4. \A y \in S : x <= y
    BY <1>1, <1>3
  <1> QED
    BY <1>4 DEF Min

LEMMA NextIdFresh ==
  ASSUME told \in [Ids -> {"fresh", "drawn", "applied", "refused"}], \E i \in Ids : told[i] = "fresh"
  PROVE  /\ NextId \in Ids /\ told[NextId] = "fresh"
         /\ \A k \in Ids : told[k] = "fresh" => NextId <= k
  <1> DEFINE S == {i \in Ids : told[i] = "fresh"}
  <1>1. Min(S) \in S /\ \A y \in S : Min(S) <= y
    BY MinIn
  <1>2. NextId = Min(S)
    BY DEF NextId
  <1> QED
    BY <1>1, <1>2

LEMMA NextIdSome ==
  ASSUME NextId # 0
  PROVE  \E i \in Ids : told[i] = "fresh"
  BY DEF NextId

\* Identifiers are numbers other than 0; records that differ in kind differ.
LEMMA Shapes ==
  /\ 0 \notin Ids /\ Ids \subseteq Nat /\ Ids \subseteq 0 .. MaxPush
  /\ \A i \in 0 .. MaxPush : i # 0 => i \in Ids
  /\ None \notin Msgs /\ BaseMsg \notin Msgs /\ BaseMsg # None /\ None.kind = "none" /\ BaseMsg.kind = "base"
  /\ \A m \in Msgs : m.id \in Ids /\ m # None /\ m # BaseMsg /\ m.kind \in {"upload", "apply"}
  /\ \A m \in UploadMsgs : m.kind = "upload" /\ m \in Msgs /\ m.src \in Manifests /\ m.base \in Manifests
  /\ \A m \in ApplyMsgs : m.kind = "apply" /\ m \in Msgs /\ m.sel \in SUBSET Paths
  /\ \A m \in Msgs : (m.kind = "upload" <=> m \in UploadMsgs) /\ (m.kind = "apply" <=> m \in ApplyMsgs)
  /\ Creation \in Manifests /\ NoAttempt.st = "none"
  /\ Idle.pc = "idle" /\ NoPend \in Pends /\ NoPend.id = 0 /\ ~NoPend.applying
  <1>1. /\ 0 \notin Ids /\ Ids \subseteq Nat /\ Ids \subseteq 0 .. MaxPush
        /\ \A i \in 0 .. MaxPush : i # 0 => i \in Ids
    BY PushAssumption DEF Ids
  <1>2. /\ BaseMsg # None /\ None.kind = "none" /\ BaseMsg.kind = "base"
    BY DEF BaseMsg, None
  <1>3. /\ \A m \in UploadMsgs : m.kind = "upload" /\ m \in Msgs /\ m.src \in Manifests /\ m.base \in Manifests
                                 /\ m.id \in Ids
        /\ \A m \in ApplyMsgs : m.kind = "apply" /\ m \in Msgs /\ m.sel \in SUBSET Paths /\ m.id \in Ids
    BY DEF Msgs, UploadMsgs, ApplyMsgs
  <1>4. /\ Creation \in Manifests /\ NoAttempt.st = "none"
        /\ Idle.pc = "idle" /\ NoPend.id = 0 /\ ~NoPend.applying
    BY PushAssumption DEF Manifests, NoAttempt, Idle, NoPend
  <1>5. NoPend \in Pends
    BY <1>4, PushAssumption DEF NoPend, Pends
  <1> QED
    BY <1>1, <1>2, <1>3, <1>4, <1>5 DEF Msgs

\* The greatest of a set of identifiers.
LEMMA MaxIs ==
  ASSUME NEW S \in SUBSET Ids, NEW i \in S, \A k \in S : k <= i
  PROVE  Max(S) = i
  <1>1. Max(S) \in S /\ \A y \in S : y <= Max(S)
    BY DEF Max
  <1>2. Max(S) \in Nat /\ i \in Nat
    BY <1>1, Shapes
  <1>3. Max(S) <= i /\ i <= Max(S)
    BY <1>1
  <1> QED
    BY <1>2, <1>3

\* What is in the store.
LEMMA Fields ==
  ASSUME StoreTypes
  PROVE  /\ Base \in Manifests
         /\ ckpt.rev \in Int
         /\ ckpt.rev >= 0 => ckpt \in [rev : Nat, man : Manifests, last : 0 .. MaxPush] /\ Base = ckpt.man
         /\ \A i \in Ids : /\ att[i].st \in {"none", "staged", "applying", "done"}
                           /\ att[i].st # "none" => att[i] \in Attempts
                           /\ att[i].st = "none" => att[i] = NoAttempt
  <1>1. ckpt = [rev |-> -1] \/ ckpt \in [rev : Nat, man : Manifests, last : 0 .. MaxPush]
    BY DEF StoreTypes, Checkpoints
  <1>2. \A i \in Ids : att[i] \in Attempts \/ att[i] = NoAttempt
    BY DEF StoreTypes
  <1>3. CASE ckpt = [rev |-> -1]
    BY <1>2, <1>3, Shapes DEF Base, Attempts
  <1>4. CASE ckpt \in [rev : Nat, man : Manifests, last : 0 .. MaxPush]
    BY <1>2, <1>4, Shapes DEF Base, Attempts
  <1> QED
    BY <1>1, <1>3, <1>4

-----------------------------------------------------------------------------
(* Frames: what a step that leaves most of the state alone keeps.           *)

\* The store's side, while the pending push stays the same.
LEMMA StoreSame ==
  ASSUME StoreInv, UNCHANGED <<att, ckpt, journal, accepted, installs, told>>,
         pend'.id = pend.id, pend'.applying = pend.applying, pend'.src = pend.src
  PROVE  StoreInv'
  <1>1. ASSUME NEW i \in Ids PROVE AttInv(i)'
    <2>1. AttInv(i)
      BY DEF StoreInv
    <2>2. StagedInv(i)' /\ DoneInv(i)' /\ KnownInv(i)'
      BY <2>1 DEF AttInv, StagedInv, DoneInv, KnownInv, Over
    <2>3. ApplyingInv(i)'
      BY <2>1 DEF AttInv, ApplyingInv, Made, HasOutcome, Accept, Committed, Replayed
    <2>4. InstallInv(i)'
      BY <2>1 DEF AttInv, InstallInv, Installed, HasOutcome, Committed
    <2> QED
      BY <2>2, <2>3, <2>4 DEF AttInv
  <1>2. JournalInv' /\ AcceptedInv'
    BY DEF StoreInv, JournalInv, AcceptedInv, Committed, Base
  <1> QED
    BY <1>1, <1>2 DEF StoreInv

\* The runner's side, in a step of the client.
LEMMA RunnerSame ==
  ASSUME WPInv, UNCHANGED <<up, srv, ckpt, att, blobs, temps, tree, journal, installs, accepted>>
  PROVE  StoreTypes' /\ FileTypes' /\ SrvTypes' /\ BodiesRetained' /\ SrvInv'
  <1>1. StoreTypes' /\ FileTypes' /\ SrvTypes'
    BY DEF WPInv, Types, StoreTypes, FileTypes, SrvTypes, Handlers
  <1>2. BodiesRetained'
    BY DEF WPInv, BodiesRetained, Pins, Unfinished, InFlight
  <1>3. HandlerInv' <=> HandlerInv
    BY DEF HandlerInv, OnAttempt
  <1>4. AttemptInv' <=> AttemptInv
    BY DEF AttemptInv, OnAttempt, Committed, Replayed
  <1>5. RetainInv' <=> RetainInv
    BY DEF RetainInv, OnAttempt
  <1> QED
    BY <1>1, <1>2, <1>3, <1>4, <1>5 DEF WPInv, SrvInv

\* The client's side, in a step of the runner.
LEMMA TalkKeeps ==
  ASSUME WPInv, UNCHANGED <<pend, copies, cl, told, req>>, Waiting' \subseteq Waiting \cup {None},
         \A i \in Ids : Untouched(i) =>
            att'[i].st = "none" /\ installs'[i] = 0 /\ (srv'.kind = "busy" => srv'.id # i),
         Base' = Base \/ (pend.applying /\ att'[pend.id].st \in {"applying", "done"}),
         pend.id # 0 /\ att[pend.id].st \in {"applying", "done"} => att'[pend.id].st \in {"applying", "done"},
         \A m \in Waiting' : m.kind = "upload" /\ att[m.id].st = "done" => att'[m.id].st = "done"
  PROVE  TalkInv'
  <1>1. \A i \in Ids : Untouched(i) => Untouched(i)'
    BY Shapes DEF Untouched
  <1>2. FreshInv'
    BY <1>1 DEF WPInv, TalkInv, FreshInv
  <1>3. PendInv'
    BY DEF WPInv, TalkInv, PendInv
  <1>4. ClientInv'
    BY DEF WPInv, TalkInv, ClientInv, UploadMsg, ApplyMsg
  <1>5. RecordInv'
    <2>1. SUFFICES ASSUME cl.pc = "record" PROVE RecordInv'
      BY DEF RecordInv
    <2>2. ~pend.applying /\ cl.base = Base /\ Base' = Base
      BY <2>1 DEF WPInv, TalkInv, RecordInv
    <2>3. PICK i \in Ids : /\ told[i] = "drawn" /\ Untouched(i)
                           /\ \A k \in Ids : told[k] = "drawn" => k <= i
      BY <2>1 DEF WPInv, TalkInv, RecordInv
    <2> QED
      BY <1>1, <2>2, <2>3 DEF RecordInv
  <1>6. \A m \in Waiting' : MsgInv(m)'
    BY Shapes DEF WPInv, TalkInv, MsgInv, Over
  <1> QED
    BY <1>2, <1>3, <1>4, <1>5, <1>6 DEF TalkInv

-----------------------------------------------------------------------------
(* The client.                                                              *)

\* The client sends a request for the push it has recorded, or none.
LEMMA SendKeeps ==
  ASSUME WPInv,
         UNCHANGED <<up, srv, ckpt, att, blobs, temps, tree, journal, installs, accepted, told>>,
         pend' \in Pends, pend'.id = pend.id, pend'.base = pend.base, pend'.src = pend.src,
         pend'.applying = pend.applying, pend'.sel = pend.sel, pend'.mat = pend.mat,
         copies' \subseteq copies, pend.id # 0 => pend.id \in copies',
         cl'.pc \in {"idle", "base", "upload", "staged", "finish", "reupload", "forget"},
         cl'.pc = "base" => cl'.src \in Manifests,
         ans' = None, late' \subseteq late \cup {req}, late' \subseteq Msgs,
         \/ req' = None
         \/ req' = BaseMsg
         \/ req' = UploadMsg /\ pend.id # 0
         \/ req' = ApplyMsg /\ pend.applying,
         ClientInv'
  PROVE  WPInv'
  <1>1. StoreTypes' /\ FileTypes' /\ SrvTypes' /\ BodiesRetained' /\ SrvInv'
    BY RunnerSame
  <1>2. StoreInv'
    BY StoreSame DEF WPInv
  <1>3. pend.id \in Ids \cup {0} /\ (pend.applying => pend.id # 0) /\ pend \in Pends
    BY Shapes DEF WPInv, Types, ClientTypes, TalkInv, PendInv, Pends
  <1>4. req' \in Msgs => req'.id = pend.id
    BY Shapes DEF UploadMsg, ApplyMsg
  <1>5. ClientTypes' /\ NetTypes'
    <2>1. pend.id # 0 => UploadMsg \in UploadMsgs /\ ApplyMsg \in ApplyMsgs
      BY <1>3 DEF UploadMsg, UploadMsgs, ApplyMsg, ApplyMsgs, Pends
    <2>2. NetTypes'
      BY <1>3, <2>1, Shapes DEF WPInv, Types, NetTypes
    <2> QED
      BY <2>2 DEF WPInv, Types, ClientTypes
  <1>6. Waiting' \subseteq Waiting \cup {req'}
    BY DEF Waiting
  <1>7. \A i \in Ids : Untouched(i) => Untouched(i)'
    BY <1>4, <1>6 DEF Untouched
  <1>8. FreshInv'
    BY <1>7 DEF WPInv, TalkInv, FreshInv
  <1>9. PendInv' /\ RecordInv'
    BY DEF WPInv, TalkInv, PendInv, RecordInv, Base
  <1>10. ASSUME NEW m \in Waiting' PROVE MsgInv(m)'
    <2>1. CASE m \in Waiting
      BY <2>1 DEF WPInv, TalkInv, MsgInv, Over
    <2>2. CASE m = req'
      <3>1. m.kind = "upload" => m.id = pend.id /\ m.src = pend.src /\ pend.id # 0
        BY <2>2, Shapes DEF UploadMsg, ApplyMsg
      <3>2. m.kind = "apply" => m.id = pend.id /\ pend.applying
        BY <2>2, Shapes DEF UploadMsg, ApplyMsg
      <3>3. pend.id # 0 => ~Over(pend.id)
        BY DEF WPInv, TalkInv, PendInv, Over
      <3> QED
        BY <3>1, <3>2, <3>3 DEF MsgInv, Over
    <2> QED
      BY <1>6, <2>1, <2>2
  <1>11. AnswerInv'
    BY Shapes DEF AnswerInv
  <1> QED
    BY <1>1, <1>2, <1>5, <1>8, <1>9, <1>10, <1>11 DEF WPInv, Types, TalkInv

\* What the client's steps leave alone.
ClientStep == UNCHANGED <<up, srv, ckpt, att, blobs, temps, tree, journal, installs, accepted>>

\* A push begins or goes on with the request for what push.json says.
LEMMA SendsKeep ==
  ASSUME WPInv, PushResume \/ PushStart \/ PushReuploaded \/ PushForget
  PROVE  WPInv'
  <1>1. ClientStep /\ UNCHANGED <<pend, told>>
    BY DEF PushResume, PushStart, PushReuploaded, PushForget, ClientStep, store, hist
  <1>2. pend \in Pends /\ copies \subseteq Ids /\ late \subseteq Msgs
    BY DEF WPInv, Types, ClientTypes, NetTypes
  <1>3. pend.id # 0 => pend.id \in copies
    BY DEF WPInv, TalkInv, PendInv
  <1>4. CASE PushResume
    <2>1. /\ cl'.pc = "finish" /\ req' = ApplyMsg /\ ans' = None /\ late' = late /\ copies' = copies
          /\ pend.applying
      BY <1>4 DEF PushResume, Send, ApplyMsg
    <2>2. ClientInv'
      BY <1>1, <2>1 DEF ClientInv, ApplyMsg
    <2> QED
      BY <1>1, <1>2, <1>3, <2>1, <2>2, SendKeeps DEF ClientStep
  <1>5. CASE PushStart
    <2>1. cl.pc = "idle" /\ req = None /\ ans = None /\ ~pend.applying /\ copies' = copies
      BY <1>5 DEF PushStart, WPInv, TalkInv, ClientInv, AnswerInv, PendInv
    <2>2. PICK src \in Manifests : PrepareNew(src, FALSE, FALSE)
      BY <1>5 DEF PushStart
    <2>3. CASE NextId # 0 /\ cl' = [pc |-> "base", src |-> src, retry |-> FALSE] /\ Send([kind |-> "base"])
      <3>1. cl'.pc = "base" /\ cl'.src \in Manifests /\ req' = BaseMsg /\ ans' = None /\ late' = late
        BY <2>3 DEF Send, BaseMsg
      <3>2. ClientInv'
        BY <1>1, <2>1, <2>3, <3>1, NextIdSome DEF ClientInv
      <3> QED
        BY <1>1, <1>2, <1>3, <2>1, <3>1, <3>2, SendKeeps DEF ClientStep
    <2>4. CASE pend.id # 0 /\ cl' = [pc |-> "upload", retry |-> FALSE]
               /\ Send([kind |-> "upload", id |-> pend.id, base |-> pend.base, src |-> pend.src])
      <3>1. cl'.pc = "upload" /\ req' = UploadMsg /\ ans' = None /\ late' = late
        BY <2>4 DEF Send, UploadMsg
      <3>2. ClientInv'
        BY <1>1, <2>1, <2>4, <3>1 DEF ClientInv, UploadMsg
      <3> QED
        BY <1>1, <1>2, <1>3, <2>1, <2>4, <3>1, <3>2, SendKeeps DEF ClientStep
    <2>5. CASE pend.id # 0 /\ cl' = [pc |-> "staged"] /\ UNCHANGED net
      <3>1. cl'.pc = "staged" /\ req' = None /\ ans' = None /\ late' = late
        BY <2>1, <2>5 DEF net
      <3>2. ClientInv'
        BY <1>1, <2>1, <2>5, <3>1 DEF ClientInv
      <3> QED
        BY <1>1, <1>2, <1>3, <2>1, <3>1, <3>2, SendKeeps DEF ClientStep
    <2> QED
      BY <2>2, <2>3, <2>4, <2>5 DEF PrepareNew
  <1>6. CASE PushReuploaded
    <2>1. pend.applying /\ copies' = copies /\ late' = late /\ ans' = None
      BY <1>6 DEF PushReuploaded, Send, WPInv, TalkInv, ClientInv
    <2>2. \/ cl'.pc = "finish" /\ req' = ApplyMsg
          \/ cl'.pc = "idle" /\ req' = None
      BY <1>6 DEF PushReuploaded, Send, Idle, ApplyMsg
    <2>3. ClientInv'
      BY <1>1, <2>1, <2>2 DEF ClientInv, ApplyMsg
    <2> QED
      BY <1>1, <1>2, <1>3, <2>1, <2>2, <2>3, SendKeeps DEF ClientStep
  <1>7. CASE PushForget
    <2>1. pend.id = 0 /\ copies' \subseteq copies /\ cl'.pc = "idle" /\ req' = req /\ req = None
          /\ ans' = ans /\ ans = None /\ late' = late
      BY <1>7 DEF PushForget, Idle, net, WPInv, TalkInv, ClientInv, AnswerInv
    <2>2. ClientInv'
      BY <2>1 DEF ClientInv
    <2> QED
      BY <1>1, <1>2, <2>1, <2>2, SendKeeps DEF ClientStep
  <1> QED
    BY <1>4, <1>5, <1>6, <1>7

\* An answer to an upload.
LEMMA UploadedKeeps ==
  ASSUME WPInv, PushUploaded
  PROVE  WPInv'
  <1>1. ClientStep /\ UNCHANGED told /\ copies' = copies /\ cl.pc = "upload"
    BY DEF PushUploaded, ClientStep, store, hist
  <1>2. pend \in Pends /\ copies \subseteq Ids /\ late \subseteq Msgs
    BY DEF WPInv, Types, ClientTypes, NetTypes
  <1>3. pend.id # 0 /\ pend.id \in copies /\ ~pend.applying
    BY <1>1 DEF WPInv, TalkInv, PendInv, ClientInv
  <1>4. CASE pend' = [pend EXCEPT !.staged = TRUE] /\ cl' = [pc |-> "staged"] /\ req' = None /\ ans' = None
             /\ UNCHANGED late
    <2>1. /\ pend' \in Pends /\ pend'.id = pend.id /\ pend'.base = pend.base /\ pend'.src = pend.src
          /\ pend'.applying = pend.applying /\ pend'.sel = pend.sel /\ pend'.mat = pend.mat
      BY <1>2, <1>4 DEF Pends
    <2>2. ClientInv' /\ cl'.pc = "staged"
      BY <1>3, <1>4, <2>1 DEF ClientInv
    <2> QED
      BY <1>1, <1>2, <1>3, <1>4, <2>1, <2>2, SendKeeps DEF ClientStep
  <1>5. CASE (\E src \in Manifests : PrepareNew(src, TRUE, TRUE)) /\ UNCHANGED pend
    <2>1. PICK src \in Manifests : NextId # 0 /\ cl' = [pc |-> "base", src |-> src, retry |-> TRUE]
                                   /\ Send([kind |-> "base"])
      BY <1>5 DEF PrepareNew
    <2>2. cl'.pc = "base" /\ cl'.src \in Manifests /\ req' = BaseMsg /\ ans' = None /\ late' = late
      BY <2>1 DEF Send, BaseMsg
    <2>3. ClientInv'
      BY <1>1, <1>3, <1>5, <2>1, <2>2, NextIdSome DEF ClientInv
    <2> QED
      BY <1>1, <1>2, <1>3, <1>5, <2>2, <2>3, SendKeeps DEF ClientStep
  <1>6. CASE cl' = Idle /\ req' = None /\ ans' = None /\ UNCHANGED <<late, pend>>
    <2>1. ClientInv' /\ cl'.pc = "idle"
      BY <1>6 DEF ClientInv, Idle
    <2> QED
      BY <1>1, <1>2, <1>3, <1>6, <2>1, SendKeeps DEF ClientStep
  <1> QED
    BY <1>4, <1>5, <1>6 DEF PushUploaded

\* The client stops waiting or dies.
LEMMA LostKeeps ==
  ASSUME WPInv, PushLost
  PROVE  WPInv'
  <1>1. ClientStep /\ UNCHANGED <<told, pend, copies>> /\ cl' = Idle /\ cl.pc # "idle"
    BY DEF PushLost, ClientStep, store, hist
  <1>2. pend \in Pends /\ copies \subseteq Ids /\ late \subseteq Msgs /\ req \in Msgs \cup {BaseMsg, None}
    BY DEF WPInv, Types, ClientTypes, NetTypes
  <1>3. pend.id # 0 => pend.id \in copies
    BY DEF WPInv, TalkInv, PendInv
  <1>4. req' = None /\ ans' = None /\ late' \subseteq late \cup {req} /\ late' \subseteq Msgs
    <2>1. CASE GiveUp
      BY <1>2, <2>1, Shapes DEF GiveUp
    <2>2. CASE req.kind = "none" /\ UNCHANGED net
      <3>1. req = None
        BY <1>2, <2>2, Shapes
      <3> QED
        BY <1>2, <2>2, <3>1 DEF net, WPInv, AnswerInv
    <2> QED
      BY <2>1, <2>2 DEF PushLost
  <1>5. ClientInv' /\ cl'.pc = "idle"
    BY <1>1, <1>4 DEF ClientInv, Idle
  <1> QED
    BY <1>1, <1>2, <1>3, <1>4, <1>5, SendKeeps DEF ClientStep

LEMMA WaitingKinds ==
  ASSUME WPInv, NEW m \in Waiting
  PROVE  m \in Msgs \/ m.kind \notin {"upload", "apply"}
  <1>1. CASE m \in late \cup {req, up}
    BY <1>1, Shapes DEF WPInv, Types, NetTypes
  <1>2. CASE srv.kind = "busy" /\ m = srv.m
    <2>1. srv.op \in {"upload", "base", "apply", "gc", "boot"} /\ HandlerInv
      BY <1>2, Shapes DEF WPInv, Types, SrvTypes, SrvInv, Handlers
    <2> QED
      BY <1>2, <2>1, Shapes DEF HandlerInv
  <1> QED
    BY <1>1, <1>2 DEF Waiting

\* The accepted source has come: the client draws an identifier and makes its copy.
LEMMA PreparedKeeps ==
  ASSUME WPInv, PushPrepared
  PROVE  WPInv'
  <1>1. /\ ClientStep /\ pend' = pend /\ cl.pc = "base" /\ ans.kind = "manifest"
        /\ req' = None /\ ans' = None /\ late' = late
    BY DEF PushPrepared, ClientStep, store
  <1>2. /\ pend \in Pends /\ copies \subseteq Ids /\ late \subseteq Msgs /\ cl.src \in Manifests
        /\ told \in [Ids -> {"fresh", "drawn", "applied", "refused"}]
    BY <1>1 DEF WPInv, Types, ClientTypes, NetTypes
  <1>3. pend.id # 0 => pend.id \in copies
    BY DEF WPInv, TalkInv, PendInv
  <1>4. CASE cl' = Idle /\ UNCHANGED <<copies, told>>
    <2>1. ClientInv' /\ cl'.pc = "idle"
      BY <1>1, <1>4 DEF ClientInv, Idle
    <2> QED
      BY <1>1, <1>2, <1>3, <1>4, <2>1, SendKeeps DEF ClientStep
  <1>5. CASE /\ copies' = copies \cup {NextId}
             /\ cl' = [pc |-> "record", src |-> cl.src, base |-> ans.man, retry |-> cl.retry]
             /\ told' = [told EXCEPT ![NextId] = "drawn"]
    <2>1. ~pend.applying /\ \E i \in Ids : told[i] = "fresh"
      BY <1>1 DEF WPInv, TalkInv, ClientInv
    <2>2. /\ NextId \in Ids /\ told[NextId] = "fresh"
          /\ \A k \in Ids : told[k] = "fresh" => NextId <= k
      BY <1>2, <2>1, NextIdFresh
    <2>3. PICK n \in Ids : n = NextId
      BY <2>2
    <2>4. /\ told'[n] = "drawn" /\ \A k \in Ids : k # n => told'[k] = told[k]
          /\ told[n] = "fresh" /\ Untouched(n)
          /\ \A k \in Ids : k > n => told[k] = "fresh"
          /\ \A k \in Ids : told[k] = "fresh" => n <= k
      BY <1>2, <1>5, <2>2, <2>3 DEF WPInv, TalkInv, FreshInv
    <2>5. StoreTypes' /\ FileTypes' /\ SrvTypes' /\ BodiesRetained' /\ SrvInv'
      BY <1>1, RunnerSame DEF ClientStep
    <2>6. ClientTypes' /\ NetTypes'
      BY <1>1, <1>2, <1>5, <2>2 DEF WPInv, Types, ClientTypes, NetTypes, ClientStep
    <2>7. Waiting' \subseteq Waiting \cup {None} /\ None \notin Msgs
      BY <1>1, Shapes DEF Waiting, ClientStep
    <2>8. \A i \in Ids : Untouched(i) => Untouched(i)'
      BY <1>1, <2>7 DEF Untouched, ClientStep
    <2>9. FreshInv'
      <3>1. \A i \in Ids : told'[i] = "fresh" => i # n /\ told[i] = "fresh"
        BY <2>4
      <3>2. ASSUME NEW i \in Ids, told'[i] = "fresh", NEW k \in Ids, k > i PROVE told'[k] = "fresh"
        <4>1. told[i] = "fresh" /\ told[k] = "fresh" /\ n <= i
          BY <2>4, <3>1, <3>2 DEF WPInv, TalkInv, FreshInv
        <4>2. k # n
          BY <3>2, <4>1, Shapes
        <4> QED
          BY <2>4, <4>1, <4>2
      <3> QED
        BY <2>8, <3>1, <3>2 DEF WPInv, TalkInv, FreshInv
    <2>10. pend.id # n
      BY <2>4 DEF Untouched
    <2>11. PendInv'
      BY <1>1, <1>2, <1>5, <2>4, <2>10, Shapes DEF WPInv, TalkInv, PendInv, ClientStep, Base, Pends
    <2>12. ClientInv' /\ AnswerInv'
      BY <1>1, <1>5, Shapes DEF ClientInv, AnswerInv
    <2>13. RecordInv'
      <3>1. cl'.base = Base /\ Base' = Base
        BY <1>1, <1>5 DEF WPInv, AnswerInv, Base, ClientStep
      <3>2. \A k \in Ids : told'[k] = "drawn" => k <= n
        <4>1. SUFFICES ASSUME NEW k \in Ids, told'[k] = "drawn", ~(k <= n) PROVE FALSE
          OBVIOUS
        <4>2. k > n
          BY <4>1, Shapes
        <4> QED
          BY <2>4, <4>1, <4>2, Shapes
      <3> QED
        BY <1>1, <2>1, <2>4, <2>8, <3>1, <3>2 DEF RecordInv
    <2>14. ASSUME NEW m \in Waiting' PROVE MsgInv(m)'
      <3>1. CASE m = None
        BY <3>1, Shapes DEF MsgInv
      <3>2. CASE m \in Waiting /\ m \in Msgs
        <4>1. m.id # n /\ m.id \in Ids /\ MsgInv(m)
          BY <2>4, <3>2, Shapes DEF Untouched, WPInv, TalkInv
        <4> QED
          BY <1>1, <2>4, <4>1 DEF MsgInv, Over, ClientStep
      <3>3. m \in Msgs \/ m.kind \notin {"upload", "apply"}
        BY <2>7, WaitingKinds, Shapes
      <3> QED
        BY <2>7, <3>1, <3>2, <3>3 DEF MsgInv
    <2>15. StoreInv'
      <3>1. ASSUME NEW i \in Ids PROVE AttInv(i)'
        <4>1. AttInv(i)
          BY DEF WPInv, StoreInv
        <4>2. CASE i = n
          <5>1. att[i].st = "none" /\ installs[i] = 0
            BY <2>4, <4>2 DEF Untouched
          <5> QED
            BY <1>1, <2>4, <4>2, <5>1
            DEF AttInv, StagedInv, ApplyingInv, DoneInv, KnownInv, InstallInv, ClientStep
        <4>3. CASE i # n
          <5>1. told'[i] = told[i]
            BY <2>4, <4>3
          <5>2. StagedInv(i)' /\ DoneInv(i)' /\ KnownInv(i)'
            BY <1>1, <4>1, <5>1 DEF AttInv, StagedInv, DoneInv, KnownInv, Over, ClientStep
          <5>3. ApplyingInv(i)'
            BY <1>1, <4>1 DEF AttInv, ApplyingInv, Made, HasOutcome, Accept, Committed, Replayed, ClientStep
          <5>4. InstallInv(i)'
            BY <1>1, <4>1, <5>1 DEF AttInv, InstallInv, Installed, HasOutcome, Committed, ClientStep
          <5> QED
            BY <5>2, <5>3, <5>4 DEF AttInv
        <4> QED
          BY <4>2, <4>3
      <3>2. JournalInv' /\ AcceptedInv'
        BY <1>1 DEF WPInv, StoreInv, JournalInv, AcceptedInv, Committed, Base, ClientStep
      <3> QED
        BY <3>1, <3>2 DEF StoreInv
    <2> QED
      BY <2>5, <2>6, <2>9, <2>11, <2>12, <2>13, <2>14, <2>15 DEF WPInv, Types, TalkInv
  <1> QED
    BY <1>4, <1>5 DEF PushPrepared

\* While push.json does not say applying, nothing is in flight and every receipt is known.
LEMMA NothingApplied ==
  ASSUME WPInv, ~pend.applying
  PROVE  /\ \A i \in Ids : att[i].st # "applying" /\ (att[i].st = "done" => Over(i))
         /\ ~Committed
  BY Shapes DEF WPInv, StoreInv, AttInv, ApplyingInv, DoneInv, JournalInv, Types, ClientTypes, Pends

\* push.json names the new source.
LEMMA RecordKeeps ==
  ASSUME WPInv, PushRecord
  PROVE  WPInv'
  <1>1. /\ ClientStep /\ UNCHANGED told /\ cl.pc = "record" /\ late' = late /\ ans' = None
    BY DEF PushRecord, ClientStep, store, hist, Send
  <1>2. /\ cl.src \in Manifests /\ late \subseteq Msgs /\ pend \in Pends /\ Base \in Manifests
        /\ told \in [Ids -> {"fresh", "drawn", "applied", "refused"}] /\ cl.base = Base /\ ~pend.applying
    BY <1>1, Fields DEF WPInv, Types, ClientTypes, NetTypes, TalkInv, RecordInv
  <1>3. PICK i \in Ids : /\ told[i] = "drawn" /\ Untouched(i)
                         /\ \A k \in Ids : told[k] = "drawn" => k <= i
    BY <1>1 DEF WPInv, TalkInv, RecordInv
  <1>4. Max({k \in Ids : told[k] = "drawn"}) = i
    BY <1>3, MaxIs
  <1>5. /\ pend' = [NoPend EXCEPT !.id = i, !.base = cl.base, !.src = cl.src]
        /\ copies' = {i} /\ cl'.pc = "upload"
        /\ req' = [kind |-> "upload", id |-> i, base |-> cl.base, src |-> cl.src]
    BY <1>4 DEF PushRecord, Send
  <1>6. /\ pend' \in Pends /\ pend'.id = i /\ pend'.base = Base /\ pend'.src = cl.src
        /\ ~pend'.applying /\ UploadMsg' = req' /\ req' \in UploadMsgs /\ req'.id = i /\ req'.src = cl.src
    BY <1>2, <1>5, Shapes DEF NoPend, Pends, UploadMsg, UploadMsgs
  <1>7. StoreTypes' /\ FileTypes' /\ SrvTypes' /\ BodiesRetained' /\ SrvInv'
    BY <1>1, RunnerSame DEF ClientStep
  <1>8. ClientTypes' /\ NetTypes'
    BY <1>1, <1>2, <1>5, <1>6, Shapes DEF WPInv, Types, ClientTypes, NetTypes, ClientStep
  <1>9. Waiting' \subseteq Waiting \cup {req'} /\ i # 0 /\ Base' = Base
    BY <1>1, Shapes DEF Waiting, ClientStep, Base
  <1>10. /\ \A k \in Ids : att[k].st # "applying" /\ (att[k].st = "done" => Over(k))
         /\ ~Committed
    BY <1>2, NothingApplied
  <1>11. FreshInv'
    <2>1. \A k \in Ids : k # i /\ Untouched(k) => Untouched(k)'
      BY <1>1, <1>6, <1>9 DEF Untouched, ClientStep
    <2> QED
      BY <1>1, <1>3, <2>1 DEF WPInv, TalkInv, FreshInv
  <1>12. PendInv' /\ ClientInv' /\ RecordInv' /\ AnswerInv'
    BY <1>1, <1>3, <1>5, <1>6, <1>9, Shapes DEF PendInv, ClientInv, RecordInv, AnswerInv
  <1>13. ASSUME NEW m \in Waiting' PROVE MsgInv(m)'
    <2>1. CASE m = req'
      BY <1>1, <1>3, <1>6, <2>1, Shapes DEF MsgInv, Over
    <2>2. CASE m \in Waiting /\ m \in Msgs
      <3>1. m.id # i /\ m.id \in Ids /\ MsgInv(m)
        BY <1>3, <2>2, Shapes DEF Untouched, WPInv, TalkInv
      <3> QED
        BY <1>1, <1>2, <1>6, <3>1 DEF MsgInv, Over, ClientStep
    <2>3. m = req' \/ m \in Msgs \/ m.kind \notin {"upload", "apply"}
      BY <1>9, WaitingKinds
    <2> QED
      BY <1>9, <2>1, <2>2, <2>3 DEF MsgInv
  <1>14. StoreInv'
    <2>1. ASSUME NEW k \in Ids PROVE AttInv(k)'
      <3>1. AttInv(k) /\ att[k].st # "applying" /\ (att[k].st = "done" => Over(k)) /\ att[i].st = "none"
        BY <1>3, <1>10 DEF WPInv, StoreInv, Untouched
      <3>2. StagedInv(k)' /\ DoneInv(k)' /\ KnownInv(k)' /\ ApplyingInv(k)'
        BY <1>1, <1>6, <3>1 DEF AttInv, StagedInv, DoneInv, KnownInv, ApplyingInv, Over, ClientStep
      <3>3. InstallInv(k)'
        BY <1>1, <3>1 DEF AttInv, InstallInv, Installed, HasOutcome, Committed, ClientStep
      <3> QED
        BY <3>2, <3>3 DEF AttInv
    <2>2. JournalInv' /\ AcceptedInv'
      BY <1>1, <1>10 DEF WPInv, StoreInv, JournalInv, AcceptedInv, Committed, Base, ClientStep
    <2> QED
      BY <2>1, <2>2 DEF StoreInv
  <1> QED
    BY <1>7, <1>8, <1>11, <1>12, <1>13, <1>14 DEF WPInv, Types, TalkInv

\* The client asks for the application: push.json says so first.
LEMMA StagedKeeps ==
  ASSUME WPInv, PushStaged
  PROVE  WPInv'
  <1>1. ClientStep /\ UNCHANGED <<told, copies>> /\ cl.pc = "staged"
    BY DEF PushStaged, ClientStep, store, hist
  <1>2. /\ pend \in Pends /\ copies \subseteq Ids /\ late \subseteq Msgs /\ pend.id \in Ids
        /\ pend.id \in copies /\ ~pend.applying /\ req = None /\ ans = None /\ told[pend.id] = "drawn"
    BY <1>1, Shapes DEF WPInv, Types, ClientTypes, NetTypes, TalkInv, PendInv, ClientInv, AnswerInv, Pends
  <1>3. CASE cl' = Idle /\ UNCHANGED <<pend, net>>
    <2>1. req' = None /\ ans' = None /\ late' = late
      BY <1>2, <1>3 DEF net
    <2>2. ClientInv' /\ cl'.pc = "idle"
      BY <1>3, <2>1 DEF ClientInv, Idle
    <2> QED
      BY <1>1, <1>2, <1>3, <2>1, <2>2, SendKeeps DEF ClientStep
  <1>4. ASSUME NEW sel, NEW mat \in BOOLEAN,
               sel \in {Delta(pend.base, pend.src)} \cup {{p} : p \in Delta(pend.base, pend.src)},
               pend' = [pend EXCEPT !.applying = TRUE, !.sel = sel, !.mat = mat],
               cl' = [pc |-> "finish", again |-> FALSE],
               Send([kind |-> "apply", id |-> pend.id, sel |-> sel, mat |-> mat])
        PROVE  WPInv'
    <2>1. sel \in SUBSET Paths
      BY <1>4 DEF Delta
    <2>2. /\ pend' \in Pends /\ pend'.id = pend.id /\ pend'.base = pend.base /\ pend'.src = pend.src
          /\ pend'.applying /\ pend'.sel = sel /\ pend'.mat = mat
      BY <1>2, <1>4, <2>1 DEF Pends
    <2>3. /\ req' = ApplyMsg' /\ ans' = None /\ late' = late /\ cl'.pc = "finish"
      BY <1>4, <2>2 DEF Send, ApplyMsg
    <2>4. req' \in ApplyMsgs /\ req'.id = pend.id /\ req' \in Msgs /\ req'.kind = "apply"
      BY <1>2, <2>1, <2>2, <2>3, Shapes DEF ApplyMsg, ApplyMsgs
    <2>5. StoreTypes' /\ FileTypes' /\ SrvTypes' /\ BodiesRetained' /\ SrvInv'
      BY <1>1, RunnerSame DEF ClientStep
    <2>6. ClientTypes' /\ NetTypes'
      BY <1>1, <1>2, <2>2, <2>3, <2>4, Shapes DEF WPInv, Types, ClientTypes, NetTypes, ClientStep
    <2>7. Waiting' \subseteq Waiting \cup {req'}
      BY <1>1, <2>3 DEF Waiting, ClientStep
    <2>8. /\ \A k \in Ids : att[k].st # "applying" /\ (att[k].st = "done" => Over(k))
          /\ ~Committed
      BY <1>2, NothingApplied
    <2>9. FreshInv'
      <3>1. \A k \in Ids : Untouched(k) => Untouched(k)'
        BY <1>1, <2>2, <2>4, <2>7 DEF Untouched, ClientStep
      <3> QED
        BY <1>1, <3>1 DEF WPInv, TalkInv, FreshInv
    <2>10. PendInv' /\ ClientInv' /\ RecordInv' /\ AnswerInv'
      BY <1>1, <1>2, <2>2, <2>3, <2>4, Shapes
      DEF WPInv, TalkInv, PendInv, ClientInv, RecordInv, AnswerInv, Base, ClientStep
    <2>11. ASSUME NEW m \in Waiting' PROVE MsgInv(m)'
      <3>1. CASE m = req'
        BY <2>2, <2>4, <3>1 DEF MsgInv
      <3>2. CASE m \in Waiting
        BY <1>1, <1>2, <2>2, <3>2 DEF WPInv, TalkInv, MsgInv, Over, ClientStep
      <3> QED
        BY <2>7, <3>1, <3>2
    <2>12. StoreInv'
      <3>1. ASSUME NEW k \in Ids PROVE AttInv(k)'
        <4>1. AttInv(k) /\ att[k].st # "applying" /\ (att[k].st = "done" => Over(k))
          BY <2>8 DEF WPInv, StoreInv
        <4>2. StagedInv(k)' /\ DoneInv(k)' /\ KnownInv(k)' /\ ApplyingInv(k)'
          BY <1>1, <2>2, <4>1 DEF AttInv, StagedInv, DoneInv, KnownInv, ApplyingInv, Over, ClientStep
        <4>3. InstallInv(k)'
          BY <1>1, <4>1 DEF AttInv, InstallInv, Installed, HasOutcome, Committed, ClientStep
        <4> QED
          BY <4>2, <4>3 DEF AttInv
      <3>2. JournalInv' /\ AcceptedInv'
        BY <1>1, <2>8 DEF WPInv, StoreInv, JournalInv, AcceptedInv, Committed, Base, ClientStep
      <3> QED
        BY <3>1, <3>2 DEF StoreInv
    <2> QED
      BY <2>5, <2>6, <2>9, <2>10, <2>11, <2>12 DEF WPInv, Types, TalkInv
  <1> QED
    BY <1>3, <1>4 DEF PushStaged

\* Only a receipt ends the push.
LEMMA FinishKeeps ==
  ASSUME WPInv, PushFinish
  PROVE  WPInv'
  <1>1. ClientStep /\ UNCHANGED copies /\ cl.pc = "finish" /\ late' = late /\ ans' = None
    BY DEF PushFinish, ClientStep, store, Send
  <1>2. /\ pend \in Pends /\ copies \subseteq Ids /\ late \subseteq Msgs /\ pend.id \in Ids
        /\ pend.id \in copies /\ pend.applying /\ req = ApplyMsg /\ told[pend.id] = "drawn"
        /\ told \in [Ids -> {"fresh", "drawn", "applied", "refused"}]
    BY <1>1, Shapes DEF WPInv, Types, ClientTypes, NetTypes, TalkInv, PendInv, ClientInv, Pends
  <1>3. CASE /\ cl' = [pc |-> "reupload"]
             /\ Send([kind |-> "upload", id |-> pend.id, base |-> pend.base, src |-> pend.src])
             /\ UNCHANGED <<pend, told>>
    <2>1. req' = UploadMsg /\ cl'.pc = "reupload" /\ pend.id # 0
      BY <1>2, <1>3, Shapes DEF UploadMsg, Send
    <2>2. ClientInv'
      BY <1>2, <1>3, <2>1 DEF ClientInv, UploadMsg
    <2> QED
      BY <1>1, <1>2, <1>3, <2>1, <2>2, SendKeeps DEF ClientStep
  <1>4. CASE cl' = Idle /\ req' = None /\ UNCHANGED <<pend, told>>
    <2>1. ClientInv' /\ cl'.pc = "idle"
      BY <1>4 DEF ClientInv, Idle
    <2> QED
      BY <1>1, <1>2, <1>4, <2>1, SendKeeps DEF ClientStep
  <1>5. CASE /\ ans.kind = "receipt" /\ pend' = NoPend
             /\ told' = [told EXCEPT ![pend.id] = IF ans.refused THEN "refused" ELSE "applied"]
             /\ cl' = [pc |-> "forget", id |-> pend.id]
             /\ req' = None
    <2>1. PICK n \in Ids : n = pend.id
      BY <1>2
    <2>2. /\ told'[n] = (IF ans.refused THEN "refused" ELSE "applied")
          /\ \A k \in Ids : k # n => told'[k] = told[k]
          /\ told' \in [Ids -> {"fresh", "drawn", "applied", "refused"}]
      BY <1>2, <1>5, <2>1
    <2>3. att[n].st = "done" /\ ans.refused = att[n].refused /\ att[n] \in Attempts
      BY <1>5, <2>1, Fields DEF WPInv, AnswerInv, Types
    <2>4. att[n].refused \in BOOLEAN
      BY <2>3 DEF Attempts
    <2>5. StoreTypes' /\ FileTypes' /\ SrvTypes' /\ BodiesRetained' /\ SrvInv'
      BY <1>1, RunnerSame DEF ClientStep
    <2>6. ClientTypes' /\ NetTypes'
      BY <1>1, <1>2, <1>5, <2>2, Shapes DEF WPInv, Types, ClientTypes, NetTypes, ClientStep
    <2>7. Waiting' \subseteq Waiting \cup {None}
      BY <1>1, <1>5 DEF Waiting, ClientStep
    <2>8. FreshInv'
      <3>1. \A k \in Ids : k # n /\ Untouched(k) => Untouched(k)'
        BY <1>1, <1>5, <2>7, Shapes DEF Untouched, ClientStep
      <3>2. \A k \in Ids : told'[k] = "fresh" <=> told[k] = "fresh"
        BY <1>2, <2>1, <2>2
      <3> QED
        BY <1>2, <2>1, <3>1, <3>2 DEF WPInv, TalkInv, FreshInv
    <2>9. PendInv' /\ ClientInv' /\ RecordInv' /\ AnswerInv'
      BY <1>1, <1>5, Shapes DEF PendInv, ClientInv, RecordInv, AnswerInv
    <2>10. ASSUME NEW m \in Waiting' PROVE MsgInv(m)'
      <3>1. CASE m = None
        BY <3>1, Shapes DEF MsgInv
      <3>2. CASE m \in Waiting /\ m \in Msgs
        <4>1. MsgInv(m) /\ m.id \in Ids
          BY <3>2, Shapes DEF WPInv, TalkInv
        <4>2. CASE m.id = n
          BY <1>1, <1>5, <2>2, <2>3, <4>1, <4>2, Shapes DEF MsgInv, Over, ClientStep
        <4>3. CASE m.id # n
          BY <1>1, <1>5, <2>1, <2>2, <4>1, <4>3, Shapes DEF MsgInv, Over, ClientStep
        <4> QED
          BY <4>2, <4>3
      <3>3. m = None \/ m \in Msgs \/ m.kind \notin {"upload", "apply"}
        BY <2>7, WaitingKinds
      <3> QED
        BY <2>7, <3>1, <3>2, <3>3 DEF MsgInv
    <2>11. \A k \in Ids : att[k].st # "applying"
      BY <2>1, <2>3 DEF WPInv, StoreInv, AttInv, ApplyingInv
    <2>12. ~Committed
      BY <2>1, <2>3 DEF WPInv, StoreInv, JournalInv
    <2>13. StoreInv'
      <3>1. ASSUME NEW k \in Ids PROVE AttInv(k)'
        <4>1. AttInv(k) /\ att[k].st # "applying"
          BY <2>11 DEF WPInv, StoreInv
        <4>2. CASE k = n
          BY <1>1, <1>5, <2>1, <2>2, <2>3, <2>4, <4>1, <4>2, Shapes
          DEF AttInv, StagedInv, ApplyingInv, DoneInv, KnownInv, InstallInv, Installed, HasOutcome, Over,
              Committed, ClientStep
        <4>3. CASE k # n
          <5>1. told'[k] = told[k]
            BY <2>2, <4>3
          <5>2. StagedInv(k)' /\ DoneInv(k)' /\ KnownInv(k)' /\ ApplyingInv(k)'
            BY <1>1, <1>5, <2>1, <4>1, <4>3, <5>1, Shapes
            DEF AttInv, StagedInv, DoneInv, KnownInv, ApplyingInv, Over, ClientStep
          <5>3. InstallInv(k)'
            BY <1>1, <4>1, <5>1 DEF AttInv, InstallInv, Installed, HasOutcome, Committed, ClientStep
          <5> QED
            BY <5>2, <5>3 DEF AttInv
        <4> QED
          BY <4>2, <4>3
      <3>2. JournalInv' /\ AcceptedInv'
        BY <1>1, <2>12 DEF WPInv, StoreInv, JournalInv, AcceptedInv, Committed, Base, ClientStep
      <3> QED
        BY <3>1, <3>2 DEF StoreInv
    <2> QED
      BY <2>5, <2>6, <2>8, <2>9, <2>10, <2>13 DEF WPInv, Types, TalkInv
  <1> QED
    BY <1>3, <1>4, <1>5 DEF PushFinish

-----------------------------------------------------------------------------
(* The runner.                                                              *)

\* What the runner's steps leave alone; and those that only talk and take locks.
RunnerStep == UNCHANGED <<pend, copies, cl, told, req>>
TalkStep   == RunnerStep /\ UNCHANGED <<ckpt, att, journal, installs, accepted>>

\* The answer to a request that says nothing of the store.
LEMMA AnswerSame ==
  ASSUME WPInv, TalkStep, ans' = ans \/ (req # None /\ ans'.kind \notin {"manifest", "receipt"})
  PROVE  AnswerInv'
  BY DEF WPInv, AnswerInv, TalkStep, RunnerStep, Base, ApplyMsg

LEMMA TalkStepKeeps ==
  ASSUME WPInv, TalkStep, Waiting' \subseteq Waiting \cup {None}, NetTypes', FileTypes', SrvTypes',
         srv'.kind = "busy" => srv'.id = 0 \/ (srv.kind = "busy" /\ srv'.id = srv.id)
                                 \/ att[srv'.id].st # "none",
         AnswerInv', BodiesRetained', SrvInv'
  PROVE  WPInv'
  <1>1. ClientTypes' /\ StoreTypes'
    BY DEF WPInv, Types, ClientTypes, StoreTypes, TalkStep, RunnerStep
  <1>2. StoreInv'
    BY StoreSame DEF WPInv, TalkStep, RunnerStep
  <1>3. TalkInv'
    <2>1. Base' = Base
      BY DEF Base, TalkStep
    <2>2. \A i \in Ids : Untouched(i) =>
            att'[i].st = "none" /\ installs'[i] = 0 /\ (srv'.kind = "busy" => srv'.id # i)
      BY Shapes DEF Untouched, TalkStep
    <2> QED
      BY <2>1, <2>2, TalkKeeps DEF TalkStep, RunnerStep
  <1> QED
    BY <1>1, <1>2, <1>3 DEF WPInv, Types

\* The bodies that are needed, in a step that leaves the store's records alone.
LEMMA BodiesSame ==
  ASSUME WPInv, UNCHANGED <<ckpt, att>>, blobs \cap Pins \subseteq blobs'
  PROVE  BodiesRetained'
  BY DEF WPInv, BodiesRetained, Pins, Unfinished, InFlight

\* A handler, its request and its attempt.
LEMMA HandlerFacts ==
  ASSUME WPInv, srv.kind = "busy"
  PROVE  /\ srv.op \in {"upload", "base", "apply", "gc", "boot"} /\ srv.step \in Steps
         /\ srv.id \in 0 .. MaxPush /\ srv.back \in {"", "recover", "answer", "upload"}
         /\ srv.need \subseteq Values /\ srv # None /\ srv \in Handlers(srv.total)
         /\ HandlerInv /\ AttemptInv /\ RetainInv
         /\ OnAttempt => srv.id \in Ids /\ att[srv.id] \in Attempts /\ ckpt.rev >= 0
  <1>1. srv # None
    BY Shapes
  <1>2. HandlerInv /\ AttemptInv /\ RetainInv
    BY DEF WPInv, SrvInv
  <1>3. OnAttempt => srv.id \in Ids /\ att[srv.id].st # "none"
    BY <1>1, <1>2, Shapes DEF AttemptInv, WPInv, Types, SrvTypes, Handlers
  <1>4. OnAttempt => att[srv.id] \in Attempts /\ ckpt.rev >= 0
    BY <1>3, Fields DEF WPInv, Types, StoreInv, AttInv, KnownInv
  <1>5. srv \in Handlers(srv.total)
    BY <1>1 DEF WPInv, Types, SrvTypes
  <1> QED
    BY <1>1, <1>2, <1>3, <1>4, <1>5 DEF Handlers

\* The handler answers and gives the lock back.
LEMMA ReplyFacts ==
  ASSUME WPInv, srv.kind = "busy", NEW a, Reply(a)
  PROVE  /\ srv' = None /\ req' = req /\ late' = late /\ NetTypes' /\ SrvTypes' /\ SrvInv'
         /\ Waiting' \subseteq Waiting \cup {None} /\ Waiting' \subseteq late \cup {req, up, None}
         /\ ans' = ans \/ (ans' = a /\ srv.m = req /\ ans.kind = "working" /\ req # None)
  <1>1. srv' = None /\ req' = req /\ late' = late /\ up' \in {None, up}
    BY DEF Reply, Answer
  <1>2. NetTypes' /\ SrvTypes' /\ SrvInv'
    BY <1>1, Shapes DEF WPInv, Types, NetTypes, SrvTypes, SrvInv
  <1>3. Waiting' \subseteq Waiting \cup {None} /\ Waiting' \subseteq late \cup {req, up, None}
    BY <1>1, Shapes DEF Waiting
  <1>4. ans' = ans \/ (ans' = a /\ srv.m = req /\ ans.kind = "working")
    BY DEF Reply, Answer
  <1>5. ans.kind = "working" => req # None
    BY Shapes DEF WPInv, AnswerInv
  <1> QED
    BY <1>1, <1>2, <1>3, <1>4, <1>5

\* The handler goes on to another step.
LEMMA GotoFacts ==
  ASSUME WPInv, srv.kind = "busy", NEW s \in Steps, Goto(s)
  PROVE  /\ SrvTypes' /\ srv'.kind = "busy" /\ srv'.step = s /\ srv'.op = srv.op /\ srv'.m = srv.m
         /\ srv'.id = srv.id /\ srv'.back = srv.back /\ srv'.need = srv.need /\ srv'.total = srv.total
  <1>1. srv \in Handlers(srv.total)
    BY HandlerFacts
  <1> QED
    BY <1>1 DEF Goto, SrvTypes, Handlers

\* A handler that has just taken the lock recovers first.
LEMMA HandlerStarts ==
  ASSUME NEW op \in {"upload", "base", "apply", "boot"}, NEW m, srv' = Handler(op, m),
         op = "upload" => m = up' /\ up' \in UploadMsgs, op = "apply" => m \in ApplyMsgs,
         op = "base" => m = BaseMsg, op = "boot" => m = None
  PROVE  SrvTypes' /\ SrvInv' /\ srv'.kind = "busy" /\ srv'.id = 0 /\ srv'.m = m
  <1>1. /\ srv'.kind = "busy" /\ srv'.op = op /\ srv'.m = m /\ srv'.step = "recover" /\ srv'.id = 0
        /\ srv'.back = "" /\ srv'.need = {} /\ srv'.total = 0
    BY DEF Handler
  <1>2. m \in Msgs \cup {BaseMsg, None}
    BY Shapes
  <1>3. 0 \in 0 .. MaxPush /\ "recover" \in Steps /\ {} \in SUBSET Values
    BY PushAssumption DEF Steps
  <1>5. Handler(op, m) \in Handlers(0)
    BY <1>2, <1>3 DEF Handlers, Handler
  <1>6. SrvTypes'
    BY <1>1, <1>5 DEF SrvTypes
  <1>4. SrvInv'
    BY <1>1 DEF SrvInv, HandlerInv, AttemptInv, RetainInv, OnAttempt, AttemptSteps
  <1> QED
    BY <1>1, <1>4, <1>6

\* A handler that ends with an error.
LEMMA FailKeeps ==
  ASSUME WPInv, srv.kind = "busy", NEW a, Reply(a), a.kind \notin {"manifest", "receipt"}, TalkStep,
         FileTypes', blobs' = blobs
  PROVE  WPInv'
  <1>1. /\ srv' = None /\ NetTypes' /\ SrvTypes' /\ SrvInv' /\ Waiting' \subseteq Waiting \cup {None}
        /\ ans' = ans \/ (ans' = a /\ req # None)
    BY ReplyFacts
  <1>2. AnswerInv'
    BY <1>1, AnswerSame
  <1>3. BodiesRetained'
    BY BodiesSame DEF TalkStep
  <1> QED
    BY <1>1, <1>2, <1>3, TalkStepKeeps, Shapes

\* A request is admitted, given up, or takes the lock.
LEMMA LocksKeep ==
  ASSUME WPInv, UploadBegin \/ UploadAbort \/ UploadLock \/ Lock \/ GCLock \/ Crash
  PROVE  WPInv'
  <1>1. TalkStep /\ UNCHANGED <<blobs, temps, tree>>
    BY DEF UploadBegin, UploadAbort, UploadLock, Lock, GCLock, Crash, TalkStep, RunnerStep,
           client, net, store, hist, Take, Answer
  <1>2. FileTypes' /\ BodiesRetained'
    BY <1>1, BodiesSame DEF WPInv, Types, FileTypes, TalkStep
  <1>3. /\ req \in Msgs \cup {BaseMsg, None} /\ late \subseteq Msgs /\ up \in UploadMsgs \cup {None}
        /\ req' = req
        /\ srv = None \/ srv.kind = "busy"
        /\ ans.kind = "none" \/ req # None
    BY <1>1, Shapes DEF WPInv, Types, NetTypes, SrvTypes, Handlers, AnswerInv, TalkStep, RunnerStep
  <1>4. CASE UploadBegin
    <2>1. srv' = srv /\ srv = None
      BY <1>3, <1>4, Shapes DEF UploadBegin, Free
    <2>2. PICK m \in Requests :
            /\ m.kind = "upload"
            /\ IF m.base = Base
               THEN Take(m) /\ up' = m
               ELSE /\ up' = up
                    /\ \/ /\ m = req /\ ans.kind = "none"
                          /\ ans' = [kind |-> "changed"] /\ UNCHANGED <<req, late>>
                       \/ m \in late /\ late' = late \ {m} /\ UNCHANGED <<req, ans>>
      BY <1>4 DEF UploadBegin
    <2>3. m \in {req} \cup late /\ m \in UploadMsgs
      BY <1>3, <2>2, Shapes DEF Requests
    <2>4. late' \subseteq late /\ up' \in {up, m} /\ (ans' = ans \/ (req = m /\ ans'.kind \in {"working", "changed"}))
      BY <2>2 DEF Take
    <2>5. NetTypes' /\ Waiting' \subseteq Waiting \cup {None}
      BY <1>3, <2>1, <2>3, <2>4, Shapes DEF NetTypes, Waiting
    <2>6. AnswerInv'
      BY <1>1, <2>3, <2>4, AnswerSame, Shapes
    <2>7. SrvTypes' /\ SrvInv'
      BY <2>1, Shapes DEF SrvTypes, SrvInv
    <2> QED
      BY <1>1, <1>2, <2>1, <2>5, <2>6, <2>7, TalkStepKeeps, Shapes
  <1>5. CASE UploadAbort
    <2>1. /\ srv' = srv /\ up' = None /\ late' = late /\ ~(srv.kind = "busy" /\ srv.op = "upload")
          /\ ans' = ans \/ (ans' = [kind |-> "error"] /\ ans.kind = "working")
      BY <1>5, Shapes DEF UploadAbort, Answer
    <2>2. NetTypes' /\ Waiting' \subseteq Waiting \cup {None}
      BY <1>3, <2>1 DEF NetTypes, Waiting
    <2>3. AnswerInv'
      BY <1>1, <1>3, <2>1, AnswerSame
    <2>4. SrvTypes'
      BY <2>1 DEF WPInv, Types, SrvTypes, Handlers
    <2>5. SrvInv'
      <3>1. srv.kind = "busy" => HandlerInv /\ AttemptInv /\ RetainInv
        BY DEF WPInv, SrvInv
      <3>2. srv.kind = "busy" => HandlerInv'
        BY <1>1, <2>1, <3>1 DEF HandlerInv, OnAttempt, TalkStep
      <3>3. AttemptInv' <=> AttemptInv
        BY <1>1, <2>1 DEF AttemptInv, OnAttempt, Committed, Replayed, TalkStep
      <3>4. RetainInv' <=> RetainInv
        BY <1>1, <2>1 DEF RetainInv, OnAttempt, TalkStep
      <3> QED
        BY <2>1, <3>1, <3>2, <3>3, <3>4 DEF SrvInv
    <2> QED
      BY <1>1, <1>2, <2>1, <2>2, <2>3, <2>4, <2>5, TalkStepKeeps
  <1>6. CASE UploadLock
    <2>1. /\ srv' = Handler("upload", up) /\ up' = up /\ up \in UploadMsgs /\ late' = late /\ ans' = ans
      BY <1>3, <1>6, Shapes DEF UploadLock, net
    <2>2. SrvTypes' /\ SrvInv' /\ srv'.kind = "busy" /\ srv'.id = 0 /\ srv'.m = up
      BY <2>1, HandlerStarts
    <2>3. NetTypes' /\ Waiting' \subseteq Waiting \cup {None}
      BY <1>3, <2>1, <2>2 DEF NetTypes, Waiting
    <2>4. AnswerInv'
      BY <1>1, <2>1, AnswerSame
    <2> QED
      BY <1>1, <1>2, <2>2, <2>3, <2>4, TalkStepKeeps
  <1>7. CASE Lock
    <2>1. PICK m \in Requests : m.kind \in {"base", "apply"} /\ Take(m) /\ srv' = Handler(m.kind, m)
      BY <1>7 DEF Lock
    <2>2. m \in {req} \cup late /\ up' = up
      BY <1>7, <2>1 DEF Requests, Lock
    <2>3. (m.kind = "base" => m = BaseMsg) /\ (m.kind = "apply" => m \in ApplyMsgs)
      BY <1>3, <2>1, <2>2, Shapes
    <2>4. late' \subseteq late /\ (ans' = ans \/ (req = m /\ ans'.kind = "working" /\ req # None))
      BY <2>1, <2>3, Shapes DEF Take
    <2>5. SrvTypes' /\ SrvInv' /\ srv'.kind = "busy" /\ srv'.id = 0 /\ srv'.m = m
      BY <2>1, <2>3, HandlerStarts
    <2>6. NetTypes' /\ Waiting' \subseteq Waiting \cup {None}
      BY <1>3, <2>2, <2>4, <2>5 DEF NetTypes, Waiting
    <2>7. AnswerInv'
      BY <1>1, <2>4, AnswerSame
    <2> QED
      BY <1>1, <1>2, <2>5, <2>6, <2>7, TalkStepKeeps
  <1>8. CASE GCLock
    <2>1. /\ srv' = [Handler("gc", None) EXCEPT !.step = "collect"] /\ up' = up /\ late' = late /\ ans' = ans
      BY <1>8 DEF GCLock, net
    <2>2. /\ srv'.kind = "busy" /\ srv'.op = "gc" /\ srv'.m = None /\ srv'.step = "collect" /\ srv'.id = 0
          /\ srv'.back = "" /\ srv'.need = {} /\ srv'.total = 0
      BY <2>1 DEF Handler
    <2>3. 0 \in 0 .. MaxPush /\ "collect" \in Steps /\ {} \in SUBSET Values
      BY PushAssumption DEF Steps
    <2>4. srv' \in Handlers(0)
      BY <2>1, <2>3 DEF Handlers, Handler
    <2>5. SrvTypes'
      BY <2>2, <2>4 DEF SrvTypes
    <2>6. SrvInv'
      BY <2>2 DEF SrvInv, HandlerInv, AttemptInv, RetainInv, OnAttempt, AttemptSteps
    <2>7. NetTypes' /\ Waiting' \subseteq Waiting \cup {None}
      BY <1>3, <2>1, <2>2 DEF NetTypes, Waiting
    <2>8. AnswerInv'
      BY <1>1, <2>1, AnswerSame
    <2> QED
      BY <1>1, <1>2, <2>2, <2>5, <2>6, <2>7, <2>8, TalkStepKeeps
  <1>9. CASE Crash
    <2>1. /\ srv' = Handler("boot", None) /\ up' = None /\ late' = late /\ ans' = ans
      BY <1>9 DEF Crash, net
    <2>2. SrvTypes' /\ SrvInv' /\ srv'.kind = "busy" /\ srv'.id = 0 /\ srv'.m = None
      BY <2>1, HandlerStarts
    <2>3. NetTypes' /\ Waiting' \subseteq Waiting \cup {None}
      BY <1>3, <2>1, <2>2 DEF NetTypes, Waiting
    <2>4. AnswerInv'
      BY <1>1, <2>1, AnswerSame
    <2> QED
      BY <1>1, <1>2, <2>2, <2>3, <2>4, TalkStepKeeps
  <1> QED
    BY <1>4, <1>5, <1>6, <1>7, <1>8, <1>9

\* A step under the lock that only moves the handler on.
LEMMA MoveKeeps ==
  ASSUME WPInv, TalkStep, UNCHANGED <<up, late, ans>>, srv.kind = "busy",
         srv' = None \/ (srv'.kind = "busy" /\ srv'.m = srv.m
                           /\ (srv'.id \in {0, srv.id} \/ att[srv'.id].st # "none")),
         FileTypes', SrvTypes', BodiesRetained', SrvInv'
  PROVE  WPInv'
  <1>1. NetTypes' /\ Waiting' \subseteq Waiting \cup {None}
    BY Shapes DEF WPInv, Types, NetTypes, TalkStep, RunnerStep, Waiting
  <1>2. AnswerInv'
    BY AnswerSame
  <1> QED
    BY <1>1, <1>2, TalkStepKeeps, Shapes

\* recoverWorkspacePushes.
LEMMA RecoverKeeps ==
  ASSUME WPInv, Recover
  PROVE  WPInv'
  <1>1. TalkStep /\ UNCHANGED <<up, late, ans, blobs, temps, tree>> /\ srv.kind = "busy" /\ srv.step = "recover"
    BY DEF Recover, At, TalkStep, RunnerStep, client, net, store, hist
  <1>2. /\ srv \in Handlers(srv.total) /\ HandlerInv /\ srv.op \in {"upload", "base", "apply", "gc", "boot"}
        /\ srv.id = 0 /\ srv.op # "gc"
    BY <1>1, HandlerFacts DEF HandlerInv, OnAttempt, AttemptSteps
  <1>3. FileTypes' /\ BodiesRetained'
    BY <1>1, BodiesSame DEF WPInv, Types, FileTypes, TalkStep
  <1>4. CASE Unfinished # {}
    <2>1. PICK i \in Ids : i = Min(Unfinished) /\ att[i].st = "applying"
      BY <1>4, MinIn DEF Unfinished, InFlight
    <2>2. srv' = [srv EXCEPT !.step = "apply", !.id = i, !.back = "recover"]
      BY <1>4, <2>1 DEF Recover
    <2>3. /\ SrvTypes' /\ srv'.kind = "busy" /\ srv'.op = srv.op /\ srv'.m = srv.m /\ srv'.step = "apply"
          /\ srv'.id = i /\ srv'.back = "recover" /\ i # 0
      BY <1>2, <2>2, Shapes DEF SrvTypes, Handlers, Steps
    <2>4. SrvInv'
      BY <1>1, <1>2, <2>1, <2>3
      DEF SrvInv, HandlerInv, AttemptInv, RetainInv, OnAttempt, AttemptSteps, TalkStep
    <2> QED
      BY <1>1, <1>3, <2>1, <2>3, <2>4, MoveKeeps
  <1>5. CASE Unfinished = {} /\ srv.op = "boot"
    <2>1. srv' = None
      BY <1>5 DEF Recover
    <2>2. SrvTypes' /\ SrvInv'
      BY <2>1, Shapes DEF SrvTypes, SrvInv
    <2> QED
      BY <1>1, <1>3, <2>1, <2>2, MoveKeeps
  <1>6. CASE Unfinished = {} /\ srv.op # "boot"
    <2>1. srv' = [srv EXCEPT !.step = srv.op] /\ srv.op \in {"upload", "base", "apply"}
      BY <1>2, <1>6 DEF Recover
    <2>2. /\ SrvTypes' /\ srv'.kind = "busy" /\ srv'.op = srv.op /\ srv'.m = srv.m /\ srv'.step = srv.op
          /\ srv'.id = 0
      BY <1>2, <2>1 DEF SrvTypes, Handlers, Steps
    <2>3. SrvInv'
      BY <1>1, <1>2, <2>1, <2>2
      DEF SrvInv, HandlerInv, AttemptInv, RetainInv, OnAttempt, AttemptSteps, TalkStep
    <2> QED
      BY <1>1, <1>3, <2>2, <2>3, MoveKeeps
  <1> QED
    BY <1>4, <1>5, <1>6

\* The bodies a manifest or an attempt names are contents of files, finitely many.
LEMMA BodiesFinite ==
  /\ \A m \in Manifests : IsFiniteSet(Bodies(m)) /\ Bodies(m) \subseteq Values
  /\ \A a \in Attempts : IsFiniteSet(Remote(a)) /\ Remote(a) \subseteq Values
  <1>1. ASSUME NEW m \in Manifests PROVE IsFiniteSet(Bodies(m)) /\ Bodies(m) \subseteq Values
    <2> DEFINE T == {m[p] : p \in Paths}
    <2>1. m \in [Paths -> T] /\ \A t \in T : \E p \in Paths : m[p] = t
      BY DEF Manifests
    <2>2. m \in Surjection(Paths, T)
      BY <2>1 DEF Surjection
    <2>3. IsFiniteSet(T)
      BY <2>2, PushAssumption, FS_Surjection
    <2>4. IsFiniteSet(T \ {0})
      BY <2>3, FS_Difference
    <2> QED
      BY <2>4 DEF Bodies, Manifests
  <1>2. ASSUME NEW a \in Attempts PROVE IsFiniteSet(Remote(a)) /\ Remote(a) \subseteq Values
    <2>1. Remote(a) \subseteq Bodies(a.src) /\ a.src \in Manifests
      BY DEF Remote, Bodies, Delta, Attempts
    <2> QED
      BY <1>1, <2>1, FS_Subset
  <1> QED
    BY <1>1, <1>2

\* handleWorkspacePushBase.
LEMMA BaseKeeps ==
  ASSUME WPInv, BaseAnswer
  PROVE  WPInv'
  <1>1. TalkStep /\ UNCHANGED <<blobs, temps, tree>> /\ srv.kind = "busy" /\ srv.step = "base"
        /\ Reply([kind |-> "manifest", man |-> Base])
    BY DEF BaseAnswer, At, TalkStep, RunnerStep, client, store, hist, Reply, Answer
  <1>2. FileTypes' /\ BodiesRetained'
    BY <1>1, BodiesSame DEF WPInv, Types, FileTypes, TalkStep
  <1>3. /\ srv' = None /\ NetTypes' /\ SrvTypes' /\ SrvInv' /\ Waiting' \subseteq Waiting \cup {None}
        /\ ans' = ans \/ (ans' = [kind |-> "manifest", man |-> Base] /\ srv.m = req /\ req # None)
    BY <1>1, ReplyFacts
  <1>4. srv.m = BaseMsg
    BY <1>1, HandlerFacts DEF HandlerInv
  <1>5. AnswerInv'
    <2>1. CASE ans' = ans
      BY <1>1, <2>1, AnswerSame
    <2>2. CASE ans' = [kind |-> "manifest", man |-> Base] /\ srv.m = req /\ req # None
      BY <1>1, <1>4, <2>2 DEF AnswerInv, Base, TalkStep, RunnerStep
    <2> QED
      BY <1>3, <2>1, <2>2
  <1> QED
    BY <1>1, <1>2, <1>3, <1>5, TalkStepKeeps, Shapes

\* handleWorkspacePushApply up to Apply.
LEMMA ApplyRequestKeeps ==
  ASSUME WPInv, ApplyRequest
  PROVE  WPInv'
  <1>1. TalkStep /\ UNCHANGED <<blobs, temps, tree>> /\ srv.kind = "busy" /\ srv.step = "apply" /\ srv.id = 0
    BY DEF ApplyRequest, At, TalkStep, RunnerStep, client, net, store, hist, Reply, Answer
  <1>2. FileTypes' /\ BodiesRetained'
    BY <1>1, BodiesSame DEF WPInv, Types, FileTypes, TalkStep
  <1>3. CASE Reply([kind |-> "missing"])
    BY <1>1, <1>2, <1>3, FailKeeps
  <1>4. CASE /\ att[srv.m.id].st # "none"
             /\ srv' = [srv EXCEPT !.id = srv.m.id, !.back = "answer"] /\ UNCHANGED <<net, up>>
    <2>1. srv \in Handlers(srv.total) /\ HandlerInv /\ srv.op = "apply" /\ srv.m \in ApplyMsgs
      BY <1>1, HandlerFacts DEF HandlerInv
    <2>2. srv.m.id \in Ids /\ srv.m.id # 0 /\ srv.m.id \in 0 .. MaxPush
      BY <2>1, Shapes
    <2>3. /\ SrvTypes' /\ srv'.kind = "busy" /\ srv'.op = "apply" /\ srv'.m = srv.m /\ srv'.step = "apply"
          /\ srv'.id = srv.m.id /\ srv'.back = "answer"
      BY <1>1, <1>4, <2>1, <2>2 DEF SrvTypes, Handlers
    <2>4. SrvInv'
      BY <1>1, <1>4, <2>1, <2>2, <2>3
      DEF SrvInv, HandlerInv, AttemptInv, RetainInv, OnAttempt, AttemptSteps, TalkStep
    <2>5. UNCHANGED <<up, late, ans>>
      BY <1>4 DEF net
    <2> QED
      BY <1>1, <1>2, <1>4, <2>3, <2>4, <2>5, MoveKeeps
  <1> QED
    BY <1>3, <1>4 DEF ApplyRequest

\* TransferSession.Apply: the attempt's state decides.
LEMMA ApplyBeginKeeps ==
  ASSUME WPInv, ApplyBegin
  PROVE  WPInv'
  <1>1. TalkStep /\ UNCHANGED <<blobs, temps, tree>> /\ srv.kind = "busy" /\ srv.step = "apply" /\ srv.id # 0
    BY DEF ApplyBegin, At, TalkStep, RunnerStep, client, net, store, hist, Reply, Answer, Fail, Goto
  <1>2. FileTypes' /\ BodiesRetained'
    BY <1>1, BodiesSame DEF WPInv, Types, FileTypes, TalkStep
  <1>3. /\ srv \in Handlers(srv.total) /\ HandlerInv /\ AttemptInv /\ OnAttempt
        /\ srv.id \in Ids /\ att[srv.id] \in Attempts /\ ckpt.rev >= 0
    BY <1>1, HandlerFacts DEF OnAttempt
  <1>4. CASE Fail
    BY <1>1, <1>2, <1>4, FailKeeps DEF Fail
  <1>5. CASE /\ Applying.st = "staged" /\ Applying.rev = ckpt.rev /\ Applying.base = ckpt.man
             /\ srv' = [srv EXCEPT !.step = "retain", !.need = Remote(Applying)]
             /\ UNCHANGED <<net, up>>
    <2>1. Applying = att[srv.id] /\ Remote(Applying) \subseteq Values /\ IsFiniteSet(Remote(Applying))
      BY <1>3, BodiesFinite DEF Applying
    <2>2. /\ SrvTypes' /\ srv'.kind = "busy" /\ srv'.op = srv.op /\ srv'.m = srv.m /\ srv'.step = "retain"
          /\ srv'.id = srv.id /\ srv'.back = srv.back /\ srv'.need = Remote(att[srv.id])
      BY <1>3, <1>5, <2>1 DEF SrvTypes, Handlers, Steps
    <2>3. srv.back = "answer"
      BY <1>3, <1>5, <2>1 DEF AttemptInv
    <2>4. HandlerInv' /\ AttemptInv'
      BY <1>1, <1>3, <2>2, <2>3, <1>5
      DEF HandlerInv, AttemptInv, OnAttempt, AttemptSteps, TalkStep
    <2>5. RetainInv'
      BY <1>1, <1>5, <2>1, <2>2, <2>3 DEF RetainInv, OnAttempt, AttemptSteps, TalkStep
    <2>6. UNCHANGED <<up, late, ans>>
      BY <1>5 DEF net
    <2> QED
      BY <1>1, <1>2, <2>2, <2>4, <2>5, <2>6, MoveKeeps DEF SrvInv
  <1>6. CASE Goto("target") /\ UNCHANGED <<net, up>> /\ Applying.st \in {"applying", "done"}
    <2>1. /\ SrvTypes' /\ srv'.kind = "busy" /\ srv'.op = srv.op /\ srv'.m = srv.m /\ srv'.step = "target"
          /\ srv'.id = srv.id /\ srv'.back = srv.back
      BY <1>1, <1>6, GotoFacts DEF Steps, AttemptSteps
    <2>2. SrvInv'
      BY <1>1, <1>3, <1>6, <2>1
      DEF SrvInv, HandlerInv, AttemptInv, RetainInv, OnAttempt, AttemptSteps, TalkStep, Applying
    <2>3. UNCHANGED <<up, late, ans>>
      BY <1>6 DEF net
    <2> QED
      BY <1>1, <1>2, <2>1, <2>2, <2>3, MoveKeeps
  <1> QED
    BY <1>4, <1>5, <1>6 DEF ApplyBegin

\* TransferBlobStore.Retain.
LEMMA RetainKeeps ==
  ASSUME WPInv, Retain \/ RetainRename \/ RetainRecord
  PROVE  WPInv'
  <1>1. /\ TalkStep /\ UNCHANGED tree /\ srv.kind = "busy" /\ blobs \subseteq blobs'
        /\ srv.step \in {"retain", "rename"}
    BY DEF Retain, RetainRename, RetainRecord, At, TalkStep, RunnerStep, client, net, store, hist, Reply, Answer,
           Fail, Goto
  <1>2. /\ srv \in Handlers(srv.total) /\ HandlerInv /\ AttemptInv /\ RetainInv /\ srv.need \subseteq Values
        /\ OnAttempt => srv.id \in Ids /\ att[srv.id] \in Attempts
    BY <1>1, HandlerFacts
  <1>3. /\ blobs \subseteq Values /\ temps \in Nat /\ tree \in [Paths -> Values \cup {Job, Mix, Mark}]
        /\ BodiesRetained'
    BY <1>1, BodiesSame DEF WPInv, Types, FileTypes, TalkStep
  <1>4. /\ IsFiniteSet(srv.need \ blobs) /\ Cardinality(srv.need \ blobs) \in Nat
        /\ srv.need \ blobs = {} => Cardinality(srv.need \ blobs) = 0
    BY <1>1, <1>2, FS_Difference, FS_CardinalityType, FS_EmptySet DEF RetainInv
  <1>5. CASE Retain
    <2>1. CASE Fail /\ temps' = (IF usage >= 0 THEN temps ELSE 0) /\ blobs' = blobs
      <3>1. FileTypes'
        BY <1>1, <1>3, <2>1 DEF FileTypes
      <3> QED
        BY <1>1, <2>1, <3>1, FailKeeps DEF Fail
    <2>2. ASSUME NEW t,
                 temps' = (IF srv.need \ blobs = {} /\ usage >= 0 THEN temps ELSE Cardinality(srv.need \ blobs) + 1),
                 srv' = [srv EXCEPT !.step = "rename", !.total = t], UNCHANGED <<net, up>>, blobs' = blobs,
                 srv.step = "retain"
          PROVE  WPInv'
      <3>1. /\ SrvTypes' /\ srv'.kind = "busy" /\ srv'.op = srv.op /\ srv'.m = srv.m /\ srv'.step = "rename"
            /\ srv'.id = srv.id /\ srv'.back = srv.back /\ srv'.need = srv.need
        BY <1>2, <2>2 DEF SrvTypes, Handlers, Steps
      <3>2. FileTypes' /\ Cardinality(srv.need \ blobs) <= temps'
        BY <1>1, <1>3, <1>4, <2>2 DEF FileTypes
      <3>3. HandlerInv' /\ AttemptInv'
        BY <1>1, <1>2, <2>2, <3>1 DEF HandlerInv, AttemptInv, OnAttempt, AttemptSteps, TalkStep
      <3>4. RetainInv'
        BY <1>1, <1>2, <2>2, <3>1, <3>2 DEF RetainInv, OnAttempt, AttemptSteps, TalkStep
      <3>5. UNCHANGED <<up, late, ans>>
        BY <2>2 DEF net
      <3> QED
        BY <1>1, <1>3, <3>1, <3>2, <3>3, <3>4, <3>5, MoveKeeps DEF SrvInv
    <2> QED
      BY <1>5, <2>1, <2>2 DEF Retain, At
  <1>6. CASE RetainRename
    <2>1. PICK b \in srv.need \ blobs : blobs' = blobs \cup {b}
      BY <1>6 DEF RetainRename
    <2>2. /\ temps' = temps - 1 /\ srv' = srv /\ UNCHANGED <<up, late, ans>> /\ srv.step = "rename"
      BY <1>6 DEF RetainRename, At, net
    <2>3. srv.need \ blobs' = (srv.need \ blobs) \ {b}
      BY <2>1
    <2>4. Cardinality(srv.need \ blobs') = Cardinality(srv.need \ blobs) - 1
      <3> DEFINE missing == srv.need \ blobs
      <3>1. IsFiniteSet(missing) /\ b \in missing
        BY <1>4, <2>1
      <3>2. Cardinality(missing \ {b}) = Cardinality(missing) - 1
        <4> HIDE DEF missing
        <4> QED
          BY <3>1, FS_RemoveElement
      <3> QED
        BY <2>3, <3>2
    <2>5. Cardinality(srv.need \ blobs) # 0
      BY <1>4, <2>1, FS_EmptySet
    <2>6. Cardinality(srv.need \ blobs) <= temps
      BY <1>2, <2>2 DEF RetainInv
    <2>7. temps' \in Nat /\ Cardinality(srv.need \ blobs') <= temps'
      BY <1>3, <1>4, <2>2, <2>4, <2>5, <2>6
    <2>8. FileTypes'
      BY <1>1, <1>2, <1>3, <2>1, <2>7 DEF FileTypes
    <2>9. SrvTypes' /\ srv.m = srv'.m
      BY <1>2, <2>2 DEF SrvTypes, Handlers
    <2>10. HandlerInv' /\ AttemptInv'
      BY <1>1, <1>2, <2>2 DEF HandlerInv, AttemptInv, OnAttempt, AttemptSteps, TalkStep
    <2>11. RetainInv'
      BY <1>1, <1>2, <2>2, <2>7 DEF RetainInv, OnAttempt, AttemptSteps, TalkStep
    <2> QED
      BY <1>1, <1>3, <2>2, <2>8, <2>9, <2>10, <2>11, MoveKeeps DEF SrvInv
  <1>7. CASE RetainRecord
    <2>1. /\ temps' = 0 /\ blobs' = blobs /\ UNCHANGED <<up, late, ans>> /\ srv.step = "rename"
          /\ srv.need \subseteq blobs
          /\ Goto(IF srv.back = "upload" THEN "upload" ELSE "mark")
      BY <1>7 DEF RetainRecord, At, net
    <2>2. /\ SrvTypes' /\ srv'.kind = "busy" /\ srv'.op = srv.op /\ srv'.m = srv.m
          /\ srv'.step = (IF srv.back = "upload" THEN "upload" ELSE "mark")
          /\ srv'.id = srv.id /\ srv'.back = srv.back /\ srv'.need = srv.need
      BY <1>1, <2>1, GotoFacts DEF Steps, AttemptSteps
    <2>3. FileTypes'
      BY <1>1, <1>3, <2>1 DEF FileTypes
    <2>4. HandlerInv' /\ AttemptInv'
      BY <1>1, <1>2, <2>1, <2>2 DEF HandlerInv, AttemptInv, RetainInv, OnAttempt, AttemptSteps, TalkStep
    <2>5. RetainInv'
      BY <1>1, <1>2, <2>1, <2>2 DEF RetainInv, OnAttempt, AttemptSteps, TalkStep
    <2> QED
      BY <1>1, <1>3, <2>1, <2>2, <2>3, <2>4, <2>5, MoveKeeps DEF SrvInv
  <1> QED
    BY <1>5, <1>6, <1>7

\* TransferSession.GC removes bodies nothing needs; a job edits the workspace.
LEMMA PruneKeeps ==
  ASSUME WPInv, GCPrune \/ GCSweep \/ JobEdit
  PROVE  WPInv'
  <1>1. /\ TalkStep /\ srv.kind = "busy" /\ UNCHANGED <<up, late, ans>>
        /\ srv.step \in {"prune", "sweep", "install"}
    BY DEF GCPrune, GCSweep, JobEdit, At, TalkStep, RunnerStep, client, net, store, hist, Goto
  <1>2. /\ srv \in Handlers(srv.total) /\ HandlerInv /\ AttemptInv /\ RetainInv
    BY <1>1, HandlerFacts
  <1>3. blobs \subseteq Values /\ temps \in Nat /\ tree \in [Paths -> Values \cup {Job, Mix, Mark}]
    BY DEF WPInv, Types, FileTypes
  <1>4. FileTypes' /\ blobs \cap Pins \subseteq blobs'
    <2>1. CASE GCPrune
      BY <1>3, <2>1 DEF FileTypes, GCPrune
    <2>2. CASE GCSweep
      <3>1. tree' = tree /\ temps' \in {temps, 0}
        BY <2>2 DEF GCSweep
      <3>2. blobs' \subseteq blobs /\ blobs \cap Pins \subseteq blobs'
        BY <2>2 DEF GCSweep
      <3> QED
        BY <1>3, <3>1, <3>2 DEF FileTypes
    <2>3. CASE JobEdit
      <3>1. UNCHANGED <<blobs, temps>>
        BY <2>3 DEF JobEdit, store
      <3>2. \E p \in Paths : tree' = [tree EXCEPT ![p] = Job]
        BY <2>3 DEF JobEdit
      <3> QED
        BY <1>3, <3>1, <3>2 DEF FileTypes
    <2> QED
      BY <2>1, <2>2, <2>3
  <1>5. BodiesRetained'
    BY <1>1, <1>4, BodiesSame DEF TalkStep
  <1>6. CASE srv' = None
    <2>1. SrvTypes' /\ SrvInv'
      BY <1>6, Shapes DEF SrvTypes, SrvInv
    <2> QED
      BY <1>1, <1>4, <1>5, <1>6, <2>1, MoveKeeps
  <1>7. CASE srv' = srv
    <2>1. SrvTypes'
      BY <1>2, <1>7 DEF SrvTypes, Handlers
    <2>2. HandlerInv' /\ AttemptInv' /\ RetainInv'
      BY <1>1, <1>2, <1>7
      DEF HandlerInv, AttemptInv, RetainInv, OnAttempt, AttemptSteps, Committed, Replayed, TalkStep
    <2> QED
      BY <1>1, <1>4, <1>5, <1>7, <2>1, <2>2, MoveKeeps DEF SrvInv
  <1>8. CASE Goto("sweep") /\ srv.step = "prune"
    <2>1. /\ SrvTypes' /\ srv'.kind = "busy" /\ srv'.op = srv.op /\ srv'.m = srv.m
          /\ srv'.step = "sweep" /\ srv'.id = srv.id
      BY <1>1, <1>8, GotoFacts DEF Steps, AttemptSteps
    <2>2. SrvInv'
      BY <1>1, <1>2, <1>8, <2>1
      DEF SrvInv, HandlerInv, AttemptInv, RetainInv, OnAttempt, AttemptSteps, TalkStep
    <2> QED
      BY <1>1, <1>4, <1>5, <2>1, <2>2, MoveKeeps
  <1> QED
    BY <1>6, <1>7, <1>8 DEF GCPrune, GCSweep, JobEdit, At

-----------------------------------------------------------------------------
(* Steps on the attempt in flight.                                          *)

\* An attempt that is not finished and that a handler works on is the pending push.
LEMMA OnPending ==
  ASSUME WPInv, srv.kind = "busy", OnAttempt, att[srv.id].st \in {"staged", "applying"}
  PROVE  srv.id = pend.id /\ pend.applying /\ srv.id \in Ids /\ told[srv.id] = "drawn"
  <1>1. srv.id \in Ids /\ HandlerInv /\ AttemptInv
    BY HandlerFacts
  <1>2. AttInv(srv.id)
    BY <1>1 DEF WPInv, StoreInv
  <1>3. CASE att[srv.id].st = "applying"
    BY <1>1, <1>2, <1>3, Shapes DEF AttInv, ApplyingInv, WPInv, TalkInv, PendInv
  <1>4. CASE att[srv.id].st = "staged"
    <2>1. told[srv.id] = "drawn" /\ ~Over(srv.id)
      BY <1>2, <1>4 DEF AttInv, StagedInv, Over
    <2>2. srv.m \in ApplyMsgs /\ srv.m.id = srv.id
      BY <1>1, <1>4 DEF AttemptInv, HandlerInv
    <2>3. MsgInv(srv.m) /\ srv.m.kind = "apply"
      BY <2>2, Shapes DEF WPInv, TalkInv, Waiting
    <2> QED
      BY <1>1, <2>1, <2>2, <2>3 DEF MsgInv
  <1> QED
    BY <1>3, <1>4

\* The client waits for the answer to no other request meanwhile.
LEMMA PendingAnswer ==
  ASSUME WPInv, srv.kind = "busy", OnAttempt, att[srv.id].st \in {"staged", "applying"}, RunnerStep,
         ans' = ans \/ (req # None /\ ans'.kind \notin {"manifest", "receipt"})
  PROVE  AnswerInv'
  <1>1. srv.id = pend.id /\ pend.applying
    BY OnPending
  <1>2. req # BaseMsg
    <2>1. cl.pc \in {"idle", "base", "record", "upload", "staged", "finish", "reupload", "forget"}
      BY DEF WPInv, Types, ClientTypes
    <2> QED
      BY <1>1, <2>1, Shapes DEF WPInv, TalkInv, ClientInv, UploadMsg, ApplyMsg
  <1>3. ans.kind \notin {"manifest", "receipt"}
    BY <1>1, <1>2 DEF WPInv, AnswerInv
  <1>4. req = None => ans = None
    BY DEF WPInv, AnswerInv
  <1> QED
    BY <1>3, <1>4 DEF AnswerInv, RunnerStep

\* The other attempts while the pending push moves.
LEMMA OtherKeeps ==
  ASSUME WPInv, RunnerStep, NEW k \in Ids, k # pend.id, ckpt.rev >= 0 => ckpt'.rev >= 0,
         att'[k] = att[k], installs'[k] = installs[k]
  PROVE  AttInv(k)'
  <1>1. AttInv(k)
    BY DEF WPInv, StoreInv
  <1>2. att[k].st # "applying"
    BY <1>1 DEF AttInv, ApplyingInv
  <1>3. StagedInv(k)' /\ ApplyingInv(k)' /\ DoneInv(k)' /\ KnownInv(k)'
    BY <1>1, <1>2 DEF AttInv, StagedInv, ApplyingInv, DoneInv, KnownInv, RunnerStep, Over
  <1>4. InstallInv(k)'
    BY <1>1, <1>2 DEF AttInv, DoneInv, InstallInv, Installed, HasOutcome, RunnerStep
  <1> QED
    BY <1>3, <1>4 DEF AttInv

LEMMA PendingKeeps ==
  ASSUME WPInv, srv.kind = "busy", OnAttempt, NEW i \in Ids, i = srv.id, att[i].st \in {"staged", "applying"},
         RunnerStep,
         NEW a \in Attempts, att' = [att EXCEPT ![i] = a], a.src = att[i].src,
         a.st \in {"applying", "done"},
         \A k \in Ids : k # i => installs'[k] = installs[k], installs' \in [Ids -> Nat],
         ckpt' \in Checkpoints, ckpt'.rev >= 0, journal' \in Journals, accepted' \in Manifests,
         Waiting' \subseteq Waiting \cup {None}, srv'.kind = "busy" => srv'.id \in {0, i},
         NetTypes', FileTypes', SrvTypes',
         ApplyingInv(i)', DoneInv(i)', InstallInv(i)', JournalInv', AcceptedInv',
         AnswerInv', BodiesRetained', SrvInv'
  PROVE  WPInv'
  <1>1. i = pend.id /\ pend.applying /\ i \in Ids /\ told[i] = "drawn"
    BY OnPending
  <1>2. att \in [Ids -> Attempts \cup {NoAttempt}]
    BY DEF WPInv, Types, StoreTypes
  <1>3. att'[i] = a /\ \A k \in Ids : k # i => att'[k] = att[k]
    BY <1>1, <1>2
  <1>4. ClientTypes' /\ StoreTypes'
    <2>1. ClientTypes'
      BY DEF WPInv, Types, ClientTypes, RunnerStep
    <2>2. att' \in [Ids -> Attempts \cup {NoAttempt}]
      BY <1>1, <1>2
    <2> QED
      BY <2>1, <2>2 DEF StoreTypes
  <1>5. TalkInv'
    <2>1. \A j \in Ids : Untouched(j) => j # i /\ j # 0
      BY Shapes DEF Untouched
    <2>2. \A j \in Ids : Untouched(j) =>
            att'[j].st = "none" /\ installs'[j] = 0 /\ (srv'.kind = "busy" => srv'.id # j)
      BY <1>3, <2>1 DEF Untouched
    <2>3. att'[pend.id].st \in {"applying", "done"}
      BY <1>1, <1>3
    <2>4. \A m \in Waiting' : m.kind = "upload" /\ att[m.id].st = "done" => att'[m.id].st = "done"
      <3>1. \A m \in Waiting' : m.kind = "upload" => m \in Msgs
        BY WaitingKinds, Shapes
      <3> QED
        BY <1>3, <3>1, Shapes
    <2> QED
      BY <1>1, <2>2, <2>3, <2>4, TalkKeeps DEF RunnerStep
  <1>6. ASSUME NEW k \in Ids PROVE AttInv(k)'
    <2>1. CASE k = i
      <3>1. KnownInv(k) /\ att[k].st # "none"
        BY <2>1 DEF WPInv, StoreInv, AttInv
      <3>2. StagedInv(k)' /\ KnownInv(k)'
        BY <1>1, <1>3, <2>1, <3>1 DEF StagedInv, KnownInv, RunnerStep
      <3> QED
        BY <2>1, <3>2 DEF AttInv
    <2>2. CASE k # i
      BY <1>1, <1>3, <2>2, OtherKeeps
    <2> QED
      BY <2>1, <2>2
  <1> QED
    BY <1>4, <1>5, <1>6 DEF WPInv, Types, StoreInv

\* The bodies that are needed, while the checkpoint stays.
LEMMA BodiesMove ==
  ASSUME WPInv, NEW i \in Ids, att[i] \in Attempts, NEW a \in Attempts, att' = [att EXCEPT ![i] = a],
         a.src = att[i].src, a.base = att[i].base, ckpt' = ckpt, blobs' = blobs,
         att[i].st = "applying" \/ a.st # "applying" \/ Remote(att[i]) \subseteq blobs
  PROVE  BodiesRetained'
  <1>1. att \in [Ids -> Attempts \cup {NoAttempt}]
    BY DEF WPInv, Types, StoreTypes
  <1>2. Remote(a) = Remote(att[i])
    BY DEF Remote
  <1>3. SUFFICES ASSUME ckpt.rev >= 0 PROVE Pins' \subseteq blobs
    BY DEF BodiesRetained
  <1>4. Pins \subseteq blobs
    BY <1>3 DEF WPInv, BodiesRetained
  <1>5. ASSUME NEW k \in Ids, att'[k].st = "applying" PROVE Remote(att'[k]) \subseteq blobs
    <2>1. CASE att[k].st = "applying"
      <3>1. Remote(att[k]) \subseteq Pins
        BY <2>1 DEF Pins, Unfinished, InFlight
      <3>2. att'[k] = att[k] \/ (k = i /\ att'[k] = a)
        BY <1>1
      <3> QED
        BY <1>2, <1>4, <3>1, <3>2
    <2>2. CASE att[k].st # "applying"
      BY <1>1, <1>2, <1>5, <2>2
    <2> QED
      BY <2>1, <2>2
  <1> QED
    BY <1>4, <1>5 DEF Pins, Unfinished, InFlight

\* Nothing is sent or answered.
LEMMA QuietNet ==
  ASSUME WPInv, RunnerStep, UNCHANGED <<up, late>>, srv.kind = "busy",
         srv' = None \/ (srv'.kind = "busy" /\ srv'.m = srv.m)
  PROVE  NetTypes' /\ Waiting' \subseteq Waiting \cup {None}
  BY Shapes DEF WPInv, Types, NetTypes, RunnerStep, Waiting

\* A write of the receipt of the application in flight: it agrees with what the
\* journal and the workspace show, before and after.
LEMMA ReceiptKeeps ==
  ASSUME WPInv, srv.kind = "busy", OnAttempt, NEW i \in Ids, i = srv.id, att[i].st = "applying", RunnerStep,
         NEW a \in Attempts, att' = [att EXCEPT ![i] = a], a.st = "applying",
         a.src = att[i].src, a.base = att[i].base, a.rev = att[i].rev,
         ckpt.rev = a.rev, ckpt.man = a.base, UNCHANGED <<ckpt, blobs>>,
         \A k \in Ids : k # i => installs'[k] = installs[k], installs' \in [Ids -> Nat],
         journal' \in Journals, accepted' \in Manifests,
         Waiting' \subseteq Waiting \cup {None}, srv'.kind = "busy" => srv'.id = i,
         ans' = ans \/ (req # None /\ ans'.kind \notin {"manifest", "receipt"}),
         NetTypes', FileTypes', SrvTypes', SrvInv',
         a.refused => a.rc \in {"outcome", "settled"}, JournalInv',
         accepted' = Made(a)', installs'[i] = (IF Installed(a)' THEN 1 ELSE 0)
  PROVE  WPInv'
  <1>1. i = pend.id /\ pend.applying
    BY OnPending
  <1>2. att \in [Ids -> Attempts \cup {NoAttempt}] /\ att[i] \in Attempts /\ ckpt \in Checkpoints /\ ckpt.rev >= 0
    BY HandlerFacts DEF WPInv, Types, StoreTypes
  <1>3. att'[i] = a
    BY <1>2
  <1>4. ApplyingInv(i)' /\ DoneInv(i)'
    BY <1>1, <1>3 DEF ApplyingInv, DoneInv, RunnerStep
  <1>5. InstallInv(i)'
    BY <1>3 DEF InstallInv
  <1>6. AcceptedInv'
    BY <1>3 DEF AcceptedInv
  <1>7. BodiesRetained'
    BY <1>2, BodiesMove
  <1>8. AnswerInv'
    BY PendingAnswer
  <1> QED
    BY <1>2, <1>4, <1>5, <1>6, <1>7, <1>8, PendingKeeps

\* What is known while the receipt is being written.
LEMMA InFlightFacts ==
  ASSUME WPInv, srv.kind = "busy", OnAttempt, att[srv.id].st = "applying"
  PROVE  /\ srv.id = pend.id /\ srv.id \in Ids /\ att[srv.id] \in Attempts
         /\ att \in [Ids -> Attempts \cup {NoAttempt}] /\ installs \in [Ids -> Nat]
         /\ journal \in Journals /\ accepted \in Manifests /\ ckpt.rev >= 0
         /\ accepted = Made(att[srv.id])
         /\ installs[srv.id] = (IF Installed(att[srv.id]) THEN 1 ELSE 0)
         /\ att[srv.id].refused => att[srv.id].rc \in {"outcome", "settled"}
         /\ att[srv.id].rc # "settled" => ckpt.rev = att[srv.id].rev /\ ckpt.man = att[srv.id].base
         /\ Committed => ~att[srv.id].refused /\ att[srv.id].rc \in {"pending", "outcome", "cleanup"}
  <1>1. srv.id = pend.id /\ srv.id \in Ids
    BY OnPending
  <1>2. AttInv(srv.id)
    BY <1>1 DEF WPInv, StoreInv
  <1>3. /\ att[srv.id] \in Attempts /\ ckpt.rev >= 0
        /\ att \in [Ids -> Attempts \cup {NoAttempt}] /\ installs \in [Ids -> Nat]
        /\ journal \in Journals /\ accepted \in Manifests
    BY HandlerFacts DEF WPInv, Types, StoreTypes
  <1>4. Committed => ~att[srv.id].refused /\ att[srv.id].rc \in {"pending", "outcome", "cleanup"}
    BY <1>1 DEF WPInv, StoreInv, JournalInv
  <1>5. ApplyingInv(srv.id) /\ InstallInv(srv.id)
    BY <1>2 DEF AttInv
  <1> QED
    BY <1>1, <1>3, <1>4, <1>5 DEF ApplyingInv, InstallInv

\* Apply: the attempt is marked once its bodies are durable.
LEMMA MarkKeeps ==
  ASSUME WPInv, MarkApplying
  PROVE  WPInv'
  <1>1. /\ srv.kind = "busy" /\ srv.step = "mark" /\ RunnerStep /\ Goto("target")
        /\ UNCHANGED <<up, late, ans, ckpt, blobs, temps, tree, journal, installs, accepted>>
    BY DEF MarkApplying, At, RunnerStep, client, net, store, hist
  <1>2. OnAttempt
    BY <1>1 DEF OnAttempt, AttemptSteps
  <1>3. /\ srv.id \in Ids /\ att[srv.id] \in Attempts /\ ckpt.rev >= 0
        /\ HandlerInv /\ AttemptInv /\ RetainInv
    BY <1>1, <1>2, HandlerFacts
  <1>4. /\ srv.back = "answer" /\ att[srv.id].st = "staged" /\ att[srv.id].rev = ckpt.rev
        /\ att[srv.id].base = ckpt.man /\ Remote(att[srv.id]) \subseteq blobs
        /\ srv.m \in ApplyMsgs
    BY <1>1, <1>2, <1>3 DEF RetainInv, AttemptInv, HandlerInv
  <1>5. srv.id = pend.id /\ pend.applying /\ told[srv.id] = "drawn"
    BY <1>1, <1>2, <1>4, OnPending
  <1>6. /\ att \in [Ids -> Attempts \cup {NoAttempt}] /\ installs \in [Ids -> Nat]
        /\ journal \in Journals /\ accepted \in Manifests /\ ckpt \in Checkpoints
    BY DEF WPInv, Types, StoreTypes
  <1>7. AttInv(srv.id) /\ JournalInv /\ AcceptedInv
    BY <1>3 DEF WPInv, StoreInv
  <1>8. att[srv.id].rc = "none" /\ ~att[srv.id].refused /\ installs[srv.id] = 0 /\ ~Committed
    BY <1>4, <1>5, <1>7 DEF AttInv, StagedInv, InstallInv, JournalInv
  <1>9. accepted = ckpt.man
    <2>1. \A k \in Ids : att[k].st = "applying" => k = srv.id
      BY <1>5 DEF WPInv, StoreInv, AttInv, ApplyingInv
    <2>2. Base = ckpt.man
      BY <1>3, Fields DEF WPInv, Types
    <2> QED
      BY <1>4, <1>7, <2>1, <2>2 DEF AcceptedInv
  <1>10. srv.m.sel \in SUBSET Paths /\ srv.m.mat \in BOOLEAN
    BY <1>4 DEF ApplyMsgs
  <1>11. PICK i \in Ids : i = srv.id
    BY <1>3
  <1>12. PICK a \in Attempts : /\ att' = [att EXCEPT ![i] = a] /\ a.st = "applying" /\ a.rc = att[i].rc
                               /\ a.rev = att[i].rev /\ a.base = att[i].base /\ a.src = att[i].src
                               /\ a.refused = att[i].refused
    <2> DEFINE a == [att[i] EXCEPT !.st = "applying", !.sel = srv.m.sel, !.mat = srv.m.mat]
    <2>1. att' = [att EXCEPT ![i] = a]
      BY <1>6, <1>11 DEF MarkApplying
    <2>2. a \in Attempts
      BY <1>3, <1>10, <1>11 DEF Attempts
    <2>3. /\ a.st = "applying" /\ a.rc = att[i].rc /\ a.rev = att[i].rev /\ a.base = att[i].base
          /\ a.src = att[i].src /\ a.refused = att[i].refused
      BY <1>3, <1>11 DEF Attempts
    <2> QED
      BY <2>1, <2>2, <2>3
  <1>13. att'[i] = a
    BY <1>6, <1>12
  <1>14. /\ SrvTypes' /\ srv'.kind = "busy" /\ srv'.step = "target" /\ srv'.op = srv.op /\ srv'.m = srv.m
         /\ srv'.id = i /\ srv'.back = srv.back
    BY <1>1, <1>11, GotoFacts DEF Steps, AttemptSteps
  <1>15. NetTypes' /\ Waiting' \subseteq Waiting \cup {None}
    BY <1>1, <1>14, QuietNet
  <1>16. FileTypes' /\ BodiesRetained'
    <2>1. FileTypes'
      BY <1>1 DEF WPInv, Types, FileTypes
    <2> QED
      BY <1>1, <1>3, <1>4, <1>11, <1>12, <2>1, BodiesMove
  <1>17. ApplyingInv(i)'
    <2>1. Made(a)' = a.base
      BY <1>8, <1>11, <1>12 DEF Made, HasOutcome
    <2> QED
      BY <1>1, <1>4, <1>5, <1>8, <1>9, <1>11, <1>12, <1>13, <2>1 DEF ApplyingInv, RunnerStep
  <1>18. InstallInv(i)' /\ DoneInv(i)'
    BY <1>1, <1>8, <1>11, <1>12, <1>13 DEF InstallInv, Installed, HasOutcome, DoneInv
  <1>19. JournalInv' /\ AcceptedInv'
    BY <1>1, <1>8, <1>12, <1>13 DEF JournalInv, Committed, AcceptedInv
  <1>20. SrvInv'
    BY <1>1, <1>2, <1>3, <1>11, <1>12, <1>13, <1>14
    DEF SrvInv, HandlerInv, AttemptInv, RetainInv, OnAttempt, AttemptSteps
  <1>21. AnswerInv'
    BY <1>1, <1>2, <1>4, PendingAnswer
  <1> QED
    BY <1>1, <1>2, <1>3, <1>4, <1>6, <1>11, <1>12, <1>14, <1>15, <1>16, <1>17, <1>18, <1>19, <1>20, <1>21,
       PendingKeeps

\* TransferTarget.Apply and recoverTransfer and finishTransfer: the receipt follows
\* the journal, and the journal goes only after the receipt has the outcome.
LEMMA ReceiptStepsKeep ==
  ASSUME WPInv, TargetApply \/ RecoverTransfer \/ FinishTransfer
  PROVE  WPInv'
  <1>1. /\ srv.kind = "busy" /\ srv.step = "target" /\ RunnerStep
        /\ UNCHANGED <<up, late, ans, ckpt, blobs, temps, tree, installs, accepted>>
    BY DEF TargetApply, RecoverTransfer, FinishTransfer, At, RunnerStep, client, net, store, hist
  <1>2. OnAttempt
    BY <1>1 DEF OnAttempt, AttemptSteps
  <1>3. /\ srv.id \in Ids /\ att[srv.id] \in Attempts /\ ckpt.rev >= 0
        /\ HandlerInv /\ AttemptInv /\ RetainInv /\ srv \in Handlers(srv.total)
        /\ att[srv.id].st \in {"applying", "done"}
    <2>1. /\ srv.id \in Ids /\ att[srv.id] \in Attempts /\ ckpt.rev >= 0
          /\ HandlerInv /\ AttemptInv /\ RetainInv /\ srv \in Handlers(srv.total)
      BY <1>1, <1>2, HandlerFacts
    <2> QED
      BY <1>1, <1>2, <2>1 DEF AttemptInv, AttemptSteps
  <1>4. FileTypes'
    BY <1>1 DEF WPInv, Types, FileTypes
  <1>5. CASE Applying.rc = "settled" /\ Goto("advance") /\ UNCHANGED <<att, journal>>
    <2>1. /\ SrvTypes' /\ srv'.kind = "busy" /\ srv'.step = "advance" /\ srv'.op = srv.op /\ srv'.m = srv.m
          /\ srv'.id = srv.id /\ srv'.back = srv.back
      BY <1>1, <1>5, GotoFacts DEF Steps, AttemptSteps
    <2>2. SrvInv'
      BY <1>1, <1>2, <1>3, <1>5, <2>1
      DEF SrvInv, HandlerInv, AttemptInv, RetainInv, OnAttempt, AttemptSteps, Applying
    <2>3. TalkStep
      BY <1>1, <1>5 DEF TalkStep
    <2>4. BodiesRetained'
      BY <1>1, <1>5, BodiesSame
    <2> QED
      BY <1>1, <1>4, <2>1, <2>2, <2>3, <2>4, MoveKeeps
  <1>6. ASSUME NEW i \in Ids, i = srv.id, att[i].rc # "settled",
               NEW a \in Attempts, att' = [att EXCEPT ![i] = a], a.st = att[i].st, a.rev = att[i].rev,
               a.base = att[i].base, a.src = att[i].src, a.refused = att[i].refused,
               a.refused => a.rc \in {"outcome", "settled"},
               journal' \in Journals,
               Committed' => ~a.refused /\ a.rc \in {"pending", "outcome", "cleanup"},
               srv' = srv \/ (Goto("install") /\ a.rc = "pending" /\ ~Committed'),
               Made(a)' = Made(att[i]), Installed(a)' <=> Installed(att[i])
        PROVE  WPInv'
    <2>1. att[srv.id].st = "applying"
      BY <1>3, <1>6 DEF WPInv, StoreInv, AttInv, DoneInv
    <2>3. /\ i = pend.id /\ att \in [Ids -> Attempts \cup {NoAttempt}] /\ att[i] \in Attempts
          /\ installs \in [Ids -> Nat] /\ accepted \in Manifests /\ accepted = Made(att[i])
          /\ installs[i] = (IF Installed(att[i]) THEN 1 ELSE 0)
          /\ ckpt.rev = att[i].rev /\ ckpt.man = att[i].base
      BY <1>1, <1>2, <1>6, <2>1, InFlightFacts
    <2>5. att'[i] = a
      BY <1>6, <2>3
    <2>6. /\ SrvTypes' /\ srv'.kind = "busy" /\ srv'.op = srv.op /\ srv'.m = srv.m /\ srv'.id = i
          /\ srv'.back = srv.back
          /\ srv'.step = "target" \/ (srv'.step = "install" /\ a.rc = "pending" /\ ~Committed')
      <3>1. CASE srv' = srv
        BY <1>1, <1>3, <1>6, <3>1 DEF SrvTypes, Handlers
      <3>2. CASE Goto("install") /\ a.rc = "pending" /\ ~Committed'
        BY <1>1, <1>6, <3>2, GotoFacts DEF Steps, AttemptSteps
      <3> QED
        BY <1>6, <3>1, <3>2
    <2>7. SrvInv'
      BY <1>1, <1>2, <1>3, <1>6, <2>1, <2>5, <2>6
      DEF SrvInv, HandlerInv, AttemptInv, RetainInv, OnAttempt, AttemptSteps
    <2>8. NetTypes' /\ Waiting' \subseteq Waiting \cup {None}
      BY <1>1, <2>6, QuietNet
    <2>9. JournalInv'
      <3>1. pend' = pend /\ pend.id # 0
        BY <1>1, <2>3, Shapes DEF RunnerStep
      <3> QED
        BY <1>6, <2>1, <2>3, <2>5, <3>1 DEF JournalInv
    <2>10. accepted' = Made(a)' /\ installs'[i] = (IF Installed(a)' THEN 1 ELSE 0)
      BY <1>1, <1>6, <2>3
    <2>11. installs' \in [Ids -> Nat] /\ accepted' \in Manifests /\ \A k \in Ids : installs'[k] = installs[k]
      BY <1>1, <2>3
    <2> QED
      BY <1>1, <1>2, <1>4, <1>6, <2>1, <2>3, <2>6, <2>7, <2>8, <2>9, <2>10, <2>11, ReceiptKeeps
  <1>7. PICK i \in Ids : i = srv.id
    BY <1>3
  <1>8. /\ att[i] \in Attempts /\ att \in [Ids -> Attempts \cup {NoAttempt}] /\ journal \in Journals
        /\ None \in Journals /\ Applying = att[i]
    BY <1>3, <1>7 DEF WPInv, Types, StoreTypes, Applying, Journals
  <1>9. att[i].rc # "settled" =>
          /\ att[i].st = "applying"
          /\ att[i].refused => att[i].rc \in {"outcome", "settled"}
          /\ Committed => ~att[i].refused /\ att[i].rc \in {"pending", "outcome", "cleanup"}
    <2>1. att[i].rc # "settled" => att[i].st = "applying"
      BY <1>3, <1>7 DEF WPInv, StoreInv, AttInv, DoneInv
    <2> QED
      BY <1>1, <1>2, <1>7, <2>1, InFlightFacts
  <1>10. ASSUME NEW rc \in {"none", "pending", "outcome", "cleanup", "settled"}, SetReceipt(rc)
         PROVE  \E a \in Attempts :
                  /\ att' = [att EXCEPT ![i] = a] /\ a.st = att[i].st /\ a.rev = att[i].rev /\ a.base = att[i].base
                  /\ a.src = att[i].src /\ a.refused = att[i].refused /\ a.rc = rc /\ a.out = att[i].out
                  /\ a.conf = att[i].conf
    <2> DEFINE a == [att[i] EXCEPT !.rc = rc]
    <2>1. att' = [att EXCEPT ![i] = a]
      BY <1>7, <1>8, <1>10 DEF SetReceipt
    <2>2. a \in Attempts
      BY <1>8, <1>10 DEF Attempts
    <2>3. /\ a.st = att[i].st /\ a.rev = att[i].rev /\ a.base = att[i].base
          /\ a.src = att[i].src /\ a.refused = att[i].refused /\ a.rc = rc /\ a.out = att[i].out
          /\ a.conf = att[i].conf
      BY <1>8 DEF Attempts
    <2> QED
      BY <2>1, <2>2, <2>3
  <1>11. CASE att[i].rc = "none" /\ SetReceipt("pending") /\ Goto("install") /\ UNCHANGED journal
    <2>1. PICK a \in Attempts :
            /\ att' = [att EXCEPT ![i] = a] /\ a.st = att[i].st /\ a.rev = att[i].rev /\ a.base = att[i].base
            /\ a.src = att[i].src /\ a.refused = att[i].refused /\ a.rc = "pending"
      BY <1>10, <1>11
    <2>2. ~Committed /\ ~Committed'
      BY <1>9, <1>11 DEF Committed
    <2>3. Made(a)' = Made(att[i]) /\ (Installed(a)' <=> Installed(att[i]))
      BY <1>11, <2>1, <2>2 DEF Made, Installed, HasOutcome
    <2> QED
      BY <1>6, <1>7, <1>8, <1>9, <1>11, <2>1, <2>2, <2>3
  <1>12. CASE att[i].rc = "pending" /\ ~Committed /\ SetReceipt("none") /\ UNCHANGED <<srv, journal>>
    <2>1. PICK a \in Attempts :
            /\ att' = [att EXCEPT ![i] = a] /\ a.st = att[i].st /\ a.rev = att[i].rev /\ a.base = att[i].base
            /\ a.src = att[i].src /\ a.refused = att[i].refused /\ a.rc = "none"
      BY <1>10, <1>12
    <2>2. ~Committed'
      BY <1>12 DEF Committed
    <2>3. Made(a)' = Made(att[i]) /\ (Installed(a)' <=> Installed(att[i]))
      BY <1>12, <2>1, <2>2 DEF Made, Installed, HasOutcome
    <2> QED
      BY <1>6, <1>7, <1>8, <1>9, <1>12, <2>1, <2>2, <2>3
  <1>13. CASE /\ att[i].rc = "pending" /\ Committed /\ UNCHANGED <<srv, journal>>
              /\ att' = [att EXCEPT ![i].rc = "outcome", ![i].out = journal.out, ![i].conf = journal.conf]
    <2>1. journal.out \in SUBSET Paths /\ journal.conf \in SUBSET Paths
      BY <1>8, <1>13, Shapes DEF Journals, Committed
    <2>2. PICK a \in Attempts :
            /\ att' = [att EXCEPT ![i] = a] /\ a.st = att[i].st /\ a.rev = att[i].rev /\ a.base = att[i].base
            /\ a.src = att[i].src /\ a.refused = att[i].refused /\ a.rc = "outcome"
            /\ a.out = journal.out /\ a.conf = journal.conf
      <3> DEFINE a == [att[i] EXCEPT !.rc = "outcome", !.out = journal.out, !.conf = journal.conf]
      <3>1. att' = [att EXCEPT ![i] = a]
        BY <1>8, <1>13
      <3>2. a \in Attempts
        BY <1>8, <2>1 DEF Attempts
      <3>3. /\ a.st = att[i].st /\ a.rev = att[i].rev /\ a.base = att[i].base
            /\ a.src = att[i].src /\ a.refused = att[i].refused /\ a.rc = "outcome"
            /\ a.out = journal.out /\ a.conf = journal.conf
        BY <1>8 DEF Attempts
      <3> QED
        BY <3>1, <3>2, <3>3
    <2>3. ~a.refused /\ (Committed' <=> Committed)
      BY <1>9, <1>13, <2>2 DEF Committed
    <2>4. Made(a)' = Made(att[i])
      BY <1>13, <2>2, <2>3 DEF Made, HasOutcome, Accept
    <2>5. Installed(a)' <=> Installed(att[i])
      BY <1>13, <2>2, <2>3 DEF Installed, HasOutcome
    <2> QED
      BY <1>6, <1>7, <1>8, <1>9, <1>13, <2>2, <2>3, <2>4, <2>5
  <1>14. ASSUME NEW rc \in {"cleanup", "settled"}, att[i].rc \in {"outcome", "cleanup"}, SetReceipt(rc),
                rc = "cleanup" <=> Committed, UNCHANGED <<srv, journal>>
         PROVE  WPInv'
    <2>1. PICK a \in Attempts :
            /\ att' = [att EXCEPT ![i] = a] /\ a.st = att[i].st /\ a.rev = att[i].rev /\ a.base = att[i].base
            /\ a.src = att[i].src /\ a.refused = att[i].refused /\ a.rc = rc
            /\ a.out = att[i].out /\ a.conf = att[i].conf
      BY <1>10, <1>14
    <2>2. Committed' <=> Committed
      BY <1>14 DEF Committed
    <2>3. Made(a)' = Made(att[i]) /\ (Installed(a)' <=> Installed(att[i]))
      BY <1>14, <2>1, <2>2 DEF Made, Installed, HasOutcome, Accept
    <2>4. a.refused => a.rc \in {"outcome", "settled"}
      BY <1>9, <1>14, <2>1
    <2>5. Committed' => ~a.refused /\ a.rc \in {"pending", "outcome", "cleanup"}
      BY <1>9, <1>14, <2>1, <2>2
    <2> QED
      BY <1>6, <1>7, <1>8, <1>14, <2>1, <2>3, <2>4, <2>5
  <1>15. CASE att[i].rc = "cleanup" /\ journal' = None /\ UNCHANGED <<srv, att>>
    <2>1. att' = [att EXCEPT ![i] = att[i]]
      BY <1>8, <1>15
    <2>2. ~Committed'
      BY <1>15, Shapes DEF Committed
    <2>3. /\ Made(att[i]) = Accept(att[i].base, att[i])
          /\ Installed(att[i]) <=> ~att[i].refused
      BY <1>15 DEF Made, Installed, HasOutcome
    <2>4. PICK a \in Attempts : a = att[i]
      BY <1>8
    <2>5. Made(a)' = Accept(a.base, a) /\ (Installed(a)' <=> ~a.refused)
      BY <1>15, <2>4 DEF Made, Installed, HasOutcome, Accept
    <2> QED
      BY <1>6, <1>7, <1>8, <1>9, <1>15, <2>1, <2>2, <2>3, <2>4, <2>5
  <1>16. CASE TargetApply
    BY <1>5, <1>8, <1>11, <1>16 DEF TargetApply
  <1>17. CASE RecoverTransfer
    BY <1>7, <1>8, <1>12, <1>13, <1>17 DEF RecoverTransfer
  <1>18. CASE FinishTransfer
    <2>1. CASE att[i].rc = "outcome" /\ SetReceipt(IF Committed THEN "cleanup" ELSE "settled") /\ UNCHANGED <<srv, journal>>
      BY <1>14, <2>1
    <2>2. CASE att[i].rc = "cleanup" /\ ~Committed /\ SetReceipt("settled") /\ UNCHANGED <<srv, journal>>
      BY <1>14, <2>2
    <2> QED
      BY <1>8, <1>15, <1>18, <2>1, <2>2 DEF FinishTransfer
  <1> QED
    BY <1>16, <1>17, <1>18

\* ApplyToWorkspace: everything is installed, or refused, or rolled back.
LEMMA InstallKeeps ==
  ASSUME WPInv, Install
  PROVE  WPInv'
  <1>1. /\ srv.kind = "busy" /\ srv.step = "install" /\ RunnerStep
        /\ UNCHANGED <<ckpt, blobs, temps>>
    BY DEF Install, At, RunnerStep, client, store, Reply, Answer, Fail, Goto, net
  <1>2. OnAttempt
    BY <1>1 DEF OnAttempt, AttemptSteps
  <1>3. PICK i \in Ids : i = srv.id
    BY <1>1, <1>2, HandlerFacts
  <1>4. /\ HandlerInv /\ AttemptInv /\ RetainInv /\ Applying = att[i]
        /\ att[i].st = "applying" /\ att[i].rc = "pending" /\ ~Committed
    <2>1. HandlerInv /\ AttemptInv /\ RetainInv
      BY <1>1, HandlerFacts
    <2> QED
      BY <1>1, <1>2, <1>3, <2>1 DEF AttemptInv, Applying
  <1>5. /\ i = pend.id /\ att[i] \in Attempts
        /\ att \in [Ids -> Attempts \cup {NoAttempt}] /\ installs \in [Ids -> Nat]
        /\ journal \in Journals /\ accepted \in Manifests
        /\ accepted = Made(att[i]) /\ installs[i] = (IF Installed(att[i]) THEN 1 ELSE 0)
        /\ ~att[i].refused /\ ckpt.rev = att[i].rev /\ ckpt.man = att[i].base
    BY <1>1, <1>2, <1>3, <1>4, InFlightFacts
  <1>6. accepted = att[i].base /\ installs[i] = 0
    BY <1>4, <1>5 DEF Made, Installed, HasOutcome
  <1>7. /\ att[i].sel \subseteq Paths /\ att[i].src \in Manifests /\ att[i].base \in Manifests
        /\ pend' = pend /\ pend.id # 0
    BY <1>1, <1>5, Shapes DEF Attempts, RunnerStep
  <1>8. tree \in [Paths -> Values \cup {Job, Mix, Mark}] /\ blobs \subseteq Values /\ temps \in Nat
    BY DEF WPInv, Types, FileTypes
  <1>9. ASSUME Goto("target"), att'[i].st = "applying", UNCHANGED <<up, late>>
        PROVE  /\ SrvTypes' /\ SrvInv' /\ srv'.kind = "busy" /\ srv'.id = i /\ NetTypes'
               /\ Waiting' \subseteq Waiting \cup {None}
    <2>1. /\ SrvTypes' /\ srv'.kind = "busy" /\ srv'.step = "target" /\ srv'.op = srv.op /\ srv'.m = srv.m
          /\ srv'.id = i /\ srv'.back = srv.back
      BY <1>1, <1>3, <1>9, GotoFacts DEF Steps, AttemptSteps
    <2>2. SrvInv'
      BY <1>1, <1>2, <1>3, <1>4, <1>9, <2>1
      DEF SrvInv, HandlerInv, AttemptInv, RetainInv, OnAttempt, AttemptSteps
    <2>3. NetTypes' /\ Waiting' \subseteq Waiting \cup {None}
      BY <1>1, <1>9, <2>1, QuietNet
    <2> QED
      BY <2>1, <2>2, <2>3
  <1>10. PICK result \in [Applying.sel -> UNION {Merge(Applying.base[p], Applying.src[p], tree[p]) : p \in Applying.sel}] :
          /\ \A p \in Applying.sel : result[p] \in Merge(Applying.base[p], Applying.src[p], tree[p])
          /\ \/ /\ Conflicts(Applying, result) = {} \/ Applying.mat
                /\ tree' = Merged(Applying, result)
                /\ journal' = [kind |-> "committed", out |-> Applying.sel, conf |-> Conflicts(Applying, result)]
                /\ installs' = [installs EXCEPT ![srv.id] = @ + 1]
                /\ accepted' = [p \in Paths |-> IF p \in Applying.sel \ Conflicts(Applying, result)
                                                THEN Applying.src[p] ELSE accepted[p]]
                /\ Goto("target") /\ UNCHANGED <<att, net, up>>
             \/ /\ Conflicts(Applying, result) # {} /\ ~Applying.mat
                /\ att' = [att EXCEPT ![srv.id].rc = "outcome", ![srv.id].refused = TRUE, ![srv.id].conf = Conflicts(Applying, result)]
                /\ Goto("target") /\ UNCHANGED <<tree, journal, installs, accepted, net, up>>
             \/ /\ SetReceipt("none")
                /\ Fail /\ UNCHANGED <<tree, journal, installs, accepted>>
    BY DEF Install
  <1>11. PICK conf \in SUBSET att[i].sel : conf = Conflicts(att[i], result)
    BY <1>4 DEF Conflicts
  <1>12. CASE /\ tree' = Merged(att[i], result)
              /\ journal' = [kind |-> "committed", out |-> att[i].sel, conf |-> conf]
              /\ installs' = [installs EXCEPT ![i] = @ + 1]
              /\ accepted' = [p \in Paths |-> IF p \in att[i].sel \ conf THEN att[i].src[p] ELSE accepted[p]]
              /\ Goto("target") /\ UNCHANGED <<att, net, up>>
    <2>1. PICK a \in Attempts : a = att[i]
      BY <1>5
    <2>2. att' = [att EXCEPT ![i] = a] /\ att'[i] = att[i] /\ UNCHANGED <<up, late, ans>>
      BY <1>5, <1>12, <2>1 DEF net
    <2>3. Committed' /\ journal' \in Journals
      BY <1>7, <1>12 DEF Committed, Journals
    <2>4. accepted' \in Manifests /\ accepted' = Made(a)'
      <3>1. accepted' \in Manifests
        BY <1>5, <1>7, <1>12 DEF Manifests
      <3>2. Made(a)' = [p \in Paths |-> IF p \in journal'.out \ journal'.conf THEN a.src[p] ELSE a.base[p]]
        BY <1>4, <2>1, <2>3 DEF Made, HasOutcome
      <3>3. journal'.out = att[i].sel /\ journal'.conf = conf
        BY <1>12
      <3> QED
        BY <1>6, <1>12, <2>1, <3>1, <3>2, <3>3
    <2>5. installs' \in [Ids -> Nat] /\ installs'[i] = 1 /\ \A k \in Ids : k # i => installs'[k] = installs[k]
      BY <1>5, <1>6, <1>12
    <2>6. Installed(a)'
      BY <1>4, <2>1, <2>3 DEF Installed
    <2>7. FileTypes'
      <3>1. \A p \in att[i].sel : result[p] \in Values \cup {Job, Mix, Mark}
        BY <1>4, <1>7, <1>10 DEF Merge, Manifests
      <3>2. tree' \in [Paths -> Values \cup {Job, Mix, Mark}]
        BY <1>8, <1>12, <3>1 DEF Merged
      <3> QED
        BY <1>1, <1>8, <3>2 DEF FileTypes
    <2>8. JournalInv'
      BY <1>4, <1>5, <1>7, <2>2 DEF JournalInv
    <2> QED
      BY <1>1, <1>2, <1>3, <1>4, <1>5, <1>9, <1>12, <2>1, <2>2, <2>3, <2>4, <2>5, <2>6, <2>7, <2>8, ReceiptKeeps
  <1>13. CASE /\ att' = [att EXCEPT ![i].rc = "outcome", ![i].refused = TRUE, ![i].conf = conf]
              /\ Goto("target") /\ UNCHANGED <<tree, journal, installs, accepted, net, up>>
    <2>1. PICK a \in Attempts :
            /\ att' = [att EXCEPT ![i] = a] /\ a.st = "applying" /\ a.rev = att[i].rev /\ a.base = att[i].base
            /\ a.src = att[i].src /\ a.refused /\ a.rc = "outcome"
      <3> DEFINE a == [att[i] EXCEPT !.rc = "outcome", !.refused = TRUE, !.conf = conf]
      <3>1. att' = [att EXCEPT ![i] = a]
        BY <1>5, <1>13
      <3>2. a \in Attempts
        BY <1>5, <1>7, <1>11 DEF Attempts
      <3>3. /\ a.st = "applying" /\ a.rev = att[i].rev /\ a.base = att[i].base
            /\ a.src = att[i].src /\ a.refused /\ a.rc = "outcome"
        BY <1>4, <1>5 DEF Attempts
      <3> QED
        BY <3>1, <3>2, <3>3
    <2>2. att'[i] = a /\ UNCHANGED <<up, late, ans>>
      BY <1>5, <1>13, <2>1 DEF net
    <2>3. ~Committed'
      BY <1>4, <1>13 DEF Committed
    <2>4. Made(a)' = a.base
      <3>1. Made(a)' = Accept(a.base, a)
        BY <2>1 DEF Made, HasOutcome, Accept
      <3> QED
        BY <1>7, <2>1, <3>1 DEF Accept, Manifests
    <2>5. ~Installed(a)'
      BY <2>1 DEF Installed, HasOutcome
    <2>6. FileTypes' /\ JournalInv'
      BY <1>1, <1>8, <1>13, <2>3 DEF FileTypes, JournalInv
    <2>7. accepted' = Made(a)' /\ installs'[i] = 0 /\ installs' = installs /\ journal' = journal /\ accepted' = accepted
      BY <1>6, <1>13, <2>1, <2>4
    <2>8. /\ SrvTypes' /\ SrvInv' /\ srv'.kind = "busy" /\ srv'.id = i /\ NetTypes'
          /\ Waiting' \subseteq Waiting \cup {None}
      BY <1>9, <1>13, <2>1, <2>2
    <2>9. ckpt.rev = a.rev /\ ckpt.man = a.base /\ installs'[i] = (IF Installed(a)' THEN 1 ELSE 0)
      BY <1>5, <2>1, <2>5, <2>7
    <2> QED
      BY <1>1, <1>2, <1>3, <1>4, <1>5, <2>1, <2>2, <2>6, <2>7, <2>8, <2>9, ReceiptKeeps
  <1>14. CASE SetReceipt("none") /\ Fail /\ UNCHANGED <<tree, journal, installs, accepted>>
    <2>1. PICK a \in Attempts :
            /\ att' = [att EXCEPT ![i] = a] /\ a.st = "applying" /\ a.rev = att[i].rev /\ a.base = att[i].base
            /\ a.src = att[i].src /\ ~a.refused /\ a.rc = "none"
      <3> DEFINE a == [att[i] EXCEPT !.rc = "none"]
      <3>1. att' = [att EXCEPT ![i] = a]
        BY <1>3, <1>5, <1>14 DEF SetReceipt
      <3>2. a \in Attempts
        BY <1>5 DEF Attempts
      <3>3. /\ a.st = "applying" /\ a.rev = att[i].rev /\ a.base = att[i].base
            /\ a.src = att[i].src /\ ~a.refused /\ a.rc = "none"
        BY <1>4, <1>5 DEF Attempts
      <3> QED
        BY <3>1, <3>2, <3>3
    <2>2. /\ srv' = None /\ NetTypes' /\ SrvTypes' /\ SrvInv' /\ Waiting' \subseteq Waiting \cup {None}
          /\ ans' = ans \/ (ans' = [kind |-> "error"] /\ req # None)
      BY <1>1, <1>14, ReplyFacts DEF Fail
    <2>3. ~Committed' /\ srv'.kind # "busy"
      BY <1>4, <1>14, <2>2, Shapes DEF Committed
    <2>4. Made(a)' = a.base /\ ~Installed(a)'
      BY <2>1 DEF Made, Installed, HasOutcome
    <2>5. FileTypes' /\ JournalInv'
      BY <1>1, <1>8, <1>14, <2>3 DEF FileTypes, JournalInv
    <2>6. accepted' = Made(a)' /\ installs'[i] = 0 /\ installs' = installs /\ journal' = journal /\ accepted' = accepted
      BY <1>6, <1>14, <2>1, <2>4
    <2>7. ans' = ans \/ (req # None /\ ans'.kind \notin {"manifest", "receipt"})
      BY <2>2
    <2> QED
      BY <1>1, <1>2, <1>3, <1>4, <1>5, <2>1, <2>2, <2>3, <2>4, <2>5, <2>6, <2>7, ReceiptKeeps
  <1> QED
    BY <1>3, <1>4, <1>10, <1>11, <1>12, <1>13, <1>14

\* The accepted source names bodies of the checkpoint or of the attempt.
LEMMA AcceptBodies ==
  ASSUME NEW a \in Attempts
  PROVE  /\ Accept(a.base, a) \in Manifests
         /\ Bodies(Accept(a.base, a)) \subseteq Bodies(a.base) \cup Remote(a)
  <1>1. a.base \in [Paths -> Values] /\ a.src \in [Paths -> Values]
    BY DEF Attempts, Manifests
  <1>2. Accept(a.base, a) \in Manifests
    BY <1>1 DEF Accept, Manifests
  <1>3. ASSUME NEW p \in Paths, Accept(a.base, a)[p] # 0
        PROVE  Accept(a.base, a)[p] \in Bodies(a.base) \cup Remote(a)
    <2>1. Accept(a.base, a)[p] \in {a.src[p], a.base[p]}
      BY DEF Accept
    <2>2. CASE Accept(a.base, a)[p] = a.base[p]
      BY <1>3, <2>2 DEF Bodies
    <2>3. CASE Accept(a.base, a)[p] # a.base[p]
      BY <1>3, <2>1, <2>3 DEF Remote, Delta
    <2> QED
      BY <2>2, <2>3
  <1> QED
    BY <1>2, <1>3 DEF Bodies

\* Advance: the receipt is bound, then the checkpoint takes the accepted source.
LEMMA AdvanceKeeps ==
  ASSUME WPInv, Advance
  PROVE  WPInv'
  <1>1. /\ srv.kind = "busy" /\ srv.step = "advance" /\ RunnerStep
        /\ UNCHANGED <<blobs, temps, tree, journal, installs, accepted>>
    BY DEF Advance, At, RunnerStep, client, store, hist, Reply, Answer, Fail, Goto, net
  <1>2. OnAttempt
    BY <1>1 DEF OnAttempt, AttemptSteps
  <1>3. PICK i \in Ids : i = srv.id
    BY <1>1, <1>2, HandlerFacts
  <1>4. /\ HandlerInv /\ AttemptInv /\ RetainInv /\ Applying = att[i] /\ srv \in Handlers(srv.total)
        /\ att[i].st \in {"applying", "done"} /\ att[i].rc = "settled"
    <2>1. HandlerInv /\ AttemptInv /\ RetainInv /\ srv \in Handlers(srv.total)
      BY <1>1, HandlerFacts
    <2> QED
      BY <1>1, <1>2, <1>3, <2>1 DEF AttemptInv, AttemptSteps, Applying
  <1>5. FileTypes'
    BY <1>1 DEF WPInv, Types, FileTypes
  <1>6. CASE (att[i].st = "done" \/ Replayed(i)) /\ Goto("done") /\ UNCHANGED <<ckpt, att, net, up>>
    <2>1. /\ SrvTypes' /\ srv'.kind = "busy" /\ srv'.step = "done" /\ srv'.op = srv.op /\ srv'.m = srv.m
          /\ srv'.id = i /\ srv'.back = srv.back
      BY <1>1, <1>3, <1>6, GotoFacts DEF Steps, AttemptSteps
    <2>2. SrvInv'
      BY <1>1, <1>2, <1>3, <1>4, <1>6, <2>1
      DEF SrvInv, HandlerInv, AttemptInv, RetainInv, OnAttempt, AttemptSteps, Replayed
    <2>3. TalkStep /\ UNCHANGED <<up, late, ans>>
      BY <1>1, <1>6 DEF TalkStep, net
    <2>4. BodiesRetained'
      BY <1>1, <1>6, BodiesSame
    <2> QED
      BY <1>1, <1>3, <1>5, <2>1, <2>2, <2>3, <2>4, MoveKeeps
  <1>7. CASE Fail /\ UNCHANGED <<ckpt, att>>
    BY <1>1, <1>5, <1>7, FailKeeps DEF Fail, TalkStep
  <1>8. ASSUME att[i].st = "applying"
        PROVE  /\ i = pend.id /\ pend.applying /\ att[i] \in Attempts
               /\ att \in [Ids -> Attempts \cup {NoAttempt}] /\ installs \in [Ids -> Nat]
               /\ journal \in Journals /\ accepted \in Manifests /\ ckpt.rev >= 0
               /\ accepted = Accept(att[i].base, att[i])
               /\ installs[i] = (IF Installed(att[i]) THEN 1 ELSE 0) /\ ~Committed
               /\ ckpt \in Checkpoints
    <2>1. /\ i = pend.id /\ pend.applying
      BY <1>1, <1>2, <1>3, <1>8, OnPending
    <2>2. /\ att[i] \in Attempts
          /\ att \in [Ids -> Attempts \cup {NoAttempt}] /\ installs \in [Ids -> Nat]
          /\ journal \in Journals /\ accepted \in Manifests /\ ckpt.rev >= 0
          /\ accepted = Made(att[i])
          /\ installs[i] = (IF Installed(att[i]) THEN 1 ELSE 0)
          /\ Committed => att[i].rc \in {"pending", "outcome", "cleanup"}
      BY <1>1, <1>2, <1>3, <1>8, InFlightFacts
    <2>3. Made(att[i]) = Accept(att[i].base, att[i]) /\ ~Committed
      BY <1>4, <2>2 DEF Made, HasOutcome
    <2> QED
      BY <2>1, <2>2, <2>3 DEF WPInv, Types, StoreTypes
  <1>9. CASE /\ att[i].st = "applying" /\ ckpt.rev = att[i].rev /\ ckpt.man = att[i].base
             /\ att' = [att EXCEPT ![i].bound = TRUE] /\ UNCHANGED <<ckpt, srv, net, up>>
    <2>1. PICK a \in Attempts :
            /\ att' = [att EXCEPT ![i] = a] /\ a.st = "applying" /\ a.rev = att[i].rev /\ a.base = att[i].base
            /\ a.src = att[i].src /\ a.refused = att[i].refused /\ a.rc = att[i].rc
            /\ a.out = att[i].out /\ a.conf = att[i].conf
      <3> DEFINE a == [att[i] EXCEPT !.bound = TRUE]
      <3>1. att' = [att EXCEPT ![i] = a]
        BY <1>8, <1>9
      <3>2. a \in Attempts
        BY <1>8, <1>9 DEF Attempts
      <3>3. /\ a.st = "applying" /\ a.rev = att[i].rev /\ a.base = att[i].base
            /\ a.src = att[i].src /\ a.refused = att[i].refused /\ a.rc = att[i].rc
            /\ a.out = att[i].out /\ a.conf = att[i].conf
        BY <1>8, <1>9 DEF Attempts
      <3> QED
        BY <3>1, <3>2, <3>3
    <2>2. att'[i] = a /\ UNCHANGED <<up, late, ans, ckpt, srv>>
      BY <1>8, <1>9, <2>1 DEF net
    <2>3. Made(a)' = accepted' /\ (Installed(a)' <=> Installed(att[i]))
      <3>1. Made(a)' = Accept(a.base, a)
        BY <1>4, <2>1 DEF Made, HasOutcome, Accept
      <3>2. Accept(a.base, a) = Accept(att[i].base, att[i])
        BY <2>1 DEF Accept
      <3> QED
        BY <1>1, <1>4, <1>8, <1>9, <2>1, <3>1, <3>2 DEF Installed, HasOutcome
    <2>4. SrvTypes' /\ SrvInv'
      <3>1. SrvTypes'
        BY <1>4, <2>2 DEF SrvTypes, Handlers
      <3>2. SrvInv'
        BY <1>1, <1>2, <1>3, <1>4, <2>1, <2>2
        DEF SrvInv, HandlerInv, AttemptInv, RetainInv, OnAttempt, AttemptSteps
      <3> QED
        BY <3>1, <3>2
    <2>5. NetTypes' /\ Waiting' \subseteq Waiting \cup {None}
      BY <1>1, <2>2, QuietNet
    <2>6. JournalInv'
      BY <1>1, <1>8, <1>9 DEF JournalInv, Committed
    <2>7. ckpt.rev = a.rev /\ ckpt.man = a.base /\ a.rc = "settled"
      BY <1>4, <1>9, <2>1
    <2>8. /\ installs'[i] = (IF Installed(a)' THEN 1 ELSE 0) /\ installs' = installs /\ accepted' = accepted
          /\ journal' = journal
      BY <1>1, <1>8, <1>9, <2>3
    <2>9. /\ att[i].st = "applying" /\ srv'.id = i /\ accepted' = Made(a)'
          /\ installs' \in [Ids -> Nat] /\ accepted' \in Manifests /\ journal' \in Journals
          /\ \A k \in Ids : installs'[k] = installs[k]
      BY <1>3, <1>8, <1>9, <2>2, <2>3, <2>8
    <2>10. installs'[i] = (IF Installed(a)' THEN 1 ELSE 0)
      BY <2>8
    <2> QED
      BY <1>1, <1>2, <1>3, <1>5, <2>1, <2>2, <2>4, <2>5, <2>6, <2>7, <2>9, <2>10, ReceiptKeeps
  <1>10. CASE /\ att[i].st = "applying" /\ ckpt.rev = att[i].rev /\ ckpt.man = att[i].base /\ att[i].bound
              /\ ckpt' = [rev |-> att[i].rev + 1, man |-> Accept(ckpt.man, att[i]), last |-> i]
              /\ Goto("done") /\ UNCHANGED <<att, net, up>>
    <2>1. PICK a \in Attempts : a = att[i]
      BY <1>8, <1>10
    <2>2. att' = [att EXCEPT ![i] = a] /\ att'[i] = att[i] /\ UNCHANGED <<up, late, ans>>
      BY <1>8, <1>10, <2>1 DEF net
    <2>3. /\ ckpt'.rev = att[i].rev + 1 /\ ckpt'.man = accepted /\ ckpt'.last = i /\ ckpt'.rev >= 0
          /\ ckpt' \in Checkpoints /\ att[i].rev \in Nat
      <3>1. att[i].rev \in Nat /\ i \in 0 .. MaxPush
        BY <1>8, <1>10, Shapes DEF Attempts
      <3>2. Accept(ckpt.man, att[i]) = accepted
        BY <1>8, <1>10
      <3> QED
        BY <1>8, <1>10, <3>1, <3>2 DEF Checkpoints
    <2>4. ApplyingInv(i)'
      <3>1. Made(att[i])' = accepted'
        BY <1>1, <1>4, <1>8, <1>10, <2>2 DEF Made, HasOutcome, Accept
      <3>2. Replayed(i)'
        BY <1>10, <2>2, <2>3 DEF Replayed
      <3>3. att[i].refused => att[i].rc \in {"outcome", "settled"}
        BY <1>4
      <3> QED
        BY <1>1, <1>4, <1>8, <1>10, <2>2, <2>3, <3>1, <3>2, <3>3 DEF ApplyingInv, RunnerStep
    <2>5. DoneInv(i)' /\ InstallInv(i)'
      BY <1>1, <1>4, <1>8, <1>10, <2>2 DEF DoneInv, InstallInv, Installed, HasOutcome
    <2>6. JournalInv' /\ AcceptedInv'
      BY <1>1, <1>8, <1>10, <2>2 DEF JournalInv, Committed, AcceptedInv
    <2>7. BodiesRetained'
      <3>1. Pins \subseteq blobs /\ ~(ckpt.rev < 0) /\ ~(ckpt'.rev < 0)
        BY <1>8, <1>10, <2>3 DEF WPInv, BodiesRetained
      <3>2. Bodies(ckpt.man) \subseteq Pins /\ Remote(att[i]) \subseteq Pins
        BY <1>10, <3>1 DEF Pins, Unfinished, InFlight
      <3>3. Bodies(ckpt'.man) \subseteq Bodies(ckpt.man) \cup Remote(att[i])
        BY <1>8, <1>10, <2>3, AcceptBodies
      <3>4. Pins' \subseteq Pins \cup Bodies(ckpt'.man)
        BY <1>10, <3>1 DEF Pins, Unfinished, InFlight
      <3> QED
        BY <1>1, <3>1, <3>2, <3>3, <3>4 DEF BodiesRetained
    <2>8. /\ SrvTypes' /\ srv'.kind = "busy" /\ srv'.step = "done" /\ srv'.op = srv.op /\ srv'.m = srv.m
          /\ srv'.id = i /\ srv'.back = srv.back
      BY <1>1, <1>3, <1>10, GotoFacts DEF Steps, AttemptSteps
    <2>9. SrvInv'
      <3>1. Replayed(i)'
        BY <1>10, <2>2, <2>3 DEF Replayed
      <3> QED
        BY <1>1, <1>2, <1>3, <1>4, <2>2, <2>8, <3>1
        DEF SrvInv, HandlerInv, AttemptInv, RetainInv, OnAttempt, AttemptSteps
    <2>10. NetTypes' /\ Waiting' \subseteq Waiting \cup {None}
      BY <1>1, <2>2, <2>8, QuietNet
    <2>11. AnswerInv'
      BY <1>1, <1>2, <1>3, <1>10, <2>2, PendingAnswer
    <2>12. /\ journal' \in Journals /\ accepted' \in Manifests /\ installs' \in [Ids -> Nat]
           /\ \A k \in Ids : installs'[k] = installs[k]
      BY <1>1, <1>8, <1>10
    <2> QED
      BY <1>1, <1>2, <1>3, <1>5, <1>10, <2>1, <2>2, <2>3, <2>4, <2>5, <2>6, <2>7, <2>8, <2>9, <2>10, <2>11,
         <2>12, PendingKeeps
  <1> QED
    BY <1>3, <1>4, <1>6, <1>7, <1>9, <1>10 DEF Advance

\* The receipt is marked done; the client is told only of its own push.
LEMMA ApplyDoneKeeps ==
  ASSUME WPInv, ApplyDone
  PROVE  WPInv'
  <1>1. /\ srv.kind = "busy" /\ srv.step = "done" /\ RunnerStep
        /\ UNCHANGED <<ckpt, blobs, temps, tree, journal, installs, accepted>>
    BY DEF ApplyDone, At, RunnerStep, client, store, hist, Reply, Answer, net
  <1>2. OnAttempt
    BY <1>1 DEF OnAttempt, AttemptSteps
  <1>3. PICK i \in Ids : i = srv.id
    BY <1>1, <1>2, HandlerFacts
  <1>4. /\ HandlerInv /\ AttemptInv /\ RetainInv /\ Applying = att[i] /\ srv \in Handlers(srv.total)
        /\ att[i] \in Attempts /\ ckpt.rev >= 0
    BY <1>1, <1>2, <1>3, HandlerFacts DEF Applying
  <1>5. /\ att[i].st \in {"applying", "done"} /\ att[i].rc = "settled"
        /\ att[i].st = "done" \/ Replayed(i)
        /\ srv.back \in {"answer", "recover"}
        /\ srv.back = "answer" => srv.m \in ApplyMsgs /\ srv.m.id = i
        /\ srv.back = "recover" => att[i].st = "applying"
    BY <1>1, <1>2, <1>3, <1>4 DEF AttemptInv, AttemptSteps, HandlerInv
  <1>6. /\ att \in [Ids -> Attempts \cup {NoAttempt}] /\ installs \in [Ids -> Nat]
        /\ journal \in Journals /\ accepted \in Manifests /\ ckpt \in Checkpoints
    BY DEF WPInv, Types, StoreTypes
  <1>7. FileTypes'
    BY <1>1 DEF WPInv, Types, FileTypes
  <1>8. PICK a \in Attempts :
          /\ att' = [att EXCEPT ![i] = a] /\ a.st = "done" /\ a.rev = att[i].rev /\ a.base = att[i].base
          /\ a.src = att[i].src /\ a.refused = att[i].refused /\ a.rc = "settled"
    <2> DEFINE a == [att[i] EXCEPT !.st = "done"]
    <2>1. att' = [att EXCEPT ![i] = a]
      BY <1>3, <1>6 DEF ApplyDone
    <2>2. a \in Attempts
      BY <1>4 DEF Attempts
    <2>3. /\ a.st = "done" /\ a.rev = att[i].rev /\ a.base = att[i].base
          /\ a.src = att[i].src /\ a.refused = att[i].refused /\ a.rc = "settled"
      BY <1>4, <1>5 DEF Attempts
    <2> QED
      BY <2>1, <2>2, <2>3
  <1>9. att'[i] = a
    BY <1>6, <1>8
  <1>10. ASSUME att[i].st = "applying", SrvTypes', SrvInv', srv'.kind = "busy" => srv'.id = 0, NetTypes',
                Waiting' \subseteq Waiting \cup {None}, AnswerInv'
         PROVE  WPInv'
    <2>1. i = pend.id /\ pend.applying /\ told[i] = "drawn"
      BY <1>1, <1>2, <1>3, <1>10, OnPending
    <2>2. AttInv(i) /\ JournalInv
      BY DEF WPInv, StoreInv
    <2>3. Replayed(i) /\ ckpt.rev = att[i].rev + 1 /\ att[i].rev \in Nat
      BY <1>4, <1>5, <1>10 DEF Replayed, Attempts
    <2>4. ckpt.man = accepted
      BY <1>10, <2>2, <2>3 DEF AttInv, ApplyingInv
    <2>5. ApplyingInv(i)' /\ DoneInv(i)'
      BY <1>1, <1>8, <1>9, <2>1, <2>3 DEF ApplyingInv, DoneInv, RunnerStep
    <2>6. InstallInv(i)'
      BY <1>1, <1>5, <1>8, <1>9, <1>10, <2>2 DEF AttInv, InstallInv, Installed, HasOutcome
    <2>7. JournalInv'
      <3>1. ~Committed
        BY <1>5, <2>1, <2>2 DEF JournalInv
      <3> QED
        BY <1>1, <3>1 DEF JournalInv, Committed
    <2>8. AcceptedInv'
      <3>1. Base = ckpt.man
        BY <1>4, Fields DEF WPInv, Types
      <3>2. Base' = Base
        BY <1>1 DEF Base
      <3> QED
        BY <1>1, <2>4, <3>1, <3>2 DEF AcceptedInv
    <2>9. BodiesRetained'
      BY <1>1, <1>4, <1>8, BodiesMove
    <2>10. /\ journal' \in Journals /\ accepted' \in Manifests /\ installs' \in [Ids -> Nat]
           /\ ckpt' \in Checkpoints /\ ckpt'.rev >= 0 /\ \A k \in Ids : installs'[k] = installs[k]
      BY <1>1, <1>4, <1>6
    <2> QED
      BY <1>1, <1>2, <1>3, <1>7, <1>8, <1>10, <2>5, <2>6, <2>7, <2>8, <2>9, <2>10, PendingKeeps
  <1>11. CASE srv.back = "recover" /\ srv' = [srv EXCEPT !.step = "recover", !.id = 0] /\ UNCHANGED <<net, up>>
    <2>1. 0 \in 0 .. MaxPush /\ "recover" \in Steps
      BY PushAssumption DEF Steps
    <2>2. /\ SrvTypes' /\ srv'.kind = "busy" /\ srv'.step = "recover" /\ srv'.op = srv.op /\ srv'.m = srv.m
          /\ srv'.id = 0
      BY <1>4, <1>11, <2>1 DEF SrvTypes, Handlers
    <2>3. SrvInv'
      BY <1>1, <1>2, <1>4, <1>11, <2>2, Shapes
      DEF SrvInv, HandlerInv, AttemptInv, RetainInv, OnAttempt, AttemptSteps
    <2>4. UNCHANGED <<up, late, ans>>
      BY <1>11 DEF net
    <2>5. NetTypes' /\ Waiting' \subseteq Waiting \cup {None}
      BY <1>1, <2>2, <2>4, QuietNet
    <2>6. AnswerInv'
      BY <1>1, <1>2, <1>3, <1>5, <1>11, <2>4, PendingAnswer
    <2> QED
      BY <1>5, <1>10, <1>11, <2>2, <2>3, <2>5, <2>6
  <1>12. CASE srv.back = "answer" /\ Reply([kind |-> "receipt", refused |-> att[i].refused])
    <2>1. /\ srv' = None /\ NetTypes' /\ SrvTypes' /\ SrvInv' /\ Waiting' \subseteq Waiting \cup {None}
          /\ ans' = ans \/ (ans' = [kind |-> "receipt", refused |-> att[i].refused] /\ srv.m = req /\ req # None)
          /\ srv'.kind # "busy"
      BY <1>1, <1>12, ReplyFacts, Shapes
    <2>2. ASSUME ans' # ans PROVE AnswerInv'
      <3>1. req \in ApplyMsgs /\ req.id = i
        BY <1>5, <1>12, <2>1, <2>2
      <3>2. cl.pc = "finish"
        <4>1. cl.pc \in {"idle", "base", "record", "upload", "staged", "finish", "reupload", "forget"}
          BY DEF WPInv, Types, ClientTypes
        <4> QED
          BY <3>1, <4>1, Shapes DEF WPInv, TalkInv, ClientInv, UploadMsg
      <3>3. req = ApplyMsg /\ pend.applying /\ pend.id = i
        BY <3>1, <3>2 DEF WPInv, TalkInv, ClientInv, ApplyMsg
      <3> QED
        BY <1>1, <1>8, <1>9, <2>1, <2>2, <3>3 DEF AnswerInv, RunnerStep, ApplyMsg
    <2>3. CASE att[i].st = "applying"
      <3>1. ans' = ans => AnswerInv'
        BY <1>1, <1>2, <1>3, <2>3, PendingAnswer
      <3> QED
        BY <1>10, <2>1, <2>2, <2>3, <3>1
    <2>4. CASE att[i].st = "done"
      <3>1. att' = att
        BY <1>3, <1>4, <1>6, <2>4 DEF ApplyDone, Attempts
      <3>2. TalkStep
        BY <1>1, <3>1 DEF TalkStep
      <3>3. ans' = ans => AnswerInv'
        BY <3>2, AnswerSame
      <3>4. BodiesRetained'
        BY <1>1, <3>1, BodiesSame
      <3> QED
        BY <1>7, <2>1, <2>2, <3>2, <3>3, <3>4, TalkStepKeeps
    <2> QED
      BY <1>5, <2>3, <2>4
  <1> QED
    BY <1>3, <1>4, <1>5, <1>11, <1>12 DEF ApplyDone

-----------------------------------------------------------------------------
(* Uploads and collection.                                                  *)

\* The attempts a step leaves alone.
LEMMA OtherSame ==
  ASSUME WPInv, UNCHANGED <<pend, told, ckpt, journal, accepted>>, NEW k \in Ids,
         att'[k] = att[k], installs'[k] = installs[k]
  PROVE  AttInv(k)'
  <1>1. AttInv(k)
    BY DEF WPInv, StoreInv
  <1>2. StagedInv(k)' /\ DoneInv(k)' /\ KnownInv(k)'
    BY <1>1 DEF AttInv, StagedInv, DoneInv, KnownInv, Over
  <1>3. ApplyingInv(k)'
    BY <1>1 DEF AttInv, ApplyingInv, Made, HasOutcome, Accept, Committed, Replayed
  <1>4. InstallInv(k)'
    BY <1>1 DEF AttInv, InstallInv, Installed, HasOutcome, Committed
  <1> QED
    BY <1>2, <1>3, <1>4 DEF AttInv

\* InitializeBase: the first checkpoint is the creation, once its bodies are stored.
LEMMA InitializeKeeps ==
  ASSUME WPInv, Initialize
  PROVE  WPInv'
  <1>1. /\ srv.kind = "busy" /\ srv.step = "upload" /\ RunnerStep
        /\ UNCHANGED <<up, late, ans, att, blobs, temps, tree, journal, installs, accepted>>
    BY DEF Initialize, At, RunnerStep, client, net, store, hist
  <1>2. /\ HandlerInv /\ srv \in Handlers(srv.total) /\ srv.op = "upload" /\ ~OnAttempt /\ srv.id = 0
    BY <1>1, HandlerFacts DEF HandlerInv, OnAttempt, AttemptSteps
  <1>3. FileTypes'
    BY <1>1 DEF WPInv, Types, FileTypes
  <1>4. ckpt.rev \in Int /\ Base = (IF ckpt.rev < 0 THEN Creation ELSE ckpt.man)
    BY Fields DEF WPInv, Types, Base
  <1>5. ASSUME Goto("stage"), ckpt'.rev >= 0
        PROVE  /\ SrvTypes' /\ srv'.kind = "busy" /\ srv'.m = srv.m /\ srv'.id = 0 /\ SrvInv'
    <2>1. /\ SrvTypes' /\ srv'.kind = "busy" /\ srv'.step = "stage" /\ srv'.op = srv.op /\ srv'.m = srv.m
          /\ srv'.id = srv.id /\ srv'.back = srv.back
      BY <1>1, <1>5, GotoFacts DEF Steps
    <2>2. SrvInv'
      BY <1>1, <1>2, <1>5, <2>1
      DEF SrvInv, HandlerInv, AttemptInv, RetainInv, OnAttempt, AttemptSteps
    <2> QED
      BY <1>2, <2>1, <2>2
  <1>6. CASE ckpt.rev >= 0 /\ Goto("stage") /\ UNCHANGED ckpt
    <2>1. TalkStep
      BY <1>1, <1>6 DEF TalkStep
    <2>2. BodiesRetained'
      BY <1>1, <1>6, BodiesSame
    <2> QED
      BY <1>1, <1>3, <1>5, <1>6, <2>1, <2>2, MoveKeeps
  <1>7. CASE /\ ckpt.rev < 0 /\ UNCHANGED ckpt
             /\ srv' = [srv EXCEPT !.step = "retain", !.need = Bodies(Creation), !.back = "upload"]
    <2>1. IsFiniteSet(Bodies(Creation)) /\ Bodies(Creation) \subseteq Values
      BY BodiesFinite, Shapes
    <2>2. /\ SrvTypes' /\ srv'.kind = "busy" /\ srv'.step = "retain" /\ srv'.op = "upload" /\ srv'.m = srv.m
          /\ srv'.id = 0 /\ srv'.back = "upload" /\ srv'.need = Bodies(Creation)
      BY <1>2, <1>7, <2>1 DEF SrvTypes, Handlers, Steps
    <2>3. SrvInv'
      BY <1>1, <1>2, <1>7, <2>1, <2>2
      DEF SrvInv, HandlerInv, AttemptInv, RetainInv, OnAttempt, AttemptSteps
    <2>4. TalkStep
      BY <1>1, <1>7 DEF TalkStep
    <2>5. BodiesRetained'
      BY <1>1, <1>7, BodiesSame
    <2> QED
      BY <1>1, <1>3, <2>2, <2>3, <2>4, <2>5, MoveKeeps
  <1>8. CASE /\ ckpt.rev < 0 /\ Bodies(Creation) \subseteq blobs /\ Goto("stage")
             /\ ckpt' = [rev |-> 0, man |-> Creation, last |-> 0]
    <2>1. \A i \in Ids : att[i].st = "none"
      BY <1>4, <1>8 DEF WPInv, StoreInv, AttInv, KnownInv
    <2>2. ckpt'.rev = 0 /\ ckpt'.man = Creation /\ ckpt' \in Checkpoints
      BY <1>8, PushAssumption, Shapes DEF Checkpoints
    <2>3. Base' = Base
      BY <1>4, <1>8, <2>2 DEF Base
    <2>4. /\ SrvTypes' /\ srv'.kind = "busy" /\ srv'.m = srv.m /\ srv'.id = 0 /\ SrvInv'
      BY <1>5, <1>8, <2>2
    <2>5. NetTypes' /\ Waiting' \subseteq Waiting \cup {None}
      BY <1>1, <2>4, QuietNet
    <2>6. ASSUME NEW k \in Ids PROVE AttInv(k)'
      <3>1. AttInv(k) /\ att'[k].st = "none" /\ att[k].st = "none"
        BY <1>1, <2>1 DEF WPInv, StoreInv
      <3> QED
        BY <1>1, <3>1
        DEF AttInv, StagedInv, ApplyingInv, DoneInv, KnownInv, InstallInv, RunnerStep
    <2>7. JournalInv' /\ AcceptedInv'
      <3>1. pend.id # 0 => pend.id \in Ids
        BY Shapes DEF WPInv, Types, ClientTypes, Pends
      <3>2. ~Committed
        BY <2>1, <3>1 DEF WPInv, StoreInv, JournalInv
      <3> QED
        BY <1>1, <2>1, <2>3, <3>2 DEF WPInv, StoreInv, JournalInv, AcceptedInv, Committed
    <2>8. BodiesRetained'
      <3>1. Unfinished' = {} /\ Bodies(ckpt'.man) = Bodies(Creation)
        BY <1>1, <2>1, <2>2 DEF Unfinished, InFlight
      <3> QED
        BY <1>1, <1>8, <3>1 DEF BodiesRetained, Pins
    <2>9. AnswerInv'
      BY <1>1, <2>3 DEF WPInv, AnswerInv, RunnerStep, ApplyMsg
    <2>10. ClientTypes' /\ StoreTypes'
      BY <1>1, <2>2 DEF WPInv, Types, ClientTypes, StoreTypes, RunnerStep
    <2>11. TalkInv'
      <3>1. \A i \in Ids : Untouched(i) =>
              att'[i].st = "none" /\ installs'[i] = 0 /\ (srv'.kind = "busy" => srv'.id # i)
        BY <1>1, <2>4, Shapes DEF Untouched
      <3>2. att' = att
        BY <1>1
      <3> QED
        BY <1>1, <2>3, <2>5, <3>1, <3>2, TalkKeeps DEF RunnerStep
    <2> QED
      BY <1>3, <2>4, <2>5, <2>6, <2>7, <2>8, <2>9, <2>10, <2>11 DEF WPInv, Types, StoreInv
  <1> QED
    BY <1>4, <1>6, <1>7, <1>8 DEF Initialize

\* An attempt appears or goes that is not applied and not the one the client waits for.
LEMMA AttemptSwap ==
  ASSUME WPInv, srv.kind = "busy", RunnerStep, UNCHANGED <<ckpt, journal, installs, accepted, blobs>>,
         NEW i \in Ids, NEW a \in Attempts \cup {NoAttempt}, att' = [att EXCEPT ![i] = a],
         att[i].st # "applying", a.st # "applying", i = pend.id => att[i].st # "done",
         Untouched(i) => a.st = "none",
         \A m \in Waiting' : m.kind = "upload" /\ m.id = i => att[i].st # "done",
         FileTypes', NetTypes', SrvTypes', Waiting' \subseteq Waiting \cup {None}, srv'.kind = "busy" => srv'.id = 0,
         ans' = ans \/ (req # None /\ ans'.kind \notin {"manifest", "receipt"}), AttInv(i)', SrvInv'
  PROVE  WPInv'
  <1>1. att \in [Ids -> Attempts \cup {NoAttempt}] /\ pend.id \in Ids \cup {0}
    BY Shapes DEF WPInv, Types, StoreTypes, ClientTypes, Pends
  <1>2. att'[i] = a /\ \A k \in Ids : k # i => att'[k] = att[k]
    BY <1>1
  <1>3. ClientTypes' /\ StoreTypes'
    <2>1. att' \in [Ids -> Attempts \cup {NoAttempt}]
      BY <1>1
    <2> QED
      BY <2>1 DEF WPInv, Types, ClientTypes, StoreTypes, RunnerStep
  <1>4. ASSUME NEW k \in Ids PROVE AttInv(k)'
    <2>1. CASE k = i
      BY <2>1
    <2>2. CASE k # i
      BY <1>2, <2>2, OtherSame DEF RunnerStep
    <2> QED
      BY <2>1, <2>2
  <1>5. Base' = Base
    BY DEF Base
  <1>6. JournalInv'
    <2>1. Committed => pend.id \in Ids /\ pend.id # i
      BY <1>1 DEF WPInv, StoreInv, JournalInv
    <2> QED
      BY <1>2, <2>1 DEF WPInv, StoreInv, JournalInv, Committed, RunnerStep
  <1>7. AcceptedInv'
    <2>1. (\A k \in Ids : att'[k].st # "applying") => \A k \in Ids : att[k].st # "applying"
      BY <1>2
    <2> QED
      BY <1>5, <2>1 DEF WPInv, StoreInv, AcceptedInv
  <1>8. BodiesRetained'
    <2>1. Unfinished' = Unfinished /\ \A k \in Unfinished : att'[k] = att[k]
      BY <1>2 DEF Unfinished, InFlight
    <2>2. {Remote(att[k])' : k \in Unfinished'} = {Remote(att[k]) : k \in Unfinished}
      BY <2>1 DEF Remote
    <2>3. Pins' = Pins
      BY <2>2 DEF Pins
    <2> QED
      BY <2>3 DEF WPInv, BodiesRetained
  <1>9. AnswerInv'
    <2>1. ans.kind = "receipt" => pend.id # i /\ pend.id \in Ids
      <3>1. pend.applying => pend.id # 0
        BY DEF WPInv, TalkInv, PendInv
      <3> QED
        BY <1>1, <3>1 DEF WPInv, AnswerInv
    <2> QED
      BY <1>2, <1>5, <2>1 DEF WPInv, AnswerInv, RunnerStep, ApplyMsg
  <1>10. TalkInv'
    <2>1. \A j \in Ids : Untouched(j) =>
            att'[j].st = "none" /\ installs'[j] = 0 /\ (srv'.kind = "busy" => srv'.id # j)
      <3>1. \A j \in Ids : Untouched(j) => att[j].st = "none" /\ installs[j] = 0 /\ j # 0
        BY Shapes DEF Untouched
      <3> QED
        BY <1>2, <3>1
    <2>2. pend.id # 0 /\ att[pend.id].st \in {"applying", "done"} => att'[pend.id].st \in {"applying", "done"}
      BY <1>1, <1>2
    <2>3. \A m \in Waiting' : m.kind = "upload" /\ att[m.id].st = "done" => att'[m.id].st = "done"
      <3>1. \A m \in Waiting' : m.kind = "upload" => m \in Msgs
        BY WaitingKinds, Shapes
      <3> QED
        BY <1>2, <3>1, Shapes
    <2> QED
      BY <1>5, <2>1, <2>2, <2>3, TalkKeeps DEF RunnerStep
  <1> QED
    BY <1>3, <1>4, <1>6, <1>7, <1>8, <1>9, <1>10 DEF WPInv, Types, StoreInv

\* StagePrepared: only an identifier without a receipt gets a new attempt.
LEMMA StageKeeps ==
  ASSUME WPInv, Stage
  PROVE  WPInv'
  <1>1. /\ srv.kind = "busy" /\ srv.step = "stage" /\ RunnerStep
        /\ UNCHANGED <<ckpt, blobs, temps, tree, journal, installs, accepted>>
    BY DEF Stage, At, RunnerStep, client, store, hist, Reply, Answer
  <1>2. srv.m \in UploadMsgs /\ ckpt.rev >= 0
    BY <1>1, HandlerFacts DEF HandlerInv
  <1>3. FileTypes'
    BY <1>1 DEF WPInv, Types, FileTypes
  <1>4. PICK ak \in {"error", "changed", "staged"} : Reply([kind |-> ak])
    BY DEF Stage
  <1>5. CASE att' = att
    BY <1>1, <1>3, <1>4, <1>5, FailKeeps DEF TalkStep
  <1>6. CASE att' # att
    <2>1. PICK i \in Ids : i = srv.m.id
      BY <1>2, Shapes
    <2>2. /\ att[i].st = "none" /\ ckpt.man = srv.m.base
          /\ att' = [att EXCEPT ![i] = Staged(ckpt.rev, ckpt.man, srv.m.src)]
      BY <1>6, <2>1 DEF Stage
    <2>3. /\ ckpt.rev \in Nat /\ ckpt.man \in Manifests /\ srv.m.src \in Manifests /\ srv.m.kind = "upload"
      BY <1>2, Fields, Shapes DEF WPInv, Types
    <2>4. PICK a \in Attempts : a = Staged(ckpt.rev, ckpt.man, srv.m.src)
      BY <2>3 DEF Staged, Attempts
    <2>5. a.st = "staged" /\ a.rc = "none" /\ ~a.refused /\ ~a.bound /\ a.src = srv.m.src
      BY <2>4 DEF Staged
    <2>6. att'[i] = a
      BY <2>2, <2>4 DEF WPInv, Types, StoreTypes
    <2>7. srv.m \in Waiting /\ srv.m \in Msgs
      BY <1>1, <1>2, Shapes DEF Waiting
    <2>8. told[i] = "drawn" /\ (i = pend.id => srv.m.src = pend.src) /\ ~Untouched(i)
      <3>1. ~Untouched(i)
        BY <2>1, <2>7 DEF Untouched
      <3>2. MsgInv(srv.m)
        BY <2>7 DEF WPInv, TalkInv
      <3>3. ~Over(i) /\ (i = pend.id => srv.m.src = pend.src)
        BY <2>1, <2>2, <2>3, <3>2 DEF MsgInv
      <3>4. told[i] # "fresh" /\ told[i] \in {"fresh", "drawn", "applied", "refused"}
        BY <3>1 DEF WPInv, TalkInv, FreshInv, Types, ClientTypes
      <3> QED
        BY <3>1, <3>3, <3>4 DEF Over
    <2>9. AttInv(i)'
      <3>1. AttInv(i)
        BY DEF WPInv, StoreInv
      <3> QED
        BY <1>1, <1>2, <2>2, <2>5, <2>6, <2>8, <3>1
        DEF AttInv, StagedInv, ApplyingInv, DoneInv, KnownInv, InstallInv, RunnerStep
    <2>10. /\ srv' = None /\ NetTypes' /\ SrvTypes' /\ SrvInv' /\ Waiting' \subseteq Waiting \cup {None}
           /\ ans' = ans \/ (ans' = [kind |-> ak] /\ req # None)
           /\ srv'.kind # "busy"
      BY <1>1, <1>4, ReplyFacts, Shapes
    <2>11. ans' = ans \/ (req # None /\ ans'.kind \notin {"manifest", "receipt"})
      BY <2>10
    <2> QED
      BY <1>1, <1>3, <2>2, <2>4, <2>5, <2>8, <2>9, <2>10, <2>11, AttemptSwap
  <1> QED
    BY <1>5, <1>6

\* GC: an attempt goes only when its receipt is known or it was never applied.
LEMMA CollectKeeps ==
  ASSUME WPInv, GCCollect
  PROVE  WPInv'
  <1>1. /\ srv.kind = "busy" /\ srv.step = "collect" /\ RunnerStep
        /\ UNCHANGED <<up, late, ans, ckpt, blobs, temps, tree, journal, installs, accepted>>
    BY DEF GCCollect, At, RunnerStep, client, net, store, hist
  <1>2. /\ HandlerInv /\ srv \in Handlers(srv.total) /\ srv.op = "gc" /\ srv.m = None /\ srv.id = 0
    BY <1>1, HandlerFacts DEF HandlerInv, OnAttempt, AttemptSteps
  <1>3. FileTypes'
    BY <1>1 DEF WPInv, Types, FileTypes
  <1>4. CASE Goto("prune") /\ UNCHANGED att
    <2>1. /\ SrvTypes' /\ srv'.kind = "busy" /\ srv'.step = "prune" /\ srv'.op = srv.op /\ srv'.m = srv.m
          /\ srv'.id = srv.id
      BY <1>1, <1>4, GotoFacts DEF Steps
    <2>2. SrvInv'
      BY <1>1, <1>2, <2>1 DEF SrvInv, HandlerInv, AttemptInv, RetainInv, OnAttempt, AttemptSteps
    <2>3. TalkStep
      BY <1>1, <1>4 DEF TalkStep
    <2>4. BodiesRetained'
      BY <1>1, <1>4, BodiesSame
    <2> QED
      BY <1>1, <1>3, <2>1, <2>2, <2>3, <2>4, MoveKeeps
  <1>5. CASE \E i \in Ids : Collectable(i) /\ att' = [att EXCEPT ![i] = NoAttempt] /\ UNCHANGED srv
    <2>1. PICK i \in Ids : Collectable(i) /\ att' = [att EXCEPT ![i] = NoAttempt] /\ UNCHANGED srv
      BY <1>5
    <2>2. /\ att[i].st \in {"staged", "done"} /\ (att[i].st = "done" => att[i].rev + 1 # ckpt.rev)
          /\ \A m \in late \cup {up} : m.kind = "upload" => m.id # i
      BY <2>1, Fields DEF Collectable, WPInv, Types
    <2>3. AttInv(i)
      BY DEF WPInv, StoreInv
    <2>4. att[i].st = "done" => Over(i)
      BY <2>2, <2>3 DEF AttInv, DoneInv
    <2>5. i = pend.id => told[i] = "drawn" /\ att[i].st # "done"
      <3>1. i # 0
        BY Shapes
      <3> QED
        BY <2>4, <3>1 DEF WPInv, TalkInv, PendInv, Over
    <2>6. att'[i] = NoAttempt /\ NoAttempt.st = "none"
      BY <2>1, Shapes DEF WPInv, Types, StoreTypes
    <2>7. AttInv(i)'
      <3>1. installs[i] = (IF told[i] = "applied" THEN 1 ELSE 0)
        <4>1. CASE att[i].st = "staged"
          BY <2>3, <4>1 DEF AttInv, StagedInv, InstallInv
        <4>2. CASE att[i].st = "done"
          BY <2>3, <2>4, <4>2 DEF AttInv, DoneInv, InstallInv, Installed, HasOutcome, Over
        <4> QED
          BY <2>2, <4>1, <4>2
      <3> QED
        BY <1>1, <2>6, <3>1
        DEF AttInv, StagedInv, ApplyingInv, DoneInv, KnownInv, InstallInv, RunnerStep
    <2>8. NetTypes' /\ Waiting' \subseteq Waiting \cup {None} /\ SrvTypes'
      <3>1. SrvTypes'
        BY <1>2, <2>1 DEF SrvTypes, Handlers
      <3> QED
        BY <1>1, <2>1, <3>1, QuietNet
    <2>9. SrvInv'
      BY <1>1, <1>2, <2>1 DEF SrvInv, HandlerInv, AttemptInv, RetainInv, OnAttempt, AttemptSteps
    <2>10. ASSUME NEW m \in Waiting', m.kind = "upload", m.id = i PROVE att[i].st # "done"
      <3>1. m = req
        BY <1>1, <1>2, <2>1, <2>2, <2>10, Shapes DEF Waiting, RunnerStep
      <3>2. cl.pc \in {"idle", "base", "record", "upload", "staged", "finish", "reupload", "forget"}
        BY DEF WPInv, Types, ClientTypes
      <3>3. m = UploadMsg
        BY <2>10, <3>1, <3>2, Shapes DEF WPInv, TalkInv, ClientInv, ApplyMsg
      <3>4. i = pend.id
        BY <2>10, <3>3 DEF UploadMsg
      <3> QED
        BY <2>5, <3>4
    <2>11. /\ NoAttempt \in Attempts \cup {NoAttempt} /\ srv'.kind = "busy" /\ srv'.id = 0
           /\ att[i].st # "applying" /\ NoAttempt.st # "applying"
      BY <1>1, <1>2, <2>1, <2>2, <2>6
    <2> QED
      BY <1>1, <1>3, <2>1, <2>5, <2>6, <2>7, <2>8, <2>9, <2>10, <2>11, AttemptSwap
  <1> QED
    BY <1>4, <1>5 DEF GCCollect

-----------------------------------------------------------------------------
\* Every behaviour keeps the invariant: every repetition, delay and death.
THEOREM PushInvariance == Spec => []WPInv
  <1>1. Init => WPInv
    <2>1. SUFFICES ASSUME Init PROVE WPInv
      OBVIOUS
    <2>2. /\ pend = NoPend /\ copies = {} /\ cl = Idle /\ req = None /\ late = {} /\ ans = None /\ up = None
          /\ srv = None /\ ckpt = [rev |-> -1] /\ att = [i \in Ids |-> NoAttempt] /\ blobs = {} /\ temps = 0
          /\ tree = Creation /\ journal = None /\ installs = [i \in Ids |-> 0] /\ accepted = Creation
          /\ told = [i \in Ids |-> "fresh"]
      BY <2>1 DEF Init
    <2>3. ClientTypes /\ NetTypes
      BY <2>2, Shapes DEF ClientTypes, NetTypes
    <2>4. StoreTypes
      BY <2>2, Shapes DEF StoreTypes, Checkpoints, Journals
    <2>5. FileTypes /\ SrvTypes /\ SrvInv
      BY <2>2, PushAssumption, Shapes DEF FileTypes, SrvTypes, SrvInv
    <2>6. Waiting = {None} /\ srv.kind # "busy"
      BY <2>2, Shapes DEF Waiting
    <2>7. \A i \in Ids : Untouched(i) /\ told[i] = "fresh" /\ att[i].st = "none" /\ installs[i] = 0
      BY <2>2, <2>6, Shapes DEF Untouched
    <2>8. TalkInv
      <3>1. FreshInv
        BY <2>7 DEF FreshInv
      <3>2. PendInv /\ ClientInv /\ RecordInv
        BY <2>2, Shapes DEF PendInv, ClientInv, RecordInv
      <3>3. \A m \in Waiting : MsgInv(m)
        BY <2>6, Shapes DEF MsgInv
      <3> QED
        BY <3>1, <3>2, <3>3 DEF TalkInv
    <2>9. StoreInv
      <3>1. ASSUME NEW i \in Ids PROVE AttInv(i)
        BY <2>7 DEF AttInv, StagedInv, ApplyingInv, DoneInv, KnownInv, InstallInv
      <3>2. JournalInv
        BY <2>2, Shapes DEF JournalInv, Committed
      <3>3. Base = Creation
        BY <2>2 DEF Base
      <3>4. AcceptedInv
        BY <2>2, <3>3 DEF AcceptedInv
      <3> QED
        BY <3>1, <3>2, <3>4 DEF StoreInv
    <2>10. AnswerInv /\ BodiesRetained
      <3>1. ~(ckpt.rev >= 0)
        BY <2>2
      <3> QED
        BY <2>2, <3>1, Shapes DEF AnswerInv, BodiesRetained
    <2> QED
      BY <2>3, <2>4, <2>5, <2>8, <2>9, <2>10 DEF WPInv, Types
  <1>2. WPInv /\ [Next]_vars => WPInv'
    <2>1. SUFFICES ASSUME WPInv, [Next]_vars PROVE WPInv'
      OBVIOUS
    <2>2. CASE PushResume \/ PushStart \/ PushReuploaded \/ PushForget \/ PushPrepared \/ PushRecord
               \/ PushUploaded \/ PushStaged \/ PushFinish \/ PushLost
      BY <2>1, <2>2, SendsKeep, PreparedKeeps, RecordKeeps, UploadedKeeps, StagedKeeps, FinishKeeps, LostKeeps
    <2>3. CASE UploadBegin \/ UploadAbort \/ UploadLock \/ Lock \/ GCLock \/ Crash \/ Recover \/ BaseAnswer
      BY <2>1, <2>3, LocksKeep, RecoverKeeps, BaseKeeps
    <2>4. CASE Initialize \/ Stage \/ ApplyRequest \/ ApplyBegin \/ Retain \/ RetainRename \/ RetainRecord
      BY <2>1, <2>4, InitializeKeeps, StageKeeps, ApplyRequestKeeps, ApplyBeginKeeps, RetainKeeps
    <2>5. CASE MarkApplying \/ TargetApply \/ RecoverTransfer \/ FinishTransfer \/ Install \/ Advance \/ ApplyDone
      BY <2>1, <2>5, MarkKeeps, ReceiptStepsKeep, InstallKeeps, AdvanceKeeps, ApplyDoneKeeps
    <2>6. CASE GCCollect \/ GCPrune \/ GCSweep \/ JobEdit
      BY <2>1, <2>6, CollectKeeps, PruneKeeps
    <2>7. CASE UNCHANGED vars
      <3>1. /\ UNCHANGED <<pend, copies, cl, req, late, ans, up, srv, ckpt, att, blobs, temps, tree, journal>>
            /\ UNCHANGED <<installs, accepted, told>>
        BY <2>7 DEF vars, client, net, store, hist
      <3>2. StoreTypes' /\ FileTypes' /\ SrvTypes' /\ BodiesRetained' /\ SrvInv'
        BY <2>1, <3>1, RunnerSame
      <3>3. StoreInv'
        BY <2>1, <3>1, StoreSame DEF WPInv
      <3>4. ClientTypes' /\ NetTypes'
        BY <2>1, <3>1 DEF WPInv, Types, ClientTypes, NetTypes
      <3>5. Waiting' = Waiting /\ Base' = Base
        BY <3>1 DEF Waiting, Base
      <3>6. TalkInv'
        <4>1. \A i \in Ids : Untouched(i) =>
                att'[i].st = "none" /\ installs'[i] = 0 /\ (srv'.kind = "busy" => srv'.id # i)
          BY <3>1 DEF Untouched
        <4> QED
          BY <2>1, <3>1, <3>5, <4>1, TalkKeeps
      <3>7. AnswerInv'
        BY <2>1, <3>1, <3>5 DEF WPInv, AnswerInv, ApplyMsg
      <3> QED
        BY <3>2, <3>3, <3>4, <3>6, <3>7 DEF WPInv, Types
    <2> QED
      BY <2>1, <2>2, <2>3, <2>4, <2>5, <2>6, <2>7 DEF Next
  <1> QED
    BY <1>1, <1>2, PTL DEF Spec

-----------------------------------------------------------------------------
(* The record of the store's size.                                         *)

\* While bodies are inserted the handler knows the size to record afterwards, and
\* while they are inserted or removed there is no record.
UsageInv ==
  /\ IsFiniteSet(blobs) /\ UsageExact
  /\ At("rename") => /\ srv.total = Bytes(blobs \cup srv.need)
                     /\ srv.need \ blobs # {} => usage = -1
  /\ At("sweep") => usage = -1

\* The bytes of a store: a number, and the sum over two parts of it.
LEMMA BytesOf ==
  ASSUME NEW bs \in SUBSET Nat, IsFiniteSet(bs)
  PROVE  IsFiniteSet(UNION {{b} \X (1 .. b) : b \in bs}) /\ Bytes(bs) \in Nat
  <1> DEFINE f == [b \in bs |-> {b} \X (1 .. b)]
             T == {{b} \X (1 .. b) : b \in bs}
  <1>1. f \in Surjection(bs, T)
    BY DEF Surjection
  <1>2. IsFiniteSet(T)
    BY <1>1, FS_Surjection
  <1>3. ASSUME NEW t \in T PROVE IsFiniteSet(t)
    <2>1. PICK b \in bs : t = {b} \X (1 .. b)
      OBVIOUS
    <2>2. IsFiniteSet({b})
      BY FS_Singleton, Zenon
    <2>3. IsFiniteSet(1 .. b)
      <3>1. 1 \in Int /\ b \in Int
        OBVIOUS
      <3> QED BY <3>1, FS_Interval, Zenon
    <2> QED BY <2>1, <2>2, <2>3, FS_Product
  <1>4. IsFiniteSet(UNION T)
    BY <1>2, <1>3, FS_UNION
  <1> QED BY <1>4, FS_CardinalityType DEF Bytes
LEMMA DisjointCardinality ==
  ASSUME NEW A, NEW B, IsFiniteSet(A), IsFiniteSet(B), A \cap B = {}
  PROVE  Cardinality(A \cup B) = Cardinality(A) + Cardinality(B)
  <1>1. Cardinality(A \cup B) = Cardinality(A) + Cardinality(B) - Cardinality(A \cap B)
    BY FS_Union, Zenon
  <1>2. Cardinality(A \cap B) = 0
    BY FS_EmptySet
  <1>3. Cardinality(A) \in Nat /\ Cardinality(B) \in Nat
    BY FS_CardinalityType
  <1> QED BY <1>1, <1>2, <1>3

LEMMA BytesAdd ==
  ASSUME NEW bs \in SUBSET Nat, IsFiniteSet(bs), NEW cs \in SUBSET Nat, IsFiniteSet(cs), bs \cap cs = {}
  PROVE  Bytes(bs \cup cs) = Bytes(bs) + Bytes(cs)
  <1> DEFINE U(s) == UNION {{b} \X (1 .. b) : b \in s}
  <1>1. U(bs \cup cs) = U(bs) \cup U(cs)
    OBVIOUS
  <1>2. U(bs) \cap U(cs) = {}
    <2>1. ASSUME NEW p \in U(bs) \cap U(cs) PROVE FALSE
      <3>1. PICK b \in bs : p \in {b} \X (1 .. b)
        OBVIOUS
      <3>2. PICK c \in cs : p \in {c} \X (1 .. c)
        OBVIOUS
      <3> QED BY <3>1, <3>2
    <2> QED BY <2>1
  <1>3. IsFiniteSet(U(bs)) /\ IsFiniteSet(U(cs))
    BY BytesOf
  <1> HIDE DEF U
  <1>6. Cardinality(U(bs) \cup U(cs)) = Cardinality(U(bs)) + Cardinality(U(cs))
    BY <1>2, <1>3, DisjointCardinality
  <1> QED BY <1>1, <1>6 DEF Bytes, U

LEMMA UsageFrame ==
  ASSUME UsageInv, UNCHANGED <<usage, blobs>>,
         srv' = srv \/ (srv'.kind = "busy" => srv'.step \notin {"rename", "sweep"})
  PROVE  UsageInv'
  BY DEF UsageInv, UsageExact, At

\* A step of the client or of an admission, and the end of an operation.
LEMMA UsageKept ==
  ASSUME UsageInv, UNCHANGED store, srv' = srv \/ srv' = None
  PROVE  UsageInv'
  BY UsageFrame DEF store, None

LEMMA SrvRecord == ASSUME WPInv, srv.kind = "busy" PROVE srv \in Handlers(srv.total)
  BY DEF WPInv, Types, SrvTypes, None

\* A step of the handler that stays away from the store.
LEMMA UsageGoto ==
  ASSUME WPInv, UsageInv, UNCHANGED store, srv.kind = "busy",
         NEW step \in Steps \ {"rename", "sweep"},
         \/ Goto(step)
         \/ \E i : srv' = [srv EXCEPT !.step = step, !.id = i]
         \/ \E i, b : srv' = [srv EXCEPT !.step = step, !.id = i, !.back = b]
         \/ \E n : srv' = [srv EXCEPT !.step = step, !.need = n]
         \/ \E n, b : srv' = [srv EXCEPT !.step = step, !.need = n, !.back = b]
  PROVE  UsageInv'
  <1>1. srv \in Handlers(srv.total)
    BY SrvRecord
  <1>2. srv'.step = step
    BY <1>1 DEF Goto, Handlers
  <1> QED
    BY <1>2, UsageFrame DEF store

LEMMA RetainUsage == ASSUME WPInv, UsageInv, Retain PROVE UsageInv'
  <1>1. srv \in Handlers(srv.total) /\ IsFiniteSet(srv.need)
    BY DEF WPInv, Types, SrvTypes, None, Retain, At, SrvInv, RetainInv
  <1>2. srv.need \in SUBSET Nat /\ blobs \in SUBSET Nat /\ IsFiniteSet(blobs)
    BY <1>1, PushAssumption DEF Handlers, WPInv, Types, FileTypes, UsageInv
  <1>3. IsFiniteSet(srv.need \ blobs) /\ srv.need \ blobs \in SUBSET Nat
    BY <1>1, <1>2, FS_Difference
  <1>4. Bytes(blobs \cup (srv.need \ blobs)) = Bytes(blobs) + Bytes(srv.need \ blobs)
    BY <1>2, <1>3, BytesAdd
  <1>5. blobs \cup (srv.need \ blobs) = blobs \cup srv.need
    OBVIOUS
  <1>6. CASE Fail /\ UNCHANGED <<usage, blobs>>
    BY <1>6, UsageFrame DEF Fail, Reply, None
  <1>7. CASE /\ usage' = DropUsage(srv.need \ blobs) /\ blobs' = blobs
             /\ srv' = [srv EXCEPT !.step = "rename",
                                   !.total = (IF usage >= 0 THEN usage ELSE Bytes(blobs)) + Bytes(srv.need \ blobs)]
    <2>1. srv'.step = "rename" /\ srv'.need = srv.need
      BY <1>1, <1>7 DEF Handlers
    <2>2. srv'.total = Bytes(blobs) + Bytes(srv.need \ blobs)
      BY <1>1, <1>7 DEF Handlers, UsageInv, UsageExact
    <2> QED
      BY <1>2, <1>4, <1>5, <1>7, <2>1, <2>2 DEF UsageInv, UsageExact, DropUsage, At
  <1> QED
    BY <1>6, <1>7 DEF Retain

LEMMA RenameUsage == ASSUME WPInv, UsageInv, RetainRename PROVE UsageInv'
  <1>1. PICK b \in srv.need \ blobs : blobs' = blobs \cup {b}
    BY DEF RetainRename
  <1>2. IsFiniteSet(blobs')
    BY <1>1, FS_AddElement DEF UsageInv
  <1>3. blobs' \cup srv.need = blobs \cup srv.need
    BY <1>1
  <1> QED
    BY <1>1, <1>2, <1>3 DEF UsageInv, UsageExact, RetainRename, At

LEMMA RecordUsage == ASSUME WPInv, UsageInv, RetainRecord PROVE UsageInv'
  <1>1. srv \in Handlers(srv.total)
    BY DEF WPInv, Types, SrvTypes, None, RetainRecord, At
  <1>2. srv'.step \in {"upload", "mark"}
    BY <1>1 DEF RetainRecord, Goto, Handlers
  <1>3. blobs \cup srv.need = blobs
    BY DEF RetainRecord
  <1>4. blobs \in SUBSET Nat
    BY PushAssumption DEF WPInv, Types, FileTypes
  <1>5. Bytes(blobs) \in Nat
    BY <1>4, BytesOf DEF UsageInv
  <1> QED
    BY <1>2, <1>3, <1>5 DEF UsageInv, UsageExact, RetainRecord, At

LEMMA PruneUsage == ASSUME WPInv, UsageInv, GCPrune PROVE UsageInv'
  <1>1. srv \in Handlers(srv.total)
    BY DEF WPInv, Types, SrvTypes, None, GCPrune, At
  <1>2. CASE srv' = None /\ usage' = usage
    BY <1>2, UsageFrame DEF GCPrune, None
  <1>3. CASE usage' = -1 /\ Goto("sweep")
    <2>1. srv'.step = "sweep"
      BY <1>1, <1>3 DEF Goto, Handlers
    <2> QED
      BY <1>3, <2>1 DEF UsageInv, UsageExact, GCPrune, At
  <1> QED
    BY <1>2, <1>3 DEF GCPrune

LEMMA SweepUsage == ASSUME WPInv, UsageInv, GCSweep PROVE UsageInv'
  <1>1. CASE srv' = None /\ blobs' = blobs
    BY <1>1, UsageFrame DEF GCSweep, None
  <1>2. CASE srv' = srv /\ \E b \in blobs \ Pins : blobs' = blobs \ {b}
    <2>1. IsFiniteSet(blobs')
      BY <1>2, FS_Difference DEF UsageInv
    <2> QED
      BY <1>2, <2>1 DEF UsageInv, UsageExact, GCSweep, At
  <1> QED
    BY <1>1, <1>2 DEF GCSweep

LEMMA ApplyUsage ==
  ASSUME WPInv, UsageInv, UNCHANGED store, Install \/ Advance \/ ApplyDone \/ ApplyBegin \/ ApplyRequest
  PROVE  UsageInv'
  <1>1. srv.kind = "busy" /\ {"target", "done", "recover", "retain", "apply"} \subseteq Steps \ {"rename", "sweep"}
    BY DEF Install, Advance, ApplyDone, ApplyBegin, ApplyRequest, At, Steps, AttemptSteps
  <1>2. CASE srv' = srv \/ srv' = None
    BY <1>2, UsageKept
  <1>3. CASE Goto("target") \/ Goto("done")
    BY <1>1, <1>3, UsageGoto
  <1>4. CASE srv' = [srv EXCEPT !.step = "recover", !.id = 0]
    BY <1>1, <1>4, UsageGoto
  <1>5. CASE srv' = [srv EXCEPT !.step = "retain", !.need = Remote(Applying)]
    BY <1>1, <1>5, UsageGoto
  <1>6. CASE srv' = [srv EXCEPT !.id = srv.m.id, !.back = "answer"] /\ srv.step = "apply"
    <2>1. srv \in Handlers(srv.total)
      BY <1>1 DEF WPInv, Types, SrvTypes, None
    <2>2. srv'.step = "apply"
      BY <1>6, <2>1 DEF Handlers
    <2> QED
      BY <2>2, UsageFrame DEF store
  <1> QED
    BY <1>2, <1>3, <1>4, <1>5, <1>6 DEF Install, Advance, ApplyDone, ApplyBegin, ApplyRequest, Fail, Reply, At

\* Every behaviour keeps the record of the size exact: TransferBlobStore.Retain, Prune.
THEOREM UsageInvariance == Spec => []UsageInv
  <1>1. Init => UsageInv
    BY FS_EmptySet DEF Init, UsageInv, UsageExact, At, None
  <1>2. ASSUME WPInv, UsageInv, [Next]_vars PROVE UsageInv'
    <2>1. CASE UNCHANGED vars
      BY <2>1, <1>2, UsageKept DEF vars
    <2>2. CASE PushResume \/ PushStart \/ PushPrepared \/ PushRecord \/ PushUploaded \/ PushStaged
               \/ PushFinish \/ PushForget \/ PushReuploaded \/ PushLost
      <3>1. UNCHANGED store /\ srv' = srv
        BY <2>2 DEF PushResume, PushStart, PushPrepared, PushRecord, PushUploaded, PushStaged,
                    PushFinish, PushForget, PushReuploaded, PushLost
      <3> QED BY <1>2, <3>1, UsageKept
    <2>3. CASE UploadBegin \/ UploadAbort \/ RecoverTransfer \/ FinishTransfer \/ JobEdit \/ BaseAnswer \/ Stage
      <3>1. UNCHANGED store /\ (srv' = srv \/ srv' = None)
        BY <2>3 DEF UploadBegin, UploadAbort, RecoverTransfer, FinishTransfer, JobEdit, BaseAnswer, Stage, Reply
      <3> QED BY <1>2, <3>1, UsageKept
    <2>4. CASE UploadLock \/ Lock \/ GCLock \/ Crash
      <3>1. UNCHANGED store /\ srv'.step \in {"recover", "collect"}
        <4>1. GCLock => srv'.step = "collect"
          BY DEF GCLock, Handler
        <4>2. ASSUME NEW op, NEW m, srv' = Handler(op, m) PROVE srv'.step = "recover"
          BY <4>2 DEF Handler
        <4>3. UploadLock \/ Lock \/ Crash => srv'.step = "recover"
          BY <4>2 DEF UploadLock, Lock, Crash
        <4>4. UNCHANGED store
          BY <2>4 DEF UploadLock, Lock, GCLock, Crash
        <4> QED BY <2>4, <4>1, <4>3, <4>4
      <3> QED BY <1>2, <3>1, UsageFrame DEF store
    <2>5. CASE Recover \/ Initialize
      <3>1. UNCHANGED store /\ srv.kind = "busy"
        BY <2>5 DEF Recover, Initialize, At
      <3>2. {"apply", "stage", "retain"} \subseteq Steps \ {"rename", "sweep"}
        BY DEF Steps
      <3>3. srv.op \in Steps \ {"rename", "sweep"} \/ srv.op \in {"boot", "gc"}
        BY <1>2, <3>1, SrvRecord DEF Handlers, Steps
      <3>4. CASE srv' = None
        BY <1>2, <3>1, <3>4, UsageKept
      <3>5. CASE Recover /\ srv' # None
        <4>1. srv.op # "gc"
          BY <1>2, <3>1, <3>5 DEF WPInv, SrvInv, HandlerInv, Recover, At
        <4>2. CASE srv' = [srv EXCEPT !.step = "apply", !.id = Min(Unfinished), !.back = "recover"]
          BY <1>2, <3>1, <3>2, <4>2, UsageGoto
        <4>3. CASE srv.op # "boot" /\ Goto(srv.op)
          BY <1>2, <3>1, <3>3, <4>1, <4>3, UsageGoto
        <4> QED BY <3>5, <4>2, <4>3 DEF Recover, Goto
      <3>6. CASE Initialize
        <4>1. CASE Goto("stage")
          BY <1>2, <3>1, <3>2, <4>1, UsageGoto
        <4>2. CASE srv' = [srv EXCEPT !.step = "retain", !.need = Bodies(Creation), !.back = "upload"]
          BY <1>2, <3>1, <3>2, <4>2, UsageGoto
        <4> QED BY <3>6, <4>1, <4>2 DEF Initialize
      <3> QED BY <2>5, <3>4, <3>5, <3>6
    <2>6. CASE Install \/ Advance \/ ApplyDone \/ ApplyBegin \/ ApplyRequest
      <3>1. UNCHANGED store
        BY <2>6 DEF Install, Advance, ApplyDone, ApplyBegin, ApplyRequest
      <3> QED BY <1>2, <2>6, <3>1, ApplyUsage
    <2>7. CASE MarkApplying \/ TargetApply \/ GCCollect
      <3>1. UNCHANGED store /\ srv.kind = "busy"
        BY <2>7 DEF MarkApplying, TargetApply, GCCollect, At
      <3>2. {"target", "install", "advance", "prune"} \subseteq Steps \ {"rename", "sweep"}
        BY DEF Steps, AttemptSteps
      <3>3. srv' = srv \/ Goto("target") \/ Goto("install") \/ Goto("advance") \/ Goto("prune")
        BY <2>7 DEF MarkApplying, TargetApply, GCCollect
      <3> QED BY <1>2, <3>1, <3>2, <3>3, UsageGoto, UsageKept
    <2>8. CASE Retain \/ RetainRename \/ RetainRecord \/ GCPrune \/ GCSweep
      BY <1>2, <2>8, RetainUsage, RenameUsage, RecordUsage, PruneUsage, SweepUsage
    <2> QED
      BY <1>2, <2>1, <2>2, <2>3, <2>4, <2>5, <2>6, <2>7, <2>8 DEF Next
  <1> QED
    BY <1>1, <1>2, PushInvariance, PTL DEF Spec

-----------------------------------------------------------------------------
\* A push is installed at most once, and the client is told the truth of its receipt:
\* TransferSession.Apply and TransferTarget.Apply over repeated and late requests.
THEOREM PushesOnce == Spec => []PushedOnce
  <1>1. WPInv => PushedOnce
    <2>1. SUFFICES ASSUME WPInv, NEW i \in Ids
                   PROVE  /\ installs[i] <= 1
                          /\ told[i] = "applied" => installs[i] = 1
                          /\ told[i] = "refused" => installs[i] = 0
      BY DEF PushedOnce
    <2>2. AttInv(i) /\ att[i].st \in {"none", "staged", "applying", "done"}
      BY <2>1, Fields DEF WPInv, Types, StoreInv
    <2>3. CASE att[i].st \in {"none", "staged"}
      BY <2>2, <2>3 DEF AttInv, StagedInv, InstallInv
    <2>4. CASE att[i].st = "applying"
      <3>1. told[i] = "drawn"
        BY <2>1, <2>2, <2>4, Shapes DEF AttInv, ApplyingInv, WPInv, TalkInv, PendInv
      <3>2. installs[i] \in {0, 1}
        BY <2>2, <2>4 DEF AttInv, InstallInv
      <3> QED
        BY <3>1, <3>2
    <2>5. CASE att[i].st = "done"
      <3>1. installs[i] = (IF att[i].refused THEN 0 ELSE 1)
        BY <2>2, <2>5 DEF AttInv, DoneInv, InstallInv, Installed, HasOutcome
      <3> QED
        BY <2>2, <2>5, <3>1 DEF AttInv, DoneInv
    <2> QED
      BY <2>2, <2>3, <2>4, <2>5
  <1> QED
    BY <1>1, PushInvariance, PTL

\* The base of the next merge is the accepted source, with every body it names, in a
\* store whose recorded size is exact:
\* checkpoint.go Advance, transfer_blobs.go Retain and Prune.
THEOREM CheckpointIsSound == Spec => []CheckpointSound
  <1>1. WPInv /\ UsageInv => CheckpointSound
    <2>1. SUFFICES ASSUME WPInv, UsageInv PROVE CheckpointSound
      OBVIOUS
    <2>2. PushTypeOK
      BY <2>1, Fields DEF WPInv, Types, StoreTypes, ClientTypes, FileTypes, PushTypeOK
    <2>3. CheckpointAccepted
      <3>1. ckpt.rev >= 0 => Base = ckpt.man
        BY <2>1, Fields DEF WPInv, Types
      <3>2. Unfinished = {} => accepted = Base
        BY <2>1 DEF WPInv, StoreInv, AcceptedInv, Unfinished, InFlight
      <3> QED
        BY <3>1, <3>2 DEF CheckpointAccepted
    <2> QED
      BY <2>1, <2>2, <2>3 DEF CheckpointSound, WPInv, UsageInv
  <1> QED
    BY <1>1, PushInvariance, UsageInvariance, PTL

\* Repeating an interrupted push completes it: push.go finishPush.
THEOREM PushesAreRecoverable == Spec => []PushRecoverable
  <1>1. WPInv => PushRecoverable
    <2>1. SUFFICES ASSUME WPInv, pend.id # 0 PROVE PushRecoverable
      BY DEF PushRecoverable
    <2>2. pend.id \in Ids
      BY <2>1, Shapes DEF WPInv, Types, ClientTypes, Pends
    <2>3. AttInv(pend.id) /\ PendInv
      BY <2>1, <2>2 DEF WPInv, StoreInv, TalkInv
    <2> QED
      BY <2>1, <2>2, <2>3 DEF PushRecoverable, PendInv, AttInv, KnownInv
  <1> QED
    BY <1>1, PushInvariance, PTL
=============================================================================
