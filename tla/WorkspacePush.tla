--------------------------- MODULE WorkspacePush ---------------------------
(***************************************************************************)
(* `errand push`: one originating checkout sends its source tree to a      *)
(* persistent workspace on a runner, over a network that loses answers and *)
(* delays requests, while jobs edit the workspace and both programs die.   *)
(*                                                                         *)
(* The client keeps push.json (`pend`) and a copy of the source it names.  *)
(* The runner keeps, per client, a checkpoint (the source it accepted      *)
(* last), the staged attempts with their receipts, and a store of file     *)
(* bodies with a record of its size.                                       *)
(*                                                                         *)
(* A manifest is a function from Paths to Values; 0 is "no such file" and  *)
(* value v has a body of v bytes.  A file of the workspace also holds Job  *)
(* (an edit by a job), Mix (a clean merge) or Mark (conflict markers).     *)
(* Hashes are the manifests themselves.  Installing a bundle is one step:  *)
(* ApplyJournal shows that it is all or nothing over crashes.              *)
(***************************************************************************)
EXTENDS Integers, FiniteSets, FiniteSetsExt

CONSTANTS Paths, Values,
          MaxPush,       \* push identifiers the client may draw
          MaxCrash,      \* deaths of the runner and of the client together
          MaxOdds,       \* edits by jobs and requests that arrive late, together
          Capacities,    \* capacities the store of bodies may be configured with
          Creation       \* the manifest the workspace was created with

ASSUME PushAssumption == /\ Values \subseteq Nat /\ IsFiniteSet(Paths)
                         /\ MaxPush \in Nat /\ MaxCrash \in Nat
                         /\ MaxOdds \in Nat /\ Capacities \subseteq Nat
                         /\ Creation \in [Paths -> Values]

VARIABLES
  pend,      \* push.json
  copies,    \* push-sources: identifiers with a private source copy
  cl,        \* the client program
  req,       \* the request the client waits for
  late,      \* requests whose client stopped waiting, still on the way
  ans,       \* the answer to the client's request
  up,        \* the admitted upload: outside the workspace's lock
  srv,       \* the operation under the workspace's lock
  ckpt,      \* checkpoint.json
  att,       \* attempts/<id>: attempt.json, bundle.json, receipt.json
  blobs, temps, usage,  \* the body store: bodies, insertion files, .usage
  cap,       \* its capacity
  tree,      \* the workspace's files
  journal,   \* a committed apply transaction in the workspace
  crashes, odds,
  installs, accepted, told   \* history: installations, accepted source, results

client == <<pend, copies, cl>>
net    == <<req, late, ans>>
store  == <<blobs, temps, usage, cap>>
hist   == <<installs, accepted, told>>
vars   == <<client, net, up, srv, ckpt, att, store, tree, journal, crashes, odds, hist>>

Ids       == 1 .. MaxPush
Manifests == [Paths -> Values]
None      == [kind |-> "none"]
Job       == -1
Mix       == -2
Mark      == -3

-----------------------------------------------------------------------------
(* Manifests and bodies. *)

Delta(base, src) == {p \in Paths : base[p] # src[p]}
Bodies(m)        == {m[p] : p \in Paths} \ {0}
Remote(a)        == {a.src[p] : p \in Delta(a.base, a.src)} \ {0}

\* A body is named after its size; a byte is one of its offsets.
Bytes(bs) == Cardinality(UNION {{b} \X (1 .. b) : b \in bs})

NoAttempt == [st |-> "none"]
Staged(rev, base, src) ==
  [st |-> "staged", rev |-> rev, base |-> base, src |-> src, sel |-> {},
   mat |-> FALSE, rc |-> "none", out |-> {}, conf |-> {}, refused |-> FALSE, bound |-> FALSE]

InFlight(i)  == att[i].st = "applying"
Unfinished   == {i \in Ids : InFlight(i)}
Pins         == Bodies(Creation)
                  \cup (IF ckpt.rev < 0 THEN {} ELSE Bodies(ckpt.man))
                  \cup UNION {Remote(att[i]) : i \in Unfinished}

-----------------------------------------------------------------------------
(* The client: PushChanges holds the checkout's and the transfer's lock,   *)
(* so one push runs at a time.                                             *)

Idle == [pc |-> "idle"]

NoPend == [id |-> 0, base |-> Creation, src |-> Creation, staged |-> FALSE,
           applying |-> FALSE, sel |-> {}, mat |-> FALSE]

Answered == ans.kind \notin {"none", "working"}

Send(m) == /\ req' = m /\ ans' = None /\ UNCHANGED late

\* The request is not answered: a timeout, a broken connection. A request
\* that was not delivered is lost or still arrives.
GiveUp ==
  /\ req.kind # "none"
  /\ \/ UNCHANGED <<late, odds>>
     \/ /\ req.kind \in {"upload", "apply"} /\ ans.kind = "none"
        /\ odds < MaxOdds /\ odds' = odds + 1
        /\ late' = late \cup {req}
  /\ req' = None /\ ans' = None

\* The checkout's files are whatever the user made of them when a snapshot is
\* taken. A push begins: an interrupted application is finished first.
PushResume ==
  /\ cl.pc = "idle" /\ pend.id # 0 /\ pend.applying
  /\ cl' = [pc |-> "finish", again |-> FALSE]
  /\ Send([kind |-> "apply", id |-> pend.id, sel |-> pend.sel, mat |-> pend.mat])
  /\ UNCHANGED <<pend, copies, up, srv, ckpt, att, store, tree, journal, crashes, odds, hist>>

NextId == IF \A i \in Ids : told[i] # "fresh" THEN 0
          ELSE Min({i \in Ids : told[i] = "fresh"})

\* The snapshot differs from the pending one (or there is none): the client
\* asks for the accepted source. Otherwise it goes on with the pending push.
PrepareNew(src, retry, refresh) ==
  \/ /\ pend.id = 0 \/ pend.src # src \/ refresh
     /\ NextId # 0
     /\ cl' = [pc |-> "base", src |-> src, retry |-> retry]
     /\ Send([kind |-> "base"])
  \/ /\ pend.id # 0 /\ pend.src = src /\ ~refresh /\ ~pend.staged
     /\ cl' = [pc |-> "upload", retry |-> retry]
     /\ Send([kind |-> "upload", id |-> pend.id, base |-> pend.base, src |-> pend.src])
  \/ /\ pend.id # 0 /\ pend.src = src /\ ~refresh /\ pend.staged
     /\ cl' = [pc |-> "staged"]
     /\ UNCHANGED net

PushStart ==
  /\ cl.pc = "idle" /\ ~(pend.id # 0 /\ pend.applying)
  /\ \E src \in Manifests : PrepareNew(src, FALSE, FALSE)
  /\ UNCHANGED <<pend, copies, up, srv, ckpt, att, store, tree, journal, crashes, odds, hist>>

\* The copy is made and verified against the snapshot before push.json names
\* it; older copies go afterwards. A source edited meanwhile ends the push.
PushPrepared ==
  /\ cl.pc = "base" /\ ans.kind = "manifest"
  /\ req' = None /\ ans' = None /\ UNCHANGED late
  /\ \/ cl' = Idle /\ UNCHANGED <<copies, told>>
     \/ /\ copies' = copies \cup {NextId}
        /\ cl' = [pc |-> "record", src |-> cl.src, base |-> ans.man, retry |-> cl.retry]
        /\ told' = [told EXCEPT ![NextId] = "drawn"]
  /\ UNCHANGED <<pend, up, srv, ckpt, att, store, tree, journal, crashes, odds, installs, accepted>>

\* push.json names the new source; then prunePushSources, then the upload.
PushRecord ==
  /\ cl.pc = "record"
  /\ LET i == Max({k \in Ids : told[k] = "drawn"}) IN
       /\ pend' = [NoPend EXCEPT !.id = i, !.base = cl.base, !.src = cl.src]
       /\ copies' = {i}
       /\ cl' = [pc |-> "upload", retry |-> cl.retry]
       /\ Send([kind |-> "upload", id |-> i, base |-> cl.base, src |-> cl.src])
  /\ UNCHANGED <<up, srv, ckpt, att, store, tree, journal, crashes, odds, hist>>

\* A typed rejection, once, prepares the push again from a fresh checkpoint.
PushUploaded ==
  /\ cl.pc = "upload" /\ Answered
  /\ \/ /\ ans.kind = "staged"
        /\ pend' = [pend EXCEPT !.staged = TRUE]
        /\ cl' = [pc |-> "staged"]
        /\ req' = None /\ ans' = None /\ UNCHANGED late
     \/ /\ ans.kind = "changed" /\ ~cl.retry
        /\ \E src \in Manifests : PrepareNew(src, TRUE, TRUE)
        /\ UNCHANGED pend
     \/ /\ (ans.kind = "changed" /\ (cl.retry \/ NextId = 0)) \/ ans.kind = "error"
        /\ cl' = Idle
        /\ req' = None /\ ans' = None /\ UNCHANGED <<late, pend>>
  /\ UNCHANGED <<copies, up, srv, ckpt, att, store, tree, journal, crashes, odds, hist>>

\* Without --apply, or with nothing to apply, the push stays staged.
PushStaged ==
  /\ cl.pc = "staged"
  /\ \/ /\ cl' = Idle /\ UNCHANGED <<pend, net>>
     \/ \E sel \in {Delta(pend.base, pend.src)} \cup {{p} : p \in Delta(pend.base, pend.src)}, mat \in BOOLEAN :
          /\ sel # {}
          /\ pend' = [pend EXCEPT !.applying = TRUE, !.sel = sel, !.mat = mat]
          /\ cl' = [pc |-> "finish", again |-> FALSE]
          /\ Send([kind |-> "apply", id |-> pend.id, sel |-> sel, mat |-> mat])
  /\ UNCHANGED <<copies, up, srv, ckpt, att, store, tree, journal, crashes, odds, hist>>

\* Only a receipt ends the push; only the explicit missing-stage answer
\* permits uploading the same snapshot again, once.
PushFinish ==
  /\ cl.pc = "finish" /\ Answered
  /\ \/ /\ ans.kind = "receipt"
        /\ pend' = NoPend
        /\ told' = [told EXCEPT ![pend.id] = IF ans.refused THEN "refused" ELSE "applied"]
        /\ cl' = [pc |-> "forget", id |-> pend.id]
        /\ req' = None /\ ans' = None /\ UNCHANGED late
     \/ /\ ans.kind = "missing" /\ ~cl.again
        /\ cl' = [pc |-> "reupload"]
        /\ Send([kind |-> "upload", id |-> pend.id, base |-> pend.base, src |-> pend.src])
        /\ UNCHANGED <<pend, told>>
     \/ /\ (ans.kind = "missing" /\ cl.again) \/ ans.kind = "error"
        /\ cl' = Idle
        /\ req' = None /\ ans' = None /\ UNCHANGED <<late, pend, told>>
  /\ UNCHANGED <<copies, up, srv, ckpt, att, store, tree, journal, crashes, odds, installs, accepted>>

PushForget ==
  /\ cl.pc = "forget"
  /\ copies' = copies \ {cl.id}
  /\ cl' = Idle
  /\ UNCHANGED <<pend, net, up, srv, ckpt, att, store, tree, journal, crashes, odds, hist>>

PushReuploaded ==
  /\ cl.pc = "reupload" /\ Answered
  /\ IF ans.kind = "staged"
     THEN /\ cl' = [pc |-> "finish", again |-> TRUE]
          /\ Send([kind |-> "apply", id |-> pend.id, sel |-> pend.sel, mat |-> pend.mat])
     ELSE /\ cl' = Idle
          /\ req' = None /\ ans' = None /\ UNCHANGED late
  /\ UNCHANGED <<pend, copies, up, srv, ckpt, att, store, tree, journal, crashes, odds, hist>>

\* The client stops waiting, or dies between two of its steps.
PushLost ==
  /\ cl.pc # "idle" /\ cl' = Idle
  /\ IF req.kind # "none" THEN GiveUp /\ UNCHANGED crashes
     ELSE crashes < MaxCrash /\ crashes' = crashes + 1 /\ UNCHANGED <<net, odds>>
  /\ UNCHANGED <<pend, copies, up, srv, ckpt, att, store, tree, journal, hist>>

-----------------------------------------------------------------------------
(* The runner.  `srv` is the handler that holds the workspace's lock, its  *)
(* step, and, while an attempt is applied, that attempt and what follows.  *)

Free == srv.kind = "none"

\* A handler takes a request: the waiting client's or a late one.
Take(m) ==
  \/ /\ m = req /\ ans.kind = "none"
     /\ ans' = [kind |-> "working"] /\ UNCHANGED <<req, late>>
  \/ /\ m \in late
     /\ late' = late \ {m} /\ UNCHANGED <<req, ans>>

\* The answer reaches the client only while it waits for this request.
Answer(m, a) ==
  /\ ans' = IF m = req /\ ans.kind = "working" THEN a ELSE ans
  /\ UNCHANGED <<req, late>>

Reply(a) == Answer(srv.m, a) /\ srv' = None /\ up' = IF srv.op = "upload" THEN None ELSE up

Base == IF ckpt.rev < 0 THEN Creation ELSE ckpt.man

Requests == {m \in {req} \cup late : m.kind # "none"}

\* handleWorkspacePush up to the second lock: one upload per workspace, the
\* delta expanded against the checkpoint read under the lock.
UploadBegin ==
  /\ up.kind = "none" /\ Free
  /\ \E m \in Requests :
       /\ m.kind = "upload"
       /\ IF m.base = Base
          THEN Take(m) /\ up' = m
          ELSE /\ up' = up
               /\ \/ /\ m = req /\ ans.kind = "none"
                     /\ ans' = [kind |-> "changed"] /\ UNCHANGED <<req, late>>
                  \/ m \in late /\ late' = late \ {m} /\ UNCHANGED <<req, ans>>
  /\ UNCHANGED <<client, srv, ckpt, att, store, tree, journal, crashes, odds, hist>>

\* The body cannot be read or extracted.
UploadAbort ==
  /\ up.kind # "none" /\ ~(srv.kind # "none" /\ srv.op = "upload")
  /\ Answer(up, [kind |-> "error"]) /\ up' = None
  /\ UNCHANGED <<client, srv, ckpt, att, store, tree, journal, crashes, odds, hist>>

Handler(op, m) == [kind |-> "busy", op |-> op, m |-> m, step |-> "recover", id |-> 0,
                   back |-> "", need |-> {}, total |-> 0]

UploadLock ==
  /\ Free /\ up.kind # "none"
  /\ srv' = Handler("upload", up)
  /\ UNCHANGED <<client, net, up, ckpt, att, store, tree, journal, crashes, odds, hist>>

\* handleWorkspacePushBase and handleWorkspacePushApply hold the lock throughout.
Lock ==
  /\ Free
  /\ \E m \in Requests : /\ m.kind \in {"base", "apply"}
                         /\ Take(m) /\ srv' = Handler(m.kind, m)
  /\ UNCHANGED <<client, up, ckpt, att, store, tree, journal, crashes, odds, hist>>

\* An application in flight and the receipt of the latest revision stay. An
\* attempt is older than any request for its upload that is still on the way.
BugCollectable(i) ==
  /\ att[i].st # "none"
  /\ att[i].st # "applying"
  /\ \A m \in late \cup {up} : m.kind = "upload" => m.id # i

Collectable(i) ==
  /\ att[i].st # "none"
  /\ ~(att[i].st = "applying" \/ (att[i].st = "done" /\ att[i].rev + 1 = ckpt.rev))
  /\ \A m \in late \cup {up} : m.kind = "upload" => m.id # i

\* A collection; one that would find nothing to collect or prune is left out.
GCLock ==
  /\ Free /\ ckpt.rev >= 0
  /\ (\E i \in Ids : Collectable(i)) \/ ~(blobs \subseteq Pins)
  /\ srv' = [Handler("gc", None) EXCEPT !.step = "collect"]
  /\ UNCHANGED <<client, net, up, ckpt, att, store, tree, journal, crashes, odds, hist>>

At(step) == srv.kind = "busy" /\ srv.step = step
Goto(step) == srv' = [srv EXCEPT !.step = step]

\* recoverWorkspacePushes, before every transfer: interrupted applications
\* are finished in order; then the handler goes on.
Recover ==
  /\ At("recover")
  /\ IF Unfinished # {}
     THEN srv' = [srv EXCEPT !.step = "apply", !.id = Min(Unfinished), !.back = "recover"]
     ELSE srv' = IF srv.op = "boot" THEN None ELSE [srv EXCEPT !.step = srv.op]
  /\ UNCHANGED <<client, net, up, ckpt, att, store, tree, journal, crashes, odds, hist>>

BaseAnswer ==
  /\ At("base")
  /\ Reply([kind |-> "manifest", man |-> Base])
  /\ UNCHANGED <<client, ckpt, att, store, tree, journal, crashes, odds, hist>>

\* InitializeBase: the creation's bodies are retained before the checkpoint.
Initialize ==
  /\ At("upload")
  /\ IF ckpt.rev >= 0 THEN Goto("stage") /\ UNCHANGED ckpt
     ELSE IF Bodies(Creation) \subseteq blobs /\ usage >= 0
     THEN ckpt' = [rev |-> 0, man |-> Creation, last |-> 0] /\ Goto("stage")
     ELSE srv' = [srv EXCEPT !.step = "retain", !.need = Bodies(Creation), !.back = "upload"] /\ UNCHANGED ckpt
  /\ UNCHANGED <<client, net, up, att, store, tree, journal, crashes, odds, hist>>

\* StagePrepared: an identifier is reused only for the same snapshot, and an
\* attempt that has not started needs the checkpoint it was prepared from.
Stage ==
  /\ At("stage")
  /\ LET i == srv.m.id  a == att[i] IN
       CASE a.st # "none" /\ a.src # srv.m.src -> Reply([kind |-> "error"]) /\ UNCHANGED att
         [] a.st = "staged" /\ (a.rev # ckpt.rev \/ a.base # ckpt.man \/ a.base # srv.m.base)
              -> Reply([kind |-> "changed"]) /\ UNCHANGED att
         [] a.st = "none" /\ ckpt.man # srv.m.base -> Reply([kind |-> "changed"]) /\ UNCHANGED att
         [] a.st = "none" /\ ckpt.man = srv.m.base
              -> /\ att' = [att EXCEPT ![i] = Staged(ckpt.rev, ckpt.man, srv.m.src)]
                 /\ Reply([kind |-> "staged"])
         [] OTHER -> Reply([kind |-> "staged"]) /\ UNCHANGED att
  /\ UNCHANGED <<client, ckpt, store, tree, journal, crashes, odds, hist>>

\* handleWorkspacePushApply: a collected stage has its own answer.
ApplyRequest ==
  /\ At("apply") /\ srv.id = 0
  /\ IF att[srv.m.id].st = "none"
     THEN Reply([kind |-> "missing"])
     ELSE srv' = [srv EXCEPT !.id = srv.m.id, !.back = "answer"] /\ UNCHANGED <<net, up>>
  /\ UNCHANGED <<client, ckpt, att, store, tree, journal, crashes, odds, hist>>

-----------------------------------------------------------------------------
(* TransferSession.Apply of attempt srv.id, called by a request ("answer") *)
(* or by recovery ("recover").                                             *)

Applying == att[srv.id]
Fail == Reply([kind |-> "error"])
Failed == Fail /\ UNCHANGED <<client, ckpt, att, store, tree, journal, crashes, odds, hist>>

\* Whether the latest checkpoint is the one this attempt produced.
Replayed(i) == ckpt.rev = att[i].rev + 1 /\ ckpt.last = i /\ att[i].bound

ApplyBegin ==
  /\ At("apply") /\ srv.id # 0
  /\ LET a == Applying IN
       \/ /\ a.st = "staged"
          /\ a.rev = ckpt.rev /\ a.base = ckpt.man
          /\ srv' = [srv EXCEPT !.step = "retain", !.need = Remote(a)]
          /\ UNCHANGED <<net, up>>
       \/ a.st = "staged" /\ (a.rev # ckpt.rev \/ a.base # ckpt.man) /\ Fail
       \/ /\ a.st = "applying" /\ ckpt.rev # a.rev /\ ~Replayed(srv.id)
          /\ Fail
       \/ /\ a.st = "done" \/ (a.st = "applying" /\ (ckpt.rev = a.rev \/ Replayed(srv.id)))
          /\ IF srv.back = "answer" /\ (srv.m.sel # a.sel \/ srv.m.mat # a.mat)
             THEN Fail
             ELSE Goto("target") /\ UNCHANGED <<net, up>>
  /\ UNCHANGED <<client, ckpt, att, store, tree, journal, crashes, odds, hist>>

\* The record of the size while bodies are inserted.
DropUsage(missing) == IF missing = {} THEN usage ELSE -1

\* TransferBlobStore.Retain: the record of the size is dropped before the
\* first insertion file and named after the last body. Without it the store
\* is scanned and abandoned insertion files are reclaimed.
Retain ==
  /\ At("retain")
  /\ LET missing == srv.need \ blobs
         stored  == IF usage >= 0 THEN usage ELSE Bytes(blobs) IN
       IF Bytes(missing) > cap - stored
       THEN /\ temps' = IF usage >= 0 THEN temps ELSE 0
            /\ Fail /\ UNCHANGED usage
       ELSE /\ usage' = DropUsage(missing)
            /\ temps' = IF missing = {} /\ usage >= 0 THEN temps ELSE Cardinality(missing) + 1
            /\ srv' = [srv EXCEPT !.step = "rename", !.total = stored + Bytes(missing)]
            /\ UNCHANGED <<net, up>>
  /\ UNCHANGED <<client, ckpt, att, blobs, cap, tree, journal, crashes, odds, hist>>

RetainRename ==
  /\ At("rename") /\ srv.need \ blobs # {}
  /\ \E b \in srv.need \ blobs : blobs' = blobs \cup {b}
  /\ temps' = temps - 1
  /\ UNCHANGED <<client, net, up, srv, ckpt, att, usage, cap, tree, journal, crashes, odds, hist>>

RetainRecord ==
  /\ At("rename") /\ srv.need \ blobs = {}
  /\ usage' = srv.total /\ temps' = 0
  /\ Goto(IF srv.back = "upload" THEN "upload" ELSE "mark")
  /\ UNCHANGED <<client, net, up, ckpt, att, blobs, cap, tree, journal, crashes, odds, hist>>

\* Applying is durable only after the source's bodies are.
MarkApplying ==
  /\ At("mark")
  /\ att' = [att EXCEPT ![srv.id].st = "applying", ![srv.id].sel = srv.m.sel, ![srv.id].mat = srv.m.mat]
  /\ Goto("target")
  /\ UNCHANGED <<client, net, up, ckpt, store, tree, journal, crashes, odds, hist>>

\* TransferTarget.Apply: the receipt's writes, one per step. Without an
\* outcome a new transaction is recorded, then installed.
SetReceipt(rc) == att' = [att EXCEPT ![srv.id].rc = rc]

TargetApply ==
  /\ At("target")
  /\ \/ Applying.rc = "none" /\ SetReceipt("pending") /\ Goto("install")
     \/ Applying.rc = "settled" /\ Goto("advance") /\ UNCHANGED att
  /\ UNCHANGED <<client, net, up, ckpt, store, tree, journal, crashes, odds, hist>>

\* recoverTransfer: the outcome is read back from a committed journal;
\* without one the transaction was rolled back and is forgotten.
BugCommitted == FALSE

Committed == journal.kind # "none"

RecoverTransfer ==
  /\ At("target") /\ Applying.rc = "pending"
  /\ IF Committed
     THEN att' = [att EXCEPT ![srv.id].rc = "outcome", ![srv.id].out = journal.out, ![srv.id].conf = journal.conf]
     ELSE SetReceipt("none")
  /\ UNCHANGED <<client, net, up, srv, ckpt, store, tree, journal, crashes, odds, hist>>

\* finishTransfer: with the outcome durable, the cleanup of the journal is
\* authorized, then done, then the transaction is forgotten.
FinishTransfer ==
  /\ At("target")
  /\ \/ /\ Applying.rc = "outcome"
        /\ SetReceipt(IF Committed THEN "cleanup" ELSE "settled") /\ UNCHANGED journal
     \/ Applying.rc = "cleanup" /\ Committed /\ journal' = None /\ UNCHANGED att
     \/ Applying.rc = "cleanup" /\ ~Committed /\ SetReceipt("settled") /\ UNCHANGED journal
  /\ UNCHANGED <<client, net, up, srv, ckpt, store, tree, crashes, odds, hist>>

\* The three-way merge of one file: what the workspace holds afterwards.
Merge(base, src, dest) ==
  IF dest = base \/ dest = src THEN {src} ELSE {Mix, Mark}

Merged(a, result) ==
  [p \in Paths |-> IF p \in a.sel THEN result[p] ELSE tree[p]]

Conflicts(a, result) == {p \in a.sel : result[p] = Mark}

\* ApplyToWorkspace: installs everything selected, or refuses on a conflict
\* unless markers were asked for, or fails and is rolled back.
Install ==
  /\ At("install")
  /\ LET a == Applying  i == srv.id IN
     \E result \in [a.sel -> UNION {Merge(a.base[p], a.src[p], tree[p]) : p \in a.sel}] :
       /\ \A p \in a.sel : result[p] \in Merge(a.base[p], a.src[p], tree[p])
       /\ LET conf == Conflicts(a, result) IN
          \/ /\ conf = {} \/ a.mat
             /\ tree' = Merged(a, result)
             /\ journal' = [kind |-> "committed", out |-> a.sel, conf |-> conf]
             /\ installs' = [installs EXCEPT ![i] = @ + 1]
             /\ accepted' = [p \in Paths |-> IF p \in a.sel \ conf THEN a.src[p] ELSE accepted[p]]
             /\ Goto("target") /\ UNCHANGED <<att, net, up>>
          \/ /\ conf # {} /\ ~a.mat
             /\ att' = [att EXCEPT ![i].rc = "outcome", ![i].refused = TRUE, ![i].conf = conf]
             /\ Goto("target") /\ UNCHANGED <<tree, journal, installs, accepted, net, up>>
          \/ /\ SetReceipt("none")
             /\ Fail /\ UNCHANGED <<tree, journal, installs, accepted>>
  /\ UNCHANGED <<client, ckpt, store, crashes, odds, told>>

\* Advance: installed paths outside conflicts take the source's value; even a
\* refusal consumes the revision. The receipt is bound before the checkpoint.
BugAccept(man, a) ==
  [p \in Paths |-> IF ~a.refused /\ p \in a.out THEN a.src[p] ELSE man[p]]

Accept(man, a) ==
  [p \in Paths |-> IF ~a.refused /\ p \in a.out \ a.conf THEN a.src[p] ELSE man[p]]

Advance ==
  /\ At("advance")
  /\ LET a == Applying  i == srv.id IN
       \/ /\ a.st = "done" \/ Replayed(i)
          /\ Goto("done") /\ UNCHANGED <<ckpt, att, net, up>>
       \/ /\ a.st = "applying" /\ ~Replayed(i) /\ (ckpt.rev # a.rev \/ ckpt.man # a.base)
          /\ Fail /\ UNCHANGED <<ckpt, att>>
       \/ /\ a.st = "applying" /\ ckpt.rev = a.rev /\ ckpt.man = a.base /\ ~a.bound
          /\ att' = [att EXCEPT ![i].bound = TRUE] /\ UNCHANGED <<ckpt, srv, net, up>>
       \/ /\ a.st = "applying" /\ ckpt.rev = a.rev /\ ckpt.man = a.base /\ a.bound
          /\ ckpt' = [rev |-> a.rev + 1, man |-> Accept(ckpt.man, a), last |-> i]
          /\ Goto("done") /\ UNCHANGED <<att, net, up>>
  /\ UNCHANGED <<client, store, tree, journal, crashes, odds, hist>>

ApplyDone ==
  /\ At("done")
  /\ att' = [att EXCEPT ![srv.id].st = "done"]
  /\ IF srv.back = "recover"
     THEN srv' = [srv EXCEPT !.step = "recover", !.id = 0] /\ UNCHANGED <<net, up>>
     ELSE Reply([kind |-> "receipt", refused |-> Applying.refused])
  /\ UNCHANGED <<client, ckpt, store, tree, journal, crashes, odds, hist>>

-----------------------------------------------------------------------------
(* TransferSession.GC.                                                     *)

GCCollect ==
  /\ At("collect")
  /\ \/ \E i \in Ids : Collectable(i) /\ att' = [att EXCEPT ![i] = NoAttempt] /\ UNCHANGED srv
     \/ Goto("prune") /\ UNCHANGED att
  /\ UNCHANGED <<client, net, up, ckpt, store, tree, journal, crashes, odds, hist>>

\* Prune drops the record of the size before it removes the first body.
GCPrune ==
  /\ At("prune")
  /\ IF Pins \subseteq blobs
     THEN usage' = -1 /\ Goto("sweep")
     ELSE srv' = None /\ UNCHANGED usage
  /\ UNCHANGED <<client, net, up, ckpt, att, blobs, temps, cap, tree, journal, crashes, odds, hist>>

GCSweep ==
  /\ At("sweep")
  /\ \/ \E b \in blobs \ Pins : blobs' = blobs \ {b} /\ UNCHANGED <<temps, srv>>
     \/ blobs \subseteq Pins /\ temps' = 0 /\ srv' = None /\ UNCHANGED blobs
  /\ UNCHANGED <<client, net, up, ckpt, att, usage, cap, tree, journal, crashes, odds, hist>>

-----------------------------------------------------------------------------

\* A job of the workspace writes a file; nothing locks jobs out. Only an
\* installation reads the tree, so the edit is placed just before one.
JobEdit ==
  /\ At("install")
  /\ odds < MaxOdds /\ odds' = odds + 1
  /\ \E p \in Paths : tree[p] # Job /\ tree' = [tree EXCEPT ![p] = Job]
  /\ UNCHANGED <<client, net, up, srv, ckpt, att, store, journal, crashes, hist>>

\* The runner dies at any step; its successor first recovers every push.
Crash ==
  /\ crashes < MaxCrash /\ crashes' = crashes + 1
  /\ srv.kind # "none" \/ up.kind # "none"
  /\ srv' = Handler("boot", None) /\ up' = None
  /\ UNCHANGED <<client, net, ckpt, att, store, tree, journal, odds, hist>>

Init ==
  /\ pend = NoPend /\ copies = {} /\ cl = Idle
  /\ req = None /\ late = {} /\ ans = None /\ up = None /\ srv = None
  /\ ckpt = [rev |-> -1] /\ att = [i \in Ids |-> NoAttempt]
  /\ blobs = {} /\ temps = 0 /\ usage = -1 /\ cap \in Capacities
  /\ tree = Creation /\ journal = None /\ crashes = 0 /\ odds = 0
  /\ installs = [i \in Ids |-> 0] /\ accepted = Creation /\ told = [i \in Ids |-> "fresh"]

Next ==
  \/ PushResume \/ PushStart \/ PushPrepared \/ PushRecord \/ PushUploaded
  \/ PushStaged \/ PushFinish \/ PushForget \/ PushReuploaded \/ PushLost
  \/ UploadBegin \/ UploadAbort \/ UploadLock \/ Lock \/ GCLock \/ Recover \/ BaseAnswer
  \/ Initialize \/ Stage \/ ApplyRequest \/ ApplyBegin \/ Retain \/ RetainRename \/ RetainRecord
  \/ MarkApplying \/ TargetApply \/ RecoverTransfer \/ FinishTransfer \/ Install \/ Advance \/ ApplyDone
  \/ GCCollect \/ GCPrune \/ GCSweep \/ JobEdit \/ Crash

Spec == Init /\ [][Next]_vars

-----------------------------------------------------------------------------
(* Properties.                                                             *)

PushTypeOK ==
  /\ accepted \in Manifests /\ copies \subseteq Ids
  /\ tree \in [Paths -> Values \cup {Job, Mix, Mark}]
  /\ blobs \subseteq Values /\ temps \in Nat
  /\ installs \in [Ids -> Nat]
  /\ \A i \in Ids : att[i].st \in {"none", "staged", "applying", "done"}

\* A push is installed in the workspace at most once, however often its
\* requests are repeated or delayed and whoever dies (transfer_session.go
\* Apply, transfer.go Apply); and the client that was told of a receipt was
\* told the truth.
PushedOnce ==
  \A i \in Ids : /\ installs[i] <= 1
                 /\ told[i] = "applied" => installs[i] = 1
                 /\ told[i] = "refused" => installs[i] = 0

\* Whenever no application is in flight, the base of the next merge is
\* exactly the source whose installation succeeded outside conflicts
\* (checkpoint.go Advance): never a merged value, never a selected part
\* taken for the whole, never a refused push.
CheckpointAccepted ==
  ckpt.rev >= 0 /\ Unfinished = {} => ckpt.man = accepted

\* Every body a later merge needs is in the store (transfer_blobs.go): of the
\* creation once the session exists, of the checkpoint and of applications in
\* flight, whatever was collected or interrupted.
BodiesRetained == ckpt.rev >= 0 => Pins \subseteq blobs

\* The record of the store's size is exact whenever it exists: a crash between
\* the first body that is inserted or removed and the last leaves none
\* (transfer_blobs.go Retain, Prune).
UsageExact == usage \in Int /\ (usage >= 0 => usage = Bytes(blobs))

\* The base of the next merge is right and complete: the accepted source, with
\* every body it names, in a store that knows its size (checkpoint.go,
\* transfer_blobs.go).
CheckpointSound == PushTypeOK /\ CheckpointAccepted /\ BodiesRetained /\ UsageExact

\* An interrupted application can always be completed by repeating the push
\* (push.go finishPush): the runner still has the attempt with this source,
\* or the client has the source copy and the checkpoint it was made for.
PushRecoverable ==
  pend.id # 0 =>
    /\ pend.id \in copies
    /\ att[pend.id].st # "none" => att[pend.id].src = pend.src
    /\ pend.applying =>
         \/ att[pend.id].st \in {"applying", "done"}
         \/ Base = pend.base

=============================================================================
