-------------------------- MODULE RunAndLeaseProofs --------------------------
(***************************************************************************)
(* Proofs about `errand run`: its conversation with the runners (ClientRun)*)
(* and the one with the cloud peers (LeaseRun), and that both hold of the  *)
(* two put together (RunAndLease).                                         *)
(***************************************************************************)
EXTENDS RunAndLease, FiniteSetTheorems, WellFoundedInduction, TLAPS

(***************************************************************************)
(* One `errand run` or `errand attach`, proved for every number of         *)
(* candidates, tries and Ctrl-Cs: the command runs on one runner only and  *)
(* its record is kept (RunsOnOneRunner), and the exit code says what       *)
(* happened (ExitAccounted).                                               *)
(*                                                                         *)
(* The argument: a submission that was not begun, or was taken back, left  *)
(* nothing at the candidate, because a rejection counts as definite only   *)
(* while no earlier try is uncertain; so only the candidate tried now may  *)
(* run the job, and its record is started.  What the exit code claims is   *)
(* carried from the place where the run learned it (the controller, the    *)
(* stream's outcome, the phase) to the end, and the runner's later steps   *)
(* do not take it back.                                                    *)
(***************************************************************************)

Before   == {"prepare", "init", "negotiate", "mark", "admit"}
Uploads  == {"submit", "wait"}
Follows  == {"admitted", "stream", "detach", "terminal", "finish"}
Phases   == Before \cup Uploads \cup Follows \cup {"attach", "exited"}
Controls == [st : {"off", "watch", "interrupt", "kill", "done"}, taken : BOOLEAN,
             asked : 0 .. 2, confirmed : 0 .. 2, forwarded : {"none", "ok", "err"}]
Warnings == {"uncertain", "killfailed", "mayrun", "unconfirmed", "interrupted"}

\* CRTypeOK and the types it leaves out.
FullTypeOK ==
    /\ CRTypeOK
    /\ pc \in Phases /\ ctl \in Controls /\ said \in SUBSET Warnings
    /\ res \in {"none", "failed", "terminal", "lost"}
    /\ on \in BOOLEAN /\ eof \in BOOLEAN /\ worker \in BOOLEAN

\* Where the run is, whether its submission has begun, and what exists because of it.
BegunInv ==
    /\ pc \in Before => ~begun
    /\ pc \in Uploads \cup Follows \cup {"attach"} => begun
    /\ begun \/ pc = "admit" => record[cand] = "started"
    /\ ~begun => ans = "none" /\ ~late[cand] /\ job[cand] = "none"
    /\ ans # "none" => pc \in {"wait", "exited"}

\* Nothing runs, or may still arrive, at any candidate but the one tried now; a run
\* that is certain of its upload has no job there unless the answer says so.
PlaceInv ==
    /\ \A c \in Cands : c # cand => job[c] = "none" /\ ~late[c]
    /\ pc \in Uploads /\ ~up.uncertain =>
          ~late[cand] /\ (ans \in {"ok", "failed"} \/ job[cand] = "none")
    /\ ans = "ok" \/ pc \in Follows \cup {"attach"} => job[cand] # "none"

\* What the controller has taken, asked and had confirmed.
ControlInv ==
    /\ ctl.st \in {"off", "watch"} => ~ctl.taken /\ ctl.asked = 0
    /\ ctl.forwarded = "ok" => ctl.confirmed >= 1
    /\ pc = "attach" => ctl.st = "off"
    /\ pc = "finish" => ~ctl.taken /\ sig = 0 /\ ~on /\ ctl.st = "done"

\* An outcome of the stream is about a job that is over.
StreamInv ==
    /\ res \in {"terminal", "lost"} => Settled(cand)
    /\ pc \in {"terminal", "finish"} => res \in {"terminal", "lost"}
    /\ pc \notin {"stream", "terminal", "finish", "exited"} => res = "none"

\* What each exit code stands for once the command is over.
ExitInv ==
    pc = "exited" =>
        /\ exit \in {"0", "remote"} => ~ctl.taken /\ sig = 0
        /\ exit = "130" => ~begun \/ Settled(cand) \/ ctl.confirmed >= 1
        /\ exit = "txn" => said # {} \/ ctl.asked = 0 \/ ~begun \/ Settled(cand)
        /\ exit = "0" => /\ opt.apply => worker
                         /\ \/ res = "none" /\ job[cand] # "none"
                            \/ res = "terminal" /\ Settled(cand) /\ Succeeded(outcome)
        /\ exit = "remote" => Settled(cand) /\ outcome.kind \in {"nonzero", "signal"}

CRInv == FullTypeOK /\ BegunInv /\ PlaceInv /\ ControlInv /\ StreamInv /\ ExitInv

-----------------------------------------------------------------------------
\* The two states a controller starts from: off, and watching.
LEMMA ControlForms ==
    /\ NoController \in Controls /\ NoController.st = "off" /\ NoController.taken = FALSE
    /\ NoController.asked = 0 /\ NoController.forwarded = "none"
    /\ Watching \in Controls /\ Watching.st = "watch" /\ Watching.taken = FALSE
    /\ Watching.asked = 0 /\ Watching.forwarded = "none"
  <1>1. NoController \in Controls
    BY DEF NoController, Controls
  <1>2. /\ NoController.st = "off" /\ NoController.taken = FALSE
        /\ NoController.asked = 0 /\ NoController.forwarded = "none"
    BY DEF NoController
  <1>3. /\ Watching \in Controls /\ Watching.st = "watch" /\ Watching.taken = NoController.taken
        /\ Watching.asked = NoController.asked /\ Watching.forwarded = NoController.forwarded
    BY <1>1 DEF Watching, Controls
  <1> QED
    BY <1>1, <1>2, <1>3

\* Every update a Ctrl-C, its forwarding and its confirmation make is a controller.
LEMMA ControlUpdates ==
    ASSUME NEW k \in Controls
    PROVE  /\ [k EXCEPT !.st = "done"] \in Controls
           /\ [k EXCEPT !.st = "interrupt", !.taken = TRUE, !.asked = 1] \in Controls
           /\ [k EXCEPT !.forwarded = "ok", !.confirmed = 1] \in Controls
           /\ [k EXCEPT !.forwarded = "err"] \in Controls
           /\ [k EXCEPT !.st = "kill", !.asked = 2,
                        !.forwarded = IF @ = "none" THEN "err" ELSE @] \in Controls
           /\ [k EXCEPT !.st = "done", !.confirmed = 2] \in Controls
  <1>0. 1 \in 0 .. 2 /\ 2 \in 0 .. 2 /\ TRUE \in BOOLEAN
    OBVIOUS
  <1>1. [k EXCEPT !.st = "done"] \in Controls
    BY <1>0 DEF Controls
  <1>2. [k EXCEPT !.st = "interrupt", !.taken = TRUE, !.asked = 1] \in Controls
    BY <1>0 DEF Controls
  <1>3. [k EXCEPT !.forwarded = "ok", !.confirmed = 1] \in Controls
    BY <1>0 DEF Controls
  <1>4. [k EXCEPT !.forwarded = "err"] \in Controls
    BY <1>0 DEF Controls
  <1>5. [k EXCEPT !.st = "kill", !.asked = 2,
                  !.forwarded = IF @ = "none" THEN "err" ELSE @] \in Controls
    BY <1>0 DEF Controls
  <1>6. [k EXCEPT !.st = "done", !.confirmed = 2] \in Controls
    BY <1>0 DEF Controls
  <1> QED
    BY <1>1, <1>2, <1>3, <1>4, <1>5, <1>6

\* The controller stops without forgetting what it took, asked and had confirmed.
LEMMA StoppedKeeps ==
    ASSUME ctl \in Controls, Stopped
    PROVE  /\ ctl' \in Controls /\ ctl'.st = "done" /\ ctl'.taken = ctl.taken
           /\ ctl'.asked = ctl.asked /\ ctl'.confirmed = ctl.confirmed
           /\ ctl'.forwarded = ctl.forwarded
  BY DEF Stopped, Controls

\* One upload's bookkeeping, over its tries and its fall back to a full snapshot.
Uploadings == [n : 1 .. Attempts, partial : BOOLEAN, uncertain : BOOLEAN]

\* A fresh upload, with or without a partial snapshot.
LEMMA UploadForms ==
    /\ FirstUpload \in Uploadings /\ FirstUpload.uncertain = FALSE
    /\ \A b \in BOOLEAN : [FirstUpload EXCEPT !.partial = b] \in Uploadings
  <1>1. 1 \in 1 .. Attempts
    BY ClientRunAssumption
  <1>2. FirstUpload \in Uploadings /\ FirstUpload.uncertain = FALSE
    BY <1>1 DEF FirstUpload, Uploadings
  <1>3. ASSUME NEW b \in BOOLEAN PROVE [FirstUpload EXCEPT !.partial = b] \in Uploadings
    BY <1>2 DEF Uploadings
  <1> QED
    BY <1>2, <1>3

\* Another try, and the fall back to the full snapshot.
LEMMA UploadUpdates ==
    ASSUME NEW u \in Uploadings
    PROVE  /\ u.n < Attempts => [u EXCEPT !.n = @ + 1, !.uncertain = TRUE] \in Uploadings
           /\ [u EXCEPT !.n = 1, !.partial = FALSE] \in Uploadings
  <1>1. u.n \in 1 .. Attempts /\ 1 \in 1 .. Attempts /\ Attempts \in Nat
    BY ClientRunAssumption DEF Uploadings
  <1>2. u.n < Attempts => u.n + 1 \in 1 .. Attempts
    BY <1>1
  <1>3. \A m \in 1 .. Attempts : [u EXCEPT !.n = m, !.uncertain = TRUE] \in Uploadings
    BY DEF Uploadings
  <1>4. [u EXCEPT !.n = 1, !.partial = FALSE] \in Uploadings
    BY <1>1 DEF Uploadings
  <1> QED
    BY <1>2, <1>3, <1>4

\* Handing over to the automatic-apply worker, which may fail.
LEMMA HandOffTyped ==
    ASSUME worker \in BOOLEAN, HandOff
    PROVE  worker' \in BOOLEAN
  <1>1. worker' = worker \/ worker' = TRUE
    BY DEF HandOff
  <1> QED
    BY <1>1

\* A failed submission: a rejection that is definite takes the submission back, and
\* any other keeps the record and says that the outcome is uncertain.
LEMMA SubmitFailedKeeps ==
    ASSUME CRInv, NEW err, SubmitFailed(err), pc \in Uploads, ans' = "none",
           ~up.uncertain /\ submitDefinitelyRejected(err) => job[cand] = "none"
    PROVE  CRInv'
  <1> USE DEF CRInv
  <1>1. begun /\ pc \notin Before /\ pc \notin Follows /\ pc # "exited" /\ pc # "attach" /\ res = "none"
    BY DEF BegunInv, StreamInv, Uploads, Before, Follows
  <1>2. cand \in Cands /\ Cands = 1 .. Candidates /\ Candidates \in Nat
    BY ClientRunAssumption DEF FullTypeOK, CRTypeOK, Cands
  <1>3. Definite(err) => job[cand] = "none" /\ ~late[cand]
    BY DEF Definite, PlaceInv
  <1>4. CASE Definite(err) /\ cand < Candidates /\ NextCandidate
    <2>1. /\ cand' = cand + 1 /\ pc' = "init" /\ begun' = FALSE /\ up' = FirstUpload
          /\ record' = [record EXCEPT ![cand] = "none"] /\ ctl' = NoController
          /\ UNCHANGED <<opt, job, outcome, late, sig, on, typed, eof, res, worker, said, exit>>
      BY <1>4 DEF NextCandidate, termvars
    <2>2. cand' \in Cands /\ cand' # cand
      BY <1>2, <1>4, <2>1
    <2>3. FullTypeOK'
      <3>1. record' \in [Cands -> {"none", "init", "started"}] /\ pc' \in Phases
        BY <2>1 DEF FullTypeOK, CRTypeOK, Phases, Before
      <3>2. up' \in Uploadings /\ ctl' \in Controls
        BY <2>1, UploadForms, ControlForms
      <3> QED
        BY <2>1, <2>2, <3>1, <3>2 DEF FullTypeOK, CRTypeOK, Uploadings
    <2>4. \A c \in Cands : job'[c] = "none" /\ ~late'[c]
      BY <1>3, <1>4, <2>1 DEF PlaceInv
    <2>5. BegunInv' /\ PlaceInv'
      BY <2>1, <2>2, <2>4 DEF BegunInv, PlaceInv, Before, Uploads, Follows
    <2>6. ControlInv' /\ StreamInv' /\ ExitInv'
      BY <1>1, <2>1, ControlForms DEF ControlInv, StreamInv, ExitInv
    <2> QED
      BY <2>3, <2>5, <2>6
  <1>5. ASSUME Stopped, pc' = "exited", UNCHANGED <<opt, cand, job, outcome, late, up, termvars, res>>,
               exit' \in {"130", "txn"}, worker' \in BOOLEAN, said' \in SUBSET Warnings,
               \/ begun' = FALSE /\ job[cand] = "none" /\ ~late[cand]
                  /\ record' = [record EXCEPT ![cand] = "none"]
               \/ UNCHANGED <<begun, record>> /\ exit' = "txn" /\ said' # {}
        PROVE  CRInv'
    <2>1. /\ ctl' \in Controls /\ ctl'.st = "done"
          /\ ctl'.forwarded = ctl.forwarded /\ ctl'.confirmed = ctl.confirmed
      BY <1>5, StoppedKeeps DEF FullTypeOK
    <2>2. FullTypeOK'
      <3>1. record' \in [Cands -> {"none", "init", "started"}] /\ begun' \in BOOLEAN /\ pc' \in Phases
        BY <1>5 DEF FullTypeOK, CRTypeOK, Phases
      <3> QED
        BY <1>5, <2>1, <3>1 DEF FullTypeOK, CRTypeOK, termvars
    <2>3. BegunInv'
      BY <1>1, <1>5 DEF BegunInv, Before, Uploads, Follows
    <2>4. PlaceInv'
      BY <1>5 DEF PlaceInv, Uploads, Follows
    <2>5. ControlInv' /\ StreamInv'
      BY <1>1, <1>5, <2>1 DEF ControlInv, StreamInv
    <2>6. ExitInv'
      BY <1>5 DEF ExitInv
    <2> QED
      BY <2>2, <2>3, <2>4, <2>5, <2>6
  <1>6. CASE Definite(err) /\ pc' = "exited"
    <2>1. /\ begun' = FALSE /\ pc' = "exited" /\ exit' \in {"130", "txn"}
          /\ record' = [record EXCEPT ![cand] = "none"] /\ Stopped
          /\ UNCHANGED <<opt, cand, job, outcome, late, up, termvars, res, worker, said>>
      BY <1>6 DEF SubmitFailed, NextCandidate
    <2> QED
      BY <1>3, <1>5, <1>6, <2>1 DEF FullTypeOK
  <1>7. CASE ~Definite(err)
    <2>1. /\ pc' = "exited" /\ exit' = "txn" /\ Stopped /\ HandOff /\ Say({"uncertain"})
          /\ UNCHANGED <<opt, cand, record, begun, job, outcome, late, up, termvars, res>>
      BY <1>7 DEF SubmitFailed
    <2>2. worker' \in BOOLEAN /\ said' \in SUBSET Warnings /\ said' # {}
      BY <2>1, HandOffTyped DEF Say, Warnings, FullTypeOK
    <2> QED
      BY <1>5, <2>1, <2>2
  <1> QED
    BY <1>4, <1>6, <1>7 DEF SubmitFailed

\* The steps before the submission, which leave nothing behind when they stop.
LEMMA BeforeKeeps ==
    ASSUME CRInv,
           InterruptedBefore \/ FailBefore \/ prepareSnapshot \/ initializeChangeState \/
           negotiateSnapshot \/ markLocalChangeSubmissionStarted \/ admitJobController
    PROVE  CRInv'
  <1> USE DEF CRInv, FullTypeOK, runnervars, termvars
  <1>1. CASE InterruptedBefore
    <2>1. FullTypeOK'
      BY <1>1 DEF InterruptedBefore, Leave, CRTypeOK, Phases, Before, Uploads, Follows
    <2>2. BegunInv' /\ PlaceInv'
      BY <1>1 DEF InterruptedBefore, Leave, BegunInv, PlaceInv, Before, Uploads, Follows
    <2>3. ControlInv' /\ StreamInv'
      BY <1>1 DEF InterruptedBefore, Leave, ControlInv, StreamInv, Settled
    <2>4. ExitInv'
      BY <1>1 DEF InterruptedBefore, Leave, ExitInv
    <2> QED
      BY <2>1, <2>2, <2>3, <2>4
  <1>2. CASE FailBefore
    <2>1. FullTypeOK'
      BY <1>2 DEF FailBefore, Leave, CRTypeOK, Phases, Before, Uploads, Follows
    <2>2. BegunInv' /\ PlaceInv'
      BY <1>2 DEF FailBefore, Leave, BegunInv, PlaceInv, Before, Uploads, Follows
    <2>3. ControlInv' /\ StreamInv'
      BY <1>2 DEF FailBefore, Leave, ControlInv, StreamInv, Settled
    <2>4. ExitInv'
      BY <1>2 DEF FailBefore, Leave, ExitInv
    <2> QED
      BY <2>1, <2>2, <2>3, <2>4
  <1>3. CASE prepareSnapshot
    <2>1. FullTypeOK'
      BY <1>3 DEF prepareSnapshot, Step, CRTypeOK, Phases, Before, Uploads, Follows
    <2>2. BegunInv' /\ PlaceInv'
      BY <1>3 DEF prepareSnapshot, Step, BegunInv, PlaceInv, Before, Uploads, Follows
    <2>3. ControlInv' /\ StreamInv'
      BY <1>3 DEF prepareSnapshot, Step, ControlInv, StreamInv, Settled
    <2>4. ExitInv'
      BY <1>3 DEF prepareSnapshot, Step, ExitInv
    <2> QED
      BY <2>1, <2>2, <2>3, <2>4
  <1>4. CASE initializeChangeState
    <2>1. FullTypeOK'
      BY <1>4 DEF initializeChangeState, Step, CRTypeOK, Phases, Before, Uploads, Follows
    <2>2. BegunInv' /\ PlaceInv'
      BY <1>4 DEF initializeChangeState, Step, BegunInv, PlaceInv, Before, Uploads, Follows
    <2>3. ControlInv' /\ StreamInv'
      BY <1>4 DEF initializeChangeState, Step, ControlInv, StreamInv, Settled
    <2>4. ExitInv'
      BY <1>4 DEF initializeChangeState, Step, ExitInv
    <2> QED
      BY <2>1, <2>2, <2>3, <2>4
  <1>5. CASE negotiateSnapshot
    <2>1. FullTypeOK'
      <3>1. up' \in Uploadings
        BY <1>5, UploadForms DEF negotiateSnapshot, CRTypeOK
      <3> QED
        BY <1>5, <3>1 DEF negotiateSnapshot, Step, CRTypeOK, Phases, Before, Uploads, Follows,
           Uploadings
    <2>2. BegunInv' /\ PlaceInv'
      BY <1>5 DEF negotiateSnapshot, Step, FirstUpload, BegunInv, PlaceInv, Before, Uploads,
         Follows
    <2>3. ControlInv' /\ StreamInv'
      BY <1>5 DEF negotiateSnapshot, Step, FirstUpload, ControlInv, StreamInv, Settled
    <2>4. ExitInv'
      BY <1>5 DEF negotiateSnapshot, Step, FirstUpload, ExitInv
    <2> QED
      BY <2>1, <2>2, <2>3, <2>4
  <1>6. CASE markLocalChangeSubmissionStarted
    <2>1. FullTypeOK'
      BY <1>6 DEF markLocalChangeSubmissionStarted, Step, CRTypeOK, Phases, Before, Uploads,
         Follows
    <2>2. BegunInv' /\ PlaceInv'
      BY <1>6 DEF markLocalChangeSubmissionStarted, Step, BegunInv, Before, Uploads, Follows,
         PlaceInv, CRTypeOK
    <2>3. ControlInv' /\ StreamInv'
      BY <1>6 DEF markLocalChangeSubmissionStarted, Step, ControlInv, StreamInv, Settled
    <2>4. ExitInv'
      BY <1>6 DEF markLocalChangeSubmissionStarted, Step, ExitInv
    <2> QED
      BY <2>1, <2>2, <2>3, <2>4
  <1>7. CASE admitJobController
    <2>1. FullTypeOK'
      <3>1. ctl' \in Controls
        BY <1>7, ControlForms DEF admitJobController, Leave, CRTypeOK
      <3>2. sig' \in 0 .. 2 /\ pc' \in Phases
        BY <1>7 DEF admitJobController, Leave, Phases, Uploads, CRTypeOK
      <3>3. begun' = begun \/ begun' = TRUE
        BY <1>7 DEF admitJobController, Leave, CRTypeOK
      <3>4. /\ exit' \in {"none", "0", "remote", "130", "txn", "killed"}
            /\ record' \in [Cands -> {"none", "init", "started"}]
        BY <1>7 DEF admitJobController, Leave, CRTypeOK
      <3> QED
        BY <1>7, <3>1, <3>2, <3>3, <3>4 DEF admitJobController, Leave, CRTypeOK, Phases, Before,
           Uploads, Follows
    <2>2. BegunInv' /\ PlaceInv'
      BY <1>7 DEF admitJobController, Leave, Watching, NoController, BegunInv, PlaceInv, Before,
         Uploads, Follows
    <2>3. ControlInv' /\ StreamInv'
      BY <1>7 DEF admitJobController, Leave, Watching, NoController, ControlInv, StreamInv,
         Settled
    <2>4. ExitInv'
      BY <1>7 DEF admitJobController, Leave, Watching, NoController, ExitInv
    <2> QED
      BY <2>1, <2>2, <2>3, <2>4
  <1> QED
    BY <1>1, <1>2, <1>3, <1>4, <1>5, <1>6, <1>7

\* The upload: its tries, its fall back to the full snapshot and its answer.
LEMMA SubmitKeeps ==
    ASSUME CRInv,
           submitOnce \/ TransportFails \/ ReshipFull \/ Submitted
    PROVE  CRInv'
  <1> USE DEF CRInv, FullTypeOK, runnervars, termvars
  <1>1. CASE submitOnce
    <2>1. FullTypeOK'
      BY <1>1 DEF submitOnce, CRTypeOK, Phases, Before, Uploads, Follows
    <2>2. BegunInv' /\ PlaceInv'
      BY <1>1 DEF submitOnce, BegunInv, PlaceInv, Before, Uploads, Follows
    <2>3. ControlInv' /\ StreamInv'
      BY <1>1 DEF submitOnce, ControlInv, StreamInv, Settled
    <2>4. ExitInv'
      BY <1>1 DEF submitOnce, ExitInv
    <2> QED
      BY <2>1, <2>2, <2>3, <2>4
  <1>2. CASE TransportFails
    <2>1. FullTypeOK'
      <3>1. up \in Uploadings
        BY <1>2 DEF Uploadings, CRTypeOK
      <3>2. up' = up \/ (up.n < Attempts /\ up' = [up EXCEPT !.n = @ + 1, !.uncertain = TRUE])
        BY <1>2 DEF TransportFails, CRTypeOK
      <3>3. up' \in Uploadings
        BY <3>1, <3>2, UploadUpdates
      <3>4. ctl' \in Controls
        BY <1>2, StoppedKeeps DEF TransportFails, CRTypeOK
      <3>5. worker' \in BOOLEAN /\ said' \in SUBSET Warnings
        BY <1>2, HandOffTyped DEF TransportFails, Warnings, Say, CRTypeOK
      <3> QED
        BY <1>2, <3>1, <3>2, <3>3, <3>4, <3>5 DEF TransportFails, CRTypeOK, Phases, Before,
           Uploads, Follows, Uploadings
    <2>2. BegunInv' /\ PlaceInv'
      BY <1>2 DEF TransportFails, Stopped, HandOff, Say, BegunInv, Before, Uploads, Follows,
         PlaceInv, CRTypeOK
    <2>3. ControlInv' /\ StreamInv'
      BY <1>2 DEF TransportFails, Stopped, HandOff, Say, ControlInv, StreamInv, PlaceInv, Settled,
         CRTypeOK, Controls
    <2>4. ExitInv'
      BY <1>2 DEF TransportFails, Stopped, HandOff, Say, ExitInv
    <2> QED
      BY <2>1, <2>2, <2>3, <2>4
  <1>3. CASE ReshipFull
    <2>1. FullTypeOK'
      <3>1. up' \in Uploadings
        BY <1>3, UploadUpdates DEF ReshipFull, Uploadings, CRTypeOK
      <3> QED
        BY <1>3, <3>1 DEF ReshipFull, CRTypeOK, Phases, Before, Uploads, Follows, Uploadings
    <2>2. BegunInv' /\ PlaceInv'
      BY <1>3 DEF ReshipFull, BegunInv, PlaceInv, Before, Uploads, Follows
    <2>3. ControlInv' /\ StreamInv'
      BY <1>3 DEF ReshipFull, ControlInv, StreamInv, Settled
    <2>4. ExitInv'
      BY <1>3 DEF ReshipFull, ExitInv
    <2> QED
      BY <2>1, <2>2, <2>3, <2>4
  <1>4. CASE Submitted
    <2>1. FullTypeOK'
      <3>1. worker' \in BOOLEAN
        BY <1>4, HandOffTyped DEF Submitted, CRTypeOK
      <3> QED
        BY <1>4, <3>1 DEF Submitted, CRTypeOK, Phases, Before, Uploads, Follows
    <2>2. BegunInv' /\ PlaceInv'
      BY <1>4 DEF Submitted, HandOff, BegunInv, PlaceInv, Before, Uploads, Follows
    <2>3. ControlInv' /\ StreamInv'
      BY <1>4 DEF Submitted, HandOff, ControlInv, StreamInv, Settled
    <2>4. ExitInv'
      BY <1>4 DEF Submitted, HandOff, ExitInv
    <2> QED
      BY <2>1, <2>2, <2>3, <2>4
  <1> QED
    BY <1>1, <1>2, <1>3, <1>4

\* The two ways a submission fails: no request went out, or it was turned down.
LEMMA SubmitNotStartedKeeps ==
    ASSUME CRInv, SubmitNotStarted \/ SubmitRejected
    PROVE  CRInv'
  <1>1. pc \in Uploads /\ ans' = "none"
    BY DEF SubmitNotStarted, SubmitRejected, Uploads, CRInv, BegunInv
  <1>2. CASE SubmitNotStarted
    <2>1. ~up.uncertain => job[cand] = "none"
      BY <1>2 DEF SubmitNotStarted, Uploads, CRInv, BegunInv, PlaceInv
    <2> QED
      BY <1>1, <1>2, <2>1, SubmitFailedKeeps DEF SubmitNotStarted
  <1>3. CASE SubmitRejected
    <2>1. ~up.uncertain /\ submitDefinitelyRejected(ans) => job[cand] = "none"
      BY <1>1, <1>3 DEF SubmitRejected, submitDefinitelyRejected, CRInv, PlaceInv
    <2> QED
      BY <1>1, <1>3, <2>1, SubmitFailedKeeps DEF SubmitRejected
  <1> QED
    BY <1>2, <1>3

\* The runner's steps, which may come after the command is over.
LEMMA RunnerKeeps ==
    ASSUME CRInv,
           handleSubmit \/ \E c \in Cands : LateSubmit(c) \/ JobEnds(c)
    PROVE  CRInv'
  <1> USE DEF CRInv, FullTypeOK, runnervars, termvars
  <1>1. CASE handleSubmit
    <2>1. FullTypeOK'
      BY <1>1 DEF handleSubmit, runnerless, CRTypeOK, Phases, Before, Uploads, Follows
    <2>2. BegunInv' /\ PlaceInv'
      BY <1>1 DEF handleSubmit, runnerless, BegunInv, Before, Uploads, Follows, PlaceInv, CRTypeOK
    <2>3. ControlInv' /\ StreamInv'
      BY <1>1 DEF handleSubmit, runnerless, ControlInv, StreamInv, PlaceInv, Settled, CRTypeOK,
         Controls
    <2>4. ExitInv'
      BY <1>1 DEF handleSubmit, runnerless, ExitInv, BegunInv, PlaceInv, ControlInv, StreamInv,
         Settled, CRTypeOK, Controls
    <2> QED
      BY <2>1, <2>2, <2>3, <2>4
  <1>2. ASSUME NEW c \in Cands, LateSubmit(c) PROVE CRInv'
    <2>1. FullTypeOK'
      BY <1>2 DEF LateSubmit, runnerless, CRTypeOK, Phases, Before, Uploads, Follows
    <2>2. BegunInv' /\ PlaceInv'
      BY <1>2 DEF LateSubmit, runnerless, BegunInv, PlaceInv, Before, Uploads, Follows
    <2>3. ControlInv' /\ StreamInv'
      BY <1>2 DEF LateSubmit, runnerless, ControlInv, StreamInv, Settled
    <2>4. ExitInv'
      BY <1>2 DEF LateSubmit, runnerless, ExitInv, BegunInv, PlaceInv, ControlInv, StreamInv,
         Settled, CRTypeOK, Controls
    <2> QED
      BY <2>1, <2>2, <2>3, <2>4
  <1>3. ASSUME NEW c \in Cands, JobEnds(c) PROVE CRInv'
    <2>1. FullTypeOK'
      BY <1>3 DEF JobEnds, runnerless, CRTypeOK, Phases, Before, Uploads, Follows
    <2>2. BegunInv' /\ PlaceInv'
      BY <1>3 DEF JobEnds, runnerless, BegunInv, PlaceInv, Before, Uploads, Follows
    <2>3. ControlInv' /\ StreamInv'
      BY <1>3 DEF JobEnds, runnerless, ControlInv, StreamInv, Settled
    <2>4. ExitInv'
      BY <1>3 DEF JobEnds, runnerless, ExitInv, BegunInv, PlaceInv, ControlInv, StreamInv,
         Settled, CRTypeOK, Controls
    <2> QED
      BY <2>1, <2>2, <2>3, <2>4
  <1> QED
    BY <1>1, <1>2, <1>3

\* Ctrl-C, end of file, and the death of the client.
LEMMA TerminalKeeps ==
    ASSUME CRInv,
           CtrlC \/ detachOnEOF \/ Crash
    PROVE  CRInv'
  <1> USE DEF CRInv, FullTypeOK, runnervars, termvars
  <1>1. CASE CtrlC
    <2>1. FullTypeOK'
      <3>1. sig' \in 0 .. 2
        BY <1>1, ClientRunAssumption DEF CtrlC, CRTypeOK
      <3>2. typed' \in 0 .. MaxSignals
        BY <1>1, ClientRunAssumption DEF CtrlC, CRTypeOK
      <3>3. pc' \in Phases /\ exit' \in {"none", "0", "remote", "130", "txn", "killed"}
        BY <1>1 DEF CtrlC, Phases, CRTypeOK
      <3> QED
        BY <1>1, <3>1, <3>2, <3>3 DEF CtrlC, termless, Running, CRTypeOK, Phases, Before, Uploads,
           Follows
    <2>2. BegunInv' /\ PlaceInv'
      BY <1>1 DEF CtrlC, termless, Running, BegunInv, PlaceInv, Before, Uploads, Follows
    <2>3. ControlInv' /\ StreamInv'
      BY <1>1 DEF CtrlC, termless, Running, ControlInv, StreamInv, Settled
    <2>4. ExitInv'
      BY <1>1 DEF CtrlC, termless, Running, ExitInv
    <2> QED
      BY <2>1, <2>2, <2>3, <2>4
  <1>2. CASE detachOnEOF
    <2>1. FullTypeOK'
      BY <1>2 DEF detachOnEOF, termless, Running, CRTypeOK, Phases, Before, Uploads, Follows
    <2>2. BegunInv' /\ PlaceInv'
      BY <1>2 DEF detachOnEOF, termless, Running, BegunInv, PlaceInv, Before, Uploads, Follows
    <2>3. ControlInv' /\ StreamInv'
      BY <1>2 DEF detachOnEOF, termless, Running, ControlInv, StreamInv, Settled
    <2>4. ExitInv'
      BY <1>2 DEF detachOnEOF, termless, Running, ExitInv
    <2> QED
      BY <2>1, <2>2, <2>3, <2>4
  <1>3. CASE Crash
    <2>1. FullTypeOK'
      BY <1>3 DEF Crash, termless, Running, CRTypeOK, Phases, Before, Uploads, Follows
    <2>2. BegunInv' /\ PlaceInv'
      BY <1>3 DEF Crash, termless, Running, BegunInv, PlaceInv, Before, Uploads, Follows
    <2>3. ControlInv' /\ StreamInv'
      BY <1>3 DEF Crash, termless, Running, ControlInv, StreamInv, Settled
    <2>4. ExitInv'
      BY <1>3 DEF Crash, termless, Running, ExitInv
    <2> QED
      BY <2>1, <2>2, <2>3, <2>4
  <1> QED
    BY <1>1, <1>2, <1>3

\* The controller's steps on a Ctrl-C.
LEMMA ControllerKeeps ==
    ASSUME CRInv,
           FirstSignal \/ ForwardSIGINT \/ SecondSignal \/ ForceKill
    PROVE  CRInv'
  <1> USE DEF CRInv, FullTypeOK, runnervars, termvars
  <1>1. CASE FirstSignal
    <2>1. FullTypeOK'
      <3>1. ctl' \in Controls
        BY <1>1, ControlUpdates DEF FirstSignal, TakeFirst, CRTypeOK
      <3>2. sig' \in 0 .. 2
        BY <1>1 DEF FirstSignal, CRTypeOK
      <3> QED
        BY <1>1, <3>1, <3>2 DEF FirstSignal, ctlless, Running, CRTypeOK, Phases, Before, Uploads,
           Follows
    <2>2. BegunInv' /\ PlaceInv'
      BY <1>1 DEF FirstSignal, TakeFirst, ctlless, Running, BegunInv, PlaceInv, Before, Uploads,
         Follows
    <2>3. ControlInv' /\ StreamInv'
      BY <1>1 DEF FirstSignal, TakeFirst, ctlless, Running, ControlInv, StreamInv, Settled
    <2>4. ExitInv'
      BY <1>1 DEF FirstSignal, TakeFirst, ctlless, Running, ExitInv
    <2> QED
      BY <2>1, <2>2, <2>3, <2>4
  <1>2. CASE ForwardSIGINT
    <2>1. FullTypeOK'
      <3>1. ctl' \in Controls
        BY <1>2, ControlUpdates DEF ForwardSIGINT, CRTypeOK
      <3> QED
        BY <1>2, <3>1 DEF ForwardSIGINT, ctlless, Running, CRTypeOK, Phases, Before, Uploads,
           Follows
    <2>2. BegunInv' /\ PlaceInv'
      BY <1>2 DEF ForwardSIGINT, ctlless, Running, BegunInv, PlaceInv, Before, Uploads, Follows
    <2>3. ControlInv'
      <3>1. /\ ctl.st = "interrupt" /\ ctl'.st = ctl.st
            /\ ctl'.forwarded = "ok" => ctl'.confirmed = 1
        BY <1>2 DEF ForwardSIGINT, Controls
      <3> QED
        BY <1>2, <3>1 DEF ForwardSIGINT, ctlless, ControlInv
    <2>4. StreamInv'
      BY <1>2 DEF ForwardSIGINT, ctlless, Running, StreamInv, PlaceInv, Settled, CRTypeOK, Before,
         Uploads, Follows, Phases
    <2>5. ExitInv'
      BY <1>2 DEF ForwardSIGINT, ctlless, Running, ExitInv
    <2> QED
      BY <2>1, <2>2, <2>3, <2>4, <2>5
  <1>3. CASE SecondSignal
    <2>1. FullTypeOK'
      <3>1. ctl' \in Controls
        BY <1>3, ControlUpdates DEF SecondSignal, CRTypeOK
      <3>2. sig' \in 0 .. 2
        BY <1>3 DEF SecondSignal, CRTypeOK
      <3>3. on' \in BOOLEAN
        BY <1>3 DEF SecondSignal, CRTypeOK
      <3> QED
        BY <1>3, <3>1, <3>2, <3>3 DEF SecondSignal, ctlless, Running, CRTypeOK, Phases, Before,
           Uploads, Follows
    <2>2. BegunInv' /\ PlaceInv'
      BY <1>3 DEF SecondSignal, ctlless, Running, BegunInv, PlaceInv, Before, Uploads, Follows
    <2>3. ControlInv' /\ StreamInv'
      BY <1>3 DEF SecondSignal, ctlless, Running, ControlInv, StreamInv, Settled
    <2>4. ExitInv'
      BY <1>3 DEF SecondSignal, ctlless, Running, ExitInv
    <2> QED
      BY <2>1, <2>2, <2>3, <2>4
  <1>4. CASE ForceKill
    <2>1. FullTypeOK'
      <3>1. ctl' \in Controls /\ said' \in SUBSET Warnings
        BY <1>4, ControlUpdates, StoppedKeeps DEF ForceKill, Say, Warnings, CRTypeOK
      <3> QED
        BY <1>4, <3>1 DEF ForceKill, ctlless, Running, CRTypeOK, Phases, Before, Uploads, Follows
    <2>2. BegunInv' /\ PlaceInv'
      BY <1>4 DEF ForceKill, ctlless, Running, Stopped, Say, BegunInv, PlaceInv, Before, Uploads,
         Follows
    <2>3. ControlInv'
      <3>1. /\ ctl.st = "kill" /\ ctl'.st = "done"
            /\ ctl'.forwarded = ctl.forwarded
            /\ ctl'.confirmed = 2 \/ ctl'.confirmed = ctl.confirmed
        BY <1>4 DEF ForceKill, Stopped, Controls
      <3>2. pc' = pc /\ pc # "attach" /\ pc # "finish"
        BY <1>4 DEF ForceKill, ctlless, ControlInv
      <3> QED
        BY <3>1, <3>2 DEF ControlInv
    <2>4. StreamInv'
      BY <1>4 DEF ForceKill, ctlless, Running, Stopped, Say, StreamInv, PlaceInv, Settled,
         CRTypeOK, Before, Uploads, Follows, Phases
    <2>5. ExitInv'
      BY <1>4 DEF ForceKill, ctlless, Running, Stopped, Say, ExitInv
    <2> QED
      BY <2>1, <2>2, <2>3, <2>4, <2>5
  <1> QED
    BY <1>1, <1>2, <1>3, <1>4

\* Attaching, streaming, and what the stream's outcome leads to.
LEMMA StreamKeeps ==
    ASSUME CRInv,
           Attach \/ Admitted \/ StreamEnds \/ StreamDetached \/ StreamFailed \/
           StreamTerminal
    PROVE  CRInv'
  <1> USE DEF CRInv, FullTypeOK, runnervars, termvars
  <1>1. CASE Attach
    <2>1. FullTypeOK'
      <3>1. ctl' \in Controls
        BY <1>1, ControlForms DEF Attach, CRTypeOK
      <3> QED
        BY <1>1, <3>1 DEF Attach, flow, CRTypeOK, Phases, Before, Uploads, Follows
    <2>2. BegunInv' /\ PlaceInv'
      BY <1>1 DEF Attach, flow, Watching, NoController, BegunInv, PlaceInv, Before, Uploads,
         Follows
    <2>3. ControlInv' /\ StreamInv'
      BY <1>1 DEF Attach, flow, Watching, NoController, ControlInv, StreamInv, Settled
    <2>4. ExitInv'
      BY <1>1 DEF Attach, flow, Watching, NoController, ExitInv, BegunInv, PlaceInv, ControlInv,
         StreamInv, Settled, CRTypeOK, Controls
    <2> QED
      BY <2>1, <2>2, <2>3, <2>4
  <1>2. CASE Admitted
    <2>1. FullTypeOK'
      <3>1. worker' \in BOOLEAN
        BY <1>2, HandOffTyped DEF Admitted, CRTypeOK
      <3>2. pc' \in Phases
        BY <1>2 DEF Admitted, Phases, Follows, CRTypeOK
      <3> QED
        BY <1>2, <3>1, <3>2 DEF Admitted, flow, CRTypeOK, Phases, Before, Uploads, Follows
    <2>2. BegunInv' /\ PlaceInv'
      BY <1>2 DEF Admitted, flow, HandOff, BegunInv, PlaceInv, Before, Uploads, Follows
    <2>3. ControlInv' /\ StreamInv'
      BY <1>2 DEF Admitted, flow, HandOff, ControlInv, StreamInv, Settled
    <2>4. ExitInv'
      BY <1>2 DEF Admitted, flow, HandOff, ExitInv
    <2> QED
      BY <2>1, <2>2, <2>3, <2>4
  <1>3. CASE StreamEnds
    <2>1. FullTypeOK'
      BY <1>3 DEF StreamEnds, flow, CRTypeOK, Phases, Before, Uploads, Follows
    <2>2. BegunInv' /\ PlaceInv'
      BY <1>3 DEF StreamEnds, flow, BegunInv, PlaceInv, Before, Uploads, Follows
    <2>3. ControlInv' /\ StreamInv'
      BY <1>3 DEF StreamEnds, flow, ControlInv, StreamInv, Settled
    <2>4. ExitInv'
      BY <1>3 DEF StreamEnds, flow, ExitInv
    <2> QED
      BY <2>1, <2>2, <2>3, <2>4
  <1>4. CASE StreamDetached
    <2>1. FullTypeOK'
      <3>1. worker' \in BOOLEAN
        BY <1>4, HandOffTyped DEF StreamDetached, CRTypeOK
      <3> QED
        BY <1>4, <3>1 DEF StreamDetached, flow, CRTypeOK, Phases, Before, Uploads, Follows
    <2>2. BegunInv' /\ PlaceInv'
      BY <1>4 DEF StreamDetached, flow, HandOff, BegunInv, PlaceInv, Before, Uploads, Follows
    <2>3. ControlInv' /\ StreamInv'
      BY <1>4 DEF StreamDetached, flow, HandOff, ControlInv, StreamInv, Settled
    <2>4. ExitInv'
      BY <1>4 DEF StreamDetached, flow, HandOff, ExitInv
    <2> QED
      BY <2>1, <2>2, <2>3, <2>4
  <1>5. CASE StreamFailed
    <2>1. FullTypeOK'
      <3>1. ctl' \in Controls /\ worker' \in BOOLEAN /\ said' \in SUBSET Warnings
        BY <1>5, StoppedKeeps, HandOffTyped DEF StreamFailed, Say, Warnings, CRTypeOK
      <3> QED
        BY <1>5, <3>1 DEF StreamFailed, flow, CRTypeOK, Phases, Before, Uploads, Follows
    <2>2. BegunInv' /\ PlaceInv'
      BY <1>5 DEF StreamFailed, flow, HandOff, Say, Stopped, BegunInv, PlaceInv, Before, Uploads,
         Follows
    <2>3. ControlInv' /\ StreamInv'
      BY <1>5 DEF StreamFailed, flow, HandOff, Say, Stopped, ControlInv, StreamInv, Settled
    <2>4. ExitInv'
      BY <1>5 DEF StreamFailed, flow, HandOff, Say, Stopped, ExitInv
    <2> QED
      BY <2>1, <2>2, <2>3, <2>4
  <1>6. CASE StreamTerminal
    <2>1. FullTypeOK'
      BY <1>6 DEF StreamTerminal, flow, CRTypeOK, Phases, Before, Uploads, Follows
    <2>2. BegunInv' /\ PlaceInv'
      BY <1>6 DEF StreamTerminal, flow, BegunInv, PlaceInv, Before, Uploads, Follows
    <2>3. ControlInv' /\ StreamInv'
      BY <1>6 DEF StreamTerminal, flow, ControlInv, StreamInv, Settled
    <2>4. ExitInv'
      BY <1>6 DEF StreamTerminal, flow, ExitInv
    <2> QED
      BY <2>1, <2>2, <2>3, <2>4
  <1> QED
    BY <1>1, <1>2, <1>3, <1>4, <1>5, <1>6

\* Letting go of the terminal, and the exit codes of a detached or finished run.
LEMMA EndKeeps ==
    ASSUME CRInv,
           completeRunDetach \/ completeDetach \/ releaseAtTerminal \/
           InterruptedAtTerminal \/ finishTerminalChanges
    PROVE  CRInv'
  <1> USE DEF CRInv, FullTypeOK, runnervars, termvars
  <1>1. CASE completeRunDetach
    <2>1. FullTypeOK'
      <3>1. ctl' \in Controls
        BY <1>1, StoppedKeeps, ControlUpdates DEF completeRunDetach, Release, TakeFirst, CRTypeOK
      <3>2. sig' \in 0 .. 2
        BY <1>1 DEF completeRunDetach, Release, NothingPending, CRTypeOK
      <3>3. on' \in BOOLEAN
        BY <1>1 DEF completeRunDetach, Release, CRTypeOK
      <3>4. pc' \in Phases /\ exit' \in {"none", "0", "remote", "130", "txn", "killed"}
        BY <1>1 DEF completeRunDetach, Release, Phases, Follows, CRTypeOK
      <3> QED
        BY <1>1, <3>1, <3>2, <3>3, <3>4 DEF completeRunDetach, flow, CRTypeOK, Phases, Before,
           Uploads, Follows
    <2>2. BegunInv' /\ PlaceInv'
      BY <1>1 DEF completeRunDetach, Release, flow, Stopped, TakeFirst, NothingPending, BegunInv,
         PlaceInv, Before, Uploads, Follows
    <2>3. ControlInv' /\ StreamInv'
      BY <1>1 DEF completeRunDetach, Release, flow, Stopped, TakeFirst, NothingPending,
         ControlInv, StreamInv, PlaceInv, Settled, CRTypeOK, Controls
    <2>4. ExitInv'
      <3> SUFFICES ASSUME pc' = "exited" PROVE ExitInv'
        BY DEF ExitInv
      <3>1. /\ pc = "detach" /\ ctl.st = "watch" /\ sig = 0 /\ sig' = sig /\ Stopped
            /\ exit' = IF opt.apply /\ ~worker THEN "txn" ELSE "0"
            /\ UNCHANGED <<flow, res, worker, said>>
        BY <1>1 DEF completeRunDetach, Release, NothingPending
      <3>2. ctl'.taken = FALSE /\ ctl'.asked = 0
        BY <3>1, StoppedKeeps DEF Controls, ControlInv
      <3>3. res = "none" /\ job[cand] # "none"
        BY <3>1 DEF StreamInv, PlaceInv, Follows
      <3> QED
        BY <3>1, <3>2, <3>3 DEF ExitInv, flow, Settled
    <2> QED
      BY <2>1, <2>2, <2>3, <2>4
  <1>2. CASE completeDetach
    <2>1. FullTypeOK'
      <3>1. ctl' \in Controls /\ said' \in SUBSET Warnings
        BY <1>2, StoppedKeeps DEF completeDetach, Say, Warnings, CRTypeOK
      <3> QED
        BY <1>2, <3>1 DEF completeDetach, flow, CRTypeOK, Phases, Before, Uploads, Follows
    <2>2. BegunInv' /\ PlaceInv'
      BY <1>2 DEF completeDetach, flow, Stopped, Say, BegunInv, PlaceInv, Before, Uploads, Follows
    <2>3. ControlInv' /\ StreamInv'
      BY <1>2 DEF completeDetach, flow, Stopped, Say, ControlInv, StreamInv, Settled
    <2>4. ExitInv'
      BY <1>2 DEF completeDetach, flow, Stopped, Say, ExitInv, BegunInv, PlaceInv, ControlInv,
         StreamInv, Settled, CRTypeOK, Controls
    <2> QED
      BY <2>1, <2>2, <2>3, <2>4
  <1>3. CASE releaseAtTerminal
    <2>1. FullTypeOK'
      <3>1. ctl' \in Controls
        BY <1>3, StoppedKeeps, ControlUpdates DEF releaseAtTerminal, Release, TakeFirst, CRTypeOK
      <3>2. sig' \in 0 .. 2
        BY <1>3 DEF releaseAtTerminal, Release, NothingPending, CRTypeOK
      <3>3. on' \in BOOLEAN
        BY <1>3 DEF releaseAtTerminal, Release, CRTypeOK
      <3>4. pc' \in Phases /\ exit' \in {"none", "0", "remote", "130", "txn", "killed"}
        BY <1>3 DEF releaseAtTerminal, Release, Phases, Follows, CRTypeOK
      <3> QED
        BY <1>3, <3>1, <3>2, <3>3, <3>4 DEF releaseAtTerminal, flow, CRTypeOK, Phases, Before,
           Uploads, Follows
    <2>2. BegunInv' /\ PlaceInv'
      BY <1>3 DEF releaseAtTerminal, Release, flow, Stopped, TakeFirst, NothingPending, BegunInv,
         PlaceInv, Before, Uploads, Follows
    <2>3. ControlInv' /\ StreamInv'
      BY <1>3 DEF releaseAtTerminal, Release, flow, Stopped, TakeFirst, NothingPending,
         ControlInv, StreamInv, PlaceInv, Settled, CRTypeOK, Controls
    <2>4. ExitInv'
      BY <1>3 DEF releaseAtTerminal, Release, flow, Stopped, TakeFirst, NothingPending, ExitInv
    <2> QED
      BY <2>1, <2>2, <2>3, <2>4
  <1>4. CASE InterruptedAtTerminal
    <2>1. FullTypeOK'
      <3>1. ctl' \in Controls /\ worker' \in BOOLEAN /\ said' \in SUBSET Warnings
        BY <1>4, StoppedKeeps, HandOffTyped DEF InterruptedAtTerminal, Say, Warnings, CRTypeOK
      <3> QED
        BY <1>4, <3>1 DEF InterruptedAtTerminal, flow, CRTypeOK, Phases, Before, Uploads, Follows
    <2>2. BegunInv' /\ PlaceInv'
      BY <1>4 DEF InterruptedAtTerminal, flow, HandOff, Stopped, Say, BegunInv, PlaceInv, Before,
         Uploads, Follows
    <2>3. ControlInv' /\ StreamInv'
      BY <1>4 DEF InterruptedAtTerminal, flow, HandOff, Stopped, Say, ControlInv, StreamInv,
         Settled
    <2>4. ExitInv'
      BY <1>4 DEF InterruptedAtTerminal, flow, HandOff, Stopped, Say, ExitInv, BegunInv, PlaceInv,
         ControlInv, StreamInv, Settled, CRTypeOK, Controls
    <2> QED
      BY <2>1, <2>2, <2>3, <2>4
  <1>5. CASE finishTerminalChanges
    <2>1. FullTypeOK'
      BY <1>5 DEF finishTerminalChanges, flow, OnlyIf, exitCode, Succeeded, CRTypeOK, Phases,
         Before, Uploads, Follows
    <2>2. BegunInv' /\ PlaceInv'
      BY <1>5 DEF finishTerminalChanges, flow, OnlyIf, exitCode, Succeeded, BegunInv, PlaceInv,
         Before, Uploads, Follows
    <2>3. ControlInv' /\ StreamInv'
      BY <1>5 DEF finishTerminalChanges, flow, OnlyIf, exitCode, Succeeded, ControlInv, StreamInv,
         Settled
    <2>4. ExitInv'
      BY <1>5 DEF finishTerminalChanges, flow, OnlyIf, exitCode, Succeeded, ExitInv, BegunInv,
         PlaceInv, ControlInv, StreamInv, Settled, CRTypeOK, Controls
    <2> QED
      BY <2>1, <2>2, <2>3, <2>4
  <1> QED
    BY <1>1, <1>2, <1>3, <1>4, <1>5

\* A command that has just started satisfies the invariant.
LEMMA CRInvInit == CRInit => CRInv
  <1> SUFFICES ASSUME CRInit PROVE CRInv
    OBVIOUS
  <1>1. 1 \in Cands /\ opt \in RunOptions /\ cand = 1
    BY ClientRunAssumption DEF CRInit, Cands
  <1>2. FullTypeOK
    <2>1. NoOutcome \in Outcomes
      BY DEF NoOutcome, Outcomes
    <2>2. up \in Uploadings /\ ctl \in Controls
      BY UploadForms, ControlForms DEF CRInit
    <2>3. begun \in BOOLEAN /\ pc \in Phases
      BY <1>1 DEF CRInit, RunOptions, Phases, Before
    <2>4. sig \in 0 .. 2 /\ typed \in 0 .. MaxSignals
      BY ClientRunAssumption DEF CRInit
    <2> QED
      BY <1>1, <2>1, <2>2, <2>3, <2>4 DEF CRInit, FullTypeOK, CRTypeOK, Uploadings, Warnings
  <1>3. BegunInv /\ PlaceInv
    BY <1>1 DEF CRInit, BegunInv, PlaceInv, Before, Uploads, Follows
  <1>4. ControlInv /\ StreamInv /\ ExitInv
    BY ControlForms DEF CRInit, ControlInv, StreamInv, ExitInv
  <1> QED
    BY <1>2, <1>3, <1>4 DEF CRInv

\* CRInv is an invariant of one `errand run` or `errand attach`: every step of the
\* client, the terminal, the controller and the runner keeps it.
THEOREM ClientRunInvariance == CRSpec => []CRInv
  <1>1. CRInit => CRInv
    BY CRInvInit
  <1>2. CRInv /\ [CRNext]_clvars => CRInv'
    <2> SUFFICES ASSUME CRInv, [CRNext]_clvars PROVE CRInv'
      OBVIOUS
    <2>1. CASE CRNext
      BY <2>1, BeforeKeeps, SubmitKeeps, SubmitNotStartedKeeps, RunnerKeeps, TerminalKeeps, ControllerKeeps,
         StreamKeeps, EndKeeps DEF CRNext
    <2>2. CASE UNCHANGED clvars
      BY <2>2 DEF clvars, CRInv, FullTypeOK, CRTypeOK, BegunInv, PlaceInv, ControlInv, StreamInv,
                  ExitInv, Settled
    <2> QED
      BY <2>1, <2>2
  <1> QED
    BY <1>1, <1>2, PTL DEF CRSpec

\* However answers are lost and requests delayed, one invocation runs its command on one
\* runner only, and the client keeps the record it needs to find that job again
\* (client.go: runPrepared, submit; placement.go: tryCandidates).
THEOREM CommandRunsOnce == CRSpec => []RunsOnOneRunner
  <1>1. CRInv => RunsOnOneRunner
    <2> SUFFICES ASSUME CRInv PROVE RunsOnOneRunner
      OBVIOUS
    <2> DEFINE M == {c \in Cands : MayRunAt(c)}
    <2>1. \A c \in M : c = cand
      BY DEF CRInv, PlaceInv, MayRunAt
    <2>2. M \subseteq {cand}
      BY <2>1
    <2>3. IsFiniteSet({cand}) /\ Cardinality({cand}) = 1
      BY FS_Singleton
    <2>4. Cardinality(M) <= 1
      BY <2>2, <2>3, FS_Subset
    <2>5. MayRunAt(cand) => record[cand] = "started"
      BY DEF CRInv, BegunInv, MayRunAt
    <2> QED
      BY <2>1, <2>4, <2>5 DEF RunsOnOneRunner, CRInv, FullTypeOK
  <1> QED
    BY <1>1, ClientRunInvariance, PTL

\* No Ctrl-C is lost and no exit code is a guess: 0, 130 and the job's own code mean what
\* they say, and a run that leaves without knowing says so (interrupts.go: detach,
\* completeDetach; result.go: exitCode).
THEOREM ExitsAccounted == CRSpec => []ExitAccounted
  <1>1. CRInv => ExitAccounted
    <2> SUFFICES ASSUME CRInv PROVE InterruptAccounted /\ ExitTruthful
      BY DEF ExitAccounted
    <2>1. ~begun => \A c \in Cands : ~MayRunAt(c)
      BY DEF CRInv, BegunInv, PlaceInv, MayRunAt
    <2>2. ~begun \/ Settled(cand) => job[cand] # "running"
      BY DEF CRInv, BegunInv, Settled
    <2>3. ctl.asked = 0 => ~(ctl.confirmed < ctl.asked)
      BY DEF CRInv, FullTypeOK, Controls
    <2>4. InterruptAccounted
      BY <2>1, <2>2, <2>3 DEF CRInv, ExitInv, InterruptAccounted
    <2>5. ExitTruthful
      BY DEF CRInv, ExitInv, ExitTruthful
    <2> QED
      BY <2>4, <2>5
  <1> QED
    BY <1>1, ClientRunInvariance, PTL

-----------------------------------------------------------------------------
(***************************************************************************)
(* The conversation of a run with its cloud peers, proved for every number *)
(* of peers, leases and restarts: it holds leases of one peer at most, and *)
(* "nothing was started" is true and stays true (LeaseFromOne).            *)
(*                                                                         *)
(* The argument: a peer that was turned away from has no copy of the       *)
(* request left and handed nothing out, because the next peer is asked     *)
(* only after a refusal of the first attempt, when no second one exists;   *)
(* and a peer told of the withdrawal either remembers it or restarted,     *)
(* which took the copies in flight with it.                                *)
(***************************************************************************)

Posts  == [kind : {"unsent", "flight", "lost", "lease", "refused", "error"}, id : 0 .. LeasesEach]
Leases == [is : {"none", "launching", "ready", "releasing", "ended"}, for : SUBSET {Run, Other}]

LRTypeOK ==
    /\ phase \in {"ask", "waiting", "follow", "probe", "placed", "withdraw", "failed"}
    /\ peer \in Peers /\ try \in Tries
    /\ post \in [Peers -> [Tries -> Posts]]
    /\ leaseOf \in [Peers -> [LeaseIds -> Leases]]
    /\ refuses \subseteq Peers /\ reboots \in Nat

\* No copy of the request is on its way to peer p.
Quiet(p) == \A t \in Tries : post[p][t] # Flying

HoldsNone(p) == HandedIn(p, Run) = {}

\* A peer not asked yet has seen no copy of the request.
AheadInv ==
    \A p \in Peers : p > peer => HoldsNone(p) /\ \A t \in Tries : post[p][t] = Unsent

\* A peer that was passed over started nothing and has nothing left to answer.
BehindInv == \A p \in Peers : p < peer => HoldsNone(p) /\ Quiet(p)

\* While the first attempt is the only one, a lease handed out is its answer.
FirstTryInv ==
    \A p \in Peers : p = peer /\ try = 0 =>
        /\ post[p][1] = Unsent
        /\ phase = "ask" => post[p][0] = Unsent
        /\ HoldsNone(p) \/ post[p][0].kind = "lease"

\* "Nothing was started" is said once and at the end, by a peer that remembers the
\* withdrawal unless no copy of the request is left.
ToldInv ==
    \A p \in Peers : p = peer /\ told = "nothing" =>
        phase = "failed" /\ HoldsNone(p) /\ (p \in refuses \/ Quiet(p))

LRInv == LRTypeOK /\ AheadInv /\ BehindInv /\ FirstTryInv /\ ToldInv

-----------------------------------------------------------------------------
\* The three kinds of entry a copy of the request starts from or ends in differ.
LEMMA PostsDiffer ==
    /\ Unsent # Flying /\ Lost # Flying /\ Unsent.kind = "unsent" /\ Flying.kind = "flight"
    /\ Unsent \in Posts /\ Flying \in Posts /\ Lost \in Posts
    /\ \A kind \in {"refused", "error", "lease"}, id \in 0 .. LeasesEach :
          Answer(kind, id) \in Posts /\ Answer(kind, id).kind = kind /\ Answer(kind, id) # Flying
  <1>1. 0 \in 0 .. LeasesEach
    BY LeaseRunAssumption
  <1>2. Unsent.kind = "unsent" /\ Flying.kind = "flight" /\ Lost.kind = "lost"
    BY DEF Unsent, Flying, Lost
  <1>3. Unsent \in Posts /\ Flying \in Posts /\ Lost \in Posts
    BY <1>1 DEF Unsent, Flying, Lost, Posts
  <1>4. ASSUME NEW kind \in {"refused", "error", "lease"}, NEW id \in 0 .. LeasesEach
        PROVE  Answer(kind, id) \in Posts /\ Answer(kind, id).kind = kind
    BY DEF Answer, Posts
  <1> QED
    BY <1>2, <1>3, <1>4

\* The newest of the leases handed to the run is one of them (NewestOf's CHOOSE).
LEMMA NewestIsOne ==
    ASSUME NEW S \in SUBSET LeaseIds, S # {}
    PROVE  NewestOf(S) \in S
  <1> DEFINE gaps == {n \in Nat : \E k \in S : n = LeasesEach - k}
  <1>1. \A k \in S : k \in Nat /\ LeasesEach - k \in gaps
    BY LeaseRunAssumption DEF LeaseIds
  <1>2. gaps # {} /\ gaps \subseteq Nat
    BY <1>1
  <1> HIDE DEF gaps
  <1>3. PICK g \in gaps : \A n \in gaps : ~(<<n, g>> \in OpToRel(<, Nat))
    BY <1>2, NatLessThanWellFounded, WFMin
  <1>4. \A n \in gaps : ~(n < g)
    BY <1>2, <1>3 DEF OpToRel
  <1>5. PICK l \in S : g = LeasesEach - l
    BY <1>3 DEF gaps
  <1>6. \A k \in S : k <= l
    BY <1>1, <1>4, <1>5, LeaseRunAssumption
  <1> QED
    BY <1>6 DEF NewestOf

-----------------------------------------------------------------------------
\* What a step of peer p can do to the request: other peers are not touched, a copy
\* that is not in flight stays as it is, a lease is handed out only as the answer to
\* a copy in flight and only by a peer that does not refuse, and a withdrawal is
\* forgotten only with the copies in flight.
PeerEffect(p) ==
    /\ UNCHANGED runVars
    /\ \A q \in Peers \ {p} :
          post'[q] = post[q] /\ leaseOf'[q] = leaseOf[q] /\ (q \in refuses => q \in refuses')
    /\ \A t \in Tries : post[p][t] # Flying => post'[p][t] = post[p][t]
    /\ HoldsNone(p) => \/ HoldsNone(p)'
                       \/ \E t \in Tries : /\ post[p][t] = Flying /\ p \notin refuses
                                           /\ post'[p][t].kind = "lease"
    /\ p \in refuses => p \in refuses' \/ Quiet(p)'

\* The cloud peers' handlers keep the types.
LEMMA PeerTyped ==
    ASSUME LRTypeOK, NEW p \in Peers, PeerStep(p)
    PROVE  LRTypeOK'
  <1> USE PostsDiffer
  <1>0. phase' = phase /\ peer' = peer /\ try' = try
    BY DEF PeerStep, Reboot, TurnDown, GiveAgain, RefuseWithdrawn, GiveShared, GiveNew,
           OtherAsks, OtherWithdraws, WorkerMoves, runVars
  <1>1. ASSUME NEW t \in Tries, NEW a \in Posts, Reply(p, t, a)
        PROVE  post' \in [Peers -> [Tries -> Posts]]
    BY <1>1 DEF Reply, LRTypeOK
  <1>2. ASSUME NEW l \in LeaseIds, NEW r \in Leases, Set(p, l, r)
        PROVE  leaseOf' \in [Peers -> [LeaseIds -> Leases]]
    BY <1>2 DEF Set, LRTypeOK
  <1>3. \A l \in LeaseIds : l \in 0 .. LeasesEach /\ leaseOf[p][l] \in Leases
    BY LeaseRunAssumption DEF LeaseIds, LRTypeOK
  <1>4. 0 \in 0 .. LeasesEach
    BY LeaseRunAssumption
  <1>5. ASSUME NEW r \in Leases, NEW q
        PROVE  Without(r, q) \in Leases
    BY DEF Without, Leases
  <1>6. CASE Reboot(p)
    <2>1. post' \in [Peers -> [Tries -> Posts]]
      BY <1>6 DEF Reboot, LRTypeOK
    <2>2. \A l \in LeaseIds : [leaseOf[p][l] EXCEPT !.is = "releasing"] \in Leases
      BY <1>3 DEF Leases
    <2>3. leaseOf' \in [Peers -> [LeaseIds -> Leases]]
      BY <1>6, <2>2 DEF Reboot, LRTypeOK
    <2>4. refuses' \subseteq Peers /\ reboots' \in Nat
      BY <1>6 DEF Reboot, LRTypeOK
    <2> QED
      BY <1>0, <2>1, <2>3, <2>4 DEF LRTypeOK
  <1>7. ASSUME NEW t \in Tries, TurnDown(p, t) \/ GiveAgain(p, t) \/ RefuseWithdrawn(p, t)
        PROVE  LRTypeOK'
    <2>1. HandedIn(p, Run) # {} => NewestOf(HandedIn(p, Run)) \in LeaseIds
      BY NewestIsOne DEF HandedIn
    <2>2. \E a \in Posts : Reply(p, t, a)
      BY <1>3, <1>4, <1>7, <2>1 DEF TurnDown, GiveAgain, RefuseWithdrawn
    <2>3. UNCHANGED peerVars
      BY <1>7 DEF TurnDown, GiveAgain, RefuseWithdrawn
    <2> QED
      BY <1>0, <1>1, <2>2, <2>3 DEF LRTypeOK, peerVars
  <1>8. ASSUME NEW t \in Tries, NEW l \in LeaseIds, GiveShared(p, t, l) \/ GiveNew(p, t, l)
        PROVE  LRTypeOK'
    <2>1. Reply(p, t, Answer("lease", l)) /\ UNCHANGED <<refuses, reboots>>
      BY <1>8 DEF GiveShared, GiveNew, Accepts
    <2>2. [leaseOf[p][l] EXCEPT !.for = @ \cup {Run}] \in Leases
          /\ [is |-> "launching", for |-> {Run}] \in Leases
      BY <1>3 DEF Leases
    <2>3. \E r \in Leases : Set(p, l, r)
      BY <1>8, <2>2 DEF GiveShared, GiveNew
    <2> QED
      BY <1>0, <1>1, <1>2, <1>3, <2>1, <2>3 DEF LRTypeOK
  <1>9. ASSUME NEW l \in LeaseIds, OtherAsks(p, l) \/ OtherWithdraws(p, l) \/ WorkerMoves(p, l)
        PROVE  LRTypeOK'
    <2>1. UNCHANGED <<post, refuses, reboots>>
      BY <1>9 DEF OtherAsks, OtherWithdraws, WorkerMoves
    <2>2. [is |-> "launching", for |-> leaseOf[p][l].for \cup {Other}] \in Leases
          /\ \A to \in {"ready", "releasing", "ended"} : [leaseOf[p][l] EXCEPT !.is = to] \in Leases
      BY <1>3 DEF Leases
    <2>3. \E r \in Leases : Set(p, l, r)
      BY <1>3, <1>5, <1>9, <2>2 DEF OtherAsks, OtherWithdraws, WorkerMoves
    <2> QED
      BY <1>0, <1>2, <2>1, <2>3 DEF LRTypeOK
  <1> QED
    BY <1>6, <1>7, <1>8, <1>9 DEF PeerStep

\* Every step of a cloud peer has one of those effects.
LEMMA PeerEffectLemma ==
    ASSUME LRTypeOK, NEW p \in Peers, PeerStep(p)
    PROVE  PeerEffect(p)
  <1> USE PostsDiffer
  <1>1. UNCHANGED runVars
    BY DEF PeerStep, Reboot, TurnDown, GiveAgain, RefuseWithdrawn, GiveShared, GiveNew,
           OtherAsks, OtherWithdraws, WorkerMoves
  <1>2. ASSUME NEW t \in Tries, NEW a, Reply(p, t, a)
        PROVE  /\ \A q \in Peers \ {p} : post'[q] = post[q]
               /\ \A u \in Tries \ {t} : post'[p][u] = post[p][u]
               /\ post'[p][t] = a
    BY <1>2 DEF Reply, LRTypeOK
  <1>3. ASSUME NEW l \in LeaseIds, NEW r, Set(p, l, r)
        PROVE  /\ \A q \in Peers \ {p} : leaseOf'[q] = leaseOf[q]
               /\ \A k \in LeaseIds \ {l} : leaseOf'[p][k] = leaseOf[p][k]
               /\ leaseOf'[p][l] = r
    BY <1>3 DEF Set, LRTypeOK
  <1>4. CASE Reboot(p)
    <2>1. /\ \A q \in Peers \ {p} : post'[q] = post[q] /\ leaseOf'[q] = leaseOf[q]
          /\ \A t \in Tries : post'[p][t] = IF post[p][t] = Flying THEN Lost ELSE post[p][t]
      BY <1>4 DEF Reboot, LRTypeOK
    <2>2. \A l \in LeaseIds : leaseOf'[p][l].for = leaseOf[p][l].for
      BY <1>4 DEF Reboot, LRTypeOK, Leases
    <2>3. HoldsNone(p)' <=> HoldsNone(p)
      BY <2>2 DEF HoldsNone, HandedIn
    <2> QED
      BY <1>1, <1>4, <2>1, <2>3 DEF PeerEffect, Quiet, Reboot
  <1>5. ASSUME NEW t \in Tries, TurnDown(p, t) \/ GiveAgain(p, t) \/ RefuseWithdrawn(p, t)
        PROVE  PeerEffect(p)
    <2>1. post[p][t] = Flying /\ (\E a : Reply(p, t, a)) /\ UNCHANGED peerVars
      BY <1>5 DEF TurnDown, GiveAgain, RefuseWithdrawn
    <2>2. HoldsNone(p)' <=> HoldsNone(p)
      BY <2>1 DEF HoldsNone, HandedIn, peerVars
    <2> QED
      BY <1>1, <1>2, <2>1, <2>2 DEF PeerEffect, peerVars
  <1>6. ASSUME NEW t \in Tries, NEW l \in LeaseIds, GiveShared(p, t, l) \/ GiveNew(p, t, l)
        PROVE  PeerEffect(p)
    <2>1. /\ post[p][t] = Flying /\ p \notin refuses /\ Reply(p, t, Answer("lease", l))
          /\ (\E r : Set(p, l, r)) /\ UNCHANGED refuses
      BY <1>6 DEF GiveShared, GiveNew, Accepts
    <2>2. post'[p][t].kind = "lease"
      BY <1>2, <2>1 DEF Answer
    <2> QED
      BY <1>1, <1>2, <1>3, <2>1, <2>2 DEF PeerEffect
  <1>7. ASSUME NEW l \in LeaseIds, OtherAsks(p, l) \/ OtherWithdraws(p, l) \/ WorkerMoves(p, l)
        PROVE  PeerEffect(p)
    <2>1. UNCHANGED <<post, refuses>>
      BY <1>7 DEF OtherAsks, OtherWithdraws, WorkerMoves
    <2>2. leaseOf[p][l] \in Leases
      BY DEF LRTypeOK
    <2>3. \E r \in Leases : Set(p, l, r) /\ (Run \in r.for => Run \in leaseOf[p][l].for)
      <3>1. CASE OtherAsks(p, l)
        <4> DEFINE r == [is |-> "launching", for |-> leaseOf[p][l].for \cup {Other}]
        <4>1. r \in Leases /\ r.for = leaseOf[p][l].for \cup {Other}
          BY <2>2 DEF Leases
        <4>2. Run # Other
          BY DEF Run, Other
        <4> QED
          BY <3>1, <4>1, <4>2 DEF OtherAsks
      <3>2. CASE OtherWithdraws(p, l)
        BY <2>2, <3>2 DEF OtherWithdraws, Without, Leases
      <3>3. CASE WorkerMoves(p, l)
        BY <2>2, <3>3 DEF WorkerMoves, Leases
      <3> QED
        BY <1>7, <3>1, <3>2, <3>3
    <2>4. HoldsNone(p) => HoldsNone(p)'
      BY <1>3, <2>3 DEF HoldsNone, HandedIn
    <2> QED
      BY <1>1, <1>3, <2>1, <2>3, <2>4 DEF PeerEffect
  <1> QED
    BY <1>4, <1>5, <1>6, <1>7 DEF PeerStep

-----------------------------------------------------------------------------
(* The invariant and the theorems.                                         *)

\* A run that has asked nobody satisfies the invariant.
LEMMA LRInvInit == LRInit => LRInv
  <1> SUFFICES ASSUME LRInit PROVE LRInv
    OBVIOUS
  <1> USE PostsDiffer
  <1>1. 1 \in Peers /\ 0 \in Tries
    BY LeaseRunAssumption DEF Peers, Tries
  <1>2. Unmade \in Leases /\ Unmade.for = {}
    BY DEF Unmade, Leases
  <1>3. LRTypeOK
    BY <1>1, <1>2 DEF LRInit, LRTypeOK
  <1>4. \A p \in Peers : HoldsNone(p) /\ \A t \in Tries : post[p][t] = Unsent
    BY <1>2 DEF LRInit, HoldsNone, HandedIn
  <1> QED
    BY <1>1, <1>3, <1>4 DEF LRInit, LRInv, AheadInv, BehindInv, FirstTryInv, ToldInv, Quiet, Tries

\* A step of a cloud peer keeps what the run relies on.
LEMMA PeerKeeps ==
    ASSUME LRInv, NEW p \in Peers, PeerStep(p)
    PROVE  LRInv'
  <1> USE PostsDiffer
  <1>1. LRTypeOK' /\ PeerEffect(p)
    BY PeerTyped, PeerEffectLemma DEF LRInv
  <1>2. \A q \in Peers \ {p} : (HoldsNone(q)' <=> HoldsNone(q)) /\ (Quiet(q)' <=> Quiet(q))
    BY <1>1 DEF PeerEffect, HoldsNone, HandedIn, Quiet
  <1>3. Quiet(p) => Quiet(p)' /\ (HoldsNone(p) => HoldsNone(p)')
    BY <1>1 DEF PeerEffect, Quiet
  <1>4. phase' = phase /\ peer' = peer /\ try' = try /\ told' = told
    BY <1>1 DEF PeerEffect, runVars
  <1>5. AheadInv'
    BY <1>1, <1>2, <1>3, <1>4 DEF LRInv, AheadInv, PeerEffect, Quiet
  <1>6. BehindInv'
    BY <1>2, <1>3, <1>4 DEF LRInv, BehindInv
  <1>7. FirstTryInv'
    BY <1>1, <1>2, <1>4 DEF LRInv, FirstTryInv, PeerEffect, Tries
  <1>8. ToldInv'
    BY <1>1, <1>2, <1>3, <1>4 DEF LRInv, ToldInv, PeerEffect
  <1> QED
    BY <1>1, <1>5, <1>6, <1>7, <1>8 DEF LRInv

\* The run's own steps: they hand out no lease, and only Ask puts a copy in flight.
LEMMA RunKeeps ==
    ASSUME LRInv, RunStep
    PROVE  LRInv'
  <1> USE PostsDiffer
  <1>1. /\ LRTypeOK /\ peer \in Peers /\ Tries = {0, 1} /\ Peers \subseteq Nat
        /\ AheadInv /\ BehindInv /\ FirstTryInv /\ ToldInv
    BY DEF LRInv, LRTypeOK, Tries, Peers
  <1>2. CASE Ask
    <2>1. /\ phase = "ask" /\ phase' = "waiting"
          /\ UNCHANGED <<peer, try, told, leaseOf, refuses, reboots>>
          /\ \A q \in Peers \ {peer} : post'[q] = post[q]
          /\ post'[peer] = [post[peer] EXCEPT ![try] = Flying]
          /\ post' \in [Peers -> [Tries -> Posts]]
      BY <1>1, <1>2 DEF Ask, Goes, LRTypeOK, peerVars
    <2>2. LRTypeOK'
      BY <1>1, <2>1 DEF LRTypeOK
    <2>3. \A q \in Peers : (HoldsNone(q)' <=> HoldsNone(q)) /\ (q # peer => (Quiet(q)' <=> Quiet(q)))
      BY <2>1 DEF HoldsNone, HandedIn, Quiet
    <2>4. AheadInv' /\ BehindInv'
      BY <1>1, <2>1, <2>3 DEF AheadInv, BehindInv
    <2>5. FirstTryInv'
      BY <1>1, <2>1, <2>3 DEF FirstTryInv, LRTypeOK
    <2>6. ToldInv'
      BY <1>1, <2>1 DEF ToldInv
    <2> QED
      BY <2>2, <2>4, <2>5, <2>6 DEF LRInv
  <1>3. ASSUME /\ UNCHANGED <<peer, post, leaseOf, reboots>>
               /\ phase' \in {"ask", "waiting", "follow", "probe", "placed", "withdraw", "failed"}
               /\ \/ try' = try /\ (phase' = "ask" => phase = "ask")
                  \/ try' = 1
               /\ \/ told' # "nothing" /\ refuses' = refuses
                  \/ told' = told /\ phase # "failed" /\ refuses' = refuses
                  \/ UNCHANGED <<told, phase, refuses>>
                  \/ refuses' = refuses \cup {peer} /\ HoldsNone(peer) /\ phase' = "failed"
        PROVE  LRInv'
    <2>1. LRTypeOK'
      BY <1>1, <1>3 DEF LRTypeOK, Tries
    <2>2. \A q \in Peers : (HoldsNone(q)' <=> HoldsNone(q)) /\ (Quiet(q)' <=> Quiet(q))
      BY <1>3 DEF HoldsNone, HandedIn, Quiet
    <2>3. AheadInv' /\ BehindInv'
      BY <1>1, <1>3, <2>2 DEF AheadInv, BehindInv
    <2>4. FirstTryInv'
      BY <1>1, <1>3, <2>2 DEF FirstTryInv
    <2>5. ToldInv'
      BY <1>1, <1>3, <2>2 DEF ToldInv
    <2> QED
      BY <2>1, <2>3, <2>4, <2>5 DEF LRInv
  <1>4. CASE AskNext
    <2>1. /\ phase = "waiting" /\ post[peer][try].kind = "refused" /\ try = 0 /\ peer < Suppliers
          /\ phase' = "ask" /\ peer' = peer + 1 /\ try' = 0
          /\ UNCHANGED <<told, post, leaseOf, refuses, reboots>>
      BY <1>1, <1>4 DEF AskNext, Goes, Refusal, Uncertain, peerVars, LRTypeOK
    <2>2. peer' \in Peers
      BY <1>1, <2>1, LeaseRunAssumption DEF Peers
    <2>3. LRTypeOK'
      BY <1>1, <2>1, <2>2 DEF LRTypeOK
    <2>4. \A q \in Peers : (HoldsNone(q)' <=> HoldsNone(q)) /\ (Quiet(q)' <=> Quiet(q))
      BY <2>1 DEF HoldsNone, HandedIn, Quiet
    <2>5. HoldsNone(peer) /\ Quiet(peer)
      BY <1>1, <2>1 DEF FirstTryInv, Quiet
    <2>6. AheadInv'
      <3>1. peer \in Int /\ \A q \in Peers : q \in Int /\ (q > peer + 1 => q > peer)
        BY <1>1, LeaseRunAssumption DEF LRTypeOK, Peers
      <3>2. \A q \in Peers : q > peer' => q > peer
        BY <2>1, <3>1
      <3> QED
        BY <1>1, <2>1, <2>4, <3>2 DEF AheadInv
    <2>7. BehindInv'
      <3> SUFFICES ASSUME NEW q \in Peers, q < peer + 1 PROVE HoldsNone(q)' /\ Quiet(q)'
        BY <2>1 DEF BehindInv
      <3>1. q < peer \/ q = peer
        BY <1>1
      <3> QED
        BY <1>1, <2>4, <2>5, <3>1 DEF BehindInv
    <2>8. FirstTryInv'
      <3>1. HoldsNone(peer + 1) /\ \A t \in Tries : post[peer + 1][t] = Unsent
        BY <1>1, <2>1, <2>2 DEF AheadInv
      <3> QED
        BY <1>1, <2>1, <2>2, <2>4, <3>1 DEF FirstTryInv
    <2>9. ToldInv'
      BY <1>1, <2>1 DEF ToldInv
    <2> QED
      BY <2>3, <2>6, <2>7, <2>8, <2>9 DEF LRInv
  <1>5. ASSUME NEW l \in LeaseIds, WithdrawHanded(l)
        PROVE  LRInv'
    <2> DEFINE r == Without(leaseOf[peer][l], Run)
    <2>1. /\ phase = "withdraw" /\ phase' = "failed" /\ ~HoldsNone(peer)
          /\ Set(peer, l, r) /\ told' \in {Says(r.is), "unknown"}
          /\ UNCHANGED <<peer, try, post, refuses, reboots>>
      BY <1>5 DEF WithdrawHanded, Goes, HoldsNone
    <2>2. leaseOf[peer][l] \in Leases
      BY <1>1 DEF LRTypeOK
    <2>3. r \in Leases /\ (Run \in r.for => Run \in leaseOf[peer][l].for)
      BY <2>2 DEF Without, Leases
    <2>4. told' # "nothing"
      BY <2>1 DEF Says
    <2> HIDE DEF r
    <2>5. /\ leaseOf' \in [Peers -> [LeaseIds -> Leases]]
          /\ \A q \in Peers \ {peer} : leaseOf'[q] = leaseOf[q]
      BY <1>1, <2>1, <2>3 DEF Set, LRTypeOK
    <2>6. LRTypeOK'
      BY <1>1, <2>1, <2>5 DEF LRTypeOK
    <2>7. \A q \in Peers : (Quiet(q)' <=> Quiet(q)) /\ (q # peer => (HoldsNone(q)' <=> HoldsNone(q)))
      BY <2>1, <2>5 DEF HoldsNone, HandedIn, Quiet
    <2>8. AheadInv' /\ BehindInv'
      BY <1>1, <2>1, <2>7 DEF AheadInv, BehindInv
    <2>9. FirstTryInv'
      BY <1>1, <2>1 DEF FirstTryInv
    <2> QED
      BY <2>4, <2>6, <2>8, <2>9 DEF LRInv, ToldInv
  <1>6. CASE Unanswered
    BY <1>1, <1>3, <1>6 DEF Unanswered, Goes, peerVars, LRTypeOK
  <1>7. CASE Given \/ Doubt \/ NoMachine \/ Follow \/ ReadyLease
    BY <1>1, <1>3, <1>7 DEF Given, Doubt, NoMachine, Follow, ReadyLease, Goes, peerVars
  <1>8. CASE Interrupt
    BY <1>1, <1>3, <1>8 DEF Interrupt, peerVars, LRTypeOK
  <1>9. CASE WithdrawUnknown
    BY <1>1, <1>3, <1>9 DEF WithdrawUnknown, Goes, HoldsNone
  <1>10. CASE WithdrawFails
    BY <1>1, <1>3, <1>10 DEF WithdrawFails, Goes, peerVars
  <1> QED
    BY <1>2, <1>4, <1>5, <1>6, <1>7, <1>8, <1>9, <1>10 DEF RunStep

\* LRInv is an invariant of the conversation: leaseRunner, withdrawLease and the
\* broker's request handlers keep it, whatever is lost, delayed or restarted.
THEOREM LeaseRunInvariance == LRSpec => []LRInv
  <1>1. LRInit => LRInv
    BY LRInvInit
  <1>2. LRInv /\ [LRNext]_lrVars => LRInv'
    <2> SUFFICES ASSUME LRInv, [LRNext]_lrVars PROVE LRInv'
      OBVIOUS
    <2>1. CASE RunStep
      BY <2>1, RunKeeps
    <2>2. CASE \E p \in Peers : PeerStep(p)
      BY <2>2, PeerKeeps
    <2>3. CASE UNCHANGED lrVars
      BY <2>3 DEF lrVars, runVars, peerVars, LRInv, LRTypeOK, AheadInv, BehindInv, FirstTryInv,
                  ToldInv, HoldsNone, HandedIn, Quiet
    <2> QED
      BY <2>1, <2>2, <2>3 DEF LRNext
  <1> QED
    BY <1>1, <1>2, PTL DEF LRSpec

\* However requests and answers are lost, delayed or cut off by a restart, a run holds
\* leases of one cloud peer at most, and when it says that nothing was started, nothing
\* was and nothing will be (cmd/errand/leases.go: leaseRunner, withdrawLease).
THEOREM LeasesFromOnePeer == LRSpec => []LeaseFromOne
  <1>1. LRInv => LeaseFromOne
    <2> SUFFICES ASSUME LRInv PROVE NothingStarted /\ OneSupplier
      BY DEF LeaseFromOne
    <2> DEFINE H == {p \in Peers : HandedIn(p, Run) # {}}
    <2>1. NothingStarted
      BY DEF LRInv, LRTypeOK, ToldInv, NothingStarted, HoldsNone
    <2>2. \A p \in H : p = peer
      <3> SUFFICES ASSUME NEW p \in Peers, p # peer PROVE HoldsNone(p)
        BY DEF HoldsNone
      <3>1. p < peer \/ p > peer
        BY DEF LRInv, LRTypeOK, Peers
      <3> QED
        BY <3>1 DEF LRInv, AheadInv, BehindInv
    <2>3. H \subseteq {peer}
      BY <2>2
    <2>4. Cardinality({peer}) = 1 /\ IsFiniteSet({peer})
      BY FS_Singleton
    <2>5. Cardinality(H) <= 1
      BY <2>3, <2>4, FS_Subset
    <2> QED
      BY <2>1, <2>5 DEF OneSupplier
  <1> QED
    BY <1>1, LeaseRunInvariance, PTL

-----------------------------------------------------------------------------
\* Every behaviour of the two put together is one of each conversation: a
\* conversation out of focus stays where it began, and the bounds on the third
\* Ctrl-C and on the peers not asked yet only leave behaviours out.
THEOREM BothConversations == RLSpec => CRSpec /\ LRSpec
  <1>1. RLInit => CRInit /\ LRInit
    BY DEF RLInit
  <1>2. [RLNext]_<<focus, clvars, lrVars>> => [CRNext]_clvars /\ [LRNext]_lrVars
    BY DEF RLNext
  <1> QED
    BY <1>1, <1>2, PTL DEF RLSpec, CRSpec, LRSpec

\* What `errand run` promises, of the command as a whole: the job runs on one
\* runner, the exit code is true, and leases are taken from one peer at most.
THEOREM RunPromises == RLSpec => [](RunsOnOneRunner /\ ExitAccounted /\ LeaseFromOne)
  BY BothConversations, CommandRunsOnce, ExitsAccounted, LeasesFromOnePeer, PTL
=============================================================================
