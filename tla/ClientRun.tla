----------------------------- MODULE ClientRun -----------------------------
(***************************************************************************)
(* `errand run` and `errand attach`: one client process that prepares a    *)
(* snapshot, submits it to the candidates in order, streams the job,       *)
(* forwards Ctrl-C, detaches on end of file and turns the outcome into an  *)
(* exit code (client.go, interrupts.go, placement.go, result.go).          *)
(* Requests may be delivered after the client gave up on them, and answers *)
(* may be lost.  Each candidate is offered a job identifier of its own,    *)
(* so the job at candidate c is job c.                                     *)
(***************************************************************************)
EXTENDS Integers, FiniteSets

CONSTANTS Candidates,  \* number of runners, tried in order
          Attempts,    \* submitAttempts: tries of one upload
          MaxSignals   \* bound: Ctrl-Cs typed

ASSUME ClientRunAssumption ==
    Candidates \in Nat \ {0} /\ Attempts \in Nat \ {0} /\ MaxSignals \in Nat

Cands == 1..Candidates
RunOptions == [attach: BOOLEAN, where: BOOLEAN, detach: BOOLEAN, apply: BOOLEAN]
Outcomes == [kind: {"zero", "nonzero", "signal", "starterror", "nothing"},
             ambiguous: BOOLEAN, complete: BOOLEAN]

VARIABLES opt,     \* how the command was started
          cand,    \* candidate tried now
          pc,      \* where runPrepared or attach is
          record,  \* per candidate: local change state "none", "init", "started"
          begun,   \* submissionStarted
          job,     \* per candidate: "none", "running", "done"
          outcome, \* the result of the job that is done
          late,    \* per candidate: may an abandoned request still arrive?
          ans,     \* request on the wire: "none", "sent", or its answer
          up,      \* upload: attempt number, partial snapshot, uncertain admission
          ctl,     \* admittedJobController
          sig,     \* sigCh: queued Ctrl-Cs
          on,      \* are Ctrl-Cs delivered to sigCh?
          typed,   \* Ctrl-Cs typed so far
          eof,     \* has the terminal's end of file asked to detach?
          res,     \* what streamContext returned
          worker,  \* has an automatic-apply worker been started?
          said,    \* warnings printed
          exit     \* exit code

clvars == <<opt, cand, pc, record, begun, job, outcome, late, ans, up, ctl, sig, on, typed, eof, res, worker, said, exit>>
runnervars == <<job, outcome, late, ans>>
termvars == <<sig, on, typed, eof>>

NoController == [st |-> "off", taken |-> FALSE, asked |-> 0, confirmed |-> 0, forwarded |-> "none"]
Watching == [NoController EXCEPT !.st = "watch"]
NoOutcome == [kind |-> "nothing", ambiguous |-> FALSE, complete |-> FALSE]
FirstUpload == [n |-> 1, partial |-> FALSE, uncertain |-> FALSE]

CRInit ==
    /\ opt \in {o \in RunOptions: o.attach => ~o.where /\ ~o.detach /\ ~o.apply}
    /\ cand = 1 /\ pc = (IF opt.attach THEN "attach" ELSE "prepare") /\ begun = opt.attach
    /\ record = [c \in Cands |-> IF opt.attach /\ c = 1 THEN "started" ELSE "none"]
    /\ job = [c \in Cands |-> IF opt.attach /\ c = 1 THEN "running" ELSE "none"]
    /\ outcome = NoOutcome
    /\ late = [c \in Cands |-> FALSE] /\ ans = "none" /\ up = FirstUpload
    /\ ctl = NoController /\ sig = 0 /\ on = TRUE /\ typed = 0 /\ eof = FALSE
    /\ res = "none" /\ worker = FALSE /\ said = {} /\ exit = "none"

Running == pc \notin {"exited"}
Settled(c) == job[c] = "done"

-----------------------------------------------------------------------------
(* Leaving before anything was submitted: the deferred call discards the   *)
(* record                                                                  *)

Leave(code) ==
    /\ ~begun /\ pc' = "exited" /\ exit' = code
    /\ record' = [record EXCEPT ![cand] = "none"]
    /\ UNCHANGED <<opt, cand, begun, runnervars, up, on, typed, eof, res, ctl, worker, said>>

Say(s) == said' = said \cup s
Stopped == ctl' = [ctl EXCEPT !.st = "done"]

\* ensureAutomaticApplyWorker: launching the worker may fail.
HandOff == worker' \in IF opt.apply THEN {worker, TRUE} ELSE {worker}

-----------------------------------------------------------------------------
(* Before submission                                                       *)

\* Preparing, recording and negotiating each race a Ctrl-C, which is local until admission.
InterruptedBefore ==
    /\ pc \in {"prepare", "init", "negotiate"} /\ sig > 0 /\ sig' = sig - 1
    /\ Leave("130")

FailBefore ==
    /\ pc \in {"prepare", "init", "negotiate", "mark"}
    /\ Leave("txn") /\ UNCHANGED sig

Step(from, to) ==
    /\ pc = from /\ pc' = to
    /\ UNCHANGED <<opt, cand, begun, runnervars, ctl, termvars, res, worker, said, exit>>

prepareSnapshot == Step("prepare", "init") /\ UNCHANGED <<record, up>>

initializeChangeState == Step("init", "negotiate") /\ record' = [record EXCEPT ![cand] = "init"] /\ UNCHANGED up

negotiateSnapshot ==
    /\ Step("negotiate", "mark") /\ UNCHANGED record
    /\ \E partial \in BOOLEAN: up' = [FirstUpload EXCEPT !.partial = partial]

markLocalChangeSubmissionStarted ==
    Step("mark", "admit") /\ record' = [record EXCEPT ![cand] = "started"] /\ UNCHANGED up

\* The linearization point: a Ctrl-C queued now is still local, a later one is the job's.
admitJobController ==
    /\ pc = "admit"
    /\ \/ /\ sig > 0 /\ sig' = sig - 1
          /\ Leave("130")
       \/ /\ sig = 0 /\ ctl' = Watching /\ begun' = TRUE /\ pc' = "submit"
          /\ UNCHANGED <<opt, cand, record, runnervars, up, termvars, res, worker, said, exit>>

-----------------------------------------------------------------------------
(* submit                                                                  *)

\* placementRejection: the runner refused for capacity or requirements.
placementRejection(err) == err = "placement"

submitDefinitelyRejected(err) == err \in {"notstarted", "refused", "placement"}

\* Mutant: the last error decides, whatever happened to earlier tries.
BugDefinite(err) == submitDefinitelyRejected(err)

Definite(err) == ~up.uncertain /\ submitDefinitelyRejected(err)

\* tryCandidates: only a proved rejection before admission asks the next runner.
NextCandidate ==
    /\ cand' = cand + 1 /\ pc' = "init" /\ begun' = FALSE /\ up' = FirstUpload
    /\ record' = [record EXCEPT ![cand] = "none"] /\ ctl' = NoController
    /\ UNCHANGED <<opt, job, outcome, late, termvars, res, worker, said, exit>>

SubmitFailed(err) ==
    \/ /\ Definite(err) /\ ~ctl.taken /\ placementRejection(err) /\ opt.where /\ cand < Candidates
       /\ NextCandidate
    \/ /\ Definite(err) /\ ~(~ctl.taken /\ placementRejection(err) /\ opt.where /\ cand < Candidates)
       /\ begun' = FALSE /\ pc' = "exited" /\ exit' = (IF ctl.taken THEN "130" ELSE "txn")
       /\ record' = [record EXCEPT ![cand] = "none"] /\ Stopped
       /\ UNCHANGED <<opt, cand, job, outcome, late, up, termvars, res, worker, said>>
    \/ /\ ~Definite(err)
       /\ pc' = "exited" /\ exit' = "txn" /\ Stopped /\ HandOff /\ Say({"uncertain"})
       /\ UNCHANGED <<opt, cand, record, begun, job, outcome, late, up, termvars, res>>

\* The selection guard or the claim fails: no request goes out.
SubmitNotStarted == pc = "submit" /\ SubmitFailed("notstarted") /\ UNCHANGED ans

submitOnce ==
    /\ pc = "submit" /\ pc' = "wait" /\ ans' = "sent"
    /\ UNCHANGED <<opt, cand, record, begun, job, outcome, late, up, ctl, termvars, res, worker, said, exit>>

\* The transport fails before or after the runner has seen the request: three tries, and
\* the admission is uncertain from now on.
TransportFails ==
    /\ pc = "wait" /\ ans' = "none"
    /\ LET lost == IF ans = "sent" THEN [late EXCEPT ![cand] = TRUE] ELSE late IN
       \/ /\ up.n < Attempts /\ pc' = "submit" /\ late' = lost
          /\ up' = [up EXCEPT !.n = @ + 1, !.uncertain = TRUE]
          /\ UNCHANGED <<opt, cand, record, begun, job, outcome, ctl, termvars, res, worker, said, exit>>
       \/ /\ up.n = Attempts /\ late' = lost
          /\ pc' = "exited" /\ exit' = "txn" /\ Stopped /\ HandOff /\ Say({"uncertain"})
          /\ UNCHANGED <<opt, cand, record, begun, job, outcome, up, termvars, res>>

\* uploadWithSnapshotFallback: a cache miss is answered with one full upload, whose tries
\* start again; the uncertainty of the first ones is kept.
ReshipFull ==
    /\ pc = "wait" /\ ans = "miss" /\ up.partial
    /\ ans' = "none" /\ pc' = "submit" /\ up' = [up EXCEPT !.n = 1, !.partial = FALSE]
    /\ UNCHANGED <<opt, cand, record, begun, job, outcome, late, ctl, termvars, res, worker, said, exit>>

SubmitRejected ==
    /\ pc = "wait" /\ ans \in {"refused", "placement", "failed"} /\ ans' = "none"
    /\ SubmitFailed(ans)

\* The response is read; an automatic-apply worker is launched.
Submitted ==
    /\ pc = "wait" /\ ans = "ok" /\ ans' = "none" /\ pc' = "admitted" /\ HandOff
    /\ UNCHANGED <<opt, cand, record, begun, job, outcome, late, up, ctl, termvars, res, said, exit>>

-----------------------------------------------------------------------------
(* The runner, as the client meets it                                      *)

runnerless == <<opt, cand, pc, record, begun, up, ctl, termvars, res, worker, said, exit>>

\* A known identifier is answered with its status; a new one is admitted or refused.  A
\* failure may be reported after the admission was recorded.
handleSubmit ==
    /\ ans = "sent"
    /\ \/ job' = [job EXCEPT ![cand] = IF @ = "none" THEN "running" ELSE @] /\ ans' \in {"ok", "failed"}
       \/ UNCHANGED job /\ ans' \in {"refused", "placement", "failed"} \cup (IF up.partial THEN {"miss"} ELSE {})
          /\ (job[cand] = "none" \/ up.uncertain)
    /\ UNCHANGED <<outcome, late, runnerless>>

LateSubmit(c) ==
    /\ late[c] /\ job[c] = "none" /\ job' = [job EXCEPT ![c] = "running"]
    /\ UNCHANGED <<outcome, late, ans, runnerless>>

JobEnds(c) ==
    /\ job[c] = "running" /\ job' = [job EXCEPT ![c] = "done"] /\ outcome' \in Outcomes
    /\ UNCHANGED <<late, ans, runnerless>>

-----------------------------------------------------------------------------
(* The terminal                                                            *)

termless == <<opt, cand, record, begun, runnervars, up, ctl, res, worker, said>>

\* Ctrl-C: queued while notifications are on (the channel holds two), otherwise it ends
\* the process.
CtrlC ==
    /\ Running /\ typed < MaxSignals /\ typed' = typed + 1
    /\ \/ on /\ sig' = (IF sig < 2 THEN sig + 1 ELSE sig) /\ UNCHANGED <<pc, exit>>
       \/ ~on /\ pc' = "exited" /\ exit' = "killed" /\ UNCHANGED sig
    /\ UNCHANGED <<on, eof, termless>>

detachOnEOF ==
    /\ Running /\ ~eof /\ eof' = TRUE
    /\ UNCHANGED <<sig, on, typed, pc, exit, termless>>

-----------------------------------------------------------------------------
(* admittedJobController.run                                               *)

ctlless == <<opt, cand, pc, record, begun, runnervars, up, typed, eof, res, worker, exit>>

TakeFirst == [ctl EXCEPT !.st = "interrupt", !.taken = TRUE, !.asked = 1]

FirstSignal ==
    /\ Running /\ ctl.st = "watch" /\ sig > 0 /\ sig' = sig - 1
    /\ ctl' = TakeFirst /\ UNCHANGED <<on, said, ctlless>>

\* retryJobControl for SIGINT: retried through lost answers, 404 and 409, until the runner
\* accepts it or answers for good.
ForwardSIGINT ==
    /\ Running /\ ctl.st = "interrupt" /\ ctl.forwarded = "none"
    /\ \/ /\ job[cand] = "running"
          /\ ctl' = [ctl EXCEPT !.forwarded = "ok", !.confirmed = 1]
       \/ ctl' = [ctl EXCEPT !.forwarded = "err"]
    /\ UNCHANGED <<sig, on, said, ctlless>>

\* The second Ctrl-C cancels the forwarding and gives later ones their normal meaning.
SecondSignal ==
    /\ Running /\ ctl.st = "interrupt" /\ sig > 0 /\ sig' = sig - 1 /\ on' = FALSE
    /\ ctl' = [ctl EXCEPT !.st = "kill", !.asked = 2,
                          !.forwarded = IF @ = "none" THEN "err" ELSE @]
    /\ UNCHANGED <<said, ctlless>>

ForceKill ==
    /\ Running /\ ctl.st = "kill"
    /\ \/ job[cand] = "running" /\ ctl' = [ctl EXCEPT !.st = "done", !.confirmed = 2] /\ UNCHANGED said
       \/ Stopped /\ Say({"killfailed"})
    /\ UNCHANGED <<sig, on, ctlless>>

-----------------------------------------------------------------------------
(* Streaming, detaching, finishing                                         *)

flow == <<opt, cand, record, begun, runnervars, up>>

\* attach: the job is already admitted, so Ctrl-C controls it from the start.
Attach ==
    /\ pc = "attach"
    /\ \/ pc' = "stream" /\ ctl' = Watching /\ UNCHANGED exit
       \/ pc' = "exited" /\ exit' = "txn" /\ UNCHANGED ctl
    /\ UNCHANGED <<flow, termvars, res, worker, said>>

Admitted ==
    /\ pc = "admitted"
    /\ IF opt.detach \/ eof
       THEN pc' = "detach" /\ HandOff
       ELSE pc' = "stream" /\ UNCHANGED worker
    /\ UNCHANGED <<flow, ctl, termvars, res, said, exit>>

\* streamContext publishes its outcome: the terminal status, the status without the logs
\* (terminalWithoutLogs), or a failure to follow.
StreamEnds ==
    /\ pc = "stream" /\ res = "none"
    /\ res' \in {"failed"} \cup (IF Settled(cand) THEN {"terminal", "lost"} ELSE {})
    /\ UNCHANGED <<flow, pc, ctl, termvars, worker, said, exit>>

\* streamUntilDetach prefers an outcome published before the detachment.
StreamDetached ==
    /\ pc = "stream" /\ eof /\ res = "none" /\ pc' = "detach" /\ HandOff
    /\ UNCHANGED <<flow, ctl, termvars, res, said, exit>>

StreamFailed ==
    /\ pc = "stream" /\ res = "failed" /\ HandOff
    /\ Say({"mayrun"} \cup (IF ctl.confirmed < ctl.asked THEN {"unconfirmed"} ELSE {}))
    /\ pc' = "exited" /\ exit' = "txn" /\ Stopped
    /\ UNCHANGED <<flow, termvars, res>>

StreamTerminal ==
    /\ pc = "stream" /\ res \in {"terminal", "lost"} /\ pc' = "terminal"
    /\ UNCHANGED <<flow, ctl, termvars, res, worker, said, exit>>

NothingPending == sig = 0

\* detach, from the caller's side: the controller stops delivery, and looks into the queue
\* once more before it lets go.
Release(next) ==
    \/ /\ ctl.st = "watch" /\ NothingPending /\ on' = FALSE /\ Stopped
       /\ pc' = next[1] /\ exit' = next[2] /\ UNCHANGED sig
    \/ /\ ctl.st = "watch" /\ ~NothingPending /\ sig' = sig - 1
       /\ ctl' = TakeFirst /\ UNCHANGED <<on, pc, exit>>

completeRunDetach ==
    /\ pc = "detach"
    /\ Release(<<"exited", IF opt.apply /\ ~worker THEN "txn" ELSE "0">>)
    /\ UNCHANGED <<flow, typed, eof, res, worker, said>>

\* completeDetach once a Ctrl-C is the job's: wait for its delivery, but not for ever.
completeDetach ==
    /\ pc = "detach" /\ ctl.taken /\ pc' = "exited" /\ Stopped
    /\ \/ ctl.forwarded = "ok" /\ exit' = "130" /\ UNCHANGED said
       \/ exit' = "txn" /\ Say({"uncertain"})
    /\ UNCHANGED <<flow, termvars, res, worker>>

releaseAtTerminal ==
    /\ pc = "terminal"
    /\ Release(<<"finish", "none">>)
    /\ UNCHANGED <<flow, typed, eof, res, worker, said>>

InterruptedAtTerminal ==
    /\ pc = "terminal" /\ ctl.taken /\ HandOff
    /\ pc' = "exited" /\ exit' = "130" /\ Stopped /\ Say({"interrupted"})
    /\ UNCHANGED <<flow, termvars, res>>

\* Mutant: a failed transaction does not replace a successful remote exit.
BugexitCode(o) ==
    CASE o.kind = "zero" -> "0" [] o.kind \in {"nonzero", "signal"} -> "remote" [] OTHER -> "txn"

\* The two-layer rule: a failed transaction replaces only a successful remote exit.
exitCode(o) ==
    CASE o.kind = "zero" -> IF ~o.ambiguous /\ o.complete THEN "0" ELSE "txn"
      [] o.kind \in {"nonzero", "signal"} -> "remote"
      [] OTHER -> "txn"

OnlyIf(ok, code) == IF code = "0" /\ ~ok THEN "txn" ELSE code

\* Recording the end or applying the changes may fail; lost output fails a success.
finishTerminalChanges ==
    /\ pc = "finish" /\ pc' = "exited"
    /\ \E recorded, applied \in BOOLEAN:
          /\ worker' = (worker \/ (opt.apply /\ recorded /\ applied))
          /\ exit' = OnlyIf(recorded /\ (opt.apply => applied) /\ res # "lost", exitCode(outcome))
    /\ UNCHANGED <<flow, ctl, termvars, res, said>>

-----------------------------------------------------------------------------
Crash ==
    /\ Running /\ pc' = "exited" /\ exit' = "killed"
    /\ UNCHANGED <<sig, on, typed, eof, termless>>

CRNext ==
    \/ InterruptedBefore \/ FailBefore \/ prepareSnapshot \/ initializeChangeState \/ negotiateSnapshot
    \/ markLocalChangeSubmissionStarted \/ admitJobController
    \/ SubmitNotStarted \/ submitOnce \/ TransportFails \/ ReshipFull \/ SubmitRejected \/ Submitted
    \/ handleSubmit \/ \E c \in Cands: LateSubmit(c) \/ JobEnds(c)
    \/ CtrlC \/ detachOnEOF \/ FirstSignal \/ ForwardSIGINT \/ SecondSignal \/ ForceKill
    \/ Attach \/ Admitted \/ StreamEnds \/ StreamDetached \/ StreamFailed \/ StreamTerminal
    \/ completeRunDetach \/ completeDetach \/ releaseAtTerminal \/ InterruptedAtTerminal
    \/ finishTerminalChanges \/ Crash

CRSpec == CRInit /\ [][CRNext]_clvars

-----------------------------------------------------------------------------
(* Properties                                                              *)

CRTypeOK ==
    /\ opt \in RunOptions /\ cand \in Cands /\ begun \in BOOLEAN
    /\ record \in [Cands -> {"none", "init", "started"}]
    /\ job \in [Cands -> {"none", "running", "done"}] /\ outcome \in Outcomes /\ late \in [Cands -> BOOLEAN]
    /\ ans \in {"none", "sent", "ok", "refused", "placement", "miss", "failed"}
    /\ up \in [n: 1..Attempts, partial: BOOLEAN, uncertain: BOOLEAN]
    /\ sig \in 0..2 /\ typed \in 0..MaxSignals
    /\ exit \in {"none", "0", "remote", "130", "txn", "killed"}

\* The request of a command may have reached runner c, or still reach it.
MayRunAt(c) == job[c] # "none" \/ late[c] \/ (c = cand /\ ans = "sent")

\* However answers are lost and requests delayed, one invocation runs its command on one
\* runner only, and the client keeps the record it needs to find that job again, whether
\* it fell back to another runner, gave up or was killed.
RunsOnOneRunner ==
    /\ CRTypeOK
    /\ Cardinality({c \in Cands: MayRunAt(c)}) <= 1
    /\ \A c \in Cands: MayRunAt(c) => record[c] = "started"

\* No Ctrl-C is lost.  A client that reports success or the remote's own exit code left no
\* Ctrl-C unread and forwarded none; 130 means that nothing was submitted, that the job is
\* over, or that the runner has the signal; and one that leaves a running job with an
\* unconfirmed Ctrl-C says that it is uncertain.
InterruptAccounted ==
    pc = "exited" =>
        /\ exit \in {"0", "remote"} => ~ctl.taken /\ sig = 0
        /\ exit = "130" => \/ \A c \in Cands: ~MayRunAt(c)
                           \/ Settled(cand) \/ ctl.confirmed >= 1
        /\ exit = "txn" /\ ctl.confirmed < ctl.asked /\ job[cand] = "running" => said # {}

Succeeded(o) == o.kind = "zero" /\ ~o.ambiguous /\ o.complete

\* Exit code 0 is never a guess: either the client detached from an admitted job with its
\* automatic apply in someone's hands, or the job is over and its process, the transaction
\* around it, its output and the requested apply all succeeded.
ExitTruthful ==
    pc = "exited" =>
        /\ exit = "0" => /\ opt.apply => worker
                         /\ \/ res = "none" /\ job[cand] # "none"
                            \/ res = "terminal" /\ Settled(cand) /\ Succeeded(outcome)
        /\ exit = "remote" => Settled(cand) /\ outcome.kind \in {"nonzero", "signal"}

\* What the command says and its exit code are true: no Ctrl-C is lost, and 0, 130
\* and the job's own code mean what they say (interrupts.go, result.go).
ExitAccounted == InterruptAccounted /\ ExitTruthful
=============================================================================
