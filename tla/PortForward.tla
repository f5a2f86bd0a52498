----------------------------- MODULE PortForward ----------------------------
(***************************************************************************)
(* Port forwarding of an attached session (internal/client/forward.go) and  *)
(* the runner's tunnels (internal/daemon/forward.go).  Every local          *)
(* connection has a goroutine that relays the answer, one that relays the   *)
(* request through a pipe, and a handler on the runner; the session's end   *)
(* and the job's end reach all of them through contexts and closed          *)
(* connections, and Close waits until they are gone.  Bytes are left out.   *)
(***************************************************************************)
EXTENDS Naturals

CONSTANTS Conns  \* connections the user's programs make

VARIABLES
  session,    \* "bound", "started"
  closer,     \* where Close is: "no", "listeners", "conns", "wait", "returned"
  snapshot,   \* the connections Close has copied
  listening, accepting,  \* the listener, and its accept goroutine
  holding,    \* connections between Accept and the session's lock
  local,      \* local[c]: "none", "queued", "open", "eof" (no more input), "closed"
  relay,      \* relay[c]: the goroutine forward
  upload,     \* upload[c]: its upload goroutine
  pipe,       \* pipe[c]: the request body can still be written
  cancelled,  \* cancelled[c]: connectionCtx
  tunnel,     \* tunnel[c]: the runner's handler
  upstream,   \* upstream[c]: its connection to the job's port
  jobRuns     \* the job's executionDone is open

userVars == <<session, closer, snapshot, listening, accepting, holding>>
relayVars == <<local, relay, upload, pipe, cancelled>>
runnerVars == <<tunnel, upstream, jobRuns>>
pfVars == <<userVars, relayVars, runnerVars>>

Each(v) == [c \in Conns |-> v]

\* bindPortForwards: the ports are bound before the job is submitted.
PFInit ==
  /\ session = "bound" /\ closer = "no" /\ snapshot = {}
  /\ listening = TRUE /\ accepting = "off" /\ holding = {}
  /\ local = Each("none") /\ relay = Each("none") /\ upload = Each("none")
  /\ pipe = Each(FALSE) /\ cancelled = Each(FALSE)
  /\ tunnel = Each("none") /\ upstream = Each(FALSE) /\ jobRuns = TRUE

-----------------------------------------------------------------------------
(* The session                                                              *)

Start ==
  /\ session = "bound" /\ closer = "no"
  /\ session' = "started" /\ accepting' = "accept"
  /\ UNCHANGED <<closer, snapshot, listening, holding, relayVars, runnerVars>>

UserConnects(c) ==
  /\ local[c] = "none" /\ listening /\ local' = [local EXCEPT ![c] = "queued"]
  /\ UNCHANGED <<userVars, relay, upload, pipe, cancelled, runnerVars>>

\* The program shuts its side down, or resets the connection.
UserLeaves(c) ==
  /\ local[c] = "open" /\ \E s \in {"eof", "closed"} : local' = [local EXCEPT ![c] = s]
  /\ UNCHANGED <<userVars, relay, upload, pipe, cancelled, runnerVars>>

Accept(c) ==
  /\ accepting = "accept" /\ listening /\ local[c] = "queued"
  /\ local' = [local EXCEPT ![c] = "open"] /\ holding' = {c} /\ accepting' = "register"
  /\ UNCHANGED <<session, closer, snapshot, listening, relay, upload, pipe, cancelled, runnerVars>>

AcceptFails ==
  /\ accepting = "accept" /\ ~listening /\ accepting' = "gone"
  /\ UNCHANGED <<session, closer, snapshot, listening, holding, relayVars, runnerVars>>

\* accept, under s.mu: too late, or a goroutine for the connection.
RegisterConn(c) ==
  /\ accepting = "register" /\ c \in holding /\ holding' = {}
  /\ IF closer # "no"
     THEN /\ local' = [local EXCEPT ![c] = "closed"] /\ accepting' = "gone"
          /\ UNCHANGED <<relay, upload, pipe, cancelled>>
     ELSE /\ relay' = [relay EXCEPT ![c] = "do"] /\ upload' = [upload EXCEPT ![c] = "read"]
          /\ pipe' = [pipe EXCEPT ![c] = TRUE] /\ accepting' = "accept"
          /\ UNCHANGED <<local, cancelled>>
  /\ UNCHANGED <<session, closer, snapshot, listening, runnerVars>>

Registered == {c \in Conns : relay[c] \notin {"none", "end"}}

CloseBegin ==
  /\ closer = "no" /\ closer' = "listeners"
  /\ cancelled' = [c \in Conns |-> cancelled[c] \/ c \in Registered] /\ snapshot' = Registered
  /\ UNCHANGED <<session, listening, accepting, holding, local, relay, upload, pipe, runnerVars>>

CloseListeners ==
  /\ closer = "listeners" /\ closer' = "conns" /\ listening' = FALSE
  /\ local' = [c \in Conns |-> IF local[c] = "queued" THEN "closed" ELSE local[c]]
  /\ UNCHANGED <<session, snapshot, accepting, holding, relay, upload, pipe, cancelled, runnerVars>>

CloseConnections ==
  /\ closer = "conns" /\ closer' = "wait"
  /\ local' = [c \in Conns |-> IF c \in snapshot THEN "closed" ELSE local[c]]
  /\ UNCHANGED <<session, snapshot, listening, accepting, holding, relay, upload, pipe, cancelled, runnerVars>>

\* s.wg: the accept goroutine and the relays.
Finished == accepting \in {"off", "gone"} /\ Registered = {}
CloseReturns ==
  /\ closer = "wait" /\ Finished /\ closer' = "returned"
  /\ UNCHANGED <<session, snapshot, listening, accepting, holding, relayVars, runnerVars>>

-----------------------------------------------------------------------------
(* One connection: forward and its upload goroutine                         *)

Relaying == UNCHANGED <<userVars, runnerVars>>
Goes(c, to) == relay' = [relay EXCEPT ![c] = to]

\* io.Copy(requestWriter, local): input waits for the transport to take it.
UploadRead(c) ==
  /\ upload[c] = "read" /\ local[c] = "open" /\ upload' = [upload EXCEPT ![c] = "write"]
  /\ Relaying /\ UNCHANGED <<local, relay, pipe, cancelled>>
UploadWrite(c) ==
  /\ upload[c] = "write" /\ pipe[c] /\ ~cancelled[c] /\ tunnel[c] # "ended"
  /\ upload' = [upload EXCEPT ![c] = "read"]
  /\ Relaying /\ UNCHANGED <<local, relay, pipe, cancelled>>
UploadOver(c) ==
  \/ upload[c] = "read" /\ local[c] \in {"eof", "closed"}
  \/ upload[c] = "write" /\ ~pipe[c]
UploadEnds(c) ==
  /\ UploadOver(c)
  /\ upload' = [upload EXCEPT ![c] = "done"]
  /\ pipe' = [pipe EXCEPT ![c] = FALSE] /\ cancelled' = [cancelled EXCEPT ![c] = TRUE]
  /\ Relaying /\ UNCHANGED <<local, relay>>

\* forwardHTTP.Do: the runner accepted, refused, or there is no answer.
NoAnswer(c) == tunnel[c] = "ended" \/ cancelled[c]
DoReturns(c) ==
  /\ relay[c] = "do"
  /\ \/ tunnel[c] = "relay" /\ Goes(c, "copy")
     \/ NoAnswer(c) /\ Goes(c, "unblock")
  /\ Relaying /\ UNCHANGED <<local, upload, pipe, cancelled>>

\* io.Copy(local, response.Body)
CopyEnds(c) ==
  /\ relay[c] = "copy" /\ (NoAnswer(c) \/ local[c] = "closed")
  /\ Goes(c, "unblock")
  /\ Relaying /\ UNCHANGED <<local, upload, pipe, cancelled>>

\* Mutant: the pipe is left to the upload goroutine.
BugUnblock(c) ==
  /\ relay[c] = "unblock" /\ Goes(c, "wait")
  /\ cancelled' = [cancelled EXCEPT ![c] = TRUE] /\ local' = [local EXCEPT ![c] = "closed"]
  /\ Relaying /\ UNCHANGED <<upload, pipe>>

\* The deferred end: whatever the upload goroutine waits for is closed first.
Unblock(c) ==
  /\ relay[c] = "unblock" /\ Goes(c, "wait")
  /\ cancelled' = [cancelled EXCEPT ![c] = TRUE] /\ local' = [local EXCEPT ![c] = "closed"]
  /\ pipe' = [pipe EXCEPT ![c] = FALSE]
  /\ Relaying /\ UNCHANGED upload

Leave(c) ==
  /\ relay[c] = "wait" /\ upload[c] = "done" /\ Goes(c, "end")
  /\ Relaying /\ UNCHANGED <<local, upload, pipe, cancelled>>

-----------------------------------------------------------------------------
(* The runner: handleForward                                                *)

Handles(c, to) ==
  /\ tunnel' = [tunnel EXCEPT ![c] = to] /\ upstream' = [upstream EXCEPT ![c] = to \in {"dialled", "relay"}]
  /\ UNCHANGED <<jobRuns, userVars, relayVars>>

handleForward(c) ==
  /\ tunnel[c] = "none" /\ relay[c] = "do" /\ ~cancelled[c]
  /\ Handles(c, IF jobRuns THEN "dial" ELSE "ended")
DialTCP(c) ==
  /\ tunnel[c] = "dial"
  /\ \/ jobRuns /\ ~cancelled[c] /\ Handles(c, "dialled")
     \/ Handles(c, "ended")
\* The job may have ended while the port was dialled.
Answer(c) == tunnel[c] = "dialled" /\ Handles(c, IF jobRuns THEN "relay" ELSE "ended")
\* tunnelCtx: the job, the caller, either direction.
TunnelEnds(c) == tunnel[c] = "relay" /\ Handles(c, "ended")

JobEnds ==
  /\ jobRuns /\ jobRuns' = FALSE
  /\ UNCHANGED <<tunnel, upstream, userVars, relayVars>>

-----------------------------------------------------------------------------
RelayStep(c) == UploadEnds(c) \/ DoReturns(c) \/ CopyEnds(c) \/ Unblock(c) \/ Leave(c)
SessionEnds == AcceptFails \/ CloseListeners \/ CloseConnections \/ CloseReturns

PFNext ==
  \/ Start \/ CloseBegin \/ SessionEnds \/ JobEnds
  \/ \E c \in Conns :
       \/ UserConnects(c) \/ UserLeaves(c) \/ Accept(c) \/ RegisterConn(c)
       \/ UploadRead(c) \/ UploadWrite(c) \/ RelayStep(c)
       \/ handleForward(c) \/ DialTCP(c) \/ Answer(c) \/ TunnelEnds(c)

PFSpec == PFInit /\ [][PFNext]_pfVars

-----------------------------------------------------------------------------
\* Once Close has returned, no port is bound, no local connection is open and no
\* goroutine of the session is left, although connections were accepted meanwhile.
SessionClosed ==
  closer = "returned" =>
    /\ ~listening /\ Finished
    /\ \A c \in Conns : local[c] \in {"none", "closed"} /\ upload[c] \in {"none", "done"}

\* The goroutines of a connection can take a step of RelayStep: the relay leaves what
\* it waits for, or its upload goroutine does.
RelayMoves(c) ==
  \/ UploadOver(c)
  \/ relay[c] = "do" /\ (NoAnswer(c) \/ tunnel[c] = "relay")
  \/ relay[c] = "copy" /\ (NoAnswer(c) \/ local[c] = "closed")
  \/ relay[c] = "unblock"
  \/ relay[c] = "wait" /\ upload[c] = "done"

\* Close never waits for ever: while it waits, every goroutine it waits for can take
\* a step towards its end, whatever the runner and the programs do.
CloseProgresses ==
  closer = "wait" =>
    /\ accepting = "accept" => ~listening
    /\ \A c \in Registered : RelayMoves(c)

\* What `attach` promises of Ctrl-D and of the end of the job.
ForwardsClosed == SessionClosed /\ CloseProgresses
=============================================================================
