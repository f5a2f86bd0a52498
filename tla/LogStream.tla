----------------------------- MODULE LogStream -----------------------------
(***************************************************************************)
(* A job's log from the process to the terminal: the runner's framed log   *)
(* file (internal/logio), the handler that replays and follows it over one *)
(* connection (handleLogs), and the client that reconnects and resumes     *)
(* from the last frame it printed (streamContext, followOnceContext).      *)
(* A frame is a short sequence of characters; NL is the newline.  A        *)
(* frame's time is abstracted to its number: `since` admits the frames     *)
(* from that number on.  Connections may break at any event.               *)
(***************************************************************************)
EXTENDS Integers, Sequences, FiniteSets, SequencesExt

CONSTANTS FrameData,   \* what one write may carry
          NL,          \* the newline character
          MaxFrames,   \* bound: frames written
          MaxLogBytes, \* Limits.MaxLogBytes
          MaxTail,     \* largest tail= asked for
          MaxBreaks    \* bound: broken connections

VARIABLES log,     \* complete frames in io.log
          torn,    \* does a partial record follow them?
          writer,  \* logio.Writer: "none", "open", "closed", or "lost" with its daemon
          bad,     \* limitHit or writeErr
          ended,   \* has the job settled?
          h,       \* the handler of the current connection
          net,     \* events sent and not yet read
          ask,     \* what the client asked for: tail, since, follow
          last,    \* client: last frame printed
          out,     \* client: characters printed
          win,     \* client: where its output began
          state,   \* client: "dialing", "open", "done", "failed"
          breaks   \* connections broken so far

lsvars == <<log, torn, writer, bad, ended, h, net, ask, last, out, win, state, breaks>>
logvars == <<log, torn, writer, bad, ended>>
clientvars == <<ask, last, out, win, state>>

NoHandler == [pc |-> "none", start |-> 0, cut |-> 0, stop |-> 0, pos |-> 0, sent |-> FALSE]
Asks == {a \in [tail: -1..MaxTail, since: 0..MaxFrames, follow: BOOLEAN]: a.since > 1 => a.tail < 1}

LSInit ==
    /\ log = <<>> /\ torn = FALSE /\ writer = "none" /\ bad = FALSE /\ ended = FALSE
    /\ h = NoHandler /\ net = <<>> /\ ask \in Asks
    /\ last = 0 /\ out = <<>> /\ win = [start |-> 0, cut |-> 0] /\ state = "dialing" /\ breaks = 0

-----------------------------------------------------------------------------
(* The writer                                                              *)

Bytes(frames) == FlattenSeq(frames)

NewWriter ==
    /\ writer = "none" /\ ~ended /\ writer' = "open"
    /\ UNCHANGED <<log, torn, bad, ended, h, net, clientvars, breaks>>

\* One frame under the writer's lock.  Past the cap nothing is logged any more; a write
\* that fails may leave a partial record behind.
append(data) ==
    /\ writer = "open" /\ ~bad /\ Len(log) < MaxFrames
    /\ \/ /\ Len(Bytes(log)) + Len(data) > MaxLogBytes
          /\ bad' = TRUE /\ UNCHANGED <<log, torn>>
       \/ /\ Len(Bytes(log)) + Len(data) <= MaxLogBytes
          /\ \/ log' = Append(log, data) /\ UNCHANGED <<torn, bad>>
             \/ bad' = TRUE /\ torn' \in BOOLEAN /\ UNCHANGED log
    /\ UNCHANGED <<writer, ended, h, net, clientvars, breaks>>

Close ==
    /\ writer = "open" /\ writer' = "closed"
    /\ UNCHANGED <<log, torn, bad, ended, h, net, clientvars, breaks>>

\* close(j.done): the log is closed first, and a job that never started has none.
JobSettles ==
    /\ ~ended /\ writer \in {"none", "closed"} /\ ended' = TRUE
    /\ UNCHANGED <<log, torn, writer, bad, h, net, clientvars, breaks>>

\* The daemon restarts: its writers are gone and the job is settled by recovery.
DaemonRestarts ==
    /\ writer = "open" /\ breaks < MaxBreaks
    /\ writer' = "lost" /\ ended' = TRUE /\ torn' \in {torn, TRUE}
    /\ h' = NoHandler /\ net' = <<>> /\ state' = (IF state = "open" THEN "dialing" ELSE state)
    /\ breaks' = breaks + 1
    /\ UNCHANGED <<log, bad, ask, last, out, win>>

-----------------------------------------------------------------------------
(* FindWindow: where a bounded replay begins                               *)

Newlines(s) == {i \in DOMAIN s: s[i] = NL}

\* Newlines of frames from..Len(frames), as <<frame, index>>.
NewlinesFrom(frames, from) ==
    UNION {{<<f, i>>: i \in Newlines(frames[f])}: f \in from..Len(frames)}

Before(p, q) == p[1] < q[1] \/ (p[1] = q[1] /\ p[2] <= q[2])

EndsWithNL(frames, from) ==
    LET filled == {f \in from..Len(frames): frames[f] # <<>>} IN
    filled # {} /\ Last(frames[CHOOSE f \in filled: \A g \in filled: g <= f]) = NL

\* The tail starts after newline number lines - tail, or one later without a final newline.
FindWindow(frames, since, tail) ==
    LET n == Len(frames)
        first == IF since = 0 THEN 1 ELSE since
        nls == NewlinesFrom(frames, first)
        extra == IF EndsWithNL(frames, first) THEN 1 ELSE 0
        target == Cardinality(nls) - extra - tail + 1 IN
    IF first > n \/ tail = 0 THEN [start |-> n + 1, cut |-> 0]
    ELSE IF tail < 0 \/ Cardinality(nls) - extra < tail THEN [start |-> first, cut |-> 0]
    ELSE LET at == CHOOSE p \in nls: Cardinality({q \in nls: Before(q, p)}) = target IN
         IF at[2] < Len(frames[at[1]])
         THEN [start |-> at[1], cut |-> at[2]]
         ELSE [start |-> at[1] + 1, cut |-> 0]

Drop(s, n) == SubSeq(s, n + 1, Len(s))

TrimFrame(f, data) == IF f = h.start THEN Drop(data, h.cut) ELSE data

-----------------------------------------------------------------------------
(* handleLogs, one connection                                              *)

Narrowed(a) == a.tail >= 0 \/ a.since > 0

\* followOnceContext dials with the last frame it has; only a first replay is narrowed.
Connect ==
    /\ state = "dialing" /\ h = NoHandler
    /\ state' = "open" /\ net' = <<>>
    /\ h' = [NoHandler EXCEPT !.pc = "ready"]
    /\ UNCHANGED <<logvars, ask, last, out, win, breaks>>

Send(e) == net' = Append(net, e)
Finish == h' = [h EXCEPT !.pc = "finished"]

\* logReady is closed when the log opens or the job settles without one.
LogReady == writer # "none" \/ ended

\* A partial record at the end of a finished log is an integrity error.
LogComplete == writer \in {"closed", "lost"}

LogsReady ==
    LET windowed == last = 0 /\ Narrowed(ask)
        found == FindWindow(log, ask.since, ask.tail) IN
    /\ h.pc = "ready"
    /\ \/ /\ LogReady /\ writer = "none"
          /\ h' = [h EXCEPT !.pc = "settle"] /\ UNCHANGED net
       \/ /\ LogReady /\ writer # "none"
          /\ IF (windowed \/ ~ask.follow) /\ LogComplete /\ torn
             THEN Send([kind |-> "fatal"]) /\ Finish
             ELSE /\ h' = [pc |-> "read", stop |-> IF ask.follow THEN -1 ELSE Len(log), pos |-> 0, sent |-> FALSE,
                           start |-> IF windowed THEN found.start ELSE last + 1,
                           cut |-> IF windowed THEN found.cut ELSE 0]
                  /\ UNCHANGED net
       \/ /\ ~LogReady /\ ~ask.follow
          /\ Send([kind |-> "end", start |-> 1]) /\ Finish
    /\ UNCHANGED <<logvars, clientvars, breaks>>

\* Follow reads the file from its first frame; only frames past the start are sent, and
\* those before `since` are held back until one qualifies.
Follow ==
    LET f == h.pos + 1
        due == last = 0 /\ ask.since > 0 IN
    /\ h.pc = "read" /\ f <= Len(log) /\ ~(h.stop >= 0 /\ h.start > h.stop)
    /\ IF f >= h.start /\ (~due \/ h.sent \/ f >= ask.since)
       THEN Send([kind |-> "log", seq |-> f, data |-> TrimFrame(f, log[f]), start |-> h.start, cut |-> h.cut])
       ELSE UNCHANGED net
    /\ h' = [h EXCEPT !.pos = f, !.sent = @ \/ (f >= h.start /\ (~due \/ f >= ask.since)),
                      !.pc = IF f >= h.start /\ h.stop >= 0 /\ f >= h.stop THEN "settle" ELSE "read"]
    /\ UNCHANGED <<logvars, clientvars, breaks>>

\* Everything there is has been read, or nothing of the replay was asked for.
ReadToEnd ==
    /\ h.pc = "read" /\ UNCHANGED net
    /\ IF h.stop >= 0 /\ h.start > h.stop
       THEN h' = [h EXCEPT !.pc = "settle"]
       ELSE h.pos = Len(log) /\ h' = [h EXCEPT !.pc = "wait"]
    /\ UNCHANGED <<logvars, clientvars, breaks>>

\* Mutant: a closed writer ends the follow at once.
BugwaitChange == LogComplete

\* The writer may append and close between the last read and the wait: it is done only when
\* it is closed and has nothing past what was read.
waitChange == LogComplete /\ Len(log) <= h.pos

\* A partial record left in the buffer of a finished log is an integrity error.
FollowEOF ==
    /\ h.pc = "wait" /\ (waitChange \/ Len(log) > h.pos)
    /\ CASE waitChange /\ torn -> Send([kind |-> "fatal"]) /\ Finish
         [] waitChange /\ ~torn -> h' = [h EXCEPT !.pc = "settle"] /\ UNCHANGED net
         [] OTHER -> h' = [h EXCEPT !.pc = "read"] /\ UNCHANGED net
    /\ UNCHANGED <<logvars, clientvars, breaks>>

\* A read may fail for a reason that passes.
ReplayFails ==
    /\ h.pc = "read" /\ breaks < MaxBreaks /\ breaks' = breaks + 1
    /\ Send([kind |-> "retryable"]) /\ Finish
    /\ UNCHANGED <<logvars, clientvars>>

SendStatus ==
    /\ h.pc = "settle" /\ (ended \/ ~ask.follow)
    /\ Send([kind |-> IF ask.follow THEN "status" ELSE "end", start |-> h.start]) /\ Finish
    /\ UNCHANGED <<logvars, clientvars, breaks>>

ConnectionBreaks ==
    /\ state = "open" /\ breaks < MaxBreaks
    /\ h' = NoHandler /\ net' = <<>> /\ state' = "dialing" /\ breaks' = breaks + 1
    /\ UNCHANGED <<logvars, ask, last, out, win>>

-----------------------------------------------------------------------------
(* The client                                                              *)

Hang(s) == state' = s /\ h' = NoHandler /\ net' = <<>>

InOrder(seq) == seq = last + 1 \/ (last = 0 /\ Narrowed(ask) /\ seq > 0)

\* followOnceContext reads one event: a frame out of order ends the stream for good.
Receive ==
    /\ state = "open" /\ net # <<>>
    /\ LET e == Head(net) IN
       CASE e.kind = "log" ->
              IF InOrder(e.seq)
              THEN /\ out' = out \o e.data /\ last' = e.seq
                   /\ win' = IF last = 0
                             THEN [start |-> e.seq, cut |-> IF e.seq = e.start THEN e.cut ELSE 0] ELSE win
                   /\ net' = Tail(net) /\ UNCHANGED <<state, h>>
              ELSE Hang("failed") /\ UNCHANGED <<last, out, win>>
         [] e.kind \in {"status", "end"} -> Hang("done") /\ UNCHANGED <<last, out>>
              /\ win' = IF last = 0 THEN [start |-> e.start, cut |-> 0] ELSE win
         [] e.kind = "fatal" -> Hang("failed") /\ UNCHANGED <<last, out, win>>
         [] OTHER -> Hang("dialing") /\ UNCHANGED <<last, out, win>>
    /\ UNCHANGED <<logvars, ask, breaks>>

\* No contact for the whole window: the client stops and says so.
GiveUp ==
    /\ state = "dialing" /\ breaks > 0 /\ state' = "failed"
    /\ UNCHANGED <<logvars, h, net, ask, last, out, win, breaks>>

LSNext ==
    \/ NewWriter \/ \E d \in FrameData: append(d)
    \/ Close \/ JobSettles \/ DaemonRestarts
    \/ Connect \/ LogsReady \/ Follow \/ ReadToEnd \/ FollowEOF \/ ReplayFails \/ SendStatus \/ ConnectionBreaks
    \/ Receive \/ GiveUp

LSSpec == LSInit /\ [][LSNext]_lsvars

-----------------------------------------------------------------------------
(* Properties                                                              *)

LSTypeOK ==
    /\ log \in Seq(FrameData) /\ Len(log) <= MaxFrames
    /\ writer \in {"none", "open", "closed", "lost"}
    /\ last \in 0..MaxFrames /\ state \in {"dialing", "open", "done", "failed"}

Piece(w, n) == Drop(Bytes(SubSeq(log, w.start, n)), w.cut)

\* Whatever breaks and resumes, the terminal shows one contiguous piece of the log: no frame
\* twice, none skipped, and a tail cut only at its first frame.
NoGapNoDuplicate == out = IF last = 0 THEN <<>> ELSE Piece(win, last)

\* A follower that is given the terminal status has printed the log to its end, and a log
\* with a torn record is never presented as a complete one.
TerminalComplete ==
    state = "done" /\ ask.follow /\ writer # "none" =>
        /\ ended /\ ~torn
        /\ last = Len(log) \/ (last = 0 /\ (win.start > Len(log) \/ ask.since > Len(log)))

\* The last n lines of a text: it ends a line with every newline, and without a final one
\* the remainder counts as a line.
LastLines(t, n) ==
    LET starts == {i \in DOMAIN t: i = 1 \/ t[i - 1] = NL}
        kept == {i \in starts: Cardinality({j \in starts: j >= i}) <= n} IN
    IF kept = {} THEN <<>> ELSE SubSeq(t, CHOOSE i \in kept: \A j \in kept: i <= j, Len(t))

\* The window a connecting client is given, found by counting newlines over frames, is the
\* one the last lines begin at, wherever the lines are cut into frames and whether or not
\* the output ends with a newline.
TailExact ==
    state = "dialing" => \A tail \in 0..MaxTail, since \in 0..MaxFrames + 1:
        LET w == FindWindow(log, since, tail)
            from == IF since = 0 THEN 1 ELSE since IN
        Drop(Bytes(SubSeq(log, w.start, Len(log))), w.cut) = LastLines(Bytes(SubSeq(log, from, Len(log))), tail)
=============================================================================
