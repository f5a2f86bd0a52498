---------------------------- MODULE RunnerStores ----------------------------
(***************************************************************************)
(* Instances of the stores a runner keeps beside its scheduler, for TLC:   *)
(* the receipts of settled jobs (JobGC), the named caches (NamedCache),    *)
(* the cache of submitted bodies (BlobCache), the persistent workspaces    *)
(* (Workspaces) and the logs (LogStream).  The code guards each with locks *)
(* of its own and they share no variable, so a behaviour of this module is *)
(* a behaviour of one of them, the one in focus.                           *)
(***************************************************************************)
EXTENDS JobGC, NamedCache, BlobCache, Workspaces, LogStream

CONSTANTS t1, t2, d1, k1,          \* of NamedCache
          b1, b2, b3, j1, j2, p1,  \* of BlobCache and Workspaces
          x                        \* of LogStream: a character that is no newline

VARIABLE focus

\* The caches' jobs write trees of one and of two bytes.
MCKeyOf == [j \in Jobs |-> k1]
MCSizeOf == [j \in Jobs |-> IF j = t1 THEN 1 ELSE 2]

\* Two submissions share a body; a push brings another.
MCBlobSize == [b \in Blobs |-> IF b = b1 THEN 5 ELSE 4]
MCBodies == [u \in Uploads |-> IF u = j1 THEN {b1, b2} ELSE IF u = j2 THEN {b2} ELSE {b3}]

\* Frames of up to two characters.
MCFrameData == {<<NL>>, <<x, NL>>, <<NL, x>>}

\* Requests of S are still to come, the others over.
Cast(idle, S, all) == [r \in all |-> IF r \in S THEN idle ELSE [idle EXCEPT !.pc = "done"]]

\* Two jobs and one request to create; one job and one upload, or no job and two
\* uploads, with two requests.
TwoJobs ==
    /\ job = Cast(NewJob, WsJobs, WsJobs)
    /\ create = Cast(IdleCreate, {1}, Creators) /\ push = Cast(IdlePush, {}, Pushers)
OneOfEach ==
    /\ job = Cast(NewJob, {j1}, WsJobs)
    /\ create = Cast(IdleCreate, Creators, Creators) /\ push = Cast(IdlePush, {1}, Pushers)
TwoPushes ==
    /\ job = Cast(NewJob, {}, WsJobs)
    /\ create = Cast(IdleCreate, Creators, Creators) /\ push = Cast(IdlePush, Pushers, Pushers)
MCWsInit ==
    /\ ws = [i \in WsIds |-> None] /\ made = 0 /\ tombs = {}
    /\ gate = [i \in WsIds |-> None] /\ uploads = [i \in WsIds |-> None]
    /\ TwoJobs \/ OneOfEach \/ TwoPushes
    /\ serving = TRUE /\ wsCrashes = 0

Stores == {"gc", "cache", "blob", "ws", "log"}

\* The components out of focus stay at one of their initial states.
StoresInit ==
    /\ focus \in Stores
    /\ GCInit /\ NCInit /\ BlobInit /\ MCWsInit /\ LSInit
    /\ focus = "gc" \/ \A id \in Ids : issued[id] = 0
    /\ focus = "cache" \/ \A k \in Keys : ~entry[k].there
    /\ focus = "ws" \/ TwoJobs
    /\ focus = "log" \/ ask = [tail |-> 0, since |-> 0, follow |-> TRUE]

StoresNext ==
    /\ UNCHANGED focus
    /\ \/ focus = "gc" /\ GCNext /\ UNCHANGED <<ncVars, blobVars, wsVars, lsvars>>
       \/ focus = "cache" /\ NCNext /\ UNCHANGED <<gcVars, blobVars, wsVars, lsvars>>
       \/ focus = "blob" /\ BlobNext /\ UNCHANGED <<gcVars, ncVars, wsVars, lsvars>>
       \/ focus = "ws" /\ WsNext /\ UNCHANGED <<gcVars, ncVars, blobVars, lsvars>>
       \/ focus = "log" /\ LSNext /\ UNCHANGED <<gcVars, ncVars, blobVars, wsVars>>

StoresSpec == StoresInit /\ [][StoresNext]_<<focus, gcVars, ncVars, blobVars, wsVars, lsvars>>

-----------------------------------------------------------------------------
(***************************************************************************)
(* The properties of the stores.  Three are stated in their own modules:   *)
(* ReceiptsSafe, CachesSafe and LeasesSafe; they hold of a store out of    *)
(* focus, too, since it stays at an initial state.                         *)
(***************************************************************************)

(* The cache's counters are exact between two operations, whichever uploads *)
(* are inside an insertion, a restoration, a rollback or a settlement, and  *)
(* only the bodies of unsettled jobs exceed the budget; a dry run of the    *)
(* collection tells what it would do; and a running job's base is readable  *)
(* (cache.go, cache_pins.go).                                               *)
BodiesSafe ==
    focus = "blob" =>
        BlobTypeOK /\ PinsExact /\ BytesExact /\ WithinBudget /\ PlanExact /\ BaseReadable

(* What the terminal shows is the log (logio.go, handleLogs,                *)
(* followOnceContext): a contiguous piece of it that starts where the last  *)
(* lines asked for begin, and the whole of it when the client is told that  *)
(* the job has ended.                                                       *)
LogsFaithful ==
    focus = "log" => LSTypeOK /\ NoGapNoDuplicate /\ TerminalComplete /\ TailExact
=============================================================================
