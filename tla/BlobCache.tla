------------------------------ MODULE BlobCache ------------------------------
(***************************************************************************)
(* The runner's snapshot cache (internal/daemon/cache.go, cache_pins.go)    *)
(* and the uploads that use it: ephemeral jobs, which pin the bodies their  *)
(* change base reads, and workspace uploads, which pin nothing.             *)
(*                                                                          *)
(* One action is one critical section of c.mu.  Copies of file contents     *)
(* happen between two sections, so an upload that restores or inserts a     *)
(* body takes two steps and every other upload may run in between.          *)
(***************************************************************************)
EXTENDS Integers, FiniteSets, Sequences, FiniteSetsExt, SequencesExt

CONSTANTS
  Blobs,        \* content hashes
  BlobSize,     \* size of each body
  BlobJobs,     \* ephemeral jobs
  BlobPushes,   \* workspace creations and pushes
  Bodies,       \* the bodies of each upload's manifest
  BlobInodes,   \* file identities
  MaxBytes,     \* the byte budget
  MaxCorrupt,   \* bound: bodies damaged on disk
  MaxRestart,   \* bound: restarts of the daemon
  NoBlob

Uploads == BlobJobs \union BlobPushes

ASSUME BlobAssumption ==
  /\ BlobSize \in [Blobs -> Nat \ {0}]
  /\ Bodies \in [Uploads -> SUBSET Blobs]
  /\ BlobJobs \intersect BlobPushes = {}
  /\ MaxBytes \in Nat
  /\ NoBlob \notin Blobs \union BlobInodes

VARIABLES
  blob,      \* blob[b]: the file at the path of b, or NoBlob
  lru,       \* the cached bodies, least recently used first
  stale,     \* the cached bodies whose last use is older than the TTL
  bytes,     \* the cache's byte counter
  pins,      \* pins[b]: how many jobs hold b
  held,      \* held[j]: the bodies in job j's cachePins
  private,   \* private[j]: the bodies in j's change-base directory
  insertMu,  \* the upload inserting a body, or NoBlob
  up,        \* the staging state of each upload
  corrupt,   \* history: bodies damaged on disk
  restarts

blobVars == <<blob, lru, stale, bytes, pins, held, private, insertMu, up, corrupt, restarts>>

-----------------------------------------------------------------------------
(* The cache's directory as a record, so that one operation is a sequence   *)
(* of functions of it.                                                      *)

Cache == [blob |-> blob, lru |-> lru, stale |-> stale, bytes |-> bytes]

Becomes(c) ==
  /\ blob' = c.blob /\ lru' = c.lru
  /\ stale' = c.stale /\ bytes' = c.bytes

Present(c) == {b \in Blobs : c.blob[b] # NoBlob}

Total(S) == MapThenSumSet(LAMBDA b : BlobSize[b], S)

\* os.Remove of a body, and the counter that follows it.
Unlink(c, b) ==
  [blob |-> [c.blob EXCEPT ![b] = NoBlob], lru |-> SelectSeq(c.lru, LAMBDA x : x # b),
   stale |-> c.stale \ {b}, bytes |-> c.bytes - BlobSize[b]]

\* os.Chtimes: the most recently used body is last.
Touch(c, b) ==
  IF c.blob[b] = NoBlob THEN c
  ELSE [c EXCEPT !.lru = Append(SelectSeq(@, LAMBDA x : x # b), b), !.stale = @ \ {b}]

\* The budget eviction works down to.
Target == IF MaxBytes >= 10 THEN MaxBytes - MaxBytes \div 10 ELSE MaxBytes

Victims(c, p) == SelectSeq(c.lru, LAMBDA b : p[b] = 0)

\* The cache after the first n victims are gone.
Evicted(c, p, n) == FoldLeft(Unlink, c, SubSeq(Victims(c, p), 1, n))

\* Over the budget, victims go in order of use until the target is met.
EvictCount(c, p) ==
  IF c.bytes <= MaxBytes THEN 0
  ELSE LET counted == [c EXCEPT !.bytes = Total(Present(c))]
           Enough(n) == Evicted(counted, p, n).bytes <= Target
           all == Len(Victims(c, p))
       IN IF \E n \in 0..all : Enough(n) THEN Min({n \in 0..all : Enough(n)}) ELSE all

EnforceSize(c, p) ==
  IF c.bytes <= MaxBytes THEN c
  ELSE Evicted([c EXCEPT !.bytes = Total(Present(c))], p, EvictCount(c, p))

Unpin(p, S) == [b \in Blobs |-> IF b \in S THEN p[b] - 1 ELSE p[b]]

\* pinLocked: a job holds a body once; a workspace upload has no pins.
PinIn(a, b) ==
  IF a \in BlobJobs /\ b \notin held[a]
  THEN /\ held' = [held EXCEPT ![a] = @ \union {b}]
       /\ pins' = [pins EXCEPT ![b] = @ + 1]
  ELSE UNCHANGED <<held, pins>>

Holds(a) == IF a \in BlobJobs THEN held[a] ELSE {}

-----------------------------------------------------------------------------
(* Negotiation.                                                             *)

Fresh(pc, todo) ==
  [pc |-> pc, todo |-> todo, restored |-> {}, missed |-> FALSE, cur |-> NoBlob, ino |-> NoBlob, good |-> TRUE]

BlobInit ==
  /\ blob = [b \in Blobs |-> NoBlob] /\ lru = <<>> /\ stale = {} /\ bytes = 0
  /\ pins = [b \in Blobs |-> 0]
  /\ held = [j \in BlobJobs |-> {}] /\ private = [j \in BlobJobs |-> {}]
  /\ insertMu = NoBlob
  /\ up = [a \in Uploads |-> Fresh("new", {})]
  /\ corrupt = {} /\ restarts = 0

Expired(b) == b \in stale /\ pins[b] = 0

\* Hits are touched; an expired body is removed and reported missing.
Missing(S) ==
  LET gone == {b \in S : blob[b] # NoBlob /\ Expired(b)}
      hits == {b \in S : blob[b] # NoBlob} \ gone
      swept == FoldSet(LAMBDA b, c : Unlink(c, b), Cache, gone)
  IN [cache |-> FoldSet(LAMBDA b, c : Touch(c, b), swept, hits), hits |-> hits]

\* The client ships what is missing; the rest is to be restored on the runner.
Negotiate(a) ==
  /\ up[a].pc = "new"
  /\ LET m == Missing(Bodies[a])
     IN /\ Becomes(m.cache)
        /\ up' = [up EXCEPT ![a] = Fresh("extract", m.hits)]
  /\ UNCHANGED <<pins, held, private, insertMu, corrupt, restarts>>

-----------------------------------------------------------------------------
(* Extraction: bodies the client did not ship are restored from the cache.  *)

Restored(a, b) ==
  [up[a] EXCEPT !.todo = @ \ {b}, !.restored = @ \union {b}, !.cur = NoBlob, !.ino = NoBlob]

Missed(a, b) ==
  [up[a] EXCEPT !.todo = @ \ {b}, !.missed = TRUE, !.cur = NoBlob, !.ino = NoBlob, !.good = TRUE]

\* Materialize, first section: the body is opened under the lock.
MaterializeOpen(a, b) ==
  /\ up[a].pc = "extract" /\ up[a].cur = NoBlob /\ b \in up[a].todo
  /\ IF blob[b] = NoBlob
     THEN Becomes(Cache) /\ up' = [up EXCEPT ![a] = Missed(a, b)]
     ELSE IF Expired(b)
     THEN Becomes(Unlink(Cache, b)) /\ up' = [up EXCEPT ![a] = Missed(a, b)]
     ELSE /\ Becomes(Cache)
          /\ up' = [up EXCEPT ![a] = [@ EXCEPT !.cur = b, !.ino = blob[b].ino, !.good = blob[b].good]]
  /\ UNCHANGED <<pins, held, private, insertMu, corrupt, restarts>>

\* The path still names the file that was opened.
SameFile(a, b) == blob[b] # NoBlob /\ blob[b].ino = up[a].ino

BugPinnable(a, b) == TRUE

\* Eviction may have taken the path meanwhile: the base then keeps a copy.
Pinnable(a, b) == SameFile(a, b)

\* Materialize, second section, after the copy matched the hash.
MaterializeHit(a, b) ==
  /\ up[a].pc = "extract" /\ up[a].cur = b /\ up[a].good
  /\ Becomes(Touch(Cache, b))
  /\ IF Pinnable(a, b) THEN PinIn(a, b) ELSE UNCHANGED <<held, pins>>
  /\ up' = [up EXCEPT ![a] = Restored(a, b)]
  /\ UNCHANGED <<private, insertMu, corrupt, restarts>>

\* The copy did not match: removeIfCurrent spares a replacement.
MaterializeCorrupt(a, b) ==
  /\ up[a].pc = "extract" /\ up[a].cur = b /\ ~up[a].good
  /\ Becomes(IF SameFile(a, b) THEN Unlink(Cache, b) ELSE Cache)
  /\ up' = [up EXCEPT ![a] = Missed(a, b)]
  /\ UNCHANGED <<pins, held, private, insertMu, corrupt, restarts>>

\* Extraction ends.  A miss aborts the admission.
ExtractDone(a) ==
  /\ up[a].pc = "extract" /\ up[a].cur = NoBlob /\ up[a].todo = {}
  /\ up' = [up EXCEPT ![a] = IF up[a].missed THEN [Fresh("abort", {}) EXCEPT !.missed = TRUE]
                             ELSE [@ EXCEPT !.pc = "insert", !.todo = Bodies[a] \ up[a].restored]]
  /\ UNCHANGED <<blob, lru, stale, bytes, pins, held, private, insertMu, corrupt, restarts>>

-----------------------------------------------------------------------------
(* Insertion of the shipped bodies.                                         *)

InodesInUse ==
  {blob[b].ino : b \in Present(Cache)} \union {up[a].ino : a \in Uploads}

\* A body larger than the budget is never cached.  The copy into the
\* temporary file is made and verified outside c.mu, under insertMu.
InsertCopy(a, b) ==
  /\ up[a].pc = "insert" /\ up[a].cur = NoBlob /\ b \in up[a].todo
  /\ IF BlobSize[b] > MaxBytes
     THEN /\ up' = [up EXCEPT ![a].todo = @ \ {b}]
          /\ UNCHANGED insertMu
     ELSE /\ insertMu = NoBlob
          /\ insertMu' = a
          /\ up' = [up EXCEPT ![a] = [@ EXCEPT !.cur = b, !.ino = CHOOSE i \in BlobInodes : i \notin InodesInUse]]
  /\ UNCHANGED <<blob, lru, stale, bytes, pins, held, private, corrupt, restarts>>

InsertEnd(a, pc) ==
  /\ insertMu' = NoBlob
  /\ up' = [up EXCEPT ![a] = [@ EXCEPT !.pc = pc, !.todo = @ \ {up[a].cur}, !.cur = NoBlob, !.ino = NoBlob]]

\* The copy failed: later bodies are still inserted.
InsertFail(a) ==
  /\ up[a].pc = "insert" /\ insertMu = a
  /\ InsertEnd(a, "insert")
  /\ UNCHANGED <<blob, lru, stale, bytes, pins, held, private, corrupt, restarts>>

\* The temporary file replaces what is at the path.
Publish(a) ==
  LET b == up[a].cur
      replaced == IF blob[b] = NoBlob THEN 0 ELSE BlobSize[b]
      put == [blob |-> [blob EXCEPT ![b] = [ino |-> up[a].ino, good |-> TRUE]],
              lru |-> Append(SelectSeq(lru, LAMBDA x : x # b), b),
              stale |-> stale \ {b}, bytes |-> bytes + BlobSize[b] - replaced]
  IN put

\* Pinned before the budget is enforced, so eviction cannot take it.
InsertPublish(a) ==
  /\ up[a].pc = "insert" /\ insertMu = a
  /\ PinIn(a, up[a].cur)
  /\ Becomes(EnforceSize(Publish(a), pins'))
  /\ InsertEnd(a, "insert")
  /\ UNCHANGED <<private, corrupt, restarts>>

\* The request ends while the budget is enforced: the publication is rolled
\* back, unless another job holds the body.
InsertCancelled(a) ==
  LET b == up[a].cur
      during == IF a \in BlobJobs THEN [pins EXCEPT ![b] = @ + 1] ELSE pins
      put == Publish(a)
  IN /\ up[a].pc = "insert" /\ insertMu = a
     /\ \E n \in 0..EvictCount(put, during) :
          LET c == Evicted(put, during, n)
          IN Becomes(IF pins[b] > 0 \/ c.blob[b] = NoBlob THEN c ELSE Unlink(c, b))
     /\ InsertEnd(a, "abort")
     /\ UNCHANGED <<pins, held, private, corrupt, restarts>>

-----------------------------------------------------------------------------
(* The job's change base and its settlement.                                *)

\* CaptureJobBaseContext copies the bodies the pins do not name.
Capture(a) ==
  /\ up[a].pc = "insert" /\ up[a].cur = NoBlob /\ up[a].todo = {}
  /\ IF a \in BlobJobs
     THEN /\ private' = [private EXCEPT ![a] = Bodies[a] \ held[a]]
          /\ up' = [up EXCEPT ![a].pc = "run"]
     ELSE /\ up' = [up EXCEPT ![a].pc = "done"]
          /\ UNCHANGED private
  /\ UNCHANGED <<blob, lru, stale, bytes, pins, held, insertMu, corrupt, restarts>>

\* The request is cancelled, or a kill is accepted, while staging.
StagingCancelled(a) ==
  /\ up[a].pc \in {"extract", "insert"}
  /\ insertMu' = IF insertMu = a THEN NoBlob ELSE insertMu
  /\ up' = [up EXCEPT ![a] = Fresh("abort", {})]
  /\ UNCHANGED <<blob, lru, stale, bytes, pins, held, private, corrupt, restarts>>

\* The command ended and its changes are collected.
JobExit(a) ==
  /\ up[a].pc = "run"
  /\ up' = [up EXCEPT ![a] = Fresh("settle", {})]
  /\ UNCHANGED <<blob, lru, stale, bytes, pins, held, private, insertMu, corrupt, restarts>>

\* cachePins.release: the pins may have held the cache above its budget.
Release(p, S) ==
  IF S = {} THEN Cache ELSE EnforceSize(Cache, Unpin(p, S))

\* A cache miss is followed by one complete upload of the same source.
Fallback(a) == IF up[a].missed THEN Fresh("extract", {}) ELSE Fresh("done", {})

\* Settlement, or the abort of an admission.
Settle(a) ==
  /\ up[a].pc \in {"abort", "settle"}
  /\ Becomes(Release(pins, Holds(a)))
  /\ pins' = Unpin(pins, Holds(a))
  /\ held' = [j \in BlobJobs |-> IF j = a THEN {} ELSE held[j]]
  /\ private' = [j \in BlobJobs |-> IF j = a THEN {} ELSE private[j]]
  /\ up' = [up EXCEPT ![a] = Fallback(a)]
  /\ UNCHANGED <<insertMu, corrupt, restarts>>

-----------------------------------------------------------------------------
(* Collection, time, damage and restarts.                                   *)

\* GCContext: expired bodies go, the bytes are counted, the budget enforced.
Collected(p) ==
  LET gone == {b \in stale : p[b] = 0}
      swept == FoldSet(LAMBDA b, c : Unlink(c, b), Cache, gone)
  IN EnforceSize([swept EXCEPT !.bytes = Total(Present(swept))], p)

\* The bodies a dry run announces.
PlannedGC ==
  LET expired == {b \in Present(Cache) : b \in stale /\ pins[b] = 0}
      retained == SelectSeq(lru, LAMBDA b : pins[b] = 0 /\ b \notin stale)
      remaining == Total(Present(Cache)) - Total(expired)
      Left(n) == remaining - Total(ToSet(SubSeq(retained, 1, n)))
      fits == {n \in 0..Len(retained) : Left(n) <= Target}
      count == IF remaining <= MaxBytes THEN 0 ELSE Min(fits \union {Len(retained)})
  IN expired \union ToSet(SubSeq(retained, 1, count))

BlobGC ==
  /\ insertMu = NoBlob
  /\ Becomes(Collected(pins))
  /\ UNCHANGED <<pins, held, private, insertMu, up, corrupt, restarts>>

\* The last use of a body becomes older than the TTL, oldest first.
Age ==
  /\ \E i \in DOMAIN lru :
       /\ lru[i] \notin stale
       /\ \A k \in 1..(i - 1) : lru[k] \in stale
       /\ stale' = stale \union {lru[i]}
  /\ UNCHANGED <<blob, lru, bytes, pins, held, private, insertMu, up, corrupt, restarts>>

\* A cached file is damaged on disk, its size unchanged.
Corrupt(b) ==
  /\ Cardinality(corrupt) < MaxCorrupt
  /\ blob[b] # NoBlob /\ blob[b].good
  /\ blob' = [blob EXCEPT ![b].good = FALSE]
  /\ corrupt' = corrupt \union {b}
  /\ UNCHANGED <<lru, stale, bytes, pins, held, private, insertMu, up, restarts>>

\* A restart forgets the pins and every upload; newBlobCache collects.
Restart ==
  /\ restarts < MaxRestart
  /\ restarts' = restarts + 1
  /\ pins' = [b \in Blobs |-> 0]
  /\ held' = [j \in BlobJobs |-> {}] /\ private' = [j \in BlobJobs |-> {}]
  /\ insertMu' = NoBlob
  /\ up' = [a \in Uploads |-> IF up[a].pc = "new" THEN up[a] ELSE Fresh("done", {})]
  /\ Becomes(Collected(pins'))
  /\ UNCHANGED corrupt

BlobNext ==
  \/ \E a \in Uploads :
       \/ Negotiate(a)
       \/ \E b \in Blobs : MaterializeOpen(a, b) \/ MaterializeHit(a, b) \/ MaterializeCorrupt(a, b)
       \/ ExtractDone(a)
       \/ \E b \in Blobs : InsertCopy(a, b)
       \/ InsertFail(a) \/ InsertPublish(a) \/ InsertCancelled(a)
       \/ Capture(a) \/ StagingCancelled(a) \/ JobExit(a) \/ Settle(a)
  \/ BlobGC \/ Age \/ Restart
  \/ \E b \in Blobs : Corrupt(b)

BlobSpec == BlobInit /\ [][BlobNext]_blobVars

-----------------------------------------------------------------------------
(* Properties.                                                              *)

BlobTypeOK ==
  /\ blob \in [Blobs -> {NoBlob} \union [ino : BlobInodes, good : BOOLEAN]]
  /\ ToSet(lru) = Present(Cache) /\ Len(lru) = Cardinality(Present(Cache))
  /\ stale \subseteq Present(Cache)
  /\ held \in [BlobJobs -> SUBSET Blobs]
  /\ insertMu \in Uploads \union {NoBlob}

\* A body is held as often as there are unsettled jobs holding it.
PinsExact == \A b \in Blobs : pins[b] = Cardinality({j \in BlobJobs : b \in held[j]})

\* The counter that decides about evictions is what the directory holds.
BytesExact == bytes = Total(Present(Cache))

\* Only pinned bodies can hold the cache above its budget.
WithinBudget == Total({b \in Present(Cache) : pins[b] = 0}) <= MaxBytes

\* A dry run announces exactly what the collection would remove.
PlanExact == PlannedGC = Present(Cache) \ Present(Collected(pins))

(* While a job's command runs, change collection can read every submitted   *)
(* body: it is in the job's private store, or pinned and still cached.      *)
(* Eviction, expiry, GC and the replacement or removal of the path while    *)
(* the body was being copied must not break this; only a body damaged on    *)
(* disk may be gone.                                                        *)
BaseReadable ==
  \A j \in BlobJobs : up[j].pc = "run" =>
    \A b \in Bodies[j] : \/ b \in private[j]
                         \/ b \in held[j] /\ (blob[b] # NoBlob \/ b \in corrupt)
=============================================================================
