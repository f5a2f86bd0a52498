------------------------- MODULE RunnerStoresProofs -------------------------
(***************************************************************************)
(* Proofs about the stores a runner keeps: the receipts of settled jobs    *)
(* (JobGC), the persistent workspaces (Workspaces) and the named caches    *)
(* (NamedCache).                                                           *)
(***************************************************************************)
EXTENDS JobGC, NamedCache, Workspaces, FiniteSetTheorems, TLAPS

(***************************************************************************)
(* Proofs about JobGC, for any number of ids, any ages, crashes and        *)
(* failing removals, where the wall clock is right and a submission does   *)
(* not outlast a tick: without these two the guard does not hold.          *)
(*                                                                         *)
(* NoReplay is not inductive.  GCInv adds what a record of a collected id  *)
(* proves (whoever forgets it knows that the id is too old), which part of *)
(* the memory repeats the disk, and who may take a receipt away.           *)
(***************************************************************************)

\* A time this machine has shown: its monotonic reading, if any, agrees.
Shown(t) == t \in Instants /\ t.w \in 0 .. wall /\ t.m \in {NoMono, t.w}

ClockInv == /\ mono \in Nat /\ wall = mono /\ MaxAge <= wall
            /\ Shown(high) /\ clockFile \in 0 .. wall
            /\ issued \in [Ids -> Nat]

TooOld(id) == issued[id] <= wall - MaxAge

\* A record of a collected id: the id was admitted before the record was made.
Proves(id, r) == \/ r = NoRecord
                 \/ r \in Records /\ Shown(r.at) /\ issued[id] <= r.at.w + Skew

RecordsInv(id) == Proves(id, mark[id]) /\ Proves(id, collected[id]) /\ Proves(id, pruned[id])

\* The daemon's memory of collected ids is complete.
Loaded(id) == gcUp = "serving" \/ (gcUp = "loading" /\ load[id] # "marker")

\* An id that ran is known, on disk and in memory, until it is too old.
KnownInv(id) ==
    /\ runs[id] > 0 \/ dir[id] # "none" => issued[id] <= wall + Skew
    /\ runs[id] > 0 => dir[id] # "none" \/ mark[id] # NoRecord \/ TooOld(id)
    /\ runs[id] > 0 /\ Loaded(id) => dir[id] # "none" \/ collected[id] # NoRecord \/ TooOld(id)
    /\ runs[id] \in {0, 1}
    /\ dir[id] = "active" => runs[id] = 0
    /\ dir[id] \in {"clean", "kept"} => runs[id] = 1
    /\ upload[id] = "fresh" => ~TooOld(id) /\ issued[id] <= wall + Skew

\* A tombstone has taken the place of the receipt, and its marker stays.
TombInv(id) ==
    tomb[id] => /\ dir[id] = "none" /\ mark[id] # NoRecord
                /\ Loaded(id) => collected[id] # NoRecord

\* Removal and pruning.
CollectInv(id) ==
    /\ id \in jobs => dir[id] # "none"
    /\ id \in jobs /\ collected[id] # NoRecord => id \in locked
    /\ id \in locked => /\ id \in jobs /\ deleting[id] /\ dir[id] = "clean"
                        /\ mark[id] # NoRecord /\ collected[id] # NoRecord
                        /\ reader[id] \in {"none", "found"}
    /\ prune[id] # "idle" => TooOld(id) /\ id \notin jobs /\ ~tomb[id] /\ gcUp = "serving"
    /\ load[id] # "idle" => id \notin jobs /\ gcUp = "loading"
    /\ gcUp # "serving" => id \notin locked

\* Readers and what they fetched.
ReaderInv(id) ==
    /\ reader[id] # "none" => gcUp = "serving" /\ runs[id] = 1
    /\ reader[id] = "found" /\ ~deleting[id] => dir[id] # "none"
    /\ reader[id] \in {"reading", "sent"} => dir[id] # "none"
    /\ id \in unfetched <=> id \in jobs /\ dir[id] # "active" /\ changes[id] /\ ~fetched[id]

IdInv(id) == RecordsInv(id) /\ KnownInv(id) /\ TombInv(id) /\ CollectInv(id) /\ ReaderInv(id)

\* A stopped daemon knows nothing.
DownInv == gcUp = "down" => jobs = {}

GCInv == /\ GCTypeOK /\ ClockInv /\ DownInv
         /\ \A id \in Ids : IdInv(id)

IdStep(id) == Submission(id) \/ Reading(id) \/ Collecting(id) \/ Loading(id)

\* A step is one of an id, of the clocks, or of the daemon as a whole.
LEMMA NextSplit ==
    GCNext <=> (\E id \in Ids : IdStep(id)) \/ GCTick \/ AdvanceAdmissionClock
               \/ GCCrash \/ GCRestart \/ GCServe
BY DEF GCNext, IdStep

----------------------------------------------------------------------------
(* Time and records.                                                       *)

\* The time of the moment is one the clocks have shown.
LEMMA NowShown == ClockInv => Shown(Now) /\ Now.w = wall
BY DEF ClockInv, Shown, Now, Instants, NoMono

\* Where the clock is right, admissionNow is the time of the moment.
LEMMA AdmissionIsNow == ClockInv => AdmissionNow = Now
BY DEF ClockInv, AdmissionNow, After, Now, Shown, NoMono

\* validateNewJobID: a fresh id is neither too old nor too far ahead.
LEMMA FreshMeans ==
    ASSUME ClockInv, NEW id \in Ids, GCFresh(id, AdmissionNow)
    PROVE  ~TooOld(id) /\ issued[id] <= wall + Skew
<1>1. GCFresh(id, Now)
  BY AdmissionIsNow
<1>2. issued[id] \in Nat /\ wall \in Nat /\ MaxAge \in Nat /\ Skew \in Nat
  BY JobGCAssumption DEF ClockInv
<1>. QED BY <1>1, <1>2 DEF GCFresh, After, OnDisk, Plus, Now, TooOld, NoMono

\* Whoever sees a record expire knows that its id is too old for admission.
LEMMA ExpiredMeans ==
    ASSUME ClockInv, NEW id \in Ids, NEW r, r # NoRecord, Proves(id, r),
           NEW moment \in {high, AdmissionNow, Now}, GCExpired(r, moment)
    PROVE  TooOld(id)
<1> DEFINE ttl == IF r.pending THEN PendingTTL ELSE MarkerTTL
<1>1. ttl \in Nat /\ ttl >= MaxAge + Skew /\ MaxAge \in Nat /\ Skew \in Nat
  BY JobGCAssumption DEF MarkerTTL
<1>2. Shown(moment)
  BY AdmissionIsNow, NowShown DEF ClockInv
<1>3. Shown(r.at) /\ issued[id] <= r.at.w + Skew
  BY DEF Proves
<1>4. ~After(Plus(r.at, ttl), moment)
  BY DEF GCExpired
<1> HIDE DEF ttl
<1>5. r.at.w + ttl <= moment.w
  BY <1>1, <1>2, <1>3, <1>4 DEF After, Plus, Shown, NoMono, Instants, ClockInv
<1>6. moment.w <= wall /\ moment.w \in Nat /\ r.at.w \in Nat /\ wall \in Nat /\ issued[id] \in Nat
  BY <1>2, <1>3 DEF Shown, ClockInv
<1>. QED BY <1>1, <1>3, <1>5, <1>6 DEF TooOld

\* An absent record is typed.
LEMMA NoRecordType == NoRecord \in Records
BY DEF NoRecord, Records, OnDisk, Instants, NoMono

\* The record a collection makes of an id that was admitted by now.
Collection(id) == [at |-> AdmissionNow, pending |-> changes[id]]
Written(r) == [r EXCEPT !.at = OnDisk(r.at.w)]  \* as its file keeps it

\* A record keeps proving its id once it is written, without its monotonic part.
LEMMA WrittenProves ==
    ASSUME ClockInv, NEW id \in Ids, NEW r, r # NoRecord, Proves(id, r)
    PROVE  Written(r) # NoRecord /\ Proves(id, Written(r)) /\ Written(r) \in Records
<1>1. r \in Records /\ Shown(r.at) /\ issued[id] <= r.at.w + Skew
  BY DEF Proves
<1>2. Written(r) = [at |-> [w |-> r.at.w, m |-> NoMono], pending |-> r.pending]
  BY <1>1 DEF Written, Records, OnDisk
<1>3. Shown([w |-> r.at.w, m |-> NoMono])
  BY <1>1 DEF Shown, Instants, NoMono
<1>4. Written(r) # NoRecord
  <2>1. Written(r).at.w = r.at.w /\ NoRecord.at.w = -1
    BY <1>2 DEF NoRecord, OnDisk, NoMono
  <2>. QED BY <1>1, <2>1 DEF Shown
<1>5. Written(r) \in Records
  BY <1>1, <1>2, <1>3 DEF Records, Shown
<1>6. Written(r).at = [w |-> r.at.w, m |-> NoMono] /\ Written(r).at.w = r.at.w
  BY <1>2
<1>. QED BY <1>1, <1>3, <1>4, <1>5, <1>6 DEF Proves

\* The record a collection makes proves the id it is made for.
LEMMA CollectionProves ==
    ASSUME ClockInv, GCTypeOK, NEW id \in Ids, issued[id] <= wall + Skew
    PROVE  Collection(id) # NoRecord /\ Proves(id, Collection(id)) /\ Collection(id) \in Records
<1>1. Collection(id) = [at |-> Now, pending |-> changes[id]]
  BY AdmissionIsNow DEF Collection
<1>2. Shown(Now) /\ Now.w = wall /\ wall \in Nat
  BY NowShown DEF ClockInv
<1>3. changes[id] \in BOOLEAN
  BY DEF GCTypeOK
<1>4. Collection(id) \in Records
  BY <1>1, <1>2, <1>3 DEF Records, Shown
<1>5. Collection(id) # NoRecord
  <2>1. Collection(id).at.w = wall /\ NoRecord.at.w = -1
    BY <1>1, <1>2 DEF NoRecord, OnDisk, NoMono
  <2>. QED BY <1>2, <2>1
<1>. QED BY <1>1, <1>2, <1>4, <1>5 DEF Proves

\* handleChangeReconciliationAck keeps the time of the record.
Acknowledged(r) == [r EXCEPT !.pending = FALSE]

\* Acknowledging the changes leaves the proof in place.
LEMMA AcknowledgedProves ==
    ASSUME ClockInv, NEW id \in Ids, NEW r, r # NoRecord, Proves(id, r)
    PROVE  /\ Acknowledged(r) # NoRecord /\ Proves(id, Acknowledged(r))
           /\ Acknowledged(r) \in Records
<1>1. r \in Records /\ Shown(r.at) /\ issued[id] <= r.at.w + Skew
  BY DEF Proves
<1>2. Acknowledged(r).at = r.at
  BY <1>1 DEF Acknowledged, Records
<1>3. Acknowledged(r) \in Records
  BY <1>1 DEF Acknowledged, Records
<1>4. Acknowledged(r) # NoRecord
  <2>1. Acknowledged(r).at.w = r.at.w /\ NoRecord.at.w = -1
    BY <1>2 DEF NoRecord, OnDisk, NoMono
  <2>. QED BY <1>1, <2>1 DEF Shown
<1>. QED BY <1>1, <1>2, <1>3, <1>4 DEF Proves

----------------------------------------------------------------------------
\* A step about one id leaves the clocks, the phase and the other ids alone.
Untouched(k) ==
    /\ dir'[k] = dir[k] /\ tomb'[k] = tomb[k] /\ mark'[k] = mark[k]
    /\ collected'[k] = collected[k] /\ deleting'[k] = deleting[k]
    /\ fetched'[k] = fetched[k] /\ upload'[k] = upload[k] /\ reader'[k] = reader[k]
    /\ prune'[k] = prune[k] /\ pruned'[k] = pruned[k] /\ load'[k] = load[k]
    /\ changes'[k] = changes[k] /\ runs'[k] = runs[k]
    /\ k \in jobs' <=> k \in jobs
    /\ k \in unfetched' <=> k \in unfetched
    /\ k \in locked' <=> k \in locked

\* A step of one id leaves every other id alone.
LEMMA Frame ==
    ASSUME GCTypeOK, NEW id \in Ids, NEW k \in Ids, k # id, IdStep(id)
    PROVE  Untouched(k)
<1> USE DEF GCTypeOK, Untouched, files, memory, requests, history
<1>1. CASE Submit(id)
  BY <1>1 DEF Submit
<1>2. CASE Admit(id)
  BY <1>2 DEF Admit, Admissible
<1>3. CASE SubmitEnd(id)
  BY <1>3 DEF SubmitEnd
<1>4. CASE Rollback(id)
  BY <1>4 DEF Rollback
<1>5. CASE GCSettle(id)
  BY <1>5 DEF GCSettle
<1>6. CASE Lookup(id)
  BY <1>6 DEF Lookup
<1>7. CASE AcquireReader(id)
  BY <1>7 DEF AcquireReader
<1>8. CASE ResultsFetched(id)
  BY <1>8 DEF ResultsFetched
<1>9. CASE RecordFetched(id)
  BY <1>9 DEF RecordFetched
<1>10. CASE ReleaseReader(id)
  BY <1>10 DEF ReleaseReader
<1>11. CASE RemoveMark(id)
  BY <1>11 DEF RemoveMark, Free
<1>12. CASE RemoveRename(id)
  BY <1>12 DEF RemoveRename
<1>13. CASE RemoveUndo(id)
  BY <1>13 DEF RemoveUndo
<1>14. CASE RemoveTomb(id)
  BY <1>14 DEF RemoveTomb
<1>15. CASE SweepTomb(id)
  BY <1>15 DEF SweepTomb
<1>16. CASE PruneBegin(id)
  BY <1>16 DEF PruneBegin
<1>17. CASE PruneRemove(id)
  BY <1>17 DEF PruneRemove
<1>18. CASE PruneForget(id)
  BY <1>18 DEF PruneForget
<1>19. CASE AckChanges(id)
  BY <1>19 DEF AckChanges
<1>20. CASE LoadMarker(id)
  BY <1>20 DEF LoadMarker
<1>21. CASE LoadTomb(id)
  BY <1>21 DEF LoadTomb
<1>22. CASE LoadPrune(id)
  BY <1>22 DEF LoadPrune
<1>23. CASE LoadJob(id)
  BY <1>23 DEF LoadJob
<1>. QED
  BY <1>1, <1>2, <1>3, <1>4, <1>5, <1>6, <1>7, <1>8, <1>9, <1>10, <1>11, <1>12, <1>13,
     <1>14, <1>15, <1>16, <1>17, <1>18, <1>19, <1>20, <1>21, <1>22, <1>23 DEF IdStep,
     Submission, Reading, Collecting, Loading

\* A step of an id moves neither the clocks nor the daemon's phase.
LEMMA SamePhase ==
    ASSUME NEW id \in Ids, IdStep(id)
    PROVE  UNCHANGED <<mono, wall, issued, clockFile, high, gcUp>>
<1> USE DEF clocks
<1>1. CASE Submit(id)
  BY <1>1 DEF Submit
<1>2. CASE Admit(id)
  BY <1>2 DEF Admit
<1>3. CASE SubmitEnd(id)
  BY <1>3 DEF SubmitEnd
<1>4. CASE Rollback(id)
  BY <1>4 DEF Rollback
<1>5. CASE GCSettle(id)
  BY <1>5 DEF GCSettle
<1>6. CASE Lookup(id)
  BY <1>6 DEF Lookup
<1>7. CASE AcquireReader(id)
  BY <1>7 DEF AcquireReader
<1>8. CASE ResultsFetched(id)
  BY <1>8 DEF ResultsFetched
<1>9. CASE RecordFetched(id)
  BY <1>9 DEF RecordFetched
<1>10. CASE ReleaseReader(id)
  BY <1>10 DEF ReleaseReader
<1>11. CASE RemoveMark(id)
  BY <1>11 DEF RemoveMark
<1>12. CASE RemoveRename(id)
  BY <1>12 DEF RemoveRename
<1>13. CASE RemoveUndo(id)
  BY <1>13 DEF RemoveUndo
<1>14. CASE RemoveTomb(id)
  BY <1>14 DEF RemoveTomb
<1>15. CASE SweepTomb(id)
  BY <1>15 DEF SweepTomb
<1>16. CASE PruneBegin(id)
  BY <1>16 DEF PruneBegin
<1>17. CASE PruneRemove(id)
  BY <1>17 DEF PruneRemove
<1>18. CASE PruneForget(id)
  BY <1>18 DEF PruneForget
<1>19. CASE AckChanges(id)
  BY <1>19 DEF AckChanges
<1>20. CASE LoadMarker(id)
  BY <1>20 DEF LoadMarker
<1>21. CASE LoadTomb(id)
  BY <1>21 DEF LoadTomb
<1>22. CASE LoadPrune(id)
  BY <1>22 DEF LoadPrune
<1>23. CASE LoadJob(id)
  BY <1>23 DEF LoadJob
<1>. QED
  BY <1>1, <1>2, <1>3, <1>4, <1>5, <1>6, <1>7, <1>8, <1>9, <1>10, <1>11, <1>12, <1>13,
     <1>14, <1>15, <1>16, <1>17, <1>18, <1>19, <1>20, <1>21, <1>22, <1>23 DEF IdStep,
     Submission, Reading, Collecting, Loading

----------------------------------------------------------------------------
\* The step about an id keeps its invariant.
LEMMA OwnStep ==
    ASSUME GCTypeOK, ClockInv, NEW id \in Ids, IdInv(id), IdStep(id)
    PROVE  IdInv(id)'
<1>c. UNCHANGED <<mono, wall, issued, clockFile, high, gcUp>>
  BY SamePhase
<1>p. \A r : Proves(id, r)' <=> Proves(id, r)
  BY <1>c DEF Proves, Shown
<1>o. TooOld(id)' <=> TooOld(id)
  BY <1>c DEF TooOld
<1>n. Proves(id, NoRecord)
  BY DEF Proves
<1> USE DEF GCTypeOK, IdInv, RecordsInv, KnownInv, TombInv, CollectInv, ReaderInv, Loaded,
            Dirs, files, memory, requests, history
<1>1. CASE Submit(id)
  <2>1. GCFresh(id, AdmissionNow) => ~TooOld(id) /\ issued[id] <= wall + Skew
    BY FreshMeans
  <2>. QED BY <1>1, <1>c, <1>p, <1>o, <2>1 DEF Submit
<1>2. CASE Admit(id)
  BY <1>2, <1>c, <1>p, <1>o DEF Admit, Admissible, Free
<1>3. CASE SubmitEnd(id)
  BY <1>3, <1>c, <1>p, <1>o DEF SubmitEnd
<1>4. CASE Rollback(id)
  BY <1>4, <1>c, <1>p, <1>o DEF Rollback, Free
<1>5. CASE GCSettle(id)
  BY <1>5, <1>c, <1>p, <1>o DEF GCSettle, Free
<1>6. CASE Lookup(id)
  BY <1>6, <1>c, <1>p, <1>o DEF Lookup, Free
<1>7. CASE AcquireReader(id)
  BY <1>7, <1>c, <1>p, <1>o DEF AcquireReader
<1>8. CASE ResultsFetched(id)
  BY <1>8, <1>c, <1>p, <1>o DEF ResultsFetched, Free
<1>9. CASE RecordFetched(id)
  BY <1>9, <1>c, <1>p, <1>o DEF RecordFetched
<1>10. CASE ReleaseReader(id)
  BY <1>10, <1>c, <1>p, <1>o DEF ReleaseReader
<1>11. CASE RemoveMark(id)
  <2>1. /\ mark' = [mark EXCEPT ![id] = Written(Collection(id))]
        /\ collected' = [collected EXCEPT ![id] = Collection(id)]
    BY <1>11 DEF RemoveMark, Written, Collection
  <2>2. issued[id] <= wall + Skew /\ dir[id] = "clean" /\ id \in jobs
        /\ reader[id] \in {"none", "found"} /\ gcUp = "serving"
    BY <1>11 DEF RemoveMark, Eligible, Free
  <2>3. Collection(id) # NoRecord /\ Proves(id, Collection(id))
    BY <2>2, CollectionProves
  <2>4. Written(Collection(id)) # NoRecord /\ Proves(id, Written(Collection(id)))
    BY <2>3, WrittenProves
  <2>. QED BY <1>11, <1>c, <1>p, <1>o, <2>1, <2>2, <2>3, <2>4 DEF RemoveMark, Free
<1>12. CASE RemoveRename(id)
  BY <1>12, <1>c, <1>p, <1>o DEF RemoveRename
<1>13. CASE RemoveUndo(id)
  BY <1>13, <1>c, <1>p, <1>o DEF RemoveUndo, Proves
<1>14. CASE RemoveTomb(id)
  BY <1>14, <1>c, <1>p, <1>o DEF RemoveTomb
<1>15. CASE SweepTomb(id)
  BY <1>15, <1>c, <1>p, <1>o DEF SweepTomb, Free
<1>16. CASE PruneBegin(id)
  <2>1. collected[id] # NoRecord /\ ~tomb[id] /\ gcUp = "serving" /\ id \notin locked
    BY <1>16 DEF PruneBegin, Prunable, Free
  <2>2. TooOld(id)
    <3>1. GCExpired(collected[id], high) \/ GCExpired(collected[id], AdmissionNow)
      BY <1>16 DEF PruneBegin, Prunable
    <3>. QED BY <2>1, <3>1, ExpiredMeans
  <2>. QED BY <1>16, <1>c, <1>p, <1>o, <2>1, <2>2 DEF PruneBegin
<1>17. CASE PruneRemove(id)
  BY <1>17, <1>c, <1>p, <1>o DEF PruneRemove, Proves
<1>18. CASE PruneForget(id)
  BY <1>18, <1>c, <1>p, <1>o DEF PruneForget, Free, Proves
<1>19. CASE AckChanges(id)
  <2>1. /\ mark' = [mark EXCEPT ![id] = Written(Acknowledged(collected[id]))]
        /\ collected' = [collected EXCEPT ![id] = Acknowledged(collected[id])]
        /\ collected[id] # NoRecord
    BY <1>19 DEF AckChanges, Written, Acknowledged
  <2>3. Acknowledged(collected[id]) # NoRecord /\ Proves(id, Acknowledged(collected[id]))
    BY <2>1, AcknowledgedProves
  <2>4. /\ Written(Acknowledged(collected[id])) # NoRecord
        /\ Proves(id, Written(Acknowledged(collected[id])))
    BY <2>3, WrittenProves
  <2> DEFINE a == Acknowledged(collected[id])
  <2> DEFINE w == Written(a)
  <2>5. /\ mark' = [mark EXCEPT ![id] = w] /\ collected' = [collected EXCEPT ![id] = a]
        /\ a # NoRecord /\ Proves(id, a) /\ w # NoRecord /\ Proves(id, w)
    BY <2>1, <2>3, <2>4
  <2> HIDE DEF a, w
  <2>6. UNCHANGED <<dir, tomb, jobs, deleting, fetched, unfetched, locked, requests, load,
                    changes, runs>> /\ locked = {}
    BY <1>19 DEF AckChanges, Free
  <2>. QED BY <1>c, <1>p, <1>o, <2>1, <2>5, <2>6
<1>20. CASE LoadMarker(id)
  <2>1. mark[id] # NoRecord /\ GCExpired(mark[id], AdmissionNow) => TooOld(id)
    BY ExpiredMeans
  <2>2. CASE mark[id] # NoRecord /\ GCExpired(mark[id], AdmissionNow) /\ ~tomb[id]
    BY <1>20, <1>c, <1>p, <1>o, <1>n, <2>1, <2>2 DEF LoadMarker
  <2>3. CASE ~(mark[id] # NoRecord /\ GCExpired(mark[id], AdmissionNow) /\ ~tomb[id])
    <3>1. mark' = mark /\ collected' = [collected EXCEPT ![id] = mark[id]]
      BY <1>20, <2>3 DEF LoadMarker
    <3>. QED BY <1>20, <1>c, <1>p, <1>o, <3>1 DEF LoadMarker
  <2>. QED BY <2>2, <2>3
<1>21. CASE LoadTomb(id)
  BY <1>21, <1>c, <1>p, <1>o DEF LoadTomb
<1>22. CASE LoadPrune(id)
  <2>1. Prunable(id, AdmissionNow) => TooOld(id) /\ ~tomb[id]
    BY ExpiredMeans DEF Prunable
  <2>2. CASE Prunable(id, AdmissionNow)
    BY <1>22, <1>c, <1>p, <1>o, <1>n, <2>1, <2>2 DEF LoadPrune
  <2>3. CASE ~Prunable(id, AdmissionNow)
    BY <1>22, <1>c, <1>p, <1>o, <2>3 DEF LoadPrune
  <2>. QED BY <2>2, <2>3
<1>23. CASE LoadJob(id)
  BY <1>23, <1>c, <1>p, <1>o DEF LoadJob, Proves
<1>. QED
  BY <1>1, <1>2, <1>3, <1>4, <1>5, <1>6, <1>7, <1>8, <1>9, <1>10, <1>11, <1>12, <1>13,
     <1>14, <1>15, <1>16, <1>17, <1>18, <1>19, <1>20, <1>21, <1>22, <1>23 DEF IdStep,
     Submission, Reading, Collecting, Loading

----------------------------------------------------------------------------
\* Every action keeps the variables in their types.
LEMMA TypeOwn ==
    ASSUME GCTypeOK, ClockInv, NEW id \in Ids, IdInv(id), IdStep(id)
    PROVE  GCTypeOK'
<1> USE DEF GCTypeOK, Dirs, clocks, files, memory, requests, history
<1>n. NoRecord \in Records
  BY NoRecordType
<1>1. CASE Submit(id)
  BY <1>1 DEF Submit
<1>2. CASE Admit(id)
  BY <1>2 DEF Admit
<1>3. CASE SubmitEnd(id)
  BY <1>3 DEF SubmitEnd
<1>4. CASE Rollback(id)
  BY <1>4 DEF Rollback
<1>5. CASE GCSettle(id)
  BY <1>5 DEF GCSettle
<1>6. CASE Lookup(id)
  BY <1>6 DEF Lookup
<1>7. CASE AcquireReader(id)
  BY <1>7 DEF AcquireReader
<1>8. CASE ResultsFetched(id)
  BY <1>8 DEF ResultsFetched
<1>9. CASE RecordFetched(id)
  BY <1>9 DEF RecordFetched
<1>10. CASE ReleaseReader(id)
  BY <1>10 DEF ReleaseReader
<1>11. CASE RemoveMark(id)
  <2>1. /\ mark' = [mark EXCEPT ![id] = Written(Collection(id))]
        /\ collected' = [collected EXCEPT ![id] = Collection(id)]
    BY <1>11 DEF RemoveMark, Written, Collection
  <2>2. issued[id] <= wall + Skew
    BY <1>11 DEF RemoveMark, Eligible, IdInv, KnownInv
  <2>3. Collection(id) # NoRecord /\ Proves(id, Collection(id)) /\ Collection(id) \in Records
    BY <2>2, CollectionProves
  <2>4. Written(Collection(id)) \in Records
    BY <2>3, WrittenProves
  <2>. QED BY <1>11, <2>1, <2>3, <2>4 DEF RemoveMark
<1>12. CASE RemoveRename(id)
  BY <1>12 DEF RemoveRename
<1>13. CASE RemoveUndo(id)
  BY <1>13, <1>n DEF RemoveUndo
<1>14. CASE RemoveTomb(id)
  BY <1>14 DEF RemoveTomb
<1>15. CASE SweepTomb(id)
  BY <1>15 DEF SweepTomb
<1>16. CASE PruneBegin(id)
  BY <1>16 DEF PruneBegin
<1>17. CASE PruneRemove(id)
  BY <1>17, <1>n DEF PruneRemove
<1>18. CASE PruneForget(id)
  BY <1>18, <1>n DEF PruneForget
<1>19. CASE AckChanges(id)
  <2>1. /\ mark' = [mark EXCEPT ![id] = Written(Acknowledged(collected[id]))]
        /\ collected' = [collected EXCEPT ![id] = Acknowledged(collected[id])]
        /\ collected[id] # NoRecord /\ Proves(id, collected[id])
    BY <1>19 DEF AckChanges, Written, Acknowledged, IdInv, RecordsInv
  <2>2. /\ Acknowledged(collected[id]) # NoRecord /\ Proves(id, Acknowledged(collected[id]))
        /\ Acknowledged(collected[id]) \in Records
    BY <2>1, AcknowledgedProves
  <2>3. Written(Acknowledged(collected[id])) \in Records
    BY <2>2, WrittenProves
  <2>4. mark' \in [Ids -> Records] /\ collected' \in [Ids -> Records]
    BY <2>1, <2>2, <2>3
  <2>. QED BY <1>19, <2>4 DEF AckChanges
<1>20. CASE LoadMarker(id)
  BY <1>20, <1>n DEF LoadMarker
<1>21. CASE LoadTomb(id)
  BY <1>21 DEF LoadTomb
<1>22. CASE LoadPrune(id)
  BY <1>22, <1>n DEF LoadPrune
<1>23. CASE LoadJob(id)
  BY <1>23, <1>n DEF LoadJob
<1>. QED
  BY <1>1, <1>2, <1>3, <1>4, <1>5, <1>6, <1>7, <1>8, <1>9, <1>10, <1>11, <1>12, <1>13,
     <1>14, <1>15, <1>16, <1>17, <1>18, <1>19, <1>20, <1>21, <1>22, <1>23 DEF IdStep,
     Submission, Reading, Collecting, Loading

\* advanceAdmissionClock and loadAdmissionClock.
LEMMA AdvanceShown ==
    ASSUME ClockInv, Advance(Now), UNCHANGED wall
    PROVE  Shown(high)' /\ clockFile' \in 0 .. wall /\ high' \in Instants
<1>1. Shown(Now) /\ Now.w = wall
  BY NowShown
<1>2. CASE After(Now, high)
  BY <1>1, <1>2 DEF Advance, Shown, ClockInv
<1>3. CASE ~After(Now, high)
  BY <1>3 DEF Advance, Shown, ClockInv
<1>. QED BY <1>2, <1>3

\* Time, the clock file, crash, restart and serving keep the invariant, if the wall
\* clock is right and no submission outlasts a tick.
LEMMA GlobalStep ==
    ASSUME MaxUpload = 0, MaxBack = 0, GCInv,
           GCTick \/ AdvanceAdmissionClock \/ GCCrash \/ GCRestart \/ GCServe
    PROVE  GCInv'
<1>t. GCTypeOK /\ ClockInv
  BY DEF GCInv
<1>1. CASE GCTick
  <2>1. mono' = mono + 1 /\ wall' \in mono' - MaxBack .. wall + 1
        /\ \A i \in Ids : upload[i] # "none" => age[i] < MaxUpload
    BY <1>1 DEF GCTick
  <2>2. \A i \in Ids : upload[i] = "none"
    BY <1>t, <2>1 DEF GCTypeOK
  <2>3. wall' = mono' /\ wall' = wall + 1 /\ mono' \in Nat /\ wall \in Nat
    BY <1>t, <2>1 DEF ClockInv
  <2>4. UNCHANGED <<issued, clockFile, files, gcUp, high, memory, locked, upload, reader,
                    sweep, prune, pruned, load, history>>
    BY <1>1 DEF GCTick
  <2>5. \A t : Shown(t) => Shown(t)'
    BY <2>3 DEF Shown
  <2>6. ClockInv'
    BY <1>t, <2>3, <2>4, <2>5, JobGCAssumption DEF ClockInv
  <2>7. GCTypeOK'
    <3>1. age' \in [Ids -> Nat]
      BY <1>1, <1>t DEF GCTick, GCTypeOK
    <3>. QED BY <1>t, <2>3, <2>4, <3>1 DEF GCTypeOK, files, memory, history
  <2>8. ASSUME NEW id \in Ids PROVE IdInv(id)'
    <3>1. IdInv(id)
      BY DEF GCInv
    <3>2. issued[id] \in Nat /\ MaxAge \in Nat /\ Skew \in Nat
      BY <1>t, JobGCAssumption DEF ClockInv
    <3>3. (TooOld(id) => TooOld(id)') /\ (issued[id] <= wall + Skew => issued[id] <= wall' + Skew)
      BY <2>3, <2>4, <3>2 DEF TooOld
    <3>4. \A r : Proves(id, r) => Proves(id, r)'
      BY <2>4, <2>5 DEF Proves
    <3>5. RecordsInv(id)'
      BY <2>4, <3>1, <3>4 DEF IdInv, RecordsInv, files, memory
    <3>6. KnownInv(id)' /\ TombInv(id)'
      BY <2>2, <2>4, <3>1, <3>3 DEF IdInv, KnownInv, TombInv, Loaded, files, memory, history
    <3>7. CollectInv(id)' /\ ReaderInv(id)'
      BY <2>4, <3>1, <3>3 DEF IdInv, CollectInv, ReaderInv, files, memory, history
    <3>. QED BY <3>5, <3>6, <3>7 DEF IdInv
  <2>. QED BY <2>4, <2>6, <2>7, <2>8 DEF GCInv, DownInv, memory
<1>2. CASE AdvanceAdmissionClock
  <2>1. Advance(Now) /\ UNCHANGED <<clocks, files, gcUp, memory, locked, requests, load, history>>
    BY <1>2 DEF AdvanceAdmissionClock
  <2>2. Shown(high)' /\ clockFile' \in 0 .. wall /\ high' \in Instants
    BY <1>t, <2>1, AdvanceShown DEF clocks
  <2>3. ClockInv' /\ GCTypeOK'
    BY <1>t, <2>1, <2>2 DEF ClockInv, GCTypeOK, clocks, files, memory, requests, history
  <2>4. ASSUME NEW id \in Ids PROVE IdInv(id)'
    <3>1. IdInv(id)
      BY DEF GCInv
    <3>. QED BY <2>1, <3>1 DEF IdInv, RecordsInv, Proves, Shown, KnownInv, TombInv,
             CollectInv, ReaderInv, Loaded, TooOld, clocks, files, memory, requests, history
  <2>. QED BY <2>1, <2>3, <2>4 DEF GCInv, DownInv, memory
<1>3. CASE GCCrash
  <2>1. UNCHANGED <<clocks, clockFile, files, changes, runs>> /\ gcUp' = "down"
        /\ high' = [w |-> clockFile, m |-> NoMono]
        /\ jobs' = {} /\ unfetched' = {} /\ locked' = {} /\ gcCrashes' = gcCrashes + 1
    BY <1>3 DEF GCCrash, OnDisk
  <2>2. /\ collected' = [i \in Ids |-> NoRecord] /\ deleting' = [i \in Ids |-> FALSE]
        /\ fetched' = [i \in Ids |-> FALSE]
        /\ upload' = [i \in Ids |-> "none"] /\ age' = [i \in Ids |-> 0]
        /\ reader' = [i \in Ids |-> "none"] /\ sweep' = [i \in Ids |-> "idle"]
        /\ prune' = [i \in Ids |-> "idle"] /\ pruned' = [i \in Ids |-> NoRecord]
        /\ load' = [i \in Ids |-> "idle"]
    BY <1>3 DEF GCCrash
  <2>3. Shown(high)' /\ high' \in Instants
    BY <1>t, <2>1 DEF Shown, Instants, NoMono, ClockInv, clocks
  <2>4. ClockInv'
    BY <1>t, <2>1, <2>3 DEF ClockInv, clocks
  <2>5. GCTypeOK'
    BY <1>t, <2>1, <2>2, <2>3, NoRecordType DEF GCTypeOK, clocks, files
  <2>6. ASSUME NEW id \in Ids PROVE IdInv(id)'
    <3>1. IdInv(id)
      BY DEF GCInv
    <3>2. \A r : Proves(id, r)' <=> Proves(id, r)
      BY <2>1 DEF Proves, Shown, clocks
    <3>3. RecordsInv(id)'
      BY <2>1, <2>2, <3>1, <3>2 DEF IdInv, RecordsInv, Proves, files
    <3>. QED BY <2>1, <2>2, <3>1, <3>3 DEF IdInv, KnownInv, TombInv, CollectInv, ReaderInv,
             Loaded, TooOld, clocks, files
  <2>. QED BY <2>1, <2>4, <2>5, <2>6 DEF GCInv, DownInv
<1>4. CASE GCRestart
  <2>1. Advance(Now) /\ UNCHANGED <<clocks, files, memory, locked, requests, history>>
        /\ gcUp = "down" /\ gcUp' = "loading" /\ load' = [i \in Ids |-> "marker"]
    BY <1>4 DEF GCRestart
  <2>2. Shown(high)' /\ clockFile' \in 0 .. wall /\ high' \in Instants
    BY <1>t, <2>1, AdvanceShown DEF clocks
  <2>3. ClockInv' /\ GCTypeOK'
    BY <1>t, <2>1, <2>2 DEF ClockInv, GCTypeOK, clocks, files, memory, requests, history
  <2>4. ASSUME NEW id \in Ids PROVE IdInv(id)'
    <3>1. IdInv(id) /\ id \notin jobs
      BY <2>1 DEF GCInv, DownInv
    <3>2. RecordsInv(id)'
      BY <2>1, <3>1 DEF IdInv, RecordsInv, Proves, Shown, clocks, files, memory, requests
    <3>. QED BY <2>1, <3>1, <3>2 DEF IdInv, KnownInv, TombInv, CollectInv, ReaderInv,
             Loaded, TooOld, clocks, files, memory, requests, history
  <2>5. DownInv'
    BY <2>1 DEF DownInv
  <2>. QED BY <2>3, <2>4, <2>5 DEF GCInv
<1>5. CASE GCServe
  <2>1. /\ gcUp = "loading" /\ gcUp' = "serving" /\ \A i \in Ids : load[i] = "idle"
        /\ UNCHANGED <<clocks, clockFile, files, high, memory, locked, requests, load, history>>
    BY <1>5 DEF GCServe
  <2>2. ClockInv' /\ GCTypeOK'
    BY <1>t, <2>1 DEF ClockInv, Shown, GCTypeOK, clocks, files, memory, requests, history
  <2>3. ASSUME NEW id \in Ids PROVE IdInv(id)'
    <3>1. IdInv(id) /\ Loaded(id)
      BY <2>1 DEF GCInv, Loaded
    <3>2. RecordsInv(id)'
      BY <2>1, <3>1 DEF IdInv, RecordsInv, Proves, Shown, clocks, files, memory, requests
    <3>. QED BY <2>1, <3>1, <3>2 DEF IdInv, KnownInv, TombInv, CollectInv, ReaderInv,
             Loaded, TooOld, clocks, files, memory, requests, history
  <2>. QED BY <2>1, <2>2, <2>3 DEF GCInv, DownInv
<1>. QED BY <1>1, <1>2, <1>3, <1>4, <1>5

----------------------------------------------------------------------------
\* The invariant is inductive.
LEMMA GCInvInit == GCInit => GCInv
<1> SUFFICES ASSUME GCInit PROVE GCInv
  OBVIOUS
<1>a. MaxAge \in Nat /\ Skew \in Nat
  BY JobGCAssumption
<1>1. mono = MaxAge /\ wall = MaxAge /\ clockFile = MaxAge /\ high = Now
      /\ issued \in [Ids -> 0 .. MaxAge + Skew + 1]
  BY DEF GCInit
<1>2. Shown(Now)
  BY <1>a, <1>1 DEF Shown, Now, Instants, NoMono
<1>3. ClockInv
  BY <1>a, <1>1, <1>2 DEF ClockInv
<1>4. GCTypeOK
  <2>1. high \in Instants
    BY <1>1, <1>2 DEF Shown
  <2>2. mark \in [Ids -> Records] /\ collected \in [Ids -> Records] /\ pruned \in [Ids -> Records]
    BY NoRecordType DEF GCInit
  <2>. QED BY <1>a, <1>3, <2>1, <2>2 DEF GCInit, GCTypeOK, ClockInv, Dirs
<1>5. ASSUME NEW id \in Ids PROVE IdInv(id)
  BY DEF GCInit, IdInv, RecordsInv, Proves, KnownInv, TombInv, CollectInv, ReaderInv
<1>. QED BY <1>3, <1>4, <1>5 DEF GCInv, DownInv, GCInit

\* Every step keeps the inductive invariant.
LEMMA GCInvStep ==
    ASSUME MaxUpload = 0, MaxBack = 0
    PROVE  GCInv /\ [GCNext]_gcVars => GCInv'
<1> SUFFICES ASSUME GCInv, [GCNext]_gcVars PROVE GCInv'
  OBVIOUS
<1>1. ASSUME NEW id \in Ids, IdStep(id) PROVE GCInv'
  <2>t. GCTypeOK /\ ClockInv /\ IdInv(id)
    BY DEF GCInv
  <2>1. UNCHANGED <<mono, wall, issued, clockFile, high, gcUp>>
    BY <1>1, SamePhase
  <2>2. GCTypeOK'
    BY <1>1, <2>t, TypeOwn
  <2>3. ClockInv'
    BY <2>t, <2>1 DEF ClockInv, Shown
  <2>4. ASSUME NEW k \in Ids PROVE IdInv(k)'
    <3>1. CASE k = id
      BY <1>1, <2>t, <3>1, OwnStep
    <3>2. CASE k # id
      <4>1. Untouched(k) /\ IdInv(k)
        BY <1>1, <2>t, <3>2, Frame DEF GCInv
      <4>2. RecordsInv(k)'
        BY <2>1, <4>1 DEF Untouched, IdInv, RecordsInv, Proves, Shown
      <4>. QED BY <2>1, <4>1, <4>2 DEF Untouched, IdInv, KnownInv, TombInv, CollectInv,
               ReaderInv, Loaded, TooOld
    <3>. QED BY <3>1, <3>2
  <2>5. DownInv'
    <3>1. gcUp = "down" => jobs = {} /\ jobs' \subseteq Ids
      BY <2>2 DEF GCInv, DownInv, GCTypeOK
    <3>2. gcUp = "down" => id \notin jobs'
      BY <1>1, <2>t DEF IdStep, Submission, Submit, Admit, SubmitEnd, Rollback, GCSettle,
         Reading, Lookup, AcquireReader, ResultsFetched, RecordFetched, ReleaseReader,
         Collecting, RemoveMark, RemoveRename, RemoveUndo, RemoveTomb, SweepTomb,
         PruneBegin, PruneRemove, PruneForget, AckChanges, Loading, LoadMarker, LoadTomb,
         LoadPrune, LoadJob, Free, IdInv, CollectInv, memory
    <3>3. \A k \in Ids : k # id => (k \in jobs' <=> k \in jobs)
      BY <1>1, <2>t, Frame DEF Untouched
    <3>. QED BY <2>1, <3>1, <3>2, <3>3 DEF DownInv
  <2>. QED BY <2>2, <2>3, <2>4, <2>5 DEF GCInv
<1>2. CASE UNCHANGED gcVars
  <2>1. UNCHANGED <<clocks, clockFile, files, gcUp, high, memory, locked, requests, load, history>>
    BY <1>2 DEF gcVars
  <2>2. GCTypeOK' /\ ClockInv' /\ DownInv'
    BY <2>1 DEF GCInv, GCTypeOK, ClockInv, Shown, DownInv, clocks, files, memory, requests,
       history
  <2>3. ASSUME NEW id \in Ids PROVE IdInv(id)'
    <3>1. IdInv(id)
      BY DEF GCInv
    <3>. QED BY <2>1, <3>1 DEF IdInv, RecordsInv, Proves, Shown, KnownInv, TombInv,
             CollectInv, ReaderInv, Loaded, TooOld, clocks, files, memory, requests, history
  <2>. QED BY <2>2, <2>3 DEF GCInv
<1>. QED BY <1>1, <1>2, GlobalStep, NextSplit

\* GCInv holds in every reachable state.
THEOREM GCInvariance ==
    ASSUME MaxUpload = 0, MaxBack = 0
    PROVE  GCSpec => []GCInv
BY GCInvInit, GCInvStep, PTL DEF GCSpec

\* A collected id never executes again, however its submission is repeated, its
\* receipt collected, its marker pruned, and wherever the daemon crashes; no receipt
\* goes away under a reader; and the results nobody fetched are counted exactly.
THEOREM CollectionSafe ==
    ASSUME MaxUpload = 0, MaxBack = 0
    PROVE  GCSpec => []ReceiptsSafe
<1>1. ASSUME GCInv PROVE ReceiptsSafe
  <2>t. GCTypeOK /\ ClockInv
    BY <1>1 DEF GCInv
  <2>i. ASSUME NEW id \in Ids PROVE KnownInv(id) /\ TombInv(id) /\ ReaderInv(id)
    BY <1>1 DEF GCInv, IdInv
  <2>1. Remembered
    BY <2>i DEF Remembered, KnownInv, TooOld
  <2>2. TombstoneOwned
    BY <2>i DEF TombstoneOwned, TombInv
  <2>3. ASSUME NEW id \in Ids
        PROVE  runs[id] + (IF dir[id] = "active" THEN 1 ELSE 0) <= 1
    BY <2>i DEF KnownInv
  <2>4. NoReplay
    BY <2>t, <2>1, <2>2, <2>3 DEF NoReplay
  <2>5. ReaderHasReceipt
    BY <2>i DEF ReaderHasReceipt, ReaderInv
  <2>6. UnfetchedExact
    <3>1. jobs \subseteq Ids /\ unfetched \subseteq Ids
      BY <2>t DEF GCTypeOK
    <3>. QED BY <2>i, <3>1 DEF UnfetchedExact, ReaderInv
  <2>. QED BY <2>4, <2>5, <2>6 DEF ReceiptsSafe
<1>. QED BY <1>1, GCInvariance, PTL

-----------------------------------------------------------------------------
(***************************************************************************)
(* The leases of persistent workspaces, proved for every number of         *)
(* workspaces, jobs, requests, inode numbers and crashes (LeasesSafe).     *)
(*                                                                         *)
(* The argument: a job past admission is a member of the record its lease  *)
(* names until it leaves it itself, under the gate, when nothing of it     *)
(* runs; a record with members is never removed, and no second one is      *)
(* published.  `pending` tells that no member was prepared yet, so what a  *)
(* holder of the gate restores no command is using.  An open handle keeps  *)
(* its inode number, so a directory with the number of a pinned one is     *)
(* that one.                                                               *)
(***************************************************************************)

Pcs == {"new", "acquire", "staged", "save", "expose", "prepared", "ready", "scoped", "started",
        "running", "stopped", "publish", "settle", "leave", "returned", "retained", "protected",
        "recover", "done"}

JobRecords ==
  [pc : Pcs, id : WsIds \union {None}, lease : WsIds \union {None}, ref : WsIds \union {None},
   scope : {"none", "token", "group"}, alive : Nat, ok : BOOLEAN, tree : BOOLEAN]

DirRecords == [ino : DataInodes \union {None}, inc : Nat]

CreateRecords == [pc : {"idle", "extract"}, id : WsIds \union {None}, dir : DirRecords]

PushRecords ==
  [pc : {"idle", "wait", "admitted", "upload", "finish", "done"}, id : WsIds \union {None},
   row : DataInodes \union {None}, pin : DirRecords, into : Nat]

WsTypeOK ==
  /\ ws \in [WsIds -> WorkspaceRecords \union {None}]
  /\ made \in Nat
  /\ create \in [Creators -> CreateRecords]
  /\ gate \in [WsIds -> WsJobs \union {None}]
  /\ push \in [Pushers -> PushRecords]
  /\ job \in [WsJobs -> JobRecords]

-----------------------------------------------------------------------------
\* Where a job holds the gate of its workspace, and where it is a member for sure.
HoldPcs   == {"acquire", "save", "expose", "prepared", "publish", "settle", "leave"}
LaunchPcs == {"ready", "scoped", "started", "running"}
MemberPcs == (HoldPcs \ {"acquire"}) \union {"staged"} \union LaunchPcs

\* Only a job that was admitted, and has not left, is a member: of the workspace its
\* lease and its reverse reference name.
MemberInv(j) ==
  /\ job[j].pc # "new" => job[j].lease \in WsIds /\ job[j].ref = job[j].lease
  /\ \A i \in WsIds : j \in Members(i) =>
        i = job[j].lease /\ job[j].pc \notin {"new", "acquire", "returned", "done"}
  /\ job[j].pc \in MemberPcs => j \in Members(job[j].lease)

\* The gate's holder, and what it may rely on while it holds the gate.
HolderInv(j) ==
  /\ job[j].pc \in HoldPcs => gate[job[j].lease] = j /\ ws[job[j].lease] # None
  /\ job[j].pc \in {"save", "expose"} => ws[job[j].lease].pending
  /\ job[j].pc \in {"expose", "prepared"} => ws[job[j].lease].base
  /\ job[j].pc = "publish" => ws[job[j].lease].jobs = {j}

\* A running command: its record and its scope are there, and it was prepared.
LiveInv(j) ==
  /\ job[j].alive # 0 =>
       /\ job[j].pc \in {"started", "running", "retained", "protected", "recover"}
       /\ job[j].scope # "none"
       /\ j \in Members(job[j].lease) /\ ws[job[j].lease].dir.inc = job[j].alive
  /\ job[j].alive # 0 \/ job[j].pc \in LaunchPcs => ~ws[job[j].lease].pending
  /\ job[j].pc \in {"scoped", "started", "running"} => job[j].scope # "none"
  /\ job[j].pc = "done" => ~job[j].tree /\ job[j].scope = "none"

JobInv(j) == MemberInv(j) /\ HolderInv(j) /\ LiveInv(j)

\* A record is well formed, its gate is held by the job that took it, and once a member
\* was prepared the comparison base exists.
RecordInv(i) ==
  /\ ws[i] # None =>
       /\ ws[i].jobs = {} <=> ws[i].cacheLease = None
       /\ ws[i].jobs = {} => ~ws[i].pending
       /\ ws[i].jobs # {} /\ ~ws[i].pending => ws[i].base
  /\ gate[i] # None => job[gate[i]].lease = i /\ job[gate[i]].pc \in HoldPcs

OneInv == \A i, k \in WsIds : ws[i] # None /\ ws[k] # None => i = k

\* No two directories in use have one inode number, unless they are one directory.
InodeInv ==
  /\ \A c \in Creators, i \in WsIds :
        create[c].pc = "extract" /\ ws[i] # None => create[c].dir.ino # ws[i].dir.ino
  /\ \A c, d \in Creators :
        create[c].pc = "extract" /\ create[d].pc = "extract" /\ c # d
          => create[c].dir.ino # create[d].dir.ino
  /\ \A c \in Creators :
        create[c].pc = "extract" => create[c].dir.ino \in DataInodes /\ create[c].id \in WsIds

PinInv(p) ==
  /\ \A i \in WsIds : ws[i] # None /\ ws[i].dir.ino = push[p].pin.ino => ws[i].dir = push[p].pin
  /\ \A c \in Creators :
        create[c].pc = "extract" /\ create[c].dir.ino = push[p].pin.ino
          => create[c].dir = push[p].pin
  /\ push[p].pc = "upload" => push[p].pin.ino = push[p].row
  /\ push[p].pc \in {"idle", "wait", "admitted", "upload"} => push[p].into = 0
  /\ push[p].pc # "idle" => push[p].id \in WsIds
  /\ push[p].into \in {0, push[p].pin.inc}

WsInv ==
  /\ WsTypeOK /\ OneInv /\ InodeInv
  /\ \A j \in WsJobs : JobInv(j)
  /\ \A i \in WsIds : RecordInv(i)
  /\ \A p \in Pushers : PinInv(p)

-----------------------------------------------------------------------------
\* What decode demands of the record of workspace i.
Shape(i) ==
  /\ ws[i].jobs = {} <=> ws[i].cacheLease = None
  /\ ws[i].jobs = {} => ~ws[i].pending
  /\ ws[i].jobs # {} /\ ~ws[i].pending => ws[i].base

\* What a step of job j may do to the rest: it takes and drops no gate but its own, adds
\* or removes no member but itself, and that, like `pending`, only under the gate.
Effect(j) ==
  /\ UNCHANGED <<made, create, push>>
  /\ \A k \in WsJobs \ {j} : job'[k] = job[k]
  /\ \A i \in WsIds :
       /\ gate'[i] = gate[i] \/ (gate[i] \in {None, j} /\ gate'[i] \in {None, j})
       /\ gate'[i] = j => job'[j].lease = i /\ job'[j].pc \in HoldPcs
       /\ ws'[i] = None <=> ws[i] = None
       /\ ws[i] # None =>
            /\ ws'[i].dir = ws[i].dir /\ (ws[i].base => ws'[i].base)
            /\ ws'[i].jobs \ {j} = ws[i].jobs \ {j}
            /\ \/ ws'[i].jobs = ws[i].jobs /\ ws'[i].pending = ws[i].pending
               \/ gate[i] = j /\ (ws'[i].pending => ws[i].pending \/ ws[i].jobs = {})
            /\ Shape(i)'

\* The record once j has joined, and once it has left.
BecomesJoined(i, j) ==
  /\ ws' \in [WsIds -> WorkspaceRecords \union {None}] /\ ws'[i] \in WorkspaceRecords
  /\ \A k \in WsIds \ {i} : ws'[k] = ws[k]
  /\ ws'[i].dir = ws[i].dir /\ ws'[i].base = ws[i].base /\ ws'[i].jobs = ws[i].jobs \union {j}
  /\ IF ws[i].jobs = {}
     THEN ws'[i].cacheLease = j /\ ws'[i].pending = TRUE
     ELSE ws'[i].cacheLease = ws[i].cacheLease /\ ws'[i].pending = ws[i].pending

BecomesDeparted(i, j) ==
  /\ ws' \in [WsIds -> WorkspaceRecords \union {None}] /\ ws'[i] \in WorkspaceRecords
  /\ \A k \in WsIds \ {i} : ws'[k] = ws[k]
  /\ ws'[i].dir = ws[i].dir /\ ws'[i].base = ws[i].base /\ ws'[i].jobs = ws[i].jobs \ {j}
  /\ IF ws'[i].jobs = {}
     THEN ws'[i].cacheLease = None /\ ws'[i].pending = FALSE
     ELSE ws'[i].cacheLease = ws[i].cacheLease /\ ws'[i].pending = ws[i].pending

\* What Joined and Departed make of the record, field by field.
LEMMA JoinedForm ==
    ASSUME WsTypeOK, NEW i \in WsIds, NEW j \in WsJobs, ws[i] \in WorkspaceRecords, ws' = Joined(i, j)
    PROVE  BecomesJoined(i, j)
  <1>1. \A k \in WsIds \ {i} : ws'[k] = ws[k]
    BY DEF Joined, WsTypeOK
  <1>2. /\ ws'[i].dir = ws[i].dir /\ ws'[i].base = ws[i].base /\ ws'[i].jobs = ws[i].jobs \union {j}
        /\ ws'[i].cacheLease = IF ws[i].jobs = {} THEN j ELSE ws[i].cacheLease
        /\ ws'[i].pending = IF ws[i].jobs = {} THEN TRUE ELSE ws[i].pending
    BY DEF Joined, WsTypeOK, WorkspaceRecords
  <1>3. ws'[i] \in WorkspaceRecords
    BY DEF Joined, WsTypeOK, WorkspaceRecords
  <1>4. ws' \in [WsIds -> WorkspaceRecords \union {None}]
    BY <1>1, <1>3 DEF Joined, WsTypeOK
  <1> QED
    BY <1>1, <1>2, <1>3, <1>4 DEF BecomesJoined

\* The same for a member that leaves.
LEMMA DepartedForm ==
    ASSUME WsTypeOK, NEW i \in WsIds, NEW j \in WsJobs, ws[i] \in WorkspaceRecords, ws' = Departed(i, j)
    PROVE  BecomesDeparted(i, j)
  <1>1. \A k \in WsIds \ {i} : ws'[k] = ws[k]
    BY DEF Departed, WsTypeOK
  <1>2. /\ ws'[i].dir = ws[i].dir /\ ws'[i].base = ws[i].base /\ ws'[i].jobs = ws[i].jobs \ {j}
        /\ ws'[i].cacheLease = IF ws[i].jobs \ {j} = {} THEN None ELSE ws[i].cacheLease
        /\ ws'[i].pending = (ws[i].jobs \ {j} # {} /\ ws[i].pending)
    BY DEF Departed, WsTypeOK, WorkspaceRecords
  <1>3. ws'[i] \in WorkspaceRecords
    BY DEF Departed, WsTypeOK, WorkspaceRecords
  <1>4. ws' \in [WsIds -> WorkspaceRecords \union {None}]
    BY <1>1, <1>3 DEF Departed, WsTypeOK
  <1>5. ws[i].pending \in BOOLEAN
    BY DEF WorkspaceRecords
  <1> QED
    BY <1>1, <1>2, <1>3, <1>4, <1>5 DEF BecomesDeparted

\* Admission takes the free gate and writes the reverse reference.
LEMMA AcquireRefStep ==
    ASSUME WsInv, NEW j \in WsJobs, NEW i \in WsIds, AcquireRef(j, i)
    PROVE  WsTypeOK' /\ JobInv(j)' /\ Effect(j)
  <1>t. WsTypeOK /\ job[j] \in JobRecords /\ JobInv(j)
    BY DEF WsInv, WsTypeOK
  <1>1. /\ job' \in [WsJobs -> JobRecords]
        /\ \A k \in WsJobs \ {j} : job'[k] = job[k]
        /\ job[j].pc = "new" /\ gate[i] = None /\ ws[i] # None /\ job'[j].pc = "acquire"
        /\ job'[j].lease = i /\ job'[j].ref = i /\ job'[j].scope = job[j].scope
        /\ job'[j].alive = job[j].alive /\ job'[j].tree = job[j].tree
    BY <1>t DEF AcquireRef, Hold, WsTypeOK, JobRecords, Pcs
  <1>2. ws' = ws
    BY DEF AcquireRef
  <1>3. gate' = [gate EXCEPT ![i] = j] /\ UNCHANGED <<made, create, push>>
    BY DEF AcquireRef, Hold
  <1>4. WsTypeOK'
    BY <1>t, <1>1, <1>2, <1>3 DEF WsTypeOK
  <1>5. JobInv(j)'
    BY <1>t, <1>1, <1>2, <1>3, WorkspacesAssumption DEF JobInv, WsInv, WsTypeOK, MemberInv,
       HolderInv, LiveInv, Members, HoldPcs, LaunchPcs, MemberPcs
  <1>6. Effect(j)
    BY <1>t, <1>1, <1>2, <1>3, WorkspacesAssumption DEF Effect, Shape, WsInv, WsTypeOK, RecordInv,
       JobInv, MemberInv, HolderInv, LiveInv, Members, HoldPcs, LaunchPcs, MemberPcs
  <1> QED
    BY <1>4, <1>5, <1>6

\* The job becomes a member; the first one owns the cache lease and sets `pending`.
LEMMA AcquireWriteStep ==
    ASSUME WsInv, NEW j \in WsJobs, AcquireWrite(j)
    PROVE  WsTypeOK' /\ JobInv(j)' /\ Effect(j)
  <1>t. WsTypeOK /\ job[j] \in JobRecords /\ JobInv(j)
    BY DEF WsInv, WsTypeOK
  <1>1. /\ job' \in [WsJobs -> JobRecords]
        /\ \A k \in WsJobs \ {j} : job'[k] = job[k]
        /\ job[j].pc = "acquire" /\ job'[j].pc = "staged" /\ job'[j].lease = job[j].lease
        /\ job'[j].ref = job[j].ref /\ job'[j].scope = job[j].scope
        /\ job'[j].alive = job[j].alive /\ job'[j].tree = job[j].tree
    BY <1>t DEF AcquireWrite, Joined, Leave, Steps, WsTypeOK, JobRecords, Pcs
  <1>l. /\ job[j].lease \in WsIds /\ ws[job[j].lease] # None
        /\ ws[job[j].lease] \in WorkspaceRecords /\ gate[job[j].lease] = j
    BY <1>1, <1>t DEF JobInv, MemberInv, HolderInv, HoldPcs, WsTypeOK
  <1>2. BecomesJoined(job[j].lease, j)
    BY <1>l, <1>t, JoinedForm DEF AcquireWrite
  <1>3. gate' = [gate EXCEPT ![job[j].lease] = None] /\ UNCHANGED <<made, create, push>>
    BY DEF AcquireWrite, Joined, Leave, Steps
  <1>4. WsTypeOK'
    BY <1>t, <1>1, <1>2, <1>l, <1>3 DEF WsTypeOK, BecomesJoined
  <1>5. JobInv(j)'
    BY <1>t, <1>1, <1>2, <1>l, <1>3, WorkspacesAssumption DEF JobInv, WsInv, WsTypeOK, MemberInv,
       HolderInv, LiveInv, Members, HoldPcs, LaunchPcs, MemberPcs, BecomesJoined
  <1>6. Effect(j)
    BY <1>t, <1>1, <1>2, <1>l, <1>3, WorkspacesAssumption DEF Effect, Shape, WsInv, WsTypeOK,
       RecordInv, JobInv, MemberInv, HolderInv, LiveInv, Members, HoldPcs, LaunchPcs, MemberPcs,
       BecomesJoined
  <1> QED
    BY <1>4, <1>5, <1>6

\* A failed write may have made the job a member: it goes on to return its lease.
LEMMA AcquireFailStep ==
    ASSUME WsInv, NEW j \in WsJobs, AcquireFail(j)
    PROVE  WsTypeOK' /\ JobInv(j)' /\ Effect(j)
  <1>t. WsTypeOK /\ job[j] \in JobRecords /\ JobInv(j)
    BY DEF WsInv, WsTypeOK
  <1>1. /\ job' \in [WsJobs -> JobRecords]
        /\ \A k \in WsJobs \ {j} : job'[k] = job[k]
        /\ job[j].pc = "acquire" /\ job'[j].pc = "stopped" /\ job'[j].lease = job[j].lease
        /\ job'[j].ref = job[j].ref /\ job'[j].scope = job[j].scope
        /\ job'[j].alive = job[j].alive /\ job'[j].tree = job[j].tree
    BY <1>t DEF AcquireFail, Joined, Leave, Steps, WsTypeOK, JobRecords, Pcs
  <1>l. /\ job[j].lease \in WsIds /\ ws[job[j].lease] # None
        /\ ws[job[j].lease] \in WorkspaceRecords /\ gate[job[j].lease] = j
    BY <1>1, <1>t DEF JobInv, MemberInv, HolderInv, HoldPcs, WsTypeOK
  <1>2. ws' = ws \/ BecomesJoined(job[j].lease, j)
    BY <1>l, <1>t, JoinedForm DEF AcquireFail
  <1>3. gate' = [gate EXCEPT ![job[j].lease] = None] /\ UNCHANGED <<made, create, push>>
    BY DEF AcquireFail, Joined, Leave, Steps
  <1>4. WsTypeOK'
    BY <1>t, <1>1, <1>2, <1>l, <1>3 DEF WsTypeOK, BecomesJoined
  <1>5. JobInv(j)'
    BY <1>t, <1>1, <1>2, <1>l, <1>3, WorkspacesAssumption DEF JobInv, WsInv, WsTypeOK, MemberInv,
       HolderInv, LiveInv, Members, HoldPcs, LaunchPcs, MemberPcs, BecomesJoined
  <1>6. Effect(j)
    BY <1>t, <1>1, <1>2, <1>l, <1>3, WorkspacesAssumption DEF Effect, Shape, WsInv, WsTypeOK,
       RecordInv, JobInv, MemberInv, HolderInv, LiveInv, Members, HoldPcs, LaunchPcs, MemberPcs,
       BecomesJoined
  <1> QED
    BY <1>4, <1>5, <1>6

\* A rolled back admission drops the gate if the job holds it, and keeps the membership.
LEMMA StageFailStep ==
    ASSUME WsInv, NEW j \in WsJobs, StageFail(j)
    PROVE  WsTypeOK' /\ JobInv(j)' /\ Effect(j)
  <1>t. WsTypeOK /\ job[j] \in JobRecords /\ JobInv(j)
    BY DEF WsInv, WsTypeOK
  <1>1. /\ job' \in [WsJobs -> JobRecords]
        /\ \A k \in WsJobs \ {j} : job'[k] = job[k]
        /\ job[j].pc \in {"staged", "save", "expose", "ready", "scoped"}
        /\ job'[j].pc = "stopped" /\ job'[j].lease = job[j].lease
        /\ job'[j].ref = job[j].ref /\ job'[j].scope = job[j].scope
        /\ job'[j].alive = job[j].alive /\ job'[j].tree = job[j].tree
    BY <1>t DEF StageFail, Steps, WsTypeOK, JobRecords, Pcs
  <1>2. ws' = ws
    BY DEF StageFail
  <1>3. /\ gate' = gate \/ (gate[job[j].lease] = j /\ gate' = [gate EXCEPT ![job[j].lease] = None])
        /\ UNCHANGED <<made, create, push>>
    BY DEF StageFail, Steps
  <1>4. WsTypeOK'
    BY <1>t, <1>1, <1>2, <1>3 DEF WsTypeOK
  <1>5. JobInv(j)'
    BY <1>t, <1>1, <1>2, <1>3, WorkspacesAssumption DEF JobInv, WsInv, WsTypeOK, MemberInv,
       HolderInv, LiveInv, Members, HoldPcs, LaunchPcs, MemberPcs
  <1>6. Effect(j)
    <2>1. job[j].lease \in WsIds
      BY <1>1, <1>t DEF JobInv, MemberInv
    <2>2. \A i \in WsIds : gate[i] = j => i = job[j].lease
      BY <1>t, WorkspacesAssumption DEF WsInv, RecordInv
    <2>3. \A i \in WsIds : gate'[i] # j
      BY <1>1, <1>3, <1>t, <2>1, <2>2, WorkspacesAssumption DEF WsTypeOK, StageFail
    <2>4. \A i \in WsIds : gate'[i] = gate[i] \/ (gate[i] = j /\ gate'[i] = None)
      BY <1>3, <1>t, <2>1 DEF WsTypeOK
    <2>5. \A i \in WsIds : ws[i] # None => Shape(i)
      BY DEF WsInv, RecordInv, Shape
    <2> QED
      BY <1>1, <1>2, <1>3, <2>3, <2>4, <2>5 DEF Effect, Shape
  <1> QED
    BY <1>4, <1>5, <1>6

\* Without a need to restore the base is there; otherwise no member was prepared yet.
LEMMA PrepareBeginStep ==
    ASSUME WsInv, NEW j \in WsJobs, PrepareBegin(j)
    PROVE  WsTypeOK' /\ JobInv(j)' /\ Effect(j)
  <1>t. WsTypeOK /\ job[j] \in JobRecords /\ JobInv(j)
    BY DEF WsInv, WsTypeOK
  <1>1. /\ job' \in [WsJobs -> JobRecords]
        /\ \A k \in WsJobs \ {j} : job'[k] = job[k]
        /\ job[j].pc = "staged" /\ gate[job[j].lease] = None
        /\ job'[j].pc = (IF NeedsRestore(job[j].lease) THEN "save" ELSE "prepared")
        /\ job'[j].lease = job[j].lease /\ job'[j].ref = job[j].ref
        /\ job'[j].scope = job[j].scope /\ job'[j].alive = job[j].alive
        /\ job'[j].tree = TRUE
    BY <1>t DEF PrepareBegin, Hold, WsTypeOK, JobRecords, Pcs
  <1>2. ws' = ws
    BY DEF PrepareBegin
  <1>3. gate' = [gate EXCEPT ![job[j].lease] = j] /\ UNCHANGED <<made, create, push>>
    BY DEF PrepareBegin, Hold
  <1>4. WsTypeOK'
    BY <1>t, <1>1, <1>2, <1>3 DEF WsTypeOK
  <1>5. JobInv(j)'
    BY <1>t, <1>1, <1>2, <1>3, WorkspacesAssumption DEF JobInv, WsInv, WsTypeOK, MemberInv,
       HolderInv, LiveInv, Members, HoldPcs, LaunchPcs, MemberPcs, NeedsRestore, RecordInv
  <1>6. Effect(j)
    BY <1>t, <1>1, <1>2, <1>3, WorkspacesAssumption DEF Effect, Shape, WsInv, WsTypeOK, RecordInv,
       JobInv, MemberInv, HolderInv, LiveInv, Members, HoldPcs, LaunchPcs, MemberPcs
  <1> QED
    BY <1>4, <1>5, <1>6

\* The comparison base is saved while `pending` holds.
LEMMA RestoreSaveStep ==
    ASSUME WsInv, NEW j \in WsJobs, RestoreSave(j)
    PROVE  WsTypeOK' /\ JobInv(j)' /\ Effect(j)
  <1>t. WsTypeOK /\ job[j] \in JobRecords /\ JobInv(j)
    BY DEF WsInv, WsTypeOK
  <1>1. /\ job' \in [WsJobs -> JobRecords]
        /\ \A k \in WsJobs \ {j} : job'[k] = job[k]
        /\ job[j].pc = "save"
        /\ job'[j].pc = (IF ws[job[j].lease].cacheDir THEN "prepared" ELSE "expose")
        /\ job'[j].lease = job[j].lease /\ job'[j].ref = job[j].ref
        /\ job'[j].scope = job[j].scope /\ job'[j].alive = job[j].alive
        /\ job'[j].tree = job[j].tree
    BY <1>t DEF RestoreSave, Steps, WsTypeOK, JobRecords, Pcs
  <1>l. /\ job[j].lease \in WsIds /\ ws[job[j].lease] # None
        /\ ws[job[j].lease] \in WorkspaceRecords /\ gate[job[j].lease] = j
    BY <1>1, <1>t DEF JobInv, MemberInv, HolderInv, HoldPcs, WsTypeOK
  <1>2. /\ ws' \in [WsIds -> WorkspaceRecords \union {None}]
        /\ \A k \in WsIds \ {job[j].lease} : ws'[k] = ws[k]
        /\ ws'[job[j].lease].dir = ws[job[j].lease].dir
        /\ ws'[job[j].lease].jobs = ws[job[j].lease].jobs
        /\ ws'[job[j].lease].cacheLease = ws[job[j].lease].cacheLease
        /\ ws'[job[j].lease].pending = ws[job[j].lease].pending
        /\ ws'[job[j].lease].base = TRUE /\ ws'[job[j].lease] \in WorkspaceRecords
    BY <1>l, <1>t DEF RestoreSave, Steps, WsTypeOK, WorkspaceRecords
  <1>3. gate' = gate /\ UNCHANGED <<made, create, push>>
    BY DEF RestoreSave, Steps
  <1>4. WsTypeOK'
    BY <1>t, <1>1, <1>2, <1>l, <1>3 DEF WsTypeOK
  <1>5. JobInv(j)'
    BY <1>t, <1>1, <1>2, <1>l, <1>3, WorkspacesAssumption DEF JobInv, WsInv, WsTypeOK, MemberInv,
       HolderInv, LiveInv, Members, HoldPcs, LaunchPcs, MemberPcs
  <1>6. Effect(j)
    BY <1>t, <1>1, <1>2, <1>l, <1>3, WorkspacesAssumption DEF Effect, Shape, WsInv, WsTypeOK,
       RecordInv, JobInv, MemberInv, HolderInv, LiveInv, Members, HoldPcs, LaunchPcs, MemberPcs
  <1> QED
    BY <1>4, <1>5, <1>6

\* The directory is exposed after its base.
LEMMA RestoreExposeStep ==
    ASSUME WsInv, NEW j \in WsJobs, RestoreExpose(j)
    PROVE  WsTypeOK' /\ JobInv(j)' /\ Effect(j)
  <1>t. WsTypeOK /\ job[j] \in JobRecords /\ JobInv(j)
    BY DEF WsInv, WsTypeOK
  <1>1. /\ job' \in [WsJobs -> JobRecords]
        /\ \A k \in WsJobs \ {j} : job'[k] = job[k]
        /\ job[j].pc = "expose" /\ job'[j].pc = "prepared" /\ job'[j].lease = job[j].lease
        /\ job'[j].ref = job[j].ref /\ job'[j].scope = job[j].scope
        /\ job'[j].alive = job[j].alive /\ job'[j].tree = job[j].tree
    BY <1>t DEF RestoreExpose, Steps, WsTypeOK, JobRecords, Pcs
  <1>l. /\ job[j].lease \in WsIds /\ ws[job[j].lease] # None
        /\ ws[job[j].lease] \in WorkspaceRecords /\ gate[job[j].lease] = j
    BY <1>1, <1>t DEF JobInv, MemberInv, HolderInv, HoldPcs, WsTypeOK
  <1>2. /\ ws' \in [WsIds -> WorkspaceRecords \union {None}]
        /\ \A k \in WsIds \ {job[j].lease} : ws'[k] = ws[k]
        /\ ws'[job[j].lease].dir = ws[job[j].lease].dir
        /\ ws'[job[j].lease].jobs = ws[job[j].lease].jobs
        /\ ws'[job[j].lease].cacheLease = ws[job[j].lease].cacheLease
        /\ ws'[job[j].lease].pending = ws[job[j].lease].pending
        /\ ws'[job[j].lease].base = ws[job[j].lease].base
        /\ ws'[job[j].lease] \in WorkspaceRecords
    BY <1>l, <1>t DEF RestoreExpose, Steps, WsTypeOK, WorkspaceRecords
  <1>3. gate' = gate /\ UNCHANGED <<made, create, push>>
    BY DEF RestoreExpose, Steps
  <1>4. WsTypeOK'
    BY <1>t, <1>1, <1>2, <1>l, <1>3 DEF WsTypeOK
  <1>5. JobInv(j)'
    BY <1>t, <1>1, <1>2, <1>l, <1>3, WorkspacesAssumption DEF JobInv, WsInv, WsTypeOK, MemberInv,
       HolderInv, LiveInv, Members, HoldPcs, LaunchPcs, MemberPcs
  <1>6. Effect(j)
    BY <1>t, <1>1, <1>2, <1>l, <1>3, WorkspacesAssumption DEF Effect, Shape, WsInv, WsTypeOK,
       RecordInv, JobInv, MemberInv, HolderInv, LiveInv, Members, HoldPcs, LaunchPcs, MemberPcs
  <1> QED
    BY <1>4, <1>5, <1>6

\* `pending` is cleared under the gate, and only then may the job launch.
LEMMA PrepareEndStep ==
    ASSUME WsInv, NEW j \in WsJobs, PrepareEnd(j)
    PROVE  WsTypeOK' /\ JobInv(j)' /\ Effect(j)
  <1>t. WsTypeOK /\ job[j] \in JobRecords /\ JobInv(j)
    BY DEF WsInv, WsTypeOK
  <1>1. /\ job' \in [WsJobs -> JobRecords]
        /\ \A k \in WsJobs \ {j} : job'[k] = job[k]
        /\ job[j].pc = "prepared" /\ job'[j].pc = "ready" /\ job'[j].lease = job[j].lease
        /\ job'[j].ref = job[j].ref /\ job'[j].scope = job[j].scope
        /\ job'[j].alive = job[j].alive /\ job'[j].tree = job[j].tree
    BY <1>t DEF PrepareEnd, Steps, Leave, WsTypeOK, JobRecords, Pcs
  <1>l. /\ job[j].lease \in WsIds /\ ws[job[j].lease] # None
        /\ ws[job[j].lease] \in WorkspaceRecords /\ gate[job[j].lease] = j
    BY <1>1, <1>t DEF JobInv, MemberInv, HolderInv, HoldPcs, WsTypeOK
  <1>2. /\ ws' \in [WsIds -> WorkspaceRecords \union {None}]
        /\ \A k \in WsIds \ {job[j].lease} : ws'[k] = ws[k]
        /\ ws'[job[j].lease].dir = ws[job[j].lease].dir
        /\ ws'[job[j].lease].jobs = ws[job[j].lease].jobs
        /\ ws'[job[j].lease].cacheLease = ws[job[j].lease].cacheLease
        /\ ws'[job[j].lease].pending = FALSE
        /\ ws'[job[j].lease].base = ws[job[j].lease].base
        /\ ws'[job[j].lease] \in WorkspaceRecords
    BY <1>l, <1>t DEF PrepareEnd, Steps, Leave, WsTypeOK, WorkspaceRecords
  <1>3. gate' = [gate EXCEPT ![job[j].lease] = None] /\ UNCHANGED <<made, create, push>>
    BY DEF PrepareEnd, Steps, Leave
  <1>4. WsTypeOK'
    BY <1>t, <1>1, <1>2, <1>l, <1>3 DEF WsTypeOK
  <1>5. JobInv(j)'
    BY <1>t, <1>1, <1>2, <1>l, <1>3, WorkspacesAssumption DEF JobInv, WsInv, WsTypeOK, MemberInv,
       HolderInv, LiveInv, Members, HoldPcs, LaunchPcs, MemberPcs
  <1>6. Effect(j)
    BY <1>t, <1>1, <1>2, <1>l, <1>3, WorkspacesAssumption DEF Effect, Shape, WsInv, WsTypeOK,
       RecordInv, JobInv, MemberInv, HolderInv, LiveInv, Members, HoldPcs, LaunchPcs, MemberPcs
  <1> QED
    BY <1>4, <1>5, <1>6

\* The scope record precedes the command.
LEMMA LaunchScopeStep ==
    ASSUME WsInv, NEW j \in WsJobs, LaunchScope(j)
    PROVE  WsTypeOK' /\ JobInv(j)' /\ Effect(j)
  <1>t. WsTypeOK /\ job[j] \in JobRecords /\ JobInv(j)
    BY DEF WsInv, WsTypeOK
  <1>1. /\ job' \in [WsJobs -> JobRecords]
        /\ \A k \in WsJobs \ {j} : job'[k] = job[k]
        /\ job[j].pc = "ready" /\ job'[j].pc = "scoped" /\ job'[j].lease = job[j].lease
        /\ job'[j].ref = job[j].ref /\ job'[j].scope = "token"
        /\ job'[j].alive = job[j].alive /\ job'[j].tree = job[j].tree
    BY <1>t DEF LaunchScope, WsTypeOK, JobRecords, Pcs
  <1>2. ws' = ws
    BY DEF LaunchScope
  <1>3. gate' = gate /\ UNCHANGED <<made, create, push>>
    BY DEF LaunchScope
  <1>4. WsTypeOK'
    BY <1>t, <1>1, <1>2, <1>3 DEF WsTypeOK
  <1>5. JobInv(j)'
    BY <1>t, <1>1, <1>2, <1>3, WorkspacesAssumption DEF JobInv, WsInv, WsTypeOK, MemberInv,
       HolderInv, LiveInv, Members, HoldPcs, LaunchPcs, MemberPcs
  <1>6. Effect(j)
    BY <1>t, <1>1, <1>2, <1>3, WorkspacesAssumption DEF Effect, Shape, WsInv, WsTypeOK, RecordInv,
       JobInv, MemberInv, HolderInv, LiveInv, Members, HoldPcs, LaunchPcs, MemberPcs
  <1> QED
    BY <1>4, <1>5, <1>6

\* The command starts in the directory of the workspace its job is a member of.
LEMMA StartStep ==
    ASSUME WsInv, NEW j \in WsJobs, Start(j)
    PROVE  WsTypeOK' /\ JobInv(j)' /\ Effect(j)
  <1>t. WsTypeOK /\ job[j] \in JobRecords /\ JobInv(j)
    BY DEF WsInv, WsTypeOK
  <1>0. ws[job[j].lease].dir.inc \in Nat
    BY <1>t DEF Start, JobInv, MemberInv, Members, MemberPcs, LaunchPcs, WsTypeOK,
       WorkspaceRecords
  <1>1. /\ job' \in [WsJobs -> JobRecords]
        /\ \A k \in WsJobs \ {j} : job'[k] = job[k]
        /\ job[j].pc = "scoped" /\ job'[j].pc = "started" /\ job'[j].lease = job[j].lease
        /\ job'[j].ref = job[j].ref /\ job'[j].scope = job[j].scope
        /\ job'[j].alive = ws[job[j].lease].dir.inc /\ job'[j].tree = job[j].tree
    BY <1>t, <1>0 DEF Start, WsTypeOK, JobRecords, Pcs
  <1>2. ws' = ws
    BY DEF Start
  <1>3. gate' = gate /\ UNCHANGED <<made, create, push>>
    BY DEF Start
  <1>4. WsTypeOK'
    BY <1>t, <1>1, <1>2, <1>3 DEF WsTypeOK
  <1>5. JobInv(j)'
    BY <1>t, <1>1, <1>2, <1>3, WorkspacesAssumption DEF JobInv, WsInv, WsTypeOK, MemberInv,
       HolderInv, LiveInv, Members, HoldPcs, LaunchPcs, MemberPcs
  <1>6. Effect(j)
    BY <1>t, <1>1, <1>2, <1>3, WorkspacesAssumption DEF Effect, Shape, WsInv, WsTypeOK, RecordInv,
       JobInv, MemberInv, HolderInv, LiveInv, Members, HoldPcs, LaunchPcs, MemberPcs
  <1> QED
    BY <1>4, <1>5, <1>6

\* The group is recorded; the command runs on.
LEMMA RecordGroupStep ==
    ASSUME WsInv, NEW j \in WsJobs, RecordGroup(j)
    PROVE  WsTypeOK' /\ JobInv(j)' /\ Effect(j)
  <1>t. WsTypeOK /\ job[j] \in JobRecords /\ JobInv(j)
    BY DEF WsInv, WsTypeOK
  <1>1. /\ job' \in [WsJobs -> JobRecords]
        /\ \A k \in WsJobs \ {j} : job'[k] = job[k]
        /\ job[j].pc = "started" /\ job'[j].pc = "running" /\ job'[j].lease = job[j].lease
        /\ job'[j].ref = job[j].ref /\ job'[j].scope = "group"
        /\ job'[j].alive = job[j].alive /\ job'[j].tree = job[j].tree
    BY <1>t DEF RecordGroup, WsTypeOK, JobRecords, Pcs
  <1>2. ws' = ws
    BY DEF RecordGroup
  <1>3. gate' = gate /\ UNCHANGED <<made, create, push>>
    BY DEF RecordGroup
  <1>4. WsTypeOK'
    BY <1>t, <1>1, <1>2, <1>3 DEF WsTypeOK
  <1>5. JobInv(j)'
    BY <1>t, <1>1, <1>2, <1>3, WorkspacesAssumption DEF JobInv, WsInv, WsTypeOK, MemberInv,
       HolderInv, LiveInv, Members, HoldPcs, LaunchPcs, MemberPcs
  <1>6. Effect(j)
    BY <1>t, <1>1, <1>2, <1>3, WorkspacesAssumption DEF Effect, Shape, WsInv, WsTypeOK, RecordInv,
       JobInv, MemberInv, HolderInv, LiveInv, Members, HoldPcs, LaunchPcs, MemberPcs
  <1> QED
    BY <1>4, <1>5, <1>6

\* Without a recorded group the command is killed, or whoever is left is retained.
LEMMA RecordGroupFailStep ==
    ASSUME WsInv, NEW j \in WsJobs, RecordGroupFail(j)
    PROVE  WsTypeOK' /\ JobInv(j)' /\ Effect(j)
  <1>t. WsTypeOK /\ job[j] \in JobRecords /\ JobInv(j)
    BY DEF WsInv, WsTypeOK
  <1>1. /\ job' \in [WsJobs -> JobRecords]
        /\ \A k \in WsJobs \ {j} : job'[k] = job[k]
        /\ job[j].pc = "started"
        /\ \/ job'[j].pc = "stopped" /\ job'[j].alive = 0
           \/ job'[j].pc = "retained" /\ job'[j].alive \in {0, job[j].alive}
        /\ job'[j].lease = job[j].lease /\ job'[j].ref = job[j].ref
        /\ job'[j].scope = job[j].scope /\ job'[j].tree = job[j].tree
    <2>1. PICK pc \in {"stopped", "retained"}, left \in {0, job[j].alive} :
            /\ job' = [job EXCEPT ![j] = [@ EXCEPT !.pc = pc, !.alive = left]]
            /\ pc = "stopped" => left = 0
      BY DEF RecordGroupFail
    <2>p. pc \in Pcs /\ left \in Nat
      BY <1>t DEF JobRecords, Pcs
    <2>2. [job[j] EXCEPT !.pc = pc, !.alive = left] \in JobRecords
      BY <1>t, <2>p DEF JobRecords
    <2> QED
      BY <1>t, <2>1, <2>2 DEF RecordGroupFail, WsTypeOK, JobRecords
  <1>2. ws' = ws
    BY DEF RecordGroupFail
  <1>3. gate' = gate /\ UNCHANGED <<made, create, push>>
    BY DEF RecordGroupFail
  <1>4. WsTypeOK'
    BY <1>t, <1>1, <1>2, <1>3 DEF WsTypeOK
  <1>5. JobInv(j)'
    BY <1>t, <1>1, <1>2, <1>3, WorkspacesAssumption DEF JobInv, WsInv, WsTypeOK, MemberInv,
       HolderInv, LiveInv, Members, HoldPcs, LaunchPcs, MemberPcs
  <1>6. Effect(j)
    BY <1>t, <1>1, <1>2, <1>3, WorkspacesAssumption DEF Effect, Shape, WsInv, WsTypeOK, RecordInv,
       JobInv, MemberInv, HolderInv, LiveInv, Members, HoldPcs, LaunchPcs, MemberPcs
  <1> QED
    BY <1>4, <1>5, <1>6

\* An ended command leaves nothing alive.
LEMMA CommandExitStep ==
    ASSUME WsInv, NEW j \in WsJobs, CommandExit(j)
    PROVE  WsTypeOK' /\ JobInv(j)' /\ Effect(j)
  <1>t. WsTypeOK /\ job[j] \in JobRecords /\ JobInv(j)
    BY DEF WsInv, WsTypeOK
  <1>1. /\ job' \in [WsJobs -> JobRecords]
        /\ \A k \in WsJobs \ {j} : job'[k] = job[k]
        /\ job[j].pc = "running" /\ job'[j].pc = "stopped" /\ job'[j].lease = job[j].lease
        /\ job'[j].ref = job[j].ref /\ job'[j].scope = job[j].scope /\ job'[j].alive = 0
        /\ job'[j].tree = job[j].tree
    <2>1. PICK ok \in BOOLEAN :
            job' = [job EXCEPT ![j] = [@ EXCEPT !.pc = "stopped", !.alive = 0, !.ok = ok]]
      BY DEF CommandExit
    <2>2. [job[j] EXCEPT !.pc = "stopped", !.alive = 0, !.ok = ok] \in JobRecords
      BY <1>t DEF JobRecords, Pcs
    <2> QED
      BY <1>t, <2>1, <2>2 DEF CommandExit, WsTypeOK, JobRecords
  <1>2. ws' = ws
    BY DEF CommandExit
  <1>3. gate' = gate /\ UNCHANGED <<made, create, push>>
    BY DEF CommandExit
  <1>4. WsTypeOK'
    BY <1>t, <1>1, <1>2, <1>3 DEF WsTypeOK
  <1>5. JobInv(j)'
    BY <1>t, <1>1, <1>2, <1>3, WorkspacesAssumption DEF JobInv, WsInv, WsTypeOK, MemberInv,
       HolderInv, LiveInv, Members, HoldPcs, LaunchPcs, MemberPcs
  <1>6. Effect(j)
    BY <1>t, <1>1, <1>2, <1>3, WorkspacesAssumption DEF Effect, Shape, WsInv, WsTypeOK, RecordInv,
       JobInv, MemberInv, HolderInv, LiveInv, Members, HoldPcs, LaunchPcs, MemberPcs
  <1> QED
    BY <1>4, <1>5, <1>6

\* What cannot be removed keeps its record.
LEMMA ScopeFailStep ==
    ASSUME WsInv, NEW j \in WsJobs, ScopeFail(j)
    PROVE  WsTypeOK' /\ JobInv(j)' /\ Effect(j)
  <1>t. WsTypeOK /\ job[j] \in JobRecords /\ JobInv(j)
    BY DEF WsInv, WsTypeOK
  <1>1. /\ job' \in [WsJobs -> JobRecords]
        /\ \A k \in WsJobs \ {j} : job'[k] = job[k]
        /\ job[j].pc = "running" /\ job'[j].pc = "retained" /\ job'[j].lease = job[j].lease
        /\ job'[j].ref = job[j].ref /\ job'[j].scope = job[j].scope
        /\ job'[j].alive = job[j].alive /\ job'[j].tree = job[j].tree
    BY <1>t DEF ScopeFail, Steps, WsTypeOK, JobRecords, Pcs
  <1>2. ws' = ws
    BY DEF ScopeFail
  <1>3. gate' = gate /\ UNCHANGED <<made, create, push>>
    BY DEF ScopeFail, Steps
  <1>4. WsTypeOK'
    BY <1>t, <1>1, <1>2, <1>3 DEF WsTypeOK
  <1>5. JobInv(j)'
    BY <1>t, <1>1, <1>2, <1>3, WorkspacesAssumption DEF JobInv, WsInv, WsTypeOK, MemberInv,
       HolderInv, LiveInv, Members, HoldPcs, LaunchPcs, MemberPcs
  <1>6. Effect(j)
    BY <1>t, <1>1, <1>2, <1>3, WorkspacesAssumption DEF Effect, Shape, WsInv, WsTypeOK, RecordInv,
       JobInv, MemberInv, HolderInv, LiveInv, Members, HoldPcs, LaunchPcs, MemberPcs
  <1> QED
    BY <1>4, <1>5, <1>6

\* A process that ends by itself.
LEMMA OrphanExitStep ==
    ASSUME WsInv, NEW j \in WsJobs, OrphanExit(j)
    PROVE  WsTypeOK' /\ JobInv(j)' /\ Effect(j)
  <1>t. WsTypeOK /\ job[j] \in JobRecords /\ JobInv(j)
    BY DEF WsInv, WsTypeOK
  <1>1. /\ job' \in [WsJobs -> JobRecords]
        /\ \A k \in WsJobs \ {j} : job'[k] = job[k]
        /\ job[j].pc \in {"retained", "protected"} /\ job'[j].pc = job[j].pc
        /\ job'[j].lease = job[j].lease /\ job'[j].ref = job[j].ref
        /\ job'[j].scope = job[j].scope /\ job'[j].alive = 0 /\ job'[j].tree = job[j].tree
    BY <1>t DEF OrphanExit, WsTypeOK, JobRecords, Pcs
  <1>2. ws' = ws
    BY DEF OrphanExit
  <1>3. gate' = gate /\ UNCHANGED <<made, create, push>>
    BY DEF OrphanExit
  <1>4. WsTypeOK'
    BY <1>t, <1>1, <1>2, <1>3 DEF WsTypeOK
  <1>5. JobInv(j)'
    BY <1>t, <1>1, <1>2, <1>3, WorkspacesAssumption DEF JobInv, WsInv, WsTypeOK, MemberInv,
       HolderInv, LiveInv, Members, HoldPcs, LaunchPcs, MemberPcs
  <1>6. Effect(j)
    BY <1>t, <1>1, <1>2, <1>3, WorkspacesAssumption DEF Effect, Shape, WsInv, WsTypeOK, RecordInv,
       JobInv, MemberInv, HolderInv, LiveInv, Members, HoldPcs, LaunchPcs, MemberPcs
  <1> QED
    BY <1>4, <1>5, <1>6

\* Published trees become the base.
LEMMA ReturnPublishStep ==
    ASSUME WsInv, NEW j \in WsJobs, ReturnPublish(j)
    PROVE  WsTypeOK' /\ JobInv(j)' /\ Effect(j)
  <1>t. WsTypeOK /\ job[j] \in JobRecords /\ JobInv(j)
    BY DEF WsInv, WsTypeOK
  <1>1. /\ job' \in [WsJobs -> JobRecords]
        /\ \A k \in WsJobs \ {j} : job'[k] = job[k]
        /\ job[j].pc = "publish" /\ job'[j].pc = "settle" /\ job'[j].lease = job[j].lease
        /\ job'[j].ref = job[j].ref /\ job'[j].scope = job[j].scope
        /\ job'[j].alive = job[j].alive /\ job'[j].tree = job[j].tree
    BY <1>t DEF ReturnPublish, Steps, WsTypeOK, JobRecords, Pcs
  <1>l. /\ job[j].lease \in WsIds /\ ws[job[j].lease] # None
        /\ ws[job[j].lease] \in WorkspaceRecords /\ gate[job[j].lease] = j
    BY <1>1, <1>t DEF JobInv, MemberInv, HolderInv, HoldPcs, WsTypeOK
  <1>2. /\ ws' \in [WsIds -> WorkspaceRecords \union {None}]
        /\ \A k \in WsIds \ {job[j].lease} : ws'[k] = ws[k]
        /\ ws'[job[j].lease].dir = ws[job[j].lease].dir
        /\ ws'[job[j].lease].jobs = ws[job[j].lease].jobs
        /\ ws'[job[j].lease].cacheLease = ws[job[j].lease].cacheLease
        /\ ws'[job[j].lease].pending = ws[job[j].lease].pending
        /\ ws'[job[j].lease].base = TRUE /\ ws'[job[j].lease] \in WorkspaceRecords
    BY <1>l, <1>t DEF ReturnPublish, Steps, WsTypeOK, WorkspaceRecords
  <1>3. gate' = gate /\ UNCHANGED <<made, create, push>>
    BY DEF ReturnPublish, Steps
  <1>4. WsTypeOK'
    BY <1>t, <1>1, <1>2, <1>l, <1>3 DEF WsTypeOK
  <1>5. JobInv(j)'
    BY <1>t, <1>1, <1>2, <1>l, <1>3, WorkspacesAssumption DEF JobInv, WsInv, WsTypeOK, MemberInv,
       HolderInv, LiveInv, Members, HoldPcs, LaunchPcs, MemberPcs
  <1>6. Effect(j)
    BY <1>t, <1>1, <1>2, <1>l, <1>3, WorkspacesAssumption DEF Effect, Shape, WsInv, WsTypeOK,
       RecordInv, JobInv, MemberInv, HolderInv, LiveInv, Members, HoldPcs, LaunchPcs, MemberPcs
  <1> QED
    BY <1>4, <1>5, <1>6

\* The cache lease is settled under the gate.
LEMMA ReturnSettleStep ==
    ASSUME WsInv, NEW j \in WsJobs, ReturnSettle(j)
    PROVE  WsTypeOK' /\ JobInv(j)' /\ Effect(j)
  <1>t. WsTypeOK /\ job[j] \in JobRecords /\ JobInv(j)
    BY DEF WsInv, WsTypeOK
  <1>1. /\ job' \in [WsJobs -> JobRecords]
        /\ \A k \in WsJobs \ {j} : job'[k] = job[k]
        /\ job[j].pc = "settle" /\ job'[j].pc = "leave" /\ job'[j].lease = job[j].lease
        /\ job'[j].ref = job[j].ref /\ job'[j].scope = job[j].scope
        /\ job'[j].alive = job[j].alive /\ job'[j].tree = job[j].tree
    BY <1>t DEF ReturnSettle, Steps, WsTypeOK, JobRecords, Pcs
  <1>2. ws' = ws
    BY DEF ReturnSettle
  <1>3. gate' = gate /\ UNCHANGED <<made, create, push>>
    BY DEF ReturnSettle, Steps
  <1>4. WsTypeOK'
    BY <1>t, <1>1, <1>2, <1>3 DEF WsTypeOK
  <1>5. JobInv(j)'
    BY <1>t, <1>1, <1>2, <1>3, WorkspacesAssumption DEF JobInv, WsInv, WsTypeOK, MemberInv,
       HolderInv, LiveInv, Members, HoldPcs, LaunchPcs, MemberPcs
  <1>6. Effect(j)
    BY <1>t, <1>1, <1>2, <1>3, WorkspacesAssumption DEF Effect, Shape, WsInv, WsTypeOK, RecordInv,
       JobInv, MemberInv, HolderInv, LiveInv, Members, HoldPcs, LaunchPcs, MemberPcs
  <1> QED
    BY <1>4, <1>5, <1>6

\* A failed return keeps the membership, or has already given it up; nothing runs.
LEMMA ReturnFailStep ==
    ASSUME WsInv, NEW j \in WsJobs, ReturnFail(j)
    PROVE  WsTypeOK' /\ JobInv(j)' /\ Effect(j)
  <1>t. WsTypeOK /\ job[j] \in JobRecords /\ JobInv(j)
    BY DEF WsInv, WsTypeOK
  <1>1. /\ job' \in [WsJobs -> JobRecords]
        /\ \A k \in WsJobs \ {j} : job'[k] = job[k]
        /\ job[j].pc \in {"publish", "settle", "leave"} /\ job'[j].pc = "retained"
        /\ job'[j].lease = job[j].lease /\ job'[j].ref = job[j].ref
        /\ job'[j].scope = job[j].scope /\ job'[j].alive = job[j].alive
        /\ job'[j].tree = job[j].tree
    BY <1>t DEF ReturnFail, Departed, Leave, Steps, WsTypeOK, JobRecords, Pcs
  <1>l. /\ job[j].lease \in WsIds /\ ws[job[j].lease] # None
        /\ ws[job[j].lease] \in WorkspaceRecords /\ gate[job[j].lease] = j
    BY <1>1, <1>t DEF JobInv, MemberInv, HolderInv, HoldPcs, WsTypeOK
  <1>2. ws' = ws \/ BecomesDeparted(job[j].lease, j)
    BY <1>l, <1>t, DepartedForm DEF ReturnFail
  <1>3. gate' = [gate EXCEPT ![job[j].lease] = None] /\ UNCHANGED <<made, create, push>>
    BY DEF ReturnFail, Departed, Leave, Steps
  <1>4. WsTypeOK'
    BY <1>t, <1>1, <1>2, <1>l, <1>3 DEF WsTypeOK, BecomesDeparted
  <1>5. JobInv(j)'
    BY <1>t, <1>1, <1>2, <1>l, <1>3, WorkspacesAssumption DEF JobInv, WsInv, WsTypeOK, MemberInv,
       HolderInv, LiveInv, Members, HoldPcs, LaunchPcs, MemberPcs, BecomesDeparted
  <1>6. Effect(j)
    BY <1>t, <1>1, <1>2, <1>l, <1>3, WorkspacesAssumption DEF Effect, Shape, WsInv, WsTypeOK,
       RecordInv, JobInv, MemberInv, HolderInv, LiveInv, Members, HoldPcs, LaunchPcs, MemberPcs,
       BecomesDeparted
  <1> QED
    BY <1>4, <1>5, <1>6

\* The member leaves the record under the gate.
LEMMA ReturnLeaveStep ==
    ASSUME WsInv, NEW j \in WsJobs, ReturnLeave(j)
    PROVE  WsTypeOK' /\ JobInv(j)' /\ Effect(j)
  <1>t. WsTypeOK /\ job[j] \in JobRecords /\ JobInv(j)
    BY DEF WsInv, WsTypeOK
  <1>1. /\ job' \in [WsJobs -> JobRecords]
        /\ \A k \in WsJobs \ {j} : job'[k] = job[k]
        /\ job[j].pc = "leave" /\ job'[j].pc = "returned" /\ job'[j].lease = job[j].lease
        /\ job'[j].ref = job[j].ref /\ job'[j].scope = job[j].scope
        /\ job'[j].alive = job[j].alive /\ job'[j].tree = FALSE
    BY <1>t DEF ReturnLeave, Departed, Leave, WsTypeOK, JobRecords, Pcs
  <1>l. /\ job[j].lease \in WsIds /\ ws[job[j].lease] # None
        /\ ws[job[j].lease] \in WorkspaceRecords /\ gate[job[j].lease] = j
    BY <1>1, <1>t DEF JobInv, MemberInv, HolderInv, HoldPcs, WsTypeOK
  <1>2. BecomesDeparted(job[j].lease, j)
    BY <1>l, <1>t, DepartedForm DEF ReturnLeave
  <1>3. gate' = [gate EXCEPT ![job[j].lease] = None] /\ UNCHANGED <<made, create, push>>
    BY DEF ReturnLeave, Departed, Leave
  <1>4. WsTypeOK'
    BY <1>t, <1>1, <1>2, <1>l, <1>3 DEF WsTypeOK, BecomesDeparted
  <1>5. JobInv(j)'
    BY <1>t, <1>1, <1>2, <1>l, <1>3, WorkspacesAssumption DEF JobInv, WsInv, WsTypeOK, MemberInv,
       HolderInv, LiveInv, Members, HoldPcs, LaunchPcs, MemberPcs, BecomesDeparted
  <1>6. Effect(j)
    BY <1>t, <1>1, <1>2, <1>l, <1>3, WorkspacesAssumption DEF Effect, Shape, WsInv, WsTypeOK,
       RecordInv, JobInv, MemberInv, HolderInv, LiveInv, Members, HoldPcs, LaunchPcs, MemberPcs,
       BecomesDeparted
  <1> QED
    BY <1>4, <1>5, <1>6

\* A job settles after it left.
LEMMA SettledStep ==
    ASSUME WsInv, NEW j \in WsJobs, Settled(j)
    PROVE  WsTypeOK' /\ JobInv(j)' /\ Effect(j)
  <1>t. WsTypeOK /\ job[j] \in JobRecords /\ JobInv(j)
    BY DEF WsInv, WsTypeOK
  <1>1. /\ job' \in [WsJobs -> JobRecords]
        /\ \A k \in WsJobs \ {j} : job'[k] = job[k]
        /\ job[j].pc = "returned" /\ job'[j].pc = "done" /\ job'[j].lease = job[j].lease
        /\ job'[j].ref = job[j].ref /\ job'[j].scope = "none"
        /\ job'[j].alive = job[j].alive /\ job'[j].tree = FALSE
    BY <1>t DEF Settled, WsTypeOK, JobRecords, Pcs
  <1>2. ws' = ws
    BY DEF Settled
  <1>3. gate' = gate /\ UNCHANGED <<made, create, push>>
    BY DEF Settled
  <1>4. WsTypeOK'
    BY <1>t, <1>1, <1>2, <1>3 DEF WsTypeOK
  <1>5. JobInv(j)'
    BY <1>t, <1>1, <1>2, <1>3, WorkspacesAssumption DEF JobInv, WsInv, WsTypeOK, MemberInv,
       HolderInv, LiveInv, Members, HoldPcs, LaunchPcs, MemberPcs
  <1>6. Effect(j)
    BY <1>t, <1>1, <1>2, <1>3, WorkspacesAssumption DEF Effect, Shape, WsInv, WsTypeOK, RecordInv,
       JobInv, MemberInv, HolderInv, LiveInv, Members, HoldPcs, LaunchPcs, MemberPcs
  <1> QED
    BY <1>4, <1>5, <1>6

\* A command changes nothing but the cache directory.
LEMMA CommandEditStep ==
    ASSUME WsInv, NEW j \in WsJobs, CommandEdit(j)
    PROVE  WsTypeOK' /\ JobInv(j)' /\ Effect(j)
  <1>t. WsTypeOK /\ job[j] \in JobRecords /\ JobInv(j)
    BY DEF WsInv, WsTypeOK
  <1>1. PICK l \in WsIds : ws[l] # None /\ ws' = [ws EXCEPT ![l].cacheDir = ~@]
    BY DEF CommandEdit
  <1>2. ws[l] \in WorkspaceRecords
    BY <1>t, <1>1 DEF WsTypeOK
  <1>3. /\ ws' \in [WsIds -> WorkspaceRecords \union {None}] /\ ws'[l] \in WorkspaceRecords
        /\ \A k \in WsIds \ {l} : ws'[k] = ws[k]
        /\ ws'[l].dir = ws[l].dir /\ ws'[l].jobs = ws[l].jobs
        /\ ws'[l].cacheLease = ws[l].cacheLease /\ ws'[l].pending = ws[l].pending
        /\ ws'[l].base = ws[l].base
    BY <1>t, <1>1, <1>2 DEF WsTypeOK, WorkspaceRecords
  <1>4. UNCHANGED <<made, create, push, gate, job>>
    BY DEF CommandEdit
  <1>5. WsTypeOK'
    BY <1>t, <1>3, <1>4 DEF WsTypeOK
  <1>6. \A i \in WsIds :
          /\ ws'[i] = None <=> ws[i] = None
          /\ ws[i] # None =>
               /\ ws'[i].dir = ws[i].dir /\ ws'[i].jobs = ws[i].jobs
               /\ ws'[i].cacheLease = ws[i].cacheLease /\ ws'[i].pending = ws[i].pending
               /\ ws'[i].base = ws[i].base
    BY <1>1, <1>3, WorkspacesAssumption
  <1>7. JobInv(j)'
    BY <1>t, <1>4, <1>6 DEF JobInv, MemberInv, HolderInv, LiveInv, Members, HoldPcs, LaunchPcs,
       MemberPcs
  <1>8. \A i \in WsIds : gate'[i] = j => job'[j].lease = i /\ job'[j].pc \in HoldPcs
    BY <1>4, WorkspacesAssumption DEF WsInv, RecordInv
  <1>9. \A i \in WsIds : ws[i] # None => Shape(i)'
    BY <1>6 DEF Shape, WsInv, RecordInv
  <1> QED
    BY <1>4, <1>5, <1>6, <1>7, <1>8, <1>9 DEF Effect

\* The return takes the free gate; only the last member publishes.
LEMMA ReturnBeginStep ==
    ASSUME WsInv, NEW j \in WsJobs, ReturnBegin(j)
    PROVE  WsTypeOK' /\ JobInv(j)' /\ Effect(j)
  <1>t. WsTypeOK /\ job[j] \in JobRecords /\ JobInv(j)
    BY DEF WsInv, WsTypeOK
  <1>1. PICK pc \in {"returned", "leave", "publish", "settle"} : Steps(j, pc)
    BY DEF ReturnBegin
  <1>2. /\ job' \in [WsJobs -> JobRecords]
        /\ \A k \in WsJobs \ {j} : job'[k] = job[k]
        /\ job[j].pc = "stopped" /\ gate[job[j].lease] = None /\ job'[j].pc = pc
        /\ job'[j].lease = job[j].lease /\ job'[j].ref = job[j].ref /\ job'[j].scope = job[j].scope
        /\ job'[j].alive = job[j].alive /\ job'[j].tree = job[j].tree
    BY <1>t, <1>1 DEF ReturnBegin, Steps, WsTypeOK, JobRecords, Pcs
  <1>3. UNCHANGED <<ws, made, create, push>>
    BY DEF ReturnBegin
  <1>4. \/ /\ j \notin Members(job[j].lease) /\ pc = "returned" /\ gate' = gate
        \/ /\ j \in Members(job[j].lease) /\ pc \in {"leave", "publish", "settle"}
           /\ pc # "leave" => ws[job[j].lease].jobs = {j}
           /\ gate' = [gate EXCEPT ![job[j].lease] = j]
    <2>1. j \notin Members(job[j].lease) \/ j \in Members(job[j].lease)
      OBVIOUS
    <2> QED
      BY <1>t, <1>1, <1>2, <2>1 DEF ReturnBegin, Steps, Hold, LastMember, WsTypeOK, JobRecords
  <1>5. job[j].lease \in WsIds
    BY <1>t, <1>2 DEF JobInv, MemberInv
  <1>6. WsTypeOK'
    BY <1>t, <1>2, <1>3, <1>4, <1>5 DEF WsTypeOK
  <1>7. JobInv(j)'
    BY <1>t, <1>2, <1>3, <1>4, <1>5, WorkspacesAssumption DEF JobInv, WsTypeOK, MemberInv,
       HolderInv, LiveInv, Members, HoldPcs, LaunchPcs, MemberPcs
  <1>8. Effect(j)
    BY <1>t, <1>2, <1>3, <1>4, <1>5, WorkspacesAssumption DEF Effect, Shape, WsInv, WsTypeOK,
       RecordInv, HoldPcs
  <1> QED
    BY <1>6, <1>7, <1>8

\* WsRecover: a job whose scope is unrecorded has no process.
LEMMA WsRecoverStep ==
    ASSUME WsInv, NEW j \in WsJobs, WsRecover(j)
    PROVE  WsTypeOK' /\ JobInv(j)' /\ Effect(j)
  <1>t. WsTypeOK /\ job[j] \in JobRecords /\ JobInv(j)
    BY DEF WsInv, WsTypeOK
  <1>1. /\ job' \in [WsJobs -> JobRecords]
        /\ \A k \in WsJobs \ {j} : job'[k] = job[k]
        /\ job[j].pc = "recover"
        /\ job'[j].lease = job[j].lease /\ job'[j].ref = job[j].ref /\ job'[j].scope = job[j].scope
        /\ job'[j].tree = job[j].tree
        /\ \/ /\ job'[j].pc = "stopped" /\ job[j].scope \in {"none", "group"}
              /\ job'[j].alive = IF job[j].scope = "group" THEN 0 ELSE job[j].alive
           \/ job'[j].pc = "protected" /\ job'[j].alive = job[j].alive
    <2>1. CASE Recoverable(j) /\ job' = [job EXCEPT ![j].pc = "stopped",
                 ![j].alive = IF job[j].scope = "group" THEN 0 ELSE @]
      <3>1. /\ job'[j].pc = "stopped" /\ job'[j].alive = IF job[j].scope = "group" THEN 0 ELSE job[j].alive
            /\ job'[j].lease = job[j].lease /\ job'[j].ref = job[j].ref
            /\ job'[j].scope = job[j].scope /\ job'[j].tree = job[j].tree
            /\ job'[j] \in JobRecords
        BY <1>t, <2>1 DEF WsTypeOK, JobRecords, Pcs
      <3>2. \A k \in WsJobs \ {j} : job'[k] = job[k]
        BY <1>t, <2>1 DEF WsTypeOK
      <3>3. job' \in [WsJobs -> JobRecords]
        BY <1>t, <2>1, <3>1, <3>2 DEF WsTypeOK
      <3> QED
        BY <2>1, <3>1, <3>2, <3>3 DEF Recoverable, WsRecover
    <2>2. CASE Steps(j, "protected")
      BY <1>t, <2>2 DEF Steps, WsTypeOK, JobRecords, Pcs, WsRecover
    <2> QED
      BY <2>1, <2>2 DEF WsRecover
  <1>2. UNCHANGED <<ws, made, create, push, gate>>
    BY DEF WsRecover
  <1>3. WsTypeOK'
    BY <1>t, <1>1, <1>2 DEF WsTypeOK
  <1>4. JobInv(j)'
    BY <1>t, <1>1, <1>2 DEF JobInv, MemberInv, HolderInv, LiveInv, Members, HoldPcs, LaunchPcs,
       MemberPcs
  <1>5. Effect(j)
    BY <1>t, <1>1, <1>2, WorkspacesAssumption DEF Effect, Shape, WsInv, RecordInv, HoldPcs
  <1> QED
    BY <1>3, <1>4, <1>5

-----------------------------------------------------------------------------
\* Whatever a step of one job does, the invariant holds of the others and of the records.
LEMMA EffectKeeps ==
    ASSUME WsInv, NEW j \in WsJobs, WsTypeOK', JobInv(j)', Effect(j)
    PROVE  WsInv'
  <1>1. OneInv' /\ InodeInv'
    BY DEF WsInv, OneInv, InodeInv, Effect
  <1>2. ASSUME NEW k \in WsJobs PROVE JobInv(k)'
    <2>1. CASE k = j
      BY <2>1
    <2>2. CASE k # j
      <3>0. JobInv(k) /\ job'[k] = job[k] /\ k # None
        BY <2>2, WorkspacesAssumption DEF WsInv, Effect
      <3>1. \A i \in WsIds : k \in Members(i)' <=> k \in Members(i)
        BY <2>2 DEF Effect, Members
      <3>2. MemberInv(k)'
        BY <3>0, <3>1 DEF JobInv, MemberInv, MemberPcs, HoldPcs, LaunchPcs
      <3>3. HolderInv(k)'
        BY <2>2, <3>0 DEF JobInv, MemberInv, HolderInv, HoldPcs, Effect
      <3>4. k \in Members(job[k].lease) /\ ~ws[job[k].lease].pending /\ job[k].lease \in WsIds
              => ~ws'[job[k].lease].pending /\ ws'[job[k].lease].dir = ws[job[k].lease].dir
        BY DEF Members, Effect
      <3>5. job[k].alive # 0 \/ job[k].pc \in LaunchPcs =>
              job[k].lease \in WsIds /\ k \in Members(job[k].lease)
        BY <3>0 DEF JobInv, MemberInv, LiveInv, MemberPcs, LaunchPcs
      <3>6. LiveInv(k)'
        BY <3>0, <3>1, <3>4, <3>5 DEF JobInv, LiveInv
      <3> QED
        BY <3>2, <3>3, <3>6 DEF JobInv
    <2> QED
      BY <2>1, <2>2
  <1>3. ASSUME NEW i \in WsIds PROVE RecordInv(i)'
    <2>1. ws'[i] # None => Shape(i)'
      BY DEF Effect
    <2>2. gate'[i] # None => job'[gate'[i]].lease = i /\ job'[gate'[i]].pc \in HoldPcs
      <3>1. gate[i] \in WsJobs \union {None}
        BY DEF WsInv, WsTypeOK
      <3> QED
        BY <3>1 DEF Effect, WsInv, RecordInv
    <2> QED
      BY <2>1, <2>2 DEF RecordInv, Shape
  <1>4. \A p \in Pushers : PinInv(p)'
    BY DEF WsInv, PinInv, Effect
  <1> QED
    BY <1>1, <1>2, <1>3, <1>4 DEF WsInv

\* A step of a job.
JobActs(j) ==
  \/ \E i \in WsIds : AcquireRef(j, i)
  \/ AcquireWrite(j) \/ AcquireFail(j) \/ StageFail(j)
  \/ PrepareBegin(j) \/ RestoreSave(j) \/ RestoreExpose(j) \/ PrepareEnd(j)
  \/ LaunchScope(j) \/ Start(j) \/ RecordGroup(j) \/ RecordGroupFail(j)
  \/ CommandEdit(j) \/ CommandExit(j) \/ ScopeFail(j) \/ OrphanExit(j)
  \/ ReturnBegin(j) \/ ReturnPublish(j) \/ ReturnSettle(j) \/ ReturnFail(j) \/ ReturnLeave(j)
  \/ Settled(j) \/ WsRecover(j)

\* Every step of a job keeps the invariant.
LEMMA WsJobStep ==
    ASSUME WsInv, NEW j \in WsJobs, JobActs(j)
    PROVE  WsInv'
  <1>1. WsTypeOK' /\ JobInv(j)' /\ Effect(j)
    BY AcquireRefStep, AcquireWriteStep, AcquireFailStep, StageFailStep, PrepareBeginStep,
       RestoreSaveStep, RestoreExposeStep, PrepareEndStep, LaunchScopeStep, StartStep,
       RecordGroupStep, RecordGroupFailStep, CommandEditStep, CommandExitStep, ScopeFailStep,
       OrphanExitStep, ReturnBeginStep, ReturnPublishStep, ReturnSettleStep, ReturnFailStep,
       ReturnLeaveStep, SettledStep, WsRecoverStep DEF JobActs
  <1> QED
    BY <1>1, EffectKeeps

-----------------------------------------------------------------------------
\* What depends on the records, the gates and the jobs alone.
LEMMA LeasesFramed ==
    ASSUME WsInv, UNCHANGED <<ws, gate, job>>
    PROVE  /\ OneInv' /\ \A j \in WsJobs : JobInv(j)'
           /\ \A i \in WsIds : RecordInv(i)'
  <1>1. OneInv'
    BY DEF WsInv, OneInv
  <1>2. \A j \in WsJobs : JobInv(j)'
    BY DEF WsInv, JobInv, MemberInv, HolderInv, LiveInv, Members
  <1>3. \A i \in WsIds : RecordInv(i)'
    BY DEF WsInv, RecordInv
  <1> QED
    BY <1>1, <1>2, <1>3

\* A new directory takes an inode number no directory in use and no open handle has.
LEMMA CreateBeginStep ==
    ASSUME WsInv, NEW c \in Creators, NEW i \in WsIds, CreateBegin(c, i)
    PROVE  WsInv'
  <1>t. WsTypeOK /\ InodeInv /\ \A p \in Pushers : PinInv(p)
    BY DEF WsInv
  <1>1. PICK n \in FreeInodes :
          create' = [create EXCEPT ![c] = [pc |-> "extract", id |-> i, dir |-> [ino |-> n, inc |-> made']]]
    BY DEF CreateBegin, InUse
  <1>2. UNCHANGED <<ws, gate, push, job>> /\ made' = made + 1 /\ made' \in Nat
    BY <1>t DEF CreateBegin, WsTypeOK
  <1>3. /\ n \in DataInodes
        /\ \A k \in WsIds : ws[k] # None => ws[k].dir.ino # n
        /\ \A d \in Creators : create[d].dir.ino # n
        /\ \A p \in Pushers : push[p].pin.ino # n
    BY <1>1 DEF FreeInodes
  <1> DEFINE r == [pc |-> "extract", id |-> i, dir |-> [ino |-> n, inc |-> made']]
  <1>4. r \in CreateRecords /\ r.dir.ino = n /\ r.id = i
    BY <1>2, <1>3 DEF CreateRecords, DirRecords
  <1>5. create' \in [Creators -> CreateRecords] /\ create'[c] = r
        /\ \A d \in Creators \ {c} : create'[d] = create[d]
    BY <1>1, <1>4, <1>t DEF WsTypeOK
  <1> HIDE DEF r
  <1>6. WsTypeOK'
    BY <1>t, <1>2, <1>5 DEF WsTypeOK
  <1>7. InodeInv'
    BY <1>t, <1>2, <1>3, <1>4, <1>5 DEF InodeInv
  <1>8. \A p \in Pushers : PinInv(p)'
    BY <1>t, <1>2, <1>3, <1>4, <1>5 DEF PinInv
  <1> QED
    BY <1>2, <1>6, <1>7, <1>8, LeasesFramed DEF WsInv

\* A request that ends leaves the others as they are.
LEMMA CreateEnds ==
    ASSUME WsTypeOK, NEW c \in Creators, create' = [create EXCEPT ![c] = IdleCreate]
    PROVE  /\ create' \in [Creators -> CreateRecords] /\ create'[c].pc = "idle"
           /\ \A d \in Creators \ {c} : create'[d] = create[d]
  <1>1. IdleCreate \in CreateRecords /\ IdleCreate.pc = "idle"
    BY DEF IdleCreate, CreateRecords, DirRecords, NoDir
  <1> QED
    BY <1>1 DEF WsTypeOK

\* A failed creation frees its directory.
LEMMA CreateFailStep ==
    ASSUME WsInv, NEW c \in Creators, CreateFail(c)
    PROVE  WsInv'
  <1>t. WsTypeOK /\ InodeInv /\ \A p \in Pushers : PinInv(p)
    BY DEF WsInv
  <1>1. /\ create' \in [Creators -> CreateRecords] /\ create'[c].pc = "idle"
        /\ \A d \in Creators \ {c} : create'[d] = create[d]
    BY <1>t, CreateEnds DEF CreateFail
  <1>2. UNCHANGED <<ws, gate, push, job, made>>
    BY DEF CreateFail
  <1>3. WsTypeOK'
    BY <1>t, <1>1, <1>2 DEF WsTypeOK
  <1>4. InodeInv'
    BY <1>t, <1>1, <1>2 DEF InodeInv
  <1>5. \A p \in Pushers : PinInv(p)'
    BY <1>t, <1>1, <1>2 DEF PinInv
  <1> QED
    BY <1>2, <1>3, <1>4, <1>5, LeasesFramed DEF WsInv

\* A workspace is published only while none is, so no job is a member of one, or holds a gate.
LEMMA CreatePublishStep ==
    ASSUME WsInv, NEW c \in Creators, CreatePublish(c)
    PROVE  WsInv'
  <1> DEFINE l == create[c].id
             r == NewWorkspace(create[c].dir)
  <1>t. WsTypeOK /\ InodeInv /\ OneInv /\ \A p \in Pushers : PinInv(p)
    BY DEF WsInv
  <1>1. /\ create' \in [Creators -> CreateRecords] /\ create'[c].pc = "idle"
        /\ \A d \in Creators \ {c} : create'[d] = create[d]
    BY <1>t, CreateEnds DEF CreatePublish
  <1>2. create[c].pc = "extract" /\ UNCHANGED <<gate, push, job, made>>
    BY DEF CreatePublish
  <1>3. CASE ws' = ws
    <2>1. WsTypeOK'
      BY <1>t, <1>1, <1>2, <1>3 DEF WsTypeOK
    <2>2. InodeInv'
      BY <1>t, <1>1, <1>2, <1>3 DEF InodeInv
    <2>3. \A p \in Pushers : PinInv(p)'
      BY <1>t, <1>1, <1>2, <1>3 DEF PinInv
    <2> QED
      BY <1>2, <1>3, <2>1, <2>2, <2>3, LeasesFramed DEF WsInv
  <1>4. CASE Publishable(l) /\ ws' = [ws EXCEPT ![l] = r]
    <2>1. l \in WsIds /\ create[c].dir \in DirRecords /\ create[c].dir.ino \in DataInodes
      BY <1>t, <1>2 DEF InodeInv, WsTypeOK, CreateRecords
    <2>2. /\ r \in WorkspaceRecords /\ r # None /\ r.dir = create[c].dir /\ r.jobs = {}
          /\ r.cacheLease = None /\ r.pending = FALSE
      <3>1. r \in WorkspaceRecords
        BY <2>1 DEF NewWorkspace, WorkspaceRecords, DirRecords
      <3> QED
        BY <3>1, WorkspacesAssumption DEF NewWorkspace
    <2>3. \A i \in WsIds : ws[i] = None
      BY <1>4 DEF Publishable
    <2> HIDE DEF l, r
    <2>4. /\ ws' \in [WsIds -> WorkspaceRecords \union {None}] /\ ws'[l] = r
          /\ \A i \in WsIds \ {l} : ws'[i] = None
      BY <1>t, <1>4, <2>1, <2>2, <2>3 DEF WsTypeOK
    <2>5. WsTypeOK'
      BY <1>t, <1>1, <1>2, <2>4 DEF WsTypeOK
    <2>6. OneInv'
      BY <2>4 DEF OneInv
    <2>7. InodeInv'
      BY <1>t, <1>1, <1>2, <2>2, <2>4 DEF InodeInv
    <2>8. ASSUME NEW j \in WsJobs PROVE JobInv(j)'
      <3>1. JobInv(j) /\ \A i \in WsIds : j \notin Members(i) /\ j \notin Members(i)'
        BY <2>2, <2>3, <2>4 DEF WsInv, Members
      <3>2. job[j].pc \notin MemberPcs \union HoldPcs /\ job[j].alive = 0
        BY <3>1, <2>3 DEF JobInv, MemberInv, LiveInv, HolderInv, HoldPcs, MemberPcs, LaunchPcs
      <3>3. MemberInv(j)'
        BY <1>2, <3>1, <3>2 DEF JobInv, MemberInv
      <3>4. HolderInv(j)' /\ LiveInv(j)'
        BY <1>2, <3>1, <3>2 DEF JobInv, HolderInv, LiveInv, HoldPcs, MemberPcs, LaunchPcs
      <3> QED
        BY <3>3, <3>4 DEF JobInv
    <2>9. \A i \in WsIds : RecordInv(i)'
      BY <1>2, <2>2, <2>4 DEF WsInv, RecordInv
    <2>10. \A p \in Pushers : PinInv(p)'
      BY <1>t, <1>1, <1>2, <2>1, <2>2, <2>4 DEF PinInv
    <2> QED
      BY <2>5, <2>6, <2>7, <2>8, <2>9, <2>10 DEF WsInv
  <1> QED
    BY <1>3, <1>4 DEF CreatePublish

\* A workspace without members is removed while nobody holds its gate.
LEMMA RemoveWorkspaceStep ==
    ASSUME WsInv, NEW l \in WsIds, RemoveWorkspace(l)
    PROVE  WsInv'
  <1>t. WsTypeOK /\ InodeInv /\ OneInv /\ \A p \in Pushers : PinInv(p)
    BY DEF WsInv
  <1>1. ws[l] # None /\ ws[l].jobs = {} /\ gate[l] = None /\ UNCHANGED <<gate, push, job, made, create>>
    BY DEF RemoveWorkspace
  <1>2. /\ ws' \in [WsIds -> WorkspaceRecords \union {None}] /\ ws'[l] = None
        /\ \A i \in WsIds \ {l} : ws'[i] = ws[i]
    BY <1>t DEF RemoveWorkspace, WsTypeOK
  <1>3. WsTypeOK'
    BY <1>t, <1>1, <1>2 DEF WsTypeOK
  <1>4. OneInv' /\ InodeInv'
    BY <1>t, <1>1, <1>2 DEF OneInv, InodeInv
  <1>5. ASSUME NEW j \in WsJobs PROVE JobInv(j)'
    <2>1. JobInv(j) /\ j # None
      BY WorkspacesAssumption DEF WsInv
    <2>2. \A i \in WsIds : j \in Members(i)' <=> j \in Members(i)
      BY <1>1, <1>2 DEF Members
    <2>3. job[j].pc \in MemberPcs \union HoldPcs \/ job[j].alive # 0 => job[j].lease \in WsIds \ {l}
      BY <1>1, <2>1 DEF JobInv, MemberInv, LiveInv, HolderInv, Members, HoldPcs, MemberPcs, LaunchPcs
    <2>4. MemberInv(j)'
      BY <1>1, <2>1, <2>2, <2>3 DEF JobInv, MemberInv
    <2>5. HolderInv(j)' /\ LiveInv(j)'
      BY <1>1, <1>2, <2>1, <2>2, <2>3 DEF JobInv, HolderInv, LiveInv, HoldPcs, MemberPcs, LaunchPcs
    <2> QED
      BY <2>4, <2>5 DEF JobInv
  <1>6. \A i \in WsIds : RecordInv(i)'
    BY <1>1, <1>2 DEF WsInv, RecordInv
  <1>7. \A p \in Pushers : PinInv(p)'
    BY <1>t, <1>1, <1>2 DEF PinInv
  <1> QED
    BY <1>3, <1>4, <1>5, <1>6, <1>7 DEF WsInv

-----------------------------------------------------------------------------
\* A step of one upload.
LEMMA PushKeeps ==
    ASSUME WsInv, NEW p \in Pushers, UNCHANGED <<ws, made, create, gate, job>>,
           push' \in [Pushers -> PushRecords], \A q \in Pushers \ {p} : push'[q] = push[q],
           PinInv(p)'
    PROVE  WsInv'
  <1>1. WsTypeOK' /\ InodeInv'
    BY DEF WsInv, WsTypeOK, InodeInv
  <1>2. \A q \in Pushers : PinInv(q)'
    BY DEF WsInv, PinInv
  <1> QED
    BY <1>1, <1>2, LeasesFramed DEF WsInv

\* The fields an upload's step leaves, and the ones it sets.
PushSets(p, pc, id, row, pin, into) ==
  /\ push' \in [Pushers -> PushRecords] /\ \A q \in Pushers \ {p} : push'[q] = push[q]
  /\ push'[p].pc = pc /\ push'[p].id = id /\ push'[p].row = row
  /\ push'[p].pin = pin /\ push'[p].into = into

\* The request remembers the inode number it read.
LEMMA PushReadStep ==
    ASSUME WsInv, NEW p \in Pushers, NEW i \in WsIds, PushRead(p, i)
    PROVE  WsInv'
  <1>t. WsTypeOK /\ PinInv(p) /\ push[p] \in PushRecords
    BY DEF WsInv, WsTypeOK
  <1>1. ws[i].dir.ino \in DataInodes
    BY <1>t DEF PushRead, WsTypeOK, WorkspaceRecords
  <1>2. PushSets(p, "wait", i, ws[i].dir.ino, push[p].pin, push[p].into) /\ push[p].pc = "idle"
    BY <1>t, <1>1 DEF PushRead, PushSets, WsTypeOK, PushRecords
  <1>3. UNCHANGED <<ws, made, create, gate, job>>
    BY DEF PushRead
  <1>4. PinInv(p)'
    BY <1>t, <1>2, <1>3 DEF PinInv, PushSets
  <1> QED
    BY <1>2, <1>3, <1>4, PushKeeps DEF PushSets

\* One upload at a time is admitted for an identifier.
LEMMA PushBeginStep ==
    ASSUME WsInv, NEW p \in Pushers, PushBegin(p)
    PROVE  WsInv'
  <1>t. WsTypeOK /\ PinInv(p) /\ push[p] \in PushRecords
    BY DEF WsInv, WsTypeOK
  <1>1. PICK pc \in {"admitted", "done"} : push' = [push EXCEPT ![p].pc = pc]
    BY DEF PushBegin
  <1>2. PushSets(p, pc, push[p].id, push[p].row, push[p].pin, push[p].into) /\ push[p].pc = "wait"
    BY <1>t, <1>1 DEF PushBegin, PushSets, WsTypeOK, PushRecords
  <1>3. UNCHANGED <<ws, made, create, gate, job>>
    BY DEF PushBegin
  <1>4. PinInv(p)'
    BY <1>t, <1>2, <1>3 DEF PinInv, PushSets
  <1> QED
    BY <1>2, <1>3, <1>4, PushKeeps DEF PushSets

\* The handle is opened on a published directory, the only one with its inode number.
LEMMA PushPinStep ==
    ASSUME WsInv, NEW p \in Pushers, PushPin(p)
    PROVE  WsInv'
  <1> DEFINE i == push[p].id
  <1>t. WsTypeOK /\ OneInv /\ InodeInv /\ PinInv(p) /\ push[p] \in PushRecords
    BY DEF WsInv, WsTypeOK
  <1>1. push[p].pc = "admitted" /\ i \in WsIds
    BY <1>t DEF PushPin, PinInv
  <1>2. UNCHANGED <<ws, made, create, gate, job>>
    BY DEF PushPin
  <1>3. CASE ws[i] # None /\ ws[i].dir.ino = push[p].row
    <2>1. ws[i].dir \in DirRecords
      BY <1>t, <1>1, <1>3 DEF WsTypeOK, WorkspaceRecords, DirRecords
    <2>2. push' = [push EXCEPT ![p] = [@ EXCEPT !.pc = "upload", !.pin = ws[i].dir]]
      BY <1>3 DEF PushPin, Pinned
    <2>3. PushSets(p, "upload", i, push[p].row, ws[i].dir, push[p].into)
      BY <1>t, <2>1, <2>2 DEF PushSets, WsTypeOK, PushRecords
    <2>4. \A k \in WsIds : ws[k] # None => k = i
      BY <1>t, <1>1, <1>3 DEF OneInv
    <2>5. PinInv(p)'
      BY <1>t, <1>1, <1>2, <1>3, <2>3, <2>4 DEF PinInv, PushSets, InodeInv
    <2> QED
      BY <1>2, <2>3, <2>5, PushKeeps DEF PushSets
  <1>4. CASE ~(ws[i] # None /\ ws[i].dir.ino = push[p].row)
    <2>1. push' = [push EXCEPT ![p] = [@ EXCEPT !.pc = "finish"]]
      BY <1>4 DEF PushPin
    <2>2. PushSets(p, "finish", i, push[p].row, push[p].pin, push[p].into)
      BY <1>t, <2>1 DEF PushSets, WsTypeOK, PushRecords
    <2>3. PinInv(p)'
      BY <1>t, <1>1, <1>2, <2>2 DEF PinInv, PushSets
    <2> QED
      BY <1>2, <2>2, <2>3, PushKeeps DEF PushSets
  <1> QED
    BY <1>3, <1>4

\* A directory with the number of the pinned one is the pinned one.
LEMMA PushStageStep ==
    ASSUME WsInv, NEW p \in Pushers, PushStage(p)
    PROVE  WsInv'
  <1> DEFINE i == push[p].id
  <1>t. WsTypeOK /\ PinInv(p) /\ push[p] \in PushRecords
    BY DEF WsInv, WsTypeOK
  <1>1. push[p].pc = "upload" /\ i \in WsIds
    BY <1>t DEF PushStage, PinInv
  <1>2. UNCHANGED <<ws, made, create, gate, job>>
    BY DEF PushStage
  <1>3. CASE ws[i] # None /\ ws[i].dir.ino = push[p].row
    <2>1. ws[i].dir = push[p].pin /\ ws[i].dir.inc \in Nat
      BY <1>t, <1>1, <1>3 DEF PinInv, PushRecords, DirRecords
    <2>2. push' = [push EXCEPT ![p] = [@ EXCEPT !.pc = "finish", !.into = ws[i].dir.inc]]
      BY <1>3 DEF PushStage
    <2>3. PushSets(p, "finish", i, push[p].row, push[p].pin, ws[i].dir.inc)
      BY <1>t, <2>1, <2>2 DEF PushSets, WsTypeOK, PushRecords
    <2>4. PinInv(p)'
      BY <1>t, <1>1, <1>2, <2>1, <2>3 DEF PinInv, PushSets
    <2> QED
      BY <1>2, <2>3, <2>4, PushKeeps DEF PushSets
  <1>4. CASE ~(ws[i] # None /\ ws[i].dir.ino = push[p].row)
    <2>1. push' = [push EXCEPT ![p] = [@ EXCEPT !.pc = "finish"]]
      BY <1>4 DEF PushStage
    <2>2. PushSets(p, "finish", i, push[p].row, push[p].pin, push[p].into)
      BY <1>t, <2>1 DEF PushSets, WsTypeOK, PushRecords
    <2>3. PinInv(p)'
      BY <1>t, <1>1, <1>2, <2>2 DEF PinInv, PushSets
    <2> QED
      BY <1>2, <2>2, <2>3, PushKeeps DEF PushSets
  <1> QED
    BY <1>3, <1>4

\* A closed handle pins no directory.
LEMMA HandleClosed ==
    ASSUME WsInv, NEW q \in PushRecords, q.id \in WsIds, q.into \in {0, q.pin.inc}
    PROVE  LET r == [q EXCEPT !.pc = "done", !.pin.ino = None]
           IN  r \in PushRecords /\ r.pc = "done" /\ r.id = q.id /\ r.pin.ino = None
               /\ r.into \in {0, r.pin.inc}
  BY DEF PushRecords, DirRecords

\* The handle is closed, and its inode number is free again.
LEMMA PushFinishStep ==
    ASSUME WsInv, NEW p \in Pushers, PushFinish(p)
    PROVE  WsInv'
  <1> DEFINE r == [push[p] EXCEPT !.pc = "done", !.pin.ino = None]
  <1>t. WsTypeOK /\ PinInv(p) /\ push[p] \in PushRecords /\ push[p].pc = "finish"
    BY DEF WsInv, WsTypeOK, PushFinish
  <1>1. r \in PushRecords /\ r.pc = "done" /\ r.id \in WsIds /\ r.pin.ino = None
        /\ r.into \in {0, r.pin.inc}
    BY <1>t, HandleClosed DEF PinInv
  <1>2. UNCHANGED <<ws, made, create, gate, job>> /\ push' = [push EXCEPT ![p] = r]
    BY DEF PushFinish
  <1> HIDE DEF r
  <1>3. push' \in [Pushers -> PushRecords] /\ push'[p] = r /\ \A q \in Pushers \ {p} : push'[q] = push[q]
    BY <1>t, <1>1, <1>2 DEF WsTypeOK
  <1>4. /\ \A i \in WsIds : ws[i] # None => ws[i].dir.ino # None
        /\ \A c \in Creators : create[c].pc = "extract" => create[c].dir.ino # None
    BY <1>t, WorkspacesAssumption DEF WsInv, WsTypeOK, WorkspaceRecords, InodeInv
  <1>5. PinInv(p)'
    BY <1>1, <1>2, <1>3, <1>4 DEF PinInv
  <1> QED
    BY <1>2, <1>3, <1>5, PushKeeps

-----------------------------------------------------------------------------
\* A crash forgets the gates, the requests and the handles; the records and the jobs' files
\* stay, and so do the commands.
LEMMA WsCrashStep ==
    ASSUME WsInv, WsCrash
    PROVE  WsInv'
  <1>t. WsTypeOK /\ OneInv
    BY DEF WsInv
  <1>1. ws' = ws /\ made' = made /\ gate' = [i \in WsIds |-> None]
        /\ create' = [c \in Creators |-> IdleCreate]
    BY DEF WsCrash
  <1>2. create' \in [Creators -> CreateRecords] /\ \A c \in Creators : create'[c].pc = "idle"
    BY <1>1 DEF IdleCreate, CreateRecords, DirRecords, NoDir
  <1>3. ASSUME NEW j \in WsJobs
        PROVE  /\ job'[j] \in JobRecords /\ job'[j].lease = job[j].lease /\ job'[j].ref = job[j].ref
               /\ job'[j].scope = job[j].scope /\ job'[j].alive = job[j].alive
               /\ job'[j].tree = job[j].tree
               /\ job[j].pc \in {"new", "done"} => job'[j].pc = job[j].pc
               /\ job[j].pc \notin {"new", "done"} => job'[j].pc = "recover"
    <2>1. job[j] \in JobRecords
      BY <1>t DEF WsTypeOK
    <2>2. job'[j] = IF job[j].pc = "new" \/ job[j].pc = "done" THEN job[j]
                    ELSE [job[j] EXCEPT !.pc = "recover", !.ok = FALSE]
      BY DEF WsCrash
    <2> QED
      BY <2>1, <2>2 DEF JobRecords, Pcs
  <1>4. job' \in [WsJobs -> JobRecords]
    <2>1. job' = [j \in WsJobs |-> job'[j]]
      BY DEF WsCrash
    <2> QED
      BY <1>3, <2>1
  <1>5. ASSUME NEW p \in Pushers
        PROVE  /\ push'[p] \in PushRecords /\ push'[p].pin.ino = None
               /\ push'[p].pc \in {"idle", "done"} /\ push'[p].into \in {0, push'[p].pin.inc}
               /\ push'[p].pc = "done" => push'[p].id \in WsIds
               /\ push'[p].pc = "idle" => push'[p].into = 0
    <2>1. push[p] \in PushRecords /\ PinInv(p)
      BY DEF WsInv, WsTypeOK
    <2>2. push'[p] = IF push[p].pc = "idle" THEN IdlePush ELSE [push[p] EXCEPT !.pc = "done", !.pin.ino = None]
      BY DEF WsCrash
    <2>3. CASE push[p].pc = "idle"
      BY <2>2, <2>3 DEF IdlePush, NoDir, PushRecords, DirRecords
    <2>4. CASE push[p].pc # "idle"
      BY <2>1, <2>2, <2>4, HandleClosed DEF PinInv
    <2> QED
      BY <2>3, <2>4
  <1>6. push' \in [Pushers -> PushRecords]
    <2>1. push' = [p \in Pushers |-> push'[p]]
      BY DEF WsCrash
    <2> QED
      BY <1>5, <2>1
  <1>7. WsTypeOK'
    BY <1>t, <1>1, <1>2, <1>4, <1>6 DEF WsTypeOK
  <1>8. OneInv' /\ InodeInv'
    BY <1>t, <1>1, <1>2 DEF OneInv, InodeInv
  <1>9. ASSUME NEW j \in WsJobs PROVE JobInv(j)'
    <2>1. JobInv(j) /\ job'[j].pc \in {"new", "done", "recover"}
      BY <1>3 DEF WsInv
    <2>2. MemberInv(j)'
      BY <1>1, <1>3, <2>1 DEF JobInv, MemberInv, Members, MemberPcs, HoldPcs, LaunchPcs
    <2>3. HolderInv(j)' /\ LiveInv(j)'
      BY <1>1, <1>3, <2>1 DEF JobInv, HolderInv, LiveInv, Members, HoldPcs, LaunchPcs
    <2> QED
      BY <2>2, <2>3 DEF JobInv
  <1>10. \A i \in WsIds : RecordInv(i)'
    BY <1>1 DEF WsInv, RecordInv
  <1>11. \A p \in Pushers : PinInv(p)'
    <2>1. \A i \in WsIds : ws[i] # None => ws[i].dir.ino # None
      BY <1>t, WorkspacesAssumption DEF WsTypeOK, WorkspaceRecords
    <2> QED
      BY <1>1, <1>2, <1>5, <2>1 DEF PinInv
  <1> QED
    BY <1>7, <1>8, <1>9, <1>10, <1>11 DEF WsInv

\* What changes neither the records nor the requests nor the jobs.
LEMMA WsFrame ==
    ASSUME WsInv, UNCHANGED <<ws, made, create, gate, push, job>>
    PROVE  WsInv'
  <1>1. WsTypeOK' /\ InodeInv' /\ \A p \in Pushers : PinInv(p)'
    BY DEF WsInv, WsTypeOK, InodeInv, PinInv
  <1> QED
    BY <1>1, LeasesFramed DEF WsInv

\* A new runner has no workspace, no request and no admitted job.
LEMMA WsInitially == WsInit => WsInv
  <1> SUFFICES ASSUME WsInit PROVE WsInv
    OBVIOUS
  <1>1. NewJob \in JobRecords /\ IdleCreate \in CreateRecords /\ IdlePush \in PushRecords
    BY DEF NewJob, JobRecords, Pcs, IdleCreate, CreateRecords, IdlePush, PushRecords, NoDir, DirRecords
  <1>2. WsTypeOK
    BY <1>1 DEF WsInit, WsTypeOK
  <1>3. OneInv /\ InodeInv
    BY DEF WsInit, OneInv, InodeInv, IdleCreate
  <1>4. \A j \in WsJobs : JobInv(j)
    BY DEF WsInit, JobInv, MemberInv, HolderInv, LiveInv, Members, NewJob, MemberPcs, HoldPcs, LaunchPcs
  <1>5. \A i \in WsIds : RecordInv(i)
    BY DEF WsInit, RecordInv
  <1>6. \A p \in Pushers : PinInv(p)
    BY DEF WsInit, PinInv, IdlePush, NoDir, IdleCreate
  <1> QED
    BY <1>2, <1>3, <1>4, <1>5, <1>6 DEF WsInv

(***************************************************************************)
(* The inductive invariant, across every order of creations, removals,     *)
(* admissions, launches, returns, uploads, crashes and recoveries.         *)
(***************************************************************************)
THEOREM WorkspacesInvariance == WsSpec => []WsInv
  <1>1. WsInit => WsInv
    BY WsInitially
  <1>2. WsInv /\ [WsNext]_wsVars => WsInv'
    <2> SUFFICES ASSUME WsInv, [WsNext]_wsVars PROVE WsInv'
      OBVIOUS
    <2>1. ASSUME NEW c \in Creators, \E i \in WsIds : CreateBegin(c, i) PROVE WsInv'
      BY <2>1, CreateBeginStep
    <2>2. ASSUME NEW c \in Creators, CreateFail(c) \/ CreatePublish(c) PROVE WsInv'
      BY <2>2, CreateFailStep, CreatePublishStep
    <2>3. ASSUME NEW i \in WsIds, RemoveWorkspace(i) PROVE WsInv'
      BY <2>3, RemoveWorkspaceStep
    <2>4. ASSUME NEW d \in tombs, RemoveTree(d) PROVE WsInv'
      BY <2>4, WsFrame DEF RemoveTree
    <2>5. ASSUME NEW j \in WsJobs, JobActs(j) PROVE WsInv'
      BY <2>5, WsJobStep
    <2>6. ASSUME NEW p \in Pushers, \E i \in WsIds : PushRead(p, i) PROVE WsInv'
      BY <2>6, PushReadStep
    <2>7. ASSUME NEW p \in Pushers, PushBegin(p) \/ PushPin(p) \/ PushStage(p) \/ PushFinish(p) PROVE WsInv'
      BY <2>7, PushBeginStep, PushPinStep, PushStageStep, PushFinishStep
    <2>8. CASE WsCrash
      BY <2>8, WsCrashStep
    <2>9. CASE Serve
      BY <2>9, WsFrame DEF Serve
    <2>10. CASE UNCHANGED wsVars
      BY <2>10, WsFrame DEF wsVars
    <2> QED
      BY <2>1, <2>2, <2>3, <2>4, <2>5, <2>6, <2>7, <2>8, <2>9, <2>10 DEF WsNext, JobActs
  <1> QED
    BY <1>1, <1>2, PTL DEF WsSpec

\* The invariant gives what a runner promises of its workspaces.
LEMMA WsInvSafe ==
    ASSUME WsInv
    PROVE  LeasesSafe
  <1>t. WsTypeOK /\ OneInv
    BY DEF WsInv
  <1>1. LeaseCoversLive
    <2> SUFFICES ASSUME NEW j \in WsJobs, job[j].alive # 0
                 PROVE \E i \in WsIds : ws[i] # None /\ ws[i].dir.inc = job[j].alive /\ j \in ws[i].jobs
      BY DEF LeaseCoversLive
    <2>1. JobInv(j)
      BY DEF WsInv
    <2>2. j \in Members(job[j].lease) /\ ws[job[j].lease].dir.inc = job[j].alive /\ job[j].lease \in WsIds
      BY <2>1 DEF JobInv, LiveInv, MemberInv
    <2>3. ws[job[j].lease] # None /\ j \in ws[job[j].lease].jobs
      BY <2>2 DEF Members
    <2> QED
      BY <2>2, <2>3
  <1>2. LeaseShape
    <2> SUFFICES ASSUME NEW i \in WsIds, ws[i] # None
                 PROVE  /\ ws[i].jobs = {} <=> ws[i].cacheLease = None
                        /\ ws[i].jobs = {} => ~ws[i].pending
                        /\ \A j \in ws[i].jobs : job[j].ref = i
      BY DEF LeaseShape
    <2>1. RecordInv(i) /\ ws[i].jobs \subseteq WsJobs
      BY <1>t DEF WsInv, WsTypeOK, WorkspaceRecords
    <2>2. ASSUME NEW j \in ws[i].jobs PROVE job[j].ref = i
      <3>1. j \in WsJobs /\ j \in Members(i)
        BY <2>1, <2>2 DEF Members
      <3> QED
        BY <3>1 DEF WsInv, JobInv, MemberInv
    <2> QED
      BY <2>1, <2>2 DEF RecordInv
  <1>3. SettledReturned
    <2> SUFFICES ASSUME NEW j \in WsJobs, job[j].pc = "done"
                 PROVE  /\ \A i \in WsIds : j \notin Members(i)
                        /\ job[j].alive = 0 /\ ~job[j].tree /\ job[j].scope = "none"
      BY DEF SettledReturned
    <2>1. JobInv(j)
      BY DEF WsInv
    <2> QED
      BY <2>1 DEF JobInv, MemberInv, LiveInv
  <1>4. Cardinality({i \in WsIds : ws[i] # None}) <= 1
    <2>1. CASE \A i \in WsIds : ws[i] = None
      <3>1. {i \in WsIds : ws[i] # None} = {}
        BY <2>1
      <3> QED
        BY <3>1, FS_EmptySet
    <2>2. ASSUME NEW i \in WsIds, ws[i] # None PROVE Cardinality({k \in WsIds : ws[k] # None}) <= 1
      <3>1. {k \in WsIds : ws[k] # None} = {i}
        BY <2>2, <1>t DEF OneInv
      <3>2. Cardinality({i}) = 1
        BY FS_Singleton
      <3> QED
        BY <3>1, <3>2
    <2> QED
      BY <2>1, <2>2
  <1>5. PushLandsPinned
    BY <1>4 DEF PushLandsPinned, WsInv, PinInv
  <1>6. CachesQuiet
    <2> SUFFICES ASSUME NEW j \in WsJobs, job[j].pc \in {"expose", "publish"},
                        NEW k \in WsJobs, job[k].alive # 0, job[k].alive = ws[job[j].lease].dir.inc
                 PROVE  FALSE
      BY DEF CachesQuiet
    <2>1. JobInv(j) /\ JobInv(k)
      BY DEF WsInv
    <2>2. job[j].lease \in WsIds /\ ws[job[j].lease] # None
      BY <2>1 DEF JobInv, MemberInv, HolderInv, HoldPcs
    <2>3. k \in Members(job[k].lease) /\ job[k].lease \in WsIds /\ ~ws[job[k].lease].pending
          /\ job[k].pc \in {"started", "running", "retained", "protected", "recover"}
      BY <2>1 DEF JobInv, MemberInv, LiveInv
    <2>4. job[k].lease = job[j].lease
      BY <1>t, <2>2, <2>3 DEF OneInv, Members
    <2>5. k # j /\ k \in ws[job[j].lease].jobs
      BY <2>2, <2>3, <2>4 DEF Members
    <2> QED
      BY <2>1, <2>3, <2>4, <2>5 DEF JobInv, HolderInv
  <1> QED
    BY <1>1, <1>2, <1>3, <1>5, <1>6 DEF LeasesSafe, WorkspaceLeased

(***************************************************************************)
(* The record of a workspace names every job whose command may still run   *)
(* in it, so it is neither removed nor replaced under it; a settled job    *)
(* left nothing; an upload lands in the directory it was admitted for; and *)
(* caches are restored and published only where no command runs.           *)
(***************************************************************************)
THEOREM LeasesHold == WsSpec => []LeasesSafe
  <1>1. WsInv => LeasesSafe
    BY WsInvSafe
  <1> QED
    BY <1>1, WorkspacesInvariance, PTL

-----------------------------------------------------------------------------
(***************************************************************************)
(* Proofs about NamedCache, for any number of caches, jobs, uses and       *)
(* deaths of the daemon: CachesSafe.                                       *)
(*                                                                         *)
(* A job knows something of its cache from its pin, from the gate while it *)
(* holds it and from the lock while it is inside (UseInv); that is enough, *)
(* because whoever takes something away from a cache has seen it without   *)
(* pins under the lock, or holds its gate.  A walk of the files knows      *)
(* nothing for certain.  What it found is exact as long as the last use it *)
(* began with is still the recorded one (Unused), and who changes a cache  *)
(* has written a later one before.                                         *)
(***************************************************************************)

Things   == Contents \cup {NoJob}
Trees    == TreeJobs \cup {NoJob}
Entries  == [there : {TRUE}, tree : BOOLEAN, lease : DirJobs \cup {NoJob}, holders : SUBSET TreeJobs,
             used : Nat, bytes : Nat, unknown : BOOLEAN, data : Contents, gens : SUBSET TreeJobs,
             current : Trees]
BeforeTree == {"new", "create", "pin", "held", "copying", "run", "publish"}
TreePlaces == BeforeTree \cup {"generation", "retire", "settle", "unpin", "done", "crashed", "kept"}
DirPlaces  == {"crashed", "kept", "settle", "measured", "discard", "done"}
UseRecords == [pc : TreePlaces \cup DirPlaces, pin : BOOLEAN, stage : BOOLEAN,
               source : {"data", "tree"} \X Things, base : Things, copy : Things, size : Nat]

NCTypes ==
  /\ entry \in [Keys -> Entries \cup {Absent}] /\ ncJob \in [Jobs -> UseRecords]
  /\ mu \in Jobs \cup {NoJob} /\ ncGate \in [Keys -> Jobs \cup {NoJob}]
  /\ now \in 1 .. MaxTime /\ marker \in BOOLEAN /\ ncUp \in BOOLEAN
  /\ retiring \subseteq ncTombs

\* What a job's pin, the lock and the gate mean to it.
PlaceInv(j) ==
  /\ j \in TreeJobs => ncJob[j].pc \in TreePlaces
  /\ j \in DirJobs => ncJob[j].pc \in DirPlaces
  /\ ncJob[j].pc \in {"held", "copying", "run", "publish", "generation", "retire"} => ncJob[j].pin
  /\ ncJob[j].stage => /\ ncJob[j].pin /\ j \in TreeJobs
                       /\ ncJob[j].pc \in {"copying", "crashed", "settle", "kept"}
  /\ ncJob[j].pc \in {"create", "pin", "unpin"} => mu = j
  /\ ncJob[j].pc \in {"copying", "generation", "retire"} => ncGate[KeyOf[j]] = j
  /\ ncJob[j].pc \in {"generation", "retire"} => ncJob[j].copy # ncJob[j].base

\* What a job (j, in state x) knows of its cache (e), and which names are not yet taken.
EntryInv(j, x, e) ==
  /\ x.pin => e.there /\ IF j \in TreeJobs THEN j \in e.holders ELSE e.lease = j
  /\ x.pc = "create" => ~e.there
  /\ x.pc = "pin" => e.there /\ e.lease = NoJob /\ e.tree
  /\ x.pc = "unpin" => e.there /\ j \in e.holders /\ e.unknown
  /\ x.pc = "copying" /\ x.source[1] = "tree" => x.source[2] \in e.gens
  /\ x.pc = "generation" =>
       j \in e.gens /\ x.source[2] = e.current /\ x.source[2] # j
  /\ x.pc = "retire" => /\ e.current = j /\ j \in e.gens /\ x.source[2] # j
                               /\ x.source[2] \in e.gens \cup {NoJob}
  /\ x.pc = "measured" => e.there /\ e.lease = j /\ x.size = DataBytes(e)

NamesInv(j) ==
  /\ ncJob[j].pc \in BeforeTree =>
       \A k \in Keys : /\ entry[k].there => j \notin entry[k].gens
                       /\ GenTomb(k, j) \notin ncTombs
  /\ ncJob[j].pc = "new" => CreateTemp(KeyOf[j], j) \notin ncTombs
  /\ ncJob[j].pc = "create" => CreateTemp(KeyOf[j], j) \notin retiring

UseInv(j) == PlaceInv(j) /\ EntryInv(j, ncJob[j], entry[KeyOf[j]]) /\ NamesInv(j)

\* A recorded size is that of the data and of the current tree.
Exact(e) == ~Protected(e) /\ ~e.unknown /\ (marker \/ ~e.tree)
              => e.bytes = DataBytes(e) + NCBytes(CurrentTree(e))

\* One cache by itself.
SoundEntry(e) ==
  /\ e.lease = NoJob \/ e.holders = {}
  /\ e.current # NoJob => e.current \in e.gens
  /\ e.lease # NoJob => ~e.tree
  /\ ~e.tree => e.gens = {} /\ e.current = NoJob /\ e.holders = {}
  /\ e.used < now
  /\ Exact(e)
KeyInv(k) == entry[k].there =>
  SoundEntry(entry[k]) /\ \A g \in entry[k].gens : GenTomb(k, g) \notin ncTombs

\* The walk.  Visited are the caches it has a last use of and that are not to do.
ScanTypes ==
  /\ scan.kind \in {"gc", "measure"} /\ scan.pc \in {"next", "data", "trees", "record"}
  /\ scan.used \in [DOMAIN scan.used -> Nat] /\ DOMAIN scan.used \subseteq Keys
  /\ scan = [kind |-> scan.kind, todo |-> scan.todo, used |-> scan.used, size |-> scan.size,
             done |-> scan.done, damaged |-> scan.damaged, pc |-> scan.pc, key |-> scan.key]
  /\ scan.size = [k \in DOMAIN scan.used |-> scan.size[k]]
  /\ scan.todo \subseteq DOMAIN scan.used /\ scan.done \subseteq DOMAIN scan.used
  /\ scan.damaged \subseteq DOMAIN scan.used
  /\ scan.todo \cap scan.done = {}
  /\ scan.pc # "next" => scan.key \in DOMAIN scan.used \ scan.todo
  /\ scan.pc \in {"data", "trees"} => scan.key \notin scan.done

Unused(k) == entry[k].there /\ entry[k].used = scan.used[k]

WalkInv(k) ==
  /\ scan.used[k] < now
  /\ entry[k].there => scan.used[k] <= entry[k].used
  /\ Unused(k) =>
       /\ Idle(entry[k])
       /\ \A j \in Jobs : KeyOf[j] = k => ncJob[j].pc # "pin"
       /\ k \in scan.done => scan.size[k] = DataBytes(entry[k]) + NCBytes(CurrentTree(entry[k]))
       /\ scan.pc = "trees" /\ scan.key = k => scan.size[k] = DataBytes(entry[k])
       /\ scan.kind = "gc" /\ k \notin scan.todo => entry[k].gens = RetainedTrees(entry[k])

ScanInv == scan # NoScan => ScanTypes /\ \A k \in DOMAIN scan.used : WalkInv(k)

NCInv == NCTypes /\ (\A j \in Jobs : UseInv(j)) /\ (\A k \in Keys : KeyInv(k)) /\ ScanInv
----------------------------------------------------------------------------
LEMMA JobFacts ==
  /\ NoJob \notin Jobs /\ TreeJobs \subseteq Jobs /\ DirJobs \subseteq Jobs
  /\ Jobs = TreeJobs \cup DirJobs /\ TreeJobs \cap DirJobs = {}
  /\ KeyOf \in [Jobs -> Keys] /\ \A j \in Jobs : KeyOf[j] \in Keys
  /\ MaxTime \in Nat /\ MaxTime > 0
  BY NCAssumption DEF Jobs

LEMMA BytesNat == ASSUME NEW c PROVE NCBytes(c) \in Nat
  BY NCAssumption DEF NCBytes

LEMMA NoBytes == NCBytes(NoJob) = 0
  BY JobFacts DEF NCBytes

\* A cache is there or not.
LEMMA ThereIs ==
  ASSUME NCTypes, NEW k \in Keys
  PROVE  /\ entry[k].there \in BOOLEAN
         /\ entry[k].there => entry[k] \in Entries
         /\ ~entry[k].there => entry[k] = Absent
  <1>1. entry[k] \in Entries \/ entry[k] = Absent
    BY DEF NCTypes
  <1>2. Absent.there = FALSE
    BY DEF Absent
  <1>3. \A e \in Entries : e.there = TRUE
    BY DEF Entries
  <1> QED BY <1>1, <1>2, <1>3

----------------------------------------------------------------------------
(***************************************************************************)
(* A step of one job, as the others see it: what it may do to the entry,   *)
(* and which names it takes.                                               *)
(***************************************************************************)
Edits(j, e, f) ==
  /\ e.there /\ f.there
  /\ \A i \in Jobs \ {j} : i \in e.holders => i \in f.holders
  /\ e.lease = j \/ f.lease = e.lease
  /\ e.tree => f.tree
  /\ mu \notin {j, NoJob} /\ e.unknown => f.unknown
  /\ e.lease \notin {j, NoJob} => f.data = e.data
  /\ ncGate[KeyOf[j]] \notin {j, NoJob} => e.gens \subseteq f.gens /\ f.current = e.current
  /\ f.gens \subseteq e.gens \cup {j}

Alters(j, e, f) ==
  \/ f = e
  \/ Edits(j, e, f)
  \/ mu = j /\ ~e.there /\ f.there /\ f.gens = {}
  \/ mu = NoJob /\ e.there /\ e.lease = j /\ ~f.there

\* Names of trees that leave the cache, and of a cache that goes.
Dropped(k, e, f) ==
  {EntryTomb(k)} \cup {GenTomb(k, g) : g \in IF e.there /\ f.there THEN e.gens \ f.gens ELSE {}}

Only(j) ==
  LET k == KeyOf[j] IN
  /\ \A i \in Jobs \ {j} : ncJob'[i] = ncJob[i]
  /\ \A l \in Keys \ {k} : entry'[l] = entry[l]
  /\ Alters(j, entry[k], entry'[k])
  /\ \A l \in Keys : ncGate[l] \notin {j, NoJob} => ncGate'[l] = ncGate[l]
  /\ mu \notin {j, NoJob} => mu' = mu
  /\ ncTombs' \subseteq ncTombs \cup {CreateTemp(k, j)} \cup Dropped(k, entry[k], entry'[k])
  /\ retiring' \subseteq retiring \cup Dropped(k, entry[k], entry'[k])
  /\ now' >= now /\ marker' = marker

\* The names differ.
LEMMA Names ==
  ASSUME NEW k, NEW l, NEW e, NEW f, NEW i
  PROVE  /\ CreateTemp(l, i) \notin Dropped(k, e, f)
         /\ GenTomb(l, i) \in Dropped(k, e, f)
              => l = k /\ e.there /\ f.there /\ i \in e.gens /\ i \notin f.gens
  BY DEF Dropped, EntryTomb, GenTomb, CreateTemp

LEMMA OthersKept ==
  ASSUME NCInv, NCTypes', NEW j \in Jobs, Only(j), NEW i \in Jobs, i # j
  PROVE  UseInv(i)'
  <1>0. /\ KeyOf[i] \in Keys /\ KeyOf[j] \in Keys /\ i # NoJob /\ j # NoJob
        /\ NCTypes /\ UseInv(i) /\ UseInv(j) /\ KeyInv(KeyOf[i]) /\ KeyInv(KeyOf[j])
    BY JobFacts DEF NCInv
  <1>1. ncJob'[i] = ncJob[i]
    BY DEF Only
  <1>2. PlaceInv(i)'
    BY <1>0, <1>1 DEF PlaceInv, UseInv, Only
  <1>3. EntryInv(i, ncJob'[i], entry'[KeyOf[i]])
    <2>1. CASE entry'[KeyOf[i]] = entry[KeyOf[i]]
      BY <1>0, <1>1, <2>1 DEF UseInv
    <2>2. CASE entry'[KeyOf[i]] # entry[KeyOf[i]]
      <3>1. KeyOf[i] = KeyOf[j]
        BY <1>0, <2>2 DEF Only
      <3> DEFINE e == entry[KeyOf[j]]
                 f == entry'[KeyOf[j]]
      <3>2. Alters(j, e, f) /\ f # e /\ EntryInv(i, ncJob[i], e) /\ PlaceInv(i) /\ (e.there => SoundEntry(e))
        BY <1>0, <2>2, <3>1 DEF Only, UseInv, KeyInv
      <3> SUFFICES EntryInv(i, ncJob[i], f)
        BY <1>1, <3>1
      <3> HIDE DEF e, f
      <3>4. CASE Edits(j, e, f)
        <4>1. ncJob[i].pin => f.there /\ IF i \in TreeJobs THEN i \in f.holders ELSE f.lease = i
          BY <1>0, <3>2, <3>4 DEF Edits, EntryInv
        <4>2. ncJob[i].pc # "create" /\ (ncJob[i].pc = "pin" => f.there /\ f.lease = NoJob /\ f.tree)
          BY <1>0, <3>2, <3>4 DEF Edits, EntryInv
        <4>3. ncJob[i].pc = "unpin" => f.there /\ i \in f.holders /\ f.unknown
          BY <1>0, <3>2, <3>4 DEF Edits, EntryInv, PlaceInv
        <4>4. ncJob[i].pc \in {"copying", "generation", "retire"} => e.gens \subseteq f.gens /\ f.current = e.current
          BY <1>0, <3>1, <3>2, <3>4 DEF Edits, PlaceInv
        <4>5. ncJob[i].pc = "measured" => f.there /\ f.lease = i /\ f.data = e.data
          BY <1>0, <3>2, <3>4 DEF Edits, EntryInv
        <4> QED BY <3>2, <4>1, <4>2, <4>3, <4>4, <4>5 DEF EntryInv, DataBytes
      <3>5. CASE mu = j /\ ~e.there /\ f.there /\ f.gens = {}
        <4>1. ~ncJob[i].pin /\ ncJob[i].pc \notin {"create", "pin", "unpin", "measured"}
          BY <1>0, <3>2, <3>5 DEF EntryInv, PlaceInv
        <4>2. ncJob[i].pc \notin {"copying", "generation", "retire"}
          BY <3>2, <4>1 DEF PlaceInv
        <4> QED BY <1>1, <4>1, <4>2 DEF EntryInv
      <3>6. CASE mu = NoJob /\ e.there /\ e.lease = j /\ ~f.there
        <4>1. ncJob[i].pc \notin {"create", "pin", "unpin", "measured"}
          BY <1>0, <3>2, <3>6 DEF EntryInv, PlaceInv
        <4>2. ~ncJob[i].pin
          BY <1>0, <3>2, <3>6 DEF EntryInv, SoundEntry
        <4>3. ncJob[i].pc \notin {"copying", "generation", "retire"}
          BY <3>2, <4>2 DEF PlaceInv
        <4> QED BY <1>1, <4>1, <4>2, <4>3 DEF EntryInv
      <3> QED BY <3>2, <3>4, <3>5, <3>6 DEF Alters
    <2> QED BY <2>1, <2>2
  <1>4. NamesInv(i)'
    <2>1. NamesInv(i)
      BY <1>0 DEF UseInv
    <2>2. ASSUME ncJob[i].pc \in BeforeTree, NEW k \in Keys
          PROVE  /\ entry'[k].there => i \notin entry'[k].gens
                 /\ GenTomb(k, i) \notin ncTombs'
      <3>1. (entry[k].there => i \notin entry[k].gens) /\ GenTomb(k, i) \notin ncTombs
        BY <2>1, <2>2 DEF NamesInv
      <3>2. entry'[k].there => i \notin entry'[k].gens
        <4>1. CASE k # KeyOf[j]
          BY <3>1, <4>1 DEF Only
        <4>2. CASE k = KeyOf[j]
          BY <3>1, <4>2 DEF Only, Alters, Edits
        <4> QED BY <4>1, <4>2
      <3>3. GenTomb(k, i) # CreateTemp(KeyOf[j], j)
        BY DEF GenTomb, CreateTemp
      <3>4. GenTomb(k, i) \notin Dropped(KeyOf[j], entry[KeyOf[j]], entry'[KeyOf[j]])
        BY <3>1, Names
      <3> QED BY <3>1, <3>2, <3>3, <3>4 DEF Only
    <2>3. ncJob[i].pc = "new" => CreateTemp(KeyOf[i], i) \notin ncTombs'
      <3>1. CreateTemp(KeyOf[i], i) \notin Dropped(KeyOf[j], entry[KeyOf[j]], entry'[KeyOf[j]])
        BY Names
      <3>2. CreateTemp(KeyOf[i], i) # CreateTemp(KeyOf[j], j)
        BY DEF CreateTemp
      <3> QED BY <2>1, <3>1, <3>2 DEF Only, NamesInv
    <2>4. ncJob[i].pc = "create" => CreateTemp(KeyOf[i], i) \notin retiring'
      <3>1. CreateTemp(KeyOf[i], i) \notin Dropped(KeyOf[j], entry[KeyOf[j]], entry'[KeyOf[j]])
        BY Names
      <3> QED BY <2>1, <3>1 DEF Only, NamesInv
    <2>5. \A k : GenTomb(k, i)' = GenTomb(k, i) /\ CreateTemp(k, i)' = CreateTemp(k, i)
      BY DEF GenTomb, CreateTemp
    <2> QED BY <1>1, <2>2, <2>3, <2>4, <2>5 DEF NamesInv
  <1> QED BY <1>2, <1>3, <1>4 DEF UseInv

\* Caches of other keys, and the sizes of a walk, as long as the cache that changes
\* is one the walk knows to be in use.
LEMMA OtherKeys ==
  ASSUME NCInv, NCTypes', NEW j \in Jobs, Only(j), NEW l \in Keys, l # KeyOf[j]
  PROVE  KeyInv(l)'
  <1>0. KeyInv(l) /\ NCTypes /\ entry'[l] = entry[l] /\ now' >= now /\ marker' = marker
    BY DEF NCInv, Only
  <1>1. CASE ~entry[l].there
    BY <1>0, <1>1 DEF KeyInv
  <1>2. CASE entry[l].there
    <2>1. entry[l] \in Entries /\ SoundEntry(entry[l])
      BY <1>0, <1>2, ThereIs DEF KeyInv
    <2>2. SoundEntry(entry[l])'
      <3>1. entry[l].used \in Nat /\ now \in Nat /\ now' \in Nat
        BY <1>0, <2>1, JobFacts DEF Entries, NCTypes
      <3>2. entry[l].used < now'
        BY <1>0, <2>1, <3>1 DEF SoundEntry
      <3>3. Exact(entry[l])'
        BY <1>0, <2>1 DEF SoundEntry, Exact, Protected, DataBytes, CurrentTree
      <3> QED BY <1>0, <2>1, <3>2, <3>3 DEF SoundEntry
    <2>3. ASSUME NEW g \in entry[l].gens PROVE GenTomb(l, g) \notin ncTombs'
      <3>1. GenTomb(l, g) \notin ncTombs
        BY <1>0, <1>2 DEF KeyInv
      <3>2. GenTomb(l, g) # CreateTemp(KeyOf[j], j)
        BY DEF GenTomb, CreateTemp
      <3>3. GenTomb(l, g) \notin Dropped(KeyOf[j], entry[KeyOf[j]], entry'[KeyOf[j]])
        BY Names
      <3> QED BY <3>1, <3>2, <3>3 DEF Only
    <2>4. \A g : GenTomb(l, g)' = GenTomb(l, g)
      BY DEF GenTomb
    <2> QED BY <1>0, <2>2, <2>3, <2>4 DEF KeyInv
  <1> QED BY <1>1, <1>2, <1>0, ThereIs

\* The cache is as it was, or gone, or used later than any walk knows, or one the
\* walk knows to be in use.
Later(j) ==
  LET e == entry[KeyOf[j]] f == entry'[KeyOf[j]] IN
  \/ f = e /\ (ncJob'[j].pc = "pin" => ncJob[j].pc = "pin")
  \/ ~f.there
  \/ f.used = now
  \/ e.there /\ f.used = e.used /\ (Protected(e) \/ ncJob[j].pc = "pin")

LEMMA WalkKept ==
  ASSUME NCInv, NCTypes', NEW j \in Jobs, Only(j), Later(j), scan' = scan, scan # NoScan,
         NEW k \in DOMAIN scan.used
  PROVE  WalkInv(k)'
  <1>0. /\ NCTypes /\ ScanTypes /\ WalkInv(k) /\ k \in Keys /\ KeyOf[j] \in Keys
        /\ scan.used[k] \in Nat /\ now \in Nat /\ now' \in Nat /\ now' >= now
    BY JobFacts DEF NCInv, ScanInv, ScanTypes, NCTypes, Only
  <1>1. scan.used[k] < now'
    BY <1>0 DEF WalkInv
  <1>2. CASE entry'[k] = entry[k] /\ (k = KeyOf[j] => (ncJob'[j].pc = "pin" => ncJob[j].pc = "pin"))
    <2>1. Unused(k)' = Unused(k)
      BY <1>2 DEF Unused
    <2>2. ASSUME NEW i \in Jobs, KeyOf[i] = k, ncJob'[i].pc = "pin" PROVE ncJob[i].pc = "pin"
      BY <1>2, <2>2 DEF Only
    <2>3. Idle(entry[k])' = Idle(entry[k])
      BY <1>2 DEF Idle, Protected
    <2>4. /\ (DataBytes(entry[k]) + NCBytes(CurrentTree(entry[k])))' = DataBytes(entry[k]) + NCBytes(CurrentTree(entry[k]))
          /\ DataBytes(entry[k])' = DataBytes(entry[k])
          /\ (entry[k].gens = RetainedTrees(entry[k]))' = (entry[k].gens = RetainedTrees(entry[k]))
      BY <1>2 DEF DataBytes, NCBytes, CurrentTree, RetainedTrees
    <2> QED BY <1>0, <1>1, <1>2, <2>1, <2>2, <2>3, <2>4 DEF WalkInv
  <1>3. CASE ~ (entry'[k] = entry[k] /\ (k = KeyOf[j] => (ncJob'[j].pc = "pin" => ncJob[j].pc = "pin")))
    <2>1. k = KeyOf[j]
      BY <1>0, <1>3 DEF Only
    <2>2. \/ ~entry'[k].there
          \/ entry'[k].used = now
          \/ entry[k].there /\ entry'[k].used = entry[k].used /\ (Protected(entry[k]) \/ ncJob[j].pc = "pin")
      BY <1>3, <2>1 DEF Later
    <2>3. (entry'[k].there => scan.used[k] <= entry'[k].used) /\ ~Unused(k)'
      <3>1. CASE ~entry'[k].there
        BY <3>1 DEF Unused
      <3>2. CASE entry'[k].used = now
        BY <1>0, <3>2 DEF Unused, WalkInv
      <3>3. CASE entry[k].there /\ entry'[k].used = entry[k].used /\ (Protected(entry[k]) \/ ncJob[j].pc = "pin")
        <4>1. ~Unused(k)
          BY <1>0, <2>1, <3>3 DEF WalkInv, Idle
        <4> QED BY <1>0, <3>3, <4>1 DEF Unused, WalkInv
      <3> QED BY <2>2, <3>1, <3>2, <3>3
    <2> QED BY <1>1, <2>3 DEF WalkInv
  <1> QED BY <1>2, <1>3

LEMMA JobStepKeeps ==
  ASSUME NCInv, NCTypes', NEW j \in Jobs, Only(j), Later(j), scan' = scan,
         UseInv(j)', KeyInv(KeyOf[j])'
  PROVE  NCInv'
  <1>1. \A i \in Jobs : UseInv(i)'
    BY OthersKept
  <1>2. \A k \in Keys : KeyInv(k)'
    BY OtherKeys
  <1>3. ScanInv'
    <2>1. CASE scan = NoScan
      BY <2>1 DEF ScanInv, NoScan
    <2>2. CASE scan # NoScan
      <3>1. ScanTypes'
        BY <2>2 DEF NCInv, ScanInv, ScanTypes
      <3>2. \A k \in DOMAIN scan.used : WalkInv(k)'
        BY <2>2, WalkKept
      <3> QED BY <3>1, <3>2 DEF ScanInv
    <2> QED BY <2>1, <2>2
  <1> QED BY <1>1, <1>2, <1>3 DEF NCInv

\* Where neither entries nor names change only the job itself has to be looked at.
LEMMA QuietStep ==
  ASSUME NCInv, NEW j \in Jobs, NEW x \in UseRecords,
         ncJob' = [ncJob EXCEPT ![j] = x],
         UNCHANGED <<entry, ncTombs, retiring, marker, ncUp, scan, now>>,
         x.pc # "pin" \/ ncJob[j].pc = "pin",
         mu' \in Jobs \cup {NoJob}, mu \notin {j, NoJob} => mu' = mu,
         ncGate' \in [Keys -> Jobs \cup {NoJob}],
         \A l \in Keys : ncGate[l] \notin {j, NoJob} => ncGate'[l] = ncGate[l],
         PlaceInv(j)', EntryInv(j, x, entry[KeyOf[j]]), NamesInv(j)'
  PROVE  NCInv'
  <1>0. NCTypes /\ KeyOf[j] \in Keys
    BY JobFacts DEF NCInv
  <1>1. ncJob' \in [Jobs -> UseRecords] /\ ncJob'[j] = x /\ \A i \in Jobs \ {j} : ncJob'[i] = ncJob[i]
    BY <1>0 DEF NCTypes
  <1>2. NCTypes'
    BY <1>0, <1>1 DEF NCTypes
  <1>3. Only(j)
    BY <1>0, <1>1, JobFacts DEF Only, Alters, NCTypes
  <1>4. Later(j)
    BY <1>1 DEF Later
  <1>5. UseInv(j)'
    BY <1>1 DEF UseInv
  <1>6. KeyInv(KeyOf[j])'
    <2>1. KeyInv(KeyOf[j])
      BY <1>0 DEF NCInv
    <2>2. KeyInv(KeyOf[j])' = KeyInv(KeyOf[j])
      BY DEF KeyInv, SoundEntry, Exact, Protected, DataBytes, CurrentTree, NCBytes, GenTomb
    <2> QED BY <2>1, <2>2
  <1> QED BY <1>2, <1>3, <1>4, <1>5, <1>6, JobStepKeeps

----------------------------------------------------------------------------
\* The steps of a job that change neither its cache nor a name.
LEMMA FreshIs ==
  ASSUME NEW p \in TreePlaces \cup DirPlaces, NEW b \in BOOLEAN
  PROVE  /\ NCFresh(p, b) \in UseRecords
         /\ NCFresh(p, b).pc = p /\ NCFresh(p, b).pin = b /\ NCFresh(p, b).stage = FALSE
  BY DEF NCFresh, UseRecords, Things, Contents

LEMMA JobIs ==
  ASSUME NCInv, NEW j \in Jobs
  PROVE  /\ ncJob[j] \in UseRecords /\ KeyOf[j] \in Keys /\ j # NoJob
         /\ ncJob \in [Jobs -> UseRecords]
         /\ PlaceInv(j) /\ EntryInv(j, ncJob[j], entry[KeyOf[j]]) /\ NamesInv(j)
         /\ KeyInv(KeyOf[j])
         /\ entry[KeyOf[j]].there => entry[KeyOf[j]] \in Entries /\ SoundEntry(entry[KeyOf[j]])
  <1>1. NCTypes /\ UseInv(j) /\ KeyOf[j] \in Keys /\ KeyInv(KeyOf[j])
    BY JobFacts DEF NCInv
  <1>2. entry[KeyOf[j]].there => entry[KeyOf[j]] \in Entries
    BY <1>1, ThereIs
  <1> QED BY <1>1, <1>2, JobFacts DEF UseInv, NCTypes, KeyInv

\* Only the place changes.
LEMMA GotoIs ==
  ASSUME NCInv, NEW j \in Jobs, NEW p \in TreePlaces \cup DirPlaces, Goto(j, p)
  PROVE  \E x \in UseRecords : /\ ncJob' = [ncJob EXCEPT ![j] = x]
                               /\ x = [ncJob[j] EXCEPT !.pc = p]
                               /\ x.pc = p /\ x.pin = ncJob[j].pin /\ x.stage = ncJob[j].stage
                               /\ x.source = ncJob[j].source /\ x.base = ncJob[j].base
                               /\ x.copy = ncJob[j].copy /\ x.size = ncJob[j].size
  <1>1. ncJob[j] \in UseRecords /\ ncJob \in [Jobs -> UseRecords]
    BY JobIs
  <1>2. PICK x : x = [ncJob[j] EXCEPT !.pc = p]
    OBVIOUS
  <1>3. x \in UseRecords
    BY <1>1, <1>2 DEF UseRecords
  <1>4. /\ x.pc = p /\ x.pin = ncJob[j].pin /\ x.stage = ncJob[j].stage
        /\ x.source = ncJob[j].source /\ x.base = ncJob[j].base
        /\ x.copy = ncJob[j].copy /\ x.size = ncJob[j].size
    BY <1>1, <1>2 DEF UseRecords
  <1>5. ncJob' = [ncJob EXCEPT ![j] = x]
    BY <1>2 DEF Goto
  <1> QED BY <1>2, <1>3, <1>4, <1>5

LEMMA FinishQuiet ==
  ASSUME NCInv, NEW j \in Jobs, NCFinish(j), mu' = mu,
         UNCHANGED <<entry, ncTombs, retiring, marker, ncUp, scan, now>>,
         ncGate' \in [Keys -> Jobs \cup {NoJob}],
         \A l \in Keys : ncGate[l] \notin {j, NoJob} => ncGate'[l] = ncGate[l]
  PROVE  NCInv'
  <1>0. /\ ncJob[j] \in UseRecords /\ ncJob \in [Jobs -> UseRecords]
        /\ EntryInv(j, ncJob[j], entry[KeyOf[j]]) /\ NCTypes
    BY JobIs DEF NCInv
  <1>1. PICK x : x = NCFresh("settle", ncJob[j].pin)
    OBVIOUS
  <1>2. x \in UseRecords /\ x.pc = "settle" /\ x.pin = ncJob[j].pin /\ x.stage = FALSE
    <2>1. ncJob[j].pin \in BOOLEAN /\ "settle" \in TreePlaces \cup DirPlaces
      BY <1>0 DEF UseRecords, DirPlaces
    <2> QED BY <1>1, <2>1, FreshIs
  <1>3. ncJob' = [ncJob EXCEPT ![j] = x] /\ ncJob'[j] = x
    BY <1>0, <1>1 DEF NCFinish
  <1>4. PlaceInv(j)' /\ NamesInv(j)'
    BY <1>2, <1>3 DEF PlaceInv, NamesInv, TreePlaces, DirPlaces, BeforeTree
  <1>5. EntryInv(j, x, entry[KeyOf[j]])
    BY <1>0, <1>2 DEF EntryInv
  <1>6. mu' \in Jobs \cup {NoJob}
    BY <1>0 DEF NCTypes
  <1> QED BY <1>2, <1>3, <1>4, <1>5, <1>6, QuietStep

LEMMA AcquireTreeBusyKeeps ==
  ASSUME NCInv, NEW j \in Jobs, AcquireTreeBusy(j)
  PROVE  NCInv'
  <1>0. /\ NCTypes /\ PlaceInv(j) /\ EntryInv(j, ncJob[j], entry[KeyOf[j]]) /\ ncJob[j].pc = "new"
        /\ ncJob \in [Jobs -> UseRecords] /\ j \in TreeJobs /\ j \notin DirJobs
    BY JobIs, JobFacts DEF NCInv, AcquireTreeBusy
  <1>1. PICK x \in UseRecords : /\ ncJob' = [ncJob EXCEPT ![j] = x]
                                /\ x.pc = "settle" /\ x.pin = ncJob[j].pin /\ x.stage = ncJob[j].stage
    BY GotoIs DEF AcquireTreeBusy, DirPlaces
  <1>2. ncJob'[j] = x
    BY <1>0, <1>1
  <1>3. PlaceInv(j)' /\ NamesInv(j)'
    BY <1>0, <1>1, <1>2 DEF PlaceInv, NamesInv, TreePlaces, BeforeTree
  <1>4. EntryInv(j, x, entry[KeyOf[j]])
    BY <1>0, <1>1 DEF EntryInv
  <1>5. /\ UNCHANGED <<entry, ncTombs, retiring, marker, ncUp, scan, now, mu, ncGate>>
        /\ mu \in Jobs \cup {NoJob} /\ ncGate \in [Keys -> Jobs \cup {NoJob}]
    BY <1>0 DEF AcquireTreeBusy, NCTypes
  <1> QED BY <1>1, <1>3, <1>4, <1>5, QuietStep

\* RestoreTree copies the current generation, or the data of an older cache.
LEMMA RestoreStartKeeps ==
  ASSUME NCInv, NEW j \in Jobs, RestoreStart(j)
  PROVE  NCInv'
  <1>0. /\ NCTypes /\ PlaceInv(j) /\ EntryInv(j, ncJob[j], entry[KeyOf[j]]) /\ NamesInv(j)
        /\ ncJob[j] \in UseRecords /\ ncJob[j].pc = "held" /\ ncJob[j].pin
        /\ ncJob \in [Jobs -> UseRecords] /\ KeyOf[j] \in Keys /\ j # NoJob
    BY JobIs DEF NCInv, RestoreStart, PlaceInv
  <1>1. j \in TreeJobs /\ j \notin DirJobs
    BY <1>0, JobFacts DEF PlaceInv, DirPlaces
  <1>2. PICK e : e = entry[KeyOf[j]]
    OBVIOUS
  <1>3. e \in Entries /\ EntryInv(j, ncJob[j], e)
    BY <1>0, <1>1, <1>2, ThereIs DEF EntryInv
  <1>4. PICK s : s = IF CurrentTree(e) # NoJob THEN <<"tree", CurrentTree(e)>> ELSE <<"data", e.data>>
    OBVIOUS
  <1>5. s \in {"data", "tree"} \X Things /\ (s[1] = "tree" => s[2] \in e.gens)
    <2>1. CASE CurrentTree(e) # NoJob
      <3>1. CurrentTree(e) \in e.gens /\ CurrentTree(e) \in Things
        BY <1>3, <2>1, JobFacts DEF CurrentTree, Entries, Things, Contents
      <3> QED BY <1>4, <2>1, <3>1
    <2>2. CASE CurrentTree(e) = NoJob
      <3>1. e.data \in Things
        BY <1>3 DEF Entries, Things
      <3> QED BY <1>4, <2>2, <3>1
    <2> QED BY <2>1, <2>2
  <1>6. PICK x : x = [ncJob[j] EXCEPT !.pc = "copying", !.stage = TRUE, !.source = s]
    OBVIOUS
  <1>7. x \in UseRecords /\ x.pc = "copying" /\ x.pin = ncJob[j].pin /\ x.stage = TRUE /\ x.source = s
    BY <1>0, <1>5, <1>6 DEF UseRecords, TreePlaces, BeforeTree
  <1>8. ncJob' = [ncJob EXCEPT ![j] = x] /\ ncJob'[j] = x
    BY <1>0, <1>2, <1>4, <1>6 DEF RestoreStart
  <1>9. /\ ncGate'[KeyOf[j]] = j /\ ncGate' \in [Keys -> Jobs \cup {NoJob}]
        /\ \A l \in Keys : ncGate[l] \notin {j, NoJob} => ncGate'[l] = ncGate[l]
    BY <1>0 DEF RestoreStart, LockTree, NCTypes
  <1>10. PlaceInv(j)'
    BY <1>0, <1>1, <1>7, <1>8, <1>9 DEF PlaceInv, TreePlaces, BeforeTree
  <1>11. /\ UNCHANGED <<entry, ncTombs, retiring, marker, ncUp, scan, now, mu>>
         /\ mu \in Jobs \cup {NoJob}
    BY <1>0 DEF RestoreStart, NCTypes
  <1>12. NamesInv(j)'
    BY <1>0, <1>7, <1>8, <1>11 DEF NamesInv, BeforeTree, GenTomb, CreateTemp
  <1>13. EntryInv(j, x, entry[KeyOf[j]])
    BY <1>0, <1>2, <1>5, <1>7 DEF EntryInv
  <1> QED BY <1>7, <1>8, <1>9, <1>10, <1>11, <1>12, <1>13, QuietStep

LEMMA NCRestoreExposeKeeps ==
  ASSUME NCInv, NEW j \in Jobs, NCRestoreExpose(j)
  PROVE  NCInv'
  <1>0. /\ NCTypes /\ PlaceInv(j) /\ EntryInv(j, ncJob[j], entry[KeyOf[j]]) /\ NamesInv(j)
        /\ ncJob[j] \in UseRecords /\ ncJob[j].pc = "copying" /\ ncJob[j].pin
        /\ ncJob \in [Jobs -> UseRecords] /\ KeyOf[j] \in Keys /\ j # NoJob
        /\ ncGate[KeyOf[j]] = j
    BY JobIs DEF NCInv, NCRestoreExpose, PlaceInv
  <1>1. j \in TreeJobs /\ j \notin DirJobs
    BY <1>0, JobFacts DEF PlaceInv, DirPlaces
  <1>2. PICK s \in Things : s = ncJob[j].source[2]
    BY <1>0 DEF UseRecords
  <1>3. PICK x : x = [NCFresh("run", TRUE) EXCEPT !.base = s, !.copy = s]
    OBVIOUS
  <1>4. x \in UseRecords /\ x.pc = "run" /\ x.pin = TRUE /\ x.stage = FALSE
    <2>1. NCFresh("run", TRUE) \in UseRecords /\ NCFresh("run", TRUE).pc = "run"
          /\ NCFresh("run", TRUE).pin = TRUE /\ NCFresh("run", TRUE).stage = FALSE
      BY FreshIs DEF TreePlaces, BeforeTree
    <2> QED BY <1>2, <1>3, <2>1 DEF UseRecords
  <1>5. ncJob' = [ncJob EXCEPT ![j] = x] /\ ncJob'[j] = x
    BY <1>0, <1>2, <1>3 DEF NCRestoreExpose
  <1>6. /\ ncGate' \in [Keys -> Jobs \cup {NoJob}]
        /\ \A l \in Keys : ncGate[l] \notin {j, NoJob} => ncGate'[l] = ncGate[l]
    BY <1>0 DEF NCRestoreExpose, NCTypes
  <1>7. PlaceInv(j)'
    BY <1>0, <1>1, <1>4, <1>5 DEF PlaceInv, TreePlaces, BeforeTree
  <1>8. /\ UNCHANGED <<entry, ncTombs, retiring, marker, ncUp, scan, now, mu>>
        /\ mu \in Jobs \cup {NoJob}
    BY <1>0 DEF NCRestoreExpose, NCTypes
  <1>9. NamesInv(j)'
    BY <1>0, <1>4, <1>5, <1>8 DEF NamesInv, BeforeTree, GenTomb, CreateTemp
  <1>10. EntryInv(j, x, entry[KeyOf[j]])
    BY <1>0, <1>4 DEF EntryInv
  <1> QED BY <1>4, <1>5, <1>6, <1>7, <1>8, <1>9, <1>10, QuietStep

\* The command's steps, and the ends that leave the cache alone.
LEMMA RunKeeps ==
  ASSUME NCInv, NEW j \in Jobs, RestoreFail(j) \/ (\E b \in BOOLEAN : Exit(j, b)) \/ PublishSkip(j) \/ Change(j)
  PROVE  NCInv'
  <1>0. /\ NCTypes /\ PlaceInv(j) /\ EntryInv(j, ncJob[j], entry[KeyOf[j]]) /\ NamesInv(j)
        /\ ncJob[j] \in UseRecords
        /\ ncJob \in [Jobs -> UseRecords] /\ KeyOf[j] \in Keys /\ j # NoJob
    BY JobIs DEF NCInv
  <1>1. CASE RestoreFail(j)
    <2>1. /\ NCFinish(j) /\ mu' = mu
          /\ UNCHANGED <<entry, ncTombs, retiring, marker, ncUp, scan, now>>
          /\ ncGate' = [k \in Keys |-> IF ncGate[k] = j THEN NoJob ELSE ncGate[k]]
      BY <1>1 DEF RestoreFail
    <2>2. /\ ncGate' \in [Keys -> Jobs \cup {NoJob}]
          /\ \A l \in Keys : ncGate[l] \notin {j, NoJob} => ncGate'[l] = ncGate[l]
      BY <1>0, <2>1 DEF NCTypes
    <2> QED BY <2>1, <2>2, FinishQuiet
  <1>2. ASSUME NCFinish(j), UNCHANGED <<entry, ncTombs, retiring, mu, ncGate, marker, ncUp, scan, now>>
        PROVE  NCInv'
    BY <1>0, <1>2, FinishQuiet DEF NCTypes
  <1>3. CASE PublishSkip(j)
    BY <1>2, <1>3 DEF PublishSkip
  <1>4. CASE Exit(j, FALSE)
    BY <1>2, <1>4 DEF Exit
  <1>5. ASSUME NEW x \in UseRecords, ncJob' = [ncJob EXCEPT ![j] = x], x.pc \in {"run", "publish"},
               x.pin = ncJob[j].pin, x.stage = ncJob[j].stage, ncJob[j].pc = "run",
               UNCHANGED <<entry, ncTombs, retiring, mu, ncGate, marker, ncUp, scan, now>>
        PROVE  NCInv'
    <2>1. ncJob'[j] = x /\ j \in TreeJobs /\ j \notin DirJobs
      BY <1>0, <1>5, JobFacts DEF PlaceInv, DirPlaces
    <2>2. PlaceInv(j)'
      BY <1>0, <1>5, <2>1 DEF PlaceInv, TreePlaces, BeforeTree
    <2>3. NamesInv(j)'
      BY <1>0, <1>5, <2>1 DEF NamesInv, BeforeTree, GenTomb, CreateTemp
    <2>4. EntryInv(j, x, entry[KeyOf[j]])
      BY <1>0, <1>5 DEF EntryInv
    <2>5. mu \in Jobs \cup {NoJob} /\ ncGate \in [Keys -> Jobs \cup {NoJob}]
      BY <1>0 DEF NCTypes
    <2> QED BY <1>5, <2>2, <2>3, <2>4, <2>5, QuietStep
  <1>6. CASE Exit(j, TRUE)
    <2>1. Goto(j, "publish") /\ ncJob[j].pc = "run"
          /\ UNCHANGED <<entry, ncTombs, retiring, mu, ncGate, marker, ncUp, scan, now>>
      BY <1>6 DEF Exit
    <2> QED BY <1>5, <2>1, GotoIs DEF TreePlaces, BeforeTree
  <1>7. CASE Change(j)
    <2>1. PICK x : x = [ncJob[j] EXCEPT !.copy = j]
      OBVIOUS
    <2>2. x \in UseRecords /\ x.pc = ncJob[j].pc /\ x.pin = ncJob[j].pin /\ x.stage = ncJob[j].stage
      BY <1>0, <2>1 DEF UseRecords, Things, Contents
    <2>3. ncJob' = [ncJob EXCEPT ![j] = x] /\ ncJob[j].pc = "run"
          /\ UNCHANGED <<entry, ncTombs, retiring, mu, ncGate, marker, ncUp, scan, now>>
      BY <1>7, <2>1 DEF Change
    <2> QED BY <1>5, <2>2, <2>3
  <1>8. ASSUME NEW b \in BOOLEAN, Exit(j, b) PROVE NCInv'
    <2>1. b = TRUE \/ b = FALSE
      OBVIOUS
    <2> QED BY <1>4, <1>6, <1>8, <2>1
  <1> QED BY <1>1, <1>3, <1>7, <1>8

\* Settling begins: nothing of the job is left, or its directory is measured.
LEMMA SettlesQuietly ==
  ASSUME NCInv, NEW j \in Jobs, NEW x \in UseRecords, ncJob' = [ncJob EXCEPT ![j] = x],
         UNCHANGED <<entry, ncTombs, retiring, mu, ncGate, marker, ncUp, scan, now>>,
         x.pin = ncJob[j].pin, x.stage = ncJob[j].stage,
         \/ ncJob[j].pc = "crashed" /\ x.pc \in {"settle", "kept"}
         \/ ncJob[j].pc = "settle" /\ x.pc = "done" /\ ~x.stage
         \/ ncJob[j].pc \in {"settle", "measured"} /\ j \in DirJobs /\ x.pc = "discard"
         \/ /\ ncJob[j].pc = "settle" /\ j \in DirJobs /\ x.pc = "measured"
            /\ entry[KeyOf[j]].there /\ entry[KeyOf[j]].lease = j /\ x.size = DataBytes(entry[KeyOf[j]])
  PROVE  NCInv'
  <1>0. /\ NCTypes /\ PlaceInv(j) /\ EntryInv(j, ncJob[j], entry[KeyOf[j]]) /\ NamesInv(j)
        /\ ncJob \in [Jobs -> UseRecords] /\ KeyOf[j] \in Keys /\ j # NoJob
    BY JobIs DEF NCInv
  <1>1. ncJob'[j] = x
    BY <1>0
  <1>2. j \in TreeJobs \/ j \in DirJobs
    BY JobFacts
  <1>3. PlaceInv(j)'
    BY <1>0, <1>1, <1>2, JobFacts DEF PlaceInv, TreePlaces, DirPlaces
  <1>4. NamesInv(j)'
    BY <1>0, <1>1 DEF NamesInv, BeforeTree
  <1>5. EntryInv(j, x, entry[KeyOf[j]])
    BY <1>0 DEF EntryInv
  <1>6. mu \in Jobs \cup {NoJob} /\ ncGate \in [Keys -> Jobs \cup {NoJob}]
    BY <1>0 DEF NCTypes
  <1> QED BY <1>3, <1>4, <1>5, <1>6, QuietStep

LEMMA RecoverJobKeeps ==
  ASSUME NCInv, NEW j \in Jobs, NEW b \in BOOLEAN, RecoverJob(j, b)
  PROVE  NCInv'
  <1>1. /\ Goto(j, IF b THEN "settle" ELSE "kept") /\ ncJob[j].pc = "crashed"
        /\ UNCHANGED <<entry, ncTombs, retiring, mu, ncGate, marker, ncUp, scan, now>>
    BY DEF RecoverJob
  <1>2. (IF b THEN "settle" ELSE "kept") \in {"settle", "kept"} /\ {"settle", "kept"} \subseteq DirPlaces
    BY DEF DirPlaces
  <1>3. PICK x \in UseRecords : /\ ncJob' = [ncJob EXCEPT ![j] = x]
                                /\ x.pc \in {"settle", "kept"} /\ x.pin = ncJob[j].pin /\ x.stage = ncJob[j].stage
    BY <1>1, <1>2, GotoIs
  <1> QED BY <1>1, <1>3, SettlesQuietly

LEMMA ReleaseMeasureKeeps ==
  ASSUME NCInv, NEW j \in Jobs, ReleaseMeasure(j)
  PROVE  NCInv'
  <1>0. /\ NCTypes /\ PlaceInv(j) /\ EntryInv(j, ncJob[j], entry[KeyOf[j]])
        /\ ncJob[j] \in UseRecords /\ ncJob \in [Jobs -> UseRecords] /\ KeyOf[j] \in Keys
        /\ ncJob[j].pc = "settle" /\ j \in DirJobs /\ j \notin TreeJobs
        /\ UNCHANGED <<entry, ncTombs, retiring, mu, ncGate, marker, ncUp, scan, now>>
    BY JobIs, JobFacts DEF NCInv, ReleaseMeasure
  <1>1. ~ncJob[j].stage
    BY <1>0 DEF PlaceInv
  <1>2. CASE Goto(j, "done") \/ Goto(j, "discard")
    <2>1. PICK p \in {"done", "discard"} : Goto(j, p)
      BY <1>2
    <2>2. p \in DirPlaces
      BY <2>1 DEF DirPlaces
    <2>3. PICK x \in UseRecords : /\ ncJob' = [ncJob EXCEPT ![j] = x]
                                  /\ x.pc = p /\ x.pin = ncJob[j].pin /\ x.stage = ncJob[j].stage
      BY <2>1, <2>2, GotoIs
    <2> QED BY <1>0, <1>1, <2>1, <2>3, SettlesQuietly
  <1>3. CASE /\ LookupLease(j).directory
             /\ ncJob' = [ncJob EXCEPT ![j].pc = "measured", ![j].size = DataBytes(entry[KeyOf[j]])]
    <2>1. DataBytes(entry[KeyOf[j]]) \in Nat
      BY BytesNat DEF DataBytes
    <2>2. PICK x : x = [ncJob[j] EXCEPT !.pc = "measured", !.size = DataBytes(entry[KeyOf[j]])]
      OBVIOUS
    <2>3. x \in UseRecords /\ x.pc = "measured" /\ x.pin = ncJob[j].pin /\ x.stage = ncJob[j].stage
          /\ x.size = DataBytes(entry[KeyOf[j]])
      BY <1>0, <2>1, <2>2 DEF UseRecords, DirPlaces
    <2>4. ncJob' = [ncJob EXCEPT ![j] = x]
      BY <1>0, <1>3, <2>2
    <2>5. entry[KeyOf[j]].there /\ entry[KeyOf[j]].lease = j
      BY <1>3 DEF LookupLease
    <2> QED BY <1>0, <2>3, <2>4, <2>5, SettlesQuietly
  <1> QED BY <1>2, <1>3 DEF ReleaseMeasure

----------------------------------------------------------------------------
\* The steps of a job that change its cache from e to f, or take a name.
LEMMA EntryStep ==
  ASSUME NCInv, NEW j \in Jobs,
         NEW x \in UseRecords, ncJob' = [ncJob EXCEPT ![j] = x],
         NEW f \in Entries \cup {Absent}, entry' = [entry EXCEPT ![KeyOf[j]] = f],
         Alters(j, entry[KeyOf[j]], f),
         scan' = scan, marker' = marker, ncUp' = ncUp, now' = now \/ Tick,
         mu' = mu \/ (mu \in {j, NoJob} /\ mu' \in {j, NoJob}),
         ncGate' \in [Keys -> Jobs \cup {NoJob}],
         \A l \in Keys : ncGate[l] \notin {j, NoJob} => ncGate'[l] = ncGate[l],
         ncTombs' \subseteq ncTombs \cup {CreateTemp(KeyOf[j], j)} \cup Dropped(KeyOf[j], entry[KeyOf[j]], f),
         retiring' \subseteq retiring \cup Dropped(KeyOf[j], entry[KeyOf[j]], f),
         retiring' \subseteq ncTombs',
         \/ f = entry[KeyOf[j]] /\ x.pc # "pin"
         \/ ~f.there
         \/ f.used = now
         \/ /\ entry[KeyOf[j]].there /\ f.used = entry[KeyOf[j]].used
            /\ Protected(entry[KeyOf[j]]) \/ ncJob[j].pc = "pin",
         PlaceInv(j)', EntryInv(j, x, f), NamesInv(j)',
         f.there => SoundEntry(f)' /\ \A g \in f.gens : GenTomb(KeyOf[j], g) \notin ncTombs'
  PROVE  NCInv'
  <1>0. NCTypes /\ KeyOf[j] \in Keys
    BY JobFacts DEF NCInv
  <1>1. ncJob' \in [Jobs -> UseRecords] /\ ncJob'[j] = x /\ \A i \in Jobs \ {j} : ncJob'[i] = ncJob[i]
    BY <1>0 DEF NCTypes
  <1>2. /\ entry' \in [Keys -> Entries \cup {Absent}] /\ entry'[KeyOf[j]] = f
        /\ \A l \in Keys \ {KeyOf[j]} : entry'[l] = entry[l]
    BY <1>0 DEF NCTypes
  <1>3. now' \in 1 .. MaxTime /\ now' >= now
    BY <1>0, JobFacts DEF NCTypes, Tick
  <1>4. mu' \in Jobs \cup {NoJob} /\ (mu \notin {j, NoJob} => mu' = mu)
    BY <1>0 DEF NCTypes
  <1>5. NCTypes'
    BY <1>0, <1>1, <1>2, <1>3, <1>4 DEF NCTypes
  <1>6. Only(j)
    BY <1>1, <1>2, <1>3, <1>4 DEF Only
  <1>7. Later(j)
    BY <1>1, <1>2 DEF Later
  <1>8. UseInv(j)'
    BY <1>1, <1>2 DEF UseInv
  <1>9. KeyInv(KeyOf[j])'
    <2>1. CASE ~f.there
      BY <1>2, <2>1 DEF KeyInv
    <2>2. CASE f.there
      <3>1. SoundEntry(entry[KeyOf[j]])'
        BY <1>2, <2>2 DEF SoundEntry, Exact, Protected, DataBytes, CurrentTree, NCBytes
      <3> QED BY <1>2, <2>2, <3>1 DEF KeyInv, GenTomb
    <2>3. f.there \in BOOLEAN
      <3>1. CASE f \in Entries
        BY <3>1 DEF Entries
      <3>2. CASE f = Absent
        BY <3>2 DEF Absent
      <3> QED BY <3>1, <3>2
    <2> QED BY <2>1, <2>2, <2>3
  <1> QED BY <1>5, <1>6, <1>7, <1>8, <1>9, JobStepKeeps

\* An absent cache is made in a temporary directory ...
LEMMA AcquireTreeCreateKeeps ==
  ASSUME NCInv, NEW j \in Jobs, AcquireTreeCreate(j)
  PROVE  NCInv'
  <1>0. /\ NCTypes /\ PlaceInv(j) /\ EntryInv(j, ncJob[j], entry[KeyOf[j]]) /\ NamesInv(j)
        /\ ncJob[j].pc = "new" /\ ncJob \in [Jobs -> UseRecords] /\ KeyOf[j] \in Keys /\ j # NoJob
        /\ j \in TreeJobs /\ j \notin DirJobs /\ ~entry[KeyOf[j]].there /\ mu = NoJob
    BY JobIs, JobFacts DEF NCInv, AcquireTreeCreate, Unlocked
  <1>1. PICK x \in UseRecords : /\ ncJob' = [ncJob EXCEPT ![j] = x]
                                /\ x.pc = "create" /\ x.pin = ncJob[j].pin /\ x.stage = ncJob[j].stage
    BY GotoIs DEF AcquireTreeCreate, TreePlaces, BeforeTree
  <1>2. ncJob'[j] = x /\ mu' = j
    BY <1>0, <1>1 DEF AcquireTreeCreate
  <1>3. PICK f \in Entries \cup {Absent} : f = entry[KeyOf[j]]
    BY <1>0 DEF NCTypes
  <1>4. entry' = [entry EXCEPT ![KeyOf[j]] = f]
    BY <1>0, <1>3 DEF AcquireTreeCreate, NCTypes
  <1>5. PlaceInv(j)'
    BY <1>0, <1>1, <1>2 DEF PlaceInv, TreePlaces, BeforeTree
  <1>6. EntryInv(j, x, f)
    BY <1>0, <1>1, <1>3 DEF EntryInv
  <1>7. /\ ncTombs' = ncTombs \cup {CreateTemp(KeyOf[j], j)} /\ retiring' = retiring
        /\ retiring \subseteq ncTombs
    BY <1>0 DEF AcquireTreeCreate, NCTypes
  <1>8. NamesInv(j)'
    <2>1. CreateTemp(KeyOf[j], j) \notin retiring'
      BY <1>0, <1>7 DEF NamesInv
    <2>2. \A k \in Keys : GenTomb(k, j) \notin ncTombs'
      BY <1>0, <1>7 DEF NamesInv, GenTomb, CreateTemp, BeforeTree
    <2>3. \A k \in Keys : entry'[k].there => j \notin entry'[k].gens
      BY <1>0 DEF AcquireTreeCreate, NamesInv, BeforeTree
    <2> QED BY <1>1, <1>2, <2>1, <2>2, <2>3 DEF NamesInv, GenTomb, CreateTemp
  <1>9. UNCHANGED <<ncGate, scan, marker, ncUp, now>> /\ ncGate \in [Keys -> Jobs \cup {NoJob}]
    BY <1>0 DEF AcquireTreeCreate, NCTypes
  <1> QED BY <1>0, <1>1, <1>2, <1>3, <1>4, <1>5, <1>6, <1>7, <1>8, <1>9, EntryStep DEF Alters

\* ... and published by a rename.
LEMMA CreateRenameKeeps ==
  ASSUME NCInv, NEW j \in Jobs, CreateRename(j)
  PROVE  NCInv'
  <1>0. /\ NCTypes /\ PlaceInv(j) /\ EntryInv(j, ncJob[j], entry[KeyOf[j]]) /\ NamesInv(j)
        /\ ncJob[j].pc = "create" /\ ncJob \in [Jobs -> UseRecords] /\ KeyOf[j] \in Keys /\ j # NoJob
        /\ ~entry[KeyOf[j]].there /\ mu = j
    BY JobIs DEF NCInv, CreateRename, PlaceInv, EntryInv
  <1>1. j \in TreeJobs /\ j \notin DirJobs
    BY <1>0, JobFacts DEF PlaceInv, DirPlaces
  <1>2. PICK x \in UseRecords : /\ ncJob' = [ncJob EXCEPT ![j] = x]
                                /\ x.pc = "pin" /\ x.pin = ncJob[j].pin /\ x.stage = ncJob[j].stage
    BY GotoIs DEF CreateRename, TreePlaces, BeforeTree
  <1>3. ncJob'[j] = x /\ mu' = mu /\ now' = now + 1 /\ now \in Nat
    BY <1>0, <1>2, JobFacts DEF CreateRename, Tick, NCTypes
  <1>4. PICK f : f = NewEntry
    OBVIOUS
  <1>5. /\ f \in Entries /\ f.there /\ f.lease = NoJob /\ f.tree /\ f.gens = {} /\ f.used = now
        /\ f.holders = {} /\ f.unknown /\ f.current = NoJob
    BY <1>3, <1>4 DEF NewEntry, Entries, Trees, Contents
  <1>6. entry' = [entry EXCEPT ![KeyOf[j]] = f]
    BY <1>4 DEF CreateRename
  <1>7. PlaceInv(j)'
    BY <1>0, <1>1, <1>2, <1>3 DEF PlaceInv, TreePlaces, BeforeTree
  <1>8. EntryInv(j, x, f)
    BY <1>0, <1>2, <1>5 DEF EntryInv
  <1>9. /\ ncTombs' = ncTombs \ {CreateTemp(KeyOf[j], j)} /\ retiring' = retiring
        /\ retiring \subseteq ncTombs /\ CreateTemp(KeyOf[j], j) \notin retiring
    BY <1>0 DEF CreateRename, NCTypes, NamesInv
  <1>10. NamesInv(j)'
    <2>1. \A k \in Keys : GenTomb(k, j) \notin ncTombs'
      BY <1>0, <1>9 DEF NamesInv, BeforeTree
    <2>2. ASSUME NEW k \in Keys, entry'[k].there PROVE j \notin entry'[k].gens
      BY <1>0, <1>5, <1>6, <2>2 DEF NamesInv, BeforeTree, NCTypes
    <2> QED BY <1>2, <1>3, <2>1, <2>2 DEF NamesInv, GenTomb, CreateTemp
  <1>11. SoundEntry(f)'
    BY <1>3, <1>5 DEF SoundEntry, Exact
  <1>12. UNCHANGED <<ncGate, scan, marker, ncUp>> /\ ncGate \in [Keys -> Jobs \cup {NoJob}] /\ Tick
    BY <1>0 DEF CreateRename, NCTypes
  <1> QED BY <1>0, <1>2, <1>3, <1>5, <1>6, <1>7, <1>8, <1>9, <1>10, <1>11, <1>12, EntryStep DEF Alters

\* The record is written before the holder file.
LEMMA AcquireTreeKeeps ==
  ASSUME NCInv, NEW j \in Jobs, AcquireTree(j)
  PROVE  NCInv'
  <1>0. /\ NCTypes /\ PlaceInv(j) /\ EntryInv(j, ncJob[j], entry[KeyOf[j]]) /\ NamesInv(j)
        /\ ncJob[j].pc = "new" /\ ncJob \in [Jobs -> UseRecords] /\ KeyOf[j] \in Keys /\ j # NoJob
        /\ j \in TreeJobs /\ j \notin DirJobs /\ entry[KeyOf[j]].there /\ mu = NoJob
        /\ entry[KeyOf[j]] \in Entries /\ SoundEntry(entry[KeyOf[j]]) /\ KeyInv(KeyOf[j])
    BY JobIs, JobFacts DEF NCInv, AcquireTree, Unlocked
  <1>1. PICK x \in UseRecords : /\ ncJob' = [ncJob EXCEPT ![j] = x]
                                /\ x.pc = "pin" /\ x.pin = ncJob[j].pin /\ x.stage = ncJob[j].stage
    BY GotoIs DEF AcquireTree, TreePlaces, BeforeTree
  <1>2. ncJob'[j] = x /\ mu' = j /\ now' = now + 1 /\ now \in Nat
    BY <1>0, <1>1, JobFacts DEF AcquireTree, Tick, NCTypes
  <1>3. PICK e : e = entry[KeyOf[j]]
    OBVIOUS
  <1>4. PICK f : f = AcquireTreeRecord(e)
    OBVIOUS
  <1>5. /\ e \in Entries /\ SoundEntry(e) /\ EntryInv(j, ncJob[j], e) /\ e.there
        /\ e.lease = NoJob /\ (e.data = NCMissing => e.holders = {})
    BY <1>0, <1>3 DEF AcquireTree, AcquireTreeRefuse
  <1>6. /\ f \in Entries /\ f.there /\ f.lease = NoJob /\ f.tree /\ f.gens = e.gens /\ f.used = now
        /\ f.holders = e.holders /\ f.current = e.current
        /\ f.unknown = (IF e.data = NCMissing THEN TRUE ELSE e.unknown)
        /\ (e.data # NCMissing => f.bytes = e.bytes /\ f.data = e.data)
    BY <1>2, <1>4, <1>5 DEF AcquireTreeRecord, Entries, Contents
  <1>7. entry' = [entry EXCEPT ![KeyOf[j]] = f]
    BY <1>3, <1>4 DEF AcquireTree
  <1>8. PlaceInv(j)'
    BY <1>0, <1>1, <1>2 DEF PlaceInv, TreePlaces, BeforeTree
  <1>9. EntryInv(j, x, f)
    BY <1>0, <1>1, <1>5, <1>6 DEF EntryInv
  <1>10. ncTombs' = ncTombs /\ retiring' = retiring /\ retiring \subseteq ncTombs
    BY <1>0 DEF AcquireTree, NCTypes
  <1>11. NamesInv(j)'
    <2>1. ASSUME NEW k \in Keys, entry'[k].there PROVE j \notin entry'[k].gens
      <3>1. CASE k = KeyOf[j]
        BY <1>0, <1>3, <1>5, <1>6, <1>7, <3>1 DEF NamesInv, BeforeTree, NCTypes
      <3>2. CASE k # KeyOf[j]
        BY <1>0, <1>7, <2>1, <3>2 DEF NamesInv, BeforeTree, NCTypes
      <3> QED BY <3>1, <3>2
    <2> QED BY <1>0, <1>1, <1>2, <1>10, <2>1 DEF NamesInv, GenTomb, CreateTemp, BeforeTree
  <1>12. SoundEntry(f)'
    <2>1. Exact(f)'
      <3>1. ASSUME ~Protected(f), ~f.unknown, marker PROVE f.bytes = DataBytes(f) + NCBytes(CurrentTree(f))
        <4>1. e.data # NCMissing /\ ~e.unknown /\ ~Protected(e)
          BY <1>5, <1>6, <3>1 DEF Protected
        <4>2. e.bytes = DataBytes(e) + NCBytes(CurrentTree(e))
          BY <1>5, <3>1, <4>1 DEF SoundEntry, Exact
        <4> QED BY <1>6, <4>1, <4>2 DEF DataBytes, CurrentTree
      <3>2. marker' = marker
        BY DEF AcquireTree
      <3> QED BY <1>6, <3>1, <3>2 DEF Exact
    <2> QED BY <1>2, <1>5, <1>6, <2>1 DEF SoundEntry
  <1>13. \A g \in f.gens : GenTomb(KeyOf[j], g) \notin ncTombs'
    BY <1>0, <1>3, <1>6, <1>10 DEF KeyInv
  <1>14. UNCHANGED <<ncGate, scan, marker, ncUp>> /\ ncGate \in [Keys -> Jobs \cup {NoJob}] /\ Tick
    BY <1>0 DEF AcquireTree, NCTypes
  <1>15. Alters(j, e, f)
    BY <1>0, <1>5, <1>6 DEF Alters, Edits
  <1> QED BY <1>0, <1>1, <1>2, <1>3, <1>6, <1>7, <1>8, <1>9, <1>10, <1>11, <1>12, <1>13, <1>14, <1>15, EntryStep

----------------------------------------------------------------------------
\* The steps of a job that change the files of a cache it has pinned.
LEMMA PinnedStep ==
  ASSUME NCInv, NEW j \in TreeJobs, ncJob[j].pin,
         NEW x \in UseRecords, ncJob' = [ncJob EXCEPT ![j] = x],
         NEW e, e = entry[KeyOf[j]],
         NEW f \in Entries, entry' = [entry EXCEPT ![KeyOf[j]] = f],
         f.lease = e.lease, f.tree = e.tree, f.holders = e.holders, f.used = e.used, f.unknown = e.unknown,
         UNCHANGED <<scan, mu, marker, ncUp, now>>,
         ncGate' \in [Keys -> Jobs \cup {NoJob}],
         \A l \in Keys : ncGate[l] \notin {j, NoJob} => ncGate'[l] = ncGate[l],
         ncGate[KeyOf[j]] \notin {j, NoJob} => e.gens \subseteq f.gens /\ f.current = e.current,
         f.gens \subseteq e.gens \cup {j}, f.current # NoJob => f.current \in f.gens,
         j \in e.gens \/ GenTomb(KeyOf[j], j) \notin ncTombs,
         ncTombs' \subseteq ncTombs \cup Dropped(KeyOf[j], e, f),
         retiring' \subseteq retiring \cup Dropped(KeyOf[j], e, f),
         retiring' \subseteq ncTombs',
         PlaceInv(j)', EntryInv(j, x, f), NamesInv(j)'
  PROVE  NCInv'
  <1>0. /\ j \in Jobs /\ j # NoJob /\ KeyOf[j] \in Keys /\ PlaceInv(j) /\ EntryInv(j, ncJob[j], e)
        /\ KeyInv(KeyOf[j]) /\ (e.there => e \in Entries /\ SoundEntry(e))
    BY JobFacts, JobIs
  <1>1. /\ e \in Entries /\ SoundEntry(e) /\ e.there /\ j \in e.holders /\ e.lease = NoJob /\ e.tree
    BY <1>0 DEF EntryInv, SoundEntry
  <1>2. f.there /\ Protected(e) /\ Protected(f)
    BY <1>1 DEF Entries, Protected
  <1>3. Edits(j, e, f)
    BY <1>1, <1>2 DEF Edits
  <1>4. SoundEntry(f)'
    <2>1. Exact(f)'
      BY <1>2 DEF Exact, Protected
    <2>2. now' = now
      OBVIOUS
    <2> QED BY <1>1, <2>1, <2>2 DEF SoundEntry
  <1>5. ASSUME NEW g \in f.gens PROVE GenTomb(KeyOf[j], g) \notin ncTombs'
    <2>1. GenTomb(KeyOf[j], g) \notin ncTombs
      BY <1>0, <1>1 DEF KeyInv
    <2>2. GenTomb(KeyOf[j], g) \notin Dropped(KeyOf[j], e, f)
      BY Names
    <2> QED BY <2>1, <2>2
  <1>6. Alters(j, e, f)
    BY <1>3 DEF Alters
  <1>7. ncTombs' \subseteq ncTombs \cup {CreateTemp(KeyOf[j], j)} \cup Dropped(KeyOf[j], e, f)
    OBVIOUS
  <1> QED BY <1>0, <1>1, <1>2, <1>4, <1>5, <1>6, <1>7, EntryStep

LEMMA RunningFacts ==
  ASSUME NCInv, NEW j \in Jobs, ncJob[j].pc \in {"run", "publish", "generation", "retire"}
  PROVE  /\ j \in TreeJobs /\ j \notin DirJobs /\ ncJob[j].pin /\ ~ncJob[j].stage
         /\ entry[KeyOf[j]] \in Entries /\ SoundEntry(entry[KeyOf[j]]) /\ j \in entry[KeyOf[j]].holders
         /\ CurrentTree(entry[KeyOf[j]]) = entry[KeyOf[j]].current
         /\ retiring \subseteq ncTombs /\ ncGate \in [Keys -> Jobs \cup {NoJob}]
         /\ entry \in [Keys -> Entries \cup {Absent}]
  <1>1. PlaceInv(j) /\ EntryInv(j, ncJob[j], entry[KeyOf[j]]) /\ NCTypes
    BY JobIs DEF NCInv
  <1>2. j \in TreeJobs /\ j \notin DirJobs /\ ncJob[j].pin /\ ~ncJob[j].stage
    <2>1. ncJob[j] \in UseRecords
      BY JobIs
    <2> QED BY <1>1, <2>1, JobFacts DEF PlaceInv, DirPlaces, UseRecords
  <1>3. entry[KeyOf[j]] \in Entries /\ SoundEntry(entry[KeyOf[j]]) /\ j \in entry[KeyOf[j]].holders
    BY <1>1, <1>2, JobIs DEF EntryInv
  <1>4. CurrentTree(entry[KeyOf[j]]) = entry[KeyOf[j]].current
    BY <1>3, JobFacts DEF CurrentTree, SoundEntry, Entries
  <1> QED BY <1>1, <1>2, <1>3, <1>4 DEF NCTypes

LEMMA DeleteDataKeeps ==
  ASSUME NCInv, NEW j \in Jobs, DeleteData(j)
  PROVE  NCInv'
  <1>0. /\ PlaceInv(j) /\ EntryInv(j, ncJob[j], entry[KeyOf[j]]) /\ NamesInv(j)
        /\ ncJob[j] \in UseRecords /\ ncJob \in [Jobs -> UseRecords] /\ KeyOf[j] \in Keys /\ ncJob[j].pc = "run"
    BY JobIs DEF DeleteData
  <1>1. /\ j \in TreeJobs /\ ncJob[j].pin /\ entry[KeyOf[j]] \in Entries /\ SoundEntry(entry[KeyOf[j]])
        /\ retiring \subseteq ncTombs /\ ncGate \in [Keys -> Jobs \cup {NoJob}]
        /\ entry \in [Keys -> Entries \cup {Absent}]
    BY <1>0, RunningFacts
  <1>2. PICK e : e = entry[KeyOf[j]]
    OBVIOUS
  <1>3. PICK f : f = [e EXCEPT !.data = NCMissing]
    OBVIOUS
  <1>4. /\ f \in Entries /\ f.there = e.there /\ f.lease = e.lease /\ f.tree = e.tree /\ f.holders = e.holders
        /\ f.used = e.used /\ f.unknown = e.unknown /\ f.gens = e.gens /\ f.current = e.current
    BY <1>1, <1>2, <1>3 DEF Entries, Contents
  <1>5. entry' = [entry EXCEPT ![KeyOf[j]] = f] /\ UNCHANGED <<scan, mu, marker, ncUp, now, ncTombs, retiring, ncJob, ncGate>>
    BY <1>2, <1>3 DEF DeleteData
  <1>6. ncJob' = [ncJob EXCEPT ![j] = ncJob[j]]
    BY <1>0, <1>5
  <1>7. PlaceInv(j)'
    BY <1>0, <1>5 DEF PlaceInv
  <1>8. EntryInv(j, ncJob[j], f)
    BY <1>0, <1>2, <1>4 DEF EntryInv
  <1>9. \A k \in Keys : entry'[k].there => j \notin entry'[k].gens
    <2>1. ASSUME NEW k \in Keys, entry'[k].there PROVE j \notin entry'[k].gens
      BY <1>0, <1>1, <1>2, <1>4, <1>5, <2>1 DEF NamesInv, BeforeTree
    <2> QED BY <2>1
  <1>10. NamesInv(j)'
    BY <1>0, <1>5, <1>9 DEF NamesInv, GenTomb, CreateTemp, BeforeTree
  <1>11. GenTomb(KeyOf[j], j) \notin ncTombs
    BY <1>0 DEF NamesInv, BeforeTree
  <1>12. e.current # NoJob => e.current \in e.gens
    BY <1>1, <1>2 DEF SoundEntry
  <1> QED BY <1>0, <1>1, <1>2, <1>4, <1>5, <1>6, <1>7, <1>8, <1>10, <1>11, <1>12, PinnedStep

\* PublishTree: a generation ...
LEMMA PublishStartKeeps ==
  ASSUME NCInv, NEW j \in Jobs, PublishStart(j)
  PROVE  NCInv'
  <1>0. /\ PlaceInv(j) /\ EntryInv(j, ncJob[j], entry[KeyOf[j]]) /\ NamesInv(j) /\ j # NoJob
        /\ ncJob[j] \in UseRecords /\ ncJob \in [Jobs -> UseRecords] /\ KeyOf[j] \in Keys /\ ncJob[j].pc = "publish"
    BY JobIs DEF PublishStart
  <1>1. /\ j \in TreeJobs /\ j \notin DirJobs /\ ncJob[j].pin /\ ~ncJob[j].stage
        /\ entry[KeyOf[j]] \in Entries /\ SoundEntry(entry[KeyOf[j]])
        /\ retiring \subseteq ncTombs /\ ncGate \in [Keys -> Jobs \cup {NoJob}]
        /\ CurrentTree(entry[KeyOf[j]]) = entry[KeyOf[j]].current
    BY <1>0, RunningFacts
  <1>2. PICK e : e = entry[KeyOf[j]]
    OBVIOUS
  <1>3. PICK f : f = [e EXCEPT !.gens = @ \cup {j}]
    OBVIOUS
  <1>4. /\ f \in Entries /\ f.there = e.there /\ f.lease = e.lease /\ f.tree = e.tree /\ f.holders = e.holders
        /\ f.used = e.used /\ f.unknown = e.unknown /\ f.gens = e.gens \cup {j} /\ f.current = e.current
    BY <1>1, <1>2, <1>3 DEF Entries
  <1>5. /\ entry' = [entry EXCEPT ![KeyOf[j]] = f] /\ UNCHANGED <<scan, mu, marker, ncUp, now, ncTombs, retiring>>
        /\ ncGate' = [ncGate EXCEPT ![KeyOf[j]] = j] /\ ncGate[KeyOf[j]] = NoJob /\ ncJob[j].copy # ncJob[j].base
    BY <1>2, <1>3 DEF PublishStart, LockTree, Unchanged
  <1>6. PICK x : x = [ncJob[j] EXCEPT !.pc = "generation", !.source = <<"tree", e.current>>]
    OBVIOUS
  <1>7. /\ x \in UseRecords /\ x.pc = "generation" /\ x.pin = ncJob[j].pin /\ x.stage = ncJob[j].stage
        /\ x.source = <<"tree", e.current>> /\ x.copy = ncJob[j].copy /\ x.base = ncJob[j].base
    <2>1. <<"tree", e.current>> \in {"data", "tree"} \X Things
      BY <1>1, <1>2, JobFacts DEF Entries, Trees, Things, Contents
    <2> QED BY <1>0, <1>6, <2>1 DEF UseRecords, TreePlaces
  <1>8. ncJob' = [ncJob EXCEPT ![j] = x] /\ ncJob'[j] = x
    BY <1>0, <1>1, <1>2, <1>6 DEF PublishStart
  <1>9. /\ ncGate' \in [Keys -> Jobs \cup {NoJob}] /\ ncGate'[KeyOf[j]] = j
        /\ \A l \in Keys : ncGate[l] \notin {j, NoJob} => ncGate'[l] = ncGate[l]
    BY <1>0, <1>1, <1>5
  <1>10. PlaceInv(j)'
    BY <1>0, <1>1, <1>5, <1>7, <1>8, <1>9 DEF PlaceInv, TreePlaces
  <1>11. j \notin e.gens /\ GenTomb(KeyOf[j], j) \notin ncTombs /\ e.there
    BY <1>0, <1>1, <1>2 DEF NamesInv, BeforeTree, Entries
  <1>12. e.current # NoJob => e.current \in e.gens
    BY <1>1, <1>2 DEF SoundEntry
  <1>13. EntryInv(j, x, f)
    BY <1>0, <1>2, <1>4, <1>7, <1>11, <1>12 DEF EntryInv
  <1>14. NamesInv(j)'
    BY <1>7, <1>8 DEF NamesInv, BeforeTree
  <1> QED BY <1>1, <1>2, <1>4, <1>5, <1>7, <1>8, <1>9, <1>10, <1>11, <1>12, <1>13, <1>14, PinnedStep

\* ... that an error undoes ...
LEMMA PublishFailKeeps ==
  ASSUME NCInv, NEW j \in Jobs, NEW left \in BOOLEAN, PublishFail(j, left)
  PROVE  NCInv'
  <1>0. /\ PlaceInv(j) /\ EntryInv(j, ncJob[j], entry[KeyOf[j]]) /\ NamesInv(j) /\ j # NoJob
        /\ ncJob[j] \in UseRecords /\ ncJob \in [Jobs -> UseRecords] /\ KeyOf[j] \in Keys /\ ncJob[j].pc = "generation"
    BY JobIs DEF PublishFail
  <1>1. /\ j \in TreeJobs /\ j \notin DirJobs /\ ncJob[j].pin
        /\ entry[KeyOf[j]] \in Entries /\ SoundEntry(entry[KeyOf[j]])
        /\ retiring \subseteq ncTombs /\ ncGate \in [Keys -> Jobs \cup {NoJob}]
    BY <1>0, RunningFacts
  <1>2. PICK e : e = entry[KeyOf[j]]
    OBVIOUS
  <1>3. PICK f : f = [e EXCEPT !.gens = IF left THEN @ ELSE @ \ {j}]
    OBVIOUS
  <1>4. /\ f \in Entries /\ f.there = e.there /\ f.lease = e.lease /\ f.tree = e.tree /\ f.holders = e.holders
        /\ f.used = e.used /\ f.unknown = e.unknown /\ f.gens = (IF left THEN e.gens ELSE e.gens \ {j})
        /\ f.current = e.current
    BY <1>1, <1>2, <1>3 DEF Entries
  <1>5. /\ entry' = [entry EXCEPT ![KeyOf[j]] = f] /\ UNCHANGED <<scan, mu, marker, ncUp, now, ncTombs, retiring>>
        /\ ncGate' = [ncGate EXCEPT ![KeyOf[j]] = NoJob] /\ ncGate[KeyOf[j]] = j
    BY <1>0, <1>2, <1>3 DEF PublishFail, PlaceInv
  <1>6. PICK x : x = NCFresh("settle", ncJob[j].pin)
    OBVIOUS
  <1>7. x \in UseRecords /\ x.pc = "settle" /\ x.pin = ncJob[j].pin /\ x.stage = FALSE
    <2>1. ncJob[j].pin \in BOOLEAN /\ "settle" \in TreePlaces \cup DirPlaces
      BY <1>0 DEF UseRecords, DirPlaces
    <2> QED BY <1>6, <2>1, FreshIs
  <1>8. ncJob' = [ncJob EXCEPT ![j] = x] /\ ncJob'[j] = x
    BY <1>0, <1>6 DEF PublishFail, NCFinish
  <1>9. /\ ncGate' \in [Keys -> Jobs \cup {NoJob}]
        /\ \A l \in Keys : ncGate[l] \notin {j, NoJob} => ncGate'[l] = ncGate[l]
    BY <1>0, <1>1, <1>5
  <1>10. PlaceInv(j)' /\ NamesInv(j)'
    BY <1>1, <1>7, <1>8 DEF PlaceInv, TreePlaces, NamesInv, BeforeTree
  <1>11. j \in e.gens /\ e.current # j /\ (e.current # NoJob => e.current \in e.gens)
    BY <1>0, <1>1, <1>2 DEF EntryInv, SoundEntry
  <1>12. EntryInv(j, x, f)
    BY <1>0, <1>2, <1>4, <1>7 DEF EntryInv
  <1>13. f.gens \subseteq e.gens \cup {j} /\ (f.current # NoJob => f.current \in f.gens)
    BY <1>4, <1>11
  <1> QED BY <1>1, <1>2, <1>4, <1>5, <1>7, <1>8, <1>9, <1>10, <1>11, <1>12, <1>13, PinnedStep

\* ... or the link names.
LEMMA PublishSwitchKeeps ==
  ASSUME NCInv, NEW j \in Jobs, PublishSwitch(j)
  PROVE  NCInv'
  <1>0. /\ PlaceInv(j) /\ EntryInv(j, ncJob[j], entry[KeyOf[j]]) /\ NamesInv(j) /\ j # NoJob
        /\ ncJob[j] \in UseRecords /\ ncJob \in [Jobs -> UseRecords] /\ KeyOf[j] \in Keys /\ ncJob[j].pc = "generation"
    BY JobIs DEF PublishSwitch
  <1>1. /\ j \in TreeJobs /\ j \notin DirJobs /\ ncJob[j].pin /\ ~ncJob[j].stage
        /\ entry[KeyOf[j]] \in Entries /\ SoundEntry(entry[KeyOf[j]])
        /\ retiring \subseteq ncTombs /\ ncGate \in [Keys -> Jobs \cup {NoJob}]
    BY <1>0, RunningFacts
  <1>2. PICK e : e = entry[KeyOf[j]]
    OBVIOUS
  <1>3. PICK f : f = [e EXCEPT !.current = j]
    OBVIOUS
  <1>4. /\ f \in Entries /\ f.there = e.there /\ f.lease = e.lease /\ f.tree = e.tree /\ f.holders = e.holders
        /\ f.used = e.used /\ f.unknown = e.unknown /\ f.gens = e.gens /\ f.current = j
    BY <1>1, <1>2, <1>3 DEF Entries, Trees
  <1>5. /\ entry' = [entry EXCEPT ![KeyOf[j]] = f]
        /\ UNCHANGED <<scan, mu, marker, ncUp, now, ncTombs, retiring, ncGate>> /\ ncGate[KeyOf[j]] = j
    BY <1>0, <1>2, <1>3 DEF PublishSwitch, PlaceInv
  <1>6. PICK x \in UseRecords : /\ ncJob' = [ncJob EXCEPT ![j] = x] /\ x.pc = "retire"
                                /\ x.pin = ncJob[j].pin /\ x.stage = ncJob[j].stage /\ x.source = ncJob[j].source
                                /\ x.copy = ncJob[j].copy /\ x.base = ncJob[j].base
    BY GotoIs DEF PublishSwitch, TreePlaces
  <1>7. ncJob'[j] = x
    BY <1>0, <1>6
  <1>8. PlaceInv(j)' /\ NamesInv(j)'
    BY <1>0, <1>1, <1>5, <1>6, <1>7 DEF PlaceInv, TreePlaces, NamesInv, BeforeTree
  <1>9. /\ j \in e.gens /\ e.current # j /\ ncJob[j].source[2] = e.current
        /\ (e.current # NoJob => e.current \in e.gens)
    BY <1>0, <1>1, <1>2 DEF EntryInv, SoundEntry
  <1>10. EntryInv(j, x, f)
    BY <1>0, <1>2, <1>4, <1>6, <1>9 DEF EntryInv
  <1> QED BY <1>1, <1>2, <1>4, <1>5, <1>6, <1>8, <1>9, <1>10, PinnedStep

\* The superseded tree leaves the cache under the lock.
LEMMA RetireTreeKeeps ==
  ASSUME NCInv, NEW j \in Jobs, RetireTree(j)
  PROVE  NCInv'
  <1>0. /\ PlaceInv(j) /\ EntryInv(j, ncJob[j], entry[KeyOf[j]]) /\ NamesInv(j) /\ j # NoJob
        /\ ncJob[j] \in UseRecords /\ ncJob \in [Jobs -> UseRecords] /\ KeyOf[j] \in Keys /\ ncJob[j].pc = "retire"
    BY JobIs DEF RetireTree
  <1>1. /\ j \in TreeJobs /\ j \notin DirJobs /\ ncJob[j].pin
        /\ entry[KeyOf[j]] \in Entries /\ SoundEntry(entry[KeyOf[j]])
        /\ retiring \subseteq ncTombs /\ ncGate \in [Keys -> Jobs \cup {NoJob}]
    BY <1>0, RunningFacts
  <1>2. PICK e : e = entry[KeyOf[j]]
    OBVIOUS
  <1>3. PICK old : old = ncJob[j].source[2]
    OBVIOUS
  <1>4. /\ UNCHANGED <<scan, mu, marker, ncUp, now>>
        /\ ncGate' = [ncGate EXCEPT ![KeyOf[j]] = NoJob] /\ ncGate[KeyOf[j]] = j
    BY <1>0 DEF RetireTree, PlaceInv
  <1>5. e.current = j /\ j \in e.gens /\ old # j /\ old \in e.gens \cup {NoJob}
    BY <1>0, <1>2, <1>3 DEF EntryInv
  <1>6. PICK f : f = IF old # NoJob THEN [e EXCEPT !.gens = @ \ {old}]
                     ELSE [e EXCEPT !.data = IF @ = NCMissing THEN NCMissing ELSE Empty]
    OBVIOUS
  <1>7. /\ f \in Entries /\ f.there = e.there /\ f.lease = e.lease /\ f.tree = e.tree /\ f.holders = e.holders
        /\ f.used = e.used /\ f.unknown = e.unknown /\ f.current = e.current
        /\ f.gens = IF old # NoJob THEN e.gens \ {old} ELSE e.gens
    <2>1. CASE old # NoJob
      BY <1>1, <1>2, <1>6, <2>1 DEF Entries
    <2>2. CASE old = NoJob
      BY <1>1, <1>2, <1>6, <2>2 DEF Entries, Contents
    <2> QED BY <2>1, <2>2
  <1>8. entry' = [entry EXCEPT ![KeyOf[j]] = f]
    BY <1>2, <1>3, <1>6 DEF RetireTree
  <1>9. /\ ncTombs' \subseteq ncTombs \cup Dropped(KeyOf[j], e, f)
        /\ retiring' \subseteq retiring \cup Dropped(KeyOf[j], e, f)
        /\ retiring' \subseteq ncTombs'
    <2>1. CASE old # NoJob
      <3>1. GenTomb(KeyOf[j], old) \in Dropped(KeyOf[j], e, f)
        BY <1>1, <1>2, <1>5, <1>7, <2>1 DEF Dropped, Entries
      <3>2. ncTombs' = ncTombs \cup {GenTomb(KeyOf[j], old)} /\ retiring' = retiring \cup {GenTomb(KeyOf[j], old)}
        BY <1>3, <2>1 DEF RetireTree
      <3> QED BY <1>1, <3>1, <3>2
    <2>2. CASE old = NoJob
      BY <1>1, <1>3, <2>2 DEF RetireTree
    <2> QED BY <2>1, <2>2
  <1>10. PICK x : x = NCFresh("settle", ncJob[j].pin)
    OBVIOUS
  <1>11. x \in UseRecords /\ x.pc = "settle" /\ x.pin = ncJob[j].pin /\ x.stage = FALSE
    <2>1. ncJob[j].pin \in BOOLEAN /\ "settle" \in TreePlaces \cup DirPlaces
      BY <1>0 DEF UseRecords, DirPlaces
    <2> QED BY <1>10, <2>1, FreshIs
  <1>12. ncJob' = [ncJob EXCEPT ![j] = x] /\ ncJob'[j] = x
    BY <1>0, <1>10 DEF RetireTree, NCFinish
  <1>13. /\ ncGate' \in [Keys -> Jobs \cup {NoJob}]
         /\ \A l \in Keys : ncGate[l] \notin {j, NoJob} => ncGate'[l] = ncGate[l]
    BY <1>0, <1>1, <1>4
  <1>14. PlaceInv(j)' /\ NamesInv(j)'
    BY <1>1, <1>11, <1>12 DEF PlaceInv, TreePlaces, NamesInv, BeforeTree
  <1>15. EntryInv(j, x, f)
    BY <1>0, <1>2, <1>7, <1>11 DEF EntryInv
  <1>16. f.gens \subseteq e.gens /\ f.current \in f.gens
    BY <1>5, <1>7
  <1> QED BY <1>1, <1>2, <1>4, <1>5, <1>7, <1>8, <1>9, <1>11, <1>12, <1>13, <1>14, <1>15, <1>16, PinnedStep

----------------------------------------------------------------------------
\* Pins come and go.
LEMMA AddHolderKeeps ==
  ASSUME NCInv, NEW j \in Jobs, AddHolder(j)
  PROVE  NCInv'
  <1>0. /\ NCTypes /\ PlaceInv(j) /\ EntryInv(j, ncJob[j], entry[KeyOf[j]]) /\ NamesInv(j) /\ j # NoJob
        /\ ncJob[j] \in UseRecords /\ ncJob \in [Jobs -> UseRecords] /\ KeyOf[j] \in Keys
        /\ ncJob[j].pc = "pin" /\ mu = j /\ KeyInv(KeyOf[j])
    BY JobIs DEF NCInv, AddHolder, PlaceInv
  <1>1. j \in TreeJobs /\ j \notin DirJobs /\ ~ncJob[j].stage
    BY <1>0, JobFacts DEF PlaceInv, DirPlaces, UseRecords
  <1>2. PICK e : e = entry[KeyOf[j]]
    OBVIOUS
  <1>3. e.there /\ e.lease = NoJob /\ e.tree /\ e \in Entries /\ SoundEntry(e) /\ EntryInv(j, ncJob[j], e)
    BY <1>0, <1>2, JobIs DEF EntryInv
  <1>4. PICK f : f = [e EXCEPT !.holders = @ \cup {j}]
    OBVIOUS
  <1>5. /\ f \in Entries /\ f.there /\ f.lease = e.lease /\ f.tree = e.tree /\ f.holders = e.holders \cup {j}
        /\ f.used = e.used /\ f.unknown = e.unknown /\ f.gens = e.gens /\ f.current = e.current /\ f.data = e.data
    BY <1>1, <1>3, <1>4 DEF Entries
  <1>6. PICK x : x = [ncJob[j] EXCEPT !.pc = "held", !.pin = TRUE]
    OBVIOUS
  <1>7. x \in UseRecords /\ x.pc = "held" /\ x.pin = TRUE /\ x.stage = ncJob[j].stage
    BY <1>0, <1>6 DEF UseRecords, TreePlaces, BeforeTree
  <1>8. /\ ncJob' = [ncJob EXCEPT ![j] = x] /\ ncJob'[j] = x /\ entry' = [entry EXCEPT ![KeyOf[j]] = f]
        /\ UNCHANGED <<ncTombs, retiring, ncGate, marker, ncUp, scan, now>> /\ mu' = NoJob
        /\ ncGate \in [Keys -> Jobs \cup {NoJob}] /\ retiring \subseteq ncTombs
    BY <1>0, <1>2, <1>4, <1>6 DEF AddHolder, NCTypes
  <1>9. PlaceInv(j)'
    BY <1>1, <1>7, <1>8 DEF PlaceInv, TreePlaces, BeforeTree
  <1>10. EntryInv(j, x, f)
    BY <1>1, <1>5, <1>7 DEF EntryInv
  <1>11. NamesInv(j)'
    <2>1. ASSUME NEW k \in Keys, entry'[k].there PROVE j \notin entry'[k].gens
      BY <1>0, <1>2, <1>3, <1>5, <1>8, <2>1 DEF NamesInv, BeforeTree, NCTypes
    <2> QED BY <1>0, <1>7, <1>8, <2>1 DEF NamesInv, GenTomb, CreateTemp, BeforeTree
  <1>12. SoundEntry(f)'
    <2>1. Exact(f)'
      BY <1>5 DEF Exact, Protected
    <2> QED BY <1>3, <1>5, <1>8, <2>1 DEF SoundEntry
  <1>13. \A g \in f.gens : GenTomb(KeyOf[j], g) \notin ncTombs'
    BY <1>0, <1>2, <1>3, <1>5, <1>8 DEF KeyInv
  <1>14. Alters(j, e, f)
    BY <1>0, <1>3, <1>5 DEF Alters, Edits
  <1> QED BY <1>0, <1>2, <1>3, <1>5, <1>7, <1>8, <1>9, <1>10, <1>11, <1>12, <1>13, <1>14, EntryStep

LEMMA NCSettleKeeps ==
  ASSUME NCInv, NEW j \in Jobs, NCSettle(j)
  PROVE  NCInv'
  <1>0. /\ NCTypes /\ PlaceInv(j) /\ EntryInv(j, ncJob[j], entry[KeyOf[j]]) /\ NamesInv(j) /\ j # NoJob
        /\ ncJob[j] \in UseRecords /\ ncJob \in [Jobs -> UseRecords] /\ KeyOf[j] \in Keys
        /\ ncJob[j].pc = "settle" /\ mu = NoJob /\ KeyInv(KeyOf[j]) /\ j \in TreeJobs /\ j \notin DirJobs
    BY JobIs, JobFacts DEF NCInv, NCSettle, Unlocked
  <1>1. CASE ~LookupLease(j).tree
    <2>1. Goto(j, "done") /\ UNCHANGED <<entry, ncTombs, retiring, mu, ncGate, marker, ncUp, scan, now>>
      BY <1>1 DEF NCSettle
    <2>2. ~ncJob[j].stage
      BY <1>0, <1>1 DEF PlaceInv, EntryInv, LookupLease
    <2>3. PICK x \in UseRecords : /\ ncJob' = [ncJob EXCEPT ![j] = x]
                                  /\ x.pc = "done" /\ x.pin = ncJob[j].pin /\ x.stage = ncJob[j].stage
      BY <2>1, GotoIs DEF DirPlaces
    <2> QED BY <1>0, <2>1, <2>2, <2>3, SettlesQuietly
  <1>2. CASE LookupLease(j).tree
    <2>1. PICK e : e = entry[KeyOf[j]]
      OBVIOUS
    <2>2. e.there /\ j \in e.holders
      BY <1>2, <2>1 DEF LookupLease
    <2>3. e \in Entries /\ SoundEntry(e) /\ EntryInv(j, ncJob[j], e) /\ e.lease = NoJob /\ e.tree
      BY <1>0, <2>1, <2>2, JobIs DEF SoundEntry
    <2>4. now \in Nat /\ now' = now + 1 /\ Tick
      BY <1>0, <1>2, JobFacts DEF NCSettle, Tick, NCTypes
    <2>5. PICK f : f = [e EXCEPT !.used = now, !.unknown = TRUE]
      OBVIOUS
    <2>6. /\ f \in Entries /\ f.there /\ f.lease = e.lease /\ f.tree = e.tree /\ f.holders = e.holders
          /\ f.used = now /\ f.unknown /\ f.gens = e.gens /\ f.current = e.current /\ f.data = e.data
      BY <2>3, <2>4, <2>5 DEF Entries
    <2>7. PICK x : x = [ncJob[j] EXCEPT !.pc = "unpin", !.stage = FALSE]
      OBVIOUS
    <2>8. x \in UseRecords /\ x.pc = "unpin" /\ x.pin = ncJob[j].pin /\ x.stage = FALSE
      BY <1>0, <2>7 DEF UseRecords, TreePlaces
    <2>9. /\ ncJob' = [ncJob EXCEPT ![j] = x] /\ ncJob'[j] = x /\ entry' = [entry EXCEPT ![KeyOf[j]] = f]
          /\ UNCHANGED <<ncTombs, retiring, ncGate, marker, ncUp, scan>> /\ mu' = j
          /\ ncGate \in [Keys -> Jobs \cup {NoJob}] /\ retiring \subseteq ncTombs
      BY <1>0, <1>2, <2>1, <2>5, <2>7 DEF NCSettle, NCTypes
    <2>10. PlaceInv(j)' /\ NamesInv(j)'
      BY <1>0, <2>8, <2>9 DEF PlaceInv, TreePlaces, NamesInv, BeforeTree
    <2>11. EntryInv(j, x, f)
      BY <1>0, <2>2, <2>3, <2>6, <2>8 DEF EntryInv
    <2>12. SoundEntry(f)'
      <3>1. Exact(f)'
        BY <2>6 DEF Exact
      <3> QED BY <2>3, <2>4, <2>6, <3>1 DEF SoundEntry
    <2>13. \A g \in f.gens : GenTomb(KeyOf[j], g) \notin ncTombs'
      BY <1>0, <2>1, <2>2, <2>6, <2>9 DEF KeyInv
    <2>14. Alters(j, e, f)
      BY <1>0, <2>2, <2>3, <2>6 DEF Alters, Edits
    <2> QED BY <1>0, <2>1, <2>4, <2>6, <2>8, <2>9, <2>10, <2>11, <2>12, <2>13, <2>14, EntryStep
  <1> QED BY <1>1, <1>2

LEMMA ReleaseTreeKeeps ==
  ASSUME NCInv, NEW j \in Jobs, ReleaseTree(j)
  PROVE  NCInv'
  <1>0. /\ NCTypes /\ PlaceInv(j) /\ EntryInv(j, ncJob[j], entry[KeyOf[j]]) /\ NamesInv(j) /\ j # NoJob
        /\ ncJob[j] \in UseRecords /\ ncJob \in [Jobs -> UseRecords] /\ KeyOf[j] \in Keys
        /\ ncJob[j].pc = "unpin" /\ mu = j /\ KeyInv(KeyOf[j])
    BY JobIs DEF NCInv, ReleaseTree, PlaceInv
  <1>1. j \in TreeJobs /\ j \notin DirJobs /\ ~ncJob[j].stage
    BY <1>0, JobFacts DEF PlaceInv, DirPlaces, UseRecords
  <1>2. PICK e : e = entry[KeyOf[j]]
    OBVIOUS
  <1>3. e.there /\ j \in e.holders /\ e.unknown /\ e \in Entries /\ SoundEntry(e) /\ e.lease = NoJob /\ e.tree
    BY <1>0, <1>2, JobIs DEF EntryInv, SoundEntry
  <1>4. PICK f : f = [e EXCEPT !.holders = @ \ {j}]
    OBVIOUS
  <1>5. /\ f \in Entries /\ f.there /\ f.lease = e.lease /\ f.tree = e.tree /\ f.holders = e.holders \ {j}
        /\ f.used = e.used /\ f.unknown = e.unknown /\ f.gens = e.gens /\ f.current = e.current /\ f.data = e.data
    BY <1>1, <1>3, <1>4 DEF Entries
  <1>6. PICK x : x = [ncJob[j] EXCEPT !.pc = "done", !.pin = FALSE]
    OBVIOUS
  <1>7. x \in UseRecords /\ x.pc = "done" /\ x.pin = FALSE /\ x.stage = ncJob[j].stage
    BY <1>0, <1>6 DEF UseRecords, TreePlaces
  <1>8. /\ ncJob' = [ncJob EXCEPT ![j] = x] /\ ncJob'[j] = x /\ entry' = [entry EXCEPT ![KeyOf[j]] = f]
        /\ UNCHANGED <<ncTombs, retiring, ncGate, marker, ncUp, scan, now>> /\ mu' = NoJob
        /\ ncGate \in [Keys -> Jobs \cup {NoJob}] /\ retiring \subseteq ncTombs
    BY <1>0, <1>2, <1>4, <1>6 DEF ReleaseTree, NCTypes
  <1>9. PlaceInv(j)' /\ NamesInv(j)'
    BY <1>1, <1>7, <1>8 DEF PlaceInv, TreePlaces, NamesInv, BeforeTree
  <1>10. EntryInv(j, x, f)
    BY <1>7 DEF EntryInv
  <1>11. SoundEntry(f)'
    <2>1. Exact(f)'
      BY <1>3, <1>5 DEF Exact
    <2> QED BY <1>3, <1>5, <1>8, <2>1 DEF SoundEntry
  <1>12. \A g \in f.gens : GenTomb(KeyOf[j], g) \notin ncTombs'
    BY <1>0, <1>2, <1>3, <1>5, <1>8 DEF KeyInv
  <1>13. Alters(j, e, f) /\ Protected(e)
    BY <1>0, <1>3, <1>5 DEF Alters, Edits, Protected
  <1> QED BY <1>0, <1>2, <1>3, <1>5, <1>7, <1>8, <1>9, <1>10, <1>11, <1>12, <1>13, EntryStep

\* The lease of an older runner's job: its size is the one measured under it.
LEMMA NCReleaseKeeps ==
  ASSUME NCInv, NEW j \in Jobs, NEW err \in {"none", "before", "after"}, NCRelease(j, err)
  PROVE  NCInv'
  <1>0. /\ NCTypes /\ PlaceInv(j) /\ EntryInv(j, ncJob[j], entry[KeyOf[j]]) /\ NamesInv(j) /\ j # NoJob
        /\ ncJob[j] \in UseRecords /\ ncJob \in [Jobs -> UseRecords] /\ KeyOf[j] \in Keys
        /\ ncJob[j].pc = "measured" /\ mu = NoJob /\ KeyInv(KeyOf[j])
        /\ UNCHANGED <<ncTombs, retiring, mu, ncGate, marker, ncUp, scan>>
    BY JobIs DEF NCInv, NCRelease, Unlocked
  <1>1. j \notin TreeJobs /\ j \in DirJobs /\ ~ncJob[j].stage
    BY <1>0, JobFacts DEF PlaceInv, TreePlaces, BeforeTree, UseRecords
  <1>2. CASE err = "before"
    <2>1. Goto(j, "discard") /\ UNCHANGED <<entry, now>>
      BY <1>2 DEF NCRelease
    <2>2. PICK x \in UseRecords : /\ ncJob' = [ncJob EXCEPT ![j] = x]
                                  /\ x.pc = "discard" /\ x.pin = ncJob[j].pin /\ x.stage = ncJob[j].stage
      BY <2>1, GotoIs DEF DirPlaces
    <2> QED BY <1>0, <1>1, <2>1, <2>2, SettlesQuietly
  <1>3. CASE err # "before"
    <2>1. PICK e : e = entry[KeyOf[j]]
      OBVIOUS
    <2>2. e.there /\ e.lease = j /\ ncJob[j].size = DataBytes(e) /\ e \in Entries /\ SoundEntry(e)
      BY <1>0, <2>1, JobIs DEF EntryInv
    <2>3. ~e.tree /\ e.gens = {} /\ e.current = NoJob /\ e.holders = {}
      BY <1>0, <2>2 DEF SoundEntry
    <2>4. now \in Nat /\ now' = now + 1 /\ Tick
      BY <1>0, <1>3, JobFacts DEF NCRelease, Tick, NCTypes
    <2>5. PICK f : f = [e EXCEPT !.bytes = ncJob[j].size, !.lease = NoJob, !.used = now, !.unknown = FALSE]
      OBVIOUS
    <2>6. /\ f \in Entries /\ f.there /\ f.lease = NoJob /\ f.tree = e.tree /\ f.holders = e.holders
          /\ f.used = now /\ f.gens = e.gens /\ f.current = e.current /\ f.data = e.data
          /\ f.bytes = DataBytes(e)
      <3>1. ncJob[j].size \in Nat
        BY <1>0 DEF UseRecords
      <3> QED BY <2>2, <2>4, <2>5, <3>1 DEF Entries
    <2>7. PICK x : x = [ncJob[j] EXCEPT !.pc = IF err = "after" THEN "discard" ELSE "done", !.pin = FALSE]
      OBVIOUS
    <2>8. x \in UseRecords /\ x.pc \in {"done", "discard"} /\ x.pin = FALSE /\ x.stage = ncJob[j].stage
      BY <1>0, <2>7 DEF UseRecords, DirPlaces
    <2>9. /\ ncJob' = [ncJob EXCEPT ![j] = x] /\ ncJob'[j] = x /\ entry' = [entry EXCEPT ![KeyOf[j]] = f]
          /\ ncGate \in [Keys -> Jobs \cup {NoJob}] /\ retiring \subseteq ncTombs
      BY <1>0, <1>3, <2>1, <2>5, <2>7 DEF NCRelease, NCTypes
    <2>10. PlaceInv(j)' /\ NamesInv(j)'
      BY <1>1, <2>8, <2>9 DEF PlaceInv, DirPlaces, NamesInv, BeforeTree
    <2>11. EntryInv(j, x, f)
      BY <2>8 DEF EntryInv
    <2>12. SoundEntry(f)'
      <3>1. f.bytes = DataBytes(f) + NCBytes(CurrentTree(f))
        <4>1. CurrentTree(f) = NoJob /\ DataBytes(f) = DataBytes(e) /\ DataBytes(f) \in Nat
          BY <2>3, <2>6, BytesNat DEF CurrentTree, DataBytes
        <4> QED BY <2>6, <4>1, NoBytes
      <3>2. Exact(f)'
        BY <3>1 DEF Exact
      <3> QED BY <2>3, <2>4, <2>6, <3>2 DEF SoundEntry
    <2>13. Alters(j, e, f)
      BY <1>0, <2>2, <2>3, <2>6 DEF Alters, Edits
    <2> QED BY <1>0, <2>1, <2>3, <2>4, <2>6, <2>8, <2>9, <2>10, <2>11, <2>12, <2>13, EntryStep
  <1> QED BY <1>2, <1>3

LEMMA DiscardKeeps ==
  ASSUME NCInv, NEW j \in Jobs, Discard(j)
  PROVE  NCInv'
  <1>0. /\ NCTypes /\ PlaceInv(j) /\ EntryInv(j, ncJob[j], entry[KeyOf[j]]) /\ NamesInv(j) /\ j # NoJob
        /\ ncJob[j] \in UseRecords /\ ncJob \in [Jobs -> UseRecords] /\ KeyOf[j] \in Keys
        /\ ncJob[j].pc = "discard" /\ mu = NoJob
        /\ UNCHANGED <<mu, ncGate, marker, ncUp, scan, now>> /\ ncGate \in [Keys -> Jobs \cup {NoJob}]
        /\ retiring \subseteq ncTombs
    BY JobIs DEF NCInv, Discard, Unlocked, NCTypes
  <1>1. j \notin TreeJobs /\ j \in DirJobs /\ ~ncJob[j].stage
    BY <1>0, JobFacts DEF PlaceInv, TreePlaces, BeforeTree, UseRecords
  <1>2. PICK x : x = [ncJob[j] EXCEPT !.pc = "done", !.pin = FALSE]
    OBVIOUS
  <1>3. x \in UseRecords /\ x.pc = "done" /\ x.pin = FALSE /\ x.stage = ncJob[j].stage
    BY <1>0, <1>2 DEF UseRecords, TreePlaces
  <1>4. ncJob' = [ncJob EXCEPT ![j] = x] /\ ncJob'[j] = x
    BY <1>0, <1>2 DEF Discard
  <1>5. PlaceInv(j)' /\ NamesInv(j)'
    BY <1>1, <1>3, <1>4 DEF PlaceInv, DirPlaces, NamesInv, BeforeTree
  <1>6. \A f : EntryInv(j, x, f)
    BY <1>3 DEF EntryInv
  <1>7. CASE LookupLease(j).directory
    <2>1. entry[KeyOf[j]].there /\ entry[KeyOf[j]].lease = j
      BY <1>7 DEF LookupLease
    <2>2. ~Absent.there
      BY DEF Absent
    <2>3. /\ entry' = [entry EXCEPT ![KeyOf[j]] = Absent]
          /\ ncTombs' = ncTombs \cup {EntryTomb(KeyOf[j])} /\ retiring' = retiring \cup {EntryTomb(KeyOf[j])}
      BY <1>7 DEF Discard
    <2>4. EntryTomb(KeyOf[j]) \in Dropped(KeyOf[j], entry[KeyOf[j]], Absent)
      BY DEF Dropped
    <2>5. Alters(j, entry[KeyOf[j]], Absent)
      BY <1>0, <2>1, <2>2 DEF Alters
    <2> QED BY <1>0, <1>3, <1>4, <1>5, <1>6, <2>2, <2>3, <2>4, <2>5, EntryStep
  <1>8. CASE ~LookupLease(j).directory
    <2>1. UNCHANGED <<entry, ncTombs, retiring>>
      BY <1>8 DEF Discard
    <2> QED BY <1>0, <1>3, <1>4, <1>5, <1>6, <2>1, QuietStep
  <1> QED BY <1>7, <1>8

----------------------------------------------------------------------------
(***************************************************************************)
(* What happens under the lock, outside the jobs: a cache that is not      *)
(* protected may lose trees, get another size, or go.                      *)
(***************************************************************************)
LEMMA UnlockedStep ==
  ASSUME NCInv, mu = NoJob, entry' \in [Keys -> Entries \cup {Absent}],
         UNCHANGED <<mu, ncGate, ncJob, now>>, marker' \in BOOLEAN, ncUp' \in BOOLEAN,
         \A k \in Keys : \/ entry'[k] = entry[k]
                         \/ /\ entry[k].there /\ ~Protected(entry[k])
                            /\ entry'[k].there => entry'[k].gens \subseteq entry[k].gens,
         \A k \in Keys : \A g : GenTomb(k, g) \in ncTombs' =>
            \/ GenTomb(k, g) \in ncTombs
            \/ entry[k].there /\ g \in entry[k].gens,
         \A k \in Keys : \A j : CreateTemp(k, j) \in ncTombs' => CreateTemp(k, j) \in ncTombs,
         retiring' \subseteq ncTombs'
  PROVE  NCTypes' /\ \A j \in Jobs : UseInv(j)'
  <1>1. NCTypes'
    BY DEF NCInv, NCTypes
  <1>2. ASSUME NEW j \in Jobs PROVE UseInv(j)'
    <2>0. /\ PlaceInv(j) /\ EntryInv(j, ncJob[j], entry[KeyOf[j]]) /\ NamesInv(j) /\ j # NoJob /\ KeyOf[j] \in Keys
      BY JobIs
    <2>1. PlaceInv(j)'
      BY <2>0 DEF PlaceInv
    <2>2. EntryInv(j, ncJob[j], entry'[KeyOf[j]])
      <3>1. CASE entry'[KeyOf[j]] = entry[KeyOf[j]]
        BY <2>0, <3>1
      <3>2. CASE entry[KeyOf[j]].there /\ ~Protected(entry[KeyOf[j]])
        <4>1. ncJob[j].pc \notin {"create", "pin", "unpin"}
          BY <2>0 DEF PlaceInv
        <4>2. ~ncJob[j].pin /\ ncJob[j].pc # "measured"
          BY <2>0, <3>2 DEF EntryInv, Protected
        <4>3. ncJob[j].pc \notin {"copying", "generation", "retire"}
          BY <2>0, <4>2 DEF PlaceInv
        <4> QED BY <4>1, <4>2, <4>3 DEF EntryInv
      <3> QED BY <2>0, <3>1, <3>2
    <2>3. NamesInv(j)'
      <3>1. ASSUME ncJob[j].pc \in BeforeTree, NEW k \in Keys
            PROVE  (entry'[k].there => j \notin entry'[k].gens) /\ GenTomb(k, j) \notin ncTombs'
        BY <2>0, <3>1 DEF NamesInv
      <3>2. ncJob[j].pc = "new" => CreateTemp(KeyOf[j], j) \notin ncTombs'
        BY <2>0 DEF NamesInv
      <3>3. ncJob[j].pc # "create"
        BY <2>0 DEF PlaceInv
      <3>4. \A k : GenTomb(k, j)' = GenTomb(k, j) /\ CreateTemp(k, j)' = CreateTemp(k, j)
        BY DEF GenTomb, CreateTemp
      <3> QED BY <3>1, <3>2, <3>3, <3>4 DEF NamesInv
    <2> QED BY <2>1, <2>2, <2>3 DEF UseInv
  <1> QED BY <1>1, <1>2

\* A cache that did not change.
LEMMA SameKey ==
  ASSUME NCInv, NEW k \in Keys, entry'[k] = entry[k], UNCHANGED <<now, marker>>,
         \A g : GenTomb(k, g) \in ncTombs' => GenTomb(k, g) \in ncTombs
  PROVE  KeyInv(k)'
  <1>1. KeyInv(k)
    BY DEF NCInv
  <1>2. SoundEntry(entry[k])' = SoundEntry(entry[k])
    BY DEF SoundEntry, Exact, Protected, DataBytes, CurrentTree, NCBytes
  <1>3. \A g : GenTomb(k, g)' = GenTomb(k, g)
    BY DEF GenTomb
  <1> QED BY <1>1, <1>2, <1>3 DEF KeyInv

\* What the walk knows of a cache whose files and users did not change.
LEMMA SameWalk ==
  ASSUME NCInv, scan # NoScan, NEW k \in DOMAIN scan.used, NEW s, scan' = s,
         UNCHANGED <<ncJob, now>>, entry'[k].there = entry[k].there,
         entry[k].there => /\ entry'[k].tree = entry[k].tree /\ entry'[k].lease = entry[k].lease
                           /\ entry'[k].holders = entry[k].holders /\ entry'[k].used = entry[k].used
                           /\ entry'[k].data = entry[k].data /\ entry'[k].gens = entry[k].gens
                           /\ entry'[k].current = entry[k].current,
         s.kind = scan.kind, s.used = scan.used, s.size[k] = scan.size[k],
         k \in s.done => k \in scan.done, k \in scan.todo => k \in s.todo,
         s.pc = "trees" /\ s.key = k => scan.pc = "trees" /\ scan.key = k
  PROVE  WalkInv(k)'
  <1>0. WalkInv(k)
    BY DEF NCInv, ScanInv
  <1>1. Unused(k)' <=> Unused(k)
    BY DEF Unused
  <1>2. ASSUME entry[k].there
        PROVE  /\ Idle(entry[k])' = Idle(entry[k]) /\ DataBytes(entry[k])' = DataBytes(entry[k])
               /\ NCBytes(CurrentTree(entry[k]))' = NCBytes(CurrentTree(entry[k]))
               /\ entry'[k].gens = entry[k].gens /\ RetainedTrees(entry[k])' = RetainedTrees(entry[k])
    BY <1>2 DEF Idle, Protected, DataBytes, NCBytes, CurrentTree, RetainedTrees
  <1>3. Unused(k) => entry[k].there
    BY DEF Unused
  <1>4. scan'.used[k] < now' /\ (entry'[k].there => scan'.used[k] <= entry'[k].used)
    BY <1>0 DEF WalkInv
  <1>5. ASSUME Unused(k)
        PROVE  /\ Idle(entry[k])'
               /\ \A j \in Jobs : KeyOf[j] = k => ncJob'[j].pc # "pin"
               /\ k \in s.done => s.size[k] = (DataBytes(entry[k]) + NCBytes(CurrentTree(entry[k])))'
               /\ s.pc = "trees" /\ s.key = k => s.size[k] = DataBytes(entry[k])'
               /\ s.kind = "gc" /\ k \notin s.todo => (entry[k].gens = RetainedTrees(entry[k]))'
    BY <1>0, <1>2, <1>3, <1>5 DEF WalkInv
  <1> QED BY <1>1, <1>4, <1>5 DEF WalkInv

\* Nothing but the walk.
LEMMA ScanOnly ==
  ASSUME NCInv, UNCHANGED <<entry, ncTombs, retiring, mu, ncGate, marker, ncJob, ncUp, now>>, ScanInv'
  PROVE  NCInv'
  <1>1. NCTypes'
    BY DEF NCInv, NCTypes
  <1>2. ASSUME NEW j \in Jobs PROVE UseInv(j)'
    <2>1. UseInv(j)
      BY DEF NCInv
    <2>2. PlaceInv(j)' = PlaceInv(j) /\ EntryInv(j, ncJob[j], entry[KeyOf[j]])' = EntryInv(j, ncJob[j], entry[KeyOf[j]])
      BY DEF PlaceInv, EntryInv, DataBytes, NCBytes
    <2>3. NamesInv(j)' = NamesInv(j)
      BY DEF NamesInv, GenTomb, CreateTemp
    <2> QED BY <2>1, <2>2, <2>3 DEF UseInv
  <1>3. \A k \in Keys : KeyInv(k)'
    BY SameKey
  <1> QED BY <1>1, <1>2, <1>3 DEF NCInv

LEMMA ScanStartKeeps ==
  ASSUME NCInv, NEW kind \in {"gc", "measure"}, ScanStart(kind)
  PROVE  NCInv'
  <1>1. PICK ks : ks = {k \in Inventory : Idle(entry[k]) /\ (kind = "measure" => entry[k].unknown)}
    OBVIOUS
  <1>2. /\ UNCHANGED <<entry, ncTombs, retiring, mu, ncGate, marker, ncJob, ncUp, now>> /\ mu = NoJob
        /\ scan' = [kind |-> kind, todo |-> ks, used |-> [k \in ks |-> entry[k].used],
                    size |-> [k \in ks |-> 0], done |-> {}, damaged |-> {}, pc |-> "next", key |-> NoJob]
    BY <1>1 DEF ScanStart, Unlocked
  <1>3. ASSUME NEW k \in ks
        PROVE  k \in Keys /\ entry[k].there /\ Idle(entry[k]) /\ entry[k].used \in Nat /\ entry[k].used < now
    <2>1. k \in Keys /\ entry[k].there /\ Idle(entry[k]) /\ NCTypes /\ KeyInv(k)
      BY <1>1 DEF Inventory, NCInv
    <2> QED BY <2>1, ThereIs DEF Entries, KeyInv, SoundEntry
  <1>4. ScanTypes'
    BY <1>2, <1>3 DEF ScanTypes
  <1>5. ASSUME NEW k \in ks PROVE WalkInv(k)'
    <2>1. \A j \in Jobs : ncJob[j].pc # "pin"
      BY <1>2, JobIs DEF PlaceInv
    <2>2. Idle(entry[k])'
      BY <1>2, <1>3 DEF Idle, Protected
    <2> QED BY <1>2, <1>3, <2>1, <2>2 DEF WalkInv
  <1>6. DOMAIN scan'.used = ks
    BY <1>2
  <1>7. ScanInv'
    BY <1>4, <1>5, <1>6 DEF ScanInv
  <1> QED BY <1>2, <1>7, ScanOnly

\* The fields of the walk.
LEMMA ScanIs ==
  ASSUME NCInv, scan # NoScan
  PROVE  /\ ScanTypes
         /\ \A k \in DOMAIN scan.used : /\ WalkInv(k) /\ k \in Keys /\ scan.used[k] \in Nat
                                        /\ entry[k].there => entry[k] \in Entries /\ KeyInv(k)
  <1>1. ScanTypes /\ \A k \in DOMAIN scan.used : WalkInv(k)
    BY DEF NCInv, ScanInv
  <1>2. \A k \in Keys : (entry[k].there => entry[k] \in Entries) /\ KeyInv(k)
    BY ThereIs DEF NCInv
  <1> QED BY <1>1, <1>2 DEF ScanTypes

LEMMA MeasureNextKeeps ==
  ASSUME NCInv, NEW k \in Keys, MeasureNext(k)
  PROVE  NCInv'
  <1>0. /\ scan # NoScan /\ scan.pc = "next" /\ scan.kind = "measure" /\ k \in scan.todo /\ ScanTypes
        /\ UNCHANGED <<entry, ncTombs, retiring, mu, ncGate, marker, ncJob, ncUp, now>>
    BY ScanIs DEF MeasureNext, ScanAt
  <1>1. PICK s : s = [scan EXCEPT !.pc = "data", !.key = k, !.todo = @ \ {k}]
    OBVIOUS
  <1>2. s = [kind |-> scan.kind, todo |-> scan.todo \ {k}, used |-> scan.used, size |-> scan.size,
             done |-> scan.done, damaged |-> scan.damaged, pc |-> "data", key |-> k]
    BY <1>0, <1>1 DEF ScanTypes
  <1>3. scan' = s
    BY <1>1 DEF MeasureNext
  <1>4. ScanTypes'
    BY <1>0, <1>2, <1>3 DEF ScanTypes
  <1>5. ASSUME NEW l \in DOMAIN scan.used PROVE WalkInv(l)'
    <2>1. WalkInv(l)
      BY <1>0, ScanIs
    <2>2. Unused(l)' = Unused(l) /\ Idle(entry[l])' = Idle(entry[l])
      BY <1>0, <1>2, <1>3 DEF Unused, Idle, Protected
    <2>3. (DataBytes(entry[l]) + NCBytes(CurrentTree(entry[l])))' = DataBytes(entry[l]) + NCBytes(CurrentTree(entry[l]))
      BY <1>0 DEF DataBytes, NCBytes, CurrentTree
    <2> QED BY <1>0, <1>2, <1>3, <2>1, <2>2, <2>3 DEF WalkInv
  <1>6. ScanInv'
    BY <1>2, <1>3, <1>4, <1>5 DEF ScanInv
  <1> QED BY <1>0, <1>6, ScanOnly

LEMMA ScanDataKeeps ==
  ASSUME NCInv, ScanData
  PROVE  NCInv'
  <1>0. /\ scan # NoScan /\ scan.pc = "data" /\ ScanTypes
        /\ UNCHANGED <<entry, ncTombs, retiring, mu, ncGate, marker, ncJob, ncUp, now>>
    BY ScanIs DEF ScanData, ScanAt
  <1>1. PICK k : k = scan.key
    OBVIOUS
  <1>2. k \in DOMAIN scan.used /\ k \notin scan.todo /\ k \notin scan.done
    BY <1>0, <1>1 DEF ScanTypes
  <1>3. CASE entry[k].there /\ entry[k].data # NCMissing
    <2>1. PICK s : s = [scan EXCEPT !.pc = "trees", !.size[k] = DataBytes(entry[k])]
      OBVIOUS
    <2>2. s = [kind |-> scan.kind, todo |-> scan.todo, used |-> scan.used,
               size |-> [scan.size EXCEPT ![k] = DataBytes(entry[k])],
               done |-> scan.done, damaged |-> scan.damaged, pc |-> "trees", key |-> scan.key]
      BY <1>0, <2>1 DEF ScanTypes
    <2>3. scan' = s
      BY <1>1, <1>3, <2>1 DEF ScanData
    <2>4. /\ s.size = [l \in DOMAIN scan.used |-> s.size[l]] /\ s.size[k] = DataBytes(entry[k])
          /\ \A l \in DOMAIN scan.used \ {k} : s.size[l] = scan.size[l]
      BY <1>0, <1>2, <2>2 DEF ScanTypes
    <2>5. ScanTypes'
      BY <1>0, <1>1, <1>2, <2>2, <2>3, <2>4 DEF ScanTypes
    <2>6. ASSUME NEW l \in DOMAIN scan.used PROVE WalkInv(l)'
      <3>1. CASE l # k
        BY <1>0, <1>1, <2>2, <2>3, <2>4, <3>1, SameWalk
      <3>2. CASE l = k
        <4>1. WalkInv(k)
          BY <1>0, <1>2, ScanIs
        <4>2. /\ Unused(k)' = Unused(k) /\ Idle(entry[k])' = Idle(entry[k])
              /\ DataBytes(entry[k])' = DataBytes(entry[k])
              /\ (entry[k].gens = RetainedTrees(entry[k]))' = (entry[k].gens = RetainedTrees(entry[k]))
          BY <1>0, <2>2, <2>3 DEF Unused, Idle, Protected, DataBytes, NCBytes, CurrentTree, RetainedTrees
        <4> QED BY <1>0, <1>2, <2>2, <2>3, <2>4, <3>2, <4>1, <4>2 DEF WalkInv
      <3> QED BY <3>1, <3>2
    <2>7. ScanInv'
      BY <2>2, <2>3, <2>5, <2>6 DEF ScanInv
    <2> QED BY <1>0, <2>7, ScanOnly
  <1>4. CASE ~(entry[k].there /\ entry[k].data # NCMissing)
    <2>1. PICK p \in {"next", "record"} : p = IF scan.kind = "gc" THEN "next" ELSE "record"
      OBVIOUS
    <2>2. PICK s : s = [scan EXCEPT !.pc = p, !.damaged = @ \cup {k}]
      OBVIOUS
    <2>3. s = [kind |-> scan.kind, todo |-> scan.todo, used |-> scan.used, size |-> scan.size,
               done |-> scan.done, damaged |-> scan.damaged \cup {k}, pc |-> p, key |-> scan.key]
      BY <1>0, <2>2 DEF ScanTypes
    <2>4. scan' = s
      BY <1>1, <1>4, <2>1, <2>2 DEF ScanData
    <2>5. ScanTypes'
      BY <1>0, <1>1, <1>2, <2>3, <2>4 DEF ScanTypes
    <2>6. \A l \in DOMAIN scan.used : WalkInv(l)'
      BY <1>0, <2>1, <2>3, <2>4, SameWalk
    <2>7. ScanInv'
      BY <2>3, <2>4, <2>5, <2>6 DEF ScanInv
    <2> QED BY <1>0, <2>7, ScanOnly
  <1> QED BY <1>3, <1>4

----------------------------------------------------------------------------
\* The sum over at most one tree.
LEMMA SumOne ==
  ASSUME NEW g, NEW S \in SUBSET {g}
  PROVE  MapThenSumSet(NCBytes, S) = IF S = {} THEN 0 ELSE NCBytes(g)
  <1> DEFINE F(f) == [s \in SUBSET S |-> IF s = {} THEN 0 ELSE NCBytes(CHOOSE x \in s : TRUE) + f[s \ {CHOOSE x \in s : TRUE}]]
             iter == CHOOSE f : f = F(f)
             h == [s \in SUBSET S |-> IF s = {} THEN 0 ELSE NCBytes(g)]
  <1>1. MapThenSumSet(NCBytes, S) = iter[S]
    BY DEF MapThenSumSet, MapThenFoldSet
  <1>2. ASSUME NEW s \in SUBSET S, s # {}
        PROVE  (CHOOSE x \in s : TRUE) = g /\ s \ {g} = {}
    BY <1>2
  <1>3. h = F(h)
    <2>1. ASSUME NEW s \in SUBSET S
          PROVE  h[s] = IF s = {} THEN 0 ELSE NCBytes(CHOOSE x \in s : TRUE) + h[s \ {CHOOSE x \in s : TRUE}]
      BY <1>2, BytesNat
    <2> QED BY <2>1
  <1>4. iter = F(iter)
    <2> HIDE DEF F, h
    <2> QED BY <1>3
  <1>5. iter[{}] = 0
    <2> HIDE DEF iter
    <2> QED BY <1>4
  <1>6. CASE S = {}
    BY <1>1, <1>5, <1>6
  <1>7. CASE S # {}
    <2> HIDE DEF iter
    <2>1. iter[S] = NCBytes(CHOOSE x \in S : TRUE) + iter[S \ {CHOOSE x \in S : TRUE}]
      BY <1>4, <1>7
    <2> QED BY <2>1, <1>1, <1>2, <1>5, <1>7, BytesNat
  <1> QED BY <1>6, <1>7

\* Which trees there are.
LEMMA CurrentIs ==
  ASSUME NEW e \in Entries
  PROVE  /\ CurrentTree(e) \in e.gens \cup {NoJob} /\ NoJob \notin e.gens
         /\ e.gens = RetainedTrees(e) =>
              \A b \in BOOLEAN : TreeBytes(e, b) = NCBytes(CurrentTree(e))
         /\ TreeBytes(e, TRUE) = NCBytes(CurrentTree(e))
  <1>1. CurrentTree(e) \in e.gens \cup {NoJob} /\ NoJob \notin e.gens
    BY JobFacts DEF CurrentTree, Entries
  <1>2. TreeBytes(e, TRUE) = NCBytes(CurrentTree(e))
    BY DEF TreeBytes
  <1>3. ASSUME e.gens = RetainedTrees(e) PROVE TreeBytes(e, FALSE) = NCBytes(CurrentTree(e))
    <2>1. e.gens \in SUBSET {CurrentTree(e)}
      BY <1>3 DEF RetainedTrees
    <2>2. MapThenSumSet(NCBytes, e.gens) = IF e.gens = {} THEN 0 ELSE NCBytes(CurrentTree(e))
      BY <2>1, SumOne
    <2>3. e.gens = {} => NCBytes(CurrentTree(e)) = 0
      BY <1>1, NoBytes
    <2> QED BY <2>2, <2>3 DEF TreeBytes
  <1> QED BY <1>1, <1>2, <1>3

LEMMA ScanTreesKeeps ==
  ASSUME NCInv, ScanTrees
  PROVE  NCInv'
  <1>0. /\ scan # NoScan /\ scan.pc = "trees" /\ ScanTypes
        /\ UNCHANGED <<entry, ncTombs, retiring, mu, ncGate, marker, ncJob, ncUp, now>>
    BY ScanIs DEF ScanTrees, ScanAt
  <1>1. PICK k : k = scan.key
    OBVIOUS
  <1>2. k \in DOMAIN scan.used /\ k \notin scan.todo /\ k \notin scan.done
    BY <1>0, <1>1 DEF ScanTypes
  <1>3. PICK p \in {"next", "record"} : p = IF scan.kind = "gc" THEN "next" ELSE "record"
    OBVIOUS
  <1>4. PICK n : n = scan.size[k] + IF entry[k].there THEN TreeBytes(entry[k], scan.kind = "measure") ELSE 0
    OBVIOUS
  <1>5. PICK s : s = [scan EXCEPT !.pc = p, !.size[k] = n, !.done = @ \cup {k}]
    OBVIOUS
  <1>6. s = [kind |-> scan.kind, todo |-> scan.todo, used |-> scan.used, size |-> [scan.size EXCEPT ![k] = n],
             done |-> scan.done \cup {k}, damaged |-> scan.damaged, pc |-> p, key |-> scan.key]
    BY <1>0, <1>5 DEF ScanTypes
  <1>7. scan' = s
    BY <1>1, <1>3, <1>4, <1>5 DEF ScanTrees
  <1>8. /\ s.size = [l \in DOMAIN scan.used |-> s.size[l]] /\ s.size[k] = n
        /\ \A l \in DOMAIN scan.used \ {k} : s.size[l] = scan.size[l]
    BY <1>0, <1>2, <1>6 DEF ScanTypes
  <1>9. ScanTypes'
    BY <1>0, <1>1, <1>2, <1>3, <1>6, <1>7, <1>8 DEF ScanTypes
  <1>10. ASSUME NEW l \in DOMAIN scan.used PROVE WalkInv(l)'
    <2>1. CASE l # k
      BY <1>0, <1>3, <1>6, <1>7, <1>8, <2>1, SameWalk
    <2>2. CASE l = k
      <3>1. WalkInv(k) /\ (entry[k].there => entry[k] \in Entries)
        BY <1>0, <1>2, ScanIs
      <3>2. /\ Unused(k)' = Unused(k) /\ Idle(entry[k])' = Idle(entry[k])
            /\ (DataBytes(entry[k]) + NCBytes(CurrentTree(entry[k])))' = DataBytes(entry[k]) + NCBytes(CurrentTree(entry[k]))
            /\ (entry[k].gens = RetainedTrees(entry[k]))' = (entry[k].gens = RetainedTrees(entry[k]))
        BY <1>0, <1>6, <1>7 DEF Unused, Idle, Protected, DataBytes, NCBytes, CurrentTree, RetainedTrees
      <3>3. ASSUME Unused(k) PROVE n = DataBytes(entry[k]) + NCBytes(CurrentTree(entry[k]))
        <4>1. entry[k].there /\ entry[k] \in Entries /\ scan.size[k] = DataBytes(entry[k])
          BY <1>0, <1>1, <3>1, <3>3 DEF WalkInv, Unused
        <4>2. CASE scan.kind = "measure"
          BY <1>4, <4>1, <4>2, CurrentIs
        <4>3. CASE scan.kind = "gc"
          <5>1. entry[k].gens = RetainedTrees(entry[k])
            BY <1>2, <3>1, <3>3, <4>3 DEF WalkInv
          <5>2. TreeBytes(entry[k], FALSE) = NCBytes(CurrentTree(entry[k]))
            BY <4>1, <5>1, CurrentIs
          <5>3. (scan.kind = "measure") = FALSE
            BY <4>3
          <5> QED BY <1>4, <4>1, <5>2, <5>3
        <4> QED BY <1>0, <4>2, <4>3 DEF ScanTypes
      <3>4. s.pc # "trees"
        BY <1>3, <1>6
      <3> QED BY <1>0, <1>2, <1>6, <1>7, <1>8, <2>2, <3>1, <3>2, <3>3, <3>4 DEF WalkInv
    <2> QED BY <2>1, <2>2
  <1>11. ScanInv'
    BY <1>6, <1>7, <1>9, <1>10 DEF ScanInv
  <1> QED BY <1>0, <1>11, ScanOnly

\* A collection detaches the trees nobody links to.
LEMMA CollectUnusedTreesKeeps ==
  ASSUME NCInv, NEW k \in Keys, CollectUnusedTrees(k)
  PROVE  NCInv'
  <1>0. /\ scan # NoScan /\ scan.pc = "next" /\ scan.kind = "gc" /\ k \in scan.todo /\ ScanTypes /\ mu = NoJob
        /\ UNCHANGED <<mu, ncGate, marker, ncJob, ncUp, now>> /\ NCTypes
    BY ScanIs DEF CollectUnusedTrees, ScanAt, Unlocked, NCInv
  <1>1. PICK s : s = [scan EXCEPT !.pc = "data", !.key = k, !.todo = @ \ {k}]
    OBVIOUS
  <1>2. s = [kind |-> scan.kind, todo |-> scan.todo \ {k}, used |-> scan.used, size |-> scan.size,
             done |-> scan.done, damaged |-> scan.damaged, pc |-> "data", key |-> k]
    BY <1>0, <1>1 DEF ScanTypes
  <1>3. scan' = s
    BY <1>1 DEF CollectUnusedTrees
  <1>4. ScanTypes' /\ k \in DOMAIN scan.used /\ k \notin scan.done
    BY <1>0, <1>2, <1>3 DEF ScanTypes
  <1>5. WalkInv(k) /\ KeyInv(k) /\ (entry[k].there => entry[k] \in Entries)
    BY <1>0, <1>4, ScanIs DEF NCInv
  <1>6. CASE ~Idle(entry[k])
    <2>1. UNCHANGED <<entry, ncTombs, retiring>>
      BY <1>6 DEF CollectUnusedTrees
    <2>2. ASSUME NEW l \in DOMAIN scan.used PROVE WalkInv(l)'
      <3>1. CASE l # k
        BY <1>0, <1>2, <1>3, <2>1, <3>1, SameWalk
      <3>2. CASE l = k
        <4>1. ~Unused(k) /\ ~Unused(k)'
          BY <1>2, <1>3, <1>5, <1>6, <2>1 DEF WalkInv, Unused
        <4> QED BY <1>0, <1>2, <1>3, <1>5, <2>1, <3>2, <4>1 DEF WalkInv
      <3> QED BY <3>1, <3>2
    <2>3. ScanInv'
      BY <1>2, <1>3, <1>4, <2>2 DEF ScanInv
    <2> QED BY <1>0, <2>1, <2>3, ScanOnly
  <1>7. CASE Idle(entry[k])
    <2>1. PICK e : e = entry[k]
      OBVIOUS
    <2>2. e.there /\ e.tree /\ ~Protected(e) /\ e \in Entries /\ SoundEntry(e)
      BY <1>5, <1>7, <2>1 DEF Idle, KeyInv
    <2>3. PICK f : f = [e EXCEPT !.gens = RetainedTrees(e)]
      OBVIOUS
    <2>4. /\ f \in Entries /\ f.there /\ f.lease = e.lease /\ f.tree = e.tree /\ f.holders = e.holders
          /\ f.used = e.used /\ f.unknown = e.unknown /\ f.gens = RetainedTrees(e) /\ f.current = e.current
          /\ f.data = e.data /\ f.bytes = e.bytes
      <3>1. RetainedTrees(e) \subseteq TreeJobs
        BY <2>2 DEF RetainedTrees, Entries
      <3> QED BY <2>2, <2>3, <3>1 DEF Entries
    <2>5. PICK unused : unused = {GenTomb(k, g) : g \in e.gens \ RetainedTrees(e)}
      OBVIOUS
    <2>6. /\ entry' = [entry EXCEPT ![k] = f] /\ ncTombs' = ncTombs \cup unused /\ retiring' = retiring \cup unused
      BY <1>7, <2>1, <2>3, <2>5 DEF CollectUnusedTrees
    <2>7. /\ entry' \in [Keys -> Entries \cup {Absent}] /\ entry'[k] = f /\ \A l \in Keys \ {k} : entry'[l] = entry[l]
          /\ retiring' \subseteq ncTombs'
      BY <1>0, <2>4, <2>6 DEF NCTypes
    <2>8. f.gens \subseteq e.gens /\ CurrentTree(f) = CurrentTree(e) /\ RetainedTrees(f) = f.gens
      BY <2>2, <2>4 DEF CurrentTree, RetainedTrees
    <2>9. \A l \in Keys : \A g : GenTomb(l, g) \in unused => l = k /\ g \in e.gens \ f.gens
      BY <2>4, <2>5 DEF GenTomb
    <2>10. \A l \in Keys : \A j : CreateTemp(l, j) \notin unused
      BY <2>5 DEF GenTomb, CreateTemp
    <2>11. NCTypes' /\ \A j \in Jobs : UseInv(j)'
      <3>1. \A l \in Keys : \/ entry'[l] = entry[l]
                            \/ /\ entry[l].there /\ ~Protected(entry[l])
                               /\ entry'[l].there => entry'[l].gens \subseteq entry[l].gens
        BY <2>1, <2>2, <2>7, <2>8
      <3>2. \A l \in Keys : \A g : GenTomb(l, g) \in ncTombs' =>
              GenTomb(l, g) \in ncTombs \/ (entry[l].there /\ g \in entry[l].gens)
        BY <2>1, <2>2, <2>6, <2>9
      <3>3. \A l \in Keys : \A j : CreateTemp(l, j) \in ncTombs' => CreateTemp(l, j) \in ncTombs
        BY <2>6, <2>10
      <3>4. marker' \in BOOLEAN /\ ncUp' \in BOOLEAN
        BY <1>0 DEF NCTypes
      <3> QED BY <1>0, <2>7, <3>1, <3>2, <3>3, <3>4, UnlockedStep
    <2>12. ASSUME NEW l \in Keys PROVE KeyInv(l)'
      <3>1. CASE l # k
        BY <1>0, <2>6, <2>7, <2>9, <3>1, SameKey
      <3>2. CASE l = k
        <4>1. Exact(f)'
          <5>1. Exact(e) /\ marker' = marker
            BY <1>0, <2>2 DEF SoundEntry
          <5> QED BY <2>2, <2>4, <2>8, <5>1 DEF Exact, Protected, DataBytes
        <4>2. SoundEntry(f)'
          <5>1. f.current # NoJob => f.current \in f.gens
            BY <2>2, <2>4 DEF SoundEntry, RetainedTrees, CurrentTree
          <5> QED BY <1>0, <2>2, <2>4, <4>1, <5>1 DEF SoundEntry
        <4>3. SoundEntry(entry[k])'
          BY <2>7, <4>2 DEF SoundEntry, Exact, Protected, DataBytes, CurrentTree, NCBytes
        <4>4. \A g \in f.gens : GenTomb(k, g) \notin ncTombs'
          BY <1>5, <2>1, <2>2, <2>6, <2>8, <2>9 DEF KeyInv
        <4> QED BY <2>7, <3>2, <4>3, <4>4 DEF KeyInv, GenTomb
      <3> QED BY <3>1, <3>2
    <2>13. ASSUME NEW l \in DOMAIN scan.used PROVE WalkInv(l)'
      <3>0. l \in Keys
        BY <1>0 DEF ScanTypes
      <3>1. CASE l # k
        BY <1>0, <1>2, <1>3, <2>7, <3>0, <3>1, SameWalk
      <3>2. CASE l = k
        <4>1. Unused(k)' <=> Unused(k)
          BY <1>2, <1>3, <2>1, <2>2, <2>4, <2>7 DEF Unused
        <4>2. Idle(entry[k])' /\ (entry[k].gens = RetainedTrees(entry[k]))'
          BY <2>2, <2>4, <2>7, <2>8 DEF Idle, Protected, RetainedTrees, CurrentTree
        <4>3. scan'.used[k] < now' /\ (entry'[k].there => scan'.used[k] <= entry'[k].used)
          BY <1>0, <1>2, <1>3, <1>5, <2>1, <2>2, <2>4, <2>7 DEF WalkInv
        <4> QED BY <1>0, <1>2, <1>3, <1>4, <1>5, <3>2, <4>1, <4>2, <4>3 DEF WalkInv
      <3> QED BY <3>1, <3>2
    <2>14. ScanInv'
      BY <1>2, <1>3, <1>4, <2>13 DEF ScanInv
    <2> QED BY <2>11, <2>12, <2>14 DEF NCInv
  <1> QED BY <1>6, <1>7

----------------------------------------------------------------------------
\* A size that is adopted is the size of what is there.
LEMMA AdoptIs ==
  ASSUME NCInv, scan # NoScan, NEW k \in Keys
  PROVE  \/ Adopt(k) = entry[k]
         \/ /\ Idle(entry[k]) /\ entry[k] \in Entries /\ SoundEntry(entry[k])
            /\ Adopt(k) \in Entries /\ Adopt(k).there = TRUE /\ Adopt(k).tree = entry[k].tree
            /\ Adopt(k).lease = entry[k].lease /\ Adopt(k).holders = entry[k].holders
            /\ Adopt(k).used = entry[k].used /\ Adopt(k).data = entry[k].data
            /\ Adopt(k).gens = entry[k].gens /\ Adopt(k).current = entry[k].current
            /\ Adopt(k).bytes = DataBytes(Adopt(k)) + NCBytes(CurrentTree(Adopt(k)))
  <1>1. CASE ~(k \in scan.done /\ StillIdle(k))
    BY <1>1 DEF Adopt
  <1>2. CASE k \in scan.done /\ StillIdle(k)
    <2>1. k \in DOMAIN scan.used /\ WalkInv(k) /\ Unused(k) /\ Idle(entry[k]) /\ KeyInv(k)
      BY <1>2, ScanIs DEF ScanTypes, StillIdle, Idle, Unused, NCInv
    <2>2. entry[k] \in Entries /\ SoundEntry(entry[k])
      BY <2>1, ScanIs DEF Idle, KeyInv
    <2>3. scan.size[k] = DataBytes(entry[k]) + NCBytes(CurrentTree(entry[k])) /\ scan.size[k] \in Nat
      BY <1>2, <2>1, BytesNat DEF WalkInv, DataBytes
    <2>4. PICK f : f = [entry[k] EXCEPT !.bytes = scan.size[k], !.unknown = FALSE]
      OBVIOUS
    <2>5. /\ f \in Entries /\ f.there = TRUE /\ f.tree = entry[k].tree /\ f.lease = entry[k].lease
          /\ f.holders = entry[k].holders /\ f.used = entry[k].used /\ f.data = entry[k].data
          /\ f.gens = entry[k].gens /\ f.current = entry[k].current /\ f.bytes = scan.size[k]
      BY <2>2, <2>3, <2>4 DEF Entries
    <2>6. Adopt(k) = f
      BY <1>2, <2>4 DEF Adopt
    <2>7. f.bytes = DataBytes(f) + NCBytes(CurrentTree(f))
      BY <2>3, <2>5 DEF DataBytes, CurrentTree
    <2> QED BY <2>1, <2>2, <2>5, <2>6, <2>7
  <1> QED BY <1>1, <1>2

\* The cache with another size, or with one known to be stale.
LEMMA ResizedKey ==
  ASSUME NCInv, NEW k \in Keys, NEW f, entry'[k] = f, f.there, entry[k].there,
         f.tree = entry[k].tree, f.lease = entry[k].lease, f.holders = entry[k].holders,
         f.used = entry[k].used, f.gens = entry[k].gens, f.current = entry[k].current,
         UNCHANGED <<now, marker>>,
         f.unknown \/ f.bytes = DataBytes(f) + NCBytes(CurrentTree(f)),
         \A g : GenTomb(k, g) \in ncTombs' => GenTomb(k, g) \in ncTombs
  PROVE  KeyInv(k)'
  <1>1. SoundEntry(entry[k]) /\ \A g \in f.gens : GenTomb(k, g) \notin ncTombs
    BY DEF NCInv, KeyInv
  <1>2. Exact(f)'
    BY DEF Exact
  <1>3. SoundEntry(f)'
    BY <1>1, <1>2 DEF SoundEntry
  <1>4. SoundEntry(entry[k])'
    BY <1>3 DEF SoundEntry, Exact, Protected, DataBytes, CurrentTree, NCBytes
  <1>5. \A g : GenTomb(k, g)' = GenTomb(k, g)
    BY DEF GenTomb
  <1> QED BY <1>1, <1>4, <1>5 DEF KeyInv

LEMMA RecordMeasurementKeeps ==
  ASSUME NCInv, RecordMeasurement
  PROVE  NCInv'
  <1>0. /\ scan # NoScan /\ scan.pc = "record" /\ ScanTypes /\ mu = NoJob /\ NCTypes
        /\ UNCHANGED <<ncTombs, retiring, mu, ncGate, marker, ncJob, ncUp, now>>
    BY ScanIs DEF RecordMeasurement, ScanAt, Unlocked, NCInv
  <1>1. PICK k : k = scan.key
    OBVIOUS
  <1>2. k \in DOMAIN scan.used /\ k \in Keys
    BY <1>0, <1>1 DEF ScanTypes
  <1>3. PICK f : f = Adopt(k)
    OBVIOUS
  <1>4. \/ f = entry[k]
        \/ /\ Idle(entry[k]) /\ entry[k] \in Entries
           /\ f \in Entries /\ f.there = TRUE /\ f.tree = entry[k].tree /\ f.lease = entry[k].lease
           /\ f.holders = entry[k].holders /\ f.used = entry[k].used /\ f.data = entry[k].data
           /\ f.gens = entry[k].gens /\ f.current = entry[k].current
           /\ f.bytes = DataBytes(f) + NCBytes(CurrentTree(f))
    BY <1>0, <1>2, <1>3, AdoptIs
  <1>5. f \in Entries \cup {Absent}
    BY <1>0, <1>2, <1>4 DEF NCTypes
  <1>6. /\ entry' \in [Keys -> Entries \cup {Absent}] /\ entry'[k] = f /\ \A l \in Keys \ {k} : entry'[l] = entry[l]
    BY <1>0, <1>1, <1>2, <1>3, <1>5 DEF RecordMeasurement, NCTypes
  <1>7. PICK s : s = [scan EXCEPT !.pc = "next"]
    OBVIOUS
  <1>8. s = [kind |-> scan.kind, todo |-> scan.todo, used |-> scan.used, size |-> scan.size,
             done |-> scan.done, damaged |-> scan.damaged, pc |-> "next", key |-> scan.key]
    BY <1>0, <1>7 DEF ScanTypes
  <1>9. scan' = s
    BY <1>7 DEF RecordMeasurement
  <1>10. ScanTypes'
    BY <1>0, <1>8, <1>9 DEF ScanTypes
  <1>11. NCTypes' /\ \A j \in Jobs : UseInv(j)'
    <2>1. \A l \in Keys : \/ entry'[l] = entry[l]
                          \/ /\ entry[l].there /\ ~Protected(entry[l])
                             /\ entry'[l].there => entry'[l].gens \subseteq entry[l].gens
      BY <1>4, <1>6 DEF Idle
    <2>2. marker' \in BOOLEAN /\ ncUp' \in BOOLEAN /\ retiring' \subseteq ncTombs'
      BY <1>0 DEF NCTypes
    <2> QED BY <1>0, <1>6, <2>1, <2>2, UnlockedStep
  <1>12. ASSUME NEW l \in Keys PROVE KeyInv(l)'
    <2>1. CASE entry'[l] = entry[l]
      BY <1>0, <2>1, SameKey
    <2>2. CASE entry'[l] # entry[l]
      <3>1. l = k /\ f # entry[k]
        BY <1>6, <2>2
      <3>2. entry[k].there /\ f.there
        BY <1>4, <3>1 DEF Idle
      <3> QED BY <1>0, <1>2, <1>4, <1>6, <3>1, <3>2, ResizedKey
    <2> QED BY <2>1, <2>2
  <1>13. ASSUME NEW l \in DOMAIN scan.used PROVE WalkInv(l)'
    <2>0. l \in Keys
      BY <1>0 DEF ScanTypes
    <2>1. CASE entry'[l] = entry[l]
      BY <1>0, <1>8, <1>9, <2>1, SameWalk
    <2>2. CASE entry'[l] # entry[l]
      <3>1. l = k /\ f # entry[k]
        BY <1>6, <2>0, <2>2
      <3>2. entry[k].there = TRUE
        BY <1>4, <3>1 DEF Entries
      <3>3. /\ entry'[k].there = TRUE /\ entry'[k].tree = entry[k].tree /\ entry'[k].lease = entry[k].lease
            /\ entry'[k].holders = entry[k].holders /\ entry'[k].used = entry[k].used
            /\ entry'[k].data = entry[k].data /\ entry'[k].gens = entry[k].gens
            /\ entry'[k].current = entry[k].current
        BY <1>4, <1>6, <3>1
      <3>4. /\ s.kind = scan.kind /\ s.used = scan.used /\ s.size = scan.size /\ s.done = scan.done
            /\ s.todo = scan.todo /\ s.pc # "trees"
        BY <1>8
      <3> QED BY <1>0, <1>2, <1>9, <3>1, <3>2, <3>3, <3>4, SameWalk
    <2> QED BY <2>1, <2>2
  <1>14. ScanInv'
    BY <1>8, <1>9, <1>10, <1>13 DEF ScanInv
  <1> QED BY <1>11, <1>12, <1>14 DEF NCInv

\* GC ends: sizes are adopted, and caches nobody uses go.
LEMMA GCEvictKeeps ==
  ASSUME NCInv, GCEvict
  PROVE  NCInv'
  <1>0. /\ scan # NoScan /\ ScanTypes /\ mu = NoJob /\ NCTypes /\ scan' = NoScan
        /\ UNCHANGED <<mu, ncGate, marker, ncJob, ncUp, now>>
    BY ScanIs DEF GCEvict, ScanAt, Unlocked, NCInv
  <1>1. PICK adopted : adopted = [k \in Keys |-> Adopt(k)]
    OBVIOUS
  <1>2. PICK damaged : damaged = {k \in scan.damaged : StillIdle(k)}
    OBVIOUS
  <1>3. PICK gone : gone = damaged \cup NCEvicted(adopted, {k \in Keys : adopted[k].there} \ damaged)
    OBVIOUS
  <1>4. PICK detached : detached = {EntryTomb(k) : k \in gone}
    OBVIOUS
  <1>5. /\ entry' = [k \in Keys |-> IF k \in gone THEN Absent ELSE adopted[k]]
        /\ ncTombs' = ncTombs \cup detached /\ retiring' = ncTombs \cup detached
    BY <1>1, <1>2, <1>3, <1>4 DEF GCEvict
  <1>6. ASSUME NEW k \in Keys
        PROVE  \/ adopted[k] = entry[k]
               \/ /\ Idle(entry[k]) /\ entry[k] \in Entries
                  /\ adopted[k] \in Entries /\ adopted[k].there = TRUE /\ adopted[k].tree = entry[k].tree
                  /\ adopted[k].lease = entry[k].lease
                  /\ adopted[k].holders = entry[k].holders /\ adopted[k].used = entry[k].used
                  /\ adopted[k].data = entry[k].data
                  /\ adopted[k].gens = entry[k].gens /\ adopted[k].current = entry[k].current
                  /\ adopted[k].bytes = DataBytes(adopted[k]) + NCBytes(CurrentTree(adopted[k]))
    BY <1>0, <1>1, AdoptIs
  <1>7. ASSUME NEW k \in gone PROVE k \in Keys /\ entry[k].there /\ ~Protected(entry[k])
    <2>1. CASE k \in damaged
      BY <1>0, <1>2, <2>1 DEF StillIdle, Idle, ScanTypes
    <2>2. CASE k \in NCEvicted(adopted, {i \in Keys : adopted[i].there} \ damaged)
      <3>1. k \in Keys /\ adopted[k].there /\ ~Protected(adopted[k])
        BY <2>2 DEF NCEvicted
      <3> QED BY <1>6, <3>1 DEF Idle
    <2> QED BY <1>3, <1>7, <2>1, <2>2
  <1>8. ASSUME NEW k \in Keys PROVE entry'[k] = (IF k \in gone THEN Absent ELSE adopted[k])
    BY <1>5
  <1>9. entry' \in [Keys -> Entries \cup {Absent}]
    <2>1. ASSUME NEW k \in Keys PROVE adopted[k] \in Entries \cup {Absent}
      BY <1>0, <1>6 DEF NCTypes
    <2> QED BY <1>5, <2>1
  <1>10. \A k \in Keys : \A g : GenTomb(k, g) \notin detached /\ CreateTemp(k, g) \notin detached
    BY <1>4 DEF GenTomb, CreateTemp, EntryTomb
  <1>11. NCTypes' /\ \A j \in Jobs : UseInv(j)'
    <2>1. ASSUME NEW k \in Keys
          PROVE  \/ entry'[k] = entry[k]
                 \/ /\ entry[k].there /\ ~Protected(entry[k])
                    /\ entry'[k].there => entry'[k].gens \subseteq entry[k].gens
      <3>1. CASE k \in gone
        BY <1>7, <1>8, <3>1 DEF Absent
      <3>2. CASE k \notin gone
        BY <1>6, <1>8, <3>2 DEF Idle
      <3> QED BY <3>1, <3>2
    <2>2. marker' \in BOOLEAN /\ ncUp' \in BOOLEAN /\ retiring' \subseteq ncTombs'
      BY <1>0, <1>5 DEF NCTypes
    <2>3. \A k \in Keys : \A g : /\ GenTomb(k, g) \in ncTombs' => GenTomb(k, g) \in ncTombs
                                 /\ CreateTemp(k, g) \in ncTombs' => CreateTemp(k, g) \in ncTombs
      BY <1>5, <1>10
    <2> QED BY <1>0, <1>9, <2>1, <2>2, <2>3, UnlockedStep
  <1>12. ASSUME NEW k \in Keys PROVE KeyInv(k)'
    <2>0. \A g : GenTomb(k, g) \in ncTombs' => GenTomb(k, g) \in ncTombs
      BY <1>5, <1>10
    <2>1. CASE k \in gone
      BY <1>8, <2>1 DEF KeyInv, Absent
    <2>2. CASE k \notin gone /\ adopted[k] = entry[k]
      BY <1>0, <1>8, <2>0, <2>2, SameKey
    <2>3. CASE k \notin gone /\ adopted[k] # entry[k]
      <3>1. entry'[k] = adopted[k] /\ entry[k].there /\ adopted[k].there
        BY <1>6, <1>8, <2>3 DEF Idle
      <3> QED BY <1>0, <1>6, <2>0, <2>3, <3>1, ResizedKey
    <2> QED BY <2>1, <2>2, <2>3
  <1>13. ScanInv'
    BY <1>0 DEF ScanInv
  <1> QED BY <1>11, <1>12, <1>13 DEF NCInv

LEMMA MeasureStopKeeps ==
  ASSUME NCInv, MeasureStop
  PROVE  NCInv'
  <1>1. scan' = NoScan /\ UNCHANGED <<entry, ncTombs, retiring, mu, ncGate, marker, ncJob, ncUp, now>>
    BY DEF MeasureStop
  <1>2. ScanInv'
    BY <1>1 DEF ScanInv
  <1> QED BY <1>1, <1>2, ScanOnly

\* The walk where nothing of the caches' files and users, and nothing of the walk, changes.
LEMMA StillScan ==
  ASSUME NCInv, scan' = scan, UNCHANGED <<ncJob, now>>,
         \A k \in Keys : entry'[k] = entry[k] \/
           /\ entry[k].there = TRUE /\ entry'[k].there = TRUE
           /\ entry'[k].tree = entry[k].tree /\ entry'[k].lease = entry[k].lease
           /\ entry'[k].holders = entry[k].holders /\ entry'[k].used = entry[k].used
           /\ entry'[k].data = entry[k].data /\ entry'[k].gens = entry[k].gens
           /\ entry'[k].current = entry[k].current
  PROVE  ScanInv'
  <1>1. CASE scan = NoScan
    BY <1>1 DEF ScanInv, NoScan
  <1>2. CASE scan # NoScan
    <2>1. ScanTypes'
      BY <1>2 DEF NCInv, ScanInv, ScanTypes
    <2>2. ASSUME NEW k \in DOMAIN scan.used PROVE WalkInv(k)'
      <3>1. k \in Keys
        BY <1>2, ScanIs
      <3> QED BY <1>2, <3>1, SameWalk
    <2> QED BY <2>1, <2>2 DEF ScanInv
  <1> QED BY <1>1, <1>2

LEMMA MarkSizeStaleKeeps ==
  ASSUME NCInv, NEW k \in Keys, MarkSizeStale(k)
  PROVE  NCInv'
  <1>0. /\ mu = NoJob /\ NCTypes /\ Idle(entry[k]) /\ entry[k].there /\ ~Protected(entry[k])
        /\ UNCHANGED <<ncTombs, retiring, mu, ncGate, marker, ncJob, ncUp, scan, now>>
    BY DEF MarkSizeStale, Unlocked, NCInv, LegacyTodo, Idle
  <1>1. entry[k] \in Entries
    BY <1>0, ThereIs
  <1>2. PICK f : f = [entry[k] EXCEPT !.unknown = TRUE]
    OBVIOUS
  <1>3. /\ f \in Entries /\ f.there = TRUE /\ f.tree = entry[k].tree /\ f.lease = entry[k].lease
        /\ f.holders = entry[k].holders /\ f.used = entry[k].used /\ f.data = entry[k].data
        /\ f.gens = entry[k].gens /\ f.current = entry[k].current /\ f.unknown /\ entry[k].there = TRUE
    BY <1>1, <1>2 DEF Entries
  <1>4. /\ entry' \in [Keys -> Entries \cup {Absent}] /\ entry'[k] = f /\ \A l \in Keys \ {k} : entry'[l] = entry[l]
    BY <1>0, <1>2, <1>3 DEF MarkSizeStale, NCTypes
  <1>5. NCTypes' /\ \A j \in Jobs : UseInv(j)'
    <2>1. \A l \in Keys : \/ entry'[l] = entry[l]
                          \/ /\ entry[l].there /\ ~Protected(entry[l])
                             /\ entry'[l].there => entry'[l].gens \subseteq entry[l].gens
      BY <1>0, <1>3, <1>4
    <2>2. marker' \in BOOLEAN /\ ncUp' \in BOOLEAN /\ retiring' \subseteq ncTombs'
      BY <1>0 DEF NCTypes
    <2> QED BY <1>0, <1>4, <2>1, <2>2, UnlockedStep
  <1>6. ASSUME NEW l \in Keys PROVE KeyInv(l)'
    <2>1. CASE l # k
      BY <1>0, <1>4, <2>1, SameKey
    <2>2. CASE l = k
      BY <1>0, <1>3, <1>4, <2>2, ResizedKey
    <2> QED BY <2>1, <2>2
  <1>7. ScanInv'
    BY <1>0, <1>3, <1>4, StillScan
  <1> QED BY <1>5, <1>6, <1>7 DEF NCInv

\* The marker comes when no idle tree reports a size of the older runner.
LEMMA LegacyMarkerKeeps ==
  ASSUME NCInv, LegacyMarker
  PROVE  NCInv'
  <1>0. /\ mu = NoJob /\ NCTypes /\ LegacyTodo = {} /\ marker' = TRUE
        /\ UNCHANGED <<entry, ncTombs, retiring, mu, ncGate, ncJob, ncUp, scan, now>>
    BY DEF LegacyMarker, Unlocked, NCInv
  <1>1. NCTypes' /\ \A j \in Jobs : UseInv(j)'
    <2>1. marker' \in BOOLEAN /\ ncUp' \in BOOLEAN /\ retiring' \subseteq ncTombs' /\ entry' \in [Keys -> Entries \cup {Absent}]
      BY <1>0 DEF NCTypes
    <2> QED BY <1>0, <2>1, UnlockedStep
  <1>2. ASSUME NEW k \in Keys PROVE KeyInv(k)'
    <2>1. CASE ~entry[k].there
      BY <1>0, <2>1 DEF KeyInv
    <2>2. CASE entry[k].there
      <3>1. SoundEntry(entry[k]) /\ \A g \in entry[k].gens : GenTomb(k, g) \notin ncTombs
        BY <2>2 DEF NCInv, KeyInv
      <3>2. entry[k].tree /\ ~Protected(entry[k]) => entry[k].unknown
        BY <1>0, <2>2 DEF LegacyTodo, Inventory, Idle
      <3>3. Exact(entry[k])'
        BY <1>0, <3>1, <3>2 DEF SoundEntry, Exact, Protected, DataBytes, CurrentTree, NCBytes
      <3>4. SoundEntry(entry[k])'
        BY <1>0, <3>1, <3>3 DEF SoundEntry
      <3> QED BY <1>0, <3>1, <3>4 DEF KeyInv, GenTomb
    <2>3. entry[k].there \in BOOLEAN
      BY <1>0, ThereIs
    <2> QED BY <2>1, <2>2, <2>3
  <1>3. ScanInv'
    BY <1>0, StillScan
  <1> QED BY <1>1, <1>2, <1>3 DEF NCInv

LEMMA RemoveRetiredKeeps ==
  ASSUME NCInv, NEW t, NEW ok \in BOOLEAN, RemoveRetired(t, ok)
  PROVE  NCInv'
  <1>0. /\ mu = NoJob /\ NCTypes
        /\ UNCHANGED <<entry, mu, ncGate, marker, ncJob, ncUp, scan, now>>
        /\ ncTombs' \subseteq ncTombs /\ retiring' \subseteq ncTombs'
    BY DEF RemoveRetired, Unlocked, NCInv, NCTypes
  <1>1. NCTypes' /\ \A j \in Jobs : UseInv(j)'
    <2>1. marker' \in BOOLEAN /\ ncUp' \in BOOLEAN /\ entry' \in [Keys -> Entries \cup {Absent}]
      BY <1>0 DEF NCTypes
    <2> QED BY <1>0, <2>1, UnlockedStep
  <1>2. \A k \in Keys : KeyInv(k)'
    BY <1>0, SameKey
  <1>3. ScanInv'
    BY <1>0, StillScan
  <1> QED BY <1>1, <1>2, <1>3 DEF NCInv

LEMMA NCServeKeeps ==
  ASSUME NCInv, NCServe
  PROVE  NCInv'
  <1>0. ncUp' = TRUE /\ UNCHANGED <<entry, ncTombs, retiring, mu, ncGate, marker, ncJob, scan, now>>
    BY DEF NCServe
  <1>1. NCTypes'
    BY <1>0 DEF NCInv, NCTypes
  <1>2. ASSUME NEW j \in Jobs PROVE UseInv(j)'
    <2>1. UseInv(j)
      BY DEF NCInv
    <2>2. PlaceInv(j)' = PlaceInv(j) /\ EntryInv(j, ncJob[j], entry[KeyOf[j]])' = EntryInv(j, ncJob[j], entry[KeyOf[j]])
      BY <1>0 DEF PlaceInv, EntryInv, DataBytes, NCBytes
    <2>3. NamesInv(j)' = NamesInv(j)
      BY <1>0 DEF NamesInv, GenTomb, CreateTemp
    <2> QED BY <2>1, <2>2, <2>3 DEF UseInv
  <1>3. \A k \in Keys : KeyInv(k)'
    BY <1>0, SameKey
  <1>4. ScanInv'
    BY <1>0, StillScan
  <1> QED BY <1>1, <1>2, <1>3, <1>4 DEF NCInv

\* The daemon dies: what is on disk stays, and a job that had begun is "crashed".
LEMMA CacheCrashKeeps ==
  ASSUME NCInv, Crash
  PROVE  NCInv'
  <1>0. /\ NCTypes /\ ncUp' = FALSE /\ mu' = NoJob /\ ncGate' = [k \in Keys |-> NoJob]
        /\ retiring' = {} /\ scan' = NoScan /\ UNCHANGED <<entry, ncTombs, marker, now>>
        /\ ncJob' = [j \in Jobs |-> IF ncJob[j].pc \in {"new", "done"} THEN ncJob[j]
                            ELSE [NCFresh("crashed", ncJob[j].pin) EXCEPT !.stage = ncJob[j].stage]]
    BY DEF Crash, NCInv
  <1>1. ASSUME NEW j \in Jobs
        PROVE  /\ ncJob'[j] \in UseRecords /\ ncJob'[j].pin = ncJob[j].pin /\ ncJob'[j].stage = ncJob[j].stage
               /\ \/ ncJob[j].pc \in {"new", "done"} /\ ncJob'[j] = ncJob[j]
                  \/ ncJob'[j].pc = "crashed"
    <2>0. ncJob[j] \in UseRecords
      BY JobIs
    <2>1. CASE ncJob[j].pc \in {"new", "done"}
      BY <1>0, <2>0, <2>1
    <2>2. CASE ncJob[j].pc \notin {"new", "done"}
      <3>1. PICK y : y = NCFresh("crashed", ncJob[j].pin)
        OBVIOUS
      <3>2. y \in UseRecords /\ y.pc = "crashed" /\ y.pin = ncJob[j].pin
        <4>1. ncJob[j].pin \in BOOLEAN /\ "crashed" \in TreePlaces \cup DirPlaces
          BY <2>0 DEF UseRecords, DirPlaces
        <4> QED BY <3>1, <4>1, FreshIs
      <3>3. ncJob'[j] = [y EXCEPT !.stage = ncJob[j].stage] /\ ncJob[j].stage \in BOOLEAN
        BY <1>0, <2>0, <2>2, <3>1 DEF UseRecords
      <3> QED BY <3>2, <3>3 DEF UseRecords
    <2> QED BY <2>1, <2>2
  <1>2. NCTypes'
    <2>1. ncJob' \in [Jobs -> UseRecords]
      BY <1>0, <1>1
    <2> QED BY <1>0, <2>1 DEF NCTypes
  <1>3. ASSUME NEW j \in Jobs PROVE UseInv(j)'
    <2>0. PlaceInv(j) /\ EntryInv(j, ncJob[j], entry[KeyOf[j]]) /\ NamesInv(j)
      BY JobIs
    <2>1. PlaceInv(j)'
      BY <1>1, <2>0 DEF PlaceInv, TreePlaces, DirPlaces
    <2>2. EntryInv(j, ncJob'[j], entry[KeyOf[j]])
      BY <1>1, <2>0 DEF EntryInv
    <2>3. NamesInv(j)'
      BY <1>0, <1>1, <2>0 DEF NamesInv, BeforeTree, GenTomb, CreateTemp
    <2> QED BY <1>0, <2>1, <2>2, <2>3 DEF UseInv
  <1>4. \A k \in Keys : KeyInv(k)'
    BY <1>0, SameKey
  <1>5. ScanInv'
    BY <1>0 DEF ScanInv
  <1> QED BY <1>2, <1>3, <1>4, <1>5 DEF NCInv

----------------------------------------------------------------------------
\* The store a runner finds.
LEMMA OldEntriesSound ==
  ASSUME NEW k \in Keys, NEW e \in OldEntries(k), marker = FALSE, now = 1
  PROVE  \/ e = Absent
         \/ /\ e \in Entries /\ SoundEntry(e) /\ e.gens = {} /\ e.there
            /\ e.lease # NoJob => e.lease \in DirJobs
  <1>1. ASSUME NEW tree \in BOOLEAN, NEW lease \in DirJobs \cup {NoJob}, NEW data \in Contents,
               tree => lease = NoJob, e = OldEntry(tree, lease, data)
        PROVE  e \in Entries /\ SoundEntry(e) /\ e.gens = {} /\ e.there /\ (e.lease # NoJob => e.lease \in DirJobs)
    <2>1. PICK b \in Nat : b = IF tree THEN 1 ELSE NCBytes(data)
      BY BytesNat
    <2>2. e = [there |-> TRUE, tree |-> tree, lease |-> lease, holders |-> {}, used |-> 0,
               bytes |-> b, unknown |-> FALSE, data |-> data, gens |-> {}, current |-> NoJob]
      BY <1>1, <2>1 DEF OldEntry
    <2>3. e \in Entries
      BY <2>1, <2>2 DEF Entries, Trees
    <2>4. Exact(e)
      <3>1. CurrentTree(e) = NoJob /\ DataBytes(e) = NCBytes(data) /\ NCBytes(data) \in Nat
        BY <2>2, BytesNat DEF CurrentTree, DataBytes
      <3>2. ~e.tree => e.bytes = NCBytes(data)
        BY <2>1, <2>2
      <3> QED BY <3>1, <3>2, NoBytes DEF Exact
    <2>5. SoundEntry(e)
      BY <1>1, <2>2, <2>4 DEF SoundEntry
    <2> QED BY <2>2, <2>3, <2>5
  <1>2. DirJobs \subseteq Contents /\ Empty \in Contents /\ NCMissing \in Contents
    BY JobFacts DEF Contents
  <1>3. \/ e = Absent \/ e = OldEntry(TRUE, NoJob, Empty)
        \/ \E j \in DirJobs : e = OldEntry(FALSE, NoJob, j)
        \/ \E j \in DirJobs, c \in DirJobs \cup {NCMissing} : e = OldEntry(FALSE, j, c)
    <2> DEFINE old == {j \in DirJobs : KeyOf[j] = k}
    <2>2. old \subseteq DirJobs
      OBVIOUS
    <2>3. e \in {Absent, OldEntry(TRUE, NoJob, Empty)}
               \cup {OldEntry(FALSE, NoJob, j) : j \in old}
               \cup UNION {{OldEntry(FALSE, j, c) : c \in old \cup {NCMissing}} : j \in old}
      BY DEF OldEntries
    <2> HIDE DEF old
    <2>4. CASE e \in UNION {{OldEntry(FALSE, j, c) : c \in old \cup {NCMissing}} : j \in old}
      BY <2>2, <2>4
    <2>5. CASE e \in {OldEntry(FALSE, NoJob, j) : j \in old}
      BY <2>2, <2>5
    <2> QED BY <2>3, <2>4, <2>5
  <1>4. CASE e = OldEntry(TRUE, NoJob, Empty)
    BY <1>1, <1>2, <1>4
  <1>5. CASE \E j \in DirJobs : e = OldEntry(FALSE, NoJob, j)
    BY <1>1, <1>2, <1>5
  <1>6. CASE \E j \in DirJobs, c \in DirJobs \cup {NCMissing} : e = OldEntry(FALSE, j, c)
    BY <1>1, <1>2, <1>6
  <1> QED BY <1>3, <1>4, <1>5, <1>6

LEMMA NCInitInv == NCInit => NCInv
  <1> SUFFICES ASSUME NCInit PROVE NCInv
    OBVIOUS
  <1>0. /\ ncTombs = {} /\ retiring = {} /\ mu = NoJob /\ ncGate = [k \in Keys |-> NoJob] /\ marker = FALSE
        /\ ncUp = FALSE /\ scan = NoScan /\ now = 1
        /\ entry \in [Keys -> UNION {OldEntries(k) : k \in Keys}] /\ \A k \in Keys : entry[k] \in OldEntries(k)
    BY DEF NCInit
  <1>1. ASSUME NEW k \in Keys
        PROVE  \/ entry[k] = Absent
               \/ /\ entry[k] \in Entries /\ SoundEntry(entry[k]) /\ entry[k].gens = {} /\ entry[k].there
                  /\ entry[k].lease # NoJob => entry[k].lease \in DirJobs
    BY <1>0, OldEntriesSound
  <1>2. entry \in [Keys -> Entries \cup {Absent}]
    BY <1>0, <1>1
  <1>3. ASSUME NEW j \in Jobs
        PROVE  /\ ncJob[j] \in UseRecords /\ ncJob[j].stage = FALSE
               /\ j \in TreeJobs => ncJob[j].pc = "new"
               /\ j \notin TreeJobs => ncJob[j].pc \in {"crashed", "done"}
               /\ ncJob[j].pin => j \notin TreeJobs /\ entry[KeyOf[j]].there /\ entry[KeyOf[j]].lease = j
    <2>1. PICK p : p = IF j \in TreeJobs THEN "new" ELSE IF j \in Leases(entry) THEN "crashed" ELSE "done"
      OBVIOUS
    <2>2. PICK b \in BOOLEAN : b <=> j \in Leases(entry)
      <3>1. CASE j \in Leases(entry)
        BY <3>1
      <3>2. CASE j \notin Leases(entry)
        BY <3>2
      <3> QED BY <3>1, <3>2
    <2>3. ncJob[j] = NCFresh(p, b)
      BY <2>1, <2>2 DEF NCInit
    <2>4. p \in TreePlaces \cup DirPlaces
      BY <2>1 DEF TreePlaces, BeforeTree
    <2>5. /\ ncJob[j] \in UseRecords /\ ncJob[j].stage = FALSE /\ ncJob[j].pc = p /\ ncJob[j].pin = b
      <3>1. /\ NCFresh(p, b) \in UseRecords /\ NCFresh(p, b).pc = p /\ NCFresh(p, b).pin = b
            /\ NCFresh(p, b).stage = FALSE
        BY <2>4, FreshIs
      <3> QED BY <2>3, <3>1
    <2>6. j \in Leases(entry) => j \in DirJobs /\ j \notin TreeJobs /\ entry[KeyOf[j]].there /\ entry[KeyOf[j]].lease = j
      BY JobFacts DEF Leases
    <2> QED BY <2>1, <2>2, <2>5, <2>6
  <1>4. NCTypes
    <2>1. ncJob \in [Jobs -> UseRecords]
      BY <1>3 DEF NCInit
    <2>2. now \in 1 .. MaxTime
      BY <1>0, JobFacts
    <2> QED BY <1>0, <1>2, <2>1, <2>2 DEF NCTypes
  <1>5. ASSUME NEW j \in Jobs PROVE UseInv(j)
    <2>0. KeyOf[j] \in Keys /\ (j \in DirJobs => j \notin TreeJobs)
      BY JobFacts
    <2>1. PlaceInv(j)
      BY <1>3, <2>0 DEF PlaceInv, TreePlaces, BeforeTree, DirPlaces
    <2>2. EntryInv(j, ncJob[j], entry[KeyOf[j]])
      BY <1>3 DEF EntryInv
    <2>3. NamesInv(j)
      <3>1. \A k \in Keys : entry[k].there => j \notin entry[k].gens
        BY <1>1 DEF Absent
      <3>2. ncJob[j].pc # "create"
        BY <1>3
      <3> QED BY <1>0, <3>1, <3>2 DEF NamesInv
    <2> QED BY <2>1, <2>2, <2>3 DEF UseInv
  <1>6. ASSUME NEW k \in Keys PROVE KeyInv(k)
    BY <1>0, <1>1 DEF KeyInv, Absent
  <1>7. ScanInv
    BY <1>0 DEF ScanInv
  <1> QED BY <1>4, <1>5, <1>6, <1>7 DEF NCInv

LEMMA NCStepKeeps ==
  ASSUME NCInv, [NCNext]_ncVars
  PROVE  NCInv'
  <1>1. ASSUME NEW j \in Jobs, JobStep(j) PROVE NCInv'
    BY <1>1, AcquireTreeCreateKeeps, CreateRenameKeeps, AcquireTreeBusyKeeps, AcquireTreeKeeps, AddHolderKeeps,
       RestoreStartKeeps, NCRestoreExposeKeeps, RunKeeps, PublishStartKeeps, PublishSwitchKeeps, RetireTreeKeeps,
       NCSettleKeeps, ReleaseTreeKeeps, ReleaseMeasureKeeps, NCReleaseKeeps, DiscardKeeps DEF JobStep
  <1>2. ASSUME NEW j \in Jobs, JobFault(j) PROVE NCInv'
    BY <1>2, RunKeeps, PublishFailKeeps, DeleteDataKeeps DEF JobFault
  <1>3. CASE ScanStep
    BY <1>3, CollectUnusedTreesKeeps, MeasureNextKeeps, ScanDataKeeps, ScanTreesKeeps, RecordMeasurementKeeps,
       MeasureStopKeeps, GCEvictKeeps DEF ScanStep
  <1>4. CASE Recovery
    BY <1>4, RecoverJobKeeps, NCServeKeeps DEF Recovery
  <1>5. CASE UNCHANGED ncVars
    <2>1. UNCHANGED <<entry, ncTombs, retiring, mu, ncGate, marker, ncJob, ncUp, scan, now>>
      BY <1>5 DEF ncVars
    <2>2. ScanInv'
      BY <2>1, StillScan
    <2> QED BY <2>1, <2>2, ScanOnly
  <1>6. CASE NCNext
    BY <1>1, <1>2, <1>3, <1>4, <1>6, ScanStartKeeps, MarkSizeStaleKeeps, LegacyMarkerKeeps, RemoveRetiredKeeps,
       CacheCrashKeeps DEF NCNext
  <1> QED BY <1>5, <1>6

LEMMA NCInvSafe == NCInv => CachesSafe
  <1> SUFFICES ASSUME NCInv PROVE CachesSafe
    OBVIOUS
  <1>0. NCTypes /\ \A k \in Keys : KeyInv(k) /\ (entry[k].there => entry[k] \in Entries /\ SoundEntry(entry[k]))
    <2>1. NCTypes /\ \A k \in Keys : KeyInv(k)
      BY DEF NCInv
    <2> QED BY <2>1, ThereIs DEF KeyInv
  <1>1. NCTypeOK
    <2>1. ASSUME NEW k \in Keys, entry[k] # Absent
          PROVE  /\ entry[k].lease \in DirJobs \cup {NoJob} /\ entry[k].holders \subseteq TreeJobs
                 /\ entry[k].used \in 0..MaxTime /\ entry[k].bytes \in Nat /\ entry[k].unknown \in BOOLEAN
                 /\ entry[k].data \in Contents /\ entry[k].gens \subseteq TreeJobs
                 /\ entry[k].current \in TreeJobs \cup {NoJob}
      <3>1. entry[k] \in Entries /\ SoundEntry(entry[k])
        BY <1>0, <2>1, ThereIs
      <3>2. entry[k].used \in 0 .. MaxTime
        BY <1>0, <3>1, JobFacts DEF Entries, SoundEntry, NCTypes
      <3> QED BY <3>1, <3>2 DEF Entries, Trees
    <2> QED BY <1>0, <2>1 DEF NCTypeOK, NCTypes
  <1>2. TombsDetached
    BY <1>0 DEF TombsDetached, KeyInv, NCTypes
  <1>3. NoStageLeft
    BY JobIs DEF NoStageLeft, PlaceInv
  <1>4. PinsKept
    BY JobIs DEF PinsKept, EntryInv
  <1>5. NeverBoth
    BY <1>0 DEF NeverBoth, SoundEntry
  <1>6. RestoreWhole
    BY JobIs DEF RestoreWhole, EntryInv
  <1>7. LinkSound
    BY <1>0, JobIs DEF LinkSound, SoundEntry, PlaceInv
  <1>8. SizesExact
    <2>1. ASSUME marker, NEW k \in Keys, entry[k].there, ~Protected(entry[k]), ~entry[k].unknown
          PROVE  entry[k].bytes = DataBytes(entry[k]) + TreeBytes(entry[k], TRUE)
      BY <1>0, <2>1, CurrentIs DEF SoundEntry, Exact
    <2> QED BY <2>1 DEF SizesExact
  <1> QED BY <1>1, <1>2, <1>3, <1>4, <1>5, <1>6, <1>7, <1>8 DEF CachesSafe

(* The inductive invariant: a job's pin, the lock and the gate mean what    *)
(* each job believes of its cache, and a walk is exact about a cache whose  *)
(* recorded last use is still the one it began with.                        *)
THEOREM NCInvariance == NCSpec => []NCInv
  <1>1. NCInv /\ [NCNext]_ncVars => NCInv'
    BY NCStepKeeps
  <1> QED BY <1>1, NCInitInv, PTL DEF NCSpec

(* Whatever jobs, collections, measurements, publications and deaths of the *)
(* daemon meet: a pinned cache stays in place until its job settles, the    *)
(* generation a job copies is whole, pins and exclusive leases never meet,  *)
(* the link names a generation that is there, nothing is removed twice, and *)
(* a size reported as known is exact.                                       *)
THEOREM CachesAreSafe == NCSpec => []CachesSafe
  BY NCInvariance, NCInvSafe, PTL
=============================================================================
