-------------------------- MODULE PushWatchProofs --------------------------
(***************************************************************************)
(* Proofs about PushWatch, for any number of edits, faults and retries,    *)
(* with or without git: EvidenceProves and EditsReachReceiver.             *)
(*                                                                         *)
(* A stamp that is still a directory's own says that nothing was created   *)
(* in or removed from it since it was taken, whatever else happened, and   *)
(* whether or not the policy went back and forth: so a list made after the *)
(* stamp is the directory's as long as the stamp is (Listed).  The paths   *)
(* of a manifest are compared with what the lists and the policy of its    *)
(* evidence select (Selects), which no edit can change.                    *)
(*                                                                         *)
(* No edit is lost because every difference between the prepared manifest  *)
(* and the checkout is named by something still on its way (ReachInv): an  *)
(* event, a hint, a renewal of everything, or the hints that a preparation *)
(* in flight has taken and gives back when it fails.                       *)
(***************************************************************************)
EXTENDS PushWatch, TLAPS

Entries == {"f", "g", "s"}
Evidence(D) == [ign : BOOLEAN, born : Int, dirs : [D -> Nat], lists : [D -> SUBSET Entries]]
Stamped(ev) == \E D \in {{"r"}, {"r", "s"}} :
                 /\ ev \in Evidence(D)
                 /\ \A d \in D : 0 < ev.dirs[d] /\ ev.dirs[d] <= now
                 /\ ev.lists["r"] \subseteq {"f", "s"} /\ ("s" \in D => ev.lists["s"] \subseteq {"g"})
Listed(ev, others) ==
  \A d \in DOMAIN ev.dirs \ others : fs.dir[d] = ev.dirs[d] => ev.lists[d] = Listing(d)
Covers(ev) == "s" \in ev.lists["r"] <=> "s" \in DOMAIN ev.dirs

\* The paths full selection would give if lists and policy were the evidence's.
ListedFiles(ev) == {n \in {"f"} : "f" \in ev.lists["r"] /\ ~ev.ign}
                     \cup {n \in {"g"} : "s" \in DOMAIN ev.dirs /\ "g" \in ev.lists["s"]}
Selects(ev) == expandPaths(ListedFiles(ev) \cup {n \in {"s"} : ~git /\ "s" \in ev.lists["r"]})

FsInv ==
  /\ fs \in [file : [Files -> Nat], dir : [Dirs -> Nat], born : Nat, ign : BOOLEAN, ctl : Nat]
  /\ now \in Nat /\ git \in BOOLEAN
  /\ \A d \in Dirs : fs.dir[d] <= now
  /\ fs.dir["r"] > 0 /\ (fs.file["g"] > 0 => fs.dir["s"] > 0)

PushRecord == push = [pc |-> push.pc, taken |-> push.taken, expired |-> push.expired, relist |-> push.relist,
                      paths |-> push.paths, man |-> push.man, ign |-> push.ign, ev |-> push.ev,
                      outcome |-> push.outcome, files |-> push.files]

Sound(ev) == Stamped(ev) /\ Listed(ev, {})

PreparedInv ==
  /\ prepared = [man |-> prepared.man, ev |-> prepared.ev]
  /\ prepared.ev # NoEvidence =>
       Sound(prepared.ev) /\ Covers(prepared.ev) /\ DOMAIN prepared.man = Selects(prepared.ev)

ListInv ==
  /\ prepared.ev # NoEvidence /\ Stamped(push.ev)
  /\ DOMAIN push.ev.dirs = DOMAIN prepared.ev.dirs
  /\ push.ev.lists = prepared.ev.lists /\ push.ev.ign = prepared.ev.ign
  /\ push.relist \subseteq DOMAIN push.ev.dirs /\ Listed(push.ev, push.relist)

ReadInv ==
  /\ Sound(push.ev) /\ Covers(push.ev)
  /\ expandPaths(push.paths) \cup (DOMAIN prepared.man \ push.files) = Selects(push.ev)

RereadInv == Sound(push.ev) /\ Covers(push.ev) /\ DOMAIN push.man = Selects(push.ev)

WalkDirs == "s" \in DOMAIN push.ev.dirs <=> "s" \in push.paths
EnlistInv == Stamped(push.ev) /\ (~git => WalkDirs)
VerifyInv ==
  push.ev # NoEvidence =>
    /\ Sound(push.ev)
    /\ git => ("s" \in push.ev.lists["r"] => "s" \in DOMAIN push.ev.dirs)
    /\ ~git => WalkDirs

PushInv ==
  /\ PushRecord
  /\ push.pc = "list" => ListInv
  /\ push.pc = "read" => ReadInv
  /\ push.pc = "reread" => RereadInv
  /\ push.pc \in {"stamp", "enlist", "verify"} => DOMAIN push.man = push.paths
  /\ push.pc = "enlist" => EnlistInv
  /\ push.pc = "verify" => VerifyInv

PWInv == FsInv /\ PreparedInv /\ PushInv

-----------------------------------------------------------------------------
(* What the operators say of each of the three entries                     *)

LEMMA ListingEntries ==
  ASSUME FsInv
  PROVE  /\ "f" \in Listing("r") <=> fs.file["f"] > 0
         /\ "s" \in Listing("r") <=> fs.dir["s"] > 0
         /\ "g" \in Listing("s") <=> fs.file["g"] > 0
         /\ Listing("r") \subseteq {"f", "s"} /\ Listing("s") \subseteq {"g"}
BY DEF Listing, Exists, Files, FsInv

LEMMA SelectsEntries ==
  ASSUME NEW ev
  PROVE  /\ "f" \in Selects(ev) <=> "f" \in ev.lists["r"] /\ ~ev.ign
         /\ "g" \in Selects(ev) <=> "s" \in DOMAIN ev.dirs /\ "g" \in ev.lists["s"]
         /\ "s" \in Selects(ev) <=> "g" \in Selects(ev) \/ (~git /\ "s" \in ev.lists["r"])
         /\ Selects(ev) \subseteq Entries
BY DEF Selects, ListedFiles, expandPaths, Entries

LEMMA SelectFilesEntries ==
  ASSUME FsInv
  PROVE  /\ "f" \in SelectFiles <=> fs.file["f"] > 0 /\ ~fs.ign
         /\ "g" \in SelectFiles <=> fs.file["g"] > 0
         /\ "s" \in SelectFiles <=> "g" \in SelectFiles \/ (~git /\ fs.dir["s"] > 0)
         /\ SelectFiles \subseteq Entries
BY DEF SelectFiles, walk, gitListFiles, Exists, Files, expandPaths, Entries, FsInv

LEMMA StampedShape ==
  ASSUME NEW ev, Stamped(ev)
  PROVE  /\ "r" \in DOMAIN ev.dirs /\ DOMAIN ev.dirs \subseteq Dirs
         /\ DOMAIN ev.lists = DOMAIN ev.dirs
         /\ ev.lists["r"] \subseteq {"f", "s"} /\ ("s" \in DOMAIN ev.dirs => ev.lists["s"] \subseteq {"g"})
         /\ \A d \in DOMAIN ev.dirs : ev.dirs[d] \in Nat /\ 0 < ev.dirs[d] /\ ev.dirs[d] <= now
         /\ ev = [ign |-> ev.ign, born |-> ev.born, dirs |-> ev.dirs, lists |-> ev.lists]
         /\ ev.ign \in BOOLEAN
<1>1. PICK D \in {{"r"}, {"r", "s"}} :
         /\ ev \in Evidence(D) /\ \A d \in D : 0 < ev.dirs[d] /\ ev.dirs[d] <= now
         /\ ev.lists["r"] \subseteq {"f", "s"} /\ ("s" \in D => ev.lists["s"] \subseteq {"g"})
  BY DEF Stamped
<1>2. DOMAIN ev.dirs = D /\ DOMAIN ev.lists = D /\ ev.ign \in BOOLEAN /\ ev.dirs \in [D -> Nat]
  BY <1>1 DEF Evidence
<1>3. ev = [ign |-> ev.ign, born |-> ev.born, dirs |-> ev.dirs, lists |-> ev.lists]
  BY <1>1 DEF Evidence
<1>4. QED BY <1>1, <1>2, <1>3 DEF Dirs

\* Evidence whose stamps and policy are the checkout's selects what full selection would.
LEMMA VerifiedSelects ==
  ASSUME FsInv, NEW ev, Sound(ev), Covers(ev), Verified(ev)
  PROVE  Selects(ev) = SelectFiles
<1>1. \A d \in DOMAIN ev.dirs : ev.lists[d] = Listing(d)
  BY DEF Sound, Listed, Verified
<1>2. ev.ign = fs.ign
  BY DEF Verified, verifyPolicy
<1>3. /\ "r" \in DOMAIN ev.dirs /\ ev.lists["r"] = Listing("r")
      /\ "s" \in DOMAIN ev.dirs => ev.lists["s"] = Listing("s")
  BY <1>1, StampedShape DEF Sound
<1>4. fs.file["g"] > 0 => fs.dir["s"] > 0
  BY DEF FsInv
<1>5. "s" \in DOMAIN ev.dirs <=> fs.dir["s"] > 0
  BY <1>3, ListingEntries DEF Covers
<1>6. "f" \in Selects(ev) <=> "f" \in SelectFiles
  BY <1>2, <1>3, ListingEntries, SelectsEntries, SelectFilesEntries
<1>7. "g" \in Selects(ev) <=> "g" \in SelectFiles
  BY <1>3, <1>4, <1>5, ListingEntries, SelectsEntries, SelectFilesEntries
<1>8. "s" \in Selects(ev) <=> "s" \in SelectFiles
  BY <1>3, <1>7, ListingEntries, SelectsEntries, SelectFilesEntries
<1>9. \A n \in Entries : n \in Selects(ev) <=> n \in SelectFiles
  BY <1>6, <1>7, <1>8 DEF Entries
<1>10. Selects(ev) \subseteq Entries /\ SelectFiles \subseteq Entries
  BY SelectsEntries, SelectFilesEntries
<1>11. QED BY <1>9, <1>10

-----------------------------------------------------------------------------
(* The user's edits                                                        *)

\* A directory's stamp stands still only if its membership does.
StampsMove ==
  /\ now' = now + 1 /\ git' = git
  /\ \A d \in Dirs : \/ fs'.dir[d] = fs.dir[d] /\ Listing(d)' = Listing(d)
                     \/ fs'.dir[d] = now' \/ fs'.dir[d] = 0

LEMMA StampsAge ==
  ASSUME FsInv, StampsMove, NEW ev, Stamped(ev), NEW others, Listed(ev, others)
  PROVE  Stamped(ev)' /\ Listed(ev, others)'
<1>1. now \in Nat /\ now' = now + 1
  BY DEF FsInv, StampsMove
<1>2. Stamped(ev)'
  <2>1. PICK D \in {{"r"}, {"r", "s"}} :
           /\ ev \in Evidence(D) /\ \A d \in D : 0 < ev.dirs[d] /\ ev.dirs[d] <= now
           /\ ev.lists["r"] \subseteq {"f", "s"} /\ ("s" \in D => ev.lists["s"] \subseteq {"g"})
    BY DEF Stamped
  <2>2. \A d \in D : 0 < ev.dirs[d] /\ ev.dirs[d] <= now'
    BY <1>1, <2>1 DEF Evidence
  <2>3. QED BY <2>1, <2>2 DEF Stamped
<1>3. ASSUME NEW d \in DOMAIN ev.dirs \ others, fs'.dir[d] = ev.dirs[d]
      PROVE  ev.lists[d] = Listing(d)'
  <2>1. d \in Dirs /\ ev.dirs[d] \in Nat /\ 0 < ev.dirs[d] /\ ev.dirs[d] <= now
    BY StampedShape
  <2>2. fs'.dir[d] = fs.dir[d] /\ Listing(d)' = Listing(d)
    BY <1>1, <1>3, <2>1 DEF StampsMove
  <2>3. QED BY <1>3, <2>2 DEF Listed
<1>4. Listed(ev, others)'
  BY <1>3 DEF Listed
<1>5. QED BY <1>2, <1>4

LEMMA StampsMoveKeep ==
  ASSUME PWInv, StampsMove, FsInv', UNCHANGED <<prepared, push>>
  PROVE  PWInv'
<1>1. FsInv /\ PreparedInv /\ PushInv /\ git' = git
  BY DEF PWInv, StampsMove
<1>2. PreparedInv'
  <2>1. CASE prepared.ev = NoEvidence
    BY <1>1, <2>1 DEF PreparedInv
  <2>2. CASE prepared.ev # NoEvidence
    <3>1. PICK e : e = prepared.ev
      OBVIOUS
    <3>2. Sound(e) /\ Covers(e) /\ DOMAIN prepared.man = Selects(e)
      BY <1>1, <2>2, <3>1 DEF PreparedInv
    <3>3. Sound(e)' /\ Covers(e)'
      BY <1>1, <3>2, StampsAge DEF Sound, Covers
    <3>4. Selects(e)' = Selects(e)
      BY <1>1 DEF Selects, ListedFiles, expandPaths
    <3>5. prepared'.ev = e /\ prepared' = prepared
      BY <3>1
    <3>6. QED BY <1>1, <3>2, <3>3, <3>4, <3>5 DEF PreparedInv
  <2>3. QED BY <2>1, <2>2
<1>3. PushInv'
  <2>1. PICK e : e = push.ev
    OBVIOUS
  <2>2. push' = push /\ prepared' = prepared /\ push'.ev = e
    BY <2>1
  <2>3. ASSUME push.pc = "list" PROVE ListInv'
    <3>1. ListInv BY <1>1, <2>3 DEF PushInv
    <3>2. Stamped(e) /\ Listed(e, push.relist) BY <2>1, <3>1 DEF ListInv
    <3>3. PICK o : o = push.relist OBVIOUS
    <3>4. Stamped(e)' /\ Listed(e, o)' BY <1>1, <3>2, <3>3, StampsAge
    <3>5. push'.relist = o BY <2>2, <3>3
    <3>6. Listed(push.ev, push.relist)' BY <2>2, <3>4, <3>5 DEF Listed
    <3>7. Stamped(push.ev)' BY <2>2, <3>4
    <3>8. QED BY <2>2, <3>1, <3>6, <3>7 DEF ListInv
  <2>4. ASSUME push.pc = "read" PROVE ReadInv'
    <3>1. Sound(e) /\ Covers(e) /\ expandPaths(push.paths) \cup (DOMAIN prepared.man \ push.files) = Selects(e)
      BY <1>1, <2>1, <2>4 DEF PushInv, ReadInv
    <3>2. Sound(e)' /\ Covers(e)'
      BY <1>1, <3>1, StampsAge DEF Sound, Covers
    <3>3. Selects(e)' = Selects(e)
      BY <1>1 DEF Selects, ListedFiles, expandPaths
    <3>4. QED BY <2>2, <3>1, <3>2, <3>3 DEF ReadInv, expandPaths
  <2>5. ASSUME push.pc = "reread" PROVE RereadInv'
    <3>1. Sound(e) /\ Covers(e) /\ DOMAIN push.man = Selects(e)
      BY <1>1, <2>1, <2>5 DEF PushInv, RereadInv
    <3>2. Sound(e)' /\ Covers(e)'
      BY <1>1, <3>1, StampsAge DEF Sound, Covers
    <3>3. Selects(e)' = Selects(e)
      BY <1>1 DEF Selects, ListedFiles, expandPaths
    <3>4. QED BY <2>2, <3>1, <3>2, <3>3 DEF RereadInv
  <2>6. ASSUME push.pc = "enlist" PROVE EnlistInv'
    <3>1. Stamped(e) /\ (~git => WalkDirs)
      BY <1>1, <2>1, <2>6 DEF PushInv, EnlistInv
    <3>2. Listed(e, DOMAIN e.dirs)
      BY DEF Listed
    <3>3. Stamped(e)'
      BY <1>1, <3>1, <3>2, StampsAge
    <3>4. QED BY <1>1, <2>2, <3>1, <3>3 DEF EnlistInv, WalkDirs
  <2>7. ASSUME push.pc = "verify", push.ev # NoEvidence
        PROVE  VerifyInv'
    <3>1. VerifyInv /\ Sound(e)
      BY <1>1, <2>1, <2>7 DEF PushInv, VerifyInv
    <3>2. Sound(e)'
      BY <1>1, <3>1, StampsAge DEF Sound
    <3>3. QED BY <1>1, <2>2, <2>7, <3>1, <3>2 DEF VerifyInv, WalkDirs
  <2>8. push.pc = "verify" => VerifyInv'
    BY <2>2, <2>7 DEF VerifyInv
  <2>9. QED BY <1>1, <2>2, <2>3, <2>4, <2>5, <2>6, <2>8 DEF PushInv, PushRecord
<1>4. QED BY <1>2, <1>3 DEF PWInv

LEMMA FsFields ==
  ASSUME NEW file \in [Files -> Nat], NEW dir \in [Dirs -> Nat], NEW born \in Nat, NEW ign \in BOOLEAN, NEW ctl \in Nat,
         fs' = [file |-> file, dir |-> dir, born |-> born, ign |-> ign, ctl |-> ctl],
         now' \in Nat, git' \in BOOLEAN, dir["r"] <= now', dir["s"] <= now', dir["r"] > 0,
         file["g"] > 0 => dir["s"] > 0
  PROVE  FsInv' /\ fs'.file = file /\ fs'.dir = dir
BY DEF FsInv, Dirs

LEMMA SameListing ==
  ASSUME FsInv, FsInv', NEW d \in Dirs,
         d = "r" => (fs'.file["f"] > 0 <=> fs.file["f"] > 0) /\ (fs'.dir["s"] > 0 <=> fs.dir["s"] > 0),
         d = "s" => (fs'.file["g"] > 0 <=> fs.file["g"] > 0)
  PROVE  Listing(d)' = Listing(d)
BY DEF Listing, Exists, Files, Dirs

LEMMA EditSteps ==
  ASSUME PWInv, NEW n \in Files, WriteFile(n) \/ ReplaceFile(n) \/ Mkdir \/ RemoveDir \/ EditControl
  PROVE  PWInv'
<1>1. /\ fs.file \in [Files -> Nat] /\ fs.dir \in [Dirs -> Nat] /\ fs.born \in Nat /\ fs.ign \in BOOLEAN /\ fs.ctl \in Nat
      /\ now \in Nat /\ git \in BOOLEAN /\ fs.dir["r"] > 0 /\ (fs.file["g"] > 0 => fs.dir["s"] > 0)
      /\ fs.dir["r"] <= now /\ fs.dir["s"] <= now /\ FsInv
      /\ fs = [file |-> fs.file, dir |-> fs.dir, born |-> fs.born, ign |-> fs.ign, ctl |-> fs.ctl]
  BY DEF PWInv, FsInv, Dirs
<1>2. Edit /\ Rest
  BY DEF WriteFile, ReplaceFile, Mkdir, RemoveDir, EditControl
<1>3. now' = now + 1 /\ now' \in Nat /\ git' = git /\ UNCHANGED <<prepared, push>> /\ now' > 0 /\ now < now'
  BY <1>1, <1>2 DEF Edit, Rest
<1>4. CASE WriteFile(n)
  <2>1. fs' = [fs EXCEPT !.file[n] = now'] /\ fs.file[n] > 0
    BY <1>4 DEF WriteFile, Exists
  <2>2. PICK file : file = [fs.file EXCEPT ![n] = now']
    OBVIOUS
  <2>3. fs' = [file |-> file, dir |-> fs.dir, born |-> fs.born, ign |-> fs.ign, ctl |-> fs.ctl]
    BY <1>1, <2>1, <2>2
  <2>4. file \in [Files -> Nat] /\ \A m \in Files : file[m] > 0 <=> fs.file[m] > 0
    BY <1>1, <1>3, <2>1, <2>2
  <2>5. FsInv' /\ fs'.file = file /\ fs'.dir = fs.dir
    BY <1>1, <1>3, <2>3, <2>4, FsFields DEF Files, Dirs
  <2>6. \A d \in Dirs : Listing(d)' = Listing(d)
    BY <1>1, <2>4, <2>5, SameListing DEF Files
  <2>7. QED BY <1>3, <2>5, <2>6, StampsMoveKeep DEF StampsMove
<1>5. CASE ReplaceFile(n)
  <2>1. PICK v \in {0, now'} : fs' = [fs EXCEPT !.file[n] = v, !.dir[DirOf[n]] = now']
    BY <1>5 DEF ReplaceFile
  <2>2. PICK file, dir : file = [fs.file EXCEPT ![n] = v] /\ dir = [fs.dir EXCEPT ![DirOf[n]] = now']
    OBVIOUS
  <2>3. fs' = [file |-> file, dir |-> dir, born |-> fs.born, ign |-> fs.ign, ctl |-> fs.ctl]
    BY <1>1, <2>1, <2>2
  <2>4. fs.dir[DirOf[n]] > 0 /\ DirOf[n] \in Dirs /\ v \in Nat
    BY <1>3, <1>5 DEF ReplaceFile, Exists, Files, DirOf, Dirs
  <2>5. (n = "f" /\ DirOf[n] = "r") \/ (n = "g" /\ DirOf[n] = "s")
    <3>1. CASE n = "f"
      BY <3>1 DEF DirOf
    <3>2. CASE n = "g"
      BY <3>2 DEF DirOf
    <3>3. QED BY <3>1, <3>2 DEF Files
  <2>6. /\ file \in [Files -> Nat] /\ dir \in [Dirs -> Nat]
        /\ \A m \in Files \ {n} : file[m] = fs.file[m]
        /\ \A d \in Dirs : dir[d] <= now' /\ (d # DirOf[n] => dir[d] = fs.dir[d]) /\ (d = DirOf[n] => dir[d] = now')
        /\ \A d \in Dirs : dir[d] > 0 <=> fs.dir[d] > 0
    BY <1>1, <1>3, <2>2, <2>4 DEF Dirs
  <2>7. file["g"] > 0 => dir["s"] > 0
    BY <1>1, <2>4, <2>5, <2>6 DEF Files, Dirs
  <2>8. FsInv' /\ fs'.file = file /\ fs'.dir = dir
    BY <1>1, <1>3, <2>3, <2>6, <2>7, FsFields DEF Files, Dirs
  <2>9. ASSUME NEW d \in Dirs, d # DirOf[n]
        PROVE  Listing(d)' = Listing(d)
    <3>1. d = "r" => file["f"] = fs.file["f"]
      BY <2>5, <2>6, <2>9 DEF Files
    <3>2. d = "s" => file["g"] = fs.file["g"]
      BY <2>5, <2>6, <2>9 DEF Files
    <3>3. dir["s"] > 0 <=> fs.dir["s"] > 0
      BY <2>6 DEF Dirs
    <3>4. QED BY <1>1, <2>8, <3>1, <3>2, <3>3, SameListing
  <2>10. QED BY <1>3, <2>6, <2>8, <2>9, StampsMoveKeep DEF StampsMove
<1>6. CASE Mkdir
  <2>1. fs' = [fs EXCEPT !.dir = [d \in Dirs |-> now'], !.born = now']
    BY <1>6 DEF Mkdir
  <2>2. PICK dir : dir = [d \in Dirs |-> now']
    OBVIOUS
  <2>3. fs' = [file |-> fs.file, dir |-> dir, born |-> now', ign |-> fs.ign, ctl |-> fs.ctl]
    BY <1>1, <2>1, <2>2
  <2>4. FsInv' /\ fs'.dir = dir
    BY <1>1, <1>3, <2>2, <2>3, FsFields DEF Dirs
  <2>5. QED BY <1>3, <2>2, <2>4, StampsMoveKeep DEF StampsMove
<1>7. CASE RemoveDir
  <2>1. fs' = [fs EXCEPT !.dir = [r |-> now', s |-> 0], !.file["g"] = 0]
    BY <1>7 DEF RemoveDir
  <2>2. PICK file, dir : dir = [r |-> now', s |-> 0] /\ file = [fs.file EXCEPT !["g"] = 0]
    OBVIOUS
  <2>3. fs' = [file |-> file, dir |-> dir, born |-> fs.born, ign |-> fs.ign, ctl |-> fs.ctl]
    BY <1>1, <2>1, <2>2
  <2>4. dir \in [Dirs -> Nat] /\ dir["r"] = now' /\ dir["s"] = 0
    BY <1>3, <2>2 DEF Dirs
  <2>5. file \in [Files -> Nat] /\ file["g"] = 0
    BY <1>1, <2>2 DEF Files
  <2>6. FsInv' /\ fs'.dir = dir
    BY <1>1, <1>3, <2>3, <2>4, <2>5, FsFields
  <2>7. QED BY <1>3, <2>4, <2>6, StampsMoveKeep DEF StampsMove, Dirs
<1>8. CASE EditControl
  <2>1. fs' = [fs EXCEPT !.ign = ~@, !.ctl = now']
    BY <1>8 DEF EditControl
  <2>2. PICK ign \in BOOLEAN : ign = ~fs.ign
    OBVIOUS
  <2>3. fs' = [file |-> fs.file, dir |-> fs.dir, born |-> fs.born, ign |-> ign, ctl |-> now']
    BY <1>1, <2>1, <2>2
  <2>4. FsInv' /\ fs'.file = fs.file /\ fs'.dir = fs.dir
    <3>1. fs.dir["r"] <= now' /\ fs.dir["s"] <= now'
      BY <1>1, <1>3 DEF Dirs
    <3>2. git' \in BOOLEAN
      BY <1>1, <1>3
    <3>3. QED BY <1>1, <1>3, <2>2, <2>3, <3>1, <3>2, FsFields, Zenon
  <2>5. \A d \in Dirs : Listing(d)' = Listing(d)
    BY <1>1, <2>4, SameListing
  <2>6. QED BY <1>3, <2>4, <2>5, StampsMoveKeep DEF StampsMove
<1>9. QED BY <1>4, <1>5, <1>6, <1>7, <1>8

-----------------------------------------------------------------------------
(* Steps that prepare nothing                                              *)

LEMMA SameFs ==
  ASSUME PWInv, UNCHANGED <<fs, git, now, prepared>>
  PROVE  FsInv' /\ PreparedInv'
BY DEF PWInv, FsInv, PreparedInv, Sound, Stamped, Listed, Listing, Exists, Covers, Selects,
       ListedFiles, expandPaths, Evidence, Entries

\* Nothing the evidence is about moved.
LEMMA SameEvidence ==
  ASSUME UNCHANGED <<fs, git, now>>, NEW ev, NEW others
  PROVE  /\ Stamped(ev)' <=> Stamped(ev)
         /\ Listed(ev, others)' <=> Listed(ev, others)
         /\ Sound(ev)' <=> Sound(ev)
         /\ Selects(ev)' = Selects(ev)
<1>1. Stamped(ev)' <=> Stamped(ev)
  BY DEF Stamped
<1>2. \A o : Listed(ev, o)' <=> Listed(ev, o)
  BY DEF Listed, Listing, Exists
<1>3. Selects(ev)' = Selects(ev)
  BY DEF Selects, ListedFiles, expandPaths
<1>4. QED BY <1>1, <1>2, <1>3 DEF Sound

LEMMA SamePush ==
  ASSUME PWInv, UNCHANGED <<fs, git, now, prepared, push>>
  PROVE  PWInv'
<1>1. PushInv /\ push' = push /\ prepared' = prepared
  BY DEF PWInv
<1>2. Listed(push.ev, push.relist)' <=> Listed(push.ev, push.relist)
  BY DEF Listed, Listing, Exists
<1>3. Stamped(push.ev)' <=> Stamped(push.ev)
  BY DEF Stamped
<1>4. Sound(push.ev)' <=> Sound(push.ev)
  BY <1>3 DEF Sound, Listed, Listing, Exists
<1>5. Selects(push.ev)' = Selects(push.ev)
  BY DEF Selects, ListedFiles, expandPaths
<1>6. /\ ListInv' <=> ListInv
      /\ ReadInv' <=> ReadInv
      /\ RereadInv' <=> RereadInv
  BY <1>1, <1>2, <1>3, <1>4, <1>5 DEF ListInv, ReadInv, RereadInv, Covers, expandPaths
<1>7. /\ EnlistInv' <=> EnlistInv
      /\ VerifyInv' <=> VerifyInv
  BY <1>1, <1>3, <1>4 DEF EnlistInv, VerifyInv, WalkDirs
<1>8. PushInv'
  BY <1>1, <1>6, <1>7 DEF PushInv, PushRecord
<1>9. QED BY <1>8, SameFs DEF PWInv

LEMMA OtherSteps ==
  ASSUME PWInv, RunEvent \/ Poll \/ Overflow \/ RunReselect \/ RunRefresh \/ RunInvalidate \/ LoopChanged \/ UNCHANGED pwvars
  PROVE  PWInv'
BY SamePush DEF RunEvent, Poll, Overflow, RunReselect, RunRefresh, RunInvalidate, LoopChanged, StaysOut, Elsewhere, pwvars

\* What a push looks like while it holds nothing the invariant speaks of.
Unprepared == {"idle", "done", "begin", "take", "compare", "send", "copy", "select", "build"}

LEMMA PushRests ==
  ASSUME PWInv, UNCHANGED <<fs, git, now, prepared>>, PushRecord', push'.pc \in Unprepared
  PROVE  PWInv'
BY SameFs DEF PWInv, PushInv, Unprepared

LEMMA Fails ==
  ASSUME PWInv, NEW files, PreparationFails(files)
  PROVE  PWInv'
<1>1. UNCHANGED <<fs, git, now, prepared>>
  BY DEF PreparationFails
<1>2. PushRecord' /\ push'.pc = "done"
  BY DEF PreparationFails, Idle, PushRecord
<1>3. QED BY <1>1, <1>2, PushRests DEF Unprepared

LEMMA RestingSteps ==
  ASSUME PWInv,
         ReadError \/ BeginPush \/ Compare \/ CopySource \/ Send \/ SendFails \/ LoopTimer \/ LoopCompleted \/ Stop
  PROVE  PWInv'
<1>1. UNCHANGED <<fs, git, now, prepared>>
  BY DEF ReadError, BeginPush, Compare, CopySource, Send, SendFails, LoopTimer, LoopCompleted, Stop, Elsewhere,
         Ends, EndsFiles, Step, Goes, Quiet
<1>2. PushRecord
  BY DEF PWInv, PushInv
<1>3. PushRecord' /\ push'.pc \in Unprepared
  <2>1. CASE ReadError \/ Send \/ SendFails
    BY <2>1 DEF ReadError, Send, SendFails, Ends, Step, Goes, Idle, PushRecord, Unprepared
  <2>2. CASE LoopTimer \/ LoopCompleted \/ Stop
    BY <2>2 DEF LoopTimer, LoopCompleted, Stop, Idle, PushRecord, Unprepared
  <2>3. CASE BeginPush
    BY <1>2, <2>3 DEF BeginPush, Ends, Step, Goes, Idle, PushRecord, Unprepared
  <2>4. CASE Compare
    BY <1>2, <2>4 DEF Compare, Ends, Step, Goes, Idle, PushRecord, Unprepared
  <2>5. CASE CopySource
    BY <1>2, <2>5 DEF CopySource, EndsFiles, Step, Goes, Idle, PushRecord, Unprepared
  <2>6. QED BY <2>1, <2>2, <2>3, <2>4, <2>5
<1>4. QED BY <1>1, <1>3, PushRests

-----------------------------------------------------------------------------
(* Full selection                                                          *)

LEMMA FullSelectKeeps ==
  ASSUME PWInv, FullSelect
  PROVE  PWInv'
<1>1. UNCHANGED <<fs, git, now, prepared>>
  BY DEF FullSelect, Step, Goes, Quiet
<1>2. PushRecord' /\ push'.pc = "build"
  BY DEF FullSelect, Step, Goes, PWInv, PushInv, PushRecord
<1>3. QED BY <1>1, <1>2, PushRests DEF Unprepared

LEMMA FullBuildKeeps ==
  ASSUME PWInv, FullBuild
  PROVE  PWInv'
<1>1. CASE \E n \in push.paths : ~Exists(n)
  BY <1>1, Fails DEF FullBuild
<1>2. CASE ~\E n \in push.paths : ~Exists(n)
  <2>1. Step([push EXCEPT !.pc = "stamp", !.man = Manifest(push.paths)]) /\ Quiet
    BY <1>2 DEF FullBuild
  <2>2. UNCHANGED <<fs, git, now, prepared>>
    BY <2>1 DEF Step, Goes, Quiet
  <2>3. PushRecord' /\ push'.pc = "stamp" /\ push'.paths = push.paths /\ push'.man = Manifest(push.paths)
    BY <2>1 DEF Step, Goes, PWInv, PushInv, PushRecord
  <2>4. DOMAIN push'.man = push'.paths
    BY <2>3 DEF Manifest
  <2>5. QED BY <2>2, <2>3, <2>4, SameFs DEF PWInv, PushInv
<1>3. QED BY <1>1, <1>2

LEMMA StampKeeps ==
  ASSUME PWInv, captureSelectionEvidence
  PROVE  PWInv'
<1> DEFINE dirs == {"r"} \cup (IF git THEN walkGitSelection ELSE push.paths \cap Dirs)
<1>1. push.pc = "stamp" /\ DOMAIN push.man = push.paths /\ FsInv
  BY DEF captureSelectionEvidence, PWInv, PushInv
<1>2. CASE Torn # {}
  BY <1>2, Fails DEF captureSelectionEvidence
<1>3. CASE Torn = {} /\ ((\E d \in dirs : ~Exists(d)) \/ (~git /\ fs.ign # push.ign))
  BY <1>3, Fails DEF captureSelectionEvidence
<1>4. CASE Torn = {} /\ ~((\E d \in dirs : ~Exists(d)) \/ (~git /\ fs.ign # push.ign))
  <2>1. PICK ev : ev = [ign |-> fs.ign, born |-> fs.born, dirs |-> [d \in dirs |-> fs.dir[d]], lists |-> [d \in dirs |-> {}]]
    OBVIOUS
  <2>2. Step([push EXCEPT !.pc = "enlist", !.ev = ev]) /\ Quiet
    BY <1>4, <2>1 DEF captureSelectionEvidence
  <2>3. UNCHANGED <<fs, git, now, prepared>>
    BY <2>2 DEF Step, Goes, Quiet
  <2>4. /\ PushRecord' /\ push'.pc = "enlist" /\ push'.paths = push.paths /\ push'.man = push.man /\ push'.ev = ev
    BY <2>2 DEF Step, Goes, PWInv, PushInv, PushRecord
  <2>5. dirs \in {{"r"}, {"r", "s"}}
    BY DEF walkGitSelection, Dirs
  <2>6. \A d \in dirs : fs.dir[d] \in Nat /\ 0 < fs.dir[d] /\ fs.dir[d] <= now
    BY <1>1, <1>4, <2>5 DEF Exists, Files, FsInv, Dirs
  <2>7. Stamped(ev)
    <3>1. ev.dirs \in [dirs -> Nat] /\ ev.lists \in [dirs -> SUBSET Entries] /\ ev.lists["r"] = {}
      BY <2>1, <2>6
    <3>2. "s" \in dirs => ev.lists["s"] = {}
      BY <2>1
    <3>3. ev.ign \in BOOLEAN /\ ev.born \in Int
      BY <1>1, <2>1 DEF FsInv
    <3>4. ev \in Evidence(dirs)
      BY <2>1, <3>1, <3>3 DEF Evidence
    <3>5. \A d \in dirs : 0 < ev.dirs[d] /\ ev.dirs[d] <= now
      BY <2>1, <2>6
    <3> HIDE DEF dirs
    <3>6. QED BY <2>5, <3>1, <3>2, <3>4, <3>5 DEF Stamped
  <2>8. Stamped(push.ev)'
    BY <2>3, <2>4, <2>7 DEF Stamped
  <2>9. ~git' => WalkDirs'
    BY <2>1, <2>3, <2>4 DEF WalkDirs, Dirs
  <2>10. QED BY <1>1, <2>3, <2>4, <2>8, <2>9, SameFs DEF PWInv, PushInv, EnlistInv
<1>5. QED BY <1>2, <1>3, <1>4

LEMMA EnlistKeeps ==
  ASSUME PWInv, listDirectories
  PROVE  PWInv'
<1>1. /\ push.pc = "enlist" /\ DOMAIN push.man = push.paths /\ FsInv
      /\ Stamped(push.ev) /\ (~git => WalkDirs)
  BY DEF listDirectories, PWInv, PushInv, EnlistInv
<1>2. CASE \E d \in DOMAIN push.ev.dirs : ~Exists(d)
  BY <1>2, Fails DEF listDirectories
<1>3. CASE ~\E d \in DOMAIN push.ev.dirs : ~Exists(d)
  <2>1. PICK e : e = push.ev
    OBVIOUS
  <2>2. PICK ev : ev = IF git /\ ~(Listing("r") \cap Dirs \subseteq DOMAIN e.dirs) THEN NoEvidence
                       ELSE [e EXCEPT !.lists = [d \in DOMAIN e.dirs |-> Listing(d)]]
    OBVIOUS
  <2>3. push' = [push EXCEPT !.pc = "verify", !.ev = ev] /\ UNCHANGED <<fs, git, now, prepared>>
    <3>1. Step([push EXCEPT !.pc = "verify", !.ev = ev]) /\ Quiet
      BY <1>3, <2>1, <2>2 DEF listDirectories
    <3>2. QED BY <3>1 DEF Step, Goes, Quiet
  <2>4. /\ PushRecord' /\ push'.pc = "verify" /\ push'.paths = push.paths /\ push'.man = push.man /\ push'.ev = ev
    BY <2>3 DEF PWInv, PushInv, PushRecord
  <2>5. ASSUME ev # NoEvidence
        PROVE  /\ Stamped(ev) /\ Listed(ev, {}) /\ DOMAIN ev.dirs = DOMAIN e.dirs
               /\ git => ("s" \in ev.lists["r"] => "s" \in DOMAIN ev.dirs)
    <3>1. ev = [e EXCEPT !.lists = [d \in DOMAIN e.dirs |-> Listing(d)]] /\ (git => Listing("r") \cap Dirs \subseteq DOMAIN e.dirs)
      BY <2>2, <2>5
    <3>2. PICK D \in {{"r"}, {"r", "s"}} : e \in Evidence(D) /\ \A d \in D : 0 < e.dirs[d] /\ e.dirs[d] <= now
      BY <1>1, <2>1 DEF Stamped
    <3>3. ev = [ign |-> e.ign, born |-> e.born, dirs |-> e.dirs, lists |-> [d \in D |-> Listing(d)]]
      BY <3>1, <3>2 DEF Evidence
    <3>4. \A d \in D : Listing(d) \subseteq Entries
      BY <1>1, <3>2, ListingEntries DEF Entries
    <3>5. ev \in Evidence(D)
      BY <3>2, <3>3, <3>4 DEF Evidence
    <3>6. ev.dirs = e.dirs /\ DOMAIN e.dirs = D /\ \A d \in D : ev.lists[d] = Listing(d)
      BY <3>2, <3>3 DEF Evidence
    <3>7. ev.lists["r"] \subseteq {"f", "s"} /\ ("s" \in D => ev.lists["s"] \subseteq {"g"})
      BY <1>1, <3>2, <3>6, ListingEntries
    <3>8. Stamped(ev)
      BY <3>2, <3>5, <3>6, <3>7 DEF Stamped
    <3>9. Listed(ev, {})
      BY <3>6 DEF Listed
    <3>10. QED BY <3>1, <3>2, <3>6, <3>8, <3>9 DEF Dirs
  <2>6. ASSUME ev # NoEvidence
        PROVE  Sound(ev)'
    <3>1. Sound(ev)
      BY <2>5, <2>6 DEF Sound
    <3>2. QED BY <2>3, <3>1, SameEvidence
  <2>7. VerifyInv'
    <3>1. (ev # NoEvidence => Sound(push.ev)')
      BY <2>4, <2>6
    <3>2. QED BY <1>1, <2>1, <2>3, <2>4, <2>5, <3>1 DEF VerifyInv, WalkDirs
  <2>8. QED BY <1>1, <2>3, <2>4, <2>7, SameFs DEF PWInv, PushInv
<1>4. QED BY <1>2, <1>3

LEMMA VerifyKeeps ==
  ASSUME PWInv, FullVerify
  PROVE  PWInv'
<1>1. push.pc = "verify" /\ DOMAIN push.man = push.paths /\ FsInv /\ VerifyInv
  BY DEF FullVerify, PWInv, PushInv
<1>2. CASE ~Reselected \/ (push.ev # NoEvidence /\ ~Verified(push.ev))
  BY <1>2, Fails DEF FullVerify
<1>3. CASE ~(~Reselected \/ (push.ev # NoEvidence /\ ~Verified(push.ev)))
  <2>1. /\ Prepared(push.man, push.ev)
        /\ Step([Idle EXCEPT !.pc = "compare", !.man = push.man, !.ev = push.ev, !.ign = push.ign,
                             !.paths = IF push.ev = NoEvidence THEN push.paths ELSE {}])
    BY <1>3 DEF FullVerify
  <2>2. UNCHANGED <<fs, git, now>> /\ prepared' = [man |-> push.man, ev |-> push.ev]
    BY <2>1 DEF Prepared, Step, Goes
  <2>3. PushRecord' /\ push'.pc = "compare"
    BY <2>1 DEF Step, Goes, Idle, PushRecord
  <2>4. SelectFiles = push.paths
    BY <1>3 DEF Reselected
  <2>5. ASSUME push.ev # NoEvidence
        PROVE  Sound(push.ev) /\ Covers(push.ev) /\ DOMAIN push.man = Selects(push.ev)
    <3>1. PICK e : e = push.ev
      OBVIOUS
    <3>2. /\ Sound(e) /\ Verified(e) /\ (git => ("s" \in e.lists["r"] => "s" \in DOMAIN e.dirs))
          /\ ~git => ("s" \in DOMAIN e.dirs <=> "s" \in SelectFiles)
      BY <1>1, <1>3, <2>4, <2>5, <3>1 DEF VerifyInv, WalkDirs
    <3>3. /\ "r" \in DOMAIN e.dirs /\ e.lists["r"] = Listing("r")
          /\ "s" \in DOMAIN e.dirs => fs.dir["s"] > 0
      <4>1. /\ "r" \in DOMAIN e.dirs
            /\ \A d \in DOMAIN e.dirs : e.dirs[d] \in Nat /\ 0 < e.dirs[d]
        BY <3>2, StampedShape DEF Sound
      <4>2. \A d \in DOMAIN e.dirs : fs.dir[d] = e.dirs[d] /\ e.lists[d] = Listing(d)
        BY <3>2 DEF Sound, Listed, Verified
      <4>3. QED BY <4>1, <4>2
    <3>4. fs.file["g"] > 0 => fs.dir["s"] > 0
      BY <1>1 DEF FsInv
    <3>5. Covers(e)
      BY <1>1, <3>2, <3>3, <3>4, ListingEntries, SelectFilesEntries DEF Covers
    <3>6. Selects(e) = SelectFiles
      BY <1>1, <3>2, <3>5, VerifiedSelects
    <3>7. QED BY <1>1, <2>4, <3>1, <3>2, <3>5, <3>6
  <2>6. PreparedInv'
    <3>1. PICK e : e = push.ev
      OBVIOUS
    <3>2. prepared'.ev = e /\ prepared'.man = push.man /\ prepared' = [man |-> prepared'.man, ev |-> prepared'.ev]
      BY <2>2, <3>1
    <3>3. CASE e = NoEvidence
      BY <3>2, <3>3 DEF PreparedInv
    <3>4. CASE e # NoEvidence
      <4>1. Sound(e) /\ Covers(e) /\ DOMAIN push.man = Selects(e)
        BY <2>5, <3>1, <3>4
      <4>2. Sound(e)' /\ Selects(e)' = Selects(e)
        BY <2>2, <4>1, SameEvidence
      <4>3. QED BY <3>2, <4>1, <4>2 DEF PreparedInv, Covers
    <3>5. QED BY <3>3, <3>4
  <2>7. FsInv'
    BY <1>1, <2>2 DEF FsInv
  <2>8. QED BY <2>3, <2>6, <2>7 DEF PWInv, PushInv
<1>4. QED BY <1>2, <1>3

-----------------------------------------------------------------------------
(* The update of a prepared manifest                                       *)

LEMMA TakeKeeps ==
  ASSUME PWInv, PrepareSnapshot
  PROVE  PWInv'
<1> DEFINE touched == {IF n \in Files THEN DirOf[n] ELSE "r" : n \in {n \in Names : hints.dirty[n] = dirtyEntry}}
           relist == touched \cup {d \in DOMAIN prepared.ev.dirs : fs.dir[d] # prepared.ev.dirs[d]}
           full == \/ hints.full \/ hints.owed \/ prepared.ev = NoEvidence
                   \/ \E d \in DOMAIN prepared.ev.dirs : ~Exists(d)
                   \/ ~(relist \subseteq DOMAIN prepared.ev.dirs)
                   \/ relist # {} /\ (~verifyPolicy(prepared.ev) \/ ("s" \in relist /\ prepared.ev.born # fs.born))
<1>1. PICK expired \in BOOLEAN :
        Goes([Idle EXCEPT !.pc = IF full THEN "select" ELSE "list", !.taken = hints, !.expired = expired,
                          !.relist = IF full THEN {} ELSE relist,
                          !.ev = IF full THEN NoEvidence
                                 ELSE [prepared.ev EXCEPT !.dirs = [d \in DOMAIN @ |-> IF d \in relist THEN fs.dir[d] ELSE @[d]]]])
  BY DEF PrepareSnapshot
<1>2. UNCHANGED <<fs, git, now, prepared>>
  BY <1>1 DEF PrepareSnapshot, Goes
<1>3. full => PushRecord' /\ push'.pc = "select"
  <2> HIDE DEF full, relist
  <2>1. QED BY <1>1 DEF Goes, Idle, PushRecord
<1>4. CASE full
  <2> HIDE DEF full, relist
  <2>1. QED BY <1>2, <1>3, <1>4, PushRests DEF Unprepared
<1>5. CASE ~full
  <2>1. PICK e : e = prepared.ev
    OBVIOUS
  <2>2. /\ e # NoEvidence /\ relist \subseteq DOMAIN e.dirs /\ \A d \in DOMAIN e.dirs : Exists(d)
        /\ \A d \in DOMAIN e.dirs \ relist : fs.dir[d] = e.dirs[d]
    BY <1>5, <2>1
  <2>3. Sound(e) /\ FsInv
    BY <2>1, <2>2 DEF PWInv, PreparedInv
  <2>4. PICK o : o = relist
    OBVIOUS
  <2>5. PICK ev : ev = [e EXCEPT !.dirs = [d \in DOMAIN @ |-> IF d \in o THEN fs.dir[d] ELSE @[d]]]
    OBVIOUS
  <2>6. /\ PushRecord' /\ push'.pc = "list" /\ push'.relist = o /\ push'.ev = ev
    <3> HIDE DEF full, relist
    <3>1. push' = [Idle EXCEPT !.pc = "list", !.taken = hints, !.expired = expired, !.relist = o, !.ev = ev]
      BY <1>1, <1>5, <2>1, <2>4, <2>5 DEF Goes
    <3>2. QED BY <3>1 DEF Idle, PushRecord
  <2> HIDE DEF full, relist
  <2>7. PICK D \in {{"r"}, {"r", "s"}} :
           /\ e \in Evidence(D) /\ \A d \in D : 0 < e.dirs[d] /\ e.dirs[d] <= now
           /\ e.lists["r"] \subseteq {"f", "s"} /\ ("s" \in D => e.lists["s"] \subseteq {"g"})
    BY <2>3 DEF Sound, Stamped
  <2>8. ev = [ign |-> e.ign, born |-> e.born, dirs |-> [d \in D |-> IF d \in o THEN fs.dir[d] ELSE e.dirs[d]], lists |-> e.lists]
    BY <2>5, <2>7 DEF Evidence
  <2>9. DOMAIN e.dirs = D /\ \A d \in D : fs.dir[d] \in Nat /\ 0 < fs.dir[d] /\ fs.dir[d] <= now
    BY <2>2, <2>3, <2>7 DEF Evidence, Exists, Files, FsInv, Dirs
  <2>10. /\ ev.dirs \in [D -> Nat] /\ \A d \in D : 0 < ev.dirs[d] /\ ev.dirs[d] <= now
         /\ \A d \in D \ o : ev.dirs[d] = e.dirs[d]
    BY <2>7, <2>8, <2>9 DEF Evidence
  <2>11. ev \in Evidence(D) /\ ev.lists = e.lists /\ ev.ign = e.ign
    BY <2>7, <2>8, <2>10 DEF Evidence
  <2>12. Stamped(ev) /\ DOMAIN ev.dirs = D
    BY <2>7, <2>10, <2>11 DEF Stamped
  <2>13. Listed(ev, o)
    BY <2>3, <2>9, <2>10, <2>11, <2>12 DEF Sound, Listed
  <2>14. Stamped(ev)' /\ Listed(ev, o)'
    BY <1>2, <2>12, <2>13, SameEvidence
  <2>15. ListInv'
    <3>1. prepared'.ev = e
      BY <1>2, <2>1
    <3>2. o \subseteq D
      BY <2>2, <2>4, <2>9
    <3>3. Listed(push.ev, push.relist)'
      BY <2>6, <2>14 DEF Listed
    <3>4. QED BY <2>2, <2>6, <2>9, <2>11, <2>12, <2>14, <3>1, <3>2, <3>3 DEF ListInv
  <2>16. QED BY <1>2, <2>6, <2>15, SameFs DEF PWInv, PushInv
<1>6. QED BY <1>4, <1>5

LEMMA ReadKeeps ==
  ASSUME PWInv, Read
  PROVE  PWInv'
<1>1. push.pc = "read" /\ ReadInv /\ PushRecord
  BY DEF Read, PWInv, PushInv
<1>2. CASE \E n \in push.paths : ~Exists(n)
  BY <1>2, Fails DEF Read
<1>3. CASE ~\E n \in push.paths : ~Exists(n)
  <2>1. PICK man : man = Edited(prepared.man, Manifest(expandPaths(push.paths)), push.files)
    OBVIOUS
  <2>2. Step([push EXCEPT !.pc = "reread", !.files = {}, !.man = man]) /\ Quiet
    BY <1>3, <2>1 DEF Read
  <2>3. UNCHANGED <<fs, git, now, prepared>>
    BY <2>2 DEF Step, Goes, Quiet
  <2>4. PushRecord' /\ push'.pc = "reread" /\ push'.man = man /\ push'.ev = push.ev
    BY <1>1, <2>2 DEF Step, Goes, PushRecord
  <2>5. DOMAIN man = expandPaths(push.paths) \cup (DOMAIN prepared.man \ push.files)
    BY <2>1 DEF Edited, Manifest
  <2>6. PICK e : e = push.ev
    OBVIOUS
  <2>7. Sound(e) /\ Covers(e) /\ DOMAIN man = Selects(e)
    BY <1>1, <2>5, <2>6 DEF ReadInv
  <2>8. Sound(e)' /\ Selects(e)' = Selects(e)
    BY <2>3, <2>7, SameEvidence
  <2>9. RereadInv'
    BY <2>4, <2>6, <2>7, <2>8 DEF RereadInv, Covers
  <2>10. QED BY <2>3, <2>4, <2>9, SameFs DEF PWInv, PushInv
<1>4. QED BY <1>2, <1>3

LEMMA UpdateKeeps ==
  ASSUME PWInv, Update
  PROVE  PWInv'
<1>1. push.pc = "reread" /\ RereadInv /\ FsInv
  BY DEF Update, PWInv, PushInv
<1>2. CASE Torn # {}
  BY <1>2, Fails DEF Update
<1>3. CASE Torn = {} /\ ~Verified(push.ev)
  BY <1>3, Fails DEF Update
<1>4. CASE Torn = {} /\ Verified(push.ev)
  <2>1. /\ Prepared(push.man, push.ev)
        /\ Step([Idle EXCEPT !.pc = "compare", !.man = push.man, !.ev = push.ev, !.ign = push.ev.ign])
    BY <1>4 DEF Update
  <2>2. UNCHANGED <<fs, git, now>> /\ prepared' = [man |-> push.man, ev |-> push.ev]
    BY <2>1 DEF Prepared, Step, Goes
  <2>3. PushRecord' /\ push'.pc = "compare"
    BY <2>1 DEF Step, Goes, Idle, PushRecord
  <2>4. PICK e : e = push.ev
    OBVIOUS
  <2>5. prepared'.ev = e /\ prepared'.man = push.man /\ prepared' = [man |-> prepared'.man, ev |-> prepared'.ev]
    BY <2>2, <2>4
  <2>6. Sound(e) /\ Covers(e) /\ DOMAIN push.man = Selects(e)
    BY <1>1, <2>4 DEF RereadInv
  <2>7. Sound(e)' /\ Selects(e)' = Selects(e)
    BY <2>2, <2>6, SameEvidence
  <2>8. PreparedInv'
    BY <2>5, <2>6, <2>7 DEF PreparedInv, Covers
  <2>9. FsInv'
    BY <1>1, <2>2 DEF FsInv
  <2>10. QED BY <2>3, <2>8, <2>9 DEF PWInv, PushInv
<1>5. QED BY <1>2, <1>3, <1>4

\* The files refreshed and deleted turn the paths of the old lists into those of the new.
LEMMA RelistSelects ==
  ASSUME FsInv, PreparedInv, ListInv, Verified(push.ev), NEW ev, Stamped(ev),
         ev.ign = push.ev.ign, DOMAIN ev.dirs = DOMAIN push.ev.dirs,
         \A d \in push.relist : ev.lists[d] = Listing(d),
         \A d \in DOMAIN ev.dirs \ push.relist : ev.lists[d] = push.ev.lists[d],
         "s" \notin Added(push) \cup Removed(push),
         git => keepsDirectories(push)
  PROVE  /\ Covers(ev)
         /\ expandPaths(Refreshed(push)) \cup (DOMAIN prepared.man \ Deleted(push)) = Selects(ev)
<1>1. PICK old : old = prepared.ev
  OBVIOUS
<1>2. /\ push.ev.lists = old.lists /\ push.ev.ign = old.ign /\ DOMAIN push.ev.dirs = DOMAIN old.dirs
      /\ Stamped(old) /\ Covers(old) /\ DOMAIN prepared.man = Selects(old)
      /\ push.relist \subseteq DOMAIN old.dirs /\ DOMAIN ev.dirs = DOMAIN old.dirs
      /\ ev.ign = fs.ign /\ old.ign = fs.ign
  BY <1>1 DEF ListInv, PreparedInv, Sound, Verified, verifyPolicy
<1>3. /\ "r" \in DOMAIN old.dirs /\ DOMAIN old.dirs \subseteq {"r", "s"}
      /\ old.lists["r"] \subseteq {"f", "s"} /\ ("s" \in DOMAIN old.dirs => old.lists["s"] \subseteq {"g"})
  BY <1>2, StampedShape DEF Dirs
<1>4. Listing("r") \subseteq {"f", "s"} /\ Listing("s") \subseteq {"g"}
  BY ListingEntries
<1>5. \A n \in {"f", "s"} :
         /\ n \in Added(push) <=> "r" \in push.relist /\ n \in Listing("r") \ old.lists["r"]
         /\ n \in Removed(push) <=> "r" \in push.relist /\ n \in old.lists["r"] \ Listing("r")
  BY <1>2, <1>3, <1>4 DEF Added, Removed
<1>6. /\ "g" \in Added(push) <=> "s" \in push.relist /\ "g" \in Listing("s") \ old.lists["s"]
      /\ "g" \in Removed(push) <=> "s" \in push.relist /\ "g" \in old.lists["s"] \ Listing("s")
      /\ Added(push) \subseteq Entries
  BY <1>2, <1>3, <1>4 DEF Added, Removed, Entries
<1>7. /\ "r" \in push.relist => ev.lists["r"] = Listing("r")
      /\ "r" \notin push.relist => ev.lists["r"] = old.lists["r"]
      /\ "s" \in push.relist => ev.lists["s"] = Listing("s")
      /\ "s" \in DOMAIN old.dirs /\ "s" \notin push.relist => ev.lists["s"] = old.lists["s"]
  BY <1>2, <1>3
<1>8. "s" \in ev.lists["r"] <=> "s" \in old.lists["r"]
  BY <1>5, <1>7
<1>9. Covers(ev)
  BY <1>2, <1>8 DEF Covers
<1>10. DirOf["f"] = "r" /\ DirOf["g"] = "s"
  BY DEF DirOf
<1>11. /\ "f" \in Listing("r") <=> Exists("f")
       /\ "g" \in Listing("s") <=> Exists("g")
  BY DEF Listing, Exists, Files
<1>12. \A n \in Files : n \in Refreshed(push) =>
          n \in selectAdded(push) \/ (n \in DOMAIN prepared.man /\ n \notin Removed(push))
  <2>1. TAKE n \in Files
  <2>2. HAVE n \in Refreshed(push)
  <2>3. CASE n \in Hinted(push) \cap DOMAIN prepared.man
    BY <2>3 DEF Hinted
  <2>4. CASE n \in selectAdded(push)
    BY <2>4
  <2>5. CASE n \in DOMAIN prepared.man /\ DirOf[n] \in push.relist /\ Exists(n)
    <3>1. CASE n = "f"
      BY <1>5, <1>10, <1>11, <2>5, <3>1
    <3>2. CASE n = "g"
      BY <1>6, <1>10, <1>11, <2>5, <3>2
    <3>3. QED BY <3>1, <3>2 DEF Files
  <2>6. QED BY <2>2, <2>3, <2>4, <2>5 DEF Refreshed
<1>13. selectAdded(push) \subseteq Refreshed(push)
  BY DEF Refreshed
<1>14. \A n : n \in Deleted(push) <=> n \in Removed(push) /\ n \in DOMAIN prepared.man
  BY DEF Deleted
<1>15. /\ "f" \in selectAdded(push) <=> "f" \in Added(push) /\ ~fs.ign
       /\ "g" \in selectAdded(push) <=> "g" \in Added(push)
  BY <1>2 DEF selectAdded
<1> DEFINE lhs == expandPaths(Refreshed(push)) \cup (DOMAIN prepared.man \ Deleted(push))
<1>16. /\ "f" \in lhs <=> "f" \in Refreshed(push) \/ ("f" \in DOMAIN prepared.man /\ "f" \notin Deleted(push))
       /\ "g" \in lhs <=> "g" \in Refreshed(push) \/ ("g" \in DOMAIN prepared.man /\ "g" \notin Deleted(push))
       /\ "s" \in lhs <=> \/ "s" \in Refreshed(push) \/ "g" \in Refreshed(push)
                          \/ ("s" \in DOMAIN prepared.man /\ "s" \notin Deleted(push))
  BY DEF expandPaths
<1>17. lhs \subseteq Entries
  <2>1. DOMAIN prepared.man \subseteq Entries
    BY <1>2, SelectsEntries
  <2>2. Refreshed(push) \subseteq Entries
    BY <1>6, <2>1 DEF Refreshed, selectAdded
  <2>3. QED BY <2>1, <2>2 DEF expandPaths, Entries
<1>18. /\ "f" \in DOMAIN prepared.man <=> "f" \in old.lists["r"] /\ ~fs.ign
       /\ "g" \in DOMAIN prepared.man <=> "s" \in DOMAIN old.dirs /\ "g" \in old.lists["s"]
       /\ "s" \in DOMAIN prepared.man <=> "g" \in DOMAIN prepared.man \/ (~git /\ "s" \in old.lists["r"])
  BY <1>2, SelectsEntries
<1>19. /\ "f" \in Selects(ev) <=> "f" \in ev.lists["r"] /\ ~fs.ign
       /\ "g" \in Selects(ev) <=> "s" \in DOMAIN old.dirs /\ "g" \in ev.lists["s"]
       /\ "s" \in Selects(ev) <=> "g" \in Selects(ev) \/ (~git /\ "s" \in ev.lists["r"])
       /\ Selects(ev) \subseteq Entries
  BY <1>2, SelectsEntries
<1> HIDE DEF lhs
<1>20. "f" \in lhs <=> "f" \in Selects(ev)
  <2>1. "f" \in Files BY DEF Files
  <2>2. "f" \in lhs <=> "f" \in selectAdded(push) \/ ("f" \in DOMAIN prepared.man /\ "f" \notin Removed(push))
    BY <1>12, <1>13, <1>14, <1>16, <2>1
  <2>3. QED BY <1>5, <1>7, <1>15, <1>18, <1>19, <2>2
<1>21. "g" \in lhs <=> "g" \in Selects(ev)
  <2>1. "g" \in Files BY DEF Files
  <2>2. "g" \in lhs <=> "g" \in selectAdded(push) \/ ("g" \in DOMAIN prepared.man /\ "g" \notin Removed(push))
    BY <1>12, <1>13, <1>14, <1>16, <2>1
  <2>3. QED BY <1>2, <1>6, <1>7, <1>15, <1>18, <1>19, <2>2
<1>22. "s" \in lhs <=> "s" \in Selects(ev)
  <2>1. "s" \notin Added(push) /\ "s" \notin Removed(push)
    OBVIOUS
  <2>2. "s" \in Refreshed(push) => "s" \in DOMAIN prepared.man
    BY <2>1 DEF Refreshed, selectAdded, Files
  <2>3. "s" \in lhs <=> "g" \in Refreshed(push) \/ "s" \in DOMAIN prepared.man
    BY <1>14, <1>16, <2>1, <2>2
  <2>4. "g" \in Refreshed(push) => "g" \in Selects(ev)
    BY <1>16, <1>21
  <2>5. "g" \in DOMAIN prepared.man => "g" \in Selects(ev) \/ (~git /\ "s" \in ev.lists["r"])
    <3>1. CASE git
      BY <1>13, <1>14, <1>16, <1>21, <3>1 DEF keepsDirectories
    <3>2. CASE ~git
      BY <1>2, <1>8, <1>18, <3>2 DEF Covers
    <3>3. QED BY <3>1, <3>2
  <2>6. "g" \in Selects(ev) => "g" \in Refreshed(push) \/ "g" \in DOMAIN prepared.man
    BY <1>16, <1>21
  <2>7. QED BY <1>8, <1>18, <1>19, <2>3, <2>4, <2>5, <2>6
<1>23. \A n \in Entries : n \in lhs <=> n \in Selects(ev)
  BY <1>20, <1>21, <1>22 DEF Entries
<1>24. lhs = Selects(ev)
  BY <1>17, <1>19, <1>23
<1>25. QED BY <1>9, <1>24 DEF lhs

LEMMA RelistKeeps ==
  ASSUME PWInv, Relist
  PROVE  PWInv'
<1> DEFINE full == \/ "s" \in Added(push) \cup Removed(push)
                   \/ ~Verified(push.ev) \/ Unknown(push)
                   \/ git /\ ~keepsDirectories(push)
                   \/ push.expired /\ Refreshed(push) = {} /\ Deleted(push) = {}
<1>1. push.pc = "list" /\ ListInv /\ FsInv /\ PreparedInv /\ PushRecord
  BY DEF Relist, PWInv, PushInv
<1>2. UNCHANGED <<fs, git, now, prepared>>
  BY DEF Relist, Step, Goes, Quiet
<1>3. CASE full
  <2>1. Step([push EXCEPT !.pc = "select", !.relist = {}, !.ev = NoEvidence, !.expired = FALSE])
    BY <1>3 DEF Relist
  <2>2. PushRecord' /\ push'.pc = "select"
    BY <1>1, <2>1 DEF Step, Goes, PushRecord
  <2>3. QED BY <1>2, <2>2, PushRests DEF Unprepared
<1>4. CASE ~full
  <2>1. Step([push EXCEPT !.pc = "read", !.paths = Refreshed(push), !.files = Deleted(push),
                          !.ev.lists = [d \in DOMAIN @ |-> IF d \in push.relist THEN Listing(d) ELSE @[d]]])
    BY <1>4 DEF Relist
  <2>2. PICK e : e = push.ev
    OBVIOUS
  <2>3. Stamped(e)
    BY <1>1, <2>2 DEF ListInv
  <2>4. PICK D \in {{"r"}, {"r", "s"}} :
           /\ e \in Evidence(D) /\ \A d \in D : 0 < e.dirs[d] /\ e.dirs[d] <= now
           /\ e.lists["r"] \subseteq {"f", "s"} /\ ("s" \in D => e.lists["s"] \subseteq {"g"})
    BY <2>3 DEF Stamped
  <2>5. PICK ev : ev = [ign |-> e.ign, born |-> e.born, dirs |-> e.dirs,
                        lists |-> [d \in D |-> IF d \in push.relist THEN Listing(d) ELSE e.lists[d]]]
    OBVIOUS
  <2>6. DOMAIN e.dirs = D /\ DOMAIN e.lists = D
    BY <2>4 DEF Evidence
  <2>7. /\ PushRecord' /\ push'.pc = "read" /\ push'.paths = Refreshed(push) /\ push'.files = Deleted(push)
        /\ push'.ev = ev
    BY <1>1, <2>1, <2>2, <2>4, <2>5, <2>6 DEF Step, Goes, PushRecord, Evidence
  <2>8. \A d \in D : Listing(d) \subseteq Entries
    BY <1>1, <2>4, ListingEntries DEF Entries
  <2>9. ev.dirs = e.dirs /\ ev.ign = e.ign /\ \A d \in D : ev.lists[d] = IF d \in push.relist THEN Listing(d) ELSE e.lists[d]
    BY <2>5
  <2>10. ev \in Evidence(D)
    BY <2>4, <2>5, <2>8 DEF Evidence
  <2>11. ev.lists["r"] \subseteq {"f", "s"} /\ ("s" \in D => ev.lists["s"] \subseteq {"g"})
    BY <1>1, <2>4, <2>9, ListingEntries
  <2>12. Stamped(ev)
    BY <2>4, <2>9, <2>10, <2>11 DEF Stamped
  <2>13. push.relist \subseteq D /\ Listed(e, push.relist)
    BY <1>1, <2>2, <2>6 DEF ListInv
  <2>14. Listed(ev, {})
    BY <2>6, <2>9, <2>13 DEF Listed
  <2>15. /\ Verified(push.ev) /\ "s" \notin Added(push) \cup Removed(push) /\ (git => keepsDirectories(push))
    BY <1>4
  <2>16. /\ Covers(ev)
         /\ expandPaths(Refreshed(push)) \cup (DOMAIN prepared.man \ Deleted(push)) = Selects(ev)
    BY <1>1, <2>2, <2>6, <2>9, <2>12, <2>13, <2>15, RelistSelects
  <2>17. Sound(ev)' /\ Selects(ev)' = Selects(ev)
    BY <1>2, <2>12, <2>14, SameEvidence DEF Sound
  <2>18. ReadInv'
    <3>1. /\ Sound(push.ev)' /\ Covers(push.ev)'
      BY <2>7, <2>16, <2>17 DEF Covers
    <3>2. Selects(push.ev)' = Selects(ev)
      BY <2>7, <2>17
    <3>3. expandPaths(push.paths)' = expandPaths(Refreshed(push))
      BY <2>7 DEF expandPaths
    <3>4. DOMAIN prepared'.man \ push'.files = DOMAIN prepared.man \ Deleted(push)
      BY <1>2, <2>7
    <3>5. QED BY <2>16, <3>1, <3>2, <3>3, <3>4 DEF ReadInv
  <2>19. QED BY <1>2, <2>7, <2>18, SameFs DEF PWInv, PushInv
<1>5. QED BY <1>3, <1>4

-----------------------------------------------------------------------------
(* The theorems                                                            *)

LEMMA PWInitHolds ==
  PWInit => PWInv
<1>1. SUFFICES ASSUME PWInit PROVE PWInv
  OBVIOUS
<1>2. FsInv
  <2>1. PICK s \in {0, 1} :
          fs = [file |-> [f |-> 1, g |-> s], dir |-> [r |-> 1, s |-> s], born |-> s, ign |-> FALSE, ctl |-> 1]
    BY <1>1 DEF PWInit
  <2>2. fs.file \in [Files -> Nat] /\ fs.file["g"] = s
    BY <2>1 DEF Files
  <2>3. fs.dir \in [Dirs -> Nat] /\ fs.dir["r"] = 1 /\ fs.dir["s"] = s
    BY <2>1 DEF Dirs
  <2>4. fs \in [file : [Files -> Nat], dir : [Dirs -> Nat], born : Nat, ign : BOOLEAN, ctl : Nat]
    BY <2>1, <2>2, <2>3
  <2>5. now = 1 /\ git \in BOOLEAN
    BY <1>1 DEF PWInit
  <2>6. QED BY <2>2, <2>3, <2>4, <2>5 DEF FsInv, Dirs
<1>3. PreparedInv
  BY <1>1 DEF PWInit, PreparedInv
<1>4. PushInv
  BY <1>1 DEF PWInit, PushInv, PushRecord, Idle
<1>5. QED BY <1>2, <1>3, <1>4 DEF PWInv

LEMMA PWNextKeeps ==
  PWInv /\ [PWNext]_pwvars => PWInv'
<1>1. SUFFICES ASSUME PWInv, [PWNext]_pwvars PROVE PWInv'
  OBVIOUS
<1>2. CASE \E n \in Files : WriteFile(n) \/ ReplaceFile(n)
  BY <1>1, <1>2, EditSteps
<1>3. CASE Mkdir \/ RemoveDir \/ EditControl
  <2>1. "f" \in Files BY DEF Files
  <2>2. QED BY <1>1, <1>3, <2>1, EditSteps
<1>4. CASE RunEvent \/ Poll \/ Overflow \/ RunReselect \/ RunRefresh \/ RunInvalidate \/ LoopChanged \/ UNCHANGED pwvars
  BY <1>1, <1>4, OtherSteps
<1>5. CASE PrepareSnapshot \/ Relist \/ Read \/ Update
  BY <1>1, <1>5, TakeKeeps, RelistKeeps, ReadKeeps, UpdateKeeps
<1>6. CASE FullSelect \/ FullBuild \/ captureSelectionEvidence \/ listDirectories \/ FullVerify
  BY <1>1, <1>6, FullSelectKeeps, FullBuildKeeps, StampKeeps, EnlistKeeps, VerifyKeeps
<1>7. CASE ReadError \/ BeginPush \/ Compare \/ CopySource \/ Send \/ SendFails \/ LoopTimer \/ LoopCompleted \/ Stop
  BY <1>1, <1>7, RestingSteps
<1>8. QED BY <1>1, <1>2, <1>3, <1>4, <1>5, <1>6, <1>7 DEF PWNext

\* The inductive invariant of the watch: the lists of the prepared evidence, and of the one
\* being made, are a directory's whenever its stamp still is, and select the manifest's paths.
THEOREM PWInvariance == PWSpec => []PWInv
BY PWInitHolds, PWNextKeeps, PTL DEF PWSpec

\* EvidenceProves: while the stamps and the policy of the evidence are the checkout's
\* (selectionEvidence.verify), selecting everything again would give the prepared paths.
THEOREM EvidenceHolds == PWSpec => []EvidenceProves
<1>1. PWInv => EvidenceProves
  <2>1. SUFFICES ASSUME PWInv, prepared.ev # NoEvidence, Verified(prepared.ev)
                 PROVE  DOMAIN prepared.man = SelectFiles
    BY DEF EvidenceProves
  <2>2. /\ FsInv /\ Sound(prepared.ev) /\ Covers(prepared.ev)
        /\ DOMAIN prepared.man = Selects(prepared.ev)
    BY <2>1 DEF PWInv, PreparedInv
  <2>3. QED BY <2>1, <2>2, VerifiedSelects
<1>2. QED BY <1>1, PWInvariance, PTL

-----------------------------------------------------------------------------
(* Nothing is lost on the way from an edit to the receiver                 *)

Kinds == {Clean, dirtyContent, dirtyEntry, dirtySubtree}
HintsType == [dirty : [Names -> Kinds], full : BOOLEAN, owed : BOOLEAN]

SEvent == <<"s", "entry">>
CtlEvent == <<"ctl", "write">>
FileEvents(n) == {<<n, "write">>, <<n, "entry">>}

\* Everything will be asked for: by the reader of events, or by the hints.
Renewing == \/ w.lost \/ w.refresh \/ w.pc # "wait" \/ CtlEvent \in w.events
            \/ git /\ w.stamp # fs.ctl
Everything == hints.full \/ hints.owed

\* The file, or all, will be looked at again.
Notified(n) == \/ Renewing \/ Everything \/ hints.dirty[n] # Clean
               \/ FileEvents(n) \cap w.events # {}
               \/ n = "g" /\ (SEvent \in w.events \/ hints.dirty["s"] # Clean)

\* A preparation holds the hints it took: if it fails they are hints again.
Preparing == push.pc \in {"list", "read", "reread", "select", "build", "stamp", "enlist", "verify"}
Taken(n) == \/ push.taken.full \/ push.taken.owed \/ push.taken.dirty[n] # Clean
            \/ n = "g" /\ push.taken.dirty["s"] # Clean

HintsAny == Everything \/ \E n \in Names : hints.dirty[n] # Clean
Unsettled == HintsAny \/ Renewing \/ w.events # {}

WatchInv ==
  /\ w = [pc |-> w.pc, events |-> w.events, lost |-> w.lost, refresh |-> w.refresh,
          selectionChanged |-> w.selectionChanged, ign |-> w.ign, selected |-> w.selected,
          watching |-> w.watching, directories |-> w.directories, control |-> w.control, stamp |-> w.stamp]
  /\ w.pc \in {"wait", "refresh", "invalidate"}
  /\ w.events \subseteq FileEvents("f") \cup FileEvents("g") \cup {SEvent, CtlEvent}
  /\ w.stamp \in Nat /\ w.stamp <= now /\ fs.ctl <= now /\ w.ign \in BOOLEAN
  /\ "r" \in w.watching
  /\ Exists("s") /\ "s" \notin w.watching => SEvent \in w.events \/ w.refresh \/ w.lost \/ w.pc = "refresh"
  /\ w.ign # fs.ign => CtlEvent \in w.events \/ w.selectionChanged \/ w.lost \/ (git /\ w.stamp # fs.ctl)
  /\ w.selectionChanged => w.refresh

HintsInv == hints \in HintsType /\ (Preparing => push.taken \in HintsType)

Failed == {"files", "mutated", "unknown", "network", "recovered"}

LoopInv ==
  /\ loop = [live |-> loop.live, dirty |-> loop.dirty, timer |-> loop.timer, retry |-> loop.retry, retries |-> loop.retries]
  /\ loop.retry => loop.timer /\ ~Busy
  /\ ~Busy /\ moved => loop.timer \/ changed
  /\ HintsAny => \/ moved \/ loop.timer \/ push.pc \in {"begin", "take"}
                 \/ push.pc = "done" /\ push.outcome \in Failed

PolicyEnding == (push.pc = "compare" /\ push.ign) \/ (push.pc = "done" /\ push.outcome = "policy")
PolicyInv ==
  fs.ign => \/ Everything \/ Renewing \/ PolicyEnding
            \/ Preparing /\ (push.taken.full \/ push.taken.owed)

\* What was read of the files is right, or will be looked at again.
Current(man, files) == \A n \in files \cap Files : man[n] = fs.file[n] \/ Notified(n)
PreparedCurrent ==
  prepared.ev # NoEvidence /\ ~fs.ign =>
    \A n \in DOMAIN prepared.man \cap Files :
       prepared.man[n] = fs.file[n] \/ Notified(n) \/ (Preparing /\ Taken(n))

StageInv ==
  /\ push.pc \in {"list", "read", "reread"} =>
       prepared.ev # NoEvidence /\ ~push.taken.full /\ ~push.taken.owed
  /\ push.pc = "read" /\ ~fs.ign =>
       Current(prepared.man, DOMAIN prepared.man \ (push.files \cup push.paths))
  /\ push.pc \in {"reread", "stamp", "enlist", "verify"} =>
       /\ push.man = [n \in DOMAIN push.man |-> push.man[n]]
       /\ "s" \in DOMAIN push.man => push.man["s"] = 0
       /\ ~fs.ign => Current(push.man, DOMAIN push.man)
  /\ prepared.ev # NoEvidence => ("s" \in DOMAIN prepared.man => prepared.man["s"] = 0)

\* The last push that was prepared has been, or is being, delivered.
Delivered == (push.pc = "done" /\ push.outcome \in {"ok", "unchanged"}) \/ (~Busy /\ ~loop.timer)
Delivering == push.pc \in {"compare", "copy", "send"}
FinalInv ==
  Delivered \/ Delivering => (~fs.ign => prepared.man = Manifest(SelectFiles) \/ Unsettled)

SendInv ==
  /\ pending = [man |-> pending.man, applying |-> pending.applying]
  /\ ~pending.applying => accepted \in {NoManifest, delivered}
  /\ Preparing \/ Delivering \/ push.pc = "take" => ~pending.applying
  /\ Delivering => push.man = prepared.man /\ DOMAIN push.man \subseteq Entries
  /\ Delivered => delivered = prepared.man
  /\ push.pc = "done" => push.outcome \in Failed \cup {"ok", "unchanged", "policy"}

ReachInv == Awake => WatchInv /\ HintsInv /\ LoopInv /\ PolicyInv /\ PreparedCurrent /\ StageInv /\ FinalInv /\ SendInv

-----------------------------------------------------------------------------
(* The user                                                                *)

\* The watch but for its events.
WatchRest(a) == <<a.pc, a.lost, a.refresh, a.selectionChanged, a.ign, a.selected, a.directories, a.stamp>>
WatchRecord == w = [pc |-> w.pc, events |-> w.events, lost |-> w.lost, refresh |-> w.refresh,
          selectionChanged |-> w.selectionChanged, ign |-> w.ign, selected |-> w.selected,
          watching |-> w.watching, directories |-> w.directories, control |-> w.control, stamp |-> w.stamp]

\* What every edit does: it only adds events, and what it changes it notifies of.
EditFacts ==
  /\ UNCHANGED <<git, hints, changed, moved, loop, push, prepared, accepted, pending, delivered>>
  /\ WatchInv'
  /\ \A m \in Files : fs'.file[m] = fs.file[m] \/ Notified(m)'
  /\ \A m \in Files : Notified(m) => Notified(m)'
  /\ Renewing => Renewing'
  /\ (fs'.ign <=> fs.ign) \/ Renewing'
  /\ Unsettled'

LEMMA EditFactsKeep ==
  ASSUME ReachInv, Awake, EditFacts
  PROVE  ReachInv'
<1>1. /\ WatchInv /\ HintsInv /\ LoopInv /\ PolicyInv /\ PreparedCurrent /\ StageInv /\ FinalInv /\ SendInv
  BY DEF ReachInv
<1>2. /\ hints' = hints /\ push' = push /\ prepared' = prepared /\ loop' = loop /\ moved' = moved
      /\ changed' = changed /\ accepted' = accepted /\ pending' = pending /\ delivered' = delivered
      /\ WatchInv' /\ Unsettled'
  BY DEF EditFacts
<1>3. HintsInv' /\ SendInv'
  BY <1>1, <1>2 DEF HintsInv, SendInv, Preparing, Delivering, Delivered, Busy
<1>4. LoopInv'
  BY <1>1, <1>2 DEF LoopInv, HintsAny, Everything, Busy
<1>5. Renewing' => \A m \in Files : Notified(m)'
  BY DEF Notified
<1>6. PolicyInv'
  BY <1>1, <1>2 DEF EditFacts, PolicyInv, Everything, PolicyEnding, Preparing
<1>7. \A m \in Files : Taken(m)' <=> Taken(m)
  BY <1>2 DEF Taken
<1>8. ASSUME NEW m \in Files, NEW v, v = fs.file[m] \/ Notified(m)
      PROVE  v = fs'.file[m] \/ Notified(m)'
  BY <1>8 DEF EditFacts
<1>9. PreparedCurrent'
  <2>1. CASE Renewing'
    BY <1>5, <2>1 DEF PreparedCurrent
  <2>2. CASE fs'.ign <=> fs.ign
    BY <1>1, <1>2, <1>7, <1>8, <2>2 DEF PreparedCurrent, Preparing
  <2>3. QED BY <2>1, <2>2 DEF EditFacts
<1>10. StageInv'
  <2>1. CASE Renewing'
    BY <1>1, <1>2, <1>5, <2>1 DEF StageInv, Current
  <2>2. CASE fs'.ign <=> fs.ign
    <3>1. push.pc = "read" /\ ~fs'.ign =>
            Current(prepared.man, DOMAIN prepared.man \ (push.files \cup push.paths))'
      BY <1>1, <1>2, <1>8, <2>2 DEF StageInv, Current
    <3>2. push.pc \in {"reread", "stamp", "enlist", "verify"} /\ ~fs'.ign => Current(push.man, DOMAIN push.man)'
      BY <1>1, <1>2, <1>8, <2>2 DEF StageInv, Current
    <3>3. QED BY <1>1, <1>2, <3>1, <3>2 DEF StageInv
  <2>3. QED BY <2>1, <2>2 DEF EditFacts
<1>11. FinalInv'
  BY <1>2 DEF FinalInv
<1>12. QED BY <1>2, <1>3, <1>4, <1>6, <1>9, <1>10, <1>11 DEF ReachInv

LEMMA Emitted ==
  ASSUME WatchInv, NEW evs, Emit(evs)
  PROVE  /\ w'.events = w.events \cup evs /\ w'.watching = w.watching /\ WatchRest(w') = WatchRest(w) /\ WatchRecord'
BY DEF WatchInv, Emit, WatchRest, WatchRecord

\* Events are only added and the control is as it was.
LEMMA NotifiedStays ==
  ASSUME WatchRest(w') = WatchRest(w), w.events \subseteq w'.events, fs'.ctl = fs.ctl, UNCHANGED <<git, hints>>
  PROVE  /\ \A m \in Files : Notified(m) => Notified(m)'
         /\ Renewing => Renewing'
<1>1. Renewing => Renewing'
  BY DEF Renewing, WatchRest
<1>2. ASSUME NEW m \in Files, Notified(m)
      PROVE  Notified(m)'
  BY <1>1, <1>2 DEF Notified, Everything
<1>3. QED BY <1>1, <1>2

LEMMA WatchStays ==
  ASSUME FsInv, FsInv', now' = now + 1, WatchInv, WatchRecord', WatchRest(w') = WatchRest(w), fs'.ctl = fs.ctl, fs'.ign = fs.ign,
         git' = git, w.events \subseteq w'.events,
         w'.events \subseteq FileEvents("f") \cup FileEvents("g") \cup {SEvent, CtlEvent}, "r" \in w'.watching,
         fs'.dir["s"] > 0 /\ "s" \notin w'.watching => SEvent \in w'.events \/ (fs.dir["s"] > 0 /\ "s" \notin w.watching)
  PROVE  WatchInv'
<1>1. w'.pc = w.pc /\ w'.lost = w.lost /\ w'.refresh = w.refresh /\ w'.selectionChanged = w.selectionChanged
      /\ w'.ign = w.ign /\ w'.stamp = w.stamp
  BY DEF WatchRest
<1>2. w'.stamp \in Nat /\ w'.stamp <= now' /\ fs'.ctl <= now'
  BY <1>1 DEF WatchInv, FsInv
<1>3. (Exists("s") <=> fs.dir["s"] > 0) /\ (Exists("s")' <=> fs'.dir["s"] > 0)
  BY DEF Exists, Files
<1>4. Exists("s")' /\ "s" \notin w'.watching => SEvent \in w'.events \/ w'.refresh \/ w'.lost \/ w'.pc = "refresh"
  BY <1>1, <1>3 DEF WatchInv
<1>5. w'.ign # fs'.ign => CtlEvent \in w'.events \/ w'.selectionChanged \/ w'.lost \/ (git' /\ w'.stamp # fs'.ctl)
  BY <1>1 DEF WatchInv
<1>6. QED BY <1>1, <1>2, <1>4, <1>5 DEF WatchInv, WatchRecord

LEMMA FileSteps ==
  ASSUME FsInv, FsInv', ReachInv, NEW n \in Files, WriteFile(n) \/ ReplaceFile(n)
  PROVE  ReachInv'
<1>1. Awake /\ Edit /\ Rest
  BY DEF WriteFile, ReplaceFile, Edit
<1>2. WatchInv /\ now' = now + 1 /\ UNCHANGED <<git, hints, changed, moved, loop, push, prepared, accepted, pending, delivered>>
  BY <1>1 DEF ReachInv, Edit, Rest
<1>3. PICK evs : Emit(evs) /\ evs \subseteq FileEvents(n) /\ (Seen(n) => evs # {})
  <2>1. CASE WriteFile(n)
    BY <2>1 DEF WriteFile, FileEvents
  <2>2. CASE ReplaceFile(n)
    BY <2>2 DEF ReplaceFile, FileEvents
  <2>3. QED BY <2>1, <2>2
<1>4. /\ w'.events = w.events \cup evs /\ w'.watching = w.watching /\ WatchRest(w') = WatchRest(w) /\ WatchRecord'
  BY <1>2, <1>3, Emitted
<1>5. (n = "f" /\ DirOf[n] = "r") \/ (n = "g" /\ DirOf[n] = "s")
  <2>1. CASE n = "f"
    BY <2>1 DEF DirOf
  <2>2. CASE n = "g"
    BY <2>2 DEF DirOf
  <2>3. QED BY <2>1, <2>2 DEF Files
<1>6. /\ fs'.ctl = fs.ctl /\ fs'.ign = fs.ign /\ (\A m \in Files : m # n => fs'.file[m] = fs.file[m])
      /\ n = "g" => fs.dir["s"] > 0
      /\ fs'.dir["s"] > 0 => fs.dir["s"] > 0
  <2>1. /\ fs.file \in [Files -> Nat] /\ fs.dir \in [Dirs -> Nat] /\ (fs.file["g"] > 0 => fs.dir["s"] > 0)
        /\ fs = [file |-> fs.file, dir |-> fs.dir, born |-> fs.born, ign |-> fs.ign, ctl |-> fs.ctl]
    BY DEF FsInv
  <2>2. CASE WriteFile(n)
    <3>1. fs' = [fs EXCEPT !.file[n] = now'] /\ fs.file[n] > 0
      BY <2>2 DEF WriteFile, Exists
    <3>2. fs' = [file |-> [fs.file EXCEPT ![n] = now'], dir |-> fs.dir, born |-> fs.born, ign |-> fs.ign, ctl |-> fs.ctl]
      BY <2>1, <3>1
    <3>3. QED BY <2>1, <3>1, <3>2
  <2>3. CASE ReplaceFile(n)
    <3>1. PICK v : fs' = [fs EXCEPT !.file[n] = v, !.dir[DirOf[n]] = now']
      BY <2>3 DEF ReplaceFile
    <3>2. fs' = [file |-> [fs.file EXCEPT ![n] = v], dir |-> [fs.dir EXCEPT ![DirOf[n]] = now'],
                 born |-> fs.born, ign |-> fs.ign, ctl |-> fs.ctl]
      BY <2>1, <3>1
    <3>3. fs.dir[DirOf[n]] > 0
      <4>1. DirOf[n] \notin Files
        BY <1>5 DEF Files
      <4>2. QED BY <2>3, <4>1 DEF ReplaceFile, Exists
    <3>4. fs'.dir["s"] > 0 => fs.dir["s"] > 0
      <4>1. CASE n = "g"
        BY <1>5, <3>3, <4>1
      <4>2. CASE n = "f"
        BY <1>5, <2>1, <3>2, <4>2 DEF Dirs
      <4>3. QED BY <4>1, <4>2 DEF Files
    <3>5. QED BY <1>5, <2>1, <3>2, <3>3, <3>4
  <2>4. QED BY <2>2, <2>3
<1>7. \A m \in Files : FileEvents(m) \subseteq FileEvents("f") \cup FileEvents("g")
  BY DEF Files
<1>8. WatchInv'
  <2>1. /\ w.events \subseteq w'.events /\ "r" \in w'.watching
        /\ w'.events \subseteq FileEvents("f") \cup FileEvents("g") \cup {SEvent, CtlEvent}
    BY <1>2, <1>3, <1>4, <1>7 DEF WatchInv
  <2>2. QED BY <1>2, <1>4, <1>6, <2>1, WatchStays
<1>9. /\ \A m \in Files : Notified(m) => Notified(m)'
      /\ Renewing => Renewing'
  <2>1. w.events \subseteq w'.events
    BY <1>4
  <2>2. QED BY <1>2, <1>4, <1>6, <2>1, NotifiedStays
<1>10. Notified(n)' /\ Unsettled'
  <2>1. CASE Seen(n)
    <3>1. FileEvents(n) \cap w'.events # {}
      BY <1>3, <1>4, <2>1
    <3>2. QED BY <3>1 DEF Notified, Unsettled
  <2>2. CASE ~Seen(n)
    <3>1. n = "g" /\ "s" \notin w'.watching
      BY <1>2, <1>4, <1>5, <2>2 DEF Seen, WatchInv
    <3>2. fs'.dir["s"] > 0 \/ fs.dir["s"] > 0
      BY <1>6, <3>1
    <3>3. SEvent \in w.events \/ w.refresh \/ w.lost \/ w.pc = "refresh"
      BY <1>2, <1>4, <1>6, <3>1, <3>2 DEF WatchInv, Exists, Files
    <3>4. SEvent \in w'.events \/ Renewing'
      BY <1>4, <1>9, <3>3 DEF Renewing
    <3>5. QED BY <3>1, <3>4 DEF Notified, Unsettled
  <2>3. QED BY <2>1, <2>2
<1>11. EditFacts
  BY <1>2, <1>6, <1>8, <1>9, <1>10 DEF EditFacts
<1>12. QED BY <1>1, <1>11, EditFactsKeep

LEMMA MkdirStep ==
  ASSUME FsInv, FsInv', ReachInv, Mkdir
  PROVE  ReachInv'
<1>1. Awake /\ Edit /\ Rest /\ Emit({SEvent})
  BY DEF Mkdir, Edit, SEvent
<1>2. WatchInv /\ now' = now + 1 /\ UNCHANGED <<git, hints, changed, moved, loop, push, prepared, accepted, pending, delivered>>
  BY <1>1 DEF ReachInv, Edit, Rest
<1>3. /\ w'.events = w.events \cup {SEvent} /\ w'.watching = w.watching /\ WatchRest(w') = WatchRest(w) /\ WatchRecord'
  BY <1>1, <1>2, Emitted
<1>4. /\ fs'.ctl = fs.ctl /\ fs'.ign = fs.ign /\ fs'.file = fs.file
  BY DEF Mkdir, FsInv
<1>5. WatchInv'
  <2>1. /\ w.events \subseteq w'.events /\ "r" \in w'.watching /\ SEvent \in w'.events
        /\ w'.events \subseteq FileEvents("f") \cup FileEvents("g") \cup {SEvent, CtlEvent}
    BY <1>2, <1>3 DEF WatchInv
  <2>2. QED BY <1>2, <1>3, <1>4, <2>1, WatchStays
<1>6. /\ \A m \in Files : Notified(m) => Notified(m)'
      /\ Renewing => Renewing'
  <2>1. w.events \subseteq w'.events
    BY <1>3
  <2>2. QED BY <1>2, <1>3, <1>4, <2>1, NotifiedStays
<1>7. Unsettled'
  BY <1>3 DEF Unsettled
<1>8. EditFacts
  BY <1>2, <1>4, <1>5, <1>6, <1>7 DEF EditFacts
<1>9. QED BY <1>1, <1>8, EditFactsKeep

LEMMA RemoveDirStep ==
  ASSUME FsInv, FsInv', ReachInv, RemoveDir
  PROVE  ReachInv'
<1>1. Awake /\ Edit /\ Rest
  BY DEF RemoveDir, Edit
<1>2. WatchInv /\ now' = now + 1 /\ UNCHANGED <<git, hints, changed, moved, loop, push, prepared, accepted, pending, delivered>>
  BY <1>1 DEF ReachInv, Edit, Rest
<1>3. PICK evs : /\ w' = [w EXCEPT !.watching = @ \ {"s"}, !.events = @ \cup evs]
                 /\ SEvent \in evs /\ evs \subseteq {SEvent} \cup FileEvents("g")
  <2>1. PICK gone : /\ gone = IF Seen("g") /\ Exists("g") THEN {<<"g", "entry">>} ELSE {}
    OBVIOUS
  <2>2. w' = [w EXCEPT !.watching = @ \ {"s"}, !.events = (@ \cup {<<"s", "entry">>}) \cup gone]
    BY <2>1 DEF RemoveDir
  <2>3. w' = [w EXCEPT !.watching = @ \ {"s"}, !.events = @ \cup ({<<"s", "entry">>} \cup gone)]
    <3>1. \A a, b, c : (a \cup b) \cup c = a \cup (b \cup c)
      OBVIOUS
    <3>2. QED BY <1>2, <2>2, <3>1 DEF WatchInv
  <2>4. SEvent \in {<<"s", "entry">>} \cup gone /\ {<<"s", "entry">>} \cup gone \subseteq {SEvent} \cup FileEvents("g")
    BY <2>1 DEF SEvent, FileEvents
  <2>5. QED BY <2>3, <2>4
<1>4. /\ w'.events = w.events \cup evs /\ w'.watching = w.watching \ {"s"} /\ WatchRest(w') = WatchRest(w) /\ WatchRecord'
  BY <1>2, <1>3 DEF WatchInv, WatchRest, WatchRecord
<1>5. fs' = [fs EXCEPT !.dir = [r |-> now', s |-> 0], !.file["g"] = 0]
  BY DEF RemoveDir
<1>6. /\ fs'.ctl = fs.ctl /\ fs'.ign = fs.ign /\ (\A m \in Files : m # "g" => fs'.file[m] = fs.file[m])
      /\ fs'.dir = [r |-> now', s |-> 0]
  BY <1>5 DEF FsInv
<1>7. WatchInv'
  <2>1. ~(fs'.dir["s"] > 0)
    BY <1>6
  <2>2. /\ w.events \subseteq w'.events /\ "r" \in w'.watching
        /\ w'.events \subseteq FileEvents("f") \cup FileEvents("g") \cup {SEvent, CtlEvent}
    BY <1>2, <1>3, <1>4 DEF WatchInv
  <2>3. QED BY <1>2, <1>4, <1>6, <2>1, <2>2, WatchStays
<1>8. /\ \A m \in Files : Notified(m) => Notified(m)'
      /\ Renewing => Renewing'
  <2>1. w.events \subseteq w'.events
    BY <1>4
  <2>2. QED BY <1>2, <1>4, <1>6, <2>1, NotifiedStays
<1>9. Unsettled' /\ Notified("g")'
  BY <1>3, <1>4 DEF Unsettled, Notified
<1>10. EditFacts
  BY <1>2, <1>6, <1>7, <1>8, <1>9 DEF EditFacts
<1>11. QED BY <1>1, <1>10, EditFactsKeep

LEMMA EditControlStep ==
  ASSUME FsInv, FsInv', ReachInv, EditControl
  PROVE  ReachInv'
<1>1. Awake /\ Edit /\ Rest
  BY DEF EditControl, Edit
<1>2. /\ WatchInv /\ now \in Nat /\ now' = now + 1
      /\ UNCHANGED <<git, hints, changed, moved, loop, push, prepared, accepted, pending, delivered>>
  BY <1>1 DEF ReachInv, Edit, Rest, FsInv
<1>3. PICK replaced \in (IF git THEN BOOLEAN ELSE {FALSE}) :
          w' = [w EXCEPT !.control = @ /\ ~replaced,
                         !.events = @ \cup IF ~git \/ (w.control /\ ~replaced) THEN {<<"ctl", "write">>} ELSE {}]
  BY DEF EditControl
<1>4. PICK evs : evs = IF ~git \/ (w.control /\ ~replaced) THEN {<<"ctl", "write">>} ELSE {}
  OBVIOUS
<1>5. /\ w'.events = w.events \cup evs /\ w'.watching = w.watching /\ WatchRest(w') = WatchRest(w) /\ WatchRecord'
  BY <1>2, <1>3, <1>4 DEF WatchInv, WatchRest, WatchRecord
<1>6. evs \subseteq {CtlEvent} /\ (~git => CtlEvent \in evs)
  BY <1>4 DEF CtlEvent
<1>7. fs' = [fs EXCEPT !.ign = ~@, !.ctl = now']
  BY DEF EditControl
<1>8. fs'.ctl = now' /\ fs'.file = fs.file /\ fs'.dir = fs.dir
  BY <1>7 DEF FsInv
<1>9. w'.stamp = w.stamp /\ w'.stamp # fs'.ctl /\ w'.stamp \in Nat /\ w'.stamp <= now' /\ fs'.ctl <= now'
  BY <1>2, <1>5, <1>8 DEF WatchRest, WatchInv
<1>10. CtlEvent \in w'.events \/ (git' /\ w'.stamp # fs'.ctl)
  BY <1>2, <1>5, <1>6, <1>9
<1>11. /\ w'.pc = w.pc /\ w'.lost = w.lost /\ w'.refresh = w.refresh /\ w'.selectionChanged = w.selectionChanged /\ w'.ign = w.ign
  BY <1>5 DEF WatchRest
<1>12. WatchInv'
  <2>1. Exists("s")' <=> Exists("s")
    BY <1>8 DEF Exists, Files
  <2>2. w'.events \subseteq FileEvents("f") \cup FileEvents("g") \cup {SEvent, CtlEvent}
    BY <1>2, <1>5, <1>6 DEF WatchInv
  <2>3. QED BY <1>2, <1>5, <1>9, <1>10, <1>11, <2>1, <2>2 DEF WatchInv, WatchRecord
<1>13. Renewing'
  BY <1>10 DEF Renewing
<1>14. EditFacts
  BY <1>2, <1>8, <1>12, <1>13 DEF EditFacts, Notified, Unsettled
<1>15. QED BY <1>1, <1>14, EditFactsKeep

-----------------------------------------------------------------------------
(* The reader of events                                                    *)

\* What it does: it forgets nothing, and who gets a hint is notified.
EventFacts ==
  /\ UNCHANGED <<fs, git, now, loop, push, prepared, accepted, pending, delivered>>
  /\ WatchInv' /\ hints' \in HintsType
  /\ (hints' = hints /\ changed' = changed /\ moved' = moved) \/ (changed' /\ moved')
  /\ Everything \/ Renewing => Everything' \/ Renewing'
  /\ ~fs.ign => \A m \in Files : Notified(m) => Notified(m)'
  /\ ~fs.ign => (Unsettled => Unsettled')

LEMMA EventFactsKeep ==
  ASSUME ReachInv, Awake, EventFacts
  PROVE  ReachInv'
<1>1. /\ WatchInv /\ HintsInv /\ LoopInv /\ PolicyInv /\ PreparedCurrent /\ StageInv /\ FinalInv /\ SendInv
  BY DEF ReachInv
<1>2. /\ push' = push /\ prepared' = prepared /\ loop' = loop /\ fs' = fs /\ git' = git
      /\ accepted' = accepted /\ pending' = pending /\ delivered' = delivered
      /\ WatchInv' /\ hints' \in HintsType
  BY DEF EventFacts
<1>3. HintsInv' /\ SendInv'
  BY <1>1, <1>2 DEF HintsInv, SendInv, Preparing, Delivering, Delivered, Busy
<1>4. LoopInv'
  <2>1. CASE hints' = hints /\ changed' = changed /\ moved' = moved
    BY <1>1, <1>2, <2>1 DEF LoopInv, HintsAny, Everything, Busy
  <2>2. CASE changed' /\ moved'
    BY <1>1, <1>2, <2>2 DEF LoopInv, Busy
  <2>3. QED BY <2>1, <2>2 DEF EventFacts
<1>5. PolicyInv'
  BY <1>1, <1>2 DEF EventFacts, PolicyInv, PolicyEnding, Preparing
<1>6. \A m \in Files : Taken(m)' <=> Taken(m)
  BY <1>2 DEF Taken
<1>7. ASSUME ~fs.ign, NEW m \in Files, NEW v, v = fs.file[m] \/ Notified(m)
      PROVE  v = fs'.file[m] \/ Notified(m)'
  BY <1>2, <1>7 DEF EventFacts
<1>8. PreparedCurrent'
  BY <1>1, <1>2, <1>6, <1>7 DEF PreparedCurrent, Preparing
<1>9. StageInv'
  <2>1. push.pc = "read" /\ ~fs'.ign =>
          Current(prepared.man, DOMAIN prepared.man \ (push.files \cup push.paths))'
    BY <1>1, <1>2, <1>7 DEF StageInv, Current
  <2>2. push.pc \in {"reread", "stamp", "enlist", "verify"} /\ ~fs'.ign => Current(push.man, DOMAIN push.man)'
    BY <1>1, <1>2, <1>7 DEF StageInv, Current
  <2>3. QED BY <1>1, <1>2, <2>1, <2>2 DEF StageInv
<1>10. FinalInv'
  <2>1. Manifest(SelectFiles)' = Manifest(SelectFiles)
    BY <1>2 DEF Manifest, Version, SelectFiles, walk, gitListFiles, Exists, expandPaths
  <2>2. (Delivered \/ Delivering)' <=> (Delivered \/ Delivering)
    BY <1>2 DEF Delivered, Delivering, Busy
  <2>3. QED BY <1>1, <1>2, <2>1, <2>2 DEF FinalInv, EventFacts
<1>11. QED BY <1>2, <1>3, <1>4, <1>5, <1>8, <1>9, <1>10 DEF ReachInv

LEMMA Invalidated ==
  ASSUME hints \in HintsType, NEW n \in Names, NEW kind \in {dirtyContent, dirtyEntry, dirtySubtree},
         hints' = invalidatePath(hints, n, kind)
  PROVE  /\ hints' \in HintsType /\ (hints'.full <=> hints.full \/ kind = dirtySubtree) /\ hints'.owed = hints.owed
         /\ hints'.dirty[n] # Clean
         /\ \A m \in Names : hints.dirty[m] # Clean => hints'.dirty[m] # Clean
<1>1. PICK k : k = Max2(hints.dirty[n], kind)
  OBVIOUS
<1>2. hints' = [dirty |-> [hints.dirty EXCEPT ![n] = k], full |-> hints.full \/ kind = dirtySubtree, owed |-> hints.owed]
  BY <1>1 DEF invalidatePath, HintsType
<1>3. hints.dirty[n] \in Kinds
  BY DEF HintsType
<1>4. k \in Kinds /\ k # Clean
  BY <1>1, <1>3 DEF Max2, Kinds, Clean, dirtyContent, dirtyEntry, dirtySubtree
<1>5. hints'.dirty \in [Names -> Kinds] /\ hints'.dirty[n] = k /\ \A m \in Names : m # n => hints'.dirty[m] = hints.dirty[m]
  BY <1>2, <1>4 DEF HintsType
<1>6. (hints'.full <=> hints.full \/ kind = dirtySubtree) /\ hints'.full \in BOOLEAN /\ hints'.owed = hints.owed /\ hints'.owed \in BOOLEAN
  <2>1. hints'.full = (hints.full \/ kind = dirtySubtree) /\ hints'.owed = hints.owed
    BY <1>2
  <2>2. hints.owed \in BOOLEAN
    BY DEF HintsType
  <2>3. QED BY <2>1, <2>2, Zenon
<1>7. hints' \in HintsType
  BY <1>2, <1>5, <1>6 DEF HintsType
<1>8. QED BY <1>4, <1>5, <1>6, <1>7

LEMMA AllInvalidated ==
  ASSUME hints \in HintsType, hints' = InvalidatePreparation(hints)
  PROVE  hints' \in HintsType /\ hints'.full /\ hints'.dirty = hints.dirty /\ hints'.owed = hints.owed
BY DEF InvalidatePreparation, HintsType

LEMMA FullNotifies ==
  ASSUME hints'.full
  PROVE  Everything' /\ Unsettled' /\ \A m \in Files : Notified(m)'
BY DEF Everything, Unsettled, HintsAny, Notified

LEMMA RenewingNotifies ==
  ASSUME Renewing'
  PROVE  Unsettled' /\ \A m \in Files : Notified(m)'
BY DEF Unsettled, Notified

LEMMA RunEventStep ==
  ASSUME FsInv, ReachInv, RunEvent
  PROVE  ReachInv'
<1>1. Awake /\ WatchInv /\ hints \in HintsType /\ w.pc = "wait"
  BY DEF RunEvent, ReachInv, HintsInv
<1>2. UNCHANGED <<fs, git, now, loop, push, prepared, accepted, pending, delivered>>
  BY DEF RunEvent, StaysOut
<1>3. PICK e \in w.events :
         LET n == e[1]
             dir == n = "s" /\ Exists("s")
             control == n = "ctl"
             structural == control \/ (e[2] = "entry" /\ n = "s" /\ (dir \/ "s" \in w.directories))
             kind == IF control \/ dir THEN dirtySubtree ELSE IF e[2] = "entry" THEN dirtyEntry ELSE dirtyContent IN
         /\ w' = [w EXCEPT !.events = @ \ {e},
                           !.stamp = IF control THEN fs.ctl ELSE @,
                           !.control = IF control /\ git /\ w.stamp # fs.ctl THEN FALSE ELSE @,
                           !.selectionChanged = @ \/ control,
                           !.refresh = @ \/ structural]
         /\ IF relevant(n) THEN hints' = invalidatePath(hints, n, kind) /\ notifyChange
            ELSE UNCHANGED <<hints, changed, moved>>
  BY DEF RunEvent
<1>4. PICK n : n = e[1]
  OBVIOUS
<1>5. PICK kind : kind = IF n = "ctl" \/ (n = "s" /\ Exists("s")) THEN dirtySubtree
                         ELSE IF e[2] = "entry" THEN dirtyEntry ELSE dirtyContent
  OBVIOUS
<1>6. /\ e \in FileEvents("f") => n = "f"
      /\ e \in FileEvents("g") => n = "g"
      /\ e = SEvent => n = "s" /\ e[2] = "entry"
      /\ e = CtlEvent => n = "ctl"
  BY <1>4 DEF FileEvents, SEvent, CtlEvent
<1>7. e \in FileEvents("f") \/ e \in FileEvents("g") \/ e = SEvent \/ e = CtlEvent
  BY <1>1, <1>3 DEF WatchInv
<1>8. n \in Names /\ kind \in {dirtyContent, dirtyEntry, dirtySubtree}
  BY <1>5, <1>6, <1>7 DEF Names, Files
<1>9. /\ w'.events = w.events \ {e} /\ w'.lost = w.lost /\ w'.pc = w.pc /\ w'.ign = w.ign /\ w'.watching = w.watching
      /\ w'.stamp = IF n = "ctl" THEN fs.ctl ELSE w.stamp
      /\ WatchRecord'
  BY <1>1, <1>3, <1>4 DEF WatchInv, WatchRecord
<1>10. /\ w'.selectionChanged <=> w.selectionChanged \/ n = "ctl"
       /\ w'.refresh <=> w.refresh \/ n = "ctl" \/ (e[2] = "entry" /\ n = "s" /\ (Exists("s") \/ "s" \in w.directories))
  BY <1>1, <1>3, <1>4 DEF WatchInv
<1>11. /\ relevant(n) => hints' = invalidatePath(hints, n, kind) /\ changed' /\ moved'
       /\ ~relevant(n) => hints' = hints /\ changed' = changed /\ moved' = moved
  BY <1>3, <1>4, <1>5 DEF notifyChange
<1>12. fs.ctl \in Nat
  BY DEF FsInv
<1>13. Renewing => Renewing'
  BY <1>2, <1>6, <1>9, <1>10 DEF Renewing
<1>14. n = "ctl" => Renewing'
  BY <1>10 DEF Renewing
<1>15. ~relevant(n) => n = "f" /\ w.ign
  BY DEF relevant
<1>16. ~relevant(n) /\ ~fs.ign => Renewing'
  <2>1. ASSUME ~relevant(n), ~fs.ign PROVE Renewing
    BY <1>1, <1>15, <2>1 DEF WatchInv, Renewing
  <2>2. QED BY <1>13, <2>1
<1>17. relevant(n) =>
         /\ hints' \in HintsType /\ (hints'.full <=> hints.full \/ kind = dirtySubtree) /\ hints'.owed = hints.owed
         /\ hints'.dirty[n] # Clean
         /\ \A m \in Names : hints.dirty[m] # Clean => hints'.dirty[m] # Clean
  BY <1>1, <1>8, <1>11, Invalidated
<1>18. WatchInv'
  <2>1. Exists("s")' <=> Exists("s")
    BY <1>2 DEF Exists
  <2>2. w'.stamp \in Nat /\ w'.stamp <= now'
    <3>1. fs.ctl <= now
      BY <1>1 DEF WatchInv
    <3>2. QED BY <1>1, <1>2, <1>9, <1>12, <3>1 DEF WatchInv
  <2>3. Exists("s") /\ "s" \notin w'.watching => SEvent \in w'.events \/ w'.refresh \/ w'.lost \/ w'.pc = "refresh"
    BY <1>1, <1>6, <1>9, <1>10 DEF WatchInv
  <2>4. w'.ign # fs'.ign => CtlEvent \in w'.events \/ w'.selectionChanged \/ w'.lost \/ (git' /\ w'.stamp # fs'.ctl)
    BY <1>1, <1>2, <1>6, <1>9, <1>10 DEF WatchInv
  <2>5. w'.selectionChanged => w'.refresh
    BY <1>1, <1>10 DEF WatchInv
  <2>6. w'.events \subseteq FileEvents("f") \cup FileEvents("g") \cup {SEvent, CtlEvent}
    BY <1>1, <1>9 DEF WatchInv
  <2>7. QED BY <1>1, <1>2, <1>9, <2>1, <2>2, <2>3, <2>4, <2>5, <2>6 DEF WatchInv, WatchRecord
<1>19. hints' \in HintsType /\ (Everything => Everything') /\ \A m \in Names : hints.dirty[m] # Clean => hints'.dirty[m] # Clean
  <2>1. CASE relevant(n)
    BY <1>17, <2>1 DEF Everything
  <2>2. CASE ~relevant(n)
    BY <1>1, <1>11, <2>2 DEF Everything
  <2>3. QED BY <2>1, <2>2
<1>20. ASSUME ~fs.ign, NEW m \in Files, Notified(m)
       PROVE  Notified(m)'
  <2>1. CASE Renewing \/ Renewing'
    BY <1>13, <2>1 DEF Notified
  <2>2. CASE Everything \/ hints.dirty[m] # Clean \/ (m = "g" /\ hints.dirty["s"] # Clean)
    BY <1>19, <2>2 DEF Notified, Names, Files
  <2>3. CASE FileEvents(m) \cap w.events # {} /\ ~Renewing'
    <3>1. CASE FileEvents(m) \cap w'.events # {}
      BY <3>1 DEF Notified
    <3>2. CASE FileEvents(m) \cap w'.events = {}
      <4>1. e \in FileEvents(m)
        BY <1>9, <2>3, <3>2
      <4>2. n = m
        BY <1>6, <4>1 DEF Files
      <4>3. QED BY <1>16, <1>17, <1>20, <2>3, <4>2 DEF Notified
    <3>3. QED BY <3>1, <3>2
  <2>4. CASE m = "g" /\ SEvent \in w.events /\ ~Renewing'
    <3>1. CASE SEvent \in w'.events
      BY <2>4, <3>1 DEF Notified
    <3>2. CASE SEvent \notin w'.events
      <4>1. n = "s"
        BY <1>6, <1>9, <2>4, <3>2
      <4>2. hints'.dirty["s"] # Clean
        BY <1>16, <1>17, <1>20, <2>4, <4>1
      <4>3. QED BY <2>4, <4>2 DEF Notified
    <3>3. QED BY <3>1, <3>2
  <2>5. QED BY <1>20, <2>1, <2>2, <2>3, <2>4 DEF Notified
<1>21. ~fs.ign => Unsettled'
  BY <1>8, <1>16, <1>17 DEF Unsettled, HintsAny
<1>22. EventFacts
  BY <1>2, <1>11, <1>13, <1>18, <1>19, <1>20, <1>21 DEF EventFacts
<1>23. QED BY <1>1, <1>22, EventFactsKeep

LEMMA PollStep ==
  ASSUME FsInv, ReachInv, Poll
  PROVE  ReachInv'
<1>1. Awake /\ WatchInv /\ hints \in HintsType /\ w.pc = "wait"
  BY DEF Poll, ReachInv, HintsInv
<1>2. UNCHANGED <<fs, git, now, loop, push, prepared, accepted, pending, delivered>> /\ changed' /\ moved'
  BY DEF Poll, StaysOut, notifyChange
<1>3. hints' \in HintsType /\ hints'.full
  BY <1>1, AllInvalidated DEF Poll
<1>4. /\ w'.events = w.events /\ w'.lost = w.lost /\ w'.pc = w.pc /\ w'.ign = w.ign /\ w'.watching = w.watching
      /\ w'.stamp = fs.ctl /\ w'.selectionChanged /\ w'.refresh /\ WatchRecord'
  BY <1>1 DEF Poll, WatchInv, WatchRecord
<1>5. fs.ctl \in Nat /\ fs.ctl <= now
  BY <1>1 DEF FsInv, WatchInv
<1>6. Exists("s")' <=> Exists("s")
  BY <1>2 DEF Exists
<1>7. WatchInv'
  BY <1>1, <1>2, <1>4, <1>5, <1>6 DEF WatchInv, WatchRecord
<1>8. EventFacts
  BY <1>2, <1>3, <1>7, FullNotifies DEF EventFacts
<1>9. QED BY <1>1, <1>8, EventFactsKeep

LEMMA OverflowStep ==
  ASSUME FsInv, ReachInv, Overflow
  PROVE  ReachInv'
<1>1. Awake /\ WatchInv /\ hints \in HintsType
  BY DEF Overflow, Fault, ReachInv, HintsInv
<1>2. UNCHANGED <<fs, git, now, loop, push, prepared, accepted, pending, delivered, hints, changed, moved>>
  BY DEF Overflow, StaysOut
<1>3. /\ w'.events = {} /\ w'.lost /\ w'.pc = w.pc /\ w'.ign = w.ign /\ w'.watching = w.watching
      /\ w'.stamp = w.stamp /\ w'.selectionChanged = w.selectionChanged /\ w'.refresh = w.refresh /\ WatchRecord'
  BY <1>1 DEF Overflow, WatchInv, WatchRecord
<1>4. WatchInv'
  BY <1>1, <1>2, <1>3 DEF WatchInv, WatchRecord
<1>5. Renewing'
  BY <1>3 DEF Renewing
<1>6. EventFacts
  BY <1>1, <1>2, <1>4, <1>5, RenewingNotifies DEF EventFacts
<1>7. QED BY <1>1, <1>6, EventFactsKeep

LEMMA ReselectStep ==
  ASSUME FsInv, ReachInv, RunReselect
  PROVE  ReachInv'
<1>1. Awake /\ WatchInv /\ hints \in HintsType
  BY DEF RunReselect, ReachInv, HintsInv
<1>2. UNCHANGED <<fs, git, now, loop, push, prepared, accepted, pending, delivered, hints, changed, moved>>
  BY DEF RunReselect, StaysOut
<1>3. fs.ign \in BOOLEAN
  BY DEF FsInv
<1>4. /\ w'.events = w.events /\ ~w'.lost /\ w'.pc = "refresh" /\ w'.watching = w.watching /\ w'.stamp = w.stamp
      /\ w'.refresh = (IF w.lost THEN w.refresh ELSE FALSE)
      /\ w'.selectionChanged = (IF w.lost THEN w.selectionChanged ELSE FALSE)
      /\ w'.ign = (IF w.selectionChanged \/ w.lost THEN fs.ign ELSE w.ign) /\ WatchRecord'
  BY <1>1 DEF RunReselect, WatchInv, WatchRecord
<1>5. w'.ign # fs.ign => CtlEvent \in w'.events \/ w'.selectionChanged \/ w'.lost \/ (git /\ w'.stamp # fs.ctl)
  BY <1>1, <1>4 DEF WatchInv
<1>6. (w'.selectionChanged => w'.refresh) /\ w'.ign \in BOOLEAN
  BY <1>1, <1>3, <1>4 DEF WatchInv
<1>7. WatchInv'
  BY <1>1, <1>2, <1>4, <1>5, <1>6 DEF WatchInv, WatchRecord
<1>8. Renewing'
  BY <1>4 DEF Renewing
<1>9. EventFacts
  BY <1>1, <1>2, <1>7, <1>8, RenewingNotifies DEF EventFacts
<1>10. QED BY <1>1, <1>9, EventFactsKeep

LEMMA RefreshStep ==
  ASSUME FsInv, ReachInv, RunRefresh
  PROVE  ReachInv'
<1>1. Awake /\ WatchInv /\ hints \in HintsType
  BY DEF RunRefresh, ReachInv, HintsInv
<1>2. UNCHANGED <<fs, git, now, loop, push, prepared, accepted, pending, delivered, hints, changed, moved>>
  BY DEF RunRefresh, StaysOut
<1>3. /\ w'.events = w.events /\ w'.lost = w.lost /\ w'.pc = "invalidate" /\ w'.watching = {d \in Dirs : Exists(d)}
      /\ w'.stamp = w.stamp /\ w'.refresh = w.refresh /\ w'.selectionChanged = w.selectionChanged
      /\ w'.ign = w.ign /\ WatchRecord'
  BY <1>1 DEF RunRefresh, WatchInv, WatchRecord
<1>4. "r" \in w'.watching /\ (Exists("s")' => "s" \in w'.watching)
  BY <1>2, <1>3 DEF Exists, Files, Dirs, FsInv
<1>5. WatchInv'
  BY <1>1, <1>2, <1>3, <1>4 DEF WatchInv, WatchRecord
<1>6. Renewing'
  BY <1>3 DEF Renewing
<1>7. EventFacts
  BY <1>1, <1>2, <1>5, <1>6, RenewingNotifies DEF EventFacts
<1>8. QED BY <1>1, <1>7, EventFactsKeep

LEMMA InvalidateStep ==
  ASSUME FsInv, ReachInv, RunInvalidate
  PROVE  ReachInv'
<1>1. Awake /\ WatchInv /\ hints \in HintsType /\ w.pc = "invalidate"
  BY DEF RunInvalidate, ReachInv, HintsInv
<1>2. UNCHANGED <<fs, git, now, loop, push, prepared, accepted, pending, delivered>> /\ changed' /\ moved'
  BY DEF RunInvalidate, StaysOut, notifyChange
<1>3. hints' \in HintsType /\ hints'.full
  BY <1>1, AllInvalidated DEF RunInvalidate
<1>4. /\ w'.events = w.events /\ w'.lost = w.lost /\ w'.pc = "wait" /\ w'.watching = w.watching
      /\ w'.stamp = w.stamp /\ w'.refresh = w.refresh /\ w'.selectionChanged = w.selectionChanged
      /\ w'.ign = w.ign /\ WatchRecord'
  BY <1>1 DEF RunInvalidate, WatchInv, WatchRecord
<1>5. Exists("s")' <=> Exists("s")
  BY <1>2 DEF Exists
<1>6. WatchInv'
  BY <1>1, <1>2, <1>4, <1>5 DEF WatchInv, WatchRecord
<1>7. EventFacts
  BY <1>2, <1>3, <1>6, FullNotifies DEF EventFacts
<1>8. QED BY <1>1, <1>7, EventFactsKeep

-----------------------------------------------------------------------------
(* The loop                                                                *)

\* No hint is dropped.
HintsKept ==
  /\ hints' \in HintsType /\ (Everything => Everything')
  /\ \A m \in Names : hints.dirty[m] # Clean => hints'.dirty[m] # Clean

LEMMA SameWatch ==
  ASSUME WatchInv, UNCHANGED <<fs, git, now, w>>
  PROVE  /\ WatchInv' /\ (Renewing' <=> Renewing) /\ Manifest(SelectFiles)' = Manifest(SelectFiles)
<1>1. Manifest(SelectFiles)' = Manifest(SelectFiles)
  BY DEF Manifest, Version, SelectFiles, walk, gitListFiles, Exists, expandPaths
<1>2. WatchInv'
  BY DEF WatchInv, Exists
<1>3. QED BY <1>1, <1>2 DEF Renewing

LEMMA KeptNotified ==
  ASSUME UNCHANGED <<fs, git, now, w>>, HintsKept
  PROVE  /\ \A m \in Files : Notified(m) => Notified(m)'
         /\ Unsettled => Unsettled'
         /\ Everything \/ Renewing => Everything' \/ Renewing'
<1>1. Renewing' <=> Renewing
  BY DEF Renewing
<1>2. Everything => Everything'
  BY DEF HintsKept
<1>3. ASSUME NEW m \in Files, Notified(m)
      PROVE  Notified(m)'
  <2>1. m \in Names /\ "s" \in Names
    BY DEF Names
  <2>2. QED BY <1>1, <1>2, <1>3, <2>1 DEF Notified, HintsKept
<1>4. HintsAny => HintsAny'
  BY <1>2 DEF HintsAny, HintsKept
<1>5. QED BY <1>1, <1>2, <1>3, <1>4 DEF Unsettled

LEMMA SameHints ==
  ASSUME hints \in HintsType, hints' = hints
  PROVE  HintsKept /\ (HintsAny' <=> HintsAny)
BY DEF HintsKept, Everything, HintsAny

LEMMA Requeued ==
  ASSUME hints \in HintsType, NEW taken \in HintsType, NEW files, hints' = requeuePreparation(hints, taken, files)
  PROVE  /\ HintsKept
         /\ taken.full \/ taken.owed => Everything'
         /\ \A m \in Names : taken.dirty[m] # Clean => hints'.dirty[m] # Clean
<1>1. /\ hints'.dirty = [n \in Names |-> Max2(Max2(hints.dirty[n], taken.dirty[n]), IF n \in files THEN dirtyEntry ELSE Clean)]
      /\ hints'.full = (hints.full \/ taken.full) /\ hints'.owed = (hints.owed \/ taken.owed)
      /\ hints' = [dirty |-> hints'.dirty, full |-> hints'.full, owed |-> hints'.owed]
  BY DEF requeuePreparation
<1>2. ASSUME NEW n \in Names
      PROVE  /\ hints'.dirty[n] \in Kinds
             /\ hints.dirty[n] # Clean \/ taken.dirty[n] # Clean => hints'.dirty[n] # Clean
  <2>1. hints.dirty[n] \in Kinds /\ taken.dirty[n] \in Kinds
    BY DEF HintsType
  <2>2. hints'.dirty[n] = Max2(Max2(hints.dirty[n], taken.dirty[n]), IF n \in files THEN dirtyEntry ELSE Clean)
    BY <1>1
  <2>3. QED BY <2>1, <2>2 DEF Max2, Kinds, Clean, dirtyContent, dirtyEntry, dirtySubtree
<1>3. hints'.dirty \in [Names -> Kinds]
  BY <1>1, <1>2
<1>4. hints'.full \in BOOLEAN /\ hints'.owed \in BOOLEAN
  BY <1>1, Zenon
<1>5. hints' \in HintsType
  BY <1>1, <1>3, <1>4 DEF HintsType
<1>6. (Everything => Everything') /\ (taken.full \/ taken.owed => Everything')
  BY <1>1, Zenon DEF Everything
<1>7. QED BY <1>2, <1>5, <1>6 DEF HintsKept

LEMMA FullKept ==
  ASSUME hints \in HintsType, hints' = InvalidatePreparation(hints)
  PROVE  HintsKept /\ Everything'
BY AllInvalidated DEF HintsKept, Everything

LEMMA NoHintsType ==
  NoHints \in HintsType /\ \A n \in Names : NoHints.dirty[n] = Clean
BY DEF NoHints, HintsType, Kinds

LEMMA LoopChangedStep ==
  ASSUME ReachInv, LoopChanged
  PROVE  ReachInv'
<1>1. /\ WatchInv /\ HintsInv /\ LoopInv /\ PolicyInv /\ PreparedCurrent /\ StageInv /\ FinalInv /\ SendInv /\ Awake
  BY DEF ReachInv, LoopChanged
<1>2. /\ UNCHANGED <<hints, moved, push, fs, git, now, w, prepared, accepted, pending, delivered>>
      /\ loop' = [loop EXCEPT !.dirty = TRUE, !.timer = @ \/ ~(Busy \/ loop.retry)]
  BY DEF LoopChanged, Elsewhere
<1>3. /\ loop' = [live |-> loop'.live, dirty |-> loop'.dirty, timer |-> loop'.timer, retry |-> loop'.retry, retries |-> loop'.retries]
      /\ loop'.retry = loop.retry /\ (loop'.timer <=> loop.timer \/ ~(Busy \/ loop.retry))
  BY <1>1, <1>2 DEF LoopInv
<1>4. /\ WatchInv' /\ (Renewing' <=> Renewing) /\ Manifest(SelectFiles)' = Manifest(SelectFiles)
  BY <1>1, <1>2, SameWatch
<1>5. (Busy' <=> Busy) /\ (Preparing' <=> Preparing) /\ (Delivering' <=> Delivering) /\ (Delivered' => Delivered)
  BY <1>2, <1>3 DEF Busy, Preparing, Delivering, Delivered
<1>6. HintsInv' /\ SendInv'
  BY <1>1, <1>2, <1>5 DEF HintsInv, SendInv
<1>7. (HintsAny' <=> HintsAny) /\ (Everything' <=> Everything) /\ (Unsettled' <=> Unsettled)
  BY <1>2, <1>4 DEF HintsAny, Everything, Unsettled
<1>8. LoopInv'
  BY <1>1, <1>2, <1>3, <1>5, <1>7 DEF LoopInv
<1>9. PolicyInv' /\ FinalInv'
  BY <1>1, <1>2, <1>4, <1>5, <1>7 DEF PolicyInv, FinalInv, PolicyEnding
<1>10. \A m \in Files : (Notified(m)' <=> Notified(m)) /\ (Taken(m)' <=> Taken(m))
  BY <1>2, <1>4, <1>7 DEF Notified, Taken
<1>11. PreparedCurrent'
  BY <1>1, <1>2, <1>5, <1>10 DEF PreparedCurrent
<1>12. StageInv'
  BY <1>1, <1>2, <1>10 DEF StageInv, Current
<1>13. QED BY <1>4, <1>6, <1>8, <1>9, <1>11, <1>12 DEF ReachInv

\* A push outside a preparation that rests or begins: what must hold of it.
LEMMA Outside ==
  ASSUME ReachInv, Awake, UNCHANGED <<fs, git, now, w, prepared>>, ~Preparing', HintsKept,
         Preparing => \A m \in Files : Taken(m) => Notified(m)'
  PROVE  WatchInv' /\ HintsInv' /\ PreparedCurrent' /\ StageInv'
<1>1. WatchInv /\ HintsInv /\ PreparedCurrent /\ StageInv
  BY DEF ReachInv
<1>2. WatchInv' /\ HintsInv'
  BY <1>1, SameWatch DEF HintsInv, HintsKept
<1>3. \A m \in Files : Notified(m) => Notified(m)'
  BY KeptNotified
<1>4. PreparedCurrent'
  BY <1>1, <1>3 DEF PreparedCurrent
<1>5. StageInv'
  BY <1>1 DEF StageInv, Preparing
<1>6. QED BY <1>2, <1>4, <1>5

LEMMA LoopTimerStep ==
  ASSUME ReachInv, LoopTimer
  PROVE  ReachInv'
<1>1. /\ WatchInv /\ HintsInv /\ LoopInv /\ PolicyInv /\ SendInv /\ Awake /\ ~Busy
  BY DEF ReachInv, LoopTimer
<1>2. /\ UNCHANGED <<hints, changed, fs, git, now, w, prepared, accepted, pending, delivered>>
      /\ loop' = [loop EXCEPT !.timer = FALSE, !.dirty = FALSE, !.retry = FALSE]
      /\ push'.pc = "begin"
  BY DEF LoopTimer, Elsewhere, Idle
<1>3. /\ loop' = [live |-> loop'.live, dirty |-> loop'.dirty, timer |-> loop'.timer, retry |-> loop'.retry, retries |-> loop'.retries]
      /\ ~loop'.retry
  BY <1>1, <1>2 DEF LoopInv
<1>4. HintsKept /\ (HintsAny' <=> HintsAny)
  BY <1>1, <1>2, SameHints DEF HintsInv
<1>5. ~Preparing' /\ ~Preparing /\ ~Delivered' /\ ~Delivering' /\ Busy'
  BY <1>1, <1>2 DEF Preparing, Delivering, Delivered, Busy
<1>6. WatchInv' /\ HintsInv' /\ PreparedCurrent' /\ StageInv'
  BY <1>1, <1>2, <1>4, <1>5, Outside
<1>7. LoopInv'
  BY <1>2, <1>3, <1>5 DEF LoopInv
<1>8. PolicyInv'
  <2>1. ~PolicyEnding
    BY <1>1 DEF PolicyEnding, Busy
  <2>2. Everything \/ Renewing => Everything' \/ Renewing'
    BY <1>2, <1>4, KeptNotified
  <2>3. QED BY <1>1, <1>2, <1>5, <2>1, <2>2 DEF PolicyInv
<1>9. FinalInv' /\ SendInv'
  BY <1>1, <1>2, <1>5 DEF FinalInv, SendInv
<1>10. QED BY <1>6, <1>7, <1>8, <1>9 DEF ReachInv

LEMMA LoopCompletedStep ==
  ASSUME ReachInv, LoopCompleted
  PROVE  ReachInv'
<1>1. /\ WatchInv /\ HintsInv /\ LoopInv /\ PolicyInv /\ FinalInv /\ SendInv /\ Awake /\ push.pc = "done"
  BY DEF ReachInv, LoopCompleted
<1>2. PICK o : o = push.outcome
  OBVIOUS
<1>3. PICK again \in BOOLEAN :
        again <=> o \in {"files", "mutated"} \/ (o = "unknown" /\ loop.retries < SourceRetries) \/ o = "network"
  <2>1. CASE o \in {"files", "mutated"} \/ (o = "unknown" /\ loop.retries < SourceRetries) \/ o = "network"
    BY <2>1
  <2>2. CASE ~(o \in {"files", "mutated"} \/ (o = "unknown" /\ loop.retries < SourceRetries) \/ o = "network")
    BY <2>2
  <2>3. QED BY <2>1, <2>2
<1>4. /\ UNCHANGED <<changed, moved, fs, git, now, w, prepared, accepted, pending, delivered>> /\ push' = Idle
      /\ hints' = IF o \in {"files", "mutated", "unknown"}
                  THEN IF o = "files" THEN requeuePreparation(hints, NoHints, push.files)
                       ELSE InvalidatePreparation(hints)
                  ELSE hints
      /\ loop' = IF ~again /\ o \in {"unknown", "policy"}
                 THEN [loop EXCEPT !.live = "stopped"]
                 ELSE IF again
                 THEN [loop EXCEPT !.timer = TRUE, !.retry = TRUE, !.retries = IF o = "unknown" THEN @ + 1 ELSE @]
                 ELSE [loop EXCEPT !.timer = @ \/ Owed, !.retries = 0]
  BY <1>2, <1>3 DEF LoopCompleted, Elsewhere
<1>5. CASE ~again /\ o \in {"unknown", "policy"}
  <2>1. loop'.live = "stopped"
    BY <1>1, <1>4, <1>5 DEF LoopInv
  <2>2. QED BY <2>1 DEF ReachInv, Awake
<1>6. CASE ~(~again /\ o \in {"unknown", "policy"})
  <2>1. HintsKept
    <3>1. hints \in HintsType
      BY <1>1 DEF HintsInv
    <3>2. CASE o = "files"
      BY <1>4, <3>1, <3>2, NoHintsType, Requeued
    <3>3. CASE o \in {"mutated", "unknown"}
      BY <1>4, <3>1, <3>3, FullKept
    <3>4. CASE o \notin {"files", "mutated", "unknown"}
      BY <1>4, <3>1, <3>4, SameHints
    <3>5. QED BY <3>2, <3>3, <3>4
  <2>2. push'.pc = "idle"
    BY <1>4 DEF Idle
  <2>3. ~Preparing' /\ ~Preparing /\ ~Delivering' /\ ~Busy' /\ Busy
    BY <1>1, <2>2 DEF Preparing, Delivering, Busy
  <2>4. WatchInv' /\ HintsInv' /\ PreparedCurrent' /\ StageInv'
    BY <1>1, <1>4, <2>1, <2>3, Outside
  <2>5. /\ loop' = [live |-> loop'.live, dirty |-> loop'.dirty, timer |-> loop'.timer, retry |-> loop'.retry, retries |-> loop'.retries]
        /\ again => loop'.timer
        /\ ~again => (loop'.timer <=> loop.timer \/ Owed) /\ loop'.retry = loop.retry
    BY <1>1, <1>4, <1>6 DEF LoopInv
  <2>6. ~again => hints' = hints
    BY <1>3, <1>4, <1>6
  <2>7. LoopInv'
    <3>1. ~loop.retry
      BY <1>1, <2>3 DEF LoopInv
    <3>2. moved => loop'.timer
      BY <2>5 DEF Owed
    <3>3. HintsAny' => loop'.timer
      <4>1. CASE again
        BY <2>5, <4>1
      <4>2. CASE ~again
        <5>1. HintsAny' <=> HintsAny
          BY <2>6, <4>2 DEF HintsAny, Everything
        <5>2. HintsAny => moved \/ loop.timer \/ o \in Failed
          BY <1>1, <1>2 DEF LoopInv
        <5>3. o \in Failed => o = "recovered"
          BY <1>3, <1>6, <4>2 DEF Failed
        <5>4. QED BY <1>2, <2>5, <4>2, <5>1, <5>2, <5>3 DEF Owed
      <4>3. QED BY <4>1, <4>2
    <3>4. loop'.retry => loop'.timer
      BY <2>5, <3>1
    <3>5. QED BY <1>4, <2>3, <2>5, <3>2, <3>3, <3>4 DEF LoopInv
  <2>8. PolicyInv'
    <3>1. o = "policy" => again
      BY <1>6
    <3>2. ~PolicyEnding
      BY <1>1, <1>2, <1>3, <3>1 DEF PolicyEnding
    <3>3. Everything \/ Renewing => Everything' \/ Renewing'
      BY <1>4, <2>1, KeptNotified
    <3>4. QED BY <1>1, <1>4, <2>3, <3>2, <3>3 DEF PolicyInv
  <2>9. Delivered' => Delivered
    <3>1. ASSUME ~loop'.timer PROVE o \in {"ok", "unchanged"}
      <4>1. ~again /\ ~Owed
        BY <2>5, <3>1
      <4>2. o \in Failed \cup {"ok", "unchanged", "policy"} /\ o # "recovered"
        BY <1>1, <1>2, <4>1 DEF SendInv, Owed
      <4>3. QED BY <1>3, <1>6, <4>1, <4>2 DEF Failed
    <3>2. QED BY <1>1, <1>2, <2>2, <3>1 DEF Delivered, Busy
  <2>10. FinalInv'
    <3>1. (Unsettled => Unsettled') /\ Manifest(SelectFiles)' = Manifest(SelectFiles)
      BY <1>1, <1>4, <2>1, KeptNotified, SameWatch
    <3>2. QED BY <1>1, <1>4, <2>3, <2>9, <3>1 DEF FinalInv
  <2>11. SendInv'
    BY <1>1, <1>4, <2>2, <2>3, <2>9 DEF SendInv
  <2>12. QED BY <2>4, <2>7, <2>8, <2>10, <2>11 DEF ReachInv
<1>7. QED BY <1>5, <1>6

LEMMA StopStep ==
  ASSUME ReachInv, Stop
  PROVE  ReachInv'
<1>1. LoopInv /\ loop' = [loop EXCEPT !.live = "stopped"]
  BY DEF ReachInv, Stop
<1>2. loop'.live = "stopped"
  BY <1>1 DEF LoopInv
<1>3. QED BY <1>2 DEF ReachInv, Awake

-----------------------------------------------------------------------------
(* The preparation                                                         *)

LEMMA TakeStep ==
  ASSUME ReachInv, Awake, PrepareSnapshot
  PROVE  ReachInv'
<1>1. /\ WatchInv /\ HintsInv /\ LoopInv /\ PolicyInv /\ PreparedCurrent /\ StageInv /\ SendInv /\ push.pc = "take"
  BY DEF ReachInv, PrepareSnapshot
<1>2. /\ UNCHANGED <<fs, git, now, w, loop, changed, moved, prepared, accepted, pending, delivered>> /\ hints' = NoHints
  BY DEF PrepareSnapshot, Goes, Kept
<1>3. /\ push'.taken = hints
      /\ \/ push'.pc = "select"
         \/ push'.pc = "list" /\ prepared.ev # NoEvidence /\ ~hints.full /\ ~hints.owed
  <2> DEFINE touched == {IF n \in Files THEN DirOf[n] ELSE "r" : n \in {n \in Names : hints.dirty[n] = dirtyEntry}}
             relist == touched \cup {d \in DOMAIN prepared.ev.dirs : fs.dir[d] # prepared.ev.dirs[d]}
             full == \/ hints.full \/ hints.owed \/ prepared.ev = NoEvidence
                     \/ \E d \in DOMAIN prepared.ev.dirs : ~Exists(d)
                     \/ ~(relist \subseteq DOMAIN prepared.ev.dirs)
                     \/ relist # {} /\ (~verifyPolicy(prepared.ev) \/ ("s" \in relist /\ prepared.ev.born # fs.born))
  <2>1. PICK expired \in BOOLEAN :
          Goes([Idle EXCEPT !.pc = IF full THEN "select" ELSE "list", !.taken = hints, !.expired = expired,
                            !.relist = IF full THEN {} ELSE relist,
                            !.ev = IF full THEN NoEvidence
                                   ELSE [prepared.ev EXCEPT !.dirs = [d \in DOMAIN @ |-> IF d \in relist THEN fs.dir[d] ELSE @[d]]]])
    BY DEF PrepareSnapshot
  <2>2. ~full => prepared.ev # NoEvidence /\ ~hints.full /\ ~hints.owed
    OBVIOUS
  <2> HIDE DEF full, relist
  <2>3. QED BY <2>1, <2>2 DEF Goes, Idle
<1>4. Preparing' /\ ~Delivering' /\ ~Delivered' /\ Busy' /\ ~Preparing /\ ~PolicyEnding /\ Busy
  BY <1>1, <1>3 DEF Preparing, Delivering, Delivered, Busy, PolicyEnding
<1>5. /\ WatchInv' /\ (Renewing' <=> Renewing)
  BY <1>1, <1>2, SameWatch
<1>6. HintsInv' /\ ~HintsAny'
  <2>1. hints' \in HintsType /\ ~HintsAny'
    BY <1>2, NoHintsType DEF HintsAny, Everything, NoHints
  <2>2. QED BY <1>1, <1>3, <2>1 DEF HintsInv
<1>7. LoopInv'
  BY <1>1, <1>2, <1>4, <1>6 DEF LoopInv
<1>8. PolicyInv'
  BY <1>1, <1>2, <1>3, <1>4, <1>5 DEF PolicyInv, Everything
<1>9. ASSUME NEW m \in Files, Notified(m)
      PROVE  Notified(m)' \/ Taken(m)'
  BY <1>2, <1>3, <1>5, <1>9 DEF Notified, Taken, Everything
<1>10. PreparedCurrent'
  BY <1>1, <1>2, <1>4, <1>9 DEF PreparedCurrent
<1>11. StageInv'
  BY <1>1, <1>2, <1>3 DEF StageInv
<1>12. FinalInv' /\ SendInv'
  BY <1>1, <1>2, <1>3, <1>4 DEF FinalInv, SendInv
<1>13. QED BY <1>5, <1>6, <1>7, <1>8, <1>10, <1>11, <1>12 DEF ReachInv

LEMMA FailStep ==
  ASSUME ReachInv, Awake, Preparing, NEW files, PreparationFails(files)
  PROVE  ReachInv'
<1>1. /\ WatchInv /\ HintsInv /\ LoopInv /\ PolicyInv /\ SendInv
  BY DEF ReachInv
<1>2. /\ UNCHANGED <<fs, git, now, w, loop, changed, moved, prepared, accepted, pending, delivered>>
      /\ hints' = IF files # {} THEN requeuePreparation(hints, push.taken, files) ELSE InvalidatePreparation(hints)
      /\ push'.pc = "done" /\ push'.outcome \in {"files", "mutated"}
  BY DEF PreparationFails, Kept, Idle
<1>3. ~Preparing' /\ ~Delivering' /\ ~Delivered' /\ Busy' /\ Busy
  BY <1>2 DEF Preparing, Delivering, Delivered, Busy
<1>4. /\ HintsKept /\ (push.taken.full \/ push.taken.owed => Everything')
      /\ \A m \in Names : push.taken.dirty[m] # Clean => hints'.dirty[m] # Clean \/ Everything'
  <2>1. hints \in HintsType /\ push.taken \in HintsType
    BY <1>1 DEF HintsInv
  <2>2. CASE files # {}
    BY <1>2, <2>1, <2>2, Requeued
  <2>3. CASE files = {}
    BY <1>2, <2>1, <2>3, FullKept
  <2>4. QED BY <2>2, <2>3
<1>5. ASSUME NEW m \in Files, Taken(m)
      PROVE  Notified(m)'
  <2>1. m \in Names /\ "s" \in Names
    BY DEF Names
  <2>2. QED BY <1>4, <1>5, <2>1 DEF Taken, Notified
<1>6. WatchInv' /\ HintsInv' /\ PreparedCurrent' /\ StageInv'
  BY <1>2, <1>3, <1>4, <1>5, Outside
<1>7. LoopInv'
  BY <1>1, <1>2, <1>3 DEF LoopInv, Failed
<1>8. PolicyInv'
  <2>1. Everything \/ Renewing => Everything' \/ Renewing'
    BY <1>2, <1>4, KeptNotified
  <2>2. ~PolicyEnding
    BY DEF Preparing, PolicyEnding
  <2>3. QED BY <1>1, <1>2, <1>4, <2>1, <2>2 DEF PolicyInv
<1>9. FinalInv' /\ SendInv'
  BY <1>1, <1>2, <1>3 DEF FinalInv, SendInv, Failed
<1>10. QED BY <1>6, <1>7, <1>8, <1>9 DEF ReachInv

LEMMA ReadErrorStep ==
  ASSUME ReachInv, ReadError
  PROVE  ReachInv'
<1>1. /\ WatchInv /\ HintsInv /\ LoopInv /\ PolicyInv /\ SendInv /\ Awake /\ Preparing
  BY DEF ReachInv, ReadError, Fault, Preparing
<1>2. /\ UNCHANGED <<fs, git, now, w, loop, changed, moved, prepared, accepted, pending, delivered>>
      /\ hints' = InvalidatePreparation(hints)
      /\ push'.pc = "done" /\ push'.outcome = "unknown"
  BY DEF ReadError, Kept, Idle
<1>3. ~Preparing' /\ ~Delivering' /\ ~Delivered' /\ Busy' /\ Busy
  BY <1>1, <1>2 DEF Preparing, Delivering, Delivered, Busy
<1>4. HintsKept /\ Everything'
  BY <1>1, <1>2, FullKept DEF HintsInv
<1>5. \A m \in Files : Notified(m)'
  BY <1>4 DEF Notified
<1>6. WatchInv' /\ HintsInv' /\ PreparedCurrent' /\ StageInv'
  BY <1>1, <1>2, <1>3, <1>4, <1>5, Outside
<1>7. LoopInv'
  BY <1>1, <1>2, <1>3 DEF LoopInv, Failed
<1>8. PolicyInv' /\ FinalInv' /\ SendInv'
  BY <1>1, <1>2, <1>3, <1>4 DEF PolicyInv, FinalInv, SendInv, Failed
<1>9. QED BY <1>6, <1>7, <1>8 DEF ReachInv

\* A preparation goes on: only what it has read so far is to be shown.
LEMMA ProgressKeeps ==
  ASSUME ReachInv, Awake, UNCHANGED <<fs, git, now, w, loop, hints, changed, moved, prepared, accepted, pending, delivered>>,
         Preparing, Preparing', push'.taken = push.taken, StageInv'
  PROVE  ReachInv'
<1>1. /\ WatchInv /\ HintsInv /\ LoopInv /\ PolicyInv /\ PreparedCurrent /\ SendInv
  BY DEF ReachInv
<1>2. /\ WatchInv' /\ (Renewing' <=> Renewing)
  BY <1>1, SameWatch
<1>3. (HintsAny' <=> HintsAny) /\ (Everything' <=> Everything) /\ \A m \in Files : (Notified(m)' <=> Notified(m)) /\ (Taken(m)' <=> Taken(m))
  BY <1>2 DEF HintsAny, Everything, Notified, Taken
<1>4. /\ ~Delivering' /\ ~Delivered' /\ Busy' /\ Busy /\ ~PolicyEnding
      /\ push.pc \notin {"begin", "take", "done"} /\ push'.pc \notin {"begin", "take", "done"}
  BY DEF Preparing, Delivering, Delivered, Busy, PolicyEnding
<1>5. HintsInv'
  BY <1>1 DEF HintsInv
<1>6. LoopInv'
  BY <1>1, <1>3, <1>4 DEF LoopInv
<1>7. PolicyInv'
  BY <1>1, <1>2, <1>3, <1>4 DEF PolicyInv
<1>8. PreparedCurrent'
  BY <1>1, <1>3 DEF PreparedCurrent
<1>9. FinalInv' /\ SendInv'
  BY <1>1, <1>4 DEF FinalInv, SendInv
<1>10. QED BY <1>2, <1>5, <1>6, <1>7, <1>8, <1>9 DEF ReachInv

LEMMA RelistStep ==
  ASSUME PWInv, ReachInv, Awake, Relist
  PROVE  ReachInv'
<1> DEFINE full == \/ "s" \in Added(push) \cup Removed(push)
                   \/ ~Verified(push.ev) \/ Unknown(push)
                   \/ git /\ ~keepsDirectories(push)
                   \/ push.expired /\ Refreshed(push) = {} /\ Deleted(push) = {}
<1>1. push.pc = "list" /\ PreparedInv /\ PushRecord /\ StageInv /\ PreparedCurrent /\ Preparing
  BY DEF Relist, PWInv, PushInv, ReachInv, Preparing
<1>2. UNCHANGED <<fs, git, now, w, loop, hints, changed, moved, prepared, accepted, pending, delivered>>
  BY DEF Relist, Step, Goes, Quiet, Kept
<1>3. \A m \in Files : Notified(m)' <=> Notified(m)
  BY <1>2 DEF Notified, Renewing, Everything
<1>4. CASE full
  <2>1. Step([push EXCEPT !.pc = "select", !.relist = {}, !.ev = NoEvidence, !.expired = FALSE])
    BY <1>4 DEF Relist
  <2>2. push'.taken = push.taken /\ push'.pc = "select"
    BY <1>1, <2>1 DEF Step, Goes, PushRecord
  <2>3. StageInv'
    BY <1>1, <1>2, <2>2 DEF StageInv
  <2>4. QED BY <1>1, <1>2, <2>2, <2>3, ProgressKeeps DEF Preparing
<1>5. CASE ~full
  <2>1. Step([push EXCEPT !.pc = "read", !.paths = Refreshed(push), !.files = Deleted(push),
                          !.ev.lists = [d \in DOMAIN @ |-> IF d \in push.relist THEN Listing(d) ELSE @[d]]])
    BY <1>5 DEF Relist
  <2>2. push'.taken = push.taken /\ push'.pc = "read" /\ push'.paths = Refreshed(push) /\ push'.files = Deleted(push)
    BY <1>1, <2>1 DEF Step, Goes, PushRecord
  <2>3. "s" \notin Removed(push) /\ ~Unknown(push)
    BY <1>5
  <2>4. prepared.ev # NoEvidence /\ ~push.taken.full /\ ~push.taken.owed
    BY <1>1 DEF StageInv
  <2>5. ASSUME NEW m \in Files, m \in DOMAIN prepared.man, m \notin Deleted(push), m \notin Refreshed(push), Taken(m)
        PROVE  FALSE
    <3>1. m \notin Removed(push) /\ m \notin Hinted(push) /\ m \in Names
      BY <2>5 DEF Deleted, Refreshed, Names
    <3>2. push.taken.dirty[m] = Clean
      BY <3>1 DEF Hinted
    <3>3. m = "g" /\ push.taken.dirty["s"] # Clean
      BY <2>4, <2>5, <3>2 DEF Taken
    <3>4. "s" \in Hinted(push)
      BY <2>3, <3>3 DEF Hinted, Names
    <3>5. "s" \in DOMAIN prepared.man
      <4>1. DOMAIN prepared.man = Selects(prepared.ev)
        BY <1>1, <2>4 DEF PreparedInv
      <4>2. QED BY <2>5, <3>3, <4>1, SelectsEntries
    <3>6. QED BY <2>3, <3>4, <3>5 DEF Unknown, Files
  <2>6. ~fs.ign => \A m \in (DOMAIN prepared.man \ (Deleted(push) \cup Refreshed(push))) \cap Files :
                      prepared.man[m] = fs.file[m] \/ Notified(m)
    BY <1>1, <2>4, <2>5 DEF PreparedCurrent
  <2>7. StageInv'
    BY <1>1, <1>2, <1>3, <2>2, <2>4, <2>6 DEF StageInv, Current
  <2>8. QED BY <1>1, <1>2, <2>2, <2>7, ProgressKeeps DEF Preparing
<1>6. QED BY <1>4, <1>5

LEMMA ReadStep ==
  ASSUME PWInv, ReachInv, Awake, Read
  PROVE  ReachInv'
<1>1. push.pc = "read" /\ PushRecord /\ StageInv /\ Preparing
  BY DEF Read, PWInv, PushInv, ReachInv, Preparing
<1>2. CASE \E n \in push.paths : ~Exists(n)
  BY <1>1, <1>2, FailStep DEF Read
<1>3. CASE ~\E n \in push.paths : ~Exists(n)
  <2>1. PICK man : man = Edited(prepared.man, Manifest(expandPaths(push.paths)), push.files)
    OBVIOUS
  <2>2. Step([push EXCEPT !.pc = "reread", !.files = {}, !.man = man]) /\ Quiet
    BY <1>3, <2>1 DEF Read
  <2>3. UNCHANGED <<fs, git, now, w, loop, hints, changed, moved, prepared, accepted, pending, delivered>>
    BY <2>2 DEF Step, Goes, Quiet, Kept
  <2>4. push'.taken = push.taken /\ push'.pc = "reread" /\ push'.man = man
    BY <1>1, <2>2 DEF Step, Goes, PushRecord
  <2>5. /\ DOMAIN man = expandPaths(push.paths) \cup (DOMAIN prepared.man \ push.files)
        /\ man = [n \in DOMAIN man |-> man[n]]
        /\ \A n \in DOMAIN man : man[n] = IF n \in expandPaths(push.paths) THEN Version(n) ELSE prepared.man[n]
    BY <2>1 DEF Edited, Manifest
  <2>6. prepared.ev # NoEvidence /\ ("s" \in DOMAIN prepared.man => prepared.man["s"] = 0)
    BY <1>1 DEF StageInv
  <2>7. "s" \in DOMAIN man => man["s"] = 0
    BY <2>5, <2>6 DEF Version, Files
  <2>8. ASSUME ~fs.ign, NEW n \in DOMAIN man \cap Files
        PROVE  man[n] = fs.file[n] \/ Notified(n)
    <3>1. CASE n \in expandPaths(push.paths)
      BY <2>5, <3>1 DEF Version
    <3>2. CASE n \notin expandPaths(push.paths)
      <4>1. n \notin push.paths /\ n \in DOMAIN prepared.man \ push.files /\ man[n] = prepared.man[n]
        BY <2>5, <3>2 DEF expandPaths
      <4>2. QED BY <1>1, <2>8, <4>1 DEF StageInv, Current
    <3>3. QED BY <3>1, <3>2
  <2>9. \A m \in Files : Notified(m)' <=> Notified(m)
    BY <2>3 DEF Notified, Renewing, Everything
  <2>10. StageInv'
    BY <1>1, <2>3, <2>4, <2>5, <2>7, <2>8, <2>9 DEF StageInv, Current
  <2>11. QED BY <1>1, <2>3, <2>4, <2>10, ProgressKeeps DEF Preparing
<1>4. QED BY <1>2, <1>3

LEMMA FullSteps ==
  ASSUME PWInv, ReachInv, Awake, FullSelect \/ FullBuild \/ captureSelectionEvidence \/ listDirectories
  PROVE  ReachInv'
<1>1. push.pc \in {"select", "build", "stamp", "enlist"} /\ PushRecord /\ StageInv /\ Preparing
  BY DEF FullSelect, FullBuild, captureSelectionEvidence, listDirectories, PWInv, PushInv, ReachInv, Preparing
<1>2. ASSUME NEW p, Step(p), Quiet, p.pc \in {"build", "stamp", "enlist", "verify"}, p.taken = push.taken,
             p.pc # "build" =>
               /\ p.man = [n \in DOMAIN p.man |-> p.man[n]] /\ ("s" \in DOMAIN p.man => p.man["s"] = 0)
               /\ ~fs.ign => Current(p.man, DOMAIN p.man)
      PROVE  ReachInv'
  <2>1. UNCHANGED <<fs, git, now, w, loop, hints, changed, moved, prepared, accepted, pending, delivered>> /\ push' = p
    BY <1>2 DEF Step, Goes, Quiet, Kept
  <2>2. \A m \in Files : Notified(m)' <=> Notified(m)
    BY <2>1 DEF Notified, Renewing, Everything
  <2>3. p.pc # "build" /\ ~fs'.ign => Current(push.man, DOMAIN push.man)'
    BY <1>2, <2>1, <2>2 DEF Current
  <2>4. StageInv'
    BY <1>1, <1>2, <2>1, <2>3 DEF StageInv
  <2>5. QED BY <1>1, <1>2, <2>1, <2>4, ProgressKeeps DEF Preparing
<1>3. CASE FullSelect
  <2>1. PICK p : p = [push EXCEPT !.pc = "build", !.paths = SelectFiles, !.ign = fs.ign]
    OBVIOUS
  <2>2. Step(p) /\ Quiet
    BY <1>3, <2>1 DEF FullSelect
  <2>3. p.pc = "build" /\ p.taken = push.taken
    BY <1>1, <2>1 DEF PushRecord
  <2>4. QED BY <1>2, <2>2, <2>3
<1>4. CASE FullBuild
  <2>1. CASE \E n \in push.paths : ~Exists(n)
    BY <1>1, <1>4, <2>1, FailStep DEF FullBuild
  <2>2. CASE ~\E n \in push.paths : ~Exists(n)
    <3>1. PICK man : man = Manifest(push.paths)
      OBVIOUS
    <3>2. PICK p : p = [push EXCEPT !.pc = "stamp", !.man = man]
      OBVIOUS
    <3>3. Step(p) /\ Quiet
      BY <1>4, <2>2, <3>1, <3>2 DEF FullBuild
    <3>4. p.pc = "stamp" /\ p.taken = push.taken /\ p.man = man
      BY <1>1, <3>2 DEF PushRecord
    <3>5. man = [n \in DOMAIN man |-> man[n]] /\ \A n \in DOMAIN man : man[n] = Version(n)
      BY <3>1 DEF Manifest
    <3>6. ("s" \in DOMAIN man => man["s"] = 0) /\ \A n \in DOMAIN man \cap Files : man[n] = fs.file[n]
      BY <3>5 DEF Version, Files
    <3>7. Current(man, DOMAIN man)
      BY <3>6 DEF Current
    <3>8. QED BY <1>2, <3>3, <3>4, <3>5, <3>6, <3>7
  <2>3. QED BY <2>1, <2>2
<1>5. CASE captureSelectionEvidence
  <2>1. push.pc = "stamp"
    BY <1>5 DEF captureSelectionEvidence
  <2>2. CASE \E files : PreparationFails(files)
    BY <1>1, <2>2, FailStep
  <2>3. CASE ~\E files : PreparationFails(files)
    <3>1. PICK ev : Step([push EXCEPT !.pc = "enlist", !.ev = ev]) /\ Quiet
      BY <1>5, <2>3 DEF captureSelectionEvidence
    <3>2. PICK p : p = [push EXCEPT !.pc = "enlist", !.ev = ev]
      OBVIOUS
    <3>3. p.pc = "enlist" /\ p.taken = push.taken /\ p.man = push.man
      BY <1>1, <3>2 DEF PushRecord
    <3>4. QED BY <1>1, <1>2, <2>1, <3>1, <3>2, <3>3 DEF StageInv
  <2>4. QED BY <2>2, <2>3
<1>6. CASE listDirectories
  <2>1. push.pc = "enlist"
    BY <1>6 DEF listDirectories
  <2>2. CASE \E files : PreparationFails(files)
    BY <1>1, <2>2, FailStep
  <2>3. CASE ~\E files : PreparationFails(files)
    <3>1. PICK ev : Step([push EXCEPT !.pc = "verify", !.ev = ev]) /\ Quiet
      BY <1>6, <2>3 DEF listDirectories
    <3>2. PICK p : p = [push EXCEPT !.pc = "verify", !.ev = ev]
      OBVIOUS
    <3>3. p.pc = "verify" /\ p.taken = push.taken /\ p.man = push.man
      BY <1>1, <3>2 DEF PushRecord
    <3>4. QED BY <1>1, <1>2, <2>1, <3>1, <3>2, <3>3 DEF StageInv
  <2>4. QED BY <2>2, <2>3
<1>7. QED BY <1>3, <1>4, <1>5, <1>6

\* A manifest is prepared: its paths are those full selection gives, and its files were
\* read after the hints about them were taken.
LEMMA PreparedKeeps ==
  ASSUME FsInv, ReachInv, Awake, push.pc \in {"reread", "verify"}, DOMAIN push.man = SelectFiles,
         UNCHANGED <<fs, git, now, w, loop, accepted, pending, delivered>>, HintsKept,
         prepared'.man = push.man, push'.pc = "compare", push'.man = push.man,
         (hints' = hints /\ moved' = moved) \/ moved',
         fs.ign => push'.ign \/ Everything' \/ Renewing'
  PROVE  ReachInv'
<1>1. /\ WatchInv /\ HintsInv /\ LoopInv /\ StageInv /\ SendInv
  BY DEF ReachInv
<1>2. /\ WatchInv' /\ (Renewing' <=> Renewing) /\ Manifest(SelectFiles)' = Manifest(SelectFiles)
  BY <1>1, SameWatch
<1>3. Preparing /\ ~Preparing' /\ Delivering' /\ ~Delivered' /\ Busy' /\ Busy
  BY DEF Preparing, Delivering, Delivered, Busy
<1>4. HintsInv'
  BY <1>3 DEF HintsInv, HintsKept
<1>5. LoopInv'
  <2>1. CASE hints' = hints /\ moved' = moved
    BY <1>1, <1>3, <2>1 DEF LoopInv, HintsAny, Everything
  <2>2. CASE moved'
    BY <1>1, <1>3, <2>2 DEF LoopInv
  <2>3. QED BY <2>1, <2>2
<1>6. PolicyInv'
  BY DEF PolicyInv, PolicyEnding
<1>7. /\ push.man = [n \in DOMAIN push.man |-> push.man[n]]
      /\ "s" \in DOMAIN push.man => push.man["s"] = 0
      /\ ~fs.ign => Current(push.man, DOMAIN push.man)
  BY <1>1 DEF StageInv
<1>8. \A m \in Files : Notified(m) => Notified(m)'
  BY KeptNotified
<1>9. PreparedCurrent'
  BY <1>7, <1>8 DEF PreparedCurrent, Current
<1>10. StageInv'
  BY <1>7 DEF StageInv
<1>11. SelectFiles \subseteq Entries
  BY SelectFilesEntries
<1>12. FinalInv'
  <2>1. SUFFICES ASSUME ~fs.ign, ~Unsettled'
                 PROVE  push.man = Manifest(SelectFiles)
    BY <1>2 DEF FinalInv
  <2>2. \A m \in Files : ~Notified(m)
    <3>1. ASSUME NEW m \in Files, Notified(m)' PROVE Unsettled'
      BY <3>1 DEF Notified, Unsettled, HintsAny, Names
    <3>2. QED BY <1>8, <2>1, <3>1
  <2>3. \A m \in SelectFiles \cap Files : push.man[m] = fs.file[m]
    BY <1>7, <2>1, <2>2 DEF Current
  <2>4. \A m \in SelectFiles : push.man[m] = Version(m)
    BY <1>7, <1>11, <2>3 DEF Version, Entries, Files
  <2>5. QED BY <1>7, <2>4 DEF Manifest
<1>13. SendInv'
  BY <1>1, <1>3, <1>11 DEF SendInv
<1>14. QED BY <1>2, <1>4, <1>5, <1>6, <1>9, <1>10, <1>12, <1>13 DEF ReachInv

LEMMA UpdateStep ==
  ASSUME PWInv, ReachInv, Awake, Update
  PROVE  ReachInv'
<1>1. /\ push.pc = "reread" /\ RereadInv /\ FsInv /\ hints \in HintsType /\ PolicyInv /\ StageInv /\ Preparing
  BY DEF Update, PWInv, PushInv, ReachInv, HintsInv, Preparing
<1>2. CASE Torn # {}
  BY <1>1, <1>2, FailStep DEF Update
<1>3. CASE Torn = {} /\ ~Verified(push.ev)
  BY <1>1, <1>3, FailStep DEF Update
<1>4. CASE Torn = {} /\ Verified(push.ev)
  <2>1. /\ Prepared(push.man, push.ev) /\ Kept
        /\ Step([Idle EXCEPT !.pc = "compare", !.man = push.man, !.ev = push.ev, !.ign = push.ev.ign])
        /\ IF push.expired THEN hints' = [hints EXCEPT !.owed = TRUE] /\ notifyChange
           ELSE UNCHANGED <<hints, changed, moved>>
    BY <1>4 DEF Update
  <2>2. /\ UNCHANGED <<fs, git, now, w, loop, accepted, pending, delivered>> /\ prepared'.man = push.man
        /\ push'.pc = "compare" /\ push'.man = push.man
    BY <2>1 DEF Prepared, Step, Goes, Kept, Idle
  <2>3. DOMAIN push.man = SelectFiles
    <3>1. PICK e : e = push.ev
      OBVIOUS
    <3>2. Sound(e) /\ Covers(e) /\ Verified(e) /\ DOMAIN push.man = Selects(e)
      BY <1>1, <1>4, <3>1 DEF RereadInv
    <3>3. QED BY <1>1, <3>2, VerifiedSelects
  <2>4. HintsKept /\ ((hints' = hints /\ moved' = moved) \/ moved')
    <3>1. CASE push.expired
      <4>1. hints' = [hints EXCEPT !.owed = TRUE] /\ moved'
        BY <2>1, <3>1 DEF notifyChange
      <4>2. hints' \in HintsType /\ hints'.owed /\ hints'.dirty = hints.dirty
        BY <1>1, <4>1 DEF HintsType
      <4>3. QED BY <4>1, <4>2 DEF HintsKept, Everything
    <3>2. CASE ~push.expired
      BY <1>1, <2>1, <3>2, SameHints
    <3>3. QED BY <3>1, <3>2
  <2>5. fs.ign => Everything' \/ Renewing'
    <3>1. ~PolicyEnding /\ ~push.taken.full /\ ~push.taken.owed
      BY <1>1 DEF PolicyEnding, StageInv
    <3>2. Everything \/ Renewing => Everything' \/ Renewing'
      BY <2>2, <2>4, KeptNotified
    <3>3. QED BY <1>1, <3>1, <3>2 DEF PolicyInv
  <2>6. QED BY <1>1, <2>2, <2>3, <2>4, <2>5, PreparedKeeps
<1>5. QED BY <1>2, <1>3, <1>4

LEMMA FullVerifyStep ==
  ASSUME PWInv, ReachInv, Awake, FullVerify
  PROVE  ReachInv'
<1>1. /\ push.pc = "verify" /\ DOMAIN push.man = push.paths /\ FsInv /\ hints \in HintsType /\ Preparing
  BY DEF FullVerify, PWInv, PushInv, ReachInv, HintsInv, Preparing
<1>2. CASE ~Reselected \/ (push.ev # NoEvidence /\ ~Verified(push.ev))
  BY <1>1, <1>2, FailStep DEF FullVerify
<1>3. CASE ~(~Reselected \/ (push.ev # NoEvidence /\ ~Verified(push.ev)))
  <2>1. /\ Prepared(push.man, push.ev) /\ Kept /\ UNCHANGED <<hints, changed, moved>>
        /\ Step([Idle EXCEPT !.pc = "compare", !.man = push.man, !.ev = push.ev, !.ign = push.ign,
                             !.paths = IF push.ev = NoEvidence THEN push.paths ELSE {}])
    BY <1>3 DEF FullVerify
  <2>2. /\ UNCHANGED <<fs, git, now, w, loop, accepted, pending, delivered>> /\ prepared'.man = push.man
        /\ push'.pc = "compare" /\ push'.man = push.man /\ push'.ign = push.ign
    BY <2>1 DEF Prepared, Step, Goes, Kept, Idle
  <2>3. DOMAIN push.man = SelectFiles /\ fs.ign = push.ign
    BY <1>1, <1>3 DEF Reselected
  <2>4. HintsKept
    BY <1>1, <2>1, SameHints
  <2>5. fs.ign => push'.ign
    BY <2>2, <2>3
  <2>6. QED BY <1>1, <2>1, <2>2, <2>3, <2>4, <2>5, PreparedKeeps
<1>4. QED BY <1>2, <1>3

-----------------------------------------------------------------------------
(* The push                                                                *)

\* Between preparations: what is delivered, and how the push ends.
LEMMA SendingKeeps ==
  ASSUME ReachInv, Awake, ~Preparing, ~Preparing', Busy, Busy',
         UNCHANGED <<fs, git, now, w, loop, hints, changed, moved, prepared>>,
         PolicyEnding => PolicyEnding',
         HintsAny /\ ~moved /\ ~loop.timer =>
           push'.pc = "take" \/ (push'.pc = "done" /\ push'.outcome \in Failed),
         Delivered' \/ Delivering' => Delivered \/ Delivering,
         SendInv'
  PROVE  ReachInv'
<1>1. /\ WatchInv /\ HintsInv /\ LoopInv /\ PolicyInv /\ FinalInv
  BY DEF ReachInv
<1>2. HintsKept /\ (HintsAny' <=> HintsAny)
  BY <1>1, SameHints DEF HintsInv
<1>3. WatchInv' /\ HintsInv' /\ PreparedCurrent' /\ StageInv'
  BY <1>2, Outside
<1>4. (Renewing' <=> Renewing) /\ Manifest(SelectFiles)' = Manifest(SelectFiles) /\ (Everything' <=> Everything)
  BY <1>1, SameWatch DEF Everything
<1>5. LoopInv'
  BY <1>1, <1>2 DEF LoopInv
<1>6. PolicyInv'
  BY <1>1, <1>4 DEF PolicyInv
<1>7. FinalInv'
  BY <1>1, <1>2, <1>4 DEF FinalInv, Unsettled
<1>8. QED BY <1>3, <1>5, <1>6, <1>7 DEF ReachInv

LEMMA BeginStep ==
  ASSUME PWInv, ReachInv, Awake, BeginPush
  PROVE  ReachInv'
<1>1. push.pc = "begin" /\ PushRecord /\ SendInv /\ LoopInv
  BY DEF BeginPush, PWInv, PushInv, ReachInv
<1>2. UNCHANGED <<fs, git, now, w, loop, hints, changed, moved, prepared>>
  BY DEF BeginPush, Ends, Step, Goes
<1>3. CASE ~pending.applying
  <2>1. Step([push EXCEPT !.pc = "take"]) /\ Kept
    BY <1>3 DEF BeginPush
  <2>2. push'.pc = "take" /\ UNCHANGED <<accepted, pending, delivered>>
    BY <1>1, <2>1 DEF Step, Goes, Kept, PushRecord
  <2>3. SendInv'
    BY <1>1, <1>2, <1>3, <2>2 DEF SendInv, Preparing, Delivering, Delivered, Busy
  <2>4. QED BY <1>1, <1>2, <2>2, <2>3, SendingKeeps DEF Preparing, Busy, PolicyEnding, Delivered, Delivering
<1>4. CASE pending.applying
  <2>1. /\ delivered' = pending.man /\ accepted' = NoManifest
        /\ pending' = [man |-> NoManifest, applying |-> FALSE] /\ Ends("recovered")
    BY <1>4 DEF BeginPush
  <2>2. push'.pc = "done" /\ push'.outcome = "recovered"
    BY <2>1 DEF Ends, Step, Goes, Idle
  <2>3. SendInv'
    BY <1>2, <2>1, <2>2 DEF SendInv, Preparing, Delivering, Delivered, Busy, Failed
  <2>4. QED BY <1>1, <1>2, <2>2, <2>3, SendingKeeps DEF Preparing, Busy, PolicyEnding, Delivered, Delivering, Failed
<1>5. QED BY <1>3, <1>4

LEMMA PushSteps ==
  ASSUME PWInv, ReachInv, Awake, Compare \/ CopySource \/ Send \/ SendFails
  PROVE  ReachInv'
<1>1. /\ Delivering /\ PushRecord /\ SendInv /\ LoopInv /\ push.man = prepared.man /\ ~pending.applying
      /\ push.man # NoManifest
  <2>1. Delivering /\ PushRecord /\ SendInv /\ LoopInv
    BY DEF Compare, CopySource, Send, SendFails, Delivering, PWInv, PushInv, ReachInv
  <2>2. DOMAIN NoManifest = {"none"}
    BY DEF NoManifest
  <2>3. QED BY <2>1, <2>2 DEF SendInv, Entries
<1>2. UNCHANGED <<fs, git, now, w, loop, hints, changed, moved, prepared>>
  BY DEF Compare, CopySource, Send, SendFails, Ends, EndsFiles, Step, Goes, Quiet, Kept
<1>3. ~Preparing /\ Busy /\ (HintsAny => moved \/ loop.timer)
  BY <1>1 DEF Preparing, Delivering, Busy, LoopInv
<1>4. ASSUME push'.pc \in {"copy", "send"}, push'.man = push.man, UNCHANGED <<accepted, pending, delivered>>, ~PolicyEnding
      PROVE  ReachInv'
  <2>1. Delivering' /\ ~Preparing' /\ Busy' /\ ~Delivered'
    BY <1>4 DEF Delivering, Preparing, Busy, Delivered
  <2>2. SendInv'
    BY <1>1, <1>2, <1>4, <2>1 DEF SendInv
  <2>3. QED BY <1>1, <1>2, <1>3, <1>4, <2>1, <2>2, SendingKeeps
<1>5. ASSUME push'.pc = "done", push'.outcome \in Failed \cup {"ok", "unchanged", "policy"}, SendInv',
             PolicyEnding => push'.outcome = "policy"
      PROVE  ReachInv'
  <2>1. ~Delivering' /\ ~Preparing' /\ Busy' /\ (PolicyEnding => PolicyEnding')
    BY <1>5 DEF Delivering, Preparing, Busy, PolicyEnding
  <2>2. QED BY <1>1, <1>2, <1>3, <1>5, <2>1, SendingKeeps
<1>6. ASSUME push'.pc = "done", push'.outcome \in Failed \cup {"policy"}, UNCHANGED <<accepted, pending, delivered>>
      PROVE  SendInv'
  BY <1>1, <1>6 DEF SendInv, Delivering, Preparing, Busy, Delivered, Failed
<1>7. CASE Compare
  <2>1. push.pc = "compare" /\ UNCHANGED <<accepted, pending, delivered>>
    BY <1>7 DEF Compare, Quiet, Kept
  <2>2. CASE push.ign
    <3>1. push'.pc = "done" /\ push'.outcome = "policy"
      BY <1>7, <2>2 DEF Compare, Ends, Step, Goes, Idle
    <3>2. QED BY <1>5, <1>6, <2>1, <3>1
  <2>3. CASE ~push.ign /\ push.man = accepted
    <3>1. push'.pc = "done" /\ push'.outcome = "unchanged"
      BY <1>7, <2>3 DEF Compare, Ends, Step, Goes, Idle
    <3>2. delivered = prepared.man
      BY <1>1, <2>3 DEF SendInv
    <3>3. SendInv'
      BY <1>1, <1>2, <2>1, <3>1, <3>2 DEF SendInv, Delivering, Preparing, Busy, Delivered
    <3>4. ~PolicyEnding
      BY <2>1, <2>3 DEF PolicyEnding
    <3>5. QED BY <1>5, <3>1, <3>3, <3>4
  <2>4. CASE ~push.ign /\ push.man # accepted
    <3>1. push'.pc \in {"copy", "send"} /\ push'.man = push.man
      BY <1>1, <1>7, <2>4 DEF Compare, Step, Goes, PushRecord
    <3>2. ~PolicyEnding
      BY <2>1, <2>4 DEF PolicyEnding
    <3>3. QED BY <1>4, <2>1, <3>1, <3>2
  <2>5. QED BY <2>2, <2>3, <2>4
<1>8. CASE CopySource
  <2>1. push.pc = "copy" /\ UNCHANGED <<accepted, pending, delivered>> /\ ~PolicyEnding
    BY <1>8 DEF CopySource, Quiet, Kept, PolicyEnding
  <2>2. CASE \E files : EndsFiles(files)
    <3>1. push'.pc = "done" /\ push'.outcome \in {"files", "mutated"}
      BY <2>2 DEF EndsFiles, Step, Goes, Idle
    <3>2. QED BY <1>5, <1>6, <2>1, <3>1 DEF Failed
  <2>3. CASE ~\E files : EndsFiles(files)
    <3>1. Step([push EXCEPT !.pc = "send"])
      BY <1>8, <2>3 DEF CopySource
    <3>2. push'.pc = "send" /\ push'.man = push.man
      BY <1>1, <3>1 DEF Step, Goes, PushRecord
    <3>3. QED BY <1>4, <2>1, <3>2
  <2>4. QED BY <2>2, <2>3
<1>9. CASE Send
  <2>1. /\ push.pc = "send" /\ delivered' = push.man /\ accepted' = push.man
        /\ pending' = [man |-> NoManifest, applying |-> FALSE] /\ Ends("ok")
    BY <1>9 DEF Send
  <2>2. push'.pc = "done" /\ push'.outcome = "ok" /\ ~PolicyEnding
    BY <2>1 DEF Ends, Step, Goes, Idle, PolicyEnding
  <2>3. SendInv'
    BY <1>1, <1>2, <2>1, <2>2 DEF SendInv, Delivering, Preparing, Busy, Delivered
  <2>4. QED BY <1>5, <2>2, <2>3
<1>10. CASE SendFails
  <2>1. PICK applying \in BOOLEAN :
          /\ pending' = [man |-> push.man, applying |-> applying]
          /\ delivered' \in IF applying THEN {delivered, push.man} ELSE {delivered}
    BY <1>10 DEF SendFails
  <2>2. push'.pc = "done" /\ push'.outcome = "network" /\ accepted' = accepted /\ ~PolicyEnding
    BY <1>10 DEF SendFails, Idle, PolicyEnding
  <2>3. (pending'.applying <=> applying) /\ pending' = [man |-> pending'.man, applying |-> pending'.applying]
    BY <2>1
  <2>4. ~pending'.applying => accepted' \in {NoManifest, delivered'}
    BY <1>1, <2>1, <2>2, <2>3 DEF SendInv
  <2>5. SendInv'
    BY <2>2, <2>3, <2>4 DEF SendInv, Delivering, Preparing, Busy, Delivered, Failed
  <2>6. QED BY <1>5, <2>2, <2>5 DEF Failed
<1>11. QED BY <1>7, <1>8, <1>9, <1>10

-----------------------------------------------------------------------------
(* The theorems about delivery                                             *)

LEMMA ReachInitHolds ==
  PWInit => ReachInv
<1>1. SUFFICES ASSUME PWInit PROVE ReachInv
  OBVIOUS
<1>2. /\ push = Idle /\ push.pc = "idle" /\ prepared.ev = NoEvidence /\ hints = NoHints /\ ~moved /\ loop.timer
      /\ loop = [live |-> "run", dirty |-> FALSE, timer |-> TRUE, retry |-> FALSE, retries |-> 0]
      /\ accepted = NoManifest /\ pending = [man |-> NoManifest, applying |-> FALSE]
  BY <1>1 DEF PWInit, Idle
<1>3. ~fs.ign /\ fs.ign = FALSE /\ fs.ctl = 1 /\ fs.dir["r"] = 1 /\ now = 1
  BY <1>1 DEF PWInit
<1>4. WatchInv
  <2>1. w = [pc |-> "wait", events |-> {}, lost |-> FALSE, refresh |-> FALSE, selectionChanged |-> FALSE,
             ign |-> FALSE, selected |-> TRUE,
             watching |-> {d \in Dirs : Exists(d)}, directories |-> {d \in Dirs : Exists(d)}, control |-> TRUE, stamp |-> 1]
    BY <1>1 DEF PWInit
  <2>2. Exists("r")
    BY <1>3 DEF Exists, Files
  <2>3. "r" \in w.watching /\ (Exists("s") => "s" \in w.watching)
    BY <2>1, <2>2 DEF Dirs
  <2>4. w.pc = "wait" /\ w.events = {} /\ w.ign = FALSE /\ w.stamp = 1 /\ w.selectionChanged = FALSE
    BY <2>1
  <2>5. WatchRecord
    BY <2>1 DEF WatchRecord
  <2>6. w.stamp \in Nat /\ w.stamp <= now /\ fs.ctl <= now
    BY <1>3, <2>4
  <2>7. w.ign \in BOOLEAN /\ w.ign = fs.ign
    BY <1>3, <2>4
  <2>8. w.pc \in {"wait", "refresh", "invalidate"} /\ ~w.selectionChanged
        /\ w.events \subseteq FileEvents("f") \cup FileEvents("g") \cup {SEvent, CtlEvent}
    BY <2>4
  <2>9. QED BY <2>3, <2>5, <2>6, <2>7, <2>8 DEF WatchInv, WatchRecord
<1>5. HintsInv /\ ~HintsAny
  BY <1>2, NoHintsType DEF HintsInv, HintsAny, Everything, NoHints, Preparing
<1>6. LoopInv
  BY <1>2, <1>5 DEF LoopInv, Busy
<1>7. PolicyInv /\ PreparedCurrent
  BY <1>2, <1>3 DEF PolicyInv, PreparedCurrent
<1>8. StageInv
  BY <1>2 DEF StageInv
<1>9. FinalInv /\ SendInv
  BY <1>2 DEF FinalInv, SendInv, Delivered, Delivering, Preparing, Busy
<1>10. QED BY <1>4, <1>5, <1>6, <1>7, <1>8, <1>9 DEF ReachInv

LEMMA ReachNextKeeps ==
  PWInv /\ PWInv' /\ ReachInv /\ [PWNext]_pwvars => ReachInv'
<1>1. SUFFICES ASSUME PWInv, PWInv', ReachInv, [PWNext]_pwvars PROVE ReachInv'
  OBVIOUS
<1>2. FsInv /\ FsInv'
  BY <1>1 DEF PWInv
<1>3. CASE UNCHANGED pwvars
  BY <1>1, <1>3 DEF pwvars, ReachInv, Awake, WatchInv, HintsInv, LoopInv, PolicyInv, PreparedCurrent, StageInv, FinalInv,
     SendInv, Exists, Preparing, Taken, Busy, HintsAny, Everything, Renewing, Notified, PolicyEnding, Current, Delivered,
     Delivering, Unsettled, Manifest, Version, SelectFiles, walk, gitListFiles, expandPaths
<1>4. CASE \E n \in Files : WriteFile(n) \/ ReplaceFile(n)
  BY <1>1, <1>2, <1>4, FileSteps
<1>5. CASE Mkdir \/ RemoveDir \/ EditControl
  BY <1>1, <1>2, <1>5, MkdirStep, RemoveDirStep, EditControlStep
<1>6. CASE RunEvent \/ Poll \/ Overflow \/ RunReselect \/ RunRefresh \/ RunInvalidate
  BY <1>1, <1>2, <1>6, RunEventStep, PollStep, OverflowStep, ReselectStep, RefreshStep, InvalidateStep
<1>7. CASE LoopChanged \/ LoopTimer \/ LoopCompleted \/ Stop \/ ReadError
  BY <1>1, <1>7, LoopChangedStep, LoopTimerStep, LoopCompletedStep, StopStep, ReadErrorStep
<1>8. CASE PrepareSnapshot \/ Relist \/ Read \/ Update \/ FullSelect \/ FullBuild \/ captureSelectionEvidence
           \/ listDirectories \/ FullVerify \/ BeginPush \/ Compare \/ CopySource \/ Send \/ SendFails
  <2>1. CASE Awake
    <3>1. CASE PrepareSnapshot \/ Relist \/ Read \/ Update
      BY <1>1, <2>1, <3>1, TakeStep, RelistStep, ReadStep, UpdateStep
    <3>2. CASE FullSelect \/ FullBuild \/ captureSelectionEvidence \/ listDirectories \/ FullVerify
      BY <1>1, <2>1, <3>2, FullSteps, FullVerifyStep
    <3>3. CASE BeginPush \/ Compare \/ CopySource \/ Send \/ SendFails
      BY <1>1, <2>1, <3>3, BeginStep, PushSteps
    <3>4. QED BY <1>8, <3>1, <3>2, <3>3
  <2>2. CASE ~Awake
    <3>1. loop' = loop
      BY <1>8 DEF PrepareSnapshot, Relist, Read, Update, FullSelect, FullBuild, captureSelectionEvidence, listDirectories,
         FullVerify, BeginPush, Compare, CopySource, Send, SendFails, PreparationFails, Ends, EndsFiles, Step, Goes
    <3>2. QED BY <2>2, <3>1 DEF ReachInv, Awake
  <2>3. QED BY <2>1, <2>2
<1>9. QED BY <1>1, <1>3, <1>4, <1>5, <1>6, <1>7, <1>8 DEF PWNext

\* The inductive invariant behind delivery: whatever the prepared manifest gets wrong about
\* the checkout is named by an event, a hint, or a full renewal on its way, or by the hints
\* a preparation in flight has taken; and hints never wait without the loop knowing.
THEOREM ReachInvariance == PWSpec => []ReachInv
<1>1. PWInv /\ [PWNext]_pwvars => PWInv'
  BY PWNextKeeps
<1>2. QED BY <1>1, PWInvariance, ReachInitHolds, ReachNextKeeps, PTL DEF PWSpec

\* EditsReachReceiver: when runPushWatch has come to rest, the receiver has the checkout as
\* it is, whatever was edited before, during or after the pushes, the overflows and the
\* failures that led there.
THEOREM EditsArrive == PWSpec => []EditsReachReceiver
<1>1. ReachInv => EditsReachReceiver
  <2>1. SUFFICES ASSUME ReachInv, Settled
                 PROVE  delivered = Manifest(SelectFiles)
    BY DEF EditsReachReceiver
  <2>2. /\ Awake /\ ~Busy /\ ~loop.timer /\ ~changed /\ w.pc = "wait" /\ w.events = {} /\ ~w.lost /\ ~w.refresh
        /\ git => w.stamp = fs.ctl
    BY <2>1 DEF Settled
  <2>3. LoopInv /\ PolicyInv /\ FinalInv /\ SendInv
    BY <2>1, <2>2 DEF ReachInv
  <2>4. push.pc = "idle" /\ Delivered /\ ~Preparing
    BY <2>2 DEF Delivered, Busy, Preparing
  <2>5. ~HintsAny /\ ~Renewing /\ ~Unsettled
    <3>1. ~HintsAny
      BY <2>2, <2>3, <2>4 DEF LoopInv
    <3>2. ~Renewing
      BY <2>2 DEF Renewing
    <3>3. QED BY <2>2, <3>1, <3>2 DEF Unsettled
  <2>6. ~fs.ign
    BY <2>3, <2>4, <2>5 DEF PolicyInv, PolicyEnding, HintsAny
  <2>7. QED BY <2>3, <2>4, <2>5, <2>6 DEF FinalInv, SendInv
<1>2. QED BY <1>1, ReachInvariance, PTL
=============================================================================
