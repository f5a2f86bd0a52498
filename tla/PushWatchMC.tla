---------------------------- MODULE PushWatchMC ----------------------------
(***************************************************************************)
(* PushWatch for TLC.  The view forgets what no step and no property can   *)
(* tell apart: everything once the watch has ended (its last state but one *)
(* had the same files and evidence), which of the two marks says that a    *)
(* change came during a push, and a manifest prepared without evidence.    *)
(***************************************************************************)
EXTENDS PushWatch

\* Bound: with git, where the control is a file of its own, s is neither made nor
\* removed.
DirectoryStays == git => (fs'.dir["s"] = 0 <=> fs.dir["s"] = 0)

MCPWSpec == PWInit /\ [][PWNext /\ DirectoryStays]_pwvars

RelevantWatch ==
    IF Awake
    THEN <<fs, git, now, faults, w, hints, changed, moved \/ loop.dirty, [loop EXCEPT !.dirty = FALSE], push,
           IF prepared.ev = NoEvidence THEN NoEvidence ELSE prepared, accepted, pending, delivered>>
    ELSE <<"ended">>
=============================================================================
