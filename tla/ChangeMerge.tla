---------------------------- MODULE ChangeMerge ----------------------------
(***************************************************************************)
(* What becomes of a job's work on the files: the runner compares the      *)
(* workspace a job leaves with the one it was given and retains the        *)
(* difference as a bundle (changes.go, bundle.go, selection.go), and the   *)
(* client merges that bundle into a workspace that has moved on meanwhile  *)
(* (merge.go, and the checks of apply.go around it).                       *)
(* A tree is a function from paths to entries; a manifest lists the        *)
(* directories above every path, so trees are closed under Parent.         *)
(* Installing a merged tree is one step here; ApplyJournal is about it.    *)
(***************************************************************************)
EXTENDS Naturals, FiniteSets, TLC

CONSTANTS Paths,     \* paths below the workspace root
          Root,      \* the workspace root
          Parent,    \* Paths -> Paths \cup {Root}
          Entries,   \* what each path may be: Paths -> set of entries
          Ignored,   \* paths the selection policy ignores
          Artifacts  \* declared artifact paths, which override it

VARIABLES phase,   \* "run", "collected", then "applied", "kept" with --conflicts, "conflict", or "again"
          base,    \* the submitted tree
          theirs,  \* what was collected of the tree the job left
          ours,    \* the local tree
          bundle,  \* the retained changes
          final,   \* the local tree after the merge
          conflicts

mgvars == <<phase, base, theirs, ours, bundle, final, conflicts>>

Empty == <<>>
NoEntry == [type |-> "none"]
Dir(mode) == [type |-> "dir", mode |-> mode, data |-> {}]

Kinds == {"text", "clash", "binary"}

Val(t, p) == IF p \in DOMAIN t THEN t[p] ELSE NoEntry
IsDir(t, p) == p \in DOMAIN t /\ t[p].type = "dir"

RECURSIVE Up(_)
Up(p) == IF Parent[p] = Root THEN {} ELSE {Parent[p]} \cup Up(Parent[p])

AncestorsOf == [p \in Paths |-> Up(p)]
Ancestors(p) == AncestorsOf[p]
BelowOf == [p \in Paths |-> {q \in Paths: q = p \/ p \in Up(q)}]
Below(p) == BelowOf[p]
Cut(t, S) == [q \in DOMAIN t \cap S |-> t[q]]
Sub(t, p) == Cut(t, Below(p))

WellFormed(t) == \A p \in DOMAIN t: Parent[p] = Root \/ IsDir(t, Parent[p])

Trees ==
    {t \in UNION {[S -> UNION {Entries[p]: p \in S}]: S \in SUBSET Paths}:
        /\ WellFormed(t) /\ \A p \in DOMAIN t: t[p] \in Entries[p]}

-----------------------------------------------------------------------------
(* Collection                                                              *)

Submitted(p) == p \in DOMAIN base
Needed == UNION {Ancestors(p): p \in DOMAIN base \cup Artifacts}
InArtifact(p) == p \in Artifacts \/ Ancestors(p) \cap Artifacts # {}

\* selectKind: submitted paths and artifacts are always retained; an ignored directory is
\* entered only on the way to one of them.
Included(p) == Submitted(p) \/ InArtifact(p) \/ p \notin Ignored
Descends(p) == Included(p) \/ p \in Needed

\* workspacePathsForBaselineContext, and expandPaths: the directories above are listed too.
Collected(t) ==
    LET found == {p \in DOMAIN t: Included(p) /\ \A a \in Ancestors(p): Descends(a)} IN
    Cut(t, found \cup UNION {Ancestors(p): p \in found})

Diff(before, after) == {p \in Paths: Val(before, p) # Val(after, p)}

\* Mutant: a change below another root is a root of its own.
BugContentRoots(changed, metadata) == changed \ metadata

ContentRoots(changed, metadata) == {p \in changed \ metadata: Ancestors(p) \cap (changed \ metadata) = {}}

\* selectSnapshotDelta: a directory changed only in its mode is a metadata path; any other
\* change is a root that covers what is below it.  The ancestors of each are retained.
workspaceDelta(before, after) ==
    LET changed == Diff(before, after)
        metadata == {p \in changed: IsDir(before, p) /\ IsDir(after, p)}
        content == ContentRoots(changed, metadata)
        kept == metadata \cup UNION {Below(p): p \in content}
                         \cup UNION {Ancestors(p): p \in metadata \cup content} IN
    [paths |-> metadata \cup content, metadata |-> metadata,
     base |-> Cut(before, kept), remote |-> Cut(after, kept)]

\* Every entry of a bundle is at a root, below one, or a directory above one.
bundleEntryDeclared(t, p, paths) ==
    \/ p \in paths \/ Ancestors(p) \cap paths # {}
    \/ IsDir(t, p) /\ \E q \in paths: p \in Ancestors(q)

\* ValidateBundleContext: what every reader of a bundle insists on.
ValidBundle(b) ==
    /\ b.metadata \subseteq b.paths
    /\ \A p \in b.paths: Ancestors(p) \cap b.paths \subseteq b.metadata
    /\ \A t \in {b.base, b.remote}: WellFormed(t) /\ \A p \in DOMAIN t: bundleEntryDeclared(t, p, b.paths)
    /\ \A p \in b.paths:
          LET scope == IF p \in b.metadata THEN {p} ELSE Below(p)
              before == Cut(b.base, scope)
              after == Cut(b.remote, scope) IN
          /\ before # after
          /\ (p \in b.metadata) <=>
                DOMAIN before = {p} /\ DOMAIN after = {p} /\ IsDir(before, p) /\ IsDir(after, p)

-----------------------------------------------------------------------------
(* Three-way merge                                                         *)

\* mergeMode and mergeString: one value of which at most one side changed.
Mergeable(b, o, r) == o = r \/ o = b \/ r = b
MergedEntry(b, o, r) == IF o = r \/ r = b THEN o ELSE r

MergeModeOK(b, o, r) == IF b = NoEntry THEN o.mode = r.mode ELSE Mergeable(b.mode, o.mode, r.mode)
mergeMode(b, o, r) == IF b = NoEntry THEN o.mode ELSE MergedEntry(b.mode, o.mode, r.mode)

\* A text is the set of edits it shows.  git merge-file of two of them: a side that already
\* shows the other's edits stands, and two edits are both in the result.
Settled(b, o, r) == Mergeable(b, o, r) \/ r \subseteq o
mergeFile(b, o, r) == IF r \subseteq o THEN o ELSE IF Mergeable(b, o, r) THEN MergedEntry(b, o, r) ELSE o \cup r
Markers == {0}

Nothing == [tree |-> Empty, conflicts |-> {}]
copyMergeSubtree(t, p) == [tree |-> Sub(t, p), conflicts |-> {}]

\* Mutant: a conflict that is materialised drops the local subtree.
BugConflict(o, p, keep) == [tree |-> Empty, conflicts |-> {p}]

\* With --conflicts the local subtree stands.
Conflict(o, p, keep) == [tree |-> IF keep THEN Sub(o, p) ELSE Empty, conflicts |-> {p}]

Join(a, b) == [tree |-> a.tree @@ b.tree, conflicts |-> a.conflicts \cup b.conflicts]

RECURSIVE JoinAll(_)
JoinAll(S) == IF S = {} THEN Nothing ELSE LET one == CHOOSE m \in S: TRUE IN Join(one, JoinAll(S \ {one}))

\* kind says how the files are: "text" that merges, a text that "clash"es, or "binary".
mergeRegularFile(ot, p, b, o, r, kind, keep) ==
    LET modeOK == MergeModeOK(b, o, r)
        mode == IF modeOK THEN mergeMode(b, o, r) ELSE o.mode
        clean == Settled(b.data, o.data, r.data) \/ kind = "text"
        text == mergeFile(b.data, o.data, r.data) \cup (IF clean THEN {} ELSE Markers) IN
    IF (~modeOK /\ ~keep) \/ kind = "binary" \/ (~clean /\ ~keep) THEN Conflict(ot, p, keep)
    ELSE [tree |-> p :> [type |-> "file", mode |-> mode, data |-> text],
          conflicts |-> IF modeOK /\ clean THEN {} ELSE {p}]

\* changedSubtrees marks every directory above a change.
Unchanged(l, r, p) == Sub(l, p) = Sub(r, p)

RECURSIVE mergeTreePath(_, _, _, _, _, _)
mergeTreePath(p, bt, ot, rt, kind, keep) ==
    LET b == Val(bt, p)
        o == Val(ot, p)
        r == Val(rt, p)
        all(type) == b.type = type /\ o.type = type /\ r.type = type IN
    IF Unchanged(ot, rt, p) THEN copyMergeSubtree(ot, p)
    ELSE IF Unchanged(bt, ot, p) THEN copyMergeSubtree(rt, p)
    ELSE IF Unchanged(bt, rt, p) THEN copyMergeSubtree(ot, p)
    ELSE   IF o.type = "dir" /\ r.type = "dir" /\ b.type \in {"none", "dir"}
           THEN IF ~MergeModeOK(b, o, r) THEN Conflict(ot, p, keep)
                ELSE Join([tree |-> p :> Dir(mergeMode(b, o, r)), conflicts |-> {}],
                          JoinAll({mergeTreePath(q, bt, ot, rt, kind, keep): q \in {q \in Paths: Parent[q] = p}}))
           ELSE IF all("file") THEN mergeRegularFile(ot, p, b, o, r, kind, keep)
           ELSE IF all("link") /\ Mergeable(b.data, o.data, r.data) /\ MergeModeOK(b, o, r)
           THEN [tree |-> p :> [o EXCEPT !.data = MergedEntry(b.data, o.data, r.data)], conflicts |-> {}]
           ELSE Conflict(ot, p, keep)

mergeMetadataPath(p, bt, ot, rt, keep) ==
    IF ~(IsDir(bt, p) /\ IsDir(ot, p) /\ IsDir(rt, p)) THEN Conflict(ot, p, keep)
    ELSE IF MergeModeOK(bt[p], ot[p], rt[p])
    THEN [tree |-> p :> Dir(mergeMode(bt[p], ot[p], rt[p])), conflicts |-> {}]
    ELSE [tree |-> IF keep THEN p :> ot[p] ELSE Empty, conflicts |-> {p}]

mergeChangeRoots(b, paths, local, kind, keep) ==
    JoinAll({IF p \in b.metadata THEN mergeMetadataPath(p, b.base, local, b.remote, keep)
             ELSE mergeTreePath(p, b.base, local, b.remote, kind, keep): p \in paths})

-----------------------------------------------------------------------------
(* ApplyToWorkspace up to the installation                                 *)

\* applyParentPolicies: a directory the job was given above a change must still be one.
ParentConflicts(b, paths, t) ==
    UNION {{a \in Ancestors(p): IsDir(b.base, a) /\ ~IsDir(t, a)}: p \in paths}

\* captureApplyInputs: a metadata path must still be a directory.
InputConflicts(b, paths, t) == {p \in paths \cap b.metadata: ~IsDir(t, p)}

rootsOutsideConflicts(paths, cs) ==
    {p \in paths: \A c \in cs: p # c /\ c \notin Ancestors(p) /\ p \notin Ancestors(c)}

\* A content root is replaced as a whole; a metadata path only changes its mode.
Installed(t, b, paths, merged) ==
    LET roots == paths \ b.metadata
        gone == UNION {Below(p): p \in roots}
        rest == Cut(t, Paths \ gone) IN
    Cut(merged, gone) @@ [p \in DOMAIN rest |->
        IF p \in paths \cap b.metadata /\ p \in DOMAIN merged THEN [rest[p] EXCEPT !.mode = merged[p].mode]
        ELSE rest[p]]

\* Without --conflicts any conflict fails the whole apply; with it the roots that clash are
\* left as they are, texts get markers, and the rest is installed.
MergeBundle(t, kind, keep) ==
    LET early == ParentConflicts(bundle, bundle.paths, t)
        some == rootsOutsideConflicts(bundle.paths, early)
        inputs == InputConflicts(bundle, some, t)
        paths == rootsOutsideConflicts(some, inputs)
        m == mergeChangeRoots(bundle, paths, t, kind, keep)
        all == early \cup inputs \cup m.conflicts IN
    [ok |-> keep \/ all = {}, conflicts |-> all,
     tree |-> IF keep \/ all = {} THEN Installed(t, bundle, paths, m.tree) ELSE t]

-----------------------------------------------------------------------------
MGInit ==
    /\ phase = "run" /\ base \in Trees /\ theirs = base /\ ours = base
    /\ bundle = workspaceDelta(Empty, Empty) /\ final = Empty /\ conflicts = {}

\* The job edits its workspace while the user edits the local one; then the job ends and
\* its changes are collected.
CollectWorkspaceChanges ==
    /\ phase = "run" /\ phase' = "collected"
    /\ \E t \in Trees: theirs' = Collected(t)
    /\ ours' \in Trees
    /\ bundle' = workspaceDelta(base, theirs')
    /\ UNCHANGED <<base, final, conflicts>>

Apply ==
    /\ phase = "collected"
    /\ \E keep \in BOOLEAN, kind \in Kinds:
          LET result == MergeBundle(ours, kind, keep) IN
          /\ final' = result.tree /\ conflicts' = result.conflicts
          /\ phase' = IF ~result.ok THEN "conflict" ELSE IF keep THEN "kept" ELSE "applied"
    /\ UNCHANGED <<base, theirs, ours, bundle>>

\* The record of an apply is lost and the same bundle is applied once more.  The files two
\* sides edited were texts that merged, or the first apply would have failed.
ApplyAgain ==
    /\ phase = "applied" /\ phase' = "again"
    /\ LET result == MergeBundle(final, "text", FALSE) IN
       final' = result.tree /\ conflicts' = result.conflicts
    /\ ours' = final
    /\ UNCHANGED <<base, theirs, bundle>>

MGNext == CollectWorkspaceChanges \/ Apply \/ ApplyAgain

MGSpec == MGInit /\ [][MGNext]_mgvars

-----------------------------------------------------------------------------
(* Properties                                                              *)

\* Whatever a job does to its files, the bundle retained for it is one that every reader
\* accepts: its roots do not overlap, and each is a change of the kind it claims to be.
BundleUsable == bundle.paths # {} => ValidBundle(bundle)

\* Reference: path by path, without regard to directories.  A side that did not change a
\* path yields to the other; two edits of a file are merged as texts.
Settles(p) == Mergeable(Val(base, p), Val(ours, p), Val(theirs, p))
TwoEdits(p) ==
    LET b == Val(base, p) o == Val(ours, p) r == Val(theirs, p) IN
    b.type = "file" /\ o.type = "file" /\ r.type = "file" /\ MergeModeOK(b, o, r)
Wanted(p) ==
    LET b == Val(base, p) o == Val(ours, p) r == Val(theirs, p) IN
    IF Settles(p) THEN MergedEntry(b, o, r)
    ELSE [type |-> "file", mode |-> mergeMode(b, o, r), data |-> mergeFile(b.data, o.data, r.data)]
Pointwise == [p \in {p \in Paths: (Settles(p) \/ TwoEdits(p)) /\ Wanted(p) # NoEntry} |-> Wanted(p)]

\* A successful merge is the path-by-path one.
MergeExact ==
    phase = "applied" =>
        /\ \A p \in Paths: Settles(p) \/ TwoEdits(p)
        /\ final = Pointwise /\ WellFormed(final)

\* What one side holds at p is no directory, and the other changed something below p.
Severed(p) ==
    /\ \E t \in {ours, theirs}: ~IsDir(t, p)
    /\ Sub(base, p) # Sub(ours, p) /\ Sub(base, p) # Sub(theirs, p) /\ Sub(ours, p) # Sub(theirs, p)

\* A refused merge leaves the workspace alone, and has a reason: a path both sides changed
\* differently, a directory one side gave up while the other worked below it, or a new
\* directory on both sides of what was none.
ConflictReal ==
    phase = "conflict" =>
        /\ final = ours /\ conflicts # {}
        /\ \E p \in Paths:
              \/ ~Settles(p) \/ Severed(p)
              \/ IsDir(ours, p) /\ IsDir(theirs, p) /\ p \in DOMAIN base /\ ~IsDir(base, p)

\* Applying once more what is already there changes nothing and finds no conflict.
AgainNothing == phase = "again" => final = ours /\ conflicts = {}

\* The merge does what a user expects of it: exact when it succeeds, refused only for a
\* reason, and harmless when repeated.
MergeSound == MergeExact /\ ConflictReal /\ AgainNothing

Carries(f, o, b) ==
    \/ f = o
    \/ /\ b.type = o.type /\ f.type = o.type
       /\ o.mode # b.mode => f.mode = o.mode
       /\ o.data # b.data => o.data \subseteq f.data

\* No edit the user made is lost, whether the apply succeeds, fails, or materialises its
\* conflicts: the path keeps the user's value or a text that contains it.
LocalEditsKept ==
    phase \in {"applied", "kept", "conflict"} =>
        \A p \in Paths: Val(ours, p) # Val(base, p) => Carries(Val(final, p), Val(ours, p), Val(base, p))
=============================================================================
