---------------------------- MODULE ClientFetch ----------------------------
(***************************************************************************)
(* What `errand fetch` rests on, for TLC: the records of the client and    *)
(* their locks (ClientChanges), and the merge of one bundle (ChangeMerge). *)
(* The first treats the merge as one step, so the two share no variable: a *)
(* behaviour of this module is one of the component in focus.              *)
(*                                                                         *)
(* The paths of the merge are d, d/x, d/e and d/e/z: d is a directory of   *)
(* two modes or a file, d/x a file with three texts or another mode, d/e a *)
(* directory or a link, d/e/z a file.                                      *)
(***************************************************************************)
EXTENDS ClientChangesMC, ChangeMerge

CONSTANTS d, x, e, z

File(mode, text) == [type |-> "file", mode |-> mode, data |-> {text}]
Link(target) == [type |-> "link", mode |-> 0, data |-> {target}]

MCPaths == {d, x, e, z}
MCParent == (d :> Root) @@ (x :> d) @@ (e :> d) @@ (z :> e)
MCEntries == (d :> {Dir(0), Dir(1), File(0, 1)}) @@ (x :> {File(0, 1), File(0, 2), File(0, 3), File(1, 1)})
             @@ (e :> {Dir(0), Link(1)}) @@ (z :> {File(0, 1), File(0, 2)})
MCIgnored == {e}
MCArtifacts == {z}

VARIABLE focus

\* Texts are told apart only by being equal or not, and the second and third of x
\* and the two of z are exchangeable: the submitted tree and then the local one
\* use the later of them only when the earlier is taken.
Third(t)  == Val(t, x) = File(0, 3)
Second(t) == Val(t, z) = File(0, 2)
NamedInOrder ==
    phase = "run" => /\ Third(ours') => Val(base, x) = File(0, 2)
                     /\ Second(ours') => Val(base, z) = File(0, 1)

FetchInit ==
    \/ focus = "records" /\ MCChInit /\ MGInit /\ base = Empty
    \/ focus = "merge" /\ Scenario(NoRec, "refused", 0) /\ MGInit /\ ~Third(base) /\ ~Second(base)

FetchNext ==
    /\ UNCHANGED focus
    /\ \/ focus = "records" /\ ChNext /\ UNCHANGED mgvars
       \/ focus = "merge" /\ MGNext /\ NamedInOrder /\ UNCHANGED chvars

FetchSpec == FetchInit /\ [][FetchNext]_<<focus, chvars, mgvars>>

-----------------------------------------------------------------------------
(* The properties of the merge; RecordsSafe and AppliedOnce of the records *)
(* are ClientChanges's.                                                    *)

\* Bundles are well formed and the merge is exact, refused only for a reason, and
\* harmless when repeated (changes.go, merge.go).
MergesSound == focus = "merge" => BundleUsable /\ MergeSound

\* No edit of the user is lost, whatever the outcome of the merge (apply.go).
UserEditsKept == focus = "merge" => LocalEditsKept
=============================================================================
