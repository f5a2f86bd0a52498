---------------------------- MODULE JobContract ----------------------------
(***************************************************************************)
(* What the runner promises about a job, whatever happens to the daemon:   *)
(* its command runs at most once, and at most one verdict is recorded,     *)
(* which is final.  A verdict that claims to know whether the command ran  *)
(* is right and stays right: after "never ran" the command does not start, *)
(* after any verdict it does not start again.                              *)
(***************************************************************************)
CONSTANTS Jobs, NeverRan, Ran, Ambiguous, Undecided

VARIABLES ran,      \* jobs whose command was started
          recorded  \* the durable verdict of each job

vars == <<ran, recorded>>

Init == ran = {} /\ recorded = [j \in Jobs |-> Undecided]

\* The command starts: once, and never after a verdict.
Start(j) ==
    /\ j \notin ran
    /\ recorded[j] = Undecided
    /\ ran' = ran \cup {j}
    /\ UNCHANGED recorded

\* A verdict is recorded: once, and in accordance with what happened.
Record(j, v) ==
    /\ recorded[j] = Undecided
    /\ v \in NeverRan => j \notin ran
    /\ v \in Ran => j \in ran
    /\ recorded' = [recorded EXCEPT ![j] = v]
    /\ UNCHANGED ran

Next == \E j \in Jobs : \/ Start(j)
                        \/ \E v \in NeverRan \cup Ran \cup {Ambiguous} : Record(j, v)

Spec == Init /\ [][Next]_vars
=============================================================================
