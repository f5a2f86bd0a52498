-------------------------- MODULE ClientChangesMC --------------------------
(* Model-checking instance of ClientChanges: two jobs in one checkout, the *)
(* second already finished with its changes on the runner, or one job with *)
(* inspections and collections.                                            *)
EXTENDS ClientChanges, TLC

CONSTANTS first, second

Finished == [NewRecord(second) EXCEPT !.started = TRUE, !.terminal = TRUE]

Scenario(r, s, looks) ==
    /\ rec = [j \in ChJobs |-> IF j = second THEN r ELSE NoRec]
    /\ remote = [j \in ChJobs |-> IF j = second THEN s ELSE "unsent"]
    /\ used = [crash |-> 0, look |-> looks, edit |-> [j \in ChJobs |-> IF j = second THEN MaxChEdit ELSE 0],
              fetch |-> [j \in ChJobs |-> 0]]
    /\ file = [j \in ChJobs |-> "base"] /\ txn = [j \in ChJobs |-> "none"]
    /\ staged = [j \in ChJobs |-> FALSE] /\ age = [j \in ChJobs |-> 0]
    /\ pr = [p \in ChProcs |-> Idle] /\ wsl = NoProc
    /\ xfer = [j \in ChJobs |-> NoProc] /\ autol = [j \in ChJobs |-> NoProc]
    /\ lease = [j \in ChJobs |-> NoProc]
    /\ merges = [j \in ChJobs |-> 0] /\ torn = [j \in ChJobs |-> FALSE]
    /\ done = [j \in ChJobs |-> FALSE] /\ told = FALSE

MCChInit == Scenario(Finished, "changes", MaxLook) \/ Scenario(NoRec, "refused", 0)

MCChSpec == MCChInit /\ [][ChNext]_chvars

ChSymmetry == Permutations(ChProcs)
=============================================================================
