------------------------------ MODULE JobHost -------------------------------
(***************************************************************************)
(* What a runner does for jobs that compete and run, for TLC: the scheduler *)
(* (JobRunner, two jobs), the processes of one running job with its signals *)
(* (JobProcess), and the tunnels to its ports (PortForward).  JobRunner     *)
(* knows a job's processes only as alive, orphaned or gone and JobProcess   *)
(* and PortForward no other job, so a behaviour of this module is one of    *)
(* the part in focus.                                                       *)
(***************************************************************************)
EXTENDS JobRunnerMC, JobProcess, PortForward

VARIABLE focus

HostInit ==
    /\ focus \in {"jobs", "processes", "forwards"} /\ Init /\ JPInit /\ PFInit
    /\ focus = "processes" \/ ~sharedWs

\* Jobs never come to a stop; the other two may.
HostRests == focus # "jobs" /\ UNCHANGED <<vars, jpVars, pfVars>>

HostNext ==
    /\ UNCHANGED focus
    /\ \/ focus = "jobs" /\ Next /\ UNCHANGED <<jpVars, pfVars>>
       \/ focus = "processes" /\ JPNext /\ UNCHANGED <<vars, pfVars>>
       \/ focus = "forwards" /\ PFNext /\ UNCHANGED <<vars, jpVars>>
       \/ HostRests

HostSpec == HostInit /\ [][HostNext]_<<focus, vars, jpVars, pfVars>>
=============================================================================
