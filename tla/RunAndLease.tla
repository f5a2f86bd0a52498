---------------------------- MODULE RunAndLease ----------------------------
(***************************************************************************)
(* The two conversations of `errand run`, for TLC: with the runners it     *)
(* submits the job to (ClientRun) and, before that, with the cloud peers   *)
(* it asks for a machine (LeaseRun).  A run is placed on a leased machine  *)
(* only once the first conversation has given it one, so they share no     *)
(* variable: a behaviour of this module is one of the one in focus.        *)
(***************************************************************************)
EXTENDS ClientRun, LeaseRun

VARIABLE focus

\* The command out of focus is a plain `errand run`.
PlainRun == ~opt.attach /\ ~opt.where /\ ~opt.detach /\ ~opt.apply

\* Bound: a third Ctrl-C is typed at plain runs and at `errand attach`.
ThirdAt == typed' < MaxSignals \/ PlainRun \/ opt.attach

RLInit ==
    /\ focus \in {"run", "lease"} /\ CRInit /\ LRInit
    /\ focus = "run" \/ PlainRun

\* A cloud peer that is not asked yet does nothing the run could tell from its
\* doing so once it is asked.
AskedOnly == \A p \in Peers : p > peer' => leaseOf'[p] = leaseOf[p]

RLNext ==
    /\ UNCHANGED focus
    /\ \/ focus = "run" /\ CRNext /\ ThirdAt /\ UNCHANGED lrVars
       \/ focus = "lease" /\ LRNext /\ AskedOnly /\ UNCHANGED clvars

RLSpec == RLInit /\ [][RLNext]_<<focus, clvars, lrVars>>

-----------------------------------------------------------------------------
(* The properties are the conversations' own: RunsOnOneRunner and          *)
(* ExitAccounted of ClientRun, LeaseFromOne of LeaseRun.                   *)
=============================================================================
