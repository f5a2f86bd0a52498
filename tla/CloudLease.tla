---------------------------- MODULE CloudLease ----------------------------
(***************************************************************************)
(* A cloud peer for TLC: the broker that gives leases to runs (LeaseBroker)*)
(* and the provider that turns one lease into one Lambda instance and back *)
(* (LambdaProvider).  The broker sees of its provider only that Acquire    *)
(* and Release succeed or fail, so the two share no variable: a behaviour  *)
(* of this module is one of the component in focus.                        *)
(***************************************************************************)
EXTENDS LeaseBrokerMC, LambdaProvider

VARIABLE focus

\* An offer without and one with file systems, on two regions.
MCOffers ==
    {[regions |-> <<>>, fileSystems |-> <<>>, available |-> <<"r1", "r2">>],
     [regions |-> <<"r2", "r1">>, fileSystems |-> <<"r1">>, available |-> <<"r2">>]}

CloudInit == focus \in {"broker", "lambda"} /\ Init /\ LMInit

\* Bound: both failing writes are met with one lease, with two leases one of them.
LeasesAndFaults == made' + faults' < Made + MaxFaults

CloudNext ==
    /\ UNCHANGED focus
    /\ \/ focus = "broker" /\ Next /\ LeasesAndFaults /\ UNCHANGED lmVars
       \/ focus = "lambda" /\ LMNext /\ UNCHANGED vars

CloudSpec == CloudInit /\ [][CloudNext]_<<focus, vars, lmVars>>

\* What the next steps of the provider can still read: Acquire's state only while
\* it runs, the time a request is due only while it is open, nothing but the
\* instances once the lease is released.
Opened(n) == IF inst[n] \in {"inflight", "registering"} THEN due[n] ELSE 0
RelevantInstance ==
    IF rel = "released" THEN <<inst>>
    ELSE <<wall, held, kept, inst, [n \in Sends |-> Opened(n)], apiKey, rel, snap, slips, stops,
           state.key, step, IF step = "returned" THEN <<>> ELSE <<state, cut, began>>>>

InFocus == IF focus = "broker" THEN Relevant ELSE RelevantInstance

-----------------------------------------------------------------------------
(* The properties are the components' own; the one out of focus stays at    *)
(* its initial state.                                                       *)
=============================================================================
