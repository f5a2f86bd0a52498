--------------------------- MODULE LeaseBrokerMC ---------------------------
\* Instances of LeaseBroker for TLC.  Requests are interchangeable, and values
\* that no later step or property reads tell no states apart.
EXTENDS LeaseBroker, TLC

Symmetry == Permutations(Requests)

Read(r) == [r EXCEPT !.created = IF r.state \in {"launching", "ready"} THEN @ ELSE 0]

\* Only a restart reads more of a record on disk than its state.
OnDisk(r) == IF up /\ crashes = MaxCrashes THEN r.state ELSE Read(r)

\* A claim or a sign of work counts until the idle window it began is over.
Idle(t) == IF now < t + IdleTimeout THEN t ELSE Never

Waits(p) == p \in {"acquire", "waitready", "probe", "sleep", "release", "retry"}

Relevant ==
    <<now, up, IF up THEN upSince ELSE 0, Unexpired, made, crashes, faults,
      [l \in Leases |->
         <<machine[l], OnDisk(disk[l]), Read(mem[l]), pc[l], IF Waits(pc[l]) THEN until[l] ELSE 0,
           IF mem[l].state = "ready" THEN <<Idle(lastBusy[l]), checkFailed[l]>> ELSE <<>>,
           IF "ready" \in {disk[l].state, mem[l].state} THEN Idle(claimed[l]) ELSE Never>>],
      [q \in Requests |-> IF Withdrew(q, {"found", "unknown"}) THEN answered[q] ELSE NoAnswer]>>
=============================================================================
