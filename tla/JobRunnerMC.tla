---------------------------- MODULE JobRunnerMC ----------------------------
\* Instances of JobRunner for TLC.  Jobs are interchangeable: no action orders
\* them, so runs without liveness use their permutations.
EXTENDS JobRunner, TLC

Symmetry == Permutations(Jobs)
=============================================================================
