----------------------------- MODULE MCJobStore -----------------------------
\* JobStore for the model checker: processes are interchangeable.
EXTENDS JobStore, TLC

Symmetry == Permutations(Process)
=============================================================================
