----------------------------- MODULE MCLifecycle -----------------------------
EXTENDS SessionLifecycle, TLC

\* Connection tasks are interchangeable.
Symm == Permutations(Conns)
=============================================================================
