------------------------------ MODULE MCRestart ------------------------------
\* Instances of Restart for TLC.
EXTENDS Restart, TLC

CONSTANTS c1, c2, c3, h1, h2

SameHandlers == Permutations(Handlers)
=============================================================================
