----------------------------- MODULE MCBarrier -----------------------------
\* Model-checking instance of Barrier.
EXTENDS Barrier
=============================================================================
