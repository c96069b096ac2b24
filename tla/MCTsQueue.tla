----------------------------- MODULE MCTsQueue -----------------------------
\* Model-checking instance of TsQueue.
EXTENDS TsQueue
=============================================================================
