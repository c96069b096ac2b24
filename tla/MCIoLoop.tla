------------------------------ MODULE MCIoLoop ------------------------------
\* Model-checking instance of IoLoop.
EXTENDS IoLoop
=============================================================================
