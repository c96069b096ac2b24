--------------------------- MODULE MCThreadEvent ---------------------------
\* Model-checking instance of ThreadEvent.
EXTENDS ThreadEvent
=============================================================================
