----------------------------- MODULE MCIoStream -----------------------------
\* Model-checking instance of IoStream.
EXTENDS IoStream
=============================================================================
