------------------------------ MODULE MCJsonRpc ------------------------------
\* Model-checking instance of JsonRpc.
EXTENDS JsonRpc

MCHex == <<"0000", "0001", "0002">>
=============================================================================
