---------------------------- MODULE MCCommOutput ----------------------------
EXTENDS CommOutput
=============================================================================
