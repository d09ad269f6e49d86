---------------------------- MODULE MCCommInput -----------------------------
EXTENDS CommInput
=============================================================================
