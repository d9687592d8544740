---------------------------- MODULE MCConnection ----------------------------
EXTENDS Connection, TLC
=============================================================================
