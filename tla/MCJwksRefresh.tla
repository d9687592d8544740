--------------------------- MODULE MCJwksRefresh ---------------------------
EXTENDS JwksRefresh, TLC
=============================================================================
