----------------------------- MODULE MCHandover -----------------------------
EXTENDS ArrayHandover
=============================================================================
