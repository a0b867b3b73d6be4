------------------------------- MODULE MCLife -------------------------------
EXTENDS MdmonLife
CONSTANTS d1, d2, d3
=============================================================================
