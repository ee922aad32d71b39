--------------------------- MODULE MCVirtioBlock ---------------------------
EXTENDS VirtioBlock

CONSTANTS v1, v2

MCValues == {v1, v2}
=============================================================================
