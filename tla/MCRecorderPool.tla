---------------------------- MODULE MCRecorderPool ----------------------------
EXTENDS RecorderPool

CONSTANTS r1, r2, k1, k2, c1, c2

TwoReaders == {r1, r2}
TwoKeys == {k1, k2}
TwoConns == {c1, c2}
===============================================================================
