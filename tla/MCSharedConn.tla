----------------------------- MODULE MCSharedConn -----------------------------
EXTENDS SharedConn

CONSTANTS r1, r2, k1

TwoReaders == {r1, r2}
OneKey == {k1}
===============================================================================
