-------------------------------- MODULE MCHub --------------------------------
EXTENDS Hub

CONSTANTS s1, s2

Pair == {s1, s2}
=============================================================================
