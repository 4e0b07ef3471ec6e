---------------------------- MODULE MCEventRelay ----------------------------
EXTENDS EventRelay

CONSTANT a

OneCamera == {a}
=============================================================================
