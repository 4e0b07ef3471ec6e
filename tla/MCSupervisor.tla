----------------------------- MODULE MCSupervisor -----------------------------
EXTENDS Supervisor

CONSTANTS main, sub, addr1, addr2, r1, r2

OneKey == {main}
TwoKeys == {main, sub}
OneConn == {addr1}
TwoConns == {addr1, addr2}
OneReloader == {r1}
TwoReloaders == {r1, r2}
=============================================================================
