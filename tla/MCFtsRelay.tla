----------------------------- MODULE MCFtsRelay -----------------------------
EXTENDS FtsRelay

CONSTANTS c1, c2, u1, u2, p1, v1, v2

MCConn == {c1, c2}
MCUid == {u1, u2}
MCWinTak == {u2}
MCPoint == {p1}
MCVersion == {v1, v2}
=============================================================================
