------------------------- MODULE MCConcurrencyControl -------------------------
EXTENDS ConcurrencyControl

CONSTANTS c1, c2, c3, c4, e1, e2, e3

MCCalls == {c1, c2, c3, c4}
MCExecutions == {e1, e2, e3}
MCCallerModes == {"webhook", "manual"}
MCNone == {}
===============================================================================
