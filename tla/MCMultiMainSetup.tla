--------------------------- MODULE MCMultiMainSetup ---------------------------
EXTENDS MultiMainSetup

CONSTANTS m1, m2

MCTwoMains == {m1, m2}
===============================================================================
