------------------------------ MODULE MCSerial ------------------------------
EXTENDS Serial

MCIncrements == {-1, 0, 1, 2, Half - 2, Half - 1, Half}
=============================================================================
