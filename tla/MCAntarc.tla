------------------------------ MODULE MCAntarc ------------------------------
EXTENDS AntarcSequences
=============================================================================
