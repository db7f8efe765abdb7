------------------------------ MODULE MCBuffer ------------------------------
EXTENDS Buffer
MCToken == {0, 1}
=============================================================================
