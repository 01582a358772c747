------------------------------ MODULE MCBarrier ------------------------------
EXTENDS Barrier
=============================================================================
