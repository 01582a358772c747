--------------------------- MODULE MCTlmInitiator ---------------------------
EXTENDS TlmInitiator
=============================================================================
