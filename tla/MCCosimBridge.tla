--------------------------- MODULE MCCosimBridge ---------------------------
(* A test of a few clock edges with settles in between.                      *)
EXTENDS CosimBridge
=============================================================================
