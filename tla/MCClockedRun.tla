---------------------------- MODULE MCClockedRun ----------------------------
(* A primary clock, a slower and a faster one.  The edges of all three         *)
(* coincide only now and then.                                                 *)
EXTENDS ClockedRun

MCHalf == <<2, 3, 1>>
=============================================================================
